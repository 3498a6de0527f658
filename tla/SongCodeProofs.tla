--------------------------- MODULE SongCodeProofs ---------------------------
(***************************************************************************)
(* What the writer stores the parser finds again, for songs of any length:   *)
(* the rows of a packed pattern and the commands of an orderlist.  Both are  *)
(* read by recursion over the bytes, so each operator is first shown to have *)
(* a solution that obeys its recursion, and induction over lengths (the set  *)
(* of the lengths that have the property is all of them) does the rest.  The *)
(* lemmas on what a packed pattern still carries at a position serve the     *)
(* player's reader too.                                                     *)
(***************************************************************************)
EXTENDS SongCode, SequenceTheorems, WellFoundedInduction, TLAPS

\* A set that holds 0 and every successor of its members holds every natural number.
LEMMA SetInduction ==
  ASSUME NEW S, 0 \in S, \A n \in Nat : n \in S => n + 1 \in S
  PROVE  Nat \subseteq S
<1> DEFINE T == {n \in Nat : n \notin S}
           R == {ss \in Nat \X Nat : ss[1] < ss[2]}
<1>1. IsWellFoundedOn(R, Nat)
  BY NatLessThanWellFounded DEF OpToRel
<1>2. SUFFICES ASSUME T # {} PROVE FALSE
  OBVIOUS
<1> HIDE DEF R
<1>3. PICK x \in T : \A z \in T : ~(<<z, x>> \in R)
  BY <1>1, <1>2, WFMin
<1>4. x \in Nat /\ x # 0 /\ x - 1 \in Nat
  OBVIOUS
<1>5. <<x - 1, x>> \in R
  BY <1>4 DEF R
<1>6. x - 1 \notin T
  BY <1>3, <1>5
<1> QED  BY <1>4, <1>6

\* Downwards.
LEMMA DownInduction ==
  ASSUME NEW m \in Nat, NEW S, m \in S, \A n \in 1 .. m : n \in S => n - 1 \in S
  PROVE  0 .. m \subseteq S
<1> DEFINE T == {n \in Nat : n <= m => m - n \in S}
<1>1. 0 \in T
  OBVIOUS
<1>2. ASSUME NEW n \in Nat, n \in T PROVE n + 1 \in T
  <2>1. CASE n + 1 <= m
    <3>1. m - n \in S /\ m - n \in 1 .. m
      BY <1>2, <2>1
    <3>2. (m - n) - 1 \in S
      BY <3>1
    <3>3. (m - n) - 1 = m - (n + 1)
      OBVIOUS
    <3> QED  BY <3>2, <3>3
  <2> QED  BY <2>1
<1> HIDE DEF T
<1>3. Nat \subseteq T
  BY <1>1, <1>2, SetInduction
<1>4. ASSUME NEW k \in 0 .. m PROVE k \in S
  <2>1. m - k \in T /\ m - k \in Nat /\ m - k <= m /\ m - (m - k) = k
    BY <1>3
  <2> QED  BY <2>1 DEF T
<1> QED  BY <1>4

-----------------------------------------------------------------------------
(* Sequences put end to end.                                                *)

FlattenFcn(seqs) ==
  CHOOSE f : f = [i \in 1 .. Len(seqs) |-> IF i = 1 THEN seqs[i] ELSE f[i - 1] \o seqs[i]]

\* The partial concatenations obey the recursion that FlattenSeq is defined by.
LEMMA FlattenFcnDef ==
  ASSUME NEW seqs, Len(seqs) \in Nat
  PROVE  FlattenFcn(seqs) =
           [i \in 1 .. Len(seqs) |-> IF i = 1 THEN seqs[i] ELSE FlattenFcn(seqs)[i - 1] \o seqs[i]]
<1> DEFINE Is(g, n) == g = [i \in 1 .. n |-> IF i = 1 THEN seqs[i] ELSE g[i - 1] \o seqs[i]]
           S == {n \in Nat : \E g : Is(g, n)}
<1>1. 0 \in S
  <2> DEFINE g == [i \in 1 .. 0 |-> 0]
  <2>1. Is(g, 0)
    OBVIOUS
  <2> QED  BY <2>1
<1>2. ASSUME NEW n \in Nat, n \in S PROVE n + 1 \in S
  <2>1. PICK g : Is(g, n)
    BY <1>2
  <2> DEFINE h == [i \in 1 .. n + 1 |-> IF i = n + 1 THEN (IF i = 1 THEN seqs[i] ELSE g[i - 1] \o seqs[i])
                                        ELSE g[i]]
  <2>2. ASSUME NEW i \in 1 .. n + 1
        PROVE  h[i] = IF i = 1 THEN seqs[i] ELSE h[i - 1] \o seqs[i]
    <3>1. i # 1 => i - 1 \in 1 .. n + 1 /\ i - 1 # n + 1
      OBVIOUS
    <3>2. CASE i = n + 1
      BY <3>1, <3>2
    <3>3. CASE i # n + 1
      <4>1. i \in 1 .. n
        BY <3>3
      <4>2. g[i] = IF i = 1 THEN seqs[i] ELSE g[i - 1] \o seqs[i]
        BY <2>1, <4>1
      <4> QED  BY <3>1, <3>3, <4>2
    <3> QED  BY <3>2, <3>3
  <2>3. h = [i \in 1 .. n + 1 |-> h[i]]
    OBVIOUS
  <2> HIDE DEF h
  <2>4. Is(h, n + 1)
    BY <2>2, <2>3
  <2> HIDE DEF Is
  <2> QED  BY <2>4
<1> HIDE DEF S
<1>3. Len(seqs) \in S
  BY <1>1, <1>2, SetInduction
<1>4. \E g : Is(g, Len(seqs))
  BY <1>3 DEF S
<1> QED  BY <1>4 DEF FlattenFcn

\* The concatenation is the last of the partial ones.
LEMMA FlattenIs ==
  ASSUME NEW seqs, Len(seqs) # 0
  PROVE  FlattenSeq(seqs) = FlattenFcn(seqs)[Len(seqs)]
BY DEF FlattenSeq, FlattenFcn

\* A partial concatenation is the one before it and one sequence more.
LEMMA FlattenStep ==
  ASSUME NEW seqs, Len(seqs) \in Nat, NEW i \in 1 .. Len(seqs)
  PROVE  FlattenFcn(seqs)[i] = IF i = 1 THEN seqs[i] ELSE FlattenFcn(seqs)[i - 1] \o seqs[i]
<1> DEFINE f == FlattenFcn(seqs)
<1>1. f = [k \in 1 .. Len(seqs) |-> IF k = 1 THEN seqs[k] ELSE f[k - 1] \o seqs[k]]
  BY FlattenFcnDef
<1> HIDE DEF f
<1>2. f[i] = IF i = 1 THEN seqs[i] ELSE f[i - 1] \o seqs[i]
  BY <1>1
<1> QED  BY <1>2 DEF f

\* The same, counted up.
LEMMA FlattenNext ==
  ASSUME NEW seqs, Len(seqs) \in Nat, NEW n \in Nat \ {0}, n + 1 <= Len(seqs)
  PROVE  FlattenFcn(seqs)[n + 1] = FlattenFcn(seqs)[n] \o seqs[n + 1]
<1>1. n + 1 \in 1 .. Len(seqs) /\ n + 1 # 1 /\ (n + 1) - 1 = n
  OBVIOUS
<1> QED  BY <1>1, FlattenStep

\* The concatenation of sequences is one.
LEMMA FlattenType ==
  ASSUME NEW T, NEW seqs \in Seq(Seq(T))
  PROVE  /\ FlattenSeq(seqs) \in Seq(T)
         /\ \A i \in 1 .. Len(seqs) : FlattenFcn(seqs)[i] \in Seq(T)
<1> DEFINE f == FlattenFcn(seqs)
           S == {n \in Nat : n + 1 <= Len(seqs) => f[n + 1] \in Seq(T)}
<1>0. Len(seqs) \in Nat
  OBVIOUS
<1>1. 0 \in S
  <2>1. 1 <= Len(seqs) => f[1] = seqs[1] /\ seqs[1] \in Seq(T)
    BY <1>0, FlattenStep
  <2> QED  BY <2>1
<1>2. ASSUME NEW n \in Nat, n \in S PROVE n + 1 \in S
  <2> SUFFICES ASSUME n + 2 <= Len(seqs) PROVE f[n + 2] \in Seq(T)
    OBVIOUS
  <2>1. f[n + 2] = f[n + 1] \o seqs[n + 2]
    <3>1. (n + 1) + 1 = n + 2 /\ n + 1 \in Nat \ {0}
      OBVIOUS
    <3> QED  BY <1>0, <3>1, FlattenNext
  <2>2. f[n + 1] \in Seq(T) /\ seqs[n + 2] \in Seq(T)
    BY <1>2, ElementOfSeq
  <2> HIDE DEF f
  <2> QED  BY <2>1, <2>2, ConcatProperties
<1> HIDE DEF S
<1>3. Nat \subseteq S
  BY <1>1, <1>2, SetInduction
<1>4. ASSUME NEW i \in 1 .. Len(seqs) PROVE f[i] \in Seq(T)
  <2>1. i - 1 \in S /\ (i - 1) + 1 = i
    BY <1>3
  <2> HIDE DEF f
  <2> QED  BY <2>1 DEF S
<1>5. FlattenSeq(seqs) \in Seq(T)
  <2>1. CASE Len(seqs) = 0
    BY <2>1, EmptySeq DEF FlattenSeq
  <2>2. CASE Len(seqs) # 0
    BY <1>0, <1>4, <2>2, FlattenIs
  <2> QED  BY <2>1, <2>2
<1> QED  BY <1>4, <1>5

\* One sequence more.
LEMMA FlattenAppend ==
  ASSUME NEW T, NEW seqs \in Seq(Seq(T)), NEW s \in Seq(T)
  PROVE  FlattenSeq(Append(seqs, s)) = FlattenSeq(seqs) \o s
<1> DEFINE more == Append(seqs, s)
           f == FlattenFcn(seqs)
           g == FlattenFcn(more)
           S == {n \in Nat : n + 1 <= Len(seqs) => g[n + 1] = f[n + 1]}
<1>0. /\ Len(seqs) \in Nat /\ Len(more) \in Nat /\ Len(more) = Len(seqs) + 1
      /\ \A i \in 1 .. Len(seqs) : more[i] = seqs[i]
      /\ more[Len(seqs) + 1] = s
  BY AppendProperties
<1> HIDE DEF more
<1>1. 0 \in S
  <2>1. 1 <= Len(seqs) => f[1] = seqs[1] /\ g[1] = more[1] /\ more[1] = seqs[1]
    BY <1>0, FlattenStep
  <2> QED  BY <2>1
<1>2. ASSUME NEW n \in Nat, n \in S PROVE n + 1 \in S
  <2> SUFFICES ASSUME n + 2 <= Len(seqs) PROVE g[n + 2] = f[n + 2]
    OBVIOUS
  <2>1. f[n + 2] = f[n + 1] \o seqs[n + 2] /\ g[n + 2] = g[n + 1] \o more[n + 2]
    <3>1. (n + 1) + 1 = n + 2 /\ n + 1 \in Nat \ {0} /\ n + 2 <= Len(more)
      BY <1>0
    <3> QED  BY <1>0, <3>1, FlattenNext
  <2>2. g[n + 1] = f[n + 1] /\ more[n + 2] = seqs[n + 2]
    BY <1>0, <1>2
  <2> QED  BY <2>1, <2>2
<1> HIDE DEF S
<1>3. Nat \subseteq S
  BY <1>1, <1>2, SetInduction
<1>4. FlattenSeq(more) = g[Len(seqs) + 1]
  BY <1>0, FlattenIs
<1>5. CASE Len(seqs) = 0
  <2>1. FlattenSeq(seqs) = << >>
    BY <1>5, EmptySeq DEF FlattenSeq
  <2>2. g[1] = s
    BY <1>0, <1>5, FlattenStep
  <2>3. s = << >> \o s
    BY ConcatEmptySeq
  <2> QED  BY <1>4, <1>5, <2>1, <2>2, <2>3 DEF more
<1>6. CASE Len(seqs) # 0
  <2>1. g[Len(seqs) + 1] = g[Len(seqs)] \o s
    <3>1. more[Len(seqs) + 1] = s /\ Len(seqs) \in Nat \ {0} /\ Len(seqs) + 1 <= Len(more)
      BY <1>0, <1>6
    <3> QED  BY <1>0, <3>1, FlattenNext
  <2>2. g[Len(seqs)] = f[Len(seqs)]
    <3>1. Len(seqs) - 1 \in S /\ (Len(seqs) - 1) + 1 = Len(seqs)
      BY <1>0, <1>3, <1>6
    <3> HIDE DEF f, g
    <3> QED  BY <3>1 DEF S
  <2>3. FlattenSeq(seqs) = f[Len(seqs)]
    BY <1>6, FlattenIs
  <2> QED  BY <1>4, <2>1, <2>2, <2>3 DEF more
<1> QED  BY <1>5, <1>6

\* The first k of the sequences, put end to end.
Upto(seqs, k) == FlattenSeq(SubSeq(seqs, 1, k))

\* The concatenation of the first k grows by one sequence at a time up to the whole.
LEMMA UptoNext ==
  ASSUME NEW T, NEW seqs \in Seq(Seq(T))
  PROVE  /\ Upto(seqs, 0) = << >> /\ Upto(seqs, Len(seqs)) = FlattenSeq(seqs)
         /\ \A k \in 0 .. Len(seqs) : Upto(seqs, k) \in Seq(T)
         /\ \A k \in 0 .. Len(seqs) - 1 :
              /\ seqs[k + 1] \in Seq(T)
              /\ Upto(seqs, k + 1) = Upto(seqs, k) \o seqs[k + 1]
<1>1. SubSeq(seqs, 1, 0) = << >> /\ SubSeq(seqs, 1, Len(seqs)) = seqs
  OBVIOUS
<1>2. ASSUME NEW k \in 0 .. Len(seqs) PROVE SubSeq(seqs, 1, k) \in Seq(Seq(T))
  OBVIOUS
<1>3. ASSUME NEW k \in 0 .. Len(seqs) - 1
      PROVE  SubSeq(seqs, 1, k + 1) = Append(SubSeq(seqs, 1, k), seqs[k + 1]) /\ seqs[k + 1] \in Seq(T)
  OBVIOUS
<1>4. Upto(seqs, 0) = << >> /\ Upto(seqs, Len(seqs)) = FlattenSeq(seqs)
  <2>1. FlattenSeq(<< >>) = << >>
    BY EmptySeq DEF FlattenSeq
  <2> QED  BY <1>1, <2>1 DEF Upto
<1>5. ASSUME NEW k \in 0 .. Len(seqs) PROVE Upto(seqs, k) \in Seq(T)
  BY <1>2, FlattenType DEF Upto
<1>6. ASSUME NEW k \in 0 .. Len(seqs) - 1 PROVE Upto(seqs, k + 1) = Upto(seqs, k) \o seqs[k + 1]
  <2>1. SubSeq(seqs, 1, k) \in Seq(Seq(T)) /\ seqs[k + 1] \in Seq(T)
    BY <1>2, <1>3
  <2>2. FlattenSeq(Append(SubSeq(seqs, 1, k), seqs[k + 1])) = FlattenSeq(SubSeq(seqs, 1, k)) \o seqs[k + 1]
    BY <2>1, FlattenAppend
  <2> QED  BY <1>3, <2>2 DEF Upto
<1> QED  BY <1>3, <1>4, <1>5, <1>6

\* Two sequences put end to end.
LEMMA ConcatAt ==
  ASSUME NEW T, NEW s \in Seq(T), NEW t \in Seq(T)
  PROVE  /\ Len(s) \in Nat /\ Len(t) \in Nat /\ Len(s \o t) = Len(s) + Len(t)
         /\ \A j \in 1 .. Len(s) : (s \o t)[j] = s[j]
         /\ \A j \in 1 .. Len(t) : (s \o t)[Len(s) + j] = t[j]
<1>1. Len(s) \in Nat /\ Len(t) \in Nat
  OBVIOUS
<1>2. /\ Len(s \o t) = Len(s) + Len(t)
      /\ \A i \in 1 .. Len(s) + Len(t) : (s \o t)[i] = IF i <= Len(s) THEN s[i] ELSE t[i - Len(s)]
  BY ConcatProperties
<1>3. ASSUME NEW j \in 1 .. Len(t) PROVE (s \o t)[Len(s) + j] = t[j]
  <2>1. /\ Len(s) + j \in 1 .. Len(s) + Len(t) /\ ~(Len(s) + j <= Len(s))
        /\ (Len(s) + j) - Len(s) = j
    BY <1>1
  <2> QED  BY <1>2, <2>1
<1>4. ASSUME NEW j \in 1 .. Len(s) PROVE (s \o t)[j] = s[j]
  BY <1>1, <1>2
<1> QED  BY <1>1, <1>2, <1>3, <1>4

\* The whole begins with the first k.
LEMMA UptoPrefix ==
  ASSUME NEW T, NEW seqs \in Seq(Seq(T)), NEW k \in 0 .. Len(seqs)
  PROVE  /\ Len(Upto(seqs, k)) <= Len(FlattenSeq(seqs))
         /\ \A j \in 1 .. Len(Upto(seqs, k)) : FlattenSeq(seqs)[j] = Upto(seqs, k)[j]
<1> DEFINE b == FlattenSeq(seqs)
           S == {n \in 0 .. Len(seqs) : /\ Len(Upto(seqs, n)) <= Len(b)
                                        /\ \A j \in 1 .. Len(Upto(seqs, n)) : b[j] = Upto(seqs, n)[j]}
<1>1. Len(seqs) \in S /\ Len(seqs) \in Nat
  <2>1. b \in Seq(T) /\ Upto(seqs, Len(seqs)) = b
    BY FlattenType, UptoNext
  <2> HIDE DEF b
  <2> QED  BY <2>1
<1>2. ASSUME NEW n \in 1 .. Len(seqs), n \in S PROVE n - 1 \in S
  <2> DEFINE m == n - 1
             s == Upto(seqs, m)
             t == seqs[m + 1]
  <2>1. m \in 0 .. Len(seqs) - 1 /\ m \in 0 .. Len(seqs) /\ m + 1 = n
    OBVIOUS
  <2>2. s \in Seq(T) /\ t \in Seq(T) /\ Upto(seqs, n) = s \o t
    <3> HIDE DEF m
    <3>1. s \in Seq(T) /\ t \in Seq(T) /\ Upto(seqs, m + 1) = s \o t
      BY <2>1, UptoNext
    <3> QED  BY <2>1, <3>1
  <2>3. Len(Upto(seqs, n)) <= Len(b) /\ \A j \in 1 .. Len(Upto(seqs, n)) : b[j] = Upto(seqs, n)[j]
    BY <1>2
  <2>4. Len(b) \in Nat
    BY FlattenType
  <2> HIDE DEF b, s, t
  <2>5. /\ Len(s) \in Nat /\ Len(t) \in Nat /\ Len(s \o t) = Len(s) + Len(t)
        /\ \A j \in 1 .. Len(s) : (s \o t)[j] = s[j]
    BY <2>2, ConcatAt
  <2>6. Len(s) <= Len(b)
    BY <2>2, <2>3, <2>4, <2>5
  <2>7. ASSUME NEW j \in 1 .. Len(s) PROVE b[j] = s[j]
    <3>1. j \in 1 .. Len(Upto(seqs, n))
      BY <2>2, <2>5
    <3> QED  BY <2>2, <2>3, <2>5, <3>1
  <2> QED  BY <2>1, <2>6, <2>7 DEF s
<1> HIDE DEF S
<1>3. 0 .. Len(seqs) \subseteq S
  BY <1>1, <1>2, DownInduction
<1> QED  BY <1>3 DEF S

\* Where each of them is in the whole.
LEMMA UptoAt ==
  ASSUME NEW T, NEW seqs \in Seq(Seq(T)), NEW k \in 0 .. Len(seqs) - 1
  PROVE  /\ Len(Upto(seqs, k)) \in Nat /\ Len(seqs[k + 1]) \in Nat
         /\ Len(Upto(seqs, k + 1)) = Len(Upto(seqs, k)) + Len(seqs[k + 1])
         /\ Len(Upto(seqs, k)) + Len(seqs[k + 1]) <= Len(FlattenSeq(seqs))
         /\ \A j \in 1 .. Len(seqs[k + 1]) : FlattenSeq(seqs)[Len(Upto(seqs, k)) + j] = seqs[k + 1][j]
<1> DEFINE b == FlattenSeq(seqs)
           s == Upto(seqs, k)
           t == seqs[k + 1]
<1>1. k \in 0 .. Len(seqs) /\ k + 1 \in 0 .. Len(seqs)
  OBVIOUS
<1>2. s \in Seq(T) /\ t \in Seq(T) /\ Upto(seqs, k + 1) = s \o t
  BY <1>1, UptoNext
<1>3. Len(s \o t) <= Len(b) /\ \A j \in 1 .. Len(s \o t) : b[j] = (s \o t)[j]
  BY <1>1, <1>2, UptoPrefix
<1> HIDE DEF b, s, t
<1>4. /\ Len(s) \in Nat /\ Len(t) \in Nat /\ Len(s \o t) = Len(s) + Len(t)
      /\ \A j \in 1 .. Len(t) : (s \o t)[Len(s) + j] = t[j]
  BY <1>2, ConcatAt
<1>5. ASSUME NEW j \in 1 .. Len(t) PROVE b[Len(s) + j] = t[j]
  <2>1. Len(s) + j \in 1 .. Len(s \o t)
    BY <1>4
  <2> QED  BY <1>3, <1>4, <2>1
<1> QED  BY <1>2, <1>3, <1>4, <1>5 DEF b, s, t

-----------------------------------------------------------------------------
(* Functions that take a sequence apart from one place on.                  *)

\* F takes the sequence apart: at each place up to n a piece and what it is at a
\* later place, and nothing after n.
TakesApart(F, n, m, piece, next) ==
  F = [i \in 1 .. m |-> IF i > n THEN <<>> ELSE piece[i] \o F[next[i]]]

\* Such a function exists.
LEMMA FromTheEnd ==
  ASSUME NEW n \in Nat, NEW m \in Nat, n < m, NEW piece, NEW next,
         \A i \in 1 .. n : next[i] \in i + 1 .. m
  PROVE  \E F : TakesApart(F, n, m, piece, next)
<1> DEFINE At(g, i) == IF i > n THEN <<>> ELSE piece[i] \o g[next[i]]
           Is(g, k) == g = [i \in k + 1 .. m |-> At(g, i)]
           S == {k \in 0 .. m : \E g : Is(g, k)}
<1>1. m \in S
  <2> DEFINE g == [i \in m + 1 .. m |-> 0]
  <2>1. m + 1 .. m = {}
    OBVIOUS
  <2>2. Is(g, m)
    BY <2>1
  <2> HIDE DEF Is
  <2> QED  BY <2>2
<1>2. ASSUME NEW k \in 1 .. m, k \in S PROVE k - 1 \in S
  <2>1. PICK g : Is(g, k)
    BY <1>2
  <2> DEFINE h == [i \in k .. m |-> IF i = k THEN At(g, k) ELSE g[i]]
  <2>2. ASSUME NEW i \in k .. m PROVE At(h, i) = At(g, i)
    <3>1. CASE i > n
      BY <3>1
    <3>2. CASE i <= n
      <4>1. next[i] \in k .. m /\ next[i] # k
        BY <3>2
      <4>2. h[next[i]] = g[next[i]]
        BY <4>1
      <4> HIDE DEF h
      <4> QED  BY <3>2, <4>2
    <3> QED  BY <3>1, <3>2
  <2>3. ASSUME NEW i \in k .. m PROVE h[i] = At(h, i)
    <3>1. CASE i = k
      <4>1. h[i] = At(g, i)
        BY <3>1
      <4> HIDE DEF h, At
      <4> QED  BY <2>2, <4>1
    <3>2. CASE i # k
      <4>1. h[i] = g[i] /\ i \in k + 1 .. m
        BY <3>2
      <4>2. g[i] = At(g, i)
        <5> HIDE DEF At
        <5> QED  BY <2>1, <4>1
      <4> HIDE DEF h, At
      <4> QED  BY <2>2, <4>1, <4>2
    <3> QED  BY <3>1, <3>2
  <2>4. h = [i \in k .. m |-> h[i]]
    OBVIOUS
  <2> HIDE DEF h, At
  <2>5. h = [i \in k .. m |-> At(h, i)]
    BY <2>3, <2>4
  <2>6. (k - 1) + 1 = k /\ k - 1 \in 0 .. m
    OBVIOUS
  <2>7. Is(h, k - 1)
    BY <2>5, <2>6
  <2> HIDE DEF Is
  <2> QED  BY <2>6, <2>7
<1> HIDE DEF S
<1>3. 0 \in S
  BY <1>1, <1>2, DownInduction
<1>4. \E g : Is(g, 0)
  BY <1>3 DEF S
<1>5. 0 + 1 = 1
  OBVIOUS
<1> HIDE DEF At
<1>6. \E g : g = [i \in 1 .. m |-> At(g, i)]
  BY <1>4, <1>5
<1> QED  BY <1>6 DEF At, TakesApart

-----------------------------------------------------------------------------
(* Rows.                                                                    *)

Bytes == Seq(0 .. 255)

\* A byte of a sequence of bytes.
LEMMA ByteAt ==
  ASSUME NEW b \in Bytes, NEW i \in 1 .. Len(b)
  PROVE  b[i] \in 0 .. 255 /\ Len(b) \in Nat
BY ElementOfSeq DEF Bytes

\* Bytes from one place to another.
LEMMA BytesBetween ==
  ASSUME NEW b \in Bytes, NEW m \in 1 .. Len(b) + 1, NEW n \in m - 1 .. Len(b)
  PROVE  /\ SubSeq(b, m, n) \in Bytes /\ Len(SubSeq(b, m, n)) = n - m + 1
         /\ \A j \in 1 .. n - m + 1 : SubSeq(b, m, n)[j] = b[m + j - 1]
<1>1. m \in Int /\ n \in Int /\ \A i \in m .. n : i \in 1 .. Len(b)
  BY DEF Bytes
<1>2. \A i \in m .. n : b[i] \in 0 .. 255
  BY <1>1, ByteAt
<1>3. /\ SubSeq(b, m, n) \in Bytes /\ Len(SubSeq(b, m, n)) = IF m <= n THEN n - m + 1 ELSE 0
      /\ \A j \in 1 .. n - m + 1 : SubSeq(b, m, n)[j] = b[m + j - 1]
  BY <1>1, <1>2, SubSeqProperties DEF Bytes
<1>4. ~(m <= n) => n - m + 1 = 0
  BY <1>1
<1> QED  BY <1>3, <1>4

\* One byte more.
LEMMA OneMore ==
  ASSUME NEW S, NEW s \in Seq(S), NEW d \in S
  PROVE  /\ s \o <<d>> \in Seq(S) /\ Len(s \o <<d>>) = Len(s) + 1
         /\ \A i \in 1 .. Len(s) : (s \o <<d>>)[i] = s[i]
         /\ (s \o <<d>>)[Len(s) + 1] = d
<1>1. <<d>> \in Seq(S) /\ Len(<<d>>) = 1 /\ <<d>>[1] = d /\ Len(s) \in Nat
  OBVIOUS
<1>2. /\ s \o <<d>> \in Seq(S) /\ Len(s \o <<d>>) = Len(s) + 1
      /\ \A i \in 1 .. Len(s) + 1 : (s \o <<d>>)[i] = IF i <= Len(s) THEN s[i] ELSE <<d>>[i - Len(s)]
  BY <1>1, ConcatProperties
<1>3. Len(s) + 1 \in 1 .. Len(s) + 1 /\ (Len(s) + 1) - Len(s) = 1 /\ ~(Len(s) + 1 <= Len(s))
  BY <1>1
<1>4. (s \o <<d>>)[Len(s) + 1] = d
  BY <1>1, <1>2, <1>3
<1>5. \A i \in 1 .. Len(s) : (s \o <<d>>)[i] = s[i]
  BY <1>1, <1>2
<1> QED  BY <1>2, <1>4, <1>5

\* One byte more, of bytes.
LEMMA OneByte ==
  ASSUME NEW s \in Bytes, NEW d \in 0 .. 255
  PROVE  /\ s \o <<d>> \in Bytes /\ Len(s \o <<d>>) = Len(s) + 1
         /\ \A i \in 1 .. Len(s) : (s \o <<d>>)[i] = s[i]
         /\ (s \o <<d>>)[Len(s) + 1] = d
BY OneMore DEF Bytes

\* How many bytes a row takes, and which.
RowLen(r) == IF r.fx = 0 THEN (IF r.inst = 0 THEN 1 ELSE 2) ELSE IF r.fx < 32 THEN 4 ELSE 3

\* The bytes of a row, column by column.
LEMMA RowBytes ==
  ASSUME NEW r \in Row
  PROVE  /\ EncodeRow(r) \in Bytes /\ Len(EncodeRow(r)) = RowLen(r)
         /\ EncodeRow(r)[1] = Flag(r.note, r.inst # 0 \/ r.fx # 0)
         /\ RowLen(r) >= 2 => EncodeRow(r)[2] = Flag(r.inst, r.fx # 0)
         /\ RowLen(r) >= 3 => EncodeRow(r)[3] = r.fx
         /\ RowLen(r) = 4 => EncodeRow(r)[4] = r.value
<1> DEFINE hasFx == r.fx # 0
           hasInst == r.inst # 0 \/ hasFx
           a == Flag(r.note, hasInst)
           b == Flag(r.inst, hasFx)
           one == <<a>>
           two == one \o (IF hasInst THEN <<b>> ELSE << >>)
           three == two \o (IF hasFx THEN <<r.fx>> ELSE << >>)
           four == three \o (IF hasFx /\ r.fx < 32 THEN <<r.value>> ELSE << >>)
<1>1. EncodeRow(r) = four
  BY DEF EncodeRow
<1>2. a \in 0 .. 255 /\ b \in 0 .. 255 /\ r.fx \in 0 .. 255 /\ r.value \in 0 .. 255
  BY DEF Row, Flag
<1>3. one \in Bytes /\ Len(one) = 1 /\ one[1] = a
  BY <1>2 DEF Bytes
<1> HIDE DEF a, b, one
<1>4. /\ two \in Bytes /\ Len(two) = (IF hasInst THEN 2 ELSE 1)
      /\ two[1] = a /\ (hasInst => two[2] = b)
  <2>1. CASE hasInst
    <3>1. two = one \o <<b>>
      BY <2>1
    <3>2. /\ one \o <<b>> \in Bytes /\ Len(one \o <<b>>) = Len(one) + 1
          /\ \A i \in 1 .. Len(one) : (one \o <<b>>)[i] = one[i]
          /\ (one \o <<b>>)[Len(one) + 1] = b
      BY <1>2, <1>3, OneByte
    <3> HIDE DEF two
    <3> QED  BY <1>3, <2>1, <3>1, <3>2
  <2>2. CASE ~hasInst
    <3>1. two = one
      BY <1>3, <2>2, ConcatEmptySeq DEF Bytes
    <3> QED  BY <1>3, <2>2, <3>1
  <2> QED  BY <2>1, <2>2
<1> HIDE DEF two
<1>5. /\ three \in Bytes /\ Len(three) = (IF hasFx THEN 3 ELSE Len(two))
      /\ three[1] = a /\ (hasInst => three[2] = b) /\ (hasFx => three[3] = r.fx)
  <2>1. CASE hasFx
    <3>1. three = two \o <<r.fx>> /\ Len(two) = 2
      BY <1>4, <2>1
    <3>2. /\ two \o <<r.fx>> \in Bytes /\ Len(two \o <<r.fx>>) = Len(two) + 1
          /\ \A i \in 1 .. Len(two) : (two \o <<r.fx>>)[i] = two[i]
          /\ (two \o <<r.fx>>)[Len(two) + 1] = r.fx
      BY <1>2, <1>4, OneByte
    <3> HIDE DEF three
    <3> QED  BY <1>4, <2>1, <3>1, <3>2
  <2>2. CASE ~hasFx
    <3>1. three = two
      BY <1>4, <2>2, ConcatEmptySeq DEF Bytes
    <3> QED  BY <1>4, <2>2, <3>1
  <2> QED  BY <2>1, <2>2
<1> HIDE DEF three
<1>6. /\ four \in Bytes /\ Len(four) = (IF hasFx /\ r.fx < 32 THEN 4 ELSE Len(three))
      /\ four[1] = a /\ (hasInst => four[2] = b) /\ (hasFx => four[3] = r.fx)
      /\ (hasFx /\ r.fx < 32 => four[4] = r.value)
  <2>1. CASE hasFx /\ r.fx < 32
    <3>1. four = three \o <<r.value>> /\ Len(three) = 3
      BY <1>5, <2>1
    <3>2. /\ three \o <<r.value>> \in Bytes /\ Len(three \o <<r.value>>) = Len(three) + 1
          /\ \A i \in 1 .. Len(three) : (three \o <<r.value>>)[i] = three[i]
          /\ (three \o <<r.value>>)[Len(three) + 1] = r.value
      BY <1>2, <1>5, OneByte
    <3> HIDE DEF four
    <3> QED  BY <1>5, <2>1, <3>1, <3>2
  <2>2. CASE ~(hasFx /\ r.fx < 32)
    <3>1. four = three
      BY <1>5, <2>2, ConcatEmptySeq DEF Bytes
    <3> QED  BY <1>5, <2>2, <3>1
  <2> QED  BY <2>1, <2>2
<1> HIDE DEF four
<1> QED  BY <1>1, <1>4, <1>5, <1>6 DEF RowLen, a, b


\* The rows' codes, and how many bytes the first k take.
Codes(rows) == [k \in DOMAIN rows |-> EncodeRow(rows[k])]
Off(rows, k) == Len(Upto(Codes(rows), k))

\* A pattern is the concatenation of its rows' bytes.
LEMMA CodesAre ==
  ASSUME NEW rows \in Seq(Row)
  PROVE  /\ Codes(rows) \in Seq(Bytes) /\ Len(Codes(rows)) = Len(rows)
         /\ EncodeRows(rows) = FlattenSeq(Codes(rows))
         /\ \A k \in 0 .. Len(rows) - 1 : /\ rows[k + 1] \in Row
                                       /\ Codes(rows)[k + 1] = EncodeRow(rows[k + 1])
<1>1. \A k \in 1 .. Len(rows) : EncodeRow(rows[k]) \in Bytes
  BY RowBytes, ElementOfSeq
<1>2. Codes(rows) \in Seq(Bytes) /\ Len(Codes(rows)) = Len(rows)
  BY <1>1 DEF Codes
<1>3. ASSUME NEW k \in 0 .. Len(rows) - 1
      PROVE  rows[k + 1] \in Row /\ Codes(rows)[k + 1] = EncodeRow(rows[k + 1])
  <2>1. k + 1 \in 1 .. Len(rows)
    OBVIOUS
  <2> QED  BY <2>1, ElementOfSeq DEF Codes
<1> QED  BY <1>2, <1>3 DEF EncodeRows, Codes

\* Where the rows' bytes are.
LEMMA OffNext ==
  ASSUME NEW rows \in Seq(Row)
  PROVE  /\ Off(rows, 0) = 0 /\ Off(rows, Len(rows)) = Len(EncodeRows(rows))
         /\ EncodeRows(rows) \in Bytes
         /\ \A k \in 0 .. Len(rows) : Off(rows, k) \in Nat /\ Off(rows, k) <= Len(EncodeRows(rows))
         /\ \A k \in 0 .. Len(rows) - 1 : /\ rows[k + 1] \in Row
                                       /\ Off(rows, k + 1) = Off(rows, k) + RowLen(rows[k + 1])
                                       /\ RowLen(rows[k + 1]) \in 1 .. 4
<1> DEFINE c == Codes(rows)
<1>1. c \in Seq(Seq(0 .. 255)) /\ Len(c) = Len(rows) /\ EncodeRows(rows) = FlattenSeq(c)
  BY CodesAre DEF Bytes
<1> HIDE DEF c
<1>2. Upto(c, 0) = << >> /\ Upto(c, Len(c)) = FlattenSeq(c) /\ \A k \in 0 .. Len(c) : Upto(c, k) \in Bytes
  BY <1>1, UptoNext DEF Bytes
<1>3. EncodeRows(rows) \in Bytes
  BY <1>1, FlattenType DEF Bytes
<1>4. ASSUME NEW k \in 0 .. Len(rows) PROVE Off(rows, k) \in Nat /\ Off(rows, k) <= Len(EncodeRows(rows))
  <2>1. Len(Upto(c, k)) \in Nat
    BY <1>1, <1>2 DEF Bytes
  <2> QED  BY <1>1, <2>1, UptoPrefix DEF Off, c
<1>5. ASSUME NEW k \in 0 .. Len(rows) - 1
      PROVE  /\ rows[k + 1] \in Row
             /\ Off(rows, k + 1) = Off(rows, k) + RowLen(rows[k + 1])
             /\ RowLen(rows[k + 1]) \in 1 .. 4
  <2>1. rows[k + 1] \in Row /\ c[k + 1] = EncodeRow(rows[k + 1])
    BY CodesAre DEF c
  <2>2. Len(c[k + 1]) = RowLen(rows[k + 1])
    BY <2>1, RowBytes
  <2>3. Len(Upto(c, k + 1)) = Len(Upto(c, k)) + Len(c[k + 1])
    BY <1>1, UptoAt
  <2> QED  BY <2>1, <2>2, <2>3 DEF Off, RowLen, c
<1>6. Off(rows, 0) = 0 /\ Off(rows, Len(rows)) = Len(EncodeRows(rows))
  BY <1>1, <1>2 DEF Off, c
<1> QED  BY <1>3, <1>4, <1>5, <1>6

\* A row's bytes among its pattern's.
LEMMA RowAt ==
  ASSUME NEW rows \in Seq(Row), NEW k \in 0 .. Len(rows) - 1
  PROVE  /\ Off(rows, k) + RowLen(rows[k + 1]) <= Len(EncodeRows(rows))
         /\ \A j \in 1 .. RowLen(rows[k + 1]) :
              EncodeRows(rows)[Off(rows, k) + j] = EncodeRow(rows[k + 1])[j]
<1> DEFINE c == Codes(rows)
<1>1. /\ c \in Seq(Seq(0 .. 255)) /\ Len(c) = Len(rows) /\ EncodeRows(rows) = FlattenSeq(c)
      /\ rows[k + 1] \in Row /\ c[k + 1] = EncodeRow(rows[k + 1])
  BY CodesAre DEF Bytes
<1> HIDE DEF c
<1>2. Len(c[k + 1]) = RowLen(rows[k + 1])
  BY <1>1, RowBytes
<1>3. /\ Len(Upto(c, k)) + Len(c[k + 1]) <= Len(FlattenSeq(c))
      /\ \A j \in 1 .. Len(c[k + 1]) : FlattenSeq(c)[Len(Upto(c, k)) + j] = c[k + 1][j]
  <2>1. k \in 0 .. Len(c) - 1
    BY <1>1
  <2> QED  BY <1>1, <2>1, UptoAt
<1> QED  BY <1>1, <1>2, <1>3 DEF Off, c

-----------------------------------------------------------------------------
(* Packing.                                                                 *)

\* What Pack makes of the bytes from index i on.
RunLength(b, i) == CHOOSE k \in 1 .. 9 : Zeros(b, i, k) /\ (k = 9 \/ ~Zeros(b, i, k + 1))

PackFrom(b) ==
  CHOOSE F : F = [i \in 1 .. Len(b) + 1 |->
    IF i > Len(b) THEN <<>>
    ELSE IF b[i] # 0 \/ i = 1 \/ b[i - 1] # 0 THEN <<b[i]>> \o F[i + 1]
    ELSE <<IF RunLength(b, i) = 1 THEN 0 ELSE PackedMin + RunLength(b, i) - 2>> \o F[i + RunLength(b, i)]]

\* Packing is the recursion started at the first byte.
LEMMA PackIs == ASSUME NEW b PROVE Pack(b) = PackFrom(b)[1]
BY DEF Pack, PackRuns, PackFrom, RunLength

\* A run is one to nine zeros.
LEMMA RunLengthIs ==
  ASSUME NEW b \in Bytes, NEW i \in 1 .. Len(b), b[i] = 0
  PROVE  RunLength(b, i) \in 1 .. 9 /\ Zeros(b, i, RunLength(b, i))
<1> DEFINE Most(k) == Zeros(b, i, k) /\ (k = 9 \/ ~Zeros(b, i, k + 1))
<1>1. Zeros(b, i, 1)
  BY DEF Zeros, Bytes
<1>2. \E k \in 1 .. 9 : Most(k)
  <2> SUFFICES ASSUME \A k \in 1 .. 9 : ~Most(k) PROVE FALSE
    OBVIOUS
  <2>1. \A k \in 1 .. 8 : Zeros(b, i, k) => Zeros(b, i, k + 1)
    OBVIOUS
  <2>2. Zeros(b, i, 1 + 1 + 1)
    BY <1>1, <2>1
  <2>3. Zeros(b, i, 3) /\ Zeros(b, i, 3 + 1)
    BY <2>1, <2>2
  <2>4. Zeros(b, i, 4) /\ Zeros(b, i, 4 + 1)
    BY <2>1, <2>3
  <2>5. Zeros(b, i, 5) /\ Zeros(b, i, 5 + 1)
    BY <2>1, <2>4
  <2>6. Zeros(b, i, 6) /\ Zeros(b, i, 6 + 1)
    BY <2>1, <2>5
  <2>7. Zeros(b, i, 7) /\ Zeros(b, i, 7 + 1)
    BY <2>1, <2>6
  <2>8. Zeros(b, i, 8) /\ Zeros(b, i, 8 + 1)
    BY <2>1, <2>7
  <2> QED  BY <2>8
<1> QED  BY <1>2 DEF RunLength

\* The recursion of packing has a solution, so that PackFrom obeys it.
LEMMA PackFromDef ==
  ASSUME NEW b \in Bytes
  PROVE  PackFrom(b) = [i \in 1 .. Len(b) + 1 |->
           IF i > Len(b) THEN <<>>
           ELSE IF b[i] # 0 \/ i = 1 \/ b[i - 1] # 0 THEN <<b[i]>> \o PackFrom(b)[i + 1]
           ELSE <<IF RunLength(b, i) = 1 THEN 0 ELSE PackedMin + RunLength(b, i) - 2>>
                \o PackFrom(b)[i + RunLength(b, i)]]
<1> DEFINE Itself(i) == b[i] # 0 \/ i = 1 \/ b[i - 1] # 0
           piece == [i \in 1 .. Len(b) |->
             IF Itself(i) THEN <<b[i]>> ELSE <<IF RunLength(b, i) = 1 THEN 0 ELSE PackedMin + RunLength(b, i) - 2>>]
           next == [i \in 1 .. Len(b) |-> IF Itself(i) THEN i + 1 ELSE i + RunLength(b, i)]
<1>0. Len(b) \in Nat /\ Len(b) + 1 \in Nat /\ Len(b) < Len(b) + 1
  BY DEF Bytes
<1>1. ASSUME NEW i \in 1 .. Len(b) PROVE next[i] \in i + 1 .. Len(b) + 1
  <2>1. CASE Itself(i)
    BY <1>0, <2>1
  <2>2. CASE ~Itself(i)
    <3>1. RunLength(b, i) \in 1 .. 9 /\ Zeros(b, i, RunLength(b, i))
      BY <2>2, RunLengthIs
    <3>2. next[i] = i + RunLength(b, i)
      BY <2>2
    <3> QED  BY SMTT(20), <1>0, <3>1, <3>2 DEF Zeros
  <2> QED  BY <2>1, <2>2
<1> HIDE DEF piece, next
<1>2. PICK F : F = [i \in 1 .. Len(b) + 1 |-> IF i > Len(b) THEN <<>> ELSE piece[i] \o F[next[i]]]
  <2>1. \E F : TakesApart(F, Len(b), Len(b) + 1, piece, next)
    BY <1>0, <1>1, FromTheEnd
  <2> QED  BY <2>1 DEF TakesApart
<1>3. ASSUME NEW i \in 1 .. Len(b) + 1
      PROVE  (IF i > Len(b) THEN <<>> ELSE piece[i] \o F[next[i]]) =
             IF i > Len(b) THEN <<>>
             ELSE IF Itself(i) THEN <<b[i]>> \o F[i + 1]
             ELSE <<IF RunLength(b, i) = 1 THEN 0 ELSE PackedMin + RunLength(b, i) - 2>> \o F[i + RunLength(b, i)]
  <2>1. i > Len(b) \/ i \in 1 .. Len(b)
    BY <1>0
  <2> HIDE DEF Itself
  <2> QED  BY <1>0, <2>1 DEF piece, next
<1>4. F = [i \in 1 .. Len(b) + 1 |->
             IF i > Len(b) THEN <<>>
             ELSE IF b[i] # 0 \/ i = 1 \/ b[i - 1] # 0 THEN <<b[i]>> \o F[i + 1]
             ELSE <<IF RunLength(b, i) = 1 THEN 0 ELSE PackedMin + RunLength(b, i) - 2>> \o F[i + RunLength(b, i)]]
  BY <1>2, <1>3
<1> QED  BY <1>4 DEF PackFrom

\* One byte that stands for itself, one that stands for a run, and the end.
LEMMA PackStep ==
  ASSUME NEW b \in Bytes
  PROVE  /\ PackFrom(b)[Len(b) + 1] = << >>
         /\ \A i \in 1 .. Len(b) :
              IF b[i] # 0 \/ i = 1 \/ b[i - 1] # 0 THEN PackFrom(b)[i] = <<b[i]>> \o PackFrom(b)[i + 1]
              ELSE PackFrom(b)[i] = <<IF RunLength(b, i) = 1 THEN 0 ELSE PackedMin + RunLength(b, i) - 2>>
                                    \o PackFrom(b)[i + RunLength(b, i)]
<1> DEFINE F == PackFrom(b)
           At(i) == IF i > Len(b) THEN <<>>
                    ELSE IF b[i] # 0 \/ i = 1 \/ b[i - 1] # 0 THEN <<b[i]>> \o F[i + 1]
                    ELSE <<IF RunLength(b, i) = 1 THEN 0 ELSE PackedMin + RunLength(b, i) - 2>>
                         \o F[i + RunLength(b, i)]
<1>1. F = [i \in 1 .. Len(b) + 1 |-> At(i)]
  BY PackFromDef
<1>2. Len(b) \in Nat
  BY DEF Bytes
<1> HIDE DEF F
<1>3. ASSUME NEW i \in 1 .. Len(b) + 1 PROVE F[i] = At(i)
  <2> HIDE DEF At
  <2> QED  BY <1>1
<1>4. F[Len(b) + 1] = << >>
  <2>1. Len(b) + 1 \in 1 .. Len(b) + 1 /\ Len(b) + 1 > Len(b)
    BY <1>2
  <2> QED  BY <1>3, <2>1
<1>5. ASSUME NEW i \in 1 .. Len(b)
      PROVE  IF b[i] # 0 \/ i = 1 \/ b[i - 1] # 0 THEN F[i] = <<b[i]>> \o F[i + 1]
             ELSE F[i] = <<IF RunLength(b, i) = 1 THEN 0 ELSE PackedMin + RunLength(b, i) - 2>>
                         \o F[i + RunLength(b, i)]
  <2>1. i \in 1 .. Len(b) + 1 /\ ~(i > Len(b))
    BY <1>2
  <2>2. F[i] = At(i)
    BY <1>3, <2>1
  <2> QED  BY <2>1, <2>2
<1> QED  BY <1>4, <1>5 DEF F

\* What is packed is bytes.
LEMMA PackType ==
  ASSUME NEW b \in Bytes
  PROVE  \A i \in 1 .. Len(b) + 1 : PackFrom(b)[i] \in Bytes
<1> DEFINE F == PackFrom(b)
           S == {n \in 0 .. Len(b) : \A i \in n + 1 .. Len(b) + 1 : F[i] \in Bytes}
<1>0. Len(b) \in Nat /\ << >> \in Bytes
  BY DEF Bytes
<1>1. Len(b) \in S
  <2>1. \A i \in Len(b) + 1 .. Len(b) + 1 : i = Len(b) + 1
    BY <1>0
  <2> QED  BY <1>0, <2>1, PackStep
<1>2. ASSUME NEW n \in 1 .. Len(b), n \in S PROVE n - 1 \in S
  <2>1. \A i \in n + 1 .. Len(b) + 1 : F[i] \in Bytes
    BY <1>2
  <2>2. F[n] \in Bytes
    <3>1. CASE b[n] # 0 \/ n = 1 \/ b[n - 1] # 0
      <4>1. F[n] = <<b[n]>> \o F[n + 1]
        BY <3>1, PackStep
      <4>2. F[n + 1] \in Bytes /\ <<b[n]>> \in Bytes
        <5>1. n + 1 \in n + 1 .. Len(b) + 1
          BY <1>0
        <5>2. b[n] \in 0 .. 255
          BY ByteAt
        <5> HIDE DEF F
        <5> QED  BY <2>1, <5>1, <5>2 DEF Bytes
      <4> HIDE DEF F
      <4> QED  BY <4>1, <4>2, ConcatProperties DEF Bytes
    <3>2. CASE ~(b[n] # 0 \/ n = 1 \/ b[n - 1] # 0)
      <4> DEFINE k == RunLength(b, n)
                 c == IF k = 1 THEN 0 ELSE PackedMin + k - 2
      <4>1. F[n] = <<c>> \o F[n + k]
        BY <3>2, PackStep
      <4>2. k \in 1 .. 9 /\ n + k \in n + 1 .. Len(b) + 1
        <5>1. k \in 1 .. 9 /\ Zeros(b, n, k)
          BY <3>2, RunLengthIs
        <5> HIDE DEF k
        <5> QED  BY <1>0, <5>1 DEF Zeros
      <4> HIDE DEF F, k
      <4>3. c \in 0 .. 255
        BY <4>2 DEF PackedMin
      <4>4. F[n + k] \in Bytes
        BY <2>1, <4>2
      <4> HIDE DEF c
      <4>5. <<c>> \in Bytes
        BY <4>3 DEF Bytes
      <4> QED  BY <4>1, <4>4, <4>5, ConcatProperties DEF Bytes
    <3> QED  BY <3>1, <3>2
  <2> HIDE DEF F
  <2>3. ASSUME NEW i \in n .. Len(b) + 1 PROVE F[i] \in Bytes
    <3>1. i = n \/ i \in n + 1 .. Len(b) + 1
      BY <1>0
    <3> QED  BY <2>1, <2>2, <3>1
  <2>4. n - 1 \in 0 .. Len(b) /\ (n - 1) + 1 = n
    BY <1>0
  <2> QED  BY <2>3, <2>4
<1> HIDE DEF S
<1>3. 0 .. Len(b) \subseteq S
  BY <1>0, <1>1, <1>2, DownInduction
<1> QED  BY <1>0, <1>3 DEF S

-----------------------------------------------------------------------------
(* A stream, packed bytes and a terminator, from one position on.           *)

\* What the stream of b holds from raw byte i on, and that st does from q + 1.
Rest(b, i) == Append(PackFrom(b)[i], 255)
Carries(st, q, rest) == Len(st) = q + Len(rest) /\ \A j \in 1 .. Len(rest) : st[q + j] = rest[j]

\* A whole packed pattern carries itself from its start.
LEMMA CarriesStart ==
  ASSUME NEW b \in Bytes
  PROVE  /\ Append(Pack(b), 255) \in Bytes
         /\ Carries(Append(Pack(b), 255), 0, Rest(b, 1))
<1>1. 1 \in 1 .. Len(b) + 1
  BY DEF Bytes
<1>2. PackFrom(b)[1] \in Bytes
  BY <1>1, PackType
<1> QED  BY <1>2, PackIs DEF Carries, Rest, Bytes

\* Nothing is left but the terminator.
LEMMA CarriesEnd ==
  ASSUME NEW b \in Bytes, NEW st, NEW q \in Nat, Carries(st, q, Rest(b, Len(b) + 1))
  PROVE  Len(st) = q + 1 /\ st[q + 1] = 255
<1>1. Rest(b, Len(b) + 1) = Append(<< >>, 255)
  BY PackStep DEF Rest
<1>2. Len(Append(<< >>, 255)) = 1 /\ Append(<< >>, 255)[1] = 255
  OBVIOUS
<1> QED  BY SMTT(20), <1>1, <1>2 DEF Carries

\* One packed byte is read: the rest is carried one position on.
LEMMA CarriesNext ==
  ASSUME NEW b \in Bytes, NEW st, NEW q \in Nat, NEW i, NEW c \in 0 .. 255, NEW j \in 1 .. Len(b) + 1,
         PackFrom(b)[i] = <<c>> \o PackFrom(b)[j], Carries(st, q, Rest(b, i))
  PROVE  q + 1 < Len(st) /\ st[q + 1] = c /\ Carries(st, q + 1, Rest(b, j))
<1> DEFINE t == PackFrom(b)[j]
           u == <<c>> \o t
<1>1. t \in Bytes /\ Len(t) \in Nat
  BY PackType DEF Bytes
<1> HIDE DEF t
<1>2. <<c>> \in Bytes /\ Len(<<c>>) = 1 /\ <<c>>[1] = c
  BY DEF Bytes
<1>3. u \in Bytes /\ Len(u) = 1 + Len(t)
      /\ \A k \in 1 .. 1 + Len(t) : u[k] = IF k <= 1 THEN <<c>>[k] ELSE t[k - 1]
  BY <1>1, <1>2, ConcatProperties DEF Bytes
<1> HIDE DEF u
<1>4. /\ Len(Append(u, 255)) = Len(t) + 2 /\ Len(Append(t, 255)) = Len(t) + 1
      /\ \A k \in 1 .. Len(t) + 1 : Append(u, 255)[k] = u[k]
      /\ Append(u, 255)[Len(t) + 2] = 255 /\ Append(t, 255)[Len(t) + 1] = 255
      /\ \A k \in 1 .. Len(t) : Append(t, 255)[k] = t[k]
  BY <1>1, <1>3 DEF Bytes
<1>5. Rest(b, i) = Append(u, 255) /\ Rest(b, j) = Append(t, 255)
  BY DEF Rest, t, u
<1>6. Len(st) = q + (Len(t) + 2) /\ \A k \in 1 .. Len(t) + 2 : st[q + k] = Append(u, 255)[k]
  <2>1. Carries(st, q, Append(u, 255))
    BY <1>5
  <2> QED  BY ZenonT(30), <1>4, <2>1 DEF Carries
<1>7. ASSUME NEW k \in 1 .. Len(t) + 1 PROVE st[(q + 1) + k] = Append(t, 255)[k]
  <2>1. k + 1 \in 1 .. Len(t) + 2 /\ q + (k + 1) = (q + 1) + k
    BY <1>1
  <2>2. st[(q + 1) + k] = Append(u, 255)[k + 1]
    BY <1>6, <2>1
  <2>3. CASE k = Len(t) + 1
    BY <1>1, <1>4, <2>2, <2>3
  <2>4. CASE k # Len(t) + 1
    <3>1. k \in 1 .. Len(t) /\ k + 1 \in 1 .. Len(t) + 1 /\ k + 1 \in 1 .. 1 + Len(t) /\ ~(k + 1 <= 1) /\ (k + 1) - 1 = k
      BY <1>1, <2>4
    <3> QED  BY SMTT(20), <1>3, <1>4, <2>2, <3>1
  <2> QED  BY <2>3, <2>4
<1>8. st[q + 1] = c
  <2>1. 1 \in 1 .. Len(t) + 2 /\ 1 \in 1 .. Len(t) + 1 /\ 1 \in 1 .. 1 + Len(t)
    BY <1>1
  <2> QED  BY <1>2, <1>3, <1>4, <1>6, <2>1
<1>9. Len(st) = (q + 1) + (Len(t) + 1) /\ q + 1 < Len(st)
  BY <1>1, <1>6
<1>10. Carries(st, q + 1, Append(t, 255))
  BY ZenonT(30), <1>4, <1>7, <1>9 DEF Carries
<1> QED  BY <1>5, <1>8, <1>9, <1>10

\* A byte that is no zero after a zero stands for itself.
LEMMA CarriesByte ==
  ASSUME NEW b \in Bytes, NEW st, NEW q \in Nat, NEW i \in 1 .. Len(b),
         b[i] # 0 \/ i = 1 \/ b[i - 1] # 0, Carries(st, q, Rest(b, i))
  PROVE  q + 1 < Len(st) /\ st[q + 1] = b[i] /\ Carries(st, q + 1, Rest(b, i + 1))
<1>1. PackFrom(b)[i] = <<b[i]>> \o PackFrom(b)[i + 1]
  BY PackStep
<1>2. b[i] \in 0 .. 255 /\ i + 1 \in 1 .. Len(b) + 1
  BY ByteAt
<1> DEFINE c == b[i]
<1> HIDE DEF c
<1>3. q + 1 < Len(st) /\ st[q + 1] = c /\ Carries(st, q + 1, Rest(b, i + 1))
  BY <1>1, <1>2, CarriesNext DEF c
<1> QED  BY <1>3 DEF c

\* A zero starts a run, of one zero if the byte before it is none.
LEMMA CarriesRun ==
  ASSUME NEW b \in Bytes, NEW st, NEW q \in Nat, NEW i \in 1 .. Len(b), b[i] = 0,
         Carries(st, q, Rest(b, i))
  PROVE  \E m \in 1 .. 9 :
           /\ Zeros(b, i, m)
           /\ m = 1 \/ (i # 1 /\ b[i - 1] = 0)
           /\ q + 1 < Len(st) /\ st[q + 1] = (IF m = 1 THEN 0 ELSE PackedMin + m - 2)
           /\ Carries(st, q + 1, Rest(b, i + m))
<1>1. CASE i = 1 \/ b[i - 1] # 0
  <2>1. q + 1 < Len(st) /\ st[q + 1] = 0 /\ Carries(st, q + 1, Rest(b, i + 1))
    BY <1>1, CarriesByte
  <2>2. Zeros(b, i, 1)
    BY DEF Zeros, Bytes
  <2> QED  BY <2>1, <2>2
<1>2. CASE ~(i = 1 \/ b[i - 1] # 0)
  <2> DEFINE m == RunLength(b, i)
             c == IF m = 1 THEN 0 ELSE PackedMin + m - 2
  <2>1. PackFrom(b)[i] = <<c>> \o PackFrom(b)[i + m]
    BY <1>2, PackStep
  <2>2. m \in 1 .. 9 /\ Zeros(b, i, m)
    BY RunLengthIs
  <2> HIDE DEF m
  <2>3. i + m \in 1 .. Len(b) + 1 /\ c \in 0 .. 255
    BY <2>2 DEF Zeros, PackedMin, Bytes
  <2>4. q + 1 < Len(st) /\ st[q + 1] = c /\ Carries(st, q + 1, Rest(b, i + m))
    <3> HIDE DEF c
    <3> QED  BY <2>1, <2>3, CarriesNext
  <2> QED  BY <1>2, <2>2, <2>4
<1> QED  BY <1>1, <1>2

\* Of a row's bytes only the value can be zero, unless the row is empty.
LEMMA RowNotZero ==
  ASSUME NEW r \in Row, PlainRow(r)
  PROVE  /\ EncodeRow(r)[1] = 0 <=> r = Empty
         /\ r = Empty => RowLen(r) = 1
         /\ \A j \in 1 .. RowLen(r) - 1 : EncodeRow(r)[j] # 0
<1>1. /\ r.note \in 0 .. 127 /\ r.inst \in 0 .. 127 /\ r.fx \in 0 .. 255 /\ r.value \in 0 .. 255
      /\ r = [note |-> r.note, inst |-> r.inst, fx |-> r.fx, value |-> r.value]
  BY DEF Row
<1>2. r = Empty <=> r.note = 0 /\ r.inst = 0 /\ r.fx = 0
  BY <1>1 DEF Empty, PlainRow, TakesValue
<1> DEFINE c == EncodeRow(r)
           n == RowLen(r)
<1>b. /\ (r.inst # 0 \/ r.fx # 0 => c[1] = r.note + 128) /\ (~(r.inst # 0 \/ r.fx # 0) => c[1] = r.note)
      /\ (n >= 2 /\ r.fx # 0 => c[2] = r.inst + 128) /\ (n >= 2 /\ r.fx = 0 => c[2] = r.inst)
      /\ (n >= 3 => c[3] = r.fx)
  <2>1. /\ c[1] = Flag(r.note, r.inst # 0 \/ r.fx # 0)
        /\ n >= 2 => c[2] = Flag(r.inst, r.fx # 0)
        /\ n >= 3 => c[3] = r.fx
    BY RowBytes
  <2>2. CASE r.fx # 0
    BY <2>1, <2>2 DEF Flag
  <2>3. CASE r.fx = 0 /\ r.inst # 0
    BY <2>1, <2>3 DEF Flag
  <2>4. CASE r.fx = 0 /\ r.inst = 0
    BY <2>1, <2>4 DEF Flag
  <2> QED  BY <2>2, <2>3, <2>4
<1> HIDE DEF c
<1>3. c[1] = 0 <=> r = Empty
  BY <1>1, <1>2, <1>b
<1>4. r = Empty => RowLen(r) = 1
  BY <1>2 DEF RowLen
<1>5. ASSUME NEW j \in 1 .. n - 1 PROVE c[j] # 0
  <2>1. n \in 1 .. 4 /\ (n >= 2 => r.inst # 0 \/ r.fx # 0) /\ (n >= 3 => r.fx # 0)
    BY <1>1 DEF RowLen
  <2> HIDE DEF n
  <2>2. CASE j = 1
    BY <1>1, <1>b, <2>1, <2>2
  <2>3. CASE j = 2
    BY <1>1, <1>b, <2>1, <2>3
  <2>4. CASE j = 3
    BY <1>1, <1>b, <2>1, <2>4
  <2> QED  BY <2>1, <2>2, <2>3, <2>4
<1> QED  BY <1>3, <1>4, <1>5 DEF c

\* The raw byte where a row starts: zero for an empty row and no other.
LEMMA RowStart ==
  ASSUME NEW rows \in Seq(Row), NEW k \in 0 .. Len(rows) - 1, PlainRow(rows[k + 1])
  PROVE  /\ Off(rows, k) + 1 \in 1 .. Len(EncodeRows(rows))
         /\ EncodeRows(rows)[Off(rows, k) + 1] = 0 <=> rows[k + 1] = Empty
<1>1. /\ rows[k + 1] \in Row /\ RowLen(rows[k + 1]) \in 1 .. 4 /\ k \in 0 .. Len(rows)
      /\ Off(rows, k) \in Nat /\ Len(EncodeRows(rows)) \in Nat
  <2>1. k \in 0 .. Len(rows) /\ EncodeRows(rows) \in Bytes
    BY OffNext
  <2> QED  BY <2>1, OffNext DEF Bytes
<1>2. 1 \in 1 .. RowLen(rows[k + 1])
  BY <1>1
<1>3. EncodeRows(rows)[Off(rows, k) + 1] = EncodeRow(rows[k + 1])[1]
  BY <1>2, RowAt
<1>4. EncodeRow(rows[k + 1])[1] = 0 <=> rows[k + 1] = Empty
  BY <1>1, RowNotZero
<1>5. Off(rows, k) + RowLen(rows[k + 1]) <= Len(EncodeRows(rows))
  BY RowAt
<1> QED  BY <1>1, <1>3, <1>4, <1>5

\* A row that is not empty stands in the stream as it is.
LEMMA RowCarried ==
  ASSUME NEW rows \in Seq(Row), NEW k \in 0 .. Len(rows) - 1,
         PlainRow(rows[k + 1]), rows[k + 1] # Empty,
         NEW st, NEW q \in Nat, Carries(st, q, Rest(EncodeRows(rows), Off(rows, k) + 1))
  PROVE  /\ q + RowLen(rows[k + 1]) < Len(st)
         /\ \A j \in 1 .. RowLen(rows[k + 1]) : st[q + j] = EncodeRow(rows[k + 1])[j]
         /\ Carries(st, q + RowLen(rows[k + 1]), Rest(EncodeRows(rows), Off(rows, k + 1) + 1))
<1> DEFINE r == rows[k + 1]
           b == EncodeRows(rows)
           at == Off(rows, k)
           n == RowLen(r)
           C(j) == Carries(st, q + j, Rest(b, at + 1 + j))
<1>1. /\ r \in Row /\ n \in 1 .. 4 /\ at \in Nat /\ b \in Bytes /\ Off(rows, k + 1) = at + n
  <2>1. k \in 0 .. Len(rows)
    OBVIOUS
  <2> QED  BY <2>1, OffNext
<1>2. at + n <= Len(b) /\ \A j \in 1 .. n : b[at + j] = EncodeRow(r)[j]
  BY RowAt
<1>3. EncodeRow(r)[1] # 0 /\ \A j \in 1 .. n - 1 : EncodeRow(r)[j] # 0
  BY <1>1, RowNotZero
<1> HIDE DEF r, b, at, n
<1>4. ASSUME NEW j \in 0 .. 3, j < n, C(j)
      PROVE  q + (j + 1) < Len(st) /\ st[q + (j + 1)] = EncodeRow(r)[j + 1] /\ C(j + 1)
  <2> DEFINE i == at + 1 + j
  <2>1. /\ i \in 1 .. Len(b) /\ i = at + (j + 1) /\ j + 1 \in 1 .. n
        /\ q + j \in Nat /\ (q + j) + 1 = q + (j + 1) /\ i + 1 = at + 1 + (j + 1)
    BY <1>1, <1>2, <1>4, ByteAt DEF Bytes
  <2>2. b[i] # 0 \/ b[i - 1] # 0
    <3>1. CASE j = 0
      BY <1>2, <1>3, <2>1, <3>1
    <3>2. CASE j # 0
      <4>1. i - 1 = at + j /\ j \in 1 .. n - 1 /\ j \in 1 .. n
        BY <1>1, <1>4, <3>2
      <4> QED  BY <1>2, <1>3, <4>1
    <3> QED  BY <3>1, <3>2
  <2>3. Carries(st, q + j, Rest(b, i))
    BY <1>4
  <2>4. b[i] = EncodeRow(r)[j + 1]
    BY <1>2, <2>1
  <2> HIDE DEF i
  <2>5. (q + j) + 1 < Len(st) /\ st[(q + j) + 1] = b[i] /\ Carries(st, (q + j) + 1, Rest(b, i + 1))
    BY <1>1, <2>1, <2>2, <2>3, CarriesByte
  <2> QED  BY <2>1, <2>4, <2>5
<1>5. C(0)
  <2>1. q + 0 = q /\ at + 1 + 0 = at + 1
    BY <1>1
  <2> QED  BY <2>1 DEF at, b
<1> HIDE DEF C
<1> DEFINE D(j) == q + (j + 1) < Len(st) /\ st[q + (j + 1)] = EncodeRow(r)[j + 1] /\ C(j + 1)
<1>6. n >= 1 /\ D(0)
  BY SMTT(20), <1>1, <1>4, <1>5
<1>7. n >= 2 => D(1)
  <2>1. n >= 2 => 1 < n
    BY <1>1
  <2> QED  BY <1>4, <1>6, <2>1
<1>8. n >= 3 => D(2)
  <2>1. n >= 3 => 2 < n /\ n >= 2
    BY <1>1
  <2> QED  BY <1>4, <1>7, <2>1
<1>9. n >= 4 => D(3)
  <2>1. n >= 4 => 3 < n /\ n >= 3
    BY <1>1
  <2> QED  BY <1>4, <1>8, <2>1
<1>10. ASSUME NEW j \in 1 .. n PROVE D(j - 1)
  <2>1. j \in {1, 2, 3, 4} /\ 1 - 1 = 0 /\ 2 - 1 = 1 /\ 3 - 1 = 2 /\ 4 - 1 = 3
    BY <1>1
  <2>2. j = 1 \/ (j = 2 /\ n >= 2) \/ (j = 3 /\ n >= 3) \/ (j = 4 /\ n >= 4)
    BY <1>1, <2>1
  <2> HIDE DEF D
  <2> QED  BY <1>6, <1>7, <1>8, <1>9, <2>1, <2>2
<1>11. ASSUME NEW j \in 1 .. n
       PROVE  q + j < Len(st) /\ st[q + j] = EncodeRow(r)[j] /\ C(j)
  <2>1. (j - 1) + 1 = j
    OBVIOUS
  <2> QED  BY <1>10, <2>1
<1>12. C(n) /\ q + n < Len(st)
  <2>1. n \in 1 .. n
    BY <1>1
  <2> QED  BY <1>11, <2>1
<1>13. Carries(st, q + n, Rest(b, Off(rows, k + 1) + 1))
  <2>1. at + 1 + n = Off(rows, k + 1) + 1
    BY <1>1
  <2> QED  BY <1>12, <2>1 DEF C
<1> QED  BY <1>11, <1>12, <1>13 DEF r, b, n

\* The empty rows of a run.
LEMMA RunCarried ==
  ASSUME NEW rows \in Seq(Row), NEW k \in 0 .. Len(rows) - 1,
         PlainRow(rows[k + 1]), rows[k + 1] = Empty,
         NEW st, NEW q \in Nat, Carries(st, q, Rest(EncodeRows(rows), Off(rows, k) + 1))
  PROVE  \E m \in 1 .. 9 :
           /\ Zeros(EncodeRows(rows), Off(rows, k) + 1, m)
           /\ q + 1 < Len(st) /\ st[q + 1] = (IF m = 1 THEN 0 ELSE PackedMin + m - 2)
           /\ Carries(st, q + 1, Rest(EncodeRows(rows), Off(rows, k) + 1 + m))
<1>1. EncodeRows(rows) \in Bytes
  BY OffNext
<1>2. /\ Off(rows, k) + 1 \in 1 .. Len(EncodeRows(rows))
      /\ EncodeRows(rows)[Off(rows, k) + 1] = 0
  BY RowStart
<1> QED  BY ZenonT(30), <1>1, <1>2, CarriesRun

-----------------------------------------------------------------------------
(* Orderlists.                                                              *)

CommandLen(c) == IF c.op \in {"loop", "jump"} THEN 2 ELSE 1

\* The bytes of a command.
LEMMA CommandBytes ==
  ASSUME NEW c \in Command, PlainCommand(c)
  PROVE  /\ EncodeCommand(c) \in Bytes /\ Len(EncodeCommand(c)) = CommandLen(c)
         /\ c.op = "play" => EncodeCommand(c)[1] = c.arg /\ c.arg \in 0 .. 127
         /\ c.op = "transpose" => EncodeCommand(c)[1] = 144 + c.arg /\ c.arg \in -16 .. 15
         /\ c.op = "volume" => EncodeCommand(c)[1] = 160 + c.arg /\ c.arg \in 0 .. 15
         /\ c.op = "tempo" => EncodeCommand(c)[1] = 176 + c.arg /\ c.arg \in 0 .. 63
         /\ c.op = "raw" => EncodeCommand(c)[1] = c.arg /\ c.arg \in 240 .. 253
         /\ c.op = "end" => EncodeCommand(c)[1] = 254 /\ c.arg = 0
         /\ c.op \in {"loop", "jump"} => EncodeCommand(c)[1] = 255 /\ EncodeCommand(c)[2] = c.arg
         /\ c.op = "loop" => c.arg \in 0 .. 127
         /\ c.op = "jump" => c.arg \in 128 .. 255
<1>1. c.op \in Ops
  BY DEF Command
<1>2. CASE c.op = "play"
  <2>1. EncodeCommand(c) = <<c.arg>> /\ c.arg \in 0 .. 127
    BY <1>2 DEF EncodeCommand, PlainCommand
  <2> QED  BY <1>2, <2>1 DEF CommandLen, Bytes
<1>3. CASE c.op = "transpose"
  <2>1. EncodeCommand(c) = <<144 + c.arg>> /\ c.arg \in -16 .. 15
    BY <1>3 DEF EncodeCommand, PlainCommand
  <2> QED  BY <1>3, <2>1 DEF CommandLen, Bytes
<1>4. CASE c.op = "volume"
  <2>1. EncodeCommand(c) = <<160 + c.arg>> /\ c.arg \in 0 .. 15
    BY <1>4 DEF EncodeCommand, PlainCommand
  <2> QED  BY <1>4, <2>1 DEF CommandLen, Bytes
<1>5. CASE c.op = "tempo"
  <2>1. EncodeCommand(c) = <<176 + c.arg>> /\ c.arg \in 0 .. 63
    BY <1>5 DEF EncodeCommand, PlainCommand
  <2> QED  BY <1>5, <2>1 DEF CommandLen, Bytes
<1>6. CASE c.op = "raw"
  <2>1. EncodeCommand(c) = <<c.arg>> /\ c.arg \in 240 .. 253
    BY <1>6 DEF EncodeCommand, PlainCommand
  <2> QED  BY <1>6, <2>1 DEF CommandLen, Bytes
<1>7. CASE c.op = "end"
  <2>1. EncodeCommand(c) = <<254>> /\ c.arg = 0
    BY <1>7 DEF EncodeCommand, PlainCommand
  <2> QED  BY <1>7, <2>1 DEF CommandLen, Bytes
<1>8. CASE c.op = "loop"
  <2>1. EncodeCommand(c) = <<255, c.arg>> /\ c.arg \in 0 .. 127
    BY <1>8 DEF EncodeCommand, PlainCommand
  <2> QED  BY <1>8, <2>1 DEF CommandLen, Bytes
<1>9. CASE c.op = "jump"
  <2>1. EncodeCommand(c) = <<255, c.arg>> /\ c.arg \in 128 .. 255
    BY <1>9 DEF EncodeCommand, PlainCommand
  <2> QED  BY <1>9, <2>1 DEF CommandLen, Bytes
<1> QED  BY <1>1, <1>2, <1>3, <1>4, <1>5, <1>6, <1>7, <1>8, <1>9 DEF Ops

\* The commands' codes, and how many bytes the first k take.
CommandCodes(cmds) == [k \in DOMAIN cmds |-> EncodeCommand(cmds[k])]
CommandOff(cmds, k) == Len(Upto(CommandCodes(cmds), k))

AllPlain(cmds) == \A k \in DOMAIN cmds : PlainCommand(cmds[k])

\* Where each command lies in the orderlist's bytes.
LEMMA CommandAt ==
  ASSUME NEW cmds \in Seq(Command), AllPlain(cmds)
  PROVE  /\ CommandOff(cmds, 0) = 0 /\ CommandOff(cmds, Len(cmds)) = Len(EncodeSequence(cmds))
         /\ EncodeSequence(cmds) \in Bytes
         /\ \A k \in 0 .. Len(cmds) - 1 :
              LET c == cmds[k + 1]
              IN  /\ c \in Command /\ PlainCommand(c)
                  /\ CommandOff(cmds, k) \in Nat
                  /\ CommandOff(cmds, k + 1) = CommandOff(cmds, k) + CommandLen(c)
                  /\ CommandOff(cmds, k) + CommandLen(c) <= Len(EncodeSequence(cmds))
                  /\ \A j \in 1 .. CommandLen(c) :
                       EncodeSequence(cmds)[CommandOff(cmds, k) + j] = EncodeCommand(c)[j]
<1> DEFINE cc == CommandCodes(cmds)
<1>1. \A k \in 1 .. Len(cmds) : cmds[k] \in Command /\ PlainCommand(cmds[k])
  BY ElementOfSeq DEF AllPlain
<1>2. cc \in Seq(Bytes) /\ Len(cc) = Len(cmds) /\ \A k \in 1 .. Len(cmds) : cc[k] = EncodeCommand(cmds[k])
  BY <1>1, CommandBytes DEF CommandCodes
<1>3. EncodeSequence(cmds) = FlattenSeq(cc)
  BY DEF EncodeSequence, CommandCodes
<1> HIDE DEF cc
<1>4. cc \in Seq(Seq(0 .. 255))
  BY <1>2 DEF Bytes
<1>5. /\ Upto(cc, 0) = << >> /\ Upto(cc, Len(cc)) = FlattenSeq(cc) /\ FlattenSeq(cc) \in Bytes
  BY <1>4, UptoNext, FlattenType DEF Bytes
<1>6. ASSUME NEW k \in 0 .. Len(cmds) - 1
      PROVE  /\ cmds[k + 1] \in Command /\ PlainCommand(cmds[k + 1])
             /\ CommandOff(cmds, k) \in Nat
             /\ CommandOff(cmds, k + 1) = CommandOff(cmds, k) + CommandLen(cmds[k + 1])
             /\ CommandOff(cmds, k) + CommandLen(cmds[k + 1]) <= Len(EncodeSequence(cmds))
             /\ \A j \in 1 .. CommandLen(cmds[k + 1]) :
                  EncodeSequence(cmds)[CommandOff(cmds, k) + j] = EncodeCommand(cmds[k + 1])[j]
  <2>1. k \in 0 .. Len(cc) - 1 /\ k + 1 \in 1 .. Len(cmds)
    BY <1>2
  <2>2. cmds[k + 1] \in Command /\ PlainCommand(cmds[k + 1]) /\ cc[k + 1] = EncodeCommand(cmds[k + 1])
    BY <1>1, <1>2, <2>1
  <2>3. Len(cc[k + 1]) = CommandLen(cmds[k + 1])
    BY <2>2, CommandBytes
  <2>4. /\ Len(Upto(cc, k)) \in Nat /\ Len(Upto(cc, k + 1)) = Len(Upto(cc, k)) + Len(cc[k + 1])
        /\ Len(Upto(cc, k)) + Len(cc[k + 1]) <= Len(FlattenSeq(cc))
        /\ \A j \in 1 .. Len(cc[k + 1]) : FlattenSeq(cc)[Len(Upto(cc, k)) + j] = cc[k + 1][j]
    BY <1>4, <2>1, UptoAt
  <2> QED  BY <1>3, <2>2, <2>3, <2>4 DEF CommandOff, cc
<1>7. CommandOff(cmds, 0) = 0 /\ CommandOff(cmds, Len(cmds)) = Len(EncodeSequence(cmds))
  BY <1>2, <1>3, <1>5 DEF CommandOff, cc
<1> QED  BY <1>3, <1>5, <1>6, <1>7

\* Up to its end an orderlist is one byte for each command.
LEMMA OrderBytes ==
  ASSUME NEW cmds \in Seq(Command), AllPlain(cmds), NEW e \in 1 .. Len(cmds),
         \A k \in 1 .. e - 1 : cmds[k].op \notin {"end", "loop", "jump"}
  PROVE  /\ EncodeSequence(cmds) \in Bytes
         /\ \A k \in 1 .. e : /\ k <= Len(EncodeSequence(cmds))
                             /\ cmds[k] \in Command /\ PlainCommand(cmds[k])
                             /\ EncodeSequence(cmds)[k] = EncodeCommand(cmds[k])[1]
         /\ cmds[e].op \in {"loop", "jump"} => /\ e + 1 <= Len(EncodeSequence(cmds))
                                             /\ EncodeSequence(cmds)[e + 1] = cmds[e].arg
         /\ e = Len(cmds) => Len(EncodeSequence(cmds)) = e - 1 + CommandLen(cmds[e])
<1> DEFINE b == EncodeSequence(cmds)
           S == {n \in Nat : n < e => CommandOff(cmds, n) = n}
<1>0. b \in Bytes
  BY CommandAt
<1>1. 0 \in S
  BY CommandAt
<1>2. ASSUME NEW n \in Nat, n \in S PROVE n + 1 \in S
  <2> SUFFICES ASSUME n + 1 < e PROVE CommandOff(cmds, n + 1) = n + 1
    OBVIOUS
  <2>1. n \in 0 .. Len(cmds) - 1 /\ n + 1 \in 1 .. e - 1 /\ n < e
    OBVIOUS
  <2>2. CommandOff(cmds, n + 1) = CommandOff(cmds, n) + CommandLen(cmds[n + 1])
    BY <2>1, CommandAt
  <2>3. CommandLen(cmds[n + 1]) = 1
    BY <2>1 DEF CommandLen
  <2>4. CommandOff(cmds, n) = n
    BY <1>2, <2>1
  <2> QED  BY <2>2, <2>3, <2>4
<1> HIDE DEF S
<1>3. \A n \in Nat : n \in S
  BY <1>1, <1>2, SetInduction
<1>4. ASSUME NEW k \in 1 .. e
      PROVE  /\ cmds[k] \in Command /\ PlainCommand(cmds[k])
             /\ k - 1 + CommandLen(cmds[k]) <= Len(b)
             /\ \A j \in 1 .. CommandLen(cmds[k]) : b[k - 1 + j] = EncodeCommand(cmds[k])[j]
  <2> DEFINE n == k - 1
  <2>1. n \in 0 .. Len(cmds) - 1 /\ n + 1 = k /\ n < e /\ n \in Nat
    OBVIOUS
  <2>2. CommandOff(cmds, n) = n
    BY <1>3, <2>1 DEF S
  <2> HIDE DEF n
  <2>3. /\ cmds[n + 1] \in Command /\ PlainCommand(cmds[n + 1])
        /\ CommandOff(cmds, n) + CommandLen(cmds[n + 1]) <= Len(b)
        /\ \A j \in 1 .. CommandLen(cmds[n + 1]) : b[CommandOff(cmds, n) + j] = EncodeCommand(cmds[n + 1])[j]
    BY <2>1, CommandAt
  <2> HIDE DEF b
  <2>4. /\ cmds[k] \in Command /\ PlainCommand(cmds[k]) /\ n + CommandLen(cmds[k]) <= Len(b)
        /\ \A j \in 1 .. CommandLen(cmds[k]) : b[n + j] = EncodeCommand(cmds[k])[j]
    BY <2>1, <2>2, <2>3
  <2> QED  BY <2>4 DEF n
<1>5. Len(b) \in Nat
  BY <1>0 DEF Bytes
<1>8. ASSUME e = Len(cmds) PROVE Len(b) = e - 1 + CommandLen(cmds[e])
  <2> DEFINE n == e - 1
  <2>1. n \in 0 .. Len(cmds) - 1 /\ n + 1 = e /\ n < e /\ n \in Nat
    BY <1>8
  <2>2. CommandOff(cmds, n) = n
    BY <1>3, <2>1 DEF S
  <2> HIDE DEF n
  <2>3. CommandOff(cmds, n + 1) = CommandOff(cmds, n) + CommandLen(cmds[n + 1])
    BY <2>1, CommandAt
  <2>4. CommandOff(cmds, Len(cmds)) = Len(b)
    BY CommandAt
  <2>5. Len(b) = n + CommandLen(cmds[e])
    BY <1>8, <2>1, <2>2, <2>3, <2>4
  <2> QED  BY <2>5 DEF n
<1> HIDE DEF b
<1>6. ASSUME NEW k \in 1 .. e PROVE k <= Len(b) /\ b[k] = EncodeCommand(cmds[k])[1]
  <2>1. CommandLen(cmds[k]) \in 1 .. 2 /\ 1 \in 1 .. CommandLen(cmds[k]) /\ k - 1 + 1 = k
    BY DEF CommandLen
  <2>2. k - 1 + CommandLen(cmds[k]) <= Len(b)
    BY <1>4
  <2>3. b[k - 1 + 1] = EncodeCommand(cmds[k])[1]
    BY <1>4, <2>1
  <2> QED  BY <1>5, <2>1, <2>2, <2>3
<1>7. cmds[e].op \in {"loop", "jump"} => e + 1 <= Len(b) /\ b[e + 1] = cmds[e].arg
  <2> SUFFICES ASSUME cmds[e].op \in {"loop", "jump"} PROVE e + 1 <= Len(b) /\ b[e + 1] = cmds[e].arg
    OBVIOUS
  <2>1. CommandLen(cmds[e]) = 2 /\ e - 1 + 2 = e + 1 /\ e \in 1 .. e /\ 2 \in 1 .. 2
    BY DEF CommandLen
  <2>2. /\ cmds[e] \in Command /\ PlainCommand(cmds[e]) /\ e - 1 + 2 <= Len(b)
        /\ b[e - 1 + 2] = EncodeCommand(cmds[e])[2]
    BY <1>4, <2>1
  <2>3. EncodeCommand(cmds[e])[2] = cmds[e].arg
    BY <2>2, CommandBytes
  <2> QED  BY <2>1, <2>2, <2>3
<1> QED  BY <1>0, <1>4, <1>6, <1>7, <1>8 DEF b

-----------------------------------------------------------------------------
(* What the parser reads back.                                              *)

RowsFrom(b) ==
  CHOOSE F : F = [i \in 1 .. Len(b) + 4 |->
    IF i > Len(b) THEN <<>> ELSE <<DecodeRow(b, i)>> \o F[i + Columns(b, i)]]

\* The parser's recursion over a pattern has a solution.
LEMMA RowsFromIs ==
  ASSUME NEW b \in Bytes
  PROVE  /\ DecodeRows(b) = RowsFrom(b)[1]
         /\ RowsFrom(b)[Len(b) + 1] = << >>
         /\ \A i \in 1 .. Len(b) : RowsFrom(b)[i] = <<DecodeRow(b, i)>> \o RowsFrom(b)[i + Columns(b, i)]
<1> DEFINE piece == [i \in 1 .. Len(b) |-> <<DecodeRow(b, i)>>]
           next == [i \in 1 .. Len(b) |-> i + Columns(b, i)]
<1>0. Len(b) \in Nat /\ Len(b) + 4 \in Nat /\ Len(b) < Len(b) + 4
  BY DEF Bytes
<1>1. ASSUME NEW i \in 1 .. Len(b) PROVE next[i] \in i + 1 .. Len(b) + 4
  <2>1. Columns(b, i) \in 1 .. 4
    BY DEF Columns
  <2> QED  BY <1>0, <2>1
<1> HIDE DEF piece, next
<1>2. PICK F : F = [i \in 1 .. Len(b) + 4 |-> IF i > Len(b) THEN <<>> ELSE piece[i] \o F[next[i]]]
  <2>1. \E F : TakesApart(F, Len(b), Len(b) + 4, piece, next)
    BY <1>0, <1>1, FromTheEnd
  <2> QED  BY <2>1 DEF TakesApart
<1>3. ASSUME NEW i \in 1 .. Len(b) + 4
      PROVE  (IF i > Len(b) THEN <<>> ELSE piece[i] \o F[next[i]]) =
             IF i > Len(b) THEN <<>> ELSE <<DecodeRow(b, i)>> \o F[i + Columns(b, i)]
  <2>1. i > Len(b) \/ i \in 1 .. Len(b)
    BY <1>0
  <2> QED  BY <1>0, <2>1 DEF piece, next
<1>4. F = [i \in 1 .. Len(b) + 4 |-> IF i > Len(b) THEN <<>> ELSE <<DecodeRow(b, i)>> \o F[i + Columns(b, i)]]
  BY <1>2, <1>3
<1> DEFINE R == RowsFrom(b)
<1>5. R = [i \in 1 .. Len(b) + 4 |-> IF i > Len(b) THEN <<>> ELSE <<DecodeRow(b, i)>> \o R[i + Columns(b, i)]]
  BY <1>4 DEF RowsFrom
<1> HIDE DEF R
<1>6. ASSUME NEW i \in 1 .. Len(b) PROVE R[i] = <<DecodeRow(b, i)>> \o R[i + Columns(b, i)]
  <2>1. i \in 1 .. Len(b) + 4 /\ ~(i > Len(b))
    BY <1>0
  <2> QED  BY <1>5, <2>1
<1>7. R[Len(b) + 1] = << >>
  <2>1. Len(b) + 1 \in 1 .. Len(b) + 4 /\ Len(b) + 1 > Len(b)
    BY <1>0
  <2> QED  BY <1>5, <2>1
<1>8. DecodeRows(b) = RowsFrom(b)[1]
  BY DEF DecodeRows, RowsFrom
<1> QED  BY <1>6, <1>7, <1>8 DEF R

\* A row read where its bytes are.
LEMMA RowRead ==
  ASSUME NEW r \in Row, TakesValue(r), NEW b, NEW i \in Nat,
         \A j \in 1 .. RowLen(r) : b[(i - 1) + j] = EncodeRow(r)[j]
  PROVE  Columns(b, i) = RowLen(r) /\ DecodeRow(b, i) = r
<1> DEFINE n == RowLen(r)
<1>1. r.note \in 0 .. 127 /\ r.inst \in 0 .. 127 /\ r.fx \in 0 .. 255 /\ r.value \in 0 .. 255
  BY DEF Row
<1>2. r = [note |-> r.note, inst |-> r.inst, fx |-> r.fx, value |-> r.value]
  BY DEF Row
<1>3. /\ EncodeRow(r)[1] = Flag(r.note, r.inst # 0 \/ r.fx # 0)
      /\ n >= 2 => EncodeRow(r)[2] = Flag(r.inst, r.fx # 0)
      /\ n >= 3 => EncodeRow(r)[3] = r.fx
      /\ n = 4 => EncodeRow(r)[4] = r.value
  BY RowBytes
<1>4. /\ n \in 1 .. 4 /\ (n >= 2 <=> r.inst # 0 \/ r.fx # 0) /\ (n >= 3 <=> r.fx # 0)
      /\ (n = 4 <=> r.fx # 0 /\ r.fx < 32)
  BY <1>1 DEF RowLen
<1>5. r.fx \in 1 .. 31 \/ r.value = 0
  BY DEF TakesValue
<1> HIDE DEF n
<1>6. (n # 4 => r.value = 0) /\ (n = 1 => r.inst = 0) /\ (n < 3 => r.fx = 0)
  BY <1>1, <1>4, <1>5
<1>7. /\ b[i] = EncodeRow(r)[1]
      /\ n >= 2 => b[i + 1] = EncodeRow(r)[2]
      /\ n >= 3 => b[i + 2] = EncodeRow(r)[3]
      /\ n = 4 => b[i + 3] = EncodeRow(r)[4]
  <2>1. (i - 1) + 1 = i /\ (i - 1) + 2 = i + 1 /\ (i - 1) + 3 = i + 2 /\ (i - 1) + 4 = i + 3
    OBVIOUS
  <2>2. \A j \in 1 .. n : b[(i - 1) + j] = EncodeRow(r)[j]
    BY DEF n
  <2>3. /\ 1 \in 1 .. n /\ (n >= 2 => 2 \in 1 .. n) /\ (n >= 3 => 3 \in 1 .. n) /\ (n = 4 => 4 \in 1 .. n)
    BY <1>4
  <2> QED  BY <2>1, <2>2, <2>3
<1>8. /\ b[i] % 128 = r.note /\ (b[i] < 128 <=> n = 1)
      /\ n >= 2 => b[i + 1] % 128 = r.inst /\ (b[i + 1] < 128 <=> n = 2)
  <2>1. CASE r.fx # 0
    <3>1. b[i] = r.note + 128 /\ b[i + 1] = r.inst + 128 /\ n >= 3
      BY <1>3, <1>4, <1>7, <2>1 DEF Flag
    <3> QED  BY <1>1, <1>4, <3>1
  <2>2. CASE r.fx = 0 /\ r.inst # 0
    <3>1. b[i] = r.note + 128 /\ b[i + 1] = r.inst /\ n = 2
      BY <1>3, <1>4, <1>7, <2>2 DEF Flag
    <3> QED  BY <1>1, <1>4, <3>1
  <2>3. CASE r.fx = 0 /\ r.inst = 0
    <3>1. b[i] = r.note /\ n = 1
      BY <1>3, <1>4, <1>7, <2>3 DEF Flag
    <3> QED  BY <1>1, <1>4, <3>1
  <2> QED  BY <2>1, <2>2, <2>3
<1>9. (n >= 3 => b[i + 2] = r.fx) /\ (n = 4 => b[i + 3] = r.value) /\ (n >= 3 => (b[i + 2] < 32 <=> n = 4))
  BY <1>1, <1>3, <1>4, <1>7
<1>10. Columns(b, i) = n
  <2>1. CASE n = 1
    BY <1>8, <2>1 DEF Columns
  <2>2. CASE n = 2
    BY <1>8, <2>2 DEF Columns
  <2>3. CASE n = 3
    BY <1>8, <1>9, <2>3 DEF Columns
  <2>4. CASE n = 4
    BY <1>8, <1>9, <2>4 DEF Columns
  <2> QED  BY <1>4, <2>1, <2>2, <2>3, <2>4
<1>11. DecodeRow(b, i) = [note |-> r.note, inst |-> r.inst, fx |-> r.fx, value |-> r.value]
  BY <1>4, <1>6, <1>8, <1>9, <1>10 DEF DecodeRow
<1> QED  BY <1>2, <1>10, <1>11 DEF n

\* A row of a pattern read where it was written.
LEMMA RowReadBack ==
  ASSUME NEW rows \in Seq(Row), NEW k \in 0 .. Len(rows) - 1, TakesValue(rows[k + 1])
  PROVE  /\ Columns(EncodeRows(rows), Off(rows, k) + 1) = RowLen(rows[k + 1])
         /\ DecodeRow(EncodeRows(rows), Off(rows, k) + 1) = rows[k + 1]
<1>1. rows[k + 1] \in Row /\ Off(rows, k) \in Nat
  <2>1. k \in 0 .. Len(rows)
    OBVIOUS
  <2> QED  BY <2>1, OffNext
<1>2. Off(rows, k) + 1 \in Nat /\ (Off(rows, k) + 1) - 1 = Off(rows, k)
  BY <1>1
<1>3. \A j \in 1 .. RowLen(rows[k + 1]) :
        EncodeRows(rows)[((Off(rows, k) + 1) - 1) + j] = EncodeRow(rows[k + 1])[j]
  BY <1>2, RowAt
<1> QED  BY <1>1, <1>2, <1>3, RowRead

AllPlainRows(rows) == \A k \in DOMAIN rows : PlainRow(rows[k])
AllTakeValues(rows) == \A k \in DOMAIN rows : TakesValue(rows[k])

\* The rows of a pattern's bytes are its rows.
THEOREM RowsReadBack ==
  ASSUME NEW rows \in Seq(Row), AllTakeValues(rows)
  PROVE  DecodeRows(EncodeRows(rows)) = rows
<1> DEFINE b == EncodeRows(rows)
           R == RowsFrom(b)
           m == Len(rows)
           S == {k \in 0 .. m : R[Off(rows, k) + 1] = SubSeq(rows, k + 1, m)}
<1>0. /\ b \in Bytes /\ m \in Nat /\ Off(rows, m) = Len(b) /\ Off(rows, 0) = 0
  BY OffNext
<1>1. m \in S
  <2>1. R[Len(b) + 1] = << >>
    BY <1>0, RowsFromIs
  <2>2. SubSeq(rows, m + 1, m) = << >>
    BY <1>0, SubSeqEmpty
  <2> HIDE DEF R, b, m
  <2>3. R[Off(rows, m) + 1] = SubSeq(rows, m + 1, m) /\ m \in 0 .. m
    BY <1>0, <2>1, <2>2
  <2> QED  BY <2>3
<1>2. ASSUME NEW k \in 1 .. m, k \in S PROVE k - 1 \in S
  <2> DEFINE j == k - 1
  <2>1. j \in 0 .. m - 1 /\ j + 1 = k /\ j \in 0 .. m
    BY <1>0
  <2>2. TakesValue(rows[j + 1])
    BY <2>1 DEF AllTakeValues
  <2> HIDE DEF j
  <2>3. /\ Columns(b, Off(rows, j) + 1) = RowLen(rows[j + 1])
        /\ DecodeRow(b, Off(rows, j) + 1) = rows[j + 1]
    BY <2>1, <2>2, RowReadBack
  <2>4. /\ Off(rows, j + 1) = Off(rows, j) + RowLen(rows[j + 1]) /\ RowLen(rows[j + 1]) \in 1 .. 4
        /\ Off(rows, j) \in Nat
    BY <2>1, OffNext
  <2>5. Off(rows, j) + 1 \in 1 .. Len(b)
    <3>1. Off(rows, j) + RowLen(rows[j + 1]) <= Len(b) /\ Len(b) \in Nat
      BY <1>0, <2>1, RowAt DEF Bytes
    <3> QED  BY <2>4, <3>1
  <2>6. R[Off(rows, j) + 1] = <<DecodeRow(b, Off(rows, j) + 1)>> \o R[(Off(rows, j) + 1) + Columns(b, Off(rows, j) + 1)]
    BY <1>0, <2>5, RowsFromIs
  <2>7. (Off(rows, j) + 1) + RowLen(rows[j + 1]) = Off(rows, k) + 1
    BY <2>1, <2>4
  <2>8. R[Off(rows, k) + 1] = SubSeq(rows, k + 1, m)
    BY <1>2
  <2>9. SubSeq(rows, k, m) = <<rows[k]>> \o SubSeq(rows, k + 1, m)
    BY <1>0, SubSeqRecursiveFirst
  <2> HIDE DEF R, b
  <2>10. R[Off(rows, j) + 1] = SubSeq(rows, k, m)
    BY <2>1, <2>3, <2>6, <2>7, <2>8, <2>9
  <2> QED  BY <2>1, <2>10 DEF j
<1> HIDE DEF S
<1>3. 0 \in S
  BY <1>0, <1>1, <1>2, DownInduction
<1>4. R[0 + 1] = SubSeq(rows, 0 + 1, m)
  BY <1>0, <1>3 DEF S
<1>5. SubSeq(rows, 1, m) = rows
  BY SubSeqFull
<1> QED  BY <1>0, <1>4, <1>5, RowsFromIs

-----------------------------------------------------------------------------
(* Unpacking.                                                               *)

\* The bytes unpacked, byte by byte.
Unpacked(out, c) ==
  IF c \in Marker /\ out # <<>> /\ Last(out) \in Marker \cup {0}
    THEN out \o [k \in 1 .. c - PackedMin + 2 |-> 0]
    ELSE Append(out, c)

UnpackUpto(p) == CHOOSE U : U = [i \in 0 .. Len(p) |-> IF i = 0 THEN <<>> ELSE Unpacked(U[i - 1], p[i])]

\* The recursion of unpacking has a solution.
LEMMA UnpackIs ==
  ASSUME NEW p, Len(p) \in Nat
  PROVE  /\ Unpack(p) = UnpackUpto(p)[Len(p)]
         /\ UnpackUpto(p)[0] = << >>
         /\ \A i \in 1 .. Len(p) : UnpackUpto(p)[i] = Unpacked(UnpackUpto(p)[i - 1], p[i])
<1> DEFINE At(g, i) == IF i = 0 THEN <<>> ELSE Unpacked(g[i - 1], p[i])
           Is(g, n) == g = [i \in 0 .. n |-> At(g, i)]
           S == {n \in Nat : \E g : Is(g, n)}
<1>1. 0 \in S
  <2> DEFINE g == [i \in 0 .. 0 |-> <<>>]
  <2>1. g = [i \in 0 .. 0 |-> At(g, i)]
    OBVIOUS
  <2> HIDE DEF g, At
  <2> QED  BY <2>1
<1>2. ASSUME NEW n \in Nat, n \in S PROVE n + 1 \in S
  <2>1. PICK g : Is(g, n)
    BY <1>2
  <2> DEFINE h == [i \in 0 .. n + 1 |-> IF i = n + 1 THEN At(g, n + 1) ELSE g[i]]
  <2>2. ASSUME NEW i \in 0 .. n + 1 PROVE At(h, i) = At(g, i)
    <3>1. i # 0 => i - 1 \in 0 .. n + 1 /\ i - 1 # n + 1
      OBVIOUS
    <3>2. i # 0 => h[i - 1] = g[i - 1]
      BY <3>1
    <3> HIDE DEF h
    <3> QED  BY <3>2
  <2>3. ASSUME NEW i \in 0 .. n + 1 PROVE h[i] = At(h, i)
    <3>1. CASE i = n + 1
      <4>1. h[i] = At(g, i)
        BY <3>1
      <4> HIDE DEF h, At
      <4> QED  BY <2>2, <4>1
    <3>2. CASE i # n + 1
      <4>1. h[i] = g[i] /\ i \in 0 .. n
        BY <3>2
      <4>2. g[i] = At(g, i)
        <5> HIDE DEF At
        <5> QED  BY <2>1, <4>1
      <4> HIDE DEF h, At
      <4> QED  BY <2>2, <4>1, <4>2
    <3> QED  BY <3>1, <3>2
  <2>4. h = [i \in 0 .. n + 1 |-> h[i]]
    OBVIOUS
  <2> HIDE DEF h, At
  <2>5. h = [i \in 0 .. n + 1 |-> At(h, i)]
    BY <2>3, <2>4
  <2> QED  BY <2>5
<1> HIDE DEF S
<1>3. \E g : Is(g, Len(p))
  <2>1. Len(p) \in S
    BY <1>1, <1>2, SetInduction
  <2> QED  BY <2>1 DEF S
<1> DEFINE U == UnpackUpto(p)
<1>4. U = [i \in 0 .. Len(p) |-> At(U, i)]
  BY <1>3 DEF UnpackUpto
<1>5. Unpack(p) = U[Len(p)]
  BY DEF Unpack, UnpackUpto, Unpacked
<1> HIDE DEF U, At
<1>6. \A i \in 0 .. Len(p) : U[i] = At(U, i)
  BY <1>4
<1> QED  BY <1>5, <1>6 DEF At, U

\* Unpacking undoes packing.
LEMMA UnpackPack ==
  ASSUME NEW b \in Bytes, NoFalseRun(b)
  PROVE  Unpack(Pack(b)) = b
<1> DEFINE p == Pack(b)
           st == Append(p, 255)
           U == UnpackUpto(p)
           N == Len(b)
           S == {q \in Nat : q <= Len(p) =>
                   \E i \in 1 .. N + 1 : Carries(st, q, Rest(b, i)) /\ U[q] = SubSeq(b, 1, i - 1)}
<1>0. /\ p \in Bytes /\ Len(p) \in Nat /\ N \in Nat /\ Len(st) = Len(p) + 1
      /\ \A i \in 1 .. Len(p) : st[i] = p[i]
  <2>1. 1 \in 1 .. N + 1 /\ N \in Nat
    BY DEF Bytes
  <2>2. p \in Bytes
    BY <2>1, PackIs, PackType
  <2> HIDE DEF p
  <2> QED  BY <2>1, <2>2 DEF Bytes
<1> HIDE DEF p
<1>1. 0 \in S
  <2>1. Carries(st, 0, Rest(b, 1))
    BY CarriesStart DEF p
  <2>2. U[0] = SubSeq(b, 1, 0) /\ 1 - 1 = 0 /\ 1 \in 1 .. N + 1
    <3>1. U[0] = << >>
      BY <1>0, UnpackIs
    <3>2. SubSeq(b, 1, 0) = << >>
      BY SubSeqEmpty
    <3> QED  BY <1>0, <3>1, <3>2
  <2> HIDE DEF st, U
  <2> QED  BY <2>1, <2>2
<1>2. ASSUME NEW q \in Nat, q \in S PROVE q + 1 \in S
  <2> SUFFICES ASSUME q + 1 <= Len(p)
               PROVE  \E i \in 1 .. N + 1 : Carries(st, q + 1, Rest(b, i)) /\ U[q + 1] = SubSeq(b, 1, i - 1)
    OBVIOUS
  <2>1. PICK i \in 1 .. N + 1 : Carries(st, q, Rest(b, i)) /\ U[q] = SubSeq(b, 1, i - 1)
    BY <1>0, <1>2
  <2>2. i \in 1 .. N
    <3> HIDE DEF st
    <3>1. i # N + 1
      BY <1>0, <2>1, CarriesEnd
    <3> QED  BY <1>0, <3>1
  <2> DEFINE out == SubSeq(b, 1, i - 1)
  <2>3. q + 1 \in 1 .. Len(p) /\ (q + 1) - 1 = q
    BY <1>0
  <2>4. U[q + 1] = Unpacked(out, st[q + 1])
    <3>1. U[q + 1] = Unpacked(U[(q + 1) - 1], p[q + 1])
      BY <1>0, <2>3, UnpackIs
    <3> QED  BY <1>0, <2>1, <2>3, <3>1
  <2>5. /\ out \in Bytes /\ Len(out) = i - 1
        /\ \A j \in 1 .. i - 1 : out[j] = b[j]
    <3>1. /\ 1 \in 1 .. Len(b) + 1 /\ i - 1 \in 1 - 1 .. Len(b) /\ (i - 1) - 1 + 1 = i - 1
          /\ \A j \in 1 .. i - 1 : 1 + j - 1 = j
      BY <1>0, <2>2
    <3> QED  BY <3>1, BytesBetween
  <2> HIDE DEF st, U, out
  <2>6. (i # 1 => out # << >> /\ Last(out) = b[i - 1]) /\ (i = 1 => out = << >>)
    <3>1. i # 1 => i - 1 \in 1 .. i - 1 /\ Len(out) # 0
      BY <2>2, <2>5
    <3>2. Len(<< >>) = 0
      OBVIOUS
    <3>3. i = 1 => Len(out) = 0
      BY <2>5
    <3>4. Len(out) = 0 => out = << >>
      BY <2>5, EmptySeq DEF Bytes
    <3> QED  BY <2>5, <3>1, <3>2, <3>3, <3>4 DEF Last
  <2>7. CASE b[i] = 0
    <3>1. PICK m \in 1 .. 9 : /\ Zeros(b, i, m) /\ (m = 1 \/ (i # 1 /\ b[i - 1] = 0))
                              /\ st[q + 1] = (IF m = 1 THEN 0 ELSE PackedMin + m - 2)
                              /\ Carries(st, q + 1, Rest(b, i + m))
      BY SMTT(20), <2>1, <2>2, <2>7, CarriesRun
    <3>2. i + m \in 1 .. N + 1 /\ \A j \in i .. i + m - 1 : b[j] = 0
      BY <1>0, <2>2, <3>1 DEF Zeros
    <3>3. U[q + 1] = SubSeq(b, 1, (i + m) - 1)
      <4>1. CASE m = 1
        <5>1. st[q + 1] = 0 /\ 0 \notin Marker
          BY <3>1, <4>1 DEF Marker, PackedMin
        <5>2. U[q + 1] = Append(out, 0)
          BY <2>4, <5>1 DEF Unpacked
        <5>3. SubSeq(b, 1, i) = SubSeq(b, 1, i - 1) \o <<b[i]>>
          <6>1. 1 \in 1 .. Len(b) /\ i \in 1 .. Len(b)
            BY <1>0, <2>2
          <6> QED  BY <6>1, SubSeqRecursiveSecond DEF Bytes
        <5>4. Append(out, 0) = out \o <<0>> /\ (i + m) - 1 = i
          BY <2>2, <2>5, <4>1 DEF Bytes
        <5> QED  BY <2>7, <5>2, <5>3, <5>4 DEF out
      <4>2. CASE m # 1
        <5> DEFINE z == [k \in 1 .. m |-> 0]
        <5>1. st[q + 1] = PackedMin + m - 2 /\ PackedMin + m - 2 \in Marker /\ (PackedMin + m - 2) - PackedMin + 2 = m
          BY <3>1, <4>2 DEF Marker, PackedMin, PackedMax
        <5>2. Last(out) = 0 /\ out # << >>
          BY <2>6, <3>1, <4>2
        <5>3. U[q + 1] = out \o z
          BY <2>4, <5>1, <5>2 DEF Unpacked
        <5>4. z = SubSeq(b, i, (i + m) - 1)
          <6>1. SubSeq(b, i, (i + m) - 1) \in Seq(0 .. 255) /\ Len(SubSeq(b, i, (i + m) - 1)) = m
                /\ \A j \in 1 .. m : SubSeq(b, i, (i + m) - 1)[j] = b[i + j - 1]
            <7>1. /\ i \in 1 .. Len(b) + 1 /\ (i + m) - 1 \in i - 1 .. Len(b)
                  /\ ((i + m) - 1) - i + 1 = m
              BY <1>0, <2>2, <3>2
            <7> QED  BY ZenonT(30), <7>1, BytesBetween DEF Bytes
          <6>2. z \in Seq(0 .. 255) /\ Len(z) = m /\ \A j \in 1 .. m : z[j] = 0
            OBVIOUS
          <6>3. ASSUME NEW j \in 1 .. m PROVE b[i + j - 1] = 0
            <7>1. i + j - 1 \in i .. i + m - 1
              BY <2>2
            <7> QED  BY <3>2, <7>1
          <6> DEFINE t == SubSeq(b, i, (i + m) - 1)
          <6> HIDE DEF z, t
          <6>4. \A j \in 1 .. m : z[j] = t[j]
            BY <6>1, <6>2, <6>3 DEF t
          <6>5. z \in Seq(0 .. 255) /\ t \in Seq(0 .. 255) /\ Len(z) = m /\ Len(t) = m
            BY <6>1, <6>2 DEF t
          <6> QED  BY <6>4, <6>5, SeqEqual DEF t
        <5>5. SubSeq(b, 1, i - 1) \o SubSeq(b, (i - 1) + 1, (i + m) - 1) = SubSeq(b, 1, (i + m) - 1)
          <6>1. /\ 1 \in 1 .. Len(b) + 1 /\ i - 1 \in 1 - 1 .. Len(b) /\ (i + m) - 1 \in i - 1 .. Len(b)
            BY <1>0, <2>2, <3>2
          <6> QED  BY <6>1, ConcatAdjacentSubSeq DEF Bytes
        <5>6. (i - 1) + 1 = i
          BY <2>2
        <5> HIDE DEF z
        <5> QED  BY <5>3, <5>4, <5>5, <5>6 DEF out
      <4> QED  BY <4>1, <4>2
    <3> QED  BY <3>1, <3>2, <3>3
  <2>8. CASE b[i] # 0
    <3>1. st[q + 1] = b[i] /\ Carries(st, q + 1, Rest(b, i + 1))
      BY <2>1, <2>2, <2>8, CarriesByte
    <3>2. U[q + 1] = Append(out, b[i])
      <4>1. b[i] \in Marker => i = 1 \/ b[i - 1] \notin Marker \cup {0}
        BY <1>0, <2>2 DEF NoFalseRun
      <4> QED  BY <2>4, <2>6, <3>1, <4>1 DEF Unpacked
    <3>3. SubSeq(b, 1, i) = SubSeq(b, 1, i - 1) \o <<b[i]>>
      BY <1>0, <2>2, SubSeqRecursiveSecond
    <3>4. Append(out, b[i]) = out \o <<b[i]>> /\ (i + 1) - 1 = i /\ i + 1 \in 1 .. N + 1
      BY <1>0, <2>2, <2>5, ByteAt DEF Bytes
    <3> QED  BY <3>1, <3>2, <3>3, <3>4 DEF out
  <2> QED  BY <2>7, <2>8
<1> HIDE DEF S
<1>3. Len(p) \in S
  BY <1>0, <1>1, <1>2, SetInduction
<1>4. PICK i \in 1 .. N + 1 : Carries(st, Len(p), Rest(b, i)) /\ U[Len(p)] = SubSeq(b, 1, i - 1)
  BY <1>0, <1>3 DEF S
<1>5. i = N + 1
  <2> SUFFICES ASSUME i \in 1 .. N PROVE FALSE
    BY <1>0
  <2> HIDE DEF st
  <2>1. Len(p) + 1 < Len(st)
    <3>1. CASE b[i] = 0
      BY <1>0, <1>4, <3>1, CarriesRun
    <3>2. CASE b[i] # 0
      BY <1>0, <1>4, <3>2, CarriesByte
    <3> QED  BY <3>1, <3>2
  <2> QED  BY <1>0, <2>1
<1>6. SubSeq(b, 1, N) = b /\ (N + 1) - 1 = N
  BY <1>0, SubSeqFull DEF Bytes
<1> HIDE DEF U
<1>7. Unpack(p) = U[Len(p)]
  BY <1>0, UnpackIs DEF U
<1> QED  BY <1>4, <1>5, <1>6, <1>7 DEF p

\* The rows' bytes hold none.
LEMMA RowHasNoRun ==
  ASSUME NEW r \in Row, PlainRow(r), NEW j \in 1 .. RowLen(r), EncodeRow(r)[j] \in Marker
  PROVE  j # 1 /\ EncodeRow(r)[j - 1] \notin Marker \cup {0}
<1> DEFINE n == RowLen(r)
           c == EncodeRow(r)
<1>1. r.note \in 0 .. 127 /\ r.inst \in 0 .. 127 /\ r.fx \in 0 .. 255 /\ r.value \in 0 .. 255
  BY DEF Row
<1>2. /\ c[1] = Flag(r.note, r.inst # 0 \/ r.fx # 0)
      /\ n >= 2 => c[2] = Flag(r.inst, r.fx # 0)
      /\ n >= 3 => c[3] = r.fx
  BY RowBytes
<1>3. /\ n \in 1 .. 4 /\ (n >= 2 <=> r.inst # 0 \/ r.fx # 0) /\ (n >= 3 <=> r.fx # 0)
      /\ (n = 4 <=> r.fx # 0 /\ r.fx < 32)
  BY <1>1 DEF RowLen
<1>4. n = 1 => r.note \notin Marker
  BY <1>3 DEF PlainRow
<1>5. Marker = 112 .. 119
  BY DEF Marker, PackedMin, PackedMax
<1>6. j \in 1 .. n /\ c[j] \in Marker
  OBVIOUS
<1> HIDE DEF n, c
<1>7. /\ n = 1 => c[1] = r.note
      /\ n >= 2 => c[1] = r.note + 128
      /\ n >= 3 => c[2] = r.inst + 128
  <2>1. CASE r.fx # 0
    BY <1>2, <1>3, <2>1 DEF Flag
  <2>2. CASE r.fx = 0 /\ r.inst # 0
    BY <1>2, <1>3, <2>2 DEF Flag
  <2>3. CASE r.fx = 0 /\ r.inst = 0
    BY <1>2, <1>3, <2>3 DEF Flag
  <2> QED  BY <2>1, <2>2, <2>3
<1>8. j = 1 \/ (j = 2 /\ n >= 2) \/ (j = 3 /\ n >= 3) \/ (j = 4 /\ n = 4)
  BY <1>3, <1>6
<1>9. j # 1
  BY <1>1, <1>3, <1>4, <1>5, <1>6, <1>7
<1>10. j = 2 => c[j - 1] \notin Marker \cup {0}
  BY <1>1, <1>5, <1>7, <1>8
<1>11. j = 3 => c[j - 1] \notin Marker \cup {0}
  BY <1>1, <1>5, <1>7, <1>8
<1>12. j = 4 => c[j - 1] \notin Marker \cup {0}
  BY <1>1, <1>2, <1>3, <1>5, <1>8
<1> QED  BY <1>8, <1>9, <1>10, <1>11, <1>12 DEF c

\* No byte of the rows that follows a zero or a marker is a marker: unpacking takes none for a run.
LEMMA RowsHaveNoRun ==
  ASSUME NEW rows \in Seq(Row), AllPlainRows(rows)
  PROVE  NoFalseRun(EncodeRows(rows))
<1> DEFINE b == EncodeRows(rows)
           Fine(i) == b[i] \in Marker => i # 1 /\ b[i - 1] \notin Marker \cup {0}
           S == {k \in Nat : k <= Len(rows) => \A i \in 1 .. Off(rows, k) : Fine(i)}
<1>0. Len(rows) \in Nat /\ Off(rows, 0) = 0 /\ Off(rows, Len(rows)) = Len(b)
  BY OffNext
<1>1. 0 \in S
  BY <1>0
<1>2. ASSUME NEW k \in Nat, k \in S PROVE k + 1 \in S
  <2> SUFFICES ASSUME k + 1 <= Len(rows), NEW i \in 1 .. Off(rows, k + 1) PROVE Fine(i)
    OBVIOUS
  <2> DEFINE r == rows[k + 1]
             at == Off(rows, k)
  <2>1. /\ k \in 0 .. Len(rows) - 1 /\ k \in 0 .. Len(rows) /\ k + 1 \in DOMAIN rows
    BY <1>0
  <2>2. /\ r \in Row /\ RowLen(r) \in 1 .. 4 /\ at \in Nat /\ Off(rows, k + 1) = at + RowLen(r)
        /\ PlainRow(r)
    BY <2>1, OffNext DEF AllPlainRows
  <2>3. \A j \in 1 .. RowLen(r) : b[at + j] = EncodeRow(r)[j]
    BY <2>1, RowAt
  <2>4. \A j \in 1 .. at : Fine(j)
    BY <1>2, <2>1
  <2> HIDE DEF b, r, at
  <2>5. CASE i <= at
    BY <2>2, <2>4, <2>5
  <2>6. CASE i > at
    <3> DEFINE j == i - at
    <3>1. j \in 1 .. RowLen(r) /\ at + j = i
      BY <2>2, <2>6
    <3> HIDE DEF j
    <3>2. b[i] = EncodeRow(r)[j]
      BY <2>3, <3>1
    <3> SUFFICES ASSUME b[i] \in Marker PROVE i # 1 /\ b[i - 1] \notin Marker \cup {0}
      OBVIOUS
    <3>3. j # 1 /\ EncodeRow(r)[j - 1] \notin Marker \cup {0}
      BY <2>2, <3>1, <3>2, RowHasNoRun
    <3>4. j - 1 \in 1 .. RowLen(r) /\ at + (j - 1) = i - 1 /\ i # 1
      BY <2>2, <3>1, <3>3
    <3>5. b[i - 1] = EncodeRow(r)[j - 1]
      BY <2>3, <3>4
    <3> QED  BY <3>3, <3>4, <3>5
  <2>7. i <= at \/ i > at
    BY <2>2
  <2> QED  BY <2>5, <2>6, <2>7
<1> HIDE DEF S, Fine
<1>3. Len(rows) \in S
  BY <1>0, <1>1, <1>2, SetInduction
<1>4. \A i \in 1 .. Off(rows, Len(rows)) : Fine(i)
  BY <1>0, <1>3 DEF S
<1> QED  BY <1>0, <1>4 DEF Fine, NoFalseRun

\* The parser finds the rows of a packed pattern again.
THEOREM PatternReadBack ==
  ASSUME NEW rows \in Seq(Row), AllPlainRows(rows)
  PROVE  DecodeRows(Unpack(Pack(EncodeRows(rows)))) = rows
<1>1. EncodeRows(rows) \in Bytes /\ NoFalseRun(EncodeRows(rows))
  BY OffNext, RowsHaveNoRun
<1>2. AllTakeValues(rows)
  BY DEF AllPlainRows, AllTakeValues, PlainRow
<1> QED  BY <1>1, <1>2, UnpackPack, RowsReadBack

-----------------------------------------------------------------------------
(* Orderlists read back.                                                    *)

OneCommand(b, i) ==
  IF b[i] = 255 /\ i < Len(b) THEN <<Cmd(IF b[i + 1] >= 128 THEN "jump" ELSE "loop", b[i + 1])>>
  ELSE <<CASE b[i] < 128 -> Cmd("play", b[i])
           [] b[i] \in 128 .. 159 -> Cmd("transpose", b[i] - 144)
           [] b[i] \in 160 .. 175 -> Cmd("volume", b[i] % 16)
           [] b[i] \in 176 .. 239 -> Cmd("tempo", b[i] - 176)
           [] b[i] = 254 -> Cmd("end", 0)
           [] OTHER -> Cmd("raw", b[i])>>

OrderFrom(b, F, i) ==
  IF i > Len(b) THEN <<>>
  ELSE IF b[i] = 255 /\ i < Len(b)
    THEN <<Cmd(IF b[i + 1] >= 128 THEN "jump" ELSE "loop", b[i + 1])>> \o F[i + 2]
    ELSE <<CASE b[i] < 128 -> Cmd("play", b[i])
             [] b[i] \in 128 .. 159 -> Cmd("transpose", b[i] - 144)
             [] b[i] \in 160 .. 175 -> Cmd("volume", b[i] % 16)
             [] b[i] \in 176 .. 239 -> Cmd("tempo", b[i] - 176)
             [] b[i] = 254 -> Cmd("end", 0)
             [] OTHER -> Cmd("raw", b[i])>> \o F[i + 1]

CommandsFrom(b) == CHOOSE F : F = [i \in 1 .. Len(b) + 2 |-> OrderFrom(b, F, i)]

\* The parser's recursion over an orderlist has a solution.
LEMMA CommandsFromIs ==
  ASSUME NEW b \in Bytes
  PROVE  /\ DecodeSequence(b) = CommandsFrom(b)[1]
         /\ CommandsFrom(b)[Len(b) + 1] = << >>
         /\ \A i \in 1 .. Len(b) :
              CommandsFrom(b)[i] =
                OneCommand(b, i) \o CommandsFrom(b)[IF b[i] = 255 /\ i < Len(b) THEN i + 2 ELSE i + 1]
<1> DEFINE Two(i) == b[i] = 255 /\ i < Len(b)
           piece == [i \in 1 .. Len(b) |-> OneCommand(b, i)]
           next == [i \in 1 .. Len(b) |-> IF Two(i) THEN i + 2 ELSE i + 1]
           C == CommandsFrom(b)
<1>0. Len(b) \in Nat /\ Len(b) + 2 \in Nat /\ Len(b) < Len(b) + 2
  BY DEF Bytes
<1>1. ASSUME NEW i \in 1 .. Len(b) PROVE next[i] \in i + 1 .. Len(b) + 2
  BY <1>0
<1> HIDE DEF piece, next
<1>2. PICK F : F = [i \in 1 .. Len(b) + 2 |-> IF i > Len(b) THEN <<>> ELSE piece[i] \o F[next[i]]]
  <2>1. \E F : TakesApart(F, Len(b), Len(b) + 2, piece, next)
    BY <1>0, <1>1, FromTheEnd
  <2> QED  BY <2>1 DEF TakesApart
<1>3. ASSUME NEW i \in 1 .. Len(b) + 2
      PROVE  (IF i > Len(b) THEN <<>> ELSE piece[i] \o F[next[i]]) = OrderFrom(b, F, i)
  <2>1. CASE i > Len(b)
    BY <2>1 DEF OrderFrom
  <2>2. CASE i \in 1 .. Len(b)
    <3>1. ~(i > Len(b)) /\ piece[i] = OneCommand(b, i) /\ next[i] = IF Two(i) THEN i + 2 ELSE i + 1
      BY <1>0, <2>2 DEF piece, next
    <3>2. Two(i) => piece[i] \o F[next[i]] = OrderFrom(b, F, i)
      BY <3>1 DEF OneCommand, OrderFrom
    <3>3. ~Two(i) => piece[i] \o F[next[i]] = OrderFrom(b, F, i)
      BY <3>1 DEF OneCommand, OrderFrom
    <3> HIDE DEF Two
    <3>4. piece[i] \o F[next[i]] = OrderFrom(b, F, i)
      BY ONLY <3>2, <3>3, Zenon
    <3>5. ~(i > Len(b))
      BY <3>1
    <3> QED  BY ONLY <3>4, <3>5, Zenon
  <2>3. i > Len(b) \/ i \in 1 .. Len(b)
    BY <1>0
  <2> QED  BY ONLY <2>1, <2>2, <2>3, Zenon
<1>4. F = [i \in 1 .. Len(b) + 2 |-> OrderFrom(b, F, i)]
  BY <1>2, <1>3
<1>5. C = [i \in 1 .. Len(b) + 2 |-> OrderFrom(b, C, i)]
  BY <1>4 DEF CommandsFrom
<1> HIDE DEF C
<1>6. ASSUME NEW i \in 1 .. Len(b)
      PROVE  C[i] = OneCommand(b, i) \o C[IF b[i] = 255 /\ i < Len(b) THEN i + 2 ELSE i + 1]
  <2>1. i \in 1 .. Len(b) + 2 /\ ~(i > Len(b))
    BY <1>0
  <2>2. C[i] = OrderFrom(b, C, i)
    BY <1>5, <2>1
  <2> QED  BY <2>1, <2>2 DEF OrderFrom, OneCommand
<1>7. C[Len(b) + 1] = << >>
  <2>1. Len(b) + 1 \in 1 .. Len(b) + 2 /\ Len(b) + 1 > Len(b)
    BY <1>0
  <2> QED  BY <1>5, <2>1 DEF OrderFrom
<1>8. DecodeSequence(b) = C[1]
  BY DEF DecodeSequence, CommandsFrom, OrderFrom, C
<1> QED  BY <1>6, <1>7, <1>8 DEF C

\* A command read where its byte is.
LEMMA OneByteCommand ==
  ASSUME NEW b, NEW i, b[i] \in 0 .. 254
  PROVE  /\ b[i] < 128 => OneCommand(b, i) = <<Cmd("play", b[i])>>
         /\ b[i] \in 128 .. 159 => OneCommand(b, i) = <<Cmd("transpose", b[i] - 144)>>
         /\ b[i] \in 160 .. 175 => OneCommand(b, i) = <<Cmd("volume", b[i] - 160)>>
         /\ b[i] \in 176 .. 239 => OneCommand(b, i) = <<Cmd("tempo", b[i] - 176)>>
         /\ b[i] \in 240 .. 253 => OneCommand(b, i) = <<Cmd("raw", b[i])>>
         /\ b[i] = 254 => OneCommand(b, i) = <<Cmd("end", 0)>>
<1> DEFINE a == b[i]
<1>0. a \in 0 .. 254
  OBVIOUS
<1> HIDE DEF a
<1>1. a # 255 /\ (a \in 160 .. 175 => a % 16 = a - 160)
  BY <1>0
<1>2. OneCommand(b, i) = <<CASE a < 128 -> Cmd("play", a)
                             [] a \in 128 .. 159 -> Cmd("transpose", a - 144)
                             [] a \in 160 .. 175 -> Cmd("volume", a % 16)
                             [] a \in 176 .. 239 -> Cmd("tempo", a - 176)
                             [] a = 254 -> Cmd("end", 0)
                             [] OTHER -> Cmd("raw", a)>>
  BY <1>1 DEF OneCommand, a
<1> QED  BY <1>0, <1>1, <1>2 DEF a

\* A command is read from where its bytes lie.
LEMMA CommandRead ==
  ASSUME NEW c \in Command, PlainCommand(c), NEW b, NEW i \in Nat,
         \A j \in 1 .. CommandLen(c) : b[(i - 1) + j] = EncodeCommand(c)[j],
         Len(b) \in Nat, (i - 1) + CommandLen(c) <= Len(b)
  PROVE  /\ OneCommand(b, i) = <<c>>
         /\ (IF b[i] = 255 /\ i < Len(b) THEN i + 2 ELSE i + 1) = i + CommandLen(c)
<1> DEFINE a == EncodeCommand(c)[1]
           x == c.arg
           n == CommandLen(c)
<1>1. c.op \in Ops /\ c = Cmd(c.op, x)
  BY DEF Command, Cmd
<1>2. n \in 1 .. 2 /\ (n = 2 <=> c.op \in {"loop", "jump"})
  BY DEF CommandLen
<1>3. /\ c.op = "play" => a = x /\ x \in 0 .. 127
      /\ c.op = "transpose" => a = 144 + x /\ x \in -16 .. 15
      /\ c.op = "volume" => a = 160 + x /\ x \in 0 .. 15
      /\ c.op = "tempo" => a = 176 + x /\ x \in 0 .. 63
      /\ c.op = "raw" => a = x /\ x \in 240 .. 253
      /\ c.op = "end" => a = 254 /\ x = 0
      /\ c.op \in {"loop", "jump"} => a = 255 /\ EncodeCommand(c)[2] = x
      /\ c.op = "loop" => x \in 0 .. 127
      /\ c.op = "jump" => x \in 128 .. 255
  BY CommandBytes
<1>4. /\ \A j \in 1 .. n : b[(i - 1) + j] = EncodeCommand(c)[j]
      /\ (i - 1) + n <= Len(b)
  OBVIOUS
<1> HIDE DEF x, n
<1>5. b[i] = a /\ (n = 2 => b[i + 1] = EncodeCommand(c)[2] /\ i < Len(b))
  <2>1. (i - 1) + 1 = i /\ (i - 1) + 2 = i + 1
    OBVIOUS
  <2>2. 1 \in 1 .. n /\ (n = 2 => 2 \in 1 .. n)
    BY <1>2
  <2> QED  BY <1>4, <2>1, <2>2
<1> HIDE DEF a
<1>6. CASE c.op = "play"
  <2>1. a = x /\ x \in 0 .. 127 /\ n # 2
    BY <1>2, <1>3, <1>6
  <2>2. a \in 0 .. 254 /\ a < 128 /\ a # 255 /\ n = 1 /\ a = x
    BY <1>2, <2>1
  <2>3. OneCommand(b, i) = <<Cmd("play", a)>>
    <3>1. b[i] = a
      BY <1>5
    <3>2. b[i] \in 0 .. 254 /\ b[i] < 128
      BY <2>2, <3>1
    <3>3. OneCommand(b, i) = <<Cmd("play", b[i])>>
      BY <3>2, OneByteCommand
    <3> QED  BY <3>1, <3>3
  <2> QED  BY <1>1, <1>5, <1>6, <2>2, <2>3 DEF n
<1>7. CASE c.op = "transpose"
  <2>1. a = 144 + x /\ x \in -16 .. 15 /\ n # 2
    BY <1>2, <1>3, <1>7
  <2>2. a \in 0 .. 254 /\ a \in 128 .. 159 /\ a # 255 /\ n = 1 /\ a - 144 = x
    BY <1>2, <2>1
  <2>3. OneCommand(b, i) = <<Cmd("transpose", a - 144)>>
    <3>1. b[i] = a
      BY <1>5
    <3>2. b[i] \in 0 .. 254 /\ b[i] \in 128 .. 159
      BY <2>2, <3>1
    <3>3. OneCommand(b, i) = <<Cmd("transpose", b[i] - 144)>>
      BY <3>2, OneByteCommand
    <3> QED  BY <3>1, <3>3
  <2> QED  BY <1>1, <1>5, <1>7, <2>2, <2>3 DEF n
<1>8. CASE c.op = "volume"
  <2>1. a = 160 + x /\ x \in 0 .. 15 /\ n # 2
    BY <1>2, <1>3, <1>8
  <2>2. a \in 0 .. 254 /\ a \in 160 .. 175 /\ a # 255 /\ n = 1 /\ a - 160 = x
    BY <1>2, <2>1
  <2>3. OneCommand(b, i) = <<Cmd("volume", a - 160)>>
    <3>1. b[i] = a
      BY <1>5
    <3>2. b[i] \in 0 .. 254 /\ b[i] \in 160 .. 175
      BY <2>2, <3>1
    <3>3. OneCommand(b, i) = <<Cmd("volume", b[i] - 160)>>
      BY <3>2, OneByteCommand
    <3> QED  BY <3>1, <3>3
  <2> QED  BY <1>1, <1>5, <1>8, <2>2, <2>3 DEF n
<1>9. CASE c.op = "tempo"
  <2>1. a = 176 + x /\ x \in 0 .. 63 /\ n # 2
    BY <1>2, <1>3, <1>9
  <2>2. a \in 0 .. 254 /\ a \in 176 .. 239 /\ a # 255 /\ n = 1 /\ a - 176 = x
    BY <1>2, <2>1
  <2>3. OneCommand(b, i) = <<Cmd("tempo", a - 176)>>
    <3>1. b[i] = a
      BY <1>5
    <3>2. b[i] \in 0 .. 254 /\ b[i] \in 176 .. 239
      BY <2>2, <3>1
    <3>3. OneCommand(b, i) = <<Cmd("tempo", b[i] - 176)>>
      BY <3>2, OneByteCommand
    <3> QED  BY <3>1, <3>3
  <2> QED  BY <1>1, <1>5, <1>9, <2>2, <2>3 DEF n
<1>10. CASE c.op = "raw"
  <2>1. a = x /\ x \in 240 .. 253 /\ n # 2
    BY <1>2, <1>3, <1>10
  <2>2. a \in 0 .. 254 /\ a \in 240 .. 253 /\ a # 255 /\ n = 1 /\ a = x
    BY <1>2, <2>1
  <2>3. OneCommand(b, i) = <<Cmd("raw", a)>>
    <3>1. b[i] = a
      BY <1>5
    <3>2. b[i] \in 0 .. 254 /\ b[i] \in 240 .. 253
      BY <2>2, <3>1
    <3>3. OneCommand(b, i) = <<Cmd("raw", b[i])>>
      BY <3>2, OneByteCommand
    <3> QED  BY <3>1, <3>3
  <2> QED  BY <1>1, <1>5, <1>10, <2>2, <2>3 DEF n
<1>11. CASE c.op = "end"
  <2>1. a = 254 /\ x = 0 /\ n # 2
    BY <1>2, <1>3, <1>11
  <2>2. a \in 0 .. 254 /\ a # 255 /\ n = 1
    BY <1>2, <2>1
  <2>3. OneCommand(b, i) = <<Cmd("end", 0)>>
    BY <1>5, <2>1, <2>2, OneByteCommand
  <2> QED  BY <1>1, <1>5, <1>11, <2>1, <2>2, <2>3 DEF n
<1>12. CASE c.op \in {"loop", "jump"}
  <2>1. b[i] = 255 /\ b[i + 1] = x /\ n = 2 /\ i < Len(b)
    BY <1>2, <1>3, <1>5, <1>12
  <2>2. OneCommand(b, i) = <<Cmd(IF x >= 128 THEN "jump" ELSE "loop", x)>>
    BY <2>1 DEF OneCommand
  <2>3. (IF x >= 128 THEN "jump" ELSE "loop") = c.op
    <3>1. CASE c.op = "loop"
      <4>1. x \in 0 .. 127
        BY <1>3, <3>1
      <4>2. ~(x >= 128)
        BY <4>1
      <4> QED  BY <3>1, <4>2
    <3>2. CASE c.op = "jump"
      <4>1. x \in 128 .. 255
        BY <1>3, <3>2
      <4>2. x >= 128
        BY <4>1
      <4> QED  BY <3>2, <4>2
    <3> QED  BY <1>12, <3>1, <3>2
  <2> QED  BY <1>1, <2>1, <2>2, <2>3 DEF n
<1> QED  BY <1>1, <1>6, <1>7, <1>8, <1>9, <1>10, <1>11, <1>12 DEF Ops

\* The parser finds the commands of an orderlist again.
THEOREM OrderlistReadBack ==
  ASSUME NEW cmds \in Seq(Command), AllPlain(cmds)
  PROVE  DecodeSequence(EncodeSequence(cmds)) = cmds
<1> DEFINE b == EncodeSequence(cmds)
           C == CommandsFrom(b)
           m == Len(cmds)
           S == {k \in 0 .. m : C[CommandOff(cmds, k) + 1] = SubSeq(cmds, k + 1, m)}
<1>0. /\ b \in Bytes /\ m \in Nat /\ Len(b) \in Nat /\ CommandOff(cmds, m) = Len(b) /\ CommandOff(cmds, 0) = 0
  BY CommandAt DEF Bytes
<1>1. m \in S
  <2>1. C[Len(b) + 1] = << >>
    BY <1>0, CommandsFromIs
  <2>2. SubSeq(cmds, m + 1, m) = << >>
    BY <1>0, SubSeqEmpty
  <2> HIDE DEF C, b, m
  <2>3. C[CommandOff(cmds, m) + 1] = SubSeq(cmds, m + 1, m) /\ m \in 0 .. m
    BY <1>0, <2>1, <2>2
  <2> QED  BY <2>3
<1>2. ASSUME NEW k \in 1 .. m, k \in S PROVE k - 1 \in S
  <2> DEFINE j == k - 1
             c == cmds[j + 1]
             i == CommandOff(cmds, j) + 1
  <2>1. j \in 0 .. m - 1 /\ j + 1 = k /\ j \in 0 .. m
    BY <1>0
  <2> HIDE DEF j
  <2>2. /\ c \in Command /\ PlainCommand(c) /\ CommandOff(cmds, j) \in Nat
        /\ CommandOff(cmds, j + 1) = CommandOff(cmds, j) + CommandLen(c)
        /\ CommandOff(cmds, j) + CommandLen(c) <= Len(b)
        /\ \A l \in 1 .. CommandLen(c) : b[CommandOff(cmds, j) + l] = EncodeCommand(c)[l]
    BY <2>1, CommandAt
  <2>3. i \in Nat /\ i - 1 = CommandOff(cmds, j) /\ CommandLen(c) \in 1 .. 2
    BY <2>2 DEF CommandLen
  <2>4. i \in 1 .. Len(b) /\ i + CommandLen(c) = CommandOff(cmds, k) + 1
    BY <1>0, <2>1, <2>2, <2>3
  <2> HIDE DEF b, c, i
  <2>5. /\ OneCommand(b, i) = <<c>>
        /\ (IF b[i] = 255 /\ i < Len(b) THEN i + 2 ELSE i + 1) = i + CommandLen(c)
    BY ZenonT(30), <1>0, <2>2, <2>3, CommandRead
  <2>6. C[i] = OneCommand(b, i) \o C[IF b[i] = 255 /\ i < Len(b) THEN i + 2 ELSE i + 1]
    BY <1>0, <2>4, CommandsFromIs
  <2>7. C[CommandOff(cmds, k) + 1] = SubSeq(cmds, k + 1, m)
    BY <1>2
  <2>8. SubSeq(cmds, k, m) = <<cmds[k]>> \o SubSeq(cmds, k + 1, m)
    BY <1>0, SubSeqRecursiveFirst
  <2> HIDE DEF C, m
  <2>9. C[i] = SubSeq(cmds, k, m)
    <3>1. C[i] = <<c>> \o C[CommandOff(cmds, k) + 1] /\ c = cmds[k]
      <4>1. C[i] = <<c>> \o C[i + CommandLen(c)]
        BY <2>5, <2>6
      <4> QED  BY <2>1, <2>4, <4>1 DEF c
    <3> QED  BY <2>7, <2>8, <3>1
  <2> QED  BY <2>1, <2>9 DEF i, j
<1> HIDE DEF S
<1>3. 0 \in S
  BY <1>0, <1>1, <1>2, DownInduction
<1>4. C[0 + 1] = SubSeq(cmds, 0 + 1, m)
  BY <1>0, <1>3 DEF S
<1>5. SubSeq(cmds, 1, m) = cmds
  BY SubSeqFull
<1> QED  BY <1>0, <1>4, <1>5, CommandsFromIs
=============================================================================
