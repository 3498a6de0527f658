--------------------------- MODULE SidReaderProofs ---------------------------
(***************************************************************************)
(* The search of SidReader, for every set of files: it finds what parsing    *)
(* all at once finds, and what it finds can be played.                       *)
(***************************************************************************)
EXTENDS SongEntry, SongCodeProofs, FiniteSetTheorems

-----------------------------------------------------------------------------
(* Numbers in order.                                                        *)

\* A set of numbers from b on has a least one.
LEMMA LeastIs ==
  ASSUME NEW b \in Int, NEW S, S # {}, \A x \in S : x \in Int /\ x >= b
  PROVE  Min(S) \in S /\ \A y \in S : Min(S) <= y
<1> DEFINE T == {n \in Nat : n + b \in S}
           R == {ss \in Nat \X Nat : ss[1] < ss[2]}
<1>1. IsWellFoundedOn(R, Nat)
  BY NatLessThanWellFounded DEF OpToRel
<1>2. PICK y \in S : TRUE
  OBVIOUS
<1>3. y - b \in Nat /\ (y - b) + b = y
  BY <1>2
<1>4. T \subseteq Nat /\ T # {}
  BY <1>3
<1>5. PICK n \in T : \A m \in T : <<m, n>> \notin R
  BY <1>1, <1>4, WFMin
<1>6. n \in Nat /\ n + b \in S
  BY <1>5
<1>7. ASSUME NEW x \in S PROVE n + b <= x
  <2>1. x \in Int /\ x >= b
    BY <1>7
  <2>2. x - b \in Nat /\ (x - b) + b = x
    BY <2>1
  <2>3. x - b \in T
    BY <1>7, <2>2
  <2>4. <<x - b, n>> \notin R
    BY <1>5, <2>3
  <2> QED  BY <1>6, <2>1, <2>2, <2>4
<1> QED  BY <1>6, <1>7 DEF Min

\* A finite nonempty set of numbers has a greatest one.
LEMMA GreatestIs ==
  ASSUME NEW a \in Int, NEW b \in Int, NEW S, S # {}, S \subseteq a .. b
  PROVE  Max(S) \in S /\ \A y \in S : Max(S) >= y
<1> DEFINE N == {b - x : x \in S}
<1>1. \A x \in S : x \in Int /\ a <= x /\ x <= b
  OBVIOUS
<1>2. N # {} /\ \A n \in N : n \in Int /\ n >= 0
  <2>1. ASSUME NEW x \in S PROVE b - x \in Int /\ b - x >= 0
    BY <1>1
  <2> QED  BY <2>1
<1>3. Min(N) \in N /\ \A n \in N : Min(N) <= n
  <2> HIDE DEF N
  <2>1. 0 \in Int
    OBVIOUS
  <2> QED  BY ONLY <1>2, <2>1, LeastIs
<1>4. PICK x \in S : Min(N) = b - x
  BY <1>3
<1>5. ASSUME NEW y \in S PROVE x >= y
  <2>1. b - y \in N
    OBVIOUS
  <2>2. Min(N) <= b - y
    BY <1>3, <2>1
  <2>3. b - x <= b - y
    BY <1>4, <2>2
  <2>4. x \in Int /\ y \in Int
    BY <1>1
  <2> QED  BY ONLY <2>3, <2>4, b \in Int
<1> QED  BY <1>4, <1>5 DEF Max

\* In a finite set in a strict total order there is one element of each rank.
LEMMA RankIs ==
  ASSUME NEW S, IsFiniteSet(S), NEW R,
         \A x \in S : <<x, x>> \notin R,
         \A x, y, z \in S : <<x, y>> \in R /\ <<y, z>> \in R => <<x, z>> \in R,
         \A x, y \in S : x # y => <<x, y>> \in R \/ <<y, x>> \in R
  PROVE  /\ Cardinality(S) \in Nat
         /\ \A k \in 1 .. Cardinality(S) : \E x \in S : Cardinality({y \in S : <<y, x>> \in R}) = k - 1
<1> DEFINE Under(x) == {y \in S : <<y, x>> \in R}
           rank == [x \in S |-> Cardinality(Under(x))]
           n == Cardinality(S)
           T == 0 .. n - 1
<1>1. n \in Nat
  BY FS_CardinalityType
<1>2. ASSUME NEW x \in S PROVE IsFiniteSet(Under(x)) /\ rank[x] \in Nat
  <2>1. IsFiniteSet(Under(x))
    BY FS_Subset
  <2> QED  BY <2>1, FS_CardinalityType
<1>3. ASSUME NEW x \in S PROVE rank[x] \in T
  <2>1. Under(x) \subseteq S /\ Under(x) # S
    OBVIOUS
  <2>2. Cardinality(Under(x)) <= n /\ Cardinality(Under(x)) # n
    BY <2>1, FS_Subset
  <2> QED  BY <1>1, <1>2, <2>2
<1>4. ASSUME NEW x \in S, NEW y \in S, <<x, y>> \in R PROVE rank[x] < rank[y]
  <2>1. Under(x) \subseteq Under(y) /\ x \in Under(y) /\ x \notin Under(x)
    BY <1>4
  <2>2. Under(x) \in SUBSET Under(y) /\ Under(x) # Under(y)
    BY <2>1
  <2>3. Cardinality(Under(x)) <= Cardinality(Under(y)) /\ Cardinality(Under(x)) # Cardinality(Under(y))
    BY <1>2, <2>2, FS_Subset
  <2> QED  BY <1>2, <2>3
<1>5. rank \in Injection(S, T)
  <2>1. rank \in [S -> T]
    BY <1>3
  <2>2. ASSUME NEW x \in S, NEW y \in S, x # y PROVE rank[x] # rank[y]
    <3>1. <<x, y>> \in R \/ <<y, x>> \in R
      BY <2>2
    <3>2. rank[x] < rank[y] \/ rank[y] < rank[x]
      BY <1>4, <3>1
    <3>3. rank[x] \in Nat /\ rank[y] \in Nat
      BY <1>2
    <3> HIDE DEF rank
    <3> QED  BY <3>2, <3>3
  <2> HIDE DEF rank, T
  <2> QED  BY <2>1, <2>2 DEF Injection, IsInjective
<1>6. IsFiniteSet(T) /\ Cardinality(T) = n
  <2>1. 0 \in Int /\ n - 1 \in Int
    BY <1>1
  <2>2. IsFiniteSet(T) /\ Cardinality(T) = IF 0 > n - 1 THEN 0 ELSE (n - 1) - 0 + 1
    BY <2>1, FS_Interval
  <2> HIDE DEF n, T
  <2> QED  BY <1>1, <2>2
<1>7. rank \in Surjection(S, T)
  <2> HIDE DEF rank, T
  <2> QED  BY <1>5, <1>6, FS_Injection
<1>8. ASSUME NEW k \in 1 .. n PROVE \E x \in S : Cardinality(Under(x)) = k - 1
  <2>1. k - 1 \in T
    BY <1>1
  <2>2. \E x \in S : rank[x] = k - 1
    <3> HIDE DEF rank, T
    <3> QED  BY <1>7, <2>1 DEF Surjection
  <2> QED  BY <2>2
<1> QED  BY <1>1, <1>8

\* A function of the numbers from 1 to n is a sequence.
LEMMA FunctionIsSeq ==
  ASSUME NEW T, NEW n \in Nat, NEW f, f = [k \in 1 .. n |-> f[k]], \A k \in 1 .. n : f[k] \in T
  PROVE  f \in Seq(T) /\ Len(f) = n /\ DOMAIN f = 1 .. n
OBVIOUS

\* Addresses in order, upward or downward, and pointer tables in order.
LEMMA InOrder ==
  /\ \A S : IsFiniteSet(S) /\ S \subseteq Int => Ascending(S) \in Seq(S) /\ Descending(S) \in Seq(S)
  /\ \A S : IsFiniteSet(S) /\ S \subseteq Nat \X Nat => Ordered(S) \in Seq(S)
<1>1. ASSUME NEW S, IsFiniteSet(S), S \subseteq Int PROVE Ascending(S) \in Seq(S)
  <2> DEFINE R == {ab \in S \X S : ab[1] < ab[2]}
  <2>1. \A a, b \in S : <<a, b>> \in R <=> a < b
    OBVIOUS
  <2>2. \A a, b \in S : a \in Int /\ b \in Int
    BY <1>1
  <2> HIDE DEF R
  <2>3. \A a, b, c \in S : <<a, b>> \in R /\ <<b, c>> \in R => <<a, c>> \in R
    BY <2>1, <2>2
  <2>4. \A a, b \in S : a # b => <<a, b>> \in R \/ <<b, a>> \in R
    BY <2>1, <2>2
  <2>5. \A a \in S : <<a, a>> \notin R
    BY <2>1, <2>2
  <2>6. /\ Cardinality(S) \in Nat
        /\ \A k \in 1 .. Cardinality(S) : \E a \in S : Cardinality({b \in S : <<b, a>> \in R}) = k - 1
    BY ONLY <1>1, <2>3, <2>4, <2>5, RankIs
  <2>7. \A a \in S : {b \in S : <<b, a>> \in R} = {b \in S : b < a}
    BY <2>1
  <2> DEFINE e(k) == CHOOSE a \in S : Cardinality({b \in S : b < a}) = k - 1
  <2>8. \A k \in 1 .. Cardinality(S) : e(k) \in S
    BY <2>6, <2>7
  <2>9. Ascending(S) = [k \in 1 .. Cardinality(S) |-> e(k)]
    BY DEF Ascending
  <2> HIDE DEF e
  <2> QED  BY <2>6, <2>8, <2>9
<1>2. ASSUME NEW S, IsFiniteSet(S), S \subseteq Int PROVE Descending(S) \in Seq(S)
  <2> DEFINE R == {ab \in S \X S : ab[1] > ab[2]}
  <2>1. \A a, b \in S : <<a, b>> \in R <=> a > b
    OBVIOUS
  <2>2. \A a, b \in S : a \in Int /\ b \in Int
    BY <1>2
  <2>3. \A a, b, c \in S : <<a, b>> \in R /\ <<b, c>> \in R => <<a, c>> \in R
    BY <2>1, <2>2
  <2>4. \A a, b \in S : a # b => <<a, b>> \in R \/ <<b, a>> \in R
    BY <2>1, <2>2
  <2>5. \A a \in S : <<a, a>> \notin R
    BY <2>1, <2>2
  <2> HIDE DEF R
  <2>6. /\ Cardinality(S) \in Nat
        /\ \A k \in 1 .. Cardinality(S) : \E a \in S : Cardinality({b \in S : <<b, a>> \in R}) = k - 1
    BY ONLY <1>2, <2>3, <2>4, <2>5, RankIs
  <2>7. \A a \in S : {b \in S : <<b, a>> \in R} = {b \in S : b > a}
    BY <2>1
  <2> DEFINE e(k) == CHOOSE a \in S : Cardinality({b \in S : b > a}) = k - 1
  <2>8. \A k \in 1 .. Cardinality(S) : e(k) \in S
    BY <2>6, <2>7
  <2>9. Descending(S) = [k \in 1 .. Cardinality(S) |-> e(k)]
    BY DEF Descending
  <2> HIDE DEF e
  <2> QED  BY <2>6, <2>8, <2>9
<1>3. ASSUME NEW S, IsFiniteSet(S), S \subseteq Nat \X Nat PROVE Ordered(S) \in Seq(S)
  <2> DEFINE R == {ab \in S \X S : Over(ab[1], ab[2])}
  <2>1. \A a, b \in S : <<a, b>> \in R <=> Over(a, b)
    OBVIOUS
  <2>2. \A a \in S : a[1] \in Nat /\ a[2] \in Nat /\ a = <<a[1], a[2]>>
    BY <1>3
  <2> HIDE DEF R
  <2>3. \A a, b, c \in S : <<a, b>> \in R /\ <<b, c>> \in R => <<a, c>> \in R
    BY <2>1, <2>2 DEF Over
  <2>4. \A a, b \in S : a # b => <<a, b>> \in R \/ <<b, a>> \in R
    <3> SUFFICES ASSUME NEW a \in S, NEW b \in S, ~Over(a, b), ~Over(b, a) PROVE a = b
      BY <2>1
    <3>1. a[1] = b[1] /\ a[2] = b[2]
      BY <2>2 DEF Over
    <3> QED  BY <2>2, <3>1
  <2>5. \A a \in S : <<a, a>> \notin R
    BY <2>1, <2>2 DEF Over
  <2>6. /\ Cardinality(S) \in Nat
        /\ \A k \in 1 .. Cardinality(S) : \E a \in S : Cardinality({b \in S : <<b, a>> \in R}) = k - 1
    BY ONLY <1>3, <2>3, <2>4, <2>5, RankIs
  <2>7. \A a \in S : {b \in S : <<b, a>> \in R} = {b \in S : Over(b, a)}
    BY <2>1
  <2> DEFINE e(k) == CHOOSE a \in S : Cardinality({b \in S : Over(b, a)}) = k - 1
  <2>8. \A k \in 1 .. Cardinality(S) : e(k) \in S
    BY <2>6, <2>7
  <2>9. Ordered(S) = [k \in 1 .. Cardinality(S) |-> e(k)]
    BY DEF Ordered
  <2> HIDE DEF e
  <2> QED  BY <2>6, <2>8, <2>9
<1> QED  BY <1>1, <1>2, <1>3


-----------------------------------------------------------------------------
(* The layouts a strategy offers.                                           *)

Hows == {"swm", "swp", "codescan", "player"}

\* What the search needs of a layout.
IsLayout(f, how, lay) ==
  /\ lay.how = how
  /\ how \in {"swm", "codescan"} => lay.load \in Int /\ lay.instLo \in Int
  /\ how = "codescan" => lay.hint = Hint(f)
  /\ how = "swp" => lay.subtunes \in Nat \ {0}
  /\ how # "player" => lay.ptrBase \in Int /\ lay.reloc \in Int
AreLayouts(f, how, lays) ==
  /\ Len(lays) \in Nat /\ DOMAIN lays = 1 .. Len(lays)
  /\ \A i \in DOMAIN lays : IsLayout(f, how, lays[i])

\* The sizes of a block of subtunes, and the subtunes that so many orderlists make.
LEMMA SizesAre ==
  ASSUME NEW f, IsFile(f)
  PROVE  /\ Block(f) \in {8, 16, 32} /\ Channels(f) \in {3, 6, 9} /\ Restemp(f) \in Nat
         /\ \A n \in Nat : SubtunesFor(f, n) \in Nat \ {0}
         /\ \A n \in Nat : n # 0 => SubtunesFor(f, n * Channels(f)) = n /\ n * Channels(f) \in Nat \ {0}
<1>1. f.sids \in {1, 2, 3}
  BY DEF IsFile
<1>2. Block(f) \in {8, 16, 32} /\ Channels(f) \in {3, 6, 9}
  BY <1>1 DEF Block, Channels
<1>3. Restemp(f) \in Nat
  BY <1>2 DEF Restemp
<1>4. ASSUME NEW n \in Nat PROVE SubtunesFor(f, n) \in Nat \ {0}
  <2>1. CASE Channels(f) = 3
    BY <2>1 DEF SubtunesFor
  <2>2. CASE Channels(f) = 6
    BY <2>2 DEF SubtunesFor
  <2>3. CASE Channels(f) = 9
    BY <2>3 DEF SubtunesFor
  <2> QED  BY <1>2, <2>1, <2>2, <2>3
<1>5. ASSUME NEW n \in Nat, n # 0 PROVE SubtunesFor(f, n * Channels(f)) = n /\ n * Channels(f) \in Nat \ {0}
  <2>1. CASE Channels(f) = 3
    BY <1>5, <2>1 DEF SubtunesFor
  <2>2. CASE Channels(f) = 6
    BY <1>5, <2>2 DEF SubtunesFor
  <2>3. CASE Channels(f) = 9
    BY <1>5, <2>3 DEF SubtunesFor
  <2> QED  BY <1>2, <2>1, <2>2, <2>3
<1> QED  BY <1>2, <1>3, <1>4, <1>5

\* Bytes are bytes, and what two of them say is no negative number.
LEMMA WordsAre ==
  ASSUME NEW img, IsImage(img), NEW lo, NEW hi
  PROVE  At(img, lo) \in 0 .. 255 /\ Word(img, lo, hi) \in Nat
<1>1. At(img, lo) \in 0 .. 255 /\ At(img, hi) \in 0 .. 255
  BY DEF IsImage, At
<1>2. \A a, b \in 0 .. 255 : a + 256 * b \in Nat
  OBVIOUS
<1> QED  BY <1>1, <1>2 DEF Word

\* The layouts a header could mean.
LEMMA SwmIs ==
  ASSUME NEW f, IsFile(f), f.header # None
  PROVE  AreLayouts(f, "swm", SwmLayouts(f))
<1> DEFINE m == f.static.hi - f.load
           n == IF m > 0 THEN m ELSE 0
<1>1. f.static.hi \in Nat /\ f.load \in Nat /\ f.header.pats \in Nat /\ f.header.insts \in Nat
  BY DEF IsFile, IsImage, IsHeader
<1>2. n \in Nat /\ 1 .. m = 1 .. n
  BY <1>1
<1>3. ASSUME NEW end \in Int PROVE IsLayout(f, "swm", SwmLayout(f, end))
  <2>1. \A a, b, c \in Int : (((a - (b + 1)) - b) - c) - (c + 1) \in Int
    OBVIOUS
  <2>2. SwmLayout(f, end).instLo = (((end - (f.header.pats + 1)) - f.header.pats) - f.header.insts) - (f.header.insts + 1)
    BY DEF SwmLayout
  <2>3. SwmLayout(f, end).instLo \in Int
    BY <1>1, <2>1, <2>2
  <2>4. /\ SwmLayout(f, end).how = "swm" /\ SwmLayout(f, end).load = f.load
        /\ SwmLayout(f, end).ptrBase = 0 /\ SwmLayout(f, end).reloc = 0
    BY DEF SwmLayout
  <2> QED  BY <1>1, <2>3, <2>4 DEF IsLayout
<1> DEFINE e(i) == SwmLayout(f, f.static.hi + 1 - i)
<1>4. \A i \in 1 .. n : IsLayout(f, "swm", e(i))
  <2>1. \A i \in 1 .. n : f.static.hi + 1 - i \in Int
    BY <1>1
  <2> QED  BY <1>3, <2>1
<1>5. SwmLayouts(f) = [i \in 1 .. n |-> e(i)]
  BY <1>2 DEF SwmLayouts
<1> HIDE DEF n, e
<1> QED  BY <1>2, <1>4, <1>5 DEF AreLayouts

\* The one layout of a packed tune.
LEMMA SwpIs ==
  ASSUME NEW f, IsFile(f), f.swp # None
  PROVE  AreLayouts(f, "swp", SwpLayouts(f))
<1> DEFINE img == f.static
           off == [i \in 1 .. 9 |-> Word(img, f.swp + 2 * i + 2, f.swp + 2 * i + 3)]
           Of(name) == off[CHOOSE i \in 1 .. 9 : SwpNames[i] = name]
           higher == {o \in {off[i] : i \in 1 .. 9} : o > Of("subtunes")}
           subtunes == (Min(higher) - Of("subtunes")) \div Block(f)
<1>1. \A i \in 1 .. 9 : off[i] \in Nat
  BY WordsAre DEF IsFile
<1>2. Of("subtunes") \in Nat
  <2>1. 1 \in 1 .. 9 /\ SwpNames[1] = "subtunes"
    BY DEF SwpNames
  <2>2. (CHOOSE i \in 1 .. 9 : SwpNames[i] = "subtunes") \in 1 .. 9
    BY <2>1
  <2> QED  BY <1>1, <2>2
<1>3. higher # {} => subtunes \in Int
  <2> HIDE DEF off
  <2>1. SUFFICES ASSUME higher # {} PROVE subtunes \in Int
    OBVIOUS
  <2>2. \A o \in higher : o \in Int /\ o >= 0
    BY <1>1
  <2>3. Min(higher) \in higher
    <3> HIDE DEF higher
    <3>1. 0 \in Int
      OBVIOUS
    <3> QED  BY <2>1, <2>2, <3>1, LeastIs
  <2>4. Min(higher) \in Int /\ Of("subtunes") \in Int
    <3>1. Min(higher) \in Int
      BY <2>2, <2>3
    <3> HIDE DEF higher, Of
    <3> QED  BY <1>2, <3>1
  <2>5. Block(f) \in {8, 16, 32}
    BY SizesAre
  <2>6. \A a, b \in Int : \A c \in {8, 16, 32} : (a - b) \div c \in Int
    OBVIOUS
  <2> HIDE DEF higher, Of
  <2> QED  BY <2>4, <2>5, <2>6
<1> HIDE DEF off, higher, subtunes
<1>4. CASE SwpLayouts(f) = <<>>
  BY <1>4 DEF AreLayouts
<1>5. CASE SwpLayouts(f) # <<>>
  <2> DEFINE lay == SwpLayouts(f)[1]
  <2>1. ~(higher = {} \/ subtunes < 1)
    BY <1>5 DEF SwpLayouts, off, higher, subtunes
  <2>2. /\ SwpLayouts(f) = <<lay>> /\ lay.how = "swp" /\ lay.ptrBase = f.swp /\ lay.reloc = 0
        /\ lay.subtunes = subtunes
    BY <1>5 DEF SwpLayouts, off, higher, subtunes
  <2>3. f.swp \in Nat
    BY DEF IsFile
  <2>4. subtunes \in Nat \ {0}
    BY <1>3, <2>1
  <2>5. IsLayout(f, "swp", lay)
    <3> HIDE DEF lay
    <3> QED  BY <2>2, <2>3, <2>4 DEF IsLayout
  <2> HIDE DEF lay
  <2>6. Len(<<lay>>) = 1 /\ DOMAIN <<lay>> = 1 .. 1 /\ <<lay>>[1] = lay
    OBVIOUS
  <2> QED  BY <2>2, <2>5, <2>6 DEF AreLayouts
<1> QED  BY <1>4, <1>5

\* A player's code names finitely many distances its tables could have been moved.
LEMMA DeltasAre ==
  ASSUME NEW f, IsFile(f)
  PROVE  IsFiniteSet(Deltas(f)) /\ Deltas(f) \subseteq Int
<1> DEFINE pairs == f.static.code.pairs
           inside == {p \in pairs : f.load <= p[1] /\ p[1] < f.static.hi}
           twins == {pq \in inside \X (pairs \ inside) : pq[1][2] - pq[1][1] = pq[2][2] - pq[2][1]}
           D == {pq[1][1] - pq[2][1] : pq \in twins}
           E == {f.load - PlayerAddr} \ {0}
<1>1. IsFiniteSet(pairs) /\ pairs \subseteq Nat \X Nat /\ f.load \in Nat
  BY DEF IsFile, IsImage, IsCode
<1>2. IsFiniteSet(inside) /\ IsFiniteSet(pairs \ inside)
  BY <1>1, FS_Subset
<1>3. IsFiniteSet(inside \X (pairs \ inside))
  <2> HIDE DEF inside, pairs
  <2> QED  BY <1>2, FS_Product
<1>4. IsFiniteSet(twins)
  <2> HIDE DEF inside, pairs
  <2> QED  BY <1>3, FS_Subset
<1>5. IsFiniteSet(D)
  <2> DEFINE g == [pq \in twins |-> pq[1][1] - pq[2][1]]
  <2> HIDE DEF twins
  <2>1. g \in Surjection(twins, D)
    BY DEF Surjection
  <2> HIDE DEF g, D
  <2> QED  BY <1>4, <2>1, FS_Surjection
<1>6. \A pq \in twins : pq[1][1] - pq[2][1] \in Int
  <2>1. \A pq \in twins : pq[1] \in pairs /\ pq[2] \in pairs
    OBVIOUS
  <2>2. \A p \in pairs : p[1] \in Nat
    BY <1>1
  <2> HIDE DEF twins, pairs
  <2> QED  BY <2>1, <2>2
<1>7. IsFiniteSet(E) /\ E \subseteq Int
  <2>1. IsFiniteSet({f.load - PlayerAddr})
    BY FS_Singleton
  <2>2. E \in SUBSET {f.load - PlayerAddr}
    OBVIOUS
  <2>3. IsFiniteSet(E)
    BY <2>1, <2>2, FS_Subset
  <2> QED  BY <1>1, <2>3 DEF PlayerAddr
<1>8. Deltas(f) = D \cup E
  BY DEF Deltas
<1> HIDE DEF D, E
<1>9. IsFiniteSet(D \cup E)
  BY <1>5, <1>7, FS_Union
<1>10. D \subseteq Int
  BY <1>6 DEF D
<1> QED  BY <1>7, <1>8, <1>9, <1>10

\* The layouts that pairs of addresses in the player's code could mean.
LEMMA CodescanIs ==
  ASSUME NEW f, IsFile(f)
  PROVE  AreLayouts(f, "codescan", CodescanLayouts(f))
<1> DEFINE S == f.static.code.pairs
           pairs == Ordered(S)
           relocs == <<0>> \o Ascending(Deltas(f))
           Under(ptn) == Below(S, ptn[1])
           Paired(reloc, ptn) == [i \in DOMAIN Under(ptn) |-> CodescanLayout(f, reloc, ptn, Under(ptn)[i])]
           X == {CodescanLayout(f, reloc, ptn, inst) : reloc \in Int, ptn \in S, inst \in S}
           row(r) == FlattenSeq([i \in DOMAIN pairs |-> Paired(relocs[r], pairs[i])])
<1>1. IsFiniteSet(S) /\ S \subseteq Nat \X Nat /\ f.load \in Nat
  BY DEF IsFile, IsImage, IsCode
<1>2. pairs \in Seq(S)
  <2> HIDE DEF S
  <2> QED  BY <1>1, InOrder
<1>3. relocs \in Seq(Int)
  <2>1. Ascending(Deltas(f)) \in Seq(Deltas(f)) /\ Deltas(f) \subseteq Int
    BY DeltasAre, InOrder
  <2>2. Ascending(Deltas(f)) \in Seq(Int)
    BY <2>1, SeqMonotonic
  <2>3. <<0>> \in Seq(Int)
    OBVIOUS
  <2> QED  BY <2>2, <2>3, ConcatProperties
<1>4. ASSUME NEW ptn PROVE Under(ptn) \in Seq(S)
  <2> DEFINE U == {p \in S : p[1] < ptn[1]}
  <2>1. U \in SUBSET S
    OBVIOUS
  <2>2. IsFiniteSet(U) /\ U \subseteq Nat \X Nat
    <3> HIDE DEF U, S
    <3> QED  BY <1>1, <2>1, FS_Subset
  <2>3. Ordered(U) \in Seq(U)
    <3> HIDE DEF U
    <3> QED  BY <2>2, InOrder
  <2>4. Under(ptn) = Ordered(U)
    BY DEF Below
  <2> HIDE DEF U, Under, S
  <2> QED  BY <2>1, <2>3, <2>4, SeqMonotonic
<1>5. ASSUME NEW reloc \in Int, NEW ptn \in S PROVE Paired(reloc, ptn) \in Seq(X)
  <2> DEFINE u == Under(ptn)
  <2>1. u \in Seq(S)
    BY <1>4
  <2>2. Paired(reloc, ptn) = [i \in DOMAIN u |-> CodescanLayout(f, reloc, ptn, u[i])]
    OBVIOUS
  <2> HIDE DEF u, Under, Paired, S
  <2>3. Len(u) \in Nat /\ DOMAIN u = 1 .. Len(u) /\ \A i \in 1 .. Len(u) : u[i] \in S
    BY <2>1
  <2>4. \A i \in 1 .. Len(u) : CodescanLayout(f, reloc, ptn, u[i]) \in X
    BY <2>3
  <2> DEFINE e(i) == CodescanLayout(f, reloc, ptn, u[i])
  <2>5. Paired(reloc, ptn) = [i \in 1 .. Len(u) |-> e(i)]
    BY <2>2, <2>3
  <2> HIDE DEF e, X
  <2>6. [i \in 1 .. Len(u) |-> e(i)] \in Seq(X)
    BY <2>3, <2>4 DEF e
  <2> QED  BY <2>5, <2>6
<1>6. ASSUME NEW reloc \in Int PROVE FlattenSeq([i \in DOMAIN pairs |-> Paired(reloc, pairs[i])]) \in Seq(X)
  <2>1. Len(pairs) \in Nat /\ DOMAIN pairs = 1 .. Len(pairs) /\ \A i \in 1 .. Len(pairs) : pairs[i] \in S
    BY <1>2
  <2> DEFINE e(i) == Paired(reloc, pairs[i])
  <2>2. \A i \in 1 .. Len(pairs) : e(i) \in Seq(X)
    BY <1>5, <2>1
  <2>3. [i \in DOMAIN pairs |-> Paired(reloc, pairs[i])] = [i \in 1 .. Len(pairs) |-> e(i)]
    BY <2>1
  <2> HIDE DEF e, X, pairs, Paired
  <2> DEFINE ss == [i \in 1 .. Len(pairs) |-> e(i)]
  <2>4. ss \in Seq(Seq(X))
    BY <2>1, <2>2
  <2> HIDE DEF ss
  <2>5. FlattenSeq(ss) \in Seq(X)
    BY ONLY <2>4, FlattenType
  <2> QED  BY <2>3, <2>5 DEF ss
<1>7. FlattenSeq([r \in DOMAIN relocs |-> row(r)]) \in Seq(X)
  <2>1. Len(relocs) \in Nat /\ DOMAIN relocs = 1 .. Len(relocs) /\ \A r \in 1 .. Len(relocs) : relocs[r] \in Int
    BY <1>3
  <2>2. \A r \in 1 .. Len(relocs) : row(r) \in Seq(X)
    BY <1>6, <2>1
  <2> HIDE DEF row, X, relocs
  <2>3. [r \in DOMAIN relocs |-> row(r)] = [r \in 1 .. Len(relocs) |-> row(r)]
    BY <2>1
  <2> DEFINE ss == [r \in 1 .. Len(relocs) |-> row(r)]
  <2>4. ss \in Seq(Seq(X))
    BY <2>1, <2>2
  <2> HIDE DEF ss
  <2>5. FlattenSeq(ss) \in Seq(X)
    BY ONLY <2>4, FlattenType
  <2> QED  BY <2>3, <2>5 DEF ss
<1>8. CodescanLayouts(f) \in Seq(X)
  <2>1. CodescanLayouts(f) = IF Len(pairs) < 2 THEN <<>> ELSE FlattenSeq([r \in DOMAIN relocs |-> row(r)])
    BY DEF CodescanLayouts
  <2>2. <<>> \in Seq(X)
    OBVIOUS
  <2> HIDE DEF row, X, relocs, pairs
  <2> QED  BY <1>7, <2>1, <2>2
<1>9. ASSUME NEW lay \in X PROVE IsLayout(f, "codescan", lay)
  <2> PICK reloc \in Int, ptn \in S, inst \in S : lay = CodescanLayout(f, reloc, ptn, inst)
    OBVIOUS
  <2>1. /\ lay.how = "codescan" /\ lay.load = f.load /\ lay.instLo = inst[1] /\ lay.hint = Hint(f)
        /\ lay.ptrBase = 0 /\ lay.reloc = reloc
    BY DEF CodescanLayout
  <2>2. inst[1] \in Int
    BY <1>1
  <2> QED  BY <1>1, <2>1, <2>2 DEF IsLayout
<1> HIDE DEF X
<1>10. /\ Len(CodescanLayouts(f)) \in Nat /\ DOMAIN CodescanLayouts(f) = 1 .. Len(CodescanLayouts(f))
       /\ \A i \in 1 .. Len(CodescanLayouts(f)) : CodescanLayouts(f)[i] \in X
  BY <1>8
<1> QED  BY <1>9, <1>10 DEF AreLayouts

\* The one layout of a player that was run.
LEMMA PlayerIs ==
  ASSUME NEW f
  PROVE  AreLayouts(f, "player", PlayerLayouts(f))
<1>1. PlayerLayouts(f) \in {<<>>, <<PlayerLayout(f)>>}
  BY DEF PlayerLayouts
<1>2. PlayerLayout(f).how = "player"
  BY DEF PlayerLayout, PlayerLayoutIn, PlayerLayoutOf
<1>3. CASE PlayerLayouts(f) = <<>>
  BY <1>3 DEF AreLayouts
<1>4. CASE PlayerLayouts(f) = <<PlayerLayout(f)>>
  <2> DEFINE lay == PlayerLayout(f)
  <2>1. Len(<<lay>>) = 1 /\ DOMAIN <<lay>> = 1 .. 1 /\ <<lay>>[1] = lay
    OBVIOUS
  <2>2. IsLayout(f, "player", lay)
    BY <1>2 DEF IsLayout
  <2> HIDE DEF lay
  <2> QED  BY <1>4, <2>1, <2>2 DEF AreLayouts, lay
<1> QED  BY <1>1, <1>3, <1>4

\* The strategies tried on a file.
Plans == {<<"swp">>, <<"swm", "codescan", "player">>, <<"codescan", "player">>, <<"player">>}

\* A strategy that is tried offers layouts one by one.
LEMMA LayoutsAre ==
  ASSUME NEW f, IsFile(f), NEW how \in Hows,
         how = "swm" => f.header # None, how = "swp" => f.swp # None
  PROVE  AreLayouts(f, how, Layouts(f, how))
<1>1. CASE how = "swm"
  BY <1>1, SwmIs DEF Layouts
<1>2. CASE how = "swp"
  BY <1>2, SwpIs DEF Layouts
<1>3. CASE how = "codescan"
  BY <1>3, CodescanIs DEF Layouts
<1>4. CASE how = "player"
  BY <1>4, PlayerIs DEF Layouts
<1> QED  BY <1>1, <1>2, <1>3, <1>4 DEF Hows

-----------------------------------------------------------------------------
(* The first that decodes.                                                  *)

\* The first song there is: nothing before it decodes, and nothing at all only where none does.
LEMMA FirstFoundIs ==
  ASSUME NEW n \in Nat, NEW songs, DOMAIN songs = 1 .. n
  PROVE  /\ \A i \in 1 .. n : (songs[i] # None /\ \A j \in 1 .. i - 1 : songs[j] = None)
                              => FirstFound(songs) = songs[i]
         /\ (\A i \in 1 .. n : songs[i] = None) => FirstFound(songs) = None
         /\ FirstFound(songs) # None => \E i \in 1 .. n : FirstFound(songs) = songs[i]
<1> DEFINE good == {i \in 1 .. n : songs[i] # None}
<1>1. FirstFound(songs) = IF good = {} THEN None ELSE songs[Min(good)]
  BY DEF FirstFound
<1>2. good # {} => Min(good) \in good /\ \A i \in good : Min(good) <= i
  <2>1. \A i \in good : i \in Int /\ i >= 1
    OBVIOUS
  <2> HIDE DEF good
  <2>2. 1 \in Int
    OBVIOUS
  <2> QED  BY <2>1, <2>2, LeastIs
<1>3. ASSUME NEW i \in 1 .. n, songs[i] # None, \A j \in 1 .. i - 1 : songs[j] = None
      PROVE  FirstFound(songs) = songs[i]
  <2>1. i \in good
    BY <1>3
  <2>2. Min(good) \in good /\ Min(good) <= i
    BY <1>2, <2>1
  <2>3. Min(good) \in 1 .. n /\ songs[Min(good)] # None
    BY <2>2
  <2>4. ASSUME NEW m \in 1 .. n, m <= i, songs[m] # None PROVE m = i
    BY <1>3, <2>4
  <2>5. Min(good) = i
    <3> HIDE DEF good
    <3> QED  BY <2>2, <2>3, <2>4
  <2> HIDE DEF good
  <2> QED  BY <1>1, <2>1, <2>5
<1>4. (\A i \in 1 .. n : songs[i] = None) => FirstFound(songs) = None
  BY <1>1
<1>5. FirstFound(songs) # None => \E i \in 1 .. n : FirstFound(songs) = songs[i]
  BY <1>1, <1>2
<1> HIDE DEF good
<1> QED  BY <1>3, <1>4, <1>5

\* Among the layouts of a strategy.
LEMMA AmongIs ==
  ASSUME NEW f, NEW how, NEW lays, AreLayouts(f, how, lays)
  PROVE  /\ \A i \in 1 .. Len(lays) :
              /\ Decoded(f, how, lays[i]) # None
              /\ \A j \in 1 .. i - 1 : Decoded(f, how, lays[j]) = None
              => DecodedAmong(f, how, lays) = Decoded(f, how, lays[i])
         /\ (\A i \in 1 .. Len(lays) : Decoded(f, how, lays[i]) = None) => DecodedAmong(f, how, lays) = None
<1> DEFINE n == Len(lays)
           D(i) == Decoded(f, how, lays[i])
           songs == [i \in 1 .. n |-> D(i)]
<1>1. n \in Nat /\ DecodedAmong(f, how, lays) = FirstFound(songs)
  BY DEF AreLayouts, DecodedAmong
<1>2. DOMAIN songs = 1 .. n /\ \A i \in 1 .. n : songs[i] = D(i)
  OBVIOUS
<1> HIDE DEF songs, D
<1>3. /\ \A i \in 1 .. n : (songs[i] # None /\ \A j \in 1 .. i - 1 : songs[j] = None)
                              => FirstFound(songs) = songs[i]
      /\ (\A i \in 1 .. n : songs[i] = None) => FirstFound(songs) = None
  <2> HIDE DEF n
  <2> QED  BY <1>1, <1>2, FirstFoundIs
<1>4. \A i \in 1 .. n : \A j \in 1 .. i - 1 : j \in 1 .. n
  BY <1>1
<1>5. ASSUME NEW i \in 1 .. n, D(i) # None, \A j \in 1 .. i - 1 : D(j) = None
      PROVE  FirstFound(songs) = D(i)
  BY <1>2, <1>3, <1>4, <1>5
<1>6. (\A i \in 1 .. n : D(i) = None) => FirstFound(songs) = None
  BY <1>2, <1>3
<1> QED  BY <1>1, <1>5, <1>6 DEF D

\* Among the strategies: the first decides, or the rest do.
LEMMA DecodedIs ==
  ASSUME NEW f, NEW hows \in Plans
  PROVE  LET now == DecodedAmong(f, Head(hows), Layouts(f, Head(hows)))
         IN  /\ now # None => FirstDecoded(f, hows) = now
             /\ now = None /\ Len(hows) = 1 => FirstDecoded(f, hows) = None
             /\ now = None /\ Len(hows) # 1 => /\ Tail(hows) \in Plans
                                               /\ FirstDecoded(f, hows) = FirstDecoded(f, Tail(hows))
<1> DEFINE D(how) == DecodedAmong(f, how, Layouts(f, how))
           songs(p) == [i \in DOMAIN p |-> D(p[i])]
<1>1. \A p : FirstDecoded(f, p) = FirstFound(songs(p))
  BY DEF FirstDecoded
<1>2. ASSUME NEW a PROVE FirstFound(songs(<<a>>)) = D(a)
  <2>1. /\ DOMAIN songs(<<a>>) = 1 .. 1 /\ songs(<<a>>)[1] = D(a)
    OBVIOUS
  <2> HIDE DEF songs, D
  <2>2. 1 \in Nat /\ 1 \in 1 .. 1 /\ 1 .. (1 - 1) = {} /\ \A i \in 1 .. 1 : i = 1
    OBVIOUS
  <2> QED  BY <2>1, <2>2, FirstFoundIs
<1>3. ASSUME NEW a, NEW b PROVE FirstFound(songs(<<a, b>>)) = IF D(a) # None THEN D(a) ELSE D(b)
  <2>1. /\ DOMAIN songs(<<a, b>>) = 1 .. 2 /\ songs(<<a, b>>)[1] = D(a) /\ songs(<<a, b>>)[2] = D(b)
    OBVIOUS
  <2> HIDE DEF songs, D
  <2>2. 2 \in Nat /\ 1 .. 2 = {1, 2} /\ 1 .. (1 - 1) = {} /\ 1 .. (2 - 1) = {1}
    OBVIOUS
  <2> DEFINE s == songs(<<a, b>>)
  <2>3. /\ \A i \in 1 .. 2 : (s[i] # None /\ \A j \in 1 .. i - 1 : s[j] = None) => FirstFound(s) = s[i]
        /\ (\A i \in 1 .. 2 : s[i] = None) => FirstFound(s) = None
    BY <2>1, <2>2, FirstFoundIs
  <2>4. 1 \in 1 .. 2 /\ 2 \in 1 .. 2
    OBVIOUS
  <2>5. s[1] # None => FirstFound(s) = s[1]
    <3> HIDE DEF s
    <3> QED  BY <2>2, <2>3, <2>4
  <2>6. s[1] = None /\ s[2] # None => FirstFound(s) = s[2]
    <3> HIDE DEF s
    <3> QED  BY <2>2, <2>3, <2>4
  <2>7. s[1] = None /\ s[2] = None => FirstFound(s) = None
    <3> HIDE DEF s
    <3> QED  BY <2>2, <2>3, <2>4
  <2> QED  BY <2>1, <2>5, <2>6, <2>7 DEF s
<1>4. ASSUME NEW a, NEW b, NEW c
      PROVE  FirstFound(songs(<<a, b, c>>)) = IF D(a) # None THEN D(a) ELSE IF D(b) # None THEN D(b) ELSE D(c)
  <2>1. /\ DOMAIN songs(<<a, b, c>>) = 1 .. 3 /\ songs(<<a, b, c>>)[1] = D(a)
        /\ songs(<<a, b, c>>)[2] = D(b) /\ songs(<<a, b, c>>)[3] = D(c)
    OBVIOUS
  <2> HIDE DEF songs, D
  <2>2. 3 \in Nat /\ 1 .. 3 = {1, 2, 3} /\ 1 .. (1 - 1) = {} /\ 1 .. (2 - 1) = {1} /\ 1 .. (3 - 1) = {1, 2}
    OBVIOUS
  <2> DEFINE s == songs(<<a, b, c>>)
  <2>3. /\ \A i \in 1 .. 3 : (s[i] # None /\ \A j \in 1 .. i - 1 : s[j] = None) => FirstFound(s) = s[i]
        /\ (\A i \in 1 .. 3 : s[i] = None) => FirstFound(s) = None
    BY <2>1, <2>2, FirstFoundIs
  <2>4. 1 \in 1 .. 3 /\ 2 \in 1 .. 3 /\ 3 \in 1 .. 3
    OBVIOUS
  <2>5. s[1] # None => FirstFound(s) = s[1]
    <3> HIDE DEF s
    <3> QED  BY <2>2, <2>3, <2>4
  <2>6. s[1] = None /\ s[2] # None => FirstFound(s) = s[2]
    <3> HIDE DEF s
    <3> QED  BY <2>2, <2>3, <2>4
  <2>7. s[1] = None /\ s[2] = None /\ s[3] # None => FirstFound(s) = s[3]
    <3> HIDE DEF s
    <3> QED  BY <2>2, <2>3, <2>4
  <2>8. s[1] = None /\ s[2] = None /\ s[3] = None => FirstFound(s) = None
    <3> HIDE DEF s
    <3> QED  BY <2>2, <2>3, <2>4
  <2> QED  BY <2>1, <2>5, <2>6, <2>7, <2>8 DEF s
<1>5. \/ \E a : hows = <<a>>
      \/ hows = <<"swm", "codescan", "player">> /\ Tail(hows) = <<"codescan", "player">>
      \/ hows = <<"codescan", "player">> /\ Tail(hows) = <<"player">>
  <2>1. /\ Tail(<<"swm", "codescan", "player">>) = <<"codescan", "player">>
        /\ Tail(<<"codescan", "player">>) = <<"player">>
    OBVIOUS
  <2> QED  BY <2>1 DEF Plans
<1>6. CASE \E a : hows = <<a>>
  <2> PICK a : hows = <<a>>
    BY <1>6
  <2>1. Head(hows) = a /\ Len(hows) = 1
    OBVIOUS
  <2> HIDE DEF songs
  <2> QED  BY <1>1, <1>2, <2>1
<1>7. CASE hows = <<"swm", "codescan", "player">> /\ Tail(hows) = <<"codescan", "player">>
  <2>1. Head(hows) = "swm" /\ Len(hows) = 3 /\ Tail(hows) \in Plans
    BY <1>7 DEF Plans
  <2> HIDE DEF songs
  <2> QED  BY <1>1, <1>3, <1>4, <1>7, <2>1
<1>8. CASE hows = <<"codescan", "player">> /\ Tail(hows) = <<"player">>
  <2>1. Head(hows) = "codescan" /\ Len(hows) = 2 /\ Tail(hows) \in Plans
    BY <1>8 DEF Plans
  <2> HIDE DEF songs
  <2> QED  BY <1>1, <1>2, <1>3, <1>8, <2>1
<1> QED  BY <1>5, <1>6, <1>7, <1>8

-----------------------------------------------------------------------------
(* The subtune tables of a layout.                                          *)

AreBlocks(f, blocks) ==
  /\ Len(blocks) \in Nat /\ DOMAIN blocks = 1 .. Len(blocks)
  /\ \A i \in DOMAIN blocks : /\ blocks[i].seqs \in Nat /\ (HeaderCounts(f) => blocks[i].seqs # 0)
                              /\ blocks[i].subtunes = SubtunesFor(f, blocks[i].seqs)

\* The greater of two numbers is one of them.
LEMMA GreaterIs ==
  ASSUME NEW a \in Int, NEW b \in Int
  PROVE  Max({a, b}) \in {a, b}
<1>1. CASE a <= b
  <2>1. {a, b} \subseteq a .. b
    BY <1>1
  <2> DEFINE S == {a, b}
  <2>2. S # {}
    OBVIOUS
  <2> HIDE DEF S
  <2> QED  BY <2>1, <2>2, GreatestIs DEF S
<1>2. CASE b <= a
  <2>1. {a, b} \subseteq b .. a
    BY <1>2
  <2> DEFINE S == {a, b}
  <2>2. S # {}
    OBVIOUS
  <2> HIDE DEF S
  <2> QED  BY <2>1, <2>2, GreatestIs DEF S
<1> QED  BY <1>1, <1>2

\* The places found for a table of subtunes are numbers, and finitely many.
LEMMA ScanIs ==
  ASSUME NEW f, IsFile(f), NEW img, NEW lay, lay.load \in Int, lay.instLo \in Int,
         NEW n \in Nat, NEW seqs, NEW low
  PROVE  /\ IsFiniteSet(Scan(f, img, lay, n, seqs, low)) /\ Scan(f, img, lay, n, seqs, low) \subseteq Int
         /\ Scan(f, img, lay, n, seqs, low) # {} => Max(Scan(f, img, lay, n, seqs, low)) \in Int
<1> DEFINE top == lay.instLo - Block(f) * n
           floor == Max({lay.load, top - ScanWindow})
           S == Scan(f, img, lay, n, seqs, low)
<1>1. top \in Int /\ top - ScanWindow \in Int
  <2>1. Block(f) * n \in Int
    <3>1. CASE Block(f) = 8
      BY <3>1
    <3>2. CASE Block(f) = 16
      BY <3>2
    <3>3. CASE Block(f) = 32
      BY <3>3
    <3> QED  BY <3>1, <3>2, <3>3, SizesAre
  <2> QED  BY <2>1 DEF ScanWindow
<1>2. floor \in Int
  <2> HIDE DEF top
  <2> QED  BY <1>1, GreaterIs
<1>3. S \in SUBSET (floor .. top)
  BY DEF Scan
<1> HIDE DEF top, floor, S
<1>4. IsFiniteSet(floor .. top)
  BY <1>1, <1>2, FS_Interval
<1>5. IsFiniteSet(S) /\ S \subseteq Int
  <2>1. IsFiniteSet(S)
    BY <1>3, <1>4, FS_Subset
  <2>2. \A x \in floor .. top : x \in Int
    BY <1>1, <1>2
  <2> QED  BY <1>3, <2>1, <2>2
<1>6. S # {} => Max(S) \in S
  <2>1. S \subseteq floor .. top
    BY <1>3
  <2> QED  BY ONLY <1>1, <1>2, <2>1, GreatestIs
<1>7. S # {} => Max(S) \in Int
  BY <1>5, <1>6
<1> QED  BY ONLY <1>5, <1>7 DEF S

\* How many subtunes fit above a place.
LEMMA FitIs ==
  ASSUME NEW f, IsFile(f), NEW lay, lay.instLo \in Int, NEW sb \in Nat
  PROVE  FitAbove(f, lay, Hint(f), sb) \in Int
<1> DEFINE named == {lay.instLo} \cup f.static.code.chdp \cup f.static.code.tmpp
           above == {x \in named : x > sb}
<1>1. named \subseteq Int
  <2>1. IsCode(f.static.code)
    BY DEF IsFile, IsImage
  <2>2. f.static.code.chdp \subseteq Nat /\ f.static.code.tmpp \subseteq Nat
    BY ONLY <2>1 DEF IsCode
  <2> QED  BY <2>2
<1>2. \A x \in above : x \in Int /\ x >= 0
  <2> HIDE DEF named
  <2> QED  BY <1>1
<1>3. above # {} => Min(above) \in Int
  <2> HIDE DEF above
  <2>1. 0 \in Int
    OBVIOUS
  <2> QED  BY <1>2, <2>1, LeastIs
<1>4. above # {} => (Min(above) - sb) \div Block(f) \in Int
  <2>1. \A a, b \in Int : \A c \in {8, 16, 32} : (a - b) \div c \in Int
    OBVIOUS
  <2>2. Block(f) \in {8, 16, 32} /\ sb \in Int
    BY SizesAre
  <2> HIDE DEF above
  <2> QED  BY <1>3, <2>1, <2>2
<1>5. Hint(f) \in Int
  <2>1. f.header # None => f.header.seqs \in Nat
    BY DEF IsFile, IsHeader
  <2>2. f.header # None => SubtunesFor(f, f.header.seqs) \in Int
    BY <2>1, SizesAre
  <2> QED  BY <2>2 DEF Hint, HasHeader
<1>6. FitAbove(f, lay, Hint(f), sb)
        = IF above = {} THEN 0 ELSE IF Hint(f) # 0 THEN Hint(f) ELSE (Min(above) - sb) \div Block(f)
  BY DEF FitAbove
<1> HIDE DEF above
<1> QED  BY <1>4, <1>5, <1>6

\* A table of subtunes that is tried holds as many subtunes as its orderlists make.
LEMMA BlocksAre ==
  ASSUME NEW f, IsFile(f), NEW how \in Hows \ {"player"}, NEW lay, IsLayout(f, how, lay),
         how = "swm" => f.header # None, NEW low
  PROVE  AreBlocks(f, Blocks(f, f.static, lay, low))
<1> DEFINE img == f.static
           X == {b \in [base : Int, subtunes : Nat, seqs : Nat] :
                   b.subtunes = SubtunesFor(f, b.seqs) /\ (HeaderCounts(f) => b.seqs # 0)}
<1>1. ASSUME NEW blocks \in Seq(X) PROVE AreBlocks(f, blocks)
  <2>1. /\ Len(blocks) \in Nat /\ DOMAIN blocks = 1 .. Len(blocks)
        /\ \A i \in DOMAIN blocks : blocks[i] \in X
    <3> HIDE DEF X
    <3> QED  OBVIOUS
  <2>2. \A b \in X : b.seqs \in Nat /\ b.subtunes = SubtunesFor(f, b.seqs) /\ (HeaderCounts(f) => b.seqs # 0)
    OBVIOUS
  <2> HIDE DEF X
  <2> QED  BY <2>1, <2>2 DEF AreBlocks
<1>2. ASSUME NEW bases, bases \in Seq(Int), NEW n \in Nat, NEW seqs \in Nat,
             n = SubtunesFor(f, seqs), HeaderCounts(f) => seqs # 0
      PROVE  Tried(bases, n, seqs) \in Seq(X)
  <2>1. Len(bases) \in Nat /\ DOMAIN bases = 1 .. Len(bases) /\ \A i \in 1 .. Len(bases) : bases[i] \in Int
    BY <1>2
  <2> DEFINE e(i) == [base |-> bases[i], subtunes |-> n, seqs |-> seqs]
  <2>2. \A i \in 1 .. Len(bases) : e(i) \in X
    BY <1>2, <2>1
  <2>3. Tried(bases, n, seqs) = [i \in 1 .. Len(bases) |-> e(i)]
    BY <2>1 DEF Tried
  <2> HIDE DEF e, X
  <2> QED  BY <2>1, <2>2, <2>3
<1>3. CASE how = "swp"
  <2> DEFINE b == [base |-> lay.table, subtunes |-> lay.subtunes, seqs |-> lay.subtunes * Channels(f)]
  <2>1. Blocks(f, img, lay, low) = <<b>>
    BY <1>3 DEF Blocks, IsLayout
  <2>2. b.seqs \in Nat \ {0} /\ b.subtunes = SubtunesFor(f, b.seqs)
    BY <1>3, SizesAre DEF IsLayout
  <2> HIDE DEF b
  <2>3. Len(<<b>>) = 1 /\ DOMAIN <<b>> = 1 .. 1 /\ <<b>>[1] = b
    OBVIOUS
  <2> QED  BY <2>1, <2>2, <2>3 DEF AreBlocks
<1>4. CASE how = "swm"
  <2> DEFINE seqs == f.header.seqs
             n == SubtunesFor(f, seqs)
             found == Scan(f, img, lay, n, seqs, low)
  <2>1. seqs \in Nat /\ (HeaderCounts(f) => seqs # 0) /\ lay.load \in Int /\ lay.instLo \in Int
    BY <1>4 DEF IsLayout, IsFile, IsHeader, HeaderCounts
  <2>2. n \in Nat
    BY <2>1, SizesAre
  <2>3. found # {} => Max(found) \in Int
    <3> HIDE DEF n, seqs
    <3> QED  BY <2>1, <2>2, ScanIs
  <2>4. Blocks(f, img, lay, low) = IF found = {} THEN <<>> ELSE Tried(<<Max(found)>>, n, seqs)
    BY <1>4 DEF Blocks, IsLayout
  <2> HIDE DEF found
  <2>5. CASE found = {}
    <3>1. <<>> \in Seq(X)
      OBVIOUS
    <3> HIDE DEF X
    <3> QED  BY <1>1, <2>4, <2>5, <3>1
  <2>6. CASE found # {}
    <3>1. <<Max(found)>> \in Seq(Int)
      BY <2>3, <2>6
    <3>2. Tried(<<Max(found)>>, n, seqs) \in Seq(X)
      <4> HIDE DEF X
      <4> QED  BY <1>2, <2>1, <2>2, <3>1
    <3> HIDE DEF X, n, seqs
    <3> QED  BY <1>1, <2>4, <2>6, <3>2
  <2> QED  BY <2>5, <2>6
<1>5. CASE how = "codescan"
  <2> DEFINE Fit(sb) == FitAbove(f, lay, Hint(f), sb)
             subt == {sb \in f.static.code.subt : Fit(sb) >= 1}
             bases == Ascending(subt)
             counts == IF lay.hint # 0 THEN <<lay.hint>> ELSE [i \in 1 .. 8 |-> 9 - i]
             row(i) == Tried(Descending(Scan(f, img, lay, counts[i], counts[i] * Channels(f), low)),
                             counts[i], counts[i] * Channels(f))
  <2>1. lay.how = "codescan" /\ lay.load \in Int /\ lay.instLo \in Int /\ lay.hint = Hint(f)
    BY <1>5 DEF IsLayout
  <2>2. CodeBlocks(f, lay, Hint(f)) \in Seq(X)
    <3>1. IsFiniteSet(f.static.code.subt) /\ f.static.code.subt \subseteq Nat
      BY DEF IsFile, IsImage, IsCode
    <3>2. subt \in SUBSET f.static.code.subt
      OBVIOUS
    <3>3. IsFiniteSet(subt) /\ subt \subseteq Int
      <4> HIDE DEF subt
      <4> QED  BY <3>1, <3>2, FS_Subset
    <3>4. bases \in Seq(subt)
      <4> HIDE DEF subt
      <4> QED  BY <3>3, InOrder
    <3>5. ASSUME NEW sb \in subt PROVE sb \in Nat /\ Fit(sb) \in Nat \ {0}
      <4>1. sb \in Nat /\ Fit(sb) >= 1
        BY <3>1
      <4>2. Fit(sb) \in Int
        BY <2>1, <4>1, FitIs
      <4> HIDE DEF Fit
      <4> QED  BY <4>1, <4>2
    <3> DEFINE e(i) == [base |-> bases[i], subtunes |-> Fit(bases[i]), seqs |-> Fit(bases[i]) * Channels(f)]
    <3>6. Len(bases) \in Nat /\ DOMAIN bases = 1 .. Len(bases) /\ \A i \in 1 .. Len(bases) : bases[i] \in subt
      <4> HIDE DEF bases, subt
      <4> QED  BY <3>4
    <3>7. ASSUME NEW i \in 1 .. Len(bases) PROVE e(i) \in X
      <4> DEFINE sb == bases[i]
                 fit == Fit(sb)
      <4>1. sb \in Int /\ fit \in Nat /\ fit # 0
        <5>1. sb \in subt
          BY <3>6
        <5> HIDE DEF sb, subt, Fit
        <5> QED  BY <3>5, <5>1 DEF fit
      <4>2. fit = SubtunesFor(f, fit * Channels(f)) /\ fit * Channels(f) \in Nat \ {0}
        <5> HIDE DEF fit
        <5> QED  BY <4>1, SizesAre
      <4> HIDE DEF sb, fit
      <4>3. [base |-> sb, subtunes |-> fit, seqs |-> fit * Channels(f)] \in X
        BY <4>1, <4>2
      <4> QED  BY <4>3 DEF sb, fit
    <3>8. CodeBlocks(f, lay, Hint(f)) = [i \in 1 .. Len(bases) |-> e(i)]
      <4>1. CodeBlocks(f, lay, Hint(f)) = [i \in DOMAIN bases |-> e(i)]
        BY DEF CodeBlocks
      <4> QED  BY <3>6, <4>1
    <3> HIDE DEF e, X, bases
    <3> QED  BY <3>6, <3>7, <3>8
  <2>3. counts \in Seq(Nat \ {0})
    <3>1. CASE lay.hint # 0
      <4>1. f.header # None
        BY <2>1, <3>1 DEF Hint, HasHeader
      <4>2. f.header.seqs \in Nat
        BY <4>1 DEF IsFile, IsHeader
      <4>3. Hint(f) \in Nat \ {0}
        BY <4>1, <4>2, SizesAre DEF Hint, HasHeader
      <4>4. counts = <<Hint(f)>>
        BY <2>1, <3>1
      <4> HIDE DEF counts
      <4> QED  BY <4>3, <4>4
    <3>2. CASE lay.hint = 0
      <4>1. counts = [i \in 1 .. 8 |-> 9 - i]
        BY <3>2
      <4>2. 8 \in Nat /\ \A i \in 1 .. 8 : 9 - i \in Nat \ {0}
        OBVIOUS
      <4> HIDE DEF counts
      <4> QED  BY <4>1, <4>2
    <3> QED  BY <3>1, <3>2
  <2>4. Len(counts) \in Nat /\ DOMAIN counts = 1 .. Len(counts) /\ \A i \in 1 .. Len(counts) : counts[i] \in Nat \ {0}
    <3> HIDE DEF counts
    <3> QED  BY <2>3
  <2>5. ASSUME NEW i \in 1 .. Len(counts) PROVE row(i) \in Seq(X)
    <3> DEFINE n == counts[i]
               S == Scan(f, img, lay, n, n * Channels(f), low)
    <3>1. n \in Nat /\ n # 0
      BY <2>4
    <3> HIDE DEF n
    <3>2. n = SubtunesFor(f, n * Channels(f)) /\ n * Channels(f) \in Nat \ {0}
      BY <3>1, SizesAre
    <3>3. IsFiniteSet(S) /\ S \subseteq Int
      BY <2>1, <3>1, ScanIs
    <3> HIDE DEF S
    <3>4. Descending(S) \in Seq(Int)
      BY <3>3, InOrder, SeqMonotonic
    <3>5. Tried(Descending(S), n, n * Channels(f)) \in Seq(X)
      <4> HIDE DEF X
      <4> QED  BY <1>2, <3>1, <3>2, <3>4
    <3> QED  BY <3>5 DEF n, S
  <2>6. FlattenSeq([i \in DOMAIN counts |-> row(i)]) \in Seq(X)
    <3> HIDE DEF row, X, counts
    <3>1. [i \in DOMAIN counts |-> row(i)] = [i \in 1 .. Len(counts) |-> row(i)]
      BY <2>4
    <3>2. [i \in 1 .. Len(counts) |-> row(i)] \in Seq(Seq(X))
      BY <2>4, <2>5
    <3> QED  BY <3>1, <3>2, FlattenType
  <2>7. Blocks(f, img, lay, low) = CodeBlocks(f, lay, Hint(f)) \o FlattenSeq([i \in DOMAIN counts |-> row(i)])
    BY <2>1 DEF Blocks
  <2> HIDE DEF row, X, counts
  <2>8. Blocks(f, img, lay, low) \in Seq(X)
    BY <2>2, <2>6, <2>7, ConcatProperties
  <2> QED  BY <1>1, <2>8
<1> QED  BY <1>3, <1>4, <1>5 DEF Hows

-----------------------------------------------------------------------------
(* What a layout decodes to, table by table.                                *)

\* A strict layout decodes to what surrounds the first table of subtunes that reads.
LEMMA BlockIs ==
  ASSUME NEW f, NEW how \in Hows \ {"player"}, NEW lay, Tables(f, lay) # None,
         AreBlocks(f, Blocks(f, f.static, lay, Tables(f, lay).low))
  PROVE  LET t == Tables(f, lay)
             blocks == Blocks(f, f.static, lay, t.low)
             L(i) == Orderlists(f, f.static, lay, blocks[i], t.pats)
         IN  /\ \A i \in 1 .. Len(blocks) : (L(i) # None /\ \A j \in 1 .. i - 1 : L(j) = None)
                  => Decoded(f, how, lay) = Assemble(f, f.static, lay, t, blocks[i].base, blocks[i].subtunes, L(i))
             /\ (\A i \in 1 .. Len(blocks) : L(i) = None) => Decoded(f, how, lay) = None
<1> DEFINE t == Tables(f, lay)
           blocks == Blocks(f, f.static, lay, t.low)
           L(i) == Orderlists(f, f.static, lay, blocks[i], t.pats)
           lists == [i \in 1 .. Len(blocks) |-> L(i)]
           n == Len(blocks)
           good == {i \in 1 .. n : lists[i] # None}
           A(i) == Assemble(f, f.static, lay, t, blocks[i].base, blocks[i].subtunes, lists[i])
<1>1. n \in Nat /\ DOMAIN blocks = 1 .. n
  BY DEF AreBlocks
<1>2. Decoded(f, how, lay) = DecodedBlock(f, lay, t, blocks, lists)
  BY <1>1 DEF Decoded, DecodedIn, Then, Hows
<1>3. DecodedBlock(f, lay, t, blocks, lists) = IF good = {} THEN None ELSE A(Min(good))
  BY <1>1 DEF DecodedBlock
<1>4. \A i \in 1 .. n : lists[i] = L(i)
  OBVIOUS
<1> HIDE DEF lists, A, L, n, blocks, t
<1>5. good # {} => Min(good) \in good /\ \A i \in good : Min(good) <= i
  <2>1. \A i \in good : i \in Int /\ i >= 1
    BY <1>1
  <2> HIDE DEF good
  <2>2. 1 \in Int
    OBVIOUS
  <2> QED  BY <2>1, <2>2, LeastIs
<1>6. ASSUME NEW i \in 1 .. n, L(i) # None, \A j \in 1 .. i - 1 : L(j) = None
      PROVE  Decoded(f, how, lay) = A(i)
  <2>1. i \in good
    BY <1>4, <1>6
  <2>2. Min(good) \in 1 .. n /\ L(Min(good)) # None /\ Min(good) <= i
    BY <1>4, <1>5, <2>1
  <2>3. ASSUME NEW m \in 1 .. n, m <= i, L(m) # None PROVE m = i
    BY <1>1, <1>6, <2>3
  <2>4. Min(good) = i
    <3> HIDE DEF good
    <3> QED  BY <2>2, <2>3
  <2> HIDE DEF good
  <2> QED  BY <1>2, <1>3, <2>1, <2>4
<1>7. ASSUME \A i \in 1 .. n : L(i) = None PROVE Decoded(f, how, lay) = None
  BY <1>2, <1>3, <1>4, <1>7
<1> QED  BY <1>4, <1>6, <1>7 DEF A, L, n, blocks, t

-----------------------------------------------------------------------------
(* The container a file stands for.                                         *)

\* The container a file stands for is a file, and stands for itself.
LEMMA ContainerIs ==
  ASSUME NEW f, IsFile(f)
  PROVE  /\ IsFile(AsContainer(f)) /\ AsContainer(AsContainer(f)) = AsContainer(f)
         /\ AsContainer(f).inits = f.inits /\ AsContainer(f).sids = f.sids /\ AsContainer(f).header = f.header
<1> DEFINE g == AsContainer(f)
<1>1. \/ g = f
      \/ f.starter # None /\ \E at, init : at \in Nat /\ at >= f.starter.load /\ g = From(f, f.starter, at, init)
      \/ f.starter = None /\ g = [f EXCEPT !.form = "sid", !.entryAt = f.load]
  <2>1. CASE f.starter = None
    BY <2>1 DEF AsContainer
  <2>2. CASE f.starter # None
    <3>1. f.starter.load \in Nat /\ f.starter.init \in Nat
      BY <2>2 DEF IsFile
    <3> QED  BY <2>2, <3>1 DEF AsContainer, ExeContainer
  <2> QED  BY <2>1, <2>2
<1>2. CASE g = f
  BY <1>2
<1>3. CASE f.starter = None /\ g = [f EXCEPT !.form = "sid", !.entryAt = f.load]
  <2>1. /\ DOMAIN g = DOMAIN f /\ g.starter = None /\ g.form = "sid"
        /\ \A part \in DOMAIN f \ {"form", "entryAt"} : g[part] = f[part]
    BY <1>3 DEF IsFile
  <2>2. AsContainer(g) = g
    BY <2>1 DEF AsContainer
  <2>3. \A n : SubtunesFor(g, n) = SubtunesFor(f, n)
    BY <2>1 DEF SubtunesFor, Channels, IsFile
  <2>4. IsFile(g)
    <3>1. \A h : IsHeader(f, h) => IsHeader(g, h)
      BY <2>1, <2>3 DEF IsHeader, IsFile
    <3> HIDE DEF g
    <3> QED  BY <2>1, <3>1 DEF IsFile
  <2> QED  BY <2>1, <2>2, <2>4 DEF IsFile
<1>4. CASE f.starter # None /\ \E at, init : at \in Nat /\ at >= f.starter.load /\ g = From(f, f.starter, at, init)
  <2> DEFINE c == f.starter
  <2> PICK at, init : at \in Nat /\ at >= c.load /\ g = From(f, c, at, init)
    BY <1>4
  <2> DEFINE end == c.load + Len(c.bytes)
             img == [lo |-> at - 126, hi |-> end, code |-> c.code,
                     mem |-> [a \in at .. end - 1 |-> c.bytes[a - c.load + 1]]]
  <2>1. /\ DOMAIN g = DOMAIN f /\ g.starter = None /\ g.form = "sid" /\ g.load = at /\ g.static = img
        /\ \A part \in DOMAIN f \ {"form", "starter", "load", "entryAt", "static"} : g[part] = f[part]
    BY <1>4 DEF IsFile, From
  <2>2. AsContainer(g) = g
    BY <2>1 DEF AsContainer
  <2>3. \A n : SubtunesFor(g, n) = SubtunesFor(f, n)
    BY <2>1 DEF SubtunesFor, Channels, IsFile
  <2>4. IsFile(g)
    <3>1. \A h : IsHeader(f, h) => IsHeader(g, h)
      BY <2>1, <2>3 DEF IsHeader, IsFile
    <3>2. IsImage(img)
      <4>1. c.load \in Nat /\ c.bytes \in Seq(0 .. 255) /\ IsCode(c.code)
        BY <1>4 DEF IsFile
      <4>2. Len(c.bytes) \in Nat /\ \A i \in 1 .. Len(c.bytes) : c.bytes[i] \in 0 .. 255
        <5> DEFINE B == 0 .. 255
        <5>1. c.bytes \in Seq(B)
          BY <4>1
        <5> HIDE DEF c, B
        <5>2. Len(c.bytes) \in Nat /\ \A i \in 1 .. Len(c.bytes) : c.bytes[i] \in B
          BY <5>1, ElementOfSeq, LenProperties
        <5> QED  BY <5>2 DEF B
      <4>3. \A a \in at .. end - 1 : a - c.load + 1 \in 1 .. Len(c.bytes)
        <5>1. \A l, n, b \in Nat : b >= l => \A a \in b .. (l + n) - 1 : a - l + 1 \in 1 .. n
          OBVIOUS
        <5> HIDE DEF c
        <5> QED  BY ONLY <4>1, <4>2, <5>1, at \in Nat, at >= c.load DEF end
      <4>4. end \in Nat
        BY <4>1, <4>2
      <4> HIDE DEF end, c
      <4> QED  BY <4>1, <4>2, <4>3, <4>4 DEF IsImage
    <3> HIDE DEF g, img
    <3> QED  BY <2>1, <3>1, <3>2 DEF IsFile
  <2> QED  BY <2>1, <2>2, <2>4 DEF IsFile
<1> QED  BY <1>1, <1>2, <1>3, <1>4

-----------------------------------------------------------------------------
(* A song that was found.                                                   *)

\* An orderlist ends with its $FE, or with its $FF and the place to go on from.
Ends(seq) ==
  \/ Last(seq) = 254
  \/ Len(seq) > 1 /\ seq[Len(seq) - 1] = 255

SongParts == {"seqs", "pats", "insts", "chord", "tempo", "tempos", "how"}
IsSong(f, s) ==
  /\ RefsResolve(s.seqs, s.pats)
  /\ \A k \in DOMAIN s.seqs : Ends(s.seqs[k])
  /\ DOMAIN s.seqs = 1 .. Len(s.seqs) /\ Len(s.seqs) \in Nat /\ (HeaderCounts(f) => Len(s.seqs) # 0)
  /\ SongParts \subseteq DOMAIN s
  /\ DOMAIN s.tempos = 1 .. Len(s.tempos) /\ Len(s.tempos) = SubtunesFor(f, Len(s.seqs))

\* An orderlist that was read ends inside its own bytes.
LEMMA OrdersEnd ==
  ASSUME NEW img, IsImage(img), NEW start \in Int, Orders(img, start) # None
  PROVE  Ends(Orders(img, start))
<1> DEFINE stop == Min({start + Reach, img.hi})
           ends == {a \in start .. stop - 1 : At(img, a) >= 254}
           last == Min(ends)
           end == SequenceEnd(img, start)
           n == end - start
           seq == [i \in 1 .. n |-> At(img, start + i - 1)]
<1>1. end # None /\ Orders(img, start) = seq
  BY DEF Orders, Then, Chunk
<1>2. stop \in Int
  <2> DEFINE S == {start + Reach, img.hi}
  <2>1. img.hi \in Int /\ start + Reach \in Int
    BY DEF IsImage, Reach
  <2>2. PICK b \in Int : \A x \in S : x \in Int /\ x >= b
    <3>1. CASE start + Reach <= img.hi
      BY <2>1, <3>1
    <3>2. CASE ~(start + Reach <= img.hi)
      BY <2>1, <3>2
    <3> QED  BY <3>1, <3>2
  <2>3. S # {}
    OBVIOUS
  <2> HIDE DEF S
  <2>4. Min(S) \in S
    BY <2>2, <2>3, LeastIs
  <2> QED  BY <2>2, <2>4 DEF S
<1> HIDE DEF stop
<1>3. end = IF ends = {} THEN None
            ELSE IF At(img, last) = 254 THEN last + 1
            ELSE IF last + 1 < stop THEN last + 2 ELSE None
  BY DEF SequenceEnd, stop
<1>4. ends # {}
  BY <1>1, <1>3
<1>5. last \in start .. stop - 1 /\ At(img, last) >= 254
  <2>1. \A a \in ends : a \in Int /\ a >= start
    BY <1>2
  <2>2. last \in ends
    <3> HIDE DEF ends
    <3> QED  BY <1>4, <2>1, LeastIs
  <2> QED  BY <2>2
<1>6. At(img, last) \in 0 .. 255
  BY WordsAre
<1>7. last \in Int /\ last >= start /\ start \in Int
  BY <1>2, <1>5
<1> HIDE DEF ends, last, end
<1>8. CASE At(img, last) = 254
  <2>1. end = last + 1
    BY <1>3, <1>4, <1>8
  <2>2. n \in Nat /\ n \in 1 .. n /\ start + n - 1 = last
    BY <1>7, <2>1
  <2> HIDE DEF n
  <2>3. Len(seq) = n /\ seq[n] = At(img, last)
    BY <2>2
  <2> HIDE DEF seq
  <2> QED  BY <1>1, <1>8, <2>3 DEF Ends, Last
<1>9. CASE At(img, last) # 254
  <2>1. At(img, last) = 255
    BY <1>5, <1>6, <1>9
  <2>2. end = last + 2
    BY <1>1, <1>3, <1>4, <1>9
  <2>3. n \in Nat /\ n > 1 /\ n - 1 \in 1 .. n /\ start + (n - 1) - 1 = last
    BY <1>7, <2>2
  <2> HIDE DEF n
  <2>4. Len(seq) = n /\ seq[n - 1] = At(img, last)
    BY <2>3
  <2> HIDE DEF seq
  <2> QED  BY <1>1, <2>1, <2>3, <2>4 DEF Ends
<1> QED  BY <1>8, <1>9

\* The song put together has the parts it was put together from, and a tempo pair for each subtune.
LEMMA AssembleIs ==
  ASSUME NEW f, NEW img, NEW lay, NEW t, NEW base, NEW n \in Nat, NEW seqs,
         Assemble(f, img, lay, t, base, n, seqs) # None
  PROVE  LET s == Assemble(f, img, lay, t, base, n, seqs)
         IN  /\ DOMAIN s = SongParts
             /\ s.seqs = seqs /\ s.pats = t.pats /\ s.insts = t.insts
             /\ Len(s.tempos) = n /\ DOMAIN s.tempos = 1 .. n
<1> DEFINE ct == ChordTempo(f, img, lay, base, t.low)
           pairs == [i \in 1 .. n |-> TempoPair(f, img, lay, base, i - 1)]
           tempos == Every(pairs)
           s == Assemble(f, img, lay, t, base, n, seqs)
<1>1. s = WithTables(t, seqs, ct, tempos, lay.how)
  BY DEF Assemble
<1> HIDE DEF s, tempos, ct
<1>2. /\ tempos # None
      /\ s = [seqs |-> seqs, pats |-> t.pats, insts |-> t.insts,
              chord |-> ct.chord, tempo |-> ct.tempo, tempos |-> tempos, how |-> lay.how]
  BY <1>1 DEF WithTables, s
<1>3. tempos = pairs
  BY <1>2 DEF Every, tempos
<1>4. Len(pairs) = n /\ DOMAIN pairs = 1 .. n
  OBVIOUS
<1> HIDE DEF pairs
<1>5. /\ DOMAIN s = SongParts /\ s.seqs = seqs /\ s.pats = t.pats /\ s.insts = t.insts /\ s.tempos = tempos
  BY <1>2 DEF SongParts
<1> QED  BY <1>3, <1>4, <1>5 DEF s

\* What a block of orderlists gives.
LEMMA BlockSongIs ==
  ASSUME NEW f, IsFile(f), NEW how \in Hows \ {"player"}, NEW lay, IsLayout(f, how, lay), NEW t,
         NEW tab, tab.seqs \in Nat, HeaderCounts(f) => tab.seqs # 0, tab.subtunes = SubtunesFor(f, tab.seqs),
         NEW seqs, seqs = Orderlists(f, f.static, lay, tab, t.pats), seqs # None,
         Assemble(f, f.static, lay, t, tab.base, tab.subtunes, seqs) # None
  PROVE  LET s == Assemble(f, f.static, lay, t, tab.base, tab.subtunes, seqs)
         IN  IsSong(f, s) /\ DOMAIN s = SongParts
<1> DEFINE n == tab.seqs
           List(k) == Orderlist(f, f.static, lay, tab.base, k - 1)
           lists == [k \in 1 .. n |-> List(k)]
           s == Assemble(f, f.static, lay, t, tab.base, tab.subtunes, seqs)
<1>1. seqs = lists /\ (\A k \in DOMAIN lists : lists[k] # None) /\ RefsResolve(seqs, t.pats)
  <2>1. seqs = Then(Every(lists), LAMBDA q : IF RefsResolve(q, t.pats) THEN q ELSE None)
    BY DEF Orderlists
  <2> HIDE DEF lists
  <2>2. Every(lists) # None /\ seqs = Every(lists) /\ RefsResolve(seqs, t.pats)
    BY <2>1 DEF Then
  <2> QED  BY <2>2 DEF Every
<1>2. DOMAIN seqs = 1 .. n /\ Len(seqs) = n /\ \A k \in 1 .. n : seqs[k] = List(k)
  <2>1. DOMAIN lists = 1 .. n /\ Len(lists) = n /\ \A k \in 1 .. n : lists[k] = List(k)
    OBVIOUS
  <2> HIDE DEF lists
  <2> QED  BY <1>1, <2>1
<1>3. ASSUME NEW k \in 1 .. n PROVE Ends(seqs[k])
  <2> DEFINE b == BlockAddr(f, tab.base, k - 1)
             start == Resolve(lay, Word(f.static, b, b + 1))
  <2>1. List(k) # None /\ seqs[k] = List(k)
    BY <1>1, <1>2
  <2>2. List(k) = Orders(f.static, start)
    BY <2>1 DEF Orderlist, OrderlistAt
  <2>3. start \in Int
    <3>1. Word(f.static, b, b + 1) \in Int
      BY WordsAre DEF IsFile
    <3>2. lay.ptrBase \in Int /\ lay.reloc \in Int
      BY DEF IsLayout
    <3> HIDE DEF b
    <3> QED  BY <3>1, <3>2 DEF Resolve
  <2>4. IsImage(f.static)
    BY DEF IsFile
  <2> HIDE DEF start, List
  <2> QED  BY <2>1, <2>2, <2>3, <2>4, OrdersEnd
<1>4. tab.subtunes \in Nat
  BY SizesAre
<1>5. /\ DOMAIN s = SongParts /\ s.seqs = seqs /\ s.pats = t.pats
      /\ Len(s.tempos) = tab.subtunes /\ DOMAIN s.tempos = 1 .. tab.subtunes
  BY <1>4, AssembleIs
<1> HIDE DEF s, List
<1> QED  BY <1>1, <1>2, <1>3, <1>5 DEF IsSong, s

\* What the memory that init left gives.
LEMMA BasesAre ==
  ASSUME NEW f, IsFile(f), NEW img, IsImage(img), NEW form \in {"direct", "table"}, NEW st
  PROVE  LET bases == Bases(f, img, form, st)
         IN  bases # <<>> => \A c \in 1 .. Channels(f) : bases[c] \in Nat
<1> DEFINE bases == Bases(f, img, form, st)
           n == Channels(f)
<1>1. CASE form = "direct"
  <2> DEFINE d == img.code.direct
  <2>1. d \in Seq(Nat)
    BY DEF IsImage, IsCode
  <2>2. bases = IF Len(d) >= n THEN SubSeq(d, 1, n) ELSE <<>>
    BY <1>1 DEF Bases
  <2>3. n \in Nat
    BY SizesAre
  <2>4. Len(d) >= n => \A c \in 1 .. n : SubSeq(d, 1, n)[c] \in Nat
    <3> HIDE DEF d, n
    <3> SUFFICES ASSUME Len(d) >= n, NEW c \in 1 .. n PROVE SubSeq(d, 1, n)[c] \in Nat
      OBVIOUS
    <3>1. Len(d) \in Nat /\ c \in 1 .. Len(d) /\ c \in Int
      BY <2>1, <2>3
    <3>2. d[c] \in Nat
      BY <2>1, <3>1, ElementOfSeq
    <3>3. SubSeq(d, 1, n)[c] = d[c]
      BY <2>1, <2>3, <3>1
    <3> QED  BY <3>2, <3>3
  <2> HIDE DEF bases, d, n
  <2> QED  BY <2>2, <2>4 DEF bases, n
<1>2. CASE form = "table"
  <2>1. bases # <<>> => \A c \in 1 .. n : \E lo, hi : bases[c] = Word(img, lo, hi)
    BY <1>2 DEF Bases
  <2> HIDE DEF bases
  <2> QED  BY <2>1, WordsAre DEF bases
<1> QED  BY <1>1, <1>2

\* What a player that was run plays is a song.
LEMMA PlayedSongIs ==
  ASSUME NEW f, IsFile(f), Runs(f), ~PlayerAborts(f), PlayedSong(f, PlayerLayout(f)) # None
  PROVE  LET s == PlayedSong(f, PlayerLayout(f))
         IN  IsSong(f, s) /\ DOMAIN s = SongParts
<1> DEFINE lay == PlayerLayout(f)
           form == Form(f)
           floor == Min(ToSet(Bases(f, f.first, form, 0)))
           lists == PlayerLists(f, form, floor)
           seqs == PlayedSeqs(f, lay)
           pats == PlayedPatterns(f, lay, seqs)
           insts == PlayedInstruments(f, lay, Used(seqs, pats))
           t == [pats |-> pats, insts |-> insts, low |-> lay.floor]
           s == PlayedSong(f, lay)
           n == PlayerSeqs(f)
<1>1. /\ s = Assemble(f, f.last, lay, t, lay.table, lay.subtunes, seqs)
      /\ seqs # None /\ RefsResolve(seqs, pats)
  <2>1. s = IF seqs = None \/ pats = None \/ insts = None \/ ~RefsResolve(seqs, pats) THEN None
            ELSE Assemble(f, f.last, lay, t, lay.table, lay.subtunes, seqs)
    BY DEF PlayedSong
  <2>2. s # None
    OBVIOUS
  <2> HIDE DEF lay, pats, insts, seqs, t, s
  <2> QED  BY <2>1, <2>2
<1>2. /\ lay.lists = lists /\ lay.subtunes = PlayerSubtunes(f) /\ f.last # None
      /\ \A st \in 1 .. PlayerSubtunes(f) : f.runs[st] # None
  BY DEF PlayerLayout, PlayerLayoutIn, PlayerLayoutOf, PlayerAborts
<1>3. n \in Nat /\ (HeaderCounts(f) => n # 0) /\ PlayerSubtunes(f) \in Nat /\ 1 .. PlayerSubtunes(f) \subseteq DOMAIN f.runs
  <2>1. CASE HasHeader(f)
    <3>1. n = f.header.seqs /\ IsHeader(f, f.header)
      BY <2>1 DEF PlayerSeqs, HasHeader, IsFile
    <3> QED  BY <2>1, <3>1, SizesAre DEF PlayerSubtunes, IsHeader, HeaderCounts, HasHeader
  <2>2. CASE ~HasHeader(f)
    <3>1. n = 1 * Channels(f) /\ n \in Nat \ {0}
      BY <2>2, SizesAre DEF PlayerSeqs
    <3>2. PlayerSubtunes(f) = 1
      BY <2>2, <3>1, SizesAre DEF PlayerSubtunes
    <3> QED  BY <3>1, <3>2 DEF IsFile
  <2> QED  BY <2>1, <2>2
<1>4. DOMAIN lists = 1 .. n /\ \A i \in 1 .. n : lists[i] # None => lists[i] \in Nat
  <2> DEFINE LeftBy(st) == Bases(f, f.runs[st], form, st - 1)
             Stored(st, c) == IF LeftBy(st) = <<>> THEN None ELSE LeftBy(st)[c]
             Real(a) == IF a # None /\ floor <= a /\ a < DataEnd(f.first) THEN a ELSE None
             st(i) == 1 + ((i - 1) \div Channels(f))
             ch(i) == 1 + ((i - 1) % Channels(f))
  <2>1. lists = [i \in 1 .. n |-> Real(Stored(st(i), ch(i)))]
    BY DEF PlayerLists
  <2> HIDE DEF lists, floor
  <2> SUFFICES ASSUME NEW i \in 1 .. n, lists[i] # None PROVE lists[i] \in Nat
    BY <2>1
  <2>2. lists[i] = Stored(st(i), ch(i)) /\ Stored(st(i), ch(i)) # None
    <3> HIDE DEF Stored, st, ch
    <3> QED  BY <2>1
  <2>3. LeftBy(st(i)) # <<>> /\ lists[i] = LeftBy(st(i))[ch(i)]
    BY <2>2
  <2>4. st(i) \in 1 .. PlayerSubtunes(f) /\ ch(i) \in 1 .. Channels(f)
    <3>1. n > 0 /\ PlayerSubtunes(f) = (n - 1) \div Channels(f) + 1
      BY <1>3 DEF PlayerSubtunes, SubtunesFor
    <3>2. Channels(f) \in {3, 6, 9} /\ i \in Int /\ 1 <= i /\ i <= n
      BY <1>3, SizesAre
    <3>3. \A x, m \in Nat : x >= 1 /\ x <= m => \A c \in {3, 6, 9} :
            (x - 1) % c \in 0 .. c - 1 /\ (x - 1) \div c \in 0 .. (m - 1) \div c
      OBVIOUS
    <3>4. i \in Nat /\ n \in Nat
      BY <1>3
    <3>5. (i - 1) % Channels(f) \in 0 .. Channels(f) - 1 /\ (i - 1) \div Channels(f) \in 0 .. (n - 1) \div Channels(f)
      <4> HIDE DEF n
      <4> QED  BY <3>2, <3>3, <3>4
    <3> HIDE DEF n
    <3> QED  BY <1>3, <3>1, <3>2, <3>5
  <2>5. IsImage(f.runs[st(i)])
    <3> HIDE DEF st
    <3> QED  BY <1>2, <1>3, <2>4 DEF IsFile
  <2>6. form \in {"direct", "table"}
    BY DEF Form
  <2> HIDE DEF st, ch, form
  <2> QED  BY <2>3, <2>4, <2>5, <2>6, BasesAre
<1> DEFINE L(i) == IF lay.lists[i] = None THEN <<254>> ELSE Orders(f.last, lay.lists[i])
<1>5. seqs = [i \in 1 .. n |-> L(i)] /\ \A i \in 1 .. n : L(i) # None
  <2>1. seqs = Every([i \in 1 .. n |-> L(i)])
    BY <1>2, <1>4 DEF PlayedSeqs
  <2> HIDE DEF seqs
  <2> QED  BY <1>1, <2>1 DEF Every
<1>6. DOMAIN seqs = 1 .. n /\ Len(seqs) = n /\ \A i \in 1 .. n : seqs[i] = L(i) /\ L(i) # None
  <2> HIDE DEF L, seqs, n
  <2> QED  BY <1>3, <1>5
<1>7. ASSUME NEW i \in 1 .. n PROVE Ends(seqs[i])
  <2>1. CASE lists[i] = None
    <3>1. seqs[i] = <<254>>
      BY <1>2, <1>6, <2>1
    <3> QED  BY <3>1 DEF Ends, Last
  <2>2. CASE lists[i] # None
    <3>1. seqs[i] = Orders(f.last, lists[i]) /\ seqs[i] # None
      <4> HIDE DEF lists, seqs
      <4> QED  BY <1>2, <1>6, <2>2
    <3>2. lists[i] \in Int
      BY <1>4, <2>2
    <3>3. IsImage(f.last)
      BY <1>2 DEF IsFile
    <3> HIDE DEF lists, seqs
    <3> QED  BY <3>1, <3>2, <3>3, OrdersEnd
  <2> QED  BY <2>1, <2>2
<1>8. /\ DOMAIN s = SongParts /\ s.seqs = seqs /\ s.pats = pats
      /\ Len(s.tempos) = PlayerSubtunes(f) /\ DOMAIN s.tempos = 1 .. PlayerSubtunes(f)
  <2> HIDE DEF seqs, t, s, lay
  <2>1. Assemble(f, f.last, lay, t, lay.table, PlayerSubtunes(f), seqs) # None
    BY <1>1, <1>2 DEF s, lay
  <2>2. t.pats = pats
    BY DEF t
  <2> HIDE DEF pats
  <2> QED  BY <1>1, <1>2, <1>3, <2>1, <2>2, AssembleIs
<1>9. PlayerSubtunes(f) = SubtunesFor(f, n)
  BY DEF PlayerSubtunes
<1> HIDE DEF s, seqs, pats, n, L
<1> QED  BY <1>1, <1>3, <1>6, <1>7, <1>8, <1>9 DEF IsSong, s

-----------------------------------------------------------------------------
(* The search.                                                              *)

SearchType ==
  /\ stage \in {"stored", "open", "layout", "blocks", "found", "done"}
  /\ plan \in Plans \cup {<<>>}
  /\ cand \in Nat \ {0} /\ block \in Nat \ {0}
  /\ stage \in {"stored", "open"} => cand = 1
  /\ stage \in {"stored", "open", "layout"} => block = 1
  /\ DOMAIN tables = DOMAIN NoTables
FileInv ==
  /\ IsFile(file)
  /\ stage # "stored" => AsContainer(file) = file
\* What is left to try decodes to what the whole would: all before it failed.
PlanInv ==
  stage \in {"layout", "blocks"} =>
    /\ ~Refused(file) /\ plan \in Plans
    /\ Head(plan) = "swm" => file.header # None
    /\ Head(plan) = "swp" => file.swp # None
    /\ FirstDecoded(file, plan) = FirstDecoded(file, Strategies(file))
    /\ \A i \in 1 .. Len(Candidates) : i < cand => Decoded(file, Head(plan), Candidates[i]) = None
BlockInv ==
  stage = "blocks" =>
    /\ Strict /\ cand \in 1 .. Len(Candidates)
    /\ tables = Tables(file, Layout) /\ tables # None
    /\ \E blocks \in {Blocks(file, file.static, Layout, tables.low)} :
         \A i \in 1 .. Len(blocks) :
           i < block => Orderlists(file, file.static, Layout, blocks[i], tables.pats) = None
SongInv ==
  /\ stage \in {"stored", "open", "layout", "blocks"} => song = None
  /\ stage = "found" => /\ song # None /\ song = FirstDecoded(file, Strategies(file)) /\ ~Refused(file)
                        /\ IsSong(file, song) /\ DOMAIN song = SongParts
  /\ stage = "done" => song = Parsed(file)
  /\ stage = "done" /\ song # None => IsSong(file, song) /\ PlayedSound(song)
SearchInv == SearchType /\ FileInv /\ PlanInv /\ BlockInv /\ SongInv

\* A header's strategy is tried only with a header, the packed one only with an SWP block.
LEMMA StrategiesAre ==
  ASSUME NEW f
  PROVE  /\ Strategies(f) \in Plans
         /\ Head(Strategies(f)) = "swm" => f.header # None
         /\ Head(Strategies(f)) = "swp" => f.swp # None
BY DEF Strategies, Plans, HasHeader

\* Only the first strategy of a plan needs a header or an SWP block, only the last may abort.
LEMMA PlansAre ==
  ASSUME NEW p \in Plans
  PROVE  /\ Head(p) \in Hows /\ Len(p) \in Nat \ {0}
         /\ Tail(p) \in Plans => Head(Tail(p)) \notin {"swm", "swp"}
         /\ Head(p) = "player" => Len(p) = 1
<1>1. CASE p = <<"swp">>
  <2>1. Head(p) = "swp" /\ Len(p) = 1 /\ Tail(p) = <<>>
    BY <1>1
  <2>2. <<>> \notin Plans
    BY DEF Plans
  <2>3. Tail(p) \notin Plans
    BY <2>1, <2>2
  <2>4. Head(p) \in Hows /\ Len(p) \in Nat \ {0} /\ Len(p) = 1
    BY <2>1 DEF Hows
  <2> QED  BY <2>3, <2>4
<1>2. CASE p = <<"swm", "codescan", "player">>
  <2>1. Head(p) = "swm" /\ Len(p) = 3 /\ Head(Tail(p)) = "codescan"
    BY <1>2
  <2> QED  BY <2>1 DEF Hows
<1>3. CASE p = <<"codescan", "player">>
  <2>1. Head(p) = "codescan" /\ Len(p) = 2 /\ Head(Tail(p)) = "player"
    BY <1>3
  <2> QED  BY <2>1 DEF Hows
<1>4. CASE p = <<"player">>
  <2>1. Head(p) = "player" /\ Len(p) = 1 /\ Tail(p) = <<>>
    BY <1>4
  <2>2. <<>> \notin Plans
    BY DEF Plans
  <2>3. Tail(p) \notin Plans
    BY <2>1, <2>2
  <2>4. Head(p) \in Hows /\ Len(p) \in Nat \ {0} /\ Len(p) = 1
    BY <2>1 DEF Hows
  <2> QED  BY <2>3, <2>4
<1> QED  BY <1>1, <1>2, <1>3, <1>4 DEF Plans

\* The candidates are the layouts of the strategy that is tried.
LEMMA CandidatesAre ==
  ASSUME SearchInv, stage \in {"layout", "blocks"}
  PROVE  AreLayouts(file, Head(plan), Candidates)
<1>1. Head(plan) \in Hows /\ IsFile(file)
  BY PlansAre DEF SearchInv, FileInv, PlanInv
<1> QED  BY <1>1, LayoutsAre DEF SearchInv, PlanInv, Candidates

\* A candidate that fails.
LEMMA NextKeeps ==
  ASSUME SearchInv, stage \in {"layout", "blocks"}, cand \in 1 .. Len(Candidates),
         Decoded(file, Head(plan), Layout) = None,
         NextCandidate, UNCHANGED <<file, plan, song>>
  PROVE  SearchInv'
<1>1. stage' = "layout" /\ cand' = cand + 1 /\ tables' = NoTables /\ block' = 1
  BY DEF NextCandidate
<1>2. Candidates' = Candidates
  BY DEF Candidates
<1>3. SearchType'
  BY <1>1 DEF SearchInv, SearchType
<1>4. FileInv'
  BY <1>1 DEF SearchInv, FileInv
<1>5. PlanInv'
  <2>1. \A i \in 1 .. Len(Candidates) : i < cand => Decoded(file, Head(plan), Candidates[i]) = None
    BY DEF SearchInv, PlanInv
  <2>2. Len(Candidates) \in Nat
    BY CandidatesAre DEF AreLayouts
  <2>3. ASSUME NEW i \in 1 .. Len(Candidates), i < cand'
        PROVE  Decoded(file, Head(plan), Candidates[i]) = None
    <3>1. CASE i < cand
      BY <2>1, <3>1
    <3>2. CASE ~(i < cand)
      <4>1. i = cand
        <5>1. i \in Int /\ cand \in Int
          BY <2>2
        <5> QED  BY ONLY <5>1, <1>1, <2>3, <3>2
      <4> QED  BY <4>1 DEF Layout
    <3> QED  BY <3>1, <3>2
  <2> QED  BY <1>1, <1>2, <2>3 DEF SearchInv, PlanInv
<1>6. BlockInv' /\ SongInv'
  BY <1>1 DEF SearchInv, BlockInv, SongInv
<1> QED  BY <1>3, <1>4, <1>5, <1>6 DEF SearchInv

\* A candidate that decodes is what the whole search would find.
LEMMA FoundIs ==
  ASSUME SearchInv, stage \in {"layout", "blocks"}, cand \in 1 .. Len(Candidates),
         Decoded(file, Head(plan), Layout) # None
  PROVE  Decoded(file, Head(plan), Layout) = FirstDecoded(file, Strategies(file))
<1>1. AreLayouts(file, Head(plan), Candidates)
  BY CandidatesAre
<1>2. Len(Candidates) \in Nat /\ cand \in Int
  BY <1>1 DEF AreLayouts
<1>3. \A j \in 1 .. cand - 1 : Decoded(file, Head(plan), Candidates[j]) = None
  <2>1. \A j \in 1 .. cand - 1 : j \in 1 .. Len(Candidates) /\ j < cand
    BY <1>2
  <2> QED  BY <2>1 DEF SearchInv, PlanInv
<1>4. DecodedAmong(file, Head(plan), Candidates) = Decoded(file, Head(plan), Layout)
  BY <1>1, <1>3, AmongIs DEF Layout
<1>5. FirstDecoded(file, plan) = Decoded(file, Head(plan), Layout)
  BY <1>4, DecodedIs DEF SearchInv, PlanInv, Candidates
<1> QED  BY <1>5 DEF SearchInv, PlanInv

\* A candidate's song is taken, or the candidate is given up.
LEMMA TakeKeeps ==
  ASSUME SearchInv, stage \in {"layout", "blocks"}, cand \in 1 .. Len(Candidates),
         NEW found, found = Decoded(file, Head(plan), Layout),
         found # None => IsSong(file, found) /\ DOMAIN found = SongParts,
         Take(found), UNCHANGED <<file, plan>>
  PROVE  SearchInv'
<1>1. CASE found = None
  BY <1>1, NextKeeps DEF Take
<1>2. CASE found # None
  <2>1. stage' = "found" /\ song' = found /\ UNCHANGED <<cand, tables, block>>
    BY <1>2 DEF Take
  <2>2. found = FirstDecoded(file, Strategies(file))
    BY <1>2, FoundIs
  <2>3. SearchType' /\ FileInv' /\ PlanInv' /\ BlockInv'
    BY <2>1 DEF SearchInv, SearchType, FileInv, PlanInv, BlockInv
  <2>4. SongInv'
    BY <1>2, <2>1, <2>2 DEF SearchInv, PlanInv, SongInv
  <2> QED  BY <2>3, <2>4 DEF SearchInv
<1> QED  BY <1>1, <1>2

\* The patterns and instruments of a candidate are read.
LEMMA TablesKeep ==
  ASSUME SearchInv, ReadTables
  PROVE  SearchInv'
<1>1. /\ stage = "layout" /\ cand <= Len(Candidates) /\ Head(plan) # "player"
      /\ UNCHANGED <<file, plan, song>>
  BY DEF ReadTables, Offered, Strict
<1>2. cand \in 1 .. Len(Candidates) /\ Len(Candidates) \in Nat
  BY <1>1, CandidatesAre DEF SearchInv, SearchType, AreLayouts
<1>3. Decoded(file, Head(plan), Layout)
        = Then(Tables(file, Layout), LAMBDA t : DecodedIn(file, Layout, t, Blocks(file, file.static, Layout, t.low)))
  BY <1>1 DEF Decoded
<1>4. CASE Tables(file, Layout) = None
  <2>1. Decoded(file, Head(plan), Layout) = None
    BY <1>3, <1>4 DEF Then
  <2>2. NextCandidate
    BY <1>4 DEF ReadTables
  <2> QED  BY <1>1, <1>2, <2>1, <2>2, NextKeeps
<1>5. CASE Tables(file, Layout) # None
  <2>1. stage' = "blocks" /\ tables' = Tables(file, Layout) /\ UNCHANGED <<cand, block>>
    BY <1>5 DEF ReadTables
  <2>2. DOMAIN Tables(file, Layout) = DOMAIN NoTables
    <3>1. \E insts, pats : Tables(file, Layout) = [insts |-> insts, pats |-> pats, low |-> LowestPattern(file.static, Layout)]
      BY <1>5 DEF Tables, Then
    <3> QED  BY <3>1 DEF NoTables
  <2>3. Candidates' = Candidates /\ Layout' = Layout /\ Strict' /\ block = 1
    BY <1>1, <2>1 DEF Candidates, Layout, Strict, SearchInv, SearchType
  <2>4. SearchType'
    BY <1>1, <2>1, <2>2 DEF SearchInv, SearchType
  <2>5. FileInv' /\ PlanInv' /\ SongInv'
    BY <1>1, <2>1, <2>3 DEF SearchInv, FileInv, PlanInv, SongInv
  <2>6. BlockInv'
    <3> DEFINE blocks == Blocks(file, file.static, Layout, Tables(file, Layout).low)
    <3>1. \A i \in 1 .. Len(blocks) : ~(i < 1)
      OBVIOUS
    <3> QED  BY <1>1, <1>2, <1>5, <2>1, <2>3, <3>1 DEF BlockInv
  <2> QED  BY <2>4, <2>5, <2>6 DEF SearchInv
<1> QED  BY <1>4, <1>5

\* A table of subtunes is tried.
LEMMA TryKeeps ==
  ASSUME SearchInv, TryBlock
  PROVE  SearchInv'
<1> DEFINE blocks == Blocks(file, file.static, Layout, tables.low)
           L(i) == Orderlists(file, file.static, Layout, blocks[i], tables.pats)
           s == Assemble(file, file.static, Layout, tables, blocks[block].base, blocks[block].subtunes, L(block))
<1>1. stage = "blocks" /\ UNCHANGED <<file, plan>> /\ IsFile(file) /\ plan \in Plans
  BY DEF TryBlock, SearchInv, PlanInv, FileInv
<1>2. /\ Head(plan) # "player" /\ cand \in 1 .. Len(Candidates)
      /\ tables = Tables(file, Layout) /\ Tables(file, Layout) # None
      /\ \A i \in 1 .. Len(blocks) : i < block => L(i) = None
  BY <1>1 DEF SearchInv, BlockInv, Strict
<1>3. Head(plan) \in Hows \ {"player"} /\ IsLayout(file, Head(plan), Layout)
  <2>1. AreLayouts(file, Head(plan), Candidates)
    BY <1>1, CandidatesAre
  <2>2. IsLayout(file, Head(plan), Candidates[cand])
    BY <1>2, <2>1 DEF AreLayouts
  <2> QED  BY <1>1, <1>2, <2>2, PlansAre DEF Layout
<1>4. AreBlocks(file, blocks)
  BY <1>1, <1>3, BlocksAre DEF SearchInv, PlanInv
<1>5. /\ \A i \in 1 .. Len(blocks) : (L(i) # None /\ \A j \in 1 .. i - 1 : L(j) = None)
            => Decoded(file, Head(plan), Layout)
                 = Assemble(file, file.static, Layout, tables, blocks[i].base, blocks[i].subtunes, L(i))
      /\ (\A i \in 1 .. Len(blocks) : L(i) = None) => Decoded(file, Head(plan), Layout) = None
  BY <1>2, <1>3, <1>4, BlockIs
<1>6. Len(blocks) \in Nat /\ block \in Nat /\ block # 0 /\ cand \in Nat
  BY <1>4 DEF AreBlocks, SearchInv, SearchType
<1>7. CASE block > Len(blocks)
  <2>1. \A i \in 1 .. Len(blocks) : i < block
    <3> HIDE DEF blocks
    <3> QED  BY <1>6, <1>7
  <2>2. Decoded(file, Head(plan), Layout) = None
    <3> HIDE DEF blocks, L
    <3> QED  BY <1>2, <1>5, <2>1
  <2>3. NextCandidate /\ UNCHANGED song
    BY <1>7 DEF TryBlock
  <2> QED  BY <1>1, <1>2, <2>2, <2>3, NextKeeps
<1>8. CASE ~(block > Len(blocks)) /\ L(block) = None
  <2>1. block' = block + 1 /\ UNCHANGED <<stage, cand, tables, song>>
    BY <1>8 DEF TryBlock
  <2>2. Candidates' = Candidates /\ Layout' = Layout /\ (Strict' <=> Strict)
    BY <1>1, <2>1 DEF Candidates, Layout, Strict
  <2>3. SearchType'
    BY <1>1, <1>6, <2>1 DEF SearchInv, SearchType
  <2>4. FileInv' /\ PlanInv' /\ SongInv'
    BY <1>1, <2>1, <2>2 DEF SearchInv, FileInv, PlanInv, SongInv
  <2>5. \A i \in 1 .. Len(blocks) : i < block + 1 => L(i) = None
    <3>1. \A i \in 1 .. Len(blocks) : i < block + 1 => i < block \/ i = block
      <4> HIDE DEF blocks
      <4> QED  BY <1>6
    <3> HIDE DEF blocks, L
    <3> QED  BY <1>2, <1>8, <3>1
  <2>6. BlockInv'
    <3>1. tables' = Tables(file', Layout') /\ tables' # None /\ Strict' /\ cand' \in 1 .. Len(Candidates')
      BY <1>1, <1>2, <2>1, <2>2 DEF Strict
    <3>2. blocks = Blocks(file', file'.static, Layout', tables'.low)
      BY <1>1, <2>1, <2>2
    <3> HIDE DEF blocks
    <3>3. \A i \in 1 .. Len(blocks) :
            i < block' => Orderlists(file', file'.static, Layout', blocks[i], tables'.pats) = None
      BY <1>1, <2>1, <2>2, <2>5
    <3> QED  BY <3>1, <3>2, <3>3 DEF BlockInv
  <2> QED  BY <2>3, <2>4, <2>5, <2>6 DEF SearchInv
<1>9. CASE ~(block > Len(blocks)) /\ L(block) # None
  <2>1. block \in 1 .. Len(blocks) /\ \A j \in 1 .. block - 1 : j \in 1 .. Len(blocks) /\ j < block
    <3> HIDE DEF blocks, L
    <3> QED  BY <1>6, <1>9
  <2>2. Decoded(file, Head(plan), Layout) = s
    <3> HIDE DEF blocks, L
    <3> QED  BY <1>2, <1>5, <1>9, <2>1 DEF s
  <2>3. Take(s)
    BY <1>9 DEF TryBlock
  <2>4. /\ blocks[block].seqs \in Nat /\ (HeaderCounts(file) => blocks[block].seqs # 0)
        /\ blocks[block].subtunes = SubtunesFor(file, blocks[block].seqs)
    <3> HIDE DEF blocks
    <3> QED  BY <1>4, <2>1 DEF AreBlocks
  <2>5. s # None => IsSong(file, s) /\ DOMAIN s = SongParts
    <3> DEFINE bl == blocks[block]
    <3> HIDE DEF blocks, bl
    <3>1. s = Assemble(file, file.static, Layout, tables, bl.base, bl.subtunes, L(block))
      BY DEF bl
    <3>2. L(block) = Orderlists(file, file.static, Layout, bl, tables.pats)
      BY DEF bl
    <3>3. bl.seqs \in Nat /\ (HeaderCounts(file) => bl.seqs # 0) /\ bl.subtunes = SubtunesFor(file, bl.seqs)
      BY <2>4 DEF bl
    <3> HIDE DEF L, s
    <3> QED  BY <1>1, <1>3, <1>9, <3>1, <3>2, <3>3, BlockSongIs
  <2> HIDE DEF s
  <2> QED  BY <1>1, <1>2, <2>2, <2>3, <2>5, TakeKeeps
<1> QED  BY <1>7, <1>8, <1>9

\* The player that was run is read.
LEMMA PlayedKeeps ==
  ASSUME SearchInv, ReadPlayed
  PROVE  SearchInv'
<1>1. stage = "layout" /\ cand <= Len(Candidates) /\ Head(plan) = "player" /\ UNCHANGED <<file, plan>>
  BY DEF ReadPlayed, Offered, Strict
<1>2. AreLayouts(file, "player", Candidates)
  BY <1>1, CandidatesAre
<1>3. cand \in 1 .. Len(Candidates)
  BY <1>1, <1>2 DEF SearchInv, SearchType, AreLayouts
<1>4. Candidates = PlayerLayouts(file)
  BY <1>1 DEF Candidates, Layouts
<1>5. Runs(file) /\ ~PlayerAborts(file) /\ Layout = PlayerLayout(file)
  <2>1. PlayerLayouts(file) # <<>>
    BY <1>3, <1>4
  <2>2. Runs(file) /\ ~PlayerAborts(file) /\ PlayerLayouts(file) = <<PlayerLayout(file)>>
    BY <2>1 DEF PlayerLayouts
  <2>3. cand = 1
    BY <1>3, <1>4, <2>2
  <2> QED  BY <1>4, <2>2, <2>3 DEF Layout
<1>6. Decoded(file, Head(plan), Layout) = PlayedSong(file, Layout)
  BY <1>1 DEF Decoded
<1>7. Take(PlayedSong(file, Layout))
  BY DEF ReadPlayed
<1>8. PlayedSong(file, Layout) # None
        => IsSong(file, PlayedSong(file, Layout)) /\ DOMAIN PlayedSong(file, Layout) = SongParts
  BY <1>5, PlayedSongIs DEF SearchInv, FileInv
<1> QED  BY <1>1, <1>3, <1>6, <1>7, <1>8, TakeKeeps

\* A strategy that has no more to offer.
LEMMA ExhaustedIs ==
  ASSUME SearchInv, stage = "layout", ~Offered
  PROVE  DecodedAmong(file, Head(plan), Layouts(file, Head(plan))) = None
<1>1. AreLayouts(file, Head(plan), Candidates)
  BY CandidatesAre
<1>2. \A i \in 1 .. Len(Candidates) : i < cand
  <2>1. Len(Candidates) \in Nat /\ cand \in Nat
    BY <1>1 DEF AreLayouts, SearchInv, SearchType
  <2>2. ~(cand <= Len(Candidates))
    BY DEF Offered
  <2> QED  BY <2>1, <2>2
<1>3. \A i \in 1 .. Len(Candidates) : Decoded(file, Head(plan), Candidates[i]) = None
  BY <1>2 DEF SearchInv, PlanInv
<1>4. DecodedAmong(file, Head(plan), Candidates) = None
  BY <1>1, <1>3, AmongIs
<1> QED  BY <1>4 DEF Candidates

\* The search is over: what it did not find is not there.
LEMMA NothingFound ==
  ASSUME SearchInv, stage = "layout", FirstDecoded(file, plan) = None,
         stage' = "done", UNCHANGED <<file, plan, cand, tables, block, song>>
  PROVE  SearchInv'
<1>1. AsContainer(file) = file /\ ~Refused(file) /\ FirstDecoded(file, Strategies(file)) = None /\ song = None
  BY DEF SearchInv, FileInv, PlanInv, SongInv
<1>2. Parsed(file) = None
  BY <1>1 DEF Parsed, ParsedContainer, Then
<1>3. SearchType' /\ FileInv' /\ PlanInv' /\ BlockInv'
  BY DEF SearchInv, SearchType, FileInv, PlanInv, BlockInv
<1>4. SongInv'
  BY <1>1, <1>2 DEF SongInv
<1> QED  BY <1>3, <1>4 DEF SearchInv

\* An init that fails ends the search.
LEMMA AbortKeeps ==
  ASSUME SearchInv, Abort
  PROVE  SearchInv'
<1>1. stage = "layout" /\ Head(plan) = "player" /\ PlayerAborts(file) /\ plan \in Plans
  BY DEF Abort, Aborts, SearchInv, PlanInv
<1>2. PlayerLayouts(file) = <<>>
  BY <1>1 DEF PlayerLayouts
<1>3. DecodedAmong(file, "player", <<>>) = None
  <2>1. Len(<<>>) = 0 /\ 1 .. 0 = {}
    OBVIOUS
  <2>2. AreLayouts(file, "player", <<>>)
    BY DEF AreLayouts
  <2> QED  BY <2>1, <2>2, AmongIs
<1>4. FirstDecoded(file, plan) = None
  <2>1. Len(plan) = 1
    BY <1>1, PlansAre
  <2>2. Layouts(file, Head(plan)) = <<>>
    BY <1>1, <1>2 DEF Layouts
  <2> QED  BY <1>1, <1>3, <2>1, <2>2, DecodedIs
<1> QED  BY <1>1, <1>4, NothingFound DEF Abort

\* A strategy that has no candidate left is given up.
LEMMA StrategyKeeps ==
  ASSUME SearchInv, NextStrategy
  PROVE  SearchInv'
<1>1. stage = "layout" /\ ~Offered /\ plan \in Plans /\ UNCHANGED <<file, tables, block, song>>
  BY DEF NextStrategy, NextStrategyFrom, SearchInv, PlanInv
<1>2. DecodedAmong(file, Head(plan), Layouts(file, Head(plan))) = None
  BY <1>1, ExhaustedIs
<1>3. CASE Len(plan) = 1
  <2>1. stage' = "done" /\ UNCHANGED <<plan, cand>>
    BY <1>3 DEF NextStrategy, NextStrategyFrom
  <2>2. FirstDecoded(file, plan) = None
    BY <1>1, <1>2, <1>3, DecodedIs
  <2> QED  BY <1>1, <2>1, <2>2, NothingFound
<1>4. CASE Len(plan) # 1
  <2>1. plan' = Tail(plan) /\ cand' = 1 /\ stage' = stage
    BY <1>4 DEF NextStrategy, NextStrategyFrom
  <2>2. Tail(plan) \in Plans /\ FirstDecoded(file, Tail(plan)) = FirstDecoded(file, plan)
    BY <1>1, <1>2, <1>4, DecodedIs
  <2>3. Head(Tail(plan)) # "swm" /\ Head(Tail(plan)) # "swp"
    BY <1>1, <2>2, PlansAre
  <2>4. SearchType'
    BY <1>1, <2>1, <2>2 DEF SearchInv, SearchType
  <2>5. FileInv' /\ BlockInv' /\ SongInv'
    BY <1>1, <2>1 DEF SearchInv, FileInv, BlockInv, SongInv
  <2>6. PlanInv'
    <3>1. \A i \in 1 .. Len(Candidates') : ~(i < 1)
      OBVIOUS
    <3> QED  BY <1>1, <2>1, <2>2, <2>3, <3>1 DEF SearchInv, PlanInv
  <2> QED  BY <2>4, <2>5, <2>6 DEF SearchInv
<1> QED  BY <1>3, <1>4

\* The played instruments of the song that was found are checked.
LEMMA CheckKeeps ==
  ASSUME SearchInv, CheckPlayed
  PROVE  SearchInv'
<1> DEFINE s == WithPlayer(file, song)
<1>1. /\ stage = "found" /\ stage' = "done" /\ song' = Checked(file, song)
      /\ UNCHANGED <<file, plan, cand, tables, block>>
  BY DEF CheckPlayed
<1>2. /\ AsContainer(file) = file /\ ~Refused(file) /\ song # None
      /\ song = FirstDecoded(file, Strategies(file)) /\ IsSong(file, song) /\ DOMAIN song = SongParts
  BY <1>1 DEF SearchInv, FileInv, SongInv
<1>3. Checked(file, song) = Parsed(file)
  BY <1>2 DEF Parsed, ParsedContainer, Then
<1>4. SongParts \subseteq DOMAIN s /\ s.seqs = song.seqs /\ s.pats = song.pats /\ s.insts = song.insts /\ s.tempos = song.tempos
  BY <1>2 DEF WithPlayer, SongParts
<1>5. Checked(file, song) # None => Checked(file, song) = s /\ PlayedSound(song)
  BY DEF Checked
<1> HIDE DEF s
<1>6. IsSong(file, s) /\ (PlayedSound(song) => PlayedSound(s))
  BY <1>2, <1>4 DEF IsSong, PlayedSound
<1>7. SearchType' /\ FileInv' /\ PlanInv' /\ BlockInv'
  BY <1>1 DEF SearchInv, SearchType, FileInv, PlanInv, BlockInv
<1>8. SongInv'
  BY <1>1, <1>3, <1>5, <1>6 DEF SongInv
<1> QED  BY <1>7, <1>8 DEF SearchInv

\* Every step of the search keeps the invariant.
LEMMA SearchKeeps ==
  ASSUME SearchInv, [Next]_vars
  PROVE  SearchInv'
<1>1. CASE Open
  <2>1. /\ stage = "stored" /\ stage' = "open" /\ file' = AsContainer(file)
        /\ UNCHANGED <<plan, cand, tables, block, song>>
    BY <1>1 DEF Open
  <2>2. SearchType' /\ PlanInv' /\ BlockInv' /\ SongInv'
    BY <2>1 DEF SearchInv, SearchType, PlanInv, BlockInv, SongInv
  <2>3. FileInv'
    BY <2>1, ContainerIs DEF SearchInv, FileInv
  <2> QED  BY <2>2, <2>3 DEF SearchInv
<1>2. CASE Refuse
  <2>1. /\ stage = "open" /\ Refused(file) /\ stage' = "done"
        /\ UNCHANGED <<file, plan, cand, tables, block, song>>
    BY <1>2 DEF Refuse
  <2>2. AsContainer(file) = file /\ song = None
    BY <2>1 DEF SearchInv, FileInv, SongInv
  <2>3. Parsed(file) = None
    BY <2>1, <2>2 DEF Parsed, ParsedContainer
  <2>4. SearchType' /\ FileInv' /\ PlanInv' /\ BlockInv' /\ SongInv'
    BY <2>1, <2>2, <2>3 DEF SearchInv, SearchType, FileInv, PlanInv, BlockInv, SongInv
  <2> QED  BY <2>4 DEF SearchInv
<1>3. CASE Begin
  <2>1. /\ stage = "open" /\ ~Refused(file) /\ stage' = "layout" /\ plan' = Strategies(file)
        /\ UNCHANGED <<file, cand, tables, block, song>>
    BY <1>3 DEF Begin
  <2>2. cand = 1 /\ block = 1
    BY <2>1 DEF SearchInv, SearchType
  <2>3. SearchType' /\ FileInv' /\ BlockInv' /\ SongInv'
    BY <2>1, <2>2, StrategiesAre DEF SearchInv, SearchType, FileInv, BlockInv, SongInv
  <2>4. PlanInv'
    <3>1. \A i \in 1 .. Len(Candidates') : ~(i < 1)
      OBVIOUS
    <3> QED  BY <2>1, <2>2, <3>1, StrategiesAre DEF PlanInv
  <2> QED  BY <2>3, <2>4 DEF SearchInv
<1>4. CASE UNCHANGED vars
  <2>1. /\ Candidates' = Candidates /\ Layout' = Layout /\ (Strict' <=> Strict)
    BY <1>4 DEF vars, Candidates, Layout, Strict
  <2>2. SearchType' /\ FileInv' /\ PlanInv' /\ BlockInv' /\ SongInv'
    BY <1>4, <2>1 DEF vars, SearchInv, SearchType, FileInv, PlanInv, BlockInv, SongInv
  <2> QED  BY <2>2 DEF SearchInv
<1> QED
  BY <1>1, <1>2, <1>3, <1>4, TablesKeep, TryKeeps, PlayedKeeps, AbortKeeps, StrategyKeeps, CheckKeeps
  DEF Next, Returned

\* The search starts in it.
LEMMA SearchStarts ==
  ASSUME Init
  PROVE  SearchInv
<1>1. IsFile(file)
  BY FilesAreFiles DEF Init
<1>2. SearchType /\ FileInv /\ PlanInv /\ BlockInv /\ SongInv
  BY <1>1 DEF Init, SearchType, FileInv, PlanInv, BlockInv, SongInv
<1> QED  BY <1>2 DEF SearchInv

\* The invariant says what the properties say.
LEMMA SearchSays ==
  ASSUME SearchInv
  PROVE  TypeOK /\ FindsFirst /\ Playable
<1>1. plan \in Seq({"swp", "swm", "codescan", "player"})
  <2>1. plan \in Plans \cup {<<>>}
    BY DEF SearchInv, SearchType
  <2>2. /\ <<"swp">> \in Seq({"swp", "swm", "codescan", "player"})
        /\ <<"player">> \in Seq({"swp", "swm", "codescan", "player"})
        /\ <<>> \in Seq({"swp", "swm", "codescan", "player"})
    OBVIOUS
  <2>3. <<"codescan", "player">> \in Seq({"swp", "swm", "codescan", "player"})
    OBVIOUS
  <2>4. <<"swm", "codescan", "player">> \in Seq({"swp", "swm", "codescan", "player"})
    OBVIOUS
  <2> QED  BY <2>1, <2>2, <2>3, <2>4 DEF Plans
<1>2. TypeOK
  BY <1>1 DEF TypeOK, SearchInv, SearchType, SongInv
<1>3. FindsFirst
  BY DEF FindsFirst, Done, SearchInv, SongInv
<1>4. Playable
  BY DEF Playable, Done, SearchInv, SongInv, IsSong, Ends
<1> QED  BY <1>2, <1>3, <1>4

-----------------------------------------------------------------------------
(* One song of a container.                                                 *)

IsMemory(m) == DOMAIN m = DOMAIN tune.static.mem /\ \A a \in DOMAIN m : m[a] \in 0 .. 255

EntryInv ==
  /\ IsFile(tune) /\ IsTune(tune) /\ want \in 0 .. Len(tune.inits) /\ pc \in Nat \ {0}
  /\ phase = "init" => stage = "stored" /\ want # 0
  /\ IsMemory(mem)
  /\ entry # None => entry.base \in DOMAIN tune.players /\ entry.swp \in Nat /\ IsMemory(entry.mem)

\* The part of a container's memory that one player has is a file.
LEMMA WindowIs ==
  ASSUME IsFile(tune), IsTune(tune), NEW m, IsMemory(m), NEW base \in DOMAIN tune.players, NEW swp \in Nat
  PROVE  /\ IsFile(Window(m, base, swp)) /\ Window(m, base, swp).sids = tune.sids
         /\ Window(m, base, swp).header = tune.players[base].header
<1> DEFINE packed == tune.swp # None /\ swp = tune.swp
           start == IF packed THEN Min({base, swp}) ELSE base
           above == {b \in DOMAIN tune.players : b > base /\ b > start}
           stop == IF above = {} THEN tune.static.hi ELSE Min(above)
           img == [lo |-> start - 126, hi |-> stop, code |-> tune.players[base].code,
                   mem |-> Restrict(m, start .. stop - 1)]
           w == Window(m, base, swp)
<1>1. /\ tune.load \in Nat /\ tune.static.hi \in Nat
      /\ DOMAIN tune.static.mem = tune.load .. tune.static.hi - 1
      /\ DOMAIN tune.players \subseteq DOMAIN tune.static.mem
  BY DEF IsFile, IsTune, IsImage
<1>2. \A a \in DOMAIN tune.static.mem : a \in Nat /\ tune.load <= a /\ a < tune.static.hi
  BY <1>1
<1>3. start \in DOMAIN tune.static.mem
  <2>1. CASE packed
    <3> DEFINE S == {base, swp}
    <3>1. S \subseteq DOMAIN tune.static.mem
      <4>1. tune.swp # None => tune.swp \in DOMAIN tune.static.mem
        BY DEF IsTune
      <4>2. swp \in DOMAIN tune.static.mem
        BY <2>1, <4>1
      <4>3. base \in DOMAIN tune.static.mem
        BY <1>1
      <4> HIDE DEF packed
      <4> QED  BY ONLY <4>2, <4>3
    <3>2. \A x \in S : x \in Int /\ x >= 0
      BY <1>2, <3>1
    <3>3. S # {} /\ 0 \in Int
      OBVIOUS
    <3> HIDE DEF S
    <3>4. Min(S) \in S
      BY <3>2, <3>3, LeastIs
    <3> QED  BY <2>1, <3>1, <3>4 DEF S
  <2>2. CASE ~packed
    BY <1>1, <2>2
  <2> QED  BY <2>1, <2>2
<1> HIDE DEF start
<1>4. stop \in Nat /\ stop <= tune.static.hi
  <2>1. \A x \in above : x \in Int /\ x >= 0
    BY <1>1, <1>2
  <2>2. above # {} => Min(above) \in above
    <3> HIDE DEF above
    <3>1. 0 \in Int
      OBVIOUS
    <3> QED  BY <2>1, <3>1, LeastIs
  <2>3. above # {} => Min(above) \in Nat /\ Min(above) < tune.static.hi
    BY <1>1, <1>2, <2>2
  <2> HIDE DEF above
  <2> QED  BY <1>1, <2>3
<1> HIDE DEF stop
<1>5. start .. stop - 1 \subseteq DOMAIN m
  <2>1. start \in Nat /\ tune.load <= start
    BY <1>2, <1>3
  <2>2. start .. stop - 1 \subseteq tune.load .. tune.static.hi - 1
    BY ONLY <1>1, <1>4, <2>1
  <2> QED  BY <1>1, <2>2 DEF IsMemory
<1>6. IsImage(img)
  <2>1. \A a \in start .. stop - 1 : m[a] \in 0 .. 255
    BY <1>5 DEF IsMemory
  <2>2. IsCode(tune.players[base].code)
    BY DEF IsTune
  <2>3. DOMAIN img.mem = start .. stop - 1 /\ \A a \in start .. stop - 1 : img.mem[a] = m[a]
    BY DEF Restrict
  <2> QED  BY <1>4, <2>1, <2>2, <2>3 DEF IsImage
<1>7. w = [tune EXCEPT !.load = start, !.entryAt = base, !.swp = IF packed THEN swp ELSE None,
             !.header = tune.players[base].header, !.exported = None,
             !.build = tune.players[base].build,
             !.players = Restrict(tune.players, (DOMAIN tune.players) \cap start .. stop - 1),
             !.static = img]
  BY DEF Window, start, stop
<1> HIDE DEF w, img
<1>8. /\ DOMAIN w = DOMAIN tune /\ w.load = start /\ w.swp \in {swp, None} /\ w.static = img
      /\ w.header = tune.players[base].header
      /\ \A part \in {"sids", "runs", "first", "last", "starter"} : w[part] = tune[part]
  BY <1>7 DEF IsFile
<1>9. \A h : IsHeader(tune, h) => IsHeader(w, h)
  <2>1. \A n : SubtunesFor(w, n) = SubtunesFor(tune, n)
    BY <1>8 DEF SubtunesFor, Channels
  <2> QED  BY <1>8, <2>1 DEF IsHeader
<1>10. start \in Nat
  BY <1>2, <1>3
<1>11. w.header # None => IsHeader(w, w.header)
  BY <1>8, <1>9 DEF IsTune
<1>12. IsFile(w)
  BY <1>6, <1>8, <1>10, <1>11 DEF IsFile
<1> QED  BY <1>8, <1>12 DEF w

\* A container that was opened stands for the file the search starts with.
LEMMA SongStarts ==
  ASSUME SongInit
  PROVE  SearchInv /\ EntryInv
<1>1. file \in Files /\ tune = AsContainer(file) /\ stage = "stored"
  BY DEF SongInit, Init
<1>2. IsFile(file) /\ IsFile(tune) /\ IsTune(tune) /\ tune.inits = file.inits
  BY <1>1, FilesAreFiles, ContainersAreTunes, ContainerIs
<1>3. IsMemory(mem)
  BY <1>2 DEF SongInit, IsMemory, IsFile, IsImage
<1> QED  BY <1>1, <1>2, <1>3, SearchStarts DEF SongInit, EntryInv

\* The search of the part that one song plays keeps the same invariant: the window is a file.
LEMMA SongKeeps ==
  ASSUME SearchInv, EntryInv, [SongNext]_songVars
  PROVE  SearchInv' /\ EntryInv'
<1> DEFINE step == Steps[pc]
<1>1. ASSUME NEW op, Running(op)
      PROVE  /\ phase = "init" /\ stage = "stored" /\ step.op = op /\ pc' = pc + 1 /\ pc' \in Nat \ {0}
             /\ step.to \in Nat
             /\ step.op = "patch" => step.to \in 0 .. 255
             /\ step.op = "enter" => step.at \in DOMAIN tune.players
  <2>1. phase = "init" /\ stage = "stored" /\ step.op = op /\ pc' = pc + 1 /\ pc <= Len(Steps)
    BY <1>1 DEF Running, EntryInv
  <2>2. want \in DOMAIN tune.inits
    <3>1. want \in 0 .. Len(tune.inits) /\ want # 0 /\ tune.inits \in Seq(Range(tune.inits))
      BY <2>1 DEF EntryInv, IsTune
    <3>2. Len(tune.inits) \in Nat /\ DOMAIN tune.inits = 1 .. Len(tune.inits)
      BY <3>1
    <3> QED  BY <3>1, <3>2
  <2>3. pc \in 1 .. Len(Steps)
    <3>1. pc \in Nat \ {0}
      BY DEF EntryInv
    <3> QED  BY <2>1, <3>1
  <2>4. /\ step.to \in Nat
        /\ step.op = "patch" => step.to \in 0 .. 255
        /\ step.op = "enter" => step.at \in DOMAIN tune.players
    BY <2>2, <2>3 DEF EntryInv, IsTune, Steps
  <2> QED  BY <2>1, <2>3, <2>4
<1>2. ASSUME UNCHANGED vars PROVE SearchInv'
  BY <1>2, SearchKeeps
<1>3. ASSUME UNCHANGED <<tune, want, phase, pc, mem, entry>>, stage' = stage PROVE EntryInv'
  BY <1>3 DEF EntryInv, IsMemory
<1>4. CASE Patch
  <2>1. /\ UNCHANGED <<vars, tune, want, phase, entry, stored, view>>
        /\ mem' = [mem EXCEPT ![step.at] = step.to]
    BY <1>4 DEF Patch
  <2>2. step.to \in 0 .. 255 /\ pc' \in Nat \ {0}
    BY <1>1, <1>4 DEF Patch
  <2> HIDE DEF step
  <2>3. IsMemory(mem)'
    BY <2>1, <2>2 DEF EntryInv, IsMemory
  <2>4. EntryInv'
    BY <2>1, <2>2, <2>3 DEF EntryInv, IsMemory, vars
  <2> QED  BY <1>2, <2>1, <2>4
<1>5. CASE Enter
  <2>1. /\ UNCHANGED <<vars, tune, want, phase, mem, stored, view>>
        /\ entry' = [base |-> step.at, swp |-> step.to, mem |-> mem]
    BY <1>5 DEF Enter
  <2>2. step.to \in Nat /\ step.at \in DOMAIN tune.players /\ pc' \in Nat \ {0}
    BY <1>1, <1>5 DEF Enter
  <2> HIDE DEF step
  <2>3. EntryInv'
    BY <2>1, <2>2 DEF EntryInv, IsMemory, vars
  <2> QED  BY <1>2, <2>1, <2>3
<1>6. CASE StoreSubtune
  <2>1. UNCHANGED <<vars, tune, want, phase, mem, entry, view>> /\ pc' \in Nat \ {0}
    BY <1>1, <1>6 DEF StoreSubtune
  <2>2. EntryInv'
    BY <2>1 DEF EntryInv, IsMemory, vars
  <2> QED  BY <1>2, <2>1, <2>2
<1>7. CASE Parse
  <2>1. /\ phase = "init" /\ UNCHANGED <<stage, plan, cand, tables, block, song, tune, want, pc, mem, entry>>
        /\ phase' \in {"parse", "returned"}
    BY <1>7 DEF Parse
  <2>2. stage = "stored"
    BY <2>1 DEF EntryInv
  <2>3. IsFile(file')
    <3>1. CASE file' = file
      BY <3>1 DEF SearchInv, FileInv
    <3>2. CASE file' = tune
      BY <3>2 DEF EntryInv
    <3>3. CASE ~WholeFile /\ file' = Window(entry.mem, entry.base, entry.swp)
      <4>1. entry # None
        BY <3>3 DEF WholeFile
      <4> QED  BY <3>3, <4>1, WindowIs DEF EntryInv
    <3> QED  BY <1>7, <3>1, <3>2, <3>3 DEF Parse
  <2>4. EntryInv'
    BY <2>1 DEF EntryInv, IsMemory
  <2>5. SearchType' /\ FileInv' /\ PlanInv' /\ BlockInv' /\ SongInv'
    BY <2>1, <2>2, <2>3 DEF SearchInv, SearchType, FileInv, PlanInv, BlockInv, SongInv
  <2> QED  BY <2>4, <2>5 DEF SearchInv
<1>8. CASE Search
  <2>1. SearchInv'
    BY <1>8, SearchKeeps DEF Search
  <2>2. EntryInv'
    BY <1>8 DEF Search, entryVars, EntryInv, IsMemory
  <2> QED  BY <2>1, <2>2
<1>9. CASE Select
  <2>1. UNCHANGED <<vars, tune, want, pc, mem, entry>> /\ phase' = "returned"
    BY <1>9 DEF Select
  <2>2. EntryInv'
    BY <2>1 DEF EntryInv, IsMemory, vars
  <2> QED  BY <1>2, <2>1, <2>2
<1>10. CASE UNCHANGED songVars
  <2>1. UNCHANGED vars /\ UNCHANGED <<tune, want, phase, pc, mem, entry>> /\ stage' = stage
    BY <1>10 DEF songVars, entryVars, vars
  <2> QED  BY <1>2, <1>3, <2>1
<1> QED
  BY <1>4, <1>5, <1>6, <1>7, <1>8, <1>9, <1>10 DEF SongNext, SongReturned

\* The invariant of the search, for a file and for a song of a container.
LEMMA SearchAlways ==
  (Spec => []SearchInv) /\ (SongSpec => [](SearchInv /\ EntryInv))
<1>1. Init => SearchInv
  BY SearchStarts
<1>2. SearchInv /\ [Next]_vars => SearchInv'
  BY SearchKeeps
<1>3. SongInit => SearchInv /\ EntryInv
  BY SongStarts
<1>4. (SearchInv /\ EntryInv) /\ [SongNext]_songVars => (SearchInv /\ EntryInv)'
  BY SongKeeps
<1>5. Spec => []SearchInv
  BY <1>1, <1>2, PTL DEF Spec
<1>6. SongSpec => [](SearchInv /\ EntryInv)
  BY <1>3, <1>4, PTL DEF SongSpec
<1> QED  BY <1>5, <1>6

-----------------------------------------------------------------------------

\* The variables of the search keep their types, for a file of its own and for the
\* part of a container that one song plays.
THEOREM SearchTypes == (Spec => []TypeOK) /\ (SongSpec => []TypeOK)
<1>1. SearchInv => TypeOK
  BY SearchSays
<1> QED  BY <1>1, SearchAlways, PTL

\* The search, strategy by strategy, candidate by candidate and table by table, ends
\* with the very song that trying everything in order would find, or with none where
\* there is none, init failed or the song was refused.
THEOREM SearchFindsFirst == (Spec => []FindsFirst) /\ (SongSpec => []FindsFirst)
<1>1. SearchInv => FindsFirst
  BY SearchSays
<1> QED  BY <1>1, SearchAlways, PTL

\* Whatever bytes a file holds, a song that is read from it can be played: its
\* orderlists play patterns it has and end inside their own bytes, each subtune has
\* its tempo pair, and the instruments that are played have tables that end.
THEOREM FoundIsPlayable == (Spec => []Playable) /\ (SongSpec => []Playable)
<1>1. SearchInv => Playable
  BY SearchSays
<1> QED  BY <1>1, SearchAlways, PTL

-----------------------------------------------------------------------------
(* The view of one song.                                                    *)

ViewInv ==
  /\ ViewWhole
  /\ view # None => phase = "returned"
  /\ HeadersCount(tune)
  /\ phase = "parse" => file.sids = tune.sids /\ HeaderCounts(file)
  /\ \A b \in DOMAIN stored : stored[b] \in Nat

\* One subtune of a song that can be played is a part of it that can be played.
LEMMA ViewIs ==
  ASSUME IsFile(tune), NEW s, NEW st \in Nat, SongParts \subseteq DOMAIN s,
         DOMAIN s.seqs = 1 .. Len(s.seqs), Len(s.seqs) \in Nat \ {0},
         Len(s.tempos) = SubtunesFor(tune, Len(s.seqs)), RefsResolve(s.seqs, s.pats), PlayedSound(s),
         st < SubtunesFor(tune, Len(s.seqs))
  PROVE  LET v == View(s, st)
         IN  /\ Len(v.seqs) \in 1 .. Channels(tune) /\ Len(v.tempos) = 1
             /\ RefsResolve(v.seqs, v.pats) /\ PlayedSound(v)
<1> DEFINE c == Channels(tune)
           n == Len(s.seqs)
           first == st * c
           S == {n, first + c}
           m == Min(S)
           q == SubSeq(s.seqs, first + 1, m)
           v == View(s, st)
<1>1. c \in {3, 6, 9} /\ n \in Nat /\ n # 0
  BY SizesAre
<1>2. st < (n - 1) \div c + 1
  BY <1>1 DEF SubtunesFor
<1>3. first \in Nat /\ first < n
  <2>1. \A x, y \in Nat : y # 0 => \A k \in {3, 6, 9} : x < (y - 1) \div k + 1 => x * k \in Nat /\ x * k < y
    OBVIOUS
  <2> HIDE DEF n, c
  <2> QED  BY <1>1, <1>2, <2>1
<1> HIDE DEF first
<1>4. m \in Nat /\ first < m /\ m <= n /\ m <= first + c
  <2> HIDE DEF n, c
  <2>1. \A x \in S : x \in Int /\ x >= 0
    BY <1>1, <1>3
  <2>2. S # {} /\ 0 \in Int
    OBVIOUS
  <2>3. m \in S /\ \A x \in S : m <= x
    <3> HIDE DEF S
    <3> QED  BY <2>1, <2>2, LeastIs
  <2>4. m <= n /\ m <= first + c /\ (m = n \/ m = first + c)
    BY <2>3
  <2> HIDE DEF m
  <2> QED  BY <1>1, <1>3, <2>4
<1> HIDE DEF m
<1>5. /\ DOMAIN q = 1 .. m - first /\ Len(q) = m - first
      /\ \A i \in 1 .. m - first : i + first \in 1 .. n /\ q[i] = s.seqs[i + first]
  <2>1. /\ first + 1 \in Int /\ m \in Int /\ first + 1 <= m /\ m - (first + 1) + 1 = m - first
        /\ \A i \in Nat : (first + 1) + i - 1 = i + first
    BY <1>3, <1>4
  <2>2. \A i \in first + 1 .. m : s.seqs[i] \in Range(s.seqs)
    <3>1. \A i \in first + 1 .. m : i \in 1 .. n
      <4> HIDE DEF n
      <4> QED  BY <1>1, <1>3, <1>4
    <3> QED  BY <3>1 DEF Range
  <2>3. /\ q \in Seq(Range(s.seqs)) /\ Len(q) = m - (first + 1) + 1
        /\ \A i \in 1 .. m - (first + 1) + 1 : q[i] = s.seqs[(first + 1) + i - 1]
    <3> DEFINE a == first + 1
               R == Range(s.seqs)
    <3>1. a \in Int /\ m \in Int /\ a <= m /\ \A i \in a .. m : s.seqs[i] \in R
      BY <2>1, <2>2
    <3>2. q = SubSeq(s.seqs, a, m)
      OBVIOUS
    <3> HIDE DEF a, R, q
    <3>3. /\ q \in Seq(R) /\ Len(q) = IF a <= m THEN m - a + 1 ELSE 0
          /\ \A i \in 1 .. m - a + 1 : q[i] = s.seqs[a + i - 1]
      BY <3>1, <3>2, SubSeqProperties
    <3> QED  BY <3>1, <3>3 DEF a, R
  <2>4. \A i \in 1 .. m - first : i + first \in 1 .. n /\ i \in Nat
    <3> HIDE DEF n
    <3> QED  BY <1>1, <1>3, <1>4
  <2> HIDE DEF q, n
  <2>5. DOMAIN q = 1 .. Len(q)
    BY <2>3
  <2>6. Len(q) = m - first /\ \A i \in 1 .. m - first : q[i] = s.seqs[i + first]
    BY <2>1, <2>3, <2>4
  <2> QED  BY <2>4, <2>5, <2>6
<1>6. /\ v.seqs = q /\ v.pats = s.pats /\ v.insts = s.insts
      /\ v.tempos = IF st < Len(s.tempos) THEN <<s.tempos[st + 1]>> ELSE <<>>
  BY DEF View, SongParts, first, m
<1>7. PlayedBy(q) \subseteq PlayedBy(s.seqs)
  <2>1. \A i \in DOMAIN q : \E k \in DOMAIN s.seqs : q[i] = s.seqs[k]
    BY <1>5
  <2> HIDE DEF q
  <2> QED  BY <2>1 DEF PlayedBy
<1>8. Len(q) \in 1 .. c
  <2> HIDE DEF q, c
  <2> QED  BY <1>1, <1>3, <1>4, <1>5
<1>9. Len(v.tempos) = 1
  <2> HIDE DEF v
  <2> QED  BY <1>6
<1>10. RefsResolve(v.seqs, v.pats) /\ PlayedSound(v)
  <2> HIDE DEF v, q
  <2> QED  BY <1>6, <1>7 DEF RefsResolve, PlayedSound
<1> QED  BY <1>6, <1>8, <1>9, <1>10

\* A view is only made of a song the search found, with the subtune that was set.
LEMMA ViewKeeps ==
  ASSUME SearchInv, EntryInv, ViewInv, [SongNext]_songVars
  PROVE  ViewInv'
<1>1. ASSUME UNCHANGED <<file, tune, phase, view>>, \A b \in DOMAIN stored' : stored'[b] \in Nat
      PROVE  ViewInv'
  <2>1. ViewWhole'
    BY <1>1 DEF ViewInv, ViewWhole
  <2> QED  BY <1>1, <2>1 DEF ViewInv, HeadersCount
<1>2. CASE Patch \/ Enter \/ UNCHANGED songVars
  <2>1. UNCHANGED <<file, tune, phase, view, stored>>
    BY <1>2 DEF Patch, Enter, songVars, vars, entryVars
  <2> QED  BY <1>1, <2>1 DEF ViewInv
<1>3. CASE StoreSubtune
  <2> DEFINE at == Steps[pc].at
             to == Steps[pc].to
  <2>1. UNCHANGED <<file, tune, phase, view>>
    BY <1>3 DEF StoreSubtune, vars
  <2>2. to \in Nat
    <3>1. want \in DOMAIN tune.inits
      <4>1. want \in 0 .. Len(tune.inits) /\ want # 0 /\ tune.inits \in Seq(Range(tune.inits))
        BY <1>3 DEF StoreSubtune, Running, EntryInv, IsTune
      <4>2. Len(tune.inits) \in Nat /\ DOMAIN tune.inits = 1 .. Len(tune.inits)
        BY <4>1
      <4> QED  BY <4>1, <4>2
    <3>2. pc \in 1 .. Len(Steps)
      <4>1. pc \in Nat \ {0} /\ pc <= Len(Steps)
        BY <1>3 DEF StoreSubtune, Running, EntryInv
      <4> QED  BY <4>1
    <3> QED  BY <3>1, <3>2 DEF EntryInv, IsTune, Steps
  <2>3. \/ stored' = stored
        \/ stored' = [b \in {at} \cup DOMAIN stored |-> IF b = at THEN to ELSE stored[b]]
    BY <1>3 DEF StoreSubtune
  <2> HIDE DEF at, to
  <2>4. \A b \in DOMAIN stored' : stored'[b] \in Nat
    BY <2>2, <2>3 DEF ViewInv
  <2> QED  BY <1>1, <2>1, <2>4
<1>4. CASE Parse
  <2>1. phase = "init" /\ UNCHANGED <<tune, stored, view>> /\ phase' \in {"parse", "returned"}
    BY <1>4 DEF Parse
  <2>2. view' = None
    BY <2>1 DEF ViewInv
  <2>3. phase' = "parse" => file'.sids = tune.sids /\ HeaderCounts(file')
    <3> SUFFICES ASSUME phase' = "parse" PROVE file'.sids = tune.sids /\ HeaderCounts(file')
      OBVIOUS
    <3>1. file' = IF WholeFile \/ Entered THEN tune ELSE Window(entry.mem, entry.base, entry.swp)
      BY <1>4 DEF Parse
    <3>2. CASE file' = tune
      BY <3>2 DEF ViewInv, HeadersCount
    <3>3. CASE file' # tune
      <4>1. entry # None /\ file' = Window(entry.mem, entry.base, entry.swp)
        BY <3>1, <3>3 DEF WholeFile
      <4>2. entry.base \in DOMAIN tune.players
        BY <4>1 DEF EntryInv
      <4>3. file'.sids = tune.sids /\ file'.header = tune.players[entry.base].header
        BY <4>1, <4>2, WindowIs DEF EntryInv
      <4> QED  BY <4>2, <4>3 DEF ViewInv, HeadersCount, HeaderCounts
    <3> QED  BY <3>2, <3>3
  <2> QED  BY <2>1, <2>2, <2>3 DEF ViewInv, ViewWhole, HeadersCount
<1>5. CASE Search
  <2>1. phase = "parse" /\ UNCHANGED entryVars /\ Next
    BY <1>5 DEF Search
  <2>2. file' = file \/ file' = AsContainer(file)
    BY <2>1 DEF Next, Open, Refuse, Begin, ReadTables, TryBlock, ReadPlayed, Abort, NextStrategy,
      NextStrategyFrom, CheckPlayed, Returned, vars
  <2>3. file'.sids = file.sids /\ file'.header = file.header
    BY <2>2, ContainerIs DEF SearchInv, FileInv
  <2>4. UNCHANGED <<tune, phase, view, stored>>
    BY <2>1 DEF entryVars
  <2> QED  BY <2>1, <2>3, <2>4 DEF ViewInv, ViewWhole, HeadersCount, HeaderCounts
<1>6. CASE Select
  <2> DEFINE s == [song EXCEPT !.insts = Patched]
  <2>1. /\ phase = "parse" /\ Done /\ want # 0 /\ phase' = "returned"
        /\ UNCHANGED <<tune, stored>>
        /\ view' = IF song = None THEN None ELSE SelectFrom(s)
    BY <1>6 DEF Select
  <2>2. CASE view' = None
    BY <2>1, <2>2 DEF ViewInv, ViewWhole, HeadersCount
  <2>3. CASE view' # None
    <3>1. song # None /\ view' = View(s, Subtune) /\ Subtune < SubtunesFor(tune, Len(s.seqs)) /\ PlayedSound(s)
      BY <2>1, <2>3 DEF SelectFrom
    <3>2. IsSong(file, song) /\ file.sids = tune.sids /\ HeaderCounts(file)
      BY <2>1, <3>1 DEF SearchInv, SongInv, ViewInv, Done
    <3>3. /\ SongParts \subseteq DOMAIN s /\ s.seqs = song.seqs /\ s.pats = song.pats /\ s.tempos = song.tempos
      BY <3>2 DEF IsSong, SongParts
    <3>4. \A n : SubtunesFor(file, n) = SubtunesFor(tune, n)
      BY <3>2 DEF SubtunesFor, Channels
    <3>5. Subtune \in Nat
      <4>1. CASE WholeFile
        <5>1. want \in Nat /\ want # 0
          BY <2>1 DEF EntryInv
        <5> QED  BY <4>1, <5>1 DEF Subtune
      <4>2. CASE ~WholeFile
        <5>1. Subtune = Set /\ Set # None
          BY <4>2 DEF Subtune, WholeFile
        <5>2. Block(tune) \in {8, 16, 32} /\ \A x \in Nat : \A d \in {8, 16, 32} : x \div d \in Nat
          <6>1. \A x \in Nat : \A d \in {8, 16, 32} : x \div d \in Nat
            OBVIOUS
          <6>2. Block(tune) \in {8, 16, 32}
            BY SizesAre DEF EntryInv
          <6> QED  BY ONLY <6>1, <6>2
        <5>3. CASE entry.base \in DOMAIN stored
          <6>1. stored[entry.base] \in Nat
            BY <5>3 DEF ViewInv
          <6> QED  BY <5>1, <5>2, <5>3, <6>1 DEF Set
        <5>4. CASE entry.base \notin DOMAIN stored
          BY <5>1, <5>4 DEF Set
        <5> QED  BY <5>3, <5>4
      <4> QED  BY <4>1, <4>2
    <3> DEFINE v == View(s, Subtune)
    <3> HIDE DEF s
    <3>6. /\ Len(v.seqs) \in 1 .. Channels(tune) /\ Len(v.tempos) = 1
          /\ RefsResolve(v.seqs, v.pats) /\ PlayedSound(v)
      <4>1. DOMAIN s.seqs = 1 .. Len(s.seqs) /\ Len(s.seqs) \in Nat \ {0}
        BY <3>2, <3>3 DEF IsSong
      <4>2. Len(s.tempos) = SubtunesFor(tune, Len(s.seqs)) /\ RefsResolve(s.seqs, s.pats)
        BY <3>2, <3>3, <3>4 DEF IsSong
      <4>3. IsFile(tune)
        BY DEF EntryInv
      <4> QED  BY <3>1, <3>3, <3>5, <4>1, <4>2, <4>3, ViewIs
    <3> HIDE DEF v
    <3>7. ViewWhole'
      <4>1. view' = v
        BY <3>1 DEF v
      <4>2. Channels(tune)' = Channels(tune)
        BY <2>1
      <4> QED  BY <3>6, <4>1, <4>2 DEF ViewWhole
    <3> QED  BY <2>1, <3>7 DEF ViewInv, HeadersCount
  <2> QED  BY <2>2, <2>3
<1> QED
  BY <1>2, <1>3, <1>4, <1>5, <1>6 DEF SongNext, SongReturned

\* Where every header counts orderlists, as those SID-Maker saves do, the view of one
\* song is one subtune and no more: an orderlist for each channel at most, one at
\* least, one tempo pair, and patterns and instruments that its orderlists resolve in.
THEOREM ViewIsWhole ==
  ASSUME \A f \in Files : HeadersCount(AsContainer(f))
  PROVE  SongSpec => []ViewWhole
<1>1. SongInit => SearchInv /\ EntryInv
  BY SongStarts
<1>2. SongInit => ViewInv
  <2> SUFFICES ASSUME SongInit PROVE ViewInv
    OBVIOUS
  <2>1. file \in Files /\ tune = AsContainer(file) /\ stored = <<>> /\ view = None
    BY DEF SongInit, Init
  <2>2. tune.sids = file.sids /\ tune.header = file.header
    BY <2>1, FilesAreFiles, ContainerIs
  <2>3. HeadersCount(tune)
    BY <2>1
  <2> QED  BY <2>1, <2>2, <2>3 DEF ViewInv, ViewWhole, HeadersCount, HeaderCounts
<1>3. (SearchInv /\ EntryInv /\ ViewInv) /\ [SongNext]_songVars => (SearchInv /\ EntryInv /\ ViewInv)'
  BY SongKeeps, ViewKeeps
<1>4. ViewInv => ViewWhole
  BY DEF ViewInv
<1> QED  BY <1>1, <1>2, <1>3, <1>4, PTL DEF SongSpec
=============================================================================
