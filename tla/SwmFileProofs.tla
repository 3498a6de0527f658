--------------------------- MODULE SwmFileProofs ---------------------------
(***************************************************************************)
(* Theorems about module files: what is written are bytes, the reader comes  *)
(* past every item where the writer began it, what it reads is the song, and *)
(* it refuses no file the writer has written.                               *)
(*                                                                          *)
(* The writer's bytes are the song's items one after the other (LaidOut),    *)
(* and the file holds them but for those at its start (Damaged).  The reader *)
(* is in step with the items (Synced) until it finishes, or until its walk   *)
(* over a packed body comes to where the file was cut off (Lost), from where *)
(* it cannot get past the orderlists.                                       *)
(***************************************************************************)
EXTENDS SwmFile, SongCodeProofs

-----------------------------------------------------------------------------
(* Sequences of whatever.                                                   *)

IsSeq(s) == \E S : s \in Seq(S)

\* The bytes of the two modules are the same.
LEMMA BytesAre == Bytes = Seq(Byte)
BY DEF Bytes, Byte

\* Two sequences that agree everywhere are one.
LEMMA SeqsEqual ==
  ASSUME NEW s, IsSeq(s), NEW t, IsSeq(t), Len(s) = Len(t), \A k \in 1 .. Len(s) : s[k] = t[k]
  PROVE  s = t
<1>1. PICK S : s \in Seq(S)
  BY DEF IsSeq
<1>2. PICK T : t \in Seq(T)
  BY DEF IsSeq
<1>3. s = [k \in 1 .. Len(s) |-> s[k]]
  BY <1>1
<1>4. t = [k \in 1 .. Len(t) |-> t[k]]
  BY <1>2
<1> QED  BY <1>3, <1>4

\* An item put before others.
LEMMA PrependIs ==
  ASSUME NEW s, IsSeq(s), NEW x
  PROVE  /\ IsSeq(Prepend(x, s)) /\ Len(Prepend(x, s)) = Len(s) + 1 /\ Len(s) \in Nat
         /\ Prepend(x, s)[1] = x
         /\ \A k \in 2 .. Len(s) + 1 : Prepend(x, s)[k] = s[k - 1]
<1>1. PICK S : s \in Seq(S)
  BY DEF IsSeq
<1> DEFINE T == S \cup {x}
           u == <<x>>
<1>2. s \in Seq(T) /\ u \in Seq(T) /\ Len(u) = 1 /\ u[1] = x /\ Len(s) \in Nat
  <2>1. s \in Seq(T)
    BY <1>1, SeqMonotonic
  <2> QED  BY <1>1, <2>1
<1>3. Prepend(x, s) = u \o s
  BY DEF Prepend
<1> HIDE DEF u, T
<1>4. /\ u \o s \in Seq(T) /\ Len(u \o s) = Len(u) + Len(s)
      /\ \A k \in 1 .. Len(u) + Len(s) : (u \o s)[k] = IF k <= Len(u) THEN u[k] ELSE s[k - Len(u)]
  BY <1>2, ConcatProperties
<1>5. \A k \in 2 .. Len(s) + 1 : k \in 1 .. Len(u) + Len(s) /\ ~(k <= Len(u)) /\ k - Len(u) = k - 1
  BY <1>2
<1>6. \A k \in 2 .. Len(s) + 1 : (u \o s)[k] = s[k - 1]
  BY <1>4, <1>5
<1>7. 1 \in 1 .. Len(u) + Len(s) /\ 1 <= Len(u)
  BY <1>2
<1>8. (u \o s)[1] = x
  BY <1>2, <1>4, <1>7
<1> QED  BY <1>2, <1>3, <1>4, <1>6, <1>8 DEF IsSeq

\* The last items of a sequence.
IsTail(s, t) ==
  /\ IsSeq(s) /\ Len(s) <= Len(t)
  /\ \A k \in 1 .. Len(s) : s[k] = t[Len(t) - Len(s) + k]

\* With the item before them they are the last ones still.
LEMMA TailGrows ==
  ASSUME NEW s, NEW t, IsTail(s, t), Len(t) \in Nat, Len(s) < Len(t)
  PROVE  IsTail(Prepend(t[Len(t) - Len(s)], s), t)
<1> DEFINE x == t[Len(t) - Len(s)]
           u == Prepend(x, s)
<1>1. IsSeq(s) /\ \A k \in 1 .. Len(s) : s[k] = t[Len(t) - Len(s) + k]
  BY DEF IsTail
<1>2. /\ IsSeq(u) /\ Len(u) = Len(s) + 1 /\ Len(s) \in Nat /\ u[1] = x
      /\ \A k \in 2 .. Len(s) + 1 : u[k] = s[k - 1]
  BY <1>1, PrependIs
<1> HIDE DEF u
<1>3. ASSUME NEW k \in 1 .. Len(u) PROVE u[k] = t[Len(t) - Len(u) + k]
  <2>1. CASE k = 1
    <3>1. Len(t) - Len(u) + k = Len(t) - Len(s)
      BY <1>2, <2>1
    <3> QED  BY <1>2, <2>1, <3>1
  <2>2. CASE k # 1
    <3>1. k \in 2 .. Len(s) + 1 /\ k - 1 \in 1 .. Len(s)
          /\ Len(t) - Len(s) + (k - 1) = Len(t) - Len(u) + k
      BY <1>2, <2>2
    <3> QED  BY <1>1, <1>2, <3>1
  <2> QED  BY <2>1, <2>2
<1>4. Len(u) <= Len(t)
  BY <1>2
<1>5. IsTail(u, t)
  BY <1>2, <1>3, <1>4 DEF IsTail
<1> QED  BY <1>5 DEF u

\* The last items of a sequence, as many as it has, are the sequence.
LEMMA WholeTail ==
  ASSUME NEW s, NEW t, IsTail(s, t), IsSeq(t), Len(s) = Len(t)
  PROVE  s = t
<1>1. PICK T : t \in Seq(T)
  BY DEF IsSeq
<1>2. Len(t) \in Nat
  BY <1>1
<1>3. \A k \in 1 .. Len(s) : Len(t) - Len(s) + k = k
  BY <1>2
<1>4. IsSeq(s) /\ \A k \in 1 .. Len(s) : s[k] = t[k]
  BY <1>3 DEF IsTail
<1> QED  BY <1>4, SeqsEqual

-----------------------------------------------------------------------------
(* The items of a file.                                                     *)

SequenceItem(cmds) == Append(EncodeSequence(cmds), Len(EncodeSequence(cmds)))

Packed(pattern) == Pack(EncodeRows(pattern.rows))
UnpackedSize(pattern) == IF pattern.slot THEN 0 ELSE Len(EncodeRows(pattern.rows)) + 1
PatternItem(pattern) == Packed(pattern) \o <<UnpackedSize(pattern), pattern.length>>

InstrumentItem(instrument) == instrument.body \o <<Len(instrument.body)>> \o instrument.name

\* What a song of the instance is made of.
LEMMA SongIs ==
  ASSUME NEW s \in Songs
  PROVE  /\ s.sequences \in Seq(Seq(Command)) /\ s.patterns \in Seq(Pattern)
         /\ s.instruments \in Seq(Instrument) /\ s.chords \in Bytes /\ s.tempos \in Bytes
         /\ s.subtunes \in Seq(Byte \X Byte)
         /\ \A q \in 1 .. Len(s.sequences) :
              s.sequences[q] \in Seq(Command) /\ EncodeSequence(s.sequences[q]) \in Bytes
         /\ \A q \in 1 .. Len(s.patterns) :
              /\ s.patterns[q] \in Pattern
              /\ s.patterns[q].slot => s.patterns[q].rows = <<>>
         /\ \A q \in 1 .. Len(s.instruments) : s.instruments[q] \in Instrument
<1>1. /\ s.sequences \in Seq(Seq(Command)) /\ s.patterns \in Seq(Pattern)
      /\ s.instruments \in Seq(Instrument) /\ s.chords \in Bytes /\ s.tempos \in Bytes
      /\ s.subtunes \in Seq(Byte \X Byte)
  BY SongsAssumption DEF StoredSong, Bytes, Byte
<1>2. ASSUME NEW q \in 1 .. Len(s.sequences)
      PROVE  s.sequences[q] \in Seq(Command) /\ EncodeSequence(s.sequences[q]) \in Bytes
  <2> DEFINE cmds == s.sequences[q]
             codes == [k \in DOMAIN cmds |-> EncodeCommand(cmds[k])]
  <2>1. cmds \in Seq(Command)
    BY <1>1, ElementOfSeq
  <2>2. q \in DOMAIN s.sequences
    BY <1>1
  <2>3. \A k \in DOMAIN cmds : EncodeCommand(cmds[k]) \in Bytes
    BY <2>2, SongsAssumption, BytesAre
  <2>4. DOMAIN cmds = 1 .. Len(cmds) /\ Len(cmds) \in Nat
    BY <2>1
  <2> HIDE DEF cmds
  <2>5. codes \in Seq(Bytes)
    BY <2>3, <2>4
  <2>6. FlattenSeq(codes) \in Bytes
    BY <2>5, FlattenType DEF Bytes
  <2>7. EncodeSequence(cmds) \in Bytes
    BY <2>6 DEF EncodeSequence
  <2> QED  BY <2>1, <2>7 DEF cmds
<1>3. ASSUME NEW q \in 1 .. Len(s.patterns)
      PROVE  s.patterns[q] \in Pattern /\ (s.patterns[q].slot => s.patterns[q].rows = <<>>)
  <2>1. q \in DOMAIN s.patterns
    BY <1>1
  <2>2. s.patterns[q] \in Pattern
    BY <1>1, ElementOfSeq
  <2> QED  BY <2>1, <2>2, SongsAssumption
<1>4. \A q \in 1 .. Len(s.instruments) : s.instruments[q] \in Instrument
  BY <1>1, ElementOfSeq
<1> QED  BY <1>1, <1>2, <1>3, <1>4

\* Bytes are numbers, and so are bytes and lengths.
LEMMA BytesAreNumbers ==
  ASSUME NEW b \in Bytes
  PROVE  b \in Seq(Nat) /\ Len(b) \in Nat
<1> DEFINE D == 0 .. 255
<1>1. D \subseteq Nat
  OBVIOUS
<1>2. b \in Seq(D)
  BY DEF Bytes
<1> HIDE DEF D
<1>3. b \in Seq(Nat)
  BY <1>1, <1>2, SeqMonotonic
<1> QED  BY <1>3

\* An orderlist's item: its bytes and how many they are.
LEMMA SequenceItemIs ==
  ASSUME NEW cmds, EncodeSequence(cmds) \in Bytes
  PROVE  LET b == EncodeSequence(cmds)
             item == SequenceItem(cmds)
         IN  /\ item \in Seq(Nat) /\ Len(b) \in Nat /\ Len(item) = Len(b) + 1
             /\ \A k \in 1 .. Len(b) : item[k] = b[k]
             /\ item[Len(b) + 1] = Len(b)
<1> DEFINE b == EncodeSequence(cmds)
<1>1. b \in Seq(Nat) /\ Len(b) \in Nat
  BY BytesAreNumbers
<1> HIDE DEF b
<1>2. b \o <<Len(b)>> = Append(b, Len(b))
  BY <1>1
<1>3. /\ b \o <<Len(b)>> \in Seq(Nat) /\ Len(b \o <<Len(b)>>) = Len(b) + 1
      /\ \A k \in 1 .. Len(b) : (b \o <<Len(b)>>)[k] = b[k]
      /\ (b \o <<Len(b)>>)[Len(b) + 1] = Len(b)
  BY <1>1, OneMore
<1>4. SequenceItem(cmds) = b \o <<Len(b)>>
  BY <1>2 DEF SequenceItem, b
<1> QED  BY <1>1, <1>3, <1>4 DEF b

\* A pattern's: its packed bytes, the size of the unpacked ones and its length.
LEMMA PatternItemIs ==
  ASSUME NEW pattern \in Pattern
  PROVE  LET b == Packed(pattern)
             item == PatternItem(pattern)
         IN  /\ EncodeRows(pattern.rows) \in Bytes /\ b \in Bytes
             /\ pattern.rows \in Seq(Row) /\ pattern.length \in Byte /\ pattern.slot \in BOOLEAN
             /\ UnpackedSize(pattern) \in Nat
             /\ item \in Seq(Nat) /\ Len(b) \in Nat /\ Len(item) = Len(b) + 2
             /\ \A k \in 1 .. Len(b) : item[k] = b[k]
             /\ item[Len(b) + 1] = UnpackedSize(pattern)
             /\ item[Len(b) + 2] = pattern.length
<1>1. pattern.rows \in Seq(Row) /\ pattern.length \in Byte /\ pattern.slot \in BOOLEAN
  BY DEF Pattern
<1>2. EncodeRows(pattern.rows) \in Bytes
  BY <1>1, OffNext
<1>3. Packed(pattern) \in Bytes
  <2>1. 1 \in 1 .. Len(EncodeRows(pattern.rows)) + 1
    BY <1>2, BytesAreNumbers
  <2> QED  BY <1>2, <2>1, PackIs, PackType DEF Packed
<1> DEFINE b == Packed(pattern)
           x == UnpackedSize(pattern)
           y == pattern.length
           t == <<x, y>>
<1>4. b \in Seq(Nat) /\ Len(b) \in Nat
  BY <1>3, BytesAreNumbers
<1>5. x \in Nat /\ y \in Nat
  <2>1. Len(EncodeRows(pattern.rows)) \in Nat
    BY <1>2, BytesAreNumbers
  <2>2. x \in Nat
    BY <2>1 DEF UnpackedSize
  <2>3. \A v \in Byte : v \in Nat
    BY DEF Byte
  <2>4. y \in Nat
    BY <1>1, <2>3
  <2> QED  BY <2>2, <2>4
<1> HIDE DEF b, x, y
<1>6. t \in Seq(Nat) /\ Len(t) = 2 /\ t[1] = x /\ t[2] = y
  BY <1>5
<1> HIDE DEF t
<1>7. /\ b \o t \in Seq(Nat) /\ Len(b \o t) = Len(b) + Len(t)
      /\ \A k \in 1 .. Len(b) + Len(t) : (b \o t)[k] = IF k <= Len(b) THEN b[k] ELSE t[k - Len(b)]
  BY <1>4, <1>6, ConcatProperties
<1>8. /\ Len(b) + 1 \in 1 .. Len(b) + Len(t) /\ ~(Len(b) + 1 <= Len(b)) /\ (Len(b) + 1) - Len(b) = 1
      /\ Len(b) + 2 \in 1 .. Len(b) + Len(t) /\ ~(Len(b) + 2 <= Len(b)) /\ (Len(b) + 2) - Len(b) = 2
      /\ \A k \in 1 .. Len(b) : k \in 1 .. Len(b) + Len(t) /\ k <= Len(b)
  BY <1>4, <1>6
<1>9. /\ (b \o t)[Len(b) + 1] = x /\ (b \o t)[Len(b) + 2] = y
      /\ \A k \in 1 .. Len(b) : (b \o t)[k] = b[k]
  BY <1>6, <1>7, <1>8
<1>10. PatternItem(pattern) = b \o t
  BY DEF PatternItem, b, t, x, y
<1> QED  BY <1>1, <1>2, <1>3, <1>4, <1>5, <1>6, <1>7, <1>9, <1>10 DEF b, x, y

\* An instrument's: its body, how long that is, and the name.
LEMMA InstrumentItemIs ==
  ASSUME NEW instrument \in Instrument
  PROVE  LET b == instrument.body
             n == instrument.name
             item == InstrumentItem(instrument)
         IN  /\ b \in Bytes /\ n \in Bytes /\ Len(n) = NameLen /\ NameLen \in Nat
             /\ item \in Seq(Nat) /\ Len(b) \in Nat /\ Len(item) = Len(b) + 1 + NameLen
             /\ \A k \in 1 .. Len(b) : item[k] = b[k]
             /\ item[Len(b) + 1] = Len(b)
             /\ \A k \in 1 .. NameLen : item[Len(b) + 1 + k] = n[k]
<1> DEFINE b == instrument.body
           n == instrument.name
           h == b \o <<Len(b)>>
<1>0. NameLen \in Nat
  BY FormatAssumption
<1>1. b \in Bytes /\ n \in [1 .. NameLen -> 0 .. 255]
  BY DEF Instrument, Bytes, Byte
<1>2. b \in Seq(Nat) /\ Len(b) \in Nat
  BY <1>1, BytesAreNumbers
<1>3. n \in Bytes /\ Len(n) = NameLen
  BY <1>0, <1>1 DEF Bytes
<1>4. n \in Seq(Nat)
  BY <1>3, BytesAreNumbers
<1> HIDE DEF b, n
<1>5. /\ h \in Seq(Nat) /\ Len(h) = Len(b) + 1
      /\ \A k \in 1 .. Len(b) : h[k] = b[k]
      /\ h[Len(b) + 1] = Len(b)
  BY <1>2, OneMore
<1> HIDE DEF h
<1>6. /\ Len(h \o n) = Len(h) + Len(n)
      /\ \A k \in 1 .. Len(h) : (h \o n)[k] = h[k]
      /\ \A k \in 1 .. Len(n) : (h \o n)[Len(h) + k] = n[k]
      /\ h \o n \in Seq(Nat)
  <2>1. h \in Seq(Nat)
    BY <1>5
  <2>2. h \o n \in Seq(Nat)
    BY <1>4, <2>1
  <2> QED  BY <1>4, <2>1, <2>2, ConcatAt
<1>7. \A k \in 1 .. Len(b) : k \in 1 .. Len(h)
  BY <1>2, <1>5
<1>8. Len(b) + 1 \in 1 .. Len(h)
  BY <1>2, <1>5
<1>9. InstrumentItem(instrument) = h \o n
  BY DEF InstrumentItem, h, b, n
<1>10. \A k \in 1 .. Len(b) : (h \o n)[k] = b[k]
  BY <1>5, <1>6, <1>7
<1>11. (h \o n)[Len(b) + 1] = Len(b)
  BY <1>5, <1>6, <1>8
<1>12. \A k \in 1 .. NameLen : (h \o n)[Len(b) + 1 + k] = n[k]
  BY <1>3, <1>5, <1>6
<1>13. Len(h \o n) = Len(b) + 1 + NameLen
  BY <1>3, <1>5, <1>6
<1> QED  BY <1>0, <1>1, <1>2, <1>3, <1>6, <1>9, <1>10, <1>11, <1>12, <1>13 DEF b, n

-----------------------------------------------------------------------------
(* An orderlist with bytes behind its end.                                  *)

\* The bytes of an orderlist: those of its commands up to the end, and one for
\* each that follows.
LEMMA OrderlistBytes ==
  ASSUME NEW cmds \in Seq(Command), EncodeSequence(cmds) \in Bytes, NEW e \in 1 .. Len(cmds),
         AllPlain(SubSeq(cmds, 1, e)),
         \A k \in e + 1 .. Len(cmds) : cmds[k].op = "raw" /\ cmds[k].arg \in Byte
  PROVE  LET b == EncodeSequence(cmds)
             h == EncodeSequence(SubSeq(cmds, 1, e))
         IN  /\ h \in Bytes /\ Len(h) <= Len(b) /\ \A k \in 1 .. Len(h) : b[k] = h[k]
             /\ Len(b) = Len(h) + Len(cmds) - e
             /\ \A k \in 1 .. Len(cmds) - e : b[Len(h) + k] = cmds[e + k].arg
<1> DEFINE b == EncodeSequence(cmds)
           head == SubSeq(cmds, 1, e)
           h == EncodeSequence(head)
           m == Len(cmds)
           cc == CommandCodes(cmds)
           S == {n \in Nat : n <= m - e => Len(Upto(cc, e + n)) = Len(h) + n}
<1>1. m \in Nat /\ e \in Nat /\ e <= m /\ \A k \in 1 .. m : cmds[k] \in Command
  OBVIOUS
<1>2. head \in Seq(Command) /\ Len(head) = e /\ \A k \in 1 .. e : head[k] = cmds[k]
  OBVIOUS
<1>3. h \in Bytes /\ Len(h) \in Nat
  <2>1. h \in Bytes
    BY <1>2, CommandAt
  <2> QED  BY <2>1, BytesAreNumbers
<1>4. \A k \in 1 .. m : EncodeCommand(cmds[k]) \in Bytes
  <2>1. ASSUME NEW k \in 1 .. m, k <= e PROVE EncodeCommand(cmds[k]) \in Bytes
    <3>0. k \in 1 .. e /\ DOMAIN head = 1 .. e
      BY <1>1, <1>2, <2>1
    <3> HIDE DEF head
    <3>1. PlainCommand(cmds[k])
      BY <1>2, <3>0 DEF AllPlain, head
    <3> QED  BY <1>1, <3>1, CommandBytes
  <2>2. ASSUME NEW k \in 1 .. m, ~(k <= e) PROVE EncodeCommand(cmds[k]) \in Bytes
    <3>1. cmds[k].op = "raw" /\ cmds[k].arg \in 0 .. 255
      BY <1>1, <2>2 DEF Byte
    <3>2. EncodeCommand(cmds[k]) = <<cmds[k].arg>>
      BY <3>1 DEF EncodeCommand
    <3> QED  BY <3>1, <3>2 DEF Bytes
  <2> QED  BY <2>1, <2>2
<1>5. cc \in Seq(Bytes) /\ Len(cc) = m /\ \A k \in 1 .. m : cc[k] = EncodeCommand(cmds[k])
  BY <1>1, <1>4 DEF CommandCodes
<1>6. b = FlattenSeq(cc)
  BY DEF EncodeSequence, CommandCodes
<1>7. SubSeq(cc, 1, e) = CommandCodes(head)
  <2>1. SubSeq(cc, 1, e) = [k \in 1 .. e |-> cc[k]]
    BY <1>1, <1>5
  <2>2. CommandCodes(head) = [k \in 1 .. e |-> EncodeCommand(head[k])]
    BY <1>2 DEF CommandCodes
  <2>3. \A k \in 1 .. e : k \in 1 .. m
    BY <1>1
  <2> QED  BY <1>2, <1>5, <2>1, <2>2, <2>3
<1>8. Upto(cc, e) = h
  BY <1>7 DEF Upto, EncodeSequence, CommandCodes
<1> HIDE DEF b, h, head, cc
<1>9. cc \in Seq(Seq(0 .. 255))
  BY <1>5 DEF Bytes
<1>10. Len(h) <= Len(b) /\ \A k \in 1 .. Len(h) : b[k] = h[k]
  <2>1. e \in 0 .. Len(cc)
    BY <1>1, <1>5
  <2> QED  BY <1>6, <1>8, <1>9, <2>1, UptoPrefix
<1>11. ASSUME NEW k \in e .. m - 1
       PROVE  /\ Len(Upto(cc, k + 1)) = Len(Upto(cc, k)) + 1
              /\ b[Len(Upto(cc, k)) + 1] = cmds[k + 1].arg
  <2>1. k \in 0 .. Len(cc) - 1 /\ k + 1 \in e + 1 .. m /\ k + 1 \in 1 .. m
    BY <1>1, <1>5
  <2>2. cc[k + 1] = <<cmds[k + 1].arg>>
    <3>1. EncodeCommand(cmds[k + 1]) = <<cmds[k + 1].arg>>
      BY <2>1 DEF EncodeCommand
    <3> QED  BY <1>5, <2>1, <3>1
  <2>3. Len(cc[k + 1]) = 1 /\ 1 \in 1 .. Len(cc[k + 1]) /\ cc[k + 1][1] = cmds[k + 1].arg
    BY <2>2
  <2>4. /\ Len(Upto(cc, k + 1)) = Len(Upto(cc, k)) + Len(cc[k + 1])
        /\ \A i \in 1 .. Len(cc[k + 1]) : FlattenSeq(cc)[Len(Upto(cc, k)) + i] = cc[k + 1][i]
    BY <1>9, <2>1, UptoAt
  <2> QED  BY <1>6, <2>3, <2>4
<1>12. 0 \in S
  <2>1. e + 0 = e
    BY <1>1
  <2> QED  BY <1>3, <1>8, <2>1
<1>13. ASSUME NEW n \in Nat, n \in S PROVE n + 1 \in S
  <2> SUFFICES ASSUME n + 1 <= m - e PROVE Len(Upto(cc, e + (n + 1))) = Len(h) + (n + 1)
    OBVIOUS
  <2>1. e + n \in e .. m - 1 /\ e + (n + 1) = (e + n) + 1 /\ n <= m - e
    BY <1>1
  <2>2. Len(Upto(cc, e + n)) = Len(h) + n
    BY <1>13, <2>1
  <2>3. Len(Upto(cc, (e + n) + 1)) = Len(Upto(cc, e + n)) + 1
    BY <1>11, <2>1
  <2>4. (Len(h) + n) + 1 = Len(h) + (n + 1)
    BY <1>3
  <2> QED  BY <2>1, <2>2, <2>3, <2>4
<1> HIDE DEF S
<1>14. \A n \in Nat : n \in S
  BY <1>12, <1>13, SetInduction
<1>15. \A n \in 0 .. m - e : Len(Upto(cc, e + n)) = Len(h) + n
  BY <1>14 DEF S
<1>16. Len(b) = Len(h) + m - e
  <2>1. m - e \in 0 .. m - e /\ e + (m - e) = Len(cc)
    BY <1>1, <1>5
  <2>2. Len(Upto(cc, Len(cc))) = Len(h) + (m - e)
    BY <1>15, <2>1
  <2>3. Upto(cc, Len(cc)) = b
    BY <1>6, <1>9, UptoNext
  <2> QED  BY <1>1, <1>3, <2>2, <2>3
<1>17. ASSUME NEW k \in 1 .. m - e PROVE b[Len(h) + k] = cmds[e + k].arg
  <2>1. /\ e + (k - 1) \in e .. m - 1 /\ k - 1 \in 0 .. m - e /\ (e + (k - 1)) + 1 = e + k
        /\ (Len(h) + (k - 1)) + 1 = Len(h) + k
    BY <1>1, <1>3
  <2>2. Len(Upto(cc, e + (k - 1))) = Len(h) + (k - 1)
    BY <1>15, <2>1
  <2>3. b[Len(Upto(cc, e + (k - 1))) + 1] = cmds[(e + (k - 1)) + 1].arg
    BY <1>11, <2>1
  <2> QED  BY <2>1, <2>2, <2>3
<1> QED  BY <1>3, <1>10, <1>16, <1>17 DEF b, h, head, m

\* Whole numbers from zero on have a least one.
LEMMA LeastMember ==
  ASSUME NEW S, S # {}, \A x \in S : x \in Int /\ x >= 0
  PROVE  \E x \in S : \A y \in S : x <= y
<1> DEFINE R == {ss \in Nat \X Nat : ss[1] < ss[2]}
<1>1. IsWellFoundedOn(R, Nat)
  BY NatLessThanWellFounded DEF OpToRel
<1> HIDE DEF R
<1>2. S \subseteq Nat
  OBVIOUS
<1>3. PICK x \in S : \A y \in S : ~(<<y, x>> \in R)
  BY <1>1, <1>2, WFMin
<1>4. \A y \in S : ~(y < x)
  BY <1>2, <1>3 DEF R
<1>5. \A y \in S : x <= y
  BY <1>2, <1>4
<1> QED  BY <1>5

\* A command that does not end an orderlist is one byte below the ends'.
LEMMA PlainByte ==
  ASSUME NEW c \in Command, PlainCommand(c), ~Ending(c)
  PROVE  EncodeCommand(c)[1] \in 0 .. 253
<1>1. c.op \in {"play", "transpose", "volume", "tempo", "raw"}
  BY DEF Command, Ops, Ending
<1> DEFINE x == EncodeCommand(c)[1]
           a == c.arg
<1>2. CASE c.op = "play"
  <2>1. x = a /\ a \in 0 .. 127
    BY <1>2, CommandBytes
  <2> QED  BY <2>1
<1>3. CASE c.op = "transpose"
  <2>1. x = 144 + a /\ a \in -16 .. 15
    BY <1>3, CommandBytes
  <2> HIDE DEF x, a
  <2>2. x \in 0 .. 253
    BY <2>1
  <2> QED  BY <2>2 DEF x
<1>4. CASE c.op = "volume"
  <2>1. x = 160 + a /\ a \in 0 .. 15
    BY <1>4, CommandBytes
  <2> HIDE DEF x, a
  <2>2. x \in 0 .. 253
    BY <2>1
  <2> QED  BY <2>2 DEF x
<1>5. CASE c.op = "tempo"
  <2>1. x = 176 + a /\ a \in 0 .. 63
    BY <1>5, CommandBytes
  <2> HIDE DEF x, a
  <2>2. x \in 0 .. 253
    BY <2>1
  <2> QED  BY <2>2 DEF x
<1>6. CASE c.op = "raw"
  <2>1. x = a /\ a \in 240 .. 253
    BY <1>6, CommandBytes
  <2> QED  BY <2>1
<1> QED  BY <1>1, <1>2, <1>3, <1>4, <1>5, <1>6

\* The ends' bytes are the greatest.
LEMMA BelowTheEnds ==
  /\ \A x \in 0 .. 253 : x < 254
  /\ \A x \in 0 .. 255 : ~(x < 254 /\ x >= 254)
OBVIOUS

\* The parser finds the commands again.
LEMMA SequenceReadBack ==
  ASSUME NEW cmds \in Seq(Command), EncodeSequence(cmds) \in Bytes, PlainOrder(cmds),
         \E k \in DOMAIN cmds : Ending(cmds[k])
  PROVE  ParseSequence(EncodeSequence(cmds)) = cmds
<1> DEFINE Ends == {k \in 1 .. Len(cmds) : Ending(cmds[k])}
<1>1. Len(cmds) \in Nat /\ DOMAIN cmds = 1 .. Len(cmds) /\ \A k \in 1 .. Len(cmds) : cmds[k] \in Command
  BY ElementOfSeq
<1>2. PICK e \in Ends : \A k \in Ends : e <= k
  <2>1. Ends # {} /\ \A k \in Ends : k \in Int /\ k >= 0
    BY <1>1
  <2> HIDE DEF Ends
  <2> QED  BY <2>1, LeastMember
<1>3. /\ e \in 1 .. Len(cmds) /\ e \in Nat /\ Ending(cmds[e])
      /\ \A k \in 1 .. e - 1 : k \in 1 .. Len(cmds) /\ ~Ending(cmds[k])
  BY <1>1, <1>2
<1> HIDE DEF Ends
<1> DEFINE b == EncodeSequence(cmds)
           head == SubSeq(cmds, 1, e)
           h == EncodeSequence(head)
           n == Len(h)
           m == Len(cmds)
<1>4. head \in Seq(Command) /\ Len(head) = e /\ (\A k \in 1 .. e : head[k] = cmds[k]) /\ DOMAIN head = 1 .. e
  BY <1>1, <1>3
<1> HIDE DEF head
<1>5. ASSUME NEW k \in 1 .. e PROVE PlainCommand(cmds[k])
  <2>1. k \in DOMAIN cmds /\ \A i \in 1 .. k - 1 : i \in 1 .. e - 1
    BY <1>1, <1>3
  <2>2. ~\E i \in 1 .. k - 1 : Ending(cmds[i])
    BY <1>3, <2>1
  <2> QED  BY <2>1, <2>2 DEF PlainOrder
<1>6. AllPlain(head)
  BY <1>4, <1>5 DEF AllPlain
<1>7. ASSUME NEW k \in e + 1 .. m PROVE cmds[k].op = "raw" /\ cmds[k].arg \in Byte
  <2>1. k \in DOMAIN cmds /\ e \in 1 .. k - 1
    BY <1>1, <1>3
  <2> QED  BY <1>3, <2>1 DEF PlainOrder
<1>8. /\ h \in Bytes /\ Len(h) <= Len(b) /\ \A k \in 1 .. Len(h) : b[k] = h[k]
      /\ Len(b) = Len(h) + Len(cmds) - e
      /\ \A k \in 1 .. Len(cmds) - e : b[Len(h) + k] = cmds[e + k].arg
  BY <1>3, <1>6, <1>7, OrderlistBytes DEF head
<1>9. b \in Bytes /\ Len(b) \in Nat /\ n \in Nat
  BY <1>8, BytesAreNumbers
<1>10. /\ \A k \in 1 .. e : /\ k <= n /\ head[k] \in Command /\ PlainCommand(head[k])
                            /\ h[k] = EncodeCommand(head[k])[1]
       /\ n = e - 1 + CommandLen(head[e])
  <2>1. e \in 1 .. Len(head) /\ \A k \in 1 .. e - 1 : head[k].op \notin {"end", "loop", "jump"}
    <3>1. \A k \in 1 .. e - 1 : k \in 1 .. e
      BY <1>3
    <3> QED  BY <1>3, <1>4, <3>1 DEF Ending
  <2> QED  BY <1>4, <1>6, <2>1, OrderBytes
<1>11. ASSUME NEW k \in 1 .. e - 1 PROVE b[k] < 254
  <2>1. k \in 1 .. e /\ k \in 1 .. n
    BY <1>3, <1>9, <1>10
  <2>2. head[k] \in Command /\ PlainCommand(head[k]) /\ b[k] = EncodeCommand(head[k])[1]
    BY <1>8, <1>10, <2>1
  <2>3. head[k].op \in Ops \ {"end", "loop", "jump"}
    <3>1. head[k] = cmds[k] /\ ~Ending(cmds[k])
      BY <1>3, <1>4, <2>1
    <3>2. head[k].op \in Ops
      BY <2>2 DEF Command
    <3> QED  BY <3>1, <3>2 DEF Ending
  <2>4. EncodeCommand(head[k])[1] \in 0 .. 253
    BY <2>2, <2>3, PlainByte DEF Ending
  <2> HIDE DEF b
  <2>5. b[k] \in 0 .. 253
    BY <2>2, <2>4
  <2> QED  BY <2>5, BelowTheEnds
<1>12. b[e] = (IF cmds[e].op = "end" THEN 254 ELSE 255) /\ n = (IF b[e] = 255 THEN e + 1 ELSE e)
  <2>1. e \in 1 .. e /\ e \in 1 .. n
    BY <1>3, <1>9, <1>10
  <2>2. head[e] \in Command /\ PlainCommand(head[e]) /\ b[e] = EncodeCommand(head[e])[1] /\ head[e] = cmds[e]
    BY <1>4, <1>8, <1>10, <2>1
  <2>3. cmds[e].op = "end" => b[e] = 254 /\ CommandLen(head[e]) = 1
    BY <2>2, CommandBytes DEF CommandLen
  <2>4. cmds[e].op # "end" => b[e] = 255 /\ CommandLen(head[e]) = 2
    <3>1. cmds[e].op # "end" => cmds[e].op \in {"loop", "jump"}
      BY <1>3 DEF Ending
    <3> QED  BY <2>2, <3>1, CommandBytes DEF CommandLen
  <2>5. n = e - 1 + CommandLen(head[e])
    BY <1>10
  <2> HIDE DEF n, b
  <2> QED  BY <1>3, <2>3, <2>4, <2>5
<1>13. Terminator(b) = e
  <2> DEFINE First(t) == b[t] >= 254 /\ \A k \in 1 .. t - 1 : b[k] < 254
  <2>1. DOMAIN b = 1 .. Len(b) /\ e \in 1 .. Len(b)
    BY <1>3, <1>8, <1>9, <1>10, LenProperties DEF Bytes
  <2>2. First(e) /\ b[e] >= 254
    BY <1>11, <1>12
  <2>3. ASSUME NEW t \in DOMAIN b, First(t) PROVE t = e
    <3>1. t \in Nat
      BY <1>9, <2>1
    <3>2. CASE t < e
      <4>1. t \in 1 .. e - 1
        BY <1>3, <2>1, <3>1, <3>2
      <4>2. b[t] < 254 /\ b[t] >= 254
        BY <1>11, <2>3, <4>1
      <4>3. b[t] \in 0 .. 255
        BY <1>9, <2>1, ByteAt
      <4> QED  BY <4>2, <4>3, BelowTheEnds
    <3>3. CASE e < t
      <4>1. e \in 1 .. t - 1
        BY <1>3, <2>1, <3>1, <3>3
      <4>2. b[e] < 254
        BY <2>3, <4>1
      <4>3. b[e] \in {254, 255}
        BY <1>12
      <4> QED  BY <4>2, <4>3
    <3> QED  BY <1>3, <3>1, <3>2, <3>3
  <2>4. (CHOOSE t \in DOMAIN b : First(t)) = e
    BY <2>1, <2>2, <2>3
  <2>5. \E t \in DOMAIN b : b[t] >= 254
    BY <2>1, <2>2
  <2> QED  BY <2>4, <2>5 DEF Terminator
<1>14. SequenceSize(b) = n
  <2>1. n = e + (IF b[e] = 255 THEN 1 ELSE 0)
    BY <1>3, <1>12
  <2> QED  BY <1>13, <2>1 DEF SequenceSize
<1>15. SubSeq(b, 1, n) = h
  <2>1. 1 \in 1 .. Len(b) + 1 /\ n \in 1 - 1 .. Len(b)
    BY <1>8, <1>9
  <2>2. /\ SubSeq(b, 1, n) \in Bytes /\ Len(SubSeq(b, 1, n)) = n - 1 + 1
        /\ \A k \in 1 .. n - 1 + 1 : SubSeq(b, 1, n)[k] = b[1 + k - 1]
    BY <1>9, <2>1, BytesBetween
  <2>3. n - 1 + 1 = n /\ \A k \in 1 .. n : 1 + k - 1 = k
    BY <1>9
  <2>4. Len(SubSeq(b, 1, n)) = Len(h) /\ \A k \in 1 .. Len(h) : SubSeq(b, 1, n)[k] = h[k]
    BY <1>8, <2>2, <2>3
  <2>5. IsSeq(SubSeq(b, 1, n)) /\ IsSeq(h)
    BY <1>8, <2>2 DEF IsSeq, Bytes
  <2> HIDE DEF h, n, b
  <2> QED  BY <2>4, <2>5, SeqsEqual
<1>16. DecodeSequence(h) = head
  BY <1>4, <1>6, OrderlistReadBack
<1> DEFINE r == [k \in 1 .. Len(b) - n |-> Cmd("raw", b[n + k])]
<1>17. Len(b) - n = m - e
  BY <1>1, <1>3, <1>8, <1>9
<1>18. ASSUME NEW k \in 1 .. m - e PROVE Cmd("raw", b[n + k]) = cmds[e + k] /\ cmds[e + k] \in Command
  <2>1. e + k \in e + 1 .. m /\ e + k \in 1 .. Len(cmds)
    BY <1>1, <1>3
  <2>2. cmds[e + k] \in Command /\ cmds[e + k].op = "raw" /\ b[n + k] = cmds[e + k].arg
    BY <1>1, <1>7, <1>8, <2>1
  <2>3. cmds[e + k] = [op |-> cmds[e + k].op, arg |-> cmds[e + k].arg]
    BY <2>2 DEF Command
  <2> QED  BY <2>2, <2>3 DEF Cmd
<1>19. r = [k \in 1 .. m - e |-> cmds[e + k]]
  BY <1>17, <1>18
<1>20. r \in Seq(Command) /\ Len(r) = m - e /\ \A k \in 1 .. m - e : r[k] = cmds[e + k]
  <2>1. m - e \in Nat
    BY <1>1, <1>3
  <2> HIDE DEF r
  <2> QED  BY <1>18, <1>19, <2>1
<1>21. ParseSequence(b) = head \o r
  BY <1>14, <1>15, <1>16 DEF ParseSequence
<1> HIDE DEF r, b, h, n
<1>22. /\ head \o r \in Seq(Command) /\ Len(head \o r) = Len(head) + Len(r)
       /\ \A k \in 1 .. Len(head) + Len(r) : (head \o r)[k] = IF k <= Len(head) THEN head[k] ELSE r[k - Len(head)]
  BY <1>4, <1>20, ConcatProperties
<1>23. ASSUME NEW k \in 1 .. Len(cmds) PROVE (head \o r)[k] = cmds[k]
  <2>1. k \in 1 .. Len(head) + Len(r)
    BY <1>1, <1>3, <1>4, <1>20
  <2>2. CASE k <= e
    <3>1. k \in 1 .. e
      BY <1>3, <2>2
    <3> QED  BY <1>4, <1>22, <2>1, <2>2, <3>1
  <2>3. CASE ~(k <= e)
    <3>1. k - e \in 1 .. m - e /\ e + (k - e) = k
      BY <1>1, <1>3, <2>3
    <3>2. (head \o r)[k] = r[k - e]
      BY <1>4, <1>22, <2>1, <2>3
    <3> QED  BY <1>20, <3>1, <3>2
  <2> QED  BY <2>2, <2>3
<1>24. Len(head \o r) = Len(cmds)
  BY <1>1, <1>3, <1>4, <1>20, <1>22
<1>25. head \o r = cmds
  BY <1>22, <1>23, <1>24, SeqEqual
<1> QED  BY <1>21, <1>25 DEF b

-----------------------------------------------------------------------------
(* The other parts of a song read back.                                     *)

\* A pattern's rows are those its packed bytes hold.
LEMMA RowsFoundAgain ==
  ASSUME NEW pattern \in Pattern, \A k \in DOMAIN pattern.rows : TakesValue(pattern.rows[k]),
         NoFalseRun(EncodeRows(pattern.rows))
  PROVE  /\ Unpack(Packed(pattern)) = EncodeRows(pattern.rows)
         /\ ParsePattern(Packed(pattern)) = pattern.rows
<1>1. pattern.rows \in Seq(Row) /\ EncodeRows(pattern.rows) \in Bytes
  BY PatternItemIs
<1>2. Unpack(Packed(pattern)) = EncodeRows(pattern.rows)
  BY <1>1, UnpackPack DEF Packed
<1>3. DecodeRows(EncodeRows(pattern.rows)) = pattern.rows
  BY <1>1, RowsReadBack DEF AllTakeValues
<1> QED  BY <1>2, <1>3 DEF ParsePattern

\* The subtunes' tempos are two bytes each.
LEMMA PairsAre ==
  ASSUME NEW t \in Seq(Byte \X Byte)
  PROVE  /\ FlattenSeq(t) \in Bytes /\ Len(t) \in Nat /\ Len(FlattenSeq(t)) = 2 * Len(t)
         /\ \A k \in 1 .. Len(t) : /\ t[k] = <<t[k][1], t[k][2]>>
                                   /\ FlattenSeq(t)[2 * k - 1] = t[k][1]
                                   /\ FlattenSeq(t)[2 * k] = t[k][2]
<1> DEFINE m == Len(t)
           S == {n \in Nat : n <= m => Len(Upto(t, n)) = 2 * n}
<1>1. m \in Nat
  OBVIOUS
<1>2. ASSUME NEW k \in 1 .. m
      PROVE  t[k] = <<t[k][1], t[k][2]>> /\ t[k] \in Bytes /\ Len(t[k]) = 2
  <2>1. t[k] \in Byte \X Byte
    BY ElementOfSeq
  <2>2. t[k] = <<t[k][1], t[k][2]>> /\ t[k][1] \in 0 .. 255 /\ t[k][2] \in 0 .. 255
    BY <2>1 DEF Byte
  <2> DEFINE x == t[k][1]
             y == t[k][2]
  <2> HIDE DEF x, y
  <2>3. <<x, y>> \in Bytes /\ Len(<<x, y>>) = 2
    BY <2>2 DEF Bytes, x, y
  <2> QED  BY <2>2, <2>3 DEF x, y
<1>3. t \in Seq(Bytes)
  <2>1. t = [k \in 1 .. m |-> t[k]]
    OBVIOUS
  <2> QED  BY <1>1, <1>2, <2>1
<1>4. t \in Seq(Seq(0 .. 255))
  BY <1>3 DEF Bytes
<1>5. FlattenSeq(t) \in Bytes
  BY <1>4, FlattenType DEF Bytes
<1>6. ASSUME NEW k \in 0 .. m - 1
      PROVE  /\ Len(Upto(t, k + 1)) = Len(Upto(t, k)) + 2
             /\ FlattenSeq(t)[Len(Upto(t, k)) + 1] = t[k + 1][1]
             /\ FlattenSeq(t)[Len(Upto(t, k)) + 2] = t[k + 1][2]
  <2>1. k + 1 \in 1 .. m
    BY <1>1
  <2>2. Len(t[k + 1]) = 2 /\ 1 \in 1 .. 2 /\ 2 \in 1 .. 2
    BY <1>2, <2>1
  <2>3. /\ Len(Upto(t, k + 1)) = Len(Upto(t, k)) + Len(t[k + 1])
        /\ \A i \in 1 .. Len(t[k + 1]) : FlattenSeq(t)[Len(Upto(t, k)) + i] = t[k + 1][i]
    BY <1>4, UptoAt
  <2> QED  BY <2>2, <2>3
<1>7. 0 \in S
  <2>1. Upto(t, 0) = << >> /\ Upto(t, m) = FlattenSeq(t)
    BY <1>4, UptoNext
  <2> QED  BY <2>1
<1>8. ASSUME NEW n \in Nat, n \in S PROVE n + 1 \in S
  <2> SUFFICES ASSUME n + 1 <= m PROVE Len(Upto(t, n + 1)) = 2 * (n + 1)
    OBVIOUS
  <2>1. n \in 0 .. m - 1 /\ n <= m
    BY <1>1
  <2>2. Len(Upto(t, n)) = 2 * n
    BY <1>8, <2>1
  <2>3. Len(Upto(t, n + 1)) = 2 * n + 2
    BY <1>6, <2>1, <2>2
  <2> QED  BY <2>3
<1> HIDE DEF S
<1>9. \A n \in Nat : n \in S
  BY <1>7, <1>8, SetInduction
<1>10. \A n \in 0 .. m : Len(Upto(t, n)) = 2 * n
  BY <1>9 DEF S
<1>11. Len(FlattenSeq(t)) = 2 * m
  <2>1. Upto(t, m) = FlattenSeq(t) /\ m \in 0 .. m
    BY <1>1, <1>4, UptoNext
  <2> QED  BY <1>10, <2>1
<1>12. ASSUME NEW k \in 1 .. m PROVE FlattenSeq(t)[2 * k - 1] = t[k][1] /\ FlattenSeq(t)[2 * k] = t[k][2]
  <2>1. k - 1 \in 0 .. m - 1 /\ k - 1 \in 0 .. m /\ (k - 1) + 1 = k
        /\ 2 * (k - 1) + 1 = 2 * k - 1 /\ 2 * (k - 1) + 2 = 2 * k
    BY <1>1
  <2>2. Len(Upto(t, k - 1)) = 2 * (k - 1)
    BY <1>10, <2>1
  <2>3. /\ FlattenSeq(t)[Len(Upto(t, k - 1)) + 1] = t[(k - 1) + 1][1]
        /\ FlattenSeq(t)[Len(Upto(t, k - 1)) + 2] = t[(k - 1) + 1][2]
    BY <1>6, <2>1
  <2> QED  BY <2>1, <2>2, <2>3
<1> QED  BY <1>1, <1>2, <1>5, <1>11, <1>12

-----------------------------------------------------------------------------
(* Types.                                                                   *)

\* Before the file is opened there is none.
BeforeOpen == {"song", "writing", "unwritten", "written"}
TypeInv == TypeOK /\ song \in Songs /\ (stage \in BeforeOpen => file = <<>>)

\* What is stored of an item are bytes if its size is one.
LEMMA ItemsAreBytes ==
  /\ \A cmds : EncodeSequence(cmds) \in Bytes /\ FitsByte(Len(EncodeSequence(cmds)))
       => SequenceItem(cmds) \in Seq(Byte)
  /\ \A pattern \in Pattern : FitsByte(UnpackedSize(pattern)) => PatternItem(pattern) \in Seq(Byte)
  /\ \A instrument \in Instrument : FitsByte(Len(instrument.body)) => InstrumentItem(instrument) \in Seq(Byte)
<1>0. \A n \in Nat : FitsByte(n) => n \in Byte
  BY DEF FitsByte, Byte
<1>1. ASSUME NEW cmds, EncodeSequence(cmds) \in Bytes, FitsByte(Len(EncodeSequence(cmds)))
      PROVE  SequenceItem(cmds) \in Seq(Byte)
  <2> DEFINE b == EncodeSequence(cmds)
  <2>1. b \in Seq(Byte) /\ Len(b) \in Nat
    BY <1>1, BytesAre, BytesAreNumbers
  <2>2. Len(b) \in Byte
    BY <1>0, <1>1, <2>1
  <2> HIDE DEF b
  <2>3. Append(b, Len(b)) \in Seq(Byte)
    BY <2>1, <2>2
  <2> QED  BY <2>3 DEF SequenceItem, b
<1>2. ASSUME NEW pattern \in Pattern, FitsByte(UnpackedSize(pattern)) PROVE PatternItem(pattern) \in Seq(Byte)
  <2> DEFINE x == UnpackedSize(pattern)
             y == pattern.length
             b == Packed(pattern)
  <2>1. b \in Seq(Byte) /\ x \in Nat /\ y \in Byte
    BY PatternItemIs, BytesAre
  <2>2. x \in Byte
    BY <1>0, <1>2, <2>1
  <2> HIDE DEF x, y, b
  <2>3. <<x, y>> \in Seq(Byte)
    BY <2>1, <2>2
  <2>4. b \o <<x, y>> \in Seq(Byte)
    BY <2>1, <2>3
  <2> QED  BY <2>4 DEF PatternItem, b, x, y
<1>3. ASSUME NEW instrument \in Instrument, FitsByte(Len(instrument.body))
      PROVE  InstrumentItem(instrument) \in Seq(Byte)
  <2> DEFINE b == instrument.body
             n == instrument.name
  <2>1. b \in Seq(Byte) /\ n \in Seq(Byte) /\ Len(b) \in Nat
    BY InstrumentItemIs, BytesAre
  <2>2. Len(b) \in Byte
    BY <1>0, <1>3, <2>1
  <2> HIDE DEF b, n
  <2>3. <<Len(b)>> \in Seq(Byte)
    BY <2>2
  <2>4. b \o <<Len(b)>> \in Seq(Byte)
    BY <2>1, <2>3
  <2>5. b \o <<Len(b)>> \o n \in Seq(Byte)
    BY <2>1, <2>4
  <2> QED  BY <2>5 DEF InstrumentItem, b, n
<1> QED  BY <1>1, <1>2, <1>3

\* Which items are written is a matter of how many there are.
LEMMA CountsAre ==
  ASSUME song \in Songs
  PROVE  /\ Sequences \in Nat /\ ToPatterns = Sequences + Len(song.patterns)
         /\ ToInstruments = ToPatterns + Len(song.instruments)
         /\ Len(song.patterns) \in Nat /\ Len(song.instruments) \in Nat
         /\ ToPatterns \in Nat /\ ToInstruments \in Nat
         /\ Len(song.sequences) = Sequences
<1>1. Len(song.sequences) \in Nat /\ Len(song.patterns) \in Nat /\ Len(song.instruments) \in Nat
  <2>1. song.sequences \in Seq(Seq(Command)) /\ song.patterns \in Seq(Pattern)
        /\ song.instruments \in Seq(Instrument)
    BY SongIs
  <2>2. Len(song.sequences) \in Nat
    BY <2>1, LenProperties
  <2>3. Len(song.patterns) \in Nat
    BY <2>1, LenProperties
  <2>4. Len(song.instruments) \in Nat
    BY <2>1, LenProperties
  <2> QED  BY <2>2, <2>3, <2>4
<1> DEFINE a == Len(song.sequences)
           b == Len(song.patterns)
           c == Len(song.instruments)
<1> HIDE DEF a, b, c
<1>2. a \in Nat /\ b \in Nat /\ c \in Nat
  BY <1>1 DEF a, b, c
<1>3. a + b \in Nat /\ (a + b) + c \in Nat
  BY <1>2
<1>4. Sequences = a /\ ToPatterns = a + b /\ ToInstruments = (a + b) + c
  BY DEF Sequences, ToPatterns, ToInstruments, a, b, c
<1> QED  BY <1>2, <1>3, <1>4 DEF a, b, c

\* A step of the writer stores an item as a whole, or nothing.
LEMMA ItemsStored ==
  ASSUME TypeInv
  PROVE  /\ WriteSequence => /\ stage = "writing" /\ Len(marks) + 1 \in 1 .. Len(song.sequences)
                             /\ \/ RefuseToWrite
                                \/ /\ Store(SequenceItem(song.sequences[Len(marks) + 1]))
                                   /\ SequenceItem(song.sequences[Len(marks) + 1]) \in Seq(Byte)
         /\ WritePattern => LET i == Len(marks) - Sequences + 1
                            IN  /\ stage = "writing" /\ i \in 1 .. Len(song.patterns)
                                /\ \/ RefuseToWrite
                                   \/ /\ Store(PatternItem(song.patterns[i]))
                                      /\ PatternItem(song.patterns[i]) \in Seq(Byte)
         /\ WriteInstrument => LET i == Len(marks) - ToPatterns + 1
                               IN  /\ stage = "writing" /\ i \in 1 .. Len(song.instruments)
                                   /\ \/ RefuseToWrite
                                      \/ /\ Store(InstrumentItem(song.instruments[i]))
                                         /\ InstrumentItem(song.instruments[i]) \in Seq(Byte)
<1>1. song \in Songs /\ Len(marks) \in Nat
  BY DEF TypeInv, TypeOK
<1>2. ASSUME WriteSequence
      PROVE  /\ stage = "writing" /\ Len(marks) + 1 \in 1 .. Len(song.sequences)
             /\ \/ RefuseToWrite
                \/ /\ Store(SequenceItem(song.sequences[Len(marks) + 1]))
                   /\ SequenceItem(song.sequences[Len(marks) + 1]) \in Seq(Byte)
  <2>1. stage = "writing" /\ Len(marks) < Sequences
    BY <1>2 DEF WriteSequence
  <2>2. Len(marks) + 1 \in 1 .. Len(song.sequences)
    BY <1>1, <2>1, CountsAre
  <2> DEFINE cmds == song.sequences[Len(marks) + 1]
  <2>3. EncodeSequence(cmds) \in Bytes
    BY <1>1, <2>2, SongIs
  <2>4. \/ RefuseToWrite
        \/ FitsByte(Len(EncodeSequence(cmds))) /\ Store(SequenceItem(cmds))
    BY <1>2 DEF WriteSequence, SequenceItem
  <2> HIDE DEF cmds
  <2>5. RefuseToWrite \/ (Store(SequenceItem(cmds)) /\ SequenceItem(cmds) \in Seq(Byte))
    BY <2>3, <2>4, ItemsAreBytes
  <2> QED  BY <2>1, <2>2, <2>5 DEF cmds
<1>3. ASSUME WritePattern
      PROVE  LET i == Len(marks) - Sequences + 1
             IN  /\ stage = "writing" /\ i \in 1 .. Len(song.patterns)
                 /\ \/ RefuseToWrite
                    \/ /\ Store(PatternItem(song.patterns[i]))
                       /\ PatternItem(song.patterns[i]) \in Seq(Byte)
  <2> DEFINE i == Len(marks) - Sequences + 1
             pattern == song.patterns[i]
  <2>1. stage = "writing" /\ Len(marks) \in Sequences .. ToPatterns - 1
    BY <1>3 DEF WritePattern
  <2>2. i \in 1 .. Len(song.patterns)
    BY <1>1, <2>1, CountsAre
  <2>3. pattern \in Pattern
    BY <1>1, <2>2, SongIs
  <2>4. \/ RefuseToWrite
        \/ FitsByte(UnpackedSize(pattern)) /\ Store(PatternItem(pattern))
    BY <1>3 DEF WritePattern, PatternItem, Packed, UnpackedSize
  <2> HIDE DEF pattern
  <2>5. RefuseToWrite \/ (Store(PatternItem(pattern)) /\ PatternItem(pattern) \in Seq(Byte))
    BY <2>3, <2>4, ItemsAreBytes
  <2> QED  BY <2>1, <2>2, <2>5 DEF pattern
<1>4. ASSUME WriteInstrument
      PROVE  LET i == Len(marks) - ToPatterns + 1
             IN  /\ stage = "writing" /\ i \in 1 .. Len(song.instruments)
                 /\ \/ RefuseToWrite
                    \/ /\ Store(InstrumentItem(song.instruments[i]))
                       /\ InstrumentItem(song.instruments[i]) \in Seq(Byte)
  <2> DEFINE i == Len(marks) - ToPatterns + 1
             instrument == song.instruments[i]
  <2>1. stage = "writing" /\ Len(marks) \in ToPatterns .. ToInstruments - 1
    BY <1>4 DEF WriteInstrument
  <2>2. i \in 1 .. Len(song.instruments)
    <3>1. ToInstruments = ToPatterns + Len(song.instruments) /\ Len(song.instruments) \in Nat
          /\ ToPatterns \in Nat
      BY <1>1, CountsAre
    <3> QED  BY <1>1, <2>1, <3>1
  <2>3. instrument \in Instrument
    BY <1>1, <2>2, SongIs
  <2>4. \/ RefuseToWrite
        \/ FitsByte(Len(instrument.body)) /\ Store(InstrumentItem(instrument))
    BY <1>4 DEF WriteInstrument, InstrumentItem
  <2> HIDE DEF instrument
  <2>5. RefuseToWrite \/ (Store(InstrumentItem(instrument)) /\ InstrumentItem(instrument) \in Seq(Byte))
    BY <2>3, <2>4, ItemsAreBytes
  <2> QED  BY <2>1, <2>2, <2>5 DEF instrument
<1> QED  BY <1>2, <1>3, <1>4

\* How many subtunes there are is a number.
LEMMA SubtunesAre == ASSUME NEW n \in Nat PROVE SubtunesFor(n) \in Nat
<1>1. Channels \in Nat /\ Channels > 0
  BY FormatAssumption
<1>2. CASE n = 0
  BY <1>2 DEF SubtunesFor
<1>3. CASE n # 0
  <2>1. n - 1 \in Nat
    BY <1>3
  <2>2. (n - 1) \div Channels \in Nat
    BY <1>1, <2>1
  <2> QED  BY <1>3, <2>2 DEF SubtunesFor
<1> QED  BY <1>2, <1>3

Stages ==
  {"song", "writing", "unwritten", "written", "subtunes", "tempos", "chords",
   "instruments", "patterns", "body", "sequences", "refused", "read"}

\* What a step of the reader must keep to.
LEMMA ReadTyped ==
  ASSUME TypeInv, UNCHANGED <<written, file>>, stage' \in Stages \ BeforeOpen,
         cursor' \in 0 .. Len(file), end' \in 0 .. Len(file), j' \in -9 .. 253
  PROVE  TypeInv'
<1>1. song' = song /\ out' = out /\ marks' = marks /\ file' = file
  BY DEF written
<1>2. stage' \in Stages /\ stage' \notin BeforeOpen
  OBVIOUS
<1> QED  BY <1>1, <1>2 DEF TypeInv, TypeOK, Stages

\* A byte of the file.
LEMMA FileByte ==
  ASSUME TypeInv, NEW k \in 1 .. Len(file)
  PROVE  file[k] \in 0 .. 255
<1>1. file \in Seq(Byte)
  BY DEF TypeInv, TypeOK
<1>2. file[k] \in Byte
  BY <1>1, ElementOfSeq
<1> QED  BY <1>2 DEF Byte

\* The writer's steps.
LEMMA WriteTyped == ASSUME TypeInv, Write PROVE TypeInv'
<1>0. out \in Seq(Byte) /\ marks \in Seq(Nat) /\ song \in Songs /\ Len(out) \in Nat
  BY DEF TypeInv, TypeOK
<1>1. ASSUME RefuseToWrite, stage \in {"song", "writing"} PROVE TypeInv'
  <2>1. /\ stage' = "unwritten" /\ song' = song /\ out' = out /\ marks' = marks /\ file' = file
        /\ cursor' = cursor /\ end' = end /\ j' = j
    BY <1>1 DEF RefuseToWrite, written, reading
  <2>2. stage \in BeforeOpen
    BY <1>1 DEF BeforeOpen
  <2> QED  BY <2>1, <2>2 DEF TypeInv, TypeOK
<1>2. ASSUME NEW bytes \in Seq(Byte), Store(bytes), stage = "writing" PROVE TypeInv'
  <2>1. /\ stage' = stage /\ song' = song /\ file' = file /\ cursor' = cursor /\ end' = end /\ j' = j
        /\ out' = out \o bytes /\ marks' = Append(marks, Len(out))
    BY <1>2 DEF Store, reading
  <2>2. out' \in Seq(Byte)
    BY <1>0, <2>1
  <2>3. marks' \in Seq(Nat)
    BY <1>0, <2>1
  <2> QED  BY <2>1, <2>2, <2>3 DEF TypeInv, TypeOK
<1>3. CASE CheckSong
  <2>1. CASE RefuseToWrite
    BY <1>1, <1>3, <2>1 DEF CheckSong
  <2>2. CASE stage' = "writing" /\ UNCHANGED <<written, file, reading>>
    <3>1. /\ stage = "song" /\ song' = song /\ out' = out /\ marks' = marks /\ file' = file
          /\ cursor' = cursor /\ end' = end /\ j' = j
      BY <1>3, <2>2 DEF CheckSong, written, reading
    <3>2. stage \in BeforeOpen
      BY <3>1 DEF BeforeOpen
    <3> QED  BY <2>2, <3>1, <3>2 DEF TypeInv, TypeOK
  <2> QED  BY <1>3, <2>1, <2>2 DEF CheckSong
<1>4. CASE WriteSequence
  BY <1>1, <1>2, <1>4, ItemsStored
<1>5. CASE WritePattern
  BY <1>1, <1>2, <1>5, ItemsStored
<1>6. CASE WriteInstrument
  BY <1>1, <1>2, <1>6, ItemsStored
<1>7. CASE WriteTables
  <2>1. CASE RefuseToWrite
    BY <1>1, <1>7, <2>1 DEF WriteTables
  <2>2. CASE ~RefuseToWrite
    <3> DEFINE f == FlattenSeq(song.subtunes)
               a == Len(out)
               b == Len(out) + Len(song.chords)
               c == Len(out) + Len(song.chords \o song.tempos)
    <3>1. /\ stage = "writing" /\ stage' = "written" /\ song' = song /\ file' = file
          /\ cursor' = cursor /\ end' = end /\ j' = j
          /\ out' = out \o song.chords \o song.tempos \o f
          /\ marks' = marks \o <<a, b, c>>
      BY <1>7, <2>2 DEF WriteTables, reading
    <3>2. song.chords \in Seq(Byte) /\ song.tempos \in Seq(Byte) /\ f \in Seq(Byte)
      BY <1>0, SongIs, PairsAre, BytesAre
    <3> HIDE DEF f
    <3>3. out' \in Seq(Byte)
      BY <1>0, <3>1, <3>2
    <3>4. song.chords \o song.tempos \in Seq(Byte)
      BY <3>2
    <3>5. Len(song.chords) \in Nat /\ Len(song.chords \o song.tempos) \in Nat
      BY <3>2, <3>4, LenProperties
    <3>6. a \in Nat /\ b \in Nat /\ c \in Nat
      <4> DEFINE k == Len(song.chords)
                 l == Len(song.chords \o song.tempos)
                 m == Len(out)
      <4>1. k \in Nat /\ l \in Nat /\ m \in Nat
        BY <1>0, <3>5
      <4> HIDE DEF k, l, m
      <4>2. m \in Nat /\ m + k \in Nat /\ m + l \in Nat
        BY <4>1
      <4> QED  BY <4>2 DEF k, l, m
    <3> HIDE DEF a, b, c
    <3>7. marks' \in Seq(Nat)
      BY <1>0, <3>1, <3>6
    <3>8. stage \in BeforeOpen
      BY <3>1 DEF BeforeOpen
    <3> QED  BY <3>1, <3>3, <3>7, <3>8 DEF TypeInv, TypeOK
  <2> QED  BY <2>1, <2>2
<1> QED  BY <1>3, <1>4, <1>5, <1>6, <1>7, Zenon DEF Write

\* What becomes of the file.
LEMMA OpenTyped == ASSUME TypeInv, Open PROVE TypeInv'
<1>1. out \in Seq(Byte) /\ song \in Songs /\ Len(out) \in Nat /\ file = <<>> /\ stage = "written"
      /\ end \in 0 .. Len(file) /\ j \in -9 .. 253 /\ marks \in Seq(Nat)
  BY DEF TypeInv, TypeOK, Open, BeforeOpen
<1>2. /\ stage' = "subtunes" /\ song' = song /\ out' = out /\ marks' = marks /\ end' = end /\ j' = j
      /\ cursor' = Len(file')
      /\ \/ \E k \in Losses : k <= Len(out) /\ file' = SubSeq(out, k + 1, Len(out))
         \/ \E junk \in Junk : file' = junk \o out
  BY DEF Open, written
<1>3. file' \in Seq(Byte)
  <2>1. ASSUME NEW k \in Losses, k <= Len(out), file' = SubSeq(out, k + 1, Len(out)) PROVE file' \in Seq(Byte)
    <3>1. k \in Nat
      BY DamageAssumption
    <3>2. out \in Bytes /\ k + 1 \in 1 .. Len(out) + 1 /\ Len(out) \in (k + 1) - 1 .. Len(out)
      BY <1>1, <2>1, <3>1, BytesAre
    <3> QED  BY <2>1, <3>2, BytesBetween, BytesAre
  <2>2. ASSUME NEW junk \in Junk, file' = junk \o out PROVE file' \in Seq(Byte)
    <3>1. junk \in Seq(Byte)
      BY DamageAssumption
    <3> QED  BY <1>1, <2>2, <3>1
  <2> QED  BY <1>2, <2>1, <2>2
<1>4. end = 0 /\ Len(file') \in Nat
  <2>1. Len(file) = 0
    BY <1>1
  <2> QED  BY <1>1, <1>3, <2>1
<1>5. end' \in 0 .. Len(file)' /\ cursor' \in 0 .. Len(file)'
  BY <1>2, <1>4
<1> QED  BY <1>1, <1>2, <1>3, <1>5 DEF TypeInv, TypeOK, BeforeOpen

\* The reader's steps.
LEMMA ReadStepTyped == ASSUME TypeInv, Read PROVE TypeInv'
<1>0. /\ cursor \in 0 .. Len(file) /\ end \in 0 .. Len(file) /\ j \in -9 .. 253 /\ song \in Songs
      /\ Len(file) \in Nat /\ stage \in Stages /\ NameLen \in Nat
      /\ "refused" \in Stages \ BeforeOpen
  BY FormatAssumption DEF TypeInv, TypeOK, Stages, BeforeOpen
<1>1. CASE RefuseToRead
  <2>1. stage' = "refused" /\ UNCHANGED <<written, file>> /\ cursor' = cursor /\ end' = end /\ j' = j
    BY <1>1 DEF RefuseToRead, reading
  <2> QED  BY <1>0, <2>1, ReadTyped
<1>2. ASSUME ~RefuseToRead, ReadSubtunes PROVE TypeInv'
  <2> DEFINE n == SubtunesFor(Sequences)
  <2>1. n \in Nat
    BY <1>0, CountsAre, SubtunesAre
  <2> HIDE DEF n
  <2>2. /\ ~(cursor < 2 * n) /\ cursor' = cursor - 2 * n /\ stage' = "tempos"
        /\ UNCHANGED <<written, file>> /\ end' = end /\ j' = j
    BY <1>2 DEF ReadSubtunes, n
  <2>3. cursor' \in 0 .. Len(file)
    BY <1>0, <2>1, <2>2
  <2>4. stage' \in Stages \ BeforeOpen
    BY <2>2 DEF Stages, BeforeOpen
  <2> QED  BY <1>0, <2>2, <2>3, <2>4, ReadTyped
<1>3. ASSUME ~RefuseToRead, ReadTempos PROVE TypeInv'
  <2> DEFINE n == Len(song.tempos)
  <2>1. n \in Nat
    BY <1>0, SongIs, BytesAreNumbers
  <2> HIDE DEF n
  <2>2. /\ ~(cursor < n) /\ cursor' = cursor - n /\ stage' = "chords"
        /\ UNCHANGED <<written, file>> /\ end' = end /\ j' = j
    BY <1>3 DEF ReadTempos, n
  <2>3. cursor' \in 0 .. Len(file)
    BY <1>0, <2>1, <2>2
  <2>4. stage' \in Stages \ BeforeOpen
    BY <2>2 DEF Stages, BeforeOpen
  <2> QED  BY <1>0, <2>2, <2>3, <2>4, ReadTyped
<1>4. ASSUME ~RefuseToRead, ReadChords PROVE TypeInv'
  <2> DEFINE n == Len(song.chords)
  <2>1. n \in Nat
    BY <1>0, SongIs, BytesAreNumbers
  <2> HIDE DEF n
  <2>2. /\ ~(cursor < n) /\ cursor' = cursor - n /\ stage' = "instruments"
        /\ UNCHANGED <<written, file>> /\ end' = end /\ j' = j
    BY <1>4 DEF ReadChords, n
  <2>3. cursor' \in 0 .. Len(file)
    BY <1>0, <2>1, <2>2
  <2>4. stage' \in Stages \ BeforeOpen
    BY <2>2 DEF Stages, BeforeOpen
  <2> QED  BY <1>0, <2>2, <2>3, <2>4, ReadTyped
<1>5. ASSUME ~RefuseToRead, ReadInstrument PROVE TypeInv'
  <2> DEFINE at == cursor - NameLen
             size == file[at]
  <2>1. /\ ~(at < 1) /\ ~(at - 1 < size) /\ cursor' = at - 1 - size /\ stage' = stage
        /\ stage = "instruments" /\ UNCHANGED <<written, file>> /\ end' = end /\ j' = j
    BY <1>5 DEF ReadInstrument
  <2>2. at \in 1 .. Len(file)
    BY <1>0, <2>1
  <2>3. size \in 0 .. 255
    BY <2>2, FileByte
  <2> HIDE DEF at, size
  <2>4. cursor' \in 0 .. Len(file)
    BY <1>0, <2>1, <2>2, <2>3
  <2>5. stage' \in Stages \ BeforeOpen
    BY <2>1 DEF Stages, BeforeOpen
  <2> QED  BY <1>0, <2>1, <2>4, <2>5, ReadTyped
<1>6. ASSUME InstrumentsRead \/ PatternsRead PROVE TypeInv'
  <2>1. /\ stage' \in {"patterns", "sequences"} /\ UNCHANGED <<written, file>>
        /\ cursor' = cursor /\ end' = end /\ j' = j
    BY <1>6 DEF InstrumentsRead, PatternsRead, reading
  <2>2. stage' \in Stages \ BeforeOpen
    BY <2>1 DEF Stages, BeforeOpen
  <2> QED  BY <1>0, <2>1, <2>2, ReadTyped
<1>7. ASSUME ~RefuseToRead, ReadPatternSize PROVE TypeInv'
  <2> DEFINE size == file[cursor - 1]
  <2>1. /\ ~(cursor < 2) /\ cursor' = cursor - 2 /\ end' = cursor - 2 /\ j' = size - 2
        /\ stage = "patterns" /\ stage' \in {stage, "body"} /\ UNCHANGED <<written, file>>
    BY <1>7 DEF ReadPatternSize
  <2>2. cursor - 1 \in 1 .. Len(file) /\ cursor - 2 \in 0 .. Len(file)
    BY <1>0, <2>1
  <2>3. size \in 0 .. 255
    BY <2>2, FileByte
  <2> HIDE DEF size
  <2>4. j' \in -9 .. 253
    BY <2>1, <2>3
  <2>5. stage' \in Stages \ BeforeOpen
    BY <2>1 DEF Stages, BeforeOpen
  <2> QED  BY <2>1, <2>2, <2>4, <2>5, ReadTyped
<1>8. ASSUME ~RefuseToRead, WalkByte PROVE TypeInv'
  <2> DEFINE byte == file[cursor]
             before == IF cursor > 1 THEN file[cursor - 1] ELSE 0
             span == Span(byte, before)
  <2>1. /\ ~(cursor < 1) /\ cursor' = cursor - 1 /\ j' = j - span /\ j >= 0
        /\ stage = "body" /\ stage' = stage /\ UNCHANGED <<written, file>> /\ end' = end
    BY <1>8 DEF WalkByte
  <2>2. cursor \in 1 .. Len(file)
    BY <1>0, <2>1
  <2>3. byte \in 0 .. 255
    BY <2>2, FileByte
  <2> HIDE DEF byte, before
  <2>4. span \in 1 .. 9
    <3>1. CASE IsMarker(byte, before)
      <4>1. byte \in 112 .. 119
        BY <3>1 DEF IsMarker, Marker, PackedMin, PackedMax
      <4>2. span = byte - 112 + 2
        BY <3>1 DEF Span, PackedMin
      <4> QED  BY <4>1, <4>2
    <3>2. CASE ~IsMarker(byte, before)
      BY <3>2 DEF Span
    <3> QED  BY <3>1, <3>2
  <2> HIDE DEF span
  <2>5. j' \in -9 .. 253
    BY <1>0, <2>1, <2>4
  <2>6. cursor' \in 0 .. Len(file)
    BY <1>0, <2>1
  <2>7. stage' \in Stages \ BeforeOpen
    BY <2>1 DEF Stages, BeforeOpen
  <2> QED  BY <1>0, <2>1, <2>5, <2>6, <2>7, ReadTyped
<1>9. ASSUME ~RefuseToRead, ReadPatternBody PROVE TypeInv'
  <2>1. stage' = "patterns" /\ UNCHANGED <<written, file>> /\ cursor' = cursor /\ end' = end /\ j' = j
    BY <1>9 DEF ReadPatternBody
  <2>2. stage' \in Stages \ BeforeOpen
    BY <2>1 DEF Stages, BeforeOpen
  <2> QED  BY <1>0, <2>1, <2>2, ReadTyped
<1>10. ASSUME ~RefuseToRead, ReadSequence PROVE TypeInv'
  <2> DEFINE size == file[cursor]
  <2>1. /\ ~(cursor < 1) /\ ~(cursor - 1 < size) /\ cursor' = cursor - 1 - size /\ stage' = stage
        /\ stage = "sequences" /\ UNCHANGED <<written, file>> /\ end' = end /\ j' = j
    BY <1>10 DEF ReadSequence
  <2>2. cursor \in 1 .. Len(file)
    BY <1>0, <2>1
  <2>3. size \in 0 .. 255
    BY <2>2, FileByte
  <2> HIDE DEF size
  <2>4. cursor' \in 0 .. Len(file)
    BY <1>0, <2>1, <2>2, <2>3
  <2>5. stage' \in Stages \ BeforeOpen
    BY <2>1 DEF Stages, BeforeOpen
  <2> QED  BY <1>0, <2>1, <2>4, <2>5, ReadTyped
<1>11. ASSUME ~RefuseToRead, Finish PROVE TypeInv'
  <2>1. stage' = "read" /\ UNCHANGED <<written, file>> /\ cursor' = cursor /\ end' = end /\ j' = j
    BY <1>11 DEF Finish, reading
  <2>2. stage' \in Stages \ BeforeOpen
    BY <2>1 DEF Stages, BeforeOpen
  <2> QED  BY <1>0, <2>1, <2>2, ReadTyped
<1> QED  BY <1>1, <1>2, <1>3, <1>4, <1>5, <1>6, <1>7, <1>8, <1>9, <1>10, <1>11, Zenon DEF Read

\* What is written are bytes, and the reader's position stays in the file.
THEOREM FilesTyped == Spec => []TypeOK
<1>1. Init => TypeInv
  <2> SUFFICES ASSUME Init PROVE TypeInv
    OBVIOUS
  <2>1. /\ song \in Songs /\ out = <<>> /\ marks = <<>> /\ file = <<>> /\ cursor = 0 /\ end = 0 /\ j = -1
        /\ stage = "song"
    BY DEF Init
  <2>2. out \in Seq(Byte) /\ marks \in Seq(Nat) /\ file \in Seq(Byte) /\ Len(file) = 0
    BY <2>1
  <2>3. cursor \in 0 .. Len(file) /\ end \in 0 .. Len(file) /\ j \in -9 .. 253
    BY <2>1, <2>2
  <2> QED  BY <2>1, <2>2, <2>3 DEF TypeInv, TypeOK
<1>2. TypeInv /\ [Next]_vars => TypeInv'
  <2> SUFFICES ASSUME TypeInv, [Next]_vars PROVE TypeInv'
    OBVIOUS
  <2>1. CASE UNCHANGED vars
    BY <2>1 DEF vars, written, reading, TypeInv, TypeOK
  <2> QED  BY <2>1, WriteTyped, OpenTyped, ReadStepTyped, Zenon DEF Next
<1>3. TypeInv => TypeOK
  BY DEF TypeInv
<1> QED  BY <1>1, <1>2, <1>3, PTL DEF Spec

-----------------------------------------------------------------------------
(* What the writer has written.                                             *)

\* The items of the song, in the order of the file.
Items ==
  [n \in 1 .. ToInstruments + 3 |->
     IF n <= Sequences THEN SequenceItem(song.sequences[n])
     ELSE IF n <= ToPatterns THEN PatternItem(song.patterns[n - Sequences])
     ELSE IF n <= ToInstruments THEN InstrumentItem(song.instruments[n - ToPatterns])
     ELSE IF n = ToInstruments + 1 THEN song.chords
     ELSE IF n = ToInstruments + 2 THEN song.tempos
     ELSE FlattenSeq(song.subtunes)]

\* Where the first n items end, if the items start at the given places.
EdgeOf(bytes, starts, n) == IF n < Len(starts) THEN starts[n + 1] ELSE Len(bytes)

\* The bytes are the items one after the other.
LaidOut(bytes, starts, items) ==
  /\ EdgeOf(bytes, starts, 0) = 0
  /\ \A n \in 1 .. Len(starts) :
       /\ EdgeOf(bytes, starts, n) = EdgeOf(bytes, starts, n - 1) + Len(items[n])
       /\ \A k \in 1 .. Len(items[n]) : bytes[EdgeOf(bytes, starts, n - 1) + k] = items[n][k]

\* Every stream of the song parses.
StreamsParse ==
  /\ Len(song.subtunes) = SubtunesFor(Sequences)
  /\ ChordsParse(song.chords) /\ TemposParse(song.tempos)
  /\ \A s \in DOMAIN song.sequences : SequenceParses(EncodeSequence(song.sequences[s]))
  /\ \A p \in DOMAIN song.patterns : PatternParses(Pack(EncodeRows(song.patterns[p].rows)))

WriterInv ==
  /\ LaidOut(out, marks, Items)
  /\ stage \in {"song", "writing"} => Len(marks) <= ToInstruments
  /\ stage \notin {"song", "unwritten"} => References
  /\ stage \notin {"song", "writing", "unwritten"} => Len(marks) = ToInstruments + 3 /\ StreamsParse

\* Which item is which.
LEMMA ItemsAre ==
  ASSUME song \in Songs
  PROVE  /\ \A n \in 1 .. Sequences : Items[n] = SequenceItem(song.sequences[n])
         /\ \A i \in 1 .. Len(song.patterns) : Items[Sequences + i] = PatternItem(song.patterns[i])
         /\ \A i \in 1 .. Len(song.instruments) : Items[ToPatterns + i] = InstrumentItem(song.instruments[i])
         /\ Items[ToInstruments + 1] = song.chords /\ Items[ToInstruments + 2] = song.tempos
         /\ Items[ToInstruments + 3] = FlattenSeq(song.subtunes)
<1> DEFINE a == Sequences
           b == ToPatterns
           c == ToInstruments
           np == Len(song.patterns)
           ni == Len(song.instruments)
<1>1. a \in Nat /\ b \in Nat /\ c \in Nat /\ np \in Nat /\ ni \in Nat /\ b = a + np /\ c = b + ni
  BY CountsAre
<1> HIDE DEF a, b, c, np, ni
<1>2. ASSUME NEW n \in 1 .. a PROVE Items[n] = SequenceItem(song.sequences[n])
  <2>1. n \in 1 .. c + 3 /\ n <= a
    BY <1>1
  <2> QED  BY <2>1 DEF Items, a, c
<1>3. ASSUME NEW i \in 1 .. np PROVE Items[a + i] = PatternItem(song.patterns[i])
  <2>1. a + i \in 1 .. c + 3 /\ ~(a + i <= a) /\ a + i <= b /\ (a + i) - a = i
    BY <1>1
  <2> QED  BY <2>1 DEF Items, a, b, c
<1>4. ASSUME NEW i \in 1 .. ni PROVE Items[b + i] = InstrumentItem(song.instruments[i])
  <2>1. b + i \in 1 .. c + 3 /\ ~(b + i <= a) /\ ~(b + i <= b) /\ b + i <= c /\ (b + i) - b = i
    BY <1>1
  <2> QED  BY <2>1 DEF Items, a, b, c
<1>5. Items[c + 1] = song.chords
  <2>1. c + 1 \in 1 .. c + 3 /\ ~(c + 1 <= a) /\ ~(c + 1 <= b) /\ ~(c + 1 <= c)
    BY <1>1
  <2> QED  BY <2>1 DEF Items, a, b, c
<1>6. Items[c + 2] = song.tempos
  <2>1. c + 2 \in 1 .. c + 3 /\ ~(c + 2 <= a) /\ ~(c + 2 <= b) /\ ~(c + 2 <= c) /\ c + 2 # c + 1
    BY <1>1
  <2> QED  BY <2>1 DEF Items, a, b, c
<1>7. Items[c + 3] = FlattenSeq(song.subtunes)
  <2>1. c + 3 \in 1 .. c + 3 /\ ~(c + 3 <= a) /\ ~(c + 3 <= b) /\ ~(c + 3 <= c) /\ c + 3 # c + 1 /\ c + 3 # c + 2
    BY <1>1
  <2> QED  BY <2>1 DEF Items, a, b, c
<1> QED  BY <1>2, <1>3, <1>4, <1>5, <1>6, <1>7 DEF a, b, c, np, ni

\* Every item has a length.
LEMMA ItemLengths ==
  ASSUME song \in Songs
  PROVE  \A n \in 1 .. ToInstruments + 3 : Len(Items[n]) \in Nat
<1>1. ASSUME NEW n \in 1 .. ToInstruments + 3 PROVE Len(Items[n]) \in Nat
  <2> DEFINE a == Sequences
             b == ToPatterns
             c == ToInstruments
             np == Len(song.patterns)
             ni == Len(song.instruments)
  <2>1. a \in Nat /\ b \in Nat /\ c \in Nat /\ np \in Nat /\ ni \in Nat /\ b = a + np /\ c = b + ni
        /\ Len(song.sequences) = a
    BY CountsAre
  <2>2. n \in 1 .. c + 3
    OBVIOUS
  <2> HIDE DEF a, b, c, np, ni
  <2>3. CASE n \in 1 .. a
    <3>1. EncodeSequence(song.sequences[n]) \in Bytes
      BY <2>1, <2>3, SongIs
    <3>2. Len(SequenceItem(song.sequences[n])) \in Nat
      BY <3>1, SequenceItemIs, LenProperties
    <3> QED  BY <2>3, <3>2, ItemsAre DEF a
  <2>4. CASE n - a \in 1 .. np
    <3>1. song.patterns[n - a] \in Pattern /\ a + (n - a) = n
      BY <2>1, <2>2, <2>4, SongIs DEF np
    <3>2. Len(PatternItem(song.patterns[n - a])) \in Nat
      BY <3>1, PatternItemIs, LenProperties
    <3> QED  BY <2>4, <3>1, <3>2, ItemsAre DEF a, np
  <2>5. CASE n - b \in 1 .. ni
    <3>1. song.instruments[n - b] \in Instrument /\ b + (n - b) = n
      BY <2>1, <2>2, <2>5, SongIs DEF ni
    <3>2. Len(InstrumentItem(song.instruments[n - b])) \in Nat
      BY <3>1, InstrumentItemIs, LenProperties
    <3> QED  BY <2>5, <3>1, <3>2, ItemsAre DEF b, ni
  <2>6. CASE n = c + 1
    <3>1. Len(song.chords) \in Nat
      BY SongIs, BytesAreNumbers
    <3> QED  BY <2>6, <3>1, ItemsAre DEF c
  <2>7. CASE n = c + 2
    <3>1. Len(song.tempos) \in Nat
      BY SongIs, BytesAreNumbers
    <3> QED  BY <2>7, <3>1, ItemsAre DEF c
  <2>8. CASE n = c + 3
    <3>1. song.subtunes \in Seq(Byte \X Byte)
      BY SongIs
    <3>2. Len(FlattenSeq(song.subtunes)) \in Nat
      BY <3>1, PairsAre, BytesAreNumbers
    <3> QED  BY <2>8, <3>2, ItemsAre DEF c
  <2>9. n \in 1 .. a \/ n - a \in 1 .. np \/ n - b \in 1 .. ni \/ n = c + 1 \/ n = c + 2 \/ n = c + 3
    BY <2>1, <2>2
  <2> QED  BY <2>3, <2>4, <2>5, <2>6, <2>7, <2>8, <2>9
<1> QED  BY <1>1

\* The items' ends lie in the bytes.
LEMMA EdgesAre ==
  ASSUME NEW bytes \in Seq(Byte), NEW starts \in Seq(Nat), NEW items, LaidOut(bytes, starts, items),
         \A n \in 1 .. Len(starts) : Len(items[n]) \in Nat
  PROVE  /\ \A n \in 0 .. Len(starts) : EdgeOf(bytes, starts, n) \in 0 .. Len(bytes)
         /\ EdgeOf(bytes, starts, Len(starts)) = Len(bytes)
<1> DEFINE m == Len(starts)
           l == Len(bytes)
           E(n) == EdgeOf(bytes, starts, n)
           S == {n \in 0 .. m : E(n) <= l}
<1>1. m \in Nat /\ l \in Nat
  BY LenProperties
<1>2. E(m) = l
  <2>1. ~(m < m)
    BY <1>1
  <2> QED  BY <2>1 DEF EdgeOf
<1>3. ASSUME NEW n \in 0 .. m PROVE E(n) \in Nat
  <2>1. n < m => n + 1 \in 1 .. m
    BY <1>1
  <2>2. \A k \in 1 .. m : starts[k] \in Nat
    BY ElementOfSeq
  <2> QED  BY <1>1, <2>1, <2>2 DEF EdgeOf
<1>4. \A n \in 1 .. m : E(n) = E(n - 1) + Len(items[n]) /\ Len(items[n]) \in Nat
  BY DEF LaidOut
<1> HIDE DEF m, l, E
<1>5. m \in S
  BY <1>1, <1>2
<1>6. ASSUME NEW n \in 1 .. m, n \in S PROVE n - 1 \in S
  <2>1. n - 1 \in 0 .. m /\ n \in 0 .. m
    BY <1>1
  <2> DEFINE x == E(n)
             y == E(n - 1)
             z == Len(items[n])
  <2>2. x = y + z /\ x <= l /\ x \in Nat /\ y \in Nat /\ z \in Nat
    BY <1>3, <1>4, <1>6, <2>1
  <2> HIDE DEF x, y, z
  <2>3. y <= l
    BY <1>1, <2>2
  <2> QED  BY <2>1, <2>3 DEF y
<1> HIDE DEF S
<1>7. 0 .. m \subseteq S
  BY <1>1, <1>5, <1>6, DownInduction
<1>8. \A n \in 0 .. m : E(n) \in 0 .. l
  BY <1>1, <1>3, <1>7 DEF S
<1> QED  BY <1>2, <1>8 DEF m, l, E

\* One item more.
LEMMA LaidOutGrows ==
  ASSUME NEW bytes \in Seq(Byte), NEW starts \in Seq(Nat), NEW items, LaidOut(bytes, starts, items),
         \A n \in 1 .. Len(starts) : Len(items[n]) \in Nat,
         NEW item \in Seq(Byte), item = items[Len(starts) + 1]
  PROVE  LaidOut(bytes \o item, Append(starts, Len(bytes)), items)
<1> DEFINE b == bytes \o item
           t == Append(starts, Len(bytes))
           m == Len(starts)
           E(n) == EdgeOf(bytes, starts, n)
           F(n) == EdgeOf(b, t, n)
<1>1. m \in Nat /\ Len(bytes) \in Nat /\ Len(item) \in Nat
  BY LenProperties
<1>2. /\ Len(b) = Len(bytes) + Len(item)
      /\ \A k \in 1 .. Len(bytes) : b[k] = bytes[k]
      /\ \A k \in 1 .. Len(item) : b[Len(bytes) + k] = item[k]
  BY ConcatAt
<1>3. Len(t) = m + 1 /\ t[m + 1] = Len(bytes) /\ \A k \in 1 .. m : t[k] = starts[k]
  BY <1>1, AppendProperties
<1>4. /\ E(0) = 0
      /\ \A n \in 1 .. m : /\ E(n) = E(n - 1) + Len(items[n]) /\ Len(items[n]) \in Nat
                           /\ \A k \in 1 .. Len(items[n]) : bytes[E(n - 1) + k] = items[n][k]
  BY DEF LaidOut
<1>5. (\A n \in 0 .. m : E(n) \in 0 .. Len(bytes)) /\ E(m) = Len(bytes)
  BY EdgesAre
<1> HIDE DEF b, t, m
<1>6. ASSUME NEW n \in 0 .. m PROVE F(n) = E(n)
  <2>1. n < Len(t) /\ n + 1 \in 1 .. m + 1
    BY <1>1, <1>3
  <2>2. CASE n < m
    <3>1. n + 1 \in 1 .. m
      BY <1>1, <2>2
    <3> QED  BY <1>3, <2>1, <2>2, <3>1 DEF EdgeOf, m
  <2>3. CASE ~(n < m)
    <3>1. n + 1 = m + 1
      BY <1>1, <2>3
    <3> QED  BY <1>3, <2>1, <2>3, <3>1 DEF EdgeOf, m
  <2> QED  BY <2>2, <2>3
<1>7. F(m + 1) = Len(b)
  <2>1. ~(m + 1 < Len(t))
    BY <1>1, <1>3
  <2> QED  BY <2>1 DEF EdgeOf
<1> HIDE DEF E, F
<1>8. ASSUME NEW n \in 1 .. m + 1
      PROVE  /\ F(n) = F(n - 1) + Len(items[n])
             /\ \A k \in 1 .. Len(items[n]) : b[F(n - 1) + k] = items[n][k]
  <2>1. n - 1 \in 0 .. m /\ F(n - 1) = E(n - 1)
    BY <1>1, <1>6
  <2>2. CASE n = m + 1
    <3>1. n - 1 = m /\ items[n] = item
      BY <1>1, <2>2 DEF m
    <3> QED  BY <1>2, <1>5, <1>7, <2>1, <2>2, <3>1
  <2>3. CASE n # m + 1
    <3>1. n \in 1 .. m /\ n \in 0 .. m
      BY <1>1, <2>3
    <3>2. /\ E(n) = E(n - 1) + Len(items[n]) /\ Len(items[n]) \in Nat
          /\ \A k \in 1 .. Len(items[n]) : bytes[E(n - 1) + k] = items[n][k]
      BY <1>4, <3>1
    <3>3. F(n) = E(n)
      BY <1>6, <3>1
    <3>4. ASSUME NEW k \in 1 .. Len(items[n]) PROVE b[E(n - 1) + k] = items[n][k]
      <4> DEFINE x == E(n - 1)
                 y == E(n)
                 z == Len(items[n])
                 l == Len(bytes)
      <4>1. x \in 0 .. l /\ y \in 0 .. l /\ y = x + z /\ z \in Nat /\ l \in Nat
        BY <1>1, <1>5, <2>1, <3>1, <3>2
      <4>2. k \in 1 .. z
        OBVIOUS
      <4> HIDE DEF x, y, z, l
      <4>3. x + k \in 1 .. l
        BY <4>1, <4>2
      <4> QED  BY <1>2, <3>2, <4>3 DEF x, l
    <3> QED  BY <2>1, <3>2, <3>3, <3>4
  <2> QED  BY <2>2, <2>3
<1>9. F(0) = 0
  <2>1. 0 \in 0 .. m
    BY <1>1
  <2> QED  BY <1>4, <1>6, <2>1
<1>10. \A n \in 1 .. Len(t) : n \in 1 .. m + 1
  BY <1>3
<1> QED  BY <1>8, <1>9, <1>10 DEF LaidOut, F, b, t

\* The items are the song's, and so is what is asked of it.
LEMMA SongKept ==
  ASSUME song' = song
  PROVE  /\ Items' = Items /\ Sequences' = Sequences /\ ToPatterns' = ToPatterns
         /\ ToInstruments' = ToInstruments /\ (References' <=> References) /\ (StreamsParse' <=> StreamsParse)
BY DEF Items, Sequences, ToPatterns, ToInstruments, References, StreamsParse

\* An item stored where it belongs.
LEMMA StoreHolds ==
  ASSUME TypeInv, WriterInv, stage = "writing", Len(marks) < ToInstruments,
         NEW bytes \in Seq(Byte), bytes = Items[Len(marks) + 1], Store(bytes)
  PROVE  WriterInv'
<1>1. /\ out' = out \o bytes /\ marks' = Append(marks, Len(out)) /\ song' = song /\ stage' = "writing"
  BY DEF Store
<1>2. out \in Seq(Byte) /\ marks \in Seq(Nat) /\ song \in Songs /\ Len(marks) \in Nat
  BY DEF TypeInv, TypeOK
<1>3. ToInstruments \in Nat
  BY <1>2, CountsAre
<1>4. \A n \in 1 .. Len(marks) : Len(Items[n]) \in Nat
  <2>1. \A n \in 1 .. Len(marks) : n \in 1 .. ToInstruments + 3
    BY <1>2, <1>3
  <2> QED  BY <1>2, <2>1, ItemLengths
<1>5. LaidOut(out, marks, Items) /\ References
  BY DEF WriterInv
<1>6. LaidOut(out \o bytes, Append(marks, Len(out)), Items)
  BY <1>2, <1>4, <1>5, LaidOutGrows
<1>7. Items' = Items /\ ToInstruments' = ToInstruments /\ References'
  BY <1>1, <1>5, SongKept
<1>8. Len(marks') = Len(marks) + 1
  BY <1>1, <1>2, AppendProperties
<1>9. Len(marks') <= ToInstruments
  BY <1>2, <1>3, <1>8
<1> QED  BY <1>1, <1>6, <1>7, <1>9 DEF WriterInv

\* The tables stored behind the rest.
LEMMA TablesStored ==
  ASSUME TypeInv, WriterInv, WriteTables, ~RefuseToWrite
  PROVE  WriterInv'
<1> DEFINE f == FlattenSeq(song.subtunes)
           ch == song.chords
           te == song.tempos
           o1 == out \o ch
           m1 == Append(marks, Len(out))
           o2 == o1 \o te
           m2 == Append(m1, Len(o1))
           o3 == o2 \o f
           m3 == Append(m2, Len(o2))
           c == ToInstruments
<1>1. /\ stage = "writing" /\ Len(marks) = c /\ stage' = "written" /\ song' = song
      /\ out' = ((out \o ch) \o te) \o f
      /\ marks' = marks \o <<Len(out), Len(out) + Len(ch), Len(out) + Len(ch \o te)>>
      /\ StreamsParse
  BY DEF WriteTables, StreamsParse
<1>2. out \in Seq(Byte) /\ marks \in Seq(Nat) /\ song \in Songs /\ Len(marks) \in Nat
  BY DEF TypeInv, TypeOK
<1>3. c \in Nat
  BY <1>2, CountsAre
<1>4. ch \in Seq(Byte) /\ te \in Seq(Byte) /\ f \in Seq(Byte)
  <2>1. song.subtunes \in Seq(Byte \X Byte)
    BY <1>2, SongIs
  <2> QED  BY <1>2, <2>1, SongIs, PairsAre, BytesAre
<1>5. Items[c + 1] = ch /\ Items[c + 2] = te /\ Items[c + 3] = f
  BY <1>2, ItemsAre
<1>6. \A n \in 1 .. c + 3 : Len(Items[n]) \in Nat
  BY <1>2, ItemLengths
<1>7. LaidOut(out, marks, Items) /\ References
  BY <1>1 DEF WriterInv
<1> HIDE DEF f, ch, te, c
<1>8. o1 \in Seq(Byte) /\ m1 \in Seq(Nat) /\ Len(m1) = c + 1 /\ LaidOut(o1, m1, Items)
  <2>1. \A n \in 1 .. Len(marks) : Len(Items[n]) \in Nat
    BY <1>1, <1>3, <1>6
  <2>2. LaidOut(out \o ch, Append(marks, Len(out)), Items)
    BY <1>1, <1>2, <1>4, <1>5, <1>7, <2>1, LaidOutGrows
  <2>3. Len(out) \in Nat
    BY <1>2, LenProperties
  <2> QED  BY <1>1, <1>2, <1>4, <2>2, <2>3, AppendProperties
<1> HIDE DEF o1, m1
<1>9. o2 \in Seq(Byte) /\ m2 \in Seq(Nat) /\ Len(m2) = c + 2 /\ LaidOut(o2, m2, Items)
  <2>1. \A n \in 1 .. Len(m1) : Len(Items[n]) \in Nat
    BY <1>3, <1>6, <1>8
  <2>2. te = Items[Len(m1) + 1]
    BY <1>3, <1>5, <1>8
  <2>3. LaidOut(o1 \o te, Append(m1, Len(o1)), Items)
    BY <1>4, <1>8, <2>1, <2>2, LaidOutGrows
  <2>4. Len(o1) \in Nat
    BY <1>8, LenProperties
  <2>5. Len(m2) = c + 2
    BY <1>3, <1>8, <2>4, AppendProperties
  <2> QED  BY <1>4, <1>8, <2>3, <2>4, <2>5, AppendProperties
<1> HIDE DEF o2, m2
<1>10. o3 \in Seq(Byte) /\ m3 \in Seq(Nat) /\ Len(m3) = c + 3 /\ LaidOut(o3, m3, Items)
  <2>1. \A n \in 1 .. Len(m2) : Len(Items[n]) \in Nat
    BY <1>3, <1>6, <1>9
  <2>2. f = Items[Len(m2) + 1]
    BY <1>3, <1>5, <1>9
  <2>3. LaidOut(o2 \o f, Append(m2, Len(o2)), Items)
    BY <1>4, <1>9, <2>1, <2>2, LaidOutGrows
  <2>4. Len(o2) \in Nat
    BY <1>9, LenProperties
  <2>5. Len(m3) = c + 3
    BY <1>3, <1>9, <2>4, AppendProperties
  <2> QED  BY <1>4, <1>9, <2>3, <2>4, <2>5, AppendProperties
<1>11. out' = o3
  BY <1>1 DEF o1, o2
<1>12. marks' = m3
  <2> DEFINE x == Len(out)
             y == Len(o1)
             z == Len(o2)
             p == Len(ch)
             q == Len(ch \o te)
  <2>1. x \in Nat /\ p \in Nat /\ q \in Nat /\ y = x + p
    BY <1>2, <1>4, LenProperties, ConcatProperties DEF o1
  <2>2. o2 = out \o (ch \o te) /\ ch \o te \in Seq(Byte)
    <3>1. ch \o te \in Seq(Byte)
      BY <1>4
    <3>2. (out \o ch) \o te = out \o (ch \o te)
      <4>1. out \in Seq(Byte) /\ ch \in Seq(Byte) /\ te \in Seq(Byte)
        BY <1>2, <1>4
      <4> QED  BY ONLY <4>1, ConcatAssociative
    <3> QED  BY <3>1, <3>2 DEF o1, o2
  <2>3. z = x + q
    BY <1>2, <2>2, ConcatProperties
  <2>4. marks' = marks \o <<x, x + p, x + q>> /\ m3 = Append(Append(Append(marks, x), y), z)
    BY <1>1 DEF m1, m2
  <2> HIDE DEF x, y, z, p, q, m3
  <2>5. x + p \in Nat /\ x + q \in Nat
    BY <2>1
  <2> DEFINE v == x + p
             w == x + q
  <2> HIDE DEF v, w
  <2>6. v \in Nat /\ w \in Nat /\ x \in Nat /\ y = v /\ z = w
    BY <2>1, <2>3, <2>5 DEF v, w
  <2>7. marks \o <<x, v, w>> = Append(Append(Append(marks, x), v), w)
    BY <1>2, <2>6
  <2> QED  BY <2>4, <2>6, <2>7 DEF v, w
<1>13. Items' = Items /\ ToInstruments' = c /\ References' /\ StreamsParse'
  BY <1>1, <1>7, SongKept DEF c
<1>14. LaidOut(out', marks', Items')
  BY <1>10, <1>11, <1>12, <1>13
<1>15. Len(marks') = ToInstruments' + 3
  BY <1>10, <1>12, <1>13
<1> QED  BY <1>1, <1>13, <1>14, <1>15 DEF WriterInv

\* The reader leaves what is written alone.
LEMMA ReadLeaves ==
  ASSUME Read
  PROVE  UNCHANGED <<written, file>> /\ stage \notin BeforeOpen /\ stage' \notin BeforeOpen
<1>1. CASE RefuseToRead
  <2>1. UNCHANGED <<written, file>> /\ stage' = "refused"
    BY <1>1 DEF RefuseToRead
  <2>2. stage \in {"subtunes", "tempos", "chords", "instruments", "patterns", "body", "sequences"}
    BY DEF Read, ReadSubtunes, ReadTempos, ReadChords, ReadInstrument, InstrumentsRead, ReadPatternSize,
           WalkByte, ReadPatternBody, PatternsRead, ReadSequence, Finish
  <2> QED  BY <2>1, <2>2 DEF BeforeOpen
<1>2. CASE ~RefuseToRead
  <2>1. ReadSubtunes \/ ReadTempos \/ ReadChords =>
          UNCHANGED <<written, file>> /\ stage \in {"subtunes", "tempos", "chords"}
          /\ stage' \in {"tempos", "chords", "instruments"}
    BY <1>2 DEF ReadSubtunes, ReadTempos, ReadChords
  <2>2. ReadInstrument \/ InstrumentsRead =>
          UNCHANGED <<written, file>> /\ stage = "instruments" /\ stage' \in {"instruments", "patterns"}
    BY <1>2 DEF ReadInstrument, InstrumentsRead
  <2>3. ReadPatternSize \/ WalkByte \/ ReadPatternBody \/ PatternsRead =>
          UNCHANGED <<written, file>> /\ stage \in {"patterns", "body"}
          /\ stage' \in {"patterns", "body", "sequences"}
    BY <1>2 DEF ReadPatternSize, WalkByte, ReadPatternBody, PatternsRead
  <2>4. ReadSequence \/ Finish =>
          UNCHANGED <<written, file>> /\ stage = "sequences" /\ stage' \in {"sequences", "read"}
    BY <1>2 DEF ReadSequence, Finish
  <2> QED  BY <2>1, <2>2, <2>3, <2>4 DEF Read, BeforeOpen
<1> QED  BY <1>1, <1>2

\* The writer puts item after item.
LEMMA WriterHolds == ASSUME TypeInv, WriterInv, [Next]_vars PROVE WriterInv'
<1>0. song \in Songs /\ Len(marks) \in Nat /\ marks \in Seq(Nat)
  BY DEF TypeInv, TypeOK
<1>c. /\ Sequences \in Nat /\ Len(song.patterns) \in Nat /\ Len(song.instruments) \in Nat
      /\ ToPatterns = Sequences + Len(song.patterns) /\ ToInstruments = ToPatterns + Len(song.instruments)
      /\ Len(song.sequences) = Sequences /\ ToPatterns \in Nat /\ ToInstruments \in Nat
  BY <1>0, CountsAre
<1>d. /\ Len(marks) + 1 \in 1 .. Len(song.sequences) =>
           Len(marks) < ToInstruments /\ Len(marks) + 1 \in 1 .. Sequences
      /\ Sequences + (Len(marks) - Sequences + 1) = Len(marks) + 1
      /\ Len(marks) - Sequences + 1 \in 1 .. Len(song.patterns) => Len(marks) < ToInstruments
      /\ ToPatterns + (Len(marks) - ToPatterns + 1) = Len(marks) + 1
      /\ Len(marks) - ToPatterns + 1 \in 1 .. Len(song.instruments) => Len(marks) < ToInstruments
  <2> DEFINE m == Len(marks)
             a == Sequences
             b == ToPatterns
             c == ToInstruments
             np == Len(song.patterns)
             ni == Len(song.instruments)
  <2> HIDE DEF m, a, b, c, np, ni
  <2>1. m \in Nat /\ a \in Nat /\ np \in Nat /\ ni \in Nat /\ b = a + np /\ c = b + ni
        /\ Len(song.sequences) = a
    BY <1>0, <1>c DEF m, a, b, c, np, ni
  <2>2. /\ m + 1 \in 1 .. a => m < c
        /\ a + (m - a + 1) = m + 1
        /\ m - a + 1 \in 1 .. np => m < c
        /\ b + (m - b + 1) = m + 1
        /\ m - b + 1 \in 1 .. ni => m < c
    BY <2>1
  <2> QED  BY <2>1, <2>2 DEF m, a, b, c, np, ni
<1>1. ASSUME UNCHANGED <<song, out, marks>>,
             \/ stage' = stage \/ stage' = "unwritten"
             \/ stage = "song" /\ stage' = "writing" /\ References
             \/ stage \notin {"song", "writing", "unwritten"} /\ stage' \notin {"song", "writing", "unwritten"}
      PROVE  WriterInv'
  <2>1. /\ song' = song /\ out' = out /\ marks' = marks
    BY <1>1
  <2>2. /\ Items' = Items /\ ToInstruments' = ToInstruments
        /\ (References' <=> References) /\ (StreamsParse' <=> StreamsParse)
    BY <2>1, SongKept
  <2> QED  BY <1>1, <2>1, <2>2 DEF WriterInv
<1>2. CASE UNCHANGED vars
  BY <1>1, <1>2 DEF vars, written
<1>3. CASE RefuseToWrite
  BY <1>1, <1>3 DEF RefuseToWrite, written
<1>4. CASE CheckSong
  BY <1>1, <1>3, <1>4 DEF CheckSong, written
<1>5. CASE WriteSequence
  <2> DEFINE n == Len(marks) + 1
  <2>1. stage = "writing" /\ n \in 1 .. Len(song.sequences)
    BY <1>5, ItemsStored
  <2>2. RefuseToWrite \/ (Store(SequenceItem(song.sequences[n])) /\ SequenceItem(song.sequences[n]) \in Seq(Byte))
    BY <1>5, ItemsStored
  <2>3. Len(marks) < ToInstruments /\ n \in 1 .. Sequences
    BY <1>d, <2>1
  <2>4. SequenceItem(song.sequences[n]) = Items[n]
    BY <1>0, <2>3, ItemsAre
  <2> QED  BY <1>3, <2>1, <2>2, <2>3, <2>4, StoreHolds
<1>6. CASE WritePattern
  <2> DEFINE i == Len(marks) - Sequences + 1
  <2>1. stage = "writing" /\ i \in 1 .. Len(song.patterns)
    BY <1>6, ItemsStored
  <2>2. RefuseToWrite \/ (Store(PatternItem(song.patterns[i])) /\ PatternItem(song.patterns[i]) \in Seq(Byte))
    BY <1>6, ItemsStored
  <2>3. Sequences + i = Len(marks) + 1
    BY <1>d
  <2>4. Len(marks) < ToInstruments
    BY <1>d, <2>1
  <2> HIDE DEF i
  <2>5. PatternItem(song.patterns[i]) = Items[Len(marks) + 1]
    BY <1>0, <2>1, <2>3, ItemsAre
  <2> QED  BY <1>3, <2>1, <2>2, <2>4, <2>5, StoreHolds
<1>7. CASE WriteInstrument
  <2> DEFINE i == Len(marks) - ToPatterns + 1
  <2>1. stage = "writing" /\ i \in 1 .. Len(song.instruments)
    BY <1>7, ItemsStored
  <2>2. RefuseToWrite
        \/ (Store(InstrumentItem(song.instruments[i])) /\ InstrumentItem(song.instruments[i]) \in Seq(Byte))
    BY <1>7, ItemsStored
  <2>3. ToPatterns + i = Len(marks) + 1
    BY <1>d
  <2>4. Len(marks) < ToInstruments
    BY <1>d, <2>1
  <2> HIDE DEF i
  <2>5. InstrumentItem(song.instruments[i]) = Items[Len(marks) + 1]
    BY <1>0, <2>1, <2>3, ItemsAre
  <2> QED  BY <1>3, <2>1, <2>2, <2>4, <2>5, StoreHolds
<1>8. CASE WriteTables
  BY <1>3, <1>8, TablesStored
<1>9. CASE Open
  <2>1. UNCHANGED <<song, out, marks>> /\ stage = "written" /\ stage' = "subtunes"
    BY <1>9 DEF Open, written
  <2> QED  BY <1>1, <2>1
<1>10. CASE Read
  <2>1. UNCHANGED <<song, out, marks>> /\ stage \notin BeforeOpen /\ stage' \notin BeforeOpen
    BY <1>10, ReadLeaves DEF written
  <2> QED  BY <1>1, <2>1 DEF BeforeOpen
<1> QED  BY <1>2, <1>4, <1>5, <1>6, <1>7, <1>8, <1>9, <1>10, Zenon DEF Next, Write

-----------------------------------------------------------------------------
(* Where the reader is.                                                     *)

\* The bytes the file has lost, negative if it has gained some; and the place in
\* the writer's bytes the cursor stands at.
Cut == Len(out) - Len(file)
At == cursor + Cut

Edge(n) == EdgeOf(out, marks, n)

\* What the file still has of the writer's bytes.
Damaged == \A i \in 1 .. Len(file) : i + Cut >= 1 => file[i] = out[i + Cut]

InstrumentsLeft == Len(song.instruments) - Len(got.instruments)
PatternsLeft == Len(song.patterns) - Len(got.patterns)
SequencesLeft == Len(song.sequences) - Len(got.sequences)

\* Which parts have been read at which stage.
Early == BeforeOpen \cup {"subtunes", "tempos", "chords"}
CountInv ==
  /\ got = [sequences |-> got.sequences, patterns |-> got.patterns, instruments |-> got.instruments,
            chords |-> got.chords, tempos |-> got.tempos, subtunes |-> got.subtunes]
  /\ IsSeq(got.sequences) /\ IsSeq(got.patterns) /\ IsSeq(got.instruments)
  /\ InstrumentsLeft >= 0 /\ PatternsLeft >= 0 /\ SequencesLeft >= 0
  /\ stage \in Early => got.instruments = <<>>
  /\ stage \in {"patterns", "body", "sequences", "read"} => InstrumentsLeft = 0
  /\ stage \in Early \cup {"instruments"} => got.patterns = <<>>
  /\ stage = "body" => PatternsLeft > 0
  /\ stage \in {"sequences", "read"} => PatternsLeft = 0
  /\ stage \in Early \cup {"instruments", "patterns", "body"} => got.sequences = <<>>
  /\ stage = "read" => SequencesLeft = 0 /\ cursor = 0

\* In a pattern's body the unpacked bytes still to come are those that the packed
\* ones before the cursor stand for.
InBody ==
  LET pattern == song.patterns[PatternsLeft]
      start == Edge(Sequences + PatternsLeft - 1)
      walked == At - start
  IN  /\ ~pattern.slot
      /\ end + Cut = start + Len(Packed(pattern))
      /\ end + 2 <= Len(file) /\ file[end + 2] = pattern.length
      /\ walked \in 0 .. Len(Packed(pattern))
      /\ IF walked = 0 THEN j < 0 ELSE j = Len(UnpackUpto(Packed(pattern))[walked]) - 1

\* The reader stands between two of the writer's items, or in a pattern's body,
\* and has read the items behind it.
Synced ==
  /\ stage # "refused"
  /\ stage = "subtunes" => At = Edge(ToInstruments + 3)
  /\ stage = "tempos" => At = Edge(ToInstruments + 2)
  /\ stage = "chords" => At = Edge(ToInstruments + 1)
  /\ stage = "instruments" => At = Edge(ToPatterns + InstrumentsLeft)
  /\ stage = "patterns" => At = Edge(Sequences + PatternsLeft)
  /\ stage = "body" => InBody
  /\ stage = "sequences" => At = Edge(SequencesLeft)
  /\ stage = "read" => At = Edge(0)
  /\ stage # "subtunes" => got.subtunes = song.subtunes
  /\ stage \notin {"subtunes", "tempos"} => got.tempos = song.tempos
  /\ stage \notin {"subtunes", "tempos", "chords"} => got.chords = song.chords
  /\ IsTail(got.sequences, song.sequences)
  /\ IsTail(got.patterns, song.patterns)
  /\ IsTail(got.instruments, song.instruments)

\* The walk has come to where the file was cut off.
Lost ==
  /\ cursor = 0 /\ Cut > 0
  /\ stage \in {"body", "patterns", "sequences"}
  /\ got.sequences = <<>>

\* Once the file is open, one or the other.
PositionInv == stage \notin BeforeOpen \cup {"refused"} /\ Telling => Synced \/ Lost

\* What holds of any file, also of one that misleads the reader.
ReadInv == TypeInv /\ WriterInv /\ Damaged /\ CountInv

\* The sequences a song is made of have lengths.
LEMMA LengthsAre ==
  ASSUME ReadInv
  PROVE  /\ Len(song.sequences) \in Nat /\ Len(song.patterns) \in Nat /\ Len(song.instruments) \in Nat
         /\ Len(got.sequences) \in Nat /\ Len(got.patterns) \in Nat /\ Len(got.instruments) \in Nat
         /\ Len(out) \in Nat /\ Len(file) \in Nat /\ cursor \in 0 .. Len(file) /\ Cut \in Int /\ At \in Int
         /\ Sequences = Len(song.sequences) /\ Len(marks) \in Nat
         /\ ToPatterns = Sequences + Len(song.patterns) /\ ToInstruments = ToPatterns + Len(song.instruments)
         /\ song \in Songs /\ file \in Bytes
<1>1. song \in Songs /\ out \in Seq(Byte) /\ file \in Seq(Byte) /\ cursor \in 0 .. Len(file) /\ marks \in Seq(Nat)
  BY DEF ReadInv, TypeInv, TypeOK
<1>2. Len(song.sequences) \in Nat /\ Len(song.patterns) \in Nat /\ Len(song.instruments) \in Nat
      /\ Sequences = Len(song.sequences)
      /\ ToPatterns = Sequences + Len(song.patterns) /\ ToInstruments = ToPatterns + Len(song.instruments)
  BY <1>1, CountsAre
<1>3. Len(out) \in Nat /\ Len(file) \in Nat /\ Len(marks) \in Nat
  BY <1>1, LenProperties
<1>4. \A s : IsSeq(s) => Len(s) \in Nat
  BY LenProperties DEF IsSeq
<1>5. Len(got.sequences) \in Nat /\ Len(got.patterns) \in Nat /\ Len(got.instruments) \in Nat
  BY <1>4 DEF ReadInv, CountInv
<1>6. Cut \in Int /\ At \in Int
  <2> DEFINE l == Len(out)
             f == Len(file)
  <2>1. l \in Nat /\ f \in Nat /\ cursor \in 0 .. f
    BY <1>1, <1>3
  <2> HIDE DEF l, f
  <2>2. l - f \in Int /\ cursor + (l - f) \in Int
    BY <2>1
  <2> QED  BY <2>2 DEF Cut, At, l, f
<1> QED  BY <1>1, <1>2, <1>3, <1>5, <1>6, BytesAre

\* The item behind which the cursor stands is in the file as far as the file goes.
LEMMA ItemBefore ==
  ASSUME ReadInv, NEW n \in 1 .. Len(marks), At = Edge(n), stage \notin BeforeOpen
  PROVE  LET l == Len(Items[n])
         IN  /\ l \in Nat /\ Edge(n - 1) \in Nat /\ Edge(n) \in Nat
             /\ (cursor - l) + Cut = Edge(n - 1)
             /\ file = out => cursor >= l
             /\ \A k \in 1 .. l : cursor - l + k >= 1 =>
                  cursor - l + k \in 1 .. Len(file) /\ file[cursor - l + k] = Items[n][k]
<1> DEFINE l == Len(Items[n])
           x == Edge(n - 1)
           y == Edge(n)
           f == Len(file)
<1>1. out \in Seq(Byte) /\ marks \in Seq(Nat) /\ song \in Songs /\ Len(marks) \in Nat
      /\ Len(marks) = ToInstruments + 3 /\ LaidOut(out, marks, Items)
  BY LengthsAre DEF ReadInv, TypeInv, TypeOK, WriterInv, BeforeOpen
<1>2. \A i \in 1 .. Len(marks) : Len(Items[i]) \in Nat
  BY <1>1, ItemLengths
<1>3. (\A i \in 0 .. Len(marks) : EdgeOf(out, marks, i) \in 0 .. Len(out))
  BY <1>1, <1>2, EdgesAre
<1>4. n \in 0 .. Len(marks) /\ n - 1 \in 0 .. Len(marks)
  BY <1>1
<1>5. x \in 0 .. Len(out) /\ y \in 0 .. Len(out) /\ l \in Nat
  BY <1>2, <1>3, <1>4 DEF Edge
<1>6. y = x + l /\ \A k \in 1 .. l : out[x + k] = Items[n][k]
  BY <1>1 DEF LaidOut, Edge
<1>7. cursor \in 0 .. f /\ f \in Nat /\ Cut \in Int /\ cursor + Cut = y /\ Len(out) \in Nat
  BY LengthsAre DEF At
<1>8. file = out => Cut = 0
  <2>1. ASSUME file = out PROVE Cut = 0
    <3>1. Cut = Len(out) - Len(out)
      BY <2>1 DEF Cut
    <3> QED  BY <1>7, <3>1
  <2> QED  BY <2>1
<1>d. Damaged
  BY DEF ReadInv
<1> HIDE DEF l, x, y, f
<1>9. (cursor - l) + Cut = x
  BY <1>5, <1>6, <1>7
<1>10. file = out => cursor >= l
  BY <1>5, <1>6, <1>7, <1>8
<1>11. ASSUME NEW k \in 1 .. l, cursor - l + k >= 1
       PROVE  cursor - l + k \in 1 .. f /\ file[cursor - l + k] = Items[n][k]
  <2> DEFINE i == cursor - l + k
  <2>1. i \in 1 .. f /\ i + Cut = x + k /\ x + k >= 1
    BY <1>5, <1>7, <1>9, <1>11
  <2> HIDE DEF i
  <2>2. file[i] = out[i + Cut]
    BY <1>d, <2>1 DEF Damaged, f
  <2> QED  BY <1>6, <2>1, <2>2 DEF i
<1> QED  BY <1>5, <1>9, <1>10, <1>11 DEF l, x, y, f

\* A part of an item that is in the file as a whole.
LEMMA PartBefore ==
  ASSUME ReadInv, NEW n \in 1 .. Len(marks), At = Edge(n), stage \notin BeforeOpen,
         cursor >= Len(Items[n]), NEW a \in 1 .. Len(Items[n]) + 1, NEW b \in a - 1 .. Len(Items[n]),
         NEW s, IsSeq(s), Len(s) = b - a + 1, \A k \in 1 .. b - a + 1 : s[k] = Items[n][a + k - 1]
  PROVE  SubSeq(file, cursor - Len(Items[n]) + a, cursor - Len(Items[n]) + b) = s
<1> DEFINE l == Len(Items[n])
           f == Len(file)
           o == cursor - l
           t == SubSeq(file, o + a, o + b)
<1>1. l \in Nat /\ \A k \in 1 .. l : o + k >= 1 => o + k \in 1 .. f /\ file[o + k] = Items[n][k]
  BY ItemBefore
<1>2. cursor \in 0 .. f /\ f \in Nat /\ file \in Bytes /\ cursor >= l
  BY LengthsAre
<1>3. a \in 1 .. l + 1 /\ b \in a - 1 .. l
  OBVIOUS
<1> HIDE DEF l, f
<1>4. o \in Nat /\ o + a \in 1 .. f + 1 /\ o + b \in (o + a) - 1 .. f /\ (o + b) - (o + a) + 1 = b - a + 1
  BY <1>1, <1>2, <1>3
<1>5. /\ t \in Bytes /\ Len(t) = (o + b) - (o + a) + 1
      /\ \A k \in 1 .. (o + b) - (o + a) + 1 : t[k] = file[o + a + k - 1]
  BY <1>2, <1>4, BytesBetween DEF f
<1>n. l \in Nat /\ o \in Nat
  BY <1>1, <1>4
<1> HIDE DEF o
<1>6. ASSUME NEW k \in 1 .. b - a + 1 PROVE t[k] = s[k]
  <2>1. /\ a + k - 1 \in 1 .. l /\ o + (a + k - 1) >= 1 /\ o + (a + k - 1) = o + a + k - 1
        /\ k \in 1 .. (o + b) - (o + a) + 1
    BY ONLY <1>n, <1>3, k \in 1 .. b - a + 1
  <2>2. file[o + (a + k - 1)] = Items[n][a + k - 1]
    BY <1>1, <2>1
  <2> QED  BY <1>5, <2>1, <2>2
<1>7. Len(t) = Len(s) /\ IsSeq(t) /\ IsSeq(s)
  BY <1>4, <1>5 DEF IsSeq, Bytes
<1>8. Len(t) = b - a + 1
  BY <1>4, <1>5
<1> HIDE DEF t
<1>9. t = s
  BY <1>6, <1>7, <1>8, SeqsEqual
<1> QED  BY <1>9 DEF t, o, l

\* What is asked of a file that stays the same is the same.
LEMMA SameFile ==
  ASSUME UNCHANGED <<written, file>>
  PROVE  /\ song' = song /\ out' = out /\ marks' = marks /\ file' = file /\ Cut' = Cut
         /\ Items' = Items /\ (\A n : Edge(n)' = Edge(n)) /\ (Telling' <=> Telling) /\ (Damaged' <=> Damaged)
         /\ Sequences' = Sequences /\ ToPatterns' = ToPatterns /\ ToInstruments' = ToInstruments
         /\ Len(marks)' = Len(marks) /\ Len(file)' = Len(file)
<1>1. song' = song /\ out' = out /\ marks' = marks /\ file' = file
  BY DEF written
<1>2. Items' = Items /\ Sequences' = Sequences /\ ToPatterns' = ToPatterns /\ ToInstruments' = ToInstruments
  BY <1>1, SongKept
<1>3. Cut' = Cut
  BY <1>1 DEF Cut
<1>4. \A n : Edge(n)' = Edge(n)
  BY <1>1 DEF Edge, EdgeOf
<1>5. Telling' <=> Telling
  BY <1>1, <1>2 DEF Telling
<1>6. Damaged' <=> Damaged
  BY <1>1, <1>3 DEF Damaged
<1> QED  BY <1>1, <1>2, <1>3, <1>4, <1>5, <1>6

\* The file is the writer's bytes without the first ones, or with some before them.
LEMMA DamagedHolds == ASSUME TypeInv, Damaged, [Next]_vars PROVE Damaged'
<1>1. CASE Write
  <2>1. stage \in BeforeOpen /\ file' = file
    BY <1>1 DEF Write, CheckSong, WriteSequence, WritePattern, WriteInstrument, WriteTables, Store,
                RefuseToWrite, BeforeOpen
  <2>2. file' = <<>>
    BY <2>1 DEF TypeInv
  <2>3. \A i : ~(i \in 1 .. Len(file'))
    BY <2>2
  <2> QED  BY <2>3 DEF Damaged
<1>2. CASE UNCHANGED vars \/ Read
  BY <1>2, SameFile, ReadLeaves DEF vars
<1>3. CASE Open
  <2>1. out \in Bytes /\ Len(out) \in Nat /\ out \in Seq(Byte) /\ out' = out
    BY <1>3, BytesAre DEF TypeInv, TypeOK, Open, written
  <2>2. ASSUME NEW k \in Losses, k <= Len(out), file' = SubSeq(out, k + 1, Len(out)) PROVE Damaged'
    <3> DEFINE l == Len(out)
    <3>1. k \in Nat /\ l \in Nat
      BY <2>1, DamageAssumption
    <3> HIDE DEF l
    <3>2. k + 1 \in 1 .. l + 1 /\ l \in (k + 1) - 1 .. l /\ l - (k + 1) + 1 = l - k /\ l - (l - k) = k
      BY <2>2, <3>1 DEF l
    <3>3. /\ Len(file') = l - (k + 1) + 1
          /\ \A i \in 1 .. l - (k + 1) + 1 : file'[i] = out[k + 1 + i - 1]
      BY <2>1, <2>2, <3>2, BytesBetween DEF l
    <3>4. Cut' = k
      BY <2>1, <3>2, <3>3 DEF Cut, l
    <3>5. \A i \in 1 .. l - k : k + 1 + i - 1 = i + k
      BY <3>1
    <3> QED  BY <2>1, <3>2, <3>3, <3>4, <3>5 DEF Damaged
  <2>3. ASSUME NEW junk \in Junk, file' = junk \o out PROVE Damaged'
    <3> DEFINE l == Len(out)
               m == Len(junk)
    <3>1. junk \in Seq(Byte) /\ l \in Nat /\ m \in Nat
      BY <2>1, DamageAssumption
    <3>2. /\ Len(file') = m + l
          /\ \A i \in 1 .. m + l : file'[i] = IF i <= m THEN junk[i] ELSE out[i - m]
      BY <2>1, <2>3, <3>1, ConcatProperties
    <3> HIDE DEF l, m
    <3>3. l - (m + l) = -m
      BY <3>1
    <3>4. Cut' = -m
      BY <2>1, <3>2, <3>3 DEF Cut, l
    <3>5. \A i \in 1 .. m + l : i + (-m) >= 1 => ~(i <= m) /\ i + (-m) = i - m
      BY <3>1
    <3> QED  BY <2>1, <3>2, <3>4, <3>5 DEF Damaged
  <2>4. \/ \E k \in Losses : k <= Len(out) /\ file' = SubSeq(out, k + 1, Len(out))
        \/ \E junk \in Junk : file' = junk \o out
    BY <1>3 DEF Open
  <2> QED  BY <2>2, <2>3, <2>4
<1> QED  BY <1>1, <1>2, <1>3 DEF Next

\* How many items are left to read.
LEMMA LeftAre ==
  ASSUME ReadInv
  PROVE  /\ InstrumentsLeft \in 0 .. Len(song.instruments) /\ PatternsLeft \in 0 .. Len(song.patterns)
         /\ SequencesLeft \in 0 .. Len(song.sequences)
         /\ (Len(got.instruments) < Len(song.instruments) <=> InstrumentsLeft > 0)
         /\ (Len(got.instruments) = Len(song.instruments) <=> InstrumentsLeft = 0)
         /\ (Len(got.patterns) < Len(song.patterns) <=> PatternsLeft > 0)
         /\ (Len(got.patterns) = Len(song.patterns) <=> PatternsLeft = 0)
         /\ (Len(got.sequences) < Sequences <=> SequencesLeft > 0)
         /\ (Len(got.sequences) = Sequences <=> SequencesLeft = 0)
<1> DEFINE a == Len(song.instruments)
           b == Len(song.patterns)
           c == Len(song.sequences)
           x == Len(got.instruments)
           y == Len(got.patterns)
           z == Len(got.sequences)
<1>1. a \in Nat /\ b \in Nat /\ c \in Nat /\ x \in Nat /\ y \in Nat /\ z \in Nat /\ Sequences = c
  BY LengthsAre
<1>2. a - x >= 0 /\ b - y >= 0 /\ c - z >= 0
  BY DEF ReadInv, CountInv, InstrumentsLeft, PatternsLeft, SequencesLeft
<1> HIDE DEF a, b, c, x, y, z
<1>3. /\ a - x \in 0 .. a /\ b - y \in 0 .. b /\ c - z \in 0 .. c
      /\ (x < a <=> a - x > 0) /\ (x = a <=> a - x = 0)
      /\ (y < b <=> b - y > 0) /\ (y = b <=> b - y = 0)
      /\ (z < c <=> c - z > 0) /\ (z = c <=> c - z = 0)
  BY <1>1, <1>2
<1> QED  BY <1>1, <1>3 DEF a, b, c, x, y, z, InstrumentsLeft, PatternsLeft, SequencesLeft

\* One item more read is one less left.
LEMMA OneLess ==
  ASSUME NEW s, IsSeq(s), NEW x, NEW n \in Nat
  PROVE  n - Len(Prepend(x, s)) = (n - Len(s)) - 1
<1> DEFINE a == Len(s)
           b == Len(Prepend(x, s))
<1>1. a \in Nat /\ b = a + 1
  BY PrependIs
<1> HIDE DEF a, b
<1>2. n - b = (n - a) - 1
  BY <1>1
<1> QED  BY <1>2 DEF a, b

\* What has been read is what the stage says.
LEMMA CountHolds == ASSUME ReadInv, [Next]_vars PROVE CountInv'
<1>0. /\ CountInv /\ TypeInv
      /\ Len(song.instruments) \in Nat /\ Len(song.patterns) \in Nat /\ Len(song.sequences) \in Nat
      /\ InstrumentsLeft \in Int /\ PatternsLeft \in Int /\ SequencesLeft \in Int
      /\ (Len(got.instruments) < Len(song.instruments) => InstrumentsLeft > 0)
      /\ (Len(got.instruments) = Len(song.instruments) => InstrumentsLeft = 0)
      /\ (Len(got.patterns) < Len(song.patterns) => PatternsLeft > 0)
      /\ (Len(got.patterns) = Len(song.patterns) => PatternsLeft = 0)
      /\ (Len(got.sequences) < Sequences => SequencesLeft > 0)
      /\ (Len(got.sequences) = Sequences => SequencesLeft = 0)
  BY LengthsAre, LeftAre DEF ReadInv
<1>1. ASSUME song' = song, got' = got,
             \/ stage' = stage /\ (cursor' = cursor \/ stage # "read")
             \/ stage' = "refused"
             \/ stage \in Early /\ stage' \in Early
             \/ stage = "instruments" /\ stage' = "patterns" /\ InstrumentsLeft = 0
             \/ stage = "patterns" /\ stage' = "sequences" /\ PatternsLeft = 0
             \/ stage = "patterns" /\ stage' = "body" /\ PatternsLeft > 0
             \/ stage = "sequences" /\ stage' = "read" /\ SequencesLeft = 0 /\ cursor' = 0
      PROVE  CountInv'
  <2>1. InstrumentsLeft' = InstrumentsLeft /\ PatternsLeft' = PatternsLeft /\ SequencesLeft' = SequencesLeft
    BY <1>1 DEF InstrumentsLeft, PatternsLeft, SequencesLeft
  <2> QED  BY <1>0, <1>1, <2>1 DEF CountInv, Early, BeforeOpen
<1>2. ASSUME song' = song, NEW e,
             \/ got' = [got EXCEPT !.subtunes = e]
             \/ got' = [got EXCEPT !.tempos = e]
             \/ got' = [got EXCEPT !.chords = e],
             stage \in Early, stage' \in Early \cup {"instruments"}
      PROVE  CountInv'
  <2>1. /\ got'.instruments = got.instruments /\ got'.patterns = got.patterns /\ got'.sequences = got.sequences
        /\ got' = [sequences |-> got'.sequences, patterns |-> got'.patterns, instruments |-> got'.instruments,
                   chords |-> got'.chords, tempos |-> got'.tempos, subtunes |-> got'.subtunes]
    BY <1>0, <1>2 DEF CountInv
  <2>2. InstrumentsLeft' = InstrumentsLeft /\ PatternsLeft' = PatternsLeft /\ SequencesLeft' = SequencesLeft
    BY <1>2, <2>1 DEF InstrumentsLeft, PatternsLeft, SequencesLeft
  <2> QED  BY <1>0, <1>2, <2>1, <2>2 DEF CountInv, Early, BeforeOpen
<1>3. ASSUME song' = song, NEW x, got' = [got EXCEPT !.instruments = Prepend(x, @)],
             stage = "instruments", stage' = "instruments", InstrumentsLeft > 0
      PROVE  CountInv'
  <2>1. /\ got'.instruments = Prepend(x, got.instruments)
        /\ got'.patterns = got.patterns /\ got'.sequences = got.sequences
        /\ got' = [sequences |-> got'.sequences, patterns |-> got'.patterns, instruments |-> got'.instruments,
                   chords |-> got'.chords, tempos |-> got'.tempos, subtunes |-> got'.subtunes]
    BY <1>0, <1>3 DEF CountInv
  <2>2. IsSeq(got'.instruments)
    BY <1>0, <2>1, PrependIs DEF CountInv
  <2>l. Len(song.instruments) - Len(Prepend(x, got.instruments)) = (Len(song.instruments) - Len(got.instruments)) - 1
    BY <1>0, OneLess DEF CountInv
  <2>3. InstrumentsLeft' = InstrumentsLeft - 1 /\ PatternsLeft' = PatternsLeft /\ SequencesLeft' = SequencesLeft
    BY <1>3, <2>1, <2>l DEF InstrumentsLeft, PatternsLeft, SequencesLeft
  <2> QED  BY <1>0, <1>3, <2>1, <2>2, <2>3 DEF CountInv, Early, BeforeOpen
<1>4. ASSUME song' = song, NEW x, got' = [got EXCEPT !.patterns = Prepend(x, @)],
             stage \in {"patterns", "body"}, stage' = "patterns", PatternsLeft > 0
      PROVE  CountInv'
  <2>1. /\ got'.patterns = Prepend(x, got.patterns)
        /\ got'.instruments = got.instruments /\ got'.sequences = got.sequences
        /\ got' = [sequences |-> got'.sequences, patterns |-> got'.patterns, instruments |-> got'.instruments,
                   chords |-> got'.chords, tempos |-> got'.tempos, subtunes |-> got'.subtunes]
    BY <1>0, <1>4 DEF CountInv
  <2>2. IsSeq(got'.patterns)
    BY <1>0, <2>1, PrependIs DEF CountInv
  <2>l. Len(song.patterns) - Len(Prepend(x, got.patterns)) = (Len(song.patterns) - Len(got.patterns)) - 1
    BY <1>0, OneLess DEF CountInv
  <2>3. PatternsLeft' = PatternsLeft - 1 /\ InstrumentsLeft' = InstrumentsLeft /\ SequencesLeft' = SequencesLeft
    BY <1>4, <2>1, <2>l DEF InstrumentsLeft, PatternsLeft, SequencesLeft
  <2> QED  BY <1>0, <1>4, <2>1, <2>2, <2>3 DEF CountInv, Early, BeforeOpen
<1>5. ASSUME song' = song, NEW x, got' = [got EXCEPT !.sequences = Prepend(x, @)],
             stage = "sequences", stage' = "sequences", SequencesLeft > 0
      PROVE  CountInv'
  <2>1. /\ got'.sequences = Prepend(x, got.sequences)
        /\ got'.instruments = got.instruments /\ got'.patterns = got.patterns
        /\ got' = [sequences |-> got'.sequences, patterns |-> got'.patterns, instruments |-> got'.instruments,
                   chords |-> got'.chords, tempos |-> got'.tempos, subtunes |-> got'.subtunes]
    BY <1>0, <1>5 DEF CountInv
  <2>2. IsSeq(got'.sequences)
    BY <1>0, <2>1, PrependIs DEF CountInv
  <2>l. Len(song.sequences) - Len(Prepend(x, got.sequences)) = (Len(song.sequences) - Len(got.sequences)) - 1
    BY <1>0, OneLess DEF CountInv
  <2>3. SequencesLeft' = SequencesLeft - 1 /\ InstrumentsLeft' = InstrumentsLeft /\ PatternsLeft' = PatternsLeft
    BY <1>5, <2>1, <2>l DEF InstrumentsLeft, PatternsLeft, SequencesLeft
  <2> QED  BY <1>0, <1>5, <2>1, <2>2, <2>3 DEF CountInv, Early, BeforeOpen
<1>6. CASE UNCHANGED vars
  BY <1>1, <1>6 DEF vars, written, reading
<1>7. CASE Write
  <2>1. song' = song /\ got' = got /\ stage \in Early /\ stage' \in Early
    BY <1>7 DEF Write, CheckSong, WriteSequence, WritePattern, WriteInstrument, WriteTables, Store,
                RefuseToWrite, BeforeOpen, Early, written, reading
  <2> QED  BY <1>1, <2>1
<1>8. CASE Open
  <2>1. song' = song /\ got' = got /\ stage \in Early /\ stage' \in Early
    BY <1>8 DEF Open, written, Early, BeforeOpen
  <2> QED  BY <1>1, <2>1
<1>9. CASE RefuseToRead
  BY <1>1, <1>9 DEF RefuseToRead, written, reading
<1>10. ASSUME Read, ~RefuseToRead PROVE CountInv'
  <2>s. song' = song
    BY <1>10, ReadLeaves DEF written
  <2>1. CASE ReadSubtunes
    <3>1. /\ stage \in Early /\ stage' \in Early
          /\ \E e : got' = [got EXCEPT !.subtunes = e]
      BY <1>10, <2>1 DEF ReadSubtunes, Early
    <3> QED  BY <1>2, <2>s, <3>1
  <2>2. CASE ReadTempos
    <3>1. /\ stage \in Early /\ stage' \in Early
          /\ \E e : got' = [got EXCEPT !.tempos = e]
      BY <1>10, <2>2 DEF ReadTempos, Early
    <3> QED  BY <1>2, <2>s, <3>1
  <2>3. CASE ReadChords
    <3>1. /\ stage \in Early /\ stage' = "instruments"
          /\ \E e : got' = [got EXCEPT !.chords = e]
      BY <1>10, <2>3 DEF ReadChords, Early
    <3> QED  BY <1>2, <2>s, <3>1
  <2>4. CASE ReadInstrument
    <3>1. /\ stage = "instruments" /\ stage' = "instruments" /\ Len(got.instruments) < Len(song.instruments)
          /\ \E x : got' = [got EXCEPT !.instruments = Prepend(x, @)]
      BY <1>10, <2>4 DEF ReadInstrument
    <3> QED  BY <1>0, <1>3, <2>s, <3>1
  <2>5. CASE InstrumentsRead
    BY <1>0, <1>1, <2>s, <2>5 DEF InstrumentsRead, reading
  <2>6. CASE ReadPatternSize
    <3>1. /\ stage = "patterns" /\ Len(got.patterns) < Len(song.patterns)
          /\ \/ stage' = "patterns" /\ \E x : got' = [got EXCEPT !.patterns = Prepend(x, @)]
             \/ stage' = "body" /\ got' = got
      BY <1>10, <2>6 DEF ReadPatternSize
    <3> QED  BY <1>0, <1>1, <1>4, <2>s, <3>1
  <2>7. CASE WalkByte
    BY <1>1, <1>10, <2>s, <2>7 DEF WalkByte
  <2>8. CASE ReadPatternBody
    <3>1. /\ stage = "body" /\ stage' = "patterns" /\ \E x : got' = [got EXCEPT !.patterns = Prepend(x, @)]
      BY <1>10, <2>8 DEF ReadPatternBody
    <3> QED  BY <1>0, <1>4, <2>s, <3>1 DEF CountInv
  <2>9. CASE PatternsRead
    BY <1>0, <1>1, <2>s, <2>9 DEF PatternsRead, reading
  <2>10. CASE ReadSequence
    <3>1. /\ stage = "sequences" /\ stage' = "sequences" /\ Len(got.sequences) < Sequences
          /\ \E x : got' = [got EXCEPT !.sequences = Prepend(x, @)]
      BY <1>10, <2>10 DEF ReadSequence
    <3> QED  BY <1>0, <1>5, <2>s, <3>1
  <2>11. CASE Finish
    <3>1. /\ stage = "sequences" /\ stage' = "read" /\ Len(got.sequences) = Sequences /\ got' = got
          /\ cursor = 0 /\ cursor' = cursor
      BY <1>10, <2>11 DEF Finish, reading
    <3> QED  BY <1>0, <1>1, <2>s, <3>1
  <2> QED  BY <1>10, <2>1, <2>2, <2>3, <2>4, <2>5, <2>6, <2>7, <2>8, <2>9, <2>10, <2>11, Zenon DEF Read
<1> QED  BY <1>6, <1>7, <1>8, <1>9, <1>10, Zenon DEF Next

\* All items are in the writer's bytes when the reader starts.
LEMMA MarksAre ==
  ASSUME ReadInv, stage \notin BeforeOpen
  PROVE  /\ Len(marks) = ToInstruments + 3 /\ \A n \in 1 .. ToInstruments + 3 : n \in 1 .. Len(marks)
         /\ StreamsParse /\ References
         /\ ToInstruments \in Nat
         /\ ToInstruments + 1 \in 1 .. Len(marks) /\ ToInstruments + 2 \in 1 .. Len(marks)
         /\ ToInstruments + 3 \in 1 .. Len(marks)
<1>1. Len(marks) = ToInstruments + 3 /\ StreamsParse /\ References
  BY DEF ReadInv, WriterInv, BeforeOpen
<1>2. ToInstruments \in Nat
  BY LengthsAre, CountsAre
<1> QED  BY <1>1, <1>2

\* An item that is in the file as a whole.
LEMMA WholeBefore ==
  ASSUME ReadInv, NEW n \in 1 .. Len(marks), At = Edge(n), stage \notin BeforeOpen,
         cursor >= Len(Items[n]), IsSeq(Items[n])
  PROVE  SubSeq(file, cursor - Len(Items[n]) + 1, cursor) = Items[n]
<1> DEFINE l == Len(Items[n])
<1>1. l \in Nat /\ cursor \in Nat
  BY ItemBefore, LengthsAre
<1>2. 1 \in 1 .. l + 1 /\ l \in 1 - 1 .. l /\ l = l - 1 + 1 /\ cursor - l + l = cursor
      /\ \A k \in 1 .. l - 1 + 1 : 1 + k - 1 = k
  <2> HIDE DEF l
  <2> QED  BY <1>1
<1>3. \A k \in 1 .. l - 1 + 1 : Items[n][k] = Items[n][1 + k - 1]
  BY <1>2
<1>4. Len(Items[n]) = l /\ cursor >= l
  OBVIOUS
<1> HIDE DEF l
<1>5. SubSeq(file, cursor - l + 1, cursor - l + l) = Items[n]
  BY <1>2, <1>3, <1>4, PartBefore
<1> QED  BY <1>2, <1>5 DEF l

\* The reader's way to the item before.
LEMMA BeforeItem ==
  ASSUME ReadInv, NEW n \in 1 .. Len(marks), At = Edge(n), stage \notin BeforeOpen,
         UNCHANGED <<written, file>>, cursor' = cursor - Len(Items[n])
  PROVE  At' = EdgeOf(out', marks', n - 1)
<1>1. (cursor - Len(Items[n])) + Cut = Edge(n - 1)
  BY ItemBefore
<1>2. Cut' = Cut /\ out' = out /\ marks' = marks
  BY SameFile
<1> QED  BY <1>1, <1>2 DEF At, Edge

\* The subtunes' tempos, two bytes each.
LEMMA SubtunesMet ==
  ASSUME ReadInv, Telling, Synced, ReadSubtunes
  PROVE  (stage' = "refused" /\ file # out) \/ Synced'
<1> DEFINE n == SubtunesFor(Sequences)
           m == ToInstruments + 3
           t == song.subtunes
           b == FlattenSeq(t)
<1>1. stage = "subtunes" /\ stage \notin BeforeOpen
  BY DEF ReadSubtunes, BeforeOpen
<1>2. m \in 1 .. Len(marks) /\ At = Edge(m) /\ Len(t) = n /\ song \in Songs
  BY <1>1, MarksAre, LengthsAre DEF Synced, StreamsParse
<1>3. t \in Seq(Byte \X Byte) /\ Items[m] = b
  BY <1>2, SongIs, ItemsAre
<1>4. /\ b \in Bytes /\ Len(t) \in Nat /\ Len(b) = 2 * Len(t)
      /\ \A k \in 1 .. Len(t) : t[k] = <<t[k][1], t[k][2]>> /\ b[2 * k - 1] = t[k][1] /\ b[2 * k] = t[k][2]
  BY <1>3, PairsAre
<1>5. Len(Items[m]) = 2 * n /\ IsSeq(Items[m])
  BY <1>2, <1>3, <1>4 DEF IsSeq, Bytes
<1>6. file = out => cursor >= 2 * n
  BY <1>1, <1>2, <1>5, ItemBefore
<1>7. n \in Nat /\ cursor \in Nat
  BY <1>2, <1>4, LengthsAre
<1> HIDE DEF n, m
<1>8. CASE cursor < 2 * n
  <2>1. stage' = "refused"
    BY <1>8 DEF ReadSubtunes, RefuseToRead, n
  <2>2. ~(cursor >= 2 * n)
    BY <1>7, <1>8
  <2> QED  BY <1>6, <2>1, <2>2
<1>9. CASE ~(cursor < 2 * n)
  <2>1. /\ got' = [got EXCEPT !.subtunes = [k \in 1 .. n |-> <<Before(2 * n)[2 * k - 1], Before(2 * n)[2 * k]>>]]
        /\ cursor' = cursor - 2 * n
        /\ stage' = "tempos"
        /\ UNCHANGED <<written, file>>
    BY <1>9 DEF ReadSubtunes, n
  <2>2. Before(2 * n) = b
    <3>1. cursor >= Len(Items[m])
      BY <1>5, <1>7, <1>9
    <3>2. SubSeq(file, cursor - 2 * n + 1, cursor) = b
      BY <1>1, <1>2, <1>3, <1>5, <3>1, WholeBefore
    <3> QED  BY <3>2 DEF Before
  <2>3. got'.subtunes = song.subtunes
    <3>1. got'.subtunes = [k \in 1 .. n |-> <<b[2 * k - 1], b[2 * k]>>]
      BY <2>1, <2>2 DEF ReadInv, CountInv
    <3>2. t = [k \in 1 .. n |-> t[k]]
      BY <1>2, <1>3
    <3> HIDE DEF b, t
    <3>3. \A k \in 1 .. n : t[k] = <<b[2 * k - 1], b[2 * k]>>
      BY <1>2, <1>4
    <3> QED  BY <3>1, <3>2, <3>3 DEF t
  <2>4. /\ got'.sequences = got.sequences /\ got'.patterns = got.patterns /\ got'.instruments = got.instruments
    BY <2>1 DEF ReadInv, CountInv
  <2>5. At' = EdgeOf(out', marks', m - 1)
    BY <1>1, <1>2, <1>5, <2>1, BeforeItem
  <2>6. m - 1 = ToInstruments + 2 /\ ToInstruments' = ToInstruments /\ song' = song
    BY <1>1, <2>1, MarksAre, SameFile DEF m
  <2>7. At' = Edge(ToInstruments + 2)'
    BY <2>5, <2>6 DEF Edge
  <2> QED  BY <2>1, <2>3, <2>4, <2>6, <2>7 DEF Synced
<1> QED  BY <1>8, <1>9

\* The tempos table.
LEMMA TemposMet ==
  ASSUME ReadInv, Telling, Synced, ReadTempos
  PROVE  (stage' = "refused" /\ file # out) \/ Synced'
<1> DEFINE n == Len(song.tempos)
           m == ToInstruments + 2
           b == song.tempos
<1>1. stage = "tempos" /\ stage \notin BeforeOpen
  BY DEF ReadTempos, BeforeOpen
<1>2. m \in 1 .. Len(marks) /\ At = Edge(m) /\ song \in Songs /\ TemposParse(b)
  BY <1>1, MarksAre, LengthsAre DEF Synced, StreamsParse
<1>3. b \in Bytes /\ Items[m] = b
  BY <1>2, SongIs, ItemsAre
<1>4. Len(Items[m]) = n /\ IsSeq(Items[m]) /\ n \in Nat /\ cursor \in Nat
  BY <1>3, BytesAreNumbers, LengthsAre DEF IsSeq, Bytes
<1>5. file = out => cursor >= n
  BY <1>1, <1>2, <1>4, ItemBefore
<1> HIDE DEF n, m, b
<1>6. ~(cursor < n) => Before(n) = b
  <2>1. ~(cursor < n) => cursor >= Len(Items[m])
    BY <1>4
  <2>2. ~(cursor < n) => SubSeq(file, cursor - n + 1, cursor) = b
    BY <1>1, <1>2, <1>3, <1>4, <2>1, WholeBefore
  <2> QED  BY <2>2 DEF Before
<1>7. CASE cursor < n
  <2>1. stage' = "refused"
    BY <1>7 DEF ReadTempos, RefuseToRead, n
  <2>2. ~(cursor >= n)
    BY <1>4, <1>7
  <2> QED  BY <1>5, <2>1, <2>2
<1>8. CASE ~(cursor < n)
  <2>1. /\ got' = [got EXCEPT !.tempos = b]
        /\ cursor' = cursor - n
        /\ stage' = "chords"
        /\ UNCHANGED <<written, file>>
    BY <1>2, <1>6, <1>8 DEF ReadTempos, n
  <2>2. /\ got'.tempos = song.tempos
        /\ got'.sequences = got.sequences /\ got'.patterns = got.patterns /\ got'.instruments = got.instruments
        /\ got'.subtunes = got.subtunes /\ got'.chords = got.chords
    BY <2>1 DEF ReadInv, CountInv, b
  <2>3. At' = EdgeOf(out', marks', m - 1)
    BY <1>1, <1>2, <1>4, <2>1, BeforeItem
  <2>4. /\ m - 1 = ToInstruments + 1
        /\ ToInstruments' = ToInstruments /\ song' = song
    BY <1>1, <2>1, MarksAre, SameFile DEF m
  <2>5. At' = Edge(ToInstruments + 1)'
    BY <2>3, <2>4 DEF Edge
  <2> QED  BY <1>1, <2>1, <2>2, <2>4, <2>5 DEF Synced
<1> QED  BY <1>7, <1>8

\* The chords table.
LEMMA ChordsMet ==
  ASSUME ReadInv, Telling, Synced, ReadChords
  PROVE  (stage' = "refused" /\ file # out) \/ Synced'
<1> DEFINE n == Len(song.chords)
           m == ToInstruments + 1
           b == song.chords
<1>1. stage = "chords" /\ stage \notin BeforeOpen
  BY DEF ReadChords, BeforeOpen
<1>2. m \in 1 .. Len(marks) /\ At = Edge(m) /\ song \in Songs /\ ChordsParse(b)
  BY <1>1, MarksAre, LengthsAre DEF Synced, StreamsParse
<1>3. b \in Bytes /\ Items[m] = b
  BY <1>2, SongIs, ItemsAre
<1>4. Len(Items[m]) = n /\ IsSeq(Items[m]) /\ n \in Nat /\ cursor \in Nat
  BY <1>3, BytesAreNumbers, LengthsAre DEF IsSeq, Bytes
<1>5. file = out => cursor >= n
  BY <1>1, <1>2, <1>4, ItemBefore
<1> HIDE DEF n, m, b
<1>6. ~(cursor < n) => Before(n) = b
  <2>1. ~(cursor < n) => cursor >= Len(Items[m])
    BY <1>4
  <2>2. ~(cursor < n) => SubSeq(file, cursor - n + 1, cursor) = b
    BY <1>1, <1>2, <1>3, <1>4, <2>1, WholeBefore
  <2> QED  BY <2>2 DEF Before
<1>7. CASE cursor < n
  <2>1. stage' = "refused"
    BY <1>7 DEF ReadChords, RefuseToRead, n
  <2>2. ~(cursor >= n)
    BY <1>4, <1>7
  <2> QED  BY <1>5, <2>1, <2>2
<1>8. CASE ~(cursor < n)
  <2>1. /\ got' = [got EXCEPT !.chords = b]
        /\ cursor' = cursor - n
        /\ stage' = "instruments"
        /\ UNCHANGED <<written, file>>
    BY <1>2, <1>6, <1>8 DEF ReadChords, n
  <2>2. /\ got'.chords = song.chords
        /\ got'.sequences = got.sequences /\ got'.patterns = got.patterns /\ got'.instruments = got.instruments
        /\ got'.subtunes = got.subtunes /\ got'.tempos = got.tempos
    BY <2>1 DEF ReadInv, CountInv, b
  <2>3. At' = EdgeOf(out', marks', m - 1)
    BY <1>1, <1>2, <1>4, <2>1, BeforeItem
  <2>4. /\ m - 1 = ToInstruments
        /\ ToInstruments' = ToInstruments /\ song' = song
    BY <1>1, <2>1, MarksAre, SameFile DEF m
  <2>5. InstrumentsLeft' = Len(song.instruments) /\ ToInstruments = ToPatterns + Len(song.instruments)
        /\ ToPatterns' = ToPatterns
    <3>1. got'.instruments = <<>> /\ song' = song
      BY <1>1, <2>2, <2>4 DEF ReadInv, CountInv, Early
    <3>2. Len(song.instruments) \in Nat /\ ToInstruments = ToPatterns + Len(song.instruments)
      BY LengthsAre
    <3>3. Len(song.instruments) - 0 = Len(song.instruments)
      <4> DEFINE x == Len(song.instruments)
      <4>1. x \in Nat
        BY <3>2
      <4> HIDE DEF x
      <4>2. x - 0 = x
        BY <4>1
      <4> QED  BY <4>2 DEF x
    <3>4. Len(got'.instruments) = 0
      BY <3>1
    <3>5. ToPatterns' = ToPatterns
      BY <2>1, SameFile
    <3> QED  BY <3>1, <3>2, <3>3, <3>4, <3>5 DEF InstrumentsLeft
  <2>6. At' = Edge(ToPatterns + InstrumentsLeft)'
    BY <2>3, <2>4, <2>5 DEF Edge
  <2> QED  BY <1>1, <2>1, <2>2, <2>4, <2>6 DEF Synced
<1> QED  BY <1>7, <1>8

\* From one kind of item to the next nothing moves.
LEMMA KindsMet ==
  ASSUME ReadInv, Telling, Synced, InstrumentsRead \/ PatternsRead
  PROVE  Synced'
<1>1. /\ song' = song /\ out' = out /\ marks' = marks /\ got' = got /\ At' = At /\ Sequences' = Sequences
      /\ UNCHANGED <<written, file>>
  <2>1. UNCHANGED <<written, file, reading>>
    BY DEF InstrumentsRead, PatternsRead
  <2>2. Cut' = Cut /\ song' = song /\ Sequences' = Sequences
    BY <2>1, SameFile
  <2> QED  BY <2>1, <2>2 DEF written, reading, At
<1>2. /\ ToPatterns = Sequences + Len(song.patterns) /\ Sequences = Len(song.sequences)
      /\ Len(song.patterns) \in Nat /\ Len(song.sequences) \in Nat
  BY LengthsAre
<1> DEFINE a == Len(song.sequences)
           b == Len(song.patterns)
<1>3. a \in Nat /\ b \in Nat /\ Sequences = a /\ ToPatterns = a + b
  BY <1>2
<1>4. PatternsLeft' = PatternsLeft /\ SequencesLeft' = SequencesLeft
  BY <1>1 DEF PatternsLeft, SequencesLeft
<1>5. CASE InstrumentsRead
  <2>1. stage = "instruments" /\ stage' = "patterns" /\ InstrumentsLeft = 0
    BY <1>5, LeftAre DEF InstrumentsRead
  <2>2. got.patterns = <<>>
    BY <2>1 DEF ReadInv, CountInv
  <2>3. PatternsLeft = b - 0
    BY <2>2 DEF PatternsLeft
  <2> HIDE DEF a, b
  <2>4. ToPatterns + 0 = Sequences + PatternsLeft
    BY <1>3, <2>3
  <2>5. At' = Edge(Sequences + PatternsLeft)'
    BY <1>1, <1>4, <2>1, <2>4 DEF Synced, Edge
  <2> QED  BY <1>1, <2>1, <2>5 DEF Synced
<1>6. CASE PatternsRead
  <2>1. stage = "patterns" /\ stage' = "sequences" /\ PatternsLeft = 0
    BY <1>6, LeftAre DEF PatternsRead
  <2>2. got.sequences = <<>>
    BY <2>1 DEF ReadInv, CountInv
  <2>3. SequencesLeft = a - 0
    BY <2>2 DEF SequencesLeft
  <2> HIDE DEF a, b
  <2>4. Sequences + 0 = SequencesLeft
    BY <1>3, <2>3
  <2>5. At' = Edge(SequencesLeft)'
    BY <1>1, <1>4, <2>1, <2>4 DEF Synced, Edge
  <2> QED  BY <1>1, <2>1, <2>5 DEF Synced
<1> QED  BY <1>5, <1>6

\* An instrument: its size stands before its name.
LEMMA InstrumentMet ==
  ASSUME ReadInv, Telling, Synced, ReadInstrument
  PROVE  (stage' = "refused" /\ file # out) \/ Synced'
<1> DEFINE i == InstrumentsLeft
           n == ToPatterns + i
           x == song.instruments[i]
           b == x.body
           l == Len(Items[n])
           s == Len(b)
           f == Len(file)
           at == cursor - NameLen
<1>1. stage = "instruments" /\ stage \notin BeforeOpen /\ i \in 1 .. Len(song.instruments)
  <2>1. stage = "instruments" /\ Len(got.instruments) < Len(song.instruments)
    BY DEF ReadInstrument
  <2>2. i > 0 /\ i \in 0 .. Len(song.instruments)
    BY <2>1, LeftAre
  <2>3. Len(song.instruments) \in Nat
    BY LengthsAre
  <2> HIDE DEF i
  <2> QED  BY <2>1, <2>2, <2>3 DEF BeforeOpen
<1>2. song \in Songs /\ ToPatterns \in Nat /\ ToInstruments = ToPatterns + Len(song.instruments)
      /\ Len(song.instruments) \in Nat /\ Len(marks) = ToInstruments + 3
  BY <1>1, LengthsAre, CountsAre, MarksAre
<1>3. n \in 1 .. Len(marks)
  <2> DEFINE y == Len(song.instruments)
  <2>1. y \in Nat /\ i \in 1 .. y /\ Len(marks) = (ToPatterns + y) + 3
    BY <1>1, <1>2
  <2> HIDE DEF i, y
  <2> QED  BY <1>2, <2>1
<1>4. At = Edge(n)
  BY <1>1 DEF Synced
<1>5. Items[n] = InstrumentItem(x) /\ x \in Instrument
  <2> HIDE DEF i
  <2> QED  BY <1>1, <1>2, ItemsAre, SongIs
<1> HIDE DEF i
<1>6. /\ b \in Bytes /\ s \in Nat /\ NameLen \in Nat /\ x.name \in Bytes /\ Len(x.name) = NameLen
      /\ IsSeq(Items[n]) /\ l = s + 1 + NameLen
      /\ \A k \in 1 .. s : Items[n][k] = b[k]
      /\ Items[n][s + 1] = s
      /\ \A k \in 1 .. NameLen : Items[n][s + 1 + k] = x.name[k]
  BY <1>5, InstrumentItemIs DEF IsSeq
<1>7. /\ file = out => cursor >= l
      /\ \A k \in 1 .. l : cursor - l + k >= 1 => file[cursor - l + k] = Items[n][k]
  BY <1>1, <1>3, <1>4, ItemBefore
<1>8. cursor \in Nat
  BY LengthsAre
<1>q. IsSeq(b) /\ IsSeq(x.name)
  BY <1>6 DEF IsSeq, Bytes
<1> HIDE DEF n, x, b, l, s
<1>9. at >= 1 => file[at] = s
  <2>1. s + 1 \in 1 .. l /\ cursor - l + (s + 1) = at
    BY <1>6, <1>8
  <2> QED  BY <1>6, <1>7, <2>1
<1>10. cursor >= l <=> ~(at < 1) /\ ~(at - 1 < s)
  BY <1>6, <1>8
<1>11. CASE at < 1 \/ at - 1 < file[at]
  <2>1. stage' = "refused"
    BY <1>11 DEF ReadInstrument, RefuseToRead
  <2>2. at < 1 \/ at - 1 < s
    BY <1>6, <1>8, <1>9, <1>11
  <2> QED  BY <1>7, <1>10, <2>1, <2>2
<1>12. CASE ~(at < 1 \/ at - 1 < file[at])
  <2>1. file[at] = s /\ cursor >= l
    BY <1>6, <1>8, <1>9, <1>10, <1>12
  <2>2. /\ got' = [got EXCEPT !.instruments = Prepend(
                    [name |-> Before(NameLen), body |-> SubSeq(file, at - s, at - 1)], @)]
        /\ cursor' = at - 1 - s
        /\ UNCHANGED <<written, file, stage>>
    BY <1>12, <2>1 DEF ReadInstrument
  <2>3. Before(NameLen) = x.name
    <3>1. /\ s + 2 \in 1 .. l + 1 /\ l \in (s + 2) - 1 .. l /\ l - (s + 2) + 1 = NameLen
          /\ cursor - l + (s + 2) = cursor - NameLen + 1 /\ cursor - l + l = cursor
          /\ \A k \in 1 .. NameLen : (s + 2) + k - 1 = s + 1 + k
      BY <1>6, <1>8
    <3>2. \A k \in 1 .. l - (s + 2) + 1 : x.name[k] = Items[n][(s + 2) + k - 1]
      BY <1>6, <3>1
    <3>3. SubSeq(file, cursor - l + (s + 2), cursor - l + l) = x.name
      BY <1>1, <1>3, <1>4, <1>6, <1>q, <2>1, <3>1, <3>2, PartBefore DEF l
    <3> QED  BY <3>1, <3>3 DEF Before
  <2>4. SubSeq(file, at - s, at - 1) = b
    <3>1. /\ 1 \in 1 .. l + 1 /\ s \in 1 - 1 .. l /\ s - 1 + 1 = s
          /\ cursor - l + 1 = at - s /\ cursor - l + s = at - 1
          /\ \A k \in 1 .. s : 1 + k - 1 = k
      BY <1>6, <1>8
    <3>2. \A k \in 1 .. s - 1 + 1 : b[k] = Items[n][1 + k - 1]
      BY <1>6, <3>1
    <3>3. SubSeq(file, cursor - l + 1, cursor - l + s) = b
      BY <1>1, <1>3, <1>4, <1>6, <1>q, <2>1, <3>1, <3>2, PartBefore DEF l, s
    <3> QED  BY <3>1, <3>3
  <2>5. [name |-> x.name, body |-> b] = x
    BY <1>5 DEF Instrument, b
  <2>6. /\ got'.instruments = Prepend(x, got.instruments)
        /\ got'.sequences = got.sequences /\ got'.patterns = got.patterns
        /\ got'.subtunes = got.subtunes /\ got'.chords = got.chords /\ got'.tempos = got.tempos
    BY <2>2, <2>3, <2>4, <2>5 DEF ReadInv, CountInv
  <2>7. /\ song' = song /\ out' = out /\ marks' = marks /\ ToPatterns' = ToPatterns /\ stage' = "instruments"
    BY <1>1, <2>2, SameFile
  <2>8. IsTail(got'.instruments, song.instruments)
    <3>1. IsTail(got.instruments, song.instruments)
      BY DEF Synced
    <3>2. Len(got.instruments) < Len(song.instruments) /\ Len(song.instruments) \in Nat
      BY <1>2 DEF ReadInstrument
    <3>3. x = song.instruments[Len(song.instruments) - Len(got.instruments)]
      BY DEF x, i, InstrumentsLeft
    <3> QED  BY <2>6, <3>1, <3>2, <3>3, TailGrows
  <2>9. InstrumentsLeft' = i - 1
    <3>1. IsSeq(got.instruments)
      BY DEF ReadInv, CountInv
    <3>2. Len(song.instruments) - Len(Prepend(x, got.instruments)) = i - 1
      BY <1>2, <3>1, OneLess DEF i, InstrumentsLeft
    <3> QED  BY <2>6, <2>7, <3>2 DEF InstrumentsLeft
  <2>10. At' = EdgeOf(out', marks', n - 1)
    <3>1. cursor' = cursor - Len(Items[n])
      <4>1. cursor' = cursor - l
        BY <1>6, <1>8, <2>2
      <4> QED  BY <4>1 DEF l
    <3> QED  BY <1>1, <1>3, <1>4, <2>2, <3>1, BeforeItem
  <2>11. n - 1 = ToPatterns + (i - 1)
    <3>1. i \in Int
      BY <1>1
    <3> QED  BY <1>2, <3>1 DEF n
  <2>12. At' = Edge(ToPatterns + InstrumentsLeft)'
    BY <2>7, <2>9, <2>10, <2>11 DEF Edge
  <2> QED  BY <1>1, <2>6, <2>7, <2>8, <2>12 DEF Synced
<1> QED  BY <1>11, <1>12

\* A byte of a packed pattern stands for as many as the walk back takes it for,
\* the first one for itself.
LEMMA WalkedBytes ==
  ASSUME NEW p \in Bytes
  PROVE  /\ Len(p) \in Nat /\ Len(UnpackUpto(p)[0]) = 0 /\ UnpackUpto(p)[Len(p)] = Unpack(p)
         /\ \A i \in 1 .. Len(p) :
              /\ Len(UnpackUpto(p)[i]) \in Nat /\ Len(UnpackUpto(p)[i]) >= 1
              /\ i = 1 => Len(UnpackUpto(p)[i]) = 1
              /\ i > 1 => Len(UnpackUpto(p)[i]) = Len(UnpackUpto(p)[i - 1]) + Span(p[i], p[i - 1])
<1> DEFINE U == UnpackUpto(p)
           m == Len(p)
           Runs(c) == c \in Marker \cup {0}
           P(n) == U[n] \in Bytes /\ Len(U[n]) >= 1 /\ (Runs(Last(U[n])) <=> Runs(p[n]))
           S == {n \in Nat : n \in 1 .. m => P(n)}
<1>1. m \in Nat /\ \A i \in 1 .. m : p[i] \in 0 .. 255
  BY ByteAt DEF Bytes
<1>2. /\ Unpack(p) = U[m] /\ U[0] = <<>>
      /\ \A i \in 1 .. m : U[i] = Unpacked(U[i - 1], p[i])
  BY <1>1, UnpackIs
<1> HIDE DEF U, m
<1>3. ASSUME NEW b \in Bytes, NEW c \in 0 .. 255
      PROVE  /\ Append(b, c) \in Bytes /\ Len(Append(b, c)) = Len(b) + 1 /\ Last(Append(b, c)) = c
             /\ Len(b) \in Nat
  <2>1. Len(b) \in Nat
    BY BytesAreNumbers
  <2>2. Append(b, c) \in Bytes /\ Len(Append(b, c)) = Len(b) + 1 /\ Append(b, c)[Len(b) + 1] = c
    BY <2>1 DEF Bytes
  <2> QED  BY <2>1, <2>2 DEF Last
<1>4. ASSUME NEW b \in Bytes, NEW c \in Marker
      PROVE  LET z == [k \in 1 .. c - PackedMin + 2 |-> 0]
             IN  /\ b \o z \in Bytes /\ Len(b \o z) = Len(b) + (c - PackedMin + 2) /\ Last(b \o z) = 0
                 /\ c - PackedMin + 2 \in 2 .. 9 /\ Len(b) \in Nat
  <2> DEFINE l == c - PackedMin + 2
             z == [k \in 1 .. l |-> 0]
             D == 0 .. 255
  <2>1. l \in 2 .. 9 /\ 0 \in D
    BY DEF Marker, PackedMin, PackedMax
  <2> HIDE DEF l, D
  <2>2. z \in Seq(D) /\ Len(z) = l /\ \A k \in 1 .. l : z[k] = 0
    BY <2>1
  <2>3. b \in Seq(D) /\ Len(b) \in Nat
    BY BytesAreNumbers DEF Bytes, D
  <2> HIDE DEF z
  <2>4. /\ b \o z \in Seq(D) /\ Len(b \o z) = Len(b) + Len(z)
        /\ \A k \in 1 .. Len(b) + Len(z) : (b \o z)[k] = IF k <= Len(b) THEN b[k] ELSE z[k - Len(b)]
    BY <2>2, <2>3, ConcatProperties
  <2>5. Len(b) + l \in 1 .. Len(b) + Len(z) /\ ~(Len(b) + l <= Len(b)) /\ (Len(b) + l) - Len(b) = l /\ l \in 1 .. l
    BY <2>1, <2>2, <2>3
  <2>6. Last(b \o z) = 0
    BY <2>2, <2>4, <2>5 DEF Last
  <2> QED  BY <2>1, <2>2, <2>3, <2>4, <2>6 DEF l, z, D, Bytes
<1>5. ASSUME NEW b \in Bytes, NEW c \in 0 .. 255
      PROVE  LET d == Unpacked(b, c)
             IN  /\ d \in Bytes /\ Len(d) >= 1 /\ (Runs(Last(d)) <=> Runs(c))
                 /\ Len(b) \in Nat /\ Len(d) \in Nat
                 /\ b = <<>> => Len(d) = 1
                 /\ b # <<>> => Len(d) = Len(b) + Span(c, Last(b))
  <2> DEFINE d == Unpacked(b, c)
  <2>1. CASE c \in Marker /\ b # <<>> /\ Runs(Last(b))
    <3> DEFINE l == c - PackedMin + 2
               z == [k \in 1 .. l |-> 0]
    <3>1. d = b \o z
      BY <2>1 DEF Unpacked
    <3>2. b \o z \in Bytes /\ Len(b \o z) = Len(b) + l /\ Last(b \o z) = 0 /\ l \in 2 .. 9 /\ Len(b) \in Nat
      BY <1>4, <2>1
    <3>3. Span(c, Last(b)) = l
      BY <2>1 DEF Span, IsMarker
    <3> HIDE DEF d, z, l
    <3>4. Len(d) \in Nat /\ Len(d) >= 1 /\ Runs(Last(d)) /\ Runs(c)
      BY <2>1, <3>1, <3>2
    <3> QED  BY <2>1, <3>1, <3>2, <3>3, <3>4 DEF d
  <2>2. CASE ~(c \in Marker /\ b # <<>> /\ Runs(Last(b)))
    <3>1. d = Append(b, c)
      BY <2>2 DEF Unpacked
    <3>2. Append(b, c) \in Bytes /\ Len(Append(b, c)) = Len(b) + 1 /\ Last(Append(b, c)) = c /\ Len(b) \in Nat
      BY <1>3
    <3>3. b # <<>> => Span(c, Last(b)) = 1
      BY <2>2 DEF Span, IsMarker
    <3>4. b = <<>> => Len(b) = 0
      OBVIOUS
    <3> HIDE DEF d, Runs
    <3>5. Len(d) = Len(b) + 1 /\ d \in Bytes /\ Last(d) = c
      BY <3>1, <3>2
    <3> QED  BY <3>2, <3>3, <3>4, <3>5 DEF d
  <2> QED  BY <2>1, <2>2
<1>6. 0 \in S
  OBVIOUS
<1>7. ASSUME NEW n \in Nat, n \in S PROVE n + 1 \in S
  <2> SUFFICES ASSUME n + 1 \in 1 .. m PROVE P(n + 1)
    OBVIOUS
  <2>1. (n + 1) - 1 = n /\ (n = 0 \/ n \in 1 .. m) /\ p[n + 1] \in 0 .. 255
    BY <1>1
  <2>2. U[n] \in Bytes
    <3>1. <<>> \in Bytes
      BY DEF Bytes
    <3> QED  BY <1>2, <1>7, <2>1, <3>1
  <2>3. U[n + 1] = Unpacked(U[n], p[n + 1])
    BY <1>2, <2>1
  <2> QED  BY <1>5, <2>1, <2>2, <2>3
<1> HIDE DEF S
<1>8. \A n \in Nat : n \in S
  BY <1>6, <1>7, SetInduction
<1>9. ASSUME NEW i \in 1 .. m
      PROVE  /\ Len(U[i]) \in Nat /\ Len(U[i]) >= 1
             /\ i = 1 => Len(U[i]) = 1
             /\ i > 1 => Len(U[i]) = Len(U[i - 1]) + Span(p[i], p[i - 1])
  <2>1. i \in Nat /\ P(i)
    BY <1>1, <1>8 DEF S
  <2>2. U[i] = Unpacked(U[i - 1], p[i]) /\ p[i] \in 0 .. 255
    BY <1>1, <1>2
  <2>3. CASE i = 1
    <3>1. U[i - 1] = <<>> /\ <<>> \in Bytes
      BY <1>2, <2>3 DEF Bytes
    <3>4. U[i - 1] \in Bytes
      BY <3>1
    <3>5. /\ U[i - 1] = <<>> => Len(Unpacked(U[i - 1], p[i])) = 1
          /\ Len(Unpacked(U[i - 1], p[i])) \in Nat
      BY <1>5, <2>2, <3>4, Zenon
    <3>2. Len(U[i]) = 1 /\ Len(U[i]) \in Nat
      BY <2>2, <3>1, <3>5, Zenon
    <3>3. ~(i > 1) /\ 1 >= 1
      BY <2>3
    <3> QED  BY <2>3, <3>2, <3>3
  <2>4. CASE i # 1
    <3>1. i - 1 \in 1 .. m /\ i - 1 \in Nat
      BY <1>1, <2>4
    <3>2. P(i - 1)
      BY <1>8, <3>1 DEF S
    <3>3. U[i - 1] # <<>>
      <4>1. Len(U[i - 1]) >= 1
        BY <3>2
      <4>2. ~(0 >= 1)
        OBVIOUS
      <4> QED  BY <4>1, <4>2
    <3>4. Span(p[i], Last(U[i - 1])) = Span(p[i], p[i - 1])
      BY <3>2 DEF Span, IsMarker
    <3>5. U[i - 1] \in Bytes
      BY <3>2
    <3>6. Len(U[i]) \in Nat /\ Len(U[i]) >= 1 /\ Len(U[i]) = Len(U[i - 1]) + Span(p[i], Last(U[i - 1]))
      BY <1>5, <2>2, <3>3, <3>5, Zenon
    <3> QED  BY <2>4, <3>4, <3>6
  <2> QED  BY <2>3, <2>4
<1>10. Len(U[0]) = 0
  BY <1>2
<1> QED  BY <1>1, <1>2, <1>9, <1>10 DEF U, m

\* What the reader needs to know of the pattern it is to read next.
LEMMA NextPattern ==
  ASSUME ReadInv, FoundAgain(song), stage \in {"patterns", "body"}, PatternsLeft > 0
  PROVE  LET x == song.patterns[PatternsLeft]
             n == Sequences + PatternsLeft
             p == Packed(x)
             L == Len(p)
         IN  /\ PatternsLeft \in 1 .. Len(song.patterns) /\ x \in Pattern /\ stage \notin BeforeOpen
             /\ PatternsLeft \in Int /\ Sequences \in Nat
             /\ n \in 1 .. Len(marks) /\ p \in Bytes /\ L \in Nat /\ IsSeq(Items[n])
             /\ Len(Items[n]) = L + 2
             /\ \A k \in 1 .. L : Items[n][k] = p[k]
             /\ Items[n][L + 1] = UnpackedSize(x) /\ Items[n][L + 2] = x.length
             /\ UnpackedSize(x) \in Nat
             /\ IF x.slot THEN UnpackedSize(x) = 0 /\ x.rows = <<>> /\ L = 0
                ELSE UnpackedSize(x) = Len(UnpackUpto(p)[L]) + 1
             /\ PatternParses(p) /\ ParsePattern(p) = x.rows
             /\ x = [rows |-> x.rows, length |-> x.length, slot |-> x.slot]
<1> DEFINE i == PatternsLeft
           x == song.patterns[i]
           n == Sequences + i
           p == Packed(x)
           L == Len(p)
<1>1. stage \notin BeforeOpen
  BY DEF BeforeOpen
<1>2. /\ song \in Songs /\ Sequences \in Nat /\ ToPatterns = Sequences + Len(song.patterns)
      /\ ToInstruments = ToPatterns + Len(song.instruments) /\ Len(song.patterns) \in Nat
      /\ Len(song.instruments) \in Nat /\ Len(marks) = ToInstruments + 3 /\ StreamsParse
  BY <1>1, LengthsAre, MarksAre, CountsAre
<1>3. i \in 1 .. Len(song.patterns) /\ i \in Int
  <2>1. i \in 0 .. Len(song.patterns) /\ i > 0
    BY LeftAre
  <2> HIDE DEF i
  <2> QED  BY <1>2, <2>1
<1>4. n \in 1 .. Len(marks)
  <2> DEFINE y == Len(song.instruments)
             z == Len(song.patterns)
  <2>1. /\ y \in Nat /\ z \in Nat /\ i \in 1 .. z /\ Len(marks) = ((Sequences + z) + y) + 3
        /\ Sequences \in Nat
    BY <1>2, <1>3
  <2> HIDE DEF i, y, z
  <2>2. Sequences + i \in 1 .. ((Sequences + z) + y) + 3
    BY ONLY <2>1
  <2> QED  BY <2>1, <2>2
<1>5. song.patterns \in Seq(Pattern) /\ x \in Pattern /\ (x.slot => x.rows = <<>>) /\ Items[n] = PatternItem(x)
  <2> HIDE DEF i
  <2> QED  BY <1>2, <1>3, ItemsAre, SongIs
<1>6. i \in DOMAIN song.patterns
  BY <1>3, <1>5
<1>7. (\A k \in DOMAIN x.rows : TakesValue(x.rows[k])) /\ NoFalseRun(EncodeRows(x.rows))
  BY <1>6 DEF FoundAgain
<1>8. PatternParses(p)
  BY <1>2, <1>6 DEF StreamsParse, Packed
<1> HIDE DEF x
<1>9. Unpack(p) = EncodeRows(x.rows) /\ ParsePattern(p) = x.rows
  BY <1>5, <1>7, RowsFoundAgain
<1>10. /\ p \in Bytes /\ L \in Nat /\ EncodeRows(x.rows) \in Bytes /\ x.rows \in Seq(Row) /\ x.slot \in BOOLEAN
       /\ UnpackedSize(x) \in Nat /\ PatternItem(x) \in Seq(Nat) /\ Len(PatternItem(x)) = L + 2
       /\ \A k \in 1 .. L : PatternItem(x)[k] = p[k]
       /\ PatternItem(x)[L + 1] = UnpackedSize(x) /\ PatternItem(x)[L + 2] = x.length
  BY <1>5, PatternItemIs
<1>11. IsSeq(Items[n])
  BY <1>5, <1>10 DEF IsSeq
<1>12. UnpackUpto(p)[L] = EncodeRows(x.rows)
  BY <1>9, <1>10, WalkedBytes
<1>13. ASSUME x.slot PROVE UnpackedSize(x) = 0 /\ x.rows = <<>> /\ L = 0
  <2> DEFINE b == EncodeRows(x.rows)
  <2>1. x.rows = <<>> /\ Len(x.rows) = 0
    BY <1>5, <1>13
  <2>2. Len(b) = 0
    BY <1>10, <2>1, OffNext
  <2>3. b \in Bytes
    BY <1>10
  <2> HIDE DEF b
  <2>4. Len(b) + 1 = 1 /\ PackFrom(b)[Len(b) + 1] = <<>>
    BY <2>2, <2>3, PackStep
  <2>5. Pack(b) = <<>>
    BY <2>4, PackIs
  <2>6. p = <<>>
    BY <2>5 DEF Packed, b
  <2>7. UnpackedSize(x) = 0
    BY <1>13 DEF UnpackedSize
  <2> QED  BY <2>1, <2>6, <2>7
<1>14. ~x.slot => UnpackedSize(x) = Len(UnpackUpto(p)[L]) + 1
  BY <1>12 DEF UnpackedSize
<1>15. x = [rows |-> x.rows, length |-> x.length, slot |-> x.slot]
  BY <1>5 DEF Pattern
<1> QED  BY <1>1, <1>2, <1>3, <1>4, <1>5, <1>8, <1>9, <1>10, <1>11, <1>13, <1>14, <1>15 DEF x

\* A pattern's size and length, behind its body.
LEMMA PatternSizeMet ==
  ASSUME ReadInv, FoundAgain(song), Telling, Synced, ReadPatternSize
  PROVE  (stage' = "refused" /\ file # out) \/ Synced'
<1> DEFINE i == PatternsLeft
           x == song.patterns[i]
           n == Sequences + i
           p == Packed(x)
           L == Len(p)
           l == Len(Items[n])
           size == UnpackedSize(x)
           u == Len(UnpackUpto(p)[L])
           st == Edge(n - 1)
<1>1. stage = "patterns" /\ i > 0
  BY LeftAre DEF ReadPatternSize
<1>2. /\ i \in 1 .. Len(song.patterns) /\ x \in Pattern /\ stage \notin BeforeOpen /\ i \in Int /\ Sequences \in Nat
      /\ n \in 1 .. Len(marks) /\ p \in Bytes /\ L \in Nat /\ l = L + 2
      /\ Items[n][L + 1] = size /\ Items[n][L + 2] = x.length /\ size \in Nat
      /\ IF x.slot THEN size = 0 /\ x.rows = <<>> /\ L = 0 ELSE size = u + 1
      /\ x = [rows |-> x.rows, length |-> x.length, slot |-> x.slot] /\ x.slot \in BOOLEAN
  BY <1>1, NextPattern DEF Pattern
<1>3. At = Edge(n)
  BY <1>1 DEF Synced
<1>4. /\ file = out => cursor >= l
      /\ \A k \in 1 .. l : cursor - l + k >= 1 => file[cursor - l + k] = Items[n][k]
      /\ (cursor - l) + Cut = st /\ st \in Nat
  BY <1>2, <1>3, ItemBefore
<1>5. cursor \in 0 .. Len(file) /\ Cut \in Int /\ Len(file) \in Nat
  BY LengthsAre
<1>6. u \in Nat /\ (L = 0 => u = 0)
  BY <1>2, WalkedBytes
<1> DEFINE f == Len(file)
<1>f. cursor \in 0 .. f /\ f \in Nat
  BY <1>5
<1> HIDE DEF i, x, n, p, L, l, size, u, st, f
<1>7. CASE cursor < 2
  <2>1. stage' = "refused"
    BY <1>7 DEF ReadPatternSize, RefuseToRead
  <2>2. ~(cursor >= l)
    BY <1>2, <1>7, <1>f
  <2> QED  BY <1>4, <2>1, <2>2
<1>8. CASE ~(cursor < 2)
  <2>1. file[cursor] = x.length /\ file[cursor - 1] = size
    <3>1. /\ L + 1 \in 1 .. l /\ L + 2 \in 1 .. l
          /\ cursor - l + (L + 2) = cursor /\ cursor - l + (L + 1) = cursor - 1
          /\ cursor >= 1 /\ cursor - 1 >= 1
      BY <1>2, <1>8, <1>f
    <3> QED  BY <1>2, <1>4, <3>1
  <2>2. /\ cursor' = cursor - 2 /\ end' = cursor - 2 /\ j' = size - 2
        /\ UNCHANGED <<written, file>>
        /\ IF size = 0
             THEN /\ got' = [got EXCEPT !.patterns = Prepend(
                              [rows |-> <<>>, length |-> x.length, slot |-> TRUE], @)]
                  /\ stage' = stage
             ELSE got' = got /\ stage' = "body"
    BY <1>8, <2>1 DEF ReadPatternSize
  <2>3. /\ song' = song /\ out' = out /\ marks' = marks /\ file' = file /\ Cut' = Cut
        /\ Sequences' = Sequences
    BY <2>2, SameFile
  <2>4. CASE size = 0
    <3>1. x.slot /\ L = 0 /\ x = [rows |-> <<>>, length |-> x.length, slot |-> TRUE]
      <4>1. ~(u + 1 = 0)
        BY <1>6
      <4>2. x.slot
        BY <1>2, <2>4, <4>1
      <4> QED  BY <1>2, <4>2
    <3>2. /\ got'.patterns = Prepend(x, got.patterns) /\ stage' = "patterns"
          /\ got'.sequences = got.sequences /\ got'.instruments = got.instruments
          /\ got'.subtunes = got.subtunes /\ got'.chords = got.chords /\ got'.tempos = got.tempos
      BY <1>1, <2>2, <2>4, <3>1 DEF ReadInv, CountInv
    <3>3. IsTail(got'.patterns, song.patterns)
      <4>1. IsTail(got.patterns, song.patterns)
        BY DEF Synced
      <4>2. Len(got.patterns) < Len(song.patterns) /\ Len(song.patterns) \in Nat
        BY LengthsAre DEF ReadPatternSize
      <4>3. x = song.patterns[Len(song.patterns) - Len(got.patterns)]
        BY DEF x, i, PatternsLeft
      <4> QED  BY <3>2, <4>1, <4>2, <4>3, TailGrows
    <3>4. PatternsLeft' = i - 1
      <4>1. IsSeq(got.patterns) /\ Len(song.patterns) \in Nat
        BY LengthsAre DEF ReadInv, CountInv
      <4>2. Len(song.patterns) - Len(Prepend(x, got.patterns)) = i - 1
        BY <4>1, OneLess DEF i, PatternsLeft
      <4> QED  BY <2>3, <3>2, <4>2 DEF PatternsLeft
    <3>5. At' = EdgeOf(out', marks', n - 1)
      <4>1. cursor' = cursor - l
        BY <1>2, <1>f, <2>2, <3>1
      <4> QED  BY <1>2, <1>3, <2>2, <4>1, BeforeItem DEF l
    <3>6. n - 1 = Sequences + (i - 1)
      BY <1>2 DEF n
    <3>7. At' = Edge(Sequences + PatternsLeft)'
      BY <2>3, <3>4, <3>5, <3>6 DEF Edge
    <3> QED  BY <1>1, <2>3, <3>2, <3>3, <3>7 DEF Synced
  <2>5. CASE size # 0
    <3>1. ~x.slot /\ size = u + 1 /\ got' = got /\ stage' = "body"
      BY <1>2, <2>2, <2>5
    <3>2. PatternsLeft' = i
      BY <2>3, <3>1 DEF PatternsLeft, i
    <3>3. EdgeOf(out', marks', Sequences' + PatternsLeft' - 1) = st
      <4>1. Sequences' + PatternsLeft' - 1 = n - 1
        BY <1>2, <2>3, <3>2 DEF n
      <4> QED  BY <2>3, <4>1 DEF st, Edge
    <3>4. /\ end' + Cut' = st + L /\ (cursor' + Cut') - st = L
          /\ end' + 2 = cursor /\ end' + 2 <= f /\ L \in 0 .. L
          /\ L = 0 => j' < 0
          /\ L # 0 => j' = u - 1
      <4>1. Cut \in Int /\ (cursor - (L + 2)) + Cut = st /\ st \in Nat /\ L \in Nat /\ u \in Nat
            /\ (L = 0 => u = 0) /\ cursor \in 0 .. f /\ f \in Nat
        BY <1>2, <1>4, <1>5, <1>6, <1>f
      <4>2. cursor' = cursor - 2 /\ end' = cursor - 2 /\ j' = (u + 1) - 2 /\ Cut' = Cut
        BY <2>2, <2>3, <3>1
      <4> QED  BY ONLY <4>1, <4>2
    <3>5. InBody'
      <4>1. x = song'.patterns[PatternsLeft'] /\ file'[end' + 2] = x.length /\ Len(file') = f
        BY <2>1, <2>3, <3>2, <3>4 DEF x, f
      <4>2. (cursor' + Cut') - st = 0 <=> L = 0
        BY <3>4
      <4> QED  BY <3>1, <3>3, <3>4, <4>1, <4>2 DEF InBody, Edge, At, p, L, u
    <3> QED  BY <1>1, <2>3, <3>1, <3>5 DEF Synced
  <2> QED  BY <2>4, <2>5
<1> QED  BY <1>7, <1>8

\* A byte of an item that is in the file.
LEMMA ItemByte ==
  ASSUME ReadInv, stage \notin BeforeOpen, NEW n \in 1 .. Len(marks), NEW k \in 1 .. Len(Items[n]),
         NEW c \in 1 .. Len(file), c + Cut = Edge(n - 1) + k
  PROVE  file[c] = Items[n][k]
<1>1. LaidOut(out, marks, Items) /\ Damaged
  BY DEF ReadInv, WriterInv
<1>2. out[Edge(n - 1) + k] = Items[n][k]
  BY <1>1 DEF LaidOut, Edge
<1>3. Edge(n - 1) \in Nat /\ Len(Items[n]) \in Nat
  <2>1. out \in Seq(Byte) /\ marks \in Seq(Nat) /\ song \in Songs /\ Len(marks) \in Nat
        /\ Len(marks) = ToInstruments + 3
    BY LengthsAre, MarksAre DEF ReadInv, TypeInv, TypeOK
  <2>2. \A i \in 1 .. Len(marks) : Len(Items[i]) \in Nat
    BY <2>1, ItemLengths
  <2>3. n - 1 \in 0 .. Len(marks)
    BY <2>1
  <2>4. EdgeOf(out, marks, n - 1) \in 0 .. Len(out)
    BY <1>1, <2>1, <2>2, <2>3, EdgesAre
  <2>5. Len(out) \in Nat
    BY LengthsAre
  <2> QED  BY <2>2, <2>4, <2>5 DEF Edge
<1>4. c + Cut >= 1
  <2> DEFINE l == Len(Items[n])
             e == Edge(n - 1)
  <2>1. l \in Nat /\ e \in Nat /\ k \in 1 .. l /\ c + Cut = e + k
    BY <1>3
  <2> HIDE DEF l, e
  <2> QED  BY ONLY <2>1
<1>5. file[c] = out[c + Cut]
  BY <1>1, <1>4 DEF Damaged
<1> QED  BY <1>2, <1>5

\* One byte of the packed pattern further back.
LEMMA WalkMet ==
  ASSUME ReadInv, FoundAgain(song), Telling, Synced, WalkByte
  PROVE  (stage' = "refused" /\ file # out) \/ Synced' \/ Lost'
<1> DEFINE i == PatternsLeft
           x == song.patterns[i]
           n == Sequences + i
           p == Packed(x)
           L == Len(p)
           U == UnpackUpto(p)
           st == Edge(n - 1)
           w == At - st
           f == Len(file)
<1>1. stage = "body" /\ j >= 0 /\ i > 0 /\ InBody
  BY DEF WalkByte, Synced, ReadInv, CountInv
<1>2. /\ i \in Int /\ Sequences \in Nat /\ stage \notin BeforeOpen
      /\ n \in 1 .. Len(marks) /\ p \in Bytes /\ L \in Nat /\ Len(Items[n]) = L + 2
      /\ \A k \in 1 .. L : Items[n][k] = p[k]
  BY <1>1, NextPattern
<1>n. Sequences + (i - 1) = n - 1
  <2>1. i \in Int /\ Sequences \in Nat
    BY <1>2
  <2> HIDE DEF i
  <2> QED  BY <2>1
<1>3. /\ ~x.slot /\ end + Cut = st + L /\ end + 2 <= f /\ file[end + 2] = x.length /\ w \in 0 .. L
      /\ IF w = 0 THEN j < 0 ELSE j = Len(U[w]) - 1
  BY <1>1, <1>n DEF InBody
<1>4. st \in Nat /\ At = cursor + Cut /\ Cut \in Int /\ cursor \in 0 .. f /\ f \in Nat
      /\ (file = out => Cut = 0) /\ j \in Int
  <2>1. out \in Seq(Byte) /\ marks \in Seq(Nat) /\ song \in Songs /\ Len(marks) \in Nat /\ Len(out) \in Nat
        /\ Len(marks) = ToInstruments + 3 /\ LaidOut(out, marks, Items) /\ j \in -9 .. 253
    BY <1>2, LengthsAre, MarksAre DEF ReadInv, TypeInv, TypeOK, WriterInv
  <2>2. \A k \in 1 .. Len(marks) : Len(Items[k]) \in Nat
    BY <2>1, ItemLengths
  <2> HIDE DEF n
  <2>3. n - 1 \in 0 .. Len(marks)
    BY <1>2, <2>1
  <2>4. st \in 0 .. Len(out)
    BY <2>1, <2>2, <2>3, EdgesAre DEF Edge
  <2>5. file = out => Cut = 0
    BY <2>1 DEF Cut
  <2> QED  BY <2>1, <2>4, <2>5, LengthsAre DEF At
<1>5. /\ \A k \in 1 .. L : Len(U[k]) \in Nat /\ Len(U[k]) >= 1
      /\ L >= 1 => Len(U[1]) = 1
      /\ \A k \in 2 .. L : Len(U[k]) = Len(U[k - 1]) + Span(p[k], p[k - 1])
  <2>1. \A k \in 2 .. L : k \in 1 .. L /\ k > 1
    BY <1>2
  <2>2. L >= 1 => 1 \in 1 .. L
    BY <1>2
  <2> QED  BY <1>2, <2>1, <2>2, WalkedBytes
<1>s. \A y, z : Span(y, z) \in Int /\ Span(y, z) >= 1
  BY DEF Span, IsMarker, Marker, PackedMin, PackedMax
<1> HIDE DEF i, x, n, p, L, U, st, f
<1>6. w \in 1 .. L /\ j = Len(U[w]) - 1 /\ cursor + Cut = st + w
  BY <1>1, <1>2, <1>3, <1>4
<1> HIDE DEF w
<1>7. CASE cursor < 1
  <2>1. stage' = "refused"
    BY <1>7 DEF WalkByte, RefuseToRead
  <2>2. Cut # 0
    BY <1>4, <1>6, <1>7
  <2> QED  BY <1>4, <2>1, <2>2
<1>8. CASE ~(cursor < 1)
  <2> DEFINE before == IF cursor > 1 THEN file[cursor - 1] ELSE 0
  <2>1. /\ cursor' = cursor - 1 /\ j' = j - Span(file[cursor], before)
        /\ UNCHANGED <<written, file>> /\ got' = got /\ end' = end /\ stage' = stage
    BY <1>8 DEF WalkByte
  <2>2. /\ song' = song /\ out' = out /\ marks' = marks /\ file' = file /\ Cut' = Cut
        /\ Sequences' = Sequences
    BY <2>1, SameFile
  <2>3. file[cursor] = p[w]
    <3>1. cursor \in 1 .. f /\ w \in 1 .. L + 2
      BY <1>2, <1>4, <1>6, <1>8
    <3> QED  BY <1>2, <1>6, <3>1, ItemByte DEF f, st
  <2>4. PatternsLeft' = i
    BY <2>1, <2>2 DEF PatternsLeft, i
  <2>5. EdgeOf(out', marks', Sequences' + (PatternsLeft' - 1)) = st
    BY <1>n, <2>2, <2>4 DEF st, Edge
  <2>6. (cursor' + Cut') - st = w - 1
    BY <1>4, <1>6, <2>1, <2>2
  <2>7. ASSUME IF w = 1 THEN j' < 0 ELSE j' = Len(U[w - 1]) - 1
        PROVE  Synced'
    <3>1. w - 1 \in 0 .. L /\ (w - 1 = 0 <=> w = 1)
      BY <1>2, <1>6
    <3>2. x = song'.patterns[PatternsLeft'] /\ file'[end' + 2] = x.length /\ Len(file') = f
          /\ end' + Cut' = st + L /\ end' + 2 <= f
      BY <1>3, <2>1, <2>2, <2>4 DEF x, f
    <3>3. IF w - 1 = 0 THEN j' < 0 ELSE j' = Len(U[w - 1]) - 1
      BY <2>7, <3>1
    <3>4. InBody'
      BY <1>3, <2>5, <2>6, <3>1, <3>2, <3>3 DEF InBody, Edge, At, p, L, U
    <3> QED  BY <1>1, <2>1, <2>2, <3>4 DEF Synced
  <2>8. CASE w = 1
    <3>1. Len(U[1]) = 1 /\ j = 0
      <4>1. Len(U[1]) = 1
        BY <1>2, <1>5, <1>6
      <4> QED  BY <1>6, <2>8, <4>1
    <3>2. j' < 0
      <4> DEFINE sp == Span(file[cursor], before)
      <4>1. sp \in Int /\ sp >= 1 /\ j' = j - sp
        BY <1>s, <2>1
      <4> HIDE DEF sp
      <4> QED  BY <3>1, <4>1
    <3> QED  BY <2>7, <2>8, <3>2
  <2>9. CASE w # 1 /\ cursor > 1
    <3>1. file[cursor - 1] = p[w - 1]
      <4>1. cursor - 1 \in 1 .. f /\ w - 1 \in 1 .. L + 2 /\ w - 1 \in 1 .. L /\ (cursor - 1) + Cut = st + (w - 1)
        BY <1>2, <1>4, <1>6, <2>9
      <4> QED  BY <1>2, <4>1, ItemByte DEF f, st
    <3>2. w \in 2 .. L /\ w - 1 \in 1 .. L
      BY <1>2, <1>6, <2>9
    <3> DEFINE sp == Span(p[w], p[w - 1])
               y == Len(U[w])
               z == Len(U[w - 1])
    <3>3. j' = j - sp /\ y = z + sp /\ j = y - 1 /\ y \in Nat /\ z \in Nat /\ sp \in Int
      BY <1>5, <1>6, <1>s, <2>1, <2>3, <2>9, <3>1, <3>2
    <3> HIDE DEF sp, y, z
    <3>4. j' = z - 1
      BY ONLY <3>3
    <3> QED  BY <2>7, <2>9, <3>4 DEF z
  <2>10. CASE w # 1 /\ ~(cursor > 1)
    <3>1. cursor' = 0 /\ Cut' > 0
      BY <1>4, <1>6, <1>8, <2>1, <2>2, <2>10
    <3>2. got'.sequences = <<>>
      BY <1>1, <2>1 DEF ReadInv, CountInv
    <3> QED  BY <1>1, <2>1, <3>1, <3>2 DEF Lost
  <2> QED  BY <2>8, <2>9, <2>10
<1> QED  BY <1>7, <1>8

\* The start of a pattern's body: the walk has found the packed bytes.
LEMMA PatternBodyMet ==
  ASSUME ReadInv, FoundAgain(song), Telling, Synced, ReadPatternBody
  PROVE  Synced'
<1> DEFINE i == PatternsLeft
           x == song.patterns[i]
           n == Sequences + i
           p == Packed(x)
           L == Len(p)
           U == UnpackUpto(p)
           st == Edge(n - 1)
           w == At - st
           f == Len(file)
           t == SubSeq(file, cursor + 1, end)
<1>1. stage = "body" /\ j < 0 /\ i > 0 /\ InBody
  BY DEF ReadPatternBody, Synced, ReadInv, CountInv
<1>2. /\ i \in Int /\ Sequences \in Nat /\ stage \notin BeforeOpen
      /\ n \in 1 .. Len(marks) /\ p \in Bytes /\ L \in Nat /\ Len(Items[n]) = L + 2
      /\ \A k \in 1 .. L : Items[n][k] = p[k]
      /\ PatternParses(p) /\ ParsePattern(p) = x.rows
      /\ x = [rows |-> x.rows, length |-> x.length, slot |-> x.slot] /\ x.slot \in BOOLEAN
  BY <1>1, NextPattern DEF Pattern
<1>n. Sequences + (i - 1) = n - 1
  <2>1. i \in Int /\ Sequences \in Nat
    BY <1>2
  <2> HIDE DEF i
  <2> QED  BY <2>1
<1>3. /\ ~x.slot /\ end + Cut = st + L /\ end + 2 <= f /\ file[end + 2] = x.length /\ w \in 0 .. L
      /\ IF w = 0 THEN j < 0 ELSE j = Len(U[w]) - 1
  BY <1>1, <1>n DEF InBody
<1>4. /\ At = cursor + Cut /\ Cut \in Int /\ cursor \in 0 .. f /\ f \in Nat
      /\ j \in Int /\ end \in 0 .. f /\ file \in Bytes
  <2>1. j \in -9 .. 253 /\ end \in 0 .. f
    BY DEF ReadInv, TypeInv, TypeOK
  <2> QED  BY <2>1, LengthsAre DEF At
<1>5. \A k \in 1 .. L : Len(U[k]) \in Nat /\ Len(U[k]) >= 1
  BY <1>2, WalkedBytes
<1> HIDE DEF i, x, n, p, L, U, f
<1>6. w = 0
  <2>1. ASSUME w # 0 PROVE FALSE
    <3>1. w \in 1 .. L
      BY <1>2, <1>3, <2>1
    <3> DEFINE y == Len(U[w])
    <3>2. y \in Nat /\ y >= 1 /\ j = y - 1
      BY <1>3, <1>5, <2>1, <3>1
    <3> HIDE DEF y
    <3> QED  BY <1>1, <3>2
  <2> QED  BY <2>1
<1> DEFINE ct == Cut
<1>7. At = st /\ end = cursor + L
  <2>1. ct \in Int /\ cursor + ct - st = 0 /\ st \in Int /\ end + ct = st + L /\ cursor \in Int /\ end \in Int
        /\ At = cursor + ct /\ L \in Int
    <3>1. st \in Int
      <4>1. st \in 0 .. Len(out)
        <5>1. out \in Seq(Byte) /\ marks \in Seq(Nat) /\ song \in Songs /\ Len(marks) \in Nat
              /\ Len(marks) = ToInstruments + 3 /\ LaidOut(out, marks, Items)
          BY <1>2, LengthsAre, MarksAre DEF ReadInv, TypeInv, TypeOK, WriterInv
        <5>2. \A k \in 1 .. Len(marks) : Len(Items[k]) \in Nat
          BY <5>1, ItemLengths
        <5>3. n - 1 \in 0 .. Len(marks)
          BY <1>2, <5>1
        <5> QED  BY <5>1, <5>2, <5>3, EdgesAre DEF Edge
      <4> QED  BY <4>1
    <3> HIDE DEF st
    <3> QED  BY <1>2, <1>3, <1>4, <1>6, <3>1
  <2> HIDE DEF st, ct
  <2> QED  BY ONLY <2>1
<1>l. cursor \in 0 .. f /\ f \in Nat /\ end \in 0 .. f /\ L \in Nat /\ end = cursor + L
  BY <1>2, <1>4, <1>7
<1>8. t = p
  <2>1. cursor + 1 \in 1 .. f + 1 /\ end \in (cursor + 1) - 1 .. f /\ end - (cursor + 1) + 1 = L
        /\ \A k \in 1 .. L : cursor + 1 + k - 1 = cursor + k
    BY ONLY <1>l
  <2>2. /\ t \in Bytes /\ Len(t) = L /\ \A k \in 1 .. L : t[k] = file[cursor + k]
    <3>1. /\ t \in Bytes /\ Len(t) = end - (cursor + 1) + 1
          /\ \A k \in 1 .. end - (cursor + 1) + 1 : t[k] = file[cursor + 1 + k - 1]
      BY <1>4, <2>1, BytesBetween DEF f
    <3> HIDE DEF t
    <3> QED  BY <2>1, <3>1
  <2>3. ASSUME NEW k \in 1 .. L PROVE file[cursor + k] = p[k]
    <3>1. cursor + k \in 1 .. f /\ k \in 1 .. L + 2
      <4>1. k \in 1 .. L
        OBVIOUS
      <4> QED  BY ONLY <1>l, <4>1
    <3>2. (cursor + k) + Cut = st + k
      <4>1. At = st /\ At = cursor + ct /\ ct \in Int /\ cursor \in Int /\ k \in Int
        BY <1>2, <1>4, <1>7
      <4> HIDE DEF st, ct
      <4>2. (cursor + k) + ct = st + k
        BY ONLY <4>1
      <4> QED  BY <4>2 DEF ct
    <3> QED  BY <1>2, <3>1, <3>2, ItemByte DEF f
  <2>4. IsSeq(t) /\ IsSeq(p)
    BY <1>2, <2>2 DEF IsSeq, Bytes
  <2> HIDE DEF t
  <2>5. Len(t) = Len(p) /\ \A k \in 1 .. Len(t) : t[k] = p[k]
    BY <2>2, <2>3 DEF L
  <2> QED  BY <2>4, <2>5, SeqsEqual
<1>9. /\ got' = [got EXCEPT !.patterns = Prepend(x, @)]
      /\ stage' = "patterns" /\ UNCHANGED <<written, file, cursor, end, j>>
  <2>1. x = [rows |-> ParsePattern(p), length |-> file[end + 2], slot |-> FALSE]
    BY <1>2, <1>3
  <2> QED  BY <1>2, <1>8, <2>1 DEF ReadPatternBody
<1>10. /\ song' = song /\ out' = out /\ marks' = marks /\ file' = file /\ Cut' = Cut
       /\ Sequences' = Sequences /\ At' = At
  BY <1>9, SameFile DEF At
<1>11. /\ got'.patterns = Prepend(x, got.patterns)
       /\ got'.sequences = got.sequences /\ got'.instruments = got.instruments
       /\ got'.subtunes = got.subtunes /\ got'.chords = got.chords /\ got'.tempos = got.tempos
  BY <1>9 DEF ReadInv, CountInv
<1>12. IsTail(got'.patterns, song.patterns)
  <2>1. IsTail(got.patterns, song.patterns)
    BY DEF Synced
  <2>2. Len(got.patterns) < Len(song.patterns) /\ Len(song.patterns) \in Nat
    BY <1>1, LeftAre, LengthsAre DEF i
  <2>3. x = song.patterns[Len(song.patterns) - Len(got.patterns)]
    BY DEF x, i, PatternsLeft
  <2> QED  BY <1>11, <2>1, <2>2, <2>3, TailGrows
<1>13. PatternsLeft' = i - 1
  <2>1. IsSeq(got.patterns) /\ Len(song.patterns) \in Nat
    BY LengthsAre DEF ReadInv, CountInv
  <2>2. Len(song.patterns) - Len(Prepend(x, got.patterns)) = i - 1
    BY <2>1, OneLess DEF i, PatternsLeft
  <2> QED  BY <1>10, <1>11, <2>2 DEF PatternsLeft
<1>14. At' = Edge(Sequences + PatternsLeft)'
  <2>1. Sequences' + PatternsLeft' = n - 1
    BY <1>n, <1>10, <1>13
  <2> QED  BY <1>7, <1>10, <2>1 DEF Edge
<1> QED  BY <1>1, <1>9, <1>10, <1>11, <1>12, <1>14 DEF Synced

\* An orderlist, behind which its size stands.
LEMMA SequenceMet ==
  ASSUME ReadInv, FoundAgain(song), Telling, Synced, ReadSequence
  PROVE  (stage' = "refused" /\ file # out) \/ Synced'
<1> DEFINE i == SequencesLeft
           cmds == song.sequences[i]
           b == EncodeSequence(cmds)
           s == Len(b)
           l == Len(Items[i])
           f == Len(file)
<1>1. stage = "sequences" /\ stage \notin BeforeOpen /\ i \in 1 .. Len(song.sequences) /\ i \in Int
  <2>1. stage = "sequences" /\ Len(got.sequences) < Sequences
    BY DEF ReadSequence
  <2>2. i > 0 /\ i \in 0 .. Len(song.sequences) /\ Len(song.sequences) \in Nat
    BY <2>1, LeftAre, LengthsAre
  <2> HIDE DEF i
  <2> QED  BY <2>1, <2>2 DEF BeforeOpen
<1>2. /\ song \in Songs /\ Sequences \in Nat /\ ToPatterns = Sequences + Len(song.patterns)
      /\ ToInstruments = ToPatterns + Len(song.instruments) /\ Len(song.patterns) \in Nat
      /\ Len(song.instruments) \in Nat /\ Len(marks) = ToInstruments + 3 /\ StreamsParse /\ References
      /\ Sequences = Len(song.sequences)
  BY <1>1, LengthsAre, MarksAre, CountsAre
<1>3. i \in 1 .. Len(marks)
  <2> DEFINE y == Len(song.instruments)
             z == Len(song.patterns)
  <2>1. y \in Nat /\ z \in Nat /\ i \in 1 .. Sequences /\ Len(marks) = ((Sequences + z) + y) + 3
        /\ Sequences \in Nat
    BY <1>1, <1>2
  <2> HIDE DEF i, y, z
  <2>2. i \in 1 .. ((Sequences + z) + y) + 3
    BY ONLY <2>1
  <2> QED  BY <2>1, <2>2
<1>4. At = Edge(i)
  BY <1>1 DEF Synced
<1>5. song.sequences \in Seq(Seq(Command)) /\ cmds \in Seq(Command) /\ b \in Bytes
  <2> HIDE DEF i
  <2> QED  BY <1>1, <1>2, SongIs
<1>6. Items[i] = SequenceItem(cmds) /\ i \in DOMAIN song.sequences
  <2> HIDE DEF i
  <2>1. i \in 1 .. Sequences
    BY <1>1, <1>2
  <2> QED  BY <1>1, <1>2, <1>5, <2>1, ItemsAre
<1>7. SequenceParses(b) /\ ParseSequence(b) = cmds
  <2>1. SequenceParses(b)
    BY <1>2, <1>6 DEF StreamsParse
  <2>2. PlainOrder(cmds)
    BY <1>6 DEF FoundAgain
  <2>3. \E c \in DOMAIN cmds : Ending(cmds[c])
    BY <1>2, <1>6 DEF References, Ending
  <2> HIDE DEF cmds
  <2> QED  BY <1>5, <2>1, <2>2, <2>3, SequenceReadBack
<1> HIDE DEF i, cmds
<1>8. /\ s \in Nat /\ IsSeq(Items[i]) /\ l = s + 1 /\ IsSeq(b)
      /\ \A k \in 1 .. s : Items[i][k] = b[k]
      /\ Items[i][s + 1] = s
  BY <1>5, <1>6, SequenceItemIs DEF IsSeq, Bytes
<1>9. /\ file = out => cursor >= l
      /\ \A k \in 1 .. l : cursor - l + k >= 1 => file[cursor - l + k] = Items[i][k]
  BY <1>1, <1>3, <1>4, ItemBefore
<1>10. cursor \in Nat
  BY LengthsAre
<1> HIDE DEF b, l, s
<1>11. cursor >= 1 => file[cursor] = s
  <2>1. s + 1 \in 1 .. l /\ cursor - l + (s + 1) = cursor
    BY <1>8, <1>10
  <2> QED  BY <1>8, <1>9, <2>1
<1>12. cursor >= l <=> ~(cursor < 1) /\ ~(cursor - 1 < s)
  BY <1>8, <1>10
<1>13. cursor >= l => SubSeq(file, cursor - s, cursor - 1) = b
  <2> SUFFICES ASSUME cursor >= l PROVE SubSeq(file, cursor - s, cursor - 1) = b
    OBVIOUS
  <2>1. /\ 1 \in 1 .. l + 1 /\ s \in 1 - 1 .. l /\ s - 1 + 1 = s
        /\ cursor - l + 1 = cursor - s /\ cursor - l + s = cursor - 1
        /\ \A k \in 1 .. s : 1 + k - 1 = k
    BY <1>8, <1>10
  <2>2. \A k \in 1 .. s - 1 + 1 : b[k] = Items[i][1 + k - 1]
    BY <1>8, <2>1
  <2>3. SubSeq(file, cursor - l + 1, cursor - l + s) = b
    BY <1>1, <1>3, <1>4, <1>8, <2>1, <2>2, PartBefore DEF l, s
  <2> QED  BY <2>1, <2>3
<1>14. CASE cursor < 1 \/ cursor - 1 < file[cursor] \/ ~SequenceParses(SubSeq(file, cursor - file[cursor], cursor - 1))
  <2>1. stage' = "refused"
    BY <1>14 DEF ReadSequence, RefuseToRead
  <2>2. ~(cursor >= l)
    <3>1. ASSUME cursor >= l PROVE FALSE
      <4>1. cursor >= 1 /\ ~(cursor < 1) /\ ~(cursor - 1 < s)
        BY <1>8, <1>10, <1>12, <3>1
      <4>2. file[cursor] = s
        BY <1>11, <4>1
      <4> QED  BY <1>7, <1>13, <1>14, <3>1, <4>1, <4>2
    <3> QED  BY <3>1
  <2> QED  BY <1>9, <2>1, <2>2
<1>15. CASE ~(cursor < 1 \/ cursor - 1 < file[cursor] \/ ~SequenceParses(SubSeq(file, cursor - file[cursor], cursor - 1)))
  <2>1. file[cursor] = s /\ cursor >= l
    <3>1. cursor >= 1
      BY <1>10, <1>15
    <3> QED  BY <1>11, <1>12, <1>15, <3>1
  <2>2. SubSeq(file, cursor - s, cursor - 1) = b
    BY <1>13, <2>1
  <2>3. /\ got' = [got EXCEPT !.sequences = Prepend(cmds, @)]
        /\ cursor' = cursor - 1 - s
        /\ UNCHANGED <<written, file, stage>>
    BY <1>7, <1>15, <2>1, <2>2 DEF ReadSequence
  <2>4. /\ got'.sequences = Prepend(cmds, got.sequences)
        /\ got'.patterns = got.patterns /\ got'.instruments = got.instruments
        /\ got'.subtunes = got.subtunes /\ got'.chords = got.chords /\ got'.tempos = got.tempos
    BY <2>3 DEF ReadInv, CountInv
  <2>5. /\ song' = song /\ out' = out /\ marks' = marks /\ stage' = "sequences"
    BY <1>1, <2>3, SameFile
  <2>6. IsTail(got'.sequences, song.sequences)
    <3>1. IsTail(got.sequences, song.sequences)
      BY DEF Synced
    <3>2. Len(got.sequences) < Len(song.sequences) /\ Len(song.sequences) \in Nat
      BY <1>2 DEF ReadSequence
    <3>3. cmds = song.sequences[Len(song.sequences) - Len(got.sequences)]
      BY DEF cmds, i, SequencesLeft
    <3> QED  BY <2>4, <3>1, <3>2, <3>3, TailGrows
  <2>7. SequencesLeft' = i - 1
    <3>1. IsSeq(got.sequences) /\ Len(song.sequences) \in Nat
      BY LengthsAre DEF ReadInv, CountInv
    <3>2. Len(song.sequences) - Len(Prepend(cmds, got.sequences)) = i - 1
      BY <3>1, OneLess DEF i, SequencesLeft
    <3> QED  BY <2>4, <2>5, <3>2 DEF SequencesLeft
  <2>8. At' = EdgeOf(out', marks', i - 1)
    <3>1. cursor' = cursor - l
      BY <1>8, <1>10, <2>3
    <3> QED  BY <1>1, <1>3, <1>4, <2>3, <3>1, BeforeItem DEF l
  <2>9. At' = Edge(SequencesLeft)'
    BY <2>5, <2>7, <2>8 DEF Edge
  <2> QED  BY <1>1, <2>4, <2>5, <2>6, <2>9 DEF Synced
<1> QED  BY <1>14, <1>15

\* The file is read when nothing is left of it.
LEMMA FinishMet ==
  ASSUME ReadInv, Telling, Synced, Finish
  PROVE  (stage' = "refused" /\ file # out) \/ Synced'
<1>1. stage = "sequences" /\ SequencesLeft = 0 /\ stage \notin BeforeOpen
  BY LeftAre DEF Finish, BeforeOpen
<1>2. At = 0 /\ At = Edge(0)
  BY <1>1 DEF Synced, ReadInv, WriterInv, LaidOut, Edge
<1>3. CASE cursor # 0
  <2>1. stage' = "refused"
    BY <1>3 DEF Finish, RefuseToRead
  <2>2. ASSUME file = out PROVE FALSE
    <3>1. Cut = 0
      BY <2>2, LengthsAre DEF Cut
    <3> QED  BY <1>2, <1>3, <3>1, LengthsAre DEF At
  <2> QED  BY <2>1, <2>2
<1>4. CASE cursor = 0
  <2>1. stage' = "read" /\ UNCHANGED <<written, file, reading>>
    BY <1>4 DEF Finish
  <2>2. song' = song /\ out' = out /\ marks' = marks /\ got' = got /\ At' = At
    BY <2>1, SameFile DEF written, reading, At
  <2>3. At' = Edge(0)'
    BY <1>2, <2>2 DEF Edge
  <2> QED  BY <1>1, <2>1, <2>2, <2>3 DEF Synced
<1> QED  BY <1>3, <1>4

\* A reader whose walk has come to where the file was cut off does not get past
\* the orderlists.
LEMMA LostStays ==
  ASSUME ReadInv, Telling, Lost, Read
  PROVE  (stage' = "refused" /\ file # out) \/ Lost'
<1>1. cursor = 0 /\ Cut > 0 /\ stage \in {"body", "patterns", "sequences"} /\ got.sequences = <<>>
  BY DEF Lost
<1>2. file # out
  <2>1. ASSUME file = out PROVE FALSE
    <3>1. Cut = 0
      BY <2>1, LengthsAre DEF Cut
    <3> QED  BY <1>1, <3>1
  <2> QED  BY <2>1
<1>3. Cut' = Cut
  BY SameFile, ReadLeaves
<1>4. ReadPatternSize \/ WalkByte \/ ReadSequence => stage' = "refused"
  <2>1. cursor < 2 /\ cursor < 1
    BY <1>1
  <2> QED  BY <2>1 DEF ReadPatternSize, WalkByte, ReadSequence, RefuseToRead
<1>5. CASE ReadPatternBody
  <2>1. \/ stage' = "refused"
        \/ \E x : got' = [got EXCEPT !.patterns = x] /\ stage' = "patterns" /\ cursor' = cursor
    BY <1>5 DEF ReadPatternBody, RefuseToRead
  <2>2. stage' # "refused" => got'.sequences = <<>>
    BY <1>1, <2>1 DEF ReadInv, CountInv
  <2> QED  BY <1>1, <1>2, <1>3, <2>1, <2>2 DEF Lost
<1>6. CASE PatternsRead
  <2>1. got' = got /\ cursor' = cursor /\ stage' = "sequences"
    BY <1>6 DEF PatternsRead, reading
  <2> QED  BY <1>1, <1>3, <2>1 DEF Lost
<1>7. ~Finish
  <2>1. ASSUME Finish PROVE FALSE
    <3>1. Len(got.sequences) = Sequences
      BY <2>1 DEF Finish
    <3>2. Sequences = 0
      BY <1>1, <3>1
    <3> QED  BY <1>2, <3>2 DEF Telling
  <2> QED  BY <2>1
<1>8. ~ReadSubtunes /\ ~ReadTempos /\ ~ReadChords /\ ~ReadInstrument /\ ~InstrumentsRead
  BY <1>1 DEF ReadSubtunes, ReadTempos, ReadChords, ReadInstrument, InstrumentsRead
<1> QED  BY <1>2, <1>4, <1>5, <1>6, <1>7, <1>8 DEF Read

\* The reader starts at the end of the writer's last item.
LEMMA OpenMet ==
  ASSUME ReadInv, Open
  PROVE  Synced'
<1>1. /\ stage = "written" /\ stage' = "subtunes" /\ song' = song /\ out' = out /\ marks' = marks /\ got' = got
      /\ cursor' = Len(file')
  BY DEF Open, written
<1>2. /\ Len(marks) = ToInstruments + 3 /\ Len(out) \in Nat /\ Len(marks) \in Nat /\ ToInstruments' = ToInstruments
  BY <1>1, LengthsAre, SongKept DEF ReadInv, WriterInv
<1>3. Len(file') \in Nat
  <2>1. file' \in Seq(Byte)
    BY OpenTyped DEF ReadInv, TypeInv, TypeOK
  <2> QED  BY <2>1, LenProperties
<1>4. EdgeOf(out', marks', ToInstruments' + 3) = Len(out)
  <2>1. ~(Len(marks) < Len(marks))
    BY <1>2
  <2> QED  BY <1>1, <1>2, <2>1 DEF EdgeOf
<1> DEFINE a == Len(out)
           c == Len(file')
<1>5. c + (a - c) = a
  <2>1. a \in Nat /\ c \in Nat
    BY <1>2, <1>3
  <2> HIDE DEF a, c
  <2> QED  BY <2>1
<1>6. At' = Edge(ToInstruments + 3)'
  BY <1>1, <1>4, <1>5 DEF Edge, At, Cut
<1>7. IsTail(got.sequences, song.sequences) /\ IsTail(got.patterns, song.patterns)
      /\ IsTail(got.instruments, song.instruments)
  <2>1. stage \in Early
    BY <1>1 DEF Early, BeforeOpen
  <2>2. got.sequences = <<>> /\ got.patterns = <<>> /\ got.instruments = <<>>
    BY <2>1 DEF ReadInv, CountInv
  <2>3. Len(song.sequences) >= 0 /\ Len(song.patterns) >= 0 /\ Len(song.instruments) >= 0
    BY LengthsAre
  <2>4. IsSeq(<<>>)
    BY DEF IsSeq
  <2>5. \A t : Len(t) >= 0 => IsTail(<<>>, t)
    BY <2>4 DEF IsTail
  <2> QED  BY <2>2, <2>3, <2>5
<1> QED  BY <1>1, <1>6, <1>7 DEF Synced

\* A step of the reader meets the writer's items, or the file is not the writer's.
LEMMA StepMet ==
  ASSUME ReadInv, FoundAgain(song), Telling, Synced, Read
  PROVE  (stage' = "refused" /\ file # out) \/ Synced' \/ Lost'
<1>1. CASE ReadSubtunes
  BY <1>1, SubtunesMet
<1>2. CASE ReadTempos
  BY <1>2, TemposMet
<1>3. CASE ReadChords
  BY <1>3, ChordsMet
<1>4. CASE ReadInstrument
  BY <1>4, InstrumentMet
<1>5. CASE InstrumentsRead \/ PatternsRead
  BY <1>5, KindsMet
<1>6. CASE ReadPatternSize
  BY <1>6, PatternSizeMet
<1>7. CASE WalkByte
  BY <1>7, WalkMet
<1>8. CASE ReadPatternBody
  BY <1>8, PatternBodyMet
<1>9. CASE ReadSequence
  BY <1>9, SequenceMet
<1>10. CASE Finish
  BY <1>10, FinishMet
<1> QED  BY <1>1, <1>2, <1>3, <1>4, <1>5, <1>6, <1>7, <1>8, <1>9, <1>10, Zenon DEF Read

\* The inductive invariant: what is written and what is read of it.
FileInv == ReadInv /\ PositionInv /\ ReadsWritten

LEMMA FileStarts == ASSUME Init PROVE FileInv
<1>1. /\ song \in Songs /\ out = <<>> /\ marks = <<>> /\ file = <<>> /\ cursor = 0 /\ end = 0 /\ j = -1
      /\ stage = "song" /\ got = Nothing
  BY DEF Init
<1>2. Len(file) = 0 /\ Len(out) = 0 /\ Len(marks) = 0
  BY <1>1
<1>3. TypeInv
  <2>1. /\ out \in Seq(Byte) /\ marks \in Seq(Nat) /\ file \in Seq(Byte)
        /\ cursor \in 0 .. Len(file) /\ end \in 0 .. Len(file) /\ j \in -9 .. 253
    BY <1>1, <1>2
  <2> QED  BY <1>1, <2>1 DEF TypeInv, TypeOK
<1>4. WriterInv
  <2>1. ToInstruments \in Nat
    BY <1>1, CountsAre
  <2>2. EdgeOf(out, marks, 0) = 0
    BY <1>2 DEF EdgeOf
  <2>3. \A n : ~(n \in 1 .. Len(marks))
    BY <1>2
  <2>4. LaidOut(out, marks, Items)
    BY <2>2, <2>3 DEF LaidOut
  <2>5. Len(marks) <= ToInstruments
    BY <1>2, <2>1
  <2> QED  BY <1>1, <2>4, <2>5 DEF WriterInv
<1>5. Damaged
  <2>1. \A i : ~(i \in 1 .. Len(file))
    BY <1>2
  <2> QED  BY <2>1 DEF Damaged
<1>6. CountInv
  <2>1. /\ got.sequences = <<>> /\ got.patterns = <<>> /\ got.instruments = <<>>
        /\ got = [sequences |-> got.sequences, patterns |-> got.patterns, instruments |-> got.instruments,
                  chords |-> got.chords, tempos |-> got.tempos, subtunes |-> got.subtunes]
    BY <1>1 DEF Nothing
  <2>2. IsSeq(<<>>) /\ Len(<<>>) = 0
    BY DEF IsSeq
  <2> DEFINE a == Len(song.instruments)
             b == Len(song.patterns)
             c == Len(song.sequences)
  <2>3. a \in Nat /\ b \in Nat /\ c \in Nat
    BY <1>1, CountsAre
  <2> HIDE DEF a, b, c
  <2>4. a - 0 >= 0 /\ b - 0 >= 0 /\ c - 0 >= 0
    BY <2>3
  <2>5. InstrumentsLeft >= 0 /\ PatternsLeft >= 0 /\ SequencesLeft >= 0
    BY <2>1, <2>2, <2>4 DEF InstrumentsLeft, PatternsLeft, SequencesLeft, a, b, c
  <2> QED  BY <1>1, <2>1, <2>2, <2>5 DEF CountInv
<1>7. stage \in BeforeOpen
  BY <1>1 DEF BeforeOpen
<1> QED  BY <1>1, <1>3, <1>4, <1>5, <1>6, <1>7 DEF FileInv, ReadInv, PositionInv, ReadsWritten

LEMMA FileSteps ==
  ASSUME FileInv, [Next]_vars, \A s \in Songs : FoundAgain(s)
  PROVE  FileInv'
<1>1. ReadInv /\ TypeInv /\ WriterInv /\ Damaged /\ CountInv /\ FoundAgain(song)
  BY DEF FileInv, ReadInv, TypeInv
<1>2. TypeInv'
  <2>1. CASE UNCHANGED vars
    BY <1>1, <2>1 DEF vars, written, reading, TypeInv, TypeOK
  <2> QED  BY <1>1, <2>1, WriteTyped, OpenTyped, ReadStepTyped DEF Next
<1>3. ReadInv'
  BY <1>1, <1>2, WriterHolds, DamagedHolds, CountHolds DEF ReadInv
<1>4. CASE UNCHANGED vars
  <2>1. UNCHANGED <<written, file, reading, stage>>
    BY <1>4 DEF vars
  <2>2. /\ song' = song /\ out' = out /\ marks' = marks /\ file' = file /\ got' = got /\ cursor' = cursor
        /\ end' = end /\ j' = j /\ stage' = stage
    BY <2>1 DEF written, reading
  <2>3. PositionInv' <=> PositionInv
    BY <2>2 DEF PositionInv, Telling, Synced, Lost, InBody, At, Cut, Edge, EdgeOf, Sequences, ToPatterns,
                ToInstruments, InstrumentsLeft, PatternsLeft, SequencesLeft
  <2> QED  BY <1>3, <2>2, <2>3 DEF FileInv, ReadsWritten
<1>5. CASE Write
  <2>1. stage' \in BeforeOpen
    BY <1>5 DEF Write, CheckSong, WriteSequence, WritePattern, WriteInstrument, WriteTables, Store,
                RefuseToWrite, BeforeOpen
  <2>2. stage' # "refused"
    BY <2>1 DEF BeforeOpen
  <2> QED  BY <1>3, <2>1, <2>2 DEF FileInv, PositionInv, ReadsWritten
<1>6. CASE Open
  <2>1. stage' = "subtunes"
    BY <1>6 DEF Open
  <2>2. Synced'
    BY <1>1, <1>6, OpenMet
  <2> QED  BY <1>3, <2>1, <2>2 DEF FileInv, PositionInv, ReadsWritten
<1>7. CASE Read
  <2>1. /\ file' = file /\ out' = out /\ (Telling' <=> Telling) /\ stage \notin BeforeOpen
    BY <1>7, ReadLeaves, SameFile
  <2>2. stage # "refused"
    BY <1>7 DEF Read, ReadSubtunes, ReadTempos, ReadChords, ReadInstrument, InstrumentsRead, ReadPatternSize,
                WalkByte, ReadPatternBody, PatternsRead, ReadSequence, Finish
  <2>3. CASE ~Telling
    <3>1. file # out
      BY <2>3 DEF Telling
    <3> QED  BY <1>3, <2>1, <2>3, <3>1 DEF FileInv, PositionInv, ReadsWritten
  <2>4. CASE Telling
    <3>1. Synced \/ Lost
      BY <2>1, <2>2, <2>4 DEF FileInv, PositionInv
    <3>2. (stage' = "refused" /\ file # out) \/ Synced' \/ Lost'
      BY <1>1, <1>7, <2>4, <3>1, StepMet, LostStays
    <3>3. Synced' \/ Lost' => PositionInv'
      BY DEF PositionInv
    <3>4. ReadsWritten'
      <4>1. CASE stage' = "refused" /\ file # out
        BY <2>1, <4>1 DEF ReadsWritten
      <4>2. CASE Synced' \/ Lost'
        BY <4>2 DEF ReadsWritten, Synced, Lost
      <4> QED  BY <3>2, <4>1, <4>2
    <3> QED  BY <1>3, <3>2, <3>3, <3>4 DEF FileInv, PositionInv, BeforeOpen
  <2> QED  BY <2>3, <2>4
<1> QED  BY <1>4, <1>5, <1>6, <1>7 DEF Next

\* The writer's mark the reader stands at is that of the item it has read last.
LEMMA MarksMet ==
  ASSUME ReadInv, Synced, stage \notin BeforeOpen
  PROVE  /\ stage = "subtunes" => ItemsRead = 0 /\ At = Len(out)
         /\ stage \in {"tempos", "chords", "instruments", "patterns", "sequences"}
              => ItemsRead # 0 /\ At = marks[Len(marks) - ItemsRead + 1]
         /\ stage = "body" /\ j < 0 => At = marks[Len(marks) - ItemsRead]
<1> DEFINE a == Len(song.sequences)
           b == Len(song.patterns)
           c == Len(song.instruments)
           x == Len(got.sequences)
           y == Len(got.patterns)
           z == Len(got.instruments)
           m == Len(marks)
           r == ItemsRead
<1>1. /\ a \in Nat /\ b \in Nat /\ c \in Nat /\ x \in Nat /\ y \in Nat /\ z \in Nat
      /\ Sequences = a /\ ToPatterns = a + b /\ ToInstruments = (a + b) + c
  BY LengthsAre
<1>2. m = ((a + b) + c) + 3 /\ m \in Nat
  BY <1>1, MarksAre, LengthsAre
<1>3. /\ x <= a /\ y <= b /\ z <= c
      /\ stage \in {"subtunes", "tempos", "chords"} => z = 0
      /\ stage \in {"patterns", "body", "sequences"} => z = c
      /\ stage \in {"subtunes", "tempos", "chords", "instruments"} => y = 0
      /\ stage \in {"sequences"} => y = b
      /\ stage = "body" => y < b
      /\ stage \in {"subtunes", "tempos", "chords", "instruments", "patterns", "body"} => x = 0
  <2>1. /\ a - x >= 0 /\ b - y >= 0 /\ c - z >= 0
        /\ stage \in {"patterns", "body", "sequences"} => c - z = 0
        /\ stage \in {"sequences"} => b - y = 0
        /\ stage = "body" => b - y > 0
    BY DEF ReadInv, CountInv, InstrumentsLeft, PatternsLeft, SequencesLeft
  <2>2. /\ stage \in {"subtunes", "tempos", "chords"} => got.instruments = <<>>
        /\ stage \in {"subtunes", "tempos", "chords", "instruments"} => got.patterns = <<>>
        /\ stage \in {"subtunes", "tempos", "chords", "instruments", "patterns", "body"} => got.sequences = <<>>
    BY DEF ReadInv, CountInv, Early
  <2>3. Len(<<>>) = 0
    OBVIOUS
  <2>4. /\ stage \in {"subtunes", "tempos", "chords"} => z = 0
        /\ stage \in {"subtunes", "tempos", "chords", "instruments"} => y = 0
        /\ stage \in {"subtunes", "tempos", "chords", "instruments", "patterns", "body"} => x = 0
    BY <2>2, <2>3
  <2> HIDE DEF a, b, c, x, y, z
  <2>5. x <= a /\ y <= b /\ z <= c /\ (c - z = 0 => z = c) /\ (b - y = 0 => y = b) /\ (b - y > 0 => y < b)
    BY <1>1, <2>1
  <2> QED  BY <2>1, <2>4, <2>5
<1>4. r = (CASE stage = "subtunes" -> 0 [] stage = "tempos" -> 1 [] stage = "chords" -> 2 [] OTHER -> 3) + z + y + x
  BY DEF ItemsRead
<1>5. /\ InstrumentsLeft = c - z /\ PatternsLeft = b - y /\ SequencesLeft = a - x
  BY DEF InstrumentsLeft, PatternsLeft, SequencesLeft
<1>6. \A n \in Nat : n < m => Edge(n) = marks[n + 1]
  BY DEF Edge, EdgeOf
<1>7. Edge(m) = Len(out)
  <2>1. m \in Nat
    BY <1>2
  <2> HIDE DEF m
  <2>2. ~(m < m)
    BY <2>1
  <2> QED  BY <2>2 DEF Edge, EdgeOf, m
<1> HIDE DEF a, b, c, x, y, z, m, r
<1>8. CASE stage = "subtunes"
  <2>1. r = 0
    BY <1>1, <1>3, <1>4, <1>8
  <2>2. ToInstruments + 3 = m
    BY <1>1, <1>2
  <2> QED  BY <1>7, <1>8, <2>1, <2>2 DEF Synced, r
<1>9. CASE stage = "tempos"
  <2>1. r = 1 /\ m - r + 1 = (m - 1) + 1 /\ m - 1 \in Nat /\ m - 1 < m /\ ToInstruments + 2 = m - 1
    BY <1>1, <1>2, <1>3, <1>4, <1>9
  <2> QED  BY <1>6, <1>9, <2>1 DEF Synced, r, m
<1>10. CASE stage = "chords"
  <2>1. r = 2 /\ m - r + 1 = (m - 2) + 1 /\ m - 2 \in Nat /\ m - 2 < m /\ ToInstruments + 1 = m - 2
    BY <1>1, <1>2, <1>3, <1>4, <1>10
  <2> QED  BY <1>6, <1>10, <2>1 DEF Synced, r, m
<1>11. CASE stage = "instruments"
  <2> DEFINE n == (a + b) + (c - z)
  <2>1. r = 3 + z /\ r # 0 /\ m - r + 1 = n + 1 /\ n \in Nat /\ n < m
    BY <1>1, <1>2, <1>3, <1>4, <1>11
  <2>2. At = Edge(n)
    BY <1>1, <1>5, <1>11 DEF Synced
  <2> HIDE DEF n
  <2> QED  BY <1>6, <1>11, <2>1, <2>2 DEF r, m
<1>12. CASE stage = "patterns"
  <2> DEFINE n == a + (b - y)
  <2>1. r = 3 + c + y /\ r # 0 /\ m - r + 1 = n + 1 /\ n \in Nat /\ n < m
    BY <1>1, <1>2, <1>3, <1>4, <1>12
  <2>2. At = Edge(n)
    BY <1>1, <1>5, <1>12 DEF Synced
  <2> HIDE DEF n
  <2> QED  BY <1>6, <1>12, <2>1, <2>2 DEF r, m
<1>13. CASE stage = "sequences"
  <2> DEFINE n == a - x
  <2>1. r = 3 + c + b + x /\ r # 0 /\ m - r + 1 = n + 1 /\ n \in Nat /\ n < m
    BY <1>1, <1>2, <1>3, <1>4, <1>13
  <2>2. At = Edge(n)
    BY <1>5, <1>13 DEF Synced
  <2> HIDE DEF n
  <2> QED  BY <1>6, <1>13, <2>1, <2>2 DEF r, m
<1>14. CASE stage = "body" /\ j < 0
  <2> DEFINE n == a + ((b - y) - 1)
             pattern == song.patterns[PatternsLeft]
             st == Edge(n)
             w == At - st
             p == Packed(pattern)
  <2>1. r = 3 + c + y /\ m - r = n + 1 /\ n \in Nat /\ n < m
    BY <1>1, <1>2, <1>3, <1>4, <1>14
  <2>2. PatternsLeft \in 1 .. Len(song.patterns) /\ Sequences + (PatternsLeft - 1) = n
    <3>1. b - y \in 1 .. b
      BY <1>1, <1>3, <1>14
    <3> QED  BY <1>1, <1>5, <3>1 DEF b
  <2>3. w \in 0 .. Len(p) /\ (w # 0 => j = Len(UnpackUpto(p)[w]) - 1)
    <3>1. InBody
      BY <1>14 DEF Synced
    <3> HIDE DEF n
    <3> QED  BY <2>2, <3>1 DEF InBody
  <2>4. pattern \in Pattern
    <3>1. song \in Songs
      BY LengthsAre
    <3> QED  BY <2>2, <3>1, SongIs
  <2> HIDE DEF n, pattern
  <2>5. p \in Bytes /\ j \in Int /\ Len(p) \in Nat
    BY <2>4, PatternItemIs DEF ReadInv, TypeInv, TypeOK
  <2> HIDE DEF p
  <2>6. \A k \in 1 .. Len(p) : Len(UnpackUpto(p)[k]) \in Nat /\ Len(UnpackUpto(p)[k]) >= 1
    BY <2>5, WalkedBytes
  <2>7. w = 0
    <3>1. ASSUME w # 0 PROVE FALSE
      <4>1. w \in 1 .. Len(p)
        BY <2>3, <2>5, <3>1
      <4> DEFINE u == Len(UnpackUpto(p)[w])
      <4>2. u \in Nat /\ u >= 1 /\ j = u - 1
        BY <2>3, <2>6, <3>1, <4>1
      <4> HIDE DEF u
      <4> QED  BY <1>14, <4>2
    <3> QED  BY <3>1
  <2>8. At = st
    <3>1. At \in Int /\ st \in Int
      <4>1. out \in Seq(Byte) /\ marks \in Seq(Nat) /\ song \in Songs /\ Len(marks) = ToInstruments + 3
            /\ LaidOut(out, marks, Items) /\ At \in Int
        BY LengthsAre, MarksAre DEF ReadInv, TypeInv, TypeOK, WriterInv
      <4>2. \A k \in 1 .. Len(marks) : Len(Items[k]) \in Nat
        BY <4>1, ItemLengths
      <4>3. n \in 0 .. Len(marks)
        BY <1>2, <2>1 DEF m
      <4>4. st \in 0 .. Len(out)
        BY <4>1, <4>2, <4>3, EdgesAre DEF Edge
      <4> QED  BY <4>1, <4>4
    <3> DEFINE t == At
    <3>2. t \in Int /\ st \in Int /\ t - st = 0
      BY <2>7, <3>1
    <3> HIDE DEF t, st
    <3>3. t = st
      BY ONLY <3>2
    <3> QED  BY <3>3 DEF t
  <2> QED  BY <1>6, <1>14, <2>1, <2>8 DEF r, m
<1> QED  BY <1>8, <1>9, <1>10, <1>11, <1>12, <1>13, <1>14

\* Every song read back is the one written, of the file as it was written.
LEMMA AllRead ==
  ASSUME ReadInv, Synced, stage = "read"
  PROVE  file = out /\ got = song
<1>1. cursor = 0 /\ At = 0 /\ InstrumentsLeft = 0 /\ PatternsLeft = 0 /\ SequencesLeft = 0 /\ Damaged
  BY DEF Synced, ReadInv, CountInv, WriterInv, LaidOut, Edge
<1>2. song \in Songs /\ out \in Seq(Byte) /\ file \in Seq(Byte) /\ Len(out) \in Nat /\ Len(file) \in Nat
  BY LengthsAre DEF ReadInv, TypeInv, TypeOK
<1>3. file = out
  <2> DEFINE a == Len(out)
             f == Len(file)
  <2>1. a \in Nat /\ f \in Nat /\ 0 + (a - f) = 0
    BY <1>1, <1>2 DEF At, Cut
  <2> HIDE DEF a, f
  <2>2. a = f /\ a - f = 0
    BY <2>1
  <2>3. Len(file) = Len(out) /\ Cut = 0
    BY <2>2 DEF a, f, Cut
  <2>4. \A i \in 1 .. Len(file) : i + Cut >= 1 /\ i + Cut = i
    BY <1>2, <2>3
  <2>5. \A i \in 1 .. Len(file) : file[i] = out[i]
    BY <1>1, <2>4 DEF Damaged
  <2> QED  BY <1>2, <2>3, <2>5, SeqsEqual DEF IsSeq
<1>4. got.sequences = song.sequences /\ got.patterns = song.patterns /\ got.instruments = song.instruments
  <2>1. Len(got.sequences) = Len(song.sequences) /\ Len(got.patterns) = Len(song.patterns)
        /\ Len(got.instruments) = Len(song.instruments)
    BY <1>1, LeftAre, LengthsAre
  <2>2. IsSeq(song.sequences) /\ IsSeq(song.patterns) /\ IsSeq(song.instruments)
    BY <1>2, SongIs DEF IsSeq
  <2>3. IsTail(got.sequences, song.sequences) /\ IsTail(got.patterns, song.patterns)
        /\ IsTail(got.instruments, song.instruments)
    BY DEF Synced
  <2> QED  BY <2>1, <2>2, <2>3, WholeTail
<1>5. got.subtunes = song.subtunes /\ got.tempos = song.tempos /\ got.chords = song.chords
  BY DEF Synced
<1>6. got = [sequences |-> got.sequences, patterns |-> got.patterns, instruments |-> got.instruments,
             chords |-> got.chords, tempos |-> got.tempos, subtunes |-> got.subtunes]
  BY DEF ReadInv, CountInv
<1>7. song = [sequences |-> song.sequences, patterns |-> song.patterns, instruments |-> song.instruments,
              chords |-> song.chords, tempos |-> song.tempos, subtunes |-> song.subtunes]
  BY <1>2, SongsAssumption DEF StoredSong
<1> QED  BY <1>3, <1>4, <1>5, <1>6, <1>7

\* If the songs' bytes can be found again, the reader stands between two items
\* where the writer went from one to the other, and a pattern's body that is
\* walked to its start begins where the writer began the pattern.
THEOREM CursorMeetsMarks ==
  ASSUME \A s \in Songs : FoundAgain(s)
  PROVE  Spec => []MeetsMarks
<1>1. Init => FileInv
  BY FileStarts
<1>2. FileInv /\ [Next]_vars => FileInv'
  BY FileSteps
<1>3. FileInv => MeetsMarks
  <2> SUFFICES ASSUME FileInv, Telling, Uncut,
                      stage \in {"subtunes", "tempos", "chords", "instruments", "patterns", "sequences"}
                      \/ (stage = "body" /\ j < 0)
               PROVE  /\ stage \in {"subtunes", "tempos", "chords", "instruments", "patterns", "sequences"}
                           => At = IF ItemsRead = 0 THEN Len(out) ELSE marks[Len(marks) - ItemsRead + 1]
                      /\ stage = "body" /\ j < 0 => At = marks[Len(marks) - ItemsRead]
    BY DEF MeetsMarks, At, Cut
  <2>1. stage \notin BeforeOpen \cup {"refused"}
    BY DEF BeforeOpen
  <2>2. ReadInv /\ (Synced \/ Lost)
    BY <2>1 DEF FileInv, PositionInv
  <2>3. ~Lost
    <3> DEFINE a == Len(out)
               f == Len(file)
    <3>1. a \in Nat /\ f \in Nat /\ cursor \in 0 .. f /\ (cursor > 0 \/ f >= a)
      BY <2>2, LengthsAre DEF Uncut
    <3> HIDE DEF a, f
    <3>2. ~(cursor = 0 /\ a - f > 0)
      BY <3>1
    <3> QED  BY <3>2 DEF Lost, Cut, a, f
  <2> QED  BY <2>1, <2>2, <2>3, MarksMet
<1> QED  BY <1>1, <1>2, <1>3, PTL DEF Spec

\* If the songs' bytes can be found again, what is read is the song that was
\* written, and of no other bytes.
THEOREM FileReadsBack ==
  ASSUME \A s \in Songs : FoundAgain(s)
  PROVE  Spec => []ReadsBack
<1>1. Init => FileInv
  BY FileStarts
<1>2. FileInv /\ [Next]_vars => FileInv'
  BY FileSteps
<1>3. FileInv => ReadsBack
  <2> SUFFICES ASSUME FileInv, Telling, stage = "read" PROVE file = out /\ got = song
    BY DEF ReadsBack
  <2>1. ReadInv /\ Synced
    BY DEF FileInv, PositionInv, BeforeOpen, Lost
  <2> QED  BY <2>1, AllRead
<1> QED  BY <1>1, <1>2, <1>3, PTL DEF Spec

\* If the songs' bytes can be found again, the reader refuses no file the writer
\* has written.
THEOREM WrittenIsRead ==
  ASSUME \A s \in Songs : FoundAgain(s)
  PROVE  Spec => []ReadsWritten
<1>1. Init => FileInv
  BY FileStarts
<1>2. FileInv /\ [Next]_vars => FileInv'
  BY FileSteps
<1>3. FileInv => ReadsWritten
  BY DEF FileInv
<1> QED  BY <1>1, <1>2, <1>3, PTL DEF Spec
=============================================================================
