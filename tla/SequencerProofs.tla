-------------------------- MODULE SequencerProofs --------------------------
(***************************************************************************)
(* What the player's way through a song comes to, for every song that is     *)
(* stored as it is written.                                                 *)
(***************************************************************************)
EXTENDS Sequencer, SongCodeProofs

-----------------------------------------------------------------------------
(* Reading a pattern: positions in its stream against rows of it.            *)

\* A pattern and the bytes it is stored as.
Stored(rows, st) ==
  /\ rows \in Seq(Row) /\ rows # <<>> /\ AllPlainRows(rows)
  /\ st = Append(Pack(EncodeRows(rows)), 255) /\ Len(st) <= 256
  /\ \A k \in DOMAIN rows : EncodeRow(rows[k])[1] # 255

\* k rows are read and the next one's first byte is at position q.
AtRow(rows, st, q, k) ==
  /\ k < Len(rows)
  /\ Carries(st, q, Rest(EncodeRows(rows), Off(rows, k) + 1))

\* k rows are read, m empty rows of a run are to come, and the byte read last
\* is at position q.
InRun(rows, st, q, k, m) ==
  /\ Zeros(EncodeRows(rows), Off(rows, k) + 1, m)
  /\ Carries(st, q + 1, Rest(EncodeRows(rows), Off(rows, k) + 1 + m))

\* A pattern starts at its first row.
LEMMA AtTheTop ==
  ASSUME NEW rows, NEW st, Stored(rows, st)
  PROVE  AtRow(rows, st, 0, 0) /\ Len(rows) \in Nat \ {0}
<1>1. rows \in Seq(Row) /\ Len(rows) \in Nat \ {0} /\ EncodeRows(rows) \in Bytes /\ Off(rows, 0) = 0
  BY OffNext DEF Stored
<1>2. Carries(st, 0, Rest(EncodeRows(rows), 1))
  BY <1>1, CarriesStart DEF Stored
<1>3. Off(rows, 0) + 1 = 1
  BY <1>1
<1> QED  BY <1>1, <1>2, <1>3 DEF AtRow

\* The row of index k: its bytes in the pattern.
LEMMA NextOff ==
  ASSUME NEW rows, NEW st, Stored(rows, st), NEW k \in Nat, k < Len(rows)
  PROVE  /\ k \in 0 .. Len(rows) - 1 /\ rows \in Seq(Row) /\ EncodeRows(rows) \in Bytes
         /\ Len(EncodeRows(rows)) \in Nat
         /\ rows[k + 1] \in Row /\ PlainRow(rows[k + 1]) /\ EncodeRow(rows[k + 1])[1] # 255
         /\ Off(rows, k) \in Nat /\ RowLen(rows[k + 1]) \in 1 .. 4
         /\ Off(rows, k + 1) = Off(rows, k) + RowLen(rows[k + 1])
<1>1. rows \in Seq(Row) /\ Len(rows) \in Nat /\ k \in 0 .. Len(rows) - 1 /\ k \in 0 .. Len(rows) /\ k + 1 \in 1 .. Len(rows)
  BY DEF Stored
<1>2. k + 1 \in DOMAIN rows
  BY <1>1
<1>3. PlainRow(rows[k + 1]) /\ EncodeRow(rows[k + 1])[1] # 255
  BY <1>2 DEF Stored, AllPlainRows
<1>4. EncodeRows(rows) \in Bytes /\ Len(EncodeRows(rows)) \in Nat
  BY <1>1, OffNext DEF Bytes
<1> QED  BY <1>1, <1>3, <1>4, OffNext

\* A run goes on with an empty row.
LEMMA RunOfRows ==
  ASSUME NEW rows, NEW st, Stored(rows, st), NEW q, NEW k \in Nat, k <= Len(rows), NEW m \in Nat \ {0},
         InRun(rows, st, q, k, m)
  PROVE  k < Len(rows) /\ rows[k + 1] = Empty /\ InRun(rows, st, q, k + 1, m - 1)
<1> DEFINE b == EncodeRows(rows)
           at == Off(rows, k)
<1>1. rows \in Seq(Row) /\ Len(rows) \in Nat /\ k \in 0 .. Len(rows)
  BY DEF Stored
<1>2. b \in Bytes /\ Len(b) \in Nat /\ at \in Nat /\ Off(rows, Len(rows)) = Len(b)
  BY <1>1, OffNext DEF Bytes
<1>3. Zeros(b, at + 1, m) /\ Carries(st, q + 1, Rest(b, at + 1 + m))
  BY DEF InRun
<1> HIDE DEF b, at
<1>4. at + m <= Len(b) /\ \A j \in at + 1 .. at + m : b[j] = 0
  BY <1>2, <1>3 DEF Zeros
<1>5. at + 1 \in at + 1 .. at + m /\ at < Len(b)
  BY <1>2, <1>4
<1>6. b[at + 1] = 0
  BY <1>4, <1>5
<1>7. k < Len(rows)
  BY <1>1, <1>2, <1>5 DEF at
<1>8. rows[k + 1] = Empty /\ Off(rows, k + 1) = at + 1
  <2>1. /\ k \in 0 .. Len(rows) - 1 /\ PlainRow(rows[k + 1]) /\ rows[k + 1] \in Row
        /\ Off(rows, k + 1) = at + RowLen(rows[k + 1])
    BY <1>7, NextOff DEF at
  <2>2. rows[k + 1] = Empty
    BY <1>1, <1>6, <2>1, RowStart DEF b, at
  <2>3. RowLen(rows[k + 1]) = 1
    BY <2>1, <2>2, RowNotZero
  <2> QED  BY <2>1, <2>2, <2>3
<1>9. Zeros(b, (at + 1) + 1, m - 1) /\ ((at + 1) + 1) + (m - 1) = at + 1 + m
  <2>1. \A j \in (at + 1) + 1 .. ((at + 1) + 1) + (m - 1) - 1 : j \in at + 1 .. at + m
    BY <1>2
  <2>2. ((at + 1) + 1) + (m - 1) - 1 = at + m /\ ((at + 1) + 1) + (m - 1) = at + 1 + m
    BY <1>2
  <2> QED  BY <1>4, <2>1, <2>2 DEF Zeros
<1> QED  BY <1>3, <1>7, <1>8, <1>9 DEF InRun, b

\* A row is due at q: either the byte there starts a run of empty rows, or the
\* parser would find the row there, and the position of its last byte is inside.
LEMMA RowIsRead ==
  ASSUME NEW rows, NEW st, Stored(rows, st), NEW q \in Nat, NEW k \in Nat, AtRow(rows, st, q, k)
  PROVE  \/ /\ rows[k + 1] = Empty /\ q + 1 < Len(st)
            /\ \E m \in 1 .. 8 : st[q + 1] = PackedMin + m - 1 /\ InRun(rows, st, q, k + 1, m)
         \/ /\ st[q + 1] \notin Marker /\ Columns(st, q + 1) = RowLen(rows[k + 1])
            /\ DecodeRow(st, q + 1) = rows[k + 1]
            /\ q + RowLen(rows[k + 1]) < Len(st)
            /\ InRun(rows, st, q + RowLen(rows[k + 1]) - 1, k + 1, 0)
<1> DEFINE b == EncodeRows(rows)
           at == Off(rows, k)
           r == rows[k + 1]
           n == RowLen(r)
<1>1. /\ k < Len(rows) /\ k \in 0 .. Len(rows) - 1 /\ rows \in Seq(Row) /\ b \in Bytes
      /\ r \in Row /\ PlainRow(r) /\ at \in Nat /\ n \in 1 .. 4 /\ Off(rows, k + 1) = at + n
  BY NextOff DEF AtRow
<1>2. Carries(st, q, Rest(b, at + 1))
  BY DEF AtRow
<1>3. ASSUME \A j \in 1 .. n : st[q + j] = EncodeRow(r)[j]
      PROVE  Columns(st, q + 1) = n /\ DecodeRow(st, q + 1) = r
  <2>1. q + 1 \in Nat /\ (q + 1) - 1 = q
    OBVIOUS
  <2>2. \A j \in 1 .. n : st[((q + 1) - 1) + j] = EncodeRow(r)[j]
    BY <1>3, <2>1
  <2>3. TakesValue(r)
    BY <1>1 DEF PlainRow
  <2> HIDE DEF r
  <2> QED  BY <1>1, <2>1, <2>2, <2>3, RowRead DEF n
<1>4. CASE r # Empty
  <2>1. /\ q + n < Len(st)
        /\ \A j \in 1 .. n : st[q + j] = EncodeRow(r)[j]
        /\ Carries(st, q + n, Rest(b, Off(rows, k + 1) + 1))
    BY <1>1, <1>2, <1>4, RowCarried
  <2>2. st[q + 1] \notin Marker
    <3>1. st[q + 1] = EncodeRow(r)[1]
      BY <1>1, <2>1
    <3>2. EncodeRow(r)[1] = Flag(r.note, r.inst # 0 \/ r.fx # 0) /\ r.note \in 0 .. 127
      BY <1>1, RowBytes DEF Row
    <3>3. r.inst # 0 \/ r.fx # 0 \/ r.note \notin Marker
      BY <1>1 DEF PlainRow
    <3> HIDE DEF r
    <3>4. CASE r.inst # 0 \/ r.fx # 0
      BY <3>1, <3>2, <3>4 DEF Flag, Marker, PackedMin, PackedMax
    <3>5. CASE ~(r.inst # 0 \/ r.fx # 0)
      BY <3>1, <3>2, <3>3, <3>5 DEF Flag
    <3> QED  BY <3>4, <3>5
  <2>3. InRun(rows, st, q + n - 1, k + 1, 0)
    <3> DEFINE i == Off(rows, k + 1)
    <3>1. i \in Nat /\ i <= Len(b) /\ Len(b) \in Nat
      <4>1. k + 1 \in 0 .. Len(rows)
        BY <1>1
      <4> QED  BY <1>1, <4>1, OffNext DEF Bytes
    <3>2. Carries(st, q + n, Rest(b, i + 1))
      BY <2>1
    <3> HIDE DEF i, b, n
    <3>3. i + 1 + 0 = i + 1 /\ (q + n - 1) + 1 = q + n /\ Zeros(b, i + 1, 0)
      BY <1>1, <3>1 DEF Zeros
    <3> QED  BY <3>2, <3>3 DEF InRun, i, b
  <2> QED  BY <1>3, <2>1, <2>2, <2>3
<1>5. CASE r = Empty
  <2>1. n = 1
    BY <1>1, <1>5, RowNotZero
  <2>2. PICK l \in 1 .. 9 :
          /\ Zeros(b, at + 1, l)
          /\ q + 1 < Len(st) /\ st[q + 1] = (IF l = 1 THEN 0 ELSE PackedMin + l - 2)
          /\ Carries(st, q + 1, Rest(b, at + 1 + l))
    BY <1>1, <1>2, <1>5, RunCarried
  <2>3. InRun(rows, st, q, k + 1, l - 1)
    <3>1. Off(rows, k + 1) = at + 1 /\ Len(b) \in Nat
      BY <1>1, <2>1 DEF Bytes
    <3> HIDE DEF at, b
    <3>2. (at + 1) + 1 + (l - 1) = at + 1 + l /\ Zeros(b, (at + 1) + 1, l - 1)
      <4>1. at + l <= Len(b) /\ \A j \in at + 1 .. at + l : b[j] = 0
        BY <1>1, <2>2 DEF Zeros
      <4>2. \A j \in (at + 1) + 1 .. (at + 1) + 1 + (l - 1) - 1 : j \in at + 1 .. at + l
        BY <1>1
      <4>3. (at + 1) + 1 + (l - 1) - 1 = at + l
        BY <1>1
      <4> QED  BY <1>1, <4>1, <4>2, <4>3 DEF Zeros
    <3> QED  BY <2>2, <3>1, <3>2 DEF InRun, b
  <2>4. CASE l = 1
    <3>1. st[q + 1] = 0 /\ 0 \notin Marker
      BY <2>2, <2>4 DEF Marker, PackedMin
    <3>2. EncodeRow(r)[1] = 0
      BY <1>1, <1>5, RowNotZero
    <3>3. \A j \in 1 .. n : st[q + j] = EncodeRow(r)[j]
      BY <2>1, <3>1, <3>2
    <3>4. q + n - 1 = q /\ l - 1 = 0
      BY <2>1, <2>4
    <3>5. InRun(rows, st, q + n - 1, k + 1, 0)
      BY <2>3, <3>4
    <3> QED  BY <1>3, <2>1, <2>2, <3>1, <3>3, <3>5
  <2>5. CASE l # 1
    <3> DEFINE m == l - 1
    <3>1. m \in 1 .. 8 /\ st[q + 1] = PackedMin + m - 1
      BY <2>2, <2>5 DEF PackedMin
    <3> QED  BY <1>5, <2>2, <2>3, <3>1
  <2> QED  BY <2>4, <2>5
<1> QED  BY <1>4, <1>5

\* After the last row comes the terminator, and only then.
LEMMA RowFollows ==
  ASSUME NEW rows, NEW st, Stored(rows, st), NEW q \in Nat, NEW k \in Nat, k <= Len(rows),
         InRun(rows, st, q, k, 0)
  PROVE  /\ k = Len(rows) => st[q + 2] = 255
         /\ k < Len(rows) => st[q + 2] # 255 /\ q + 1 \in 0 .. 255 /\ AtRow(rows, st, q + 1, k)
<1> DEFINE b == EncodeRows(rows)
           at == Off(rows, k)
<1>1. rows \in Seq(Row) /\ Len(rows) \in Nat /\ k \in 0 .. Len(rows) /\ b \in Bytes /\ at \in Nat /\ Len(st) <= 256
  <2>1. rows \in Seq(Row) /\ Len(rows) \in Nat /\ k \in 0 .. Len(rows) /\ Len(st) <= 256
    BY DEF Stored
  <2> QED  BY <2>1, OffNext
<1>2. Carries(st, q + 1, Rest(b, at + 1))
  <2>1. at + 1 + 0 = at + 1
    BY <1>1
  <2> QED  BY <2>1 DEF InRun
<1>3. CASE k = Len(rows)
  <2>1. at = Len(b)
    BY <1>1, <1>3, OffNext
  <2>2. Carries(st, q + 1, Rest(b, Len(b) + 1)) /\ q + 1 \in Nat
    BY <1>2, <2>1
  <2>3. st[(q + 1) + 1] = 255
    BY <1>1, <2>2, CarriesEnd
  <2> QED  BY <1>3, <2>3
<1>4. CASE k < Len(rows)
  <2>1. AtRow(rows, st, q + 1, k)
    BY <1>2, <1>4 DEF AtRow
  <2>2. (q + 1) + 1 < Len(st) /\ st[(q + 1) + 1] # 255
    <3> DEFINE r == rows[k + 1]
               n == RowLen(r)
    <3>1. /\ k \in 0 .. Len(rows) - 1 /\ r \in Row /\ PlainRow(r) /\ n \in 1 .. 4 /\ EncodeRow(r)[1] # 255
      BY <1>4, NextOff
    <3>2. CASE r # Empty
      <4>1. (q + 1) + n < Len(st) /\ \A j \in 1 .. n : st[(q + 1) + j] = EncodeRow(r)[j]
        BY <1>1, <1>2, <3>1, <3>2, RowCarried
      <4>2. 1 \in 1 .. n
        BY <3>1
      <4>3. Len(st) \in Nat
        BY <1>1, CarriesStart DEF Stored, Bytes
      <4> HIDE DEF n
      <4> QED  BY <3>1, <4>1, <4>2, <4>3
    <3>3. CASE r = Empty
      <4>0. q + 1 \in Nat
        OBVIOUS
      <4>1. PICK l \in 1 .. 9 :
                /\ Zeros(b, at + 1, l)
                /\ (q + 1) + 1 < Len(st) /\ st[(q + 1) + 1] = (IF l = 1 THEN 0 ELSE PackedMin + l - 2)
                /\ Carries(st, (q + 1) + 1, Rest(b, at + 1 + l))
        BY <1>1, <1>2, <3>1, <3>3, <4>0, RunCarried
      <4> QED  BY <4>1 DEF PackedMin
    <3> QED  BY <3>2, <3>3
  <2>3. Len(st) \in Nat
    BY <1>1, CarriesStart DEF Stored, Bytes
  <2>4. (q + 1) + 1 = q + 2 /\ q + 1 \in 0 .. 255
    BY <1>1, <2>2, <2>3
  <2> QED  BY <1>4, <2>1, <2>2, <2>4
<1> QED  BY <1>1, <1>3, <1>4

-----------------------------------------------------------------------------
(* Reading an orderlist: bytes against commands, up to the end.              *)

Ends == {"end", "loop", "jump"}

\* An orderlist and the bytes it is stored as.
Listed(cmds, b) ==
  /\ cmds \in Seq(Command) /\ AllPlain(cmds) /\ Playable(cmds)
  /\ b = EncodeSequence(cmds)

\* The end is where an orderlist first says so, and a pattern stands before it.
LEMMA EndingIs ==
  ASSUME NEW cmds \in Seq(Command), Playable(cmds)
  PROVE  /\ Ending(cmds) \in 1 .. Len(cmds) /\ Len(cmds) \in Nat
         /\ cmds[Ending(cmds)].op \in Ends
         /\ \A k \in 1 .. Ending(cmds) - 1 : cmds[k].op \notin Ends
         /\ \E p \in 1 .. Ending(cmds) - 1 : cmds[p].op = "play"
<1> DEFINE Is(e) == /\ cmds[e].op \in {"end", "loop", "jump"}
                    /\ \A k \in 1 .. e - 1 : cmds[k].op \notin {"end", "loop", "jump"}
<1>1. PICK p \in DOMAIN cmds, e \in DOMAIN cmds : p < e /\ cmds[p].op = "play" /\ Is(e)
  BY DEF Playable
<1>2. Ending(cmds) = CHOOSE f \in DOMAIN cmds : Is(f)
  BY DEF Ending
<1> HIDE DEF Is
<1>3. Ending(cmds) \in DOMAIN cmds /\ Is(Ending(cmds))
  BY <1>1, <1>2
<1> DEFINE f == Ending(cmds)
<1>4. DOMAIN cmds = 1 .. Len(cmds) /\ Len(cmds) \in Nat
  OBVIOUS
<1> HIDE DEF f
<1>5. f \in 1 .. Len(cmds) /\ p \in 1 .. Len(cmds) /\ e \in 1 .. Len(cmds)
  BY <1>1, <1>3, <1>4 DEF f
<1>6. /\ cmds[f].op \in Ends /\ \A k \in 1 .. f - 1 : cmds[k].op \notin Ends
      /\ cmds[e].op \in Ends /\ \A k \in 1 .. e - 1 : cmds[k].op \notin Ends
  BY <1>1, <1>3 DEF Is, Ends, f
<1>7. ~(f > e) /\ ~(f < e)
  <2>1. f > e => e \in 1 .. f - 1
    BY <1>5
  <2>2. f < e => f \in 1 .. e - 1
    BY <1>5
  <2> QED  BY <1>6, <2>1, <2>2
<1>8. p \in 1 .. f - 1 /\ cmds[p].op = "play"
  BY <1>1, <1>5, <1>7
<1> QED  BY <1>4, <1>5, <1>6, <1>8 DEF f

\* A byte before the end and the command it stands for.
Says(c, a) ==
  \/ c.op = "play" /\ a \in 0 .. 127 /\ c.arg = a
  \/ c.op = "transpose" /\ a \in 128 .. 159 /\ c.arg = a - 144
  \/ c.op = "volume" /\ a \in 160 .. 175 /\ c.arg = a - 160
  \/ c.op = "tempo" /\ a \in 176 .. 239 /\ c.arg = a - 176
  \/ c.op = "raw" /\ a \in 240 .. 253 /\ c.arg = a

\* A plain command before the end says what its byte says.
LEMMA CommandSays ==
  ASSUME NEW c \in Command, PlainCommand(c), c.op \notin Ends, NEW a, a = EncodeCommand(c)[1]
  PROVE  Says(c, a)
<1> DEFINE x == c.arg
<1>1. /\ c.op = "play" => a = x /\ x \in 0 .. 127
      /\ c.op = "transpose" => a = 144 + x /\ x \in -16 .. 15
      /\ c.op = "volume" => a = 160 + x /\ x \in 0 .. 15
      /\ c.op = "tempo" => a = 176 + x /\ x \in 0 .. 63
      /\ c.op = "raw" => a = x /\ x \in 240 .. 253
  BY CommandBytes
<1>2. c.op \in {"play", "transpose", "volume", "tempo", "raw"}
  BY DEF Command, Ops, Ends
<1> HIDE DEF x
<1>3. CASE c.op = "play"
  BY <1>1, <1>3 DEF Says, x
<1>4. CASE c.op = "transpose"
  <2>1. a \in 128 .. 159 /\ x = a - 144
    BY <1>1, <1>4
  <2> QED  BY <1>4, <2>1 DEF Says, x
<1>5. CASE c.op = "volume"
  <2>1. a \in 160 .. 175 /\ x = a - 160
    BY <1>1, <1>5
  <2> QED  BY <1>5, <2>1 DEF Says, x
<1>6. CASE c.op = "tempo"
  <2>1. a \in 176 .. 239 /\ x = a - 176
    BY <1>1, <1>6
  <2> QED  BY <1>6, <2>1 DEF Says, x
<1>7. CASE c.op = "raw"
  <2>1. a \in 240 .. 253 /\ x = a
    BY <1>1, <1>7
  <2> QED  BY <1>7, <2>1 DEF Says, x
<1> QED  BY <1>2, <1>3, <1>4, <1>5, <1>6, <1>7

\* The byte at index k up to the end: a command, or the end and where it leads.
LEMMA ByteSays ==
  ASSUME NEW cmds, NEW b, Listed(cmds, b), NEW k \in 1 .. Ending(cmds)
  PROVE  \/ k < Ending(cmds) /\ Says(cmds[k], b[k])
         \/ k = Ending(cmds) /\ cmds[k].op = "end" /\ b[k] = 254
         \/ /\ k = Ending(cmds) /\ cmds[k].op = "loop" /\ b[k] = 255
            /\ b[k + 1] \in 0 .. 127 /\ cmds[k].arg = b[k + 1]
         \/ /\ k = Ending(cmds) /\ cmds[k].op = "jump" /\ b[k] = 255
            /\ b[k + 1] \in 128 .. 255 /\ cmds[k].arg = b[k + 1]
<1> DEFINE e == Ending(cmds)
<1>1. /\ e \in 1 .. Len(cmds) /\ Len(cmds) \in Nat /\ cmds[e].op \in Ends
      /\ \A i \in 1 .. e - 1 : cmds[i].op \notin Ends
  BY EndingIs DEF Listed
<1>2. cmds \in Seq(Command) /\ AllPlain(cmds) /\ b = EncodeSequence(cmds)
  BY DEF Listed
<1> HIDE DEF e
<1>3. /\ cmds[k] \in Command /\ PlainCommand(cmds[k]) /\ b[k] = EncodeCommand(cmds[k])[1]
      /\ cmds[e].op \in {"loop", "jump"} => b[e + 1] = cmds[e].arg
  <2>1. k \in 1 .. e
    BY DEF e
  <2>2. \A i \in 1 .. e - 1 : cmds[i].op \notin {"end", "loop", "jump"}
    BY <1>1 DEF Ends
  <2> QED  BY <1>1, <1>2, <2>1, <2>2, OrderBytes
<1>4. CASE k < e
  <2>1. k \in 1 .. e - 1
    BY <1>1, <1>4
  <2>2. Says(cmds[k], b[k])
    BY <1>1, <1>3, <2>1, CommandSays
  <2> QED  BY <1>4, <2>2 DEF e
<1>5. CASE k = e
  <2> DEFINE c == cmds[k]
             x == c.arg
  <2>1. /\ c.op = "end" => b[k] = 254
        /\ c.op \in {"loop", "jump"} => b[k] = 255 /\ b[k + 1] = x
        /\ c.op = "loop" => x \in 0 .. 127
        /\ c.op = "jump" => x \in 128 .. 255
    <3>0. c \in Command /\ PlainCommand(c)
      BY <1>3
    <3> HIDE DEF c
    <3>1. /\ c.op = "end" => EncodeCommand(c)[1] = 254
          /\ c.op \in {"loop", "jump"} => EncodeCommand(c)[1] = 255
          /\ c.op = "loop" => x \in 0 .. 127
          /\ c.op = "jump" => x \in 128 .. 255
      BY <3>0, CommandBytes
    <3> HIDE DEF x
    <3>2. c.op \in {"loop", "jump"} => b[k + 1] = x
      BY <1>3, <1>5 DEF c, x
    <3> QED  BY <1>3, <3>1, <3>2 DEF c
  <2>2. c.op \in {"end", "loop", "jump"}
    BY <1>1, <1>5 DEF Ends
  <2> HIDE DEF x
  <2>3. c.op = "end" => b[k] = 254 /\ k = e
    BY <1>5, <2>1
  <2>4. c.op = "loop" => b[k] = 255 /\ b[k + 1] \in 0 .. 127 /\ x = b[k + 1] /\ k = e
    BY <1>5, <2>1
  <2>5. c.op = "jump" => b[k] = 255 /\ b[k + 1] \in 128 .. 255 /\ x = b[k + 1] /\ k = e
    BY <1>5, <2>1
  <2> QED  BY <2>2, <2>3, <2>4, <2>5 DEF x, e
<1>6. k < e \/ k = e
  BY <1>1 DEF e
<1> QED  BY <1>4, <1>5, <1>6

-----------------------------------------------------------------------------
(* The inductive invariant.                                                 *)

\* What the theorems suppose: the songs are stored as they are written and fit
\* their memory.
SongsFit == \A s \in Songs : Plain(s) /\ Fits(s)

Memory ==
  /\ song \in Songs
  /\ ptn = [p \in DOMAIN song.rows |-> Stream(song, p)]
  /\ order = [sub \in DOMAIN song.orders |-> [v \in Voice |-> Orderlist(song, sub, v)]]

Rows(v) == song.rows[curptn[v]]
Due(v) == AtRow(Rows(v), ptn[curptn[v]], ptnpos[v], rowno[v])
Running(v) == InRun(Rows(v), ptn[curptn[v]], ptnpos[v], rowno[v], packcnt[v])

\* The position in the pattern is that of the row count: of the row to come, or
\* of the last byte of the row read last.  A pattern is left at its last row.
CursorInv(v) ==
  /\ stage[v] = "start" => ptnpos[v] = 0 /\ rowno[v] = 0 /\ packcnt[v] = 0
  /\ stage[v] # "start" =>
       /\ curptn[v] \in DOMAIN song.rows
       /\ rowno[v] <= Len(Rows(v))
       /\ IF packcnt[v] = 0 /\ stage[v] \in {"row", "note"} THEN Due(v) ELSE Running(v)
  /\ (walker = v /\ stage[v] = "step") \/ over[v] # 0 => packcnt[v] = 0 /\ rowno[v] = Len(Rows(v))

Cmds(v) == song.orders[seqt[v]][v]
E(v) == Ending(Cmds(v))
AtEnd(v) == Cmds(v)[E(v)].op = "end"

\* The orderlist's position is that of the pattern.
Here(v) == seqpos[v] + 1 < E(v) /\ Cmds(v)[seqpos[v] + 1] = Cmd("play", curptn[v])

\* From index i to the end the orderlist plays nothing.
NoPlay(v, i) == \A k \in i .. E(v) - 1 : Cmds(v)[k].op # "play"

\* A walk that meets no pattern any more has not left the orderlist of the one
\* it came from, and if the track ends here, it will find that end again.
WalkInv(v) ==
  /\ y < E(v)
  /\ NoPlay(v, y + 1) => Here(v)
  /\ NoPlay(v, y + 1) /\ AtEnd(v) => NoPlay(v, seqpos[v] + 2) /\ seqpos[v] < y

OverInv(v) ==
  /\ stage[v] = "step" /\ over[v] = E(v) /\ AtEnd(v) /\ Here(v) /\ NoPlay(v, seqpos[v] + 2)
  /\ walker = v => seqpos[v] < y

\* The bytes that stand for the transposes -16 .. 15.
Shifts == 0 .. 15 \cup 240 .. 255

OrderInv(v) ==
  /\ seqt[v] \in DOMAIN song.orders
  /\ stage[v] = "start" => ~NoPlay(v, seqpos[v] + 1) /\ over[v] = 0
  /\ stage[v] # "start" /\ walker # v => Here(v)
  /\ walker = v => stage[v] \in {"start", "step"}
  /\ walker = v /\ stage[v] = "step" => WalkInv(v)
  /\ over[v] # 0 => OverInv(v)
  /\ transp[v] \in Shifts /\ transp2[v] \in Shifts

VoiceInv(v) == CursorInv(v) /\ OrderInv(v)
IInv == TypeOK /\ Memory /\ \A v \in Voice : VoiceInv(v)

\* What the invariant and the hypothesis say of the memory.
Loaded ==
  /\ 0 \in DOMAIN song.orders
  /\ \A p \in DOMAIN song.rows : Stored(song.rows[p], ptn[p])
  /\ \A sub \in DOMAIN song.orders : \A v \in Voice :
       LET cmds == song.orders[sub][v]
           e == Ending(cmds)
       IN  /\ Listed(cmds, order[sub][v])
           /\ e <= 256
           /\ \A k \in 1 .. e : cmds[k].op = "play" => cmds[k].arg \in DOMAIN song.rows
           /\ cmds[e].op = "loop" => cmds[e].arg < e
           /\ cmds[e].op = "jump" => cmds[e].arg % 32 \in DOMAIN song.orders

\* A song that fits its memory is loaded.
LEMMA MemoryLoaded ==
  ASSUME SongsFit, Memory
  PROVE  Loaded
<1>1. song \in Songs /\ Plain(song) /\ Fits(song)
  BY DEF SongsFit, Memory
<1>2. ASSUME NEW p \in DOMAIN song.rows PROVE Stored(song.rows[p], ptn[p])
  <2>1. song.rows[p] \in Seq(Row) /\ song.rows[p] # <<>>
    BY <1>1, SongsAssumption
  <2>2. AllPlainRows(song.rows[p])
    BY <1>1 DEF Plain, AllPlainRows
  <2>3. ptn[p] = Append(Pack(EncodeRows(song.rows[p])), 255)
    BY DEF Memory, Stream
  <2>4. Len(ptn[p]) <= 256 /\ \A k \in DOMAIN song.rows[p] : EncodeRow(song.rows[p][k])[1] # 255
    BY <1>1, <2>3 DEF Fits
  <2> QED  BY <2>1, <2>2, <2>3, <2>4 DEF Stored
<1>3. ASSUME NEW sub \in DOMAIN song.orders, NEW v \in Voice
      PROVE  Listed(song.orders[sub][v], order[sub][v])
  <2>1. song.orders[sub][v] \in Seq(Command) /\ Playable(song.orders[sub][v])
    BY <1>1, SongsAssumption
  <2>2. AllPlain(song.orders[sub][v])
    BY <1>1 DEF Plain, AllPlain
  <2>3. order[sub][v] = EncodeSequence(song.orders[sub][v])
    BY DEF Memory, Orderlist
  <2> QED  BY <2>1, <2>2, <2>3 DEF Listed
<1> QED  BY <1>1, <1>2, <1>3 DEF Loaded, Fits

\* The parser finds in the memory the player reads what the writer stored.
LEMMA MemoryReadBack ==
  ASSUME \A s \in Songs : Plain(s), Memory
  PROVE  RoundTrip
<1>1. song \in Songs /\ Plain(song)
  BY DEF Memory
<1>2. ASSUME NEW p \in DOMAIN ptn PROVE DecodeRows(Unpack(Front(ptn[p]))) = song.rows[p]
  <2> DEFINE rows == song.rows[p]
             b == Pack(EncodeRows(rows))
  <2>0. p \in DOMAIN song.rows /\ ptn[p] = Append(b, 255)
    BY DEF Memory, Stream
  <2>1. rows \in Seq(Row) /\ AllPlainRows(rows)
    BY <1>1, <2>0, SongsAssumption DEF Plain, AllPlainRows
  <2>2. b \in Bytes
    <3>1. EncodeRows(rows) \in Bytes
      BY <2>1, OffNext
    <3>2. 1 \in 1 .. Len(EncodeRows(rows)) + 1
      BY <3>1 DEF Bytes
    <3> QED  BY <3>1, <3>2, PackType, PackIs
  <2>3. Front(ptn[p]) = b
    <3> HIDE DEF b
    <3>1. b \in Seq(0 .. 255)
      BY <2>2 DEF Bytes
    <3>2. /\ Append(b, 255) \in Seq(0 .. 255) /\ Len(Append(b, 255)) - 1 = Len(b) /\ Len(b) \in Nat
          /\ \A i \in 1 .. Len(b) : Append(b, 255)[i] = b[i]
      BY <3>1
    <3>3. SubSeq(Append(b, 255), 1, Len(Append(b, 255)) - 1) = b
      BY <3>1, <3>2
    <3> QED  BY <2>0, <3>3 DEF Front
  <2>4. DecodeRows(Unpack(b)) = rows
    BY <2>1, PatternReadBack
  <2> QED  BY <2>3, <2>4
<1>3. ASSUME NEW sub \in DOMAIN order, NEW v \in Voice
      PROVE  DecodeSequence(order[sub][v]) = song.orders[sub][v]
  <2>1. sub \in DOMAIN song.orders /\ order[sub][v] = EncodeSequence(song.orders[sub][v])
    BY DEF Memory, Orderlist
  <2>2. song.orders[sub][v] \in Seq(Command) /\ AllPlain(song.orders[sub][v])
    BY <1>1, <2>1, SongsAssumption DEF Plain, AllPlain
  <2> QED  BY <2>1, <2>2, OrderlistReadBack
<1> QED  BY <1>2, <1>3 DEF RoundTrip

\* The memory is written once and not again.
LEMMA MemoryHolds == Spec => []Memory
<1>1. Init => Memory
  BY DEF Init, Memory
<1>2. Memory /\ [Next]_vars => Memory'
  <2> SUFFICES ASSUME Memory, [Next]_vars PROVE Memory'
    OBVIOUS
  <2>1. UNCHANGED memory
    BY ZenonT(30) DEF Next, vars, Start, ReadRow, PatternStep, WalkStep, StartEffect, StartPattern, RunGoesOn, RunStarts,
       ReadColumns, RowPrep, RunHolds, NextRow, PatternEnds, Step, WalkPattern, WalkEnd, WalkLoop, WalkSubtune,
       WalkEffect, Walk, StartNote, memory
  <2> QED  BY <2>1 DEF Memory, memory, Stream, Orderlist
<1> QED  BY <1>1, <1>2, PTL DEF Spec

\* A song of plain rows and commands is read back as it was written, in every
\* state of the player.
THEOREM SongReadsBack ==
  ASSUME \A s \in Songs : Plain(s)
  PROVE  Spec => []RoundTrip
<1>1. Memory => RoundTrip
  BY MemoryReadBack
<1> QED  BY <1>1, MemoryHolds, PTL

-----------------------------------------------------------------------------
(* A step of one voice leaves the others alone.                             *)

Cells(u) ==
  <<seqt[u], seqpos[u], curptn[u], ptnpos[u], packcnt[u], row[u], rowno[u], curins[u], dpitch[u],
    transp[u], transp2[u], seqtempo[u], trktempo[u], stage[u], over[u]>>

VoiceNext(v) == Start(v) \/ ReadRow(v) \/ PatternStep(v) \/ StartNote(v)

\* Whose turn it is: no other voice walks before or after.
LEMMA OwnTurn ==
  ASSUME NEW v \in Voice, VoiceNext(v)
  PROVE  walker \in {v, Nobody} /\ walker' \in {v, Nobody} /\ UNCHANGED memory
<1>1. CASE Start(v)
  BY <1>1 DEF Start, StartEffect, StartPattern
<1>2. CASE ReadRow(v)
  BY <1>2 DEF ReadRow, RunGoesOn, RunStarts, ReadColumns, RowPrep
<1>3. CASE RunHolds(v) \/ NextRow(v) \/ PatternEnds(v)
  BY <1>3 DEF RunHolds, NextRow, PatternEnds, Step
<1>4. CASE WalkStep(v)
  BY <1>4 DEF WalkStep, WalkPattern, WalkEnd, WalkLoop, WalkSubtune, WalkEffect, Walk, FromTheTop, WalkGoesOn
<1>5. CASE StartNote(v)
  BY <1>5 DEF StartNote
<1> QED  BY <1>1, <1>2, <1>3, <1>4, <1>5 DEF VoiceNext, PatternStep

\* Every cell of another voice keeps its value.
LEMMA OthersKept ==
  ASSUME TypeOK, NEW v \in Voice, VoiceNext(v), NEW u \in Voice, u # v
  PROVE  UNCHANGED Cells(u)
<1>1. CASE StartEffect(v)
  BY <1>1 DEF TypeOK, StartEffect, OrderEffect, Cells, cursor, voiced, applied
<1>2. CASE StartPattern(v)
  BY <1>2 DEF TypeOK, StartPattern, Cells, cursor, voiced, delayed, applied
<1>3. CASE ReadRow(v)
  BY <1>3 DEF TypeOK, ReadRow, RunGoesOn, RunStarts, ReadColumns, RowPrep, NoColumns, Cells, orders, voiced
<1>4. CASE RunHolds(v) \/ NextRow(v) \/ PatternEnds(v)
  BY <1>4 DEF TypeOK, RunHolds, NextRow, PatternEnds, Step, Cells, orders, voiced, delayed
<1>5. CASE WalkPattern(v)
  BY <1>5 DEF TypeOK, WalkPattern, Walk, FromTheTop, Cells, voiced, delayed, applied
<1>6. CASE WalkEnd(v)
  BY <1>6 DEF TypeOK, WalkEnd, Walk, Cells, orders, voiced, delayed, applied
<1>7. CASE WalkLoop(v)
  BY <1>7 DEF TypeOK, WalkLoop, Walk, WalkGoesOn, Cells, orders, voiced, delayed, applied
<1>8. CASE WalkSubtune(v)
  BY <1>8 DEF TypeOK, WalkSubtune, Walk, WalkGoesOn, Cells, voiced, delayed, applied
<1>9. CASE WalkEffect(v)
  BY <1>9 DEF TypeOK, WalkEffect, OrderEffect, Walk, WalkGoesOn, FromTheTop, Cells, orders, voiced, applied
<1>10. CASE StartNote(v)
  BY <1>10 DEF TypeOK, StartNote, Cells, orders, cursor
<1> QED
  BY <1>1, <1>2, <1>3, <1>4, <1>5, <1>6, <1>7, <1>8, <1>9, <1>10
     DEF VoiceNext, Start, PatternStep, WalkStep

\* So it keeps its invariant.
LEMMA OthersHold ==
  ASSUME NEW u, VoiceInv(u), UNCHANGED <<memory, Cells(u)>>, walker # u, walker' # u
  PROVE  VoiceInv(u)'
<1>1. CursorInv(u)'
  BY DEF VoiceInv, CursorInv, Rows, Due, Running, Cells, memory
<1>2. OrderInv(u)'
  BY DEF VoiceInv, OrderInv, OverInv, Here, NoPlay, AtEnd, Cmds, E, Cells, memory
<1> QED  BY <1>1, <1>2 DEF VoiceInv

-----------------------------------------------------------------------------
(* Where a voice stands.                                                    *)

\* The byte at a position up to the end, and what it leads to.
LEMMA OrderAt ==
  ASSUME Loaded, NEW v \in Voice, seqt[v] \in DOMAIN song.orders, NEW p \in Nat, p < E(v)
  PROVE  LET c == Cmds(v)[p + 1]
             a == OrderByte(v, p)
             to == OrderByte(v, p + 1)
         IN  /\ E(v) \in 1 .. 256
             /\ \/ p + 1 < E(v) /\ Says(c, a)
                \/ p + 1 = E(v) /\ c.op = "end" /\ a = 254
                \/ p + 1 = E(v) /\ c.op = "loop" /\ a = 255 /\ to \in 0 .. 127 /\ c.arg = to /\ to < E(v)
                \/ /\ p + 1 = E(v) /\ c.op = "jump" /\ a = 255 /\ to \in 128 .. 255 /\ c.arg = to
                   /\ to % 32 \in DOMAIN song.orders
             /\ c.op = "play" => c.arg \in DOMAIN song.rows
<1> DEFINE cmds == song.orders[seqt[v]][v]
           b == order[seqt[v]][v]
           e == Ending(cmds)
<1>1. /\ Listed(cmds, b) /\ e <= 256
      /\ \A k \in 1 .. e : cmds[k].op = "play" => cmds[k].arg \in DOMAIN song.rows
      /\ cmds[e].op = "loop" => cmds[e].arg < e
      /\ cmds[e].op = "jump" => cmds[e].arg % 32 \in DOMAIN song.orders
  BY DEF Loaded
<1>2. Cmds(v) = cmds /\ E(v) = e /\ OrderByte(v, p) = b[p + 1] /\ OrderByte(v, p + 1) = b[(p + 1) + 1]
  BY DEF Cmds, E, OrderByte
<1> HIDE DEF cmds, b
<1>3. e \in 1 .. 256 /\ p + 1 \in 1 .. e
  <2>1. e \in 1 .. Len(cmds) /\ Len(cmds) \in Nat
    BY <1>1, EndingIs DEF Listed
  <2>2. e <= 256 /\ p < e
    BY <1>1, <1>2
  <2>3. p \in Nat
    OBVIOUS
  <2> HIDE DEF e
  <2> QED  BY ONLY <2>1, <2>2, <2>3
<1>4. \/ p + 1 < e /\ Says(cmds[p + 1], b[p + 1])
      \/ p + 1 = e /\ cmds[p + 1].op = "end" /\ b[p + 1] = 254
      \/ /\ p + 1 = e /\ cmds[p + 1].op = "loop" /\ b[p + 1] = 255
         /\ b[(p + 1) + 1] \in 0 .. 127 /\ cmds[p + 1].arg = b[(p + 1) + 1]
      \/ /\ p + 1 = e /\ cmds[p + 1].op = "jump" /\ b[p + 1] = 255
         /\ b[(p + 1) + 1] \in 128 .. 255 /\ cmds[p + 1].arg = b[(p + 1) + 1]
  BY <1>1, <1>3, ByteSays
<1> HIDE DEF e
<1> QED  BY <1>1, <1>2, <1>3, <1>4

\* The kinds of byte apart, as the code's guards tell them: a pattern.
LEMMA PlayAt ==
  ASSUME Loaded, NEW v \in Voice, seqt[v] \in DOMAIN song.orders, NEW p \in Nat, p < E(v), OrderByte(v, p) < 128
  PROVE  /\ p + 1 < E(v) /\ E(v) \in 1 .. 256 /\ Cmds(v)[p + 1] = Cmd("play", OrderByte(v, p))
         /\ OrderByte(v, p) \in 0 .. 127 /\ OrderByte(v, p) \in DOMAIN song.rows
<1> DEFINE a == OrderByte(v, p)
           c == Cmds(v)[p + 1]
<1>1. /\ E(v) \in 1 .. 256
      /\ \/ p + 1 < E(v) /\ Says(c, a)
         \/ a = 254
         \/ a = 255
      /\ c.op = "play" => c.arg \in DOMAIN song.rows
  BY OrderAt
<1>2. a < 128
  OBVIOUS
<1>3. c \in Command
  <2>1. p + 1 \in 1 .. E(v) /\ E(v) \in 1 .. Len(Cmds(v)) /\ Cmds(v) \in Seq(Command)
    <3>1. Listed(Cmds(v), order[seqt[v]][v])
      BY DEF Loaded, Cmds
    <3>2. Cmds(v) \in Seq(Command) /\ Playable(Cmds(v))
      BY <3>1 DEF Listed
    <3>3. E(v) \in 1 .. Len(Cmds(v))
      BY <3>2, EndingIs DEF E
    <3> QED  BY <3>2, <3>3
  <2> QED  BY <2>1
<1> HIDE DEF a, c
<1>4. p + 1 < E(v) /\ c.op = "play" /\ a \in 0 .. 127 /\ c.arg = a
  BY <1>1, <1>2 DEF Says
<1>5. c = Cmd("play", a)
  BY <1>3, <1>4 DEF Command, Cmd
<1> QED  BY <1>1, <1>4, <1>5 DEF a, c

\* An effect byte; the byte after it is $FF where a loop or a jump is next.
LEMMA EffectAt ==
  ASSUME Loaded, NEW v \in Voice, seqt[v] \in DOMAIN song.orders, NEW p \in Nat, p < E(v),
         OrderByte(v, p) \in 128 .. 253
  PROVE  /\ p + 1 < E(v) /\ E(v) \in 1 .. 256 /\ Says(Cmds(v)[p + 1], OrderByte(v, p))
         /\ Cmds(v)[p + 1].op # "play"
         /\ OrderByte(v, p + 1) = 255 <=> p + 2 = E(v) /\ ~AtEnd(v)
<1> DEFINE a == OrderByte(v, p)
           c == Cmds(v)[p + 1]
<1>1. /\ E(v) \in 1 .. 256
      /\ \/ p + 1 < E(v) /\ Says(c, a)
         \/ a = 254
         \/ a = 255
  BY OrderAt
<1>2. a \in 128 .. 253
  OBVIOUS
<1> HIDE DEF a, c
<1>3. p + 1 < E(v) /\ Says(c, a) /\ c.op # "play"
  BY <1>1, <1>2 DEF Says
<1> DEFINE d == Cmds(v)[(p + 1) + 1]
           f == OrderByte(v, p + 1)
<1>4. \/ (p + 1) + 1 < E(v) /\ Says(d, f)
      \/ (p + 1) + 1 = E(v) /\ d.op = "end" /\ f = 254
      \/ (p + 1) + 1 = E(v) /\ d.op \in {"loop", "jump"} /\ f = 255
  <2>1. p + 1 \in Nat /\ p + 1 < E(v)
    BY <1>3
  <2> QED  BY <2>1, OrderAt
<1>5. (p + 1) + 1 = E(v) => d = Cmds(v)[E(v)]
  OBVIOUS
<1> HIDE DEF d, f
<1>6. Says(d, f) => f # 255
  BY DEF Says
<1>7. f = 255 <=> (p + 1) + 1 = E(v) /\ ~AtEnd(v)
  BY <1>1, <1>4, <1>5, <1>6 DEF AtEnd
<1>8. (p + 1) + 1 = p + 2
  OBVIOUS
<1> QED  BY <1>1, <1>3, <1>7, <1>8 DEF a, c, f

\* The end, and where a loop or a jump leads.
LEMMA EndAt ==
  ASSUME Loaded, NEW v \in Voice, seqt[v] \in DOMAIN song.orders, NEW p \in Nat, p < E(v),
         OrderByte(v, p) \in {254, 255}
  PROVE  LET to == OrderByte(v, p + 1)
             c == Cmds(v)[p + 1]
         IN  /\ p + 1 = E(v) /\ E(v) \in 1 .. 256
             /\ OrderByte(v, p) = 254 <=> AtEnd(v)
             /\ OrderByte(v, p) = 255 /\ to < 128 =>
                  c.op = "loop" /\ c.arg = to /\ to \in 0 .. 127 /\ to < E(v)
             /\ OrderByte(v, p) = 255 /\ to >= 128 =>
                  c.op = "jump" /\ c.arg = to /\ to \in 128 .. 255 /\ to % 32 \in DOMAIN song.orders
<1> DEFINE a == OrderByte(v, p)
           to == OrderByte(v, p + 1)
           c == Cmds(v)[p + 1]
<1>1. /\ E(v) \in 1 .. 256
      /\ \/ p + 1 < E(v) /\ Says(c, a)
         \/ p + 1 = E(v) /\ c.op = "end" /\ a = 254
         \/ p + 1 = E(v) /\ c.op = "loop" /\ a = 255 /\ to \in 0 .. 127 /\ c.arg = to /\ to < E(v)
         \/ /\ p + 1 = E(v) /\ c.op = "jump" /\ a = 255 /\ to \in 128 .. 255 /\ c.arg = to
            /\ to % 32 \in DOMAIN song.orders
  BY OrderAt
<1>2. a \in {254, 255}
  OBVIOUS
<1>3. p + 1 = E(v) => c = Cmds(v)[E(v)]
  OBVIOUS
<1> HIDE DEF a, to, c
<1>4. ~Says(c, a)
  BY <1>2 DEF Says
<1>5. p + 1 = E(v) /\ (a = 254 <=> AtEnd(v))
  BY <1>1, <1>3, <1>4 DEF AtEnd
<1>6. a = 255 /\ to < 128 => c.op = "loop" /\ c.arg = to /\ to \in 0 .. 127 /\ to < E(v)
  BY <1>1, <1>4
<1>7. a = 255 /\ to >= 128 => c.op = "jump" /\ c.arg = to /\ to \in 128 .. 255 /\ to % 32 \in DOMAIN song.orders
  BY <1>1, <1>4
<1> QED  BY <1>1, <1>5, <1>6, <1>7 DEF a, to, c

\* An orderlist has a pattern to start with.
LEMMA StartsWithPlay ==
  ASSUME Loaded, NEW v \in Voice, NEW sub \in DOMAIN song.orders
  PROVE  LET cmds == song.orders[sub][v]
         IN  /\ Ending(cmds) \in 1 .. 256
             /\ \E k \in 1 .. Ending(cmds) - 1 : cmds[k].op = "play"
<1>1. Listed(song.orders[sub][v], order[sub][v]) /\ Ending(song.orders[sub][v]) <= 256
  BY DEF Loaded
<1> DEFINE cmds == song.orders[sub][v]
           e == Ending(cmds)
<1> HIDE DEF cmds
<1>2. cmds \in Seq(Command) /\ Playable(cmds)
  BY <1>1 DEF Listed, cmds
<1>3. e \in 1 .. Len(cmds) /\ Len(cmds) \in Nat /\ \E k \in 1 .. e - 1 : cmds[k].op = "play"
  BY <1>2, EndingIs
<1> HIDE DEF e
<1>4. e <= 256
  BY <1>1 DEF cmds, e
<1>5. e \in 1 .. 256
  BY <1>3, <1>4
<1> QED  BY <1>3, <1>5 DEF cmds, e

-----------------------------------------------------------------------------
(* Each action keeps the types and its voice's invariant.                   *)

\* A transpose byte is that of -16 .. 15, a volume and a tempo what their bytes
\* can say.
LEMMA EffectBytes ==
  ASSUME TypeOK, NEW v \in Voice, NEW a \in 128 .. 253, OrderEffect(v, a)
  PROVE  /\ transp2' \in [Voice -> Byte] /\ seqvolu' \in 0 .. 15 /\ seqtempo' \in [Voice -> 0 .. 77]
         /\ transp2[v] \in Shifts => transp2'[v] \in Shifts
<1>1. transp2 \in [Voice -> Byte] /\ seqvolu \in 0 .. 15 /\ seqtempo \in [Voice -> 0 .. 77]
  BY DEF TypeOK
<1>2. /\ transp2' = IF a < 160 THEN [transp2 EXCEPT ![v] = (a - 144) % 256] ELSE transp2
      /\ seqvolu' = IF a \in 160 .. 175 THEN a % 16 ELSE seqvolu
      /\ seqtempo' = IF a >= 176 /\ (a < 240 \/ ~SeqTempoCapped)
                       THEN [seqtempo EXCEPT ![v] = a - 176] ELSE seqtempo
  BY DEF OrderEffect
<1>3. a < 160 => (a - 144) % 256 \in Shifts
  BY DEF Shifts
<1>4. /\ a >= 176 => a - 176 \in 0 .. 77
      /\ a % 16 \in 0 .. 15
      /\ Shifts \subseteq Byte
  BY DEF Shifts, Byte
<1> DEFINE t == (a - 144) % 256
<1> HIDE DEF t
<1>5. transp2' \in [Voice -> Byte] /\ (transp2[v] \in Shifts => transp2'[v] \in Shifts)
  <2>1. CASE a < 160
    <3>1. transp2' = [transp2 EXCEPT ![v] = t] /\ t \in Shifts /\ t \in Byte
      BY <1>2, <1>3, <1>4, <2>1 DEF t
    <3> QED  BY <1>1, <3>1
  <2>2. CASE ~(a < 160)
    BY <1>1, <1>2, <2>2
  <2> QED  BY <2>1, <2>2
<1>6. seqvolu' \in 0 .. 15
  BY <1>1, <1>2, <1>4
<1>7. seqtempo' \in [Voice -> 0 .. 77]
  <2> DEFINE d == a - 176
  <2>1. CASE a >= 176 /\ (a < 240 \/ ~SeqTempoCapped)
    <3>1. seqtempo' = [seqtempo EXCEPT ![v] = d] /\ d \in 0 .. 77
      BY <1>2, <1>4, <2>1
    <3> HIDE DEF d
    <3> QED  BY <1>1, <3>1
  <2>2. CASE ~(a >= 176 /\ (a < 240 \/ ~SeqTempoCapped))
    BY <1>1, <1>2, <2>2
  <2> QED  BY <2>1, <2>2
<1> QED  BY <1>5, <1>6, <1>7

\* The effects before the first pattern: a pattern is still to come.
LEMMA StartEffectHolds ==
  ASSUME Loaded, TypeOK, NEW v \in Voice, VoiceInv(v), StartEffect(v)
  PROVE  TypeOK' /\ VoiceInv(v)'
<1> DEFINE p == seqpos[v]
           a == OrderByte(v, p)
<1>1. /\ stage[v] = "start" /\ walker \in {v, Nobody} /\ a \in 128 .. 253 /\ OrderEffect(v, a)
      /\ seqpos' = [seqpos EXCEPT ![v] = p + 1] /\ walker' = v
      /\ UNCHANGED <<memory, seqt, curptn, cursor, voiced, applied, stage, y, over>>
  BY DEF StartEffect
<1>2. p \in 0 .. 255 /\ seqt[v] \in DOMAIN song.orders /\ ~NoPlay(v, p + 1) /\ over[v] = 0
      /\ transp[v] \in Shifts /\ transp2[v] \in Shifts
  BY <1>1 DEF TypeOK, VoiceInv, OrderInv, Byte
<1>3. PICK k \in p + 1 .. E(v) - 1 : Cmds(v)[k].op = "play"
  BY <1>2 DEF NoPlay
<1>4. E(v) \in 1 .. 256
  BY <1>2, StartsWithPlay DEF E, Cmds
<1>5. p < E(v)
  <2>1. p \in 0 .. 255 /\ k \in p + 1 .. E(v) - 1
    BY <1>2, <1>3
  <2> HIDE DEF p
  <2> QED  BY <1>4, <2>1
<1>6. p + 1 < E(v) /\ Cmds(v)[p + 1].op # "play"
  <2>1. p \in Nat
    BY <1>2
  <2> QED  BY <1>1, <1>2, <1>5, <2>1, EffectAt
<1>7. p + 1 \in 0 .. 255 /\ k \in p + 2 .. E(v) - 1
  <2>1. k # p + 1
    BY <1>3, <1>6
  <2> QED  BY <1>2, <1>3, <1>4, <1>6, <2>1
<1>8. /\ transp2' \in [Voice -> Byte] /\ seqvolu' \in 0 .. 15 /\ seqtempo' \in [Voice -> 0 .. 77]
      /\ transp2'[v] \in Shifts
  BY ZenonT(30), <1>1, <1>2, EffectBytes
<1> HIDE DEF a
<1>9. seqpos' \in [Voice -> Byte] /\ seqpos'[v] = p + 1
  BY <1>1, <1>7 DEF TypeOK, Byte
<1>10. TypeOK'
  BY <1>1, <1>8, <1>9 DEF TypeOK, cursor, voiced, applied
<1>11. CursorInv(v)'
  BY <1>1, <1>2 DEF VoiceInv, CursorInv, cursor
<1>12. ~NoPlay(v, p + 2)
  BY <1>3, <1>7 DEF NoPlay
<1>13. OrderInv(v)'
  <2>1. E(v)' = E(v) /\ Cmds(v)' = Cmds(v)
    BY <1>1 DEF E, Cmds, memory
  <2>2. ~NoPlay(v, seqpos[v] + 1)'
    <3>1. seqpos'[v] + 1 = p + 2
      BY <1>2, <1>9
    <3> QED  BY <1>12, <2>1, <3>1 DEF NoPlay
  <2> QED  BY <1>1, <1>2, <1>8, <2>2 DEF OrderInv, memory, applied
<1> QED  BY <1>10, <1>11, <1>13 DEF VoiceInv

\* The first pattern.
LEMMA StartPatternHolds ==
  ASSUME Loaded, TypeOK, NEW v \in Voice, VoiceInv(v), StartPattern(v)
  PROVE  TypeOK' /\ VoiceInv(v)'
<1> DEFINE p == seqpos[v]
           a == OrderByte(v, p)
<1>1. /\ stage[v] = "start" /\ walker \in {v, Nobody} /\ a < 128
      /\ curptn' = [curptn EXCEPT ![v] = a] /\ stage' = [stage EXCEPT ![v] = "row"] /\ walker' = Nobody
      /\ UNCHANGED <<memory, seqt, seqpos, cursor, voiced, delayed, applied, y, over>>
  BY DEF StartPattern
<1>2. /\ p \in 0 .. 255 /\ seqt[v] \in DOMAIN song.orders /\ ~NoPlay(v, p + 1) /\ over[v] = 0
      /\ transp[v] \in Shifts /\ transp2[v] \in Shifts
      /\ ptnpos[v] = 0 /\ rowno[v] = 0 /\ packcnt[v] = 0
  BY <1>1 DEF TypeOK, VoiceInv, OrderInv, CursorInv, Byte
<1>3. PICK k \in p + 1 .. E(v) - 1 : Cmds(v)[k].op = "play"
  BY <1>2 DEF NoPlay
<1>4. E(v) \in 1 .. 256
  BY <1>2, StartsWithPlay DEF E, Cmds
<1>5. p < E(v) /\ p \in Nat
  <2>1. p \in 0 .. 255 /\ k \in p + 1 .. E(v) - 1
    BY <1>2, <1>3
  <2> HIDE DEF p
  <2> QED  BY <1>4, <2>1
<1>6. p + 1 < E(v) /\ Cmds(v)[p + 1] = Cmd("play", a) /\ a \in 0 .. 127 /\ a \in DOMAIN song.rows
  BY <1>1, <1>2, <1>5, PlayAt
<1> HIDE DEF a
<1>7. curptn' \in [Voice -> 0 .. 127] /\ curptn'[v] = a /\ stage'[v] = "row"
      /\ stage' \in [Voice -> {"start", "row", "step", "note"}] /\ walker' # v /\ walker' = Nobody
  BY <1>1, <1>6, NobodyAssumption DEF TypeOK
<1>8. TypeOK'
  BY <1>1, <1>7 DEF TypeOK, cursor, voiced, delayed, applied
<1>9. CursorInv(v)'
  <2>1. AtRow(song.rows[a], ptn[a], 0, 0) /\ Len(song.rows[a]) \in Nat \ {0}
    BY <1>6, AtTheTop DEF Loaded
  <2>2. song' = song /\ ptn' = ptn /\ ptnpos'[v] = 0 /\ rowno'[v] = 0 /\ packcnt'[v] = 0 /\ over'[v] = 0
    BY <1>1, <1>2 DEF memory, cursor
  <2> QED  BY <1>6, <1>7, <2>1, <2>2 DEF CursorInv, Rows, Due
<1>10. OrderInv(v)'
  <2>1. E(v)' = E(v) /\ Cmds(v)' = Cmds(v)
    BY <1>1 DEF E, Cmds, memory
  <2>2. Here(v)'
    BY <1>1, <1>6, <1>7, <2>1 DEF Here
  <2> QED  BY <1>1, <1>2, <1>7, <2>2 DEF OrderInv, memory, applied, delayed
<1> QED  BY <1>8, <1>9, <1>10 DEF VoiceInv

\* What a row leaves of the state, whichever way it is read.
LEMMA RowPrepHolds ==
  ASSUME TypeOK, NEW v \in Voice, VoiceInv(v), RowPrep(v),
         ptnpos' \in [Voice -> Byte], packcnt' \in [Voice -> 0 .. 8], row' \in [Voice -> Row]
  PROVE  /\ TypeOK' /\ OrderInv(v)'
         /\ stage[v] = "row" /\ stage'[v] = "step" /\ walker = Nobody /\ walker' = Nobody
         /\ rowno[v] \in Nat /\ rowno'[v] = rowno[v] + 1 /\ over[v] = 0 /\ over'[v] = 0
         /\ UNCHANGED <<song, ptn, curptn>>
         /\ curptn[v] \in DOMAIN song.rows /\ rowno[v] <= Len(Rows(v))
         /\ IF packcnt[v] = 0 THEN Due(v) ELSE Running(v)
<1>1. /\ stage[v] = "row" /\ walker = Nobody /\ mainvol' = seqvolu
      /\ trktempo' = [trktempo EXCEPT ![v] = IF seqtempo[v] = 0 THEN @ ELSE seqtempo[v]]
      /\ seqtempo' = [seqtempo EXCEPT ![v] = 0]
      /\ stage' = [stage EXCEPT ![v] = "step"]
      /\ rowno' = [rowno EXCEPT ![v] = @ + 1]
      /\ UNCHANGED <<memory, orders, voiced, transp, transp2, seqvolu, walker, y, over>>
  BY DEF RowPrep
<1>2. v # Nobody
  BY NobodyAssumption
<1>3. /\ rowno[v] \in Nat /\ over[v] = 0
      /\ curptn[v] \in DOMAIN song.rows /\ rowno[v] <= Len(Rows(v))
      /\ IF packcnt[v] = 0 THEN Due(v) ELSE Running(v)
  BY <1>1 DEF TypeOK, VoiceInv, OrderInv, OverInv, CursorInv
<1>4. /\ trktempo' \in [Voice -> 0 .. 77] /\ seqtempo' \in [Voice -> 0 .. 77]
      /\ rowno' \in [Voice -> Nat] /\ rowno'[v] = rowno[v] + 1
      /\ stage' \in [Voice -> {"start", "row", "step", "note"}] /\ stage'[v] = "step"
  BY <1>1, <1>3 DEF TypeOK
<1>5. TypeOK'
  BY <1>1, <1>4 DEF TypeOK, orders, voiced
<1>6. OrderInv(v)'
  <2>1. E(v)' = E(v) /\ Cmds(v)' = Cmds(v)
    BY <1>1 DEF E, Cmds, memory, orders
  <2>2. Here(v)'
    BY <1>1, <1>2, <2>1 DEF VoiceInv, OrderInv, Here, orders
  <2> QED  BY <1>1, <1>2, <1>3, <1>4, <2>2 DEF VoiceInv, OrderInv, memory, orders
<1> QED  BY <1>1, <1>3, <1>4, <1>5, <1>6 DEF memory, orders

\* A row without columns is a row.
LEMMA NoColumnsType ==
  ASSUME TypeOK, NEW v \in Voice, NoColumns(v)
  PROVE  row' \in [Voice -> Row]
<1> DEFINE e == [Empty EXCEPT !.value = row[v].value]
<1>1. row \in [Voice -> Row]
  BY DEF TypeOK
<1>2. e \in Row
  <2>1. row[v] \in Row
    BY <1>1
  <2>2. row[v].value \in 0 .. 255
    BY <2>1 DEF Row
  <2> QED  BY <2>2 DEF Row, Empty
<1>3. row' = [row EXCEPT ![v] = e]
  BY DEF NoColumns
<1> HIDE DEF e
<1> QED  BY ONLY <1>1, <1>2, <1>3

\* A run goes on.
LEMMA RunGoesOnHolds ==
  ASSUME Loaded, TypeOK, NEW v \in Voice, VoiceInv(v), RunGoesOn(v)
  PROVE  /\ TypeOK' /\ VoiceInv(v)'
         /\ rowno[v] < Len(Rows(v)) /\ Rows(v)[rowno[v] + 1] = Empty
<1>1. /\ RowPrep(v) /\ packcnt[v] # 0 /\ NoColumns(v)
      /\ packcnt' = [packcnt EXCEPT ![v] = @ - 1] /\ ptnpos' = ptnpos
  BY DEF RunGoesOn
<1>2. packcnt[v] \in 1 .. 8 /\ packcnt' \in [Voice -> 0 .. 8] /\ packcnt'[v] = packcnt[v] - 1
  BY <1>1 DEF TypeOK
<1>3. row' \in [Voice -> Row] /\ ptnpos' \in [Voice -> Byte]
  BY <1>1, NoColumnsType DEF TypeOK
<1>4. /\ TypeOK' /\ OrderInv(v)'
      /\ stage[v] = "row" /\ stage'[v] = "step" /\ walker' = Nobody
      /\ rowno[v] \in Nat /\ rowno'[v] = rowno[v] + 1 /\ over'[v] = 0
      /\ UNCHANGED <<song, ptn, curptn>>
      /\ curptn[v] \in DOMAIN song.rows /\ rowno[v] <= Len(Rows(v)) /\ Running(v)
  BY <1>1, <1>2, <1>3, RowPrepHolds
<1>5. Stored(Rows(v), ptn[curptn[v]])
  BY <1>4 DEF Loaded, Rows
<1>6. /\ rowno[v] < Len(Rows(v)) /\ Rows(v)[rowno[v] + 1] = Empty
      /\ InRun(Rows(v), ptn[curptn[v]], ptnpos[v], rowno[v] + 1, packcnt[v] - 1)
  <2>1. packcnt[v] \in Nat \ {0} /\ InRun(Rows(v), ptn[curptn[v]], ptnpos[v], rowno[v], packcnt[v])
    BY <1>2, <1>4 DEF Running
  <2> QED  BY <1>4, <1>5, <2>1, RunOfRows
<1>7. Len(Rows(v)) \in Nat
  BY <1>5, AtTheTop
<1>8. CursorInv(v)'
  <2>1. Rows(v)' = Rows(v)
    BY <1>4 DEF Rows
  <2>2. Running(v)' /\ rowno'[v] <= Len(Rows(v)') /\ walker' # v
    BY <1>1, <1>2, <1>4, <1>6, <1>7, <2>1, NobodyAssumption DEF Running
  <2> QED  BY <1>4, <2>1, <2>2 DEF CursorInv, Rows
<1> QED  BY <1>4, <1>6, <1>8 DEF VoiceInv

\* A run starts.
LEMMA RunStartsHolds ==
  ASSUME Loaded, TypeOK, NEW v \in Voice, VoiceInv(v), RunStarts(v)
  PROVE  /\ TypeOK' /\ VoiceInv(v)'
         /\ rowno[v] < Len(Rows(v)) /\ Rows(v)[rowno[v] + 1] = Empty
<1> DEFINE a == PatternByte(v, ptnpos[v])
           st == ptn[curptn[v]]
           q == ptnpos[v]
<1>1. /\ RowPrep(v) /\ packcnt[v] = 0 /\ a \in Marker /\ NoColumns(v)
      /\ packcnt' = [packcnt EXCEPT ![v] = a - PackedMin + 1] /\ ptnpos' = ptnpos
  BY DEF RunStarts
<1>2. a - PackedMin + 1 \in 1 .. 8 /\ a = st[q + 1] /\ q \in Nat
  <2>1. a = st[q + 1]
    BY DEF PatternByte
  <2>2. q \in 0 .. 255
    BY DEF TypeOK, Byte
  <2> HIDE DEF a, q
  <2> QED  BY <1>1, <2>1, <2>2 DEF Marker, PackedMin, PackedMax
<1> HIDE DEF a
<1>3. packcnt' \in [Voice -> 0 .. 8] /\ packcnt'[v] = a - PackedMin + 1
  <2> DEFINE d == a - PackedMin + 1
  <2>1. d \in 0 .. 8
    BY <1>2
  <2> HIDE DEF d
  <2> QED  BY <1>1, <2>1 DEF TypeOK, d
<1>4. row' \in [Voice -> Row] /\ ptnpos' \in [Voice -> Byte]
  BY <1>1, NoColumnsType DEF TypeOK
<1>5. /\ TypeOK' /\ OrderInv(v)'
      /\ stage[v] = "row" /\ stage'[v] = "step" /\ walker' = Nobody
      /\ rowno[v] \in Nat /\ rowno'[v] = rowno[v] + 1 /\ over'[v] = 0
      /\ UNCHANGED <<song, ptn, curptn>>
      /\ curptn[v] \in DOMAIN song.rows /\ rowno[v] <= Len(Rows(v)) /\ Due(v)
  BY <1>1, <1>3, <1>4, RowPrepHolds
<1>6. Stored(Rows(v), st)
  BY <1>5 DEF Loaded, Rows
<1>7. /\ Rows(v)[rowno[v] + 1] = Empty
      /\ \E m \in 1 .. 8 : st[q + 1] = PackedMin + m - 1 /\ InRun(Rows(v), st, q, rowno[v] + 1, m)
  BY <1>1, <1>2, <1>5, <1>6, RowIsRead DEF Due
<1>8. PICK m \in 1 .. 8 : st[q + 1] = PackedMin + m - 1 /\ InRun(Rows(v), st, q, rowno[v] + 1, m)
  BY <1>7
<1>9. packcnt'[v] = m
  BY <1>2, <1>3, <1>8 DEF PackedMin
<1>10. rowno[v] < Len(Rows(v)) /\ Len(Rows(v)) \in Nat
  BY <1>5, <1>6, AtTheTop DEF Due, AtRow
<1>11. CursorInv(v)'
  <2>1. Rows(v)' = Rows(v)
    BY <1>5 DEF Rows
  <2>2. Running(v)' /\ rowno'[v] <= Len(Rows(v)') /\ walker' # v
    BY <1>1, <1>5, <1>8, <1>9, <1>10, <2>1, NobodyAssumption DEF Running
  <2> QED  BY <1>5, <2>1, <2>2 DEF CursorInv, Rows
<1> QED  BY <1>5, <1>7, <1>10, <1>11 DEF VoiceInv

\* The columns of a row reach as far as the parser finds them.
LEMMA ReachIsColumns ==
  ASSUME NEW v, ptnpos[v] \in Nat,
         Columns(ptn[curptn[v]], ptnpos[v] + 1) >= 3 => ptn[curptn[v]][ptnpos[v] + 3] \in 0 .. 255
  PROVE  Reach(v) = Columns(ptn[curptn[v]], ptnpos[v] + 1) - 1
<1> DEFINE st == ptn[curptn[v]]
           q == ptnpos[v]
           a == st[q + 1]
           c == st[(q + 1) + 1]
           d == st[(q + 1) + 2]
           n == Columns(st, q + 1)
<1>1. (q + 2) + 1 = (q + 1) + 2 /\ q + 3 = (q + 1) + 2
  OBVIOUS
<1>2. Reach(v) = IF a < 128 THEN 0 ELSE IF c < 128 THEN 1 ELSE IF d >= 32 THEN 2 ELSE 3
  BY <1>1 DEF Reach, PatternByte
<1>3. n = 1 + (IF a < 128 THEN 0 ELSE 1 + (IF c < 128 THEN 0 ELSE IF d < 32 THEN 2 ELSE 1))
  BY <1>1 DEF Columns
<1>4. n >= 3 => d \in 0 .. 255
  BY <1>1
<1> HIDE DEF a, c, d, n
<1>5. CASE a < 128
  BY <1>2, <1>3, <1>5 DEF n
<1>6. CASE ~(a < 128) /\ c < 128
  BY <1>2, <1>3, <1>6 DEF n
<1>7. CASE ~(a < 128) /\ ~(c < 128)
  <2>1. d \in 0 .. 255
    BY <1>3, <1>4, <1>7
  <2>2. Reach(v) = IF d >= 32 THEN 2 ELSE 3
    BY <1>2, <1>7
  <2>3. n = IF d < 32 THEN 4 ELSE 3
    BY <1>3, <1>7
  <2> QED  BY <2>1, <2>2, <2>3 DEF n
<1> QED  BY <1>5, <1>6, <1>7

\* The columns of a row are the row, but for a value no effect takes.
LEMMA ReadColumnsHolds ==
  ASSUME Loaded, TypeOK, NEW v \in Voice, VoiceInv(v), ReadColumns(v)
  PROVE  /\ TypeOK' /\ VoiceInv(v)'
         /\ rowno[v] < Len(Rows(v))
         /\ LET r == Rows(v)[rowno[v] + 1]
            IN  /\ r \in Row
                /\ row'[v].note = r.note /\ row'[v].inst = r.inst /\ row'[v].fx = r.fx
                /\ r.fx \in 1 .. 31 => row'[v].value = r.value
                /\ r.fx \notin 1 .. 31 => r.value = 0
<1> DEFINE st == ptn[curptn[v]]
           q == ptnpos[v]
           n == Reach(v)
           r == Rows(v)[rowno[v] + 1]
           m == RowLen(r)
           d == DecodeRow(st, q + 1)
<1>1. /\ RowPrep(v) /\ packcnt[v] = 0 /\ st[q + 1] \notin Marker
      /\ row' = [row EXCEPT ![v] =
           [note  |-> PatternByte(v, q) % 128,
            inst  |-> IF n >= 1 THEN PatternByte(v, q + 1) % 128 ELSE 0,
            fx    |-> IF n >= 2 THEN PatternByte(v, q + 2) ELSE 0,
            value |-> IF n = 3 THEN PatternByte(v, q + 3) ELSE @.value]]
      /\ ptnpos' = [ptnpos EXCEPT ![v] = q + n] /\ packcnt' = packcnt
  BY DEF ReadColumns, PatternByte
<1>2. q \in 0 .. 255 /\ rowno[v] \in Nat
  BY DEF TypeOK, Byte
<1>3. /\ stage[v] = "row" /\ curptn[v] \in DOMAIN song.rows /\ Due(v)
  BY <1>1 DEF RowPrep, VoiceInv, CursorInv
<1>4. Stored(Rows(v), st) /\ rowno[v] < Len(Rows(v)) /\ Len(Rows(v)) \in Nat
  <2>1. Stored(Rows(v), st)
    BY <1>3 DEF Loaded, Rows
  <2> QED  BY <1>3, <2>1, AtTheTop DEF Due, AtRow
<1>5. /\ Columns(st, q + 1) = m /\ d = r /\ q + m < Len(st)
      /\ InRun(Rows(v), st, q + m - 1, rowno[v] + 1, 0)
  <2>1. q \in Nat /\ rowno[v] \in Nat /\ AtRow(Rows(v), st, q, rowno[v])
    BY <1>2, <1>3 DEF Due
  <2>2. \/ \E l \in 1 .. 8 : st[q + 1] = PackedMin + l - 1
        \/ /\ Columns(st, q + 1) = m /\ d = r /\ q + m < Len(st)
           /\ InRun(Rows(v), st, q + m - 1, rowno[v] + 1, 0)
    BY <1>4, <2>1, RowIsRead
  <2>3. \A l \in 1 .. 8 : PackedMin + l - 1 \in Marker
    BY DEF Marker, PackedMin, PackedMax
  <2> QED  BY <1>1, <2>2, <2>3
<1>6. r \in Row /\ PlainRow(r) /\ m \in 1 .. 4
  BY <1>2, <1>4, NextOff
<1>7. st \in Bytes /\ Len(st) \in Nat /\ Len(st) <= 256
  BY <1>4, OffNext, CarriesStart DEF Stored, Bytes
<1>8. n = m - 1
  <2>1. m >= 3 => st[q + 3] \in 0 .. 255
    <3> SUFFICES ASSUME m >= 3 PROVE st[q + 3] \in 0 .. 255
      OBVIOUS
    <3> HIDE DEF m, q, st
    <3>1. q + 3 \in 1 .. Len(st)
      BY <1>2, <1>5, <1>6, <1>7
    <3> QED  BY <1>7, <3>1, ByteAt
  <2>2. Columns(st, q + 1) >= 3 => st[q + 3] \in 0 .. 255
    BY <1>5, <2>1
  <2>3. ptnpos[v] \in Nat
    BY <1>2
  <2> QED  BY <1>5, <2>2, <2>3, ReachIsColumns
<1> HIDE DEF n, m, r
<1>9. /\ d.note = PatternByte(v, q) % 128
      /\ d.inst = IF n >= 1 THEN PatternByte(v, q + 1) % 128 ELSE 0
      /\ d.fx = IF n >= 2 THEN PatternByte(v, q + 2) ELSE 0
      /\ n = 3 => d.value = PatternByte(v, q + 3)
      /\ n # 3 => d.value = 0
  <2>1. /\ (m >= 2 <=> n >= 1) /\ (m >= 3 <=> n >= 2) /\ (m = 4 <=> n = 3)
        /\ (q + 1) + 1 = (q + 1) + 1 /\ (q + 2) + 1 = (q + 1) + 2 /\ (q + 3) + 1 = (q + 1) + 3
    BY <1>2, <1>6, <1>8
  <2> QED  BY <1>5, <2>1 DEF DecodeRow, PatternByte
<1>10. m = 4 <=> r.fx \in 1 .. 31
  <2>1. r.fx \in 0 .. 255
    BY <1>6 DEF Row
  <2> QED  BY <2>1 DEF RowLen, m
<1>11. row'[v] = [note |-> r.note, inst |-> r.inst, fx |-> r.fx, value |-> IF n = 3 THEN r.value ELSE row[v].value]
  <2>1. row \in [Voice -> Row]
    BY DEF TypeOK
  <2> HIDE DEF d
  <2> QED  BY <1>1, <1>5, <1>9, <2>1
<1>12. row' \in [Voice -> Row]
  <2>1. row \in [Voice -> Row]
    BY DEF TypeOK
  <2>2. row'[v] \in Row
    BY <1>6, <1>11, <2>1 DEF Row
  <2>3. row' = [row EXCEPT ![v] = row'[v]]
    BY <1>1, <2>1
  <2> QED  BY <2>1, <2>2, <2>3
<1>13. ptnpos' \in [Voice -> Byte] /\ ptnpos'[v] = q + n
  <2>1. q + n \in 0 .. 255
    <3> DEFINE l == Len(st)
    <3>1. q + m < l /\ l \in Nat /\ l <= 256
      BY <1>5, <1>7
    <3> HIDE DEF l, q
    <3> QED  BY <1>2, <1>6, <1>8, <3>1
  <2> DEFINE p == q + n
  <2> HIDE DEF p
  <2>2. ptnpos' = [ptnpos EXCEPT ![v] = p] /\ p \in 0 .. 255
    BY <1>1, <2>1 DEF p
  <2>3. ptnpos'[v] = p /\ ptnpos' \in [Voice -> Byte]
    BY <2>2 DEF TypeOK, Byte
  <2> QED  BY <2>3 DEF p
<1>14. /\ TypeOK' /\ OrderInv(v)' /\ stage'[v] = "step" /\ walker' = Nobody
       /\ rowno'[v] = rowno[v] + 1 /\ over'[v] = 0 /\ UNCHANGED <<song, ptn, curptn>>
  <2>1. packcnt' \in [Voice -> 0 .. 8]
    BY <1>1 DEF TypeOK
  <2> QED  BY <1>1, <1>12, <1>13, <2>1, RowPrepHolds
<1>15. CursorInv(v)'
  <2>1. Rows(v)' = Rows(v)
    BY <1>14 DEF Rows
  <2>2. packcnt'[v] = 0 /\ ptnpos'[v] = q + m - 1
    BY <1>1, <1>2, <1>6, <1>8, <1>13
  <2>3. Running(v)' /\ rowno'[v] <= Len(Rows(v)') /\ walker' # v
    BY <1>2, <1>4, <1>5, <1>14, <2>1, <2>2, NobodyAssumption DEF Running
  <2> QED  BY <1>3, <1>14, <2>1, <2>2, <2>3 DEF CursorInv, Rows
<1>16. (r.fx \in 1 .. 31 => row'[v].value = r.value) /\ (r.fx \notin 1 .. 31 => r.value = 0)
  <2>1. r.fx \in 1 .. 31 => n = 3
    BY <1>6, <1>8, <1>10
  <2>2. r.fx \notin 1 .. 31 => r.value = 0
    BY <1>6 DEF PlainRow, TakesValue
  <2> QED  BY <1>11, <2>1, <2>2
<1> QED  BY <1>4, <1>6, <1>11, <1>14, <1>15, <1>16 DEF VoiceInv, r

\* What the step of a row finds and leaves.
LEMMA StepHolds ==
  ASSUME Loaded, TypeOK, NEW v \in Voice, VoiceInv(v), Step(v)
  PROVE  /\ transp' \in [Voice -> Byte] /\ transp'[v] = transp2[v] /\ transp2[v] \in Shifts
         /\ stage[v] = "step" /\ walker = Nobody /\ walker # v
         /\ ptnpos[v] \in 0 .. 255 /\ packcnt[v] \in 0 .. 8 /\ rowno[v] \in Nat
         /\ curptn[v] \in DOMAIN song.rows /\ Stored(Rows(v), ptn[curptn[v]])
         /\ rowno[v] <= Len(Rows(v)) /\ Len(Rows(v)) \in Nat /\ Running(v) /\ Here(v)
         /\ packcnt[v] = 0 =>
              /\ rowno[v] = Len(Rows(v)) => NextByte(v) = 255
              /\ rowno[v] < Len(Rows(v)) =>
                   /\ NextByte(v) # 255 /\ ptnpos[v] + 1 \in 0 .. 255
                   /\ AtRow(Rows(v), ptn[curptn[v]], ptnpos[v] + 1, rowno[v])
<1>1. stage[v] = "step" /\ walker = Nobody /\ walker # v /\ transp' = [transp EXCEPT ![v] = transp2[v]]
  BY NobodyAssumption DEF Step
<1>2. /\ transp \in [Voice -> Byte] /\ transp2[v] \in Byte /\ ptnpos[v] \in 0 .. 255
      /\ packcnt[v] \in 0 .. 8 /\ rowno[v] \in Nat
  BY DEF TypeOK, Byte
<1>3. /\ curptn[v] \in DOMAIN song.rows /\ rowno[v] <= Len(Rows(v)) /\ Running(v)
      /\ Here(v) /\ transp2[v] \in Shifts
  BY <1>1 DEF VoiceInv, CursorInv, OrderInv
<1>4. Stored(Rows(v), ptn[curptn[v]]) /\ Len(Rows(v)) \in Nat
  <2>1. Stored(Rows(v), ptn[curptn[v]])
    BY <1>3 DEF Loaded, Rows
  <2> QED  BY <2>1, AtTheTop
<1>5. NextByte(v) = ptn[curptn[v]][ptnpos[v] + 2]
  <2>1. (ptnpos[v] + 1) + 1 = ptnpos[v] + 2
    BY <1>2
  <2> QED  BY <2>1 DEF NextByte, PatternByte
<1>6. ASSUME packcnt[v] = 0
      PROVE  /\ rowno[v] = Len(Rows(v)) => NextByte(v) = 255
             /\ rowno[v] < Len(Rows(v)) =>
                  /\ NextByte(v) # 255 /\ ptnpos[v] + 1 \in 0 .. 255
                  /\ AtRow(Rows(v), ptn[curptn[v]], ptnpos[v] + 1, rowno[v])
  <2> DEFINE q == ptnpos[v]
  <2>1. InRun(Rows(v), ptn[curptn[v]], q, rowno[v], 0)
    BY <1>3, <1>6 DEF Running
  <2>2. q \in 0 .. 255
    BY <1>2
  <2>3. NextByte(v) = ptn[curptn[v]][q + 2]
    BY <1>5
  <2> HIDE DEF q
  <2>4. q \in Nat
    BY <2>2
  <2>5. /\ rowno[v] = Len(Rows(v)) => ptn[curptn[v]][q + 2] = 255
        /\ rowno[v] < Len(Rows(v)) =>
             ptn[curptn[v]][q + 2] # 255 /\ q + 1 \in 0 .. 255 /\ AtRow(Rows(v), ptn[curptn[v]], q + 1, rowno[v])
    BY <1>2, <1>3, <1>4, <2>1, <2>4, RowFollows
  <2> QED  BY <2>3, <2>5 DEF q
<1> QED  BY <1>1, <1>2, <1>3, <1>4, <1>6

\* A step inside a run.
LEMMA RunHoldsHolds ==
  ASSUME Loaded, TypeOK, NEW v \in Voice, VoiceInv(v), RunHolds(v)
  PROVE  TypeOK' /\ VoiceInv(v)' /\ over[v] = 0
<1>1. /\ Step(v) /\ packcnt[v] # 0 /\ stage' = [stage EXCEPT ![v] = "note"]
      /\ UNCHANGED <<ptnpos, walker, y>>
      /\ UNCHANGED <<memory, orders, packcnt, row, rowno, voiced, delayed, trktempo, mainvol, over>>
  BY DEF RunHolds, Step
<1>2. /\ transp' \in [Voice -> Byte] /\ transp'[v] = transp2[v] /\ transp2[v] \in Shifts
      /\ stage[v] = "step" /\ walker = Nobody /\ walker # v
      /\ curptn[v] \in DOMAIN song.rows /\ rowno[v] <= Len(Rows(v)) /\ Running(v) /\ Here(v)
  BY <1>1, StepHolds
<1>3. over[v] = 0
  BY <1>1 DEF VoiceInv, CursorInv
<1>4. stage' \in [Voice -> {"start", "row", "step", "note"}] /\ stage'[v] = "note"
  BY <1>1 DEF TypeOK
<1>5. TypeOK'
  BY <1>1, <1>2, <1>4 DEF TypeOK, orders, voiced, delayed
<1>6. CursorInv(v)'
  <2>1. Rows(v)' = Rows(v) /\ Running(v)'
    BY <1>1, <1>2 DEF Rows, Running, memory, orders
  <2> QED  BY <1>1, <1>2, <1>3, <1>4, <2>1 DEF CursorInv, Rows, memory, orders
<1>7. OrderInv(v)'
  <2>1. Here(v)'
    BY <1>1, <1>2 DEF Here, E, Cmds, memory, orders
  <2> QED  BY <1>1, <1>2, <1>3, <1>4, <2>1 DEF VoiceInv, OrderInv, memory, orders, delayed
<1> QED  BY <1>3, <1>5, <1>6, <1>7 DEF VoiceInv

\* A step to the next row.
LEMMA NextRowHolds ==
  ASSUME Loaded, TypeOK, NEW v \in Voice, VoiceInv(v), NextRow(v)
  PROVE  TypeOK' /\ VoiceInv(v)' /\ over[v] = 0
<1>1. /\ Step(v) /\ packcnt[v] = 0 /\ NextByte(v) # 255
      /\ ptnpos' = [ptnpos EXCEPT ![v] = @ + 1] /\ stage' = [stage EXCEPT ![v] = "note"]
      /\ UNCHANGED <<walker, y>>
      /\ UNCHANGED <<memory, orders, packcnt, row, rowno, voiced, delayed, trktempo, mainvol, over>>
  BY DEF NextRow, Step
<1>2. /\ transp' \in [Voice -> Byte] /\ transp'[v] = transp2[v] /\ transp2[v] \in Shifts
      /\ stage[v] = "step" /\ walker = Nobody /\ walker # v
      /\ ptnpos[v] \in 0 .. 255 /\ rowno[v] \in Nat
      /\ curptn[v] \in DOMAIN song.rows /\ Stored(Rows(v), ptn[curptn[v]])
      /\ rowno[v] <= Len(Rows(v)) /\ Len(Rows(v)) \in Nat /\ Running(v) /\ Here(v)
  BY <1>1, StepHolds
<1>3. /\ rowno[v] = Len(Rows(v)) => NextByte(v) = 255
      /\ rowno[v] < Len(Rows(v)) =>
           ptnpos[v] + 1 \in 0 .. 255 /\ AtRow(Rows(v), ptn[curptn[v]], ptnpos[v] + 1, rowno[v])
  BY <1>1, StepHolds
<1>4. rowno[v] # Len(Rows(v))
  BY <1>1, <1>2, <1>3
<1>5. /\ rowno[v] < Len(Rows(v)) /\ ptnpos[v] + 1 \in 0 .. 255
      /\ AtRow(Rows(v), ptn[curptn[v]], ptnpos[v] + 1, rowno[v])
  BY <1>2, <1>3, <1>4
<1>6. over[v] = 0
  BY <1>4 DEF VoiceInv, CursorInv
<1>7. stage' \in [Voice -> {"start", "row", "step", "note"}] /\ stage'[v] = "note"
  BY <1>1 DEF TypeOK
<1>8. ptnpos' \in [Voice -> Byte] /\ ptnpos'[v] = ptnpos[v] + 1
  BY <1>1, <1>5 DEF TypeOK, Byte
<1>9. TypeOK'
  BY <1>1, <1>2, <1>7, <1>8 DEF TypeOK, orders, voiced, delayed
<1>10. CursorInv(v)'
  <2>1. Rows(v)' = Rows(v) /\ Due(v)'
    BY <1>1, <1>5, <1>8 DEF Rows, Due, memory, orders
  <2> QED  BY <1>1, <1>2, <1>6, <1>7, <2>1 DEF CursorInv, Rows, memory, orders
<1>11. OrderInv(v)'
  <2>1. Here(v)'
    BY <1>1, <1>2 DEF Here, E, Cmds, memory, orders
  <2> QED  BY <1>1, <1>2, <1>6, <1>7, <2>1 DEF VoiceInv, OrderInv, memory, orders, delayed
<1> QED  BY <1>6, <1>9, <1>10, <1>11 DEF VoiceInv

\* The end of the pattern, at its last row and at no other.
LEMMA PatternEndsHolds ==
  ASSUME Loaded, TypeOK, NEW v \in Voice, VoiceInv(v), PatternEnds(v)
  PROVE  TypeOK' /\ VoiceInv(v)' /\ rowno[v] = Len(Rows(v)) /\ Here(v)
<1>1. /\ Step(v) /\ packcnt[v] = 0 /\ NextByte(v) = 255
      /\ walker' = v /\ y' = seqpos[v] + 1
      /\ UNCHANGED <<ptnpos, stage>>
      /\ UNCHANGED <<memory, orders, packcnt, row, rowno, voiced, delayed, trktempo, mainvol, over>>
  BY DEF PatternEnds, Step
<1>2. /\ transp' \in [Voice -> Byte] /\ transp'[v] = transp2[v] /\ transp2[v] \in Shifts
      /\ stage[v] = "step" /\ walker = Nobody /\ walker # v
      /\ ptnpos[v] \in 0 .. 255 /\ rowno[v] \in Nat
      /\ curptn[v] \in DOMAIN song.rows /\ Stored(Rows(v), ptn[curptn[v]])
      /\ rowno[v] <= Len(Rows(v)) /\ Len(Rows(v)) \in Nat /\ Running(v) /\ Here(v)
  <2>1. Step(v)
    BY <1>1
  <2> QED  BY <2>1, StepHolds
<1>3. rowno[v] < Len(Rows(v)) => NextByte(v) # 255
  BY <1>1, StepHolds
<1>4. rowno[v] = Len(Rows(v))
  <2>1. ~(rowno[v] < Len(Rows(v)))
    BY <1>1, <1>2, <1>3
  <2> QED  BY <1>2, <2>1
<1>5. seqpos[v] \in 0 .. 255 /\ seqt[v] \in DOMAIN song.orders
  BY DEF TypeOK, Byte, VoiceInv, OrderInv
<1>6. E(v) \in 1 .. 256 /\ seqpos[v] + 1 < E(v) /\ seqpos[v] + 1 \in 0 .. 255
  <2>1. E(v) \in 1 .. 256
    BY <1>5, StartsWithPlay DEF E, Cmds
  <2>2. seqpos[v] + 1 < E(v)
    BY <1>2 DEF Here
  <2> QED  BY <1>5, <2>1, <2>2
<1>7. y' \in Byte /\ walker' \in Voice \cup {Nobody}
  BY <1>1, <1>6 DEF Byte
<1>8. TypeOK'
  BY <1>1, <1>2, <1>7 DEF TypeOK, orders, voiced, delayed
<1>9. CursorInv(v)'
  <2>1. Rows(v)' = Rows(v) /\ Running(v)'
    BY <1>1, <1>2 DEF Rows, Running, memory, orders
  <2> QED  BY <1>1, <1>2, <1>4, <2>1 DEF CursorInv, Rows, memory, orders
<1>10. OrderInv(v)'
  <2>1. Here(v)' /\ E(v)' = E(v) /\ Cmds(v)' = Cmds(v) /\ seqpos'[v] = seqpos[v] /\ seqt'[v] = seqt[v]
    BY <1>1, <1>2 DEF Here, E, Cmds, memory, orders
  <2>2. y' + 1 = seqpos[v] + 2 /\ seqpos[v] < y' /\ y' < E(v)
    BY <1>1, <1>5, <1>6
  <2>3. WalkInv(v)'
    BY <2>1, <2>2 DEF WalkInv, NoPlay, AtEnd
  <2>4. over[v] # 0 => OverInv(v)'
    BY <1>1, <2>1, <2>2 DEF VoiceInv, OrderInv, OverInv, NoPlay, AtEnd
  <2> QED  BY <1>1, <1>2, <2>1, <2>3, <2>4 DEF VoiceInv, OrderInv, memory, orders, delayed
<1> QED  BY <1>2, <1>4, <1>8, <1>9, <1>10 DEF VoiceInv

\* Where a walk stands.
LEMMA WalkStands ==
  ASSUME Loaded, TypeOK, NEW v \in Voice, VoiceInv(v), walker = v, stage[v] = "step"
  PROVE  /\ y \in 0 .. 255 /\ seqpos[v] \in 0 .. 255 /\ seqt[v] \in DOMAIN song.orders
         /\ E(v) \in 1 .. 256 /\ y < E(v) /\ WalkInv(v)
         /\ packcnt[v] = 0 /\ rowno[v] = Len(Rows(v)) /\ curptn[v] \in DOMAIN song.rows /\ Running(v)
         /\ over[v] # 0 => OverInv(v) /\ seqpos[v] < y
         /\ y + 1 = E(v) => Here(v) /\ (AtEnd(v) => NoPlay(v, seqpos[v] + 2) /\ seqpos[v] < y)
<1>1. y \in 0 .. 255 /\ seqpos[v] \in 0 .. 255
  BY DEF TypeOK, Byte
<1>2. /\ seqt[v] \in DOMAIN song.orders /\ y < E(v) /\ WalkInv(v)
      /\ packcnt[v] = 0 /\ rowno[v] = Len(Rows(v)) /\ curptn[v] \in DOMAIN song.rows /\ Running(v)
      /\ over[v] # 0 => OverInv(v) /\ seqpos[v] < y
  BY DEF VoiceInv, OrderInv, OverInv, WalkInv, CursorInv
<1>3. E(v) \in 1 .. 256
  BY <1>2, StartsWithPlay DEF E, Cmds
<1>4. y + 1 = E(v) => NoPlay(v, y + 1)
  <2> SUFFICES ASSUME y + 1 = E(v), NEW k \in y + 1 .. E(v) - 1 PROVE FALSE
    BY DEF NoPlay
  <2> QED  BY <1>1, <1>3
<1> QED  BY <1>1, <1>2, <1>3, <1>4 DEF WalkInv

\* A pattern.
LEMMA WalkPatternHolds ==
  ASSUME Loaded, TypeOK, NEW v \in Voice, VoiceInv(v), WalkPattern(v)
  PROVE  TypeOK' /\ VoiceInv(v)' /\ over[v] = 0
<1> DEFINE a == OrderByte(v, y)
<1>1. /\ walker = v /\ stage[v] = "step" /\ a < 128
      /\ curptn' = [curptn EXCEPT ![v] = a] /\ seqpos' = [seqpos EXCEPT ![v] = y]
      /\ walker' = Nobody /\ y' = 0
      /\ ptnpos' = [ptnpos EXCEPT ![v] = 0] /\ rowno' = [rowno EXCEPT ![v] = 0]
      /\ stage' = [stage EXCEPT ![v] = "note"] /\ over' = over
      /\ UNCHANGED <<memory, packcnt, row, voiced, applied>> /\ UNCHANGED <<seqt, delayed>>
  BY DEF WalkPattern, Walk, FromTheTop
<1>2. /\ y \in 0 .. 255 /\ seqt[v] \in DOMAIN song.orders /\ seqpos[v] \in 0 .. 255
      /\ E(v) \in 1 .. 256 /\ y < E(v) /\ packcnt[v] = 0
      /\ over[v] # 0 => OverInv(v) /\ seqpos[v] < y
  BY <1>1, WalkStands
<1>3. y + 1 < E(v) /\ Cmds(v)[y + 1] = Cmd("play", a) /\ a \in 0 .. 127 /\ a \in DOMAIN song.rows
  <2>1. y \in Nat
    BY <1>2
  <2> QED  BY <1>1, <1>2, <2>1, PlayAt
<1> HIDE DEF a
<1>4. over[v] = 0
  <2> SUFFICES ASSUME over[v] # 0 PROVE FALSE
    OBVIOUS
  <2>1. NoPlay(v, seqpos[v] + 2) /\ seqpos[v] < y
    BY <1>2 DEF OverInv
  <2>2. y + 1 \in seqpos[v] + 2 .. E(v) - 1
    BY SMTT(20), <1>2, <1>3, <2>1
  <2>3. Cmds(v)[y + 1].op = "play"
    BY <1>3 DEF Cmd
  <2> QED  BY <2>1, <2>2, <2>3 DEF NoPlay
<1>5. /\ curptn' \in [Voice -> 0 .. 127] /\ curptn'[v] = a
      /\ seqpos' \in [Voice -> Byte] /\ seqpos'[v] = y
      /\ ptnpos' \in [Voice -> Byte] /\ ptnpos'[v] = 0 /\ rowno' \in [Voice -> Nat] /\ rowno'[v] = 0
      /\ stage' \in [Voice -> {"start", "row", "step", "note"}] /\ stage'[v] = "note"
  BY <1>1, <1>3 DEF TypeOK, Byte
<1>6. TypeOK'
  BY <1>1, <1>5 DEF TypeOK, Byte, voiced, delayed, applied
<1>7. CursorInv(v)'
  <2>1. AtRow(song.rows[a], ptn[a], 0, 0) /\ Len(song.rows[a]) \in Nat \ {0}
    BY <1>3, AtTheTop DEF Loaded
  <2>2. song' = song /\ ptn' = ptn /\ packcnt'[v] = 0 /\ over'[v] = 0
    BY <1>1, <1>2, <1>4 DEF memory
  <2> QED  BY <1>1, <1>3, <1>5, <2>1, <2>2, NobodyAssumption DEF CursorInv, Rows, Due
<1>8. OrderInv(v)'
  <2>1. E(v)' = E(v) /\ Cmds(v)' = Cmds(v)
    BY <1>1 DEF E, Cmds, memory
  <2>2. Here(v)'
    BY <1>1, <1>3, <1>5, <2>1 DEF Here
  <2> QED
    BY <1>1, <1>2, <1>4, <1>5, <2>2, NobodyAssumption DEF VoiceInv, OrderInv, memory, applied, delayed
<1> QED  BY <1>4, <1>6, <1>7, <1>8 DEF VoiceInv

\* The track's end.
LEMMA WalkEndHolds ==
  ASSUME Loaded, TypeOK, NEW v \in Voice, VoiceInv(v), WalkEnd(v)
  PROVE  TypeOK' /\ VoiceInv(v)' /\ y + 1 = E(v) /\ AtEnd(v)
<1>1. /\ walker = v /\ stage[v] = "step" /\ OrderByte(v, y) = 254
      /\ over' = [over EXCEPT ![v] = y + 1] /\ walker' = Nobody /\ y' = 0
      /\ UNCHANGED <<memory, packcnt, row, voiced, applied>>
      /\ UNCHANGED <<orders, delayed, ptnpos, rowno, stage>>
  BY DEF WalkEnd, Walk
<1>2. /\ y \in 0 .. 255 /\ seqt[v] \in DOMAIN song.orders
      /\ E(v) \in 1 .. 256 /\ y < E(v) /\ packcnt[v] = 0
      /\ rowno[v] = Len(Rows(v)) /\ curptn[v] \in DOMAIN song.rows /\ Running(v)
      /\ y + 1 = E(v) => Here(v) /\ (AtEnd(v) => NoPlay(v, seqpos[v] + 2) /\ seqpos[v] < y)
  BY <1>1, WalkStands
<1>3. y + 1 = E(v) /\ AtEnd(v)
  <2>1. y \in Nat /\ OrderByte(v, y) \in {254, 255}
    BY <1>1, <1>2
  <2>2. y + 1 = E(v) /\ (OrderByte(v, y) = 254 <=> AtEnd(v))
    BY <1>2, <2>1, EndAt
  <2> QED  BY <1>1, <2>2
<1>4. Here(v) /\ NoPlay(v, seqpos[v] + 2)
  BY <1>2, <1>3
<1>5. over' \in [Voice -> Nat] /\ over'[v] = y + 1 /\ over'[v] # 0
  BY <1>1, <1>2 DEF TypeOK
<1>6. TypeOK'
  BY <1>1, <1>5 DEF TypeOK, Byte, orders, voiced, delayed, applied
<1>7. CursorInv(v)'
  <2>1. Rows(v)' = Rows(v) /\ Running(v)'
    BY <1>1, <1>2 DEF Rows, Running, memory, orders
  <2>2. rowno[v] <= Len(Rows(v))
    BY <1>2 DEF VoiceInv, CursorInv, TypeOK
  <2> QED  BY <1>1, <1>2, <2>1, <2>2 DEF CursorInv, Rows, memory, orders
<1>8. OrderInv(v)'
  <2>1. /\ E(v)' = E(v) /\ Cmds(v)' = Cmds(v) /\ Here(v)' /\ AtEnd(v)'
        /\ seqpos'[v] = seqpos[v] /\ seqt'[v] = seqt[v] /\ stage'[v] = "step"
    BY <1>1, <1>3, <1>4 DEF Here, AtEnd, E, Cmds, memory, orders
  <2>2. OverInv(v)'
    BY <1>1, <1>3, <1>4, <1>5, <2>1, NobodyAssumption DEF OverInv, NoPlay
  <2> QED
    BY <1>1, <1>2, <1>5, <2>1, <2>2, NobodyAssumption DEF VoiceInv, OrderInv, memory, applied, delayed
<1> QED  BY <1>3, <1>6, <1>7, <1>8 DEF VoiceInv

\* A loop, within the orderlist.
LEMMA WalkLoopHolds ==
  ASSUME Loaded, TypeOK, NEW v \in Voice, VoiceInv(v), WalkLoop(v)
  PROVE  /\ TypeOK' /\ VoiceInv(v)' /\ over[v] = 0
         /\ Cmds(v)[y + 1].op = "loop" /\ Cmds(v)[y + 1].arg = y'
<1> DEFINE to == OrderByte(v, y + 1)
<1>1. /\ walker = v /\ stage[v] = "step" /\ OrderByte(v, y) = 255 /\ to < 128
      /\ y' = to /\ UNCHANGED <<ptnpos, rowno, stage, walker, over>>
      /\ UNCHANGED <<memory, packcnt, row, voiced, applied>> /\ UNCHANGED <<orders, delayed>>
  BY DEF WalkLoop, Walk, WalkGoesOn
<1>2. /\ y \in 0 .. 255 /\ seqt[v] \in DOMAIN song.orders
      /\ E(v) \in 1 .. 256 /\ y < E(v) /\ packcnt[v] = 0
      /\ rowno[v] = Len(Rows(v)) /\ curptn[v] \in DOMAIN song.rows /\ Running(v)
      /\ y + 1 = E(v) => Here(v)
      /\ over[v] # 0 => OverInv(v)
  BY <1>1, WalkStands
<1>3. /\ y + 1 = E(v) /\ ~AtEnd(v) /\ to \in 0 .. 127 /\ to < E(v)
      /\ Cmds(v)[y + 1].op = "loop" /\ Cmds(v)[y + 1].arg = to
  <2>1. y \in Nat /\ OrderByte(v, y) \in {254, 255}
    BY <1>1, <1>2
  <2>2. /\ y + 1 = E(v) /\ (OrderByte(v, y) = 254 <=> AtEnd(v))
        /\ OrderByte(v, y) = 255 /\ to < 128 =>
             Cmds(v)[y + 1].op = "loop" /\ Cmds(v)[y + 1].arg = to /\ to \in 0 .. 127 /\ to < E(v)
    BY <1>2, <2>1, EndAt
  <2> HIDE DEF to
  <2> QED  BY <1>1, <2>2
<1> HIDE DEF to
<1>4. over[v] = 0
  BY <1>2, <1>3 DEF OverInv
<1>5. TypeOK'
  <2>1. y' \in Byte
    BY <1>1, <1>3 DEF Byte
  <2> QED  BY <1>1, <2>1 DEF TypeOK, orders, voiced, delayed, applied
<1>6. CursorInv(v)'
  <2>1. Rows(v)' = Rows(v) /\ Running(v)'
    BY <1>1, <1>2 DEF Rows, Running, memory, orders
  <2>2. rowno[v] <= Len(Rows(v))
    BY <1>2 DEF TypeOK
  <2> QED  BY <1>1, <1>2, <1>4, <2>1, <2>2 DEF CursorInv, Rows, memory, orders
<1>7. OrderInv(v)'
  <2>1. /\ E(v)' = E(v) /\ Cmds(v)' = Cmds(v) /\ Here(v)' /\ ~AtEnd(v)'
        /\ seqt'[v] = seqt[v] /\ stage'[v] = "step"
    BY <1>1, <1>2, <1>3 DEF Here, AtEnd, E, Cmds, memory, orders
  <2>2. WalkInv(v)'
    BY <1>1, <1>3, <2>1 DEF WalkInv
  <2> QED  BY <1>1, <1>2, <1>4, <2>1, <2>2 DEF VoiceInv, OrderInv, memory, applied, delayed
<1> QED  BY <1>1, <1>3, <1>4, <1>5, <1>6, <1>7 DEF VoiceInv

\* A jump to a subtune, whose orderlist has a pattern to start with.
LEMMA WalkSubtuneHolds ==
  ASSUME Loaded, TypeOK, NEW v \in Voice, VoiceInv(v), WalkSubtune(v)
  PROVE  /\ TypeOK' /\ VoiceInv(v)' /\ over[v] = 0 /\ y' = 0
         /\ Cmds(v)[y + 1].op = "jump" /\ seqt'[v] = Cmds(v)[y + 1].arg % 32
<1> DEFINE to == OrderByte(v, y + 1)
           sub == to % 32
<1>1. /\ walker = v /\ stage[v] = "step" /\ OrderByte(v, y) = 255 /\ to >= 128
      /\ seqt' = [seqt EXCEPT ![v] = sub]
      /\ y' = 0 /\ UNCHANGED <<ptnpos, rowno, stage, walker, over>>
      /\ UNCHANGED <<memory, packcnt, row, voiced, applied>> /\ UNCHANGED <<seqpos, curptn, delayed>>
  BY DEF WalkSubtune, Walk, WalkGoesOn
<1>2. /\ y \in 0 .. 255 /\ seqt[v] \in DOMAIN song.orders
      /\ E(v) \in 1 .. 256 /\ y < E(v) /\ packcnt[v] = 0
      /\ rowno[v] = Len(Rows(v)) /\ curptn[v] \in DOMAIN song.rows /\ Running(v)
      /\ over[v] # 0 => OverInv(v)
  BY <1>1, WalkStands
<1>3. /\ ~AtEnd(v) /\ to \in 128 .. 255 /\ sub \in DOMAIN song.orders
      /\ Cmds(v)[y + 1].op = "jump" /\ Cmds(v)[y + 1].arg = to
  <2>1. y \in Nat /\ OrderByte(v, y) \in {254, 255}
    BY <1>1, <1>2
  <2>2. /\ (OrderByte(v, y) = 254 <=> AtEnd(v))
        /\ OrderByte(v, y) = 255 /\ to >= 128 =>
             /\ Cmds(v)[y + 1].op = "jump" /\ Cmds(v)[y + 1].arg = to /\ to \in 128 .. 255
             /\ sub \in DOMAIN song.orders
    BY <1>2, <2>1, EndAt
  <2>3. OrderByte(v, y) = 255 /\ to >= 128
    BY <1>1
  <2> HIDE DEF to, sub
  <2> QED  BY ONLY <2>2, <2>3
<1>4. over[v] = 0
  <2>1. over[v] # 0 => AtEnd(v)
    BY <1>2 DEF OverInv
  <2> QED  BY ONLY <1>3, <2>1
<1>5. sub \in 0 .. 31
  <2> HIDE DEF to
  <2> QED  BY <1>3
<1> HIDE DEF to, sub
<1>6. seqt' \in [Voice -> 0 .. 31] /\ seqt'[v] = sub
  BY <1>1, <1>5 DEF TypeOK
<1>7. TypeOK'
  BY <1>1, <1>6 DEF TypeOK, Byte, voiced, delayed, applied
<1>8. CursorInv(v)'
  <2>1. Rows(v)' = Rows(v) /\ Running(v)'
    BY <1>1, <1>2 DEF Rows, Running, memory
  <2>2. rowno[v] <= Len(Rows(v))
    BY <1>2 DEF TypeOK
  <2> QED  BY <1>1, <1>2, <1>4, <2>1, <2>2 DEF CursorInv, Rows, memory
<1>9. OrderInv(v)'
  <2> DEFINE cmds == song.orders[sub][v]
             e == Ending(cmds)
  <2>1. e \in 1 .. 256 /\ \E k \in 1 .. e - 1 : cmds[k].op = "play"
    BY <1>3, StartsWithPlay
  <2>2. E(v)' = e /\ Cmds(v)' = cmds
    BY <1>1, <1>6 DEF E, Cmds, memory
  <2> HIDE DEF cmds, e
  <2>3. y' + 1 = 1 /\ y' < E(v)'
    BY <1>1, <2>1, <2>2
  <2>4. ~NoPlay(v, y + 1)'
    BY <2>1, <2>2, <2>3 DEF NoPlay
  <2>5. WalkInv(v)'
    BY <2>3, <2>4 DEF WalkInv
  <2>6. seqt'[v] \in DOMAIN song'.orders
    BY <1>1, <1>3, <1>6 DEF memory
  <2> QED  BY <1>1, <1>4, <2>5, <2>6 DEF VoiceInv, OrderInv, applied, delayed
<1> QED  BY <1>1, <1>3, <1>4, <1>6, <1>7, <1>8, <1>9 DEF VoiceInv, sub

\* An effect; before a loop or a jump the pattern plays again.
LEMMA WalkEffectHolds ==
  ASSUME Loaded, TypeOK, NEW v \in Voice, VoiceInv(v), WalkEffect(v)
  PROVE  TypeOK' /\ VoiceInv(v)'
<1> DEFINE a == OrderByte(v, y)
           again == OrderByte(v, y + 1) = 255
<1>1. /\ walker = v /\ stage[v] = "step" /\ a \in 128 .. 253 /\ OrderEffect(v, a)
      /\ IF again
           THEN /\ walker' = Nobody /\ y' = 0
                /\ ptnpos' = [ptnpos EXCEPT ![v] = 0] /\ rowno' = [rowno EXCEPT ![v] = 0]
                /\ stage' = [stage EXCEPT ![v] = "note"]
           ELSE y' = y + 1 /\ UNCHANGED <<ptnpos, rowno, stage, walker>>
      /\ over' = over
      /\ UNCHANGED <<memory, packcnt, row, voiced, applied>> /\ UNCHANGED orders
  BY DEF WalkEffect, Walk, WalkGoesOn, FromTheTop
<1>2. /\ y \in 0 .. 255 /\ seqpos[v] \in 0 .. 255 /\ seqt[v] \in DOMAIN song.orders
      /\ E(v) \in 1 .. 256 /\ y < E(v) /\ WalkInv(v)
      /\ packcnt[v] = 0 /\ rowno[v] = Len(Rows(v)) /\ curptn[v] \in DOMAIN song.rows /\ Running(v)
      /\ over[v] # 0 => OverInv(v) /\ seqpos[v] < y
  BY <1>1, WalkStands
<1>n. y \in 0 .. 255 /\ seqpos[v] \in 0 .. 255 /\ E(v) \in 1 .. 256
  BY <1>2
<1>3. /\ y + 1 < E(v) /\ Cmds(v)[y + 1].op # "play"
      /\ again <=> y + 2 = E(v) /\ ~AtEnd(v)
  <2>1. y \in Nat
    BY <1>n
  <2> QED  BY <1>1, <1>2, <2>1, EffectAt
<1>4. transp[v] \in Shifts /\ transp2[v] \in Shifts
  BY DEF VoiceInv, OrderInv
<1>5. /\ transp2' \in [Voice -> Byte] /\ seqvolu' \in 0 .. 15 /\ seqtempo' \in [Voice -> 0 .. 77]
      /\ transp2'[v] \in Shifts
  BY <1>1, <1>4, EffectBytes
<1> HIDE DEF a, again
<1>6. /\ song' = song /\ ptn' = ptn /\ order' = order /\ seqt' = seqt /\ seqpos' = seqpos /\ curptn' = curptn
      /\ packcnt' = packcnt /\ transp' = transp
      /\ E(v)' = E(v) /\ Cmds(v)' = Cmds(v) /\ Rows(v)' = Rows(v)
      /\ Here(v)' = Here(v) /\ AtEnd(v)' = AtEnd(v)
  BY <1>1 DEF memory, orders, applied, E, Cmds, Rows, Here, AtEnd
<1>7. CASE again
  <2>1. /\ walker' = Nobody /\ y' = 0 /\ stage'[v] = "note" /\ ptnpos'[v] = 0 /\ rowno'[v] = 0
        /\ ptnpos' \in [Voice -> Byte] /\ rowno' \in [Voice -> Nat] /\ y' \in Byte
        /\ stage' \in [Voice -> {"start", "row", "step", "note"}]
    BY SMTT(20), <1>1, <1>7 DEF TypeOK, Byte
  <2>2. TypeOK'
    BY <1>1, <1>5, <2>1 DEF TypeOK, orders, voiced, applied
  <2>3. ~AtEnd(v) /\ y + 2 = E(v)
    BY <1>3, <1>7
  <2>4. over[v] = 0
    BY <1>2, <2>3 DEF OverInv
  <2>5. Here(v)
    <3>1. ASSUME NEW k \in y + 1 .. E(v) - 1 PROVE Cmds(v)[k].op # "play"
      <4>1. y + 2 = E(v) /\ y \in 0 .. 255 /\ E(v) \in 1 .. 256
        BY <1>n, <2>3
      <4>2. k = y + 1
        BY ONLY <4>1, k \in y + 1 .. E(v) - 1
      <4> QED  BY <1>3, <4>2
    <3> QED  BY <1>2, <3>1 DEF WalkInv, NoPlay
  <2>6. CursorInv(v)'
    <3>1. Stored(Rows(v), ptn[curptn[v]])
      BY <1>2 DEF Loaded, Rows
    <3>2. AtRow(Rows(v), ptn[curptn[v]], 0, 0) /\ Len(Rows(v)) \in Nat \ {0}
      BY <3>1, AtTheTop
    <3>3. Due(v)'
      BY <1>6, <2>1, <3>2 DEF Due
    <3>4. packcnt'[v] = 0 /\ over'[v] = 0 /\ walker' # v
      BY <1>1, <1>2, <1>6, <2>1, <2>4, NobodyAssumption
    <3> QED  BY <1>2, <1>6, <2>1, <3>2, <3>3, <3>4 DEF CursorInv
  <2>7. OrderInv(v)'
    <3>1. over'[v] = 0 /\ walker' # v
      BY <1>1, <2>1, <2>4, NobodyAssumption
    <3> QED  BY <1>2, <1>4, <1>5, <1>6, <2>1, <2>5, <3>1 DEF OrderInv
  <2> QED  BY <2>2, <2>6, <2>7 DEF VoiceInv
<1>8. CASE ~again
  <2>1. y' = y + 1 /\ UNCHANGED <<ptnpos, rowno, stage, walker>>
    BY <1>1, <1>8
  <2>2. TypeOK'
    <3>1. y' \in Byte
      <4>1. y + 1 < E(v)
        BY <1>3
      <4> QED  BY <1>n, <2>1, <4>1 DEF Byte
    <3> QED  BY <1>1, <1>5, <2>1, <3>1 DEF TypeOK, orders, voiced, applied
  <2>3. CursorInv(v)'
    <3>1. Running(v)' /\ rowno[v] <= Len(Rows(v))
      BY <1>2, <1>6, <2>1 DEF Running, TypeOK
    <3> QED  BY <1>1, <1>2, <1>6, <2>1, <3>1 DEF CursorInv
  <2>4. OrderInv(v)'
    <3>1. ASSUME NoPlay(v, y + 2) PROVE NoPlay(v, y + 1)
      <4> SUFFICES ASSUME NEW k \in y + 1 .. E(v) - 1 PROVE Cmds(v)[k].op # "play"
        BY DEF NoPlay
      <4>1. k = y + 1 \/ k \in y + 2 .. E(v) - 1
        BY <1>2
      <4> QED  BY <1>3, <3>1, <4>1 DEF NoPlay
    <3>2. y' + 1 = y + 2 /\ y' < E(v) /\ y < y' /\ (seqpos[v] < y => seqpos[v] < y')
      <4>1. y + 1 < E(v)
        BY <1>3
      <4> QED  BY <1>n, <2>1, <4>1
    <3>3. NoPlay(v, y + 1)' => NoPlay(v, y + 1)
      <4>1. NoPlay(v, y + 1)' => NoPlay(v, y + 2)
        BY <1>6, <3>2 DEF NoPlay
      <4> QED  BY <3>1, <4>1
    <3>4. NoPlay(v, seqpos[v] + 2) => NoPlay(v, seqpos[v] + 2)'
      BY <1>6 DEF NoPlay
    <3>5. WalkInv(v)'
      BY <1>2, <1>6, <3>2, <3>3, <3>4 DEF WalkInv
    <3>6. over[v] # 0 => OverInv(v)'
      BY <1>1, <1>2, <1>6, <2>1, <3>2, <3>4 DEF OverInv
    <3> QED  BY <1>1, <1>2, <1>4, <1>5, <1>6, <2>1, <3>5, <3>6 DEF OrderInv
  <2> QED  BY <2>2, <2>3, <2>4 DEF VoiceInv
<1> QED  BY <1>7, <1>8

\* The row's note.
LEMMA StartNoteHolds ==
  ASSUME TypeOK, NEW v \in Voice, VoiceInv(v), StartNote(v)
  PROVE  TypeOK' /\ VoiceInv(v)' /\ over[v] = 0
<1> DEFINE r == row[v]
<1>1. /\ stage[v] = "note" /\ walker = Nobody /\ walker # v
      /\ curins' = [curins EXCEPT ![v] = IF r.inst # 0 /\ r.inst < SelInsLimit THEN r.inst ELSE @]
      /\ dpitch' = [dpitch EXCEPT ![v] =
                      IF curins'[v] # 0 /\ r.note \in 1 .. 95 THEN (r.note + transp[v]) % 256 ELSE @]
      /\ \/ mainvol' = r.fx % 16 /\ seqvolu' = r.fx % 16
         \/ UNCHANGED <<mainvol, seqvolu>>
      /\ stage' = [stage EXCEPT ![v] = "row"]
      /\ UNCHANGED <<memory, orders, cursor, transp, transp2, seqtempo, trktempo, walker, y, over>>
  BY NobodyAssumption DEF StartNote
<1>2. /\ r.note \in 0 .. 127 /\ r.inst \in 0 .. 127 /\ r.fx \in 0 .. 255 /\ transp[v] \in 0 .. 255
  BY DEF TypeOK, Row, Byte
<1>3. r.fx % 16 \in 0 .. 15 /\ (r.note + transp[v]) % 256 \in 0 .. 255
  <2> DEFINE n == r.note
             f == r.fx
             t == transp[v]
  <2>1. n \in 0 .. 127 /\ f \in 0 .. 255 /\ t \in 0 .. 255
    BY <1>2
  <2> HIDE DEF n, f, t
  <2>2. f % 16 \in 0 .. 15 /\ (n + t) % 256 \in 0 .. 255
    BY <2>1
  <2> QED  BY <2>2 DEF n, f, t
<1>4. mainvol' \in 0 .. 15 /\ seqvolu' \in 0 .. 15
  <2>1. (mainvol' = r.fx % 16 /\ seqvolu' = r.fx % 16) \/ (mainvol' = mainvol /\ seqvolu' = seqvolu)
    BY <1>1
  <2>2. mainvol \in 0 .. 15 /\ seqvolu \in 0 .. 15
    BY DEF TypeOK
  <2>3. r.fx % 16 \in 0 .. 15
    BY <1>3
  <2> QED  BY ONLY <2>1, <2>2, <2>3
<1>5. over[v] = 0
  BY <1>1 DEF VoiceInv, OrderInv, OverInv
<1>6. curins' \in [Voice -> 0 .. 127] /\ dpitch' \in [Voice -> Byte]
  <2> DEFINE n == (r.note + transp[v]) % 256
             i == r.inst
  <2>1. n \in Byte /\ i \in 0 .. 127
    BY <1>2, <1>3 DEF Byte
  <2>2. /\ curins' = [curins EXCEPT ![v] = i] \/ curins' = curins
        /\ dpitch' = [dpitch EXCEPT ![v] = n] \/ dpitch' = dpitch
    BY ZenonT(30), <1>1 DEF TypeOK
  <2> HIDE DEF n, i
  <2> QED  BY <2>1, <2>2 DEF TypeOK
<1>7. stage' \in [Voice -> {"start", "row", "step", "note"}] /\ stage'[v] = "row"
  BY <1>1 DEF TypeOK
<1>8. TypeOK'
  BY <1>1, <1>4, <1>6, <1>7 DEF TypeOK, orders, cursor
<1>9. CursorInv(v)'
  BY <1>1, <1>5, <1>7 DEF VoiceInv, CursorInv, Rows, Due, Running, memory, orders, cursor
<1>10. OrderInv(v)'
  <2>1. Here(v)'
    BY <1>1 DEF VoiceInv, OrderInv, Here, E, Cmds, memory, orders
  <2> QED  BY <1>1, <1>5, <1>7, <2>1 DEF VoiceInv, OrderInv, memory, orders
<1> QED  BY <1>5, <1>8, <1>9, <1>10 DEF VoiceInv

-----------------------------------------------------------------------------
(* Together.                                                                *)

\* A step of a voice keeps the types and that voice's invariant.
LEMMA OwnHolds ==
  ASSUME Loaded, TypeOK, NEW v \in Voice, VoiceInv(v), VoiceNext(v)
  PROVE  TypeOK' /\ VoiceInv(v)'
<1>1. CASE Start(v)
  BY <1>1, StartEffectHolds, StartPatternHolds DEF Start
<1>2. CASE ReadRow(v)
  BY <1>2, RunGoesOnHolds, RunStartsHolds, ReadColumnsHolds DEF ReadRow
<1>3. CASE RunHolds(v) \/ NextRow(v) \/ PatternEnds(v)
  BY <1>3, RunHoldsHolds, NextRowHolds, PatternEndsHolds
<1>4. CASE WalkStep(v)
  BY <1>4, WalkPatternHolds, WalkEndHolds, WalkLoopHolds, WalkSubtuneHolds, WalkEffectHolds DEF WalkStep
<1>5. CASE StartNote(v)
  BY <1>5, StartNoteHolds
<1> QED  BY <1>1, <1>2, <1>3, <1>4, <1>5 DEF VoiceNext, PatternStep

\* Before the first byte is read.
LEMMA InitHolds ==
  ASSUME SongsFit, Init
  PROVE  IInv
<1>1. Memory
  BY DEF Init, Memory
<1>2. Loaded
  BY <1>1, MemoryLoaded
<1>3. TypeOK
  BY BuildAssumption DEF Init, TypeOK, Row, Empty, Byte
<1>4. ASSUME NEW v \in Voice PROVE VoiceInv(v)
  <2>1. /\ stage[v] = "start" /\ walker = Nobody /\ walker # v /\ over[v] = 0
        /\ ptnpos[v] = 0 /\ rowno[v] = 0 /\ packcnt[v] = 0 /\ seqt[v] = 0 /\ seqpos[v] = 0
        /\ transp[v] = 0 /\ transp2[v] = 0
    BY NobodyAssumption DEF Init
  <2>2. 0 \in DOMAIN song.orders
    BY <1>2 DEF Loaded
  <2>3. \E k \in 1 .. E(v) - 1 : Cmds(v)[k].op = "play"
    BY <1>2, <2>1, <2>2, StartsWithPlay DEF E, Cmds
  <2>4. ~NoPlay(v, seqpos[v] + 1)
    BY <2>1, <2>3 DEF NoPlay
  <2> QED  BY <2>1, <2>2, <2>4 DEF VoiceInv, CursorInv, OrderInv, Shifts
<1> QED  BY <1>1, <1>3, <1>4 DEF IInv

\* Every step keeps the invariant.
LEMMA NextHolds ==
  ASSUME SongsFit, IInv, [Next]_vars
  PROVE  IInv'
<1>1. TypeOK /\ Memory /\ Loaded /\ \A v \in Voice : VoiceInv(v)
  BY MemoryLoaded DEF IInv
<1>2. CASE Next
  <2>1. PICK v \in Voice : VoiceNext(v)
    BY <1>2 DEF Next, VoiceNext
  <2>2. TypeOK' /\ VoiceInv(v)'
    BY <1>1, <2>1, OwnHolds
  <2>3. walker \in {v, Nobody} /\ walker' \in {v, Nobody} /\ UNCHANGED memory
    BY <2>1, OwnTurn
  <2>4. Memory'
    BY <1>1, <2>3 DEF Memory, memory, Stream, Orderlist
  <2>5. ASSUME NEW u \in Voice, u # v PROVE VoiceInv(u)'
    <3>1. UNCHANGED Cells(u)
      BY <1>1, <2>1, <2>5, OthersKept
    <3>2. walker # u /\ walker' # u
      BY <2>3, <2>5, NobodyAssumption
    <3> QED  BY <1>1, <2>3, <3>1, <3>2, OthersHold
  <2> QED  BY <2>2, <2>4, <2>5 DEF IInv
<1>3. CASE UNCHANGED vars
  <2>1. UNCHANGED memory /\ TypeOK'
    BY <1>1, <1>3 DEF vars, TypeOK, orders, cursor, voiced, delayed, applied, control
  <2>2. Memory'
    BY <1>1, <2>1 DEF Memory, memory, Stream, Orderlist
  <2>3. ASSUME NEW v \in Voice PROVE VoiceInv(v)'
    <3>1. VoiceInv(v)
      BY <1>1
    <3>2. CursorInv(v)'
      BY <1>3, <3>1 DEF vars, memory, orders, cursor, control, VoiceInv, CursorInv, Rows, Due, Running
    <3>3. OrderInv(v)'
      BY <1>3, <3>1 DEF vars, memory, orders, control, delayed, applied,
                        VoiceInv, OrderInv, WalkInv, OverInv, Here, NoPlay, AtEnd, Cmds, E
    <3> QED  BY <3>2, <3>3 DEF VoiceInv
  <2> QED  BY <2>1, <2>2, <2>3 DEF IInv
<1> QED  BY <1>2, <1>3

\* The invariant holds in every state.
LEMMA InvariantHolds ==
  ASSUME SongsFit
  PROVE  Spec => []IInv
<1>1. Init => IInv
  BY InitHolds
<1>2. IInv /\ [Next]_vars => IInv'
  BY NextHolds
<1> QED  BY <1>1, <1>2, PTL DEF Spec

\* Every cell keeps its width: no position, transpose, pitch, run or tempo is
\* more than its byte can hold.
THEOREM CellsKeepWidth ==
  ASSUME SongsFit
  PROVE  Spec => []TypeOK
<1>1. IInv => TypeOK
  BY DEF IInv
<1> QED  BY <1>1, InvariantHolds, PTL

\* A row is read from inside its pattern, its note byte and every byte that its
\* columns announce.
LEMMA RowInside ==
  ASSUME SongsFit, IInv
  PROVE  StaysInside
<1> SUFFICES ASSUME NEW v \in Voice, stage[v] = "row", packcnt[v] = 0
             PROVE  LET p == ptnpos[v]
                        end == Len(ptn[curptn[v]]) - 1
                    IN  /\ p < end
                        /\ PatternByte(v, p) >= 128 => p + 1 < end
                        /\ p + Reach(v) < end
  BY DEF StaysInside
<1> DEFINE st == ptn[curptn[v]]
           q == ptnpos[v]
           k == rowno[v]
           r == Rows(v)[k + 1]
           n == RowLen(r)
           l == Len(st)
<1>1. curptn[v] \in DOMAIN song.rows /\ Due(v)
  BY DEF IInv, VoiceInv, CursorInv
<1>2. Stored(Rows(v), st)
  BY <1>1, MemoryLoaded DEF IInv, Loaded, Rows
<1>3. q \in 0 .. 255 /\ k \in Nat
  BY DEF IInv, TypeOK, Byte
<1>4. st \in Bytes /\ l \in Nat
  BY <1>2, OffNext, CarriesStart DEF Stored, Bytes
<1>5. r \in Row /\ n \in 1 .. 4 /\ AtRow(Rows(v), st, q, k)
  BY <1>1, <1>2, <1>3, NextOff DEF Due, AtRow
<1>6. PatternByte(v, q) = st[q + 1]
  BY DEF PatternByte
<1> HIDE DEF st, q, k, r, n
<1>7. \/ q + 1 < l /\ \E m \in 1 .. 8 : st[q + 1] = PackedMin + m - 1
      \/ Columns(st, q + 1) = n /\ q + n < l
  <2>1. q \in Nat
    BY <1>3
  <2> QED  BY <1>2, <1>3, <1>5, <2>1, RowIsRead DEF r, n
<1>8. CASE q + 1 < l /\ \E m \in 1 .. 8 : st[q + 1] = PackedMin + m - 1
  <2>1. st[q + 1] \in 112 .. 119
    BY <1>8 DEF PackedMin
  <2>2. ~(st[q + 1] >= 128) /\ st[q + 1] < 128
    BY <2>1
  <2>3. Reach(v) = 0
    BY <1>6, <2>2 DEF Reach, q
  <2>4. q < l - 1 /\ q + 0 < l - 1
    BY <1>3, <1>4, <1>8
  <2> QED  BY <1>6, <2>2, <2>3, <2>4 DEF q, st
<1>9. CASE Columns(st, q + 1) = n /\ q + n < l
  <2>1. q < l - 1 /\ q + (n - 1) < l - 1 /\ (n >= 2 => q + 1 < l - 1)
    BY <1>3, <1>4, <1>5, <1>9
  <2>2. Reach(v) = n - 1
    <3>1. n >= 3 => st[q + 3] \in 0 .. 255
      <4> SUFFICES ASSUME n >= 3 PROVE st[q + 3] \in 0 .. 255
        OBVIOUS
      <4>1. q + 3 \in 1 .. l
        BY <1>3, <1>4, <1>5, <1>9
      <4> HIDE DEF l
      <4>2. l = Len(st)
        BY DEF l
      <4> QED  BY <1>4, <4>1, <4>2, ByteAt
    <3>2. ptnpos[v] \in Nat
      BY <1>3 DEF q
    <3> QED  BY <1>9, <3>1, <3>2, ReachIsColumns DEF q, st
  <2>3. st[q + 1] >= 128 => n >= 2
    <3> SUFFICES ASSUME st[q + 1] >= 128 PROVE n >= 2
      OBVIOUS
    <3>1. st[q + 1] \in 0 .. 255
      <4>1. q + 1 \in 1 .. Len(st)
        BY <1>3, <1>4, <1>5, <1>9
      <4> QED  BY <1>4, <4>1, ByteAt
    <3>2. ~(st[q + 1] < 128)
      BY <3>1
    <3>3. Columns(st, q + 1) \in 2 .. 4
      BY <3>2 DEF Columns
    <3> QED  BY <1>9, <3>3
  <2> QED  BY <1>6, <2>1, <2>2, <2>3 DEF q, st
<1> QED  BY <1>7, <1>8, <1>9

\* No row reads past its pattern, in any song that is stored as it is written.
THEOREM ReaderStaysInside ==
  ASSUME SongsFit
  PROVE  Spec => []StaysInside
<1>1. IInv => StaysInside
  BY RowInside
<1> QED  BY <1>1, InvariantHolds, PTL
=============================================================================
