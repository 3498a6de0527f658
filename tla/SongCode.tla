------------------------------ MODULE SongCode ------------------------------
(***************************************************************************)
(* How a song is stored.  The model (model.py) holds a pattern as rows of    *)
(* columns and an orderlist as commands; the writer stores both as bytes,    *)
(* runs of empty rows packed, and the parser reads them back.               *)
(*                                                                          *)
(* A column that is None is 0 here: no row distinguishes the two.  Rows are  *)
(* those Row.encode accepts: instruments 0 .. 127, effects 0 .. 255, a value *)
(* with an effect below 32 and with no other.                               *)
(***************************************************************************)
EXTENDS Integers, Sequences, SequencesExt

Row == [note: 0 .. 127, inst: 0 .. 127, fx: 0 .. 255, value: 0 .. 255]
Empty == [note |-> 0, inst |-> 0, fx |-> 0, value |-> 0]

Ops == {"play", "transpose", "volume", "tempo", "raw", "end", "loop", "jump"}
Command == [op: Ops, arg: -16 .. 255]

PackedMin == 112  \* $70
PackedMax == 119  \* $77
Marker == PackedMin .. PackedMax

-----------------------------------------------------------------------------
(* Rows.                                                                    *)

\* The byte with bit 7 set if another column follows it.
Flag(b, more) == IF more THEN b + 128 ELSE b

EncodeRow(r) ==
  LET hasFx == r.fx # 0
      hasInst == r.inst # 0 \/ hasFx
  IN  <<Flag(r.note, hasInst)>>
      \o (IF hasInst THEN <<Flag(r.inst, hasFx)>> ELSE <<>>)
      \o (IF hasFx THEN <<r.fx>> ELSE <<>>)
      \o (IF hasFx /\ r.fx < 32 THEN <<r.value>> ELSE <<>>)

EncodeRows(rows) == FlattenSeq([k \in DOMAIN rows |-> EncodeRow(rows[k])])

\* The columns of the row whose note byte is at index i, and how many there are.
Columns(b, i) ==
  1 + (IF b[i] < 128 THEN 0 ELSE
       1 + (IF b[i + 1] < 128 THEN 0 ELSE IF b[i + 2] < 32 THEN 2 ELSE 1))

DecodeRow(b, i) ==
  LET n == Columns(b, i)
  IN  [note  |-> b[i] % 128,
       inst  |-> IF n >= 2 THEN b[i + 1] % 128 ELSE 0,
       fx    |-> IF n >= 3 THEN b[i + 2] ELSE 0,
       value |-> IF n = 4 THEN b[i + 3] ELSE 0]

DecodeRows(b) ==
  LET From[i \in 1 .. Len(b) + 4] ==
        IF i > Len(b) THEN <<>> ELSE <<DecodeRow(b, i)>> \o From[i + Columns(b, i)]
  IN  From[1]

\* A row the parser finds again: a value has an effect that takes one, and a
\* lone note is none of the bytes a run is written with.
TakesValue(r) == r.fx \in 1 .. 31 \/ r.value = 0
PlainRow(r) ==
  /\ TakesValue(r)
  /\ r.inst # 0 \/ r.fx # 0 \/ r.note \notin Marker

\* Bytes that packing leaves apart from runs: no marker behind a zero or another.
NoFalseRun(b) == \A i \in 2 .. Len(b) : b[i] \in Marker => b[i - 1] \notin Marker \cup {0}

-----------------------------------------------------------------------------
(* Packing: a zero stands for itself, and up to nine zeros after a zero for  *)
(* one byte.                                                                *)

Zeros(b, i, k) == i + k - 1 <= Len(b) /\ \A j \in i .. i + k - 1 : b[j] = 0

\* Packing with runs of at most `most` zeros.
PackRuns(b, most) ==
  LET From[i \in 1 .. Len(b) + 1] ==
        IF i > Len(b) THEN <<>>
        ELSE IF b[i] # 0 \/ i = 1 \/ b[i - 1] # 0 THEN <<b[i]>> \o From[i + 1]
        ELSE LET k == CHOOSE k \in 1 .. most :
                        Zeros(b, i, k) /\ (k = most \/ ~Zeros(b, i, k + 1))
             IN  <<IF k = 1 THEN 0 ELSE PackedMin + k - 2>> \o From[i + k]
  IN  From[1]

\* Mutant: a run of ten, one past the last marker.
PackTen(b) == PackRuns(b, 10)
Pack(b) == PackRuns(b, 9)

\* A marker counts only after a zero or another marker.
Unpack(p) ==
  LET Upto[i \in 0 .. Len(p)] ==
        IF i = 0 THEN <<>>
        ELSE LET out == Upto[i - 1]
             IN  IF p[i] \in Marker /\ out # <<>> /\ Last(out) \in Marker \cup {0}
                   THEN out \o [k \in 1 .. p[i] - PackedMin + 2 |-> 0]
                   ELSE Append(out, p[i])
  IN  Upto[Len(p)]

-----------------------------------------------------------------------------
(* Orderlists.                                                              *)

EncodeCommand(c) ==
  CASE c.op \in {"play", "raw"} -> <<c.arg>>
    [] c.op = "transpose" -> <<144 + c.arg>>
    [] c.op = "volume" -> <<160 + c.arg>>
    [] c.op = "tempo" -> <<176 + c.arg>>
    [] c.op = "end" -> <<254>>
    [] c.op \in {"loop", "jump"} -> <<255, c.arg>>

EncodeSequence(cmds) == FlattenSeq([k \in DOMAIN cmds |-> EncodeCommand(cmds[k])])

\* A command the parser finds again: its argument is one that its byte can hold.
PlainCommand(c) ==
  c.arg \in CASE c.op = "play" -> 0 .. 127
              [] c.op = "transpose" -> -16 .. 15
              [] c.op = "volume" -> 0 .. 15
              [] c.op = "tempo" -> 0 .. 63
              [] c.op = "raw" -> 240 .. 253
              [] c.op = "end" -> {0}
              [] c.op = "loop" -> 0 .. 127
              [] c.op = "jump" -> 128 .. 255

Cmd(op, arg) == [op |-> op, arg |-> arg]

DecodeSequence(b) ==
  LET From[i \in 1 .. Len(b) + 2] ==
        IF i > Len(b) THEN <<>>
        ELSE LET a == b[i]
             IN  IF a = 255 /\ i < Len(b)
                   THEN <<Cmd(IF b[i + 1] >= 128 THEN "jump" ELSE "loop", b[i + 1])>> \o From[i + 2]
                   ELSE <<CASE a < 128 -> Cmd("play", a)
                            [] a \in 128 .. 159 -> Cmd("transpose", a - 144)
                            [] a \in 160 .. 175 -> Cmd("volume", a % 16)
                            [] a \in 176 .. 239 -> Cmd("tempo", a - 176)
                            [] a = 254 -> Cmd("end", 0)
                            [] OTHER -> Cmd("raw", a)>> \o From[i + 1]
  IN  From[1]
=============================================================================
