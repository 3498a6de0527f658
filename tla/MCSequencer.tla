---------------------------- MODULE MCSequencer ----------------------------
(***************************************************************************)
(* Songs for Sequencer: one voice plays the song under test, the other a     *)
(* short one with a volume of its own.                                      *)
(***************************************************************************)
EXTENDS Sequencer, FiniteSetsExt

CONSTANTS v1, v2

R(note, inst, fx, value) == [note |-> note, inst |-> inst, fx |-> fx, value |-> value]
None(k) == [i \in 1 .. k |-> Empty]

Note == R(5, 0, 0, 0)
First == R(90, 2, 0, 0)
Volume == R(0, 0, 163, 0)
Big == R(5, 63, 1, 0)
Loud == R(126, 127, 255, 0)
AnyRow == {Empty, Note, First, Volume, Big, Loud}

Song(rows, one, two) ==
  [rows |-> rows, orders |-> (0 :> (v1 :> one @@ v2 :> two)) @@
                             (1 :> (v1 :> <<Cmd("transpose", 5), Cmd("play", 1), Cmd("end", 0)>> @@
                                    v2 :> <<Cmd("play", 1), Cmd("loop", 0)>>))]

-----------------------------------------------------------------------------
(* Rows of every kind in every order, and runs about the limits of packing.  *)

\* The sequences of one or two members of S and those of three members of T.
UpToThree(S, T) == {<<a>> : a \in S} \cup (S \X S) \cup (T \X T \X T)

ShortPatterns == UpToThree(AnyRow, {Empty, Note, First, Big})
LongRuns == {<<a>> \o None(k) \o <<Note>> : a \in {Empty, First, Big}, k \in {8, 9, 10, 11, 18, 19, 20}}

RowSongs ==
  {Song(1 :> p @@ 2 :> <<First>>,
        <<Cmd("play", 1), Cmd("loop", 0)>>, <<Cmd("play", 2), Cmd("end", 0)>>)
     : p \in ShortPatterns \cup LongRuns}

-----------------------------------------------------------------------------
(* Orderlists of up to three commands in every order.                       *)

SomeCommand == {Cmd("play", 1), Cmd("play", 2), Cmd("transpose", -7), Cmd("volume", 4)}
AnyCommand == SomeCommand \cup {Cmd("tempo", 6), Cmd("raw", 245)}
Orders == UpToThree(AnyCommand, SomeCommand)

\* The position of the last command of a kind, 0 if there is none.
LastOf(s, op) == Max({0} \cup {k \in DOMAIN s : s[k].op = op})
LastPlay(s) == LastOf(s, "play")

\* An effect before $FF, and a volume before $FE, are left to runs of their own.
Terminators(s) ==
  (IF LastOf(s, "volume") > LastPlay(s) THEN {} ELSE {Cmd("end", 0)})
  \cup (IF LastPlay(s) < Len(s) THEN {}
        ELSE {Cmd("jump", 129)} \cup {Cmd("loop", k) : k \in 0 .. Len(s) - 1})

OrderSongs ==
  {Song(1 :> <<First>> @@ 2 :> <<Note, Volume>>, s,
        <<Cmd("volume", 9), Cmd("play", 2), Cmd("loop", 1)>>)
     : s \in UNION {{Append(o, e) : e \in Terminators(o)} : o \in {o \in Orders : LastPlay(o) > 0}}}

AllSongs == RowSongs \cup OrderSongs

\* What the theorems suppose of a song is true of every one of these.
ASSUME SongsPlain == \A s \in AllSongs : Plain(s) /\ Fits(s) /\ AsWritten(s)

-----------------------------------------------------------------------------
(* Songs the player does not play as they are written.                      *)

\* An effect between the last pattern and a loop.
TrailingEffect ==
  {Song(1 :> <<First>> @@ 2 :> <<Note, Volume>>,
        <<Cmd("play", 1), Cmd("play", 2), Cmd("transpose", -7), Cmd("loop", 0)>>,
        <<Cmd("play", 1), Cmd("loop", 0)>>)}
=============================================================================
