------------------------------- MODULE Score -------------------------------
(***************************************************************************)
(* What a song says, as its model states it (model.py): a voice plays the    *)
(* commands of its orderlist in turn; a PlayPattern plays its rows in turn;  *)
(* a transpose shifts the rows of the patterns after it; a volume and a      *)
(* tempo take effect with the next row; a Loop and a SubtuneJump go on where *)
(* they say.  A row is heard when it is read and sung when its note starts.  *)
(* Voices share nothing but the song and the volume, and no clock.          *)
(***************************************************************************)
EXTENDS Integers, Sequences

CONSTANTS
  Voice,          \* the voices
  Songs,          \* [rows: pattern -> rows, orders: subtune -> voice -> commands]
  InsLimit,       \* instrument columns below it select an instrument
  FullVolume,     \* the volume a song starts with
  MuteEffects     \* a voice without an instrument runs no effects

VARIABLES
  song,    \* the song
  at,      \* per voice: subtune, command, and rows of its pattern read
  heard,   \* per voice: the row last read
  sung,    \* per voice: its note has started
  shift,   \* per voice: transpose of the patterns to come
  key,     \* per voice: transpose of the row heard
  pace,    \* per voice: track tempo of the orderlist, due with the next row
  tempo,   \* per voice: the last track tempo in effect
  instr,   \* per voice: instrument
  pitch,   \* per voice: the note that sounds
  level,   \* volume, due with the next row of any voice
  volume   \* volume in effect

vars == <<song, at, heard, sung, shift, key, pace, tempo, instr, pitch, level, volume>>

None == [note |-> 0, inst |-> 0, fx |-> 0, value |-> 0]

Init ==
  /\ song \in Songs
  /\ at = [v \in Voice |-> [sub |-> 0, cmd |-> 1, row |-> 0]]
  /\ heard = [v \in Voice |-> None]
  /\ sung = [v \in Voice |-> TRUE]
  /\ shift = [v \in Voice |-> 0]
  /\ key = [v \in Voice |-> 0]
  /\ pace = [v \in Voice |-> 0]
  /\ tempo = [v \in Voice |-> 0]
  /\ instr = [v \in Voice |-> 0]
  /\ pitch = [v \in Voice |-> 0]
  /\ level = FullVolume
  /\ volume = FullVolume

Command(v) == song.orders[at[v].sub][v][at[v].cmd]
PatternRows(v) == song.rows[Command(v).arg]

GoTo(v, sub, cmd) == at' = [at EXCEPT ![v] = [sub |-> sub, cmd |-> cmd, row |-> 0]]
Past(v) == GoTo(v, at[v].sub, at[v].cmd + 1)

-----------------------------------------------------------------------------
\* The next row of the pattern: its notes are those of the transpose in force.
Read(v) ==
  /\ sung[v]
  /\ Command(v).op = "play"
  /\ at[v].row < Len(PatternRows(v))
  /\ at' = [at EXCEPT ![v].row = @ + 1]
  /\ heard' = [heard EXCEPT ![v] = PatternRows(v)[at[v].row + 1]]
  /\ sung' = [sung EXCEPT ![v] = FALSE]
  /\ key' = [key EXCEPT ![v] = shift[v]]
  /\ tempo' = [tempo EXCEPT ![v] = IF pace[v] = 0 THEN @ ELSE pace[v]]
  /\ pace' = [pace EXCEPT ![v] = 0]
  /\ volume' = level
  /\ UNCHANGED <<song, shift, instr, pitch, level>>

\* The row's instrument and note, and the volume its effect sets.
Sing(v) ==
  LET r == heard[v]
      effects == r.fx \in 160 .. 175 /\ (instr'[v] # 0 \/ ~MuteEffects)
  IN  /\ ~sung[v]
      /\ sung' = [sung EXCEPT ![v] = TRUE]
      /\ instr' = [instr EXCEPT ![v] = IF r.inst \in 1 .. InsLimit - 1 THEN r.inst ELSE @]
      /\ pitch' = [pitch EXCEPT ![v] =
                     IF instr'[v] # 0 /\ r.note \in 1 .. 95 THEN r.note + key[v] ELSE @]
      /\ level' = IF effects THEN r.fx - 160 ELSE level
      /\ volume' = IF effects THEN r.fx - 160 ELSE volume
      /\ UNCHANGED <<song, at, heard, shift, key, pace, tempo>>

-----------------------------------------------------------------------------
(* Between patterns: the last pattern is over, or another command is passed. *)

PatternOver(v) ==
  /\ Command(v).op = "play"
  /\ at[v].row = Len(PatternRows(v))
  /\ Past(v)
  /\ UNCHANGED <<song, heard, sung, shift, key, pace, tempo, instr, pitch, level, volume>>

Transpose(v) ==
  /\ Command(v).op = "transpose"
  /\ shift' = [shift EXCEPT ![v] = Command(v).arg]
  /\ Past(v)
  /\ UNCHANGED <<song, heard, sung, key, pace, tempo, instr, pitch, level, volume>>

MainVolume(v) ==
  /\ Command(v).op = "volume"
  /\ level' = Command(v).arg
  /\ Past(v)
  /\ UNCHANGED <<song, heard, sung, shift, key, pace, tempo, instr, pitch, volume>>

TempoOverride(v) ==
  /\ Command(v).op = "tempo"
  /\ pace' = [pace EXCEPT ![v] = Command(v).arg]
  /\ Past(v)
  /\ UNCHANGED <<song, heard, sung, shift, key, tempo, instr, pitch, level, volume>>

NoOp(v) ==
  /\ Command(v).op = "raw"
  /\ Past(v)
  /\ UNCHANGED <<song, heard, sung, shift, key, pace, tempo, instr, pitch, level, volume>>

Loop(v) ==
  /\ Command(v).op = "loop"
  /\ GoTo(v, at[v].sub, Command(v).arg + 1)
  /\ UNCHANGED <<song, heard, sung, shift, key, pace, tempo, instr, pitch, level, volume>>

SubtuneJump(v) ==
  /\ Command(v).op = "jump"
  /\ GoTo(v, Command(v).arg % 32, 1)
  /\ UNCHANGED <<song, heard, sung, shift, key, pace, tempo, instr, pitch, level, volume>>

\* The track is over: what it still held is dropped, a row not yet sung too.
End(v) ==
  /\ Command(v).op = "end"
  /\ heard' = [heard EXCEPT ![v] = None]
  /\ sung' = [sung EXCEPT ![v] = TRUE]
  /\ shift' = [shift EXCEPT ![v] = 0]
  /\ key' = [key EXCEPT ![v] = 0]
  /\ pace' = [pace EXCEPT ![v] = 0]
  /\ UNCHANGED <<song, at, tempo, instr, pitch, level, volume>>

Next ==
  \E v \in Voice :
    \/ Read(v) \/ Sing(v) \/ PatternOver(v)
    \/ Transpose(v) \/ MainVolume(v) \/ TempoOverride(v) \/ NoOp(v)
    \/ Loop(v) \/ SubtuneJump(v) \/ End(v)

Spec == Init /\ [][Next]_vars
=============================================================================
