----------------------------- MODULE TempoClock -----------------------------
(***************************************************************************)
(* The tick clock of the play call (specs/sidwizard.play, machine voice).   *)
(* Every play call lets the voices take their turn, the last voice first.   *)
(* A voice's turn compares its tick counter with a byte of the tempo        *)
(* program and then, by the tick, reads a pattern row (tick 0), steps the   *)
(* pattern (tick 1), starts the row's note and runs its effect (tick 2) or  *)
(* only runs the instrument.  The tempo table is shared: an effect one      *)
(* voice runs in its turn moves the clock of voices that have played in     *)
(* this call and of voices that have not.                                   *)
(*                                                                          *)
(* The song is the environment: which effect a row holds, when a pattern    *)
(* ends and when a track does are nondeterministic choices.  The builds     *)
(* modelled are those with tempo programs (TEMPOPRGSUPP).                   *)
(***************************************************************************)
EXTENDS Integers

CONSTANTS
  Chn,            \* number of voices
  TableSize,      \* tempo-table positions: 256 in the player
  Tables,         \* tempo tables a subtune may start with
  TmpP,           \* tempo-program pointers: program number -> position
  RowFx,          \* <<effect, value>> pairs the song's rows may hold
  OrderTempo,     \* track tempos the song's orderlists may set
  FastSpeedBind,  \* build flag FASTSPEEDBIND
  DelaySupport    \* build flag DELAYSUPPORT

Byte  == 0 .. 255
Voice == 0 .. Chn - 1
Slot  == 0 .. TableSize - 1

\* The effects of a row that reach the clock, by their numbers in the row.
NoFx == 0
MainTempo == 16       \* $10
Funktempo == 17       \* $11
Program == 18         \* $12
TrackTempo == 19      \* $13
TrackFunktempo == 20  \* $14
TrackProgram == 21    \* $15
TrackDelay == 29      \* $1D
NoteDelay == 30       \* $1E
ClockFx == {NoFx, TrackDelay, NoteDelay} \cup MainTempo .. TrackProgram

\* The position of a voice's own two tempo bytes, past the subtune's two.
TrkTmpPos(v) == 2 + 2 * v

ASSUME ChnAssumption == Chn \in Nat \ {0}
ASSUME TableAssumption ==
  /\ TableSize \in Nat
  /\ TableSize >= 3 + 2 * Chn
  /\ Tables \subseteq [Slot -> Byte]
ASSUME SongAssumption ==
  /\ RowFx \subseteq ClockFx \X Byte
  /\ OrderTempo \subseteq 0 .. 77
  /\ \A f \in RowFx :
        f[1] \in {Program, TrackProgram} /\ f[2] # 0 => TmpP[f[2]] \in Slot
ASSUME BuildAssumption == FastSpeedBind \in BOOLEAN /\ DelaySupport \in BOOLEAN

VARIABLES
  tempotbl,  \* the tempo table, entry p + 1 the byte of position p
  spdcnt,    \* per voice: the tick counter
  tmppos,    \* per voice: position in the tempo program
  tmpbase,   \* per voice: where the tempo program restarts
  seqtempo,  \* per voice: the orderlist's track tempo, due at the next row
  trdelay,   \* per voice: the track delay counter, $FF when idle
  fx,        \* per voice: the effect of the row last read
  ended,     \* per voice: the orderlist stands before its $FE
  owed,      \* per voice: what the row last read still waits for (history)
  turn,      \* the voice whose turn it is
  stage      \* the handler its turn has come to

clock == <<tempotbl, spdcnt, tmppos, tmpbase, trdelay>>
song  == <<seqtempo, fx, ended, owed>>
vars  == <<clock, song, turn, stage>>

\* Every counter, position and store of the clock keeps its width.
TypeOK ==
  /\ tempotbl \in [Slot -> Byte]
  /\ spdcnt \in [Voice -> Byte]
  /\ tmppos \in [Voice -> Slot]
  /\ tmpbase \in [Voice -> Slot]
  /\ seqtempo \in [Voice -> 0 .. 77]
  /\ trdelay \in [Voice -> Byte]
  /\ fx \in [Voice -> RowFx \cup {<<NoFx, 0>>}]
  /\ ended \in [Voice -> BOOLEAN]
  /\ owed \in [Voice -> SUBSET {"step", "note"}]
  /\ turn \in Voice
  /\ stage \in {"frame", "row", "step", "note"}

-----------------------------------------------------------------------------
(* Byte arithmetic, and the compare against the tempo program.              *)

Neg(b) == b >= 128
\* Mutant: the end flag is lost.
FlagLost(b) == b % 128
Flagged(b) == 128 + (b % 128)
NextSlot(p) == IF p = TableSize - 1 THEN 0 ELSE p + 1

Tempo(v) == tempotbl[NextSlot(tmppos[v])]
\* Mutant: the end flag is masked off before the compare.
DiffMasked(v) == (spdcnt[v] - (Tempo(v) % 128)) % 256
Diff(v) == (spdcnt[v] - Tempo(v)) % 256
Overflow(v) == Neg(spdcnt[v]) # Neg(Tempo(v)) /\ Neg(spdcnt[v]) # Neg(Diff(v))
Due(v) == Diff(v) = 0 \/ Overflow(v)

-----------------------------------------------------------------------------
(* Turns.  The voices play from the last to the first.                      *)

EndTurn ==
  /\ stage' = "frame"
  /\ turn' = IF turn = 0 THEN Chn - 1 ELSE turn - 1

GoOn(next) == stage' = next /\ turn' = turn

\* Mutants: a handler falls through to the next; no tick is bound; the
\* comparison is off by one.
FallThrough(next, limit) == GoOn(next)
NeverBound(next, limit) == EndTurn
BoundLate(next, limit) ==
  IF FastSpeedBind /\ tempotbl'[NextSlot(tmppos'[turn])] % 128 <= limit
    THEN GoOn(next)
    ELSE EndTurn

\* With the fast speed bind the ticks of a row shorter than `limit` share a
\* call: the next handler follows at once.
BindTo(next, limit) ==
  IF FastSpeedBind /\ tempotbl'[NextSlot(tmppos'[turn])] % 128 < limit
    THEN GoOn(next)
    ELSE EndTurn

Init ==
  /\ tempotbl \in Tables
  /\ spdcnt = [v \in Voice |-> 0]
  /\ tmppos = [v \in Voice |-> 0]
  /\ tmpbase = [v \in Voice |-> 0]
  /\ seqtempo = [v \in Voice |-> 0]
  /\ trdelay = [v \in Voice |-> 255]
  /\ fx = [v \in Voice |-> <<NoFx, 0>>]
  /\ ended = [v \in Voice |-> FALSE]
  /\ owed = [v \in Voice |-> {}]
  /\ turn = Chn - 1
  /\ stage = "frame"

-----------------------------------------------------------------------------
(* The turn's first part: the clock against the tempo program.              *)

Frame ==
  LET v == turn
      wrap == Due(v) \/ spdcnt[v] = 0
  IN  /\ stage = "frame"
      /\ tmppos' = [tmppos EXCEPT ![v] = IF Diff(v) = 0 THEN NextSlot(@)
                                         ELSE IF Due(v) THEN tmpbase[v] ELSE @]
      /\ spdcnt' = [spdcnt EXCEPT ![v] = IF wrap THEN 1 ELSE (@ + 1) % 256]
      /\ \/ wrap /\ GoOn("row")
         \/ ~wrap /\ (spdcnt[v] = 1 \/ Neg(spdcnt[v])) /\ GoOn("step")
         \/ ~wrap /\ spdcnt[v] = 2 /\ GoOn("note")
         \/ ~wrap /\ spdcnt[v] \in 3 .. 127 /\ EndTurn
      /\ UNCHANGED <<tempotbl, tmpbase, trdelay, song>>

-----------------------------------------------------------------------------
(* Tempo stores.                                                            *)

\* The voice's own tempo program from p.
OwnProgram(v, p) ==
  /\ tmppos' = [tmppos EXCEPT ![v] = p]
  /\ tmpbase' = [tmpbase EXCEPT ![v] = p]

\* Mutant: only the voice whose effect it is.
OneTempo(p) == OwnProgram(turn, p)

\* Mutant: the programs restart where they did before.
BaseKept(p) ==
  /\ tmppos' = [v \in Voice |-> p]
  /\ UNCHANGED tmpbase

\* Every voice's tempo program from p.
AllTempo(p) ==
  /\ tmppos' = [v \in Voice |-> p]
  /\ tmpbase' = [v \in Voice |-> p]

OwnTempo(v, a) ==
  /\ tempotbl' = [tempotbl EXCEPT ![TrkTmpPos(v) + 1] = a]
  /\ OwnProgram(v, TrkTmpPos(v))

-----------------------------------------------------------------------------
(* Tick 0: the orderlist's track tempo takes effect and a row is read.      *)

ReadRow ==
  /\ stage = "row"
  /\ IF seqtempo[turn] # 0
       THEN OwnTempo(turn, Flagged(seqtempo[turn]))
       ELSE UNCHANGED <<tempotbl, tmppos, tmpbase>>
  /\ seqtempo' = [seqtempo EXCEPT ![turn] = 0]
  /\ \E f \in RowFx \cup {<<NoFx, 0>>} : fx' = [fx EXCEPT ![turn] = f]
  /\ owed' = [owed EXCEPT ![turn] = {"step", "note"}]
  /\ ended' = [ended EXCEPT ![turn] = FALSE]
  /\ BindTo("step", 2)
  /\ UNCHANGED <<spdcnt, trdelay>>

-----------------------------------------------------------------------------
(* Tick 1: the pattern goes on, or the orderlist does, or the track ends.   *)

\* Mutant: the orderlist byte is kept without its base.
OrderEffectsRaw ==
  \E t \in OrderTempo : seqtempo' = [seqtempo EXCEPT ![turn] = 176 + t]

\* What the orderlist passes on its way may set the track tempo.
OrderEffects ==
  \/ UNCHANGED seqtempo
  \/ \E t \in OrderTempo : seqtempo' = [seqtempo EXCEPT ![turn] = t]

PatternGoesOn ==
  /\ stage = "step"
  /\ ~ended[turn]
  /\ OrderEffects
  /\ owed' = [owed EXCEPT ![turn] = @ \ {"step"}]
  /\ UNCHANGED <<clock, fx, ended>>
  /\ BindTo("note", 3)

\* Mutant: the counter runs on.
RunOn(v) == spdcnt' = spdcnt

TakeBack(v) == spdcnt' = [spdcnt EXCEPT ![v] = (@ - 1) % 256]

\* $FE: the counter is taken back, so the next call comes here again.
TrackEnds ==
  /\ stage = "step"
  /\ TakeBack(turn)
  /\ ended' = [ended EXCEPT ![turn] = TRUE]
  /\ OrderEffects
  /\ EndTurn
  /\ UNCHANGED <<tempotbl, tmppos, tmpbase, trdelay, fx, owed>>

-----------------------------------------------------------------------------
(* Tick 2: the row's note starts and its effect runs.                       *)

\* Mutant: a hold is not counted.
HoldOn(v, a) ==
  /\ trdelay' = [trdelay EXCEPT ![v] = IF @ = 255 THEN a ELSE @]
  /\ spdcnt' = [spdcnt EXCEPT ![v] = 2]

\* The delay counter: the first hold loads it, each hold takes the tick
\* counter back to 2, so the next call is tick 2 again.
Hold(v, a) ==
  /\ trdelay' = [trdelay EXCEPT ![v] = ((IF @ = 255 THEN a ELSE @) - 1) % 256]
  /\ spdcnt' = IF trdelay[v] = 0 THEN spdcnt ELSE [spdcnt EXCEPT ![v] = 2]

\* Mutants: the held calls are not caught up with, or one too many is.
CatchNothing(v, a) ==
  trdelay' = [trdelay EXCEPT ![v] = 255] /\ spdcnt' = spdcnt
CatchOneMore(v, a) ==
  trdelay' = [trdelay EXCEPT ![v] = 255] /\ spdcnt' = [spdcnt EXCEPT ![v] = (@ + a + 1) % 256]

\* A note delay that has run out catches up with the calls it held.
CatchUp(v, a) ==
  /\ trdelay' = [trdelay EXCEPT ![v] = 255]
  /\ spdcnt' = [spdcnt EXCEPT ![v] = (@ + a) % 256]

\* Mutant: the voices' counters start over with the tempo.
SetMainTempoAnew(a) ==
  /\ tempotbl' = [tempotbl EXCEPT ![1] = Flagged(a)]
  /\ AllTempo(0)
  /\ spdcnt' = [v \in Voice |-> 0]
  /\ UNCHANGED trdelay

SetMainTempo(a) ==
  /\ tempotbl' = [tempotbl EXCEPT ![1] = Flagged(a)]
  /\ AllTempo(0)
  /\ UNCHANGED <<spdcnt, trdelay>>

SetFunktempo(a) ==
  /\ tempotbl' = [tempotbl EXCEPT ![1] = a \div 16, ![2] = 128 + (a % 16)]
  /\ AllTempo(0)
  /\ UNCHANGED <<spdcnt, trdelay>>

SetProgram(a) ==
  /\ AllTempo(TmpP[a])
  /\ UNCHANGED <<tempotbl, spdcnt, trdelay>>

SetTrackTempo(v, a) ==
  /\ OwnTempo(v, Flagged(a))
  /\ UNCHANGED <<spdcnt, trdelay>>

SetTrackFunktempo(v, a) ==
  /\ tempotbl' = [tempotbl EXCEPT ![TrkTmpPos(v) + 1] = a \div 16,
                                  ![TrkTmpPos(v) + 2] = 128 + (a % 16)]
  /\ OwnProgram(v, TrkTmpPos(v))
  /\ UNCHANGED <<spdcnt, trdelay>>

SetTrackProgram(v, a) ==
  /\ OwnProgram(v, TmpP[a])
  /\ UNCHANGED <<tempotbl, spdcnt, trdelay>>

DelayTrack(v, a) ==
  /\ Hold(v, a)
  /\ UNCHANGED <<tempotbl, tmppos, tmpbase>>

DelayNote(v, a) ==
  /\ IF trdelay[v] = 0 THEN CatchUp(v, a) ELSE Hold(v, a)
  /\ UNCHANGED <<tempotbl, tmppos, tmpbase>>

\* A row's effect leaves the clock alone.
NoClockFx(n, a) ==
  \/ n = NoFx
  \/ n \in {Program, TrackProgram} /\ a = 0
  \/ n \in {TrackDelay, NoteDelay} /\ ~DelaySupport

BigEffect(v, n, a) ==
  \/ NoClockFx(n, a) /\ UNCHANGED clock
  \/ n = MainTempo /\ SetMainTempo(a)
  \/ n = Funktempo /\ SetFunktempo(a)
  \/ n = Program /\ a # 0 /\ SetProgram(a)
  \/ n = TrackTempo /\ SetTrackTempo(v, a)
  \/ n = TrackFunktempo /\ SetTrackFunktempo(v, a)
  \/ n = TrackProgram /\ a # 0 /\ SetTrackProgram(v, a)
  \/ n = TrackDelay /\ DelaySupport /\ DelayTrack(v, a)
  \/ n = NoteDelay /\ DelaySupport /\ DelayNote(v, a)

StartNote ==
  /\ stage = "note"
  /\ BigEffect(turn, fx[turn][1], fx[turn][2])
  /\ owed' = [owed EXCEPT ![turn] = @ \ {"note"}]
  /\ UNCHANGED <<seqtempo, fx, ended>>
  /\ EndTurn

-----------------------------------------------------------------------------
Next == Frame \/ ReadRow \/ PatternGoesOn \/ TrackEnds \/ StartNote

Spec == Init /\ [][Next]_vars

\* The host calls the player every frame, for as long as the song plays.
FairSpec == Spec /\ WF_vars(Next)

-----------------------------------------------------------------------------
(* Properties.                                                              *)

\* Between two play calls.
Boundary == stage = "frame" /\ turn = Chn - 1

\* The voice's track has not ended and no delay holds its clock.
InStep(v) == ~ended[v] /\ trdelay[v] = 255

\* Positions b .. e are a tempo program: only its last byte is flagged.
IsProgram(b, e) ==
  /\ e \in b .. TableSize - 2
  /\ Neg(tempotbl[e + 1])
  /\ \A q \in b .. e - 1 : ~Neg(tempotbl[q + 1])

\* The voices keep one clock between play calls, although each counts its
\* own and a tempo effect strikes in the middle of a call, when some voices
\* have already counted it and the others have not.
Lockstep ==
  Boundary =>
    \A u, v \in Voice : InStep(u) /\ InStep(v) =>
      /\ spdcnt[u] = spdcnt[v]
      /\ tmppos[u] = tmppos[v]
      /\ tmpbase[u] = tmpbase[v]

\* A tempo set by another voice never finds a counter already past it: an
\* unflagged byte is only met by equality, so that track would stand still
\* until its counter reached $80.
NoOvershoot == \A v \in Voice : spdcnt[v] <= Tempo(v) % 128

\* Stores to the shared table by one voice never let the position of another
\* run past the flagged byte that ends its program.
ProgramBounded ==
  \A v \in Voice : \E e \in Slot : IsProgram(tmpbase[v], e) /\ tmppos[v] \in tmpbase[v] .. e

\* A row is read only when the last one has been stepped and its note has
\* started: no note is lost to a clock moved by another voice.
RowsComplete == stage = "row" => ended[turn] \/ owed[turn] = {}

\* A row is stepped once: a second step would move the pattern cursor by a
\* byte into the next row.
StepOnce == stage = "step" => ended[turn] \/ "step" \in owed[turn]

\* A track that has met its $FE reads no further row.
EndHolds == stage = "row" => ~ended[turn]

\* A voice whose track has not ended for good reads row after row.
RowsKeepComing ==
  \A v \in Voice : []<>(stage = "row" /\ turn = v) \/ <>[]ended[v]

-----------------------------------------------------------------------------
(* Songs that keep to the grid: every tempo is at least three ticks, tempo   *)
(* effects address all voices, tracks are not delayed, and a note's delay   *)
(* ends before any row does.                                                *)

\* The tempos of which a row ends after every delayed note of the song.
Long ==
  {ticks \in 3 .. 127 : \A f \in RowFx : f[1] = NoteDelay /\ DelaySupport => f[2] + 3 <= ticks}

\* Positions b .. e of a table are a program of such tempos.
ProgramOf(tempos, tbl, b, e) ==
  /\ e \in b .. TableSize - 2
  /\ Neg(tbl[e + 1])
  /\ \A q \in b .. e - 1 : ~Neg(tbl[q + 1])
  /\ \A q \in b .. e : tbl[q + 1] % 128 \in tempos

GridFx(f) ==
  \/ f[1] = NoFx
  \/ f[1] = TrackProgram /\ f[2] = 0
  \/ f[1] = TrackDelay /\ ~DelaySupport
  \/ f[1] = NoteDelay /\ (DelaySupport => f[2] # 0)
  \/ f[1] = MainTempo /\ f[2] % 128 \in Long
  \/ f[1] = Funktempo /\ f[2] \div 16 \in Long /\ f[2] % 16 \in Long
  \/ f[1] = Program /\ f[2] = 0
  \/ /\ f[1] = Program
     /\ TmpP[f[2]] >= TrkTmpPos(Chn)
     /\ \A tbl \in Tables : \E e \in Slot : ProgramOf(Long, tbl, TmpP[f[2]], e)

GridSong ==
  /\ \A tbl \in Tables : \E e \in {0, 1} : ProgramOf(Long, tbl, 0, e)
  /\ \A f \in RowFx : GridFx(f)
  /\ OrderTempo \subseteq {0}

-----------------------------------------------------------------------------
(* The inductive invariant of a grid song: what holds inside a call, between *)
(* the voices that have counted it and those that have not.                  *)

Played(v) == v > turn \/ (v = turn /\ stage # "frame")

\* The tick the voice last acted on, or is about to.
Tick(v) == IF v = turn /\ stage # "frame" THEN spdcnt[v] - 1 ELSE spdcnt[v]

Held(v) == trdelay[v] # 255

\* What the voice's counter would be if no delay had held it.
Count(v) == IF Held(v) THEN spdcnt[v] + fx[v][2] - trdelay[v] ELSE spdcnt[v]

Same(u, v) ==
  /\ Count(u) = Count(v)
  /\ tmppos[u] = tmppos[v]
  /\ tmpbase[u] = tmpbase[v]

\* u has counted this call and v has not: u is one tick further in the same
\* byte, or has moved on to the next byte, which v is due to do.
Ahead(u, v) ==
  /\ tmpbase[u] = tmpbase[v]
  /\ \/ Count(u) = Count(v) + 1 /\ tmppos[u] = tmppos[v]
     \/ /\ Count(u) = 1
        /\ Count(v) = Tempo(v) % 128
        /\ tmppos[u] = IF Neg(Tempo(v)) THEN tmpbase[v] ELSE NextSlot(tmppos[v])

Together ==
  \A u, v \in Voice : ~ended[u] /\ ~ended[v] =>
    /\ (Played(u) <=> Played(v)) => Same(u, v)
    /\ Played(u) /\ ~Played(v) => Ahead(u, v)

GridPrograms ==
  \A v \in Voice :
    \E e \in Slot : ProgramOf(Long, tempotbl, tmpbase[v], e) /\ tmppos[v] \in tmpbase[v] .. e

\* No counter is past its tempo, or would be without its delay.
CountBounded == \A v \in Voice : Count(v) <= Tempo(v) % 128

\* Only the subtune's two bytes are ever stored to.
TableKept ==
  \E tbl \in Tables : \A p \in Slot : p > 2 => tempotbl[p] = tbl[p]

\* Only a note is held, at its tick 2 and for the calls its delay has left.
HeldAtTick2 ==
  \A v \in Voice : Held(v) =>
    /\ ~ended[v] /\ Tick(v) = 2
    /\ DelaySupport /\ fx[v] \in RowFx /\ fx[v][1] = NoteDelay
    /\ trdelay[v] < fx[v][2]

NoTrackTempo == \A v \in Voice : seqtempo[v] = 0

EndedAtTick1 == \A v \in Voice : ended[v] => Tick(v) = 1

StageTick ==
  /\ stage = "row" => spdcnt[turn] = 1 /\ ~ended[turn]
  /\ stage = "step" => spdcnt[turn] = 2
  /\ stage = "note" => spdcnt[turn] = 3 /\ ~ended[turn]

OwedByTick ==
  \A v \in Voice : ~ended[v] =>
    owed[v] = IF Tick(v) = 1 THEN {"step", "note"}
              ELSE IF Tick(v) = 2 /\ ~Held(v) THEN {"note"} ELSE {}

GridInv ==
  /\ Together
  /\ GridPrograms
  /\ CountBounded
  /\ TableKept
  /\ HeldAtTick2
  /\ NoTrackTempo
  /\ EndedAtTick1
  /\ StageTick
  /\ OwedByTick

-----------------------------------------------------------------------------
(* Songs whose voices have tempos of their own: a voice may be held, a row   *)
(* may be of any length, and a tempo for all voices is one flagged byte,     *)
(* since it finds the counters of the others anywhere.                      *)

\* An effect that leads to a program of `tempos` that begins with one of `first`.
OwnFx(tempos, first, f) ==
  \/ f[1] \in {NoFx, TrackDelay, NoteDelay}
  \/ f[1] \in {Program, TrackProgram} /\ f[2] = 0
  \/ f[1] \in {MainTempo, TrackTempo} /\ f[2] % 128 \in first
  \/ /\ f[1] = TrackFunktempo \/ (f[1] = Funktempo /\ Chn = 1)
     /\ f[2] \div 16 \in first /\ f[2] % 16 \in tempos
  \/ /\ f[1] \in {Program, TrackProgram}
     /\ TmpP[f[2]] >= TrkTmpPos(Chn)
     /\ \A tbl \in Tables : \E e \in Slot :
          /\ ProgramOf(tempos, tbl, TmpP[f[2]], e)
          /\ tbl[TmpP[f[2]] + 1] % 128 \in first
          /\ f[1] = TrackProgram \/ Chn = 1 \/ e = TmpP[f[2]]

SongOf(tempos, first) ==
  /\ \A tbl \in Tables : \E e \in {0, 1} : ProgramOf(tempos, tbl, 0, e)
  /\ \A f \in RowFx : OwnFx(tempos, first, f)
  /\ OrderTempo \subseteq {0} \cup tempos

TracksSong == SongOf(Long, Long)

\* No counter is past an unflagged tempo, which is only met by equality: that
\* track would stand still until its counter reached $80.
NoStandstill == \A v \in Voice : ~Neg(Tempo(v)) => spdcnt[v] <= Tempo(v)

\* A voice at p is inside a program that starts at b: the subtune's, the voice's
\* own or one of the song's, so that no store to another voice's reaches it.
InProgram(tempos, tbl, v, b, p) ==
  \E e \in Slot :
    /\ ProgramOf(tempos, tbl, b, e) /\ p \in b .. e
    /\ \/ b = 0 /\ e <= 1
       \/ b = TrkTmpPos(v) /\ e <= b + 1
       \/ b >= TrkTmpPos(Chn)

OwnPrograms(tempos) == \A v \in Voice : InProgram(tempos, tempotbl, v, tmpbase[v], tmppos[v])

\* Only the bytes ahead of the song's programs are ever stored to.
ProgramsKept ==
  \E tbl \in Tables : \A p \in Slot : p > TrkTmpPos(Chn) => tempotbl[p] = tbl[p]

CountsLow == \A v \in Voice : spdcnt[v] < 128

DueTempos(tempos) == \A v \in Voice : seqtempo[v] \in {0} \cup tempos

\* A row is owed its step at tick 1; a note that is held has been started.
OwedAtTick ==
  \A v \in Voice : ~ended[v] =>
    /\ Tick(v) = 1 => owed[v] = {"step", "note"}
    /\ Tick(v) = 2 => owed[v] \subseteq {"note"}
    /\ Tick(v) \notin {1, 2} => owed[v] = {}

TracksInv ==
  /\ OwnPrograms(Long)
  /\ NoStandstill
  /\ ProgramsKept
  /\ CountsLow
  /\ DueTempos(Long)
  /\ EndedAtTick1
  /\ StageTick
  /\ OwedAtTick

-----------------------------------------------------------------------------
(* Songs with rows of one or two ticks, whose handlers are bound to one      *)
(* call: the voices go their own ways, and no effect makes longer a row of   *)
(* one tick that is under way.                                              *)

ShortTempos == IF SongOf(2 .. 127, 2 .. 127) THEN 2 .. 127 ELSE 1 .. 127

BoundSong ==
  /\ FastSpeedBind
  /\ SongOf(2 .. 127, 2 .. 127) \/ SongOf(1 .. 127, {1})
  /\ Chn = 1 \/ \A f \in RowFx : f[1] \notin {MainTempo, Funktempo, Program}
  /\ \A f \in RowFx : f[1] = NoteDelay /\ DelaySupport => f[2] + 3 <= 127

Ticks(v) == Tempo(v) % 128

\* A counter that was led past its tempo runs on until the compare overflows.
CountTurns(v) == spdcnt[v] \in 0 .. 128 /\ (spdcnt[v] = 128 => ~Neg(Tempo(v)))

\* A handler comes in the call of its tick, or in that of the row's last.
BoundStage ==
  /\ stage = "row" => spdcnt[turn] = 1 /\ (ended[turn] \/ owed[turn] = {})
  /\ stage = "step" =>
       /\ spdcnt[turn] = IF Ticks(turn) = 1 THEN 1 ELSE 2
       /\ ended[turn] \/ owed[turn] = {"step", "note"}
  /\ stage = "note" =>
       /\ (spdcnt[turn] = 1 /\ Ticks(turn) = 1) \/ spdcnt[turn] \in {2, 3}
       /\ ~ended[turn] /\ owed[turn] \subseteq {"note"}

\* What a row is owed between its voice's turns: nothing once its ticks are over.
RowOwed(v) ==
  IF ended[v] THEN spdcnt[v] \in {0, 1}
  ELSE /\ spdcnt[v] = 1 /\ Ticks(v) # 1 => owed[v] = {"step", "note"}
       /\ spdcnt[v] = 2 /\ Ticks(v) > 2 => owed[v] \subseteq {"note"}
       /\ spdcnt[v] \notin {1, 2} \/ Ticks(v) <= spdcnt[v] => owed[v] = {}

BoundInv ==
  /\ OwnPrograms(ShortTempos)
  /\ ProgramsKept
  /\ DueTempos(ShortTempos)
  /\ BoundStage
  /\ \A v \in Voice : CountTurns(v) /\ (v # turn \/ stage = "frame" => RowOwed(v))
=============================================================================
