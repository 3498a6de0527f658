-------------------------- MODULE VoiceSoundProofs --------------------------
(***************************************************************************)
(* Theorems about VoiceSound for every order of voices, set of builds,       *)
(* instruments, rows and sound effects.                                     *)
(***************************************************************************)
EXTENDS VoiceSound, TLAPS

\* The turns of a call.
LEMMA TurnTypes ==
  ASSUME TypeOK, stage # "call", EndTurn
  PROVE  /\ turn' \in DOMAIN Order /\ stage' \in {"call", "sfx", "frame", "multi"}
         /\ stage' = "call" => turn' = 1
         /\ stage' = "sfx" => build.sfx /\ Order[turn'] = SfxVoice
BY OrderPlays DEF TypeOK, EndTurn, First

\* Tables leave the types of what they change.
LEMMA TablesTypes ==
  ASSUME TypeOK, NEW v \in Voice, NEW p, NEW from, Tables(v, p, from)
  PROVE  waits' \in [Voice -> BOOLEAN]
BY DEF TypeOK, Tables

\* So do a frame of the instrument and a restart tick's tables.
LEMMA FrameTypes ==
  ASSUME TypeOK, NEW v \in Voice, InstrumentFrame(v) \/ HrTables(v)
  PROVE  /\ waits' \in [Voice -> BOOLEAN] /\ ins' \in Slot \cup {None}
         /\ UNCHANGED <<pulse, fltctrl, fltposi>>
BY TablesTypes DEF TypeOK, InstrumentFrame, HrTables, PositionsKept

\* A note's start, of a row or of an effect, keeps the types.
LEMMA NoteTypes ==
  ASSUME TypeOK, NEW v \in Voice, NEW c \in Slot, NEW counts, StartNote(v, c, counts)
  PROVE  /\ ins' \in Slot \cup {None}
         /\ fltctrl' \in Voice \cup {None} /\ fltposi' \in Slot \cup {None}
         /\ pulse' \in [Voice -> Slot \cup {None}]
         /\ owed' \in [Voice -> BOOLEAN] /\ waits' \in [Voice -> BOOLEAN]
         /\ started' \in [Voice -> Slot] /\ sounding' \in [Voice -> Slot]
<1> DEFINE p == IF c = 0 THEN ins ELSE c
<1>1. p \in Slot \cup {None}
  BY DEF TypeOK
<1>2. NoteFilter(v, c, counts, p) /\ NotePulse(v, c, counts, p) /\ NoteSlide(v, c) /\ ins' = p
  BY DEF StartNote
<1>3. fltctrl' \in Voice \cup {None} /\ fltposi' \in Slot \cup {None}
  BY <1>1, <1>2 DEF TypeOK, NoteFilter, StartFilter
<1>4. pulse' \in [Voice -> Slot \cup {None}]
  BY <1>1, <1>2 DEF TypeOK, NotePulse
<1>5. owed' \in [Voice -> BOOLEAN]
  BY <1>2, BuildsAreBuilds DEF TypeOK, NoteSlide, Build
<1>6. waits' \in [Voice -> BOOLEAN]
  BY DEF TypeOK, StartNote, Sounds, RunsTables
<1>7. started' \in [Voice -> Slot] /\ sounding' \in [Voice -> Slot]
  BY DEF TypeOK, StartNote
<1> QED  BY <1>1, <1>2, <1>3, <1>4, <1>5, <1>6, <1>7

\* An effect's note is a row's.
LEMMA NoteInRow ==
  ASSUME NEW r \in Row PROVE [r EXCEPT !.note = "note", !.inst = 0] \in Row
<1>1. [r EXCEPT !.note = "note"] \in Row
  BY DEF Row
<1>2. ASSUME NEW q \in Row PROVE [q EXCEPT !.inst = 0] \in Row
  BY SlotsCount DEF Row
<1>3. [[r EXCEPT !.note = "note"] EXCEPT !.inst = 0] \in Row
  BY <1>1, <1>2
<1>4. [r EXCEPT !.note = "note", !.inst = 0] = [[r EXCEPT !.note = "note"] EXCEPT !.inst = 0]
  BY DEF Row
<1> QED  BY <1>3, <1>4

\* The effect's timer counts down.
LEMMA CountTypes ==
  ASSUME TypeOK, sfx.timer # Idle, CountDown
  PROVE  /\ sfx' \in [timer : -1 .. 127, leng : 0 .. 127, temp : Slot]
         /\ sfx'.timer = sfx.timer - 1 /\ sfx'.leng = sfx.leng /\ sfx'.temp = sfx.temp
<1> DEFINE t == sfx.timer
<1>1. sfx \in [timer : -1 .. 127, leng : 0 .. 127, temp : Slot]
  BY DEF TypeOK
<1>2. t \in -1 .. 127 /\ t >= 0
  BY <1>1 DEF Idle
<1>3. sfx' = [sfx EXCEPT !.timer = t - 1]
  BY DEF CountDown
<1>4. t - 1 \in -1 .. 127
  BY <1>2
<1> HIDE DEF t
<1>5. /\ sfx' \in [timer : -1 .. 127, leng : 0 .. 127, temp : Slot]
      /\ sfx'.timer = t - 1 /\ sfx'.leng = sfx.leng /\ sfx'.temp = sfx.temp
  BY <1>1, <1>3, <1>4
<1> QED  BY <1>5 DEF t

\* The types at the start.
LEMMA InitTypes == Init => TypeOK
BY OrderPlays, SlotsCount DEF Init, TypeOK, Row, Empty, Idle

\* Every handler keeps the types.
LEMMA StepTypes == TypeOK /\ [Next]_vars => TypeOK'
<1> SUFFICES ASSUME TypeOK, [Next]_vars PROVE TypeOK'
  OBVIOUS
<1> USE OrderPlays, SlotsCount
<1>1. CASE PlayCall
  BY <1>1 DEF PlayCall, PointerKept, First, TypeOK
<1>2. CASE MultispeedCall
  BY <1>2 DEF MultispeedCall, PointerKept, TypeOK
<1>3. ASSUME NEW e \in Effects, SfxInit(e) PROVE TypeOK'
  <2>1. sfx' \in [timer : -1 .. 127, leng : 0 .. 127, temp : Slot]
    BY SMTT(20), <1>3, EffectsSound, SfxPlaysFirst DEF SfxInit, SfxTemp, TypeOK, Voice
  <2>2. row' \in [Voice -> Row]
    <3> DEFINE r == [row[SfxVoice] EXCEPT !.note = "note", !.inst = 0]
    <3>1. row' = [row EXCEPT ![SfxVoice] = r]
      BY <1>3 DEF SfxInit
    <3>2. SfxVoice \in Voice => r \in Row
      BY NoteInRow DEF TypeOK
    <3> HIDE DEF r
    <3>3. row \in [Voice -> Row]
      BY DEF TypeOK
    <3> QED  BY <3>1, <3>2, <3>3
  <2>3. curins' \in [Voice -> Slot]
    BY <1>3, EffectsSound DEF SfxInit, TypeOK, Number
  <2>4. started' \in [Voice -> Slot] /\ owed' \in [Voice -> BOOLEAN]
    BY <1>3 DEF SfxInit, TypeOK
  <2> QED  BY <1>3, <2>1, <2>2, <2>3, <2>4 DEF SfxInit, TypeOK
<1>4. CASE SfxNone
  BY <1>4 DEF SfxNone, GoesOn, player, history, TypeOK
<1>5. CASE SfxEnds
  <2>1. curins' \in [Voice -> Slot]
    BY <1>5 DEF SfxEnds, TypeOK
  <2>2. sfx' \in [timer : -1 .. 127, leng : 0 .. 127, temp : Slot]
    BY <1>5, CountTypes DEF SfxEnds, Idle
  <2> QED  BY <1>5, <2>1, <2>2 DEF SfxEnds, GoesOn, history, TypeOK
<1>6. CASE SfxRuns
  <2>1. sfx' \in [timer : -1 .. 127, leng : 0 .. 127, temp : Slot]
    BY <1>6, CountTypes DEF SfxRuns, Idle
  <2> QED  BY <1>6, <2>1 DEF SfxRuns, GoesOn, history, TypeOK
<1>7. CASE SfxStarts
  <2>1. SfxVoice \in Voice
    BY <1>7 DEF SfxStarts, TypeOK, Voice
  <2>2. PICK counts \in SUBSET Part : StartNote(SfxVoice, curins[SfxVoice], counts)
    BY <1>7 DEF SfxStarts
  <2>3. curins[SfxVoice] \in Slot
    BY <2>1 DEF TypeOK
  <2>4. sfx' \in [timer : -1 .. 127, leng : 0 .. 127, temp : Slot]
    BY <1>7, CountTypes DEF SfxStarts, Idle
  <2> QED  BY <1>7, <2>1, <2>2, <2>3, <2>4, NoteTypes DEF SfxStarts, GoesOn, TypeOK
<1>8. ASSUME NEW v \in Voice, ReadRow(v) PROVE TypeOK'
  <2>1. PICK r \in Rows[v] \cup {Empty} : IF Lent(v) THEN LentRow(v, r) ELSE OwnRow(v, r)
    BY <1>8 DEF ReadRow
  <2>2. r \in Row /\ Empty \in Row
    BY RowsAreRows DEF Row, Empty
  <2>3. tick' \in [Voice -> 0 .. 3]
    BY <1>8 DEF ReadRow, TypeOK
  <2>4. row' \in [Voice -> Row]
    <3>1. row \in [Voice -> Row]
      BY DEF TypeOK
    <3>2. row' = [row EXCEPT ![v] = r] \/ row' = [row EXCEPT ![v] = Empty]
      BY <2>1 DEF LentRow, OwnRow
    <3> QED  BY <2>2, <3>1, <3>2
  <2>9. restarts' \in [Voice -> SUBSET ({1, 2} \X Slot)]
    BY <1>8 DEF ReadRow, TypeOK
  <2>10. started' \in [Voice -> Slot]
    <3>1. UNCHANGED started \/ started' = [started EXCEPT ![v] = 0]
      BY <2>1 DEF LentRow, OwnRow
    <3>2. started \in [Voice -> Slot] /\ 0 \in Slot
      BY SlotsCount DEF TypeOK
    <3> QED  BY <3>1, <3>2
  <2>11. music' \in Slot
    BY <2>1 DEF LentRow, OwnRow, Number, TypeOK
  <2>8. /\ restarts' \in [Voice -> SUBSET ({1, 2} \X Slot)]
        /\ started' \in [Voice -> Slot] /\ music' \in Slot /\ slid' \in [Voice -> BOOLEAN]
    BY <1>8, <2>9, <2>10, <2>11 DEF ReadRow, TypeOK
  <2>5. CASE OwnRow(v, r)
    BY <1>8, <2>3, <2>4, <2>5, <2>8 DEF ReadRow, OwnRow, PositionsKept, TypeOK
  <2>6. CASE LentRow(v, r) /\ r.inst = 0
    BY <1>8, <2>3, <2>4, <2>6, <2>8 DEF ReadRow, LentRow, PositionsKept, TypeOK
  <2>7. CASE LentRow(v, r) /\ r.inst # 0
    <3>1. HrTables(v) /\ EndTurn /\ sfx' = [sfx EXCEPT !.temp = Kept(r.inst)]
      BY <2>7 DEF LentRow
    <3>2. sfx' \in [timer : -1 .. 127, leng : 0 .. 127, temp : Slot]
      BY <3>1 DEF Kept, Number, TypeOK
    <3> QED  BY <1>8, <2>3, <2>4, <2>8, <3>1, <3>2, FrameTypes, TurnTypes DEF ReadRow, TypeOK
  <2> QED  BY <2>1, <2>5, <2>6, <2>7
<1>9. ASSUME NEW v \in Voice, StepPattern(v) PROVE TypeOK'
  <2>1. tick' \in [Voice -> 0 .. 3]
    BY <1>9 DEF StepPattern, TypeOK
  <2> QED  BY <1>9, <2>1 DEF StepPattern, TypeOK
<1>10. ASSUME NEW v \in Voice, TrackEnds(v) PROVE TypeOK'
  BY <1>10, FrameTypes, TurnTypes DEF TrackEnds, TypeOK
<1>11. ASSUME NEW v \in Voice, NoRestart(v) PROVE TypeOK'
  BY SMTT(20), <1>11, FrameTypes, TurnTypes DEF NoRestart, TypeOK
<1>12. ASSUME NEW v \in Voice, OtherRestart(v) PROVE TypeOK'
  BY <1>12, FrameTypes, TurnTypes DEF OtherRestart, TypeOK
<1>13. ASSUME NEW v \in Voice, HardRestart(v) PROVE TypeOK'
  <2>0. Coming(v) \in Slot
    BY DEF Coming, Number, TypeOK
  <2>3. restarts' \in [Voice -> SUBSET ({1, 2} \X Slot)]
    BY <1>13, <2>0 DEF HardRestart, Timer, TypeOK
  <2>1. CASE Quiet(v)
    BY SMTT(20), <1>13, <2>0, <2>1, <2>3, TurnTypes DEF HardRestart, PositionsKept, TypeOK
  <2>2. CASE ~Quiet(v)
    BY <1>13, <2>2, <2>3, FrameTypes, TurnTypes DEF HardRestart, TypeOK
  <2> QED  BY <2>1, <2>2
<1>14. ASSUME NEW v \in Voice, Note(v) PROVE TypeOK'
  <2> DEFINE c == Chosen(v)
  <2>1. c \in Slot
    BY DEF Chosen, Selects, Number, TypeOK
  <2>2. curins' = [curins EXCEPT ![v] = c] /\ StartNote(v, c, Mask(v))
    BY <1>14 DEF Note
  <2>3. tick' \in [Voice -> 0 .. 3]
    <3>1. PICK t \in AfterNote(v, c) : tick' = [tick EXCEPT ![v] = t]
      BY <1>14 DEF Note
    <3>2. t \in 0 .. 3
      BY DEF AfterNote
    <3> QED  BY <3>1, <3>2 DEF TypeOK
  <2>7. slid' \in [Voice -> BOOLEAN]
    <3>1. \E b \in BOOLEAN : slid' = [slid EXCEPT ![v] = b]
      BY <1>14 DEF Note, TypeOK, Sounds
    <3> QED  BY <3>1 DEF TypeOK
  <2>4. curins' \in [Voice -> Slot]
    BY <2>1, <2>2 DEF TypeOK
  <2>5. music' \in Slot
    BY <1>14 DEF Note, Selects, Number, TypeOK
  <2> HIDE DEF c
  <2>6. /\ ins' \in Slot \cup {None}
        /\ fltctrl' \in Voice \cup {None} /\ fltposi' \in Slot \cup {None}
        /\ pulse' \in [Voice -> Slot \cup {None}]
        /\ owed' \in [Voice -> BOOLEAN] /\ waits' \in [Voice -> BOOLEAN]
        /\ started' \in [Voice -> Slot] /\ sounding' \in [Voice -> Slot]
    BY <2>1, <2>2, NoteTypes
  <2> QED  BY <1>14, <2>3, <2>4, <2>5, <2>6, <2>7, TurnTypes DEF Note, TypeOK
<1>15. ASSUME NEW v \in Voice, LaterFrame(v) PROVE TypeOK'
  <2>1. /\ waits' \in [Voice -> BOOLEAN] /\ ins' \in Slot \cup {None}
        /\ UNCHANGED <<pulse, fltctrl, fltposi>>
    BY <1>15, FrameTypes DEF LaterFrame
  <2>2. /\ turn' \in DOMAIN Order /\ stage' \in {"call", "sfx", "frame", "multi"}
        /\ stage' = "call" => turn' = 1
        /\ stage' = "sfx" => build.sfx /\ Order[turn'] = SfxVoice
    BY <1>15, TurnTypes DEF LaterFrame
  <2> QED  BY <1>15, <2>1, <2>2 DEF LaterFrame, TypeOK
<1>16. ASSUME NEW v \in Voice, Multispeed(v) PROVE TypeOK'
  <2>1. ins' \in Slot \cup {None} /\ waits' \in [Voice -> BOOLEAN]
    BY <1>16, TablesTypes DEF Multispeed, TypeOK
  <2> QED  BY <1>16, <2>1, TurnTypes DEF Multispeed, PositionsKept, TypeOK
<1>17. CASE UNCHANGED vars
  BY <1>17 DEF vars, player, history, TypeOK
<1> QED
  BY <1>1, <1>2, <1>3, <1>4, <1>5, <1>6, <1>7, <1>8, <1>9, <1>10, <1>11, <1>12, <1>13,
     <1>14, <1>15, <1>16, <1>17 DEF Next

\* Every variable keeps its type, and only the third voice's turn comes to the effect.
THEOREM TypeCorrect == Spec => []TypeOK
<1> QED
  BY InitTypes, StepTypes, PTL DEF Spec

-----------------------------------------------------------------------------
(* The turns that only run tables.                                          *)

Turn(v) == \/ TrackEnds(v) \/ NoRestart(v) \/ OtherRestart(v) \/ HardRestart(v)
           \/ LaterFrame(v) \/ Multispeed(v)

\* A voice's tables are read through its instrument, and move the filter if it is its own.
OwnTables(v) ==
  /\ fltctrl' = fltctrl
  /\ moves' = moves \/ (moves' = moves + 1 /\ fltctrl = v)
  /\ \A r \in reads' : r.voice = v /\ r.ins = curins[v]

\* What a voice's tables read and move is its own.
LEMMA TablesAreOwn ==
  ASSUME TypeOK, NEW v \in Voice, NEW from, PositionsKept, Tables(v, curins[v], from)
  PROVE  OwnTables(v)
<1>1. fltctrl' = fltctrl
  BY DEF PositionsKept
<1>2. moves' = moves \/ (moves' = moves + 1 /\ fltctrl = v)
  <2>1. CASE Filters(v, from)
    BY <1>1, <2>1 DEF Tables, Moved, Filters
  <2>2. CASE ~Filters(v, from)
    BY <2>2 DEF Tables, Moved
  <2> QED  BY <2>1, <2>2
<1>3. \A r \in TableReads(v, curins[v], from) : r.voice = v /\ r.ins = curins[v]
  BY DEF TableReads, Reading
<1> QED  BY <1>1, <1>2, <1>3 DEF Tables, OwnTables

\* A frame and a restart tick's tables are read through the voice's instrument.
LEMMA FramesAreOwn ==
  ASSUME TypeOK, NEW v \in Voice, InstrumentFrame(v) \/ HrTables(v)
  PROVE  OwnTables(v)
BY TablesAreOwn DEF InstrumentFrame, HrTables, OwnTables, PositionsKept

\* So is every turn that only runs tables; it keeps rows, instruments and the effect.
LEMMA TurnsAreOwn ==
  ASSUME TypeOK, NEW v \in Voice, Turn(v)
  PROVE  /\ v = Order[turn] /\ stage \in {"frame", "restart", "multi"} /\ EndTurn
         /\ UNCHANGED <<build, row, curins, owed, sfx, music>>
         /\ OwnTables(v)
<1>1. CASE Multispeed(v)
  <2>1. CASE waits[v]
    BY <1>1, <2>1 DEF Multispeed, PositionsKept, OwnTables
  <2>2. CASE ~waits[v]
    BY <1>1, <2>2, TablesAreOwn DEF Multispeed
  <2> QED  BY <1>1, <2>1, <2>2 DEF Multispeed
<1>2. CASE HardRestart(v)
  <2>1. CASE Quiet(v)
    BY <1>2, <2>1 DEF HardRestart, PositionsKept, OwnTables
  <2>2. CASE ~Quiet(v)
    BY <1>2, <2>2, FramesAreOwn DEF HardRestart
  <2> QED  BY <1>2, <2>1, <2>2 DEF HardRestart
<1>3. CASE TrackEnds(v) \/ NoRestart(v) \/ OtherRestart(v) \/ LaterFrame(v)
  BY <1>3, FramesAreOwn DEF TrackEnds, NoRestart, OtherRestart, LaterFrame
<1> QED  BY <1>1, <1>2, <1>3 DEF Turn

\* A turn's end is the call's, or the next voice's turn, and that is not the effect's.
LEMMA TurnEnds ==
  ASSUME TypeOK, stage # "call", EndTurn
  PROVE  \/ stage' = "call"
         \/ /\ turn' = turn + 1 /\ turn' \in DOMAIN Order
            /\ stage' = IF stage = "multi" THEN "multi" ELSE "frame"
<1>1. CASE turn = Len(Order)
  BY <1>1 DEF EndTurn
<1>2. CASE turn # Len(Order)
  <2>1. turn' = turn + 1 /\ turn + 1 \in DOMAIN Order /\ turn + 1 # 1
    BY <1>2, OrderPlays DEF EndTurn, TypeOK
  <2>2. ~(build.sfx /\ Order[turn + 1] = SfxVoice)
    BY <2>1, OrderPlays, SfxPlaysFirst DEF TypeOK
  <2> QED  BY <1>2, <2>1, <2>2 DEF EndTurn, First
<1> QED  BY <1>1, <1>2

\* No step changes the build.
LEMMA BuildStays == TypeOK /\ [Next]_vars => UNCHANGED build
<1> SUFFICES ASSUME TypeOK, [Next]_vars PROVE build' = build
  OBVIOUS
<1>1. CASE PlayCall \/ MultispeedCall \/ (\E e \in Effects : SfxInit(e))
  BY <1>1 DEF PlayCall, MultispeedCall, SfxInit
<1>2. CASE SfxNone \/ SfxEnds \/ SfxStarts \/ SfxRuns
  BY <1>2 DEF SfxNone, SfxEnds, SfxStarts, SfxRuns
<1>3. CASE \E v \in Voice : ReadRow(v) \/ StepPattern(v) \/ Note(v)
  BY <1>3 DEF ReadRow, StepPattern, Note
<1>4. CASE \E v \in Voice : Turn(v)
  BY <1>4, TurnsAreOwn
<1>5. CASE UNCHANGED vars
  BY <1>5 DEF vars
<1> QED  BY <1>1, <1>2, <1>3, <1>4, <1>5 DEF Next, Turn

-----------------------------------------------------------------------------
(* The sound effect and the row it keeps out.                               *)

SfxInv ==
  /\ stage = "sfx" => moves = 0 /\ reads = {}
  /\ ~build.sfx => sfx.timer = Idle
  /\ sfx.timer <= sfx.leng
  /\ sfx.timer # Idle => row[SfxVoice].inst = 0
  /\ sfx.timer > 0 /\ sfx.timer = sfx.leng =>
       stage \in {"call", "sfx", "multi"} /\ row[SfxVoice].note = "note"

\* In a build with sound effects the third voice plays, and first.
LEMMA ThirdPlays ==
  ASSUME build \in Builds, build.sfx
  PROVE  SfxVoice \in Voice /\ SfxVoice = Order[1]
<1>1. SfxVoice = Order[1]
  BY SfxPlaysFirst
<1>2. 1 \in DOMAIN Order
  BY OrderPlays
<1> QED  BY <1>1, <1>2 DEF Voice

\* The effect's timer and length.
LEMMA TimerTypes == TypeOK => sfx.timer \in -1 .. 127 /\ sfx.leng \in 0 .. 127
BY DEF TypeOK

\* A voice's turn that leaves the rows and the effect alone keeps it.
LEMMA SfxTurn ==
  ASSUME TypeOK, SfxInv, stage \in {"frame", "restart", "multi"},
         EndTurn \/ (stage' = "restart" /\ stage # "multi"),
         UNCHANGED <<build, row, sfx>>
  PROVE  SfxInv'
BY TurnEnds DEF SfxInv

\* No effect plays at the start.
LEMMA SfxInvInit == Init => SfxInv
BY DEF Init, SfxInv, Empty, Idle

\* Every handler keeps what SfxInv says of the effect and its row.
LEMMA SfxInvStep == TypeOK /\ SfxInv /\ [Next]_vars => SfxInv'
<1> SUFFICES ASSUME TypeOK, SfxInv, [Next]_vars PROVE SfxInv'
  OBVIOUS
<1> USE TimerTypes DEF Idle
<1>0. build.sfx => SfxVoice \in Voice /\ SfxVoice = Order[1]
  BY ThirdPlays DEF TypeOK
<1>1. CASE PlayCall
  BY <1>0, <1>1 DEF PlayCall, First, SfxInv
<1>2. CASE MultispeedCall
  BY <1>2 DEF MultispeedCall, SfxInv
<1>3. ASSUME NEW e \in Effects, SfxInit(e) PROVE SfxInv'
  <2>1. sfx'.timer = sfx'.leng /\ sfx'.timer \in 0 .. 127
    BY <1>3, EffectsSound DEF SfxInit
  <2>2. row'[SfxVoice].note = "note" /\ row'[SfxVoice].inst = 0
    <3>1. row \in [Voice -> Row] /\ SfxVoice \in Voice
      BY <1>0, <1>3 DEF SfxInit, TypeOK
    <3>2. row'[SfxVoice] = [row[SfxVoice] EXCEPT !.note = "note", !.inst = 0]
      BY <1>3, <3>1 DEF SfxInit
    <3>3. row[SfxVoice] \in Row
      BY <3>1
    <3> QED  BY <3>2, <3>3 DEF Row
  <2> QED  BY <1>3, <2>1, <2>2 DEF SfxInit, SfxInv
<1>4. CASE SfxNone
  BY <1>4 DEF SfxNone, GoesOn, player, history, SfxInv
<1>5. CASE SfxEnds
  BY <1>5, CountTypes DEF SfxEnds, GoesOn, SfxInv
<1>6. CASE SfxRuns
  BY SMTT(20), <1>6, CountTypes DEF SfxRuns, GoesOn, SfxInv
<1>7. CASE SfxStarts
  BY <1>7, CountTypes DEF SfxStarts, GoesOn, SfxInv
<1>8. ASSUME NEW v \in Voice, ReadRow(v) PROVE SfxInv'
  <2>1. PICK r \in Rows[v] \cup {Empty} : IF Lent(v) THEN LentRow(v, r) ELSE OwnRow(v, r)
    BY <1>8 DEF ReadRow
  <2>2. stage = "frame" /\ UNCHANGED build /\ row \in [Voice -> Row]
    BY <1>8 DEF ReadRow, TypeOK
  <2>3. CASE Lent(v)
    <3>1. sfx'.timer = sfx.timer /\ sfx'.leng = sfx.leng
      BY <2>1, <2>3 DEF LentRow, TypeOK
    <3>2. row'[SfxVoice] = Empty
      BY <2>1, <2>2, <2>3 DEF LentRow, Lent
    <3>3. stage' # "sfx"
      BY <2>1, <2>2, <2>3, TurnEnds DEF LentRow
    <3> QED  BY <2>2, <3>1, <3>2, <3>3 DEF SfxInv, Empty
  <2>4. CASE ~Lent(v)
    <3>1. UNCHANGED sfx /\ stage' = "restart" /\ row' = [row EXCEPT ![v] = r]
      BY <2>1, <2>4 DEF OwnRow
    <3>2. sfx.timer # Idle => row'[SfxVoice] = row[SfxVoice]
      BY <1>0, <2>2, <2>4, <3>1 DEF Lent, SfxInv
    <3> QED  BY <2>2, <3>1, <3>2 DEF SfxInv
  <2> QED  BY <2>3, <2>4
<1>9. ASSUME NEW v \in Voice, StepPattern(v) PROVE SfxInv'
  BY <1>9, SfxTurn DEF StepPattern
<1>10. ASSUME NEW v \in Voice, Turn(v) PROVE SfxInv'
  <2>1. stage \in {"frame", "restart", "multi"} /\ EndTurn
    BY <1>10, TurnsAreOwn
  <2>2. UNCHANGED <<build, row, sfx>>
    BY <1>10, TurnsAreOwn
  <2> QED  BY <2>1, <2>2, SfxTurn
<1>11. ASSUME NEW v \in Voice, Note(v) PROVE SfxInv'
  BY <1>11, SfxTurn DEF Note
<1>12. CASE UNCHANGED vars
  BY <1>12 DEF vars, player, history, SfxInv
<1>13. ASSUME NEW v \in Voice,
              TrackEnds(v) \/ NoRestart(v) \/ OtherRestart(v) \/ HardRestart(v)
                \/ LaterFrame(v) \/ Multispeed(v)
       PROVE  SfxInv'
  BY <1>10, <1>13 DEF Turn
<1> QED
  BY <1>1, <1>2, <1>3, <1>4, <1>5, <1>6, <1>7, <1>8, <1>9, <1>11, <1>12, <1>13 DEF Next

-----------------------------------------------------------------------------
(* The filter moves once: who has moved it in this call is not still to play. *)

FilterInv ==
  /\ moves \in {0, 1}
  /\ stage # "call" /\ moves = 1 => \A i \in DOMAIN Order : i >= turn => fltctrl # Order[i]

\* A turn that moves the filter for its owner, or claims it, is the last the filter has.
LEMMA FilterTurn ==
  ASSUME TypeOK, FilterInv, stage # "call", EndTurn, NEW v \in Voice, v = Order[turn],
         fltctrl' \in {fltctrl, v},
         moves' = moves \/ (moves' = moves + 1 /\ fltctrl = v /\ fltctrl' = v)
  PROVE  FilterInv'
<1>1. moves' \in {0, 1}
  <2>1. turn \in DOMAIN Order /\ turn >= turn
    BY OrderPlays DEF TypeOK
  <2>2. moves = 1 => fltctrl # v
    BY <2>1 DEF FilterInv
  <2> QED  BY <2>2 DEF FilterInv
<1>2. ASSUME moves' = 1, stage' # "call", NEW i \in DOMAIN Order, i >= turn'
      PROVE  fltctrl' # Order[i]
  <2>1. turn \in DOMAIN Order /\ turn' = turn + 1 /\ DOMAIN Order \subseteq Nat
    BY <1>2, TurnEnds, OrderPlays DEF TypeOK
  <2>2. i # turn /\ i >= turn
    BY <1>2, <2>1
  <2>3. v # Order[i]
    BY <2>1, <2>2, OrderPlays
  <2>4. fltctrl' # v => fltctrl # Order[i]
    BY <1>2, <2>2 DEF FilterInv
  <2> QED  BY <2>3, <2>4
<1> QED  BY <1>1, <1>2 DEF FilterInv

\* A note leaves the filter, or claims it and moves nothing.
LEMMA NoteClaims ==
  ASSUME NEW v \in Voice, NEW c, NEW counts, StartNote(v, c, counts)
  PROVE  /\ fltctrl' \in {fltctrl, v}
         /\ moves' = moves \/ (moves' = moves + 1 /\ fltctrl = v /\ fltctrl' = v)
         /\ row[v].note = "note" => moves' = moves
<1> DEFINE p == IF c = 0 THEN ins ELSE c
<1>1. NoteFilter(v, c, counts, p)
  BY DEF StartNote
<1>2. fltctrl' \in {fltctrl, v}
  BY <1>1 DEF NoteFilter, StartFilter
<1>3. ~Sounds(v, c) => fltctrl' = fltctrl
  BY <1>1 DEF NoteFilter
<1>4. CASE RunsTables(v, c)
  <2>1. row[v].note # "note" /\ ~Sounds(v, c) /\ Moved(v, 0)
    BY <1>4 DEF RunsTables, Sounds, StartNote
  <2> QED  BY <1>2, <1>3, <2>1 DEF Moved, Filters
<1>5. CASE ~RunsTables(v, c)
  BY <1>2, <1>5 DEF StartNote
<1> QED  BY <1>4, <1>5

\* Every handler keeps the filter to one move.
LEMMA FilterInvStep == TypeOK /\ SfxInv /\ FilterInv /\ [Next]_vars => FilterInv'
<1> SUFFICES ASSUME TypeOK, SfxInv, FilterInv, [Next]_vars PROVE FilterInv'
  OBVIOUS
<1>1. CASE PlayCall \/ MultispeedCall
  BY <1>1 DEF PlayCall, MultispeedCall, FilterInv
<1>2. ASSUME NEW e \in Effects, SfxInit(e) PROVE FilterInv'
  BY <1>2 DEF SfxInit, FilterInv
<1>3. CASE SfxNone \/ SfxEnds \/ SfxRuns
  BY <1>3 DEF SfxNone, SfxEnds, SfxRuns, GoesOn, player, history, FilterInv
<1>4. CASE SfxStarts
  <2>1. PICK counts \in SUBSET Part : StartNote(SfxVoice, curins[SfxVoice], counts)
    BY <1>4 DEF SfxStarts
  <2>2. SfxVoice \in Voice
    BY <1>4 DEF SfxStarts, TypeOK, Voice
  <2>3. row[SfxVoice].note = "note" /\ moves = 0
    BY <1>4 DEF SfxStarts, SfxInv
  <2> QED  BY <2>1, <2>2, <2>3, NoteClaims DEF FilterInv
<1>5. ASSUME NEW v \in Voice, ReadRow(v) PROVE FilterInv'
  <2>1. PICK r \in Rows[v] \cup {Empty} : LentRow(v, r) \/ OwnRow(v, r)
    BY <1>5 DEF ReadRow
  <2>2. stage = "frame" /\ v = Order[turn]
    BY <1>5 DEF ReadRow
  <2>3. CASE HrTables(v) /\ EndTurn
    BY <2>2, <2>3, FramesAreOwn, FilterTurn DEF OwnTables
  <2>4. CASE turn' = turn /\ UNCHANGED <<moves, fltctrl>>
    BY <2>2, <2>4 DEF FilterInv
  <2> QED  BY <2>1, <2>3, <2>4 DEF LentRow, OwnRow, PositionsKept
<1>6. ASSUME NEW v \in Voice, StepPattern(v) PROVE FilterInv'
  BY <1>6 DEF StepPattern, FilterInv
<1>7. ASSUME NEW v \in Voice, Turn(v) PROVE FilterInv'
  BY <1>7, TurnsAreOwn, FilterTurn DEF OwnTables
<1>8. ASSUME NEW v \in Voice, Note(v) PROVE FilterInv'
  <2> DEFINE c == Chosen(v)
  <2>1. StartNote(v, c, Mask(v)) /\ stage = "frame" /\ v = Order[turn] /\ EndTurn
    BY <1>8 DEF Note
  <2> HIDE DEF c
  <2> QED  BY <2>1, NoteClaims, FilterTurn
<1>9. CASE UNCHANGED vars
  BY <1>9 DEF vars, player, history, FilterInv
<1> QED
  BY <1>1, <1>2, <1>3, <1>4, <1>5, <1>6, <1>7, <1>8, <1>9 DEF Next, Turn

\* The filter table moves at most once in a call, whichever voices own it in turn.
THEOREM MovesOnce == Spec => []FilterMovesOnce
<1>1. Init => FilterInv
  BY DEF Init, FilterInv
<1>2. FilterInv => FilterMovesOnce
  BY DEF FilterInv, FilterMovesOnce
<1> QED
  BY <1>1, <1>2, InitTypes, StepTypes, SfxInvInit, SfxInvStep, FilterInvStep, PTL DEF Spec

-----------------------------------------------------------------------------
(* A voice reads its own instrument.                                        *)

\* What voice v has read, it has read through the instrument it now has.
ReadsOwn(v) ==
  \A r \in reads' :
    /\ r.voice = v
    /\ r.part # "effect" \/ curins'[v] # 0 => r.ins = curins'[v]

\* What a note's start reads, it reads through the voice's instrument.
LEMMA NoteReadsOwn ==
  ASSUME NEW v \in Voice, NEW c, NEW counts, StartNote(v, c, counts), curins'[v] = c
  PROVE  ReadsOwn(v)
<1> DEFINE p == IF c = 0 THEN ins ELSE c
<1>1. \A r \in NoteReads(v, c, p) : r.voice = v /\ r.part = "effect" /\ r.ins = p
  BY DEF NoteReads, Reading
<1>2. \A r \in TableReads(v, p, 0) : r.voice = v /\ r.ins = p
  BY DEF TableReads, Reading
<1>3. c # 0 => p = c
  OBVIOUS
<1>4. \/ reads' = NoteReads(v, c, p) \cup TableReads(v, p, 0) /\ c # 0
      \/ reads' = NoteReads(v, c, p)
  BY DEF StartNote, RunsTables
<1> HIDE DEF p
<1> QED  BY <1>1, <1>2, <1>3, <1>4 DEF ReadsOwn

\* Every handler reads the voice's own instrument.
LEMMA OwnStep == TypeOK /\ SfxInv /\ OwnInstrument /\ [Next]_vars => OwnInstrument'
<1> SUFFICES ASSUME TypeOK, SfxInv, OwnInstrument, [Next]_vars PROVE OwnInstrument'
  OBVIOUS
<1>0. ASSUME NEW v \in Voice, ReadsOwn(v) PROVE OwnInstrument'
  BY <1>0 DEF ReadsOwn, OwnInstrument
<1>00. ASSUME NEW v \in Voice, OwnTables(v), UNCHANGED curins PROVE OwnInstrument'
  BY <1>00 DEF OwnTables, OwnInstrument
<1>1. CASE reads' = {}
  BY <1>1 DEF OwnInstrument
<1>2. CASE SfxNone \/ SfxEnds \/ SfxRuns
  BY <1>1, <1>2 DEF SfxNone, SfxEnds, SfxRuns, history, SfxInv
<1>3. CASE SfxStarts
  <2>1. PICK counts \in SUBSET Part : StartNote(SfxVoice, curins[SfxVoice], counts)
    BY <1>3 DEF SfxStarts
  <2>2. SfxVoice \in Voice /\ UNCHANGED curins
    BY <1>3 DEF SfxStarts, TypeOK, Voice
  <2> QED  BY <1>0, <2>1, <2>2, NoteReadsOwn
<1>4. ASSUME NEW v \in Voice, ReadRow(v) PROVE OwnInstrument'
  <2>1. PICK r \in Rows[v] \cup {Empty} : LentRow(v, r) \/ OwnRow(v, r)
    BY <1>4 DEF ReadRow
  <2>2. reads' = {} \/ HrTables(v)
    BY <2>1 DEF LentRow, OwnRow
  <2> QED  BY <1>00, <1>1, <1>4, <2>2, FramesAreOwn DEF ReadRow
<1>5. ASSUME NEW v \in Voice, Turn(v) PROVE OwnInstrument'
  BY <1>00, <1>5, TurnsAreOwn
<1>6. ASSUME NEW v \in Voice, Note(v) PROVE OwnInstrument'
  <2> DEFINE c == Chosen(v)
  <2>1. StartNote(v, c, Mask(v)) /\ curins' = [curins EXCEPT ![v] = c]
    BY <1>6 DEF Note
  <2> HIDE DEF c
  <2>2. curins'[v] = c
    BY <2>1 DEF TypeOK
  <2> QED  BY <1>0, <2>1, <2>2, NoteReadsOwn
<1>7. CASE UNCHANGED vars
  BY <1>7 DEF vars, player, history, OwnInstrument
<1>8. CASE PlayCall \/ MultispeedCall \/ (\E e \in Effects : SfxInit(e)) \/ (\E v \in Voice : StepPattern(v))
  BY <1>1, <1>8 DEF PlayCall, MultispeedCall, SfxInit, StepPattern
<1> QED
  BY <1>2, <1>3, <1>4, <1>5, <1>6, <1>7, <1>8 DEF Next, Turn

\* A voice runs its tables on its own instrument, although all read through one pointer.
THEOREM OwnRead == Spec => []OwnInstrument
<1>1. Init => OwnInstrument
  BY DEF Init, OwnInstrument
<1> QED
  BY <1>1, InitTypes, StepTypes, SfxInvInit, SfxInvStep, OwnStep, PTL DEF Spec

-----------------------------------------------------------------------------
(* The third voice's instrument comes back.                                 *)

GivenInv ==
  build.sfx => IF sfx.timer = Idle THEN curins[SfxVoice] = music ELSE sfx.temp = music

\* Every handler keeps the music's instrument, with the voice or set aside.
LEMMA GivenStep == TypeOK /\ SfxInv /\ GivenInv /\ [Next]_vars => GivenInv'
<1> SUFFICES ASSUME TypeOK, SfxInv, GivenInv, [Next]_vars, build.sfx PROVE GivenInv'
  BY BuildStays DEF GivenInv
<1> USE TimerTypes DEF Idle
<1>0. SfxVoice \in Voice /\ curins \in [Voice -> Slot]
  BY ThirdPlays DEF TypeOK
<1>1. CASE UNCHANGED <<curins, sfx, music>>
  BY <1>1 DEF GivenInv
<1>2. ASSUME NEW e \in Effects, SfxInit(e) PROVE GivenInv'
  BY <1>2, EffectsSound DEF SfxInit, SfxTemp, GivenInv
<1>3. CASE SfxEnds
  BY <1>0, <1>3, CountTypes DEF SfxEnds, history, GivenInv
<1>4. CASE SfxStarts \/ SfxRuns
  BY <1>4, CountTypes DEF SfxStarts, SfxRuns, history, GivenInv
<1>5. ASSUME NEW v \in Voice, ReadRow(v) PROVE GivenInv'
  <2>1. PICK r \in Rows[v] \cup {Empty} : IF Lent(v) THEN LentRow(v, r) ELSE OwnRow(v, r)
    BY <1>5 DEF ReadRow
  <2>2. CASE Lent(v)
    <3>1. sfx.timer # Idle /\ sfx.temp = music /\ LentRow(v, r)
      BY <2>1, <2>2 DEF Lent, GivenInv
    <3>2. sfx'.timer = sfx.timer /\ sfx'.temp = IF r.inst = 0 THEN sfx.temp ELSE Kept(r.inst)
      BY <3>1 DEF LentRow, TypeOK
    <3>3. 0 \notin Number
      BY DEF Number
    <3>4. sfx'.temp = music'
      BY <3>1, <3>2, <3>3 DEF LentRow, Kept
    <3> QED  BY <3>1, <3>2, <3>4 DEF GivenInv
  <2>3. CASE ~Lent(v)
    BY <1>1, <1>5, <2>1, <2>3 DEF ReadRow, OwnRow
  <2> QED  BY <2>2, <2>3
<1>6. ASSUME NEW v \in Voice, Turn(v) PROVE GivenInv'
  BY <1>1, <1>6, TurnsAreOwn
<1>7. ASSUME NEW v \in Voice, Note(v) PROVE GivenInv'
  <2>1. /\ curins' = [curins EXCEPT ![v] = IF Selects(v) THEN row[v].inst ELSE curins[v]]
        /\ music' = IF v = SfxVoice /\ Selects(v) THEN row[v].inst ELSE music
        /\ UNCHANGED sfx
    BY <1>7 DEF Note, Chosen
  <2>2. sfx.timer # Idle => ~Selects(SfxVoice)
    BY DEF SfxInv, Selects, Number
  <2>3. CASE v = SfxVoice
    BY <1>0, <2>1, <2>2, <2>3 DEF GivenInv
  <2>4. CASE v # SfxVoice
    BY <1>0, <2>1, <2>4 DEF GivenInv
  <2> QED  BY <2>3, <2>4
<1>8. CASE \/ PlayCall \/ MultispeedCall \/ SfxNone \/ (\E v \in Voice : StepPattern(v))
           \/ UNCHANGED vars
  BY <1>1, <1>8 DEF PlayCall, MultispeedCall, SfxNone, StepPattern, vars, player, history
<1> QED
  BY <1>2, <1>3, <1>4, <1>5, <1>6, <1>7, <1>8 DEF Next, Turn

\* Without a sound effect the third voice has the instrument the music gave it last.
THEOREM EffectGivesBack == Spec => []GivenBack
<1>1. Init => GivenInv
  BY ThirdPlays DEF Init, GivenInv
<1>2. GivenInv => GivenBack
  BY DEF GivenInv, GivenBack
<1> QED
  BY <1>1, <1>2, InitTypes, StepTypes, SfxInvInit, SfxInvStep, GivenStep, PTL DEF Spec

-----------------------------------------------------------------------------
(* A note has had the restarts it asks for.                                 *)

\* The restarts of these ticks' bits the coming note asks for.
Due(v, bits) ==
  IF Restarts(v)
    THEN {<<t, Coming(v)>> : t \in {t \in bits : ~build.types \/ t \in Instruments[Coming(v)].restart}}
    ELSE {}

AtRestart(v) == stage = "restart" /\ v = Order[turn]

\* The restarts are those RestartsMatch tells.
Settled(v) ==
  restarts[v] = IF started[v] = 0 \/ slid[v] THEN {}
                  ELSE AskedFor(IF PastLimit(v) THEN row[v].inst ELSE started[v])

\* A voice comes to tick 2 with its restarts done and goes through it with its note
\* played: a sound that has started starts again, a note that slid has had no restart.
RestartInv(v) ==
  /\ tick[v] \in {0, 1} \/ AtRestart(v) => started[v] = 0 /\ ~slid[v]
  /\ tick[v] = 1 => restarts[v] = IF AtRestart(v) THEN {} ELSE Due(v, {2})
  /\ tick[v] = 2 /\ started[v] = 0 /\ ~slid[v] =>
       restarts[v] = IF AtRestart(v) THEN Due(v, {2}) ELSE Due(v, {1, 2})
  /\ tick[v] = 2 /\ started[v] # 0 /\ ~slid[v] =>
       Chosen(v) = started[v] /\ Sounds(v, started[v])
  /\ tick[v] = 2 /\ (started[v] # 0 \/ slid[v]) => Settled(v)
  /\ tick[v] = 3 /\ curins[v] # 0 => Settled(v)

\* The sound effect's voice is left out.
Counted(v) == ~(build.sfx /\ v = SfxVoice)

RestartsInv ==
  /\ stage = "restart" => tick[Order[turn]] \in {1, 2}
  /\ \A v \in Voice : Counted(v) => RestartInv(v)

\* What RestartInv says of a voice is about these.
Cells(v) == <<tick[v], row[v], owed[v], curins[v], started[v], slid[v], restarts[v]>>

\* A step that leaves a voice's cells alone leaves its restarts right.
LEMMA RestartKept ==
  ASSUME NEW v, RestartInv(v), UNCHANGED <<build, Cells(v)>>, AtRestart(v)' = AtRestart(v)
  PROVE  RestartInv(v)'
<1>1. Restarts(v)' = Restarts(v) /\ Coming(v)' = Coming(v)
  BY DEF Restarts, Coming, Cells
<1>2. Due(v, {2})' = Due(v, {2}) /\ Due(v, {1, 2})' = Due(v, {1, 2})
  BY <1>1 DEF Due
<1>3. Settled(v)' = Settled(v) /\ Chosen(v)' = Chosen(v) /\ Sounds(v, started[v])' = Sounds(v, started[v])
  BY DEF Settled, AskedFor, PastLimit, Chosen, Selects, Sounds, Cells
<1> QED  BY <1>2, <1>3 DEF RestartInv, Cells

\* A step of voice v's turn has only v to answer for.
LEMMA OthersKept ==
  ASSUME TypeOK, RestartsInv, NEW v \in Voice, v = Order[turn],
         stage # "call", UNCHANGED build, EndTurn \/ turn' = turn,
         \A w \in Voice \ {v} : UNCHANGED Cells(w),
         Counted(v) => RestartInv(v)',
         stage' = "restart" => turn' = turn /\ tick'[v] \in {1, 2}
  PROVE  RestartsInv'
<1>1. ASSUME NEW w \in Voice \ {v}, Counted(w) PROVE RestartInv(w)'
  <2>1. AtRestart(w)' = FALSE /\ AtRestart(w) = FALSE
    BY DEF AtRestart
  <2> QED  BY <1>1, <2>1, RestartKept DEF RestartsInv
<1>2. \A w \in Voice : Counted(w)' = Counted(w)
  BY DEF Counted
<1> QED  BY <1>1, <1>2 DEF RestartsInv

\* The turn of v that stays on its row.
LEMMA TurnKeeps ==
  ASSUME TypeOK, RestartsInv, NEW v \in Voice, v = Order[turn], stage # "call", EndTurn,
         UNCHANGED <<build, tick, row, owed, curins, started, slid>>,
         \A w \in Voice \ {v} : restarts'[w] = restarts[w],
         Counted(v) => RestartInv(v)'
  PROVE  RestartsInv'
<1>1. stage' # "restart"
  BY TurnEnds
<1> QED  BY <1>1, OthersKept DEF Cells

\* Every handler keeps the count of restarts right.
LEMMA RestartsStep == TypeOK /\ SfxInv /\ RestartsInv /\ [Next]_vars => RestartsInv'
<1> SUFFICES ASSUME TypeOK, SfxInv, RestartsInv, [Next]_vars PROVE RestartsInv'
  OBVIOUS
<1>0. UNCHANGED build
  BY BuildStays
<1>1. ASSUME stage # "restart", stage' # "restart",
             \A v \in Voice : Counted(v) => UNCHANGED Cells(v)
      PROVE  RestartsInv'
  <2>1. ASSUME NEW v \in Voice, Counted(v) PROVE RestartInv(v)'
    BY <1>0, <1>1, <2>1, RestartKept DEF RestartsInv, AtRestart
  <2>2. \A v \in Voice : Counted(v)' = Counted(v)
    BY <1>0 DEF Counted
  <2> QED  BY <1>1, <2>1, <2>2 DEF RestartsInv
<1>2. CASE PlayCall \/ MultispeedCall
  BY <1>1, <1>2 DEF PlayCall, MultispeedCall, First, Cells
<1>3. ASSUME NEW e \in Effects, SfxInit(e) PROVE RestartsInv'
  <2>1. ASSUME NEW v \in Voice, Counted(v) PROVE UNCHANGED Cells(v)
    BY <1>3, <2>1 DEF SfxInit, Counted, Cells, TypeOK
  <2> QED  BY <1>1, <1>3, <2>1 DEF SfxInit
<1>4. CASE SfxNone \/ SfxRuns
  BY <1>1, <1>4 DEF SfxNone, SfxRuns, GoesOn, player, history, Cells
<1>5. CASE SfxEnds
  <2>1. ASSUME NEW v \in Voice, Counted(v) PROVE UNCHANGED Cells(v)
    BY <1>5, <2>1 DEF SfxEnds, history, Counted, Cells, TypeOK
  <2> QED  BY <1>1, <1>5, <2>1 DEF SfxEnds, GoesOn
<1>6. CASE SfxStarts
  <2>1. ASSUME NEW v \in Voice, Counted(v) PROVE UNCHANGED Cells(v)
    <3>1. v # SfxVoice
      BY <1>6, <2>1 DEF SfxStarts, Counted, TypeOK
    <3>2. owed'[v] = owed[v]
      BY <1>6, <3>1 DEF SfxStarts, StartNote, NoteSlide, TypeOK
    <3>3. started'[v] = started[v]
      BY <1>6, <3>1, <2>1 DEF SfxStarts, StartNote
    <3> QED  BY <1>6, <3>2, <3>3 DEF SfxStarts, Cells
  <2> QED  BY <1>1, <1>6, <2>1 DEF SfxStarts, GoesOn
<1>13. CASE UNCHANGED vars
  <2>1. \A v \in Voice : AtRestart(v)' = AtRestart(v) /\ Counted(v)' = Counted(v)
    BY <1>13 DEF vars, AtRestart, Counted
  <2>2. \A v \in Voice : UNCHANGED <<build, Cells(v)>>
    BY <1>13 DEF vars, player, history, Cells
  <2> QED  BY <1>13, <2>1, <2>2, RestartKept DEF RestartsInv, vars, player
<1>7. ASSUME NEW v \in Voice, ReadRow(v) PROVE RestartsInv'
  <2>1. PICK r \in Rows[v] \cup {Empty} : IF Lent(v) THEN LentRow(v, r) ELSE OwnRow(v, r)
    BY <1>7 DEF ReadRow
  <2>2. v = Order[turn] /\ stage = "frame" /\ tick'[v] = 1 /\ restarts'[v] = {}
    BY <1>7 DEF ReadRow, TypeOK
  <2>3. (stage' = "restart" /\ turn' = turn) \/ (EndTurn /\ stage' # "restart")
    BY <2>1, <2>2, TurnEnds DEF LentRow, OwnRow
  <2>4. \A w \in Voice \ {v} : UNCHANGED Cells(w)
    BY <1>7, <2>1 DEF ReadRow, LentRow, OwnRow, Cells, TypeOK
  <2>5. ASSUME Counted(v) PROVE RestartInv(v)'
    <3>1. ~Lent(v)
      BY <2>5 DEF Counted, Lent
    <3>2. started'[v] = 0 /\ ~slid'[v] /\ stage' = "restart" /\ turn' = turn
      BY <1>7, <2>1, <3>1 DEF ReadRow, OwnRow, TypeOK
    <3> QED  BY <2>2, <3>2 DEF RestartInv, AtRestart
  <2> QED  BY <1>0, <2>2, <2>3, <2>4, <2>5, OthersKept
<1>8. ASSUME NEW v \in Voice, StepPattern(v) PROVE RestartsInv'
  <2>1. /\ v = Order[turn] /\ stage = "frame" /\ tick[v] = 1 /\ tick'[v] = 2
        /\ stage' = "restart" /\ turn' = turn
        /\ UNCHANGED <<build, row, owed, curins, started, slid, restarts>>
    BY <1>8 DEF StepPattern, TypeOK
  <2>2. \A w \in Voice \ {v} : UNCHANGED Cells(w)
    BY <1>8 DEF StepPattern, Cells, TypeOK
  <2>3. ASSUME Counted(v) PROVE RestartInv(v)'
    <3>1. started[v] = 0 /\ ~slid[v] /\ restarts[v] = Due(v, {2})
      BY <2>1, <2>3 DEF RestartsInv, RestartInv, AtRestart
    <3>2. Due(v, {2})' = Due(v, {2})
      BY <2>1 DEF Due, Restarts, Coming
    <3> QED  BY <2>1, <3>1, <3>2 DEF RestartInv, AtRestart
  <2> QED  BY <2>1, <2>2, <2>3, OthersKept
<1>9. ASSUME NEW v \in Voice,
             \/ /\ TrackEnds(v) \/ LaterFrame(v) \/ Multispeed(v)
                /\ stage # "restart"
             \/ NoRestart(v)
             \/ OtherRestart(v),
             UNCHANGED <<build, tick, row, owed, curins, started, slid, restarts>>
      PROVE  RestartsInv'
  <2>1. v = Order[turn] /\ stage # "call" /\ EndTurn
    BY <1>9, TurnsAreOwn DEF Turn
  <2>2. ASSUME Counted(v) PROVE RestartInv(v)'
    <3>1. AtRestart(v)' = FALSE
      BY <2>1, TurnEnds DEF AtRestart
    <3>2. CASE stage # "restart"
      BY <1>9, <2>2, <3>1, <3>2, RestartKept DEF RestartsInv, AtRestart, Cells
    <3>3. CASE stage = "restart"
      <4>1. tick[v] \in {1, 2} /\ RestartInv(v) /\ AtRestart(v)
        BY <2>1, <2>2, <3>3 DEF RestartsInv, AtRestart
      <4>2. Due(v, {2})' = Due(v, {2}) /\ Due(v, {1, 2})' = Due(v, {1, 2})
        BY <1>9 DEF Due, Restarts, Coming
      <4>3. ~Restarts(v) \/ ~AsksFor(v, Coming(v))
        BY <1>9, <3>3 DEF NoRestart, OtherRestart
      <4>4. CASE tick[v] = 1
        <5>1. Due(v, {2}) = {}
          BY <4>3, <4>4 DEF Due, AsksFor, Timer
        <5> QED  BY <1>9, <3>1, <4>1, <4>2, <4>4, <5>1 DEF RestartInv
      <4>5. CASE tick[v] = 2
        <5>1. Due(v, {1, 2}) = Due(v, {2})
          BY <4>3, <4>5 DEF Due, AsksFor, Timer
        <5> QED  BY <1>9, <3>1, <4>1, <4>2, <4>5, <5>1 DEF RestartInv
      <4> QED  BY <4>1, <4>4, <4>5
    <3> QED  BY <3>2, <3>3
  <2> QED  BY <1>9, <2>1, <2>2, TurnKeeps
<1>10. ASSUME NEW v \in Voice,
              TrackEnds(v) \/ NoRestart(v) \/ OtherRestart(v) \/ LaterFrame(v) \/ Multispeed(v)
       PROVE  RestartsInv'
  <2>1. UNCHANGED <<build, tick, row, owed, curins, started, slid, restarts>>
    BY <1>10 DEF TrackEnds, NoRestart, OtherRestart, LaterFrame, Multispeed
  <2>2. TrackEnds(v) \/ LaterFrame(v) \/ Multispeed(v) => stage # "restart"
    BY DEF TrackEnds, LaterFrame, Multispeed
  <2> QED  BY <1>9, <1>10, <2>1, <2>2
<1>11. ASSUME NEW v \in Voice, HardRestart(v) PROVE RestartsInv'
  <2>1. /\ v = Order[turn] /\ stage = "restart" /\ EndTurn
        /\ UNCHANGED <<build, tick, row, owed, curins, started, slid>>
        /\ Restarts(v) /\ AsksFor(v, Coming(v))
    BY <1>11 DEF HardRestart
  <2>2. restarts' = [restarts EXCEPT ![v] = restarts[v] \cup {<<Timer(v), Coming(v)>>}]
    BY <1>11 DEF HardRestart
  <2>3. restarts'[v] = restarts[v] \cup {<<Timer(v), Coming(v)>>}
    BY <2>2 DEF TypeOK
  <2>4. ASSUME Counted(v) PROVE RestartInv(v)'
    <3>1. AtRestart(v)' = FALSE
      BY <2>1, TurnEnds DEF AtRestart
    <3>2. tick[v] \in {1, 2} /\ RestartInv(v) /\ AtRestart(v)
      BY <2>1, <2>4 DEF RestartsInv, AtRestart
    <3>3. Due(v, {2})' = Due(v, {2}) /\ Due(v, {1, 2})' = Due(v, {1, 2})
      BY <2>1 DEF Due, Restarts, Coming
    <3>4. CASE tick[v] = 1
      <4>1. Due(v, {2}) = {<<2, Coming(v)>>}
        BY <2>1, <3>4 DEF Due, AsksFor, Timer
      <4> QED  BY <2>1, <2>3, <3>1, <3>2, <3>3, <3>4, <4>1 DEF RestartInv, Timer
    <3>5. CASE tick[v] = 2
      <4>1. Due(v, {1, 2}) = Due(v, {2}) \cup {<<1, Coming(v)>>}
        BY <2>1, <3>5 DEF Due, AsksFor, Timer
      <4> QED  BY <2>1, <2>3, <3>1, <3>2, <3>3, <3>5, <4>1 DEF RestartInv, Timer
    <3> QED  BY <3>2, <3>4, <3>5
  <2>5. \A w \in Voice \ {v} : restarts'[w] = restarts[w]
    BY <2>2 DEF TypeOK
  <2> QED  BY <2>1, <2>4, <2>5, TurnKeeps
<1>12. ASSUME NEW v \in Voice, Note(v) PROVE RestartsInv'
  <2> DEFINE c == Chosen(v)
  <2>1. /\ v = Order[turn] /\ stage = "frame" /\ tick[v] = 2 /\ EndTurn
        /\ StartNote(v, c, Mask(v)) /\ curins' = [curins EXCEPT ![v] = c]
        /\ UNCHANGED <<build, row, restarts>>
    BY <1>12 DEF Note
  <2>2. PICK t \in AfterNote(v, c) : tick' = [tick EXCEPT ![v] = t]
    BY <1>12 DEF Note
  <2>3. /\ owed' = [owed EXCEPT ![v] = owed'[v]]
        /\ started' = [started EXCEPT ![v] = IF Sounds(v, c) THEN c ELSE started[v]]
    BY <2>1 DEF StartNote, NoteSlide, TypeOK
  <2>4. slid' = [slid EXCEPT ![v] = slid[v] \/ (c # 0 /\ row[v].note = "note" /\ ~Sounds(v, c))]
    BY <1>12 DEF Note
  <2>5. \A w \in Voice \ {v} : UNCHANGED Cells(w)
    BY <2>1, <2>2, <2>3, <2>4 DEF Cells, TypeOK
  <2>6. stage' # "restart" /\ tick'[v] = t /\ t \in {2, 3} /\ curins'[v] = c /\ c \in Slot
    BY <2>1, <2>2, TurnEnds DEF AfterNote, Chosen, Selects, Number, TypeOK
  <2>7. /\ started'[v] = IF Sounds(v, c) THEN c ELSE started[v]
        /\ slid'[v] <=> slid[v] \/ (c # 0 /\ row[v].note = "note" /\ ~Sounds(v, c))
    BY <2>3, <2>4 DEF TypeOK
  <2>8. /\ Sounds(v, c) => ~owed'[v]
        /\ c = 0 /\ t = 2 => owed'[v] = owed[v]
    <3>1. NoteSlide(v, c) /\ (t = 2 => row[v].fx = "delay")
      BY <2>1, <2>2 DEF StartNote, AfterNote
    <3> HIDE DEF c
    <3> QED  BY <3>1 DEF NoteSlide, Sounds, TypeOK
  <2>9. Chosen(v)' = c /\ PastLimit(v)' = PastLimit(v) /\ AtRestart(v)' = FALSE
    BY <2>1, <2>6 DEF Chosen, Selects, PastLimit, AtRestart
  <2>10. Coming(v) = IF PastLimit(v) THEN row[v].inst ELSE c
    <3>1. row[v].inst \in Number => row[v].inst \in Nat
      BY SlotsCount DEF Number
    <3>2. build.limit \in Nat
      BY BuildsAreBuilds DEF TypeOK, Build
    <3> QED  BY <3>1, <3>2 DEF Coming, Chosen, Selects, PastLimit
  <2> HIDE DEF c
  <2>11. ASSUME Counted(v) PROVE RestartInv(v)'
    <3>1. RestartInv(v) /\ ~AtRestart(v)
      BY <2>1, <2>11 DEF RestartsInv, AtRestart
    <3>2. ASSUME Sounds(v, c), started'[v] = c PROVE Sounds(v, started[v])'
      BY <2>1, <2>8, <3>2 DEF Sounds
    <3>3. AskedFor(IF PastLimit(v) THEN row[v].inst ELSE started[v])'
            = AskedFor(IF PastLimit(v) THEN row[v].inst ELSE started'[v])
      BY <2>1, <2>9 DEF AskedFor
    <3>4. CASE slid[v]
      <4>1. restarts[v] = {} /\ slid'[v]
        BY <2>1, <2>7, <3>1, <3>4 DEF RestartInv, Settled
      <4> QED  BY <2>1, <2>6, <2>9, <4>1 DEF RestartInv, Settled
    <3>5. CASE ~slid[v] /\ started[v] # 0
      <4>1. c = started[v] /\ Sounds(v, c) /\ Settled(v)
        BY <2>1, <2>9, <3>1, <3>5 DEF RestartInv, c
      <4>2. started'[v] = c /\ ~slid'[v] /\ c # 0
        BY <2>7, <3>5, <4>1
      <4>3. Settled(v)'
        BY <2>1, <2>9, <3>3, <3>5, <4>1, <4>2 DEF Settled
      <4> QED  BY <2>6, <2>9, <3>2, <4>1, <4>2, <4>3 DEF RestartInv
    <3>6. CASE ~slid[v] /\ started[v] = 0 /\ c # 0 /\ Sounds(v, c)
      <4>1. started'[v] = c /\ ~slid'[v]
        BY <2>7, <3>6
      <4>2. restarts[v] = Due(v, {1, 2}) /\ Restarts(v)
        BY <2>1, <3>1, <3>6 DEF RestartInv, Restarts, Sounds
      <4>3. Coming(v) \in Slot
        BY DEF Coming, Number, TypeOK
      <4>4. {k \in {1, 2} : ~build.types \/ k \in Instruments[Coming(v)].restart}
              = IF build.types THEN Instruments[Coming(v)].restart ELSE {1, 2}
        BY <4>3, RestartsAsked
      <4>5. restarts'[v] = AskedFor(Coming(v))
        BY <2>1, <4>2, <4>4 DEF Due, AskedFor
      <4>6. Settled(v)'
        BY <2>1, <2>9, <2>10, <3>3, <3>6, <4>1, <4>5 DEF Settled
      <4> QED  BY <2>6, <2>9, <3>2, <3>6, <4>1, <4>6 DEF RestartInv
    <3>7. CASE ~slid[v] /\ started[v] = 0 /\ c # 0 /\ ~Sounds(v, c)
      <4>1. started'[v] = 0 /\ (slid'[v] <=> row[v].note = "note")
        BY <2>7, <3>7
      <4>2. ~Restarts(v) /\ restarts'[v] = {}
        BY <2>1, <3>1, <3>7 DEF RestartInv, Restarts, Sounds, Due
      <4>3. ~slid'[v] => Due(v, {1, 2})' = {}
        BY <2>1, <4>1 DEF Due, Restarts
      <4> QED  BY <2>6, <2>9, <4>1, <4>2, <4>3 DEF RestartInv, Settled
    <3>8. CASE ~slid[v] /\ started[v] = 0 /\ c = 0
      <4>1. started'[v] = 0 /\ ~slid'[v] /\ restarts[v] = Due(v, {1, 2})
        BY <2>1, <2>7, <3>1, <3>8 DEF RestartInv, Sounds
      <4>2. curins[v] = 0
        BY <3>8 DEF c, Chosen, Selects, Number
      <4>3. t = 2 => Due(v, {1, 2})' = Due(v, {1, 2})
        BY <2>1, <2>6, <2>8, <3>8, <4>2 DEF Due, Restarts, Coming
      <4> QED  BY <2>1, <2>6, <2>9, <3>8, <4>1, <4>3 DEF RestartInv
    <3> QED  BY <3>4, <3>5, <3>6, <3>7, <3>8
  <2> QED  BY <2>1, <2>5, <2>6, <2>11, OthersKept
<1> QED
  BY <1>2, <1>3, <1>4, <1>5, <1>6, <1>7, <1>8, <1>10, <1>11, <1>12, <1>13 DEF Next

\* A note has had the restarts of the instrument its row restarts for, if it started a
\* sound at its first tick 2, and none otherwise.
THEOREM RestartsAsTold == Spec => []RestartsMatch
<1>1. Init => RestartsInv
  BY DEF Init, RestartsInv, RestartInv
<1>2. RestartsInv => RestartsMatch
  BY DEF RestartsInv, RestartInv, Settled, RestartsMatch, Counted
<1> QED
  BY <1>1, <1>2, InitTypes, StepTypes, SfxInvInit, SfxInvStep, RestartsStep, PTL DEF Spec

-----------------------------------------------------------------------------
(* A sound effect is heard.                                                 *)

EffectInv ==
  build.sfx =>
    /\ row[SfxVoice].fx # "portamento"
    /\ sfx.timer # Idle => curins[SfxVoice] # 0
    /\ sfx.timer > 0 /\ sfx.timer = sfx.leng => ~owed[SfxVoice]
    /\ sfx.timer # Idle /\ sfx.timer < sfx.leng => started[SfxVoice] # 0

\* What EffectInv says is about these.
EffectCells == <<build, row, curins, owed, sfx, started[SfxVoice]>>

\* A turn that only runs tables starts nothing.
LEMMA TurnsStartNothing ==
  ASSUME NEW v \in Voice, Turn(v) PROVE UNCHANGED <<started, sounding>>
BY DEF Turn, TrackEnds, NoRestart, OtherRestart, HardRestart, LaterFrame, Multispeed

\* Without a portamento row every handler keeps a playing effect's sound.
LEMMA EffectStep ==
  NoPortamento(Rows[SfxVoice]) /\ TypeOK /\ SfxInv /\ EffectInv /\ [Next]_vars => EffectInv'
<1> SUFFICES ASSUME NoPortamento(Rows[SfxVoice]), TypeOK, SfxInv, EffectInv, [Next]_vars, build.sfx
             PROVE  EffectInv'
  BY BuildStays DEF EffectInv
<1> USE TimerTypes DEF Idle
<1>0. /\ SfxVoice \in Voice /\ SfxVoice = Order[1]
      /\ curins \in [Voice -> Slot] /\ row \in [Voice -> Row]
      /\ started \in [Voice -> Slot] /\ owed \in [Voice -> BOOLEAN]
  BY ThirdPlays DEF TypeOK
<1>1. CASE UNCHANGED EffectCells
  BY <1>1 DEF EffectInv, EffectCells
<1>2. ASSUME NEW e \in Effects, SfxInit(e) PROVE EffectInv'
  <2>1. sfx'.timer = sfx'.leng /\ sfx'.timer \in 0 .. 127
    BY <1>2, EffectsSound DEF SfxInit
  <2>2. curins'[SfxVoice] # 0 /\ ~owed'[SfxVoice]
    BY <1>0, <1>2, EffectsSound, SlotsCount DEF SfxInit, Number
  <2>3. row'[SfxVoice].fx = row[SfxVoice].fx
    <3>1. row'[SfxVoice] = [row[SfxVoice] EXCEPT !.note = "note", !.inst = 0]
      BY <1>0, <1>2 DEF SfxInit
    <3> QED  BY <1>0, <3>1 DEF Row
  <2> QED  BY <2>1, <2>2, <2>3 DEF EffectInv
<1>3. CASE SfxEnds
  BY <1>3, CountTypes DEF SfxEnds, EffectInv
<1>4. CASE SfxRuns
  BY SMTT(20), <1>4, CountTypes DEF SfxRuns, history, SfxInv, EffectInv
<1>5. CASE SfxStarts
  <2> DEFINE c == curins[SfxVoice]
  <2>1. PICK counts \in SUBSET Part : StartNote(SfxVoice, c, counts)
    BY <1>5 DEF SfxStarts
  <2>2. c # 0 /\ row[SfxVoice].note = "note" /\ row[SfxVoice].inst = 0 /\ ~owed[SfxVoice]
    BY <1>5 DEF SfxStarts, SfxInv, EffectInv
  <2>3. Sounds(SfxVoice, c)
    BY <2>2, NoNumber DEF Sounds, EffectInv
  <2>4. started'[SfxVoice] = c
    BY <1>0, <2>1, <2>3 DEF StartNote
  <2>5. sfx'.timer = sfx.timer - 1 /\ sfx'.leng = sfx.leng /\ UNCHANGED <<build, row, curins>>
    BY <1>5, CountTypes DEF SfxStarts
  <2> QED  BY <1>5, <2>2, <2>4, <2>5 DEF SfxStarts, EffectInv
<1>6. ASSUME NEW v \in Voice, ReadRow(v) PROVE EffectInv'
  <2>1. PICK r \in Rows[v] \cup {Empty} : IF Lent(v) THEN LentRow(v, r) ELSE OwnRow(v, r)
    BY <1>6 DEF ReadRow
  <2>2. UNCHANGED <<build, curins, owed>>
    BY <1>6 DEF ReadRow
  <2>3. v = SfxVoice => r.fx # "portamento"
    BY DEF NoPortamento, Empty
  <2>4. CASE Lent(v)
    <3>1. sfx'.timer = sfx.timer /\ sfx'.leng = sfx.leng /\ UNCHANGED started
      BY <2>1, <2>4 DEF LentRow, TypeOK
    <3>2. row'[SfxVoice] = Empty
      BY <1>0, <2>1, <2>4 DEF LentRow, Lent
    <3> QED  BY <2>2, <3>1, <3>2 DEF EffectInv, Empty
  <2>5. CASE ~Lent(v)
    <3>1. UNCHANGED sfx /\ row' = [row EXCEPT ![v] = r] /\ started' = [started EXCEPT ![v] = 0]
      BY <2>1, <2>5 DEF OwnRow
    <3>2. CASE v = SfxVoice
      BY <1>0, <2>2, <2>3, <2>5, <3>1, <3>2 DEF EffectInv, Lent
    <3>3. CASE v # SfxVoice
      BY <1>0, <2>2, <3>1, <3>3 DEF EffectInv
    <3> QED  BY <3>2, <3>3
  <2> QED  BY <2>4, <2>5
<1>7. ASSUME NEW v \in Voice, Turn(v) PROVE EffectInv'
  BY <1>1, <1>7, TurnsAreOwn, TurnsStartNothing DEF EffectCells
<1>8. ASSUME NEW v \in Voice, Note(v) PROVE EffectInv'
  <2> DEFINE c == Chosen(v)
  <2>1. /\ StartNote(v, c, Mask(v)) /\ curins' = [curins EXCEPT ![v] = c]
        /\ stage = "frame" /\ UNCHANGED <<build, row, sfx>>
    BY <1>8 DEF Note
  <2> HIDE DEF c
  <2>2. sfx.timer # Idle => row[SfxVoice].inst = 0 /\ ~(sfx.timer > 0 /\ sfx.timer = sfx.leng)
    BY <2>1 DEF SfxInv
  <2>3. v = SfxVoice /\ sfx.timer # Idle => c # 0
    BY <2>2 DEF Number, c, Chosen, Selects, EffectInv
  <2>4. started' = [started EXCEPT ![v] = IF Sounds(v, c) THEN c ELSE @]
    BY <2>1 DEF StartNote
  <2>5. sfx.timer # Idle /\ sfx.timer < sfx.leng => started'[SfxVoice] # 0
    BY <1>0, <2>3, <2>4 DEF EffectInv
  <2>6. sfx.timer # Idle => curins'[SfxVoice] # 0
    BY <1>0, <2>1, <2>3 DEF EffectInv
  <2> QED  BY <2>1, <2>2, <2>5, <2>6 DEF EffectInv
<1>9. CASE \/ PlayCall \/ MultispeedCall \/ SfxNone \/ (\E v \in Voice : StepPattern(v))
           \/ UNCHANGED vars
  BY <1>1, <1>9 DEF PlayCall, MultispeedCall, SfxNone, StepPattern, vars, player, history, EffectCells
<1> QED
  BY <1>2, <1>3, <1>4, <1>5, <1>6, <1>7, <1>8, <1>9 DEF Next, Turn

\* From its first frame on a sound effect sounds, if no row of the third voice asks for a
\* tone portamento.
THEOREM EffectIsHeard == NoPortamento(Rows[SfxVoice]) => (Spec => []EffectSounds)
<1>1. Init => EffectInv
  BY ThirdPlays DEF Init, EffectInv, Empty, Idle
<1>2. EffectInv => EffectSounds
  BY DEF EffectInv, EffectSounds
<1>3. CASE NoPortamento(Rows[SfxVoice])
  BY <1>1, <1>2, <1>3, InitTypes, StepTypes, SfxInvInit, SfxInvStep, EffectStep, PTL DEF Spec
<1> QED  BY <1>3

-----------------------------------------------------------------------------
(* The positions a sounding voice reads.                                    *)

\* The positions are those of the instrument the voice sounds.
PositionInv(v) ==
  sounding[v] # 0 =>
    /\ pulse[v] = sounding[v]
    /\ fltctrl = v => fltposi = sounding[v] \/ HandsOver(sounding[v])

\* A voice that selects with its notes sounds the instrument it has.
SelectInv(v) ==
  SelectsBySound(v) =>
    /\ row[v] \in Rows[v] \cup {Empty}
    /\ sounding[v] = curins[v] /\ ~owed[v]

\* A voice whose rows keep no position has one of the instruments they select.
Positionless(r, v) ==
  /\ r.inst \in Number => r.inst \in Selected(v)
  /\ r.fx \notin {"pulse", "filter"}
  /\ r.note = "gateoff" => \A i \in Selected(v) : ~Instruments[i].gateoff
KeepInv(v) ==
  KeepsNoPosition(v) =>
    /\ curins[v] \in Selected(v) \cup {0}
    /\ v = SfxVoice => sfx.temp \in Selected(v) \cup {0}
    /\ Positionless(row[v], v)

VoiceInv(v) == PositionInv(v) /\ SelectInv(v) /\ KeepInv(v)
VoicesInv == \A v \in Voice : VoiceInv(v)

\* What VoiceInv says of a voice is about these, and the filter if the voice owns it.
VoiceCells(v) == <<row[v], curins[v], owed[v], pulse[v], sounding[v]>>
FilterKept(v) == fltctrl' = v => fltctrl = v /\ fltposi' = fltposi

\* A step that leaves a voice's cells alone leaves its invariant.
LEMMA VoiceKept ==
  ASSUME NEW v, VoiceInv(v), UNCHANGED <<build, VoiceCells(v)>>, FilterKept(v),
         v = SfxVoice => sfx'.temp = sfx.temp
  PROVE  VoiceInv(v)'
<1>1. PositionInv(v)'
  BY DEF VoiceInv, PositionInv, VoiceCells, FilterKept, HandsOver
<1>2. SelectInv(v)'
  BY DEF VoiceInv, SelectInv, VoiceCells
<1>3. KeepInv(v)'
  BY DEF VoiceInv, KeepInv, VoiceCells, Positionless
<1> QED  BY <1>1, <1>2, <1>3 DEF VoiceInv

\* A tidy row without columns.
LEMMA EmptyPositionless ==
  ASSUME NEW v PROVE Positionless(Empty, v)
BY DEF Positionless, Empty, Number

\* The start of a note leaves the other voices' positions alone, and the filter to its
\* owner: a tidy row takes it if it moves its position.
LEMMA NoteOthers ==
  ASSUME TypeOK, NEW v \in Voice, NEW c \in Slot, NEW counts, StartNote(v, c, counts),
         row[v].fx = "filter" => /\ Sounds(v, c) /\ Resets("filter", c, counts)
                                 /\ Instruments[c].filter = "table",
         NEW w, w # v
  PROVE  /\ UNCHANGED <<pulse[w], owed[w], sounding[w]>>
         /\ FilterKept(w)
<1> DEFINE p == IF c = 0 THEN ins ELSE c
<1>1. NoteFilter(v, c, counts, p) /\ NotePulse(v, c, counts, p) /\ NoteSlide(v, c)
  BY DEF StartNote
<1>2. UNCHANGED <<pulse[w], owed[w]>>
  BY <1>1 DEF NotePulse, NoteSlide, TypeOK
<1>3. UNCHANGED sounding[w]
  BY DEF StartNote, TypeOK
<1>4. FilterKept(w)
  <2>1. CASE HasEffects(c) /\ row[v].fx = "filter"
    <3>1. fltctrl' = v
      BY <1>1, <2>1 DEF NoteFilter
    <3> QED  BY <3>1 DEF FilterKept
  <2>2. CASE ~(HasEffects(c) /\ row[v].fx = "filter")
    BY <1>1, <2>2 DEF NoteFilter, StartFilter, FilterKept
  <2> QED  BY <2>1, <2>2
<1> QED  BY <1>2, <1>3, <1>4

\* A sound that takes every position it resets, or is the voice's own again, leaves the
\* positions those of the sound.
LEMMA SoundPositions ==
  ASSUME TypeOK, NEW v \in Voice, NEW c \in Slot, NEW counts, StartNote(v, c, counts),
         UNCHANGED build, PositionInv(v), Sounds(v, c),
         sounding[v] = c \/ (Resets("pulse", c, counts) /\ Resets("filter", c, counts)),
         row[v].fx = "filter" => Resets("filter", c, counts) /\ Instruments[c].filter = "table"
  PROVE  PositionInv(v)'
<1>1. c # 0 /\ row[v].note = "note"
  BY DEF Sounds
<1>2. NoteFilter(v, c, counts, c) /\ NotePulse(v, c, counts, c)
  BY <1>1 DEF StartNote
<1>3. sounding'[v] = c
  BY DEF StartNote, TypeOK
<1>4. pulse'[v] = c
  <2>1. pulse'[v] = c \/ (pulse'[v] = pulse[v] /\ sounding[v] = c)
    BY <1>2 DEF NotePulse, TypeOK
  <2> QED  BY <1>1, <2>1 DEF PositionInv
<1>5. ASSUME fltctrl' = v PROVE fltposi' = c \/ HandsOver(c)'
  <2>1. CASE HasEffects(c) /\ row[v].fx = "filter"
    BY <1>2, <2>1 DEF NoteFilter
  <2>2. CASE ~(HasEffects(c) /\ row[v].fx = "filter") /\ Resets("filter", c, counts)
    <3>1. StartFilter(v, c)
      BY <1>2, <2>2 DEF NoteFilter
    <3> QED  BY <1>5, <3>1, FiltersPoint DEF StartFilter, HandsOver
  <2>3. CASE ~Resets("filter", c, counts)
    <3>1. UNCHANGED <<fltctrl, fltposi>> /\ sounding[v] = c
      BY <1>1, <1>2, <2>3 DEF NoteFilter, GateOff
    <3> QED  BY <1>1, <1>5, <3>1 DEF PositionInv, HandsOver
  <2> QED  BY <2>1, <2>2, <2>3
<1> QED  BY <1>3, <1>4, <1>5 DEF PositionInv

\* A note that starts no sound leaves the positions those of the last one: no row moves a
\* position without a sound but for the voice's own instrument, the one it sounds.
LEMMA SilentPositions ==
  ASSUME TypeOK, NEW v \in Voice, NEW c \in Slot, NEW counts, StartNote(v, c, counts),
         UNCHANGED build, PositionInv(v), ~Sounds(v, c),
         \/ c = 0 /\ sounding[v] = 0
         \/ sounding[v] = c /\ row[v].fx # "filter"
         \/ row[v].fx \notin {"pulse", "filter"} /\ ~GateOff(v, c)
  PROVE  PositionInv(v)'
<1> DEFINE p == IF c = 0 THEN ins ELSE c
<1>1. NoteFilter(v, c, counts, p) /\ NotePulse(v, c, counts, p) /\ sounding'[v] = sounding[v]
  BY DEF StartNote, TypeOK
<1>2. CASE sounding[v] = 0
  BY <1>1, <1>2 DEF PositionInv
<1>3. CASE sounding[v] = c /\ c # 0 /\ row[v].fx # "filter"
  <2>1. pulse'[v] \in {c, pulse[v]}
    BY <1>1, <1>3 DEF NotePulse, TypeOK
  <2>2. fltctrl' = fltctrl /\ (fltposi' = fltposi \/ fltposi' = c)
    BY <1>1, <1>3 DEF NoteFilter
  <2> QED  BY <1>1, <1>3, <2>1, <2>2 DEF PositionInv, HandsOver
<1>4. CASE row[v].fx \notin {"pulse", "filter"} /\ ~GateOff(v, c)
  <2>1. UNCHANGED <<pulse[v], fltctrl, fltposi>>
    BY <1>1, <1>4 DEF NotePulse, NoteFilter, TypeOK
  <2> QED  BY <1>1, <2>1 DEF PositionInv, HandsOver
<1> QED  BY <1>2, <1>3, <1>4

\* A voice's note, of a row or of an effect, keeps what VoiceInv says of every voice.
LEMMA NoteVoices ==
  ASSUME TidyRows, TypeOK, SfxInv, VoicesInv, NEW v \in Voice, NEW c \in Slot, NEW counts \in SUBSET Part,
         StartNote(v, c, counts), UNCHANGED <<build, row>>, sfx'.temp = sfx.temp,
         curins' = [curins EXCEPT ![v] = c],
         \/ c = Chosen(v) /\ counts = Mask(v)
         \/ c = curins[v] /\ v = SfxVoice /\ build.sfx
  PROVE  VoicesInv'
<1>1. VoiceInv(v)
  BY DEF VoicesInv
<1>2. UNCHANGED row[v] /\ curins'[v] = c
  BY DEF TypeOK
<1>3. owed'[v] => owed[v] \/ row[v].note = "porta"
  <2>1. NoteSlide(v, c)
    BY DEF StartNote
  <2> QED  BY <2>1 DEF NoteSlide, TypeOK
<1>4. sounding'[v] = IF Sounds(v, c) THEN c ELSE sounding[v]
  BY DEF StartNote, TypeOK
<1>5. CASE SelectsBySound(v)
  <2>1. row[v] \in Rows[v] \cup {Empty} /\ sounding[v] = curins[v] /\ ~owed[v]
    BY <1>1, <1>5 DEF VoiceInv, SelectInv
  <2>2. /\ row[v].note # "porta"
        /\ row[v].inst \in Number => row[v].note = "note" /\ row[v].fx # "portamento"
        /\ row[v].fx = "filter" => Selects(v) /\ Instruments[row[v].inst].filter = "table"
    BY <1>5, <2>1 DEF SelectsBySound, Selects, Empty, Number, TypeOK
  <2>3. c = Chosen(v) /\ counts = Mask(v)
    BY <1>5 DEF SelectsBySound, TypeOK
  <2>4. Selects(v) => Sounds(v, c) /\ counts = {} /\ c = row[v].inst
    BY <2>1, <2>2, <2>3, NoNumber, SlotsCount DEF Sounds, Mask, Chosen, Selects, Number
  <2>5. ~Selects(v) => c = sounding[v] /\ row[v].fx # "filter"
    BY <2>1, <2>2, <2>3 DEF Chosen
  <2>6. counts = {} => Resets("pulse", c, counts) /\ Resets("filter", c, counts)
    BY DEF Resets
  <2>7. PositionInv(v)'
    <3>1. CASE Sounds(v, c)
      BY <1>1, <2>2, <2>4, <2>5, <2>6, <3>1, SoundPositions DEF VoiceInv
    <3>2. CASE ~Sounds(v, c)
      BY <1>1, <2>4, <2>5, <3>2, SilentPositions DEF VoiceInv
    <3> QED  BY <3>1, <3>2
  <2>8. SelectInv(v)'
    <3>1. sounding'[v] = c /\ ~owed'[v]
      BY <1>3, <1>4, <2>1, <2>2, <2>4, <2>5 DEF TypeOK
    <3> QED  BY <1>2, <2>1, <3>1 DEF SelectInv
  <2>9. KeepInv(v)'
    <3>1. KeepsNoPosition(v) => c \in Selected(v) \cup {0}
      BY <1>1, <2>3 DEF VoiceInv, KeepInv, Positionless, Chosen, Selects
    <3> QED  BY <1>1, <1>2, <3>1 DEF VoiceInv, KeepInv, Positionless
  <2>10. row[v].fx = "filter" => /\ Sounds(v, c) /\ Resets("filter", c, counts)
                                 /\ Instruments[c].filter = "table"
    BY <2>2, <2>4, <2>6
  <2>11. ASSUME NEW w \in Voice, w # v PROVE VoiceInv(w)'
    <3>1. UNCHANGED <<pulse[w], owed[w], sounding[w]>> /\ FilterKept(w)
      BY <2>10, <2>11, NoteOthers
    <3>2. UNCHANGED VoiceCells(w)
      BY <2>11, <3>1 DEF VoiceCells, TypeOK
    <3>3. VoiceInv(w)
      BY DEF VoicesInv
    <3> QED  BY <3>1, <3>2, <3>3, VoiceKept
  <2> QED  BY <2>7, <2>8, <2>9, <2>11 DEF VoicesInv, VoiceInv
<1>6. CASE KeepsNoPosition(v) /\ ~SelectsBySound(v)
  <2>1. curins[v] \in Selected(v) \cup {0} /\ Positionless(row[v], v)
    BY <1>1, <1>6 DEF VoiceInv, KeepInv
  <2>2. c \in Selected(v) \cup {0}
    BY <2>1 DEF Positionless, Chosen, Selects
  <2>3. row[v].fx \notin {"pulse", "filter"} /\ ~GateOff(v, c)
    BY <2>1, <2>2 DEF Positionless, GateOff
  <2>4. c # 0 => Resets("pulse", c, counts) /\ Resets("filter", c, counts)
    BY <1>6, <2>2 DEF KeepsNoPosition, Resets
  <2>5. PositionInv(v)'
    <3>1. CASE Sounds(v, c)
      BY <1>1, <2>3, <2>4, <3>1, SoundPositions DEF VoiceInv, Sounds
    <3>2. CASE ~Sounds(v, c)
      BY <1>1, <2>3, <3>2, SilentPositions DEF VoiceInv
    <3> QED  BY <3>1, <3>2
  <2>6. KeepInv(v)'
    BY <1>1, <1>2, <2>1, <2>2 DEF VoiceInv, KeepInv, Positionless
  <2>7. SelectInv(v)'
    BY <1>6 DEF SelectInv
  <2>8. ASSUME NEW w \in Voice, w # v PROVE VoiceInv(w)'
    <3>1. UNCHANGED <<pulse[w], owed[w], sounding[w]>> /\ FilterKept(w)
      BY <2>3, <2>8, NoteOthers
    <3>2. UNCHANGED VoiceCells(w)
      BY <2>8, <3>1 DEF VoiceCells, TypeOK
    <3>3. VoiceInv(w)
      BY DEF VoicesInv
    <3> QED  BY <3>1, <3>2, <3>3, VoiceKept
  <2> QED  BY <2>5, <2>6, <2>7, <2>8 DEF VoicesInv, VoiceInv
<1> QED  BY <1>5, <1>6 DEF TidyRows

\* A row of a tidy voice that keeps no position.
LEMMA RowPositionless ==
  ASSUME NEW v \in Voice, KeepsNoPosition(v), NEW r \in Rows[v] \cup {Empty}
  PROVE  Positionless(r, v)
BY EmptyPositionless DEF KeepsNoPosition, Positionless, Selected

\* With tidy rows every handler keeps VoicesInv.
LEMMA VoicesStep == TidyRows /\ TypeOK /\ SfxInv /\ VoicesInv /\ [Next]_vars => VoicesInv'
<1> SUFFICES ASSUME TidyRows, TypeOK, SfxInv, VoicesInv, [Next]_vars PROVE VoicesInv'
  OBVIOUS
<1>0. UNCHANGED build
  BY BuildStays
<1>1. CASE UNCHANGED <<row, curins, owed, pulse, sounding, fltctrl, fltposi, sfx>>
  BY <1>0, <1>1, VoiceKept DEF VoicesInv, VoiceCells, FilterKept
<1>2. ASSUME NEW e \in Effects, SfxInit(e), NEW v \in Voice PROVE VoiceInv(v)'
  <2>1. build.sfx /\ VoiceInv(v)
    BY <1>2 DEF SfxInit, VoicesInv
  <2>2. FilterKept(v)
    BY <1>2 DEF SfxInit, FilterKept
  <2>3. CASE v # SfxVoice
    <3>1. UNCHANGED VoiceCells(v)
      BY <1>2, <2>3 DEF SfxInit, TypeOK, VoiceCells
    <3> QED  BY <1>0, <2>1, <2>2, <2>3, <3>1, VoiceKept
  <2>4. CASE v = SfxVoice
    <3>1. UNCHANGED <<pulse, sounding, fltctrl, fltposi>> /\ curins'[v] = e.inst
      BY <1>2, <2>4 DEF SfxInit, TypeOK
    <3>2. PositionInv(v)'
      BY <1>0, <2>1, <3>1 DEF VoiceInv, PositionInv, HandsOver
    <3>3. SelectInv(v)'
      BY <2>1, <2>4 DEF SelectInv, SelectsBySound, TypeOK
    <3>4. KeepInv(v)'
      <4> SUFFICES ASSUME KeepsNoPosition(v) PROVE KeepInv(v)'
        BY DEF KeepInv
      <4>1. /\ curins[v] \in Selected(v) \cup {0} /\ sfx.temp \in Selected(v) \cup {0}
            /\ Positionless(row[v], v)
        BY <2>1, <2>4 DEF VoiceInv, KeepInv
      <4>2. e.inst \in Selected(v)
        BY <2>4, EffectsSound DEF Selected
      <4>3. sfx'.temp \in Selected(v) \cup {0}
        BY <1>2, <2>4, <4>1 DEF SfxInit, SfxTemp
      <4>4. row'[v] = [row[v] EXCEPT !.note = "note", !.inst = 0]
        BY <1>2, <2>4 DEF SfxInit, TypeOK
      <4>5. row[v] \in Row
        BY DEF TypeOK
      <4>6. row'[v].note = "note" /\ row'[v].inst = 0 /\ row'[v].fx = row[v].fx
        BY <4>4, <4>5 DEF Row
      <4>7. Positionless(row'[v], v)
        BY <4>1, <4>6 DEF Positionless, Number
      <4> QED  BY <3>1, <4>2, <4>3, <4>7 DEF KeepInv, Positionless
    <3> QED  BY <3>2, <3>3, <3>4 DEF VoiceInv
  <2> QED  BY <2>3, <2>4
<1>3. ASSUME SfxEnds, NEW v \in Voice PROVE VoiceInv(v)'
  <2>1. build.sfx /\ VoiceInv(v) /\ FilterKept(v) /\ sfx'.temp = sfx.temp
    BY <1>3, CountTypes DEF SfxEnds, TypeOK, VoicesInv, FilterKept, Idle
  <2>2. CASE v # SfxVoice
    BY <1>0, <1>3, <2>1, <2>2, VoiceKept DEF SfxEnds, VoiceCells, history
  <2>3. CASE v = SfxVoice
    <3>1. UNCHANGED <<row, pulse, sounding, fltctrl, fltposi>> /\ curins'[v] = sfx.temp
      BY <1>3, <2>3 DEF SfxEnds, TypeOK, history
    <3>2. PositionInv(v)'
      BY <1>0, <2>1, <3>1 DEF VoiceInv, PositionInv, HandsOver
    <3>3. SelectInv(v)'
      BY <2>1, <2>3 DEF SelectInv, SelectsBySound, TypeOK
    <3>4. KeepInv(v)'
      BY <2>1, <2>3, <3>1 DEF VoiceInv, KeepInv, Positionless
    <3> QED  BY <3>2, <3>3, <3>4 DEF VoiceInv
  <2> QED  BY <2>2, <2>3
<1>4. CASE SfxRuns
  <2>1. sfx'.temp = sfx.temp
    BY <1>4, CountTypes DEF SfxRuns, Idle
  <2> QED  BY <1>0, <1>4, <2>1, VoiceKept DEF SfxRuns, history, VoicesInv, VoiceCells, FilterKept
<1>5. CASE SfxStarts
  <2>1. SfxVoice \in Voice /\ build.sfx /\ sfx'.temp = sfx.temp
    BY <1>5, CountTypes, ThirdPlays DEF SfxStarts, TypeOK, Idle
  <2>2. PICK counts \in SUBSET Part : StartNote(SfxVoice, curins[SfxVoice], counts)
    BY <1>5 DEF SfxStarts
  <2>3. curins[SfxVoice] \in Slot /\ curins' = [curins EXCEPT ![SfxVoice] = curins[SfxVoice]]
    BY <1>5, <2>1 DEF SfxStarts, TypeOK
  <2>4. UNCHANGED <<build, row>>
    BY <1>5 DEF SfxStarts
  <2> QED  BY <2>1, <2>2, <2>3, <2>4, NoteVoices
<1>6. ASSUME NEW v \in Voice, ReadRow(v), NEW w \in Voice PROVE VoiceInv(w)'
  <2>1. PICK r \in Rows[v] \cup {Empty} : IF Lent(v) THEN LentRow(v, r) ELSE OwnRow(v, r)
    BY <1>6 DEF ReadRow
  <2>2. UNCHANGED <<pulse, fltctrl, fltposi>>
    BY <2>1, FrameTypes DEF LentRow, OwnRow, PositionsKept
  <2>3. UNCHANGED <<curins, owed, sounding>> /\ VoiceInv(w) /\ FilterKept(w)
    BY <1>6, <2>2 DEF ReadRow, VoicesInv, FilterKept
  <2>4. row' = [row EXCEPT ![v] = IF Lent(v) THEN Empty ELSE r]
    BY <2>1 DEF LentRow, OwnRow
  <2>5. sfx' = IF Lent(v) /\ r.inst # 0 THEN [sfx EXCEPT !.temp = Kept(r.inst)] ELSE sfx
    BY <2>1 DEF LentRow, OwnRow
  <2>6. CASE w # v
    <3>1. w = SfxVoice => sfx' = sfx
      BY <2>5, <2>6 DEF Lent
    <3> QED  BY <1>0, <2>2, <2>3, <2>4, <2>6, <3>1, VoiceKept DEF VoiceCells, TypeOK
  <2>7. CASE w = v
    <3>1. row'[v] \in Rows[v] \cup {Empty}
      BY <2>4 DEF TypeOK
    <3>2. PositionInv(v)'
      BY <1>0, <2>2, <2>3, <2>7 DEF VoiceInv, PositionInv, HandsOver
    <3>3. SelectInv(v)'
      BY <2>3, <2>7, <3>1 DEF VoiceInv, SelectInv
    <3>4. ASSUME KeepsNoPosition(v), v = SfxVoice PROVE sfx'.temp \in Selected(v) \cup {0}
      <4>1. sfx.temp \in Selected(v) \cup {0}
        BY <2>3, <2>7, <3>4 DEF VoiceInv, KeepInv
      <4>2. r.inst \in Number => r.inst \in Selected(v)
        BY <3>4, RowPositionless DEF Positionless
      <4>3. sfx'.temp = sfx.temp \/ sfx'.temp = Kept(r.inst)
        BY <2>5 DEF TypeOK
      <4> QED  BY <4>1, <4>2, <4>3 DEF Kept
    <3>5. KeepInv(v)'
      <4>1. KeepsNoPosition(v) => Positionless(row'[v], v)
        BY <3>1, RowPositionless
      <4> QED  BY <2>3, <2>7, <3>4, <4>1 DEF VoiceInv, KeepInv, Positionless
    <3> QED  BY <2>7, <3>2, <3>3, <3>5 DEF VoiceInv
  <2> QED  BY <2>6, <2>7
<1>7. ASSUME NEW v \in Voice, Turn(v) PROVE VoicesInv'
  <2>1. PositionsKept
    BY <1>7, FrameTypes
    DEF Turn, TrackEnds, NoRestart, OtherRestart, HardRestart, LaterFrame, Multispeed, PositionsKept
  <2> QED  BY <1>1, <1>7, <2>1, TurnsAreOwn, TurnsStartNothing DEF PositionsKept
<1>8. ASSUME NEW v \in Voice, Note(v) PROVE VoicesInv'
  <2> DEFINE c == Chosen(v)
  <2>1. StartNote(v, c, Mask(v)) /\ curins' = [curins EXCEPT ![v] = c] /\ UNCHANGED <<row, sfx>>
    BY <1>8 DEF Note
  <2>2. c \in Slot /\ Mask(v) \in SUBSET Part
    BY DEF TypeOK, Chosen, Selects, Number, Mask
  <2>3. c = Chosen(v)
    OBVIOUS
  <2> HIDE DEF c
  <2> QED  BY <1>0, <2>1, <2>2, <2>3, NoteVoices
<1>9. CASE \/ PlayCall \/ MultispeedCall \/ SfxNone \/ (\E v \in Voice : StepPattern(v))
           \/ UNCHANGED vars
  BY <1>1, <1>9 DEF PlayCall, MultispeedCall, SfxNone, StepPattern, vars, player, history
<1> QED
  BY <1>2, <1>3, <1>4, <1>5, <1>6, <1>7, <1>8, <1>9 DEF Next, Turn, VoicesInv

\* What a step has read of the pulse and the filter table it has read at the positions the
\* step leaves, the filter's for the owner.
ReadsPositions ==
  \A r \in reads' :
    /\ r.voice \in Voice
    /\ r.part = "pulse" => r.of = pulse'[r.voice]
    /\ r.part = "filter" => fltctrl' = r.voice /\ r.of = fltposi'

\* A table is read at the position that the step leaves.
LEMMA TableReadsPositions ==
  ASSUME NEW v \in Voice, NEW p, NEW from,
         NEW r \in TableReads(v, p, from)
  PROVE  /\ r.voice \in Voice
         /\ r.part = "pulse" => r.of = pulse'[r.voice]
         /\ r.part = "filter" => fltctrl' = r.voice /\ r.of = fltposi'
BY DEF TableReads, Reading, Filters

\* Every step that reads tables reads them at the positions it leaves.
LEMMA StepReadsPositions ==
  ASSUME TypeOK, SfxInv, [Next]_vars
  PROVE  ReadsPositions \/ UNCHANGED <<build, reads, sounding>>
<1>0. reads' = {} => ReadsPositions
  BY DEF ReadsPositions
<1>1. ASSUME NEW v \in Voice, NEW p, NEW from, Tables(v, p, from) PROVE ReadsPositions
  BY <1>1, TableReadsPositions DEF Tables, ReadsPositions
<1>2. ASSUME NEW v \in Voice, NEW c, NEW counts, StartNote(v, c, counts) PROVE ReadsPositions
  <2> DEFINE p == IF c = 0 THEN ins ELSE c
  <2>1. \A r \in NoteReads(v, c, p) : r.voice = v /\ r.part = "effect"
    BY DEF NoteReads, Reading
  <2>2. \A r \in TableReads(v, p, 0) :
          /\ r.voice \in Voice
          /\ r.part = "pulse" => r.of = pulse'[r.voice]
          /\ r.part = "filter" => fltctrl' = r.voice /\ r.of = fltposi'
    BY TableReadsPositions
  <2>3. reads' \subseteq NoteReads(v, c, p) \cup TableReads(v, p, 0)
    BY <1>2 DEF StartNote
  <2> HIDE DEF p
  <2> QED  BY <2>1, <2>2, <2>3 DEF ReadsPositions
<1>3. ASSUME NEW v \in Voice, InstrumentFrame(v) \/ HrTables(v) PROVE ReadsPositions
  BY <1>0, <1>1, <1>3 DEF InstrumentFrame, HrTables
<1>4. CASE SfxNone \/ SfxEnds \/ SfxRuns \/ UNCHANGED vars
  BY <1>4 DEF SfxNone, SfxEnds, SfxRuns, vars, history
<1>5. CASE PlayCall \/ MultispeedCall \/ (\E e \in Effects : SfxInit(e)) \/ (\E v \in Voice : StepPattern(v))
  BY <1>0, <1>5 DEF PlayCall, MultispeedCall, SfxInit, StepPattern
<1>6. CASE SfxStarts
  BY <1>2, <1>6 DEF SfxStarts, TypeOK, Voice
<1>7. ASSUME NEW v \in Voice, ReadRow(v) PROVE ReadsPositions
  BY <1>0, <1>3, <1>7 DEF ReadRow, LentRow, OwnRow
<1>8. ASSUME NEW v \in Voice, Turn(v) PROVE ReadsPositions
  <2>1. CASE Multispeed(v)
    BY <1>0, <1>1, <2>1 DEF Multispeed
  <2>2. CASE HardRestart(v)
    BY <1>0, <1>3, <2>2 DEF HardRestart
  <2>3. CASE TrackEnds(v) \/ NoRestart(v) \/ OtherRestart(v) \/ LaterFrame(v)
    BY <1>3, <2>3 DEF TrackEnds, NoRestart, OtherRestart, LaterFrame
  <2> QED  BY <1>8, <2>1, <2>2, <2>3 DEF Turn
<1>9. ASSUME NEW v \in Voice, Note(v) PROVE ReadsPositions
  BY <1>2, <1>9 DEF Note
<1> QED  BY <1>4, <1>5, <1>6, <1>7, <1>8, <1>9 DEF Next, Turn

\* With tidy rows a voice that sounds the instrument it has reads the filter and the pulse
\* table at positions of that instrument.
THEOREM TablesAreTidy == TidyRows => (Spec => []TablesOwn)
<1>1. TypeOK /\ SfxInv /\ VoicesInv' /\ TablesOwn /\ [Next]_vars => TablesOwn'
  <2> SUFFICES ASSUME TypeOK, SfxInv, VoicesInv', TablesOwn, [Next]_vars PROVE TablesOwn'
    OBVIOUS
  <2>1. CASE UNCHANGED <<build, reads, sounding>>
    BY <2>1 DEF TablesOwn, HandsOver
  <2>2. CASE ReadsPositions
    <3>1. \A v \in Voice : PositionInv(v)'
      BY DEF VoicesInv, VoiceInv
    <3> QED  BY <2>2, <3>1 DEF ReadsPositions, PositionInv, TablesOwn
  <2> QED  BY <2>1, <2>2, StepReadsPositions
<1>2. Init => VoicesInv /\ TablesOwn
  <2> SUFFICES ASSUME Init PROVE VoicesInv /\ TablesOwn
    OBVIOUS
  <2>1. ASSUME NEW v \in Voice PROVE VoiceInv(v)
    BY EmptyPositionless DEF Init, VoiceInv, PositionInv, SelectInv, KeepInv
  <2> QED  BY <2>1 DEF Init, VoicesInv, TablesOwn
<1>3. CASE TidyRows
  BY <1>1, <1>2, <1>3, InitTypes, StepTypes, SfxInvInit, SfxInvStep, VoicesStep, PTL DEF Spec
<1> QED  BY <1>3
=============================================================================
