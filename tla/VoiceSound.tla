----------------------------- MODULE VoiceSound -----------------------------
(***************************************************************************)
(* The sounding side of the play call (specs/sidwizard.play): the hard       *)
(* restart of a coming note, the start of a note, the tables an instrument   *)
(* runs, the filter that one voice owns, and the sound effects a host starts *)
(* on the third voice.  The voices share the pointer every instrument byte   *)
(* is read through, the filter's owner and its position.                     *)
(*                                                                          *)
(* A row is the environment's choice; the clock is TempoClock's: here a      *)
(* voice goes through tick 0, 1, 2 and then any number of further frames.    *)
(* An instrument is its number, 0 the slot of a voice that has none.  A position *)
(* is the instrument whose table it was set in.  Frequencies, waveforms and  *)
(* the registers are left out.                                              *)
(***************************************************************************)
EXTENDS Integers, Sequences, FiniteSets

CONSTANTS
  None,         \* no owner, no position
  Legato,       \* instrument column: no new sound
  SmallFx,      \* instrument column: a small effect, which reads the instrument
  Order,        \* the voices, in the order they play
  Builds,       \* [sfx, multi, delays, types, inline, porta, stops, noins, retains, from, limit]
  Instruments,  \* number -> [restart, test, keeps, filter, gateoff, speed]; 0 is slot 0's header
  Rows,         \* voice -> rows of [note, inst, fx]
  Effects       \* the host's sound effects: [length, inst]

Voice == {Order[i] : i \in DOMAIN Order}
Slot == DOMAIN Instruments
Number == Slot \ {0}
SfxVoice == 2
Idle == -1
Empty == [note |-> "none", inst |-> 0, fx |-> "none"]
Row == [note : {"none", "note", "porta", "gateoff"},
        inst : Slot \cup {Legato, SmallFx},
        fx : {"none", "portamento", "slide", "pulse", "filter", "delay"}]
\* The parts of the sound whose tables an instrument may keep running.
Part == {"pulse", "filter"}

\* limit: tick 2 selects the instruments below it.
Build == [sfx : BOOLEAN, multi : BOOLEAN, delays : BOOLEAN, types : BOOLEAN, inline : BOOLEAN,
          porta : BOOLEAN, stops : BOOLEAN, noins : BOOLEAN, retains : BOOLEAN, from : 0 .. 3,
          limit : Nat]

ASSUME BuildsAreBuilds == Builds \subseteq Build
\* Only the extra build delays: an effect's first frame under a delay is left out.
ASSUME SfxWithoutDelays == \A b \in Builds : ~(b.sfx /\ b.delays)
ASSUME OrderPlays ==
  /\ Order \in Seq(Nat) /\ Order # <<>>
  /\ \A i, j \in DOMAIN Order : Order[i] = Order[j] => i = j
ASSUME SlotsCount == 0 \in Slot /\ Slot \subseteq Nat
\* The two bits of the control byte that ask for a restart.
ASSUME RestartsAsked == \A i \in Slot : Instruments[i].restart \subseteq {1, 2}
\* The header's filter pointer: a table, $00 for its owner's, $FF for none.
ASSUME FiltersPoint == \A i \in Slot : Instruments[i].filter \in {"table", "pass", "none"}
ASSUME NoNumber == {None, Legato, SmallFx} \cap (Nat \cup {Idle}) = {} /\ Legato # SmallFx
ASSUME RowsAreRows == \A v \in Voice : Rows[v] \subseteq Row
ASSUME EffectsSound == \A e \in Effects : e.length \in 0 .. 127 /\ e.inst \in Number
\* The third voice is the last of its chip, and the last of a chip plays first.
ASSUME SfxPlaysFirst == \A b \in Builds : b.sfx => Order[1] = SfxVoice

VARIABLES
  build,     \* the build's flags
  tick,      \* per voice: the tick to come, 3 once the note has started
  row,       \* per voice: the columns of its row
  curins,    \* per voice: its instrument
  owed,      \* per voice: a portamento note effect waits for its note (slidevib $FF)
  waits,     \* per voice: no frame since the note's start (arpscnt negative)
  pulse,     \* per voice: the position in the pulse table
  ins,       \* the instrument pointer
  fltctrl,   \* the voice that owns the filter
  fltposi,   \* the position in the filter table
  sfx,       \* the sound effect: timer, leng, and temp, the music's instrument
  turn,      \* the voice whose turn it is, by its place in Order
  stage,     \* what its turn has come to; "call" between two calls
  restarts,  \* per voice: the hard restarts of its row, <<tick's bit, instrument>> (history)
  started,   \* per voice: the instrument its row or effect started a sound of (history)
  slid,      \* per voice: its row's note was played without a sound (history)
  sounding,  \* per voice: the instrument of the last sound it started (history)
  music,     \* the instrument the music gave the third voice last (history)
  moves,     \* the steps of the filter table in this call (history)
  reads      \* what the turn's last handler read through the pointer (history)

player == <<tick, row, curins, owed, waits, pulse, ins, fltctrl, fltposi, sfx>>
history == <<restarts, started, slid, sounding, music, moves, reads>>
vars == <<build, player, turn, stage, history>>

Init ==
  /\ build \in Builds
  /\ tick = [v \in Voice |-> 0]
  /\ row = [v \in Voice |-> Empty]
  /\ curins = [v \in Voice |-> 0]
  /\ owed = [v \in Voice |-> FALSE]
  /\ waits = [v \in Voice |-> FALSE]
  /\ pulse = [v \in Voice |-> None]
  /\ ins = None /\ fltctrl = None /\ fltposi = None
  /\ sfx = [timer |-> Idle, leng |-> 0, temp |-> 0]
  /\ turn = 1 /\ stage = "call"
  /\ restarts = [v \in Voice |-> {}]
  /\ started = [v \in Voice |-> 0]
  /\ slid = [v \in Voice |-> FALSE]
  /\ sounding = [v \in Voice |-> 0]
  /\ music = 0 /\ moves = 0 /\ reads = {}

-----------------------------------------------------------------------------
(* Calls and turns.                                                         *)

First(v) == IF build.sfx /\ v = SfxVoice THEN "sfx" ELSE "frame"

\* The pointer of a build that keeps the zero page starts from the init's.
PointerKept == ins' = IF build.retains THEN None ELSE ins

PlayCall ==
  /\ stage = "call"
  /\ stage' = First(Order[1])
  /\ PointerKept /\ moves' = 0 /\ reads' = {}
  /\ UNCHANGED <<build, tick, row, curins, owed, waits, pulse, fltctrl, fltposi, sfx, turn,
                 restarts, started, slid, sounding, music>>

MultispeedCall ==
  /\ stage = "call" /\ build.multi
  /\ stage' = "multi"
  /\ PointerKept /\ moves' = 0 /\ reads' = {}
  /\ UNCHANGED <<build, tick, row, curins, owed, waits, pulse, fltctrl, fltposi, sfx, turn,
                 restarts, started, slid, sounding, music>>

EndTurn ==
  IF turn = Len(Order)
    THEN turn' = 1 /\ stage' = "call"
    ELSE turn' = turn + 1 /\ stage' = IF stage = "multi" THEN "multi" ELSE First(Order[turn + 1])

\* SFXinit, the host's call.
\* Mutant: an effect that replaces another one keeps that one's instrument.
SfxTempAlways(e) == curins[SfxVoice]
SfxTemp(e) == IF sfx.timer = Idle THEN curins[SfxVoice] ELSE sfx.temp
SfxInit(e) ==
  /\ stage = "call" /\ build.sfx
  /\ sfx' = [timer |-> e.length, leng |-> e.length, temp |-> SfxTemp(e)]
  /\ row' = [row EXCEPT ![SfxVoice] = [@ EXCEPT !.note = "note", !.inst = 0]]
  /\ curins' = [curins EXCEPT ![SfxVoice] = e.inst]
  /\ owed' = [owed EXCEPT ![SfxVoice] = FALSE]
  /\ started' = [started EXCEPT ![SfxVoice] = 0]
  /\ reads' = {}
  /\ UNCHANGED <<build, tick, waits, pulse, ins, fltctrl, fltposi, turn, stage,
                 restarts, slid, sounding, music, moves>>

-----------------------------------------------------------------------------
(* The tables of voice v, read through pointer p: from stage 0 all of them,  *)
(* from 2 without the filter, from 3 the waveform only.                      *)

Reading(v, part, p, of) == [voice |-> v, part |-> part, ins |-> p, of |-> of]

Filters(v, from) == from <= 1 /\ fltctrl' = v
TableReads(v, p, from) ==
  {Reading(v, "wave", p, p)}
  \cup (IF from <= 2 THEN {Reading(v, "pulse", p, pulse'[v])} ELSE {})
  \cup (IF Filters(v, from) THEN {Reading(v, "filter", p, fltposi')} ELSE {})
Moved(v, from) == IF Filters(v, from) THEN moves' = moves + 1 ELSE UNCHANGED moves

Tables(v, p, from) ==
  /\ reads' = TableReads(v, p, from)
  /\ Moved(v, from)
  /\ waits' = [waits EXCEPT ![v] = FALSE]

\* The tables leave the positions to themselves and the next call.
PositionsKept == UNCHANGED <<pulse, fltctrl, fltposi>>

InstrumentFrame(v) ==
  /\ PositionsKept
  /\ IF curins[v] = 0
       THEN reads' = {} /\ UNCHANGED <<ins, waits, moves>>
       ELSE ins' = curins[v] /\ Tables(v, curins[v], 0)

\* Mutant: the pointer stays where the hard restart left it.
HrTablesStale(v) == PositionsKept /\ ins' = ins /\ Tables(v, ins, build.from)
HrTables(v) == PositionsKept /\ ins' = curins[v] /\ Tables(v, curins[v], build.from)

-----------------------------------------------------------------------------
(* Ticks 0 and 1.                                                           *)

\* Mutant: an effect does not keep the music's rows out.
LentNever(v) == FALSE
Lent(v) == build.sfx /\ v = SfxVoice /\ sfx.timer # Idle

\* Mutant: whatever the row's column holds.
KeptAny(i) == i
\* A row's instrument, whatever tick 2 would do with it, is kept for when the effect
\* gives the voice back.
Kept(i) == IF i \in Number THEN i ELSE sfx.temp

\* Under an effect the row is dropped but for its instrument.
LentRow(v, r) ==
  /\ row' = [row EXCEPT ![v] = Empty]
  /\ IF r.inst = 0
       THEN /\ stage' = "restart" /\ turn' = turn /\ reads' = {}
            /\ PositionsKept /\ UNCHANGED <<ins, waits, moves, sfx>>
       ELSE /\ sfx' = [sfx EXCEPT !.temp = Kept(r.inst)]
            /\ HrTables(v) /\ EndTurn
  /\ music' = IF r.inst \in Number THEN r.inst ELSE music
  /\ UNCHANGED started

OwnRow(v, r) ==
  /\ row' = [row EXCEPT ![v] = r]
  /\ started' = [started EXCEPT ![v] = 0]
  /\ stage' = "restart" /\ turn' = turn /\ reads' = {}
  /\ PositionsKept /\ UNCHANGED <<ins, waits, moves, sfx, music>>

\* Tick 0.
ReadRow(v) ==
  /\ stage = "frame" /\ v = Order[turn] /\ tick[v] \in {0, 3}
  /\ \E r \in Rows[v] \cup {Empty} : IF Lent(v) THEN LentRow(v, r) ELSE OwnRow(v, r)
  /\ tick' = [tick EXCEPT ![v] = 1]
  /\ restarts' = [restarts EXCEPT ![v] = {}]
  /\ slid' = [slid EXCEPT ![v] = FALSE]
  /\ UNCHANGED <<build, curins, owed, sounding>>

\* Tick 1: the pattern goes on.
StepPattern(v) ==
  /\ stage = "frame" /\ v = Order[turn] /\ tick[v] = 1
  /\ tick' = [tick EXCEPT ![v] = 2]
  /\ stage' = "restart" /\ reads' = {}
  /\ UNCHANGED <<build, row, curins, owed, waits, pulse, ins, fltctrl, fltposi, sfx, turn,
                 restarts, started, slid, sounding, music, moves>>

\* Tick 1 at the track's $FE: the next call comes here again.
TrackEnds(v) ==
  /\ stage = "frame" /\ v = Order[turn] /\ tick[v] = 1
  /\ InstrumentFrame(v) /\ EndTurn
  /\ UNCHANGED <<build, tick, row, curins, owed, sfx, restarts, started, slid, sounding, music>>

\* The row's note will start a sound.
Restarts(v) ==
  /\ row[v].note = "note" /\ row[v].fx # "portamento" /\ row[v].inst # Legato
  /\ ~(build.porta /\ owed[v])

\* The bit of the control byte that asks for a hard restart on this tick.
Timer(v) == IF tick[v] = 1 THEN 2 ELSE 1
\* Mutant: the restart overlooks an instrument past the limit, as tick 2 does.
ComingSelected(v) ==
  IF row[v].inst \in Number /\ row[v].inst < build.limit THEN row[v].inst ELSE curins[v]
\* The instrument a hard restart takes for the coming note's, also one past the limit.
Coming(v) == IF row[v].inst \in Number THEN row[v].inst ELSE curins[v]
AsksFor(v, i) == ~build.types \/ Timer(v) \in Instruments[i].restart

NoRestart(v) ==
  /\ stage = "restart" /\ v = Order[turn] /\ ~Restarts(v)
  /\ InstrumentFrame(v) /\ EndTurn
  /\ UNCHANGED <<build, tick, row, curins, owed, sfx, restarts, started, slid, sounding, music>>

\* Another tick's, or none: the tables run in its place.
OtherRestart(v) ==
  /\ stage = "restart" /\ v = Order[turn] /\ Restarts(v) /\ ~AsksFor(v, Coming(v))
  /\ HrTables(v) /\ EndTurn
  /\ UNCHANGED <<build, tick, row, curins, owed, sfx, restarts, started, slid, sounding, music>>

\* The restart ends the turn where the build inlines it and where the test bit is asked for.
Quiet(v) == build.types /\ (build.inline \/ Instruments[Coming(v)].test)

HardRestart(v) ==
  /\ stage = "restart" /\ v = Order[turn] /\ Restarts(v) /\ AsksFor(v, Coming(v))
  /\ restarts' = [restarts EXCEPT ![v] = @ \cup {<<Timer(v), Coming(v)>>}]
  /\ IF Quiet(v)
       THEN ins' = Coming(v) /\ reads' = {} /\ PositionsKept /\ UNCHANGED <<waits, moves>>
       ELSE HrTables(v)
  /\ EndTurn
  /\ UNCHANGED <<build, tick, row, curins, owed, sfx, started, slid, sounding, music>>

-----------------------------------------------------------------------------
(* The note: started by voice v with instrument c; counts are the parts       *)
(* whose reset bit of its control byte counts.                              *)

Sounds(v, c) ==
  /\ c # 0 /\ row[v].note = "note" /\ row[v].fx # "portamento" /\ row[v].inst # Legato
  /\ ~(build.porta /\ owed[v])

\* The sound starts the table of this part from its beginning.
Resets(part, c, counts) == part \notin counts \cap Instruments[c].keeps

GateOff(v, c) == c # 0 /\ row[v].note = "gateoff" /\ Instruments[c].gateoff

\* The effects run, after the note, through pointer p.
HasEffects(c) == c # 0 \/ ~build.noins

\* The instrument's filter table takes the filter, at its start; $00 leaves it to its
\* owner; $FF unfilters the voice, and stops the table of an owner in later releases.
StartFilter(v, c) ==
  /\ fltctrl' = IF Instruments[c].filter = "table" THEN v ELSE fltctrl
  /\ fltposi' = IF \/ Instruments[c].filter = "table"
                   \/ Instruments[c].filter = "none" /\ build.stops /\ fltctrl = v
                  THEN c ELSE fltposi

NoteFilter(v, c, counts, p) ==
  IF HasEffects(c) /\ row[v].fx = "filter"
    THEN /\ fltposi' = p
         /\ fltctrl' = IF Sounds(v, c) /\ Resets("filter", c, counts) /\ Instruments[c].filter = "table"
                         THEN v ELSE fltctrl
    ELSE IF Sounds(v, c) /\ Resets("filter", c, counts) THEN StartFilter(v, c)
    ELSE IF GateOff(v, c) /\ fltctrl = v THEN fltposi' = c /\ UNCHANGED fltctrl
    ELSE UNCHANGED <<fltctrl, fltposi>>

NotePulse(v, c, counts, p) ==
  pulse' = [pulse EXCEPT ![v] =
    IF HasEffects(c) /\ row[v].fx = "pulse" THEN p
    ELSE IF GateOff(v, c) \/ (Sounds(v, c) /\ Resets("pulse", c, counts)) THEN c ELSE @]

NoteSlide(v, c) ==
  owed' = [owed EXCEPT ![v] =
    IF HasEffects(c) /\ row[v].fx \in {"portamento", "slide"} THEN FALSE
    ELSE IF c = 0 THEN @
    ELSE IF row[v].note = "porta" THEN build.porta \/ @
    ELSE IF row[v].note = "note" THEN FALSE ELSE @]

\* What the effects and the start of the sound read.
NoteReads(v, c, p) ==
  IF \/ HasEffects(c) /\ (row[v].inst = SmallFx \/ row[v].fx \in {"pulse", "filter"})
     \/ Sounds(v, c)
    THEN {Reading(v, "effect", p, p)} ELSE {}

\* Mutant: the tables run behind every note.
RunsTablesAlways(v, c) == c # 0
\* A row without a note runs the tables at once.
RunsTables(v, c) == c # 0 /\ row[v].note # "note"

StartNote(v, c, counts) ==
  LET p == IF c = 0 THEN ins ELSE c
  IN  /\ ins' = p
      /\ NoteFilter(v, c, counts, p)
      /\ NotePulse(v, c, counts, p)
      /\ NoteSlide(v, c)
      /\ IF RunsTables(v, c)
           THEN /\ reads' = NoteReads(v, c, p) \cup TableReads(v, p, 0)
                /\ Moved(v, 0)
                /\ waits' = [waits EXCEPT ![v] = FALSE]
           ELSE /\ reads' = NoteReads(v, c, p)
                /\ waits' = [waits EXCEPT ![v] = @ \/ Sounds(v, c)]
                /\ UNCHANGED moves
      /\ started' = [started EXCEPT ![v] = IF Sounds(v, c) THEN c ELSE @]
      /\ sounding' = [sounding EXCEPT ![v] = IF Sounds(v, c) THEN c ELSE @]

\* The row selects its instrument; one past the limit leaves the voice the one it has.
Selects(v) == row[v].inst \in Number /\ row[v].inst < build.limit
Chosen(v) == IF Selects(v) THEN row[v].inst ELSE curins[v]

\* Mutant: the reset bits count for a new instrument too.
MaskFull(v) == Part
\* The reset bits count for a row that selects no instrument.
Mask(v) == IF Selects(v) THEN {} ELSE Part

\* A delay holds the voice at tick 2, for any number of calls.
AfterNote(v, c) == IF build.delays /\ HasEffects(c) /\ row[v].fx = "delay" THEN {2, 3} ELSE {3}

\* Tick 2, which a delayed row comes to in every call it is held.
Note(v) ==
  /\ stage = "frame" /\ v = Order[turn] /\ tick[v] = 2
  /\ LET c == Chosen(v)
     IN  /\ curins' = [curins EXCEPT ![v] = c]
         /\ StartNote(v, c, Mask(v))
         /\ \E t \in AfterNote(v, c) : tick' = [tick EXCEPT ![v] = t]
         /\ slid' = [slid EXCEPT ![v] = @ \/ (c # 0 /\ row[v].note = "note" /\ ~Sounds(v, c))]
  /\ music' = IF v = SfxVoice /\ Selects(v) THEN row[v].inst ELSE music
  /\ EndTurn
  /\ UNCHANGED <<build, row, sfx, restarts>>

\* The ticks after it.
LaterFrame(v) ==
  /\ stage = "frame" /\ v = Order[turn] /\ tick[v] = 3
  /\ InstrumentFrame(v) /\ EndTurn
  /\ UNCHANGED <<build, tick, row, curins, owed, sfx, restarts, started, slid, sounding, music>>

-----------------------------------------------------------------------------
(* The sound effect's part of the third voice's turn.                       *)

GoesOn == stage' = "frame" /\ turn' = turn
CountDown == sfx' = [sfx EXCEPT !.timer = @ - 1]

SfxNone ==
  /\ stage = "sfx" /\ sfx.timer = Idle
  /\ GoesOn /\ UNCHANGED <<build, player, history>>

\* Its last frame gives the music's instrument back.
SfxEnds ==
  /\ stage = "sfx" /\ sfx.timer = 0
  /\ curins' = [curins EXCEPT ![SfxVoice] = sfx.temp]
  /\ CountDown /\ GoesOn
  /\ UNCHANGED <<build, tick, row, owed, waits, pulse, ins, fltctrl, fltposi, history>>

\* Its first frame starts the note, with a mask that is whatever register Y holds.
SfxStarts ==
  /\ stage = "sfx" /\ sfx.timer > 0 /\ sfx.timer = sfx.leng
  /\ \E counts \in SUBSET Part : StartNote(SfxVoice, curins[SfxVoice], counts)
  /\ CountDown /\ GoesOn
  /\ UNCHANGED <<build, tick, row, curins, restarts, slid, music>>

SfxRuns ==
  /\ stage = "sfx" /\ sfx.timer > 0 /\ sfx.timer # sfx.leng
  /\ CountDown /\ GoesOn
  /\ UNCHANGED <<build, tick, row, curins, owed, waits, pulse, ins, fltctrl, fltposi, history>>

-----------------------------------------------------------------------------
(* A multispeed call's turn: the tables the instrument's arp speed picks, once *)
(* its first frame has passed.                                              *)

\* The stages of the tables a speed runs.
FromStage(speed) == IF speed = "filter" THEN 1 ELSE IF speed = "pulse" THEN 2 ELSE 3

Multispeed(v) ==
  /\ stage = "multi" /\ v = Order[turn]
  /\ IF waits[v]
       THEN PositionsKept /\ reads' = {} /\ UNCHANGED <<ins, waits, moves>>
       ELSE /\ PositionsKept /\ ins' = curins[v]
            /\ Tables(v, curins[v], FromStage(Instruments[curins[v]].speed))
  /\ EndTurn
  /\ UNCHANGED <<build, tick, row, curins, owed, sfx, restarts, started, slid, sounding, music>>

Next ==
  \/ PlayCall \/ MultispeedCall
  \/ \E e \in Effects : SfxInit(e)
  \/ SfxNone \/ SfxEnds \/ SfxStarts \/ SfxRuns
  \/ \E v \in Voice :
       \/ ReadRow(v) \/ StepPattern(v) \/ TrackEnds(v)
       \/ NoRestart(v) \/ OtherRestart(v) \/ HardRestart(v)
       \/ Note(v) \/ LaterFrame(v) \/ Multispeed(v)

Spec == Init /\ [][Next]_vars

-----------------------------------------------------------------------------
(* Properties.                                                              *)

\* The types of the variables; a call begins with the first voice, and only the third
\* voice's turn comes to the sound effect.
TypeOK ==
  /\ build \in Builds
  /\ tick \in [Voice -> 0 .. 3]
  /\ row \in [Voice -> Row]
  /\ curins \in [Voice -> Slot]
  /\ owed \in [Voice -> BOOLEAN] /\ waits \in [Voice -> BOOLEAN]
  /\ pulse \in [Voice -> Slot \cup {None}]
  /\ ins \in Slot \cup {None}
  /\ fltctrl \in Voice \cup {None} /\ fltposi \in Slot \cup {None}
  /\ sfx \in [timer : -1 .. 127, leng : 0 .. 127, temp : Slot]
  /\ turn \in DOMAIN Order
  /\ stage \in {"call", "sfx", "frame", "restart", "multi"}
  /\ restarts \in [Voice -> SUBSET ({1, 2} \X Slot)]
  /\ started \in [Voice -> Slot] /\ slid \in [Voice -> BOOLEAN]
  /\ sounding \in [Voice -> Slot]
  /\ music \in Slot
  /\ stage = "call" => turn = 1
  /\ stage = "sfx" => build.sfx /\ Order[turn] = SfxVoice

\* A voice runs its tables on the instrument it has, and an effect of a voice that has
\* one reads it, although all voices read through one pointer and a hard restart
\* points it at the instrument of the row to come.
OwnInstrument ==
  \A r \in reads : r.part # "effect" \/ curins[r.voice] # 0 => r.ins = curins[r.voice]

\* The filter table moves at most once in a call, whichever voices own it in turn.
FilterMovesOnce == moves <= 1

\* A voice that sounds the instrument it has reads the filter and the pulse table of
\* that instrument, at no position of another: not where the filter is handed over
\* ($00) or, in early releases, let go ($FF).
HandsOver(i) == Instruments[i].filter = "pass" \/ (Instruments[i].filter = "none" /\ ~build.stops)
TablesOwn ==
  \A r \in reads :
    r.part \in {"pulse", "filter"} /\ sounding[r.voice] = r.ins /\ r.ins # 0 =>
      r.of = r.ins \/ (r.part = "filter" /\ HandsOver(r.ins))

\* TablesOwn is a promise of the player only for rows that never leave a position behind.
\* Either a voice gets an instrument only with a note that starts its sound, and a
\* filter position only with a note that takes the filter ...
SelectsBySound(v) ==
  /\ v = SfxVoice => \A b \in Builds : ~b.sfx
  /\ \A r \in Rows[v] :
       /\ r.note # "porta"
       /\ r.inst \in Number => r.note = "note" /\ r.fx # "portamento"
       /\ r.fx = "filter" =>
            /\ r.inst \in Number /\ Instruments[r.inst].filter = "table"
            /\ \A b \in Builds : r.inst < b.limit

\* ... or no row of it, and no instrument it ever has, keeps or moves a position.
Selected(v) ==
  {i \in Number : \/ \E r \in Rows[v] : r.inst = i
                  \/ v = SfxVoice /\ \E e \in Effects : e.inst = i}
KeepsNoPosition(v) ==
  /\ \A i \in Selected(v) : Instruments[i].keeps = {}
  /\ \A r \in Rows[v] :
       /\ r.fx \notin {"pulse", "filter"}
       /\ r.note = "gateoff" => \A i \in Selected(v) : ~Instruments[i].gateoff

TidyRows == \A v \in Voice : SelectsBySound(v) \/ KeepsNoPosition(v)

\* A note that starts a sound at its first tick 2 has had the hard restarts its
\* instrument's control byte asks for, with that instrument, and one that starts none
\* has had none, whatever other voices did between its ticks.  Two cases are told
\* apart: a row that names an instrument past the limit is restarted for that one,
\* although its note sounds the instrument the voice has; and a note that slid, as a
\* portamento was owed, and sounds when a delay holds its row, has had no restart.
AskedFor(i) == {<<t, i>> : t \in IF build.types THEN Instruments[i].restart ELSE {1, 2}}
PastLimit(v) == row[v].inst \in Number /\ row[v].inst >= build.limit
RestartsMatch ==
  \A v \in Voice :
    tick[v] = 3 /\ curins[v] # 0 /\ ~(build.sfx /\ v = SfxVoice) =>
      restarts[v] = IF started[v] = 0 \/ slid[v] THEN {}
                      ELSE AskedFor(IF PastLimit(v) THEN row[v].inst ELSE started[v])

\* Without a sound effect the third voice has the instrument the music gave it last,
\* whatever effects came and went, replaced one another or were cut short by a row:
\* the one a row selected, or one a row named under an effect, also past the limit.
GivenBack == build.sfx /\ sfx.timer = Idle => curins[SfxVoice] = music

\* From its first frame on a sound effect sounds, if no row asks for a tone portamento:
\* the row keeps that, and the effect's note would only slide.
NoPortamento(rows) == \A r \in rows : r.fx # "portamento"
EffectSounds == build.sfx /\ sfx.timer # Idle /\ sfx.timer < sfx.leng => started[SfxVoice] # 0
=============================================================================
