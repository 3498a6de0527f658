# A verification development for pysidwizard

pysidwizard reads and writes the music of SID-Wizard, a Commodore 64 tracker,
and plays it. It holds songs as a Python model, stores them as module files
(`.swm`), recovers them from executable `.sid` files, and plays them by a
*playspec*: `src/src/pysidwizard/specs/sidwizard.play` states the 6502 player
of SID-Wizard once, and a binder fits it to the variant of the player that is
found in a tune's memory.

This directory models the parts of that program whose correctness is hard to
see from the code or to reach with a test, checks the models with TLC on small
instances, and proves the central results with TLAPS for all of them.
Paths below are relative to the repository; where only a name is given, the
file is in `src/src/pysidwizard/`.

## Inventory

| Component | State | Operations | Talks to |
|---|---|---|---|
| Tick clock and tempo programs (`specs/sidwizard.play`: `tempo_program`, `step`, the tempo and delay effects) | tick counter, tempo position and base, delay counter of each voice; the tempo table all voices share | one turn per voice and call; tempo, funktempo and program effects for all voices or one; delays; binding of short rows' ticks to one call | calls the row reader, pattern step and note start; is moved by the effects they run |
| Sequencer (`row_prep`, `row_reader`, `pattern_step`, `next_pattern`, `order_effect`, `restart`) | pattern cursor, run counter and columns of each voice; orderlist and its position; transposes, volume and track tempo that wait for their row | read a row, step past it, walk the orderlist, start the subtune | reads what the exporter stored; gives the row to the note start and the track tempo to the clock |
| Note start, hard restart, note effects (`hard_restart`, `tick_2`, `note_start`, `start_sound`, `note_effect`, `big_effect`) | instrument, pitch, gate, tables' positions of each voice; the instrument pointer and the reset mask all voices share | cut the old note, start the new, run the row's effects | the filter's owner, the tables, the clock |
| Instrument tables, slides, vibrato (`tables`, `vibrato`, the `cursor`s) | table positions and counters, frequency, pulse width | one step of each table per call | the filter through its owner |
| Filter and common registers (`filter_owner`, `start_filter`, the common registers) | the voice that owns the filter; cutoff, band, resonance | claim, release, step by the owner; write of the shared registers | every voice |
| Sound effects, multispeed, subtune restart (`sfx_frame`, `row_tail`, `restart`, `schedule`) | effect timer and the instrument kept aside; the pending subtune | an effect takes the third voice over and gives it back; extra calls that only run tables; restart of all voices | the clock and the sequencer |
| Song model (`model.py`) | rows, orderlists, instruments, chords, tempo programs | encode, decode, pack, unpack | reader, writer, SID reader |
| Stream grammar (`grammar.py`, `sidwizard.lark`, `typed.py`) | none | parse one stream; check that a stream parses to the song it came from | reader, writer, SID reader |
| Module files (`reader.py`, `writer.py`) | a cursor | write sections forward; read them from the end backward | model, grammar |
| Instrument files (`swi.py`) | none | read, write, insert | model |
| SID reader (`sidreader.py`, `sidfile.py`) | candidate layouts, rejections | locate the tables by one strategy after another; decode; fall back | features, external `pysidtracker` |
| Playspec binder (`playspec.py`, `playspec_effects.py`) | captured addresses | scan each routine; record; refuse what disagrees | the player's bytes |
| Feature detection (`features.py`, `variant.py`) | findings per flag | detect, with a fallback by driver type | binder, SID reader |
| SID-Maker session (`sidmaker.py`) | the exporter's memory, kept from one export to the next | export | external 6502 |
| Front end (`player.py`, `reglog.py`, `formats.py`) | none of its own | choose the tune, bind, play | all of the above |

What makes each hard, and what makes it correct:

* **Clock.** A tempo effect runs in one voice's turn, when some voices have
  counted this call and others have not, and moves all their programs. Correct
  is: the voices stay together, no counter passes its tempo unnoticed, no
  position leaves its program, no row is read before the last one's step and
  note were done, each step is done once.
* **Sequencer.** The player decides by single bytes what the model decides by
  structure: what is a run of empty rows, where a pattern ends, where a walk
  of the orderlist goes. Transposes, volume and tempo take effect later than
  they are read. Correct is: what is played is what the song says.
* **Sounding side.** One instrument pointer, one filter and one reset mask
  serve all voices, which run one after another in a call. Correct is: a voice
  only ever sounds its own instrument, the filter is stepped by one voice.
* **Module files.** The reader goes backward over packed bytes it has not
  parsed yet. Correct is: it finds the section boundaries the writer made, and
  refuses what it cannot read.
* **SID reader, binder, features.** Several strategies and scans, one error
  class that means "try the next" and others that do not. Correct is: no
  failure hides a layout that would have decoded, and what is bound agrees
  with every routine scanned.
* **SID-Maker session.** Exports share a memory. Correct is: an export's result
  does not depend on those before it, failed ones included.

`PROJECT.json` lists the hazards line by line with the properties that cover
them; one that no property covers has a note saying why.

## Modules

| Module | What it is |
|---|---|
| `TempoClock` | the tick clock of the play call; the song is its environment |
| `MCTempoClock`, `MCGridSong`, `MCTracksSong`, `MCBoundSong` | songs for TLC; the last three also have TLC evaluate the hypothesis of the grid, the tracks and the bound theorems |
| `TempoClockProofs` | theorems about the clock |
| `SongCode` | how rows, patterns and orderlists are stored as bytes and parsed back, as operators |
| `Score` | abstract: what a song says, in rows and commands |
| `SongCodeProofs` | theorems about storing and parsing; induction over sequences |
| `Sequencer` | the player's row reader and orderlist walk over the bytes; refines `Score` |
| `SequencerProofs`, `ScoreProofs` | theorems about the player; the refinement proved |
| `MCSequencer` | songs for TLC |
| `VoiceSound` | hard restart, note start, the tables' runs, the filter's owner, sound effects and multispeed calls |
| `MCVoiceSound`, `VoiceSoundProofs` | instruments, rows and builds for TLC; theorems |
| `SwmFile` | the module file: the writer forward, the reader backward, what may become of the file between |
| `MCSwmFile`, `SwmFileProofs` | songs and damage for TLC, which also evaluates the theorems' hypothesis; theorems |
| `SidLayout` | what a candidate layout of a `.sid` image decodes to, as operators |
| `SidStrategy` | the four strategies: the layouts each offers, and the song of one |
| `SidContainer` | the container a stored file stands for |
| `SidFeatures` | the build flags and quirks of the player in the file |
| `SidReader` | `parse_sid`: the search through strategies, candidates and subtune blocks |
| `SongEntry` | `parse_sid_song`: the emulated init of a container and the song it sets up; extends `SidReader` |
| `MCSidReader`, `SidReaderProofs` | exports, damaged and wrapped files for TLC; theorems about the search and the view of a song |
| `MakerSession` | SID-Maker sessions and the memory their exports share |
| `MCMakerSession`, `MakerSessionProofs` | builds and modules for TLC; theorems |

### TempoClock

One action is one handler of one voice's turn. `turn` is the voice (voices play
from the last to the first, as `schedule` has it) and `stage` the handler its
turn has come to. `Frame` is the compare with the tempo program, `ReadRow` tick
0, `PatternGoesOn` and `TrackEnds` tick 1, `StartNote` tick 2 with the row's
effect. Which effect a row has, when a pattern ends and when a track does are
choices from `RowFx`, `OrderTempo` and the actions, so that every song over
those effects is a behaviour. `spdcnt`, `tmppos`, `tmpbase`, `seqtempo`,
`trdelay` and `tempotbl` are the player's cells of those names; counters are
bytes and wrap. `owed` is a history variable: what the row last read still
waits for. `FastSpeedBind` and `DelaySupport` are the build flags.

Outside: builds with a single tempo (no `TEMPOPRGSUPP`), multispeed calls and
the sound-effect row, which leave the clock alone.

### SongCode, Score, Sequencer

`Sequencer` starts with a song of the model, has `SongCode` store it as the
writer does, and then reads those bytes as the player does. Its variables are
the player's cells (`ptnpos`, `packcnt`, `seqpos`, `transp`, `transp2` and so
on; `row` is the four columns `curnot`, `curifx`, `curfx2`, `curval`).
`RunGoesOn`, `RunStarts` and `ReadColumns` are the three cases of the row
reader, each with the row preparation before it; `RunHolds`, `NextRow` and
`PatternEnds` the cases of the pattern step; the `Walk` actions the turns of
the loop of `next_pattern`; `StartEffect` and `StartPattern` those of
`restart`; `StartNote` as much of tick 2 as concerns instrument, pitch and
volume. A walk is a loop of the code, so while `walker` names a voice no other
voice moves. When a voice comes to its handlers is `TempoClock`'s question:
here the voices interleave freely, which includes every order a clock gives.

`Score` has no bytes. A voice reads the rows of the pattern its command names,
sings each, and passes its commands one by one. A transpose is a signed number
there and a byte in the player, a volume is due with the next row of any
voice, a track tempo with the next row of its own. `Sequencer` instantiates
`Score` as `Music`; the mapping reads the score's place off `seqpos`, `y` and
the history variable `rowno`, and a row's key off `transp2` until its step has
copied it to `transp`. `PlaysScore` is `Music!Spec`. At a track's end the
score says what the player does, not more: the row before `$FE` is read but
its note never starts (`src/tests/test_player.py` pins this too).

Outside: builds without orderlist effects, transposes or subtune jumps, the
octave shift of instruments, builds that restart the whole subtune at a jump,
and streams the parser would reject.

### VoiceSound

One action is one handler of one voice's turn in a call. `stage` is where the
turn has come: between calls (`"call"`), at the sound effect of the third voice
(`"sfx"`), at the voice's frame (`"frame"`), at the hard restart of a coming
note (`"restart"`), or in a multispeed call (`"multi"`). A voice goes through
tick 0, 1 and 2 and then any number of frames: when its row ends is
`TempoClock`'s question. A row is a choice from `Rows`, made where the row
reader makes it. `curins`, `ins` (the instrument pointer), `fltctrl`, `fltposi`
and the three cells of `sfx` are the player's; a table position is kept as the
instrument whose table it was set in, which is all that a right and a wrong
position differ by here, and the pointer as the number of the instrument it
points at. The build flags that change control are the record `build`, so one
run covers several builds.

Two limits decide about a row's instrument. The hard restart (`Coming`) and a row
under a sound effect (`Kept`) take any number below the legato code; tick 2
(`Selects`) takes those below `limit`, the build's `sel_ins_limit`, and leaves
the voice its own otherwise. A delay (`AfterNote`) keeps the voice at tick 2, and
`Note` then plays the row's note and effects again, for any number of calls: how
many is `TempoClock`'s question.

`restarts`, `started`, `slid`, `sounding`, `music`, `moves` and `reads` are
history variables: what hard restarts a row had, which instrument sounded,
whether its note was played without a sound, what the
music gave the third voice last, how often the filter table moved in this call,
and through which instrument the last handler read. The properties compare them
with the player's cells.

`RestartsMatch` and `GivenBack` say of those cases what the code does. A row with an
instrument past the limit is restarted for that instrument and sounds the
voice's own; a note that slid first and sounds in a held call has had no restart;
and an effect gives back the instrument that a row under it named, past the
limit or not.

Outside: frequencies, waveforms and registers; what a table's row does; slides
and vibrato; the arithmetic of the common registers; the restart of a whole
subtune (release 1.0 only); the ticks that a fast tempo binds to one call; and a
build with both delays and sound effects, in which an effect's first frame under
a delayed row would put the voice back to tick 2 (`SfxWithoutDelays`; of the
builds in `features.py` only the extra one delays).

### SwmFile

One action is one section or item of `build_swm` (`WriteSequence`,
`WritePattern` and so on) and of `parse_swm` (`ReadInstrument`,
`ReadPatternSize`, ...), and one byte of the backward walk over a packed pattern
(`WalkByte`). `stage` is the place in the two functions; `RefuseToWrite` and
`RefuseToRead` are their errors. `cursor`, `end` and `j` are the reader's
locals, counted from the end of the header, and `got` is what it has collected.
`marks` is a history variable: where each item starts in the file. `Open` is
what is between the two, outside the code: the file as it was written, without
its first bytes, or with others before them. `SongCode` supplies the rows,
commands and packing; `SequenceParses` and `PatternParses` are the grammar's
rules for a whole stream.

The header is what it counts, which the reader takes from `song`. Outside: its
other fields and the load address and `.P00` wrapper, which are fixed offsets;
what an instrument's bytes mean; the optional check of instrument numbers; and
rows the parser's package decides on (`ByteGrammar.check`, whose code is not in
the repository, on a pattern with `$FF` in it).

### SidLayout, SidStrategy, SidContainer, SidFeatures, SidReader, SongEntry

`parse_sid` tries four strategies (`swm-header`, `swp`, `codescan`,
`via-player`), each of which offers candidate layouts in an order; a candidate
that fails with a layout error is rejected and the next is tried. In
`SidReader` a file is opened (`Open`, `Refuse`, `Begin`), each candidate has its
tables read (`ReadTables`), its subtune tables tried in turn (`TryBlock`), and
what comes of it is taken or rejected; `ReadPlayed` and `Abort` are the
player-run strategy, whose own re-run of init may end the whole parse;
`Take` decides what becomes of a decoded candidate,
`NextStrategy` moves on; `CheckPlayed` is the check of the instruments of the
song that was found. `plan` is the strategies left, `cand` the candidate and
`block` the subtune table in hand. What a layout decodes to is pure code and is
stated as operators in `SidLayout`; which layouts a strategy offers in
`SidStrategy`; both are translated function by function, and a layout error is
the value `None`.

A file is an image of bytes at addresses, with what its code holds: the table
addresses found by the patterns of `sidreader.py` and `features.py` are inputs,
because matching them is text search in 6502 code, and so is the memory that the
external emulator leaves. `SidContainer` says which container a program stands
for, `SidFeatures` which of a facet's sites decides a flag and what an absent one
means. `SongEntry` adds `parse_sid_song`: the emulated init as a list of steps,
each a store (`Patch`), the entry of a player (`Enter`) or a player storing its
subtune position (`StoreSubtune`); the window of the memory that belongs to the
player entered last is then searched as a file, and the instruments that a
wrapper patched and the subtune it chose are applied (`Select`).

Outside: `is_sidwizard_sid`, the parsing of the container's header, and the
tune's texts. The tables of a player are taken to end below the top of memory.

### MakerSession

`Create` is the making of a session, `CreateRefused` its refusal of a build that
was not shipped. A call of `export` is refused (`Refuse`), fails in the emulator
(`Fail`) or saves a file (`Export`). The state is the session's memory, as far
as one export could hand something to the next: the answers stored for
SID-Maker's screens, the flags, the speeds, the author, the player and the tune.
SID-Maker's own routines are external and known by what `sidmaker.py`'s calls and
its tests take from them: they put the player and the tune behind the header,
and copy the module's author up to its terminator and no further. So the cells
past a shorter author's terminator are what an earlier export left there, and
the properties say exactly how far that reaches.

Outside: the disk images and the label tables of the shipped builds, which are
the constant `Versions`.

## Runs

| Run | Shows |
|---|---|
| `clock_grid` | Three voices, main tempo, funktempo and program effects struck in any voice's turn, notes delayed for less than their row: a held voice catches up, the clocks are together between calls, and the inductive invariant `GridInv`, which counts the calls a delay holds and from which `ProgramBounded`, `RowsComplete`, `StepOnce` and `EndHolds` follow |
| `clock_tracks` | Two voices with tempos of their own from orderlist and tempo programs, delays of both kinds, and a main tempo either sets for both in the middle of the other's row: no counter is past a byte that only equality meets (`NoStandstill`), no program is left, no handler is lost or repeated, and the inductive invariant `TracksInv` |
| `clock_fast` | One voice, tempos of one to three ticks, track tempos, delays, with the fast speed bind: binding neither loses nor repeats a handler, a track that goes on always reads a further row (`RowsKeepComing`), and the inductive invariant `BoundInv` holds, which keeps the voice inside its program |
| `score` | Patterns of up to three rows of all main kinds, runs about the limits of packing, orderlists of up to three commands: the player plays the score, stays inside its patterns, ends its walks, and the parser reads the same bytes as the same song |
| `score_loop` | violation: see Findings |
| `sound` | Two voices, five instruments, nine rows, three builds, effects of two lengths: a voice reads its own instrument, the filter moves once a call, every note has the restarts it should, tables are run from positions of their own, an effect sounds and gives the voice back |
| `sound_effect` | violation: see Findings |
| `swm_file` | Patterns of up to three rows of the kinds packing could confuse, long runs of empty rows, slots, trailing orderlist bytes, sizes and counts at their limit and songs the writer refuses, read back from the file as written and from files that lost or gained bytes: the reader's cursor meets every boundary of the writer, a file is read as the song it came from or refused, and no file of the writer's is refused |
| `swm_marker` | violation: see Findings |
| `sid_reader` | Exports of one and two SIDs, moved, stripped, packed, saved as programs, hidden until init ran, with stale headers or a stub, and broken files; containers with wrappers, patches and two players: an export reads back as its song, no candidate that decodes is passed over, what is returned can be played, flags are those of the player that init enters, and a container's song is the subtune that sounds |
| `sid_tempo` | violation: see Findings |
| `session` | Every order of exports, refusals and failures of two sessions: a saved file is a fresh session's but for the author's cells past the terminator, and those are of the session's own saved exports |

Every property of a passing run has a mutant: a form of one definition with a
plausible bug in it (the end flag masked off before the compare, a comparison
off by one, a transpose applied a row late, a walk that does not move on, an
effect that keeps the instrument of the effect it replaces) that the run finds.

### Bounds

* `Chn` is 3 in `clock_grid`, where the voices' order in a call matters: a voice
  that has played, one that plays and one that has not are all the roles there
  are. `clock_tracks` has two: its voices agree on nothing, so there is the
  voice that sets the tempo and the one it finds anywhere in its row.
  `clock_fast` has one voice, which is all a handler lost or repeated within a
  call concerns; stores by other voices are in `clock_grid` and `clock_tracks`.
* `TableSize` is 12, or 10 with two voices: the subtune's two bytes, two for each
  voice and a program behind them, which is every kind of position the code
  distinguishes. Bytes are real bytes.
* `RowFx` holds one or two values of each effect, next to the limits 1, 2 and
  3 of the bind and either side of the counters they overtake.
* Patterns of three rows hold every pair of neighbours: what a row reads
  depends on itself and, for packing, on the byte before it. Runs of 8 to 11
  and of 18 to 20 lie about the nine zeros one marker can take and twice that.
* Orderlists of three commands and a terminator hold an effect before, between
  and after patterns, two effects in a row, loops to every position and a jump
  to another subtune. The second voice has a volume of its own, so that the
  shared volume is struggled for.
* In `sound` the voices are the third, which plays first and is the only one an
  effect may take, and the first, which plays last: what is shared is passed
  from one voice to the next within a call and from the last to the first
  between calls, and two voices do both. The instruments are slot 0's header and
  four that differ in restart bits, kept positions, filter table, the table a
  multispeed call starts from and gate-off position; the last of them is past
  the limit of two builds, one with sound effects and one with restart types.
  Each build has flags the others lack. Effects have a length of two frames and of none. The rows are
  chosen: an instrument that keeps its positions, and a filter position effect,
  come only with a note that takes the filter, and no portamento is a row
  effect of the third voice. Without that `TablesOwn` and `EffectSounds` are
  false (the second is the finding `sound_effect`). The third voice's plainest
  row has a delay, which the multispeed build holds for any number of calls, also
  after a row that leaves a portamento owed. The other properties hold for all
  rows, which the theorems show.
* In `swm_file`, what stands before a packed pattern is a length of 0, 3 or a
  marker's value, which is all the walk's look at the byte before can tell
  apart; bodies are all sequences of up to three of seven rows that do not
  themselves hold a byte with two readings. Names are of two bytes instead of
  eight and subtunes of two channels. Up to eight bytes are lost, more than the
  first item has; of three songs this reaches the first body's walk, which then
  comes to the file's start before the pattern's (`Uncut`, without which
  `MeetsMarks` is false).
* In `sid_reader` the files are given one by one: for each strategy an export
  that only it can read, with decoys for the strategies before it where the code
  could be led astray, and a file for each rejection. Widths, windows and reaches
  (`ScanWindow`, `Reach`, `ZpReach`) are the code's own.
* In `session` there are two sessions, two shipped builds and one that is lost,
  six modules (a long, a short and an empty author, one with speeds, one whose
  player only the later build has, one of two SIDs, one cut short) and four
  calls: a long author, a failure and a shorter author fit with one to spare.
  Texts are of three cells.

Only `MakerSession` has a bound in a guard: `MaxCalls`, on the calls of
`export`, whose files it keeps. All other state spaces are finite as they are
(`rowno` in `Sequencer` is at most the length of a pattern).

### Fairness

`TempoClock`'s `FairSpec` assumes `WF_vars(Next)`: the host calls the player in
every frame, and a call runs to its end. `Sequencer` assumes only that a begun
walk goes on, since it is a loop of the code; nothing is assumed of when a voice
plays. The other modules state safety only: the searches of `SwmFile` and
`SidReader` are loops over what shrinks, and a session is called or is not.

## Proofs

### TempoClockProofs

For every number of voices, table and song:

* `TypeCorrect`: `Spec => []TypeOK`. Counters stay bytes, positions stay in the
  table, from the named assumptions on the constants alone.
* If `GridSong`: `GridInvariant` and from it `GridLockstep`, `GridNoOvershoot`,
  `GridProgramBounded`, `GridRows`, `GridStepsOnce` and `GridEndHolds`.
* If `TracksSong`: `TracksInvariant` and from it `TracksNoStandstill`,
  `TracksProgramBounded`, `TracksRows`, `TracksStepsOnce` and `TracksEndHolds`.
* If `BoundSong`: `BoundInvariant` and from it `BoundRows`, `BoundStepsOnce` and
  `BoundProgramBounded`.

The three hypotheses are about the constants, that is, about a song and a build,
and TLC evaluates each on the songs of its runs. They share `ProgramOf`: a
stretch of the table of which only the last byte is flagged and every byte is
one of the given tempos.

**`GridSong`**: every tempo is at least three ticks and addresses all voices, no
track is delayed, and a note's delay is over before any row of the song is. It is
what most songs are. Track tempos part the voices by intent, so without it
`Lockstep` is no aim of the player.

`Lockstep` is about the moment between calls, and is not inductive. Inside a
call, a voice that has played is *ahead* of one that has not: it is one tick
further on the same tempo byte, or it stands at the first tick of the next
byte while the other is due to leave the last. `Together` says so for every
pair, `GridPrograms` that every voice stands inside a program whose bytes are
all long enough and of which only the last is flagged, `TableKept` that the
effects only ever store to the subtune's two bytes, `StageTick` and
`OwedByTick` which tick each handler belongs to. A held voice's counter stands at
2; its *count* adds what its delay has run through, and it is the counts that go
together (`Count`, `Held`, `HeldAtTick2`), so that catching up leaves them as
they were. A store to the table must keep `Ahead` for voices on both sides of the
call, and this is where it matters that the effect runs at tick 2, no tempo is
shorter than three, and no delay reaches the end of a row: then no voice's count
can be past the new byte.

**`TracksSong`**: tempos are as long, but a voice may have its own, from its
orderlist or its effects, and may be held by delays of both kinds; the voices
agree on nothing. The one limit is on a tempo for all voices: it must be a single
flagged byte. It finds the others' counters anywhere, and a flagged byte ends a
row for every counter at or past it, while an unflagged one is met only by
equality and a counter past it runs on to `$80`; this is what `NoStandstill` says
cannot come about. `OwnPrograms` keeps the stores apart: every voice is inside a
program that begins at the subtune's bytes, at the voice's own or at one of the
song's, so that what another voice stores to its own two bytes reaches no one.
`OwedAtTick` is what a row is still owed, by its voice's tick alone.

**`BoundSong`**: rows may be of one or two ticks, in a build with the fast speed
bind. If there are rows of one tick, effects lead only to programs that begin with
one; no effect is for all voices if there are several; a note's delay is at most
`$7C`. A longer row after one of one tick, or a tempo for a voice in the middle of
its row, makes the player lose or repeat a handler (`PROJECT.json`, hazards,
`sidwizard.play:344`). A handler now comes at
its tick or, in a row that is shorter, in the call of the row's last tick, and
that is the invariant: `BoundStage` ties each handler to counter and tempo,
`RowOwed` says what a row is owed between calls, nothing once its ticks are over.
A note that starts in a bound call may have shortened its row below the counter.
`CountTurns` follows such a counter, on to 128, where the compare overflows and the
next row comes. `EndHolds` is false at a tempo of one tick, where the count
taken back is the count of tick 0 and each call reads a row again before it comes
to the end; the bound theorems leave it out.

### SongCodeProofs, SequencerProofs

`SongCodeProofs` proves of the storing and parsing operators, for rows and
commands in any number:

* `RowsReadBack`: parsing a pattern's bytes gives its rows, if a value comes only
  with an effect that takes one (`AllTakeValues`).
* `PatternReadBack`: the same through packing and unpacking, if each is a
  `PlainRow` besides (no lone note that is stored as a byte a run is stored as;
  the finding `swm_marker` is what happens otherwise).
* `OrderlistReadBack`: the same of an orderlist whose commands have the arguments
  their kinds can store (`PlainCommand`).

These are inductions over the data. The library's induction theorems take an
operator, which the provers cannot instantiate, so the lemmas `SetInduction` and
`DownInduction` state induction for a *set* of numbers instead. The recursive
functions of `SongCode` go from a position of the bytes to the end or to the
start; the proofs say where each row or run begins in them (`Off`, `Emitted`,
`CommandOff`) and what the function returns there. What packing needs is
`NoFalseRun`: a byte that looks like a run is never the first, and stands behind
neither a zero nor another such byte.

`SequencerProofs` proves of the player, for every number of voices and any song:

* `SongReadsBack` (`RoundTrip`): the parser finds the song in the memory the
  player reads, if the song is `Plain`.
* `CellsKeepWidth` (`TypeOK`) and `ReaderStaysInside` (`StaysInside`), if every
  song is `Plain` and `Fits`: a pattern and an orderlist are no longer than a byte counts, no
  note byte is the terminator, and commands name patterns, positions and
  subtunes there are.

`StaysInside` is about the row under the cursor and is not inductive: it takes
knowing where a cursor can be. `CursorInv` says that a voice's position is the start
of its row number `rowno`, or inside a run and the run's counter says which row it
stands for, or at the terminator behind the last row; `OrderInv` that the orderlist
position is a command, or the byte behind the last one read, and before the list's
end. `IInv` is both with `TypeOK` and `Memory`, which
says that the stored bytes are those of the song.

### ScoreProofs

`PlayerPlaysScore`: if the songs fit and are `AsWritten`, every behaviour of
`Sequencer` is one of `Score` (`Spec => PlaysScore`). This is the central result
about the player: what it does byte by byte is what rows and commands say. Each
action has a lemma: a row read, a pattern's step and each turn of a walk is a step
of the score (`Music!...`) or changes nothing of it, under the mapping given in
`Sequencer` (`atBar`, `heardBar`, `keyBar` and so on). The invariant is `IInv`; the
link between the two sides is that the columns read at a row's position decode to
that row, which is `RowsReadBack` one row at a time. `AsWritten` leaves out what
the player does differently by design or by mistake: an effect right before a
loop or jump (the finding `score_loop`), a volume between the last pattern and an
end, and raw bytes that set a tempo in builds without the cap.

TLC evaluates `Plain`, `Fits` and `AsWritten` on all songs of the run `score`
(`SongsPlain` in `MCSequencer`), so that the hypotheses are those the run has.

### VoiceSoundProofs

For every order of voices and every set of builds, instruments, rows and effects,
from the assumptions of `VoiceSound` (`BuildsAreBuilds`, `OrderPlays`,
`SfxWithoutDelays`, `SlotsCount`, `RestartsAsked`, `NoNumber`, `RowsAreRows`, `FiltersPoint`,
`EffectsSound`: an effect's length is 0 to 127 and its instrument is not slot 0;
`SfxPlaysFirst`: a build with sound effects plays the third voice first):

* `TypeCorrect`: types, and which stage a turn can be in.
* `OwnRead` (`OwnInstrument`): every table is read through the reading voice's
  instrument. Like the theorems below it rests on `SfxInv`, which ties a sound
  effect's timer to its length: a running effect's timer is never past its
  length, its row selects no instrument of its own, and before the first frame
  the row still has the effect's note. A row that selected an instrument while
  the third voice is lent would be taken for the effect's.
* `EffectGivesBack` (`GivenBack`): without an effect the third voice has the
  instrument the music gave it last, by a row that selected it or one read under
  an effect. `GivenInv` says where that instrument is
  meanwhile, in `temp`.
* `MovesOnce` (`FilterMovesOnce`): the filter table moves at most once in a
  call. `FilterInv` says that once it has moved, the owner is none of the
  voices still to play; a claim of the filter in the middle of a
  call is what could break it, and an effect's claim is where `SfxPlaysFirst` is
  used.
* `RestartsAsTold` (`RestartsMatch`): a note that started a sound at its first tick
  2 had exactly the hard restarts its instrument asks for, or those of the
  instrument past the limit that its row names, and any other note had none. `RestartsInv` says
  tick by tick which of them the row has had already, and of a held row that a
  sound that started starts again and a note that slid has had no restart.
* `EffectIsHeard` (`EffectSounds`), if no row of the third voice asks for a tone
  portamento (`NoPortamento`; the finding `sound_effect` is why). `EffectInv` says
  what an effect's note, instrument and timer are until its first frame.
* `TablesAreTidy` (`TablesOwn`), if `TidyRows`: each voice either selects an
  instrument only with a note that starts it, and moves the filter only with a
  note that takes it, or has no row and no instrument that keeps or moves a
  position. `VoicesInv` says whose tables a voice's positions are of, whether it
  owns the filter or not.

TLC evaluates `NoPortamento` and `TidyRows` on the rows of the run `sound`.

### MakerSessionProofs

For every set of sessions, builds and modules and any number of calls, from
`VersionsShipped`, `ModulesHaveAuthors`, `NoneIsNoVersion` and `CallsBounded`:
`TypeCorrect`, `FilesAsFresh` (`SavedAsFresh`) and `FilesLeftByOwnExports`
(`LeftByOwnExports`). The files alone say nothing about the next one; the invariant
`IInv` adds that a session's memory, outside what each export sets anew, is the
build's image and an author whose every cell was left by the session's own saved
exports.

### SidReaderProofs

For every set of files, whatever bytes they hold, and both for a file read by itself
(`Spec`) and for the part of a container that one song plays (`SongSpec`):

* `SearchTypes` (`TypeOK`).
* `SearchFindsFirst` (`FindsFirst`): the search goes on step by step, gives up
  candidates and strategies, may be ended by a failing init or by the check of the
  played instruments, and still ends with what `Parsed` says all at once.
* `FoundIsPlayable` (`Playable`): a song that is returned can be played.
* `ViewIsWhole` (`ViewWhole`), if every header of a container counts orderlists
  (`HeadersCount`): the view of one song is one subtune that resolves by itself. A
  header that counts none stands for one subtune all the same
  (`constants.py:227-231`), and its view would have no orderlist; SID-Maker saves no
  such header, and TLC evaluates the hypothesis on the files of `sid_reader`.

What a file is, is `FilesAreFiles` (`IsFile`): its images hold bytes, its addresses
and counts are numbers, its player's code names finitely many tables, and init was
run for each subtune the header counts. `ContainersAreTunes` (`IsTune`) says that a
container's players lie in its image and that its init stores bytes and enters those
players; TLC evaluates both. Nothing is assumed of what the bytes mean, or of any
address the code or a header names.

The invariant `SearchInv` says at each stage what is left to find: `PlanInv` that
the strategies left find what all of them would and no candidate before the one in
hand decodes, `BlockInv` that no subtune table before the one in hand reads, and
`SongInv` what a song is that was found. Of each strategy a lemma says that its
layouts have the types reading needs (`SwmIs`, `SwpIs`, `CodescanIs`, `PlayerIs`),
which for the code scan takes that the places it tries can be sorted (`RankIs`). `Playable` rests on two lemmas: an orderlist ends inside its bytes
wherever it was read from (`OrdersEnd`), and each table of subtunes that is tried
holds as many subtunes as its orderlists make (`BlocksAre`), which is what the
arithmetic of `subtunes_for` must agree with. `EntryInv` carries the same through the emulated init
to the window of memory that is searched.

### SwmFileProofs

For every set of songs of any length, any losses and any bytes that are put before
the file, from `FormatAssumption`, `DamageAssumption` and `SongsAssumption` (a song's
commands are ones `encode()` accepts, a slot has no rows):

* `FilesTyped` (`TypeOK`).
* If every song is `FoundAgain`, `CursorMeetsMarks` (`MeetsMarks`): the reader, which
  goes backward through a file that does not say where its parts begin, stands
  between two items where the writer went from one to the other.
* With the same hypothesis `FileReadsBack` (`ReadsBack`) and `WrittenIsRead`
  (`ReadsWritten`): it reads the song that was written, takes no file that lost
  or gained bytes for a whole one, and refuses none that the writer has written.

`FoundAgain` says that orderlists hold arguments their bytes can hold and only raw
bytes behind their end, and that a pattern's bytes before packing have none that
looks like a run behind a zero or another such byte (`NoFalseRun`, which is weaker
than `PlainRow`). Without it the last theorem is false: that is the finding
`swm_marker`. TLC evaluates it on the songs of `swm_file` (`SongsFoundAgain`).
`MeetsMarks` and `ReadsBack` speak of files that are `Telling`: a song that has no
orderlist leaves nothing in the file by which a cut could be noticed.

The invariant `FileInv` has two halves. Of any file `ReadInv` holds, whether or not
the reader is misled: `WriterInv`, that the bytes are the song's items one after the
other (`LaidOut`) and, once they are written, that every stream of the song parses; `Damaged`, that
the file holds these bytes but for those at its start; and `CountInv`, which parts
have been read at which stage. `PositionInv` adds where the reader is: `Synced`, at
the edge of an item with the items behind it read, or in a pattern's body
(`InBody`), or `Lost`. A body is walked byte by byte without its bytes being
unpacked; what is invariant is that the count `j` that is left is the number
of bytes the packed ones before the cursor unpack to (`WalkedBytes`), so that it
runs out exactly where the writer began. A reader is `Lost` once it has come to the start of a
file that was cut in the middle of a body: what it takes for patterns from there
on is no song's, and the proof is that it cannot get past the orderlists, for which
no byte is left (`LostStays`). That what is collected is the song rests on
`RowsFoundAgain` and `SequenceReadBack`, which extend the results of
`SongCodeProofs` to these hypotheses.

### Model-checked only

* `RowsKeepComing` and `WalksEnd`: liveness, which the prover does not reach.
* The SID reader: `ReadsExport`, `ReadsBuild` and `ReadsSong` compare what is read
  with how each file was made, which is given with the file, one by one.

## Findings

* `score_loop`: a `Loop` is documented to jump. With an orderlist effect right
  before its `$FF` the walk stops at the effect and the last pattern plays
  again for ever.
* `swm_marker`: the round trip is documented as byte-exact. A row of nothing but
  a note of `$70` to `$77` after an empty row is written as that byte after a
  zero; the writer's check only asks that its streams parse, and the reader
  takes the byte for a run, stops inside the file at the wrong byte and refuses
  it.
* `sid_tempo`: `constants.py:87` says an export reserves tempo bytes of the
  player's own ahead of the tempo programs. Only the header strategy skips them:
  of an export found by its player's code, or packed, the tempo programs begin
  with those bytes and lose as many at their end (`sidreader.py:906`).
* `sound_effect`: a comment says that a sound effect's first frame starts its
  note (`sidwizard.play:260`). The effect's init leaves the row's effect column,
  so after a row with a tone portamento the note never starts a sound.

Limits met on the way:

* Clock: a delay of zero stops its track; a note delay of `$7D` and more can
  lead the position out of its program; a tempo effect in a bound tick 2 can
  repeat the step in the build with the fast speed bind; funktempo `$14` at a
  voice's tick 2 leaves the voices that play later at tick 2 with a tempo of
  one, which `docs/format.md:408` calls out of the default build's reach; the
  comment on `pattern_step` has ticks bound at tempos of three or less, the code
  below three.
* Sequencer: a volume before `$FE` is set again in every call after the end; a
  `Loop` onto its own `$FF` never returns (a test pins it); a byte `$70` to
  `$77` where a note is due is always a run to the player, so such a vibrato
  amplitude is lost when its row has no other columns.
* Sound: a row with an instrument at or past the build's limit is hard-restarted with
  that instrument's bytes though its note sounds another, and such an instrument
  is given to the third voice if its row is read under an effect; after a
  portamento note effect a delayed note slides in its first call and starts its
  sound, without a hard restart, in the next; an effect of `$80` frames or more ends before it starts and never gives
  the instrument back; a filter position effect in a voice that does not own the
  filter moves the owner's position; an effect that comes between a row and its
  note drops the row's instrument; the effects of a voice that has no instrument
  read through the last pointer (`src/tests/test_player_fx.py` pins it).
* Files: a note of `$7F` with an instrument is stored as `$FF`, the terminator;
  a song without orderlists that lost its first bytes can be read as another,
  since nothing but an orderlist's size tells; a row with effect 0, which the
  reader accepts, is one `Row.encode` refuses to write.

## Not modelled

* **Instrument files** (`swi.py`): two fixed slices each way, without state,
  order or recovery; a model would be a second copy of the code.
* **Playspec binder** (`playspec.py`, `playspec_effects.py`): one loop that
  matches each routine's pattern and refuses an operand that disagrees with an
  earlier one; what it binds is decided by the patterns, which are data of the
  6502 player.
* **Register arithmetic** of the tables, slides, vibrato and common registers:
  compared frame by frame with a 6502 by the repository's tests.
* **Front end and register log** (`player.py`, `reglog.py`, `formats.py`), thin
  wrappers over the external `pysidtracker` runtime; the runtime and the 6502
  simulator; scripts and tests.

Left for further work: `TempoClock`, `Sequencer` and `VoiceSound` share a turn
and could be composed on their common actions, so that one song drives all
three.
