------------------------------ MODULE Sequencer ------------------------------
(***************************************************************************)
(* How the player finds its way through a song (specs/sidwizard.play): each  *)
(* voice reads the bytes of its patterns row by row, steps past each row,    *)
(* walks its orderlist from one pattern to the next, and starts the row's    *)
(* note.  When it does which is the tick clock's business (TempoClock): here *)
(* a voice comes to its row, its step and its note in that order and the     *)
(* voices interleave freely, but a walk of an orderlist, which is one loop   *)
(* of the code, is not interrupted.                                         *)
(*                                                                          *)
(* The song is compiled into the player's memory once.  The builds modelled  *)
(* are those with orderlist effects, transposes and subtune jumps            *)
(* (SEQ_FX_SUPPORT, TRANSPOSESUPP, SUBTUNEJUMP) and no octave shift.         *)
(***************************************************************************)
EXTENDS SongCode, FiniteSets

CONSTANTS
  Voice,            \* the voices
  Nobody,           \* not a voice
  Songs,            \* [rows: pattern -> rows, orders: subtune -> voice -> commands]
  SelInsLimit,      \* instrument columns below it select an instrument
  InitVolume,       \* main volume the init leaves
  SeqTempoCapped,   \* build flag: orderlist bytes from $F0 set no tempo
  NoInsRts          \* build flag: without an instrument no effect runs

Byte == 0 .. 255

ASSUME NobodyAssumption == Nobody \notin Voice
ASSUME BuildAssumption ==
  /\ SelInsLimit \in Byte
  /\ InitVolume \in 0 .. 15
  /\ SeqTempoCapped \in BOOLEAN
  /\ NoInsRts \in BOOLEAN

\* An orderlist the player can start on: it meets a pattern, then an end.
Playable(cmds) ==
  \E p, e \in DOMAIN cmds :
    /\ p < e
    /\ cmds[p].op = "play"
    /\ cmds[e].op \in {"end", "loop", "jump"}
    /\ \A k \in 1 .. e - 1 : cmds[k].op \notin {"end", "loop", "jump"}

ASSUME SongsAssumption ==
  \A s \in Songs :
    /\ \A p \in DOMAIN s.rows : s.rows[p] \in Seq(Row) /\ s.rows[p] # <<>>
    /\ \A sub \in DOMAIN s.orders : \A v \in Voice :
         s.orders[sub][v] \in Seq(Command) /\ Playable(s.orders[sub][v])

-----------------------------------------------------------------------------
(* Songs the player plays as they are written: what the theorems suppose of  *)
(* a song, each theorem what it needs.                                      *)

\* The parser finds every row and every command again.
Plain(s) ==
  /\ \A p \in DOMAIN s.rows : \A k \in DOMAIN s.rows[p] : PlainRow(s.rows[p][k])
  /\ \A sub \in DOMAIN s.orders : \A v \in Voice :
       \A k \in DOMAIN s.orders[sub][v] : PlainCommand(s.orders[sub][v][k])

\* Where an orderlist ends.
Ending(cmds) ==
  CHOOSE e \in DOMAIN cmds :
    /\ cmds[e].op \in {"end", "loop", "jump"}
    /\ \A k \in 1 .. e - 1 : cmds[k].op \notin {"end", "loop", "jump"}

\* Patterns and orderlists are no longer than a byte counts, no note byte is the
\* terminator, and an orderlist names patterns, commands and subtunes there are.
Fits(s) ==
  /\ 0 \in DOMAIN s.orders
  /\ \A p \in DOMAIN s.rows :
       /\ Len(Append(Pack(EncodeRows(s.rows[p])), 255)) <= 256
       /\ \A k \in DOMAIN s.rows[p] : EncodeRow(s.rows[p][k])[1] # 255
  /\ \A sub \in DOMAIN s.orders : \A v \in Voice :
       LET cmds == s.orders[sub][v]
           e == Ending(cmds)
       IN  /\ e <= 256
           /\ \A k \in 1 .. e : cmds[k].op = "play" => cmds[k].arg \in DOMAIN s.rows
           /\ cmds[e].op = "loop" => cmds[e].arg < e
           /\ cmds[e].op = "jump" => cmds[e].arg % 32 \in DOMAIN s.orders

\* No effect stands before a loop or a jump, no volume after the last pattern
\* before an end, and no byte from $F0 where it would set a tempo.
AsWritten(s) ==
  \A sub \in DOMAIN s.orders : \A v \in Voice :
    LET cmds == s.orders[sub][v]
        e == Ending(cmds)
    IN  /\ cmds[e].op \in {"loop", "jump"} => cmds[e - 1].op = "play"
        /\ \A k \in 1 .. e - 1 :
             /\ cmds[e].op = "end" /\ cmds[k].op = "volume" =>
                  \E p \in k .. e - 1 : cmds[p].op = "play"
             /\ cmds[k].op = "raw" => SeqTempoCapped

-----------------------------------------------------------------------------
VARIABLES
  song,      \* the song, as its model states it
  ptn,       \* memory: pattern -> packed rows, then $FF
  order,     \* memory: subtune -> voice -> orderlist bytes
  seqt,      \* per voice: the subtune whose orderlist it walks
  seqpos,    \* per voice: orderlist position of the pattern
  curptn,    \* per voice: the pattern
  ptnpos,    \* per voice: position in the pattern of the byte last read
  packcnt,   \* per voice: empty rows still to come of a run
  row,       \* per voice: the columns CURNOT, CURIFX, CURFX2 and CURVAL
  curins,    \* per voice: instrument
  dpitch,    \* per voice: note that sounds, a byte
  transp,    \* per voice: transpose of the notes it starts, a byte
  transp2,   \* per voice: transpose that takes effect at the next step, a byte
  seqtempo,  \* per voice: orderlist tempo that takes effect at the next row
  trktempo,  \* per voice: track tempo in effect, 0 if none has been
  seqvolu,   \* volume that takes effect at the next row
  mainvol,   \* volume
  stage,     \* per voice: the handler it comes to next
  walker,    \* the voice that walks its orderlist, or Nobody
  y,         \* the walk's position in the orderlist
  rowno,     \* per voice: rows read of the pattern (history)
  over       \* per voice: where its track ended, 0 if it has not (history)

memory == <<song, ptn, order>>
orders == <<seqt, seqpos, curptn>>
cursor == <<ptnpos, packcnt, row, rowno>>
voiced == <<curins, dpitch>>
delayed == <<transp2, seqtempo, seqvolu>>
applied == <<transp, trktempo, mainvol>>
control == <<stage, walker, y, over>>
vars == <<memory, orders, cursor, voiced, delayed, applied, control>>

Stream(s, p) == Append(Pack(EncodeRows(s.rows[p])), 255)
Orderlist(s, sub, v) == EncodeSequence(s.orders[sub][v])

Init ==
  /\ song \in Songs
  /\ ptn = [p \in DOMAIN song.rows |-> Stream(song, p)]
  /\ order = [sub \in DOMAIN song.orders |-> [v \in Voice |-> Orderlist(song, sub, v)]]
  /\ seqt = [v \in Voice |-> 0]
  /\ seqpos = [v \in Voice |-> 0]
  /\ curptn = [v \in Voice |-> 0]
  /\ ptnpos = [v \in Voice |-> 0]
  /\ packcnt = [v \in Voice |-> 0]
  /\ row = [v \in Voice |-> Empty]
  /\ curins = [v \in Voice |-> 0]
  /\ dpitch = [v \in Voice |-> 0]
  /\ transp = [v \in Voice |-> 0]
  /\ transp2 = [v \in Voice |-> 0]
  /\ seqtempo = [v \in Voice |-> 0]
  /\ trktempo = [v \in Voice |-> 0]
  /\ seqvolu = InitVolume
  /\ mainvol = InitVolume
  /\ stage = [v \in Voice |-> "start"]
  /\ walker = Nobody
  /\ y = 0
  /\ rowno = [v \in Voice |-> 0]
  /\ over = [v \in Voice |-> 0]

OrderByte(v, pos) == order[seqt[v]][v][pos + 1]
PatternByte(v, pos) == ptn[curptn[v]][pos + 1]

-----------------------------------------------------------------------------
(* Orderlist effects.                                                       *)

\* Mutant: the transpose is not a byte.
OrderEffectRaw(v, a) ==
  /\ transp2' = IF a < 160 THEN [transp2 EXCEPT ![v] = a - 144] ELSE transp2
  /\ seqvolu' = IF a \in 160 .. 175 THEN a % 16 ELSE seqvolu
  /\ seqtempo' = IF a >= 176 /\ (a < 240 \/ ~SeqTempoCapped)
                   THEN [seqtempo EXCEPT ![v] = a - 176] ELSE seqtempo

OrderEffect(v, a) ==
  /\ transp2' = IF a < 160 THEN [transp2 EXCEPT ![v] = (a - 144) % 256] ELSE transp2
  /\ seqvolu' = IF a \in 160 .. 175 THEN a % 16 ELSE seqvolu
  /\ seqtempo' = IF a >= 176 /\ (a < 240 \/ ~SeqTempoCapped)
                   THEN [seqtempo EXCEPT ![v] = a - 176] ELSE seqtempo

-----------------------------------------------------------------------------
(* The subtune starts: the effects up to the first pattern.                 *)

StartEffect(v) ==
  /\ stage[v] = "start"
  /\ walker \in {v, Nobody}
  /\ OrderByte(v, seqpos[v]) \in 128 .. 253
  /\ OrderEffect(v, OrderByte(v, seqpos[v]))
  /\ seqpos' = [seqpos EXCEPT ![v] = @ + 1]
  /\ walker' = v
  /\ UNCHANGED <<memory, seqt, curptn, cursor, voiced, applied, stage, y, over>>

StartPattern(v) ==
  /\ stage[v] = "start"
  /\ walker \in {v, Nobody}
  /\ OrderByte(v, seqpos[v]) < 128
  /\ curptn' = [curptn EXCEPT ![v] = OrderByte(v, seqpos[v])]
  /\ stage' = [stage EXCEPT ![v] = "row"]
  /\ walker' = Nobody
  /\ UNCHANGED <<memory, seqt, seqpos, cursor, voiced, delayed, applied, y, over>>

-----------------------------------------------------------------------------
(* Tick 0: a row.  The delayed volume and track tempo take effect first.    *)

RowPrep(v) ==
  /\ stage[v] = "row"
  /\ walker = Nobody
  /\ mainvol' = seqvolu
  /\ trktempo' = [trktempo EXCEPT ![v] = IF seqtempo[v] = 0 THEN @ ELSE seqtempo[v]]
  /\ seqtempo' = [seqtempo EXCEPT ![v] = 0]
  /\ stage' = [stage EXCEPT ![v] = "step"]
  /\ rowno' = [rowno EXCEPT ![v] = @ + 1]
  /\ UNCHANGED <<memory, orders, voiced, transp, transp2, seqvolu, walker, y, over>>

\* An empty row; CURVAL keeps its last value.
NoColumns(v) == row' = [row EXCEPT ![v] = [Empty EXCEPT !.value = row[v].value]]

RunGoesOn(v) ==
  /\ RowPrep(v)
  /\ packcnt[v] # 0
  /\ NoColumns(v)
  /\ packcnt' = [packcnt EXCEPT ![v] = @ - 1]
  /\ UNCHANGED ptnpos

\* Any byte $70..$77 where a note is due is a run, whatever it follows.
RunStarts(v) ==
  /\ RowPrep(v)
  /\ packcnt[v] = 0
  /\ PatternByte(v, ptnpos[v]) \in Marker
  /\ NoColumns(v)
  /\ packcnt' = [packcnt EXCEPT ![v] = PatternByte(v, ptnpos[v]) - PackedMin + 1]
  /\ UNCHANGED ptnpos

\* How far the columns of a row reach from its note byte.
Reach(v) ==
  LET p == ptnpos[v]
  IN  IF PatternByte(v, p) < 128 THEN 0
      ELSE IF PatternByte(v, p + 1) < 128 THEN 1
      ELSE IF PatternByte(v, p + 2) >= 32 THEN 2 ELSE 3

\* Columns the bytes do not announce are clear, but for CURVAL.
ReadColumns(v) ==
  LET p == ptnpos[v]
      n == Reach(v)
  IN  /\ RowPrep(v)
      /\ packcnt[v] = 0
      /\ PatternByte(v, p) \notin Marker
      /\ row' = [row EXCEPT ![v] =
           [note  |-> PatternByte(v, p) % 128,
            inst  |-> IF n >= 1 THEN PatternByte(v, p + 1) % 128 ELSE 0,
            fx    |-> IF n >= 2 THEN PatternByte(v, p + 2) ELSE 0,
            value |-> IF n = 3 THEN PatternByte(v, p + 3) ELSE @.value]]
      /\ ptnpos' = [ptnpos EXCEPT ![v] = p + n]
      /\ UNCHANGED packcnt

-----------------------------------------------------------------------------
(* Tick 1: the delayed transpose takes effect, and the pattern goes on or    *)
(* the orderlist does.                                                      *)

\* Mutant: the step applies the transpose a row late.
StepLate(v) ==
  /\ stage[v] = "step"
  /\ walker = Nobody
  /\ transp' = [transp EXCEPT ![v] = IF rowno[v] = 1 THEN @ ELSE transp2[v]]
  /\ UNCHANGED <<memory, orders, packcnt, row, rowno, voiced, delayed, trktempo, mainvol, over>>

Step(v) ==
  /\ stage[v] = "step"
  /\ walker = Nobody
  /\ transp' = [transp EXCEPT ![v] = transp2[v]]
  /\ UNCHANGED <<memory, orders, packcnt, row, rowno, voiced, delayed, trktempo, mainvol, over>>

NextByte(v) == PatternByte(v, ptnpos[v] + 1)

RunHolds(v) ==
  /\ Step(v)
  /\ packcnt[v] # 0
  /\ stage' = [stage EXCEPT ![v] = "note"]
  /\ UNCHANGED <<ptnpos, walker, y>>

NextRow(v) ==
  /\ Step(v)
  /\ packcnt[v] = 0
  /\ NextByte(v) # 255
  /\ ptnpos' = [ptnpos EXCEPT ![v] = @ + 1]
  /\ stage' = [stage EXCEPT ![v] = "note"]
  /\ UNCHANGED <<walker, y>>

PatternEnds(v) ==
  /\ Step(v)
  /\ packcnt[v] = 0
  /\ NextByte(v) = 255
  /\ walker' = v
  /\ y' = seqpos[v] + 1
  /\ UNCHANGED <<ptnpos, stage>>

-----------------------------------------------------------------------------
(* The walk: from one orderlist byte to the next, up to a pattern or an end. *)

Walk(v) ==
  /\ walker = v
  /\ stage[v] = "step"
  /\ UNCHANGED <<memory, packcnt, row, voiced, applied>>

\* The walk is over and the pattern, whichever it is, starts at its first row.
FromTheTop(v) ==
  /\ walker' = Nobody
  /\ y' = 0
  /\ ptnpos' = [ptnpos EXCEPT ![v] = 0]
  /\ rowno' = [rowno EXCEPT ![v] = 0]
  /\ stage' = [stage EXCEPT ![v] = "note"]
  /\ UNCHANGED over

WalkGoesOn(to) == y' = to /\ UNCHANGED <<ptnpos, rowno, stage, walker, over>>

\* Mutant: the pattern starts where the last one ended.
WalkPatternOn(v) ==
  /\ Walk(v)
  /\ OrderByte(v, y) < 128
  /\ curptn' = [curptn EXCEPT ![v] = OrderByte(v, y)]
  /\ seqpos' = [seqpos EXCEPT ![v] = y]
  /\ walker' = Nobody
  /\ y' = 0
  /\ rowno' = [rowno EXCEPT ![v] = 0]
  /\ stage' = [stage EXCEPT ![v] = "note"]
  /\ UNCHANGED <<seqt, delayed, ptnpos, over>>

WalkPattern(v) ==
  /\ Walk(v)
  /\ OrderByte(v, y) < 128
  /\ curptn' = [curptn EXCEPT ![v] = OrderByte(v, y)]
  /\ seqpos' = [seqpos EXCEPT ![v] = y]
  /\ FromTheTop(v)
  /\ UNCHANGED <<seqt, delayed>>

\* $FE: the row is stepped again at the next call, and again the call after.
WalkEnd(v) ==
  /\ Walk(v)
  /\ OrderByte(v, y) = 254
  /\ over' = [over EXCEPT ![v] = y + 1]
  /\ walker' = Nobody
  /\ y' = 0
  /\ UNCHANGED <<orders, delayed, ptnpos, rowno, stage>>

WalkLoop(v) ==
  /\ Walk(v)
  /\ OrderByte(v, y) = 255
  /\ OrderByte(v, y + 1) < 128
  /\ WalkGoesOn(OrderByte(v, y + 1))
  /\ UNCHANGED <<orders, delayed>>

\* A target of $80 or more, shifted left in a byte, picks one of 32 subtunes.
WalkSubtune(v) ==
  /\ Walk(v)
  /\ OrderByte(v, y) = 255
  /\ OrderByte(v, y + 1) >= 128
  /\ seqt' = [seqt EXCEPT ![v] = OrderByte(v, y + 1) % 32]
  /\ WalkGoesOn(0)
  /\ UNCHANGED <<seqpos, curptn, delayed>>

\* Mutant: the walk stands at the effect.
WalkEffectStands(v) ==
  /\ Walk(v)
  /\ OrderByte(v, y) \in 128 .. 253
  /\ OrderEffect(v, OrderByte(v, y))
  /\ WalkGoesOn(y)
  /\ UNCHANGED orders

\* An effect; if $FF follows, the walk is over and the pattern plays again.
WalkEffect(v) ==
  /\ Walk(v)
  /\ OrderByte(v, y) \in 128 .. 253
  /\ OrderEffect(v, OrderByte(v, y))
  /\ IF OrderByte(v, y + 1) = 255 THEN FromTheTop(v) ELSE WalkGoesOn(y + 1)
  /\ UNCHANGED orders

-----------------------------------------------------------------------------
(* Tick 2: the row's instrument and note, and the effect that sets a volume. *)

StartNote(v) ==
  LET r == row[v]
  IN  /\ stage[v] = "note"
      /\ walker = Nobody
      /\ curins' = [curins EXCEPT ![v] = IF r.inst # 0 /\ r.inst < SelInsLimit THEN r.inst ELSE @]
      /\ dpitch' = [dpitch EXCEPT ![v] =
                      IF curins'[v] # 0 /\ r.note \in 1 .. 95 THEN (r.note + transp[v]) % 256 ELSE @]
      /\ IF r.fx \in 160 .. 175 /\ (curins'[v] # 0 \/ ~NoInsRts)
           THEN mainvol' = r.fx % 16 /\ seqvolu' = r.fx % 16
           ELSE UNCHANGED <<mainvol, seqvolu>>
      /\ stage' = [stage EXCEPT ![v] = "row"]
      /\ UNCHANGED <<memory, orders, cursor, transp, transp2, seqtempo, trktempo, walker, y, over>>

-----------------------------------------------------------------------------
Start(v) == StartEffect(v) \/ StartPattern(v)
ReadRow(v) == RunGoesOn(v) \/ RunStarts(v) \/ ReadColumns(v)
WalkStep(v) == WalkPattern(v) \/ WalkEnd(v) \/ WalkLoop(v) \/ WalkSubtune(v) \/ WalkEffect(v)
PatternStep(v) == RunHolds(v) \/ NextRow(v) \/ PatternEnds(v) \/ WalkStep(v)

Next == \E v \in Voice : Start(v) \/ ReadRow(v) \/ PatternStep(v) \/ StartNote(v)

Spec == Init /\ [][Next]_vars

\* A walk is a loop of the code: once it has begun, its turns follow.
FairSpec == Spec /\ \A v \in Voice : WF_vars(walker = v /\ (Start(v) \/ WalkStep(v)))

-----------------------------------------------------------------------------
(* Properties.                                                              *)

\* Every cell keeps its width: a transpose and a pitch wrap as bytes, a run and
\* a track tempo stay within what their bytes can say.
TypeOK ==
  /\ seqt \in [Voice -> 0 .. 31]
  /\ seqpos \in [Voice -> Byte]
  /\ curptn \in [Voice -> 0 .. 127]
  /\ ptnpos \in [Voice -> Byte]
  /\ packcnt \in [Voice -> 0 .. 8]
  /\ row \in [Voice -> Row]
  /\ curins \in [Voice -> 0 .. 127]
  /\ dpitch \in [Voice -> Byte]
  /\ transp \in [Voice -> Byte]
  /\ transp2 \in [Voice -> Byte]
  /\ seqtempo \in [Voice -> 0 .. 77]
  /\ trktempo \in [Voice -> 0 .. 77]
  /\ seqvolu \in 0 .. 15
  /\ mainvol \in 0 .. 15
  /\ stage \in [Voice -> {"start", "row", "step", "note"}]
  /\ walker \in Voice \cup {Nobody}
  /\ y \in Byte
  /\ rowno \in [Voice -> Nat]
  /\ over \in [Voice -> Nat]

\* The parser finds in the memory the player reads the rows and commands the
\* writer stored there.
RoundTrip ==
  /\ \A p \in DOMAIN ptn : DecodeRows(Unpack(Front(ptn[p]))) = song.rows[p]
  /\ \A sub \in DOMAIN order : \A v \in Voice :
       DecodeSequence(order[sub][v]) = song.orders[sub][v]

\* A row is read from inside its pattern: neither its note byte nor a byte its
\* columns announce is the terminator or lies beyond it.
StaysInside ==
  \A v \in Voice :
    LET p == ptnpos[v]
        end == Len(ptn[curptn[v]]) - 1
    IN  stage[v] = "row" /\ packcnt[v] = 0 =>
          /\ p < end
          /\ PatternByte(v, p) >= 128 => p + 1 < end
          /\ p + Reach(v) < end

\* Every walk of an orderlist comes to a pattern or to the track's end.
WalksEnd == \A v \in Voice : walker = v ~> walker = Nobody

Signed(b) == IF b >= 128 THEN b - 256 ELSE b

\* What the score calls the place: the walk's command while the voice walks,
\* its pattern's and the rows read of it otherwise.
Place(v) ==
  IF over[v] # 0 THEN [sub |-> seqt[v], cmd |-> over[v], row |-> 0]
  ELSE IF stage[v] = "start" \/ walker # v
    THEN [sub |-> seqt[v], cmd |-> seqpos[v] + 1, row |-> rowno[v]]
    ELSE [sub |-> seqt[v], cmd |-> y + 1, row |-> 0]

Heard(v) ==
  IF over[v] # 0 THEN Empty
  ELSE [row[v] EXCEPT !.value = IF row[v].fx \in 1 .. 31 THEN @ ELSE 0]

\* A row's key is the delayed transpose until its step has applied it.
Key(v) ==
  IF over[v] # 0 THEN 0
  ELSE IF stage[v] = "step" /\ walker # v THEN Signed(transp2[v]) ELSE Signed(transp[v])

Sung(v) == over[v] # 0 \/ stage[v] \in {"start", "row"}
Shift(v) == IF over[v] # 0 THEN 0 ELSE Signed(transp2[v])
Pace(v) == IF over[v] # 0 THEN 0 ELSE seqtempo[v]

\* The score's variables.
atBar == [v \in Voice |-> Place(v)]
heardBar == [v \in Voice |-> Heard(v)]
sungBar == [v \in Voice |-> Sung(v)]
shiftBar == [v \in Voice |-> Shift(v)]
keyBar == [v \in Voice |-> Key(v)]
paceBar == [v \in Voice |-> Pace(v)]
pitchBar == [v \in Voice |-> Signed(dpitch[v])]

Music == INSTANCE Score WITH
  InsLimit <- SelInsLimit, FullVolume <- InitVolume, MuteEffects <- NoInsRts,
  at <- atBar, heard <- heardBar, sung <- sungBar, shift <- shiftBar, key <- keyBar,
  pace <- paceBar, tempo <- trktempo, instr <- curins, pitch <- pitchBar,
  level <- seqvolu, volume <- mainvol

\* The player plays, byte by byte, what the song's rows and commands say.
PlaysScore == Music!Spec
=============================================================================
