-------------------------- MODULE TempoClockProofs --------------------------
(* Proofs about the tempo clock, for every number of voices, every table     *)
(* and every song the constants allow.                                       *)
EXTENDS TempoClock, TLAPS

-----------------------------------------------------------------------------
(* Byte and slot arithmetic.                                                *)

\* The constants the handlers store.
LEMMA SmallBytes == {0, 1, 2, 255} \subseteq Byte
  BY SMT DEF Byte

\* Reducing modulo 256 gives a byte.
LEMMA ByteMod == \A i \in Int : i % 256 \in Byte
  BY SMT DEF Byte

\* Counting a byte up, down or on by another byte gives a byte.
LEMMA ByteSteps ==
  \A x, y \in Byte : /\ (x + 1) % 256 \in Byte
                     /\ (x - 1) % 256 \in Byte
                     /\ (x + y) % 256 \in Byte
  BY SMT DEF Byte

\* A flagged tempo is a byte that keeps its ticks.
LEMMA FlaggedByte ==
  \A a \in Int : Flagged(a) \in Byte /\ Neg(Flagged(a)) /\ Flagged(a) % 128 = a % 128
  BY SMT DEF Byte, Flagged, Neg

\* The two tempos of a funktempo value.
LEMMA Nibbles ==
  \A a \in Byte : /\ a \div 16 \in 0 .. 15
                  /\ 128 + (a % 16) \in Byte
                  /\ Neg(128 + (a % 16))
                  /\ (128 + (a % 16)) % 128 = a % 16
  BY SMT DEF Byte, Neg

\* The position after a position.
LEMMA NextSlotType == \A p \in Slot : NextSlot(p) \in Slot
  BY TableAssumption, ChnAssumption, SMT DEF Slot, NextSlot

\* A voice's own tempo bytes lie in the table.
LEMMA TrackSlots ==
  \A v \in Voice : /\ TrkTmpPos(v) \in Slot
                   /\ TrkTmpPos(v) + 1 \in Slot
                   /\ TrkTmpPos(v) + 2 \in Slot
  BY ChnAssumption, TableAssumption, SMT DEF Voice, Slot, TrkTmpPos

-----------------------------------------------------------------------------
(* Type correctness.                                                        *)

\* The turn passes to a voice.
LEMMA TurnType ==
  ASSUME turn \in Voice, EndTurn
  PROVE  turn' \in Voice /\ stage' = "frame"
  BY ChnAssumption, SMT DEF EndTurn, Voice

\* A turn goes on with the bound handler or ends.
LEMMA BindType ==
  ASSUME NEW next, NEW limit, turn \in Voice, BindTo(next, limit)
  PROVE  turn' \in Voice /\ stage' \in {"frame", next}
  BY TurnType DEF BindTo, GoOn

\* Storing a track tempo keeps the clock's types.
LEMMA OwnTempoType ==
  ASSUME TypeOK, NEW v \in Voice, NEW a \in Byte, OwnTempo(v, a)
  PROVE  /\ tempotbl' \in [Slot -> Byte]
         /\ tmppos' \in [Voice -> Slot]
         /\ tmpbase' \in [Voice -> Slot]
  BY TrackSlots DEF TypeOK, OwnTempo, OwnProgram

\* A delay's hold keeps the clock's types.
LEMMA HoldType ==
  ASSUME TypeOK, NEW v \in Voice, NEW a \in Byte, Hold(v, a)
  PROVE  trdelay' \in [Voice -> Byte] /\ spdcnt' \in [Voice -> Byte]
<1>1. 2 \in Byte /\ \A x \in Byte : (x - 1) % 256 \in Byte
  BY ByteSteps, SmallBytes
<1>2. ((IF trdelay[v] = 255 THEN a ELSE trdelay[v]) - 1) % 256 \in Byte
  BY <1>1 DEF TypeOK
<1>. QED
  BY <1>1, <1>2 DEF TypeOK, Hold

\* Every effect of a row keeps the clock's types.
LEMMA EffectType ==
  ASSUME TypeOK, NEW v \in Voice, NEW n, NEW a \in Byte,
         n \in {Program, TrackProgram} /\ a # 0 => TmpP[a] \in Slot,
         BigEffect(v, n, a)
  PROVE  /\ tempotbl' \in [Slot -> Byte]
         /\ spdcnt' \in [Voice -> Byte]
         /\ tmppos' \in [Voice -> Slot]
         /\ tmpbase' \in [Voice -> Slot]
         /\ trdelay' \in [Voice -> Byte]
<1>. USE DEF TypeOK
<1>1. 0 \in Slot /\ 1 \in Slot /\ 2 \in Slot
  BY ChnAssumption, TableAssumption, SMT DEF Slot
<1>2. Flagged(a) \in Byte /\ a \div 16 \in Byte /\ 128 + (a % 16) \in Byte
  BY SMT DEF Byte, Flagged
<1>3. CASE NoClockFx(n, a) /\ UNCHANGED clock
  BY <1>3 DEF clock
<1>4. CASE SetMainTempo(a)
  BY <1>1, <1>2, <1>4 DEF SetMainTempo, AllTempo
<1>5. CASE SetFunktempo(a)
  BY <1>1, <1>2, <1>5 DEF SetFunktempo, AllTempo
<1>6. CASE n = Program /\ a # 0 /\ SetProgram(a)
  BY <1>6 DEF SetProgram, AllTempo
<1>7. CASE SetTrackTempo(v, a)
  BY <1>2, <1>7, OwnTempoType DEF SetTrackTempo
<1>8. CASE SetTrackFunktempo(v, a)
  BY <1>2, <1>8, TrackSlots DEF SetTrackFunktempo, OwnProgram
<1>9. CASE n = TrackProgram /\ a # 0 /\ SetTrackProgram(v, a)
  BY <1>9 DEF SetTrackProgram, OwnProgram
<1>10. CASE DelayTrack(v, a)
  BY <1>10, HoldType DEF DelayTrack
<1>11. CASE DelayNote(v, a)
  <2>1. CASE CatchUp(v, a)
    <3>1. (spdcnt[v] + a) % 256 \in Byte /\ 255 \in Byte
      <4>1. spdcnt[v] \in Byte
        OBVIOUS
      <4>. QED
        BY <4>1, ByteSteps, SmallBytes
    <3>. QED
      BY <1>11, <2>1, <3>1 DEF CatchUp, DelayNote
  <2>2. CASE Hold(v, a)
    BY <1>11, <2>2, HoldType DEF DelayNote
  <2>. QED
    BY <1>11, <2>1, <2>2 DEF DelayNote
<1>. QED
  BY <1>3, <1>4, <1>5, <1>6, <1>7, <1>8, <1>9, <1>10, <1>11 DEF BigEffect

\* The clock stays within its types whatever the song and the build.
THEOREM TypeCorrect == Spec => []TypeOK
<1>1. Init => TypeOK
  <2>. SUFFICES ASSUME Init PROVE TypeOK
    OBVIOUS
  <2>1. 0 \in Slot /\ 0 \in Byte /\ 255 \in Byte /\ Chn - 1 \in Voice
    BY ChnAssumption, TableAssumption, SMT DEF Slot, Byte, Voice
  <2>. QED
    BY <2>1, TableAssumption DEF Init, TypeOK
<1>2. TypeOK /\ [Next]_vars => TypeOK'
  <2>. SUFFICES ASSUME TypeOK, [Next]_vars PROVE TypeOK'
    OBVIOUS
  <2>. USE DEF TypeOK
  <2>1. CASE Frame
    <3>1. 1 \in Byte /\ (spdcnt[turn] + 1) % 256 \in Byte
      <4>1. spdcnt[turn] \in Byte
        OBVIOUS
      <4>. QED
        BY <4>1, ByteSteps, SmallBytes
    <3>2. NextSlot(tmppos[turn]) \in Slot
      BY NextSlotType
    <3>3. spdcnt' \in [Voice -> Byte] /\ tmppos' \in [Voice -> Slot]
      BY <2>1, <3>1, <3>2 DEF Frame
    <3>4. turn' \in Voice /\ stage' \in {"frame", "row", "step", "note"}
      BY <2>1, TurnType DEF Frame, GoOn
    <3>. QED
      BY <2>1, <3>3, <3>4 DEF Frame, song
  <2>2. CASE ReadRow
    <3>1. turn' \in Voice /\ stage' \in {"frame", "row", "step", "note"}
      BY <2>2, BindType DEF ReadRow
    <3>2. Flagged(seqtempo[turn]) \in Byte /\ 0 \in 0 .. 77
      BY FlaggedByte, SMT
    <3>3. /\ tempotbl' \in [Slot -> Byte]
          /\ tmppos' \in [Voice -> Slot]
          /\ tmpbase' \in [Voice -> Slot]
      BY <2>2, <3>2, OwnTempoType DEF ReadRow
    <3>4. /\ seqtempo' \in [Voice -> 0 .. 77]
          /\ fx' \in [Voice -> RowFx \cup {<<NoFx, 0>>}]
          /\ ended' \in [Voice -> BOOLEAN]
          /\ owed' \in [Voice -> SUBSET {"step", "note"}]
      BY <2>2, <3>2 DEF ReadRow
    <3>. QED
      BY <2>2, <3>1, <3>3, <3>4 DEF ReadRow
  <2>3. CASE PatternGoesOn
    <3>1. turn' \in Voice /\ stage' \in {"frame", "row", "step", "note"}
      BY <2>3, BindType DEF PatternGoesOn
    <3>2. seqtempo' \in [Voice -> 0 .. 77]
      BY <2>3, SongAssumption DEF PatternGoesOn, OrderEffects
    <3>3. owed' \in [Voice -> SUBSET {"step", "note"}]
      BY <2>3 DEF PatternGoesOn
    <3>. QED
      BY <2>3, <3>1, <3>2, <3>3 DEF PatternGoesOn, clock
  <2>4. CASE TrackEnds
    <3>1. turn' \in Voice /\ stage' = "frame"
      BY <2>4, TurnType DEF TrackEnds
    <3>2. seqtempo' \in [Voice -> 0 .. 77]
      BY <2>4, SongAssumption DEF TrackEnds, OrderEffects
    <3>3. (spdcnt[turn] - 1) % 256 \in Byte
      <4>1. spdcnt[turn] \in Byte
        OBVIOUS
      <4>. QED
        BY <4>1, ByteSteps
    <3>4. spdcnt' \in [Voice -> Byte] /\ ended' \in [Voice -> BOOLEAN]
      BY <2>4, <3>3 DEF TrackEnds, TakeBack
    <3>. QED
      BY <2>4, <3>1, <3>2, <3>4 DEF TrackEnds
  <2>5. CASE StartNote
    <3>. DEFINE n == fx[turn][1]
                a == fx[turn][2]
    <3>1. a \in Byte
      BY SongAssumption, SMT DEF Byte
    <3>2. n \in {Program, TrackProgram} /\ a # 0 => TmpP[a] \in Slot
      <4>1. fx[turn] \in RowFx \/ n = NoFx
        OBVIOUS
      <4>2. NoFx \notin {Program, TrackProgram}
        BY DEF NoFx, Program, TrackProgram
      <4>. QED
        BY <4>1, <4>2, SongAssumption
    <3>3. BigEffect(turn, n, a)
      BY <2>5 DEF StartNote
    <3>. HIDE DEF n, a
    <3>4. /\ tempotbl' \in [Slot -> Byte]
          /\ spdcnt' \in [Voice -> Byte]
          /\ tmppos' \in [Voice -> Slot]
          /\ tmpbase' \in [Voice -> Slot]
          /\ trdelay' \in [Voice -> Byte]
      BY <3>1, <3>2, <3>3, EffectType
    <3>5. turn' \in Voice /\ stage' = "frame"
      BY <2>5, TurnType DEF StartNote
    <3>6. owed' \in [Voice -> SUBSET {"step", "note"}]
      BY <2>5 DEF StartNote
    <3>. QED
      BY <2>5, <3>4, <3>5, <3>6 DEF StartNote
  <2>6. CASE UNCHANGED vars
    BY <2>6 DEF vars, clock, song
  <2>. QED
    BY <2>1, <2>2, <2>3, <2>4, <2>5, <2>6 DEF Next
<1>. QED
  BY <1>1, <1>2, PTL DEF Spec

-----------------------------------------------------------------------------
(* Grid songs.  The compare against the tempo byte, as long as no counter is *)
(* past it: the voice is due when its counter has reached the byte, and only *)
(* an unflagged byte is met exactly.                                         *)

\* Counters and tempos that keep to the grid, as bytes.
LEMMA GridBounds ==
  \A x, y \in Byte : y % 128 >= 3 /\ x <= y % 128 =>
    /\ x \in 0 .. 127
    /\ ~Neg(x)
    /\ y % 128 \in 3 .. 127
    /\ (x + 1) % 256 = x + 1
    /\ x # y % 128 => x + 1 <= y % 128
  BY SMT DEF Byte, Neg

\* The compare on bytes: equality and signed overflow.
LEMMA CompareBytes ==
  ASSUME NEW s \in Byte, NEW t \in Byte, s <= t % 128
  PROVE  LET d == (s - t) % 256
             due == d = 0 \/ (Neg(s) # Neg(t) /\ Neg(s) # Neg(d))
         IN  /\ due <=> s = t % 128
             /\ d = 0 <=> ~Neg(t) /\ s = t
  BY SMTT(20) DEF Byte, Neg

\* The same for a voice's clock.
LEMMA DueAtTempo ==
  ASSUME TypeOK, NEW v \in Voice, spdcnt[v] <= Tempo(v) % 128
  PROVE  /\ Due(v) <=> spdcnt[v] = Tempo(v) % 128
         /\ Due(v) => (Diff(v) = 0 <=> ~Neg(Tempo(v)))
<1>1. spdcnt[v] \in Byte /\ Tempo(v) \in Byte
  BY NextSlotType DEF TypeOK, Tempo
<1>2. ~Neg(Tempo(v)) => Tempo(v) % 128 = Tempo(v)
  BY <1>1, SMT DEF Neg, Byte
<1>. QED
  BY <1>1, <1>2, CompareBytes DEF Due, Diff, Overflow

\* Who has counted the call once a turn has ended, or has gone on.
LEMMA PlayedNext ==
  ASSUME turn \in Voice, NEW w \in Voice
  PROVE  /\ EndTurn => (Played(w)' <=> turn > 0 /\ w >= turn)
         /\ \A next : GoOn(next) /\ next # "frame" => (Played(w)' <=> w >= turn)
         /\ stage = "frame" => (Played(w) <=> w > turn)
         /\ stage # "frame" => (Played(w) <=> w >= turn)
  BY ChnAssumption, SMT DEF Voice, Played, EndTurn, GoOn

\* The tempo at a position of a program.
LEMMA TempoInProgram ==
  ASSUME NEW tempos, NEW tbl \in [Slot -> Byte], NEW b \in Slot, NEW e \in Slot, NEW p \in b .. e,
         ProgramOf(tempos, tbl, b, e)
  PROVE  /\ NextSlot(p) = p + 1
         /\ tbl[NextSlot(p)] \in Byte
         /\ tbl[NextSlot(p)] % 128 \in tempos
<1>1. p \in Slot /\ p # TableSize - 1
  BY TableAssumption, SMT DEF ProgramOf, Slot
<1>2. NextSlot(p) = p + 1
  BY <1>1 DEF NextSlot
<1>3. tbl[p + 1] % 128 \in tempos
  BY DEF ProgramOf
<1>4. tbl[NextSlot(p)] \in Byte
  BY <1>1, NextSlotType
<1>. QED
  BY <1>2, <1>3, <1>4

\* The tempo a voice's position holds is one of its program's.
LEMMA GridTempo ==
  ASSUME TypeOK, GridPrograms, NEW v \in Voice
  PROVE  /\ Tempo(v) \in Byte
         /\ Tempo(v) % 128 >= 3
         /\ Tempo(v) % 128 \in Long
         /\ NextSlot(tmppos[v]) = tmppos[v] + 1
<1>1. PICK e \in Slot : ProgramOf(Long, tempotbl, tmpbase[v], e) /\ tmppos[v] \in tmpbase[v] .. e
  BY DEF GridPrograms
<1>2. /\ Tempo(v) \in Byte /\ Tempo(v) % 128 \in Long
      /\ NextSlot(tmppos[v]) = tmppos[v] + 1
  BY <1>1, TempoInProgram DEF TypeOK, Tempo
<1>. QED
  BY <1>2 DEF Long

\* No voice of a grid song is bound to its next tick.
LEMMA NoBind ==
  ASSUME TypeOK, GridPrograms, turn \in Voice, NEW next, NEW limit \in {2, 3},
         BindTo(next, limit), UNCHANGED <<tempotbl, tmppos>>
  PROVE  EndTurn
<1>1. Tempo(turn) \in Byte /\ Tempo(turn) % 128 >= 3
  BY GridTempo
<1>2. tempotbl'[NextSlot(tmppos'[turn])] = Tempo(turn)
  BY DEF Tempo
<1>3. ~(Tempo(turn) % 128 < limit)
  BY <1>1, SMT DEF Byte
<1>. QED
  BY <1>2, <1>3 DEF BindTo

-----------------------------------------------------------------------------
(* The turn's first part keeps the invariant.                               *)

\* A counter that is held is behind its count, by no more than the delay, and a
\* held note's delay is over before its row is.
LEMMA CountIs ==
  ASSUME TypeOK, HeldAtTick2, NEW v \in Voice
  PROVE  /\ spdcnt[v] \in Byte /\ Count(v) \in Nat /\ spdcnt[v] <= Count(v)
         /\ ~Held(v) => Count(v) = spdcnt[v]
         /\ Held(v) => /\ Tick(v) = 2
                       /\ \A ticks \in Nat : ticks \in Long => Count(v) + 1 <= spdcnt[v] + ticks - 2
<1>. DEFINE s == spdcnt[v]
            a == fx[v][2]
            d == trdelay[v]
<1>1. s \in Byte /\ d \in Byte
  BY DEF TypeOK
<1>2. CASE ~Held(v)
  BY <1>1, <1>2, SMT DEF Count, Byte
<1>3. CASE Held(v)
  <2>1. /\ Tick(v) = 2 /\ DelaySupport /\ fx[v] \in RowFx /\ fx[v][1] = NoteDelay /\ d < a
    BY <1>3 DEF HeldAtTick2
  <2>2. a \in Byte
    BY <2>1, SongAssumption
  <2>3. Count(v) = s + a - d
    BY <1>3 DEF Count
  <2>4. \A ticks \in Nat : ticks \in Long => a + 3 <= ticks
    BY <2>1 DEF Long
  <2>. HIDE DEF s, a, d
  <2>5. s + a - d \in Nat /\ s <= s + a - d
    BY <1>1, <2>1, <2>2, SMT DEF Byte
  <2>6. ASSUME NEW ticks \in Nat, a + 3 <= ticks
        PROVE  s + a - d + 1 <= s + ticks - 2
    BY <1>1, <2>1, <2>2, <2>6, SMT DEF Byte
  <2>. QED
    BY <1>1, <1>3, <2>1, <2>3, <2>4, <2>5, <2>6 DEF s
<1>. QED
  BY <1>2, <1>3

\* No counter is past its tempo.
LEMMA NotPast ==
  ASSUME TypeOK, GridPrograms, CountBounded, HeldAtTick2
  PROVE  NoOvershoot
<1>. SUFFICES ASSUME NEW v \in Voice PROVE spdcnt[v] <= Tempo(v) % 128
  BY DEF NoOvershoot
<1>1. spdcnt[v] <= Count(v) /\ Count(v) <= Tempo(v) % 128 /\ spdcnt[v] \in Byte /\ Count(v) \in Nat
  BY CountIs DEF CountBounded
<1>2. Tempo(v) % 128 \in 3 .. 127
  BY GridTempo DEF Long
<1>3. spdcnt[v] \in Int /\ Count(v) \in Int
  BY <1>1, SMT DEF Byte
<1>. QED
  BY <1>1, <1>2, <1>3

\* What the clock does to the voice's counter and position.
LEMMA FrameCounts ==
  ASSUME TypeOK, GridPrograms, CountBounded, HeldAtTick2, Frame
  PROVE  /\ spdcnt[turn] \in 0 .. 127
         /\ Count(turn) = Tempo(turn) % 128 =>
              /\ ~Held(turn) /\ spdcnt[turn] >= 3
              /\ spdcnt' = [spdcnt EXCEPT ![turn] = 1]
              /\ tmppos' = [tmppos EXCEPT ![turn] = IF Neg(Tempo(turn)) THEN tmpbase[turn]
                                                     ELSE NextSlot(tmppos[turn])]
              /\ GoOn("row")
         /\ Count(turn) # Tempo(turn) % 128 =>
              /\ spdcnt' = [spdcnt EXCEPT ![turn] = spdcnt[turn] + 1]
              /\ tmppos' = tmppos
              /\ Count(turn) + 1 <= Tempo(turn) % 128
              /\ \/ spdcnt[turn] = 0 /\ GoOn("row")
                 \/ spdcnt[turn] = 1 /\ GoOn("step")
                 \/ spdcnt[turn] = 2 /\ GoOn("note")
                 \/ spdcnt[turn] >= 3 /\ EndTurn
<1>. DEFINE s == spdcnt[turn]
            t == Tempo(turn)
            c == Count(turn)
<1>1. turn \in Voice /\ s \in Byte /\ t \in Byte /\ t % 128 >= 3 /\ s <= t % 128
  BY GridTempo, NotPast DEF TypeOK, NoOvershoot
<1>2. s \in 0 .. 127 /\ ~Neg(s) /\ t % 128 \in 3 .. 127
  BY <1>1, GridBounds
<1>3. /\ Due(turn) <=> s = t % 128
      /\ Due(turn) => (Diff(turn) = 0 <=> ~Neg(t))
      /\ ~Due(turn) => Diff(turn) # 0
  BY <1>1, DueAtTempo DEF Due
<1>10. c \in Nat /\ s <= c /\ c <= t % 128 /\ (~Held(turn) => c = s)
  BY <1>1, CountIs DEF CountBounded
<1>11. Held(turn) => s = 2 /\ c + 1 <= t % 128
  <2>. SUFFICES ASSUME Held(turn) PROVE s = 2 /\ c + 1 <= t % 128
    OBVIOUS
  <2>1. stage = "frame"
    BY DEF Frame
  <2>2. s = 2
    BY <1>1, <2>1, CountIs DEF Tick
  <2>3. t % 128 \in Long /\ t % 128 \in Nat
    BY <1>1, <1>2, GridTempo
  <2>4. \A ticks \in Nat : ticks \in Long => c + 1 <= s + ticks - 2
    BY <1>1, CountIs
  <2>. DEFINE m == t % 128
  <2>. HIDE DEF s, c, m
  <2>5. c + 1 <= 2 + m - 2
    BY <2>2, <2>3, <2>4 DEF m
  <2>6. c \in Int /\ m \in Int
    BY <1>2, <1>10 DEF m
  <2>7. c + 1 <= m
    BY ONLY <2>5, <2>6, SMT
  <2>. QED
    BY <2>2, <2>7 DEF m
<1>12. c = t % 128 <=> s = t % 128
  <2>1. CASE Held(turn)
    BY <1>2, <1>10, <1>11, <2>1
  <2>2. CASE ~Held(turn)
    BY <1>10, <2>2
  <2>. QED
    BY <2>1, <2>2
<1>4. CASE s = t % 128
  <2>1. Due(turn) /\ s >= 3 /\ ~Held(turn)
    BY <1>2, <1>3, <1>4, <1>11
  <2>2. spdcnt' = [spdcnt EXCEPT ![turn] = 1] /\ GoOn("row")
    BY <2>1 DEF Frame
  <2>3. tmppos' = [tmppos EXCEPT ![turn] = IF Neg(t) THEN tmpbase[turn] ELSE NextSlot(tmppos[turn])]
    BY <1>3, <2>1 DEF Frame
  <2>. QED
    BY <1>2, <1>4, <1>12, <2>1, <2>2, <2>3
<1>5. CASE s # t % 128
  <2>1. ~Due(turn) /\ Diff(turn) # 0
    BY <1>3, <1>5
  <2>2. tmppos' = tmppos
    BY <2>1 DEF Frame, TypeOK
  <2>3. c + 1 <= t % 128 /\ (s + 1) % 256 = s + 1
    BY <1>1, <1>2, <1>5, <1>10, <1>12, GridBounds
  <2>4. spdcnt' = [spdcnt EXCEPT ![turn] = s + 1]
    <3>1. CASE s = 0
      <4>1. spdcnt' = [spdcnt EXCEPT ![turn] = 1]
        BY <3>1 DEF Frame
      <4>. QED
        BY <3>1, <4>1
    <3>2. CASE s # 0
      <4>1. spdcnt' = [spdcnt EXCEPT ![turn] = (s + 1) % 256]
        BY <2>1, <3>2 DEF Frame
      <4>. QED
        BY <2>3, <4>1
    <3>. QED
      BY <3>1, <3>2
  <2>5. \/ s = 0 /\ GoOn("row")
        \/ s = 1 /\ GoOn("step")
        \/ s = 2 /\ GoOn("note")
        \/ s >= 3 /\ EndTurn
    BY <1>2, <2>1 DEF Frame
  <2>. QED
    BY <1>2, <1>5, <1>12, <2>2, <2>3, <2>4, <2>5
<1>. QED
  BY <1>4, <1>5

\* What it does to the counts.
LEMMA FrameCount ==
  ASSUME TypeOK, GridPrograms, CountBounded, HeldAtTick2, Frame
  PROVE  /\ \A w \in Voice : w # turn => spdcnt'[w] = spdcnt[w] /\ tmppos'[w] = tmppos[w]
                                         /\ Count(w)' = Count(w)
         /\ \A w \in Voice : w = turn =>
              Count(w)' = IF Count(w) = Tempo(w) % 128 THEN 1 ELSE Count(w) + 1
         /\ \A w \in Voice : Held(w)' = Held(w)
<1>1. turn \in Voice /\ trdelay' = trdelay /\ fx' = fx
  BY DEF TypeOK, Frame, song
<1>2. ASSUME NEW w \in Voice, w # turn
      PROVE  spdcnt'[w] = spdcnt[w] /\ tmppos'[w] = tmppos[w] /\ Count(w)' = Count(w)
  <2>1. spdcnt'[w] = spdcnt[w] /\ tmppos'[w] = tmppos[w]
    BY <1>2, FrameCounts DEF TypeOK
  <2>. QED
    BY <1>1, <2>1 DEF Count, Held
<1>3. ASSUME NEW w \in Voice, w = turn
      PROVE  Count(w)' = IF Count(w) = Tempo(w) % 128 THEN 1 ELSE Count(w) + 1
  <2>1. CASE Count(w) = Tempo(w) % 128
    <3>1. spdcnt'[w] = 1 /\ ~Held(w)
      BY <1>3, <2>1, FrameCounts DEF TypeOK
    <3>. QED
      BY <1>1, <2>1, <3>1 DEF Count, Held
  <2>2. CASE Count(w) # Tempo(w) % 128
    <3>1. spdcnt'[w] = spdcnt[w] + 1
      BY <1>3, <2>2, FrameCounts DEF TypeOK
    <3>2. Held(w) => fx[w][2] \in Byte /\ trdelay[w] \in Byte
      BY SongAssumption DEF HeldAtTick2, TypeOK
    <3>3. spdcnt[w] \in Byte
      BY DEF TypeOK
    <3>4. CASE Held(w)
      <4>1. Count(w)' = spdcnt[w] + 1 + fx[w][2] - trdelay[w] /\ Count(w) = spdcnt[w] + fx[w][2] - trdelay[w]
        BY <1>1, <3>1, <3>4 DEF Count, Held
      <4>2. \A x, y, z \in Byte : x + 1 + y - z = x + y - z + 1
        BY SMT DEF Byte
      <4>. QED
        BY <2>2, <3>2, <3>3, <3>4, <4>1, <4>2
    <3>5. CASE ~Held(w)
      BY <1>1, <2>2, <3>1, <3>5 DEF Count, Held
    <3>. QED
      BY <3>4, <3>5
  <2>. QED
    BY <2>1, <2>2
<1>. QED
  BY <1>1, <1>2, <1>3 DEF Held

\* The positions stay inside their programs, the counters below their tempos.
LEMMA FrameGrid ==
  ASSUME TypeOK, TypeOK', GridPrograms, CountBounded, HeldAtTick2, Frame
  PROVE  GridPrograms' /\ CountBounded'
<1>1. turn \in Voice /\ tempotbl' = tempotbl /\ tmpbase' = tmpbase
  BY DEF TypeOK, Frame
<1>2. ASSUME NEW v \in Voice
      PROVE  \E e \in Slot : ProgramOf(Long, tempotbl, tmpbase[v], e) /\ tmppos'[v] \in tmpbase[v] .. e
  <2>1. PICK e \in Slot : ProgramOf(Long, tempotbl, tmpbase[v], e) /\ tmppos[v] \in tmpbase[v] .. e
    BY <1>2 DEF GridPrograms
  <2>2. CASE tmppos'[v] = tmppos[v]
    BY <2>1, <2>2
  <2>3. CASE v = turn /\ tmppos'[v] = tmpbase[v]
    <3>1. tmpbase[v] \in tmpbase[v] .. e
      BY <2>1, SMT DEF TypeOK, Slot
    <3>. QED
      BY <2>1, <2>3, <3>1
  <2>4. CASE v = turn /\ ~Neg(Tempo(v)) /\ tmppos'[v] = NextSlot(tmppos[v])
    <3>1. NextSlot(tmppos[v]) = tmppos[v] + 1
      BY <1>2, GridTempo
    <3>2. tmppos[v] # e
      BY <2>1, <2>4, <3>1 DEF ProgramOf, Tempo
    <3>3. tmppos[v] + 1 \in tmpbase[v] .. e
      BY <2>1, <3>2, SMT DEF TypeOK, Slot
    <3>. QED
      BY <2>1, <2>4, <3>1, <3>3
  <2>. QED
    BY <1>1, <2>2, <2>3, <2>4, FrameCounts DEF TypeOK
<1>3. GridPrograms'
  BY <1>1, <1>2 DEF GridPrograms
<1>4. ASSUME NEW v \in Voice
      PROVE  Count(v)' <= Tempo(v)' % 128
  <2>1. Tempo(v)' % 128 >= 3 /\ Tempo(v)' \in Byte
    <3>1. PICK e \in Slot : ProgramOf(Long, tempotbl, tmpbase[v], e) /\ tmppos'[v] \in tmpbase[v] .. e
      BY <1>2, <1>4
    <3>2. tmpbase[v] \in Slot
      BY <1>4 DEF TypeOK
    <3>3. tempotbl[NextSlot(tmppos'[v])] \in Byte /\ tempotbl[NextSlot(tmppos'[v])] % 128 \in Long
      BY <3>1, <3>2, TempoInProgram DEF TypeOK
    <3>4. Tempo(v)' \in Byte /\ Tempo(v)' % 128 \in Long
      BY <1>1, <3>3 DEF Tempo
    <3>. QED
      BY <3>4 DEF Long
  <2>2. CASE v # turn
    <3>1. Count(v)' = Count(v) /\ tmppos'[v] = tmppos[v]
      BY <2>2, <1>1, FrameCount
    <3>2. Tempo(v)' = Tempo(v)
      BY <1>1, <3>1 DEF Tempo
    <3>. QED
      BY <3>1, <3>2 DEF CountBounded
  <2>3. CASE v = turn /\ Count(v) = Tempo(v) % 128
    <3>1. Count(v)' = 1
      BY <2>3, FrameCount
    <3>. QED
      BY <2>1, <3>1, SMT DEF Byte
  <2>4. CASE v = turn /\ Count(v) # Tempo(v) % 128
    <3>1. Count(v)' = Count(v) + 1 /\ Count(v) + 1 <= Tempo(v) % 128 /\ tmppos' = tmppos
      BY <2>4, FrameCounts, FrameCount
    <3>2. Tempo(v)' = Tempo(v)
      BY <1>1, <3>1 DEF Tempo
    <3>. QED
      BY <3>1, <3>2
  <2>. QED
    BY <2>2, <2>3, <2>4
<1>. QED
  BY <1>3, <1>4 DEF CountBounded

\* A turn that goes on or ends leaves the voices from `turn` up counted, or
\* none once the last turn of the call has ended.
LEMMA FramePlayed ==
  ASSUME TypeOK, GridPrograms, CountBounded, HeldAtTick2, Frame
  PROVE  \/ \A w \in Voice : Played(w)' <=> w >= turn
         \/ turn = 0 /\ \A w \in Voice : ~Played(w)'
<1>1. turn \in Voice /\ turn \in Nat
  BY ChnAssumption, SMT DEF TypeOK, Voice
<1>2. EndTurn \/ GoOn("row") \/ GoOn("step") \/ GoOn("note")
  BY FrameCounts
<1>3. CASE EndTurn
  <2>1. \A w \in Voice : Played(w)' <=> turn > 0 /\ w >= turn
    BY <1>1, <1>3, PlayedNext
  <2>. QED
    BY <1>1, <2>1, SMT
<1>4. CASE GoOn("row") \/ GoOn("step") \/ GoOn("note")
  BY <1>1, <1>4, PlayedNext
<1>. QED
  BY <1>2, <1>3, <1>4

\* Counting the call takes a voice from those behind to those ahead.
LEMMA FrameTogether ==
  ASSUME TypeOK, TypeOK', GridInv, Frame
  PROVE  Together'
<1>. USE DEF GridInv
<1>1. turn \in Voice /\ tempotbl' = tempotbl /\ tmpbase' = tmpbase /\ ended' = ended /\ stage = "frame"
  BY DEF TypeOK, Frame, song
\* t is the voice that plays: its name keeps its value when the turn passes.
<1>. PICK t \in Voice : t = turn
  BY <1>1
<1>2. \A w \in Voice : Played(w) <=> w > t
  BY <1>1, PlayedNext
<1>3. \A w \in Voice : w # t => Count(w)' = Count(w) /\ tmppos'[w] = tmppos[w]
  BY FrameCount
<1>4. \A w \in Voice : w \in Int /\ Count(w) \in Int
  <2>1. \A w \in Voice : w \in Int
    BY ChnAssumption, SMT DEF Voice
  <2>2. \A w \in Voice : Count(w) \in Nat
    BY CountIs
  <2>. QED
    BY <2>1, <2>2
<1>5. \A w \in Voice : w # t => Tempo(w)' = Tempo(w)
  BY <1>1, <1>3 DEF Tempo
<1>6. Count(t) = Tempo(t) % 128 =>
        /\ Count(t)' = 1
        /\ tmppos'[t] = IF Neg(Tempo(t)) THEN tmpbase[t] ELSE NextSlot(tmppos[t])
  BY <1>1, FrameCounts, FrameCount DEF TypeOK
<1>7. Count(t) # Tempo(t) % 128 => Count(t)' = Count(t) + 1 /\ tmppos'[t] = tmppos[t]
  BY <1>1, FrameCounts, FrameCount DEF TypeOK
\* A voice still to play falls behind the voice that has just counted.
<1>8. ASSUME NEW u \in Voice, u < t, ~ended[u], ~ended[t]
      PROVE  Ahead(t, u)'
  <2>1. Same(t, u)
    BY <1>1, <1>2, <1>4, <1>8 DEF Together
  <2>2. Tempo(u) = Tempo(t) /\ u # t
    BY <1>4, <1>8, <2>1 DEF Same, Tempo
  <2>3. Count(u)' = Count(u) /\ tmppos'[u] = tmppos[u] /\ Tempo(u)' = Tempo(u)
    BY <1>3, <1>5, <2>2
  <2>. QED
    BY <1>1, <1>6, <1>7, <2>1, <2>2, <2>3 DEF Same, Ahead
\* It catches up with a voice that counted before it.
<1>9. ASSUME NEW u \in Voice, u > t, ~ended[u], ~ended[t]
      PROVE  Same(u, t)'
  <2>1. Ahead(u, t)
    BY <1>1, <1>2, <1>4, <1>9 DEF Together
  <2>2. Count(u)' = Count(u) /\ tmppos'[u] = tmppos[u] /\ u # t
    BY <1>3, <1>4, <1>9
  <2>3. tmppos[u] = tmppos[t] => Count(u) <= Tempo(t) % 128
    BY DEF CountBounded, Tempo
  <2>4. Count(t) = Tempo(t) % 128 => ~(Count(u) = Count(t) + 1 /\ tmppos[u] = tmppos[t])
    BY <1>4, <2>3
  <2>. QED
    BY <1>1, <1>6, <1>7, <2>1, <2>2, <2>4 DEF Same, Ahead
\* The other voices stay where they were.
<1>10. ASSUME NEW u \in Voice, NEW v \in Voice, u # t, v # t
      PROVE  (Same(u, v) => Same(u, v)') /\ (Ahead(u, v) => Ahead(u, v)')
  <2>1. /\ Count(u)' = Count(u) /\ tmppos'[u] = tmppos[u]
        /\ Count(v)' = Count(v) /\ tmppos'[v] = tmppos[v]
        /\ Tempo(v)' = Tempo(v)
    BY <1>3, <1>5, <1>10
  <2>. QED
    BY <1>1, <2>1 DEF Same, Ahead
<1>11. ASSUME NEW u \in Voice, NEW v \in Voice, ~ended[u], ~ended[v]
      PROVE  /\ (u >= t <=> v >= t) => Same(u, v)'
             /\ u >= t /\ ~(v >= t) => Ahead(u, v)'
  <2>1. CASE u = t /\ v = t
    BY <1>4, <2>1 DEF Same
  <2>2. CASE u = t /\ v # t
    <3>1. v > t => Same(v, t)'
      BY <1>9, <1>11, <2>2
    <3>2. v < t => Ahead(t, v)'
      BY <1>8, <1>11, <2>2
    <3>3. Same(v, t)' => Same(t, v)'
      BY DEF Same
    <3>4. v > t \/ v < t
      BY <1>4, <2>2
    <3>. QED
      BY <1>4, <2>2, <3>1, <3>2, <3>3, <3>4
  <2>3. CASE u # t /\ v = t
    <3>1. u > t => Same(u, t)'
      BY <1>9, <1>11, <2>3
    <3>. QED
      BY <1>4, <2>3, <3>1
  <2>4. CASE u # t /\ v # t
    <3>1. /\ (u > t <=> v > t) => Same(u, v)
          /\ u > t /\ ~(v > t) => Ahead(u, v)
      BY <1>2, <1>11 DEF Together
    <3>2. (u >= t <=> u > t) /\ (v >= t <=> v > t)
      BY <1>4, <2>4
    <3>. QED
      BY <1>10, <2>4, <3>1, <3>2
  <2>. QED
    BY <2>1, <2>2, <2>3, <2>4
<1>12. CASE \A w \in Voice : Played(w)' <=> w >= t
  BY <1>1, <1>11, <1>12 DEF Together
<1>13. CASE t = 0 /\ \A w \in Voice : ~Played(w)'
  <2>1. \A w \in Voice : w >= t
    BY <1>13, ChnAssumption, SMT DEF Voice
  <2>. QED
    BY <1>1, <1>11, <1>13, <2>1 DEF Together
<1>. QED
  BY <1>12, <1>13, FramePlayed

\* The clock begins a row or counts on, and the turn goes on with the tick.
Counts ==
  \/ spdcnt[turn] >= 3 /\ spdcnt' = [spdcnt EXCEPT ![turn] = 1] /\ GoOn("row")
  \/ /\ spdcnt' = [spdcnt EXCEPT ![turn] = spdcnt[turn] + 1]
     /\ \/ spdcnt[turn] = 0 /\ GoOn("row")
        \/ spdcnt[turn] = 1 /\ GoOn("step")
        \/ spdcnt[turn] = 2 /\ GoOn("note")
        \/ spdcnt[turn] >= 3 /\ EndTurn

\* Counting the call leaves every voice at the tick its row has come to.
LEMMA TicksKept ==
  ASSUME TypeOK, stage = "frame", Counts
  PROVE  \A w \in Voice : (Tick(w)' = 1 <=> Tick(w) = 1) /\ (Tick(w)' = 2 <=> Tick(w) = 2)
<1>1. turn \in Voice /\ \A w \in Voice : Tick(w) = spdcnt[w]
  BY DEF TypeOK, Tick
<1>. PICK t \in Voice : t = turn
  BY <1>1
<1>2. \A w \in Voice : w # t => spdcnt'[w] = spdcnt[w]
  BY DEF Counts, TypeOK
<1>3. \A w \in Voice : w # t => Tick(w)' = spdcnt[w]
  <2>1. stage' = "frame" \/ turn' = t
    BY DEF Counts, EndTurn, GoOn
  <2>. QED
    BY <1>2, <2>1 DEF Tick
<1>4. spdcnt[t] \in Int /\ spdcnt'[t] = IF spdcnt[t] >= 3 /\ GoOn("row") THEN 1 ELSE spdcnt[t] + 1
  <2>1. spdcnt[t] \in Byte
    BY DEF TypeOK
  <2>2. spdcnt[t] \in Int
    BY <2>1, SMT DEF Byte
  <2>. QED
    BY <2>2 DEF Counts, TypeOK, GoOn, EndTurn
<1>5. CASE EndTurn
  <2>1. spdcnt[t] >= 3 /\ spdcnt'[t] = spdcnt[t] + 1
    BY <1>4, <1>5 DEF Counts, EndTurn, GoOn
  <2>2. Tick(t)' = spdcnt[t] + 1
    BY <1>5, <2>1 DEF EndTurn, Tick
  <2>3. spdcnt[t] \notin {1, 2} /\ spdcnt[t] + 1 \notin {1, 2}
    BY <1>4, <2>1
  <2>. QED
    BY <1>1, <1>3, <2>2, <2>3
<1>6. CASE ~EndTurn
  <2>1. turn' = t /\ stage' \in {"row", "step", "note"}
    BY <1>6 DEF Counts, GoOn
  <2>2. Tick(t)' = spdcnt'[t] - 1
    BY <2>1 DEF Tick
  <2>3. (Tick(t)' = 1 <=> spdcnt[t] = 1) /\ (Tick(t)' = 2 <=> spdcnt[t] = 2)
    BY <1>4, <2>2
  <2>. QED
    BY <1>1, <1>3, <2>3
<1>. QED
  BY <1>5, <1>6

\* Each handler comes at its tick, and an ended track only steps.
LEMMA StageKept ==
  ASSUME TypeOK, stage = "frame", Counts, EndedAtTick1, ended' = ended
  PROVE  StageTick' /\ EndedAtTick1'
<1>1. turn \in Voice /\ (ended[turn] => spdcnt[turn] = 1)
  BY DEF TypeOK, EndedAtTick1, Tick
<1>2. EndedAtTick1'
  BY TicksKept DEF EndedAtTick1
<1>3. CASE spdcnt[turn] >= 3 /\ spdcnt' = [spdcnt EXCEPT ![turn] = 1] /\ GoOn("row")
  <2>1. spdcnt'[turn] = 1 /\ stage' = "row" /\ turn' = turn /\ spdcnt[turn] # 1
    BY <1>1, <1>3 DEF TypeOK, GoOn
  <2>. QED
    BY <1>1, <1>2, <2>1 DEF StageTick
<1>4. CASE /\ spdcnt' = [spdcnt EXCEPT ![turn] = spdcnt[turn] + 1]
           /\ \/ spdcnt[turn] = 0 /\ GoOn("row")
              \/ spdcnt[turn] = 1 /\ GoOn("step")
              \/ spdcnt[turn] = 2 /\ GoOn("note")
              \/ spdcnt[turn] >= 3 /\ EndTurn
  <2>1. spdcnt'[turn] = spdcnt[turn] + 1
    BY <1>1, <1>4 DEF TypeOK
  <2>2. CASE spdcnt[turn] = 0 /\ GoOn("row")
    BY <1>1, <1>2, <2>1, <2>2 DEF StageTick, GoOn
  <2>3. CASE spdcnt[turn] = 1 /\ GoOn("step")
    BY <1>1, <1>2, <2>1, <2>3 DEF StageTick, GoOn
  <2>4. CASE spdcnt[turn] = 2 /\ GoOn("note")
    BY <1>1, <1>2, <2>1, <2>4 DEF StageTick, GoOn
  <2>5. CASE EndTurn
    BY <1>2, <2>5 DEF StageTick, EndTurn
  <2>. QED
    BY <1>4, <2>2, <2>3, <2>4, <2>5
<1>. QED
  BY <1>3, <1>4 DEF Counts

\* The clock of a grid song does so.
LEMMA FrameTicks ==
  ASSUME TypeOK, GridPrograms, CountBounded, HeldAtTick2, Frame
  PROVE  Counts /\ stage = "frame"
  BY FrameCounts DEF Frame, Counts

\* Counting the call keeps the grid.
LEMMA FrameInv ==
  ASSUME TypeOK, TypeOK', GridInv, Frame
  PROVE  GridInv'
<1>. USE DEF GridInv
<1>1. /\ turn \in Voice /\ stage = "frame"
      /\ tempotbl' = tempotbl /\ trdelay' = trdelay /\ seqtempo' = seqtempo
      /\ ended' = ended /\ owed' = owed /\ fx' = fx
  BY DEF TypeOK, Frame, song
<1>2. TableKept' /\ NoTrackTempo'
  BY <1>1 DEF TableKept, NoTrackTempo
<1>3. HeldAtTick2'
  BY <1>1, FrameTicks, TicksKept, FrameCount DEF HeldAtTick2
<1>4. OwedByTick'
  <2>. SUFFICES ASSUME NEW w \in Voice, ~ended[w]
                PROVE  owed[w] = IF Tick(w)' = 1 THEN {"step", "note"}
                                 ELSE IF Tick(w)' = 2 /\ ~Held(w)' THEN {"note"} ELSE {}
    BY <1>1 DEF OwedByTick
  <2>. QED
    BY FrameTicks, TicksKept, FrameCount DEF OwedByTick
<1>5. StageTick' /\ EndedAtTick1'
  BY <1>1, FrameTicks, StageKept
<1>. QED
  BY <1>2, <1>3, <1>4, <1>5, FrameGrid, FrameTogether

-----------------------------------------------------------------------------
(* The rest of a turn keeps the invariant.                                  *)

\* Ending a turn takes the voice from those due to those that have played:
\* nothing changes between the voices whose tracks go on.
LEMMA TurnTogether ==
  ASSUME TypeOK, TypeOK', Together, stage # "frame", EndTurn,
         UNCHANGED <<tempotbl, tmppos, tmpbase>>,
         \A w \in Voice : ~ended'[w] => ~ended[w] /\ Count(w)' = Count(w)
  PROVE  Together'
<1>1. turn \in Voice
  BY DEF TypeOK
<1>. PICK t \in Voice : t = turn
  BY <1>1
<1>2. \A w \in Voice : w \in Int /\ w >= 0
  BY ChnAssumption, SMT DEF Voice
<1>3. \A w \in Voice : (Played(w) <=> w >= t) /\ (Played(w)' <=> t > 0 /\ w >= t)
  BY <1>1, PlayedNext
<1>4. SUFFICES ASSUME NEW u \in Voice, NEW v \in Voice, ~ended'[u], ~ended'[v]
               PROVE  /\ (Played(u)' <=> Played(v)') => Same(u, v)'
                      /\ Played(u)' /\ ~Played(v)' => Ahead(u, v)'
  BY DEF Together
<1>5. Count(u)' = Count(u) /\ Count(v)' = Count(v) /\ ~ended[u] /\ ~ended[v]
  BY <1>4
<1>6. Tempo(v)' = Tempo(v)
  BY DEF Tempo
<1>7. (Same(u, v) => Same(u, v)') /\ (Ahead(u, v) => Ahead(u, v)')
  BY <1>5, <1>6 DEF Same, Ahead
<1>8. /\ (Played(u) <=> Played(v)) => Same(u, v)
      /\ Played(u) /\ ~Played(v) => Ahead(u, v)
  BY <1>5 DEF Together
<1>9. CASE t > 0
  BY <1>3, <1>7, <1>8, <1>9
<1>10. CASE ~(t > 0)
  <2>1. t = 0
    BY <1>2, <1>10
  <2>2. Played(u) /\ Played(v) /\ ~Played(u)' /\ ~Played(v)'
    BY <1>2, <1>3, <1>10, <2>1
  <2>. QED
    BY <1>7, <1>8, <2>2
<1>. QED
  BY <1>9, <1>10

\* Between turns a voice's tick is its counter; within its own turn the
\* counter has already moved on.
LEMMA TurnTicks ==
  ASSUME turn \in Voice, stage # "frame", EndTurn
  PROVE  /\ Tick(turn) = spdcnt[turn] - 1
         /\ \A w \in Voice : w # turn => Tick(w) = spdcnt[w]
         /\ \A w \in Voice : Tick(w)' = spdcnt'[w]
         /\ StageTick'
  BY DEF Tick, EndTurn, StageTick

\* A program read from the table is read from its successor.
LEMMA SameGrid ==
  ASSUME GridPrograms, UNCHANGED <<tempotbl, tmppos, tmpbase>>
  PROVE  GridPrograms' /\ (TableKept => TableKept') /\ \A v \in Voice : Tempo(v)' = Tempo(v)
  BY DEF GridPrograms, TableKept, Tempo

\* What a step that does not touch the delays keeps of them.
LEMMA SameHeld ==
  ASSUME TypeOK, HeldAtTick2, turn \in Voice, stage # "frame", EndTurn, UNCHANGED trdelay,
         \A w \in Voice : Held(w) => w # turn /\ fx'[w] = fx[w] /\ spdcnt'[w] = spdcnt[w] /\ ended'[w] = ended[w]
  PROVE  HeldAtTick2'
<1>. SUFFICES ASSUME NEW w \in Voice, Held(w)'
              PROVE  /\ ~ended'[w] /\ Tick(w)' = 2
                     /\ DelaySupport /\ fx'[w] \in RowFx /\ fx'[w][1] = NoteDelay
                     /\ trdelay'[w] < fx'[w][2]
  BY DEF HeldAtTick2
<1>1. Held(w) /\ trdelay'[w] = trdelay[w]
  BY DEF Held
<1>2. w # turn /\ fx'[w] = fx[w] /\ spdcnt'[w] = spdcnt[w] /\ ended'[w] = ended[w]
  BY <1>1
<1>3. Tick(w)' = Tick(w)
  BY <1>2, TurnTicks
<1>. QED
  BY <1>1, <1>2, <1>3 DEF HeldAtTick2

\* Reading a row keeps the grid: no track tempo is due.
LEMMA ReadRowInv ==
  ASSUME TypeOK, TypeOK', GridInv, ReadRow
  PROVE  GridInv'
<1>. USE DEF GridInv
<1>1. turn \in Voice /\ stage = "row" /\ spdcnt[turn] = 1 /\ ~ended[turn] /\ seqtempo[turn] = 0
  BY DEF TypeOK, ReadRow, StageTick, NoTrackTempo
<1>2. UNCHANGED <<tempotbl, tmppos, tmpbase, spdcnt, trdelay>>
  BY <1>1 DEF ReadRow
<1>3. EndTurn
  BY <1>1, <1>2, NoBind DEF ReadRow
<1>4. ended' = ended
  BY <1>1 DEF ReadRow, TypeOK
<1>10. ~Held(turn) /\ \A w \in Voice : w # turn => fx'[w] = fx[w]
  <2>1. Tick(turn) # 2
    BY <1>1 DEF Tick
  <2>. QED
    BY <1>1, <2>1 DEF HeldAtTick2, ReadRow, TypeOK
<1>11. \A w \in Voice : Count(w)' = Count(w)
  BY <1>2, <1>10 DEF Count, Held
<1>5. Together'
  BY <1>1, <1>2, <1>3, <1>4, <1>11, TurnTogether
<1>6. GridPrograms' /\ TableKept' /\ CountBounded'
  BY <1>2, <1>11, SameGrid DEF CountBounded
<1>7. NoTrackTempo' /\ HeldAtTick2'
  <2>1. NoTrackTempo'
    BY <1>1, <1>2 DEF NoTrackTempo, ReadRow, TypeOK
  <2>2. \A w \in Voice : Held(w) => w # turn /\ fx'[w] = fx[w] /\ spdcnt'[w] = spdcnt[w] /\ ended'[w] = ended[w]
    BY <1>2, <1>4, <1>10
  <2>. QED
    BY <1>1, <1>2, <1>3, <2>1, <2>2, SameHeld
<1>8. EndedAtTick1'
  BY <1>1, <1>2, <1>3, <1>4, TurnTicks DEF EndedAtTick1
<1>9. OwedByTick'
  <2>1. owed' = [owed EXCEPT ![turn] = {"step", "note"}]
    BY DEF ReadRow
  <2>. SUFFICES ASSUME NEW w \in Voice, ~ended[w]
                PROVE  owed'[w] = IF spdcnt[w] = 1 THEN {"step", "note"}
                                  ELSE IF spdcnt[w] = 2 /\ ~Held(w) THEN {"note"} ELSE {}
    BY <1>1, <1>2, <1>3, <1>4, TurnTicks DEF OwedByTick, Held
  <2>2. CASE w = turn
    BY <1>1, <2>1, <2>2 DEF TypeOK
  <2>3. CASE w # turn
    <3>1. owed'[w] = owed[w] /\ Tick(w) = spdcnt[w]
      BY <1>1, <1>3, <2>1, <2>3, TurnTicks DEF TypeOK
    <3>. QED
      BY <3>1 DEF OwedByTick
  <2>. QED
    BY <2>2, <2>3
<1>. QED
  BY <1>1, <1>3, <1>5, <1>6, <1>7, <1>8, <1>9, TurnTicks

\* Nothing the orderlist passes sets a track tempo.
LEMMA NoOrderTempo ==
  ASSUME TypeOK, GridSong, NoTrackTempo, OrderEffects
  PROVE  NoTrackTempo'
  BY DEF TypeOK, GridSong, NoTrackTempo, OrderEffects

\* Stepping the pattern keeps the grid.
LEMMA PatternInv ==
  ASSUME TypeOK, TypeOK', GridSong, GridInv, PatternGoesOn
  PROVE  GridInv'
<1>. USE DEF GridInv
<1>1. turn \in Voice /\ stage = "step" /\ spdcnt[turn] = 2 /\ ~ended[turn]
  BY DEF TypeOK, PatternGoesOn, StageTick
<1>2. UNCHANGED <<tempotbl, tmppos, tmpbase, spdcnt, trdelay, ended, fx>>
  BY DEF PatternGoesOn, clock
<1>9. \A w \in Voice : Count(w)' = Count(w)
  BY <1>2 DEF Count, Held
<1>3. EndTurn
  BY <1>1, <1>2, NoBind DEF PatternGoesOn
<1>4. Together'
  BY <1>1, <1>2, <1>3, <1>9, TurnTogether
<1>5. GridPrograms' /\ TableKept' /\ CountBounded'
  BY <1>2, <1>9, SameGrid DEF CountBounded
<1>6. NoTrackTempo' /\ HeldAtTick2'
  <2>1. Tick(turn) # 2
    BY <1>1 DEF Tick
  <2>2. \A w \in Voice : Held(w) => w # turn
    BY <2>1 DEF HeldAtTick2
  <2>. QED
    BY <1>1, <1>2, <1>3, <2>2, NoOrderTempo, SameHeld DEF PatternGoesOn
<1>7. EndedAtTick1'
  BY <1>1, <1>2, <1>3, TurnTicks DEF EndedAtTick1
<1>8. OwedByTick'
  <2>1. owed' = [owed EXCEPT ![turn] = owed[turn] \ {"step"}]
    BY DEF PatternGoesOn
  <2>2. owed[turn] = {"step", "note"}
    BY <1>1, <1>3, TurnTicks DEF OwedByTick
  <2>. SUFFICES ASSUME NEW w \in Voice, ~ended[w]
                PROVE  owed'[w] = IF spdcnt[w] = 1 THEN {"step", "note"}
                                  ELSE IF spdcnt[w] = 2 /\ ~Held(w) THEN {"note"} ELSE {}
    BY <1>1, <1>2, <1>3, TurnTicks DEF OwedByTick, Held
  <2>3. CASE w = turn
    <3>1. ~Held(w)
      BY <1>1, <2>3 DEF HeldAtTick2, Tick
    <3>. QED
      BY <1>1, <2>1, <2>2, <2>3, <3>1 DEF TypeOK
  <2>4. CASE w # turn
    <3>1. owed'[w] = owed[w] /\ Tick(w) = spdcnt[w]
      BY <1>1, <1>3, <2>1, <2>4, TurnTicks DEF TypeOK
    <3>. QED
      BY <3>1 DEF OwedByTick
  <2>. QED
    BY <2>3, <2>4
<1>. QED
  BY <1>1, <1>3, <1>4, <1>5, <1>6, <1>7, <1>8, TurnTicks

\* A track that ends, or stands before its end, keeps the grid.
LEMMA TrackEndsInv ==
  ASSUME TypeOK, TypeOK', GridSong, GridInv, TrackEnds
  PROVE  GridInv'
<1>. USE DEF GridInv
<1>1. turn \in Voice /\ stage = "step" /\ spdcnt[turn] = 2 /\ EndTurn
  BY DEF TypeOK, TrackEnds, StageTick
<1>2. UNCHANGED <<tempotbl, tmppos, tmpbase, trdelay, owed, fx>>
  BY DEF TrackEnds
<1>3. spdcnt' = [spdcnt EXCEPT ![turn] = 1] /\ ended' = [ended EXCEPT ![turn] = TRUE]
  BY <1>1 DEF TrackEnds, TakeBack
<1>10. ~Held(turn)
  BY <1>1 DEF HeldAtTick2, Tick
<1>11. \A w \in Voice : (w # turn => Count(w)' = Count(w)) /\ (w = turn => Count(w)' = 1)
  BY <1>2, <1>3, <1>10 DEF Count, Held, TypeOK
<1>4. Together'
  <2>1. \A w \in Voice : ~ended'[w] => ~ended[w] /\ Count(w)' = Count(w)
    BY <1>3, <1>11 DEF TypeOK
  <2>. QED
    BY <1>1, <1>2, <2>1, TurnTogether
<1>5. GridPrograms' /\ TableKept' /\ \A v \in Voice : Tempo(v)' = Tempo(v)
  BY <1>2, SameGrid
<1>6. CountBounded'
  <2>. SUFFICES ASSUME NEW v \in Voice PROVE Count(v)' <= Tempo(v) % 128
    BY <1>5 DEF CountBounded
  <2>1. Tempo(v) \in Byte /\ Tempo(v) % 128 >= 3 /\ Count(v) <= Tempo(v) % 128
    BY GridTempo DEF CountBounded
  <2>2. 1 <= Tempo(v) % 128
    BY <2>1, SMT DEF Byte
  <2>. QED
    BY <1>11, <2>1, <2>2
<1>7. NoTrackTempo' /\ HeldAtTick2'
  <2>1. \A w \in Voice : Held(w) => w # turn /\ fx'[w] = fx[w] /\ spdcnt'[w] = spdcnt[w] /\ ended'[w] = ended[w]
    BY <1>2, <1>3, <1>10 DEF TypeOK
  <2>. QED
    BY <1>1, <1>2, <2>1, NoOrderTempo, SameHeld DEF TrackEnds
<1>8. EndedAtTick1'
  BY <1>1, <1>3, TurnTicks DEF EndedAtTick1, TypeOK
<1>9. OwedByTick'
  BY <1>1, <1>2, <1>3, TurnTicks DEF OwedByTick, TypeOK, Held
<1>. QED
  BY <1>1, <1>4, <1>5, <1>6, <1>7, <1>8, <1>9, TurnTicks

\* What a grid song's effect does to the clock: nothing, or it holds a note, or
\* it leads every voice to a program of whole ticks, long enough ones.
LEMMA GridEffect ==
  ASSUME TypeOK, GridSong, TableKept, NEW v \in Voice, NEW f \in RowFx \cup {<<NoFx, 0>>},
         BigEffect(v, f[1], f[2])
  PROVE  \/ UNCHANGED clock
         \/ /\ f \in RowFx /\ f[1] = NoteDelay /\ f[2] # 0 /\ DelaySupport
            /\ DelayNote(v, f[2])
         \/ /\ UNCHANGED <<spdcnt, trdelay>>
            /\ f[1] # NoteDelay
            /\ TableKept'
            /\ \E p, e \in Slot : AllTempo(p) /\ ProgramOf(Long, tempotbl', p, e)
<1>. DEFINE n == f[1]
            a == f[2]
<1>1. GridFx(f) /\ a \in Byte /\ (n \in {Program, TrackProgram} /\ a # 0 => TmpP[a] \in Slot)
  <2>1. CASE f = <<NoFx, 0>>
    <3>1. n = NoFx /\ a = 0
      BY <2>1
    <3>. QED
      BY <3>1, SmallBytes DEF GridFx
  <2>2. CASE f \in RowFx
    BY <2>2, SongAssumption DEF GridSong
  <2>. QED
    BY <2>1, <2>2
<1>2. 0 \in Slot /\ 1 \in Slot /\ 2 \in Slot
  BY ChnAssumption, TableAssumption, SMT DEF Slot
<1>3. 0 \in 0 .. TableSize - 2 /\ 1 \in 0 .. TableSize - 2 /\ \A q \in 0 .. 0 - 1 : FALSE
  BY ChnAssumption, TableAssumption, SMT
<1>4. CASE n = MainTempo /\ SetMainTempo(a)
  <2>1. a % 128 \in Long
    BY <1>1, <1>4 DEF GridFx, MainTempo, NoFx, TrackProgram, TrackDelay, NoteDelay, Funktempo, Program
  <2>2. tempotbl' = [tempotbl EXCEPT ![1] = Flagged(a)] /\ AllTempo(0) /\ UNCHANGED <<spdcnt, trdelay>>
    BY <1>4 DEF SetMainTempo
  <2>3. tempotbl'[1] = Flagged(a)
    BY <1>2, <2>2 DEF TypeOK
  <2>4. a \in Int
    BY <1>1, SMT DEF Byte
  <2>5. Neg(tempotbl'[0 + 1]) /\ tempotbl'[0 + 1] % 128 \in Long
    BY <2>1, <2>3, <2>4, FlaggedByte
  <2>6. ProgramOf(Long, tempotbl', 0, 0)
    BY <1>3, <2>5 DEF ProgramOf
  <2>7. TableKept'
    BY <2>2 DEF TableKept, TypeOK
  <2>. QED
    BY <1>2, <1>4, <2>2, <2>6, <2>7 DEF MainTempo, NoteDelay
<1>5. CASE n = Funktempo /\ SetFunktempo(a)
  <2>1. a \div 16 \in Long /\ a % 16 \in Long
    BY <1>1, <1>5 DEF GridFx, MainTempo, NoFx, TrackProgram, TrackDelay, NoteDelay, Funktempo, Program
  <2>2. /\ tempotbl' = [tempotbl EXCEPT ![1] = a \div 16, ![2] = 128 + (a % 16)]
        /\ AllTempo(0) /\ UNCHANGED <<spdcnt, trdelay>>
    BY <1>5 DEF SetFunktempo
  <2>3. tempotbl'[1] = a \div 16 /\ tempotbl'[2] = 128 + (a % 16)
    BY <1>2, <2>2 DEF TypeOK
  <2>. DEFINE hi == a \div 16
              lo == 128 + (a % 16)
  <2>4. Neg(lo) /\ lo % 128 = a % 16 /\ hi \in 0 .. 15
    BY <1>1, Nibbles
  <2>5. ~Neg(hi) /\ hi % 128 = hi
    <3>. HIDE DEF hi
    <3>. QED
      BY <2>4, SMT DEF Neg
  <2>6. /\ Neg(tempotbl'[1 + 1])
        /\ \A q \in 0 .. 1 - 1 : ~Neg(tempotbl'[q + 1])
        /\ \A q \in 0 .. 1 : tempotbl'[q + 1] % 128 \in Long
    <3>1. (\A q \in 0 .. 1 - 1 : q = 0) /\ (\A q \in 0 .. 1 : q = 0 \/ q = 1)
      BY SMT
    <3>. HIDE DEF hi, lo
    <3>2. tempotbl'[1] = hi /\ tempotbl'[2] = lo /\ hi \in Long /\ lo % 128 \in Long
      BY <2>1, <2>3, <2>4 DEF hi, lo
    <3>3. tempotbl'[0 + 1] = hi /\ tempotbl'[1 + 1] = lo
      BY <3>2
    <3>4. hi % 128 \in Long
      BY <2>5, <3>2
    <3>5. Neg(tempotbl'[1 + 1]) /\ ~Neg(tempotbl'[0 + 1])
      BY <2>4, <2>5, <3>3
    <3>6. tempotbl'[0 + 1] % 128 \in Long /\ tempotbl'[1 + 1] % 128 \in Long
      BY <3>2, <3>3, <3>4
    <3>. QED
      BY <3>1, <3>5, <3>6
  <2>7. ProgramOf(Long, tempotbl', 0, 1)
    BY <1>3, <2>6 DEF ProgramOf
  <2>8. TableKept'
    BY <2>2 DEF TableKept, TypeOK
  <2>. QED
    BY <1>2, <1>5, <2>2, <2>7, <2>8 DEF Funktempo, NoteDelay
<1>6. CASE n = Program /\ a # 0 /\ SetProgram(a)
  <2>. DEFINE p == TmpP[a]
  <2>1. /\ p >= TrkTmpPos(Chn)
        /\ \A tbl \in Tables : \E e \in Slot : ProgramOf(Long, tbl, p, e)
    BY <1>1, <1>6 DEF GridFx, MainTempo, NoFx, TrackProgram, TrackDelay, NoteDelay, Funktempo, Program
  <2>2. AllTempo(p) /\ UNCHANGED <<tempotbl, spdcnt, trdelay>>
    BY <1>6 DEF SetProgram
  <2>3. PICK tbl \in Tables : \A q \in Slot : q > 2 => tempotbl[q] = tbl[q]
    BY DEF TableKept
  <2>4. PICK e \in Slot : ProgramOf(Long, tbl, p, e)
    BY <2>1
  <2>5. p \in Slot
    BY <1>1, <1>6
  <2>. HIDE DEF p
  <2>6. \A q \in p .. e : q + 1 \in Slot /\ q + 1 > 2
    BY <2>1, <2>4, <2>5, ChnAssumption, TableAssumption, SMT DEF ProgramOf, Slot, TrkTmpPos
  <2>7. \A q \in p .. e : tempotbl[q + 1] = tbl[q + 1]
    BY <2>3, <2>6
  <2>8. e \in p .. e /\ \A q \in p .. e - 1 : q \in p .. e
    BY <2>4, <2>5, SMT DEF ProgramOf, Slot
  <2>9. ProgramOf(Long, tempotbl', p, e)
    BY <2>2, <2>4, <2>7, <2>8 DEF ProgramOf
  <2>10. TableKept'
    BY <2>2 DEF TableKept
  <2>. QED
    BY <1>6, <2>2, <2>5, <2>9, <2>10 DEF Program, NoteDelay
<1>7. CASE n \notin {MainTempo, Funktempo, Program, NoteDelay}
  BY <1>1, <1>7 DEF GridFx, BigEffect, MainTempo, NoFx, TrackTempo, TrackFunktempo,
                    TrackProgram, TrackDelay, NoteDelay, Funktempo, Program
<1>8. CASE UNCHANGED clock
  BY <1>8
<1>9. CASE n = NoteDelay /\ DelaySupport /\ DelayNote(v, a)
  <2>1. f \in RowFx
    <3>1. f # <<NoFx, 0>>
      BY <1>9 DEF NoteDelay, NoFx
    <3>. QED
      BY <3>1
  <2>2. a # 0
    BY <1>1, <1>9 DEF GridFx, MainTempo, NoFx, TrackProgram, TrackDelay, NoteDelay, Funktempo, Program
  <2>. QED
    BY <1>9, <2>1, <2>2
<1>. QED
  BY <1>4, <1>5, <1>6, <1>7, <1>8, <1>9 DEF BigEffect, MainTempo, NoFx, TrackTempo, TrackFunktempo,
                    TrackProgram, TrackDelay, NoteDelay, Funktempo, Program

\* At tick 2 the voices that have played count three ticks and the others two.
LEMMA CountsAtTick2 ==
  ASSUME TypeOK, GridInv, stage = "note", ~Held(turn), NEW w \in Voice
  PROVE  /\ ended[w] => Count(w) = 1 /\ w # turn
         /\ ~ended[w] => Count(w) = IF w >= turn THEN 3 ELSE 2
<1>. USE DEF GridInv
<1>1. turn \in Voice /\ Count(turn) = 3 /\ ~ended[turn]
  BY DEF TypeOK, StageTick, Count
<1>2. Played(turn) /\ (Played(w) <=> w >= turn)
  BY <1>1, PlayedNext DEF Played
<1>3. Count(w) \in Int
  BY CountIs
<1>4. CASE ended[w]
  <2>1. Tick(w) = spdcnt[w] /\ ~Held(w)
    BY <1>1, <1>4 DEF Tick, HeldAtTick2
  <2>. QED
    BY <1>1, <1>4, <2>1 DEF EndedAtTick1, Count
<1>5. CASE ~ended[w] /\ w >= turn
  BY <1>1, <1>2, <1>5 DEF Together, Same
<1>6. CASE ~ended[w] /\ ~(w >= turn)
  BY <1>1, <1>2, <1>3, <1>6 DEF Together, Ahead
<1>. QED
  BY <1>4, <1>5, <1>6

\* A turn that ends at tick 2 may hold the voice's note, whose calls it counts.
LEMMA OthersHeld ==
  ASSUME TypeOK, HeldAtTick2, turn \in Voice, stage # "frame", EndTurn, fx' = fx, ended' = ended,
         \A w \in Voice : w # turn => spdcnt'[w] = spdcnt[w] /\ trdelay'[w] = trdelay[w],
         \A w \in Voice : w = turn /\ Held(w)' =>
           /\ ~ended[w] /\ spdcnt'[w] = 2
           /\ DelaySupport /\ fx[w] \in RowFx /\ fx[w][1] = NoteDelay
           /\ trdelay'[w] < fx[w][2]
  PROVE  HeldAtTick2'
<1>. SUFFICES ASSUME NEW w \in Voice, Held(w)'
              PROVE  /\ ~ended[w] /\ spdcnt'[w] = 2
                     /\ DelaySupport /\ fx[w] \in RowFx /\ fx[w][1] = NoteDelay
                     /\ trdelay'[w] < fx[w][2]
  BY TurnTicks DEF HeldAtTick2
<1>1. CASE w = turn
  BY <1>1
<1>2. CASE w # turn
  <2>1. Held(w) /\ trdelay'[w] = trdelay[w] /\ spdcnt'[w] = spdcnt[w] /\ Tick(w) = spdcnt[w]
    BY <1>2, TurnTicks DEF Held
  <2>. QED
    BY <2>1 DEF HeldAtTick2
<1>. QED
  BY <1>1, <1>2

\* Holding a note, or going on after it was held, leaves its count as it is.
LEMMA HoldCounts ==
  ASSUME TypeOK, TypeOK', GridInv, stage = "note", EndTurn, fx' = fx, ended' = ended,
         fx[turn] \in RowFx, fx[turn][1] = NoteDelay, fx[turn][2] # 0, DelaySupport,
         DelayNote(turn, fx[turn][2])
  PROVE  /\ \A w \in Voice : Count(w)' = Count(w)
         /\ \A w \in Voice : w # turn => spdcnt'[w] = spdcnt[w] /\ Held(w)' = Held(w)
         /\ \A w \in Voice : w = turn => IF Held(w)' THEN spdcnt'[w] = 2 ELSE spdcnt'[w] >= 3
         /\ HeldAtTick2'
<1>. USE DEF GridInv
<1>. DEFINE a == fx[turn][2]
            d == trdelay[turn]
<1>1. turn \in Voice /\ spdcnt[turn] = 3 /\ ~ended[turn]
  BY DEF TypeOK, StageTick
<1>2. a \in Byte /\ a # 0 /\ d \in Byte /\ (d # 255 => d < a)
  BY <1>1, SongAssumption DEF TypeOK, HeldAtTick2, Held
<1>3. a + 3 <= 127
  <2>1. Tempo(turn) \in Byte /\ Tempo(turn) % 128 \in Long
    BY <1>1, GridTempo
  <2>. DEFINE m == Tempo(turn)
  <2>2. a + 3 <= m % 128
    BY <2>1 DEF Long
  <2>. HIDE DEF a, m
  <2>3. m \in Byte
    BY <2>1 DEF m
  <2>. QED
    BY <1>2, <2>2, <2>3, SMT DEF Byte
<1>. PICK t \in Voice : t = turn
  BY <1>1
<1>4. \A w \in Voice : w # t => spdcnt'[w] = spdcnt[w] /\ trdelay'[w] = trdelay[w]
  BY DEF DelayNote, CatchUp, Hold, TypeOK
<1>7. \A w \in Voice : w # t => Count(w)' = Count(w) /\ Held(w)' = Held(w) /\ spdcnt'[w] = spdcnt[w]
  BY <1>4 DEF Count, Held
<1>5. CASE d = 0
  <2>1. trdelay'[t] = 255 /\ spdcnt'[t] = (3 + a) % 256
    BY <1>1, <1>5 DEF DelayNote, CatchUp, TypeOK
  <2>2. (3 + a) % 256 = 3 + a - 0 /\ 3 + a - 0 >= 3
    <3>. HIDE DEF a
    <3>. QED
      BY <1>2, <1>3, SMT DEF Byte
  <2>3. Held(t) /\ ~Held(t)'
    BY <1>5, <2>1 DEF Held
  <2>4. Count(t)' = Count(t)
    BY <1>1, <1>5, <2>1, <2>2, <2>3 DEF Count
  <2>5. HeldAtTick2'
    BY <1>4, <2>3, OthersHeld DEF Held
  <2>. QED
    BY <1>7, <2>1, <2>2, <2>3, <2>4, <2>5
<1>6. CASE d # 0
  <2>. DEFINE e == ((IF d = 255 THEN a ELSE d) - 1) % 256
  <2>1. trdelay'[t] = e /\ spdcnt'[t] = 2
    BY <1>1, <1>6 DEF DelayNote, Hold, TypeOK
  <2>. DEFINE x == IF d = 255 THEN a ELSE d
  <2>8. x \in 1 .. a /\ (d # 255 => x = d) /\ (d = 255 => x = a)
    <3>. HIDE DEF a, d
    <3>. QED
      BY <1>2, <1>6, SMT DEF Byte
  <2>9. e = x - 1
    <3>1. e = (x - 1) % 256
      OBVIOUS
    <3>. HIDE DEF a, x, e
    <3>2. x - 1 \in 0 .. 254
      BY <1>2, <1>3, <2>8, SMT DEF Byte
    <3>3. (x - 1) % 256 = x - 1
      BY <3>2, SMT
    <3>. QED
      BY <3>1, <3>3
  <2>2. e \in Byte /\ e < a /\ (IF d = 255 THEN 2 + a - e = 3 ELSE 2 + a - e = 3 + a - d) /\ e # 255
    <3>. HIDE DEF a, d, x, e
    <3>. QED
      BY <1>2, <1>3, <1>6, <2>8, <2>9, SMT DEF Byte
  <2>. HIDE DEF e
  <2>3. Held(t)'
    BY <2>1, <2>2 DEF Held
  <2>4. Count(t)' = 2 + a - e
    BY <1>1, <2>1, <2>3 DEF Count
  <2>5. Count(t) = IF d = 255 THEN 3 ELSE 3 + a - d
    BY <1>1 DEF Count, Held
  <2>6. Count(t)' = Count(t)
    BY <2>2, <2>4, <2>5
  <2>7. HeldAtTick2'
    <3>1. \A w \in Voice : w = turn /\ Held(w)' =>
            /\ ~ended[w] /\ spdcnt'[w] = 2
            /\ DelaySupport /\ fx[w] \in RowFx /\ fx[w][1] = NoteDelay
            /\ trdelay'[w] < fx[w][2]
      BY <1>1, <2>1, <2>2
    <3>. QED
      BY <1>1, <1>4, <3>1, OthersHeld
  <2>. QED
    BY <1>7, <2>1, <2>3, <2>6, <2>7
<1>. QED
  BY <1>5, <1>6

\* A tempo struck at tick 2 keeps the grid.
LEMMA StartNoteInv ==
  ASSUME TypeOK, TypeOK', GridSong, GridInv, StartNote
  PROVE  GridInv'
<1>. USE DEF GridInv
<1>1. turn \in Voice /\ stage = "note" /\ spdcnt[turn] = 3 /\ ~ended[turn] /\ EndTurn
  BY DEF TypeOK, StartNote, StageTick
<1>2. /\ ended' = ended /\ seqtempo' = seqtempo /\ fx' = fx
      /\ owed' = [owed EXCEPT ![turn] = owed[turn] \ {"note"}]
  BY DEF StartNote
<1>3. \/ UNCHANGED clock
      \/ /\ fx[turn] \in RowFx /\ fx[turn][1] = NoteDelay /\ fx[turn][2] # 0 /\ DelaySupport
         /\ DelayNote(turn, fx[turn][2])
      \/ /\ UNCHANGED <<spdcnt, trdelay>>
         /\ fx[turn][1] # NoteDelay
         /\ TableKept'
         /\ \E p, e \in Slot : AllTempo(p) /\ ProgramOf(Long, tempotbl', p, e)
  <2>1. fx[turn] \in RowFx \cup {<<NoFx, 0>>}
    BY <1>1 DEF TypeOK
  <2>2. BigEffect(turn, fx[turn][1], fx[turn][2])
    BY DEF StartNote
  <2>. QED
    BY <1>1, <2>1, <2>2, GridEffect
<1>4. NoTrackTempo'
  BY <1>2 DEF NoTrackTempo
\* The note has started, whether it goes on now or is held.
<1>5. ASSUME \A w \in Voice : w # turn => spdcnt'[w] = spdcnt[w] /\ Held(w)' = Held(w),
             \A w \in Voice : w = turn => IF Held(w)' THEN spdcnt'[w] = 2 ELSE spdcnt'[w] >= 3
      PROVE  OwedByTick' /\ EndedAtTick1'
  <2>1. EndedAtTick1'
    BY <1>1, <1>2, <1>5, TurnTicks DEF EndedAtTick1
  <2>2. OwedByTick'
    <3>. SUFFICES ASSUME NEW w \in Voice, ~ended[w]
                  PROVE  owed'[w] = IF spdcnt'[w] = 1 THEN {"step", "note"}
                                    ELSE IF spdcnt'[w] = 2 /\ ~Held(w)' THEN {"note"} ELSE {}
      BY <1>1, <1>2, TurnTicks DEF OwedByTick
    <3>1. CASE w = turn
      <4>1. owed[w] \subseteq {"note"}
        BY <1>1, <3>1, TurnTicks DEF OwedByTick
      <4>2. owed'[w] = {}
        BY <1>1, <1>2, <3>1, <4>1 DEF TypeOK
      <4>3. spdcnt'[w] # 1 /\ (spdcnt'[w] = 2 => Held(w)')
        <5>1. IF Held(w)' THEN spdcnt'[w] = 2 ELSE spdcnt'[w] >= 3
          BY <1>1, <1>5, <3>1
        <5>. QED
          BY <5>1
      <4>. QED
        BY <4>2, <4>3
    <3>2. CASE w # turn
      <4>1. owed'[w] = owed[w] /\ Tick(w) = spdcnt[w]
        BY <1>1, <1>2, <3>2, TurnTicks DEF TypeOK
      <4>. QED
        BY <1>5, <3>2, <4>1 DEF OwedByTick
    <3>. QED
      BY <3>1, <3>2
  <2>. QED
    BY <2>1, <2>2
<1>7. CASE UNCHANGED clock
  <2>1. UNCHANGED <<tempotbl, tmppos, tmpbase, spdcnt, trdelay>>
    BY <1>7 DEF clock
  <2>2. \A w \in Voice : Count(w)' = Count(w) /\ Held(w)' = Held(w)
    BY <1>2, <2>1 DEF Count, Held
  <2>3. Together'
    BY <1>1, <1>2, <2>1, <2>2, TurnTogether
  <2>4. GridPrograms' /\ TableKept' /\ CountBounded'
    BY <2>1, <2>2, SameGrid DEF CountBounded
  <2>5. Tick(turn) = 2 /\ \A w \in Voice : Tick(w)' = spdcnt[w] /\ (w # turn => Tick(w) = spdcnt[w])
    BY <1>1, <2>1, TurnTicks
  \* A held note's effect is a delay, and those are not without effect.
  <2>6. ~Held(turn)
    <3>. SUFFICES ASSUME Held(turn) PROVE FALSE
      OBVIOUS
    <3>1. fx[turn][1] = NoteDelay /\ DelaySupport /\ fx[turn] \in RowFx
      BY <1>1 DEF HeldAtTick2
    <3>2. DelayNote(turn, fx[turn][2])
      BY <3>1 DEF StartNote, BigEffect, NoClockFx, MainTempo, NoFx, TrackTempo, TrackFunktempo,
                  TrackProgram, TrackDelay, NoteDelay, Funktempo, Program
    <3>3. trdelay'[turn] # trdelay[turn]
      <4>1. trdelay[turn] \in Byte /\ trdelay[turn] # 255
        BY <1>1 DEF TypeOK, Held
      <4>2. \A x \in Byte : (x - 1) % 256 # x
        BY SMT DEF Byte
      <4>. QED
        BY <1>1, <3>2, <4>1, <4>2 DEF DelayNote, CatchUp, Hold, TypeOK
    <3>. QED
      BY <2>1, <3>3
  <2>7. HeldAtTick2'
    <3>1. \A w \in Voice : Held(w) => w # turn /\ fx'[w] = fx[w] /\ spdcnt'[w] = spdcnt[w] /\ ended'[w] = ended[w]
      BY <1>2, <2>1, <2>6
    <3>. QED
      BY <1>1, <2>1, <3>1, SameHeld
  <2>8. OwedByTick' /\ EndedAtTick1'
    BY <1>1, <1>5, <2>1, <2>2, <2>6
  <2>. QED
    BY <1>1, <1>4, <2>3, <2>4, <2>7, <2>8, TurnTicks
<1>9. CASE /\ fx[turn] \in RowFx /\ fx[turn][1] = NoteDelay /\ fx[turn][2] # 0 /\ DelaySupport
           /\ DelayNote(turn, fx[turn][2])
  <2>1. /\ \A w \in Voice : Count(w)' = Count(w)
        /\ \A w \in Voice : w # turn => spdcnt'[w] = spdcnt[w] /\ Held(w)' = Held(w)
        /\ \A w \in Voice : w = turn => IF Held(w)' THEN spdcnt'[w] = 2 ELSE spdcnt'[w] >= 3
        /\ HeldAtTick2'
    BY <1>1, <1>2, <1>9, HoldCounts
  <2>2. UNCHANGED <<tempotbl, tmppos, tmpbase>>
    BY <1>9 DEF DelayNote
  <2>3. Together'
    BY <1>1, <1>2, <2>1, <2>2, TurnTogether
  <2>4. GridPrograms' /\ TableKept' /\ CountBounded'
    BY <2>1, <2>2, SameGrid DEF CountBounded
  <2>5. OwedByTick' /\ EndedAtTick1'
    BY <1>5, <2>1
  <2>. QED
    BY <1>1, <1>4, <2>1, <2>3, <2>4, <2>5, TurnTicks
<1>8. CASE /\ UNCHANGED <<spdcnt, trdelay>>
           /\ fx[turn][1] # NoteDelay
           /\ TableKept' /\ \E p, e \in Slot : AllTempo(p) /\ ProgramOf(Long, tempotbl', p, e)
  <2>1. PICK p, e \in Slot : AllTempo(p) /\ ProgramOf(Long, tempotbl', p, e)
    BY <1>8
  <2>2. \A w \in Voice : tmppos'[w] = p /\ tmpbase'[w] = p
    BY <2>1 DEF AllTempo
  <2>3. p \in p .. e
    BY <2>1, SMT DEF ProgramOf, Slot
  <2>4. GridPrograms'
    BY <2>1, <2>2, <2>3 DEF GridPrograms
  <2>7. ~Held(turn) /\ \A w \in Voice : Count(w)' = Count(w) /\ Held(w)' = Held(w)
    BY <1>1, <1>2, <1>8 DEF HeldAtTick2, Count, Held
  <2>8. \A w \in Voice : Count(w) \in {1, 2, 3}
    BY <1>1, <2>7, CountsAtTick2
  <2>5. CountBounded'
    <3>. SUFFICES ASSUME NEW w \in Voice PROVE Count(w) <= Tempo(w)' % 128
      BY <2>7 DEF CountBounded
    <3>3. Tempo(w)' \in Byte /\ Tempo(w)' % 128 \in Long
      BY <2>1, <2>2, <2>3, TempoInProgram DEF TypeOK, Tempo
    <3>1. Tempo(w)' \in Byte /\ Tempo(w)' % 128 >= 3
      BY <3>3 DEF Long
    <3>2. Tempo(w)' % 128 \in Int
      BY <3>1, SMT DEF Byte
    <3>. QED
      BY <2>8, <3>1, <3>2
  <2>6. Together'
    <3>1. \A w \in Voice : w \in Int /\ w >= 0
      BY ChnAssumption, SMT DEF Voice
    <3>. PICK t \in Voice : t = turn
      BY <1>1
    <3>2. \A w \in Voice : Played(w)' <=> t > 0 /\ w >= t
      BY <1>1, PlayedNext
    <3>. SUFFICES ASSUME NEW u \in Voice, NEW v \in Voice, ~ended[u], ~ended[v]
                  PROVE  /\ (Played(u)' <=> Played(v)') => Same(u, v)'
                         /\ Played(u)' /\ ~Played(v)' => Ahead(u, v)'
      BY <1>2 DEF Together
    <3>3. /\ Count(u)' = IF u >= t THEN 3 ELSE 2
          /\ Count(v)' = IF v >= t THEN 3 ELSE 2
      BY <1>1, <2>7, CountsAtTick2
    <3>4. tmppos'[u] = tmppos'[v] /\ tmpbase'[u] = tmpbase'[v]
      BY <2>2
    <3>5. (Played(u)' <=> Played(v)') => (u >= t <=> v >= t)
      <4>1. t > 0 \/ (u >= t /\ v >= t)
        BY <3>1
      <4>. QED
        BY <3>2, <4>1
    <3>6. Played(u)' /\ ~Played(v)' => u >= t /\ ~(v >= t)
      BY <3>2
    <3>7. (u >= t <=> v >= t) => Same(u, v)'
      BY <3>3, <3>4 DEF Same
    <3>8. u >= t /\ ~(v >= t) => Ahead(u, v)'
      BY <3>3, <3>4 DEF Ahead
    <3>. QED
      BY <3>5, <3>6, <3>7, <3>8
  <2>9. HeldAtTick2'
    <3>1. \A w \in Voice : Held(w) => w # turn /\ fx'[w] = fx[w] /\ spdcnt'[w] = spdcnt[w] /\ ended'[w] = ended[w]
      BY <1>2, <1>8, <2>7
    <3>. QED
      BY <1>1, <1>8, <3>1, SameHeld
  <2>10. OwedByTick' /\ EndedAtTick1'
    BY <1>1, <1>5, <1>8, <2>7
  <2>. QED
    BY <1>1, <1>4, <1>8, <2>4, <2>5, <2>6, <2>9, <2>10, TurnTicks
<1>. QED
  BY <1>3, <1>7, <1>8, <1>9

\* A subtune of a grid song starts on the grid.
LEMMA InitGrid ==
  ASSUME TypeOK, GridSong, Init
  PROVE  GridInv
<1>1. /\ stage = "frame" /\ turn = Chn - 1 /\ turn \in Voice
      /\ \A v \in Voice : /\ spdcnt[v] = 0 /\ tmppos[v] = 0 /\ tmpbase[v] = 0
                          /\ seqtempo[v] = 0 /\ trdelay[v] = 255
                          /\ ended[v] = FALSE /\ owed[v] = {}
  BY DEF Init, TypeOK
<1>2. \A v \in Voice : ~Played(v) /\ Tick(v) = 0
  <2>1. \A v \in Voice : ~(v > Chn - 1)
    BY ChnAssumption, SMT DEF Voice
  <2>. QED
    BY <1>1, <2>1 DEF Played, Tick
<1>9. \A v \in Voice : ~Held(v) /\ Count(v) = 0
  BY <1>1 DEF Held, Count
<1>3. Together
  BY <1>1, <1>2, <1>9 DEF Together, Same
<1>4. GridPrograms
  <2>1. PICK e \in {0, 1} : ProgramOf(Long, tempotbl, 0, e)
    BY DEF Init, GridSong
  <2>2. e \in Slot /\ 0 \in 0 .. e
    BY <2>1, ChnAssumption, TableAssumption, SMT DEF Slot
  <2>. QED
    BY <1>1, <2>1, <2>2 DEF GridPrograms
<1>5. CountBounded
  <2>. SUFFICES ASSUME NEW v \in Voice PROVE Count(v) <= Tempo(v) % 128
    BY DEF CountBounded
  <2>1. Tempo(v) \in Byte /\ Tempo(v) % 128 >= 3
    BY <1>4, GridTempo
  <2>2. 0 <= Tempo(v) % 128
    BY <2>1, SMT DEF Byte
  <2>. QED
    BY <1>9, <2>2
<1>6. TableKept
  BY DEF Init, TableKept
<1>7. HeldAtTick2 /\ NoTrackTempo /\ EndedAtTick1 /\ StageTick
  BY <1>1, <1>9 DEF HeldAtTick2, NoTrackTempo, EndedAtTick1, StageTick
<1>8. OwedByTick
  <2>1. \A v \in Voice : owed[v] = {} /\ Tick(v) # 1 /\ Tick(v) # 2
    BY <1>1, <1>2
  <2>. QED
    BY <2>1 DEF OwedByTick
<1>. QED
  BY <1>3, <1>4, <1>5, <1>6, <1>7, <1>8 DEF GridInv

-----------------------------------------------------------------------------
(* What the grid gives the player.                                          *)

\* The invariant gives every property of the grid run.
LEMMA GridImplies ==
  ASSUME TypeOK, GridInv
  PROVE  Lockstep /\ NoOvershoot /\ ProgramBounded /\ RowsComplete /\ StepOnce /\ EndHolds
<1>. USE DEF GridInv
<1>1. turn \in Voice
  BY DEF TypeOK
<1>2. Lockstep
  <2>. SUFFICES ASSUME Boundary, NEW u \in Voice, NEW v \in Voice, InStep(u), InStep(v)
                PROVE  Same(u, v) /\ Count(u) = spdcnt[u] /\ Count(v) = spdcnt[v]
    BY DEF Lockstep, Same
  <2>1. ~Played(u) /\ ~Played(v)
    BY ChnAssumption, SMT DEF Boundary, Played, Voice
  <2>. QED
    BY <2>1 DEF Together, InStep, Count, Held
<1>3. ProgramBounded
  <2>. SUFFICES ASSUME NEW v \in Voice
                PROVE  \E e \in Slot : IsProgram(tmpbase[v], e) /\ tmppos[v] \in tmpbase[v] .. e
    BY DEF ProgramBounded
  <2>. QED
    BY DEF GridPrograms, ProgramOf, IsProgram, Long
<1>4. stage # "frame" => Tick(turn) = spdcnt[turn] - 1
  BY DEF Tick
<1>5. RowsComplete /\ EndHolds
  BY <1>1, <1>4 DEF RowsComplete, EndHolds, StageTick, OwedByTick
<1>6. StepOnce
  BY <1>1, <1>4 DEF StepOnce, StageTick, OwedByTick
<1>7. NoOvershoot
  BY NotPast
<1>. QED
  BY <1>2, <1>3, <1>5, <1>6, <1>7

\* A grid song stays on the grid: the voices keep one clock although every
\* one counts its own, every program is bounded, and no handler is lost.
THEOREM GridInvariant ==
  ASSUME GridSong
  PROVE  Spec => []GridInv
<1>1. TypeOK /\ Init => GridInv
  BY InitGrid
<1>2. TypeOK /\ TypeOK' /\ GridInv /\ [Next]_vars => GridInv'
  <2>. SUFFICES ASSUME TypeOK, TypeOK', GridInv, [Next]_vars
                PROVE  GridInv'
    OBVIOUS
  <2>1. CASE Frame
    BY <2>1, FrameInv
  <2>2. CASE ReadRow
    BY <2>2, ReadRowInv
  <2>3. CASE PatternGoesOn
    BY <2>3, PatternInv
  <2>4. CASE TrackEnds
    BY <2>4, TrackEndsInv
  <2>5. CASE StartNote
    BY <2>5, StartNoteInv
  <2>6. CASE UNCHANGED vars
    BY <2>6 DEF vars, clock, song, GridInv, Together, Same, Ahead, Played, Tempo, GridPrograms,
                CountBounded, Count, Held, TableKept, HeldAtTick2, NoTrackTempo, EndedAtTick1, Tick,
                StageTick, OwedByTick
  <2>. QED
    BY <2>1, <2>2, <2>3, <2>4, <2>5, <2>6 DEF Next
<1>. QED
  BY <1>1, <1>2, TypeCorrect, PTL DEF Spec

\* Between two calls the voices of a grid song agree on counter and program.
THEOREM GridLockstep ==
  ASSUME GridSong
  PROVE  Spec => []Lockstep
  BY TypeCorrect, GridInvariant, GridImplies, PTL

\* No counter of a grid song passes its tempo, however the other voices set it.
THEOREM GridNoOvershoot ==
  ASSUME GridSong
  PROVE  Spec => []NoOvershoot
  BY TypeCorrect, GridInvariant, GridImplies, PTL

\* No voice of a grid song runs past the end of its tempo program.
THEOREM GridProgramBounded ==
  ASSUME GridSong
  PROVE  Spec => []ProgramBounded
  BY TypeCorrect, GridInvariant, GridImplies, PTL

\* A grid song reads a row only when the last one has been stepped and its note started.
THEOREM GridRows ==
  ASSUME GridSong
  PROVE  Spec => []RowsComplete
  BY TypeCorrect, GridInvariant, GridImplies, PTL

\* A grid song steps a row once, so that its cursor stays on the row's first byte.
THEOREM GridStepsOnce ==
  ASSUME GridSong
  PROVE  Spec => []StepOnce
  BY TypeCorrect, GridInvariant, GridImplies, PTL

\* A track of a grid song that has met its $FE reads no further row.
THEOREM GridEndHolds ==
  ASSUME GridSong
  PROVE  Spec => []EndHolds
  BY TypeCorrect, GridInvariant, GridImplies, PTL

-----------------------------------------------------------------------------
(* Songs whose voices have tempos of their own.                             *)

\* A voice in a program stands before one of its tempos.
LEMMA TempoOf ==
  ASSUME NEW tempos, NEW tbl \in [Slot -> Byte], NEW v \in Voice, NEW b \in Slot, NEW p \in Slot,
         InProgram(tempos, tbl, v, b, p)
  PROVE  tbl[NextSlot(p)] \in Byte /\ tbl[NextSlot(p)] % 128 \in tempos
<1>1. PICK e \in Slot : ProgramOf(tempos, tbl, b, e) /\ p \in b .. e
  BY DEF InProgram
<1>. QED
  BY <1>1, TempoInProgram

\* A program that starts at the position a voice is led to.
LEMMA Starts ==
  ASSUME NEW tempos, NEW tbl, NEW v \in Voice, NEW b \in Slot, NEW e \in Slot,
         ProgramOf(tempos, tbl, b, e),
         \/ b = 0 /\ e <= 1
         \/ b = TrkTmpPos(v) /\ e <= b + 1
         \/ b >= TrkTmpPos(Chn)
  PROVE  InProgram(tempos, tbl, v, b, b)
<1>1. b \in b .. e
  BY SMT DEF ProgramOf, Slot
<1>. QED
  BY <1>1 DEF InProgram

\* One flagged byte is a program.
LEMMA OneByte ==
  ASSUME NEW tempos, NEW tbl, NEW b \in Slot, b + 2 <= TableSize,
         Neg(tbl[b + 1]), tbl[b + 1] % 128 \in tempos
  PROVE  ProgramOf(tempos, tbl, b, b)
<1>1. b \in b .. TableSize - 2 /\ (\A q \in b .. b - 1 : FALSE) /\ (\A q \in b .. b : q = b)
  BY TableAssumption, SMT DEF Slot
<1>. QED
  BY <1>1 DEF ProgramOf

\* Two bytes are, of which the second is flagged.
LEMMA TwoBytes ==
  ASSUME NEW tempos, NEW tbl, NEW b \in Slot, b + 3 <= TableSize,
         NEW x \in 0 .. 15, NEW y \in 0 .. 15, x \in tempos, y \in tempos,
         tbl[b + 1] = x, tbl[b + 2] = 128 + y
  PROVE  ProgramOf(tempos, tbl, b, b + 1)
<1>1. /\ b + 1 \in b .. TableSize - 2
      /\ \A q \in b .. (b + 1) - 1 : q = b
      /\ \A q \in b .. b + 1 : q = b \/ q = b + 1
      /\ (b + 1) + 1 = b + 2
  BY TableAssumption, SMT DEF Slot
<1>2. ~Neg(x) /\ x % 128 = x /\ Neg(128 + y) /\ (128 + y) % 128 = y
  BY SMT DEF Neg
<1>. QED
  BY <1>1, <1>2 DEF ProgramOf

\* The subtune's bytes and the voices' own are apart from one another and from
\* the song's programs.
LEMMA Apart ==
  ASSUME NEW u \in Voice, NEW v \in Voice
  PROVE  /\ TrkTmpPos(v) \in Slot /\ TrkTmpPos(v) + 3 <= TableSize /\ TrkTmpPos(v) >= 2
         /\ TrkTmpPos(v) + 2 <= TrkTmpPos(Chn)
         /\ u # v => TrkTmpPos(u) >= TrkTmpPos(v) + 2 \/ TrkTmpPos(v) >= TrkTmpPos(u) + 2
  BY ChnAssumption, TableAssumption, SMT DEF TrkTmpPos, Voice, Slot

\* A store to a voice's own bytes leaves the other voices in their programs.
LEMMA StoreApart ==
  ASSUME NEW tempos, NEW tbl \in [Slot -> Byte], NEW new \in [Slot -> Byte],
         NEW u \in Voice, NEW v \in Voice, u # v,
         \A q \in Slot : q \notin {TrkTmpPos(v) + 1, TrkTmpPos(v) + 2} => new[q] = tbl[q],
         NEW b \in Slot, NEW p \in Slot, InProgram(tempos, tbl, u, b, p)
  PROVE  InProgram(tempos, new, u, b, p) /\ new[NextSlot(p)] = tbl[NextSlot(p)]
<1>1. PICK e \in Slot :
        /\ ProgramOf(tempos, tbl, b, e) /\ p \in b .. e
        /\ \/ b = 0 /\ e <= 1
           \/ b = TrkTmpPos(u) /\ e <= b + 1
           \/ b >= TrkTmpPos(Chn)
  BY DEF InProgram
<1>. DEFINE x == TrkTmpPos(v)
            y == TrkTmpPos(u)
            z == TrkTmpPos(Chn)
<1>2. /\ x \in Slot /\ y \in Slot /\ x >= 2 /\ x + 2 <= z
      /\ y >= x + 2 \/ x >= y + 2
  BY Apart
<1>3. e \in b .. TableSize - 2
  BY <1>1 DEF ProgramOf
<1>4. z \in Int
  BY ChnAssumption, SMT DEF TrkTmpPos
<1>5. \A q \in b .. e : q + 1 \in Slot /\ q + 1 \notin {x + 1, x + 2}
  <2>. HIDE DEF x, y, z
  <2>1. (b = 0 /\ e <= 1) \/ (b = y /\ e <= b + 1) \/ b >= z
    BY <1>1 DEF y, z
  <2>. QED
    BY <1>2, <1>3, <1>4, <2>1, TableAssumption, SMT DEF Slot
<1>6. \A q \in b .. e : new[q + 1] = tbl[q + 1]
  BY <1>5
<1>7. e \in b .. e /\ \A q \in b .. e - 1 : q \in b .. e
  BY <1>1, SMT DEF Slot
<1>8. ProgramOf(tempos, new, b, e)
  BY <1>1, <1>6, <1>7 DEF ProgramOf
<1>9. NextSlot(p) = p + 1
  BY <1>1, TempoInProgram
<1>. QED
  BY <1>1, <1>6, <1>8, <1>9 DEF InProgram

\* A voice that goes on in its program, or starts it over, stays inside it.
LEMMA ProgramGoesOn ==
  ASSUME TypeOK, NEW tempos, OwnPrograms(tempos), tempotbl' = tempotbl, tmpbase' = tmpbase,
         NEW t \in Voice, \A w \in Voice : w # t => tmppos'[w] = tmppos[w],
         \/ tmppos'[t] = tmppos[t]
         \/ tmppos'[t] = tmpbase[t]
         \/ ~Neg(Tempo(t)) /\ tmppos'[t] = NextSlot(tmppos[t])
  PROVE  OwnPrograms(tempos)'
<1>. SUFFICES ASSUME NEW w \in Voice
              PROVE  InProgram(tempos, tempotbl, w, tmpbase[w], tmppos'[w])
  BY DEF OwnPrograms
<1>1. PICK e \in Slot :
        /\ ProgramOf(tempos, tempotbl, tmpbase[w], e) /\ tmppos[w] \in tmpbase[w] .. e
        /\ \/ tmpbase[w] = 0 /\ e <= 1
           \/ tmpbase[w] = TrkTmpPos(w) /\ e <= tmpbase[w] + 1
           \/ tmpbase[w] >= TrkTmpPos(Chn)
  BY DEF OwnPrograms, InProgram
<1>2. CASE tmppos'[w] = tmppos[w]
  BY <1>1, <1>2 DEF InProgram
<1>3. CASE tmppos'[w] = tmpbase[w]
  <2>1. tmpbase[w] \in Slot
    BY DEF TypeOK
  <2>. QED
    BY <1>1, <1>3, <2>1, Starts
<1>4. CASE ~Neg(Tempo(w)) /\ tmppos'[w] = NextSlot(tmppos[w])
  <2>1. NextSlot(tmppos[w]) = tmppos[w] + 1
    BY <1>1, TempoInProgram DEF TypeOK
  <2>2. tmppos[w] # e
    BY <1>1, <1>4, <2>1 DEF ProgramOf, Tempo
  <2>3. tmppos[w] + 1 \in tmpbase[w] .. e
    BY <1>1, <2>2, SMT DEF TypeOK, Slot
  <2>. QED
    BY <1>1, <1>4, <2>1, <2>3 DEF InProgram
<1>. QED
  BY <1>2, <1>3, <1>4

\* The compare of a counter that is past no unflagged byte.
LEMMA ComparePast ==
  ASSUME NEW s \in Byte, NEW t \in Byte, s < 128, ~Neg(t) => s <= t
  PROVE  LET d == (s - t) % 256
             due == d = 0 \/ (Neg(s) # Neg(t) /\ Neg(s) # Neg(d))
         IN  /\ due <=> t % 128 <= s
             /\ d = 0 <=> ~Neg(t) /\ s = t
  BY SMTT(20) DEF Byte, Neg

\* What the clock does to such a voice's counter and position.
LEMMA TracksCount ==
  ASSUME TypeOK, TracksInv, Frame
  PROVE  /\ Counts /\ stage = "frame"
         /\ spdcnt'[turn] < 128
         /\ \/ spdcnt'[turn] = 1 /\ Neg(Tempo(turn)) /\ tmppos' = [tmppos EXCEPT ![turn] = tmpbase[turn]]
            \/ /\ spdcnt'[turn] = 1 /\ ~Neg(Tempo(turn))
               /\ tmppos' = [tmppos EXCEPT ![turn] = NextSlot(tmppos[turn])]
            \/ tmppos' = tmppos /\ spdcnt'[turn] <= Tempo(turn) % 128
<1>. DEFINE s == spdcnt[turn]
            t == Tempo(turn)
<1>1. turn \in Voice /\ s \in Byte /\ s < 128 /\ (~Neg(t) => s <= t)
  BY DEF TypeOK, TracksInv, CountsLow, NoStandstill
<1>2. t \in Byte /\ t % 128 >= 3
  <2>1. t \in Byte /\ t % 128 \in Long
    BY <1>1, TempoOf DEF TypeOK, TracksInv, OwnPrograms, Tempo
  <2>. QED
    BY <2>1 DEF Long
<1>3. /\ Due(turn) <=> t % 128 <= s
      /\ Diff(turn) = 0 <=> ~Neg(t) /\ s = t
  BY <1>1, <1>2, ComparePast DEF Due, Diff, Overflow
<1>4. s \in 0 .. 127 /\ ~Neg(s) /\ (s + 1) % 256 = s + 1 /\ t % 128 \in 3 .. 127
  BY <1>1, <1>2, SMT DEF Byte, Neg
<1>5. stage = "frame"
  BY DEF Frame
<1>6. CASE t % 128 <= s
  <2>1. Due(turn) /\ s >= 3
    BY <1>2, <1>3, <1>4, <1>6
  <2>2. spdcnt' = [spdcnt EXCEPT ![turn] = 1] /\ GoOn("row")
    BY <2>1 DEF Frame
  <2>3. Diff(turn) = 0 <=> ~Neg(t)
    <3>1. ~Neg(t) => t % 128 = t
      BY <1>2, SMT DEF Byte, Neg
    <3>2. ~Neg(t) => s = t
      BY <1>1, <1>2, <1>4, <1>6, <3>1, SMT DEF Byte
    <3>. QED
      BY <1>3, <3>2
  <2>4. tmppos' = [tmppos EXCEPT ![turn] = IF Neg(t) THEN tmpbase[turn] ELSE NextSlot(tmppos[turn])]
    BY <2>1, <2>3 DEF Frame
  <2>5. spdcnt'[turn] = 1
    BY <1>1, <2>2 DEF TypeOK
  <2>6. Counts /\ spdcnt'[turn] < 128
    BY <2>1, <2>2, <2>5 DEF Counts
  <2>7. CASE Neg(t)
    BY <1>5, <2>4, <2>5, <2>6, <2>7
  <2>8. CASE ~Neg(t)
    BY <1>5, <2>4, <2>5, <2>6, <2>8
  <2>. QED
    BY <2>7, <2>8
<1>7. CASE ~(t % 128 <= s)
  <2>1. ~Due(turn) /\ Diff(turn) # 0
    BY <1>3, <1>7 DEF Due
  <2>2. tmppos' = tmppos
    BY <2>1 DEF Frame, TypeOK
  <2>3. spdcnt' = [spdcnt EXCEPT ![turn] = s + 1]
    <3>1. CASE s = 0
      <4>1. spdcnt' = [spdcnt EXCEPT ![turn] = 1]
        BY <3>1 DEF Frame
      <4>. QED
        BY <3>1, <4>1
    <3>2. CASE s # 0
      <4>1. spdcnt' = [spdcnt EXCEPT ![turn] = (s + 1) % 256]
        BY <2>1, <3>2 DEF Frame
      <4>. QED
        BY <1>4, <4>1
    <3>. QED
      BY <3>1, <3>2
  <2>4. \/ s = 0 /\ GoOn("row")
        \/ s = 1 /\ GoOn("step")
        \/ s = 2 /\ GoOn("note")
        \/ s >= 3 /\ EndTurn
    BY <1>4, <2>1 DEF Frame
  <2>5. spdcnt'[turn] = s + 1
    BY <1>1, <2>3 DEF TypeOK
  <2>. DEFINE m == t % 128
  <2>6. s + 1 <= m /\ s + 1 < 128
    <3>1. ~(m <= s) /\ m \in 3 .. 127 /\ s \in 0 .. 127
      BY <1>4, <1>7
    <3>. HIDE DEF s, m
    <3>. QED
      BY <3>1
  <2>. QED
    BY <1>5, <2>2, <2>3, <2>4, <2>5, <2>6 DEF Counts
<1>. QED
  BY <1>6, <1>7

\* The byte a voice compares with after a step, for the programs of any song.
LEMMA OwnTempoNext ==
  ASSUME TypeOK', NEW tempos, OwnPrograms(tempos)', NEW w \in Voice
  PROVE  Tempo(w)' \in Byte /\ Tempo(w)' % 128 \in tempos
  BY TempoOf DEF TypeOK, OwnPrograms, Tempo

\* In a song of long tempos.
LEMMA TracksTempoNext ==
  ASSUME TypeOK', OwnPrograms(Long)', NEW w \in Voice
  PROVE  Tempo(w)' \in Byte /\ Tempo(w)' % 128 \in 3 .. 127 /\ Tempo(w)' % 128 \in Long
  BY OwnTempoNext DEF Long

\* Counting the call keeps the tracks.
LEMMA TracksFrame ==
  ASSUME TypeOK, TypeOK', TracksInv, Frame
  PROVE  TracksInv'
<1>. USE DEF TracksInv
<1>1. /\ turn \in Voice /\ stage = "frame"
      /\ tempotbl' = tempotbl /\ tmpbase' = tmpbase /\ seqtempo' = seqtempo
      /\ ended' = ended /\ owed' = owed
  BY DEF TypeOK, Frame, song
<1>. PICK t \in Voice : t = turn
  BY <1>1
<1>2. Counts /\ \A w \in Voice : w # t => spdcnt'[w] = spdcnt[w] /\ tmppos'[w] = tmppos[w]
  BY TracksCount DEF Counts, TypeOK
<1>4. OwnPrograms(Long)'
  <2>1. \/ tmppos'[t] = tmppos[t]
        \/ tmppos'[t] = tmpbase[t]
        \/ ~Neg(Tempo(t)) /\ tmppos'[t] = NextSlot(tmppos[t])
    BY TracksCount DEF TypeOK
  <2>. QED
    BY <1>1, <1>2, <2>1, ProgramGoesOn
<1>5. ASSUME NEW w \in Voice, ~Neg(Tempo(w)')
      PROVE  spdcnt'[w] <= Tempo(w)'
  <2>1. Tempo(w)' \in Byte /\ Tempo(w)' % 128 \in 3 .. 127
    BY <1>4, TracksTempoNext
  <2>2. Tempo(w)' % 128 = Tempo(w)'
    BY <1>5, <2>1, SMT DEF Byte, Neg
  <2>3. tmppos'[w] = tmppos[w] => Tempo(w)' = Tempo(w)
    BY <1>1 DEF Tempo
  <2>4. CASE w # t
    BY <1>2, <1>5, <2>3, <2>4 DEF NoStandstill
  <2>5. CASE w = t
    <3>1. CASE spdcnt'[w] = 1
      <4>1. Tempo(w)' \in Int
        BY <2>1, SMT DEF Byte
      <4>. QED
        BY <2>1, <2>2, <3>1, <4>1
    <3>2. CASE tmppos' = tmppos /\ spdcnt'[w] <= Tempo(w) % 128
      BY <2>2, <2>3, <3>2
    <3>. QED
      BY <2>5, <3>1, <3>2, TracksCount
  <2>. QED
    BY <2>4, <2>5
<1>6. NoStandstill'
  BY <1>5 DEF NoStandstill
<1>7. ProgramsKept' /\ DueTempos(Long)'
  BY <1>1 DEF ProgramsKept, DueTempos
<1>8. CountsLow'
  BY <1>2, TracksCount DEF CountsLow
<1>9. OwedAtTick'
  BY <1>1, <1>2, TicksKept DEF OwedAtTick
<1>10. StageTick' /\ EndedAtTick1'
  BY <1>1, <1>2, StageKept
<1>. QED
  BY <1>4, <1>6, <1>7, <1>8, <1>9, <1>10

\* No voice of such a song is bound to its next tick.
LEMMA TracksNoBind ==
  ASSUME TypeOK', OwnPrograms(Long)', turn \in Voice, NEW next, NEW limit \in {2, 3}, BindTo(next, limit)
  PROVE  EndTurn
<1>. PICK t \in Voice : t = turn
  OBVIOUS
<1>1. Tempo(t)' % 128 \in 3 .. 127
  BY TracksTempoNext
<1>2. tempotbl'[NextSlot(tmppos'[turn])] = Tempo(t)'
  BY DEF Tempo
<1>3. ~(Tempo(t)' % 128 < limit)
  BY <1>1
<1>. QED
  BY <1>2, <1>3 DEF BindTo

\* A voice that is led to another program, and may store to its own bytes,
\* leaves the other voices where they are.
LEMMA OwnStore ==
  ASSUME TypeOK, TypeOK', NEW tempos, OwnPrograms(tempos), ProgramsKept, NEW v \in Voice,
         \A q \in Slot : q \notin {TrkTmpPos(v) + 1, TrkTmpPos(v) + 2} => tempotbl'[q] = tempotbl[q],
         \A w \in Voice : w # v => tmppos'[w] = tmppos[w] /\ tmpbase'[w] = tmpbase[w],
         InProgram(tempos, tempotbl', v, tmpbase'[v], tmppos'[v])
  PROVE  OwnPrograms(tempos)' /\ ProgramsKept' /\ \A w \in Voice : w # v => Tempo(w)' = Tempo(w)
<1>1. ASSUME NEW w \in Voice, w # v
      PROVE  InProgram(tempos, tempotbl', w, tmpbase'[w], tmppos'[w]) /\ Tempo(w)' = Tempo(w)
  <2>. DEFINE new == tempotbl'
  <2>1. tempotbl \in [Slot -> Byte] /\ new \in [Slot -> Byte] /\ tmpbase[w] \in Slot /\ tmppos[w] \in Slot
    BY DEF TypeOK
  <2>2. InProgram(tempos, tempotbl, w, tmpbase[w], tmppos[w])
    BY DEF OwnPrograms
  <2>4. \A q \in Slot : q \notin {TrkTmpPos(v) + 1, TrkTmpPos(v) + 2} => new[q] = tempotbl[q]
    OBVIOUS
  <2>. HIDE DEF new
  <2>3. /\ InProgram(tempos, new, w, tmpbase[w], tmppos[w])
        /\ new[NextSlot(tmppos[w])] = tempotbl[NextSlot(tmppos[w])]
    BY <1>1, <2>1, <2>2, <2>4, StoreApart
  <2>. QED
    BY <1>1, <2>3 DEF Tempo, new
<1>2. OwnPrograms(tempos)'
  BY <1>1 DEF OwnPrograms
<1>3. ProgramsKept'
  <2>1. PICK tbl \in Tables : \A p \in Slot : p > TrkTmpPos(Chn) => tempotbl[p] = tbl[p]
    BY DEF ProgramsKept
  <2>2. ASSUME NEW p \in Slot, p > TrkTmpPos(Chn)
        PROVE  tempotbl'[p] = tbl[p]
    <3>1. p \notin {TrkTmpPos(v) + 1, TrkTmpPos(v) + 2}
      BY <2>2, ChnAssumption, SMT DEF TrkTmpPos, Voice, Slot
    <3>. QED
      BY <2>1, <2>2, <3>1
  <2>. QED
    BY <2>2 DEF ProgramsKept
<1>. QED
  BY <1>1, <1>2, <1>3

\* A flagged tempo of a voice's own.
LEMMA OwnTempoTracks ==
  ASSUME TypeOK, TypeOK', NEW tempos, OwnPrograms(tempos), ProgramsKept, NEW v \in Voice, NEW a \in Byte,
         Neg(a), a % 128 \in tempos, OwnTempo(v, a)
  PROVE  /\ OwnPrograms(tempos)' /\ ProgramsKept' /\ Tempo(v)' = a
         /\ \A w \in Voice : w # v => Tempo(w)' = Tempo(w)
<1>. DEFINE p == TrkTmpPos(v)
<1>1. p \in Slot /\ p + 1 \in Slot /\ p + 2 <= TableSize
  BY TrackSlots, TableAssumption, SMT DEF Slot
<1>2. /\ tempotbl' = [tempotbl EXCEPT ![p + 1] = a]
      /\ tmppos' = [tmppos EXCEPT ![v] = p] /\ tmpbase' = [tmpbase EXCEPT ![v] = p]
  BY DEF OwnTempo, OwnProgram
<1>3. tempotbl'[p + 1] = a /\ tmppos'[v] = p /\ tmpbase'[v] = p
  BY <1>1, <1>2 DEF TypeOK
<1>4. ProgramOf(tempos, tempotbl', p, p)
  BY <1>1, <1>3, OneByte
<1>5. InProgram(tempos, tempotbl', v, p, p)
  <2>1. p <= p + 1
    BY <1>1, SMT DEF Slot
  <2>. QED
    BY <1>1, <1>4, <2>1, Starts
<1>6. \A q \in Slot : q # p + 1 => tempotbl'[q] = tempotbl[q]
  BY <1>2 DEF TypeOK
<1>7. \A w \in Voice : w # v => tmppos'[w] = tmppos[w] /\ tmpbase'[w] = tmpbase[w]
  BY <1>2 DEF TypeOK
<1>8. Tempo(v)' = a
  <2>1. NextSlot(p) = p + 1
    BY <1>1, SMT DEF NextSlot, Slot
  <2>. QED
    BY <1>3, <2>1 DEF Tempo
<1>. QED
  BY <1>3, <1>5, <1>6, <1>7, <1>8, OwnStore

\* A step leaves no voice past an unflagged tempo if the voice whose turn it is
\* has not counted past its own.
LEMMA TracksNotPast ==
  ASSUME TypeOK', NoStandstill, OwnPrograms(Long)', NEW t \in Voice,
         \A w \in Voice : w # t => spdcnt'[w] = spdcnt[w] /\ (Tempo(w)' = Tempo(w) \/ Neg(Tempo(w)')),
         spdcnt'[t] <= Tempo(t)' % 128
  PROVE  NoStandstill'
<1>. SUFFICES ASSUME NEW w \in Voice, ~Neg(Tempo(w)')
              PROVE  spdcnt'[w] <= Tempo(w)'
  BY DEF NoStandstill
<1>1. CASE w # t
  BY <1>1 DEF NoStandstill
<1>2. CASE w = t
  <2>1. Tempo(w)' % 128 = Tempo(w)'
    <3>1. Tempo(w)' \in Byte
      BY TracksTempoNext
    <3>. QED
      BY <3>1, SMT DEF Byte, Neg
  <2>. QED
    BY <1>2, <2>1
<1>. QED
  BY <1>1, <1>2

\* Reading a row puts the orderlist's track tempo into force.
LEMMA TracksReadRow ==
  ASSUME TypeOK, TypeOK', TracksInv, ReadRow
  PROVE  TracksInv'
<1>. USE DEF TracksInv
<1>1. turn \in Voice /\ stage = "row" /\ spdcnt[turn] = 1 /\ ~ended[turn]
  BY DEF TypeOK, ReadRow, StageTick
<1>. PICK t \in Voice : t = turn
  BY <1>1
<1>2. spdcnt' = spdcnt /\ ended' = ended
  BY <1>1 DEF ReadRow, TypeOK
<1>3. OwnPrograms(Long)' /\ ProgramsKept' /\ \A w \in Voice : w # t => Tempo(w)' = Tempo(w)
  <2>1. CASE seqtempo[t] = 0
    <3>1. UNCHANGED <<tempotbl, tmppos, tmpbase>>
      BY <2>1 DEF ReadRow
    <3>. QED
      BY <3>1 DEF OwnPrograms, ProgramsKept, Tempo
  <2>2. CASE seqtempo[t] # 0
    <3>. DEFINE a == Flagged(seqtempo[t])
    <3>1. OwnTempo(t, a)
      BY <2>2 DEF ReadRow
    <3>2. seqtempo[t] \in 0 .. 77 /\ seqtempo[t] \in Long
      BY <2>2 DEF TypeOK, DueTempos
    <3>3. a \in Byte /\ Neg(a) /\ a % 128 = seqtempo[t] % 128 /\ seqtempo[t] % 128 = seqtempo[t]
      BY <3>2, FlaggedByte, SMT
    <3>4. a % 128 \in Long
      BY <3>2, <3>3
    <3>. QED
      BY <3>1, <3>3, <3>4, OwnTempoTracks
  <2>. QED
    BY <2>1, <2>2
<1>4. EndTurn
  BY <1>1, <1>3, TracksNoBind DEF ReadRow
<1>5. NoStandstill'
  <2>1. Tempo(t)' % 128 \in 3 .. 127
    BY <1>3, TracksTempoNext
  <2>2. spdcnt'[t] <= Tempo(t)' % 128
    BY <1>1, <1>2, <2>1
  <2>. QED
    BY <1>2, <1>3, <2>2, TracksNotPast
<1>6. CountsLow'
  BY <1>2 DEF CountsLow
<1>7. DueTempos(Long)'
  BY DEF ReadRow, DueTempos, TypeOK
<1>8. EndedAtTick1'
  BY <1>1, <1>2, <1>4, TurnTicks DEF EndedAtTick1
<1>9. OwedAtTick'
  <2>. SUFFICES ASSUME NEW w \in Voice, ~ended[w]
                PROVE  /\ spdcnt[w] = 1 => owed'[w] = {"step", "note"}
                       /\ spdcnt[w] = 2 => owed'[w] \subseteq {"note"}
                       /\ spdcnt[w] \notin {1, 2} => owed'[w] = {}
    BY <1>1, <1>2, <1>4, TurnTicks DEF OwedAtTick
  <2>1. owed' = [owed EXCEPT ![turn] = {"step", "note"}]
    BY DEF ReadRow
  <2>2. CASE w = t
    BY <1>1, <2>1, <2>2 DEF TypeOK
  <2>3. CASE w # t
    <3>1. owed'[w] = owed[w] /\ Tick(w) = spdcnt[w]
      BY <1>1, <1>4, <2>1, <2>3, TurnTicks DEF TypeOK
    <3>. QED
      BY <3>1 DEF OwedAtTick
  <2>. QED
    BY <2>2, <2>3
<1>. QED
  BY <1>1, <1>3, <1>4, <1>5, <1>6, <1>7, <1>8, <1>9, TurnTicks

\* What the orderlist sets is a tempo of the song.
LEMMA OrderTempos ==
  ASSUME TypeOK, NEW tempos, NEW first, SongOf(tempos, first), DueTempos(tempos), OrderEffects
  PROVE  DueTempos(tempos)'
  BY DEF TypeOK, SongOf, DueTempos, OrderEffects

\* Stepping the pattern keeps the tracks.
LEMMA TracksPattern ==
  ASSUME TypeOK, TypeOK', TracksSong, TracksInv, PatternGoesOn
  PROVE  TracksInv'
<1>. USE DEF TracksInv
<1>1. turn \in Voice /\ stage = "step" /\ spdcnt[turn] = 2 /\ ~ended[turn]
  BY DEF TypeOK, PatternGoesOn, StageTick
<1>2. UNCHANGED <<tempotbl, tmppos, tmpbase, spdcnt, ended>>
  BY DEF PatternGoesOn, clock
<1>3. OwnPrograms(Long)' /\ ProgramsKept' /\ NoStandstill' /\ CountsLow'
  BY <1>2 DEF OwnPrograms, ProgramsKept, NoStandstill, CountsLow, Tempo
<1>4. EndTurn
  BY <1>1, <1>3, TracksNoBind DEF PatternGoesOn
<1>5. DueTempos(Long)'
  BY OrderTempos DEF PatternGoesOn, TracksSong
<1>6. EndedAtTick1'
  BY <1>1, <1>2, <1>4, TurnTicks DEF EndedAtTick1
<1>7. OwedAtTick'
  <2>. SUFFICES ASSUME NEW w \in Voice, ~ended[w]
                PROVE  /\ spdcnt[w] = 1 => owed'[w] = {"step", "note"}
                       /\ spdcnt[w] = 2 => owed'[w] \subseteq {"note"}
                       /\ spdcnt[w] \notin {1, 2} => owed'[w] = {}
    BY <1>1, <1>2, <1>4, TurnTicks DEF OwedAtTick
  <2>1. owed' = [owed EXCEPT ![turn] = owed[turn] \ {"step"}]
    BY DEF PatternGoesOn
  <2>2. CASE w = turn
    <3>1. owed[w] = {"step", "note"}
      BY <1>1, <1>4, <2>2, TurnTicks DEF OwedAtTick
    <3>. QED
      BY <1>1, <2>1, <2>2, <3>1 DEF TypeOK
  <2>3. CASE w # turn
    <3>1. owed'[w] = owed[w] /\ Tick(w) = spdcnt[w]
      BY <1>1, <1>4, <2>1, <2>3, TurnTicks DEF TypeOK
    <3>. QED
      BY <3>1 DEF OwedAtTick
  <2>. QED
    BY <2>2, <2>3
<1>. QED
  BY <1>1, <1>3, <1>4, <1>5, <1>6, <1>7, TurnTicks

\* A track that ends, or stands before its end, keeps the tracks.
LEMMA TracksTrackEnds ==
  ASSUME TypeOK, TypeOK', TracksSong, TracksInv, TrackEnds
  PROVE  TracksInv'
<1>. USE DEF TracksInv
<1>1. turn \in Voice /\ stage = "step" /\ spdcnt[turn] = 2 /\ EndTurn
  BY DEF TypeOK, TrackEnds, StageTick
<1>. PICK t \in Voice : t = turn
  BY <1>1
<1>2. UNCHANGED <<tempotbl, tmppos, tmpbase, owed>>
  BY DEF TrackEnds
<1>3. spdcnt' = [spdcnt EXCEPT ![t] = 1] /\ ended' = [ended EXCEPT ![t] = TRUE]
  BY <1>1 DEF TrackEnds, TakeBack
<1>4. OwnPrograms(Long)' /\ ProgramsKept' /\ \A w \in Voice : Tempo(w)' = Tempo(w)
  BY <1>2 DEF OwnPrograms, ProgramsKept, Tempo
<1>5. NoStandstill'
  <2>1. Tempo(t)' % 128 \in 3 .. 127
    BY <1>4, TracksTempoNext
  <2>2. spdcnt'[t] = 1 /\ \A w \in Voice : w # t => spdcnt'[w] = spdcnt[w]
    BY <1>3 DEF TypeOK
  <2>3. spdcnt'[t] <= Tempo(t)' % 128
    BY <2>1, <2>2
  <2>. QED
    BY <1>4, <2>2, <2>3, TracksNotPast
<1>6. CountsLow'
  BY <1>3 DEF CountsLow, TypeOK
<1>7. DueTempos(Long)'
  BY OrderTempos DEF TrackEnds, TracksSong
<1>8. EndedAtTick1'
  BY <1>1, <1>3, TurnTicks DEF EndedAtTick1, TypeOK
<1>9. OwedAtTick'
  BY <1>1, <1>2, <1>3, TurnTicks DEF OwedAtTick, TypeOK
<1>. QED
  BY <1>1, <1>4, <1>5, <1>6, <1>7, <1>8, <1>9, TurnTicks

\* A program of the song is in the table as it was at the start.
LEMMA SongProgram ==
  ASSUME NEW tempos, NEW tbl, \A q \in Slot : q > TrkTmpPos(Chn) => tempotbl[q] = tbl[q],
         NEW p \in Slot, p >= TrkTmpPos(Chn), NEW e \in Slot, ProgramOf(tempos, tbl, p, e)
  PROVE  ProgramOf(tempos, tempotbl, p, e) /\ tempotbl[p + 1] = tbl[p + 1]
<1>1. \A q \in p .. e : q + 1 \in Slot /\ q + 1 > TrkTmpPos(Chn)
  BY ChnAssumption, TableAssumption, SMT DEF ProgramOf, Slot, TrkTmpPos
<1>2. \A q \in p .. e : tempotbl[q + 1] = tbl[q + 1]
  BY <1>1
<1>3. e \in p .. e /\ p \in p .. e /\ \A q \in p .. e - 1 : q \in p .. e
  BY SMT DEF ProgramOf, Slot
<1>. QED
  BY <1>2, <1>3 DEF ProgramOf

\* A program that all voices are led to is the program of each.
LEMMA ForAll ==
  ASSUME TypeOK', NEW tempos, NEW p \in Slot, NEW e \in Slot,
         (p = 0 /\ e <= 1) \/ p >= TrkTmpPos(Chn),
         AllTempo(p), ProgramOf(tempos, tempotbl', p, e)
  PROVE  /\ OwnPrograms(tempos)'
         /\ \A w \in Voice : Tempo(w)' = tempotbl'[p + 1]
         /\ p = e => Neg(tempotbl'[p + 1])
<1>1. \A w \in Voice : tmppos'[w] = p /\ tmpbase'[w] = p
  BY DEF AllTempo
<1>2. p # TableSize - 1 /\ (p = e => Neg(tempotbl'[p + 1]))
  BY TableAssumption, SMT DEF ProgramOf, Slot
<1>3. \A w \in Voice : InProgram(tempos, tempotbl', w, p, p)
  BY Starts
<1>. QED
  BY <1>1, <1>2, <1>3 DEF OwnPrograms, Tempo, NextSlot

\* What an effect does to the clock: nothing, or it holds the voice, or it leads the
\* voice to a tempo it may begin with, and the others, if any, to one flagged byte.
LEMMA OwnEffect ==
  ASSUME TypeOK, TypeOK', NEW tempos, NEW first, first \subseteq tempos,
         SongOf(tempos, first), OwnPrograms(tempos), ProgramsKept,
         NEW v \in Voice, NEW f \in RowFx \cup {<<NoFx, 0>>}, BigEffect(v, f[1], f[2])
  PROVE  \/ UNCHANGED clock
         \/ f[2] \in Byte /\ DelayTrack(v, f[2])
         \/ f \in RowFx /\ f[1] = NoteDelay /\ f[2] \in Byte /\ DelaySupport /\ DelayNote(v, f[2])
         \/ /\ UNCHANGED spdcnt
            /\ OwnPrograms(tempos)' /\ ProgramsKept' /\ Tempo(v)' % 128 \in first
            /\ \A w \in Voice : w # v =>
                 \/ Tempo(w)' = Tempo(w)
                 \/ /\ f \in RowFx /\ f[1] \in {MainTempo, Funktempo, Program} /\ Chn # 1
                    /\ Neg(Tempo(w)')
<1>. DEFINE n == f[1]
            a == f[2]
<1>1. /\ OwnFx(tempos, first, f) /\ a \in Byte
      /\ n \in {Program, TrackProgram} /\ a # 0 => TmpP[a] \in Slot
      /\ n # NoFx => f \in RowFx
  <2>1. CASE f = <<NoFx, 0>>
    <3>1. n = NoFx /\ a = 0
      BY <2>1
    <3>. QED
      BY <3>1, SmallBytes DEF OwnFx, NoFx, Program, TrackProgram
  <2>2. CASE f \in RowFx
    BY <2>2, SongAssumption DEF SongOf
  <2>. QED
    BY <2>1, <2>2
<1>. USE DEF MainTempo, NoFx, TrackTempo, TrackFunktempo, TrackProgram, TrackDelay, NoteDelay, Funktempo, Program
<1>2. PICK tbl \in Tables : \A q \in Slot : q > TrkTmpPos(Chn) => tempotbl[q] = tbl[q]
  BY DEF ProgramsKept
<1>3. /\ TrkTmpPos(Chn) \in Int /\ TrkTmpPos(Chn) >= 4
      /\ 0 \in Slot /\ 1 \in Slot /\ 2 \in Slot /\ 0 + 3 <= TableSize /\ 0 + 2 <= TableSize
  BY ChnAssumption, TableAssumption, SMT DEF TrkTmpPos, Slot
\* A single voice has no others.
<1>13. Chn = 1 => \A w \in Voice : w = v
  BY SMT DEF Voice
<1>4. CASE n = MainTempo /\ SetMainTempo(a)
  <2>1. a % 128 \in first /\ f \in RowFx
    BY <1>1, <1>4 DEF OwnFx
  <2>2. tempotbl' = [tempotbl EXCEPT ![1] = Flagged(a)] /\ AllTempo(0) /\ spdcnt' = spdcnt
    BY <1>4 DEF SetMainTempo
  <2>3. tempotbl'[0 + 1] = Flagged(a)
    BY <1>3, <2>2 DEF TypeOK
  <2>4. a \in Int
    BY <1>1, SMT DEF Byte
  <2>5. Neg(tempotbl'[0 + 1]) /\ tempotbl'[0 + 1] % 128 \in first
    BY <2>1, <2>3, <2>4, FlaggedByte
  <2>6. ProgramOf(tempos, tempotbl', 0, 0)
    BY <1>3, <2>5, OneByte
  <2>7. \A q \in Slot : q > TrkTmpPos(Chn) => tempotbl'[q] = tbl[q]
    BY <1>2, <1>3, <2>2 DEF TypeOK
  <2>8. ProgramsKept'
    BY <2>7 DEF ProgramsKept
  <2>9. OwnPrograms(tempos)' /\ \A w \in Voice : Tempo(w)' = tempotbl'[0 + 1]
    <3>. PICK p \in Slot : p = 0
      BY <1>3
    <3>1. AllTempo(p) /\ ProgramOf(tempos, tempotbl', p, p) /\ p = 0 /\ p <= 1
      BY <2>2, <2>6
    <3>. QED
      BY <3>1, ForAll
  <2>. QED
    BY <1>4, <1>13, <2>1, <2>2, <2>5, <2>8, <2>9
<1>12. CASE n = Funktempo /\ SetFunktempo(a)
  <2>. DEFINE hi == a \div 16
              lo == a % 16
  <2>1. hi \in first /\ lo \in tempos /\ Chn = 1
    BY <1>1, <1>12 DEF OwnFx
  <2>2. tempotbl' = [tempotbl EXCEPT ![1] = hi, ![2] = 128 + lo] /\ AllTempo(0) /\ spdcnt' = spdcnt
    BY <1>12 DEF SetFunktempo
  <2>3. hi \in 0 .. 15 /\ lo \in 0 .. 15
    BY <1>1, SMT DEF Byte
  <2>. HIDE DEF hi, lo
  <2>4. tempotbl'[0 + 1] = hi /\ tempotbl'[0 + 2] = 128 + lo
    BY <1>3, <2>2 DEF TypeOK
  <2>5. ProgramOf(tempos, tempotbl', 0, 1)
    <3>1. 0 + 1 = 1
      OBVIOUS
    <3>. QED
      BY <1>3, <2>1, <2>3, <2>4, <3>1, TwoBytes
  <2>6. \A q \in Slot : q > TrkTmpPos(Chn) => tempotbl'[q] = tbl[q]
    BY <1>2, <1>3, <2>2 DEF TypeOK
  <2>7. ProgramsKept'
    BY <2>6 DEF ProgramsKept
  <2>8. hi % 128 \in first
    <3>1. hi % 128 = hi
      BY <2>3, SMT
    <3>. QED
      BY <2>1, <3>1
  <2>9. OwnPrograms(tempos)' /\ \A w \in Voice : Tempo(w)' = tempotbl'[0 + 1]
    <3>. PICK p \in Slot, e \in Slot : p = 0 /\ e = 1
      BY <1>3
    <3>1. AllTempo(p) /\ ProgramOf(tempos, tempotbl', p, e) /\ p = 0 /\ e <= 1
      BY <2>2, <2>5
    <3>. QED
      BY <3>1, ForAll
  <2>. QED
    BY <1>13, <2>1, <2>2, <2>4, <2>7, <2>8, <2>9
<1>5. CASE n = Program /\ a # 0 /\ SetProgram(a)
  <2>. DEFINE p == TmpP[a]
  <2>1. /\ p >= TrkTmpPos(Chn) /\ f \in RowFx
        /\ \A tb \in Tables : \E e \in Slot :
             ProgramOf(tempos, tb, p, e) /\ tb[p + 1] % 128 \in first /\ (Chn = 1 \/ e = p)
    BY <1>1, <1>5 DEF OwnFx
  <2>2. AllTempo(p) /\ UNCHANGED <<tempotbl, spdcnt>> /\ p \in Slot
    BY <1>1, <1>5 DEF SetProgram
  <2>. HIDE DEF p
  <2>3. PICK e \in Slot :
          ProgramOf(tempos, tbl, p, e) /\ tbl[p + 1] % 128 \in first /\ (Chn = 1 \/ e = p)
    BY <2>1
  <2>4. ProgramOf(tempos, tempotbl', p, e) /\ tempotbl'[p + 1] % 128 \in first
    BY <1>2, <2>1, <2>2, <2>3, SongProgram
  <2>5. ProgramsKept'
    BY <2>2 DEF ProgramsKept
  <2>. QED
    BY <1>5, <1>13, <2>1, <2>2, <2>3, <2>4, <2>5, ForAll
<1>6. CASE n = TrackTempo /\ SetTrackTempo(v, a)
  <2>1. a % 128 \in first
    BY <1>1, <1>6 DEF OwnFx
  <2>2. a \in Int
    BY <1>1, SMT DEF Byte
  <2>3. Flagged(a) \in Byte /\ Neg(Flagged(a)) /\ Flagged(a) % 128 \in first
    BY <2>1, <2>2, FlaggedByte
  <2>. QED
    BY <1>6, <2>3, OwnTempoTracks DEF SetTrackTempo
<1>7. CASE n = TrackFunktempo /\ SetTrackFunktempo(v, a)
  <2>. DEFINE p == TrkTmpPos(v)
              hi == a \div 16
              lo == a % 16
  <2>1. hi \in first /\ lo \in tempos
    BY <1>1, <1>7 DEF OwnFx
  <2>2. /\ tempotbl' = [tempotbl EXCEPT ![p + 1] = hi, ![p + 2] = 128 + lo]
        /\ tmppos' = [tmppos EXCEPT ![v] = p] /\ tmpbase' = [tmpbase EXCEPT ![v] = p]
        /\ spdcnt' = spdcnt
    BY <1>7 DEF SetTrackFunktempo, OwnProgram
  <2>3. /\ p \in Slot /\ p + 1 \in Slot /\ p + 2 \in Slot /\ p + 3 <= TableSize
        /\ p + 1 # p + 2 /\ p + 1 <= p + 1 /\ p # TableSize - 1
    BY TrackSlots, Apart, TableAssumption, SMT DEF Slot
  <2>4. hi \in 0 .. 15 /\ lo \in 0 .. 15
    BY <1>1, SMT DEF Byte
  <2>. HIDE DEF p, hi, lo
  <2>5. tempotbl'[p + 1] = hi /\ tempotbl'[p + 2] = 128 + lo /\ tmppos'[v] = p /\ tmpbase'[v] = p
    BY <2>2, <2>3 DEF TypeOK
  <2>6. ProgramOf(tempos, tempotbl', p, p + 1)
    BY <2>1, <2>3, <2>4, <2>5, TwoBytes
  <2>7. InProgram(tempos, tempotbl', v, p, p)
    BY <2>3, <2>6, Starts DEF p
  <2>8. \A q \in Slot : q \notin {p + 1, p + 2} => tempotbl'[q] = tempotbl[q]
    BY <2>2 DEF TypeOK
  <2>9. \A w \in Voice : w # v => tmppos'[w] = tmppos[w] /\ tmpbase'[w] = tmpbase[w]
    BY <2>2 DEF TypeOK
  <2>10. \A q \in Slot : q \notin {TrkTmpPos(v) + 1, TrkTmpPos(v) + 2} => tempotbl'[q] = tempotbl[q]
    BY <2>8 DEF p
  <2>11. Tempo(v)' % 128 \in first
    <3>1. Tempo(v)' = hi
      BY <2>3, <2>5 DEF Tempo, NextSlot
    <3>2. hi % 128 = hi
      BY <2>4, SMT
    <3>. QED
      BY <2>1, <3>1, <3>2
  <2>. QED
    BY <2>2, <2>5, <2>7, <2>9, <2>10, <2>11, OwnStore
<1>8. CASE n = TrackProgram /\ a # 0 /\ SetTrackProgram(v, a)
  <2>. DEFINE p == TmpP[a]
  <2>1. /\ p >= TrkTmpPos(Chn)
        /\ \A tb \in Tables : \E e \in Slot : ProgramOf(tempos, tb, p, e) /\ tb[p + 1] % 128 \in first
    BY <1>1, <1>8 DEF OwnFx
  <2>2. /\ tmppos' = [tmppos EXCEPT ![v] = p] /\ tmpbase' = [tmpbase EXCEPT ![v] = p]
        /\ UNCHANGED <<tempotbl, spdcnt>> /\ p \in Slot
    BY <1>1, <1>8 DEF SetTrackProgram, OwnProgram
  <2>. HIDE DEF p
  <2>3. PICK e \in Slot : ProgramOf(tempos, tbl, p, e) /\ tbl[p + 1] % 128 \in first
    BY <2>1
  <2>7. ProgramOf(tempos, tempotbl, p, e) /\ tempotbl[p + 1] % 128 \in first
    BY <1>2, <2>1, <2>2, <2>3, SongProgram
  <2>4. InProgram(tempos, tempotbl', v, p, p)
    BY <2>1, <2>2, <2>7, Starts
  <2>5. tmppos'[v] = p /\ tmpbase'[v] = p
    BY <2>2 DEF TypeOK
  <2>6. \A w \in Voice : w # v => tmppos'[w] = tmppos[w] /\ tmpbase'[w] = tmpbase[w]
    BY <2>2 DEF TypeOK
  <2>8. Tempo(v)' % 128 \in first
    <3>1. p # TableSize - 1
      BY <2>2, <2>7, TableAssumption, SMT DEF ProgramOf, Slot
    <3>. QED
      BY <2>2, <2>5, <2>7, <3>1 DEF Tempo, NextSlot
  <2>. QED
    BY <2>2, <2>4, <2>5, <2>6, <2>8, OwnStore
<1>9. CASE n = TrackDelay /\ DelayTrack(v, a)
  BY <1>1, <1>9
<1>10. CASE n = NoteDelay /\ DelaySupport /\ DelayNote(v, a)
  BY <1>1, <1>10
<1>11. CASE UNCHANGED clock
  BY <1>11
<1>. QED
  BY <1>4, <1>5, <1>6, <1>7, <1>8, <1>9, <1>10, <1>11, <1>12 DEF BigEffect

\* A voice at tick 2 goes on, is held there, or catches up with the calls its
\* delay has held, which are fewer than any row's.
LEMMA TracksStart ==
  ASSUME TypeOK, TypeOK', TracksSong, TracksInv, StartNote
  PROVE  /\ OwnPrograms(Long)' /\ ProgramsKept'
         /\ \A w \in Voice : w # turn =>
              spdcnt'[w] = spdcnt[w] /\ (Tempo(w)' = Tempo(w) \/ Neg(Tempo(w)'))
         /\ \A w \in Voice : w = turn =>
              spdcnt'[w] >= 2 /\ spdcnt'[w] < 128 /\ spdcnt'[w] <= Tempo(w)' % 128
<1>. USE DEF TracksInv
<1>1. turn \in Voice /\ stage = "note" /\ spdcnt[turn] = 3
  BY DEF TypeOK, StartNote, StageTick
<1>. PICK t \in Voice : t = turn
  BY <1>1
<1>. DEFINE a == fx[t][2]
<1>2. \/ UNCHANGED clock
      \/ a \in Byte /\ DelayTrack(t, a)
      \/ fx[t] \in RowFx /\ fx[t][1] = NoteDelay /\ a \in Byte /\ DelaySupport /\ DelayNote(t, a)
      \/ /\ UNCHANGED spdcnt
         /\ OwnPrograms(Long)' /\ ProgramsKept'
         /\ \A w \in Voice : w # t => Tempo(w)' = Tempo(w) \/ Neg(Tempo(w)')
  <2>1. fx[t] \in RowFx \cup {<<NoFx, 0>>}
    BY DEF TypeOK
  <2>2. BigEffect(t, fx[t][1], fx[t][2])
    BY DEF StartNote
  <2>. QED
    BY <2>1, <2>2, OwnEffect DEF TracksSong
<1>3. ASSUME UNCHANGED <<tempotbl, tmppos, tmpbase>>
      PROVE  OwnPrograms(Long)' /\ ProgramsKept' /\ \A w \in Voice : Tempo(w)' = Tempo(w)
  BY <1>3 DEF OwnPrograms, ProgramsKept, Tempo
\* Three ticks fit into every tempo.
<1>4. ASSUME OwnPrograms(Long)', spdcnt'[t] \in {2, 3}
      PROVE  spdcnt'[t] >= 2 /\ spdcnt'[t] < 128 /\ spdcnt'[t] <= Tempo(t)' % 128
  <2>1. Tempo(t)' % 128 \in 3 .. 127
    BY <1>4, TracksTempoNext
  <2>. QED
    BY <1>4, <2>1
<1>5. CASE UNCHANGED clock
  <2>1. UNCHANGED <<tempotbl, tmppos, tmpbase, spdcnt>>
    BY <1>5 DEF clock
  <2>. QED
    BY <1>1, <1>3, <1>4, <2>1
<1>6. CASE /\ UNCHANGED spdcnt
           /\ OwnPrograms(Long)' /\ ProgramsKept'
           /\ \A w \in Voice : w # t => Tempo(w)' = Tempo(w) \/ Neg(Tempo(w)')
  BY <1>1, <1>4, <1>6
\* The voice is held at tick 2, or its delay of nothing left lets it go.
<1>7. ASSUME a \in Byte, Hold(t, a), UNCHANGED <<tempotbl, tmppos, tmpbase>>
      PROVE  /\ \A w \in Voice : w # t => spdcnt'[w] = spdcnt[w]
             /\ spdcnt'[t] \in {2, 3}
  BY <1>1, <1>7 DEF Hold, TypeOK
<1>8. CASE a \in Byte /\ DelayTrack(t, a)
  BY <1>3, <1>4, <1>7, <1>8 DEF DelayTrack
<1>9. CASE fx[t] \in RowFx /\ fx[t][1] = NoteDelay /\ a \in Byte /\ DelaySupport /\ DelayNote(t, a)
  <2>1. UNCHANGED <<tempotbl, tmppos, tmpbase>>
    BY <1>9 DEF DelayNote
  <2>2. CASE Hold(t, a)
    BY <1>3, <1>4, <1>7, <1>9, <2>1, <2>2
  <2>3. CASE CatchUp(t, a)
    <3>1. Tempo(t)' % 128 \in Long /\ Tempo(t)' % 128 \in 3 .. 127
      BY <1>3, <2>1, TracksTempoNext
    <3>2. a + 3 <= Tempo(t)' % 128
      BY <1>9, <3>1 DEF Long
    <3>3. spdcnt'[t] = (3 + a) % 256 /\ \A w \in Voice : w # t => spdcnt'[w] = spdcnt[w]
      BY <1>1, <2>3 DEF CatchUp, TypeOK
    <3>. DEFINE m == Tempo(t)' % 128
    <3>4. (3 + a) % 256 = 3 + a /\ 3 + a >= 2 /\ 3 + a < 128 /\ 3 + a <= m
      <4>1. a \in Byte /\ m \in 3 .. 127 /\ a + 3 <= m
        BY <1>9, <3>1, <3>2
      <4>. HIDE DEF a, m
      <4>. QED
        BY <4>1, SMT DEF Byte
    <3>. QED
      BY <1>3, <2>1, <3>3, <3>4
  <2>. QED
    BY <1>9, <2>2, <2>3 DEF DelayNote
<1>. QED
  BY <1>2, <1>5, <1>6, <1>8, <1>9

\* Starting a note, with whatever its effect does to the clocks, keeps the tracks.
LEMMA TracksStartNote ==
  ASSUME TypeOK, TypeOK', TracksSong, TracksInv, StartNote
  PROVE  TracksInv'
<1>. USE DEF TracksInv
<1>1. turn \in Voice /\ stage = "note" /\ spdcnt[turn] = 3 /\ ~ended[turn] /\ EndTurn
  BY DEF TypeOK, StartNote, StageTick
<1>2. /\ ended' = ended /\ seqtempo' = seqtempo
      /\ owed' = [owed EXCEPT ![turn] = owed[turn] \ {"note"}]
  BY DEF StartNote
<1>. PICK t \in Voice : t = turn
  BY <1>1
<1>3. /\ OwnPrograms(Long)' /\ ProgramsKept'
      /\ \A w \in Voice : w # t =>
           spdcnt'[w] = spdcnt[w] /\ (Tempo(w)' = Tempo(w) \/ Neg(Tempo(w)'))
      /\ spdcnt'[t] >= 2 /\ spdcnt'[t] < 128 /\ spdcnt'[t] <= Tempo(t)' % 128
  BY TracksStart
<1>4. NoStandstill' /\ CountsLow'
  BY <1>3, TracksNotPast DEF CountsLow
<1>5. DueTempos(Long)' /\ EndedAtTick1'
  BY <1>1, <1>2, <1>3, TurnTicks DEF DueTempos, EndedAtTick1
<1>6. OwedAtTick'
  <2>. SUFFICES ASSUME NEW w \in Voice, ~ended[w]
                PROVE  /\ spdcnt'[w] = 1 => owed'[w] = {"step", "note"}
                       /\ spdcnt'[w] = 2 => owed'[w] \subseteq {"note"}
                       /\ spdcnt'[w] \notin {1, 2} => owed'[w] = {}
    BY <1>1, <1>2, TurnTicks DEF OwedAtTick
  <2>1. CASE w = t
    <3>1. owed[w] \subseteq {"note"}
      BY <1>1, <2>1, TurnTicks DEF OwedAtTick
    <3>2. owed'[w] = {}
      BY <1>1, <1>2, <2>1, <3>1 DEF TypeOK
    <3>3. spdcnt'[w] # 1
      BY <1>3, <2>1
    <3>. QED
      BY <3>2, <3>3
  <2>2. CASE w # t
    <3>1. owed'[w] = owed[w] /\ Tick(w) = spdcnt[w] /\ spdcnt'[w] = spdcnt[w]
      BY <1>1, <1>2, <1>3, <2>2, TurnTicks DEF TypeOK
    <3>. QED
      BY <3>1 DEF OwedAtTick
  <2>. QED
    BY <2>1, <2>2
<1>. QED
  BY <1>1, <1>3, <1>4, <1>5, <1>6, TurnTicks

\* A subtune of a song starts in the subtune's own program.
LEMMA InitPrograms ==
  ASSUME TypeOK, NEW tempos, NEW first, SongOf(tempos, first), Init
  PROVE  OwnPrograms(tempos) /\ ProgramsKept
<1>1. PICK e \in {0, 1} : ProgramOf(tempos, tempotbl, 0, e)
  BY DEF Init, SongOf
<1>2. 0 \in Slot /\ e \in Slot /\ e <= 1
  BY <1>1, ChnAssumption, TableAssumption, SMT DEF Slot
<1>3. \A v \in Voice : InProgram(tempos, tempotbl, v, 0, 0)
  BY <1>1, <1>2, Starts
<1>4. \A v \in Voice : tmppos[v] = 0 /\ tmpbase[v] = 0
  BY DEF Init
<1>. QED
  BY <1>3, <1>4 DEF OwnPrograms, ProgramsKept, Init

\* A subtune of a song of long tempos starts with its voices in step.
LEMMA InitTracks ==
  ASSUME TypeOK, TracksSong, Init
  PROVE  TracksInv
<1>1. /\ stage = "frame" /\ turn \in Voice
      /\ \A v \in Voice : /\ spdcnt[v] = 0 /\ tmppos[v] = 0 /\ tmpbase[v] = 0
                          /\ seqtempo[v] = 0 /\ ended[v] = FALSE /\ owed[v] = {}
  BY DEF Init, TypeOK
<1>2. OwnPrograms(Long) /\ ProgramsKept
  BY InitPrograms DEF TracksSong
<1>3. NoStandstill
  <2>. SUFFICES ASSUME NEW v \in Voice PROVE 0 <= Tempo(v)
    BY <1>1 DEF NoStandstill
  <2>1. Tempo(v) \in Byte
    BY <1>2, TempoOf DEF TypeOK, OwnPrograms, Tempo
  <2>. QED
    BY <2>1, SMT DEF Byte
<1>5. CountsLow /\ DueTempos(Long) /\ EndedAtTick1 /\ StageTick
  BY <1>1 DEF CountsLow, DueTempos, EndedAtTick1, StageTick
<1>6. OwedAtTick
  BY <1>1 DEF OwedAtTick, Tick
<1>. QED
  BY <1>2, <1>3, <1>5, <1>6 DEF TracksInv

-----------------------------------------------------------------------------
(* What such a song is still promised.                                      *)

\* The invariant gives every property of the tracks run.
LEMMA TracksImplies ==
  ASSUME TypeOK, TracksInv
  PROVE  NoStandstill /\ ProgramBounded /\ RowsComplete /\ StepOnce /\ EndHolds
<1>. USE DEF TracksInv
<1>1. turn \in Voice /\ (stage # "frame" => Tick(turn) = spdcnt[turn] - 1)
  BY DEF TypeOK, Tick
<1>2. ProgramBounded
  <2>. SUFFICES ASSUME NEW v \in Voice
                PROVE  \E e \in Slot : IsProgram(tmpbase[v], e) /\ tmppos[v] \in tmpbase[v] .. e
    BY DEF ProgramBounded
  <2>. QED
    BY DEF OwnPrograms, InProgram, ProgramOf, IsProgram
<1>3. RowsComplete
  BY <1>1 DEF RowsComplete, StageTick, OwedAtTick
<1>4. StepOnce
  BY <1>1 DEF StepOnce, StageTick, OwedAtTick
<1>5. EndHolds
  BY DEF EndHolds, StageTick
<1>. QED
  BY <1>2, <1>3, <1>4, <1>5

\* A song whose voices have tempos of their own keeps every voice inside a
\* program of its own and every counter below the end its byte asks for.
THEOREM TracksInvariant ==
  ASSUME TracksSong
  PROVE  Spec => []TracksInv
<1>1. TypeOK /\ Init => TracksInv
  BY InitTracks
<1>2. TypeOK /\ TypeOK' /\ TracksInv /\ [Next]_vars => TracksInv'
  <2>. SUFFICES ASSUME TypeOK, TypeOK', TracksInv, [Next]_vars
                PROVE  TracksInv'
    OBVIOUS
  <2>1. CASE Frame
    BY <2>1, TracksFrame
  <2>2. CASE ReadRow
    BY <2>2, TracksReadRow
  <2>3. CASE PatternGoesOn
    BY <2>3, TracksPattern
  <2>4. CASE TrackEnds
    BY <2>4, TracksTrackEnds
  <2>5. CASE StartNote
    BY <2>5, TracksStartNote
  <2>6. CASE UNCHANGED vars
    BY <2>6 DEF vars, clock, song, TracksInv, OwnPrograms, NoStandstill, Tempo, ProgramsKept,
                CountsLow, DueTempos, EndedAtTick1, Tick, StageTick, OwedAtTick
  <2>. QED
    BY <2>1, <2>2, <2>3, <2>4, <2>5, <2>6 DEF Next
<1>. QED
  BY <1>1, <1>2, TypeCorrect, PTL DEF Spec

\* No voice of such a song stands still: a counter is never past a byte that
\* only equality meets, whatever tempo another voice gives it in mid-row.
THEOREM TracksNoStandstill ==
  ASSUME TracksSong
  PROVE  Spec => []NoStandstill
  BY TypeCorrect, TracksInvariant, TracksImplies, PTL

\* No voice of such a song runs past the end of its tempo program, although
\* every voice stores tempos of its own into the one table.
THEOREM TracksProgramBounded ==
  ASSUME TracksSong
  PROVE  Spec => []ProgramBounded
  BY TypeCorrect, TracksInvariant, TracksImplies, PTL

\* Such a song loses no step and no note to a tempo or a delay.
THEOREM TracksRows ==
  ASSUME TracksSong
  PROVE  Spec => []RowsComplete
  BY TypeCorrect, TracksInvariant, TracksImplies, PTL

\* Such a song steps a row once, however its voice was held.
THEOREM TracksStepsOnce ==
  ASSUME TracksSong
  PROVE  Spec => []StepOnce
  BY TypeCorrect, TracksInvariant, TracksImplies, PTL

\* A track of such a song that has met its $FE reads no further row.
THEOREM TracksEndHolds ==
  ASSUME TracksSong
  PROVE  Spec => []EndHolds
  BY TypeCorrect, TracksInvariant, TracksImplies, PTL

-----------------------------------------------------------------------------
(* Bound songs: what the compare does to a counter that an effect may have   *)
(* led past its tempo, and what the ticks of a short row owe.                *)

\* The tempos of a bound song, and those an effect may begin with: only a row of
\* one tick follows a row of one tick that is under way.
LEMMA BoundTempos ==
  ASSUME BoundSong
  PROVE  \E first \in SUBSET ShortTempos :
           /\ SongOf(ShortTempos, first)
           /\ 1 \in ShortTempos => first = {1}
           /\ ShortTempos \subseteq 1 .. 127
<1>1. CASE SongOf(2 .. 127, 2 .. 127)
  <2>1. ShortTempos = 2 .. 127
    BY <1>1 DEF ShortTempos
  <2>. QED
    BY <1>1, <2>1
<1>2. CASE ~SongOf(2 .. 127, 2 .. 127)
  <2>1. ShortTempos = 1 .. 127 /\ SongOf(1 .. 127, {1})
    BY <1>2 DEF ShortTempos, BoundSong
  <2>2. {1} \in SUBSET (1 .. 127)
    OBVIOUS
  <2>. QED
    BY <2>1, <2>2
<1>. QED
  BY <1>1, <1>2

\* The byte a voice of such a song compares with.
LEMMA BoundTempo ==
  ASSUME TypeOK, BoundSong, OwnPrograms(ShortTempos), NEW v \in Voice
  PROVE  Tempo(v) \in Byte /\ Ticks(v) \in 1 .. 127 /\ Ticks(v) \in ShortTempos
<1>1. Tempo(v) \in Byte /\ Tempo(v) % 128 \in ShortTempos
  BY TempoOf DEF TypeOK, OwnPrograms, Tempo
<1>. QED
  BY <1>1, BoundTempos DEF Ticks

\* The same after a step.
LEMMA BoundTempoNext ==
  ASSUME TypeOK', BoundSong, OwnPrograms(ShortTempos)', NEW v \in Voice
  PROVE  Tempo(v)' \in Byte /\ Ticks(v)' \in 1 .. 127 /\ Ticks(v)' \in ShortTempos
<1>1. Tempo(v)' \in Byte /\ Tempo(v)' % 128 \in ShortTempos
  BY OwnTempoNext
<1>. QED
  BY <1>1, BoundTempos DEF Ticks

\* The compare of a counter that may be past an unflagged byte, up to the first
\* value on which it overflows.
LEMMA CompareTurn ==
  ASSUME NEW s \in 0 .. 128, NEW t \in Byte, t % 128 \in 1 .. 127, s = 128 => ~Neg(t)
  PROVE  LET d == (s - t) % 256
             due == d = 0 \/ (Neg(s) # Neg(t) /\ Neg(s) # Neg(d))
         IN  /\ due <=> IF Neg(t) THEN t % 128 <= s ELSE s = t \/ s = 128
             /\ d = 0 => ~Neg(t)
  BY SMTT(20) DEF Byte, Neg

\* What the clock does to such a voice: the row is over, once its ticks are, or the
\* handler of the next tick follows.
LEMMA BoundCount ==
  ASSUME TypeOK, BoundSong, BoundInv, Frame, NEW t \in Voice, t = turn
  PROVE  /\ \/ tmppos' = [tmppos EXCEPT ![t] = tmpbase[t]]
            \/ tmppos' = tmppos
            \/ ~Neg(Tempo(t)) /\ tmppos' = [tmppos EXCEPT ![t] = NextSlot(tmppos[t])]
         /\ \/ /\ spdcnt[t] = 0 \/ Ticks(t) <= spdcnt[t]
               /\ spdcnt' = [spdcnt EXCEPT ![t] = 1] /\ GoOn("row")
            \/ /\ tmppos' = tmppos /\ spdcnt' = [spdcnt EXCEPT ![t] = spdcnt[t] + 1]
               /\ \/ spdcnt[t] = 1 /\ Ticks(t) > 1 /\ GoOn("step")
                  \/ spdcnt[t] = 2 /\ (Ticks(t) = 1 \/ Ticks(t) > 2) /\ GoOn("note")
                  \/ spdcnt[t] \in 3 .. 127 /\ (spdcnt[t] = 127 => ~Neg(Tempo(t))) /\ EndTurn
<1>. DEFINE s == spdcnt[t]
            m == Ticks(t)
<1>1. /\ s \in 0 .. 128 /\ (s = 128 => ~Neg(Tempo(t)))
      /\ Tempo(t) \in Byte /\ m \in 1 .. 127
  BY BoundTempo DEF BoundInv, CountTurns
<1>2. /\ Due(t) <=> IF Neg(Tempo(t)) THEN m <= s ELSE s = Tempo(t) \/ s = 128
      /\ Diff(t) = 0 => ~Neg(Tempo(t))
  <2>. DEFINE b == Tempo(t)
  <2>1. s \in 0 .. 128 /\ b \in Byte /\ b % 128 \in 1 .. 127 /\ (s = 128 => ~Neg(b)) /\ m = b % 128
    BY <1>1 DEF Ticks
  <2>2. /\ Due(t) <=> (s - b) % 256 = 0 \/ (Neg(s) # Neg(b) /\ Neg(s) # Neg((s - b) % 256))
        /\ Diff(t) = (s - b) % 256
    BY DEF Due, Diff, Overflow
  <2>. HIDE DEF s, b, m
  <2>3. /\ (s - b) % 256 = 0 \/ (Neg(s) # Neg(b) /\ Neg(s) # Neg((s - b) % 256))
             <=> IF Neg(b) THEN b % 128 <= s ELSE s = b \/ s = 128
        /\ (s - b) % 256 = 0 => ~Neg(b)
    BY <2>1, CompareTurn
  <2>. QED
    BY <2>1, <2>2, <2>3 DEF b
<1>3. ~Neg(Tempo(t)) => m = Tempo(t)
  BY <1>1, SMT DEF Ticks, Neg, Byte
<1>4. \/ tmppos' = [tmppos EXCEPT ![t] = tmpbase[t]]
      \/ tmppos' = tmppos
      \/ ~Neg(Tempo(t)) /\ tmppos' = [tmppos EXCEPT ![t] = NextSlot(tmppos[t])]
  BY <1>2 DEF Frame, TypeOK
<1>5. CASE Due(t) \/ s = 0
  <2>1. spdcnt' = [spdcnt EXCEPT ![t] = 1] /\ GoOn("row")
    BY <1>5 DEF Frame
  <2>2. s = 0 \/ m <= s
    BY <1>1, <1>2, <1>3, <1>5
  <2>. QED
    BY <1>4, <2>1, <2>2
<1>6. CASE ~Due(t) /\ s # 0
  <2>1. /\ tmppos' = tmppos /\ spdcnt' = [spdcnt EXCEPT ![t] = (s + 1) % 256]
        /\ \/ (s = 1 \/ Neg(s)) /\ GoOn("step")
           \/ s = 2 /\ GoOn("note")
           \/ s \in 3 .. 127 /\ EndTurn
    BY <1>2, <1>6 DEF Frame, TypeOK, Due
  <2>2. /\ Neg(Tempo(t)) => ~(m <= s)
        /\ ~Neg(Tempo(t)) => s # m /\ s # 128
    BY <1>2, <1>3, <1>6
  <2>. HIDE DEF s, m
  <2>3. (s + 1) % 256 = s + 1 /\ ~Neg(s)
    BY <1>1, <2>2, SMT DEF Neg
  <2>4. /\ s = 1 => m > 1
        /\ s = 2 => m = 1 \/ m > 2
        /\ s = 127 => ~Neg(Tempo(t))
    BY <1>1, <2>2
  <2>. QED
    BY <2>1, <2>3, <2>4 DEF s, m
<1>. QED
  BY <1>5, <1>6

\* Counting the call keeps a bound song's rows.
LEMMA BoundFrame ==
  ASSUME TypeOK, TypeOK', BoundSong, BoundInv, Frame
  PROVE  BoundInv'
<1>1. /\ turn \in Voice /\ stage = "frame"
      /\ tempotbl' = tempotbl /\ tmpbase' = tmpbase /\ seqtempo' = seqtempo
      /\ ended' = ended /\ owed' = owed
  BY DEF TypeOK, Frame, song
<1>. PICK t \in Voice : t = turn
  BY <1>1
<1>2. /\ \/ tmppos' = [tmppos EXCEPT ![t] = tmpbase[t]]
         \/ tmppos' = tmppos
         \/ ~Neg(Tempo(t)) /\ tmppos' = [tmppos EXCEPT ![t] = NextSlot(tmppos[t])]
      /\ \/ /\ spdcnt[t] = 0 \/ Ticks(t) <= spdcnt[t]
            /\ spdcnt' = [spdcnt EXCEPT ![t] = 1] /\ GoOn("row")
         \/ /\ tmppos' = tmppos /\ spdcnt' = [spdcnt EXCEPT ![t] = spdcnt[t] + 1]
            /\ \/ spdcnt[t] = 1 /\ Ticks(t) > 1 /\ GoOn("step")
               \/ spdcnt[t] = 2 /\ (Ticks(t) = 1 \/ Ticks(t) > 2) /\ GoOn("note")
               \/ spdcnt[t] \in 3 .. 127 /\ (spdcnt[t] = 127 => ~Neg(Tempo(t))) /\ EndTurn
  BY BoundCount
<1>3. spdcnt[t] \in 0 .. 128 /\ Ticks(t) \in 1 .. 127
  BY BoundTempo DEF BoundInv, CountTurns
<1>4. \A w \in Voice : w # t => spdcnt'[w] = spdcnt[w] /\ tmppos'[w] = tmppos[w] /\ Tempo(w)' = Tempo(w)
  BY <1>1, <1>2 DEF TypeOK, Tempo
<1>5. OwnPrograms(ShortTempos)'
  <2>1. \/ tmppos'[t] = tmppos[t]
        \/ tmppos'[t] = tmpbase[t]
        \/ ~Neg(Tempo(t)) /\ tmppos'[t] = NextSlot(tmppos[t])
    BY <1>2 DEF TypeOK
  <2>2. OwnPrograms(ShortTempos)
    BY DEF BoundInv
  <2>. QED
    BY <1>1, <1>4, <2>1, <2>2, ProgramGoesOn
<1>6. ProgramsKept' /\ DueTempos(ShortTempos)'
  BY <1>1 DEF BoundInv, ProgramsKept, DueTempos
<1>7. tmppos' = tmppos => Tempo(t)' = Tempo(t) /\ Ticks(t)' = Ticks(t)
  BY <1>1 DEF Tempo, Ticks
<1>8. \A w \in Voice : w # t => Ticks(w)' = Ticks(w)
  BY <1>4 DEF Ticks
\* What the row that is over, or the one that goes on, is owed.
<1>9. RowOwed(t)
  BY <1>1 DEF BoundInv
<1>10. \A w \in Voice : w # t => CountTurns(w)' /\ RowOwed(w)'
  BY <1>1, <1>4, <1>8 DEF BoundInv, CountTurns, RowOwed
<1>12. CASE /\ spdcnt[t] = 0 \/ Ticks(t) <= spdcnt[t]
            /\ spdcnt' = [spdcnt EXCEPT ![t] = 1] /\ GoOn("row")
  <2>1. spdcnt'[t] = 1 /\ stage' = "row" /\ turn' = t
    BY <1>1, <1>12 DEF TypeOK, GoOn
  <2>2. ended[t] \/ owed[t] = {}
    BY <1>3, <1>9, <1>12 DEF RowOwed
  <2>3. BoundStage'
    BY <1>1, <2>1, <2>2 DEF BoundStage
  <2>4. CountTurns(t)'
    BY <2>1 DEF CountTurns
  <2>. QED
    BY <1>5, <1>6, <1>10, <2>1, <2>3, <2>4 DEF BoundInv
<1>13. CASE /\ tmppos' = tmppos /\ spdcnt' = [spdcnt EXCEPT ![t] = spdcnt[t] + 1]
            /\ spdcnt[t] = 1 /\ Ticks(t) > 1 /\ GoOn("step")
  <2>1. spdcnt'[t] = 2 /\ stage' = "step" /\ turn' = t /\ Ticks(t)' # 1
    BY <1>1, <1>3, <1>7, <1>13 DEF TypeOK, GoOn
  <2>2. ended[t] \/ owed[t] = {"step", "note"}
    BY <1>3, <1>9, <1>13 DEF RowOwed
  <2>3. BoundStage'
    BY <1>1, <2>1, <2>2 DEF BoundStage
  <2>4. CountTurns(t)'
    BY <2>1 DEF CountTurns
  <2>. QED
    BY <1>5, <1>6, <1>10, <2>1, <2>3, <2>4 DEF BoundInv
<1>14. CASE /\ tmppos' = tmppos /\ spdcnt' = [spdcnt EXCEPT ![t] = spdcnt[t] + 1]
            /\ spdcnt[t] = 2 /\ (Ticks(t) = 1 \/ Ticks(t) > 2) /\ GoOn("note")
  <2>1. spdcnt'[t] = 3 /\ stage' = "note" /\ turn' = t
    BY <1>1, <1>14 DEF TypeOK, GoOn
  <2>2. ~ended[t] /\ owed[t] \subseteq {"note"}
    BY <1>3, <1>9, <1>14 DEF RowOwed
  <2>3. BoundStage'
    BY <1>1, <2>1, <2>2 DEF BoundStage
  <2>4. CountTurns(t)'
    BY <2>1 DEF CountTurns
  <2>. QED
    BY <1>5, <1>6, <1>10, <2>1, <2>3, <2>4 DEF BoundInv
<1>15. CASE /\ tmppos' = tmppos /\ spdcnt' = [spdcnt EXCEPT ![t] = spdcnt[t] + 1]
            /\ spdcnt[t] \in 3 .. 127 /\ (spdcnt[t] = 127 => ~Neg(Tempo(t))) /\ EndTurn
  <2>1. spdcnt'[t] = spdcnt[t] + 1 /\ stage' = "frame" /\ Tempo(t)' = Tempo(t)
    BY <1>1, <1>7, <1>15 DEF TypeOK, EndTurn
  <2>2. spdcnt'[t] \in 4 .. 128 /\ (spdcnt'[t] = 128 => ~Neg(Tempo(t)'))
    BY <1>15, <2>1
  <2>3. ~ended[t] /\ owed[t] = {}
    BY <1>3, <1>9, <1>15 DEF RowOwed
  <2>4. BoundStage'
    BY <2>1 DEF BoundStage
  <2>5. CountTurns(t)' /\ RowOwed(t)'
    BY <1>1, <2>2, <2>3 DEF CountTurns, RowOwed
  <2>. QED
    BY <1>5, <1>6, <1>10, <2>4, <2>5 DEF BoundInv
<1>. QED
  BY <1>2, <1>12, <1>13, <1>14, <1>15

\* The other voices' rows are as they were when a turn leaves them alone.
LEMMA BoundOthers ==
  ASSUME TypeOK, TypeOK', BoundInv, NEW t \in Voice, t = turn,
         \A w \in Voice : w # t =>
           /\ spdcnt'[w] = spdcnt[w] /\ Tempo(w)' = Tempo(w)
           /\ ended'[w] = ended[w] /\ owed'[w] = owed[w]
  PROVE  \A w \in Voice : w # t => CountTurns(w)' /\ RowOwed(w)'
<1>1. \A w \in Voice : w # t => Ticks(w)' = Ticks(w)
  BY DEF Ticks
<1>. QED
  BY <1>1 DEF BoundInv, CountTurns, RowOwed

\* A handler whose row is longer ends the turn, any other leads to the next.
LEMMA BoundTo ==
  ASSUME BoundSong, NEW next, NEW limit, BindTo(next, limit), NEW t \in Voice, t = turn
  PROVE  \/ Ticks(t)' < limit /\ stage' = next /\ turn' = t
         \/ ~(Ticks(t)' < limit) /\ stage' = "frame"
<1>1. Ticks(t)' = tempotbl'[NextSlot(tmppos'[turn])] % 128
  BY DEF Ticks, Tempo
<1>2. FastSpeedBind
  BY DEF BoundSong
<1>. QED
  BY <1>1, <1>2 DEF BindTo, GoOn, EndTurn

\* Reading a row owes it its step and its note.
LEMMA BoundReadRow ==
  ASSUME TypeOK, TypeOK', BoundSong, BoundInv, ReadRow
  PROVE  BoundInv'
<1>1. turn \in Voice /\ stage = "row" /\ spdcnt' = spdcnt
  BY DEF TypeOK, ReadRow
<1>. PICK t \in Voice : t = turn
  BY <1>1
<1>2. /\ spdcnt'[t] = 1 /\ ended'[t] = FALSE /\ owed'[t] = {"step", "note"}
      /\ \A w \in Voice : w # t => ended'[w] = ended[w] /\ owed'[w] = owed[w]
  BY <1>1 DEF TypeOK, BoundInv, BoundStage, ReadRow
<1>3. OwnPrograms(ShortTempos)' /\ ProgramsKept' /\ \A w \in Voice : w # t => Tempo(w)' = Tempo(w)
  <2>1. CASE seqtempo[t] = 0
    <3>1. UNCHANGED <<tempotbl, tmppos, tmpbase>>
      BY <2>1 DEF ReadRow
    <3>. QED
      BY <3>1 DEF BoundInv, OwnPrograms, ProgramsKept, Tempo
  <2>2. CASE seqtempo[t] # 0
    <3>. DEFINE a == Flagged(seqtempo[t])
    <3>1. OwnTempo(t, a)
      BY <2>2 DEF ReadRow
    <3>2. seqtempo[t] \in 0 .. 77 /\ seqtempo[t] \in ShortTempos
      BY <2>2 DEF TypeOK, BoundInv, DueTempos
    <3>3. a \in Byte /\ Neg(a) /\ a % 128 = seqtempo[t] % 128 /\ seqtempo[t] % 128 = seqtempo[t]
      BY <3>2, FlaggedByte, SMT
    <3>4. a % 128 \in ShortTempos
      BY <3>2, <3>3
    <3>. QED
      BY <3>1, <3>3, <3>4, OwnTempoTracks DEF BoundInv
  <2>. QED
    BY <2>1, <2>2
<1>4. Ticks(t)' \in 1 .. 127
  BY <1>3, BoundTempoNext
<1>5. \/ Ticks(t)' = 1 /\ stage' = "step" /\ turn' = t
      \/ Ticks(t)' # 1 /\ stage' = "frame"
  <2>1. BindTo("step", 2)
    BY DEF ReadRow
  <2>. QED
    BY <1>4, <2>1, BoundTo
<1>6. \A w \in Voice : w # t => CountTurns(w)' /\ RowOwed(w)'
  BY <1>1, <1>2, <1>3, BoundOthers
<1>7. CountTurns(t)'
  BY <1>2 DEF CountTurns
<1>8. BoundStage'
  BY <1>2, <1>5 DEF BoundStage
<1>9. stage' = "frame" => RowOwed(t)'
  BY <1>2, <1>4, <1>5 DEF RowOwed
<1>10. DueTempos(ShortTempos)'
  BY DEF BoundInv, ReadRow, DueTempos, TypeOK
<1>. QED
  BY <1>3, <1>5, <1>6, <1>7, <1>8, <1>9, <1>10 DEF BoundInv

\* Stepping the pattern leaves a longer row its note.
LEMMA BoundPattern ==
  ASSUME TypeOK, TypeOK', BoundSong, BoundInv, PatternGoesOn
  PROVE  BoundInv'
<1>1. /\ turn \in Voice /\ stage = "step" /\ ~ended[turn]
      /\ UNCHANGED <<tempotbl, tmppos, tmpbase, spdcnt, ended>>
  BY DEF TypeOK, PatternGoesOn, clock
<1>. PICK t \in Voice : t = turn
  BY <1>1
<1>2. /\ spdcnt'[t] = (IF Ticks(t) = 1 THEN 1 ELSE 2)
      /\ ~ended'[t] /\ owed'[t] = {"note"}
      /\ \A w \in Voice : w # t => owed'[w] = owed[w]
  BY <1>1 DEF TypeOK, BoundInv, BoundStage, PatternGoesOn
<1>3. /\ OwnPrograms(ShortTempos)' /\ ProgramsKept'
      /\ \A w \in Voice : Tempo(w)' = Tempo(w) /\ Ticks(w)' = Ticks(w)
  BY <1>1 DEF BoundInv, OwnPrograms, ProgramsKept, Tempo, Ticks
<1>4. Ticks(t)' \in 1 .. 127
  BY <1>3, BoundTempoNext
<1>5. \/ Ticks(t)' < 3 /\ stage' = "note" /\ turn' = t
      \/ ~(Ticks(t)' < 3) /\ stage' = "frame"
  BY BoundTo DEF PatternGoesOn
<1>6. \A w \in Voice : w # t => CountTurns(w)' /\ RowOwed(w)'
  BY <1>1, <1>2, <1>3, BoundOthers
<1>7. CountTurns(t)'
  BY <1>2 DEF CountTurns
<1>8. BoundStage'
  BY <1>2, <1>3, <1>5 DEF BoundStage
<1>9. stage' = "frame" => RowOwed(t)'
  BY <1>2, <1>3, <1>4, <1>5 DEF RowOwed
<1>10. DueTempos(ShortTempos)'
  BY BoundTempos, OrderTempos DEF BoundInv, PatternGoesOn
<1>. QED
  BY <1>3, <1>5, <1>6, <1>7, <1>8, <1>9, <1>10 DEF BoundInv

\* A track that ends keeps to the call it ended in.
LEMMA BoundTrackEnds ==
  ASSUME TypeOK, TypeOK', BoundSong, BoundInv, TrackEnds
  PROVE  BoundInv'
<1>1. /\ turn \in Voice /\ stage = "step" /\ stage' = "frame"
      /\ UNCHANGED <<tempotbl, tmppos, tmpbase, owed>>
  BY DEF TypeOK, TrackEnds, EndTurn
<1>. PICK t \in Voice : t = turn
  BY <1>1
<1>2. spdcnt[t] \in {1, 2}
  BY <1>1 DEF BoundInv, BoundStage
<1>3. /\ spdcnt'[t] \in {0, 1} /\ ended'[t] = TRUE
      /\ \A w \in Voice : w # t => spdcnt'[w] = spdcnt[w] /\ ended'[w] = ended[w]
  BY <1>2 DEF TypeOK, TrackEnds, TakeBack
<1>4. OwnPrograms(ShortTempos)' /\ ProgramsKept' /\ \A w \in Voice : Tempo(w)' = Tempo(w)
  BY <1>1 DEF BoundInv, OwnPrograms, ProgramsKept, Tempo
<1>5. \A w \in Voice : w # t => CountTurns(w)' /\ RowOwed(w)'
  BY <1>1, <1>3, <1>4, BoundOthers
<1>6. CountTurns(t)'
  BY <1>3 DEF CountTurns
<1>7. BoundStage'
  BY <1>1 DEF BoundStage
<1>8. RowOwed(t)'
  BY <1>3 DEF RowOwed
<1>9. DueTempos(ShortTempos)'
  BY BoundTempos, OrderTempos DEF BoundInv, TrackEnds
<1>. QED
  BY <1>1, <1>4, <1>5, <1>6, <1>7, <1>8, <1>9 DEF BoundInv

\* An effect leaves the other voices of a bound song alone, and its own voice in a
\* row of one tick only if it was in one.
LEMMA BoundStart ==
  ASSUME TypeOK, TypeOK', BoundSong, BoundInv, StartNote
  PROVE  /\ OwnPrograms(ShortTempos)' /\ ProgramsKept'
         /\ \A w \in Voice : w # turn => spdcnt'[w] = spdcnt[w] /\ Tempo(w)' = Tempo(w)
         /\ \A w \in Voice : w = turn =>
              spdcnt'[w] \in 1 .. 127 /\ (spdcnt'[w] = 1 => Ticks(w)' = 1)
<1>1. turn \in Voice /\ stage = "note"
  BY DEF TypeOK, StartNote
<1>. PICK t \in Voice : t = turn
  BY <1>1
<1>. DEFINE a == fx[t][2]
<1>2. spdcnt[t] \in {1, 2, 3} /\ (spdcnt[t] = 1 => Ticks(t) = 1)
  BY <1>1 DEF BoundInv, BoundStage
<1>3. PICK first \in SUBSET ShortTempos :
        SongOf(ShortTempos, first) /\ (1 \in ShortTempos => first = {1})
  BY BoundTempos
<1>4. \/ UNCHANGED clock
      \/ a \in Byte /\ DelayTrack(t, a)
      \/ fx[t] \in RowFx /\ fx[t][1] = NoteDelay /\ a \in Byte /\ DelaySupport /\ DelayNote(t, a)
      \/ /\ UNCHANGED spdcnt
         /\ OwnPrograms(ShortTempos)' /\ ProgramsKept' /\ Tempo(t)' % 128 \in first
         /\ \A w \in Voice : w # t => Tempo(w)' = Tempo(w)
  <2>1. fx[t] \in RowFx \cup {<<NoFx, 0>>}
    BY DEF TypeOK
  <2>2. BigEffect(t, fx[t][1], fx[t][2])
    BY DEF StartNote
  <2>3. ~(fx[t] \in RowFx /\ fx[t][1] \in {MainTempo, Funktempo, Program} /\ Chn # 1)
    BY DEF BoundSong
  <2>. QED
    BY <1>3, <2>1, <2>2, <2>3, OwnEffect DEF BoundInv
<1>5. ASSUME UNCHANGED <<tempotbl, tmppos, tmpbase>>
      PROVE  /\ OwnPrograms(ShortTempos)' /\ ProgramsKept'
             /\ \A w \in Voice : Tempo(w)' = Tempo(w) /\ Ticks(w)' = Ticks(w)
  BY <1>5 DEF BoundInv, OwnPrograms, ProgramsKept, Tempo, Ticks
<1>6. CASE UNCHANGED clock
  <2>1. UNCHANGED <<tempotbl, tmppos, tmpbase, spdcnt>>
    BY <1>6 DEF clock
  <2>. QED
    BY <1>2, <1>5, <2>1
<1>7. CASE /\ UNCHANGED spdcnt
           /\ OwnPrograms(ShortTempos)' /\ ProgramsKept' /\ Tempo(t)' % 128 \in first
           /\ \A w \in Voice : w # t => Tempo(w)' = Tempo(w)
  <2>1. spdcnt[t] = 1 => 1 \in ShortTempos
    <3>1. Ticks(t) \in ShortTempos
      BY BoundTempo DEF BoundInv
    <3>. QED
      BY <1>2, <3>1
  <2>2. spdcnt[t] = 1 => Ticks(t)' = 1
    BY <1>3, <1>7, <2>1 DEF Ticks
  <2>. QED
    BY <1>2, <1>7, <2>2
\* The voice is held at tick 2, or its delay of nothing left lets it go.
<1>8. ASSUME Hold(t, a), UNCHANGED <<tempotbl, tmppos, tmpbase>>
      PROVE  /\ \A w \in Voice : w # t => spdcnt'[w] = spdcnt[w]
             /\ spdcnt'[t] \in {2, spdcnt[t]}
  BY <1>8 DEF Hold, TypeOK
<1>9. CASE a \in Byte /\ DelayTrack(t, a)
  BY <1>2, <1>5, <1>8, <1>9 DEF DelayTrack
<1>10. CASE fx[t] \in RowFx /\ fx[t][1] = NoteDelay /\ a \in Byte /\ DelaySupport /\ DelayNote(t, a)
  <2>1. UNCHANGED <<tempotbl, tmppos, tmpbase>>
    BY <1>10 DEF DelayNote
  <2>2. CASE Hold(t, a)
    BY <1>2, <1>5, <1>8, <2>1, <2>2
  <2>3. CASE CatchUp(t, a)
    <3>1. a + 3 <= 127
      BY <1>10 DEF BoundSong
    <3>2. spdcnt'[t] = (spdcnt[t] + a) % 256 /\ \A w \in Voice : w # t => spdcnt'[w] = spdcnt[w]
      BY <2>3 DEF CatchUp, TypeOK
    <3>3. spdcnt'[t] \in 1 .. 127 /\ (spdcnt'[t] = 1 => spdcnt[t] = 1)
      <4>. DEFINE s == spdcnt[t]
      <4>1. a \in Byte /\ s \in {1, 2, 3} /\ a + 3 <= 127
        BY <1>2, <1>10, <3>1
      <4>. HIDE DEF a, s
      <4>2. (s + a) % 256 = s + a /\ s + a \in 1 .. 127 /\ (s + a = 1 => s = 1)
        BY <4>1, SMT DEF Byte
      <4>. QED
        BY <3>2, <4>2 DEF s
    <3>. QED
      BY <1>2, <1>5, <2>1, <3>2, <3>3
  <2>. QED
    BY <1>10, <2>2, <2>3 DEF DelayNote
<1>. QED
  BY <1>4, <1>6, <1>7, <1>9, <1>10

\* Starting a note, with whatever its effect does to the clocks, keeps the rows.
LEMMA BoundStartNote ==
  ASSUME TypeOK, TypeOK', BoundSong, BoundInv, StartNote
  PROVE  BoundInv'
<1>1. /\ turn \in Voice /\ stage = "note" /\ stage' = "frame"
      /\ ended' = ended /\ seqtempo' = seqtempo
  BY DEF TypeOK, StartNote, EndTurn
<1>. PICK t \in Voice : t = turn
  BY <1>1
<1>2. ~ended[t] /\ owed[t] \subseteq {"note"}
  BY <1>1 DEF BoundInv, BoundStage
<1>3. owed'[t] = {} /\ \A w \in Voice : w # t => owed'[w] = owed[w]
  BY <1>2 DEF TypeOK, StartNote
<1>4. /\ OwnPrograms(ShortTempos)' /\ ProgramsKept'
      /\ \A w \in Voice : w # t => spdcnt'[w] = spdcnt[w] /\ Tempo(w)' = Tempo(w)
      /\ spdcnt'[t] \in 1 .. 127 /\ (spdcnt'[t] = 1 => Ticks(t)' = 1)
  BY BoundStart
<1>5. \A w \in Voice : w # t => CountTurns(w)' /\ RowOwed(w)'
  BY <1>1, <1>3, <1>4, BoundOthers
<1>6. CountTurns(t)'
  BY <1>4 DEF CountTurns
<1>7. BoundStage'
  BY <1>1 DEF BoundStage
<1>8. RowOwed(t)'
  BY <1>1, <1>2, <1>3, <1>4 DEF RowOwed
<1>9. DueTempos(ShortTempos)'
  BY <1>1 DEF BoundInv, DueTempos
<1>. QED
  BY <1>1, <1>4, <1>5, <1>6, <1>7, <1>8, <1>9 DEF BoundInv

\* A subtune of a bound song starts with nothing owed.
LEMMA InitBound ==
  ASSUME TypeOK, BoundSong, Init
  PROVE  BoundInv
<1>1. OwnPrograms(ShortTempos) /\ ProgramsKept
  BY BoundTempos, InitPrograms
<1>2. /\ stage = "frame"
      /\ \A v \in Voice : spdcnt[v] = 0 /\ seqtempo[v] = 0 /\ ended[v] = FALSE /\ owed[v] = {}
  BY DEF Init
<1>. QED
  BY <1>1, <1>2 DEF BoundInv, DueTempos, CountTurns, BoundStage, RowOwed

-----------------------------------------------------------------------------
(* What a bound song is promised.                                           *)

\* The invariant gives every property of the fast run but the one of its liveness.
LEMMA BoundImplies ==
  ASSUME BoundInv
  PROVE  RowsComplete /\ StepOnce /\ ProgramBounded
<1>1. RowsComplete /\ StepOnce
  BY DEF BoundInv, BoundStage, RowsComplete, StepOnce
<1>2. ProgramBounded
  BY DEF BoundInv, OwnPrograms, InProgram, ProgramOf, IsProgram, ProgramBounded
<1>. QED
  BY <1>1, <1>2

\* In a song whose short rows are bound to one call, a handler comes in the call of
\* its tick or in that of its row's last, and a row that is over is owed nothing.
THEOREM BoundInvariant ==
  ASSUME BoundSong
  PROVE  Spec => []BoundInv
<1>1. TypeOK /\ Init => BoundInv
  BY InitBound
<1>2. TypeOK /\ TypeOK' /\ BoundInv /\ [Next]_vars => BoundInv'
  <2>. SUFFICES ASSUME TypeOK, TypeOK', BoundInv, [Next]_vars
                PROVE  BoundInv'
    OBVIOUS
  <2>1. CASE Frame
    BY <2>1, BoundFrame
  <2>2. CASE ReadRow
    BY <2>2, BoundReadRow
  <2>3. CASE PatternGoesOn
    BY <2>3, BoundPattern
  <2>4. CASE TrackEnds
    BY <2>4, BoundTrackEnds
  <2>5. CASE StartNote
    BY <2>5, BoundStartNote
  <2>6. CASE UNCHANGED vars
    BY <2>6 DEF vars, clock, song, BoundInv, OwnPrograms, ProgramsKept, DueTempos, CountTurns,
                Tempo, Ticks, BoundStage, RowOwed
  <2>. QED
    BY <2>1, <2>2, <2>3, <2>4, <2>5, <2>6 DEF Next
<1>. QED
  BY <1>1, <1>2, TypeCorrect, PTL DEF Spec

\* A bound song loses no step and no note, although a row of one or two ticks is
\* over before the ticks of its step and its note have come.
THEOREM BoundRows ==
  ASSUME BoundSong
  PROVE  Spec => []RowsComplete
  BY BoundInvariant, BoundImplies, PTL

\* A bound song steps a row once, whether the row's tick or the bind led there.
THEOREM BoundStepsOnce ==
  ASSUME BoundSong
  PROVE  Spec => []StepOnce
  BY BoundInvariant, BoundImplies, PTL

\* No voice of a bound song runs past the end of its tempo program, although an
\* effect may lead its counter past its tempo.
THEOREM BoundProgramBounded ==
  ASSUME BoundSong
  PROVE  Spec => []ProgramBounded
  BY BoundInvariant, BoundImplies, PTL
=============================================================================
