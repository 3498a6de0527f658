---------------------------- MODULE ScoreProofs ----------------------------
(***************************************************************************)
(* The player plays the score: every step of the sequencer is a step of      *)
(* Score, or none of it.                                                    *)
(***************************************************************************)
EXTENDS SequencerProofs

\* What the theorem supposes beyond SongsFit: no song rests on a command that
\* the player passes over.
SongsAsWritten == \A s \in Songs : AsWritten(s)

-----------------------------------------------------------------------------
(* What a step changes of the score's variables is its voice's.              *)

Seen(u) == <<Place(u), Heard(u), Sung(u), Shift(u), Key(u), Pace(u), dpitch[u], curins[u], trktempo[u]>>

\* What the score says of another voice stays.
LEMMA OthersSeen ==
  ASSUME TypeOK, NEW v \in Voice, VoiceNext(v), NEW u \in Voice, u # v
  PROVE  UNCHANGED Seen(u)
<1>1. UNCHANGED Cells(u)
  BY OthersKept
<1>2. walker # u /\ walker' # u
  BY OwnTurn, NobodyAssumption
<1>3. UNCHANGED Place(u)
  BY <1>1, <1>2 DEF Cells, Place
<1>4. UNCHANGED Heard(u)
  BY <1>1 DEF Cells, Heard
<1>5. UNCHANGED <<Sung(u), Shift(u), Pace(u), dpitch[u], curins[u], trktempo[u]>>
  BY <1>1 DEF Cells, Sung, Shift, Pace
<1>6. UNCHANGED Key(u)
  BY <1>1, <1>2 DEF Cells, Key
<1> QED  BY <1>3, <1>4, <1>5, <1>6 DEF Seen

\* So the score's variables change in the place of the voice whose step it is.
LEMMA OwnSeen ==
  ASSUME TypeOK, NEW v \in Voice, VoiceNext(v)
  PROVE  /\ UNCHANGED song
         /\ atBar' = [atBar EXCEPT ![v] = Place(v)']
         /\ heardBar' = [heardBar EXCEPT ![v] = Heard(v)']
         /\ sungBar' = [sungBar EXCEPT ![v] = Sung(v)']
         /\ shiftBar' = [shiftBar EXCEPT ![v] = Shift(v)']
         /\ keyBar' = [keyBar EXCEPT ![v] = Key(v)']
         /\ paceBar' = [paceBar EXCEPT ![v] = Pace(v)']
         /\ pitchBar' = [pitchBar EXCEPT ![v] = Signed(dpitch'[v])]
<1>1. ASSUME NEW u \in Voice, u # v
      PROVE  UNCHANGED <<Place(u), Heard(u), Sung(u), Shift(u), Key(u), Pace(u), dpitch[u]>>
  BY <1>1, OthersSeen DEF Seen
<1>2. UNCHANGED song
  BY OwnTurn DEF memory
<1>3. atBar' = [atBar EXCEPT ![v] = Place(v)']
  BY <1>1 DEF atBar
<1>4. heardBar' = [heardBar EXCEPT ![v] = Heard(v)']
  BY <1>1 DEF heardBar
<1>5. sungBar' = [sungBar EXCEPT ![v] = Sung(v)']
  BY <1>1 DEF sungBar
<1>6. shiftBar' = [shiftBar EXCEPT ![v] = Shift(v)']
  BY <1>1 DEF shiftBar
<1>7. keyBar' = [keyBar EXCEPT ![v] = Key(v)']
  BY <1>1 DEF keyBar
<1>8. paceBar' = [paceBar EXCEPT ![v] = Pace(v)']
  BY <1>1 DEF paceBar
<1>9. pitchBar' = [pitchBar EXCEPT ![v] = Signed(dpitch'[v])]
  BY <1>1 DEF pitchBar
<1> QED  BY <1>2, <1>3, <1>4, <1>5, <1>6, <1>7, <1>8, <1>9

\* What the score says of a voice.
LEMMA SeenOf ==
  ASSUME NEW v \in Voice
  PROVE  /\ atBar[v] = Place(v) /\ heardBar[v] = Heard(v) /\ sungBar[v] = Sung(v) /\ shiftBar[v] = Shift(v)
         /\ keyBar[v] = Key(v) /\ paceBar[v] = Pace(v) /\ pitchBar[v] = Signed(dpitch[v])
         /\ [atBar EXCEPT ![v] = atBar[v]] = atBar
         /\ [heardBar EXCEPT ![v] = heardBar[v]] = heardBar
         /\ [sungBar EXCEPT ![v] = sungBar[v]] = sungBar
         /\ [shiftBar EXCEPT ![v] = shiftBar[v]] = shiftBar
         /\ [keyBar EXCEPT ![v] = keyBar[v]] = keyBar
         /\ [paceBar EXCEPT ![v] = paceBar[v]] = paceBar
         /\ [pitchBar EXCEPT ![v] = pitchBar[v]] = pitchBar
<1>1. /\ atBar[v] = Place(v) /\ heardBar[v] = Heard(v) /\ shiftBar[v] = Shift(v)
      /\ keyBar[v] = Key(v) /\ paceBar[v] = Pace(v) /\ pitchBar[v] = Signed(dpitch[v])
  BY DEF atBar, heardBar, sungBar, shiftBar, keyBar, paceBar, pitchBar
<1>2. sungBar[v] = Sung(v)
  BY DEF sungBar
<1>3. /\ [atBar EXCEPT ![v] = atBar[v]] = atBar
      /\ [heardBar EXCEPT ![v] = heardBar[v]] = heardBar
      /\ [shiftBar EXCEPT ![v] = shiftBar[v]] = shiftBar
      /\ [keyBar EXCEPT ![v] = keyBar[v]] = keyBar
      /\ [paceBar EXCEPT ![v] = paceBar[v]] = paceBar
      /\ [pitchBar EXCEPT ![v] = pitchBar[v]] = pitchBar
  BY DEF atBar, heardBar, sungBar, shiftBar, keyBar, paceBar, pitchBar
<1>4. [sungBar EXCEPT ![v] = sungBar[v]] = sungBar
  BY DEF sungBar
<1> QED  BY <1>1, <1>2, <1>3, <1>4

-----------------------------------------------------------------------------
(* Steps the score does not have.                                           *)

\* Nothing the score says changes.
LEMMA Silent ==
  ASSUME TypeOK, NEW v \in Voice, VoiceNext(v),
         UNCHANGED <<Place(v), Heard(v), Sung(v), Shift(v), Key(v), Pace(v), dpitch[v]>>,
         UNCHANGED <<curins, trktempo, seqvolu, mainvol>>
  PROVE  UNCHANGED Music!vars
<1>1. /\ UNCHANGED <<song, curins, trktempo, seqvolu, mainvol>>
      /\ UNCHANGED <<atBar, heardBar, sungBar, shiftBar, keyBar, paceBar, pitchBar>>
  BY OwnSeen, SeenOf
<1> QED  BY <1>1 DEF Music!vars

\* The subtune's first pattern.
LEMMA StartPatternSilent ==
  ASSUME TypeOK, NEW v \in Voice, VoiceInv(v), StartPattern(v)
  PROVE  UNCHANGED Music!vars
<1>1. VoiceNext(v)
  BY DEF VoiceNext, Start
<1>2. /\ stage[v] = "start" /\ stage'[v] = "row" /\ walker' = Nobody
      /\ UNCHANGED <<seqt, seqpos, over, row, rowno, dpitch, transp, transp2, seqtempo>>
      /\ UNCHANGED <<curins, trktempo, seqvolu, mainvol>>
  BY DEF StartPattern, TypeOK, cursor, voiced, delayed, applied
<1>3. UNCHANGED <<Place(v), Heard(v), Sung(v), Shift(v), Key(v), Pace(v), dpitch[v]>>
  BY <1>2, NobodyAssumption DEF Place, Heard, Sung, Shift, Key, Pace
<1> QED  BY <1>1, <1>2, <1>3, Silent

\* A step to the next row: the delayed transpose is the row's already.
LEMMA NextRowSilent ==
  ASSUME TypeOK, NEW v \in Voice, RunHolds(v) \/ NextRow(v), over[v] = 0
  PROVE  UNCHANGED Music!vars
<1>1. VoiceNext(v)
  BY DEF VoiceNext, PatternStep
<1>2. /\ stage[v] = "step" /\ stage'[v] = "note" /\ walker = Nobody /\ walker' = Nobody
      /\ transp'[v] = transp2[v]
      /\ UNCHANGED <<seqt, seqpos, over, row, rowno, dpitch, transp2, seqtempo>>
      /\ UNCHANGED <<curins, trktempo, seqvolu, mainvol>>
  BY DEF RunHolds, NextRow, Step, TypeOK, orders, voiced, delayed
<1>3. UNCHANGED <<Place(v), Heard(v), Sung(v), Shift(v), Key(v), Pace(v), dpitch[v]>>
  BY <1>2, NobodyAssumption DEF Place, Heard, Sung, Shift, Key, Pace
<1> QED  BY <1>1, <1>2, <1>3, Silent

\* The walk has found its pattern, which the score is at already.
LEMMA WalkPatternSilent ==
  ASSUME TypeOK, NEW v \in Voice, WalkPattern(v), over[v] = 0
  PROVE  UNCHANGED Music!vars
<1>1. VoiceNext(v)
  BY DEF VoiceNext, PatternStep, WalkStep
<1>2. /\ stage[v] = "step" /\ stage'[v] = "note" /\ walker = v /\ walker' = Nobody
      /\ seqpos'[v] = y /\ rowno'[v] = 0
      /\ UNCHANGED <<seqt, over, row, dpitch, transp, transp2, seqtempo>>
      /\ UNCHANGED <<curins, trktempo, seqvolu, mainvol>>
  BY DEF WalkPattern, Walk, FromTheTop, TypeOK, voiced, delayed, applied
<1>3. UNCHANGED <<Place(v), Heard(v), Sung(v), Shift(v), Key(v), Pace(v), dpitch[v]>>
  BY <1>2, NobodyAssumption DEF Place, Heard, Sung, Shift, Key, Pace
<1> QED  BY <1>1, <1>2, <1>3, Silent

\* A track that is over finds its end again at every step.
LEMMA OverSilent ==
  ASSUME TypeOK, NEW v \in Voice, PatternEnds(v) \/ WalkEnd(v) \/ WalkEffect(v), over[v] # 0, over'[v] = over[v],
         seqvolu' = seqvolu
  PROVE  UNCHANGED Music!vars
<1>1. VoiceNext(v)
  BY DEF VoiceNext, PatternStep, WalkStep
<1>2. UNCHANGED <<seqt, dpitch, curins, trktempo, mainvol>>
  BY DEF PatternEnds, Step, WalkEnd, WalkEffect, Walk, orders, voiced, applied
<1>3. UNCHANGED <<Place(v), Heard(v), Sung(v), Shift(v), Key(v), Pace(v), dpitch[v]>>
  BY <1>2 DEF Place, Heard, Sung, Shift, Key, Pace
<1> QED  BY <1>1, <1>2, <1>3, Silent

-----------------------------------------------------------------------------
(* Between patterns.                                                        *)

\* The score's place and the command there.
LEMMA CommandIs ==
  ASSUME NEW v \in Voice
  PROVE  Music!Command(v) = song.orders[Place(v).sub][v][Place(v).cmd]
BY SeenOf DEF Music!Command

\* The pattern is over: the score passes on with the walk's first position.
LEMMA PatternEndsPasses ==
  ASSUME Loaded, TypeOK, NEW v \in Voice, VoiceInv(v), PatternEnds(v), over[v] = 0
  PROVE  Music!PatternOver(v)
<1>1. VoiceNext(v)
  BY DEF VoiceNext, PatternStep
<1>2. rowno[v] = Len(Rows(v)) /\ Here(v)
  BY PatternEndsHolds
<1>3. /\ stage[v] = "step" /\ stage'[v] = "step" /\ walker = Nobody /\ walker' = v /\ walker # v
      /\ transp'[v] = transp2[v] /\ y' = seqpos[v] + 1
      /\ UNCHANGED <<seqt, seqpos, over, row, rowno, dpitch, transp2, seqtempo>>
      /\ UNCHANGED <<curins, trktempo, seqvolu, mainvol>>
  BY NobodyAssumption DEF PatternEnds, Step, TypeOK, orders, voiced, delayed
<1>4. /\ Place(v) = [sub |-> seqt[v], cmd |-> seqpos[v] + 1, row |-> rowno[v]]
      /\ Place(v)' = [sub |-> seqt[v], cmd |-> y' + 1, row |-> 0]
  BY <1>3 DEF Place
<1>5. UNCHANGED <<Heard(v), Sung(v), Shift(v), Key(v), Pace(v), dpitch[v]>>
  BY <1>3 DEF Heard, Sung, Shift, Key, Pace
<1>6. Music!Command(v) = Cmd("play", curptn[v])
  BY <1>2, <1>4, CommandIs DEF Here, Cmds
<1>7. Music!PatternRows(v) = Rows(v)
  BY <1>6 DEF Music!PatternRows, Cmd, Rows
<1>8. Music!Past(v)
  <2>1. atBar[v].sub = seqt[v] /\ atBar[v].cmd = seqpos[v] + 1
    BY <1>4, SeenOf
  <2>2. atBar' = [atBar EXCEPT ![v] = [sub |-> seqt[v], cmd |-> (seqpos[v] + 1) + 1, row |-> 0]]
    BY <1>1, <1>3, <1>4, OwnSeen
  <2> QED  BY <2>1, <2>2 DEF Music!Past, Music!GoTo
<1>9. UNCHANGED <<song, heardBar, sungBar, shiftBar, keyBar, paceBar, pitchBar>>
  BY <1>1, <1>5, OwnSeen, SeenOf
<1>10. Music!Command(v).op = "play" /\ atBar[v].row = Len(Music!PatternRows(v))
  BY <1>2, <1>4, <1>6, <1>7, SeenOf DEF Cmd
<1> QED  BY <1>3, <1>8, <1>9, <1>10 DEF Music!PatternOver

\* An orderlist byte does what its command says.
LEMMA EffectSays ==
  ASSUME TypeOK, NEW v \in Voice, NEW a \in 128 .. 253, NEW c, Says(c, a), OrderEffect(v, a),
         c.op = "raw" => SeqTempoCapped, over[v] = 0, over'[v] = 0
  PROVE  \/ c.op = "transpose" /\ Shift(v)' = c.arg /\ UNCHANGED <<Pace(v), seqvolu>>
         \/ c.op = "volume" /\ seqvolu' = c.arg /\ UNCHANGED <<Shift(v), Pace(v)>>
         \/ c.op = "tempo" /\ Pace(v)' = c.arg /\ UNCHANGED <<Shift(v), seqvolu>>
         \/ c.op = "raw" /\ UNCHANGED <<Shift(v), Pace(v), seqvolu>>
<1>1. transp2 \in [Voice -> Byte] /\ seqtempo \in [Voice -> 0 .. 77]
  BY DEF TypeOK
<1>2. /\ transp2' = IF a < 160 THEN [transp2 EXCEPT ![v] = (a - 144) % 256] ELSE transp2
      /\ seqvolu' = IF a \in 160 .. 175 THEN a % 16 ELSE seqvolu
      /\ seqtempo' = IF a >= 176 /\ (a < 240 \/ ~SeqTempoCapped)
                       THEN [seqtempo EXCEPT ![v] = a - 176] ELSE seqtempo
  BY DEF OrderEffect
<1>3. CASE c.op = "transpose"
  <2>1. a \in 128 .. 159 /\ c.arg = a - 144
    BY <1>3 DEF Says
  <2>2. Signed((a - 144) % 256) = a - 144
    BY <2>1 DEF Signed
  <2>3. transp2'[v] = (a - 144) % 256 /\ seqvolu' = seqvolu /\ seqtempo' = seqtempo
    BY <1>1, <1>2, <2>1
  <2> QED  BY <1>3, <2>1, <2>2, <2>3 DEF Shift, Pace
<1>4. CASE c.op = "volume"
  <2>1. a \in 160 .. 175 /\ c.arg = a - 160 /\ a % 16 = a - 160
    BY <1>4 DEF Says
  <2>2. transp2' = transp2 /\ seqvolu' = c.arg /\ seqtempo' = seqtempo
    BY <1>2, <2>1
  <2> QED  BY <1>4, <2>2 DEF Shift, Pace
<1>5. CASE c.op = "tempo"
  <2>1. a \in 176 .. 239 /\ c.arg = a - 176
    BY <1>5 DEF Says
  <2>2. transp2' = transp2 /\ seqvolu' = seqvolu /\ seqtempo'[v] = c.arg
    BY <1>1, <1>2, <2>1
  <2> QED  BY <1>5, <2>2 DEF Shift, Pace
<1>6. CASE c.op = "raw"
  <2>1. a \in 240 .. 253 /\ SeqTempoCapped
    BY <1>6 DEF Says
  <2>2. transp2' = transp2 /\ seqvolu' = seqvolu /\ seqtempo' = seqtempo
    BY <1>2, <2>1
  <2> QED  BY <1>6, <2>2 DEF Shift, Pace
<1> QED  BY <1>3, <1>4, <1>5, <1>6 DEF Says

\* So the score passes its command.
LEMMA EffectPasses ==
  ASSUME TypeOK, NEW v \in Voice, VoiceNext(v), NEW a \in 128 .. 253, NEW p \in Nat,
         Says(Cmds(v)[p + 1], a), OrderEffect(v, a), Cmds(v)[p + 1].op = "raw" => SeqTempoCapped,
         over[v] = 0, over'[v] = 0,
         Place(v) = [sub |-> seqt[v], cmd |-> p + 1, row |-> 0],
         Place(v)' = [sub |-> seqt[v], cmd |-> p + 2, row |-> 0],
         UNCHANGED <<Heard(v), Sung(v), Key(v), dpitch[v]>>, UNCHANGED <<curins, trktempo, mainvol>>
  PROVE  Music!Transpose(v) \/ Music!MainVolume(v) \/ Music!TempoOverride(v) \/ Music!NoOp(v)
<1> DEFINE c == Cmds(v)[p + 1]
<1>1. Music!Command(v) = c
  BY CommandIs DEF Cmds
<1>2. Music!Past(v)
  <2>1. atBar[v].sub = seqt[v] /\ atBar[v].cmd = p + 1 /\ p + 2 = (p + 1) + 1
    BY SeenOf
  <2>2. atBar' = [atBar EXCEPT ![v] = [sub |-> seqt[v], cmd |-> p + 2, row |-> 0]]
    BY OwnSeen
  <2> QED  BY <2>1, <2>2 DEF Music!Past, Music!GoTo
<1>3. UNCHANGED <<song, heardBar, sungBar, keyBar, pitchBar, curins, trktempo, mainvol>>
  BY OwnSeen, SeenOf
<1> HIDE DEF c
<1>4. /\ shiftBar' = [shiftBar EXCEPT ![v] = Shift(v)'] /\ paceBar' = [paceBar EXCEPT ![v] = Pace(v)']
      /\ UNCHANGED Shift(v) => UNCHANGED shiftBar
      /\ UNCHANGED Pace(v) => UNCHANGED paceBar
  BY OwnSeen, SeenOf
<1>5. \/ c.op = "transpose" /\ Shift(v)' = c.arg /\ UNCHANGED <<Pace(v), seqvolu>>
      \/ c.op = "volume" /\ seqvolu' = c.arg /\ UNCHANGED <<Shift(v), Pace(v)>>
      \/ c.op = "tempo" /\ Pace(v)' = c.arg /\ UNCHANGED <<Shift(v), seqvolu>>
      \/ c.op = "raw" /\ UNCHANGED <<Shift(v), Pace(v), seqvolu>>
  BY EffectSays DEF c
<1>6. CASE c.op = "transpose" /\ Shift(v)' = c.arg /\ UNCHANGED <<Pace(v), seqvolu>>
  BY <1>1, <1>2, <1>3, <1>4, <1>6 DEF Music!Transpose
<1>7. CASE c.op = "volume" /\ seqvolu' = c.arg /\ UNCHANGED <<Shift(v), Pace(v)>>
  BY <1>1, <1>2, <1>3, <1>4, <1>7 DEF Music!MainVolume
<1>8. CASE c.op = "tempo" /\ Pace(v)' = c.arg /\ UNCHANGED <<Shift(v), seqvolu>>
  BY <1>1, <1>2, <1>3, <1>4, <1>8 DEF Music!TempoOverride
<1>9. CASE c.op = "raw" /\ UNCHANGED <<Shift(v), Pace(v), seqvolu>>
  BY <1>1, <1>2, <1>3, <1>4, <1>9 DEF Music!NoOp
<1> QED  BY <1>5, <1>6, <1>7, <1>8, <1>9

\* What SongsAsWritten says of a voice's orderlist.
LEMMA WrittenSo ==
  ASSUME SongsAsWritten, Memory, Loaded, NEW v \in Voice, seqt[v] \in DOMAIN song.orders
  PROVE  /\ ~AtEnd(v) => Cmds(v)[E(v) - 1].op = "play"
         /\ \A k \in 1 .. E(v) - 1 :
              /\ AtEnd(v) /\ Cmds(v)[k].op = "volume" => \E p \in k .. E(v) - 1 : Cmds(v)[p].op = "play"
              /\ Cmds(v)[k].op = "raw" => SeqTempoCapped
<1> DEFINE cmds == song.orders[seqt[v]][v]
           e == Ending(cmds)
<1>1. AsWritten(song) /\ Cmds(v) = cmds /\ E(v) = e
  BY DEF SongsAsWritten, Memory, Cmds, E
<1>2. /\ cmds[e].op \in {"loop", "jump"} => cmds[e - 1].op = "play"
      /\ \A k \in 1 .. e - 1 :
           /\ cmds[e].op = "end" /\ cmds[k].op = "volume" => \E p \in k .. e - 1 : cmds[p].op = "play"
           /\ cmds[k].op = "raw" => SeqTempoCapped
  BY <1>1 DEF AsWritten
<1>3. cmds[e].op \in Ends
  <2>1. Playable(cmds) /\ cmds \in Seq(Command)
    BY DEF Loaded, Listed
  <2> HIDE DEF cmds
  <2> QED  BY <2>1, EndingIs
<1> HIDE DEF e, cmds
<1> QED  BY <1>1, <1>2, <1>3 DEF AtEnd, Ends

\* An effect before the first pattern.
LEMMA StartEffectPasses ==
  ASSUME SongsAsWritten, Memory, Loaded, TypeOK, NEW v \in Voice, VoiceInv(v), StartEffect(v)
  PROVE  Music!Transpose(v) \/ Music!MainVolume(v) \/ Music!TempoOverride(v) \/ Music!NoOp(v)
<1> DEFINE p == seqpos[v]
           a == OrderByte(v, p)
<1>1. VoiceNext(v)
  BY DEF VoiceNext, Start
<1>2. /\ stage[v] = "start" /\ stage' = stage /\ a \in 128 .. 253 /\ OrderEffect(v, a)
      /\ seqpos'[v] = p + 1
      /\ UNCHANGED <<seqt, over, row, rowno, dpitch, transp>> /\ UNCHANGED <<curins, trktempo, mainvol>>
  BY DEF StartEffect, TypeOK, cursor, voiced, applied
<1>3. p \in Nat /\ over[v] = 0 /\ over'[v] = 0 /\ rowno[v] = 0 /\ seqt[v] \in DOMAIN song.orders
  <2>1. p \in 0 .. 255
    BY DEF TypeOK, Byte
  <2>2. over[v] = 0 /\ rowno[v] = 0 /\ seqt[v] \in DOMAIN song.orders
    BY <1>2 DEF VoiceInv, CursorInv, OrderInv
  <2> QED  BY <1>2, <2>1, <2>2
<1>4. p < E(v)
  <2>1. ~NoPlay(v, p + 1)
    BY <1>2 DEF VoiceInv, OrderInv
  <2>2. PICK k \in p + 1 .. E(v) - 1 : TRUE
    BY <2>1 DEF NoPlay
  <2>3. E(v) \in Nat
    <3>1. E(v) \in 1 .. 256
      BY ZenonT(30), <1>3, StartsWithPlay DEF E, Cmds
    <3> QED  BY <3>1
  <2> QED  BY <1>3, <2>2, <2>3
<1>5. p + 1 < E(v) /\ E(v) \in 1 .. 256 /\ Says(Cmds(v)[p + 1], a)
  BY <1>2, <1>3, <1>4, EffectAt
<1>6. Cmds(v)[p + 1].op = "raw" => SeqTempoCapped
  <2>1. p + 1 \in 1 .. E(v) - 1
    BY <1>3, <1>5
  <2> QED  BY <1>3, <2>1, WrittenSo
<1>7. /\ Place(v) = [sub |-> seqt[v], cmd |-> p + 1, row |-> 0]
      /\ Place(v)' = [sub |-> seqt[v], cmd |-> (p + 1) + 1, row |-> 0]
  BY <1>2, <1>3 DEF Place
<1>8. (p + 1) + 1 = p + 2
  BY <1>3
<1>9. UNCHANGED <<Heard(v), Sung(v), Key(v), dpitch[v]>>
  BY <1>2, <1>3 DEF Heard, Sung, Key
<1> HIDE DEF p, a
<1> QED  BY <1>1, <1>2, <1>3, <1>5, <1>6, <1>7, <1>8, <1>9, EffectPasses

\* An effect of the walk: the walk goes on past it, and a track that is over has
\* no volume left to pass.
LEMMA WalkEffectPasses ==
  ASSUME SongsAsWritten, Memory, Loaded, TypeOK, NEW v \in Voice, VoiceInv(v), WalkEffect(v)
  PROVE  \/ Music!Transpose(v) \/ Music!MainVolume(v) \/ Music!TempoOverride(v) \/ Music!NoOp(v)
         \/ UNCHANGED Music!vars
<1> DEFINE a == OrderByte(v, y)
           c == Cmds(v)[y + 1]
<1>1. VoiceNext(v)
  BY DEF VoiceNext, PatternStep, WalkStep
<1>2. /\ walker = v /\ stage[v] = "step" /\ a \in 128 .. 253 /\ OrderEffect(v, a) /\ over' = over
      /\ UNCHANGED <<seqt, row, dpitch, transp>> /\ UNCHANGED <<curins, trktempo, mainvol>>
      /\ IF OrderByte(v, y + 1) = 255 THEN FromTheTop(v) ELSE WalkGoesOn(y + 1)
  BY DEF WalkEffect, Walk, FromTheTop, WalkGoesOn, orders, voiced, applied
<1>3. /\ y \in 0 .. 255 /\ seqpos[v] \in 0 .. 255 /\ seqt[v] \in DOMAIN song.orders /\ y < E(v)
      /\ over[v] # 0 => OverInv(v) /\ seqpos[v] < y
  BY <1>2, WalkStands
<1>4. y \in Nat
  BY <1>3
<1>5. /\ y + 1 < E(v) /\ E(v) \in 1 .. 256 /\ Says(c, a) /\ c.op # "play"
      /\ OrderByte(v, y + 1) = 255 <=> y + 2 = E(v) /\ ~AtEnd(v)
  BY <1>2, <1>3, <1>4, EffectAt
<1>6. y + 1 \in 1 .. E(v) - 1
  BY <1>4, <1>5
<1>7. /\ ~AtEnd(v) => Cmds(v)[E(v) - 1].op = "play"
      /\ AtEnd(v) /\ c.op = "volume" => \E p \in y + 1 .. E(v) - 1 : Cmds(v)[p].op = "play"
      /\ c.op = "raw" => SeqTempoCapped
  BY <1>3, <1>6, WrittenSo
<1>8. WalkGoesOn(y + 1)
  <2>1. y + 2 = E(v) => y + 1 = E(v) - 1
    BY <1>4, <1>5
  <2> QED  BY <1>2, <1>5, <1>7, <2>1
<1>9. CASE over[v] = 0
  <2>1. y' = y + 1 /\ walker' = v /\ stage'[v] = "step"
    BY <1>2, <1>8 DEF WalkGoesOn
  <2>2. /\ Place(v) = [sub |-> seqt[v], cmd |-> y + 1, row |-> 0]
        /\ Place(v)' = [sub |-> seqt[v], cmd |-> (y + 1) + 1, row |-> 0]
    BY <1>2, <1>9, <2>1 DEF Place
  <2>3. (y + 1) + 1 = y + 2
    BY <1>4
  <2>4. UNCHANGED <<Heard(v), Sung(v), Key(v), dpitch[v]>>
    BY <1>2, <1>9, <2>1 DEF Heard, Sung, Key
  <2>5. over[v] = 0 /\ over'[v] = 0
    BY <1>2, <1>9
  <2> HIDE DEF a
  <2> QED  BY <1>1, <1>2, <1>4, <1>5, <1>7, <2>2, <2>3, <2>4, <2>5, EffectPasses
<1>10. CASE over[v] # 0
  <2>1. AtEnd(v) /\ NoPlay(v, seqpos[v] + 2) /\ seqpos[v] < y
    BY <1>3, <1>10 DEF OverInv
  <2>2. \A p \in y + 1 .. E(v) - 1 : p \in seqpos[v] + 2 .. E(v) - 1
    <3> DEFINE s == seqpos[v]
               e == E(v)
    <3>1. s \in 0 .. 255 /\ e \in 1 .. 256 /\ s < y /\ y \in 0 .. 255
      BY <1>3, <1>5, <2>1
    <3> HIDE DEF s, e
    <3>2. \A p \in y + 1 .. e - 1 : p \in s + 2 .. e - 1
      BY <3>1
    <3> QED  BY <3>2 DEF s, e
  <2>3. c.op # "volume"
    BY <1>7, <2>1, <2>2 DEF NoPlay
  <2>4. a \notin 160 .. 175
    BY <1>5, <2>3 DEF Says
  <2>5. seqvolu' = seqvolu
    BY <1>2, <2>4 DEF OrderEffect
  <2> QED  BY <1>2, <1>10, <2>5, OverSilent
<1> QED  BY <1>9, <1>10

\* What the other steps of a walk leave, while the track goes on.
LEMMA WalkOn ==
  ASSUME TypeOK, NEW v \in Voice, VoiceNext(v), walker = v, walker' = v, stage[v] = "step", stage' = stage,
         over[v] = 0, over' = over, UNCHANGED <<row, dpitch, transp, transp2, seqtempo>>
  PROVE  /\ UNCHANGED <<song, heardBar, sungBar, shiftBar, keyBar, paceBar, pitchBar>>
         /\ atBar[v] = [sub |-> seqt[v], cmd |-> y + 1, row |-> 0]
         /\ Music!Command(v) = Cmds(v)[y + 1]
         /\ atBar' = [atBar EXCEPT ![v] = [sub |-> seqt'[v], cmd |-> y' + 1, row |-> 0]]
<1>1. UNCHANGED <<Heard(v), Sung(v), Shift(v), Key(v), Pace(v), dpitch[v]>>
  BY DEF Heard, Sung, Shift, Key, Pace
<1>2. /\ Place(v) = [sub |-> seqt[v], cmd |-> y + 1, row |-> 0]
      /\ Place(v)' = [sub |-> seqt'[v], cmd |-> y' + 1, row |-> 0]
  BY DEF Place
<1>3. UNCHANGED <<song, heardBar, sungBar, shiftBar, keyBar, paceBar, pitchBar>>
  BY <1>1, OwnSeen, SeenOf
<1>4. Music!Command(v) = Cmds(v)[y + 1]
  BY <1>2, CommandIs DEF Cmds
<1> QED  BY <1>2, <1>3, <1>4, OwnSeen, SeenOf

\* A loop goes where it says.
LEMMA WalkLoopGoes ==
  ASSUME Loaded, TypeOK, NEW v \in Voice, VoiceInv(v), WalkLoop(v)
  PROVE  Music!Loop(v)
<1>1. VoiceNext(v)
  BY DEF VoiceNext, PatternStep, WalkStep
<1>2. over[v] = 0 /\ Cmds(v)[y + 1].op = "loop" /\ Cmds(v)[y + 1].arg = y'
  BY WalkLoopHolds
<1>3. /\ walker = v /\ walker' = v /\ stage[v] = "step" /\ stage' = stage /\ over' = over
      /\ UNCHANGED <<seqt, row, dpitch, transp, transp2, seqtempo>>
      /\ UNCHANGED <<curins, trktempo, seqvolu, mainvol>>
  BY DEF WalkLoop, Walk, WalkGoesOn, orders, voiced, delayed, applied
<1>4. /\ UNCHANGED <<song, heardBar, sungBar, shiftBar, keyBar, paceBar, pitchBar>>
      /\ atBar[v] = [sub |-> seqt[v], cmd |-> y + 1, row |-> 0]
      /\ Music!Command(v) = Cmds(v)[y + 1]
      /\ atBar' = [atBar EXCEPT ![v] = [sub |-> seqt'[v], cmd |-> y' + 1, row |-> 0]]
  BY <1>1, <1>2, <1>3, WalkOn
<1>5. Music!GoTo(v, atBar[v].sub, Music!Command(v).arg + 1)
  <2>1. atBar[v].sub = seqt'[v] /\ Music!Command(v).arg = y'
    BY <1>2, <1>3, <1>4
  <2> QED  BY <1>4, <2>1 DEF Music!GoTo
<1> QED  BY <1>2, <1>3, <1>4, <1>5 DEF Music!Loop

\* A jump goes to the start of the subtune it names.
LEMMA WalkSubtuneGoes ==
  ASSUME Loaded, TypeOK, NEW v \in Voice, VoiceInv(v), WalkSubtune(v)
  PROVE  Music!SubtuneJump(v)
<1>1. VoiceNext(v)
  BY DEF VoiceNext, PatternStep, WalkStep
<1>2. over[v] = 0 /\ y' = 0 /\ Cmds(v)[y + 1].op = "jump" /\ seqt'[v] = Cmds(v)[y + 1].arg % 32
  BY WalkSubtuneHolds
<1>3. /\ walker = v /\ walker' = v /\ stage[v] = "step" /\ stage' = stage /\ over' = over
      /\ UNCHANGED <<row, dpitch, transp, transp2, seqtempo>>
      /\ UNCHANGED <<curins, trktempo, seqvolu, mainvol>>
  BY DEF WalkSubtune, Walk, WalkGoesOn, voiced, delayed, applied
<1>4. /\ UNCHANGED <<song, heardBar, sungBar, shiftBar, keyBar, paceBar, pitchBar>>
      /\ Music!Command(v) = Cmds(v)[y + 1]
      /\ atBar' = [atBar EXCEPT ![v] = [sub |-> seqt'[v], cmd |-> y' + 1, row |-> 0]]
  BY <1>1, <1>2, <1>3, WalkOn
<1>5. Music!GoTo(v, Music!Command(v).arg % 32, 1)
  <2>1. y' + 1 = 1
    BY <1>2
  <2> QED  BY <1>2, <1>4, <2>1 DEF Music!GoTo
<1> QED  BY <1>2, <1>3, <1>4, <1>5 DEF Music!SubtuneJump

\* The end: at first it is the score's, afterwards it is found again.
LEMMA WalkEndEnds ==
  ASSUME Loaded, TypeOK, NEW v \in Voice, VoiceInv(v), WalkEnd(v)
  PROVE  Music!End(v) \/ UNCHANGED Music!vars
<1>1. VoiceNext(v)
  BY DEF VoiceNext, PatternStep, WalkStep
<1>2. y + 1 = E(v) /\ AtEnd(v)
  BY WalkEndHolds
<1>3. /\ walker = v /\ stage[v] = "step" /\ over'[v] = y + 1
      /\ UNCHANGED <<seqt, dpitch>> /\ UNCHANGED <<curins, trktempo, seqvolu, mainvol>>
  BY DEF WalkEnd, Walk, TypeOK, orders, voiced, delayed, applied
<1>4. y \in 0 .. 255 /\ (over[v] # 0 => over[v] = E(v))
  BY <1>3, WalkStands DEF OverInv
<1>5. y + 1 # 0
  BY <1>4
<1>6. CASE over[v] = 0
  <2>1. /\ Place(v) = [sub |-> seqt[v], cmd |-> y + 1, row |-> 0] /\ UNCHANGED Place(v)
        /\ Heard(v)' = Empty /\ Sung(v)' = TRUE /\ Shift(v)' = 0 /\ Key(v)' = 0 /\ Pace(v)' = 0
    BY <1>3, <1>5, <1>6 DEF Place, Heard, Sung, Shift, Key, Pace
  <2>2. /\ UNCHANGED <<song, atBar, pitchBar>>
        /\ heardBar' = [heardBar EXCEPT ![v] = Empty] /\ sungBar' = [sungBar EXCEPT ![v] = TRUE]
        /\ shiftBar' = [shiftBar EXCEPT ![v] = 0] /\ keyBar' = [keyBar EXCEPT ![v] = 0]
        /\ paceBar' = [paceBar EXCEPT ![v] = 0]
    BY <1>1, <1>3, <2>1, OwnSeen, SeenOf
  <2>3. Music!Command(v).op = "end"
    BY <1>2, <2>1, CommandIs DEF Cmds, AtEnd
  <2>4. Music!None = Empty
    BY DEF Music!None, Empty
  <2> QED  BY <1>3, <2>2, <2>3, <2>4 DEF Music!End
<1>7. CASE over[v] # 0
  <2>1. over'[v] = over[v]
    BY <1>2, <1>3, <1>4, <1>7
  <2> QED  BY <1>3, <1>7, <2>1, OverSilent
<1> QED  BY <1>6, <1>7

-----------------------------------------------------------------------------
(* Rows and notes.                                                          *)

\* A row, however it is read, is the score's next one.
LEMMA RowReads ==
  ASSUME TypeOK, NEW v \in Voice, VoiceInv(v), ReadRow(v),
         rowno[v] < Len(Rows(v)), Heard(v)' = Rows(v)[rowno[v] + 1]
  PROVE  Music!Read(v)
<1>1. VoiceNext(v)
  BY DEF VoiceNext
<1>2. RowPrep(v)
  BY DEF ReadRow, RunGoesOn, RunStarts, ReadColumns
<1>3. /\ stage[v] = "row" /\ stage'[v] = "step" /\ walker = Nobody /\ walker' = Nobody /\ walker # v
      /\ rowno'[v] = rowno[v] + 1 /\ seqtempo'[v] = 0 /\ mainvol' = seqvolu
      /\ trktempo' = [trktempo EXCEPT ![v] = IF seqtempo[v] = 0 THEN @ ELSE seqtempo[v]]
      /\ UNCHANGED <<seqt, seqpos, curptn, curins, dpitch, transp2, seqvolu, over>>
  BY <1>2, NobodyAssumption DEF RowPrep, TypeOK, orders, voiced
<1>4. over[v] = 0 /\ Here(v)
  BY <1>3 DEF VoiceInv, OrderInv, OverInv
<1>5. /\ Place(v) = [sub |-> seqt[v], cmd |-> seqpos[v] + 1, row |-> rowno[v]]
      /\ Place(v)' = [sub |-> seqt[v], cmd |-> seqpos[v] + 1, row |-> rowno[v] + 1]
      /\ Sung(v) = TRUE /\ Sung(v)' = FALSE /\ UNCHANGED <<Shift(v), dpitch[v]>>
      /\ Key(v)' = Shift(v) /\ Pace(v) = seqtempo[v] /\ Pace(v)' = 0
  BY <1>3, <1>4, NobodyAssumption DEF Place, Sung, Shift, Key, Pace
<1>6. Music!Command(v) = Cmd("play", curptn[v])
  BY <1>4, <1>5, CommandIs DEF Here, Cmds
<1>7. Music!PatternRows(v) = Rows(v) /\ Music!Command(v).op = "play"
  BY <1>6 DEF Music!PatternRows, Cmd, Rows
<1>8. atBar[v] = Place(v) /\ atBar[v].row = rowno[v]
  BY <1>5, SeenOf
<1>9. atBar' = [atBar EXCEPT ![v].row = @ + 1]
  <2>1. [atBar[v] EXCEPT !.row = atBar[v].row + 1] = Place(v)'
    BY <1>5, <1>8
  <2> QED  BY <1>1, <2>1, OwnSeen
<1>10. /\ sungBar[v] /\ shiftBar[v] = Shift(v) /\ paceBar[v] = seqtempo[v]
       /\ UNCHANGED <<song, shiftBar, pitchBar>>
       /\ heardBar' = [heardBar EXCEPT ![v] = Rows(v)[rowno[v] + 1]]
       /\ sungBar' = [sungBar EXCEPT ![v] = FALSE] /\ keyBar' = [keyBar EXCEPT ![v] = Shift(v)]
       /\ paceBar' = [paceBar EXCEPT ![v] = 0]
  BY <1>1, <1>5, OwnSeen, SeenOf
<1> QED  BY <1>3, <1>7, <1>8, <1>9, <1>10 DEF Music!Read

\* An empty row of a run.
LEMMA RunReads ==
  ASSUME Loaded, TypeOK, NEW v \in Voice, VoiceInv(v), RunGoesOn(v) \/ RunStarts(v)
  PROVE  Music!Read(v)
<1>1. rowno[v] < Len(Rows(v)) /\ Rows(v)[rowno[v] + 1] = Empty
  BY RunGoesOnHolds, RunStartsHolds
<1>2. /\ row'[v] = [Empty EXCEPT !.value = row[v].value] /\ stage[v] = "row" /\ over' = over
  BY DEF RunGoesOn, RunStarts, RowPrep, NoColumns, TypeOK
<1>3. over[v] = 0
  BY <1>2 DEF VoiceInv, OrderInv, OverInv
<1>4. Heard(v)' = Empty
  <2>1. row'[v] = [note |-> 0, inst |-> 0, fx |-> 0, value |-> row[v].value]
    BY <1>2 DEF Empty
  <2>2. Heard(v)' = [row'[v] EXCEPT !.value = IF row'[v].fx \in 1 .. 31 THEN @ ELSE 0]
    BY <1>2, <1>3 DEF Heard
  <2>3. row'[v].fx \notin 1 .. 31
    BY <2>1
  <2>4. Heard(v)' = [note |-> 0, inst |-> 0, fx |-> 0, value |-> 0]
    BY <2>1, <2>2, <2>3
  <2> QED  BY <2>4 DEF Empty
<1>5. ReadRow(v)
  BY DEF ReadRow
<1> QED  BY <1>1, <1>4, <1>5, RowReads

\* A row that its columns spell.
LEMMA ColumnsRead ==
  ASSUME Loaded, TypeOK, NEW v \in Voice, VoiceInv(v), ReadColumns(v)
  PROVE  Music!Read(v)
<1> DEFINE r == Rows(v)[rowno[v] + 1]
<1>1. /\ TypeOK' /\ rowno[v] < Len(Rows(v)) /\ r \in Row
      /\ row'[v].note = r.note /\ row'[v].inst = r.inst /\ row'[v].fx = r.fx
      /\ r.fx \in 1 .. 31 => row'[v].value = r.value
      /\ r.fx \notin 1 .. 31 => r.value = 0
  BY ReadColumnsHolds
<1>2. stage[v] = "row" /\ over' = over /\ ReadRow(v)
  BY DEF ReadColumns, RowPrep, ReadRow
<1>3. over[v] = 0
  BY <1>2 DEF VoiceInv, OrderInv, OverInv
<1>4. row'[v] \in Row
  BY <1>1 DEF TypeOK
<1> HIDE DEF r
<1>5. Heard(v)' = r
  <2>1. Heard(v)' = [row'[v] EXCEPT !.value = IF row'[v].fx \in 1 .. 31 THEN @ ELSE 0]
    BY <1>2, <1>3 DEF Heard
  <2>2. Heard(v)' = [row'[v] EXCEPT !.value = r.value]
    BY <1>1, <2>1
  <2> QED  BY <1>1, <1>4, <2>2 DEF Row
<1> QED  BY <1>1, <1>2, <1>5, RowReads DEF r

\* A note and its transpose add as bytes as they do as numbers.
LEMMA SignedSum ==
  ASSUME NEW n \in 1 .. 95, NEW t \in Shifts
  PROVE  Signed((n + t) % 256) = n + Signed(t)
<1>1. CASE t \in 0 .. 15
  BY <1>1 DEF Signed
<1>2. CASE t \in 240 .. 255 /\ n + t < 256
  BY <1>2 DEF Signed
<1>3. CASE t \in 240 .. 255 /\ n + t >= 256
  <2>1. (n + t) % 256 = n + t - 256
    BY <1>3
  <2> QED  BY <1>3, <2>1 DEF Signed
<1> QED  BY <1>1, <1>2, <1>3 DEF Shifts

\* The note that starts is the row's, shifted by its key.
LEMMA StartNoteSings ==
  ASSUME TypeOK, NEW v \in Voice, VoiceInv(v), StartNote(v)
  PROVE  Music!Sing(v)
<1> DEFINE r == row[v]
           h == Heard(v)
           n == r.note
           t == transp[v]
<1>1. VoiceNext(v)
  BY DEF VoiceNext
<1>2. over[v] = 0
  BY StartNoteHolds
<1>3. /\ stage[v] = "note" /\ stage'[v] = "row" /\ walker = Nobody /\ walker' = Nobody /\ walker # v
      /\ UNCHANGED <<seqt, seqpos, row, rowno, transp, transp2, seqtempo, trktempo, over>>
  BY NobodyAssumption DEF StartNote, TypeOK, orders, cursor
<1>4. r \in Row /\ t \in Shifts /\ curins \in [Voice -> 0 .. 127] /\ dpitch \in [Voice -> Byte]
  BY DEF TypeOK, VoiceInv, OrderInv
<1>5. r.note \in 0 .. 127 /\ r.inst \in 0 .. 127 /\ r.fx \in 0 .. 255
  BY <1>4 DEF Row
<1>6. h.note = r.note /\ h.inst = r.inst /\ h.fx = r.fx
  BY <1>2, <1>4 DEF Heard, Row
<1>7. /\ UNCHANGED <<Place(v), Heard(v), Shift(v), Key(v), Pace(v)>>
      /\ Sung(v) = FALSE /\ Sung(v)' = TRUE /\ Key(v) = Signed(t)
  BY <1>2, <1>3, NobodyAssumption DEF Place, Heard, Sung, Shift, Key, Pace
<1>8. /\ heardBar[v] = h /\ keyBar[v] = Signed(t) /\ ~sungBar[v] /\ pitchBar[v] = Signed(dpitch[v])
      /\ UNCHANGED <<song, atBar, heardBar, shiftBar, keyBar, paceBar>>
      /\ sungBar' = [sungBar EXCEPT ![v] = TRUE]
      /\ pitchBar' = [pitchBar EXCEPT ![v] = Signed(dpitch'[v])]
  BY <1>1, <1>7, OwnSeen, SeenOf
<1>9. curins' = [curins EXCEPT ![v] = IF h.inst \in 1 .. SelInsLimit - 1 THEN h.inst ELSE @]
  <2>1. r.inst # 0 /\ r.inst < SelInsLimit <=> r.inst \in 1 .. SelInsLimit - 1
    BY <1>5, BuildAssumption DEF Byte
  <2>2. curins' = [curins EXCEPT ![v] = IF r.inst # 0 /\ r.inst < SelInsLimit THEN r.inst ELSE @]
    BY DEF StartNote
  <2> HIDE DEF r, h
  <2> QED  BY <1>6, <2>1, <2>2
<1>10. Signed(dpitch'[v]) = IF curins'[v] # 0 /\ h.note \in 1 .. 95 THEN h.note + keyBar[v] ELSE pitchBar[v]
  <2>1. dpitch'[v] = IF curins'[v] # 0 /\ n \in 1 .. 95 THEN (n + t) % 256 ELSE dpitch[v]
    BY <1>4 DEF StartNote
  <2> HIDE DEF n, t
  <2>2. CASE curins'[v] # 0 /\ n \in 1 .. 95
    <3>1. Signed((n + t) % 256) = n + Signed(t)
      BY <1>4, <2>2, SignedSum
    <3> QED  BY <1>6, <1>8, <2>1, <2>2, <3>1 DEF n
  <2>3. CASE ~(curins'[v] # 0 /\ n \in 1 .. 95)
    BY <1>6, <1>8, <2>1, <2>3 DEF n
  <2> QED  BY <2>2, <2>3
<1>11. pitchBar' = [pitchBar EXCEPT ![v] = IF curins'[v] # 0 /\ h.note \in 1 .. 95 THEN h.note + keyBar[v] ELSE @]
  BY <1>8, <1>10
<1> DEFINE sounds == h.fx \in 160 .. 175 /\ (curins'[v] # 0 \/ ~NoInsRts)
<1>12. /\ seqvolu' = IF sounds THEN h.fx - 160 ELSE seqvolu
       /\ mainvol' = IF sounds THEN h.fx - 160 ELSE mainvol
  <2>1. r.fx \in 160 .. 175 => r.fx % 16 = r.fx - 160
    BY <1>5
  <2>2. IF r.fx \in 160 .. 175 /\ (curins'[v] # 0 \/ ~NoInsRts)
          THEN mainvol' = r.fx % 16 /\ seqvolu' = r.fx % 16
          ELSE UNCHANGED <<mainvol, seqvolu>>
    BY DEF StartNote
  <2> HIDE DEF r, h
  <2> QED  BY <1>6, <2>1, <2>2
<1>13. UNCHANGED trktempo
  BY <1>3
<1> HIDE DEF r, n, t, h
<1> QED  BY <1>8, <1>9, <1>11, <1>12, <1>13 DEF Music!Sing

-----------------------------------------------------------------------------
(* The refinement.                                                          *)

\* Every turn of a voice is a step of the score, or none of it.
LEMMA TurnPlays ==
  ASSUME SongsAsWritten, Memory, Loaded, TypeOK, NEW v \in Voice, VoiceInv(v), VoiceNext(v)
  PROVE  Music!Next \/ UNCHANGED Music!vars
<1>1. CASE StartEffect(v)
  BY <1>1, StartEffectPasses DEF Music!Next
<1>2. CASE StartPattern(v)
  BY <1>2, StartPatternSilent
<1>3. CASE RunGoesOn(v) \/ RunStarts(v)
  BY <1>3, RunReads DEF Music!Next
<1>4. CASE ReadColumns(v)
  BY <1>4, ColumnsRead DEF Music!Next
<1>5. CASE RunHolds(v)
  BY <1>5, RunHoldsHolds, NextRowSilent
<1>6. CASE NextRow(v)
  BY <1>6, NextRowHolds, NextRowSilent
<1>7. CASE PatternEnds(v)
  <2>1. CASE over[v] = 0
    BY <1>7, <2>1, PatternEndsPasses DEF Music!Next
  <2>2. CASE over[v] # 0
    BY <1>7, <2>2, OverSilent DEF PatternEnds, Step, delayed
  <2> QED  BY <2>1, <2>2
<1>8. CASE WalkPattern(v)
  BY <1>8, WalkPatternHolds, WalkPatternSilent
<1>9. CASE WalkEnd(v)
  BY <1>9, WalkEndEnds DEF Music!Next
<1>10. CASE WalkLoop(v)
  BY <1>10, WalkLoopGoes DEF Music!Next
<1>11. CASE WalkSubtune(v)
  BY <1>11, WalkSubtuneGoes DEF Music!Next
<1>12. CASE WalkEffect(v)
  BY <1>12, WalkEffectPasses DEF Music!Next
<1>13. CASE StartNote(v)
  BY <1>13, StartNoteSings DEF Music!Next
<1> QED
  BY <1>1, <1>2, <1>3, <1>4, <1>5, <1>6, <1>7, <1>8, <1>9, <1>10, <1>11, <1>12, <1>13
     DEF VoiceNext, Start, ReadRow, PatternStep, WalkStep

\* The player starts where the score does.
LEMMA StartsThere ==
  ASSUME Init
  PROVE  Music!Init
<1>1. /\ song \in Songs /\ curins = [v \in Voice |-> 0] /\ trktempo = [v \in Voice |-> 0]
      /\ seqvolu = InitVolume /\ mainvol = InitVolume /\ walker = Nobody
  BY DEF Init
<1>2. ASSUME NEW v \in Voice
      PROVE  /\ Place(v) = [sub |-> 0, cmd |-> 1, row |-> 0] /\ Heard(v) = Empty /\ Sung(v) = TRUE
             /\ Shift(v) = 0 /\ Key(v) = 0 /\ Pace(v) = 0 /\ Signed(dpitch[v]) = 0
  <2>1. /\ over[v] = 0 /\ stage[v] = "start" /\ seqt[v] = 0 /\ seqpos[v] = 0 /\ rowno[v] = 0
        /\ row[v] = Empty /\ transp[v] = 0 /\ transp2[v] = 0 /\ seqtempo[v] = 0 /\ dpitch[v] = 0
    BY DEF Init
  <2>2. Heard(v) = Empty
    BY <2>1 DEF Heard, Empty
  <2>3. Place(v) = [sub |-> 0, cmd |-> 1, row |-> 0]
    BY <2>1 DEF Place
  <2> QED  BY <2>1, <2>2, <2>3 DEF Sung, Shift, Key, Pace, Signed
<1>3. Music!None = Empty
  BY DEF Music!None, Empty
<1>4. sungBar = [v \in Voice |-> TRUE]
  BY <1>2 DEF sungBar
<1>5. /\ atBar = [v \in Voice |-> [sub |-> 0, cmd |-> 1, row |-> 0]] /\ heardBar = [v \in Voice |-> Empty]
      /\ shiftBar = [v \in Voice |-> 0] /\ keyBar = [v \in Voice |-> 0] /\ paceBar = [v \in Voice |-> 0]
      /\ pitchBar = [v \in Voice |-> 0]
  BY <1>2 DEF atBar, heardBar, shiftBar, keyBar, paceBar, pitchBar
<1> QED  BY <1>1, <1>3, <1>4, <1>5 DEF Music!Init

\* The player, byte by byte, plays what the song's rows and commands say: for
\* every set of songs that fit their memory and rest on no command the player
\* passes over, each of its behaviours is one of the score.
THEOREM PlayerPlaysScore ==
  ASSUME SongsFit, SongsAsWritten
  PROVE  Spec => PlaysScore
<1>1. Init => Music!Init
  BY StartsThere
<1>2. IInv /\ [Next]_vars => [Music!Next]_(Music!vars)
  <2> SUFFICES ASSUME IInv, [Next]_vars PROVE [Music!Next]_(Music!vars)
    OBVIOUS
  <2>1. TypeOK /\ Memory /\ Loaded /\ \A v \in Voice : VoiceInv(v)
    BY MemoryLoaded DEF IInv
  <2>2. CASE UNCHANGED vars
    BY <2>2 DEF vars, memory, orders, cursor, voiced, delayed, applied, control, Music!vars, atBar, heardBar,
       sungBar, shiftBar, keyBar, paceBar, pitchBar, Place, Heard, Sung, Shift, Key, Pace
  <2>3. CASE Next
    <3>1. PICK v \in Voice : VoiceNext(v)
      BY <2>3 DEF Next, VoiceNext
    <3> QED  BY <2>1, <3>1, TurnPlays
  <2> QED  BY <2>2, <2>3
<1>3. Spec => []IInv
  BY InvariantHolds
<1> QED  BY <1>1, <1>2, <1>3, PTL DEF Spec, PlaysScore, Music!Spec
=============================================================================
