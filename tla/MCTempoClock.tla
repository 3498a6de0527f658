---------------------------- MODULE MCTempoClock ----------------------------
(* Small songs for the tempo clock: three voices (one where its clock runs  *)
(* free), a table with the subtune's two bytes, each voice's two and one    *)
(* program behind them.                                                     *)
EXTENDS TempoClock

\* A table that starts with bytes a and b and ends with the given program.
Table(a, b, prog) ==
  [p \in Slot |->
    IF p = 1 THEN a
    ELSE IF p = 2 THEN b
    ELSE IF p - TrkTmpPos(Chn) \in DOMAIN prog THEN prog[p - TrkTmpPos(Chn)]
    ELSE 0]

OneProgram == [n \in 1 .. 1 |-> TrkTmpPos(Chn)]

\* All effects global, all tempos longer than the note delays and their three ticks.
GridTables == {Table(133, 0, <<5, 133>>), Table(5, 134, <<5, 133>>)}
GridRowFx ==
  {<<NoFx, 0>>, <<MainTempo, 5>>, <<Funktempo, 101>>, <<Program, 1>>,
   <<NoteDelay, 1>>, <<NoteDelay, 2>>}

\* Tempos of one, two and three from the subtune's table, from the orderlist and from
\* effects that shorten the tempo or keep it, some of which overtake the
\* counter, and delays of both kinds.
FastTables ==
  {Table(129, 0, <<1, 2, 129>>), Table(130, 0, <<1, 2, 129>>), Table(2, 129, <<1, 2, 129>>),
   Table(131, 0, <<1, 2, 129>>)}
FastRowFx ==
  {<<NoFx, 0>>, <<MainTempo, 1>>, <<Funktempo, 17>>, <<Program, 1>>,
   <<TrackTempo, 1>>, <<TrackFunktempo, 17>>, <<TrackProgram, 1>>,
   <<TrackDelay, 2>>, <<NoteDelay, 1>>}

\* Tempos of four ticks and more, for one voice and for all, which find the
\* other's counter anywhere, and delays of both kinds.
TracksTables == {Table(132, 0, <<4, 133>>)}
TracksRowFx ==
  {<<NoFx, 0>>, <<MainTempo, 4>>, <<TrackProgram, 1>>,
   <<TrackDelay, 2>>, <<NoteDelay, 1>>}
=============================================================================
