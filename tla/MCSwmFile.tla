----------------------------- MODULE MCSwmFile -----------------------------
(* Songs of one or two patterns, with the rows whose bytes a packed pattern  *)
(* could mistake for one another.                                           *)
EXTENDS SwmFile

R(note, inst, fx, value) == [note |-> note, inst |-> inst, fx |-> fx, value |-> value]
None(k) == [i \in 1 .. k |-> Empty]

Note == R(5, 0, 0, 0)
Amplitude == R(112, 0, 0, 0)
Ins == R(0, 119, 0, 0)
Big == R(5, 2, 1, 0)
Value == R(5, 2, 1, 113)
Small == R(0, 0, 115, 0)

UpToThree(S) == {<<>>} \cup {<<a>> : a \in S} \cup (S \X S) \cup (S \X S \X S)

Bodies == {rows \in UpToThree({Empty, Note, Amplitude, Ins, Big, Value, Small}) : NoFalseRun(EncodeRows(rows))}
LongBodies ==
  {<<a>> \o None(k) \o <<b>> : a \in {Empty, Big}, b \in {Note, Ins}, k \in {8, 9, 10, 17, 18, 19, 20}}

P(rows, length) == [rows |-> rows, length |-> length, slot |-> FALSE]
Slot == [rows |-> <<>>, length |-> 32, slot |-> TRUE]

Track(p) == <<Cmd("transpose", -7), Cmd("play", p), Cmd("loop", 1)>>
Trailed == <<Cmd("play", 1), Cmd("end", 0), Cmd("raw", 3), Cmd("raw", 255)>>
Lead == [name |-> <<76, 0>>, body |-> <<9, 255, 0>>]

Song(sequences, patterns) ==
  [sequences |-> sequences, patterns |-> patterns, instruments |-> <<Lead, [Lead EXCEPT !.body = <<112>>]>>,
   chords |-> <<0, 4, 127, 126>>, tempos |-> <<3, 132>>,
   subtunes |-> [k \in 1 .. SubtunesFor(Len(sequences)) |-> <<6, 131>>]]

\* A pattern of any body after one whose length is a zero or a marker's byte.
Pairs == {Song(<<Track(1), Track(2)>>, <<P(<<Note>>, n), P(rows, 3)>>) : rows \in Bodies, n \in {0, 3, 112}}
Firsts == {Song(q, <<P(rows, 0), Slot>>) :
            rows \in Bodies \cup LongBodies, q \in {<<>>, <<Track(1), Trailed, Track(2)>>}}

\* The file may lose so much that the walk over a body comes to its first byte.
Cut == {Song(<<Track(1)>>, <<P(rows, 0)>>) : rows \in {<<Ins>>, <<Big>>, <<Empty, Empty, Empty, Note>>}}

\* The longest instrument a size byte can tell, and one byte more; and the same
\* of the chords a header can count.
Limits ==
  {[Song(<<Trailed>>, <<P(<<Note>>, 1)>>) EXCEPT
      !.instruments = <<[Lead EXCEPT !.body = [k \in 1 .. n |-> k % 256]]>>,
      !.chords = [k \in 1 .. m |-> 126]] : n \in {255, 256}, m \in {255, 256}}

\* Songs the writer refuses.
NoEnd == Song(<<<<Cmd("play", 1)>>>>, <<P(<<Note>>, 1)>>)
NoPattern == Song(<<Track(2)>>, <<P(<<Note>>, 1)>>)
OpenChord == [Song(<<Track(1)>>, <<P(<<Note>>, 1)>>) EXCEPT !.chords = <<0, 4>>]
OpenTempo == [Song(<<Track(1)>>, <<P(<<Note>>, 1)>>) EXCEPT !.tempos = <<3, 4>>]
FewSubtunes == [Song(<<Track(1), Track(1), Track(1)>>, <<P(<<Note>>, 1)>>) EXCEPT !.subtunes = <<<<6, 131>>>>]

AllSongs ==
  Pairs \cup Firsts \cup Cut \cup Limits
  \cup {NoEnd, NoPattern, OpenChord, OpenTempo, FewSubtunes}

\* The theorems' hypothesis about the songs.
ASSUME SongsFoundAgain == \A s \in AllSongs : FoundAgain(s)

SomeLosses == 0 .. 8
SomeJunk == {<<0>>, <<112>>, <<254, 1>>, <<1, 254, 2>>}

\* A vibrato amplitude of $70 right after an empty row.
AmbiguousSong ==
  {Song(<<Track(1)>>, <<P(<<Empty, Amplitude>>, 2)>>)}
=============================================================================
