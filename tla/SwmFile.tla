------------------------------- MODULE SwmFile -------------------------------
(***************************************************************************)
(* Module files (.swm).  The writer (writer.py) stores a song section after  *)
(* section: orderlists, patterns, instruments, the chord and tempo tables,   *)
(* the subtunes' tempos; the header holds how many of each there are.  An    *)
(* item is followed by its size, so the reader (reader.py) starts at the end *)
(* of the file and goes backward.  A pattern's size is that of its unpacked  *)
(* bytes: the reader finds where it starts by undoing the packing backward,  *)
(* byte by byte.                                                            *)
(*                                                                          *)
(* Between the two the file may lose its first bytes or gain some before     *)
(* them; what follows the header is the file here, and offsets are from its  *)
(* start.  An instrument is its name and its encoded body.                  *)
(***************************************************************************)
EXTENDS SongCode, FiniteSets

CONSTANTS
  Songs,      \* the songs to write
  Channels,   \* orderlists of a subtune
  NameLen,    \* bytes of an instrument's name
  Losses,     \* how many first bytes the file may lose
  Junk        \* bytes that may stand before the file's own

Byte == 0 .. 255
Pattern == [rows: Seq(Row), length: Byte, slot: BOOLEAN]
Instrument == [name: [1 .. NameLen -> Byte], body: Seq(Byte)]

ASSUME FormatAssumption == Channels \in Nat \ {0} /\ NameLen \in Nat
ASSUME DamageAssumption == Losses \subseteq Nat /\ Junk \subseteq Seq(Byte)

StoredSong ==
  [sequences: Seq(Seq(Command)), patterns: Seq(Pattern), instruments: Seq(Instrument),
   chords: Seq(Byte), tempos: Seq(Byte), subtunes: Seq(Byte \X Byte)]

\* Commands are those encode() accepts; a slot has no rows.
ASSUME SongsAssumption ==
  \A s \in Songs :
    /\ s \in StoredSong
    /\ \A q \in DOMAIN s.sequences : \A c \in DOMAIN s.sequences[q] :
         EncodeCommand(s.sequences[q][c]) \in Seq(Byte)
    /\ \A p \in DOMAIN s.patterns : s.patterns[p].slot => s.patterns[p].rows = <<>>

Nothing ==
  [sequences |-> <<>>, patterns |-> <<>>, instruments |-> <<>>,
   chords |-> <<>>, tempos |-> <<>>, subtunes |-> <<>>]

VARIABLES
  song,    \* the song written
  out,     \* what the writer has written
  marks,   \* where each item starts in it (history)
  file,    \* what the reader is given
  got,     \* what it has read
  cursor,  \* its position: the bytes before it are still to be read
  end,     \* where the pattern it walks ends
  j,       \* unpacked bytes of that pattern still before the cursor, less one
  stage    \* the section it, or the writer, has come to

written == <<song, out, marks>>
reading == <<got, cursor, end, j>>
vars == <<written, file, reading, stage>>

SubtunesFor(n) == IF n = 0 THEN 1 ELSE (n - 1) \div Channels + 1

Init ==
  /\ song \in Songs
  /\ out = <<>>
  /\ marks = <<>>
  /\ file = <<>>
  /\ got = Nothing
  /\ cursor = 0
  /\ end = 0
  /\ j = -1
  /\ stage = "song"

-----------------------------------------------------------------------------
(* What a stream's grammar accepts.                                         *)

\* An orderlist has a terminator; what follows it is kept byte by byte.
Terminator(b) == IF \E t \in DOMAIN b : b[t] >= 254
                   THEN CHOOSE t \in DOMAIN b : b[t] >= 254 /\ \A k \in 1 .. t - 1 : b[k] < 254
                   ELSE 0
SequenceSize(b) == Terminator(b) + (IF b[Terminator(b)] = 255 THEN 1 ELSE 0)
SequenceParses(b) == Terminator(b) # 0 /\ SequenceSize(b) <= Len(b)
ParseSequence(b) ==
  LET n == SequenceSize(b)
  IN  DecodeSequence(SubSeq(b, 1, n)) \o [k \in 1 .. Len(b) - n |-> Cmd("raw", b[n + k])]

\* A pattern is whole rows, and none of them starts with the terminator (a row
\* that does is not in the songs: what the parser's package makes of what follows
\* it is not in this repository).
PatternParses(packed) ==
  LET u == Unpack(packed)
      padded == u \o <<0, 0, 0>>
      Whole[i \in 1 .. Len(u) + 4] ==
        i = Len(u) + 1 \/ (i <= Len(u) /\ u[i] # 255 /\ Whole[i + Columns(padded, i)])
  IN  Whole[1]
ParsePattern(packed) == DecodeRows(Unpack(packed))

ChordsParse(b) == b = <<>> \/ Last(b) \in {126, 127}
TemposParse(b) == b = <<>> \/ Last(b) >= 128

-----------------------------------------------------------------------------
(* The writer: one item after another, each followed by its size.           *)

\* Mutant: any size is stored.
AnySize(n) == TRUE
FitsByte(n) == n <= 255

RefuseToWrite == stage' = "unwritten" /\ UNCHANGED <<written, file, reading>>

Store(bytes) ==
  /\ out' = out \o bytes
  /\ marks' = Append(marks, Len(out))
  /\ UNCHANGED <<song, file, reading, stage>>

\* What is counted in the header fits it.
Amounts ==
  /\ FitsByte(Len(song.sequences))
  /\ FitsByte(Len(song.patterns))
  /\ FitsByte(Len(song.instruments))
  /\ FitsByte(Len(song.chords))
  /\ FitsByte(Len(song.tempos))

\* Orderlists name patterns that are there, 0 the empty one, and have an end.
References ==
  \A s \in DOMAIN song.sequences :
    /\ \A c \in DOMAIN song.sequences[s] :
         song.sequences[s][c].op = "play" => song.sequences[s][c].arg <= Len(song.patterns)
    /\ \E c \in DOMAIN song.sequences[s] : song.sequences[s][c].op \in {"end", "loop", "jump"}

CheckSong ==
  /\ stage = "song"
  /\ IF References /\ Amounts
       THEN stage' = "writing" /\ UNCHANGED <<written, file, reading>>
       ELSE RefuseToWrite

Sequences == Len(song.sequences)
ToPatterns == Sequences + Len(song.patterns)
ToInstruments == ToPatterns + Len(song.instruments)

WriteSequence ==
  /\ stage = "writing"
  /\ Len(marks) < Sequences
  /\ LET bytes == EncodeSequence(song.sequences[Len(marks) + 1])
     IN  IF FitsByte(Len(bytes)) THEN Store(Append(bytes, Len(bytes))) ELSE RefuseToWrite

\* The size counts the terminator, which is not stored; a slot has size 0.
WritePattern ==
  /\ stage = "writing"
  /\ Len(marks) \in Sequences .. ToPatterns - 1
  /\ LET pattern == song.patterns[Len(marks) - Sequences + 1]
         unpacked == EncodeRows(pattern.rows)
         size == IF pattern.slot THEN 0 ELSE Len(unpacked) + 1
     IN  IF FitsByte(size)
           THEN Store(Pack(unpacked) \o <<size, pattern.length>>)
           ELSE RefuseToWrite

WriteInstrument ==
  /\ stage = "writing"
  /\ Len(marks) \in ToPatterns .. ToInstruments - 1
  /\ LET instrument == song.instruments[Len(marks) - ToPatterns + 1]
     IN  IF FitsByte(Len(instrument.body))
           THEN Store(instrument.body \o <<Len(instrument.body)>> \o instrument.name)
           ELSE RefuseToWrite

\* The tables, and the check that every stream of the song parses.
WriteTables ==
  /\ stage = "writing"
  /\ Len(marks) = ToInstruments
  /\ IF /\ Len(song.subtunes) = SubtunesFor(Sequences)
        /\ ChordsParse(song.chords) /\ TemposParse(song.tempos)
        /\ \A s \in DOMAIN song.sequences : SequenceParses(EncodeSequence(song.sequences[s]))
        /\ \A p \in DOMAIN song.patterns : PatternParses(Pack(EncodeRows(song.patterns[p].rows)))
       THEN /\ out' = out \o song.chords \o song.tempos \o FlattenSeq(song.subtunes)
            /\ marks' = marks \o <<Len(out), Len(out) + Len(song.chords),
                                   Len(out) + Len(song.chords \o song.tempos)>>
            /\ stage' = "written"
            /\ UNCHANGED <<song, file, reading>>
       ELSE RefuseToWrite

-----------------------------------------------------------------------------
(* What comes of the file, and the reader, from its end.                    *)

Open ==
  /\ stage = "written"
  /\ file' \in {SubSeq(out, k + 1, Len(out)) : k \in {k \in Losses : k <= Len(out)}}
               \cup {junk \o out : junk \in Junk}
  /\ cursor' = Len(file')
  /\ stage' = "subtunes"
  /\ UNCHANGED <<written, got, end, j>>

RefuseToRead == stage' = "refused" /\ UNCHANGED <<written, file, reading>>

\* The n bytes before the cursor, if the file has them.
Before(n) == SubSeq(file, cursor - n + 1, cursor)

\* Mutant: the result keeps the order of reading.
AppendItem(x, items) == Append(items, x)
Prepend(x, items) == <<x>> \o items

ReadSubtunes ==
  LET n == SubtunesFor(Sequences)
      bytes == Before(2 * n)
  IN  /\ stage = "subtunes"
      /\ IF cursor < 2 * n THEN RefuseToRead
         ELSE /\ got' = [got EXCEPT !.subtunes =
                           [k \in 1 .. n |-> <<bytes[2 * k - 1], bytes[2 * k]>>]]
              /\ cursor' = cursor - 2 * n
              /\ stage' = "tempos"
              /\ UNCHANGED <<written, file, end, j>>

ReadTempos ==
  LET n == Len(song.tempos)
  IN  /\ stage = "tempos"
      /\ IF cursor < n \/ ~TemposParse(Before(n)) THEN RefuseToRead
         ELSE /\ got' = [got EXCEPT !.tempos = Before(n)]
              /\ cursor' = cursor - n
              /\ stage' = "chords"
              /\ UNCHANGED <<written, file, end, j>>

ReadChords ==
  LET n == Len(song.chords)
  IN  /\ stage = "chords"
      /\ IF cursor < n \/ ~ChordsParse(Before(n)) THEN RefuseToRead
         ELSE /\ got' = [got EXCEPT !.chords = Before(n)]
              /\ cursor' = cursor - n
              /\ stage' = "instruments"
              /\ UNCHANGED <<written, file, end, j>>

ReadInstrument ==
  LET at == cursor - NameLen
      size == file[at]
  IN  /\ stage = "instruments"
      /\ Len(got.instruments) < Len(song.instruments)
      /\ IF at < 1 \/ at - 1 < size THEN RefuseToRead
         ELSE /\ got' = [got EXCEPT !.instruments = Prepend(
                           [name |-> Before(NameLen), body |-> SubSeq(file, at - size, at - 1)], @)]
              /\ cursor' = at - 1 - size
              /\ UNCHANGED <<written, file, end, j, stage>>

InstrumentsRead ==
  /\ stage = "instruments"
  /\ Len(got.instruments) = Len(song.instruments)
  /\ stage' = "patterns"
  /\ UNCHANGED <<written, file, reading>>

\* A pattern's length and size; size 0 is a slot without a body.
ReadPatternSize ==
  LET length == file[cursor]
      size == file[cursor - 1]
  IN  /\ stage = "patterns"
      /\ Len(got.patterns) < Len(song.patterns)
      /\ IF cursor < 2 THEN RefuseToRead
         ELSE /\ cursor' = cursor - 2
              /\ end' = cursor - 2
              /\ j' = size - 2
              /\ IF size = 0
                   THEN /\ got' = [got EXCEPT !.patterns = Prepend(
                                     [rows |-> <<>>, length |-> length, slot |-> TRUE], @)]
                        /\ UNCHANGED stage
                   ELSE UNCHANGED got /\ stage' = "body"
              /\ UNCHANGED <<written, file>>

\* Mutant: any byte in the markers' range.
MarkerAlone(byte, before) == byte \in Marker

\* The byte counts as a marker if the one before it in the file lets it.
IsMarker(byte, before) == byte \in Marker /\ before \in Marker \cup {0}

\* Mutant: a marker counts for one byte less than it stands for.
SpanShort(byte, before) == IF IsMarker(byte, before) THEN byte - PackedMin + 1 ELSE 1

\* How many unpacked bytes the byte stands for.
Span(byte, before) == IF IsMarker(byte, before) THEN byte - PackedMin + 2 ELSE 1

WalkByte ==
  LET byte == file[cursor]
      before == IF cursor > 1 THEN file[cursor - 1] ELSE 0
  IN  /\ stage = "body"
      /\ j >= 0
      /\ IF cursor < 1 THEN RefuseToRead
         ELSE /\ cursor' = cursor - 1
              /\ j' = j - Span(byte, before)
              /\ UNCHANGED <<written, file, got, end, stage>>

ReadPatternBody ==
  LET packed == SubSeq(file, cursor + 1, end)
      pattern == [rows |-> ParsePattern(packed), length |-> file[end + 2], slot |-> FALSE]
  IN  /\ stage = "body"
      /\ j < 0
      /\ IF ~PatternParses(packed) THEN RefuseToRead
         ELSE /\ got' = [got EXCEPT !.patterns = Prepend(pattern, @)]
              /\ stage' = "patterns"
              /\ UNCHANGED <<written, file, cursor, end, j>>

PatternsRead ==
  /\ stage = "patterns"
  /\ Len(got.patterns) = Len(song.patterns)
  /\ stage' = "sequences"
  /\ UNCHANGED <<written, file, reading>>

ReadSequence ==
  LET size == file[cursor]
      bytes == SubSeq(file, cursor - size, cursor - 1)
  IN  /\ stage = "sequences"
      /\ Len(got.sequences) < Sequences
      /\ IF cursor < 1 \/ cursor - 1 < size \/ ~SequenceParses(bytes) THEN RefuseToRead
         ELSE /\ got' = [got EXCEPT !.sequences = Prepend(ParseSequence(bytes), @)]
              /\ cursor' = cursor - 1 - size
              /\ UNCHANGED <<written, file, end, j, stage>>

\* All that follows the header must have been read.
Finish ==
  /\ stage = "sequences"
  /\ Len(got.sequences) = Sequences
  /\ IF cursor # 0 THEN RefuseToRead ELSE stage' = "read" /\ UNCHANGED <<written, file, reading>>

-----------------------------------------------------------------------------
Write == CheckSong \/ WriteSequence \/ WritePattern \/ WriteInstrument \/ WriteTables
Read ==
  \/ ReadSubtunes \/ ReadTempos \/ ReadChords
  \/ ReadInstrument \/ InstrumentsRead
  \/ ReadPatternSize \/ WalkByte \/ ReadPatternBody \/ PatternsRead
  \/ ReadSequence \/ Finish

Next == Write \/ Open \/ Read

Spec == Init /\ [][Next]_vars

-----------------------------------------------------------------------------
(* Properties.                                                              *)

\* What is written are bytes, and the reader's position stays in the file.
TypeOK ==
  /\ out \in Seq(Byte)
  /\ marks \in Seq(Nat)
  /\ file \in Seq(Byte)
  /\ cursor \in 0 .. Len(file)
  /\ end \in 0 .. Len(file)
  /\ j \in -9 .. 253
  /\ stage \in {"song", "writing", "unwritten", "written", "subtunes", "tempos", "chords",
                "instruments", "patterns", "body", "sequences", "refused", "read"}

ItemsRead ==
  LET tables == CASE stage = "subtunes" -> 0 [] stage = "tempos" -> 1
                  [] stage = "chords" -> 2 [] OTHER -> 3
  IN  tables + Len(got.instruments) + Len(got.patterns) + Len(got.sequences)

\* The reader is not misled by the file's damage: the file is the writer's, or
\* an orderlist, whose size stands behind it, comes before all patterns.
Telling == file = out \/ Sequences > 0

\* The walk has not come to where the file was cut off.
Uncut == cursor > 0 \/ Len(file) >= Len(out)

\* Going backward without having parsed anything, the reader stands between
\* two items exactly where the writer went from one to the other; where it has
\* walked a body to its start it stands at the start of that pattern.
MeetsMarks ==
  Telling /\ Uncut =>
    LET at == cursor + Len(out) - Len(file)
        next == Len(marks) - ItemsRead
    IN  /\ stage \in {"subtunes", "tempos", "chords", "instruments", "patterns", "sequences"}
             => at = IF ItemsRead = 0 THEN Len(out) ELSE marks[next + 1]
        /\ stage = "body" /\ j < 0 => at = marks[next]

\* What is read is the song that was written, of the file as it was written: a
\* song with an orderlist is read of no file that has lost or gained bytes
\* after its header.
ReadsBack == Telling /\ stage = "read" => file = out /\ got = song

\* The songs whose bytes the parser finds again: commands with arguments their
\* bytes can hold, any bytes behind an orderlist's end, and rows that hold no byte
\* a run would be taken for.
Ending(c) == c.op \in {"end", "loop", "jump"}
PlainOrder(cmds) ==
  \A k \in DOMAIN cmds :
    IF \E i \in 1 .. k - 1 : Ending(cmds[i]) THEN cmds[k].op = "raw" /\ cmds[k].arg \in Byte
    ELSE PlainCommand(cmds[k])
FoundAgain(s) ==
  /\ \A q \in DOMAIN s.sequences : PlainOrder(s.sequences[q])
  /\ \A p \in DOMAIN s.patterns :
       LET rows == s.patterns[p].rows
       IN  (\A k \in DOMAIN rows : TakesValue(rows[k])) /\ NoFalseRun(EncodeRows(rows))

\* The reader refuses no file the writer has written.
ReadsWritten == stage = "refused" => file # out
=============================================================================
