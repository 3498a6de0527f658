----------------------------- MODULE SidLayout ------------------------------
(***************************************************************************)
(* How sidreader.py reads a tune's tables out of a SID image: where a table  *)
(* may lie (the candidates of the four strategies) and what a candidate      *)
(* decodes to.  None is a layout error: the candidate is rejected.           *)
(*                                                                          *)
(* An image is its readable addresses lo .. hi - 1, its bytes and the table  *)
(* addresses the instructions of its player hold; a byte no part of the      *)
(* instance gives is 0.  A file is the image it holds (static: its bytes,    *)
(* the container's header below the load address included), what running its *)
(* init leaves (first, then runs for each subtune, then last), the counts of *)
(* its SWM1 header and the address of its SWP1 block.  The tables of a player*)
(* are taken to end below the top of memory.                                 *)
(*                                                                          *)
(* A song keeps its streams as bytes; their commands and rows are SongCode's.*)
(***************************************************************************)
EXTENDS SongCode, FiniteSets, FiniteSetsExt

CONSTANT None

MemSize == 65536
ScanWindow == 320    \* _SUBTUNE_SCAN_WINDOW
Reach == 1024        \* _STREAM_REACH
ZpReach == 256       \* _ZP_REACH
PlayerAddr == 4096   \* PLAYERADDR

Channels(f) == 3 * f.sids
Block(f) == IF f.sids = 1 THEN 8 ELSE IF f.sids = 2 THEN 16 ELSE 32
\* Mutant: the gap of one SID.
RestempOfOne(f) == 8
Restemp(f) == 2 + 2 * Channels(f)
SubtunesFor(f, seqs) == IF seqs <= 0 THEN 1 ELSE (seqs - 1) \div Channels(f) + 1

-----------------------------------------------------------------------------
(* Reading an image.                                                        *)

Readable(img, a, n) == img.lo <= a /\ a + n <= img.hi
At(img, a) == IF a \in DOMAIN img.mem THEN img.mem[a] ELSE 0
Word(img, lo, hi) == At(img, lo) + 256 * At(img, hi)
Chunk(img, a, n) == [i \in 1 .. n |-> At(img, a + i - 1)]

\* All of the results, unless one of them failed.
Every(s) == IF \E k \in DOMAIN s : s[k] = None THEN None ELSE s
\* F of x, unless x failed; and x, or where it failed y.
Then(x, F(_)) == IF x = None THEN None ELSE F(x)
OrElse(x, y) == IF x = None THEN y ELSE x

\* A set of addresses in order: each in the place of its rank.
Ascending(S) == [k \in 1 .. Cardinality(S) |-> CHOOSE a \in S : Cardinality({b \in S : b < a}) = k - 1]
Descending(S) == [k \in 1 .. Cardinality(S) |-> CHOOSE a \in S : Cardinality({b \in S : b > a}) = k - 1]

\* A pointer that misses the image is one the relocator missed.
Resolve(lay, raw) ==
  LET a == lay.ptrBase + raw
  IN  IF lay.load <= a /\ a < lay.end THEN a ELSE a + lay.reloc

\* The first $FF in the first column of the three-byte rows from start.
RowsEnd(img, start, bound) ==
  LET ends == {a \in start .. bound - 1 :
                 (a - start) % 3 = 0 /\ a < img.hi /\ At(img, a) = 255}
  IN  IF ends = {} THEN None ELSE Min(ends)

\* Do the three tables of the instrument at a end within a voice's reach?
Sound(img, a) ==
  LET After(p) == Then(p, LAMBDA q : Then(RowsEnd(img, q, a + ZpReach), LAMBDA e : e + 1))
  IN  After(After(After(a + 16))) # None

\* Instrument.decode: the header's pointers stay in order and in the body.
Decodes(body) ==
  Len(body) >= 16 /\ 16 < body[11] /\ body[11] <= body[12] /\ body[12] <= Len(body) + 1

InstrumentAt(img, a, end) ==
  LET body == Chunk(img, a, end - a)
  IN  IF Readable(img, a, end - a) /\ Decodes(body)
        THEN [body |-> body, sound |-> Sound(img, a)] ELSE None

\* One past the stream's last byte, or None.
SequenceEnd(img, start) ==
  LET stop == Min({start + Reach, img.hi})
      ends == {a \in start .. stop - 1 : At(img, a) >= 254}
      last == Min(ends)
  IN  IF ends = {} THEN None
      ELSE IF At(img, last) = 254 THEN last + 1
      ELSE IF last + 1 < stop THEN last + 2 ELSE None

\* The address of the pattern's $FF, row by row.
PatternEnd(img, start, ceil) ==
  LET stop == Min({start + Reach, img.hi, ceil})
      bytes == [a \in start .. stop + 7 |-> At(img, a)]
      From[a \in start .. stop + 3] ==
        IF a >= stop THEN None
        ELSE IF bytes[a] = 255 THEN a ELSE From[a + Columns(bytes, a)]
  IN  From[start]

PatternAt(img, a, term) ==
  LET packed == Chunk(img, a, term - a)
      length == At(img, term + 1)
  IN  IF ~Readable(img, term + 1, 1) THEN None
      ELSE [bytes |-> packed, length |-> IF length > 0 THEN length ELSE Len(Unpack(packed))]

\* The patterns the orderlists play, the instruments the pattern's rows select.
Played(seq) == {seq[i] : i \in {i \in DOMAIN seq : seq[i] < 128 /\ (i = 1 \/ seq[i - 1] # 255)}}
PlayedBy(seqs) == UNION {Played(seqs[k]) : k \in DOMAIN seqs}
Selected(pat) == LET rows == DecodeRows(Unpack(pat.bytes))
                 IN  {rows[i].inst : i \in DOMAIN rows} \ {0}
RefsResolve(seqs, pats) == \A p \in PlayedBy(seqs) : p <= Len(pats)

-----------------------------------------------------------------------------
(* A strict layout: every slot of every table decodes.                      *)

SlotAt(img, lay, a) ==
  IF lay.load <= a /\ a < lay.end /\ Readable(img, a + 11, 1)
    THEN Then(RowsEnd(img, a + At(img, a + 11), lay.instLo), LAMBDA e : InstrumentAt(img, a, e))
    ELSE None
Slot(img, lay, k) ==
  LET p == Resolve(lay, Word(img, lay.instLo + k, lay.instHi + k))
  IN  OrElse(SlotAt(img, lay, p), IF lay.reloc = 0 THEN None ELSE SlotAt(img, lay, p + lay.reloc))

\* The tables of pointers hold the unused slot 0 too.
Instruments(img, lay) ==
  IF Readable(img, lay.instLo, lay.insts + 1) /\ Readable(img, lay.instHi, lay.insts + 1)
    THEN Every([k \in 1 .. lay.insts |-> Slot(img, lay, k)]) ELSE None

PatternPtr(img, lay, k) == Resolve(lay, Word(img, lay.ptnLo + k, lay.ptnHi + k))

StrictPattern(img, lay, k) ==
  LET a == PatternPtr(img, lay, k)
      term == PatternEnd(img, a, MemSize)
  IN  IF lay.load <= a /\ a < lay.end /\ term # None THEN PatternAt(img, a, term) ELSE None

Patterns(img, lay) ==
  IF lay.pats = 0 \/ (/\ Readable(img, lay.ptnLo + 1, lay.pats)
                      /\ Readable(img, lay.ptnHi + 1, lay.pats))
    THEN Every([k \in 1 .. lay.pats |-> StrictPattern(img, lay, k)]) ELSE None

\* Where the patterns start, which is where the orderlists end.
LowestPattern(img, lay) ==
  Min({lay.end} \cup {PatternPtr(img, lay, k) : k \in 1 .. lay.pats})

\* Where the subtune table at base keeps the pointer to orderlist k (from 0).
BlockAddr(f, base, k) == base + Block(f) * (k \div Channels(f)) + 2 * (k % Channels(f))

PointersValid(f, img, lay, base, seqs, low) ==
  \A k \in 0 .. seqs - 1 :
    LET b == BlockAddr(f, base, k)
        p == Resolve(lay, Word(img, b, b + 1))
    IN  Readable(img, b, 2) /\ lay.load <= p /\ p < low

\* The places for a table of n subtunes below the instrument pointers.
Scan(f, img, lay, n, seqs, low) ==
  LET top == lay.instLo - Block(f) * n
      floor == Max({lay.load, top - ScanWindow})
  IN  {base \in floor .. top : PointersValid(f, img, lay, base, seqs, low)}

Tried(bases, n, seqs) == [i \in DOMAIN bases |-> [base |-> bases[i], subtunes |-> n, seqs |-> seqs]]

\* The places the code names, with the subtunes that fit below the next table.
FitAbove(f, lay, hint, sb) ==
  LET above == {x \in {lay.instLo} \cup f.static.code.chdp \cup f.static.code.tmpp : x > sb}
  IN  IF above = {} THEN 0 ELSE IF hint # 0 THEN hint ELSE (Min(above) - sb) \div Block(f)
CodeBlocks(f, lay, hint) ==
  LET Fit(sb) == FitAbove(f, lay, hint, sb)
      bases == Ascending({sb \in f.static.code.subt : Fit(sb) >= 1})
  IN  [i \in DOMAIN bases |->
         [base |-> bases[i], subtunes |-> Fit(bases[i]), seqs |-> Fit(bases[i]) * Channels(f)]]

\* Layout.subtunes: the subtune tables to try, in order.
Blocks(f, img, lay, low) ==
  CASE lay.how = "swp" ->
         <<[base |-> lay.table, subtunes |-> lay.subtunes, seqs |-> lay.subtunes * Channels(f)]>>
    [] lay.how = "swm" ->
         LET seqs == f.header.seqs
             n == SubtunesFor(f, seqs)
             found == Scan(f, img, lay, n, seqs, low)
         IN  IF found = {} THEN <<>> ELSE Tried(<<Max(found)>>, n, seqs)
    [] lay.how = "codescan" ->
         LET counts == IF lay.hint # 0 THEN <<lay.hint>> ELSE [i \in 1 .. 8 |-> 9 - i]
         IN  CodeBlocks(f, lay, lay.hint) \o FlattenSeq([i \in DOMAIN counts |->
               Tried(Descending(Scan(f, img, lay, counts[i], counts[i] * Channels(f), low)),
                     counts[i], counts[i] * Channels(f))])

Orders(img, a) == Then(SequenceEnd(img, a), LAMBDA end : Chunk(img, a, end - a))

OrderlistAt(img, lay, start) ==
  IF lay.load <= start /\ start < lay.end THEN Orders(img, start) ELSE None
Orderlist(f, img, lay, base, k) ==
  LET b == BlockAddr(f, base, k)
  IN  IF Readable(img, b, 2) THEN OrderlistAt(img, lay, Resolve(lay, Word(img, b, b + 1))) ELSE None

\* The orderlists of a block, if they play patterns that exist.
Orderlists(f, img, lay, block, pats) ==
  Then(Every([k \in 1 .. block.seqs |-> Orderlist(f, img, lay, block.base, k - 1)]),
       LAMBDA seqs : IF RefsResolve(seqs, pats) THEN seqs ELSE None)

-----------------------------------------------------------------------------
(* Chords, tempo programs and the tempo pair at the end of each block.      *)

\* A table at an address the code or the SWP block gives.
Table(img, a, n) == IF n = 0 THEN <<>> ELSE IF Readable(img, a, n) THEN Chunk(img, a, n) ELSE None

\* _codescan_chord_tempo: what cannot be read is empty.
ScannedTables(f, img, lay, base, low) ==
  LET chordBase == base - Restemp(f) - lay.tempoLen - lay.chordLen
      Only(set, off, n) ==
        IF Cardinality(set) = 1 THEN OrElse(Table(img, Max(set) + off, n), <<>>) ELSE <<>>
      Below(a, n) == IF chordBase > low THEN OrElse(Table(img, a, n), <<>>) ELSE <<>>
      Filled(named, below) == IF named = <<>> THEN below ELSE named
  IN  [chord |-> Filled(Only(img.code.chdt, 0, lay.chordLen), Below(chordBase, lay.chordLen)),
       tempo |-> Filled(Only(img.code.tmpt, 1, lay.tempoLen),
                        Below(chordBase + lay.chordLen + Restemp(f), lay.tempoLen))]

\* Above the patterns, below the subtune table, with the RESTEMP bytes between.
PlacedTables(f, img, lay, base, low) ==
  LET chordBase == base - Restemp(f) - lay.tempoLen - lay.chordLen
  IN  IF chordBase <= low THEN [chord |-> None, tempo |-> None]
      ELSE [chord |-> Table(img, chordBase, lay.chordLen),
            tempo |-> Table(img, chordBase + lay.chordLen + Restemp(f), lay.tempoLen)]

ChordTempo(f, img, lay, base, low) ==
  CASE lay.how = "swp" -> [chord |-> Table(img, lay.chordBase, lay.chordLen),
                           tempo |-> Table(img, lay.tempoBase, lay.tempoLen)]
    [] lay.how = "swm" -> PlacedTables(f, img, lay, base, low)
    [] lay.how = "codescan" -> ScannedTables(f, img, lay, base, low)
    [] lay.how = "player" -> ScannedTables(f, img, lay, lay.floor + ScanWindow, low)

\* The tolerant reader takes a pair it cannot read for zeros.
TempoPair(f, img, lay, base, st) ==
  LET b == base + Block(f) * (st + 1) - 2
  IN  IF base # None /\ Readable(img, b, 2) THEN <<At(img, b), At(img, b + 1)>>
      ELSE IF lay.how = "player" THEN <<0, 0>> ELSE None

WithTables(tables, seqs, ct, tempos, how) ==
  IF tempos = None \/ ct.chord = None \/ ct.tempo = None THEN None
  ELSE [seqs |-> seqs, pats |-> tables.pats, insts |-> tables.insts,
        chord |-> ct.chord, tempo |-> ct.tempo, tempos |-> tempos, how |-> how]
Assemble(f, img, lay, tables, base, n, seqs) ==
  WithTables(tables, seqs, ChordTempo(f, img, lay, base, tables.low),
            Every([i \in 1 .. n |-> TempoPair(f, img, lay, base, i - 1)]), lay.how)
=============================================================================
