---------------------------- MODULE SidStrategy -----------------------------
(***************************************************************************)
(* The strategies of sidreader.py: the layouts each offers, in order, and    *)
(* the song a layout decodes to.                                            *)
(***************************************************************************)
EXTENDS SidLayout

HasHeader(f) == f.header # None
Hint(f) == IF HasHeader(f) THEN SubtunesFor(f, f.header.seqs) ELSE 0

-----------------------------------------------------------------------------
(* swm-header: back from each end of the data the header could mean.        *)

SwmLayout(f, end) ==
  LET ptnHi == end - (f.header.pats + 1)
      ptnLo == ptnHi - f.header.pats
      instHi == ptnLo - f.header.insts
  IN  [how |-> "swm", load |-> f.load, end |-> end, ptrBase |-> 0, reloc |-> 0,
       instLo |-> instHi - (f.header.insts + 1), instHi |-> instHi, insts |-> f.header.insts,
       ptnLo |-> ptnLo, ptnHi |-> ptnHi, pats |-> f.header.pats,
       chordLen |-> f.header.chord, tempoLen |-> f.header.tempo]

SwmLayouts(f) == [i \in 1 .. f.static.hi - f.load |-> SwmLayout(f, f.static.hi + 1 - i)]

-----------------------------------------------------------------------------
(* swp: the bases are offsets from the SWP1 block, and the counts the        *)
(* distances between them.                                                  *)

SwpNames == <<"subtunes", "ptnLo", "ptnHi", "instLo", "instHi", "chord", "chordPtr",
              "tempo", "tempoPtr">>

SwpLayouts(f) ==
  LET img == f.static
      off == [i \in 1 .. 9 |-> Word(img, f.swp + 2 * i + 2, f.swp + 2 * i + 3)]
      Of(name) == off[CHOOSE i \in 1 .. 9 : SwpNames[i] = name]
      higher == {o \in {off[i] : i \in 1 .. 9} : o > Of("subtunes")}
      subtunes == (Min(higher) - Of("subtunes")) \div Block(f)
      insts == Of("ptnLo") - Of("instHi")
      pats == Of("ptnHi") - Of("ptnLo")
      chordLen == Of("tempo") - Of("chord")
      tempoLen == Of("subtunes") - Of("tempo") - Restemp(f)
  IN  IF \/ ~Readable(img, f.swp + 4, 18) \/ higher = {}
         \/ subtunes < 1 \/ insts < 0 \/ pats < 0 \/ chordLen < 0 \/ tempoLen < 0 THEN <<>>
      ELSE <<[how |-> "swp", load |-> f.load, end |-> img.hi, ptrBase |-> f.swp, reloc |-> 0,
              instLo |-> f.swp + Of("instLo"), instHi |-> f.swp + Of("instHi"), insts |-> insts,
              ptnLo |-> f.swp + Of("ptnLo"), ptnHi |-> f.swp + Of("ptnHi"), pats |-> pats,
              chordLen |-> chordLen, tempoLen |-> tempoLen,
              chordBase |-> f.swp + Of("chord"), tempoBase |-> f.swp + Of("tempo"),
              table |-> f.swp + Of("subtunes"), subtunes |-> subtunes]>>

-----------------------------------------------------------------------------
(* codescan: the pointer tables the player's instructions read.             *)

\* Pointer tables as <<lo, hi>>, the highest hi first.
Over(p, q) == p[2] > q[2] \/ (p[2] = q[2] /\ p[1] < q[1])
Ordered(pairs) ==
  [k \in 1 .. Cardinality(pairs) |-> CHOOSE q \in pairs : Cardinality({p \in pairs : Over(p, q)}) = k - 1]

\* A table read at two places, one relocated and one missed, gives the distance.
Deltas(f) ==
  LET pairs == f.static.code.pairs
      inside == {p \in pairs : f.load <= p[1] /\ p[1] < f.static.hi}
      twins == {pq \in inside \X (pairs \ inside) :
                  pq[1][2] - pq[1][1] = pq[2][2] - pq[2][1]}
  IN  {pq[1][1] - pq[2][1] : pq \in twins} \cup ({f.load - PlayerAddr} \ {0})

\* _codescan_meta: the lengths of the chord and tempo tables.
ScanLengths(f) ==
  LET code == f.static.code
      One(set) == Cardinality(set) = 1
      tempoBase == Max(code.tmpt) + 1
      AtLeast0(n) == Max({0, n})
  IN  IF HasHeader(f) THEN <<f.header.chord, f.header.tempo>>
      ELSE IF One(code.tmpt)
        THEN <<IF One(code.chdt) THEN AtLeast0(tempoBase - Max(code.chdt)) ELSE 0,
               IF One(code.subt) THEN AtLeast0(Max(code.subt) - Restemp(f) - tempoBase) ELSE 0>>
      ELSE <<IF One(code.chdt) /\ One(code.subt)
               THEN AtLeast0(Max(code.subt) - Restemp(f) - Max(code.chdt)) ELSE 0, 0>>

CodescanLayout(f, reloc, ptn, inst) ==
  [how |-> "codescan", load |-> f.load, end |-> f.static.hi, ptrBase |-> 0, reloc |-> reloc,
   instLo |-> inst[1], instHi |-> inst[2], insts |-> inst[2] - inst[1] - 1,
   ptnLo |-> ptn[1], ptnHi |-> ptn[2], pats |-> ptn[2] - ptn[1],
   chordLen |-> ScanLengths(f)[1], tempoLen |-> ScanLengths(f)[2], hint |-> Hint(f)]

\* The instruments' pointers lie below the patterns'.
Below(pairs, ptn) == Ordered({p \in pairs : p[1] < ptn})
CodescanLayouts(f) ==
  LET pairs == Ordered(f.static.code.pairs)
      relocs == <<0>> \o Ascending(Deltas(f))
      Under(ptn) == Below(f.static.code.pairs, ptn[1])
      Paired(reloc, ptn) == [i \in DOMAIN Under(ptn) |-> CodescanLayout(f, reloc, ptn, Under(ptn)[i])]
  IN  IF Len(pairs) < 2 THEN <<>>
      ELSE FlattenSeq([r \in DOMAIN relocs |->
             FlattenSeq([i \in DOMAIN pairs |-> Paired(relocs[r], pairs[i])])])

-----------------------------------------------------------------------------
(* via-player: the memory the tune's own init leaves.                       *)

\* The orderlists of a subtune: operands init patched, or a block of SUBTUNES.
Bases(f, img, form, st) ==
  IF form = "direct"
    THEN IF Len(img.code.direct) >= Channels(f) THEN SubSeq(img.code.direct, 1, Channels(f)) ELSE <<>>
  ELSE IF img.code.subt = {} THEN <<>>
       ELSE [c \in 1 .. Channels(f) |->
               LET b == BlockAddr(f, Min(img.code.subt), st * Channels(f) + c - 1)
               IN  Word(img, b, b + 1)]

DataEnd(img) == Min(UNION {{p[1], p[2]} : p \in img.code.pairs})

\* The pattern tables on which the first subtune's orderlists resolve.
Fits(img, floor, refs, p) ==
  LET InData(a) == floor <= a /\ a < DataEnd(img)
  IN  /\ 0 < p[2] - p[1] /\ p[2] - p[1] < 256
      /\ refs # {} /\ Max(refs) <= p[2] - p[1]
      /\ \A k \in refs \ {0} : InData(Word(img, p[1] + k, p[2] + k))
FittingAt(img, bases) ==
  LET Fit(seqs) == SelectSeq(Ordered(img.code.pairs),
                             LAMBDA p : Fits(img, Min(ToSet(bases)), PlayedBy(seqs), p))
  IN  IF bases = <<>> THEN <<>>
      ELSE OrElse(Then(Every([i \in DOMAIN bases |-> Orders(img, bases[i])]), Fit), <<>>)
Fitting(f, form) == FittingAt(f.first, Bases(f, f.first, form, 0))

\* Of the two forms the first that resolves, so that a stale operand is passed over.
Form(f) == IF Fitting(f, "direct") # <<>> THEN "direct" ELSE "table"

PlayerSeqs(f) == IF HasHeader(f) THEN f.header.seqs ELSE Channels(f)
PlayerSubtunes(f) == SubtunesFor(f, PlayerSeqs(f))

Runs(f) == /\ f.first # None /\ f.first.code.pairs # {}
           /\ Fitting(f, Form(f)) # <<>>

\* Init run again for each subtune and once more: an error there ends the parse.
PlayerAborts(f) == Runs(f) /\ (f.last = None \/ \E st \in 1 .. PlayerSubtunes(f) : f.runs[st] = None)

\* The orderlists of each subtune as its init left them, None where there is no data.
PlayerLists(f, form, floor) ==
  LET LeftBy(st) == Bases(f, f.runs[st], form, st - 1)
      Stored(st, c) == IF LeftBy(st) = <<>> THEN None ELSE LeftBy(st)[c]
      Real(a) == IF a # None /\ floor <= a /\ a < DataEnd(f.first) THEN a ELSE None
  IN  [i \in 1 .. PlayerSeqs(f) |-> Real(Stored(1 + ((i - 1) \div Channels(f)), 1 + ((i - 1) % Channels(f))))]
Lowest(lists, floor) ==
  IF ToSet(lists) \subseteq {None} THEN floor ELSE Min(ToSet(lists) \ {None})
PlayerLayoutOf(f, ptn, floor, lists) ==
  LET subt == f.last.code.subt
  IN  [how |-> "player", ptnLo |-> ptn[1], ptnHi |-> ptn[2], pats |-> ptn[2] - ptn[1],
       insts |-> 0, lists |-> lists, ceil |-> DataEnd(f.first), subtunes |-> PlayerSubtunes(f),
       floor |-> Lowest(lists, floor), table |-> IF subt = {} THEN None ELSE Min(subt),
       chordLen |-> IF HasHeader(f) THEN f.header.chord ELSE 0,
       tempoLen |-> IF HasHeader(f) THEN f.header.tempo ELSE 0]
PlayerLayoutIn(f, form) ==
  LET floor == Min(ToSet(Bases(f, f.first, form, 0)))
  IN  PlayerLayoutOf(f, Fitting(f, form)[1], floor, PlayerLists(f, form, floor))
PlayerLayout(f) == PlayerLayoutIn(f, Form(f))

PlayerLayouts(f) == IF Runs(f) /\ ~PlayerAborts(f) THEN <<PlayerLayout(f)>> ELSE <<>>

\* A pattern or instrument that nothing plays may be absent: it is empty.
Blank(f) == LET n == IF HasHeader(f) /\ f.header.default # 0 THEN f.header.default ELSE 32
            IN  [bytes |-> [i \in 1 .. n |-> 0], length |-> n]
NoInstrument == [body |-> <<>>, sound |-> TRUE]

InData(lay, a) == lay.floor <= a /\ a < lay.ceil

PlayedPattern(f, lay, primary, k) ==
  LET a == Word(f.last, lay.ptnLo + k, lay.ptnHi + k)
      term == IF InData(lay, a) THEN PatternEnd(f.last, a, lay.ceil) ELSE None
  IN  IF term # None THEN PatternAt(f.last, a, term)
      ELSE IF k \in primary THEN None ELSE Blank(f)

PlayedInstrument(f, lay, used, lo, hi, k) ==
  LET a == Word(f.last, lo + k, hi + k)
      end == OrElse(RowsEnd(f.last, a + At(f.last, a + 11), lay.ceil), lay.ceil)
  IN  OrElse(IF InData(lay, a) THEN InstrumentAt(f.last, a, end) ELSE None,
             IF k \in used THEN None ELSE NoInstrument)

\* The highest pointer table below the patterns', or by the header's count.
PlayedInstruments(f, lay, used) ==
  LET below == Below(f.first.code.pairs, lay.ptnLo)
      n == f.header.insts
      From(lo, hi, amount) ==
        Every([k \in 1 .. amount |-> PlayedInstrument(f, lay, used, lo, hi, k)])
      Wide(w) == From(lay.ptnLo - 2 * w, lay.ptnLo - w, n)
  IN  IF below # <<>> THEN From(below[1][1], below[1][2], below[1][2] - below[1][1] - 1)
      ELSE IF ~HasHeader(f) THEN None
      ELSE OrElse(Wide(n + 1), Wide(n))

PlayedSeqs(f, lay) ==
  Every([i \in DOMAIN lay.lists |->
           IF lay.lists[i] = None THEN <<254>> ELSE Orders(f.last, lay.lists[i])])
PlayedPatterns(f, lay, seqs) ==
  LET primary == PlayedBy(SubSeq(seqs, 1, Min({Channels(f), Len(seqs)})))
  IN  Every([k \in 1 .. lay.pats |-> PlayedPattern(f, lay, primary, k)])
Used(seqs, pats) == UNION {Selected(pats[k]) : k \in PlayedBy(seqs) \cap DOMAIN pats} \cap 1 .. 63

PlayedSong(f, lay) ==
  LET seqs == PlayedSeqs(f, lay)
      pats == PlayedPatterns(f, lay, seqs)
      insts == PlayedInstruments(f, lay, Used(seqs, pats))
  IN  IF seqs = None \/ pats = None \/ insts = None \/ ~RefsResolve(seqs, pats) THEN None
      ELSE Assemble(f, f.last, lay, [pats |-> pats, insts |-> insts, low |-> lay.floor],
                    lay.table, lay.subtunes, seqs)

-----------------------------------------------------------------------------
(* What every strategy's candidate goes through.                            *)

Layouts(f, how) ==
  CASE how = "swp" -> SwpLayouts(f)
    [] how = "swm" -> SwmLayouts(f)
    [] how = "codescan" -> CodescanLayouts(f)
    [] how = "player" -> PlayerLayouts(f)

Plausible(lay) ==
  lay.insts >= 0 /\ lay.pats >= 0 /\ (lay.how \in {"swm", "codescan"} => lay.instLo > lay.load)

\* The patterns and instruments of a strict layout, and where the patterns start.
Tables(f, lay) ==
  IF ~Plausible(lay) THEN None
  ELSE Then(Instruments(f.static, lay), LAMBDA insts :
         Then(Patterns(f.static, lay), LAMBDA pats :
           [insts |-> insts, pats |-> pats, low |-> LowestPattern(f.static, lay)]))

\* The module of a file drives every chip its container has.
OneModule(f) == f.sids >= f.chips
\* No container, too few chips, or a header that the file cuts off.
Refused(f) == f.form # "sid" \/ ~OneModule(f) \/ (f.swp = None /\ f.cut)

\* _parse_sid_layout: the strategies in the order they are tried.
Strategies(f) ==
  IF f.swp # None THEN <<"swp">>
  ELSE IF HasHeader(f) THEN <<"swm", "codescan", "player">> ELSE <<"codescan", "player">>

\* _check_played_instruments.
PlayedSound(song) ==
  \A p \in PlayedBy(song.seqs) \cap DOMAIN song.pats :
    \A k \in Selected(song.pats[p]) \cap DOMAIN song.insts : song.insts[k].sound
=============================================================================
