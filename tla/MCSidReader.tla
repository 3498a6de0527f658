---------------------------- MODULE MCSidReader -----------------------------
(***************************************************************************)
(* The files of the instance: small songs as SID-Maker exports them, and     *)
(* what becomes of such an export.                                          *)
(***************************************************************************)
EXTENDS SongEntry

CONSTANT CodeTempos   \* may a song found by its player's code have tempo programs?

Lo(a) == a % 256
Hi(a) == a \div 256

-----------------------------------------------------------------------------
(* Players.                                                                 *)

\* The player's builds: the normal one, an edited one, and the light one with an older
\* release's ways.
Quirk(old, limit) ==
  [first_frame_freq_by_track |-> old, first_frame_fixed_waveform |-> old,
   filter_stop_rewinds |-> ~old, kbtrack_fswitch |-> ~old, wfctrl_fx_stores |-> old,
   sel_ins_limit |-> limit]
Assembled(build) == {flag \in Flags : build \in OnIn[flag]}
Normal == [on |-> Assembled("normal"), quirks |-> Quirk(FALSE, 63)]
Edited == [on |-> (Assembled("extra") \ {"chordsupport"}) \cup {"vibslidealways"},
           quirks |-> Quirk(FALSE, 40)]
Light == [on |-> (Assembled("light") \ {"multispeedsupp"}) \cup {"portavibra"},
          quirks |-> Quirk(TRUE, 63)]

\* The sites of a player at base: a flag that shows only when on has none when off, the
\* filter switch has a second site that is off, and code like a stopping filter's follows.
Site(of, at, val) == [of |-> of, at |-> at, val |-> val]
SitesOf(build, base) ==
  LET shown == (Flags \ (Unread \cup OnlyOn \cup {"vibslidealways"}))
                \cup (OnlyOn \cap build.on)
      InSeq(S) == FoldSet(LAMBDA facet, seq : Append(seq, facet), <<>>, S)
      facets == InSeq(shown)
      quirks == InSeq(DOMAIN build.quirks)
  IN  [i \in DOMAIN facets |-> Site(facets[i], base, facets[i] \in build.on)]
      \o [i \in DOMAIN quirks |-> Site(quirks[i], base, build.quirks[quirks[i]])]
      \o <<Site("hrender", base, IF "vibslidealways" \in build.on THEN base + 6 ELSE base + 7),
           Site("filtresetsw", base + 1, FALSE),
           Site("filter_stop_rewinds", base + 1, ~build.quirks.filter_stop_rewinds),
           Site("sel_ins_limit", base + 1, 9),
           Site("cntplay", base + 2, base + 6), Site("not_cntply2", base + 7, TRUE)>>

-----------------------------------------------------------------------------
(* Songs.                                                                   *)

Header16(pw, filt) == [i \in 1 .. 16 |-> IF i = 11 THEN pw ELSE IF i = 12 THEN filt ELSE 9]
Instrument(wf, pw, filt) ==
  Header16(17 + Len(wf), 18 + Len(wf) + Len(pw)) \o wf \o <<255>> \o pw \o <<255>> \o filt

\* A filter row with $FF where it is data, and an instrument that only jumps.
Swept == Instrument(<<33, 0, 0>>, <<>>, <<10, 255, 255>>)
Plain == Instrument(<<254, 16, 0>>, <<136, 0, 0>>, <<>>)

\* A note with the instrument, a rest of eleven rows, and rows with effects, $FF among their columns.
Notes(k) == [bytes |-> <<177, k, 0, 119>>, length |-> 11]
Effects == [bytes |-> <<176, 130, 4, 66, 176, 255, 64, 126>>, length |-> 3]

\* A wave row of two bytes: no table of it ends where the player looks.
Crooked == Instrument(<<33, 0>>, <<>>, <<>>)

\* A song whose second instrument nothing plays, one of two subtunes, and one of six
\* channels.
Songs ==
  {[sids |-> 1, progs |-> <<>>, seqs |-> <<<<1, 254>>, <<144, 1, 255, 1>>, <<254>>>>, pats |-> <<Notes(1)>>,
    insts |-> <<Swept, Crooked>>, chord |-> <<4, 7, 126>>, tempos |-> <<<<134, 0>>>>],
   [sids |-> 1, progs |-> <<>>, seqs |-> <<<<1, 2, 254>>, <<2, 255, 0>>, <<254>>, <<2, 254>>, <<1, 254>>, <<160, 2, 254>>>>,
    pats |-> <<Notes(2), Effects>>, insts |-> <<Plain, Swept>>, chord |-> <<>>,
    tempos |-> <<<<6, 5>>, <<131, 0>>>>],
   [sids |-> 2, progs |-> <<>>, seqs |-> <<<<1, 254>>, <<254>>, <<254>>, <<1, 255, 0>>, <<254>>, <<1, 254>>>>,
    pats |-> <<Notes(1)>>, insts |-> <<Plain>>, chord |-> <<5, 127>>, tempos |-> <<<<4, 4>>>>]}

Program == <<3, 132>>

\* The build a song is exported with, and the driver byte of its header.
BuildFor(s) == IF s.sids = 2 THEN Light ELSE IF Len(s.pats) = 2 THEN Edited ELSE Normal
DriverFor(s) == IF s.sids = 2 THEN 2 ELSE IF Len(s.pats) = 2 THEN 77 ELSE 0

-----------------------------------------------------------------------------
(* The export: player, orderlists, patterns, instruments, chords, RESTEMP,   *)
(* tempo programs, subtunes, tempo and chord pointers, pointer tables.       *)

Player == <<76, 9, 16, 76, 64, 16, 83, 73>>
Starts(base, sizes) ==
  [k \in DOMAIN sizes |-> base + FoldFunctionOnSet(+, 0, sizes, 1 .. k - 1)]
Sizes(streams) == [k \in DOMAIN streams |-> Len(streams[k])]
Size(streams) == Len(FlattenSeq(streams))

\* The player's own tempo bytes: two, and two for each channel.
Gap(s) == 2 + 6 * s.sids

\* Where everything lies when the tune starts at base.
Placed(s, pats, insts, at) ==
  [pats |-> pats, insts |-> insts, seqAt |-> Starts(at[1], Sizes(s.seqs)),
   patAt |-> Starts(at[2], Sizes(pats)), instAt |-> Starts(at[3], Sizes(insts)),
   chord |-> at[4], tempo |-> at[5], subt |-> at[6], tmpp |-> at[7], chdp |-> at[8],
   instLo |-> at[9], instHi |-> at[10], ptnLo |-> at[11], ptnHi |-> at[12], end |-> at[13]]
PlacedFrom(s, base, pats, insts) ==
  Placed(s, pats, insts, Starts(base,
    <<Size(s.seqs), Size(pats), Size(insts), Len(s.chord),
      Gap(s) + Len(s.progs),                            \* TEMPOTBL: RESTEMP first
      Block(s) * Len(s.tempos), 2, 2, Len(insts) + 1, Len(insts), Len(pats), Len(pats) + 1, 0>>))
Place(s, base) ==
  PlacedFrom(s, base, [k \in DOMAIN s.pats |-> s.pats[k].bytes \o <<255, s.pats[k].length>>],
             [k \in DOMAIN s.insts |-> s.insts[k] \o <<255>>])

\* The bytes of a place, with Ptr(a) stored for a pointer to a.
BytesAt(s, p, Ptr(_)) ==
  LET Low(at) == [k \in DOMAIN at |-> Lo(Ptr(at[k]))]
      High(at) == [k \in DOMAIN at |-> Hi(Ptr(at[k]))]
      SubtuneBlock(st) ==
        FlattenSeq([c \in 1 .. Channels(s) |->
          LET a == Ptr(p.seqAt[Channels(s) * (st - 1) + c]) IN <<Lo(a), Hi(a)>>])
        \o [i \in 1 .. Block(s) - 2 * Channels(s) - 2 |-> 0] \o s.tempos[st]
  IN  FlattenSeq(s.seqs) \o FlattenSeq(p.pats) \o FlattenSeq(p.insts) \o s.chord
      \o [i \in 1 .. Gap(s) |-> 0] \o s.progs
      \o FlattenSeq([st \in DOMAIN s.tempos |-> SubtuneBlock(st)])
      \o <<0, 2, 0, 3>> \o <<0>> \o Low(p.instAt) \o <<0>> \o High(p.instAt)
      \o Low(p.patAt) \o High(p.patAt)
Bytes(s, base, Ptr(_)) == BytesAt(s, Place(s, base), Ptr)

NoCode == [pairs |-> {}, subt |-> {}, chdp |-> {}, tmpp |-> {}, chdt |-> {}, tmpt |-> {},
           direct |-> <<>>, sites |-> <<>>]
Operands(p) == [NoCode EXCEPT !.pairs = {<<p.instLo, p.instHi>>, <<p.ptnLo, p.ptnHi>>},
                  !.subt = {p.subt}, !.chdp = {p.chdp}, !.tmpp = {p.tmpp}, !.chdt = {p.chord},
                  !.tmpt = {p.tempo - 1}]
\* The code of the player at base, whose operands may not be found.
Blind(s, base) == [NoCode EXCEPT !.sites = SitesOf(BuildFor(s), base)]
Code(s, base) == [Operands(Place(s, base + Len(Player))) EXCEPT !.sites = SitesOf(BuildFor(s), base)]

\* The file's own bytes, above a container header of $7C bytes and a load address.
Static(load, bytes, code) ==
  [lo |-> load - 126, hi |-> load + Len(bytes), code |-> code,
   mem |-> [a \in load .. load + Len(bytes) - 1 |-> bytes[a - load + 1]]]
Memory(load, bytes, code) == [Static(load, bytes, code) EXCEPT !.lo = 0, !.hi = MemSize]

Counts(s) == [seqs |-> Len(s.seqs), pats |-> Len(s.pats), insts |-> Len(s.insts),
              chord |-> Len(s.chord), tempo |-> Len(s.progs), default |-> 0,
              driver |-> DriverFor(s)]

Parts(s) == [seqs |-> s.seqs, pats |-> s.pats, tempos |-> s.tempos, chord |-> s.chord,
             tempo |-> s.progs, insts |-> s.insts]

Base == PlayerAddr + Len(Player)
File(s) ==
  [load |-> PlayerAddr, sids |-> s.sids, chips |-> s.sids, header |-> Counts(s), cut |-> FALSE,
   form |-> "sid", starter |-> None, signature |-> TRUE, build |-> BuildFor(s),
   swp |-> None, static |-> Static(PlayerAddr, Player \o Bytes(s, Base, LAMBDA a : a),
                                   Blind(s, PlayerAddr)),
   first |-> None, runs |-> [st \in 1 .. 8 |-> None], last |-> None, exported |-> Parts(s),
   players |-> <<>>, entryAt |-> PlayerAddr, foreign |-> FALSE, inits |-> <<>>]

Scanned(s) == [File(s) EXCEPT !.static.code = Code(s, PlayerAddr)]

Stub(s) ==
  [File(s) EXCEPT !.static = Static(PlayerAddr, Player \o Bytes(s, Base, LAMBDA a : a) \o <<32, 3, 16>>,
                                     Blind(s, PlayerAddr))]
Stale(s) == [Scanned(s) EXCEPT !.header.pats = 9, !.header.insts = 3]
Stripped(s) == [Scanned(s) EXCEPT !.header = None]

\* Moved, every pointer with it or some kept as they were.
Moved(s, to, Missed(_)) ==
  LET Ptr(a) == IF Missed(a) THEN a - to ELSE a
      base == Base + to
  IN  [File(s) EXCEPT !.load = PlayerAddr + to, !.header = None,
         !.static = Static(PlayerAddr + to, Player \o Bytes(s, base, Ptr),
                           Code(s, PlayerAddr + to))]

SwpBase == PlayerAddr + Len(Player)
SwpBytes(s, p) ==
  LET Off(a) == <<Lo(a - SwpBase), Hi(a - SwpBase)>>
  IN  <<83, 87, 80, 49>> \o Off(p.subt) \o Off(p.ptnLo) \o Off(p.ptnHi) \o Off(p.instLo)
      \o Off(p.instHi) \o Off(p.chord) \o Off(p.chdp) \o Off(p.tempo) \o Off(p.tmpp)
      \o BytesAt(s, p, LAMBDA a : a - SwpBase)
Swp(s) ==
  [File(s) EXCEPT !.swp = SwpBase,
     !.header = [seqs |-> 3, pats |-> 1, insts |-> 1, chord |-> 9, tempo |-> 0, default |-> 0,
                 driver |-> DriverFor(s)],
     !.static = Static(PlayerAddr, Player \o SwpBytes(s, Place(s, SwpBase + 22)), Blind(s, PlayerAddr))]

\* In memory only once init ran; with the operands of the player, or those of the
\* RAM player beside the subtune table.
Image(s, p, direct) ==
  Memory(PlayerAddr, Player \o BytesAt(s, p, LAMBDA a : a), [Operands(p) EXCEPT !.direct = direct])
Left(s, Run(_), runs, last) ==
  [File(s) EXCEPT !.static = Static(PlayerAddr, Player, NoCode), !.build = None,
     !.first = Run(1), !.runs = [st \in 1 .. 8 |-> IF st <= runs THEN Run(st) ELSE None],
     !.last = last]
Hidden(s, direct) ==
  LET Always(image) == Left(s, LAMBDA st : image, 8, image)
  IN  Always(Image(s, Place(s, Base), direct))

\* The RAM player: init stores the orderlists of the subtune in its operands.  There is
\* no table of subtunes to read the tempo pairs from, and no header but for its counts.
After(s, p, st) ==
  [Image(s, p, SubSeq(p.seqAt, Channels(s) * (st - 1) + 1, Channels(s) * st)) EXCEPT !.code.subt = {}]
Direct(s) ==
  LET At1(p) == Left(s, LAMBDA st : After(s, p, st), Len(s.tempos), After(s, p, 1))
  IN  [At1(Place(s, Base)) EXCEPT !.exported.tempos = [st \in DOMAIN s.tempos |-> <<0, 0>>]]

\* The header counts the first orderlist of a subtune and no more of them.
Partial(s) ==
  LET n == Len(s.seqs) - 2
  IN  [Hidden(s, <<>>) EXCEPT !.header.seqs = n, !.exported.seqs = SubSeq(s.seqs, 1, n)]

\* Saved as a program: the image of a PSID or RSID behind a starter, with code of its own
\* between the load address and init; or the bare player, with or without a tune header.
StartedWith(s, kind, lead, init, bytes) ==
  [File(s) EXCEPT !.form = IF kind = "PSID" THEN "program" ELSE "sid",
     !.load = 2049, !.entryAt = 2049, !.static = Static(2049, <<11, 8>> \o bytes, NoCode),
     !.starter = [kind |-> kind, load |-> PlayerAddr - Len(lead), init |-> init, bytes |-> bytes,
                  code |-> Code(s, PlayerAddr)]]
Started(s, kind, lead, init) ==
  StartedWith(s, kind, lead, init, lead \o Player \o Bytes(s, Base, LAMBDA a : a))
Bare(f, signature) == [f EXCEPT !.form = "program", !.signature = signature]

Exports ==
  LET InPlace(s) == {File(s), Scanned(s), Stub(s), Started(s, "PSID", <<32, 9>>, PlayerAddr),
                     Started(s, "PSID", <<>>, PlayerAddr), Started(s, "RSID", <<>>, 0),
                     Bare(File(s), FALSE)}
      Kinds(s) == {Stale(s), Stripped(s), Swp(s), Bare(Stripped(s), TRUE), Bare(Swp(s), FALSE),
                   Moved(s, 8192, LAMBDA a : FALSE),
                   Moved(s, 8192, LAMBDA a : a % 2 = 0), Moved(s, 8192, LAMBDA a : TRUE),
                   Hidden(s, <<>>), Hidden(s, [i \in 1 .. 6 |-> PlayerAddr]),
                   Direct(s), Partial(s)}
      WithProgram(s) == [s EXCEPT !.progs = Program]
  IN  UNION {InPlace(WithProgram(s)) : s \in Songs}
      \cup UNION {Kinds(IF CodeTempos THEN WithProgram(s) ELSE s) : s \in Songs}

\* What is no export any more.
Broken ==
  LET Lost(f) == [f EXCEPT !.exported = None]
      Kinds(s) == {Lost([File(s) EXCEPT !.chips = 3]),
                   Lost([File(s) EXCEPT !.header = None, !.cut = TRUE]),
                   Lost([Hidden(s, <<>>) EXCEPT !.runs[1] = None]),
                   Lost([Hidden(s, <<>>) EXCEPT !.last = None]),
                   Lost([Hidden(s, <<>>) EXCEPT !.first = None]),
                   Lost(Bare(Stripped(s), FALSE))}
      Crook(s) == [s EXCEPT !.insts[1] = Crooked]
  IN  UNION {Kinds(s) \cup {Lost(File(Crook(s))), Lost(Hidden(Crook(s), <<>>))} : s \in Songs}

-----------------------------------------------------------------------------
(* Songs of a container.                                                    *)

Step(op, at, to) == [op |-> op, at |-> at, to |-> to]
Init1(steps, plays) == [steps |-> steps, plays |-> plays]
Subtune1(s, st, insts) ==
  [seqs |-> SubSeq(s.seqs, Channels(s) * st + 1, Channels(s) * (st + 1)),
   tempos |-> <<s.tempos[st + 1]>>, insts |-> insts]

OneSubtune == CHOOSE s \in Songs : Len(s.insts) = 2 /\ Len(s.pats) = 1
TwoSubtunes == CHOOSE s \in Songs : Len(s.pats) = 2

\* Byte 1 of the first instrument, and the instruments with 77 there.
Volume(s, base) == Place(s, base).instAt[1] + 1
Louder(s) == [s.insts EXCEPT ![1] = [s.insts[1] EXCEPT ![2] = 77]]

\* The player itself is init, and patches an instrument on its way.
Patching(s) ==
  [Scanned(s) EXCEPT
     !.players = PlayerAddr :> [code |-> Code(s, PlayerAddr), header |-> Counts(s),
                                 build |-> BuildFor(s)],
     !.inits = [st \in DOMAIN s.tempos |->
        Init1(<<Step("enter", PlayerAddr, 0), Step("patch", Volume(s, Base), 77),
                Step("store", PlayerAddr, Block(s) * (st - 1))>>,
              Subtune1(s, st - 1, Louder(s)))]]

\* A wrapper with two players, a song of each behind it.
Wrapped ==
  LET a == OneSubtune
      b == TwoSubtunes
      atA == PlayerAddr + 4
      atB == Place(a, atA + Len(Player)).end
      codeA == Code(a, atA)
      codeB == Code(b, atB)
      Id(x) == x
      bytes == <<32, 32, 32, 96>> \o Player \o Bytes(a, atA + Len(Player), Id)
               \o Player \o Bytes(b, atB + Len(Player), Id)
      EnterA == <<Step("enter", atA, 0), Step("store", atA, 0)>>
      EnterB(st) == <<Step("enter", atB, 0), Step("store", atB, 8 * st)>>
      Louden == <<Step("patch", Volume(a, atA + Len(Player)), 77)>>
  IN  [File(a) EXCEPT
         !.exported = None, !.build = None,
         !.static = Static(PlayerAddr, bytes, [codeB EXCEPT !.pairs = codeA.pairs \cup codeB.pairs,
                                                            !.subt = codeA.subt \cup codeB.subt,
                                                            !.sites = codeA.sites \o codeB.sites]),
         !.players = (atA :> [code |-> codeA, header |-> Counts(a), build |-> BuildFor(a)])
                     @@ (atB :> [code |-> codeB, header |-> Counts(b), build |-> BuildFor(b)]),
         !.inits = <<Init1(EnterA, Subtune1(a, 0, a.insts)),
                     Init1(EnterB(1), Subtune1(b, 1, b.insts)),
                     Init1(EnterA \o EnterB(0), Subtune1(b, 0, b.insts)),
                     Init1(EnterB(1) \o Louden \o EnterA, Subtune1(a, 0, Louder(a))),
                     Init1(EnterB(5), None), Init1(<<>>, None),
                     Init1(<<Step("enter", atB, 0)>>, None)>>]

\* Both players without a wrapper: init is the second.
Unwrapped(f) == [f EXCEPT !.entryAt = Max(DOMAIN f.players), !.inits = <<>>,
                          !.build = BuildFor(TwoSubtunes)]
Second == Unwrapped(Wrapped)

\* A packed tune whose base the wrapper hands to the player behind it.
PackedBehind(s, f) ==
  LET base == f.static.hi
      bytes == [a \in 1 .. base - PlayerAddr |-> f.static.mem[PlayerAddr + a - 1]] \o Player
  IN  [f EXCEPT !.static = Static(PlayerAddr, bytes, Blind(s, base)),
         !.players = base :> [code |-> Blind(s, base), header |-> f.header, build |-> BuildFor(s)],
         !.inits = <<Init1(<<Step("enter", base, SwpBase), Step("store", base, 8)>>,
                           Subtune1(s, 0, s.insts))>>]
Packed(s) == PackedBehind(s, Swp(s))

Foreign == [File(OneSubtune) EXCEPT !.foreign = TRUE, !.inits = <<Init1(<<>>, None)>>]

MCFiles == Exports \cup Broken \cup {Wrapped, Second, Foreign, Packed(OneSubtune)}
           \cup {Patching(s) : s \in Songs}

\* What the theorem about the view of a song asks of the headers.
ASSUME HeadersHere == \A f \in Files : HeadersCount(AsContainer(f))
=============================================================================
