----------------------------- MODULE SidReader ------------------------------
(***************************************************************************)
(* parse_sid (sidreader.py): the search for the tune's tables.  Strategy     *)
(* after strategy offers candidate layouts; each is read region by region,   *)
(* the subtune tables of a layout in turn, until one holds together.  The    *)
(* player-run strategy's own re-runs of init may end the parse instead, and  *)
(* so may a malformed instrument of the tune that was found.  The file is    *)
(* first taken for the container it stands for, and the build of the player  *)
(* is read from its code at last.                                           *)
(***************************************************************************)
EXTENDS SidFeatures, SidContainer

CONSTANT Files

VARIABLES
  file,    \* the file read
  stage,   \* "stored", "open", "layout", "blocks", "found", "done"
  plan,    \* the strategies left, the current one first
  cand,    \* the number of its candidate
  tables,  \* the patterns and instruments of the candidate
  block,   \* the number of the subtune table tried
  song     \* what was found

vars == <<file, stage, plan, cand, tables, block, song>>

-----------------------------------------------------------------------------
(* What a file is.                                                          *)

IsCode(code) ==
  /\ IsFiniteSet(code.pairs) /\ code.pairs \subseteq Nat \X Nat
  /\ \A named \in {code.subt, code.chdp, code.tmpp} : IsFiniteSet(named) /\ named \subseteq Nat
  /\ code.direct \in Seq(Nat)
IsImage(img) ==
  /\ img.hi \in Nat /\ IsCode(img.code)
  /\ \A a \in DOMAIN img.mem : img.mem[a] \in 0 .. 255

\* Init was run for each subtune there is.
IsHeader(f, h) ==
  /\ h.seqs \in Nat /\ h.pats \in Nat /\ h.insts \in Nat
  /\ 1 .. SubtunesFor(f, h.seqs) \subseteq DOMAIN f.runs
IsFile(f) ==
  /\ DOMAIN f = {"load", "sids", "chips", "header", "cut", "form", "starter", "signature", "swp", "static",
                 "first", "runs", "last", "players", "entryAt", "foreign", "inits", "exported", "build"}
  /\ f.sids \in 1 .. 3 /\ f.load \in Nat /\ f.swp \in Nat \cup {None} /\ IsImage(f.static)
  /\ f.header # None => IsHeader(f, f.header)
  /\ 1 \in DOMAIN f.runs /\ \A st \in DOMAIN f.runs : f.runs[st] # None => IsImage(f.runs[st])
  /\ f.last # None => IsImage(f.last)
  /\ f.starter # None => /\ f.starter.load \in Nat /\ f.starter.init \in Nat
                         /\ f.starter.bytes \in Seq(0 .. 255) /\ IsCode(f.starter.code)

ASSUME FilesAreFiles == \A f \in Files : IsFile(f)

-----------------------------------------------------------------------------

NoTables == [insts |-> <<>>, pats |-> <<>>, low |-> 0]

Init ==
  /\ file \in Files
  /\ stage = "stored" /\ plan = <<>> /\ cand = 1 /\ tables = NoTables /\ block = 1
  /\ song = None

-----------------------------------------------------------------------------

Open ==
  /\ stage = "stored"
  /\ stage' = "open" /\ file' = AsContainer(file)
  /\ UNCHANGED <<plan, cand, tables, block, song>>

Refuse ==
  /\ stage = "open" /\ Refused(file)
  /\ stage' = "done"
  /\ UNCHANGED <<file, plan, cand, tables, block, song>>

Begin ==
  /\ stage = "open" /\ ~Refused(file)
  /\ stage' = "layout" /\ plan' = Strategies(file)
  /\ UNCHANGED <<file, cand, tables, block, song>>

Candidates == Layouts(file, Head(plan))
Offered == stage = "layout" /\ cand <= Len(Candidates)
Layout == Candidates[cand]
Strict == Head(plan) # "player"

\* A layout error ends the candidate.
NextCandidate == stage' = "layout" /\ cand' = cand + 1 /\ tables' = NoTables /\ block' = 1

ReadTables ==
  /\ Offered /\ Strict
  /\ \E t \in {Tables(file, Layout)} :
       IF t = None THEN NextCandidate
       ELSE stage' = "blocks" /\ tables' = t /\ UNCHANGED <<cand, block>>
  /\ UNCHANGED <<file, plan, song>>

\* What a candidate decodes to is the song, or the next one is tried.
Take(found) ==
  IF found = None THEN NextCandidate /\ UNCHANGED song
  ELSE stage' = "found" /\ song' = found /\ UNCHANGED <<cand, tables, block>>

\* The first subtune table whose orderlists decode and play existing patterns;
\* what surrounds it may still refuse the layout.
TryBlock ==
  /\ stage = "blocks"
  /\ \E lay \in {Layout} : \E blocks \in {Blocks(file, file.static, lay, tables.low)} :
       IF block > Len(blocks) THEN NextCandidate /\ UNCHANGED song
       ELSE \E seqs \in {Orderlists(file, file.static, lay, blocks[block], tables.pats)} :
              IF seqs = None THEN block' = block + 1 /\ UNCHANGED <<stage, cand, tables, song>>
              ELSE Take(Assemble(file, file.static, lay, tables, blocks[block].base,
                                 blocks[block].subtunes, seqs))
  /\ UNCHANGED <<file, plan>>

Aborts == Head(plan) = "player" /\ PlayerAborts(file)

ReadPlayed ==
  /\ Offered /\ ~Strict
  /\ \E lay \in {Layout} : Take(PlayedSong(file, lay))
  /\ UNCHANGED <<file, plan>>

\* An error of the emulated init is not a layout error: nothing else is tried.
Abort ==
  /\ stage = "layout" /\ Aborts
  /\ stage' = "done"
  /\ UNCHANGED <<file, plan, cand, tables, block, song>>

\* Mutants: the count of candidates starts at 0, or goes on.
NextStrategyFrom(first) ==
  /\ stage = "layout" /\ ~Aborts /\ ~Offered
  /\ IF Len(plan) = 1 THEN stage' = "done" /\ UNCHANGED <<plan, cand>>
     ELSE plan' = Tail(plan) /\ cand' = first /\ UNCHANGED stage
  /\ UNCHANGED <<file, tables, block, song>>
NextStrategyZero == NextStrategyFrom(0)
NextStrategyOn == NextStrategyFrom(cand)
NextStrategy == NextStrategyFrom(1)

WithPlayer(f, s) == [part \in {"player"} \cup DOMAIN s |-> IF part = "player" THEN Variant(f) ELSE s[part]]

\* Mutant: what was found is what is returned.
CheckNothing ==
  /\ stage = "found"
  /\ stage' = "done" /\ song' = WithPlayer(file, song)
  /\ UNCHANGED <<file, plan, cand, tables, block>>
\* The player's build goes with the song, which is refused as a whole, not as a candidate.
Checked(f, s) == IF PlayedSound(s) THEN WithPlayer(f, s) ELSE None
CheckPlayed ==
  /\ stage = "found"
  /\ stage' = "done" /\ song' = Checked(file, song)
  /\ UNCHANGED <<file, plan, cand, tables, block>>

Done == stage = "done"
Returned == Done /\ UNCHANGED vars

Next ==
  \/ Open \/ Refuse \/ Begin \/ ReadTables \/ TryBlock \/ ReadPlayed \/ Abort
  \/ NextStrategy \/ CheckPlayed \/ Returned

-----------------------------------------------------------------------------
\* What a layout decodes to, all at once.
DecodedBlock(f, lay, t, blocks, lists) ==
  LET good == {i \in DOMAIN blocks : lists[i] # None}
      b == Min(good)
  IN  IF good = {} THEN None
      ELSE Assemble(f, f.static, lay, t, blocks[b].base, blocks[b].subtunes, lists[b])
DecodedIn(f, lay, t, blocks) ==
  DecodedBlock(f, lay, t, blocks,
               [i \in DOMAIN blocks |-> Orderlists(f, f.static, lay, blocks[i], t.pats)])
Decoded(f, how, lay) ==
  IF how = "player" THEN PlayedSong(f, lay)
  ELSE Then(Tables(f, lay), LAMBDA t : DecodedIn(f, lay, t, Blocks(f, f.static, lay, t.low)))

\* parse_sid all at once: of the strategies the first that finds a song, and of its
\* candidates the first that decodes, unless the song is refused.
FirstFound(songs) ==
  LET good == {i \in DOMAIN songs : songs[i] # None}
  IN  IF good = {} THEN None ELSE songs[Min(good)]
DecodedAmong(f, how, lays) == FirstFound([i \in DOMAIN lays |-> Decoded(f, how, lays[i])])
FirstDecoded(f, hows) ==
  FirstFound([i \in DOMAIN hows |-> DecodedAmong(f, hows[i], Layouts(f, hows[i]))])
ParsedContainer(f) ==
  IF Refused(f) THEN None ELSE Then(FirstDecoded(f, Strategies(f)), LAMBDA s : Checked(f, s))
Parsed(stored) == ParsedContainer(AsContainer(stored))

-----------------------------------------------------------------------------
(* Properties.  A file that is an export names the song it was made from.    *)

\* The types of the variables.
TypeOK ==
  /\ stage \in {"stored", "open", "layout", "blocks", "found", "done"}
  /\ plan \in Seq({"swp", "swm", "codescan", "player"})
  /\ cand \in Nat \ {0} /\ block \in Nat \ {0}
  /\ DOMAIN tables = DOMAIN NoTables
  /\ stage = "found" => song # None

\* An export reads back as the song it was made from, whatever was done to it on
\* the way: saved as a program or bare, a stub appended, the tune moved with some pointers missed, the header
\* stale or stripped, the tables packed, or the tune in memory only once its init
\* ran.  Every strategy must find the true tables past the decoys of the others.
ReadsExport ==
  Done /\ file.exported # None =>
    /\ song # None
    /\ [part \in DOMAIN file.exported |->
          IF part = "insts" THEN [k \in DOMAIN song.insts |-> song.insts[k].body] ELSE song[part]]
         = file.exported

\* A song that is returned can be played: its orderlists play patterns that exist
\* and end inside their own bytes, each subtune has a tempo pair, and an instrument
\* that a played pattern selects has tables that end within a voice's reach.
Playable ==
  Done /\ song # None =>
    /\ RefsResolve(song.seqs, song.pats)
    /\ \A k \in DOMAIN song.seqs :
         LET seq == song.seqs[k]
         IN  \/ Last(seq) = 254
             \/ Len(seq) > 1 /\ seq[Len(seq) - 1] = 255
    /\ Len(song.tempos) = SubtunesFor(file, Len(song.seqs))
    /\ PlayedSound(song)

\* No coherent layout is passed over: the search ends with the first candidate that
\* decodes, or with nothing only when none does, init failed or the song was refused.
FindsFirst == Done => song = Parsed(file)

\* The build that goes with a song is that of the player init enters: a flag that
\* has a site is what that player was assembled with, whatever another player in the
\* file or the header says, and the others are the header's.
ReadsBuild ==
  Done /\ song # None /\ file.build # None =>
    /\ song.player.on = (file.build.on \ Unread)
                        \cup {flag \in Unread : BuildOf(DriverOf(file)) \in OnIn[flag]}
    /\ song.player.quirks = file.build.quirks

-----------------------------------------------------------------------------
Spec == Init /\ [][Next]_vars
=============================================================================
