----------------------------- MODULE SongEntry ------------------------------
(***************************************************************************)
(* parse_sid_song (sidreader.py): the module that one song of a container    *)
(* plays.  The tune's init is run up to the player it enters; a wrapper may  *)
(* patch the tune, choose a subtune and call one of several players.  The    *)
(* window of that player's memory is then read as a file of its own, by the  *)
(* search of SidReader.                                                     *)
(*                                                                          *)
(* The emulated init is a list of steps: it stores a byte, enters a player   *)
(* base (with the address of an SWP1 block in its registers) or lets the     *)
(* player entered store its subtune position.  It ends where it returns or   *)
(* where the budget of cycles stops it.  A container knows the code of each  *)
(* player base and the header in its part of memory.                        *)
(***************************************************************************)
EXTENDS SidReader

VARIABLES
  tune,    \* the container
  want,    \* the song asked for, from 1, or 0 for the whole file
  phase,   \* "init", "parse", "returned"
  pc,      \* the next step of init
  mem,     \* memory, as init changed it
  entry,   \* the last player base entered, its SWP base and memory at that time
  stored,  \* what the subtune position of each player was last set to
  view     \* the module returned

entryVars == <<tune, want, phase, pc, mem, entry, stored, view>>
songVars == <<vars, entryVars>>

\* A container's players lie in its image, and its init enters those.
IsTune(f) ==
  /\ DOMAIN f.static.mem = f.load .. f.static.hi - 1
  /\ {"lo", "hi", "code", "mem"} = DOMAIN f.static
  /\ f.swp # None => f.swp \in DOMAIN f.static.mem
  /\ DOMAIN f.players \subseteq DOMAIN f.static.mem
  /\ \A b \in DOMAIN f.players :
       /\ IsCode(f.players[b].code)
       /\ f.players[b].header # None => IsHeader(f, f.players[b].header)
  /\ f.inits \in Seq(Range(f.inits))
  /\ \A i \in DOMAIN f.inits : \A k \in 1 .. Len(f.inits[i].steps) :
       LET step == f.inits[i].steps[k]
       IN  /\ step.to \in Nat
           /\ step.op = "patch" => step.to \in 0 .. 255
           /\ step.op = "enter" => step.at \in DOMAIN f.players

ASSUME ContainersAreTunes == \A f \in Files : IsTune(AsContainer(f))

SongInit ==
  /\ Init
  /\ tune = AsContainer(file) /\ want \in 0 .. Len(file.inits)
  /\ phase = IF want = 0 THEN "parse" ELSE "init"
  /\ pc = 1 /\ mem = tune.static.mem /\ entry = None /\ stored = <<>> /\ view = None

-----------------------------------------------------------------------------

Steps == tune.inits[want].steps
Running(op) == phase = "init" /\ pc <= Len(Steps) /\ Steps[pc].op = op /\ pc' = pc + 1

Patch ==
  /\ Running("patch")
  /\ mem' = [mem EXCEPT ![Steps[pc].at] = Steps[pc].to]
  /\ UNCHANGED <<vars, tune, want, phase, entry, stored, view>>

\* Mutant: the first player entered.
EnterFirst ==
  /\ Running("enter")
  /\ entry' = IF entry = None THEN [base |-> Steps[pc].at, swp |-> Steps[pc].to, mem |-> mem] ELSE entry
  /\ UNCHANGED <<vars, tune, want, phase, mem, stored, view>>
Enter ==
  /\ Running("enter")
  /\ entry' = [base |-> Steps[pc].at, swp |-> Steps[pc].to, mem |-> mem]
  /\ UNCHANGED <<vars, tune, want, phase, mem, stored, view>>

HasSubtunes(base) == tune.players[base].code.subt # {}

\* Watched only where the player's code reads a table of subtunes.
StoreSubtune ==
  /\ Running("store")
  /\ LET at == Steps[pc].at
     IN  stored' = IF HasSubtunes(at)
                     THEN [b \in {at} \cup DOMAIN stored |-> IF b = at THEN Steps[pc].to ELSE stored[b]]
                     ELSE stored
  /\ UNCHANGED <<vars, tune, want, phase, mem, entry, view>>

\* The subtune the player entered was set to, None if it never was.
Set ==
  IF entry.base \in DOMAIN stored THEN stored[entry.base] \div Block(tune)
  ELSE IF HasSubtunes(entry.base) THEN None ELSE 0

WholeFile == entry = None \/ Set = None
Entered == ~WholeFile /\ entry.base = tune.entryAt   \* init is the player itself

\* The part of memory m from the player, or the SWP block before it, to the next.
Window(m, base, swp) ==
  LET packed == tune.swp # None /\ swp = tune.swp
      start == IF packed THEN Min({base, swp}) ELSE base
      above == {b \in DOMAIN tune.players : b > base /\ b > start}
      stop == IF above = {} THEN tune.static.hi ELSE Min(above)
  IN  [tune EXCEPT !.load = start, !.entryAt = base, !.swp = IF packed THEN swp ELSE None,
         !.header = tune.players[base].header, !.exported = None,
         !.build = tune.players[base].build, !.players = Restrict(tune.players, (DOMAIN tune.players) \cap start .. stop - 1),
         !.static = [lo |-> start - 126, hi |-> stop, code |-> tune.players[base].code,
                     mem |-> Restrict(m, start .. stop - 1)]]

Parse ==
  /\ phase = "init" /\ pc > Len(Steps)
  /\ IF entry = None /\ tune.foreign THEN phase' = "returned" /\ UNCHANGED file
     ELSE /\ phase' = "parse"
          /\ file' = IF WholeFile \/ Entered THEN tune ELSE Window(entry.mem, entry.base, entry.swp)
  /\ UNCHANGED <<stage, plan, cand, tables, block, song, tune, want, pc, mem, entry, stored, view>>

Search == phase = "parse" /\ ~Done /\ Next /\ UNCHANGED entryVars

\* _patched_instruments: the bytes the whole init left, where they still parse.
PatchedBy(runtime) ==
  IF runtime # None /\ Len(runtime.insts) = Len(song.insts) THEN runtime.insts ELSE song.insts
Patched ==
  PatchedBy(IF Entered THEN Parsed(Window(mem, entry.base, entry.swp)) ELSE None)

Subtune == IF WholeFile THEN want - 1 ELSE Set

\* Mutant: one orderlist too many.
ViewPast(s, st) ==
  LET first == st * Channels(tune)
  IN  [s EXCEPT !.seqs = SubSeq(s.seqs, Max({1, first}), Min({Len(s.seqs), first + Channels(tune)})),
                !.tempos = IF st < Len(s.tempos) THEN <<s.tempos[st + 1]>> ELSE <<>>]
View(s, st) ==
  LET first == st * Channels(tune)
  IN  [s EXCEPT !.seqs = SubSeq(s.seqs, first + 1, Min({Len(s.seqs), first + Channels(tune)})),
                !.tempos = IF st < Len(s.tempos) THEN <<s.tempos[st + 1]>> ELSE <<>>]

\* A subtune the module does not have, or cannot play, is an error.
SelectFrom(s) ==
  IF Subtune < SubtunesFor(tune, Len(s.seqs)) /\ PlayedSound(s) THEN View(s, Subtune) ELSE None

Select ==
  /\ phase = "parse" /\ Done /\ want # 0
  /\ phase' = "returned"
  /\ view' = IF song = None THEN None ELSE SelectFrom([song EXCEPT !.insts = Patched])
  /\ UNCHANGED <<vars, tune, want, pc, mem, entry, stored>>

SongReturned ==
  /\ phase = "returned" \/ (want = 0 /\ Done)
  /\ UNCHANGED songVars

SongNext ==
  \/ Patch \/ Enter \/ StoreSubtune \/ Parse \/ Search \/ Select \/ SongReturned

SongSpec == SongInit /\ [][SongNext]_songVars

-----------------------------------------------------------------------------
(* Properties.                                                              *)

\* Every header counts orderlists, that of each player's part too.
HeaderCounts(f) == f.header # None => f.header.seqs # 0
HeadersCount(f) ==
  /\ HeaderCounts(f)
  /\ \A b \in DOMAIN f.players : f.players[b].header # None => f.players[b].header.seqs # 0

\* A song is the subtune of the module that sounds when its init is done: that of
\* the last player entered, with the instruments as the wrapper left them, however
\* the wrapper went about it.
ReadsSong ==
  phase = "returned" /\ tune.inits[want].plays # None =>
    /\ view # None
    /\ [seqs |-> view.seqs, tempos |-> view.tempos,
        insts |-> [k \in DOMAIN view.insts |-> view.insts[k].body]] = tune.inits[want].plays

\* A view holds one subtune and no more: an orderlist for each channel, save in the
\* last subtune of a tune that counts fewer, and the patterns and instruments of the
\* whole module so that the orderlists still resolve.
ViewWhole ==
  view # None =>
    /\ Len(view.seqs) \in 1 .. Channels(tune) /\ Len(view.tempos) = 1
    /\ RefsResolve(view.seqs, view.pats) /\ PlayedSound(view)
=============================================================================
