---------------------------- MODULE MakerSession ----------------------------
(***************************************************************************)
(* Sessions of SID-Maker (sidmaker.py): the exporter run on the 6502.  Every *)
(* session starts from the memory of its build as it was loaded, and keeps   *)
(* the memory an export left for the next one.                              *)
(*                                                                          *)
(* SID-Maker's own routines are external.  They are known by what sidmaker's *)
(* calls and its tests take from them: they put the module's player and tune *)
(* behind the file's header, and its author into the header, up to the       *)
(* terminator and no further.  A text is its cells, 0 the terminator.        *)
(***************************************************************************)
EXTENDS Integers, Sequences, FiniteSets

CONSTANTS
  None,
  Sessions,
  Versions,    \* the builds shipped: [players, echo, author]
  Builds,      \* the builds asked for
  Modules,     \* [sids, short, driver, author, speeds, tune]
  MaxCalls     \* bound: the calls of export

Width == 3
Texts == [1 .. Width -> 0 .. 2]

ASSUME VersionsShipped ==
  \A b \in DOMAIN Versions : Versions[b].author \in Texts /\ Versions[b].players \in Nat
ASSUME ModulesHaveAuthors == \A m \in Modules : m.author \in Texts
ASSUME NoneIsNoVersion == None \notin DOMAIN Versions
ASSUME CallsBounded == MaxCalls \in Nat

\* A model's bits of the SIDflags byte; the clock's bits are beside them.
Models == {"6581", "8580"}
\* Mutant: the table of them read from its second byte.
ModelFlagNext(model) == IF model = "6581" THEN {5} ELSE {6}
ModelFlag(model) == IF model = "6581" THEN {4} ELSE {5}
ModelBits == {4, 5}

VARIABLES
  build,   \* the build of each session, None before it is made
  ram,     \* its memory, as far as exports read what another one wrote
  saved,   \* the files it saved, in order, each with what was asked for
  calls    \* the calls of export made

vars == <<build, ram, saved, calls>>

\* The memory a build is loaded to.
Image(b) == [outputformat |-> "prg", PALNTSC |-> "none", relocaddr |-> "none", flags |-> {2},
             speeds |-> FALSE, author |-> Versions[b].author, player |-> None, tune |-> None]

Init ==
  /\ build = [s \in Sessions |-> None]
  /\ ram = [s \in Sessions |-> None]
  /\ saved = [s \in Sessions |-> <<>>]
  /\ calls = 0

Create(s, b) ==
  /\ build[s] = None /\ b \in DOMAIN Versions
  /\ build' = [build EXCEPT ![s] = b]
  /\ ram' = [ram EXCEPT ![s] = Image(b)]
  /\ UNCHANGED <<saved, calls>>

\* No such build: there is no session.
CreateRefused(s, b) ==
  /\ build[s] = None /\ b \notin DOMAIN Versions
  /\ UNCHANGED vars

-----------------------------------------------------------------------------

\* _module and the check of the driver.
Accepted(b, m) == ~m.short /\ m.sids = 1 /\ m.driver < Versions[b].players

\* The answers of SID-Maker's screens, stored for it.
\* Mutant: the new model's bits beside the old one's.
PokedOver(mem, model) ==
  [mem EXCEPT !.outputformat = "sid", !.PALNTSC = "pal", !.relocaddr = "player",
              !.flags = @ \cup ModelFlag(model)]
Poked(mem, model) ==
  [mem EXCEPT !.outputformat = "sid", !.PALNTSC = "pal", !.relocaddr = "player",
              !.flags = (@ \ ModelBits) \cup ModelFlag(model)]

\* How much of a text is copied: its terminator is the last of it.
Copied(text) ==
  LET ends == {i \in 1 .. Width : text[i] = 0}
  IN  IF ends = {} THEN Width ELSE CHOOSE i \in ends : \A j \in ends : i <= j
Overlaid(old, text) == [i \in 1 .. Width |-> IF i <= Copied(text) THEN text[i] ELSE old[i]]

Emulated(mem, m) ==
  [mem EXCEPT !.speeds = m.speeds, !.author = Overlaid(@, m.author),
              !.player = m.driver, !.tune = m.tune]

\* The file: with a SPEED the memory from the header on, so that the starter of a
\* multispeed tune goes with it; else the header and what loads where the build says.
File(b, mem) ==
  [header |-> [flags |-> mem.flags, clock |-> mem.PALNTSC, speeds |-> mem.speeds, author |-> mem.author],
   load |-> IF mem.speeds THEN "header" ELSE IF Versions[b].echo THEN "basic" ELSE mem.relocaddr,
   body |-> IF mem.speeds THEN "whole" ELSE IF Versions[b].echo THEN "starter" ELSE "player",
   player |-> mem.player, tune |-> mem.tune]

-----------------------------------------------------------------------------

Calls == calls < MaxCalls /\ calls' = calls + 1

Refuse(s, m, model) ==
  /\ build[s] # None /\ Calls
  /\ model \notin Models \/ ~Accepted(build[s], m)
  /\ UNCHANGED <<build, ram, saved>>

\* Mutant: the emulator runs in the session's memory.
FailInPlace(s, m, model) ==
  /\ build[s] # None /\ Calls /\ model \in Models /\ Accepted(build[s], m)
  /\ ram' = [ram EXCEPT ![s] = Emulated(Poked(@, model), m)]
  /\ UNCHANGED <<build, saved>>
\* The emulator gives up: what was stored for it stays, the rest was a copy's.
Fail(s, m, model) ==
  /\ build[s] # None /\ Calls /\ model \in Models /\ Accepted(build[s], m)
  /\ ram' = [ram EXCEPT ![s] = Poked(@, model)]
  /\ UNCHANGED <<build, saved>>

Export(s, m, model) ==
  /\ build[s] # None /\ Calls /\ model \in Models /\ Accepted(build[s], m)
  /\ LET mem == Emulated(Poked(ram[s], model), m)
     IN  /\ ram' = [ram EXCEPT ![s] = mem]
         /\ saved' = [saved EXCEPT ![s] =
              Append(@, [module |-> m, model |-> model, file |-> File(build[s], mem)])]
  /\ UNCHANGED build

Next ==
  \E s \in Sessions :
    \/ \E b \in Builds : Create(s, b) \/ CreateRefused(s, b)
    \/ \E m \in Modules, model \in Models \cup {"none"} :
         Refuse(s, m, model) \/ Fail(s, m, model) \/ Export(s, m, model)
    \/ calls = MaxCalls /\ UNCHANGED vars

Spec == Init /\ [][Next]_vars

-----------------------------------------------------------------------------
(* Properties.                                                              *)

\* The types of the variables.
TypeOK ==
  /\ build \in [Sessions -> DOMAIN Versions \cup {None}]
  /\ \A s \in Sessions :
       IF build[s] = None THEN ram[s] = None /\ saved[s] = <<>>
       ELSE /\ ram[s].author \in Texts
            /\ {2} \subseteq ram[s].flags /\ ram[s].flags \subseteq {2} \cup ModelBits
  /\ calls \in 0 .. MaxCalls

\* sidmaker.export: the memory a session of its own saves from.
Fresh(b, m, model) == Emulated(Poked(Image(b), model), m)

\* A file is what a fresh session saves but for the cells of the author past the
\* terminator: no flag, speed, player or tune of an earlier export, or of a call that
\* was refused or that failed, shows in it.
SavedAsFresh ==
  \A s \in Sessions : \A k \in DOMAIN saved[s] :
    LET e == saved[s][k]
        fresh == Fresh(build[s], e.module, e.model)
        author == e.file.header.author
    IN  /\ e.file = File(build[s], [fresh EXCEPT !.author = author])
        /\ \A i \in 1 .. Copied(e.module.author) : author[i] = fresh.author[i]

\* The first k exports of a session that reached cell i, and what the last of them wrote.
Wrote(s, k, i) == {j \in 1 .. k : i <= Copied(saved[s][j].module.author)}
Latest(js) == CHOOSE j \in js : \A l \in js : l <= j
Left(s, k, i) ==
  IF Wrote(s, k, i) = {} THEN Versions[build[s]].author[i]
  ELSE saved[s][Latest(Wrote(s, k, i))].module.author[i]

\* The cells past the terminator are what the last of the session's own exports that
\* was saved and reached so far wrote there, or the build's: a call that was refused or
\* that failed, or another session of the same build, leaves nothing in them.
LeftByOwnExports ==
  \A s \in Sessions : \A k \in DOMAIN saved[s] : \A i \in 1 .. Width :
    saved[s][k].file.header.author[i] = Left(s, k, i)
=============================================================================
