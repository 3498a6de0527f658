------------------------- MODULE MakerSessionProofs -------------------------
(* Proofs about the sessions of SID-Maker, for every set of sessions, builds *)
(* and modules.                                                             *)
EXTENDS MakerSession, TLAPS

\* A session's memory, with whatever players and tunes the modules have.
Memory ==
  [outputformat : {"prg", "sid"}, PALNTSC : {"none", "pal"}, relocaddr : {"none", "player"},
   flags : SUBSET ({2} \cup ModelBits), speeds : {FALSE} \cup {m.speeds : m \in Modules},
   author : Texts, player : {None} \cup {m.driver : m \in Modules},
   tune : {None} \cup {m.tune : m \in Modules}]

Entry == [module : Modules, model : Models, file : {File(b, mem) : b \in DOMAIN Versions, mem \in Memory}]

-----------------------------------------------------------------------------
(* The operators.                                                           *)

\* The part of a text that is copied is a part of it.
LEMMA CopiedType == \A text \in Texts : Copied(text) \in 1 .. Width
<1>1. ASSUME NEW text \in Texts, NEW n \in 1 .. Width, text[n] = 0
      PROVE  \E i \in {k \in 1 .. Width : text[k] = 0} : \A j \in {k \in 1 .. Width : text[k] = 0} : i <= j
  <2>1. Width = 3
    BY DEF Width
  <2> QED
    BY <1>1, <2>1, SMT DEF Texts
<1>2. TAKE text \in Texts
<1>3. CASE {i \in 1 .. Width : text[i] = 0} = {}
  BY <1>3, SMT DEF Copied, Width
<1>4. CASE {i \in 1 .. Width : text[i] = 0} # {}
  BY <1>1, <1>4 DEF Copied
<1> QED
  BY <1>3, <1>4

\* A text copied over another is a text.
LEMMA OverlaidType == \A old, text \in Texts : Overlaid(old, text) \in Texts
  BY DEF Overlaid, Texts

\* The highest of some numbers that have one.
LEMMA LatestIs ==
  ASSUME NEW js \in SUBSET Nat, NEW n \in js, \A l \in js : l <= n
  PROVE  Latest(js) = n
<1>1. PICK j \in js : j = Latest(js) /\ \A l \in js : l <= j
  BY DEF Latest
<1>2. j \in Nat /\ n \in Nat /\ n <= j /\ j <= n
  BY <1>1
<1> QED
  BY <1>1, <1>2, SMT

\* The memory of a build as it is loaded.
LEMMA ImageType == \A b \in DOMAIN Versions : Image(b) \in Memory
  BY VersionsShipped DEF Image, Memory, ModelBits

\* What is stored for the exporter keeps the other flags.
LEMMA PokedType ==
  ASSUME NEW mem \in Memory, NEW model \in Models
  PROVE  /\ Poked(mem, model) \in Memory
         /\ Poked(mem, model).author = mem.author
         /\ Poked(mem, model).flags = (mem.flags \ ModelBits) \cup ModelFlag(model)
<1>1. ModelFlag(model) \subseteq ModelBits
  BY DEF ModelFlag, ModelBits
<1>2. mem.flags \subseteq {2} \cup ModelBits
  BY DEF Memory
<1>3. (mem.flags \ ModelBits) \cup ModelFlag(model) \subseteq {2} \cup ModelBits
  BY <1>1, <1>2
<1> QED
  BY <1>3 DEF Poked, Memory

\* The exporter leaves memory.
LEMMA EmulatedType ==
  ASSUME NEW mem \in Memory, NEW m \in Modules
  PROVE  /\ Emulated(mem, m) \in Memory
         /\ Emulated(mem, m).author = Overlaid(mem.author, m.author)
         /\ Emulated(mem, m).flags = mem.flags
  BY ModulesHaveAuthors, OverlaidType DEF Emulated, Memory

-----------------------------------------------------------------------------
(* The inductive invariant: what a session's memory holds is what its own     *)
(* exports left in it.                                                      *)

\* The export that reached a cell last is one of those that did.
HasLatest(s) ==
  \A k \in 0 .. Len(saved[s]) : \A i \in 1 .. Width :
    Wrote(s, k, i) # {} => Latest(Wrote(s, k, i)) \in Wrote(s, k, i)

AsFresh(s, k) ==
  LET e == saved[s][k]
      fresh == Fresh(build[s], e.module, e.model)
      author == e.file.header.author
  IN  /\ e.file = File(build[s], [fresh EXCEPT !.author = author])
      /\ \A i \in 1 .. Copied(e.module.author) : author[i] = fresh.author[i]

LeftByOwn(s, k) ==
  \A i \in 1 .. Width : saved[s][k].file.header.author[i] = Left(s, k, i)

\* The memory is the build's, with what the session's exports left of authors.
Holds(s) ==
  /\ ram[s] \in Memory
  /\ 2 \in ram[s].flags
  /\ \A i \in 1 .. Width : ram[s].author[i] = Left(s, Len(saved[s]), i)

Session(s) ==
  /\ build[s] \in DOMAIN Versions \cup {None}
  /\ saved[s] \in Seq(Entry)
  /\ build[s] = None => ram[s] = None /\ saved[s] = <<>>
  /\ build[s] # None => Holds(s)
  /\ HasLatest(s)
  /\ \A k \in 1 .. Len(saved[s]) : AsFresh(s, k) /\ LeftByOwn(s, k)

IInv ==
  /\ build \in [Sessions -> DOMAIN Versions \cup {None}]
  /\ ram = [s \in Sessions |-> ram[s]]
  /\ saved = [s \in Sessions |-> saved[s]]
  /\ calls \in 0 .. MaxCalls
  /\ \A s \in Sessions : Session(s)

\* The saved files of a session decide what was left up to each of them.
LEMMA LeftKept ==
  ASSUME NEW s \in Sessions, NEW k \in Nat, NEW i \in 1 .. Width,
         build'[s] = build[s], \A j \in 1 .. k : saved'[s][j] = saved[s][j],
         Wrote(s, k, i) # {} => Latest(Wrote(s, k, i)) \in Wrote(s, k, i)
  PROVE  /\ Wrote(s, k, i)' = Wrote(s, k, i)
         /\ Left(s, k, i)' = Left(s, k, i)
<1>1. Wrote(s, k, i)' = Wrote(s, k, i)
  BY DEF Wrote
<1>2. CASE Wrote(s, k, i) = {}
  BY <1>1, <1>2 DEF Left
<1>3. CASE Wrote(s, k, i) # {}
  <2>1. Latest(Wrote(s, k, i)) \in 1 .. k
    BY <1>3 DEF Wrote
  <2>2. saved'[s][Latest(Wrote(s, k, i))] = saved[s][Latest(Wrote(s, k, i))]
    BY <2>1
  <2> QED
    BY <1>1, <1>3, <2>2 DEF Left
<1> QED
  BY <1>1, <1>2, <1>3

\* A call that saves nothing and leaves the author as it was keeps the session.
LEMMA SessionKept ==
  ASSUME NEW s \in Sessions, Session(s), build'[s] = build[s], saved'[s] = saved[s],
         build[s] = None => ram'[s] = ram[s],
         build[s] # None => /\ ram'[s] \in Memory /\ 2 \in ram'[s].flags
                            /\ ram'[s].author = ram[s].author
  PROVE  Session(s)'
<1>1. saved[s] \in Seq(Entry) /\ Len(saved[s]) \in Nat
  BY DEF Session
<1>2. \A k \in 0 .. Len(saved[s]) : \A i \in 1 .. Width :
        /\ Wrote(s, k, i)' = Wrote(s, k, i)
        /\ Left(s, k, i)' = Left(s, k, i)
  <2>1. TAKE k \in 0 .. Len(saved[s])
  <2>2. TAKE i \in 1 .. Width
  <2>3. k \in Nat
    BY <1>1
  <2> QED
    BY <2>3, LeftKept DEF Session, HasLatest
<1>3. HasLatest(s)'
  BY <1>2 DEF HasLatest, Session
<1>4. \A k \in 1 .. Len(saved[s]) : AsFresh(s, k)' /\ LeftByOwn(s, k)'
  <2>1. TAKE k \in 1 .. Len(saved[s])
  <2>2. AsFresh(s, k)'
    BY DEF Session, AsFresh
  <2>3. k \in 0 .. Len(saved[s])
    BY <1>1
  <2>4. LeftByOwn(s, k)'
    BY <1>2, <2>3 DEF Session, LeftByOwn
  <2> QED
    BY <2>2, <2>4
<1>5. build[s] # None => Holds(s)'
  <2>1. Len(saved[s]) \in 0 .. Len(saved[s])
    BY <1>1
  <2> QED
    BY <1>2, <2>1 DEF Holds, Session
<1> QED
  BY <1>3, <1>4, <1>5 DEF Session

-----------------------------------------------------------------------------
(* An export.                                                               *)

\* The memory an export leaves is a fresh session's but for the author.
LEMMA ExportMemory ==
  ASSUME NEW mem \in Memory, 2 \in mem.flags, NEW b \in DOMAIN Versions,
         NEW m \in Modules, NEW model \in Models
  PROVE  LET after == Emulated(Poked(mem, model), m)
         IN  /\ after \in Memory /\ 2 \in after.flags
             /\ after.author = Overlaid(mem.author, m.author)
             /\ after = [Fresh(b, m, model) EXCEPT !.author = after.author]
<1> DEFINE after == Emulated(Poked(mem, model), m)
           fresh == Fresh(b, m, model)
<1>1. Poked(mem, model) \in Memory /\ Poked(Image(b), model) \in Memory
  BY PokedType, ImageType
<1>2. after \in Memory /\ fresh \in Memory
  BY <1>1, EmulatedType DEF Fresh
<1>3. after.author = Overlaid(mem.author, m.author)
  BY <1>1, EmulatedType, PokedType
<1>4. after.flags = (mem.flags \ ModelBits) \cup ModelFlag(model)
  BY <1>1, EmulatedType, PokedType
<1>5. fresh.flags = ({2} \ ModelBits) \cup ModelFlag(model)
  <2>1. Image(b).flags = {2}
    BY DEF Image
  <2> QED
    BY <1>1, <2>1, EmulatedType, PokedType, ImageType DEF Fresh
<1>6. mem.flags \ ModelBits = {2} \ ModelBits /\ 2 \notin ModelBits
  BY DEF Memory, ModelBits
<1>7. 2 \in after.flags /\ after.flags = fresh.flags
  BY <1>4, <1>5, <1>6
<1>8. /\ after.outputformat = fresh.outputformat /\ after.PALNTSC = fresh.PALNTSC
      /\ after.relocaddr = fresh.relocaddr /\ after.speeds = fresh.speeds
      /\ after.player = fresh.player /\ after.tune = fresh.tune
  <2>1. mem \in Memory /\ Image(b) \in Memory
    BY ImageType
  <2> QED
    BY <2>1 DEF Fresh, Emulated, Poked, Memory
<1>9. after = [fresh EXCEPT !.author = after.author]
  BY <1>2, <1>7, <1>8 DEF Memory
<1> QED
  BY <1>2, <1>3, <1>7, <1>9

\* An export keeps the session.
LEMMA SessionExports ==
  ASSUME NEW s \in Sessions, Session(s), build[s] # None, build'[s] = build[s],
         NEW m \in Modules, NEW model \in Models, NEW n, n = Len(saved[s]), NEW mem,
         mem = Emulated(Poked(ram[s], model), m), ram'[s] = mem,
         saved'[s] = Append(saved[s], [module |-> m, model |-> model, file |-> File(build[s], mem)])
  PROVE  Session(s)'
<1> DEFINE e == [module |-> m, model |-> model, file |-> File(build[s], mem)]
           reach == Copied(m.author)
<1>1. build[s] \in DOMAIN Versions /\ Holds(s) /\ saved[s] \in Seq(Entry) /\ n \in Nat
  BY DEF Session
<1>2. /\ mem \in Memory /\ 2 \in mem.flags
      /\ mem.author = Overlaid(ram[s].author, m.author)
      /\ mem = [Fresh(build[s], m, model) EXCEPT !.author = mem.author]
  BY <1>1, ExportMemory DEF Holds
<1>3. e \in Entry
  BY <1>1, <1>2 DEF Entry
<1>4. /\ saved'[s] \in Seq(Entry) /\ Len(saved'[s]) = n + 1 /\ saved'[s][n + 1] = e
      /\ \A j \in 1 .. n : saved'[s][j] = saved[s][j]
  BY <1>1, <1>3
<1>5. e.file.header.author = mem.author
  BY DEF File
<1>6. reach \in 1 .. Width /\ m.author \in Texts /\ ram[s].author \in Texts
  BY <1>1, CopiedType, ModulesHaveAuthors DEF Holds, Memory
<1>7. \A k \in 0 .. n : \A i \in 1 .. Width :
        /\ Wrote(s, k, i)' = Wrote(s, k, i)
        /\ Left(s, k, i)' = Left(s, k, i)
  <2>1. TAKE k \in 0 .. n
  <2>2. TAKE i \in 1 .. Width
  <2>3. k \in Nat /\ \A j \in 1 .. k : saved'[s][j] = saved[s][j]
    BY <1>1, <1>4
  <2> QED
    BY <2>3, LeftKept DEF Session, HasLatest
<1>8. ASSUME NEW i \in 1 .. Width, i <= reach
      PROVE  /\ Latest(Wrote(s, n + 1, i)') = n + 1 /\ n + 1 \in Wrote(s, n + 1, i)'
             /\ Left(s, n + 1, i)' = m.author[i]
  <2>1. n + 1 \in Wrote(s, n + 1, i)'
    BY <1>1, <1>4, <1>8 DEF Wrote
  <2>2. Wrote(s, n + 1, i)' \in SUBSET Nat /\ \A l \in Wrote(s, n + 1, i)' : l <= n + 1
    BY <1>1 DEF Wrote
  <2>3. Latest(Wrote(s, n + 1, i)') = n + 1
    BY <2>1, <2>2, LatestIs
  <2>4. saved'[s][n + 1].module.author[i] = m.author[i]
    BY <1>4
  <2> QED
    BY <2>1, <2>3, <2>4 DEF Left
<1>9. ASSUME NEW i \in 1 .. Width, ~(i <= reach)
      PROVE  /\ Wrote(s, n + 1, i)' = Wrote(s, n, i)
             /\ Left(s, n + 1, i)' = Left(s, n, i)
  <2>1. n + 1 \notin Wrote(s, n + 1, i)'
    BY <1>4, <1>9 DEF Wrote
  <2>2. Wrote(s, n + 1, i)' = Wrote(s, n, i)'
    BY <1>1, <2>1, SMT DEF Wrote
  <2>3. Left(s, n + 1, i)' = Left(s, n, i)'
    BY <2>2 DEF Left
  <2>4. n \in 0 .. n
    BY <1>1
  <2> QED
    BY <1>7, <2>2, <2>3, <2>4
<1>10. HasLatest(s)'
  <2>1. ASSUME NEW k \in 0 .. n + 1, NEW i \in 1 .. Width, Wrote(s, k, i)' # {}
        PROVE  Latest(Wrote(s, k, i)') \in Wrote(s, k, i)'
    <3>1. CASE k \in 0 .. n
      BY <1>7, <2>1, <3>1 DEF Session, HasLatest
    <3>2. CASE k = n + 1 /\ i <= reach
      BY <1>8, <3>2
    <3>3. CASE k = n + 1 /\ ~(i <= reach)
      <4>1. n \in 0 .. n
        BY <1>1
      <4> QED
        BY <1>9, <2>1, <3>3, <4>1 DEF Session, HasLatest
    <3> QED
      BY <1>1, <3>1, <3>2, <3>3
  <2> QED
    BY <1>4, <2>1 DEF HasLatest
<1>11. \A i \in 1 .. Width : mem.author[i] = Left(s, n + 1, i)'
  <2>1. TAKE i \in 1 .. Width
  <2>2. CASE i <= reach
    BY <1>2, <1>8, <2>2 DEF Overlaid
  <2>3. CASE ~(i <= reach)
    BY <1>1, <1>2, <1>9, <2>3 DEF Overlaid, Holds
  <2> QED
    BY <2>2, <2>3
<1>12. Holds(s)'
  BY <1>2, <1>4, <1>11 DEF Holds
<1>13. \A k \in 1 .. n + 1 : AsFresh(s, k)' /\ LeftByOwn(s, k)'
  <2>1. TAKE k \in 1 .. n + 1
  <2>2. CASE k \in 1 .. n
    <3>1. AsFresh(s, k)'
      BY <1>4, <2>2 DEF Session, AsFresh
    <3>2. LeftByOwn(s, k)'
      BY <1>4, <1>7, <2>2 DEF Session, LeftByOwn
    <3> QED
      BY <3>1, <3>2
  <2>3. CASE k = n + 1
    <3>1. e.file = File(build[s], [Fresh(build[s], m, model) EXCEPT !.author = mem.author])
      BY <1>2
    <3>2. \A i \in 1 .. reach : mem.author[i] = Fresh(build[s], m, model).author[i]
      <4>1. TAKE i \in 1 .. reach
      <4>2. i \in 1 .. Width /\ i <= reach
        BY <1>6, SMT DEF Width
      <4>3. Fresh(build[s], m, model).author = Overlaid(Image(build[s]).author, m.author)
        BY <1>1, EmulatedType, PokedType, ImageType DEF Fresh
      <4> QED
        BY <1>2, <4>2, <4>3 DEF Overlaid
    <3>3. AsFresh(s, k)'
      BY SMTT(20), <1>4, <1>5, <2>3, <3>1, <3>2 DEF AsFresh
    <3>4. LeftByOwn(s, k)'
      BY <1>4, <1>5, <1>11, <2>3 DEF LeftByOwn
    <3> QED
      BY <3>3, <3>4
  <2> QED
    BY <1>1, <2>2, <2>3
<1> QED
  BY <1>1, <1>4, <1>10, <1>12, <1>13 DEF Session

-----------------------------------------------------------------------------
(* The specification.                                                       *)

\* Every session starts in the invariant.
LEMMA InitHolds == Init => IInv
<1>1. SUFFICES ASSUME Init PROVE IInv
  OBVIOUS
<1>2. ASSUME NEW s \in Sessions PROVE Session(s)
  <2>1. build[s] = None /\ ram[s] = None /\ saved[s] = <<>> /\ Len(saved[s]) = 0
    BY <1>1 DEF Init
  <2>2. HasLatest(s)
    BY <2>1 DEF HasLatest, Wrote
  <2>3. saved[s] \in Seq(Entry)
    BY <2>1
  <2> QED
    BY <2>1, <2>2, <2>3 DEF Session
<1> QED
  BY <1>1, <1>2, CallsBounded DEF Init, IInv

\* A new session is its build as loaded.
LEMMA SessionCreated ==
  ASSUME NEW s \in Sessions, Session(s), build[s] = None, NEW b \in DOMAIN Versions,
         build'[s] = b, ram'[s] = Image(b), saved'[s] = saved[s]
  PROVE  Session(s)'
<1>1. saved'[s] = <<>> /\ Len(saved'[s]) = 0 /\ saved'[s] \in Seq(Entry)
  BY DEF Session
<1>2. \A i \in 1 .. Width : Wrote(s, 0, i)' = {} /\ Left(s, 0, i)' = Versions[b].author[i]
  BY DEF Wrote, Left
<1>3. HasLatest(s)'
  BY <1>1, <1>2 DEF HasLatest
<1>4. Holds(s)'
  <2>1. Image(b) \in Memory /\ 2 \in Image(b).flags /\ Image(b).author = Versions[b].author
    BY ImageType DEF Image
  <2> QED
    BY <1>1, <1>2, <2>1 DEF Holds
<1> QED
  BY <1>1, <1>3, <1>4, NoneIsNoVersion DEF Session

\* Every step keeps the inductive invariant.
LEMMA StepHolds == IInv /\ [Next]_vars => IInv'
<1> SUFFICES ASSUME IInv, [Next]_vars PROVE IInv'
  OBVIOUS
<1>1. \A t \in Sessions : Session(t)
  BY DEF IInv
<1>2. ASSUME NEW t \in Sessions, build'[t] = build[t], ram'[t] = ram[t], saved'[t] = saved[t]
      PROVE  Session(t)'
  BY <1>1, <1>2, SessionKept DEF Session, Holds
<1>3. ASSUME NEW s \in Sessions, NEW b \in Builds, Create(s, b) PROVE IInv'
  <2>1. /\ build' = [build EXCEPT ![s] = b] /\ ram' = [ram EXCEPT ![s] = Image(b)]
        /\ saved' = saved /\ calls' = calls /\ build[s] = None /\ b \in DOMAIN Versions
    BY <1>3 DEF Create
  <2>2. ASSUME NEW t \in Sessions PROVE Session(t)'
    <3>1. CASE t = s
      <4>1. build'[s] = b /\ ram'[s] = Image(b) /\ saved'[s] = saved[s]
        BY <2>1 DEF IInv
      <4> QED
        BY <1>1, <2>1, <3>1, <4>1, SessionCreated
    <3>2. CASE t # s
      BY <1>2, <2>1, <3>2 DEF IInv
    <3> QED
      BY <3>1, <3>2
  <2> QED
    BY <2>1, <2>2 DEF IInv
<1>4. ASSUME NEW s \in Sessions, NEW m \in Modules, NEW model \in Models \cup {"none"},
             Refuse(s, m, model)
      PROVE  IInv'
  <2>1. build' = build /\ ram' = ram /\ saved' = saved /\ calls' \in 0 .. MaxCalls
    BY <1>4, CallsBounded DEF Refuse, Calls, IInv
  <2>2. ASSUME NEW t \in Sessions PROVE Session(t)'
    BY <1>2, <2>1
  <2> QED
    BY <2>1, <2>2 DEF IInv
<1>5. ASSUME NEW s \in Sessions, NEW m \in Modules, NEW model \in Models \cup {"none"},
             Fail(s, m, model)
      PROVE  IInv'
  <2>1. /\ build' = build /\ ram' = [ram EXCEPT ![s] = Poked(ram[s], model)] /\ saved' = saved
        /\ build[s] # None /\ model \in Models /\ calls' \in 0 .. MaxCalls
    BY <1>5, CallsBounded DEF Fail, Calls, IInv
  <2>2. ASSUME NEW t \in Sessions PROVE Session(t)'
    <3>1. CASE t = s
      <4>1. Holds(s) /\ ram'[s] = Poked(ram[s], model)
        BY <1>1, <2>1 DEF Session, IInv
      <4>2. ram'[s] \in Memory /\ ram'[s].author = ram[s].author /\ 2 \in ram'[s].flags
        BY <2>1, <4>1, PokedType DEF Holds, ModelBits
      <4> QED
        BY <1>1, <2>1, <3>1, <4>2, SessionKept
    <3>2. CASE t # s
      BY <1>2, <2>1, <3>2 DEF IInv
    <3> QED
      BY <3>1, <3>2
  <2> QED
    BY <2>1, <2>2 DEF IInv
<1>6. ASSUME NEW s \in Sessions, NEW m \in Modules, NEW model \in Models \cup {"none"},
             Export(s, m, model)
      PROVE  IInv'
  <2> DEFINE mem == Emulated(Poked(ram[s], model), m)
             e == [module |-> m, model |-> model, file |-> File(build[s], mem)]
  <2>1. /\ build' = build /\ ram' = [ram EXCEPT ![s] = mem]
        /\ saved' = [saved EXCEPT ![s] = Append(saved[s], e)]
        /\ build[s] # None /\ model \in Models /\ calls' \in 0 .. MaxCalls
    BY <1>6, CallsBounded DEF Export, Calls, IInv
  <2>2. ASSUME NEW t \in Sessions PROVE Session(t)'
    <3>1. CASE t = s
      <4>1. ram'[s] = mem /\ saved'[s] = Append(saved[s], e) /\ build'[s] = build[s]
        BY <2>1 DEF IInv
      <4> HIDE DEF mem
      <4> QED
        BY <1>1, <2>1, <3>1, <4>1, SessionExports DEF mem
    <3>2. CASE t # s
      BY <1>2, <2>1, <3>2 DEF IInv
    <3> QED
      BY <3>1, <3>2
  <2> QED
    BY <2>1, <2>2 DEF IInv
<1>7. ASSUME UNCHANGED vars PROVE IInv'
  <2>1. build' = build /\ ram' = ram /\ saved' = saved /\ calls' = calls
    BY <1>7 DEF vars
  <2>2. ASSUME NEW t \in Sessions PROVE Session(t)'
    BY <1>2, <2>1
  <2> QED
    BY <2>1, <2>2 DEF IInv
<1> QED
  BY <1>3, <1>4, <1>5, <1>6, <1>7 DEF Next, CreateRefused

\* The inductive invariant holds in every behaviour.
LEMMA Invariant == Spec => []IInv
  BY InitHolds, StepHolds, PTL DEF Spec

\* The variables keep their types, for every set of builds, modules and sessions.
THEOREM TypeCorrect == Spec => []TypeOK
<1>1. IInv => TypeOK
  BY DEF IInv, TypeOK, Session, Holds, Memory
<1> QED
  BY <1>1, Invariant, PTL

\* Whatever was exported, refused or failed before, and in whichever session, a file is
\* a fresh session's but for the author past its terminator.
THEOREM FilesAsFresh == Spec => []SavedAsFresh
<1>1. IInv => SavedAsFresh
  <2> SUFFICES ASSUME IInv, NEW s \in Sessions, NEW k \in DOMAIN saved[s] PROVE AsFresh(s, k)
    BY DEF SavedAsFresh, AsFresh
  <2>1. Session(s) /\ k \in 1 .. Len(saved[s])
    BY DEF IInv, Session
  <2> QED
    BY <2>1 DEF Session
<1> QED
  BY <1>1, Invariant, PTL

\* Past the terminator a file has what the session's own saved exports left there.
THEOREM FilesLeftByOwnExports == Spec => []LeftByOwnExports
<1>1. IInv => LeftByOwnExports
  <2> SUFFICES ASSUME IInv, NEW s \in Sessions, NEW k \in DOMAIN saved[s] PROVE LeftByOwn(s, k)
    BY DEF LeftByOwnExports, LeftByOwn
  <2>1. Session(s) /\ k \in 1 .. Len(saved[s])
    BY DEF IInv, Session
  <2> QED
    BY <2>1 DEF Session
<1> QED
  BY <1>1, Invariant, PTL
=============================================================================
