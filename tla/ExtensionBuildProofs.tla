------------------------ MODULE ExtensionBuildProofs ------------------------
(***************************************************************************)
(* The history and the registry of an extension, for any number of builds, *)
(* overlapping in any way; and its package files, for builds that do not   *)
(* overlap.                                                                *)
(*                                                                         *)
(* HistoryMatchesVersions relates records and rows that are written by     *)
(* different statements.  History adds what holds in between: no row names *)
(* a build that has not saved, a saved build of the present life has its   *)
(* row, and rows and records belong to the present life.                   *)
(***************************************************************************)
EXTENDS ExtensionBuild, FiniteSetTheorems, TLAPS

Unsaved == PCs \ {"reload", "finish", "done"}

Lives ==
    /\ \A b \in Builds : life[b] <= lives /\ (pc[b] # "idle" => life[b] # 0)
    /\ ext = 0 => \A v \in Versions : versions[v] = None

Rows ==
    \A b \in Builds, v \in Versions :
        versions[v] = b => ver[b] = v /\ life[b] = ext /\ pc[b] \notin Unsaved

History ==
    \A b \in Builds :
        /\ record[b] # "none" => Alive(b) /\ pc[b] # "idle"
        /\ record[b] \notin {"none", "running"} => pc[b] = "done"
        /\ record[b] = "success" => versions[ver[b]] = b
        /\ record[b] \in {"failed", "cancelled"} /\ faults = 0 => versions[ver[b]] # b
        /\ pc[b] \in {"reload", "finish"} /\ Alive(b) => versions[ver[b]] = b

IInv == TypeOK /\ Lives /\ Rows /\ History

(* One build at a time.                                                    *)

Alone == \A a, b \in Builds : Running(a) /\ Running(b) => a = b

Files ==
    \A b \in Builds :
        /\ pc[b] \in {"remove", "link", "save"} => versions[ver[b]] \notin Builds
        /\ pc[b] = "save" => file[ver[b]] = b
        /\ Running(b) /\ ~Alive(b) => \A v \in Versions : versions[v] \notin Builds

SInv == IInv /\ Alone /\ Files /\ DownloadsVerify

\* The file in a build's way is there until the build removes it.
InTheWay ==
    \A b \in Builds :
        /\ pc[b] \in {"orphan", "remove"} => file[ver[b]] # None
        /\ pc[b] = "link" => file[ver[b]] = None

-----------------------------------------------------------------------------
(* What a step of a build may do.                                          *)

\* A step of a build moves it on; all but Save leave the rows alone.
LEMMA StepMoves ==
    ASSUME TypeOK, NEW b \in Builds, Step(b)
    PROVE  /\ Running(b)
           /\ UNCHANGED <<ext, lives, ver, life, snap, crashes>>
           /\ pc' \in [Builds -> PCs] /\ \A a \in Builds \ {b} : pc'[a] = pc[a]
           /\ pc'[b] # "idle"
           /\ \/ Save(b)
              \/ /\ UNCHANGED <<versions, manifest>>
                 /\ \/ pc[b] \in Unsaved /\ pc'[b] \in Unsaved
                    \/ pc[b] = "reload" /\ pc'[b] = "finish"
                    \/ pc'[b] = "done"
<1> USE DEF TypeOK, Goto, rows, input, PCs, Unsaved, Running, Conflict, End, EndByFault
<1>1. CASE CheckVersion(b)
  BY <1>1 DEF CheckVersion
<1>2. CASE OpenRecord(b)
  BY <1>2 DEF OpenRecord
<1>3. CASE BuildFails(b) \/ ClientLeaves(b) \/ ReturnsError(b) \/ Package(b)
  BY <1>3 DEF BuildFails, ClientLeaves, ReturnsError, Package
<1>4. CASE Store(b) \/ StoreFails(b)
  BY <1>4 DEF Store, StoreFails
<1>5. CASE CheckOrphan(b)
  BY <1>5 DEF CheckOrphan
<1>6. CASE Remove(b)
  BY <1>6 DEF Remove
<1>7. CASE Link(b)
  BY <1>7 DEF Link
<1>8. CASE Save(b)
  BY <1>8 DEF Save, InsertVersion
<1>9. CASE SaveFails(b)
  BY <1>9 DEF SaveFails
<1>10. CASE Reload(b)
  BY <1>10 DEF Reload
<1>11. CASE Finish(b)
  BY <1>11 DEF Finish
<1>12. QED
  BY <1>1, <1>2, <1>3, <1>4, <1>5, <1>6, <1>7, <1>8, <1>9, <1>10, <1>11 DEF Step

\* A step of a build opens its record, closes it at its end, or leaves it alone; it
\* closes it as a success only after Save.
LEMMA StepRecords ==
    ASSUME TypeOK, NEW b \in Builds, Step(b)
    PROVE  \/ UNCHANGED record
           \/ /\ pc[b] = "open" /\ pc'[b] = "worker" /\ Alive(b) /\ UNCHANGED versions
              /\ record' = [record EXCEPT ![b] = "running"]
           \/ /\ pc[b] \in Unsaved /\ pc'[b] = "done" /\ UNCHANGED versions
              /\ CloseRecord(b, "failed") \/ CloseRecord(b, "cancelled")
           \/ /\ pc[b] = "reload" /\ pc'[b] = "done" /\ UNCHANGED versions
              /\ CloseRecord(b, "failed") /\ (Alive(b) => faults' # 0)
           \/ /\ pc[b] = "finish" /\ pc'[b] = "done" /\ UNCHANGED versions
              /\ CloseRecord(b, "success")
<1> USE DEF TypeOK, Goto, rows, PCs, Unsaved, Conflict, End, EndByFault
<1>1. CASE CheckVersion(b) \/ ReturnsError(b) \/ Package(b) \/ Store(b) \/ Save(b)
  BY <1>1 DEF CheckVersion, ReturnsError, Package, Store, Save
<1>2. CASE OpenRecord(b)
  BY <1>2 DEF OpenRecord
<1>3. CASE BuildFails(b) \/ ClientLeaves(b)
  BY <1>3 DEF BuildFails, ClientLeaves
<1>4. CASE StoreFails(b)
  BY <1>4 DEF StoreFails
<1>5. CASE CheckOrphan(b)
  BY <1>5 DEF CheckOrphan
<1>6. CASE Remove(b)
  BY <1>6 DEF Remove
<1>7. CASE Link(b)
  BY <1>7 DEF Link
<1>8. CASE SaveFails(b)
  BY <1>8 DEF SaveFails
<1>9. CASE Reload(b)
  BY <1>9 DEF Reload, Fault, Alive
<1>10. CASE Finish(b)
  BY <1>10 DEF Finish
<1>11. QED
  BY <1>1, <1>2, <1>3, <1>4, <1>5, <1>6, <1>7, <1>8, <1>9, <1>10 DEF Step

\* A step of a build meets one fault at most.
LEMMA StepFaults ==
    ASSUME NEW b \in Builds, Step(b)
    PROVE  UNCHANGED faults \/ Fault
BY DEF Step, CheckVersion, OpenRecord, BuildFails, ClientLeaves, ReturnsError, Package, Store,
   StoreFails, CheckOrphan, Remove, Link, Save, SaveFails, Reload, Finish, Conflict, End, EndByFault

\* A fault that has happened has happened.
LEMMA FaultsStay ==
    ASSUME TypeOK, [Next]_vars, faults' = 0
    PROVE  faults = 0
<1>1. UNCHANGED faults \/ Fault
  BY StepFaults DEF Next, Create, UpdateMeta, Delete, SaveManually, Begin, Crash, vars
<1>2. QED
  BY <1>1, BoundsAssumption DEF Fault, TypeOK

-----------------------------------------------------------------------------
(* Types.                                                                  *)

\* A status that closes a record is one of the table's.
LEMMA RecordType ==
    ASSUME TypeOK, NEW b \in Builds, Step(b)
    PROVE  record' \in [Builds -> Records]
BY StepRecords DEF TypeOK, CloseRecord, Records

\* Every step keeps the types.
LEMMA TypeStep == TypeOK /\ [Next]_vars => TypeOK'
<1> SUFFICES ASSUME TypeOK, [Next]_vars PROVE TypeOK'
  OBVIOUS
<1> USE BoundsAssumption
<1>1. CASE Create
  <2>1. lives' \in 0..MaxLives /\ ext' \in 0..lives' /\ faults' \in 0..MaxFaults
    BY <1>1 DEF Create, Fault, TypeOK
  <2>2. versions' \in [Versions -> Builds \cup {None, Stub}]
    BY <1>1 DEF Create, TypeOK
  <2>3. QED
    BY <1>1, <2>1, <2>2 DEF Create, TypeOK, input
<1>2. CASE UpdateMeta
  BY <1>2 DEF UpdateMeta, TypeOK, input
<1>3. CASE Delete
  <2>1. ext' \in 0..lives' /\ record' \in [Builds -> Records]
    BY <1>3 DEF Delete, TypeOK, Records
  <2>2. QED
    BY <1>3, <2>1 DEF Delete, TypeOK, input
<1>4. CASE SaveManually
  BY <1>4 DEF SaveManually, InsertVersion, TypeOK, input
<1>5. ASSUME NEW b \in Builds, Begin(b) PROVE TypeOK'
  <2>1. ext \in 0..MaxLives
    BY DEF TypeOK
  <2>2. QED
    BY <1>5, <2>1 DEF Begin, Goto, TypeOK, rows, PCs
<1>6. ASSUME NEW b \in Builds, Step(b) PROVE TypeOK'
  <2>1. UNCHANGED <<ext, lives, ver, life, snap, crashes>> /\ pc' \in [Builds -> PCs]
    BY <1>6, StepMoves
  <2>2. record' \in [Builds -> Records]
    BY <1>6, RecordType
  <2>3. manifest' \in Manifests /\ versions' \in [Versions -> Builds \cup {None, Stub}]
    <3>1. CASE Save(b)
      BY <3>1 DEF Save, InsertVersion, TypeOK
    <3>2. CASE ~ Save(b)
      BY <1>6, <3>2, StepMoves DEF TypeOK
    <3>3. QED
      BY <3>1, <3>2
  <2>4. file' \in [Versions -> Builds \cup {None}]
    BY <1>6 DEF Step, CheckVersion, OpenRecord, BuildFails, ClientLeaves, ReturnsError,
       Package, Store, StoreFails, CheckOrphan, Remove, Link, Save, SaveFails, Reload, Finish, TypeOK
  <2>5. faults' \in 0..MaxFaults
    <3>1. UNCHANGED faults \/ Fault
      BY <1>6, StepFaults
    <3>2. QED
      BY <3>1 DEF Fault, TypeOK
  <2>6. QED
    BY <2>1, <2>2, <2>3, <2>4, <2>5 DEF TypeOK
<1>7. CASE Crash
  <2>1. pc' \in [Builds -> PCs] /\ crashes' \in 0..MaxCrashes
    BY <1>7 DEF Crash, TypeOK, PCs
  <2>2. QED
    BY <1>7, <2>1 DEF Crash, TypeOK, rows, input
<1>8. CASE UNCHANGED vars
  BY <1>8 DEF vars, TypeOK
<1>9. QED
  BY <1>1, <1>2, <1>3, <1>4, <1>5, <1>6, <1>7, <1>8 DEF Next

-----------------------------------------------------------------------------
(* History.                                                                *)

\* The initial state has no rows, no records and no packages.
LEMMA InitIInv == Init => IInv
<1> SUFFICES ASSUME Init PROVE IInv
  OBVIOUS
<1>1. TypeOK
  BY BoundsAssumption, FirstAssumption DEF Init, TypeOK, PCs, Records
<1>2. Lives
  BY DEF Init, Lives
<1>3. Rows
  BY BuildsAssumption DEF Init, Rows
<1>4. History
  BY DEF Init, History
<1>5. QED
  BY <1>1, <1>2, <1>3, <1>4 DEF IInv

\* No build is of a life to come, and an extension that is gone has no versions.
LEMMA LivesStep == IInv /\ [Next]_vars => Lives'
<1> SUFFICES ASSUME IInv, [Next]_vars PROVE Lives'
  OBVIOUS
<1> USE DEF IInv, TypeOK, Lives
<1>1. lives \in Nat /\ ext \in Nat /\ \A b \in Builds : life[b] \in Nat
  BY BoundsAssumption
<1>2. CASE Create
  BY <1>1, <1>2 DEF Create, input
<1>3. CASE UpdateMeta
  BY <1>3 DEF UpdateMeta, input
<1>4. CASE Delete
  BY <1>4 DEF Delete, input
<1>5. CASE SaveManually
  BY <1>5 DEF SaveManually, InsertVersion, input
<1>6. ASSUME NEW b \in Builds, Begin(b) PROVE Lives'
  BY <1>1, <1>6 DEF Begin, Goto, rows
<1>7. ASSUME NEW b \in Builds, Step(b) PROVE Lives'
  <2>1. UNCHANGED <<ext, lives, life>> /\ \A a \in Builds : pc'[a] # "idle" => pc[a] # "idle"
    BY <1>7, StepMoves DEF Running
  <2>2. UNCHANGED versions \/ ext # 0
    <3>1. CASE Save(b)
      BY <1>7, <3>1, StepMoves DEF Save, InsertVersion, Running
    <3>2. CASE ~ Save(b)
      BY <1>7, <3>2, StepMoves
    <3>3. QED
      BY <3>1, <3>2
  <2>3. QED
    BY <2>1, <2>2
<1>8. CASE Crash
  BY <1>8 DEF Crash, Running, rows, input
<1>9. CASE UNCHANGED vars
  BY <1>9 DEF vars
<1>10. QED
  BY <1>2, <1>3, <1>4, <1>5, <1>6, <1>7, <1>8, <1>9 DEF Next

\* A row names a build of the present life that has saved it, as the version it built.
LEMMA RowsStep == IInv /\ [Next]_vars => Rows'
<1> SUFFICES ASSUME IInv, [Next]_vars, NEW a \in Builds, NEW v \in Versions, versions'[v] = a
             PROVE  ver'[a] = v /\ life'[a] = ext' /\ pc'[a] \notin Unsaved
  BY DEF Rows
<1>1. a # None /\ a # Stub
  BY BuildsAssumption
<1>2. versions[v] = a => ver[a] = v /\ life[a] = ext /\ pc[a] \notin Unsaved
  BY DEF IInv, Rows
<1> USE DEF Unsaved, PCs
<1>3. CASE Create
  <2>1. versions[v] = None
    BY <1>3 DEF Create, IInv, Lives
  <2>2. QED
    BY <1>1, <1>3, <2>1 DEF Create, IInv, TypeOK
<1>4. CASE UpdateMeta
  BY <1>2, <1>4 DEF UpdateMeta, input
<1>5. CASE Delete
  BY <1>1, <1>5 DEF Delete
<1>6. CASE SaveManually
  BY <1>1, <1>2, <1>6 DEF SaveManually, InsertVersion, input, IInv, TypeOK
<1>7. ASSUME NEW b \in Builds, Begin(b) PROVE ver'[a] = v /\ life'[a] = ext' /\ pc'[a] \notin Unsaved
  <2>1. versions[v] = a /\ a # b
    BY <1>2, <1>7 DEF Begin, rows
  <2>2. QED
    BY <1>2, <1>7, <2>1 DEF Begin, Goto, rows, IInv, TypeOK
<1>8. ASSUME NEW b \in Builds, Step(b) PROVE ver'[a] = v /\ life'[a] = ext' /\ pc'[a] \notin Unsaved
  <2>1. TypeOK
    BY DEF IInv
  <2>2. CASE Save(b)
    BY <1>2, <2>1, <2>2 DEF Save, InsertVersion, Goto, input, TypeOK
  <2>3. CASE ~ Save(b)
    <3>1. /\ UNCHANGED <<ext, versions, ver, life>>
          /\ a # b => pc'[a] = pc[a]
          /\ (pc[b] \in Unsaved /\ pc'[b] \in Unsaved) \/ pc'[b] \in {"finish", "done"}
      BY <1>8, <2>1, <2>3, StepMoves
    <3>2. QED
      BY <1>2, <3>1
  <2>4. QED
    BY <2>2, <2>3
<1>9. CASE Crash
  BY <1>2, <1>9 DEF Crash, rows, input, IInv, TypeOK
<1>10. CASE UNCHANGED vars
  BY <1>2, <1>10 DEF vars
<1>11. QED
  BY <1>3, <1>4, <1>5, <1>6, <1>7, <1>8, <1>9, <1>10 DEF Next

\* Records agree with rows.
LEMMA HistoryStep == IInv /\ [Next]_vars => History'
<1> DEFINE Agrees(a) ==
        /\ record[a] # "none" => Alive(a) /\ pc[a] # "idle"
        /\ record[a] \notin {"none", "running"} => pc[a] = "done"
        /\ record[a] = "success" => versions[ver[a]] = a
        /\ record[a] \in {"failed", "cancelled"} /\ faults = 0 => versions[ver[a]] # a
        /\ pc[a] \in {"reload", "finish"} /\ Alive(a) => versions[ver[a]] = a
<1> SUFFICES ASSUME IInv, [Next]_vars, NEW a \in Builds PROVE Agrees(a)'
  BY DEF History, Alive
<1>1. TypeOK /\ Agrees(a) /\ (faults' = 0 => faults = 0)
  BY FaultsStay DEF IInv, History
<1>2. ver[a] \in Versions /\ a # None /\ a # Stub
  BY <1>1, BuildsAssumption DEF TypeOK
<1>3. CASE Create
  <2>1. record[a] = "none" /\ ~(pc'[a] \in {"reload", "finish"} /\ Alive(a)')
    <3>1. ext = 0 /\ ext' = lives + 1 /\ UNCHANGED <<pc, life>>
      BY <1>3 DEF Create, input
    <3>2. life[a] \in Nat /\ lives \in Nat /\ life[a] <= lives /\ (pc[a] # "idle" => life[a] # 0)
      BY BoundsAssumption DEF IInv, TypeOK, Lives
    <3>3. QED
      BY <1>1, <3>1, <3>2 DEF Alive
  <2>2. QED
    BY <1>3, <2>1 DEF Create
<1>4. CASE UpdateMeta
  BY <1>1, <1>4 DEF UpdateMeta, input, Alive
<1>5. CASE Delete
  <2>1. record'[a] = "none" /\ ~(pc'[a] \in {"reload", "finish"} /\ Alive(a)')
    BY <1>5 DEF Delete, input, Alive, IInv, Lives
  <2>2. QED
    BY <2>1
<1>6. CASE SaveManually
  <2>1. /\ UNCHANGED <<ext, record, pc, life, ver>>
        /\ \/ versions'[ver[a]] = versions[ver[a]]
           \/ versions[ver[a]] = None /\ versions'[ver[a]] = Stub
    BY <1>1, <1>2, <1>6 DEF SaveManually, InsertVersion, input, TypeOK
  <2>2. QED
    BY <1>1, <1>2, <2>1 DEF Alive
<1>7. ASSUME NEW b \in Builds, Begin(b) PROVE Agrees(a)'
  <2>1. /\ UNCHANGED <<ext, versions, record>> /\ pc[b] = "idle" /\ pc'[b] = "version"
        /\ a # b => pc'[a] = pc[a] /\ ver'[a] = ver[a] /\ life'[a] = life[a]
    BY <1>1, <1>7 DEF Begin, Goto, rows, TypeOK
  <2>2. QED
    BY <1>1, <2>1 DEF Alive
<1>8. ASSUME NEW b \in Builds, Step(b) PROVE Agrees(a)'
  <2>1. /\ Running(b) /\ UNCHANGED <<ext, ver, life>> /\ pc'[b] # "idle"
        /\ a # b => pc'[a] = pc[a]
    BY <1>1, <1>8, StepMoves
  <2>2. CASE Save(b)
    <3>1. /\ UNCHANGED record /\ pc[b] = "save" /\ pc'[b] = "reload" /\ Alive(b)
          /\ versions[ver[b]] = None /\ versions' = [versions EXCEPT ![ver[b]] = b]
      BY <1>1, <2>2 DEF Save, InsertVersion, Goto, Alive, TypeOK
    <3>2. record[b] \in {"none", "running"}
      BY <3>1 DEF IInv, History
    <3>3. QED
      BY <1>1, <1>2, <2>1, <3>1, <3>2 DEF Alive, TypeOK
  <2>3. CASE ~ Save(b)
    <3>1. UNCHANGED versions /\ pc'[b] # "reload" /\ (pc'[b] = "finish" => pc[b] = "reload")
      BY <1>1, <1>8, <2>3, StepMoves DEF Unsaved
    <3>2. record[b] \in {"none", "running"}
      BY <2>1 DEF IInv, History, Running
    <3>3. CASE UNCHANGED record
      BY <1>1, <2>1, <3>1, <3>2, <3>3 DEF Alive, Running
    <3>4. CASE pc'[b] = "worker" /\ Alive(b) /\ record' = [record EXCEPT ![b] = "running"]
      BY <1>1, <2>1, <3>1, <3>4 DEF Alive, Running, TypeOK
    <3>5. CASE /\ pc[b] \in Unsaved /\ pc'[b] = "done"
               /\ CloseRecord(b, "failed") \/ CloseRecord(b, "cancelled")
      <4>1. versions[ver[b]] # b
        BY <1>1, <3>5 DEF IInv, Rows, TypeOK
      <4>2. QED
        BY <1>1, <2>1, <3>1, <3>2, <3>5, <4>1 DEF Alive, Running, CloseRecord, TypeOK
    <3>6. CASE pc[b] = "finish" /\ pc'[b] = "done" /\ CloseRecord(b, "success")
      <4>1. Alive(b) => versions[ver[b]] = b
        BY <3>6 DEF IInv, History
      <4>2. QED
        BY <1>1, <2>1, <3>1, <3>2, <3>6, <4>1 DEF Alive, Running, CloseRecord, TypeOK
    <3>7. CASE pc'[b] = "done" /\ CloseRecord(b, "failed") /\ (Alive(b) => faults' # 0)
      BY <1>1, <2>1, <3>1, <3>2, <3>7 DEF Alive, Running, CloseRecord, TypeOK
    <3>8. QED
      BY <1>1, <1>8, <3>3, <3>4, <3>5, <3>6, <3>7, StepRecords
  <2>4. QED
    BY <2>2, <2>3
<1>9. CASE Crash
  BY <1>1, <1>9 DEF Crash, Running, rows, input, Alive, TypeOK
<1>10. CASE UNCHANGED vars
  BY <1>1, <1>10 DEF vars, Alive
<1>11. QED
  BY <1>3, <1>4, <1>5, <1>6, <1>7, <1>8, <1>9, <1>10 DEF Next

\* The invariant is inductive.
LEMMA IInvStep == IInv /\ [Next]_vars => IInv'
BY TypeStep, LivesStep, RowsStep, HistoryStep DEF IInv

\* The invariant holds in every reachable state.
LEMMA Invariance == Spec => []IInv
BY InitIInv, IInvStep, PTL DEF Spec

-----------------------------------------------------------------------------
(* Files, when builds do not overlap.                                      *)
(*                                                                         *)
(* DownloadsVerify says nothing of a build that replaces a file.  Files    *)
(* adds that it replaces none a row names: the row it looked for is not    *)
(* there, and while it runs nobody else writes one that names a package.   *)

\* No build begins while another runs.
LEMMA AloneStep ==
    ASSUME Overlap = 1, TypeOK, Alone, [Next]_vars
    PROVE  Alone'
<1> USE DEF Alone, Running
<1>1. ASSUME NEW b \in Builds, Begin(b) PROVE Alone'
  <2> DEFINE A == {a \in Builds : Running(a)}
  <2>1. IsFiniteSet(A)
    BY BuildsAssumption, FS_Subset
  <2>2. Cardinality(A) \in Nat /\ Cardinality(A) < 1
    BY <1>1, <2>1, FS_CardinalityType DEF Begin
  <2>3. A = {}
    <3> HIDE DEF A
    <3>1. Cardinality(A) = 0
      BY <2>2
    <3>2. QED
      BY <2>1, <3>1, FS_EmptySet
  <2>4. \A a \in Builds : ~ Running(a)
    BY <2>3
  <2>5. \A a \in Builds : a # b => pc'[a] = pc[a]
    BY <1>1 DEF Begin, Goto, TypeOK
  <2>6. QED
    BY <2>4, <2>5
<1>2. ASSUME \A a \in Builds : Running(a)' => Running(a) PROVE Alone'
  BY <1>2
<1>3. ASSUME NEW b \in Builds, Step(b) PROVE \A a \in Builds : Running(a)' => Running(a)
  BY <1>3, StepMoves
<1>4. CASE Crash
  BY <1>4 DEF Crash, TypeOK
<1>5. CASE UNCHANGED pc
  BY <1>5
<1>6. QED
  BY <1>1, <1>2, <1>3, <1>4, <1>5 DEF Next, Create, UpdateMeta, Delete, SaveManually, vars

\* What a step of a build does to the files, and what it has seen when it does it.
LEMMA StepFiles ==
    ASSUME TypeOK, NEW b \in Builds, Step(b)
    PROVE  \/ UNCHANGED <<versions, file>> /\ pc'[b] \notin {"remove", "link", "save"}
           \/ /\ pc[b] = "store" /\ pc'[b] = "save" /\ file[ver[b]] = None
              /\ UNCHANGED versions /\ file' = [file EXCEPT ![ver[b]] = b]
           \/ pc[b] = "orphan" /\ pc'[b] = "remove" /\ ~VersionExists(b) /\ UNCHANGED <<versions, file>>
           \/ /\ pc[b] = "remove" /\ pc'[b] = "link"
              /\ UNCHANGED versions /\ file' = [file EXCEPT ![ver[b]] = None]
           \/ /\ pc[b] = "link" /\ pc'[b] = "save" /\ file[ver[b]] = None
              /\ UNCHANGED versions /\ file' = [file EXCEPT ![ver[b]] = b]
           \/ /\ pc[b] = "save" /\ pc'[b] = "reload" /\ Alive(b)
              /\ UNCHANGED file /\ versions' = [versions EXCEPT ![ver[b]] = b]
<1> USE DEF TypeOK, Goto, rows, Conflict, End, EndByFault
<1>1. CASE CheckVersion(b) \/ BuildFails(b) \/ ClientLeaves(b) \/ ReturnsError(b) \/ Package(b)
  BY <1>1 DEF CheckVersion, BuildFails, ClientLeaves, ReturnsError, Package
<1>2. CASE OpenRecord(b)
  BY <1>2 DEF OpenRecord
<1>3. CASE Store(b)
  BY <1>3 DEF Store
<1>4. CASE StoreFails(b)
  BY <1>4 DEF StoreFails
<1>5. CASE CheckOrphan(b)
  BY <1>5 DEF CheckOrphan
<1>6. CASE Remove(b)
  BY <1>6 DEF Remove
<1>7. CASE Link(b)
  BY <1>7 DEF Link
<1>8. CASE Save(b)
  BY <1>8 DEF Save, InsertVersion, Alive
<1>9. CASE SaveFails(b)
  BY <1>9 DEF SaveFails
<1>10. CASE Reload(b)
  BY <1>10 DEF Reload
<1>11. CASE Finish(b)
  BY <1>11 DEF Finish
<1>12. QED
  BY <1>1, <1>2, <1>3, <1>4, <1>5, <1>6, <1>7, <1>8, <1>9, <1>10, <1>11 DEF Step

\* A build that runs alone leaves every row with its package.
LEMMA BuildKeepsFiles ==
    ASSUME IInv, Alone, Files, DownloadsVerify, NEW b \in Builds, Step(b)
    PROVE  Files' /\ DownloadsVerify'
<1>1. TypeOK /\ ver[b] \in Versions /\ None \notin Builds
  BY BuildsAssumption DEF IInv, TypeOK
<1>2. /\ Running(b) /\ UNCHANGED <<ext, ver, life>>
      /\ \A a \in Builds \ {b} : pc'[a] = pc[a] /\ ~ Running(a)
  BY <1>1, StepMoves DEF Alone
<1>3. /\ pc[b] \in {"remove", "link", "save"} => versions[ver[b]] \notin Builds
      /\ pc[b] = "save" => file[ver[b]] = b
      /\ ~Alive(b) => \A v \in Versions : versions[v] \notin Builds
  BY <1>2 DEF Files
<1>4. SUFFICES /\ pc'[b] \in {"remove", "link", "save"} => versions'[ver[b]] \notin Builds
               /\ pc'[b] = "save" => file'[ver[b]] = b
               /\ ~Alive(b) => \A v \in Versions : versions'[v] \notin Builds
               /\ \A v \in Versions : versions'[v] \in Builds => file'[v] = versions'[v]
  BY <1>2 DEF Files, DownloadsVerify, Running, Alive
<1>5. \A v \in Versions : versions[v] \in Builds => file[v] = versions[v]
  BY DEF DownloadsVerify
<1>6. versions \in [Versions -> Builds \cup {None, Stub}] /\ file \in [Versions -> Builds \cup {None}]
  BY <1>1 DEF TypeOK
<1>7. pc[b] = "orphan" /\ ~VersionExists(b) => versions[ver[b]] \notin Builds
  BY <1>1, <1>3 DEF VersionExists
<1>8. pc[b] = "store" /\ file[ver[b]] = None => versions[ver[b]] \notin Builds
  BY <1>1, <1>5
<1>9. QED
  BY <1>1, <1>3, <1>5, <1>6, <1>7, <1>8, StepFiles

\* So do the other requests and crashes: they write no row that names a package.
LEMMA FilesStep ==
    ASSUME IInv, Alone, Files, DownloadsVerify, [Next]_vars, Alone'
    PROVE  Files' /\ DownloadsVerify'
<1>1. TypeOK /\ None \notin Builds /\ Stub \notin Builds
  BY BuildsAssumption DEF IInv
<1>2. ASSUME UNCHANGED <<file, pc, ver, life>>,
             \A v \in Versions : versions'[v] \in Builds => versions'[v] = versions[v],
             UNCHANGED ext \/ \A v \in Versions : versions'[v] \notin Builds
      PROVE  Files' /\ DownloadsVerify'
  <2>1. \A b \in Builds : ver[b] \in Versions
    BY <1>1 DEF TypeOK
  <2>2. QED
    BY <1>2, <2>1 DEF Files, DownloadsVerify, Running, Alive
<1>3. CASE Create
  <2>1. \A v \in Versions : versions'[v] \notin Builds
    BY <1>1, <1>3 DEF Create, IInv, Lives, TypeOK
  <2>2. QED
    BY <1>2, <1>3, <2>1 DEF Create, input
<1>4. CASE UpdateMeta
  BY <1>2, <1>4 DEF UpdateMeta, input
<1>5. CASE Delete
  BY <1>1, <1>2, <1>5 DEF Delete, input
<1>6. CASE SaveManually
  <2>1. \A v \in Versions : versions'[v] \in Builds => versions'[v] = versions[v]
    BY <1>1, <1>6 DEF SaveManually, InsertVersion, TypeOK
  <2>2. QED
    BY <1>2, <1>6, <2>1 DEF SaveManually, InsertVersion, input
<1>7. ASSUME NEW b \in Builds, Begin(b) PROVE Files' /\ DownloadsVerify'
  <2>1. /\ UNCHANGED <<ext, versions, file>>
        /\ pc'[b] = "version" /\ life'[b] = ext
        /\ \A a \in Builds \ {b} : pc'[a] = pc[a] /\ ver'[a] = ver[a] /\ life'[a] = life[a]
    BY <1>1, <1>7 DEF Begin, Goto, rows, TypeOK
  <2>2. Files'
    BY <2>1 DEF Files, Running, Alive
  <2>3. QED
    BY <2>1, <2>2 DEF DownloadsVerify
<1>8. ASSUME NEW b \in Builds, Step(b) PROVE Files' /\ DownloadsVerify'
  BY <1>8, BuildKeepsFiles
<1>9. CASE Crash
  <2>1. /\ UNCHANGED <<ext, versions, file, ver, life>>
        /\ \A b \in Builds : pc'[b] \in {"idle", "done"}
    BY <1>1, <1>9 DEF Crash, Running, rows, input, TypeOK
  <2>2. QED
    BY <2>1 DEF Files, DownloadsVerify, Running
<1>10. CASE UNCHANGED vars
  BY <1>2, <1>10 DEF vars
<1>11. QED
  BY <1>3, <1>4, <1>5, <1>6, <1>7, <1>8, <1>9, <1>10 DEF Next

\* Only builds touch files, and what one has seen it alone can change.
LEMMA InTheWayStep ==
    ASSUME TypeOK, Alone, InTheWay, [Next]_vars
    PROVE  InTheWay'
<1>1. ASSUME UNCHANGED <<file, ver>>, \A b \in Builds : pc'[b] \in {pc[b], "done"}
      PROVE  InTheWay'
  BY <1>1 DEF InTheWay
<1>2. ASSUME NEW b \in Builds, Begin(b) PROVE InTheWay'
  <2>1. /\ UNCHANGED file /\ pc'[b] = "version"
        /\ \A a \in Builds \ {b} : pc'[a] = pc[a] /\ ver'[a] = ver[a]
    BY <1>2 DEF Begin, Goto, TypeOK
  <2>2. QED
    BY <2>1 DEF InTheWay
<1>3. ASSUME NEW b \in Builds, Step(b) PROVE InTheWay'
  <2>1. /\ Running(b) /\ UNCHANGED ver
        /\ \A a \in Builds \ {b} : pc'[a] = pc[a] /\ pc[a] \in {"idle", "done"}
    BY <1>3, StepMoves DEF Alone, Running
  <2>2. ver[b] \in Versions /\ file \in [Versions -> Builds \cup {None}]
    BY DEF TypeOK
  <2>3. /\ pc'[b] \in {"orphan", "remove"} => file'[ver[b]] # None
        /\ pc'[b] = "link" => file'[ver[b]] = None
    <3> USE DEF Goto, Conflict, End, EndByFault, TypeOK
    <3>1. CASE CheckVersion(b) \/ OpenRecord(b) \/ BuildFails(b) \/ ClientLeaves(b) \/ ReturnsError(b)
               \/ Package(b) \/ Save(b) \/ SaveFails(b) \/ Reload(b) \/ Finish(b) \/ StoreFails(b)
      <4>1. pc'[b] \notin {"orphan", "remove", "link"}
        BY <3>1 DEF CheckVersion, OpenRecord, BuildFails, ClientLeaves, ReturnsError, Package, Save,
           SaveFails, Reload, Finish, StoreFails
      <4>2. QED
        BY <4>1
    <3>2. CASE Store(b)
      BY <2>2, <3>2 DEF Store
    <3>3. CASE CheckOrphan(b)
      BY <3>3 DEF CheckOrphan, InTheWay
    <3>4. CASE Remove(b)
      BY <2>2, <3>4 DEF Remove
    <3>5. CASE Link(b)
      BY <3>5 DEF Link
    <3>6. QED
      BY <1>3, <3>1, <3>2, <3>3, <3>4, <3>5 DEF Step
  <2>4. QED
    BY <2>1, <2>3 DEF InTheWay
<1>4. CASE Crash
  BY <1>1, <1>4 DEF Crash, TypeOK, input
<1>5. CASE Create \/ UpdateMeta \/ Delete \/ SaveManually \/ UNCHANGED vars
  BY <1>1, <1>5 DEF Create, UpdateMeta, Delete, SaveManually, input, vars
<1>6. QED
  BY <1>2, <1>3, <1>4, <1>5 DEF Next

-----------------------------------------------------------------------------
(* The results.                                                            *)

\* Every variable keeps its type: no statement writes a status the table refuses.
THEOREM TypeCorrect == Spec => []TypeOK
<1>1. IInv => TypeOK
  BY DEF IInv
<1>2. QED
  BY <1>1, Invariance, PTL

\* However builds overlap, whatever fails, wherever the process crashes and whenever the
\* extension is deleted: the build history and the version registry agree.
THEOREM HistoryIsTrue == Spec => []HistoryMatchesVersions
<1>1. IInv => HistoryMatchesVersions
  <2> SUFFICES ASSUME IInv, NEW b \in Builds
               PROVE  /\ record[b] = "success" => versions[ver[b]] = b
                      /\ record[b] \in {"failed", "cancelled"} /\ faults = 0
                         => \A v \in Versions : versions[v] # b
    BY DEF HistoryMatchesVersions
  <2>1. \A v \in Versions : versions[v] = b => ver[b] = v
    BY DEF IInv, Rows
  <2>2. QED
    BY <2>1 DEF IInv, History
<1>2. QED
  BY <1>1, Invariance, PTL

\* A version, once recorded, is never overwritten while its extension exists.
THEOREM VersionsStay == Spec => VersionsAreImmutable
<1> DEFINE Kept == ext' = ext => \A v \in Versions : versions[v] # None => versions'[v] = versions[v]
<1>1. IInv /\ [Next]_vars => [Kept]_vars
  <2> SUFFICES ASSUME IInv, Next, NEW v \in Versions, ext' = ext, versions[v] # None
               PROVE  versions'[v] = versions[v]
    OBVIOUS
  <2>1. TypeOK /\ ext # 0
    BY DEF IInv, Lives
  <2>2. ASSUME NEW l, NEW w \in Versions, NEW row, NEW m, InsertVersion(l, w, row, m)
        PROVE  versions'[v] = versions[v]
    BY <2>1, <2>2 DEF InsertVersion, TypeOK
  <2>3. CASE SaveManually
    BY <2>2, <2>3 DEF SaveManually
  <2>4. ASSUME NEW b \in Builds, Begin(b) \/ Step(b) PROVE versions'[v] = versions[v]
    <3>1. CASE Save(b)
      BY <2>1, <2>2, <3>1 DEF Save, TypeOK
    <3>2. CASE Begin(b)
      BY <3>2 DEF Begin, rows
    <3>3. CASE Step(b) /\ ~ Save(b)
      BY <2>1, <3>3, StepMoves
    <3>4. QED
      BY <2>4, <3>1, <3>2, <3>3
  <2>5. QED
    BY <2>1, <2>3, <2>4 DEF Next, Create, UpdateMeta, Delete, Crash, rows
<1>2. QED
  BY <1>1, Invariance, PTL DEF Spec, VersionsAreImmutable

\* While at most one build of the slug runs at a time, every version row that names a
\* package can be downloaded, across crashes, failures and lives of the extension.
THEOREM SerialDownloads == Overlap = 1 => (Spec => []DownloadsVerify)
<1> SUFFICES ASSUME Overlap = 1 PROVE Spec => []DownloadsVerify
  OBVIOUS
<1>1. Init => Alone /\ Files /\ DownloadsVerify
  BY BuildsAssumption DEF Init, Alone, Files, DownloadsVerify, Running
<1>2. IInv /\ (Alone /\ Files /\ DownloadsVerify) /\ [Next]_vars
      => (Alone /\ Files /\ DownloadsVerify)'
  BY AloneStep, FilesStep DEF IInv
<1>3. QED
  BY <1>1, <1>2, Invariance, PTL DEF Spec

\* While at most one build of the slug runs at a time, a file that no version row names
\* never turns a build into a conflict, whatever an earlier build left behind: a conflict
\* speaks of a version that exists or of an extension that does not.
THEOREM SerialConflicts == Overlap = 1 => (Spec => ConflictIsReal)
<1> SUFFICES ASSUME Overlap = 1 PROVE Spec => ConflictIsReal
  OBVIOUS
<1> DEFINE Real ==
        UNCHANGED <<faults, crashes>> =>
            \A b \in Builds :
               pc[b] \in {"orphan", "remove", "link", "save", "reload"} /\ pc'[b] = "done"
               => versions[ver[b]] # None \/ life[b] # ext
<1>1. Init => Alone /\ InTheWay
  BY DEF Init, Alone, Running, InTheWay
<1>2. IInv /\ (Alone /\ InTheWay) /\ [Next]_vars => (Alone /\ InTheWay)'
  BY AloneStep, InTheWayStep DEF IInv
<1>3. IInv /\ (Alone /\ InTheWay) /\ [Next]_vars => [Real]_vars
  <2> SUFFICES ASSUME TypeOK, InTheWay, Next, UNCHANGED <<faults, crashes>>,
                      NEW b \in Builds, pc'[b] = "done",
                      pc[b] \in {"orphan", "remove", "link", "save", "reload"}
               PROVE  versions[ver[b]] # None \/ life[b] # ext
    BY DEF IInv
  <2>1. ~ Fault /\ ~ Crash
    BY BoundsAssumption DEF Fault, Crash, TypeOK
  <2>2. PICK a \in Builds : Begin(a) \/ Step(a)
    BY <2>1 DEF Next, Create, UpdateMeta, Delete, SaveManually, input
  <2>3. a = b /\ Step(b)
    <3>1. CASE Begin(a)
      BY <3>1 DEF Begin, Goto, TypeOK
    <3>2. CASE Step(a)
      BY <3>2, StepMoves
    <3>3. QED
      BY <2>2, <3>1, <3>2
  <2> USE <2>1 DEF Goto, End, EndByFault, Conflict, Alive, TypeOK
  <2>4. CASE CheckVersion(b) \/ OpenRecord(b) \/ BuildFails(b) \/ ClientLeaves(b) \/ ReturnsError(b)
             \/ Package(b) \/ Store(b) \/ Save(b) \/ Finish(b)
    BY <2>4 DEF CheckVersion, OpenRecord, BuildFails, ClientLeaves, ReturnsError, Package, Store,
       Save, Finish
  <2>5. CASE StoreFails(b)
    BY <2>5 DEF StoreFails
  <2>6. CASE CheckOrphan(b)
    BY <2>6 DEF CheckOrphan, VersionExists
  <2>7. CASE Remove(b) \/ Link(b)
    BY <2>7 DEF Remove, Link, InTheWay
  <2>8. CASE SaveFails(b)
    BY <2>8 DEF SaveFails
  <2>9. CASE Reload(b)
    BY <2>9 DEF Reload
  <2>10. QED
    BY <2>3, <2>4, <2>5, <2>6, <2>7, <2>8, <2>9 DEF Step
<1>4. QED
  BY <1>1, <1>2, <1>3, Invariance, PTL DEF Spec, ConflictIsReal
=============================================================================
