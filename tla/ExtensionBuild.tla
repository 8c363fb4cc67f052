--------------------------- MODULE ExtensionBuild ---------------------------
(***************************************************************************)
(* Building versions of one extension (internal/extension/build.go): the   *)
(* version check, the build record, the isolated worker, the package store *)
(* on disk and the version row, for builds that overlap.                   *)
(*                                                                         *)
(* Rows belong to the extension and disappear with it; packages are files  *)
(* named by slug and version, and stay.  An extension deleted and created  *)
(* again under its name is a new life of the same slug.  Every package is  *)
(* stamped with the time it was built, so a package is named by its build. *)
(***************************************************************************)
EXTENDS Integers, FiniteSets

CONSTANTS
    Builds,      \* calls of StreamBuild
    Versions,    \* version numbers that are asked for
    First,       \* the version Create seeds, without a package
    Manifests,   \* contents a manifest may have
    None,        \* no row, no file
    Stub,        \* a version row without a package
    Overlap,     \* bound: builds that may run at one time
    MaxLives,    \* bound: times the extension is created
    MaxFaults,   \* bound: statements that fail
    MaxCrashes   \* bound: crashes of the process

ASSUME BuildsAssumption == IsFiniteSet(Builds) /\ None \notin Builds /\ Stub \notin Builds /\ None # Stub
ASSUME FirstAssumption == First \in Versions
ASSUME BoundsAssumption ==
    /\ Overlap \in Nat
    /\ MaxLives \in Nat
    /\ MaxFaults \in Nat
    /\ MaxCrashes \in Nat

PCs == {"idle", "version", "open", "worker", "store", "orphan", "remove", "link", "save",
        "reload", "finish", "done"}

Records == {"none", "running", "success", "failed", "cancelled"}

VARIABLES
    ext,        \* the life whose row exists, 0 if none does
    lives,      \* lives so far
    manifest,   \* the manifest its row holds
    versions,   \* extension_versions: a stub, or the build whose package the row names
    record,     \* extension_builds
    file,       \* data directory: the build whose package is stored as a version
    pc, ver, life, snap,   \* builds: control state, version, extension and manifest read
    faults, crashes

rows  == <<ext, lives, manifest, versions>>
input == <<ver, life, snap>>
vars  == <<ext, lives, manifest, versions, record, file, pc, ver, life, snap, faults, crashes>>

TypeOK ==
    /\ lives \in 0..MaxLives /\ ext \in 0..lives
    /\ manifest \in Manifests
    /\ versions \in [Versions -> Builds \cup {None, Stub}]
    /\ record \in [Builds -> Records]
    /\ file \in [Versions -> Builds \cup {None}]
    /\ pc \in [Builds -> PCs]
    /\ ver \in [Builds -> Versions]
    /\ life \in [Builds -> 0..MaxLives]
    /\ snap \in [Builds -> Manifests]
    /\ faults \in 0..MaxFaults
    /\ crashes \in 0..MaxCrashes

Init ==
    /\ ext = 0 /\ lives = 0
    /\ manifest \in Manifests
    /\ versions = [v \in Versions |-> None]
    /\ record = [b \in Builds |-> "none"]
    /\ file = [v \in Versions |-> None]
    /\ pc = [b \in Builds |-> "idle"]
    /\ ver = [b \in Builds |-> First]
    /\ life = [b \in Builds |-> 0]
    /\ snap = [b \in Builds |-> manifest]
    /\ faults = 0 /\ crashes = 0

Running(b) == pc[b] \notin {"idle", "done"}

\* A statement of a build that meets the rows of the extension it was started for.
Alive(b) == life[b] = ext

Goto(b, s) == pc' = [pc EXCEPT ![b] = s]

Fault == faults < MaxFaults /\ faults' = faults + 1

-----------------------------------------------------------------------------
(* The owner's other requests.                                             *)

\* Create inserts the extension, then its first version; the second INSERT may fail.
Create ==
    /\ ext = 0 /\ lives < MaxLives
    /\ ext' = lives + 1 /\ lives' = lives + 1
    /\ manifest' \in Manifests
    /\ \/ versions' = [versions EXCEPT ![First] = Stub] /\ UNCHANGED faults
       \/ Fault /\ UNCHANGED versions
    /\ UNCHANGED <<record, file, pc, input, crashes>>

UpdateMeta ==
    /\ ext # 0
    /\ manifest' \in Manifests \ {manifest}
    /\ UNCHANGED <<ext, lives, versions, record, file, pc, input, faults, crashes>>

\* Versions and build records cascade; files stay.
Delete ==
    /\ ext # 0
    /\ ext' = 0
    /\ versions' = [v \in Versions |-> None]
    /\ record' = [b \in Builds |-> "none"]
    /\ UNCHANGED <<lives, manifest, file, pc, input, faults, crashes>>

\* Mutant of InsertVersion: the row of a version that exists is overwritten.
UpsertVersion(l, v, row, m) ==
    /\ l = ext
    /\ versions' = [versions EXCEPT ![v] = row]
    /\ manifest' = m
    /\ UNCHANGED <<ext, lives>>

\* One transaction: a new row, unique per version, and the manifest it carries.
InsertVersion(l, v, row, m) ==
    /\ l = ext
    /\ versions[v] = None
    /\ versions' = [versions EXCEPT ![v] = row]
    /\ manifest' = m
    /\ UNCHANGED <<ext, lives>>

\* The manual Version endpoint.
SaveManually ==
    /\ ext # 0
    /\ \E v \in Versions, m \in Manifests : InsertVersion(ext, v, Stub, m)
    /\ UNCHANGED <<record, file, pc, input, faults, crashes>>

-----------------------------------------------------------------------------
(* A build, up to the worker's verdict.                                    *)

\* The extension is read; the version asked for, or the next patch, is any version.
Begin(b) ==
    /\ pc[b] = "idle"
    /\ ext # 0
    /\ Cardinality({a \in Builds : Running(a)}) < Overlap
    /\ life' = [life EXCEPT ![b] = ext]
    /\ snap' = [snap EXCEPT ![b] = manifest]
    /\ \E v \in Versions : ver' = [ver EXCEPT ![b] = v]
    /\ Goto(b, "version")
    /\ UNCHANGED <<rows, record, file, faults, crashes>>

VersionExists(b) == Alive(b) /\ versions[ver[b]] # None

\* A version that exists is answered as a conflict before any work.
CheckVersion(b) ==
    /\ pc[b] = "version"
    /\ Goto(b, IF VersionExists(b) THEN "done" ELSE "open")
    /\ UNCHANGED <<rows, record, file, input, faults, crashes>>

\* The running record; its extension must still exist.
OpenRecord(b) ==
    /\ pc[b] = "open"
    /\ IF Alive(b)
       THEN record' = [record EXCEPT ![b] = "running"] /\ Goto(b, "worker")
       ELSE UNCHANGED record /\ Goto(b, "done")
    /\ UNCHANGED <<rows, file, input, faults, crashes>>

\* FinishBuildRecord; the record of a deleted extension is gone.
CloseRecord(b, status) == record' = [record EXCEPT ![b] = IF Alive(b) THEN status ELSE @]

\* A build ends with its record closed, or not: the error of the statement is dropped.
End(b, status) ==
    /\ Goto(b, "done")
    /\ \/ CloseRecord(b, status) /\ UNCHANGED faults
       \/ Fault /\ UNCHANGED record

\* A statement fails, and the one that closes the record may fail with it.
EndByFault(b) ==
    /\ Goto(b, "done")
    /\ Fault
    /\ CloseRecord(b, "failed") \/ UNCHANGED record

\* Mutant of BuildFails: the record is left to be closed by nobody.
BuildFailsQuietly(b) ==
    /\ pc[b] = "worker"
    /\ Goto(b, "done")
    /\ UNCHANGED <<rows, record, file, input, faults, crashes>>

\* The build cannot be prepared or started, its source is rejected, the worker dies or
\* runs out of time, or its package fails the checks of finalizeRun.
BuildFails(b) ==
    /\ pc[b] = "worker"
    /\ End(b, "failed")
    /\ UNCHANGED <<rows, file, input, crashes>>

\* The client leaves before the verdict: the worker is killed.
ClientLeaves(b) ==
    /\ pc[b] = "worker"
    /\ End(b, "cancelled")
    /\ UNCHANGED <<rows, file, input, crashes>>

\* The version cannot be looked up, the record opened or the worker prepared: the error
\* is returned as it is.
ReturnsError(b) ==
    /\ pc[b] \in {"version", "open", "worker"}
    /\ Fault
    /\ Goto(b, "done")
    /\ UNCHANGED <<rows, record, file, input, crashes>>

Package(b) ==
    /\ pc[b] = "worker"
    /\ Goto(b, "store")
    /\ UNCHANGED <<rows, record, file, input, faults, crashes>>

-----------------------------------------------------------------------------
(* A build, from the verdict on.                                           *)

\* storePackage links the package to its name unless the name is taken.
Store(b) ==
    /\ pc[b] = "store"
    /\ IF file[ver[b]] = None
       THEN file' = [file EXCEPT ![ver[b]] = b] /\ Goto(b, "save")
       ELSE UNCHANGED file /\ Goto(b, "orphan")
    /\ UNCHANGED <<rows, record, input, faults, crashes>>

\* The package cannot be written, or the file in its way looked up or replaced.
StoreFails(b) ==
    /\ pc[b] \in {"store", "orphan", "remove", "link"}
    /\ EndByFault(b)
    /\ UNCHANGED <<rows, file, input, crashes>>

\* Answered as "This version already exists".
Conflict(b) == End(b, "failed")

\* Mutant of CheckOrphan: a file that is there is always a conflict.
CheckOrphanNever(b) ==
    /\ pc[b] = "orphan"
    /\ Conflict(b)
    /\ UNCHANGED <<rows, file, input, crashes>>

\* A file without a version row is replaced; with one it is a conflict.
CheckOrphan(b) ==
    /\ pc[b] = "orphan"
    /\ IF VersionExists(b) THEN Conflict(b) ELSE Goto(b, "remove") /\ UNCHANGED <<record, faults>>
    /\ UNCHANGED <<rows, file, input, crashes>>

Remove(b) ==
    /\ pc[b] = "remove"
    /\ IF file[ver[b]] # None
       THEN file' = [file EXCEPT ![ver[b]] = None] /\ Goto(b, "link") /\ UNCHANGED <<record, faults>>
       ELSE UNCHANGED file /\ Conflict(b)
    /\ UNCHANGED <<rows, input, crashes>>

\* Mutant of Link: the package is not linked to its name.
LinkNothing(b) ==
    /\ pc[b] = "link"
    /\ Goto(b, "save")
    /\ UNCHANGED <<rows, record, file, input, faults, crashes>>

Link(b) ==
    /\ pc[b] = "link"
    /\ IF file[ver[b]] = None
       THEN file' = [file EXCEPT ![ver[b]] = b] /\ Goto(b, "save") /\ UNCHANGED <<record, faults>>
       ELSE UNCHANGED file /\ Conflict(b)
    /\ UNCHANGED <<rows, input, crashes>>

\* The version row, with the manifest the build started from.
Save(b) ==
    /\ pc[b] = "save"
    /\ InsertVersion(life[b], ver[b], b, snap[b])
    /\ Goto(b, "reload")
    /\ UNCHANGED <<record, file, input, faults, crashes>>

\* Mutant of SaveFails: the conflict of the version row is not noticed.
SaveFailsUnnoticed(b) ==
    /\ pc[b] = "save"
    /\ Goto(b, "finish")
    /\ UNCHANGED <<rows, record, file, input, faults, crashes>>

\* The transaction fails, most likely on a row that is there or an extension that is
\* not: answered as a conflict, and the package stays.
SaveFails(b) ==
    /\ pc[b] = "save"
    /\ \/ (~Alive(b) \/ versions[ver[b]] # None) /\ Conflict(b)
       \/ EndByFault(b)
    /\ UNCHANGED <<rows, file, input, crashes>>

\* SaveVersion reads the extension back; an error here, too, is answered as a conflict.
Reload(b) ==
    /\ pc[b] = "reload"
    /\ \/ Alive(b) /\ Goto(b, "finish") /\ UNCHANGED <<record, faults>>
       \/ ~Alive(b) /\ Conflict(b)
       \/ EndByFault(b)
    /\ UNCHANGED <<rows, file, input, crashes>>

Finish(b) ==
    /\ pc[b] = "finish"
    /\ End(b, "success")
    /\ UNCHANGED <<rows, file, input, crashes>>

\* The process dies: files and rows stay, requests do not.
Crash ==
    /\ crashes < MaxCrashes
    /\ \E b \in Builds : Running(b)
    /\ crashes' = crashes + 1
    /\ pc' = [b \in Builds |-> IF Running(b) THEN "done" ELSE pc[b]]
    /\ UNCHANGED <<rows, record, file, input, faults>>

-----------------------------------------------------------------------------
Step(b) ==
    \/ CheckVersion(b) \/ OpenRecord(b)
    \/ BuildFails(b) \/ ClientLeaves(b) \/ ReturnsError(b) \/ Package(b)
    \/ Store(b) \/ StoreFails(b) \/ CheckOrphan(b) \/ Remove(b) \/ Link(b)
    \/ Save(b) \/ SaveFails(b) \/ Reload(b) \/ Finish(b)

Next ==
    \/ Create \/ UpdateMeta \/ Delete \/ SaveManually
    \/ \E b \in Builds : Begin(b) \/ Step(b)
    \/ Crash

Spec == Init /\ [][Next]_vars

\* Requests run to their end; the worker answers or is stopped after 120 seconds.
FairSpec == Spec /\ \A b \in Builds : WF_vars(Step(b))

-----------------------------------------------------------------------------
(* Safety.                                                                 *)

\* The history and the registry agree: a build recorded as a success is the one whose
\* package its version row names, and while every statement succeeds no row names a
\* build recorded as failed or cancelled.
HistoryMatchesVersions ==
    \A b \in Builds :
        /\ record[b] = "success" => versions[ver[b]] = b
        /\ record[b] \in {"failed", "cancelled"} /\ faults = 0
           => \A v \in Versions : versions[v] # b

\* A version row that names a package can be downloaded: the file is the package the
\* row was written for (AIX compares checksums).
DownloadsVerify ==
    \A v \in Versions : versions[v] \in Builds => file[v] = versions[v]

(* Action properties.                                                      *)

\* extension_versions is immutable: a version never changes while the extension exists.
VersionsAreImmutable ==
    [][ext' = ext => \A v \in Versions : versions[v] # None => versions'[v] = versions[v]]_vars

\* While every statement succeeds, a build that ends in a conflict after the worker met
\* a version that exists, or an extension that does not: a file alone is no conflict
\* (finalizeRun).
ConflictIsReal ==
    [][UNCHANGED <<faults, crashes>> =>
          \A b \in Builds :
             pc[b] \in {"orphan", "remove", "link", "save", "reload"} /\ pc'[b] = "done"
             => versions[ver[b]] # None \/ life[b] # ext]_vars

(* Liveness.                                                               *)

\* While statements succeed and the process stays up, a record that is opened is
\* closed, or goes with its extension, whatever the worker and the client do.
RecordsAreClosed ==
    [](faults = 0 /\ crashes = 0) =>
        \A b \in Builds : record[b] = "running" ~> record[b] # "running"
=============================================================================
