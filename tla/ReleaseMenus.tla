---------------------------- MODULE ReleaseMenus ----------------------------
(***************************************************************************)
(* The two menus that take a project out of the builder: publishing it     *)
(* (publish-button.tsx) and building an export (export-button.tsx), with   *)
(* the saving they begin with and the answers they get.                    *)
(*                                                                         *)
(* A document is a number, a broken one has errors validateModel finds.    *)
(* Opening a menu or pressing outside it shows and hides what it began,    *)
(* and is left out.                                                        *)
(* The order of saves is BuilderSession's subject: here one is under way   *)
(* at a time.                                                              *)
(***************************************************************************)
EXTENDS Naturals, FiniteSets

CONSTANTS Releases,       \* documents, numbered from 0 as they are made
          BrokenReleases, \* those that validation refuses
          ExportTargets,  \* what can be built
          WebTarget,      \* the one that is a page, the others are archives
          NoRelease,      \* no document, target or build
          Markup, Archive, Noise, \* answers that are no artifact: they begin as a
                          \* page does, as an archive does, otherwise or are empty
          MaxBuildsAsked, \* bound: builds started
          MaxPublishings, \* bound: publications asked for or withdrawn
          MaxOutFaults    \* bound: requests that fail, answers that are lost

Foreign == {Markup, Archive, Noise}

ASSUME ReleaseAssumption ==
  /\ Releases \subseteq Nat /\ 0 \in Releases /\ BrokenReleases \subseteq Releases
  /\ NoRelease \notin Releases /\ NoRelease \notin ExportTargets
  /\ WebTarget \in ExportTargets
  /\ Foreign \cap Releases = {} /\ NoRelease \notin Foreign
  /\ Markup # Noise /\ Archive # Noise
  /\ {MaxBuildsAsked, MaxPublishings, MaxOutFaults} \subseteq Nat

Builds == 1..MaxBuildsAsked

VARIABLES onPage,     \* the document in the tab
          noted,      \* the one the tab believes saved
          saying,     \* saveState
          sending,    \* the save under way: its document and stage, or NoRelease
          kept,       \* the document the server has
          overtaken,  \* was the document noted last never sent: edited during the save
          published,  \* the one it has published, or NoRelease
          publishing, \* PublishButton: [stage, shown, clicks], shown: called live
          pipeline,   \* ExportButton: [target, stages, failed, offer]
          builds,     \* the builds started: [target, model, at, answer, alone]
          outFaults,
          uncertain   \* the answer to a publication was lost

saving      == <<onPage, noted, saying, sending, kept, overtaken>>
releaseVars == <<saving, published, publishing, pipeline, builds, outFaults, uncertain>>

NotSending == [doc |-> NoRelease, stage |-> "none"]
PipelineIds == {"validate", "assets", "compile", "package"}
InitialStages == [s \in PipelineIds |-> "pending"]
NoBuild == [target |-> NoRelease, model |-> NoRelease, at |-> "unasked",
            answer |-> NoRelease, alone |-> FALSE]

Under(b) == builds[b].at \notin {"unasked", "ended"}
OutFault == outFaults < MaxOutFaults /\ outFaults' = outFaults + 1

-----------------------------------------------------------------------------
(* Editing and saving, as far as the menus see it. *)

\* A build whose document may not be the one the server answers with.
Touched(b) == [b EXCEPT !.alone = FALSE]
Disturbed == builds' = [b \in Builds |->
               IF builds[b].at \in {"saving", "saved", "assets", "compiling"}
               THEN Touched(builds[b]) ELSE builds[b]]

EditOnPage ==
  /\ onPage + 1 \in Releases
  /\ onPage' = onPage + 1
  /\ saying' = "dirty"
  /\ Disturbed
  /\ UNCHANGED <<noted, sending, kept, overtaken, published, publishing, pipeline, outFaults, uncertain>>

\* saveNow: nothing to send when the document is the one noted as saved.
SendSave ==
  IF onPage = noted THEN saying' = "saved" /\ UNCHANGED sending
  ELSE /\ saying' = "saving"
       /\ sending' = [doc |-> onPage, stage |-> "sent"]

AutosaveHere ==
  /\ saying = "dirty" /\ sending = NotSending
  /\ SendSave
  /\ UNCHANGED <<onPage, noted, kept, overtaken, published, publishing, pipeline, builds, outFaults, uncertain>>

KeepSave ==
  /\ sending.stage = "sent"
  /\ kept' = sending.doc
  /\ sending' = [sending EXCEPT !.stage = "kept"]
  /\ UNCHANGED <<onPage, noted, saying, overtaken, published, publishing, pipeline, builds, outFaults, uncertain>>

\* Those who wait for the save go on once it is answered, well or not: saveNow
\* keeps its failures to itself.
SaveEnds ==
  /\ sending' = NotSending
  /\ publishing' = [publishing EXCEPT !.stage = IF @ = "saving" THEN "asked" ELSE @]
  /\ builds' = [b \in Builds |->
       IF builds[b].at = "saving"
       THEN [builds[b] EXCEPT !.at = "saved", !.alone = @ /\ saying' = "saved"]
       ELSE builds[b]]

\* What is noted as saved is the document of the page by then, sent or not.
SaveAnswered ==
  /\ sending.stage = "kept"
  /\ noted' = onPage /\ saying' = "saved"
  /\ overtaken' = (sending.doc # onPage)
  /\ SaveEnds
  /\ UNCHANGED <<onPage, kept, published, pipeline, outFaults, uncertain>>

SaveRefused ==
  /\ sending # NotSending
  /\ OutFault
  /\ saying' = "error" /\ UNCHANGED <<noted, overtaken>>
  /\ SaveEnds
  /\ UNCHANGED <<onPage, kept, published, pipeline, uncertain>>

-----------------------------------------------------------------------------
(* Publishing. *)

\* validateModel finds no error.
Valid(model) == model \notin BrokenReleases

PublishClick(stage) ==
  /\ publishing.stage = "idle"
  /\ publishing.clicks < MaxPublishings
  /\ publishing' = [publishing EXCEPT !.stage = stage, !.clicks = @ + 1]

\* The first publication is offered for a document without errors, the next
\* ones for any.
PublishNow ==
  /\ publishing.shown \/ Valid(onPage)
  /\ sending = NotSending
  /\ SendSave
  /\ PublishClick(IF onPage = noted THEN "asked" ELSE "saving")
  /\ UNCHANGED <<onPage, noted, kept, overtaken, published, pipeline, builds, outFaults, uncertain>>

UnpublishNow ==
  /\ publishing.shown
  /\ PublishClick("withdrawing")
  /\ UNCHANGED <<saving, published, pipeline, builds, outFaults, uncertain>>

ReleaseServed ==
  /\ \/ publishing.stage = "asked" /\ published' = kept
     \/ publishing.stage = "withdrawing" /\ published' = NoRelease
  /\ publishing' = [publishing EXCEPT !.stage = IF @ = "asked" THEN "made" ELSE "withdrawn"]
  /\ UNCHANGED <<saving, pipeline, builds, outFaults, uncertain>>

ReleaseAnswered ==
  /\ publishing.stage \in {"made", "withdrawn"}
  /\ publishing' = [publishing EXCEPT !.stage = "idle", !.shown = publishing.stage = "made"]
  /\ uncertain' = FALSE
  /\ UNCHANGED <<saving, published, pipeline, builds, outFaults>>

ReleaseFails ==
  /\ publishing.stage \in {"asked", "withdrawing", "made", "withdrawn"}
  /\ OutFault
  /\ publishing' = [publishing EXCEPT !.stage = "idle"]
  /\ uncertain' = (uncertain \/ publishing.stage \in {"made", "withdrawn"})
  /\ UNCHANGED <<saving, published, pipeline, builds>>

-----------------------------------------------------------------------------
(* Exporting. *)

Stage(s, state) == [pipeline.stages EXCEPT ![s] = state]
AtStages(stages) == pipeline' = [pipeline EXCEPT !.stages = stages]
FailedAt(s) == pipeline' = [pipeline EXCEPT !.stages = Stage(s, "failed"), !.failed = TRUE]
Step(b, at) == builds' = [builds EXCEPT ![b].at = at]

\* The pipeline begins anew.
Begin(target) ==
  [target |-> target, failed |-> FALSE, offer |-> NoRelease,
   stages |-> [InitialStages EXCEPT !["validate"] = "running"]]

\* A build may begin while one whose pipeline was closed still runs.  It
\* holds the document of its click, and waits for no save but its own.
StartExport(b) ==
  /\ pipeline.target = NoRelease
  /\ builds[b] = NoBuild /\ (b > 1 => builds[b - 1] # NoBuild)
  /\ \E t \in ExportTargets :
       LET saves == saying \in {"dirty", "error"}
           alone == (\A c \in Builds : ~Under(c)) /\ sending = NotSending /\ ~overtaken
           begun(at) == [target |-> t, model |-> onPage, at |-> at,
                         answer |-> NoRelease, alone |-> alone]
           others == [c \in Builds |-> IF Under(c) THEN Touched(builds[c]) ELSE builds[c]]
       IN /\ pipeline' = Begin(t)
          /\ \/ /\ ~saves
                /\ builds' = [others EXCEPT ![b] = begun("saved")]
                /\ UNCHANGED <<saying, sending>>
             \/ /\ saves /\ sending = NotSending
                /\ builds' = [others EXCEPT ![b] =
                                begun(IF onPage = noted THEN "saved" ELSE "saving")]
                /\ SendSave
  /\ UNCHANGED <<onPage, noted, kept, overtaken, published, publishing, outFaults, uncertain>>

\* validateModel, of the document of the click.
Validate(b) ==
  /\ builds[b].at = "saved"
  /\ IF Valid(builds[b].model)
     THEN /\ AtStages([Stage("validate", "done") EXCEPT !["assets"] = "running"])
          /\ Step(b, "assets")
     ELSE FailedAt("validate") /\ Step(b, "ended")
  /\ UNCHANGED <<saving, published, publishing, outFaults, uncertain>>

\* A quarter of a second for the assets, then the artifact is asked for.
AssetsReady(b) ==
  /\ builds[b].at = "assets"
  /\ AtStages([Stage("assets", "done") EXCEPT !["compile"] = "running"])
  /\ Step(b, "compiling")
  /\ UNCHANGED <<saving, published, publishing, outFaults, uncertain>>

\* The server builds the project as it has it.  What arrives may be
\* something else than the artifact, as a page of a proxy's sent with 200.
ServeArtifact(b) ==
  /\ builds[b].at = "compiling" /\ builds[b].answer = NoRelease
  /\ \/ builds' = [builds EXCEPT ![b].answer = kept] /\ UNCHANGED outFaults
     \/ OutFault /\ \E f \in Foreign : builds' = [builds EXCEPT ![b].answer = f]
  /\ UNCHANGED <<saving, published, publishing, pipeline, uncertain>>

CompileAnswered(b) ==
  /\ builds[b].at = "compiling" /\ builds[b].answer # NoRelease
  /\ AtStages([Stage("compile", "done") EXCEPT !["package"] = "running"])
  /\ Step(b, "receiving")
  /\ UNCHANGED <<saving, published, publishing, outFaults, uncertain>>

\* The server refuses it, or the stream breaks: either is shown as a failure
\* to compile.
CompileFails(b) ==
  /\ builds[b].at \in {"compiling", "receiving"}
  /\ OutFault
  /\ FailedAt("compile")
  /\ Step(b, "ended")
  /\ UNCHANGED <<saving, published, publishing, uncertain>>

\* Mutant of Packaged: whatever was received is offered.
PackagedAnyway(b) ==
  /\ builds[b].at = "receiving"
  /\ pipeline' = [pipeline EXCEPT !.stages = Stage("package", "done"), !.offer = b]
  /\ Step(b, "ended")
  /\ UNCHANGED <<saving, published, publishing, outFaults, uncertain>>

\* An answer is taken for the artifact when it begins as one of its target
\* does: for the web with `<`, whatever page follows, for the others with PK.
BeginsAs(t) == IF t = WebTarget THEN Markup ELSE Archive
Verified(build) == build.answer \in Releases \cup {BeginsAs(build.target)}

Packaged(b) ==
  /\ builds[b].at = "receiving"
  /\ IF Verified(builds[b])
     THEN pipeline' = [pipeline EXCEPT !.stages = Stage("package", "done"), !.offer = b]
     ELSE FailedAt("package")
  /\ Step(b, "ended")
  /\ UNCHANGED <<saving, published, publishing, outFaults, uncertain>>

\* The cross of the pipeline: the build itself goes on.
ClosePipeline ==
  /\ pipeline.target # NoRelease
  /\ pipeline' = [pipeline EXCEPT !.target = NoRelease, !.failed = FALSE]
  /\ UNCHANGED <<saving, published, publishing, builds, outFaults, uncertain>>

-----------------------------------------------------------------------------
ReleaseInit ==
  /\ onPage = 0 /\ noted = 0 /\ kept = 0 /\ overtaken = FALSE
  /\ saying = "saved" /\ sending = NotSending
  /\ published \in {0, NoRelease}
  /\ publishing = [stage |-> "idle", shown |-> published # NoRelease,
                   clicks |-> 0]
  /\ pipeline = [target |-> NoRelease, stages |-> InitialStages,
                 failed |-> FALSE, offer |-> NoRelease]
  /\ builds = [b \in Builds |-> NoBuild]
  /\ outFaults = 0 /\ uncertain = FALSE

Build(b) ==
  \/ StartExport(b) \/ Validate(b) \/ AssetsReady(b) \/ ServeArtifact(b)
  \/ CompileAnswered(b) \/ CompileFails(b) \/ Packaged(b)

ReleaseNext ==
  \/ EditOnPage \/ AutosaveHere \/ KeepSave \/ SaveAnswered \/ SaveRefused
  \/ PublishNow \/ UnpublishNow \/ ReleaseServed \/ ReleaseAnswered
  \/ ReleaseFails \/ ClosePipeline
  \/ \E b \in Builds : Build(b)

ReleaseSpec == ReleaseInit /\ [][ReleaseNext]_releaseVars

-----------------------------------------------------------------------------
(* Properties. *)

Offered == builds[pipeline.offer]
IsArtifact == Offered.answer \in Releases
IsTakenForOne == Offered.answer = BeginsAs(Offered.target)
IsWhatWasShown ==
  /\ IsArtifact => Offered.answer = Offered.model
  /\ Offered.model \notin BrokenReleases
  /\ pipeline.target \in {Offered.target, NoRelease}
  /\ ~pipeline.failed
LiveIsShown ==
  publishing.stage = "idle" /\ ~uncertain => publishing.shown = (published # NoRelease)

\* A download is an artifact, or another answer that begins as one of its
\* target's does: any page passes for the web's.  One whose build nothing
\* disturbed (no edit before it arrived nor during the save before it, no other
\* build, no save under way at the click and none refused) is of the valid
\* document its author saw, and holds that document when it is an artifact,
\* under the name of the target the pipeline shows, and never beside a failure.
\* The publish menu calls live what is (export-button.tsx, startExport;
\* publish-button.tsx).
ReleasesAreHonest ==
  /\ pipeline.offer # NoRelease =>
       (IsArtifact \/ IsTakenForOne) /\ (Offered.alone => IsWhatWasShown)
  /\ LiveIsShown
=============================================================================
