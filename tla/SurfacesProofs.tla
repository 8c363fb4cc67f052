--------------------------- MODULE SurfacesProofs ---------------------------
(***************************************************************************)
(* What five surfaces of the builder promise for every bound, each from    *)
(* its own initial state: a download that is the document its author saw   *)
(* (ReleaseMenus), a frame that shows a screen the document has            *)
(* (BuilderShell), strokes that stay on the frame they were drawn on       *)
(* (SpriteStudio), gestures that leave what they showed (SceneCanvas), and *)
(* names and ids that refer to one thing (SceneInspector).                 *)
(***************************************************************************)
EXTENDS SpriteStudio, BuilderShell, ReleaseMenus, SceneCanvas, SceneInspector, ListsProofs

-----------------------------------------------------------------------------
(* The menus that publish and export (ReleaseMenus).                       *)

BuildPhases == {"unasked", "saving", "saved", "assets", "compiling", "receiving", "ended"}
BuildRecords ==
  [target : ExportTargets \cup {NoRelease}, model : Releases \cup {NoRelease}, at : BuildPhases,
   answer : Releases \cup {NoRelease} \cup Foreign, alone : BOOLEAN]

\* A build has an answer only once it asked for one, and asks only for a
\* document without errors.
BuildIsSound(r) ==
  /\ r \in BuildRecords
  /\ r.at \in {"saving", "saved", "assets"} => r.answer = NoRelease
  /\ r.at \in {"assets", "compiling", "receiving"} => r.model \notin BrokenReleases
  /\ r.at = "receiving" => r.answer # NoRelease

\* The document of the page is noted as saved when it is stored, unless it was
\* overtaken; a save under way is of an earlier one or of this one.
SavingInv ==
  /\ onPage \in Releases /\ noted \in Releases /\ kept \in Releases
  /\ overtaken \in BOOLEAN
  /\ noted <= onPage
  /\ saying \in {"saved", "dirty", "saving", "error"}
  /\ sending \in [doc : Releases \cup {NoRelease}, stage : {"none", "sent", "kept"}]
  /\ sending # NotSending => sending.stage # "none" /\ sending.doc \in Releases /\ noted < onPage
  /\ sending.stage = "kept" => kept = sending.doc
  /\ saying = "saved" => sending = NotSending /\ noted = onPage
  /\ saying = "saving" => sending # NotSending
  /\ sending = NotSending /\ noted = onPage /\ ~overtaken => kept = onPage

\* The menu knows what is live, unless an answer was lost.
PublishingInv ==
  /\ published \in Releases \cup {NoRelease}
  /\ {"stage", "shown", "clicks"} \subseteq DOMAIN publishing
  /\ publishing.stage = "made" => published # NoRelease
  /\ publishing.stage = "withdrawn" => published = NoRelease
  /\ publishing.stage \notin {"made", "withdrawn"} /\ ~uncertain =>
       publishing.shown = (published # NoRelease)

\* A build nothing disturbed is the only one, the pipeline is its own, and the
\* server has, or is being sent, the document of its click.
Stored(m) == sending = NotSending /\ noted = m /\ onPage = m /\ kept = m
Undisturbed(b) ==
  /\ \A c \in Builds \ {b} : ~Under(c)
  /\ pipeline.offer = NoRelease /\ ~pipeline.failed
  /\ pipeline.target \in {builds[b].target, NoRelease}
  /\ builds[b].at = "saving" =>
       onPage = builds[b].model /\ sending.doc = builds[b].model /\ sending # NotSending
  /\ builds[b].at \in {"saved", "assets", "compiling"} /\ builds[b].answer = NoRelease =>
       Stored(builds[b].model)
  /\ builds[b].answer \in {NoRelease, builds[b].model} \cup Foreign

BuildsInv ==
  /\ builds \in [Builds -> BuildRecords]
  /\ {"target", "stages", "failed", "offer"} \subseteq DOMAIN pipeline
  /\ pipeline.failed \in BOOLEAN
  /\ \A b \in Builds : BuildIsSound(builds[b])
  /\ \A b \in Builds : Under(b) /\ builds[b].alone => Undisturbed(b)

\* What is offered was received; undisturbed, nothing was begun since.
OfferInv ==
  pipeline.offer # NoRelease =>
    /\ pipeline.offer \in Builds /\ Offered.at = "ended"
    /\ IsArtifact \/ IsTakenForOne
    /\ Offered.alone => IsWhatWasShown /\ \A c \in Builds : ~Under(c)

ReleaseInv == SavingInv /\ PublishingInv /\ BuildsInv /\ OfferInv

\* What is sent is the document of the page, when it is not noted as saved.
LEMMA SendKeepsSaving ==
  ASSUME SavingInv, sending = NotSending, SendSave, UNCHANGED <<onPage, noted, kept, overtaken>>
  PROVE  SavingInv'
<1>1. NoRelease \notin Releases /\ Releases \subseteq Nat
  BY ReleaseAssumption
<1>2. CASE onPage = noted
  BY <1>2 DEF SendSave, SavingInv, NotSending
<1>3. CASE onPage # noted
  <2>1. /\ saying' = "saving" /\ sending' = [doc |-> onPage, stage |-> "sent"]
    BY <1>3 DEF SendSave
  <2>2. /\ sending' \in [doc : Releases \cup {NoRelease}, stage : {"none", "sent", "kept"}]
        /\ sending' # NotSending /\ sending'.stage = "sent" /\ sending'.doc = onPage
    BY <2>1 DEF SavingInv, NotSending
  <2>3. noted < onPage
    BY <1>1, <1>3 DEF SavingInv
  <2>4. QED
    BY <2>1, <2>2, <2>3 DEF SavingInv, NotSending
<1>4. QED
  BY <1>2, <1>3

\* The menus' view of saving is right after every step.
LEMMA SavingStep ==
  ASSUME SavingInv, [ReleaseNext]_releaseVars
  PROVE  SavingInv'
<1>1. NoRelease \notin Releases /\ Releases \subseteq Nat
  BY ReleaseAssumption
<1>2. CASE UNCHANGED saving
  BY <1>2 DEF saving, SavingInv, NotSending
<1>3. CASE EditOnPage
  BY <1>1, <1>3 DEF EditOnPage, SavingInv, NotSending
<1>4. CASE AutosaveHere
  BY <1>4, SendKeepsSaving DEF AutosaveHere
<1>5. CASE KeepSave
  <2>1. /\ sending.stage = "sent" /\ kept' = sending.doc
        /\ sending' = [sending EXCEPT !.stage = "kept"]
        /\ UNCHANGED <<onPage, noted, saying, overtaken>>
    BY <1>5 DEF KeepSave
  <2>2. /\ sending # NotSending
        /\ sending \in [doc : Releases \cup {NoRelease}, stage : {"none", "sent", "kept"}]
        /\ sending.doc \in Releases /\ noted < onPage
    BY <2>1 DEF SavingInv, NotSending
  <2>3. /\ sending' \in [doc : Releases \cup {NoRelease}, stage : {"none", "sent", "kept"}]
        /\ sending'.doc = sending.doc /\ sending'.stage = "kept" /\ sending' # NotSending
    BY <2>1, <2>2 DEF NotSending
  <2>4. QED
    BY <2>1, <2>2, <2>3 DEF SavingInv, NotSending
<1>6. CASE SaveAnswered
  <2>1. /\ sending.stage = "kept" /\ noted' = onPage /\ saying' = "saved"
        /\ overtaken' = (sending.doc # onPage) /\ sending' = NotSending
        /\ UNCHANGED <<onPage, kept>>
    BY <1>6 DEF SaveAnswered, SaveEnds
  <2>2. kept = sending.doc
    BY <2>1 DEF SavingInv
  <2>3. /\ NotSending \in [doc : Releases \cup {NoRelease}, stage : {"none", "sent", "kept"}]
        /\ NotSending.stage = "none"
    BY DEF NotSending
  <2>4. noted' <= onPage' /\ overtaken' \in BOOLEAN
    BY <1>1, <2>1 DEF SavingInv
  <2>5. CASE sending.doc = onPage
    BY <2>1, <2>2, <2>3, <2>4, <2>5 DEF SavingInv, NotSending
  <2>6. CASE sending.doc # onPage
    <3>1. overtaken'
      BY <2>1, <2>6
    <3>2. QED
      BY <2>1, <2>3, <2>4, <3>1 DEF SavingInv, NotSending
  <2>7. QED
    BY <2>5, <2>6
<1>7. CASE SaveRefused
  <2>1. /\ sending # NotSending /\ saying' = "error" /\ sending' = NotSending
        /\ UNCHANGED <<onPage, kept, noted, overtaken>>
    BY <1>7 DEF SaveRefused, SaveEnds
  <2>2. noted < onPage
    BY <2>1 DEF SavingInv
  <2>3. /\ NotSending \in [doc : Releases \cup {NoRelease}, stage : {"none", "sent", "kept"}]
        /\ NotSending.stage = "none"
    BY DEF NotSending
  <2>4. noted # onPage
    BY <1>1, <2>2 DEF SavingInv
  <2>5. QED
    BY <2>1, <2>2, <2>3, <2>4 DEF SavingInv, NotSending
<1>8. CASE PublishNow
  BY <1>8, SendKeepsSaving DEF PublishNow
<1>9. ASSUME NEW b \in Builds, StartExport(b)
      PROVE  SavingInv'
  <2>1. UNCHANGED <<onPage, noted, kept, overtaken>>
    BY <1>9 DEF StartExport
  <2>2. UNCHANGED <<saying, sending>> \/ (sending = NotSending /\ SendSave)
    BY <1>9 DEF StartExport
  <2>3. CASE UNCHANGED <<saying, sending>>
    BY <2>1, <2>3, <1>2 DEF saving
  <2>4. QED
    BY <2>1, <2>2, <2>3, SendKeepsSaving
<1>10. ASSUME NEW b \in Builds,
              \/ Validate(b) \/ AssetsReady(b) \/ ServeArtifact(b)
              \/ CompileAnswered(b) \/ CompileFails(b) \/ Packaged(b)
       PROVE  UNCHANGED saving
  BY <1>10 DEF Validate, AssetsReady, ServeArtifact, CompileAnswered, CompileFails, Packaged
<1>11. ASSUME UnpublishNow \/ ReleaseServed \/ ReleaseAnswered \/ ReleaseFails \/ ClosePipeline
       PROVE  UNCHANGED saving
  BY <1>11 DEF UnpublishNow, ReleaseServed, ReleaseAnswered, ReleaseFails, ClosePipeline
<1>12. QED
  BY <1>2, <1>3, <1>4, <1>5, <1>6, <1>7, <1>8, <1>9, <1>10, <1>11 DEF ReleaseNext, Build, releaseVars

\* What the publish menu calls live is, after every answer and failure.
LEMMA PublishingStep ==
  ASSUME SavingInv, PublishingInv, [ReleaseNext]_releaseVars
  PROVE  PublishingInv'
<1>1. NoRelease \notin Releases
  BY ReleaseAssumption
<1>2. ASSUME UNCHANGED <<published, uncertain>>,
             NEW next, publishing.stage \notin {"made", "withdrawn"}, next \notin {"made", "withdrawn"},
             publishing' = [publishing EXCEPT !.stage = next, !.clicks = @ + 1]
      PROVE  PublishingInv'
  <2>1. publishing'.stage = next /\ publishing'.shown = publishing.shown
        /\ {"stage", "shown", "clicks"} \subseteq DOMAIN publishing'
    BY <1>2 DEF PublishingInv
  <2>2. QED
    BY <1>2, <2>1 DEF PublishingInv
<1>3. CASE UNCHANGED <<published, publishing, uncertain>>
  BY <1>3 DEF PublishingInv
<1>4. CASE SaveAnswered \/ SaveRefused
  <2>1. /\ UNCHANGED <<published, uncertain>>
        /\ publishing' = [publishing EXCEPT !.stage = IF @ = "saving" THEN "asked" ELSE @]
    BY <1>4 DEF SaveAnswered, SaveRefused, SaveEnds
  <2>2. /\ publishing'.stage = IF publishing.stage = "saving" THEN "asked" ELSE publishing.stage
        /\ publishing'.shown = publishing.shown
        /\ {"stage", "shown", "clicks"} \subseteq DOMAIN publishing'
    BY <2>1 DEF PublishingInv
  <2>3. QED
    BY <2>1, <2>2 DEF PublishingInv
<1>5. CASE PublishNow
  <2>1. PICK next \in {"asked", "saving"} : PublishClick(next)
    BY <1>5 DEF PublishNow
  <2>2. UNCHANGED <<published, uncertain>>
    BY <1>5 DEF PublishNow
  <2>3. /\ publishing.stage = "idle"
        /\ publishing' = [publishing EXCEPT !.stage = next, !.clicks = @ + 1]
    BY <2>1 DEF PublishClick
  <2>4. QED
    BY <1>2, <2>2, <2>3
<1>6. CASE UnpublishNow
  <2>1. PICK next \in {"withdrawing"} : PublishClick(next)
    BY <1>6 DEF UnpublishNow
  <2>2. UNCHANGED <<published, uncertain>>
    BY <1>6 DEF UnpublishNow
  <2>3. /\ publishing.stage = "idle"
        /\ publishing' = [publishing EXCEPT !.stage = next, !.clicks = @ + 1]
    BY <2>1 DEF PublishClick
  <2>4. QED
    BY <1>2, <2>2, <2>3
<1>7. CASE ReleaseServed
  <2>1. /\ \/ publishing.stage = "asked" /\ published' = kept
           \/ publishing.stage = "withdrawing" /\ published' = NoRelease
        /\ publishing' = [publishing EXCEPT !.stage = IF @ = "asked" THEN "made" ELSE "withdrawn"]
    BY <1>7 DEF ReleaseServed
  <2>2. /\ publishing'.stage = IF publishing.stage = "asked" THEN "made" ELSE "withdrawn"
        /\ {"stage", "shown", "clicks"} \subseteq DOMAIN publishing'
    BY <2>1 DEF PublishingInv
  <2>3. QED
    BY <1>1, <2>1, <2>2 DEF PublishingInv, SavingInv
<1>8. CASE ReleaseAnswered
  <2>1. /\ publishing.stage \in {"made", "withdrawn"} /\ UNCHANGED published
        /\ publishing' = [publishing EXCEPT !.stage = "idle", !.shown = publishing.stage = "made"]
    BY <1>8 DEF ReleaseAnswered
  <2>2. /\ publishing'.stage = "idle" /\ publishing'.shown = (publishing.stage = "made")
        /\ {"stage", "shown", "clicks"} \subseteq DOMAIN publishing'
    BY <2>1 DEF PublishingInv
  <2>3. QED
    BY <2>1, <2>2 DEF PublishingInv
<1>9. CASE ReleaseFails
  <2>1. /\ publishing' = [publishing EXCEPT !.stage = "idle"] /\ UNCHANGED published
        /\ uncertain' = (uncertain \/ publishing.stage \in {"made", "withdrawn"})
    BY <1>9 DEF ReleaseFails
  <2>2. /\ publishing'.stage = "idle" /\ publishing'.shown = publishing.shown
        /\ {"stage", "shown", "clicks"} \subseteq DOMAIN publishing'
    BY <2>1 DEF PublishingInv
  <2>3. QED
    BY <2>1, <2>2 DEF PublishingInv
<1>10. ASSUME EditOnPage \/ AutosaveHere \/ KeepSave \/ ClosePipeline \/ \E b \in Builds : Build(b)
       PROVE  UNCHANGED <<published, publishing, uncertain>>
  BY <1>10 DEF EditOnPage, AutosaveHere, KeepSave, ClosePipeline, Build, StartExport, Validate,
       AssetsReady, ServeArtifact, CompileAnswered, CompileFails, Packaged
<1>11. QED
  BY <1>3, <1>4, <1>5, <1>6, <1>7, <1>8, <1>9, <1>10 DEF ReleaseNext, releaseVars

\* A build in another phase, and one with an answer.
AtPhase(r, at) == [r EXCEPT !.at = at]
AnsweredBy(r, model) == [r EXCEPT !.answer = model]

\* What such a change leaves alone.
LEMMA BuildChanges ==
  ASSUME NEW r \in BuildRecords
  PROVE  /\ Touched(r) \in BuildRecords /\ ~Touched(r).alone
         /\ Touched(r).target = r.target /\ Touched(r).model = r.model
         /\ Touched(r).at = r.at /\ Touched(r).answer = r.answer
         /\ \A at \in BuildPhases :
              /\ AtPhase(r, at) \in BuildRecords
              /\ AtPhase(r, at).target = r.target /\ AtPhase(r, at).model = r.model
              /\ AtPhase(r, at).at = at /\ AtPhase(r, at).answer = r.answer
              /\ AtPhase(r, at).alone = r.alone
         /\ \A m \in Releases \cup {NoRelease} \cup Foreign :
              /\ AnsweredBy(r, m) \in BuildRecords
              /\ AnsweredBy(r, m).target = r.target /\ AnsweredBy(r, m).model = r.model
              /\ AnsweredBy(r, m).at = r.at /\ AnsweredBy(r, m).answer = m
              /\ AnsweredBy(r, m).alone = r.alone
<1>1. /\ Touched(r) \in BuildRecords /\ ~Touched(r).alone
      /\ Touched(r).target = r.target /\ Touched(r).model = r.model
      /\ Touched(r).at = r.at /\ Touched(r).answer = r.answer
  BY DEF Touched, BuildRecords
<1>2. ASSUME NEW at \in BuildPhases
      PROVE  /\ AtPhase(r, at) \in BuildRecords
             /\ AtPhase(r, at).target = r.target /\ AtPhase(r, at).model = r.model
             /\ AtPhase(r, at).at = at /\ AtPhase(r, at).answer = r.answer
             /\ AtPhase(r, at).alone = r.alone
  BY DEF AtPhase, BuildRecords
<1>3. ASSUME NEW m \in Releases \cup {NoRelease} \cup Foreign
      PROVE  /\ AnsweredBy(r, m) \in BuildRecords
             /\ AnsweredBy(r, m).target = r.target /\ AnsweredBy(r, m).model = r.model
             /\ AnsweredBy(r, m).at = r.at /\ AnsweredBy(r, m).answer = m
             /\ AnsweredBy(r, m).alone = r.alone
  BY DEF AnsweredBy, BuildRecords
<1>4. QED
  BY <1>1, <1>2, <1>3

ExportInv == BuildsInv /\ OfferInv

\* A step that moves one build along, offering it when it ends well: the
\* others keep what they hold, for a build that was not alone changes nothing
\* an undisturbed one holds.
LEMMA OneBuildMoves ==
  ASSUME ExportInv, NEW b \in Builds, Under(b),
         NEW r, builds' = [builds EXCEPT ![b] = r], BuildIsSound(r),
         r.target = builds[b].target, r.model = builds[b].model, r.alone = builds[b].alone,
         UNCHANGED saving,
         {"target", "stages", "failed", "offer"} \subseteq DOMAIN pipeline',
         pipeline'.target = pipeline.target, pipeline'.failed \in BOOLEAN,
         r.at \notin {"unasked", "ended"} /\ r.alone =>
           /\ UNCHANGED <<pipeline.offer, pipeline.failed>>
           /\ r.at = "saving" =>
                onPage = r.model /\ sending.doc = r.model /\ sending # NotSending
           /\ r.at \in {"saved", "assets", "compiling"} /\ r.answer = NoRelease => Stored(r.model)
           /\ r.answer \in {NoRelease, r.model} \cup Foreign,
         \/ pipeline'.offer = pipeline.offer
         \/ /\ pipeline'.offer = b /\ r.at = "ended" /\ Verified(r)
            /\ r.model \notin BrokenReleases
            /\ r.alone => (r.answer \in Releases => r.answer = r.model) /\ ~pipeline'.failed
  PROVE  ExportInv'
<1>1. /\ builds' \in [Builds -> BuildRecords]
      /\ builds'[b] = r /\ \A c \in Builds \ {b} : builds'[c] = builds[c]
  BY DEF ExportInv, BuildsInv, BuildIsSound
<1>2. \A c \in Builds : Under(c)' => Under(c)
  BY <1>1 DEF Under
<1>3. \A c \in Builds : BuildIsSound(builds'[c])
  BY <1>1 DEF ExportInv, BuildsInv
<1>4. ASSUME Under(b)', r.alone
      PROVE  Undisturbed(b)'
  <2>1. Undisturbed(b)
    BY <1>4 DEF ExportInv, BuildsInv
  <2>2. r.at \notin {"unasked", "ended"}
    BY <1>1, <1>4 DEF Under
  <2>3. \A c \in Builds \ {b} : ~Under(c)'
    BY <1>2, <2>1 DEF Undisturbed
  <2>4. /\ pipeline'.offer = NoRelease /\ ~pipeline'.failed
        /\ pipeline'.target \in {r.target, NoRelease}
    BY <1>4, <2>1, <2>2 DEF Undisturbed
  <2>5. Stored(r.model) => Stored(r.model)'
    BY DEF Stored, saving, NotSending
  <2>6. UNCHANGED <<onPage, sending>> /\ NotSending' = NotSending
    BY DEF saving, NotSending
  <2>7. /\ r.at = "saving" => onPage = r.model /\ sending.doc = r.model /\ sending # NotSending
        /\ r.at \in {"saved", "assets", "compiling"} /\ r.answer = NoRelease => Stored(r.model)
        /\ r.answer \in {NoRelease, r.model} \cup Foreign
    BY <1>4, <2>2
  <2>8. QED
    BY <1>1, <2>3, <2>4, <2>5, <2>6, <2>7 DEF Undisturbed
<1>5. ASSUME NEW c \in Builds \ {b}, Under(c)', builds'[c].alone
      PROVE  FALSE
  BY <1>1, <1>2, <1>5 DEF ExportInv, BuildsInv, Undisturbed
<1>6. BuildsInv'
  BY <1>1, <1>3, <1>4, <1>5 DEF BuildsInv
<1>7. ASSUME pipeline'.offer = pipeline.offer
      PROVE  OfferInv'
  <2>1. ASSUME pipeline.offer = NoRelease
        PROVE  OfferInv'
    <3>1. pipeline'.offer = NoRelease
      BY <1>7, <2>1
    <3>2. QED
      BY <3>1 DEF OfferInv
  <2>2. ASSUME NEW o, o = pipeline.offer, o # NoRelease
        PROVE  OfferInv'
    <3>1. o \in Builds /\ builds[o].at = "ended" /\ Verified(builds[o])
      BY <2>2 DEF ExportInv, OfferInv, Offered, IsArtifact, IsTakenForOne, Verified
    <3>2. ~builds[o].alone
      BY <2>2 DEF ExportInv, OfferInv, Offered
    <3>3. builds'[o] = builds[o]
      BY <1>1, <3>1 DEF Under
    <3>4. Offered' = builds[o] /\ pipeline'.offer = o
      BY <1>7, <2>2, <3>3 DEF Offered
    <3>5. QED
      BY <3>1, <3>2, <3>4 DEF OfferInv, IsArtifact, IsTakenForOne, Verified, BeginsAs
  <2>3. QED
    BY <2>1, <2>2
<1>8. ASSUME pipeline'.offer = b, r.at = "ended", Verified(r),
             r.model \notin BrokenReleases,
             r.alone => (r.answer \in Releases => r.answer = r.model) /\ ~pipeline'.failed
      PROVE  OfferInv'
  <2>1. Offered' = r
    BY <1>1, <1>8 DEF Offered
  <2>2. ASSUME r.alone
        PROVE  IsWhatWasShown' /\ \A c \in Builds : ~Under(c)'
    <3>1. Undisturbed(b)
      BY <2>2 DEF ExportInv, BuildsInv
    <3>2. \A c \in Builds : ~Under(c)'
      BY <1>1, <1>2, <1>8, <3>1 DEF Undisturbed, Under
    <3>3. pipeline'.target \in {r.target, NoRelease}
      BY <3>1 DEF Undisturbed
    <3>4. QED
      BY <1>8, <2>1, <2>2, <3>2, <3>3 DEF IsWhatWasShown, IsArtifact
  <2>3. (IsArtifact' \/ IsTakenForOne') /\ Offered'.at = "ended" /\ pipeline'.offer \in Builds
    BY <1>8, <2>1 DEF IsArtifact, IsTakenForOne, Verified, BeginsAs
  <2>4. Offered'.alone => IsWhatWasShown' /\ \A c \in Builds : ~Under(c)'
    BY <2>1, <2>2
  <2>5. QED
    BY <2>3, <2>4 DEF OfferInv
<1>9. QED
  BY <1>6, <1>7, <1>8 DEF ExportInv

\* A build moves on by a step of its own, or fails.
LEMMA MoveKeepsExports ==
  ASSUME ExportInv, NEW b \in Builds, Under(b), NEW at \in BuildPhases,
         builds' = [builds EXCEPT ![b] = AtPhase(builds[b], at)],
         BuildIsSound(AtPhase(builds[b], at)), UNCHANGED saving,
         at \notin {"unasked", "saving", "saved"},
         at = "assets" => builds[b].at = "saved",
         at = "compiling" => builds[b].at \in {"saved", "assets"},
         {"target", "stages", "failed", "offer"} \subseteq DOMAIN pipeline',
         pipeline'.target = pipeline.target, pipeline'.failed \in BOOLEAN,
         pipeline'.offer = pipeline.offer,
         at # "ended" => pipeline'.failed = pipeline.failed
  PROVE  ExportInv'
<1>1. PICK r : r = AtPhase(builds[b], at)
  OBVIOUS
<1>2. /\ r.target = builds[b].target /\ r.model = builds[b].model /\ r.alone = builds[b].alone
      /\ r.at = at /\ r.answer = builds[b].answer
  <2>1. builds[b] \in BuildRecords
    BY DEF ExportInv, BuildsInv
  <2>2. QED
    BY <1>1, <2>1, BuildChanges
<1>3. ASSUME r.at \notin {"unasked", "ended"}, r.alone
      PROVE  /\ r.at \in {"saved", "assets", "compiling"} /\ r.answer = NoRelease => Stored(r.model)
             /\ r.answer \in {NoRelease, r.model} \cup Foreign
  BY <1>2, <1>3 DEF ExportInv, BuildsInv, Undisturbed
<1>4. builds' = [builds EXCEPT ![b] = r] /\ BuildIsSound(r)
  BY <1>1
<1>5. r.at # "saving" /\ (r.at # "ended" => UNCHANGED <<pipeline.offer, pipeline.failed>>)
  BY <1>2
<1>6. QED
  BY <1>2, <1>3, <1>4, <1>5, OneBuildMoves

\* The pipeline after a stage ended.
LEMMA StageChanges ==
  ASSUME ExportInv, NEW stages
  PROVE  /\ LET p == [pipeline EXCEPT !.stages = stages] IN
              /\ {"target", "stages", "failed", "offer"} \subseteq DOMAIN p
              /\ p.target = pipeline.target /\ p.failed = pipeline.failed /\ p.offer = pipeline.offer
         /\ LET p == [pipeline EXCEPT !.stages = stages, !.failed = TRUE] IN
              /\ {"target", "stages", "failed", "offer"} \subseteq DOMAIN p
              /\ p.target = pipeline.target /\ p.failed = TRUE /\ p.offer = pipeline.offer
         /\ \A b : LET p == [pipeline EXCEPT !.stages = stages, !.offer = b] IN
              /\ {"target", "stages", "failed", "offer"} \subseteq DOMAIN p
              /\ p.target = pipeline.target /\ p.failed = pipeline.failed /\ p.offer = b
BY DEF ExportInv, BuildsInv

\* Each step of a build begun.
LEMMA BuildStep ==
  ASSUME ExportInv, SavingInv, NEW b \in Builds,
         \/ Validate(b) \/ AssetsReady(b) \/ ServeArtifact(b)
         \/ CompileAnswered(b) \/ CompileFails(b) \/ Packaged(b)
  PROVE  ExportInv'
<1> DEFINE r == builds[b]
<1>1. r \in BuildRecords /\ BuildIsSound(r)
  BY DEF ExportInv, BuildsInv
<1>2. ASSUME NEW at \in BuildPhases
      PROVE  /\ AtPhase(r, at) \in BuildRecords
             /\ AtPhase(r, at).model = r.model /\ AtPhase(r, at).at = at
             /\ AtPhase(r, at).answer = r.answer
  BY <1>1, BuildChanges
<1>3. ASSUME NEW at, Step(b, at)
      PROVE  builds' = [builds EXCEPT ![b] = AtPhase(r, at)]
  BY <1>3 DEF Step, AtPhase
<1>4. ASSUME Under(b), Step(b, "ended"), UNCHANGED saving, NEW s, FailedAt(s)
      PROVE  ExportInv'
  <2>1. BuildIsSound(AtPhase(r, "ended"))
    BY <1>1, <1>2 DEF BuildIsSound, BuildPhases
  <2>2. /\ {"target", "stages", "failed", "offer"} \subseteq DOMAIN pipeline'
        /\ pipeline'.target = pipeline.target /\ pipeline'.failed = TRUE
        /\ pipeline'.offer = pipeline.offer
    BY <1>4, StageChanges DEF FailedAt
  <2>3. builds' = [builds EXCEPT ![b] = AtPhase(r, "ended")]
    BY <1>3, <1>4
  <2>4. PICK at \in BuildPhases : at = "ended"
    BY DEF BuildPhases
  <2>5. QED
    BY <1>4, <2>1, <2>2, <2>3, <2>4, MoveKeepsExports
<1>5. ASSUME NEW at \in {"assets", "compiling", "receiving"}, Step(b, at), UNCHANGED saving,
             NEW stages, AtStages(stages),
             at = "assets" => r.at = "saved" /\ r.model \notin BrokenReleases,
             at = "compiling" => r.at = "assets",
             at = "receiving" => r.at = "compiling" /\ r.answer # NoRelease
      PROVE  ExportInv'
  <2>1. at \in BuildPhases /\ Under(b)
    BY <1>1, <1>5 DEF Under, BuildPhases
  <2>2. BuildIsSound(AtPhase(r, at))
    BY <1>1, <1>2, <1>5, <2>1 DEF BuildIsSound
  <2>3. /\ {"target", "stages", "failed", "offer"} \subseteq DOMAIN pipeline'
        /\ pipeline'.target = pipeline.target /\ pipeline'.failed = pipeline.failed
        /\ pipeline'.offer = pipeline.offer
    BY <1>5, StageChanges DEF AtStages
  <2>4. builds' = [builds EXCEPT ![b] = AtPhase(r, at)]
    BY <1>3, <1>5
  <2>5. pipeline.failed \in BOOLEAN
    BY DEF ExportInv, BuildsInv
  <2>6. QED
    BY <1>5, <2>1, <2>2, <2>3, <2>4, <2>5, MoveKeepsExports
<1>6. CASE Validate(b)
  <2>1. r.at = "saved" /\ Under(b) /\ UNCHANGED saving
    BY <1>6 DEF Validate, Under
  <2>2. CASE Valid(r.model)
    BY <1>5, <1>6, <2>1, <2>2 DEF Validate, Valid
  <2>3. CASE ~Valid(r.model)
    BY <1>4, <1>6, <2>1, <2>3 DEF Validate
  <2>4. QED
    BY <2>2, <2>3
<1>7. CASE AssetsReady(b)
  BY <1>5, <1>7 DEF AssetsReady
<1>8. CASE CompileAnswered(b)
  BY <1>5, <1>8 DEF CompileAnswered
<1>9. CASE CompileFails(b)
  BY <1>4, <1>9 DEF CompileFails, Under
<1>10. CASE Packaged(b)
  <2>1. r.at = "receiving" /\ Under(b) /\ UNCHANGED saving /\ Step(b, "ended")
    BY <1>10 DEF Packaged, Under
  <2>2. CASE ~Verified(r)
    BY <1>4, <1>10, <2>1, <2>2 DEF Packaged
  <2>3. CASE Verified(r)
    <3>1. PICK e : e = AtPhase(r, "ended")
      OBVIOUS
    <3>2. /\ BuildIsSound(e) /\ e.at = "ended" /\ e.answer = r.answer
          /\ e.target = r.target /\ e.model = r.model /\ e.alone = r.alone
      BY <1>1, <3>1, BuildChanges DEF BuildIsSound, BuildPhases
    <3>3. builds' = [builds EXCEPT ![b] = e]
      BY <1>3, <2>1, <3>1
    <3>4. pipeline' = [pipeline EXCEPT !.stages = Stage("package", "done"), !.offer = b]
      BY <1>10, <2>3 DEF Packaged
    <3>5. /\ {"target", "stages", "failed", "offer"} \subseteq DOMAIN pipeline'
          /\ pipeline'.target = pipeline.target /\ pipeline'.failed = pipeline.failed
          /\ pipeline'.offer = b
      BY <3>4, StageChanges
    <3>6. Verified(e) /\ r.model \notin BrokenReleases
      BY <1>1, <2>1, <2>3, <3>2 DEF BuildIsSound, Verified
    <3>7. r.alone => (r.answer \in Releases => r.answer = r.model) /\ ~pipeline.failed
      <4>1. r.alone => r.answer \in {NoRelease, r.model} \cup Foreign /\ ~pipeline.failed
        BY <2>1 DEF ExportInv, BuildsInv, Undisturbed
      <4>2. QED
        BY <4>1, ReleaseAssumption
    <3>8. pipeline.failed \in BOOLEAN
      BY DEF ExportInv, BuildsInv
    <3>9. QED
      BY <2>1, <3>2, <3>3, <3>5, <3>6, <3>7, <3>8, OneBuildMoves
  <2>4. QED
    BY <2>2, <2>3
<1>11. CASE ServeArtifact(b)
  <2>1. /\ r.at = "compiling" /\ r.answer = NoRelease /\ Under(b) /\ UNCHANGED <<saving, pipeline>>
    BY <1>11 DEF ServeArtifact, Under
  <2>2. PICK m \in {kept} \cup Foreign : builds' = [builds EXCEPT ![b] = AnsweredBy(r, m)]
    BY <1>11 DEF ServeArtifact, AnsweredBy
  <2>3. m \in Releases \cup {NoRelease} \cup Foreign
    BY DEF SavingInv
  <2>4. PICK e : e = AnsweredBy(r, m)
    OBVIOUS
  <2>5. /\ e \in BuildRecords /\ e.at = "compiling" /\ e.answer = m
        /\ e.target = r.target /\ e.model = r.model /\ e.alone = r.alone
    BY <1>1, <2>1, <2>3, <2>4, BuildChanges
  <2>6. BuildIsSound(e)
    BY <1>1, <2>1, <2>5 DEF BuildIsSound
  <2>7. r.alone => Stored(r.model)
    BY <2>1 DEF ExportInv, BuildsInv, Undisturbed
  <2>8. e.alone => (e.answer = NoRelease => Stored(e.model)) /\ e.answer \in {NoRelease, e.model} \cup Foreign
    BY <2>2, <2>5, <2>7 DEF Stored
  <2>9. /\ {"target", "stages", "failed", "offer"} \subseteq DOMAIN pipeline'
        /\ pipeline'.failed \in BOOLEAN
    BY <2>1 DEF ExportInv, BuildsInv
  <2>10. builds' = [builds EXCEPT ![b] = e]
    BY <2>2, <2>4
  <2>11. QED
    BY <2>1, <2>5, <2>6, <2>8, <2>9, <2>10, OneBuildMoves
<1>12. QED
  BY <1>6, <1>7, <1>8, <1>9, <1>10, <1>11

\* Steps that leave builds and pipeline alone: no save begins or ends while one
\* is awaited, and what is stored stays.
LEMMA AsideKeepsExports ==
  ASSUME ExportInv, UNCHANGED <<builds, pipeline, onPage>>,
         sending # NotSending => sending' # NotSending /\ sending'.doc = sending.doc,
         \A m : Stored(m) => Stored(m)'
  PROVE  ExportInv'
<1>1. BuildsInv'
  <2>1. ASSUME NEW b \in Builds, Under(b)', builds'[b].alone
        PROVE  Undisturbed(b)'
    <3>1. Undisturbed(b)
      BY <2>1 DEF ExportInv, BuildsInv, Under
    <3>2. QED
      BY <3>1 DEF Undisturbed, Under, NotSending
  <2>2. QED
    BY <2>1 DEF ExportInv, BuildsInv
<1>2. OfferInv'
  BY DEF ExportInv, OfferInv, Offered, IsArtifact, IsTakenForOne, BeginsAs, IsWhatWasShown, Under
<1>3. QED
  BY <1>1, <1>2 DEF ExportInv

\* An edit disturbs every build that has no answer on its way to the page.
LEMMA EditKeepsExports ==
  ASSUME ExportInv, EditOnPage
  PROVE  ExportInv'
<1>1. /\ \A b \in Builds : builds'[b] = IF builds[b].at \in {"saving", "saved", "assets", "compiling"}
                                         THEN Touched(builds[b]) ELSE builds[b]
      /\ UNCHANGED pipeline
  BY DEF EditOnPage, Disturbed
<1>2. ASSUME NEW b \in Builds
      PROVE  /\ builds'[b] \in BuildRecords
             /\ builds'[b].at = builds[b].at /\ builds'[b].answer = builds[b].answer
             /\ builds'[b].model = builds[b].model /\ builds'[b].target = builds[b].target
             /\ builds'[b].alone => /\ builds[b].alone
                                    /\ builds[b].at \notin {"saving", "saved", "assets", "compiling"}
  <2>1. builds[b] \in BuildRecords
    BY DEF ExportInv, BuildsInv
  <2>2. QED
    BY <1>1, <2>1, BuildChanges
<1>3. builds' \in [Builds -> BuildRecords]
  BY <1>2 DEF EditOnPage, Disturbed
<1>4. \A b \in Builds : BuildIsSound(builds'[b])
  BY <1>2 DEF ExportInv, BuildsInv, BuildIsSound
<1>5. \A b \in Builds : Under(b)' = Under(b)
  BY <1>2 DEF Under
<1>6. ASSUME NEW b \in Builds, Under(b)', builds'[b].alone
      PROVE  Undisturbed(b)'
  <2>1. Undisturbed(b)
    BY <1>2, <1>5, <1>6 DEF ExportInv, BuildsInv
  <2>2. QED
    BY <1>1, <1>2, <1>5, <1>6, <2>1 DEF Undisturbed
<1>7. BuildsInv'
  BY <1>1, <1>3, <1>4, <1>6 DEF ExportInv, BuildsInv
<1>8. ASSUME pipeline.offer # NoRelease
      PROVE  Offered' = Offered
  BY <1>1, <1>8 DEF ExportInv, OfferInv, Offered
<1>9. OfferInv'
  BY <1>1, <1>5, <1>8 DEF ExportInv, OfferInv, IsArtifact, IsTakenForOne, BeginsAs, IsWhatWasShown
<1>10. QED
  BY <1>7, <1>9 DEF ExportInv

\* A build whose save was answered, well or not.
SavedAs(r, well) == [r EXCEPT !.at = "saved", !.alone = @ /\ well]

\* The answer to a save lets the build that waited go on: the document of its
\* click is stored, unless the save was refused.
LEMMA SaveEndsKeepsExports ==
  ASSUME ExportInv, SavingInv, SaveAnswered \/ SaveRefused
  PROVE  ExportInv'
<1>1. /\ sending # NotSending /\ sending' = NotSending
      /\ UNCHANGED <<onPage, kept, pipeline>>
  <2>1. SaveEnds /\ UNCHANGED <<onPage, kept, pipeline>>
    BY DEF SaveAnswered, SaveRefused
  <2>2. sending.stage = "kept" \/ sending # NotSending
    BY DEF SaveAnswered, SaveRefused
  <2>3. NotSending.stage # "kept"
    BY DEF NotSending
  <2>4. sending' = NotSending
    BY <2>1 DEF SaveEnds
  <2>5. QED
    BY <2>1, <2>2, <2>3, <2>4
<1>2. PICK well \in BOOLEAN : well = (saying' = "saved")
  OBVIOUS
<1>3. well => noted' = onPage /\ kept = sending.doc
  BY <1>2 DEF SaveAnswered, SaveRefused, SavingInv
<1>4. /\ builds' = [b \in Builds |-> IF builds[b].at = "saving" THEN SavedAs(builds[b], well) ELSE builds[b]]
  BY <1>2 DEF SaveAnswered, SaveRefused, SaveEnds, SavedAs
<1>5. ASSUME NEW b \in Builds, builds[b].at = "saving"
      PROVE  /\ builds'[b] \in BuildRecords
             /\ builds'[b].at = "saved" /\ builds'[b].answer = builds[b].answer
             /\ builds'[b].model = builds[b].model /\ builds'[b].target = builds[b].target
             /\ builds'[b].alone => builds[b].alone /\ well
  <2>1. builds[b] \in BuildRecords /\ builds'[b] = SavedAs(builds[b], well)
    BY <1>4, <1>5 DEF ExportInv, BuildsInv
  <2>2. ASSUME NEW r \in BuildRecords
        PROVE  /\ SavedAs(r, well) \in BuildRecords
               /\ SavedAs(r, well).at = "saved" /\ SavedAs(r, well).answer = r.answer
               /\ SavedAs(r, well).model = r.model /\ SavedAs(r, well).target = r.target
               /\ SavedAs(r, well).alone = (r.alone /\ well)
    BY DEF SavedAs, BuildRecords, BuildPhases
  <2>3. QED
    BY <2>1, <2>2
<1>6. ASSUME NEW b \in Builds, builds[b].at # "saving"
      PROVE  builds'[b] = builds[b]
  BY <1>4, <1>6
<1>7. builds' \in [Builds -> BuildRecords]
  <2>1. \A b \in Builds : builds'[b] \in BuildRecords
    BY <1>5, <1>6 DEF ExportInv, BuildsInv
  <2>2. QED
    BY <1>4, <2>1
<1>8. \A b \in Builds : BuildIsSound(builds'[b])
  <2>1. ASSUME NEW b \in Builds
        PROVE  BuildIsSound(builds'[b])
    <3>1. BuildIsSound(builds[b])
      BY DEF ExportInv, BuildsInv
    <3>2. QED
      BY <1>5, <1>6, <3>1 DEF BuildIsSound
  <2>2. QED
    BY <2>1
<1>9. \A b \in Builds : Under(b)' = Under(b)
  BY <1>5, <1>6 DEF Under
<1>10. ASSUME NEW b \in Builds, Under(b)', builds'[b].alone
       PROVE  Undisturbed(b)'
  <2>1. Undisturbed(b)
    BY <1>5, <1>6, <1>9, <1>10 DEF ExportInv, BuildsInv
  <2>2. \A c \in Builds \ {b} : ~Under(c)'
    BY <1>9, <2>1 DEF Undisturbed
  <2>3. CASE builds[b].at = "saving"
    <3>1. onPage = builds[b].model /\ sending.doc = builds[b].model /\ well
      BY <1>5, <1>10, <2>1, <2>3 DEF Undisturbed
    <3>2. Stored(builds[b].model)'
      BY <1>1, <1>3, <1>5, <2>3, <3>1 DEF Stored, NotSending
    <3>3. QED
      BY <1>1, <1>5, <2>1, <2>2, <2>3, <3>2 DEF Undisturbed
  <2>4. CASE builds[b].at # "saving"
    <3>1. builds'[b] = builds[b]
      BY <1>6, <2>4
    <3>2. ~(builds[b].at \in {"saved", "assets", "compiling"} /\ builds[b].answer = NoRelease)
      BY <1>1, <2>1 DEF Undisturbed, Stored
    <3>3. QED
      BY <1>1, <2>1, <2>2, <2>4, <3>1, <3>2 DEF Undisturbed
  <2>5. QED
    BY <2>3, <2>4
<1>11. BuildsInv'
  BY <1>1, <1>7, <1>8, <1>10 DEF ExportInv, BuildsInv
<1>12. ASSUME pipeline.offer # NoRelease
       PROVE  Offered' = Offered
  BY <1>1, <1>6, <1>12 DEF ExportInv, OfferInv, Offered
<1>13. OfferInv'
  BY <1>1, <1>9, <1>12 DEF ExportInv, OfferInv, IsArtifact, IsTakenForOne, BeginsAs, IsWhatWasShown
<1>14. QED
  BY <1>11, <1>13 DEF ExportInv

\* A build that begins disturbs those under way, and is disturbed by them; the
\* pipeline is its own.
LEMMA StartKeepsExports ==
  ASSUME ExportInv, SavingInv, NEW b \in Builds, StartExport(b)
  PROVE  ExportInv'
<1>1. PICK t \in ExportTargets, at \in {"saved", "saving"}, alone \in BOOLEAN :
        /\ pipeline' = Begin(t)
        /\ alone = ((\A c \in Builds : ~Under(c)) /\ sending = NotSending /\ ~overtaken)
        /\ builds' = [[c \in Builds |-> IF Under(c) THEN Touched(builds[c]) ELSE builds[c]]
                        EXCEPT ![b] = [target |-> t, model |-> onPage, at |-> at,
                                       answer |-> NoRelease, alone |-> alone]]
        /\ \/ saying \notin {"dirty", "error"} /\ at = "saved" /\ UNCHANGED <<saying, sending>>
           \/ sending = NotSending /\ SendSave /\ at = IF onPage = noted THEN "saved" ELSE "saving"
        /\ UNCHANGED <<onPage, noted, kept>>
  BY DEF StartExport
<1>2. PICK e : e = [target |-> t, model |-> onPage, at |-> at, answer |-> NoRelease, alone |-> alone]
  OBVIOUS
<1>3. /\ e \in BuildRecords /\ e.target = t /\ e.model = onPage /\ e.at = at
      /\ e.answer = NoRelease /\ e.alone = alone
  BY <1>2 DEF BuildRecords, BuildPhases, SavingInv
<1>4. /\ builds'[b] = e
      /\ \A c \in Builds \ {b} : builds'[c] = IF Under(c) THEN Touched(builds[c]) ELSE builds[c]
  BY <1>1, <1>2
<1>5. ASSUME NEW c \in Builds \ {b}
      PROVE  /\ builds'[c] \in BuildRecords /\ BuildIsSound(builds'[c])
             /\ Under(c)' = Under(c) /\ ~(Under(c) /\ builds'[c].alone)
  <2>1. builds[c] \in BuildRecords /\ BuildIsSound(builds[c])
    BY DEF ExportInv, BuildsInv
  <2>2. CASE Under(c)
    <3>1. builds'[c] = Touched(builds[c])
      BY <1>4, <2>2
    <3>2. QED
      BY <2>1, <2>2, <3>1, BuildChanges DEF BuildIsSound, Under
  <2>3. CASE ~Under(c)
    BY <1>4, <2>1, <2>3 DEF Under
  <2>4. QED
    BY <2>2, <2>3
<1>6. BuildIsSound(e)
  BY <1>1, <1>3 DEF BuildIsSound
<1>7. builds' \in [Builds -> BuildRecords]
  <2>1. \A c \in Builds : builds'[c] \in BuildRecords
    BY <1>3, <1>4, <1>5
  <2>2. QED
    BY <1>1, <2>1
<1>8. /\ {"target", "stages", "failed", "offer"} \subseteq DOMAIN pipeline'
      /\ pipeline'.target = t /\ pipeline'.failed = FALSE /\ pipeline'.offer = NoRelease
  BY <1>1 DEF Begin
<1>9. ASSUME alone
      PROVE  Undisturbed(b)'
  <2>1. sending = NotSending /\ ~overtaken /\ \A c \in Builds : ~Under(c)
    BY <1>1, <1>9
  <2>2. \A c \in Builds \ {b} : ~Under(c)'
    BY <1>5, <2>1
  <2>3. CASE at = "saved"
    <3>1. noted = onPage /\ sending' = NotSending
      <4>1. CASE saying \notin {"dirty", "error"} /\ UNCHANGED <<saying, sending>>
        BY <2>1, <4>1 DEF SavingInv
      <4>2. CASE onPage = noted /\ SendSave
        BY <2>1, <4>2 DEF SendSave
      <4>3. QED
        BY <1>1, <2>3, <4>1, <4>2
    <3>2. kept = onPage
      BY <2>1, <3>1 DEF SavingInv
    <3>3. Stored(onPage)'
      BY <1>1, <3>1, <3>2 DEF Stored, NotSending
    <3>4. QED
      BY <1>1, <1>3, <1>4, <1>8, <2>2, <2>3, <3>3 DEF Undisturbed
  <2>4. CASE at = "saving"
    <3>1. onPage # noted /\ SendSave
      BY <1>1, <2>4
    <3>2. sending' = [doc |-> onPage, stage |-> "sent"]
      BY <3>1 DEF SendSave
    <3>3. sending' # NotSending /\ sending'.doc = onPage
      BY <3>2 DEF NotSending
    <3>4. QED
      BY <1>1, <1>3, <1>4, <1>8, <2>2, <2>4, <3>3 DEF Undisturbed, NotSending
  <2>5. QED
    BY <1>1, <2>3, <2>4
<1>10. BuildsInv'
  <2>1. ASSUME NEW c \in Builds, Under(c)', builds'[c].alone
        PROVE  Undisturbed(c)'
    BY <1>3, <1>4, <1>5, <1>9, <2>1
  <2>2. \A c \in Builds : BuildIsSound(builds'[c])
    BY <1>4, <1>5, <1>6
  <2>3. QED
    BY <1>7, <1>8, <2>1, <2>2 DEF BuildsInv
<1>11. OfferInv'
  BY <1>8 DEF OfferInv
<1>12. QED
  BY <1>10, <1>11 DEF ExportInv

\* Every step of the menus.
LEMMA ReleaseStep ==
  ASSUME ReleaseInv, [ReleaseNext]_releaseVars
  PROVE  ReleaseInv'
<1>1. SavingInv /\ PublishingInv /\ ExportInv
  BY DEF ReleaseInv, ExportInv
<1>2. SavingInv' /\ PublishingInv'
  BY <1>1, SavingStep, PublishingStep
<1>3. ASSUME UNCHANGED <<builds, pipeline, onPage>>,
             sending # NotSending => sending' # NotSending /\ sending'.doc = sending.doc,
             \A m : Stored(m) => Stored(m)'
      PROVE  ExportInv'
  BY <1>1, <1>3, AsideKeepsExports
<1>4. ASSUME EditOnPage
      PROVE  ExportInv'
  BY <1>1, <1>4, EditKeepsExports
<1>5. ASSUME AutosaveHere \/ PublishNow
      PROVE  ExportInv'
  <2>1. /\ UNCHANGED <<builds, pipeline, onPage, noted, kept>>
        /\ sending = NotSending /\ SendSave
    BY <1>5 DEF AutosaveHere, PublishNow
  <2>2. \A m : Stored(m) => Stored(m)'
    BY <2>1 DEF Stored, SendSave, NotSending
  <2>3. QED
    BY <1>3, <2>1, <2>2
<1>6. ASSUME KeepSave
      PROVE  ExportInv'
  <2>1. /\ UNCHANGED <<builds, pipeline, onPage>> /\ sending.stage = "sent"
        /\ sending' = [sending EXCEPT !.stage = "kept"]
    BY <1>6 DEF KeepSave
  <2>2. sending # NotSending
    BY <2>1 DEF NotSending
  <2>3. sending' # NotSending /\ sending'.doc = sending.doc
    BY <1>1, <2>1 DEF SavingInv, NotSending
  <2>4. QED
    BY <1>3, <2>1, <2>2, <2>3 DEF Stored
<1>7. ASSUME SaveAnswered \/ SaveRefused
      PROVE  ExportInv'
  BY <1>1, <1>7, SaveEndsKeepsExports
<1>8. ASSUME NEW b \in Builds, Build(b)
      PROVE  ExportInv'
  BY <1>1, <1>8, StartKeepsExports, BuildStep DEF Build
<1>9. ASSUME UnpublishNow \/ ReleaseServed \/ ReleaseAnswered \/ ReleaseFails \/ UNCHANGED releaseVars
      PROVE  ExportInv'
  <2>1. UNCHANGED <<builds, pipeline, saving>>
    BY <1>9 DEF UnpublishNow, ReleaseServed, ReleaseAnswered, ReleaseFails, releaseVars
  <2>2. QED
    BY <1>3, <2>1 DEF saving, Stored, NotSending
<1>10. ASSUME ClosePipeline
      PROVE  ExportInv'
  <2>1. /\ UNCHANGED <<builds, saving>>
        /\ pipeline' = [pipeline EXCEPT !.target = NoRelease, !.failed = FALSE]
    BY <1>10 DEF ClosePipeline
  <2>2. /\ {"target", "stages", "failed", "offer"} \subseteq DOMAIN pipeline'
        /\ pipeline'.target = NoRelease /\ pipeline'.failed = FALSE
        /\ pipeline'.offer = pipeline.offer
    BY <1>1, <2>1 DEF ExportInv, BuildsInv
  <2>3. ASSUME NEW b \in Builds, Undisturbed(b)
        PROVE  Undisturbed(b)'
    BY <2>1, <2>2, <2>3 DEF Undisturbed, Under, Stored, saving, NotSending
  <2>4. BuildsInv'
    BY <1>1, <2>1, <2>2, <2>3 DEF ExportInv, BuildsInv, Under
  <2>5. OfferInv'
    BY <1>1, <2>1, <2>2 DEF ExportInv, OfferInv, Offered, IsArtifact, IsTakenForOne, BeginsAs, IsWhatWasShown, Under
  <2>6. QED
    BY <2>4, <2>5 DEF ExportInv
<1>11. ExportInv'
  BY <1>4, <1>5, <1>6, <1>7, <1>8, <1>9, <1>10 DEF ReleaseNext
<1>12. QED
  BY <1>2, <1>11 DEF ReleaseInv, ExportInv

\* However many documents, builds, publications and failures: a download is an
\* artifact, or begins as one of its target's does; one whose build nothing
\* disturbed is of the valid document its author saw, holds it when it is an
\* artifact, under its target's name and beside no failure; and the publish menu
\* calls live what is (export-button.tsx, publish-button.tsx).
THEOREM DownloadsAreHonest == ReleaseSpec => []ReleasesAreHonest
<1>1. ReleaseInit => ReleaseInv
  <2> SUFFICES ASSUME ReleaseInit PROVE ReleaseInv
    OBVIOUS
  <2>1. SavingInv
    <3>1. NotSending \in [doc : Releases \cup {NoRelease}, stage : {"none", "sent", "kept"}]
          /\ NotSending.stage = "none"
      BY DEF NotSending
    <3>2. 0 \in Releases /\ 0 <= 0
      BY ReleaseAssumption
    <3>3. QED
      BY <3>1, <3>2 DEF ReleaseInit, SavingInv
  <2>2. PublishingInv
    <3>1. /\ publishing.stage = "idle" /\ publishing.shown = (published # NoRelease)
          /\ {"stage", "shown", "clicks"} \subseteq DOMAIN publishing
      BY DEF ReleaseInit
    <3>2. published \in Releases \cup {NoRelease}
      BY ReleaseAssumption DEF ReleaseInit
    <3>3. QED
      BY <3>1, <3>2 DEF PublishingInv
  <2>3. NoBuild \in BuildRecords /\ NoBuild.at = "unasked"
    BY DEF NoBuild, BuildRecords, BuildPhases
  <2>4. \A b \in Builds : builds[b] = NoBuild /\ ~Under(b)
    BY <2>3 DEF ReleaseInit, Under
  <2>5. BuildsInv
    BY <2>3, <2>4 DEF ReleaseInit, BuildsInv, BuildIsSound
  <2>6. OfferInv
    BY DEF ReleaseInit, OfferInv
  <2>7. QED
    BY <2>1, <2>2, <2>5, <2>6 DEF ReleaseInv
<1>2. ReleaseInv /\ [ReleaseNext]_releaseVars => ReleaseInv'
  BY ReleaseStep
<1>3. ReleaseInv => ReleasesAreHonest
  BY DEF ReleaseInv, OfferInv, PublishingInv, ReleasesAreHonest, LiveIsShown
<1>4. QED
  BY <1>1, <1>2, <1>3, PTL DEF ReleaseSpec

-----------------------------------------------------------------------------
(* The frame of the builder (BuilderShell).                                *)

\* A document that can be shown: it has a screen, and its start is one of them.
ScreenIds == ToSet(ShellScreens)
ShellDocs == [screens : Seq(ScreenIds), start : ScreenIds, items : SUBSET DOMAIN ShellItems]
Showable == {d \in ShellDocs : d.screens # <<>> /\ d.start \in ToSet(d.screens)}

\* Whatever can become the document can be shown.
DocumentsInv ==
  /\ line \in [past : Seq(Showable), doc : Showable, future : Seq(Showable)]
  /\ versions \in Seq(Showable)
  /\ restoring # Nobody => restoring \in Showable

\* Not both drawers.
DrawersInv == "palette" \notin opened \/ "inspector" \notin opened

\* Every project made was one whose answer was lost, or the one being made.
CreationInv ==
  /\ creating \in {"no", "asked", "made"}
  /\ creating # "no" => pendingEnv # Nobody
  /\ born \in [projects : Nat, lost : Nat]
  /\ born.projects = born.lost + IF creating = "made" THEN 1 ELSE 0

ShellInv == DocumentsInv /\ DrawersInv /\ CreationInv

\* What a document can be shown by.
LEMMA ShowableFields ==
  ASSUME NEW d
  PROVE  d \in Showable <=>
           /\ d \in ShellDocs
           /\ \E i \in DOMAIN d.screens : d.start = d.screens[i]
<1>1. ASSUME d \in ShellDocs
      PROVE  d.screens # <<>> /\ d.start \in ToSet(d.screens)
             <=> \E i \in DOMAIN d.screens : d.start = d.screens[i]
  <2>1. d.screens \in Seq(ScreenIds)
    BY <1>1 DEF ShellDocs
  <2>2. DOMAIN d.screens = 1..Len(d.screens)
    BY <2>1, LenProperties
  <2>3. d.screens = <<>> => Len(d.screens) = 0
    OBVIOUS
  <2>4. QED
    BY <2>2, <2>3 DEF ToSet
<1>2. QED
  BY <1>1 DEF Showable

\* A document with one screen more, or with other items.
LEMMA GrownIsShowable ==
  ASSUME NEW d \in Showable
  PROVE  /\ \A id \in ScreenIds : [d EXCEPT !.screens = Append(@, id)] \in Showable
         /\ \A i : [d EXCEPT !.items = @ \ {i}] \in Showable
<1>1. d \in ShellDocs /\ d.screens \in Seq(ScreenIds)
  BY DEF Showable, ShellDocs
<1>2. PICK n \in DOMAIN d.screens : d.start = d.screens[n]
  BY ShowableFields
<1>3. ASSUME NEW id \in ScreenIds
      PROVE  [d EXCEPT !.screens = Append(@, id)] \in Showable
  <2>1. PICK screens : screens = Append(d.screens, id)
    OBVIOUS
  <2>2. /\ screens \in Seq(ScreenIds) /\ Len(screens) = Len(d.screens) + 1
        /\ \A i \in 1..Len(d.screens) : screens[i] = d.screens[i]
    BY <1>1, <2>1, AppendProperties
  <2>3. n \in DOMAIN screens /\ d.start = screens[n]
    BY <1>1, <1>2, <2>2, LenProperties
  <2>4. PICK e : e = [d EXCEPT !.screens = screens]
    OBVIOUS
  <2>5. e \in ShellDocs /\ e.screens = screens /\ e.start = d.start
    BY <1>1, <2>2, <2>4 DEF ShellDocs
  <2>6. e \in Showable
    BY <2>3, <2>5, ShowableFields
  <2>7. QED
    BY <2>1, <2>4, <2>6
<1>4. ASSUME NEW i
      PROVE  [d EXCEPT !.items = @ \ {i}] \in Showable
  <2>1. PICK e : e = [d EXCEPT !.items = d.items \ {i}]
    OBVIOUS
  <2>2. e \in ShellDocs /\ e.screens = d.screens /\ e.start = d.start
    BY <1>1, <2>1 DEF ShellDocs
  <2>3. e \in Showable
    BY <1>2, <2>2, ShowableFields
  <2>4. QED
    BY <2>1, <2>3
<1>5. QED
  BY <1>3, <1>4

\* A document of several screens can be shown without one of them: the start
\* screen is still there, or is the first one left.
LEMMA WithoutIsShowable ==
  ASSUME NEW d \in Showable, NEW k \in DOMAIN d.screens, Len(d.screens) > 1
  PROVE  WithoutScreen(d, k) \in Showable
<1>1. d \in ShellDocs /\ d.screens \in Seq(ScreenIds) /\ d.start \in ScreenIds
      /\ d.items \in SUBSET DOMAIN ShellItems
  BY DEF Showable, ShellDocs
<1>2. PICK n \in DOMAIN d.screens : d.start = d.screens[n]
  BY ShowableFields
<1>3. PICK rest : rest = RemoveAt(d.screens, k)
  OBVIOUS
<1>4. /\ rest \in Seq(ScreenIds) /\ Len(rest) = Len(d.screens) - 1
      /\ \A i \in 1..Len(d.screens) - 1 : rest[i] = IF i < k THEN d.screens[i] ELSE d.screens[i + 1]
  BY <1>1, <1>3, RemovedAt
<1>5. /\ Len(d.screens) \in Nat /\ k \in 1..Len(d.screens) /\ n \in 1..Len(d.screens)
      /\ DOMAIN rest = 1..Len(d.screens) - 1
  BY <1>1, <1>2, <1>4, LenProperties
<1>6. PICK start : start = IF d.start = d.screens[k] THEN rest[1] ELSE d.start
  OBVIOUS
<1>7. \E i \in DOMAIN rest : start = rest[i]
  <2>1. CASE d.start = d.screens[k]
    BY <1>5, <1>6, <2>1
  <2>2. CASE d.start # d.screens[k] /\ n < k
    BY <1>2, <1>4, <1>5, <1>6, <2>2
  <2>3. CASE d.start # d.screens[k] /\ n > k
    <3>1. n - 1 \in 1..Len(d.screens) - 1 /\ ~(n - 1 < k) /\ n - 1 + 1 = n
      BY <1>5, <2>3
    <3>2. rest[n - 1] = d.screens[n]
      BY <1>4, <3>1
    <3>3. QED
      BY <1>2, <1>5, <1>6, <2>3, <3>1, <3>2
  <2>4. n # k \/ d.start = d.screens[k]
    BY <1>2
  <2>5. QED
    BY <1>5, <2>1, <2>2, <2>3, <2>4
<1>8. start \in ScreenIds
  BY <1>4, <1>7, LenProperties, ElementOfSeq
<1>9. PICK items : items = {i \in d.items : ShellItems[i].screen # d.screens[k]}
  OBVIOUS
<1>10. PICK e : e = [d EXCEPT !.screens = rest, !.start = start, !.items = items]
  OBVIOUS
<1>11. e \in ShellDocs /\ e.screens = rest /\ e.start = start
  BY <1>1, <1>4, <1>8, <1>9, <1>10 DEF ShellDocs
<1>12. e \in Showable
  BY <1>7, <1>11, ShowableFields
<1>13. WithoutScreen(d, k) = e
  BY <1>3, <1>6, <1>9, <1>10 DEF WithoutScreen
<1>14. QED
  BY <1>12, <1>13

\* Committing a document that can be shown, and walking the history.
LEMMA LineStep ==
  ASSUME line \in [past : Seq(Showable), doc : Showable, future : Seq(Showable)],
         \/ \E d \in Showable : CommitDocument(d)
         \/ ShellUndo \/ ShellRedo
  PROVE  line' \in [past : Seq(Showable), doc : Showable, future : Seq(Showable)]
<1>1. /\ line.past \in Seq(Showable) /\ line.doc \in Showable /\ line.future \in Seq(Showable)
  OBVIOUS
<1>2. ASSUME NEW past \in Seq(Showable), NEW doc \in Showable, NEW future \in Seq(Showable)
      PROVE  [past |-> past, doc |-> doc, future |-> future]
               \in [past : Seq(Showable), doc : Showable, future : Seq(Showable)]
  OBVIOUS
<1>3. Append(line.past, line.doc) \in Seq(Showable) /\ <<>> \in Seq(Showable)
  BY <1>1, AppendProperties, EmptySeq
<1>4. CASE \E d \in Showable : CommitDocument(d)
  BY <1>2, <1>3, <1>4 DEF CommitDocument, Document
<1>5. CASE ShellUndo
  <2>1. line.past # <<>>
    BY <1>5 DEF ShellUndo
  <2>2. Front(line.past) \in Seq(Showable) /\ Last(line.past) \in Showable
    BY <1>1, <2>1, FrontAndLast
  <2>3. <<line.doc>> \o line.future \in Seq(Showable)
    BY <1>1, ConcatProperties
  <2>4. QED
    BY <1>2, <1>5, <2>2, <2>3 DEF ShellUndo, Document
<1>6. CASE ShellRedo
  <2>1. line.future # <<>>
    BY <1>6 DEF ShellRedo
  <2>2. Tail(line.future) \in Seq(Showable) /\ Head(line.future) \in Showable
    BY <1>1, <2>1, HeadTailProperties
  <2>3. QED
    BY <1>2, <1>3, <1>6, <2>2 DEF ShellRedo, Document
<1>7. QED
  BY <1>4, <1>5, <1>6

\* Every edit commits a document that can be shown, or none.
LEMMA EditStep ==
  ASSUME DocumentsInv, EditDocument
  PROVE  DocumentsInv'
<1>1. /\ line \in [past : Seq(Showable), doc : Showable, future : Seq(Showable)]
      /\ Document \in Showable /\ UNCHANGED <<versions, restoring>>
  BY DEF DocumentsInv, EditDocument, Document
<1>2. Document.screens \in Seq(ScreenIds)
  BY <1>1 DEF Showable, ShellDocs
<1>3. (\E d \in Showable : CommitDocument(d)) \/ UNCHANGED line
  <2>0. Grown \subseteq Showable
    <3>1. \A i \in DOMAIN ShellScreens : ShellScreens[i] \in ScreenIds
      BY DEF ScreenIds, ToSet
    <3>2. QED
      BY <1>1, <3>1, GrownIsShowable DEF Grown
  <2>1. CASE AddScreenHere
    BY <2>0, <2>1 DEF AddScreenHere
  <2>2. CASE DeleteScreenHere
    <3>1. PICK k \in DOMAIN Document.screens :
            Len(Document.screens) > 1 /\ CommitDocument(WithoutScreen(Document, k))
      BY <2>2 DEF DeleteScreenHere
    <3>2. QED
      BY <1>1, <3>1, WithoutIsShowable
  <2>3. CASE AIChange
    <3>1. \/ \E d \in Grown : CommitDocument(d)
          \/ \E i : CommitDocument([Document EXCEPT !.items = @ \ {i}])
      BY <2>3 DEF AIChange
    <3>2. QED
      BY <1>1, <2>0, <3>1, GrownIsShowable
  <2>4. CASE DeleteItem
    <3>1. PICK i : \/ CommitDocument([Document EXCEPT !.items = @ \ {i}])
                   \/ UNCHANGED line
      BY <2>4 DEF DeleteItem
    <3>2. QED
      BY <1>1, <3>1, GrownIsShowable
  <2>5. QED
    BY <2>1, <2>2, <2>3, <2>4 DEF EditDocument
<1>4. line' \in [past : Seq(Showable), doc : Showable, future : Seq(Showable)]
  BY <1>1, <1>3, LineStep
<1>5. QED
  BY <1>1, <1>4 DEF DocumentsInv

\* What can become the document can be shown after every step.
LEMMA DocumentsStep ==
  ASSUME DocumentsInv, [ShellNext]_shellVars
  PROVE  DocumentsInv'
<1>1. CASE UNCHANGED documents
  BY <1>1 DEF DocumentsInv, documents
<1>2. CASE EditDocument
  BY <1>2, EditStep
<1>3. CASE UndoOrRedo
  <2>1. (ShellUndo \/ ShellRedo) /\ UNCHANGED <<versions, restoring>>
    BY <1>3 DEF UndoOrRedo
  <2>2. QED
    BY <2>1, LineStep DEF DocumentsInv
<1>4. CASE VersionKept
  <2>1. versions' = Append(versions, line.doc) /\ UNCHANGED <<line, restoring>>
    BY <1>4 DEF VersionKept, Document
  <2>2. line.doc \in Showable /\ versions \in Seq(Showable)
    BY DEF DocumentsInv
  <2>3. versions' \in Seq(Showable)
    BY <2>1, <2>2, AppendProperties
  <2>4. QED
    BY <2>1, <2>3 DEF DocumentsInv
<1>5. CASE Restore
  <2>1. restoring' \in ToSet(versions) /\ UNCHANGED <<line, versions>>
    BY <1>5 DEF Restore
  <2>2. versions \in Seq(Showable)
    BY DEF DocumentsInv
  <2>3. restoring' \in Showable
    BY <2>1, <2>2, LenProperties, ElementOfSeq DEF ToSet
  <2>4. QED
    BY <2>1, <2>3 DEF DocumentsInv
<1>6. CASE RestoreArrives
  <2>1. /\ restoring # Nobody /\ restoring' = Nobody /\ UNCHANGED versions
        /\ CommitDocument(restoring)
    BY <1>6 DEF RestoreArrives
  <2>2. restoring \in Showable
    BY <2>1 DEF DocumentsInv
  <2>3. line' \in [past : Seq(Showable), doc : Showable, future : Seq(Showable)]
    BY <2>1, <2>2, LineStep DEF DocumentsInv
  <2>4. QED
    BY <2>1, <2>3 DEF DocumentsInv
<1>7. CASE RestoreFails
  BY <1>7 DEF RestoreFails, DocumentsInv
<1>8. ASSUME \/ Pick \/ SwitchMode \/ PressBar \/ PickFromMenu \/ PressOutside \/ PressDrawer
             \/ ClosePanel \/ PressEscape \/ OpenedByPanel \/ BalanceArrives
             \/ PressCommandKey \/ IndexArrives \/ IndexFails \/ Jump \/ PressNamed
             \/ ChooseEnvironment \/ CancelEnvironment \/ CreateEnvironment
             \/ ProjectCreated \/ CreationAnswered \/ CreationFails
      PROVE  UNCHANGED documents
  BY <1>8 DEF Pick, SwitchMode, PressBar, PickFromMenu, PressOutside, PressDrawer,
       ClosePanel, PressEscape, OpenedByPanel, BalanceArrives,
       PressCommandKey, IndexArrives, IndexFails, Jump, PressNamed,
       ChooseEnvironment, CancelEnvironment, CreateEnvironment,
       ProjectCreated, CreationAnswered, CreationFails
<1>9. QED
  BY <1>1, <1>2, <1>3, <1>4, <1>5, <1>6, <1>7, <1>8 DEF ShellNext, shellVars, documents

\* Only the buttons of the drawers open one, and each closes the other.
LEMMA DrawersStep ==
  ASSUME DrawersInv, [ShellNext]_shellVars
  PROVE  DrawersInv'
<1>1. ASSUME opened' \cap Drawers \subseteq opened
      PROVE  DrawersInv'
  BY <1>1 DEF DrawersInv, Drawers
<1>2. ASSUME NEW p \in Slides \cup {"env", "more", "ai", "command"}
      PROVE  /\ Toggled(p) \cap Drawers \subseteq opened
             /\ AskAI \cap Drawers \subseteq opened
  BY DEF Toggled, AskAI, Slides, Drawers
<1>3. CASE PressDrawer
  BY <1>3 DEF PressDrawer, OpenDrawer, Drawers, DrawersInv
<1>4. ASSUME \/ PressBar \/ PickFromMenu \/ PressCommandKey \/ PressNamed
      PROVE  opened' \cap Drawers \subseteq opened
  BY <1>2, <1>4 DEF PressBar, PickFromMenu, PressCommandKey, PressNamed, Slides
<1>5. ASSUME \/ UndoOrRedo \/ SwitchMode \/ PressOutside \/ ClosePanel
             \/ PressEscape \/ OpenedByPanel \/ Jump \/ ChooseEnvironment
      PROVE  opened' \cap Drawers \subseteq opened
  BY <1>5 DEF UndoOrRedo, SwitchMode, PressOutside, ClosePanel, PressEscape,
       OpenedByPanel, Jump, ChooseEnvironment, Drawers
<1>6. ASSUME \/ EditDocument \/ Pick \/ VersionKept \/ BalanceArrives \/ IndexArrives \/ IndexFails
             \/ Restore \/ RestoreArrives \/ RestoreFails \/ CancelEnvironment \/ CreateEnvironment
             \/ ProjectCreated \/ CreationAnswered \/ CreationFails \/ UNCHANGED shellVars
      PROVE  UNCHANGED opened
  BY <1>6 DEF EditDocument, Pick, VersionKept, BalanceArrives, IndexArrives, IndexFails, Restore,
       RestoreArrives, RestoreFails, CancelEnvironment, CreateEnvironment, ProjectCreated,
       CreationAnswered, CreationFails, shellVars
<1>7. QED
  BY <1>1, <1>3, <1>4, <1>5, <1>6 DEF ShellNext

\* A project is made once for each confirmation, and lost with its answer.
LEMMA CreationStep ==
  ASSUME CreationInv, [ShellNext]_shellVars
  PROVE  CreationInv'
<1>1. born \in [projects : Nat, lost : Nat]
  BY DEF CreationInv
<1>2. CASE UNCHANGED <<creating, born>> /\ (pendingEnv' = pendingEnv \/ creating = "no")
  BY <1>2 DEF CreationInv
<1>3. CASE CreateEnvironment
  BY <1>3 DEF CreateEnvironment, CreationInv
<1>4. CASE ProjectCreated
  <2>1. /\ creating = "asked" /\ creating' = "made" /\ UNCHANGED pendingEnv
        /\ born' = [born EXCEPT !.projects = @ + 1]
    BY <1>4 DEF ProjectCreated
  <2>2. /\ born' \in [projects : Nat, lost : Nat]
        /\ born'.projects = born.projects + 1 /\ born'.lost = born.lost
    BY <1>1, <2>1
  <2>3. QED
    BY <1>1, <2>1, <2>2 DEF CreationInv
<1>5. CASE CreationFails
  <2>1. /\ creating # "no" /\ creating' = "no" /\ UNCHANGED pendingEnv
        /\ born' = [born EXCEPT !.lost = @ + IF creating = "made" THEN 1 ELSE 0]
    BY <1>5 DEF CreationFails
  <2>2. PICK n \in Nat : n = IF creating = "made" THEN 1 ELSE 0
    OBVIOUS
  <2>3. /\ born' \in [projects : Nat, lost : Nat]
        /\ born'.projects = born.projects /\ born'.lost = born.lost + n
    BY <1>1, <2>1, <2>2
  <2>4. QED
    BY <1>1, <2>1, <2>2, <2>3 DEF CreationInv
<1>6. ASSUME PressEscape \/ ChooseEnvironment \/ CancelEnvironment
      PROVE  CreationInv'
  <2>1. UNCHANGED <<creating, born>>
    BY <1>6 DEF PressEscape, ChooseEnvironment, CancelEnvironment
  <2>2. pendingEnv' = pendingEnv \/ creating = "no" \/ pendingEnv' # Nobody
    BY <1>6, ShellAssumption DEF PressEscape, ChooseEnvironment, CancelEnvironment
  <2>3. QED
    BY <2>1, <2>2 DEF CreationInv
<1>7. ASSUME \/ EditDocument \/ UndoOrRedo \/ Pick \/ VersionKept \/ SwitchMode \/ PressBar
             \/ PickFromMenu \/ PressOutside \/ PressDrawer \/ ClosePanel \/ OpenedByPanel
             \/ BalanceArrives \/ PressCommandKey \/ IndexArrives \/ IndexFails \/ Jump \/ PressNamed
             \/ Restore \/ RestoreArrives \/ RestoreFails \/ CreationAnswered \/ UNCHANGED shellVars
      PROVE  UNCHANGED <<creating, born, pendingEnv>>
  BY <1>7 DEF EditDocument, UndoOrRedo, Pick, VersionKept, SwitchMode, PressBar,
       PickFromMenu, PressOutside, PressDrawer, ClosePanel, OpenedByPanel,
       BalanceArrives, PressCommandKey, IndexArrives, IndexFails, Jump, PressNamed,
       Restore, RestoreArrives, RestoreFails, CreationAnswered, creation, shellVars
<1>8. QED
  BY <1>2, <1>3, <1>4, <1>5, <1>6, <1>7 DEF ShellNext

\* Of two drawers at most one is open.
LEMMA OneOfTwo ==
  ASSUME DrawersInv
  PROVE  OneDrawer
<1>1. PICK d \in Drawers : opened \cap Drawers \subseteq {d}
  BY DEF DrawersInv, Drawers
<1>2. opened \cap Drawers = {} \/ opened \cap Drawers = {d}
  BY <1>1
<1>3. Cardinality({}) = 0 /\ Cardinality({d}) = 1
  BY FS_EmptySet, FS_Singleton
<1>4. QED
  BY <1>2, <1>3 DEF OneDrawer

\* However far the history goes and whatever is created, restored or rewritten
\* meanwhile: the panels work on a screen the document has, one drawer is open
\* at a time, and only a lost answer makes a second project.
THEOREM FrameIsSound == ShellSpec => []ShellIsSound
<1>1. ShellInit => ShellInv
  <2> SUFFICES ASSUME ShellInit PROVE ShellInv
    OBVIOUS
  <2>1. DrawersInv /\ CreationInv
    BY DEF ShellInit, DrawersInv, CreationInv
  <2>2. PICK screens : screens = SubSeq(ShellScreens, 1, 2)
    OBVIOUS
  <2>3. ShellScreens \in Seq(ScreenIds) /\ Len(ShellScreens) \in Nat /\ Len(ShellScreens) > 1
    BY ShellAssumption, LenProperties DEF ScreenIds
  <2>4. \A i \in 1..2 : ShellScreens[i] \in ScreenIds
    BY <2>3, ElementOfSeq
  <2>5. screens \in Seq(ScreenIds) /\ Len(screens) = 2 /\ screens[2] = ShellScreens[2]
    <3>1. /\ screens \in Seq(ScreenIds) /\ Len(screens) = IF 1 <= 2 THEN 2 - 1 + 1 ELSE 0
          /\ \A i \in 1..2 - 1 + 1 : screens[i] = ShellScreens[1 + i - 1]
      BY <2>2, <2>4, SubSeqProperties
    <3>2. 2 \in 1..2 - 1 + 1 /\ 1 + 2 - 1 = 2
      OBVIOUS
    <3>3. QED
      BY <3>1, <3>2
  <2>6. PICK items \in SUBSET DOMAIN ShellItems :
          line = [past |-> <<>>, future |-> <<>>,
                  doc |-> [screens |-> screens, start |-> ShellScreens[2], items |-> items]]
    BY <2>2 DEF ShellInit
  <2>7. line.doc \in ShellDocs /\ line.doc.screens = screens /\ line.doc.start = screens[2]
    BY <2>4, <2>5, <2>6 DEF ShellDocs
  <2>8. 2 \in DOMAIN screens
    BY <2>5, LenProperties
  <2>9. line.doc \in Showable
    BY <2>7, <2>8, ShowableFields
  <2>10. <<>> \in Seq(Showable)
    BY EmptySeq
  <2>11. line \in [past : Seq(Showable), doc : Showable, future : Seq(Showable)]
    BY <2>6, <2>9, <2>10
  <2>12. versions = <<line.doc>> /\ restoring = Nobody
    BY DEF ShellInit
  <2>13. versions \in Seq(Showable)
    BY <2>9, <2>12
  <2>14. QED
    BY <2>1, <2>11, <2>12, <2>13 DEF ShellInv, DocumentsInv
<1>2. ShellInv /\ [ShellNext]_shellVars => ShellInv'
  BY DocumentsStep, DrawersStep, CreationStep DEF ShellInv
<1>3. ShellInv => ShellIsSound
  <2> SUFFICES ASSUME ShellInv PROVE ShellIsSound
    OBVIOUS
  <2>1. Document \in Showable
    BY DEF ShellInv, DocumentsInv, Document
  <2>2. Document.start \in ToSet(Document.screens) /\ Document.start \in ScreenIds
    BY <2>1 DEF Showable, ShellDocs
  <2>3. Document.start # Nobody
    BY <2>2, ShellAssumption DEF ScreenIds
  <2>4. ShownScreenExists
    BY <2>2, <2>3 DEF ShownScreenExists, ShownScreen
  <2>5. OneDrawer
    BY OneOfTwo DEF ShellInv
  <2>6. CreationIsShown /\ OneProjectPerIntent
    BY DEF ShellInv, CreationInv, CreationIsShown, OneProjectPerIntent
  <2>7. QED
    BY <2>4, <2>5, <2>6 DEF ShellIsSound
<1>4. QED
  BY <1>1, <1>2, <1>3, PTL DEF ShellSpec

-----------------------------------------------------------------------------
(* The Asset Studio (SpriteStudio).                                        *)

Layers == [id : Nat, px : SUBSET Nat, locked : BOOLEAN, size : Nat]

\* The frames a frame may show strokes of: itself and those it was copied from.
OriginsOf(frame) == {frame.id} \cup frame.from

\* Each layer id below n belongs to one frame and its copies back in time:
\* allowed says which strokes it may hold, in whatever document it is found.
SoundLayers(allowed, n, origins) ==
  {l \in Layers : l.id < n /\ allowed[l.id] = origins /\ l.px \subseteq origins}
SoundFrames(allowed, n) ==
  {f \in [id : Nat, from : SUBSET Nat, layers : Seq(Layers)] :
     f.layers \in Seq(SoundLayers(allowed, n, OriginsOf(f))) /\ f.layers # <<>>}
SoundSprites(allowed, n) ==
  {d \in [size : Nat, frames : Seq(SoundFrames(allowed, n))] : d.frames # <<>>}

\* An awaited edit brings a sound document, or strokes its layer may hold.
JobIsSound(allowed, n, job) ==
  IF job.whole THEN job.doc \in SoundSprites(allowed, n)
  ELSE job.layer \in Nat /\ job.layer < n /\ job.px \subseteq allowed[job.layer] /\ job.size \in Nat

\* The document, those undo and redo bring back, and those awaited agree.
StudioSound(allowed) ==
  /\ nextId \in Nat
  /\ sprite \in SoundSprites(allowed, nextId)
  /\ undoStack \in Seq(SoundSprites(allowed, nextId))
  /\ redoStack \in Seq(SoundSprites(allowed, nextId))
  /\ \A job \in pixelJobs : JobIsSound(allowed, nextId, job)

StudioInv == \E allowed \in [Nat -> SUBSET Nat] : StudioSound(allowed)

\* Ids given out later take nothing from what was sound.
LEMMA StaysSound ==
  ASSUME NEW a, NEW b, NEW n \in Nat, NEW m \in Nat, n <= m,
         \A i \in 0..n - 1 : b[i] = a[i]
  PROVE  /\ \A origins : SoundLayers(a, n, origins) \subseteq SoundLayers(b, m, origins)
         /\ SoundFrames(a, n) \subseteq SoundFrames(b, m)
         /\ SoundSprites(a, n) \subseteq SoundSprites(b, m)
         /\ \A job : JobIsSound(a, n, job) => JobIsSound(b, m, job)
<1>1. ASSUME NEW origins
      PROVE  SoundLayers(a, n, origins) \subseteq SoundLayers(b, m, origins)
  BY DEF SoundLayers, Layers
<1>2. ASSUME NEW f \in SoundFrames(a, n)
      PROVE  f \in SoundFrames(b, m)
  <2>1. f.layers \in Seq(SoundLayers(b, m, OriginsOf(f)))
    BY <1>1, SeqMonotonic DEF SoundFrames
  <2>2. QED
    BY <2>1 DEF SoundFrames
<1>3. ASSUME NEW d \in SoundSprites(a, n)
      PROVE  d \in SoundSprites(b, m)
  <2>1. PICK frames \in Seq(SoundFrames(a, n)), size \in Nat :
          d = [size |-> size, frames |-> frames] /\ frames # <<>>
    BY DEF SoundSprites
  <2>2. frames \in Seq(SoundFrames(b, m))
    BY <1>2, SeqMonotonic
  <2>3. QED
    BY <2>1, <2>2 DEF SoundSprites
<1>4. ASSUME NEW job, JobIsSound(a, n, job)
      PROVE  JobIsSound(b, m, job)
  BY <1>3, <1>4 DEF JobIsSound
<1>5. QED
  BY <1>1, <1>2, <1>3, <1>4

\* A frame with other layers of its own, a document with other frames.
LEMMA SpriteChanges ==
  ASSUME NEW allowed, NEW n \in Nat
  PROVE  /\ \A f \in SoundFrames(allowed, n) :
              \A layers \in Seq(SoundLayers(allowed, n, OriginsOf(f))) :
                layers # <<>> => [f EXCEPT !.layers = layers] \in SoundFrames(allowed, n)
         /\ \A d \in SoundSprites(allowed, n) :
              \A frames \in Seq(SoundFrames(allowed, n)) :
                frames # <<>> => [d EXCEPT !.frames = frames] \in SoundSprites(allowed, n)
<1>1. ASSUME NEW f \in SoundFrames(allowed, n),
             NEW layers \in Seq(SoundLayers(allowed, n, OriginsOf(f))), layers # <<>>
      PROVE  [f EXCEPT !.layers = layers] \in SoundFrames(allowed, n)
  <2>1. PICK e : e = [f EXCEPT !.layers = layers]
    OBVIOUS
  <2>2. SoundLayers(allowed, n, OriginsOf(f)) \subseteq Layers
    BY DEF SoundLayers
  <2>3. layers \in Seq(Layers)
    BY <2>2, SeqMonotonic
  <2>4. /\ e \in [id : Nat, from : SUBSET Nat, layers : Seq(Layers)]
        /\ e.layers = layers /\ e.id = f.id /\ e.from = f.from
    BY <2>1, <2>3 DEF SoundFrames
  <2>5. OriginsOf(e) = OriginsOf(f)
    BY <2>4 DEF OriginsOf
  <2>6. QED
    BY <1>1, <2>1, <2>4, <2>5 DEF SoundFrames
<1>2. ASSUME NEW d \in SoundSprites(allowed, n),
             NEW frames \in Seq(SoundFrames(allowed, n)), frames # <<>>
      PROVE  [d EXCEPT !.frames = frames] \in SoundSprites(allowed, n)
  BY <1>2 DEF SoundSprites
<1>3. QED
  BY <1>1, <1>2

\* The layers of the shown frame, and the active one, are its own.
LEMMA ShownIsSound ==
  ASSUME NEW allowed, NEW n \in Nat, sprite \in SoundSprites(allowed, n), HasFrame
  PROVE  /\ ShownFrame \in SoundFrames(allowed, n)
         /\ ShownFrame.layers \in Seq(SoundLayers(allowed, n, OriginsOf(ShownFrame)))
         /\ ShownFrame.layers # <<>>
         /\ ActiveLayer \in SoundLayers(allowed, n, OriginsOf(ShownFrame))
<1>1. Frames \in Seq(SoundFrames(allowed, n))
  BY DEF SoundSprites, Frames
<1>2. ShownFrame \in SoundFrames(allowed, n)
  BY <1>1, LenProperties, ElementOfSeq DEF HasFrame, ShownFrame
<1>3. PICK layers : layers = ShownFrame.layers
  OBVIOUS
<1>4. PICK S : S = SoundLayers(allowed, n, OriginsOf(ShownFrame))
  OBVIOUS
<1>5. layers \in Seq(S) /\ layers # <<>>
  BY <1>2, <1>3, <1>4 DEF SoundFrames
<1>6. Last(layers) \in S
  BY <1>5, FrontAndLast
<1>7. ASSUME layerChoice \in LayerIds(ShownFrame)
      PROVE  layers[CHOOSE j \in DOMAIN layers : layers[j].id = layerChoice] \in S
  <2>1. \E j \in DOMAIN layers : layers[j].id = layerChoice
    BY <1>3, <1>7 DEF LayerIds
  <2>2. PICK k : k = CHOOSE j \in DOMAIN layers : layers[j].id = layerChoice
    OBVIOUS
  <2>3. k \in DOMAIN layers
    BY <2>1, <2>2
  <2>4. QED
    BY <1>5, <2>2, <2>3, LenProperties, ElementOfSeq
<1>8. ActiveLayer \in S
  BY <1>3, <1>6, <1>7 DEF ActiveLayer
<1>9. QED
  BY <1>2, <1>3, <1>4, <1>5, <1>8

\* Replacing the layers of a frame by layers it may have; where there is no
\* such frame nothing changes.
LEMMA SetLayersIsSound ==
  ASSUME NEW allowed, NEW n \in Nat, sprite \in SoundSprites(allowed, n),
         NEW index, NEW layers, SetLayers(index, layers),
         index \in DOMAIN Frames =>
           layers \in Seq(SoundLayers(allowed, n, OriginsOf(Frames[index]))) /\ layers # <<>>
  PROVE  sprite' \in SoundSprites(allowed, n)
<1>1. PICK frames : frames = [i \in DOMAIN Frames |->
                      IF i = index THEN [Frames[i] EXCEPT !.layers = layers] ELSE Frames[i]]
  OBVIOUS
<1>2. Frames \in Seq(SoundFrames(allowed, n)) /\ Frames # <<>>
  BY DEF SoundSprites, Frames
<1>3. Len(Frames) \in Nat /\ Len(Frames) # 0 /\ DOMAIN Frames = 1..Len(Frames)
  BY <1>2, EmptySeq, LenProperties
<1>4. ASSUME NEW i \in DOMAIN Frames
      PROVE  frames[i] \in SoundFrames(allowed, n)
  <2>1. Frames[i] \in SoundFrames(allowed, n)
    BY <1>2, <1>3, <1>4, ElementOfSeq
  <2>2. CASE i = index
    BY <1>1, <2>1, <2>2, SpriteChanges
  <2>3. CASE i # index
    BY <1>1, <2>1, <2>3
  <2>4. QED
    BY <2>2, <2>3
<1>5. frames \in [1..Len(Frames) -> SoundFrames(allowed, n)]
  BY <1>1, <1>3, <1>4
<1>6. frames \in Seq(SoundFrames(allowed, n)) /\ Len(frames) = Len(Frames)
  BY <1>3, <1>5, FunctionIsSeq
<1>7. frames # <<>>
  BY <1>3, <1>6
<1>8. sprite' = [sprite EXCEPT !.frames = frames]
  BY <1>1 DEF SetLayers, Frames
<1>9. QED
  BY <1>6, <1>7, <1>8, SpriteChanges

\* The snapshot taken before an edit.
LEMMA PushIsSound ==
  ASSUME NEW S, sprite \in S, undoStack \in Seq(S), PushUndo
  PROVE  undoStack' \in Seq(S) /\ redoStack' \in Seq(S)
<1>1. PICK s : s = Append(undoStack, sprite)
  OBVIOUS
<1>2. s \in Seq(S) /\ s # <<>>
  BY <1>1, AppendProperties
<1>3. Tail(s) \in Seq(S) /\ <<>> \in Seq(S)
  BY <1>2, HeadTailProperties, EmptySeq
<1>4. undoStack' = IF Len(s) > UndoCap THEN Tail(s) ELSE s
  BY <1>1 DEF PushUndo
<1>5. QED
  BY <1>2, <1>3, <1>4 DEF PushUndo

\* What a pixel edit of the active layer awaits is what that layer may hold.
LEMMA AwaitIsSound ==
  ASSUME NEW allowed, StudioSound(allowed), HasFrame,
         NEW result \in {Painted, {}, ActiveLayer.px}, Await(result)
  PROVE  \A job \in pixelJobs' : JobIsSound(allowed, nextId, job)
<1>1. /\ nextId \in Nat /\ sprite \in SoundSprites(allowed, nextId)
      /\ \A job \in pixelJobs : JobIsSound(allowed, nextId, job)
  BY DEF StudioSound
<1>2. PICK l : l = ActiveLayer
  OBVIOUS
<1>3. /\ l.id \in Nat /\ l.id < nextId /\ allowed[l.id] = OriginsOf(ShownFrame)
      /\ l.px \subseteq OriginsOf(ShownFrame)
  BY <1>1, <1>2, ShownIsSound DEF SoundLayers, Layers
<1>4. result \subseteq allowed[l.id]
  BY <1>2, <1>3 DEF Painted, OriginsOf
<1>5. PICK job : job = [whole |-> FALSE, doc |-> <<>>, index |-> frameIndex, layer |-> l.id, px |-> result,
                         size |-> sprite.size]
  OBVIOUS
<1>6. ~job.whole /\ job.layer = l.id /\ job.px = result /\ job.size \in Nat
  BY <1>1, <1>5 DEF SoundSprites
<1>7. JobIsSound(allowed, nextId, job)
  BY <1>3, <1>4, <1>6 DEF JobIsSound
<1>8. pixelJobs' = pixelJobs \cup {job}
  BY <1>2, <1>5 DEF Await
<1>9. QED
  BY <1>1, <1>7, <1>8

\* Cropping, scaling and rotating change sizes alone.
LEMMA ResizedIsSound ==
  ASSUME NEW allowed, NEW n \in Nat, sprite \in SoundSprites(allowed, n),
         NEW size \in Nat, NEW all \in BOOLEAN
  PROVE  Resized(size, all) \in SoundSprites(allowed, n)
<1> DEFINE Changes(l) == all \/ l.id = ActiveLayer.id
<1> DEFINE NewLayers(f) == [j \in DOMAIN f.layers |->
             IF Changes(f.layers[j]) THEN [f.layers[j] EXCEPT !.size = size] ELSE f.layers[j]]
<1>1. Frames \in Seq(SoundFrames(allowed, n)) /\ Frames # <<>>
  BY DEF SoundSprites, Frames
<1>2. Len(Frames) \in Nat /\ Len(Frames) # 0 /\ DOMAIN Frames = 1..Len(Frames)
  BY <1>1, EmptySeq, LenProperties
<1>3. ASSUME NEW f \in SoundFrames(allowed, n)
      PROVE  [f EXCEPT !.layers = NewLayers(f)] \in SoundFrames(allowed, n)
  <2>1. PICK S : S = SoundLayers(allowed, n, OriginsOf(f))
    OBVIOUS
  <2>2. f.layers \in Seq(S) /\ f.layers # <<>>
    BY <2>1 DEF SoundFrames
  <2>3. Len(f.layers) \in Nat /\ Len(f.layers) # 0 /\ DOMAIN f.layers = 1..Len(f.layers)
    BY <2>2, EmptySeq, LenProperties
  <2>4. ASSUME NEW l \in S
        PROVE  [l EXCEPT !.size = size] \in S
    BY <2>1 DEF SoundLayers, Layers
  <2>5. ASSUME NEW j \in DOMAIN f.layers
        PROVE  NewLayers(f)[j] \in S
    <3>1. f.layers[j] \in S
      BY <2>2, <2>3, ElementOfSeq
    <3>2. QED
      BY <2>4, <3>1
  <2>6. NewLayers(f) \in [1..Len(f.layers) -> S]
    BY <2>3, <2>5
  <2>7. NewLayers(f) \in Seq(S) /\ Len(NewLayers(f)) = Len(f.layers)
    BY <2>3, <2>6, FunctionIsSeq
  <2>8. NewLayers(f) # <<>>
    BY <2>3, <2>7
  <2>9. QED
    BY <2>1, <2>7, <2>8, SpriteChanges
<1> DEFINE frames == [i \in DOMAIN Frames |-> [Frames[i] EXCEPT !.layers = NewLayers(Frames[i])]]
<1>4. \A i \in DOMAIN Frames : Frames[i] \in SoundFrames(allowed, n)
  BY <1>1, <1>2, ElementOfSeq
<1>5. frames \in [1..Len(Frames) -> SoundFrames(allowed, n)]
  BY <1>2, <1>3, <1>4
<1>6. frames \in Seq(SoundFrames(allowed, n)) /\ Len(frames) = Len(Frames)
  BY <1>2, <1>5, FunctionIsSeq
<1>7. frames # <<>>
  BY <1>2, <1>6
<1>8. Resized(size, all) = [size |-> size, frames |-> frames]
  BY DEF Resized
<1>9. QED
  BY <1>6, <1>7, <1>8 DEF SoundSprites

\* The pointer and the selection: a snapshot, and an edit awaited.
LEMMA EditsKeepStudio ==
  ASSUME NEW allowed, StudioSound(allowed),
         PointerDown \/ PointerMove \/ PointerUp \/ SelectionOp
  PROVE  StudioSound(allowed)'
<1>1. /\ nextId \in Nat /\ sprite \in SoundSprites(allowed, nextId)
      /\ undoStack \in Seq(SoundSprites(allowed, nextId))
      /\ redoStack \in Seq(SoundSprites(allowed, nextId))
      /\ \A job \in pixelJobs : JobIsSound(allowed, nextId, job)
  BY DEF StudioSound
<1>2. HasFrame /\ UNCHANGED <<sprite, nextId>>
  BY DEF PointerDown, PointerMove, PointerUp, SelectionOp
<1>3. PushUndo \/ UNCHANGED historyVars
  BY DEF PointerDown, PointerMove, PointerUp, SelectionOp
<1>4. undoStack' \in Seq(SoundSprites(allowed, nextId)) /\ redoStack' \in Seq(SoundSprites(allowed, nextId))
  <2>1. CASE PushUndo
    BY <1>1, <2>1, PushIsSound
  <2>2. CASE UNCHANGED historyVars
    BY <1>1, <2>2 DEF historyVars
  <2>3. QED
    BY <1>3, <2>1, <2>2
<1>5. \/ UNCHANGED pixelJobs
      \/ \E result \in {Painted, {}, ActiveLayer.px} : Await(result)
      \/ \E size \in {1, 2}, all \in BOOLEAN : AwaitWhole(Resized(size, all))
  BY DEF PointerDown, PointerMove, PointerUp, SelectionOp
<1>6. ASSUME NEW size \in {1, 2}, NEW all \in BOOLEAN, AwaitWhole(Resized(size, all))
      PROVE  \A job \in pixelJobs' : JobIsSound(allowed, nextId, job)
  <2>1. PICK doc : doc = Resized(size, all)
    OBVIOUS
  <2>2. doc \in SoundSprites(allowed, nextId)
    BY <1>1, <2>1, ResizedIsSound
  <2>3. PICK job : job = [whole |-> TRUE, doc |-> doc, index |-> 0, layer |-> 0, px |-> {}, size |-> 0]
    OBVIOUS
  <2>4. JobIsSound(allowed, nextId, job)
    BY <2>2, <2>3 DEF JobIsSound
  <2>5. pixelJobs' = pixelJobs \cup {job}
    BY <1>6, <2>1, <2>3 DEF AwaitWhole
  <2>6. QED
    BY <1>1, <2>4, <2>5
<1>7. \A job \in pixelJobs' : JobIsSound(allowed, nextId, job)
  BY <1>1, <1>2, <1>5, <1>6, AwaitIsSound
<1>8. QED
  BY <1>1, <1>2, <1>4, <1>7 DEF StudioSound

\* Undo, redo, playback and reopening bring back what was sound.
LEMMA AsideKeepsStudio ==
  ASSUME NEW allowed, StudioSound(allowed),
         Undo \/ Redo \/ ChooseFrame \/ TogglePlayback \/ PlayTick \/ Reopen \/ UNCHANGED spriteVars
  PROVE  StudioSound(allowed)'
<1>1. PICK S : S = SoundSprites(allowed, nextId)
  OBVIOUS
<1>2. /\ nextId \in Nat /\ sprite \in S /\ undoStack \in Seq(S) /\ redoStack \in Seq(S)
      /\ \A job \in pixelJobs : JobIsSound(allowed, nextId, job)
  BY <1>1 DEF StudioSound
<1>3. UNCHANGED nextId
  BY DEF Undo, Redo, ChooseFrame, TogglePlayback, PlayTick, Reopen, spriteVars
<1>4. UNCHANGED pixelJobs \/ pixelJobs' = {}
  BY DEF Undo, Redo, ChooseFrame, TogglePlayback, PlayTick, Reopen, spriteVars
<1>5. sprite' \in S /\ undoStack' \in Seq(S) /\ redoStack' \in Seq(S)
  <2>1. CASE Undo
    <3>1. Append(redoStack, sprite) \in Seq(S)
      BY <1>2, AppendProperties
    <3>2. Front(undoStack) \in Seq(S) /\ Last(undoStack) \in S
      BY <1>2, <2>1, FrontAndLast DEF Undo
    <3>3. QED
      BY <2>1, <3>1, <3>2 DEF Undo
  <2>2. CASE Redo
    <3>1. Append(undoStack, sprite) \in Seq(S)
      BY <1>2, AppendProperties
    <3>2. Front(redoStack) \in Seq(S) /\ Last(redoStack) \in S
      BY <1>2, <2>2, FrontAndLast DEF Redo
    <3>3. QED
      BY <2>2, <3>1, <3>2 DEF Redo
  <2>3. CASE Reopen
    BY <1>2, <2>3, EmptySeq DEF Reopen
  <2>4. CASE ChooseFrame \/ TogglePlayback \/ PlayTick \/ UNCHANGED spriteVars
    BY <1>2, <2>4 DEF ChooseFrame, TogglePlayback, PlayTick, spriteVars, historyVars
  <2>5. QED
    BY <2>1, <2>2, <2>3, <2>4
<1>6. QED
  BY <1>1, <1>2, <1>3, <1>4, <1>5 DEF StudioSound

\* Ids given out by a step leave everything sound.
LEMMA StudioGrows ==
  ASSUME NEW a, StudioSound(a), NEW b, NEW m \in Nat, nextId <= m,
         \A i \in 0..nextId - 1 : b[i] = a[i]
  PROVE  /\ sprite \in SoundSprites(b, m)
         /\ undoStack \in Seq(SoundSprites(b, m)) /\ redoStack \in Seq(SoundSprites(b, m))
         /\ \A job \in pixelJobs : JobIsSound(b, m, job)
<1>1. PICK S : S = SoundSprites(a, nextId)
  OBVIOUS
<1>2. PICK T : T = SoundSprites(b, m)
  OBVIOUS
<1>3. /\ nextId \in Nat /\ sprite \in S /\ undoStack \in Seq(S) /\ redoStack \in Seq(S)
      /\ \A job \in pixelJobs : JobIsSound(a, nextId, job)
  BY <1>1 DEF StudioSound
<1>4. S \subseteq T /\ \A job : JobIsSound(a, nextId, job) => JobIsSound(b, m, job)
  BY <1>1, <1>2, <1>3, StaysSound
<1>5. sprite \in T /\ undoStack \in Seq(T) /\ redoStack \in Seq(T)
  BY <1>3, <1>4, SeqMonotonic
<1>6. QED
  BY <1>2, <1>3, <1>4, <1>5

\* A new layer, of the frame it is added to.
LEMMA AddLayerKeepsStudio ==
  ASSUME NEW a \in [Nat -> SUBSET Nat], StudioSound(a), AddLayer
  PROVE  StudioInv'
<1>1. /\ HasFrame /\ PushUndo /\ nextId' = nextId + 1 /\ UNCHANGED pixelJobs
      /\ SetLayers(frameIndex, Append(ShownFrame.layers,
                     [id |-> nextId, px |-> {}, locked |-> FALSE, size |-> sprite.size]))
  BY DEF AddLayer
<1>2. nextId \in Nat /\ sprite \in SoundSprites(a, nextId)
  BY DEF StudioSound
<1>3. PICK origins : origins = OriginsOf(ShownFrame)
  OBVIOUS
<1>4. origins \in SUBSET Nat /\ sprite.size \in Nat
  <2>1. ShownFrame \in SoundFrames(a, nextId)
    BY <1>1, <1>2, ShownIsSound
  <2>2. QED
    BY <1>2, <1>3, <2>1 DEF SoundFrames, OriginsOf, SoundSprites
<1>5. PICK b : b = [i \in Nat |-> IF i = nextId THEN origins ELSE a[i]]
  OBVIOUS
<1>6. /\ b \in [Nat -> SUBSET Nat] /\ b[nextId] = origins
      /\ \A i \in 0..nextId - 1 : b[i] = a[i]
  BY <1>2, <1>4, <1>5
<1>7. PICK m \in Nat : m = nextId + 1
  BY <1>2
<1>8. /\ sprite \in SoundSprites(b, m)
      /\ undoStack \in Seq(SoundSprites(b, m)) /\ redoStack \in Seq(SoundSprites(b, m))
      /\ \A job \in pixelJobs : JobIsSound(b, m, job)
  <2>1. nextId <= m
    BY <1>2, <1>7
  <2>2. QED
    BY <1>6, <2>1, StudioGrows
<1>9. PICK l : l = [id |-> nextId, px |-> {}, locked |-> FALSE, size |-> sprite.size]
  OBVIOUS
<1>10. l \in SoundLayers(b, m, origins)
  <2>1. l \in Layers /\ l.id = nextId /\ l.px = {}
    BY <1>2, <1>4, <1>9 DEF Layers
  <2>2. QED
    BY <1>2, <1>6, <1>7, <2>1 DEF SoundLayers
<1>11. PICK layers : layers = Append(ShownFrame.layers, l)
  OBVIOUS
<1>12. layers \in Seq(SoundLayers(b, m, origins)) /\ layers # <<>>
  <2>1. ShownFrame.layers \in Seq(SoundLayers(b, m, origins))
    BY <1>1, <1>3, <1>8, ShownIsSound
  <2>2. QED
    BY <1>10, <1>11, <2>1, AppendProperties
<1>13. sprite' \in SoundSprites(b, m)
  <2>1. SetLayers(frameIndex, layers)
    BY <1>1, <1>9, <1>11
  <2>2. QED
    BY <1>3, <1>8, <1>12, <2>1, SetLayersIsSound DEF ShownFrame
<1>14. undoStack' \in Seq(SoundSprites(b, m)) /\ redoStack' \in Seq(SoundSprites(b, m))
  BY <1>1, <1>8, PushIsSound
<1>15. nextId' = m /\ \A job \in pixelJobs' : JobIsSound(b, m, job)
  BY <1>1, <1>7, <1>8
<1>16. StudioSound(b)'
  BY <1>13, <1>14, <1>15 DEF StudioSound
<1>17. QED
  BY <1>6, <1>16 DEF StudioInv

\* A new frame: fresh ids for its layers, which may hold what their originals
\* may, if they are copies.
LEMMA AddFrameKeepsStudio ==
  ASSUME NEW a \in [Nat -> SUBSET Nat], StudioSound(a), AddFrame
  PROVE  StudioInv'
<1>1. PICK copy \in BOOLEAN :
        sprite' = [sprite EXCEPT !.frames = InsertAt(@, frameIndex + 1,
                    [id |-> nextId, from |-> IF copy THEN ShownFrame.from \cup {ShownFrame.id} ELSE {},
                     layers |-> FrameLayers(copy)])]
  BY DEF AddFrame
<1>2. /\ HasFrame /\ PushUndo /\ nextId' = nextId + 1 + Len(ShownFrame.layers) /\ UNCHANGED pixelJobs
  BY DEF AddFrame
<1>3. nextId \in Nat /\ sprite \in SoundSprites(a, nextId)
  BY DEF StudioSound
<1>4. PICK f : f = ShownFrame
  OBVIOUS
<1>5. /\ f \in SoundFrames(a, nextId) /\ f.id \in Nat /\ f.from \in SUBSET Nat
      /\ f.layers \in Seq(SoundLayers(a, nextId, OriginsOf(f))) /\ f.layers # <<>>
  BY <1>2, <1>3, <1>4, ShownIsSound DEF SoundFrames
<1>6. Len(f.layers) \in Nat /\ Len(f.layers) # 0 /\ DOMAIN f.layers = 1..Len(f.layers)
  BY <1>5, EmptySeq, LenProperties
<1>7. PICK from : from = IF copy THEN f.from \cup {f.id} ELSE {}
  OBVIOUS
<1>8. PICK origins : origins = {nextId} \cup from
  OBVIOUS
<1>9. from \in SUBSET Nat /\ origins \in SUBSET Nat
  BY <1>3, <1>5, <1>7, <1>8
<1>10. PICK count \in Nat : count = Len(f.layers)
  BY <1>6
<1>11. PICK m : m = nextId + 1 + count
  OBVIOUS
<1>12. /\ m \in Nat /\ nextId <= m /\ m = nextId + 1 + Len(f.layers)
       /\ \A j \in 1..Len(f.layers) : nextId + j \in Nat /\ nextId + j > nextId /\ nextId + j < m
  <2>1. nextId \in Nat /\ count \in Nat
    BY <1>3
  <2>2. /\ m \in Nat /\ nextId <= m
        /\ \A j \in 1..count : nextId + j \in Nat /\ nextId + j > nextId /\ nextId + j < m
    BY <1>11, <2>1
  <2>3. QED
    BY <1>10, <1>11, <2>2
<1>13. PICK b : b = [i \in Nat |-> IF i > nextId THEN origins ELSE a[i]]
  OBVIOUS
<1>14. /\ b \in [Nat -> SUBSET Nat] /\ \A i \in 0..nextId - 1 : b[i] = a[i]
       /\ \A i \in Nat : i > nextId => b[i] = origins
  BY <1>3, <1>9, <1>13
<1>15. /\ sprite \in SoundSprites(b, m)
       /\ undoStack \in Seq(SoundSprites(b, m)) /\ redoStack \in Seq(SoundSprites(b, m))
       /\ \A job \in pixelJobs : JobIsSound(b, m, job)
  <2>1. m \in Nat /\ nextId <= m
    BY <1>12
  <2>2. QED
    BY <1>14, <2>1, StudioGrows
<1>16. PICK layers : layers = FrameLayers(copy)
  OBVIOUS
<1>17. layers = [j \in 1..Len(f.layers) |->
                   [f.layers[j] EXCEPT !.id = nextId + j, !.px = IF copy THEN @ ELSE {}]]
  BY <1>4, <1>6, <1>16 DEF FrameLayers
<1>18. ASSUME NEW j \in 1..Len(f.layers)
       PROVE  layers[j] \in SoundLayers(b, m, origins)
  <2>1. PICK l : l = f.layers[j]
    OBVIOUS
  <2>2. l \in Layers /\ l.px \subseteq OriginsOf(f)
    BY <1>5, <1>18, <2>1, ElementOfSeq DEF SoundLayers
  <2>3. PICK id \in Nat : id = nextId + j
    BY <1>12
  <2>4. PICK px : px = IF copy THEN l.px ELSE {}
    OBVIOUS
  <2>5. PICK e : e = [l EXCEPT !.id = id, !.px = px]
    OBVIOUS
  <2>6. px \in SUBSET Nat /\ px \subseteq origins
    BY <1>7, <1>8, <2>2, <2>4 DEF OriginsOf, Layers
  <2>7. e \in Layers /\ e.id = id /\ e.px = px
    BY <2>2, <2>5, <2>6 DEF Layers
  <2>8. id > nextId /\ id < m
    BY <1>12, <2>3
  <2>9. e \in SoundLayers(b, m, origins)
    BY <1>14, <2>6, <2>7, <2>8 DEF SoundLayers
  <2>10. layers[j] = e
    BY <1>17, <2>1, <2>3, <2>4, <2>5
  <2>11. QED
    BY <2>9, <2>10
<1>19. layers \in Seq(SoundLayers(b, m, origins)) /\ layers # <<>>
  <2>1. layers \in [1..Len(f.layers) -> SoundLayers(b, m, origins)]
    BY <1>17, <1>18
  <2>2. layers \in Seq(SoundLayers(b, m, origins)) /\ Len(layers) = Len(f.layers)
    BY <1>6, <2>1, FunctionIsSeq
  <2>3. QED
    BY <1>6, <2>2
<1>20. PICK new : new = [id |-> nextId, from |-> from, layers |-> layers]
  OBVIOUS
<1>21. new \in SoundFrames(b, m)
  <2>1. SoundLayers(b, m, origins) \subseteq Layers
    BY DEF SoundLayers
  <2>2. layers \in Seq(Layers)
    BY <1>19, <2>1, SeqMonotonic
  <2>3. /\ new \in [id : Nat, from : SUBSET Nat, layers : Seq(Layers)]
        /\ new.layers = layers /\ new.id = nextId /\ new.from = from
    BY <1>3, <1>9, <1>20, <2>2
  <2>4. OriginsOf(new) = origins
    BY <1>8, <2>3 DEF OriginsOf
  <2>5. QED
    BY <1>19, <2>3, <2>4 DEF SoundFrames
<1>22. PICK frames : frames = InsertAt(Frames, frameIndex + 1, new)
  OBVIOUS
<1>23. frames \in Seq(SoundFrames(b, m)) /\ frames # <<>>
  <2>1. Frames \in Seq(SoundFrames(b, m))
    BY <1>15 DEF SoundSprites, Frames
  <2>2. frameIndex + 1 \in 1..Len(Frames) + 1
    BY <1>2, <2>1, LenProperties DEF HasFrame
  <2>3. QED
    BY <1>21, <1>22, <2>1, <2>2, InsertedAt
<1>24. sprite' = [sprite EXCEPT !.frames = frames]
  BY <1>1, <1>4, <1>7, <1>16, <1>20, <1>22 DEF Frames
<1>25. sprite' \in SoundSprites(b, m)
  BY <1>12, <1>15, <1>23, <1>24, SpriteChanges
<1>26. undoStack' \in Seq(SoundSprites(b, m)) /\ redoStack' \in Seq(SoundSprites(b, m))
  BY <1>2, <1>15, PushIsSound
<1>27. m \in Nat /\ nextId' = m /\ \A job \in pixelJobs' : JobIsSound(b, m, job)
  BY <1>2, <1>4, <1>12, <1>15
<1>28. StudioSound(b)'
  BY <1>25, <1>26, <1>27 DEF StudioSound
<1>29. QED
  BY <1>14, <1>28 DEF StudioInv

\* Layers removed, moved or locked, and a frame removed.
LEMMA PanelsKeepStudio ==
  ASSUME NEW a, StudioSound(a), RemoveLayer \/ ReorderLayer \/ ToggleLock \/ RemoveFrame
  PROVE  StudioSound(a)'
<1>1. /\ nextId \in Nat /\ sprite \in SoundSprites(a, nextId)
      /\ undoStack \in Seq(SoundSprites(a, nextId))
      /\ redoStack \in Seq(SoundSprites(a, nextId))
      /\ \A job \in pixelJobs : JobIsSound(a, nextId, job)
  BY DEF StudioSound
<1>2. UNCHANGED <<nextId, pixelJobs>> /\ (PushUndo \/ UNCHANGED historyVars)
  BY DEF RemoveLayer, ReorderLayer, ToggleLock, RemoveFrame
<1>3. undoStack' \in Seq(SoundSprites(a, nextId)) /\ redoStack' \in Seq(SoundSprites(a, nextId))
  <2>1. CASE PushUndo
    BY <1>1, <2>1, PushIsSound
  <2>2. CASE UNCHANGED historyVars
    BY <1>1, <2>2 DEF historyVars
  <2>3. QED
    BY <1>2, <2>1, <2>2
<1>4. PICK S : S = SoundLayers(a, nextId, OriginsOf(ShownFrame))
  OBVIOUS
<1>5. ASSUME HasFrame
      PROVE  /\ ShownFrame.layers \in Seq(S) /\ ShownFrame.layers # <<>>
             /\ Len(ShownFrame.layers) \in Nat /\ Len(ShownFrame.layers) # 0
             /\ DOMAIN ShownFrame.layers = 1..Len(ShownFrame.layers)
  <2>1. ShownFrame.layers \in Seq(S) /\ ShownFrame.layers # <<>>
    BY <1>1, <1>4, <1>5, ShownIsSound
  <2>2. QED
    BY <2>1, EmptySeq, LenProperties
<1>6. ASSUME HasFrame, NEW layers \in Seq(S), Len(layers) # 0, SetLayers(frameIndex, layers)
      PROVE  sprite' \in SoundSprites(a, nextId)
  <2>1. layers # <<>>
    BY <1>6
  <2>2. QED
    BY <1>1, <1>4, <1>6, <2>1, SetLayersIsSound DEF ShownFrame
<1>7. ASSUME RemoveLayer
      PROVE  sprite' \in SoundSprites(a, nextId)
  <2>1. PICK j \in DOMAIN ShownFrame.layers : SetLayers(frameIndex, RemoveAt(ShownFrame.layers, j))
    BY <1>7 DEF RemoveLayer
  <2>2. HasFrame /\ Len(ShownFrame.layers) > 1
    BY <1>7 DEF RemoveLayer
  <2>3. RemoveAt(ShownFrame.layers, j) \in Seq(S) /\ Len(RemoveAt(ShownFrame.layers, j)) # 0
    <3>1. /\ RemoveAt(ShownFrame.layers, j) \in Seq(S)
          /\ Len(RemoveAt(ShownFrame.layers, j)) = Len(ShownFrame.layers) - 1
      BY <1>5, <2>2, RemovedAt
    <3>2. QED
      BY <1>5, <2>2, <3>1
  <2>4. QED
    BY <1>6, <2>1, <2>2, <2>3
<1>8. ASSUME ReorderLayer
      PROVE  sprite' \in SoundSprites(a, nextId)
  <2>1. PICK layers : layers = ShownFrame.layers
    OBVIOUS
  <2>2. HasFrame
    BY <1>8 DEF ReorderLayer
  <2>3. layers \in Seq(S) /\ Len(layers) # 0
    BY <1>5, <2>1, <2>2
  <2>4. \/ UNCHANGED sprite
        \/ \E j, k \in DOMAIN layers : SetLayers(frameIndex, [layers EXCEPT ![j] = layers[k], ![k] = layers[j]])
    BY <1>8, <2>1 DEF ReorderLayer
  <2>5. ASSUME NEW j \in DOMAIN layers, NEW k \in DOMAIN layers
        PROVE  /\ [layers EXCEPT ![j] = layers[k], ![k] = layers[j]] \in Seq(S)
               /\ Len([layers EXCEPT ![j] = layers[k], ![k] = layers[j]]) # 0
    <3>1. layers[j] \in S /\ layers[k] \in S /\ j \in 1..Len(layers) /\ k \in 1..Len(layers)
      BY <2>3, LenProperties, ElementOfSeq
    <3>2. PICK once : once = [layers EXCEPT ![j] = layers[k]]
      OBVIOUS
    <3>3. once \in Seq(S) /\ Len(once) = Len(layers)
      BY <2>3, <3>1, <3>2, ExceptSeq
    <3>4. PICK twice : twice = [once EXCEPT ![k] = layers[j]]
      OBVIOUS
    <3>5. twice \in Seq(S) /\ Len(twice) = Len(layers)
      BY <3>1, <3>3, <3>4, ExceptSeq
    <3>6. QED
      BY <2>3, <3>2, <3>4, <3>5
  <2>6. QED
    BY <1>1, <1>6, <2>2, <2>4, <2>5
<1>9. ASSUME ToggleLock
      PROVE  sprite' \in SoundSprites(a, nextId)
  <2>1. PICK layers : layers = ShownFrame.layers
    OBVIOUS
  <2>2. PICK j \in DOMAIN layers : SetLayers(frameIndex, [layers EXCEPT ![j].locked = ~@])
    BY <1>9, <2>1 DEF ToggleLock
  <2>3. HasFrame
    BY <1>9 DEF ToggleLock
  <2>4. layers \in Seq(S) /\ Len(layers) # 0 /\ j \in 1..Len(layers)
    BY <1>5, <2>1, <2>3
  <2>5. layers[j] \in S
    BY <2>4, ElementOfSeq
  <2>6. PICK l : l = [layers[j] EXCEPT !.locked = ~@]
    OBVIOUS
  <2>7. l \in S
    BY <1>4, <2>5, <2>6 DEF SoundLayers, Layers
  <2>8. PICK next : next = [layers EXCEPT ![j] = l]
    OBVIOUS
  <2>9. next \in Seq(S) /\ Len(next) = Len(layers)
    BY <2>4, <2>7, <2>8, ExceptSeq
  <2>10. SetLayers(frameIndex, next)
    BY <2>2, <2>6, <2>8
  <2>11. QED
    BY <1>6, <2>3, <2>4, <2>9, <2>10
<1>10. ASSUME RemoveFrame
       PROVE  sprite' \in SoundSprites(a, nextId)
  <2>1. Len(Frames) > 1
    BY <1>10 DEF RemoveFrame
  <2>2. PICK frames : frames = IF HasFrame THEN RemoveAt(Frames, frameIndex) ELSE Frames
    OBVIOUS
  <2>3. sprite' = [sprite EXCEPT !.frames = frames]
    BY <1>10, <2>2 DEF RemoveFrame, Frames
  <2>4. Frames \in Seq(SoundFrames(a, nextId)) /\ Len(Frames) \in Nat
    BY <1>1, LenProperties DEF SoundSprites, Frames
  <2>5. frames \in Seq(SoundFrames(a, nextId)) /\ Len(frames) # 0
    <3>1. CASE HasFrame
      <4>1. frames \in Seq(SoundFrames(a, nextId)) /\ Len(frames) = Len(Frames) - 1
        BY <2>2, <2>4, <3>1, RemovedAt DEF HasFrame
      <4>2. PICK n \in Nat : n = Len(Frames)
        BY <2>4
      <4>3. PICK m : m = Len(frames)
        OBVIOUS
      <4>4. n > 1 /\ m = n - 1
        BY <2>1, <4>1, <4>2, <4>3
      <4>5. m # 0
        BY <4>4
      <4>6. QED
        BY <4>1, <4>3, <4>5
    <3>2. CASE ~HasFrame
      BY <2>1, <2>2, <2>4, <3>2
    <3>3. QED
      BY <3>1, <3>2
  <2>6. frames # <<>>
    BY <2>5
  <2>7. QED
    BY <1>1, <2>3, <2>5, <2>6, SpriteChanges
<1>11. sprite' \in SoundSprites(a, nextId)
  BY <1>7, <1>8, <1>9, <1>10
<1>12. QED
  BY <1>1, <1>2, <1>3, <1>11 DEF StudioSound

\* An awaited edit lands: the layer of its id, wherever it is by now, may hold
\* its strokes.
LEMMA EditLandsSound ==
  ASSUME NEW a, StudioSound(a), EditLands
  PROVE  StudioSound(a)'
<1>1. /\ nextId \in Nat /\ sprite \in SoundSprites(a, nextId) /\ sprite.size \in Nat
      /\ undoStack \in Seq(SoundSprites(a, nextId))
      /\ redoStack \in Seq(SoundSprites(a, nextId))
      /\ \A job \in pixelJobs : JobIsSound(a, nextId, job)
  BY DEF StudioSound, SoundSprites
<1>2. PICK job \in pixelJobs :
        /\ IF job.whole THEN sprite' = job.doc
           ELSE SetLayers(job.index, UpdateLayer(Frames[job.index].layers, job))
        /\ pixelJobs' = pixelJobs \ {job}
  BY DEF EditLands
<1>3. UNCHANGED <<undoStack, redoStack, nextId>>
  BY DEF EditLands, historyVars
<1>4. JobIsSound(a, nextId, job)
  BY <1>1
<1>5. sprite' \in SoundSprites(a, nextId)
  <2>1. CASE job.whole
    BY <1>2, <1>4, <2>1 DEF JobIsSound
  <2>2. CASE ~job.whole
    <3>1. ASSUME job.index \in DOMAIN Frames
          PROVE  /\ UpdateLayer(Frames[job.index].layers, job)
                      \in Seq(SoundLayers(a, nextId, OriginsOf(Frames[job.index])))
                 /\ UpdateLayer(Frames[job.index].layers, job) # <<>>
      <4>1. PICK f : f = Frames[job.index]
        OBVIOUS
      <4>2. PICK S : S = SoundLayers(a, nextId, OriginsOf(f))
        OBVIOUS
      <4>3. f \in SoundFrames(a, nextId)
        BY <1>1, <3>1, <4>1, LenProperties, ElementOfSeq DEF SoundSprites, Frames
      <4>4. PICK layers : layers = f.layers
        OBVIOUS
      <4>5. layers \in Seq(S) /\ layers # <<>>
        BY <4>2, <4>3, <4>4 DEF SoundFrames
      <4>6. Len(layers) \in Nat /\ Len(layers) # 0 /\ DOMAIN layers = 1..Len(layers)
        BY <4>5, EmptySeq, LenProperties
      <4>7. PICK next : next = UpdateLayer(layers, job)
        OBVIOUS
      <4>8. ASSUME NEW j \in 1..Len(layers)
            PROVE  next[j] \in S
        <5>1. PICK l : l = layers[j]
          OBVIOUS
        <5>2. l \in S
          BY <4>5, <4>8, <5>1, ElementOfSeq
        <5>3. next[j] = IF l.id = job.layer THEN [l EXCEPT !.px = job.px, !.size = job.size] ELSE l
          BY <4>6, <4>7, <4>8, <5>1 DEF UpdateLayer
        <5>4. CASE l.id = job.layer
          <6>1. PICK px, size : px = job.px /\ size = job.size
            OBVIOUS
          <6>2. px \subseteq OriginsOf(f) /\ OriginsOf(f) \subseteq Nat
            BY <1>4, <2>2, <4>2, <4>3, <5>2, <5>4, <6>1 DEF JobIsSound, SoundLayers, SoundFrames, OriginsOf
          <6>3. PICK e : e = [l EXCEPT !.px = px, !.size = size]
            OBVIOUS
          <6>4. e \in Layers /\ e.id = l.id /\ e.px = px
            BY <1>4, <2>2, <4>2, <5>2, <6>1, <6>2, <6>3 DEF JobIsSound, SoundLayers, Layers
          <6>5. e \in S
            BY <4>2, <5>2, <6>2, <6>4 DEF SoundLayers
          <6>6. QED
            BY <5>3, <5>4, <6>1, <6>3, <6>5
        <5>5. CASE l.id # job.layer
          BY <5>2, <5>3, <5>5
        <5>6. QED
          BY <5>4, <5>5
      <4>9. next \in [1..Len(layers) -> S]
        BY <4>6, <4>7, <4>8 DEF UpdateLayer
      <4>10. next \in Seq(S) /\ Len(next) = Len(layers)
        BY <4>6, <4>9, FunctionIsSeq
      <4>11. next # <<>>
        BY <4>6, <4>10
      <4>12. QED
        BY <4>1, <4>2, <4>4, <4>7, <4>10, <4>11
    <3>2. QED
      BY <1>1, <1>2, <2>2, <3>1, SetLayersIsSound
  <2>3. QED
    BY <2>1, <2>2
<1>6. QED
  BY <1>1, <1>2, <1>3, <1>5 DEF StudioSound

\* Every step of the studio.
LEMMA StudioStep ==
  ASSUME StudioInv, [SpriteNext]_spriteVars
  PROVE  StudioInv'
<1>1. PICK a \in [Nat -> SUBSET Nat] : StudioSound(a)
  BY DEF StudioInv
<1>2. ASSUME StudioSound(a)'
      PROVE  StudioInv'
  BY <1>2 DEF StudioInv
<1>3. ASSUME AddLayer
      PROVE  StudioInv'
  BY <1>1, <1>3, AddLayerKeepsStudio
<1>4. ASSUME AddFrame
      PROVE  StudioInv'
  BY <1>1, <1>4, AddFrameKeepsStudio
<1>5. ASSUME \/ PointerDown \/ PointerMove \/ PointerUp \/ SelectionOp
      PROVE  StudioInv'
  BY <1>1, <1>2, <1>5, EditsKeepStudio
<1>6. ASSUME \/ Undo \/ Redo \/ ChooseFrame \/ TogglePlayback \/ PlayTick \/ Reopen
             \/ UNCHANGED spriteVars
      PROVE  StudioInv'
  BY <1>1, <1>2, <1>6, AsideKeepsStudio
<1>7. ASSUME \/ RemoveLayer \/ ReorderLayer \/ ToggleLock \/ RemoveFrame
      PROVE  StudioInv'
  BY <1>1, <1>2, <1>7, PanelsKeepStudio
<1>8. ASSUME EditLands
      PROVE  StudioInv'
  BY <1>1, <1>2, <1>8, EditLandsSound
<1>9. QED
  BY <1>3, <1>4, <1>5, <1>6, <1>7, <1>8
  DEF SpriteNext, Pointer, Toolbar, LayerPanel, FramePanel

\* For any number of frames, layers, snapshots and edits awaited at once: a
\* stroke stays on its frame and the copies made of it, and no document is
\* left without a frame or a frame without a layer.
THEOREM StrokesAreKept == SpriteSpec => []StrokesStayOnTheirFrame
<1>1. SpriteInit => StudioInv
  <2> SUFFICES ASSUME SpriteInit PROVE StudioInv
    OBVIOUS
  <2>1. PICK a \in [Nat -> SUBSET Nat] : a = [i \in Nat |-> {1}]
    <3>1. {1} \in SUBSET Nat
      OBVIOUS
    <3>2. [i \in Nat |-> {1}] \in [Nat -> SUBSET Nat]
      BY <3>1
    <3>3. QED
      BY <3>2
  <2>2. PICK l : l = [id |-> 2, px |-> {}, locked |-> FALSE, size |-> 1]
    OBVIOUS
  <2>3. l \in SoundLayers(a, 3, {1}) /\ l \in Layers
    BY <2>1, <2>2 DEF SoundLayers, Layers
  <2>4. PICK layers : layers = <<l>>
    OBVIOUS
  <2>5. /\ layers \in Seq(Layers) /\ layers # <<>>
        /\ layers \in Seq(SoundLayers(a, 3, {1}))
    BY <2>3, <2>4, OneElementSeq
  <2>6. PICK f : f = [id |-> 1, from |-> {}, layers |-> layers]
    OBVIOUS
  <2>7. f.layers = layers /\ OriginsOf(f) = {1}
    BY <2>6 DEF OriginsOf
  <2>8. f \in [id : Nat, from : SUBSET Nat, layers : Seq(Layers)]
    BY <2>5, <2>6
  <2>9. f \in SoundFrames(a, 3)
    BY <2>5, <2>7, <2>8 DEF SoundFrames
  <2>10. PICK frames : frames = <<f>>
    OBVIOUS
  <2>11. frames \in Seq(SoundFrames(a, 3)) /\ frames # <<>>
    BY <2>9, <2>10, OneElementSeq
  <2>12. sprite = [size |-> 1, frames |-> frames]
    BY <2>2, <2>4, <2>6, <2>10 DEF SpriteInit
  <2>13. sprite \in SoundSprites(a, 3)
    BY <2>11, <2>12 DEF SoundSprites
  <2>14. /\ nextId = 3 /\ undoStack = <<>> /\ redoStack = <<>> /\ pixelJobs = {}
    BY DEF SpriteInit
  <2>15. <<>> \in Seq(SoundSprites(a, 3))
    BY EmptySeq
  <2>16. QED
    BY <2>13, <2>14, <2>15 DEF StudioInv, StudioSound
<1>2. StudioInv /\ [SpriteNext]_spriteVars => StudioInv'
  BY StudioStep
<1>3. StudioInv => StrokesStayOnTheirFrame
  <2> SUFFICES ASSUME StudioInv PROVE StrokesStayOnTheirFrame
    OBVIOUS
  <2>1. PICK a \in [Nat -> SUBSET Nat] : sprite \in SoundSprites(a, nextId)
    BY DEF StudioInv, StudioSound
  <2>2. Frames \in Seq(SoundFrames(a, nextId)) /\ Frames # <<>>
    BY <2>1 DEF SoundSprites, Frames
  <2>3. ASSUME NEW i \in DOMAIN Frames
        PROVE  /\ Frames[i].layers # <<>>
               /\ \A j \in DOMAIN Frames[i].layers :
                    Frames[i].layers[j].px \subseteq {Frames[i].id} \cup Frames[i].from
    <3>1. PICK f : f = Frames[i]
      OBVIOUS
    <3>2. f \in SoundFrames(a, nextId)
      BY <2>2, <2>3, <3>1, LenProperties, ElementOfSeq
    <3>3. f.layers # <<>> /\ f.layers \in Seq(SoundLayers(a, nextId, OriginsOf(f)))
      BY <3>2 DEF SoundFrames
    <3>4. ASSUME NEW j \in DOMAIN f.layers
          PROVE  f.layers[j].px \subseteq OriginsOf(f)
      <4>1. f.layers[j] \in SoundLayers(a, nextId, OriginsOf(f))
        BY <3>3, <3>4, LenProperties, ElementOfSeq
      <4>2. QED
        BY <4>1 DEF SoundLayers
    <3>5. QED
      BY <3>1, <3>3, <3>4 DEF OriginsOf
  <2>4. QED
    BY <2>2, <2>3 DEF StrokesStayOnTheirFrame
<1>4. QED
  BY <1>1, <1>2, <1>3, PTL DEF SpriteSpec

-----------------------------------------------------------------------------
(* The walk of a fill.                                                     *)

\* The cells a ring of neighbours adds, and a set the walk does not leave.
Spread(tiles, c, S) == S \cup {d \in Cells : Matches(tiles, c, d) /\ \E b \in S : d \in Beside(b)}
Closed(tiles, c, S) == \A b \in S, d \in Cells : d \in Beside(b) /\ Matches(tiles, c, d) => d \in S

\* The cells of the grid are as many as the rings the walk may need.
LEMMA CellsCounted ==
  IsFiniteSet(Cells) /\ Cardinality(Cells) = GridCols * GridRows /\ GridCols * GridRows \in Nat
<1>1. GridCols \in Nat /\ GridRows \in Nat
  BY StageAssumption
<1>2. \A n \in Nat : IsFiniteSet(0..(n - 1)) /\ Cardinality(0..(n - 1)) = n
  <2> SUFFICES ASSUME NEW n \in Nat
               PROVE  IsFiniteSet(0..(n - 1)) /\ Cardinality(0..(n - 1)) = n
    OBVIOUS
  <2>1. /\ IsFiniteSet(0..(n - 1))
        /\ Cardinality(0..(n - 1)) = IF 0 > n - 1 THEN 0 ELSE (n - 1) - 0 + 1
    BY FS_Interval
  <2>2. QED
    BY <2>1
<1>3. IsFiniteSet(Cells) /\ Cardinality(Cells) = GridCols * GridRows
  <2>1. PICK a, b : a = 0..(GridCols - 1) /\ b = 0..(GridRows - 1)
    OBVIOUS
  <2>2. IsFiniteSet(a) /\ Cardinality(a) = GridCols /\ IsFiniteSet(b) /\ Cardinality(b) = GridRows
    BY <1>1, <1>2, <2>1
  <2>3. IsFiniteSet(a \X b) /\ Cardinality(a \X b) = Cardinality(a) * Cardinality(b)
    BY <2>2, FS_Product
  <2>4. QED
    BY <2>1, <2>2, <2>3 DEF Cells
<1>4. GridCols * GridRows \in Nat
  BY <1>1
<1>5. QED
  BY <1>3, <1>4

\* The walk is a function of the rings: each is the one before, spread.
LEMMA Rings ==
  ASSUME NEW tiles, NEW c \in Cells
  PROVE  \E r \in [Nat -> SUBSET Cells] :
           /\ r[0] = {c} /\ \A n \in Nat : r[n + 1] = Spread(tiles, c, r[n])
           /\ Flood(tiles, c) = r[GridCols * GridRows]
<1> DEFINE ring == CHOOSE g : g = [n \in Nat |->
                     IF n = 0 THEN {c}
                     ELSE g[n - 1] \cup {d \in Cells : Matches(tiles, c, d) /\ \E b \in g[n - 1] : d \in Beside(b)}]
<1>1. PICK step : step = [S \in SUBSET Cells |-> Spread(tiles, c, S)]
  OBVIOUS
<1>2. step \in [SUBSET Cells -> SUBSET Cells]
  <2>1. \A S \in SUBSET Cells : Spread(tiles, c, S) \in SUBSET Cells
    BY DEF Spread
  <2>2. QED
    BY <1>1, <2>1
<1>3. PICK r \in [Nat -> SUBSET Cells] : r[0] = {c} /\ \A n \in Nat \ {0} : r[n] = step[r[n - 1]]
  <2>1. PICK S, s0 : S = SUBSET Cells /\ s0 = {c}
    OBVIOUS
  <2>2. s0 \in S /\ step \in [S -> S]
    BY <1>2, <2>1
  <2>3. \E r \in [Nat -> S] : r[0] = s0 /\ \A n \in Nat \ {0} : r[n] = step[r[n - 1]]
    BY <2>2, Repeated
  <2>4. QED
    BY <2>1, <2>3
<1>4. ASSUME NEW n \in Nat, n # 0
      PROVE  r[n] = r[n - 1] \cup {d \in Cells : Matches(tiles, c, d) /\ \E b \in r[n - 1] : d \in Beside(b)}
  <2>1. n - 1 \in Nat
    BY <1>4
  <2>2. r[n - 1] \in SUBSET Cells
    BY <1>3, <2>1
  <2>3. r[n] = Spread(tiles, c, r[n - 1])
    BY <1>1, <1>3, <1>4, <2>2
  <2>4. QED
    BY <2>3 DEF Spread
<1>5. r = [n \in Nat |->
             IF n = 0 THEN {c}
             ELSE r[n - 1] \cup {d \in Cells : Matches(tiles, c, d) /\ \E b \in r[n - 1] : d \in Beside(b)}]
  BY <1>3, <1>4
<1>6. ring = [n \in Nat |->
             IF n = 0 THEN {c}
             ELSE ring[n - 1] \cup {d \in Cells : Matches(tiles, c, d) /\ \E b \in ring[n - 1] : d \in Beside(b)}]
  BY <1>5
<1>7. Flood(tiles, c) = ring[GridCols * GridRows]
  BY DEF Flood
<1> HIDE DEF ring
<1>8. ring[0] = {c}
  BY <1>6
<1>9. ASSUME NEW n \in Nat
      PROVE  ring[n + 1] = Spread(tiles, c, ring[n])
  <2>1. n + 1 \in Nat /\ n + 1 # 0 /\ (n + 1) - 1 = n
    OBVIOUS
  <2>2. ring[n + 1] = ring[(n + 1) - 1] \cup {d \in Cells : Matches(tiles, c, d) /\ \E b \in ring[(n + 1) - 1] : d \in Beside(b)}
    BY <1>6, <2>1
  <2>3. QED
    BY <2>1, <2>2 DEF Spread
<1>10. ring \in [Nat -> SUBSET Cells]
  <2>1. PICK T : T = {n \in Nat : ring[n] \subseteq Cells}
    OBVIOUS
  <2>2. 0 \in T
    BY <1>8, <2>1
  <2>3. \A n \in Nat : n \in T => n + 1 \in T
    BY <1>9, <2>1 DEF Spread
  <2>4. \A n \in Nat : ring[n] \in SUBSET Cells
    BY <2>1, <2>2, <2>3, OverNaturals
  <2>5. PICK q : q = [n \in Nat |->
             IF n = 0 THEN {c}
             ELSE ring[n - 1] \cup {d \in Cells : Matches(tiles, c, d) /\ \E b \in ring[n - 1] : d \in Beside(b)}]
    OBVIOUS
  <2>6. ring = q
    BY <1>6, <2>5
  <2>7. q \in [Nat -> SUBSET Cells]
    BY <2>4, <2>5, <2>6
  <2>8. QED
    BY <2>6, <2>7
<1>11. QED
  BY <1>7, <1>8, <1>9, <1>10

\* The rings end within the grid: a ring that is not closed has a new cell.
LEMMA RingsClose ==
  ASSUME NEW tiles, NEW c \in Cells, NEW r \in [Nat -> SUBSET Cells],
         r[0] = {c}, \A n \in Nat : r[n + 1] = Spread(tiles, c, r[n])
  PROVE  Closed(tiles, c, r[GridCols * GridRows])
<1> DEFINE T == {n \in Nat : Closed(tiles, c, r[n]) \/ Cardinality(r[n]) >= n + 1}
<1>1. \A n \in Nat : IsFiniteSet(r[n]) /\ Cardinality(r[n]) \in Nat /\ Cardinality(r[n]) <= GridCols * GridRows
  <2> SUFFICES ASSUME NEW n \in Nat
               PROVE  IsFiniteSet(r[n]) /\ Cardinality(r[n]) \in Nat /\ Cardinality(r[n]) <= GridCols * GridRows
    OBVIOUS
  <2>1. r[n] \in SUBSET Cells
    OBVIOUS
  <2>2. IsFiniteSet(r[n]) /\ Cardinality(r[n]) <= Cardinality(Cells)
    BY <2>1, CellsCounted, FS_Subset
  <2>3. QED
    BY <2>2, CellsCounted, FS_CardinalityType
<1>2. 0 \in T
  <2>1. Cardinality(r[0]) = 1
    BY FS_Singleton
  <2>2. QED
    BY <2>1
<1>3. ASSUME NEW n \in Nat, n \in T PROVE n + 1 \in T
  <2>1. CASE Closed(tiles, c, r[n])
    <3>1. r[n + 1] = r[n]
      BY <2>1 DEF Closed, Spread
    <3>2. QED
      BY <2>1, <3>1
  <2>2. CASE ~Closed(tiles, c, r[n])
    <3>1. PICK b \in r[n], d \in Cells : d \in Beside(b) /\ Matches(tiles, c, d) /\ d \notin r[n]
      BY <2>2 DEF Closed
    <3>2. r[n] \cup {d} \in SUBSET r[n + 1]
      BY <3>1 DEF Spread
    <3>3. Cardinality(r[n] \cup {d}) = Cardinality(r[n]) + 1
      BY <1>1, <3>1, FS_AddElement
    <3>4. Cardinality(r[n] \cup {d}) <= Cardinality(r[n + 1])
      <4>1. IsFiniteSet(r[n + 1])
        BY <1>1
      <4>2. QED
        BY <3>2, <4>1, FS_Subset
    <3>5. Cardinality(r[n]) >= n + 1
      BY <1>3, <2>2
    <3>6. Cardinality(r[n]) \in Nat /\ Cardinality(r[n + 1]) \in Nat
      BY <1>1
    <3>7. Cardinality(r[n + 1]) >= (n + 1) + 1
      BY <3>3, <3>4, <3>5, <3>6
    <3>8. QED
      BY <3>7
  <2>3. QED
    BY <2>1, <2>2
<1>4. Nat \subseteq T
  <2> HIDE DEF T
  <2>1. QED
    BY <1>2, <1>3, OverNaturals
<1>5. PICK n \in Nat : n = GridCols * GridRows
  BY CellsCounted
<1>6. Closed(tiles, c, r[n]) \/ Cardinality(r[n]) >= n + 1
  BY <1>4
<1>7. Cardinality(r[n]) \in Nat /\ Cardinality(r[n]) <= n
  BY <1>1, <1>5
<1>8. QED
  BY <1>5, <1>6, <1>7

\* The walk returns the least region: the cell, every cell it matches that
\* is beside one of it, and nothing else.
LEMMA FloodIsTheRegion ==
  ASSUME NEW tiles, NEW c \in Cells
  PROVE  LET region == Flood(tiles, c) IN
         /\ c \in region /\ region \subseteq Cells
         /\ \A d \in region : d = c \/ Matches(tiles, c, d)
         /\ Closed(tiles, c, region)
         /\ \A S : c \in S /\ Closed(tiles, c, S) => region \subseteq S
<1>1. PICK r \in [Nat -> SUBSET Cells] :
        /\ r[0] = {c} /\ \A n \in Nat : r[n + 1] = Spread(tiles, c, r[n])
        /\ Flood(tiles, c) = r[GridCols * GridRows]
  BY Rings
<1>2. PICK n \in Nat : n = GridCols * GridRows
  BY CellsCounted
<1>3. \A k \in Nat : c \in r[k] /\ \A d \in r[k] : d = c \/ Matches(tiles, c, d)
  <2>1. PICK T : T = {k \in Nat : c \in r[k] /\ \A d \in r[k] : d = c \/ Matches(tiles, c, d)}
    OBVIOUS
  <2>2. 0 \in T
    BY <1>1, <2>1
  <2>3. \A k \in Nat : k \in T => k + 1 \in T
    BY <1>1, <2>1 DEF Spread
  <2>4. QED
    BY <2>1, <2>2, <2>3, OverNaturals
<1>4. ASSUME NEW S, c \in S, Closed(tiles, c, S)
      PROVE  \A k \in Nat : r[k] \subseteq S
  <2>1. PICK T : T = {k \in Nat : r[k] \subseteq S}
    OBVIOUS
  <2>2. 0 \in T
    BY <1>1, <1>4, <2>1
  <2>3. \A k \in Nat : k \in T => k + 1 \in T
    BY <1>1, <1>4, <2>1 DEF Spread, Closed
  <2>4. QED
    BY <2>1, <2>2, <2>3, OverNaturals
<1>5. Closed(tiles, c, r[GridCols * GridRows])
  BY <1>1, RingsClose
<1>6. r[n] \subseteq Cells
  OBVIOUS
<1>7. QED
  BY <1>1, <1>2, <1>3, <1>4, <1>5, <1>6

-----------------------------------------------------------------------------
(* The history of the stage and the gesture under way.                     *)

\* A scene whose entities have a place, a width and tiles.
SoundStage(s) == \A e \in DOMAIN s : {"at", "size", "tiles"} \subseteq DOMAIN s[e]

\* Every scene that is shown, undone or redone to is sound.
StagesMet(stages) ==
  /\ stage \in stages /\ stagePast \in Seq(stages) /\ stageFuture \in Seq(stages)
  /\ \A s \in stages : SoundStage(s)

\* A drag shows rectangles of all of its entities or of none, and nothing
\* else shows any.
Dragging == gesture.kind \in {"move", "resize"}
Held == IF gesture.kind = "move" THEN DOMAIN gesture.origin ELSE {gesture.id}
DragShown ==
  /\ "kind" \in DOMAIN gesture
  /\ Dragging => gesture.id \in DOMAIN gesture.origin /\ (live = <<>> \/ DOMAIN live = Held)
  /\ ~Dragging => live = <<>>

CanvasInv == DragShown /\ \E stages : StagesMet(stages)

\* A commit of a sound scene, or none, keeps the history sound.
LEMMA CommitMeets ==
  ASSUME \E stages : StagesMet(stages),
         NEW next, SoundStage(next), CommitStage(next)
  PROVE  (\E stages : StagesMet(stages))' /\ Len(stagePast') = Len(stagePast) + 1
<1>1. PICK S : StagesMet(S)
  OBVIOUS
<1>2. PICK T : T = S \cup {next}
  OBVIOUS
<1>3. stage \in S /\ stagePast \in Seq(S) /\ \A s \in S : SoundStage(s)
  BY <1>1 DEF StagesMet
<1>4. Append(stagePast, stage) \in Seq(S) /\ Len(Append(stagePast, stage)) = Len(stagePast) + 1
  BY <1>3, AppendProperties
<1>5. \A q \in Seq(S) : q \in Seq(T)
  <2>1. S \subseteq T
    BY <1>2
  <2>2. QED
    BY <2>1
<1>6. stage' = next /\ stagePast' = Append(stagePast, stage) /\ stageFuture' = <<>>
  BY DEF CommitStage
<1>7. next \in T /\ \A s \in T : SoundStage(s)
  BY <1>2, <1>3
<1>8. stage' \in T /\ stagePast' \in Seq(T) /\ stageFuture' \in Seq(T)
  BY <1>4, <1>5, <1>6, <1>7, EmptySeq
<1>9. StagesMet(T)'
  BY <1>7, <1>8 DEF StagesMet, SoundStage
<1>10. QED
  BY <1>4, <1>6, <1>9

LEMMA SameMeets ==
  ASSUME \E stages : StagesMet(stages), UNCHANGED stageHistory
  PROVE  (\E stages : StagesMet(stages))'
<1>1. PICK S : StagesMet(S)
  OBVIOUS
<1>2. StagesMet(S)'
  BY <1>1 DEF StagesMet, stageHistory, SoundStage
<1>3. QED
  BY <1>2

\* Undo and redo go to scenes that were met.
LEMMA HistoryMeets ==
  ASSUME \E stages : StagesMet(stages), UndoKey \/ RedoKey
  PROVE  (\E stages : StagesMet(stages))'
<1>1. PICK S : StagesMet(S)
  OBVIOUS
<1>2. stage \in S /\ stagePast \in Seq(S) /\ stageFuture \in Seq(S) /\ \A s \in S : SoundStage(s)
  BY <1>1 DEF StagesMet
<1>3. CASE UndoKey
  <2>1. Front(stagePast) \in Seq(S) /\ Last(stagePast) \in S
    BY <1>2, <1>3, FrontAndLast DEF UndoKey
  <2>2. <<stage>> \o stageFuture \in Seq(S)
    BY <1>2, ConcatProperties
  <2>3. StagesMet(S)'
    BY <1>2, <1>3, <2>1, <2>2 DEF UndoKey, StagesMet, SoundStage
  <2>4. QED
    BY <2>3
<1>4. CASE RedoKey
  <2>1. Head(stageFuture) \in S /\ Tail(stageFuture) \in Seq(S)
    BY <1>2, <1>4, HeadTailProperties DEF RedoKey
  <2>2. Append(stagePast, stage) \in Seq(S)
    BY <1>2, AppendProperties
  <2>3. StagesMet(S)'
    BY <1>2, <1>4, <2>1, <2>2 DEF RedoKey, StagesMet, SoundStage
  <2>4. QED
    BY <2>3
<1>5. QED
  BY <1>3, <1>4

\* What an edit leaves of the stage is sound.
LEMMA EditedIsSound ==
  ASSUME \E stages : StagesMet(stages)
  PROVE  /\ SoundStage(stage)
         /\ \A gone : SoundStage(Without(gone))
         /\ \A originals \in SUBSET DOMAIN stage : SoundStage(WithCopies(originals))
         /\ \A e \in DOMAIN stage : \A tiles : SoundStage([stage EXCEPT ![e].tiles = tiles])
<1>1. SoundStage(stage)
  BY DEF StagesMet
<1>2. \A gone : SoundStage(Without(gone))
  BY <1>1 DEF SoundStage, Without
<1>3. ASSUME NEW originals \in SUBSET DOMAIN stage
      PROVE  SoundStage(WithCopies(originals))
  <2>1. PICK ids : ids = CopyIds(originals)
    OBVIOUS
  <2>2. PICK w : w = [e \in DOMAIN stage \cup {ids[m] : m \in originals} |->
                        IF e \in DOMAIN stage THEN stage[e] ELSE stage[CHOOSE m \in originals : ids[m] = e]]
    OBVIOUS
  <2>3. w = WithCopies(originals)
    BY <2>1, <2>2 DEF WithCopies
  <2>4. ASSUME NEW e \in DOMAIN w PROVE {"at", "size", "tiles"} \subseteq DOMAIN w[e]
    <3>1. CASE e \in DOMAIN stage
      BY <1>1, <2>2, <3>1 DEF SoundStage
    <3>2. CASE e \notin DOMAIN stage
      <4>1. \E m \in originals : ids[m] = e
        BY <2>2, <3>2
      <4>2. PICK o \in originals : o = CHOOSE m \in originals : ids[m] = e
        BY <4>1
      <4>3. w[e] = stage[o]
        BY <2>2, <3>2, <4>2
      <4>4. QED
        BY <1>1, <4>3 DEF SoundStage
    <3>3. QED
      BY <3>1, <3>2
  <2>5. QED
    BY <2>3, <2>4 DEF SoundStage
<1>4. ASSUME NEW e \in DOMAIN stage, NEW tiles
      PROVE  SoundStage([stage EXCEPT ![e].tiles = tiles])
  BY <1>1 DEF SoundStage
<1>5. QED
  BY <1>1, <1>2, <1>3, <1>4

\* A change of the tiles of an entity that may be gone.
LEMMA PaintMeets ==
  ASSUME \E stages : StagesMet(stages), NEW e, NEW tiles, UpdateProps(e, tiles)
  PROVE  (\E stages : StagesMet(stages))'
<1>1. CASE e \in DOMAIN stage
  <2>1. PICK next : next = [stage EXCEPT ![e].tiles = tiles]
    OBVIOUS
  <2>2. SoundStage(next) /\ CommitStage(next)
    BY <1>1, <2>1, EditedIsSound DEF UpdateProps
  <2>3. QED
    BY <2>2, CommitMeets
<1>2. CASE e \notin DOMAIN stage
  BY <1>2, SameMeets DEF UpdateProps
<1>3. QED
  BY <1>1, <1>2

\* Every step of the canvas keeps the history sound.
LEMMA StagesStayMet ==
  ASSUME \E stages : StagesMet(stages), [CanvasNext]_canvasVars
  PROVE  (\E stages : StagesMet(stages))'
<1>1. CASE UNCHANGED stageHistory
  BY <1>1, SameMeets
<1>2. CASE UndoKey \/ RedoKey
  BY <1>2, HistoryMeets
<1>3. ASSUME NEW next, SoundStage(next), CommitStage(next)
      PROVE  (\E stages : StagesMet(stages))'
  BY <1>3, CommitMeets
<1>4. CASE DeleteKey
  BY <1>1, <1>3, <1>4, EditedIsSound DEF DeleteKey
<1>5. CASE EscapeKey
  BY <1>1, <1>5 DEF EscapeKey
<1>6. CASE PointerOnStage
  <2>1. ASSUME NEW e \in DOMAIN stage, NEW c \in Cells, Fill(e, c)
        PROVE  (\E stages : StagesMet(stages))'
    BY <2>1, PaintMeets DEF Fill
  <2>2. ASSUME NEW g, NEW c \in Cells, PaintCell(g, c)
        PROVE  (\E stages : StagesMet(stages))'
    BY <2>2, PaintMeets DEF PaintCell
  <2>3. ASSUME NEW e \in DOMAIN stage, NEW c \in Cells, StartStroke(e, c)
        PROVE  (\E stages : StagesMet(stages))'
    BY <1>1, <2>2, <2>3 DEF StartStroke
  <2>4. ASSUME NEW c \in Cells, StrokeOn(c)
        PROVE  (\E stages : StagesMet(stages))'
    BY <2>2, <2>4 DEF StrokeOn
  <2>5. CASE Release
    <3>1. SoundStage(DroppedStage)
      <4>1. PICK moved : moved = IF gesture.kind = "move" THEN DOMAIN gesture.origin ELSE {gesture.id}
        OBVIOUS
      <4>2. PICK s : s = [m \in DOMAIN stage |->
                            IF m \notin moved THEN stage[m]
                            ELSE IF gesture.kind = "move" THEN [stage[m] EXCEPT !.at = live[m].at]
                            ELSE [stage[m] EXCEPT !.size = live[m].size]]
        OBVIOUS
      <4>3. SoundStage(s)
        BY <4>2, EditedIsSound DEF SoundStage
      <4>4. QED
        BY <4>1, <4>2, <4>3 DEF DroppedStage
    <3>2. QED
      BY <1>1, <1>3, <2>5, <3>1 DEF Release
  <2>6. ASSUME NEW e \in DOMAIN stage, ControlClick(e) \/ \E kind \in {"move", "resize"} : StartDrag(e, kind)
        PROVE  (\E stages : StagesMet(stages))'
    BY <1>1, <2>6 DEF ControlClick, StartDrag
  <2>7. CASE (\E d \in Shifts : DragTo(d)) \/ EndStroke \/ StartSweep \/ \E sweep \in Sweeps : EndSweep(sweep[1], sweep[2])
    BY <1>1, <2>7 DEF DragTo, EndStroke, StartSweep, EndSweep
  <2>8. QED
    BY <1>6, <2>1, <2>3, <2>4, <2>5, <2>6, <2>7 DEF PointerOnStage
<1>7. CASE GroupToolbar
  <2>1. CASE GroupDuplicate
    BY <1>3, <2>1, EditedIsSound DEF GroupDuplicate
  <2>2. CASE GroupDelete
    BY <1>1, <1>3, <2>2, EditedIsSound DEF GroupDelete
  <2>3. ASSUME NEW mode \in {"left", "center", "right"}, Align(mode)
        PROVE  (\E stages : StagesMet(stages))'
    <3> DEFINE members == multiIds \cap DOMAIN stage
               low == Min({OnStage(m).at : m \in members})
               high == Max({OnStage(m).at + OnStage(m).size : m \in members})
               place(m) == CASE mode = "left" -> low
                             [] mode = "right" -> high - OnStage(m).size
                             [] OTHER -> (low + high - OnStage(m).size + 1) \div 2
               next == [m \in DOMAIN stage |->
                          IF m \in members THEN [stage[m] EXCEPT !.at = place(m)] ELSE stage[m]]
    <3>1. CommitStage(next)
      BY <2>3 DEF Align
    <3>2. SoundStage(next)
      <4> HIDE DEF place
      <4>1. QED
        BY EditedIsSound DEF SoundStage
    <3>3. QED
      BY <1>3, <3>1, <3>2
  <2>4. QED
    BY <1>7, <2>1, <2>2, <2>3 DEF GroupToolbar
<1>8. CASE EntityChip
  BY <1>3, <1>8, EditedIsSound DEF EntityChip
<1>9. CASE \E t \in TileTools \cup {"select"}, v \in TileValues : ChooseTool(t, v)
  BY <1>1, <1>9 DEF ChooseTool
<1>10. CASE UNCHANGED canvasVars
  BY <1>1, <1>10 DEF canvasVars
<1>11. QED
  BY <1>2, <1>4, <1>5, <1>6, <1>7, <1>8, <1>9, <1>10 DEF CanvasNext

\* Every step of the canvas keeps what a drag shows.
LEMMA DragStaysShown ==
  ASSUME DragShown, [CanvasNext]_canvasVars
  PROVE  DragShown'
<1>1. CASE UNCHANGED <<gesture, live>>
  BY <1>1 DEF DragShown, Dragging, Held
<1>2. CASE gesture = NoGesture
  <2>1. live = <<>>
    BY <1>2 DEF DragShown, Dragging, NoGesture
  <2>2. ASSUME NEW e \in DOMAIN stage, NEW c \in Cells, StartStroke(e, c)
        PROVE  DragShown'
    <3>1. PICK g : g = Stroke(e)
      OBVIOUS
    <3>2. g.kind = "stroke" /\ "kind" \in DOMAIN g
      BY <3>1 DEF Stroke
    <3>3. gesture' = g \/ \E tiles : gesture' = [g EXCEPT !.tiles = tiles]
      BY <2>2, <3>1 DEF StartStroke, PaintCell
    <3>4. gesture'.kind = "stroke" /\ "kind" \in DOMAIN gesture'
      BY <3>2, <3>3
    <3>5. live' = live
      BY <2>2 DEF StartStroke
    <3>6. QED
      BY <2>1, <3>4, <3>5 DEF DragShown, Dragging
  <2>3. ASSUME NEW e \in DOMAIN stage, NEW kind \in {"move", "resize"}, StartDrag(e, kind)
        PROVE  DragShown'
    <3>1. PICK group : /\ e \in group
                       /\ gesture' = [kind |-> kind, id |-> e, origin |-> [m \in group |-> OnStage(m)]]
      BY <2>3 DEF StartDrag
    <3>2. live' = live
      BY <2>3 DEF StartDrag
    <3>3. "kind" \in DOMAIN gesture' /\ gesture'.id \in DOMAIN gesture'.origin
      BY <3>1
    <3>4. QED
      BY <2>1, <3>2, <3>3 DEF DragShown, Dragging
  <2>4. CASE StartSweep
    <3>1. gesture'.kind = "sweep" /\ "kind" \in DOMAIN gesture' /\ live' = live
      BY <2>4 DEF StartSweep
    <3>2. QED
      BY <2>1, <3>1 DEF DragShown, Dragging
  <2>5. ASSUME NEW mode \in {"left", "center", "right"}, Align(mode)
        PROVE  DragShown'
    BY <1>1, <2>1, <2>5 DEF Align
  <2>6. CASE Release \/ EndStroke \/ \E sweep \in Sweeps : EndSweep(sweep[1], sweep[2])
    BY <1>2, <2>6 DEF Release, EndStroke, EndSweep, NoGesture
  <2>7. CASE (\E c \in Cells : StrokeOn(c)) \/ \E d \in Shifts : DragTo(d)
    BY <1>2, <2>7 DEF StrokeOn, DragTo, NoGesture
  <2>8. QED
    BY <1>1, <2>2, <2>3, <2>4, <2>5, <2>6, <2>7
       DEF CanvasNext, PointerOnStage, GroupToolbar, ControlClick, Fill, GroupDuplicate, GroupDelete,
           EntityChip, ChooseTool, UndoKey, RedoKey, DeleteKey, EscapeKey, canvasVars
<1>3. CASE gesture # NoGesture
  <2>1. ASSUME NEW c \in Cells, StrokeOn(c)
        PROVE  DragShown'
    <3>1. gesture.kind = "stroke" /\ live' = live /\ \E tiles : gesture' = [gesture EXCEPT !.tiles = tiles]
      BY <2>1 DEF StrokeOn, PaintCell
    <3>2. gesture'.kind = "stroke" /\ "kind" \in DOMAIN gesture'
      BY <3>1 DEF DragShown
    <3>3. QED
      BY <3>1, <3>2 DEF DragShown, Dragging
  <2>2. ASSUME NEW d \in Shifts, DragTo(d)
        PROVE  DragShown'
    <3>1. Dragging /\ gesture' = gesture
      BY <2>2 DEF DragTo, Dragging
    <3>2. gesture.id \in DOMAIN gesture.origin /\ (live = <<>> \/ DOMAIN live = Held)
      BY <3>1 DEF DragShown
    <3>3. DOMAIN live' = DOMAIN live \cup Held
      <4>1. CASE gesture.kind = "resize"
        <5>1. PICK v : v = [gesture.origin[gesture.id] EXCEPT !.size = Max({1, @ + d})]
          OBVIOUS
        <5>2. DOMAIN live' = DOMAIN live \cup {gesture.id}
          BY <2>2, <4>1 DEF DragTo
        <5>3. QED
          BY <4>1, <5>2 DEF Held
      <4>2. CASE gesture.kind = "move"
        BY <2>2, <4>2 DEF DragTo, Held
      <4>3. QED
        BY <3>1, <4>1, <4>2 DEF Dragging
    <3>4. DOMAIN live' = Held
      BY <3>2, <3>3
    <3>5. Held' = Held /\ Dragging'
      BY <3>1 DEF Held, Dragging
    <3>6. QED
      BY <3>1, <3>2, <3>4, <3>5 DEF DragShown
  <2>3. CASE Release
    <3>1. live' = <<>>
      <4>1. Dragging
        BY <2>3 DEF Release, Dragging
      <4>2. gesture.id \in DOMAIN gesture.origin /\ (live = <<>> \/ DOMAIN live = Held)
        BY <4>1 DEF DragShown
      <4>3. CASE gesture.id \notin DOMAIN live
        <5>1. live' = live
          BY <2>3, <4>3 DEF Release
        <5>2. gesture.id \in Held
          BY <4>2 DEF Held
        <5>3. QED
          BY <4>2, <4>3, <5>1, <5>2
      <4>4. CASE gesture.id \in DOMAIN live
        <5>1. live' = [m \in DOMAIN live \ DOMAIN gesture.origin |-> live[m]]
          BY <2>3, <4>4 DEF Release
        <5>2. DOMAIN live \ DOMAIN gesture.origin = {}
          BY <4>2 DEF Held
        <5>3. QED
          BY <5>1, <5>2
      <4>5. QED
        BY <4>3, <4>4
    <3>2. gesture' = NoGesture
      BY <2>3 DEF Release
    <3>3. QED
      BY <3>1, <3>2 DEF DragShown, Dragging, NoGesture
  <2>4. CASE EndStroke \/ \E sweep \in Sweeps : EndSweep(sweep[1], sweep[2])
    <3>1. gesture' = NoGesture /\ live' = live /\ gesture.kind \in {"stroke", "sweep"}
      BY <2>4 DEF EndStroke, EndSweep
    <3>2. QED
      BY <3>1 DEF DragShown, Dragging, NoGesture
  <2>5. QED
    BY <1>1, <1>3, <2>1, <2>2, <2>3, <2>4
       DEF CanvasNext, PointerOnStage, GroupToolbar, ControlClick, Fill, StartStroke, StartDrag, StartSweep,
           Align, Press, GroupDuplicate, GroupDelete, EntityChip, ChooseTool,
           UndoKey, RedoKey, DeleteKey, EscapeKey, canvasVars
<1>4. QED
  BY <1>2, <1>3

\* A fill writes the least region of its cell.
LEMMA FillIsExact ==
  ASSUME \E stages : StagesMet(stages),
         NEW e \in DOMAIN stage, IsTilemap(e), NEW c \in Cells, Fill(e, c)
  PROVE  LET before == stage[e].tiles
             changed == {d \in Cells : stage'[e].tiles[d] # before[d]}
             closed(S) == \A b \in S, d \in Cells :
                            d \in Beside(b) /\ Matches(before, c, d) => d \in S IN
         /\ c \in changed /\ closed(changed)
         /\ \A S \in SUBSET changed : c \in S /\ closed(S) => S = changed
<1>1. PICK before : before = stage[e].tiles
  OBVIOUS
<1>2. PICK region : region = Flood(before, c)
  OBVIOUS
<1>3. /\ c \in region /\ region \subseteq Cells
      /\ \A d \in region : d = c \/ Matches(before, c, d)
      /\ Closed(before, c, region)
      /\ \A S : c \in S /\ Closed(before, c, S) => region \subseteq S
  BY <1>2, FloodIsTheRegion
<1>4. PICK after : after = [d \in Cells |-> IF d \notin region THEN before[d]
                                            ELSE IF tool = "fill" THEN activeTile ELSE 0]
  OBVIOUS
<1>5. UpdateProps(e, after)
  BY <1>1, <1>2, <1>4 DEF Fill
<1>6. stage' = [stage EXCEPT ![e].tiles = after]
  BY <1>5 DEF UpdateProps, CommitStage
<1>7. "tiles" \in DOMAIN stage[e]
  BY EditedIsSound DEF SoundStage
<1>8. stage'[e].tiles = after
  BY <1>6, <1>7
<1>9. ASSUME NEW d \in region
      PROVE  before[d] # after[d]
  <2>1. CASE tool = "fill"
    <3>1. before[c] # activeTile
      BY <1>1, <2>1 DEF Fill
    <3>2. before[d] = before[c]
      BY <1>3, <2>1 DEF Matches
    <3>3. QED
      BY <1>3, <1>4, <2>1, <3>1, <3>2
  <2>2. CASE tool # "fill"
    <3>1. before[c] # 0
      BY <1>1, <2>2 DEF Fill
    <3>2. before[d] # 0
      BY <1>3, <2>2, <3>1 DEF Matches
    <3>3. QED
      BY <1>3, <1>4, <2>2, <3>2
  <2>3. QED
    BY <2>1, <2>2
<1>10. {d \in Cells : stage'[e].tiles[d] # before[d]} = region
  BY <1>3, <1>4, <1>8, <1>9
<1>11. /\ c \in region
       /\ \A b \in region, d \in Cells : d \in Beside(b) /\ Matches(before, c, d) => d \in region
       /\ \A S \in SUBSET region :
            c \in S /\ (\A b \in S, d \in Cells : d \in Beside(b) /\ Matches(before, c, d) => d \in S) => S = region
  BY <1>3 DEF Closed
<1>12. QED
  BY <1>1, <1>10, <1>11

\* A release writes the rectangles that were shown.
LEMMA ReleaseIsExact ==
  ASSUME CanvasInv, Release
  PROVE  /\ Len(stagePast') <= Len(stagePast) + 1
         /\ live' = <<>>
         /\ \A e \in DOMAIN stage \cap DOMAIN live :
              IF gesture.kind = "move" THEN stage'[e].at = OnStage(e).at
              ELSE e = gesture.id => stage'[e].size = OnStage(e).size
<1>1. DragShown /\ \E stages : StagesMet(stages)
  BY DEF CanvasInv
<1>2. Dragging /\ gesture.kind \in {"move", "resize"}
  BY DEF Release, Dragging
<1>3. gesture.id \in DOMAIN gesture.origin /\ (live = <<>> \/ DOMAIN live = Held) /\ gesture.id \in Held
  BY <1>1, <1>2 DEF DragShown, Held
<1>4. CASE gesture.id \notin DOMAIN live
  <2>1. live = <<>> /\ live' = live /\ stagePast' = stagePast
    BY <1>3, <1>4 DEF Release, stageHistory
  <2>2. Len(stagePast) \in Nat
    BY <1>1, LenProperties DEF StagesMet
  <2>3. QED
    BY <2>1, <2>2
<1>5. CASE gesture.id \in DOMAIN live
  <2>1. DOMAIN live = Held
    BY <1>3, <1>5
  <2>2. live' = <<>>
    <3>1. live' = [m \in DOMAIN live \ DOMAIN gesture.origin |-> live[m]]
      BY <1>5 DEF Release
    <3>2. DOMAIN live \ DOMAIN gesture.origin = {}
      BY <1>3, <2>1 DEF Held
    <3>3. QED
      BY <3>1, <3>2
  <2>3. Len(stagePast) \in Nat
    BY <1>1, LenProperties DEF StagesMet
  <2>4. CASE DOMAIN stage \cap Held = {}
    <3>1. stagePast' = stagePast
      BY <1>5, <2>4 DEF Release, Held, stageHistory
    <3>2. QED
      BY <2>1, <2>2, <2>3, <2>4, <3>1
  <2>5. CASE DOMAIN stage \cap Held # {}
    <3>1. CommitStage(DroppedStage)
      BY <1>5, <2>5 DEF Release, Held
    <3>2. Len(stagePast') = Len(stagePast) + 1
      <4>1. PICK S : StagesMet(S)
        BY <1>1
      <4>2. QED
        BY <3>1, <4>1, AppendProperties DEF CommitStage, StagesMet
    <3>3. ASSUME NEW e \in DOMAIN stage \cap DOMAIN live
          PROVE  /\ gesture.kind = "move" => stage'[e].at = live[e].at
                 /\ gesture.kind = "resize" => stage'[e].size = live[e].size
      <4>1. e \in Held /\ {"at", "size"} \subseteq DOMAIN stage[e]
        BY <1>1, <2>1, EditedIsSound DEF SoundStage
      <4>2. stage'[e] = IF gesture.kind = "move" THEN [stage[e] EXCEPT !.at = live[e].at]
                        ELSE [stage[e] EXCEPT !.size = live[e].size]
        BY <3>1, <4>1 DEF CommitStage, DroppedStage, Held
      <4>3. QED
        BY <4>1, <4>2
    <3>4. QED
      BY <1>2, <2>2, <2>3, <3>2, <3>3 DEF OnStage
  <2>6. QED
    BY <2>4, <2>5
<1>6. QED
  BY <1>4, <1>5

\* On a grid of any size, and whatever keys fall between a press and its
\* release: a fill changes the region of its cell and nothing else, and a
\* released drag leaves what it showed, in one undo entry.
THEOREM CanvasIsExact == CanvasSpec => GesturesAreExact
<1>1. CanvasInit => CanvasInv
  <2> SUFFICES ASSUME CanvasInit PROVE CanvasInv
    OBVIOUS
  <2>1. SoundStage(StartStage)
    BY StageAssumption DEF SoundStage
  <2>2. StagesMet({StartStage})
    BY <2>1, EmptySeq DEF CanvasInit, StagesMet, SoundStage
  <2>3. DragShown
    BY DEF CanvasInit, DragShown, Dragging, NoGesture
  <2>4. QED
    BY <2>2, <2>3 DEF CanvasInv
<1>2. CanvasInv /\ [CanvasNext]_canvasVars => CanvasInv'
  <2> SUFFICES ASSUME CanvasInv, [CanvasNext]_canvasVars PROVE CanvasInv'
    OBVIOUS
  <2>1. DragShown'
    BY DragStaysShown DEF CanvasInv
  <2>2. (\E stages : StagesMet(stages))'
    BY StagesStayMet DEF CanvasInv
  <2>3. QED
    BY <2>1, <2>2 DEF CanvasInv
<1>3. CanvasInv =>
        \A e \in DOMAIN stage : IsTilemap(e) => \A c \in Cells : Fill(e, c) =>
          LET before == stage[e].tiles
              changed == {d \in Cells : stage'[e].tiles[d] # before[d]}
              closed(S) == \A b \in S, d \in Cells :
                             d \in Beside(b) /\ Matches(before, c, d) => d \in S IN
          /\ c \in changed /\ closed(changed)
          /\ \A S \in SUBSET changed : c \in S /\ closed(S) => S = changed
  BY FillIsExact DEF CanvasInv
<1>4. CanvasInv =>
        (Release =>
           /\ Len(stagePast') <= Len(stagePast) + 1
           /\ live' = <<>>
           /\ \A e \in DOMAIN stage \cap DOMAIN live :
                IF gesture.kind = "move" THEN stage'[e].at = OnStage(e).at
                ELSE e = gesture.id => stage'[e].size = OnStage(e).size)
  BY ReleaseIsExact
<1>5. CanvasSpec => FillsTheRegion
  BY <1>1, <1>2, <1>3, PTL DEF CanvasSpec, FillsTheRegion
<1>6. CanvasSpec => ReleaseKeepsWhatIsShown
  BY <1>1, <1>2, <1>4, PTL DEF CanvasSpec, ReleaseKeepsWhatIsShown
<1>7. QED
  BY <1>5, <1>6 DEF GesturesAreExact

-----------------------------------------------------------------------------
(* The scene panels of the inspector (SceneInspector).                     *)

LayerRows == [name : NameSet, order : Int]

\* Layers with names of their own.
LayersAreSound(ls) ==
  /\ ls \in Seq(LayerRows)
  /\ \A i, j \in DOMAIN ls : ls[i].name = ls[j].name => i = j

ClipNames == {SpriteClips[i] : i \in DOMAIN SpriteClips} \cup {ToString(n) : n \in Nat} \cup {NoName}
StateRows == [id : Int, clip : ClipNames]
TransitionRows == [from : Int, to : Int]
IdsIn(states) == {states[i].id : i \in DOMAIN states}

\* Every transition joins states there are.
Joined(states, transitions) ==
  \A i \in DOMAIN transitions : /\ transitions[i].from \in IdsIn(states) \cup {AnyState}
                                /\ transitions[i].to \in IdsIn(states)

\* A machine that is stored; its first state is looked after when it is read.
MachineIsSound(m) ==
  /\ m = [states |-> m.states, first |-> m.first, transitions |-> m.transitions]
  /\ m.states \in Seq(StateRows) /\ m.first \in Int
  /\ m.transitions \in Seq(TransitionRows)
  /\ Joined(m.states, m.transitions)

SceneIsSound(s) ==
  /\ s = [layers |-> s.layers, onLayer |-> s.onLayer, clips |-> s.clips, active |-> s.active,
          machine |-> s.machine, inputs |-> s.inputs, ids |-> s.ids]
  /\ LayersAreSound(s.layers)
  /\ s.clips \in Seq(ClipNames) /\ s.ids \in Nat
  /\ MachineIsSound(s.machine)

\* The scene and all that undo and redo lead to are sound.
ScenesMet(S) ==
  /\ scene \in S /\ scenePast \in Seq(S) /\ sceneFuture \in Seq(S)
  /\ \A s \in S : SceneIsSound(s)

InspectorInv == \E scenes : ScenesMet(scenes)

\* The rank of a name is its place among the names.
LEMMA RankIsPlace == \A name \in NameSet : RankOf(name) \in Nat
<1>1. Len(LayerNames) \in Nat /\ DOMAIN LayerNames = 1..Len(LayerNames)
  BY InspectorAssumption, LenProperties
<1>2. ASSUME NEW name \in NameSet PROVE RankOf(name) \in DOMAIN LayerNames
  BY DEF NameSet, RankOf
<1>3. QED
  BY <1>1, <1>2

\* Sorting keeps the layers and gives a scene without any the default ones.
LEMMA SortingIsSound ==
  ASSUME LayersAreSound(scene.layers)
  PROVE  LayersAreSound(SortingLayers) /\ Len(SortingLayers) >= 1
<1> DEFINE ls == IF scene.layers = <<>> THEN DefaultLayers ELSE scene.layers
           n == Len(ls)
           KeyOf(i) == <<ls[i].order, RankOf(ls[i].name), i>>
           keys == {KeyOf(i) : i \in DOMAIN ls}
           At(k) == CHOOSE key \in keys : Cardinality({j \in keys : Before(j, key)}) = k - 1
           R == {pair \in keys \X keys : Before(pair[1], pair[2])}
<1>1. LayersAreSound(ls) /\ ls # <<>>
  <2>1. /\ WorldLayer \in NameSet /\ LayerNames[2] \in NameSet /\ WorldLayer # LayerNames[2]
    BY InspectorAssumption, LenProperties DEF NameSet, WorldLayer, IsInjective
  <2>2. PICK a \in LayerRows, b \in LayerRows :
          DefaultLayers = <<a, b>> /\ a.name = WorldLayer /\ b.name = LayerNames[2]
    <3>1. PICK a : a = Layer(WorldLayer, 100)
      OBVIOUS
    <3>2. PICK b : b = Layer(LayerNames[2], 200)
      OBVIOUS
    <3>3. DefaultLayers = <<a, b>>
      BY <3>1, <3>2 DEF DefaultLayers
    <3>4. a \in LayerRows /\ a.name = WorldLayer
      BY <2>1, <3>1 DEF Layer, LayerRows
    <3>5. b \in LayerRows /\ b.name = LayerNames[2]
      BY <2>1, <3>2 DEF Layer, LayerRows
    <3>6. QED
      BY <3>3, <3>4, <3>5
  <2>3. LayersAreSound(DefaultLayers) /\ DefaultLayers # <<>>
    <3>1. <<a, b>> \in Seq(LayerRows) /\ DOMAIN <<a, b>> = 1..2 /\ <<a, b>> # <<>>
      OBVIOUS
    <3>2. QED
      BY <2>1, <2>2, <3>1 DEF LayersAreSound
  <2>4. QED
    BY <2>3
<1>2. SortingLayers = [k \in DOMAIN ls |-> ls[At(k)[3]]]
  BY DEF SortingLayers
<1> HIDE DEF ls
<1>3. /\ n \in Nat /\ n >= 1 /\ DOMAIN ls = 1..n
      /\ \A i \in 1..n : ls[i] \in LayerRows /\ ls[i].order \in Int /\ RankOf(ls[i].name) \in Nat
  <2>1. n \in Nat /\ n # 0 /\ DOMAIN ls = 1..n /\ \A i \in 1..n : ls[i] \in LayerRows
    BY <1>1, LenProperties, ElementOfSeq, EmptySeq DEF LayersAreSound
  <2>2. \A i \in 1..n : ls[i].order \in Int /\ ls[i].name \in NameSet
    BY <2>1 DEF LayerRows
  <2>3. QED
    BY <2>1, <2>2, RankIsPlace
<1> HIDE DEF n
<1>4. \A i \in 1..n : KeyOf(i) \in keys /\ KeyOf(i)[3] = i
  BY <1>3
<1>5. \A key \in keys : /\ key[3] \in 1..n /\ key = KeyOf(key[3])
                        /\ key = <<key[1], key[2], key[3]>>
                        /\ key[1] \in Int /\ key[2] \in Int /\ key[3] \in Int
  BY <1>3
<1> HIDE DEF KeyOf, keys
<1>6. IsFiniteSet(keys) /\ Cardinality(keys) = n
  <2> DEFINE f == [i \in 1..n |-> KeyOf(i)]
  <2>1. f \in [1..n -> keys]
    BY <1>4
  <2>2. \A i, j \in 1..n : f[i] = f[j] => i = j
    BY <1>4
  <2>3. \A key \in keys : \E i \in 1..n : f[i] = key
    BY <1>5
  <2> HIDE DEF f
  <2>4. f \in Bijection(1..n, keys)
    BY <2>1, <2>2, <2>3, Fun_IsBij
  <2>5. ExistsBijection(1..n, keys)
    BY <2>4 DEF ExistsBijection
  <2>6. IsFiniteSet(1..n) /\ Cardinality(1..n) = n
    BY <1>3, FS_Interval
  <2>7. QED
    BY <2>5, <2>6, FS_Bijection
<1>7. \A a, b \in keys : <<a, b>> \in R <=> Before(a, b)
  OBVIOUS
<1> HIDE DEF R
<1>8. Orders(R, keys)
  <2>1. \A a \in keys : ~Before(a, a)
    BY <1>5 DEF Before
  <2>2. ASSUME NEW a \in keys, NEW b \in keys, a # b PROVE Before(a, b) \/ Before(b, a)
    <3>1. a[1] # b[1] \/ a[2] # b[2] \/ a[3] # b[3]
      BY <1>5, <2>2
    <3>2. QED
      BY <1>5, <3>1 DEF Before
  <2>3. ASSUME NEW a \in keys, NEW b \in keys, NEW c \in keys, Before(a, b), Before(b, c)
        PROVE  Before(a, c)
    BY <1>5, <2>3 DEF Before
  <2> HIDE DEF Before
  <2>4. QED
    BY <1>7, <2>1, <2>2, <2>3 DEF Orders
<1>9. /\ \A k \in 1..n : Enumerated(keys, R)[k] \in keys
      /\ \A k, l \in 1..n : k # l => Enumerated(keys, R)[k] # Enumerated(keys, R)[l]
  BY <1>6, <1>8, EnumeratedInOrder
<1>10. ASSUME NEW k \in 1..n PROVE Enumerated(keys, R)[k] = At(k)
  <2>1. \A key \in keys : {j \in keys : <<j, key>> \in R} = {j \in keys : Before(j, key)}
    BY <1>7
  <2>2. Enumerated(keys, R)[k] = CHOOSE key \in keys : Cardinality({j \in keys : <<j, key>> \in R}) = k - 1
    BY <1>6 DEF Enumerated
  <2>3. QED
    BY <2>1, <2>2
<1> HIDE DEF At
<1>11. \A k \in 1..n : At(k) \in keys /\ At(k)[3] \in 1..n
  BY <1>5, <1>9, <1>10
<1>12. ASSUME NEW k \in 1..n, NEW l \in 1..n, At(k)[3] = At(l)[3] PROVE k = l
  <2>1. At(k) = At(l)
    BY <1>5, <1>11, <1>12
  <2>2. QED
    BY <1>9, <1>10, <2>1
<1>13. PICK sorted : sorted = SortingLayers
  OBVIOUS
<1>14. sorted \in [1..n -> LayerRows] /\ \A k \in 1..n : sorted[k] = ls[At(k)[3]]
  BY <1>2, <1>3, <1>11, <1>13
<1>15. sorted \in Seq(LayerRows) /\ Len(sorted) = n /\ DOMAIN sorted = 1..n
  BY <1>3, <1>14, FunctionIsSeq
<1>16. ASSUME NEW k \in 1..n, NEW l \in 1..n, sorted[k].name = sorted[l].name PROVE k = l
  <2>1. ls[At(k)[3]].name = ls[At(l)[3]].name
    BY <1>14, <1>16
  <2>2. At(k)[3] = At(l)[3]
    BY <1>1, <1>3, <1>11, <2>1 DEF LayersAreSound
  <2>3. QED
    BY <1>12, <2>2
<1>17. QED
  BY <1>3, <1>13, <1>15, <1>16 DEF LayersAreSound

\* What an edit makes of a sound scene is sound when the part it replaces is.
LEMMA SceneChanges ==
  ASSUME NEW s, SceneIsSound(s)
  PROVE  /\ \A layers, onLayer : LayersAreSound(layers) =>
              SceneIsSound([s EXCEPT !.layers = layers, !.onLayer = onLayer])
         /\ \A x : /\ SceneIsSound([s EXCEPT !.onLayer = x])
                   /\ SceneIsSound([s EXCEPT !.active = x])
                   /\ SceneIsSound([s EXCEPT !.inputs = x])
         /\ \A clips \in Seq(ClipNames) :
              /\ SceneIsSound([s EXCEPT !.clips = clips])
              /\ \A n \in Nat : SceneIsSound([s EXCEPT !.clips = clips, !.ids = n])
         /\ \A m : MachineIsSound(m) =>
              /\ SceneIsSound([s EXCEPT !.machine = m])
              /\ \A n \in Nat : SceneIsSound([s EXCEPT !.machine = m, !.ids = n])
<1> USE DEF SceneIsSound
<1>1. ASSUME NEW layers, NEW onLayer, LayersAreSound(layers)
      PROVE  SceneIsSound([s EXCEPT !.layers = layers, !.onLayer = onLayer])
  <2>1. PICK r : r = [s EXCEPT !.layers = layers, !.onLayer = onLayer]
    OBVIOUS
  <2>2. r = [layers |-> r.layers, onLayer |-> r.onLayer, clips |-> r.clips, active |-> r.active,
            machine |-> r.machine, inputs |-> r.inputs, ids |-> r.ids]
    BY <2>1
  <2>3. r.layers = layers /\ r.clips = s.clips /\ r.ids = s.ids /\ r.machine = s.machine
    BY <2>1
  <2>4. QED
    BY <1>1, <2>1, <2>2, <2>3
<1>2. ASSUME NEW x
      PROVE  /\ SceneIsSound([s EXCEPT !.onLayer = x])
             /\ SceneIsSound([s EXCEPT !.active = x])
             /\ SceneIsSound([s EXCEPT !.inputs = x])
  <2>1. SceneIsSound([s EXCEPT !.onLayer = x])
    OBVIOUS
  <2>2. SceneIsSound([s EXCEPT !.active = x])
    OBVIOUS
  <2>3. SceneIsSound([s EXCEPT !.inputs = x])
    OBVIOUS
  <2>4. QED
    BY <2>1, <2>2, <2>3
<1>3. ASSUME NEW clips \in Seq(ClipNames)
      PROVE  /\ SceneIsSound([s EXCEPT !.clips = clips])
             /\ \A n \in Nat : SceneIsSound([s EXCEPT !.clips = clips, !.ids = n])
  <2>1. SceneIsSound([s EXCEPT !.clips = clips])
    OBVIOUS
  <2>2. ASSUME NEW n \in Nat PROVE SceneIsSound([s EXCEPT !.clips = clips, !.ids = n])
    <3>1. PICK r : r = [s EXCEPT !.clips = clips, !.ids = n]
      OBVIOUS
    <3>2. r = [layers |-> r.layers, onLayer |-> r.onLayer, clips |-> r.clips, active |-> r.active,
               machine |-> r.machine, inputs |-> r.inputs, ids |-> r.ids]
      BY <3>1
    <3>3. r.layers = s.layers /\ r.clips = clips /\ r.ids = n /\ r.machine = s.machine
      BY <3>1
    <3>4. QED
      BY <3>1, <3>2, <3>3
  <2>3. QED
    BY <2>1, <2>2
<1>4. ASSUME NEW m, MachineIsSound(m)
      PROVE  /\ SceneIsSound([s EXCEPT !.machine = m])
             /\ \A n \in Nat : SceneIsSound([s EXCEPT !.machine = m, !.ids = n])
  <2>1. SceneIsSound([s EXCEPT !.machine = m])
    <3>1. PICK r : r = [s EXCEPT !.machine = m]
      OBVIOUS
    <3>2. r = [layers |-> r.layers, onLayer |-> r.onLayer, clips |-> r.clips, active |-> r.active,
              machine |-> r.machine, inputs |-> r.inputs, ids |-> r.ids]
      BY <3>1
    <3>3. r.layers = s.layers /\ r.clips = s.clips /\ r.ids = s.ids /\ r.machine = m
      BY <3>1
    <3>4. QED
      BY <1>4, <3>1, <3>2, <3>3
  <2>2. ASSUME NEW n \in Nat PROVE SceneIsSound([s EXCEPT !.machine = m, !.ids = n])
    <3>1. PICK r : r = [s EXCEPT !.machine = m, !.ids = n]
      OBVIOUS
    <3>2. r = [layers |-> r.layers, onLayer |-> r.onLayer, clips |-> r.clips, active |-> r.active,
              machine |-> r.machine, inputs |-> r.inputs, ids |-> r.ids]
      BY <3>1
    <3>3. r.layers = s.layers /\ r.clips = s.clips /\ r.ids = n /\ r.machine = m
      BY <3>1
    <3>4. QED
      BY <1>4, <3>1, <3>2, <3>3
  <2>3. QED
    BY <2>1, <2>2
<1> HIDE DEF SceneIsSound
<1>5. QED
  BY <1>1, <1>2, <1>3, <1>4

\* One commit, or two of one event, of sound scenes.
LEMMA CommitKeepsScenes ==
  ASSUME InspectorInv, NEW first, NEW second, SceneIsSound(first), SceneIsSound(second),
         Commit(first) \/ CommitTwice(first, second)
  PROVE  InspectorInv'
<1>1. PICK S : ScenesMet(S)
  BY DEF InspectorInv
<1>2. PICK T : T = S \cup {first, second}
  OBVIOUS
<1>3. scene \in S /\ scenePast \in Seq(S) /\ \A s \in S : SceneIsSound(s)
  BY <1>1 DEF ScenesMet
<1>4. scene \in T /\ first \in T /\ second \in T /\ \A s \in T : SceneIsSound(s)
  BY <1>2, <1>3
<1>5. scenePast \in Seq(T)
  <2>1. S \subseteq T
    BY <1>2
  <2>2. QED
    BY <1>3, <2>1
<1>6. scene' \in T /\ scenePast' \in Seq(T) /\ sceneFuture' \in Seq(T)
  <2>1. CASE Commit(first)
    BY <1>4, <1>5, <2>1, AppendProperties, EmptySeq DEF Commit
  <2>2. CASE CommitTwice(first, second)
    <3>1. <<scene, first>> \in Seq(T)
      BY <1>4
    <3>2. scenePast \o <<scene, first>> \in Seq(T)
      BY <1>5, <3>1, ConcatProperties
    <3>3. QED
      BY <1>4, <2>2, <3>2, EmptySeq DEF CommitTwice
  <2>3. QED
    BY <2>1, <2>2
<1>7. ScenesMet(T)'
  BY <1>4, <1>6 DEF ScenesMet
<1>8. QED
  BY <1>7 DEF InspectorInv

LEMMA HistoryKeepsScenes ==
  ASSUME InspectorInv, UndoInspector \/ RedoInspector
  PROVE  InspectorInv'
<1>1. PICK S : ScenesMet(S)
  BY DEF InspectorInv
<1>2. scene \in S /\ scenePast \in Seq(S) /\ sceneFuture \in Seq(S) /\ \A s \in S : SceneIsSound(s)
  BY <1>1 DEF ScenesMet
<1>3. CASE UndoInspector
  <2>1. Front(scenePast) \in Seq(S) /\ Last(scenePast) \in S
    BY <1>2, <1>3, FrontAndLast DEF UndoInspector
  <2>2. <<scene>> \o sceneFuture \in Seq(S)
    BY <1>2, ConcatProperties
  <2>3. ScenesMet(S)'
    BY <1>2, <1>3, <2>1, <2>2 DEF UndoInspector, ScenesMet
  <2>4. QED
    BY <2>3 DEF InspectorInv
<1>4. CASE RedoInspector
  <2>1. Head(sceneFuture) \in S /\ Tail(sceneFuture) \in Seq(S)
    BY <1>2, <1>4, HeadTailProperties DEF RedoInspector
  <2>2. Append(scenePast, scene) \in Seq(S)
    BY <1>2, AppendProperties
  <2>3. ScenesMet(S)'
    BY <1>2, <1>4, <2>1, <2>2 DEF RedoInspector, ScenesMet
  <2>4. QED
    BY <2>3 DEF InspectorInv
<1>5. QED
  BY <1>3, <1>4

\* The scene that is shown is sound.
LEMMA SceneShown == InspectorInv => SceneIsSound(scene)
  BY DEF InspectorInv, ScenesMet

LEMMA LayersKeepScenes ==
  ASSUME InspectorInv, LayerManager
  PROVE  InspectorInv'
<1>1. SceneIsSound(scene)
  BY SceneShown
<1>2. PICK ls : ls = SortingLayers
  OBVIOUS
<1>3. LayersAreSound(ls) /\ Len(ls) >= 1
  BY <1>1, <1>2, SortingIsSound DEF SceneIsSound
<1>4. PICK n \in Nat : /\ n = Len(ls) /\ DOMAIN ls = 1..n /\ n >= 1
                       /\ \A i \in 1..n : /\ ls[i] \in LayerRows
                                          /\ ls[i].name \in NameSet /\ ls[i].order \in Int
  <2>1. Len(ls) \in Nat /\ DOMAIN ls = 1..Len(ls) /\ \A i \in 1..Len(ls) : ls[i] \in LayerRows
    BY <1>3, LenProperties, ElementOfSeq DEF LayersAreSound
  <2>2. \A i \in 1..Len(ls) : ls[i].name \in NameSet /\ ls[i].order \in Int
    BY <2>1 DEF LayerRows
  <2>3. QED
    BY <1>3, <2>1, <2>2
<1>5. ASSUME NEW layers, LayersAreSound(layers), CommitLayers(layers) PROVE InspectorInv'
  <2>1. PICK next : next = [scene EXCEPT !.layers = layers, !.onLayer = Followed(layers)]
    OBVIOUS
  <2>2. SceneIsSound(next)
    BY <1>1, <1>5, <2>1, SceneChanges
  <2>3. Commit(next)
    BY <1>5, <2>1 DEF CommitLayers
  <2>4. QED
    BY <2>2, <2>3, CommitKeepsScenes
<1>6. ASSUME NEW m \in Nat, NEW r \in [1..m -> LayerRows],
             \A i, j \in 1..m : r[i].name = r[j].name => i = j
      PROVE  LayersAreSound(r)
  <2>1. r \in Seq(LayerRows) /\ DOMAIN r = 1..m
    BY FunctionIsSeq
  <2>2. QED
    BY <1>6, <2>1 DEF LayersAreSound
<1>7. ASSUME NEW i \in DOMAIN ls, NEW way \in {-1, 1}, MoveLayer(ls, i, way)
      PROVE  InspectorInv'
  <2>1. PICK j : j = i + way
    OBVIOUS
  <2>2. i \in 1..n /\ j \in 1..n /\ i # j
    BY <1>4, <1>7, <2>1 DEF MoveLayer
  <2>3. PICK r : /\ CommitLayers(r)
                 /\ r = IF ls[i].order = ls[j].order
                        THEN [ls EXCEPT ![i].order = @ + 5 * way, ![j].order = @ - 5 * way]
                        ELSE [ls EXCEPT ![i].order = ls[j].order, ![j].order = ls[i].order]
    BY <1>7, <2>1 DEF MoveLayer
  <2>4. /\ DOMAIN r = 1..n /\ r = [k \in 1..n |-> r[k]]
        /\ \A k \in 1..n : k # i /\ k # j => r[k] = ls[k]
    <3>1. CASE ls[i].order = ls[j].order
      BY <1>4, <2>2, <2>3, <3>1
    <3>2. CASE ls[i].order # ls[j].order
      BY <1>4, <2>2, <2>3, <3>2
    <3>3. QED
      BY <3>1, <3>2
  <2>5. PICK a \in Int, b \in Int : /\ r[i] = [ls[i] EXCEPT !.order = a]
                                    /\ r[j] = [ls[j] EXCEPT !.order = b]
    <3>1. CASE ls[i].order = ls[j].order
      <4>1. ls[i].order + 5 * way \in Int /\ ls[j].order - 5 * way \in Int
        BY <1>4, <2>2
      <4>2. /\ r[i] = [ls[i] EXCEPT !.order = ls[i].order + 5 * way]
            /\ r[j] = [ls[j] EXCEPT !.order = ls[j].order - 5 * way]
        BY <1>4, <2>2, <2>3, <3>1
      <4>3. QED
        BY <4>1, <4>2
    <3>2. CASE ls[i].order # ls[j].order
      <4>1. /\ r[i] = [ls[i] EXCEPT !.order = ls[j].order]
            /\ r[j] = [ls[j] EXCEPT !.order = ls[i].order]
        BY <1>4, <2>2, <2>3, <3>2
      <4>2. QED
        BY <1>4, <2>2, <4>1
    <3>3. QED
      BY <3>1, <3>2
  <2>6. \A k \in 1..n : r[k] \in LayerRows /\ r[k].name = ls[k].name
    <3>1. r[i] \in LayerRows /\ r[i].name = ls[i].name
      BY <1>4, <2>2, <2>5 DEF LayerRows
    <3>2. r[j] \in LayerRows /\ r[j].name = ls[j].name
      BY <1>4, <2>2, <2>5 DEF LayerRows
    <3>3. QED
      BY <1>4, <2>4, <3>1, <3>2
  <2>7. r \in [1..n -> LayerRows]
    BY <2>4, <2>6
  <2>8. \A k, l \in 1..n : r[k].name = r[l].name => k = l
    BY <1>3, <1>4, <2>6 DEF LayersAreSound
  <2>9. n \in Nat /\ r \in [1..n -> LayerRows]
    BY <2>7
  <2>10. LayersAreSound(r)
    BY <1>6, <2>8, <2>9
  <2>11. QED
    BY <1>5, <2>3, <2>10
<1>8. ASSUME NEW i \in DOMAIN ls, DeleteLayer(ls, i)
      PROVE  InspectorInv'
  <2>1. PICK r : r = RemoveAt(ls, i)
    OBVIOUS
  <2>2. /\ r \in Seq(LayerRows) /\ Len(r) = n - 1
        /\ \A k \in 1..n - 1 : r[k] = IF k < i THEN ls[k] ELSE ls[k + 1]
    BY <1>3, <1>4, <2>1, RemovedAt DEF LayersAreSound
  <2>3. DOMAIN r = 1..n - 1
    BY <2>2, LenProperties
  <2>4. ASSUME NEW k \in 1..n - 1, NEW l \in 1..n - 1, r[k].name = r[l].name PROVE k = l
    <3>1. PICK p : p = IF k < i THEN k ELSE k + 1
      OBVIOUS
    <3>2. PICK q : q = IF l < i THEN l ELSE l + 1
      OBVIOUS
    <3>3. p \in DOMAIN ls /\ q \in DOMAIN ls /\ r[k] = ls[p] /\ r[l] = ls[q]
      BY <1>4, <2>2, <3>1, <3>2
    <3>4. p = q
      BY <1>3, <2>4, <3>3 DEF LayersAreSound
    <3>5. QED
      BY <1>4, <3>1, <3>2, <3>4
  <2>5. LayersAreSound(r)
    BY <2>2, <2>3, <2>4 DEF LayersAreSound
  <2>6. QED
    BY <1>5, <1>8, <2>1, <2>5 DEF DeleteLayer
<1>9. ASSUME NEW i \in DOMAIN ls, NEW name \in NameSet, RenameLayer(ls, i, name)
      PROVE  InspectorInv'
  <2>1. PICK r : r = [ls EXCEPT ![i].name = name]
    OBVIOUS
  <2>2. /\ i \in 1..n /\ r[i] = [ls[i] EXCEPT !.name = name]
        /\ \A k \in 1..n : k # i => r[k] = ls[k]
        /\ DOMAIN r = 1..n /\ r = [k \in 1..n |-> r[k]]
    BY <1>4, <2>1
  <2>3. /\ r[i] \in LayerRows /\ r[i].name = name
        /\ \A k \in 1..n : k # i => r[k] \in LayerRows /\ r[k].name # name
    <3>1. r[i] \in LayerRows /\ r[i].name = name
      BY <1>4, <2>2 DEF LayerRows
    <3>2. \A k \in 1..n : ls[k].name # name
      BY <1>4, <1>9 DEF RenameLayer, NamesOf
    <3>3. QED
      BY <1>4, <2>2, <3>1, <3>2
  <2>4. r \in [1..n -> LayerRows]
    BY <2>2, <2>3
  <2>5. \A k, l \in 1..n : r[k].name = r[l].name => k = l
    <3>1. \A k, l \in 1..n : ls[k].name = ls[l].name => k = l
      BY <1>3, <1>4 DEF LayersAreSound
    <3>2. \A k \in 1..n : k # i => r[k].name = ls[k].name /\ r[k].name # r[i].name
      BY <2>2, <2>3
    <3>3. QED
      BY <3>1, <3>2
  <2>6. n \in Nat /\ r \in [1..n -> LayerRows]
    BY <2>4
  <2>7. LayersAreSound(r)
    BY <1>6, <2>5, <2>6
  <2>8. QED
    BY <1>5, <1>9, <2>1, <2>7 DEF RenameLayer
<1>10. ASSUME NEW name \in NameSet, AddSceneLayer(ls, name)
       PROVE  InspectorInv'
  <2>1. Last(ls).order \in Int
    BY <1>4 DEF Last
  <2>2. PICK l : l = Layer(name, Last(ls).order + 100)
    OBVIOUS
  <2>3. l \in LayerRows /\ l.name = name
    BY <2>1, <2>2 DEF Layer, LayerRows
  <2>4. PICK r : r = Append(ls, l)
    OBVIOUS
  <2>5. /\ r \in Seq(LayerRows) /\ Len(r) = n + 1 /\ r[n + 1] = l
        /\ \A k \in 1..n : r[k] = ls[k]
    BY <1>3, <1>4, <2>3, <2>4, AppendProperties DEF LayersAreSound
  <2>6. DOMAIN r = 1..n + 1
    BY <2>5, LenProperties
  <2>7. \A k \in 1..n : ls[k].name # name
    BY <1>4, <1>10 DEF AddSceneLayer, NamesOf
  <2>8. \A k \in 1..n + 1 : k = n + 1 \/ k \in 1..n
    OBVIOUS
  <2>9. LayersAreSound(r)
    BY <1>3, <1>4, <2>3, <2>5, <2>6, <2>7, <2>8 DEF LayersAreSound
  <2>10. QED
    BY <1>5, <1>10, <2>2, <2>4, <2>9 DEF AddSceneLayer
<1>11. ASSUME AssignLayer(ls) PROVE InspectorInv'
  <2>1. PICK name : Commit([scene EXCEPT !.onLayer = IF name = WorldLayer THEN NoName ELSE name])
    BY <1>11 DEF AssignLayer
  <2>2. SceneIsSound([scene EXCEPT !.onLayer = IF name = WorldLayer THEN NoName ELSE name])
    BY <1>1, SceneChanges
  <2>3. QED
    BY <2>1, <2>2, CommitKeepsScenes
<1>12. QED
  BY <1>2, <1>7, <1>8, <1>9, <1>10, <1>11 DEF LayerManager

\* The lists of input actions and clips.
LEMMA ListsKeepScenes ==
  ASSUME InspectorInv, InputActionsPanel \/ AnimationPanel
  PROVE  InspectorInv'
<1>1. SceneIsSound(scene)
  BY SceneShown
<1>2. scene.clips \in Seq(ClipNames) /\ scene.ids \in Nat
  BY <1>1 DEF SceneIsSound
<1>3. ASSUME NEW x, Commit([scene EXCEPT !.inputs = x]) \/ Commit([scene EXCEPT !.active = x])
      PROVE  InspectorInv'
  <2>1. SceneIsSound([scene EXCEPT !.inputs = x]) /\ SceneIsSound([scene EXCEPT !.active = x])
    BY <1>1, SceneChanges
  <2>2. QED
    BY <1>3, <2>1, CommitKeepsScenes
<1>4. CASE InputActionsPanel
  BY <1>3, <1>4 DEF InputActionsPanel
<1>5. CASE AddClip
  <2>1. PICK id : id = ToString(FreshId)
    OBVIOUS
  <2>2. PICK first : first = [scene EXCEPT !.clips = Append(scene.clips, id), !.ids = scene.ids + 1]
    OBVIOUS
  <2>3. PICK second : second = [scene EXCEPT !.active = id]
    OBVIOUS
  <2>4. Append(scene.clips, id) \in Seq(ClipNames) /\ scene.ids + 1 \in Nat
    <3>1. FreshId \in Nat
      BY <1>2 DEF FreshId
    <3>2. id \in ClipNames
      BY <2>1, <3>1 DEF ClipNames
    <3>3. QED
      BY <1>2, <3>2, AppendProperties
  <2>5. SceneIsSound(first) /\ SceneIsSound(second)
    BY <1>1, <2>2, <2>3, <2>4, SceneChanges
  <2>6. CommitTwice(first, second)
    BY <1>5, <2>1, <2>2, <2>3 DEF AddClip
  <2>7. QED
    BY <2>5, <2>6, CommitKeepsScenes
<1>6. ASSUME NEW i \in DOMAIN Clips, RemoveClip(i) PROVE InspectorInv'
  <2>1. PICK rest : rest = RemoveAt(Clips, i)
    OBVIOUS
  <2>2. rest \in Seq(ClipNames)
    BY <1>2, <2>1, RemovedAt DEF Clips
  <2>3. PICK first : first = [scene EXCEPT !.clips = rest]
    OBVIOUS
  <2>4. PICK next : next = IF rest = <<>> THEN NoName ELSE rest[1]
    OBVIOUS
  <2>5. PICK second : second = [scene EXCEPT !.active = next]
    OBVIOUS
  <2>6. SceneIsSound(first) /\ SceneIsSound(second)
    BY <1>1, <2>2, <2>3, <2>5, SceneChanges
  <2>7. Commit(first) \/ CommitTwice(first, second)
    BY <1>6, <2>1, <2>3, <2>4, <2>5 DEF RemoveClip
  <2>8. QED
    BY <2>6, <2>7, CommitKeepsScenes
<1>7. ASSUME NEW i \in DOMAIN Clips, ActivateClip(i) PROVE InspectorInv'
  BY <1>3, <1>7 DEF ActivateClip
<1>8. QED
  BY <1>4, <1>5, <1>6, <1>7 DEF AnimationPanel

\* A machine as the panel reads it: none, or one that starts in a state it has.
LEMMA ReadIsSound ==
  ASSUME NEW m, MachineIsSound(m)
  PROVE  /\ MachineIsSound(Reparsed(m))
         /\ Reparsed(m) # NoMachine => /\ Reparsed(m).states # <<>>
                                       /\ Reparsed(m).first \in IdsIn(Reparsed(m).states)
<1>1. CASE m.states = <<>>
  <2>1. PICK r : r = NoMachine
    OBVIOUS
  <2>2. /\ r = [states |-> r.states, first |-> r.first, transitions |-> r.transitions]
        /\ r.states = <<>> /\ r.first = 0 /\ r.transitions = <<>>
    BY <2>1 DEF NoMachine
  <2>3. MachineIsSound(r)
    <3>1. r.states \in Seq(StateRows) /\ r.transitions \in Seq(TransitionRows) /\ r.first \in Int
      BY <2>2, EmptySeq
    <3>2. Joined(r.states, r.transitions)
      BY <2>2 DEF Joined
    <3>3. QED
      BY <2>2, <3>1, <3>2 DEF MachineIsSound
  <2>4. QED
    BY <1>1, <2>1, <2>3 DEF Reparsed
<1>2. CASE m.states # <<>>
  <2>1. PICK first : first = IF \E i \in DOMAIN m.states : m.states[i].id = m.first THEN m.first
                             ELSE m.states[1].id
    OBVIOUS
  <2>2. PICK r : r = [m EXCEPT !.first = first]
    OBVIOUS
  <2>3. Reparsed(m) = r
    BY <1>2, <2>1, <2>2 DEF Reparsed
  <2>4. /\ r = [states |-> r.states, first |-> r.first, transitions |-> r.transitions]
        /\ r.states = m.states /\ r.first = first /\ r.transitions = m.transitions
    BY <2>2 DEF MachineIsSound
  <2>5. 1 \in DOMAIN m.states /\ \A i \in DOMAIN m.states : m.states[i].id \in Int
    <3>1. Len(m.states) \in Nat /\ Len(m.states) # 0 /\ DOMAIN m.states = 1..Len(m.states)
      BY <1>2, LenProperties, EmptySeq DEF MachineIsSound
    <3>2. \A i \in DOMAIN m.states : m.states[i] \in StateRows
      BY <3>1, ElementOfSeq DEF MachineIsSound
    <3>3. QED
      BY <3>1, <3>2 DEF StateRows
  <2>6. first \in IdsIn(m.states) /\ first \in Int
    BY <2>1, <2>5 DEF IdsIn
  <2>7. MachineIsSound(r)
    BY <2>4, <2>6 DEF MachineIsSound
  <2>8. QED
    BY <1>2, <2>3, <2>4, <2>6, <2>7
<1>3. QED
  BY <1>1, <1>2

\* The machine of the sprite, as it is read.
LEMMA MachineRead ==
  ASSUME InspectorInv
  PROVE  /\ SceneIsSound(scene) /\ MachineIsSound(Machine)
         /\ Machine # NoMachine => Machine.first \in IdsIn(Machine.states)
<1>1. SceneIsSound(scene)
  BY SceneShown
<1>2. MachineIsSound(scene.machine)
  BY <1>1 DEF SceneIsSound
<1>3. QED
  BY <1>1, <1>2, ReadIsSound DEF Machine

\* Storing a sound machine, with a new id or without.
LEMMA StoredKeepsScenes ==
  ASSUME InspectorInv, NEW m, MachineIsSound(m),
         \/ Commit([scene EXCEPT !.machine = m])
         \/ Commit([scene EXCEPT !.machine = m, !.ids = scene.ids + 1])
  PROVE  InspectorInv'
<1>1. SceneIsSound(scene) /\ scene.ids + 1 \in Nat
  BY SceneShown DEF SceneIsSound
<1>2. SceneIsSound([scene EXCEPT !.machine = m])
  BY <1>1, SceneChanges
<1>3. SceneIsSound([scene EXCEPT !.machine = m, !.ids = scene.ids + 1])
  BY <1>1, SceneChanges
<1>4. QED
  BY <1>2, <1>3, CommitKeepsScenes

\* New states.
LEMMA GrowthKeepsScenes ==
  ASSUME InspectorInv, EnableMachine \/ AddState
  PROVE  InspectorInv'
<1>1. SceneIsSound(scene) /\ MachineIsSound(Machine)
  BY MachineRead
<1>2. PICK new : new = NewState(Machine)
  OBVIOUS
<1>3. FreshId \in Int
  BY <1>1 DEF SceneIsSound, FreshId
<1>4. new \in StateRows /\ new.id = FreshId
  <2>1. PICK clip : clip = IF Clips = <<>> THEN NoName ELSE Clips[1]
    OBVIOUS
  <2>2. Clips \in Seq(ClipNames)
    BY <1>1 DEF SceneIsSound, Clips
  <2>3. clip \in ClipNames
    <3>1. CASE Clips = <<>>
      BY <2>1, <3>1 DEF ClipNames
    <3>2. CASE Clips # <<>>
      <4>1. Len(Clips) \in Nat /\ Len(Clips) # 0
        BY <2>2, <3>2, LenProperties, EmptySeq
      <4>2. QED
        BY <2>1, <2>2, <3>2, <4>1, ElementOfSeq
    <3>3. QED
      BY <3>1, <3>2
  <2>4. new = [id |-> FreshId, clip |-> clip]
    BY <1>2, <2>1 DEF NewState
  <2>5. QED
    BY <1>3, <2>3, <2>4 DEF StateRows
<1>5. CASE EnableMachine
  <2>1. PICK m : m = [states |-> <<new>>, first |-> FreshId, transitions |-> <<>>]
    OBVIOUS
  <2>2. <<new>> \in Seq(StateRows) /\ <<>> \in Seq(TransitionRows)
    BY <1>4, OneElementSeq, EmptySeq
  <2>3. /\ m = [states |-> m.states, first |-> m.first, transitions |-> m.transitions]
        /\ m.states = <<new>> /\ m.first = FreshId /\ m.transitions = <<>>
    BY <2>1
  <2>4. Joined(m.states, m.transitions)
    BY <2>3 DEF Joined
  <2>5. MachineIsSound(m)
    BY <1>3, <2>2, <2>3, <2>4 DEF MachineIsSound
  <2>6. Commit([scene EXCEPT !.machine = m, !.ids = scene.ids + 1])
    BY <1>2, <1>5, <2>1 DEF EnableMachine
  <2>7. QED
    BY <2>5, <2>6, StoredKeepsScenes
<1>6. CASE AddState
  <2>1. PICK m : m = [Machine EXCEPT !.states = Append(Machine.states, new)]
    OBVIOUS
  <2>2. Machine.states \in Seq(StateRows)
    BY <1>1 DEF MachineIsSound
  <2>3. /\ Append(Machine.states, new) \in Seq(StateRows)
        /\ IdsIn(Machine.states) \subseteq IdsIn(Append(Machine.states, new))
    <3>1. PICK r : r = Append(Machine.states, new)
      OBVIOUS
    <3>2. r \in Seq(StateRows) /\ Len(r) = Len(Machine.states) + 1
      BY <1>4, <2>2, <3>1, AppendProperties
    <3>3. \A i \in 1..Len(Machine.states) : r[i] = Machine.states[i]
      BY <1>4, <2>2, <3>1, AppendProperties
    <3>4. /\ DOMAIN r = 1..Len(r) /\ DOMAIN Machine.states = 1..Len(Machine.states)
          /\ Len(Machine.states) \in Nat
      BY <2>2, <3>2, LenProperties
    <3>5. \A i \in DOMAIN Machine.states : i \in DOMAIN r /\ r[i] = Machine.states[i]
      BY <3>2, <3>3, <3>4
    <3>6. IdsIn(Machine.states) \subseteq IdsIn(r)
      BY <3>5 DEF IdsIn
    <3>7. QED
      BY <3>1, <3>2, <3>6
  <2>4. /\ m = [states |-> m.states, first |-> m.first, transitions |-> m.transitions]
        /\ m.states = Append(Machine.states, new)
        /\ m.first = Machine.first /\ m.transitions = Machine.transitions
    BY <1>1, <2>1 DEF MachineIsSound
  <2>5. Joined(m.states, m.transitions)
    BY <1>1, <2>3, <2>4 DEF MachineIsSound, Joined
  <2>6. MachineIsSound(m)
    BY <1>1, <2>3, <2>4, <2>5 DEF MachineIsSound
  <2>7. Commit([scene EXCEPT !.machine = m, !.ids = scene.ids + 1])
    BY <1>2, <1>6, <2>1 DEF AddState
  <2>8. QED
    BY <2>6, <2>7, StoredKeepsScenes
<1>7. QED
  BY <1>5, <1>6

\* A state takes the transitions it is an end of with it.
LEMMA RemovalKeepsScenes ==
  ASSUME InspectorInv, NEW i \in DOMAIN Machine.states, RemoveState(i)
  PROVE  InspectorInv'
<1>1. /\ Machine.states \in Seq(StateRows) /\ Machine.transitions \in Seq(TransitionRows)
      /\ Machine.first \in Int /\ Joined(Machine.states, Machine.transitions)
  BY MachineRead DEF MachineIsSound
<1>2. PICK n \in Nat : n = Len(Machine.states) /\ DOMAIN Machine.states = 1..n
  BY <1>1, LenProperties
<1>3. PICK id : id = Machine.states[i].id
  OBVIOUS
<1>4. PICK states : states = RemoveAt(Machine.states, i)
  OBVIOUS
<1>5. /\ states \in Seq(StateRows) /\ Len(states) = n - 1
      /\ \A k \in 1..n - 1 : states[k] = IF k < i THEN Machine.states[k] ELSE Machine.states[k + 1]
  BY <1>1, <1>2, <1>4, RemovedAt
<1>6. DOMAIN states = 1..n - 1
  BY <1>5, LenProperties
<1>7. \A s \in IdsIn(Machine.states) : s # id => s \in IdsIn(states)
  <2>1. SUFFICES ASSUME NEW s \in IdsIn(Machine.states), s # id PROVE s \in IdsIn(states)
    OBVIOUS
  <2>2. PICK k \in 1..n : Machine.states[k].id = s
    BY <1>2, <2>1 DEF IdsIn
  <2>3. k # i
    BY <1>3, <2>1, <2>2
  <2>4. PICK l : l = IF k < i THEN k ELSE k - 1
    OBVIOUS
  <2>5. l \in 1..n - 1 /\ states[l] = Machine.states[k]
    BY <1>2, <1>5, <2>2, <2>3, <2>4
  <2>6. QED
    BY <1>6, <2>2, <2>5 DEF IdsIn
<1>8. PICK places : places = {k \in DOMAIN Machine.transitions :
                                id \notin {Machine.transitions[k].from, Machine.transitions[k].to}}
  OBVIOUS
<1>9. PICK transitions : transitions = Picked(Machine.transitions, places)
  OBVIOUS
<1>10. places \in SUBSET (1..Len(Machine.transitions))
  BY <1>1, <1>8, LenProperties
<1>11. /\ transitions \in Seq(TransitionRows)
       /\ \A k \in 1..Len(transitions) : \E p \in places : transitions[k] = Machine.transitions[p]
  <2>1. PICK list \in Seq(TransitionRows) : list = Machine.transitions
    BY <1>1
  <2>2. transitions = Picked(list, places) /\ places \in SUBSET (1..Len(list))
    BY <1>9, <1>10, <2>1
  <2>3. /\ Picked(list, places) \in Seq(TransitionRows)
        /\ \A k \in 1..Len(Picked(list, places)) : \E p \in places : Picked(list, places)[k] = list[p]
    BY <2>2, PickedEntries
  <2>4. QED
    BY <2>1, <2>2, <2>3
<1>12. Joined(states, transitions)
  <2>1. DOMAIN transitions = 1..Len(transitions)
    BY <1>11, LenProperties
  <2>2. \A p \in places : /\ Machine.transitions[p].from \in IdsIn(states) \cup {AnyState}
                          /\ Machine.transitions[p].to \in IdsIn(states)
    BY <1>1, <1>7, <1>8 DEF Joined
  <2>3. QED
    BY <1>11, <2>1, <2>2 DEF Joined
<1>13. PICK first : first = IF Machine.first # id THEN Machine.first
                            ELSE IF states = <<>> THEN 0 ELSE states[1].id
  OBVIOUS
<1>14. first \in Int
  <2>1. CASE Machine.first = id /\ states # <<>>
    <3>1. Len(states) \in Nat /\ Len(states) # 0
      BY <1>5, <2>1, LenProperties, EmptySeq
    <3>2. states[1] \in StateRows
      BY <1>5, <3>1, ElementOfSeq
    <3>3. QED
      BY <1>13, <2>1, <3>2 DEF StateRows
  <2>2. QED
    BY <1>1, <1>13, <2>1
<1>15. PICK m : m = [states |-> states, first |-> first, transitions |-> transitions]
  OBVIOUS
<1>16. MachineIsSound(m)
  BY <1>5, <1>11, <1>12, <1>14, <1>15 DEF MachineIsSound
<1>17. Commit([scene EXCEPT !.machine = m])
  <2>1. places = {k \in DOMAIN Machine.transitions :
                    Machine.states[i].id \notin {Machine.transitions[k].from, Machine.transitions[k].to}}
    BY <1>3, <1>8
  <2>2. CommitMachine([states |-> states, first |-> first, transitions |-> transitions])
    BY <1>3, <1>4, <1>9, <1>13, <2>1 DEF RemoveState
  <2>3. QED
    BY <1>15, <2>2 DEF CommitMachine
<1>18. QED
  BY <1>16, <1>17, StoredKeepsScenes

\* A new transition starts in the first state.
LEMMA ArrivalKeepsScenes ==
  ASSUME InspectorInv, AddTransition
  PROVE  InspectorInv'
<1>1. /\ MachineIsSound(Machine) /\ Machine # NoMachine
      /\ Machine.first \in IdsIn(Machine.states) /\ Machine.first \in Int
      /\ Machine.states \in Seq(StateRows) /\ Machine.transitions \in Seq(TransitionRows)
  BY MachineRead DEF AddTransition, MachineIsSound
<1>2. PICK from : from = Machine.first
  OBVIOUS
<1>3. PICK places : places = {k \in DOMAIN Machine.states : Machine.states[k].id # from}
  OBVIOUS
<1>4. PICK others : others = Picked(Machine.states, places)
  OBVIOUS
<1>5. DOMAIN Machine.states = 1..Len(Machine.states) /\ places \in SUBSET (1..Len(Machine.states))
  BY <1>1, <1>3, LenProperties
<1>6. /\ others \in Seq(StateRows)
      /\ \A k \in 1..Len(others) : \E p \in places : others[k] = Machine.states[p]
  <2>1. PICK list \in Seq(StateRows) : list = Machine.states
    BY <1>1
  <2>2. others = Picked(list, places) /\ places \in SUBSET (1..Len(list))
    BY <1>4, <1>5, <2>1
  <2>3. /\ Picked(list, places) \in Seq(StateRows)
        /\ \A k \in 1..Len(Picked(list, places)) : \E p \in places : Picked(list, places)[k] = list[p]
    BY <2>2, PickedEntries
  <2>4. QED
    BY <2>1, <2>2, <2>3
<1>7. PICK to : to = IF others = <<>> THEN from ELSE others[1].id
  OBVIOUS
<1>8. to \in IdsIn(Machine.states) /\ to \in Int
  <2>1. CASE others = <<>>
    BY <1>1, <1>2, <1>7, <2>1
  <2>2. CASE others # <<>>
    <3>1. Len(others) \in Nat /\ Len(others) # 0
      BY <1>6, <2>2, LenProperties, EmptySeq
    <3>2. PICK p \in places : others[1] = Machine.states[p]
      BY <1>6, <3>1
    <3>3. Machine.states[p] \in StateRows
      BY <1>1, <1>5, ElementOfSeq
    <3>4. QED
      BY <1>5, <1>7, <2>2, <3>2, <3>3 DEF IdsIn, StateRows
  <2>3. QED
    BY <2>1, <2>2
<1>9. PICK row : row = [from |-> from, to |-> to]
  OBVIOUS
<1>10. row \in TransitionRows /\ row.from = from /\ row.to = to
  BY <1>1, <1>2, <1>8, <1>9 DEF TransitionRows
<1>11. PICK transitions : transitions = Append(Machine.transitions, row)
  OBVIOUS
<1>12. /\ transitions \in Seq(TransitionRows) /\ Len(transitions) = Len(Machine.transitions) + 1
       /\ transitions[Len(Machine.transitions) + 1] = row
       /\ \A k \in 1..Len(Machine.transitions) : transitions[k] = Machine.transitions[k]
  BY <1>1, <1>10, <1>11, AppendProperties
<1>13. Joined(Machine.states, transitions)
  <2>1. /\ Len(Machine.transitions) \in Nat
        /\ DOMAIN Machine.transitions = 1..Len(Machine.transitions)
        /\ DOMAIN transitions = 1..Len(Machine.transitions) + 1
    BY <1>1, <1>12, LenProperties
  <2>2. \A k \in DOMAIN transitions : transitions[k] = row \/ /\ k \in DOMAIN Machine.transitions
                                                              /\ transitions[k] = Machine.transitions[k]
    <3>1. \A k \in 1..Len(Machine.transitions) + 1 :
            k = Len(Machine.transitions) + 1 \/ k \in 1..Len(Machine.transitions)
      BY <2>1
    <3>2. QED
      BY <1>12, <2>1, <3>1
  <2>3. Joined(Machine.states, Machine.transitions)
    BY <1>1 DEF MachineIsSound
  <2>4. QED
    BY <1>1, <1>2, <1>8, <1>10, <2>2, <2>3 DEF Joined
<1>14. PICK m : m = [Machine EXCEPT !.transitions = transitions]
  OBVIOUS
<1>15. /\ m = [states |-> m.states, first |-> m.first, transitions |-> m.transitions]
       /\ m.states = Machine.states /\ m.first = Machine.first /\ m.transitions = transitions
  BY <1>1, <1>14 DEF MachineIsSound
<1>16. MachineIsSound(m)
  BY <1>1, <1>12, <1>13, <1>15 DEF MachineIsSound
<1>17. Commit([scene EXCEPT !.machine = m])
  <2>1. CommitMachine([Machine EXCEPT !.transitions = Append(Machine.transitions, row)])
    BY <1>2, <1>3, <1>4, <1>7, <1>9 DEF AddTransition
  <2>2. QED
    BY <1>11, <1>14, <2>1 DEF CommitMachine
<1>18. QED
  BY <1>16, <1>17, StoredKeepsScenes

\* The ends of a transition are chosen among the states there are.
LEMMA EndsKeepScenes ==
  ASSUME InspectorInv, NEW i \in DOMAIN Machine.transitions, EditTransition(i)
  PROVE  InspectorInv'
<1>1. /\ MachineIsSound(Machine) /\ Joined(Machine.states, Machine.transitions)
      /\ Machine.states \in Seq(StateRows) /\ Machine.transitions \in Seq(TransitionRows)
  BY MachineRead DEF MachineIsSound
<1>2. PICK n \in Nat : n = Len(Machine.transitions) /\ DOMAIN Machine.transitions = 1..n
  BY <1>1, LenProperties
<1>3. \A k \in 1..n : Machine.transitions[k] \in TransitionRows
  BY <1>1, <1>2, ElementOfSeq
<1>4. StateIds = IdsIn(Machine.states) /\ \A s \in StateIds \cup {AnyState} : s \in Int
  <2>1. StateIds = IdsIn(Machine.states)
    BY DEF StateIds, IdsIn
  <2>2. DOMAIN Machine.states = 1..Len(Machine.states)
    BY <1>1, LenProperties
  <2>3. \A k \in DOMAIN Machine.states : Machine.states[k] \in StateRows
    BY <1>1, <2>2, ElementOfSeq
  <2>4. QED
    BY <2>1, <2>3 DEF IdsIn, StateRows, AnyState
<1>5. ASSUME NEW m, CommitMachine(m),
             m = [states |-> m.states, first |-> m.first, transitions |-> m.transitions],
             m.states = Machine.states, m.first = Machine.first,
             m.transitions \in Seq(TransitionRows), Joined(Machine.states, m.transitions)
      PROVE  InspectorInv'
  <2>1. MachineIsSound(m)
    BY <1>1, <1>5 DEF MachineIsSound
  <2>2. Commit([scene EXCEPT !.machine = m])
    BY <1>5 DEF CommitMachine
  <2>3. QED
    BY <2>1, <2>2, StoredKeepsScenes
<1>6. ASSUME NEW row \in TransitionRows, NEW m,
             row.from \in StateIds \cup {AnyState}, row.to \in StateIds,
             m = [Machine EXCEPT !.transitions = [Machine.transitions EXCEPT ![i] = row]],
             CommitMachine(m)
      PROVE  InspectorInv'
  <2>1. PICK r : r = [Machine.transitions EXCEPT ![i] = row]
    OBVIOUS
  <2>2. /\ r \in [1..n -> TransitionRows]
        /\ \A k \in 1..n : r[k] = row \/ r[k] = Machine.transitions[k]
    <3>1. DOMAIN r = 1..n /\ r = [k \in 1..n |-> r[k]]
      BY <1>2, <2>1
    <3>2. \A k \in 1..n : r[k] = IF k = i THEN row ELSE Machine.transitions[k]
      BY <1>2, <2>1
    <3>3. QED
      BY <1>3, <3>1, <3>2
  <2>3. r \in Seq(TransitionRows) /\ DOMAIN r = 1..n
    BY <2>2, FunctionIsSeq
  <2>4. Joined(Machine.states, r)
    BY <1>1, <1>2, <1>4, <1>6, <2>2, <2>3 DEF Joined
  <2>5. /\ m = [states |-> m.states, first |-> m.first, transitions |-> m.transitions]
        /\ m.states = Machine.states /\ m.first = Machine.first /\ m.transitions = r
    BY <1>1, <1>6, <2>1 DEF MachineIsSound
  <2>6. QED
    BY <1>5, <1>6, <2>3, <2>4, <2>5
<1>7. PICK old \in TransitionRows : old = Machine.transitions[i]
  BY <1>2, <1>3
<1>8. old.from \in StateIds \cup {AnyState} /\ old.to \in StateIds
  BY <1>1, <1>4, <1>7 DEF Joined
<1>9. ASSUME NEW s \in StateIds \cup {AnyState},
             CommitMachine([Machine EXCEPT !.transitions[i].from = s])
      PROVE  InspectorInv'
  <2>1. PICK row : row = [old EXCEPT !.from = s]
    OBVIOUS
  <2>2. row \in TransitionRows /\ row.from = s /\ row.to = old.to
    BY <1>4, <1>7, <2>1 DEF TransitionRows
  <2>3. PICK m : m = [Machine EXCEPT !.transitions = [Machine.transitions EXCEPT ![i] = row]]
    OBVIOUS
  <2>4. CommitMachine(m)
    BY <1>7, <1>9, <2>1, <2>3
  <2>5. QED
    BY <1>6, <1>8, <2>2, <2>3, <2>4
<1>10. ASSUME NEW s \in StateIds, CommitMachine([Machine EXCEPT !.transitions[i].to = s])
       PROVE  InspectorInv'
  <2>1. PICK row : row = [old EXCEPT !.to = s]
    OBVIOUS
  <2>2. row \in TransitionRows /\ row.to = s /\ row.from = old.from
    BY <1>4, <1>7, <2>1 DEF TransitionRows
  <2>3. PICK m : m = [Machine EXCEPT !.transitions = [Machine.transitions EXCEPT ![i] = row]]
    OBVIOUS
  <2>4. CommitMachine(m)
    BY <1>7, <1>10, <2>1, <2>3
  <2>5. QED
    BY <1>6, <1>8, <2>2, <2>3, <2>4
<1>11. ASSUME CommitMachine([Machine EXCEPT !.transitions = RemoveAt(Machine.transitions, i)])
       PROVE  InspectorInv'
  <2>1. PICK r : r = RemoveAt(Machine.transitions, i)
    OBVIOUS
  <2>2. /\ r \in Seq(TransitionRows) /\ Len(r) = n - 1
        /\ \A k \in 1..n - 1 : r[k] = IF k < i THEN Machine.transitions[k]
                                      ELSE Machine.transitions[k + 1]
    BY <1>1, <1>2, <2>1, RemovedAt
  <2>3. DOMAIN r = 1..n - 1
    BY <2>2, LenProperties
  <2>4. \A k \in DOMAIN r : \E l \in DOMAIN Machine.transitions : r[k] = Machine.transitions[l]
    <3>1. \A k \in 1..n - 1 : k \in 1..n /\ k + 1 \in 1..n
      BY <1>2
    <3>2. QED
      BY <1>2, <2>2, <2>3, <3>1
  <2>5. Joined(Machine.states, r)
    BY <1>1, <2>4 DEF Joined
  <2>6. PICK m : m = [Machine EXCEPT !.transitions = r]
    OBVIOUS
  <2>7. /\ m = [states |-> m.states, first |-> m.first, transitions |-> m.transitions]
        /\ m.states = Machine.states /\ m.first = Machine.first /\ m.transitions = r
    BY <1>1, <2>6 DEF MachineIsSound
  <2>8. QED
    BY <1>5, <1>11, <2>1, <2>2, <2>5, <2>6, <2>7
<1>12. QED
  BY <1>9, <1>10, <1>11 DEF EditTransition

\* A state keeps its id.
LEMMA StateKeepsScenes ==
  ASSUME InspectorInv, NEW i \in DOMAIN Machine.states, EditState(i)
  PROVE  InspectorInv'
<1>1. /\ SceneIsSound(scene) /\ MachineIsSound(Machine)
      /\ Joined(Machine.states, Machine.transitions) /\ Machine.states \in Seq(StateRows)
  BY MachineRead DEF MachineIsSound
<1>2. PICK n \in Nat : n = Len(Machine.states) /\ DOMAIN Machine.states = 1..n
  BY <1>1, LenProperties
<1>3. \A k \in 1..n : Machine.states[k] \in StateRows
  BY <1>1, <1>2, ElementOfSeq
<1>4. PICK old \in StateRows : old = Machine.states[i]
  BY <1>2, <1>3
<1>5. CASE CommitMachine([Machine EXCEPT !.first = Machine.states[i].id])
  <2>1. PICK m : m = [Machine EXCEPT !.first = old.id]
    OBVIOUS
  <2>2. old.id \in Int
    BY DEF StateRows
  <2>3. /\ m = [states |-> m.states, first |-> m.first, transitions |-> m.transitions]
        /\ m.states = Machine.states /\ m.first = old.id /\ m.transitions = Machine.transitions
    BY <1>1, <2>1 DEF MachineIsSound
  <2>4. MachineIsSound(m)
    BY <1>1, <2>2, <2>3 DEF MachineIsSound
  <2>5. Commit([scene EXCEPT !.machine = m])
    BY <1>4, <1>5, <2>1 DEF CommitMachine
  <2>6. QED
    BY <2>4, <2>5, StoredKeepsScenes
<1>6. ASSUME NEW c \in DOMAIN Clips, CommitMachine([Machine EXCEPT !.states[i].clip = Clips[c]])
      PROVE  InspectorInv'
  <2>1. Clips[c] \in ClipNames
    <3>1. Clips \in Seq(ClipNames)
      BY <1>1 DEF SceneIsSound, Clips
    <3>2. QED
      BY <3>1, LenProperties, ElementOfSeq
  <2>2. PICK row : row = [old EXCEPT !.clip = Clips[c]]
    OBVIOUS
  <2>3. row \in StateRows /\ row.id = old.id
    BY <2>1, <2>2 DEF StateRows
  <2>4. PICK r : r = [Machine.states EXCEPT ![i] = row]
    OBVIOUS
  <2>5. /\ DOMAIN r = 1..n /\ r = [k \in 1..n |-> r[k]]
        /\ \A k \in 1..n : r[k] = IF k = i THEN row ELSE Machine.states[k]
    BY <1>2, <2>4
  <2>6. r \in [1..n -> StateRows] /\ \A k \in 1..n : r[k].id = Machine.states[k].id
    BY <1>3, <1>4, <2>3, <2>5
  <2>7. r \in Seq(StateRows) /\ DOMAIN r = 1..n
    BY <2>6, FunctionIsSeq
  <2>8. IdsIn(r) = IdsIn(Machine.states)
    BY <1>2, <2>6, <2>7 DEF IdsIn
  <2>9. PICK m : m = [Machine EXCEPT !.states = r]
    OBVIOUS
  <2>10. /\ m = [states |-> m.states, first |-> m.first, transitions |-> m.transitions]
         /\ m.states = r /\ m.first = Machine.first /\ m.transitions = Machine.transitions
    BY <1>1, <2>9 DEF MachineIsSound
  <2>11. Joined(r, Machine.transitions)
    BY <1>1, <2>8 DEF Joined
  <2>12. MachineIsSound(m)
    BY <1>1, <2>7, <2>10, <2>11 DEF MachineIsSound
  <2>13. Commit([scene EXCEPT !.machine = m])
    BY <1>4, <1>6, <2>2, <2>4, <2>9 DEF CommitMachine
  <2>14. QED
    BY <2>12, <2>13, StoredKeepsScenes
<1>7. QED
  BY <1>5, <1>6 DEF EditState

\* Every step of the panels leads to a sound scene.
LEMMA InspectorStep ==
  ASSUME InspectorInv, [InspectorNext]_inspectorVars
  PROVE  InspectorInv'
<1>1. CASE StateMachinePanel
  BY <1>1, GrowthKeepsScenes, ArrivalKeepsScenes, RemovalKeepsScenes, StateKeepsScenes,
     EndsKeepScenes DEF StateMachinePanel
<1>2. CASE UNCHANGED inspectorVars
  BY <1>2 DEF inspectorVars, InspectorInv, ScenesMet
<1>3. QED
  BY <1>1, <1>2, LayersKeepScenes, ListsKeepScenes, HistoryKeepsScenes DEF InspectorNext

\* Through any sequence of edits, undos and redos, no two layers share a name,
\* every transition joins states the machine has, and its first state is one
\* of them.
THEOREM ReferencesHold == InspectorSpec => []InspectorReferencesHold
<1>1. InspectorInit => InspectorInv
  <2>1. SUFFICES ASSUME InspectorInit PROVE SceneIsSound(scene)
    <3>1. {scene} # {} /\ scene \in {scene} /\ <<>> \in Seq({scene})
      BY EmptySeq
    <3>2. ASSUME InspectorInit, SceneIsSound(scene) PROVE InspectorInv
      <4>1. ScenesMet({scene})
        BY <3>1, <3>2 DEF InspectorInit, ScenesMet
      <4>2. QED
        BY <4>1 DEF InspectorInv
    <3>3. QED
      BY <3>2
  <2>2. /\ scene = [layers |-> scene.layers, onLayer |-> scene.onLayer, clips |-> scene.clips,
                    active |-> scene.active, machine |-> scene.machine, inputs |-> scene.inputs,
                    ids |-> scene.ids]
        /\ scene.layers = <<>> /\ scene.clips \in {SpriteClips, <<>>} /\ scene.ids = 2
        /\ scene.machine \in {NoMachine, SavedMachine}
    BY <2>1 DEF InspectorInit
  <2>3. LayersAreSound(<<>>)
    BY EmptySeq DEF LayersAreSound
  <2>4. SpriteClips \in Seq(ClipNames) /\ <<>> \in Seq(ClipNames)
    <3>1. SpriteClips \in Seq(Range(SpriteClips))
      BY InspectorAssumption
    <3>2. DOMAIN SpriteClips = 1..Len(SpriteClips) /\ Len(SpriteClips) \in Nat
      BY <3>1, LenProperties
    <3>3. \A i \in 1..Len(SpriteClips) : SpriteClips[i] \in ClipNames
      BY <3>2 DEF ClipNames
    <3>4. SpriteClips = [i \in 1..Len(SpriteClips) |-> SpriteClips[i]]
      BY <3>1, <3>2
    <3>5. SpriteClips \in [1..Len(SpriteClips) -> ClipNames]
      BY <3>3, <3>4
    <3>6. QED
      BY <3>2, <3>5, FunctionIsSeq, EmptySeq
  <2>5. MachineIsSound(NoMachine) /\ MachineIsSound(SavedMachine)
    <3>1. <<>> \in Seq(StateRows) /\ <<>> \in Seq(TransitionRows)
      BY EmptySeq
    <3>2. MachineIsSound(NoMachine)
      BY <3>1 DEF NoMachine, MachineIsSound, Joined
    <3>3. [id |-> 1, clip |-> NoName] \in StateRows /\ [id |-> 2, clip |-> NoName] \in StateRows
      BY DEF StateRows, ClipNames
    <3>4. <<[id |-> 1, clip |-> NoName], [id |-> 2, clip |-> NoName]>> \in Seq(StateRows)
      BY <3>3
    <3>5. MachineIsSound(SavedMachine)
      BY <3>1, <3>4 DEF SavedMachine, MachineIsSound, Joined
    <3>6. QED
      BY <3>2, <3>5
  <2>6. QED
    <3>1. 2 \in Nat
      OBVIOUS
    <3>2. LayersAreSound(scene.layers) /\ scene.clips \in Seq(ClipNames) /\ scene.ids \in Nat
      BY <2>2, <2>3, <2>4, <3>1
    <3>3. MachineIsSound(scene.machine)
      BY <2>2, <2>5
    <3>4. QED
      BY <2>2, <3>2, <3>3 DEF SceneIsSound
<1>2. InspectorInv /\ [InspectorNext]_inspectorVars => InspectorInv'
  BY InspectorStep
<1>3. InspectorInv => InspectorReferencesHold
  <2>1. SUFFICES ASSUME InspectorInv PROVE InspectorReferencesHold
    OBVIOUS
  <2>2. /\ SceneIsSound(scene) /\ MachineIsSound(Machine)
        /\ Machine # NoMachine => Machine.first \in IdsIn(Machine.states)
    BY <2>1, MachineRead
  <2>3. StateIds = IdsIn(Machine.states)
    BY DEF StateIds, IdsIn
  <2>4. ASSUME NEW ls, ls = SortingLayers PROVE Cardinality(NamesOf(ls)) = Len(ls)
    <3>1. LayersAreSound(ls)
      BY <2>2, <2>4, SortingIsSound DEF SceneIsSound
    <3>2. PICK n \in Nat : n = Len(ls) /\ DOMAIN ls = 1..n
      BY <3>1, LenProperties DEF LayersAreSound
    <3>3. PICK f : f = [i \in 1..n |-> ls[i].name]
      OBVIOUS
    <3>4. f \in [1..n -> NamesOf(ls)]
      BY <3>2, <3>3 DEF NamesOf
    <3>5. \A i, j \in 1..n : f[i] = f[j] => i = j
      BY <3>1, <3>2, <3>3 DEF LayersAreSound
    <3>6. \A name \in NamesOf(ls) : \E i \in 1..n : f[i] = name
      BY <3>2, <3>3 DEF NamesOf
    <3>7. f \in Bijection(1..n, NamesOf(ls))
      BY <3>4, <3>5, <3>6, Fun_IsBij
    <3>8. IsFiniteSet(1..n) /\ Cardinality(1..n) = n
      BY FS_Interval
    <3>9. QED
      BY <3>2, <3>7, <3>8, FS_Bijection DEF ExistsBijection
  <2>5. Joined(Machine.states, Machine.transitions)
    BY <2>2 DEF MachineIsSound
  <2>6. QED
    BY <2>2, <2>3, <2>4, <2>5 DEF InspectorReferencesHold, Joined
<1>4. QED
  BY <1>1, <1>2, <1>3, PTL DEF InspectorSpec
=============================================================================
