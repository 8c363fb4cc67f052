# Ideaven: a verification project

Ideaven is a studio in which people build apps, games and extensions with the help of an AI:
a Go API (`apps/api`, PostgreSQL and a data directory), a Next.js web client (`apps/web`) with a
visual builder, a block language and a runtime, and operator commands. This directory holds TLA+
models of the parts in which requests, browser callbacks, frames, undo or a crash can disagree
about one piece of state, the TLC configurations that check them on small instances, and TLAPS
proofs of what matters most. Every definition is translated from the code; `PROJECT.json` names
the lines it stands for, each hazard with its line, and each property with the hazards it covers.

All paths below are under `src/`; Go packages are under `apps/api/internal`, web files under
`apps/web/src`.

## 1. The system

| Part | State | What is hard, and what makes it correct | Module |
|---|---|---|---|
| Credit purchases (`credits`) | packages, purchases, grants | Webhooks repeat, race, fail and crash; a payment grants its credits exactly once | `Purchases` implements `ExactlyOnceGrant` |
| AI gate, ledger, duplicate guard (`ai`) | `ai_usage`, `credit_grants`, a guard in memory | Check, slow call, then write, nothing reserved; overspending is bounded, one command is answered once | `AICredits` |
| Extension builds (`extension`, `cmd/extbuild`) | registry, build records, package files | Rows and files written by separate steps around a worker; history, registry and files agree | `ExtensionBuild` |
| Passwords, sessions, reset links (`auth`, `session`) | users, sessions, tokens | Statements of several requests interleave; a link works once | `Accounts` |
| Builder session (`builder.tsx`, `use-history.ts`, `project/publish.go`) | document, undo stacks, saves under way, project row, publication | Debounced saves race edits, publications and lost answers | `BuilderSession` implements `UndoTimeline` |
| The document and its operations (`project-model/ops.ts`) | screens, component tree, parents, selection | Moves into oneself, across screens, AI changesets | `ProjectDocument` |
| Blocks (`blocks.ts`, `blocks-canvas.tsx`) | handlers, runs, parked blocks | Drags, keys and undo in between; a block is never lost or doubled | `BlockDocument` |
| Code mode (`codegen.ts`, `code-sync.ts`) | drafts and syncs | Two hand-written converters must be inverse | `CodeMode` |
| Runtime (`runtime.ts`, `preview`, `live-app.tsx`) | runs, handlers, clocks, late answers | Callbacks of stopped runs; screen changes inside handlers | `AppRuntime` |
| 2D scene loop (`scene-stage.tsx`) | keys, contacts, queues | One dispatch per press, exits follow enters | `SceneStage` |
| 3D physics (`physics3d.ts`, `controller3d.ts`) | body, overlaps, jump edge | Overlaps across fixed steps and corrections | `Physics3D` |
| 3D editor (`viewport-3d.tsx`) | selection, drag, undo | Keys and undo between press and release | `Viewport3D` |
| 2D editor (`scene-canvas.tsx`) | gesture, stage, selection | The same, for moves, strokes and fills | `SceneCanvas` |
| Inspector (`inspector.tsx`) | layers, clips, state machine | References by name or id under renames and undo | `SceneInspector` |
| Asset Studio (`sprite-editor.tsx`) | frames, layers, awaited pixel work | Results written back by the index of the click | `SpriteStudio` |
| Builder frame (`builder.tsx`, `top-bar.tsx`, `command-palette.tsx`) | mode, drawers, shown screen, dialogs | The shown screen survives undo, restores and jumps of the palette | `BuilderShell` |
| Publish menu and export (`export-button.tsx`, `publish-button.tsx`) | pipeline, artifact, publication | A closed pipeline runs on beside the next | `ReleaseMenus` |
| Diagnostics, map, insights, assets panel | references of a model, asset rows | Two walks of one model; uploads committed to an old model | `ProjectInsights` |
| Dashboard (`use-projects.ts`, project and extension pages) | lists, shelves, dialogs, creation steps | Answers out of order | `Dashboard` |
| Credit checkout (`credit-purchase-modal.tsx`) | phase, timers, polls | Late polls, reopened modals, the return from the provider | `CreditCheckout` |
| Extension studio, build panel | editors, streams, phases | Streams of cancelled or left builds go on | `ExtensionStudio` |
| Community pages | feed, thread, votes, accepted reply | Late answers, one mark kept in two places | `CommunityPages` |

How the parts meet. A purchase that settles inserts a `credit_grants` row, which the AI gate
reads; the browser's checkout polls that purchase. Fix with AI passes the gate of Ask AI. A
build reads the registry, starts a worker process and writes the package that a download later
compares with its version row; the build panel shows its event stream. The builder holds one
document that the panels, blocks, scene editors and the AI change through one commit function
with an undo history; it saves it debounced, and publishing and exporting read what was saved.
The runtime runs a document in the preview and on its published page. API requests interact only
through the database, the data directory and the duplicate guard; browser code is one thread in
which every awaited answer and timer is a step of its own.

Not modelled at all: lexical source analysis, prompts and the provider's HTTP client, project
memory, pure functions of one document (validation, templates, thumbnails, analysis), the text
of exports, rate limiter, middleware, migrations, operator commands other than grants, rendering,
i18n and presentation pages, scripts. `PROJECT.json` gives the reason for each.

## 2. Modules

Conventions. In the server modules one action is one statement other requests can see, or all
that happens between two of them; a request is a slot with a control state; a transaction takes
effect at its commit. `Fault` actions are statements that fail; `Crash` stops the process, rows
and files stay. In the browser modules one action is one event handler, timer or continuation
after an `await`, whole; a request under way is a record of what its closure captured, and
serving it and its answer arriving are separate steps, so answers come late, out of order or
never. An operator called "Mutant of X" is X as a plausible bug would have it: no specification
uses it, it shows that a property depends on X.

Composites for TLC. Parts that share no state are checked by one run that starts in one of them
and lets the others stand still, so the run's states are the sum and not the product:
`MCWebPanels` (`Accounts`, `CodeMode`, `CommunityPages`, `CreditCheckout`, `ExtensionStudio`,
`ProjectInsights` through `MCProjectInsights`, `Dashboard`), `MCSurfaces` (`SceneCanvas`,
`SceneInspector`, `SpriteStudio`, `BuilderShell`, `ReleaseMenus`), `MCEditors`
(`ProjectDocument`, `BlockDocument`, `Viewport3D`), `MCAppRuntime` (`SceneStage`, which extends
`AppRuntime`, and `Physics3D` through `MCPhysics3D`). `MCPurchases`, `MCAICredits`,
`MCExtensionBuild` and `MCBuilderSession` are instances of one module each.

How state and actions correspond to the code, where it is not plain from the names:

- `Purchases`: the columns of `credit_purchases` are functions over purchases; Settle is
  `FastPath` (a read without a lock), `LockRow` (SELECT ... FOR UPDATE), `WriteStatus` (the
  UPDATE, which may wait on or be refused by the unique index) and `CommitSettlement`. The
  provider delivers what it reported, any number of times, until and after a 200 (`acked`).
- `AICredits`: a request reads usage, grants and draws by three statements, passes the guard,
  waits for the provider and only then writes its row. Rows of past days are kept as sums.
- `ExtensionBuild`: one slug. `ext` is the life of the extension whose row exists; deleting it
  cascades to versions and records and leaves the files for the next life.
- `BuilderSession`: a document is its place in the sequence of documents ever made; a save
  closes over one; `raced` notes that two saves overlapped or a change met one under way.
- `ProjectDocument`, `BlockDocument`: the tree and the runs as functions and sequences over ids;
  drags are a press, moves and a release with keys possible in between. The zone a block is dropped
  on is the one its pointer last moved over (`dropTarget`, the code's `targetRef`), whatever a key
  did to the program since. Undo and redo go over a capped history; `stale` notes one that was
  pressed during a drag.
- `CodeMode`: programs and TypeScript as syntax trees; generator and converter as recursive
  operators, compared over every program reachable by edits.
- `AppRuntime`: a run interprets handlers of blocks recursively; a stopped run's callbacks stay
  in the pool and check the run they belong to as the code does.
- `Physics3D`: integer coordinates in two dimensions and one dynamic body.
- `SpriteStudio`: a layer's pixels are the set of frames its strokes were aimed at, a frame
  remembers the frames it was copied from.
- `Lists`: filter and walk, defined by the places of a list's entries and by the steps taken, for the
  models whose operations the provers must see through.
- `ReleaseMenus`: an answer to a build is the artifact of a stored document or comes from elsewhere,
  and is then told by its first bytes, as the code tells it: markup, a zip archive, or neither.
  `overtaken` marks pipelines that another build, an edit, or a save under way
  at the click has disturbed; only the others promise to hold what their author saw.

## 3. Runs

| Run | What it shows | Instance |
|---|---|---|
| `purchases` | `GrantIffSucceeded`, `OneGrantPerTransaction`, `GrantedWhatWasPaid`, `ClosedIsFinal`, and the refinement of `ExactlyOnceGrant` | 2 purchases, one of which may carry the other's reference, 2 outcomes each, 2 webhooks at a time, 2 prices |
| `purchases_paid` | `AckedSuccessIsGranted`; `PaidIsEventuallySettled` under fairness | 2 purchases, one outcome and own references each |
| `ai_credits` | `OverdraftIsBounded`, `DuplicatesAreBounded` | 2 requests at a time, 3 days, 1 fault, lasting and expiring grants |
| `ext_build` | `HistoryMatchesVersions`, `VersionsAreImmutable` | 3 builds, 2 at a time, 2 versions, 2 manifests, 2 lives, 1 fault, 1 crash |
| `ext_build_serial` | `DownloadsVerify`, `ConflictIsReal` when builds do not overlap; `RecordsAreClosed` under fairness | 3 builds one at a time, 2 lives, 1 fault, 1 crash |
| `builder_session` | `TabKnowsTheRow`, `PublishesWhatIsShown`, `UndoIsALine` (refines `UndoTimeline`); `ChangesReachTheServer` under fairness | 2 saves at a time, 3 edits, undo depth 2, 1 fault |
| `editors` | `DocumentIsSound`, `MovesLoseNothing`, `EveryBlockOnce`, `DropsKeepBlocks`, `ReleaseLandsUnderThePointer` | 2 screens, 3 containers, 3 leaves, 4 entities; 7 blocks, one snapshot to undo; 2 to 4 edits or picks |
| `app_runtime` | `ShownScreenIsTheRuns`, `OneDispatchPerPress`, `ExitFollowsEnter`, `TriggersTellTheTruth` | three apps, 2 runs, 3 events; 6 frames of 2 fixed steps |
| `surfaces` | `ShellIsSound`, `ReleasesAreHonest`, `InspectorReferencesHold`, `StrokesStayOnTheirFrame`, `GesturesAreExact` | bounds of `MCSurfaces.cfg`, 2 to 4 edits of each surface, 2 builds or publications |
| `web_panels` | `LinksWorkOnce`, `GeneratedCodeSyncsBack`, `OneAnswerAccepted`, `SuccessIsVerified`, `PanelShowsItsRun`, `MapAndDiagnosticsAgree`, `AssetsAreReferenced`, `DashboardIsCurrent` | bounds of `MCWebPanels.cfg`, 2 requests under way, 2 to 5 moves |

Two runs show a sentence of the code contradicted by the code; each is a finding in
`PROJECT.json` with the sentence:

| Run | Property | What happens |
|---|---|---|
| `ext_build_race` | `DownloadsVerify` | Of two overlapping builds of a version, one takes the other's package for an orphan and replaces it |
| `builder_saved` | `SavedMeansStored` | A change made while a save is under way is noted as saved when the answer arrives, and never sent |

Every property of a passing run has a mutant in `PROJECT.json`: the definition it depends on
most, with a bug put in, under which the same run finds the property violated.

Conditions inside properties say where the code makes no promise. `HistoryMatchesVersions` and
`RecordsAreClosed` set failing statements apart (errors of the statement that closes a record
are dropped). `TabKnowsTheRow` and `PublishesWhatIsShown` set overlapping and lost saves apart,
`ReleasesAreHonest` disturbed builds, `ListsAreCurrent` answers of a finished action,
`AssetsAreReferenced` answers that land on a model changed since their click. Each condition is
a variable that the offending step sets; section 6 says what happens then.

Bounds, and why they are enough. Two webhooks, requests, builds or saves at a time give every
order of two statements of different actors, and a third of them one that starts after a race
has left its trace. Two lives of a slug give files without rows. One fault or crash may strike
at every step. Three days let a request pass on one day and be charged on the next, twice, and
`DailyFree = 2` separates "less than" from "at most". `ReleaseMenus` needs three documents:
one that cannot be built, one the pipeline was started for and one edited since; and two targets,
the web's and one of the two that are archives, which the check of an answer tells apart.
Two edits of the blocks are one before or under a drag and its release, with undo and redo, which
are not counted, anywhere; an undo history of one snapshot meets its cap. The sprite editor needs an undo stack of one
snapshot to meet its cap. In the scene editors, three presses give a gesture, a key in its
middle and a gesture on what is left. Counters of the environment are bounded in guards by
constants called `Max...`, and the theorems hold for every value of them. Symmetry is used in runs
without liveness properties only. Deadlock is not checked where the bounds let everything come
to rest (builds end, edits are used up); in `purchases`, `purchases_paid`, `ai_credits` and `builder_session` it is.

Fairness. `Purchases!FairSpec`: a webhook request in progress proceeds (weak; the server runs
each request), and the provider keeps delivering a success that was not answered 200 (strong:
crashes and errors interrupt delivery over and over). Its liveness property is conditional on
failures ending. `ExtensionBuild!FairSpec`: each build's steps are weakly fair, for a request
runs to its end and the worker is killed after 120 seconds. `BuilderSession!FairSpec`: the
debounce timer of a mounted tab fires, a sent save is served and answered (weak). Nothing is
assumed of users, owners, clients or operators.

## 4. Theorems

TLC checks a small instance; the theorems hold for every value of the constants that the named
assumptions of the modules allow. These only say what a constant is (bounds are numbers, markers
such as `None` are no ids, a loaded project keeps its components and handlers on screens it has);
TLC evaluates each of them in a run. The conditions that are more than that are hypotheses of a
theorem, and said below. A proof module EXTENDS the modules it is about. Each theorem has an inductive
invariant, its initial state, one lemma per action or group of actions, and a temporal step that
joins them.

`PurchasesProofs`. `TypeCorrect`, `GrantsAreExact`, `TransactionsPayOnce`, `GrantsArePaidFor`,
`ClosedStaysClosed` and `Refinement` (every step is one of `ExactlyOnceGrant` or a stutter) rest on
`IInv`: a webhook past its row lock holds that lock, whoever holds it decided on the status the
row still has, and an uncommitted status is written by the holder only, with the grant it
implies. "Granted iff succeeded" alone is not inductive: between `WriteStatus` and
`CommitSettlement` the two rows change together only because of the lock. `AckedAreGranted` adds
`AckInv`: an answer of 200 leaves a purchase that is closed as the provider said. It has the
hypothesis `OneOutcomeEach` (a checkout ends once, with a transaction of its own), for without it
the statement is false: section 6.

`AICreditsProofs`. `OverdraftBounded`: what was used beyond free and bought credits is at most
what requests past the gate can still write, so the invariant counts for each day the requests
that read before the others wrote. `DuplicatesBounded`: an entry of the guard that has not expired
has let each request slot through at most once.

`ExtensionBuildProofs`. `HistoryIsTrue`, `VersionsStay`, `SerialDownloads`: a record is closed as a
success exactly by the build whose row is in the registry; a build between its file and its row
is the only one under way when builds are serial, so the file it linked is the one the row names.
`SerialConflicts`: a file a serial build saw in its way is there until the build removes it, and
nothing is there when it links (`InTheWay`). The last two have the hypothesis `Overlap = 1`; the run
`ext_build_race` shows what happens without it.

`BuilderSessionProofs`. `SavedIsKnown`, `PublishedIsShown`: unless `raced`, there is one save under
way, it carries the document of the tab, its row is the one known before it, and a publication
follows its save. `UndoImplementsTimeline`: `past`, `doc` and `future` together are one segment of
the abstract line, and dropping the oldest entry at the cap shortens it at one end.

`WebPanelsProofs`, one theorem per panel:

- `SuccessHolds`: only a modal that waits has a poll that may speak, and that poll asks for the
  purchase waited for; `StopPolling` leaves none alive.
- `LinksAreSingleUse`: links have different numbers (`Numbered`), a request that sets a password
  holds a link that was issued (`Issued`) and marked by it alone (`MarkedByOne`). "Set once" is not
  inductive without the last: two requests could hold one marked link.
- `OneAnswerIsAccepted`: a thread's replies and its question name the same accepted reply, and so
  does every copy that an awaited refresh will put in their place.
- `PanelIsOnItsRun`: a run past its first event has its stream, and a stream that is not the open
  one writes no phase.
- `DashboardShowsWhatIsStored`: an undisturbed list with the latest sequence number was asked for
  under the present filter (`HubInv`), a shelf shows what was stored at its last change
  (`ShelvesInv`), a creation is of the type its template was listed under (`LibraryInv`).
- `AssetsAreTheOnesStored`: a request under way names the files by which the model and the rows will
  differ until its answer, unless `adrift`.
- `MapAgrees`: in every model that is shown, undone to or captured by a request, components and
  handlers lie on screens it has (`Kept`). From that, `WhatIsReported` and `LostEdges` say which
  issues and which dangling edges two independent walks produce, and the four pairs of sets are
  equal. Without `Kept` the statement is false: the diagnostics walk screens, the map components.

`SurfacesProofs`, one theorem per surface:

- `DownloadsAreHonest`: what is offered has passed the check of its first bytes, and no more is said of
  an answer that is no artifact. An undisturbed pipeline compiles the release that was stored at its
  click, which is the one shown (`ReleaseInv`); a save under way was sent before (`SavingInv`).
- `FrameIsSound`: all documents of the history have a start screen among their screens
  (`DocumentsInv`), one drawer is open (`DrawersInv`), and a creation under way belongs to the dialog
  that shows it (`CreationInv`).
- `StrokesAreKept`: a function from layer ids to the frames they may hold strokes of describes
  frames, snapshots and the edits under way alike (`StudioInv`).
- `CanvasIsExact`: a drag shows the rectangles of its whole group or none (`DragShown`), and every
  scene of the history has the fields a release writes (`StagesMet`). The fill is proved by induction
  over the rings of its walk: each ring lies in every closed set with the first cell, and a ring
  that is not closed has a new cell, so after as many rings as cells the walk is closed.
- `ReferencesHold`: every scene that is shown, undone or redone to has layers with names of their
  own and transitions between states there are (`ScenesMet`). A stored machine's first state may
  be gone; `ReadIsSound` shows that reading it repairs that. `SortingIsSound` shows that sorting by
  order, name and place enumerates the layers, each once.

`EditorsProofs`. `TriggersAreTold`: by induction over the fixed steps of a frame, what the app was
told and what the world remembers are the pairs that overlap where the player was left. Two
hypotheses: the player starts outside every trigger, since nothing is told of a pair before the
first step, and its scale is one, since a corrected box is made again at scale one (section 6).

`DocumentHolds` (`DocumentIsSound`): the invariant `DocInv` reads a screen as a function from each place
to the set of components in its list. It `Hangs` when each component is in one list, only the root
and containers that hang hold others, and no set of components holds itself up; the last is what
makes every component reachable from the root (`PageIsTree`), and what an edit keeps without a
measure of depth. Links are treated alike: no set of entities links only to itself (`LinksEnd`), so no
chain of parents returns (`LinksLeadAway`). Beside that, a document is all 3D or not at all (`OfKind`: a
palette offers one kind only, and a copied subtree keeps its kinds), no two screens share an id, and
screens that are not in the document are empty, so that an id has one home (`HomeIs`) and the
operations that look an id up anywhere act on the screen meant. Both `doc` and `before` have it, which
is what undo needs. There is one lemma per operation of `ops.ts` (`InsertKeeps`, `MoveKeeps`, ...).

`BlocksStayApart` (`EveryBlockOnce`): the invariant `BlocksInv` has two parts. A program shown, undone or
redone to is `Neat`: its arms, sockets and parked runs hold each block once, and only what is on the canvas holds
anything; without the second, a value off the canvas could be wired again by an identifier that comes
back. And an expression being dragged is, with all that was copied of it when the drag began,
either wired where it was or gone from the program with the block it was taken from (`SlotKept`),
whatever a key but undo and redo did meanwhile; that is what lets a drop write the copy back. There is one lemma per operation of `blocks.ts`: that it keeps
each block in one place (`MoveRunSound`, `SplitSound`, ...), by what it does to the lists, and for copies
that each copied block sits where its original did (`ReidSound`). `BlockAssumption` says that the shapes
are disjoint and that a loaded program is sound and tidy, as `validateLogic` and the server's store
leave it. New identifiers are none that the program, its history, a gesture under way or its
target still names (`Remembered`), as the code's generated ids are.

`DropsRearrange` (`DropsKeepBlocks`): the canvas is the least set of blocks that has the bodies and the
parked runs and, with a block, what lies directly in it (`CanvasCovers`, `CanvasKept`). So an operation
keeps what it does not detach when every arm and socket it changes still leads to what it led to, or
to a place the new program reaches. A target that a key has removed since the pointer moved leaves
the program as it was, but for an expression taken from a socket, which is cut first. There is again one lemma per operation (`MoveRunKeeps`, `SplitKeeps`,
`AttachKeeps`, ...). The hard case is a dragged expression: it is cut, what it carried is written
back, and it is wired or parked elsewhere. `Lifted` says that the cut and the copy together keep
all but the expression itself, `Ready` that the program is then fit to take it, and `ReachKept` that
the owner of the socket dropped on is still found by the walk the code does; the three drops
that `LosesAnExpression` names are those where that walk does not get there, where it gets there only
by way of what is dragged, and where the owner is gone.

`ListsProofs` has the lemmas these rest on. Lists: what taking out, inserting and filtering by place
(`Lists`) keep, how far a walk gets (`WalkReaches`, `WalkEnds`), and that counting the members
before each member enumerates a finite set in any strict total order. Induction: the library states
it with operators as parameters, which the provers at hand do not instantiate. `LeastOf`,
`OverNaturals` and `Repeated` restate it with sets: a set with 0 and the successor of each member
has every number, and iterating a function from a value defines a function on the numbers. They rest
on the library's well-foundedness of the naturals.

What is only model-checked:

- Liveness: `PaidIsEventuallySettled`, `RecordsAreClosed`, `ChangesReachTheServer`, and
  `ExitFollowsEnter` of a scene; the provers have no rule for fairness and ENABLED.
- `AppRuntime`, `SceneStage` and `CodeMode`, whose interpreters and converters are RECURSIVE operators:
  `ShownScreenIsTheRuns`, `OneDispatchPerPress`, `GeneratedCodeSyncsBack`.
- `MovesLoseNothing`: after a screen was copied, a document whose screens share no id any more may have a
  hierarchy `DocInv` says nothing of, and the property speaks of it too.
- `ReleaseLandsUnderThePointer`: places are integers, so it holds for scales that divide the moves of
  the pointer, as in the run, and says nothing of rounding.

## 5. Not modelled

In the modelled parts: the provider's signature scheme and the read-only credit endpoints; a guard
that forgets at a restart, and several API processes; what the build worker accepts and the
snapshot of dependencies it gets; temporary files; a COMMIT that is applied and reported as
failed; two tabs that save one project (the last writer wins) and the pruning of versions; a
project's status set by PATCH without a publication; the cap of assets and their files; the
window of the rate limiter; the probe for a free slug; an accepted reply that is deleted; commits
of the block program by others than the user's hands while a drag is on (an AI answer, a code
sync). These
are design limits the code states, or independent of the state the properties relate.

`PROJECT.json` lists every component with its status and the reason where it is not modelled, and
every hazard with the properties that cover it or the reason why none does.

## 6. Divergences seen while modelling

What the code does where its text, a comment or the reader's expectation says otherwise. Two are
runs (section 3); the rest is what the conditions inside the properties leave out, or lies next
to what they state. Paths are shortened to the file.

Server.

- Purchases: a success reported after a failure of the same checkout is answered 200 and grants
  nothing (`credits/service.go:237`). The UPDATE after a failed creation runs in the request's
  context, so a client that left leaves its row pending (`service.go:144`).
- AI credits: draws of expired grants are subtracted from the present balance (`credits.go:154`).
  Identical commands in flight both call the provider (`ai.go:238`), and a client that leaves
  after the answer leaves it unrecorded (`ai.go:247`).
- Builds: the manifest read before the worker ran is written back after it, over an edit made
  meanwhile (`build.go:735`).
- Accounts: a login that has checked the old password survives the reset that follows
  (`auth/service.go:269`). Two requests for a link leave two links (`auth/tokens.go:27`). In the
  browser a late answer of `me` overwrites a login, and a lost logout leaves the cookie.

Builder.

- Session: a change during a save is noted as saved (run `builder_saved`); an export begun then is
  built from the older stored document. `saveNow` swallows its failure, so the export goes on with
  the stale row and its message "The project could not be saved" is never shown.
- Export: the check of an answer's first bytes (`export-button.tsx:257`: "A wrong body is a FAILED build,
  never a fake download") takes any body that begins with `<` for a web page and any that begins
  with `PK` for an archive, so a proxy's page answered with 200 is offered as the web build. A
  pipeline that was closed still writes its stages and its offer into the next one; a
  stream that breaks after compilation is shown as a failure of it. Republishing is not gated by
  the validation. An import that fails after the registration leaves the extension registered.
- Frame: block actions use the raw active screen, which an undo may have removed, and then do
  nothing (`builder.tsx:554`, against the context's fallback). The Assets and History toggles open
  beside another drawer. A history restore commits over edits made while it awaited.
- Document: moving a component down within the offered places may do nothing; a copied screen
  shares ids with its source, and operations by id reach the first.
- Blocks: the walk that finds a block never enters an else arm, so its statements cannot be dragged
  or deleted by keys; an undo or a redo (Ctrl+Z, Ctrl+Y) within a drag of an expression doubles or
  loses it; an expression released over a socket whose block a key deleted since the pointer last
  moved is lost (`blocks-dnd.tsx:113`, `blocks-canvas.tsx:534`).
- Code mode: an empty handler prints a registration that does not close; extension blocks become
  comments and a sync deletes them; a draft of one screen can be applied to another.
- Inspector: adding a clip commits the list and then the active clip from an older model, so the
  new clip is lost (`inspector.tsx:474`).
- Asset Studio: an undo does not restore the frame index; late pixel work lands after an undo.
- Canvas: a stroke after an undo brings undone cells back; each painted cell is an undo entry.
- Viewport: a click on a handle commits an empty entry; the parent's inverse is that of the press.
- Diagnostics: issues of 3D scenes are reported once per screen; textures of sprites and targets of
  `touches-` blocks are not checked. Assets: uploads and deletions commit the model of the click.

Runtime.

- Events dispatched at creation run before the constants they use exist; a navigation there is
  overridden by the start screen. All published apps share one database scope, `preview`.
- Scenes without a player never drain their queues; a respawn drops exit events; stop-sound stops
  the last sound only; answers of location and web requests arrive after disposal.
- Physics: a scaled body's collider is made at scale 1 after a correction (`physics3d.ts:312`);
  any key queues the jump (`viewport-3d.tsx:174`); a frame without a fixed step loses it.

Pages.

- Dashboard: the reload after an action uses the filter of its click and, being the latest,
  replaces the list of the filter chosen since. A finished deletion leaves its dialog disabled.
  "Blank project" after a template creates from the template.
- Checkout: a failed poll does not check that it is alive; a late answer of the packages
  overwrites a resumed phase. Extension studio: Cancel after the result turns a success into a
  cancellation; a load overwrites unsaved edits.
- Community: a vote on the accepted reply removes its badge; late answers of another view and
  late refreshes overwrite newer ones.
