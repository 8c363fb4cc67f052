--------------------------- MODULE ProjectInsights ---------------------------
(***************************************************************************)
(* What the builder derives from a project: the diagnostics of its model   *)
(* (lib/project-model/diagnostics.ts) in the diagnostics panel, the graph  *)
(* of its references (lib/project-model/graph.ts) in the project map, and  *)
(* the server's report in the insights tabs, with the assets panel, whose  *)
(* uploads and deletions await the server and then commit the model of     *)
(* their click.                                                            *)
(*                                                                         *)
(* A component has its references (src, follow target, parent, layer) and  *)
(* the set of its properties whose values are out of range; a handler has  *)
(* the blocks of its body at any depth.                                    *)
(***************************************************************************)
EXTENDS Naturals, Sequences, SequencesExt, FiniteSetsExt, TLC

CONSTANTS RefProjects,  \* the projects as opened
          Files,        \* sequence of the ids of the files that may be uploaded
          AssetLimit,   \* assets of a project (50 in the code)
          LightLimit,   \* enabled 3D lights the renderer uses (8)
          DepthLimit,   \* levels of a 3D hierarchy (32)
          MaxRefMoves   \* bound: edits, clicks and uploads

ASSUME InsightBoundsAssumption ==
  /\ {AssetLimit, LightLimit, DepthLimit, MaxRefMoves} \subseteq Nat
  /\ \A m \in RefProjects : "assets" \in DOMAIN m

\* A project has a screen, and its components and handlers are kept in theirs.
ASSUME RefProjectsAssumption ==
  \A m \in RefProjects :
    /\ {"tabs", "comps", "handlers"} \subseteq DOMAIN m
    /\ m.tabs \in Seq(Range(m.tabs)) /\ m.tabs # <<>>
    /\ \A c \in DOMAIN m.comps :
         "screen" \in DOMAIN m.comps[c] /\ m.comps[c].screen \in Range(m.tabs)
    /\ \A h \in m.handlers : h.screen \in Range(m.tabs)

VARIABLES refModel, refPast, refFuture,
          assetRows,    \* server: the assets stored
          assetList,    \* the panel's list, or NotListed
          batches,      \* uploads and deletions under way, with their model
          adrift,       \* did an undo, a lost answer or an older model touch the references
          fixPrompt,    \* the issues last handed to the AI panel
          place,        \* where the builder is: mode, screen, handler
          drawer,       \* the diagnostics panel: open or not, and its filter
          insights,     \* the insights tab, the node picked on the map, the report
          refMoves

refVars      == <<refModel, refPast, refFuture>>
assetVars    == <<assetRows, assetList, batches, adrift>>
insightVars  == <<refVars, assetVars, fixPrompt, place, drawer, insights, refMoves>>

Nowhere == "none"
NotListed == {"not listed"}
Ids(m) == DOMAIN m.comps
OnScreen(m, s) == {c \in Ids(m) : m.comps[c].screen = s}
OfKind(m, s, types) == {c \in OnScreen(m, s) : m.comps[c].type \in types}
HandlersOf(m, s) == {h \in m.handlers : h.screen = s}
Prop(m, c, key) == IF key \in DOMAIN m.comps[c].props THEN m.comps[c].props[key] ELSE Nowhere

-----------------------------------------------------------------------------
(* Diagnostics: one operator per section of collectModelDiagnostics *)

Issue(severity, kind, s, at, h) ==
  [severity |-> severity, kind |-> kind, screen |-> s, at |-> at, handler |-> h]
OfComponent(kind, s, cs) == {Issue("warning", kind, s, c, Nowhere) : c \in cs}

EmptyScreen(m, s) ==
  IF OnScreen(m, s) = {} THEN {Issue("warning", "empty", s, Nowhere, Nowhere)} ELSE {}

\* An edited set of actions must serve the built-in player; a bound key
\* should not be shared.
PlayerActions == {"move-left", "move-right", "jump"}
ActionsOf(m, s) == Range(m.actions[s])
ActionIssues(m, s) ==
  LET enabled == {a \in ActionsOf(m, s) : a.enabled}
      served == PlayerActions \subseteq {a.id : a \in enabled}
      shared == {k \in UNION {a.keys : a \in enabled} :
                   Cardinality({a \in enabled : k \in a.keys}) > 1}
  IN IF OfKind(m, s, {"player"}) = {} \/ m.actions[s] = <<>> THEN {}
     ELSE (IF served THEN {} ELSE {Issue("warning", "missing-action", s, Nowhere, Nowhere)})
          \cup {Issue("warning", "unbound", s, a.id, Nowhere) : a \in {b \in enabled : b.keys = {}}}
          \cup {Issue("info", "shared-key", s, k, Nowhere) : k \in shared}

\* The hierarchy is evaluated entity by entity, each after its parents: the
\* climb ends at an entity evaluated before, at one met on this climb (a
\* cycle), too far up, or at one whose parent is itself or missing.
Solid(m, s) == OfKind(m, s, {"cube3d", "camera3d", "light3d"})
Parent(m, s, c) == IF Prop(m, c, "parent") \in Solid(m, s) \ {c} THEN Prop(m, c, "parent") ELSE Nowhere
Evaluated(m, s, acc, c) ==
  LET up[n \in 0..(DepthLimit + 1)] ==
        IF n = 0 THEN c
        ELSE IF up[n - 1] \in acc.done \cup {Nowhere} \/ \E k \in 0..(n - 2) : up[k] = up[n - 1]
        THEN Nowhere ELSE Parent(m, s, up[n - 1])
      climb == Range(up) \ {Nowhere}
      deep == {up[DepthLimit + 1]} \ (acc.done \cup {Nowhere})
      again == {x \in climb : \E n \in 1..DepthLimit : up[n] = x /\ \E k \in 0..(n - 1) : up[k] = x}
  IN [done |-> acc.done \cup climb, deep |-> acc.deep \cup deep, cycles |-> acc.cycles \cup again]
HierarchyIssues(m, s) ==
  LET order == SelectSeq(m.order, LAMBDA c : c \in Solid(m, s))
      found == FoldLeft(LAMBDA acc, c : Evaluated(m, s, acc, c),
                        [done |-> {}, deep |-> {}, cycles |-> {}], order)
      whole == Solid(m, s) \ found.deep
  IN OfComponent("self-parent", s, {c \in whole : Prop(m, c, "parent") = c})
     \cup OfComponent("missing-parent", s,
            {c \in whole : Prop(m, c, "parent") \notin Solid(m, s) \cup {Nowhere}})
     \cup OfComponent("cycle", s, found.cycles) \cup OfComponent("too-deep", s, found.deep)

CameraIssues3D(m, s) ==
  LET cameras == OfKind(m, s, {"camera3d"}) IN
  IF cameras = {} THEN {Issue("warning", "no-camera", s, Nowhere, Nowhere)}
  ELSE (IF \E c \in cameras : Prop(m, c, "active") = "yes" THEN {}
        ELSE {Issue("warning", "no-active-camera", s, Nowhere, Nowhere)})
       \cup OfComponent("field-of-view", s, {c \in cameras : "fov" \in m.comps[c].odd})
       \cup OfComponent("clip-planes", s, {c \in cameras : "near" \in m.comps[c].odd})

OddValues(m, s, types, keys) ==
  UNION {OfComponent(key, s, {c \in OfKind(m, s, types) : key \in m.comps[c].odd}) : key \in keys}

LightIssues3D(m, s) ==
  LET lit == {c \in OfKind(m, s, {"light3d"}) : Prop(m, c, "enabled") # "no"} IN
  OddValues(m, s, {"cube3d"}, {"color"})
  \cup OddValues(m, s, {"light3d"}, {"type", "color", "intensity", "radius"})
  \cup (IF Cardinality(lit) > LightLimit THEN {Issue("warning", "lights", s, Nowhere, Nowhere)} ELSE {})

ControllerIssues(m, s) ==
  LET controlled == {c \in OnScreen(m, s) : Prop(m, c, "controller") = "yes"} IN
  (IF Cardinality(controlled) > 1 THEN {Issue("warning", "controllers", s, Nowhere, Nowhere)} ELSE {})
  \cup (IF controlled = {} THEN {Issue("info", "no-controller", s, Nowhere, Nowhere)} ELSE {})
  \cup OfComponent("no-body", s, {c \in controlled : Prop(m, c, "body") # "dynamic"})
  \cup UNION {OfComponent(key, s, {c \in controlled : key \in m.comps[c].odd}) :
                key \in {"gravity", "moveSpeed", "jumpForce", "airControl"}}

\* A screen without a camera is not looked at further.
SceneIssues3D(m, s) ==
  IF m.type # "3d" THEN {}
  ELSE HierarchyIssues(m, s) \cup CameraIssues3D(m, s)
       \cup (IF OfKind(m, s, {"camera3d"}) = {} THEN {}
             ELSE LightIssues3D(m, s) \cup ControllerIssues(m, s))

LightIssues(m, s) == OddValues(m, s, {"light"}, {"intensity", "radius", "color"})
EmitterIssues(m, s) == OddValues(m, s, {"emitter"}, {"rate", "lifetime", "color"})
BodyIssues(m, s) ==
  UNION {OfComponent(key, s, {c \in OfKind(m, s, {"cube3d"}) :
                                /\ Prop(m, c, "body") \in {"static", "dynamic"}
                                /\ key \in m.comps[c].odd}) : key \in {"mass", "collider"}}

\* A machine has its clips, the clip of each state, its first state, its
\* transitions and their parameters.
AnimatorIssues(m, s) ==
  LET animated == {c \in OfKind(m, s, {"sprite", "player", "enemy"}) : m.comps[c].machine # <<>>}
      Machine(c) == m.comps[c].machine[1]
      States(c) == DOMAIN Machine(c).states
  IN OfComponent("clip", s, {c \in animated : ~(Range(Machine(c).states) \subseteq Machine(c).clips)})
     \cup OfComponent("default-state", s, {c \in animated : Machine(c).default \notin States(c)})
     \cup OfComponent("transition", s, {c \in animated :
            \E t \in Machine(c).transitions : ~({t.from, t.to} \subseteq States(c) \cup {"*"})})
     \cup OfComponent("parameter", s, {c \in animated :
            \E t \in Machine(c).transitions : ~(t.conds \subseteq Machine(c).params \cup {"speed"})})

\* Only the images' sources are looked up.
AssetIssues(m, s) ==
  OfComponent("asset", s, {c \in OfKind(m, s, {"image"}) :
                             Prop(m, c, "src") \notin m.assets \cup {Nowhere}})

CameraIssues(m, s) ==
  LET cameras == OfKind(m, s, {"camera"}) IN
  {Issue("error", "target", s, c, Nowhere) :
     c \in {d \in cameras : Prop(m, d, "follow") \notin Ids(m) \cup {Nowhere}}}
  \cup OfComponent("bounds", s, {c \in cameras : "bounds" \in m.comps[c].odd})
  \cup OfComponent("layer", s, {c \in OnScreen(m, s) \ cameras :
                                  Prop(m, c, "layer") \notin m.layers[s] \cup {Nowhere}})

\* A handler reacts to a component of its screen or to an action of it.
HandlerIssues(m, s) ==
  LET Of(severity, kind, hs) == {Issue(severity, kind, s, h.on, h.id) : h \in hs}
      hs == HandlersOf(m, s)
      Named(h) == {a \in ActionsOf(m, s) : a.id = h.action}
      acts == {h \in hs : h.action # Nowhere}
  IN Of("info", "no-blocks", {h \in hs : h.blocks = {}})
     \cup Of("error", "deleted-component", {h \in hs : h.on \notin OnScreen(m, s) \cup {"screen"}})
     \cup Of("warning", "no-action", {h \in acts : Named(h) = {}})
     \cup Of("warning", "disabled-action", {h \in acts : Named(h) # {} /\ \A a \in Named(h) : ~a.enabled})

Property == {"set-property", "get-property"}
Variable == {"set-variable", "get-variable"}

\* Mutant of DeadBlock: a property block may use its own screen only.
DeadBlockHere(m, s, b) ==
  \/ b.type = "navigate" /\ b.to \notin Range(m.tabs) \cup {Nowhere}
  \/ b.type \in Property /\ b.to \notin OnScreen(m, s) \cup {Nowhere}
  \/ b.type = "set-variable" /\ b.to \notin m.vars \cup {Nowhere}

\* Properties are looked up in the whole model, variables by their names.
DeadBlock(m, s, b) ==
  \/ b.type = "navigate" /\ b.to \notin Range(m.tabs) \cup {Nowhere}
  \/ b.type \in Property /\ b.to \notin Ids(m) \cup {Nowhere}
  \/ b.type \in Variable /\ b.to \notin m.vars \cup {Nowhere}

BlockIssues(m, s) ==
  UNION {{Issue("error", b.type, s, b.to, h.id) : b \in {x \in h.blocks : DeadBlock(m, s, x)}}
         \cup {Issue("info", b.type, s, b.to, h.id) : b \in {x \in h.blocks : x.type = "extension"}}
         : h \in HandlersOf(m, s)}

ScreenIssues(m, s) ==
  UNION {EmptyScreen(m, s), ActionIssues(m, s), SceneIssues3D(m, s), LightIssues(m, s),
         EmitterIssues(m, s), BodyIssues(m, s), AnimatorIssues(m, s), AssetIssues(m, s),
         CameraIssues(m, s), HandlerIssues(m, s), BlockIssues(m, s)}

\* The 3D section runs over every screen once per screen: what it finds is in
\* the list as often; the list is shown here without its repetitions.
Diagnostics(m) == UNION {ScreenIssues(m, s) : s \in Range(m.tabs)}

-----------------------------------------------------------------------------
(* The project map: the graph of what refers to what *)

GraphNode(kind, id) == <<kind, id>>
ComponentNode(s, c) == GraphNode("component", <<s, c>>)

\* Every thing of the model is a node.
ModelNodes(m) ==
  {GraphNode("screen", s) : s \in Range(m.tabs)} \cup {ComponentNode(m.comps[c].screen, c) : c \in Ids(m)}
  \cup {GraphNode("handler", h.id) : h \in m.handlers}
  \cup {GraphNode("variable", v) : v \in m.vars} \cup {GraphNode("asset", a) : a \in m.assets}

Edges(m) ==
  {<<ComponentNode(m.comps[c].screen, c), GraphNode("asset", Prop(m, c, "src")), "uses-asset">> :
     c \in {d \in Ids(m) : Prop(m, d, "src") # Nowhere}}
  \cup {<<GraphNode("handler", h.id), ComponentNode(h.screen, h.on), "wires">> :
           h \in {g \in m.handlers : g.on # "screen"}}
  \cup UNION {{<<GraphNode("handler", h.id), GraphNode("screen", b.to), "navigates">> :
                  b \in {x \in h.blocks : x.type = "navigate" /\ x.to # Nowhere}}
                \cup {<<GraphNode("handler", h.id), GraphNode("variable", b.to), "data">> :
                         b \in {x \in h.blocks : x.type \in Variable /\ x.to # Nowhere}} : h \in m.handlers}

\* The target of an edge becomes a node even when the model has no such thing,
\* except that of a handler's component.
GraphNodes(m) == ModelNodes(m) \cup {e[2] : e \in {x \in Edges(m) : x[3] # "wires"}}

\* What the map shows beside a picked node: the other ends of its edges that
\* are nodes.
RelationshipsOf(m, n) ==
  {e[2] : e \in {x \in Edges(m) : x[1] = n /\ x[2] \in GraphNodes(m)}}
  \cup {e[1] : e \in {x \in Edges(m) : x[2] = n}}

-----------------------------------------------------------------------------
(* The document *)

Spend(n) == refMoves < MaxRefMoves /\ refMoves' = refMoves + n
CommitRefs(m) == refModel' = m /\ refPast' = Append(refPast, refModel) /\ refFuture' = <<>>
Elsewhere == UNCHANGED <<assetVars, fixPrompt, drawer, insights>>

\* Nothing that refers to a removed thing is touched.
DropScreenRefs(s) ==
  /\ Spend(1) /\ Len(refModel.tabs) > 1
  /\ \E k \in DOMAIN refModel.tabs :
       /\ refModel.tabs[k] = s
       /\ CommitRefs([refModel EXCEPT !.tabs = RemoveAt(@, k),
                                       !.comps = Restrict(@, Ids(refModel) \ OnScreen(refModel, s)),
                                       !.handlers = {h \in @ : h.screen # s}])
  /\ UNCHANGED place /\ Elsewhere

DropComponent(c) ==
  /\ Spend(1)
  /\ CommitRefs([refModel EXCEPT !.comps = Restrict(@, Ids(refModel) \ {c})])
  /\ UNCHANGED place /\ Elsewhere

DropVariable(v) ==
  /\ Spend(1)
  /\ CommitRefs([refModel EXCEPT !.vars = @ \ {v}])
  /\ UNCHANGED place /\ Elsewhere

DropHandler(h) ==
  /\ Spend(1)
  /\ CommitRefs([refModel EXCEPT !.handlers = @ \ {h}])
  /\ UNCHANGED place /\ Elsewhere

\* An action is enabled or disabled, or loses its keys, or goes.
EditActions(s) ==
  /\ Spend(1)
  /\ \E i \in DOMAIN refModel.actions[s] :
       \E actions \in {RemoveAt(refModel.actions[s], i),
                       [refModel.actions[s] EXCEPT ![i].enabled = ~@],
                       [refModel.actions[s] EXCEPT ![i].keys = {}]} :
         CommitRefs([refModel EXCEPT !.actions[s] = actions])
  /\ UNCHANGED place /\ Elsewhere

RefUndo ==
  /\ Spend(1) /\ refPast # <<>>
  /\ refModel' = Last(refPast) /\ refPast' = Front(refPast) /\ refFuture' = <<refModel>> \o refFuture
  /\ adrift' = (adrift \/ refModel'.assets # refModel.assets)
  /\ UNCHANGED <<assetRows, assetList, batches, fixPrompt, place, drawer, insights>>

-----------------------------------------------------------------------------
(* The assets panel *)

OpenAssets ==
  /\ Spend(1) /\ assetList = NotListed
  /\ assetList' = assetRows
  /\ UNCHANGED <<refVars, assetRows, batches, adrift, fixPrompt, place, drawer, insights>>

Busy == \E b \in batches : b.left # <<>>

\* The files of one choice are uploaded one after the other; the model of the
\* click goes with them.
ChooseFiles ==
  /\ Spend(1) /\ assetList # NotListed /\ ~Busy /\ Cardinality(assetList) < AssetLimit
  /\ \E n \in 1..2 :
       LET unused == SelectSeq(Files, LAMBDA f : f \notin assetRows) IN
       /\ n <= Len(unused)
       /\ batches' = batches \cup {[left |-> SubSeq(unused, 1, n), gone |-> Nowhere, base |-> refModel]}
  /\ UNCHANGED <<refVars, assetRows, assetList, adrift, fixPrompt, place, drawer, insights>>

Drifts(b) == adrift' = (adrift \/ b.base # refModel)

\* A file is stored, and its reference is added to the model of the click.
Uploaded(b) ==
  LET a == Head(b.left)
      rest == [b EXCEPT !.left = Tail(@)] IN
  /\ b.left # <<>>
  /\ assetRows' = assetRows \cup {a}
  /\ IF a \in b.base.assets THEN UNCHANGED refVars
     ELSE CommitRefs([b.base EXCEPT !.assets = @ \cup {a}])
  /\ Drifts(b)
  /\ batches' = (batches \ {b}) \cup (IF rest.left = <<>> THEN {} ELSE {rest})
  /\ assetList' = IF rest.left = <<>> THEN assetRows' ELSE assetList
  /\ UNCHANGED <<fixPrompt, place, drawer, insights, refMoves>>

\* An upload or a deletion fails, before or after the server did it, and the
\* rest of its batch with it.
RequestFails(b) ==
  /\ batches' = batches \ {b}
  /\ \/ UNCHANGED <<assetRows, adrift>>
     \/ /\ assetRows' = IF b.left # <<>> THEN assetRows \cup {Head(b.left)} ELSE assetRows \ {b.gone}
        /\ adrift' = TRUE
  /\ UNCHANGED <<refVars, assetList, fixPrompt, place, drawer, insights, refMoves>>

DeleteAsset(a) ==
  /\ Spend(1)
  /\ batches' = batches \cup {[left |-> <<>>, gone |-> a, base |-> refModel]}
  /\ UNCHANGED <<refVars, assetRows, assetList, adrift, fixPrompt, place, drawer, insights>>

\* Mutant of Deleted: the reference stays.
DeletedRow(b) ==
  /\ b.gone # Nowhere /\ b.gone \in assetRows
  /\ assetRows' = assetRows \ {b.gone}
  /\ UNCHANGED refVars
  /\ Drifts(b) /\ batches' = batches \ {b} /\ assetList' = assetRows'
  /\ UNCHANGED <<fixPrompt, place, drawer, insights, refMoves>>

\* The row goes, then its reference in the model of the click.
Deleted(b) ==
  /\ b.gone # Nowhere /\ b.gone \in assetRows
  /\ assetRows' = assetRows \ {b.gone}
  /\ IF b.gone \notin b.base.assets THEN UNCHANGED refVars
     ELSE CommitRefs([b.base EXCEPT !.assets = @ \ {b.gone}])
  /\ Drifts(b) /\ batches' = batches \ {b} /\ assetList' = assetRows'
  /\ UNCHANGED <<fixPrompt, place, drawer, insights, refMoves>>

InsertImage(a) ==
  LET new == "image of " \o a
      s == IF place.screen \in Range(refModel.tabs) THEN place.screen ELSE refModel.tabs[1] IN
  /\ Spend(1) /\ new \notin Ids(refModel)
  /\ CommitRefs([refModel EXCEPT !.comps = [c \in DOMAIN @ \cup {new} |->
       IF c = new THEN [screen |-> s, type |-> "image", odd |-> {}, machine |-> <<>>, props |-> [src |-> a]]
       ELSE @[c]]])
  /\ UNCHANGED place /\ Elsewhere

UseInSelected(a) ==
  /\ Spend(1)
  /\ \E c \in {d \in Ids(refModel) : refModel.comps[d].type = "image"} :
       CommitRefs([refModel EXCEPT !.comps[c].props = ("src" :> a) @@ @])
  /\ UNCHANGED place /\ Elsewhere

AssetButtons ==
  \/ OpenAssets \/ ChooseFiles
  \/ assetList # NotListed /\ \E a \in assetList : DeleteAsset(a) \/ InsertImage(a) \/ UseInSelected(a)

-----------------------------------------------------------------------------
(* The diagnostics panel *)

Reading == UNCHANGED <<refVars, assetVars>>

ToggleDrawer ==
  /\ Spend(1) /\ drawer' \in {[drawer EXCEPT !.open = ~@]} \cup
       {[drawer EXCEPT !.filter = f] : f \in {"all", "error"} \ {drawer.filter}}
  /\ UNCHANGED <<fixPrompt, place, insights>> /\ Reading

VisibleIssues == {i \in Diagnostics(refModel) : drawer.filter \in {"all", i.severity}}

\* Leaving the insights mode forgets what it showed.
NotPicked == GraphNode(Nowhere, Nowhere)
NoReport == {NotPicked}
Closed == [tab |-> "health", report |-> NoReport, picked |-> NotPicked]
Go(mode, s, h) ==
  /\ place' = [mode |-> mode, screen |-> s, handler |-> h]
  /\ insights' = IF mode = "insights" THEN insights ELSE Closed

\* An issue leads to its screen, and to its handler among the blocks.
OpenIssue ==
  /\ Spend(1) /\ drawer.open
  /\ \E i \in VisibleIssues : Go(IF i.handler = Nowhere THEN place.mode ELSE "blocks", i.screen, i.handler)
  /\ UNCHANGED <<fixPrompt, drawer>> /\ Reading

FixWithAI ==
  LET fixable == {i \in Diagnostics(refModel) : i.severity # "info"} IN
  /\ Spend(1) /\ fixable # {}
  /\ fixPrompt' = fixable
  /\ UNCHANGED <<place, drawer, insights>> /\ Reading

-----------------------------------------------------------------------------
(* Insights: the server's report and the map *)

OpenInsights ==
  /\ Spend(1) /\ place.mode # "insights"
  /\ place' = [place EXCEPT !.mode = "insights"]
  /\ UNCHANGED <<fixPrompt, drawer, insights>> /\ Reading

ChooseTab ==
  /\ Spend(0) /\ place.mode = "insights"
  /\ \E t \in {"health", "map", "dna"} \ {insights.tab} :
       insights' = [insights EXCEPT !.tab = t, !.picked = NotPicked]
  /\ UNCHANGED <<fixPrompt, place, drawer>> /\ Reading

\* The report is asked for once: what it says is of the model saved then.
ReportArrives ==
  /\ place.mode = "insights" /\ insights.report = NoReport
  /\ \E m \in {refModel} \cup Range(refPast) :
       insights' = [insights EXCEPT !.report = {<<h.screen, h.id>> : h \in m.handlers}]
  /\ UNCHANGED <<fixPrompt, place, drawer, refMoves>> /\ Reading

\* An issue of the report leads where it was.
OpenReported ==
  /\ Spend(1) /\ place.mode = "insights" /\ insights.tab = "health" /\ insights.report # NoReport
  /\ \E i \in insights.report : Go("blocks", i[1], i[2])
  /\ UNCHANGED <<fixPrompt, drawer>> /\ Reading

PickNode ==
  /\ Spend(1) /\ place.mode = "insights" /\ insights.tab = "map"
  /\ \E n \in ModelNodes(refModel) : insights' = [insights EXCEPT !.picked = n]
  /\ UNCHANGED <<fixPrompt, place, drawer>> /\ Reading

\* A row of the inspector: a screen, a component or a handler is gone to,
\* another node is picked.
RelationshipRow(n) ==
  CASE n[1] = "screen" -> Go("design", n[2], Nowhere)
    [] n[1] = "component" -> Go("design", n[2][1], Nowhere)
    [] n[1] = "handler" ->
         Go("blocks", (CHOOSE h \in refModel.handlers : h.id = n[2]).screen, n[2])
    [] OTHER -> UNCHANGED place /\ insights' = [insights EXCEPT !.picked = n]

\* The inspector of the picked node lists what it relates to.
FollowEdge ==
  /\ Spend(1) /\ place.mode = "insights" /\ insights.picked \in GraphNodes(refModel)
  /\ \E n \in RelationshipsOf(refModel, insights.picked) : RelationshipRow(n)
  /\ UNCHANGED <<fixPrompt, drawer>> /\ Reading

-----------------------------------------------------------------------------
InsightsInit ==
  /\ refModel \in RefProjects /\ refPast = <<>> /\ refFuture = <<>>
  /\ assetRows = refModel.assets /\ assetList = NotListed /\ batches = {} /\ adrift = FALSE
  /\ fixPrompt = {} /\ place = [mode |-> "design", screen |-> refModel.tabs[1], handler |-> Nowhere]
  /\ drawer = [open |-> FALSE, filter |-> "all"]
  /\ insights = Closed
  /\ refMoves = 0

RefEdits ==
  \/ \E s \in Range(refModel.tabs) : DropScreenRefs(s) \/ EditActions(s)
  \/ \E c \in Ids(refModel) : DropComponent(c)
  \/ \E v \in refModel.vars : DropVariable(v)
  \/ \E h \in refModel.handlers : DropHandler(h)
  \/ RefUndo

DiagnosticsPanel == ToggleDrawer \/ OpenIssue \/ FixWithAI
InsightsMode == OpenInsights \/ ChooseTab \/ ReportArrives \/ OpenReported
ProjectMap == PickNode \/ FollowEdge

InsightsNext ==
  \/ RefEdits \/ AssetButtons
  \/ \E b \in batches : Uploaded(b) \/ Deleted(b) \/ RequestFails(b)
  \/ DiagnosticsPanel \/ InsightsMode \/ ProjectMap

InsightsSpec == InsightsInit /\ [][InsightsNext]_insightVars

-----------------------------------------------------------------------------
(* Properties *)

\* The map and the diagnostics agree on what is broken, after any edits: each
\* edge the map draws from a handler to a screen or a variable that the project
\* lacks is reported at that handler, and the other way round; so is a handler
\* whose component the map does not show, and an asset only the map knows of is
\* reported at each image that shows it (graph.ts and diagnostics.ts walk the
\* model separately).
MapAndDiagnosticsAgree ==
  Ids(refModel) # {} \/ refModel.handlers # {} =>
  LET issues == Diagnostics(refModel)
      lost == {e \in Edges(refModel) : e[2] \notin ModelNodes(refModel)}
      Drawn(kind) == {<<e[1][2], e[2][2]>> : e \in {x \in lost : x[3] = kind}}
      Named(kinds) == {<<i.handler, i.at>> : i \in {j \in issues : j.kind \in kinds /\ j.severity = "error"}}
  IN /\ Drawn("navigates") = Named({"navigate"})
     /\ Drawn("data") = Named(Variable)
     /\ {<<p[1], p[2][2]>> : p \in Drawn("wires")} = Named({"deleted-component"})
     /\ {i.at : i \in {j \in issues : j.kind = "asset"}} =
          {p[1][2] : p \in {q \in Drawn("uses-asset") : refModel.comps[q[1][2]].type = "image"}}

\* With no request under way, the project refers to exactly the assets that
\* are stored, whichever files or deletions failed half way, unless an undo
\* crossed one, an answer was lost, or one landed on a model that had changed
\* since its click (a second file of one choice always does).
AssetsAreReferenced ==
  batches = {} /\ ~adrift => refModel.assets = assetRows
=============================================================================
