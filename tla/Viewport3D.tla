----------------------------- MODULE Viewport3D -----------------------------
(***************************************************************************)
(* The 3D scene editor (runtime/viewport-3d.tsx in editor mode): picking,  *)
(* the transform gizmo, its group tools and the hierarchy panel.  Keys of  *)
(* the viewport and of the builder may fall between a press and its        *)
(* release.                                                                *)
(*                                                                         *)
(* Space is one line.  A node has a place, a half turn and a size, all     *)
(* relative to its parent; what lies under the pointer is any node or      *)
(* none, whatever the camera.                                              *)
(***************************************************************************)
EXTENDS Integers, Sequences, SequencesExt, FiniteSetsExt

CONSTANTS NodeIds,      \* sequence of ids, in creation order
          StartNodes,   \* the scene as loaded
          PointerShifts,\* how far a pointer may be from where it was pressed
          Slack,        \* how far it may travel and still click
          SnapStep,
          SizeLimit,
          MaxPicks      \* bound: presses and panel clicks

ASSUME ViewportAssumption ==
  /\ {Slack, SnapStep, SizeLimit, MaxPicks} \subseteq Nat \ {0} /\ PointerShifts \subseteq Int

VARIABLES nodes,                  \* existing nodes: [at, flip, size, up]
          nodesPast, nodesFuture,
          picked,                 \* the builder's selected id
          multiPicked,            \* the viewport's own selection
          gizmoTool, snapping,
          press,                  \* the pressed pointer: how far it travelled
          gizmoDrag,              \* the handle it drags
          picks                   \* presses so far (bookkeeping of the bound)

nodeHistory == <<nodes, nodesPast, nodesFuture>>
viewVars == <<nodeHistory, picked, multiPicked, gizmoTool, snapping, press, gizmoDrag, picks>>

NoNode == "no node"
NotPressed == [down |-> FALSE, at |-> 0, travel |-> 0]
NotDragging == [id |-> NoNode]
Tools == {"select", "move", "rotate", "scale"}

ViewInit ==
  /\ nodes = StartNodes /\ nodesPast = <<>> /\ nodesFuture = <<>>
  /\ picked = NoNode /\ multiPicked = {}
  /\ gizmoTool = "move" /\ snapping = FALSE
  /\ press = NotPressed /\ gizmoDrag = NotDragging /\ picks = 0

-----------------------------------------------------------------------------
(* World transforms *)

Origin == [at |-> 0, flip |-> FALSE, size |-> 1]
Sign(frame) == IF frame.flip THEN -1 ELSE 1

\* A parent's world applied to a local transform, and undone from a place.
Compose(world, local) ==
  [at |-> world.at + Sign(world) * world.size * local.at,
   flip |-> world.flip # local.flip, size |-> world.size * local.size]
ToLocal(world, place) == Sign(world) * ((place - world.at) \div world.size)

\* A node whose parent is missing is a root.
Worlds(ns) ==
  LET world[e \in DOMAIN ns] ==
        Compose(IF ns[e].up \in DOMAIN ns THEN world[ns[e].up] ELSE Origin, ns[e])
  IN world
ParentWorld(ns, e) == IF ns[e].up \in DOMAIN ns THEN Worlds(ns)[ns[e].up] ELSE Origin

-----------------------------------------------------------------------------
(* The document and the selection *)

\* A change of the document or of the selected node empties the viewport's
\* own selection.
CommitNodes(next) ==
  /\ next # nodes /\ nodes' = next
  /\ nodesPast' = Append(nodesPast, nodes) /\ nodesFuture' = <<>>
  /\ multiPicked' = {}

Pick(e) ==
  /\ picked' = e
  /\ multiPicked' = IF e = picked THEN multiPicked ELSE {}

UndoNodes ==
  /\ nodesPast # <<>>
  /\ nodes' = Last(nodesPast) /\ nodesPast' = Front(nodesPast)
  /\ nodesFuture' = <<nodes>> \o nodesFuture
  /\ picked' = NoNode /\ multiPicked' = {}
  /\ UNCHANGED <<gizmoTool, snapping, press, gizmoDrag, picks>>

RedoNodes ==
  /\ nodesFuture # <<>>
  /\ nodes' = Head(nodesFuture) /\ nodesFuture' = Tail(nodesFuture)
  /\ nodesPast' = Append(nodesPast, nodes)
  /\ picked' = NoNode /\ multiPicked' = {}
  /\ UNCHANGED <<gizmoTool, snapping, press, gizmoDrag, picks>>

\* removeComponent3D moves the children up; the builder's Delete key takes
\* the node alone.
Removed(ns, e) ==
  [m \in DOMAIN ns \ {e} |-> IF ns[m].up = e THEN [ns[m] EXCEPT !.up = ns[e].up] ELSE ns[m]]

DeleteNodeKey ==
  /\ picked \in DOMAIN nodes
  /\ CommitNodes([m \in DOMAIN nodes \ {picked} |-> nodes[m]])
  /\ picked' = NoNode
  /\ UNCHANGED <<gizmoTool, snapping, press, gizmoDrag, picks>>

\* Copies of the node and of all below it, linked among themselves; the copy
\* of the node is a root.
NodesBelow(ns, e) ==
  LET reach[n \in Nat] ==
        IF n = 0 THEN {e} ELSE reach[n - 1] \cup {m \in DOMAIN ns : ns[m].up \in reach[n - 1]}
  IN reach[Cardinality(DOMAIN ns)]
UsedNodes == UNION {DOMAIN h : h \in Range(nodesPast) \cup Range(nodesFuture) \cup {nodes}}
Duplicated(ns, e) ==
  LET originals == SetToSeq(NodesBelow(ns, e))
      fresh == SelectSeq(NodeIds, LAMBDA m : m \notin UsedNodes \cup DOMAIN ns)
      copy(m) == fresh[CHOOSE k \in DOMAIN originals : originals[k] = m] IN
  IF Len(fresh) < Len(originals) THEN ns
  ELSE [c \in {copy(m) : m \in Range(originals)} |->
          LET m == CHOOSE o \in Range(originals) : copy(o) = c IN
          [ns[m] EXCEPT !.up = IF @ \in Range(originals) THEN copy(@) ELSE NoNode]] @@ ns

-----------------------------------------------------------------------------
(* The gizmo *)

Click == picks < MaxPicks /\ picks' = picks + 1

\* A press on a handle of the picked node starts a drag, with the kind of the
\* tool and the transforms of the moment.
PressHandle ==
  /\ Click /\ ~press.down /\ gizmoTool # "select" /\ picked \in DOMAIN nodes
  /\ press' = [NotPressed EXCEPT !.down = TRUE]
  /\ gizmoDrag' = [id |-> picked, kind |-> gizmoTool, start |-> nodes[picked],
              center |-> Worlds(nodes)[picked].at, parent |-> ParentWorld(nodes, picked),
              shift |-> 0, current |-> nodes[picked]]
  /\ UNCHANGED <<nodeHistory, picked, multiPicked, gizmoTool, snapping>>

\* A press anywhere else, or on a handle that lies along the ray, turns the
\* camera.
PressElsewhere ==
  /\ Click /\ ~press.down
  /\ press' = [NotPressed EXCEPT !.down = TRUE]
  /\ UNCHANGED <<nodeHistory, picked, multiPicked, gizmoTool, snapping, gizmoDrag>>

Snapped(d) == IF snapping THEN ((d + SnapStep \div 2) \div SnapStep) * SnapStep ELSE d

\* Mutant of Dragged: the world's displacement is added to the local place.
DraggedLocally(g, d) ==
  CASE g.kind = "move" -> [g.start EXCEPT !.at = @ + Snapped(d)]
    [] g.kind = "rotate" -> [g.start EXCEPT !.flip = @ # (Snapped(d) # 0)]
    [] OTHER -> [g.start EXCEPT !.size = Max({1, Min({SizeLimit, @ + Snapped(d)})})]

\* Each move is worked out from the start of the drag: a displacement in the
\* world brought into the parent's space, an angle, or a clamped factor.
Dragged(g, d) ==
  CASE g.kind = "move" -> [g.start EXCEPT !.at = ToLocal(g.parent, g.center + Snapped(d))]
    [] g.kind = "rotate" -> [g.start EXCEPT !.flip = @ # (Snapped(d) # 0)]
    [] OTHER -> [g.start EXCEPT !.size = Max({1, Min({SizeLimit, @ + Snapped(d)})})]

Travelled(d) == Min({Slack + 1, press.travel + (IF d > press.at THEN d - press.at ELSE press.at - d)})

PointerMove(d) ==
  /\ press.down /\ d # press.at
  /\ press' = [press EXCEPT !.at = d, !.travel = Travelled(d)]
  /\ gizmoDrag' = IF gizmoDrag = NotDragging THEN gizmoDrag
             ELSE [gizmoDrag EXCEPT !.shift = Snapped(d), !.current = Dragged(gizmoDrag, d)]
  /\ UNCHANGED <<nodeHistory, picked, multiPicked, gizmoTool, snapping, picks>>

\* One commit of all channels of the drag.
DropHandle ==
  IF gizmoDrag.id \in DOMAIN nodes
  THEN /\ nodes' = [nodes EXCEPT ![gizmoDrag.id] = [gizmoDrag.current EXCEPT !.up = nodes[gizmoDrag.id].up]]
       /\ nodesPast' = Append(nodesPast, nodes) /\ nodesFuture' = <<>>
  ELSE UNCHANGED nodeHistory

\* The click that follows a release is ignored when the pointer travelled; a
\* control click toggles, another picks what it hits.
ClickOn(under, ctrl, multi) ==
  IF press.travel > Slack THEN picked' = picked /\ multiPicked' = multi
  ELSE IF ~ctrl THEN picked' = (IF under = NoNode THEN picked ELSE under) /\ multiPicked' = {}
  ELSE /\ picked' = picked
       /\ multiPicked' = IF under \in multi THEN multi \ {under} ELSE multi \cup ({under} \ {NoNode})

ReleasePointer(under, ctrl) ==
  /\ press.down
  /\ press' = NotPressed /\ gizmoDrag' = NotDragging
  /\ DropHandle
  /\ ClickOn(under, ctrl, IF gizmoDrag.id \in DOMAIN nodes THEN {} ELSE multiPicked)
  /\ UNCHANGED <<gizmoTool, snapping, picks>>

\* Escape cancels a drag, else empties the viewport's selection, else the
\* builder's.
EscapeView ==
  /\ IF gizmoDrag # NotDragging THEN gizmoDrag' = NotDragging /\ UNCHANGED <<picked, multiPicked>>
     ELSE /\ gizmoDrag' = gizmoDrag
          /\ multiPicked # {} \/ picked # NoNode
          /\ multiPicked' = {}
          /\ picked' = IF multiPicked # {} THEN picked ELSE NoNode
  /\ UNCHANGED <<nodeHistory, gizmoTool, snapping, press, picks>>

\* The toolbar, and its keys, which are heard in a drag too.
ChooseGizmo ==
  /\ Click
  /\ \/ \E t \in Tools \ {gizmoTool} : gizmoTool' = t /\ snapping' = snapping
     \/ snapping' = ~snapping /\ gizmoTool' = gizmoTool
  /\ UNCHANGED <<nodeHistory, picked, multiPicked, press, gizmoDrag>>

-----------------------------------------------------------------------------
(* The group tools and the hierarchy panel *)

GroupTools ==
  LET each(Op(_, _)) == FoldSet(LAMBDA e, ns : IF e \in DOMAIN ns THEN Op(ns, e) ELSE ns,
                                nodes, multiPicked) IN
  /\ Click /\ ~press.down /\ multiPicked # {}
  /\ \/ CommitNodes(each(Duplicated))
     \/ CommitNodes(each(Removed))
     \/ multiPicked' = {} /\ UNCHANGED nodeHistory
  /\ UNCHANGED <<picked, gizmoTool, snapping, press, gizmoDrag>>

HierarchyPanel ==
  /\ Click /\ ~press.down
  /\ \E e \in DOMAIN nodes :
       \/ Pick(e) /\ UNCHANGED nodeHistory
       \/ CommitNodes(Duplicated(nodes, e)) /\ picked' = picked
       \/ CommitNodes(Removed(nodes, e)) /\ picked' = picked
  /\ UNCHANGED <<gizmoTool, snapping, press, gizmoDrag>>

ViewNext ==
  \/ PressHandle \/ PressElsewhere
  \/ \E d \in PointerShifts : PointerMove(d)
  \/ \E under \in DOMAIN nodes \cup {NoNode}, ctrl \in BOOLEAN : ReleasePointer(under, ctrl)
  \/ EscapeView \/ ChooseGizmo \/ GroupTools \/ HierarchyPanel
  \/ UndoNodes \/ RedoNodes \/ DeleteNodeKey

ViewSpec == ViewInit /\ [][ViewNext]_viewVars

-----------------------------------------------------------------------------
(* Properties *)

\* A released drag is one undo entry, selects nothing when the pointer
\* travelled, and leaves a moved node as far from where it was as the pointer
\* went (in steps when snapping), whatever its parent's turn and size: the
\* inverse of updateGizmoDrag against the transforms that draw.  A parent
\* that keys changed in the drag is the exception: the inverse is of the
\* press.
ReleaseLandsUnderThePointer ==
  [][\A under \in DOMAIN nodes, ctrl \in BOOLEAN : ReleasePointer(under, ctrl) =>
       /\ Len(nodesPast') <= Len(nodesPast) + 1
       /\ press.travel > Slack => picked' = picked /\ multiPicked' \subseteq multiPicked
       /\ gizmoDrag.id \in DOMAIN nodes /\ gizmoDrag.kind = "move"
            /\ ParentWorld(nodes, gizmoDrag.id) = gizmoDrag.parent =>
              Worlds(nodes')[gizmoDrag.id].at = gizmoDrag.center + gizmoDrag.shift]_viewVars
=============================================================================
