----------------------------- MODULE SceneCanvas -----------------------------
(***************************************************************************)
(* The 2D scene editor (builder/scene-canvas.tsx): gestures that move,     *)
(* resize, paint, fill and sweep over the entities of one scene, each      *)
(* committed through the builder's undoable history.  Keys of the builder  *)
(* (undo, redo, delete, escape) may fall between a press and its release.  *)
(*                                                                         *)
(* The stage is one line: an entity has a place and a width, and a tilemap *)
(* has cells besides.  There is one pointer.                               *)
(***************************************************************************)
EXTENDS Integers, Sequences, SequencesExt, FiniteSetsExt

CONSTANTS StageIds,      \* ids an entity may get
          StartStage,    \* the scene as loaded
          GridCols, GridRows,
          TileValues,    \* the palette
          Sweeps,        \* from where to where a selection is swept
          Shifts,        \* how far a pointer may be from where it was pressed
          MaxPresses       \* bound: presses of the pointer

Cells == (0..(GridCols - 1)) \X (0..(GridRows - 1))

ASSUME StageAssumption ==
  /\ {GridCols, GridRows, MaxPresses} \subseteq Nat /\ Shifts \subseteq Int /\ 0 \notin TileValues
  /\ DOMAIN StartStage \subseteq StageIds
  /\ \A e \in DOMAIN StartStage :
       StartStage[e] \in [at : Nat, size : Nat, tiles : {<<>>} \cup [Cells -> Nat]]

VARIABLES stage,               \* existing entities: [at, size, tiles]
          stagePast, stageFuture,
          chosen,              \* the builder's selected id
          multiIds,            \* the canvas's own selection
          live,                \* rectangles shown instead of the model's
          gesture,             \* what the pressed pointer is doing
          tool, activeTile,
          presses              \* presses so far (bookkeeping of the bound)

stageHistory == <<stage, stagePast, stageFuture>>
canvasVars == <<stageHistory, chosen, multiIds, live, gesture, tool, activeTile, presses>>

NoOne == "none"
NoGesture == [kind |-> "none"]
Press == gesture = NoGesture /\ presses < MaxPresses /\ presses' = presses + 1
TileTools == {"paint", "erase", "fill", "erasefill"}
IsTilemap(e) == stage[e].tiles # <<>>
OnStage(e) == IF e \in DOMAIN live THEN live[e] ELSE stage[e]
Longest(n) == IF n < 0 THEN 0 ELSE n

CanvasInit ==
  /\ stage = StartStage /\ stagePast = <<>> /\ stageFuture = <<>> /\ presses = 0
  /\ chosen = NoOne /\ multiIds = {} /\ live = <<>> /\ gesture = NoGesture
  /\ tool = "select" /\ activeTile \in TileValues

-----------------------------------------------------------------------------
(* The history and the selection *)

CommitStage(next) ==
  /\ stage' = next
  /\ stagePast' = Append(stagePast, stage) /\ stageFuture' = <<>>

\* updateComponent: a missing entity leaves the model, and the history, alone.
UpdateProps(e, tiles) ==
  IF e \in DOMAIN stage THEN CommitStage([stage EXCEPT ![e].tiles = tiles])
  ELSE UNCHANGED stageHistory

\* A change of the selected entity empties the canvas's own selection.
Choose(e, multi) ==
  /\ chosen' = e
  /\ multiIds' = IF e = chosen THEN multi ELSE {}

UndoKey ==
  /\ stagePast # <<>>
  /\ stage' = Last(stagePast) /\ stagePast' = Front(stagePast)
  /\ stageFuture' = <<stage>> \o stageFuture
  /\ Choose(NoOne, multiIds)
  /\ UNCHANGED <<live, gesture, tool, activeTile, presses>>

RedoKey ==
  /\ stageFuture # <<>>
  /\ stage' = Head(stageFuture) /\ stageFuture' = Tail(stageFuture)
  /\ stagePast' = Append(stagePast, stage)
  /\ Choose(NoOne, multiIds)
  /\ UNCHANGED <<live, gesture, tool, activeTile, presses>>

Without(gone) == [e \in DOMAIN stage \ gone |-> stage[e]]

DeleteKey ==
  /\ chosen # NoOne
  /\ IF chosen \in DOMAIN stage THEN CommitStage(Without({chosen})) ELSE UNCHANGED stageHistory
  /\ Choose(NoOne, multiIds)
  /\ UNCHANGED <<live, gesture, tool, activeTile, presses>>

EscapeKey ==
  /\ chosen # NoOne
  /\ Choose(NoOne, multiIds)
  /\ UNCHANGED <<stageHistory, live, gesture, tool, activeTile, presses>>

-----------------------------------------------------------------------------
(* Tiles *)

Beside(c) == {<<c[1] - 1, c[2]>>, <<c[1] + 1, c[2]>>, <<c[1], c[2] - 1>>, <<c[1], c[2] + 1>>} \cap Cells

\* Does a fill of what c holds take d too; 0 is a cell that is not painted.
Matches(tiles, c, d) == IF tool = "fill" THEN tiles[d] = tiles[c] ELSE tiles[d] # 0

\* The breadth-first walk, a ring of neighbours at a time.
Flood(tiles, c) ==
  LET ring[n \in Nat] ==
        IF n = 0 THEN {c}
        ELSE ring[n - 1] \cup {d \in Cells : Matches(tiles, c, d) /\ \E b \in ring[n - 1] : d \in Beside(b)}
  IN ring[GridCols * GridRows]

\* Fill and erase-fill change a whole region in one commit, and nothing when
\* the cell holds the tile already, or is empty.
Fill(e, c) ==
  LET tiles == stage[e].tiles IN
  /\ Press /\ tool \in {"fill", "erasefill"} /\ IsTilemap(e)
  /\ IF tool = "fill" THEN tiles[c] # activeTile ELSE tiles[c] # 0
  /\ LET region == Flood(tiles, c) IN
     UpdateProps(e, [d \in Cells |->
       IF d \notin region THEN tiles[d] ELSE IF tool = "fill" THEN activeTile ELSE 0])
  /\ UNCHANGED <<chosen, multiIds, live, gesture, tool, activeTile>>

\* A stroke writes cells on the map of its press, and commits each change.
PaintCell(g, c) ==
  LET value == IF g.mode = "paint" THEN activeTile ELSE 0
      tiles == [g.tiles EXCEPT ![c] = value] IN
  /\ g.tiles[c] # value
  /\ UpdateProps(g.id, tiles)
  /\ gesture' = [g EXCEPT !.tiles = tiles]

Stroke(e) == [kind |-> "stroke", id |-> e, mode |-> tool, tiles |-> stage[e].tiles]

\* The press paints a cell when it is not painted so already.
StartStroke(e, c) ==
  /\ Press /\ tool \in {"paint", "erase"} /\ IsTilemap(e)
  /\ PaintCell(Stroke(e), c)
       \/ /\ stage[e].tiles[c] = IF tool = "paint" THEN activeTile ELSE 0
          /\ gesture' = Stroke(e) /\ UNCHANGED stageHistory
  /\ UNCHANGED <<chosen, multiIds, live, tool, activeTile>>

StrokeOn(c) ==
  /\ gesture.kind = "stroke"
  /\ PaintCell(gesture, c)
  /\ UNCHANGED <<chosen, multiIds, live, tool, activeTile, presses>>

-----------------------------------------------------------------------------
(* Drags *)

\* A control click only toggles; a press chooses the entity and takes along
\* the selection it belongs to, as it was before that choice resets it.
ControlClick(e) ==
  /\ Press /\ ~(tool \in TileTools /\ IsTilemap(e))
  /\ multiIds' = IF e \in multiIds THEN multiIds \ {e} ELSE multiIds \cup {e}
  /\ UNCHANGED <<stageHistory, chosen, live, gesture, tool, activeTile>>

StartDrag(e, kind) ==
  LET together == Cardinality(multiIds) > 1 /\ e \in multiIds
      group == IF together THEN multiIds \cap DOMAIN stage ELSE {e} IN
  /\ Press
  /\ kind = "move" => ~(tool \in TileTools /\ IsTilemap(e))
  /\ kind = "resize" => chosen = e
  /\ Choose(e, IF Cardinality(multiIds) > 1 /\ e \notin multiIds THEN {} ELSE multiIds)
  /\ gesture' = [kind |-> kind, id |-> e, origin |-> [m \in group |-> OnStage(m)]]
  /\ UNCHANGED <<stageHistory, live, tool, activeTile>>

DragTo(d) ==
  LET from == gesture.origin IN
  /\ gesture.kind \in {"move", "resize"}
  /\ live' = IF gesture.kind = "resize"
             THEN [m \in DOMAIN live \cup {gesture.id} |->
                     IF m = gesture.id THEN [from[m] EXCEPT !.size = Max({1, @ + d})] ELSE live[m]]
             ELSE [m \in DOMAIN live \cup DOMAIN from |->
                     IF m \in DOMAIN from THEN [from[m] EXCEPT !.at = Longest(@ + d)] ELSE live[m]]
  /\ UNCHANGED <<stageHistory, chosen, multiIds, gesture, tool, activeTile, presses>>

\* Mutant of DroppedStage: the group stays, only the entity under the pointer goes.
DroppedAlone ==
  [m \in DOMAIN stage |->
     IF m # gesture.id THEN stage[m]
     ELSE IF gesture.kind = "move" THEN [stage[m] EXCEPT !.at = live[m].at]
     ELSE [stage[m] EXCEPT !.size = live[m].size]]

\* What one commit writes: the places of the whole group, or one size.
DroppedStage ==
  LET moved == IF gesture.kind = "move" THEN DOMAIN gesture.origin ELSE {gesture.id} IN
  [m \in DOMAIN stage |->
     IF m \notin moved THEN stage[m]
     ELSE IF gesture.kind = "move" THEN [stage[m] EXCEPT !.at = live[m].at]
     ELSE [stage[m] EXCEPT !.size = live[m].size]]

\* One commit per gesture, none when nothing moved or nothing is left of it.
Release ==
  /\ gesture.kind \in {"move", "resize"}
  /\ gesture' = NoGesture
  /\ IF gesture.id \notin DOMAIN live THEN UNCHANGED <<stageHistory, live>>
     ELSE /\ IF DOMAIN stage \cap (IF gesture.kind = "move" THEN DOMAIN gesture.origin
                                   ELSE {gesture.id}) # {}
             THEN CommitStage(DroppedStage) ELSE UNCHANGED stageHistory
          /\ live' = [m \in DOMAIN live \ DOMAIN gesture.origin |-> live[m]]
  /\ UNCHANGED <<chosen, multiIds, tool, activeTile, presses>>

EndStroke ==
  /\ gesture.kind = "stroke"
  /\ gesture' = NoGesture
  /\ UNCHANGED <<stageHistory, chosen, multiIds, live, tool, activeTile, presses>>

\* A sweep over the empty stage, seeing the entities of its press; a click
\* empties the selection.
StartSweep ==
  /\ Press /\ tool = "select"
  /\ gesture' = [kind |-> "sweep", seen |-> stage]
  /\ UNCHANGED <<stageHistory, chosen, multiIds, live, tool, activeTile>>

EndSweep(from, to) ==
  LET seen == gesture.seen IN
  /\ gesture.kind = "sweep"
  /\ gesture' = NoGesture
  /\ multiIds' = {e \in DOMAIN seen : seen[e].at < to /\ seen[e].at + seen[e].size > from}
  /\ UNCHANGED <<stageHistory, chosen, live, tool, activeTile, presses>>

-----------------------------------------------------------------------------
(* The toolbars *)

Align(mode) ==
  LET members == multiIds \cap DOMAIN stage
      low == Min({OnStage(m).at : m \in members})
      high == Max({OnStage(m).at + OnStage(m).size : m \in members})
      place(m) == CASE mode = "left" -> low
                    [] mode = "right" -> high - OnStage(m).size
                    [] OTHER -> (low + high - OnStage(m).size + 1) \div 2 IN
  /\ Press /\ Cardinality(members) > 1
  /\ CommitStage([m \in DOMAIN stage |->
       IF m \in members THEN [stage[m] EXCEPT !.at = place(m)] ELSE stage[m]])
  /\ live' = <<>>
  /\ UNCHANGED <<chosen, multiIds, gesture, tool, activeTile>>

\* Each copy takes an id that was never used.
UsedIds == DOMAIN stage \cup (UNION {DOMAIN stagePast[i] : i \in DOMAIN stagePast})
             \cup (UNION {DOMAIN stageFuture[i] : i \in DOMAIN stageFuture})
FreshStageIds == StageIds \ UsedIds
CopyIds(originals) ==
  CHOOSE f \in [originals -> FreshStageIds] : \A m, n \in originals : f[m] = f[n] => m = n
WithCopies(originals) ==
  LET ids == CopyIds(originals) IN
  [e \in DOMAIN stage \cup {ids[m] : m \in originals} |->
     IF e \in DOMAIN stage THEN stage[e] ELSE stage[CHOOSE m \in originals : ids[m] = e]]

GroupDuplicate ==
  LET members == multiIds \cap DOMAIN stage IN
  /\ Press /\ Cardinality(multiIds) > 1 /\ members # {} /\ Cardinality(FreshStageIds) >= Cardinality(members)
  /\ CommitStage(WithCopies(members))
  /\ UNCHANGED <<chosen, multiIds, live, gesture, tool, activeTile>>

GroupDelete ==
  LET members == multiIds \cap DOMAIN stage IN
  /\ Press /\ Cardinality(multiIds) > 1
  /\ IF members = {} THEN UNCHANGED <<stageHistory, chosen>>
     ELSE CommitStage(Without(members)) /\ chosen' = NoOne
  /\ multiIds' = {}
  /\ UNCHANGED <<live, gesture, tool, activeTile>>

GroupToolbar == GroupDuplicate \/ GroupDelete \/ \E mode \in {"left", "center", "right"} : Align(mode)

\* The chip of the chosen entity: duplicate (the copy is chosen) or delete.
EntityChip ==
  /\ Press /\ chosen \in DOMAIN stage
  /\ \/ /\ FreshStageIds # {}
        /\ CommitStage(WithCopies({chosen}))
        /\ Choose(CopyIds({chosen})[chosen], multiIds)
     \/ CommitStage(Without({chosen})) /\ Choose(NoOne, multiIds)
  /\ UNCHANGED <<live, gesture, tool, activeTile>>

ChooseTool(t, v) ==
  /\ Press /\ <<t, v>> # <<tool, activeTile>>
  /\ tool' = t /\ activeTile' = v
  /\ UNCHANGED <<stageHistory, chosen, multiIds, live, gesture>>

-----------------------------------------------------------------------------
PointerOnStage ==
  \/ \E e \in DOMAIN stage :
       \/ ControlClick(e)
       \/ \E kind \in {"move", "resize"} : StartDrag(e, kind)
       \/ IsTilemap(e) /\ \E c \in Cells : Fill(e, c) \/ StartStroke(e, c)
  \/ \E c \in Cells : StrokeOn(c)
  \/ \E d \in Shifts : DragTo(d)
  \/ Release \/ EndStroke \/ StartSweep
  \/ \E sweep \in Sweeps : EndSweep(sweep[1], sweep[2])

CanvasNext ==
  \/ PointerOnStage \/ GroupToolbar \/ EntityChip
  \/ \E t \in TileTools \cup {"select"}, v \in TileValues : ChooseTool(t, v)
  \/ UndoKey \/ RedoKey \/ DeleteKey \/ EscapeKey

CanvasSpec == CanvasInit /\ [][CanvasNext]_canvasVars

-----------------------------------------------------------------------------
(* Properties *)

\* A fill changes exactly the region of its cell: the least set of cells that
\* has it and every matching neighbour of its members (the bounded walk of
\* onPointerDown against a definition of the region).
FillsTheRegion ==
  [][\A e \in DOMAIN stage : IsTilemap(e) => \A c \in Cells : Fill(e, c) =>
       LET before == stage[e].tiles
           changed == {d \in Cells : stage'[e].tiles[d] # before[d]}
           closed(S) == \A b \in S, d \in Cells :
                          d \in Beside(b) /\ Matches(before, c, d) => d \in S IN
       /\ c \in changed /\ closed(changed)
       /\ \A S \in SUBSET changed : c \in S /\ closed(S) => S = changed]_canvasVars

\* Releasing a drag changes nothing on the screen: every entity of the group
\* that still exists stays where the pointer left it, in one undo entry, and
\* the canvas shows the model again, whatever keys fell into the drag.
ReleaseKeepsWhatIsShown ==
  [][Release =>
       /\ Len(stagePast') <= Len(stagePast) + 1
       /\ live' = <<>>
       /\ \A e \in DOMAIN stage \cap DOMAIN live :
            IF gesture.kind = "move" THEN stage'[e].at = OnStage(e).at
            ELSE e = gesture.id => stage'[e].size = OnStage(e).size]_canvasVars

\* What a gesture leaves is what it showed: a filled region, or the group
\* where the pointer left it (scene-canvas.tsx, onPointerDown and its onUp).
GesturesAreExact == FillsTheRegion /\ ReleaseKeepsWhatIsShown
=============================================================================
