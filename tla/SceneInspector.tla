---------------------------- MODULE SceneInspector ----------------------------
(***************************************************************************)
(* The scene panels of the builder's inspector (inspector.tsx): a scene's  *)
(* rendering layers, its input actions, and the animation clips and the    *)
(* state machine of one sprite, each edit committed to the undo history    *)
(* (use-history.ts) and read back through the parsers of scene.ts.         *)
(*                                                                         *)
(* A commit takes the model as it was last rendered: two commits of one    *)
(* event both start from it, and the second replaces what the first did.   *)
(***************************************************************************)
EXTENDS Integers, Sequences, SequencesExt, Functions, TLC, Lists

CONSTANTS LayerNames,        \* names a layer may have, as localeCompare sorts them
          SpriteClips,       \* the clips the sprite was made with
          MaxInspectorEdits, \* bound: edits committed
          MaxInspectorItems  \* bound: states, transitions or clips added

ASSUME InspectorAssumption ==
  /\ LayerNames \in Seq(Range(LayerNames)) /\ SpriteClips \in Seq(Range(SpriteClips))
  /\ Len(LayerNames) >= 3 /\ IsInjective(LayerNames)
  /\ MaxInspectorEdits \in Nat /\ MaxInspectorItems \in Nat

VARIABLES scene,        \* layers, the sprite's layer and clips, its machine, the inputs
          scenePast, sceneFuture,
          previewClip,  \* the panel's own choice of a clip
          inspectorEdits

inspectorVars == <<scene, scenePast, sceneFuture, previewClip, inspectorEdits>>

NameSet == {LayerNames[i] : i \in DOMAIN LayerNames}
WorldLayer == LayerNames[1]
NoName == ""       \* no layer of its own, no active clip
AnyState == 0
Layer(name, order) == [name |-> name, order |-> order]
DefaultLayers == <<Layer(WorldLayer, 100), Layer(LayerNames[2], 200)>>
DefaultInputs == <<"left", "jump">>
NoMachine == [states |-> <<>>, first |-> 0, transitions |-> <<>>]

\* A machine of two states, as a saved project has it.
SavedMachine == [states |-> <<[id |-> 1, clip |-> NoName], [id |-> 2, clip |-> NoName]>>,
                 first |-> 1, transitions |-> <<>>]

InspectorInit ==
  /\ scene \in [layers : {<<>>}, onLayer : {NoName}, clips : {SpriteClips, <<>>},
                active : {NoName}, machine : {NoMachine, SavedMachine}, inputs : {<<>>}, ids : {2}]
  /\ scenePast = <<>> /\ sceneFuture = <<>>
  /\ previewClip = NoName /\ inspectorEdits = 0

-----------------------------------------------------------------------------
\* Commit, and two commits of one event.
Commit(next) ==
  /\ inspectorEdits < MaxInspectorEdits
  /\ inspectorEdits' = inspectorEdits + 1
  /\ scene' = next
  /\ scenePast' = Append(scenePast, scene)
  /\ sceneFuture' = <<>>

CommitTwice(first, second) ==
  /\ inspectorEdits < MaxInspectorEdits
  /\ inspectorEdits' = inspectorEdits + 1
  /\ scene' = second
  /\ scenePast' = scenePast \o <<scene, first>>
  /\ sceneFuture' = <<>>

UndoInspector ==
  /\ scenePast # <<>>
  /\ scene' = Last(scenePast) /\ scenePast' = Front(scenePast)
  /\ sceneFuture' = <<scene>> \o sceneFuture
  /\ UNCHANGED <<previewClip, inspectorEdits>>

RedoInspector ==
  /\ sceneFuture # <<>>
  /\ scene' = Head(sceneFuture) /\ sceneFuture' = Tail(sceneFuture)
  /\ scenePast' = Append(scenePast, scene)
  /\ UNCHANGED <<previewClip, inspectorEdits>>

-----------------------------------------------------------------------------
(* Rendering layers *)

\* sortingLayersOf: the scene's own layers or the default ones, back to front, by
\* order, then by name; sort is stable.
RankOf(name) == CHOOSE i \in DOMAIN LayerNames : LayerNames[i] = name
Before(a, b) ==
  \/ a[1] < b[1]
  \/ a[1] = b[1] /\ a[2] < b[2]
  \/ a[1] = b[1] /\ a[2] = b[2] /\ a[3] < b[3]
SortingLayers ==
  LET ls == IF scene.layers = <<>> THEN DefaultLayers ELSE scene.layers
      keys == {<<ls[i].order, RankOf(ls[i].name), i>> : i \in DOMAIN ls}
      At(k) == CHOOSE key \in keys : Cardinality({j \in keys : Before(j, key)}) = k - 1
  IN [k \in DOMAIN ls |-> ls[At(k)[3]]]
NamesOf(layers) == {layers[i].name : i \in DOMAIN layers}

\* updateSortingLayers: the sprite follows a layer whose name vanished to the
\* one now at its place in the list stored before.  The defaults, which are
\* stored nowhere, have no place.
Followed(layers) ==
  LET old == scene.layers
      gone == {i \in DOMAIN old : old[i].name = scene.onLayer
                                  /\ old[i].name \notin NamesOf(layers)} IN
  IF gone = {} THEN scene.onLayer
  ELSE LET i == CHOOSE i \in gone : TRUE IN
       IF i \in DOMAIN layers THEN layers[i].name
       ELSE IF \E l \in {layers[j] : j \in DOMAIN layers} : l.order = old[i].order
            THEN (CHOOSE l \in {layers[j] : j \in DOMAIN layers} : l.order = old[i].order).name
            ELSE scene.onLayer

CommitLayers(layers) ==
  /\ Commit([scene EXCEPT !.layers = layers, !.onLayer = Followed(layers)])
  /\ UNCHANGED previewClip

\* Moving exchanges the order values of two neighbours; equal ones are nudged.
MoveLayer(ls, i, way) ==
  LET j == i + way IN
  /\ j \in DOMAIN ls
  /\ CommitLayers(IF ls[i].order = ls[j].order
                  THEN [ls EXCEPT ![i].order = @ + 5 * way, ![j].order = @ - 5 * way]
                  ELSE [ls EXCEPT ![i].order = ls[j].order, ![j].order = ls[i].order])

\* Mutant of RenameLayer: only the layer's own name is refused.
RenameLayerAnyway(ls, i, name) ==
  /\ name # ls[i].name
  /\ CommitLayers([ls EXCEPT ![i].name = name])

\* A name another layer has is refused: names are the reference.
RenameLayer(ls, i, name) ==
  /\ name \notin NamesOf(ls)
  /\ CommitLayers([ls EXCEPT ![i].name = name])

AddSceneLayer(ls, name) ==
  /\ name \notin NamesOf(ls)
  /\ CommitLayers(Append(ls, Layer(name, Last(ls).order + 100)))

\* A layer in use cannot be deleted.
DeleteLayer(ls, i) ==
  /\ ls[i].name # scene.onLayer
  /\ CommitLayers(RemoveAt(ls, i))

\* The sprite's own field: "World" is stored as no layer at all.
AssignLayer(ls) ==
  /\ \E name \in NamesOf(ls) :
       Commit([scene EXCEPT !.onLayer = IF name = WorldLayer THEN NoName ELSE name])
  /\ UNCHANGED previewClip

\* The panel works on the list as it was rendered.
LayerManager ==
  \E ls \in {SortingLayers} :
    \/ \E i \in DOMAIN ls :
         \/ MoveLayer(ls, i, -1) \/ MoveLayer(ls, i, 1) \/ DeleteLayer(ls, i)
         \/ \E name \in NameSet : RenameLayer(ls, i, name)
    \/ \E name \in NameSet : AddSceneLayer(ls, name)
    \/ AssignLayer(ls)

-----------------------------------------------------------------------------
(* Input actions *)

InputActions == IF scene.inputs = <<>> THEN DefaultInputs ELSE scene.inputs

\* An action is added or removed (its name, keys and switch are not told
\* apart); removing the last one restores the defaults.
InputActionsPanel ==
  /\ \/ Len(InputActions) < 3 /\ Commit([scene EXCEPT !.inputs = Append(InputActions, "custom")])
     \/ \E i \in DOMAIN InputActions : Commit([scene EXCEPT !.inputs = RemoveAt(InputActions, i)])
  /\ UNCHANGED previewClip

-----------------------------------------------------------------------------
(* Animation clips *)

Clips == scene.clips
FreshId == scene.ids + 1

\* "+ Add clip" commits the list and then the active clip; the second commit
\* starts from the list as it was rendered.
AddClip ==
  /\ FreshId <= MaxInspectorItems
  /\ LET id == ToString(FreshId) IN
     /\ CommitTwice([scene EXCEPT !.clips = Append(@, id), !.ids = @ + 1],
                    [scene EXCEPT !.active = id])
     /\ previewClip' = id

\* So does deleting the active clip.
RemoveClip(i) ==
  LET rest == RemoveAt(Clips, i)
      next == IF rest = <<>> THEN NoName ELSE rest[1] IN
  IF scene.active = Clips[i]
  THEN CommitTwice([scene EXCEPT !.clips = rest], [scene EXCEPT !.active = next])
       /\ previewClip' = next
  ELSE Commit([scene EXCEPT !.clips = rest]) /\ UNCHANGED previewClip

ActivateClip(i) == Commit([scene EXCEPT !.active = Clips[i]]) /\ UNCHANGED previewClip

AnimationPanel == AddClip \/ \E i \in DOMAIN Clips : RemoveClip(i) \/ ActivateClip(i)

-----------------------------------------------------------------------------
(* The state machine *)

\* parseAnimator of what animatorToString wrote: no machine without states, a
\* first state that exists, no transition without two ends.
Reparsed(m) ==
  IF m.states = <<>> THEN NoMachine
  ELSE [m EXCEPT !.first = IF \E i \in DOMAIN m.states : m.states[i].id = @ THEN @
                           ELSE m.states[1].id]
Machine == Reparsed(scene.machine)
StateIds == {Machine.states[i].id : i \in DOMAIN Machine.states}

CommitMachine(m) == Commit([scene EXCEPT !.machine = m]) /\ UNCHANGED previewClip
NewState(m) == [id |-> FreshId, clip |-> IF Clips = <<>> THEN NoName ELSE Clips[1]]

\* Enabling needs a clip; "+ Add state" does not.
EnableMachine ==
  /\ Machine = NoMachine /\ Clips # <<>> /\ FreshId <= MaxInspectorItems
  /\ Commit([scene EXCEPT !.machine = [states |-> <<NewState(Machine)>>, first |-> FreshId,
                                       transitions |-> <<>>], !.ids = @ + 1])
  /\ UNCHANGED previewClip

AddState ==
  /\ Machine # NoMachine /\ FreshId <= MaxInspectorItems
  /\ Commit([scene EXCEPT !.machine = [Machine EXCEPT !.states = Append(@, NewState(Machine))],
                          !.ids = @ + 1])
  /\ UNCHANGED previewClip

\* Mutant of RemoveState: only the transitions out of it go.
RemoveStateKeepsArrivals(i) ==
  LET id == Machine.states[i].id  states == RemoveAt(Machine.states, i) IN
  CommitMachine([states |-> states,
                 first |-> IF Machine.first # id THEN Machine.first
                           ELSE IF states = <<>> THEN 0 ELSE states[1].id,
                 transitions |-> Picked(Machine.transitions,
                   {k \in DOMAIN Machine.transitions : Machine.transitions[k].from # id})])

\* A state takes its transitions with it.
RemoveState(i) ==
  LET id == Machine.states[i].id  states == RemoveAt(Machine.states, i) IN
  CommitMachine([states |-> states,
                 first |-> IF Machine.first # id THEN Machine.first
                           ELSE IF states = <<>> THEN 0 ELSE states[1].id,
                 transitions |-> Picked(Machine.transitions,
                   {k \in DOMAIN Machine.transitions : id \notin {Machine.transitions[k].from,
                                                                Machine.transitions[k].to}})])

\* The first state, its clip, and the ends of a transition are chosen from lists.
AddTransition ==
  LET from == Machine.first
      others == Picked(Machine.states, {k \in DOMAIN Machine.states : Machine.states[k].id # from})
      to == IF others = <<>> THEN from ELSE others[1].id IN
  /\ Machine # NoMachine /\ Len(Machine.transitions) < MaxInspectorItems
  /\ CommitMachine([Machine EXCEPT !.transitions = Append(@, [from |-> from, to |-> to])])

EditTransition(i) ==
  \/ \E s \in StateIds \cup {AnyState} : CommitMachine([Machine EXCEPT !.transitions[i].from = s])
  \/ \E s \in StateIds : CommitMachine([Machine EXCEPT !.transitions[i].to = s])
  \/ CommitMachine([Machine EXCEPT !.transitions = RemoveAt(@, i)])

EditState(i) ==
  \/ CommitMachine([Machine EXCEPT !.first = Machine.states[i].id])
  \/ \E c \in DOMAIN Clips : CommitMachine([Machine EXCEPT !.states[i].clip = Clips[c]])

StateMachinePanel ==
  \/ EnableMachine \/ AddState \/ AddTransition
  \/ \E i \in DOMAIN Machine.states : RemoveState(i) \/ EditState(i)
  \/ \E i \in DOMAIN Machine.transitions : EditTransition(i)

-----------------------------------------------------------------------------
InspectorNext ==
  \/ LayerManager \/ InputActionsPanel \/ AnimationPanel \/ StateMachinePanel
  \/ UndoInspector \/ RedoInspector

InspectorSpec == InspectorInit /\ [][InspectorNext]_inspectorVars

-----------------------------------------------------------------------------
(* Properties *)

\* What the inspector refers to by name or id stays unambiguous through any
\* sequence of edits, undos and redos: no two layers share a name ("names are
\* the reference"), every transition joins states the machine has, and so does
\* its first state (the runtime looks all three up without a check).
InspectorReferencesHold ==
  /\ \A ls \in {SortingLayers} : Cardinality(NamesOf(ls)) = Len(ls)
  /\ \A i \in DOMAIN Machine.transitions :
       /\ Machine.transitions[i].from \in StateIds \cup {AnyState}
       /\ Machine.transitions[i].to \in StateIds
  /\ Machine # NoMachine => Machine.first \in StateIds
=============================================================================
