---------------------------- MODULE SpriteStudio ----------------------------
(***************************************************************************)
(* The Asset Studio (components/asset-studio/sprite-editor.tsx over        *)
(* lib/sprite-doc.ts): a sprite of frames of pixel layers, edited through  *)
(* asynchronous canvas work.  A pixel edit decodes the layer it started    *)
(* from, awaits, and writes the result back into whatever the document has *)
(* become; a crop, scale or rotation awaits and puts the whole document of *)
(* its click back.  Other edits, undo, playback and the frame and layer    *)
(* operations run in between.                                              *)
(*                                                                         *)
(* A layer's pixels are the set of the frames its strokes were aimed at;   *)
(* a frame remembers the frames it was copied from.  The document is       *)
(* square, as every new one is.  It is persisted on each change, so the    *)
(* stored document is the one shown.                                       *)
(***************************************************************************)
EXTENDS Naturals, Sequences, SequencesExt, FiniteSetsExt

CONSTANTS MaxSpriteIds,   \* bound: frames and layers ever created
          MaxSpriteEdits, \* bound: edits that push an undo snapshot
          UndoCap,        \* the undo stack's limit (25 in the code)
          MaxPixelJobs,   \* bound: edits awaiting at once
          MaxLayers       \* bound: layers of a frame

ASSUME SpriteBoundsAssumption ==
  {MaxSpriteIds, MaxSpriteEdits, UndoCap, MaxPixelJobs, MaxLayers} \subseteq Nat

VARIABLES sprite,       \* the document: its frames and its size
          undoStack, redoStack,
          frameIndex,   \* the frame shown; may point past the last one
          layerChoice,  \* the layer chosen, by id
          playing,      \* is the animation preview running
          pixelJobs,    \* awaited edits, each with what it closed over
          nextId,
          spriteEdits   \* snapshots pushed so far (bookkeeping of the bound)

historyVars == <<undoStack, redoStack, spriteEdits>>
shownVars   == <<frameIndex, layerChoice, playing>>
spriteVars  == <<sprite, historyVars, shownVars, pixelJobs, nextId>>

-----------------------------------------------------------------------------
Frames == sprite.frames
HasFrame == frameIndex \in DOMAIN Frames
ShownFrame == Frames[frameIndex]
LayerIds(frame) == {frame.layers[j].id : j \in DOMAIN frame.layers}

\* The chosen layer of the shown frame, else its top one.
ActiveLayer ==
  IF layerChoice \in LayerIds(ShownFrame)
  THEN ShownFrame.layers[CHOOSE j \in DOMAIN ShownFrame.layers : ShownFrame.layers[j].id = layerChoice]
  ELSE Last(ShownFrame.layers)

\* A snapshot goes on the capped undo stack and the redo stack is dropped.
PushUndo ==
  /\ spriteEdits < MaxSpriteEdits
  /\ spriteEdits' = spriteEdits + 1
  /\ undoStack' = LET s == Append(undoStack, sprite) IN
                  IF Len(s) > UndoCap THEN Tail(s) ELSE s
  /\ redoStack' = <<>>

\* Layers replace those of the frame at that index, if it is there.
SetLayers(index, layers) ==
  sprite' = [sprite EXCEPT !.frames =
    [i \in DOMAIN @ |-> IF i = index THEN [@[i] EXCEPT !.layers = layers] ELSE @[i]]]

\* The layer a job names with its pixels, drawn at the size the document had
\* when the job began.
UpdateLayer(layers, job) ==
  [j \in DOMAIN layers |->
     IF layers[j].id = job.layer THEN [layers[j] EXCEPT !.px = job.px, !.size = job.size]
     ELSE layers[j]]

-----------------------------------------------------------------------------
\* A new sprite: one frame, its layers blank (startDoc, createDoc).
SpriteInit ==
  /\ sprite = [size |-> 1,
               frames |-> <<[id |-> 1, from |-> {},
                             layers |-> <<[id |-> 2, px |-> {}, locked |-> FALSE, size |-> 1]>>]>>]
  /\ undoStack = <<>> /\ redoStack = <<>>
  /\ frameIndex = 1
  /\ layerChoice = 2
  /\ playing = FALSE
  /\ pixelJobs = {}
  /\ nextId = 3
  /\ spriteEdits = 0

Undo ==
  /\ undoStack # <<>>
  /\ redoStack' = Append(redoStack, sprite)
  /\ undoStack' = Front(undoStack)
  /\ sprite' = Last(undoStack)
  /\ UNCHANGED <<spriteEdits, shownVars, pixelJobs, nextId>>

Redo ==
  /\ redoStack # <<>>
  /\ undoStack' = Append(undoStack, sprite)
  /\ redoStack' = Front(redoStack)
  /\ sprite' = Last(redoStack)
  /\ UNCHANGED <<spriteEdits, shownVars, pixelJobs, nextId>>

-----------------------------------------------------------------------------
\* A pixel edit of the active layer starts: it will write these pixels into
\* this layer of the frame at this index.
Await(result) ==
  /\ Cardinality(pixelJobs) < MaxPixelJobs
  /\ pixelJobs' = pixelJobs \cup
       {[whole |-> FALSE, doc |-> <<>>, index |-> frameIndex, layer |-> ActiveLayer.id, px |-> result,
         size |-> sprite.size]}
Painted == ActiveLayer.px \cup {ShownFrame.id}

\* Pointer down with the pencil, eraser, fill or text tool: the snapshot is
\* pushed first, even when the layer turns out to be locked.
PointerDown ==
  /\ HasFrame
  /\ PushUndo
  /\ IF ActiveLayer.locked THEN UNCHANGED pixelJobs
     ELSE \E result \in {Painted, {}} : Await(result)
  /\ UNCHANGED <<sprite, shownVars, nextId>>

\* Moving with the pencil down paints on, without a snapshot of its own.
PointerMove ==
  /\ HasFrame /\ ~ActiveLayer.locked
  /\ spriteEdits > 0
  /\ Await(Painted)
  /\ UNCHANGED <<sprite, historyVars, shownVars, nextId>>

\* Letting go of a line, a rectangle or a circle commits it.
PointerUp ==
  /\ HasFrame /\ ~ActiveLayer.locked
  /\ PushUndo
  /\ Await(Painted)
  /\ UNCHANGED <<sprite, shownVars, nextId>>

\* Crop resizes every layer, scale only the active one and the document.
Resized(size, all) ==
  [size |-> size,
   frames |-> [i \in DOMAIN Frames |-> [Frames[i] EXCEPT !.layers =
     [j \in DOMAIN @ |-> IF all \/ @[j].id = ActiveLayer.id
                         THEN [@[j] EXCEPT !.size = size] ELSE @[j]]]]]
AwaitWhole(doc) ==
  /\ Cardinality(pixelJobs) < MaxPixelJobs
  /\ pixelJobs' = pixelJobs \cup
       {[whole |-> TRUE, doc |-> doc, index |-> 0, layer |-> 0, px |-> {}, size |-> 0]}

\* The operations on a selection, if there is one (any gesture of the select
\* tool makes one), or on the whole layer.  The snapshot is pushed before the
\* selection is asked for, and no lock is.
SelectionOp ==
  /\ HasFrame
  /\ PushUndo
  /\ \/ UNCHANGED pixelJobs                   \* nothing selected: "Drag a selection first."
     \/ Await({})                             \* delete
     \/ Await(ActiveLayer.px)                 \* flip, duplicate
     \/ AwaitWhole(Resized(1, TRUE))          \* crop
     \/ \E size \in {1, 2} : AwaitWhole(Resized(size, FALSE)) \* scale, rotate
  /\ UNCHANGED <<sprite, shownVars, nextId>>

\* An awaited edit lands, whatever was edited, undone or removed meanwhile.
EditLands ==
  /\ \E job \in pixelJobs :
       /\ IF job.whole THEN sprite' = job.doc
          ELSE SetLayers(job.index, UpdateLayer(Frames[job.index].layers, job))
       /\ pixelJobs' = pixelJobs \ {job}
  /\ UNCHANGED <<historyVars, frameIndex, layerChoice, playing, nextId>>

-----------------------------------------------------------------------------
AddLayer ==
  /\ HasFrame
  /\ nextId < MaxSpriteIds /\ Len(ShownFrame.layers) < MaxLayers
  /\ PushUndo
  /\ SetLayers(frameIndex, Append(ShownFrame.layers,
                      [id |-> nextId, px |-> {}, locked |-> FALSE, size |-> sprite.size]))
  /\ layerChoice' = nextId
  /\ nextId' = nextId + 1
  /\ UNCHANGED <<frameIndex, playing, pixelJobs>>

\* A frame's last layer cannot be removed.
RemoveLayer ==
  /\ HasFrame /\ Len(ShownFrame.layers) > 1
  /\ PushUndo
  /\ \E j \in DOMAIN ShownFrame.layers :
       LET layers == RemoveAt(ShownFrame.layers, j) IN
       /\ SetLayers(frameIndex, layers)
       /\ layerChoice' = IF layerChoice = ShownFrame.layers[j].id THEN Last(layers).id ELSE layerChoice
  /\ UNCHANGED <<frameIndex, playing, pixelJobs, nextId>>

\* Moving a layer one place; past an end only the snapshot is taken.
ReorderLayer ==
  /\ HasFrame
  /\ PushUndo
  /\ \E j \in DOMAIN ShownFrame.layers : \E k \in {j - 1, j + 1} :
       IF k \in DOMAIN ShownFrame.layers
       THEN SetLayers(frameIndex,
                      [ShownFrame.layers EXCEPT ![j] = ShownFrame.layers[k], ![k] = ShownFrame.layers[j]])
       ELSE UNCHANGED sprite
  /\ UNCHANGED <<shownVars, pixelJobs, nextId>>

\* The lock (as the eye and the name) of a layer is set without a snapshot.
ToggleLock ==
  /\ HasFrame
  /\ \E j \in DOMAIN ShownFrame.layers :
       SetLayers(frameIndex, [ShownFrame.layers EXCEPT ![j].locked = ~@])
  /\ UNCHANGED <<historyVars, shownVars, pixelJobs, nextId>>

\* Mutant of FrameLayers: a copied layer keeps its id.
FrameLayersKeepIds(copy) ==
  [j \in DOMAIN ShownFrame.layers |->
    [ShownFrame.layers[j] EXCEPT !.id = IF copy THEN @ ELSE nextId + j, !.px = IF copy THEN @ ELSE {}]]

\* The layers of a new frame: fresh ids, with or without the pixels.
FrameLayers(copy) ==
  [j \in DOMAIN ShownFrame.layers |->
    [ShownFrame.layers[j] EXCEPT !.id = nextId + j, !.px = IF copy THEN @ ELSE {}]]

AddFrame ==
  /\ HasFrame
  /\ nextId + Len(ShownFrame.layers) < MaxSpriteIds
  /\ PushUndo
  /\ \E copy \in BOOLEAN :
       sprite' = [sprite EXCEPT !.frames = InsertAt(@, frameIndex + 1,
                   [id |-> nextId, from |-> IF copy THEN ShownFrame.from \cup {ShownFrame.id} ELSE {},
                    layers |-> FrameLayers(copy)])]
  /\ frameIndex' = frameIndex + 1
  /\ nextId' = nextId + 1 + Len(ShownFrame.layers)
  /\ UNCHANGED <<layerChoice, playing, pixelJobs>>

\* The last frame cannot be removed; an index past the end removes nothing.
RemoveFrame ==
  /\ Len(Frames) > 1
  /\ PushUndo
  /\ sprite' = [sprite EXCEPT !.frames = IF HasFrame THEN RemoveAt(@, frameIndex) ELSE @]
  /\ frameIndex' = IF frameIndex > 1 THEN frameIndex - 1 ELSE 1
  /\ UNCHANGED <<layerChoice, playing, pixelJobs, nextId>>

ChooseFrame ==
  /\ frameIndex' \in DOMAIN Frames \ {frameIndex}
  /\ UNCHANGED <<sprite, historyVars, layerChoice, playing, pixelJobs, nextId>>

TogglePlayback ==
  /\ playing' = ~playing
  /\ UNCHANGED <<sprite, historyVars, frameIndex, layerChoice, pixelJobs, nextId>>

\* One beat of the animation preview; at the end it wraps or, with the loop
\* switch off, stops.
PlayTick ==
  /\ playing
  /\ IF frameIndex < Len(Frames) THEN frameIndex' = frameIndex + 1 /\ playing' = TRUE
     ELSE \/ frameIndex' = 1 /\ playing' = TRUE
          \/ frameIndex' = frameIndex /\ playing' = FALSE
  /\ UNCHANGED <<sprite, historyVars, layerChoice, pixelJobs, nextId>>

\* Coming back by the URL loads the stored document with fresh histories and
\* the first frame's top layer chosen.
Reopen ==
  /\ undoStack # <<>>
  /\ undoStack' = <<>> /\ redoStack' = <<>>
  /\ frameIndex' = 1
  /\ layerChoice' = Last(Frames[1].layers).id
  /\ playing' = FALSE
  /\ pixelJobs' = {}
  /\ UNCHANGED <<sprite, nextId, spriteEdits>>

Pointer == PointerDown \/ PointerMove \/ PointerUp
Toolbar == Undo \/ Redo \/ SelectionOp
LayerPanel == AddLayer \/ RemoveLayer \/ ToggleLock \/ ReorderLayer
FramePanel == AddFrame \/ RemoveFrame \/ ChooseFrame \/ TogglePlayback \/ PlayTick

SpriteNext == Pointer \/ Toolbar \/ LayerPanel \/ FramePanel \/ EditLands \/ Reopen

SpriteSpec == SpriteInit /\ [][SpriteNext]_spriteVars

-----------------------------------------------------------------------------
(***************************************************************************)
(* Properties.                                                             *)
(***************************************************************************)
\* A stroke lands on the frame it was drawn on, or on copies made of it: never
\* on a frame that took that frame's place while the canvas work awaited
\* (updateLayer goes by the index of the click; only fresh layer ids in every
\* new frame keep the stroke off its neighbour), whatever undo brings back.
\* And no order of edits, undos and late results leaves the sprite without a
\* frame or a frame without a layer, which Last(layers) and frames[0] assume.
StrokesStayOnTheirFrame ==
  /\ Frames # <<>>
  /\ \A i \in DOMAIN Frames :
       /\ Frames[i].layers # <<>>
       /\ \A j \in DOMAIN Frames[i].layers :
            Frames[i].layers[j].px \subseteq {Frames[i].id} \cup Frames[i].from
=============================================================================
