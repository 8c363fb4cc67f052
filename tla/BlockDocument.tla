--------------------------- MODULE BlockDocument ---------------------------
(* The block program of one screen, edited in Blocks mode: blocks.ts, the   *)
(* drag controller (blocks-dnd.tsx), the canvas (blocks-canvas.tsx), the    *)
(* handler and palette rail (blocks-side.tsx).  A screen holds handlers,    *)
(* each with a body of blocks; an `if` block owns a then and an else arm;   *)
(* a block has value sockets; parked runs lie loose on the canvas.          *)
(*                                                                          *)
(* Block contents are flat functions over identifiers; the registry's many  *)
(* block types are abstracted to the four shapes the operations tell apart. *)
EXTENDS FiniteSets, SequencesExt, Lists

CONSTANTS
    Handlers,       \* handler identifiers
    Ifs,            \* container statements: two arms and a condition socket
    Statements,     \* plain statements with one value socket
    Operators,      \* expressions with two sockets
    Literals,       \* expressions without sockets
    Loaded,         \* the block programs a screen may be opened with
    NoBlock,
    BlockPastCap,   \* the documents undo can go back to: 100 in the code
    MaxBlockEdits        \* bound on the commits of a run

Shapes == {Ifs, Statements, Operators, Literals}
Expressions == Operators \cup Literals
Blocks == Ifs \cup Statements \cup Expressions
Arms == (Handlers \X {"body"}) \cup (Ifs \X {"then", "else"})
Keys(b) == CASE b \in Ifs -> {"condition"} [] b \in Statements -> {"value"}
             [] b \in Operators -> {"a", "b"} [] OTHER -> {}
Sockets == UNION {{b} \X Keys(b) : b \in Blocks}

VARIABLES
    blockDoc,      \* screen.logic
    blockPast,     \* the documents undo returns to, the latest last
    blockFuture,   \* the documents redo returns to, the next one first
    drag,     \* the gesture in progress, with what it took when it began
    dropTarget,    \* the zone under the pointer when it last moved
    stale,    \* undo or redo was pressed during a gesture, this one or a past one
    blockEdits

blockHistory == <<blockPast, blockFuture>>
blockVars == <<blockDoc, blockHistory, drag, dropTarget, stale, blockEdits>>

Content == [handlers : SUBSET Handlers,
            arm : [Arms -> Seq(Blocks)],
            socket : [Sockets -> Blocks \cup {NoBlock}],
            parked : Seq(Seq(Blocks)),
            placed : SUBSET Blocks]

(* Sockets hold value blocks, and no parked run is empty.                   *)
Stored(d) ==
    /\ d \in Content
    /\ \A k \in Sockets : d.socket[k] \in Expressions \cup {NoBlock}
    /\ \A r \in DOMAIN d.parked : d.parked[r] # <<>>

-----------------------------------------------------------------------------
(* Walking the tree. *)

(* The blocks directly inside b along the given kinds of edges, and all     *)
(* that lies inside roots.                                                  *)
Inside(d, b, via) ==
    (UNION {Range(d.arm[<<b, v>>]) : v \in IF b \in Ifs THEN via \ {"socket"} ELSE {}})
      \cup ({d.socket[<<b, k>>] : k \in IF "socket" \in via THEN Keys(b) ELSE {}} \ {NoBlock})

Closure(d, roots, via) ==
    LET grow[s \in SUBSET Blocks] ==
          LET more == s \cup UNION {Inside(d, b, via) : b \in s}
          IN  IF more = s THEN s ELSE grow[more]
    IN  grow[roots]

BlockTree(d, roots) == Closure(d, roots, {"then", "else", "socket"})

Body(d, h) == Range(d.arm[<<h, "body">>])
Attached(d) == BlockTree(d, UNION {Body(d, h) : h \in d.handlers})
OnCanvas(d) == Attached(d) \cup BlockTree(d, UNION {Range(run) : run \in Range(d.parked)})

(* walkBlocks descends into children and slots, not into the else arm.      *)
Walked(d, h) == Closure(d, Body(d, h), {"then", "socket"})
(* findBlockIn descends everywhere; removeBlock into the bodies only.       *)
Findable(d, h) == BlockTree(d, Body(d, h))
Removable(d, h) == Closure(d, Body(d, h), {"then", "else"})

Holds(d, a, b) == b \in Range(d.arm[a])
ArmOf(d, b) == CHOOSE a \in Arms : Holds(d, a, b)
InArm(d, b) == \E a \in Arms : Holds(d, a, b)
At(s, b) == CHOOSE i \in DOMAIN s : s[i] = b

(* locateRun: the block and every sibling below it.                         *)
Locates(d, h, b) == h \in d.handlers /\ b \in Walked(d, h) /\ InArm(d, b)
RunFrom(d, b) ==
    LET s == d.arm[ArmOf(d, b)] IN SubSeq(s, At(s, b), Len(s))

Clamp(i, s) == IF i > Len(s) THEN Len(s) ELSE i
Splice(s, at, run) == SubSeq(s, 1, at) \o run \o SubSeq(s, at + 1, Len(s))

(* What is no longer on the canvas takes its contents with it.              *)
Tidy(d) ==
    LET kept == d.handlers \cup OnCanvas(d)
    IN  [d EXCEPT !.arm = [a \in Arms |-> IF a[1] \in kept THEN d.arm[a] ELSE <<>>],
                  !.socket = [k \in Sockets |-> IF k[1] \in kept THEN d.socket[k]
                                                ELSE NoBlock]]

-----------------------------------------------------------------------------
(* The operations of blocks.ts on one screen.  A target is an arm with an   *)
(* insertion index; TargetExists is targetArray finding it.                 *)

TargetExists(d, h, t) ==
    /\ h \in d.handlers
    /\ t.arm = <<h, "body">> \/ t.arm[1] \in Findable(d, h) \cap Ifs

AddStatement(d, h, t, b) ==
    IF TargetExists(d, h, t)
    THEN [d EXCEPT !.arm[t.arm] = Splice(@, Clamp(t.index, @), <<b>>)]
    ELSE d

RemoveBlock(d, h, b) ==
    IF h \in d.handlers /\ b \in Removable(d, h) /\ InArm(d, b)
    THEN [d EXCEPT !.arm[ArmOf(d, b)] = Omit(@, {b})]
    ELSE d

MoveStatement(d, h, b, step) ==
    IF h \in d.handlers /\ b \in Removable(d, h) /\ InArm(d, b)
    THEN LET a == ArmOf(d, b)
             s == d.arm[a]
             i == At(s, b)
         IN  IF i + step \in DOMAIN s
             THEN [d EXCEPT !.arm[a] = [s EXCEPT ![i] = s[i + step], ![i + step] = b]]
             ELSE d
    ELSE d

SetSlot(d, h, k, e) ==
    IF h \in d.handlers /\ k[1] \in Findable(d, h)
    THEN [d EXCEPT !.socket[k] = e]
    ELSE d

(* A fault: only the grabbed block leaves its stack, the run is inserted.   *)
MoveRunLeavingTail(d, h, b, th, t) ==
    IF Locates(d, h, b) /\ t.arm[1] \notin Range(RunFrom(d, b)) /\ TargetExists(d, th, t)
    THEN LET cut == [d EXCEPT !.arm[ArmOf(d, b)] = Omit(@, {b})]
         IN  [cut EXCEPT !.arm[t.arm] = Splice(@, Clamp(t.index, @), RunFrom(d, b))]
    ELSE d

MoveRun(d, h, b, th, t) ==
    IF ~Locates(d, h, b) \/ t.arm[1] \in Range(RunFrom(d, b)) THEN d
    ELSE LET a == ArmOf(d, b)
             i == At(d.arm[a], b) - 1
             run == RunFrom(d, b)
             cut == [d EXCEPT !.arm[a] = SubSeq(@, 1, i)]
             index == IF t.arm = a /\ i < t.index
                      THEN IF t.index < Len(run) THEN 0 ELSE t.index - Len(run)
                      ELSE t.index
         IN  IF TargetExists(cut, th, t)
             THEN [cut EXCEPT !.arm[t.arm] = Splice(@, Clamp(index, @), run)]
             ELSE d

ParkRun(d, h, b) ==
    IF Locates(d, h, b)
    THEN LET run == RunFrom(d, b)
         IN  [d EXCEPT !.arm[ArmOf(d, b)] = SubSeq(@, 1, Len(@) - Len(run)),
                       !.parked = Append(@, run),
                       !.placed = @ \cup {b}]
    ELSE d

IsLead(d, b) == \E r \in DOMAIN d.parked : d.parked[r][1] = b
RunOf(d, lead) == CHOOSE r \in DOMAIN d.parked : d.parked[r][1] = lead

SplitParkedRun(d, lead, offset) ==
    IF IsLead(d, lead) /\ offset > 0 /\ offset < Len(d.parked[RunOf(d, lead)])
    THEN LET r == RunOf(d, lead)
             run == d.parked[r]
             tail == SubSeq(run, offset + 1, Len(run))
         IN  [d EXCEPT !.parked = Append([@ EXCEPT ![r] = SubSeq(run, 1, offset)], tail),
                       !.placed = @ \cup {tail[1]}]
    ELSE d

AttachParked(d, lead, h, t) ==
    IF IsLead(d, lead) /\ TargetExists(d, h, t)
    THEN LET r == RunOf(d, lead)
         IN  [d EXCEPT !.parked = RemoveAt(@, r),
                       !.arm[t.arm] = Splice(@, Clamp(t.index, @), d.parked[r]),
                       !.placed = @ \ {lead}]
    ELSE d

AddParked(d, b) ==
    [d EXCEPT !.parked = Append(@, <<b>>), !.placed = @ \cup {b}]

RemoveParked(d, lead) ==
    IF IsLead(d, lead)
    THEN [d EXCEPT !.parked = RemoveAt(@, RunOf(d, lead)), !.placed = @ \ {lead}]
    ELSE d

(* reidBlock: a copy of a subtree under fresh identifiers.                  *)
Reid(d, copy) ==
    LET Renamed(x) == IF x = NoBlock THEN NoBlock ELSE copy[x]
        Source(x) == CHOOSE b \in DOMAIN copy : copy[b] = x
        fresh == {copy[b] : b \in DOMAIN copy}
    IN  [d EXCEPT
           !.arm = [a \in Arms |->
                      IF a[1] \in fresh
                      THEN LET s == d.arm[<<Source(a[1]), a[2]>>]
                           IN  [i \in DOMAIN s |-> copy[s[i]]]
                      ELSE d.arm[a]],
           !.socket = [k \in Sockets |->
                         IF k[1] \in fresh
                         THEN Renamed(d.socket[<<Source(k[1]), k[2]>>])
                         ELSE d.socket[k]]]

DuplicateAttached(d, h, b, copy) ==
    IF Locates(d, h, b)
    THEN LET a == ArmOf(d, b)
         IN  [Reid(d, copy) EXCEPT
                !.arm[a] = Splice(d.arm[a], At(d.arm[a], b), <<copy[b]>>)]
    ELSE d

DuplicateParked(d, lead, copy) ==
    LET r == RunOf(d, lead)
        twin == [i \in DOMAIN d.parked[r] |-> copy[d.parked[r][i]]]
    IN  [Reid(d, copy) EXCEPT !.parked = Splice(d.parked, r, <<twin>>),
                              !.placed = d.placed \cup {twin[1]}]

-----------------------------------------------------------------------------
(* Commits.  Identifiers come from a finite pool: a new block takes one     *)
(* that nothing remembers.                                                  *)

InArms(d) == UNION {Range(d.arm[a]) : a \in Arms}
InSockets(d) == {d.socket[k] : k \in Sockets} \ {NoBlock}
InRuns(d) == UNION {Range(run) : run \in Range(d.parked)}

(* No block is in two places.                                               *)
Unique(d) ==
    /\ \A a \in Arms : IsInjective(d.arm[a])
    /\ \A a, c \in Arms : a # c => Range(d.arm[a]) \cap Range(d.arm[c]) = {}
    /\ \A k, l \in Sockets : d.socket[k] = d.socket[l] /\ k # l => d.socket[k] = NoBlock
    /\ \A r \in DOMAIN d.parked : IsInjective(d.parked[r])
    /\ \A r, q \in DOMAIN d.parked : r # q => Range(d.parked[r]) \cap Range(d.parked[q]) = {}
    /\ InArms(d) \cap InSockets(d) = {}
    /\ (InArms(d) \cup InSockets(d)) \cap InRuns(d) = {}

(* A program as the server keeps it: blocks are unique across a screen      *)
(* (validateLogic), what is not in a handler or parked is not stored.       *)
ASSUME BlockAssumption ==
    /\ Handlers \cap Blocks = {} /\ NoBlock \notin Blocks
    /\ IsFiniteSet(Blocks)
    /\ Ifs \cap Statements = {} /\ (Ifs \cup Statements) \cap Expressions = {}
    /\ Operators \cap Literals = {}
    /\ \A d \in Loaded : Stored(d) /\ Unique(d) /\ Tidy(d) = d
    /\ BlockPastCap \in Nat \ {0} /\ MaxBlockEdits \in Nat

(* An operation that changes nothing is left out: the copy the code records *)
(* of it only takes away what lies ahead of redo.                           *)
CommitBlocks(new) ==
    /\ blockDoc' = Tidy(new)
    /\ blockDoc' # blockDoc
    /\ blockPast' = IF Len(blockPast) < BlockPastCap THEN Append(blockPast, blockDoc)
                    ELSE Append(Tail(blockPast), blockDoc)
    /\ blockFuture' = <<>>
    /\ blockEdits' = blockEdits + 1

(* A block in two places ends a behaviour: its copies would part ways.      *)
MayEdit == blockEdits < MaxBlockEdits /\ (stale => Unique(blockDoc))
Idle == drag = NoBlock

(* The blocks a gesture and its target go on naming.                        *)
Gripped ==
    IF Idle THEN {}
    ELSE CASE drag.from = "script" -> {drag.block}
           [] drag.from = "parked" -> {drag.lead, drag.tail}
           [] drag.from = "slot" -> drag.carried \cup {drag.key[1]}
           [] OTHER -> {}
Aimed ==
    CASE dropTarget.to = "stack" -> {dropTarget.arm[1]}
      [] dropTarget.to = "socket" -> {dropTarget.key[1]}
      [] OTHER -> {}

History == Range(blockPast) \cup Range(blockFuture)
Documents == {blockDoc} \cup History
Remembered ==
    (UNION {OnCanvas(d) \cup d.placed : d \in Documents}) \cup Gripped \cup Aimed
Free(shape) == shape \ Remembered
New(shape) == CHOOSE b \in Free(shape) : TRUE
ShapeOf(b) == CHOOSE s \in Shapes : b \in s

(* A copy of the blocks in tree under free identifiers of the same shapes.  *)
CanCopy(tree) ==
    \A s \in Shapes : Cardinality(tree \cap s) <= Cardinality(Free(s))
CopyOf(tree) ==
    CHOOSE f \in [tree -> Blocks \ Remembered] :
        IsInjective(f) /\ \A b \in tree : f[b] \in ShapeOf(b)

AddHandler(h) ==
    /\ MayEdit /\ Idle
    /\ \A d \in Documents : h \notin d.handlers
    /\ CommitBlocks([blockDoc EXCEPT !.handlers = @ \cup {h}])
    /\ UNCHANGED <<drag, dropTarget, stale>>

RemoveHandler(h) ==
    /\ MayEdit /\ Idle
    /\ h \in blockDoc.handlers
    /\ CommitBlocks([blockDoc EXCEPT !.handlers = @ \ {h}])
    /\ UNCHANGED <<drag, dropTarget, stale>>

(* A click in the palette appends to the selected handler.                  *)
ClickPalette(h, shape) ==
    /\ MayEdit /\ Idle
    /\ h \in blockDoc.handlers /\ Free(shape) # {}
    /\ CommitBlocks(AddStatement(blockDoc, h, [arm |-> <<h, "body">>,
                                   index |-> Len(blockDoc.arm[<<h, "body">>])],
                          New(shape)))
    /\ UNCHANGED <<drag, dropTarget, stale>>

(* The buttons on a block: they act on the handler that renders it.         *)
RowActions(h, b) ==
    /\ MayEdit /\ Idle
    /\ h \in blockDoc.handlers /\ b \in Findable(blockDoc, h) /\ InArm(blockDoc, b)
    /\ \/ \E step \in {-1, 1} : CommitBlocks(MoveStatement(blockDoc, h, b, step))
       \/ /\ CanCopy(BlockTree(blockDoc, {b}))
          /\ CommitBlocks(DuplicateAttached(blockDoc, h, b, CopyOf(BlockTree(blockDoc, {b}))))
       \/ CommitBlocks(RemoveBlock(blockDoc, h, b))
    /\ UNCHANGED <<drag, dropTarget, stale>>

ClearValue(h, k) ==
    /\ MayEdit /\ Idle
    /\ h \in blockDoc.handlers
    /\ CommitBlocks(SetSlot(blockDoc, h, k, NoBlock))
    /\ UNCHANGED <<drag, dropTarget, stale>>

ParkedActions(lead) ==
    /\ MayEdit /\ Idle
    /\ IsLead(blockDoc, lead)
    /\ \/ LET run == BlockTree(blockDoc, Range(blockDoc.parked[RunOf(blockDoc, lead)]))
          IN  /\ CanCopy(run)
              /\ CommitBlocks(DuplicateParked(blockDoc, lead, CopyOf(run)))
       \/ CommitBlocks(RemoveParked(blockDoc, lead))
    /\ UNCHANGED <<drag, dropTarget, stale>>

-----------------------------------------------------------------------------
(* The keyboard works on the selected block, also while a block is being    *)
(* dragged.                                                                 *)

Walks(b) == \E h \in blockDoc.handlers : b \in Walked(blockDoc, h)
HandlerOf(b) == CHOOSE h \in blockDoc.handlers : b \in Walked(blockDoc, h)
ParkedIn(b) == {r \in DOMAIN blockDoc.parked : b \in Range(blockDoc.parked[r])}

DeleteSelected(b) ==
    /\ MayEdit
    /\ \/ Walks(b) /\ CommitBlocks(RemoveBlock(blockDoc, HandlerOf(b), b))
       \/ /\ ~Walks(b)
          /\ \E r \in ParkedIn(b) : CommitBlocks(RemoveParked(blockDoc, blockDoc.parked[r][1]))
    /\ UNCHANGED <<drag, dropTarget, stale>>

DuplicateSelected(b) ==
    /\ MayEdit
    /\ CanCopy(BlockTree(blockDoc, {b}))
    /\ \/ Walks(b) /\ CommitBlocks(DuplicateAttached(blockDoc, HandlerOf(b), b,
                                             CopyOf(BlockTree(blockDoc, {b}))))
       \/ LET run == BlockTree(blockDoc, Range(blockDoc.parked[RunOf(blockDoc, b)]))
          IN  /\ ~Walks(b) /\ IsLead(blockDoc, b) /\ CanCopy(run)
              /\ CommitBlocks(DuplicateParked(blockDoc, b, CopyOf(run)))
    /\ UNCHANGED <<drag, dropTarget, stale>>

ArrowKey(b, step) ==
    /\ MayEdit
    /\ Walks(b)
    /\ CommitBlocks(MoveStatement(blockDoc, HandlerOf(b), b, step))
    /\ UNCHANGED <<drag, dropTarget, stale>>

(* Ctrl+Z; Ctrl+Y or Ctrl+Shift+Z.                                          *)
HistoryKey ==
    /\ stale => Unique(blockDoc)
    /\ stale' = (stale \/ ~Idle)
    /\ UNCHANGED <<drag, dropTarget, blockEdits>>

UndoBlocks ==
    /\ HistoryKey
    /\ blockPast # <<>>
    /\ blockDoc' = Last(blockPast)
    /\ blockPast' = Front(blockPast)
    /\ blockFuture' = <<blockDoc>> \o blockFuture

RedoBlocks ==
    /\ HistoryKey
    /\ blockFuture # <<>>
    /\ blockDoc' = Head(blockFuture)
    /\ blockPast' = Append(blockPast, blockDoc)
    /\ blockFuture' = Tail(blockFuture)

-----------------------------------------------------------------------------
(* Gestures: press, drag past the threshold, release over a target.  A      *)
(* press that never moves has no target, and drops nothing.                 *)

Outside == [to |-> "outside"]

Begin(gesture) ==
    /\ MayEdit /\ Idle
    /\ drag' = gesture /\ dropTarget' = Outside
    /\ UNCHANGED <<blockDoc, blockHistory, stale, blockEdits>>

BeginPalette(shape) ==
    /\ Free(shape) # {}
    /\ Begin([from |-> IF shape \subseteq Expressions THEN "palette-reporter"
                       ELSE "palette-statement",
              shape |-> shape])

BeginScript(h, b) ==
    /\ Locates(blockDoc, h, b)
    /\ Begin([from |-> "script", h |-> h, block |-> b])

BeginParked(r, offset) ==
    /\ r \in DOMAIN blockDoc.parked /\ offset < Len(blockDoc.parked[r])
    /\ Begin([from |-> "parked", lead |-> blockDoc.parked[r][1], offset |-> offset,
              tail |-> blockDoc.parked[r][offset + 1]])

(* A wired expression travels as a deep copy taken when the drag begins.    *)
BeginSlot(h, k) ==
    /\ h \in blockDoc.handlers /\ k[1] \in Findable(blockDoc, h)
    /\ blockDoc.socket[k] # NoBlock
    /\ LET carried == BlockTree(blockDoc, {blockDoc.socket[k]})
       IN  Begin([from |-> "slot", h |-> h, key |-> k, expr |-> blockDoc.socket[k],
                  carried |-> carried,
                  inner |-> [n \in {n \in Sockets : n[1] \in carried} |-> blockDoc.socket[n]]])

(* resolveTarget: the zone under the pointer.  Statement drags see stack    *)
(* positions, reporter drags see sockets, both see the free canvas.         *)
Kind(g) == IF g.from \in {"slot", "palette-reporter"} THEN "reporter" ELSE "statement"

ArmsOf(d, h) ==
    {a \in Arms : a = <<h, "body">> \/ a[1] \in Findable(d, h)}

Targets ==
    {[to |-> "park"], Outside}
      \cup (IF Kind(drag) = "statement"
            THEN UNION {UNION {{[to |-> "stack", h |-> h, arm |-> a, index |-> i] :
                                  i \in 0 .. Len(blockDoc.arm[a])} :
                                 a \in ArmsOf(blockDoc, h)} : h \in blockDoc.handlers}
            ELSE UNION {{[to |-> "socket", h |-> h, key |-> k] :
                           k \in {k \in Sockets : k[1] \in Findable(blockDoc, h)}} :
                         h \in blockDoc.handlers})

(* The pointer moves.  What it was over stays the target until it moves     *)
(* again, whatever the keys do to the program meanwhile.                    *)
PointAt(t) ==
    /\ ~Idle
    /\ dropTarget' = t
    /\ UNCHANGED <<blockDoc, blockHistory, drag, stale, blockEdits>>

(* A fault: the expression an occupied socket holds is overwritten.         *)
WireOver(d, t, e) == SetSlot(d, t.h, t.key, e)

(* Wire e into a socket; what findBlock sees there is parked.               *)
Wire(d, t, e) ==
    LET displaced == IF t.h \in d.handlers /\ t.key[1] \in Walked(d, t.h)
                     THEN d.socket[t.key] ELSE NoBlock
        wired == SetSlot(d, t.h, t.key, e)
    IN  IF displaced = NoBlock THEN wired ELSE AddParked(wired, displaced)

DropPaletteStatement(d, g, t) ==
    CASE t.to = "stack" -> AddStatement(d, t.h, t, New(g.shape))
      [] t.to = "park" -> AddParked(d, New(g.shape))
      [] OTHER -> d

DropPaletteReporter(d, g, t) ==
    CASE t.to = "socket" -> Wire(d, t, New(g.shape))
      [] t.to = "park" -> AddParked(d, New(g.shape))
      [] OTHER -> d

DropScript(d, g, t) ==
    CASE t.to = "stack" -> MoveRun(d, g.h, g.block, t.h, t)
      [] t.to = "park" -> ParkRun(d, g.h, g.block)
      [] OTHER -> d

DropParked(d, g, t) ==
    LET split == SplitParkedRun(d, g.lead, g.offset)
        attached == AttachParked(split, g.tail, t.h, t)
    IN  CASE t.to = "stack" /\ g.offset = 0 -> AttachParked(d, g.lead, t.h, t)
          [] t.to = "stack" /\ g.offset > 0 ->
               IF split = d \/ attached = split THEN d ELSE attached
          [] t.to = "park" /\ g.offset > 0 -> split
          [] OTHER -> d

DropSlot(d, g, t) ==
    LET cut == SetSlot(d, g.h, g.key, NoBlock)
        Unpacked(x) == [x EXCEPT !.socket = [k \in Sockets |->
                          IF k \in DOMAIN g.inner THEN g.inner[k] ELSE x.socket[k]]]
        placed == Unpacked(cut)
    IN  CASE t.to = "socket" /\ t.h = g.h /\ t.key = g.key -> d
          [] t.to = "socket" /\ ~(t.h = g.h /\ t.key = g.key) ->
               IF t.h \in d.handlers /\ t.key[1] \in Findable(cut, t.h)
               THEN Wire(placed, t, g.expr) ELSE cut
          [] t.to = "park" -> AddParked(placed, g.expr)
          [] OTHER -> d

Dropped(t) ==
    CASE drag.from = "palette-statement" -> DropPaletteStatement(blockDoc, drag, t)
      [] drag.from = "palette-reporter" -> DropPaletteReporter(blockDoc, drag, t)
      [] drag.from = "script" -> DropScript(blockDoc, drag, t)
      [] drag.from = "parked" -> DropParked(blockDoc, drag, t)
      [] drag.from = "slot" -> DropSlot(blockDoc, drag, t)

DropBlock ==
    /\ MayEdit /\ ~Idle
    /\ drag.from \in {"palette-statement", "palette-reporter"} => Free(drag.shape) # {}
    /\ drag' = NoBlock /\ dropTarget' = Outside
    /\ LET new == Tidy(Dropped(dropTarget))
       IN  \/ new = blockDoc /\ UNCHANGED <<blockDoc, blockHistory, blockEdits>>
          \/ CommitBlocks(new)
    /\ UNCHANGED stale

(* Escape, a cancelled pointer, a release that was missed.                  *)
Cancel ==
    /\ ~Idle
    /\ drag' = NoBlock /\ dropTarget' = Outside
    /\ UNCHANGED <<blockDoc, blockHistory, stale, blockEdits>>

-----------------------------------------------------------------------------

BlocksInit ==
    /\ blockDoc \in Loaded
    /\ blockPast = <<>> /\ blockFuture = <<>>
    /\ drag = NoBlock /\ dropTarget = Outside
    /\ stale = FALSE
    /\ blockEdits = 0

SideRail ==
    \E h \in Handlers :
        \/ AddHandler(h)
        \/ RemoveHandler(h)
        \/ \E shape \in {Ifs, Statements} : ClickPalette(h, shape)

Buttons ==
    \/ \E h \in Handlers, b \in Blocks : RowActions(h, b)
    \/ \E h \in Handlers, k \in Sockets : ClearValue(h, k)
    \/ \E b \in Blocks : ParkedActions(b)

Keyboard ==
    \/ \E b \in Blocks :
          \/ DeleteSelected(b)
          \/ DuplicateSelected(b)
          \/ \E step \in {-1, 1} : ArrowKey(b, step)
    \/ UndoBlocks
    \/ RedoBlocks

Gestures ==
    \/ \E shape \in Shapes : BeginPalette(shape)
    \/ \E h \in Handlers, b \in Blocks : BeginScript(h, b)
    \/ \E r \in DOMAIN blockDoc.parked, i \in 0 .. Cardinality(Blocks) : BeginParked(r, i)
    \/ \E h \in Handlers, k \in Sockets : BeginSlot(h, k)
    \/ ~Idle /\ \E t \in Targets : PointAt(t)
    \/ DropBlock
    \/ Cancel

BlocksNext == SideRail \/ Buttons \/ Keyboard \/ Gestures

BlocksSpec == BlocksInit /\ [][BlocksNext]_blockVars

-----------------------------------------------------------------------------
(* Properties. *)

(* The block program keeps its shape, and so does every one undo and redo   *)
(* go to.                                                                   *)
BlocksTypeOK ==
    /\ \A d \in Documents : Stored(d)
    /\ drag = NoBlock \/ drag.from \in {"palette-statement", "palette-reporter",
                                    "script", "parked", "slot"}
    /\ stale \in BOOLEAN
    /\ blockEdits \in 0 .. MaxBlockEdits

(* No operation of blocks.ts leaves a block in two places, whatever order   *)
(* gestures, buttons and keys come in; only pressing undo or redo (Ctrl+Z,  *)
(* Ctrl+Y, Ctrl+Shift+Z) in the middle of a drag can, because applyDrop     *)
(* pastes the copy taken when it began.                                     *)
EveryBlockOnce == ~stale => Unique(blockDoc)

(* Losing an expression needs one of three drops: onto an occupied socket   *)
(* inside an else arm; and of an expression taken from a socket, onto an    *)
(* operand of its own or onto a block deleted since the pointer moved.      *)
LosesAnExpression(t) ==
    LET there == t.h \in blockDoc.handlers /\ t.key[1] \in Findable(blockDoc, t.h)
    IN  /\ t.to = "socket"
        /\ \/ there /\ t.key[1] \notin Walked(blockDoc, t.h) /\ blockDoc.socket[t.key] # NoBlock
           \/ drag.from = "slot" /\ (t.key[1] \in drag.carried \/ ~there)

(* Apart from those, and from an undo or redo in the middle of a drag, a    *)
(* drag rearranges: whatever was on the canvas before the drop is on it     *)
(* afterwards (applyDrop, moveRun, attachParked, parkRun).                  *)
DropsKeepBlocks ==
    [][~Idle /\ drag' = NoBlock /\ blockEdits' # blockEdits /\ ~stale
         => OnCanvas(blockDoc) \subseteq OnCanvas(blockDoc')
            \/ LosesAnExpression(dropTarget)]_blockVars
=============================================================================
