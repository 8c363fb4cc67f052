--------------------------- MODULE ProjectDocument --------------------------
(***************************************************************************)
(* The document of the web builder and the operations every surface edits  *)
(* it with (lib/project-model/ops.ts): screens, the component tree of each *)
(* screen, the parent links of 3D entities, and the builder's selection    *)
(* and active screen beside it.                                            *)
(*                                                                         *)
(* A tree is kept flat: kids[s][p] is the list of children of p on screen  *)
(* s. Components carry the same id on a screen and on its copy.            *)
(***************************************************************************)
EXTENDS Integers, Sequences, FiniteSets, SequencesExt, Lists

CONSTANTS
  Screens,      \* screen ids
  Containers,   \* components that hold others
  Leaves,       \* components that do not
  Entities,     \* 3D entities: leaves with a transform and a parent link
  Root, None,
  MaxEdits      \* bound on the changes of a behaviour

Comps == Containers \cup Leaves \cup Entities

ASSUME DocumentAssumption ==
  /\ Containers \cap Leaves = {} /\ (Containers \cup Leaves) \cap Entities = {}
  /\ Root \notin Comps \cup Screens \cup {None} /\ None \notin Comps \cup Screens
  /\ IsFiniteSet(Comps) /\ Screens # {} /\ Containers # {}
  /\ (\E a, b \in Leaves : a # b) /\ (\E e, d \in Entities : e # d)
  /\ MaxEdits \in Nat

VARIABLES
  doc,          \* the project model
  before,       \* the model undo goes back to (BuilderSession has the line)
  active,       \* activeScreenId
  selected,     \* selectedId
  edits,        \* changes so far
  odd           \* what has happened that some promises do not survive

vars == <<doc, before, active, selected, edits, odd>>

Blank == [up |-> None, look |-> FALSE]
Models == [tabs : Seq(Screens), start : Screens,
           kids : [Screens -> [Comps \cup {Root} -> Seq(Comps)]],
           node : [Screens -> [Comps -> [up : Comps \cup {None},
                                         look : BOOLEAN]]]]

Events == {"copied", "ai", "cut", "undone"}

TypeOK ==
  /\ doc \in Models /\ before \in Models
  /\ active \in Screens /\ selected \in Comps \cup {None}
  /\ edits \in 0..MaxEdits /\ odd \subseteq Events

-----------------------------------------------------------------------------
(* Looking things up *)

IdsOf(m, s) == UNION {ToSet(m.kids[s][p]) : p \in Comps \cup {Root}}
Used(m) == UNION {IdsOf(m, s) : s \in ToSet(m.tabs)}

\* The first screen, in the order of the list, that has a component of this id.
HomeOf(m, c) ==
  IF c \notin Used(m) THEN None
  ELSE m.tabs[CHOOSE i \in DOMAIN m.tabs :
         /\ c \in IdsOf(m, m.tabs[i])
         /\ \A j \in 1..(i - 1) : c \notin IdsOf(m, m.tabs[j])]

ParentOf(m, s, c) == CHOOSE p \in Comps \cup {Root} : c \in ToSet(m.kids[s][p])

\* locateComponent: where an id lives, whichever screen asks.
Locate(m, c) ==
  LET s == HomeOf(m, c)
      p == ParentOf(m, s, c)
  IN [screen |-> s, parent |-> p, index |-> CHOOSE i \in DOMAIN m.kids[s][p] :
                                              m.kids[s][p][i] = c]

\* A component and everything below it (containsComponent).
Subtree(m, s, c) ==
  Walk(c, [p \in Comps |-> ToSet(m.kids[s][p])], Cardinality(Containers))

\* nodesOf: the children lists a component can be put in. A parent is looked
\* up by id alone.
ListOf(m, s, p) ==
  IF s \notin ToSet(m.tabs) THEN None
  ELSE IF p = Root THEN s
  ELSE IF p \in Containers THEN HomeOf(m, p) ELSE None

-----------------------------------------------------------------------------
(* Components *)

Min2(a, b) == IF a < b THEN a ELSE b

\* insertComponent: c becomes the child number i + 1, or the last.
Insert(m, s, p, i, c) ==
  LET at == ListOf(m, s, p) IN
  IF at = None THEN m
  ELSE [m EXCEPT !.kids[at][p] = InsertAt(@, Min2(i, Len(@)) + 1, c)]

\* removeComponent: c goes with everything below it.
RemoveNode(m, c) ==
  IF HomeOf(m, c) = None THEN m
  ELSE LET l == Locate(m, c)
           gone == Subtree(m, l.screen, c)
       IN [m EXCEPT
             !.kids[l.screen] = [p \in Comps \cup {Root} |->
                IF p \in gone THEN <<>>
                ELSE Omit(m.kids[l.screen][p], {c})],
             !.node[l.screen] = [d \in Comps |->
                IF d \in gone THEN Blank ELSE m.node[l.screen][d]]]

\* Mutant of MayMove: the test for a place below the component is forgotten.
MayMoveBelowItself(m, c, p) ==
  HomeOf(m, c) # None /\ (p # Root => HomeOf(m, p) # None)

\* A component moves to places that exist and are not below it.
MayMove(m, c, p) ==
  /\ HomeOf(m, c) # None
  /\ p # Root => HomeOf(m, p) # None /\ p \notin Subtree(m, HomeOf(m, c), c)

\* moveComponent: out of its list and into the list of p. Within one list,
\* leaving shifts the later places by one.
Move(m, c, s, p, i) ==
  IF ~MayMove(m, c, p) THEN m
  ELSE
    LET l == Locate(m, c)
        whole == Subtree(m, l.screen, c)
        removed == RemoveNode(m, c)
        at == ListOf(removed, s, p)
        place == IF l.screen = s /\ l.parent = p /\ l.index - 1 < i
                 THEN i - 1 ELSE i
        grown == [removed EXCEPT
                    !.kids[at] = [q \in Comps \cup {Root} |->
                       IF q \in whole THEN m.kids[l.screen][q] ELSE @[q]],
                    !.node[at] = [d \in Comps |->
                       IF d \in whole THEN m.node[l.screen][d] ELSE @[d]]]
    IN IF at = None THEN removed
       ELSE Insert(grown, s, p, place, c)

\* genId is random: an id that is used, or still pointed at, is not drawn.
Taken == Used(doc) \cup Used(before) \cup
           {doc.node[s][e].up : s \in Screens, e \in Entities}

\* A way to give every member of a set a fresh id of the same kind.
FreshIds(S) ==
  LET free == Comps \ Taken
      alike(c, d) == \A K \in {Containers, Leaves, Entities} :
                       (c \in K) = (d \in K)
  IN {f \in [S -> free] : /\ \A c \in S : alike(c, f[c])
                          /\ \A c, d \in S : f[c] = f[d] => c = d}

\* duplicateComponent: a copy of the subtree, all ids fresh, right after it.
Duplicate(m, c, f) ==
  LET l == Locate(m, c)
      list == m.kids[l.screen][l.parent]
      from(d) == CHOOSE o \in DOMAIN f : f[o] = d
      fresh == {f[o] : o \in DOMAIN f}
      copied == [p \in Comps \cup {Root} |->
                   IF p \in fresh
                   THEN [k \in DOMAIN m.kids[l.screen][from(p)] |->
                           f[m.kids[l.screen][from(p)][k]]]
                   ELSE m.kids[l.screen][p]]
  IN [m EXCEPT
        !.kids[l.screen] =
           [copied EXCEPT ![l.parent] = InsertAt(list, l.index + 1, f[c])],
        !.node[l.screen] = [d \in Comps |->
           IF d \in fresh THEN m.node[l.screen][from(d)] ELSE @[d]]]

\* updateComponent: a change of the component the id is found at first.
Update(m, c) ==
  IF HomeOf(m, c) = None THEN m
  ELSE [m EXCEPT !.node[HomeOf(m, c)][c].look = ~@]

-----------------------------------------------------------------------------
(* The 3D hierarchy: parent links between the entities of a screen *)

EntitiesOn(m, s) == IF s \in ToSet(m.tabs) THEN IdsOf(m, s) \cap Entities ELSE {}

\* The entities met walking up from e, e included.
Chain(m, s, e) ==
  Walk(e, [d \in Comps |-> {m.node[s][d].up} \ {None}], Cardinality(Entities))

\* setParent3D: refused when the parent is missing, the entity itself or one
\* of its descendants on this screen, or has itself no end of parents. The
\* write goes to the first component of that id.
SetParent(m, s, e, p) ==
  IF \/ e \notin EntitiesOn(m, s)
     \/ /\ p # None
        /\ \/ p \notin EntitiesOn(m, s)
           \/ e \in Chain(m, s, p)
           \/ \A d \in Chain(m, s, p) : m.node[s][d].up # None
  THEN m
  ELSE [m EXCEPT !.node[HomeOf(m, e)][e].up = p]

\* The entity and its descendants.
Family(m, s, e) == {d \in EntitiesOn(m, s) : e \in Chain(m, s, d)}

\* duplicateHierarchy3D: copies at the root, links remapped inside the copy,
\* the copy of the entity itself a root.
DuplicateFamily(m, s, e, f) ==
  LET fresh == {f[o] : o \in DOMAIN f}
      from(d) == CHOOSE o \in DOMAIN f : f[o] = d
      linkOf(d) == LET up == m.node[s][from(d)].up
                   IN IF up \in DOMAIN f THEN f[up] ELSE None
      order == Omit(m.kids[s][Root], Comps \ DOMAIN f)
  IN [m EXCEPT
        !.kids[s][Root] = @ \o [k \in DOMAIN order |-> f[order[k]]],
        !.node[s] = [d \in Comps |->
           IF d \in fresh THEN [m.node[s][from(d)] EXCEPT !.up = linkOf(d)]
           ELSE @[d]]]

\* Mutant of RemoveEntity: the children keep their link.
RemoveEntityAlone(m, s, e) == RemoveNode(m, e)

\* removeComponent3D: its children move up to its own parent.
RemoveEntity(m, s, e) ==
  IF e \notin EntitiesOn(m, s) THEN m
  ELSE [m EXCEPT
          !.kids[s][Root] = Omit(@, {e}),
          !.node[s] = [d \in Comps |->
             IF d = e THEN Blank
             ELSE IF @[d].up = e THEN [@[d] EXCEPT !.up = m.node[s][e].up]
             ELSE @[d]]]

\* Groups, of two here, are one operation after another, and one change for
\* the author.
RemoveEntities(m, s, e, d) == RemoveEntity(RemoveEntity(m, s, e), s, d)
RemoveMany(m, c, d) == RemoveNode(RemoveNode(m, c), d)
UpdateMany(m, c, d) == Update(Update(m, c), d)

-----------------------------------------------------------------------------
(* Screens *)

Empty == [kids |-> [p \in Comps \cup {Root} |-> <<>>],
          node |-> [c \in Comps |-> Blank]]

AddScreen(m, s) == [m EXCEPT !.tabs = Append(@, s)]

\* deleteScreen: never the last one; the start moves to the first left.
DeleteScreen(m, s) ==
  IF Len(m.tabs) <= 1 THEN m
  ELSE LET left == Omit(m.tabs, {s})
       IN [m EXCEPT !.tabs = left,
                    !.start = IF m.start = s THEN left[1] ELSE @,
                    !.kids[s] = Empty.kids, !.node[s] = Empty.node]

\* duplicateScreen: the copy keeps the ids of its components.
DuplicateScreen(m, s, t) ==
  LET at == CHOOSE i \in DOMAIN m.tabs : m.tabs[i] = s
  IN [m EXCEPT !.tabs = InsertAt(@, at + 1, t),
               !.kids[t] = m.kids[s], !.node[t] = m.node[s]]

MoveScreen(m, i, j) ==
  IF j \notin DOMAIN m.tabs THEN m
  ELSE [m EXCEPT !.tabs[i] = m.tabs[j], !.tabs[j] = m.tabs[i]]

SetStart(m, s) == IF s \notin ToSet(m.tabs) THEN m ELSE [m EXCEPT !.start = s]

\* ValidateModelClient: ids are unique on each screen, the start exists.
Valid(m) ==
  /\ m.start \in ToSet(m.tabs) /\ IsInjective(m.tabs)
  /\ \A s \in ToSet(m.tabs) :
       Cardinality(UNION {{p} \X DOMAIN m.kids[s][p] : p \in Comps \cup {Root}})
         = Cardinality(IdsOf(m, s))

-----------------------------------------------------------------------------
(* The builder *)

\* The screen on display: the active one, or the start when it is gone.
Shown == IF active \in ToSet(doc.tabs) THEN active ELSE doc.start

\* commit: one more step of the history. An operation that does not apply
\* returns the model it was given, which is no change. A document that has an
\* id twice on one screen is not followed further.
CanEdit == edits < MaxEdits /\ Valid(doc)
Record(m) == doc' = m /\ before' = doc /\ edits' = edits + 1
Commit(m) == m # doc /\ Record(m)

Keep == UNCHANGED <<active, odd>>

\* A new component dropped on a spot of the screen on display.
InsertNew(c, p, i) ==
  /\ c \notin Taken
  /\ Commit(Insert(doc, Shown, p, i, c))
  /\ selected' = c /\ Keep

\* Spots the canvas offers: places among the children of the screen itself
\* or of a container on it.
Spots == UNION {{<<p, i>> : i \in 0..Len(doc.kids[Shown][p])} :
                  p \in (Containers \cap IdsOf(doc, Shown)) \cup {Root}}

\* A component of the screen on display dropped on one of its spots.
Drop(c, p, i) ==
  /\ c \in IdsOf(doc, Shown)
  /\ MayMove(doc, c, p) /\ Record(Move(doc, c, Shown, p, i))
  /\ selected' = c /\ Keep

\* Palette click: into the selected container, or at the end of the screen.
PaletteAdd(c) ==
  LET inside == selected \in Containers /\ HomeOf(doc, selected) # None
      p == IF inside THEN selected ELSE Root
      s == IF inside THEN HomeOf(doc, selected) ELSE Shown
  IN /\ c \notin Taken
     /\ Commit(Insert(doc, Shown, p, Len(doc.kids[s][p]), c))
     /\ selected' = c /\ Keep

\* Up and down in the layer tree, forward and backward in the inspector: the
\* place asked for is the neighbour's.
Reorder(c, by) ==
  LET l == Locate(doc, c)
      target == l.index - 1 + by
  IN /\ c \in IdsOf(doc, Shown)
     /\ target >= 0 /\ target < Len(doc.kids[l.screen][l.parent])
     /\ Record(Move(doc, c, l.screen, l.parent, target))
     /\ UNCHANGED selected /\ Keep

\* To the front or to the back of its list.
ReorderTo(c, end) ==
  LET l == Locate(doc, c)
      n == Len(doc.kids[l.screen][l.parent])
  IN /\ c \in IdsOf(doc, Shown)
     /\ Record(Move(doc, c, l.screen, l.parent,
                    IF end = "front" THEN 0 ELSE n))
     /\ UNCHANGED selected /\ Keep

\* The Delete key, the tree's and the inspector's buttons. A 3D entity that
\* has children leaves them with a link to nothing.
Delete(c) ==
  /\ c \in IdsOf(doc, Shown)
  /\ Commit(RemoveNode(doc, c))
  /\ selected' = None
  /\ odd' = IF \E e \in Entities : doc.node[HomeOf(doc, c)][e].up = c
            THEN odd \cup {"cut"} ELSE odd
  /\ UNCHANGED active

DuplicateOne(c) ==
  /\ c \in IdsOf(doc, Shown)
  /\ \E f \in FreshIds(Subtree(doc, HomeOf(doc, c), c)) :
       /\ Commit(Duplicate(doc, c, f))
       /\ selected' = f[c]
  /\ Keep

Edit(c) ==
  /\ c \in IdsOf(doc, Shown)
  /\ Commit(Update(doc, c))
  /\ UNCHANGED selected /\ Keep

\* Two components of a scene or viewport selection at once.
EditGroup(c, d) ==
  /\ {c, d} \subseteq IdsOf(doc, Shown) /\ c # d
  /\ \/ Commit(UpdateMany(doc, c, d)) /\ UNCHANGED <<selected, odd>>
     \/ /\ {c, d} \cap Entities = {}
        /\ Commit(RemoveMany(doc, c, d)) /\ selected' = None
        /\ UNCHANGED odd
     \/ /\ {c, d} \subseteq Entities
        /\ Commit(RemoveEntities(doc, Shown, c, d))
        /\ UNCHANGED <<selected, odd>>
  /\ UNCHANGED active

Reparent(e, p) ==
  /\ e \in EntitiesOn(doc, Shown) /\ p \in EntitiesOn(doc, Shown) \cup {None}
  /\ Commit(SetParent(doc, Shown, e, p))
  /\ UNCHANGED selected /\ Keep

DuplicateEntity(e) ==
  /\ e \in EntitiesOn(doc, Shown)
  /\ \E f \in FreshIds(Family(doc, Shown, e)) :
       Commit(DuplicateFamily(doc, Shown, e, f))
  /\ UNCHANGED selected /\ Keep

DeleteEntity(e) ==
  /\ e \in EntitiesOn(doc, Shown)
  /\ Commit(RemoveEntity(doc, Shown, e))
  /\ UNCHANGED selected /\ Keep

SelectScreen(s) ==
  /\ s \in ToSet(doc.tabs) /\ s # active
  /\ active' = s /\ selected' = None
  /\ UNCHANGED <<doc, before, edits, odd>>

\* Only a selected container makes a difference, to a palette click.
Select(c) ==
  /\ c \in (Containers \cap IdsOf(doc, Shown)) \cup {None} /\ c # selected
  /\ selected' = c
  /\ UNCHANGED <<doc, before, active, edits, odd>>

NewScreen(s) ==
  /\ s \notin ToSet(doc.tabs)
  /\ Commit(AddScreen(doc, s))
  /\ active' = s /\ selected' = None
  /\ UNCHANGED odd

CopyScreen(s, t) ==
  /\ s \in ToSet(doc.tabs) /\ t \notin ToSet(doc.tabs)
  /\ Commit(DuplicateScreen(doc, s, t))
  /\ active' = t
  /\ odd' = odd \cup {"copied"}
  /\ UNCHANGED selected

DropScreen(s) ==
  /\ s \in ToSet(doc.tabs)
  /\ Commit(DeleteScreen(doc, s))
  /\ active' = IF active = s THEN doc'.tabs[1] ELSE active
  /\ selected' = None
  /\ UNCHANGED odd

ShiftScreen(i, by) ==
  /\ i \in DOMAIN doc.tabs
  /\ Commit(MoveScreen(doc, i, i + by))
  /\ UNCHANGED selected /\ Keep

StartHere(s) ==
  /\ Commit(SetStart(doc, s))
  /\ UNCHANGED selected /\ Keep

\* An AI changeset: a screen and a component in it, a deletion, or a property,
\* which may be the parent link of an entity. An operation on an id that is
\* gone is skipped; a result that is no valid model is refused as a whole.
ApplyChangeset(m) ==
  /\ Valid(m) /\ Commit(m)
  /\ selected' = None /\ odd' = odd \cup {"ai"}
  /\ UNCHANGED active

AINewScreen(s, c) ==
  /\ s \notin ToSet(doc.tabs) /\ c \in (Containers \cup Leaves) \ Taken
  /\ ApplyChangeset(Insert(AddScreen(doc, s), s, Root, 0, c))

\* The screen and the parent are named apart: the parent may be on another.
AICreates(s, p, c) ==
  /\ s \in ToSet(doc.tabs) /\ c \in (Containers \cup Leaves) \ Taken
  /\ p = Root \/ HomeOf(doc, p) # None
  /\ ApplyChangeset(Insert(doc, s, p, 0, c))

AIStarts(s) ==
  /\ s \in ToSet(doc.tabs)
  /\ ApplyChangeset(SetStart(doc, s))

AIDeletes(c) ==
  /\ HomeOf(doc, c) # None
  /\ ApplyChangeset(RemoveNode(doc, c))

AILinks(e, p) ==
  /\ HomeOf(doc, e) # None
  /\ ApplyChangeset([doc EXCEPT !.node[HomeOf(doc, e)][e].up = p])

Undo ==
  /\ before # doc
  /\ doc' = before /\ before' = doc
  /\ selected' = None
  /\ odd' = odd \cup {"undone"}
  /\ UNCHANGED <<active, edits>>

-----------------------------------------------------------------------------
\* A project starts from a template: an app with a container that holds a
\* component, or a 3D scene with one entity linked to another.
Start(s, list, kids, up) ==
  [tabs |-> <<s>>, start |-> s,
   kids |-> [t \in Screens |-> [p \in Comps \cup {Root} |->
      IF t # s THEN <<>> ELSE IF p = Root THEN list
      ELSE IF p = list[1] THEN kids ELSE <<>>]],
   node |-> [t \in Screens |-> [c \in Comps |->
      IF t = s /\ c = list[1] THEN [Blank EXCEPT !.up = up] ELSE Blank]]]

Init ==
  /\ LET s == CHOOSE s \in Screens : TRUE IN
       /\ \/ LET k == CHOOSE k \in Containers : TRUE
                 a == CHOOSE a \in Leaves : TRUE
                 b == CHOOSE b \in Leaves : b # a
             IN  doc = Start(s, <<k, a>>, <<b>>, None)
          \/ LET e == CHOOSE e \in Entities : TRUE
                 d == CHOOSE d \in Entities : d # e
             IN  doc = Start(s, <<e, d>>, <<>>, d)
       /\ active = s
  /\ before = doc /\ selected = None /\ edits = 0 /\ odd = {}

Is3D == \E s \in Screens : IdsOf(doc, s) \cap Entities # {}

ComponentActions ==
  \/ \E c \in IF Is3D THEN Entities ELSE Containers \cup Leaves :
       \/ \E spot \in Spots : InsertNew(c, spot[1], spot[2])
       \/ PaletteAdd(c)
  \/ \E c \in Comps :
       \/ \E spot \in Spots : Drop(c, spot[1], spot[2])
       \/ \E by \in {-1, 1} : Reorder(c, by)
       \/ \E end \in {"front", "back"} : ReorderTo(c, end)
       \/ Delete(c) \/ DuplicateOne(c) \/ Edit(c)
       \/ \E d \in Comps : EditGroup(c, d)
       \/ AIDeletes(c)

EntityActions == \E e \in Entities :
  \/ DuplicateEntity(e) \/ DeleteEntity(e)
  \/ \E p \in Entities \cup {None} : Reparent(e, p) \/ AILinks(e, p)

ScreenActions == \E s \in Screens :
  \/ NewScreen(s) \/ DropScreen(s) \/ StartHere(s)
  \/ \E t \in Screens : CopyScreen(s, t)
  \/ AIStarts(s)
  \/ ~Is3D /\ \E c \in Comps :
       \/ AINewScreen(s, c)
       \/ \E p \in Containers \cup {Root} : AICreates(s, p, c)
  \/ \E i \in DOMAIN doc.tabs : ShiftScreen(i, 1)

Look ==
  \/ \E s \in Screens : SelectScreen(s)
  \/ \E c \in Comps \cup {None} : Select(c)

Next ==
  \/ CanEdit /\ (ComponentActions \/ EntityActions \/ ScreenActions)
  \/ Look \/ Undo

Spec == Init /\ [][Next]_vars

-----------------------------------------------------------------------------
(* Properties *)

\* No two screens have a component of the same id.
NoSharedIds(m) ==
  \A s, t \in ToSet(m.tabs) : s # t => IdsOf(m, s) \cap IdsOf(m, t) = {}

\* Every component of a screen hangs below its root, once.
Tree(m, s) ==
  /\ IdsOf(m, s) = UNION {Subtree(m, s, c) : c \in ToSet(m.kids[s][Root])}
  /\ \A p \in Comps \cup {Root} :
       /\ m.kids[s][p] # <<>> => p \in Containers \cup {Root}
       /\ IsInjective(m.kids[s][p])
       /\ \A q \in Comps \cup {Root} :
            p # q => ToSet(m.kids[s][p]) \cap ToSet(m.kids[s][q]) = {}

\* What every builder action promises (ops.ts, header): a start screen that
\* exists, unique ids, a valid hierarchy. Copying a screen shares ids, and
\* what then happens to the hierarchy is not covered. And the screen shown is
\* the one block actions change, unless the author went back to before it
\* existed (activeScreenIdRef against the context's activeScreenId).
WellFormed ==
  /\ "undone" \notin odd => Shown = active
  /\ doc.start \in ToSet(doc.tabs) /\ IsInjective(doc.tabs)
  /\ "copied" \notin odd =>
       NoSharedIds(doc) /\ \A s \in ToSet(doc.tabs) : Tree(doc, s)

\* A component that is dropped, anywhere the canvas offers,
\* stays in the document with everything below it (moveComponent takes it
\* out before it looks for the new list).
MovesLoseNothing ==
  [][edits' > edits /\ ~(Used(doc) \subseteq Used(doc')) /\ NoSharedIds(doc) =>
       \A c \in Used(doc), spot \in Spots : ~Drop(c, spot[1], spot[2])]_vars

\* Parent links never form a cycle, unless a changeset writes one or ids are
\* shared (setParent3D: "cycles are impossible through this op"), and they
\* lead to entities of the same screen, unless an entity went through the
\* generic deletion (removeComponent3D: "never orphaned").
LinksAreSound ==
  odd \cap {"copied", "ai"} = {} =>
    \A s \in ToSet(doc.tabs) : \A e \in EntitiesOn(doc, s) :
      LET up == doc.node[s][e].up IN
      /\ up # None => e \notin Chain(doc, s, up)
      /\ "cut" \notin odd => up \in EntitiesOn(doc, s) \cup {None}

\* What the operations promise together (ops.ts, header): the hierarchy of
\* components and that of parent links both stay sound, whatever follows what.
DocumentIsSound == WellFormed /\ LinksAreSound
=============================================================================
