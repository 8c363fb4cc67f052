----------------------------- MODULE MCEditors -----------------------------
(***************************************************************************)
(* The editors of a screen that share no state: the document and its tree, *)
(* the blocks of a screen and the 3D viewport, each from its own initial   *)
(* states: a behaviour is one of one of them (surface), the others stand   *)
(* still.                                                                  *)
(***************************************************************************)
EXTENDS ProjectDocument, BlockDocument, Viewport3D

VARIABLE surface

(* Screens as the server returns them: an empty one, a script whose `if`    *)
(* has both arms filled, and one with a parked run beside it.               *)
NoHandlers ==
  [handlers |-> {}, arm |-> [a \in Arms |-> <<>>],
   socket |-> [k \in Sockets |-> NoBlock], parked |-> <<>>, placed |-> {}]

Branches(h, i, s1, s2, e1, e2) ==
  [NoHandlers EXCEPT !.handlers = {h},
                     !.arm = (<<h, "body">> :> <<i>> @@ <<i, "then">> :> <<s1>>
                              @@ <<i, "else">> :> <<s2>> @@ NoHandlers.arm),
                     !.socket = (<<s1, "value">> :> e1 @@ <<s2, "value">> :> e2
                                 @@ NoHandlers.socket)]

Drafts(h, i, s1, s2, o, e1, e2) ==
  [NoHandlers EXCEPT !.handlers = {h},
                     !.arm = (<<h, "body">> :> <<s1>> @@ NoHandlers.arm),
                     !.socket = (<<s1, "value">> :> o @@ <<o, "a">> :> e1 @@ NoHandlers.socket),
                     !.parked = << <<i, s2>>, <<e2>> >>,
                     !.placed = {i, e2}]

MCLoaded ==
  LET h == CHOOSE x \in Handlers : TRUE
      i == CHOOSE x \in Ifs : TRUE
      s1 == CHOOSE x \in Statements : TRUE
      s2 == CHOOSE x \in Statements \ {s1} : TRUE
      o == CHOOSE x \in Operators : TRUE
      e1 == CHOOSE x \in Literals : TRUE
      e2 == CHOOSE x \in Literals \ {e1} : TRUE
  IN  {NoHandlers, Branches(h, i, s1, s2, e1, e2), Drafts(h, i, s1, s2, o, e1, e2)}

(* A turned parent twice as large as its child. *)
MCNodeIds == <<"base", "arm", "n1", "n2", "n3", "n4">>
MCNodes ==
  "base" :> [at |-> 2, flip |-> TRUE, size |-> 2, up |-> NoNode]
  @@ "arm" :> [at |-> 1, flip |-> FALSE, size |-> 1, up |-> "base"]
MCPointerShifts == {0, 2, -6}

EditorInit ==
  /\ surface \in {"document", "blocks", "viewport"}
  /\ Init /\ BlocksInit /\ ViewInit
  /\ surface # "document" => Is3D
  /\ surface # "blocks" => blockDoc = NoHandlers

EditorNext ==
  /\ UNCHANGED surface
  /\ \/ surface = "document" /\ Next
     \/ surface = "blocks" /\ BlocksNext
     \/ surface = "viewport" /\ ViewNext
  /\ surface # "document" => UNCHANGED vars
  /\ surface # "blocks" => UNCHANGED blockVars
  /\ surface # "viewport" => UNCHANGED viewVars

editorVars == <<surface, vars, blockVars, viewVars>>

EditorSpec == EditorInit /\ [][EditorNext]_editorVars
=============================================================================
