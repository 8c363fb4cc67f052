---------------------------- MODULE UndoTimeline ----------------------------
(***************************************************************************)
(* What undo and redo promise an author: the documents of a session lie on *)
(* one line and the author stands at one of them. A change cuts off what   *)
(* lies ahead and adds one document; undo and redo only move; of a line    *)
(* that has become too long the oldest documents are forgotten.            *)
(***************************************************************************)
EXTENDS Naturals, Sequences

CONSTANTS Docs, UndoDepth

VARIABLES line, at

timeline == <<line, at>>

\* The last n elements of s, or s when it is shorter.
Newest(s, n) == IF Len(s) <= n THEN s ELSE SubSeq(s, Len(s) - n + 1, Len(s))

Open == \E d \in Docs : line' = <<d>> /\ at' = 1

Change == \E d \in Docs :
  /\ line' = Append(Newest(SubSeq(line, 1, at), UndoDepth), d)
  /\ at' = Len(line')

Back == at > 1 /\ at' = at - 1 /\ UNCHANGED line

Forward == at < Len(line) /\ at' = at + 1 /\ UNCHANGED line

Init == \E d \in Docs : line = <<d>> /\ at = 1

Next == Open \/ Change \/ Back \/ Forward

Spec == Init /\ [][Next]_timeline
=============================================================================
