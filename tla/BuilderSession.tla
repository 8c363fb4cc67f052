--------------------------- MODULE BuilderSession ---------------------------
(***************************************************************************)
(* One project open in the web builder: the document in the tab with its   *)
(* undo history, the debounced autosave and its requests, publishing, and  *)
(* the project row they meet in. The builder compares documents by         *)
(* reference, so a document is a number: the order in which it was made.   *)
(***************************************************************************)
EXTENDS Integers, Sequences, FiniteSets

CONSTANTS
  MaxEdits,     \* bound on the documents a behaviour makes
  MaxSaves,     \* bound on the save requests a behaviour sends
  UndoDepth,    \* useHistory keeps 100 documents to go back to
  MaxFaults,    \* bound on requests that fail
  None          \* no publication, no request

ASSUME BoundsAssumption ==
  /\ MaxEdits \in Nat /\ MaxSaves \in Nat /\ MaxFaults \in Nat
  /\ UndoDepth \in Nat \ {0}
  /\ None \notin Int

VARIABLES
  doc,          \* the present document: history.state, modelRef.current
  past,         \* pastRef: where undo goes, newest last
  future,       \* futureRef: where redo goes, nearest first
  lastSaved,    \* lastSavedRef: the document the tab believes is stored
  saveState,    \* what the top bar says
  timer,        \* a debounced save is scheduled
  save,         \* the save requests: stage, document, and whether the tab
                \* that sent it still waits for the answer
  publish,      \* PublishButton: its stage, save request and what was shown
  row,          \* projects.model
  publication,  \* publications.model
  made,         \* documents made so far
  faults,       \* failures so far
  raced         \* a change or a save overlapped a save, a save a publication,
                \* or the answer to a save was lost

history == <<doc, past, future, made>>
tab == <<history, lastSaved, saveState, timer>>
store == <<row, publication>>
vars == <<tab, save, publish, store, faults, raced>>

Docs == 0..MaxEdits
Saves == 1..MaxSaves
Unsent == [stage |-> "unsent", doc |-> 0, awaited |-> FALSE]
Done == [stage |-> "done", doc |-> 0, awaited |-> FALSE]
Publishing(stage, seen, by, read, failed) ==
  [stage |-> stage, seen |-> seen, by |-> by, read |-> read, failed |-> failed]
Idle == Publishing("idle", 0, None, 0, FALSE)

InFlight == {s \in Saves : save[s].stage \in {"sent", "ok", "failed"}}
Waiting == {s \in InFlight : save[s].awaited}

SaveType == [stage : {"unsent", "sent", "ok", "failed", "done"}, doc : Docs,
             awaited : BOOLEAN]
PublishType == [stage : {"idle", "saving", "calling", "read"}, seen : Docs,
                by : Saves \cup {None}, read : Docs, failed : BOOLEAN]

TypeOK ==
  /\ doc \in Docs /\ lastSaved \in Docs /\ made \in Docs
  /\ past \in Seq(Docs) /\ future \in Seq(Docs)
  /\ Len(past) + Len(future) <= UndoDepth
  /\ saveState \in {"saved", "dirty", "saving", "error"}
  /\ timer \in BOOLEAN /\ raced \in BOOLEAN
  /\ save \in [Saves -> SaveType]
  /\ publish \in PublishType
  /\ row \in Docs /\ publication \in Docs \cup {None}
  /\ faults \in 0..MaxFaults

-----------------------------------------------------------------------------
(* The tab: the document and its history *)

\* Mutant of Watch: a change is shown as unsaved and no save is scheduled.
WatchWithoutTimer(d) ==
  IF d = lastSaved
  THEN UNCHANGED <<saveState, timer>>
  ELSE saveState' = "dirty" /\ timer' = timer

\* The effect that watches the document: one that is not the last saved one
\* is dirty and restarts the debounce; the last saved one changes nothing.
Watch(d) ==
  IF d = lastSaved
  THEN UNCHANGED <<saveState, timer>>
  ELSE saveState' = "dirty" /\ timer' = TRUE

Moved ==
  /\ Watch(doc')
  /\ raced' = (raced \/ Waiting # {})
  /\ UNCHANGED <<lastSaved, save, publish, store, faults>>

LastOf(s, n) == IF Len(s) <= n THEN s ELSE SubSeq(s, Len(s) - n + 1, Len(s))

\* commit: the present joins the past, whose oldest entry may be forgotten,
\* and the future is gone. Every change of the author's ends here: an edit,
\* an AI changeset, a restored snapshot, an uploaded asset.
Commit ==
  /\ made < MaxEdits
  /\ made' = made + 1
  /\ doc' = made + 1
  /\ past' = LastOf(Append(past, doc), UndoDepth)
  /\ future' = <<>>
  /\ Moved

\* Mutant of Undo: the present becomes the farthest future.
UndoToTheEnd ==
  /\ past # <<>>
  /\ doc' = past[Len(past)]
  /\ past' = SubSeq(past, 1, Len(past) - 1)
  /\ future' = Append(future, doc)
  /\ made' = made
  /\ Moved

Undo ==
  /\ past # <<>>
  /\ doc' = past[Len(past)]
  /\ past' = SubSeq(past, 1, Len(past) - 1)
  /\ future' = <<doc>> \o future
  /\ made' = made
  /\ Moved

Redo ==
  /\ future # <<>>
  /\ doc' = Head(future)
  /\ future' = Tail(future)
  /\ past' = Append(past, doc)
  /\ made' = made
  /\ Moved

-----------------------------------------------------------------------------
(* The tab: saving *)

\* saveNow when there is something to save: request s carries the document
\* as it is now.
Send(s) ==
  /\ save[s].stage = "unsent"
  /\ \A t \in 1..(s - 1) : save[t].stage # "unsent"
  /\ saveState' = "saving"
  /\ save' = [save EXCEPT ![s] = [stage |-> "sent", doc |-> doc,
                                  awaited |-> TRUE]]
  /\ raced' = (raced \/ InFlight # {} \/ publish.stage # "idle")

\* saveNow: it cancels the debounce, and says "saved" when the document is
\* the one it last saved.
SaveNow ==
  /\ timer' = FALSE
  /\ \/ /\ doc = lastSaved
        /\ saveState' = "saved"
        /\ UNCHANGED <<save, raced>>
     \/ /\ doc # lastSaved
        /\ \E s \in Saves : Send(s)

\* The debounce ends.
Autosave ==
  /\ timer
  /\ SaveNow
  /\ UNCHANGED <<history, lastSaved, publish, store, faults>>

\* The author presses Save or Retry, opens an export, or hides the tab.
Flush ==
  /\ saveState \in {"dirty", "error"} \/ doc # lastSaved
  /\ SaveNow
  /\ UNCHANGED <<history, lastSaved, publish, store, faults>>

\* The publication that waits for request s goes on.
Resume(s, failed) ==
  publish' = IF publish.stage = "saving" /\ publish.by = s
             THEN Publishing("calling", publish.seen, None, 0, failed)
             ELSE publish

\* The answer arrives: the tab notes the document it holds NOW as saved.
Answered(s) ==
  /\ save[s].stage = "ok" /\ save[s].awaited
  /\ lastSaved' = doc
  /\ saveState' = "saved"
  /\ save' = [save EXCEPT ![s] = Done]
  /\ Resume(s, FALSE)
  /\ UNCHANGED <<history, timer, store, faults, raced>>

\* Mutant of Refused: the document is noted as saved before the request.
RefusedAsSaved(s) ==
  /\ save[s].stage = "failed" /\ save[s].awaited
  /\ lastSaved' = doc
  /\ saveState' = "error"
  /\ save' = [save EXCEPT ![s] = Done]
  /\ Resume(s, TRUE)
  /\ UNCHANGED <<history, timer, store, faults, raced>>

\* The request failed, or its answer was lost. saveNow swallows the error,
\* so a publication that waits for it goes on too.
Refused(s) ==
  /\ save[s].stage = "failed" /\ save[s].awaited
  /\ saveState' = "error"
  /\ save' = [save EXCEPT ![s] = Done]
  /\ Resume(s, TRUE)
  /\ UNCHANGED <<history, lastSaved, timer, store, faults, raced>>

\* The tab is closed, after a warning when the document is not the last
\* saved one, and the project opened again with the row's document.
Reopen ==
  /\ doc' = row /\ lastSaved' = row
  /\ past' = <<>> /\ future' = <<>> /\ made' = made
  /\ saveState' = "saved" /\ timer' = FALSE
  /\ publish' = IF publish.stage = "saving" THEN Idle ELSE publish
  /\ save' = [s \in Saves |->
       IF save[s].stage \in {"ok", "failed"} THEN Done
       ELSE [save[s] EXCEPT !.awaited = FALSE]]
  /\ raced' = (raced \/ InFlight # {})
  /\ UNCHANGED <<store, faults>>

-----------------------------------------------------------------------------
(* The server's side of a save *)

Serve(s, from, to) ==
  /\ save[s].stage = from
  /\ save' = [save EXCEPT ![s] =
       IF save[s].awaited THEN [save[s] EXCEPT !.stage = to] ELSE Done]

\* UPDATE projects SET model: the last writer wins.
StoreModel(s) ==
  /\ Serve(s, "sent", "ok")
  /\ row' = save[s].doc
  /\ UNCHANGED <<tab, publish, publication, faults, raced>>

Fault == faults < MaxFaults /\ faults' = faults + 1

\* The request or its UPDATE fails.
SaveFails(s) ==
  /\ Fault
  /\ Serve(s, "sent", "failed")
  /\ UNCHANGED <<tab, publish, store, raced>>

\* The answer to a request that was served does not arrive.
AnswerLost(s) ==
  /\ Fault
  /\ Serve(s, "ok", "failed")
  /\ raced' = TRUE
  /\ UNCHANGED <<tab, publish, store>>

-----------------------------------------------------------------------------
(* Publishing *)

\* Mutant of ClickPublish: the save is sent and not waited for.
ClickPublishAtOnce ==
  /\ publish.stage = "idle"
  /\ SaveNow
  /\ publish' = Publishing("calling", doc, None, 0, FALSE)
  /\ UNCHANGED <<history, lastSaved, store, faults>>

\* publish saves first and waits for that save, if there is one to wait for.
ClickPublish ==
  /\ publish.stage = "idle"
  /\ SaveNow
  /\ publish' = LET sent == {s \in Saves : save'[s] # save[s]} IN
       IF sent = {} THEN Publishing("calling", doc, None, 0, FALSE)
       ELSE Publishing("saving", doc, CHOOSE s \in sent : TRUE, 0, FALSE)
  /\ UNCHANGED <<history, lastSaved, store, faults>>

\* PublishProject reads the project before its transaction ...
PublishReads ==
  /\ publish.stage = "calling"
  /\ publish' = Publishing("read", publish.seen, None, row, publish.failed)
  /\ UNCHANGED <<tab, save, store, faults, raced>>

\* ... and stores what it read.
PublishCommits ==
  /\ publish.stage = "read"
  /\ publication' = publish.read
  /\ publish' = Idle
  /\ UNCHANGED <<tab, save, row, faults, raced>>

PublishFails ==
  /\ Fault
  /\ publish.stage \in {"calling", "read"}
  /\ publish' = Idle
  /\ UNCHANGED <<tab, save, store, raced>>

Unpublish ==
  /\ publish.stage = "idle" /\ publication # None
  /\ publication' = None
  /\ UNCHANGED <<tab, publish, save, row, faults, raced>>

-----------------------------------------------------------------------------
Init ==
  /\ doc = 0 /\ lastSaved = 0 /\ past = <<>> /\ future = <<>>
  /\ saveState = "saved" /\ timer = FALSE
  /\ save = [s \in Saves |-> Unsent]
  /\ publish = Idle
  /\ row = 0 /\ publication = None
  /\ made = 0 /\ faults = 0 /\ raced = FALSE

Next ==
  \/ Commit \/ Undo \/ Redo
  \/ Autosave \/ Flush \/ Reopen
  \/ ClickPublish \/ PublishReads \/ PublishCommits \/ PublishFails \/ Unpublish
  \/ \E s \in Saves :
       \/ StoreModel(s) \/ Answered(s) \/ Refused(s)
       \/ SaveFails(s) \/ AnswerLost(s)

Spec == Init /\ [][Next]_vars

\* The debounce ends, the server runs every request and answers arrive.
\* Nothing is assumed of the author.
FairSpec ==
  /\ Spec
  /\ WF_vars(Autosave)
  /\ \A s \in Saves : WF_vars(StoreModel(s)) /\ WF_vars(Answered(s))

-----------------------------------------------------------------------------
(* Properties *)

\* While saves, changes and publications have not overlapped and no answer
\* was lost, the document the tab believes saved is the one the server has
\* whenever no save is under way: closing the tab without a warning loses
\* nothing, and "saved" is true (builder.tsx, saveNow and onBeforeUnload).
TabKnowsTheRow ==
  ~raced /\ InFlight = {} => row = lastSaved

\* A publication is the document its author saw when pressing Publish, when
\* nothing overlapped and the save before it succeeded (publish-button.tsx,
\* publish; publish.go, PublishProject).
PublishesWhatIsShown ==
  [][publication' \notin {None, publication} /\ ~raced /\ ~publish.failed
       => publication' = publish.seen]_vars

\* Once the author stops, and if nothing overlapped or failed and there are
\* requests left to send, the server ends up with the document in the tab
\* (builder.tsx, dirty detection).
ChangesReachTheServer ==
  \A d \in Docs :
    <>[](doc = d /\ ~raced /\ faults = 0) =>
      []<>(row = d \/ \A s \in Saves : save[s].stage # "unsent")

\* Undo and redo move along one line of documents (use-history.ts).
Timeline == INSTANCE UndoTimeline WITH
  line <- past \o <<doc>> \o future,
  at <- Len(past) + 1
UndoIsALine == Timeline!Spec

\* "Saved" is shown only when the server has the document in the tab
\* (builder.tsx, saveNow and the dirty detection below it).
SavedMeansStored ==
  saveState = "saved" /\ ~timer /\ InFlight = {} => row = doc
=============================================================================
