------------------------ MODULE BuilderSessionProofs ------------------------
(***************************************************************************)
(* Proofs about BuilderSession for every bound: its types, what the tab    *)
(* knows of the stored project, what a publication holds, and that undo    *)
(* and redo implement UndoTimeline.                                        *)
(***************************************************************************)
EXTENDS BuilderSession, SequenceTheorems, TLAPS

\* A save under way carries the document in the tab, which is not the one
\* last saved, and the row is the former once it is served and the latter
\* before.
SaveCarries(s) ==
  /\ save[s].awaited
  /\ save[s].doc = doc
  /\ doc # lastSaved
  /\ save[s].stage = "ok" => row = doc
  /\ save[s].stage # "ok" => row = lastSaved

\* A publication waits for the save it sent, or finds the row as its author
\* saw the document, or has read it so.
PublishFollows ==
  /\ publish.stage = "saving" =>
       publish.by \in InFlight /\ save[publish.by].doc = publish.seen
  /\ publish.stage = "calling" /\ ~publish.failed =>
       InFlight = {} /\ row = publish.seen
  /\ publish.stage = "read" /\ ~publish.failed => publish.read = publish.seen

\* The strengthening of TabKnowsTheRow that every step keeps.
SessionInv ==
  ~raced =>
    /\ \A s, t \in InFlight : s = t
    /\ \A s \in InFlight : SaveCarries(s)
    /\ InFlight = {} => row = lastSaved
    /\ PublishFollows

-----------------------------------------------------------------------------
(* Lemmas about the sequences of the history *)

\* Keeping the newest entries keeps at most n of them (builder.tsx, useHistory).
LEMMA NewestIsShort ==
  ASSUME NEW S, NEW s \in Seq(S), NEW n \in Nat
  PROVE  LastOf(s, n) \in Seq(S) /\ Len(LastOf(s, n)) <= n
<1>1. CASE Len(s) <= n
  BY <1>1 DEF LastOf
<1>2. CASE Len(s) > n
  <2>1. LastOf(s, n) = SubSeq(s, Len(s) - n + 1, Len(s))
    BY <1>2, LenProperties DEF LastOf
  <2>2. Len(s) - n + 1 \in 1..(Len(s) + 1)
    BY <1>2, LenProperties
  <2> QED
    BY <2>1, <2>2, SubSeqProperties, LenProperties
<1> QED
  BY <1>1, <1>2, LenProperties

\* Undo takes the last entry of the past.
LEMMA FrontOfPast ==
  ASSUME NEW S, NEW s \in Seq(S), s # <<>>
  PROVE  /\ SubSeq(s, 1, Len(s) - 1) \in Seq(S)
         /\ Len(SubSeq(s, 1, Len(s) - 1)) = Len(s) - 1
         /\ s[Len(s)] \in S
         /\ \A i \in 1..(Len(s) - 1) : SubSeq(s, 1, Len(s) - 1)[i] = s[i]
<1>1. Len(s) \in Nat /\ Len(s) >= 1
  BY EmptySeq, LenProperties
<1>2. /\ SubSeq(s, 1, Len(s) - 1) \in Seq(S)
      /\ Len(SubSeq(s, 1, Len(s) - 1)) = Len(s) - 1
      /\ \A i \in 1..(Len(s) - 1) : SubSeq(s, 1, Len(s) - 1)[i] = s[i]
  <2>1. \A i \in 1..(Len(s) - 1) : s[i] \in S
    BY <1>1, ElementOfSeq
  <2> DEFINE n == Len(s) - 1
  <2>2. n \in Int /\ n >= 0 /\ 1 \in Int
    BY <1>1
  <2>3. \A i \in 1..n : s[i] \in S
    BY <2>1
  <2> HIDE DEF n
  <2>4. /\ SubSeq(s, 1, n) \in Seq(S)
        /\ Len(SubSeq(s, 1, n)) = IF 1 <= n THEN n - 1 + 1 ELSE 0
        /\ \A i \in 1..(n - 1 + 1) : SubSeq(s, 1, n)[i] = s[1 + i - 1]
    BY <2>2, <2>3, SubSeqProperties
  <2>5. Len(SubSeq(s, 1, n)) = n /\ \A i \in 1..n : SubSeq(s, 1, n)[i] = s[i]
    BY <2>2, <2>4
  <2> QED
    BY <2>4, <2>5 DEF n
<1>3. s[Len(s)] \in S
  BY <1>1, ElementOfSeq
<1> QED
  BY <1>2, <1>3

-----------------------------------------------------------------------------
(* Types *)

\* What a step makes of the record of a save, and of a publication.
LEMMA SaveRecords ==
  /\ Unsent \in SaveType
  /\ Done = [stage |-> "done", doc |-> 0, awaited |-> FALSE]
  /\ Done \in SaveType
  /\ \A r \in SaveType :
       /\ [r EXCEPT !.awaited = FALSE] \in SaveType
       /\ \A x \in {"ok", "failed"} :
            [r EXCEPT !.stage = x] = [stage |-> x, doc |-> r.doc, awaited |-> r.awaited]
<1>1. 0 \in Docs
  BY BoundsAssumption DEF Docs
<1>2. Unsent \in SaveType
  BY <1>1 DEF SaveType, Unsent
<1>3. Done = [stage |-> "done", doc |-> 0, awaited |-> FALSE]
  BY DEF Done
<1>4. Done \in SaveType
  BY <1>1, <1>3 DEF SaveType
<1>5. ASSUME NEW r \in SaveType
      PROVE  [r EXCEPT !.awaited = FALSE] \in SaveType
  BY DEF SaveType
<1>6. ASSUME NEW r \in SaveType, NEW x \in {"ok", "failed"}
      PROVE  [r EXCEPT !.stage = x] = [stage |-> x, doc |-> r.doc, awaited |-> r.awaited]
  BY DEF SaveType
<1> QED
  BY <1>2, <1>3, <1>4, <1>5, <1>6

\* The publish menu at rest is a publication of the right type.
LEMMA IdlePublish == Idle \in PublishType /\ Idle.stage = "idle"
<1>1. 0 \in Docs
  BY BoundsAssumption DEF Docs
<1> QED
  BY <1>1 DEF Idle, Publishing, PublishType

\* The initial states are well typed (builder.tsx, the state of a session).
THEOREM InitTypes == Init => TypeOK
<1> SUFFICES ASSUME Init PROVE TypeOK
  OBVIOUS
<1>1. 0 \in Docs
  BY BoundsAssumption DEF Docs
<1>2. save \in [Saves -> SaveType] /\ publish \in PublishType
  BY SaveRecords, IdlePublish DEF Init
<1>3. past \in Seq(Docs) /\ future \in Seq(Docs) /\ Len(past) = 0 /\ Len(future) = 0
  BY DEF Init
<1>4. faults \in 0..MaxFaults /\ Len(past) + Len(future) <= UndoDepth
  BY <1>3, BoundsAssumption DEF Init
<1>5. timer \in BOOLEAN /\ raced \in BOOLEAN
  BY Zenon DEF Init
<1> QED
  BY <1>1, <1>2, <1>3, <1>4, <1>5 DEF Init, TypeOK

\* A change of the document keeps the types.
LEMMA MovedTypes ==
  ASSUME TypeOK, Moved, doc' \in Docs, made' \in Docs,
         past' \in Seq(Docs), future' \in Seq(Docs),
         Len(past') + Len(future') <= UndoDepth
  PROVE  TypeOK'
BY DEF TypeOK, Moved, Watch, store, Docs, Saves

\* saveNow keeps the types of what it sets: the status, the timer and the save.
LEMMA SaveNowTypes ==
  ASSUME TypeOK, SaveNow
  PROVE  /\ saveState' \in {"saved", "dirty", "saving", "error"}
         /\ timer' \in BOOLEAN /\ raced' \in BOOLEAN
         /\ save' \in [Saves -> SaveType]
<1>1. CASE doc = lastSaved
  BY <1>1 DEF TypeOK, SaveNow
<1>2. CASE doc # lastSaved
  <2>1. PICK s \in Saves : Send(s)
    BY <1>2 DEF SaveNow
  <2> QED
    BY <2>1 DEF TypeOK, SaveNow, Send, SaveType
<1> QED
  BY <1>1, <1>2

\* Serving a request keeps the types.
LEMMA ServeTypes ==
  ASSUME save \in [Saves -> SaveType], NEW s \in Saves, NEW from,
         NEW to \in {"ok", "failed"}, Serve(s, from, to)
  PROVE  save' \in [Saves -> SaveType]
<1>1. [save[s] EXCEPT !.stage = to] \in SaveType
  BY SaveRecords DEF SaveType
<1> QED
  BY <1>1, SaveRecords DEF Serve

\* A press of Publish waits for the save it sent, or calls at once.
LEMMA ClickPublishRecord ==
  ASSUME TypeOK, ClickPublish
  PROVE  /\ publish' \in PublishType
         /\ publish'.seen = doc
         /\ \/ publish'.stage = "calling" /\ save' = save
            \/ /\ publish'.stage = "saving" /\ publish'.by \in Saves
               /\ save'[publish'.by] # save[publish'.by]
<1> DEFINE sent == {s \in Saves : save'[s] # save[s]}
<1>1. publish' = IF sent = {} THEN Publishing("calling", doc, None, 0, FALSE)
                 ELSE Publishing("saving", doc, CHOOSE s \in sent : TRUE, 0, FALSE)
  BY DEF ClickPublish
<1>2. doc \in Docs /\ 0 \in Docs
  BY BoundsAssumption DEF TypeOK, Docs
<1>3. CASE sent = {}
  <2>1. publish' = Publishing("calling", doc, None, 0, FALSE)
    BY <1>1, <1>3
  <2>2. save' = save
    BY <1>3, SaveNowTypes DEF ClickPublish, TypeOK
  <2> QED
    BY <1>2, <2>1, <2>2 DEF Publishing, PublishType
<1>4. CASE sent # {}
  <2> DEFINE s == CHOOSE t \in sent : TRUE
  <2>1. s \in Saves /\ save'[s] # save[s]
    BY <1>4
  <2>2. publish' = Publishing("saving", doc, s, 0, FALSE)
    BY <1>1, <1>4
  <2> QED
    BY <1>2, <2>1, <2>2 DEF Publishing, PublishType
<1> QED
  BY <1>3, <1>4

\* Every step keeps the types.
THEOREM NextTypes == TypeOK /\ [Next]_vars => TypeOK'
<1> SUFFICES ASSUME TypeOK, [Next]_vars
             PROVE  TypeOK'
  OBVIOUS
<1> USE BoundsAssumption
<1>1. CASE Commit
  <2>1. Append(past, doc) \in Seq(Docs)
    BY AppendProperties DEF TypeOK
  <2>2. past' \in Seq(Docs) /\ Len(past') <= UndoDepth
    BY <1>1, <2>1, NewestIsShort DEF Commit
  <2>3. future' \in Seq(Docs) /\ Len(future') = 0
    BY <1>1, EmptySeq DEF Commit
  <2>4. doc' \in Docs /\ made' \in Docs /\ Moved
    BY <1>1 DEF Commit, TypeOK, Docs
  <2>5. Len(past') \in Nat
    BY <2>2, LenProperties
  <2> QED
    BY <2>2, <2>3, <2>4, <2>5, MovedTypes
<1>2. CASE Undo
  <2>1. past \in Seq(Docs) /\ future \in Seq(Docs) /\ past # <<>> /\ doc \in Docs
    BY <1>2 DEF Undo, TypeOK
  <2>2. doc' \in Docs /\ past' \in Seq(Docs) /\ Len(past') = Len(past) - 1
    BY <1>2, <2>1, FrontOfPast DEF Undo
  <2>3. <<doc>> \in Seq(Docs) /\ Len(<<doc>>) = 1
    BY <2>1
  <2>4. future' \in Seq(Docs) /\ Len(future') = 1 + Len(future)
    BY <1>2, <2>1, <2>3, ConcatProperties DEF Undo
  <2>5. Len(past') + Len(future') <= UndoDepth
    BY <2>1, <2>2, <2>4, LenProperties DEF TypeOK
  <2>6. made' \in Docs /\ Moved
    BY <1>2 DEF Undo, TypeOK
  <2> QED
    BY <2>2, <2>4, <2>5, <2>6, MovedTypes
<1>3. CASE Redo
  <2>1. past \in Seq(Docs) /\ future \in Seq(Docs) /\ future # <<>> /\ doc \in Docs
    BY <1>3 DEF Redo, TypeOK
  <2>2. doc' \in Docs /\ future' \in Seq(Docs) /\ Len(future') = Len(future) - 1
    BY <1>3, <2>1, HeadTailProperties DEF Redo
  <2>3. past' \in Seq(Docs) /\ Len(past') = Len(past) + 1
    BY <1>3, <2>1, AppendProperties DEF Redo
  <2>4. Len(past') + Len(future') <= UndoDepth
    BY <2>1, <2>2, <2>3, LenProperties DEF TypeOK
  <2>5. made' \in Docs /\ Moved
    BY <1>3 DEF Redo, TypeOK
  <2> QED
    BY <2>2, <2>3, <2>4, <2>5, MovedTypes
<1>4. CASE Autosave \/ Flush
  <2>1. SaveNow /\ UNCHANGED <<history, lastSaved, publish, store, faults>>
    BY <1>4 DEF Autosave, Flush
  <2>2. /\ saveState' \in {"saved", "dirty", "saving", "error"}
        /\ timer' \in BOOLEAN /\ raced' \in BOOLEAN
        /\ save' \in [Saves -> SaveType]
    BY <2>1, SaveNowTypes
  <2>3. /\ doc' = doc /\ past' = past /\ future' = future /\ made' = made
        /\ lastSaved' = lastSaved /\ publish' = publish
        /\ row' = row /\ publication' = publication /\ faults' = faults
    BY <2>1 DEF history, store
  <2>4. /\ doc' \in Docs /\ lastSaved' \in Docs /\ made' \in Docs
        /\ past' \in Seq(Docs) /\ future' \in Seq(Docs)
        /\ Len(past') + Len(future') <= UndoDepth
        /\ publish' \in PublishType
        /\ row' \in Docs /\ publication' \in Docs \cup {None} /\ faults' \in 0..MaxFaults
    BY <2>3 DEF TypeOK
  <2> QED
    BY <2>2, <2>4, Zenon DEF TypeOK
<1>5. CASE Reopen
  <2>1. save' \in [Saves -> SaveType]
    BY <1>5, SaveRecords DEF Reopen, TypeOK
  <2>2. publish' \in PublishType
    BY <1>5, IdlePublish DEF Reopen, TypeOK
  <2>3. past' \in Seq(Docs) /\ future' \in Seq(Docs) /\ Len(past') = 0 /\ Len(future') = 0
    BY <1>5 DEF Reopen
  <2>4. timer' \in BOOLEAN /\ raced' \in BOOLEAN
    BY <1>5, Zenon DEF Reopen
  <2> QED
    BY <1>5, <2>1, <2>2, <2>3, <2>4 DEF Reopen, TypeOK, store
<1>6. CASE ClickPublish
  <2>1. SaveNow /\ UNCHANGED <<history, lastSaved, store, faults>>
    BY <1>6 DEF ClickPublish
  <2>2. publish' \in PublishType
    BY <1>6, ClickPublishRecord DEF TypeOK
  <2>3. /\ saveState' \in {"saved", "dirty", "saving", "error"}
        /\ timer' \in BOOLEAN /\ raced' \in BOOLEAN
        /\ save' \in [Saves -> SaveType]
    BY <2>1, SaveNowTypes
  <2> QED
    BY <2>1, <2>2, <2>3 DEF TypeOK, history, store
<1>7. CASE PublishReads
  <2>1. publish' \in PublishType
    BY <1>7 DEF PublishReads, TypeOK, Publishing, PublishType
  <2> QED
    BY <1>7, <2>1 DEF PublishReads, TypeOK, tab, history, store
<1>8. CASE PublishCommits \/ PublishFails \/ Unpublish
  <2>1. publish' \in PublishType
    BY <1>8, IdlePublish DEF PublishCommits, PublishFails, Unpublish, TypeOK
  <2>2. publication' \in Docs \cup {None}
    BY <1>8 DEF PublishCommits, PublishFails, Unpublish, TypeOK, PublishType, store
  <2> QED
    BY <1>8, <2>1, <2>2 DEF PublishCommits, PublishFails, Unpublish, Fault, TypeOK, tab,
                            history, store
<1>9. ASSUME NEW s \in Saves, StoreModel(s)
      PROVE  TypeOK'
  <2>1. save' \in [Saves -> SaveType] /\ row' \in Docs
    BY <1>9, ServeTypes DEF StoreModel, TypeOK, SaveType
  <2> QED
    BY <1>9, <2>1 DEF StoreModel, TypeOK, tab, history
<1>10. ASSUME NEW s \in Saves, Answered(s) \/ Refused(s)
       PROVE  TypeOK'
  <2>1. save' \in [Saves -> SaveType]
    BY <1>10, SaveRecords DEF Answered, Refused, TypeOK
  <2>2. publish' \in PublishType
    <3>1. \A x \in BOOLEAN : Resume(s, x) => publish' \in PublishType
      BY DEF Resume, TypeOK, Publishing, PublishType, Docs
    <3> QED
      BY <1>10, <3>1 DEF Answered, Refused
  <2> QED
    BY <1>10, <2>1, <2>2 DEF Answered, Refused, TypeOK, history, store
<1>11. ASSUME NEW s \in Saves, SaveFails(s) \/ AnswerLost(s)
       PROVE  TypeOK'
  <2>1. save' \in [Saves -> SaveType]
    BY <1>11, ServeTypes DEF SaveFails, AnswerLost, TypeOK
  <2>2. raced' \in BOOLEAN /\ faults' \in 0..MaxFaults
    <3>1. raced' = raced \/ raced' = TRUE
      BY <1>11, Zenon DEF SaveFails, AnswerLost
    <3>2. raced' \in BOOLEAN
      BY <3>1, Zenon DEF TypeOK
    <3>3. faults' \in 0..MaxFaults
      BY <1>11 DEF SaveFails, AnswerLost, Fault, TypeOK
    <3> QED
      BY <3>2, <3>3
  <2>3. UNCHANGED <<tab, publish, store>>
    BY <1>11 DEF SaveFails, AnswerLost
  <2>4. /\ doc' = doc /\ past' = past /\ future' = future /\ made' = made
        /\ lastSaved' = lastSaved /\ saveState' = saveState /\ timer' = timer
        /\ publish' = publish /\ row' = row /\ publication' = publication
    BY <2>3 DEF tab, history, store
  <2> QED
    BY <2>1, <2>2, <2>4, Zenon DEF TypeOK
<1>12. CASE UNCHANGED vars
  BY <1>12 DEF vars, tab, history, store, TypeOK
<1> QED
  BY <1>1, <1>2, <1>3, <1>4, <1>5, <1>6, <1>7, <1>8, <1>9, <1>10, <1>11,
     <1>12 DEF Next

\* Every variable keeps its type, and the history its depth (use-history.ts).
THEOREM SessionTypes == Spec => []TypeOK
<1> QED
  BY InitTypes, NextTypes, PTL DEF Spec

-----------------------------------------------------------------------------
(* What the tab knows of the row *)

\* The requests under way after a step that serves or ends only request s.
LEMMA OthersStay ==
  ASSUME save \in [Saves -> SaveType], NEW s \in Saves, NEW r \in SaveType,
         save' = [save EXCEPT ![s] = r]
  PROVE  /\ save'[s] = r
         /\ \A t \in Saves \ {s} : save'[t] = save[t]
         /\ \A t \in Saves \ {s} : t \in InFlight' <=> t \in InFlight
         /\ s \in InFlight' <=> r.stage \in {"sent", "ok", "failed"}
BY DEF InFlight

\* Nothing is under way when a session opens, and the tab holds the row.
LEMMA InitSession == Init => SessionInv
<1> SUFFICES ASSUME Init PROVE SessionInv
  OBVIOUS
<1>1. InFlight = {}
  BY DEF Init, InFlight, Unsent
<1> QED
  BY <1>1 DEF Init, SessionInv, PublishFollows, Idle, Publishing

\* A change while nothing is awaited leaves nothing under way that it could
\* contradict.
LEMMA MovedSession ==
  ASSUME TypeOK, SessionInv, Moved
  PROVE  SessionInv'
<1> SUFFICES ASSUME ~raced' PROVE SessionInv'
  BY DEF SessionInv
<1>1. ~raced /\ Waiting = {}
  BY DEF Moved
<1>2. InFlight = {}
  BY <1>1 DEF SessionInv, SaveCarries, Waiting
<1>3. /\ save' = save /\ row' = row /\ lastSaved' = lastSaved /\ publish' = publish
  BY DEF Moved, store
<1>4. InFlight' = {}
  BY <1>2, <1>3 DEF InFlight
<1> QED
  BY <1>1, <1>2, <1>3, <1>4 DEF SessionInv, PublishFollows

\* saveNow with nothing to save changes neither requests nor the record of
\* overlaps; with something to save it sends one request, alone when it
\* overlaps nothing.
LEMMA SaveNowSends ==
  ASSUME TypeOK, SessionInv, SaveNow, ~raced', lastSaved' = lastSaved, doc' = doc, row' = row
  PROVE  /\ ~raced
         /\ \/ doc = lastSaved /\ save' = save /\ InFlight = {} /\ InFlight' = {}
            \/ /\ doc # lastSaved /\ InFlight = {} /\ publish.stage = "idle"
               /\ \E s \in Saves : /\ InFlight' = {s}
                                    /\ save'[s] = [stage |-> "sent", doc |-> doc, awaited |-> TRUE]
                                    /\ \A t \in Saves \ {s} : save'[t] = save[t]
<1>1. CASE doc = lastSaved
  <2>1. save' = save /\ raced' = raced
    BY <1>1 DEF SaveNow
  <2>2. ~raced
    BY <2>1
  <2>3. InFlight = {}
    BY <1>1, <2>2 DEF SessionInv, SaveCarries
  <2>4. InFlight' = {}
    BY <2>1, <2>3 DEF InFlight
  <2> QED
    BY <1>1, <2>1, <2>2, <2>3, <2>4
<1>2. CASE doc # lastSaved
  <2>1. PICK s \in Saves : Send(s)
    BY <1>2 DEF SaveNow
  <2>2. ~raced /\ InFlight = {} /\ publish.stage = "idle"
    BY <2>1 DEF Send
  <2> DEFINE r == [stage |-> "sent", doc |-> doc, awaited |-> TRUE]
  <2>3. r \in SaveType /\ save' = [save EXCEPT ![s] = r]
    BY <2>1 DEF Send, SaveType, TypeOK
  <2>4. /\ save'[s] = r /\ s \in InFlight'
        /\ \A t \in Saves \ {s} : save'[t] = save[t] /\ t \notin InFlight'
    <3>1. save \in [Saves -> SaveType] /\ r.stage = "sent"
      BY DEF TypeOK
    <3> HIDE DEF r
    <3> QED
      BY <2>2, <2>3, <3>1, OthersStay
  <2>5. InFlight' \subseteq Saves
    BY DEF InFlight
  <2>6. InFlight' = {s}
    BY <2>4, <2>5
  <2> QED
    BY <1>2, <2>2, <2>4, <2>6
<1> QED
  BY <1>1, <1>2

\* saveNow keeps the invariant: what it sends is the document, and it is alone
\* unless the saves overlap.
LEMMA SaveNowSession ==
  ASSUME TypeOK, SessionInv, SaveNow, lastSaved' = lastSaved, doc' = doc, row' = row,
         publish' = publish
  PROVE  SessionInv'
<1> SUFFICES ASSUME ~raced' PROVE SessionInv'
  BY DEF SessionInv
<1>1. CASE doc = lastSaved
  <2>1. ~raced /\ save' = save /\ InFlight = {} /\ InFlight' = {}
    BY <1>1, SaveNowSends
  <2> QED
    BY <2>1 DEF SessionInv, PublishFollows
<1>2. CASE doc # lastSaved
  <2>1. PICK s \in Saves :
          /\ ~raced /\ InFlight = {} /\ publish.stage = "idle" /\ InFlight' = {s}
          /\ save'[s] = [stage |-> "sent", doc |-> doc, awaited |-> TRUE]
    BY <1>2, SaveNowSends
  <2>2. SaveCarries(s)'
    BY <1>2, <2>1 DEF SessionInv, SaveCarries
  <2>3. PublishFollows'
    BY <2>1 DEF PublishFollows
  <2> QED
    BY <2>1, <2>2, <2>3 DEF SessionInv
<1> QED
  BY <1>1, <1>2

\* Every step keeps the invariant.
LEMMA NextSession ==
  ASSUME TypeOK, SessionInv, [Next]_vars
  PROVE  SessionInv'
<1>1. CASE Commit \/ Undo \/ Redo
  BY <1>1, MovedSession DEF Commit, Undo, Redo
<1>2. CASE Autosave \/ Flush
  <2>1. SaveNow /\ lastSaved' = lastSaved /\ doc' = doc /\ row' = row /\ publish' = publish
    BY <1>2 DEF Autosave, Flush, history, store
  <2> QED
    BY <2>1, SaveNowSession
<1>3. CASE Reopen
  <2> SUFFICES ASSUME ~raced' PROVE SessionInv'
    BY DEF SessionInv
  <2>1. ~raced /\ InFlight = {}
    BY <1>3 DEF Reopen
  <2>2. InFlight' = {}
    <3>1. \A s \in Saves : save[s].stage \notin {"sent", "ok", "failed"}
      BY <2>1 DEF InFlight
    <3>2. \A s \in Saves : save'[s] = [save[s] EXCEPT !.awaited = FALSE]
      BY <1>3, <3>1 DEF Reopen
    <3>3. ASSUME NEW s \in Saves
          PROVE  save'[s].stage = save[s].stage
      <4>1. save[s] \in SaveType
        BY DEF TypeOK
      <4>2. \A r \in SaveType : [r EXCEPT !.awaited = FALSE].stage = r.stage
        BY DEF SaveType
      <4> QED
        BY <3>2, <4>1, <4>2
    <3> QED
      BY <3>1, <3>3 DEF InFlight
  <2>3. publish.stage # "saving"
    BY <2>1 DEF SessionInv, PublishFollows
  <2>4. publish' = publish /\ row' = row /\ lastSaved' = row
    BY <1>3, <2>3 DEF Reopen, store
  <2> QED
    BY <2>1, <2>2, <2>3, <2>4 DEF SessionInv, PublishFollows
<1>4. CASE ClickPublish
  <2> SUFFICES ASSUME ~raced' PROVE SessionInv'
    BY DEF SessionInv
  <2>1. SaveNow /\ lastSaved' = lastSaved /\ doc' = doc /\ row' = row
    BY <1>4 DEF ClickPublish, history, store
  <2>2. publish'.seen = doc /\ publish' \in PublishType
    BY <1>4, ClickPublishRecord
  <2>3. CASE doc = lastSaved
    <3>1. ~raced /\ save' = save /\ InFlight = {} /\ InFlight' = {}
      BY <2>1, <2>3, SaveNowSends
    <3>2. publish'.stage = "calling"
      BY <1>4, <3>1, ClickPublishRecord
    <3>3. row = doc
      BY <2>3, <3>1 DEF SessionInv
    <3> QED
      BY <2>1, <2>2, <2>3, <3>1, <3>2, <3>3 DEF SessionInv, PublishFollows
  <2>4. CASE doc # lastSaved
    <3>1. PICK s \in Saves :
            /\ ~raced /\ InFlight = {} /\ InFlight' = {s}
            /\ save'[s] = [stage |-> "sent", doc |-> doc, awaited |-> TRUE]
            /\ \A t \in Saves \ {s} : save'[t] = save[t]
      BY <2>1, <2>4, SaveNowSends
    <3>2. save' # save
      BY <3>1 DEF InFlight
    <3>3. publish'.stage = "saving" /\ publish'.by = s
      BY <1>4, <3>1, <3>2, ClickPublishRecord
    <3>4. SaveCarries(s)'
      BY <2>1, <2>4, <3>1 DEF SessionInv, SaveCarries
    <3>5. PublishFollows'
      BY <2>2, <3>1, <3>3 DEF PublishFollows
    <3> QED
      BY <3>1, <3>4, <3>5 DEF SessionInv
  <2> QED
    BY <2>3, <2>4
<1>5. CASE PublishReads
  <2>1. /\ save' = save /\ row' = row /\ lastSaved' = lastSaved /\ doc' = doc /\ raced' = raced
    BY <1>5 DEF PublishReads, tab, history, store
  <2>2. InFlight' = InFlight /\ \A s \in Saves : SaveCarries(s)' <=> SaveCarries(s)
    BY <2>1 DEF InFlight, SaveCarries
  <2>3. publish'.stage = "read" /\ publish'.seen = publish.seen /\ publish'.read = row
        /\ publish'.failed = publish.failed
    BY <1>5 DEF PublishReads, Publishing
  <2>4. SessionInv /\ ~raced => PublishFollows'
    BY <1>5, <2>3 DEF PublishReads, PublishFollows, SessionInv
  <2>5. InFlight \subseteq Saves
    BY DEF InFlight
  <2> QED
    BY <2>1, <2>2, <2>4, <2>5 DEF SessionInv
<1>6. CASE PublishCommits \/ PublishFails \/ Unpublish \/ UNCHANGED vars
  <2>1. /\ save' = save /\ row' = row /\ lastSaved' = lastSaved /\ doc' = doc /\ raced' = raced
    BY <1>6 DEF PublishCommits, PublishFails, Unpublish, vars, tab, history, store
  <2>2. InFlight' = InFlight /\ \A s \in Saves : SaveCarries(s)' <=> SaveCarries(s)
    BY <2>1 DEF InFlight, SaveCarries
  <2>3. publish' = Idle \/ publish' = publish
    BY <1>6 DEF PublishCommits, PublishFails, Unpublish, vars
  <2>4. PublishFollows => PublishFollows'
    BY <2>1, <2>2, <2>3, IdlePublish DEF PublishFollows
  <2>5. InFlight \subseteq Saves
    BY DEF InFlight
  <2> QED
    BY <2>1, <2>2, <2>4, <2>5 DEF SessionInv
<1>7. ASSUME NEW s \in Saves, StoreModel(s)
      PROVE  SessionInv'
  <2> SUFFICES ASSUME ~raced' PROVE SessionInv'
    BY DEF SessionInv
  <2>1. ~raced /\ s \in InFlight /\ row' = save[s].doc /\ save[s].stage = "sent"
    BY <1>7 DEF StoreModel, Serve, InFlight
  <2>2. SaveCarries(s) /\ \A t \in InFlight : t = s
    BY <2>1 DEF SessionInv
  <2> DEFINE r == [save[s] EXCEPT !.stage = "ok"]
  <2>3. save' = [save EXCEPT ![s] = r] /\ save[s] \in SaveType
    BY <1>7, <2>2 DEF StoreModel, Serve, SaveCarries, TypeOK
  <2>4. r = [stage |-> "ok", doc |-> save[s].doc, awaited |-> save[s].awaited]
    BY <2>3, SaveRecords
  <2>5. r \in SaveType
    BY <2>3, <2>4 DEF SaveType
  <2> HIDE DEF r
  <2>6. /\ save'[s] = r /\ s \in InFlight' /\ \A t \in InFlight' : t = s
    <3>1. InFlight' \subseteq Saves /\ InFlight \subseteq Saves
      BY DEF InFlight
    <3>2. save \in [Saves -> SaveType]
      BY DEF TypeOK
    <3>3. r.stage \in {"sent", "ok", "failed"}
      BY <2>4
    <3>4. /\ save'[s] = r /\ s \in InFlight'
          /\ \A t \in Saves \ {s} : t \in InFlight' <=> t \in InFlight
      BY <2>3, <2>5, <3>2, <3>3, OthersStay
    <3> QED
      BY <2>2, <3>1, <3>4
  <2>7. doc' = doc /\ lastSaved' = lastSaved /\ publish' = publish
    BY <1>7 DEF StoreModel, tab, history
  <2>8. SaveCarries(s)'
    BY <2>1, <2>2, <2>4, <2>6, <2>7 DEF SaveCarries
  <2>9. PublishFollows'
    <3>1. publish.stage = "saving" => publish.by = s /\ save[s].doc = publish.seen
      BY <2>1, <2>2 DEF SessionInv, PublishFollows
    <3>2. publish.stage = "calling" => publish.failed
      BY <2>1 DEF SessionInv, PublishFollows
    <3>3. publish.stage = "read" /\ ~publish.failed => publish.read = publish.seen
      BY <2>1 DEF SessionInv, PublishFollows
    <3>4. save'[s].doc = save[s].doc
      BY <2>4, <2>6
    <3> QED
      BY <2>6, <2>7, <3>1, <3>2, <3>3, <3>4 DEF PublishFollows
  <2> QED
    BY <2>6, <2>8, <2>9 DEF SessionInv
<1>8. ASSUME NEW s \in Saves, SaveFails(s)
      PROVE  SessionInv'
  <2> SUFFICES ASSUME ~raced' PROVE SessionInv'
    BY DEF SessionInv
  <2>1. ~raced /\ s \in InFlight /\ save[s].stage = "sent"
    BY <1>8 DEF SaveFails, Serve, InFlight
  <2>2. SaveCarries(s) /\ \A t \in InFlight : t = s
    BY <2>1 DEF SessionInv
  <2> DEFINE r == [save[s] EXCEPT !.stage = "failed"]
  <2>3. save' = [save EXCEPT ![s] = r] /\ save[s] \in SaveType
    BY <1>8, <2>2 DEF SaveFails, Serve, SaveCarries, TypeOK
  <2>4. r = [stage |-> "failed", doc |-> save[s].doc, awaited |-> save[s].awaited]
    BY <2>3, SaveRecords
  <2>5. r \in SaveType
    BY <2>3, <2>4 DEF SaveType
  <2> HIDE DEF r
  <2>6. /\ save'[s] = r /\ s \in InFlight' /\ \A t \in InFlight' : t = s
    <3>1. InFlight' \subseteq Saves /\ InFlight \subseteq Saves
      BY DEF InFlight
    <3>2. save \in [Saves -> SaveType]
      BY DEF TypeOK
    <3>3. r.stage \in {"sent", "ok", "failed"}
      BY <2>4
    <3>4. /\ save'[s] = r /\ s \in InFlight'
          /\ \A t \in Saves \ {s} : t \in InFlight' <=> t \in InFlight
      BY <2>3, <2>5, <3>2, <3>3, OthersStay
    <3> QED
      BY <2>2, <3>1, <3>4
  <2>7. doc' = doc /\ lastSaved' = lastSaved /\ publish' = publish /\ row' = row
    BY <1>8 DEF SaveFails, tab, history, store
  <2>8. SaveCarries(s)'
    BY <2>1, <2>2, <2>4, <2>6, <2>7 DEF SaveCarries
  <2>9. PublishFollows'
    <3>1. publish.stage = "saving" => publish.by = s /\ save[s].doc = publish.seen
      BY <2>1, <2>2 DEF SessionInv, PublishFollows
    <3>2. publish.stage = "calling" => publish.failed
      BY <2>1 DEF SessionInv, PublishFollows
    <3>3. publish.stage = "read" /\ ~publish.failed => publish.read = publish.seen
      BY <2>1 DEF SessionInv, PublishFollows
    <3>4. save'[s].doc = save[s].doc
      BY <2>4, <2>6
    <3> QED
      BY <2>6, <2>7, <3>1, <3>2, <3>3, <3>4 DEF PublishFollows
  <2> QED
    BY <2>6, <2>8, <2>9 DEF SessionInv
<1>9. ASSUME NEW s \in Saves, Answered(s) \/ Refused(s)
      PROVE  SessionInv'
  <2> SUFFICES ASSUME ~raced' PROVE SessionInv'
    BY DEF SessionInv
  <2>1. ~raced /\ s \in InFlight
    <3>1. raced' = raced
      BY <1>9, Zenon DEF Answered, Refused
    <3>2. s \in InFlight
      BY <1>9 DEF Answered, Refused, InFlight
    <3> QED
      BY <3>1, <3>2
  <2>2. SaveCarries(s) /\ \A t \in InFlight : t = s
    BY <2>1 DEF SessionInv
  <2>3. save' = [save EXCEPT ![s] = Done] /\ row' = row /\ doc' = doc
    BY <1>9 DEF Answered, Refused, history, store
  <2>4. InFlight' = {}
    <3>1. InFlight' \subseteq Saves /\ InFlight \subseteq Saves
      BY DEF InFlight
    <3>2. Done.stage = "done" /\ Done \in SaveType
      BY SaveRecords
    <3> QED
      BY <2>2, <2>3, <3>1, <3>2, OthersStay DEF TypeOK
  <2>5. row' = lastSaved'
    <3>1. CASE Answered(s)
      BY <2>2, <2>3, <3>1 DEF Answered, SaveCarries
    <3>2. CASE Refused(s)
      BY <2>2, <2>3, <3>2 DEF Refused, SaveCarries
    <3> QED
      BY <1>9, <3>1, <3>2
  <2>6. PublishFollows'
    <3>1. CASE publish.stage = "saving"
      <4>1. publish.by = s /\ publish.seen = save[s].doc
        BY <2>1, <2>2, <3>1 DEF SessionInv, PublishFollows
      <4>2. CASE Answered(s)
        <5>1. publish' = Publishing("calling", publish.seen, None, 0, FALSE)
          BY <3>1, <4>1, <4>2 DEF Answered, Resume
        <5>2. row = publish.seen
          BY <2>2, <4>1, <4>2 DEF Answered, SaveCarries
        <5> QED
          BY <2>3, <2>4, <5>1, <5>2 DEF PublishFollows, Publishing
      <4>3. CASE Refused(s)
        <5>1. publish' = Publishing("calling", publish.seen, None, 0, TRUE)
          BY <3>1, <4>1, <4>3 DEF Refused, Resume
        <5> QED
          BY <5>1 DEF PublishFollows, Publishing
      <4> QED
        BY <1>9, <4>2, <4>3
    <3>2. CASE publish.stage # "saving"
      <4>1. publish' = publish
        BY <1>9, <3>2 DEF Answered, Refused, Resume
      <4> QED
        BY <2>1, <2>3, <2>4, <3>2, <4>1 DEF SessionInv, PublishFollows
    <3> QED
      BY <3>1, <3>2
  <2> QED
    BY <2>4, <2>5, <2>6 DEF SessionInv
<1>10. ASSUME NEW s \in Saves, AnswerLost(s)
       PROVE  SessionInv'
  BY <1>10 DEF AnswerLost, SessionInv
<1> QED
  BY <1>1, <1>2, <1>3, <1>4, <1>5, <1>6, <1>7, <1>8, <1>9, <1>10 DEF Next

\* As long as nothing overlapped and no answer was lost, a tab without a save
\* under way holds as saved what the server stores (builder.tsx, saveNow).
THEOREM SavedIsKnown == Spec => []TabKnowsTheRow
<1>1. SessionInv => TabKnowsTheRow
  BY DEF SessionInv, TabKnowsTheRow
<1> QED
  BY <1>1, InitTypes, NextTypes, InitSession, NextSession, PTL DEF Spec

\* A publication without overlap and after a save that succeeded is the
\* document its author saw when pressing Publish (publish-button.tsx, publish).
THEOREM PublishedIsShown == Spec => PublishesWhatIsShown
<1>1. ASSUME TypeOK, SessionInv, [Next]_vars
      PROVE  publication' \notin {None, publication} /\ ~raced /\ ~publish.failed
               => publication' = publish.seen
  <2> SUFFICES ASSUME publication' \notin {None, publication}, ~raced, ~publish.failed
               PROVE  publication' = publish.seen
    OBVIOUS
  <2>1. PublishCommits
    BY <1>1 DEF Next, vars, Commit, Undo, Redo, Moved, Autosave, Flush, Reopen, ClickPublish,
                PublishReads, PublishFails, Unpublish, StoreModel, Answered, Refused, SaveFails,
                AnswerLost, store
  <2> QED
    BY <1>1, <2>1 DEF PublishCommits, SessionInv, PublishFollows
<1> QED
  BY <1>1, InitTypes, NextTypes, InitSession, NextSession, PTL DEF Spec, PublishesWhatIsShown

-----------------------------------------------------------------------------
(* Undo and redo implement UndoTimeline *)

Line == past \o <<doc>> \o future

\* Of the line, the documents up to the present one.
LEMMA LineUpToNow ==
  ASSUME TypeOK
  PROVE  SubSeq(Line, 1, Len(past) + 1) = Append(past, doc)
<1>1. past \in Seq(Docs) /\ future \in Seq(Docs) /\ doc \in Docs
  BY DEF TypeOK
<1>2. Append(past, doc) \in Seq(Docs) /\ Len(Append(past, doc)) = Len(past) + 1
  BY <1>1, AppendProperties
<1>3. Line = Append(past, doc) \o future
  BY <1>1, AppendIsConcat DEF Line
<1>4. SubSeq(Append(past, doc) \o future, 1, Len(Append(past, doc))) = Append(past, doc)
  <2>1. Len(past) \in Nat
    BY <1>1, LenProperties
  <2> DEFINE s == Append(past, doc)
  <2>2. s \in Seq(Docs) /\ Len(s) = Len(past) + 1
    BY <1>2
  <2> HIDE DEF s
  <2>3. 1 \in 1..Len(s) /\ Len(s) \in 1..Len(s)
    BY <2>1, <2>2
  <2>4. SubSeq(s \o future, 1, Len(s)) = SubSeq(s, 1, Len(s))
    BY <1>1, <2>2, <2>3, SubSeqOfConcat1
  <2>5. SubSeq(s, 1, Len(s)) = s
    BY <2>2, SubSeqFull
  <2> QED
    BY <2>4, <2>5 DEF s
<1> QED
  BY <1>2, <1>3, <1>4

\* The front of a sequence, its last entry: the sequence.
LEMMA FrontThenLast ==
  ASSUME NEW S, NEW s \in Seq(S), s # <<>>
  PROVE  SubSeq(s, 1, Len(s) - 1) \o <<s[Len(s)]>> = s
<1> DEFINE n == Len(s)
<1> DEFINE f == SubSeq(s, 1, n - 1)
<1> DEFINE t == <<s[n]>>
<1>1. n \in Nat /\ n >= 1
  BY EmptySeq, LenProperties
<1>2. /\ f \in Seq(S) /\ Len(f) = n - 1 /\ s[n] \in S
      /\ \A i \in 1..(n - 1) : f[i] = s[i]
  BY FrontOfPast
<1>3. t \in Seq(S) /\ Len(t) = 1 /\ t[1] = s[n]
  BY <1>2
<1> HIDE DEF f, t, n
<1>4. /\ f \o t \in Seq(S) /\ Len(f \o t) = Len(f) + Len(t)
      /\ \A i \in 1..Len(f) + Len(t) : (f \o t)[i] = IF i <= Len(f) THEN f[i] ELSE t[i - Len(f)]
  BY <1>2, <1>3, ConcatProperties
<1>5. ASSUME NEW i \in 1..n
      PROVE  (f \o t)[i] = s[i]
  <2>1. CASE i <= n - 1
    <3>1. i <= Len(f) /\ i \in 1..Len(f) + Len(t) /\ i \in 1..(n - 1)
      BY <1>1, <1>2, <1>3, <2>1
    <3>2. (f \o t)[i] = f[i]
      BY <1>4, <3>1
    <3>3. f[i] = s[i]
      BY <1>2, <3>1
    <3> QED
      BY <3>2, <3>3
  <2>2. CASE i = n
    <3>1. i - Len(f) = 1 /\ i \in 1..Len(f) + Len(t) /\ ~(i <= Len(f))
      BY <1>1, <1>2, <1>3, <2>2
    <3>2. (f \o t)[i] = t[1]
      BY <1>4, <3>1
    <3> QED
      BY <1>3, <2>2, <3>2
  <2>3. i <= n - 1 \/ i = n
    BY <1>1
  <2> QED
    BY <2>1, <2>2, <2>3, Zenon
<1>7. Len(f \o t) = n
  BY <1>1, <1>2, <1>3, <1>4
<1>6. f \o t = s
  BY <1>4, <1>5, <1>7, SeqEqual DEF n
<1> QED
  BY <1>6 DEF f, t, n

\* The first entry, then the rest: the sequence.
LEMMA HeadThenTail ==
  ASSUME NEW S, NEW s \in Seq(S), s # <<>>
  PROVE  <<Head(s)>> \o Tail(s) = s
<1> DEFINE h == <<Head(s)>>
<1> DEFINE t == Tail(s)
<1>1. Len(s) \in Nat /\ Len(s) >= 1
  BY EmptySeq, LenProperties
<1>2. /\ h \in Seq(S) /\ Len(h) = 1 /\ h[1] = s[1]
      /\ t \in Seq(S) /\ Len(t) = Len(s) - 1
      /\ \A i \in 1..Len(t) : t[i] = s[i + 1]
  BY HeadTailProperties
<1> HIDE DEF h, t
<1>3. /\ h \o t \in Seq(S) /\ Len(h \o t) = Len(h) + Len(t)
      /\ \A i \in 1..Len(h) + Len(t) : (h \o t)[i] = IF i <= Len(h) THEN h[i] ELSE t[i - Len(h)]
  <2>1. h \in Seq(S) /\ t \in Seq(S)
    BY <1>2
  <2> QED
    BY <2>1, ConcatProperties
<1>4. ASSUME NEW i \in 1..Len(s)
      PROVE  (h \o t)[i] = s[i]
  <2>1. CASE i = 1
    <3>1. i \in 1..Len(h) + Len(t) /\ i <= Len(h)
      BY <1>1, <1>2, <2>1
    <3>2. (h \o t)[i] = h[i]
      BY <1>3, <3>1
    <3>3. h[i] = s[i]
      BY <1>2, <2>1
    <3> QED
      BY <3>2, <3>3
  <2>2. CASE i > 1
    <3>1. i - 1 \in 1..Len(t) /\ i \in 1..Len(h) + Len(t) /\ ~(i <= Len(h)) /\ i - Len(h) = i - 1
      BY <1>1, <1>2, <2>2
    <3>2. (h \o t)[i] = t[i - 1]
      BY <1>3, <3>1
    <3>3. t[i - 1] = s[i - 1 + 1] /\ i - 1 + 1 = i
      BY <1>2, <3>1
    <3> QED
      BY <3>2, <3>3
  <2>3. i = 1 \/ i > 1
    BY <1>1
  <2> QED
    BY <2>1, <2>2, <2>3, Zenon
<1>6. Len(h \o t) = Len(s)
  BY <1>1, <1>2, <1>3
<1>5. h \o t = s
  BY <1>3, <1>4, <1>6, SeqEqual
<1> QED
  BY <1>5 DEF h, t

\* Every step is a step of the timeline, or leaves it alone.
LEMMA TimelineStep ==
  ASSUME TypeOK, TypeOK', [Next]_vars
  PROVE  [Timeline!Next]_(Timeline!timeline)
<1> DEFINE at == Len(past) + 1
<1>1. /\ past \in Seq(Docs) /\ future \in Seq(Docs) /\ doc \in Docs /\ <<doc>> \in Seq(Docs)
      /\ past' \in Seq(Docs) /\ future' \in Seq(Docs) /\ doc' \in Docs /\ <<doc'>> \in Seq(Docs)
      /\ Len(past) \in Nat /\ Len(future) \in Nat
  <2>1. /\ past \in Seq(Docs) /\ future \in Seq(Docs) /\ doc \in Docs
        /\ past' \in Seq(Docs) /\ future' \in Seq(Docs) /\ doc' \in Docs
    BY DEF TypeOK
  <2> QED
    BY <2>1, LenProperties
<1>2. CASE Commit
  <2>1. SubSeq(Line, 1, at) = Append(past, doc)
    BY LineUpToNow
  <2>2. past' = Timeline!Newest(SubSeq(Line, 1, at), UndoDepth)
    BY <1>2, <2>1 DEF Commit, LastOf, Timeline!Newest
  <2>3. Line' = past' \o <<doc'>>
    <3>1. past' \o <<doc'>> \in Seq(Docs)
      BY <1>1, ConcatProperties
    <3> QED
      BY <1>2, <3>1, ConcatEmptySeq DEF Commit, Line
  <2>4. Line' = Append(past', doc') /\ at' = Len(Line')
    BY <1>1, <2>3, AppendIsConcat, AppendProperties
  <2> QED
    BY <1>1, <2>2, <2>4 DEF Timeline!Next, Timeline!Change, Line
<1>3. CASE Undo
  <2>1. past # <<>>
    BY <1>3 DEF Undo
  <2>2. past' \o <<doc'>> = past
    BY <1>1, <1>3, <2>1, FrontThenLast DEF Undo
  <2>3. Line' = past \o (<<doc>> \o future)
    BY <1>3, <2>2 DEF Undo, Line
  <2>4. Line' = Line
    <3>1. past \o <<doc>> \o future = past \o (<<doc>> \o future)
      BY <1>1, ConcatAssociative
    <3> QED
      BY <2>3, <3>1, Zenon DEF Line
  <2>5. Len(past') = Len(past) - 1 /\ Len(past) >= 1
    BY <1>1, <1>3, <2>1, FrontOfPast, EmptySeq DEF Undo
  <2>6. at > 1 /\ at' = at - 1
    BY <1>1, <2>5
  <2> QED
    BY <2>4, <2>6 DEF Timeline!Next, Timeline!Back, Line
<1>4. CASE Redo
  <2>1. future # <<>>
    BY <1>4 DEF Redo
  <2>2. <<doc'>> \o future' = future
    BY <1>1, <1>4, <2>1, HeadThenTail DEF Redo
  <2>3. past' = past \o <<doc>> /\ past' = Append(past, doc)
    BY <1>1, <1>4, AppendIsConcat DEF Redo
  <2>4. past' \o <<doc'>> \o future' = past' \o (<<doc'>> \o future')
    BY <1>1, ConcatAssociative
  <2>5. Line' = Line
    <3>1. Line' = past' \o future
      BY <2>2, <2>4, Zenon DEF Line
    <3>2. Line = past' \o future
      BY <2>3, Zenon DEF Line
    <3> QED
      BY <3>1, <3>2
  <2>6. at' = at + 1 /\ at < Len(Line)
    <3>1. Len(past') = Len(past) + 1
      BY <1>1, <2>3, AppendProperties
    <3>2. Len(Line) = Len(past) + 1 + Len(future)
      <4>1. past' \o future = Line
        BY <2>3 DEF Line
      <4> QED
        BY <1>1, <3>1, <4>1, ConcatProperties
    <3>3. Len(future) >= 1
      BY <1>1, <2>1, EmptySeq
    <3> QED
      BY <1>1, <3>1, <3>2, <3>3
  <2> QED
    BY <2>5, <2>6 DEF Timeline!Next, Timeline!Forward, Line
<1>5. CASE Reopen
  <2>1. past' = <<>> /\ future' = <<>>
    BY <1>5 DEF Reopen
  <2>2. Line' = <<doc'>> /\ at' = 1
    BY <1>1, <2>1, ConcatEmptySeq, EmptySeq DEF Line
  <2> QED
    BY <1>1, <2>2 DEF Timeline!Next, Timeline!Open, Line
<1>6. CASE UNCHANGED history
  BY <1>6 DEF history, Timeline!timeline
<1>7. Commit \/ Undo \/ Redo \/ Reopen \/ UNCHANGED history
  BY DEF Next, vars, tab, Autosave, Flush, ClickPublish, PublishReads, PublishCommits,
         PublishFails, Unpublish, StoreModel, Answered, Refused, SaveFails, AnswerLost
<1> QED
  BY <1>2, <1>3, <1>4, <1>5, <1>6, <1>7

\* The tab's past, present and future are the line of documents UndoTimeline
\* promises (use-history.ts, useHistory).
THEOREM UndoImplementsTimeline == Spec => UndoIsALine
<1>1. Init => Timeline!Init
  <2> SUFFICES ASSUME Init PROVE Timeline!Init
    OBVIOUS
  <2>1. past \o <<doc>> \o future = <<0>> /\ Len(past) + 1 = 1 /\ 0 \in Docs
    BY BoundsAssumption DEF Init, Docs
  <2> QED
    BY <2>1 DEF Timeline!Init
<1> QED
  BY <1>1, InitTypes, NextTypes, TimelineStep, PTL DEF Spec, UndoIsALine, Timeline!Spec
=============================================================================
