--------------------------- MODULE WebPanelsProofs ---------------------------
(***************************************************************************)
(* What the panels and pages of the web client promise for every bound,    *)
(* each from its own initial state: one accepted answer in a thread, a     *)
(* build panel that shows its own run, a dashboard that shows what is      *)
(* stored, assets that are the ones referred to, a checkout that calls a   *)
(* success what the server holds as one, and reset links that work once.   *)
(***************************************************************************)
EXTENDS CommunityPages, ExtensionStudio, Dashboard, ProjectInsights, CreditCheckout, Accounts,
        SequenceTheorems, TLAPS

-----------------------------------------------------------------------------
(* The thread of a question (CommunityPages).                              *)

ReplyRows == [id : ReplyIds, voted : BOOLEAN, accepted : BOOLEAN]

\* Rows that mark at most one answer as accepted.
OneMark(list) ==
  /\ list \subseteq ReplyRows
  /\ \A a, b \in list : a.accepted /\ b.accepted => a.id = b.id

\* A request that has been served carries a list with one mark, and the row of
\* its own answer without any.
AnswerIsSound(c) ==
  c.answer # <<>> =>
    /\ OneMark(c.answer[2])
    /\ c.target \in ReplyIds => c.answer[3] \in ReplyRows /\ ~c.answer[3].accepted

\* What a request is about, as far as its answer changes the list shown.
CallIsTyped(c) ==
  /\ c = [kind |-> c.kind, target |-> c.target, answer |-> c.answer, nth |-> c.nth]
  /\ c.kind = "reply" => c.target \in ReplyIds
  /\ c.kind = "vote" => c.target \in ReplyIds \cup {Thread}

ThreadInv ==
  /\ written \subseteq ReplyIds
  /\ OneMark(answers)
  /\ \A c \in pageCalls : CallIsTyped(c) /\ AnswerIsSound(c)

\* A new request is of the right shape and carries no answer.
LEMMA NewCallIsSound ==
  ASSUME NEW c,
         \E k, t, n : /\ c = [kind |-> k, target |-> t, answer |-> <<>>, nth |-> n]
                      /\ k = "reply" => t \in ReplyIds
                      /\ k = "vote" => t \in ReplyIds \cup {Thread}
  PROVE  CallIsTyped(c) /\ AnswerIsSound(c)
BY DEF CallIsTyped, AnswerIsSound

\* A row without its vote, and with its mark as the thread sets it.
Unvoted(a) == [a EXCEPT !.voted = FALSE]
Marked(a, r) == [a EXCEPT !.accepted = a.id = r]

\* What such a change of a row leaves alone.
LEMMA RowChanges ==
  ASSUME NEW a \in ReplyRows
  PROVE  /\ Unvoted(a) \in ReplyRows
         /\ Unvoted(a).id = a.id
         /\ Unvoted(a).accepted = a.accepted
         /\ \A r : /\ Marked(a, r) \in ReplyRows
                   /\ Marked(a, r).id = a.id
                   /\ Marked(a, r).accepted = (a.id = r)
BY DEF ReplyRows, Unvoted, Marked

\* A list rendered for nobody, and one whose mark is moved, still has one mark
\* (post-detail.tsx, acceptReply and clearAccepted).
LEMMA ListChanges ==
  /\ \A list : OneMark(list) => OneMark(Anonymous(list))
  /\ OneMark(answers) => \A r : OneMark(MarkAccepted(r))
<1>1. ASSUME NEW list, OneMark(list)
      PROVE  OneMark(Anonymous(list))
  <2>1. Anonymous(list) = {Unvoted(a) : a \in list}
    BY DEF Anonymous, Unvoted
  <2>2. QED
    BY <1>1, <2>1, RowChanges DEF OneMark
<1>2. ASSUME OneMark(answers), NEW r
      PROVE  OneMark(MarkAccepted(r))
  <2>1. MarkAccepted(r) = {Marked(a, r) : a \in answers}
    BY DEF MarkAccepted, Marked
  <2>2. \A a \in answers : Marked(a, r) \in ReplyRows
                          /\ (Marked(a, r).accepted => Marked(a, r).id = r)
    BY <1>2, RowChanges DEF OneMark
  <2>3. \A x \in MarkAccepted(r) : x \in ReplyRows /\ (x.accepted => x.id = r)
    BY <2>1, <2>2
  <2>4. QED
    BY <2>3 DEF OneMark
<1>3. QED
  BY <1>1, <1>2

\* An answer shows its rows: whole lists, one row in place, one row more or less
\* (the handlers of post-detail.tsx).
LEMMA ThreadAnswerKeepsOneMark ==
  ASSUME ThreadInv, NEW c \in pageCalls, c.answer # <<>>, ThreadAnswer(c)
  PROVE  OneMark(answers')
<1> USE DEF ThreadInv
<1> DEFINE replies == c.answer[2]
           reply == c.answer[3]
<1>1. /\ OneMark(replies)
      /\ c.target \in ReplyIds => reply \in ReplyRows /\ ~reply.accepted
      /\ c.kind = "reply" => c.target \in ReplyIds
      /\ c.kind = "vote" => c.target \in ReplyIds \cup {Thread}
  BY DEF AnswerIsSound, CallIsTyped
<1> HIDE DEF replies, reply
<1>2. answers' = CASE c.kind = "refresh" -> IF signedIn THEN replies ELSE Anonymous(replies)
                   [] c.kind = "vote" /\ c.target # Thread -> Replace(reply)
                   [] c.kind = "accept" -> MarkAccepted(c.target)
                   [] c.kind = "reply" -> answers \cup {reply}
                   [] c.kind = "deleteReply" -> {a \in answers : a.id # c.target}
                   [] OTHER -> answers
  BY DEF ThreadAnswer, replies, reply
<1>3. CASE c.kind = "refresh"
  <2>1. answers' = replies \/ answers' = Anonymous(replies)
    BY <1>2, <1>3
  <2>2. QED
    BY <1>1, <2>1, ListChanges
<1>4. CASE c.kind = "vote" /\ c.target # Thread
  <2>1. answers' = Replace(reply)
    BY <1>2, <1>4
  <2>2. reply \in ReplyRows /\ ~reply.accepted
    BY <1>1, <1>4
  <2>3. QED
    BY <2>1, <2>2 DEF Replace, OneMark
<1>5. CASE c.kind = "accept"
  <2>1. answers' = MarkAccepted(c.target)
    BY <1>2, <1>5
  <2>2. QED
    BY <2>1, ListChanges
<1>6. CASE c.kind = "reply"
  <2>1. answers' = answers \cup {reply}
    BY <1>2, <1>6
  <2>2. reply \in ReplyRows /\ ~reply.accepted
    BY <1>1, <1>6
  <2>3. QED
    BY <2>1, <2>2 DEF OneMark
<1>7. CASE c.kind = "deleteReply"
  <2>1. answers' = {a \in answers : a.id # c.target}
    BY <1>2, <1>7
  <2>2. QED
    BY <2>1 DEF OneMark
<1>8. CASE /\ c.kind \notin {"refresh", "accept", "reply", "deleteReply"}
           /\ ~(c.kind = "vote" /\ c.target # Thread)
  <2>1. answers' = answers
    BY <1>2, <1>8
  <2>2. QED
    BY <2>1
<1>9. QED
  BY <1>3, <1>4, <1>5, <1>6, <1>7, <1>8

\* A row of an answer: marked in a list at most when it is the accepted one.
LEMMA ListedRow ==
  ASSUME NEW r \in ReplyIds, NEW voters, NEW mark, NEW listed \in BOOLEAN
  PROVE  LET row == [id |-> r, voted |-> r \in voters, accepted |-> listed /\ r = mark]
         IN /\ row \in ReplyRows
            /\ row.accepted => listed /\ row.id = mark
<1>1. [id |-> r, voted |-> r \in voters, accepted |-> listed /\ r = mark] \in ReplyRows
  BY SMT DEF ReplyRows
<1>2. QED
  BY <1>1

\* The rows a request is answered with (internal/community/posts.go).
LEMMA ServedAnswerIsSound ==
  ASSUME ThreadInv, NEW c \in pageCalls, written' \subseteq ReplyIds,
         NEW d, d = [c EXCEPT !.answer = <<PostRow', Replies',
                                    IF c.target \in ReplyIds THEN ReplyRow(c.target, FALSE)'
                                    ELSE NoReply>>]
  PROVE  CallIsTyped(d) /\ AnswerIsSound(d)
<1>1. CallIsTyped(c)
  BY DEF ThreadInv
<1>2. /\ d = [kind |-> c.kind, target |-> c.target, answer |-> d.answer, nth |-> c.nth]
      /\ d.answer = <<PostRow', Replies', IF c.target \in ReplyIds
                                         THEN ReplyRow(c.target, FALSE)' ELSE NoReply>>
  BY <1>1 DEF CallIsTyped
<1>3. OneMark(Replies')
  <2> DEFINE row(r) == [id |-> r, voted |-> r \in votes', accepted |-> TRUE /\ r = accepted']
  <2>1. \A r \in ReplyIds : row(r) \in ReplyRows /\ (row(r).accepted => row(r).id = accepted')
    BY ListedRow
  <2>2. Replies' = {row(r) : r \in written' \ deleted'}
    BY DEF Replies, ReplyRow
  <2> HIDE DEF row
  <2>3. QED
    BY <2>1, <2>2 DEF OneMark
<1>4. c.target \in ReplyIds =>
        ReplyRow(c.target, FALSE)' \in ReplyRows /\ ~ReplyRow(c.target, FALSE)'.accepted
  BY ListedRow DEF ReplyRow
<1>5. d.target = c.target /\ d.kind = c.kind /\ d.nth = c.nth
  BY <1>2
<1>6. CallIsTyped(d)
  BY <1>1, <1>2, <1>5 DEF CallIsTyped
<1>7. d.answer[2] = Replies' /\ (c.target \in ReplyIds => d.answer[3] = ReplyRow(c.target, FALSE)')
  BY <1>2
<1>8. QED
  BY <1>3, <1>4, <1>5, <1>6, <1>7 DEF AnswerIsSound

\* Requests a click sends out.
LEMMA SentIsSound ==
  ASSUME ThreadInv, NEW k, NEW t, Send(k, t),
         k = "reply" => t \in ReplyIds, k = "vote" => t \in ReplyIds \cup {Thread}
  PROVE  \A c \in pageCalls' : CallIsTyped(c) /\ AnswerIsSound(c)
BY NewCallIsSound DEF ThreadInv, Send, NewCall

\* Loading the feed adds requests of the feed only.
LEMMA FeedKeepsThread ==
  ASSUME ThreadInv, NEW calls, LoadFeed(calls),
         \A c \in calls : CallIsTyped(c) /\ AnswerIsSound(c)
  PROVE  \A c \in pageCalls' : CallIsTyped(c) /\ AnswerIsSound(c)
BY NewCallIsSound DEF ThreadInv, LoadFeed, NewCall

\* Every step keeps the thread and the requests under way sound.
LEMMA ThreadStep ==
  ASSUME ThreadInv, [CommunityNext]_communityVars
  PROVE  ThreadInv'
<1> USE DEF ThreadInv, threadVars, rowVars, feedVars
<1> DEFINE Sound(c) == CallIsTyped(c) /\ AnswerIsSound(c)
<1>1. ASSUME ChooseView \/ ChooseSort \/ ClearSearch
      PROVE  ThreadInv'
  BY <1>1, FeedKeepsThread DEF ChooseView, ChooseSort, ClearSearch
<1>2. CASE Search
  <2> DEFINE calls == pageCalls \cup {NewCall("feed", <<"q">>)}
  <2>1. \A c \in calls : Sound(c)
    BY NewCallIsSound DEF NewCall
  <2>2. LoadFeed(calls)
    BY <1>2 DEF Search
  <2> HIDE DEF calls
  <2>3. \A c \in pageCalls' : Sound(c)
    BY <2>1, <2>2, FeedKeepsThread
  <2>4. QED
    BY <1>2, <2>3 DEF Search
<1>3. CASE SignIn
  BY <1>3, NewCallIsSound DEF SignIn
<1>4. CASE ThreadClick
  <2>1. UNCHANGED <<answers, written>>
    BY <1>4 DEF ThreadClick
  <2>2. \A a \in answers : a.id \in ReplyIds
    BY DEF OneMark, ReplyRows
  <2>3. PICK k, t : /\ Send(k, t)
                    /\ k = "reply" => t \in ReplyIds
                    /\ k = "vote" => t \in ReplyIds \cup {Thread}
    BY <1>4, <2>2 DEF ThreadClick
  <2>4. QED
    BY <2>1, <2>3, SentIsSound
<1>5. CASE ReportDialog
  BY <1>5 DEF ReportDialog
<1>6. CASE Serve
  <2>1. PICK c \in pageCalls :
          /\ Effect(c)
          /\ pageCalls' = (pageCalls \ {c}) \cup
               {[c EXCEPT !.answer = <<PostRow', Replies',
                                       IF c.target \in ReplyIds THEN ReplyRow(c.target, FALSE)'
                                       ELSE NoReply>>]}
    BY <1>6 DEF Serve
  <2>2. written' \subseteq ReplyIds
    BY <2>1 DEF Effect, CallIsTyped
  <2>3. \A d \in pageCalls' : Sound(d)
    BY <2>1, <2>2, ServedAnswerIsSound
  <2>4. UNCHANGED answers
    BY <1>6 DEF Serve
  <2>5. QED
    BY <2>2, <2>3, <2>4
<1>7. CASE OtherReplies
  BY <1>7 DEF OtherReplies
<1>8. CASE AnswerArrives
  <2>1. PICK c \in pageCalls :
          /\ c.answer # <<>>
          /\ pageCalls' = pageCalls \ {c}
          /\ UNCHANGED answers \/ ThreadAnswer(c)
    BY <1>8 DEF AnswerArrives
  <2>2. OneMark(answers')
    BY <2>1, ThreadAnswerKeepsOneMark
  <2>3. UNCHANGED written
    BY <1>8 DEF AnswerArrives
  <2>4. QED
    BY <2>1, <2>2, <2>3
<1>9. CASE CallFails
  BY <1>9 DEF CallFails
<1>10. CASE UNCHANGED communityVars
  BY <1>10 DEF communityVars
<1>11. QED
  BY <1>1, <1>2, <1>3, <1>4, <1>5, <1>6, <1>7, <1>8, <1>9, <1>10
     DEF CommunityNext, FeedControls, ThreadControls

\* The page is rendered with the server's rows, for nobody.
LEMMA ThreadInit == CommunityInit => ThreadInv
<1> SUFFICES ASSUME CommunityInit PROVE ThreadInv
  OBVIOUS
<1>1. written \subseteq ReplyIds
  BY DEF CommunityInit
<1>2. OneMark(Replies)
  <2> DEFINE row(r) == [id |-> r, voted |-> r \in votes, accepted |-> TRUE /\ r = accepted]
  <2>1. \A r \in ReplyIds : row(r) \in ReplyRows /\ (row(r).accepted => row(r).id = accepted)
    BY ListedRow
  <2>2. Replies = {row(r) : r \in written \ deleted}
    BY DEF Replies, ReplyRow
  <2> HIDE DEF row
  <2>3. QED
    BY <1>1, <2>1, <2>2 DEF OneMark
<1>3. OneMark(answers)
  BY <1>2, ListChanges DEF CommunityInit
<1>4. \A c \in pageCalls : CallIsTyped(c) /\ AnswerIsSound(c)
  <2>1. \A c \in pageCalls : \E k, t, n :
          /\ c = [kind |-> k, target |-> t, answer |-> <<>>, nth |-> n]
          /\ k \in {"feed", "refresh"}
    BY DEF CommunityInit
  <2>2. QED
    BY <2>1, NewCallIsSound
<1>5. QED
  BY <1>1, <1>3, <1>4 DEF ThreadInv

\* However many answers, clicks and requests: a thread never shows two answers
\* as the accepted one.
THEOREM OneAnswerIsAccepted == CommunitySpec => []OneAnswerAccepted
<1>1. ThreadInv => OneAnswerAccepted
  BY DEF ThreadInv, OneMark, OneAnswerAccepted
<1>2. QED
  BY ThreadInit, ThreadStep, <1>1, PTL DEF CommunitySpec

-----------------------------------------------------------------------------
(* The build panel and its streams (ExtensionStudio).                      *)

StreamRecords == [mount : Nat, version : BuildVersions, last : 0..Ended]
PanelStates == {"idle", "validating", "packaging", "success", "failed", "cancelled"}

\* A panel, whatever proposal and applied fix it holds.
IsPanel(p) ==
  p \in [mount : Nat, state : PanelStates, stream : Nat,
         version : BuildVersions \cup {NoVersion}, built : BuildVersions \cup {NoVersion},
         conflict : BOOLEAN, buildId : BOOLEAN, fixing : BOOLEAN,
         proposal : {p.proposal}, applied : {p.applied}]

\* The panel's open stream is one of its mount and of its version, and the only
\* open one of its mount.
OwnStream ==
  /\ panel.stream # 0 =>
       /\ panel.stream \in 1..Len(streams)
       /\ streams[panel.stream].mount = panel.mount
       /\ streams[panel.stream].version = panel.version
       /\ streams[panel.stream].last < Ended
  /\ \A n \in 1..Len(streams) :
       streams[n].mount = panel.mount /\ streams[n].last < Ended => panel.stream = n

\* An earlier mount's streams are older than the panel.
RunInv ==
  /\ IsPanel(panel)
  /\ streams \in Seq(StreamRecords)
  /\ \A n \in 1..Len(streams) : streams[n].mount <= panel.mount
  /\ Shown => OwnStream /\ PanelShowsItsRun

\* The phases by name.
LEMMA PhaseNames ==
  /\ Len(Phases) = 2 /\ Phases[1] = "validating" /\ Phases[2] = "packaging"
  /\ ResultTold = 3 /\ Ended = 4
  /\ {Phases[i] : i \in 1..Len(Phases)} = {"validating", "packaging"}
<1>1. Len(Phases) = 2 /\ Phases[1] = "validating" /\ Phases[2] = "packaging"
  BY DEF Phases
<1>2. 1..Len(Phases) = {1, 2}
  BY <1>1
<1>3. QED
  BY <1>1, <1>2 DEF ResultTold, Ended

\* What a stream is.
LEMMA StreamTypes ==
  ASSUME streams \in Seq(StreamRecords)
  PROVE  /\ Len(streams) \in Nat
         /\ \A n \in 1..Len(streams) :
              /\ streams[n].mount \in Nat /\ streams[n].version \in BuildVersions
              /\ streams[n].last \in 0..4
<1>1. \A n \in 1..Len(streams) : streams[n] \in StreamRecords
  BY ElementOfSeq
<1>2. \A r \in StreamRecords : r.mount \in Nat /\ r.version \in BuildVersions /\ r.last \in 0..4
  BY PhaseNames DEF StreamRecords
<1>3. QED
  BY <1>1, <1>2, LenProperties

\* An event moves one stream on and leaves the others.
LEMMA StreamMoves ==
  ASSUME streams \in Seq(StreamRecords), NEW n \in 1..Len(streams), NEW x \in 0..Ended,
         streams' = [streams EXCEPT ![n].last = x]
  PROVE  /\ streams' \in Seq(StreamRecords) /\ Len(streams') = Len(streams)
         /\ \A m \in 1..Len(streams) :
              /\ streams'[m].mount = streams[m].mount
              /\ streams'[m].version = streams[m].version
              /\ streams'[m].last = IF m = n THEN x ELSE streams[m].last
<1>1. \A m \in 1..Len(streams) : streams[m] \in StreamRecords
  BY ElementOfSeq
<1>2. [streams[n] EXCEPT !.last = x] \in StreamRecords
  BY <1>1 DEF StreamRecords
<1>3. streams' = [streams EXCEPT ![n] = [streams[n] EXCEPT !.last = x]]
  OBVIOUS
<1>4. /\ streams' \in Seq(StreamRecords) /\ Len(streams') = Len(streams)
      /\ \A m \in 1..Len(streams) :
            streams'[m] = IF m = n THEN [streams[n] EXCEPT !.last = x] ELSE streams[m]
  BY <1>2, <1>3, ExceptSeq
<1>5. QED
  BY <1>1, <1>4 DEF StreamRecords

\* A step that leaves the tab and the streams alone, records versions at most,
\* and keeps of the panel what tells which run it shows.
Aside ==
  /\ UNCHANGED <<studioTab, streams>>
  /\ released \subseteq released'
  /\ IsPanel(panel')
  /\ panel'.mount = panel.mount /\ panel'.stream = panel.stream /\ panel'.version = panel.version
  /\ panel'.built = panel.built
  /\ panel'.state = panel.state \/ panel'.state = "idle"

\* Such a step keeps the panel on its run.
LEMMA AsideKeepsRun == ASSUME RunInv, Aside PROVE RunInv'
BY PhaseNames DEF RunInv, Aside, OwnStream, PanelShowsItsRun, Shown

\* The panel as the events change it: the stream is left, a phase is entered,
\* a version is built, or the build fails.
Left(p, x)        == [p EXCEPT !.stream = 0, !.state = x]
Entered(p, x)     == [p EXCEPT !.state = x, !.buildId = TRUE]
BuiltOf(p, v)     == [p EXCEPT !.state = "success", !.built = v]
ConflictOf(p)     == [p EXCEPT !.state = "failed", !.conflict = TRUE]
FailureOf(p)      == [p EXCEPT !.state = "failed"]

\* A panel with some fields set anew is still one.
LEMMA PanelChanges ==
  ASSUME IsPanel(panel)
  PROVE  /\ \A x \in PanelStates :
              /\ IsPanel(Left(panel, x)) /\ Left(panel, x).mount = panel.mount /\ Left(panel, x).stream = 0
              /\ Left(panel, x).state = x /\ Left(panel, x).version = panel.version
              /\ Left(panel, x).built = panel.built
         /\ \A x \in PanelStates :
              /\ IsPanel(Entered(panel, x)) /\ Entered(panel, x).mount = panel.mount
              /\ Entered(panel, x).stream = panel.stream /\ Entered(panel, x).state = x
              /\ Entered(panel, x).version = panel.version
         /\ \A v \in BuildVersions :
              /\ IsPanel(BuiltOf(panel, v)) /\ BuiltOf(panel, v).mount = panel.mount
              /\ BuiltOf(panel, v).stream = panel.stream /\ BuiltOf(panel, v).state = "success"
              /\ BuiltOf(panel, v).version = panel.version /\ BuiltOf(panel, v).built = v
         /\ \A q \in {ConflictOf(panel), FailureOf(panel)} :
              /\ IsPanel(q) /\ q.mount = panel.mount /\ q.stream = panel.stream
              /\ q.state = "failed" /\ q.version = panel.version
<1> USE DEF IsPanel, PanelStates
<1>1. ASSUME NEW x \in PanelStates
      PROVE  /\ IsPanel(Left(panel, x)) /\ Left(panel, x).mount = panel.mount /\ Left(panel, x).stream = 0
             /\ Left(panel, x).state = x /\ Left(panel, x).version = panel.version
             /\ Left(panel, x).built = panel.built
  BY DEF Left
<1>2. ASSUME NEW x \in PanelStates
      PROVE  /\ IsPanel(Entered(panel, x)) /\ Entered(panel, x).mount = panel.mount
             /\ Entered(panel, x).stream = panel.stream /\ Entered(panel, x).state = x
             /\ Entered(panel, x).version = panel.version
  BY DEF Entered
<1>3. ASSUME NEW v \in BuildVersions
      PROVE  /\ IsPanel(BuiltOf(panel, v)) /\ BuiltOf(panel, v).mount = panel.mount
             /\ BuiltOf(panel, v).stream = panel.stream /\ BuiltOf(panel, v).state = "success"
             /\ BuiltOf(panel, v).version = panel.version /\ BuiltOf(panel, v).built = v
  BY DEF BuiltOf
<1>4. ASSUME NEW q \in {ConflictOf(panel), FailureOf(panel)}
      PROVE  /\ IsPanel(q) /\ q.mount = panel.mount /\ q.stream = panel.stream
             /\ q.state = "failed" /\ q.version = panel.version
  BY DEF ConflictOf, FailureOf
<1> HIDE DEF IsPanel, PanelStates
<1>5. QED
  BY <1>1, <1>2, <1>3, <1>4

\* Every step of the author's at the texts, the versions, the conflict and the
\* fixes, and every answer to a request, passes the run by.
LEMMA AsideSteps ==
  ASSUME RunInv
  PROVE  /\ EditText \/ SaveText \/ SaveVersion \/ ChangeVersion => Aside
         /\ FixPanel \/ StudioAnswers => Aside
<1> USE DEF RunInv, Aside, editorVars
<1>1. ASSUME EditText \/ SaveText \/ SaveVersion
      PROVE  Aside
  BY <1>1 DEF EditText, SaveText, SaveVersion
<1>2. ASSUME ChangeVersion
      PROVE  Aside
  BY <1>2 DEF ChangeVersion, IsPanel, PanelStates
<1>3. ASSUME RequestFix
      PROVE  Aside
  BY <1>3 DEF RequestFix, IsPanel
<1>4. ASSUME ApplyFix \/ UndoFix
      PROVE  Aside
  BY <1>4 DEF ApplyFix, UndoFix, Apply
<1>5. ASSUME NEW c \in studioCalls, LoadServed(c) \/ LoadArrives(c)
      PROVE  Aside
  BY <1>5 DEF LoadServed, LoadArrives
<1>6. ASSUME NEW c \in studioCalls, FixArrives(c)
      PROVE  Aside
  BY <1>6 DEF FixArrives, Answer, IsPanel
<1>7. ASSUME NEW c \in studioCalls, UpdateArrives(c)
      PROVE  Aside
  <2>1. UNCHANGED <<studioTab, streams, released>>
    BY <1>7 DEF UpdateArrives
  <2>2. \/ UNCHANGED panel
        \/ \E f \in {[target |-> c.target, text |-> c.before]} : panel' = [panel EXCEPT !.applied = f]
        \/ panel' = [panel EXCEPT !.applied = NoFix, !.proposal = NoFix]
    BY <1>7 DEF UpdateArrives, Answer
  <2>3. QED
    BY <2>1, <2>2 DEF IsPanel
<1>8. QED
  BY <1>1, <1>2, <1>3, <1>4, <1>5, <1>6, <1>7 DEF FixPanel, StudioAnswers

\* A mount forgets the panel, and its number is new.
LEMMA MountKeepsRun ==
  ASSUME RunInv, NEW t \in Tabs, OpenTab(t)
  PROVE  RunInv'
<1> USE DEF RunInv
<1>1. UNCHANGED <<streams, released>> /\ studioTab' = t
  BY DEF OpenTab
<1>2. CASE t = "build"
  <2>1. panel' = FreshPanel(panel.mount + 1) /\ panel.mount \in Nat
    BY <1>2 DEF OpenTab, IsPanel
  <2>2. /\ IsPanel(panel') /\ panel'.mount = panel.mount + 1 /\ panel'.stream = 0
        /\ panel'.state = "idle"
    BY <2>1 DEF FreshPanel, IsPanel, PanelStates
  <2>3. \A n \in 1..Len(streams) : streams[n].mount \in Nat
    BY StreamTypes
  <2>4. QED
    BY <1>1, <2>1, <2>2, <2>3, PhaseNames DEF OwnStream, PanelShowsItsRun, Shown
<1>3. CASE t # "build"
  <2>1. UNCHANGED panel
    BY <1>3 DEF OpenTab
  <2>2. QED
    BY <1>1, <1>3, <2>1 DEF Shown
<1>4. QED
  BY <1>2, <1>3

\* A press starts the one open stream of the mount.
LEMMA StartKeepsRun ==
  ASSUME RunInv, NEW v \in BuildVersions, StartBuild(v)
  PROVE  RunInv'
<1> USE DEF RunInv
<1> DEFINE r == [mount |-> panel.mount, version |-> v, last |-> 0]
           k == Len(streams) + 1
<1>1. Shown /\ panel.stream = 0 /\ UNCHANGED <<studioTab, released>>
  BY DEF StartBuild
<1>2. r \in StreamRecords
  BY PhaseNames DEF StreamRecords, IsPanel
<1>3. /\ streams' \in Seq(StreamRecords) /\ Len(streams') = k /\ streams'[k] = r
      /\ \A n \in 1..Len(streams) : streams'[n] = streams[n]
  BY <1>2, AppendProperties DEF StartBuild
<1>4. Len(streams) \in Nat
  BY LenProperties
<1>5. /\ IsPanel(panel') /\ panel'.mount = panel.mount /\ panel'.stream = k
      /\ panel'.version = v /\ panel'.state = "idle"
  <2>1. panel' = [FreshPanel(panel.mount) EXCEPT !.stream = k, !.version = v, !.fixing = panel.fixing]
    BY DEF StartBuild
  <2>2. k \in Nat /\ panel.mount \in Nat /\ panel.fixing \in BOOLEAN
    BY <1>4 DEF IsPanel
  <2> HIDE DEF k
  <2>3. QED
    BY <2>1, <2>2 DEF FreshPanel, IsPanel, PanelStates
<1>6. \A n \in 1..Len(streams) : streams[n].mount = panel.mount => ~(streams[n].last < Ended)
  BY <1>1, <1>4 DEF OwnStream
<1>7. \A n \in 1..k : n \in 1..Len(streams) \/ n = k
  BY <1>4
<1>8. OwnStream'
  <2>1. r.mount = panel.mount /\ r.version = v /\ r.last = 0 /\ k \in 1..k
    BY <1>4
  <2> HIDE DEF r, k
  <2>2. \A n \in 1..k : streams'[n].mount = panel'.mount /\ streams'[n].last < Ended => n = k
    BY <1>3, <1>5, <1>6, <1>7
  <2>3. QED
    BY <1>3, <1>5, <2>1, <2>2, PhaseNames DEF OwnStream
<1>9. \A n \in 1..k : streams'[n].mount <= panel'.mount
  BY <1>2, <1>3, <1>5, <1>7 DEF IsPanel
<1>10. QED
  BY <1>3, <1>5, <1>8, <1>9, PhaseNames DEF PanelShowsItsRun

\* An event of a stream reaches the panel of its mount, whose open stream it is.
LEMMA EventsKeepRun ==
  ASSUME RunInv, NEW n \in 1..Len(streams), NEW x \in 0..Ended,
         streams[n].last < Ended,
         streams' = [streams EXCEPT ![n].last = x],
         UNCHANGED studioTab, released \subseteq released',
         ~Tells(n) => UNCHANGED panel,
         Tells(n) =>
           /\ IsPanel(panel') /\ panel'.mount = panel.mount /\ panel'.version = panel.version
           /\ panel'.stream = IF x = Ended THEN 0 ELSE panel.stream
           /\ panel'.state \in {"validating", "packaging"} =>
                x \in 1..2 /\ panel'.state = Phases[x]
           /\ panel'.state = "success" =>
                panel'.built \in released' /\ panel'.built = panel.version
  PROVE  RunInv'
<1> USE DEF RunInv
<1>1. /\ streams' \in Seq(StreamRecords) /\ Len(streams') = Len(streams)
      /\ \A m \in 1..Len(streams) :
           /\ streams'[m].mount = streams[m].mount
           /\ streams'[m].version = streams[m].version
           /\ streams'[m].last = IF m = n THEN x ELSE streams[m].last
  BY StreamMoves
<1>2. CASE ~Shown
  BY <1>1, <1>2 DEF Tells, Shown
<1>3. CASE Shown /\ ~Tells(n)
  <2>1. UNCHANGED panel /\ streams[n].mount # panel.mount
    BY <1>3 DEF Tells
  <2>2. OwnStream'
    BY <1>1, <1>3, <2>1 DEF OwnStream
  <2>3. PanelShowsItsRun'
    BY <1>1, <1>3, <2>1, PhaseNames DEF OwnStream, PanelShowsItsRun, Shown
  <2>4. QED
    BY <1>1, <2>1, <2>2, <2>3
<1>4. CASE Shown /\ Tells(n)
  <2>1. panel.stream = n
    BY <1>4 DEF Tells, OwnStream
  <2>2. OwnStream'
    BY <1>1, <1>4, <2>1, PhaseNames DEF OwnStream, Tells
  <2>3. PanelShowsItsRun'
    BY <1>1, <1>4, <2>1, PhaseNames DEF PanelShowsItsRun
  <2>4. QED
    BY <1>1, <1>4, <2>2, <2>3
<1>5. QED
  BY <1>2, <1>3, <1>4

\* The events of a stream, and the author's abort of the open one.
LEMMA StreamEventsKeepRun ==
  ASSUME RunInv, StreamEvents \/ CancelBuild
  PROVE  RunInv'
<1> USE DEF RunInv
<1>1. \A n \in 1..Len(streams) : streams[n].last \in Nat /\ streams[n].version \in BuildVersions
  BY StreamTypes
<1>2. ASSUME NEW n \in 1..Len(streams), PhaseArrives(n)
      PROVE  RunInv'
  <2> DEFINE x == streams[n].last + 1
  <2>1. x \in {1, 2} /\ x \in 0..Ended /\ x # Ended
    BY <1>1, <1>2, PhaseNames DEF PhaseArrives, Running
  <2>2. Phases[x] \in {"validating", "packaging"} /\ Phases[x] \in PanelStates
    BY <2>1, PhaseNames DEF PanelStates
  <2>3. /\ streams[n].last < Ended /\ streams' = [streams EXCEPT ![n].last = x]
        /\ UNCHANGED <<studioTab, released>>
        /\ ~Tells(n) => UNCHANGED panel
        /\ Tells(n) => panel' = Entered(panel, Phases[x])
    BY <1>1, <1>2, PhaseNames DEF PhaseArrives, Entered
  <2>4. Tells(n) => /\ IsPanel(panel') /\ panel'.mount = panel.mount
                    /\ panel'.version = panel.version /\ panel'.stream = panel.stream
                    /\ panel'.state = Phases[x]
    BY <2>2, <2>3, PanelChanges
  <2> HIDE DEF x
  <2>5. x \in 1..2
    BY <2>1
  <2>6. ~Tells(n) => UNCHANGED panel
    BY <2>3
  <2>7. released \subseteq released' /\ UNCHANGED studioTab
    BY <2>3
  <2>8. Tells(n) =>
          /\ panel'.stream = IF x = Ended THEN 0 ELSE panel.stream
          /\ panel'.state # "success"
    BY <2>1, <2>2, <2>4
  <2>9. QED
    BY <2>1, <2>3, <2>4, <2>5, <2>6, <2>7, <2>8, EventsKeepRun
<1>3. ASSUME NEW n \in 1..Len(streams), ResultArrives(n)
      PROVE  RunInv'
  <2> DEFINE v == streams[n].version
  <2>1. /\ streams[n].last < Ended /\ streams' = [streams EXCEPT ![n].last = 3]
        /\ UNCHANGED studioTab /\ released \subseteq released'
        /\ ~Tells(n) => UNCHANGED panel
    BY <1>1, <1>3, PhaseNames DEF ResultArrives, Running
  <2>2. ASSUME Tells(n)
        PROVE  \/ panel' = BuiltOf(panel, v) /\ v \in released'
               \/ panel' \in {ConflictOf(panel), FailureOf(panel)}
    BY <1>3, <2>2 DEF ResultArrives, BuiltOf, ConflictOf, FailureOf
  <2>3. Tells(n) => panel.stream = n /\ v = panel.version
    BY <1>1, <2>1 DEF OwnStream, Tells
  <2>4. Tells(n) => /\ IsPanel(panel') /\ panel'.mount = panel.mount
                    /\ panel'.version = panel.version /\ panel'.stream = panel.stream
                    /\ panel'.state \in {"success", "failed"}
                    /\ panel'.state = "success" => panel'.built = v /\ v \in released'
    <3>1. v \in BuildVersions
      BY <1>1
    <3> HIDE DEF v
    <3>2. QED
      BY <2>2, <3>1, PanelChanges
  <2>5. 3 \in 0..Ended /\ Ended # 3
    BY PhaseNames
  <2> HIDE DEF v
  <2>6. QED
    BY <2>1, <2>3, <2>4, <2>5, EventsKeepRun
<1>4. ASSUME NEW n \in 1..Len(streams), StreamEnds(n) \/ StreamBreaks(n)
      PROVE  RunInv'
  <2>1. /\ streams[n].last < Ended /\ streams' = [streams EXCEPT ![n].last = Ended]
        /\ UNCHANGED studioTab /\ released \subseteq released'
        /\ ~Tells(n) => UNCHANGED panel
    BY <1>4 DEF StreamEnds, StreamBreaks, MayRecord
  <2>2. ASSUME Tells(n)
        PROVE  \E y \in {"success", "failed", "cancelled"} :
                 panel' = Left(panel, y) /\ (y = "success" => panel.state = "success")
    BY <1>4, <2>2 DEF StreamEnds, StreamBreaks, Left
  <2>3. Tells(n) => /\ IsPanel(panel') /\ panel'.mount = panel.mount
                    /\ panel'.version = panel.version /\ panel'.stream = 0
                    /\ panel'.state \in {"success", "failed", "cancelled"}
                    /\ panel'.built = panel.built
                    /\ panel'.state = "success" => panel.state = "success"
    <3>1. SUFFICES ASSUME Tells(n)
                   PROVE  /\ IsPanel(panel') /\ panel'.mount = panel.mount
                          /\ panel'.version = panel.version /\ panel'.stream = 0
                          /\ panel'.state \in {"success", "failed", "cancelled"}
                          /\ panel'.built = panel.built
                          /\ panel'.state = "success" => panel.state = "success"
      OBVIOUS
    <3>2. PICK y \in {"success", "failed", "cancelled"} :
            panel' = Left(panel, y) /\ (y = "success" => panel.state = "success")
      BY <2>2, <3>1
    <3>3. y \in PanelStates
      BY DEF PanelStates
    <3>4. QED
      BY <3>2, <3>3, PanelChanges
  <2>4. Tells(n) /\ panel.state = "success" => panel.built \in released /\ panel.built = panel.version
    BY DEF Tells, PanelShowsItsRun
  <2>5. Ended \in 0..Ended
    BY PhaseNames
  <2>6. QED
    BY <2>1, <2>3, <2>4, <2>5, EventsKeepRun
<1>5. ASSUME CancelBuild
      PROVE  RunInv'
  <2> DEFINE n == panel.stream
  <2>1. Shown /\ n \in 1..Len(streams) /\ streams[n].last < Ended /\ Tells(n)
    BY <1>5 DEF CancelBuild, OwnStream, Tells
  <2>2. /\ streams' = [streams EXCEPT ![n].last = Ended]
        /\ UNCHANGED studioTab /\ released \subseteq released'
    BY <1>5 DEF CancelBuild, MayRecord
  <2>3. /\ IsPanel(panel') /\ panel'.mount = panel.mount
        /\ panel'.version = panel.version /\ panel'.stream = 0
        /\ panel'.state = "cancelled"
    <3>1. "cancelled" \in PanelStates /\ panel' = Left(panel, "cancelled")
      BY <1>5 DEF CancelBuild, PanelStates, Left
    <3>2. QED
      BY <3>1, PanelChanges
  <2>4. Ended \in 0..Ended
    BY PhaseNames
  <2> HIDE DEF n
  <2>5. QED
    BY <2>1, <2>2, <2>3, <2>4, EventsKeepRun
<1>6. QED
  BY <1>2, <1>3, <1>4, <1>5 DEF StreamEvents

\* However many versions, streams, mounts and moves: the phase a build panel
\* shows is the last one of its own open run, and a success is of a version
\* recorded.
THEOREM PanelIsOnItsRun == StudioSpec => []PanelShowsItsRun
<1>1. StudioInit => RunInv
  <2> SUFFICES ASSUME StudioInit PROVE RunInv
    OBVIOUS
  <2>1. IsPanel(panel) /\ panel.mount = 0
    BY DEF StudioInit, FreshPanel, IsPanel, PanelStates
  <2>2. streams = <<>> /\ ~Shown
    BY DEF StudioInit, Shown
  <2>3. streams \in Seq(StreamRecords) /\ Len(streams) = 0
    BY <2>2, EmptySeq
  <2>4. QED
    BY <2>1, <2>2, <2>3 DEF RunInv
<1>2. RunInv /\ [StudioNext]_studioVars => RunInv'
  <2> SUFFICES ASSUME RunInv, [StudioNext]_studioVars PROVE RunInv'
    OBVIOUS
  <2>1. CASE EditText \/ SaveText \/ SaveVersion \/ ChangeVersion \/ FixPanel \/ StudioAnswers
    BY <2>1, AsideSteps, AsideKeepsRun
  <2>2. ASSUME NEW t \in Tabs, OpenTab(t) PROVE RunInv'
    BY <2>2, MountKeepsRun
  <2>3. ASSUME NEW v \in BuildVersions, StartBuild(v) PROVE RunInv'
    BY <2>3, StartKeepsRun
  <2>4. CASE StreamEvents \/ CancelBuild
    BY <2>4, StreamEventsKeepRun
  <2>5. CASE UNCHANGED studioVars
    BY <2>5 DEF studioVars, RunInv, OwnStream, PanelShowsItsRun, Shown
  <2>6. QED
    BY <2>1, <2>2, <2>3, <2>4, <2>5 DEF StudioNext, TextTabs, BuildForm
<1>3. RunInv => PanelShowsItsRun
  BY DEF RunInv, PanelShowsItsRun
<1>4. QED
  BY <1>1, <1>2, <1>3, PTL DEF StudioSpec

-----------------------------------------------------------------------------
(* The pages of the dashboard (Dashboard).                                 *)

\* A template stays chosen only together with its type.
HubInv ==
  /\ hub = [step |-> hub.step, type |-> hub.type, method |-> hub.method,
            template |-> hub.template, creating |-> hub.creating]
  /\ hub.template # Unchosen => Templates[hub.template] = hub.type

\* A list asked for, and an action under way.
IsList(l) ==
  /\ l = [seq |-> l.seq, filter |-> l.filter, got |-> l.got]
  /\ l.got = [served |-> l.got.served, rows |-> l.got.rows] /\ l.got.served \in BOOLEAN
  /\ l.seq \in Nat /\ l.seq <= seqRef
  /\ l.seq = seqRef => l.filter = asked
IsAction(a) ==
  a = [n |-> a.n, kind |-> a.kind, id |-> a.id, filter |-> a.filter, state |-> a.state,
       list |-> a.list]
IsFetch(f) == f = [n |-> f.n, of |-> f.of, got |-> f.got] /\ f.of \in DOMAIN shelf

\* An action done makes the library ask again; otherwise the latest list, on
\* its way or shown, is what is stored.
Reloading == \E a \in actions : a.state = "done"
GridCurrent ==
  /\ \A l \in lists : l.seq = seqRef /\ l.got.served => l.got.rows = Matching(asked)
  /\ (\A l \in lists : l.seq # seqRef) => loadError \/ grid = Matching(asked)

\* What the library keeps of its requests, and what it shows.
ListsInv ==
  /\ seqRef \in Nat
  /\ \A l \in lists : IsList(l)
  /\ \A l, m \in lists : l.seq = m.seq => l = m
ActionsInv == \A a \in actions : IsAction(a)
LibraryInv ==
  /\ ListsInv
  /\ ActionsInv
  /\ page = "projects" /\ ~stale => Reloading \/ GridCurrent

\* The same of the shelves, where asking for the use of one changes nothing.
Refreshing == \E a \in actions : a.state = "done" /\ a.kind # "usage"
ShelvesCurrent ==
  /\ \A f \in fetches : f.got # <<>> => f.got = <<Stored(f.of)>>
  /\ \A of \in DOMAIN shelf : (\A f \in fetches : f.of # of) => shelf[of] = Stored(of)

ShelvesInv ==
  /\ \A f \in fetches : IsFetch(f)
  /\ shelf = [of \in DOMAIN shelf |-> shelf[of]]
  /\ page = "extensions" /\ ~stale =>
       /\ \A f, g \in fetches : f.of = g.of => f = g
       /\ Refreshing \/ ShelvesCurrent

\* What is stored is the same when the rows are, and a list asked for is as
\* current when none is asked for since.
LEMMA SameRows ==
  /\ rows' = rows => \A f : Matching(f)' = Matching(f)
  /\ installs' = installs /\ authored' = authored => \A of : Stored(of)' = Stored(of)
  /\ seqRef' = seqRef /\ asked' = asked => \A l : IsList(l) => IsList(l)'
<1>1. rows' = rows => \A f : Matching(f)' = Matching(f)
  BY DEF Matching
<1>2. installs' = installs /\ authored' = authored => \A of : Stored(of)' = Stored(of)
  BY DEF Stored, Installed
<1>3. ASSUME seqRef' = seqRef, asked' = asked, NEW l, IsList(l)
      PROVE  IsList(l)'
  BY <1>3 DEF IsList
<1>4. QED
  BY <1>1, <1>2, <1>3

\* Only the pages of the creation change what is chosen there.
LEMMA OtherPagesKeepHub ==
  LibraryNext \/ ShelvesNext => UNCHANGED hub
BY DEF LibraryNext, ShelvesNext, OnLibrary, OnShelves, ChooseFilter, TryAgain, ServeList,
   ListArrives, OpenRename, OpenDelete, CloseDialog, ProjectCard, SaveRename, ConfirmDelete,
   ServeAction, ActionReloads, ActionFails, ServeShelf, ShelfArrives, ClickExtension,
   ConfirmUninstall, DismissUninstall, CreateExtension, ServeExtension, ExtensionAnswers

\* Every step of the creation keeps a chosen template with its type.
LEMMA HubStep ==
  ASSUME HubInv, [DashboardNext]_dashboardVars
  PROVE  HubInv'
<1>1. CASE LibraryNext \/ ShelvesNext
  BY <1>1, OtherPagesKeepHub DEF HubInv
<1>2. CASE ChooseEnvironment
  BY <1>2 DEF ChooseEnvironment, HubInv
<1>3. CASE ChooseMethod
  <2>1. CASE hub' = [hub EXCEPT !.method = "blank", !.step = 3]
    BY <2>1 DEF HubInv
  <2>2. CASE hub' = [hub EXCEPT !.method = "template"]
    BY <2>2 DEF HubInv
  <2>3. ASSUME NEW t \in DOMAIN Templates,
               Templates[t] = hub.type, hub' = [hub EXCEPT !.template = t, !.step = 3]
        PROVE  HubInv'
    BY <2>3 DEF HubInv
  <2>4. CASE hub' = [hub EXCEPT !.step = 1]
    BY <2>4 DEF HubInv
  <2>5. QED
    BY <1>3, <2>1, <2>2, <2>3, <2>4 DEF ChooseMethod
<1>4. CASE Back
  BY <1>4 DEF Back, HubInv
<1>5. CASE CreateProject
  BY <1>5 DEF CreateProject, HubInv
<1>6. CASE UseTemplate
  BY <1>6 DEF UseTemplate, HubInv
<1>7. CASE CreateEnds
  <2>1. UNCHANGED hub \/ hub' = [hub EXCEPT !.creating = FALSE]
    BY <1>7 DEF CreateEnds
  <2>2. QED
    BY <2>1 DEF HubInv
<1>8. CASE UNCHANGED dashboardVars
  BY <1>8 DEF dashboardVars, HubInv
<1>9. QED
  BY <1>1, <1>2, <1>3, <1>4, <1>5, <1>6, <1>7, <1>8 DEF DashboardNext, CreationNext

\* Asking for a list outdates the ones before.
LEMMA LoadKeepsCopies ==
  ASSUME ListsInv, NEW filter, Load(filter)
  PROVE  ListsInv' /\ GridCurrent'
<1>1. PICK new : new = [seq |-> seqRef + 1, filter |-> filter, got |-> NotServed]
  OBVIOUS
<1>2. lists' = lists \cup {new} /\ asked' = filter /\ seqRef' = seqRef + 1
  BY <1>1 DEF Load
<1>3. /\ new = [seq |-> new.seq, filter |-> new.filter, got |-> new.got]
      /\ new.seq = seqRef' /\ new.filter = asked' /\ new.got = NotServed
  BY <1>1, <1>2
<1>4. NotServed = [served |-> NotServed.served, rows |-> NotServed.rows] /\ NotServed.served = FALSE
  BY DEF NotServed
<1>5. seqRef \in Nat /\ seqRef' \in Nat /\ seqRef' > seqRef
  BY <1>2 DEF ListsInv
<1>6. IsList(new)'
  <2>1. new.got = [served |-> new.got.served, rows |-> new.got.rows] /\ new.got.served \in BOOLEAN
    BY <1>3, <1>4
  <2>2. new.seq \in Nat /\ new.seq <= seqRef'
    BY <1>3, <1>5
  <2>3. QED
    BY <1>3, <2>1, <2>2 DEF IsList
<1>7. \A l \in lists : IsList(l)' /\ l.seq # seqRef'
  <2>1. ASSUME NEW l \in lists
        PROVE  IsList(l)' /\ l.seq # seqRef'
    <3>1. IsList(l)
      BY DEF ListsInv
    <3>2. l.seq \in Nat /\ l.seq <= seqRef
      BY <3>1 DEF IsList
    <3>3. l.seq <= seqRef' /\ l.seq # seqRef'
      BY <1>5, <3>2
    <3>4. QED
      BY <3>1, <3>3 DEF IsList
  <2>2. QED
    BY <2>1
<1>8. \A l \in lists' : l.seq = seqRef' => l = new
  BY <1>2, <1>7
<1>9. GridCurrent'
  <2>1. ~new.got.served /\ new \in lists' /\ new.seq = seqRef'
    BY <1>2, <1>3, <1>4
  <2>2. QED
    BY <1>8, <2>1 DEF GridCurrent
<1>10. \A l, m \in lists' : l.seq = m.seq => l = m
  BY <1>2, <1>3, <1>7 DEF ListsInv
<1>11. QED
  BY <1>2, <1>5, <1>6, <1>7, <1>10, <1>9 DEF ListsInv

\* A list answered, an action done and one whose list is asked for.
Answered(l, r) == [l EXCEPT !.got = [served |-> TRUE, rows |-> r]]
Done(a) == [a EXCEPT !.state = "done"]
Reloaded(a, n) == [a EXCEPT !.state = "reloading", !.list = n]

\* What such a change leaves alone.
LEMMA RequestChanges ==
  /\ \A l, r : IsList(l) => /\ IsList(Answered(l, r))
                            /\ Answered(l, r).seq = l.seq
                            /\ Answered(l, r).filter = l.filter
                            /\ Answered(l, r).got.served
                            /\ Answered(l, r).got.rows = r
  /\ \A a : IsAction(a) => IsAction(Done(a)) /\ Done(a).state = "done" /\ Done(a).kind = a.kind
  /\ \A a, n : IsAction(a) => IsAction(Reloaded(a, n))
<1>1. ASSUME NEW l, NEW r, IsList(l)
      PROVE  /\ IsList(Answered(l, r))
             /\ Answered(l, r).seq = l.seq
             /\ Answered(l, r).filter = l.filter
             /\ Answered(l, r).got.served
             /\ Answered(l, r).got.rows = r
  <2>1. Answered(l, r) = [seq |-> l.seq, filter |-> l.filter,
                          got |-> [served |-> TRUE, rows |-> r]]
    <3>1. l = [seq |-> l.seq, filter |-> l.filter, got |-> l.got]
      BY <1>1 DEF IsList
    <3>2. PICK got : got = [served |-> TRUE, rows |-> r]
      OBVIOUS
    <3>3. [l EXCEPT !.got = got] = [seq |-> l.seq, filter |-> l.filter, got |-> got]
      BY <3>1
    <3>4. QED
      BY <3>2, <3>3 DEF Answered
  <2>2. l.seq \in Nat /\ l.seq <= seqRef /\ (l.seq = seqRef => l.filter = asked)
    BY <1>1 DEF IsList
  <2>3. /\ Answered(l, r).seq = l.seq /\ Answered(l, r).filter = l.filter
        /\ Answered(l, r).got = [served |-> TRUE, rows |-> r]
    BY <2>1
  <2>4. Answered(l, r).got.served = TRUE /\ Answered(l, r).got.rows = r
    BY <2>3
  <2>5. IsList(Answered(l, r))
    BY <2>1, <2>2, <2>3, <2>4 DEF IsList
  <2>6. QED
    BY <2>3, <2>4, <2>5
<1>2. ASSUME NEW a, IsAction(a)
      PROVE  IsAction(Done(a)) /\ Done(a).state = "done" /\ Done(a).kind = a.kind
  <2>1. Done(a) = [n |-> a.n, kind |-> a.kind, id |-> a.id, filter |-> a.filter,
                   state |-> "done", list |-> a.list]
    BY <1>2 DEF IsAction, Done
  <2>2. QED
    BY <2>1 DEF IsAction
<1>3. ASSUME NEW a, NEW n, IsAction(a)
      PROVE  IsAction(Reloaded(a, n))
  <2>1. PICK m, k, i, f, s, t : a = [n |-> m, kind |-> k, id |-> i, filter |-> f, state |-> s, list |-> t]
    BY <1>3 DEF IsAction
  <2>2. [a EXCEPT !.state = "reloading"] = [n |-> m, kind |-> k, id |-> i, filter |-> f,
                                            state |-> "reloading", list |-> t]
    BY <2>1
  <2>3. Reloaded(a, n) = [[a EXCEPT !.state = "reloading"] EXCEPT !.list = n]
    BY DEF Reloaded
  <2>4. Reloaded(a, n) = [n |-> m, kind |-> k, id |-> i, filter |-> f, state |-> "reloading", list |-> n]
    BY <2>2, <2>3
  <2>5. QED
    BY <2>4 DEF IsAction
<1>4. QED
  BY <1>1, <1>2, <1>3

\* The library's steps that change neither what is stored nor its lists: no
\* action done is lost, unless its answer was.
LEMMA AsideKeepsLibrary ==
  ASSUME LibraryInv, UNCHANGED <<page, rows, grid, loadError, lists, seqRef, asked>>,
         ActionsInv', stale' \/ (~stale /\ (Reloading => Reloading'))
  PROVE  LibraryInv'
<1>1. ListsInv'
  BY DEF LibraryInv, ListsInv, IsList
<1>2. GridCurrent => GridCurrent'
  BY SameRows DEF GridCurrent
<1>3. QED
  BY <1>1, <1>2 DEF LibraryInv

\* An action started is asked for.
LEMMA StartKeepsActions ==
  ASSUME ActionsInv, NEW kind, NEW id, Start(kind, id)
  PROVE  ActionsInv' /\ (Reloading => Reloading') /\ (Refreshing => Refreshing')
<1> DEFINE new == [n |-> started, kind |-> kind, id |-> id, filter |-> toolbar,
                   state |-> "asked", list |-> 0]
<1>1. actions' = actions \cup {new}
  BY DEF Start
<1>2. IsAction(new)
  BY DEF IsAction
<1> HIDE DEF new
<1>3. QED
  BY <1>1, <1>2 DEF ActionsInv, Reloading, Refreshing

\* A list is answered, with what is stored then.
LEMMA ServeListKeepsLibrary ==
  ASSUME LibraryInv, ServeList
  PROVE  LibraryInv'
<1>1. PICK l \in lists :
        /\ ~l.got.served
        /\ lists' = (lists \ {l}) \cup {Answered(l, Matching(l.filter))}
  BY DEF ServeList, Answered
<1>2. UNCHANGED <<page, rows, grid, loadError, seqRef, asked, actions, stale>>
  BY DEF ServeList, OnLibrary
<1> DEFINE new == Answered(l, Matching(l.filter))
<1>3. /\ IsList(l) /\ IsList(new) /\ new.seq = l.seq /\ new.filter = l.filter
      /\ new.got.served /\ new.got.rows = Matching(l.filter)
  BY RequestChanges DEF LibraryInv, ListsInv
<1> HIDE DEF new
<1>4. lists' = (lists \ {l}) \cup {new}
  BY <1>1 DEF new
<1>5. ListsInv'
  <2>1. \A m \in lists' : IsList(m)
    BY <1>3, <1>4 DEF LibraryInv, ListsInv
  <2>2. \A m \in lists' : IsList(m)'
    BY <1>2, <2>1, SameRows
  <2>3. \A k, m \in lists' : k.seq = m.seq => k = m
    BY <1>3, <1>4 DEF LibraryInv, ListsInv
  <2>4. QED
    BY <1>2, <2>2, <2>3 DEF LibraryInv, ListsInv
<1>6. GridCurrent => GridCurrent'
  <2>1. Matching(asked)' = Matching(asked)
    BY <1>2, SameRows
  <2>2. \A m \in lists' : m.seq = seqRef /\ m.got.served => m.got.rows = Matching(asked)
        \/ ~GridCurrent
    BY <1>3, <1>4 DEF GridCurrent, IsList
  <2>3. (\A m \in lists' : m.seq # seqRef) => (\A m \in lists : m.seq # seqRef)
    BY <1>1, <1>3, <1>4
  <2>4. QED
    BY <1>2, <2>1, <2>2, <2>3 DEF GridCurrent
<1>7. QED
  BY <1>2, <1>5, <1>6 DEF LibraryInv, ActionsInv, Reloading

\* A list arrives: the latest one is what is stored, or an error shows.
LEMMA ListArrivesKeepsLibrary ==
  ASSUME LibraryInv, ListArrives
  PROVE  LibraryInv'
<1>1. PICK l \in lists, failed \in BOOLEAN :
        /\ failed = ~l.got.served
        /\ ListShown(l, failed)
        /\ lists' = lists \ {l}
        /\ actions' \subseteq actions
        /\ \A a \in actions \ actions' : a.state = "reloading"
  BY DEF ListArrives
<1>2. UNCHANGED <<page, rows, seqRef, asked, stale>>
  BY DEF ListArrives, OnLibrary
<1>3. ListsInv' /\ ActionsInv'
  BY <1>1, <1>2 DEF LibraryInv, ListsInv, ActionsInv, IsList
<1>4. Reloading => Reloading'
  BY <1>1 DEF Reloading
<1>5. Matching(asked)' = Matching(asked)
  BY <1>2, SameRows
<1>6. GridCurrent => GridCurrent'
  <2>1. SUFFICES ASSUME GridCurrent PROVE GridCurrent'
    OBVIOUS
  <2>2. CASE l.seq # seqRef
    <3>1. UNCHANGED <<grid, loadError>>
      BY <1>1, <2>2 DEF ListShown
    <3>2. (\A m \in lists' : m.seq # seqRef) => (\A m \in lists : m.seq # seqRef)
      BY <1>1, <2>2
    <3>3. QED
      BY <1>1, <1>2, <1>5, <2>1, <3>1, <3>2 DEF GridCurrent
  <2>3. CASE l.seq = seqRef
    <3>1. loadError' \/ (grid' = l.got.rows /\ l.got.served)
      <4>1. CASE failed
        <5>1. ListShown(l, failed)
          BY <1>1
        <5>2. loadError'
          BY <2>3, <4>1, <5>1 DEF ListShown
        <5>3. QED
          BY <5>2
      <4>2. CASE ~failed
        <5>1. l.got.served
          <6>1. IsList(l)
            BY DEF LibraryInv, ListsInv
          <6>2. l.got.served \in BOOLEAN
            BY <6>1 DEF IsList
          <6>3. failed = ~l.got.served
            BY <1>1
          <6>4. QED
            BY <4>2, <6>2, <6>3
        <5>2. grid' = l.got.rows
          <6>1. ListShown(l, failed)
            BY <1>1
          <6>2. QED
            BY <2>3, <4>2, <6>1 DEF ListShown
        <5>3. QED
          BY <5>1, <5>2
      <4>3. QED
        BY <4>1, <4>2
    <3>2. l.got.served => l.got.rows = Matching(asked)
      BY <1>1, <2>1, <2>3 DEF GridCurrent
    <3>3. loadError' \/ grid' = Matching(asked)'
      BY <1>5, <3>1, <3>2
    <3>4. \A m \in lists' : m.seq = seqRef' /\ m.got.served => m.got.rows = Matching(asked)'
      BY <1>1, <1>2, <1>5, <2>1 DEF GridCurrent
    <3>5. QED
      BY <3>3, <3>4 DEF GridCurrent
  <2>4. QED
    BY <2>2, <2>3
<1>7. QED
  BY <1>2, <1>3, <1>4, <1>6 DEF LibraryInv

\* Every step of the library keeps it current, whatever its actions overlap.
LEMMA LibraryStep ==
  ASSUME LibraryInv, LibraryNext
  PROVE  LibraryInv'
<1>1. ASSUME NEW filter, Load(filter), rows' = rows, page' = page, ActionsInv'
      PROVE  LibraryInv'
  BY <1>1, LoadKeepsCopies DEF LibraryInv, ListsInv
<1>2. CASE ChooseFilter
  <2>1. Load(toolbar') /\ UNCHANGED <<page, rows, actions>>
    BY <1>2 DEF ChooseFilter, OnLibrary
  <2>2. QED
    BY <1>1, <2>1 DEF LibraryInv, ActionsInv
<1>3. CASE TryAgain
  <2>1. Load(toolbar) /\ UNCHANGED <<page, rows, actions>>
    BY <1>3 DEF TryAgain, OnLibrary
  <2>2. QED
    BY <1>1, <2>1 DEF LibraryInv, ActionsInv
<1>4. CASE ServeList
  BY <1>4, ServeListKeepsLibrary
<1>5. CASE ListArrives
  BY <1>5, ListArrivesKeepsLibrary
<1>6. CASE OpenRename \/ OpenDelete \/ CloseDialog
  <2>1. UNCHANGED <<page, rows, listVars, actions, stale>>
    BY <1>6 DEF OpenRename, OpenDelete, CloseDialog, OnLibrary
  <2>2. QED
    BY <2>1, AsideKeepsLibrary DEF listVars, LibraryInv, ActionsInv, Reloading
<1>7. CASE ProjectCard \/ SaveRename \/ ConfirmDelete
  <2>1. /\ UNCHANGED <<page, rows, listVars, stale>>
        /\ \E kind, id : Start(kind, id)
    BY <1>7 DEF ProjectCard, SaveRename, ConfirmDelete, OnLibrary
  <2>2. ActionsInv' /\ (Reloading => Reloading')
    BY <2>1, StartKeepsActions DEF LibraryInv
  <2>3. QED
    BY <2>1, <2>2, AsideKeepsLibrary DEF listVars
<1>8. CASE ServeAction
  <2>1. PICK a \in actions : actions' = (actions \ {a}) \cup {Done(a)}
    BY <1>8 DEF ServeAction, Done
  <2>2. UNCHANGED <<page, listVars, stale>>
    BY <1>8 DEF ServeAction, OnLibrary
  <2>3. IsAction(Done(a)) /\ Done(a).state = "done"
    BY RequestChanges DEF LibraryInv, ActionsInv
  <2>4. ActionsInv' /\ Reloading'
    BY <2>1, <2>3 DEF LibraryInv, ActionsInv, Reloading
  <2>5. ListsInv'
    BY <2>2 DEF listVars, LibraryInv, ListsInv, IsList
  <2>6. QED
    BY <2>4, <2>5 DEF LibraryInv
<1>9. CASE ActionReloads
  <2>1. PICK a \in actions :
          Load(a.filter) /\ actions' = (actions \ {a}) \cup {Reloaded(a, seqRef')}
    BY <1>9 DEF ActionReloads, Reloaded
  <2>2. UNCHANGED <<page, rows>>
    BY <1>9 DEF ActionReloads, OnLibrary
  <2>3. IsAction(Reloaded(a, seqRef'))
    BY RequestChanges DEF LibraryInv, ActionsInv
  <2>4. ActionsInv'
    BY <2>1, <2>3 DEF LibraryInv, ActionsInv
  <2>5. QED
    BY <1>1, <2>1, <2>2, <2>4
<1>10. CASE ActionFails
  <2>1. PICK a \in actions :
          actions' = actions \ {a} /\ stale' = (stale \/ a.state = "done")
    BY <1>10 DEF ActionFails
  <2>2. UNCHANGED <<page, rows, listVars>>
    BY <1>10 DEF ActionFails, OnLibrary
  <2>3. ActionsInv' /\ (~stale' => (Reloading => Reloading'))
    BY <2>1 DEF LibraryInv, ActionsInv, Reloading
  <2>4. QED
    BY <2>1, <2>2, <2>3, AsideKeepsLibrary DEF listVars
<1>11. QED
  BY <1>2, <1>3, <1>4, <1>5, <1>6, <1>7, <1>8, <1>9, <1>10 DEF LibraryNext

\* A shelf answered, and how shelves are asked for.
Stocked(f, r) == [f EXCEPT !.got = <<r>>]
Fetches(n) == {[n |-> n, of |-> of, got |-> <<>>] : of \in DOMAIN shelf}

\* What they say of their shelf.
LEMMA FetchChanges ==
  /\ \A f, r : IsFetch(f) => /\ IsFetch(Stocked(f, r)) /\ Stocked(f, r).of = f.of
                             /\ Stocked(f, r).got = <<r>>
  /\ \A n : /\ \A f \in Fetches(n) : IsFetch(f) /\ f.got = <<>>
            /\ \A f, g \in Fetches(n) : f.of = g.of => f = g
            /\ \A of \in DOMAIN shelf : \E f \in Fetches(n) : f.of = of
<1>1. ASSUME NEW f, NEW r, IsFetch(f)
      PROVE  /\ IsFetch(Stocked(f, r)) /\ Stocked(f, r).of = f.of
             /\ Stocked(f, r).got = <<r>>
  <2>1. f = [n |-> f.n, of |-> f.of, got |-> f.got] /\ f.of \in DOMAIN shelf
    BY <1>1 DEF IsFetch
  <2>2. PICK got : got = <<r>>
    OBVIOUS
  <2>3. [f EXCEPT !.got = got] = [n |-> f.n, of |-> f.of, got |-> got]
    BY <2>1
  <2>4. Stocked(f, r) = [n |-> f.n, of |-> f.of, got |-> got]
    BY <2>2, <2>3 DEF Stocked
  <2>5. QED
    BY <2>1, <2>2, <2>4 DEF IsFetch
<1>2. ASSUME NEW n
      PROVE  /\ \A f \in Fetches(n) : IsFetch(f) /\ f.got = <<>>
             /\ \A f, g \in Fetches(n) : f.of = g.of => f = g
             /\ \A of \in DOMAIN shelf : \E f \in Fetches(n) : f.of = of
  <2>1. ASSUME NEW f \in Fetches(n)
        PROVE  IsFetch(f) /\ f = [n |-> n, of |-> f.of, got |-> <<>>]
    <3>1. PICK of \in DOMAIN shelf : f = [n |-> n, of |-> of, got |-> <<>>]
      BY DEF Fetches
    <3>2. f.n = n /\ f.of = of /\ f.got = <<>>
      BY <3>1
    <3>3. QED
      BY <3>1, <3>2 DEF IsFetch
  <2>2. ASSUME NEW of \in DOMAIN shelf
        PROVE  \E f \in Fetches(n) : f.of = of
    <3>1. PICK f : f = [n |-> n, of |-> of, got |-> <<>>]
      OBVIOUS
    <3>2. f \in Fetches(n)
      BY <3>1 DEF Fetches
    <3>3. f.of = of
      BY <3>1
    <3>4. QED
      BY <3>2, <3>3
  <2>3. \A f \in Fetches(n) : f.got = <<>>
    BY DEF Fetches
  <2>4. ASSUME NEW f \in Fetches(n), NEW g \in Fetches(n), f.of = g.of
        PROVE  f = g
    <3>1. PICK of : of = f.of
      OBVIOUS
    <3>2. f = [n |-> n, of |-> of, got |-> <<>>]
      BY <2>1, <3>1
    <3>3. g = [n |-> n, of |-> of, got |-> <<>>]
      BY <2>1, <2>4, <3>1
    <3>4. QED
      BY <3>2, <3>3
  <2>5. QED
    BY <2>1, <2>2, <2>3, <2>4
<1>3. QED
  BY <1>1, <1>2

\* A shelf is answered with what is stored, and shown when it arrives.
LEMMA ServeShelfKeepsShelves ==
  ASSUME ShelvesInv, ServeShelf
  PROVE  ShelvesInv'
<1>1. PICK f \in fetches : fetches' = (fetches \ {f}) \cup {Stocked(f, Stored(f.of))}
  BY DEF ServeShelf, Stocked
<1>2. UNCHANGED <<page, installs, authored, shelf, actions, stale>>
  BY DEF ServeShelf, OnShelves
<1>3. PICK new : new = Stocked(f, Stored(f.of))
  OBVIOUS
<1>4. IsFetch(new) /\ new.of = f.of /\ new.got = <<Stored(f.of)>>
  BY <1>3, FetchChanges DEF ShelvesInv
<1>5. fetches' = (fetches \ {f}) \cup {new}
  BY <1>1, <1>3
<1>6. \A g \in fetches' : IsFetch(g)'
  <2>1. \A g \in fetches' : IsFetch(g)
    BY <1>4, <1>5 DEF ShelvesInv
  <2>2. QED
    BY <1>2, <2>1 DEF IsFetch
<1>7. ASSUME \A g, h \in fetches : g.of = h.of => g = h
      PROVE  \A g, h \in fetches' : g.of = h.of => g = h
  BY <1>4, <1>5, <1>7
<1>8. ASSUME ShelvesCurrent
      PROVE  ShelvesCurrent'
  <2>1. \A of : Stored(of)' = Stored(of)
    BY <1>2, SameRows
  <2>2. \A g \in fetches' : g.got # <<>> => g.got = <<Stored(g.of)>>
    BY <1>4, <1>5, <1>8 DEF ShelvesCurrent
  <2>3. \A of : (\A g \in fetches' : g.of # of) => (\A g \in fetches : g.of # of)
    BY <1>4, <1>5
  <2>4. QED
    BY <1>2, <1>8, <2>1, <2>2, <2>3 DEF ShelvesCurrent
<1>9. Refreshing => Refreshing'
  BY <1>2 DEF Refreshing
<1>10. QED
  BY <1>2, <1>6, <1>7, <1>8, <1>9 DEF ShelvesInv

\* An answer of a shelf is shown only if it is the latest request's.
LEMMA ShelfArrivesKeepsShelves ==
  ASSUME ShelvesInv, ShelfArrives
  PROVE  ShelvesInv'
<1>1. PICK f \in fetches :
        /\ fetches' = fetches \ {f}
        /\ \/ f.got # <<>> /\ shelf' = [shelf EXCEPT ![f.of] = f.got[1]] /\ UNCHANGED stale
           \/ shelf' = [shelf EXCEPT ![f.of] = <<>>] /\ stale' = TRUE
  BY DEF ShelfArrives
<1>2. UNCHANGED <<page, installs, authored, actions>>
  BY DEF ShelfArrives, OnShelves
<1>3. IsFetch(f) /\ shelf = [of \in DOMAIN shelf |-> shelf[of]]
  BY DEF ShelvesInv
<1>4. /\ DOMAIN shelf' = DOMAIN shelf
      /\ shelf' = [of \in DOMAIN shelf' |-> shelf'[of]]
  BY <1>1, <1>3
<1>5. \A g \in fetches' : IsFetch(g)'
  BY <1>1, <1>4 DEF ShelvesInv, IsFetch
<1>6. (\A g, h \in fetches : g.of = h.of => g = h) => \A g, h \in fetches' : g.of = h.of => g = h
  BY <1>1
<1>7. ASSUME ShelvesCurrent, ~stale'
      PROVE  ShelvesCurrent'
  <2>1. \A of : Stored(of)' = Stored(of)
    BY <1>2, SameRows
  <2>2. f.got # <<>> /\ shelf' = [shelf EXCEPT ![f.of] = f.got[1]]
    BY <1>1, <1>7
  <2>3. f.got = <<Stored(f.of)>>
    BY <1>7, <2>2 DEF ShelvesCurrent
  <2>4. f.got[1] = Stored(f.of)
    BY <2>3
  <2>5. \A of \in DOMAIN shelf : shelf'[of] = IF of = f.of THEN Stored(of) ELSE shelf[of]
    BY <1>3, <2>2, <2>4
  <2>6. ASSUME NEW of \in DOMAIN shelf, \A g \in fetches' : g.of # of
        PROVE  shelf'[of] = Stored(of)
    BY <1>1, <1>7, <2>5, <2>6 DEF ShelvesCurrent
  <2>7. \A g \in fetches' : g.got # <<>> => g.got = <<Stored(g.of)>>
    BY <1>1, <1>7 DEF ShelvesCurrent
  <2>8. QED
    BY <1>4, <2>1, <2>6, <2>7 DEF ShelvesCurrent
<1>8. Refreshing => Refreshing'
  BY <1>2 DEF Refreshing
<1>9. ~stale' => ~stale
  BY <1>1
<1>10. QED
  BY <1>2, <1>4, <1>5, <1>6, <1>7, <1>8, <1>9 DEF ShelvesInv

\* Asking for the shelves again outdates what is shown, and overlaps none.
LEMMA RefreshKeepsShelves ==
  ASSUME ShelvesInv, Refresh, UNCHANGED <<page, shelf>>
  PROVE  ShelvesInv'
<1>1. fetches' = fetches \cup Fetches(refreshes) /\ stale' = (fetches # {})
  BY DEF Refresh, Fetches
<1>2. PICK new : new = Fetches(refreshes)
  OBVIOUS
<1>3. /\ \A f \in new : IsFetch(f) /\ f.got = <<>>
      /\ \A f, g \in new : f.of = g.of => f = g
      /\ \A of \in DOMAIN shelf : \E f \in new : f.of = of
  BY <1>2, FetchChanges
<1>4. fetches' = fetches \cup new
  BY <1>1, <1>2
<1>5. \A f \in fetches' : IsFetch(f)'
  <2>1. \A f \in fetches' : IsFetch(f)
    BY <1>3, <1>4 DEF ShelvesInv
  <2>2. QED
    BY <2>1 DEF IsFetch
<1>6. ASSUME ~stale'
      PROVE  (\A f, g \in fetches' : f.of = g.of => f = g) /\ ShelvesCurrent'
  <2>1. fetches' = new
    BY <1>1, <1>4, <1>6
  <2>2. QED
    BY <1>3, <2>1 DEF ShelvesCurrent
<1>7. QED
  BY <1>5, <1>6 DEF ShelvesInv

\* Every step of the shelves keeps them current.
LEMMA ShelvesStep ==
  ASSUME ShelvesInv, ActionsInv, ShelvesNext
  PROVE  ShelvesInv' /\ ActionsInv'
<1>1. ASSUME UNCHANGED <<page, shelf, fetches>>,
             \/ stale'
             \/ ~stale /\ Refreshing'
             \/ ~stale /\ (Refreshing => Refreshing') /\ UNCHANGED <<installs, authored>>
      PROVE  ShelvesInv'
  <2>1. \A f \in fetches : IsFetch(f)'
    BY <1>1 DEF ShelvesInv, IsFetch
  <2>2. ASSUME UNCHANGED <<installs, authored>>, ShelvesCurrent
        PROVE  ShelvesCurrent'
    <3>1. \A of : Stored(of)' = Stored(of)
      BY <2>2, SameRows
    <3>2. QED
      BY <1>1, <2>2, <3>1 DEF ShelvesCurrent
  <2>3. QED
    BY <1>1, <2>1, <2>2 DEF ShelvesInv
<1>2. CASE ServeShelf
  <2>1. UNCHANGED actions
    BY <1>2 DEF ServeShelf
  <2>2. QED
    BY <1>2, <2>1, ServeShelfKeepsShelves DEF ActionsInv
<1>3. CASE ShelfArrives
  <2>1. UNCHANGED actions
    BY <1>3 DEF ShelfArrives
  <2>2. QED
    BY <1>3, <2>1, ShelfArrivesKeepsShelves DEF ActionsInv
<1>4. CASE ClickExtension \/ ConfirmUninstall \/ CreateExtension
  <2>1. /\ UNCHANGED <<page, shelf, fetches, installs, authored, stale>>
        /\ \E kind, id : Start(kind, id)
    BY <1>4 DEF ClickExtension, ConfirmUninstall, CreateExtension, OnShelves, shelfVars
  <2>2. ActionsInv' /\ (Refreshing => Refreshing')
    BY <2>1, StartKeepsActions
  <2>3. ShelvesInv'
    <3>1. CASE stale
      BY <1>1, <2>1, <3>1
    <3>2. CASE ~stale
      BY <1>1, <2>1, <2>2, <3>2
    <3>3. QED
      BY <3>1, <3>2
  <2>4. QED
    BY <2>2, <2>3
<1>5. CASE DismissUninstall
  <2>1. UNCHANGED <<page, shelf, fetches, installs, authored, stale, actions>>
    BY <1>5 DEF DismissUninstall, OnShelves
  <2>2. Refreshing' = Refreshing /\ ActionsInv' = ActionsInv
    BY <2>1 DEF Refreshing, ActionsInv
  <2>3. QED
    BY <1>1, <2>1, <2>2
<1>6. CASE ServeExtension
  <2>1. PICK a \in actions :
          /\ a.state = "asked"
          /\ a.kind = "usage" => UNCHANGED <<installs, authored>>
          /\ actions' = (actions \ {a}) \cup {Done(a)}
    BY <1>6 DEF ServeExtension, Done
  <2>2. IsAction(Done(a)) /\ Done(a).state = "done" /\ Done(a).kind = a.kind
    BY RequestChanges DEF ActionsInv
  <2>3. ActionsInv'
    BY <2>1, <2>2 DEF ActionsInv
  <2>4. (a.kind # "usage" => Refreshing') /\ (Refreshing => Refreshing')
    BY <2>1, <2>2 DEF Refreshing
  <2>5. UNCHANGED <<page, shelf, fetches, stale>>
    BY <1>6 DEF ServeExtension, OnShelves, shelfVars
  <2>6. CASE stale
    BY <1>1, <2>3, <2>5, <2>6
  <2>7. CASE ~stale /\ Refreshing'
    BY <1>1, <2>3, <2>5, <2>7
  <2>8. CASE ~stale /\ ~Refreshing'
    BY <1>1, <2>1, <2>3, <2>4, <2>5, <2>8
  <2>9. QED
    BY <2>6, <2>7, <2>8
<1>7. CASE ExtensionAnswers
  <2>1. PICK a \in actions :
          /\ actions' = actions \ {a}
          /\ \/ a.kind = "usage" /\ UNCHANGED <<fetches, stale>>
             \/ Refresh
             \/ stale' = (stale \/ a.state = "done") /\ UNCHANGED fetches
    BY <1>7 DEF ExtensionAnswers
  <2>2. UNCHANGED <<page, shelf, installs, authored>>
    BY <1>7 DEF ExtensionAnswers, OnShelves
  <2>3. ActionsInv'
    BY <2>1 DEF ActionsInv
  <2>4. a.kind = "usage" \/ a.state # "done" => (Refreshing => Refreshing')
    BY <2>1 DEF Refreshing
  <2>5. CASE Refresh
    BY <2>2, <2>3, <2>5, RefreshKeepsShelves
  <2>6. CASE stale' /\ UNCHANGED fetches
    BY <1>1, <2>2, <2>3, <2>6
  <2>7. CASE ~stale' /\ ~Refresh
    BY <1>1, <2>1, <2>2, <2>3, <2>4, <2>7
  <2>8. CASE stale' /\ ~Refresh
    BY <1>1, <2>1, <2>2, <2>3, <2>8
  <2>9. QED
    BY <2>5, <2>7, <2>8
<1>8. QED
  BY <1>2, <1>3, <1>4, <1>5, <1>6, <1>7 DEF ShelvesNext

\* The pages of the creation are neither the library nor the shelves.
LEMMA CreationKeepsCopies ==
  ASSUME LibraryInv, ShelvesInv, CreationNext
  PROVE  LibraryInv' /\ ShelvesInv'
<1>1. /\ UNCHANGED <<libraryVars, actions, shelfVars, stale>>
      /\ page' \notin {"projects", "extensions"}
  BY DEF CreationNext, AtHub, ChooseEnvironment, ChooseMethod, Back, CreateProject, UseTemplate,
     CreateEnds
<1>2. ListsInv' /\ ActionsInv'
  BY <1>1, SameRows DEF libraryVars, listVars, LibraryInv, ListsInv, ActionsInv
<1>3. \A f \in fetches : IsFetch(f)'
  BY <1>1 DEF shelfVars, ShelvesInv, IsFetch
<1>4. QED
  BY <1>1, <1>2, <1>3 DEF shelfVars, LibraryInv, ShelvesInv

DashboardInv == HubInv /\ LibraryInv /\ ShelvesInv

\* Every step of the dashboard.
LEMMA DashboardStep ==
  ASSUME DashboardInv, [DashboardNext]_dashboardVars
  PROVE  DashboardInv'
<1>1. HubInv'
  BY HubStep DEF DashboardInv
<1>2. CASE LibraryNext
  <2>1. LibraryInv'
    BY <1>2, LibraryStep DEF DashboardInv
  <2>2. UNCHANGED <<page, shelfVars>> /\ page = "projects"
    BY <1>2 DEF LibraryNext, OnLibrary, ChooseFilter, TryAgain, ServeList, ListArrives, OpenRename,
         OpenDelete, CloseDialog, ProjectCard, SaveRename, ConfirmDelete, ServeAction,
         ActionReloads, ActionFails
  <2>3. ShelvesInv'
    BY <2>2 DEF shelfVars, DashboardInv, ShelvesInv, IsFetch
  <2>4. QED
    BY <1>1, <2>1, <2>3 DEF DashboardInv
<1>3. CASE ShelvesNext
  <2>1. ShelvesInv' /\ ActionsInv'
    BY <1>3, ShelvesStep DEF DashboardInv, LibraryInv
  <2>2. UNCHANGED <<page, seqRef, asked, lists>> /\ page = "extensions"
    BY <1>3 DEF ShelvesNext, OnShelves, libraryVars, listVars, ServeShelf, ShelfArrives,
         ClickExtension, ConfirmUninstall, DismissUninstall, CreateExtension, ServeExtension,
         ExtensionAnswers
  <2>3. ListsInv'
    BY <2>2, SameRows DEF DashboardInv, LibraryInv, ListsInv
  <2>4. QED
    BY <1>1, <2>1, <2>2, <2>3 DEF DashboardInv, LibraryInv
<1>4. CASE CreationNext
  BY <1>1, <1>4, CreationKeepsCopies DEF DashboardInv
<1>5. CASE UNCHANGED dashboardVars
  <2>1. ListsInv'
    BY <1>5, SameRows DEF dashboardVars, libraryVars, listVars, DashboardInv, LibraryInv, ListsInv
  <2>2. Matching(asked)' = Matching(asked) /\ \A of : Stored(of)' = Stored(of)
    BY <1>5, SameRows DEF dashboardVars, storedVars, libraryVars, listVars
  <2>3. LibraryInv'
    BY <1>5, <2>1, <2>2 DEF dashboardVars, libraryVars, listVars, DashboardInv, LibraryInv,
         ActionsInv, Reloading, GridCurrent
  <2>4. \A f \in fetches : IsFetch(f)'
    BY <1>5 DEF dashboardVars, shelfVars, DashboardInv, ShelvesInv, IsFetch
  <2>5. ShelvesInv'
    BY <1>5, <2>2, <2>4 DEF dashboardVars, shelfVars, DashboardInv, ShelvesInv, Refreshing,
         ShelvesCurrent
  <2>6. QED
    BY <1>1, <2>3, <2>5 DEF DashboardInv
<1>6. QED
  BY <1>2, <1>3, <1>4, <1>5 DEF DashboardNext

\* However many projects, extensions, lists and actions at once: when nothing
\* is under way the library and the shelves show what is stored, and a
\* template is only ever sent with its own type.
THEOREM DashboardShowsWhatIsStored == DashboardSpec => []DashboardIsCurrent
<1>1. DashboardInit => DashboardInv
  <2> SUFFICES ASSUME DashboardInit PROVE DashboardInv
    OBVIOUS
  <2>1. HubInv
    BY DEF DashboardInit, HubInv
  <2>2. LibraryInv
    BY DEF DashboardInit, LibraryInv, ListsInv, ActionsInv, GridCurrent
  <2>3. ShelvesInv
    BY DEF DashboardInit, ShelvesInv, ShelvesCurrent
  <2>4. QED
    BY <2>1, <2>2, <2>3 DEF DashboardInv
<1>2. DashboardInv /\ [DashboardNext]_dashboardVars => DashboardInv'
  BY DashboardStep
<1>3. DashboardInv => DashboardIsCurrent
  <2> SUFFICES ASSUME DashboardInv PROVE DashboardIsCurrent
    OBVIOUS
  <2>1. TemplatesFitTheirType
    BY DEF DashboardInv, HubInv, TemplatesFitTheirType
  <2>2. ASSUME actions = {}, ~stale
        PROVE  ~Reloading /\ ~Refreshing
    BY <2>2 DEF Reloading, Refreshing
  <2>3. ASSUME actions = {}, ~stale, page = "projects", lists = {}, ~loadError
        PROVE  grid = Matching(asked)
    BY <2>2, <2>3 DEF DashboardInv, LibraryInv, GridCurrent
  <2>4. ASSUME actions = {}, ~stale, page = "extensions", fetches = {}
        PROVE  shelf = [of \in DOMAIN shelf |-> Stored(of)]
    <3>1. \A of \in DOMAIN shelf : shelf[of] = Stored(of)
      BY <2>2, <2>4 DEF DashboardInv, ShelvesInv, ShelvesCurrent
    <3>2. QED
      BY <3>1 DEF DashboardInv, ShelvesInv
  <2>5. QED
    BY <2>1, <2>3, <2>4 DEF DashboardIsCurrent, ListsAreCurrent
<1>4. QED
  BY <1>1, <1>2, <1>3, PTL DEF DashboardSpec

-----------------------------------------------------------------------------
(* The assets of a project and what its model refers to (ProjectInsights). *)

\* The models met so far, each with its references.
Referring(models) == \A m \in models : "assets" \in DOMAIN m
Known(models) ==
  /\ Referring(models)
  /\ refModel \in models
  /\ refPast \in Seq(models)

AssetsInv ==
  /\ \E models : Known(models)
  /\ \A b \in batches : "base" \in DOMAIN b /\ "assets" \in DOMAIN b.base
  /\ ~adrift => refModel.assets = assetRows

\* A commit adds to the models met.
LEMMA CommitIsKnown ==
  ASSUME NEW models, Known(models), NEW m, "assets" \in DOMAIN m, CommitRefs(m)
  PROVE  \E later : Known(later)'
<1> DEFINE later == models \cup {m}
<1>1. refModel' = m /\ refPast' = Append(refPast, refModel)
  BY DEF CommitRefs
<1>2. refPast \in Seq(later)
  BY DEF Known
<1>3. refPast' \in Seq(later)
  BY <1>1, <1>2, AppendProperties DEF Known
<1>4. Referring(later) /\ refModel' \in later
  BY <1>1 DEF Known, Referring
<1>5. QED
  BY <1>3, <1>4 DEF Known

\* An edit keeps the references.
LEMMA EditKeepsAssets ==
  ASSUME AssetsInv, RefEdits
  PROVE  AssetsInv'
<1>1. PICK models : Known(models)
  BY DEF AssetsInv
<1>2. "assets" \in DOMAIN refModel
  BY <1>1 DEF Known, Referring
<1>3. ASSUME NEW m, CommitRefs(m), Elsewhere, "assets" \in DOMAIN m, m.assets = refModel.assets
      PROVE  AssetsInv'
  <2>1. \E later : Known(later)'
    BY <1>1, <1>3, CommitIsKnown
  <2>2. UNCHANGED assetVars /\ refModel'.assets = refModel.assets
    BY <1>3 DEF Elsewhere, CommitRefs
  <2>3. QED
    BY <2>1, <2>2 DEF assetVars, AssetsInv
<1>4. ASSUME NEW s, DropScreenRefs(s)
      PROVE  AssetsInv'
  <2>1. PICK t, c, h :
          CommitRefs([refModel EXCEPT !.tabs = t, !.comps = c, !.handlers = h]) /\ Elsewhere
    BY <1>4 DEF DropScreenRefs
  <2>2. QED
    BY <1>2, <1>3, <2>1
<1>5. ASSUME NEW c, DropComponent(c)
      PROVE  AssetsInv'
  <2>1. PICK cs : CommitRefs([refModel EXCEPT !.comps = cs]) /\ Elsewhere
    BY <1>5 DEF DropComponent
  <2>2. QED
    BY <1>2, <1>3, <2>1
<1>6. ASSUME NEW v, DropVariable(v)
      PROVE  AssetsInv'
  <2>1. PICK vs : CommitRefs([refModel EXCEPT !.vars = vs]) /\ Elsewhere
    BY <1>6 DEF DropVariable
  <2>2. QED
    BY <1>2, <1>3, <2>1
<1>7. ASSUME NEW h, DropHandler(h)
      PROVE  AssetsInv'
  <2>1. PICK hs : CommitRefs([refModel EXCEPT !.handlers = hs]) /\ Elsewhere
    BY <1>7 DEF DropHandler
  <2>2. QED
    BY <1>2, <1>3, <2>1
<1>8. ASSUME NEW s, EditActions(s)
      PROVE  AssetsInv'
  <2>1. PICK as : CommitRefs([refModel EXCEPT !.actions[s] = as]) /\ Elsewhere
    BY <1>8 DEF EditActions
  <2>2. QED
    BY <1>2, <1>3, <2>1
<1>9. CASE RefUndo
  <2>1. /\ refPast # <<>> /\ refModel' = Last(refPast) /\ refPast' = Front(refPast)
        /\ adrift' = (adrift \/ refModel'.assets # refModel.assets)
        /\ UNCHANGED <<assetRows, batches>>
    BY <1>9 DEF RefUndo
  <2>2. refModel' \in models /\ refPast' \in Seq(models)
    BY <1>1, <2>1 DEF Known, Last, Front
  <2>3. QED
    BY <1>1, <2>1, <2>2 DEF Known, AssetsInv
<1>10. QED
  BY <1>4, <1>5, <1>6, <1>7, <1>8, <1>9 DEF RefEdits

\* So do an image inserted and one shown elsewhere; an upload or a deletion
\* chosen keeps the model of its click.
LEMMA ButtonsKeepAssets ==
  ASSUME AssetsInv, AssetButtons
  PROVE  AssetsInv'
<1>1. PICK models : Known(models)
  BY DEF AssetsInv
<1>2. "assets" \in DOMAIN refModel
  BY <1>1 DEF Known, Referring
<1>3. ASSUME NEW m, CommitRefs(m), Elsewhere, "assets" \in DOMAIN m, m.assets = refModel.assets
      PROVE  AssetsInv'
  <2>1. \E later : Known(later)'
    BY <1>1, <1>3, CommitIsKnown
  <2>2. UNCHANGED assetVars /\ refModel'.assets = refModel.assets
    BY <1>3 DEF Elsewhere, CommitRefs
  <2>3. QED
    BY <2>1, <2>2 DEF assetVars, AssetsInv
<1>4. ASSUME UNCHANGED <<refVars, assetRows, adrift>>,
             \A b \in batches' \ batches : "base" \in DOMAIN b /\ b.base = refModel
      PROVE  AssetsInv'
  <2>1. Known(models)'
    BY <1>1, <1>4 DEF refVars, Known
  <2>2. QED
    BY <1>2, <1>4, <2>1 DEF refVars, AssetsInv
<1>5. CASE OpenAssets
  BY <1>4, <1>5 DEF OpenAssets
<1>6. CASE ChooseFiles
  <2>1. PICK files : batches' = batches \cup {[left |-> files, gone |-> Nowhere, base |-> refModel]}
    BY <1>6 DEF ChooseFiles
  <2>2. UNCHANGED <<refVars, assetRows, adrift>>
    BY <1>6 DEF ChooseFiles
  <2>3. QED
    BY <1>4, <2>1, <2>2
<1>7. ASSUME NEW a, DeleteAsset(a)
      PROVE  AssetsInv'
  <2>1. /\ batches' = batches \cup {[left |-> <<>>, gone |-> a, base |-> refModel]}
        /\ UNCHANGED <<refVars, assetRows, adrift>>
    BY <1>7 DEF DeleteAsset
  <2>2. QED
    BY <1>4, <2>1
<1>8. ASSUME NEW a, InsertImage(a)
      PROVE  AssetsInv'
  <2>1. PICK cs : CommitRefs([refModel EXCEPT !.comps = cs]) /\ Elsewhere
    BY <1>8 DEF InsertImage
  <2>2. QED
    BY <1>2, <1>3, <2>1
<1>9. ASSUME NEW a, UseInSelected(a)
      PROVE  AssetsInv'
  <2>1. PICK c, props : CommitRefs([refModel EXCEPT !.comps[c].props = props]) /\ Elsewhere
    BY <1>9 DEF UseInSelected
  <2>2. QED
    BY <1>2, <1>3, <2>1
<1>10. QED
  BY <1>5, <1>6, <1>7, <1>8, <1>9 DEF AssetButtons

\* An answer changes the row and the reference of one asset together, in the
\* model of its click: when that is not the model any more, they drift apart.
LEMMA AnswersKeepAssets ==
  ASSUME AssetsInv, NEW b \in batches, Uploaded(b) \/ Deleted(b) \/ RequestFails(b)
  PROVE  AssetsInv'
<1>1. PICK models : Known(models)
  BY DEF AssetsInv
<1>2. "base" \in DOMAIN b /\ "assets" \in DOMAIN b.base
  BY DEF AssetsInv
<1>3. ASSUME UNCHANGED refVars
      PROVE  Known(models)'
  BY <1>1, <1>3 DEF refVars, Known
<1>4. ASSUME NEW assets, CommitRefs([b.base EXCEPT !.assets = assets])
      PROVE  (\E later : Known(later)') /\ refModel'.assets = assets
  <2>1. PICK m : m = [b.base EXCEPT !.assets = assets]
    OBVIOUS
  <2>2. "assets" \in DOMAIN m /\ m.assets = assets
    BY <1>2, <2>1
  <2>3. CommitRefs(m)
    BY <1>4, <2>1
  <2>4. QED
    BY <1>1, <2>2, <2>3, CommitIsKnown DEF CommitRefs
<1>5. CASE Uploaded(b)
  <2>1. PICK a :
          /\ assetRows' = assetRows \cup {a}
          /\ IF a \in b.base.assets THEN UNCHANGED refVars
             ELSE CommitRefs([b.base EXCEPT !.assets = @ \cup {a}])
          /\ adrift' = (adrift \/ b.base # refModel)
    BY <1>5 DEF Uploaded, Drifts
  <2>2. batches' \subseteq batches \cup {[b EXCEPT !.left = Tail(@)]}
    BY <1>5 DEF Uploaded
  <2>3. \A c \in batches' : "base" \in DOMAIN c /\ "assets" \in DOMAIN c.base
    <3>1. PICK rest : rest = [b EXCEPT !.left = Tail(@)]
      OBVIOUS
    <3>2. "base" \in DOMAIN rest /\ rest.base = b.base
      BY <1>2, <3>1
    <3>3. QED
      BY <1>2, <2>2, <3>1, <3>2 DEF AssetsInv
  <2>4. CASE a \in b.base.assets
    BY <1>3, <2>1, <2>3, <2>4 DEF refVars, AssetsInv
  <2>5. CASE a \notin b.base.assets
    <3>1. CommitRefs([b.base EXCEPT !.assets = b.base.assets \cup {a}])
      BY <1>2, <2>1, <2>5
    <3>2. (\E later : Known(later)') /\ refModel'.assets = b.base.assets \cup {a}
      BY <1>4, <3>1
    <3>3. QED
      BY <2>1, <2>3, <3>2 DEF AssetsInv
  <2>6. QED
    BY <2>4, <2>5
<1>6. CASE Deleted(b)
  <2>1. PICK a :
          /\ assetRows' = assetRows \ {a}
          /\ IF a \notin b.base.assets THEN UNCHANGED refVars
             ELSE CommitRefs([b.base EXCEPT !.assets = @ \ {a}])
          /\ adrift' = (adrift \/ b.base # refModel)
          /\ batches' = batches \ {b}
    BY <1>6 DEF Deleted, Drifts
  <2>2. \A c \in batches' : "base" \in DOMAIN c /\ "assets" \in DOMAIN c.base
    BY <2>1 DEF AssetsInv
  <2>3. CASE a \notin b.base.assets
    BY <1>3, <2>1, <2>2, <2>3 DEF refVars, AssetsInv
  <2>4. CASE a \in b.base.assets
    <3>1. CommitRefs([b.base EXCEPT !.assets = b.base.assets \ {a}])
      BY <1>2, <2>1, <2>4
    <3>2. (\E later : Known(later)') /\ refModel'.assets = b.base.assets \ {a}
      BY <1>4, <3>1
    <3>3. QED
      BY <2>1, <2>2, <3>2 DEF AssetsInv
  <2>5. QED
    BY <2>3, <2>4
<1>7. CASE RequestFails(b)
  <2>1. /\ UNCHANGED refVars /\ batches' = batches \ {b}
        /\ UNCHANGED <<assetRows, adrift>> \/ adrift' = TRUE
    BY <1>7 DEF RequestFails
  <2>2. QED
    BY <1>3, <2>1 DEF refVars, AssetsInv
<1>8. QED
  BY <1>5, <1>6, <1>7

\* However many files, edits and requests at once: with none under way the
\* project refers to exactly the assets stored, unless it drifted.
THEOREM AssetsAreTheOnesStored == InsightsSpec => []AssetsAreReferenced
<1>1. InsightsInit => AssetsInv
  <2> SUFFICES ASSUME InsightsInit PROVE AssetsInv
    OBVIOUS
  <2>1. refModel \in RefProjects /\ refPast = <<>> /\ batches = {} /\ assetRows = refModel.assets
    BY DEF InsightsInit
  <2>2. Known(RefProjects)
    BY <2>1, InsightBoundsAssumption DEF Known, Referring
  <2>3. QED
    BY <2>1, <2>2 DEF AssetsInv
<1>2. AssetsInv /\ [InsightsNext]_insightVars => AssetsInv'
  <2> SUFFICES ASSUME AssetsInv, [InsightsNext]_insightVars PROVE AssetsInv'
    OBVIOUS
  <2>1. CASE RefEdits
    BY <2>1, EditKeepsAssets
  <2>2. CASE AssetButtons
    BY <2>2, ButtonsKeepAssets
  <2>3. ASSUME NEW b \in batches, Uploaded(b) \/ Deleted(b) \/ RequestFails(b)
        PROVE  AssetsInv'
    BY <2>3, AnswersKeepAssets
  <2>4. CASE DiagnosticsPanel \/ InsightsMode \/ ProjectMap \/ UNCHANGED insightVars
    <3>1. UNCHANGED <<refModel, refPast, assetRows, batches, adrift>>
      BY <2>4 DEF DiagnosticsPanel, InsightsMode, ProjectMap, ToggleDrawer, OpenIssue, FixWithAI,
           OpenInsights, ChooseTab, ReportArrives, OpenReported, PickNode, FollowEdge, Reading,
           insightVars, refVars, assetVars
    <3>2. PICK models : Known(models)
      BY DEF AssetsInv
    <3>3. Known(models)'
      BY <3>1, <3>2 DEF Known
    <3>4. QED
      BY <3>1, <3>3 DEF AssetsInv
  <2>5. QED
    BY <2>1, <2>2, <2>3, <2>4 DEF InsightsNext
<1>3. AssetsInv => AssetsAreReferenced
  BY DEF AssetsInv, AssetsAreReferenced
<1>4. QED
  BY <1>1, <1>2, <1>3, PTL DEF InsightsSpec

-----------------------------------------------------------------------------
(* The map and the diagnostics of a project (ProjectInsights).             *)

\* What is left of a sequence when an entry is taken out.
LEMMA RemovedAt ==
  ASSUME NEW S, NEW s \in Seq(S), NEW k \in DOMAIN s
  PROVE  /\ RemoveAt(s, k) \in Seq(S)
         /\ Len(RemoveAt(s, k)) = Len(s) - 1
         /\ \A i \in 1..Len(s) - 1 : RemoveAt(s, k)[i] = IF i < k THEN s[i] ELSE s[i + 1]
<1>1. /\ Len(s) \in Nat /\ k \in 1..Len(s) /\ \A i \in 1..Len(s) : s[i] \in S
  BY LenProperties, ElementOfSeq
<1>2. PICK a : a = SubSeq(s, 1, k - 1)
  OBVIOUS
<1>3. PICK b : b = SubSeq(s, k + 1, Len(s))
  OBVIOUS
<1>4. /\ a \in Seq(S) /\ Len(a) = k - 1 /\ \A i \in 1..k - 1 : a[i] = s[i]
  <2>1. /\ 1 \in Int /\ k - 1 \in Int /\ \A i \in 1..k - 1 : s[i] \in S
        /\ (IF 1 <= k - 1 THEN k - 1 - 1 + 1 ELSE 0) = k - 1
    BY <1>1
  <2>2. \A i \in 1..k - 1 - 1 + 1 : a[i] = s[1 + i - 1]
    BY <1>2, <2>1, SubSeqProperties
  <2>3. a \in Seq(S) /\ Len(a) = IF 1 <= k - 1 THEN k - 1 - 1 + 1 ELSE 0
    BY <1>2, <2>1, SubSeqProperties
  <2>4. QED
    BY <1>1, <2>1, <2>2, <2>3
<1>5. /\ b \in Seq(S) /\ Len(b) = Len(s) - k /\ \A i \in 1..Len(s) - k : b[i] = s[k + i]
  <2>1. /\ k + 1 \in Int /\ Len(s) \in Int /\ \A i \in k + 1..Len(s) : s[i] \in S
        /\ (IF k + 1 <= Len(s) THEN Len(s) - (k + 1) + 1 ELSE 0) = Len(s) - k
    BY <1>1
  <2>2. \A i \in 1..Len(s) - (k + 1) + 1 : b[i] = s[k + 1 + i - 1]
    BY <1>3, <2>1, SubSeqProperties
  <2>3. b \in Seq(S) /\ Len(b) = IF k + 1 <= Len(s) THEN Len(s) - (k + 1) + 1 ELSE 0
    BY <1>3, <2>1, SubSeqProperties
  <2>4. QED
    BY <1>1, <2>1, <2>2, <2>3
<1>6. /\ a \o b \in Seq(S) /\ Len(a \o b) = Len(a) + Len(b)
      /\ \A i \in 1..Len(a) + Len(b) : (a \o b)[i] = IF i <= Len(a) THEN a[i] ELSE b[i - Len(a)]
  BY <1>4, <1>5, ConcatProperties
<1>7. ASSUME NEW i \in 1..Len(s) - 1
      PROVE  (a \o b)[i] = IF i < k THEN s[i] ELSE s[i + 1]
  <2>1. (a \o b)[i] = IF i <= k - 1 THEN a[i] ELSE b[i - (k - 1)]
    <3>1. Len(a) = k - 1 /\ i \in 1..Len(a) + Len(b)
      BY <1>1, <1>4, <1>5
    <3>2. QED
      BY <1>6, <3>1
  <2>2. CASE i < k
    <3>1. i \in 1..k - 1 /\ i <= k - 1
      BY <1>1, <2>2
    <3>2. a[i] = s[i]
      BY <1>4, <3>1
    <3>3. QED
      BY <2>1, <2>2, <3>1, <3>2
  <2>3. CASE ~(i < k)
    <3>1. i - (k - 1) \in 1..Len(s) - k /\ k + (i - (k - 1)) = i + 1
      BY <1>1, <2>3
    <3>2. b[i - (k - 1)] = s[i + 1]
      BY <1>5, <3>1
    <3>3. QED
      BY <1>1, <2>1, <2>3, <3>2
  <2>4. QED
    BY <2>2, <2>3
<1>8. RemoveAt(s, k) = a \o b
  BY <1>2, <1>3 DEF RemoveAt
<1>9. Len(a \o b) = Len(s) - 1
  BY <1>1, <1>4, <1>5, <1>6
<1>10. QED
  BY <1>6, <1>7, <1>8, <1>9

\* The others are still in it.
LEMMA TakenOut ==
  ASSUME NEW S, NEW s \in Seq(S), NEW k \in DOMAIN s
  PROVE  /\ RemoveAt(s, k) \in Seq(S)
         /\ Len(RemoveAt(s, k)) = Len(s) - 1
         /\ Range(s) \ {s[k]} \subseteq Range(RemoveAt(s, k))
<1>1. PICK r : r = RemoveAt(s, k)
  OBVIOUS
<1>2. /\ r \in Seq(S) /\ Len(r) = Len(s) - 1
      /\ \A i \in 1..Len(s) - 1 : r[i] = IF i < k THEN s[i] ELSE s[i + 1]
  BY <1>1, RemovedAt
<1>3. Len(s) \in Nat /\ k \in 1..Len(s) /\ DOMAIN s = 1..Len(s)
  BY LenProperties
<1>4. DOMAIN r = 1..Len(s) - 1
  BY <1>2, LenProperties
<1>5. ASSUME NEW i \in 1..Len(s), s[i] # s[k]
      PROVE  s[i] \in Range(r)
  <2>1. CASE i < k
    <3>1. i \in 1..Len(s) - 1 /\ r[i] = s[i]
      BY <1>2, <1>3, <2>1
    <3>2. QED
      BY <1>4, <3>1 DEF Range
  <2>2. CASE i > k
    <3>1. PICK j \in Int : j = i - 1
      BY <1>3
    <3>2. j \in 1..Len(s) - 1 /\ ~(j < k) /\ j + 1 = i
      BY <1>3, <2>2, <3>1
    <3>3. r[j] = s[i]
      BY <1>2, <3>2
    <3>4. QED
      BY <1>4, <3>2, <3>3 DEF Range
  <2>3. i = k \/ i < k \/ i > k
    BY <1>3
  <2>4. QED
    BY <1>5, <2>1, <2>2, <2>3
<1>6. QED
  BY <1>1, <1>2, <1>3, <1>5 DEF Range

\* A project has a screen, and its components and handlers are on its screens.
Kept(m) ==
  /\ {"tabs", "comps", "handlers"} \subseteq DOMAIN m
  /\ m.tabs \in Seq(Range(m.tabs)) /\ m.tabs # <<>>
  /\ \A c \in DOMAIN m.comps : "screen" \in DOMAIN m.comps[c] /\ m.comps[c].screen \in Range(m.tabs)
  /\ \A h \in m.handlers : h.screen \in Range(m.tabs)

\* So is every project met: shown, undone, or held by a request under way.
MetKept(models) ==
  /\ \A m \in models : Kept(m)
  /\ refModel \in models
  /\ refPast \in Seq(models)
MapInv ==
  /\ \E models : MetKept(models)
  /\ \A b \in batches : "base" \in DOMAIN b /\ Kept(b.base)

\* A commit of such a project is one more.
LEMMA CommitIsKept ==
  ASSUME MapInv, NEW m, Kept(m), CommitRefs(m), batches' = batches
  PROVE  MapInv'
<1>1. PICK models : MetKept(models)
  BY DEF MapInv
<1>2. PICK later : later = models \cup {m}
  OBVIOUS
<1>3. refModel' = m /\ refPast' = Append(refPast, refModel)
  BY DEF CommitRefs
<1>4. refPast \in Seq(later) /\ refModel \in later
  BY <1>1, <1>2 DEF MetKept
<1>5. refPast' \in Seq(later)
  BY <1>3, <1>4, AppendProperties
<1>6. MetKept(later)'
  BY <1>1, <1>2, <1>3, <1>5 DEF MetKept
<1>7. QED
  BY <1>6 DEF MapInv

\* Edits keep it: a screen goes with all that is on it.
LEMMA EditKeepsMap ==
  ASSUME MapInv, RefEdits
  PROVE  MapInv'
<1>1. PICK models : MetKept(models)
  BY DEF MapInv
<1>2. PICK m : m = refModel
  OBVIOUS
<1>3. Kept(m) /\ Kept(refModel)
  BY <1>1, <1>2 DEF MetKept
<1>4. ASSUME NEW n, CommitRefs(n), Elsewhere, Kept(n)
      PROVE  MapInv'
  BY <1>4, CommitIsKept DEF Elsewhere, assetVars
<1>5. ASSUME NEW s, DropScreenRefs(s)
      PROVE  MapInv'
  <2>1. PICK k \in DOMAIN m.tabs :
          /\ m.tabs[k] = s
          /\ CommitRefs([m EXCEPT !.tabs = RemoveAt(@, k),
                                  !.comps = Restrict(@, Ids(m) \ OnScreen(m, s)),
                                  !.handlers = {h \in @ : h.screen # s}])
    BY <1>2, <1>5 DEF DropScreenRefs
  <2>2. Elsewhere /\ Len(m.tabs) > 1
    BY <1>2, <1>5 DEF DropScreenRefs
  <2>3. PICK tabs : tabs = RemoveAt(m.tabs, k)
    OBVIOUS
  <2>4. PICK comps : comps = Restrict(m.comps, Ids(m) \ OnScreen(m, s))
    OBVIOUS
  <2>5. PICK hs : hs = {h \in m.handlers : h.screen # s}
    OBVIOUS
  <2>6. PICK n : n = [m EXCEPT !.tabs = tabs, !.comps = comps, !.handlers = hs]
    OBVIOUS
  <2>7. n.tabs = tabs /\ n.comps = comps /\ n.handlers = hs /\ DOMAIN n = DOMAIN m
    BY <1>3, <2>6 DEF Kept
  <2>8. CommitRefs(n)
    BY <1>3, <2>1, <2>3, <2>4, <2>5, <2>6 DEF Kept
  <2>9. /\ tabs \in Seq(Range(m.tabs)) /\ Len(tabs) = Len(m.tabs) - 1
        /\ Range(m.tabs) \ {s} \subseteq Range(tabs)
    BY <1>3, <2>1, <2>3, TakenOut DEF Kept
  <2>10. tabs # <<>>
    <3>1. PICK l : l = Len(tabs)
      OBVIOUS
    <3>2. PICK o \in Nat : o = Len(m.tabs)
      BY <1>3, LenProperties DEF Kept
    <3>3. l = o - 1 /\ o > 1
      BY <2>2, <2>9, <3>1, <3>2
    <3>4. l # 0
      BY <3>3
    <3>5. QED
      BY <3>1, <3>4, <2>9, EmptySeq
  <2>11. tabs \in Seq(Range(tabs))
    BY <2>9, LenProperties, ElementOfSeq DEF Range
  <2>12. \A c \in DOMAIN comps : "screen" \in DOMAIN comps[c] /\ comps[c].screen \in Range(tabs)
    <3> SUFFICES ASSUME NEW c \in DOMAIN comps
                 PROVE  "screen" \in DOMAIN comps[c] /\ comps[c].screen \in Range(tabs)
      OBVIOUS
    <3>1. c \in Ids(m) \ OnScreen(m, s) /\ comps[c] = m.comps[c]
      BY <2>4 DEF Restrict
    <3>2. c \in DOMAIN m.comps /\ m.comps[c].screen # s
      BY <3>1 DEF Ids, OnScreen
    <3>3. QED
      BY <1>3, <2>9, <3>1, <3>2 DEF Kept
  <2>13. \A h \in hs : h.screen \in Range(tabs)
    BY <1>3, <2>5, <2>9 DEF Kept
  <2>14. Kept(n)
    BY <1>3, <2>7, <2>10, <2>11, <2>12, <2>13 DEF Kept
  <2>15. QED
    BY <1>4, <2>2, <2>8, <2>14
<1>6. ASSUME NEW c, DropComponent(c)
      PROVE  MapInv'
  <2>1. CommitRefs([m EXCEPT !.comps = Restrict(@, Ids(m) \ {c})]) /\ Elsewhere
    BY <1>2, <1>6 DEF DropComponent
  <2>2. PICK comps : comps = Restrict(m.comps, Ids(m) \ {c})
    OBVIOUS
  <2>3. PICK n : n = [m EXCEPT !.comps = comps]
    OBVIOUS
  <2>4. n.tabs = m.tabs /\ n.comps = comps /\ n.handlers = m.handlers /\ DOMAIN n = DOMAIN m
    BY <1>3, <2>3 DEF Kept
  <2>5. CommitRefs(n)
    BY <1>3, <2>1, <2>2, <2>3 DEF Kept
  <2>6. \A d \in DOMAIN comps : d \in DOMAIN m.comps /\ comps[d] = m.comps[d]
    BY <2>2 DEF Restrict, Ids
  <2>7. Kept(n)
    BY <1>3, <2>4, <2>6 DEF Kept
  <2>8. QED
    BY <1>4, <2>1, <2>5, <2>7
<1>7. ASSUME NEW v, DropVariable(v)
      PROVE  MapInv'
  <2>1. PICK vs : CommitRefs([m EXCEPT !.vars = vs]) /\ Elsewhere
    BY <1>2, <1>7 DEF DropVariable
  <2>2. PICK n : n = [m EXCEPT !.vars = vs]
    OBVIOUS
  <2>3. n.tabs = m.tabs /\ n.comps = m.comps /\ n.handlers = m.handlers /\ DOMAIN n = DOMAIN m
    BY <1>3, <2>2 DEF Kept
  <2>4. Kept(n)
    BY <1>3, <2>3 DEF Kept
  <2>5. QED
    BY <1>4, <2>1, <2>2, <2>4
<1>8. ASSUME NEW h, DropHandler(h)
      PROVE  MapInv'
  <2>1. CommitRefs([m EXCEPT !.handlers = @ \ {h}]) /\ Elsewhere
    BY <1>2, <1>8 DEF DropHandler
  <2>2. PICK n : n = [m EXCEPT !.handlers = m.handlers \ {h}]
    OBVIOUS
  <2>3. n.tabs = m.tabs /\ n.comps = m.comps /\ n.handlers = m.handlers \ {h} /\ DOMAIN n = DOMAIN m
    BY <1>3, <2>2 DEF Kept
  <2>4. Kept(n)
    BY <1>3, <2>3 DEF Kept
  <2>5. CommitRefs(n)
    BY <1>3, <2>1, <2>2 DEF Kept
  <2>6. QED
    BY <1>4, <2>1, <2>4, <2>5
<1>9. ASSUME NEW s, EditActions(s)
      PROVE  MapInv'
  <2>1. PICK as : CommitRefs([m EXCEPT !.actions[s] = as]) /\ Elsewhere
    BY <1>2, <1>9 DEF EditActions
  <2>2. PICK n : n = [m EXCEPT !.actions[s] = as]
    OBVIOUS
  <2>3. n.tabs = m.tabs /\ n.comps = m.comps /\ n.handlers = m.handlers /\ DOMAIN n = DOMAIN m
    BY <1>3, <2>2 DEF Kept
  <2>4. Kept(n)
    BY <1>3, <2>3 DEF Kept
  <2>5. QED
    BY <1>4, <2>1, <2>2, <2>4
<1>10. ASSUME RefUndo
       PROVE  MapInv'
  <2>1. /\ refPast # <<>> /\ refModel' = Last(refPast) /\ refPast' = Front(refPast)
        /\ batches' = batches
    BY <1>10 DEF RefUndo
  <2>2. refModel' \in models /\ refPast' \in Seq(models)
    BY <1>1, <2>1 DEF MetKept, Last, Front
  <2>3. MetKept(models)'
    BY <1>1, <2>2 DEF MetKept
  <2>4. QED
    BY <2>1, <2>3 DEF MapInv
<1>11. QED
  BY <1>5, <1>6, <1>7, <1>8, <1>9, <1>10 DEF RefEdits

\* An image is inserted on a screen there is.
LEMMA ButtonsKeepMap ==
  ASSUME MapInv, AssetButtons
  PROVE  MapInv'
<1>1. PICK models : MetKept(models)
  BY DEF MapInv
<1>2. PICK m : m = refModel
  OBVIOUS
<1>3. Kept(m) /\ Kept(refModel)
  BY <1>1, <1>2 DEF MetKept
<1>4. ASSUME NEW n, CommitRefs(n), Elsewhere, Kept(n)
      PROVE  MapInv'
  BY <1>4, CommitIsKept DEF Elsewhere, assetVars
<1>5. ASSUME UNCHANGED refVars,
             \A b \in batches' \ batches : "base" \in DOMAIN b /\ b.base = refModel
      PROVE  MapInv'
  <2>1. MetKept(models)'
    BY <1>1, <1>5 DEF refVars, MetKept
  <2>2. QED
    BY <1>3, <1>5, <2>1 DEF refVars, MapInv
<1>6. ASSUME OpenAssets
      PROVE  MapInv'
  BY <1>5, <1>6 DEF OpenAssets
<1>7. ASSUME ChooseFiles
      PROVE  MapInv'
  <2>1. PICK files : batches' = batches \cup {[left |-> files, gone |-> Nowhere, base |-> refModel]}
    BY <1>7 DEF ChooseFiles
  <2>2. UNCHANGED refVars
    BY <1>7 DEF ChooseFiles
  <2>3. QED
    BY <1>5, <2>1, <2>2
<1>8. ASSUME NEW a, DeleteAsset(a)
      PROVE  MapInv'
  <2>1. /\ batches' = batches \cup {[left |-> <<>>, gone |-> a, base |-> refModel]}
        /\ UNCHANGED refVars
    BY <1>8 DEF DeleteAsset
  <2>2. QED
    BY <1>5, <2>1
<1>9. ASSUME NEW a, InsertImage(a)
      PROVE  MapInv'
  <2>1. PICK new, s :
          /\ s = IF place.screen \in Range(m.tabs) THEN place.screen ELSE m.tabs[1]
          /\ CommitRefs([m EXCEPT !.comps = [c \in DOMAIN @ \cup {new} |->
               IF c = new THEN [screen |-> s, type |-> "image", odd |-> {}, machine |-> <<>>, props |-> [src |-> a]]
               ELSE @[c]]])
          /\ Elsewhere
    BY <1>2, <1>9 DEF InsertImage
  <2>2. PICK image : image = [screen |-> s, type |-> "image", odd |-> {}, machine |-> <<>>, props |-> [src |-> a]]
    OBVIOUS
  <2>3. PICK comps : comps = [c \in DOMAIN m.comps \cup {new} |-> IF c = new THEN image ELSE m.comps[c]]
    OBVIOUS
  <2>4. PICK n : n = [m EXCEPT !.comps = comps]
    OBVIOUS
  <2>5. n.tabs = m.tabs /\ n.comps = comps /\ n.handlers = m.handlers /\ DOMAIN n = DOMAIN m
    BY <1>3, <2>4 DEF Kept
  <2>6. CommitRefs(n)
    BY <1>3, <2>1, <2>2, <2>3, <2>4 DEF Kept
  <2>7. s \in Range(m.tabs)
    <3>1. 1 \in DOMAIN m.tabs
      BY <1>3, EmptySeq, LenProperties DEF Kept
    <3>2. QED
      BY <2>1, <3>1 DEF Range
  <2>8. \A c \in DOMAIN comps : "screen" \in DOMAIN comps[c] /\ comps[c].screen \in Range(m.tabs)
    <3> SUFFICES ASSUME NEW c \in DOMAIN comps
                 PROVE  "screen" \in DOMAIN comps[c] /\ comps[c].screen \in Range(m.tabs)
      OBVIOUS
    <3>1. c \in DOMAIN m.comps \cup {new} /\ comps[c] = IF c = new THEN image ELSE m.comps[c]
      BY <2>3
    <3>2. "screen" \in DOMAIN image /\ image.screen = s
      BY <2>2
    <3>3. QED
      BY <1>3, <2>7, <3>1, <3>2 DEF Kept
  <2>9. Kept(n)
    BY <1>3, <2>5, <2>8 DEF Kept
  <2>10. QED
    BY <1>4, <2>1, <2>6, <2>9
<1>10. ASSUME NEW a, UseInSelected(a)
       PROVE  MapInv'
  <2>1. PICK c, props : c \in DOMAIN m.comps /\ CommitRefs([m EXCEPT !.comps[c].props = props]) /\ Elsewhere
    BY <1>2, <1>10 DEF UseInSelected, Ids
  <2>2. PICK r : r = [m.comps[c] EXCEPT !.props = props]
    OBVIOUS
  <2>3. "screen" \in DOMAIN r /\ r.screen = m.comps[c].screen
    <3>1. PICK o : o = m.comps[c]
      OBVIOUS
    <3>2. "screen" \in DOMAIN o
      BY <1>3, <2>1, <3>1 DEF Kept
    <3>3. r = [o EXCEPT !.props = props]
      BY <2>2, <3>1
    <3>4. QED
      BY <3>1, <3>2, <3>3
  <2>4. PICK comps : comps = [m.comps EXCEPT ![c] = r]
    OBVIOUS
  <2>5. PICK n : n = [m EXCEPT !.comps = comps]
    OBVIOUS
  <2>6. n.tabs = m.tabs /\ n.comps = comps /\ n.handlers = m.handlers /\ DOMAIN n = DOMAIN m
    BY <1>3, <2>5 DEF Kept
  <2>7. CommitRefs(n)
    BY <1>3, <2>1, <2>2, <2>4, <2>5 DEF Kept
  <2>8. \A d \in DOMAIN comps : "screen" \in DOMAIN comps[d] /\ comps[d].screen \in Range(m.tabs)
    BY <1>3, <2>3, <2>4 DEF Kept
  <2>9. Kept(n)
    BY <1>3, <2>6, <2>8 DEF Kept
  <2>10. QED
    BY <1>4, <2>1, <2>7, <2>9
<1>11. QED
  BY <1>6, <1>7, <1>8, <1>9, <1>10 DEF AssetButtons

\* So do the answers: each commits the project of its request.
LEMMA AnswersKeepMap ==
  ASSUME MapInv, NEW b \in batches, Uploaded(b) \/ Deleted(b) \/ RequestFails(b)
  PROVE  MapInv'
<1>1. PICK models : MetKept(models)
  BY DEF MapInv
<1>2. "base" \in DOMAIN b /\ Kept(b.base)
  BY DEF MapInv
<1>3. ASSUME \A c \in batches' : "base" \in DOMAIN c /\ Kept(c.base),
             \/ UNCHANGED refVars
             \/ \E assets : CommitRefs([b.base EXCEPT !.assets = assets])
      PROVE  MapInv'
  <2>1. ASSUME UNCHANGED refVars
        PROVE  MapInv'
    <3>1. MetKept(models)'
      BY <1>1, <2>1 DEF refVars, MetKept
    <3>2. QED
      BY <1>3, <3>1 DEF MapInv
  <2>2. ASSUME NEW assets, CommitRefs([b.base EXCEPT !.assets = assets])
        PROVE  MapInv'
    <3>1. PICK o : o = b.base
      OBVIOUS
    <3>2. PICK m : m = [o EXCEPT !.assets = assets]
      OBVIOUS
    <3>3. m.tabs = o.tabs /\ m.comps = o.comps /\ m.handlers = o.handlers /\ DOMAIN m = DOMAIN o
      BY <1>2, <3>1, <3>2 DEF Kept
    <3>4. Kept(m)
      BY <1>2, <3>1, <3>3 DEF Kept
    <3>5. refModel' = m /\ refPast' = Append(refPast, refModel)
      BY <2>2, <3>1, <3>2 DEF CommitRefs
    <3>6. PICK later : later = models \cup {m}
      OBVIOUS
    <3>7. refPast \in Seq(later) /\ refModel \in later
      BY <1>1, <3>6 DEF MetKept
    <3>8. refPast' \in Seq(later)
      BY <3>5, <3>7, AppendProperties
    <3>9. MetKept(later)'
      BY <1>1, <3>4, <3>5, <3>6, <3>8 DEF MetKept
    <3>10. QED
      BY <1>3, <3>9 DEF MapInv
  <2>3. QED
    BY <1>3, <2>1, <2>2
<1>4. ASSUME Uploaded(b)
      PROVE  MapInv'
  <2>1. PICK rest : rest = [b EXCEPT !.left = Tail(@)]
    OBVIOUS
  <2>2. "base" \in DOMAIN rest /\ rest.base = b.base
    BY <1>2, <2>1
  <2>3. batches' \subseteq batches \cup {rest}
    BY <1>4, <2>1 DEF Uploaded
  <2>4. \/ UNCHANGED refVars
        \/ \E assets : CommitRefs([b.base EXCEPT !.assets = assets])
    BY <1>4 DEF Uploaded
  <2>5. \A c \in batches' : "base" \in DOMAIN c /\ Kept(c.base)
    BY <1>2, <2>2, <2>3 DEF MapInv
  <2>6. QED
    BY <1>3, <2>4, <2>5
<1>5. ASSUME Deleted(b)
      PROVE  MapInv'
  <2>1. \/ UNCHANGED refVars
        \/ \E assets : CommitRefs([b.base EXCEPT !.assets = assets])
    BY <1>5 DEF Deleted
  <2>2. \A c \in batches' : "base" \in DOMAIN c /\ Kept(c.base)
    BY <1>5 DEF Deleted, MapInv
  <2>3. QED
    BY <1>3, <2>1, <2>2
<1>6. ASSUME RequestFails(b)
      PROVE  MapInv'
  <2>1. UNCHANGED refVars
    BY <1>6 DEF RequestFails
  <2>2. \A c \in batches' : "base" \in DOMAIN c /\ Kept(c.base)
    BY <1>6 DEF RequestFails, MapInv
  <2>3. QED
    BY <1>3, <2>1, <2>2
<1>7. QED
  BY <1>4, <1>5, <1>6

\* Which nodes the model has.
LEMMA NodesOfTheModel ==
  ASSUME NEW m
  PROVE  /\ \A s : GraphNode("screen", s) \in ModelNodes(m) <=> s \in Range(m.tabs)
         /\ \A v : GraphNode("variable", v) \in ModelNodes(m) <=> v \in m.vars
         /\ \A a : GraphNode("asset", a) \in ModelNodes(m) <=> a \in m.assets
         /\ \A s, c : ComponentNode(s, c) \in ModelNodes(m) <=> c \in Ids(m) /\ m.comps[c].screen = s
  BY DEF GraphNode, ComponentNode, ModelNodes

\* Warnings about components are warnings of their kind.
LEMMA ComponentWarnings ==
  \A kind, s, cs : \A i \in OfComponent(kind, s, cs) : i.severity = "warning" /\ i.kind = kind
  BY DEF OfComponent, Issue

\* Values out of range are warnings of one of the kinds looked for.
LEMMA OddWarnings ==
  ASSUME NEW m, NEW s, NEW types, NEW keys, NEW i \in OddValues(m, s, types, keys)
  PROVE  i.severity = "warning" /\ i.kind \in keys
<1>1. PICK key \in keys : \E c : i = Issue("warning", key, s, c, Nowhere)
  BY DEF OddValues, OfComponent
<1>2. QED
  BY <1>1 DEF Issue

\* The sections that report neither an error nor a missing asset.
Quiet(issues) == \A i \in issues : i.severity # "error" /\ i.kind # "asset"

\* What they are put together from.
LEMMA QuietParts ==
  /\ \A A, B : Quiet(A) /\ Quiet(B) => Quiet(A \cup B)
  /\ Quiet({})
  /\ \A kind, s, cs : kind # "asset" => Quiet(OfComponent(kind, s, cs))
  /\ \A severity, kind, s, at, h : severity # "error" /\ kind # "asset" => Quiet({Issue(severity, kind, s, at, h)})
  /\ \A m, s, types, keys : "asset" \notin keys => Quiet(OddValues(m, s, types, keys))
<1>1. \A kind, s, cs : kind # "asset" => Quiet(OfComponent(kind, s, cs))
  BY ComponentWarnings DEF Quiet
<1>2. \A severity, kind, s, at, h : severity # "error" /\ kind # "asset" => Quiet({Issue(severity, kind, s, at, h)})
  BY DEF Quiet, Issue
<1>3. \A m, s, types, keys : "asset" \notin keys => Quiet(OddValues(m, s, types, keys))
  BY OddWarnings DEF Quiet
<1>4. QED
  BY <1>1, <1>2, <1>3 DEF Quiet

\* None of these sections does.
LEMMA QuietSections ==
  ASSUME NEW m, NEW s
  PROVE  /\ Quiet(EmptyScreen(m, s)) /\ Quiet(ActionIssues(m, s)) /\ Quiet(SceneIssues3D(m, s))
         /\ Quiet(LightIssues(m, s)) /\ Quiet(EmitterIssues(m, s)) /\ Quiet(BodyIssues(m, s))
         /\ Quiet(AnimatorIssues(m, s))
<1>1. Quiet(EmptyScreen(m, s))
  BY QuietParts DEF EmptyScreen
<1>2. Quiet(ActionIssues(m, s))
  <2> SUFFICES ASSUME NEW i \in ActionIssues(m, s)
               PROVE  i.severity # "error" /\ i.kind # "asset"
    BY DEF Quiet
  <2>1. \/ i = Issue("warning", "missing-action", s, Nowhere, Nowhere)
        \/ \E a : i = Issue("warning", "unbound", s, a, Nowhere)
        \/ \E k : i = Issue("info", "shared-key", s, k, Nowhere)
    BY DEF ActionIssues
  <2>2. QED
    BY <2>1 DEF Issue
<1>3. Quiet(LightIssues(m, s)) /\ Quiet(EmitterIssues(m, s))
  BY QuietParts DEF LightIssues, EmitterIssues
<1>4. Quiet(BodyIssues(m, s))
  BY ComponentWarnings DEF Quiet, BodyIssues
<1>5. Quiet(AnimatorIssues(m, s))
  BY QuietParts DEF AnimatorIssues
<1>6. Quiet(HierarchyIssues(m, s))
  BY QuietParts DEF HierarchyIssues
<1>7. Quiet(CameraIssues3D(m, s))
  BY QuietParts DEF CameraIssues3D
<1>8. Quiet(LightIssues3D(m, s))
  BY QuietParts DEF LightIssues3D
<1>9. Quiet(ControllerIssues(m, s))
  BY ComponentWarnings DEF Quiet, ControllerIssues, Issue
<1>10. Quiet(SceneIssues3D(m, s))
  BY <1>6, <1>7, <1>8, <1>9, QuietParts DEF SceneIssues3D
<1>11. QED
  BY <1>1, <1>2, <1>3, <1>4, <1>5, <1>10

\* What an error reported on a screen says, and a missing asset.
Reported(m, s, i) ==
  /\ i.severity = "error" =>
       \/ i.kind = "target"
       \/ /\ i.kind = "deleted-component"
          /\ \E h \in HandlersOf(m, s) :
               h.on \notin OnScreen(m, s) \cup {"screen"} /\ i.at = h.on /\ i.handler = h.id
       \/ \E h \in HandlersOf(m, s) : \E b \in h.blocks :
            DeadBlock(m, s, b) /\ i.kind = b.type /\ i.at = b.to /\ i.handler = h.id
  /\ i.kind = "asset" =>
       \E c \in OfKind(m, s, {"image"}) : Prop(m, c, "src") \notin m.assets \cup {Nowhere} /\ i.at = c
LEMMA WhatIsReported ==
  ASSUME NEW m, NEW s, NEW i \in ScreenIssues(m, s)
  PROVE  Reported(m, s, i)
<1>1. CASE i \in UNION {EmptyScreen(m, s), ActionIssues(m, s), SceneIssues3D(m, s), LightIssues(m, s),
                        EmitterIssues(m, s), BodyIssues(m, s), AnimatorIssues(m, s)}
  BY <1>1, QuietSections DEF Quiet, Reported
<1>2. CASE i \in AssetIssues(m, s)
  BY <1>2 DEF AssetIssues, OfComponent, Issue, Reported
<1>3. CASE i \in CameraIssues(m, s)
  BY <1>3, ComponentWarnings DEF CameraIssues, Issue, Reported
<1>4. CASE i \in HandlerIssues(m, s)
  BY <1>4 DEF HandlerIssues, Issue, Reported
<1>5. CASE i \in BlockIssues(m, s)
  <2>1. PICK h \in HandlersOf(m, s) :
          \/ \E b \in h.blocks : DeadBlock(m, s, b) /\ i = Issue("error", b.type, s, b.to, h.id)
          \/ \E b \in h.blocks : b.type = "extension" /\ i = Issue("info", b.type, s, b.to, h.id)
    BY <1>5 DEF BlockIssues
  <2>2. ASSUME NEW b \in h.blocks, DeadBlock(m, s, b), i = Issue("error", b.type, s, b.to, h.id)
        PROVE  Reported(m, s, i)
    <3>1. i.severity = "error" /\ i.kind = b.type /\ i.at = b.to /\ i.handler = h.id
      BY <2>2 DEF Issue
    <3>2. b.type # "asset"
      BY <2>2 DEF DeadBlock, Property, Variable
    <3>3. QED
      BY <2>2, <3>1, <3>2 DEF Reported
  <2>3. ASSUME NEW b \in h.blocks, b.type = "extension", i = Issue("info", b.type, s, b.to, h.id)
        PROVE  Reported(m, s, i)
    BY <2>3 DEF Issue, Reported
  <2>4. QED
    BY <2>1, <2>2, <2>3
<1>6. QED
  BY <1>1, <1>2, <1>3, <1>4, <1>5 DEF ScreenIssues

\* A block that refers to nothing is reported, and a handler of nothing.
LEMMA DeadIsReported ==
  ASSUME NEW m, Kept(m), NEW h \in m.handlers
  PROVE  /\ \A b \in h.blocks : DeadBlock(m, h.screen, b) =>
              Issue("error", b.type, h.screen, b.to, h.id) \in Diagnostics(m)
         /\ h.on \notin OnScreen(m, h.screen) \cup {"screen"} =>
              Issue("error", "deleted-component", h.screen, h.on, h.id) \in Diagnostics(m)
<1>1. h.screen \in Range(m.tabs) /\ h \in HandlersOf(m, h.screen)
  BY DEF Kept, HandlersOf
<1>2. ASSUME NEW b \in h.blocks, DeadBlock(m, h.screen, b)
      PROVE  Issue("error", b.type, h.screen, b.to, h.id) \in Diagnostics(m)
  <2>1. Issue("error", b.type, h.screen, b.to, h.id) \in BlockIssues(m, h.screen)
    BY <1>1, <1>2 DEF BlockIssues
  <2>2. QED
    BY <1>1, <2>1 DEF ScreenIssues, Diagnostics
<1>3. ASSUME h.on \notin OnScreen(m, h.screen) \cup {"screen"}
      PROVE  Issue("error", "deleted-component", h.screen, h.on, h.id) \in Diagnostics(m)
  <2>1. Issue("error", "deleted-component", h.screen, h.on, h.id) \in HandlerIssues(m, h.screen)
    BY <1>1, <1>3 DEF HandlerIssues
  <2>2. QED
    BY <1>1, <2>1 DEF ScreenIssues, Diagnostics
<1>4. QED
  BY <1>2, <1>3

\* What the map draws to nothing, edge by edge.
LEMMA LostEdges ==
  ASSUME NEW m
  PROVE  LET lost == {e \in Edges(m) : e[2] \notin ModelNodes(m)}
             Drawn(kind) == {<<e[1][2], e[2][2]>> : e \in {x \in lost : x[3] = kind}}
         IN /\ Drawn("navigates") =
                 UNION {{<<h.id, b.to>> : b \in {x \in h.blocks : x.type = "navigate" /\ x.to \notin Range(m.tabs) \cup {Nowhere}}} : h \in m.handlers}
            /\ Drawn("data") =
                 UNION {{<<h.id, b.to>> : b \in {x \in h.blocks : x.type \in Variable /\ x.to \notin m.vars \cup {Nowhere}}} : h \in m.handlers}
            /\ Drawn("wires") =
                 {<<h.id, <<h.screen, h.on>>>> : h \in {g \in m.handlers : g.on \notin OnScreen(m, g.screen) \cup {"screen"}}}
            /\ Drawn("uses-asset") =
                 {<<<<m.comps[c].screen, c>>, Prop(m, c, "src")>> : c \in {d \in Ids(m) : Prop(m, d, "src") \notin m.assets \cup {Nowhere}}}
<1> DEFINE lost == {e \in Edges(m) : e[2] \notin ModelNodes(m)}
           Drawn(kind) == {<<e[1][2], e[2][2]>> : e \in {x \in lost : x[3] = kind}}
<1>1. Drawn("navigates") =
        UNION {{<<h.id, b.to>> : b \in {x \in h.blocks : x.type = "navigate" /\ x.to \notin Range(m.tabs) \cup {Nowhere}}} : h \in m.handlers}
  <2>1. ASSUME NEW e \in lost, e[3] = "navigates"
        PROVE  \E h \in m.handlers : \E b \in h.blocks :
                 b.type = "navigate" /\ b.to \notin Range(m.tabs) \cup {Nowhere} /\ <<e[1][2], e[2][2]>> = <<h.id, b.to>>
    <3>1. PICK h \in m.handlers : \E b \in h.blocks :
            b.type = "navigate" /\ b.to # Nowhere
            /\ e = <<GraphNode("handler", h.id), GraphNode("screen", b.to), "navigates">>
      BY <2>1 DEF Edges
    <3>2. PICK b \in h.blocks :
            b.type = "navigate" /\ b.to # Nowhere
            /\ e = <<GraphNode("handler", h.id), GraphNode("screen", b.to), "navigates">>
      BY <3>1
    <3>3. e[2] = GraphNode("screen", b.to) /\ e[1][2] = h.id /\ e[2][2] = b.to
      BY <3>2 DEF GraphNode
    <3>4. b.to \notin Range(m.tabs)
      BY <2>1, <3>3, NodesOfTheModel
    <3>5. QED
      BY <3>2, <3>3, <3>4
  <2>2. ASSUME NEW h \in m.handlers, NEW b \in h.blocks, b.type = "navigate", b.to \notin Range(m.tabs) \cup {Nowhere}
        PROVE  <<h.id, b.to>> \in Drawn("navigates")
    <3>1. PICK e : e = <<GraphNode("handler", h.id), GraphNode("screen", b.to), "navigates">>
      OBVIOUS
    <3>2. e \in Edges(m)
      BY <2>2, <3>1 DEF Edges
    <3>3. e[2] = GraphNode("screen", b.to) /\ e[1][2] = h.id /\ e[2][2] = b.to /\ e[3] = "navigates"
      BY <3>1 DEF GraphNode
    <3>4. e[2] \notin ModelNodes(m)
      BY <2>2, <3>3, NodesOfTheModel
    <3>5. QED
      BY <3>2, <3>3, <3>4
  <2>3. QED
    BY <2>1, <2>2
<1>2. Drawn("data") =
        UNION {{<<h.id, b.to>> : b \in {x \in h.blocks : x.type \in Variable /\ x.to \notin m.vars \cup {Nowhere}}} : h \in m.handlers}
  <2>1. ASSUME NEW e \in lost, e[3] = "data"
        PROVE  \E h \in m.handlers : \E b \in h.blocks :
                 b.type \in Variable /\ b.to \notin m.vars \cup {Nowhere} /\ <<e[1][2], e[2][2]>> = <<h.id, b.to>>
    <3>1. PICK h \in m.handlers : \E b \in h.blocks :
            b.type \in Variable /\ b.to # Nowhere
            /\ e = <<GraphNode("handler", h.id), GraphNode("variable", b.to), "data">>
      BY <2>1 DEF Edges
    <3>2. PICK b \in h.blocks :
            b.type \in Variable /\ b.to # Nowhere
            /\ e = <<GraphNode("handler", h.id), GraphNode("variable", b.to), "data">>
      BY <3>1
    <3>3. e[2] = GraphNode("variable", b.to) /\ e[1][2] = h.id /\ e[2][2] = b.to
      BY <3>2 DEF GraphNode
    <3>4. b.to \notin m.vars
      BY <2>1, <3>3, NodesOfTheModel
    <3>5. QED
      BY <3>2, <3>3, <3>4
  <2>2. ASSUME NEW h \in m.handlers, NEW b \in h.blocks, b.type \in Variable, b.to \notin m.vars \cup {Nowhere}
        PROVE  <<h.id, b.to>> \in Drawn("data")
    <3>1. PICK e : e = <<GraphNode("handler", h.id), GraphNode("variable", b.to), "data">>
      OBVIOUS
    <3>2. e \in Edges(m)
      BY <2>2, <3>1 DEF Edges
    <3>3. e[2] = GraphNode("variable", b.to) /\ e[1][2] = h.id /\ e[2][2] = b.to /\ e[3] = "data"
      BY <3>1 DEF GraphNode
    <3>4. e[2] \notin ModelNodes(m)
      BY <2>2, <3>3, NodesOfTheModel
    <3>5. QED
      BY <3>2, <3>3, <3>4
  <2>3. QED
    BY <2>1, <2>2
<1>3. Drawn("wires") =
        {<<h.id, <<h.screen, h.on>>>> : h \in {g \in m.handlers : g.on \notin OnScreen(m, g.screen) \cup {"screen"}}}
  <2>1. ASSUME NEW e \in lost, e[3] = "wires"
        PROVE  \E h \in m.handlers :
                 h.on \notin OnScreen(m, h.screen) \cup {"screen"} /\ <<e[1][2], e[2][2]>> = <<h.id, <<h.screen, h.on>>>>
    <3>1. PICK h \in m.handlers :
            h.on # "screen" /\ e = <<GraphNode("handler", h.id), ComponentNode(h.screen, h.on), "wires">>
      BY <2>1 DEF Edges
    <3>2. e[2] = ComponentNode(h.screen, h.on) /\ e[1][2] = h.id /\ e[2][2] = <<h.screen, h.on>>
      BY <3>1 DEF GraphNode, ComponentNode
    <3>3. h.on \notin OnScreen(m, h.screen)
      BY <2>1, <3>2, NodesOfTheModel DEF OnScreen
    <3>4. QED
      BY <3>1, <3>2, <3>3
  <2>2. ASSUME NEW h \in m.handlers, h.on \notin OnScreen(m, h.screen) \cup {"screen"}
        PROVE  <<h.id, <<h.screen, h.on>>>> \in Drawn("wires")
    <3>1. PICK e : e = <<GraphNode("handler", h.id), ComponentNode(h.screen, h.on), "wires">>
      OBVIOUS
    <3>2. e \in Edges(m)
      BY <2>2, <3>1 DEF Edges
    <3>3. /\ e[2] = ComponentNode(h.screen, h.on) /\ e[1][2] = h.id
          /\ e[2][2] = <<h.screen, h.on>> /\ e[3] = "wires"
      BY <3>1 DEF GraphNode, ComponentNode
    <3>4. e[2] \notin ModelNodes(m)
      BY <2>2, <3>3, NodesOfTheModel DEF OnScreen
    <3>5. QED
      BY <3>2, <3>3, <3>4
  <2>3. QED
    BY <2>1, <2>2
<1>4. Drawn("uses-asset") =
        {<<<<m.comps[c].screen, c>>, Prop(m, c, "src")>> : c \in {d \in Ids(m) : Prop(m, d, "src") \notin m.assets \cup {Nowhere}}}
  <2>1. ASSUME NEW e \in lost, e[3] = "uses-asset"
        PROVE  \E c \in Ids(m) :
                 /\ Prop(m, c, "src") \notin m.assets \cup {Nowhere}
                 /\ <<e[1][2], e[2][2]>> = <<<<m.comps[c].screen, c>>, Prop(m, c, "src")>>
    <3>1. PICK c \in Ids(m) :
            /\ Prop(m, c, "src") # Nowhere
            /\ e = <<ComponentNode(m.comps[c].screen, c), GraphNode("asset", Prop(m, c, "src")), "uses-asset">>
      BY <2>1 DEF Edges
    <3>2. /\ e[2] = GraphNode("asset", Prop(m, c, "src"))
          /\ e[1][2] = <<m.comps[c].screen, c>> /\ e[2][2] = Prop(m, c, "src")
      BY <3>1 DEF GraphNode, ComponentNode
    <3>3. Prop(m, c, "src") \notin m.assets
      BY <2>1, <3>2, NodesOfTheModel
    <3>4. QED
      BY <3>1, <3>2, <3>3
  <2>2. ASSUME NEW c \in Ids(m), Prop(m, c, "src") \notin m.assets \cup {Nowhere}
        PROVE  <<<<m.comps[c].screen, c>>, Prop(m, c, "src")>> \in Drawn("uses-asset")
    <3>1. PICK e : e = <<ComponentNode(m.comps[c].screen, c), GraphNode("asset", Prop(m, c, "src")), "uses-asset">>
      OBVIOUS
    <3>2. e \in Edges(m)
      BY <2>2, <3>1 DEF Edges
    <3>3. /\ e[2] = GraphNode("asset", Prop(m, c, "src")) /\ e[3] = "uses-asset"
          /\ e[1][2] = <<m.comps[c].screen, c>> /\ e[2][2] = Prop(m, c, "src")
      BY <3>1 DEF GraphNode, ComponentNode
    <3>4. e[2] \notin ModelNodes(m)
      BY <2>2, <3>3, NodesOfTheModel
    <3>5. QED
      BY <3>2, <3>3, <3>4
  <2>3. QED
    BY <2>1, <2>2
<1>5. QED
  BY <1>1, <1>2, <1>3, <1>4

\* A project that keeps its components and handlers on its screens is told
\* the same of by the map and by the diagnostics.
LEMMA KeptAgree ==
  ASSUME Kept(refModel)
  PROVE  MapAndDiagnosticsAgree
<1> DEFINE m == refModel
<1>1. m = refModel
  OBVIOUS
<1> HIDE DEF m
<1> DEFINE issues == Diagnostics(m)
           lost == {e \in Edges(m) : e[2] \notin ModelNodes(m)}
           Drawn(kind) == {<<e[1][2], e[2][2]>> : e \in {x \in lost : x[3] = kind}}
           Named(kinds) == {<<i.handler, i.at>> : i \in {j \in issues : j.kind \in kinds /\ j.severity = "error"}}
<1>2. Kept(m)
  BY <1>1
<1>3. ASSUME NEW i \in issues
      PROVE  \E s \in Range(m.tabs) : Reported(m, s, i)
  BY <1>3, WhatIsReported DEF Diagnostics
<1>4. ASSUME NEW i \in issues, i.severity = "error"
      PROVE  \/ i.kind = "target"
             \/ /\ i.kind = "deleted-component"
                /\ \E h \in m.handlers :
                     h.on \notin OnScreen(m, h.screen) \cup {"screen"} /\ i.at = h.on /\ i.handler = h.id
             \/ \E h \in m.handlers : \E b \in h.blocks :
                  DeadBlock(m, h.screen, b) /\ i.kind = b.type /\ i.at = b.to /\ i.handler = h.id
  <2>1. PICK s \in Range(m.tabs) : Reported(m, s, i)
    BY <1>3, <1>4
  <2>2. \A h \in HandlersOf(m, s) : h \in m.handlers /\ h.screen = s
    BY DEF HandlersOf
  <2>3. QED
    BY <1>4, <2>1, <2>2 DEF Reported
<1>5. \A h \in m.handlers : \A b \in h.blocks :
        DeadBlock(m, h.screen, b) => b.type \notin {"target", "deleted-component"}
  BY DEF DeadBlock, Property, Variable
<1>6. Drawn("navigates") = Named({"navigate"})
  <2>1. ASSUME NEW h \in m.handlers, NEW b \in h.blocks, b.type = "navigate", b.to \notin Range(m.tabs) \cup {Nowhere}
        PROVE  <<h.id, b.to>> \in Named({"navigate"})
    <3>1. PICK i : i = Issue("error", b.type, h.screen, b.to, h.id)
      OBVIOUS
    <3>2. i \in issues
      BY <1>2, <2>1, <3>1, DeadIsReported DEF DeadBlock
    <3>3. i.kind = "navigate" /\ i.severity = "error" /\ i.handler = h.id /\ i.at = b.to
      BY <2>1, <3>1 DEF Issue
    <3>4. QED
      BY <3>2, <3>3
  <2>2. ASSUME NEW i \in issues, i.kind = "navigate", i.severity = "error"
        PROVE  \E h \in m.handlers : \E b \in h.blocks :
                 b.type = "navigate" /\ b.to \notin Range(m.tabs) \cup {Nowhere} /\ <<i.handler, i.at>> = <<h.id, b.to>>
    <3>1. PICK h \in m.handlers : \E b \in h.blocks :
            DeadBlock(m, h.screen, b) /\ i.kind = b.type /\ i.at = b.to /\ i.handler = h.id
      BY <1>4, <2>2
    <3>2. QED
      BY <2>2, <3>1 DEF DeadBlock, Property, Variable
  <2>3. Drawn("navigates") =
          UNION {{<<h.id, b.to>> : b \in {x \in h.blocks : x.type = "navigate" /\ x.to \notin Range(m.tabs) \cup {Nowhere}}} : h \in m.handlers}
    BY LostEdges
  <2> HIDE DEF Drawn, issues, lost
  <2>4. ASSUME NEW p \in Drawn("navigates")
        PROVE  p \in Named({"navigate"})
    <3>1. PICK h \in m.handlers : \E b \in h.blocks :
            b.type = "navigate" /\ b.to \notin Range(m.tabs) \cup {Nowhere} /\ p = <<h.id, b.to>>
      BY <2>3
    <3>2. QED
      BY <2>1, <3>1
  <2>5. ASSUME NEW p \in Named({"navigate"})
        PROVE  p \in Drawn("navigates")
    <3>1. PICK i \in issues : i.kind = "navigate" /\ i.severity = "error" /\ p = <<i.handler, i.at>>
      OBVIOUS
    <3>2. QED
      BY <2>2, <2>3, <3>1
  <2> HIDE DEF Named
  <2>6. QED
    BY <2>4, <2>5
<1>7. Drawn("data") = Named(Variable)
  <2>1. ASSUME NEW h \in m.handlers, NEW b \in h.blocks, b.type \in Variable, b.to \notin m.vars \cup {Nowhere}
        PROVE  <<h.id, b.to>> \in Named(Variable)
    <3>1. PICK i : i = Issue("error", b.type, h.screen, b.to, h.id)
      OBVIOUS
    <3>2. i \in issues
      BY <1>2, <2>1, <3>1, DeadIsReported DEF DeadBlock
    <3>3. i.kind = b.type /\ i.severity = "error" /\ i.handler = h.id /\ i.at = b.to
      BY <3>1 DEF Issue
    <3>4. QED
      BY <2>1, <3>2, <3>3
  <2>2. ASSUME NEW i \in issues, i.kind \in Variable, i.severity = "error"
        PROVE  \E h \in m.handlers : \E b \in h.blocks :
                 b.type \in Variable /\ b.to \notin m.vars \cup {Nowhere} /\ <<i.handler, i.at>> = <<h.id, b.to>>
    <3>1. i.kind \notin {"target", "deleted-component"}
      BY <2>2 DEF Variable
    <3>2. PICK h \in m.handlers : \E b \in h.blocks :
            DeadBlock(m, h.screen, b) /\ i.kind = b.type /\ i.at = b.to /\ i.handler = h.id
      BY <1>4, <2>2, <3>1
    <3>3. QED
      BY <2>2, <3>2 DEF DeadBlock, Property, Variable
  <2>3. Drawn("data") =
          UNION {{<<h.id, b.to>> : b \in {x \in h.blocks : x.type \in Variable /\ x.to \notin m.vars \cup {Nowhere}}} : h \in m.handlers}
    BY LostEdges
  <2> HIDE DEF Drawn, issues, lost
  <2>4. ASSUME NEW p \in Drawn("data")
        PROVE  p \in Named(Variable)
    <3>1. PICK h \in m.handlers : \E b \in h.blocks :
            b.type \in Variable /\ b.to \notin m.vars \cup {Nowhere} /\ p = <<h.id, b.to>>
      BY <2>3
    <3>2. QED
      BY <2>1, <3>1
  <2>5. ASSUME NEW p \in Named(Variable)
        PROVE  p \in Drawn("data")
    <3>1. PICK i \in issues : i.kind \in Variable /\ i.severity = "error" /\ p = <<i.handler, i.at>>
      OBVIOUS
    <3>2. QED
      BY <2>2, <2>3, <3>1
  <2> HIDE DEF Named
  <2>6. QED
    BY <2>4, <2>5
<1>8. {<<p[1], p[2][2]>> : p \in Drawn("wires")} = Named({"deleted-component"})
  <2>1. {<<p[1], p[2][2]>> : p \in Drawn("wires")} =
          {<<h.id, h.on>> : h \in {g \in m.handlers : g.on \notin OnScreen(m, g.screen) \cup {"screen"}}}
    <3>1. Drawn("wires") =
            {<<h.id, <<h.screen, h.on>>>> : h \in {g \in m.handlers : g.on \notin OnScreen(m, g.screen) \cup {"screen"}}}
      BY LostEdges
    <3>2. \A x, y, z : <<x, <<y, z>>>>[1] = x /\ <<x, <<y, z>>>>[2][2] = z
      OBVIOUS
    <3> HIDE DEF lost, Drawn
    <3>3. ASSUME NEW p \in Drawn("wires")
          PROVE  \E h \in m.handlers :
                   h.on \notin OnScreen(m, h.screen) \cup {"screen"} /\ <<p[1], p[2][2]>> = <<h.id, h.on>>
      BY <3>1, <3>2
    <3>4. ASSUME NEW h \in m.handlers, h.on \notin OnScreen(m, h.screen) \cup {"screen"}
          PROVE  \E p \in Drawn("wires") : <<p[1], p[2][2]>> = <<h.id, h.on>>
      <4>1. <<h.id, <<h.screen, h.on>>>> \in Drawn("wires")
        BY <3>1, <3>4
      <4>2. QED
        BY <3>2, <4>1
    <3>5. QED
      BY <3>3, <3>4
  <2>2. ASSUME NEW h \in m.handlers, h.on \notin OnScreen(m, h.screen) \cup {"screen"}
        PROVE  <<h.id, h.on>> \in Named({"deleted-component"})
    <3>1. PICK i : i = Issue("error", "deleted-component", h.screen, h.on, h.id)
      OBVIOUS
    <3>2. i \in issues
      BY <1>2, <2>2, <3>1, DeadIsReported
    <3>3. i.kind = "deleted-component" /\ i.severity = "error" /\ i.handler = h.id /\ i.at = h.on
      BY <3>1 DEF Issue
    <3>4. QED
      BY <3>2, <3>3
  <2>3. ASSUME NEW i \in issues, i.kind = "deleted-component", i.severity = "error"
        PROVE  \E h \in m.handlers :
                 h.on \notin OnScreen(m, h.screen) \cup {"screen"} /\ <<i.handler, i.at>> = <<h.id, h.on>>
    BY <1>4, <1>5, <2>3
  <2>4. ASSUME NEW i \in issues, i.kind = "deleted-component", i.severity = "error"
        PROVE  <<i.handler, i.at>> \in
                 {<<h.id, h.on>> : h \in {g \in m.handlers : g.on \notin OnScreen(m, g.screen) \cup {"screen"}}}
    BY <2>3, <2>4
  <2> HIDE DEF Drawn, issues, lost
  <2>5. QED
    BY <2>1, <2>2, <2>4
<1>9. {i.at : i \in {j \in issues : j.kind = "asset"}} =
        {p[1][2] : p \in {q \in Drawn("uses-asset") : m.comps[q[1][2]].type = "image"}}
  <2>1. {p[1][2] : p \in {q \in Drawn("uses-asset") : m.comps[q[1][2]].type = "image"}} =
          {c \in Ids(m) : Prop(m, c, "src") \notin m.assets \cup {Nowhere} /\ m.comps[c].type = "image"}
    <3>1. Drawn("uses-asset") =
            {<<<<m.comps[c].screen, c>>, Prop(m, c, "src")>> : c \in {d \in Ids(m) : Prop(m, d, "src") \notin m.assets \cup {Nowhere}}}
      BY LostEdges
    <3>2. \A x, y, z : <<<<x, y>>, z>>[1][2] = y
      OBVIOUS
    <3> HIDE DEF lost, Drawn
    <3>3. ASSUME NEW p \in Drawn("uses-asset"), m.comps[p[1][2]].type = "image"
          PROVE  /\ p[1][2] \in Ids(m)
                 /\ Prop(m, p[1][2], "src") \notin m.assets \cup {Nowhere} /\ m.comps[p[1][2]].type = "image"
      BY <3>1, <3>2, <3>3
    <3>4. ASSUME NEW c \in Ids(m), Prop(m, c, "src") \notin m.assets \cup {Nowhere}, m.comps[c].type = "image"
          PROVE  \E p \in Drawn("uses-asset") : m.comps[p[1][2]].type = "image" /\ p[1][2] = c
      <4>1. <<<<m.comps[c].screen, c>>, Prop(m, c, "src")>> \in Drawn("uses-asset")
        BY <3>1, <3>4
      <4>2. QED
        BY <3>2, <3>4, <4>1
    <3>5. QED
      BY <3>3, <3>4
  <2>2. ASSUME NEW c \in Ids(m), Prop(m, c, "src") \notin m.assets \cup {Nowhere}, m.comps[c].type = "image"
        PROVE  \E i \in issues : i.kind = "asset" /\ i.at = c
    <3>1. PICK s : s = m.comps[c].screen
      OBVIOUS
    <3>2. s \in Range(m.tabs) /\ c \in OfKind(m, s, {"image"})
      BY <1>2, <2>2, <3>1 DEF Kept, OfKind, OnScreen, Ids
    <3>3. PICK i : i = Issue("warning", "asset", s, c, Nowhere)
      OBVIOUS
    <3>4. i \in AssetIssues(m, s)
      BY <2>2, <3>2, <3>3 DEF AssetIssues, OfComponent
    <3>5. i \in issues
      BY <3>2, <3>4 DEF ScreenIssues, Diagnostics
    <3>6. QED
      BY <3>3, <3>5 DEF Issue
  <2>3. ASSUME NEW i \in issues, i.kind = "asset"
        PROVE  i.at \in Ids(m) /\ Prop(m, i.at, "src") \notin m.assets \cup {Nowhere} /\ m.comps[i.at].type = "image"
    <3>1. PICK s : \E c \in OfKind(m, s, {"image"}) :
            Prop(m, c, "src") \notin m.assets \cup {Nowhere} /\ i.at = c
      BY <1>3, <2>3 DEF Reported
    <3>2. QED
      BY <3>1 DEF OfKind, OnScreen
  <2> HIDE DEF Drawn, issues, lost
  <2>4. {i.at : i \in {j \in issues : j.kind = "asset"}} =
          {c \in Ids(m) : Prop(m, c, "src") \notin m.assets \cup {Nowhere} /\ m.comps[c].type = "image"}
    BY <2>2, <2>3
  <2>5. QED
    BY <2>1, <2>4
<1>10. QED
  BY <1>6, <1>7, <1>8, <1>9 DEF MapAndDiagnosticsAgree, m

\* For any projects, edits, undos and requests under way: what the map draws
\* to nothing and what the diagnostics report are the same.
THEOREM MapAgrees == InsightsSpec => []MapAndDiagnosticsAgree
<1>1. InsightsInit => MapInv
  <2> SUFFICES ASSUME InsightsInit PROVE MapInv
    OBVIOUS
  <2>1. refModel \in RefProjects /\ refPast = <<>> /\ batches = {}
    BY DEF InsightsInit
  <2>2. \A m \in RefProjects : Kept(m)
    BY RefProjectsAssumption DEF Kept
  <2>3. MetKept(RefProjects)
    BY <2>1, <2>2 DEF MetKept
  <2>4. QED
    BY <2>1, <2>3 DEF MapInv
<1>2. MapInv /\ [InsightsNext]_insightVars => MapInv'
  <2> SUFFICES ASSUME MapInv, [InsightsNext]_insightVars PROVE MapInv'
    OBVIOUS
  <2>1. CASE RefEdits
    BY <2>1, EditKeepsMap
  <2>2. CASE AssetButtons
    BY <2>2, ButtonsKeepMap
  <2>3. ASSUME NEW b \in batches, Uploaded(b) \/ Deleted(b) \/ RequestFails(b)
        PROVE  MapInv'
    BY <2>3, AnswersKeepMap
  <2>4. CASE DiagnosticsPanel \/ InsightsMode \/ ProjectMap \/ UNCHANGED insightVars
    <3>1. UNCHANGED <<refModel, refPast, batches>>
      BY <2>4 DEF DiagnosticsPanel, InsightsMode, ProjectMap, ToggleDrawer, OpenIssue, FixWithAI,
           OpenInsights, ChooseTab, ReportArrives, OpenReported, PickNode, FollowEdge, Reading,
           insightVars, refVars, assetVars
    <3>2. PICK models : MetKept(models)
      BY DEF MapInv
    <3>3. MetKept(models)'
      BY <3>1, <3>2 DEF MetKept
    <3>4. QED
      BY <3>1, <3>3 DEF MapInv
  <2>5. QED
    BY <2>1, <2>2, <2>3, <2>4 DEF InsightsNext
<1>3. MapInv => MapAndDiagnosticsAgree
  <2> SUFFICES ASSUME MapInv PROVE MapAndDiagnosticsAgree
    OBVIOUS
  <2>1. Kept(refModel)
    BY DEF MapInv, MetKept
  <2>2. QED
    BY <2>1, KeptAgree
<1>4. QED
  BY <1>1, <1>2, <1>3, PTL DEF InsightsSpec

-----------------------------------------------------------------------------
(* The checkout of credits in the browser (CreditCheckout).               *)

Phase == {"idle", "unavailable", "checkout", "processing", "success", "failed", "cancelled"}
Poll == [purchase : PurchaseIds \cup {NoPurchase}, tick : Nat, alive : BOOLEAN, elapsed : Nat]

\* What the modal, the panel and the server's purchases may hold.
CheckoutTypes ==
  /\ checkoutPage \in {"builder", "provider"}
  /\ provider \in BOOLEAN
  /\ bought \in [PurchaseIds -> {"none", "pending"} \cup Settled]
  /\ modalOpen \in BOOLEAN
  /\ phase \in Phase
  /\ packages \in {"none", "loading", "ready", "failed"}
  /\ chosenPack \in BOOLEAN
  /\ pending \in PurchaseIds \cup {NoPurchase}
  /\ interval \in Nat
  /\ polls \subseteq Poll
  /\ creating \in BOOLEAN
  /\ turn \in {"none", "asking", "proposed", "applied", "failed", "cancelled"}
  /\ blocked \in BOOLEAN

\* The modal waits for the purchase it was opened for.
Waiting == modalOpen /\ phase = "processing" /\ pending # NoPurchase

\* Only a waiting modal polls, and a poll still listened to asks for the
\* purchase waited for; a checkout starts where nothing is waited for; a
\* success is the server's; and a page that is left asks for nothing.
CheckoutInv ==
  /\ interval > 0 => Waiting
  /\ \A q \in polls : q.alive => Waiting /\ q.purchase = pending
  /\ creating => interval = 0 /\ checkoutPage = "builder"
  /\ phase = "processing" => Waiting /\ ~creating
  /\ phase = "success" => modalOpen /\ pending # NoPurchase /\ bought[pending] = "succeeded"
  /\ checkoutPage = "provider" =>
       ~modalOpen /\ phase = "idle" /\ ~creating /\ polls = {} /\ packages = "none" /\ turn = "none"

-----------------------------------------------------------------------------
(* Types *)

\* A page opens well typed (credit-purchase-modal.tsx, the modal's state).
LEMMA InitTypes == CheckoutInit => CheckoutTypes
<1> SUFFICES ASSUME CheckoutInit PROVE CheckoutTypes
  OBVIOUS
<1>1. bought \in [PurchaseIds -> {"none", "pending"} \cup Settled]
  BY DEF CheckoutInit
<1>2. polls \subseteq Poll /\ pending \in PurchaseIds \cup {NoPurchase}
  BY DEF CheckoutInit, FreshPage
<1> QED
  BY <1>1, <1>2 DEF CheckoutInit, FreshPage, CheckoutTypes, Phase

\* A poll whose effect is torn down is no longer listened to.
LEMMA DroppedTypes ==
  ASSUME CheckoutTypes, NEW q \in polls
  PROVE  Dropped(q) \in Poll /\ ~Dropped(q).alive
<1>1. PICK n : n = Elapsed(q)
  OBVIOUS
<1>2. q \in Poll /\ n \in Nat
  BY <1>1 DEF CheckoutTypes, Poll, Elapsed
<1>3. Dropped(q) = [q EXCEPT !.alive = FALSE, !.elapsed = n]
  BY <1>1 DEF Dropped
<1> QED
  BY <1>2, <1>3 DEF Poll

\* Tearing the poll effect down keeps the polls' types.
LEMMA StopTypes ==
  ASSUME CheckoutTypes, StopEffect
  PROVE  interval' = 0 /\ polls' \subseteq Poll /\ \A q \in polls' : ~q.alive
<1>1. \A q \in polls : Dropped(q) \in Poll /\ ~Dropped(q).alive
  BY DroppedTypes
<1> QED
  BY <1>1 DEF StopEffect

\* Leaving the wait for another phase keeps the polls' types.
LEMMA LeaveTypes ==
  ASSUME CheckoutTypes, NEW q \in polls, NEW next \in Phase, LeaveProcessing(q, next)
  PROVE  /\ phase' = next /\ interval' = 0 /\ polls' \subseteq Poll
         /\ \A r \in polls' : ~r.alive
<1>1. \A r \in polls : Dropped(r) \in Poll /\ ~Dropped(r).alive
  BY DroppedTypes
<1> QED
  BY <1>1 DEF LeaveProcessing

\* An opening polls the purchase it resumes, if there is one.
LEMMA OpenTypes ==
  ASSUME CheckoutTypes, NEW p \in PurchaseIds \cup {NoPurchase}, Open(p)
  PROVE  /\ modalOpen' = TRUE /\ packages' = "loading" /\ chosenPack' = chosenPack
         /\ phase' \in Phase /\ pending' \in PurchaseIds \cup {NoPurchase}
         /\ interval' \in Nat /\ polls' \subseteq Poll
<1>1. CASE p = NoPurchase
  BY <1>1 DEF Open, CheckoutTypes
<1>2. CASE p # NoPurchase
  <2>1. [purchase |-> p, tick |-> 1, alive |-> TRUE, elapsed |-> 0] \in Poll
    BY DEF Poll
  <2>2. polls' = {[purchase |-> p, tick |-> 1, alive |-> TRUE, elapsed |-> 0]} /\ interval' = 1
    BY <1>2 DEF Open
  <2>3. polls' \subseteq Poll
    BY <2>1, <2>2
  <2> QED
    BY <1>2, <2>2, <2>3 DEF Open, Phase
<1> QED
  BY <1>1, <1>2

\* What an answered or failed poll leaves is well typed.
LEMMA PolledTypes ==
  ASSUME CheckoutTypes, NEW q \in polls, NEW next \in Phase,
         \/ polls' = polls \ {q} /\ UNCHANGED <<phase, interval>>
         \/ LeaveProcessing(q, next)
  PROVE  phase' \in Phase /\ interval' \in Nat /\ polls' \subseteq Poll
<1>1. CASE polls' = polls \ {q} /\ UNCHANGED <<phase, interval>>
  BY <1>1 DEF CheckoutTypes
<1>2. CASE LeaveProcessing(q, next)
  BY <1>2, LeaveTypes
<1> QED
  BY <1>1, <1>2

\* Every step keeps the types.
LEMMA NextTypes == CheckoutTypes /\ [CheckoutNext]_checkoutVars => CheckoutTypes'
<1> SUFFICES ASSUME CheckoutTypes, [CheckoutNext]_checkoutVars PROVE CheckoutTypes'
  OBVIOUS
<1> USE DEF modalVars, pollVars, aiVars
<1>1. CASE OpenFromTopBar
  BY <1>1, OpenTypes DEF OpenFromTopBar, CheckoutTypes
<1>2. CASE PackagesAnswer
  <2>1. interval' \in Nat /\ polls' \subseteq Poll
    BY <1>2, StopTypes DEF PackagesAnswer, CheckoutTypes
  <2> QED
    BY <1>2, <2>1 DEF PackagesAnswer, CheckoutTypes, Phase
<1>3. CASE PackagesFail \/ SelectPack
  BY <1>3 DEF PackagesFail, SelectPack, CheckoutTypes
<1>15. CASE StartCheckout \/ CheckoutFails
  BY <1>15 DEF StartCheckout, CheckoutFails, CheckoutTypes, Phase
<1>14. CASE RetryFromPacks
  BY <1>14 DEF RetryFromPacks, CheckoutTypes, Phase
<1>4. CASE PollAnswers
  <2>1. PICK q \in polls, next \in Phase :
          \/ polls' = polls \ {q} /\ UNCHANGED <<phase, interval>>
          \/ LeaveProcessing(q, next)
    BY <1>4 DEF PollAnswers, Phase
  <2>2. phase' \in Phase /\ interval' \in Nat /\ polls' \subseteq Poll
    BY <2>1, PolledTypes
  <2> QED
    BY <1>4, <2>2 DEF PollAnswers, CheckoutTypes
<1>5. CASE PollFails
  <2>1. PICK q \in polls, next \in Phase :
          \/ polls' = polls \ {q} /\ UNCHANGED <<phase, interval>>
          \/ LeaveProcessing(q, next)
    BY <1>5 DEF PollFails, Phase
  <2>2. phase' \in Phase /\ interval' \in Nat /\ polls' \subseteq Poll
    BY <2>1, PolledTypes
  <2> QED
    BY <1>5, <2>2 DEF PollFails, CheckoutTypes
<1>6. CASE CloseModal \/ ContinueWithAI
  <2>1. StopEffect
    BY <1>6 DEF CloseModal, ContinueWithAI, Close
  <2>2. interval' \in Nat /\ polls' \subseteq Poll
    BY <2>1, StopTypes
  <2> QED
    BY <1>6, <2>2 DEF CloseModal, ContinueWithAI, Close, CheckoutTypes, Phase
<1>7. CASE PollTick
  <2>1. interval + 1 \in Nat
    BY DEF CheckoutTypes
  <2>2. [purchase |-> pending, tick |-> interval + 1, alive |-> TRUE, elapsed |-> 0] \in Poll
    BY <2>1 DEF CheckoutTypes, Poll
  <2> QED
    BY <1>7, <2>1, <2>2 DEF PollTick, CheckoutTypes
<1>8. CASE GoToProvider
  <2>1. bought' \in [PurchaseIds -> {"none", "pending"} \cup Settled]
    BY <1>8 DEF GoToProvider, CheckoutTypes
  <2> QED
    BY <1>8, <2>1 DEF GoToProvider, CheckoutTypes, Phase
<1>9. CASE ReturnFromProvider
  <2>1. PICK p \in PurchaseIds : Open(p)
    BY <1>9 DEF ReturnFromProvider
  <2> QED
    BY <1>9, <2>1, OpenTypes DEF ReturnFromProvider, CheckoutTypes
<1>10. CASE Settle
  <2>1. bought' \in [PurchaseIds -> {"none", "pending"} \cup Settled]
    BY <1>10 DEF Settle, CheckoutTypes
  <2> QED
    BY <1>10, <2>1 DEF Settle, CheckoutTypes
<1>11. CASE AIBlocked
  BY <1>11, OpenTypes DEF AIBlocked, CheckoutTypes
<1>12. CASE AskAI \/ AIAnswers \/ DecideTurn
  BY <1>12 DEF AskAI, AIAnswers, DecideTurn, CheckoutTypes
<1>13. CASE UNCHANGED checkoutVars
  BY <1>13 DEF checkoutVars, CheckoutTypes
<1> QED
  BY <1>1, <1>2, <1>3, <1>4, <1>5, <1>6, <1>7, <1>8, <1>9, <1>10, <1>11, <1>12, <1>13, <1>14, <1>15
     DEF CheckoutNext, AnswersArrive, ModalSteps, Checkout, AskAISteps

\* Every variable of the checkout keeps its type (credit-purchase-modal.tsx,
\* ask-ai-panel.tsx).
THEOREM CheckoutTypesHold == CheckoutSpec => []CheckoutTypes
<1> QED
  BY InitTypes, NextTypes, PTL DEF CheckoutSpec

-----------------------------------------------------------------------------
(* What is waited for *)

\* Nothing is waited for on a page as it loads.
LEMMA InitWaits == CheckoutInit => CheckoutInv
BY DEF CheckoutInit, FreshPage, CheckoutInv

\* An opening waits for the purchase it resumes or, the modal having been
\* closed, for nothing.
LEMMA OpenWaits ==
  ASSUME CheckoutTypes, CheckoutInv, ~modalOpen, NEW p \in PurchaseIds \cup {NoPurchase},
         Open(p), creating' = creating, bought' = bought, checkoutPage' = "builder",
         p # NoPurchase => ~creating
  PROVE  CheckoutInv'
<1>1. interval = 0 /\ phase # "processing" /\ phase # "success" /\ \A q \in polls : ~q.alive
  BY DEF CheckoutInv, CheckoutTypes, Waiting
<1>2. CASE p = NoPurchase
  BY <1>1, <1>2 DEF Open, CheckoutInv, Waiting
<1>3. CASE p # NoPurchase
  <2>1. /\ phase' = "processing" /\ pending' = p /\ interval' = 1 /\ modalOpen' = TRUE
        /\ polls' = {[purchase |-> p, tick |-> 1, alive |-> TRUE, elapsed |-> 0]}
    BY <1>3 DEF Open
  <2>2. \A q \in polls' : q.purchase = p
    BY <2>1
  <2> QED
    BY <1>3, <2>1, <2>2 DEF CheckoutInv, Waiting
<1> QED
  BY <1>2, <1>3

\* Closing tears everything down: nothing is waited for.
LEMMA CloseWaits ==
  ASSUME CheckoutTypes, CheckoutInv, Close, checkoutPage = "builder",
         UNCHANGED <<checkoutPage, bought, creating>>
  PROVE  CheckoutInv'
<1>1. interval' = 0 /\ \A q \in polls' : ~q.alive
  BY StopTypes DEF Close
<1> QED
  BY <1>1 DEF Close, CheckoutInv, Waiting

\* A poll that is answered or fails leaves the wait, if at all, for what the
\* server says, or for a failure.
LEMMA PolledWaits ==
  ASSUME CheckoutTypes, CheckoutInv, NEW q \in polls, NEW next \in Phase \ {"processing"},
         \/ polls' = polls \ {q} /\ UNCHANGED <<phase, interval>>
         \/ LeaveProcessing(q, next),
         LeaveProcessing(q, next) /\ next = "success" =>
           q.alive /\ bought[q.purchase] = "succeeded",
         UNCHANGED <<checkoutPage, bought, modalOpen, packages, pending, creating, turn>>
  PROVE  CheckoutInv'
<1>1. CASE polls' = polls \ {q} /\ UNCHANGED <<phase, interval>>
  BY <1>1 DEF CheckoutInv, Waiting
<1>2. CASE LeaveProcessing(q, next)
  <2>1. phase' = next /\ interval' = 0 /\ \A r \in polls' : ~r.alive
    BY <1>2, LeaveTypes
  <2>2. next = "success" => modalOpen /\ pending # NoPurchase /\ bought[pending] = "succeeded"
    BY <1>2 DEF CheckoutInv, Waiting
  <2> QED
    BY <1>2, <2>1, <2>2 DEF CheckoutInv, Waiting
<1> QED
  BY <1>1, <1>2

\* Every step keeps what is waited for.
LEMMA NextWaits ==
  CheckoutTypes /\ CheckoutInv /\ [CheckoutNext]_checkoutVars => CheckoutInv'
<1> SUFFICES ASSUME CheckoutTypes, CheckoutInv, [CheckoutNext]_checkoutVars PROVE CheckoutInv'
  OBVIOUS
<1> USE DEF modalVars, pollVars, aiVars
<1>1. CASE OpenFromTopBar
  BY <1>1, OpenWaits DEF OpenFromTopBar
<1>2. CASE PackagesAnswer
  <2>1. phase' \in {"idle", "unavailable"} /\ UNCHANGED <<checkoutPage, creating>>
        /\ checkoutPage = "builder"
    BY <1>2 DEF PackagesAnswer, CheckoutInv, CheckoutTypes
  <2>2. interval' = 0 /\ \A q \in polls' : ~q.alive
    <3>1. CASE phase = "processing"
      BY <1>2, <3>1, StopTypes DEF PackagesAnswer
    <3>2. CASE phase # "processing"
      BY <1>2, <3>2 DEF PackagesAnswer, CheckoutInv, Waiting, CheckoutTypes
    <3> QED
      BY <3>1, <3>2
  <2> QED
    BY <2>1, <2>2 DEF CheckoutInv, Waiting
<1>3. CASE PackagesFail
  BY <1>3 DEF PackagesFail, CheckoutInv, Waiting
<1>4. CASE SelectPack
  BY <1>4 DEF SelectPack, CheckoutInv, Waiting
<1>5. CASE StartCheckout \/ CheckoutFails \/ RetryFromPacks
  <2>1. interval = 0 /\ \A q \in polls : ~q.alive
    BY <1>5 DEF StartCheckout, CheckoutFails, RetryFromPacks, CheckoutInv, Waiting, CheckoutTypes
  <2>2. checkoutPage = "builder"
    BY <1>5 DEF StartCheckout, CheckoutFails, RetryFromPacks, CheckoutInv, CheckoutTypes
  <2> QED
    BY <1>5, <2>1, <2>2 DEF StartCheckout, CheckoutFails, RetryFromPacks, CheckoutInv, Waiting
<1>6. CASE GoToProvider
  BY <1>6 DEF GoToProvider, CheckoutInv, Waiting
<1>7. CASE ReturnFromProvider
  <2>1. PICK p \in PurchaseIds : Open(p)
    BY <1>7 DEF ReturnFromProvider
  <2>2. ~modalOpen /\ ~creating
    BY <1>7 DEF ReturnFromProvider, CheckoutInv
  <2> QED
    BY <1>7, <2>1, <2>2, OpenWaits DEF ReturnFromProvider
<1>8. CASE Settle
  <2>1. PICK p \in PurchaseIds, s \in Settled :
          bought[p] = "pending" /\ bought' = [bought EXCEPT ![p] = s]
    BY <1>8 DEF Settle
  <2>2. phase = "success" => bought'[pending] = "succeeded"
    BY <2>1 DEF CheckoutInv, CheckoutTypes
  <2> QED
    BY <1>8, <2>2 DEF Settle, CheckoutInv, Waiting
<1>9. CASE PollTick
  <2>1. interval > 0 /\ Waiting
    BY <1>9 DEF PollTick, CheckoutInv, CheckoutTypes
  <2> QED
    BY <1>9, <2>1 DEF PollTick, CheckoutInv, Waiting
<1>10. CASE PollAnswers
  <2>1. PICK q \in polls :
          IF ~q.alive \/ (bought[q.purchase] = "pending" /\ Elapsed(q) < MaxPollTicks)
          THEN polls' = polls \ {q} /\ UNCHANGED <<phase, interval>>
          ELSE LeaveProcessing(q, CASE bought[q.purchase] = "succeeded" -> "success"
                                    [] bought[q.purchase] = "cancelled" -> "cancelled"
                                    [] OTHER -> "failed")
    BY <1>10 DEF PollAnswers
  <2>2. PICK next \in {"success", "cancelled", "failed"} :
          /\ \/ polls' = polls \ {q} /\ UNCHANGED <<phase, interval>>
             \/ LeaveProcessing(q, next)
          /\ next = "success" => q.alive /\ bought[q.purchase] = "succeeded"
    BY <2>1
  <2>3. next \in Phase \ {"processing"}
    BY DEF Phase
  <2> QED
    BY <1>10, <2>2, <2>3, PolledWaits DEF PollAnswers
<1>11. CASE PollFails
  <2>1. PICK q \in polls : \/ polls' = polls \ {q} /\ UNCHANGED <<phase, interval>>
                           \/ LeaveProcessing(q, "failed")
    BY <1>11 DEF PollFails
  <2>2. "failed" \in Phase \ {"processing"}
    BY DEF Phase
  <2> QED
    BY <1>11, <2>1, <2>2, PolledWaits DEF PollFails
<1>12. CASE CloseModal \/ ContinueWithAI
  <2>1. checkoutPage = "builder" /\ Close /\ UNCHANGED <<checkoutPage, bought, creating>>
    BY <1>12 DEF CloseModal, ContinueWithAI, CheckoutInv, CheckoutTypes
  <2> QED
    BY <2>1, CloseWaits
<1>13. CASE AIBlocked
  <2>1. checkoutPage = "builder"
    BY <1>13 DEF AIBlocked, CheckoutInv, CheckoutTypes
  <2>2. CASE modalOpen
    BY <1>13, <2>1, <2>2 DEF AIBlocked, CheckoutInv, Waiting
  <2>3. CASE ~modalOpen
    BY <1>13, <2>1, <2>3, OpenWaits DEF AIBlocked
  <2> QED
    BY <2>2, <2>3
<1>14. CASE AskAI \/ AIAnswers \/ DecideTurn
  BY <1>14 DEF AskAI, AIAnswers, DecideTurn, CheckoutInv, Waiting
<1>15. CASE UNCHANGED checkoutVars
  BY <1>15 DEF checkoutVars, CheckoutInv, Waiting
<1> QED
  BY <1>1, <1>2, <1>3, <1>4, <1>5, <1>6, <1>7, <1>8, <1>9, <1>10, <1>11, <1>12, <1>13, <1>14, <1>15
     DEF CheckoutNext, AnswersArrive, ModalSteps, Checkout, AskAISteps

\* The modal says "success" only of the purchase it waits for and only when
\* the server holds it as settled in success, whatever polls earlier openings
\* left in flight (credit-purchase-modal.tsx, the poll effect).
THEOREM SuccessHolds == CheckoutSpec => []SuccessIsVerified
<1>1. CheckoutInv => SuccessIsVerified
  BY DEF CheckoutInv, Waiting, SuccessIsVerified
<1> QED
  BY InitTypes, NextTypes, InitWaits, NextWaits, <1>1, PTL DEF CheckoutSpec

-----------------------------------------------------------------------------
(* Passwords, sessions and reset links (Accounts).                         *)

Kinds == {"me", "login", "logout", "forgot", "reset", "change"}
Steps == {"sent", "checked", "cleared", "consumed", "stored", "ok", "refused", "failed"}
RequestType == [kind : Kinds, at : Browsers, step : Steps, holds : Nat, id : Nat]
LinkType == [id : Nat, used : BOOLEAN, sets : Nat]

\* What the account's rows, the browsers and the requests may hold.
AccountTypes ==
  /\ password \in Nat
  /\ sessions \subseteq [id : Nat, password : Nat]
  /\ links \subseteq LinkType
  /\ cookie \in [Browsers -> Nat]
  /\ authStatus \in [Browsers -> {"loading", "authenticated", "unauthenticated"}]
  /\ requests \subseteq RequestType
  /\ requested \in Nat

\* A request that will still insert its link, and one that has marked a link
\* and will still set the password with it.
Issuing(r) == r.kind = "forgot" /\ r.step \in {"sent", "cleared"}
Setting(r) == r.kind = "reset" /\ r.step = "consumed"

\* Every id names one request.
Numbered ==
  /\ \A r \in requests : r.id <= requested /\ (r.kind = "reset" => r.holds <= requested)
  /\ \A q, r \in requests : q.id = r.id /\ r.kind # "me" => q = r

\* Every id names one link, which no request is still to insert and no reset
\* can have been opened on before it is.
Issued ==
  /\ \A l \in links : l.id <= requested
  /\ \A k, l \in links : k.id = l.id => k = l
  /\ \A r \in requests : Issuing(r) =>
       /\ \A l \in links : l.id # r.id
       /\ \A q \in requests : q.kind = "reset" => q.holds # r.id

\* One request has marked a link, and has not set the password with it yet.
MarkedByOne ==
  /\ \A r \in requests : Setting(r) =>
       \A l \in links : l.id = r.holds => l.used /\ l.sets = 0
  /\ \A q, r \in requests : Setting(q) /\ Setting(r) /\ q.holds = r.holds => q = r

LinkInv == Numbered /\ Issued /\ MarkedByOne /\ \A l \in links : l.sets = 0 \/ (l.sets = 1 /\ l.used)

-----------------------------------------------------------------------------
(* Lemmas about requests *)

\* A request that moves on keeps all but its step.
LEMMA RequestMoves ==
  ASSUME AccountTypes, NEW r \in requests, NEW step \in Steps, MoveTo(r, step)
  PROVE  /\ requests' \subseteq RequestType
         /\ \A q \in requests' :
              \/ q \in requests /\ q # r
              \/ q.kind = r.kind /\ q.holds = r.holds /\ q.id = r.id /\ q.step = step
                 /\ q = [r EXCEPT !.step = step]
BY DEF AccountTypes, RequestType, MoveTo

\* A request is new to all that is there.
LEMMA Asks ==
  ASSUME AccountTypes, NEW kind \in Kinds, NEW b \in Browsers, NEW holds \in Nat,
         Request(kind, b, holds)
  PROVE  /\ requests' \subseteq RequestType /\ requested' \in Nat
         /\ \A q \in requests' :
              \/ q \in requests
              \/ /\ q = [kind |-> kind, at |-> b, step |-> "sent", holds |-> holds,
                         id |-> requested + 1]
                 /\ q.kind = kind /\ q.step = "sent" /\ q.holds = holds /\ q.id = requested + 1
<1> DEFINE new == [kind |-> kind, at |-> b, step |-> "sent", holds |-> holds, id |-> requested + 1]
<1>1. new \in RequestType
  BY DEF AccountTypes, RequestType, Steps
<1>2. requests' = requests \cup {new} /\ requested' = requested + 1
  BY DEF Request
<1> QED
  BY <1>1, <1>2 DEF AccountTypes

\* Numbers stay unique as requests move on.
LEMMA MoveNumbered ==
  ASSUME AccountTypes, Numbered, NEW r \in requests, NEW step \in Steps, MoveTo(r, step),
         requested' = requested
  PROVE  Numbered'
<1>1. \A q \in requests' : \/ q \in requests /\ q # r
                           \/ q.kind = r.kind /\ q.holds = r.holds /\ q.id = r.id
                              /\ q = [r EXCEPT !.step = step]
  BY RequestMoves
<1>2. \A q \in requests' : q.id <= requested' /\ (q.kind = "reset" => q.holds <= requested')
  BY <1>1 DEF Numbered
<1>3. ASSUME NEW p \in requests', NEW q \in requests', p.id = q.id, q.kind # "me"
      PROVE  p = q
  BY <1>1, <1>3 DEF Numbered
<1> QED
  BY <1>2, <1>3 DEF Numbered

\* A step that leaves the links alone, and marks none, keeps the invariant.
LEMMA MoveLinks ==
  ASSUME AccountTypes, LinkInv, NEW r \in requests, NEW step \in Steps, MoveTo(r, step),
         requested' = requested, links' = links,
         step \in {"sent", "cleared"} => Issuing(r),
         step = "consumed" => r.kind # "reset"
  PROVE  LinkInv'
<1>1. \A q \in requests' : \/ q \in requests /\ q # r
                           \/ q.kind = r.kind /\ q.holds = r.holds /\ q.id = r.id /\ q.step = step
  BY RequestMoves
<1>2. Numbered'
  BY MoveNumbered DEF LinkInv
<1>3. Issued'
  <2>1. ASSUME NEW q \in requests', Issuing(q)
        PROVE  \E p \in requests : Issuing(p) /\ p.id = q.id
    BY <1>1, <2>1 DEF Issuing
  <2>2. \A q \in requests' : q.kind = "reset" =>
          \E p \in requests : p.kind = "reset" /\ p.holds = q.holds
    BY <1>1
  <2> QED
    BY <2>1, <2>2 DEF LinkInv, Issued
<1>4. MarkedByOne'
  <2>1. \A q \in requests' : Setting(q) => q \in requests
    BY <1>1 DEF Setting
  <2> QED
    BY <2>1 DEF LinkInv, MarkedByOne, Setting
<1> QED
  BY <1>2, <1>3, <1>4 DEF LinkInv

\* A new request takes a number that no request, link or reset knows.
LEMMA AskLinks ==
  ASSUME AccountTypes, LinkInv, NEW kind \in Kinds, NEW b \in Browsers, NEW holds \in Nat,
         Request(kind, b, holds),
         kind = "reset" => \E l \in links : l.id = holds
  PROVE  LinkInv'
<1>1. /\ \A q \in requests' :
           \/ q \in requests
           \/ /\ q = [kind |-> kind, at |-> b, step |-> "sent", holds |-> holds,
                      id |-> requested + 1]
              /\ q.kind = kind /\ q.step = "sent" /\ q.holds = holds /\ q.id = requested + 1
      /\ links' = links /\ requested' = requested + 1 /\ requested \in Nat
  BY Asks DEF Request, AccountTypes
<1>2. /\ \A q \in requests : q.id \in Nat /\ q.holds \in Nat
      /\ \A l \in links : l.id \in Nat
  BY DEF AccountTypes, RequestType, LinkType
<1>3. kind = "reset" => holds <= requested
  BY DEF LinkInv, Issued
<1>4. Numbered'
  <2>1. \A q \in requests' : q.id <= requested' /\ (q.kind = "reset" => q.holds <= requested')
    BY <1>1, <1>2, <1>3 DEF LinkInv, Numbered
  <2>2. ASSUME NEW p \in requests', NEW q \in requests', p.id = q.id, q.kind # "me"
        PROVE  p = q
    <3>1. CASE p \in requests /\ q \in requests
      BY <2>2, <3>1 DEF LinkInv, Numbered
    <3>2. CASE p \notin requests /\ q \notin requests
      BY <1>1, <3>2
    <3>3. CASE p \in requests /\ q \notin requests
      BY <1>1, <1>2, <2>2, <3>3 DEF LinkInv, Numbered
    <3>4. CASE p \notin requests /\ q \in requests
      BY <1>1, <1>2, <2>2, <3>4 DEF LinkInv, Numbered
    <3> QED
      BY <3>1, <3>2, <3>3, <3>4
  <2> QED
    BY <2>1, <2>2 DEF Numbered
<1>5. Issued'
  <2>1. \A l \in links' : l.id <= requested'
    BY <1>1, <1>2 DEF LinkInv, Issued
  <2>2. ASSUME NEW r \in requests', Issuing(r)
        PROVE  \A l \in links' : l.id # r.id
    BY <1>1, <1>2, <2>2 DEF LinkInv, Issued
  <2>3. ASSUME NEW r \in requests', Issuing(r), NEW q \in requests', q.kind = "reset"
        PROVE  q.holds # r.id
    <3>1. CASE r \in requests /\ q \in requests
      BY <2>3, <3>1 DEF LinkInv, Issued
    <3>2. CASE r \in requests /\ q \notin requests
      BY <1>1, <2>3, <3>2 DEF LinkInv, Issued
    <3>3. CASE r \notin requests
      BY <1>1, <1>2, <1>3, <2>3, <3>3 DEF LinkInv, Numbered, Issuing
    <3> QED
      BY <3>1, <3>2, <3>3
  <2> QED
    BY <1>1, <2>1, <2>2, <2>3 DEF LinkInv, Issued
<1>6. MarkedByOne'
  <2>1. \A q \in requests' : Setting(q) => q \in requests
    BY <1>1 DEF Setting
  <2> QED
    BY <1>1, <2>1 DEF LinkInv, MarkedByOne
<1> QED
  BY <1>1, <1>4, <1>5, <1>6 DEF LinkInv

-----------------------------------------------------------------------------
(* The statements about links *)

\* A new link has a number of its own, and Issue forgets the others.
LEMMA IssueLinks ==
  ASSUME AccountTypes, LinkInv, NEW r \in requests, ClearLinks(r) \/ InsertLink(r),
         requested' = requested
  PROVE  LinkInv'
<1>1. CASE ClearLinks(r)
  <2>1. MoveTo(r, "cleared") /\ links' = {} /\ r.kind = "forgot" /\ r.step = "sent"
    BY <1>1 DEF ClearLinks, AtStep
  <2>2. \A q \in requests' : \/ q \in requests /\ q # r
                             \/ q.kind = r.kind /\ q.holds = r.holds /\ q.id = r.id /\ q.step = "cleared"
    BY <2>1, RequestMoves DEF Steps
  <2>3. Numbered'
    BY <2>1, MoveNumbered DEF LinkInv, Steps
  <2>4. Issued'
    <3>1. ASSUME NEW q \in requests', Issuing(q)
          PROVE  \E p \in requests : Issuing(p) /\ p.id = q.id
      BY <2>1, <2>2, <3>1 DEF Issuing
    <3>2. \A q \in requests' : q.kind = "reset" =>
            \E p \in requests : p.kind = "reset" /\ p.holds = q.holds
      BY <2>2
    <3> QED
      BY <2>1, <3>1, <3>2 DEF LinkInv, Issued
  <2>5. \A q \in requests' : Setting(q) => q \in requests
    BY <2>1, <2>2 DEF Setting
  <2> QED
    BY <2>1, <2>3, <2>4, <2>5 DEF LinkInv, MarkedByOne
<1>2. CASE InsertLink(r)
  <2> DEFINE new == [id |-> r.id, used |-> FALSE, sets |-> 0]
  <2>1. MoveTo(r, "ok") /\ links' = links \cup {new} /\ r.kind = "forgot" /\ r.step = "cleared"
    BY <1>2 DEF InsertLink, AtStep
  <2>2. \A q \in requests' : \/ q \in requests /\ q # r
                             \/ q.kind = r.kind /\ q.holds = r.holds /\ q.id = r.id /\ q.step = "ok"
    BY <2>1, RequestMoves DEF Steps
  <2>3. Numbered'
    BY <2>1, MoveNumbered DEF LinkInv, Steps
  <2>4. Issuing(r)
    BY <2>1 DEF Issuing
  <2>5. Issued'
    <3>1. \A l \in links' : l.id <= requested'
      BY <2>1 DEF LinkInv, Issued, Numbered
    <3>2. ASSUME NEW k \in links', NEW l \in links', k.id = l.id
          PROVE  k = l
      <4>1. /\ \A x \in links' : x \in links \/ (x = new /\ x.id = r.id)
            /\ \A x \in links : x.id # r.id
        BY <2>1, <2>4 DEF LinkInv, Issued
      <4> QED
        BY <4>1, <3>2 DEF LinkInv, Issued
    <3>3. ASSUME NEW q \in requests', Issuing(q)
          PROVE  q \in requests /\ q # r
      BY <2>2, <3>3 DEF Issuing
    <3>4. ASSUME NEW q \in requests', Issuing(q)
          PROVE  \A l \in links' : l.id # q.id
      <4>1. q \in requests /\ q # r
        BY <3>3, <3>4
      <4>2. q.id # r.id
        BY <4>1, <2>1 DEF LinkInv, Numbered
      <4> QED
        BY <2>1, <3>4, <4>1, <4>2 DEF LinkInv, Issued
    <3>5. \A q \in requests' : q.kind = "reset" => q \in requests
      BY <2>1, <2>2
    <3> QED
      BY <3>1, <3>2, <3>3, <3>4, <3>5 DEF LinkInv, Issued
  <2>6. \A q \in requests' : Setting(q) => q \in requests /\ q.holds # r.id
    BY <2>1, <2>2, <2>4 DEF Setting, LinkInv, Issued
  <2>7. MarkedByOne'
    BY <2>1, <2>6 DEF LinkInv, MarkedByOne
  <2> QED
    BY <2>1, <2>3, <2>5, <2>7 DEF LinkInv
<1> QED
  BY <1>1, <1>2

\* Consume marks a link that was not marked, and by one request.
LEMMA ConsumeLinks ==
  ASSUME AccountTypes, LinkInv, NEW r \in requests, Consume(r), requested' = requested
  PROVE  LinkInv'
<1>1. CASE links' = links
  <2>1. MoveTo(r, "refused")
    <3>1. ASSUME NEW l \in links, l.id = r.holds, ~l.used,
                 links' = (links \ {l}) \cup {[l EXCEPT !.used = TRUE]}
          PROVE  FALSE
      <4>1. [l EXCEPT !.used = TRUE].used /\ l \in LinkType
        BY DEF AccountTypes, LinkType
      <4> QED
        BY <1>1, <3>1, <4>1
    <3> QED
      BY <3>1 DEF Consume
  <2> QED
    BY <1>1, <2>1, MoveLinks DEF Steps
<1>2. CASE links' # links
  <2>1. PICK l \in links : /\ l.id = r.holds /\ ~l.used
                           /\ links' = (links \ {l}) \cup {[l EXCEPT !.used = TRUE]}
                           /\ MoveTo(r, "consumed")
    BY <1>2 DEF Consume
  <2>2. r.kind = "reset" /\ r.step = "sent"
    BY DEF Consume, AtStep
  <2>3. \A k \in links' : \/ k \in links /\ k # l
                          \/ k.id = l.id /\ k.used /\ k.sets = l.sets /\ k = [l EXCEPT !.used = TRUE]
    BY <2>1 DEF AccountTypes, LinkType
  <2>4. \A q \in requests' : \/ q \in requests /\ q # r
                             \/ q.kind = r.kind /\ q.holds = r.holds /\ q.id = r.id /\ q.step = "consumed"
                                /\ q = [r EXCEPT !.step = "consumed"]
    BY <2>1, RequestMoves DEF Steps
  <2>5. Numbered'
    BY <2>1, MoveNumbered DEF LinkInv, Steps
  <2>6. Issued'
    <3>1. \A k \in links' : \E x \in links : x.id = k.id
      BY <2>1, <2>3
    <3>2. \A q \in requests' : Issuing(q) => q \in requests
      BY <2>2, <2>4 DEF Issuing
    <3>3. \A q \in requests' : q.kind = "reset" =>
            \E p \in requests : p.kind = "reset" /\ p.holds = q.holds
      BY <2>4
    <3>4. ASSUME NEW k \in links', NEW x \in links', k.id = x.id
          PROVE  k = x
      BY <2>3, <3>4 DEF LinkInv, Issued
    <3> QED
      BY <3>1, <3>2, <3>3, <3>4 DEF LinkInv, Issued
  <2>7. \A q \in requests : Setting(q) => q.holds # l.id
    BY <2>1 DEF LinkInv, MarkedByOne
  <2>8. l.sets = 0
    BY <2>1 DEF LinkInv
  <2>9. MarkedByOne'
    <3>1. ASSUME NEW q \in requests', Setting(q), NEW k \in links', k.id = q.holds
          PROVE  k.used /\ k.sets = 0
      <4>1. CASE k \in links /\ k # l
        <5>1. k.id # l.id
          BY <4>1 DEF LinkInv, Issued
        <5>2. q \in requests
          BY <2>1, <2>4, <3>1, <5>1
        <5> QED
          BY <3>1, <4>1, <5>2 DEF LinkInv, MarkedByOne
      <4> QED
        BY <2>3, <2>8, <4>1
    <3>2. ASSUME NEW p \in requests', NEW q \in requests', Setting(p), Setting(q), p.holds = q.holds
          PROVE  p = q
      BY <2>1, <2>4, <2>7, <3>2 DEF LinkInv, MarkedByOne
    <3> QED
      BY <3>1, <3>2 DEF MarkedByOne
  <2>10. \A k \in links' : k.sets = 0 \/ (k.sets = 1 /\ k.used)
    BY <2>3, <2>8 DEF LinkInv
  <2> QED
    BY <2>5, <2>6, <2>9, <2>10 DEF LinkInv
<1> QED
  BY <1>1, <1>2

\* UpdatePassword counts on the link its request has marked, and only there.
LEMMA UpdateLinks ==
  ASSUME AccountTypes, LinkInv, NEW r \in requests, UpdatePassword(r), requested' = requested
  PROVE  LinkInv'
<1> DEFINE Set(l) == IF r.kind = "reset" /\ l.id = r.holds THEN [l EXCEPT !.sets = @ + 1] ELSE l
<1>1. links' = {Set(l) : l \in links} /\ MoveTo(r, "stored") /\ (r.kind = "reset" => Setting(r))
  BY DEF UpdatePassword, AtStep, Setting
<1>2. \A l \in links : /\ Set(l).id = l.id /\ Set(l).used = l.used
                       /\ r.kind = "reset" /\ l.id = r.holds => Set(l).sets = l.sets + 1
                       /\ ~(r.kind = "reset" /\ l.id = r.holds) => Set(l) = l
  BY DEF AccountTypes, LinkType
<1>3. \A q \in requests' : \/ q \in requests /\ q # r
                           \/ q.kind = r.kind /\ q.holds = r.holds /\ q.id = r.id /\ q.step = "stored"
  BY <1>1, RequestMoves DEF Steps
<1>4. Numbered'
  BY <1>1, MoveNumbered DEF LinkInv, Steps
<1>5. Issued'
  <2>1. \A k \in links' : \E l \in links : k = Set(l)
    BY <1>1
  <2>2. \A q \in requests' : Issuing(q) => q \in requests
    BY <1>3 DEF Issuing
  <2>3. \A q \in requests' : q.kind = "reset" =>
          \E p \in requests : p.kind = "reset" /\ p.holds = q.holds
    BY <1>3
  <2>4. ASSUME NEW k \in links', NEW x \in links', k.id = x.id
        PROVE  k = x
    <3> HIDE DEF Set
    <3>1. PICK i \in links, j \in links : k = Set(i) /\ x = Set(j)
      BY <2>1
    <3>2. i.id = j.id
      BY <1>2, <2>4, <3>1
    <3> QED
      BY <3>1, <3>2 DEF LinkInv, Issued
  <2>5. \A k \in links' : \E l \in links : k.id = l.id
    <3> HIDE DEF Set
    <3> QED
      BY <1>2, <2>1
  <2> QED
    BY <2>2, <2>3, <2>4, <2>5 DEF LinkInv, Issued
<1>6. \A q \in requests' : Setting(q) => q \in requests /\ q # r
  BY <1>3 DEF Setting
<1>7. MarkedByOne'
  <2> HIDE DEF Set
  <2>1. ASSUME NEW q \in requests', Setting(q), NEW k \in links', k.id = q.holds
        PROVE  k.used /\ k.sets = 0
    <3>1. PICK l \in links : k = Set(l)
      BY <1>1
    <3>2. l.id = q.holds /\ l.used /\ l.sets = 0
      BY <1>2, <1>6, <2>1, <3>1 DEF LinkInv, MarkedByOne
    <3>3. ~(r.kind = "reset" /\ l.id = r.holds)
      BY <1>1, <1>6, <2>1, <3>2 DEF LinkInv, MarkedByOne
    <3> QED
      BY <1>2, <3>1, <3>2, <3>3
  <2>2. \A p, q \in requests' : Setting(p) /\ Setting(q) /\ p.holds = q.holds => p = q
    BY <1>6 DEF LinkInv, MarkedByOne
  <2> QED
    BY <2>1, <2>2 DEF MarkedByOne
<1>8. ASSUME NEW k \in links'
      PROVE  k.sets = 0 \/ (k.sets = 1 /\ k.used)
  <2> HIDE DEF Set
  <2>1. PICK l \in links : k = Set(l)
    BY <1>1
  <2>2. CASE r.kind = "reset" /\ l.id = r.holds
    <3>1. l.used /\ l.sets = 0
      BY <1>1, <2>2 DEF LinkInv, MarkedByOne
    <3> QED
      BY <1>2, <2>1, <2>2, <3>1
  <2>3. CASE ~(r.kind = "reset" /\ l.id = r.holds)
    BY <1>2, <2>1, <2>3 DEF LinkInv
  <2> QED
    BY <2>2, <2>3
<1> QED
  BY <1>4, <1>5, <1>7, <1>8 DEF LinkInv

-----------------------------------------------------------------------------
(* The invariant *)

\* The account starts well typed, signed in at one browser, without links.
LEMMA AccountStart == AccountInit => AccountTypes /\ LinkInv
<1> SUFFICES ASSUME AccountInit PROVE AccountTypes /\ LinkInv
  OBVIOUS
<1>1. cookie \in [Browsers -> Nat]
  BY DEF AccountInit, NoSession
<1>2. \A r \in requests : \E b \in Browsers :
        /\ r = [kind |-> "me", at |-> b, step |-> "sent", holds |-> cookie[b], id |-> 0]
        /\ r.kind = "me" /\ r.id = 0
  BY DEF AccountInit
<1>3. requests \subseteq RequestType
  BY <1>1, <1>2 DEF RequestType, Kinds, Steps
<1>4. AccountTypes
  BY <1>1, <1>3 DEF AccountInit, AccountTypes
<1>5. Numbered
  BY <1>2 DEF AccountInit, Numbered
<1>6. Issued
  BY <1>2 DEF AccountInit, Issued, Issuing
<1>7. MarkedByOne
  BY <1>2 DEF AccountInit, MarkedByOne, Setting
<1> QED
  BY <1>4, <1>5, <1>6, <1>7 DEF AccountInit, LinkInv

\* What a browser sends is well typed, and a reset names a link.
LEMMA SendKeeps ==
  ASSUME AccountTypes, LinkInv, SignInForms \/ SignedInPages
  PROVE  AccountTypes' /\ LinkInv'
<1>1. PICK kind \in Kinds, b \in Browsers, holds \in Nat :
        Request(kind, b, holds) /\ (kind = "reset" => \E l \in links : l.id = holds)
  <2>1. CASE SignInForms
    BY <2>1 DEF SignInForms, SendLogin, SendForgot, SendReset, Kinds, AccountTypes, LinkType
  <2>2. CASE SignedInPages
    BY <2>2 DEF SignedInPages, SendMe, SendLogout, SendChange, Kinds, AccountTypes
  <2> QED
    BY <2>1, <2>2
<1>2. requests' \subseteq RequestType /\ requested' \in Nat
  BY <1>1, Asks
<1>3. AccountTypes'
  BY <1>1, <1>2 DEF Request, AccountTypes
<1> QED
  BY <1>1, <1>3, AskLinks

\* Every statement of the server keeps the types.
LEMMA ServeTypes ==
  ASSUME AccountTypes, AuthService
  PROVE  AccountTypes'
<1>1. PICK r \in requests :
        \/ ServeMe(r) \/ CheckPassword(r) \/ CreateSession(r) \/ DeleteSession(r)
        \/ ClearLinks(r) \/ InsertLink(r) \/ Consume(r) \/ CheckCurrent(r)
        \/ UpdatePassword(r) \/ RevokeSessions(r)
  BY DEF AuthService
<1>2. UNCHANGED <<cookie, authStatus, requested>>
  BY DEF AuthService
<1>3. r.id \in Nat /\ r.holds \in Nat
  BY DEF AccountTypes, RequestType
<1>4. \E step \in Steps : MoveTo(r, step)
  BY <1>1 DEF ServeMe, CheckPassword, CreateSession, DeleteSession, ClearLinks, InsertLink, Consume,
              CheckCurrent, UpdatePassword, RevokeSessions, Steps
<1>5. requests' \subseteq RequestType
  BY <1>4, RequestMoves
<1>6. sessions' \subseteq [id : Nat, password : Nat]
  <2>1. CASE CreateSession(r)
    BY <1>3, <2>1 DEF CreateSession, AccountTypes
  <2>2. CASE sessions' \subseteq sessions
    BY <2>2 DEF AccountTypes
  <2> QED
    BY <1>1, <2>1, <2>2 DEF ServeMe, CheckPassword, DeleteSession, ClearLinks, InsertLink, Consume,
                            CheckCurrent, UpdatePassword, RevokeSessions
<1>7. links' \subseteq LinkType
  <2>1. CASE InsertLink(r)
    <3>1. [id |-> r.id, used |-> FALSE, sets |-> 0] \in LinkType
      BY <1>3 DEF LinkType
    <3> QED
      BY <2>1, <3>1 DEF InsertLink, AccountTypes
  <2>2. CASE Consume(r)
    <3>1. \A l \in links : [l EXCEPT !.used = TRUE] \in LinkType
      BY DEF AccountTypes, LinkType
    <3> QED
      BY <2>2, <3>1 DEF Consume, AccountTypes
  <2>3. CASE UpdatePassword(r)
    <3>1. \A l \in links : [l EXCEPT !.sets = @ + 1] \in LinkType
      BY DEF AccountTypes, LinkType
    <3> QED
      BY <2>3, <3>1 DEF UpdatePassword, AccountTypes
  <2>4. CASE links' \subseteq links
    BY <2>4 DEF AccountTypes
  <2> QED
    BY <1>1, <2>1, <2>2, <2>3, <2>4 DEF ServeMe, CheckPassword, CreateSession, DeleteSession,
                                        ClearLinks, CheckCurrent, RevokeSessions
<1>8. password' \in Nat
  BY <1>1, <1>3 DEF ServeMe, CheckPassword, CreateSession, DeleteSession, ClearLinks, InsertLink,
                    Consume, CheckCurrent, UpdatePassword, RevokeSessions, AccountTypes
<1> QED
  BY <1>2, <1>5, <1>6, <1>7, <1>8 DEF AccountTypes

\* Every statement of the server keeps the invariant.
LEMMA ServeLinks ==
  ASSUME AccountTypes, LinkInv, AuthService
  PROVE  LinkInv'
<1>1. PICK r \in requests :
        \/ ServeMe(r) \/ CheckPassword(r) \/ CreateSession(r) \/ DeleteSession(r)
        \/ ClearLinks(r) \/ InsertLink(r) \/ Consume(r) \/ CheckCurrent(r)
        \/ UpdatePassword(r) \/ RevokeSessions(r)
  BY DEF AuthService
<1>2. requested' = requested
  BY DEF AuthService
<1>3. CASE ClearLinks(r) \/ InsertLink(r)
  BY <1>2, <1>3, IssueLinks
<1>4. CASE Consume(r)
  BY <1>2, <1>4, ConsumeLinks
<1>5. CASE UpdatePassword(r)
  BY <1>2, <1>5, UpdateLinks
<1>6. CASE ServeMe(r) \/ CheckPassword(r) \/ CreateSession(r) \/ DeleteSession(r)
           \/ CheckCurrent(r) \/ RevokeSessions(r)
  <2>1. links' = links /\ \E step \in Steps \ {"sent", "cleared"} :
          MoveTo(r, step) /\ (step = "consumed" => r.kind # "reset")
    BY <1>6 DEF ServeMe, CheckPassword, CreateSession, DeleteSession, CheckCurrent, RevokeSessions,
                AtStep, Steps
  <2> QED
    BY <1>2, <2>1, MoveLinks
<1> QED
  BY <1>1, <1>3, <1>4, <1>5, <1>6

\* An answer, arrived or lost, ends its request.
LEMMA AnswerKeeps ==
  ASSUME AccountTypes, LinkInv, Provider
  PROVE  AccountTypes' /\ LinkInv'
<1>1. PICK r \in requests : ResponseArrives(r) \/ ResponseLost(r)
  BY DEF Provider
<1>2. requests' \subseteq requests /\ UNCHANGED <<password, sessions, links, requested>>
  BY <1>1 DEF Provider, ResponseArrives, ResponseLost
<1>3. r.at \in Browsers /\ r.id \in Nat
  BY DEF AccountTypes, RequestType
<1>4. cookie' \in [Browsers -> Nat]
  BY <1>1, <1>3 DEF ResponseArrives, ResponseLost, AccountTypes, NoSession
<1>5. \A x : Told(r, x) \in {"loading", "authenticated", "unauthenticated"}
  BY <1>3 DEF Told, AccountTypes
<1>6. authStatus' \in [Browsers -> {"loading", "authenticated", "unauthenticated"}]
  BY <1>1, <1>3, <1>5 DEF ResponseArrives, ResponseLost, AccountTypes
<1>7. AccountTypes'
  BY <1>2, <1>4, <1>6 DEF AccountTypes
<1>8. LinkInv'
  BY <1>2 DEF LinkInv, Numbered, Issued, MarkedByOne
<1> QED
  BY <1>7, <1>8

\* Every step keeps the types and the invariant.
LEMMA AccountStep ==
  AccountTypes /\ LinkInv /\ [AccountNext]_accountVars => AccountTypes' /\ LinkInv'
<1>1. ASSUME AccountTypes, LinkInv, UNCHANGED accountVars
      PROVE  AccountTypes' /\ LinkInv'
  BY <1>1 DEF accountVars, AccountTypes, LinkInv, Numbered, Issued, MarkedByOne
<1> QED
  BY <1>1, SendKeeps, ServeTypes, ServeLinks, AnswerKeeps DEF AccountNext

-----------------------------------------------------------------------------
(* Theorems *)

\* Every variable of the account keeps its type (internal/auth, auth-provider.tsx).
THEOREM AccountTypesHold == AccountSpec => []AccountTypes
<1> QED
  BY AccountStart, AccountStep, PTL DEF AccountSpec

\* A reset link sets the password at most once, and only once marked,
\* whichever pages submit it together and whatever else goes on (Consume).
THEOREM LinksAreSingleUse == AccountSpec => []LinksWorkOnce
<1>1. AccountTypes /\ LinkInv => LinksWorkOnce
  BY DEF LinkInv, LinksWorkOnce, AccountTypes, LinkType
<1> QED
  BY AccountStart, AccountStep, <1>1, PTL DEF AccountSpec
=============================================================================
