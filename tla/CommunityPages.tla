---------------------------- MODULE CommunityPages ----------------------------
(***************************************************************************)
(* The community in the browser: the feed with its views, sorts, searches  *)
(* and votes (community-home.tsx), and the thread of one question with its *)
(* answers, votes, acceptance, deletions and reports (post-detail.tsx),    *)
(* over the rows the server keeps (internal/community/posts.go).           *)
(*                                                                         *)
(* A request is served at one moment and answered at a later one; answers  *)
(* arrive in any order.  No answer of the feed is ever cancelled; of the   *)
(* thread only the refresh is, when its effect is torn down.  The order in *)
(* which the answers of a question are listed is left out.                 *)
(***************************************************************************)
EXTENDS Naturals, FiniteSets

CONSTANTS FeedViews,      \* the views of the sidebar, "home" among them
          FeedSorts,      \* "latest", "popular"
          ReplyIds,       \* answers anybody may write
          MaxPageCalls,   \* bound: requests under way at once
          MaxPageClicks   \* bound: what the viewer does

ASSUME CommunityBoundsAssumption ==
  "home" \in FeedViews /\ "latest" \in FeedSorts /\ MaxPageCalls \in Nat /\ MaxPageClicks \in Nat

VARIABLES
  feedView, feedSort, feedQuery,
  feed,       \* the posts shown: the filter they answer, or NoFeed (null)
  feedError,
  signedIn,   \* does the page know the viewer, who asked the question
  question,   \* current: voted, accepted
  answers,    \* the answers shown, a set of rows
  reporting,  \* is the report dialog open
  pageCalls,  \* requests: kind, target, and "sent" or the answer they carry
  votes, accepted, written, deleted, \* the server's rows
  clicks

feedVars      == <<feedView, feedSort, feedQuery, feed, feedError>>
threadVars    == <<signedIn, question, answers, reporting>>
rowVars       == <<votes, accepted, written, deleted>>
communityVars == <<feedVars, threadVars, pageCalls, rowVars, clicks>>

NoReply == "none"
NoFeed  == "null"
Thread  == "post"  \* the question, as a target of a vote

-----------------------------------------------------------------------------
(* The server's rows as they are sent *)

\* Only the list of a question marks the accepted answer; an answer sent alone
\* (replyByID, after a vote or a new answer) never is.
ReplyRow(r, listed) == [id |-> r, voted |-> r \in votes, accepted |-> listed /\ r = accepted]
PostRow == [voted |-> Thread \in votes, accepted |-> accepted]
Replies == {ReplyRow(r, TRUE) : r \in written \ deleted}

\* The page of a question is rendered for nobody in particular.
Anonymous(rows) == {[a EXCEPT !.voted = FALSE] : a \in rows}

CommunityInit ==
  /\ feedView = "home" /\ feedSort = "latest" /\ feedQuery = ""
  /\ feed = NoFeed /\ feedError = FALSE
  /\ signedIn = FALSE /\ reporting = FALSE
  /\ votes = {} /\ deleted = {}
  /\ \E r \in ReplyIds : written = {r}
  /\ accepted = NoReply
  /\ question = PostRow /\ answers = Anonymous(Replies)
  /\ pageCalls = {[kind |-> "feed", target |-> <<"home", "latest">>, answer |-> <<>>, nth |-> 0],
                  [kind |-> "refresh", target |-> Thread, answer |-> <<>>, nth |-> 0]}
  /\ clicks = 0

-----------------------------------------------------------------------------
Click == clicks < MaxPageClicks /\ clicks' = clicks + 1
NewCall(kind, target) == [kind |-> kind, target |-> target, answer |-> <<>>, nth |-> clicks']
\* Whatever the viewer asks for goes out as a request of its own.
Send(kind, target) ==
  /\ Cardinality(pageCalls) < MaxPageCalls
  /\ pageCalls' = pageCalls \cup {NewCall(kind, target)}

\* filterFor: what a view asks the server for.
FilterFor(view, sort) ==
  CASE view = "questions" -> <<view, IF sort = "latest" THEN "popular" ELSE sort>>
    [] view \in {"unanswered", "projects"} -> <<view>>
    [] OTHER -> <<view, sort>>

\* loadFeed: the posts are dropped and asked for again.
LoadFeed(calls) ==
  /\ feed' = NoFeed /\ feedError' = FALSE
  /\ pageCalls' = calls \cup {NewCall("feed", FilterFor(feedView', feedSort'))}

\* A view or a tag is chosen: the search is forgotten (not by the challenges),
\* and the feed loads, even of the view already shown.
ChooseView ==
  /\ Click /\ Cardinality(pageCalls) < MaxPageCalls
  /\ feedView' \in FeedViews
  /\ feedQuery' = IF feedView' = "challenges" THEN feedQuery ELSE ""
  /\ UNCHANGED feedSort
  /\ LoadFeed(pageCalls)
  /\ UNCHANGED <<threadVars, rowVars>>

ChooseSort ==
  /\ Click /\ Cardinality(pageCalls) < MaxPageCalls
  /\ feedView # "challenges"
  /\ feedSort' \in FeedSorts \ {feedSort}
  /\ UNCHANGED <<feedView, feedQuery>>
  /\ LoadFeed(pageCalls)
  /\ UNCHANGED <<threadVars, rowVars>>

\* search: the results are asked for, and the view it sets back to "home"
\* loads the plain feed as well; the later answer stays.
Search ==
  /\ Click /\ Cardinality(pageCalls) + 1 < MaxPageCalls
  /\ feedView # "challenges"
  /\ feedQuery' = "q" /\ feedView' = "home"
  /\ UNCHANGED feedSort
  /\ LoadFeed(pageCalls \cup {NewCall("feed", <<"q">>)})
  /\ UNCHANGED <<threadVars, rowVars>>

ClearSearch ==
  /\ Click /\ Cardinality(pageCalls) < MaxPageCalls
  /\ feedQuery # "" /\ feedView # "challenges"
  /\ feedQuery' = ""
  /\ UNCHANGED <<feedView, feedSort>>
  /\ LoadFeed(pageCalls)
  /\ UNCHANGED <<threadVars, rowVars>>

-----------------------------------------------------------------------------
\* The session is restored: the viewer's own votes and authorship are asked
\* for again, and the anonymous refresh is cancelled.
SignIn ==
  /\ ~signedIn
  /\ signedIn' = TRUE
  /\ pageCalls' = {c \in pageCalls : c.kind # "refresh"} \cup
                  {[kind |-> "refresh", target |-> Thread, answer |-> <<>>, nth |-> clicks]}
  /\ UNCHANGED <<feedVars, question, answers, reporting, rowVars, clicks>>

\* What the thread's buttons send: a vote on the question or an answer, an
\* acceptance or its withdrawal by the asker, a deletion, an answer of one's
\* own.  Nothing but the form and the deletion of the question is disabled
\* meanwhile.
ThreadClick ==
  /\ Click /\ signedIn
  /\ \/ Send("vote", Thread)
     \/ \E a \in answers : \/ Send("vote", a.id)
                           \/ ~a.accepted /\ Send("accept", a.id)
                           \/ a.accepted /\ Send("accept", NoReply)
                           \/ Send("deleteReply", a.id)
     \/ /\ \A c \in pageCalls : c.kind # "reply"
        /\ \E r \in ReplyIds \ written : Send("reply", r)
  /\ UNCHANGED <<feedVars, threadVars, rowVars>>

\* The report dialog is opened, put away or, once the report is stored, closed.
ReportDialog ==
  /\ Click
  /\ reporting' = ~reporting
  /\ UNCHANGED <<feedVars, signedIn, question, answers, pageCalls, rowVars>>

-----------------------------------------------------------------------------
(* The server *)

Toggle(target) == votes' = IF target \in votes THEN votes \ {target} ELSE votes \cup {target}

\* A request is served: its effect on the rows, and the rows its answer holds.
Effect(c) ==
  \/ c.kind \in {"feed", "refresh"} /\ UNCHANGED rowVars
  \/ c.kind = "vote" /\ c.target \notin deleted /\ Toggle(c.target)
     /\ UNCHANGED <<accepted, written, deleted>>
  \/ c.kind = "accept" /\ c.target \notin deleted /\ accepted' = c.target
     /\ UNCHANGED <<votes, written, deleted>>
  \/ c.kind = "deleteReply" /\ c.target \notin deleted /\ deleted' = deleted \cup {c.target}
     /\ UNCHANGED <<votes, accepted, written>>
  \/ c.kind = "reply" /\ c.target \notin written /\ written' = written \cup {c.target}
     /\ UNCHANGED <<votes, accepted, deleted>>

Serve ==
  /\ \E c \in pageCalls :
       /\ c.answer = <<>>
       /\ Effect(c)
       /\ pageCalls' = (pageCalls \ {c}) \cup
            {[c EXCEPT !.answer = <<PostRow', Replies',
                                    IF c.target \in ReplyIds THEN ReplyRow(c.target, FALSE)'
                                    ELSE NoReply>>]}
  /\ UNCHANGED <<feedVars, threadVars, clicks>>

\* Another visitor's answer.
OtherReplies ==
  /\ \E r \in ReplyIds \ written : written' = written \cup {r}
  /\ \A c \in pageCalls : c.kind = "reply" => c.answer # <<>>
  /\ UNCHANGED <<feedVars, threadVars, pageCalls, votes, accepted, deleted, clicks>>

-----------------------------------------------------------------------------
(* Answers *)

Replace(row) == {IF a.id = row.id THEN row ELSE a : a \in answers}

\* Mutant of MarkAccepted: the answer accepted before keeps its mark.
AddMark(r) == {[a EXCEPT !.accepted = @ \/ a.id = r] : a \in answers}

\* acceptReply and clearAccepted: the mark is moved among the answers shown.
MarkAccepted(r) == {[a EXCEPT !.accepted = a.id = r] : a \in answers}

ThreadAnswer(c) ==
  LET post == c.answer[1] replies == c.answer[2] reply == c.answer[3] IN
  /\ question' = IF c.kind = "refresh" \/ c.kind = "accept" \/ c.target = Thread
                 THEN [post EXCEPT !.voted = @ /\ signedIn] ELSE question
  /\ answers' = CASE c.kind = "refresh" -> IF signedIn THEN replies ELSE Anonymous(replies)
                  [] c.kind = "vote" /\ c.target # Thread -> Replace(reply)
                  [] c.kind = "accept" -> MarkAccepted(c.target)
                  [] c.kind = "reply" -> answers \cup {reply}
                  [] c.kind = "deleteReply" -> {a \in answers : a.id # c.target}
                  [] OTHER -> answers

\* An answer arrives; a vote cast in the feed patches the post there, which
\* shows what the thread does.
AnswerArrives ==
  /\ \E c \in pageCalls :
       /\ c.answer # <<>>
       /\ pageCalls' = pageCalls \ {c}
       /\ IF c.kind = "feed" THEN feed' = c.target /\ UNCHANGED <<question, answers>>
          ELSE ThreadAnswer(c) /\ UNCHANGED feed
  /\ UNCHANGED <<feedView, feedSort, feedQuery, feedError, signedIn, reporting, rowVars, clicks>>

\* A request fails: only the feed's failure shows in place of the posts.
CallFails ==
  /\ \E c \in pageCalls :
       /\ pageCalls' = pageCalls \ {c}
       /\ feedError' = IF c.kind = "feed" THEN TRUE ELSE feedError
  /\ UNCHANGED <<feedView, feedSort, feedQuery, feed, threadVars, rowVars, clicks>>

FeedControls == ChooseView \/ ChooseSort \/ Search \/ ClearSearch
ThreadControls == SignIn \/ ThreadClick \/ ReportDialog

CommunityNext ==
  FeedControls \/ ThreadControls \/ Serve \/ OtherReplies \/ AnswerArrives \/ CallFails

CommunitySpec == CommunityInit /\ [][CommunityNext]_communityVars

-----------------------------------------------------------------------------
(* Properties *)

\* However votes, acceptances, refreshes and their late answers interleave,
\* the thread never shows two answers as the accepted one (the mark is kept
\* once on the question and once on each answer, and changed at both).
OneAnswerAccepted ==
  \A a, b \in answers : a.accepted /\ b.accepted => a.id = b.id
=============================================================================
