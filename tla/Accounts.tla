------------------------------- MODULE Accounts -------------------------------
(***************************************************************************)
(* One account, its sessions and its reset links (internal/auth), used     *)
(* from several browsers: the auth provider each page mounts               *)
(* (auth-provider.tsx), the sign-in, forgotten-password, reset and change- *)
(* password forms, and the guard of the signed-in pages.                   *)
(*                                                                         *)
(* An operation of the server is a sequence of statements, each atomic;    *)
(* operations of different requests interleave between them.  A password   *)
(* is the number of the change that set it.                                *)
(***************************************************************************)
EXTENDS Naturals, FiniteSets

CONSTANTS Browsers,        \* browsers the owner uses
          MaxRequests,     \* bound: requests of a behaviour
          MaxUnderWay      \* bound: requests under way at once

ASSUME AccountBoundsAssumption == MaxRequests \in Nat /\ MaxUnderWay \in Nat

VARIABLES
  password,   \* the stored hash
  sessions,   \* session rows: id and the password they were opened with
  links,      \* reset links: id, is it used, how often it set the password
  cookie,     \* browser -> the session its cookie names, or NoSession
  authStatus, \* browser -> "loading", "authenticated", "unauthenticated"
  requests,   \* operations under way
  requested   \* requests so far; also the next id

accountVars == <<password, sessions, links, cookie, authStatus, requests, requested>>

NoSession == 0
Live(s) == \E row \in sessions : row.id = s

\* The owner is signed in at some browser; every page restores its session.
AccountInit ==
  /\ password = 0
  /\ \E b \in Browsers : cookie = [x \in Browsers |-> IF x = b THEN 1 ELSE NoSession]
  /\ sessions = {[id |-> 1, password |-> 0]}
  /\ links = {}
  /\ authStatus = [b \in Browsers |-> "loading"]
  /\ requests = {[kind |-> "me", at |-> b, step |-> "sent", holds |-> cookie[b], id |-> 0] :
                 b \in Browsers}
  /\ requested = 1

-----------------------------------------------------------------------------
(* What a browser sends *)

Request(kind, b, holds) ==
  /\ requested < MaxRequests /\ Cardinality(requests) < MaxUnderWay
  /\ requests' = requests \cup {[kind |-> kind, at |-> b, step |-> "sent", holds |-> holds,
                                 id |-> requested + 1]}
  /\ requested' = requested + 1
  /\ UNCHANGED <<password, sessions, links, cookie, authStatus>>

\* A form is disabled while its own request is pending.
Pending(kind, b) == \E r \in requests : r.kind = kind /\ r.at = b

\* LoginForm: with the password as it is now, or was before (a typo, or a
\* password changed meanwhile).
SendLogin(b) ==
  /\ ~Pending("login", b)
  /\ \E p \in {password, 0} : Request("login", b, p)

\* refresh, after a mail link or a saved profile, asks who the cookie names.
SendMe(b) == Request("me", b, cookie[b])

SendLogout(b) == authStatus[b] = "authenticated" /\ Request("logout", b, cookie[b])

SendForgot(b) == ~Pending("forgot", b) /\ Request("forgot", b, 0)

\* ResetPasswordForm, opened on a link that its validation found usable.
SendReset(b) ==
  /\ ~Pending("reset", b)
  /\ \E l \in links : ~l.used /\ Request("reset", b, l.id)

\* ChangePasswordForm, behind the guard of the signed-in pages.
SendChange(b) ==
  /\ ~Pending("change", b) /\ authStatus[b] = "authenticated" /\ cookie[b] # NoSession
  /\ Request("change", b, cookie[b])

-----------------------------------------------------------------------------
(* The server, a statement at a time *)

AtStep(r, kind, step) == r.kind = kind /\ r.step = step
MoveTo(r, step) == requests' = (requests \ {r}) \cup {[r EXCEPT !.step = step]}

\* Authenticate: the session row is read.
ServeMe(r) ==
  /\ AtStep(r, "me", "sent")
  /\ MoveTo(r, IF Live(r.holds) THEN "ok" ELSE "refused")
  /\ UNCHANGED <<password, sessions, links>>

\* Login: the hash is read and compared ...
CheckPassword(r) ==
  /\ AtStep(r, "login", "sent")
  /\ MoveTo(r, IF r.holds = password THEN "checked" ELSE "refused")
  /\ UNCHANGED <<password, sessions, links>>

\* ... and the session is created in a later statement.
CreateSession(r) ==
  /\ AtStep(r, "login", "checked")
  /\ sessions' = sessions \cup {[id |-> r.id, password |-> r.holds]}
  /\ MoveTo(r, "ok")
  /\ UNCHANGED <<password, links>>

DeleteSession(r) ==
  /\ AtStep(r, "logout", "sent")
  /\ sessions' = {s \in sessions : s.id # r.holds}
  /\ MoveTo(r, "ok")
  /\ UNCHANGED <<password, links>>

\* Issue deletes the account's links ...
ClearLinks(r) ==
  /\ AtStep(r, "forgot", "sent")
  /\ links' = {}
  /\ MoveTo(r, "cleared")
  /\ UNCHANGED <<password, sessions>>

\* ... and inserts the new one, which is mailed.
InsertLink(r) ==
  /\ AtStep(r, "forgot", "cleared")
  /\ links' = links \cup {[id |-> r.id, used |-> FALSE, sets |-> 0]}
  /\ MoveTo(r, "ok")
  /\ UNCHANGED <<password, sessions>>

\* Mutant of Consume: the link is found usable, and marked by nobody.
ConsumeChecksOnly(r) ==
  /\ AtStep(r, "reset", "sent")
  /\ MoveTo(r, IF \E l \in links : l.id = r.holds /\ ~l.used THEN "consumed" ELSE "refused")
  /\ UNCHANGED <<password, sessions, links>>

\* Consume checks and marks the link in one statement.
Consume(r) ==
  /\ AtStep(r, "reset", "sent")
  /\ \/ \E l \in links : /\ l.id = r.holds /\ ~l.used
                         /\ links' = (links \ {l}) \cup {[l EXCEPT !.used = TRUE]}
                         /\ MoveTo(r, "consumed")
     \/ /\ \A l \in links : l.id = r.holds => l.used
        /\ MoveTo(r, "refused") /\ UNCHANGED links
  /\ UNCHANGED <<password, sessions>>

\* ChangePassword reads the session and compares the current password.
CheckCurrent(r) ==
  /\ AtStep(r, "change", "sent")
  /\ MoveTo(r, IF Live(r.holds) THEN "consumed" ELSE "refused")
  /\ UNCHANGED <<password, sessions, links>>

\* UpdatePassword, of a reset and of a change.
UpdatePassword(r) ==
  /\ AtStep(r, "reset", "consumed") \/ AtStep(r, "change", "consumed")
  /\ password' = r.id
  /\ links' = {IF r.kind = "reset" /\ l.id = r.holds THEN [l EXCEPT !.sets = @ + 1] ELSE l :
               l \in links}
  /\ MoveTo(r, "stored")
  /\ UNCHANGED sessions

\* Every session goes, or every one but this device's; a failure leaves them.
RevokeSessions(r) ==
  /\ r.step = "stored"
  /\ \/ /\ sessions' = {s \in sessions : r.kind = "change" /\ s.id = r.holds}
        /\ MoveTo(r, "ok")
     \/ MoveTo(r, "failed") /\ UNCHANGED sessions
  /\ UNCHANGED <<password, links>>

-----------------------------------------------------------------------------
(* Answers *)

\* The provider takes what an answer says, in whatever order answers come: a
\* user, or nobody after a refused restore and after any logout.
Told(r, answered) ==
  CASE r.kind = "me" -> IF answered = "ok" THEN "authenticated" ELSE "unauthenticated"
    [] r.kind = "login" /\ answered = "ok" -> "authenticated"
    [] r.kind = "logout" -> "unauthenticated"
    [] OTHER -> authStatus[r.at]

ResponseArrives(r) ==
  /\ r.step \in {"ok", "refused", "failed"}
  /\ requests' = requests \ {r}
  /\ cookie' = [cookie EXCEPT ![r.at] = CASE r.kind = "login" /\ r.step = "ok" -> r.id
                                          [] r.kind = "logout" -> NoSession
                                          [] OTHER -> @]
  /\ authStatus' = [authStatus EXCEPT ![r.at] = Told(r, r.step)]

\* The network fails under a request, served or not: the cookie stays.
ResponseLost(r) ==
  /\ r.step \in {"sent", "ok", "refused", "failed"}
  /\ requests' = requests \ {r}
  /\ authStatus' = [authStatus EXCEPT ![r.at] = Told(r, "lost")]
  /\ UNCHANGED cookie

-----------------------------------------------------------------------------
SignInForms == \E b \in Browsers : SendLogin(b) \/ SendForgot(b) \/ SendReset(b)
SignedInPages == \E b \in Browsers : SendMe(b) \/ SendLogout(b) \/ SendChange(b)

AuthService == \E r \in requests :
  /\ \/ ServeMe(r) \/ CheckPassword(r) \/ CreateSession(r) \/ DeleteSession(r)
     \/ ClearLinks(r) \/ InsertLink(r) \/ Consume(r) \/ CheckCurrent(r)
     \/ UpdatePassword(r) \/ RevokeSessions(r)
  /\ UNCHANGED <<cookie, authStatus, requested>>

Provider == \E r \in requests :
  /\ ResponseArrives(r) \/ ResponseLost(r)
  /\ UNCHANGED <<password, sessions, links, requested>>

AccountNext == SignInForms \/ SignedInPages \/ AuthService \/ Provider

AccountSpec == AccountInit /\ [][AccountNext]_accountVars

-----------------------------------------------------------------------------
(* Properties *)

\* A reset link sets the password at most once, whichever pages submit it at
\* the same time (Consume: "concurrent reuse cannot both win"), and never
\* without having been marked.
LinksWorkOnce == \A l \in links : l.sets <= 1 /\ (l.sets = 1 => l.used)
=============================================================================
