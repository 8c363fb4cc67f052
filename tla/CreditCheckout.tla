--------------------------- MODULE CreditCheckout ---------------------------
(***************************************************************************)
(* Buying credits from the builder: the Ask AI panel whose request the     *)
(* server blocks with a 402 (ask-ai-panel.tsx), the purchase modal with    *)
(* its package request and its status polls (credit-purchase-modal.tsx),   *)
(* the provider's hosted checkout, which is a full navigation, and the     *)
(* return to the builder with ?purchase=<id> (builder.tsx).                *)
(*                                                                         *)
(* Requests are answered later, in any order, or fail.  An effect's "alive"*)
(* flag is the field of that name; a page that is left takes its requests  *)
(* and its state with it.                                                  *)
(***************************************************************************)
EXTENDS Naturals, FiniteSets

CONSTANTS PurchaseIds,   \* purchases the server may create
          MaxPollTicks   \* ticks until the poll gives up (60 in the code)

NoPurchase == "none"

ASSUME PollAssumption == MaxPollTicks \in Nat \ {0} /\ NoPurchase \notin PurchaseIds

VARIABLES checkoutPage, \* "builder" or "provider" (the hosted checkout)
          provider,     \* is a payment provider configured
          bought,       \* server: purchase -> "none", "pending" or how it settled
          modalOpen,
          phase,        \* PurchaseModalPhase
          packages,     \* the package request of this opening
          chosenPack,   \* is a pack selected
          pending,      \* the purchase the modal waits for
          interval,     \* ticks of the running poll interval, or 0 for none
          polls,        \* status requests in flight
          creating,     \* is a createPurchase request in flight
          turn,         \* the last AI turn
          blocked       \* does the panel hold a blocked request

modalVars    == <<modalOpen, phase, packages, chosenPack, pending>>
pollVars     == <<interval, polls>>
aiVars       == <<turn, blocked>>
checkoutVars == <<checkoutPage, provider, bought, modalVars, pollVars, creating, aiVars>>

Settled == {"succeeded", "failed", "cancelled"}

-----------------------------------------------------------------------------
\* A page as it loads: nothing open, nothing asked.
FreshPage ==
  /\ modalOpen = FALSE /\ phase = "idle" /\ packages = "none"
  /\ chosenPack = FALSE /\ pending = NoPurchase
  /\ interval = 0 /\ polls = {} /\ creating = FALSE
  /\ turn = "none" /\ blocked = FALSE

CheckoutInit ==
  /\ checkoutPage = "builder"
  /\ provider \in BOOLEAN
  /\ bought = [p \in PurchaseIds |-> "none"]
  /\ FreshPage

\* The ticks of the effect that sent a poll: they count on while it runs, and
\* stand still once it is torn down.
Elapsed(q) == IF q.alive THEN interval ELSE q.elapsed
Dropped(q) == [q EXCEPT !.alive = FALSE, !.elapsed = Elapsed(q)]

\* The poll effect is torn down: its interval stops and answers are ignored.
StopEffect ==
  /\ interval' = 0
  /\ polls' = {Dropped(q) : q \in polls}

\* Opening asks for the packages; the purchase it resumes is polled at once.
Open(purchase) ==
  /\ modalOpen' = TRUE
  /\ packages' = "loading"
  /\ IF purchase = NoPurchase THEN UNCHANGED <<phase, pending, interval, polls>>
     ELSE /\ phase' = "processing" /\ pending' = purchase
          /\ interval' = 1
          /\ polls' = {[purchase |-> purchase, tick |-> 1, alive |-> TRUE, elapsed |-> 0]}
  /\ UNCHANGED chosenPack

OpenFromTopBar ==
  /\ checkoutPage = "builder" /\ ~modalOpen
  /\ Open(NoPurchase)
  /\ UNCHANGED <<checkoutPage, provider, bought, creating, aiVars>>

\* The packages arrive: the phase follows the provider's availability, whatever
\* the phase was.
PackagesAnswer ==
  /\ packages = "loading"
  /\ packages' = "ready"
  /\ phase' = IF provider THEN "idle" ELSE "unavailable"
  /\ chosenPack' = (chosenPack /\ provider)
  /\ IF phase = "processing" THEN StopEffect ELSE UNCHANGED pollVars
  /\ UNCHANGED <<checkoutPage, provider, bought, modalOpen, pending, creating, aiVars>>

PackagesFail ==
  /\ packages = "loading"
  /\ packages' = "failed"
  /\ UNCHANGED <<checkoutPage, provider, bought, modalOpen, phase, chosenPack, pending, pollVars,
                 creating, aiVars>>

SelectPack ==
  /\ modalOpen /\ packages = "ready" /\ provider /\ phase = "idle"
  /\ chosenPack' = TRUE
  /\ UNCHANGED <<checkoutPage, provider, bought, modalOpen, phase, packages, pending, pollVars,
                 creating, aiVars>>

StartCheckout ==
  /\ modalOpen /\ phase = "idle" /\ chosenPack
  /\ phase' = "checkout"
  /\ creating' = TRUE
  /\ UNCHANGED <<checkoutPage, provider, bought, modalOpen, packages, chosenPack, pending, pollVars, aiVars>>

\* The server created the purchase: the browser goes to the provider, which
\* ends this page.
GoToProvider ==
  /\ creating
  /\ \E p \in PurchaseIds : bought[p] = "none" /\ bought' = [bought EXCEPT ![p] = "pending"]
  /\ checkoutPage' = "provider"
  /\ modalOpen' = FALSE /\ phase' = "idle" /\ packages' = "none" /\ chosenPack' = FALSE
  /\ pending' = NoPurchase /\ interval' = 0 /\ polls' = {} /\ creating' = FALSE
  /\ turn' = "none" /\ blocked' = FALSE
  /\ UNCHANGED provider

\* No purchase, or one without a checkout URL: back to the packs.
CheckoutFails ==
  /\ creating
  /\ creating' = FALSE
  /\ phase' = "idle"
  /\ UNCHANGED <<checkoutPage, provider, bought, modalOpen, packages, chosenPack, pending, pollVars, aiVars>>

\* The provider returns the user with ?purchase=<id>: the builder opens the
\* modal on that purchase.
ReturnFromProvider ==
  /\ checkoutPage = "provider"
  /\ checkoutPage' = "builder"
  /\ \E p \in PurchaseIds : bought[p] # "none" /\ Open(p)
  /\ UNCHANGED <<provider, bought, creating, aiVars>>

\* The verified webhook settles a purchase on the server.
Settle ==
  /\ \E p \in PurchaseIds : /\ bought[p] = "pending"
                            /\ \E s \in Settled : bought' = [bought EXCEPT ![p] = s]
  /\ UNCHANGED <<checkoutPage, provider, modalVars, pollVars, creating, aiVars>>

-----------------------------------------------------------------------------
\* The interval asks again; the ticks since the effect began are the deadline.
PollTick ==
  /\ interval \in 1..(MaxPollTicks - 1)
  /\ interval' = interval + 1
  /\ polls' = polls \cup {[purchase |-> pending, tick |-> interval + 1, alive |-> TRUE, elapsed |-> 0]}
  /\ UNCHANGED <<checkoutPage, provider, bought, modalVars, creating, aiVars>>

LeaveProcessing(q, next) ==
  /\ phase' = next
  /\ interval' = 0
  /\ polls' = {Dropped(r) : r \in polls \ {q}}

\* Mutant of PollAnswers: the effect's flag is not asked.
PollAnswersAnyway ==
  /\ \E q \in polls :
       IF bought[q.purchase] = "pending" /\ Elapsed(q) < MaxPollTicks
       THEN polls' = polls \ {q} /\ UNCHANGED <<phase, interval>>
       ELSE LeaveProcessing(q, CASE bought[q.purchase] = "succeeded" -> "success"
                                 [] bought[q.purchase] = "cancelled" -> "cancelled"
                                 [] OTHER -> "failed")
  /\ UNCHANGED <<checkoutPage, provider, bought, modalOpen, packages, chosenPack, pending, creating, aiVars>>

\* A status arrives: an answer the effect no longer waits for is dropped, a
\* pending purchase is asked for again until the deadline.
PollAnswers ==
  /\ \E q \in polls :
       IF ~q.alive \/ (bought[q.purchase] = "pending" /\ Elapsed(q) < MaxPollTicks)
       THEN polls' = polls \ {q} /\ UNCHANGED <<phase, interval>>
       ELSE LeaveProcessing(q, CASE bought[q.purchase] = "succeeded" -> "success"
                                 [] bought[q.purchase] = "cancelled" -> "cancelled"
                                 [] OTHER -> "failed")
  /\ UNCHANGED <<checkoutPage, provider, bought, modalOpen, packages, chosenPack, pending, creating, aiVars>>

\* A status request fails: past the deadline the modal gives up, and here the
\* effect's flag is not asked.
PollFails ==
  /\ \E q \in polls :
       IF Elapsed(q) < MaxPollTicks
       THEN polls' = polls \ {q} /\ UNCHANGED <<phase, interval>>
       ELSE LeaveProcessing(q, "failed")
  /\ UNCHANGED <<checkoutPage, provider, bought, modalOpen, packages, chosenPack, pending, creating, aiVars>>

RetryFromPacks ==
  /\ modalOpen /\ phase \in {"failed", "cancelled"}
  /\ phase' = IF packages = "ready" /\ provider THEN "idle" ELSE "unavailable"
  /\ chosenPack' = FALSE /\ pending' = NoPurchase
  /\ UNCHANGED <<checkoutPage, provider, bought, modalOpen, packages, pollVars, creating, aiVars>>

\* Escape closes in every phase; between openings the transient state is reset.
Close ==
  /\ modalOpen' = FALSE /\ phase' = "idle" /\ packages' = "none"
  /\ chosenPack' = FALSE /\ pending' = NoPurchase
  /\ StopEffect

CloseModal ==
  /\ modalOpen
  /\ Close
  /\ UNCHANGED <<checkoutPage, provider, bought, creating, aiVars>>

\* "Continue with AI" closes and asks the panel to run its blocked request.
ContinueWithAI ==
  /\ modalOpen /\ phase = "success"
  /\ Close
  /\ blocked' = FALSE
  /\ turn' = IF blocked THEN "asking" ELSE turn
  /\ UNCHANGED <<checkoutPage, provider, bought, creating>>

-----------------------------------------------------------------------------
AskAI ==
  /\ checkoutPage = "builder" /\ turn # "asking" /\ ~modalOpen
  /\ turn' = "asking"
  /\ UNCHANGED <<checkoutPage, provider, bought, modalVars, pollVars, creating, blocked>>

\* The assistant answers with a proposal, or the request fails.
AIAnswers ==
  /\ turn = "asking"
  /\ \/ turn' = "proposed" /\ blocked' = FALSE
     \/ turn' = "failed" /\ UNCHANGED blocked
  /\ UNCHANGED <<checkoutPage, provider, bought, modalVars, pollVars, creating>>

\* The server blocks the request for want of credits: the modal opens and the
\* request is kept for "Continue with AI".
AIBlocked ==
  /\ turn = "asking"
  /\ turn' = "failed" /\ blocked' = TRUE
  /\ IF modalOpen THEN UNCHANGED <<modalVars, pollVars>> ELSE Open(NoPurchase)
  /\ UNCHANGED <<checkoutPage, provider, bought, creating>>

\* A proposal is applied (or nothing of it can be), or cancelled.
DecideTurn ==
  /\ turn = "proposed"
  /\ turn' \in {"applied", "failed", "cancelled"}
  /\ UNCHANGED <<checkoutPage, provider, bought, modalVars, pollVars, creating, blocked>>

AnswersArrive == PackagesAnswer \/ PackagesFail \/ PollAnswers \/ PollFails
ModalSteps == SelectPack \/ StartCheckout \/ RetryFromPacks \/ CloseModal \/ ContinueWithAI
Checkout == GoToProvider \/ CheckoutFails \/ ReturnFromProvider \/ Settle
AskAISteps == AskAI \/ AIAnswers \/ AIBlocked \/ DecideTurn

CheckoutNext ==
  OpenFromTopBar \/ AnswersArrive \/ ModalSteps \/ PollTick \/ Checkout \/ AskAISteps

CheckoutSpec == CheckoutInit /\ [][CheckoutNext]_checkoutVars

-----------------------------------------------------------------------------
(***************************************************************************)
(* Properties.                                                             *)
(***************************************************************************)
\* The modal says "success" only of the purchase it waits for and only when
\* the server holds it as settled in success, whatever earlier polls, closed
\* openings and returns left in flight; and it waits for an interval that runs.
SuccessIsVerified ==
  /\ phase = "success" => pending # NoPurchase /\ bought[pending] = "succeeded"
  /\ interval > 0 => modalOpen /\ phase = "processing" /\ pending # NoPurchase
=============================================================================
