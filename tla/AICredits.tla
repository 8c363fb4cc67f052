----------------------------- MODULE AICredits -----------------------------
(***************************************************************************)
(* Spending AI credits: the credit gate, the provider call, the usage      *)
(* ledger and the duplicate guard of internal/ai, for one user.            *)
(*                                                                         *)
(* Nothing is reserved.  A request reads the ledgers, passes the gate,     *)
(* calls the provider, and only then writes its ai_usage row.  Balances    *)
(* are derived: a day draws on packs past its free allowance, and packs    *)
(* hold the grants not expired minus the draws of all days.                *)
(*                                                                         *)
(* The rows of past days never change, so they are kept as the sum of      *)
(* their draws; grants are kept as sums of their amounts.                  *)
(***************************************************************************)
EXTENDS Integers, FiniteSets

CONSTANTS
    Requests,    \* requests the API serves at one time for the user
    Commands,    \* fingerprints of Ask AI commands
    Fix,         \* a "fix with AI" request of the extension studio
    DailyFree,   \* DailyFreeCommands
    Packs,       \* amounts a grant may have
    Kinds,       \* which grants are made: "lasting", "expiring" or both
    MaxGranted,  \* bound: credits granted in a behaviour
    MaxDay,      \* bound: midnights in a behaviour
    MaxFaults    \* bound: ledger statements that fail

ASSUME RequestsAssumption == IsFiniteSet(Requests) /\ Requests # {}
ASSUME FixAssumption == Fix \notin Commands
ASSUME NumbersAssumption ==
    /\ DailyFree \in Nat \ {0}
    /\ Packs \subseteq Nat \ {0}
    /\ Kinds \subseteq {"lasting", "expiring"}
    /\ MaxGranted \in Nat
    /\ MaxDay \in Nat
    /\ MaxFaults \in Nat

Gate   == {"used", "grants", "drawn"}
Passed == {"lookup", "provider", "record"}
PCs    == Gate \cup Passed \cup {"idle", "remember"}

VARIABLES
    day,       \* midnights so far
    today,     \* ok rows of ai_usage created today
    past,      \* pack draws of the days before today
    granted,   \* sum of all credit_grants rows
    active,    \* sum of those not expired
    expiring,  \* the part of active that has an expires_at
    pc, cmd,   \* requests: control state, and what was asked
    read,      \* requests: the active grants they have read
    cached,    \* commands with an unexpired entry in the duplicate guard
    plans,     \* provider answers per command since its entry last expired
    lost,      \* some provider answer has no ai_usage row
    faults     \* ledger statements that failed

ledger   == <<today, past, granted, active, expiring>>
guards   == <<cached, plans>>
vars     == <<day, today, past, granted, active, expiring, pc, cmd, read, cached,
              plans, lost, faults>>

Positive(n) == IF n > 0 THEN n ELSE 0

\* packDrawnTotal: every day draws what it used past the free allowance.
PackDrawn == past + Positive(today - DailyFree)

\* packBalance: what the user sees, never negative.
PackBalance == Positive(active - PackDrawn)

TypeOK ==
    /\ day \in 0..MaxDay
    /\ today \in Nat /\ past \in Nat
    /\ granted \in 0..MaxGranted /\ active \in 0..granted /\ expiring \in 0..active
    /\ pc \in [Requests -> PCs]
    /\ cmd \in [Requests -> Commands \cup {Fix}]
    /\ read \in [Requests -> 0..MaxGranted]
    /\ cached \subseteq Commands
    /\ plans \in [Commands -> Nat]
    /\ lost \in BOOLEAN
    /\ faults \in 0..MaxFaults

Init ==
    /\ day = 0 /\ today = 0 /\ past = 0
    /\ granted = 0 /\ active = 0 /\ expiring = 0
    /\ pc = [r \in Requests |-> "idle"]
    /\ cmd = [r \in Requests |-> Fix]
    /\ read = [r \in Requests |-> 0]
    /\ cached = {}
    /\ plans = [c \in Commands |-> 0]
    /\ lost = FALSE
    /\ faults = 0

-----------------------------------------------------------------------------
(* The ledgers and the clock.                                              *)

\* A purchase or the operator CLI inserts a grant, with or without an expiry.
AwardGrant(n) ==
    /\ granted + n <= MaxGranted
    /\ granted' = granted + n
    /\ active' = active + n
    /\ \E k \in Kinds : expiring' = IF k = "expiring" THEN expiring + n ELSE expiring
    /\ UNCHANGED <<day, today, past, pc, cmd, read, guards, lost, faults>>

\* Grants pass their expires_at.
ExpireGrants ==
    /\ \E n \in 1..expiring : active' = active - n /\ expiring' = expiring - n
    /\ UNCHANGED <<day, today, past, granted, pc, cmd, read, guards, lost, faults>>

\* The allowance is renewed; the draws of the day that ends are kept.
Midnight ==
    /\ day < MaxDay
    /\ day' = day + 1
    /\ past' = PackDrawn
    /\ today' = 0
    /\ UNCHANGED <<granted, active, expiring, pc, cmd, read, guards, lost, faults>>

\* dedupeTTL passes without the command being answered again.
EntryExpires(c) ==
    /\ c \in cached
    /\ cached' = cached \ {c}
    /\ plans' = [plans EXCEPT ![c] = 0]
    /\ UNCHANGED <<day, ledger, pc, cmd, read, lost, faults>>

-----------------------------------------------------------------------------
(* A request: the gate, the guard, the provider, the ledger.               *)

Start(r, c) ==
    /\ pc[r] = "idle"
    /\ pc' = [pc EXCEPT ![r] = "used"]
    /\ cmd' = [cmd EXCEPT ![r] = c]
    /\ UNCHANGED <<day, ledger, read, guards, lost, faults>>

\* A command past the gate goes to the duplicate guard, a fix to the provider.
PassTo(r) == IF cmd[r] = Fix THEN "provider" ELSE "lookup"

\* usedToday: a request inside the free allowance passes.
ReadUsed(r) ==
    /\ pc[r] = "used"
    /\ pc' = [pc EXCEPT ![r] = IF today < DailyFree THEN PassTo(r) ELSE "grants"]
    /\ UNCHANGED <<day, ledger, cmd, read, guards, lost, faults>>

ReadGrants(r) ==
    /\ pc[r] = "grants"
    /\ read' = [read EXCEPT ![r] = active]
    /\ pc' = [pc EXCEPT ![r] = "drawn"]
    /\ UNCHANGED <<day, ledger, cmd, guards, lost, faults>>

\* Mutant of ReadDrawn: an empty balance is enough.
ReadDrawnOffByOne(r) ==
    /\ pc[r] = "drawn"
    /\ pc' = [pc EXCEPT ![r] = IF Positive(read[r] - PackDrawn) >= 0 THEN PassTo(r) ELSE "idle"]
    /\ read' = [read EXCEPT ![r] = 0]
    /\ UNCHANGED <<day, ledger, cmd, guards, lost, faults>>

\* CreditsPerCommand is 1; a smaller balance is answered 402.
ReadDrawn(r) ==
    /\ pc[r] = "drawn"
    /\ pc' = [pc EXCEPT ![r] = IF Positive(read[r] - PackDrawn) >= 1 THEN PassTo(r) ELSE "idle"]
    /\ read' = [read EXCEPT ![r] = 0]
    /\ UNCHANGED <<day, ledger, cmd, guards, lost, faults>>

\* A failing statement of the gate lets the request through.
GateFailsOpen(r) ==
    /\ pc[r] \in Gate
    /\ faults < MaxFaults
    /\ faults' = faults + 1
    /\ pc' = [pc EXCEPT ![r] = PassTo(r)]
    /\ read' = [read EXCEPT ![r] = 0]
    /\ UNCHANGED <<day, ledger, cmd, guards, lost>>

\* Mutant of Lookup: the guard is not asked.
LookupSkipped(r) ==
    /\ pc[r] = "lookup"
    /\ pc' = [pc EXCEPT ![r] = "provider"]
    /\ UNCHANGED <<day, ledger, cmd, read, guards, lost, faults>>

\* An identical command answered inside the window is replayed.
Lookup(r) ==
    /\ pc[r] = "lookup"
    /\ pc' = [pc EXCEPT ![r] = IF cmd[r] \in cached THEN "idle" ELSE "provider"]
    /\ UNCHANGED <<day, ledger, cmd, read, guards, lost, faults>>

\* The provider answers.
Complete(r) ==
    /\ pc[r] = "provider"
    /\ pc' = [pc EXCEPT ![r] = "record"]
    /\ UNCHANGED <<day, ledger, cmd, read, guards, lost, faults>>

\* It fails, times out, is cancelled by a client that leaves, or proposes no usable fix: a row that is
\* not ok, or none at all.
ProviderFails(r) ==
    /\ pc[r] = "provider"
    /\ pc' = [pc EXCEPT ![r] = "idle"]
    /\ UNCHANGED <<day, ledger, cmd, read, guards, lost, faults>>

\* After its row a fix is answered; a command goes on if its answer is usable.
AfterRecord(r) == IF cmd[r] = Fix THEN {"idle"} ELSE {"idle", "remember"}

\* The ok row.
Record(r) ==
    /\ pc[r] = "record"
    /\ today' = today + 1
    /\ \E s \in AfterRecord(r) : pc' = [pc EXCEPT ![r] = s]
    /\ UNCHANGED <<day, past, granted, active, expiring, cmd, read, guards, lost, faults>>

\* The INSERT fails and the error is dropped.  A command's INSERT also fails when its
\* client has left after the answer: it runs in r.Context(); a fix has a context of
\* its own.
RecordFails(r) ==
    /\ pc[r] = "record"
    /\ \/ cmd[r] # Fix /\ UNCHANGED faults
       \/ faults < MaxFaults /\ faults' = faults + 1
    /\ lost' = TRUE
    /\ \E s \in AfterRecord(r) : pc' = [pc EXCEPT ![r] = s]
    /\ UNCHANGED <<day, ledger, cmd, read, guards>>

\* The answer enters the duplicate guard and is sent.
Remember(r) ==
    /\ pc[r] = "remember"
    /\ cached' = cached \cup {cmd[r]}
    /\ plans' = [plans EXCEPT ![cmd[r]] = @ + 1]
    /\ pc' = [pc EXCEPT ![r] = "idle"]
    /\ UNCHANGED <<day, ledger, cmd, read, lost, faults>>

-----------------------------------------------------------------------------
Serve(r) ==
    \/ ReadUsed(r) \/ ReadGrants(r) \/ ReadDrawn(r) \/ GateFailsOpen(r)
    \/ Lookup(r)
    \/ Complete(r) \/ ProviderFails(r)
    \/ Record(r) \/ RecordFails(r)
    \/ Remember(r)

Next ==
    \/ \E n \in Packs : AwardGrant(n)
    \/ ExpireGrants
    \/ Midnight
    \/ \E c \in Commands : EntryExpires(c)
    \/ \E r \in Requests, c \in Commands \cup {Fix} : Start(r, c)
    \/ \E r \in Requests : Serve(r)

Spec == Init /\ [][Next]_vars

-----------------------------------------------------------------------------
(* Safety.                                                                 *)

\* What was served beyond the free allowance and every credit ever granted is
\* explained: each day the requests in flight with the last one that was covered,
\* and each failure the gate let through (creditGate checks, record writes later).
OverdraftIsBounded ==
    PackDrawn <= granted + (day + 1) * (Cardinality(Requests) - 1) + faults

\* A command repeated inside the window costs no more answers than requests can be
\* between lookup and remember at once (dedupe.go).
DuplicatesAreBounded ==
    \A c \in Commands : plans[c] <= Cardinality(Requests)
=============================================================================
