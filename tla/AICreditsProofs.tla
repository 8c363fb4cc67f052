-------------------------- MODULE AICreditsProofs --------------------------
(***************************************************************************)
(* How far the ledger can be overdrawn, for any number of requests, any    *)
(* allowance and any grants.                                               *)
(*                                                                         *)
(* OverdraftIsBounded says nothing of the requests that have passed the    *)
(* gate and not yet written their row, and so is not inductive.  Today     *)
(* charges them all to the present day in advance; Before keeps the bound  *)
(* for the days that ended, which is what a request that passes on the     *)
(* free allowance of a new day falls back to.  Types need Asked: only a    *)
(* command's answer enters the duplicate guard.                            *)
(***************************************************************************)
EXTENDS AICredits, FiniteSetTheorems, TLAPS

R == Cardinality(Requests)

InFlight == {r \in Requests : pc[r] \in Passed}
Load == Cardinality(InFlight)

Bound(d) == granted + d * (R - 1) + faults

Before == past <= Bound(day)
Today  == past + Positive(today + Load - DailyFree) <= Bound(day + 1)
Reads  == \A r \in Requests : read[r] <= granted

Asked  == \A r \in Requests : pc[r] = "remember" => cmd[r] # Fix

IInv == TypeOK /\ Asked /\ Before /\ Today /\ Reads

-----------------------------------------------------------------------------
(* Counting requests in flight.                                            *)

\* There is at least one request slot.
LEMMA SlotsExist == R \in Nat /\ R >= 1
<1>1. R \in Nat /\ R # 0
  BY FS_CardinalityType, FS_EmptySet, RequestsAssumption DEF R
<1>2. QED
  BY <1>1

\* The requests in flight are some of the requests.
LEMMA LoadType == IsFiniteSet(InFlight) /\ Load \in Nat /\ Load <= R
<1>1. InFlight \in SUBSET Requests
  BY DEF InFlight
<1>2. QED
  BY <1>1, FS_Subset, FS_CardinalityType, RequestsAssumption DEF Load, R

\* A request that moves from one control state to another is counted by them.
LEMMA LoadStep ==
    ASSUME TypeOK, NEW r \in Requests, NEW s \in PCs, pc' = [pc EXCEPT ![r] = s]
    PROVE  /\ Load' \in Nat
           /\ Load' <= R
           /\ Load' = Load + (IF s \in Passed THEN 1 ELSE 0)
                           - (IF pc[r] \in Passed THEN 1 ELSE 0)
<1>1. InFlight' = IF s \in Passed THEN InFlight \cup {r} ELSE InFlight \ {r}
  BY DEF InFlight, TypeOK
<1>2. r \in InFlight <=> pc[r] \in Passed
  BY DEF InFlight
<1>3. Load \in Nat /\ IsFiniteSet(InFlight)
  BY LoadType
<1>4. CASE s \in Passed
  <2>1. Load' = IF r \in InFlight THEN Load ELSE Load + 1
    BY <1>1, <1>3, <1>4, FS_AddElement DEF Load
  <2>2. Load' = Load + (IF s \in Passed THEN 1 ELSE 0) - (IF pc[r] \in Passed THEN 1 ELSE 0)
    BY <2>1, <1>2, <1>3, <1>4
  <2>3. InFlight' \in SUBSET Requests
    BY <1>1, <1>4 DEF InFlight
  <2>4. Load' \in Nat /\ Load' <= R
    BY <2>3, FS_Subset, FS_CardinalityType, RequestsAssumption DEF Load, R
  <2>5. QED
    BY <2>2, <2>4
<1>5. CASE s \notin Passed
  <2>1. Load' = IF r \in InFlight THEN Load - 1 ELSE Load
    BY <1>1, <1>3, <1>5, FS_RemoveElement DEF Load
  <2>2. Load' = Load + (IF s \in Passed THEN 1 ELSE 0) - (IF pc[r] \in Passed THEN 1 ELSE 0)
    BY <2>1, <1>2, <1>3, <1>5
  <2>3. InFlight' \in SUBSET Requests
    BY <1>1, <1>5 DEF InFlight
  <2>4. Load' \in Nat /\ Load' <= R
    BY <2>3, FS_Subset, FS_CardinalityType, RequestsAssumption DEF Load, R
  <2>5. QED
    BY <2>2, <2>4
<1>6. QED
  BY <1>4, <1>5

\* A day more allows for R - 1 requests more, and no day takes any away.
LEMMA BoundGrows ==
    ASSUME TypeOK, NEW d \in Nat
    PROVE  /\ Bound(d) \in Int
           /\ Bound(d + 1) = Bound(d) + (R - 1)
           /\ Bound(d) >= granted + faults
<1> DEFINE k == R - 1
<1>1. k \in Nat
  BY SlotsExist
<1>2. granted \in Nat /\ faults \in Nat
  BY NumbersAssumption DEF TypeOK
<1>3. d * k \in Nat /\ (d + 1) * k = d * k + k
  BY <1>1
<1> HIDE DEF k
<1>4. Bound(d) = granted + d * k + faults /\ Bound(d + 1) = granted + (d + 1) * k + faults
  BY DEF Bound, k
<1>5. QED
  BY <1>1, <1>2, <1>3, <1>4 DEF k

-----------------------------------------------------------------------------
(* Arithmetic of the bound.                                                *)

\* Fewer requests in flight and more failures keep the bound.
LEMMA QuietStep ==
    ASSUME IInv, TypeOK', UNCHANGED <<day, today, past, granted>>,
           faults' >= faults, Load' \in Nat, Load' <= Load
    PROVE  Before' /\ Today'
<1>1. today \in Nat /\ past \in Nat /\ day \in Nat /\ DailyFree \in Nat /\ Load \in Nat
      /\ faults \in Nat /\ faults' \in Nat /\ granted \in Nat
  BY LoadType, NumbersAssumption DEF IInv, TypeOK
<1>2. /\ Bound(day) \in Int /\ Bound(day + 1) \in Int
      /\ Bound(day)' = Bound(day) + (faults' - faults)
      /\ Bound(day + 1)' = Bound(day + 1) + (faults' - faults)
  <2>1. Bound(day) \in Int /\ Bound(day + 1) \in Int
    BY <1>1, BoundGrows DEF IInv
  <2>2. day * (R - 1) \in Int /\ (day + 1) * (R - 1) \in Int
    BY <1>1, SlotsExist
  <2>3. /\ Bound(day) = granted + day * (R - 1) + faults
        /\ Bound(day + 1) = granted + (day + 1) * (R - 1) + faults
        /\ Bound(day)' = granted + day * (R - 1) + faults'
        /\ Bound(day + 1)' = granted + (day + 1) * (R - 1) + faults'
    BY DEF Bound
  <2>4. QED
    BY <1>1, <2>1, <2>2, <2>3
<1>3. Before'
  BY <1>1, <1>2 DEF IInv, Before
<1>4. PICK n \in Nat : n = Load'
  OBVIOUS
<1>5. n <= Load
  BY <1>4
<1>6. /\ Positive(today + n - DailyFree) <= Positive(today + Load - DailyFree)
      /\ Positive(today + n - DailyFree) \in Nat /\ Positive(today + Load - DailyFree) \in Nat
  BY <1>1, <1>5 DEF Positive
<1>7. past + Positive(today + n - DailyFree) <= Bound(day + 1) + (faults' - faults)
  BY <1>1, <1>2, <1>6 DEF IInv, Today
<1>8. Today'
  BY <1>2, <1>4, <1>7 DEF Today
<1>9. QED
  BY <1>3, <1>8

\* A request that passes on the free allowance adds what the day may exceed it by.
LEMMA FreePass ==
    ASSUME IInv, NEW r \in Requests, ReadUsed(r), today < DailyFree
    PROVE  Before' /\ Today'
<1>1. today \in Nat /\ past \in Nat /\ day \in Nat /\ DailyFree \in Nat
  BY NumbersAssumption DEF IInv, TypeOK
<1>2. PassTo(r) \in PCs
  BY DEF PassTo, PCs, Passed
<1>3. Load' \in Nat /\ Load' <= R
  BY <1>2, LoadStep DEF ReadUsed, IInv
<1>4. UNCHANGED <<day, today, past, granted, faults>>
  BY DEF ReadUsed, ledger
<1>5. Bound(day)' = Bound(day) /\ Bound(day + 1)' = Bound(day + 1)
  BY <1>4 DEF Bound
<1>6. Bound(day + 1) = Bound(day) + (R - 1) /\ Bound(day) \in Int /\ R \in Nat /\ R >= 1
  BY <1>1, BoundGrows, SlotsExist DEF IInv
<1>7. PICK n \in Nat : n = Load'
  BY <1>3
<1>8. Positive(today + n - DailyFree) <= R - 1 /\ Positive(today + n - DailyFree) \in Int
  <2>1. n <= R
    BY <1>3, <1>7
  <2>2. QED
    BY <1>1, <1>6, <2>1 DEF Positive
<1>9. past + Positive(today + n - DailyFree) <= Bound(day + 1)
  BY <1>1, <1>6, <1>8 DEF IInv, Before
<1>10. QED
  BY <1>4, <1>5, <1>7, <1>9 DEF IInv, Before, Today

\* A request that passes on a pack found every earlier draw covered.
LEMMA PackPass ==
    ASSUME IInv, NEW r \in Requests, ReadDrawn(r), Positive(read[r] - PackDrawn) >= 1
    PROVE  Before' /\ Today'
<1>1. /\ today \in Nat /\ past \in Nat /\ day \in Nat /\ DailyFree \in Nat
      /\ granted \in Nat /\ faults \in Nat /\ read[r] \in Int /\ read[r] <= granted
  BY NumbersAssumption DEF IInv, TypeOK, Reads
<1>2. PassTo(r) \in PCs
  BY DEF PassTo, PCs, Passed
<1>3. Load' \in Nat /\ Load' <= R
  BY <1>2, LoadStep DEF ReadDrawn, IInv
<1>4. UNCHANGED <<day, today, past, granted, faults>>
  BY DEF ReadDrawn, ledger
<1>5. Bound(day)' = Bound(day) /\ Bound(day + 1)' = Bound(day + 1)
  BY <1>4 DEF Bound
<1>6. /\ Bound(day + 1) = Bound(day) + (R - 1) /\ Bound(day) \in Int
      /\ Bound(day) >= granted + faults /\ R \in Nat /\ R >= 1
  BY <1>1, BoundGrows, SlotsExist DEF IInv
<1>7. past + Positive(today - DailyFree) <= granted - 1
  BY <1>1 DEF PackDrawn, Positive
<1>8. PICK n \in Nat : n = Load'
  BY <1>3
<1>9. /\ Positive(today + n - DailyFree) <= Positive(today - DailyFree) + R
      /\ Positive(today + n - DailyFree) \in Int /\ Positive(today - DailyFree) \in Int
  <2>1. n <= R
    BY <1>3, <1>8
  <2>2. QED
    BY <1>1, <1>6, <2>1 DEF Positive
<1>10. past + Positive(today + n - DailyFree) <= Bound(day + 1)
  BY <1>1, <1>6, <1>7, <1>9
<1>11. QED
  BY <1>4, <1>5, <1>8, <1>10 DEF IInv, Before, Today

\* A request that a failing ledger lets through is paid for by the failure.
LEMMA FailOpenPass ==
    ASSUME IInv, NEW r \in Requests, GateFailsOpen(r)
    PROVE  Before' /\ Today'
<1>1. today \in Nat /\ past \in Nat /\ day \in Nat /\ DailyFree \in Nat /\ Load \in Nat
      /\ faults \in Nat /\ granted \in Nat
  BY LoadType, NumbersAssumption DEF IInv, TypeOK
<1>2. PassTo(r) \in PCs /\ PassTo(r) \in Passed /\ pc[r] \notin Passed
  BY DEF PassTo, PCs, Passed, GateFailsOpen, Gate
<1>3. Load' = Load + 1
  <2>1. pc' = [pc EXCEPT ![r] = PassTo(r)] /\ TypeOK
    BY DEF GateFailsOpen, IInv
  <2>2. Load' = Load + (IF PassTo(r) \in Passed THEN 1 ELSE 0) - (IF pc[r] \in Passed THEN 1 ELSE 0)
    BY <1>2, <2>1, LoadStep
  <2>3. Load' = Load + 1 - 0
    BY <1>2, <2>2
  <2>4. QED
    BY <1>1, <2>3
<1>4. UNCHANGED <<day, today, past, granted>> /\ faults' = faults + 1
  BY DEF GateFailsOpen, ledger
<1>5. Bound(day)' = Bound(day) + 1 /\ Bound(day + 1)' = Bound(day + 1) + 1
  <2>1. day * (R - 1) \in Int /\ (day + 1) * (R - 1) \in Int
    BY <1>1, SlotsExist
  <2>2. QED
    BY <1>1, <1>4, <2>1 DEF Bound
<1>6. Bound(day) \in Int /\ Bound(day + 1) \in Int
  BY <1>1, BoundGrows DEF IInv
<1>7. Before'
  BY <1>1, <1>4, <1>5, <1>6 DEF IInv, Before
<1>8. Positive(today + (Load + 1) - DailyFree) <= Positive(today + Load - DailyFree) + 1
      /\ Positive(today + (Load + 1) - DailyFree) \in Int
      /\ Positive(today + Load - DailyFree) \in Int
  BY <1>1 DEF Positive
<1>9. past + Positive(today + (Load + 1) - DailyFree) <= Bound(day + 1) + 1
  BY <1>1, <1>6, <1>8 DEF IInv, Today
<1>10. Today'
  BY <1>3, <1>4, <1>5, <1>9 DEF Today
<1>11. QED
  BY <1>7, <1>10

\* A row that is written was charged to the day when its request passed.
LEMMA RecordStep ==
    ASSUME IInv, NEW r \in Requests, Record(r)
    PROVE  Before' /\ Today'
<1>1. today \in Nat /\ past \in Nat /\ day \in Nat /\ DailyFree \in Nat /\ Load \in Nat
  BY LoadType, NumbersAssumption DEF IInv, TypeOK
<1>2. PICK s \in {"idle", "remember"} : pc' = [pc EXCEPT ![r] = s]
  BY DEF Record, AfterRecord
<1>3. pc[r] \in Passed /\ s \in PCs /\ s \notin Passed
  BY <1>2 DEF Record, Passed, PCs
<1>4. Load' = Load - 1
  <2>1. Load' = Load + (IF s \in Passed THEN 1 ELSE 0) - (IF pc[r] \in Passed THEN 1 ELSE 0)
    BY <1>2, <1>3, LoadStep DEF IInv
  <2>2. Load' = Load + 0 - 1
    BY <1>3, <2>1
  <2>3. QED
    BY <1>1, <2>2
<1>5. UNCHANGED <<day, past, granted, faults>> /\ today' = today + 1
  BY DEF Record
<1>6. Bound(day)' = Bound(day) /\ Bound(day + 1)' = Bound(day + 1)
  BY <1>5 DEF Bound
<1>7. today' + Load' - DailyFree = today + Load - DailyFree
  BY <1>1, <1>4, <1>5
<1>8. Before'
  BY <1>5, <1>6 DEF IInv, Before
<1>9. Today'
  <2>1. Positive(today' + Load' - DailyFree) = Positive(today + Load - DailyFree)
    BY <1>7
  <2>2. QED
    BY <1>5, <1>6, <2>1 DEF IInv, Today
<1>10. QED
  BY <1>8, <1>9

\* Midnight charges the day that ends with its rows and the next with the rest.
LEMMA MidnightStep ==
    ASSUME IInv, Midnight
    PROVE  Before' /\ Today'
<1>1. today \in Nat /\ past \in Nat /\ day \in Nat /\ DailyFree \in Nat /\ Load \in Nat
      /\ DailyFree >= 1 /\ Load <= R /\ R \in Nat
  BY LoadType, SlotsExist, NumbersAssumption DEF IInv, TypeOK
<1>2. /\ day' = day + 1 /\ today' = 0 /\ past' = past + Positive(today - DailyFree)
      /\ UNCHANGED <<granted, faults, pc>>
  BY DEF Midnight, PackDrawn
<1>3. Load' = Load
  BY <1>2 DEF Load, InFlight
<1>4. /\ Bound(day + 1) \in Int /\ Bound(day + 2) = Bound(day + 1) + (R - 1)
  <2>1. day + 1 \in Nat /\ (day + 1) + 1 = day + 2
    BY <1>1
  <2>2. QED
    BY <2>1, BoundGrows DEF IInv
<1>5. Bound(day)' = Bound(day + 1) /\ Bound(day + 1)' = Bound(day + 2)
  <2>1. (day + 1)' = day + 2
    BY <1>1, <1>2
  <2>2. QED
    BY <1>2, <2>1 DEF Bound
<1>6. past + Positive(today - DailyFree) <= Bound(day + 1)
  BY <1>1, <1>4 DEF IInv, Today, Positive
<1>7. Positive(0 + Load - DailyFree) <= R - 1
  BY <1>1, SlotsExist DEF Positive
<1>8. Positive(0 + Load - DailyFree) \in Int /\ Positive(today - DailyFree) \in Int
  BY <1>1 DEF Positive
<1>9. Before'
  BY <1>2, <1>5, <1>6 DEF Before
<1>10. past + Positive(today - DailyFree) + Positive(0 + Load - DailyFree) <= Bound(day + 2)
  BY <1>1, <1>4, <1>6, <1>7, <1>8
<1>11. Today'
  BY <1>2, <1>3, <1>5, <1>10 DEF Today
<1>12. QED
  BY <1>9, <1>11

\* A grant raises the bound by its amount.
LEMMA GrantStep ==
    ASSUME IInv, NEW n \in Packs, AwardGrant(n)
    PROVE  Before' /\ Today'
<1>1. /\ today \in Nat /\ past \in Nat /\ day \in Nat /\ DailyFree \in Nat /\ Load \in Nat
      /\ granted \in Nat /\ faults \in Nat /\ n \in Nat
  BY LoadType, NumbersAssumption DEF IInv, TypeOK
<1>2. UNCHANGED <<day, today, past, faults, pc>> /\ granted' = granted + n
  BY DEF AwardGrant
<1>3. Load' = Load
  BY <1>2 DEF Load, InFlight
<1>4. /\ Bound(day)' = Bound(day) + n /\ Bound(day + 1)' = Bound(day + 1) + n
      /\ Bound(day) \in Int /\ Bound(day + 1) \in Int
  <2>1. day * (R - 1) \in Int /\ (day + 1) * (R - 1) \in Int
    BY <1>1, SlotsExist
  <2>2. /\ Bound(day)' = granted + n + day * (R - 1) + faults
        /\ Bound(day + 1)' = granted + n + (day + 1) * (R - 1) + faults
    BY <1>2 DEF Bound
  <2>3. QED
    BY <1>1, <2>1, <2>2 DEF Bound
<1>5. Positive(today + Load - DailyFree) \in Int
  BY <1>1 DEF Positive
<1>6. QED
  BY <1>1, <1>2, <1>3, <1>4, <1>5 DEF IInv, Before, Today

-----------------------------------------------------------------------------
(* Every step keeps the invariant.                                         *)

\* The initial state has no rows and no requests.
LEMMA InitIInv == Init => IInv
<1> SUFFICES ASSUME Init PROVE IInv
  OBVIOUS
<1>1. TypeOK
  <2>1. day \in 0..MaxDay /\ faults \in 0..MaxFaults /\ granted \in 0..MaxGranted
    BY NumbersAssumption DEF Init
  <2>2. active \in 0..granted /\ expiring \in 0..active
    BY DEF Init
  <2>3. read \in [Requests -> 0..MaxGranted]
    BY NumbersAssumption DEF Init
  <2>4. QED
    BY <2>1, <2>2, <2>3 DEF Init, TypeOK, PCs
<1>2. InFlight = {}
  BY DEF Init, InFlight, Passed
<1>3. Load = 0
  BY <1>2, FS_EmptySet DEF Load
<1>4. /\ Bound(0) >= 0 /\ Bound(0) \in Int /\ Bound(0 + 1) >= 0 /\ Bound(0 + 1) \in Int
  BY <1>1, BoundGrows, SlotsExist DEF Init
<1>5. Before
  BY <1>4 DEF Init, Before
<1>6. past + Positive(today + Load - DailyFree) = 0
  BY <1>3, NumbersAssumption DEF Init, Positive
<1>7. Today
  BY <1>4, <1>6 DEF Init, Today
<1>8. Reads
  BY DEF Init, Reads
<1>9. Asked
  BY DEF Init, Asked
<1>10. QED
  BY <1>1, <1>5, <1>7, <1>8, <1>9 DEF IInv

\* Every step keeps the types.
LEMMA TypeStep == TypeOK /\ Asked /\ [Next]_vars => TypeOK'
<1> SUFFICES ASSUME TypeOK, Asked, [Next]_vars PROVE TypeOK'
  OBVIOUS
<1> USE NumbersAssumption
<1>1. ASSUME NEW n \in Packs, AwardGrant(n) PROVE TypeOK'
  <2>1. granted' \in 0..MaxGranted /\ active' \in 0..granted'
    BY <1>1 DEF AwardGrant, TypeOK
  <2>2. expiring' \in 0..active'
    BY <1>1 DEF AwardGrant, TypeOK
  <2>3. QED
    BY <1>1, <2>1, <2>2 DEF AwardGrant, TypeOK, guards
<1>2. CASE ExpireGrants
  <2>1. active' \in 0..granted /\ expiring' \in 0..active'
    BY <1>2 DEF ExpireGrants, TypeOK
  <2>2. QED
    BY <1>2, <2>1 DEF ExpireGrants, TypeOK, guards
<1>3. CASE Midnight
  <2>1. past' \in Nat /\ day' \in 0..MaxDay /\ today' = 0
    BY <1>3 DEF Midnight, TypeOK, PackDrawn, Positive
  <2>2. QED
    BY <1>3, <2>1 DEF Midnight, TypeOK, guards
<1>4. ASSUME NEW c \in Commands, EntryExpires(c) PROVE TypeOK'
  <2>1. cached' \subseteq Commands /\ plans' \in [Commands -> Nat]
    BY <1>4 DEF EntryExpires, TypeOK
  <2>2. QED
    BY <1>4, <2>1 DEF EntryExpires, TypeOK, ledger
<1>5. ASSUME NEW r \in Requests, NEW c \in Commands \cup {Fix}, Start(r, c) PROVE TypeOK'
  BY <1>5 DEF Start, TypeOK, ledger, guards, PCs, Gate
<1>6. ASSUME NEW r \in Requests, Serve(r) PROVE TypeOK'
  <2>1. PassTo(r) \in PCs /\ AfterRecord(r) \subseteq PCs
    BY DEF PassTo, AfterRecord, PCs, Passed
  <2>2. CASE ReadUsed(r)
    BY <2>1, <2>2 DEF ReadUsed, TypeOK, ledger, guards, PCs, Gate
  <2>3. CASE ReadGrants(r)
    <3>1. read' \in [Requests -> 0..MaxGranted]
      BY <2>3 DEF ReadGrants, TypeOK
    <3>2. QED
      BY <2>3, <3>1 DEF ReadGrants, TypeOK, ledger, guards, PCs, Gate
  <2>4. CASE ReadDrawn(r)
    BY <2>1, <2>4 DEF ReadDrawn, TypeOK, ledger, guards, PCs
  <2>5. CASE GateFailsOpen(r)
    BY <2>1, <2>5 DEF GateFailsOpen, TypeOK, ledger, guards
  <2>6. CASE Lookup(r)
    BY <2>6 DEF Lookup, TypeOK, ledger, guards, PCs, Passed
  <2>7. CASE Complete(r)
    BY <2>7 DEF Complete, TypeOK, ledger, guards, PCs, Passed
  <2>8. CASE ProviderFails(r)
    BY <2>8 DEF ProviderFails, TypeOK, ledger, guards, PCs
  <2>9. CASE Record(r)
    BY <2>1, <2>9 DEF Record, TypeOK, guards
  <2>10. CASE RecordFails(r)
    BY <2>1, <2>10 DEF RecordFails, TypeOK, ledger, guards
  <2>11. CASE Remember(r)
    <3>1. cached' \subseteq Commands
      BY <2>11 DEF Remember, TypeOK, Asked
    <3>2. plans' \in [Commands -> Nat]
      BY <2>11 DEF Remember, TypeOK, Asked
    <3>3. QED
      BY <2>11, <3>1, <3>2 DEF Remember, TypeOK, ledger, PCs
  <2>12. QED
    BY <1>6, <2>2, <2>3, <2>4, <2>5, <2>6, <2>7, <2>8, <2>9, <2>10, <2>11 DEF Serve
<1>7. CASE UNCHANGED vars
  BY <1>7 DEF vars, TypeOK
<1>8. QED
  BY <1>1, <1>2, <1>3, <1>4, <1>5, <1>6, <1>7 DEF Next

\* Only a command goes on to the duplicate guard after its row.
LEMMA AskedStep == TypeOK /\ Asked /\ [Next]_vars => Asked'
<1> SUFFICES ASSUME TypeOK, Asked, [Next]_vars, NEW r \in Requests, pc'[r] = "remember"
             PROVE  cmd'[r] # Fix
  BY DEF Asked
<1>1. CASE UNCHANGED <<pc, cmd>>
  BY <1>1 DEF Asked
<1>2. ASSUME NEW q \in Requests, NEW c \in Commands \cup {Fix}, Start(q, c)
      PROVE  cmd'[r] # Fix
  BY <1>2 DEF Start, TypeOK, Asked
<1>3. ASSUME NEW q \in Requests, Record(q) \/ RecordFails(q) PROVE cmd'[r] # Fix
  BY <1>3 DEF Record, RecordFails, AfterRecord, TypeOK, Asked
<1>4. ASSUME NEW q \in Requests, UNCHANGED cmd,
             \E s \in PCs \ {"remember"} : pc' = [pc EXCEPT ![q] = s]
      PROVE  cmd'[r] # Fix
  BY <1>4 DEF TypeOK, Asked
<1>5. ASSUME NEW q \in Requests, Serve(q), ~ Record(q), ~ RecordFails(q)
      PROVE  UNCHANGED cmd /\ \E s \in PCs \ {"remember"} : pc' = [pc EXCEPT ![q] = s]
  <2>1. UNCHANGED cmd
    BY <1>5 DEF Serve, ReadUsed, ReadGrants, ReadDrawn, GateFailsOpen, Lookup, Complete,
       ProviderFails, Remember
  <2>2. PassTo(q) \in PCs \ {"remember"}
    BY DEF PassTo, PCs, Passed
  <2>3. {"idle", "grants", "drawn", "provider", "record"} \subseteq PCs \ {"remember"}
    BY DEF PCs, Gate, Passed
  <2>4. QED
    BY <1>5, <2>1, <2>2, <2>3 DEF Serve, ReadUsed, ReadGrants, ReadDrawn, GateFailsOpen, Lookup,
       Complete, ProviderFails, Remember
<1>6. QED
  BY <1>1, <1>2, <1>3, <1>4, <1>5 DEF Next, AwardGrant, ExpireGrants, Midnight, EntryExpires,
     ledger, vars

\* No request has read more grants than were made.
LEMMA ReadsStep == TypeOK /\ Reads /\ [Next]_vars => Reads'
<1> SUFFICES ASSUME TypeOK, Reads, [Next]_vars, NEW r \in Requests
             PROVE  read'[r] <= granted'
  BY DEF Reads
<1>1. granted \in Nat /\ active <= granted /\ read[r] \in Int /\ read[r] <= granted
  BY NumbersAssumption DEF TypeOK, Reads
<1>2. CASE UNCHANGED <<granted, read>>
  BY <1>1, <1>2
<1>3. ASSUME NEW n \in Packs, AwardGrant(n) PROVE read'[r] <= granted'
  BY <1>1, <1>3, NumbersAssumption DEF AwardGrant
<1>4. ASSUME NEW q \in Requests, ReadGrants(q) PROVE read'[r] <= granted'
  BY <1>1, <1>4 DEF ReadGrants, TypeOK, ledger
<1>5. ASSUME NEW q \in Requests, GateFailsOpen(q) \/ ReadDrawn(q) PROVE read'[r] <= granted'
  BY <1>1, <1>5 DEF GateFailsOpen, ReadDrawn, TypeOK, ledger
<1>6. QED
  BY <1>2, <1>3, <1>4, <1>5 DEF Next, Serve, ExpireGrants, Midnight, EntryExpires, Start,
     ReadUsed, Lookup, Complete, ProviderFails, Record, RecordFails, Remember, ledger, vars

\* A request that does not pass the gate adds nothing to the requests in flight.
LEMMA QuietMove ==
    ASSUME IInv, TypeOK', NEW r \in Requests, NEW s \in PCs, pc' = [pc EXCEPT ![r] = s],
           s \notin Passed \/ pc[r] \in Passed,
           UNCHANGED <<day, today, past, granted>>,
           faults' = faults \/ faults' = faults + 1
    PROVE  Before' /\ Today'
<1>1. TypeOK /\ Load \in Nat /\ faults' >= faults
  BY LoadType, NumbersAssumption DEF IInv, TypeOK
<1>2. Load' \in Nat
      /\ Load' = Load + (IF s \in Passed THEN 1 ELSE 0) - (IF pc[r] \in Passed THEN 1 ELSE 0)
  BY <1>1, LoadStep
<1>3. Load' = Load + 0 - 0 \/ Load' = Load + 0 - 1 \/ Load' = Load + 1 - 1
  BY <1>2
<1>4. Load' <= Load
  BY <1>1, <1>3
<1>5. QED
  BY <1>1, <1>2, <1>4, QuietStep

\* Every step keeps the bound.
LEMMA BoundStep == IInv /\ [Next]_vars => Before' /\ Today'
<1> SUFFICES ASSUME IInv, [Next]_vars PROVE Before' /\ Today'
  OBVIOUS
<1>1. TypeOK /\ TypeOK'
  BY TypeStep DEF IInv
<1>2. ASSUME UNCHANGED <<day, today, past, granted, pc, faults>> PROVE Before' /\ Today'
  <2>1. Load' = Load
    BY <1>2 DEF Load, InFlight
  <2>2. Bound(day)' = Bound(day) /\ Bound(day + 1)' = Bound(day + 1)
    BY <1>2 DEF Bound
  <2>3. QED
    BY <1>2, <2>1, <2>2 DEF IInv, Before, Today
<1>3. ASSUME NEW n \in Packs, AwardGrant(n) PROVE Before' /\ Today'
  BY <1>3, GrantStep
<1>4. CASE Midnight
  BY <1>4, MidnightStep
<1>5. ASSUME NEW r \in Requests, NEW c \in Commands \cup {Fix}, Start(r, c)
      PROVE  Before' /\ Today'
  <2>1. "used" \in PCs /\ "used" \notin Passed
    BY DEF PCs, Gate, Passed
  <2>2. QED
    BY <1>1, <1>5, <2>1, QuietMove DEF Start, ledger
<1>6. ASSUME NEW r \in Requests, Serve(r) PROVE Before' /\ Today'
  <2>1. /\ {"grants", "drawn", "idle", "remember"} \cap Passed = {}
        /\ {"lookup", "provider", "record"} = Passed
        /\ {"grants", "drawn", "idle", "remember", "lookup", "provider", "record"} \subseteq PCs
    BY DEF PCs, Gate, Passed
  <2>2. CASE ReadUsed(r)
    <3>1. CASE today < DailyFree
      BY <2>2, <3>1, FreePass
    <3>2. CASE ~(today < DailyFree)
      BY <1>1, <2>1, <2>2, <3>2, QuietMove DEF ReadUsed, ledger
    <3>3. QED
      BY <3>1, <3>2
  <2>3. CASE ReadGrants(r)
    BY <1>1, <2>1, <2>3, QuietMove DEF ReadGrants, ledger
  <2>4. CASE ReadDrawn(r)
    <3>1. CASE Positive(read[r] - PackDrawn) >= 1
      BY <2>4, <3>1, PackPass
    <3>2. CASE ~(Positive(read[r] - PackDrawn) >= 1)
      BY <1>1, <2>1, <2>4, <3>2, QuietMove DEF ReadDrawn, ledger
    <3>3. QED
      BY <3>1, <3>2
  <2>5. CASE GateFailsOpen(r)
    BY <2>5, FailOpenPass
  <2>6. CASE Lookup(r)
    <3>1. PICK s \in {"idle", "provider"} : pc' = [pc EXCEPT ![r] = s]
      BY <2>6 DEF Lookup
    <3>2. QED
      BY <1>1, <2>1, <2>6, <3>1, QuietMove DEF Lookup, ledger
  <2>7. CASE Complete(r)
    BY <1>1, <2>1, <2>7, QuietMove DEF Complete, ledger
  <2>8. CASE ProviderFails(r)
    BY <1>1, <2>1, <2>8, QuietMove DEF ProviderFails, ledger
  <2>9. CASE Record(r)
    BY <2>9, RecordStep
  <2>10. CASE RecordFails(r)
    <3>1. PICK s \in {"idle", "remember"} : pc' = [pc EXCEPT ![r] = s]
      BY <2>10 DEF RecordFails, AfterRecord
    <3>2. QED
      BY <1>1, <2>1, <2>10, <3>1, QuietMove DEF RecordFails, ledger
  <2>11. CASE Remember(r)
    BY <1>1, <2>1, <2>11, QuietMove DEF Remember, ledger
  <2>12. QED
    BY <1>6, <2>2, <2>3, <2>4, <2>5, <2>6, <2>7, <2>8, <2>9, <2>10, <2>11 DEF Serve
<1>7. QED
  BY <1>2, <1>3, <1>4, <1>5, <1>6 DEF Next, ExpireGrants, EntryExpires, ledger, vars

\* The invariant holds in every reachable state.
LEMMA Invariance == Spec => []IInv
<1>1. IInv /\ [Next]_vars => IInv'
  BY TypeStep, AskedStep, ReadsStep, BoundStep DEF IInv
<1>2. QED
  BY InitIInv, <1>1, PTL DEF Spec

-----------------------------------------------------------------------------
(* The duplicate guard.                                                    *)
(*                                                                         *)
(* The answers a command still may cost are charged in advance too: those  *)
(* of the requests past the lookup.  A request passes it only while the    *)
(* command has no entry, and then the count starts from zero.              *)

Answering == {"provider", "record", "remember"}
Pending(c) == {r \in Requests : cmd[r] = c /\ pc[r] \in Answering}

Fresh   == \A c \in Commands : c \notin cached => plans[c] = 0
Counted == \A c \in Commands : plans[c] + Cardinality(Pending(c)) <= R

\* The requests pending on a command are some of the requests.
LEMMA PendingType ==
    ASSUME NEW c
    PROVE  /\ IsFiniteSet(Pending(c)) /\ Cardinality(Pending(c)) \in Nat
           /\ Cardinality(Pending(c)) <= R
<1>1. Pending(c) \in SUBSET Requests
  BY DEF Pending
<1>2. QED
  BY <1>1, FS_Subset, FS_CardinalityType, RequestsAssumption DEF R

\* A step that brings no request to a command and no answer keeps its count.
LEMMA FewerPending ==
    ASSUME TypeOK, TypeOK', NEW c \in Commands, Counted,
           Pending(c)' \subseteq Pending(c), plans'[c] = plans[c]
    PROVE  plans'[c] + Cardinality(Pending(c)') <= R
<1> DEFINE P == Pending(c)
           Q == Pending(c)'
<1>1. plans[c] \in Nat /\ R \in Nat
  BY SlotsExist DEF TypeOK
<1>2. Cardinality(Q) <= Cardinality(P) /\ Cardinality(Q) \in Nat /\ Cardinality(P) \in Nat
  BY PendingType, FS_Subset, FS_CardinalityType
<1>3. plans[c] + Cardinality(P) <= R
  BY DEF Counted
<1> HIDE DEF P, Q
<1>4. plans[c] + Cardinality(Q) <= R
  BY <1>1, <1>2, <1>3
<1>5. QED
  BY <1>4 DEF Q

\* A command that was never answered is within its count.
LEMMA NoPlansAtInit == Init => Fresh /\ Counted
<1> SUFFICES ASSUME Init, NEW c \in Commands
             PROVE  plans[c] = 0 /\ plans[c] + Cardinality(Pending(c)) <= R
  BY DEF Fresh, Counted
<1>1. plans[c] = 0
  BY DEF Init
<1>2. QED
  BY <1>1, PendingType, SlotsExist

\* A step that leaves a command without answers keeps its count.
LEMMA NoPlans ==
    ASSUME NEW c \in Commands, plans'[c] = 0
    PROVE  plans'[c] + Cardinality(Pending(c)') <= R
<1> DEFINE Q == Pending(c)'
<1>1. Q \in SUBSET Requests
  BY DEF Pending
<1> HIDE DEF Q
<1>2. Cardinality(Q) \in Nat /\ Cardinality(Q) <= R /\ R \in Nat
  BY <1>1, SlotsExist, FS_Subset, FS_CardinalityType, RequestsAssumption DEF R
<1>3. 0 + Cardinality(Q) <= R
  BY <1>2
<1>4. QED
  BY <1>3 DEF Q

\* The answer that enters the guard was pending.
LEMMA RememberStep ==
    ASSUME TypeOK, Counted, NEW r \in Requests, Remember(r), NEW c \in Commands, cmd[r] = c
    PROVE  plans'[c] + Cardinality(Pending(c)') <= R
<1> DEFINE P == Pending(c)
           Q == Pending(c)'
<1>1. r \in P /\ Q = P \ {r}
  BY DEF Remember, Pending, Answering, TypeOK
<1>2. IsFiniteSet(P) /\ Cardinality(P) \in Nat /\ plans[c] + Cardinality(P) <= R
  BY PendingType DEF Counted
<1>3. plans[c] \in Nat /\ R \in Nat /\ plans'[c] = plans[c] + 1
  BY SlotsExist DEF TypeOK, Remember
<1> HIDE DEF P, Q
<1>4. Cardinality(Q) = Cardinality(P) - 1
  BY <1>1, <1>2, FS_RemoveElement
<1>5. plans[c] + 1 + Cardinality(Q) <= R
  BY <1>2, <1>3, <1>4
<1>6. QED
  BY <1>3, <1>5 DEF Q

\* Every step keeps the count.
LEMMA CountedStep ==
    TypeOK /\ TypeOK' /\ Fresh /\ Counted /\ [Next]_vars => Fresh' /\ Counted'
<1> SUFFICES ASSUME TypeOK, TypeOK', Fresh, Counted, [Next]_vars, NEW c \in Commands
             PROVE  /\ c \notin cached' => plans'[c] = 0
                    /\ plans'[c] + Cardinality(Pending(c)') <= R
  BY DEF Fresh, Counted
<1>1. ASSUME UNCHANGED <<cached, plans>>, Pending(c)' \subseteq Pending(c)
      PROVE  /\ c \notin cached' => plans'[c] = 0
             /\ plans'[c] + Cardinality(Pending(c)') <= R
  BY <1>1, FewerPending DEF Fresh
<1>2. ASSUME NEW d \in Commands, EntryExpires(d)
      PROVE  /\ c \notin cached' => plans'[c] = 0
             /\ plans'[c] + Cardinality(Pending(c)') <= R
  <2>1. CASE c = d
    BY <1>2, <2>1, NoPlans DEF EntryExpires, TypeOK
  <2>2. CASE c # d
    <3>1. Pending(c)' = Pending(c) /\ plans'[c] = plans[c]
      BY <1>2, <2>2 DEF EntryExpires, Pending, TypeOK
    <3>2. QED
      BY <1>2, <2>2, <3>1, FewerPending DEF EntryExpires, Fresh
  <2>3. QED
    BY <2>1, <2>2
<1>3. ASSUME NEW r \in Requests, Lookup(r)
      PROVE  /\ c \notin cached' => plans'[c] = 0
             /\ plans'[c] + Cardinality(Pending(c)') <= R
  <2>1. CASE cmd[r] = c /\ c \notin cached
    BY <1>3, <2>1, NoPlans DEF Lookup, guards, Fresh
  <2>2. CASE ~(cmd[r] = c /\ c \notin cached)
    <3>1. Pending(c)' \subseteq Pending(c)
      BY <1>3, <2>2 DEF Lookup, Pending, Answering, TypeOK
    <3>2. QED
      BY <1>1, <1>3, <3>1 DEF Lookup, guards
  <2>3. QED
    BY <2>1, <2>2
<1>4. ASSUME NEW r \in Requests, Remember(r)
      PROVE  /\ c \notin cached' => plans'[c] = 0
             /\ plans'[c] + Cardinality(Pending(c)') <= R
  <2>1. CASE cmd[r] = c
    BY <1>4, <2>1, RememberStep DEF Remember
  <2>2. CASE cmd[r] # c
    <3>1. Pending(c)' \subseteq Pending(c)
      BY <1>4, <2>2 DEF Remember, Pending, Answering, TypeOK
    <3>2. plans'[c] = plans[c] /\ (c \notin cached' => c \notin cached)
      BY <1>4, <2>2 DEF Remember, TypeOK
    <3>3. QED
      BY <3>1, <3>2, FewerPending DEF Fresh
  <2>3. QED
    BY <2>1, <2>2
<1>5. ASSUME NEW r \in Requests, NEW d \in Commands \cup {Fix}, Start(r, d)
      PROVE  Pending(c)' \subseteq Pending(c)
  BY <1>5 DEF Start, Pending, Answering, TypeOK
<1>6. ASSUME NEW r \in Requests, UNCHANGED cmd,
             \/ \E s \in {"idle", "lookup", "grants", "drawn"} : pc' = [pc EXCEPT ![r] = s]
             \/ pc[r] \in Answering /\ \E s \in PCs : pc' = [pc EXCEPT ![r] = s]
             \/ cmd[r] = Fix /\ \E s \in PCs : pc' = [pc EXCEPT ![r] = s]
      PROVE  Pending(c)' \subseteq Pending(c)
  BY <1>6, FixAssumption DEF Pending, Answering, TypeOK
<1>7. ASSUME NEW r \in Requests, ReadUsed(r) \/ ReadDrawn(r) \/ GateFailsOpen(r)
      PROVE  Pending(c)' \subseteq Pending(c)
  <2>1. PassTo(r) = "lookup" \/ (cmd[r] = Fix /\ PassTo(r) \in PCs)
    BY DEF PassTo, PCs, Passed
  <2>2. UNCHANGED cmd /\ \/ pc' = [pc EXCEPT ![r] = PassTo(r)]
                         \/ \E s \in {"idle", "grants"} : pc' = [pc EXCEPT ![r] = s]
    BY <1>7 DEF ReadUsed, ReadDrawn, GateFailsOpen
  <2>3. QED
    BY <1>6, <2>1, <2>2
<1>8. ASSUME NEW r \in Requests, \/ ReadGrants(r) \/ Complete(r) \/ ProviderFails(r)
                                 \/ Record(r) \/ RecordFails(r)
      PROVE  Pending(c)' \subseteq Pending(c)
  <2>1. {"idle", "record", "remember"} \subseteq PCs
    BY DEF PCs, Passed
  <2>2. QED
    BY <1>6, <1>8, <2>1 DEF ReadGrants, Complete, ProviderFails, Record, RecordFails,
       AfterRecord, Answering
<1>9. CASE UNCHANGED <<cached, plans, pc, cmd>>
  BY <1>1, <1>9 DEF Pending
<1>10. QED
  <2>1. ASSUME NEW r \in Requests, Serve(r), ~ Lookup(r), ~ Remember(r)
        PROVE  UNCHANGED <<cached, plans>> /\ Pending(c)' \subseteq Pending(c)
    BY <2>1, <1>7, <1>8 DEF Serve, ReadUsed, ReadGrants, ReadDrawn, GateFailsOpen, Complete,
       ProviderFails, Record, RecordFails, guards
  <2>2. ASSUME NEW r \in Requests, NEW d \in Commands \cup {Fix}, Start(r, d)
        PROVE  UNCHANGED <<cached, plans>> /\ Pending(c)' \subseteq Pending(c)
    BY <2>2, <1>5 DEF Start, guards
  <2>3. QED
    BY <1>1, <1>2, <1>3, <1>4, <1>9, <2>1, <2>2 DEF Next, Serve, AwardGrant, ExpireGrants,
       Midnight, guards, vars

-----------------------------------------------------------------------------
(* The results.                                                            *)

\* The ledgers, the requests and the guard keep their types; in particular the
\* grants not expired are never more than the grants, and no past day draws a
\* negative amount.
THEOREM TypeCorrect == Spec => []TypeOK
<1>1. IInv => TypeOK
  BY DEF IInv
<1>2. QED
  BY <1>1, Invariance, PTL

\* However requests interleave at the gate, whatever expires, at any hour: what is
\* served beyond the allowance and the grants is at most one request slot less than
\* all of them for each day, and one answer for each failure of the ledger.
THEOREM OverdraftBounded == Spec => []OverdraftIsBounded
<1>1. IInv => OverdraftIsBounded
  <2> SUFFICES ASSUME IInv PROVE OverdraftIsBounded
    OBVIOUS
  <2>1. /\ today \in Nat /\ past \in Nat /\ day \in Nat /\ DailyFree \in Nat /\ Load \in Nat
    BY LoadType, NumbersAssumption DEF IInv, TypeOK
  <2>2. Bound(day + 1) \in Int
    BY <2>1, BoundGrows DEF IInv
  <2>3. PackDrawn <= Bound(day + 1)
    BY <2>1, <2>2 DEF IInv, Today, PackDrawn, Positive
  <2>4. QED
    BY <2>3 DEF OverdraftIsBounded, Bound, R
<1>2. QED
  BY <1>1, Invariance, PTL

\* However many times a command is sent and repeated, it is answered at most once per
\* request slot before its entry in the guard expires.
THEOREM DuplicatesBounded == Spec => []DuplicatesAreBounded
<1>1. Init => Fresh /\ Counted
  BY NoPlansAtInit
<1>2. TypeOK /\ TypeOK' /\ (Fresh /\ Counted) /\ [Next]_vars => (Fresh /\ Counted)'
  BY CountedStep
<1>3. TypeOK /\ Counted => DuplicatesAreBounded
  <2> SUFFICES ASSUME TypeOK, Counted, NEW c \in Commands PROVE plans[c] <= Cardinality(Requests)
    BY DEF DuplicatesAreBounded
  <2>1. plans[c] \in Nat /\ plans[c] + Cardinality(Pending(c)) <= R
    BY DEF TypeOK, Counted
  <2>2. QED
    BY <2>1, PendingType, SlotsExist DEF R
<1>4. QED
  BY <1>1, <1>2, <1>3, TypeCorrect, PTL DEF Spec
=============================================================================
