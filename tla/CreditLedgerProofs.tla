------------------------- MODULE CreditLedgerProofs -------------------------
(***************************************************************************)
(* Machine-checked proofs about CreditLedger, for any number of requests,  *)
(* months and faults, any plans, allowances and costs.                     *)
(***************************************************************************)
EXTENDS CreditLedger, SumTheorems

\* The handler positions, one by one.
LEMMA PositionsAreTyped ==
  /\ {"start", "grant", "grantLock", "grantTx", "reserve", "reserveLock",
      "reserveTx", "quota", "prepare", "stream", "settle", "audit", "release",
      "denied", "done", "lost"} \subseteq Position
BY DEF Position, BeforeReservation, AfterReservation, Final

\* Months are numbers and none of them is the mark of a missing row.
LEMMA PeriodsAreNumbers ==
  None \notin Periods /\ \A p \in Periods : p \in Nat
BY BoundsAssumption DEF Periods, None

\* The mark of a missing row is a number of its own.
LEMMA NoneIsANumber == None = -1
BY DEF None

\* The initial state is well typed.
LEMMA TypeInit == Init => TypeOK
BY BoundsAssumption
DEF Init, TypeOK, Periods, None, Position, BeforeReservation

\* No handler step, fault, plan change or month end breaks a type.
LEMMA TypeStep == TypeOK /\ [Next]_vars => TypeOK'
<1> SUFFICES ASSUME TypeOK, [Next]_vars
             PROVE  TypeOK'
  OBVIOUS
<1> USE PositionsAreTyped DEF TypeOK, Goto
<1>1. ASSUME NEW r \in Requests, Admission(r)
      PROVE  TypeOK'
  <2>1. CASE ReadPlan(r)
    BY <2>1 DEF ReadPlan, ledgerVars, lockVars, envVars
  <2>2. CASE CallGrant(r) \/ CallReserve(r)
    BY <2>2 DEF CallGrant, CallReserve, EnterCall, ledgerVars, lockVars,
                envVars
  <2>3. CASE BeginGrant(r)
    BY <2>3 DEF BeginGrant, ledgerVars, envVars
  <2>4. CASE CommitGrant(r)
    <3>1. Included[rplan[r]] \in Nat
      BY PolicyAssumption
    <3>2. granted[period[r]] \in Nat /\ seen[r] \in Int
      OBVIOUS
    <3> QED
      BY <2>4, <3>1, <3>2 DEF CommitGrant, localVars, envVars
  <2>5. CASE BeginReserve(r)
    <3>1. Balance(period[r]) \in Int
      BY DEF Balance
    <3> QED
      BY <2>5, <3>1 DEF BeginReserve, ledgerVars, envVars
  <2>6. CASE CommitReserve(r)
    <3>1. reserved' \in [Periods -> Nat] /\ reservedIn' \in [Requests -> Periods \cup {None}]
      BY <2>6, AmountsAssumption DEF CommitReserve
    <3>2. pc' \in [Requests -> Position]
      BY <2>6 DEF CommitReserve
    <3>3. creditLock' \in [Periods -> Requests \cup {NoRequest}]
      BY <2>6 DEF CommitReserve
    <3> QED
      BY <2>6, <3>1, <3>2, <3>3 DEF CommitReserve, localVars, envVars
  <2> QED
    BY <1>1, <2>1, <2>2, <2>3, <2>4, <2>5, <2>6 DEF Admission
<1>2. ASSUME NEW r \in Requests, Generation(r)
      PROVE  TypeOK'
  <2>1. ASSUME NEW from, NEW to \in Position, Continue(r, from, to)
        PROVE  TypeOK'
    BY <2>1 DEF Continue, ledgerVars, lockVars, localVars, envVars
  <2>2. CASE RecordGeneration(r)
    BY <2>2, AmountsAssumption
    DEF RecordGeneration, ledgerVars, lockVars, envVars
  <2>3. ASSUME NEW actual \in Nat \cup {None}, NEW from, NEW to \in Position,
               Goto(r, from, to), Settlement(r, actual),
               UNCHANGED << lockVars, rplan, seen, cost, envVars, faults >>
        PROVE  TypeOK'
    <3>1. month \in Periods /\ period' \in [Requests -> Periods]
      BY <2>3 DEF Settlement
    <3>2. /\ settled' \in [Requests -> Nat \cup {None}]
          /\ returned' \in [Periods -> Nat]
          /\ overdrawn' \in [Periods -> Nat]
      <4>1. CASE settled[r] # None
        BY <2>3, <4>1 DEF Settlement, Book
      <4>2. CASE settled[r] = None /\ actual <= Reservation
        <5>1. Reservation - actual \in Nat
          BY <4>2, AmountsAssumption, NoneIsANumber
        <5>2. /\ settled' = [settled EXCEPT ![r] = actual]
              /\ returned' = [returned EXCEPT ![month] = @ + (Reservation - actual)]
              /\ UNCHANGED overdrawn
          BY <2>3, <4>2, AmountsAssumption, NoneIsANumber DEF Settlement, Book
        <5> QED
          BY <3>1, <5>1, <5>2
      <4>3. CASE settled[r] = None /\ actual > Reservation
        <5>1. actual - Reservation \in Nat
          BY <4>3, AmountsAssumption, NoneIsANumber
        <5>2. /\ settled' = [settled EXCEPT ![r] = actual]
              /\ overdrawn' = [overdrawn EXCEPT ![month] = @ + (actual - Reservation)]
              /\ UNCHANGED returned
          BY <2>3, <4>3, AmountsAssumption, NoneIsANumber DEF Settlement, Book
        <5> QED
          BY <3>1, <5>1, <5>2
      <4> QED
        BY <2>3, <4>1, <4>2, <4>3 DEF Settlement, Book
    <3> QED
      BY <2>3, <3>1, <3>2 DEF Settlement, lockVars, envVars
  <2>4. CASE Settle(r)
    <3>1. cost[r] \in Nat \cup {None}
      OBVIOUS
    <3> QED
      BY <2>3, <2>4, <3>1 DEF Settle
  <2>5. CASE Release(r)
    BY <2>3, <2>5 DEF Release
  <2> QED
    BY <1>2, <2>1, <2>2, <2>4, <2>5
    DEF Generation, QuotaAllows, QuotaRejects, Prepared, PreparationFails,
        StreamYieldsNothing, Audit
<1>3. ASSUME NEW r \in Requests, Failure(r)
      PROVE  TypeOK'
  <2>1. ASSUME NEW from, NEW to \in Position, Fault(r, from, to)
        PROVE  TypeOK'
    BY <2>1, BoundsAssumption DEF Fault, ledgerVars, lockVars, localVars, envVars
  <2>2. CASE Crash(r)
    BY <2>2, BoundsAssumption DEF Crash, ledgerVars, localVars, envVars
  <2> QED
    BY <1>3, <2>1, <2>2
    DEF Failure, UsageWriteFails, SettlementFails, ReleaseFails
<1>4. CASE ChangePlan
  BY <1>4 DEF ChangePlan, ledgerVars, lockVars, localVars
<1>5. CASE NextMonth
  <2>1. month' \in Periods
    BY <1>5, BoundsAssumption DEF NextMonth, Periods
  <2> QED
    BY <1>5, <2>1 DEF NextMonth, ledgerVars, lockVars, localVars
<1>6. CASE UNCHANGED vars
  BY <1>6 DEF vars, ledgerVars, lockVars, localVars, envVars
<1> QED
  BY <1>1, <1>2, <1>3, <1>4, <1>5, <1>6 DEF Next

\* The ledger's sums, keys, locks and handler positions keep their types: in
\* particular no sum of credits.ts entries ever goes negative.
THEOREM TypeCorrect == Spec => []TypeOK
BY TypeInit, TypeStep, PTL DEF Spec

-----------------------------------------------------------------------------
(***************************************************************************)
(* The inductive invariant, one lemma per kind of step.                    *)
(***************************************************************************)

\* Steps that leave the ledger alone: the calls that only move the handler,
\* read the clock or the plan, and faults other than a crash.
LEMMA QuietStep ==
  ASSUME LedgerInv, TypeOK', NEW r \in Requests, NEW from \in Position,
         NEW to \in Position, Goto(r, from, to),
         UNCHANGED << ledgerVars, lockVars, month >>,
         \A q \in Requests \ {r} :
           /\ rplan'[q] = rplan[q] /\ period'[q] = period[q]
           /\ seen'[q] = seen[q] /\ cost'[q] = cost[q],
         period'[r] \in {period[r], month},
         \/ from \in BeforeReservation \ {"grantTx", "reserveTx"}
              /\ to \in BeforeReservation
         \/ from \in AfterReservation /\ to \in AfterReservation \cup Final
              /\ to # "denied" /\ rplan'[r] = rplan[r],
         to \notin {"grantTx", "reserveTx"},
         to = "settle" => cost'[r] \in Costs
  PROVE  LedgerInv'
<1> USE DEF Goto, ledgerVars, lockVars, LedgerInv, BeforeReservation,
      AfterReservation, Final
<1>1. LocksHeld'
  BY DEF LocksHeld, TypeOK
<1>2. ReadsHold'
  BY DEF ReadsHold, TypeOK
<1>3. EntriesFollowHandler'
  <2> SUFFICES ASSUME NEW q \in Requests
               PROVE  EntriesFollowHandler!(q)'
    BY DEF EntriesFollowHandler
  <2>1. EntriesFollowHandler!(q)
    BY DEF EntriesFollowHandler
  <2>2. CASE q = r
    BY <2>1, <2>2, PeriodsAreNumbers DEF TypeOK
  <2>3. CASE q # r
    BY <2>1, <2>3 DEF TypeOK
  <2> QED
    BY <2>2, <2>3
<1>4. CoveredReservations'
  <2>1. \A p \in Periods : OverageIn(p) => OverageIn(p)'
    BY PeriodsAreNumbers DEF OverageIn, EntriesFollowHandler, TypeOK
  <2> QED
    BY <2>1 DEF CoveredReservations
<1>5. GrantIsHighestTarget'
  BY DEF GrantIsHighestTarget
<1> QED
  BY <1>1, <1>2, <1>3, <1>4, <1>5

\* A transaction that gets its lock: nobody else holds a transaction on the
\* same month, and what it reads holds now.
LEMMA BeginStep ==
  ASSUME LedgerInv, TypeOK', NEW r \in Requests, BeginGrant(r) \/ BeginReserve(r)
  PROVE  LedgerInv'
<1> USE DEF BeginGrant, BeginReserve, Goto, ledgerVars, envVars, LedgerInv,
      BeforeReservation, AfterReservation
<1>1. LocksHeld'
  <2> SUFFICES ASSUME NEW q \in Requests
               PROVE  LocksHeld!(q)'
    BY DEF LocksHeld
  <2>1. LocksHeld!(q) /\ NoRequest # q
    BY RequestsAssumption DEF LocksHeld
  <2>2. period' = period
    OBVIOUS
  <2>3. CASE BeginGrant(r)
    BY <2>1, <2>2, <2>3 DEF TypeOK
  <2>4. CASE BeginReserve(r)
    BY <2>1, <2>2, <2>4 DEF TypeOK
  <2> QED
    BY <2>3, <2>4
<1>2. ReadsHold'
  <2> SUFFICES ASSUME NEW q \in Requests
               PROVE  ReadsHold!(q)'
    BY DEF ReadsHold
  <2>1. ReadsHold!(q)
    BY DEF ReadsHold
  <2>2. Balance(period[r]) <= granted[period[r]] + returned[period[r]]
                                - reserved[period[r]]
    BY DEF Balance, TypeOK
  <2> QED
    BY <2>1, <2>2 DEF TypeOK
<1>3. EntriesFollowHandler'
  BY DEF EntriesFollowHandler, TypeOK
<1>4. CoveredReservations'
  BY DEF CoveredReservations, OverageIn
<1>5. GrantIsHighestTarget'
  BY DEF GrantIsHighestTarget
<1> QED
  BY <1>1, <1>2, <1>3, <1>4, <1>5

\* What CommitGrant does to its month: nothing, or it raises the sum of the
\* grants to exactly the allowance of the plan.
LEMMA GrantEffect ==
  ASSUME LedgerInv, NEW r \in Requests, CommitGrant(r)
  PROVE  \/ UNCHANGED << granted, grantTargets >>
         \/ LET p == period[r]
                target == Included[rplan[r]]
            IN  /\ granted[p] < target
                /\ granted' = [granted EXCEPT ![p] = target]
                /\ grantTargets' = [grantTargets EXCEPT ![p] = @ \cup {target}]
<1> DEFINE p == period[r]
           target == Included[rplan[r]]
<1>1. p \in Periods /\ granted[p] \in Nat /\ target \in Nat
  BY PolicyAssumption DEF LedgerInv, TypeOK
<1>2. seen[r] = granted[p]
  BY DEF LedgerInv, ReadsHold, CommitGrant, Goto
<1>3. granted[p] + (target - granted[p]) = target
  BY <1>1
<1>4. CASE UNCHANGED << granted, grantTargets >>
  BY <1>4
<1>5. CASE /\ target - seen[r] > 0
           /\ granted' = [granted EXCEPT ![p] = @ + (target - seen[r])]
           /\ grantTargets' = [grantTargets EXCEPT ![p] = @ \cup {target}]
  <2>1. granted[p] < target
    BY <1>1, <1>2, <1>5
  <2>2. granted' = [granted EXCEPT ![p] = target]
    <3>1. granted' = [granted EXCEPT ![p] = granted[p] + (target - granted[p])]
      BY <1>2, <1>5
    <3> QED
      BY <3>1, <1>3
  <2> QED
    BY <1>5, <2>1, <2>2
<1> QED
  BY <1>4, <1>5 DEF CommitGrant

\* The grant commits: the month's grants rise to the highest allowance, other
\* grant transactions hold other months, and reservations are only better
\* covered.
LEMMA CommitGrantStep ==
  ASSUME LedgerInv, TypeOK', NEW r \in Requests, CommitGrant(r)
  PROVE  LedgerInv'
<1> USE DEF LedgerInv
<1> DEFINE p == period[r]
           target == Included[rplan[r]]
<1>1. /\ pc[r] = "grantTx" /\ pc' = [pc EXCEPT ![r] = "reserve"]
      /\ grantLock' = [grantLock EXCEPT ![p] = NoRequest]
      /\ UNCHANGED << reserved, returned, overdrawn, reservedIn, settled,
                      creditLock, localVars, envVars, faults >>
  BY DEF CommitGrant, Goto
<1>2. p \in Periods /\ target \in Nat
  BY PolicyAssumption DEF TypeOK
<1>3. \A q \in Requests : q # r /\ pc[q] = "grantTx" => period[q] # p
  BY <1>1 DEF LocksHeld
<1>4. \A m \in Periods : granted[m] <= granted'[m] /\ granted[m] \in Nat
  <2>1. \/ granted' = granted
        \/ granted[p] < target /\ granted' = [granted EXCEPT ![p] = target]
    BY GrantEffect
  <2>2. granted \in [Periods -> Nat]
    BY DEF TypeOK
  <2> HIDE DEF p, target
  <2> QED
    BY <1>2, <2>1, <2>2
<1>5. \A m \in Periods : m # p => granted'[m] = granted[m]
  BY <1>2, GrantEffect DEF TypeOK
<1>6. LocksHeld'
  BY <1>1, <1>3 DEF LocksHeld, TypeOK, localVars
<1>7. ReadsHold'
  <2> SUFFICES ASSUME NEW q \in Requests
               PROVE  ReadsHold!(q)'
    BY DEF ReadsHold
  <2>1. ReadsHold!(q) /\ period'[q] = period[q] /\ period[q] \in Periods
        /\ seen'[q] = seen[q] /\ returned' = returned /\ reserved' = reserved
    BY <1>1 DEF ReadsHold, TypeOK, localVars
  <2>2. pc'[q] = "grantTx" => ReadsHold!(q)!1'
    BY <2>1, <1>1, <1>3, <1>5 DEF TypeOK
  <2>3. pc'[q] = "reserveTx" => ReadsHold!(q)!2'
    BY <2>1, <1>1, <1>4 DEF TypeOK
  <2> QED
    BY <2>2, <2>3
<1>8. EntriesFollowHandler'
  BY <1>1 DEF EntriesFollowHandler, TypeOK, localVars, envVars,
              BeforeReservation, AfterReservation
<1>9. CoveredReservations'
  BY <1>1, <1>4 DEF CoveredReservations, OverageIn, TypeOK, localVars
<1>10. GrantIsHighestTarget'
  <2>1. CASE UNCHANGED << granted, grantTargets >>
    BY <2>1 DEF GrantIsHighestTarget
  <2>2. CASE /\ granted[p] < target
             /\ granted' = [granted EXCEPT ![p] = target]
             /\ grantTargets' = [grantTargets EXCEPT ![p] = @ \cup {target}]
    BY <1>2, <1>4, <2>2 DEF GrantIsHighestTarget, TypeOK
  <2> QED
    BY <2>1, <2>2, GrantEffect
<1> QED
  BY <1>6, <1>7, <1>8, <1>9, <1>10

\* The reservation commits or is refused.  Under the lock nobody else can
\* have reserved in the month since it was summed, so an admitted reservation
\* of a plan without overage is covered.
LEMMA CommitReserveStep ==
  ASSUME LedgerInv, TypeOK', NEW r \in Requests, CommitReserve(r)
  PROVE  LedgerInv'
<1> USE DEF LedgerInv
<1> DEFINE p == period[r]
<1>1. /\ pc[r] = "reserveTx"
      /\ creditLock' = [creditLock EXCEPT ![p] = NoRequest]
      /\ UNCHANGED << granted, grantTargets, returned, overdrawn, settled,
                      grantLock, localVars, envVars, faults >>
  BY DEF CommitReserve, Goto
<1>2. p \in Periods /\ p <= month /\ reservedIn[r] = None
  BY <1>1 DEF TypeOK, EntriesFollowHandler, BeforeReservation
<1>3. \A q \in Requests : q # r /\ pc[q] = "reserveTx" => period[q] # p
  BY <1>1 DEF LocksHeld
<1>4. \/ /\ MayReserve(r)
         /\ pc' = [pc EXCEPT ![r] = "quota"]
         /\ reserved' = [reserved EXCEPT ![p] = @ + Reservation]
         /\ reservedIn' = [reservedIn EXCEPT ![r] = p]
      \/ /\ pc' = [pc EXCEPT ![r] = "denied"]
         /\ UNCHANGED << reserved, reservedIn >>
  BY DEF CommitReserve, Goto
<1>5. \A m \in Periods : m # p => reserved'[m] = reserved[m]
  BY <1>2, <1>4 DEF TypeOK
<1>6. LocksHeld'
  BY <1>1, <1>3, <1>4 DEF LocksHeld, TypeOK, localVars
<1>7. ReadsHold'
  <2> SUFFICES ASSUME NEW q \in Requests
               PROVE  ReadsHold!(q)'
    BY DEF ReadsHold
  <2>1. ReadsHold!(q) /\ period'[q] = period[q] /\ period[q] \in Periods
        /\ seen'[q] = seen[q] /\ returned' = returned /\ granted' = granted
    BY <1>1 DEF ReadsHold, TypeOK, localVars
  <2>2. pc'[q] = "grantTx" => ReadsHold!(q)!1'
    BY <2>1, <1>1, <1>4 DEF TypeOK
  <2>3. pc'[q] = "reserveTx" => ReadsHold!(q)!2'
    BY <2>1, <1>1, <1>3, <1>4, <1>5 DEF TypeOK
  <2> QED
    BY <2>2, <2>3
<1>8. EntriesFollowHandler'
  BY <1>1, <1>2, <1>4, PeriodsAreNumbers
  DEF EntriesFollowHandler, TypeOK, localVars, envVars, BeforeReservation,
      AfterReservation
<1>9. CoveredReservations'
  <2> SUFFICES ASSUME NEW m \in Periods, ~OverageIn(m)'
               PROVE  reserved'[m] <= granted'[m] + returned'[m]
    BY DEF CoveredReservations
  <2>1. ~OverageIn(m)
    BY <1>1, <1>2, <1>4, PeriodsAreNumbers DEF OverageIn, TypeOK, localVars
  <2>2. reserved[m] <= granted[m] + returned[m]
    BY <2>1 DEF CoveredReservations
  <2>3. CASE UNCHANGED << reserved, reservedIn >>
    BY <1>1, <2>2, <2>3
  <2>4. CASE /\ MayReserve(r)
             /\ reserved' = [reserved EXCEPT ![p] = @ + Reservation]
             /\ reservedIn' = [reservedIn EXCEPT ![r] = p]
    <3>1. CASE m # p
      BY <1>1, <1>5, <2>2, <3>1
    <3>2. CASE m = p
      <4>1. rplan[r] \notin Overage
        BY <1>1, <2>4, <3>2 DEF OverageIn, TypeOK, localVars
      <4>2. seen[r] - Reservation >= 0
        BY <2>4, <4>1 DEF MayReserve
      <4>3. seen[r] <= granted[p] + returned[p] - reserved[p]
        BY <1>1 DEF ReadsHold
      <4>4. reserved'[p] = reserved[p] + Reservation
        BY <2>4, <1>2 DEF TypeOK
      <4> QED
        BY <1>1, <1>2, <3>2, <4>2, <4>3, <4>4, AmountsAssumption DEF TypeOK
    <3> QED
      BY <3>1, <3>2
  <2> QED
    BY <1>4, <2>3, <2>4
<1>10. GrantIsHighestTarget'
  BY <1>1 DEF GrantIsHighestTarget
<1> QED
  BY <1>6, <1>7, <1>8, <1>9, <1>10

\* What a settlement does: nothing if the request is already settled, or one
\* entry for the current month, in favour of the month or against it.
LEMMA SettlementEffect ==
  ASSUME LedgerInv, NEW r \in Requests, NEW actual \in Nat,
         Settlement(r, actual)
  PROVE  /\ UNCHANGED << granted, grantTargets, reserved, reservedIn >>
         /\ period' = [period EXCEPT ![r] = month]
         /\ \/ UNCHANGED << settled, returned, overdrawn >>
            \/ /\ settled[r] = None
               /\ settled' = [settled EXCEPT ![r] = actual]
               /\ \/ /\ actual <= Reservation
                     /\ returned' = [returned EXCEPT ![month] =
                                       @ + (Reservation - actual)]
                     /\ UNCHANGED overdrawn
                  \/ /\ actual > Reservation
                     /\ overdrawn' = [overdrawn EXCEPT ![month] =
                                       @ + (actual - Reservation)]
                     /\ UNCHANGED returned
BY AmountsAssumption DEF Settlement, Book

\* A settlement or a release gives the month back what was not used; it takes
\* nothing from what covers the reservations.
LEMMA SettlementStep ==
  ASSUME LedgerInv, TypeOK', NEW r \in Requests, Settle(r) \/ Release(r)
  PROVE  LedgerInv'
<1> USE DEF LedgerInv
<1>1. PICK actual \in Nat : Settlement(r, actual)
  <2>1. CASE Settle(r)
    BY <2>1, AmountsAssumption DEF Settle, Goto, EntriesFollowHandler
  <2>2. CASE Release(r)
    BY <2>2 DEF Release
  <2> QED
    BY <2>1, <2>2
<1>2. /\ pc[r] \in AfterReservation
      /\ \/ pc' = [pc EXCEPT ![r] = "audit"]
         \/ pc' = [pc EXCEPT ![r] = "done"]
      /\ UNCHANGED << lockVars, rplan, seen, cost, envVars, faults >>
  BY DEF Settle, Release, Goto, AfterReservation
<1>3. /\ UNCHANGED << granted, grantTargets, reserved, reservedIn >>
      /\ period' = [period EXCEPT ![r] = month]
      /\ \/ settled' = settled
         \/ settled' = [settled EXCEPT ![r] = actual]
  BY <1>1, SettlementEffect
<1>4. \A m \in Periods : returned[m] <= returned'[m]
  <2>1. month \in Periods /\ returned \in [Periods -> Nat]
    BY DEF TypeOK
  <2>2. \/ returned' = returned
        \/ /\ actual <= Reservation
           /\ returned' = [returned EXCEPT ![month] = @ + (Reservation - actual)]
    BY <1>1, SettlementEffect
  <2> QED
    BY <2>1, <2>2, AmountsAssumption
<1>5. LocksHeld'
  BY <1>2, <1>3 DEF LocksHeld, TypeOK, AfterReservation, lockVars
<1>6. ReadsHold'
  <2> SUFFICES ASSUME NEW q \in Requests
               PROVE  ReadsHold!(q)'
    BY DEF ReadsHold
  <2>1. ReadsHold!(q) /\ seen' = seen
    BY <1>2 DEF ReadsHold
  <2>2. CASE q = r
    BY <1>2, <2>2 DEF TypeOK
  <2>3. CASE q # r
    <3>1. pc'[q] = pc[q] /\ period'[q] = period[q] /\ period[q] \in Periods
      BY <1>2, <1>3, <2>3 DEF TypeOK
    <3> QED
      BY <1>3, <1>4, <2>1, <3>1 DEF TypeOK
  <2> QED
    BY <2>2, <2>3
<1>7. EntriesFollowHandler'
  BY <1>2, <1>3, PeriodsAreNumbers
  DEF EntriesFollowHandler, TypeOK, envVars, BeforeReservation,
      AfterReservation
<1>8. CoveredReservations'
  <2>1. \A m \in Periods : OverageIn(m)' <=> OverageIn(m)
    BY <1>2, <1>3 DEF OverageIn
  <2>2. \A m \in Periods : /\ granted'[m] = granted[m] /\ granted[m] \in Nat
                           /\ reserved'[m] = reserved[m] /\ reserved[m] \in Nat
                           /\ returned[m] \in Nat /\ returned'[m] \in Nat
    BY <1>3 DEF TypeOK
  <2> QED
    BY <1>4, <2>1, <2>2 DEF CoveredReservations
<1>9. GrantIsHighestTarget'
  BY <1>3 DEF GrantIsHighestTarget
<1> QED
  BY <1>5, <1>6, <1>7, <1>8, <1>9

\* A crash rolls the open transaction back and frees only its own locks.
LEMMA CrashStep ==
  ASSUME LedgerInv, TypeOK', NEW r \in Requests, Crash(r)
  PROVE  LedgerInv'
<1> USE DEF LedgerInv, Crash, ledgerVars, localVars, envVars
<1>1. LocksHeld'
  BY DEF LocksHeld, TypeOK
<1>2. ReadsHold'
  BY DEF ReadsHold, TypeOK
<1>3. EntriesFollowHandler'
  BY DEF EntriesFollowHandler, TypeOK, BeforeReservation, AfterReservation
<1>4. CoveredReservations'
  BY DEF CoveredReservations, OverageIn
<1>5. GrantIsHighestTarget'
  BY DEF GrantIsHighestTarget
<1> QED
  BY <1>1, <1>2, <1>3, <1>4, <1>5

\* A plan change does not touch running requests, and the end of a month only
\* makes the months in use older.
LEMMA EnvironmentStep ==
  ASSUME LedgerInv, TypeOK', ChangePlan \/ NextMonth
  PROVE  LedgerInv'
<1> USE DEF LedgerInv, ChangePlan, NextMonth, ledgerVars, lockVars, localVars
<1>1. LocksHeld' /\ ReadsHold'
  BY DEF LocksHeld, ReadsHold
<1>2. EntriesFollowHandler'
  <2>1. month \in Nat /\ month' \in Nat /\ month <= month'
    BY PeriodsAreNumbers DEF TypeOK
  <2>2. \A r \in Requests : /\ reservedIn[r] <= month => reservedIn[r] <= month'
                            /\ period[r] <= month => period[r] <= month'
    <3>1. \A r \in Requests : reservedIn[r] \in Nat \cup {-1} /\ period[r] \in Nat
      BY PeriodsAreNumbers DEF TypeOK, None
    <3> QED
      BY <2>1, <3>1
  <2> QED
    BY <2>2 DEF EntriesFollowHandler
<1>3. CoveredReservations' /\ GrantIsHighestTarget'
  BY DEF CoveredReservations, OverageIn, GrantIsHighestTarget
<1> QED
  BY <1>1, <1>2, <1>3

\* Every step of the specification preserves the inductive invariant.
LEMMA LedgerStep == LedgerInv /\ [Next]_vars => LedgerInv'
<1> SUFFICES ASSUME LedgerInv, [Next]_vars
             PROVE  LedgerInv'
  OBVIOUS
<1>1. TypeOK'
  BY TypeStep DEF LedgerInv
<1>2. ASSUME NEW r \in Requests, Admission(r)
      PROVE  LedgerInv'
  <2>1. CASE ReadPlan(r)
    <3>1. /\ Goto(r, "start", "grant")
          /\ UNCHANGED << ledgerVars, lockVars, month >>
          /\ period' = period /\ seen' = seen /\ cost' = cost
          /\ \A q \in Requests \ {r} : rplan'[q] = rplan[q]
      BY <2>1 DEF ReadPlan, Goto, envVars, LedgerInv, TypeOK
    <3>2. /\ {"start", "grant"} \subseteq Position
          /\ {"start", "grant"} \subseteq BeforeReservation \ {"grantTx", "reserveTx"}
      BY PositionsAreTyped DEF BeforeReservation
    <3> QED
      BY <1>1, <3>1, <3>2, QuietStep
  <2>2. ASSUME NEW from \in BeforeReservation \ {"grantTx", "reserveTx"},
               NEW to \in BeforeReservation \ {"grantTx", "reserveTx"},
               EnterCall(r, from, to)
        PROVE  LedgerInv'
    <3>1. /\ from \in Position /\ to \in Position
          /\ to # "settle"
      BY DEF Position, BeforeReservation
    <3>2. /\ period'[r] = month
          /\ \A q \in Requests \ {r} : period'[q] = period[q]
      BY <2>2 DEF EnterCall, LedgerInv, TypeOK
    <3> QED
      BY <1>1, <2>2, <3>1, <3>2, QuietStep DEF EnterCall, envVars
  <2>3. CASE CallGrant(r) \/ CallReserve(r)
    BY <2>2, <2>3 DEF CallGrant, CallReserve, BeforeReservation
  <2> QED
    BY <1>1, <1>2, <2>1, <2>3, BeginStep, CommitGrantStep,
       CommitReserveStep DEF Admission
<1>3. ASSUME NEW r \in Requests, Generation(r)
      PROVE  LedgerInv'
  <2>1. ASSUME NEW from \in AfterReservation,
               NEW to \in AfterReservation \cup Final,
               to \notin {"denied", "settle"}, Continue(r, from, to)
        PROVE  LedgerInv'
    BY <1>1, <2>1, QuietStep
    DEF Continue, localVars, envVars, AfterReservation, Final, Position
  <2>2. CASE RecordGeneration(r)
    <3>1. PICK c \in Costs : cost' = [cost EXCEPT ![r] = c]
      BY <2>2 DEF RecordGeneration
    <3>2. /\ cost'[r] \in Costs
          /\ \A q \in Requests \ {r} : cost'[q] = cost[q]
      BY <3>1 DEF LedgerInv, TypeOK
    <3> QED
      BY <1>1, <2>2, <3>2, QuietStep, PositionsAreTyped
      DEF RecordGeneration, envVars, AfterReservation
  <2> QED
    BY <1>1, <1>3, <2>1, <2>2, SettlementStep
    DEF Generation, QuotaAllows, QuotaRejects, Prepared, PreparationFails,
        StreamYieldsNothing, Audit, AfterReservation, Final
<1>4. ASSUME NEW r \in Requests, Failure(r)
      PROVE  LedgerInv'
  <2>1. ASSUME NEW from \in AfterReservation,
               NEW to \in AfterReservation \cup Final,
               to \notin {"denied", "settle"}, Fault(r, from, to)
        PROVE  LedgerInv'
    BY <1>1, <2>1, QuietStep
    DEF Fault, localVars, envVars, AfterReservation, Final, Position
  <2> QED
    BY <1>1, <1>4, <2>1, CrashStep
    DEF Failure, UsageWriteFails, SettlementFails, ReleaseFails,
        AfterReservation, Final
<1>5. CASE UNCHANGED vars
  BY <1>1, <1>5
  DEF vars, ledgerVars, lockVars, localVars, envVars, LedgerInv, LocksHeld,
      ReadsHold, EntriesFollowHandler, CoveredReservations, OverageIn,
      GrantIsHighestTarget
<1> QED
  BY <1>1, <1>2, <1>3, <1>4, <1>5, EnvironmentStep DEF Next

\* The initial ledger is empty and satisfies the inductive invariant.
LEMMA LedgerInit == Init => LedgerInv
<1> SUFFICES ASSUME Init
             PROVE  LedgerInv
  OBVIOUS
<1>1. TypeOK
  BY TypeInit
<1>2. LocksHeld /\ ReadsHold
  BY DEF Init, LocksHeld, ReadsHold
<1>3. EntriesFollowHandler
  BY DEF Init, EntriesFollowHandler, AfterReservation, None
<1>4. CoveredReservations /\ GrantIsHighestTarget
  BY DEF Init, CoveredReservations, GrantIsHighestTarget
<1> QED
  BY <1>1, <1>2, <1>3, <1>4 DEF LedgerInv

\* The inductive invariant holds throughout.
THEOREM LedgerInvariant == Spec => []LedgerInv
BY LedgerInit, LedgerStep, PTL DEF Spec

\* The hard stop: in a month without an overage reservation, no interleaving of
\* reserveUsageCredits, settlements, releases, plan changes and crashes has
\* more reserved than was granted and given back.
THEOREM HardStop == Spec => []CoveredReservations
BY LedgerInvariant, PTL DEF LedgerInv

\* ensureMonthlyPlanCreditGrant never stacks two allowances in one month.
THEOREM AllowancesNeverStack == Spec => []GrantIsHighestTarget
BY LedgerInvariant, PTL DEF LedgerInv

-----------------------------------------------------------------------------
(***************************************************************************)
(* Refinement of CreditAccount.                                            *)
(***************************************************************************)
AccountRows == << granted, reserved, returned, overdrawn, reservedIn, settled >>
Overdrawing == {q \in Requests : reservedIn[q] # None /\ rplan[q] \in Overage}

\* The abstract account of an empty ledger is the abstract initial state.
LEMMA AccountInit == Init => Account!Init
BY DEF Init, Account!Init, Account!None, None

\* A step that writes no entry is a stutter of the account.
LEMMA AccountStutter ==
  ASSUME UNCHANGED AccountRows,
         \A q \in Requests : reservedIn[q] # None => rplan'[q] = rplan[q]
  PROVE  UNCHANGED Account!vars
<1>1. Overdrawing' = Overdrawing
  BY DEF Overdrawing, AccountRows
<1> QED
  BY <1>1 DEF Overdrawing, Account!vars, AccountRows

\* A grant that is committed raises the account's month.
LEMMA GrantRefines ==
  ASSUME LedgerInv, NEW r \in Requests, CommitGrant(r)
  PROVE  [Account!Next]_Account!vars
<1> DEFINE p == period[r]
           target == Included[rplan[r]]
<1>1. UNCHANGED << reserved, returned, overdrawn, reservedIn, settled, rplan >>
  BY DEF CommitGrant, localVars
<1>2. p \in Periods /\ target \in {Included[x] : x \in Plans}
  BY DEF LedgerInv, TypeOK
<1>3. CASE UNCHANGED granted
  BY <1>1, <1>3, AccountStutter DEF AccountRows
<1>4. CASE granted[p] < target /\ granted' = [granted EXCEPT ![p] = target]
  <2>1. Overdrawing' = Overdrawing
    BY <1>1 DEF Overdrawing
  <2>2. Account!Grant(p, target)
    BY <1>1, <1>4, <2>1 DEF Account!Grant, Overdrawing
  <2> QED
    BY <1>2, <2>2 DEF Account!Next
<1> QED
  BY <1>3, <1>4, GrantEffect

\* An admitted reservation is a covered hold, or a hold on overage.
LEMMA ReserveRefines ==
  ASSUME LedgerInv, NEW r \in Requests, CommitReserve(r)
  PROVE  [Account!Next]_Account!vars
<1> DEFINE p == period[r]
<1>1. UNCHANGED << granted, returned, overdrawn, settled, rplan >>
  BY DEF CommitReserve, localVars
<1>2. p \in Periods /\ reservedIn[r] = None /\ p # None
  BY PeriodsAreNumbers
  DEF LedgerInv, TypeOK, EntriesFollowHandler, CommitReserve, Goto,
      BeforeReservation
<1>3. CASE UNCHANGED << reserved, reservedIn >>
  BY <1>1, <1>3, AccountStutter DEF AccountRows
<1>4. CASE /\ MayReserve(r)
           /\ reserved' = [reserved EXCEPT ![p] = @ + Reservation]
           /\ reservedIn' = [reservedIn EXCEPT ![r] = p]
  <2>1. CASE rplan[r] \in Overage
    <3>1. Overdrawing' = Overdrawing \cup {r}
      BY <1>1, <1>2, <1>4, <2>1 DEF Overdrawing, LedgerInv, TypeOK
    <3> QED
      BY <1>1, <1>2, <1>4, <3>1
      DEF Account!Hold, Account!Next, Account!None, None, Overdrawing
  <2>2. CASE rplan[r] \notin Overage
    <3>1. Overdrawing' = Overdrawing
      BY <1>1, <1>2, <1>4, <2>2 DEF Overdrawing, LedgerInv, TypeOK
    <3>2. /\ seen[r] - Reservation >= 0
          /\ seen[r] <= granted[p] + returned[p] - reserved[p]
      BY <1>4, <2>2 DEF MayReserve, CommitReserve, Goto, LedgerInv, ReadsHold
    <3>3. reserved[p] + Reservation <= granted[p] + returned[p]
      BY <1>2, <3>2, AmountsAssumption DEF LedgerInv, TypeOK
    <3> QED
      BY <1>1, <1>2, <1>4, <3>1, <3>3
      DEF Account!Hold, Account!Next, Account!None, None, Overdrawing
  <2> QED
    BY <2>1, <2>2
<1> QED
  BY <1>3, <1>4 DEF CommitReserve

\* A settlement or a release closes the hold, unless it is closed already.
LEMMA SettlementRefines ==
  ASSUME LedgerInv, NEW r \in Requests, Settle(r) \/ Release(r)
  PROVE  [Account!Next]_Account!vars
<1>1. PICK actual \in Costs \cup {0} : Settlement(r, actual)
  BY DEF Settle, Release, Goto, LedgerInv, EntriesFollowHandler
<1>2. actual \in Nat /\ rplan' = rplan
  BY AmountsAssumption DEF Settle, Release
<1>3. Overdrawing' = Overdrawing
  BY <1>1, <1>2, SettlementEffect DEF Overdrawing
<1>4. month \in Periods /\ reservedIn[r] # None /\ reservedIn[r] <= month
  BY DEF LedgerInv, TypeOK, EntriesFollowHandler, Settle, Release, Goto,
         AfterReservation
<1>5. CASE UNCHANGED << settled, returned, overdrawn >>
  BY <1>1, <1>2, <1>5, SettlementEffect, AccountStutter DEF AccountRows
<1>6. CASE /\ settled[r] = None
           /\ settled' = [settled EXCEPT ![r] = actual]
           /\ \/ /\ actual <= Reservation
                 /\ returned' = [returned EXCEPT ![month] =
                                   @ + (Reservation - actual)]
                 /\ UNCHANGED overdrawn
              \/ /\ actual > Reservation
                 /\ overdrawn' = [overdrawn EXCEPT ![month] =
                                   @ + (actual - Reservation)]
                 /\ UNCHANGED returned
  <2>1. Account!Close(r, month, actual)
    BY <1>1, <1>2, <1>3, <1>4, <1>6, SettlementEffect
    DEF Account!Close, Account!None, None, Overdrawing
  <2> QED
    BY <1>1, <1>4, <2>1 DEF Account!Next
<1> QED
  BY <1>1, <1>2, <1>5, <1>6, SettlementEffect

\* Every step of the handlers maps to one step of the account or to none.
LEMMA AccountStep ==
  LedgerInv /\ [Next]_vars => [Account!Next]_Account!vars
<1> SUFFICES ASSUME LedgerInv, [Next]_vars
             PROVE  [Account!Next]_Account!vars
  OBVIOUS
<1>1. ASSUME NEW r \in Requests, ReadPlan(r)
      PROVE  UNCHANGED Account!vars
  <2>1. \A q \in Requests : reservedIn[q] # None => rplan'[q] = rplan[q]
    BY <1>1 DEF ReadPlan, Goto, LedgerInv, TypeOK, EntriesFollowHandler,
                BeforeReservation
  <2> QED
    BY <1>1, <2>1, AccountStutter DEF ReadPlan, AccountRows, ledgerVars
<1>2. ASSUME UNCHANGED << ledgerVars, rplan >>
      PROVE  UNCHANGED Account!vars
  BY <1>2, AccountStutter DEF AccountRows, ledgerVars
<1>3. ASSUME NEW r \in Requests, Admission(r)
      PROVE  [Account!Next]_Account!vars
  BY <1>1, <1>2, <1>3, GrantRefines, ReserveRefines
  DEF Admission, CallGrant, CallReserve, EnterCall, BeginGrant, BeginReserve
<1>4. ASSUME NEW r \in Requests, Generation(r)
      PROVE  [Account!Next]_Account!vars
  BY <1>2, <1>4, SettlementRefines
  DEF Generation, Continue, QuotaAllows, QuotaRejects, Prepared,
      PreparationFails, StreamYieldsNothing, Audit, RecordGeneration, localVars
<1>5. ASSUME NEW r \in Requests, Failure(r)
      PROVE  [Account!Next]_Account!vars
  BY <1>2, <1>5
  DEF Failure, Fault, UsageWriteFails, SettlementFails,
      ReleaseFails, Crash, localVars
<1>6. CASE ChangePlan \/ NextMonth \/ UNCHANGED vars
  BY <1>2, <1>6 DEF ChangePlan, NextMonth, vars, localVars
<1> QED
  BY <1>3, <1>4, <1>5, <1>6 DEF Next

\* The ledger and its handlers implement the abstract account: each request
\* holds at most once and is closed at most once, never in an earlier month,
\* and a hold without overage is covered at the moment it is written although
\* the check and the write are separate steps.
THEOREM LedgerImplementsAccount == Spec => ImplementsAccount
<1>1. LedgerInv /\ [Next]_vars => [Account!Next]_Account!vars
  BY AccountStep
<1> QED
  BY <1>1, AccountInit, LedgerInvariant, PTL
  DEF Spec, ImplementsAccount, Account!Spec

-----------------------------------------------------------------------------
(***************************************************************************)
(* The sums of the ledger as counts of its entries.                        *)
(***************************************************************************)
Held == {r \in Requests : reservedIn[r] # None}
HeldIn(p) == {r \in Requests : reservedIn[r] = p}
ClosedBy(p) == {r \in Closed : reservedIn[r] <= p}

\* Every reservation is in the sum of its month, and a month is given back at
\* most one reservation for each request that reserved in it or before.
EntriesAddUp ==
  /\ \A p \in Periods : reserved[p] = Reservation * Cardinality(HeldIn(p))
  /\ \A p \in Periods : returned[p] <= Reservation * Cardinality(ClosedBy(p))
  /\ SumOf(reserved, Periods) = Reservation * Cardinality(Held)
  /\ SumOf(returned, Periods) + SumOf(settled, Closed)
       = SumOf(overdrawn, Periods) + Reservation * Cardinality(Closed)

\* The months and the sets of requests are finite.
LEMMA RequestsAreFinite ==
  /\ IsFiniteSet(Periods)
  /\ \A S \in SUBSET Requests : IsFiniteSet(S) /\ Cardinality(S) \in Nat
<1>1. IsFiniteSet(Periods)
  BY FS_Interval, BoundsAssumption DEF Periods
<1>2. \A S \in SUBSET Requests : IsFiniteSet(S)
  BY FS_Subset, RequestsAssumption
<1> QED
  BY <1>1, <1>2, FS_CardinalityType

\* One more request is one more reservation.
LEMMA OneMoreReservation ==
  ASSUME NEW S \in SUBSET Requests, NEW r \in Requests \ S
  PROVE  Reservation * Cardinality(S \cup {r}) = Reservation * Cardinality(S) + Reservation
<1>1. Cardinality(S \cup {r}) = Cardinality(S) + 1 /\ Cardinality(S) \in Nat
  BY RequestsAreFinite, FS_AddElement
<1>2. ASSUME NEW n \in Nat
      PROVE  Reservation * (n + 1) = Reservation * n + Reservation
  BY AmountsAssumption
<1> QED
  BY <1>1, <1>2

\* A larger set of requests is no fewer reservations.
LEMMA MoreReservations ==
  ASSUME NEW S \in SUBSET Requests, NEW T \in SUBSET S
  PROVE  /\ Reservation * Cardinality(T) <= Reservation * Cardinality(S)
         /\ Reservation * Cardinality(T) \in Nat /\ Reservation * Cardinality(S) \in Nat
<1>1. Cardinality(T) <= Cardinality(S) /\ Cardinality(T) \in Nat /\ Cardinality(S) \in Nat
  BY RequestsAreFinite, FS_Subset
<1>2. ASSUME NEW m \in Nat, NEW n \in Nat, m <= n
      PROVE  Reservation * m <= Reservation * n /\ Reservation * m \in Nat
  BY <1>2, AmountsAssumption
<1> QED
  BY <1>1, <1>2

\* The empty ledger adds up.
LEMMA InitAddsUp == Init => EntriesAddUp
<1> SUFFICES ASSUME Init
             PROVE  EntriesAddUp
  OBVIOUS
<1>1. Held = {} /\ Closed = {} /\ \A p \in Periods : HeldIn(p) = {}
  BY PeriodsAreNumbers DEF Init, Held, HeldIn, Closed
<1>2. \A p \in Periods : ClosedBy(p) = {}
  BY <1>1 DEF ClosedBy
<1>3. Cardinality({}) = 0 /\ Reservation * 0 = 0
  BY FS_EmptySet, AmountsAssumption
<1>4. reserved = returned /\ overdrawn = returned /\ \A p \in Periods : returned[p] = 0
  BY DEF Init
<1>5. SumOf(returned, Periods) = 0
  <2>1. SumOf(returned, {}) = SumOf(returned, Periods)
    BY <1>4, RequestsAreFinite, SumOfSubset
  <2> QED
    BY <2>1, SumOfNone
<1>6. SumOf(settled, Closed) = 0
  BY <1>1, SumOfNone
<1>7. SumOf(reserved, Periods) = 0 /\ SumOf(overdrawn, Periods) = 0
  BY <1>4, <1>5
<1>8. \A p \in Periods : /\ reserved[p] = Reservation * Cardinality(HeldIn(p))
                         /\ returned[p] <= Reservation * Cardinality(ClosedBy(p))
  BY <1>1, <1>2, <1>3, <1>4
<1>9. Reservation * Cardinality(Held) = 0 /\ Reservation * Cardinality(Closed) = 0
  BY <1>1, <1>3
<1> QED
  BY <1>5, <1>6, <1>7, <1>8, <1>9 DEF EntriesAddUp

\* A reservation that commits is one more request, in the sum of its month and
\* in the sum of all.
LEMMA HoldAddsUp ==
  ASSUME LedgerInv, TypeOK', EntriesAddUp, NEW r \in Requests, CommitReserve(r)
  PROVE  EntriesAddUp'
<1>1. PICK p \in Periods : p = period[r]
  BY DEF LedgerInv, TypeOK
<1>2. /\ UNCHANGED << returned, overdrawn, settled >>
      /\ reservedIn[r] = None /\ settled[r] = None
  BY DEF CommitReserve, Goto, LedgerInv, TypeOK, EntriesFollowHandler, BeforeReservation
<1>3. CASE UNCHANGED << reserved, reservedIn >>
  BY <1>2, <1>3 DEF EntriesAddUp, Held, HeldIn, ClosedBy, Closed
<1>4. CASE /\ reserved' = [reserved EXCEPT ![p] = @ + Reservation]
           /\ reservedIn' = [reservedIn EXCEPT ![r] = p]
  <2>1. /\ HeldIn(p)' = HeldIn(p) \cup {r} /\ r \notin HeldIn(p)
        /\ \A q \in Periods : q # p => HeldIn(q)' = HeldIn(q)
        /\ Held' = Held \cup {r} /\ r \notin Held
    <3>1. \A q \in Requests : reservedIn'[q] = IF q = r THEN p ELSE reservedIn[q]
      BY <1>4 DEF LedgerInv, TypeOK
    <3> QED
      BY <1>2, <3>1, PeriodsAreNumbers DEF HeldIn, Held
  <2>2. Closed' = Closed /\ \A q \in Periods : ClosedBy(q)' = ClosedBy(q)
    <3>1. Closed' = Closed
      BY <1>2 DEF Closed
    <3>2. \A q \in Closed : reservedIn'[q] = reservedIn[q]
      BY <1>2, <1>4 DEF Closed, LedgerInv, TypeOK
    <3> QED
      BY <3>1, <3>2 DEF ClosedBy
  <2>3. \A q \in Periods : reserved'[q] = IF q = p THEN reserved[p] + Reservation ELSE reserved[q]
    BY <1>4 DEF LedgerInv, TypeOK
  <2>4. \A q \in Periods : reserved[q] \in Nat /\ reserved'[q] \in Nat
    BY DEF LedgerInv, TypeOK
  <2>5. \A q \in Periods : reserved'[q] = Reservation * Cardinality(HeldIn(q)')
    <3>1. Reservation * Cardinality(HeldIn(p) \cup {r})
            = Reservation * Cardinality(HeldIn(p)) + Reservation
      BY <2>1, OneMoreReservation DEF HeldIn
    <3> QED
      BY <2>1, <2>3, <3>1 DEF EntriesAddUp
  <2>6. SumOf(reserved', Periods) = Reservation * Cardinality(Held')
    <3>1. SumOf(reserved', Periods) + reserved[p] = SumOf(reserved, Periods) + reserved'[p]
      BY <2>3, <2>4, RequestsAreFinite, SumOfChange
    <3>2. SumOf(reserved', Periods) \in Nat /\ SumOf(reserved, Periods) \in Nat
      BY <2>4, RequestsAreFinite, SumIsNat
    <3>3. Reservation * Cardinality(Held \cup {r}) = Reservation * Cardinality(Held) + Reservation
      BY <2>1, OneMoreReservation DEF Held
    <3>4. reserved'[p] = reserved[p] + Reservation /\ reserved[p] \in Nat /\ Reservation \in Nat
      BY <2>3, <2>4, AmountsAssumption
    <3> QED
      BY <2>1, <3>1, <3>2, <3>3, <3>4 DEF EntriesAddUp
  <2> QED
    BY <1>2, <2>2, <2>5, <2>6 DEF EntriesAddUp
<1> QED
  BY <1>1, <1>3, <1>4 DEF CommitReserve

\* A settlement or a release that is booked closes one more request: what is
\* given back and what it cost make up its reservation.
LEMMA CloseAddsUp ==
  ASSUME LedgerInv, TypeOK', EntriesAddUp, NEW r \in Requests, pc[r] \in AfterReservation,
         NEW actual \in Nat, Settlement(r, actual)
  PROVE  EntriesAddUp'
<1>1. PICK m \in Periods : m = month
  BY DEF LedgerInv, TypeOK
<1>2. /\ UNCHANGED << reserved, reservedIn >>
      /\ Held' = Held /\ \A p \in Periods : HeldIn(p)' = HeldIn(p)
  BY SettlementEffect DEF Held, HeldIn
<1>3. CASE UNCHANGED << settled, returned, overdrawn >>
  BY <1>2, <1>3 DEF EntriesAddUp, ClosedBy, Closed
<1>4. CASE /\ settled[r] = None
           /\ settled' = [settled EXCEPT ![r] = actual]
           /\ \/ /\ actual <= Reservation
                 /\ returned' = [returned EXCEPT ![m] = @ + (Reservation - actual)]
                 /\ UNCHANGED overdrawn
              \/ /\ actual > Reservation
                 /\ overdrawn' = [overdrawn EXCEPT ![m] = @ + (actual - Reservation)]
                 /\ UNCHANGED returned
  <2>1. \A q \in Requests : settled'[q] = IF q = r THEN actual ELSE settled[q]
    BY <1>4 DEF LedgerInv, TypeOK
  <2>2. Closed' = Closed \cup {r} /\ r \notin Closed
    BY <1>4, <2>1, NoneIsANumber DEF Closed
  <2>3. /\ reservedIn[r] \in Periods /\ reservedIn[r] <= m
        /\ \A p \in Periods : ClosedBy(p)' = IF reservedIn[r] <= p THEN ClosedBy(p) \cup {r}
                                                                   ELSE ClosedBy(p)
    <3>1. reservedIn[r] \in Periods /\ reservedIn[r] <= m
      BY <1>1 DEF LedgerInv, TypeOK, EntriesFollowHandler
    <3> QED
      BY <1>2, <2>2, <3>1 DEF ClosedBy
  <2>4. /\ \A p \in Periods : /\ returned[p] \in Nat /\ returned'[p] \in Nat
                              /\ overdrawn[p] \in Nat /\ overdrawn'[p] \in Nat
        /\ Reservation \in Nat
    BY AmountsAssumption DEF LedgerInv, TypeOK
  <2>5. \/ /\ returned'[m] = returned[m] + Reservation - actual /\ actual <= Reservation
           /\ overdrawn'[m] = overdrawn[m]
        \/ /\ overdrawn'[m] = overdrawn[m] + actual - Reservation
           /\ returned'[m] = returned[m]
    BY <1>4, <2>4 DEF LedgerInv, TypeOK
  <2>6. \A p \in Periods \ {m} : returned'[p] = returned[p] /\ overdrawn'[p] = overdrawn[p]
    BY <1>4 DEF LedgerInv, TypeOK
  <2>7. ASSUME NEW p \in Periods
        PROVE  returned'[p] <= Reservation * Cardinality(ClosedBy(p)')
    <3>1. returned[p] <= Reservation * Cardinality(ClosedBy(p))
      BY DEF EntriesAddUp
    <3>2. CASE reservedIn[r] <= p
      <4>1. Reservation * Cardinality(ClosedBy(p) \cup {r})
              = Reservation * Cardinality(ClosedBy(p)) + Reservation
        BY <2>2, OneMoreReservation DEF ClosedBy, Closed
      <4>2. returned'[p] <= returned[p] + Reservation
        BY <2>4, <2>5, <2>6
      <4>3. Reservation * Cardinality(ClosedBy(p)) \in Nat
        BY MoreReservations DEF ClosedBy, Closed
      <4>4. returned'[p] <= Reservation * Cardinality(ClosedBy(p) \cup {r})
        <5>1. PICK n : n = Reservation * Cardinality(ClosedBy(p))
          OBVIOUS
        <5> QED
          BY <2>4, <3>1, <4>1, <4>2, <4>3, <5>1
      <4>5. ClosedBy(p)' = ClosedBy(p) \cup {r}
        BY <2>3, <3>2
      <4> QED
        BY <4>4, <4>5
    <3>3. CASE ~(reservedIn[r] <= p)
      BY <2>3, <2>6, <3>1, <3>3
    <3> QED
      BY <3>2, <3>3
  <2>8. /\ SumOf(returned', Periods) + returned[m] = SumOf(returned, Periods) + returned'[m]
        /\ SumOf(overdrawn', Periods) + overdrawn[m] = SumOf(overdrawn, Periods) + overdrawn'[m]
    BY <2>4, <2>6, RequestsAreFinite, SumOfChange
  <2>9. /\ SumOf(returned', Periods) \in Nat /\ SumOf(returned, Periods) \in Nat
        /\ SumOf(overdrawn', Periods) \in Nat /\ SumOf(overdrawn, Periods) \in Nat
    BY <2>4, RequestsAreFinite, SumIsNat
  <2>10. /\ SumOf(settled', Closed') = actual + SumOf(settled, Closed)
         /\ SumOf(settled, Closed) \in Nat
    <3>1. \A q \in Closed : settled[q] \in Nat /\ settled'[q] = settled[q] /\ q \in Requests
      BY <2>1, <2>2 DEF Closed, LedgerInv, TypeOK
    <3>2. IsFiniteSet(Closed) /\ IsFiniteSet(Closed')
      BY <2>2, RequestsAreFinite DEF Closed
    <3>3. SumOf(settled', Closed') = settled'[r] + SumOf(settled', Closed' \ {r})
      <4>1. \A q \in Closed' : settled'[q] \in Nat
        BY <2>1, <2>2, <3>1
      <4> QED
        BY <2>2, <3>2, <4>1, SumOfRest
    <3>4. Closed' \ {r} = Closed /\ settled'[r] = actual
      BY <2>1, <2>2
    <3>5. SumOf(settled', Closed) = SumOf(settled, Closed) /\ SumOf(settled, Closed) \in Nat
      BY <3>1, <3>2, SumOfSame, SumIsNat
    <3> QED
      BY <3>3, <3>4, <3>5
  <2>11. /\ Reservation * Cardinality(Closed') = Reservation * Cardinality(Closed) + Reservation
         /\ Reservation * Cardinality(Closed) \in Nat
    BY <2>2, OneMoreReservation, MoreReservations DEF Closed
  <2>12. SumOf(returned', Periods) + SumOf(settled', Closed')
           = SumOf(overdrawn', Periods) + Reservation * Cardinality(Closed')
    <3>1. SumOf(returned, Periods) + SumOf(settled, Closed)
            = SumOf(overdrawn, Periods) + Reservation * Cardinality(Closed)
      BY DEF EntriesAddUp
    <3> QED
      BY <2>4, <2>5, <2>8, <2>9, <2>10, <2>11, <3>1
  <2> QED
    BY <1>2, <2>7, <2>12 DEF EntriesAddUp
<1> QED
  BY <1>1, <1>3, <1>4, SettlementEffect

\* The entries of a request, and only they, change the sums.
LEMMA StepAddsUp == LedgerInv /\ EntriesAddUp /\ [Next]_vars => EntriesAddUp'
<1> SUFFICES ASSUME LedgerInv, EntriesAddUp, [Next]_vars
             PROVE  EntriesAddUp'
  OBVIOUS
<1>1. TypeOK'
  BY TypeStep DEF LedgerInv
<1>2. ASSUME UNCHANGED << reserved, returned, overdrawn, reservedIn, settled >>
      PROVE  EntriesAddUp'
  BY <1>2 DEF EntriesAddUp, Held, HeldIn, ClosedBy, Closed
<1>3. ASSUME NEW r \in Requests, Settle(r) \/ Release(r)
      PROVE  EntriesAddUp'
  <2>1. PICK actual \in Nat : Settlement(r, actual)
    BY <1>3, AmountsAssumption DEF Settle, Release, Goto, LedgerInv, EntriesFollowHandler
  <2>2. pc[r] \in AfterReservation
    BY <1>3 DEF Settle, Release, Goto, AfterReservation
  <2> QED
    BY <1>1, <2>1, <2>2, CloseAddsUp
<1>4. ASSUME NEW r \in Requests, Admission(r)
      PROVE  EntriesAddUp'
  BY <1>1, <1>2, <1>4, HoldAddsUp
  DEF Admission, ReadPlan, CallGrant, CallReserve, EnterCall, BeginGrant, CommitGrant,
      BeginReserve, ledgerVars
<1>5. ASSUME NEW r \in Requests, Generation(r)
      PROVE  EntriesAddUp'
  BY <1>2, <1>3, <1>5
  DEF Generation, Continue, QuotaAllows, QuotaRejects, Prepared, PreparationFails,
      StreamYieldsNothing, Audit, RecordGeneration, ledgerVars
<1>6. ASSUME NEW r \in Requests, Failure(r)
      PROVE  EntriesAddUp'
  BY <1>2, <1>6
  DEF Failure, Fault, UsageWriteFails, SettlementFails, ReleaseFails, Crash,
      ledgerVars
<1>7. CASE ChangePlan \/ NextMonth \/ UNCHANGED vars
  BY <1>2, <1>7 DEF ChangePlan, NextMonth, vars, ledgerVars
<1> QED
  BY <1>4, <1>5, <1>6, <1>7 DEF Next

\* The sums count the entries throughout.
LEMMA LedgerAddsUp == Spec => [](LedgerInv /\ EntriesAddUp)
<1>1. Init => LedgerInv /\ EntriesAddUp
  BY LedgerInit, InitAddsUp
<1>2. LedgerInv /\ EntriesAddUp /\ [Next]_vars => LedgerInv' /\ EntriesAddUp'
  BY LedgerStep, StepAddsUp
<1> QED
  BY <1>1, <1>2, PTL DEF Spec

\* What a month has above its own allowance was reserved in earlier months: a
\* reservation is given back at most once, and within a month it only returns
\* what the month was charged.
THEOREM MonthIsBounded == Spec => []MonthBoundedByAllowance
<1>1. ASSUME LedgerInv, EntriesAddUp, NEW p \in Periods
      PROVE  Balance(p) <= granted[p] + Reservation * Cardinality(CarriedOver(p))
  <2>1. ClosedBy(p) \subseteq CarriedOver(p) \cup HeldIn(p)
    <3>1. \A q \in Closed : reservedIn[q] \in Nat /\ q \in Requests
      BY <1>1, PeriodsAreNumbers DEF Closed, LedgerInv, TypeOK, EntriesFollowHandler
    <3>2. p \in Nat
      BY PeriodsAreNumbers
    <3>3. ASSUME NEW i \in Nat, i <= p
          PROVE  i \in 0 .. p - 1 \/ i = p
      BY <3>2, <3>3
    <3> QED
      BY <3>1, <3>3 DEF ClosedBy, CarriedOver, HeldIn
  <2>2. Cardinality(ClosedBy(p)) <= Cardinality(CarriedOver(p)) + Cardinality(HeldIn(p))
    <3> DEFINE C == CarriedOver(p)
               H == HeldIn(p)
    <3>1. C \in SUBSET Requests /\ H \in SUBSET Requests
      BY DEF CarriedOver, HeldIn
    <3> HIDE DEF C, H
    <3>2. /\ IsFiniteSet(C) /\ IsFiniteSet(H) /\ IsFiniteSet(C \cup H)
          /\ Cardinality(C) \in Nat /\ Cardinality(H) \in Nat /\ Cardinality(C \cap H) \in Nat
      BY <3>1, RequestsAreFinite
    <3>3. Cardinality(C \cup H) = Cardinality(C) + Cardinality(H) - Cardinality(C \cap H)
      BY <3>2, FS_Union
    <3>4. Cardinality(ClosedBy(p)) <= Cardinality(C \cup H) /\ Cardinality(ClosedBy(p)) \in Nat
      BY <2>1, <3>2, FS_Subset, FS_CardinalityType DEF C, H
    <3> QED
      BY <3>2, <3>3, <3>4 DEF C, H
  <2>3. Reservation * Cardinality(ClosedBy(p))
          <= Reservation * Cardinality(CarriedOver(p)) + Reservation * Cardinality(HeldIn(p))
    <3>1. ASSUME NEW i \in Nat, NEW j \in Nat, NEW k \in Nat, i <= j + k
          PROVE  Reservation * i <= Reservation * j + Reservation * k
      BY <3>1, AmountsAssumption
    <3>2. /\ Cardinality(ClosedBy(p)) \in Nat /\ Cardinality(HeldIn(p)) \in Nat
          /\ Cardinality(CarriedOver(p)) \in Nat
      BY RequestsAreFinite DEF ClosedBy, HeldIn, CarriedOver, Closed
    <3> QED
      BY <2>2, <3>1, <3>2
  <2>4. /\ reserved[p] = Reservation * Cardinality(HeldIn(p))
        /\ returned[p] <= Reservation * Cardinality(ClosedBy(p))
    BY <1>1 DEF EntriesAddUp
  <2>5. /\ granted[p] \in Nat /\ returned[p] \in Nat /\ reserved[p] \in Nat /\ overdrawn[p] \in Nat
        /\ Reservation * Cardinality(ClosedBy(p)) \in Nat
        /\ Reservation * Cardinality(CarriedOver(p)) \in Nat
    BY <1>1, MoreReservations DEF LedgerInv, TypeOK, ClosedBy, CarriedOver, Closed
  <2> QED
    BY <2>3, <2>4, <2>5 DEF Balance
<1>2. LedgerInv /\ EntriesAddUp => MonthBoundedByAllowance
  BY <1>1 DEF MonthBoundedByAllowance
<1> QED
  BY <1>2, LedgerAddsUp, PTL

\* The sum of the balances is the sum of a function.
LEMMA SumsOfMonths ==
  ASSUME TypeOK
  PROVE  MapThenSumSet(Balance, Periods) = SumOf([p \in Periods |-> Balance(p)], Periods)
<1> DEFINE c == [p \in Periods |-> Balance(p)]
           Step(h, s) == IF s = {} THEN 0
                         ELSE Balance(CHOOSE x \in s : TRUE) + h[s \ {CHOOSE x \in s : TRUE}]
           g == CHOOSE h : h = [s \in SUBSET Periods |-> Step(h, s)]
<1>1. MapThenSumSet(Balance, Periods) = g[Periods]
  BY DEF MapThenSumSet, MapThenFoldSet
<1>2. ASSUME NEW h, NEW s \in SUBSET Periods
      PROVE  Step(h, s) = SumStep(c, h, s)
  BY DEF SumStep
<1>3. ASSUME NEW h
      PROVE  SumSolution(c, Periods, h) <=> h = [s \in SUBSET Periods |-> Step(h, s)]
  BY <1>2 DEF SumSolution
<1>4. \E h : SumSolution(c, Periods, h)
  <2>1. \A p \in Periods : c[p] \in Int
    BY DEF Balance, TypeOK
  <2> HIDE DEF c
  <2> QED
    BY <2>1, RequestsAreFinite, SumIsDefined
<1>5. SumSolution(c, Periods, g)
  <2> HIDE DEF c, Step
  <2>1. \E h : h = [s \in SUBSET Periods |-> Step(h, s)]
    BY <1>3, <1>4
  <2>2. g = [s \in SUBSET Periods |-> Step(g, s)]
    BY <2>1, Zenon
  <2> QED
    BY <1>3, <2>2
<1>6. SumOf(c, Periods) = g[Periods]
  <2> HIDE DEF c, g
  <2> QED
    BY <1>5, RequestsAreFinite, SumIsSolution
<1> QED
  BY <1>1, <1>6

\* The rows account for every request once: what was granted in all months is
\* what is left, what the settled requests cost and what the open ones hold.
THEOREM LedgerConserves == Spec => []LedgerConservation
<1>1. ASSUME LedgerInv, EntriesAddUp
      PROVE  LedgerConservation
  <2> DEFINE balance == [p \in Periods |-> Balance(p)]
             more == [p \in Periods |-> granted[p] + returned[p]]
             less == [p \in Periods |-> reserved[p] + overdrawn[p]]
  <2>1. \A p \in Periods : /\ granted[p] \in Nat /\ returned[p] \in Nat
                           /\ reserved[p] \in Nat /\ overdrawn[p] \in Nat
    BY <1>1 DEF LedgerInv, TypeOK
  <2>2. \A p \in Periods : /\ more[p] \in Nat /\ more[p] = granted[p] + returned[p]
                           /\ less[p] \in Nat /\ less[p] = reserved[p] + overdrawn[p]
                           /\ balance[p] = more[p] - less[p]
    BY <2>1 DEF Balance
  <2>3. MapThenSumSet(Balance, Periods) = SumOf(balance, Periods)
    BY <1>1, SumsOfMonths DEF LedgerInv
  <2> HIDE DEF balance, more, less
  <2>4. SumOf(balance, Periods) = SumOf(more, Periods) - SumOf(less, Periods)
    BY <2>2, RequestsAreFinite, SumOfDifferences
  <2>5. SumOf(more, Periods) = SumOf(granted, Periods) + SumOf(returned, Periods)
    BY <2>1, <2>2, RequestsAreFinite, SumOfTotals
  <2>6. SumOf(less, Periods) = SumOf(reserved, Periods) + SumOf(overdrawn, Periods)
    BY <2>1, <2>2, RequestsAreFinite, SumOfTotals
  <2>7. /\ SumOf(granted, Periods) \in Nat /\ SumOf(returned, Periods) \in Nat
        /\ SumOf(reserved, Periods) \in Nat /\ SumOf(overdrawn, Periods) \in Nat
    BY <2>1, RequestsAreFinite, SumIsNat
  <2>8. SumOf(settled, Closed) \in Nat
    <3>1. IsFiniteSet(Closed) /\ \A r \in Closed : settled[r] \in Nat
      BY <1>1, RequestsAreFinite DEF Closed, LedgerInv, TypeOK
    <3> QED
      BY <3>1, SumIsNat
  <2>9. Reservation * Cardinality(Held)
          = Reservation * Cardinality(Closed) + Reservation * Cardinality(Open)
    <3>1. Closed \subseteq Held /\ Open = Held \ Closed
      BY <1>1 DEF Closed, Open, Held, LedgerInv, TypeOK, EntriesFollowHandler
    <3>2. /\ IsFiniteSet(Held) /\ Cardinality(Held) \in Nat
          /\ IsFiniteSet(Closed) /\ Cardinality(Closed) \in Nat
          /\ IsFiniteSet(Open) /\ Cardinality(Open) \in Nat
      BY RequestsAreFinite DEF Held, Closed, Open
    <3>3. Cardinality(Held) = Cardinality(Closed) + Cardinality(Open)
      <4>1. Held = Closed \cup Open /\ Closed \cap Open = {}
        BY <3>1
      <4>2. Cardinality(Held)
              = Cardinality(Closed) + Cardinality(Open) - Cardinality(Closed \cap Open)
        BY <3>2, <4>1, FS_Union
      <4> QED
        BY <3>2, <4>1, <4>2, FS_EmptySet
    <3>4. ASSUME NEW i \in Nat, NEW j \in Nat
          PROVE  Reservation * (i + j) = Reservation * i + Reservation * j
      BY AmountsAssumption
    <3> QED
      BY <3>2, <3>3, <3>4
  <2>10. /\ Reservation * Cardinality(Closed) \in Nat
         /\ Reservation * Cardinality(Open) \in Nat
    BY MoreReservations DEF Closed, Open
  <2>11. SumOf(balance, Periods)
           = SumOf(granted, Periods) - SumOf(settled, Closed) - Reservation * Cardinality(Open)
    BY <1>1, <2>4, <2>5, <2>6, <2>7, <2>8, <2>9, <2>10 DEF EntriesAddUp
  <2> QED
    BY <2>3, <2>11 DEF LedgerConservation, SumOf
<1> QED
  BY <1>1, LedgerAddsUp, PTL

-----------------------------------------------------------------------------
(***************************************************************************)
(* What the handlers book.                                                 *)
(***************************************************************************)

\* A request whose settlement is wrong, or will be when the handler ends: a
\* release books no cost, whatever was recorded.
Spoiled(r) ==
  /\ reservedIn[r] # None
  /\ settled[r] # ExpectedCost(r)
  /\ pc[r] \in Final \cup {"audit"} \/ (pc[r] = "release" /\ cost[r] # None)

\* A handler has no cost before the generation, and no settlement before it
\* settles or releases.
HandlersBook ==
  \A r \in Requests :
    /\ pc[r] \in {"quota", "prepare", "stream"} \cup BeforeReservation => cost[r] = None
    /\ pc[r] \in {"quota", "prepare", "stream", "settle"} => settled[r] = None
    /\ pc[r] = "release" /\ cost[r] = None => settled[r] = None
    /\ pc[r] \in {"settle", "audit"} => cost[r] # None

FaultsSpoil == Cardinality({r \in Requests : Spoiled(r)}) <= faults

BookingInv == HandlersBook /\ FaultsSpoil

\* No request has begun.
LEMMA BookingInit == Init => BookingInv
<1> SUFFICES ASSUME Init
             PROVE  BookingInv
  OBVIOUS
<1>1. HandlersBook
  BY DEF Init, HandlersBook
<1>2. {r \in Requests : Spoiled(r)} = {}
  BY DEF Init, Spoiled
<1>3. FaultsSpoil
  BY <1>2, FS_EmptySet DEF FaultsSpoil, Init
<1> QED
  BY <1>1, <1>3 DEF BookingInv

\* A step that spoils no request that was not spoiled before.
LEMMA SpoilsNone ==
  ASSUME LedgerInv, BookingInv, faults' = faults,
         \A r \in Requests : Spoiled(r)' => Spoiled(r)
  PROVE  FaultsSpoil'
<1> DEFINE S == {r \in Requests : Spoiled(r)}
           T == {r \in Requests : Spoiled(r)'}
<1>1. T \subseteq S /\ IsFiniteSet(S)
  BY RequestsAreFinite
<1>2. Cardinality(T) <= Cardinality(S) /\ Cardinality(S) \in Nat /\ Cardinality(T) \in Nat
  BY <1>1, RequestsAreFinite, FS_Subset
<1> QED
  BY <1>2 DEF BookingInv, FaultsSpoil, LedgerInv, TypeOK

\* A fault spoils one request at most.
LEMMA SpoilsOne ==
  ASSUME LedgerInv, BookingInv, NEW r \in Requests, faults' = faults + 1,
         \A q \in Requests \ {r} : Spoiled(q)' => Spoiled(q)
  PROVE  FaultsSpoil'
<1> DEFINE S == {q \in Requests : Spoiled(q)}
           T == {q \in Requests : Spoiled(q)'}
<1>1. T \subseteq S \cup {r} /\ IsFiniteSet(S) /\ S \cup {r} \in SUBSET Requests
  BY RequestsAreFinite
<1>2. Cardinality(T) <= Cardinality(S \cup {r})
  BY <1>1, RequestsAreFinite, FS_Subset
<1>3. Cardinality(S \cup {r}) <= Cardinality(S) + 1
  <2> HIDE DEF S, T
  <2>1. CASE r \in S
    <3>1. S \cup {r} = S
      BY <2>1
    <3>2. Cardinality(S \cup {r}) = Cardinality(S) /\ Cardinality(S) \in Nat
      BY <1>1, <3>1, FS_CardinalityType
    <3> QED
      BY <3>2
  <2>2. CASE r \notin S
    <3>1. Cardinality(S \cup {r}) = Cardinality(S) + 1 /\ Cardinality(S) \in Nat
      BY <1>1, <2>2, FS_AddElement, FS_CardinalityType
    <3> QED
      BY <3>1
  <2> QED
    BY <2>1, <2>2
<1>4. Cardinality(S) \in Nat /\ Cardinality(T) \in Nat /\ Cardinality(S \cup {r}) \in Nat
  BY <1>1, RequestsAreFinite
<1>5. Cardinality(S) <= faults /\ faults \in Nat
  BY DEF BookingInv, FaultsSpoil, LedgerInv, TypeOK
<1>6. Cardinality(T) <= faults'
  <2> HIDE DEF S, T
  <2> QED
    BY <1>2, <1>3, <1>4, <1>5
<1> QED
  BY <1>6 DEF FaultsSpoil

\* A handler that moves on without an entry and without a cost.
LEMMA MoveBooks ==
  ASSUME LedgerInv, BookingInv, NEW r \in Requests, NEW from, NEW to, Goto(r, from, to),
         UNCHANGED << reservedIn, settled, cost >>,
         \/ from \in BeforeReservation /\ to \in BeforeReservation
         \/ from \in {"quota", "prepare", "stream"} /\ to \in {"prepare", "stream", "release"}
         \/ from \in {"settle", "audit"} /\ to \in {"audit", "release"} /\ from # to
         \/ from \in {"audit", "release"} /\ to = "done"
  PROVE  /\ HandlersBook'
         /\ \A q \in Requests \ {r} : Spoiled(q)' => Spoiled(q)
         /\ from # "settle" /\ ~(from = "release" /\ cost[r] = None) => (Spoiled(r)' => Spoiled(r))
<1> USE DEF Goto, BookingInv
<1>1. \A q \in Requests : pc'[q] = IF q = r THEN to ELSE pc[q]
  BY DEF LedgerInv, TypeOK
<1>3. HandlersBook'
  BY <1>1 DEF HandlersBook, BeforeReservation
<1>4. \A q \in Requests \ {r} : Spoiled(q)' => Spoiled(q)
  BY <1>1 DEF Spoiled, ExpectedCost
<1>5. from # "settle" /\ ~(from = "release" /\ cost[r] = None) => (Spoiled(r)' => Spoiled(r))
  BY <1>1 DEF Spoiled, ExpectedCost, BeforeReservation, Final, HandlersBook
<1> QED
  BY <1>3, <1>4, <1>5

\* A reservation is not spoiled when it is taken, nor is one that is denied.
LEMMA HoldBooks ==
  ASSUME LedgerInv, BookingInv, NEW r \in Requests, CommitReserve(r)
  PROVE  BookingInv'
<1> USE DEF BookingInv
<1>1. /\ reservedIn[r] = None /\ settled[r] = None /\ cost[r] = None
      /\ UNCHANGED << settled, cost, faults >>
      /\ \/ pc' = [pc EXCEPT ![r] = "quota"]
         \/ pc' = [pc EXCEPT ![r] = "denied"] /\ reservedIn' = reservedIn
      /\ \A q \in Requests \ {r} : reservedIn'[q] = reservedIn[q]
  BY DEF CommitReserve, Goto, LedgerInv, TypeOK, EntriesFollowHandler, HandlersBook,
         BeforeReservation, localVars
<1>2. HandlersBook'
  BY <1>1 DEF HandlersBook, LedgerInv, TypeOK, BeforeReservation
<1>3. \A q \in Requests : Spoiled(q)' => Spoiled(q)
  BY <1>1 DEF Spoiled, ExpectedCost, LedgerInv, TypeOK, Final
<1> QED
  BY <1>1, <1>2, <1>3, SpoilsNone

\* A settlement books the cost that was recorded; a release books none, which
\* is wrong only for a request that has a cost and is spoiled already.
LEMMA CloseBooks ==
  ASSUME LedgerInv, BookingInv, NEW r \in Requests, Settle(r) \/ Release(r)
  PROVE  BookingInv'
<1> USE DEF BookingInv
<1>1. UNCHANGED << reservedIn, cost, faults >>
  BY DEF Settle, Release, Settlement
<1>2. CASE Settle(r)
  <2>1. /\ pc[r] = "settle" /\ pc' = [pc EXCEPT ![r] = "audit"]
        /\ settled[r] = None /\ cost[r] # None
        /\ settled' = [settled EXCEPT ![r] = cost[r]]
    BY <1>2, AmountsAssumption, NoneIsANumber
    DEF Settle, Settlement, Book, Goto, HandlersBook, LedgerInv, EntriesFollowHandler
  <2>2. HandlersBook'
    BY <1>1, <2>1 DEF HandlersBook, LedgerInv, TypeOK, BeforeReservation
  <2>3. \A q \in Requests : Spoiled(q)' => Spoiled(q)
    BY <1>1, <2>1 DEF Spoiled, ExpectedCost, LedgerInv, TypeOK
  <2> QED
    BY <1>1, <2>2, <2>3, SpoilsNone
<1>3. CASE Release(r)
  <2>1. /\ pc[r] = "release" /\ pc' = [pc EXCEPT ![r] = "done"]
        /\ settled' = IF settled[r] = None THEN [settled EXCEPT ![r] = 0] ELSE settled
    BY <1>3, AmountsAssumption DEF Release, Settlement, Book, Goto
  <2>2. HandlersBook'
    BY <1>1, <2>1 DEF HandlersBook, LedgerInv, TypeOK, BeforeReservation
  <2>3. \A q \in Requests \ {r} : Spoiled(q)' => Spoiled(q)
    BY <1>1, <2>1 DEF Spoiled, ExpectedCost, LedgerInv, TypeOK
  <2>4. Spoiled(r)' => Spoiled(r)
    <3>1. CASE cost[r] = None
      BY <1>1, <2>1, <3>1 DEF Spoiled, ExpectedCost, LedgerInv, TypeOK, HandlersBook
    <3>2. CASE cost[r] # None /\ settled[r] = None
      BY <1>1, <2>1, <3>2 DEF Spoiled, ExpectedCost
    <3>3. CASE cost[r] # None /\ settled[r] # None
      BY <1>1, <2>1, <3>3 DEF Spoiled, ExpectedCost
    <3> QED
      BY <3>1, <3>2, <3>3
  <2> QED
    BY <1>1, <2>2, <2>3, <2>4, SpoilsNone
<1> QED
  BY <1>2, <1>3

\* No step without a fault spoils a request, and a fault spoils one.
LEMMA BookingStep == LedgerInv /\ BookingInv /\ [Next]_vars => BookingInv'
<1> SUFFICES ASSUME LedgerInv, BookingInv, [Next]_vars
             PROVE  BookingInv'
  OBVIOUS
<1> USE DEF BookingInv
<1>1. ASSUME NEW r \in Requests, NEW from, NEW to, Goto(r, from, to),
             UNCHANGED << reservedIn, settled, cost, faults >>,
             \/ from \in BeforeReservation /\ to \in BeforeReservation
             \/ from \in {"quota", "prepare", "stream"} /\ to \in {"prepare", "stream", "release"}
             \/ from = "audit" /\ to = "done"
      PROVE  BookingInv'
  <2>1. /\ HandlersBook'
        /\ \A q \in Requests \ {r} : Spoiled(q)' => Spoiled(q)
        /\ from # "settle" /\ ~(from = "release" /\ cost[r] = None) =>
             (Spoiled(r)' => Spoiled(r))
    BY <1>1, MoveBooks
  <2>2. from # "settle" /\ from # "release"
    BY <1>1 DEF BeforeReservation
  <2> QED
    BY <1>1, <2>1, <2>2, SpoilsNone
<1>2. ASSUME NEW r \in Requests, Admission(r)
      PROVE  BookingInv'
  BY <1>1, <1>2, HoldBooks
  DEF Admission, ReadPlan, CallGrant, CallReserve, EnterCall, BeginGrant, CommitGrant,
      BeginReserve, BeforeReservation, ledgerVars, localVars
<1>3. ASSUME NEW r \in Requests, RecordGeneration(r)
      PROVE  BookingInv'
  <2>1. /\ pc[r] = "stream" /\ pc' = [pc EXCEPT ![r] = "settle"]
        /\ UNCHANGED << reservedIn, settled, faults >>
        /\ cost'[r] # None /\ settled[r] = None
        /\ \A q \in Requests \ {r} : cost'[q] = cost[q]
    <3>1. PICK c \in Costs : cost' = [cost EXCEPT ![r] = c]
      BY <1>3 DEF RecordGeneration
    <3> QED
      BY <1>3, <3>1, AmountsAssumption, NoneIsANumber
      DEF RecordGeneration, Goto, HandlersBook, LedgerInv, TypeOK, ledgerVars
  <2>2. HandlersBook'
    BY <2>1 DEF HandlersBook, LedgerInv, TypeOK, BeforeReservation
  <2>3. \A q \in Requests : Spoiled(q)' => Spoiled(q)
    BY <2>1 DEF Spoiled, ExpectedCost, LedgerInv, TypeOK, Final
  <2> QED
    BY <2>1, <2>2, <2>3, SpoilsNone
<1>4. ASSUME NEW r \in Requests, Generation(r)
      PROVE  BookingInv'
  BY <1>1, <1>3, <1>4, CloseBooks
  DEF Generation, Continue, QuotaAllows, QuotaRejects, Prepared, PreparationFails,
      StreamYieldsNothing, Audit, ledgerVars, localVars
<1>5. ASSUME NEW r \in Requests, NEW from, NEW to, Fault(r, from, to),
             \/ from \in {"settle", "audit"} /\ to \in {"audit", "release"} /\ from # to
             \/ from \in {"audit", "release"} /\ to = "done"
      PROVE  BookingInv'
  <2>1. Goto(r, from, to) /\ UNCHANGED << reservedIn, settled, cost >> /\ faults' = faults + 1
    BY <1>5 DEF Fault, ledgerVars, localVars
  <2>2. HandlersBook' /\ \A q \in Requests \ {r} : Spoiled(q)' => Spoiled(q)
    BY <1>5, <2>1, MoveBooks
  <2> QED
    BY <2>1, <2>2, SpoilsOne
<1>6. ASSUME NEW r \in Requests, Crash(r)
      PROVE  BookingInv'
  <2>1. HandlersBook' /\ \A q \in Requests \ {r} : Spoiled(q)' => Spoiled(q)
    BY <1>6 DEF Crash, HandlersBook, Spoiled, ExpectedCost, LedgerInv, TypeOK, BeforeReservation,
                ledgerVars, localVars
  <2> QED
    BY <1>6, <2>1, SpoilsOne DEF Crash
<1>7. ASSUME NEW r \in Requests, Failure(r)
      PROVE  BookingInv'
  BY <1>5, <1>6, <1>7
  DEF Failure, UsageWriteFails, SettlementFails, ReleaseFails
<1>8. CASE ChangePlan \/ NextMonth \/ UNCHANGED vars
  BY <1>8 DEF ChangePlan, NextMonth, vars, ledgerVars, localVars, HandlersBook, FaultsSpoil,
              Spoiled, ExpectedCost
<1> QED
  BY <1>2, <1>4, <1>7, <1>8 DEF Next

\* Only a crash or a failed write leaves a reservation open or wrongly booked,
\* at most one for each: every return, catch block and stream callback of the
\* handler closes it at the right cost.
THEOREM MisbookingsTakeFaults == Spec => []FaultsBoundMisbookings
<1>1. ASSUME LedgerInv, BookingInv
      PROVE  FaultsBoundMisbookings
  <2> DEFINE M == {r \in Requests : Misbooked(r)}
             S == {r \in Requests : Spoiled(r)}
  <2>1. M \subseteq S
    BY DEF Misbooked, Spoiled
  <2>2. Cardinality(M) <= Cardinality(S) /\ Cardinality(M) \in Nat /\ Cardinality(S) \in Nat
    BY <2>1, RequestsAreFinite, FS_Subset
  <2>3. Cardinality(S) <= faults /\ faults \in Nat
    BY <1>1 DEF BookingInv, FaultsSpoil, LedgerInv, TypeOK
  <2> QED
    BY <2>2, <2>3 DEF FaultsBoundMisbookings
<1>2. Init => LedgerInv /\ BookingInv
  BY LedgerInit, BookingInit
<1>3. LedgerInv /\ BookingInv /\ [Next]_vars => LedgerInv' /\ BookingInv'
  BY LedgerStep, BookingStep
<1> QED
  BY <1>1, <1>2, <1>3, PTL DEF Spec

\* A grant transaction leaves its month with the allowance of the plan at least.
LEMMA GrantSuffices ==
  ASSUME LedgerInv, NEW r \in Requests, CommitGrant(r)
  PROVE  /\ Included[rplan[r]] <= granted'[period[r]]
         /\ \A m \in Periods : granted[m] <= granted'[m]
<1>1. PICK p \in Periods : p = period[r]
  BY DEF LedgerInv, TypeOK
<1>2. PICK t \in Nat : t = Included[rplan[r]]
  BY PolicyAssumption DEF LedgerInv, TypeOK
<1>3. seen[r] = granted[p] /\ granted \in [Periods -> Nat]
  BY <1>1 DEF CommitGrant, Goto, LedgerInv, ReadsHold, TypeOK
<1>4. CASE t - seen[r] > 0 /\ t \notin grantTargets[p]
  <2>1. granted' = [granted EXCEPT ![p] = @ + (t - seen[r])]
    BY <1>1, <1>2, <1>4 DEF CommitGrant
  <2> QED
    BY <1>1, <1>2, <1>3, <1>4, <2>1
<1>5. CASE ~(t - seen[r] > 0 /\ t \notin grantTargets[p])
  <2>1. granted' = granted
    BY <1>1, <1>2, <1>5 DEF CommitGrant
  <2>2. t <= granted[p]
    BY <1>3, <1>5 DEF LedgerInv, GrantIsHighestTarget
  <2> QED
    BY <1>1, <1>2, <1>3, <2>1, <2>2
<1> QED
  BY <1>4, <1>5

(***************************************************************************)
(* Why a request is turned away.  On its way to the reservation its grant  *)
(* is made in the month of the reservation or in an earlier one; what it   *)
(* reads, with all that was reserved and overdrawn, covers the allowance.  *)
(***************************************************************************)
DenialAt(r) ==
  /\ pc[r] \in {"reserve", "reserveLock"} =>
       GrantedEarlier(r) \/ granted[period[r]] >= Included[rplan[r]]
  /\ pc[r] = "reserveTx" =>
       \/ GrantedEarlier(r)
       \/ seen[r] + reserved[period[r]] + overdrawn[period[r]] >= Included[rplan[r]]
  /\ pc[r] = "denied" =>
       \/ reserved[period[r]] + overdrawn[period[r]] + Reservation > Included[rplan[r]]
       \/ GrantedEarlier(r)

DenialInv == \A r \in Requests : DenialAt(r)

\* The ledger is append-only: no sum of entries of one kind ever falls.
SumsGrow ==
  \A p \in Periods :
    granted[p] <= granted'[p] /\ reserved[p] <= reserved'[p] /\ overdrawn[p] <= overdrawn'[p]

LEMMA SumsOnlyGrow ==
  ASSUME LedgerInv, [Next]_vars
  PROVE  SumsGrow
<1> USE DEF LedgerInv, TypeOK
<1>1. ASSUME NEW r \in Requests, CommitGrant(r)
      PROVE  SumsGrow
  <2>1. \A p \in Periods : granted[p] <= granted'[p]
    BY <1>1, GrantSuffices
  <2>2. reserved' = reserved /\ overdrawn' = overdrawn
    BY <1>1 DEF CommitGrant
  <2> QED
    BY <2>1, <2>2 DEF SumsGrow
<1>2. ASSUME NEW r \in Requests, CommitReserve(r)
      PROVE  SumsGrow
  BY <1>2, AmountsAssumption DEF CommitReserve, SumsGrow
<1>3. ASSUME NEW r \in Requests, NEW a \in Int, Settlement(r, a)
      PROVE  SumsGrow
  <2>1. granted' = granted /\ reserved' = reserved
    BY <1>3 DEF Settlement
  <2>2. overdrawn' = overdrawn \/ (a > Reservation /\ overdrawn' =
          [overdrawn EXCEPT ![month] = @ + (a - Reservation)])
    BY <1>3 DEF Settlement, Book
  <2>3. /\ overdrawn \in [Periods -> Nat] /\ overdrawn' \in [Periods -> Nat]
        /\ granted \in [Periods -> Nat] /\ reserved \in [Periods -> Nat]
        /\ month \in Periods
    BY TypeStep
  <2>4. ASSUME NEW p \in Periods
        PROVE  overdrawn[p] <= overdrawn'[p]
    <3>1. CASE overdrawn' = overdrawn
      BY <2>3, <3>1
    <3>2. CASE /\ a > Reservation
               /\ overdrawn' = [overdrawn EXCEPT ![month] = @ + (a - Reservation)]
      BY <1>3, <2>3, <3>2, AmountsAssumption
    <3> QED
      BY <2>2, <3>1, <3>2
  <2> QED
    BY <2>1, <2>3, <2>4 DEF SumsGrow
<1>4. ASSUME UNCHANGED << granted, reserved, overdrawn >>
      PROVE  SumsGrow
  BY <1>4 DEF SumsGrow
<1>5. ASSUME NEW r \in Requests, Admission(r), ~CommitGrant(r), ~CommitReserve(r)
      PROVE  SumsGrow
  BY <1>4, <1>5
  DEF Admission, ReadPlan, CallGrant, CallReserve, EnterCall, BeginGrant, BeginReserve,
      ledgerVars
<1>6. ASSUME NEW r \in Requests, Generation(r)
      PROVE  SumsGrow
  <2>1. CASE Settle(r)
    <3>1. Settlement(r, cost[r]) /\ cost[r] \in Int
      BY <2>1, NoneIsANumber DEF Settle
    <3> QED
      BY <1>3, <3>1
  <2>2. CASE Release(r)
    BY <1>3, <2>2 DEF Release
  <2> QED
    BY <1>4, <1>6, <2>1, <2>2
    DEF Generation, Continue, QuotaAllows, QuotaRejects, Prepared, PreparationFails,
        StreamYieldsNothing, Audit, RecordGeneration, ledgerVars
<1>7. ASSUME NEW r \in Requests, Failure(r)
      PROVE  SumsGrow
  BY <1>4, <1>7
  DEF Failure, Fault, UsageWriteFails, SettlementFails, ReleaseFails, Crash, ledgerVars
<1>8. CASE ChangePlan \/ NextMonth \/ UNCHANGED vars
  BY <1>4, <1>8 DEF ChangePlan, NextMonth, vars, ledgerVars
<1> QED
  BY <1>1, <1>2, <1>5, <1>6, <1>7, <1>8 DEF Next

\* The numbers that the reason for a denial is about.
LEMMA DenialNumbers ==
  ASSUME LedgerInv, NEW r \in Requests
  PROVE  /\ period[r] \in Periods /\ Included[rplan[r]] \in Nat
         /\ 0 .. period[r] - 1 \subseteq Periods
         /\ seen[r] \in Int /\ Reservation \in Nat
         /\ \A p \in Periods : /\ granted[p] \in Nat /\ reserved[p] \in Nat
                               /\ overdrawn[p] \in Nat /\ returned[p] \in Nat
BY PolicyAssumption, AmountsAssumption, BoundsAssumption DEF LedgerInv, TypeOK, Periods

\* A grant that was made stays made.
LEMMA EarlierGrantStays ==
  ASSUME LedgerInv, LedgerInv', SumsGrow, NEW r \in Requests, GrantedEarlier(r),
         rplan'[r] = rplan[r], period'[r] = period[r]
  PROVE  GrantedEarlier(r)'
<1>1. PICK p \in 0 .. period[r] - 1 : granted[p] >= Included[rplan[r]]
  BY DEF GrantedEarlier
<1>2. p \in Periods /\ granted[p] \in Nat /\ Included[rplan[r]] \in Nat
  BY DenialNumbers
<1>3. granted'[p] \in Nat
  BY <1>2 DEF LedgerInv, TypeOK
<1>4. granted'[p] >= Included[rplan'[r]]
  BY <1>1, <1>2, <1>3 DEF SumsGrow
<1> QED
  BY <1>1, <1>4 DEF GrantedEarlier

\* Steps of others, and steps of the request itself that leave its readings or
\* leave the way to the reservation.
LEMMA DenialUndisturbed ==
  ASSUME LedgerInv, LedgerInv', SumsGrow, NEW r \in Requests, DenialAt(r),
         \/ pc'[r] \notin {"reserve", "reserveLock", "reserveTx", "denied"}
         \/ /\ pc'[r] = pc[r] /\ rplan'[r] = rplan[r]
            /\ period'[r] = period[r] /\ seen'[r] = seen[r]
  PROVE  DenialAt(r)'
<1>1. CASE pc'[r] \notin {"reserve", "reserveLock", "reserveTx", "denied"}
  BY <1>1 DEF DenialAt
<1>2. CASE /\ pc'[r] = pc[r] /\ rplan'[r] = rplan[r]
           /\ period'[r] = period[r] /\ seen'[r] = seen[r]
  <2>1. GrantedEarlier(r) => GrantedEarlier(r)'
    BY <1>2, EarlierGrantStays
  <2>2. PICK p \in Periods : p = period[r]
    BY DenialNumbers
  <2>3. PICK i \in Nat : i = Included[rplan[r]]
    BY DenialNumbers
  <2>4. /\ granted[p] \in Nat /\ reserved[p] \in Nat /\ overdrawn[p] \in Nat
        /\ granted'[p] \in Nat /\ reserved'[p] \in Nat /\ overdrawn'[p] \in Nat
        /\ seen[r] \in Int /\ Reservation \in Nat
    BY <2>2, DenialNumbers DEF LedgerInv, TypeOK
  <2>5. granted[p] <= granted'[p] /\ reserved[p] <= reserved'[p] /\ overdrawn[p] <= overdrawn'[p]
    BY <2>2 DEF SumsGrow
  <2> QED
    BY <1>2, <2>1, <2>2, <2>3, <2>4, <2>5 DEF DenialAt
<1> QED
  BY <1>1, <1>2

\* The steps of a request on its way: the grant, the clock, the reading under
\* the lock, and the decision.
LEMMA DenialOnTheWay ==
  ASSUME LedgerInv, LedgerInv', SumsGrow, NEW r \in Requests, DenialAt(r),
         CommitGrant(r) \/ CallReserve(r) \/ BeginReserve(r) \/ CommitReserve(r)
  PROVE  DenialAt(r)'
<1>1. PICK p \in Periods : p = period[r]
  BY DenialNumbers
<1>2. PICK i \in Nat : i = Included[rplan[r]]
  BY DenialNumbers
<1>3. /\ granted[p] \in Nat /\ reserved[p] \in Nat /\ overdrawn[p] \in Nat
      /\ returned[p] \in Nat /\ seen[r] \in Int /\ Reservation \in Nat
  BY <1>1, DenialNumbers
<1>4. pc \in [Requests -> Position]
  BY DEF LedgerInv, TypeOK
<1>5. CASE CommitGrant(r)
  <2>1. pc'[r] = "reserve" /\ rplan' = rplan /\ period' = period
    BY <1>4, <1>5 DEF CommitGrant, Goto, localVars
  <2>2. i <= granted'[p] /\ granted'[p] \in Nat
    BY <1>1, <1>2, <1>5, GrantSuffices DEF LedgerInv, TypeOK
  <2> QED
    BY <1>1, <1>2, <2>1, <2>2 DEF DenialAt
<1>6. CASE CallReserve(r)
  <2>1. /\ pc[r] = "reserve" /\ pc'[r] = "reserveLock" /\ period'[r] = month
        /\ rplan' = rplan /\ granted' = granted
    BY <1>4, <1>6 DEF CallReserve, EnterCall, Goto, ledgerVars, LedgerInv, TypeOK
  <2>2. PICK m \in Periods : m = month
    BY DEF LedgerInv, TypeOK
  <2>3. p <= m /\ p \in Nat /\ m \in Nat
    BY <1>1, <2>2, PeriodsAreNumbers DEF LedgerInv, EntriesFollowHandler
  <2>4. CASE GrantedEarlier(r)
    <3>1. PICK q \in 0 .. p - 1 : granted[q] >= i
      BY <1>1, <1>2, <2>4 DEF GrantedEarlier
    <3>2. q \in 0 .. m - 1
      BY <2>3
    <3> QED
      BY <1>2, <2>1, <2>2, <3>1, <3>2 DEF DenialAt, GrantedEarlier
  <2>5. CASE granted[p] >= i
    <3>1. p = m \/ p \in 0 .. m - 1
      BY <2>3
    <3> QED
      BY <1>2, <2>1, <2>2, <2>5, <3>1 DEF DenialAt, GrantedEarlier
  <2> QED
    BY <1>1, <1>2, <2>1, <2>4, <2>5 DEF DenialAt
<1>7. CASE BeginReserve(r)
  <2>1. /\ pc[r] = "reserveLock" /\ pc'[r] = "reserveTx" /\ seen'[r] = Balance(p)
        /\ rplan' = rplan /\ period' = period /\ granted' = granted
        /\ reserved' = reserved /\ overdrawn' = overdrawn
    BY <1>1, <1>4, <1>7 DEF BeginReserve, Goto, ledgerVars, LedgerInv, TypeOK
  <2>2. GrantedEarlier(r) => GrantedEarlier(r)'
    BY <2>1, EarlierGrantStays
  <2>3. granted[p] >= i => seen'[r] + reserved'[p] + overdrawn'[p] >= i
    BY <1>3, <2>1 DEF Balance
  <2> QED
    BY <1>1, <1>2, <2>1, <2>2, <2>3 DEF DenialAt
<1>8. CASE CommitReserve(r)
  <2>1. /\ pc[r] = "reserveTx" /\ rplan' = rplan /\ period' = period
        /\ overdrawn' = overdrawn
    BY <1>8 DEF CommitReserve, Goto, localVars
  <2>2. CASE MayReserve(r)
    BY <1>4, <1>8, <2>2 DEF CommitReserve, Goto, DenialAt
  <2>3. CASE ~MayReserve(r)
    <3>1. pc'[r] = "denied" /\ reserved' = reserved
      BY <1>4, <1>8, <2>3 DEF CommitReserve, Goto
    <3>2. GrantedEarlier(r) => GrantedEarlier(r)'
      BY <2>1, EarlierGrantStays
    <3>3. seen[r] + reserved[p] + overdrawn[p] >= i => reserved[p] + overdrawn[p] + Reservation > i
      BY <1>2, <1>3, <2>3 DEF MayReserve
    <3> QED
      BY <1>1, <1>2, <2>1, <3>1, <3>2, <3>3 DEF DenialAt
  <2> QED
    BY <2>2, <2>3
<1> QED
  BY <1>5, <1>6, <1>7, <1>8

LEMMA DenialStep == LedgerInv /\ DenialInv /\ [Next]_vars => DenialInv'
<1> SUFFICES ASSUME LedgerInv, DenialInv, [Next]_vars, NEW r \in Requests
             PROVE  DenialAt(r)'
  BY DEF DenialInv
<1> DEFINE Way == CommitGrant(r) \/ CallReserve(r) \/ BeginReserve(r) \/ CommitReserve(r)
           Quiet == \/ pc'[r] \notin {"reserve", "reserveLock", "reserveTx", "denied"}
                    \/ /\ pc'[r] = pc[r] /\ rplan'[r] = rplan[r]
                       /\ period'[r] = period[r] /\ seen'[r] = seen[r]
<1>1. LedgerInv' /\ SumsGrow /\ DenialAt(r)
  BY LedgerStep, SumsOnlyGrow DEF DenialInv
<1>2. Quiet => DenialAt(r)'
  BY <1>1, DenialUndisturbed
<1>3. Way => DenialAt(r)'
  BY <1>1, DenialOnTheWay
<1> USE DEF LedgerInv, TypeOK
<1>4. ASSUME NEW q \in Requests, Admission(q)
      PROVE  Way \/ Quiet
  BY <1>4
  DEF Admission, ReadPlan, CallGrant, CallReserve, EnterCall, BeginGrant, CommitGrant,
      BeginReserve, CommitReserve, Goto, localVars
<1>5. ASSUME NEW q \in Requests, Generation(q)
      PROVE  Quiet
  BY <1>5
  DEF Generation, Continue, QuotaAllows, QuotaRejects, Prepared, PreparationFails,
      StreamYieldsNothing, Audit, RecordGeneration, Settle, Release, Settlement, Goto, localVars
<1>6. ASSUME NEW q \in Requests, Failure(q)
      PROVE  Quiet
  BY <1>6
  DEF Failure, Fault, UsageWriteFails, SettlementFails, ReleaseFails, Crash, Goto, localVars
<1>7. CASE ChangePlan \/ NextMonth \/ UNCHANGED vars
  <2>1. Quiet
    BY <1>7 DEF ChangePlan, NextMonth, vars, localVars
  <2> QED
    BY <1>2, <2>1
<1> HIDE DEF Way, Quiet
<1> QED
  BY <1>2, <1>3, <1>4, <1>5, <1>6, <1>7 DEF Next

\* A request is turned away only if the allowance of its plan was spent in the
\* month up to less than a reservation, or if the month ended between its grant
\* and its reservation, for any number of requests, plan changes and faults.
THEOREM DenialsAreExplained == Spec => []DeniedOnlyWhenSpent
<1>1. DenialInv => DeniedOnlyWhenSpent
  BY DEF DenialInv, DenialAt, DeniedOnlyWhenSpent
<1>2. Init => LedgerInv /\ DenialInv
  BY LedgerInit DEF Init, DenialInv, DenialAt
<1>3. LedgerInv /\ DenialInv /\ [Next]_vars => LedgerInv' /\ DenialInv'
  BY LedgerStep, DenialStep
<1> QED
  BY <1>1, <1>2, <1>3, PTL DEF Spec
=============================================================================
