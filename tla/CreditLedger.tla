---------------------------- MODULE CreditLedger ----------------------------
(***************************************************************************)
(* The usage-credit ledger of one organization and the AI chat requests    *)
(* that write to it (packages/db/src/credits.ts and the POST handler of    *)
(* apps/web/app/api/ai/chat/route.ts).                                     *)
(*                                                                         *)
(* The table usage_credit_ledger is append-only and is read in three ways: *)
(* as the sum of a month, as the sum of the plan grants of a month, and as *)
(* the existence of an idempotency key.  It is kept here as the running    *)
(* sums of a month, split by the kind and the sign of the entry, together  *)
(* with the keys already used: grantTargets for "credit-grant/...",        *)
(* reservedIn for "credit-reservation/..." and settled for                 *)
(* "credit-settlement/...", one per request.                               *)
(*                                                                         *)
(* Every request is a process.  An await in the handler is the end of a    *)
(* step, so other requests, a plan change or the end of the month may come *)
(* in between.  A transaction that takes an advisory lock is two steps:    *)
(* one acquires the lock and reads, the other writes, commits and thereby  *)
(* releases the lock.                                                      *)
(***************************************************************************)
EXTENDS Integers, FiniteSetsExt

CONSTANTS
  Requests,     \* AI chat requests of the organization
  NoRequest,    \* holder of a free advisory lock
  Plans,        \* the plans of the entitlement policy
  Included,     \* monthly allowance of each plan, in micros
  Overage,      \* the plans that may go below zero
  Reservation,  \* AI_CREDIT_RESERVATION_MICROS
  Costs,        \* costs a generation may turn out to have; 0 if it has no price
  LastPeriod,   \* bound on the number of months
  MaxFaults     \* bound on crashes and failed writes

ASSUME RequestsAssumption == IsFiniteSet(Requests) /\ NoRequest \notin Requests
ASSUME PolicyAssumption ==
  /\ Included \in [Plans -> Nat]
  /\ Overage \subseteq Plans
ASSUME AmountsAssumption ==
  /\ Reservation \in Nat \ {0}
  /\ Costs \subseteq Nat
ASSUME BoundsAssumption == LastPeriod \in Nat /\ MaxFaults \in Nat

Periods == 0 .. LastPeriod
None == -1      \* no such row, or a value not read yet

VARIABLES
  plan,         \* the plan the subscription table yields now
  month,        \* the current UTC month
  granted,      \* per month: sum of the plan.monthly grants
  grantTargets, \* per month: the allowances whose grant key is used
  reserved,     \* per month: sum of the reservations, without their sign
  returned,     \* per month: sum of the positive settlements
  overdrawn,    \* per month: sum of the negative settlements, without sign
  reservedIn,   \* per request: month of its reservation entry
  settled,      \* per request: actual cost in its settlement entry
  grantLock,    \* per month: holder of usage-credit-grant:<org>:<month>
  creditLock,   \* per month: holder of usage-credit:<org>:<month>
  pc,           \* per request: where the handler stands
  rplan,        \* per request: the plan it read
  period,       \* per request: month its current ledger call works in
  seen,         \* per request: the sum its current transaction read
  cost,         \* per request: cost in the ai_generation row it recorded
  faults        \* crashes and failed writes so far

ledgerVars == << granted, grantTargets, reserved, returned, overdrawn,
                 reservedIn, settled >>
lockVars == << grantLock, creditLock >>
localVars == << rplan, period, seen, cost >>
envVars == << plan, month >>
vars == << ledgerVars, lockVars, pc, localVars, envVars, faults >>

(***************************************************************************)
(* getUsageCreditBalance: the sum of all entries of a month.               *)
(***************************************************************************)
Balance(p) == granted[p] + returned[p] - reserved[p] - overdrawn[p]

(***************************************************************************)
(* Handler positions.  "start" has passed validation; "grant" is about to  *)
(* call ensureMonthlyPlanCreditGrant and "reserve" reserveUsageCredits; a  *)
(* "...Lock" position waits for the lock and a "...Tx" position holds it.  *)
(* "lost" is a handler that crashed or threw where nothing catches.        *)
(***************************************************************************)
BeforeReservation == {"start", "grant", "grantLock", "grantTx", "reserve",
                      "reserveLock", "reserveTx"}
AfterReservation == {"quota", "prepare", "stream", "settle", "audit", "release"}
Final == {"denied", "done", "lost"}
Position == BeforeReservation \cup AfterReservation \cup Final

Init ==
  /\ plan \in Plans
  /\ month = 0
  /\ granted = [p \in Periods |-> 0]
  /\ grantTargets = [p \in Periods |-> {}]
  /\ reserved = [p \in Periods |-> 0]
  /\ returned = [p \in Periods |-> 0]
  /\ overdrawn = [p \in Periods |-> 0]
  /\ reservedIn = [r \in Requests |-> None]
  /\ settled = [r \in Requests |-> None]
  /\ grantLock = [p \in Periods |-> NoRequest]
  /\ creditLock = [p \in Periods |-> NoRequest]
  /\ pc = [r \in Requests |-> "start"]
  /\ rplan = [r \in Requests |-> plan]
  /\ period = [r \in Requests |-> 0]
  /\ seen = [r \in Requests |-> 0]
  /\ cost = [r \in Requests |-> None]
  /\ faults = 0

Goto(r, from, to) == pc[r] = from /\ pc' = [pc EXCEPT ![r] = to]

-----------------------------------------------------------------------------
(***************************************************************************)
(* The handler up to the reservation.                                      *)
(***************************************************************************)

\* Mutant: the monthly grant is not made before the first reservation.
ReadPlanOnly(r) ==
  /\ Goto(r, "start", "reserve")
  /\ rplan' = [rplan EXCEPT ![r] = plan]
  /\ UNCHANGED << ledgerVars, lockVars, period, seen, cost, envVars, faults >>

\* getSubscriptionForOrganization: the plan is read once, for the whole
\* request.
ReadPlan(r) ==
  /\ Goto(r, "start", "grant")
  /\ rplan' = [rplan EXCEPT ![r] = plan]
  /\ UNCHANGED << ledgerVars, lockVars, period, seen, cost, envVars, faults >>

\* Both ledger calls take the month from the clock when they are entered,
\* before they wait for their lock.
EnterCall(r, from, to) ==
  /\ Goto(r, from, to)
  /\ period' = [period EXCEPT ![r] = month]
  /\ UNCHANGED << ledgerVars, lockVars, rplan, seen, cost, envVars, faults >>

CallGrant(r) == EnterCall(r, "grant", "grantLock")
CallReserve(r) == EnterCall(r, "reserve", "reserveLock")

\* Mutant: the grant transaction does not wait for the lock.
BeginGrantUnlocked(r) ==
  /\ Goto(r, "grantLock", "grantTx")
  /\ seen' = [seen EXCEPT ![r] = granted[period[r]]]
  /\ UNCHANGED << ledgerVars, lockVars, rplan, period, cost, envVars, faults >>

\* ensureMonthlyPlanCreditGrant, first half: lock and sum the grants.
BeginGrant(r) ==
  /\ Goto(r, "grantLock", "grantTx")
  /\ grantLock[period[r]] = NoRequest
  /\ grantLock' = [grantLock EXCEPT ![period[r]] = r]
  /\ seen' = [seen EXCEPT ![r] = granted[period[r]]]
  /\ UNCHANGED << ledgerVars, creditLock, rplan, period, cost, envVars, faults >>

\* ensureMonthlyPlanCreditGrant, second half: top the month up to the
\* allowance of the plan unless the grant key is already used, and commit.
CommitGrant(r) ==
  LET p == period[r]
      target == Included[rplan[r]]
      topUp == target - seen[r]
      inserts == topUp > 0 /\ target \notin grantTargets[p]
  IN  /\ Goto(r, "grantTx", "reserve")
      /\ grantLock' = [grantLock EXCEPT ![p] = NoRequest]
      /\ \/ /\ inserts
            /\ granted' = [granted EXCEPT ![p] = @ + topUp]
            /\ grantTargets' = [grantTargets EXCEPT ![p] = @ \cup {target}]
         \/ ~inserts /\ UNCHANGED << granted, grantTargets >>
      /\ UNCHANGED << reserved, returned, overdrawn, reservedIn, settled,
                      creditLock, localVars, envVars, faults >>

\* Mutant: the reservation transaction does not wait for the lock.
BeginReserveUnlocked(r) ==
  /\ Goto(r, "reserveLock", "reserveTx")
  /\ seen' = [seen EXCEPT ![r] = Balance(period[r])]
  /\ UNCHANGED << ledgerVars, lockVars, rplan, period, cost, envVars, faults >>

\* reserveUsageCredits, first half: lock and sum the month.
BeginReserve(r) ==
  /\ Goto(r, "reserveLock", "reserveTx")
  /\ creditLock[period[r]] = NoRequest
  /\ creditLock' = [creditLock EXCEPT ![period[r]] = r]
  /\ seen' = [seen EXCEPT ![r] = Balance(period[r])]
  /\ UNCHANGED << ledgerVars, grantLock, rplan, period, cost, envVars, faults >>

\* Mutant: the balance before the reservation is tested, not the one after.
MayReserveBefore(r) == rplan[r] \in Overage \/ seen[r] >= 0

\* The rule of reserveUsageCredits and of decideCreditReservation.
MayReserve(r) == rplan[r] \in Overage \/ seen[r] - Reservation >= 0

\* Mutant: a request turned away for lack of credit releases a reservation too.
CommitReserveOrRelease(r) ==
  /\ creditLock' = [creditLock EXCEPT ![period[r]] = NoRequest]
  /\ \/ /\ MayReserve(r)
        /\ Goto(r, "reserveTx", "quota")
        /\ reserved' = [reserved EXCEPT ![period[r]] = @ + Reservation]
        /\ reservedIn' = [reservedIn EXCEPT ![r] = period[r]]
     \/ /\ ~MayReserve(r)
        /\ Goto(r, "reserveTx", "release")
        /\ UNCHANGED << reserved, reservedIn >>
  /\ UNCHANGED << granted, grantTargets, returned, overdrawn, settled,
                  grantLock, localVars, envVars, faults >>

\* reserveUsageCredits, second half: insert the reservation, or answer
\* credit_limit (HTTP 402), and commit.
CommitReserve(r) ==
  LET p == period[r]
  IN  /\ creditLock' = [creditLock EXCEPT ![p] = NoRequest]
      /\ \/ /\ MayReserve(r)
            /\ Goto(r, "reserveTx", "quota")
            /\ reserved' = [reserved EXCEPT ![p] = @ + Reservation]
            /\ reservedIn' = [reservedIn EXCEPT ![r] = p]
         \/ /\ ~MayReserve(r)
            /\ Goto(r, "reserveTx", "denied")
            /\ UNCHANGED << reserved, reservedIn >>
      /\ UNCHANGED << granted, grantTargets, returned, overdrawn, settled,
                      grantLock, localVars, envVars, faults >>

-----------------------------------------------------------------------------
(***************************************************************************)
(* The handler after the reservation.                                      *)
(***************************************************************************)

\* Mutant: a settlement never takes anything off the balance.
BookCapped(r, m, actual) ==
  /\ settled' = [settled EXCEPT ![r] = actual]
  /\ returned' = [returned EXCEPT ![m] =
                    @ + (IF actual <= Reservation THEN Reservation - actual ELSE 0)]
  /\ UNCHANGED overdrawn

\* appendUsageCreditEntry with the amount of creditSettlementAmountMicros: the
\* signed difference, dropped if the request already has a settlement.  (The
\* handler has no way to settle twice; the unique key is a second defence.)
Book(r, m, actual) ==
  IF settled[r] = None
    THEN /\ settled' = [settled EXCEPT ![r] = actual]
         /\ \/ /\ actual <= Reservation
               /\ returned' = [returned EXCEPT ![m] = @ + (Reservation - actual)]
               /\ UNCHANGED overdrawn
            \/ /\ actual > Reservation
               /\ overdrawn' = [overdrawn EXCEPT ![m] = @ + (actual - Reservation)]
               /\ UNCHANGED returned
    ELSE UNCHANGED << settled, returned, overdrawn >>

\* settleUsageCreditReservation: an entry for the month of the call, which may
\* be later than the month of the reservation.
Settlement(r, actual) ==
  /\ period' = [period EXCEPT ![r] = month]
  /\ Book(r, month, actual)
  /\ UNCHANGED << granted, grantTargets, reserved, reservedIn >>

\* A step of the handler that does not touch the ledger.
Continue(r, from, to) ==
  /\ Goto(r, from, to)
  /\ UNCHANGED << ledgerVars, lockVars, localVars, envVars, faults >>

\* Mutant: a refused or empty request ends without releasing.
RejectWithoutRelease(r) == Continue(r, "quota", "done")
EndWithoutRelease(r) == Continue(r, "stream", "done")

\* consumeAiRequestQuota answers; a refused request is released.
QuotaAllows(r) == Continue(r, "quota", "prepare")
QuotaRejects(r) == Continue(r, "quota", "release")

\* Retrieval, the conversation and the user message; a failure is caught and
\* releases the reservation.
Prepared(r) == Continue(r, "prepare", "stream")
PreparationFails(r) == Continue(r, "prepare", "release")

\* streamText ends without text, or fails, or onFinish throws before the
\* generation is recorded (consumeStream reports it): release.
StreamYieldsNothing(r) == Continue(r, "stream", "release")

\* onFinish stores the assistant message and the generation with its
\* estimated cost.
RecordGeneration(r) ==
  /\ Goto(r, "stream", "settle")
  /\ \E c \in Costs : cost' = [cost EXCEPT ![r] = c]
  /\ UNCHANGED << ledgerVars, lockVars, rplan, period, seen, envVars, faults >>

\* onFinish settles against the recorded cost.
Settle(r) ==
  /\ Goto(r, "settle", "audit")
  /\ Settlement(r, cost[r])
  /\ UNCHANGED << lockVars, rplan, seen, cost, envVars, faults >>

\* The audit event and the outbound event end the request; both catch their
\* errors.
Audit(r) == Continue(r, "audit", "done")

\* releaseReservation: a settlement with actual cost zero.
Release(r) ==
  /\ Goto(r, "release", "done")
  /\ Settlement(r, 0)
  /\ UNCHANGED << lockVars, rplan, seen, cost, envVars, faults >>

-----------------------------------------------------------------------------
(***************************************************************************)
(* Faults.                                                                 *)
(***************************************************************************)
Fault(r, from, to) ==
  /\ Goto(r, from, to)
  /\ faults < MaxFaults
  /\ faults' = faults + 1
  /\ UNCHANGED << ledgerVars, lockVars, localVars, envVars >>

\* A usage write after the generation throws: onFinish rejects and the
\* stream's error handler releases the reservation.
UsageWriteFails(r) == Fault(r, "settle", "release")

\* The settlement write fails; the error is logged and onFinish goes on.
SettlementFails(r) == Fault(r, "settle", "audit")

\* The release write fails; the error is logged.
ReleaseFails(r) == Fault(r, "release", "done")

\* The server crashes, or a call outside every try block throws.  An open
\* transaction is rolled back, which frees its lock.
Crash(r) ==
  /\ pc[r] \notin Final
  /\ faults < MaxFaults
  /\ faults' = faults + 1
  /\ pc' = [pc EXCEPT ![r] = "lost"]
  /\ grantLock' = [p \in Periods |->
                     IF grantLock[p] = r THEN NoRequest ELSE grantLock[p]]
  /\ creditLock' = [p \in Periods |->
                     IF creditLock[p] = r THEN NoRequest ELSE creditLock[p]]
  /\ UNCHANGED << ledgerVars, localVars, envVars >>

-----------------------------------------------------------------------------
(***************************************************************************)
(* The environment: the subscription changes plan, the month ends.         *)
(***************************************************************************)
ChangePlan ==
  /\ plan' \in Plans \ {plan}
  /\ UNCHANGED << ledgerVars, lockVars, pc, localVars, month, faults >>

NextMonth ==
  /\ month < LastPeriod
  /\ month' = month + 1
  /\ UNCHANGED << ledgerVars, lockVars, pc, localVars, plan, faults >>

Admission(r) ==
  \/ ReadPlan(r)
  \/ CallGrant(r)
  \/ BeginGrant(r)
  \/ CommitGrant(r)
  \/ CallReserve(r)
  \/ BeginReserve(r)
  \/ CommitReserve(r)

Generation(r) ==
  \/ QuotaAllows(r)
  \/ QuotaRejects(r)
  \/ Prepared(r)
  \/ PreparationFails(r)
  \/ StreamYieldsNothing(r)
  \/ RecordGeneration(r)
  \/ Settle(r)
  \/ Audit(r)
  \/ Release(r)

Failure(r) ==
  \/ UsageWriteFails(r)
  \/ SettlementFails(r)
  \/ ReleaseFails(r)
  \/ Crash(r)

Next ==
  \/ \E r \in Requests : Admission(r) \/ Generation(r) \/ Failure(r)
  \/ ChangePlan
  \/ NextMonth

Spec == Init /\ [][Next]_vars

(***************************************************************************)
(* A handler that runs is not abandoned by the JavaScript runtime, and the *)
(* AI provider ends every stream.  Nobody has to send a request, change    *)
(* the plan or suffer a fault.                                             *)
(***************************************************************************)
Fairness ==
  \A r \in Requests :
    /\ WF_vars(Admission(r) /\ pc[r] # "start")
    /\ WF_vars(Generation(r))

FairSpec == Spec /\ Fairness
-----------------------------------------------------------------------------
(***************************************************************************)
(* Properties.                                                             *)
(***************************************************************************)

\* Type invariant.  The sums of the ledger never go negative because every
\* entry of credits.ts is added to the sum of its own kind and sign.
TypeOK ==
  /\ plan \in Plans
  /\ month \in Periods
  /\ granted \in [Periods -> Nat]
  /\ grantTargets \in [Periods -> SUBSET Nat]
  /\ reserved \in [Periods -> Nat]
  /\ returned \in [Periods -> Nat]
  /\ overdrawn \in [Periods -> Nat]
  /\ reservedIn \in [Requests -> Periods \cup {None}]
  /\ settled \in [Requests -> Nat \cup {None}]
  /\ grantLock \in [Periods -> Requests \cup {NoRequest}]
  /\ creditLock \in [Periods -> Requests \cup {NoRequest}]
  /\ pc \in [Requests -> Position]
  /\ rplan \in [Requests -> Plans]
  /\ period \in [Requests -> Periods]
  /\ seen \in [Requests -> Int]
  /\ cost \in [Requests -> Nat \cup {None}]
  /\ faults \in 0 .. MaxFaults

\* The hard stop of plans without overage: however requests, releases and
\* settlements interleave, a month in which nobody reserved on an overage plan
\* never has more reserved than was granted and given back.  Its balance is
\* then negative only by costs that exceeded their reservation.
OverageIn(p) == \E r \in Requests : reservedIn[r] = p /\ rplan[r] \in Overage

CoveredReservations ==
  \A p \in Periods : OverageIn(p) \/ reserved[p] <= granted[p] + returned[p]

\* Plan changes never stack allowances: the grants of a month add up to the
\* highest allowance that was ever granted in it, and to no more, even when
\* requests that read different plans top it up concurrently.
GrantIsHighestTarget ==
  \A p \in Periods :
    /\ \A t \in grantTargets[p] : t <= granted[p]
    /\ granted[p] \in grantTargets[p] \cup {0}

\* A request that ended with a reservation but was not settled at what its
\* generation cost (at zero if there was none).
ExpectedCost(r) == IF cost[r] = None THEN 0 ELSE cost[r]

Misbooked(r) ==
  /\ pc[r] \in Final
  /\ reservedIn[r] # None
  /\ settled[r] # ExpectedCost(r)

\* Every early return, catch block and stream callback of the handler closes
\* the reservation at the right cost: only a crash or a failed write leaves one
\* open or booked wrongly, and each such fault spoils at most one request.
FaultsBoundMisbookings ==
  Cardinality({r \in Requests : Misbooked(r)}) <= faults

\* What a month has above its own allowance came from requests that reserved
\* in an earlier month and were settled in this one, at most one reservation
\* each: a settlement is booked in the month it happens.
CarriedOver(p) == {r \in Requests : reservedIn[r] \in 0 .. p - 1}

MonthBoundedByAllowance ==
  \A p \in Periods :
    Balance(p) <= granted[p] + Reservation * Cardinality(CarriedOver(p))

\* A request is turned away for lack of credit only in a month that was given
\* the allowance of the plan the request runs under: the promise of
\* docs/usage-credits.md.  The code breaks it at the end of a month.
DenialAfterGrant ==
  \A r \in Requests :
    pc[r] = "denied" => granted[period[r]] >= Included[rplan[r]]

\* What reserveUsageCredits does guarantee to a request it turns away: the
\* allowance of its plan was spent in the month, up to less than a reservation,
\* by reservations and by costs above them; or the month ended between the
\* grant and the reservation, so that the grant went to an earlier month.  No
\* settlement, plan change or other request makes it refuse for another reason.
GrantedEarlier(r) ==
  \E p \in 0 .. period[r] - 1 : granted[p] >= Included[rplan[r]]

DeniedOnlyWhenSpent ==
  \A r \in Requests :
    pc[r] = "denied" =>
      \/ reserved[period[r]] + overdrawn[period[r]] + Reservation
           > Included[rplan[r]]
      \/ GrantedEarlier(r)

\* The ledger as its rows: over all months the balance is what was granted,
\* less the actual cost of every settled request, less one reservation for
\* every open one.  No interleaving of settlement and release, no retry and no
\* month change counts a request twice or not at all.
Open == {r \in Requests : reservedIn[r] # None /\ settled[r] = None}
Closed == {r \in Requests : settled[r] # None}

LedgerConservation ==
  MapThenSumSet(Balance, Periods)
    = MapThenSumSet(LAMBDA p : granted[p], Periods)
        - MapThenSumSet(LAMBDA r : settled[r], Closed)
        - Reservation * Cardinality(Open)

\* Every reservation is eventually closed by a settlement, unless some handler
\* crashed or some write failed.
ReservationsClose ==
  \A r \in Requests :
    reservedIn[r] # None ~> settled[r] # None \/ faults > 0

-----------------------------------------------------------------------------
(***************************************************************************)
(* The abstract account.                                                   *)
(***************************************************************************)
Account == INSTANCE CreditAccount
  WITH Months <- Periods,
       Allowances <- {Included[x] : x \in Plans},
       hold <- reservedIn,
       outcome <- settled,
       onOverage <- {r \in Requests : reservedIn[r] # None
                                        /\ rplan[r] \in Overage}

\* The handlers, each reading under a lock and writing later, never do more
\* than the account allows in one step: a hold is covered when it is taken,
\* each request holds once and closes once, and a month's grants only rise to
\* a higher allowance.
ImplementsAccount == Account!Spec

(***************************************************************************)
(* The inductive invariant behind CoveredReservations, GrantIsHighestTarget*)
(* and ImplementsAccount.                                                  *)
(***************************************************************************)

\* A transaction past its lock still owns it.
LocksHeld ==
  \A r \in Requests :
    /\ pc[r] = "grantTx" => grantLock[period[r]] = r
    /\ pc[r] = "reserveTx" => creditLock[period[r]] = r

\* What a transaction read under its lock is still true, or on the safe side,
\* when it writes: settlements and grants may only have added to the month.
ReadsHold ==
  \A r \in Requests :
    /\ pc[r] = "grantTx" => seen[r] = granted[period[r]]
    /\ pc[r] = "reserveTx" =>
         seen[r] <= granted[period[r]] + returned[period[r]]
                      - reserved[period[r]]

\* The entries of a request follow its handler.
EntriesFollowHandler ==
  \A r \in Requests :
    /\ pc[r] \in BeforeReservation \cup {"denied"} => reservedIn[r] = None
    /\ pc[r] \in AfterReservation => reservedIn[r] # None
    /\ settled[r] # None => reservedIn[r] # None
    /\ pc[r] = "settle" => cost[r] \in Costs
    /\ reservedIn[r] <= month
    /\ period[r] <= month

\* The inductive invariant: what CommitGrant and CommitReserve rely on when
\* they write what they decided in an earlier step.
LedgerInv ==
  /\ TypeOK
  /\ LocksHeld
  /\ ReadsHold
  /\ EntriesFollowHandler
  /\ CoveredReservations
  /\ GrantIsHighestTarget
=============================================================================
