--------------------------- MODULE StripeMetering ---------------------------
(***************************************************************************)
(* The export of the AI overage of one organization and one closed month   *)
(* to the payment provider: the reconciliation (the reconcile route and    *)
(* packages/db/src/metering.ts), the allocation of the overage to the      *)
(* settlements (metering-policy.ts), the submission rows, the worker and   *)
(* its dead-letter handler (apps/worker/src/stripe-metering.ts) and the    *)
(* retry route.                                                            *)
(*                                                                         *)
(* The month is closed and inside the provider's 35 days throughout; the   *)
(* routes refuse every other one.  A settlement or a grant of the month    *)
(* may still be committed late, by a request that began in it.  A          *)
(* settlement has at most one row, so a row is named by its settlement.    *)
(***************************************************************************)
EXTENDS Integers, FiniteSets, FiniteSetsExt

CONSTANTS
  Entries,      \* settlements, numbered in the order of effective_at and id
  Cost,         \* per settlement: its actual cost
  Allowance,    \* per plan: the credits of a month
  Late,         \* bound: settlements that may be committed after the month
  FirstPlans,   \* bound: plans whose credits the closed month may have
  Reconcilers,  \* calls of the reconcile route
  Retriers,     \* calls of the retry route
  Workers,      \* handlers of submission jobs
  RetryLimit,   \* retryLimit of the queue
  MaxFaults     \* bound on crashes, expirations, lost answers and failed writes

Plans == {"starter", "pro"}
NoEntry == 0
NoJob == -1

ASSUME EntriesAssumption == IsFiniteSet(Entries) /\ Entries \subseteq Nat \ {NoEntry}
ASSUME CostAssumption == Cost \in [Entries -> Nat]
ASSUME AllowanceAssumption ==
  /\ Allowance \in [Plans -> Nat]
  /\ Allowance["starter"] <= Allowance["pro"]
ASSUME LateAssumption == Late \subseteq Entries /\ FirstPlans \subseteq Plans
ASSUME LimitsAssumption == {RetryLimit, MaxFaults} \subseteq Nat

VARIABLES
  posted,      \* settlements in the ledger
  granted,     \* the largest plan whose credits were granted in the month
  status,      \* stripe_meter_submission.status; "none" without a row
  value,       \* stripe_meter_submission.value_micros
  stale,       \* rows whose processing_started_at is older than the lease
  reconciler,  \* per reconciliation: where it stands
  allowance,   \* per reconciliation: the allowance it read
  dispatch,    \* per reconciliation: submissions it is still to enqueue
  retrier,     \* per retry: where it stands
  reset,       \* per retry: the submission it has reset
  waiting,     \* per submission and number of failed attempts: jobs that wait
  active,      \* per submission: failed attempts of its active job, or NoJob
  deadLetters, \* submissions in the dead-letter queue
  pc,          \* per worker: where it stands
  work,        \* per worker: the submission it works on
  owns,        \* per worker: its job has not expired
  billed,      \* per submission: meter events the provider counted
  known,       \* identifiers the provider still recognizes
  seen,        \* settlements the last eligible reconciliation has read
  torn,        \* a grant was committed between the reads of a reconciliation
  unordered,   \* a settlement came after a reconciliation had read a later one
  incidents,   \* per submission: the kinds of faults that hit its jobs
  faults

ledger == << posted, granted >>
rows == << status, value, stale >>
callers == << reconciler, allowance, dispatch, retrier, reset >>
queue == << waiting, active, deadLetters >>
workers == << pc, work, owns >>
provider == << billed, known >>
history == << seen, torn, unordered >>
vars == << ledger, rows, callers, queue, workers, provider, history, incidents, faults >>

Attempts == 0 .. RetryLimit

Init ==
  /\ posted \in {s \in SUBSET Entries : Entries \ Late \subseteq s}
  /\ granted \in FirstPlans
  /\ status = [e \in Entries |-> "none"]
  /\ value = [e \in Entries |-> 0]
  /\ stale = {}
  /\ reconciler = [r \in Reconcilers |-> "idle"]
  /\ allowance = [r \in Reconcilers |-> 0]
  /\ dispatch = [r \in Reconcilers |-> {}]
  /\ retrier = [t \in Retriers |-> "idle"]
  /\ reset = [t \in Retriers |-> NoEntry]
  /\ waiting = [e \in Entries |-> [n \in Attempts |-> 0]]
  /\ active = [e \in Entries |-> NoJob]
  /\ deadLetters = {}
  /\ pc = [w \in Workers |-> "idle"]
  /\ work = [w \in Workers |-> NoEntry]
  /\ owns = [w \in Workers |-> FALSE]
  /\ billed = [e \in Entries |-> 0]
  /\ known = {}
  /\ seen = {}
  /\ torn = FALSE
  /\ unordered = FALSE
  /\ incidents = [e \in Entries |-> {}]
  /\ faults = 0

-----------------------------------------------------------------------------
(***************************************************************************)
(* metering-policy.ts                                                      *)
(***************************************************************************)
Positive(n) == IF n > 0 THEN n ELSE 0
Spent(s) == MapThenSumSet(LAMBDA e : Cost[e], s)

\* The part of the cost of the settlements s above the allowance a.
Overage(s, a) == Positive(Spent(s) - a)

UpTo(s, e) == {f \in s : f <= e}

\* Mutant: a settlement is charged all of the overage so far.
AllocateCumulative(s, a) == [e \in s |-> Overage(UpTo(s, e), a)]

\* allocateClosedPeriodOverage: what each settlement adds to the overage.
Allocate(s, a) == [e \in s |-> Overage(UpTo(s, e), a) - Overage(UpTo(s, e) \ {e}, a)]

-----------------------------------------------------------------------------
(***************************************************************************)
(* Late commits of the month.                                              *)
(***************************************************************************)
Reading == {r \in Reconcilers : reconciler[r] = "read"}

\* periodAllowsStripeOverage: pro was granted in the month itself.
Eligible == granted = "pro"

PostLate(e) ==
  /\ e \notin posted
  /\ posted' = posted \cup {e}
  /\ unordered' = (unordered \/ \E f \in seen : f > e)
  /\ UNCHANGED << granted, rows, callers, queue, workers, provider, seen, torn, incidents,
                 faults >>

\* ensureMonthlyPlanCreditGrant tops the month up to the credits of pro.
GrantLate ==
  /\ granted = "starter" /\ granted' = "pro"
  /\ torn' = (torn \/ Reading # {})
  /\ UNCHANGED << posted, rows, callers, queue, workers, provider, seen, unordered, incidents,
                 faults >>

-----------------------------------------------------------------------------
(***************************************************************************)
(* The reconcile route.  The advisory lock of the month is held from the   *)
(* first read to the commit; every statement in between has a snapshot of  *)
(* its own.                                                                *)
(***************************************************************************)
ReconcilerAt(r, from, to) ==
  reconciler[r] = from /\ reconciler' = [reconciler EXCEPT ![r] = to]
ReconcileStep ==
  UNCHANGED << ledger, retrier, reset, active, deadLetters, workers, provider, torn, unordered >>
Calm == UNCHANGED << incidents, faults >>

\* A call of the queue or a write on behalf of e fails, or a process dies.
Incident(e, kind) ==
  /\ faults < MaxFaults /\ faults' = faults + 1
  /\ incidents' = [incidents EXCEPT ![e] = @ \cup {kind}]

ReadAllowance(r) ==
  /\ Reading = {}
  /\ ReconcilerAt(r, "idle", "read")
  /\ allowance' = [allowance EXCEPT ![r] = Allowance[granted]]
  /\ UNCHANGED << rows, dispatch, waiting, seen >> /\ ReconcileStep /\ Calm

\* Rows are inserted for the positive allocations; a settlement that has one
\* keeps it (on conflict do nothing).
InsertRows(allocated) ==
  LET new == {e \in DOMAIN allocated : allocated[e] > 0 /\ status[e] = "none"}
  IN  /\ status' = [e \in Entries |-> IF e \in new THEN "pending" ELSE status[e]]
      /\ value' = [e \in Entries |-> IF e \in new THEN allocated[e] ELSE value[e]]
      /\ UNCHANGED stale

\* The plans and the settlements are read, and the rows inserted.
CommitRows(r) ==
  /\ ReconcilerAt(r, "read", "list")
  /\ \/ Eligible /\ InsertRows(Allocate(posted, allowance[r])) /\ seen' = posted
     \/ ~Eligible /\ UNCHANGED << rows, seen >>
  /\ UNCHANGED << allowance, dispatch, waiting >> /\ ReconcileStep /\ Calm

\* The call is over when nothing is left to enqueue.
DispatchRest(r, from, rest) ==
  /\ ReconcilerAt(r, from, IF rest = {} THEN "done" ELSE "enqueue")
  /\ dispatch' = [dispatch EXCEPT ![r] = rest]
  /\ UNCHANGED << rows, allowance, seen >> /\ ReconcileStep

\* listDispatchableStripeMeterSubmissionIds; a month is taken to have no more
\* rows than the 500 one call lists.
ListDispatchable(r) ==
  /\ DispatchRest(r, "list", {e \in Entries : status[e] \in {"pending", "failed"}})
  /\ UNCHANGED waiting /\ Calm

SendJob(e) == waiting' = [waiting EXCEPT ![e][0] = @ + 1]

\* The loop goes on when the queue refuses a submission.
Enqueue(r, e) ==
  /\ e \in dispatch[r]
  /\ DispatchRest(r, "enqueue", dispatch[r] \ {e})
  /\ \/ SendJob(e) /\ Calm
     \/ Incident(e, "enqueue") /\ UNCHANGED waiting

-----------------------------------------------------------------------------
(***************************************************************************)
(* The retry route.                                                        *)
(***************************************************************************)
RetryStep ==
  UNCHANGED << ledger, value, stale, reconciler, allowance, dispatch, active, deadLetters,
               workers, provider, history >>

ResetFrom(t, e, from) ==
  /\ retrier[t] = "idle" /\ retrier' = [retrier EXCEPT ![t] = "enqueue"]
  /\ status[e] \in from /\ status' = [status EXCEPT ![e] = "pending"]
  /\ reset' = [reset EXCEPT ![t] = e]
  /\ UNCHANGED waiting /\ RetryStep /\ Calm

\* Mutant: any row can be reset.
ResetAny(t, e) == ResetFrom(t, e, {"pending", "failed", "dead", "sent"})

\* resetStripeMeterSubmissionForRetry
Reset(t, e) == ResetFrom(t, e, {"failed", "dead"})

EnqueueRetry(t) ==
  /\ retrier[t] = "enqueue" /\ retrier' = [retrier EXCEPT ![t] = "done"]
  /\ \/ SendJob(reset[t]) /\ Calm
     \/ Incident(reset[t], "enqueue") /\ UNCHANGED waiting
  /\ UNCHANGED << status, reset >> /\ RetryStep

-----------------------------------------------------------------------------
(***************************************************************************)
(* The queue: any number of jobs of a submission may wait, one is active.  *)
(***************************************************************************)
QueueStep == UNCHANGED << ledger, rows, callers, provider, history >>

Fetch(w, e, n) ==
  /\ pc[w] = "idle" /\ pc' = [pc EXCEPT ![w] = "claim"]
  /\ waiting[e][n] > 0 /\ waiting' = [waiting EXCEPT ![e][n] = @ - 1]
  /\ active[e] = NoJob /\ active' = [active EXCEPT ![e] = n]
  /\ work' = [work EXCEPT ![w] = e]
  /\ owns' = [owns EXCEPT ![w] = TRUE]
  /\ UNCHANGED deadLetters /\ QueueStep /\ Calm

\* The attempt threw or its job expired: retry, or dead-letter queue.
Failed(e) ==
  /\ active' = [active EXCEPT ![e] = NoJob]
  /\ \/ /\ active[e] < RetryLimit
        /\ waiting' = [waiting EXCEPT ![e][active[e] + 1] = @ + 1]
        /\ UNCHANGED deadLetters
     \/ /\ active[e] = RetryLimit
        /\ deadLetters' = deadLetters \cup {e}
        /\ UNCHANGED waiting

Completed(e) == active' = [active EXCEPT ![e] = NoJob] /\ UNCHANGED << waiting, deadLetters >>

Stop(w) ==
  /\ pc' = [pc EXCEPT ![w] = "idle"]
  /\ work' = [work EXCEPT ![w] = NoEntry]
  /\ owns' = [owns EXCEPT ![w] = FALSE]

\* The outcome of a job that expired meanwhile is discarded.
Return(w) == Stop(w) /\ IF owns[w] THEN Completed(work[w]) ELSE UNCHANGED queue
Throw(w) == Stop(w) /\ IF owns[w] THEN Failed(work[w]) ELSE UNCHANGED queue

Sending(w) == pc[w] \in {"send", "sent", "failed"}
Leased(e) == status[e] = "processing" /\ e \notin stale

\* The lease of five minutes ends; while a worker still sends, it is slow.
EndLease(e) ==
  /\ Leased(e) /\ stale' = stale \cup {e}
  /\ IF \E w \in Workers : Sending(w) /\ work[w] = e THEN Incident(e, "lease") ELSE Calm
  /\ UNCHANGED << ledger, status, value, callers, queue, workers, provider, history >>

\* The job of a worker that died expires, later than the worker's lease.
Expire(e) ==
  /\ active[e] # NoJob /\ ~Leased(e)
  /\ \A w \in Workers : ~(owns[w] /\ work[w] = e)
  /\ Failed(e)
  /\ UNCHANGED workers /\ QueueStep /\ Calm

\* The job of a slow worker expires; the worker goes on.
Timeout(w) ==
  /\ owns[w] /\ owns' = [owns EXCEPT ![w] = FALSE]
  /\ ~Leased(work[w])
  /\ Failed(work[w])
  /\ Incident(work[w], "expired")
  /\ UNCHANGED << pc, work >> /\ QueueStep

\* A worker dies; its job stays active until it expires.
CrashWorker(w) ==
  /\ pc[w] # "idle"
  /\ Stop(w)
  /\ Incident(work[w], "crash")
  /\ UNCHANGED queue /\ QueueStep

-----------------------------------------------------------------------------
(***************************************************************************)
(* processStripeMeterSubmission and its dead-letter handler.  Every mark   *)
(* goes by the id of the row, whatever its status is.                      *)
(***************************************************************************)
Goto(w, from, to) ==
  pc[w] = from /\ pc' = [pc EXCEPT ![w] = to] /\ UNCHANGED << work, owns, queue >>
WorkerStep == UNCHANGED << ledger, value, callers, history >>

\* Mutant: processing_started_at is kept.
MarkKeepingLease(e, s) == status' = [status EXCEPT ![e] = s] /\ UNCHANGED stale

Mark(e, s) == status' = [status EXCEPT ![e] = s] /\ stale' = stale \ {e}

Claimable(e) == status[e] \in {"pending", "failed"} \/ (status[e] = "processing" /\ e \in stale)

ClaimWhen(w, claimable) ==
  /\ pc[w] = "claim"
  /\ \/ claimable /\ Goto(w, "claim", "send") /\ Mark(work[w], "processing")
     \/ ~claimable /\ Return(w) /\ UNCHANGED << status, stale >>
  /\ UNCHANGED provider /\ WorkerStep /\ Calm

\* Mutant: a claim that has become stale is not taken over.
ClaimIdle(w) == ClaimWhen(w, status[work[w]] \in {"pending", "failed"})

\* Mutant: the lease of another claim is not respected.
ClaimUnsent(w) == ClaimWhen(w, status[work[w]] # "sent")

\* claimStripeMeterSubmission; "sent" and "busy" complete the job.
Claim(w) == ClaimWhen(w, Claimable(work[w]))

\* The provider counts an event unless it knows its identifier.
Accepts(e) ==
  /\ billed' = [billed EXCEPT ![e] = IF e \in known THEN @ ELSE @ + 1]
  /\ known' = known \cup {e}

PostAccepted(w) ==
  /\ Goto(w, "send", "sent") /\ Accepts(work[w])
  /\ UNCHANGED << status, stale >> /\ WorkerStep /\ Calm

\* The request is refused, or does not get through.
PostFails(w) ==
  /\ Goto(w, "send", "failed")
  /\ UNCHANGED << status, stale, provider >> /\ WorkerStep /\ Calm

AnswerLost(w) ==
  /\ Goto(w, "send", "failed") /\ Accepts(work[w])
  /\ Incident(work[w], "answer")
  /\ UNCHANGED << status, stale >> /\ WorkerStep

MarkSent(w) ==
  /\ Goto(w, "sent", "return") /\ Mark(work[w], "sent")
  /\ UNCHANGED provider /\ WorkerStep /\ Calm

\* The mark is written inside the try block: the attempt fails, too, if it is
\* committed and only its acknowledgement is lost.
MarkSentFails(w) ==
  /\ Goto(w, "sent", "failed")
  /\ \/ Incident(work[w], "answer") /\ UNCHANGED << status, stale >>
     \/ Incident(work[w], "unacknowledged") /\ Mark(work[w], "sent")
  /\ UNCHANGED provider /\ WorkerStep

\* markStripeMeterSubmissionFailed in the catch block.
MarkFailed(w) ==
  /\ Goto(w, "failed", "throw") /\ Mark(work[w], "failed")
  /\ UNCHANGED provider /\ WorkerStep /\ Calm

\* The row keeps its lease although the attempt is over.
MarkFailedFails(w) ==
  /\ Goto(w, "failed", "throw") /\ Incident(work[w], "unmarked")
  /\ UNCHANGED << status, stale, provider >> /\ WorkerStep

EndAttempt(w) ==
  /\ \/ pc[w] = "return" /\ Return(w)
     \/ pc[w] = "throw" /\ Throw(w)
  /\ UNCHANGED << status, stale, provider >> /\ WorkerStep /\ Calm

DeadLetterAs(e, s) ==
  /\ e \in deadLetters /\ deadLetters' = deadLetters \ {e}
  /\ Mark(e, s)
  /\ UNCHANGED << waiting, active, workers, provider >> /\ WorkerStep /\ Calm

\* Mutant: the failure is not marked as terminal.
DeadLetterAgain(e) == DeadLetterAs(e, "failed")

\* processStripeMeterSubmissionDeadLetter
DeadLetter(e) == DeadLetterAs(e, "dead")

\* The provider recognizes an identifier for a day: longer than a call that
\* enqueues, the retries of a job or a slow worker take.
Queued(e) == e \in deadLetters \/ \E n \in Attempts : waiting[e][n] > 0
Working(e) == Queued(e) \/ active[e] # NoJob \/ \E w \in Workers : work[w] = e

Forget(e) ==
  /\ e \in known /\ ~Working(e)
  /\ \A r \in Reconcilers : e \notin dispatch[r]
  /\ \A t \in Retriers : ~(retrier[t] = "enqueue" /\ reset[t] = e)
  /\ known' = known \ {e}
  /\ UNCHANGED << ledger, rows, callers, queue, workers, billed, history >> /\ Calm

-----------------------------------------------------------------------------
Reconcile(r) ==
  \/ ReadAllowance(r)
  \/ CommitRows(r)
  \/ ListDispatchable(r)
  \/ \E e \in Entries : Enqueue(r, e)

Retry(t) == EnqueueRetry(t) \/ \E e \in Entries : Reset(t, e)

Submit(w) ==
  \/ \E e \in Entries, n \in Attempts : Fetch(w, e, n)
  \/ Claim(w)
  \/ PostAccepted(w)
  \/ PostFails(w)
  \/ MarkSent(w)
  \/ MarkFailed(w)
  \/ EndAttempt(w)

Failure(w) ==
  \/ CrashWorker(w) \/ Timeout(w) \/ AnswerLost(w) \/ MarkSentFails(w) \/ MarkFailedFails(w)

Next ==
  \/ GrantLate
  \/ \E e \in Entries :
       PostLate(e) \/ EndLease(e) \/ Expire(e) \/ DeadLetter(e) \/ Forget(e)
  \/ \E r \in Reconcilers : Reconcile(r)
  \/ \E t \in Retriers : Retry(t)
  \/ \E w \in Workers : Submit(w) \/ Failure(w)

Spec == Init /\ [][Next]_vars

\* Nobody has to reconcile or to retry; a call that runs goes on, the workers
\* and the queue go on, and time passes.
Fairness ==
  /\ \A r \in Reconcilers : WF_vars(Reconcile(r) /\ reconciler[r] # "idle")
  /\ \A t \in Retriers : WF_vars(EnqueueRetry(t))
  /\ \A w \in Workers : WF_vars(Submit(w))
  /\ \A e \in Entries : WF_vars(Expire(e)) /\ WF_vars(DeadLetter(e)) /\ WF_vars(EndLease(e))

FairSpec == Spec /\ Fairness

-----------------------------------------------------------------------------
(***************************************************************************)
(* Properties.                                                             *)
(***************************************************************************)

Slow(e) == incidents[e] \cap {"lease", "expired"} # {}

\* Types, and what the other invariants rest on: a settlement without a row
\* has no job and no meter event, a worker that owns its job works on the
\* active one, and a row that is leased has a positive value.
MeterInv ==
  /\ posted \subseteq Entries
  /\ granted \in Plans
  /\ status \in [Entries -> {"none", "pending", "processing", "sent", "failed", "dead"}]
  /\ value \in [Entries -> Nat]
  /\ stale \subseteq {e \in Entries : status[e] = "processing"}
  /\ reconciler \in [Reconcilers -> {"idle", "read", "list", "enqueue", "done"}]
  /\ allowance \in [Reconcilers -> Nat]
  /\ dispatch \in [Reconcilers -> SUBSET Entries]
  /\ retrier \in [Retriers -> {"idle", "enqueue", "done"}]
  /\ reset \in [Retriers -> Entries \cup {NoEntry}]
  /\ waiting \in [Entries -> [Attempts -> Nat]]
  /\ active \in [Entries -> Attempts \cup {NoJob}]
  /\ deadLetters \subseteq Entries
  /\ pc \in [Workers -> {"idle", "claim", "send", "sent", "failed", "return", "throw"}]
  /\ work \in [Workers -> Entries \cup {NoEntry}]
  /\ owns \in [Workers -> BOOLEAN]
  /\ billed \in [Entries -> Nat]
  /\ known \subseteq {e \in Entries : billed[e] > 0}
  /\ seen \subseteq posted
  /\ {torn, unordered} \subseteq BOOLEAN
  /\ incidents \in [Entries -> SUBSET {"enqueue", "lease", "expired", "crash", "answer",
                                     "unacknowledged", "unmarked"}]
  /\ faults \in 0 .. MaxFaults
  /\ \A e \in Entries : status[e] = "none" <=> value[e] = 0
  /\ \A e \in Entries : Working(e) \/ billed[e] > 0 => value[e] > 0
  /\ \A w \in Workers : pc[w] = "idle" <=> work[w] = NoEntry
  /\ \A w \in Workers : owns[w] => work[w] # NoEntry /\ active[work[w]] # NoJob
  /\ \A v, w \in Workers : owns[v] /\ owns[w] /\ work[v] = work[w] => v = w

\* The rows of the month charge exactly the overage of the settlements that were
\* read, and never more than the overage of the ledger; a settlement that comes
\* out of order makes them charge less.  A grant between the two reads of a
\* reconciliation makes it charge above the smaller allowance it has read, and
\* no more than that; without pro nothing is charged at all.
RowsMatchOverage ==
  LET charged == MapThenSumSet(LAMBDA e : value[e], Entries)
  IN  /\ charged <= Overage(posted, Allowance["starter"])
      /\ granted # "pro" => charged = 0
      /\ ~torn => /\ charged <= Overage(posted, Allowance["pro"])
                  /\ ~unordered => charged = Overage(seen, Allowance["pro"])

Retried(e) == \E t \in Retriers : reset[t] = e

\* What is recorded as sent was counted by the provider, and reconciling a
\* month again never counts a submission twice: that takes a slow worker, or
\* somebody who retries a submission that was recorded as failed or dead.
BilledOnce ==
  \A e \in Entries :
    /\ status[e] = "sent" => billed[e] > 0
    /\ billed[e] > 1 => Slow(e) \/ Retried(e)

\* Two workers send the same submission only when the job of one has expired
\* and its claim is gone too: the lease has ended, or somebody has reset the row.
OneSender ==
  \A v, w \in Workers :
    LET e == work[v]
    IN  Sending(v) /\ Sending(w) /\ work[w] = e =>
          v = w \/ ("expired" \in incidents[e] /\ ("lease" \in incidents[e] \/ Retried(e)))

\* A submission that was sent stays sent, unless another job of it that failed
\* before reaches the dead-letter handler, a slow worker fails after it, or the
\* worker that has sent it does not learn that the mark was committed.
SentIsFinal ==
  [][\A e \in Entries :
       status[e] = "sent" /\ status'[e] # "sent" =>
         \/ status'[e] = "dead" /\ e \in deadLetters
         \/ status'[e] = "failed" /\ "unacknowledged" \in incidents[e]
         \/ Slow(e)]_vars

\* A submission that waits in the queue is sent or recorded as dead in the end;
\* only one whose failure could not be recorded, or whose worker was slow, may
\* not: its row keeps a claim that no job takes over.
SubmissionsSettle ==
  \A e \in Entries :
    Queued(e) ~> status[e] \in {"sent", "dead"} \/ "unmarked" \in incidents[e] \/ Slow(e)
=============================================================================
