--------------------------- MODULE WebhookDelivery ---------------------------
(***************************************************************************)
(* The outbound webhooks of one organization: publication                  *)
(* (lib/outbound-events.ts of the web application and of the worker), the  *)
(* delivery rows (packages/db/src/platform.ts), the delivery worker and    *)
(* the dead-letter handler (apps/worker/src/webhook-delivery.ts) and the   *)
(* settings that change an endpoint.                                       *)
(*                                                                         *)
(* A delivery is an event for an endpoint; the unique index of the table   *)
(* allows one row each.  Its row does not know its job: every update goes  *)
(* by the id of the delivery, whatever the status is by then.  An await in *)
(* a handler ends a step.  The endpoints and the queue are external.       *)
(***************************************************************************)
EXTENDS Integers, FiniteSets

CONSTANTS
  Events,      \* events that are published
  Calls,       \* calls that publish an event: a repeated file job calls again
  Endpoints,   \* endpoints of the organization
  Workers,     \* handlers of delivery jobs
  NoDelivery,  \* what an idle worker works on
  RetryLimit,  \* retryLimit of the queue
  MaxChanges,  \* bound on the changes of the settings
  MaxFaults    \* bound on crashes, timeouts and failed calls

Deliveries == Events \X Endpoints
Publishers == Events \X Calls

ASSUME NamesAssumption == NoDelivery \notin Deliveries
ASSUME WorkersAssumption == IsFiniteSet(Workers)
ASSUME BoundsAssumption == {RetryLimit, MaxChanges, MaxFaults} \subseteq Nat

VARIABLES
  endpoint,    \* outbound_webhook_endpoint.status
  changes,     \* changes of the settings so far
  status,      \* outbound_webhook_delivery.status; "none" without a row
  attempts,    \* outbound_webhook_delivery.attempt_count
  publisher,   \* per call: where the publication stands
  picked,      \* per call: endpoints it is still to insert or enqueue for
  jobs,        \* per delivery: jobs enqueued for it
  queue,       \* per delivery: where its job stands
  retries,     \* per delivery: failed attempts of its job
  pc,          \* per worker: where it stands
  work,        \* per worker: the delivery it works on
  owns,        \* per worker: its job has not expired
  posts,       \* per delivery: requests that reached the endpoint
  accepted,    \* per delivery: requests the endpoint accepted
  late,        \* per endpoint: requests that reached it after its deletion
  slow,        \* deliveries whose job expired under a running worker
  faults

settings == << endpoint, changes >>
rows == << status, attempts >>
publication == << publisher, picked >>
jobVars == << jobs, queue, retries >>
workers == << pc, work, owns >>
requests == << posts, accepted, late >>
vars == << settings, rows, publication, jobVars, workers, requests, slow, faults >>

Terminal == {"succeeded", "dead", "cancelled"}

Init ==
  /\ endpoint \in [Endpoints -> {"active", "disabled"}]
  /\ changes = 0
  /\ status = [d \in Deliveries |-> "none"]
  /\ attempts = [d \in Deliveries |-> 0]
  /\ publisher = [c \in Publishers |-> "idle"]
  /\ picked = [c \in Publishers |-> {}]
  /\ jobs = [d \in Deliveries |-> 0]
  /\ queue = [d \in Deliveries |-> "none"]
  /\ retries = [d \in Deliveries |-> 0]
  /\ pc = [w \in Workers |-> "idle"]
  /\ work = [w \in Workers |-> NoDelivery]
  /\ owns = [w \in Workers |-> FALSE]
  /\ posts = [d \in Deliveries |-> 0]
  /\ accepted = [d \in Deliveries |-> 0]
  /\ late = [p \in Endpoints |-> 0]
  /\ slow = {}
  /\ faults = 0

Faulty == faults < MaxFaults /\ faults' = faults + 1

-----------------------------------------------------------------------------
(***************************************************************************)
(* Settings: PATCH and DELETE of an endpoint.                              *)
(***************************************************************************)

\* A deleted endpoint is not changed any more.
ChangeEndpoint(p, s) ==
  /\ changes < MaxChanges /\ changes' = changes + 1
  /\ endpoint[p] \notin {s, "deleted"}
  /\ endpoint' = [endpoint EXCEPT ![p] = s]
  /\ UNCHANGED << rows, publication, jobVars, workers, requests, slow, faults >>

-----------------------------------------------------------------------------
(***************************************************************************)
(* publishOutboundWebhookEvent, publishWorkerOutboundEvent and the test    *)
(* delivery of an endpoint.                                                *)
(***************************************************************************)
PublisherStep == UNCHANGED << settings, attempts, retries, workers, requests, slow >>

\* The active endpoints are read; any of them may accept the type of the event.
SelectEndpoints(c) ==
  /\ publisher[c] = "idle"
  /\ \E s \in SUBSET {p \in Endpoints : endpoint[p] = "active"} :
       /\ picked' = [picked EXCEPT ![c] = s]
       /\ publisher' = [publisher EXCEPT ![c] = IF s = {} THEN "done" ELSE "insert"]
  /\ UNCHANGED << status, jobs, queue, faults >>
  /\ PublisherStep

InsertFor(c, new, next) ==
  /\ publisher[c] = "insert"
  /\ status' = [d \in Deliveries |->
                  IF d[1] = c[1] /\ d[2] \in new THEN "queued" ELSE status[d]]
  /\ publisher' = [publisher EXCEPT ![c] = "enqueue"]
  /\ picked' = [picked EXCEPT ![c] = next]
  /\ UNCHANGED << jobs, queue, faults >>
  /\ PublisherStep

New(c) == {p \in picked[c] : status[<< c[1], p >>] = "none"}

\* insert ... on conflict do nothing returning: only new rows are returned.
InsertDeliveries(c) == InsertFor(c, New(c), New(c))

\* One of the concurrent calls of enqueueOutboundWebhookDelivery.
EnqueueDelivery(c, p) ==
  /\ publisher[c] = "enqueue" /\ p \in picked[c]
  /\ picked' = [picked EXCEPT ![c] = @ \ {p}]
  /\ jobs' = [jobs EXCEPT ![<< c[1], p >>] = @ + 1]
  /\ queue' = [queue EXCEPT ![<< c[1], p >>] = "queued"]
  /\ UNCHANGED << status, publisher, faults >>
  /\ PublisherStep

\* The queue is unavailable: the publisher logs the failure.
EnqueueFails(c, p) ==
  /\ publisher[c] = "enqueue" /\ p \in picked[c]
  /\ picked' = [picked EXCEPT ![c] = @ \ {p}]
  /\ Faulty
  /\ UNCHANGED << status, publisher, jobs, queue >>
  /\ PublisherStep

FinishPublication(c) ==
  /\ publisher[c] = "enqueue" /\ picked[c] = {}
  /\ publisher' = [publisher EXCEPT ![c] = "done"]
  /\ UNCHANGED << picked, status, jobs, queue, faults >>
  /\ PublisherStep

CrashPublisher(c) ==
  /\ publisher[c] \in {"insert", "enqueue"}
  /\ publisher' = [publisher EXCEPT ![c] = "done"]
  /\ picked' = [picked EXCEPT ![c] = {}]
  /\ Faulty
  /\ UNCHANGED << status, jobs, queue >>
  /\ PublisherStep

-----------------------------------------------------------------------------
(***************************************************************************)
(* The queue.                                                              *)
(***************************************************************************)
Fetch(w, d) ==
  /\ pc[w] = "idle" /\ pc' = [pc EXCEPT ![w] = "load"]
  /\ queue[d] = "queued" /\ queue' = [queue EXCEPT ![d] = "active"]
  /\ work' = [work EXCEPT ![w] = d]
  /\ owns' = [owns EXCEPT ![w] = TRUE]
  /\ UNCHANGED << settings, rows, publication, jobs, retries, requests, slow, faults >>

Completed(d) == queue' = [queue EXCEPT ![d] = "done"] /\ UNCHANGED << jobs, retries >>

\* The attempt threw or the job expired: retry, or dead-letter queue.
Failed(d) ==
  /\ \/ /\ retries[d] < RetryLimit
        /\ queue' = [queue EXCEPT ![d] = "queued"]
        /\ retries' = [retries EXCEPT ![d] = @ + 1]
     \/ /\ retries[d] >= RetryLimit
        /\ queue' = [queue EXCEPT ![d] = "dlq"]
        /\ UNCHANGED retries
  /\ UNCHANGED jobs

Stop(w) ==
  /\ pc' = [pc EXCEPT ![w] = "idle"]
  /\ work' = [work EXCEPT ![w] = NoDelivery]
  /\ owns' = [owns EXCEPT ![w] = FALSE]

\* The outcome of a job that expired meanwhile is discarded.
Return(w) ==
  /\ Stop(w)
  /\ IF owns[w] THEN Completed(work[w]) ELSE UNCHANGED jobVars

Throw(w) ==
  /\ Stop(w)
  /\ IF owns[w] THEN Failed(work[w]) ELSE UNCHANGED jobVars

\* The job of a worker that died expires.
Expire(d) ==
  /\ queue[d] = "active"
  /\ \A w \in Workers : ~(owns[w] /\ work[w] = d)
  /\ Failed(d)
  /\ UNCHANGED << settings, rows, publication, workers, requests, slow, faults >>

\* The job of a slow worker expires; the worker goes on.
Timeout(w) ==
  /\ owns[w] /\ owns' = [owns EXCEPT ![w] = FALSE]
  /\ Failed(work[w])
  /\ slow' = slow \cup {work[w]}
  /\ Faulty
  /\ UNCHANGED << settings, rows, publication, pc, work, requests >>

\* A worker dies; its job stays active until it expires.
CrashWorker(w) ==
  /\ pc[w] # "idle"
  /\ Stop(w)
  /\ Faulty
  /\ UNCHANGED << settings, rows, publication, jobVars, requests, slow >>

-----------------------------------------------------------------------------
(***************************************************************************)
(* processOutboundWebhookDelivery and processOutboundWebhookDeadLetter.    *)
(***************************************************************************)
At(w, position) == pc[w] = position
Goto(w, from, to) ==
  At(w, from) /\ pc' = [pc EXCEPT ![w] = to] /\ UNCHANGED << work, owns, jobVars >>
WorkerStep == UNCHANGED << settings, publication, slow >>
Elsewhere == UNCHANGED << requests, faults >> /\ WorkerStep

SetStatus(d, s) == status' = [status EXCEPT ![d] = s] /\ UNCHANGED attempts

Loaded(w, settled, active) ==
  /\ At(w, "load")
  /\ \/ settled /\ Return(w)
     \/ ~settled /\ ~active /\ Goto(w, "load", "cancel")
     \/ ~settled /\ active /\ Goto(w, "load", "begin")
  /\ UNCHANGED rows
  /\ Elsewhere

Settled(w) == status[work[w]] \in Terminal
Active(w) == endpoint[work[w][2]] = "active"

\* Mutant: the endpoint is not looked at again.
LoadUnchecked(w) == Loaded(w, Settled(w), TRUE)

\* Mutant: a delivery that has succeeded is attempted again.
LoadSettled(w) == Loaded(w, FALSE, Active(w))

\* The row and its endpoint are read in one query.
Load(w) == Loaded(w, Settled(w), Active(w))

CancelDelivery(w) ==
  /\ Goto(w, "cancel", "return")
  /\ SetStatus(work[w], "cancelled")
  /\ Elsewhere

\* Mutant: only the first attempt is counted.
BeginFirstAttempt(w) ==
  /\ Goto(w, "begin", "post")
  /\ status' = [status EXCEPT ![work[w]] = "processing"]
  /\ attempts' = [attempts EXCEPT ![work[w]] = 1]
  /\ Elsewhere

\* beginWebhookDeliveryAttempt
BeginAttempt(w) ==
  /\ Goto(w, "begin", "post")
  /\ status' = [status EXCEPT ![work[w]] = "processing"]
  /\ attempts' = [attempts EXCEPT ![work[w]] = @ + 1]
  /\ Elsewhere

\* A request reaches the endpoint.
Posted(w) ==
  LET p == work[w][2]
  IN  /\ posts' = [posts EXCEPT ![work[w]] = @ + 1]
      /\ late' = [late EXCEPT ![p] = IF endpoint[p] = "deleted" THEN @ + 1 ELSE @]

Accepts(w) == Posted(w) /\ accepted' = [accepted EXCEPT ![work[w]] = @ + 1]

\* Mutant: the answer of the endpoint is taken for a failure.
PostRefused(w) ==
  Goto(w, "post", "fail") /\ Accepts(w) /\ UNCHANGED << rows, faults >> /\ WorkerStep

\* postSignedWebhook is answered with 2xx.
PostAccepted(w) ==
  Goto(w, "post", "succeed") /\ Accepts(w) /\ UNCHANGED << rows, faults >> /\ WorkerStep

\* The request does not get through, or is answered with another status.
PostFails(w) ==
  /\ Goto(w, "post", "fail")
  /\ \/ UNCHANGED << posts, late >>
     \/ Posted(w)
  /\ UNCHANGED << rows, accepted, faults >>
  /\ WorkerStep

\* The endpoint accepts the request, but its answer is lost.
AnswerLost(w) ==
  Goto(w, "post", "fail") /\ Accepts(w) /\ Faulty /\ UNCHANGED rows /\ WorkerStep

\* markWebhookDeliverySucceeded
MarkSucceeded(w) ==
  /\ Goto(w, "succeed", "return")
  /\ SetStatus(work[w], "succeeded")
  /\ Elsewhere

\* It is called inside the try block: an error, be it that the write failed or
\* that its acknowledgement was lost, counts as a failed attempt.
MarkSucceededFails(w) ==
  /\ Goto(w, "succeed", "fail") /\ Faulty
  /\ \/ UNCHANGED rows
     \/ SetStatus(work[w], "succeeded")
  /\ UNCHANGED requests /\ WorkerStep

\* Mutant: the error is not thrown again.
MarkFailedQuietly(w) ==
  /\ Goto(w, "fail", "return")
  /\ SetStatus(work[w], "failed")
  /\ Elsewhere

\* The catch block: markWebhookDeliveryFailed, and the queue retries.
MarkFailed(w) ==
  /\ Goto(w, "fail", "throw")
  /\ SetStatus(work[w], "failed")
  /\ Elsewhere

\* The handler is over; a worker that dies before leaves its job active.
EndAttempt(w) ==
  /\ \/ At(w, "return") /\ Return(w)
     \/ At(w, "throw") /\ Throw(w)
  /\ UNCHANGED rows
  /\ Elsewhere

\* The dead-letter handler marks the delivery whatever its status is; if it
\* dies before its job is completed it does so again.
DeadLetter(d) ==
  /\ queue[d] = "dlq"
  /\ \/ queue' = [queue EXCEPT ![d] = "dead"] /\ UNCHANGED faults
     \/ Faulty /\ UNCHANGED queue
  /\ SetStatus(d, "dead")
  /\ UNCHANGED << settings, publication, jobs, retries, workers, requests, slow >>

-----------------------------------------------------------------------------
Publish(c) ==
  \/ SelectEndpoints(c)
  \/ InsertDeliveries(c)
  \/ \E p \in Endpoints : EnqueueDelivery(c, p)
  \/ FinishPublication(c)

Deliver(w) ==
  \/ \E d \in Deliveries : Fetch(w, d)
  \/ Load(w)
  \/ CancelDelivery(w)
  \/ BeginAttempt(w)
  \/ PostAccepted(w)
  \/ PostFails(w)
  \/ MarkSucceeded(w)
  \/ MarkFailed(w)
  \/ EndAttempt(w)

Failure ==
  \/ \E c \in Publishers : CrashPublisher(c)
  \/ \E c \in Publishers, p \in Endpoints : EnqueueFails(c, p)
  \/ \E w \in Workers :
       CrashWorker(w) \/ Timeout(w) \/ AnswerLost(w) \/ MarkSucceededFails(w)

Next ==
  \/ \E p \in Endpoints, s \in {"active", "disabled", "deleted"} : ChangeEndpoint(p, s)
  \/ \E c \in Publishers : Publish(c)
  \/ \E w \in Workers : Deliver(w)
  \/ \E d \in Deliveries : Expire(d) \/ DeadLetter(d)
  \/ Failure

Spec == Init /\ [][Next]_vars

\* A publisher or worker that runs goes on, and the queue hands out jobs,
\* expires abandoned ones and dead-letters exhausted ones.
Fairness ==
  /\ \A c \in Publishers : WF_vars(Publish(c) /\ publisher[c] # "idle")
  /\ \A w \in Workers : WF_vars(Deliver(w))
  /\ \A d \in Deliveries : WF_vars(Expire(d)) /\ WF_vars(DeadLetter(d))

FairSpec == Spec /\ Fairness
-----------------------------------------------------------------------------
(***************************************************************************)
(* Properties.                                                             *)
(***************************************************************************)

\* Type invariant; no job is attempted more often than its limits allow.
TypeOK ==
  /\ endpoint \in [Endpoints -> {"active", "disabled", "deleted"}]
  /\ changes \in 0 .. MaxChanges
  /\ status \in [Deliveries -> Terminal \cup {"none", "queued", "processing", "failed"}]
  /\ attempts \in [Deliveries -> 0 .. RetryLimit + 1]
  /\ publisher \in [Publishers -> {"idle", "insert", "enqueue", "done"}]
  /\ picked \in [Publishers -> SUBSET Endpoints]
  /\ jobs \in [Deliveries -> Nat]
  /\ queue \in [Deliveries -> {"none", "queued", "active", "done", "dlq", "dead"}]
  /\ retries \in [Deliveries -> 0 .. RetryLimit]
  /\ pc \in [Workers -> {"idle", "load", "cancel", "begin", "post", "succeed", "fail",
                        "return", "throw"}]
  /\ work \in [Workers -> Deliveries \cup {NoDelivery}]
  /\ owns \in [Workers -> BOOLEAN]
  /\ posts \in [Deliveries -> Nat]
  /\ accepted \in [Deliveries -> Nat]
  /\ late \in [Endpoints -> Nat]
  /\ slow \subseteq Deliveries
  /\ faults \in 0 .. MaxFaults

\* However often an event is published, one job is enqueued for an endpoint.
OneJobPerDelivery == \A d \in Deliveries : jobs[d] <= 1

\* The attempts the row shows are never fewer than the requests that were made.
RequestsAreCounted == \A d \in Deliveries : posts[d] <= attempts[d]

\* The state is well typed, a delivery has one job, and its row counts what was
\* sent: workers that die or lose their job neither send uncounted nor send
\* more often than the limits of one job allow.
DeliveryInv == TypeOK /\ OneJobPerDelivery /\ RequestsAreCounted

\* A deleted endpoint still gets what the workers had loaded before, and no
\* more: at most one request per worker.
DeletionCancels ==
  \A p \in Endpoints : late[p] <= Cardinality(Workers)

\* The record agrees with the endpoint: what succeeded was accepted, every
\* further acceptance of an event costs a fault, and without one nothing that
\* was accepted is recorded as failed, cancelled or dead.
RecordMatchesEndpoint ==
  \A d \in Deliveries :
    /\ status[d] = "succeeded" => accepted[d] > 0
    /\ accepted[d] <= 1 + faults
    /\ accepted[d] > 0 /\ status[d] \in {"failed", "cancelled", "dead"} => faults > 0

\* A settled delivery is changed again only by the dead-letter handler, by the
\* attempt whose success was committed but not acknowledged, or after its job
\* expired under a worker that was still running.
SettledIsFinal ==
  [][\A d \in Deliveries :
       status[d] \in Terminal /\ status'[d] # status[d] =>
         \/ queue[d] = "dlq"
         \/ status[d] = "succeeded" /\ \E w \in Workers : work[w] = d /\ pc[w] = "fail"
         \/ d \in slow]_vars

\* Every delivery is settled at last, unless its job was never enqueued or a
\* late worker overwrote what had settled.
DeliveriesSettle ==
  \A d \in Deliveries :
    status[d] # "none" ~>
      \/ status[d] \in Terminal
      \/ jobs[d] = 0 /\ faults > 0
      \/ d \in slow
=============================================================================
