# Formal models of AI SaaS Factory

TLA+ models of the parts of this starter in which several actors share state:
chat requests that spend credits, API calls and workers that work on a file,
publishers and workers that deliver webhooks, the export of the overage to the
payment provider, the synchronization of a subscription with it, and the team,
the API keys, the request quota and the conversations of a workspace. TLC checks the models on small
instances and TLAPS proves the most important results for every value of the
constants. `PROJECT.json` lists components, runs, mutants, hazards and theorems,
and maps every definition to the lines of the source it stands for.

Contents: [inventory](#inventory) · [plan](#plan) · [modules](#modules) ·
[runs](#runs) · [fairness](#fairness) · [proofs](#proofs) ·
[disagreements](#disagreements-with-the-documentation) · [limits](#limits)

## Inventory

A Next.js application (`apps/web`) serves the pages, the API of the mobile
client, the public API and the Stripe webhook. A worker (`apps/worker`) runs
three pg-boss queues, each with a dead-letter queue. Both share PostgreSQL
(`packages/db`), an object store (`packages/storage`), Stripe, an AI provider and
an embeddings provider. There is no shared memory: actors meet in rows, advisory
locks, the queue and the object store, and every `await` is a point at which
another one may come in.

| Component | State | Operations | Hard because |
|---|---|---|---|
| Usage-credit ledger (`credits.ts`) | append-only entries per workspace and month, idempotency keys | monthly grant, reserve, settle, release | check-then-insert under two advisory locks; the clock is read by each call |
| AI chat request (`api/ai/chat/route.ts`) | the handler itself, the generation row | plan, grant, reserve, quota, retrieval, stream callbacks | many exits, each must close the reservation |
| AI request quota, conversations (`ai.ts`) | usage events, conversations, messages | consume, create, archive, delete | window read against a clock taken before the lock; deletion under a running stream |
| Files and storage quota (`files.ts`) | `stored_file` rows | reserve within quota, complete, fail, delete, reindex | quota under a lock, all other status writes without it |
| File ingestion (`apps/worker`, `rag.ts`) | job, `document_chunk` rows | validate, extract, embed, replace chunks | minutes between the read and the write, retries, expired jobs |
| Object store (`packages/storage`) | objects | PUT by the client, HEAD, GET, DELETE | the client may replace an object at any time |
| Outbound webhooks (`platform.ts`, `webhook-delivery.ts`, `outbound-events.ts`) | endpoints, deliveries, jobs | publish, attempt, mark, dead-letter | rows are committed before jobs are sent; marks go by id whatever the status |
| Stripe metering (`metering.ts`, `stripe-metering.ts`) | submissions with a lease | reconcile, claim, send, mark, retry | lease against queue, rows computed once from a ledger that may still grow |
| Stripe subscriptions (`billing.ts`, `api/webhooks/stripe`) | subscription row, event rows with a lease | claim, retrieve, apply, complete, fail | events out of order, state retrieved before it is written |
| Workspaces and teams (`auth.ts`, `team-policy.ts`) | members, invitations | invite, join, remove, change role | limits are checked without a lock |
| API keys (`platform.ts`, `api-key-auth.ts`) | key rows | create, authenticate, touch, rotate, revoke | rotation against revocation |
| Chunking (`packages/documents`) | none | chunk with overlap | boundaries and progress |
| Entitlements (`packages/entitlements`) | none | limits of a plan | the plan changes between read and use |

How they interact. The chat handler calls the ledger, the quota and the
conversations and at its end records usage and publishes an event. Reconciliation
reads the settlements of the ledger. Stripe events change the plan all limits
depend on. File calls send jobs to the worker; the worker, the chat handler and
the Stripe handler publish events; publication inserts deliveries and sends jobs
to the worker again.

What makes the components correct:

* **Ledger** - without overage nobody reserves what was not granted; allowances
  never stack; every reservation is closed once, at the right cost.
* **Files** - stored files stay within the quota; the index follows the status;
  a deleted file stays deleted; only validated content is indexed; processing ends.
* **Webhooks** - one job for an event and an endpoint; the record agrees with
  what the endpoint saw; deletion stops delivery; every delivery settles.
* **Metering** - overage is billed exactly once and in full; `sent` is final.
* **Subscriptions** - the row converges to the state the provider has.
* **Teams** - seats within the plan, always an owner.
* **Quota** - no window holds more requests than its limit.
* **API keys** - at most one live successor of a key.
* **Conversations** - an answer has its question; nothing outlives a deletion.

Telemetry, the audit log, contracts, the mobile app, pages, migrations and
scripts keep no state another part decides on; they are listed in `PROJECT.json`
and left out. `packages/platform-security` is made of pure functions over bytes
and DNS answers, `packages/documents` of a pure function over a text.

## Plan

Done, in this order:

1. `CreditAccount` (abstract), `CreditLedger`, `CreditLedgerProofs`
2. `FileLifecycle`, `FileLifecycleProofs`
3. `WebhookDelivery`
4. `StripeMetering`: reconciliation, allocation, submissions with their lease, queue,
   dead letters, manual retry
5. `SubscriptionSync`: event claims, authoritative retrieval, the rule of the update
6. `WorkspaceTeam`, `ApiKeys`, `AiRequests` and their composition `Workspace`
7. `WorkspaceProofs`, `SubscriptionSyncProofs`
8. `SumTheorems` (sums over finite sets), and with it the books of the ledger, the
   bytes of the files and the rows of metering
9. `WebhookDeliveryProofs`, `StripeMeteringProofs`
10. `StorageQuota` (abstract), and that `FileLifecycle` implements it

Every safety invariant and action property of a passing run is now stated by a theorem.
Next, more refinement:

11. an abstract specification of what metering promises (a settlement is charged
    its share of the overage once) and of a delivery (sent, then settled once), with
    the faults under which `StripeMetering` and `WebhookDelivery` implement them;
12. the same for the subscription row: it moves along the provider's log.

The chunker of `packages/documents` was planned and is left out: it is a function of
one text without state, which unit tests reach as well as a model checker does.

## Modules

All modules use the same conventions. A process (request, call, worker,
publisher) has a program counter that names the `await` it has reached; one
action is the code between two awaits. A transaction under an advisory lock is
two actions: the first takes the lock and reads, the second writes, commits and
frees the lock, so what lies between them interleaves with everything that does
not take that lock. A crash frees the locks of the process, as PostgreSQL does
when the connection goes. Faults share a budget, `MaxFaults`; a property that
holds only without faults says `faults > 0` in its statement, so the runs show
both that the code keeps it and what a fault may do to it. A definition marked
`Mutant` is a plausible bug used to show that a property can fail; no
specification uses it.

### CreditLedger, CreditAccount

One workspace. The entries of a month are kept as four sums: `granted`,
`reserved`, `returned` (positive settlements) and `overdrawn` (negative ones).
The unique idempotency keys are `grantTargets` (a grant's key contains its
target), `reservedIn` and `settled` (one of each per request). `Balance` is the
sum that `getUsageCreditBalance` computes.

| Code | Action |
|---|---|
| `getSubscriptionForOrganization` in the chat handler | `ReadPlan` |
| `ensureMonthlyPlanCreditGrant` | `CallGrant` (reads the clock), `BeginGrant`, `CommitGrant` |
| `reserveUsageCredits` | `CallReserve` (reads the clock), `BeginReserve`, `CommitReserve` |
| `consumeAiRequestQuota` | `QuotaAllows` or `QuotaRejects` |
| retrieval, conversation, message | `Prepared` or `PreparationFails` |
| `streamText` and its callbacks | `StreamYieldsNothing`, `RecordGeneration`, `Settle`, `Audit`, `UsageWriteFails`, `SettlementFails` |
| `releaseReservation` | `Release`, `ReleaseFails` |
| process death, a throw outside every try block | `Crash` |
| subscription, clock | `ChangePlan`, `NextMonth` |

`CreditAccount` is what the ledger promises: a grant raises a month to an
allowance, a hold is covered at the moment it is taken unless it is on an overage
plan, and a hold is closed once. Locks, months read early and retries are absent
from it. `ImplementsAccount` states the refinement.

### FileLifecycle, StorageQuota

One workspace; a file, its upload request and the actions of the client on it
have the same name. Completion, deletion and reindexing are `Calls`, job
handlers are `Workers`. An object is identified by its size: a size other than
the declared one stands for everything `validateStoredObject` refuses.

| Code | Actions |
|---|---|
| `POST /api/files/uploads`, `createStoredFileWithinQuota` | `StartUpload`, `BeginQuota`, `CommitQuota`, `IssueUrl`, `PresignFails` |
| presigned PUT | `Put` |
| `POST /api/files/[id]/complete` | `CallComplete`, `HeadValid`, `HeadInvalid`, `HeadFails`, `MarkUploaded`, `Enqueue`, `EnqueueFails`, `RejectObject`, `MarkFailed` |
| `DELETE /api/files/[id]`, `markStoredFileDeleted` | `CallDelete`, `DeleteObject`, `BeginDelete`, `CommitDelete` |
| `POST /api/files/[id]/reindex` | `CallReindex` and the enqueue actions |
| `processFileJob`, `replaceDocumentChunks` | `ReadRow` to the usage record, with `LockFile` before the chunks are written |
| pg-boss (external) | `Fetch`, `Completed`, `Failed`, `Expire`, time-outs |

The queue has policy `singleton`: any number of jobs of a file may wait, one is
active. A job that expires under a slow worker is handed on while that worker
goes on, and its outcome is then ignored.

`StorageQuota` is what the quota promises: a file is admitted in one step against the
count and the bytes of all stored files, keeps its size, and once it is
removed it does not come back. `ImplementsQuota` states the refinement: the stored
files are the rows not deleted, their sizes what the quota sums, which is the
declared size until the measured one replaces it.

### WebhookDelivery

One workspace. A delivery is an event for an endpoint, which is what the unique
index `outbound_webhook_delivery_endpoint_event_uidx` allows one row for. An
event may be published by several calls, one after the other or concurrently,
because a repeated file job uses the same event id.

| Code | Actions |
|---|---|
| `PATCH` and `DELETE` of an endpoint | `ChangeEndpoint` |
| `createWebhookDeliveriesForEvent`, `createWebhookDeliveryForEndpoint` | `SelectEndpoints`, `InsertDeliveries` |
| `enqueueOutboundWebhookDelivery` and the caller's catch block | `EnqueueDelivery`, `EnqueueFails`, `FinishPublication`, `CrashPublisher` |
| `processOutboundWebhookDelivery` | `Load`, `CancelDelivery`, `BeginAttempt`, `PostAccepted`, `PostFails`, `AnswerLost`, `MarkSucceeded`, `MarkSucceededFails`, `MarkFailed`, `EndAttempt` |
| `processOutboundWebhookDeadLetter` | `DeadLetter` |
| pg-boss (external) | `Fetch`, `Completed`, `Failed`, `Expire`, `Timeout`, `CrashWorker` |

The variables `posts`, `accepted` and `late` are what the endpoint has seen. They
are not in the program; the properties compare its records with them. `slow`
records the deliveries whose job expired under a running worker.

### StripeMetering

One organization and one closed month. A settlement has at most one row (its id
is derived from the settlement), so both have the same name: a number that is its
place in the order by `effective_at` and id. The allocation is the closed form of
the loop in `metering-policy.ts`: a settlement is charged what the overage of the
settlements up to it exceeds the overage of those before it.

| Code | Actions |
|---|---|
| late settlement or top-up of the closed month | `PostLate`, `GrantLate` |
| `POST /api/billing/metering/reconcile` and what it calls | `ReadAllowance` (takes the lock), `CommitRows`, `ListDispatchable`, `Enqueue` for each submission |
| `POST /api/billing/metering/retry`, `resetStripeMeterSubmissionForRetry` | `Reset`, `EnqueueRetry` |
| `claimStripeMeterSubmission` | `Claim` (claimed, or `sent` and `busy` complete the job) |
| `processStripeMeterSubmission` | `PostAccepted`, `PostFails`, `AnswerLost`, `MarkSent`, `MarkSentFails`, `MarkFailed`, `MarkFailedFails`, `EndAttempt` |
| `processStripeMeterSubmissionDeadLetter` | `DeadLetter` |
| the lease of five minutes | `EndLease` |
| pg-boss (external) | `Fetch`, `Completed`, `Failed`, `Expire`, `Timeout`, `CrashWorker` |
| the provider (external) | `Accepts` counts an event unless its identifier is `known`; `Forget` ends the identifier's life |

`torn`, `unordered`, `seen` and `incidents` are histories: they say which
reconciliation read between two commits, which settlement came out of order and
which faults hit the jobs of a submission. The properties name them as
their exceptions.

### SubscriptionSync

One organization. The provider's side is a log of changes, each of them an
event with the same number, stamped with a second; several may share a second.

| Code | Actions |
|---|---|
| the checkout route | `OpenCheckout` |
| the provider and its portal (external) | `PayCheckout`, `ChangeSubscription` |
| `claimWebhookEvent`, `webhookClaimDecision` | `Claim` |
| `applyAuthoritativeSubscription` | `Retrieve` |
| `syncStripeSubscription` | `Sync` |
| `completeWebhookEvent`, `failWebhookEvent` | `Complete`, `Fail` |
| process death; the lease of five minutes | `Crash`, `EndLease` |

An entry of the log is the subscription, its plan, its status and its second. The
provider sends an event of every change of a plan or a status, the portal's included, and may send
further events that find the subscription as it was. The row names the event as of which it
shows its subscription instead of copying the fields.
`shrugged` are the events answered with success because another handler held
them; `overlapped` says that two subscriptions were alive at once, which two open
checkout sessions allow; `hit` are the events of which a handler failed, died or was slow.

### WorkspaceTeam

The identity library (Better Auth) keeps the rows and is external: it checks who
calls, loads the row, runs the hook that `auth.ts` gives it, and writes. The hook
is the repository's. `Promise.all` sends its reads together, so they are
actions that happen in any order, and nothing is locked between them and the
write.

| Code | Actions |
|---|---|
| `beforeCreateInvitation` | `StartInvite`, the reads, `CreateInvitation` or `Refuse` |
| `beforeAddMember` | `StartAccept`, the reads, `AddMember` or `Refuse` |
| `beforeUpdateMemberRole`, `beforeRemoveMember` | `StartChange`, `CountOwners`, `ChangeMember` or `Refuse` |
| `teamSeatLimit`, `getOrganizationSeatUsage` | `ReadSeatLimit`, `CountMembers`, `CountPending` |
| `countOrganizationOwners`, `wouldRemoveLastOwner` | `CountOwners`, `WouldRemoveLastOwner` |
| 48 hours; the subscription row | `ExpireInvitation`, `ChangePlan` |

A removal is the change of a role to `none`, because both hooks ask the same
question; the changes under way of a row that is removed end. Whether the library
runs `beforeAddMember` when an invitation is accepted cannot be seen in the
repository, so an acceptance does either (`accept`, `join`). `seatsRaced`
and `ownerRaced` are histories of the writes of calls that another write had
overtaken.

### ApiKeys

A key and its replacements are a lineage, named after the first of them.

| Code | Actions |
|---|---|
| `createApiKeyRecord` and its route | `BeginCreate`, `CreateKey` |
| `revokeApiKeyForOrganization` | `BeginRevoke`, `RevokeKey` |
| the rotate route, `rotateApiKeyRecord` | `BeginRotate`, `ReadKey`, `RotateKey` |
| `authenticateApiKey`, `touchApiKeyLastUsed` | `BeginRequest`, `AuthenticateKey`, `TouchKey` |
| `expiresAt` | `ExpireKey` |

### AiRequests

| Code | Actions |
|---|---|
| the chat handler up to the quota | `StartChat`, `ReadRequestLimit`, `ReadClock` |
| `consumeAiRequestQuota` | `ConsumeAiRequestQuota` |
| `createConversation`, `createConversationMessage`, `recordAiGeneration` | `CreateConversation`, `Ask`, `Answer`, `AnswerNothing`, `RecordAiGeneration` |
| `PATCH`, `DELETE` of a conversation | `PatchConversation`, `DeleteRequest` |

The credits of the same requests are in `CreditLedger`; here a request may
end at any point where they could end it. A row whose conversation was deleted
meets the foreign key, and the request fails.

### Workspace

Composes the three. They share the subscription row, which decides seats and monthly
requests, and the member rows, which decide who may manage keys. `MaxWork` bounds calls,
requests, edits, ticks and plans together, and `MaxBusy` the parts with calls
under way at once. Each part reads the shared rows in single steps and
writes only its own, so an interleaving of calls of two parts does nothing that
one call after the other would not do, and one busy part at a time is enough.

## Runs

| Run | Configuration | Shows |
|---|---|---|
| `ledger` | 2 requests, 2 months, 3 plans with and without overage, 1 fault, fair | `LedgerInv`, `CoveredReservations`, `GrantIsHighestTarget`, `FaultsBoundMisbookings`, `LedgerConservation`, `DeniedOnlyWhenSpent`, `MonthBoundedByAllowance`, the refinement `ImplementsAccount`, `ReservationsClose` |
| `ledger_first_request` | 2 requests, 2 months, no fault | `DenialAfterGrant` fails at the end of a month |
| `files_quota` | 3 uploads, 1 call, 2 plans, 2 faults | `WithinQuota`, `LifecycleInv`, the refinement `ImplementsQuota` |
| `files_onefile` | 1 file, 2 calls, 2 workers, 2 jobs, 2 PUTs, 1 retry, 1 fault, fair | index, validation, deletion, `UploadNotForgotten`, `JobsFollowCompletion`, `ProcessingEnds` |
| `files_transient_head` | 1 file, 1 call, 1 worker, 1 fault | `WorkersKeepValidObjects` fails when HEAD fails |
| `webhook_delivery` | 1 event, 2 publishing calls, 1 endpoint, 2 changes, 2 workers, 2 retries, 2 faults, fair | all properties of the module |
| `metering_allocation` | 4 settlements, all of them perhaps late, 3 reconciliations, no workers | `RowsMatchOverage` |
| `metering_delivery` | 1 settlement, 2 reconciliations, 1 manual retry, 2 workers, 1 retry, 3 faults, fair | `MeterInv`, `BilledOnce`, `OneSender`, `SentIsFinal`, `SubmissionsSettle` |
| `subscription_sync` | 2 plans, 3 events, upgrade to the larger plan, statuses active and canceled, 2 handlers, 1 fault, fair | `SyncInv`, `PaidIsServed`, `EventsSettle` |
| `subscription_same_second` | the same with all three statuses, no fault | `RowConverges` fails when two changes share a second |
| `workspace` | 3 users, 2 plans, 3 keys, 4 team calls and 4 key calls (2 of each at a time), 3 requests, 2 conversations, 3 ticks, at most 5 pieces of work | `SeatExcessIsRaced`, `OneActiveKey`, `RevocationIsFinal`, `QuotaHolds`, `ConversationsAreWhole` |
| `workspace_last_owner` | 2 users, 2 team calls, nothing else | `OwnerKept` fails when two owners step down together |

Why the bounds are enough.

* *Ledger.* A race on the hard stop or on the grant needs two requests. The
  allowances and costs (`MCIncluded`, `MCOverage`, `Costs`) are chosen around
  `Reservation` so that some reservations fit and some do not, and costs are
  below and above the reservation. Two months give one boundary that each
  clock reading of a request may fall on either side of. One fault suffices to
  leave a reservation open or to book it wrongly, `FaultsBoundMisbookings`
  counts by the fault, and the other request shows what this does to others.
  More requests, months and faults are covered by the theorems.
* *Files.* With sizes 1 and 2, the plans admit one file of 2 or two files of 3
  bytes together, so that count and bytes both refuse; the third upload meets a quota that
  is full, was full, or was read under another plan. Workers are left out of
  that run because they do not change what the quota counts. One file is
  enough for the second run, since files share only the quota. Two calls
  and two workers give every pair of completion, deletion, reindexing, slow and
  successor worker; two PUTs replace an object once; one retry distinguishes a
  job that is repeated from one that is dead.
* *Webhooks.* Deliveries share only the workers, which keep nothing from one job
  to the next, and the endpoint, so one delivery is enough; two calls
  give a repeated and a concurrent publication. Two changes enable a disabled
  endpoint and delete it. Three attempts (two retries) exceed the number of workers, which
  lets `DeletionCancels` tell a worker that had loaded the endpoint before its
  deletion from one that loads it later. Two faults combine, for example, a
  slow worker with a crash of its successor.
* *Metering.* The second settlement in order crosses the allowance, so each order in
  which the four may be committed puts some below it and some above;
  three reconciliations read before, between and after. Workers do not change
  what is charged and are left out of that run. Submissions share only
  the workers, which keep nothing, so one is enough for the other run; two
  workers and two job attempts let a slow worker and its
  successor meet, and three faults let a job expire, a lease end and an answer get lost together.
* *Subscriptions.* Three events are a subscription that begins, is upgraded and
  ends, or one that ends and a second one that begins, or two events of one change; two
  handlers hold two states retrieved at different times and write them in either order.
  `Upgrades` and `Outcomes` bound what a change may be: a downgrade and `past_due`, which
  serves no plan just as `canceled` does, are left to the theorems
  (and `past_due` to `subscription_same_second`).
* *Workspace.* A free workspace has one seat and one request, a paid one two, so
  that limits are met with one row and with two. Three users are two owners and
  somebody to invite. Two rotations of one key and the replacement of the first
  need three keys. Four key calls are, say, a creation, two overlapping rotations and a
  revocation. The clock passes a minute at each tick and a month at
  the second. Two owners who step down need two users and two calls, which is
  `workspace_last_owner`. Five pieces of work, of which the first plan is one, leave four calls:
  two invitations and both acceptances, for example.

Symmetry is used in runs whose properties speak of single states or steps only. Deadlock is checked
for the ledger, whose plan may always change; everything else comes to rest when all calls and jobs are
done, and those runs say so.

What the properties say is stated at each of them. Some of the less obvious:

* `WithinQuota` speaks of every *set* of stored files: it is within the limits
  of the plan under which one of its members was admitted. The obvious invariant, all
  files within the current plan, is wrong as soon as the plan is reduced, and the
  one for all files together says less about deletions.
* `FaultsBoundMisbookings` counts: *n* faults spoil at most *n* requests, so no
  fault spreads from one request to another.
* `MonthBoundedByAllowance` bounds what the late settlement of an earlier month's
  request may add to a month.
* `SettledIsFinal` and `DeliveriesSettle` (webhooks) except a delivery whose job
  expired under a running worker. This exception is needed: `markWebhookDeliveryFailed`
  goes by id, so a late worker turns `cancelled`, `succeeded` or `dead` into
  `failed`, and as the job is over by then the row stays `failed`. They also except
  a delivery whose row was inserted and whose job was never sent: nothing ever
  picks it up. `SettledIsFinal` excepts two more steps: the dead-letter handler, and the attempt
  whose success was committed while the connection failed, for which the catch block of
  `processOutboundWebhookDelivery` records a failure.
* `DeniedOnlyWhenSpent` gives the two reasons a request may be refused for: the allowance of its
  plan is spent up to less than one reservation, or the month ended between its grant and
  its reservation (see [below](#disagreements-with-the-documentation)).
* `IndexIsValidated` excepts a file whose object was replaced between the HEAD and the
  GET of a worker, and no other replacement.
* `RowsMatchOverage` is exact as long as settlements come in their order; after
  one that came late the rows may charge less than the overage, never more. A grant of a
  larger plan between the two reads of a reconciliation (`torn`) lets it charge above the
  allowance it has read; even then no more is charged than the overage above the smaller allowance,
  and nothing before the larger plan was granted.
* `BilledOnce` and `OneSender` name what it takes to send a submission twice: a
  worker that is slower than its lease and its job, or somebody who resets a
  submission that was sent but recorded as failed.
* `SentIsFinal` excepts the dead-letter handler: it marks a row by its id, so the
  dead letter of an earlier job turns a submission that was sent since into
  `dead`, from where it may be retried. It also excepts a slow worker, and the worker that records
  a failure because it did not learn that its mark was committed.
* `SubmissionsSettle` excepts a submission whose failure could not be recorded:
  its row keeps a claim, the repeated job finds it `busy` and completes, and as
  `processing` rows are neither listed nor reset nobody takes it up again.
* `EventsSettle` excepts an event that was answered while another handler held
  it, and of which a handler failed, died or was slow: the provider does not deliver it
  again. Both are needed, an event that was only answered early is processed.
* `PaidIsServed` supposes that what happens in one second is one change, with any number
  of events (see [below](#disagreements-with-the-documentation)). If two subscriptions were ever
  alive at once, the one row shows whichever event came last, and a plan that is
  paid for may not be served; a plan that is not paid for is not served even then.
* `SeatExcessIsRaced` and `OwnerLossIsRaced` say what the unlocked checks do guarantee:
  the excess over the seats is at most the number of calls overtaken between
  their reads and their write, and the last owner goes only by such a call or one that had
  loaded an outdated role.
* `QuotaHolds` looks at windows of the rows' own times, which are not the order of
  the rows, as the clock is read before the lock.
* `RecordMatchesEndpoint` counts: every acceptance after the first costs a fault, such as
  an answer that was lost or a success that could not be recorded.

## Fairness

Safety holds without it. The fair specifications assume weak fairness

* of the steps of a handler or publisher that has *started*: the JavaScript
  runtime runs every continuation whose awaited call has ended, and database,
  provider and HTTP calls end (by an answer, an error or their time-out);
* of a worker that can fetch a job, of the expiration of an active job nobody owns
  and of the dead-letter handler: pg-boss polls the queues and its supervisor
  expires jobs. Both run in the worker process, which is restarted when it dies.

* of the provider, which delivers an event until it is answered with success, and
  of the end of a lease, which is a matter of time.

`Workspace` is checked for safety only: nothing in it has to happen.
No client has to send a request, repeat it or PUT an object; no setting has to
change; no fault has to happen.

## Proofs

The proofs hold for any number of requests, files, users, keys, calls,
handlers, workers, jobs, settlements, deliveries, plans, months and faults, and
any costs, limits and sizes the `ASSUME`s of the modules allow. These say that
names of different kinds differ, that amounts and bounds are natural numbers
(the reservation, the limits, the sizes and the windows positive), that the
allowance of the smaller metered plan is not above that of the larger one, and
that the sets over which something is counted or added up (requests, files,
users, settlements, webhook workers) are finite. TLC evaluates them in every run.

Each component has an inductive invariant. The property alone is hardly ever
inductive, because a handler writes by what it read in an earlier step: the
invariant adds which entries, locks, claims and jobs belong to a handler that stands
at a given place, and what is still true of what it read. There is then a lemma
for each kind of step.

**Sums** (`SumTheorems`). Costs, credits and sizes are added up with `MapThenSumSet`.
Induction over finite sets by the library's theorems has an operator as hypothesis,
which the provers cannot instantiate. But the well-founded ordering of the subsets of a
finite set is itself a set, so that an induction becomes a contradiction about a
smallest counterexample (`SmallestSet`). With it the fold is shown to be
defined and to equal the cardinality of a set of units (`SumIsCount`), from which
the other facts follow by those about cardinalities: an element adds its value
(`SumOfRest`), subsets and larger functions (`SumOfSubset`, `SumOfLarger`), a change at one
element (`SumOfChange`).

**Ledger** (`CreditLedgerProofs`). `TypeCorrect` shows that no sum ever goes
negative. The hard stop is not inductive: `CommitReserve` writes by a sum it read in
an earlier step. `LedgerInv` adds what makes it so:

* `LocksHeld`: who is in a transaction owns its lock;
* `ReadsHold`: under the grant lock the sum of grants is exactly what was read;
  under the credit lock what was read is at most the covered balance now,
  because the entries of others that do not take this lock (grants and
  settlements) only raise it, and negative settlements are counted apart;
* `EntriesFollowHandler`: where a handler stands tells which entries it has.

There is one lemma for each kind of step (`QuietStep`, `BeginStep`,
`CommitGrantStep`, `CommitReserveStep`, `SettlementStep`, `CrashStep`,
`EnvironmentStep`). `HardStop` and `AllowancesNeverStack` follow, and
`LedgerImplementsAccount` shows by the same invariant that grants,
reservations and settlements are steps of `CreditAccount` and that all other
steps stutter. Three more invariants are inductive with it:

* `EntriesAddUp` ties the four sums of a month to the requests that have
  entries in it. `LedgerConserves` follows (the balance over all months is the grants
  less the cost of what is settled less the open reservations), and so does
  `MonthIsBounded`, in which the reservations of earlier months may be given back.
* `BookingInv` counts the requests whose settlement is wrong or bound to be wrong, because a
  release books no cost whatever was recorded. The set grows by at most one request in a
  step that is a fault and in no other one: `MisbookingsTakeFaults`.
* `DenialInv` follows a request from its grant to its refusal: the grants of the month it was
  granted in reach the allowance of its plan, and as no sum of entries ever falls, the
  balance it reads is short only by reservations and by costs above them. `DenialsAreExplained`
  follows for any number of months; that the month ends in between is the exception
  that `ledger_first_request` shows, see the next section.

**Files** (`FileLifecycleProofs`). `FileTypeCorrect` includes that no two workers
own one job. `LifecycleInv` has `LocksHeld` for the quota and file locks, and
`ReadsHold`, which says that an upload that has not committed has no
row, that the files counted under the quota lock can only have become fewer,
and that a worker about to write chunks holds a validated content and a row
that is not deleted. `FileIndexFollowsStatus`, `FileCountWithinQuota` (the part of
`WithinQuota` that counts files) and `FileDeletedIsFinal` follow. The last
matters because `markStoredFileFailed` takes no lock. On top of it:

* `ContentInv`: a measured size is the declared one, since a completion between its
  HEAD and its write has seen the declared size; a worker between validation and index has
  the object that was validated, unless a PUT fell between a HEAD and its GET; the calls about
  to enqueue and the jobs are for files that were completed. `FileIndexIsValidated`
  and `FileJobsFollowCompletion` follow.
* `AwaitInv`: until the first fault an uploaded file is awaited by the call about to
  enqueue it, by a queued job or by a worker that has not marked it yet, and a worker
  that runs owns the job of its file. `FileUploadNotForgotten` follows.
* `QuotaInv`: the bytes summed under the quota lock cover the stored files until the
  transaction ends, because only it inserts and nothing makes a stored file heavier.
  `FileWithinQuota` follows, and `FilesImplementQuota`: an insertion is an admission of
  `StorageQuota`, the commit of a deletion removes its file and no other one, and
  every other step keeps the stored files and their weights.

**Webhooks** (`WebhookDeliveryProofs`). The number of attempts is bounded because the
queue hands a job out a bounded number of times (`AttemptsCounted`, which also counts the
workers that have still to count theirs), and because there is one job for a delivery:
`EnqueuedOnce` says that a job is sent only by the call that inserted the row, which
no other call holds, and `OwnersHold` that a worker owns an active job alone.
`DeliveriesStayWithinLimits` follows. `LateBounded` relates the requests a deleted endpoint still
gets to the workers that had loaded it before (`DeletionStopsDelivery`). `Undisturbed`
and `Accepted` describe a delivery whose job never expired under a worker and one for which
nothing failed: `SettledStaysSettled` and `RecordsMatchEndpoints` need them, and they
are why these properties have their exceptions. `PaidFor` counts: a delivery has one chance to be
accepted, which an acceptance uses up, and only a fault gives it another.

**Metering** (`StripeMeteringProofs`). The parts of the invariant are about the rows and who
has to do with them (`RowsHaveValues`, `RetriersHold`), the jobs (`OwnersHold`,
`LostJobsExpired`), the claim (`SendersHold`: whoever sends holds the claim alone, unless a lease
ended under a sender or somebody reset the row, and the dead-letter handler of another job does
not let anybody else claim it; `SendersUnsent`: what they send is not recorded
as sent, but by a mark they have not learnt of) and what the provider has counted (`SentIsBilled`,
`Counted`: a submission that was counted is not pending, and a failed one has a
job, so that once the provider has forgotten it there is nobody left to send it).
`RowsAndJobsAgree`, `SecondBillIsExplained`, `SendersAreAlone` and `SentStaysSent` follow.
`RowsInv` is about the money: a row charges no more than what its settlement adds to the
overage of the settlements up to it, and exactly that if they came in order. The sum
of these shares telescopes. `CapInv` is the same bound with the smaller allowance, which no
reconciliation can disturb, whatever it has read. Both give `RowsChargeTheOverage`.

**Subscriptions** (`SubscriptionSyncProofs`). `SyncInv` becomes inductive with
`SecondsInOrder`, which says that stamps do not go back in the provider's log,
`HandlersHold`, which says that what a handler has retrieved is not before its event, and
`ClaimsHappened`. An event with an earlier second than the stamp of the row was then made
before the row's state, which is the theorem `RowKeepsUp`. `RowHasEvent` and
`OnlyLastAlive` (only the subscription that changed last can be alive, if no two
ever were at once) add what `PaidPlanIsServed` needs. Once every event is processed the row shows
the content of the last event of its subscription (`LastIsLatest`, `RowShowsLast`), provided that
events of one second are of one change (`SecondsAgree`). For equal seconds the code converges
to nothing in particular, see the next section; `RowConvergesAcrossSeconds` states
what it does guarantee, which is the same formula under `SecondsAgree`.

**Workspace** (`WorkspaceProofs`). Each part has an inductive invariant of its own, and
the steps of the other parts leave its variables alone, except that the chat needs to know that the
plans held only grow.

* `KeyInv`: a lineage begins with a key that has a row (`Rooted`), so a created
  key is in a lineage nobody is in, and a request names a key that has a row.
  `LineageHasOneActiveKey` and `KeysStayRevoked` follow because
  `rotateApiKeyRecord` inserts the replacement only if it revokes an active key.
* `TeamInv`: a call that was not overtaken holds counts of members and invitations that
  are at least the present ones, and the exact count of owners
  (`ReadingsHold`). Overtaken is what makes the difference: without the mark the counts
  say nothing at the write, and the plain limit is false.
  `SeatsExceedOnlyByRaces` follows, and `OwnerKeptUnlessRaced`, which states `OwnerLossIsRaced`: what
  is left of the owner invariant that the next section reports.
* `AiInv`: a request is counted exactly from the step that counts it, its limit
  is that of a plan held, and where it stands tells what its conversation holds
  (`WritingHolds`). For `QuotaIsKept`, the rows of any window that contains the new
  row's time are among those the transaction counted, since it counts without an upper end;
  for months this needs `MonthsAreOrdered`. `ConversationsStayWhole` follows as well.

Only checked by TLC:

* liveness (`ReservationsClose`, `ProcessingEnds`, `DeliveriesSettle`,
  `SubmissionsSettle`, `EventsSettle`), which is out of the prover's reach;
* what fails: `DenialAfterGrant` across the end of a month, `RowConverges` within a
  second, `OwnerKept` and `WorkersKeepValidObjects` are not theorems but [disagreements](#disagreements-with-the-documentation).

## Disagreements with the documentation

* `ledger_first_request`. `docs/usage-credits.md:32` says that the allowance is
  granted on the first AI request of a UTC month. Grant and reservation each read
  the clock (`credits.ts:95` and `:166`). If the month ends between them the
  allowance goes to the old month and the request is refused in the new one,
  which has none.
* `files_transient_head`. `docs/storage-jobs.md:143` says that violations of size
  or type delete the object and that transient failures are retried. In
  `apps/worker/src/index.ts:45` HEAD is inside the try block of the validation: a
  transient failure of HEAD deletes a valid object and completes the job. The
  completion handler does the same.
* `subscription_same_second`. `docs/billing.md:49` says that different events created
  in the same second converge on the same authoritative state. The update of
  the row (`packages/db/src/billing.ts:140`) admits an equal timestamp, so a
  handler that retrieved the subscription before the second change of a second and
  writes after the handler of that change puts the older state back, and all events are
  processed.
* `workspace_last_owner`. `docs/identity.md:30` lists, among the invariants that the
  organization hooks enforce (line 28), that a workspace must always keep at least one owner, and
  `apps/web/lib/auth.ts:71` refuses with the same words. The hook counts the owners and returns,
  and the library writes later. Two owners who step down or are removed at the
  same time each count the other one, and the workspace is left without an owner.

## Limits

* One workspace at a time. Queries are scoped by the workspace id; that the
  scope is complete is not modelled.
* The isolation level is PostgreSQL's read committed. A statement is atomic; a
  transaction without a lock in which only one statement matters is one step.
* Amounts are small integers; rounding of prices and the 64-bit range of
  PostgreSQL are not modelled.
* pg-boss, PostgreSQL, the object store and the providers are modelled by what
  the code relies on and marked external in the map.
* Message contents, retrieval scores, prices, names, URLs and signatures are
  abstracted; endpoint secrets and their rotation are left out.
* The five minutes of a lease are taken to be shorter than the expiration of
  a job, as they are in the code (`Expire`, `Timeout`), and the provider's
  memory of identifiers longer than any call or job (`Forget`).
* Reads that belong together and of which only one matters are one step; where two
  matter, they are two (`ReadAllowance` and `CommitRows`, the reads of the hooks).
* The months a reconciliation refuses, the limit of 500 rows of a listing (`metering.ts:167`), the
  mapping of customers, the page of the portal itself (its plan changes are changes at the
  provider), leaving a workspace and cancelling an invitation are not modelled.
* `docs/ai-runtime.md:105` says that archiving makes a conversation read-only until it is restored.
  The chat handler checks that when the request comes in; a request that is under way then
  still writes its question and its answer. No property is about it.
* A client may PUT with a URL that is still valid after its file was deleted; the
  object that stays in the bucket is outside `FileLifecycle`.

Not modelled at all, with the reason in `PROJECT.json`: the audit log and the
telemetry, which nothing reads back to decide on; text extraction, chunking,
embeddings, contracts and `packages/platform-security`, which are functions without state;
the pages, the mobile application, migrations and scripts.
