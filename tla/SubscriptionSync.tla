-------------------------- MODULE SubscriptionSync --------------------------
(***************************************************************************)
(* The subscription of one organization: the checkout and portal routes,   *)
(* the webhook route of the payment provider                               *)
(* (apps/web/app/api/webhooks/stripe/route.ts) with the claims of its      *)
(* events, and the one row that decides the plan                           *)
(* (packages/db/src/billing.ts).                                           *)
(*                                                                         *)
(* The provider keeps the subscriptions.  It makes events of them, each    *)
(* stamped with the second it happened in, and delivers an event until it  *)
(* is answered with success, in any order and perhaps twice at a time.  A  *)
(* handler uses the event only to know which subscription to retrieve.     *)
(* The log keeps what the subscription was at each event.                  *)
(***************************************************************************)
EXTENDS Integers, Sequences

CONSTANTS
  Plans,      \* paid plans; the checkout of a plan makes one subscription,
              \* which is named by this plan and may change to another one
  Handlers,   \* concurrent requests of the webhook route
  NoPlan,     \* the row before the first subscription
  Upgrades,   \* bound: plans that a subscription may be changed to
  Outcomes,   \* bound: statuses that a subscription may get
  MaxChanges, \* bound on the events of the provider
  MaxFaults   \* bound on crashes, ended leases and failed calls

ASSUME NamesAssumption == NoPlan \notin Plans
ASSUME BoundsAssumption == {MaxChanges, MaxFaults} \subseteq Nat

Statuses == {"active", "past_due", "canceled"}
ASSUME OutcomesAssumption == Upgrades \subseteq Plans /\ Outcomes \subseteq Statuses

Events == 1 .. MaxChanges
NoEvent == 0

VARIABLES
  log,        \* events at the provider: subscription, its plan and status, second
  checkout,   \* per plan: the checkout session
  answered,   \* events that were answered with success
  claim,      \* webhook_event, per event
  row,        \* subscription: which one, as of which event, provider_updated_at
  pc,         \* per handler: where it stands
  event,      \* per handler: the event it works on
  current,    \* per handler: the event whose state it has retrieved
  overlapped, \* two subscriptions were alive at the same time
  shrugged,   \* events answered with success because another handler had them
  hit,        \* events of which a handler failed, died or was slow
  faults

provider == << log, checkout, overlapped >>
handlers == << pc, event, current >>
trouble == << hit, faults >>
vars == << provider, answered, claim, row, handlers, shrugged, trouble >>

Changes == [sub : Plans, plan : Plans, status : Statuses, second : Nat]
Logged == 1 .. Len(log)

Init ==
  /\ log = << >>
  /\ checkout = [p \in Plans |-> "none"]
  /\ answered = {}
  /\ claim = [n \in Events |-> "none"]
  /\ row = [sub |-> NoPlan, at |-> 0, updated |-> 0]
  /\ pc = [h \in Handlers |-> "idle"]
  /\ event = [h \in Handlers |-> NoEvent]
  /\ current = [h \in Handlers |-> NoEvent]
  /\ overlapped = FALSE
  /\ shrugged = {}
  /\ hit = {}
  /\ faults = 0

-----------------------------------------------------------------------------
(***************************************************************************)
(* The provider and the routes that send people there.                     *)
(***************************************************************************)
\* The last event of a subscription in a log.
IsLatest(l, u, n) ==
  /\ n \in 1 .. Len(l) /\ l[n].sub = u
  /\ \A m \in 1 .. Len(l) : l[m].sub = u => m <= n

Alive(l, u) == \E n \in 1 .. Len(l) : IsLatest(l, u, n) /\ l[n].status # "canceled"

\* The plan p is paid for, by a subscription that is active.
Paying(p) ==
  \E n \in Logged : IsLatest(log, log[n].sub, n) /\ log[n].plan = p /\ log[n].status = "active"

ProviderStep == UNCHANGED << answered, claim, row, handlers, shrugged, trouble >>

\* hasManageableExistingSubscription
Manageable == row.sub # NoPlan /\ log[row.at].status # "canceled"

\* paidPlanForSubscription
EffectivePlan ==
  IF row.sub # NoPlan /\ log[row.at].status = "active" THEN log[row.at].plan ELSE NoPlan

\* The checkout route: the row is looked at, then the provider opens a session,
\* which stays open; it is the same one if a plan is asked for again.
OpenCheckout(p) ==
  /\ ~Manageable
  /\ checkout[p] = "none" /\ checkout' = [checkout EXCEPT ![p] = "open"]
  /\ UNCHANGED << log, overlapped >> /\ ProviderStep

\* An event happens in the second of the one before, or in a later one.
Seconds == IF log = << >> THEN {1} ELSE {log[Len(log)].second, log[Len(log)].second + 1}

Change(u, p, s) ==
  /\ Len(log) < MaxChanges
  /\ \E t \in Seconds :
       log' = Append(log, [sub |-> u, plan |-> p, status |-> s, second |-> t])
  /\ overlapped' = (overlapped \/ \E v \in Plans \ {u} : Alive(log', u) /\ Alive(log', v))
  /\ ProviderStep

PayCheckout(p) ==
  /\ checkout[p] = "open" /\ checkout' = [checkout EXCEPT ![p] = "paid"]
  /\ Change(p, p, "active")

\* An invoice is paid or not, the plan is changed or the subscription ended in
\* the customer portal; or one more event that finds the subscription as it was.
ChangeSubscription(u, p, s) ==
  /\ \E n \in Logged : /\ IsLatest(log, u, n) /\ log[n].status # "canceled"
                       /\ p = log[n].plan \/ (p \in Upgrades /\ s # "canceled")
  /\ Change(u, p, s)
  /\ UNCHANGED checkout

-----------------------------------------------------------------------------
(***************************************************************************)
(* The webhook route.  A request ends with an answer, or with none.        *)
(***************************************************************************)
RouteStep == UNCHANGED provider

Faulty(n) ==
  /\ faults < MaxFaults /\ faults' = faults + 1
  /\ hit' = hit \cup {n}

Idle(h) ==
  /\ pc' = [pc EXCEPT ![h] = "idle"]
  /\ event' = [event EXCEPT ![h] = NoEvent]
  /\ current' = [current EXCEPT ![h] = NoEvent]

\* webhookClaimDecision; the conditional update decides the same.
Retryable(n) == claim[n] \in {"none", "stale", "failed"}

\* The event is claimed, or answered at once as a duplicate or as busy.
Claim(h, n) ==
  /\ pc[h] = "idle"
  /\ n \in Logged \ answered
  /\ \/ /\ Retryable(n)
        /\ claim' = [claim EXCEPT ![n] = "processing"]
        /\ pc' = [pc EXCEPT ![h] = "retrieve"]
        /\ event' = [event EXCEPT ![h] = n]
        /\ UNCHANGED << current, answered, shrugged >>
     \/ /\ ~Retryable(n)
        /\ answered' = answered \cup {n}
        /\ shrugged' = IF claim[n] = "processing" THEN shrugged \cup {n} ELSE shrugged
        /\ UNCHANGED << claim, handlers >>
  /\ UNCHANGED << row, trouble >> /\ RouteStep

\* applyAuthoritativeSubscription: the subscription as it is now.
Retrieve(h) ==
  /\ pc[h] = "retrieve" /\ pc' = [pc EXCEPT ![h] = "sync"]
  /\ \E n \in Logged :
       IsLatest(log, log[event[h]].sub, n) /\ current' = [current EXCEPT ![h] = n]
  /\ UNCHANGED << event, answered, claim, row, shrugged, trouble >> /\ RouteStep

SyncWhen(h, applies) ==
  /\ pc[h] = "sync" /\ pc' = [pc EXCEPT ![h] = "complete"]
  /\ \/ /\ applies
        /\ row' = [sub |-> log[event[h]].sub, at |-> current[h],
                   updated |-> log[event[h]].second]
     \/ ~applies /\ UNCHANGED row
  /\ current' = [current EXCEPT ![h] = NoEvent]
  /\ UNCHANGED << event, answered, claim, shrugged, trouble >> /\ RouteStep

\* Mutant: the update is not conditional.
SyncAlways(h) == SyncWhen(h, TRUE)

\* syncStripeSubscription: provider_updated_at is null or not later.
Sync(h) == SyncWhen(h, row.updated <= log[event[h]].second)

Answer(h, mark) ==
  /\ claim' = [claim EXCEPT ![event[h]] = mark]
  /\ Idle(h)

Complete(h) ==
  /\ pc[h] = "complete"
  /\ Answer(h, "processed")
  /\ answered' = answered \cup {event[h]}
  /\ UNCHANGED << row, shrugged, trouble >> /\ RouteStep

\* Mutant: what failed is answered with success.
FailAnswered(h) ==
  /\ pc[h] \in {"retrieve", "sync", "complete"}
  /\ Answer(h, IF claim[event[h]] = "processed" THEN "processed" ELSE "failed")
  /\ answered' = answered \cup {event[h]}
  /\ Faulty(event[h])
  /\ UNCHANGED << row, shrugged >> /\ RouteStep

\* Mutant: an event that failed is completed.
FailCompleted(h) ==
  /\ pc[h] \in {"retrieve", "sync", "complete"}
  /\ Answer(h, "processed")
  /\ Faulty(event[h])
  /\ UNCHANGED << row, answered, shrugged >> /\ RouteStep

\* A call throws: failWebhookEvent records it, the answer is 500.  The record
\* of an event that was processed meanwhile stays processed.
Fail(h) ==
  /\ pc[h] \in {"retrieve", "sync", "complete"}
  /\ Answer(h, IF claim[event[h]] = "processed" THEN "processed" ELSE "failed")
  /\ Faulty(event[h])
  /\ UNCHANGED << row, answered, shrugged >> /\ RouteStep

\* The process dies, or the failure cannot be recorded either.
Crash(h) ==
  /\ pc[h] # "idle"
  /\ Idle(h)
  /\ Faulty(event[h])
  /\ UNCHANGED << answered, claim, row, shrugged >> /\ RouteStep

\* Five minutes after the claim; a handler that still runs is slow.
EndLease(n) ==
  /\ claim[n] = "processing" /\ claim' = [claim EXCEPT ![n] = "stale"]
  /\ IF \E h \in Handlers : event[h] = n THEN Faulty(n) ELSE UNCHANGED trouble
  /\ UNCHANGED << answered, row, handlers, shrugged >> /\ RouteStep

-----------------------------------------------------------------------------
Handle(h) == Retrieve(h) \/ Sync(h) \/ Complete(h)

Next ==
  \/ \E p \in Plans : OpenCheckout(p) \/ PayCheckout(p)
  \/ \E u, p \in Plans, s \in Outcomes : ChangeSubscription(u, p, s)
  \/ \E h \in Handlers, n \in Events : Claim(h, n)
  \/ \E h \in Handlers : Handle(h) \/ Fail(h) \/ Crash(h)
  \/ \E n \in Events : EndLease(n)

Spec == Init /\ [][Next]_vars

\* The provider delivers until it is answered, handlers go on, time passes.
Fairness ==
  /\ \A n \in Events : WF_vars(\E h \in Handlers : Claim(h, n)) /\ WF_vars(EndLease(n))
  /\ \A h \in Handlers : WF_vars(Handle(h))

FairSpec == Spec /\ Fairness

-----------------------------------------------------------------------------
(***************************************************************************)
(* Properties.                                                             *)
(***************************************************************************)

TypeOK ==
  /\ log \in Seq(Changes) /\ Len(log) <= MaxChanges
  /\ checkout \in [Plans -> {"none", "open", "paid"}]
  /\ answered \subseteq Logged
  /\ claim \in [Events -> {"none", "processing", "stale", "failed", "processed"}]
  /\ row \in [sub : Plans \cup {NoPlan}, at : Logged \cup {NoEvent}, updated : Nat]
  /\ pc \in [Handlers -> {"idle", "retrieve", "sync", "complete"}]
  /\ event \in [Handlers -> Logged \cup {NoEvent}]
  /\ current \in [Handlers -> Logged \cup {NoEvent}]
  /\ overlapped \in BOOLEAN
  /\ shrugged \subseteq answered
  /\ hit \subseteq Logged
  /\ faults \in 0 .. MaxFaults

\* The row shows its own subscription, as it was in the second of its stamp or
\* later: no event of an earlier second is missing.
RowIsFresh ==
  /\ row.sub = NoPlan <=> row.at = NoEvent
  /\ row.sub # NoPlan => log[row.at].sub = row.sub
  /\ \A n \in Logged : log[n].sub = row.sub /\ log[n].second < row.updated => n <= row.at

\* Once an event is processed the row never goes behind its second again, in
\* whatever order the handlers write.
ProcessedIsReflected ==
  \A n \in Logged : claim[n] = "processed" => log[n].second <= row.updated

\* The row in step with the provider, from any interleaving of the handlers.
SyncInv == TypeOK /\ RowIsFresh /\ ProcessedIsReflected

AllProcessed == Logged # {} /\ \A n \in Logged : claim[n] = "processed"

\* What happens in one second is one change, with any number of events.
SecondsAgree == \A m, n \in Logged : log[m].second = log[n].second => log[m] = log[n]

\* When every event is processed, the organization has only a plan that it pays
\* for, and has it whenever it pays unless two subscriptions were alive at once; as
\* long as no two changes share a second.
PaidIsServed ==
  AllProcessed /\ SecondsAgree =>
    \A p \in Plans : /\ EffectivePlan = p => Paying(p)
                     /\ Paying(p) /\ ~overlapped => EffectivePlan = p

\* Every event is processed in the end and stays so, however often handlers
\* fail; only one that was answered while another handler held it may be lost,
\* and only if a handler of it failed, died or was slow.
EventsSettle ==
  <>[](\A n \in Logged : claim[n] = "processed" \/ (n \in shrugged /\ n \in hit))

\* "Replay of different events created in the same second converge on the same
\* authoritative subscription state": what the row shows when all is processed.
RowConverges ==
  AllProcessed /\ ~overlapped =>
    \E n \in Logged : /\ IsLatest(log, row.sub, n)
                      /\ log[row.at].plan = log[n].plan /\ log[row.at].status = log[n].status
=============================================================================
