----------------------- MODULE SubscriptionSyncProofs -----------------------
(***************************************************************************)
(* Machine-checked proofs about SubscriptionSync, for any number of plans, *)
(* handlers, changes and faults.                                           *)
(***************************************************************************)
EXTENDS SubscriptionSync, SequenceTheorems, TLAPS

\* The provider's seconds do not go back, and the row has one of them.
SecondsInOrder ==
  /\ \A n \in Logged : log[n].second > 0
  /\ \A m, n \in Logged : m <= n => log[m].second <= log[n].second
  /\ row.updated # 0 => \E n \in Logged : log[n].second = row.updated

\* A handler works on an event that happened.  What it has retrieved is the state
\* of the same subscription after this event, or after a later one; when it has
\* written, the row is not behind the event.
HandlersHold ==
  \A h \in Handlers :
    /\ pc[h] # "idle" => event[h] \in Logged
    /\ pc[h] = "sync" =>
         /\ current[h] \in Logged /\ event[h] <= current[h]
         /\ log[current[h]].sub = log[event[h]].sub
    /\ pc[h] = "complete" => log[event[h]].second <= row.updated

\* Only what happened is claimed.
ClaimsHappened == \A n \in Events : claim[n] # "none" => n \in Logged

IInv == SyncInv /\ SecondsInOrder /\ HandlersHold /\ ClaimsHappened

\* Nothing has happened and the row stands for no subscription.
LEMMA InitIInv == Init => IInv
<1> SUFFICES ASSUME Init
             PROVE  IInv
  OBVIOUS
<1>1. Logged = {} /\ log \in Seq(Changes) /\ Len(log) = 0
  BY DEF Init, Logged
<1>2. TypeOK
  <2>1. /\ claim \in [Events -> {"none", "processing", "stale", "failed", "processed"}]
        /\ checkout \in [Plans -> {"none", "open", "paid"}]
    BY DEF Init
  <2>2. /\ pc \in [Handlers -> {"idle", "retrieve", "sync", "complete"}]
        /\ event \in [Handlers -> Logged \cup {NoEvent}]
        /\ current \in [Handlers -> Logged \cup {NoEvent}]
    BY DEF Init
  <2>3. row \in [sub : Plans \cup {NoPlan}, at : Logged \cup {NoEvent}, updated : Nat]
    BY DEF Init, NoEvent
  <2>4. Len(log) <= MaxChanges /\ faults \in 0 .. MaxFaults
    BY <1>1, BoundsAssumption DEF Init
  <2> QED
    BY <1>1, <2>1, <2>2, <2>3, <2>4 DEF Init, TypeOK
<1>3. RowIsFresh /\ ProcessedIsReflected /\ SecondsInOrder
  BY <1>1 DEF Init, RowIsFresh, ProcessedIsReflected, SecondsInOrder, NoEvent
<1>4. HandlersHold /\ ClaimsHappened
  BY DEF Init, HandlersHold, ClaimsHappened
<1> QED
  BY <1>2, <1>3, <1>4 DEF IInv, SyncInv

\* The log with one more change, in second t.
Extended(u, p, s, t) ==
  LET new == Len(log) + 1
  IN  /\ log' \in Seq(Changes) /\ Len(log') = new
      /\ \A n \in Logged : log'[n] = log[n]
      /\ log'[new] = [sub |-> u, plan |-> p, status |-> s, second |-> t]
      /\ Logged' = Logged \cup {new} /\ new \notin Logged
      /\ \A n \in Logged : n < new /\ log[n].second <= t

\* A change comes last, in the second of the one before or in a later one.
LEMMA LogGrows ==
  ASSUME TypeOK, SecondsInOrder,
         NEW u \in Plans, NEW p \in Plans, NEW s \in Statuses, Change(u, p, s)
  PROVE  \E t \in Nat : t > 0 /\ Extended(u, p, s, t)
<1> USE DEF TypeOK
<1>1. PICK t \in Seconds : log' = Append(log, [sub |-> u, plan |-> p, status |-> s, second |-> t])
  BY DEF Change
<1> DEFINE new == Len(log) + 1
<1>2. /\ Len(log) \in Nat /\ log \in Seq(Changes)
      /\ \A n \in Logged : n \in 1 .. Len(log) /\ log[n].second \in Nat
  <2>1. Len(log) \in Nat /\ log \in Seq(Changes)
    BY LenProperties
  <2>2. \A n \in Logged : log[n] \in Changes
    BY <2>1, ElementOfSeq DEF Logged
  <2> QED
    BY <2>1, <2>2 DEF Logged, Changes
<1>3. t \in Nat /\ \A n \in Logged : log[n].second <= t
  <2>1. CASE log = << >>
    BY <2>1 DEF Seconds, Logged
  <2>2. CASE log # << >>
    <3>1. Len(log) \in Logged
      BY <1>2, <2>2, EmptySeq DEF Logged
    <3>2. t >= log[Len(log)].second /\ t \in Nat
      BY <1>2, <2>2, <3>1 DEF Seconds
    <3>3. \A n \in Logged : log[n].second <= log[Len(log)].second
      BY <1>2, <3>1 DEF SecondsInOrder
    <3> QED
      BY <1>2, <3>1, <3>2, <3>3
  <2> QED
    BY <2>1, <2>2
<1>4. t > 0
  <2>1. CASE log = << >>
    BY <2>1 DEF Seconds
  <2>2. CASE log # << >>
    <3>1. Len(log) \in Logged
      BY <1>2, <2>2, EmptySeq DEF Logged
    <3> QED
      BY <1>2, <1>3, <2>2, <3>1 DEF Seconds, SecondsInOrder
  <2> QED
    BY <2>1, <2>2
<1>5. [sub |-> u, plan |-> p, status |-> s, second |-> t] \in Changes
  BY <1>3 DEF Changes
<1>6. /\ log' \in Seq(Changes) /\ Len(log') = new
      /\ \A n \in Logged : log'[n] = log[n]
      /\ log'[new] = [sub |-> u, plan |-> p, status |-> s, second |-> t]
  BY <1>1, <1>2, <1>5, AppendProperties DEF Logged
<1>7. Logged' = Logged \cup {new} /\ new \notin Logged /\ \A n \in Logged : n < new
  BY <1>2, <1>6 DEF Logged
<1> QED
  BY <1>3, <1>4, <1>6, <1>7 DEF Extended

LEMMA ChangeStep ==
  ASSUME IInv, NEW u \in Plans, NEW p \in Plans, NEW s \in Statuses, Change(u, p, s),
         checkout' \in [Plans -> {"none", "open", "paid"}]
  PROVE  IInv'
<1> USE DEF IInv, SyncInv, TypeOK
<1>1. PICK t \in Nat : t > 0 /\ Extended(u, p, s, t)
  BY LogGrows
<1> DEFINE new == Len(log) + 1
<1>2. /\ Len(log) \in Nat /\ \A n \in Logged : n \in 1 .. Len(log) /\ log[n].second \in Nat
  <2>1. Len(log) \in Nat
    BY LenProperties
  <2>2. \A n \in Logged : log[n] \in Changes
    BY <2>1, ElementOfSeq DEF Logged
  <2> QED
    BY <2>1, <2>2 DEF Logged, Changes
<1>3. \A n \in Logged : log[n].second <= t
  BY <1>1 DEF Extended
<1>5. /\ log' \in Seq(Changes) /\ Len(log') = new
      /\ \A n \in Logged : log'[n] = log[n]
      /\ log'[new].second = t
  BY <1>1 DEF Extended
<1>6. Logged' = Logged \cup {new} /\ new \notin Logged /\ \A n \in Logged : n < new
  BY <1>1 DEF Extended
<1>7. UNCHANGED << answered, claim, row, handlers, shrugged, trouble >>
      /\ Len(log') <= MaxChanges
  BY <1>2, <1>5, BoundsAssumption DEF Change, ProviderStep
<1>8. overlapped' \in BOOLEAN
  BY DEF Change
<1>9. TypeOK'
  BY <1>5, <1>6, <1>7, <1>8 DEF handlers, trouble
<1>10. row.updated <= t
  BY <1>3 DEF SecondsInOrder
<1>11. RowIsFresh'
  BY <1>3, <1>5, <1>6, <1>7, <1>10 DEF RowIsFresh, NoEvent
<1>12. ProcessedIsReflected'
  <2>1. new \in Events => claim[new] = "none"
    BY <1>6 DEF ClaimsHappened
  <2>2. new \in Events
    BY <1>2, <1>5, <1>7 DEF Events
  <2> QED
    BY <1>5, <1>6, <1>7, <2>1, <2>2 DEF ProcessedIsReflected
<1>13. SecondsInOrder'
  <2>1. ASSUME NEW m \in Logged', NEW n \in Logged', m <= n
        PROVE  log'[m].second <= log'[n].second
    <3>1. CASE n \in Logged
      <4>1. m \in Logged
        BY <1>2, <1>6, <2>1, <3>1 DEF Logged
      <4> QED
        BY <1>5, <2>1, <3>1, <4>1 DEF SecondsInOrder
    <3>2. CASE n = new
      <4>1. log'[m].second <= t
        BY <1>3, <1>5, <1>6, <2>1
      <4> QED
        BY <1>5, <3>2, <4>1
    <3> QED
      BY <1>6, <3>1, <3>2
  <2>2. row'.updated # 0 => \E n \in Logged' : log'[n].second = row'.updated
    BY <1>5, <1>6, <1>7 DEF SecondsInOrder
  <2>3. \A n \in Logged' : log'[n].second > 0
    BY <1>1, <1>5, <1>6 DEF SecondsInOrder
  <2> QED
    BY <2>1, <2>2, <2>3 DEF SecondsInOrder
<1>14. HandlersHold' /\ ClaimsHappened'
  BY <1>5, <1>6, <1>7 DEF HandlersHold, ClaimsHappened, handlers
<1> QED
  BY <1>9, <1>11, <1>12, <1>13, <1>14

\* What the proofs need to know of the log.
LEMMA LogIsTyped ==
  ASSUME TypeOK
  PROVE  /\ Logged \subseteq Nat \ {NoEvent}
         /\ \A n \in Logged : log[n].sub \in Plans /\ log[n].second \in Nat
<1>1. Len(log) \in Nat
  BY LenProperties DEF TypeOK
<1>2. \A n \in Logged : log[n] \in Changes
  BY <1>1, ElementOfSeq DEF TypeOK, Logged
<1> QED
  BY <1>1, <1>2 DEF Logged, Changes, NoEvent

\* A handler that moves on, with the row unchanged.
LEMMA HandlerStep ==
  ASSUME IInv, UNCHANGED << provider, row >>,
         /\ answered' \subseteq Logged /\ shrugged' \subseteq answered'
         /\ hit' \subseteq Logged /\ faults' \in 0 .. MaxFaults
         /\ claim' \in [Events -> {"none", "processing", "stale", "failed", "processed"}]
         /\ pc' \in [Handlers -> {"idle", "retrieve", "sync", "complete"}]
         /\ event' \in [Handlers -> Logged \cup {NoEvent}]
         /\ current' \in [Handlers -> Logged \cup {NoEvent}],
         \A n \in Events :
           \/ claim'[n] = claim[n]
           \/ /\ n \in Logged
              /\ claim'[n] = "processed" => log[n].second <= row.updated,
         HandlersHold'
  PROVE  IInv'
<1> USE DEF IInv, SyncInv, provider
<1>1. Logged' = Logged
  BY DEF Logged
<1>2. TypeOK'
  BY <1>1 DEF TypeOK
<1>3. RowIsFresh' /\ SecondsInOrder'
  BY <1>1 DEF RowIsFresh, SecondsInOrder
<1>4. Logged \subseteq Events
  <2>1. Len(log) \in Nat /\ Len(log) <= MaxChanges
    BY LenProperties DEF TypeOK
  <2> QED
    BY <2>1, BoundsAssumption DEF Logged, Events
<1>5. ProcessedIsReflected' /\ ClaimsHappened'
  BY <1>1, <1>4 DEF ProcessedIsReflected, ClaimsHappened
<1> QED
  BY <1>2, <1>3, <1>5

\* An event is claimed or answered at once.
LEMMA ClaimStep ==
  ASSUME IInv, NEW h \in Handlers, NEW n \in Events, Claim(h, n)
  PROVE  IInv'
<1> USE DEF IInv, SyncInv, TypeOK
<1>1. UNCHANGED << provider, row, trouble >> /\ n \in Logged
  BY DEF Claim, RouteStep
<1>2. Logged' = Logged
  BY <1>1 DEF Logged, provider
<1>3. CASE Retryable(n)
  <2>1. /\ claim' = [claim EXCEPT ![n] = "processing"]
        /\ pc' = [pc EXCEPT ![h] = "retrieve"]
        /\ event' = [event EXCEPT ![h] = n]
        /\ UNCHANGED << current, answered, shrugged >>
    BY <1>3 DEF Claim
  <2>2. HandlersHold'
    BY <1>1, <1>2, <2>1 DEF HandlersHold, provider
  <2> QED
    BY <1>1, <2>1, <2>2, HandlerStep DEF trouble
<1>4. CASE ~Retryable(n)
  <2>1. /\ answered' = answered \cup {n} /\ shrugged' \subseteq shrugged \cup {n}
        /\ UNCHANGED << claim, pc, event, current >>
    BY <1>4 DEF Claim, handlers
  <2>2. HandlersHold'
    BY <1>1, <1>2, <2>1 DEF HandlersHold, provider
  <2> QED
    BY <1>1, <2>1, <2>2, HandlerStep DEF trouble
<1> QED
  BY <1>3, <1>4

\* The latest change of the subscription is not before the event's own.
LEMMA RetrieveStep ==
  ASSUME IInv, NEW h \in Handlers, Retrieve(h)
  PROVE  IInv'
<1> USE DEF IInv, SyncInv, TypeOK, Retrieve
<1>1. UNCHANGED << provider, row, trouble, claim, answered, shrugged, event >>
      /\ event[h] \in Logged
  BY DEF RouteStep, HandlersHold
<1>2. PICK n \in Logged : /\ IsLatest(log, log[event[h]].sub, n)
                          /\ current' = [current EXCEPT ![h] = n]
  BY DEF Retrieve
<1>3. log[n].sub = log[event[h]].sub /\ event[h] <= n
  BY <1>1, <1>2 DEF IsLatest, Logged
<1>4. Logged' = Logged
  BY <1>1 DEF Logged, provider
<1>5. HandlersHold'
  BY <1>1, <1>2, <1>3, <1>4 DEF HandlersHold, provider
<1> QED
  BY <1>1, <1>2, <1>5, HandlerStep DEF trouble

\* The row is written only by an event that is not older than it.
LEMMA SyncStep ==
  ASSUME IInv, NEW h \in Handlers, Sync(h)
  PROVE  IInv'
<1> USE DEF IInv, SyncInv
<1> DEFINE e == event[h]
<1>1. /\ UNCHANGED << provider, trouble, claim, answered, shrugged, event >>
      /\ current' = [current EXCEPT ![h] = NoEvent]
      /\ pc' = [pc EXCEPT ![h] = "complete"]
      /\ e \in Logged /\ current[h] \in Logged /\ e <= current[h]
      /\ log[current[h]].sub = log[e].sub
  BY DEF Sync, SyncWhen, RouteStep, HandlersHold
<1>2. /\ Logged \subseteq Nat \ {NoEvent}
      /\ \A n \in Logged : log[n].sub \in Plans /\ log[n].second \in Nat
      /\ row.updated \in Nat
  BY LogIsTyped DEF TypeOK
<1>3. Logged' = Logged /\ log' = log
  BY <1>1 DEF Logged, provider
<1>4. \/ /\ row.updated <= log[e].second
         /\ row' = [sub |-> log[e].sub, at |-> current[h], updated |-> log[e].second]
      \/ log[e].second < row.updated /\ row' = row
  <2>1. log[e].second \in Nat /\ row.updated \in Nat
    BY <1>1, <1>2
  <2>2. \/ /\ row.updated <= log[e].second
           /\ row' = [sub |-> log[e].sub, at |-> current[h], updated |-> log[e].second]
        \/ ~(row.updated <= log[e].second) /\ row' = row
    BY DEF Sync, SyncWhen
  <2> QED
    BY <2>1, <2>2
<1>5. row.updated <= row'.updated /\ log[e].second <= row'.updated /\ row'.updated \in Nat
  <2>1. log[e].second \in Nat /\ row.updated \in Nat
    BY <1>1, <1>2
  <2>2. row'.updated = log[e].second \/ row'.updated = row.updated
    BY <1>4
  <2> QED
    BY <1>4, <2>1, <2>2
<1>6. TypeOK'
  <2>1. row' \in [sub : Plans \cup {NoPlan}, at : Logged \cup {NoEvent}, updated : Nat]
    <3>1. log[e].sub \in Plans /\ log[e].second \in Nat
      BY <1>1, <1>2
    <3> QED
      BY <1>1, <1>4, <3>1 DEF TypeOK
  <2> QED
    BY <1>1, <1>3, <2>1 DEF TypeOK, provider, trouble
<1>7. RowIsFresh'
  <2>1. CASE row' = row
    BY <1>3, <2>1 DEF RowIsFresh
  <2>2. CASE row' = [sub |-> log[e].sub, at |-> current[h], updated |-> log[e].second]
    <3>1. log[e].sub # NoPlan /\ current[h] # NoEvent
      BY <1>1, <1>2, NamesAssumption
    <3>2. ASSUME NEW n \in Logged, log[n].second < log[e].second
          PROVE  n <= current[h]
      <4>1. ~(e <= n)
        <5>1. n \in Logged /\ e \in Logged
          BY <1>1, <3>2
        <5>2. log[n].second \in Nat /\ log[e].second \in Nat
          BY <1>2, <5>1
        <5>3. \A m, k \in Logged : m <= k => log[m].second <= log[k].second
          BY DEF IInv, SecondsInOrder
        <5>4. e <= n => log[e].second <= log[n].second
          BY ONLY <5>1, <5>3
        <5> QED
          BY ONLY <3>2, <5>2, <5>4
      <4>2. {n, e, current[h]} \subseteq Nat
        BY <1>1, <1>2
      <4> QED
        BY <1>1, <4>1, <4>2
    <3> QED
      BY <1>1, <1>3, <2>2, <3>1, <3>2 DEF RowIsFresh
  <2> QED
    BY <1>4, <2>1, <2>2
<1>8. ProcessedIsReflected'
  BY <1>1, <1>2, <1>3, <1>5 DEF ProcessedIsReflected
<1>9. SecondsInOrder'
  BY <1>1, <1>3, <1>4 DEF SecondsInOrder
<1>10. HandlersHold'
  <2>1. pc \in [Handlers -> {"idle", "retrieve", "sync", "complete"}]
    BY DEF TypeOK
  <2>2. ASSUME NEW g \in Handlers, pc[g] = "complete"
        PROVE  log[event[g]].second <= row'.updated
    <3>1. event[g] \in Logged /\ log[event[g]].second <= row.updated
      BY <2>2 DEF HandlersHold
    <3>2. log[event[g]].second \in Nat /\ row.updated \in Nat
      BY <1>2, <3>1
    <3> QED
      BY <1>5, <3>1, <3>2
  <2> QED
    BY <1>1, <1>3, <1>5, <2>1, <2>2 DEF HandlersHold
<1>11. ClaimsHappened'
  BY <1>1, <1>3 DEF ClaimsHappened
<1> QED
  BY <1>6, <1>7, <1>8, <1>9, <1>10, <1>11

\* A handler ends, with a mark on its event or with none.
LEMMA EndStep ==
  ASSUME IInv, NEW h \in Handlers, Complete(h) \/ Fail(h) \/ Crash(h)
  PROVE  IInv'
<1> USE DEF IInv, SyncInv, TypeOK
<1>1. UNCHANGED << provider, row, shrugged >> /\ Idle(h) /\ event[h] \in Logged
  BY DEF Complete, Fail, Crash, Answer, RouteStep, HandlersHold
<1>2. /\ pc' = [pc EXCEPT ![h] = "idle"] /\ event' = [event EXCEPT ![h] = NoEvent]
      /\ current' = [current EXCEPT ![h] = NoEvent]
  BY <1>1 DEF Idle
<1>3. Logged' = Logged
  BY <1>1 DEF Logged, provider
<1>4. HandlersHold'
  BY <1>1, <1>2, <1>3 DEF HandlersHold, provider
<1>5. PICK mark \in {"none", "processing", "stale", "processed", "failed"} :
        /\ claim' = [claim EXCEPT ![event[h]] = mark]
        /\ \/ mark = "processed" => log[event[h]].second <= row.updated
           \/ mark = claim[event[h]]
  <2>1. event[h] \in Events
    <3>1. Len(log) \in Nat /\ Len(log) <= MaxChanges
      BY LenProperties
    <3> QED
      BY <1>1, <3>1, BoundsAssumption DEF Logged, Events
  <2>2. CASE Complete(h)
    BY <2>2 DEF Complete, Answer, HandlersHold
  <2>3. CASE Fail(h)
    BY <2>3 DEF Fail, Answer
  <2>4. CASE Crash(h)
    <3>1. claim' = [claim EXCEPT ![event[h]] = claim[event[h]]]
      BY <2>4 DEF Crash
    <3> QED
      BY <2>1, <3>1
  <2> QED
    BY <2>2, <2>3, <2>4
<1>6. answered' \subseteq Logged /\ shrugged' \subseteq answered' /\ hit' \subseteq Logged
      /\ faults' \in 0 .. MaxFaults
  BY <1>1, BoundsAssumption DEF Complete, Fail, Crash, Faulty, trouble
<1> QED
  BY <1>1, <1>2, <1>4, <1>5, <1>6, HandlerStep

\* A lease that ends changes only the claim.
LEMMA EndLeaseStep ==
  ASSUME IInv, NEW n \in Events, EndLease(n)
  PROVE  IInv'
<1> USE DEF IInv, SyncInv, TypeOK, EndLease
<1>1. UNCHANGED << provider, row, shrugged, answered, pc, event, current >>
  BY DEF RouteStep, handlers
<1>2. Logged' = Logged /\ n \in Logged
  BY <1>1 DEF Logged, provider, ClaimsHappened
<1>3. HandlersHold'
  BY <1>1, <1>2 DEF HandlersHold, provider
<1>4. hit' \subseteq Logged /\ faults' \in 0 .. MaxFaults
  BY <1>2, BoundsAssumption DEF Faulty, trouble
<1> QED
  BY <1>1, <1>2, <1>3, <1>4, HandlerStep

\* Every change at the provider and every step of a handler.
LEMMA IInvStep == IInv /\ [Next]_vars => IInv'
<1> SUFFICES ASSUME IInv, [Next]_vars
             PROVE  IInv'
  OBVIOUS
<1>1. ASSUME NEW p \in Plans, OpenCheckout(p)
      PROVE  IInv'
  <2>1. UNCHANGED << log, overlapped, answered, claim, row, handlers, shrugged, trouble >>
        /\ checkout' \in [Plans -> {"none", "open", "paid"}]
    BY <1>1 DEF OpenCheckout, ProviderStep, IInv, SyncInv, TypeOK
  <2> QED
    BY <2>1 DEF IInv, SyncInv, TypeOK, RowIsFresh, ProcessedIsReflected, SecondsInOrder,
                HandlersHold, ClaimsHappened, Logged, handlers, trouble
<1>2. ASSUME NEW p \in Plans, PayCheckout(p)
      PROVE  IInv'
  <2>1. checkout' \in [Plans -> {"none", "open", "paid"}]
    BY <1>2 DEF PayCheckout, IInv, SyncInv, TypeOK
  <2> QED
    BY <1>2, <2>1, ChangeStep DEF PayCheckout, Statuses
<1>3. ASSUME NEW u \in Plans, NEW p \in Plans, NEW s \in Outcomes, ChangeSubscription(u, p, s)
      PROVE  IInv'
  BY <1>3, ChangeStep, OutcomesAssumption DEF ChangeSubscription, IInv, SyncInv, TypeOK
<1>4. CASE UNCHANGED vars
  BY <1>4 DEF IInv, SyncInv, TypeOK, RowIsFresh, ProcessedIsReflected, SecondsInOrder,
              HandlersHold, ClaimsHappened, Logged, vars, provider, handlers, trouble
<1> QED
  BY <1>1, <1>2, <1>3, <1>4, ClaimStep, RetrieveStep, SyncStep, EndStep, EndLeaseStep
  DEF Next, Handle

\* The subscription row shows its subscription as it was in the second of its
\* stamp or later, and never goes behind an event that was processed, in whatever
\* order concurrent handlers retrieve and write.
THEOREM RowKeepsUp == Spec => []SyncInv
<1>1. IInv => SyncInv
  BY DEF IInv
<1> QED
  BY <1>1, InitIInv, IInvStep, PTL DEF Spec

-----------------------------------------------------------------------------
(***************************************************************************)
(* Paid is served: the row was written by an event of its subscription, at *)
(* most the last subscription of the log is alive as long as none          *)
(* overlapped, and so the row that reflects the last event decides.        *)
(***************************************************************************)

\* The stamp of the row is the second of an event of its own subscription, and
\* the row shows this event's change or a later one.
RowHasEvent ==
  /\ row.sub = NoPlan => row.updated = 0
  /\ row.sub # NoPlan =>
       \E e \in Logged : /\ log[e].second = row.updated /\ log[e].sub = row.sub
                         /\ e <= row.at

\* Unless two subscriptions overlapped, only the one that changed last can be
\* alive: another one would have been alive together with it.
OnlyLastAlive ==
  ~overlapped => \A p \in Plans : Alive(log, p) => p = log[Len(log)].sub

\* A change of one subscription leaves the others as alive as they were.
LEMMA AliveKept ==
  ASSUME TypeOK, NEW u, NEW p, NEW s, NEW t, Extended(u, p, s, t), NEW q, q # u
  PROVE  Alive(log', q) => Alive(log, q)
<1> DEFINE new == Len(log) + 1
<1> SUFFICES ASSUME NEW n, IsLatest(log', q, n), log'[n].status # "canceled"
             PROVE  Alive(log, q)
  BY DEF Alive
<1>1. /\ 1 .. Len(log') = Logged \cup {new}
      /\ \A m \in Logged : log'[m] = log[m]
      /\ log'[new].sub = u
  BY DEF Extended, Logged
<1>2. n \in Logged /\ log[n].sub = q /\ \A m \in Logged : log[m].sub = q => m <= n
  BY <1>1 DEF IsLatest
<1>3. IsLatest(log, q, n) /\ log[n].status # "canceled"
  BY <1>1, <1>2 DEF IsLatest, Logged
<1> QED
  BY <1>3 DEF Alive, IsLatest

\* The subscription that changed is alive unless it was canceled.
LEMMA AliveNow ==
  ASSUME TypeOK, NEW u, NEW p, NEW s, NEW t, Extended(u, p, s, t), s # "canceled"
  PROVE  Alive(log', u)
<1> DEFINE new == Len(log) + 1
<1>1. /\ 1 .. Len(log') = Logged \cup {new} /\ Len(log') = new
      /\ \A m \in Logged : m < new
      /\ log'[new].sub = u /\ log'[new].status = s
  BY DEF Extended, Logged
<1>2. new \in Nat /\ \A m \in Logged : m \in Nat
  BY LenProperties DEF TypeOK, Logged
<1>3. IsLatest(log', u, new)
  BY <1>1, <1>2 DEF IsLatest
<1> QED
  BY <1>1, <1>3 DEF Alive

LEMMA LastAliveChange ==
  ASSUME IInv, OnlyLastAlive, NEW u \in Plans, NEW p \in Plans, NEW s \in Statuses, Change(u, p, s),
         s = "canceled" => Alive(log, u)
  PROVE  OnlyLastAlive'
<1> SUFFICES ASSUME ~overlapped', NEW q \in Plans, Alive(log', q)
             PROVE  q = log'[Len(log')].sub
  BY DEF OnlyLastAlive
<1>1. PICK t \in Nat : Extended(u, p, s, t)
  BY LogGrows DEF IInv, SyncInv
<1>2. log'[Len(log')].sub = u
  BY <1>1 DEF Extended
<1>3. /\ ~overlapped
      /\ \A r \in Plans \ {u} : ~(Alive(log', u) /\ Alive(log', r))
  BY DEF Change
<1>4. ASSUME q # u PROVE FALSE
  <2>1. ~Alive(log', u)
    BY <1>3, <1>4
  <2>2. s = "canceled"
    BY <1>1, <2>1, AliveNow DEF IInv, SyncInv
  <2>3. Alive(log, u) /\ Alive(log, q)
    BY <1>1, <1>4, <2>2, AliveKept DEF IInv, SyncInv
  <2> QED
    BY <1>3, <1>4, <2>3 DEF OnlyLastAlive
<1> QED
  BY <1>2, <1>4

LEMMA RowHasEventChange ==
  ASSUME IInv, RowHasEvent, NEW u \in Plans, NEW p \in Plans, NEW s \in Statuses, Change(u, p, s)
  PROVE  RowHasEvent'
<1>1. PICK t \in Nat : Extended(u, p, s, t)
  BY LogGrows DEF IInv, SyncInv
<1>2. /\ row' = row /\ Logged \subseteq Logged'
      /\ \A n \in Logged : log'[n] = log[n]
  BY <1>1 DEF Change, ProviderStep, Extended
<1> QED
  BY <1>2 DEF RowHasEvent

\* An event that writes the row is the row's event.
LEMMA RowHasEventSync ==
  ASSUME IInv, RowHasEvent, NEW h \in Handlers, Sync(h)
  PROVE  RowHasEvent'
<1>1. /\ event[h] \in Logged /\ event[h] <= current[h] /\ UNCHANGED provider
      /\ \/ row' = [sub |-> log[event[h]].sub, at |-> current[h],
                    updated |-> log[event[h]].second]
         \/ row' = row
  BY DEF Sync, SyncWhen, RouteStep, IInv, HandlersHold
<1>2. log[event[h]].sub # NoPlan
  BY <1>1, LogIsTyped, NamesAssumption DEF IInv, SyncInv
<1> QED
  BY <1>1, <1>2 DEF RowHasEvent, provider, Logged

LEMMA ServeStep ==
  ASSUME IInv, RowHasEvent, OnlyLastAlive, [Next]_vars
  PROVE  RowHasEvent' /\ OnlyLastAlive'
<1>1. ASSUME UNCHANGED << log, overlapped, row >>
      PROVE  RowHasEvent' /\ OnlyLastAlive'
  BY <1>1 DEF RowHasEvent, OnlyLastAlive, Logged
<1>2. ASSUME NEW p \in Plans, PayCheckout(p)
      PROVE  RowHasEvent' /\ OnlyLastAlive'
  BY <1>2, LastAliveChange, RowHasEventChange DEF PayCheckout, Statuses
<1>3. ASSUME NEW u \in Plans, NEW p \in Plans, NEW s \in Outcomes, ChangeSubscription(u, p, s)
      PROVE  RowHasEvent' /\ OnlyLastAlive'
  <2>1. Alive(log, u) /\ s \in Statuses
    BY <1>3, OutcomesAssumption DEF ChangeSubscription, Alive, Logged
  <2> QED
    BY <1>3, <2>1, LastAliveChange, RowHasEventChange DEF ChangeSubscription
<1>4. ASSUME NEW h \in Handlers, Sync(h)
      PROVE  RowHasEvent' /\ OnlyLastAlive'
  <2>1. UNCHANGED << log, overlapped >>
    BY <1>4 DEF Sync, SyncWhen, RouteStep, provider
  <2> QED
    BY <1>4, <2>1, RowHasEventSync DEF OnlyLastAlive
<1> QED
  BY <1>1, <1>2, <1>3, <1>4
  DEF Next, OpenCheckout, ProviderStep, Claim, Handle, Retrieve, Complete, Fail, Crash, EndLease,
      RouteStep, provider, vars

\* When every event is processed the row shows what the last event of all found.
LEMMA RowShowsLast ==
  ASSUME IInv, RowHasEvent, AllProcessed, SecondsAgree
  PROVE  /\ Len(log) \in Logged /\ row.at \in Logged /\ log[row.at] = log[Len(log)]
         /\ row.sub = log[Len(log)].sub /\ row.sub \in Plans
<1> USE DEF IInv, SyncInv
<1> DEFINE last == Len(log)
<1>1. last \in Nat /\ last \in Logged /\ \A n \in Logged : n \in Nat /\ n <= last
  BY LenProperties DEF TypeOK, AllProcessed, Logged
<1>2. /\ \A n \in Logged : log[n].sub \in Plans /\ log[n].second \in Nat
      /\ row.updated \in Nat
  BY LogIsTyped DEF TypeOK
<1>3. log[last].second <= row.updated /\ log[last].second > 0
  BY <1>1 DEF AllProcessed, ProcessedIsReflected, SecondsInOrder
<1>4. PICK e \in Logged : /\ log[e].second = row.updated /\ log[e].sub = row.sub
                          /\ e <= row.at
  BY <1>1, <1>2, <1>3 DEF RowHasEvent
<1>5. row.at \in Logged
  <2>1. row.at \in Logged \cup {NoEvent}
    BY DEF TypeOK
  <2> QED
    BY <1>1, <1>4, <2>1 DEF NoEvent, Logged
<1>6. log[e].second <= log[row.at].second /\ log[row.at].second <= log[last].second
  BY <1>1, <1>4, <1>5 DEF SecondsInOrder
<1>7. log[e].second = log[last].second /\ log[row.at].second = log[last].second
  BY <1>1, <1>2, <1>3, <1>4, <1>5, <1>6
<1>8. log[e] = log[last] /\ log[row.at] = log[last]
  BY <1>1, <1>4, <1>5, <1>7 DEF SecondsAgree
<1> QED
  BY <1>1, <1>2, <1>4, <1>5, <1>8

\* The last event of all is the latest of its subscription.
LEMMA LastIsLatest ==
  ASSUME IInv, Len(log) \in Logged
  PROVE  \A n : IsLatest(log, log[Len(log)].sub, n) <=> n = Len(log)
<1>1. Len(log) \in Nat
  BY LenProperties DEF IInv, SyncInv, TypeOK
<1> QED
  BY <1>1 DEF IsLatest, Logged

\* When every event is processed, an organization has no plan that it does not
\* pay for, and has the plan it pays for unless two subscriptions were alive at
\* once: no order of deliveries, retries and crashes leaves the row of a canceled
\* or superseded subscription, or of a plan it had before, unless two changes share
\* a second.
THEOREM PaidPlanIsServed == Spec => []PaidIsServed
<1>1. Init => RowHasEvent /\ OnlyLastAlive
  BY DEF Init, RowHasEvent, OnlyLastAlive, Alive, IsLatest
<1>2. IInv /\ RowHasEvent /\ OnlyLastAlive /\ [Next]_vars => RowHasEvent' /\ OnlyLastAlive'
  BY ServeStep
<1>3. IInv /\ RowHasEvent /\ OnlyLastAlive => PaidIsServed
  <2> SUFFICES ASSUME IInv, RowHasEvent, OnlyLastAlive, AllProcessed, SecondsAgree,
                      NEW p \in Plans
               PROVE  /\ EffectivePlan = p => Paying(p)
                      /\ Paying(p) /\ ~overlapped => EffectivePlan = p
    BY DEF PaidIsServed
  <2> DEFINE last == Len(log)
  <2>1. /\ last \in Logged /\ log[row.at] = log[last]
        /\ row.sub # NoPlan /\ p # NoPlan
    BY RowShowsLast, NamesAssumption
  <2>2. EffectivePlan = p <=> log[last].plan = p /\ log[last].status = "active"
    BY <2>1 DEF EffectivePlan
  <2>3. \A n : IsLatest(log, log[last].sub, n) <=> n = last
    BY <2>1, LastIsLatest
  <2>4. ASSUME EffectivePlan = p
        PROVE  Paying(p)
    BY <2>1, <2>2, <2>3, <2>4 DEF Paying
  <2>5. ASSUME Paying(p), ~overlapped
        PROVE  EffectivePlan = p
    <3>1. PICK n \in Logged : /\ IsLatest(log, log[n].sub, n)
                              /\ log[n].plan = p /\ log[n].status = "active"
      BY <2>5 DEF Paying
    <3>2. Alive(log, log[n].sub) /\ log[n].sub \in Plans
      BY <3>1, LogIsTyped DEF Alive, Logged, IInv, SyncInv
    <3>3. log[n].sub = log[last].sub
      BY <2>5, <3>2 DEF OnlyLastAlive
    <3>4. n = last
      BY <2>3, <3>1, <3>3
    <3> QED
      BY <2>2, <3>1, <3>4
  <2> QED
    BY <2>4, <2>5
<1> QED
  BY <1>1, <1>2, <1>3, InitIInv, IInvStep, PTL DEF Spec

\* What the documentation claims for events of one second holds for changes of
\* different seconds: when all is processed, the row shows the latest state of its
\* subscription, even if two of them overlapped.
THEOREM RowConvergesAcrossSeconds == Spec => [](SecondsAgree => RowConverges)
<1>1. Init => RowHasEvent /\ OnlyLastAlive
  BY DEF Init, RowHasEvent, OnlyLastAlive, Alive, IsLatest
<1>2. IInv /\ RowHasEvent /\ OnlyLastAlive /\ [Next]_vars => RowHasEvent' /\ OnlyLastAlive'
  BY ServeStep
<1>3. IInv /\ RowHasEvent => (SecondsAgree => RowConverges)
  BY RowShowsLast, LastIsLatest DEF RowConverges
<1> QED
  BY <1>1, <1>2, <1>3, InitIInv, IInvStep, PTL DEF Spec
=============================================================================
