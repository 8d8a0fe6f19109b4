----------------------- MODULE StripeMeteringProofs ------------------------
(***************************************************************************)
(* Machine-checked proofs about StripeMetering, for any settlements and    *)
(* costs, any reconciliations, retries and workers, and any faults.        *)
(***************************************************************************)
EXTENDS StripeMetering, SumTheorems

TypeOK ==
  /\ posted \subseteq Entries
  /\ granted \in Plans
  /\ status \in [Entries -> {"none", "pending", "processing", "sent", "failed", "dead"}]
  /\ value \in [Entries -> Nat]
  /\ stale \subseteq {e \in Entries : status[e] = "processing"}
  /\ reconciler \in [Reconcilers -> {"idle", "read", "list", "enqueue", "done"}]
  /\ allowance \in [Reconcilers -> Nat]
  /\ dispatch \in [Reconcilers -> SUBSET Entries]
  /\ retrier \in [Retriers -> {"idle", "enqueue", "done"}]
  /\ reset \in [Retriers -> Entries \cup {NoEntry}]
  /\ waiting \in [Entries -> [Attempts -> Nat]]
  /\ active \in [Entries -> Attempts \cup {NoJob}]
  /\ deadLetters \subseteq Entries
  /\ pc \in [Workers -> {"idle", "claim", "send", "sent", "failed", "return", "throw"}]
  /\ work \in [Workers -> Entries \cup {NoEntry}]
  /\ owns \in [Workers -> BOOLEAN]
  /\ billed \in [Entries -> Nat]
  /\ known \subseteq {e \in Entries : billed[e] > 0}
  /\ seen \subseteq posted
  /\ torn \in BOOLEAN /\ unordered \in BOOLEAN
  /\ incidents \in [Entries -> SUBSET {"enqueue", "lease", "expired", "crash", "answer",
                                     "unacknowledged", "unmarked"}]
  /\ faults \in 0 .. MaxFaults

\* Somebody has to do with the submission of e, or had.
Concerned(e) ==
  \/ Working(e) \/ billed[e] > 0 \/ Retried(e)
  \/ \E r \in Reconcilers : e \in dispatch[r]

\* A row has a value, and nobody has to do with a settlement that has no row.
RowsHaveValues ==
  \A e \in Entries :
    /\ status[e] = "none" <=> value[e] = 0
    /\ Concerned(e) => value[e] > 0

\* A retry has reset a row, and only one.
RetriersHold == \A t \in Retriers : retrier[t] = "idle" <=> reset[t] = NoEntry

\* A worker that owns its job works on the active one, alone.
OwnersHold ==
  /\ \A w \in Workers : pc[w] = "idle" <=> work[w] = NoEntry
  /\ \A w \in Workers : owns[w] => work[w] # NoEntry /\ active[work[w]] # NoJob
  /\ \A v, w \in Workers : owns[v] /\ owns[w] /\ work[v] = work[w] => v = w

\* A worker that goes on without its job is one whose job has expired.
LostJobsExpired ==
  \A w \in Workers : work[w] # NoEntry /\ ~owns[w] => "expired" \in incidents[work[w]]

\* Whoever sends holds the claim, alone, unless the lease has ended under a
\* sender or somebody has reset the row; the dead-letter handler of another job
\* may have overwritten the claim, or a mark that was not acknowledged, but nobody
\* can claim the row after it.
SendersHold ==
  \A w \in Workers : Sending(w) =>
    \/ "lease" \in incidents[work[w]] \/ Retried(work[w])
    \/ /\ status[work[w]] \in {"dead", "sent"} \/ Leased(work[w])
       /\ \A v \in Workers : Sending(v) /\ work[v] = work[w] => v = w

\* Without a slow worker nobody sends what is recorded as sent, but for the worker
\* that has not learnt that its mark was committed.
SendersUnsent ==
  \A w \in Workers : Sending(w) =>
    \/ status[work[w]] # "sent"
    \/ pc[w] = "failed" /\ "unacknowledged" \in incidents[work[w]]
    \/ Slow(work[w])

\* Only what the provider has counted is recorded as sent.
SentIsBilled ==
  /\ \A e \in Entries : status[e] = "sent" => billed[e] > 0
  /\ \A w \in Workers : pc[w] = "sent" => billed[work[w]] > 0

Returning(e) == \E w \in Workers : work[w] = e /\ pc[w] = "return"

\* A job of e will be attempted again, or reach the dead-letter handler.
Live(e) == Queued(e) \/ (active[e] # NoJob /\ ~Returning(e))

\* A submission that was counted is not pending, and a failed one has a job; so
\* once the provider forgets it, no job is left and no reconciliation makes one.
CountedOnce(e) ==
  /\ status[e] = "pending" => billed[e] = 0
  /\ status[e] = "failed" => Live(e)
  /\ Returning(e) => status[e] \in {"sent", "dead"}
  /\ billed[e] <= 1
  /\ billed[e] > 0 /\ e \notin known =>
       /\ ~Working(e) /\ status[e] \notin {"pending", "failed"}
       /\ \A r \in Reconcilers : e \notin dispatch[r]

Counted == \A e \in Entries : Slow(e) \/ Retried(e) \/ CountedOnce(e)

IInv ==
  /\ TypeOK
  /\ RowsHaveValues
  /\ RetriersHold
  /\ OwnersHold
  /\ LostJobsExpired
  /\ SendersHold
  /\ SendersUnsent
  /\ SentIsBilled
  /\ Counted

\* No settlement has the number that stands for none.
LEMMA EntriesAreNumbers ==
  /\ IsFiniteSet(Entries) /\ NoEntry \notin Entries
  /\ \A e \in Entries : e \in Nat /\ Cost[e] \in Nat
BY EntriesAssumption, CostAssumption

\* The costs of any settlements add up to a number.
LEMMA SpentIsNat ==
  ASSUME NEW S \in SUBSET Entries
  PROVE  Spent(S) \in Nat
<1>1. IsFiniteSet(S) /\ \A e \in S : Cost[e] \in Nat
  BY EntriesAreNumbers, FS_Subset
<1>2. Spent(S) = SumOf(Cost, S)
  BY DEF Spent, SumOf
<1> QED
  BY <1>1, <1>2, SumIsNat

\* The overage is a number, and nothing without a settlement.
LEMMA OverageIsNat ==
  ASSUME NEW S \in SUBSET Entries, NEW a \in Nat
  PROVE  Overage(S, a) \in Nat
BY SpentIsNat DEF Overage, Positive

\* No row, no job and no meter event.
LEMMA InitIInv == Init => IInv
<1> SUFFICES ASSUME Init
             PROVE  IInv
  OBVIOUS
<1>1. MaxFaults \in Nat /\ RetryLimit \in Nat /\ Attempts \subseteq Nat
  BY LimitsAssumption DEF Attempts
<1>2. TypeOK
  <2>1. posted \subseteq Entries /\ granted \in Plans /\ seen \subseteq posted
    BY LateAssumption DEF Init
  <2>2. waiting \in [Entries -> [Attempts -> Nat]] /\ faults \in 0 .. MaxFaults
    BY <1>1 DEF Init
  <2> QED
    BY <2>1, <2>2 DEF Init, TypeOK
<1>3. ASSUME NEW e \in Entries
      PROVE  ~Working(e) /\ ~Concerned(e)
  BY EntriesAreNumbers DEF Init, Working, Queued, Concerned, Retried
<1>4. RowsHaveValues /\ RetriersHold /\ OwnersHold /\ LostJobsExpired
  BY <1>3 DEF Init, RowsHaveValues, RetriersHold, OwnersHold, LostJobsExpired
<1>5. SendersHold /\ SendersUnsent /\ SentIsBilled
  BY DEF Init, SendersHold, SendersUnsent, SentIsBilled, Sending
<1>6. Counted
  BY <1>3 DEF Init, Counted, CountedOnce, Returning
<1> QED
  BY <1>2, <1>4, <1>5, <1>6 DEF IInv

\* The active job of e is over.
JobOver(e) == active[e] # NoJob /\ (Completed(e) \/ Failed(e))

\* A worker goes on in its handler, or ends it.
Moves(w) ==
  /\ work[w] \in Entries
  /\ \E t \in {"send", "sent", "failed", "return", "throw"} : pc' = [pc EXCEPT ![w] = t]
  /\ UNCHANGED << work, owns, queue >>

Ends(w) ==
  /\ work[w] \in Entries
  /\ pc[w] \notin {"send", "sent", "failed"} \/ UNCHANGED queue
  /\ Stop(w)
  /\ (owns[w] /\ JobOver(work[w])) \/ UNCHANGED queue

Handles(w) ==
  \/ Claim(w) \/ PostAccepted(w) \/ PostFails(w) \/ MarkSent(w) \/ MarkFailed(w)
  \/ EndAttempt(w) \/ CrashWorker(w) \/ AnswerLost(w) \/ MarkSentFails(w)
  \/ MarkFailedFails(w)

\* Every step of a handler moves its worker on or ends it, marks and bills its
\* submission alone, and leaves the ledger and the callers alone.
LEMMA HandlerSteps ==
  ASSUME IInv, NEW w \in Workers, Handles(w)
  PROVE  /\ work[w] \in Entries /\ pc[w] # "idle"
         /\ Moves(w) \/ Ends(w)
         /\ UNCHANGED << ledger, value, callers, history >>
         /\ \/ incidents' = incidents
            \/ \E k \in {"crash", "answer", "unacknowledged", "unmarked"} :
                 incidents' = [incidents EXCEPT ![work[w]] = @ \cup {k}]
         /\ faults' \in 0 .. MaxFaults
         /\ \/ UNCHANGED << status, stale >>
            \/ \E s \in {"processing", "sent", "failed"} : Mark(work[w], s)
         /\ UNCHANGED provider \/ Accepts(work[w])
<1>1. /\ pc[w] # "idle" => work[w] \in Entries
      /\ owns[w] => active[work[w]] # NoJob
      /\ faults \in 0 .. MaxFaults /\ MaxFaults \in Nat
  BY LimitsAssumption DEF IInv, OwnersHold, TypeOK
<1> USE <1>1 DEF Goto, WorkerStep, Calm, Incident
<1>2. CASE Claim(w)
  BY <1>2 DEF Claim, ClaimWhen, Return, Moves, Ends, JobOver, queue
<1>3. CASE PostAccepted(w) \/ PostFails(w) \/ AnswerLost(w)
  BY <1>3 DEF PostAccepted, PostFails, AnswerLost, Moves
<1>4. CASE MarkSent(w) \/ MarkFailed(w) \/ MarkSentFails(w) \/ MarkFailedFails(w)
  BY <1>4 DEF MarkSent, MarkFailed, MarkSentFails, MarkFailedFails, Moves
<1>5. CASE EndAttempt(w)
  BY <1>5 DEF EndAttempt, Return, Throw, Ends, JobOver
<1>6. CASE CrashWorker(w)
  BY <1>6 DEF CrashWorker, Ends, QueueStep, rows
<1> QED
  BY <1>2, <1>3, <1>4, <1>5, <1>6 DEF Handles

\* A job that is over leaves at most one more to wait, of the same submission.
LEMMA JobOverKeeps ==
  ASSUME TypeOK, NEW e \in Entries, JobOver(e)
  PROVE  /\ waiting' \in [Entries -> [Attempts -> Nat]]
         /\ active' = [active EXCEPT ![e] = NoJob]
         /\ deadLetters' \subseteq Entries
         /\ \A f \in Entries \ {e} : Queued(f)' <=> Queued(f)
         /\ Queued(e) => Queued(e)'
         /\ Failed(e) => Queued(e)'
<1>1. RetryLimit \in Nat /\ NoJob \notin Attempts
  BY LimitsAssumption DEF Attempts, NoJob
<1>2. active[e] \in Attempts /\ active' = [active EXCEPT ![e] = NoJob]
  BY DEF TypeOK, JobOver, Completed, Failed
<1>3. CASE UNCHANGED << waiting, deadLetters >> /\ ~Failed(e)
  BY <1>2, <1>3 DEF TypeOK, Queued
<1>4. CASE /\ active[e] < RetryLimit
           /\ waiting' = [waiting EXCEPT ![e][active[e] + 1] = @ + 1]
           /\ UNCHANGED deadLetters
  <2>1. PICK n \in Attempts : n = active[e] + 1
    BY <1>1, <1>2, <1>4 DEF Attempts
  <2>2. waiting' = [waiting EXCEPT ![e] = [waiting[e] EXCEPT ![n] = @ + 1]]
    BY <1>4, <2>1
  <2>3. waiting' \in [Entries -> [Attempts -> Nat]] /\ waiting'[e][n] > 0
    BY <2>1, <2>2 DEF TypeOK
  <2>4. \A f \in Entries \ {e} : Queued(f)' <=> Queued(f)
    BY <1>4, <2>2 DEF TypeOK, Queued
  <2> QED
    BY <1>2, <1>4, <2>1, <2>3, <2>4 DEF TypeOK, Queued
<1>5. CASE active[e] = RetryLimit /\ deadLetters' = deadLetters \cup {e} /\ UNCHANGED waiting
  BY <1>2, <1>5 DEF TypeOK, Queued
<1> QED
  BY <1>3, <1>4, <1>5 DEF JobOver, Completed, Failed

\* The queue keeps its types when a handler goes on or ends, and no submission
\* becomes anybody's concern.
LEMMA HandlerQueue ==
  ASSUME IInv, NEW w \in Workers, Moves(w) \/ Ends(w)
  PROVE  /\ waiting' \in [Entries -> [Attempts -> Nat]]
         /\ active' \in [Entries -> Attempts \cup {NoJob}]
         /\ deadLetters' \subseteq Entries
         /\ \A e \in Entries : Working(e)' => Working(e)
         /\ \A e \in Entries : active'[e] # NoJob => active'[e] = active[e]
<1> USE DEF IInv, TypeOK
<1>1. CASE UNCHANGED queue
  BY <1>1, EntriesAreNumbers DEF queue, Moves, Ends, Stop, Working, Queued
<1>2. CASE Ends(w) /\ owns[w] /\ JobOver(work[w])
  <2>1. PICK e \in Entries : e = work[w]
    BY <1>2 DEF Ends
  <2>2. JobOver(e)
    BY <1>2, <2>1
  <2>3. /\ active' = [active EXCEPT ![e] = NoJob]
        /\ \A f \in Entries \ {e} : Queued(f)' <=> Queued(f)
    BY <2>2, JobOverKeeps
  <2>4. work' = [work EXCEPT ![w] = NoEntry]
    BY <1>2 DEF Ends, Stop
  <2>5. \A f \in Entries : Working(f)' => Working(f)
    BY <2>1, <2>3, <2>4, EntriesAreNumbers DEF Working
  <2> QED
    BY <2>2, <2>3, <2>5, JobOverKeeps
<1> QED
  BY <1>1, <1>2 DEF Moves, Ends

\* A handler keeps the types.
LEMMA HandlerTypes ==
  ASSUME IInv, NEW w \in Workers, Handles(w)
  PROVE  TypeOK'
<1> USE DEF IInv, TypeOK
<1>1. PICK e \in Entries : e = work[w]
  BY HandlerSteps
<1>2. /\ waiting' \in [Entries -> [Attempts -> Nat]]
      /\ active' \in [Entries -> Attempts \cup {NoJob}]
      /\ deadLetters' \subseteq Entries
      /\ UNCHANGED << ledger, value, callers, history >>
      /\ faults' \in 0 .. MaxFaults
  BY HandlerSteps, HandlerQueue
<1>3. /\ pc' \in [Workers -> {"idle", "claim", "send", "sent", "failed", "return", "throw"}]
      /\ work' \in [Workers -> Entries \cup {NoEntry}]
      /\ owns' \in [Workers -> BOOLEAN]
  <2>1. CASE Moves(w)
    BY <2>1 DEF Moves
  <2>2. CASE Ends(w)
    BY <2>2 DEF Ends, Stop
  <2> QED
    BY <2>1, <2>2, HandlerSteps
<1>4. /\ status' \in [Entries -> {"none", "pending", "processing", "sent", "failed", "dead"}]
      /\ stale' \subseteq {f \in Entries : status'[f] = "processing"}
  <2>1. CASE UNCHANGED << status, stale >>
    BY <2>1
  <2>2. ASSUME NEW s \in {"processing", "sent", "failed"}, Mark(e, s)
        PROVE  /\ status' \in [Entries -> {"none", "pending", "processing", "sent", "failed",
                                           "dead"}]
               /\ stale' \subseteq {f \in Entries : status'[f] = "processing"}
    BY <2>2 DEF Mark
  <2> QED
    BY <1>1, <2>1, <2>2, HandlerSteps
<1>5. /\ billed' \in [Entries -> Nat]
      /\ known' \subseteq {f \in Entries : billed'[f] > 0}
  <2>1. CASE UNCHANGED provider
    BY <2>1 DEF provider
  <2>2. CASE Accepts(e)
    BY <2>2 DEF Accepts
  <2> QED
    BY <1>1, <2>1, <2>2, HandlerSteps
<1>6. incidents' \in [Entries -> SUBSET {"enqueue", "lease", "expired", "crash", "answer",
                                         "unacknowledged", "unmarked"}]
  <2>1. ASSUME NEW k \in {"crash", "answer", "unacknowledged", "unmarked"},
               incidents' = [incidents EXCEPT ![e] = @ \cup {k}]
        PROVE  incidents' \in [Entries -> SUBSET {"enqueue", "lease", "expired", "crash",
                                                  "answer", "unacknowledged", "unmarked"}]
    BY <2>1
  <2> QED
    BY <1>1, <2>1, HandlerSteps
<1> QED
  BY <1>2, <1>3, <1>4, <1>5, <1>6 DEF ledger, callers, history

\* A handler has to do with a submission that has a row; nobody new gets to.
LEMMA HandlerRows ==
  ASSUME IInv, NEW w \in Workers, Handles(w)
  PROVE  RowsHaveValues' /\ RetriersHold'
<1> USE DEF IInv, TypeOK
<1>1. PICK e \in Entries : e = work[w]
  BY HandlerSteps
<1>2. UNCHANGED << value, callers >>
  BY HandlerSteps
<1>3. Working(e) /\ value[e] > 0 /\ status[e] # "none"
  BY <1>1 DEF Working, RowsHaveValues, Concerned
<1>4. \A f \in Entries : status'[f] = "none" <=> status[f] = "none"
  <2>1. ASSUME NEW s \in {"processing", "sent", "failed"}, Mark(e, s), NEW f \in Entries
        PROVE  status'[f] = "none" <=> status[f] = "none"
    BY <1>3, <2>1 DEF Mark
  <2> QED
    BY <1>1, <2>1, HandlerSteps
<1>5. \A f \in Entries : billed'[f] > 0 => Working(f) \/ billed[f] > 0
  <2>1. CASE UNCHANGED provider
    BY <2>1 DEF provider
  <2>2. CASE Accepts(e)
    BY <1>3, <2>2 DEF Accepts
  <2> QED
    BY <1>1, <2>1, <2>2, HandlerSteps
<1>6. \A f \in Entries : Concerned(f)' => Concerned(f)
  BY <1>2, <1>5, HandlerSteps, HandlerQueue DEF Concerned, Retried, callers
<1>7. RowsHaveValues'
  BY <1>2, <1>4, <1>6 DEF RowsHaveValues
<1> QED
  BY <1>2, <1>7 DEF RetriersHold, callers

\* The incidents of a submission are kept, and so are the resets of its row.
LEMMA HandlerIncidents ==
  ASSUME IInv, NEW w \in Workers, Handles(w), NEW e \in Entries
  PROVE  /\ incidents[e] \subseteq incidents'[e]
         /\ "expired" \in incidents'[e] <=> "expired" \in incidents[e]
         /\ "lease" \in incidents'[e] <=> "lease" \in incidents[e]
         /\ Slow(e)' <=> Slow(e)
         /\ Retried(e)' <=> Retried(e)
<1>1. ASSUME NEW k \in {"crash", "answer", "unacknowledged", "unmarked"},
             incidents' = [incidents EXCEPT ![work[w]] = @ \cup {k}]
      PROVE  /\ incidents[e] \subseteq incidents'[e]
             /\ "expired" \in incidents'[e] <=> "expired" \in incidents[e]
             /\ "lease" \in incidents'[e] <=> "lease" \in incidents[e]
  BY <1>1 DEF IInv, TypeOK
<1>2. /\ incidents[e] \subseteq incidents'[e]
      /\ "expired" \in incidents'[e] <=> "expired" \in incidents[e]
      /\ "lease" \in incidents'[e] <=> "lease" \in incidents[e]
  BY <1>1, HandlerSteps
<1>3. reset' = reset
  BY HandlerSteps DEF callers
<1> QED
  BY <1>2, <1>3 DEF Slow, Retried

\* The owner of a job keeps it until the job is over.
LEMMA HandlerOwners ==
  ASSUME IInv, NEW w \in Workers, Handles(w)
  PROVE  OwnersHold' /\ LostJobsExpired'
<1> USE DEF IInv, TypeOK, OwnersHold
<1>1. PICK e \in Entries : e = work[w] /\ pc[w] # "idle"
  BY HandlerSteps
<1>2. CASE Moves(w)
  <2>1. OwnersHold'
    BY <1>1, <1>2 DEF Moves, queue
  <2>2. LostJobsExpired'
    BY <1>2, HandlerIncidents DEF Moves, LostJobsExpired
  <2> QED
    BY <2>1, <2>2
<1>3. CASE Ends(w)
  <2>1. /\ pc' = [pc EXCEPT ![w] = "idle"] /\ work' = [work EXCEPT ![w] = NoEntry]
        /\ owns' = [owns EXCEPT ![w] = FALSE]
    BY <1>3 DEF Ends, Stop
  <2>2. active' = active \/ (owns[w] /\ active' = [active EXCEPT ![e] = NoJob])
    <3>1. CASE UNCHANGED queue
      BY <3>1 DEF queue
    <3>2. CASE owns[w] /\ JobOver(e)
      BY <3>2, JobOverKeeps
    <3> QED
      BY <1>1, <1>3, <3>1, <3>2 DEF Ends
  <2>3. OwnersHold'
    BY <1>1, <2>1, <2>2
  <2>4. LostJobsExpired'
    BY <2>1, HandlerIncidents DEF LostJobsExpired
  <2> QED
    BY <2>3, <2>4
<1> QED
  BY <1>2, <1>3, HandlerSteps

\* What a worker does on its way through its handler.
LEMMA HandlerSends ==
  ASSUME IInv, NEW w \in Workers, Handles(w), NEW e \in Entries, e = work[w]
  PROVE  /\ \A v \in Workers \ {w} : pc'[v] = pc[v] /\ work'[v] = work[v]
         /\ \/ /\ pc[w] = "claim" /\ Claimable(e) /\ Mark(e, "processing")
               /\ pc'[w] = "send" /\ work'[w] = e /\ UNCHANGED << queue, provider >>
            \/ /\ pc[w] = "send" /\ UNCHANGED << status, stale, work, queue >>
               /\ \/ pc'[w] = "sent" /\ Accepts(e)
                  \/ pc'[w] = "failed" /\ (UNCHANGED provider \/ Accepts(e))
            \/ /\ pc[w] = "sent" /\ UNCHANGED << work, queue, provider >>
               /\ \/ pc'[w] = "return" /\ Mark(e, "sent")
                  \/ pc'[w] = "failed" /\ UNCHANGED << status, stale >>
                  \/ /\ pc'[w] = "failed" /\ Mark(e, "sent")
                     /\ "unacknowledged" \in incidents'[e]
            \/ /\ pc[w] = "failed" /\ pc'[w] = "throw" /\ UNCHANGED << work, queue, provider >>
               /\ Mark(e, "failed") \/ UNCHANGED << status, stale >>
            \/ /\ Ends(w) /\ UNCHANGED << status, stale, provider >>
               /\ \/ UNCHANGED queue
                  \/ pc[w] = "claim" /\ ~Claimable(e) /\ Completed(e)
                  \/ pc[w] = "return" /\ Completed(e)
                  \/ pc[w] = "throw" /\ Failed(e)
<1> USE DEF Goto, IInv, TypeOK
<1>1. Moves(w) \/ Ends(w)
  BY HandlerSteps
<1>2. \A v \in Workers \ {w} : pc'[v] = pc[v] /\ work'[v] = work[v]
  <2>1. CASE Moves(w)
    BY <2>1 DEF Moves
  <2>2. CASE Ends(w)
    BY <2>2 DEF Ends, Stop
  <2> QED
    BY <1>1, <2>1, <2>2
<1>3. CASE Claim(w)
  <2>1. CASE Claimable(e)
    BY <1>2, <1>3, <2>1 DEF Claim, ClaimWhen
  <2>2. CASE ~Claimable(e)
    <3>1. pc'[w] = "idle" /\ pc[w] = "claim" /\ UNCHANGED << status, stale, provider >>
      BY <1>3, <2>2 DEF Claim, ClaimWhen, Return, Stop
    <3>2. Ends(w)
      BY <1>1, <3>1 DEF Moves
    <3>3. UNCHANGED queue \/ Completed(e)
      BY <1>3, <2>2 DEF Claim, ClaimWhen, Return
    <3> QED
      BY <1>2, <2>2, <3>1, <3>2, <3>3
  <2> QED
    BY <2>1, <2>2
<1>4. CASE PostAccepted(w) \/ PostFails(w) \/ AnswerLost(w)
  BY <1>2, <1>4 DEF PostAccepted, PostFails, AnswerLost
<1>5. CASE MarkSent(w) \/ MarkFailed(w) \/ MarkSentFails(w) \/ MarkFailedFails(w)
  BY <1>2, <1>5 DEF MarkSent, MarkFailed, MarkSentFails, MarkFailedFails, Incident
<1>6. CASE EndAttempt(w) \/ CrashWorker(w)
  <2>1. pc'[w] = "idle" /\ UNCHANGED << status, stale, provider >>
    BY <1>6 DEF EndAttempt, CrashWorker, Return, Throw, Stop, QueueStep, rows
  <2>2. Ends(w)
    BY <1>1, <2>1 DEF Moves
  <2>3. \/ UNCHANGED queue
        \/ pc[w] = "return" /\ Completed(e)
        \/ pc[w] = "throw" /\ Failed(e)
    BY <1>6 DEF EndAttempt, CrashWorker, Return, Throw
  <2> QED
    BY <1>2, <2>1, <2>2, <2>3
<1> QED
  BY <1>3, <1>4, <1>5, <1>6 DEF Handles

\* Nobody but the worker itself is disturbed when a handler goes on.
LEMMA HandlerOthers ==
  ASSUME IInv, NEW w \in Workers, Handles(w), NEW e \in Entries, e # work[w]
  PROVE  /\ status'[e] = status[e] /\ billed'[e] = billed[e]
         /\ e \in stale' <=> e \in stale
         /\ e \in known' <=> e \in known
         /\ Queued(e)' <=> Queued(e)
         /\ active'[e] = active[e]
         /\ \A v \in Workers : work'[v] = e => v # w /\ work[v] = e /\ pc'[v] = pc[v]
         /\ \A v \in Workers : work[v] = e => v # w /\ work'[v] = e /\ pc'[v] = pc[v]
<1> USE DEF IInv, TypeOK
<1>1. PICK d \in Entries : d = work[w]
  BY HandlerSteps
<1>2. status'[e] = status[e] /\ (e \in stale' <=> e \in stale)
  <2>1. ASSUME NEW s \in {"processing", "sent", "failed"}, Mark(d, s)
        PROVE  status'[e] = status[e] /\ (e \in stale' <=> e \in stale)
    BY <1>1, <2>1 DEF Mark
  <2> QED
    BY <1>1, <2>1, HandlerSteps
<1>3. billed'[e] = billed[e] /\ (e \in known' <=> e \in known)
  <2>1. CASE Accepts(d)
    BY <1>1, <2>1 DEF Accepts
  <2> QED
    BY <1>1, <2>1, HandlerSteps DEF provider
<1>4. (Queued(e)' <=> Queued(e)) /\ active'[e] = active[e]
  <2>1. CASE UNCHANGED queue
    BY <2>1 DEF queue, Queued
  <2>2. CASE JobOver(d)
    <3>1. /\ active' = [active EXCEPT ![d] = NoJob]
          /\ \A f \in Entries \ {d} : Queued(f)' <=> Queued(f)
      BY <2>2, JobOverKeeps
    <3> QED
      BY <1>1, <3>1
  <2> QED
    BY <1>1, <2>1, <2>2, HandlerSteps DEF Moves, Ends
<1>5. \A v \in Workers \ {w} : pc'[v] = pc[v] /\ work'[v] = work[v]
  BY <1>1, HandlerSends
<1>6. work'[w] \in {d, NoEntry}
  BY <1>1, HandlerSteps DEF Moves, Ends, Stop
<1> QED
  BY <1>1, <1>2, <1>3, <1>4, <1>5, <1>6, EntriesAreNumbers

\* As long as nobody was slow one worker works on a submission, and owns its job.
LEMMA OneWorker ==
  ASSUME IInv, NEW e \in Entries, "expired" \notin incidents[e], NEW w \in Workers, work[w] = e
  PROVE  owns[w] /\ active[e] # NoJob /\ \A v \in Workers : work[v] = e => v = w
BY EntriesAreNumbers DEF IInv, LostJobsExpired, OwnersHold

\* The claim is taken when nobody sends, and given up when its worker stops.
LEMMA HandlerSenders ==
  ASSUME IInv, NEW w \in Workers, Handles(w)
  PROVE  SendersHold'
<1> USE DEF Sending
<1>1. PICK e \in Entries : e = work[w]
  BY HandlerSteps
<1> SUFFICES ASSUME NEW v \in Workers, Sending(v)',
                    ~("lease" \in incidents[work[v]])', ~(Retried(work[v]))'
             PROVE  (/\ status[work[v]] \in {"dead", "sent"} \/ Leased(work[v])
                     /\ \A u \in Workers : Sending(u) /\ work[u] = work[v] => u = v)'
  BY DEF SendersHold
<1>2. PICK f \in Entries : f = work'[v]
  BY HandlerTypes, HandlerOwners DEF TypeOK, OwnersHold
<1>3. "lease" \notin incidents[f] /\ ~Retried(f)
  <2>1. "lease" \notin incidents'[f] /\ ~Retried(f)'
    BY <1>2 DEF Retried
  <2> QED
    BY <2>1, HandlerIncidents
<1>4. SendersHold
  BY DEF IInv
<1> SUFFICES /\ status'[f] \in {"dead", "sent"} \/ (status'[f] = "processing" /\ f \notin stale')
             /\ \A u \in Workers : Sending(u)' /\ work'[u] = f => u = v
  BY <1>2 DEF Leased
<1>5. CASE f # e
  <2>1. Sending(v) /\ work[v] = f
    BY <1>1, <1>2, <1>5, HandlerOthers
  <2>2. /\ status[f] \in {"dead", "sent"} \/ Leased(f)
        /\ \A u \in Workers : Sending(u) /\ work[u] = f => u = v
    BY <1>3, <1>4, <2>1 DEF SendersHold
  <2> QED
    BY <1>1, <1>5, <2>2, HandlerOthers DEF Leased
<1>6. CASE f = e
  <2>1. \A u \in Workers \ {w} : pc'[u] = pc[u] /\ work'[u] = work[u]
    BY <1>1, HandlerSends
  <2>2. ASSUME NEW u \in Workers, Sending(u), work[u] = e
        PROVE  /\ status[e] \in {"dead", "sent"} \/ Leased(e)
               /\ \A x \in Workers : Sending(x) /\ work[x] = e => x = u
    BY <1>3, <1>4, <1>6, <2>2 DEF SendersHold
  <2>3. CASE /\ pc[w] = "claim" /\ Claimable(e) /\ Mark(e, "processing")
             /\ pc'[w] = "send" /\ work'[w] = e
    <3>1. \A u \in Workers : Sending(u) /\ work[u] = e => FALSE
      BY <2>2, <2>3 DEF Claimable, Leased
    <3>2. status'[e] = "processing" /\ e \notin stale'
      BY <2>3 DEF Mark, IInv, TypeOK
    <3> QED
      BY <1>2, <1>6, <2>1, <3>1, <3>2
  <2>4. CASE Sending(w)
    <3>1. \A u \in Workers : Sending(u)' /\ work'[u] = e => u = w
      BY <1>1, <2>1, <2>2, <2>4
    <3>2. v = w
      BY <1>2, <1>6, <3>1
    <3>3. UNCHANGED << status, stale >> \/ Mark(e, "sent")
      BY <1>1, <2>4, <3>2, HandlerSends DEF Ends, Stop
    <3>4. Mark(e, "sent") => status'[e] = "sent"
      BY DEF Mark, IInv, TypeOK
    <3> QED
      BY <1>1, <1>6, <2>2, <2>4, <3>1, <3>2, <3>3, <3>4 DEF Leased
  <2>5. CASE Ends(w) /\ UNCHANGED << status, stale >>
    <3>1. pc'[w] = "idle"
      BY <2>5 DEF Ends, Stop, IInv, TypeOK
    <3>2. v # w /\ Sending(v) /\ work[v] = e
      BY <1>2, <1>6, <2>1, <3>1
    <3> QED
      BY <1>6, <2>1, <2>2, <2>5, <3>1, <3>2 DEF Leased
  <2> QED
    BY <1>1, <2>3, <2>4, <2>5, HandlerSends
<1> QED
  BY <1>5, <1>6

\* A worker that was not slow is the only one to mark its submission.
LEMMA HandlerUnsent ==
  ASSUME IInv, NEW w \in Workers, Handles(w)
  PROVE  SendersUnsent'
<1> USE DEF Sending
<1>1. PICK e \in Entries : e = work[w]
  BY HandlerSteps
<1> SUFFICES ASSUME NEW v \in Workers, Sending(v)', ~Slow(work[v])'
             PROVE  \/ (status[work[v]])' # "sent"
                    \/ (pc[v] = "failed" /\ "unacknowledged" \in incidents[work[v]])'
  BY DEF SendersUnsent
<1>2. PICK f \in Entries : f = work'[v]
  BY HandlerTypes, HandlerOwners DEF TypeOK, OwnersHold
<1>3. ~Slow(f) /\ SendersUnsent
  <2>1. ~Slow(f)'
    BY <1>2 DEF Slow
  <2> QED
    BY <2>1, HandlerIncidents DEF IInv
<1> SUFFICES \/ status'[f] # "sent"
             \/ pc'[v] = "failed" /\ "unacknowledged" \in incidents'[f]
  BY <1>2
<1>4. CASE f # e
  <2>1. Sending(v) /\ work[v] = f /\ status'[f] = status[f] /\ pc'[v] = pc[v]
    BY <1>1, <1>2, <1>4, HandlerOthers
  <2>2. incidents[f] \subseteq incidents'[f]
    BY HandlerIncidents
  <2> QED
    BY <1>3, <2>1, <2>2 DEF SendersUnsent
<1>5. CASE f = e
  <2>1. \A u \in Workers : work[u] = e => u = w
    BY <1>1, <1>3, <1>5, OneWorker DEF Slow
  <2>2. v = w
    BY <1>1, <1>2, <1>5, <2>1, HandlerSends
  <2>3. pc'[w] \in {"send", "sent", "failed"}
    BY <2>2
  <2>4. Sending(w) => status[e] # "sent" \/ pc[w] = "failed"
    BY <1>1, <1>3, <1>5 DEF SendersUnsent
  <2>5. Mark(e, "processing") => status'[e] # "sent"
    BY DEF Mark, IInv, TypeOK
  <2>6. Ends(w) => pc'[w] = "idle"
    BY DEF Ends, Stop, IInv, TypeOK
  <2> QED
    BY <1>1, <1>5, <2>2, <2>3, <2>4, <2>5, <2>6, HandlerSends
<1> QED
  BY <1>4, <1>5

\* The provider counts what a worker sends, and never takes it back.
LEMMA AcceptsCounts ==
  ASSUME TypeOK, NEW e \in Entries, Accepts(e)
  PROVE  /\ billed'[e] > 0 /\ e \in known'
         /\ billed'[e] = IF e \in known THEN billed[e] ELSE billed[e] + 1
BY DEF Accepts, TypeOK

\* A worker records as sent what the provider has answered for.
LEMMA HandlerBilled ==
  ASSUME IInv, NEW w \in Workers, Handles(w)
  PROVE  SentIsBilled'
<1> USE DEF IInv, TypeOK
<1>1. PICK e \in Entries : e = work[w]
  BY HandlerSteps
<1>2. \A f \in Entries : billed[f] > 0 => billed'[f] > 0
  <2>1. ASSUME NEW f \in Entries, billed[f] > 0
        PROVE  billed'[f] > 0
    <3>1. CASE f # e
      BY <1>1, <2>1, <3>1, HandlerOthers
    <3>2. CASE f = e
      BY <1>1, <2>1, <3>2, HandlerSteps, AcceptsCounts DEF provider
    <3> QED
      BY <3>1, <3>2
  <2> QED
    BY <2>1
<1>3. ASSUME NEW f \in Entries, status'[f] = "sent"
      PROVE  billed'[f] > 0
  <2>1. CASE status[f] = "sent"
    BY <1>2, <2>1 DEF SentIsBilled
  <2>2. CASE status[f] # "sent"
    <3>1. f = e
      BY <1>1, <1>3, <2>2, HandlerOthers
    <3>2. pc[w] = "sent"
      BY <1>1, <1>3, <2>2, <3>1, HandlerSends DEF Mark
    <3> QED
      BY <1>1, <1>2, <3>1, <3>2 DEF SentIsBilled
  <2> QED
    BY <2>1, <2>2
<1>4. ASSUME NEW v \in Workers, pc'[v] = "sent"
      PROVE  billed'[work'[v]] > 0
  <2>1. CASE v # w
    <3>1. pc[v] = "sent" /\ work'[v] = work[v]
      BY <1>1, <1>4, <2>1, HandlerSends
    <3>2. work[v] \in Entries
      BY <3>1 DEF OwnersHold
    <3> QED
      BY <1>2, <3>1, <3>2 DEF SentIsBilled
  <2>2. CASE v = w
    <3>1. Ends(w) => pc'[w] = "idle"
      BY DEF Ends, Stop
    <3>2. Accepts(e) /\ work'[w] = e
      BY <1>1, <1>4, <2>2, <3>1, HandlerSends
    <3> QED
      BY <2>2, <3>2, AcceptsCounts
  <2> QED
    BY <2>1, <2>2
<1> QED
  BY <1>3, <1>4 DEF SentIsBilled

\* A handler keeps every submission counted once: its own, which the provider
\* still recognizes, by the position it is in.
LEMMA HandlerCounted ==
  ASSUME IInv, NEW w \in Workers, Handles(w)
  PROVE  Counted'
<1> USE DEF IInv, TypeOK
<1>1. PICK e \in Entries : e = work[w]
  BY HandlerSteps
<1> SUFFICES ASSUME NEW f \in Entries, ~Slow(f)', ~Retried(f)'
             PROVE  CountedOnce(f)'
  BY DEF Counted
<1>2. ~Slow(f) /\ ~Retried(f) /\ CountedOnce(f)
  BY HandlerIncidents DEF Counted
<1>3. dispatch' = dispatch /\ (Working(f)' => Working(f))
  BY HandlerSteps, HandlerQueue DEF callers
<1>4. CASE f # e
  <2>1. /\ status'[f] = status[f] /\ billed'[f] = billed[f] /\ (f \in known' <=> f \in known)
        /\ (Queued(f)' <=> Queued(f)) /\ active'[f] = active[f]
        /\ Returning(f)' <=> Returning(f)
    BY <1>1, <1>4, HandlerOthers DEF Returning
  <2> QED
    BY <1>2, <1>3, <2>1 DEF CountedOnce, Live
<1>5. CASE f = e
  <2>1. /\ active[e] # NoJob
        /\ \A v \in Workers : work[v] = e => v = w
    BY <1>1, <1>2, <1>5, OneWorker DEF Slow
  <2>2. Working(e) /\ (billed[e] > 0 => e \in known)
    BY <1>1, <1>2, <1>5 DEF Working, CountedOnce
  <2>3. Returning(e)' => pc'[w] = "return"
    BY <2>1, HandlerSends, <1>1 DEF Returning
  <2>4. pc[w] = "return" => Returning(e)
    BY <1>1 DEF Returning
  <2>5. Sending(w) => status[e] \in {"dead", "processing", "sent"}
    BY <1>1, <1>2, <1>5 DEF SendersHold, Leased, Slow
  <2>6. billed'[e] <= 1 /\ (billed'[e] > 0 => e \in known')
    BY <1>1, <1>2, <1>5, <2>2, HandlerSteps, AcceptsCounts DEF CountedOnce, provider
  <2>7. /\ status'[e] # "pending" \/ billed'[e] = 0
        /\ status'[e] = "failed" => Live(e)'
        /\ pc'[w] = "return" => status'[e] = "sent"
    <3>1. CASE pc[w] = "claim" /\ Mark(e, "processing") /\ pc'[w] = "send"
      BY <3>1 DEF Mark
    <3>2. CASE pc[w] = "send" /\ UNCHANGED status /\ pc'[w] \in {"sent", "failed"}
      BY <2>5, <3>2 DEF Sending
    <3>3. CASE /\ pc[w] = "sent"
               /\ \/ pc'[w] = "return" /\ Mark(e, "sent")
                  \/ pc'[w] = "failed" /\ (UNCHANGED status \/ Mark(e, "sent"))
      BY <2>5, <3>3 DEF Mark, Sending
    <3>4. CASE pc[w] = "failed" /\ pc'[w] = "throw" /\ UNCHANGED << work, queue >>
      <4>1. Mark(e, "failed") \/ UNCHANGED << status, stale >>
        BY <1>1, <3>4, HandlerSends DEF Ends, Stop
      <4>2. active'[e] # NoJob /\ ~Returning(e)'
        BY <2>1, <2>3, <3>4 DEF queue
      <4> QED
        BY <2>5, <3>4, <4>1, <4>2 DEF Mark, Sending, Live
    <3>5. CASE /\ Ends(w) /\ UNCHANGED << status, stale, provider >>
               /\ \/ UNCHANGED queue
                  \/ pc[w] = "claim" /\ ~Claimable(e) /\ Completed(e)
                  \/ pc[w] = "return" /\ Completed(e)
                  \/ pc[w] = "throw" /\ Failed(e)
      <4>1. pc'[w] = "idle" /\ ~Returning(e)'
        BY <2>3, <3>5 DEF Ends, Stop
      <4>2. ASSUME status[e] = "failed"
            PROVE  Live(e)'
        <5>1. CASE UNCHANGED queue
          BY <2>1, <4>1, <5>1 DEF queue, Live
        <5>2. CASE pc[w] = "throw" /\ Failed(e)
          BY <2>1, <5>2, JobOverKeeps DEF JobOver, Live
        <5> QED
          BY <1>2, <1>5, <2>4, <3>5, <4>2, <5>1, <5>2 DEF Claimable, CountedOnce
      <4> QED
        BY <1>2, <1>5, <3>5, <4>1, <4>2 DEF CountedOnce, provider
    <3> QED
      BY <1>1, <3>1, <3>2, <3>3, <3>4, <3>5, HandlerSends
  <2> QED
    BY <1>5, <2>3, <2>6, <2>7 DEF CountedOnce
<1> QED
  BY <1>4, <1>5

\* The steps of a handler, all in all.
LEMMA HandlerKeeps ==
  ASSUME IInv, NEW w \in Workers, Handles(w)
  PROVE  IInv'
BY HandlerTypes, HandlerRows, HandlerOwners, HandlerSenders, HandlerUnsent, HandlerBilled,
   HandlerCounted
DEF IInv

\* Steps beside the handlers: whoever sends goes on, incidents and resets are
\* kept, and a row that a sender has claimed is only reset, recorded as dead, or
\* left by its lease.
LEMMA SendersKept ==
  ASSUME IInv, TypeOK', UNCHANGED billed,
         \A v \in Workers : Sending(v) \/ Sending(v)' => pc'[v] = pc[v] /\ work'[v] = work[v],
         \A e \in Entries :
           /\ incidents[e] \subseteq incidents'[e]
           /\ Retried(e) => Retried(e)'
           /\ \/ status'[e] \in {status[e], "dead"} \/ status[e] = "none"
              \/ Retried(e)' /\ status'[e] # "sent"
           /\ status'[e] = "sent" => status[e] = "sent"
           /\ \/ e \in stale' => e \in stale
              \/ "lease" \in incidents'[e]
              \/ \A v \in Workers : ~(Sending(v) /\ work[v] = e)
  PROVE  SendersHold' /\ SendersUnsent' /\ SentIsBilled'
<1> USE DEF IInv, TypeOK, Sending
<1>1. ASSUME NEW v \in Workers, Sending(v)'
      PROVE  /\ work'[v] = work[v] /\ work[v] \in Entries /\ Sending(v)
             /\ status[work[v]] # "none"
  BY <1>1 DEF OwnersHold, RowsHaveValues, Concerned, Working
<1>2. ASSUME NEW v \in Workers, Sending(v)', ~("lease" \in incidents[work[v]])',
             ~(Retried(work[v]))'
      PROVE  (/\ status[work[v]] \in {"dead", "sent"} \/ Leased(work[v])
              /\ \A u \in Workers : Sending(u) /\ work[u] = work[v] => u = v)'
  <2>1. PICK e \in Entries : e = work[v] /\ work'[v] = e
    BY <1>1, <1>2
  <2>2. "lease" \notin incidents[e] /\ ~Retried(e) /\ ~Retried(e)' /\ "lease" \notin incidents'[e]
    BY <1>2, <2>1 DEF Retried
  <2>3. /\ status[e] \in {"dead", "sent"} \/ Leased(e)
        /\ \A u \in Workers : Sending(u) /\ work[u] = e => u = v
    BY <1>1, <1>2, <2>1, <2>2 DEF SendersHold
  <2>4. status'[e] \in {"dead", "sent"} \/ (status'[e] = "processing" /\ e \notin stale')
    BY <1>1, <1>2, <2>1, <2>2, <2>3 DEF Leased
  <2>5. \A u \in Workers : Sending(u)' /\ work'[u] = e => u = v
    BY <1>1, <2>3
  <2> QED
    BY <2>1, <2>4, <2>5 DEF Leased
<1>3. SendersHold'
  BY <1>2 DEF SendersHold
<1>4. ASSUME NEW v \in Workers, Sending(v)', ~(Slow(work[v]))'
      PROVE  \/ (status[work[v]])' # "sent"
             \/ (pc[v] = "failed" /\ "unacknowledged" \in incidents[work[v]])'
  <2>1. PICK e \in Entries : e = work[v] /\ work'[v] = e
    BY <1>1, <1>4
  <2>2. ~Slow(e)
    BY <1>4, <2>1 DEF Slow
  <2>3. \/ status[e] # "sent"
        \/ pc[v] = "failed" /\ "unacknowledged" \in incidents[e]
    BY <1>1, <1>4, <2>1, <2>2 DEF SendersUnsent
  <2>4. pc'[v] = pc[v] /\ incidents[e] \subseteq incidents'[e]
    BY <1>4, <2>1
  <2> QED
    BY <2>1, <2>3, <2>4
<1>5. SendersUnsent'
  BY <1>4 DEF SendersUnsent
<1>6. SentIsBilled'
  <2>1. ASSUME NEW v \in Workers, pc'[v] = "sent"
        PROVE  billed'[work'[v]] > 0
    BY <1>1, <2>1 DEF SentIsBilled
  <2> QED
    BY <2>1 DEF SentIsBilled
<1> QED
  BY <1>3, <1>5, <1>6

\* A waiting job becomes the active one of a worker that was idle.
LEMMA FetchKeeps ==
  ASSUME IInv, NEW w \in Workers, NEW e \in Entries, NEW n \in Attempts, Fetch(w, e, n)
  PROVE  IInv'
<1> USE DEF IInv, TypeOK
<1>1. /\ pc[w] = "idle" /\ pc' = [pc EXCEPT ![w] = "claim"]
      /\ work[w] = NoEntry /\ work' = [work EXCEPT ![w] = e]
      /\ owns' = [owns EXCEPT ![w] = TRUE]
      /\ active[e] = NoJob /\ active' = [active EXCEPT ![e] = n]
      /\ UNCHANGED << deadLetters, ledger, rows, callers, provider, history, incidents, faults >>
  BY DEF Fetch, QueueStep, Calm, OwnersHold
<1>2. n # NoJob
  BY LimitsAssumption DEF Attempts, NoJob
<1>3. /\ waiting' \in [Entries -> [Attempts -> Nat]]
      /\ \A f \in Entries \ {e} : waiting'[f] = waiting[f]
      /\ Queued(e)
  <2>1. waiting[e][n] > 0 /\ waiting' = [waiting EXCEPT ![e] = [waiting[e] EXCEPT ![n] = @ - 1]]
    BY DEF Fetch
  <2>2. waiting[e][n] - 1 \in Nat
    BY <2>1
  <2>3. [waiting[e] EXCEPT ![n] = @ - 1] \in [Attempts -> Nat]
    BY <2>2
  <2> QED
    BY <2>1, <2>3 DEF Queued
<1>4. TypeOK'
  BY <1>1, <1>3 DEF ledger, rows, callers, provider, history
<1>5. /\ \A f \in Entries \ {e} : (Queued(f)' <=> Queued(f)) /\ active'[f] = active[f]
      /\ \A v \in Workers \ {w} : pc'[v] = pc[v] /\ work'[v] = work[v] /\ owns'[v] = owns[v]
      /\ pc'[w] = "claim" /\ work'[w] = e /\ owns'[w] /\ active'[e] # NoJob
  BY <1>1, <1>2, <1>3 DEF Queued
<1>6. \A f \in Entries : Working(f)' => Working(f)
  BY <1>3, <1>5 DEF Working
<1>7. RowsHaveValues' /\ RetriersHold'
  BY <1>1, <1>6 DEF RowsHaveValues, RetriersHold, Concerned, Retried, rows, callers, provider
<1>8. OwnersHold'
  BY <1>1, <1>2, EntriesAreNumbers DEF OwnersHold
<1>9. LostJobsExpired'
  BY <1>1 DEF LostJobsExpired
<1>10. SendersHold' /\ SendersUnsent' /\ SentIsBilled'
  BY <1>1, <1>4, <1>5, SendersKept DEF Sending, rows, callers, provider, Retried
<1>11. Counted'
  <2> SUFFICES ASSUME NEW f \in Entries, ~Slow(f), ~Retried(f)
               PROVE  CountedOnce(f)'
    BY <1>1 DEF Counted, Slow, Retried, callers
  <2>1. CountedOnce(f) /\ (Returning(f)' => Returning(f))
    BY <1>5 DEF Counted, Returning
  <2>2. Live(f) => Live(f)'
    <3>1. CASE f = e
      <4>1. \A v \in Workers : work[v] # e
        BY <1>1, <3>1, OneWorker DEF Slow
      <4>2. ~Returning(e)'
        BY <1>5, <4>1 DEF Returning
      <4> QED
        BY <1>5, <3>1, <4>2 DEF Live
    <3>2. CASE f # e
      BY <1>5, <2>1, <3>2 DEF Live
    <3> QED
      BY <3>1, <3>2
  <2> QED
    BY <1>1, <1>6, <2>1, <2>2 DEF CountedOnce, rows, callers, provider
<1> QED
  BY <1>4, <1>7, <1>8, <1>9, <1>10, <1>11

\* The job of a worker that died expires: nobody owned it.
LEMMA ExpireKeeps ==
  ASSUME IInv, NEW e \in Entries, Expire(e)
  PROVE  IInv'
<1> USE DEF IInv, TypeOK
<1>1. /\ JobOver(e) /\ Failed(e)
      /\ \A w \in Workers : ~(owns[w] /\ work[w] = e)
      /\ UNCHANGED << workers, ledger, rows, callers, provider, history, incidents, faults >>
  BY DEF Expire, JobOver, QueueStep, Calm
<1>2. /\ waiting' \in [Entries -> [Attempts -> Nat]] /\ deadLetters' \subseteq Entries
      /\ active' = [active EXCEPT ![e] = NoJob]
      /\ \A f \in Entries \ {e} : Queued(f)' <=> Queued(f)
      /\ Queued(e)'
  BY <1>1, JobOverKeeps
<1>3. TypeOK'
  BY <1>1, <1>2 DEF ledger, rows, callers, provider, history, workers
<1>4. \A f \in Entries : Working(f)' => Working(f)
  BY <1>1, <1>2 DEF Working, workers, JobOver
<1>5. RowsHaveValues' /\ RetriersHold'
  BY <1>1, <1>4 DEF RowsHaveValues, RetriersHold, Concerned, Retried, rows, callers, provider
<1>6. OwnersHold' /\ LostJobsExpired'
  BY <1>1, <1>2 DEF OwnersHold, LostJobsExpired, workers
<1>7. SendersHold' /\ SendersUnsent' /\ SentIsBilled'
  BY <1>1, <1>3, SendersKept DEF Sending, rows, callers, provider, Retried, workers
<1>8. Counted'
  <2> SUFFICES ASSUME NEW f \in Entries, ~Slow(f), ~Retried(f)
               PROVE  CountedOnce(f)'
    BY <1>1 DEF Counted, Slow, Retried, callers
  <2>1. CountedOnce(f) /\ (Returning(f)' <=> Returning(f))
    BY <1>1 DEF Counted, Returning, workers
  <2>2. Live(f) => Live(f)'
    BY <1>2, <2>1 DEF Live
  <2> QED
    BY <1>1, <1>4, <2>1, <2>2 DEF CountedOnce, rows, callers, provider
<1> QED
  BY <1>3, <1>5, <1>6, <1>7, <1>8

\* A job expires under its worker: from then on the submission has a slow one.
LEMMA TimeoutKeeps ==
  ASSUME IInv, NEW w \in Workers, Timeout(w)
  PROVE  IInv'
<1> USE DEF IInv, TypeOK
<1>1. PICK e \in Entries : e = work[w] /\ owns[w] /\ active[e] # NoJob
  BY DEF Timeout, OwnersHold
<1>2. /\ owns' = [owns EXCEPT ![w] = FALSE] /\ JobOver(e) /\ Failed(e)
      /\ incidents' = [incidents EXCEPT ![e] = @ \cup {"expired"}]
      /\ faults' = faults + 1 /\ faults < MaxFaults
      /\ UNCHANGED << pc, work, ledger, rows, callers, provider, history >>
  BY <1>1 DEF Timeout, JobOver, QueueStep, Incident
<1>3. /\ waiting' \in [Entries -> [Attempts -> Nat]] /\ deadLetters' \subseteq Entries
      /\ active' = [active EXCEPT ![e] = NoJob]
      /\ \A f \in Entries \ {e} : Queued(f)' <=> Queued(f)
      /\ Queued(e)'
  BY <1>2, JobOverKeeps
<1>4. /\ faults' \in 0 .. MaxFaults
      /\ incidents' \in [Entries -> SUBSET {"enqueue", "lease", "expired", "crash", "answer",
                                           "unacknowledged", "unmarked"}]
      /\ \A f \in Entries : incidents[f] \subseteq incidents'[f]
      /\ "expired" \in incidents'[e] /\ \A f \in Entries \ {e} : incidents'[f] = incidents[f]
  BY <1>2, LimitsAssumption
<1>5. TypeOK'
  BY <1>2, <1>3, <1>4 DEF ledger, rows, callers, provider, history
<1>6. \A f \in Entries : Working(f)' => Working(f)
  BY <1>1, <1>2, <1>3 DEF Working
<1>7. RowsHaveValues' /\ RetriersHold'
  BY <1>2, <1>6 DEF RowsHaveValues, RetriersHold, Concerned, Retried, rows, callers, provider
<1>8. OwnersHold'
  BY <1>1, <1>2, <1>3 DEF OwnersHold
<1>9. LostJobsExpired'
  BY <1>1, <1>2, <1>4 DEF LostJobsExpired
<1>10. SendersHold' /\ SendersUnsent' /\ SentIsBilled'
  BY <1>2, <1>4, <1>5, SendersKept DEF Sending, rows, callers, provider, Retried
<1>11. Counted'
  <2> SUFFICES ASSUME NEW f \in Entries, ~Slow(f)', ~Retried(f)
               PROVE  CountedOnce(f)'
    BY <1>2 DEF Counted, Retried, callers
  <2>1. f # e /\ ~Slow(f)
    BY <1>4 DEF Slow
  <2>2. CountedOnce(f) /\ (Returning(f)' <=> Returning(f))
    BY <1>2, <2>1 DEF Counted, Returning
  <2>3. Live(f) => Live(f)'
    BY <1>3, <2>1, <2>2 DEF Live
  <2> QED
    BY <1>2, <1>6, <2>2, <2>3 DEF CountedOnce, rows, callers, provider
<1> QED
  BY <1>5, <1>7, <1>8, <1>9, <1>10, <1>11

\* The lease of a claim ends; under a sender that is an incident.
LEMMA EndLeaseKeeps ==
  ASSUME IInv, NEW e \in Entries, EndLease(e)
  PROVE  IInv'
<1> USE DEF IInv, TypeOK
<1>1. /\ status[e] = "processing" /\ stale' = stale \cup {e}
      /\ UNCHANGED << ledger, status, value, callers, queue, workers, provider, history >>
  BY DEF EndLease, Leased
<1>2. /\ faults' \in 0 .. MaxFaults
      /\ \/ incidents' = incidents /\ \A w \in Workers : ~(Sending(w) /\ work[w] = e)
         \/ incidents' = [incidents EXCEPT ![e] = @ \cup {"lease"}]
  BY LimitsAssumption DEF EndLease, Incident, Calm
<1>3. /\ incidents' \in [Entries -> SUBSET {"enqueue", "lease", "expired", "crash", "answer",
                                           "unacknowledged", "unmarked"}]
      /\ \A f \in Entries : incidents[f] \subseteq incidents'[f]
      /\ "lease" \in incidents'[e] \/ \A w \in Workers : ~(Sending(w) /\ work[w] = e)
  <2>1. CASE incidents' = incidents /\ \A w \in Workers : ~(Sending(w) /\ work[w] = e)
    BY <2>1
  <2>2. CASE incidents' = [incidents EXCEPT ![e] = @ \cup {"lease"}]
    BY <2>2
  <2> QED
    BY <1>2, <2>1, <2>2
<1>4. TypeOK'
  BY <1>1, <1>2, <1>3 DEF ledger, callers, queue, workers, provider, history
<1>5. \A f \in Entries : /\ Queued(f)' <=> Queued(f)
                         /\ Working(f)' <=> Working(f)
                         /\ Returning(f)' <=> Returning(f)
                         /\ Retried(f)' <=> Retried(f)
                         /\ ~Slow(f)' => ~Slow(f)
  BY <1>1, <1>3 DEF Working, Queued, Returning, Retried, Slow, queue, workers, callers
<1>6. RowsHaveValues' /\ RetriersHold'
  BY <1>1, <1>5 DEF RowsHaveValues, RetriersHold, Concerned, callers, provider
<1>7. OwnersHold' /\ LostJobsExpired'
  <2>1. LostJobsExpired'
    BY <1>1, <1>3 DEF LostJobsExpired, workers
  <2> QED
    BY <1>1, <2>1 DEF OwnersHold, queue, workers
<1>8. SendersHold' /\ SendersUnsent' /\ SentIsBilled'
  <2>1. \A f \in Entries : f \in stale' => f \in stale \/ f = e
    BY <1>1
  <2> QED
    BY <1>1, <1>3, <1>4, <1>5, <2>1, SendersKept DEF Sending, provider, workers
<1>9. Counted'
  BY <1>1, <1>5 DEF Counted, CountedOnce, Live, provider, callers, queue
<1> QED
  BY <1>4, <1>6, <1>7, <1>8, <1>9

\* The dead-letter handler records the failure of a job, and takes it out of its
\* queue.
LEMMA DeadLetterKeeps ==
  ASSUME IInv, NEW e \in Entries, DeadLetter(e)
  PROVE  IInv'
<1> USE DEF IInv, TypeOK
<1>1. /\ e \in deadLetters /\ deadLetters' = deadLetters \ {e}
      /\ status' = [status EXCEPT ![e] = "dead"] /\ stale' = stale \ {e}
      /\ UNCHANGED << waiting, active, workers, provider, ledger, value, callers, history,
                     incidents, faults >>
  BY DEF DeadLetter, DeadLetterAs, Mark, WorkerStep, Calm
<1>2. TypeOK'
  BY <1>1 DEF ledger, callers, workers, provider, history
<1>3. \A f \in Entries : /\ Working(f)' => Working(f)
                         /\ f # e => (Queued(f)' <=> Queued(f))
                         /\ Returning(f)' <=> Returning(f)
                         /\ Retried(f)' <=> Retried(f)
                         /\ Slow(f)' <=> Slow(f)
  BY <1>1 DEF Working, Queued, Returning, Retried, Slow, workers, callers
<1>4. Working(e) /\ value[e] > 0
  BY <1>1 DEF Working, Queued, RowsHaveValues, Concerned
<1>5. RowsHaveValues' /\ RetriersHold'
  BY <1>1, <1>3, <1>4 DEF RowsHaveValues, RetriersHold, Concerned, callers, provider
<1>6. OwnersHold' /\ LostJobsExpired'
  BY <1>1 DEF OwnersHold, LostJobsExpired, workers
<1>7. SendersHold' /\ SendersUnsent' /\ SentIsBilled'
  BY <1>1, <1>2, <1>3, SendersKept DEF Sending, provider, workers
<1>8. Counted'
  <2> SUFFICES ASSUME NEW f \in Entries, ~Slow(f), ~Retried(f), CountedOnce(f)
               PROVE  CountedOnce(f)'
    BY <1>3 DEF Counted
  <2>1. CASE f = e
    BY <1>1, <1>3, <1>4, <2>1 DEF CountedOnce, provider
  <2>2. CASE f # e
    BY <1>1, <1>3, <2>2 DEF CountedOnce, Live, provider, callers
  <2> QED
    BY <2>1, <2>2
<1> QED
  BY <1>2, <1>5, <1>6, <1>7, <1>8

\* The provider forgets what nobody works on: without a reset it is not failed,
\* for a failed submission has a job, nor pending, for it was counted.
LEMMA ForgetKeeps ==
  ASSUME IInv, NEW e \in Entries, Forget(e)
  PROVE  IInv'
<1> USE DEF IInv, TypeOK
<1>1. /\ e \in known /\ known' = known \ {e} /\ ~Working(e) /\ billed[e] > 0
      /\ \A r \in Reconcilers : e \notin dispatch[r]
      /\ UNCHANGED << ledger, rows, callers, queue, workers, billed, history, incidents, faults >>
  BY DEF Forget, Calm
<1>2. TypeOK'
  BY <1>1 DEF ledger, rows, callers, queue, workers, history
<1>3. \A f \in Entries : /\ Working(f)' <=> Working(f)
                         /\ Queued(f)' <=> Queued(f)
                         /\ Returning(f)' <=> Returning(f)
                         /\ Retried(f)' <=> Retried(f)
                         /\ Slow(f)' <=> Slow(f)
  BY <1>1 DEF Working, Queued, Returning, Retried, Slow, workers, callers, queue
<1>4. RowsHaveValues' /\ RetriersHold'
  BY <1>1, <1>3 DEF RowsHaveValues, RetriersHold, Concerned, callers, rows
<1>5. OwnersHold' /\ LostJobsExpired'
  BY <1>1 DEF OwnersHold, LostJobsExpired, workers, queue
<1>6. SendersHold' /\ SendersUnsent' /\ SentIsBilled'
  BY <1>1, <1>2, <1>3, SendersKept DEF Sending, workers, rows
<1>7. Counted'
  <2> SUFFICES ASSUME NEW f \in Entries, ~Slow(f), ~Retried(f), CountedOnce(f)
               PROVE  CountedOnce(f)'
    BY <1>3 DEF Counted
  <2>1. Live(f)' <=> Live(f)
    BY <1>1, <1>3 DEF Live, queue
  <2>2. status[e] = "failed" => ~Live(e)
    BY <1>1 DEF Live, Working
  <2> QED
    BY <1>1, <1>3, <2>1, <2>2 DEF CountedOnce, rows, callers
<1> QED
  BY <1>2, <1>4, <1>5, <1>6, <1>7

\* A late commit of the month concerns no submission yet.
LEMMA LateKeeps ==
  ASSUME IInv, GrantLate \/ \E e \in Entries : PostLate(e)
  PROVE  IInv'
<1> USE DEF IInv, TypeOK
<1>1. /\ UNCHANGED << rows, callers, queue, workers, provider, seen, incidents, faults >>
      /\ posted \subseteq posted' /\ posted' \subseteq Entries /\ granted' \in Plans
      /\ torn' \in BOOLEAN /\ unordered' \in BOOLEAN
  BY DEF GrantLate, PostLate, Plans
<1>2. TypeOK'
  BY <1>1 DEF rows, callers, queue, workers, provider
<1>3. \A f \in Entries : /\ Working(f)' <=> Working(f)
                         /\ Live(f)' <=> Live(f)
                         /\ Returning(f)' <=> Returning(f)
                         /\ Retried(f)' <=> Retried(f)
                         /\ Slow(f)' <=> Slow(f)
  BY <1>1 DEF Working, Queued, Live, Returning, Retried, Slow, workers, callers, queue
<1>4. RowsHaveValues' /\ RetriersHold'
  BY <1>1, <1>3 DEF RowsHaveValues, RetriersHold, Concerned, callers, rows, provider
<1>5. OwnersHold' /\ LostJobsExpired'
  BY <1>1 DEF OwnersHold, LostJobsExpired, workers, queue
<1>6. SendersHold' /\ SendersUnsent' /\ SentIsBilled'
  BY <1>1, <1>2, <1>3, SendersKept DEF Sending, workers, rows, provider
<1>7. Counted'
  BY <1>1, <1>3 DEF Counted, CountedOnce, rows, callers, provider
<1> QED
  BY <1>2, <1>4, <1>5, <1>6, <1>7

\* A call either enqueues a job of e, or records that the queue refused it.
LEMMA SendOrFail ==
  ASSUME IInv, NEW e \in Entries,
         \/ SendJob(e) /\ Calm
         \/ Incident(e, "enqueue") /\ UNCHANGED waiting
  PROVE  /\ waiting' \in [Entries -> [Attempts -> Nat]]
         /\ incidents' \in [Entries -> SUBSET {"enqueue", "lease", "expired", "crash",
                                              "answer", "unacknowledged", "unmarked"}]
         /\ faults' \in 0 .. MaxFaults
         /\ \A f \in Entries :
              /\ f # e => waiting'[f] = waiting[f]
              /\ incidents[f] \subseteq incidents'[f]
              /\ Slow(f)' <=> Slow(f)
         /\ \A n \in Attempts : waiting[e][n] > 0 => \E m \in Attempts : waiting'[e][m] > 0
<1> USE DEF IInv, TypeOK
<1>1. CASE SendJob(e) /\ Calm
  <2>1. 0 \in Attempts
    BY LimitsAssumption DEF Attempts
  <2>2. waiting' = [waiting EXCEPT ![e] = [waiting[e] EXCEPT ![0] = @ + 1]]
    BY <1>1 DEF SendJob
  <2>3. [waiting[e] EXCEPT ![0] = @ + 1] \in [Attempts -> Nat]
    BY <2>1
  <2>4. /\ waiting' \in [Entries -> [Attempts -> Nat]] /\ waiting'[e][0] > 0
        /\ \A f \in Entries \ {e} : waiting'[f] = waiting[f]
    BY <2>1, <2>2, <2>3
  <2> QED
    BY <1>1, <2>1, <2>4 DEF Calm, Slow
<1>2. CASE Incident(e, "enqueue") /\ UNCHANGED waiting
  <2>1. /\ faults' \in 0 .. MaxFaults
        /\ incidents' = [incidents EXCEPT ![e] = @ \cup {"enqueue"}]
    BY <1>2, LimitsAssumption DEF Incident
  <2>2. /\ incidents' \in [Entries -> SUBSET {"enqueue", "lease", "expired", "crash",
                                             "answer", "unacknowledged", "unmarked"}]
        /\ \A f \in Entries : /\ incidents[f] \subseteq incidents'[f]
                              /\ Slow(f)' <=> Slow(f)
    BY <2>1 DEF Slow
  <2> QED
    BY <1>2, <2>1, <2>2
<1> QED
  BY <1>1, <1>2

\* What enqueuing leaves as it is.
LEMMA EnqueueKeeps ==
  ASSUME IInv, NEW e \in Entries, Concerned(e),
         \/ SendJob(e) /\ Calm
         \/ Incident(e, "enqueue") /\ UNCHANGED waiting,
         UNCHANGED << active, deadLetters, workers, ledger, rows, provider, history, allowance,
                     reset >>,
         reconciler' \in [Reconcilers -> {"idle", "read", "list", "enqueue", "done"}],
         dispatch' \in [Reconcilers -> SUBSET Entries],
         \A r \in Reconcilers : dispatch'[r] \subseteq dispatch[r],
         retrier' \in [Retriers -> {"idle", "enqueue", "done"}],
         \A t \in Retriers : retrier'[t] = "idle" <=> retrier[t] = "idle",
         Retried(e) \/ \E r \in Reconcilers : e \in dispatch[r]
  PROVE  IInv'
<1> USE DEF IInv, TypeOK
<1>1. TypeOK'
  BY SendOrFail DEF workers, ledger, rows, provider, history
<1>2. \A f \in Entries : /\ Queued(f) => Queued(f)'
                         /\ Queued(f)' => Queued(f) \/ f = e
                         /\ Slow(f)' <=> Slow(f)
                         /\ Retried(f)' <=> Retried(f)
                         /\ Returning(f)' <=> Returning(f)
  BY SendOrFail DEF Queued, Retried, Returning, workers
<1>3. \A f \in Entries : Working(f)' => Working(f) \/ f = e
  BY <1>2 DEF Working, workers
<1>4. RowsHaveValues' /\ RetriersHold'
  <2>1. \A f \in Entries : Concerned(f)' => Concerned(f)
    BY <1>2, <1>3 DEF Concerned, provider
  <2> QED
    BY <2>1 DEF RowsHaveValues, RetriersHold, rows
<1>5. OwnersHold' /\ LostJobsExpired'
  <2>1. LostJobsExpired'
    BY SendOrFail DEF LostJobsExpired, workers
  <2> QED
    BY <2>1 DEF OwnersHold, workers
<1>6. SendersHold' /\ SendersUnsent' /\ SentIsBilled'
  BY <1>1, <1>2, SendOrFail, SendersKept DEF Sending, workers, rows, provider
<1>7. Counted'
  <2> SUFFICES ASSUME NEW f \in Entries, ~Slow(f), ~Retried(f), CountedOnce(f)
               PROVE  CountedOnce(f)'
    BY <1>2 DEF Counted
  <2>1. Live(f) => Live(f)'
    BY <1>2 DEF Live
  <2>2. billed[f] > 0 /\ f \notin known => f # e
    BY DEF CountedOnce
  <2> QED
    BY <1>2, <1>3, <2>1, <2>2 DEF CountedOnce, rows, provider
<1> QED
  BY <1>1, <1>4, <1>5, <1>6, <1>7

\* A reconciliation inserts rows for settlements that have none, and a row that
\* it dispatches was not forgotten by the provider.
LEMMA ReconcileKeeps ==
  ASSUME IInv, NEW r \in Reconcilers, Reconcile(r)
  PROVE  IInv'
<1> USE DEF IInv, TypeOK
<1>1. ASSUME NEW e \in Entries, Enqueue(r, e)
      PROVE  IInv'
  <2>1. /\ e \in dispatch[r] /\ dispatch' = [dispatch EXCEPT ![r] = @ \ {e}]
        /\ reconciler' \in [Reconcilers -> {"idle", "read", "list", "enqueue", "done"}]
    BY <1>1 DEF Enqueue, DispatchRest, ReconcilerAt
  <2>2. dispatch' \in [Reconcilers -> SUBSET Entries]
    BY <2>1
  <2>3. \A q \in Reconcilers : dispatch'[q] \subseteq dispatch[q]
    BY <2>1
  <2>4. Concerned(e)
    BY <2>1 DEF Concerned
  <2>5. /\ \/ SendJob(e) /\ Calm
           \/ Incident(e, "enqueue") /\ UNCHANGED waiting
        /\ UNCHANGED << active, deadLetters, workers, ledger, rows, provider, history, allowance,
                       reset, retrier >>
    BY <1>1 DEF Enqueue, DispatchRest, ReconcileStep, history
  <2> QED
    BY <2>1, <2>2, <2>3, <2>4, <2>5, EnqueueKeeps
<1>2. CASE ReadAllowance(r) \/ CommitRows(r) \/ ListDispatchable(r)
  <2>1. /\ UNCHANGED << ledger, retrier, reset, queue, workers, provider, torn, unordered,
                       incidents, faults >>
        /\ reconciler' \in [Reconcilers -> {"idle", "read", "list", "enqueue", "done"}]
    BY <1>2 DEF ReadAllowance, CommitRows, ListDispatchable, DispatchRest, ReconcilerAt,
                ReconcileStep, Calm, queue
  <2>2. allowance' \in [Reconcilers -> Nat]
    <3>1. Allowance[granted] \in Nat
      BY AllowanceAssumption
    <3> QED
      BY <1>2, <3>1 DEF ReadAllowance, CommitRows, ListDispatchable, DispatchRest
  <2>3. /\ stale' = stale /\ seen' \subseteq posted
        /\ status' \in [Entries -> {"none", "pending", "processing", "sent", "failed", "dead"}]
        /\ value' \in [Entries -> Nat]
        /\ \A e \in Entries :
             \/ status'[e] = status[e] /\ value'[e] = value[e]
             \/ status[e] = "none" /\ status'[e] = "pending" /\ value'[e] > 0
    <3>1. CASE UNCHANGED << rows, seen >>
      BY <3>1 DEF rows
    <3>2. CASE InsertRows(Allocate(posted, allowance[r])) /\ seen' = posted
      <4>1. \A e \in posted : Allocate(posted, allowance[r])[e] \in Int
        <5>1. ASSUME NEW e \in posted
              PROVE  Allocate(posted, allowance[r])[e] \in Int
          <6>1. /\ UpTo(posted, e) \in SUBSET Entries
                /\ UpTo(posted, e) \ {e} \in SUBSET Entries
            BY DEF UpTo
          <6>2. /\ Overage(UpTo(posted, e), allowance[r]) \in Nat
                /\ Overage(UpTo(posted, e) \ {e}, allowance[r]) \in Nat
            BY <6>1, OverageIsNat
          <6> QED
            BY <6>2 DEF Allocate
        <5> QED
          BY <5>1
      <4>2. DOMAIN Allocate(posted, allowance[r]) = posted
        BY Zenon DEF Allocate
      <4>3. PICK a : a = Allocate(posted, allowance[r])
        OBVIOUS
      <4> QED
        BY <3>2, <4>1, <4>2, <4>3 DEF InsertRows
    <3> QED
      BY <1>2, <3>1, <3>2 DEF ReadAllowance, CommitRows, ListDispatchable, DispatchRest
  <2>4. /\ dispatch' \in [Reconcilers -> SUBSET Entries]
        /\ \A q \in Reconcilers, e \in Entries :
             e \in dispatch'[q] =>
               e \in dispatch[q] \/ (UNCHANGED rows /\ status[e] \in {"pending", "failed"})
    <3>1. CASE dispatch' = dispatch
      BY <3>1
    <3>2. CASE /\ dispatch' = [dispatch EXCEPT
                                 ![r] = {e \in Entries : status[e] \in {"pending", "failed"}}]
               /\ UNCHANGED rows
      BY <3>2
    <3> QED
      BY <1>2, <3>1, <3>2 DEF ReadAllowance, CommitRows, ListDispatchable, DispatchRest
  <2>5. TypeOK'
    <3>1. stale' \subseteq {e \in Entries : status'[e] = "processing"}
      BY <2>3
    <3> QED
      BY <2>1, <2>2, <2>3, <2>4, <3>1 DEF ledger, queue, workers, provider
  <2>6. \A f \in Entries : /\ Working(f)' <=> Working(f)
                           /\ Live(f)' <=> Live(f)
                           /\ Returning(f)' <=> Returning(f)
                           /\ Retried(f)' <=> Retried(f)
                           /\ Slow(f)' <=> Slow(f)
    BY <2>1 DEF Working, Queued, Live, Returning, Retried, Slow, workers, queue
  <2>7. RowsHaveValues' /\ RetriersHold'
    BY <2>1, <2>3, <2>4, <2>6 DEF RowsHaveValues, RetriersHold, Concerned, rows, provider
  <2>8. OwnersHold' /\ LostJobsExpired'
    BY <2>1 DEF OwnersHold, LostJobsExpired, workers, queue
  <2>9. SendersHold' /\ SendersUnsent' /\ SentIsBilled'
    BY <2>1, <2>3, <2>5, <2>6, SendersKept DEF Sending, workers, provider
  <2>10. Counted'
    <3> SUFFICES ASSUME NEW f \in Entries, ~Slow(f), ~Retried(f), CountedOnce(f)
                 PROVE  CountedOnce(f)'
      BY <2>6 DEF Counted
    <3>1. status[f] = "none" => billed[f] = 0 /\ ~Returning(f)
      BY DEF RowsHaveValues, Concerned, Returning, Working
    <3> QED
      BY <2>1, <2>3, <2>4, <2>6, <3>1 DEF CountedOnce, provider, rows
  <2> QED
    BY <2>5, <2>7, <2>8, <2>9, <2>10
<1> QED
  BY <1>1, <1>2 DEF Reconcile

\* A row that is reset and enqueued again is one that somebody retried.
LEMMA RetryKeeps ==
  ASSUME IInv, NEW t \in Retriers, Retry(t)
  PROVE  IInv'
<1> USE DEF IInv, TypeOK
<1>1. CASE EnqueueRetry(t)
  <2>1. PICK e \in Entries : e = reset[t]
    BY <1>1 DEF EnqueueRetry, RetriersHold
  <2>2. Retried(e) /\ Concerned(e)
    BY <2>1 DEF Retried, Concerned
  <2>3. /\ retrier' \in [Retriers -> {"idle", "enqueue", "done"}]
        /\ \A u \in Retriers : retrier'[u] = "idle" <=> retrier[u] = "idle"
    BY <1>1 DEF EnqueueRetry
  <2>4. /\ \/ SendJob(e) /\ Calm
           \/ Incident(e, "enqueue") /\ UNCHANGED waiting
        /\ UNCHANGED << active, deadLetters, workers, ledger, rows, provider, history, allowance,
                       reset, reconciler, dispatch >>
    BY <1>1, <2>1 DEF EnqueueRetry, RetryStep, rows
  <2> QED
    BY <2>2, <2>3, <2>4, EnqueueKeeps
<1>2. ASSUME NEW e \in Entries, Reset(t, e)
      PROVE  IInv'
  <2>1. /\ retrier[t] = "idle" /\ retrier' = [retrier EXCEPT ![t] = "enqueue"]
        /\ status[e] \in {"failed", "dead"} /\ status' = [status EXCEPT ![e] = "pending"]
        /\ reset[t] = NoEntry /\ reset' = [reset EXCEPT ![t] = e]
        /\ UNCHANGED << waiting, ledger, value, stale, reconciler, allowance, dispatch, active,
                       deadLetters, workers, provider, history, incidents, faults >>
    BY <1>2 DEF Reset, ResetFrom, RetryStep, Calm, RetriersHold
  <2>2. TypeOK'
    BY <2>1 DEF ledger, workers, provider, history
  <2>3. \A f \in Entries : /\ Working(f)' <=> Working(f)
                           /\ Live(f)' <=> Live(f)
                           /\ Returning(f)' <=> Returning(f)
                           /\ Slow(f)' <=> Slow(f)
    BY <2>1 DEF Working, Queued, Live, Returning, Slow, workers
  <2>4. \A f \in Entries : /\ Retried(f) => Retried(f)'
                           /\ Retried(f)' => Retried(f) \/ f = e
    BY <2>1, EntriesAreNumbers DEF Retried
  <2>5. Retried(e)'
    BY <2>1 DEF Retried
  <2>6. RowsHaveValues'
    BY <2>1, <2>3, <2>4 DEF RowsHaveValues, Concerned, provider
  <2>7. RetriersHold'
    BY <2>1, EntriesAreNumbers DEF RetriersHold
  <2>8. OwnersHold' /\ LostJobsExpired'
    BY <2>1 DEF OwnersHold, LostJobsExpired, workers
  <2>9. SendersHold' /\ SendersUnsent' /\ SentIsBilled'
    BY <2>1, <2>2, <2>4, <2>5, SendersKept DEF Sending, workers, provider
  <2>10. Counted'
    <3> SUFFICES ASSUME NEW f \in Entries, ~Slow(f), ~Retried(f), f # e, CountedOnce(f)
                 PROVE  CountedOnce(f)'
      BY <2>3, <2>4, <2>5 DEF Counted
    <3> QED
      BY <2>1, <2>3 DEF CountedOnce, provider
  <2> QED
    BY <2>2, <2>6, <2>7, <2>8, <2>9, <2>10
<1> QED
  BY <1>1, <1>2 DEF Retry

\* Every step keeps the invariant.
LEMMA NextIInv == IInv /\ [Next]_vars => IInv'
<1> SUFFICES ASSUME IInv, [Next]_vars
             PROVE  IInv'
  OBVIOUS
<1>1. ASSUME NEW e \in Entries,
             PostLate(e) \/ EndLease(e) \/ Expire(e) \/ DeadLetter(e) \/ Forget(e)
      PROVE  IInv'
  BY <1>1, LateKeeps, EndLeaseKeeps, ExpireKeeps, DeadLetterKeeps, ForgetKeeps
<1>2. ASSUME NEW w \in Workers, Submit(w) \/ Failure(w)
      PROVE  IInv'
  BY <1>2, HandlerKeeps, FetchKeeps, TimeoutKeeps DEF Submit, Failure, Handles
<1>3. CASE UNCHANGED vars
  <2>1. \A e \in Entries : /\ Working(e)' <=> Working(e)
                           /\ Live(e)' <=> Live(e)
                           /\ Returning(e)' <=> Returning(e)
                           /\ Retried(e)' <=> Retried(e)
                           /\ Slow(e)' <=> Slow(e)
    BY <1>3 DEF vars, Working, Queued, Live, Returning, Retried, Slow, workers, queue, callers
  <2>2. TypeOK' /\ RowsHaveValues' /\ RetriersHold' /\ OwnersHold' /\ LostJobsExpired'
    BY <1>3, <2>1
    DEF IInv, TypeOK, RowsHaveValues, Concerned, RetriersHold, OwnersHold, LostJobsExpired, vars,
        ledger, rows, callers, queue, workers, provider, history
  <2>3. SendersHold' /\ SendersUnsent' /\ SentIsBilled'
    BY <1>3, <2>1, <2>2, SendersKept DEF Sending, vars, rows, workers, provider
  <2>4. Counted'
    BY <1>3, <2>1 DEF IInv, Counted, CountedOnce, vars, rows, callers, provider
  <2> QED
    BY <2>2, <2>3, <2>4 DEF IInv
<1> QED
  BY <1>1, <1>2, <1>3, LateKeeps, ReconcileKeeps, RetryKeeps DEF Next

\* The inductive invariant.
LEMMA Invariant == Spec => []IInv
BY InitIInv, NextIInv, PTL DEF Spec

\* A submission has a job or a meter event only if it has a row, a row that is
\* leased has a value, and a worker that owns its job works on the active one,
\* alone.
THEOREM RowsAndJobsAgree == Spec => []MeterInv
<1>1. IInv => MeterInv
  <2> SUFFICES ASSUME IInv
               PROVE  MeterInv
    OBVIOUS
  <2>1. TypeOK /\ OwnersHold
    BY DEF IInv
  <2>2. \A e \in Entries : Working(e) \/ billed[e] > 0 => value[e] > 0
    BY DEF IInv, RowsHaveValues, Concerned
  <2>3. \A e \in Entries : status[e] = "none" <=> value[e] = 0
    BY DEF IInv, RowsHaveValues
  <2> QED
    BY <2>1, <2>2, <2>3 DEF TypeOK, OwnersHold, MeterInv
<1> QED
  BY <1>1, Invariant, PTL

\* What is recorded as sent was counted by the provider, and nothing is counted
\* twice unless a worker was slow or somebody retried the submission: not by any
\* number of reconciliations, crashes, lost answers and failed writes, although
\* the provider forgets the identifiers.
THEOREM SecondBillIsExplained == Spec => []BilledOnce
<1>1. IInv => BilledOnce
  <2> SUFFICES ASSUME IInv, NEW e \in Entries
               PROVE  /\ status[e] = "sent" => billed[e] > 0
                      /\ billed[e] > 1 => Slow(e) \/ Retried(e)
    BY DEF BilledOnce
  <2>1. status[e] = "sent" => billed[e] > 0
    BY DEF IInv, SentIsBilled
  <2>2. CountedOnce(e) => ~(billed[e] > 1)
    BY DEF IInv, TypeOK, CountedOnce
  <2> QED
    BY <2>1, <2>2 DEF IInv, Counted
<1> QED
  BY <1>1, Invariant, PTL

\* Two workers send the same submission only after the job of one expired and its
\* claim was lost.
THEOREM SendersAreAlone == Spec => []OneSender
<1>1. IInv => OneSender
  <2> SUFFICES ASSUME IInv, NEW v \in Workers, NEW w \in Workers, Sending(v), Sending(w),
                      work[w] = work[v], v # w
               PROVE  /\ "expired" \in incidents[work[v]]
                      /\ "lease" \in incidents[work[v]] \/ Retried(work[v])
    BY DEF OneSender
  <2>1. work[v] \in Entries
    BY DEF IInv, OwnersHold, TypeOK, Sending
  <2>2. "expired" \in incidents[work[v]]
    BY <2>1, OneWorker
  <2>3. "lease" \in incidents[work[v]] \/ Retried(work[v])
    BY DEF IInv, SendersHold
  <2> QED
    BY <2>2, <2>3
<1> QED
  BY <1>1, Invariant, PTL

\* A submission that was sent stays sent, unless another of its jobs is in the
\* dead-letter queue, a worker was slow or the mark was not acknowledged.
THEOREM SentStaysSent == Spec => SentIsFinal
<1>1. ASSUME IInv, [Next]_vars, NEW e \in Entries, status[e] = "sent", status'[e] # "sent"
      PROVE  \/ status'[e] = "dead" /\ e \in deadLetters
             \/ status'[e] = "failed" /\ "unacknowledged" \in incidents[e]
             \/ Slow(e)
  <2> USE <1>1 DEF IInv, TypeOK
  <2>1. ASSUME NEW w \in Workers, Handles(w)
        PROVE  \/ status'[e] = "failed" /\ "unacknowledged" \in incidents[e]
               \/ Slow(e)
    <3>1. e = work[w]
      BY <2>1, HandlerOthers
    <3>2. ~Claimable(e)
      BY DEF Claimable
    <3>3. Sending(w)
      BY <2>1, <3>1, <3>2, HandlerSends DEF Mark, Sending
    <3>4. pc[w] # "failed" => status'[e] = "sent"
      BY <2>1, <3>1, <3>3, HandlerSends DEF Mark, Sending, Ends, Stop
    <3>5. pc[w] = "failed" => status'[e] = "failed"
      BY <2>1, <3>1, HandlerSends DEF Mark, Ends, Stop
    <3> QED
      BY <3>1, <3>3, <3>4, <3>5 DEF SendersUnsent
  <2>2. ASSUME NEW w \in Workers, Timeout(w) \/ \E f \in Entries, n \in Attempts : Fetch(w, f, n)
        PROVE  FALSE
    BY <2>2 DEF Timeout, Fetch, QueueStep, rows
  <2>3. ASSUME NEW f \in Entries, PostLate(f) \/ EndLease(f) \/ Expire(f) \/ Forget(f)
        PROVE  FALSE
    BY <2>3 DEF PostLate, EndLease, Expire, Forget, QueueStep, rows
  <2>4. ASSUME NEW f \in Entries, DeadLetter(f)
        PROVE  status'[e] = "dead" /\ e \in deadLetters
    BY <2>4 DEF DeadLetter, DeadLetterAs, Mark
  <2>5. ASSUME NEW r \in Reconcilers, Reconcile(r)
        PROVE  FALSE
    BY <2>5 DEF Reconcile, ReadAllowance, CommitRows, InsertRows, ListDispatchable, Enqueue,
                DispatchRest, rows
  <2>6. ASSUME NEW t \in Retriers, Retry(t)
        PROVE  FALSE
    BY <2>6 DEF Retry, EnqueueRetry, Reset, ResetFrom
  <2>7. CASE GrantLate \/ UNCHANGED vars
    BY <2>7 DEF GrantLate, vars, rows
  <2> QED
    BY <2>1, <2>2, <2>3, <2>4, <2>5, <2>6, <2>7 DEF Next, Submit, Failure, Handles
<1>2. IInv /\ [Next]_vars =>
        [\A e \in Entries :
           status[e] = "sent" /\ status'[e] # "sent" =>
             \/ status'[e] = "dead" /\ e \in deadLetters
             \/ status'[e] = "failed" /\ "unacknowledged" \in incidents[e]
             \/ Slow(e)]_vars
  BY <1>1
<1> QED
  BY <1>2, Invariant, PTL DEF Spec, SentIsFinal

-----------------------------------------------------------------------------
(***************************************************************************)
(* The rows and the overage of the ledger.                                 *)
(***************************************************************************)
StarterLimit == Allowance["starter"]
ProLimit == Allowance["pro"]

\* What the settlement e adds to the overage of the settlements s above a.
Share(s, e, a) == Overage(UpTo(s, e), a) - Overage(UpTo(s, e) \ {e}, a)

\* Whatever a reconciliation has read, a row charges no more than the share of its
\* settlement above the smaller allowance.
CapInv ==
  /\ \A r \in Reconcilers : reconciler[r] = "read" => allowance[r] \in {StarterLimit, ProLimit}
  /\ granted # "pro" => \A e \in Entries : value[e] = 0
  /\ \A e \in Entries : value[e] > 0 => e \in posted
  /\ \A e \in posted : value[e] <= Share(posted, e, StarterLimit)

\* As long as no grant fell between the reads of a reconciliation, a row charges
\* no more than the share of its settlement, and exactly its share if the
\* settlements came in order.
RowsInv ==
  ~torn =>
    /\ \A r \in Reconcilers : reconciler[r] = "read" => allowance[r] = Allowance[granted]
    /\ \A e \in posted : value[e] <= Share(posted, e, ProLimit)
    /\ ~unordered =>
         /\ \A e \in posted \ seen, f \in seen : f < e
         /\ \A e \in Entries : value[e] = IF e \in seen THEN Share(seen, e, ProLimit) ELSE 0

\* The costs of more settlements are no less.
LEMMA SpentGrows ==
  ASSUME NEW S \in SUBSET Entries, NEW T \in SUBSET S
  PROVE  Spent(T) <= Spent(S) /\ \A e \in S : Spent(S) = Cost[e] + Spent(S \ {e})
<1>1. IsFiniteSet(S) /\ \A e \in S : Cost[e] \in Nat
  BY EntriesAreNumbers, FS_Subset
<1>2. \A s : Spent(s) = SumOf(Cost, s)
  BY DEF Spent, SumOf
<1>3. SumOf(Cost, T) <= SumOf(Cost, S)
  BY <1>1, SumOfSubset
<1>4. \A e \in S : SumOf(Cost, S) = Cost[e] + SumOf(Cost, S \ {e})
  BY <1>1, SumOfRest
<1> QED
  BY <1>2, <1>3, <1>4

LEMMA LimitsAreNat == StarterLimit \in Nat /\ ProLimit \in Nat /\ StarterLimit <= ProLimit
BY AllowanceAssumption DEF StarterLimit, ProLimit, Plans

\* A share is a number, and grows with the settlements before its own and as the
\* allowance shrinks.
LEMMA ShareGrows ==
  ASSUME NEW S \in SUBSET Entries, NEW T \in SUBSET S, NEW e \in T,
         NEW a \in Nat, NEW b \in Nat, b <= a
  PROVE  /\ Share(T, e, a) \in Nat /\ Share(S, e, b) \in Nat
         /\ Share(T, e, a) <= Share(S, e, b)
<1> DEFINE A == UpTo(T, e) \ {e}
           B == UpTo(S, e) \ {e}
<1>1. /\ UpTo(S, e) \in SUBSET Entries /\ UpTo(T, e) \in SUBSET UpTo(S, e)
      /\ A \in SUBSET B /\ B \in SUBSET Entries /\ e \in UpTo(T, e)
  BY EntriesAreNumbers DEF UpTo
<1>2. /\ Spent(A) \in Nat /\ Spent(B) \in Nat /\ Spent(A) <= Spent(B)
      /\ Spent(UpTo(T, e)) = Cost[e] + Spent(A)
      /\ Spent(UpTo(S, e)) = Cost[e] + Spent(B)
  BY <1>1, SpentIsNat, SpentGrows
<1>3. Cost[e] \in Nat
  BY EntriesAreNumbers
<1>4. /\ Share(T, e, a) = Overage(UpTo(T, e), a) - Overage(A, a)
      /\ Share(S, e, b) = Overage(UpTo(S, e), b) - Overage(B, b)
  BY DEF Share
<1>5. /\ Overage(A, a) = Positive(Spent(A) - a)
      /\ Overage(B, b) = Positive(Spent(B) - b)
      /\ Overage(UpTo(T, e), a) = Positive(Spent(UpTo(T, e)) - a)
      /\ Overage(UpTo(S, e), b) = Positive(Spent(UpTo(S, e)) - b)
  BY DEF Overage
<1> HIDE DEF A, B
<1> QED
  BY <1>2, <1>3, <1>4, <1>5 DEF Positive

\* Later settlements do not change a share.
LEMMA ShareStays ==
  ASSUME NEW S \in SUBSET Entries, NEW T \in SUBSET S, NEW e \in T, NEW a,
         \A f \in S \ T : e < f
  PROVE  Share(S, e, a) = Share(T, e, a)
<1>1. UpTo(S, e) = UpTo(T, e)
  BY EntriesAreNumbers DEF UpTo
<1> QED
  BY <1>1 DEF Share

\* allocateClosedPeriodOverage distributes the overage, all of it and no more.
LEMMA SharesAddUp ==
  ASSUME NEW S \in SUBSET Entries, NEW a \in Nat
  PROVE  SumOf([e \in S |-> Share(S, e, a)], S) = Overage(S, a)
<1> DEFINE C == {s \in SUBSET S : SumOf([e \in s |-> Share(s, e, a)], s) # Overage(s, a)}
<1> SUFFICES ASSUME C # {} PROVE FALSE
  OBVIOUS
<1>1. IsFiniteSet(S)
  BY EntriesAreNumbers, FS_Subset
<1>2. PICK T \in C : \A U \in C : U \subseteq T => U = T
  <2>1. C \in SUBSET SUBSET S
    OBVIOUS
  <2> HIDE DEF C
  <2> QED
    BY <1>1, <2>1, SmallestSet
<1>3. IsFiniteSet(T) /\ T \in SUBSET Entries /\ \A e \in T : e \in Nat
  BY <1>1, <1>2, EntriesAreNumbers, FS_Subset
<1>4. CASE T = {}
  <2>1. \A c : SumOf(c, {}) = 0
    BY SumOfNone, Zenon
  <2>2. Overage({}, a) = 0
    <3>1. Spent({}) = SumOf(Cost, {})
      BY DEF Spent, SumOf
    <3> QED
      BY <2>1, <3>1 DEF Overage, Positive
  <2> QED
    BY <1>2, <1>4, <2>1, <2>2
<1>5. CASE T # {}
  <2>1. PICK m \in T : \A x \in T : x <= m
    BY <1>3, <1>5, GreatestElement
  <2> DEFINE U == T \ {m}
             all == [e \in T |-> Share(T, e, a)]
             rest == [e \in U |-> Share(U, e, a)]
  <2>2. U \in SUBSET S /\ U \notin C
    BY <1>2, <2>1
  <2>3. SumOf(rest, U) = Overage(U, a)
    BY <2>2
  <2>4. ASSUME NEW e \in U
        PROVE  all[e] \in Nat /\ rest[e] = all[e]
    <3>1. U \in SUBSET T /\ \A f \in T \ U : e < f
      BY <1>3, <2>1
    <3> QED
      BY <1>3, <2>4, <3>1, ShareGrows, ShareStays
  <2>5. IsFiniteSet(U)
    BY <1>3, FS_RemoveElement
  <2>6. \A e \in T : all[e] \in Nat
    BY <1>3, ShareGrows
  <2>7. SumOf(all, T) = all[m] + SumOf(all, U)
    <3> HIDE DEF all
    <3> QED
      BY <1>3, <2>1, <2>6, SumOfRest
  <2>8. SumOf(all, U) = SumOf(rest, U)
    <3> HIDE DEF all, rest, U
    <3> QED
      BY <2>4, <2>5, SumOfSame
  <2>9. UpTo(T, m) = T
    BY <2>1 DEF UpTo
  <2>10. all[m] = Overage(T, a) - Overage(U, a)
    BY <2>1, <2>9 DEF Share
  <2>11. Overage(T, a) \in Nat /\ Overage(U, a) \in Nat
    BY <1>3, OverageIsNat
  <2>12. SumOf(all, T) = Overage(T, a)
    <3> HIDE DEF all, rest, U
    <3> QED
      BY <2>3, <2>7, <2>8, <2>10, <2>11
  <2> QED
    BY <1>2, <2>12
<1> QED
  BY <1>4, <1>5

\* Nothing is charged before the first reconciliation.
LEMMA ChargesInit == Init => CapInv /\ RowsInv
<1> SUFFICES ASSUME Init
             PROVE  CapInv /\ RowsInv
  OBVIOUS
<1>1. /\ \A e \in Entries : value[e] = 0
      /\ \A r \in Reconcilers : reconciler[r] # "read"
      /\ seen = {} /\ posted \in SUBSET Entries
  BY DEF Init
<1>2. \A e \in posted : /\ Share(posted, e, ProLimit) \in Nat
                        /\ Share(posted, e, StarterLimit) \in Nat
  BY <1>1, LimitsAreNat, ShareGrows
<1> QED
  BY <1>1, <1>2 DEF CapInv, RowsInv

\* Steps that neither read nor write the ledger and the values.
LEMMA ChargesKept ==
  ASSUME CapInv, RowsInv, UNCHANGED << ledger, value, history >>,
         \A r \in Reconcilers :
           reconciler'[r] = "read" => reconciler[r] = "read" /\ allowance'[r] = allowance[r]
  PROVE  CapInv' /\ RowsInv'
<1>1. CapInv'
  BY DEF CapInv, ledger, Share, Overage, UpTo, StarterLimit, ProLimit
<1>2. RowsInv'
  BY DEF RowsInv, ledger, history, Share, Overage, UpTo, ProLimit
<1> QED
  BY <1>1, <1>2

\* A settlement that comes late only adds to the shares of those after it; the
\* ones that were read all come before it, unless it came out of order.
LEMMA PostLateCharges ==
  ASSUME IInv, CapInv, RowsInv, NEW e \in Entries, PostLate(e)
  PROVE  CapInv' /\ RowsInv'
<1>1. /\ e \notin posted /\ posted' = posted \cup {e} /\ posted \in SUBSET Entries
      /\ posted' \in SUBSET Entries /\ posted \in SUBSET posted' /\ seen \subseteq posted
      /\ unordered' = (unordered \/ \E f \in seen : f > e)
      /\ UNCHANGED << granted, value, reconciler, allowance, seen, torn >>
  BY DEF PostLate, IInv, TypeOK, rows, callers
<1>2. value[e] = 0
  BY <1>1 DEF CapInv, IInv, TypeOK
<1>3. ASSUME NEW a \in Nat, NEW f \in posted', f \in posted => value[f] <= Share(posted, f, a)
      PROVE  value[f] <= Share(posted', f, a)
  <2>1. Share(posted', f, a) \in Nat
    BY <1>1, <1>3, ShareGrows
  <2>2. CASE f \in posted
    <3>1. Share(posted, f, a) \in Nat /\ Share(posted, f, a) <= Share(posted', f, a)
      BY <1>1, <2>2, ShareGrows
    <3> QED
      BY <1>1, <1>3, <2>1, <2>2, <3>1 DEF IInv, TypeOK
  <2>3. CASE f = e
    BY <1>2, <2>1, <2>3
  <2> QED
    BY <1>1, <1>3, <2>2, <2>3
<1>4. \A s, f, a : Share(s, f, a)' = Share(s', f', a')
  BY DEF Share, Overage, UpTo
<1>5. CapInv'
  <2>1. \A f \in posted' : value'[f] <= Share(posted', f, StarterLimit)
    BY <1>1, <1>3, LimitsAreNat DEF CapInv
  <2> QED
    BY <1>1, <2>1 DEF CapInv, StarterLimit, ProLimit, Share, Overage, UpTo
<1>6. ASSUME ~torn
      PROVE  \A f \in posted' : value'[f] <= Share(posted', f, ProLimit)
  BY <1>1, <1>3, <1>6, LimitsAreNat DEF RowsInv
<1>7. ASSUME ~torn, ~unordered', NEW f \in posted' \ seen, NEW g \in seen
      PROVE  g < f
  <2>1. ~unordered /\ ~\E x \in seen : x > e
    BY <1>7, Zenon DEF PostLate
  <2>2. CASE f \in posted
    BY <1>7, <2>1, <2>2 DEF RowsInv
  <2>3. CASE f = e
    <3>1. g # e /\ g \in Entries /\ ~(g > e)
      BY <1>1, <1>7, <2>1
    <3> QED
      BY <2>3, <3>1, EntriesAreNumbers
  <2> QED
    BY <1>1, <1>7, <2>2, <2>3
<1>8. RowsInv'
  BY <1>1, <1>6, <1>7 DEF RowsInv, ProLimit, Share, Overage, UpTo
<1> QED
  BY <1>5, <1>8

\* The late grant: if no reconciliation is between its reads, the next one reads
\* the allowance of pro, and until now nothing was charged.
LEMMA GrantLateCharges ==
  ASSUME IInv, CapInv, RowsInv, GrantLate
  PROVE  CapInv' /\ RowsInv'
<1>1. /\ granted' = "pro"
      /\ torn' = (torn \/ Reading # {})
      /\ UNCHANGED << posted, value, reconciler, allowance, seen, unordered >>
  BY DEF GrantLate, rows, callers
<1>2. CapInv'
  BY <1>1 DEF CapInv, StarterLimit, ProLimit, Share, Overage, UpTo
<1>3. ASSUME ~torn, Reading = {}
      PROVE  RowsInv'
  <2>1. \A r \in Reconcilers : reconciler[r] # "read"
    BY <1>3 DEF Reading
  <2> QED
    BY <1>1, <1>3, <2>1 DEF RowsInv, ProLimit, Share, Overage, UpTo
<1>4. CASE torn \/ Reading # {}
  <2>1. torn'
    BY <1>1, <1>4, Zenon
  <2> QED
    BY <1>2, <2>1 DEF RowsInv
<1> QED
  BY <1>2, <1>3, <1>4

\* A reconciliation of a month with pro leaves every settlement it has read with
\* its share above the allowance it has read, or with what it was charged before.
LEMMA CommitRowsCharges ==
  ASSUME IInv, CapInv, RowsInv, NEW r \in Reconcilers, CommitRows(r)
  PROVE  CapInv' /\ RowsInv'
<1> USE DEF IInv, TypeOK
<1>1. /\ reconciler[r] = "read" /\ reconciler' = [reconciler EXCEPT ![r] = "list"]
      /\ UNCHANGED << posted, granted, allowance, torn, unordered >>
      /\ \A q \in Reconcilers : reconciler'[q] = "read" => reconciler[q] = "read"
  BY DEF CommitRows, ReconcilerAt, ReconcileStep, ledger
<1>2. CASE ~Eligible
  <2>1. UNCHANGED << value, seen >>
    BY <1>2 DEF CommitRows, rows
  <2> QED
    BY <1>1, <2>1, ChargesKept DEF ledger, history
<1>3. CASE Eligible
  <2>1. PICK a \in {StarterLimit, ProLimit} : a = allowance[r]
    BY <1>1 DEF CapInv
  <2>2. a \in Nat /\ StarterLimit \in Nat /\ StarterLimit <= a /\ granted = "pro"
    BY <1>3, <2>1, LimitsAreNat DEF Eligible
  <2>3. InsertRows(Allocate(posted, a)) /\ seen' = posted
    BY <1>3, <2>1 DEF CommitRows
  <2>4. /\ DOMAIN Allocate(posted, a) = posted
        /\ \A e \in posted : Allocate(posted, a)[e] = Share(posted, e, a)
    BY Zenon DEF Allocate, Share
  <2>5. \A e \in Entries :
          value'[e] = IF e \in posted /\ Share(posted, e, a) > 0 /\ status[e] = "none"
                        THEN Share(posted, e, a) ELSE value[e]
    <3>1. PICK c : c = Allocate(posted, a)
      OBVIOUS
    <3> QED
      BY <2>3, <2>4, <3>1 DEF InsertRows
  <2>6. \A e \in posted : /\ e \in Entries
                          /\ Share(posted, e, a) \in Nat /\ Share(posted, e, StarterLimit) \in Nat
                          /\ Share(posted, e, a) <= Share(posted, e, StarterLimit)
    BY <2>2, ShareGrows
  <2>7. CapInv'
    <3>1. \A e \in posted : value'[e] <= Share(posted, e, StarterLimit)
      BY <2>5, <2>6 DEF CapInv
    <3>2. \A e \in Entries : value'[e] > 0 => e \in posted
      BY <2>5 DEF CapInv
    <3> QED
      BY <1>1, <2>2, <3>1, <3>2 DEF CapInv, StarterLimit, ProLimit, Share, Overage, UpTo
  <2>8. ASSUME ~torn
        PROVE  /\ a = ProLimit
               /\ \A e \in posted : value'[e] <= Share(posted, e, ProLimit)
    <3>1. a = ProLimit
      BY <1>1, <2>1, <2>2, <2>8 DEF RowsInv, ProLimit
    <3> QED
      BY <2>5, <2>6, <2>8, <3>1 DEF RowsInv
  <2>9. ASSUME ~torn, ~unordered, NEW e \in Entries
        PROVE  value'[e] = IF e \in posted THEN Share(posted, e, ProLimit) ELSE 0
    <3>1. value[e] = IF e \in seen THEN Share(seen, e, ProLimit) ELSE 0
      BY <2>9 DEF RowsInv
    <3>2. CASE e \in seen
      <4>1. \A f \in posted \ seen : e < f
        BY <2>9, <3>2 DEF RowsInv
      <4>2. Share(posted, e, ProLimit) = Share(seen, e, ProLimit)
        BY <3>2, <4>1, ShareStays
      <4> QED
        BY <2>5, <2>8, <2>9, <3>1, <3>2, <4>2
    <3>3. CASE e \in posted \ seen
      BY <2>5, <2>6, <2>8, <2>9, <3>1, <3>3 DEF RowsHaveValues
    <3>4. CASE e \notin posted
      BY <2>5, <3>1, <3>4
    <3> QED
      BY <3>2, <3>3, <3>4
  <2>10. RowsInv'
    BY <1>1, <2>2, <2>3, <2>8, <2>9 DEF RowsInv, ProLimit, Share, Overage, UpTo
  <2> QED
    BY <2>7, <2>10
<1> QED
  BY <1>2, <1>3

\* The rows keep up with the ledger at every step.
LEMMA ChargesNext == IInv /\ CapInv /\ RowsInv /\ [Next]_vars => CapInv' /\ RowsInv'
<1> SUFFICES ASSUME IInv, CapInv, RowsInv, [Next]_vars
             PROVE  CapInv' /\ RowsInv'
  OBVIOUS
<1> USE DEF IInv, TypeOK
<1>1. ASSUME NEW w \in Workers, Submit(w) \/ Failure(w)
      PROVE  CapInv' /\ RowsInv'
  <2>1. UNCHANGED << ledger, value, callers, history >>
    <3>1. CASE Handles(w)
      BY <3>1, HandlerSteps
    <3>2. CASE Timeout(w) \/ \E e \in Entries, n \in Attempts : Fetch(w, e, n)
      BY <3>2 DEF Timeout, Fetch, QueueStep, rows
    <3> QED
      BY <1>1, <3>1, <3>2 DEF Submit, Failure, Handles
  <2> QED
    BY <2>1, ChargesKept DEF callers
<1>2. ASSUME NEW e \in Entries, EndLease(e) \/ Expire(e) \/ DeadLetter(e) \/ Forget(e)
      PROVE  CapInv' /\ RowsInv'
  <2>1. UNCHANGED << ledger, value, callers, history >>
    BY <1>2 DEF EndLease, Expire, DeadLetter, DeadLetterAs, Forget, QueueStep, WorkerStep, rows
  <2> QED
    BY <2>1, ChargesKept DEF callers
<1>3. ASSUME NEW t \in Retriers, Retry(t)
      PROVE  CapInv' /\ RowsInv'
  <2>1. UNCHANGED << ledger, value, reconciler, allowance, history >>
    BY <1>3 DEF Retry, EnqueueRetry, Reset, ResetFrom, RetryStep
  <2> QED
    BY <2>1, ChargesKept
<1>4. ASSUME NEW r \in Reconcilers, ReadAllowance(r)
      PROVE  CapInv' /\ RowsInv'
  <2>1. /\ reconciler' = [reconciler EXCEPT ![r] = "read"]
        /\ allowance' = [allowance EXCEPT ![r] = Allowance[granted]]
        /\ UNCHANGED << posted, granted, value, seen, torn, unordered >>
    BY <1>4 DEF ReadAllowance, ReconcilerAt, ReconcileStep, rows, ledger
  <2>2. ~torn => \A q \in Reconcilers : reconciler'[q] = "read" =>
                                          allowance'[q] = Allowance[granted]
    BY <2>1 DEF RowsInv
  <2>3. RowsInv'
    BY <2>1, <2>2 DEF RowsInv, ProLimit, Share, Overage, UpTo
  <2>4. Allowance[granted] \in {StarterLimit, ProLimit}
    BY DEF StarterLimit, ProLimit, Plans
  <2>5. CapInv'
    BY <2>1, <2>4 DEF CapInv, StarterLimit, ProLimit, Share, Overage, UpTo
  <2> QED
    BY <2>3, <2>5
<1>5. ASSUME NEW r \in Reconcilers,
             ListDispatchable(r) \/ \E e \in Entries : Enqueue(r, e)
      PROVE  CapInv' /\ RowsInv'
  <2>1. /\ UNCHANGED << ledger, value, allowance, history >>
        /\ \E s \in {"done", "enqueue"} : reconciler' = [reconciler EXCEPT ![r] = s]
    BY <1>5 DEF ListDispatchable, Enqueue, DispatchRest, ReconcilerAt, ReconcileStep, rows, history
  <2>2. \A q \in Reconcilers : reconciler'[q] = "read" => reconciler[q] = "read"
    BY <2>1
  <2> QED
    BY <2>1, <2>2, ChargesKept
<1>6. CASE UNCHANGED vars
  BY <1>6, ChargesKept DEF vars, callers, rows
<1> QED
  BY <1>1, <1>2, <1>3, <1>4, <1>5, <1>6, PostLateCharges, GrantLateCharges,
     CommitRowsCharges
  DEF Next, Reconcile

\* What a share bounds for every settlement, the overage bounds for the month.
LEMMA SharesBound ==
  ASSUME NEW a \in Nat, IInv, CapInv, \A e \in posted : value[e] <= Share(posted, e, a)
  PROVE  SumOf(value, Entries) <= Overage(posted, a)
<1> DEFINE shares == [e \in posted |-> Share(posted, e, a)]
<1>1. /\ IsFiniteSet(Entries) /\ posted \in SUBSET Entries /\ IsFiniteSet(posted)
      /\ \A e \in Entries : value[e] \in Nat
  BY EntriesAreNumbers, FS_Subset DEF IInv, TypeOK
<1>2. SumOf(shares, posted) = Overage(posted, a)
  BY <1>1, SharesAddUp
<1>3. \A e \in Entries \ posted : value[e] = 0
  BY <1>1 DEF CapInv
<1>4. SumOf(value, posted) = SumOf(value, Entries)
  BY <1>1, <1>3, SumOfSubset
<1>5. \A e \in posted : value[e] \in Nat /\ shares[e] \in Nat /\ value[e] <= shares[e]
  BY <1>1, ShareGrows
<1>6. SumOf(value, posted) <= SumOf(shares, posted)
  <2> HIDE DEF shares
  <2> QED
    BY <1>1, <1>5, SumOfLarger
<1> QED
  BY <1>2, <1>4, <1>6

\* What the rows charge never exceeds the overage of the ledger, not even after a
\* grant between the two reads, and is all of it when the settlements came in
\* order: for any settlements, costs and allowances, any number of reconciliations
\* and late commits.
THEOREM RowsChargeTheOverage == Spec => []RowsMatchOverage
<1>1. IInv /\ CapInv /\ RowsInv => RowsMatchOverage
  <2> SUFFICES ASSUME IInv, CapInv, RowsInv
               PROVE  /\ SumOf(value, Entries) <= Overage(posted, StarterLimit)
                      /\ granted # "pro" => SumOf(value, Entries) = 0
                      /\ ~torn =>
                           /\ SumOf(value, Entries) <= Overage(posted, ProLimit)
                           /\ ~unordered => SumOf(value, Entries) = Overage(seen, ProLimit)
    BY DEF RowsMatchOverage, SumOf, StarterLimit, ProLimit
  <2>1. /\ IsFiniteSet(Entries) /\ \A e \in Entries : value[e] \in Nat
        /\ seen \in SUBSET Entries /\ IsFiniteSet(seen)
    BY EntriesAreNumbers, FS_Subset DEF IInv, TypeOK
  <2>2. SumOf(value, Entries) <= Overage(posted, StarterLimit)
    BY LimitsAreNat, SharesBound DEF CapInv
  <2>3. ASSUME ~torn
        PROVE  SumOf(value, Entries) <= Overage(posted, ProLimit)
    BY <2>3, LimitsAreNat, SharesBound DEF RowsInv
  <2>4. ASSUME granted # "pro"
        PROVE  SumOf(value, Entries) = 0
    <3>1. \A e \in Entries \ {} : value[e] = 0
      BY <2>4 DEF CapInv
    <3>2. SumOf(value, {}) = SumOf(value, Entries)
      BY <2>1, <3>1, SumOfSubset
    <3> QED
      BY <3>2, SumOfNone
  <2>5. ASSUME ~torn, ~unordered
        PROVE  SumOf(value, Entries) = Overage(seen, ProLimit)
    <3> DEFINE shares == [e \in seen |-> Share(seen, e, ProLimit)]
    <3>1. SumOf(shares, seen) = Overage(seen, ProLimit)
      BY <2>1, LimitsAreNat, SharesAddUp
    <3>2. \A e \in Entries \ seen : value[e] = 0
      BY <2>1, <2>5 DEF RowsInv
    <3>3. SumOf(value, seen) = SumOf(value, Entries)
      BY <2>1, <3>2, SumOfSubset
    <3>4. \A e \in seen : value[e] \in Nat /\ shares[e] = value[e]
      BY <2>1, <2>5 DEF RowsInv
    <3>5. SumOf(value, seen) = SumOf(shares, seen)
      <4> HIDE DEF shares
      <4> QED
        BY <2>1, <3>4, SumOfSame
    <3> QED
      BY <3>1, <3>3, <3>5
  <2> QED
    BY <2>2, <2>3, <2>4, <2>5
<1> QED
  BY <1>1, Invariant, ChargesInit, ChargesNext, PTL DEF Spec
=============================================================================
