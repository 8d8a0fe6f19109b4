----------------------- MODULE WebhookDeliveryProofs -----------------------
(***************************************************************************)
(* Machine-checked proofs about WebhookDelivery, for any number of events, *)
(* calls, endpoints, workers, retries, changes of settings and faults.     *)
(***************************************************************************)
EXTENDS WebhookDelivery, FiniteSetTheorems, TLAPS

\* A delivery gets a job only from the publication that inserted its row: while
\* that call holds it no job exists, and no other call holds it as well.
EnqueuedOnce ==
  /\ \A d \in Deliveries : status[d] = "none" => queue[d] = "none"
  /\ \A d \in Deliveries : jobs[d] = (IF queue[d] = "none" THEN 0 ELSE 1)
  /\ \A c \in Publishers, p \in Endpoints :
       publisher[c] = "enqueue" /\ p \in picked[c] =>
         status[<< c[1], p >>] # "none" /\ queue[<< c[1], p >>] = "none"
  /\ \A b, c \in Publishers, p \in Endpoints :
       /\ publisher[b] = "enqueue" /\ p \in picked[b]
       /\ publisher[c] = "enqueue" /\ p \in picked[c]
       /\ b[1] = c[1]
       => b = c

\* A worker works on a delivery that had a job; one that owns its job works on
\* the active one, alone.
OwnersHold ==
  /\ \A w \in Workers : pc[w] = "idle" <=> work[w] = NoDelivery
  /\ \A w \in Workers : work[w] \in Deliveries => queue[work[w]] # "none"
  /\ \A w \in Workers : owns[w] => work[w] \in Deliveries /\ queue[work[w]] = "active"
  /\ \A v, w \in Workers : owns[v] /\ owns[w] /\ work[v] = work[w] => v = w

\* How often the job of a delivery was handed out.
Fetches(d) == retries[d] + (IF queue[d] \in {"none", "queued"} THEN 0 ELSE 1)

\* Workers that still count an attempt, or have counted it and still post.
ToBegin(d) == {w \in Workers : work[w] = d /\ pc[w] \in {"load", "begin"}}
ToPost(d) == {w \in Workers : work[w] = d /\ pc[w] = "post"}

\* Every attempt was fetched, and every request belongs to a counted attempt.
AttemptsCounted ==
  \A d \in Deliveries :
    /\ attempts[d] + Cardinality(ToBegin(d)) <= Fetches(d)
    /\ posts[d] + Cardinality(ToPost(d)) <= attempts[d]

\* Workers that took an endpoint for active and may still send it a request.
Bound(p) == {w \in Workers : pc[w] \in {"begin", "post"} /\ work[w][2] = p}

\* After its deletion an endpoint gets requests of these workers only.
LateBounded ==
  \A p \in Endpoints :
    /\ endpoint[p] # "deleted" => late[p] = 0
    /\ late[p] + Cardinality(Bound(p)) <= Cardinality(Workers)

\* As long as no job of a delivery expired under its worker, whoever works on it
\* owns its job, has not settled it before it ends, and has marked it as being
\* processed when it posts; a success that was not acknowledged may be recorded.
Undisturbed ==
  /\ slow # {} => faults > 0
  /\ \A w \in Workers : work[w] \in Deliveries \ slow =>
       /\ owns[w]
       /\ pc[w] \in {"cancel", "begin"} => status[work[w]] \notin Terminal
       /\ pc[w] \in {"post", "succeed"} => status[work[w]] = "processing"
       /\ pc[w] = "fail" => status[work[w]] \in {"processing", "succeeded"}

\* What is recorded as succeeded was accepted; without a fault this is the only
\* acceptance, and from then on the delivery is about to be recorded or is so.
Accepted ==
  /\ \A d \in Deliveries : status[d] = "succeeded" => accepted[d] > 0
  /\ \A w \in Workers : pc[w] = "succeed" => accepted[work[w]] > 0
  /\ faults = 0 => \A d \in Deliveries :
       /\ queue[d] = "active" => \E w \in Workers : owns[w] /\ work[w] = d
       /\ accepted[d] > 0 =>
            /\ accepted[d] = 1
            /\ \/ \E w \in Workers : work[w] = d /\ pc[w] = "succeed"
               \/ /\ status[d] = "succeeded" /\ queue[d] \in {"active", "done"}
                  /\ \A w \in Workers : work[w] = d => pc[w] = "return"

IInv ==
  /\ TypeOK
  /\ EnqueuedOnce
  /\ OwnersHold
  /\ AttemptsCounted
  /\ LateBounded
  /\ Undisturbed
  /\ Accepted

\* Sets of workers, as one of them joins or leaves.
LEMMA Counting ==
  ASSUME NEW S \in SUBSET Workers, NEW T \in SUBSET Workers
  PROVE  /\ Cardinality(S) \in Nat /\ Cardinality(S) <= Cardinality(Workers)
         /\ T \subseteq S => Cardinality(T) <= Cardinality(S)
         /\ \A w \in Workers : T \subseteq S \cup {w} => Cardinality(T) <= Cardinality(S) + 1
         /\ \A w \in S : T \subseteq S \ {w} => Cardinality(T) <= Cardinality(S) - 1
<1>1. /\ IsFiniteSet(S) /\ IsFiniteSet(T)
      /\ Cardinality(S) \in Nat /\ Cardinality(T) \in Nat /\ Cardinality(Workers) \in Nat
      /\ Cardinality(S) <= Cardinality(Workers)
  BY WorkersAssumption, FS_Subset, FS_CardinalityType
<1>2. T \subseteq S => Cardinality(T) <= Cardinality(S)
  BY <1>1, FS_Subset
<1>3. ASSUME NEW w \in Workers, T \subseteq S \cup {w}
      PROVE  Cardinality(T) <= Cardinality(S) + 1
  <2>1. /\ IsFiniteSet(S \cup {w})
        /\ Cardinality(S \cup {w}) \in {Cardinality(S), Cardinality(S) + 1}
    BY <1>1, FS_AddElement, Zenon
  <2>2. Cardinality(T) <= Cardinality(S \cup {w})
    BY <1>3, <2>1, FS_Subset
  <2> QED
    BY <1>1, <2>1, <2>2
<1>4. ASSUME NEW w \in S, T \subseteq S \ {w}
      PROVE  Cardinality(T) <= Cardinality(S) - 1
  <2>1. IsFiniteSet(S \ {w}) /\ Cardinality(S \ {w}) = Cardinality(S) - 1
    BY <1>1, FS_RemoveElement
  <2>2. Cardinality(T) <= Cardinality(S \ {w})
    BY <1>4, <2>1, FS_Subset
  <2> QED
    BY <1>1, <2>1, <2>2
<1> QED
  BY <1>1, <1>2, <1>3, <1>4

\* Nothing is published, queued or settled.
LEMMA InitIInv == Init => IInv
<1> SUFFICES ASSUME Init
             PROVE  IInv
  OBVIOUS
<1>1. TypeOK
  BY BoundsAssumption DEF Init, TypeOK
<1>2. EnqueuedOnce /\ OwnersHold /\ Undisturbed /\ Accepted
  BY NamesAssumption DEF Init, EnqueuedOnce, OwnersHold, Undisturbed, Accepted, Deliveries,
                         Publishers
<1>3. ASSUME NEW d \in Deliveries
      PROVE  ToBegin(d) = {} /\ ToPost(d) = {}
  BY DEF Init, ToBegin, ToPost
<1>4. ASSUME NEW p \in Endpoints
      PROVE  Bound(p) = {}
  BY DEF Init, Bound
<1>5. Cardinality({}) = 0 /\ Cardinality(Workers) \in Nat
  BY FS_EmptySet, FS_CardinalityType, WorkersAssumption
<1>6. AttemptsCounted
  <2>1. ASSUME NEW d \in Deliveries
        PROVE  attempts[d] = 0 /\ posts[d] = 0 /\ Fetches(d) = 0
    BY <2>1 DEF Init, Fetches
  <2> QED
    BY <1>3, <1>5, <2>1 DEF AttemptsCounted
<1>7. LateBounded
  <2>1. \A p \in Endpoints : late[p] = 0
    BY DEF Init
  <2>2. 0 + 0 <= Cardinality(Workers)
    BY <1>5
  <2> QED
    BY <1>4, <1>5, <2>1, <2>2 DEF LateBounded
<1> QED
  BY <1>1, <1>2, <1>6, <1>7 DEF IInv

\* The job of a worker, a delivery or nobody is over.
JobOver(d) == Completed(d) \/ Failed(d)

\* A worker goes on in its handler, or ends it with the outcome of its job.
Moves(w) ==
  /\ work[w] \in Deliveries
  /\ \E s \in {"load", "cancel", "begin", "post", "succeed", "fail", "return", "throw"} :
       pc[w] = s /\ \E t \in {"cancel", "begin", "post", "succeed", "fail", "return", "throw"} :
          pc' = [pc EXCEPT ![w] = t]
  /\ UNCHANGED << work, owns, jobVars, publication >>

Ends(w) ==
  /\ work[w] \in Deliveries
  /\ pc' = [pc EXCEPT ![w] = "idle"]
  /\ work' = [work EXCEPT ![w] = NoDelivery]
  /\ owns' = [owns EXCEPT ![w] = FALSE]
  /\ \/ owns[w] /\ JobOver(work[w])
     \/ (~owns[w] \/ faults' # 0) /\ UNCHANGED jobVars
  /\ UNCHANGED publication

Handles(w) ==
  \/ Load(w) \/ CancelDelivery(w) \/ BeginAttempt(w) \/ PostAccepted(w) \/ PostFails(w)
  \/ MarkSucceeded(w) \/ MarkFailed(w) \/ EndAttempt(w)
  \/ CrashWorker(w) \/ AnswerLost(w) \/ MarkSucceededFails(w)

\* Every step of a handler moves its worker on or ends its work, and leaves the
\* settings, the publications and the slow deliveries alone.
LEMMA HandlerSteps ==
  ASSUME IInv, NEW w \in Workers, Handles(w)
  PROVE  /\ Moves(w) \/ Ends(w)
         /\ UNCHANGED << settings, slow >>
         /\ faults' \in {faults, faults + 1} /\ faults' \in 0 .. MaxFaults
         /\ status' = status \/ \E s \in {"cancelled", "processing", "succeeded", "failed"} :
                                  status' = [status EXCEPT ![work[w]] = s]
<1>1. /\ pc[w] # "idle" => work[w] \in Deliveries
      /\ faults \in 0 .. MaxFaults /\ MaxFaults \in Nat
  BY BoundsAssumption DEF IInv, OwnersHold, TypeOK
<1> USE <1>1 DEF Goto, At, WorkerStep, Elsewhere, Faulty, rows, SetStatus
<1>2. CASE Load(w)
  BY <1>2 DEF Load, Loaded, Return, Stop, Moves, Ends, JobOver
<1>3. CASE CancelDelivery(w) \/ BeginAttempt(w) \/ MarkSucceeded(w) \/ MarkFailed(w)
  BY <1>3 DEF CancelDelivery, BeginAttempt, MarkSucceeded, MarkFailed, Moves
<1>4. CASE PostAccepted(w) \/ PostFails(w) \/ AnswerLost(w) \/ MarkSucceededFails(w)
  BY <1>4 DEF PostAccepted, PostFails, AnswerLost, MarkSucceededFails, Moves
<1>5. CASE EndAttempt(w)
  BY <1>5 DEF EndAttempt, Return, Throw, Stop, Ends, JobOver
<1>6. CASE CrashWorker(w)
  BY <1>6 DEF CrashWorker, Stop, Ends
<1> QED
  BY <1>2, <1>3, <1>4, <1>5, <1>6 DEF Handles

\* A job that is over was not waiting, and none is lost or added.
LEMMA JobOverKeeps ==
  ASSUME IInv, NEW d \in Deliveries, JobOver(d), queue[d] = "active"
  PROVE  /\ jobs' = jobs
         /\ queue' \in [Deliveries -> {"none", "queued", "active", "done", "dlq", "dead"}]
         /\ retries' \in [Deliveries -> 0 .. RetryLimit]
         /\ queue'[d] \in {"queued", "done", "dlq"}
         /\ \A e \in Deliveries \ {d} : queue'[e] = queue[e]
         /\ \A e \in Deliveries : Fetches(e)' = Fetches(e)
<1> USE DEF IInv, TypeOK
<1>1. jobs' = jobs /\ queue' \in [Deliveries -> {"none", "queued", "active", "done", "dlq", "dead"}]
  BY DEF JobOver, Completed, Failed
<1>2. RetryLimit \in Nat
  BY BoundsAssumption
<1>3. retries' \in [Deliveries -> 0 .. RetryLimit]
  BY <1>2 DEF JobOver, Completed, Failed
<1>4. /\ queue'[d] \in {"queued", "done", "dlq"}
      /\ \A e \in Deliveries \ {d} : queue'[e] = queue[e] /\ retries'[e] = retries[e]
      /\ retries'[d] = IF queue'[d] = "queued" THEN retries[d] + 1 ELSE retries[d]
  BY DEF JobOver, Completed, Failed
<1>5. ASSUME NEW e \in Deliveries
      PROVE  Fetches(e)' = Fetches(e)
  <2>1. CASE e = d
    <3>1. Fetches(d) = retries[d] + 1
      BY DEF Fetches
    <3>2. Fetches(d)' = IF queue'[d] = "queued" THEN retries'[d] + 0 ELSE retries'[d] + 1
      BY <1>4 DEF Fetches
    <3> QED
      BY <1>4, <2>1, <3>1, <3>2
  <2>2. CASE e # d
    BY <1>4, <2>2 DEF Fetches
  <2> QED
    BY <2>1, <2>2
<1> QED
  BY <1>1, <1>3, <1>4, <1>5

\* Ownership through every step of a worker.
LEMMA OwnersStep ==
  ASSUME IInv, NEW w \in Workers,
         Moves(w) \/ Ends(w) \/ Timeout(w) \/ \E d \in Deliveries : Fetch(w, d)
  PROVE  OwnersHold'
<1> USE DEF IInv, OwnersHold, TypeOK
<1>1. CASE Moves(w)
  BY <1>1, NamesAssumption DEF Moves, jobVars
<1>2. CASE Ends(w)
  BY <1>2, NamesAssumption DEF Ends, JobOver, Completed, Failed, jobVars
<1>3. CASE Timeout(w)
  BY <1>3 DEF Timeout, Failed
<1>4. ASSUME NEW d \in Deliveries, Fetch(w, d)
      PROVE  OwnersHold'
  BY <1>4, NamesAssumption DEF Fetch
<1> QED
  BY <1>1, <1>2, <1>3, <1>4

\* A step that publishes nothing and queues nothing new.
LEMMA EnqueuedOnceKept ==
  ASSUME IInv, UNCHANGED << publication, jobs >>,
         \A d \in Deliveries : status'[d] = "none" <=> status[d] = "none",
         \A d \in Deliveries : queue'[d] = "none" <=> queue[d] = "none"
  PROVE  EnqueuedOnce'
  BY DEF IInv, EnqueuedOnce, publication, Deliveries, Publishers

\* A step that counts and sends nothing, and hands out no job.
LEMMA AttemptsKept ==
  ASSUME IInv, UNCHANGED << attempts, posts >>,
         \A d \in Deliveries : /\ Fetches(d)' = Fetches(d)
                               /\ ToBegin(d)' \subseteq ToBegin(d)
                               /\ ToPost(d)' \subseteq ToPost(d)
  PROVE  AttemptsCounted'
<1> SUFFICES ASSUME NEW d \in Deliveries
             PROVE  /\ attempts[d] + Cardinality(ToBegin(d)') <= Fetches(d)
                    /\ posts[d] + Cardinality(ToPost(d)') <= attempts[d]
  BY DEF AttemptsCounted
<1>1. /\ ToBegin(d) \in SUBSET Workers /\ ToBegin(d)' \in SUBSET Workers
      /\ ToPost(d) \in SUBSET Workers /\ ToPost(d)' \in SUBSET Workers
  BY DEF ToBegin, ToPost
<1>2. /\ Cardinality(ToBegin(d)') <= Cardinality(ToBegin(d))
      /\ Cardinality(ToPost(d)') <= Cardinality(ToPost(d))
      /\ Cardinality(ToBegin(d)) \in Nat /\ Cardinality(ToBegin(d)') \in Nat
      /\ Cardinality(ToPost(d)) \in Nat /\ Cardinality(ToPost(d)') \in Nat
  BY <1>1, Counting
<1>3. attempts[d] \in Nat /\ posts[d] \in Nat /\ Fetches(d) \in Nat
  BY BoundsAssumption DEF IInv, TypeOK, Fetches
<1> QED
  BY <1>2, <1>3 DEF IInv, AttemptsCounted

\* A step that sends nothing and takes no endpoint for active.
LEMMA LateKept ==
  ASSUME IInv, UNCHANGED late,
         \A p \in Endpoints : /\ endpoint'[p] # "deleted" => endpoint[p] # "deleted"
                              /\ Bound(p)' \subseteq Bound(p)
  PROVE  LateBounded'
<1> SUFFICES ASSUME NEW p \in Endpoints
             PROVE  late[p] + Cardinality(Bound(p)') <= Cardinality(Workers)
  BY DEF LateBounded, IInv
<1>1. Bound(p) \in SUBSET Workers /\ Bound(p)' \in SUBSET Workers
  BY DEF Bound
<1>2. /\ Cardinality(Bound(p)') <= Cardinality(Bound(p))
      /\ Cardinality(Bound(p)) \in Nat /\ Cardinality(Bound(p)') \in Nat
      /\ Cardinality(Workers) \in Nat
  BY <1>1, Counting, FS_CardinalityType, WorkersAssumption
<1>3. late[p] \in Nat
  BY DEF IInv, TypeOK
<1> QED
  BY <1>2, <1>3 DEF IInv, LateBounded

\* Every job stays what it is when a worker goes on or ends.
LEMMA HandlerJobs ==
  ASSUME IInv, NEW w \in Workers, Moves(w) \/ Ends(w)
  PROVE  /\ UNCHANGED << publication, jobs >>
         /\ queue' \in [Deliveries -> {"none", "queued", "active", "done", "dlq", "dead"}]
         /\ retries' \in [Deliveries -> 0 .. RetryLimit]
         /\ \A d \in Deliveries : /\ Fetches(d)' = Fetches(d)
                                  /\ queue'[d] = "none" <=> queue[d] = "none"
<1>1. CASE UNCHANGED jobVars
  BY <1>1 DEF Moves, Ends, jobVars, IInv, TypeOK, Fetches
<1>2. CASE owns[w] /\ JobOver(work[w])
  <2>1. work[w] \in Deliveries /\ queue[work[w]] = "active"
    BY <1>2 DEF IInv, OwnersHold
  <2> QED
    BY <1>2, <2>1, JobOverKeeps DEF Moves, Ends
<1> QED
  BY <1>1, <1>2 DEF Moves, Ends

\* What the steps of a handler have in common.
LEMMA HandlerKeeps ==
  ASSUME IInv, NEW w \in Workers, Handles(w)
  PROVE  /\ EnqueuedOnce' /\ OwnersHold'
         /\ /\ attempts' \in [Deliveries -> 0 .. RetryLimit + 1]
            /\ posts' \in [Deliveries -> Nat]
            /\ accepted' \in [Deliveries -> Nat]
            /\ late' \in [Endpoints -> Nat]
            => TypeOK'
<1>1. /\ Moves(w) \/ Ends(w)
      /\ UNCHANGED << settings, slow >>
      /\ faults' \in 0 .. MaxFaults
      /\ status' = status \/ \E s \in {"cancelled", "processing", "succeeded", "failed"} :
                               status' = [status EXCEPT ![work[w]] = s]
  BY HandlerSteps
<1>2. work[w] \in Deliveries
  BY <1>1 DEF Moves, Ends
<1>3. TypeOK /\ OwnersHold /\ EnqueuedOnce
  BY DEF IInv
<1>4. status[work[w]] # "none"
  BY <1>2, <1>3 DEF OwnersHold, EnqueuedOnce
<1>5. EnqueuedOnce'
  <2>1. \A d \in Deliveries : status'[d] = "none" <=> status[d] = "none"
    BY <1>1, <1>2, <1>3, <1>4 DEF TypeOK
  <2> QED
    BY <1>1, <2>1, HandlerJobs, EnqueuedOnceKept
<1>6. OwnersHold'
  BY <1>1, OwnersStep
<1>7. /\ pc' \in [Workers -> {"idle", "load", "cancel", "begin", "post", "succeed", "fail",
                              "return", "throw"}]
      /\ work' \in [Workers -> Deliveries \cup {NoDelivery}]
      /\ owns' \in [Workers -> BOOLEAN]
  <2>1. CASE Moves(w)
    BY <1>3, <2>1 DEF TypeOK, Moves
  <2>2. CASE Ends(w)
    BY <1>3, <2>2 DEF TypeOK, Ends
  <2> QED
    BY <1>1, <2>1, <2>2
<1>8. status' \in [Deliveries -> Terminal \cup {"none", "queued", "processing", "failed"}]
  BY <1>1, <1>2, <1>3 DEF TypeOK, Terminal
<1>9. /\ UNCHANGED << publication, jobs >>
      /\ queue' \in [Deliveries -> {"none", "queued", "active", "done", "dlq", "dead"}]
      /\ retries' \in [Deliveries -> 0 .. RetryLimit]
  BY <1>1, HandlerJobs
<1> QED
  BY <1>1, <1>3, <1>5, <1>6, <1>7, <1>8, <1>9 DEF TypeOK, settings, publication

\* A worker counts one attempt when it begins, and sends at most one request
\* for it; in all other steps both counts stay.
LEMMA HandlerAttempts ==
  ASSUME IInv, NEW w \in Workers, Handles(w)
  PROVE  AttemptsCounted' /\ attempts' \in [Deliveries -> 0 .. RetryLimit + 1]
                          /\ posts' \in [Deliveries -> Nat]
<1>1. PICK e \in Deliveries : e = work[w] /\ \A d \in Deliveries : Fetches(d)' = Fetches(d)
  BY HandlerSteps, HandlerJobs DEF Moves, Ends
<1>2. /\ TypeOK /\ RetryLimit \in Nat
      /\ \A d \in Deliveries : Fetches(d) \in 0 .. RetryLimit + 1
  BY BoundsAssumption DEF IInv, TypeOK, Fetches
<1>3. \A d \in Deliveries : /\ ToBegin(d) \in SUBSET Workers /\ ToBegin(d)' \in SUBSET Workers
                            /\ ToPost(d) \in SUBSET Workers /\ ToPost(d)' \in SUBSET Workers
  BY DEF ToBegin, ToPost
<1>4. \A d \in Deliveries : /\ Cardinality(ToBegin(d)) \in Nat /\ Cardinality(ToBegin(d)') \in Nat
                            /\ Cardinality(ToPost(d)) \in Nat /\ Cardinality(ToPost(d)') \in Nat
  BY <1>3, Counting
<1>5. CASE BeginAttempt(w)
  <2>1. /\ attempts' = [attempts EXCEPT ![e] = @ + 1] /\ posts' = posts
        /\ pc[w] = "begin" /\ pc' = [pc EXCEPT ![w] = "post"] /\ work' = work
    BY <1>1, <1>5 DEF BeginAttempt, Goto, At, Elsewhere, requests
  <2>2. /\ w \in ToBegin(e) /\ ToBegin(e)' \subseteq ToBegin(e) \ {w}
        /\ ToPost(e)' \subseteq ToPost(e) \cup {w}
        /\ \A d \in Deliveries \ {e} : ToBegin(d)' = ToBegin(d) /\ ToPost(d)' = ToPost(d)
    BY <1>1, <1>2, <2>1 DEF ToBegin, ToPost, TypeOK
  <2>3. /\ Cardinality(ToBegin(e)') <= Cardinality(ToBegin(e)) - 1
        /\ Cardinality(ToPost(e)') <= Cardinality(ToPost(e)) + 1
    BY <1>1, <1>3, <2>2, Counting
  <2>4. /\ attempts'[e] = attempts[e] + 1 /\ attempts'[e] + Cardinality(ToBegin(e)') <= Fetches(e)
        /\ posts[e] + Cardinality(ToPost(e)') <= attempts'[e]
    BY <1>1, <1>2, <1>4, <2>1, <2>3 DEF IInv, AttemptsCounted, TypeOK
  <2>5. AttemptsCounted'
    BY <1>1, <1>2, <2>1, <2>2, <2>4 DEF IInv, AttemptsCounted, TypeOK
  <2>6. attempts'[e] \in 0 .. RetryLimit + 1
    <3>1. attempts[e] \in Nat /\ Fetches(e) \in Nat /\ Fetches(e) <= RetryLimit + 1
      BY <1>1, <1>2 DEF TypeOK
    <3>2. Cardinality(ToBegin(e)') \in Nat
      BY <1>1, <1>4
    <3> QED
      BY <1>2, <2>4, <3>1, <3>2
  <2> QED
    BY <1>2, <2>1, <2>5, <2>6 DEF TypeOK
<1>6. CASE PostAccepted(w) \/ PostFails(w) \/ AnswerLost(w)
  <2>1. /\ attempts' = attempts
        /\ posts' = posts \/ posts' = [posts EXCEPT ![e] = @ + 1]
        /\ pc[w] = "post" /\ work' = work
        /\ pc' \in {[pc EXCEPT ![w] = "succeed"], [pc EXCEPT ![w] = "fail"]}
    BY <1>1, <1>6 DEF PostAccepted, PostFails, AnswerLost, Accepts, Posted, Goto, At, rows
  <2>2. /\ w \in ToPost(e) /\ ToPost(e)' \subseteq ToPost(e) \ {w}
        /\ \A d \in Deliveries : ToBegin(d)' = ToBegin(d)
        /\ \A d \in Deliveries \ {e} : ToPost(d)' = ToPost(d)
    BY <1>1, <1>2, <2>1 DEF ToBegin, ToPost, TypeOK
  <2>3. Cardinality(ToPost(e)') <= Cardinality(ToPost(e)) - 1
    BY <1>1, <1>3, <2>2, Counting
  <2>4. /\ posts' \in [Deliveries -> Nat] /\ posts'[e] + Cardinality(ToPost(e)') <= attempts[e]
        /\ \A d \in Deliveries \ {e} : posts'[d] = posts[d]
    BY <1>1, <1>2, <1>4, <2>1, <2>3 DEF IInv, AttemptsCounted, TypeOK
  <2> QED
    BY <1>1, <1>2, <2>1, <2>2, <2>4 DEF IInv, AttemptsCounted, TypeOK
<1>7. CASE \/ Load(w) \/ CancelDelivery(w) \/ MarkSucceeded(w) \/ MarkFailed(w) \/ EndAttempt(w)
           \/ CrashWorker(w) \/ MarkSucceededFails(w)
  <2>1. UNCHANGED << attempts, posts >>
    BY <1>7 DEF Load, Loaded, CancelDelivery, MarkSucceeded, MarkFailed, EndAttempt, CrashWorker,
                MarkSucceededFails, Elsewhere, requests, rows, SetStatus
  <2>2. /\ \A v \in Workers \ {w} : pc'[v] = pc[v] /\ work'[v] = work[v]
        /\ pc'[w] \notin {"load", "post"} /\ (pc'[w] = "begin" => pc[w] = "load" /\ work'[w] = e)
    <3>1. CASE CancelDelivery(w) \/ MarkSucceeded(w) \/ MarkFailed(w) \/ MarkSucceededFails(w)
      BY <1>1, <1>2, <3>1
      DEF CancelDelivery, MarkSucceeded, MarkFailed, MarkSucceededFails, Goto, At, TypeOK
    <3>2. CASE Load(w)
      BY <1>1, <1>2, <3>2 DEF Load, Loaded, Goto, At, Return, Stop, TypeOK
    <3>3. CASE EndAttempt(w) \/ CrashWorker(w)
      BY <1>2, <3>3 DEF EndAttempt, CrashWorker, Return, Throw, Stop, TypeOK
    <3> QED
      BY <1>7, <3>1, <3>2, <3>3
  <2>3. \A d \in Deliveries : ToBegin(d)' \subseteq ToBegin(d) /\ ToPost(d)' \subseteq ToPost(d)
    BY <1>1, <2>2 DEF ToBegin, ToPost
  <2> QED
    BY <1>1, <1>2, <2>1, <2>3, AttemptsKept DEF TypeOK
<1> QED
  BY <1>5, <1>6, <1>7 DEF Handles

\* A worker binds itself to an active endpoint, and posts to it once.
LEMMA HandlerLate ==
  ASSUME IInv, NEW w \in Workers, Handles(w)
  PROVE  LateBounded' /\ late' \in [Endpoints -> Nat]
<1>1. PICK e \in Deliveries : e = work[w]
  BY HandlerSteps DEF Moves, Ends
<1>2. /\ TypeOK /\ e[2] \in Endpoints /\ endpoint' = endpoint
      /\ Cardinality(Workers) \in Nat
  BY HandlerSteps, FS_CardinalityType, WorkersAssumption DEF IInv, Deliveries, settings
<1>3. \A p \in Endpoints : Bound(p) \in SUBSET Workers /\ Bound(p)' \in SUBSET Workers
  BY DEF Bound
<1>4. \A p \in Endpoints : /\ Cardinality(Bound(p)) \in Nat /\ Cardinality(Bound(p)') \in Nat
                           /\ Cardinality(Bound(p)') <= Cardinality(Workers)
  BY <1>3, Counting
<1>5. CASE Load(w)
  <2>1. late' = late /\ \A v \in Workers \ {w} : pc'[v] = pc[v] /\ work'[v] = work[v]
    BY <1>2, <1>5 DEF Load, Loaded, Goto, At, Return, Stop, TypeOK, Elsewhere, requests
  <2>2. pc'[w] # "post" /\ (pc'[w] = "begin" => work'[w] = e /\ endpoint[e[2]] = "active")
    BY <1>1, <1>2, <1>5 DEF Load, Loaded, Active, Goto, At, Return, Stop, TypeOK
  <2>3. ASSUME NEW p \in Endpoints
        PROVE  endpoint[p] = "active" \/ Bound(p)' \subseteq Bound(p)
    BY <2>1, <2>2 DEF Bound
  <2>4. ASSUME NEW p \in Endpoints
        PROVE  late[p] + Cardinality(Bound(p)') <= Cardinality(Workers)
    <3>1. CASE endpoint[p] = "active"
      BY <1>2, <1>4, <3>1 DEF IInv, LateBounded
    <3>2. CASE Bound(p)' \subseteq Bound(p)
      <4>1. Cardinality(Bound(p)') <= Cardinality(Bound(p))
        BY <1>3, <3>2, Counting
      <4> QED
        BY <1>2, <1>4, <4>1 DEF IInv, LateBounded, TypeOK
    <3> QED
      BY <2>3, <3>1, <3>2
  <2> QED
    BY <1>2, <2>1, <2>4 DEF IInv, LateBounded, TypeOK
<1>6. CASE PostAccepted(w) \/ PostFails(w) \/ AnswerLost(w)
  <2>1. /\ \/ late' = late
           \/ late' = [late EXCEPT ![e[2]] = IF endpoint[e[2]] = "deleted" THEN @ + 1 ELSE @]
        /\ pc[w] = "post" /\ work' = work
        /\ pc' \in {[pc EXCEPT ![w] = "succeed"], [pc EXCEPT ![w] = "fail"]}
    BY <1>1, <1>6 DEF PostAccepted, PostFails, AnswerLost, Accepts, Posted, Goto, At
  <2>2. /\ w \in Bound(e[2]) /\ Bound(e[2])' \subseteq Bound(e[2]) \ {w}
        /\ \A p \in Endpoints : Bound(p)' \subseteq Bound(p)
    BY <1>1, <1>2, <2>1 DEF Bound, TypeOK
  <2>3. /\ Cardinality(Bound(e[2])') <= Cardinality(Bound(e[2])) - 1
        /\ \A p \in Endpoints : Cardinality(Bound(p)') <= Cardinality(Bound(p))
    BY <1>2, <1>3, <2>2, Counting
  <2>4. /\ late' \in [Endpoints -> Nat]
        /\ late'[e[2]] + Cardinality(Bound(e[2])') <= Cardinality(Workers)
        /\ \A p \in Endpoints : endpoint[p] # "deleted" => late'[p] = 0
        /\ \A p \in Endpoints \ {e[2]} : late'[p] = late[p]
    BY <1>2, <1>4, <2>1, <2>3 DEF IInv, LateBounded, TypeOK
  <2> QED
    BY <1>2, <1>4, <2>3, <2>4 DEF IInv, LateBounded, TypeOK
<1>7. CASE \/ BeginAttempt(w) \/ CancelDelivery(w) \/ MarkSucceeded(w) \/ MarkFailed(w)
           \/ EndAttempt(w) \/ CrashWorker(w) \/ MarkSucceededFails(w)
  <2>1. UNCHANGED late
    BY <1>7 DEF BeginAttempt, CancelDelivery, MarkSucceeded, MarkFailed, EndAttempt, CrashWorker,
                MarkSucceededFails, Elsewhere, requests
  <2>2. /\ \A v \in Workers \ {w} : pc'[v] = pc[v] /\ work'[v] = work[v]
        /\ pc'[w] # "begin" /\ (pc'[w] = "post" => pc[w] = "begin" /\ work'[w] = work[w])
    <3>1. CASE \/ BeginAttempt(w) \/ CancelDelivery(w) \/ MarkSucceeded(w) \/ MarkFailed(w)
               \/ MarkSucceededFails(w)
      BY <1>2, <3>1 DEF BeginAttempt, CancelDelivery, MarkSucceeded, MarkFailed,
                        MarkSucceededFails, Goto, At, TypeOK
    <3>2. CASE EndAttempt(w) \/ CrashWorker(w)
      BY <1>2, <3>2 DEF EndAttempt, CrashWorker, Return, Throw, Stop, TypeOK
    <3> QED
      BY <1>7, <3>1, <3>2
  <2>3. \A p \in Endpoints : Bound(p)' \subseteq Bound(p)
    BY <2>2 DEF Bound
  <2> QED
    BY <1>2, <2>1, <2>3, LateKept DEF TypeOK
<1> QED
  BY <1>5, <1>6, <1>7 DEF Handles

\* A worker alone on its delivery settles it as its last act.
LEMMA HandlerUndisturbed ==
  ASSUME IInv, NEW w \in Workers, Handles(w)
  PROVE  Undisturbed'
<1>1. PICK e \in Deliveries : e = work[w]
  BY HandlerSteps DEF Moves, Ends
<1>2. /\ TypeOK /\ OwnersHold /\ Undisturbed /\ slow' = slow /\ NoDelivery \notin Deliveries
      /\ faults \in Nat /\ faults' \in {faults, faults + 1}
  BY HandlerSteps, NamesAssumption DEF IInv, TypeOK
<1>3. e \notin slow => \A v \in Workers \ {w} : work[v] # e
  BY <1>1, <1>2 DEF OwnersHold, Undisturbed
<1>4. \A v \in Workers \ {w} : pc'[v] = pc[v] /\ work'[v] = work[v] /\ owns'[v] = owns[v]
  BY <1>2, HandlerSteps DEF Moves, Ends, TypeOK
<1>5. \A d \in Deliveries \ {e} : status'[d] = status[d]
  BY <1>1, <1>2, HandlerSteps DEF TypeOK
<1>6. ASSUME work'[w] = e, e \notin slow
      PROVE  /\ owns'[w]
             /\ pc'[w] \in {"cancel", "begin"} => status'[e] \notin Terminal
             /\ pc'[w] \in {"post", "succeed"} => status'[e] = "processing"
             /\ pc'[w] = "fail" => status'[e] \in {"processing", "succeeded"}
  <2>1. Moves(w) /\ owns'[w]
    BY <1>1, <1>2, <1>6, HandlerSteps DEF Moves, Ends, TypeOK, Undisturbed
  <2>2. CASE Load(w)
    BY <1>1, <1>2, <1>6, <2>1, <2>2
    DEF Load, Loaded, Settled, Goto, At, Return, Stop, TypeOK, rows
  <2>3. CASE BeginAttempt(w)
    BY <1>1, <1>2, <2>1, <2>3 DEF BeginAttempt, Goto, TypeOK
  <2>4. CASE PostAccepted(w) \/ PostFails(w) \/ AnswerLost(w) \/ MarkSucceededFails(w)
    BY <1>1, <1>2, <1>6, <2>4
    DEF PostAccepted, PostFails, AnswerLost, MarkSucceededFails, Goto, At, TypeOK, rows,
        SetStatus, Undisturbed
  <2>5. CASE CancelDelivery(w) \/ MarkSucceeded(w) \/ MarkFailed(w)
    BY <1>1, <1>2, <2>1, <2>5 DEF CancelDelivery, MarkSucceeded, MarkFailed, Goto, SetStatus, TypeOK
  <2>6. CASE EndAttempt(w) \/ CrashWorker(w)
    BY <1>1, <1>2, <1>6, <2>6 DEF EndAttempt, CrashWorker, Return, Throw, Stop, TypeOK
  <2> QED
    BY <2>1, <2>2, <2>3, <2>4, <2>5, <2>6 DEF Handles
<1>7. work'[w] = e \/ work'[w] \notin Deliveries
  BY <1>1, <1>2, HandlerSteps DEF Moves, Ends, TypeOK
<1>8. ASSUME NEW v \in Workers, work'[v] \in Deliveries \ slow
      PROVE  /\ owns'[v]
             /\ pc'[v] \in {"cancel", "begin"} => status'[work'[v]] \notin Terminal
             /\ pc'[v] \in {"post", "succeed"} => status'[work'[v]] = "processing"
             /\ pc'[v] = "fail" => status'[work'[v]] \in {"processing", "succeeded"}
  <2>1. CASE v = w
    BY <1>6, <1>7, <1>8, <2>1
  <2>2. CASE v # w
    BY <1>2, <1>3, <1>4, <1>5, <1>8, <2>2 DEF Undisturbed
  <2> QED
    BY <2>1, <2>2
<1> QED
  BY <1>2, <1>8 DEF Undisturbed

\* Without a fault an event is accepted once, and this is recorded next.
LEMMA HandlerAccepted ==
  ASSUME IInv, NEW w \in Workers, Handles(w)
  PROVE  Accepted' /\ accepted' \in [Deliveries -> Nat]
<1>1. PICK e \in Deliveries : e = work[w]
  BY HandlerSteps DEF Moves, Ends
<1>2. /\ TypeOK /\ OwnersHold /\ Undisturbed /\ Accepted /\ NoDelivery \notin Deliveries
      /\ faults \in Nat /\ faults' \in {faults, faults + 1}
  BY HandlerSteps, NamesAssumption DEF IInv, TypeOK
<1>3. \A v \in Workers \ {w} : pc'[v] = pc[v] /\ work'[v] = work[v] /\ owns'[v] = owns[v]
  BY <1>2, HandlerSteps DEF Moves, Ends, TypeOK
<1>4. \A d \in Deliveries \ {e} : status'[d] = status[d]
  BY <1>1, <1>2, HandlerSteps DEF TypeOK
<1>5. /\ accepted' = accepted \/ accepted' = [accepted EXCEPT ![e] = @ + 1]
      /\ accepted' # accepted => /\ pc[w] = "post" /\ work'[w] = e
                                /\ (pc'[w] = "succeed" \/ faults' # 0)
  BY <1>1, <1>2 DEF Handles, Load, Loaded, CancelDelivery, BeginAttempt, PostAccepted, PostFails,
     MarkSucceeded, MarkFailed, EndAttempt, CrashWorker, AnswerLost, MarkSucceededFails, Elsewhere,
     requests, Accepts, Goto, At, Faulty, TypeOK
<1>6. accepted' \in [Deliveries -> Nat] /\ \A d \in Deliveries : accepted'[d] >= accepted[d]
  BY <1>2, <1>5 DEF TypeOK
<1>7. /\ status'[e] = "succeeded" => status[e] = "succeeded" \/ pc[w] = "succeed"
      /\ pc'[w] = "succeed" => work'[w] = e /\ accepted' = [accepted EXCEPT ![e] = @ + 1]
  BY <1>1, <1>2 DEF Handles, Load, Loaded, CancelDelivery, BeginAttempt, PostAccepted, PostFails,
     MarkSucceeded, MarkFailed, EndAttempt, CrashWorker, AnswerLost, MarkSucceededFails, Elsewhere,
     Accepts, Goto, At, Return, Throw, Stop, SetStatus, TypeOK, rows
<1>8. \A d \in Deliveries : status'[d] = "succeeded" => accepted'[d] > 0
  BY <1>1, <1>2, <1>4, <1>6, <1>7 DEF Accepted, TypeOK
<1>9. \A v \in Workers : pc'[v] = "succeed" => accepted'[work'[v]] > 0
  <2>1. ASSUME NEW v \in Workers \ {w}, pc[v] = "succeed"
        PROVE  accepted'[work[v]] > 0
    <3>1. work[v] \in Deliveries
      BY <1>2, <2>1 DEF OwnersHold, TypeOK
    <3> QED
      BY <1>2, <1>6, <2>1, <3>1 DEF Accepted, TypeOK
  <2>2. pc'[w] = "succeed" => accepted'[work'[w]] > 0
    BY <1>2, <1>7 DEF TypeOK
  <2> QED
    BY <1>3, <2>1, <2>2
<1>10. ASSUME faults' = 0, NEW d \in Deliveries
       PROVE  /\ queue'[d] = "active" => \E v \in Workers : owns'[v] /\ work'[v] = d
              /\ accepted'[d] > 0 =>
                   /\ accepted'[d] = 1
                   /\ \/ \E v \in Workers : work'[v] = d /\ pc'[v] = "succeed"
                      \/ /\ status'[d] = "succeeded" /\ queue'[d] \in {"active", "done"}
                         /\ \A v \in Workers : work'[v] = d => pc'[v] = "return"
  <2>1. /\ faults = 0 /\ slow = {} /\ owns[w] /\ queue[e] = "active"
        /\ \A v \in Workers \ {w} : work[v] # e
    BY <1>1, <1>2, <1>10 DEF OwnersHold, Undisturbed
  <2>2. CASE d # e
    <3>1. queue'[d] = queue[d] /\ status'[d] = status[d] /\ accepted'[d] = accepted[d]
      BY <1>1, <1>2, <1>4, <1>5, <2>1, <2>2, HandlerSteps, JobOverKeeps
      DEF Moves, Ends, jobVars, TypeOK
    <3>2. work[w] # d /\ work'[w] # d
      BY <1>1, <1>2, <2>2, HandlerSteps DEF Moves, Ends, TypeOK
    <3> QED
      BY <1>2, <1>3, <2>1, <3>1, <3>2 DEF Accepted
  <2>3. CASE d = e
    <3>1. queue'[e] = "active" => owns'[w] /\ work'[w] = e
      <4>1. CASE Moves(w)
        BY <1>1, <2>1, <4>1 DEF Moves
      <4>2. CASE Ends(w)
        BY <1>1, <1>10, <2>1, <4>2, JobOverKeeps DEF Ends
      <4> QED
        BY <4>1, <4>2, HandlerSteps
    <3>2. pc[w] \notin {"succeed", "return"} => accepted[e] = 0
      BY <1>1, <1>2, <2>1 DEF Accepted, TypeOK
    <3>3. ASSUME accepted'[e] > 0
          PROVE  \/ accepted'[e] = 1 /\ work'[w] = e /\ pc'[w] = "succeed"
                 \/ /\ accepted'[e] = 1 /\ status'[e] = "succeeded"
                    /\ work'[w] = e /\ pc'[w] = "return" /\ queue'[e] = "active"
                 \/ /\ accepted'[e] = 1 /\ status'[e] = "succeeded"
                    /\ work'[w] # e /\ queue'[e] = "done"
      <4>1. CASE accepted' # accepted
        BY <1>1, <1>2, <1>5, <1>10, <3>2, <4>1 DEF TypeOK
      <4>2. CASE accepted' = accepted
        <5>1. pc[w] \in {"succeed", "return"} /\ accepted[e] = 1
              /\ (pc[w] = "return" => status[e] = "succeeded")
          BY <1>1, <1>2, <2>1, <3>2, <3>3, <4>2 DEF Accepted, TypeOK
        <5>2. MarkSucceeded(w) \/ (EndAttempt(w) /\ pc[w] = "return")
          BY <1>2, <1>10, <5>1
          DEF Handles, Load, Loaded, CancelDelivery, BeginAttempt, PostAccepted, PostFails,
              MarkFailed, EndAttempt, CrashWorker, AnswerLost, MarkSucceededFails, Goto, At, Faulty
        <5>3. CASE MarkSucceeded(w)
          BY <1>1, <1>2, <2>1, <4>2, <5>1, <5>3
          DEF MarkSucceeded, Goto, SetStatus, jobVars, TypeOK
        <5>4. CASE EndAttempt(w) /\ pc[w] = "return"
          BY <1>1, <1>2, <2>1, <4>2, <5>1, <5>4
          DEF EndAttempt, At, Return, Stop, Completed, rows, TypeOK
        <5> QED
          BY <5>2, <5>3, <5>4
      <4> QED
        BY <4>1, <4>2
    <3> QED
      BY <1>3, <2>1, <2>3, <3>1, <3>3
  <2> QED
    BY <2>2, <2>3
<1> QED
  BY <1>6, <1>8, <1>9, <1>10 DEF Accepted

\* Every step of a handler.
LEMMA HandlerStep ==
  ASSUME IInv, NEW w \in Workers, Handles(w)
  PROVE  IInv'
  BY HandlerKeeps, HandlerAttempts, HandlerLate, HandlerUndisturbed, HandlerAccepted DEF IInv

\* A worker gets a job that waits, and with it one attempt more.
LEMMA FetchStep ==
  ASSUME IInv, NEW w \in Workers, NEW d \in Deliveries, Fetch(w, d)
  PROVE  IInv'
<1> USE DEF IInv, TypeOK
<1>1. /\ pc[w] = "idle" /\ pc' = [pc EXCEPT ![w] = "load"]
      /\ queue[d] = "queued" /\ queue' = [queue EXCEPT ![d] = "active"]
      /\ work' = [work EXCEPT ![w] = d] /\ owns' = [owns EXCEPT ![w] = TRUE]
      /\ UNCHANGED << settings, rows, publication, jobs, retries, requests, slow, faults >>
  BY DEF Fetch
<1>2. TypeOK'
  BY <1>1 DEF settings, rows, publication, requests
<1>3. EnqueuedOnce'
  BY <1>1, EnqueuedOnceKept DEF rows
<1>4. OwnersHold'
  BY OwnersStep
<1>5. AttemptsCounted'
  <2>1. /\ ToBegin(d)' \subseteq ToBegin(d) \cup {w}
        /\ \A e \in Deliveries \ {d} : ToBegin(e)' \subseteq ToBegin(e)
        /\ \A e \in Deliveries : ToPost(e)' \subseteq ToPost(e)
    BY <1>1 DEF ToBegin, ToPost
  <2>2. \A e \in Deliveries : /\ ToBegin(e) \in SUBSET Workers /\ ToBegin(e)' \in SUBSET Workers
                              /\ ToPost(e) \in SUBSET Workers /\ ToPost(e)' \in SUBSET Workers
    BY DEF ToBegin, ToPost
  <2>3. /\ Cardinality(ToBegin(d)') <= Cardinality(ToBegin(d)) + 1
        /\ \A e \in Deliveries \ {d} : Cardinality(ToBegin(e)') <= Cardinality(ToBegin(e))
        /\ \A e \in Deliveries : Cardinality(ToPost(e)') <= Cardinality(ToPost(e))
    BY <2>1, <2>2, Counting
  <2>4. \A e \in Deliveries : /\ Cardinality(ToBegin(e)) \in Nat /\ Cardinality(ToBegin(e)') \in Nat
                              /\ Cardinality(ToPost(e)) \in Nat /\ Cardinality(ToPost(e)') \in Nat
    BY <2>2, Counting
  <2>5. /\ Fetches(d)' = Fetches(d) + 1
        /\ \A e \in Deliveries \ {d} : Fetches(e)' = Fetches(e)
        /\ \A e \in Deliveries : Fetches(e) \in Nat
    BY <1>1, BoundsAssumption DEF Fetches
  <2>6. \A e \in Deliveries : attempts[e] \in Nat /\ posts[e] \in Nat
    BY BoundsAssumption
  <2>7. attempts[d] + Cardinality(ToBegin(d)') <= Fetches(d)'
    BY <2>3, <2>4, <2>5, <2>6 DEF AttemptsCounted
  <2>8. \A e \in Deliveries \ {d} : attempts[e] + Cardinality(ToBegin(e)') <= Fetches(e)'
    BY <2>3, <2>4, <2>5, <2>6 DEF AttemptsCounted
  <2>9. \A e \in Deliveries : posts[e] + Cardinality(ToPost(e)') <= attempts[e]
    BY <2>3, <2>4, <2>6 DEF AttemptsCounted
  <2> QED
    BY <1>1, <2>7, <2>8, <2>9 DEF AttemptsCounted, rows, requests
<1>6. LateBounded'
  <2>1. \A p \in Endpoints : Bound(p)' \subseteq Bound(p)
    BY <1>1 DEF Bound
  <2> QED
    BY <1>1, <2>1, LateKept DEF settings, requests
<1>7. Undisturbed'
  BY <1>1, NamesAssumption DEF Undisturbed, rows
<1>8. Accepted'
  <2>1. /\ UNCHANGED << status, accepted, faults >>
        /\ \A v \in Workers \ {w} : pc'[v] = pc[v] /\ work'[v] = work[v] /\ owns'[v] = owns[v]
        /\ pc'[w] = "load" /\ work'[w] = d /\ owns'[w] /\ pc[w] = "idle" /\ work[w] = NoDelivery
    BY <1>1 DEF rows, requests, OwnersHold
  <2>2. faults = 0 => accepted[d] = 0
    <3>1. ASSUME faults = 0, NEW v \in Workers, work[v] = d
          PROVE  FALSE
      BY <1>1, <3>1 DEF Undisturbed, OwnersHold
    <3> QED
      BY <1>1, <3>1 DEF Accepted
  <2>3. ASSUME faults = 0, NEW e \in Deliveries
        PROVE  /\ queue'[e] = "active" => \E v \in Workers : owns'[v] /\ work'[v] = e
               /\ accepted[e] > 0 =>
                    /\ accepted[e] = 1
                    /\ \/ \E v \in Workers : work'[v] = e /\ pc'[v] = "succeed"
                       \/ /\ status[e] = "succeeded" /\ queue'[e] \in {"active", "done"}
                          /\ \A v \in Workers : work'[v] = e => pc'[v] = "return"
    <3>1. CASE e = d
      BY <2>1, <2>2, <2>3, <3>1
    <3>2. CASE e # d
      BY <1>1, <2>1, <2>3, <3>2, NamesAssumption DEF Accepted
    <3> QED
      BY <3>1, <3>2
  <2>4. \A v \in Workers : pc'[v] = "succeed" => accepted[work'[v]] > 0
    BY <2>1 DEF Accepted
  <2> QED
    BY <2>1, <2>3, <2>4 DEF Accepted
<1> QED
  BY <1>2, <1>3, <1>4, <1>5, <1>6, <1>7, <1>8

\* The job of a worker that died, or of one that is slow, goes back to the queue.
LEMMA ExpirationStep ==
  ASSUME IInv, NEW d \in Deliveries, queue[d] = "active", Failed(d),
         UNCHANGED << settings, rows, publication, pc, work, requests >>,
         \/ /\ UNCHANGED << owns, slow, faults >>
            /\ \A v \in Workers : ~(owns[v] /\ work[v] = d)
         \/ \E w \in Workers :
              /\ owns[w] /\ work[w] = d /\ owns' = [owns EXCEPT ![w] = FALSE]
              /\ slow' = slow \cup {d} /\ Faulty
  PROVE  IInv'
<1> USE DEF IInv, TypeOK
<1>1. /\ jobs' = jobs
      /\ queue' \in [Deliveries -> {"none", "queued", "active", "done", "dlq", "dead"}]
      /\ retries' \in [Deliveries -> 0 .. RetryLimit]
      /\ queue'[d] \in {"queued", "done", "dlq"}
      /\ \A e \in Deliveries \ {d} : queue'[e] = queue[e]
      /\ \A e \in Deliveries : Fetches(e)' = Fetches(e)
  BY JobOverKeeps DEF JobOver
<1>2. /\ owns' \in [Workers -> BOOLEAN] /\ slow' \subseteq Deliveries /\ faults' \in 0 .. MaxFaults
      /\ \A v \in Workers : owns'[v] => owns[v] /\ work[v] # d
  <2>1. CASE UNCHANGED << owns, slow, faults >> /\ \A v \in Workers : ~(owns[v] /\ work[v] = d)
    BY <2>1
  <2>2. ASSUME NEW w \in Workers, owns[w], work[w] = d, owns' = [owns EXCEPT ![w] = FALSE],
               slow' = slow \cup {d}, Faulty
        PROVE  /\ owns' \in [Workers -> BOOLEAN] /\ slow' \subseteq Deliveries
               /\ faults' \in 0 .. MaxFaults
               /\ \A v \in Workers : owns'[v] => owns[v] /\ work[v] # d
    BY <2>2, BoundsAssumption DEF Faulty, OwnersHold
  <2> QED
    BY <2>1, <2>2
<1>3. TypeOK'
  BY <1>1, <1>2 DEF settings, rows, publication, requests
<1>4. EnqueuedOnce'
  BY <1>1, EnqueuedOnceKept DEF rows
<1>5. OwnersHold'
  BY <1>1, <1>2 DEF OwnersHold
<1>6. AttemptsCounted'
  BY <1>1, AttemptsKept DEF ToBegin, ToPost, rows, requests
<1>7. LateBounded'
  BY LateKept DEF Bound, settings, requests
<1>8. CASE UNCHANGED << owns, slow, faults >> /\ \A v \in Workers : ~(owns[v] /\ work[v] = d)
  <2>1. Undisturbed'
    BY <1>8 DEF Undisturbed, rows
  <2>2. faults # 0
    BY <1>8 DEF Accepted
  <2> QED
    BY <1>3, <1>4, <1>5, <1>6, <1>7, <1>8, <2>1, <2>2 DEF Accepted, rows, requests
<1>9. ASSUME NEW w \in Workers, owns[w], work[w] = d, owns' = [owns EXCEPT ![w] = FALSE],
             slow' = slow \cup {d}, Faulty
      PROVE  IInv'
  <2>1. faults' > 0
    BY <1>9 DEF Faulty
  <2>2. Undisturbed'
    BY <1>9, <2>1 DEF Undisturbed, rows
  <2> QED
    BY <1>3, <1>4, <1>5, <1>6, <1>7, <2>1, <2>2 DEF Accepted, rows, requests
<1> QED
  BY <1>8, <1>9

\* A delivery that waits in the dead-letter queue was not accepted without a fault.
LEMMA DeadLetterStep ==
  ASSUME IInv, NEW d \in Deliveries, DeadLetter(d)
  PROVE  IInv'
<1> USE DEF IInv, TypeOK
<1>1. /\ queue[d] = "dlq" /\ queue' \in {queue, [queue EXCEPT ![d] = "dead"]}
      /\ status' = [status EXCEPT ![d] = "dead"]
      /\ faults' \in {faults, faults + 1} /\ faults' \in 0 .. MaxFaults
      /\ UNCHANGED << settings, attempts, publication, jobs, retries, workers, requests, slow >>
  BY BoundsAssumption DEF DeadLetter, SetStatus, Faulty
<1>2. TypeOK'
  BY <1>1 DEF settings, publication, workers, requests, Terminal
<1>3. \A e \in Deliveries : /\ queue'[e] = "none" <=> queue[e] = "none"
                            /\ queue'[e] = "active" <=> queue[e] = "active"
                            /\ Fetches(e)' = Fetches(e)
  BY <1>1 DEF Fetches
<1>4. EnqueuedOnce'
  BY <1>1, <1>3, EnqueuedOnceKept DEF EnqueuedOnce
<1>5. OwnersHold'
  BY <1>1, <1>3 DEF OwnersHold, workers
<1>6. AttemptsCounted'
  BY <1>1, <1>3, AttemptsKept DEF ToBegin, ToPost, requests, workers
<1>7. LateBounded'
  BY <1>1, LateKept DEF Bound, settings, requests, workers
<1>8. Undisturbed'
  <2>1. \A w \in Workers : work[w] = d => d \in slow
    BY <1>1 DEF Undisturbed, OwnersHold
  <2> QED
    BY <1>1, <2>1 DEF Undisturbed, workers
<1>9. Accepted'
  <2>1. faults = 0 => accepted[d] = 0
    <3>1. faults = 0 => \A w \in Workers : work[w] # d
      BY <1>1 DEF Undisturbed, OwnersHold
    <3> QED
      BY <1>1, <3>1 DEF Accepted
  <2>2. \A e \in Deliveries \ {d} : queue'[e] = queue[e] /\ status'[e] = status[e]
    BY <1>1
  <2> QED
    BY <1>1, <1>3, <2>1, <2>2 DEF Accepted, workers, requests
<1> QED
  BY <1>2, <1>4, <1>5, <1>6, <1>7, <1>8, <1>9

\* The settings: a deleted endpoint stays so.
LEMMA ChangeStep ==
  ASSUME IInv, NEW p \in Endpoints, NEW s \in {"active", "disabled", "deleted"},
         ChangeEndpoint(p, s)
  PROVE  IInv'
<1> USE DEF IInv
<1>1. /\ UNCHANGED << rows, publication, jobVars, workers, requests, slow, faults >>
      /\ endpoint' = [endpoint EXCEPT ![p] = s] /\ endpoint[p] # "deleted"
      /\ changes' \in 0 .. MaxChanges
  BY BoundsAssumption DEF ChangeEndpoint, TypeOK
<1>2. TypeOK'
  BY <1>1 DEF TypeOK, rows, publication, jobVars, workers, requests
<1>3. EnqueuedOnce' /\ OwnersHold' /\ Undisturbed' /\ Accepted'
  BY <1>1 DEF EnqueuedOnce, OwnersHold, Undisturbed, Accepted, rows, publication, jobVars, workers,
              requests
<1>4. AttemptsCounted'
  BY <1>1, AttemptsKept DEF Fetches, ToBegin, ToPost, rows, jobVars, workers, requests
<1>5. LateBounded'
  BY <1>1, LateKept DEF Bound, TypeOK, workers, requests
<1> QED
  BY <1>2, <1>3, <1>4, <1>5

Publishes(c) ==
  \/ SelectEndpoints(c) \/ InsertDeliveries(c)
  \/ \E p \in Endpoints : EnqueueDelivery(c, p) \/ EnqueueFails(c, p)
  \/ FinishPublication(c) \/ CrashPublisher(c)

\* Only rows that are new are enqueued, and only by the call that inserted them.
LEMMA PublicationStep ==
  ASSUME IInv, NEW c \in Publishers, Publishes(c)
  PROVE  IInv'
<1> USE DEF IInv
<1> DEFINE mine(p) == << c[1], p >>
<1>1. /\ c[1] \in Events
      /\ \A p \in Endpoints : mine(p) \in Deliveries
      /\ \A d \in Deliveries : d[2] \in Endpoints /\ (d[1] = c[1] => d = mine(d[2]))
  BY DEF Publishers, Deliveries
<1>2. UNCHANGED << settings, attempts, retries, workers, requests, slow >>
  BY DEF Publishes, SelectEndpoints, InsertDeliveries, InsertFor, EnqueueDelivery, EnqueueFails,
         FinishPublication, CrashPublisher, PublisherStep
<1>3. faults' \in {faults, faults + 1} /\ faults' \in 0 .. MaxFaults /\ faults \in Nat
  <2>1. faults' = faults \/ Faulty
    BY DEF Publishes, SelectEndpoints, InsertDeliveries, InsertFor, EnqueueDelivery,
           EnqueueFails, FinishPublication, CrashPublisher
  <2> QED
    BY <2>1, BoundsAssumption DEF Faulty, TypeOK
<1>4. \/ /\ UNCHANGED << status, jobs, queue >>
         /\ \/ publisher'[c] # "enqueue"
            \/ publisher[c] = "enqueue" /\ picked'[c] \subseteq picked[c]
      \/ /\ publisher'[c] = "enqueue" /\ picked'[c] = New(c) /\ UNCHANGED << jobs, queue >>
         /\ status' = [d \in Deliveries |->
                         IF d[1] = c[1] /\ d[2] \in New(c) THEN "queued" ELSE status[d]]
      \/ \E p \in Endpoints :
           /\ p \in picked[c]
           /\ publisher[c] = "enqueue" /\ picked'[c] = picked[c] \ {p} /\ UNCHANGED status
           /\ jobs' = [jobs EXCEPT ![mine(p)] = @ + 1]
           /\ queue' = [queue EXCEPT ![mine(p)] = "queued"]
  <2>1. CASE SelectEndpoints(c) \/ FinishPublication(c) \/ CrashPublisher(c)
    <3>1. UNCHANGED << status, jobs, queue >>
      BY <2>1 DEF SelectEndpoints, FinishPublication, CrashPublisher
    <3>2. CASE SelectEndpoints(c)
      <4>1. PICK s : publisher' = [publisher EXCEPT ![c] = IF s = {} THEN "done" ELSE "insert"]
        BY <3>2 DEF SelectEndpoints
      <4>2. publisher'[c] # "enqueue"
        <5>1. publisher'[c] = IF s = {} THEN "done" ELSE "insert"
          BY <4>1 DEF TypeOK
        <5> QED
          BY <5>1
      <4> QED
        BY <3>1, <4>2
    <3>3. CASE FinishPublication(c) \/ CrashPublisher(c)
      BY <3>1, <3>3 DEF FinishPublication, CrashPublisher, TypeOK
    <3> QED
      BY <2>1, <3>2, <3>3
  <2>2. CASE InsertDeliveries(c)
    BY <2>2 DEF InsertDeliveries, InsertFor, TypeOK
  <2>3. ASSUME NEW p \in Endpoints, EnqueueFails(c, p)
        PROVE  /\ UNCHANGED << status, jobs, queue >>
               /\ publisher[c] = "enqueue" /\ picked'[c] \subseteq picked[c]
    BY <2>3 DEF EnqueueFails, TypeOK
  <2>4. ASSUME NEW p \in Endpoints, EnqueueDelivery(c, p)
        PROVE  /\ p \in picked[c]
               /\ publisher[c] = "enqueue" /\ picked'[c] = picked[c] \ {p} /\ UNCHANGED status
               /\ jobs' = [jobs EXCEPT ![mine(p)] = @ + 1]
               /\ queue' = [queue EXCEPT ![mine(p)] = "queued"]
    BY <2>4 DEF EnqueueDelivery, TypeOK
  <2> QED
    BY <2>1, <2>2, <2>3, <2>4 DEF Publishes
<1>5. /\ \A d \in Deliveries :
           \/ status'[d] = status[d]
           \/ status[d] = "none" /\ status'[d] = "queued"
      /\ \A d \in Deliveries :
           \/ queue'[d] = queue[d] /\ jobs'[d] = jobs[d]
           \/ /\ queue[d] = "none" /\ queue'[d] = "queued" /\ status[d] # "none"
              /\ jobs'[d] = jobs[d] + 1
      /\ status' \in [Deliveries -> Terminal \cup {"none", "queued", "processing", "failed"}]
      /\ jobs' \in [Deliveries -> Nat]
      /\ queue' \in [Deliveries -> {"none", "queued", "active", "done", "dlq", "dead"}]
  <2>1. CASE UNCHANGED << status, jobs, queue >>
    BY <2>1 DEF TypeOK
  <2>2. CASE /\ UNCHANGED << jobs, queue >>
             /\ status' = [d \in Deliveries |->
                             IF d[1] = c[1] /\ d[2] \in New(c) THEN "queued" ELSE status[d]]
    <3>1. \A d \in Deliveries : d[1] = c[1] /\ d[2] \in New(c) => status[d] = "none"
      BY <1>1 DEF New
    <3> QED
      BY <2>2, <3>1 DEF TypeOK
  <2>3. ASSUME NEW p \in Endpoints, p \in picked[c], publisher[c] = "enqueue", UNCHANGED status,
               jobs' = [jobs EXCEPT ![mine(p)] = @ + 1],
               queue' = [queue EXCEPT ![mine(p)] = "queued"]
        PROVE  /\ \A d \in Deliveries :
                    \/ queue'[d] = queue[d] /\ jobs'[d] = jobs[d]
                    \/ /\ queue[d] = "none" /\ queue'[d] = "queued" /\ status[d] # "none"
                       /\ jobs'[d] = jobs[d] + 1
               /\ jobs' \in [Deliveries -> Nat]
               /\ queue' \in [Deliveries -> {"none", "queued", "active", "done", "dlq", "dead"}]
    <3>1. mine(p) \in Deliveries /\ queue[mine(p)] = "none" /\ status[mine(p)] # "none"
      BY <1>1, <2>3 DEF EnqueuedOnce
    <3> HIDE DEF mine
    <3> QED
      BY <2>3, <3>1 DEF TypeOK
  <2> QED
    BY <1>4, <2>1, <2>2, <2>3 DEF TypeOK
<1>6. \A d \in Deliveries :
        \/ queue'[d] = queue[d]
        \/ queue[d] = "none" /\ queue'[d] = "queued" /\ status[d] # "none"
  BY <1>5
<1>7. TypeOK'
  <2>1. /\ status' \in [Deliveries -> Terminal \cup {"none", "queued", "processing", "failed"}]
        /\ publisher' \in [Publishers -> {"idle", "insert", "enqueue", "done"}]
        /\ picked' \in [Publishers -> SUBSET Endpoints]
    <3>1. status' \in [Deliveries -> Terminal \cup {"none", "queued", "processing", "failed"}]
      BY <1>5
    <3>2. CASE SelectEndpoints(c) \/ FinishPublication(c) \/ CrashPublisher(c)
      BY <3>1, <3>2 DEF SelectEndpoints, FinishPublication, CrashPublisher, TypeOK
    <3>3. CASE InsertDeliveries(c)
      BY <3>1, <3>3 DEF InsertDeliveries, InsertFor, New, TypeOK
    <3>4. CASE \E p \in Endpoints : EnqueueDelivery(c, p) \/ EnqueueFails(c, p)
      BY <3>1, <3>4 DEF EnqueueDelivery, EnqueueFails, TypeOK
    <3> QED
      BY <3>2, <3>3, <3>4 DEF Publishes
  <2>2. /\ jobs' \in [Deliveries -> Nat]
        /\ queue' \in [Deliveries -> {"none", "queued", "active", "done", "dlq", "dead"}]
    BY <1>5
  <2> QED
    BY <1>1, <1>2, <1>3, <2>1, <2>2 DEF TypeOK, settings, workers, requests
<1>8. OwnersHold'
  BY <1>1, <1>2, <1>6 DEF OwnersHold, workers
<1>9. AttemptsCounted' /\ LateBounded'
  <2>1. \A d \in Deliveries : Fetches(d)' = Fetches(d)
    BY <1>2, <1>6 DEF Fetches
  <2> QED
    BY <1>2, <2>1, AttemptsKept, LateKept
    DEF ToBegin, ToPost, Bound, settings, requests, workers
<1>10. Undisturbed'
  <2>1. ASSUME NEW w \in Workers, work[w] \in Deliveries
        PROVE  status'[work[w]] = status[work[w]]
    BY <1>1, <1>5, <2>1 DEF OwnersHold, EnqueuedOnce
  <2> QED
    BY <1>1, <1>2, <1>3, <2>1 DEF Undisturbed, workers
<1>11. Accepted'
  <2>1. ASSUME NEW d \in Deliveries, queue'[d] # queue[d]
        PROVE  accepted[d] = 0 \/ faults # 0
    BY <1>1, <1>6, <2>1 DEF Accepted, OwnersHold, TypeOK, EnqueuedOnce
  <2> QED
    BY <1>1, <1>2, <1>3, <1>5, <1>6, <2>1 DEF Accepted, workers, requests
<1>12. \A b \in Publishers \ {c} : publisher'[b] = publisher[b] /\ picked'[b] = picked[b]
  <2>1. CASE SelectEndpoints(c) \/ FinishPublication(c) \/ CrashPublisher(c)
    BY <2>1 DEF SelectEndpoints, FinishPublication, CrashPublisher, TypeOK
  <2>2. CASE InsertDeliveries(c)
    BY <2>2 DEF InsertDeliveries, InsertFor, TypeOK
  <2>3. CASE \E p \in Endpoints : EnqueueDelivery(c, p) \/ EnqueueFails(c, p)
    BY <2>3 DEF EnqueueDelivery, EnqueueFails, TypeOK
  <2> QED
    BY <2>1, <2>2, <2>3 DEF Publishes
<1>13. ASSUME NEW b \in Publishers, NEW p \in Endpoints, publisher'[b] = "enqueue", p \in picked'[b]
       PROVE  status'[<< b[1], p >>] # "none" /\ queue'[<< b[1], p >>] = "none"
  <2>1. << b[1], p >> \in Deliveries
    BY DEF Publishers, Deliveries
  <2>2. CASE b # c
    <3>1. publisher[b] = "enqueue" /\ p \in picked[b]
      BY <1>12, <1>13, <2>2
    <3>2. status[<< b[1], p >>] # "none" /\ queue[<< b[1], p >>] = "none"
      BY <3>1 DEF EnqueuedOnce
    <3>3. status'[<< b[1], p >>] # "none"
      BY <1>5, <2>1, <3>2
    <3>4. ASSUME NEW q \in Endpoints, q \in picked[c], publisher[c] = "enqueue",
                 queue' = [queue EXCEPT ![mine(q)] = "queued"]
          PROVE  queue'[<< b[1], p >>] = "none"
      <4>1. << b[1], p >> # mine(q)
        BY <2>2, <3>1, <3>4 DEF EnqueuedOnce
      <4> QED
        BY <1>1, <2>1, <3>2, <3>4, <4>1 DEF TypeOK
    <3> QED
      BY <1>4, <3>2, <3>3, <3>4
  <2>3. CASE b = c
    <3>1. CASE /\ publisher[c] = "enqueue" /\ picked'[c] \subseteq picked[c]
               /\ UNCHANGED << status, queue >>
      BY <1>13, <2>3, <3>1 DEF EnqueuedOnce
    <3>2. CASE /\ picked'[c] = New(c) /\ UNCHANGED << jobs, queue >>
               /\ status' = [d \in Deliveries |->
                               IF d[1] = c[1] /\ d[2] \in New(c) THEN "queued" ELSE status[d]]
      <4>1. p \in New(c) /\ status[<< b[1], p >>] = "none"
        BY <1>13, <2>3, <3>2 DEF New
      <4>2. queue'[<< b[1], p >>] = "none"
        BY <2>1, <3>2, <4>1 DEF EnqueuedOnce
      <4>3. status'[<< b[1], p >>] = "queued"
        BY <2>1, <2>3, <3>2, <4>1
      <4> QED
        BY <4>2, <4>3
    <3>3. ASSUME NEW q \in Endpoints, q \in picked[c], publisher[c] = "enqueue",
                 picked'[c] = picked[c] \ {q}, UNCHANGED status,
                 queue' = [queue EXCEPT ![mine(q)] = "queued"]
          PROVE  status'[<< b[1], p >>] # "none" /\ queue'[<< b[1], p >>] = "none"
      <4>1. p \in picked[c] /\ << b[1], p >> # mine(q)
        BY <1>13, <2>3, <3>3
      <4>2. status[<< b[1], p >>] # "none" /\ queue[<< b[1], p >>] = "none"
        BY <2>3, <3>3, <4>1 DEF EnqueuedOnce
      <4> QED
        BY <1>1, <2>1, <3>3, <4>1, <4>2 DEF TypeOK
    <3> QED
      BY <1>4, <1>13, <2>3, <3>1, <3>2, <3>3
  <2> QED
    BY <2>2, <2>3
<1>14. ASSUME NEW a \in Publishers, NEW b \in Publishers, NEW p \in Endpoints, a[1] = b[1],
              publisher'[a] = "enqueue", p \in picked'[a],
              publisher'[b] = "enqueue", p \in picked'[b]
       PROVE  a = b
  <2>1. ASSUME NEW f \in Publishers, f # c, f[1] = c[1], publisher'[f] = "enqueue",
               p \in picked'[f], publisher'[c] = "enqueue", p \in picked'[c]
        PROVE  FALSE
    <3>1. publisher[f] = "enqueue" /\ p \in picked[f] /\ status[mine(p)] # "none"
      BY <1>12, <2>1 DEF EnqueuedOnce
    <3>2. publisher[c] = "enqueue" /\ p \in picked[c]
      BY <1>4, <2>1, <3>1 DEF New
    <3> QED
      BY <2>1, <3>1, <3>2 DEF EnqueuedOnce
  <2>2. CASE a # c /\ b # c
    BY <1>12, <1>14, <2>2 DEF EnqueuedOnce
  <2> QED
    BY <1>14, <2>1, <2>2
<1>15. EnqueuedOnce'
  <2>1. \A d \in Deliveries : status'[d] = "none" => queue'[d] = "none"
    BY <1>5, <1>6 DEF EnqueuedOnce
  <2>2. \A d \in Deliveries : jobs'[d] = (IF queue'[d] = "none" THEN 0 ELSE 1)
    BY <1>5 DEF EnqueuedOnce, TypeOK
  <2> QED
    BY <1>13, <1>14, <2>1, <2>2 DEF EnqueuedOnce
<1> QED
  BY <1>7, <1>8, <1>9, <1>10, <1>11, <1>15

\* Every step of the program, the queue, the endpoints and the settings.
LEMMA IInvStep == IInv /\ [Next]_vars => IInv'
<1> SUFFICES ASSUME IInv, [Next]_vars
             PROVE  IInv'
  OBVIOUS
<1>1. ASSUME NEW c \in Publishers,
             Publish(c) \/ CrashPublisher(c) \/ \E p \in Endpoints : EnqueueFails(c, p)
      PROVE  IInv'
  BY <1>1, PublicationStep DEF Publish, Publishes
<1>2. ASSUME NEW w \in Workers,
             Deliver(w) \/ CrashWorker(w) \/ AnswerLost(w) \/ MarkSucceededFails(w)
      PROVE  IInv'
  BY <1>2, FetchStep, HandlerStep DEF Deliver, Handles
<1>3. ASSUME NEW w \in Workers, Timeout(w)
      PROVE  IInv'
  <2>1. work[w] \in Deliveries /\ queue[work[w]] = "active"
    BY <1>3 DEF Timeout, IInv, OwnersHold
  <2> QED
    BY <1>3, <2>1, ExpirationStep DEF Timeout
<1>4. ASSUME NEW d \in Deliveries, Expire(d)
      PROVE  IInv'
  BY <1>4, ExpirationStep DEF Expire, workers
<1>5. CASE UNCHANGED vars
  <2>1. UNCHANGED << settings, rows, publication, jobVars, workers, requests, slow, faults >>
    BY <1>5 DEF vars
  <2> USE DEF IInv, settings, rows, publication, jobVars, workers, requests
  <2>2. TypeOK'
    BY <2>1 DEF TypeOK
  <2>3. EnqueuedOnce' /\ OwnersHold' /\ Undisturbed' /\ Accepted'
    BY <2>1 DEF EnqueuedOnce, OwnersHold, Undisturbed, Accepted
  <2>4. AttemptsCounted' /\ LateBounded'
    BY <2>1, AttemptsKept, LateKept DEF Fetches, ToBegin, ToPost, Bound
  <2> QED
    BY <2>2, <2>3, <2>4
<1> QED
  BY <1>1, <1>2, <1>3, <1>4, <1>5, ChangeStep, DeadLetterStep DEF Next, Failure

\* The inductive invariant holds in every reachable state.
LEMMA Invariant == Spec => []IInv
  BY InitIInv, IInvStep, PTL DEF Spec

\* The requests a delivery may still get: of the workers that have not posted yet
\* or whose failure will be retried, and of the job that waits for a worker.
Chances(d) ==
  {w \in Workers : /\ work[w] = d
                   /\ \/ pc[w] \in {"load", "begin", "post"}
                      \/ owns[w] /\ pc[w] \in {"fail", "throw"}}
Unowned(d) == \A w \in Workers : ~(owns[w] /\ work[w] = d)
Waits(d) == queue[d] \in {"none", "queued"} \/ (queue[d] = "active" /\ Unowned(d))
Tries(d) == Cardinality(Chances(d)) + (IF Waits(d) THEN 1 ELSE 0)

\* All but one of the acceptances, past and to come, are paid for by a fault.
PaidFor == \A d \in Deliveries : accepted[d] + Tries(d) <= 1 + faults

\* How the chances of a delivery change with one worker.
LEMMA CountingTries ==
  ASSUME NEW d, NEW w \in Workers
  PROVE  /\ Tries(d) \in Nat /\ Tries(d)' \in Nat
         /\ Chances(d)' \subseteq Chances(d) =>
              /\ Tries(d)' <= Tries(d) + 1
              /\ (Waits(d)' => Waits(d)) => Tries(d)' <= Tries(d)
         /\ Chances(d)' \subseteq Chances(d) \cup {w} =>
              /\ (Waits(d)' => Waits(d)) => Tries(d)' <= Tries(d) + 1
              /\ Waits(d) /\ ~Waits(d)' => Tries(d)' <= Tries(d)
         /\ w \in Chances(d) /\ Chances(d)' \subseteq Chances(d) \ {w} =>
              /\ Tries(d)' <= Tries(d)
              /\ (Waits(d)' => Waits(d)) => Tries(d)' <= Tries(d) - 1
<1>1. Chances(d) \in SUBSET Workers /\ Chances(d)' \in SUBSET Workers
  BY DEF Chances
<1>2. /\ Cardinality(Chances(d)) \in Nat /\ Cardinality(Chances(d)') \in Nat
      /\ Chances(d)' \subseteq Chances(d) =>
           Cardinality(Chances(d)') <= Cardinality(Chances(d))
      /\ Chances(d)' \subseteq Chances(d) \cup {w} =>
           Cardinality(Chances(d)') <= Cardinality(Chances(d)) + 1
      /\ w \in Chances(d) /\ Chances(d)' \subseteq Chances(d) \ {w} =>
           Cardinality(Chances(d)') <= Cardinality(Chances(d)) - 1
  BY <1>1, Counting
<1>3. /\ Tries(d) = Cardinality(Chances(d)) + (IF Waits(d) THEN 1 ELSE 0)
      /\ Tries(d)' = Cardinality(Chances(d)') + (IF Waits(d)' THEN 1 ELSE 0)
  BY DEF Tries
<1> QED
  BY <1>2, <1>3

\* A handler uses a chance for every acceptance; only a fault gives one back.
LEMMA HandlerPaid ==
  ASSUME IInv, PaidFor, NEW w \in Workers, Handles(w)
  PROVE  PaidFor'
<1>1. PICK e \in Deliveries : e = work[w]
  BY HandlerSteps DEF Moves, Ends
<1>2. /\ TypeOK /\ OwnersHold /\ NoDelivery \notin Deliveries /\ faults \in Nat
      /\ faults' \in {faults, faults + 1} /\ (Moves(w) \/ Ends(w))
  BY HandlerSteps, NamesAssumption DEF IInv, TypeOK
<1>3. \A v \in Workers \ {w} : pc'[v] = pc[v] /\ work'[v] = work[v] /\ owns'[v] = owns[v]
  BY <1>2 DEF Moves, Ends, TypeOK
<1>4. /\ faults \in Nat
      /\ \A d \in Deliveries : accepted[d] \in Nat /\ accepted[d] + Tries(d) <= 1 + faults
  BY <1>2 DEF PaidFor, TypeOK
<1>5. \A d \in Deliveries \ {e} : accepted'[d] = accepted[d]
  BY <1>1, <1>2 DEF Handles, Load, Loaded, CancelDelivery, BeginAttempt, PostAccepted, PostFails,
     MarkSucceeded, MarkFailed, EndAttempt, CrashWorker, AnswerLost, MarkSucceededFails, Elsewhere,
     requests, Accepts, TypeOK
<1>6. ASSUME NEW d \in Deliveries \ {e}
      PROVE  accepted'[d] + Tries(d)' <= 1 + faults'
  <2>1. work[w] # d /\ work'[w] # d /\ queue'[d] = queue[d]
    <3>1. work'[w] \in {e, NoDelivery}
      BY <1>1, <1>2 DEF Moves, Ends, TypeOK
    <3>2. queue'[d] = queue[d]
      BY <1>1, <1>2, JobOverKeeps DEF Moves, Ends, OwnersHold, jobVars
    <3> QED
      BY <1>1, <1>2, <3>1, <3>2
  <2>2. Chances(d)' \subseteq Chances(d) /\ (Waits(d)' => Waits(d))
    BY <1>3, <2>1 DEF Chances, Waits, Unowned
  <2>3. Tries(d)' <= Tries(d) /\ Tries(d) \in Nat /\ Tries(d)' \in Nat
    BY <2>2, CountingTries
  <2> QED
    BY <1>2, <1>4, <1>5, <2>3
<1>7. /\ Tries(e) \in Nat /\ Tries(e)' \in Nat
      /\ Chances(e)' \subseteq Chances(e) =>
           /\ Tries(e)' <= Tries(e) + 1
           /\ (Waits(e)' => Waits(e)) => Tries(e)' <= Tries(e)
      /\ Chances(e)' \subseteq Chances(e) \cup {w} /\ (Waits(e)' => Waits(e)) =>
           Tries(e)' <= Tries(e) + 1
      /\ w \in Chances(e) /\ Chances(e)' \subseteq Chances(e) \ {w} =>
           /\ Tries(e)' <= Tries(e)
           /\ (Waits(e)' => Waits(e)) => Tries(e)' <= Tries(e) - 1
  BY CountingTries
<1>8. accepted'[e] + Tries(e)' <= 1 + faults'
  <2>1. Moves(w) => (Waits(e)' => Waits(e))
    BY <1>1 DEF Moves, Waits, Unowned, jobVars
  <2>2. CASE Load(w)
    <3>1. accepted' = accepted /\ faults' = faults
      BY <2>2 DEF Load, Loaded, Elsewhere, requests
    <3>2. pc[w] = "load" /\ (pc'[w] \in {"cancel", "begin"} \/ work'[w] # e)
      BY <1>1, <1>2, <2>2 DEF Load, Loaded, Goto, At, Return, Stop, TypeOK
    <3>3. Chances(e)' \subseteq Chances(e)
      BY <1>1, <1>3, <3>2 DEF Chances
    <3>4. CASE Return(w)
      <4>1. Waits(e)' => Waits(e)
        BY <1>1, <1>2, <1>3, <3>4
        DEF Return, Stop, Completed, Waits, Unowned, jobVars, OwnersHold, TypeOK
      <4> QED
        BY <1>4, <1>7, <3>1, <3>3, <4>1
    <3>5. CASE ~Return(w)
      <4>1. Waits(e)' => Waits(e)
        BY <1>1, <2>2, <3>5 DEF Load, Loaded, Goto, Waits, Unowned, jobVars
      <4> QED
        BY <1>4, <1>7, <3>1, <3>3, <4>1
    <3> QED
      BY <3>4, <3>5
  <2>3. CASE \/ CancelDelivery(w) \/ BeginAttempt(w) \/ MarkSucceeded(w) \/ MarkFailed(w)
             \/ PostFails(w)
    <3>1. accepted' = accepted /\ faults' = faults
      BY <2>3 DEF CancelDelivery, BeginAttempt, MarkSucceeded, MarkFailed, PostFails, Elsewhere,
                  requests
    <3>2. /\ UNCHANGED << work, owns, jobVars >>
          /\ \/ pc'[w] = "return"
             \/ pc[w] \in {"begin", "post"}
             \/ pc[w] = "fail" /\ pc'[w] = "throw"
      BY <1>2, <2>3
      DEF CancelDelivery, BeginAttempt, MarkSucceeded, MarkFailed, PostFails, Goto, At, TypeOK
    <3>3. Chances(e)' \subseteq Chances(e) /\ (Waits(e)' => Waits(e))
      <4>1. CASE PostFails(w)
        BY <1>1, <1>3, <3>2, <4>1 DEF Chances, Waits, Unowned, jobVars, PostFails, Goto, At
      <4>2. CASE ~PostFails(w)
        BY <1>1, <1>2, <1>3, <2>3, <3>2, <4>2
        DEF Chances, Waits, Unowned, jobVars, CancelDelivery, BeginAttempt, MarkSucceeded,
            MarkFailed, Goto, At, TypeOK
      <4> QED
        BY <4>1, <4>2
    <3> QED
      BY <1>4, <1>7, <3>1, <3>3
  <2>4. CASE PostAccepted(w)
    <3>1. /\ accepted'[e] = accepted[e] + 1 /\ faults' = faults
          /\ pc[w] = "post" /\ pc'[w] = "succeed" /\ UNCHANGED << work, owns, jobVars >>
      BY <1>1, <1>2, <2>4 DEF PostAccepted, Accepts, Goto, At, TypeOK
    <3>2. w \in Chances(e) /\ Chances(e)' \subseteq Chances(e) \ {w} /\ (Waits(e)' => Waits(e))
      BY <1>1, <1>3, <3>1 DEF Chances, Waits, Unowned, jobVars
    <3> QED
      BY <1>4, <1>7, <3>1, <3>2
  <2>5. CASE AnswerLost(w)
    <3>1. /\ accepted'[e] = accepted[e] + 1 /\ faults' = faults + 1
          /\ pc[w] = "post" /\ UNCHANGED << work, owns, jobVars >>
      BY <1>1, <1>2, <2>5 DEF AnswerLost, Accepts, Goto, At, Faulty, TypeOK
    <3>2. Chances(e)' \subseteq Chances(e) /\ (Waits(e)' => Waits(e))
      BY <1>1, <1>3, <3>1 DEF Chances, Waits, Unowned, jobVars
    <3> QED
      BY <1>2, <1>4, <1>7, <3>1, <3>2
  <2>6. CASE MarkSucceededFails(w)
    <3>1. accepted' = accepted /\ faults' = faults + 1 /\ UNCHANGED << work, owns, jobVars >>
      BY <2>6 DEF MarkSucceededFails, Goto, Faulty, requests
    <3>2. Chances(e)' \subseteq Chances(e) \cup {w} /\ (Waits(e)' => Waits(e))
      BY <1>3, <3>1 DEF Chances, Waits, Unowned, jobVars
    <3> QED
      BY <1>2, <1>4, <1>7, <3>1, <3>2
  <2>7. CASE EndAttempt(w) /\ ~owns[w]
    <3>1. accepted' = accepted /\ faults' = faults /\ work'[w] # e /\ UNCHANGED jobVars
      BY <1>1, <1>2, <2>7
      DEF EndAttempt, Return, Throw, Stop, Elsewhere, requests, TypeOK
    <3>2. Chances(e)' \subseteq Chances(e) /\ (Waits(e)' => Waits(e))
      BY <1>3, <2>7, <3>1 DEF Chances, Waits, Unowned, jobVars
    <3> QED
      BY <1>4, <1>7, <3>1, <3>2
  <2>8. CASE EndAttempt(w) /\ owns[w] /\ pc[w] = "return"
    <3>1. accepted' = accepted /\ faults' = faults /\ work'[w] # e /\ queue'[e] = "done"
      BY <1>1, <1>2, <2>8
      DEF EndAttempt, At, Return, Stop, Completed, Elsewhere, requests, TypeOK
    <3>2. Chances(e)' \subseteq Chances(e) /\ ~Waits(e)'
      BY <1>3, <3>1 DEF Chances, Waits
    <3> QED
      BY <1>4, <1>7, <3>1, <3>2
  <2>9. CASE EndAttempt(w) /\ owns[w] /\ pc[w] = "throw"
    <3>1. accepted' = accepted /\ faults' = faults /\ work'[w] # e
      BY <1>1, <1>2, <2>9 DEF EndAttempt, Return, Throw, Stop, Elsewhere, requests, TypeOK
    <3>2. w \in Chances(e) /\ Chances(e)' \subseteq Chances(e) \ {w}
      BY <1>1, <1>3, <2>9, <3>1 DEF Chances
    <3> QED
      BY <1>4, <1>7, <3>1, <3>2
  <2>10. CASE CrashWorker(w)
    <3>1. accepted' = accepted /\ faults' = faults + 1 /\ work'[w] # e
      BY <1>1, <1>2, <2>10 DEF CrashWorker, Stop, Faulty, requests, TypeOK
    <3>2. Chances(e)' \subseteq Chances(e)
      BY <1>3, <3>1 DEF Chances
    <3> QED
      BY <1>2, <1>4, <1>7, <3>1, <3>2
  <2>11. CASE EndAttempt(w)
    BY <1>2, <2>7, <2>8, <2>9, <2>11 DEF EndAttempt, At, TypeOK
  <2> QED
    BY <2>2, <2>3, <2>4, <2>5, <2>6, <2>10, <2>11 DEF Handles
<1> QED
  BY <1>6, <1>8 DEF PaidFor

\* A step of the queue, of the settings or of a publication that neither brings
\* an acceptance nor a chance that no fault pays for.
LEMMA PaidKept ==
  ASSUME IInv, PaidFor, UNCHANGED accepted, faults' \in Nat, faults' >= faults,
         \A d \in Deliveries : \/ Tries(d)' <= Tries(d)
                               \/ Tries(d)' <= Tries(d) + 1 /\ faults' = faults + 1
  PROVE  PaidFor'
<1> SUFFICES ASSUME NEW d \in Deliveries
             PROVE  accepted[d] + Tries(d)' <= 1 + faults'
  BY DEF PaidFor
<1>1. faults \in Nat /\ accepted[d] \in Nat
  BY DEF IInv, TypeOK
<1>2. Tries(d) \in Nat /\ Tries(d)' \in Nat
  <2>1. Chances(d) \in SUBSET Workers /\ Chances(d)' \in SUBSET Workers
    BY DEF Chances
  <2>2. Cardinality(Chances(d)) \in Nat /\ Cardinality(Chances(d)') \in Nat
    BY <2>1, Counting
  <2> QED
    BY <2>2 DEF Tries
<1> QED
  BY <1>1, <1>2 DEF PaidFor

\* The same, where the workers stay where they are.
LEMMA PaidStill ==
  ASSUME IInv, PaidFor, UNCHANGED << accepted, workers >>, faults' \in {faults, faults + 1},
         \A d \in Deliveries : queue'[d] # queue[d] => Waits(d) \/ queue'[d] = "dead"
  PROVE  PaidFor'
<1>1. ASSUME NEW d \in Deliveries
      PROVE  Tries(d)' <= Tries(d)
  <2>1. Chances(d)' = Chances(d)
    BY DEF Chances, workers
  <2>2. PICK n \in Nat : n = Cardinality(Chances(d))
    BY Counting DEF Chances
  <2> QED
    BY <2>1, <2>2 DEF Tries, Waits, Unowned, workers
<1>2. faults \in Nat
  BY DEF IInv, TypeOK
<1> QED
  BY <1>1, <1>2, PaidKept DEF workers

\* A worker that gets a job takes over its chance.
LEMMA FetchPaid ==
  ASSUME IInv, PaidFor, NEW w \in Workers, NEW d \in Deliveries, Fetch(w, d)
  PROVE  PaidFor'
<1>1. /\ pc[w] = "idle" /\ pc' = [pc EXCEPT ![w] = "load"]
      /\ queue[d] = "queued" /\ queue' = [queue EXCEPT ![d] = "active"]
      /\ work' = [work EXCEPT ![w] = d] /\ owns' = [owns EXCEPT ![w] = TRUE]
      /\ UNCHANGED << accepted, faults >>
  BY DEF Fetch, requests
<1>2. TypeOK /\ work[w] = NoDelivery /\ NoDelivery \notin Deliveries /\ faults \in Nat
  BY <1>1, NamesAssumption DEF IInv, OwnersHold, TypeOK
<1>3. Tries(d)' <= Tries(d)
  <2>1. Chances(d)' \subseteq Chances(d) \cup {w} /\ Waits(d) /\ ~Waits(d)'
    BY <1>1, <1>2 DEF Chances, Waits, Unowned, TypeOK
  <2> QED
    BY <2>1, CountingTries
<1>4. ASSUME NEW e \in Deliveries \ {d}
      PROVE  Tries(e)' <= Tries(e)
  <2>1. Chances(e)' \subseteq Chances(e) /\ (Waits(e)' => Waits(e))
    BY <1>1, <1>2 DEF Chances, Waits, Unowned, TypeOK
  <2> QED
    BY <2>1, CountingTries
<1> QED
  BY <1>1, <1>2, <1>3, <1>4, PaidKept

\* A job that expires under its worker is another chance, and a fault.
LEMMA TimeoutPaid ==
  ASSUME IInv, PaidFor, NEW w \in Workers, Timeout(w)
  PROVE  PaidFor'
<1>1. /\ owns[w] /\ owns' = [owns EXCEPT ![w] = FALSE] /\ Failed(work[w])
      /\ faults' = faults + 1 /\ UNCHANGED << accepted, pc, work >>
  BY DEF Timeout, Faulty, requests
<1>2. PICK e \in Deliveries : e = work[w] /\ queue[e] = "active"
  BY <1>1 DEF IInv, OwnersHold
<1>3. TypeOK /\ faults \in Nat
  BY DEF IInv, TypeOK
<1>4. \A d \in Deliveries : Chances(d)' \subseteq Chances(d)
  BY <1>1, <1>3 DEF Chances, TypeOK
<1>5. Tries(e)' <= Tries(e) + 1
  BY <1>4, CountingTries
<1>6. ASSUME NEW d \in Deliveries \ {e}
      PROVE  Tries(d)' <= Tries(d)
  <2>1. queue'[d] = queue[d]
    BY <1>1, <1>2, JobOverKeeps DEF JobOver
  <2>2. Waits(d)' => Waits(d)
    BY <1>1, <1>2, <1>3, <2>1 DEF Waits, Unowned, TypeOK
  <2> QED
    BY <1>4, <2>2, CountingTries
<1> QED
  BY <1>1, <1>3, <1>5, <1>6, PaidKept

\* Every acceptance but one is paid for by a fault.
LEMMA PaidStep == IInv /\ PaidFor /\ [Next]_vars => PaidFor'
<1> SUFFICES ASSUME IInv, PaidFor, [Next]_vars
             PROVE  PaidFor'
  OBVIOUS
<1>1. faults \in Nat
  BY DEF IInv, TypeOK
<1>2. ASSUME NEW c \in Publishers, Publishes(c)
      PROVE  PaidFor'
  <2>1. /\ UNCHANGED << workers, accepted >>
        /\ faults' \in {faults, faults + 1}
    BY <1>2
    DEF Publishes, SelectEndpoints, InsertDeliveries, InsertFor, EnqueueDelivery,
        EnqueueFails, FinishPublication, CrashPublisher, PublisherStep, Faulty, requests
  <2>2. CASE queue' = queue
    BY <2>1, <2>2, PaidStill
  <2>3. ASSUME NEW p \in Endpoints, EnqueueDelivery(c, p)
        PROVE  PaidFor'
    <3>1. PICK e \in Deliveries : e = << c[1], p >>
      BY DEF Publishers, Deliveries
    <3>2. queue[e] = "none" /\ queue' = [queue EXCEPT ![e] = "queued"]
      BY <2>3, <3>1 DEF EnqueueDelivery, IInv, EnqueuedOnce
    <3>3. \A d \in Deliveries : queue'[d] # queue[d] => Waits(d)
      BY <3>2 DEF Waits, IInv, TypeOK
    <3> QED
      BY <2>1, <3>3, PaidStill
  <2> QED
    BY <1>2, <2>2, <2>3
    DEF Publishes, SelectEndpoints, InsertDeliveries, InsertFor, EnqueueFails,
        FinishPublication, CrashPublisher
<1>3. ASSUME NEW d \in Deliveries, Expire(d)
      PROVE  PaidFor'
  <2>1. /\ UNCHANGED << workers, accepted, faults >> /\ queue[d] = "active" /\ Failed(d)
        /\ Waits(d)
    BY <1>3 DEF Expire, requests, Waits, Unowned
  <2>2. \A e \in Deliveries : queue'[e] # queue[e] => Waits(e)
    BY <2>1, JobOverKeeps DEF JobOver
  <2> QED
    BY <2>1, <2>2, PaidStill
<1>4. ASSUME NEW d \in Deliveries, DeadLetter(d)
      PROVE  PaidFor'
  <2>1. /\ UNCHANGED << workers, accepted >> /\ faults' \in {faults, faults + 1}
        /\ queue' \in {queue, [queue EXCEPT ![d] = "dead"]}
    BY <1>4 DEF DeadLetter, Faulty, requests
  <2>2. \A e \in Deliveries : queue'[e] # queue[e] => queue'[e] = "dead"
    BY <2>1 DEF IInv, TypeOK
  <2> QED
    BY <2>1, <2>2, PaidStill
<1>5. ASSUME NEW p \in Endpoints, NEW s \in {"active", "disabled", "deleted"},
             ChangeEndpoint(p, s)
      PROVE  PaidFor'
  BY <1>5, PaidStill DEF ChangeEndpoint, jobVars, requests
<1>6. CASE UNCHANGED vars
  BY <1>6, PaidStill DEF vars, jobVars, requests
<1> QED
  BY <1>2, <1>3, <1>4, <1>5, <1>6, HandlerPaid, FetchPaid, TimeoutPaid
  DEF Next, Publish, Deliver, Failure, Publishes, Handles

\* Nothing is accepted yet, and every delivery waits for its first attempt.
LEMMA Paid == Spec => []PaidFor
<1>1. Init => PaidFor
  <2> SUFFICES ASSUME Init, NEW d \in Deliveries
               PROVE  accepted[d] + Tries(d) <= 1 + faults
    BY DEF PaidFor
  <2>1. Chances(d) = {} /\ Cardinality({}) = 0
    BY FS_EmptySet DEF Init, Chances
  <2> QED
    BY <2>1 DEF Init, Tries
<1> QED
  BY <1>1, Invariant, PaidStep, PTL DEF Spec

\* In every state a delivery has at most one job, its attempts stay within the
\* retries of that job, and no request reaches the endpoint that the row does not
\* count: neither a repeated publication nor a worker that dies or that has
\* lost its job to another can break it.
THEOREM DeliveriesStayWithinLimits == Spec => []DeliveryInv
<1>1. IInv => DeliveryInv
  <2>1. ASSUME IInv, NEW d \in Deliveries
        PROVE  jobs[d] <= 1 /\ posts[d] <= attempts[d]
    <3>1. jobs[d] \in {0, 1}
      BY <2>1 DEF IInv, EnqueuedOnce
    <3>2. posts[d] + Cardinality(ToPost(d)) <= attempts[d]
      BY <2>1 DEF IInv, AttemptsCounted
    <3>3. Cardinality(ToPost(d)) \in Nat
      BY Counting DEF ToPost
    <3>4. posts[d] \in Nat /\ attempts[d] \in Nat
      BY <2>1, BoundsAssumption DEF IInv, TypeOK
    <3> QED
      BY <3>1, <3>2, <3>3, <3>4
  <2> QED
    BY <2>1 DEF IInv, DeliveryInv, OneJobPerDelivery, RequestsAreCounted
<1> QED
  BY <1>1, Invariant, PTL

\* After an endpoint was deleted each worker sends it at most one request more,
\* the one it had loaded the endpoint for.
THEOREM DeletionStopsDelivery == Spec => []DeletionCancels
<1>1. IInv => DeletionCancels
  <2>1. ASSUME IInv, NEW p \in Endpoints
        PROVE  late[p] <= Cardinality(Workers)
    <3>1. late[p] + Cardinality(Bound(p)) <= Cardinality(Workers) /\ late[p] \in Nat
      BY <2>1 DEF IInv, LateBounded, TypeOK
    <3>2. Cardinality(Bound(p)) \in Nat /\ Cardinality(Workers) \in Nat
      BY Counting, FS_CardinalityType, WorkersAssumption DEF Bound
    <3> QED
      BY <3>1, <3>2
  <2> QED
    BY <2>1 DEF DeletionCancels
<1> QED
  BY <1>1, Invariant, PTL

\* What is recorded as succeeded was accepted by the endpoint, which accepts an
\* event once and once more for every fault; without a fault what was accepted
\* is not recorded as anything worse.
THEOREM RecordsMatchEndpoints == Spec => []RecordMatchesEndpoint
<1>1. IInv /\ PaidFor => RecordMatchesEndpoint
  <2> SUFFICES ASSUME IInv, PaidFor, NEW d \in Deliveries
               PROVE  /\ status[d] = "succeeded" => accepted[d] > 0
                      /\ accepted[d] <= 1 + faults
                      /\ accepted[d] > 0 /\ status[d] \in {"failed", "cancelled", "dead"} =>
                           faults > 0
    BY DEF RecordMatchesEndpoint
  <2>1. faults \in Nat /\ accepted[d] \in Nat
    BY DEF IInv, TypeOK
  <2>2. accepted[d] <= 1 + faults
    <3>1. Cardinality(Chances(d)) \in Nat
      BY Counting DEF Chances
    <3> QED
      BY <2>1, <3>1 DEF PaidFor, Tries
  <2>3. ASSUME faults = 0, accepted[d] > 0
        PROVE  status[d] \in {"processing", "succeeded"}
    <3>1. ASSUME NEW w \in Workers, work[w] = d, pc[w] = "succeed"
          PROVE  status[d] = "processing"
      BY <2>3, <3>1 DEF IInv, Undisturbed
    <3> QED
      BY <2>3, <3>1 DEF IInv, Accepted
  <2> QED
    BY <2>1, <2>2, <2>3 DEF IInv, Accepted
<1> QED
  BY <1>1, Invariant, Paid, PTL

\* A delivery that succeeded, was cancelled or is dead keeps its status, unless its
\* job is in the dead-letter queue or expired under a worker that went on, or its
\* success was recorded without an acknowledgement.
THEOREM SettledStaysSettled == Spec => SettledIsFinal
<1>1. ASSUME IInv, [Next]_vars, NEW d \in Deliveries, status[d] \in Terminal,
             status'[d] # status[d]
      PROVE  \/ queue[d] = "dlq"
             \/ status[d] = "succeeded" /\ \E w \in Workers : work[w] = d /\ pc[w] = "fail"
             \/ d \in slow
  <2> USE DEF IInv, TypeOK, Terminal
  <2>1. ASSUME NEW w \in Workers, Handles(w)
        PROVE  \/ d \in slow
               \/ status[d] = "succeeded" /\ work[w] = d /\ pc[w] = "fail"
    <3>1. d = work[w] /\ work[w] \in Deliveries
      BY <1>1, <2>1, HandlerSteps DEF Moves, Ends
    <3>2. pc[w] \in {"cancel", "begin", "succeed", "fail"}
      BY <1>1, <2>1
      DEF Handles, Load, Loaded, CancelDelivery, BeginAttempt, PostAccepted, PostFails,
          MarkSucceeded, MarkFailed, EndAttempt, CrashWorker, AnswerLost, MarkSucceededFails,
          Goto, At, rows
    <3> QED
      BY <1>1, <3>1, <3>2 DEF Undisturbed
  <2>2. ASSUME NEW w \in Workers, Timeout(w) \/ \E e \in Deliveries : Fetch(w, e)
        PROVE  FALSE
    BY <1>1, <2>2 DEF Timeout, Fetch, rows
  <2>3. ASSUME NEW e \in Deliveries, Expire(e)
        PROVE  FALSE
    BY <1>1, <2>3 DEF Expire, rows
  <2>4. ASSUME NEW e \in Deliveries, DeadLetter(e)
        PROVE  queue[d] = "dlq"
    BY <1>1, <2>4 DEF DeadLetter, SetStatus
  <2>5. ASSUME NEW c \in Publishers, Publishes(c)
        PROVE  FALSE
    <3>1. InsertDeliveries(c)
      BY <1>1, <2>5 DEF Publishes, SelectEndpoints, EnqueueDelivery, EnqueueFails,
                        FinishPublication, CrashPublisher
    <3>2. d[1] = c[1] /\ d[2] \in New(c)
      BY <1>1, <3>1 DEF InsertDeliveries, InsertFor
    <3>3. d = << c[1], d[2] >>
      BY <3>2 DEF Deliveries
    <3> QED
      BY <1>1, <3>2, <3>3 DEF New
  <2>6. ASSUME NEW p \in Endpoints, NEW s \in {"active", "disabled", "deleted"},
               ChangeEndpoint(p, s)
        PROVE  FALSE
    BY <1>1, <2>6 DEF ChangeEndpoint, rows
  <2>7. CASE UNCHANGED vars
    BY <1>1, <2>7 DEF vars, rows
  <2> QED
    BY <1>1, <2>1, <2>2, <2>3, <2>4, <2>5, <2>6, <2>7
    DEF Next, Publish, Deliver, Failure, Publishes, Handles
<1>2. IInv /\ [Next]_vars =>
        [\A d \in Deliveries :
           status[d] \in Terminal /\ status'[d] # status[d] =>
             \/ queue[d] = "dlq"
             \/ status[d] = "succeeded" /\ \E w \in Workers : work[w] = d /\ pc[w] = "fail"
             \/ d \in slow]_vars
  BY <1>1
<1> QED
  BY <1>2, Invariant, PTL DEF Spec, SettledIsFinal
=============================================================================
