------------------------ MODULE FileLifecycleProofs ------------------------
(***************************************************************************)
(* Machine-checked proofs about FileLifecycle, for any number of files,    *)
(* calls, workers, jobs and faults and any quota policy.                   *)
(***************************************************************************)
EXTENDS FileLifecycle, SumTheorems

\* The three kinds of handlers have no member in common.
LEMMA HandlerKinds ==
  /\ \A f \in Files : f \in Handlers /\ f \notin Calls /\ f \notin Workers
  /\ \A c \in Calls : c \in Handlers /\ c \notin Files /\ c \notin Workers
  /\ \A w \in Workers : w \in Handlers /\ w \notin Files /\ w \notin Calls
  /\ \A p \in Handlers : p # Nobody
  /\ \A j \in Jobs : j # Nobody
BY NamesAssumption DEF Handlers

\* The positions, kind by kind.
LEMMA PositionsListed ==
  /\ {"idle", "quotaLock", "quotaTx", "presign", "issued", "deleteLock",
      "deleteTx", "done"} = UploadPosition
  /\ {"idle", "head", "reject", "rejectMark", "mark", "enqueue",
      "deleteObject", "deleteLock", "deleteTx", "done"} = CallPosition
  /\ {"idle", "read", "process", "head", "reject", "rejectMark", "get",
      "indexLock", "indexTx", "usage", "fail"} = WorkPosition
BY DEF UploadPosition, CallPosition, WorkPosition

\* A handler moves to a position of its kind.
LEMMA PositionTyped ==
  ASSUME TypeOK, NEW p \in Handlers, NEW to,
         pc' = [pc EXCEPT ![p] = to],
         p \in Files => to \in UploadPosition,
         p \in Calls => to \in CallPosition,
         p \in Workers => to \in WorkPosition
  PROVE  PositionsTyped'
BY DEF TypeOK, PositionsTyped, Handlers

\* On the way it keeps its file.
LEMMA MoveTyped ==
  ASSUME TypeOK, NEW p \in Handlers, NEW to,
         pc' = [pc EXCEPT ![p] = to],
         p \in Files => to \in UploadPosition,
         p \in Calls => to \in CallPosition,
         p \in Workers => to \in WorkPosition,
         p \in Files \/ pc[p] # "idle",
         target' = target, queue' = queue, jobFile' = jobFile, job' = job
  PROVE  PositionsTyped' /\ TargetsTyped'
<1>1. PositionsTyped'
  BY PositionTyped
<1>2. TargetsTyped'
  BY HandlerKinds DEF TypeOK, TargetsTyped, PositionsTyped, Handlers
<1> QED
  BY <1>1, <1>2

\* A fault is counted within its bound.
LEMMA FaultTyped == TypeOK /\ Faulty => faults' \in 0 .. MaxFaults
BY BoundsAssumption DEF TypeOK, Faulty

\* A job that leaves a worker stays in the queue's states.
LEMMA QueueTyped ==
  ASSUME TypeOK, NEW j \in Jobs, Completed(j) \/ Failed(j)
  PROVE  /\ queue' \in [Jobs -> {"free", "queued", "active", "dead"}]
         /\ jobFile' \in [Jobs -> Files \cup {Nobody}]
         /\ retries' \in [Jobs -> 0 .. RetryLimit]
BY BoundsAssumption DEF TypeOK, Completed, Failed

\* SetStatus and MarkFailed keep the rows typed.
RowsTyped ==
  /\ status \in [Files -> Statuses]
  /\ expected \in [Files -> Sizes \cup {None}]
  /\ actual \in [Files -> Sizes \cup {None}]
  /\ chunks \in [Files -> Sizes \cup {None}]
  /\ admitted \in [Files -> Plans]

LEMMA StatusTyped ==
  ASSUME TypeOK, NEW f, NEW s \in Statuses, SetStatus(f, s)
  PROVE  RowsTyped'
BY DEF TypeOK, SetStatus, RowsTyped

LEMMA FailedTyped ==
  ASSUME TypeOK, NEW f, MarkFailed(f)
  PROVE  RowsTyped'
BY StatusTyped DEF MarkFailed, TypeOK, RowsTyped, rowVars, Statuses

\* The initial state is well typed.
LEMMA TypeInit == Init => TypeOK
<1> SUFFICES ASSUME Init PROVE TypeOK
  OBVIOUS
<1>1. PositionsTyped
  BY PositionsListed, HandlerKinds DEF Init, PositionsTyped, Handlers
<1>2. /\ retries \in [Jobs -> 0 .. RetryLimit]
      /\ puts \in [Files -> 0 .. MaxPuts]
      /\ swapped \subseteq Files
      /\ faults \in 0 .. MaxFaults
  BY BoundsAssumption DEF Init
<1>3. TargetsTyped
  BY HandlerKinds DEF Init, TargetsTyped, Handlers
<1> QED
  BY <1>1, <1>2, <1>3 DEF Init, TypeOK, Statuses

-----------------------------------------------------------------------------
\* Type correctness, one kind of step at a time.
LEMMA UploadTyped ==
  ASSUME TypeOK, NEW f \in Files, Upload(f) \/ PresignFails(f) \/ Put(f)
  PROVE  TypeOK'
<1> USE PositionsListed, HandlerKinds DEF Goto
<1>1. CASE StartUpload(f)
  <2>1. PositionsTyped' /\ TargetsTyped'
    BY <1>1, MoveTyped DEF StartUpload, Update, localVars, queueVars
  <2>2. /\ expected' \in [Files -> Sizes \cup {None}]
        /\ admitted' \in [Files -> Plans]
    BY <1>1 DEF StartUpload, TypeOK
  <2> QED
    BY <1>1, <2>1, <2>2
    DEF StartUpload, Update, TypeOK, storeVars, lockVars, readVars, localVars, queueVars
<1>2. CASE BeginQuota(f)
  <2>1. Cardinality(Live) \in Nat
    BY FilesAssumption, FS_Subset, FS_CardinalityType DEF Live
  <2> QED
    BY <1>2, <2>1, MoveTyped
    DEF BeginQuota, ReadUsage, TypeOK, rowVars, storeVars, localVars, queueVars
<1>3. CASE CommitQuota(f)
  <2>1. RowsTyped'
    BY <1>3, StatusTyped DEF CommitQuota, TypeOK, RowsTyped, rowVars, Statuses
  <2>2. PositionsTyped' /\ TargetsTyped'
    BY <1>3, MoveTyped DEF CommitQuota, localVars, queueVars
  <2> QED
    BY <1>3, <2>1, <2>2 DEF CommitQuota, RowsTyped, TypeOK, storeVars, localVars, queueVars
<1>4. CASE IssueUrl(f)
  BY <1>4, MoveTyped
  DEF IssueUrl, Skip, Update, TypeOK, rowVars, storeVars, lockVars, readVars, localVars, queueVars
<1>5. CASE PresignFails(f)
  BY <1>5, MoveTyped, FaultTyped
  DEF PresignFails, Fault, TypeOK, rowVars, storeVars, lockVars, readVars, localVars, queueVars
<1>6. CASE Put(f)
  BY <1>6, BoundsAssumption
  DEF Put, TypeOK, PositionsTyped, TargetsTyped, rowVars, lockVars, readVars, localVars, queueVars
<1> QED
  BY <1>1, <1>2, <1>3, <1>4, <1>5, <1>6 DEF Upload

LEMMA SharedTyped ==
  ASSUME TypeOK, NEW p \in Calls \cup Workers, Reject(p) \/ HeadFails(p)
  PROVE  TypeOK'
<1> USE PositionsListed, HandlerKinds DEF Goto
<1>1. CASE HeadInvalid(p)
  BY <1>1, MoveTyped
  DEF HeadInvalid, Skip, Update, TypeOK, rowVars, storeVars, lockVars, readVars, localVars,
      queueVars
<1>2. CASE RejectObject(p)
  <2>1. PositionsTyped' /\ TargetsTyped'
    BY <1>2, MoveTyped DEF RejectObject, localVars, queueVars
  <2>2. object' \in [Files -> Sizes \cup {None}] /\ faults' \in 0 .. MaxFaults
    BY <1>2, FaultTyped DEF RejectObject, TypeOK
  <2> QED
    BY <1>2, <2>1, <2>2
    DEF RejectObject, TypeOK, rowVars, lockVars, readVars, localVars, queueVars
<1>3. CASE HeadFails(p)
  BY <1>3, MoveTyped, FaultTyped
  DEF HeadFails, Fault, TypeOK, rowVars, storeVars, lockVars, readVars, localVars, queueVars
<1> QED
  BY <1>1, <1>2, <1>3 DEF Reject

LEMMA DeleteTyped ==
  ASSUME TypeOK, NEW p \in Files \cup Calls, Delete(p)
  PROVE  TypeOK'
<1> USE PositionsListed, HandlerKinds DEF Goto
<1>1. CASE BeginDelete(p)
  BY <1>1, MoveTyped
  DEF BeginDelete, LockFile, TypeOK, rowVars, storeVars, readVars, localVars, queueVars
<1>2. CASE CommitDelete(p)
  BY <1>2, MoveTyped
  DEF CommitDelete, Commit, TypeOK, Statuses, storeVars, readVars, localVars, queueVars
<1> QED
  BY <1>1, <1>2 DEF Delete

LEMMA CallTyped ==
  ASSUME TypeOK, NEW c \in Calls,
         Call(c) \/ EnqueueFails(c) \/ DeleteObjectFails(c)
  PROVE  TypeOK'
<1> USE PositionsListed, HandlerKinds DEF Goto
<1>1. ASSUME NEW f \in Files, NEW to \in CallPosition, Accept(c, f, to)
      PROVE  TypeOK'
  <2>1. PositionsTyped'
    BY <1>1, PositionTyped DEF Accept
  <2>2. TargetsTyped'
    BY <1>1 DEF Accept, TypeOK, TargetsTyped, PositionsTyped, Handlers, queueVars
  <2> QED
    BY <1>1, <2>1, <2>2
    DEF Accept, TypeOK, rowVars, storeVars, lockVars, readVars, queueVars
<1>2. CASE HeadValid(c, "mark")
  <2>1. seen' \in [Calls \cup Workers -> Sizes \cup {None}]
    BY <1>2 DEF HeadValid, Look, TypeOK, TargetsTyped
  <2> QED
    BY <1>2, <2>1, MoveTyped
    DEF HeadValid, Look, TypeOK, rowVars, storeVars, lockVars, readVars, queueVars
<1>3. CASE MarkUploaded(c)
  <2>1. PositionsTyped' /\ TargetsTyped'
    BY <1>3, MoveTyped DEF MarkUploaded, Skip, Update, localVars, queueVars
  <2>2. RowsTyped'
    BY <1>3 DEF MarkUploaded, SetUploaded, Skip, RowsTyped, TypeOK, rowVars, Statuses
  <2> QED
    BY <1>3, <2>1, <2>2
    DEF MarkUploaded, Skip, Update, RowsTyped, TypeOK, storeVars, lockVars, readVars, localVars,
        queueVars
<1>4. CASE Enqueue(c)
  <2>1. target[c] \in Files
    BY <1>4 DEF Enqueue, TypeOK, TargetsTyped
  <2>2. /\ queue' \in [Jobs -> {"free", "queued", "active", "dead"}]
        /\ jobFile' \in [Jobs -> Files \cup {Nobody}]
        /\ retries' \in [Jobs -> 0 .. RetryLimit]
    BY <1>4, <2>1, BoundsAssumption DEF Enqueue, TypeOK
  <2>3. PositionsTyped'
    BY <1>4, PositionTyped DEF Enqueue
  <2>4. TargetsTyped'
    BY <1>4, <2>1 DEF Enqueue, TypeOK, TargetsTyped, PositionsTyped, Handlers, localVars
  <2> QED
    BY <1>4, <2>2, <2>3, <2>4
    DEF Enqueue, TypeOK, rowVars, storeVars, lockVars, readVars, localVars
<1>5. CASE RejectUpload(c)
  <2>1. RowsTyped'
    BY <1>5, FailedTyped DEF RejectUpload
  <2> QED
    BY <1>5, <2>1, MoveTyped
    DEF RejectUpload, Update, RowsTyped, TypeOK, storeVars, lockVars, readVars, localVars, queueVars
<1>6. CASE DeleteObject(c)
  BY <1>6, MoveTyped
  DEF DeleteObject, TypeOK, rowVars, lockVars, readVars, localVars, queueVars
<1>7. CASE EnqueueFails(c) \/ DeleteObjectFails(c)
  BY <1>7, MoveTyped, FaultTyped
  DEF EnqueueFails, DeleteObjectFails, Fault, TypeOK, rowVars, storeVars, lockVars, readVars,
      localVars, queueVars
<1> QED
  BY <1>1, <1>2, <1>3, <1>4, <1>5, <1>6, <1>7
  DEF Call, CallComplete, CallDelete, CallReindex

\* A worker that stops is typed whatever becomes of its job.
LEMMA StopTyped ==
  ASSUME TypeOK, NEW w \in Workers, NEW from, Return(w, from) \/ Throw(w, from),
         RowsTyped'
  PROVE  TypeOK'
<1>1. PositionsTyped'
  BY PositionTyped, PositionsListed, HandlerKinds DEF Return, Throw, Stop, Goto
<1>2. /\ queue' \in [Jobs -> {"free", "queued", "active", "dead"}]
      /\ jobFile' \in [Jobs -> Files \cup {Nobody}]
      /\ retries' \in [Jobs -> 0 .. RetryLimit]
      /\ jobFile' = jobFile
      /\ \A j \in Jobs : j # job[w] => queue'[j] = queue[j]
  <2>1. CASE job[w] # Nobody
    <3>1. job[w] \in Jobs
      BY <2>1 DEF TypeOK
    <3>2. Completed(job[w]) \/ Failed(job[w])
      BY <2>1 DEF Return, Throw
    <3> QED
      BY <3>1, <3>2, QueueTyped DEF Completed, Failed, TypeOK
  <2>2. CASE job[w] = Nobody
    BY <2>2 DEF Return, Throw, TypeOK, queueVars
  <2> QED
    BY <2>1, <2>2
<1>3. /\ \A p \in Calls \cup Workers : pc'[p] # "idle" => target'[p] \in Files
      /\ job' = [job EXCEPT ![w] = Nobody]
  BY HandlerKinds DEF Return, Throw, Stop, Goto, TypeOK, TargetsTyped, PositionsTyped, Handlers
<1>4. TargetsTyped'
  <2>1. ASSUME NEW j \in Jobs, queue'[j] # "free"
        PROVE  jobFile'[j] \in Files
    <3>1. queue[j] # "free"
      BY <1>2, <2>1, HandlerKinds DEF TypeOK, TargetsTyped
    <3> QED
      BY <1>2, <3>1 DEF TypeOK, TargetsTyped
  <2>2. \A v \in Workers : job'[v] # Nobody
           => v # w /\ job'[v] = job[v] /\ job[v] # job[w] /\ job[v] \in Jobs
    BY <1>3 DEF TypeOK, TargetsTyped
  <2> QED
    BY <1>2, <1>3, <2>1, <2>2 DEF TypeOK, TargetsTyped
<1> QED
  BY <1>1, <1>2, <1>3, <1>4
  DEF Return, Throw, Stop, RowsTyped, TypeOK, storeVars, lockVars, readVars

LEMMA WorkTyped ==
  ASSUME TypeOK, NEW w \in Workers, Work(w) \/ RecordUsageFails(w)
  PROVE  TypeOK'
<1> USE PositionsListed, HandlerKinds DEF Goto
<1>1. ASSUME NEW j \in Jobs, Fetch(w, j)
      PROVE  TypeOK'
  <2>1. PositionsTyped'
    BY <1>1, PositionTyped DEF Fetch
  <2>2. /\ queue' \in [Jobs -> {"free", "queued", "active", "dead"}]
        /\ job' \in [Workers -> Jobs \cup {Nobody}]
        /\ target' \in [Calls \cup Workers -> Files \cup {Nobody}]
    BY <1>1 DEF Fetch, TypeOK
  <2>3. jobFile[j] \in Files /\ \A v \in Workers : job[v] # j
    BY <1>1 DEF Fetch, TypeOK, TargetsTyped
  <2>4. TargetsTyped'
    <3>1. \A p \in Calls \cup Workers : pc'[p] # "idle" => target'[p] \in Files
      BY <1>1, <2>3 DEF Fetch, TypeOK, TargetsTyped, PositionsTyped, Handlers
    <3>2. \A i \in Jobs : queue'[i] # "free" => jobFile'[i] \in Files
      BY <1>1, <2>3 DEF Fetch, TypeOK, TargetsTyped
    <3>3. \A v \in Workers : /\ job'[v] = IF v = w THEN j ELSE job[v]
                             /\ job'[v] # Nobody => job'[v] \in Jobs
      BY <1>1 DEF Fetch, TypeOK
    <3> QED
      BY <1>1, <2>3, <3>1, <3>2, <3>3 DEF Fetch, TypeOK, TargetsTyped
  <2> QED
    BY <1>1, <2>1, <2>2, <2>4
    DEF Fetch, TypeOK, rowVars, storeVars, lockVars, readVars
<1>2. CASE ReadRow(w)
  <2>1. RowsTyped'
    BY <1>2 DEF ReadRow, Skip, RowsTyped, TypeOK, rowVars
  <2>2. CASE Return(w, "read") \/ Throw(w, "read")
    BY <2>1, <2>2, StopTyped
  <2>3. CASE Skip(w, "read", "process")
    BY <2>1, <2>3, MoveTyped
    DEF Skip, Update, RowsTyped, TypeOK, storeVars, lockVars, readVars, localVars, queueVars
  <2> QED
    BY <1>2, <2>2, <2>3 DEF ReadRow
<1>3. CASE MarkProcessing(w)
  <2>1. RowsTyped'
    BY <1>3, StatusTyped DEF MarkProcessing, RowsTyped, TypeOK, rowVars, Statuses
  <2>2. CASE Return(w, "process")
    BY <2>1, <2>2, StopTyped
  <2>3. CASE Update(w, "process", "head")
    BY <2>1, <2>3, MoveTyped
    DEF Update, RowsTyped, TypeOK, storeVars, lockVars, readVars, localVars, queueVars
  <2> QED
    BY <1>3, <2>2, <2>3 DEF MarkProcessing
<1>4. CASE HeadValid(w, "get") \/ ReadObject(w)
  <2>1. seen' \in [Calls \cup Workers -> Sizes \cup {None}]
    BY <1>4 DEF HeadValid, ReadObject, Look, TypeOK, TargetsTyped
  <2>2. PositionsTyped' /\ TargetsTyped'
    BY <1>4, MoveTyped DEF HeadValid, ReadObject, Look, queueVars
  <2> QED
    BY <1>4, <2>1, <2>2
    DEF HeadValid, ReadObject, Look, TypeOK, rowVars, storeVars, lockVars, readVars, queueVars
<1>5. CASE RejectFile(w)
  BY <1>5, StopTyped, FailedTyped DEF RejectFile
<1>6. CASE ExtractionFails(w)
  BY <1>6, MoveTyped
  DEF ExtractionFails, Skip, Update, TypeOK, rowVars, storeVars, lockVars, readVars, localVars,
      queueVars
<1>7. CASE BeginIndex(w)
  <2>1. CASE LockFile(w, "indexLock", "indexTx")
    BY <2>1, MoveTyped
    DEF LockFile, TypeOK, rowVars, storeVars, readVars, localVars, queueVars
  <2>2. CASE Skip(w, "indexLock", "fail")
    BY <2>2, MoveTyped
    DEF Skip, Update, TypeOK, rowVars, storeVars, lockVars, readVars, localVars, queueVars
  <2> QED
    BY <1>7, <2>1, <2>2 DEF BeginIndex
<1>8. CASE CommitIndex(w)
  <2>1. PositionsTyped' /\ TargetsTyped'
    BY <1>8, MoveTyped DEF CommitIndex, Commit, localVars, queueVars
  <2>2. /\ status' \in [Files -> Statuses]
        /\ chunks' \in [Files -> Sizes \cup {None}]
    BY <1>8 DEF CommitIndex, Commit, TypeOK, Statuses
  <2> QED
    BY <1>8, <2>1, <2>2
    DEF CommitIndex, Commit, TypeOK, storeVars, readVars, localVars, queueVars
<1>9. CASE RecordUsage(w)
  BY <1>9, StopTyped DEF RecordUsage, RowsTyped, TypeOK, rowVars
<1>10. CASE RecordUsageFails(w)
  BY <1>10, MoveTyped, FaultTyped
  DEF RecordUsageFails, Fault, TypeOK, rowVars, storeVars, lockVars, readVars, localVars, queueVars
<1>11. CASE FailFile(w)
  BY <1>11, StopTyped, FailedTyped DEF FailFile
<1> QED
  BY <1>1, <1>2, <1>3, <1>4, <1>5, <1>6, <1>7, <1>8, <1>9, <1>10, <1>11 DEF Work

\* A crash, a timeout and an expiration.
LEMMA FailureTyped ==
  ASSUME TypeOK,
         \/ \E p \in Files \cup Calls : CrashRequest(p)
         \/ \E w \in Workers : CrashWorker(w) \/ Timeout(w)
         \/ \E j \in Jobs : Expire(j)
  PROVE  TypeOK'
<1> USE PositionsListed, HandlerKinds DEF Goto
<1>1. ASSUME NEW p \in Files \cup Calls, CrashRequest(p)
      PROVE  TypeOK'
  <2>1. PositionsTyped' /\ TargetsTyped'
    BY <1>1, MoveTyped DEF CrashRequest, Rollback, localVars, queueVars
  <2> QED
    BY <1>1, <2>1, FaultTyped
    DEF CrashRequest, Rollback, TypeOK, rowVars, storeVars, readVars, localVars, queueVars
<1>2. ASSUME NEW w \in Workers, CrashWorker(w)
      PROVE  TypeOK'
  <2>1. PositionsTyped'
    BY <1>2, PositionTyped DEF CrashWorker, Stop
  <2>2. /\ job' \in [Workers -> Jobs \cup {Nobody}]
        /\ target' \in [Calls \cup Workers -> Files \cup {Nobody}]
        /\ seen' \in [Calls \cup Workers -> Sizes \cup {None}]
    BY <1>2 DEF CrashWorker, Stop, TypeOK
  <2>3. /\ \A v \in Workers : job'[v] # Nobody => v # w /\ job'[v] = job[v]
        /\ \A p \in Calls \cup Workers : pc'[p] # "idle" => target'[p] \in Files
    BY <1>2 DEF CrashWorker, Stop, TypeOK, TargetsTyped, PositionsTyped, Handlers
  <2>4. TargetsTyped'
    BY <1>2, <2>3 DEF CrashWorker, Rollback, TypeOK, TargetsTyped, queueVars
  <2> QED
    BY <1>2, <2>1, <2>2, <2>4, FaultTyped
    DEF CrashWorker, Stop, Rollback, TypeOK, rowVars, storeVars, readVars, queueVars
<1>3. ASSUME NEW w \in Workers, Timeout(w)
      PROVE  TypeOK'
  <2>1. job[w] \in Jobs /\ queue[job[w]] = "active"
    BY <1>3 DEF Timeout, TypeOK, TargetsTyped
  <2>2. /\ \A j \in Jobs : j # job[w] => queue'[j] = queue[j]
        /\ jobFile' = jobFile
    BY <1>3, <2>1 DEF Timeout, Failed, TypeOK
  <2>3. \A v \in Workers : job'[v] # Nobody
           => v # w /\ job'[v] = job[v] /\ job[v] # job[w] /\ job[v] \in Jobs
    BY <1>3, <2>1 DEF Timeout, TypeOK, TargetsTyped
  <2>4. \A j \in Jobs : queue'[j] # "free" => jobFile'[j] \in Files
    BY <2>1, <2>2 DEF TypeOK, TargetsTyped
  <2>5. TargetsTyped'
    BY <1>3, <2>2, <2>3, <2>4 DEF Timeout, TypeOK, TargetsTyped
  <2>6. job' \in [Workers -> Jobs \cup {Nobody}]
    BY <1>3 DEF Timeout, TypeOK
  <2> QED
    BY <1>3, <2>1, <2>5, <2>6, QueueTyped, FaultTyped
    DEF Timeout, TypeOK, PositionsTyped, rowVars, storeVars, lockVars, readVars
<1>4. ASSUME NEW j \in Jobs, Expire(j)
      PROVE  TypeOK'
  <2>1. TargetsTyped'
    BY <1>4 DEF Expire, Failed, TypeOK, TargetsTyped, localVars
  <2> QED
    BY <1>4, <2>1, QueueTyped
    DEF Expire, TypeOK, PositionsTyped, rowVars, storeVars, lockVars, readVars, localVars
<1> QED
  BY <1>1, <1>2, <1>3, <1>4

LEMMA TypeStep == TypeOK /\ [Next]_vars => TypeOK'
<1> SUFFICES ASSUME TypeOK, [Next]_vars PROVE TypeOK'
  OBVIOUS
<1>1. CASE Next
  BY <1>1, UploadTyped, SharedTyped, DeleteTyped, CallTyped, WorkTyped, FailureTyped
  DEF Next, Failure
<1>2. CASE UNCHANGED vars
  BY <1>2 DEF TypeOK, PositionsTyped, TargetsTyped, vars, rowVars, storeVars, lockVars,
              readVars, localVars, queueVars
<1> QED
  BY <1>1, <1>2

\* Every behaviour of the system keeps the rows, the locks, the positions of
\* the handlers and the jobs of the queue within their types.
THEOREM FileTypeCorrect == Spec => []TypeOK
<1> QED
  BY TypeInit, TypeStep, PTL DEF Spec

-----------------------------------------------------------------------------
(***************************************************************************)
(* Locks: a handler in a transaction owns its lock, since the others take  *)
(* a lock only when it is free and release only what they own.             *)
(***************************************************************************)

\* A step of p keeps what the other handlers own.
LEMMA LocksKept ==
  ASSUME TypeOK, LocksHeld, NEW p \in Handlers,
         \A q \in Handlers \ {p} : /\ pc'[q] = pc[q]
                                   /\ q \notin Files => target'[q] = target[q]
                                   /\ quotaLock = q => quotaLock' = q
                                   /\ \A f \in Files : fileLock[f] = q => fileLock'[f] = q,
         pc'[p] \in {"deleteTx", "indexTx"} => fileLock'[File(p)'] = p,
         pc'[p] = "quotaTx" => quotaLock' = p
  PROVE  LocksHeld'
<1>1. ASSUME NEW q \in Handlers, pc'[q] \in {"deleteTx", "indexTx"}
      PROVE  fileLock'[File(q)'] = q
  <2>1. CASE q # p
    <3>1. File(q)' = File(q) /\ File(q) \in Files
      BY <1>1, <2>1 DEF File, TypeOK, TargetsTyped, Handlers
    <3> QED
      BY <1>1, <2>1, <3>1 DEF LocksHeld
  <2> QED
    BY <1>1, <2>1
<1>2. \A f \in Files : pc'[f] = "quotaTx" => quotaLock' = f
  BY HandlerKinds DEF LocksHeld
<1> QED
  BY <1>1, <1>2 DEF LocksHeld

\* A step of p that neither takes nor releases a lock.
LEMMA LocksUntouched ==
  ASSUME TypeOK, LocksHeld, NEW p \in Handlers, NEW from, NEW to, Goto(p, from, to),
         to \notin {"deleteTx", "indexTx", "quotaTx"},
         \A q \in (Calls \cup Workers) \ {p} : target'[q] = target[q],
         quotaLock' = quotaLock, fileLock' = fileLock
  PROVE  LocksHeld'
<1>1. pc'[p] = to /\ \A q \in Handlers \ {p} : pc'[q] = pc[q]
  BY DEF Goto, TypeOK, PositionsTyped
<1> QED
  BY <1>1, LocksKept DEF Handlers

\* The same for the frames of the steps.
LEMMA LocksFramed ==
  ASSUME TypeOK, LocksHeld, NEW p \in Handlers, NEW from, NEW to,
         to \notin {"deleteTx", "indexTx", "quotaTx"},
         \/ Update(p, from, to)
         \/ Fault(p, from, to)
         \/ Look(p, from, to)
         \/ p \in Calls /\ \E f \in Files : Accept(p, f, to)
  PROVE  LocksHeld'
<1>1. /\ \E at : Goto(p, at, to)
      /\ quotaLock' = quotaLock /\ fileLock' = fileLock
      /\ \A q \in (Calls \cup Workers) \ {p} : target'[q] = target[q]
  BY DEF Update, Fault, Look, Accept, lockVars, localVars, TypeOK
<1> QED
  BY <1>1, LocksUntouched

LEMMA LocksLockFile ==
  ASSUME TypeOK, LocksHeld, NEW p \in Handlers, NEW from, NEW to,
         LockFile(p, from, to), pc[p] # "idle" \/ p \in Files, to # "quotaTx"
  PROVE  LocksHeld'
<1>1. pc'[p] = to /\ \A q \in Handlers \ {p} : pc'[q] = pc[q]
  BY DEF LockFile, Goto, TypeOK, PositionsTyped
<1>2. File(p)' = File(p) /\ File(p) \in Files
  BY HandlerKinds DEF LockFile, localVars, File, TypeOK, TargetsTyped, Handlers
<1>3. fileLock'[File(p)] = p
  BY <1>2 DEF LockFile, TypeOK
<1>4. \A q \in Handlers \ {p} : \A f \in Files : fileLock[f] = q => fileLock'[f] = q
  BY <1>2, HandlerKinds DEF LockFile, TypeOK
<1>5. quotaLock' = quotaLock /\ target' = target
  BY DEF LockFile, localVars
<1> QED
  BY <1>1, <1>2, <1>3, <1>4, <1>5, LocksKept

LEMMA LocksCommit ==
  ASSUME TypeOK, LocksHeld, NEW p \in Handlers, NEW from \in {"deleteTx", "indexTx"},
         NEW to \in {"done", "usage"}, Commit(p, from, to)
  PROVE  LocksHeld'
<1>1. pc'[p] = to /\ \A q \in Handlers \ {p} : pc'[q] = pc[q]
  BY DEF Commit, Goto, TypeOK, PositionsTyped
<1>2. fileLock[File(p)] = p
  BY DEF Commit, Goto, LocksHeld
<1>3. \A q \in Handlers \ {p} : \A f \in Files : fileLock[f] = q => fileLock'[f] = q
  BY <1>2 DEF Commit, TypeOK
<1>4. quotaLock' = quotaLock /\ target' = target
  BY DEF Commit, localVars
<1> QED
  BY <1>1, <1>3, <1>4, LocksKept

LEMMA LocksQuota ==
  ASSUME TypeOK, LocksHeld, NEW f \in Files, BeginQuota(f) \/ CommitQuota(f)
  PROVE  LocksHeld'
<1>1. \A q \in Handlers \ {f} : pc'[q] = pc[q]
  BY DEF BeginQuota, ReadUsage, CommitQuota, Goto, TypeOK, PositionsTyped
<1>2. pc'[f] \in {"quotaTx", "presign", "done"} /\ (pc'[f] = "quotaTx" => quotaLock' = f)
  BY HandlerKinds DEF BeginQuota, ReadUsage, CommitQuota, Goto, TypeOK, PositionsTyped
<1>3. \A q \in Handlers \ {f} : quotaLock = q => quotaLock' = q
  BY HandlerKinds DEF BeginQuota, CommitQuota, Goto, LocksHeld
<1>4. fileLock' = fileLock /\ target' = target
  BY DEF BeginQuota, ReadUsage, CommitQuota, localVars
<1> QED
  BY <1>1, <1>2, <1>3, <1>4, HandlerKinds, LocksKept

LEMMA LocksRollback ==
  ASSUME TypeOK, LocksHeld, NEW p \in Handlers, NEW from, NEW to \in {"done", "idle"},
         Goto(p, from, to), Rollback(p),
         \A q \in (Calls \cup Workers) \ {p} : target'[q] = target[q]
  PROVE  LocksHeld'
<1>1. pc'[p] = to /\ \A q \in Handlers \ {p} : pc'[q] = pc[q]
  BY DEF Goto, TypeOK, PositionsTyped
<1>2. \A q \in Handlers \ {p} : /\ quotaLock = q => quotaLock' = q
                                /\ \A f \in Files : fileLock[f] = q => fileLock'[f] = q
  BY DEF Rollback
<1> QED
  BY <1>1, <1>2, LocksKept DEF Handlers

LEMMA LocksStep ==
  ASSUME TypeOK, LocksHeld, Next
  PROVE  LocksHeld'
<1> USE HandlerKinds
<1>1. ASSUME NEW f \in Files, Upload(f) \/ Put(f) \/ PresignFails(f)
      PROVE  LocksHeld'
  <2>1. CASE Put(f)
    BY <2>1 DEF Put, LocksHeld, File, lockVars, localVars
  <2> QED
    BY <1>1, <2>1, LocksFramed, LocksQuota DEF Upload, StartUpload, IssueUrl, Skip, PresignFails
<1>2. ASSUME NEW p \in Calls \cup Workers, Reject(p) \/ HeadFails(p)
      PROVE  LocksHeld'
  <2>1. CASE RejectObject(p)
    BY <2>1, LocksUntouched DEF RejectObject, Handlers, lockVars, localVars
  <2> QED
    BY <1>2, <2>1, LocksFramed DEF Reject, HeadInvalid, HeadFails, Skip, Handlers
<1>3. ASSUME NEW p \in Files \cup Calls, Delete(p)
      PROVE  LocksHeld'
  <2>1. p \in Handlers
    BY DEF Handlers
  <2> QED
    BY <1>3, <2>1, LocksLockFile, LocksCommit DEF Delete, BeginDelete, CommitDelete, LockFile, Goto
<1>4. ASSUME NEW c \in Calls, Call(c) \/ EnqueueFails(c) \/ DeleteObjectFails(c)
      PROVE  LocksHeld'
  <2>1. CASE Enqueue(c) \/ DeleteObject(c)
    BY <2>1, LocksUntouched DEF Enqueue, DeleteObject, lockVars, localVars
  <2>2. CASE MarkUploaded(c)
    BY <2>2, LocksFramed DEF MarkUploaded, Skip
  <2>3. CASE HeadValid(c, "mark") \/ RejectUpload(c) \/ EnqueueFails(c) \/ DeleteObjectFails(c)
    BY <2>3, LocksFramed DEF HeadValid, RejectUpload, EnqueueFails, DeleteObjectFails
  <2>4. ASSUME NEW f \in Files, CallComplete(c, f) \/ CallDelete(c, f) \/ CallReindex(c, f)
        PROVE  LocksHeld'
    BY <2>4, LocksFramed DEF CallComplete, CallDelete, CallReindex
  <2> QED
    BY <1>4, <2>1, <2>2, <2>3, <2>4 DEF Call
<1>5. ASSUME NEW w \in Workers, Work(w) \/ RecordUsageFails(w)
      PROVE  LocksHeld'
  <2>1. ASSUME NEW from, Return(w, from) \/ Throw(w, from)
        PROVE  LocksHeld'
    BY <2>1, LocksUntouched DEF Return, Throw, Stop, TypeOK, lockVars
  <2>2. ASSUME NEW j \in Jobs, Fetch(w, j)
        PROVE  LocksHeld'
    BY <2>2, LocksUntouched DEF Fetch, TypeOK, lockVars
  <2>3. CASE BeginIndex(w)
    BY <2>3, LocksLockFile, LocksFramed DEF BeginIndex, LockFile, Goto, Skip
  <2>4. CASE CommitIndex(w)
    BY <2>4, LocksCommit DEF CommitIndex
  <2>5. CASE HeadValid(w, "get") \/ ReadObject(w) \/ ExtractionFails(w) \/ RecordUsageFails(w)
    BY <2>5, LocksFramed DEF HeadValid, ReadObject, ExtractionFails, RecordUsageFails, Skip
  <2>6. CASE ReadRow(w) \/ MarkProcessing(w)
    BY <2>1, <2>6, LocksFramed DEF ReadRow, MarkProcessing, Skip
  <2>7. CASE RejectFile(w) \/ RecordUsage(w) \/ FailFile(w)
    BY <2>1, <2>7 DEF RejectFile, RecordUsage, FailFile
  <2> QED
    BY <1>5, <2>2, <2>3, <2>4, <2>5, <2>6, <2>7 DEF Work
<1>6. ASSUME NEW p \in Files \cup Calls, CrashRequest(p)
      PROVE  LocksHeld'
  <2>1. Goto(p, pc[p], "done")
    BY <1>6 DEF CrashRequest, Goto
  <2> QED
    BY <1>6, <2>1, LocksRollback DEF CrashRequest, Handlers, localVars
<1>7. ASSUME NEW w \in Workers, CrashWorker(w)
      PROVE  LocksHeld'
  BY <1>7, LocksRollback DEF CrashWorker, Stop, TypeOK
<1>8. ASSUME \/ \E w \in Workers : Timeout(w)
             \/ \E j \in Jobs : Expire(j)
      PROVE  LocksHeld'
  BY <1>8 DEF Timeout, Expire, LocksHeld, File, lockVars, localVars
<1> QED
  BY <1>1, <1>2, <1>3, <1>4, <1>5, <1>6, <1>7, <1>8 DEF Next, Failure

-----------------------------------------------------------------------------
(***************************************************************************)
(* Rows: only the upload of a file brings it to life.  Every other step    *)
(* leaves a row as it is, moves a live file on, or deletes it.             *)
(***************************************************************************)
RowStep(f) ==
  /\ f \in Live => admitted'[f] = admitted[f]
  /\ \/ status'[f] = status[f] /\ chunks'[f] = chunks[f]
     \/ /\ f \in Live
        /\ status'[f] \in {"uploaded", "processing", "failed"}
        /\ chunks'[f] = chunks[f]
     \/ /\ f \in Live /\ status'[f] = "ready" /\ chunks'[f] \in Sizes
        /\ \E w \in Workers : pc[w] = "indexTx" /\ target[w] = f /\ chunks'[f] = seen[w]
     \/ /\ status[f] # "none" /\ fileLock[f] \notin Workers
        /\ status'[f] = "deleted" /\ chunks'[f] = None
        /\ \E p \in Files \cup Calls : CommitDelete(p) /\ File(p) = f

LEMMA RowsUntouched == UNCHANGED rowVars => \A f \in Files : RowStep(f)
BY DEF rowVars, RowStep

LEMMA RowsMarked ==
  ASSUME TypeOK, NEW f \in Live, NEW s \in {"uploaded", "processing", "failed"},
         SetStatus(f, s)
  PROVE  \A g \in Files : RowStep(g)
BY DEF SetStatus, RowStep, TypeOK, Live

LEMMA RowsFailed ==
  ASSUME TypeOK, NEW f, MarkFailed(f)
  PROVE  \A g \in Files : RowStep(g)
BY RowsUntouched, RowsMarked DEF MarkFailed

\* Every step but the insertion of a row is a RowStep of every file.
LEMMA RowsStep ==
  ASSUME TypeOK, LocksHeld, ReadsHold, Next, ~ \E f \in Files : CommitQuota(f)
  PROVE  \A f \in Files : RowStep(f)
<1> USE HandlerKinds
<1>1. ASSUME NEW f \in Files, Upload(f) \/ Put(f) \/ PresignFails(f)
      PROVE  \A g \in Files : RowStep(g)
  <2>1. CASE StartUpload(f)
    <3>1. f \notin Live
      BY <2>1 DEF StartUpload, Update, Goto, ReadsHold, Live
    <3> QED
      BY <2>1, <3>1 DEF StartUpload, RowStep, TypeOK
  <2> QED
    BY <1>1, <2>1, RowsUntouched
    DEF Upload, BeginQuota, ReadUsage, IssueUrl, Skip, PresignFails, Fault, Put
<1>2. ASSUME NEW p \in Calls \cup Workers, Reject(p) \/ HeadFails(p)
      PROVE  \A g \in Files : RowStep(g)
  BY <1>2, RowsUntouched DEF Reject, HeadInvalid, Skip, RejectObject, HeadFails, Fault
<1>3. ASSUME NEW p \in Files \cup Calls, Delete(p)
      PROVE  \A g \in Files : RowStep(g)
  <2>1. CASE BeginDelete(p)
    BY <2>1, RowsUntouched DEF BeginDelete, LockFile
  <2>2. CASE CommitDelete(p)
    <3>1. p \in Handlers /\ pc[p] = "deleteTx"
      BY <2>2 DEF CommitDelete, Commit, Goto, Handlers
    <3>2. fileLock[File(p)] = p /\ status[File(p)] # "none"
      BY <3>1 DEF LocksHeld, ReadsHold
    <3>3. /\ status' = [status EXCEPT ![File(p)] = "deleted"]
          /\ chunks' = [chunks EXCEPT ![File(p)] = None]
          /\ admitted' = admitted
      BY <2>2 DEF CommitDelete, Commit
    <3>4. ASSUME NEW g \in Files, g # File(p)
          PROVE  RowStep(g)
      BY <3>3, <3>4 DEF RowStep, TypeOK
    <3>5. ASSUME NEW g \in Files, g = File(p)
          PROVE  RowStep(g)
      <4>1. \E q \in Files \cup Calls : CommitDelete(q) /\ File(q) = g
        BY <2>2, <3>5
      <4>2. fileLock[g] \notin Workers /\ status[g] # "none" /\ status'[g] = "deleted"
        BY <1>3, <3>2, <3>3, <3>5, NamesAssumption DEF TypeOK
      <4> QED
        BY <3>3, <3>5, <4>1, <4>2 DEF RowStep, TypeOK
    <3> QED
      BY <3>4, <3>5
  <2> QED
    BY <1>3, <2>1, <2>2 DEF Delete
<1>4. ASSUME NEW c \in Calls, Call(c) \/ EnqueueFails(c) \/ DeleteObjectFails(c)
      PROVE  \A g \in Files : RowStep(g)
  <2>1. CASE MarkUploaded(c)
    <3>1. CASE status[target[c]] \in Completable /\ SetUploaded(c)
      BY <3>1 DEF SetUploaded, Completable, RowStep, Live, TypeOK
    <3> QED
      BY <2>1, <3>1, RowsUntouched DEF MarkUploaded, Skip
  <2>2. CASE RejectUpload(c)
    BY <2>2, RowsFailed DEF RejectUpload
  <2> QED
    BY <1>4, <2>1, <2>2, RowsUntouched
    DEF Call, CallComplete, CallDelete, CallReindex, Accept, HeadValid, Look, Enqueue,
        DeleteObject, EnqueueFails, DeleteObjectFails, Fault
<1>5. ASSUME NEW w \in Workers, Work(w) \/ RecordUsageFails(w)
      PROVE  \A g \in Files : RowStep(g)
  <2>1. CASE MarkProcessing(w)
    <3>1. CASE status[target[w]] \in Processable /\ SetStatus(target[w], "processing")
      <4>1. target[w] \in Files \/ UNCHANGED rowVars
        BY <3>1 DEF SetStatus, TypeOK, rowVars
      <4>2. CASE target[w] \in Files
        BY <3>1, <4>2, RowsMarked DEF Processable, Live
      <4> QED
        BY <4>1, <4>2, RowsUntouched
    <3> QED
      BY <2>1, <3>1, RowsUntouched DEF MarkProcessing
  <2>2. CASE RejectFile(w) \/ FailFile(w)
    BY <2>2, RowsFailed DEF RejectFile, FailFile
  <2>3. CASE CommitIndex(w)
    <3>1. target[w] \in Live /\ seen[w] \in Sizes /\ pc[w] = "indexTx"
      BY <2>3 DEF CommitIndex, Commit, Goto, ReadsHold
    <3> QED
      BY <2>3, <3>1 DEF CommitIndex, Commit, RowStep, TypeOK, Live
  <2> QED
    BY <1>5, <2>1, <2>2, <2>3, RowsUntouched
    DEF Work, Fetch, ReadRow, Skip, HeadValid, ReadObject, Look, ExtractionFails, BeginIndex,
        LockFile, RecordUsage, RecordUsageFails, Fault
<1>6. ASSUME \/ \E p \in Files \cup Calls : CrashRequest(p)
             \/ \E w \in Workers : CrashWorker(w) \/ Timeout(w)
             \/ \E j \in Jobs : Expire(j)
      PROVE  \A g \in Files : RowStep(g)
  BY <1>6, RowsUntouched DEF CrashRequest, CrashWorker, Rollback, Timeout, Expire
<1> QED
  BY <1>1, <1>2, <1>3, <1>4, <1>5, <1>6 DEF Next, Failure

-----------------------------------------------------------------------------
\* No step but the insertion of a row adds a live file.
LEMMA LiveShrinks ==
  ASSUME TypeOK, \A f \in Files : RowStep(f)
  PROVE  /\ Live' \subseteq Live
         /\ Cardinality(Live) \in Nat /\ Cardinality(Live') \in Nat
         /\ Cardinality(Live') <= Cardinality(Live)
<1>1. Live' \subseteq Live
  BY DEF Live, RowStep
<1>2. IsFiniteSet(Live)
  BY FilesAssumption, FS_Subset DEF Live
<1> QED
  BY <1>1, <1>2, FS_Subset, FS_CardinalityType

\* What is still to be counted and read keeps its bounds.
LEMMA CountKept ==
  ASSUME TypeOK, CountWithinQuota, \A f \in Files : RowStep(f)
  PROVE  CountWithinQuota'
<1> SUFFICES ASSUME NEW S \in (SUBSET Live') \ {{}}
             PROVE  \E f \in S : Cardinality(S) <= FileLimit[admitted'[f]]
  BY DEF CountWithinQuota
<1>1. S \in (SUBSET Live) \ {{}}
  BY LiveShrinks
<1>2. PICK f \in S : Cardinality(S) <= FileLimit[admitted[f]]
  BY <1>1 DEF CountWithinQuota
<1>3. admitted'[f] = admitted[f]
  BY <1>1 DEF RowStep, Live
<1> QED
  BY <1>2, <1>3

LEMMA IndexKept ==
  ASSUME IndexFollowsStatus, \A f \in Files : RowStep(f)
  PROVE  IndexFollowsStatus'
BY SizesAssumption DEF IndexFollowsStatus, RowStep, None

\* The insertion of a row: the files counted under the lock are still all.
LEMMA InsertKept ==
  ASSUME LifecycleInv, NEW f \in Files, CommitQuota(f)
  PROVE  /\ IndexFollowsStatus' /\ CountWithinQuota' /\ ReadsHold'
         /\ \A g \in Files : status[g] = "deleted" => status'[g] = "deleted"
<1> USE HandlerKinds DEF LifecycleInv
<1>1. /\ pc[f] = "quotaTx" /\ status[f] = "none"
      /\ Cardinality(Live) <= countRead[f]
  BY DEF CommitQuota, Goto, ReadsHold
<1>2. /\ pc'[f] \in {"presign", "done"}
      /\ \A q \in Handlers \ {f} : pc'[q] = pc[q]
      /\ \A g \in Files \ {f} : countRead'[g] = countRead[g] /\ pc[g] # "quotaTx"
      /\ target' = target /\ seen' = seen
      /\ admitted' = admitted /\ chunks' = chunks
  BY <1>1
  DEF CommitQuota, Goto, SetStatus, TypeOK, PositionsTyped, LocksHeld, localVars, rowVars
<1>3. /\ \A g \in Files \ {f} : status'[g] = status[g]
      /\ \/ status'[f] = "none" /\ pc'[f] = "done"
         \/ status'[f] = "uploading" /\ pc'[f] = "presign" /\ WithinLimits(f)
  BY <1>1 DEF CommitQuota, Goto, SetStatus, TypeOK, PositionsTyped, rowVars
<1>4. IndexFollowsStatus'
  BY <1>1, <1>2, <1>3 DEF IndexFollowsStatus
<1>5. CountWithinQuota'
  <2> SUFFICES ASSUME NEW S \in (SUBSET Live') \ {{}}
               PROVE  \E g \in S : Cardinality(S) <= FileLimit[admitted[g]]
    BY <1>2 DEF CountWithinQuota
  <2>1. IsFiniteSet(Live) /\ f \notin Live /\ Live' \subseteq Live \cup {f}
    BY <1>1, <1>3, FilesAssumption, FS_Subset DEF Live
  <2>2. CASE f \notin S
    BY <2>1, <2>2 DEF CountWithinQuota
  <2>3. CASE f \in S
    <3>1. WithinLimits(f)
      BY <1>3, <2>3 DEF Live
    <3>2. /\ IsFiniteSet(Live \cup {f})
          /\ Cardinality(Live \cup {f}) = Cardinality(Live) + 1
      BY <2>1, FS_AddElement
    <3>3. Cardinality(S) <= Cardinality(Live) + 1 /\ Cardinality(S) \in Nat
      BY <2>1, <3>2, FS_Subset, FS_CardinalityType
    <3>4. Cardinality(Live) \in Nat /\ countRead[f] \in Nat
      BY <2>1, FS_CardinalityType DEF TypeOK
    <3>5. FileLimit[admitted[f]] \in Nat
      BY QuotaAssumption DEF TypeOK
    <3>6. countRead[f] + 1 <= FileLimit[admitted[f]]
      BY <3>1 DEF WithinLimits
    <3>7. Cardinality(S) <= FileLimit[admitted[f]]
      BY <1>1, <3>3, <3>4, <3>5, <3>6
    <3> QED
      BY <2>3, <3>7
  <2> QED
    BY <2>2, <2>3
<1>6. ReadsHold'
  <2>1. \A g \in Files :
          /\ pc'[g] \in {"idle", "quotaLock", "quotaTx"} => status'[g] = "none"
          /\ pc'[g] # "quotaTx"
    BY <1>1, <1>2, <1>3 DEF ReadsHold
  <2>2. ASSUME NEW p \in Handlers,
               pc'[p] \in {"presign", "deleteObject", "deleteLock", "deleteTx"}
        PROVE  status'[File(p)'] # "none"
    <3>1. CASE p = f
      BY <1>2, <1>3, <2>2, <3>1 DEF File
    <3>2. CASE p # f
      <4>1. pc[p] = pc'[p] /\ File(p)' = File(p) /\ File(p) \in Files
        BY <1>2, <2>2, <3>2 DEF File, TypeOK, TargetsTyped, Handlers
      <4>2. status[File(p)] # "none"
        BY <2>2, <4>1 DEF ReadsHold
      <4> QED
        BY <1>1, <1>3, <4>1, <4>2
    <3> QED
      BY <3>1, <3>2
  <2>3. \A w \in Workers :
          /\ pc'[w] \in {"indexLock", "indexTx"} => seen'[w] \in Sizes
          /\ pc'[w] = "indexTx" => target'[w] \in Live'
    BY <1>1, <1>2, <1>3 DEF ReadsHold, Live
  <2> QED
    BY <2>1, <2>2, <2>3 DEF ReadsHold
<1> QED
  BY <1>1, <1>3, <1>4, <1>5, <1>6

-----------------------------------------------------------------------------
(***************************************************************************)
(* Reads: what a handler relies on, apart from the insertion of a row.     *)
(***************************************************************************)
NewFile == {"idle", "quotaLock", "quotaTx"}
Deleting == {"presign", "deleteObject", "deleteLock", "deleteTx"}
Indexing == {"indexLock", "indexTx"}

\* A row step keeps what a handler that does not move relies on.
LEMMA ReadsKept ==
  ASSUME TypeOK, LocksHeld, ReadsHold, \A f \in Files : RowStep(f),
         NEW p \in Handlers,
         \A q \in Handlers \ {p} : /\ pc'[q] = pc[q]
                                   /\ q \in Files => countRead'[q] = countRead[q]
                                   /\ q \notin Files => /\ target'[q] = target[q]
                                                        /\ seen'[q] = seen[q],
         p \in Files /\ pc'[p] \in NewFile => status'[p] = "none",
         p \in Files /\ pc'[p] = "quotaTx" => Cardinality(Live)' <= countRead'[p],
         pc'[p] \in Deleting => status'[File(p)'] # "none",
         p \in Workers /\ pc'[p] \in Indexing => seen'[p] \in Sizes,
         p \in Workers /\ pc'[p] = "indexTx" => target'[p] \in Live'
  PROVE  ReadsHold'
<1> USE HandlerKinds DEF NewFile, Deleting, Indexing
<1>1. ASSUME NEW f \in Files
      PROVE  /\ pc'[f] \in NewFile => status'[f] = "none"
             /\ pc'[f] = "quotaTx" => Cardinality(Live)' <= countRead'[f]
  <2>1. CASE f # p
    <3>1. /\ Cardinality(Live') <= Cardinality(Live)
          /\ Cardinality(Live') \in Nat /\ Cardinality(Live) \in Nat
      BY LiveShrinks
    <3>2. countRead[f] \in Nat
      BY DEF TypeOK
    <3>3. /\ pc'[f] = pc[f] /\ countRead'[f] = countRead[f]
          /\ status[f] = "none" => status'[f] = "none"
      BY <2>1 DEF RowStep, Live
    <3> QED
      BY <3>1, <3>2, <3>3 DEF ReadsHold
  <2> QED
    BY <2>1
<1>2. ASSUME NEW q \in Handlers, pc'[q] \in Deleting
      PROVE  status'[File(q)'] # "none"
  <2>1. CASE q # p
    <3>1. pc[q] = pc'[q] /\ File(q)' = File(q) /\ File(q) \in Files
      BY <1>2, <2>1 DEF File, TypeOK, TargetsTyped, Handlers
    <3>2. status[File(q)] # "none"
      BY <1>2, <3>1 DEF ReadsHold
    <3> QED
      BY <3>1, <3>2 DEF RowStep
  <2> QED
    BY <1>2, <2>1
<1>3. ASSUME NEW w \in Workers
      PROVE  /\ pc'[w] \in Indexing => seen'[w] \in Sizes
             /\ pc'[w] = "indexTx" => target'[w] \in Live'
  <2>1. CASE w # p
    <3>1. pc'[w] = pc[w] /\ target'[w] = target[w] /\ seen'[w] = seen[w]
      BY <2>1
    <3>2. ASSUME pc[w] = "indexTx"
          PROVE  target[w] \in Live'
      <4>1. target[w] \in Live /\ fileLock[target[w]] = w
        BY <3>2 DEF ReadsHold, LocksHeld, File
      <4> QED
        BY <4>1 DEF RowStep, Live
    <3> QED
      BY <3>1, <3>2 DEF ReadsHold
  <2> QED
    BY <2>1
<1> QED
  BY <1>1, <1>2, <1>3 DEF ReadsHold

\* A step to a position that relies on nothing.
LEMMA ReadsQuiet ==
  ASSUME TypeOK, LocksHeld, ReadsHold, \A f \in Files : RowStep(f),
         NEW p \in Handlers, NEW from, NEW to, Goto(p, from, to),
         p \in Workers \/ to # "idle",
         to \notin {"quotaLock", "quotaTx"} \cup Deleting \cup Indexing,
         countRead' = countRead,
         \A q \in (Calls \cup Workers) \ {p} : target'[q] = target[q] /\ seen'[q] = seen[q]
  PROVE  ReadsHold'
<1>1. pc'[p] = to /\ \A q \in Handlers \ {p} : pc'[q] = pc[q]
  BY DEF Goto, TypeOK, PositionsTyped
<1> QED
  BY <1>1, ReadsKept, HandlerKinds DEF Handlers, NewFile, Deleting, Indexing

\* A step along positions that rely on the same.
LEMMA ReadsMoved ==
  ASSUME TypeOK, LocksHeld, ReadsHold, \A f \in Files : RowStep(f),
         NEW p \in Handlers, NEW from \in Deleting, NEW to \in Deleting, Goto(p, from, to),
         countRead' = countRead, target' = target, seen' = seen
  PROVE  ReadsHold'
<1>1. pc'[p] = to /\ \A q \in Handlers \ {p} : pc'[q] = pc[q]
  BY DEF Goto, TypeOK, PositionsTyped
<1>2. File(p)' = File(p) /\ File(p) \in Files /\ status[File(p)] # "none"
  BY HandlerKinds DEF File, Goto, ReadsHold, TypeOK, TargetsTyped, Handlers, Deleting
<1>3. status'[File(p)'] # "none"
  BY <1>2 DEF RowStep
<1> QED
  BY <1>1, <1>3, ReadsKept, HandlerKinds DEF NewFile, Deleting, Indexing

LEMMA ReadsFramed ==
  ASSUME TypeOK, LocksHeld, ReadsHold, \A f \in Files : RowStep(f),
         NEW p \in Handlers, NEW from, NEW to,
         \/ Update(p, from, to)
         \/ Commit(p, from, to)
         \/ Look(p, from, to)
         \/ Fault(p, from, to)
         \/ p \in Calls /\ \E f \in Files : Accept(p, f, to),
         p \in Workers \/ to # "idle",
         to \notin {"quotaLock", "quotaTx"} \cup Deleting \cup Indexing
  PROVE  ReadsHold'
<1>1. /\ \E at : Goto(p, at, to)
      /\ countRead' = countRead
      /\ \A q \in (Calls \cup Workers) \ {p} : target'[q] = target[q] /\ seen'[q] = seen[q]
  BY DEF Update, Commit, Look, Fault, Accept, lockVars, readVars, localVars, TypeOK
<1> QED
  BY <1>1, ReadsQuiet

\* The upload of a file until its row is inserted.
LEMMA ReadsUpload ==
  ASSUME TypeOK, LocksHeld, ReadsHold, \A g \in Files : RowStep(g),
         NEW f \in Files, StartUpload(f) \/ BeginQuota(f) \/ IssueUrl(f) \/ PresignFails(f)
  PROVE  ReadsHold'
<1> USE HandlerKinds
<1>1. CASE StartUpload(f)
  <2>1. /\ pc'[f] = "quotaLock" /\ \A q \in Handlers \ {f} : pc'[q] = pc[q]
        /\ countRead' = countRead /\ target' = target /\ seen' = seen
    BY <1>1 DEF StartUpload, Update, Goto, TypeOK, PositionsTyped, lockVars, readVars, localVars
  <2>2. status'[f] = "none"
    BY <1>1 DEF StartUpload, Update, Goto, ReadsHold
  <2> QED
    BY <2>1, <2>2, ReadsKept DEF NewFile, Deleting, Indexing
<1>2. CASE BeginQuota(f)
  <2>1. /\ pc'[f] = "quotaTx" /\ \A q \in Handlers \ {f} : pc'[q] = pc[q]
        /\ \A g \in Files \ {f} : countRead'[g] = countRead[g]
        /\ countRead'[f] = Cardinality(Live)
        /\ target' = target /\ seen' = seen /\ status' = status
    BY <1>2 DEF BeginQuota, ReadUsage, Goto, TypeOK, PositionsTyped, localVars, rowVars
  <2>2. status'[f] = "none"
    BY <1>2, <2>1 DEF BeginQuota, ReadUsage, Goto, ReadsHold
  <2>3. Live' = Live /\ Cardinality(Live) \in Nat
    BY <2>1, LiveShrinks DEF Live
  <2>4. Cardinality(Live)' <= countRead'[f]
    BY <2>1, <2>3
  <2> QED
    BY <2>1, <2>2, <2>4, ReadsKept DEF NewFile, Deleting, Indexing
<1>3. CASE IssueUrl(f)
  BY <1>3, ReadsFramed DEF IssueUrl, Skip, Deleting, Indexing
<1>4. CASE PresignFails(f)
  BY <1>4, ReadsMoved DEF PresignFails, Fault, Deleting, lockVars, readVars, localVars
<1> QED
  BY <1>1, <1>2, <1>3, <1>4

\* A worker from the object to the transaction that writes the chunks.
LEMMA ReadsIndex ==
  ASSUME TypeOK, LocksHeld, ReadsHold, \A g \in Files : RowStep(g),
         NEW w \in Workers, ReadObject(w) \/ BeginIndex(w)
  PROVE  ReadsHold'
<1> USE HandlerKinds
<1>1. CASE ReadObject(w)
  <2>1. /\ pc'[w] = "indexLock" /\ \A q \in Handlers \ {w} : pc'[q] = pc[q]
        /\ countRead' = countRead /\ target' = target
        /\ \A q \in (Calls \cup Workers) \ {w} : seen'[q] = seen[q]
    BY <1>1 DEF ReadObject, Look, Goto, TypeOK, PositionsTyped, lockVars, readVars
  <2>2. seen'[w] \in Sizes
    BY <1>1 DEF ReadObject, Look, Goto, TypeOK, TargetsTyped
  <2> QED
    BY <2>1, <2>2, ReadsKept DEF NewFile, Deleting, Indexing, Handlers
<1>2. CASE LockFile(w, "indexLock", "indexTx") /\ target[w] \in Live
  <2>1. /\ pc'[w] = "indexTx" /\ \A q \in Handlers \ {w} : pc'[q] = pc[q]
        /\ countRead' = countRead /\ target' = target /\ seen' = seen /\ status' = status
    BY <1>2 DEF LockFile, Goto, TypeOK, PositionsTyped, readVars, localVars, rowVars
  <2>2. seen'[w] \in Sizes /\ target'[w] \in Live'
    BY <1>2, <2>1 DEF LockFile, Goto, ReadsHold, Live
  <2> QED
    BY <2>1, <2>2, ReadsKept DEF NewFile, Deleting, Indexing
<1>3. CASE Skip(w, "indexLock", "fail")
  BY <1>3, ReadsFramed DEF Skip, Deleting, Indexing
<1> QED
  BY <1>1, <1>2, <1>3 DEF BeginIndex

\* Every step but the insertion of a row.
LEMMA ReadsStep ==
  ASSUME TypeOK, LocksHeld, ReadsHold, \A f \in Files : RowStep(f),
         Next, ~ \E f \in Files : CommitQuota(f)
  PROVE  ReadsHold'
<1> USE HandlerKinds DEF Deleting, Indexing
<1>0. ASSUME pc' = pc, countRead' = countRead, target' = target, seen' = seen
      PROVE  ReadsHold'
  <2>1. CASE Handlers # {}
    <3>1. PICK p \in Handlers : TRUE
      BY <2>1
    <3>2. \A f \in Files : status[f] = "none" => status'[f] = "none"
      BY DEF RowStep, Live
    <3>3. \A f \in Files : pc[f] = "quotaTx" => Cardinality(Live)' <= countRead[f]
      BY LiveShrinks DEF ReadsHold, TypeOK
    <3>4. pc[p] \in Deleting => status'[File(p)] # "none"
      BY DEF RowStep, File, TypeOK, TargetsTyped, Handlers, ReadsHold
    <3>5. p \in Workers /\ pc[p] = "indexTx" => target[p] \in Live'
      BY DEF RowStep, Live, ReadsHold, LocksHeld, File
    <3> QED
      BY <1>0, <3>2, <3>3, <3>4, <3>5, ReadsKept DEF ReadsHold, NewFile, File
  <2>2. CASE Handlers = {}
    BY <2>2 DEF ReadsHold, Handlers
  <2> QED
    BY <2>1, <2>2
<1>1. ASSUME NEW f \in Files, Upload(f) \/ Put(f) \/ PresignFails(f)
      PROVE  ReadsHold'
  <2>1. CASE Put(f)
    BY <1>0, <2>1 DEF Put, lockVars, readVars, localVars
  <2> QED
    BY <1>1, <2>1, ReadsUpload DEF Upload
<1>2. ASSUME NEW p \in Calls \cup Workers, Reject(p) \/ HeadFails(p)
      PROVE  ReadsHold'
  <2>1. p \in Handlers
    BY DEF Handlers
  <2>2. CASE RejectObject(p)
    BY <2>1, <2>2, ReadsQuiet DEF RejectObject, lockVars, readVars, localVars
  <2> QED
    BY <1>2, <2>1, <2>2, ReadsFramed DEF Reject, HeadInvalid, HeadFails, Skip
<1>3. ASSUME NEW p \in Files \cup Calls, Delete(p)
      PROVE  ReadsHold'
  <2>1. p \in Handlers
    BY DEF Handlers
  <2>2. CASE BeginDelete(p)
    BY <2>1, <2>2, ReadsMoved DEF BeginDelete, LockFile, readVars, localVars
  <2> QED
    BY <1>3, <2>1, <2>2, ReadsFramed DEF Delete, CommitDelete
<1>4. ASSUME NEW c \in Calls, Call(c) \/ EnqueueFails(c) \/ DeleteObjectFails(c)
      PROVE  ReadsHold'
  <2>1. CASE Enqueue(c)
    BY <2>1, ReadsQuiet DEF Enqueue, lockVars, readVars, localVars
  <2>2. CASE DeleteObject(c)
    BY <2>2, ReadsMoved DEF DeleteObject, lockVars, readVars, localVars
  <2>3. ASSUME NEW f \in Files, CallDelete(c, f)
        PROVE  ReadsHold'
    <3>1. /\ pc'[c] = "deleteObject" /\ target'[c] = f
          /\ \A q \in Handlers \ {c} : pc'[q] = pc[q]
          /\ \A q \in (Calls \cup Workers) \ {c} : target'[q] = target[q]
          /\ countRead' = countRead /\ seen' = seen /\ status' = status
      BY <2>3
      DEF CallDelete, Accept, Goto, TypeOK, PositionsTyped, lockVars, readVars, rowVars
    <3>2. status'[File(c)'] # "none"
      BY <2>3, <3>1 DEF CallDelete, File, Live
    <3> QED
      BY <3>1, <3>2, ReadsKept DEF NewFile, Handlers
  <2>4. ASSUME NEW f \in Files, CallComplete(c, f) \/ CallReindex(c, f)
        PROVE  ReadsHold'
    BY <2>4, ReadsFramed DEF CallComplete, CallReindex
  <2>5. CASE MarkUploaded(c)
    BY <2>5, ReadsFramed DEF MarkUploaded, Skip
  <2>6. CASE HeadValid(c, "mark") \/ RejectUpload(c) \/ EnqueueFails(c) \/ DeleteObjectFails(c)
    BY <2>6, ReadsFramed DEF HeadValid, RejectUpload, EnqueueFails, DeleteObjectFails
  <2> QED
    BY <1>4, <2>1, <2>2, <2>3, <2>4, <2>5, <2>6 DEF Call
<1>5. ASSUME NEW w \in Workers, Work(w) \/ RecordUsageFails(w)
      PROVE  ReadsHold'
  <2>1. ASSUME NEW from, Return(w, from) \/ Throw(w, from)
        PROVE  ReadsHold'
    BY <2>1, ReadsQuiet DEF Return, Throw, Stop, TypeOK, lockVars, readVars
  <2>2. ASSUME NEW j \in Jobs, Fetch(w, j)
        PROVE  ReadsHold'
    BY <2>2, ReadsQuiet DEF Fetch, TypeOK, lockVars, readVars
  <2>3. CASE ReadObject(w) \/ BeginIndex(w)
    BY <2>3, ReadsIndex
  <2>4. CASE HeadValid(w, "get") \/ ExtractionFails(w) \/ CommitIndex(w) \/ RecordUsageFails(w)
    BY <2>4, ReadsFramed
    DEF HeadValid, ExtractionFails, CommitIndex, RecordUsageFails, Skip
  <2>5. CASE ReadRow(w) \/ MarkProcessing(w)
    BY <2>1, <2>5, ReadsFramed DEF ReadRow, MarkProcessing, Skip
  <2>6. CASE RejectFile(w) \/ RecordUsage(w) \/ FailFile(w)
    BY <2>1, <2>6 DEF RejectFile, RecordUsage, FailFile
  <2> QED
    BY <1>5, <2>2, <2>3, <2>4, <2>5, <2>6 DEF Work
<1>6. ASSUME NEW p \in Files \cup Calls, CrashRequest(p)
      PROVE  ReadsHold'
  BY <1>6, ReadsQuiet DEF CrashRequest, Rollback, Goto, Handlers, readVars, localVars
<1>7. ASSUME NEW w \in Workers, CrashWorker(w)
      PROVE  ReadsHold'
  BY <1>7, ReadsQuiet DEF CrashWorker, Stop, Rollback, TypeOK, readVars
<1>8. ASSUME \/ \E w \in Workers : Timeout(w)
             \/ \E j \in Jobs : Expire(j)
      PROVE  ReadsHold'
  BY <1>0, <1>8 DEF Timeout, Expire, lockVars, readVars, localVars
<1> QED
  BY <1>1, <1>2, <1>3, <1>4, <1>5, <1>6, <1>7, <1>8 DEF Next, Failure

-----------------------------------------------------------------------------
LEMMA InvInit == Init => LifecycleInv
<1> SUFFICES ASSUME Init PROVE LifecycleInv
  OBVIOUS
<1>1. Live = {}
  BY DEF Init, Live
<1>2. \A p \in Handlers : pc[p] = "idle"
  BY DEF Init
<1>3. LocksHeld /\ ReadsHold
  BY <1>2, HandlerKinds DEF Init, LocksHeld, ReadsHold
<1>4. IndexFollowsStatus
  BY DEF Init, IndexFollowsStatus
<1>5. CountWithinQuota
  <2> SUFFICES ASSUME NEW S \in (SUBSET Live) \ {{}}
               PROVE  FALSE
    BY DEF CountWithinQuota
  <2>1. S \subseteq {} /\ S # {}
    BY <1>1
  <2> QED
    BY <2>1
<1> QED
  BY <1>3, <1>4, <1>5, TypeInit DEF LifecycleInv

\* Every step keeps the invariant, and what is deleted.
LEMMA InvStep ==
  ASSUME LifecycleInv, [Next]_vars
  PROVE  /\ LifecycleInv'
         /\ \A f \in Files : status[f] = "deleted" => status'[f] = "deleted"
<1> USE DEF LifecycleInv
<1>1. TypeOK'
  BY TypeStep
<1>2. ASSUME NEW f \in Files, CommitQuota(f)
      PROVE  /\ LifecycleInv'
             /\ \A g \in Files : status[g] = "deleted" => status'[g] = "deleted"
  BY <1>1, <1>2, InsertKept, LocksStep DEF Next, Upload
<1>3. CASE Next /\ ~ \E f \in Files : CommitQuota(f)
  <2>1. \A f \in Files : RowStep(f)
    BY <1>3, RowsStep
  <2>2. LocksHeld' /\ ReadsHold' /\ IndexFollowsStatus' /\ CountWithinQuota'
    BY <1>3, <2>1, LocksStep, ReadsStep, IndexKept, CountKept
  <2>3. \A f \in Files : status[f] = "deleted" => status'[f] = "deleted"
    BY <2>1 DEF RowStep, Live
  <2> QED
    BY <1>1, <2>2, <2>3
<1>4. CASE UNCHANGED vars
  <2>1. Live' = Live /\ \A p \in Handlers : File(p)' = File(p)
    BY <1>4 DEF Live, File, vars, rowVars, localVars
  <2>2. LocksHeld'
    BY <1>4, <2>1 DEF LocksHeld, vars, lockVars
  <2>3. ReadsHold'
    BY <1>4, <2>1 DEF ReadsHold, vars, rowVars, lockVars, readVars, localVars
  <2>4. IndexFollowsStatus' /\ CountWithinQuota'
    BY <1>4, <2>1 DEF IndexFollowsStatus, CountWithinQuota, vars, rowVars
  <2>5. status' = status
    BY <1>4 DEF vars, rowVars
  <2> QED
    BY <1>1, <2>2, <2>3, <2>4, <2>5
<1> QED
  BY <1>2, <1>3, <1>4

\* A transaction that waited for its lock writes under what it read: the
\* inductive invariant holds in every state.
THEOREM FileLifecycleInvariant == Spec => []LifecycleInv
<1>1. LifecycleInv /\ [Next]_vars => LifecycleInv'
  BY InvStep
<1> QED
  BY InvInit, <1>1, PTL DEF Spec

\* A ready file has chunks, a deleted file none, although the handlers that
\* write statuses outside the lock of the file run at any time.
THEOREM FileIndexFollowsStatus == Spec => []IndexFollowsStatus
<1>1. LifecycleInv => IndexFollowsStatus
  BY DEF LifecycleInv
<1> QED
  BY FileLifecycleInvariant, <1>1, PTL

\* However many uploads are initialized at once, the stored files are no more
\* than the plan of the last admitted one allows.
THEOREM FileCountWithinQuota == Spec => []CountWithinQuota
<1>1. LifecycleInv => CountWithinQuota
  BY DEF LifecycleInv
<1> QED
  BY FileLifecycleInvariant, <1>1, PTL

\* No completion, reindexing or worker that is still running on a deleted file
\* brings it back.
THEOREM FileDeletedIsFinal == Spec => DeletedIsFinal
<1>1. LifecycleInv /\ [Next]_vars
        => [\A f \in Files : status[f] = "deleted" => status'[f] = "deleted"]_vars
  BY InvStep
<1> QED
  BY FileLifecycleInvariant, <1>1, PTL DEF Spec, DeletedIsFinal

-----------------------------------------------------------------------------
(***************************************************************************)
(* Contents: what a file weighs and what is indexed is what was declared,  *)
(* although an object is validated, and its row is updated, in steps.      *)
(***************************************************************************)
Begun == {"none", "uploading"}

\* The rows, the objects and the jobs.
FilesHold ==
  /\ \A f \in Files :
       /\ status[f] = "none" => actual[f] = None
       /\ status[f] # "none" => expected[f] \in Sizes
       /\ actual[f] \in {None, expected[f]}
       /\ object[f] # None => puts[f] > 0
  /\ JobsFollowCompletion
  /\ IndexIsValidated

UploadHolds(f) == pc[f] \in {"quotaLock", "quotaTx"} => expected[f] \in Sizes

\* A completion that has seen a valid object has seen its declared size.
CallHolds(c) ==
  /\ pc[c] # "idle" => status[target[c]] # "none"
  /\ pc[c] = "enqueue" => status[target[c]] # "uploading"
  /\ pc[c] = "mark" => seen[c] = expected[target[c]]

\* A worker between the validation and the index has the object that was
\* validated, or none, unless there was a PUT since the validation.
WorkHolds(w) ==
  /\ pc[w] # "idle" => status[target[w]] \notin Begun
  /\ pc[w] = "get" =>
       target[w] \in swapped \/ object[target[w]] \in {None, expected[target[w]]}
  /\ pc[w] \in {"indexLock", "indexTx"} =>
       target[w] \in swapped \/ seen[w] = expected[target[w]]

HandlersHold ==
  /\ \A f \in Files : UploadHolds(f)
  /\ \A c \in Calls : CallHolds(c)
  /\ \A w \in Workers : WorkHolds(w)

\* How a step may change a file.
DataStep(f) ==
  /\ expected'[f] = expected[f] \/ (pc[f] = "idle" /\ status[f] = "none")
  /\ \/ actual'[f] = actual[f]
     \/ status[f] # "none" /\ actual'[f] = expected[f]
  /\ \/ puts'[f] = puts[f] /\ object'[f] \in {object[f], None}
     \/ /\ puts'[f] = puts[f] + 1
        /\ (\E w \in Workers : pc[w] = "get" /\ target[w] = f) => f \in swapped'
  /\ f \in swapped => f \in swapped'

StatusStep(f) ==
  /\ status[f] = "none" => \/ status'[f] = "none"
                           \/ status'[f] = "uploading" /\ pc[f] = "quotaTx"
  /\ status[f] # "none" => status'[f] # "none"
  /\ status[f] \notin Begun => status'[f] \notin Begun

LEMMA DataUntouched ==
  UNCHANGED << expected, actual, object, puts, swapped >> => \A f \in Files : DataStep(f)
BY DEF DataStep

\* Only an upload that has no row yet declares another size, only a completion
\* sets the measured size, and only a PUT brings a new object.
LEMMA DataSteps ==
  ASSUME TypeOK, ReadsHold, HandlersHold, Next
  PROVE  \A f \in Files : DataStep(f)
<1> USE HandlerKinds
<1>1. ASSUME NEW g \in Files, Upload(g) \/ Put(g) \/ PresignFails(g)
      PROVE  \A f \in Files : DataStep(f)
  <2>1. CASE StartUpload(g)
    <3>1. /\ pc[g] = "idle" /\ status[g] = "none" /\ UNCHANGED << actual, object, puts, swapped >>
          /\ \A f \in Files \ {g} : expected'[f] = expected[f]
      BY <2>1 DEF StartUpload, Update, Goto, ReadsHold, storeVars, TypeOK
    <3> QED
      BY <3>1 DEF DataStep
  <2>2. CASE Put(g)
    <3>1. /\ UNCHANGED << expected, actual >> /\ puts'[g] = puts[g] + 1
          /\ \A f \in Files \ {g} : puts'[f] = puts[f] /\ object'[f] = object[f]
          /\ swapped \subseteq swapped'
          /\ (\E w \in Workers : pc[w] = "get" /\ target[w] = g) => g \in swapped'
      BY <2>2 DEF Put, rowVars, TypeOK
    <3> QED
      BY <3>1 DEF DataStep
  <2> QED
    BY <1>1, <2>1, <2>2, DataUntouched
    DEF Upload, BeginQuota, ReadUsage, CommitQuota, SetStatus, IssueUrl, Skip, Update,
        PresignFails, Fault, rowVars, storeVars
<1>2. ASSUME NEW p \in Calls \cup Workers, Reject(p) \/ HeadFails(p)
      PROVE  \A f \in Files : DataStep(f)
  <2>1. CASE RejectObject(p)
    BY <2>1 DEF RejectObject, DataStep, rowVars, TypeOK
  <2> QED
    BY <1>2, <2>1, DataUntouched DEF Reject, HeadInvalid, Skip, Update, HeadFails, Fault,
       rowVars, storeVars
<1>3. ASSUME NEW p \in Files \cup Calls, Delete(p)
      PROVE  \A f \in Files : DataStep(f)
  BY <1>3, DataUntouched DEF Delete, BeginDelete, LockFile, CommitDelete, Commit, rowVars, storeVars
<1>4. ASSUME NEW c \in Calls, Call(c) \/ EnqueueFails(c) \/ DeleteObjectFails(c)
      PROVE  \A f \in Files : DataStep(f)
  <2>1. CASE DeleteObject(c)
    BY <2>1 DEF DeleteObject, DataStep, rowVars, TypeOK
  <2>2. CASE Update(c, "mark", "enqueue") /\ SetUploaded(c)
    <3>1. /\ UNCHANGED << expected, object, puts, swapped >>
          /\ seen[c] = expected[target[c]] /\ status[target[c]] # "none"
          /\ \A f \in Files : actual'[f] = IF f = target[c] THEN seen[c] ELSE actual[f]
      BY <2>2 DEF SetUploaded, Update, Goto, HandlersHold, CallHolds, storeVars, TypeOK
    <3> QED
      BY <3>1 DEF DataStep
  <2>3. CASE MarkUploaded(c)
    BY <2>2, <2>3, DataUntouched DEF MarkUploaded, Skip, Update, rowVars, storeVars
  <2>4. CASE RejectUpload(c)
    BY <2>4, DataUntouched DEF RejectUpload, Update, MarkFailed, SetStatus, rowVars, storeVars
  <2> QED
    BY <1>4, <2>1, <2>3, <2>4, DataUntouched
    DEF Call, CallComplete, CallDelete, CallReindex, Accept, HeadValid, Look, Enqueue,
        EnqueueFails, DeleteObjectFails, Fault, rowVars, storeVars
<1>5. ASSUME NEW w \in Workers, Work(w) \/ RecordUsageFails(w)
      PROVE  \A f \in Files : DataStep(f)
  <2>1. CASE MarkProcessing(w) \/ RejectFile(w) \/ FailFile(w)
    BY <2>1, DataUntouched
    DEF MarkProcessing, RejectFile, FailFile, MarkFailed, SetStatus, Update, Return, Throw, Stop,
        rowVars, storeVars
  <2> QED
    BY <1>5, <2>1, DataUntouched
    DEF Work, Fetch, ReadRow, Return, Throw, Stop, Skip, Update, HeadValid, ReadObject, Look,
        ExtractionFails, BeginIndex, LockFile, CommitIndex, Commit, RecordUsage,
        RecordUsageFails, Fault, rowVars, storeVars
<1>6. ASSUME \/ \E p \in Files \cup Calls : CrashRequest(p)
             \/ \E w \in Workers : CrashWorker(w) \/ Timeout(w)
             \/ \E j \in Jobs : Expire(j)
      PROVE  \A f \in Files : DataStep(f)
  BY <1>6, DataUntouched
  DEF CrashRequest, CrashWorker, Stop, Rollback, Timeout, Expire, rowVars, storeVars
<1> QED
  BY <1>1, <1>2, <1>3, <1>4, <1>5, <1>6 DEF Next, Failure

\* A file begins with the insertion of its row, and is completed once.
LEMMA StatusSteps ==
  ASSUME LifecycleInv, Next
  PROVE  \A f \in Files : StatusStep(f)
<1> USE DEF LifecycleInv
<1>1. ASSUME NEW g \in Files, CommitQuota(g)
      PROVE  \A f \in Files : StatusStep(f)
  <2>1. pc[g] = "quotaTx" /\ status[g] = "none"
    BY <1>1 DEF CommitQuota, Goto, ReadsHold
  <2> QED
    BY <1>1, <2>1 DEF CommitQuota, SetStatus, StatusStep, Begun, rowVars, TypeOK
<1>2. CASE ~ \E g \in Files : CommitQuota(g)
  BY <1>2, RowsStep DEF RowStep, StatusStep, Begun, Live
<1> QED
  BY <1>1, <1>2

\* What a handler that does not move relies on is still there.
LEMMA HoldsKept ==
  ASSUME TypeOK, HandlersHold,
         \A f \in Files : DataStep(f) /\ StatusStep(f),
         NEW p \in Handlers,
         \A q \in Handlers \ {p} : /\ pc'[q] = pc[q]
                                   /\ q \notin Files => /\ target'[q] = target[q]
                                                        /\ seen'[q] = seen[q],
         p \in Files => UploadHolds(p)',
         p \in Calls => CallHolds(p)',
         p \in Workers => WorkHolds(p)'
  PROVE  HandlersHold'
<1> USE HandlerKinds
<1>1. ASSUME NEW f \in Files, f # p
      PROVE  UploadHolds(f)'
  BY <1>1 DEF HandlersHold, UploadHolds, DataStep
<1>2. ASSUME NEW c \in Calls, c # p
      PROVE  CallHolds(c)'
  <2> SUFFICES ASSUME pc[c] # "idle"
               PROVE  CallHolds(c)'
    BY <1>2 DEF CallHolds
  <2>1. /\ pc'[c] = pc[c] /\ target'[c] = target[c] /\ seen'[c] = seen[c]
        /\ CallHolds(c) /\ target[c] \in Files
    BY <1>2 DEF HandlersHold, TypeOK, TargetsTyped
  <2>2. DataStep(target[c]) /\ StatusStep(target[c])
    BY <2>1
  <2> QED
    BY <2>1, <2>2 DEF CallHolds, DataStep, StatusStep, Begun
<1>3. ASSUME NEW w \in Workers, w # p
      PROVE  WorkHolds(w)'
  <2> SUFFICES ASSUME pc[w] # "idle"
               PROVE  WorkHolds(w)'
    BY <1>3 DEF WorkHolds
  <2>1. /\ pc'[w] = pc[w] /\ target'[w] = target[w] /\ seen'[w] = seen[w]
        /\ WorkHolds(w) /\ target[w] \in Files
    BY <1>3 DEF HandlersHold, TypeOK, TargetsTyped
  <2>2. /\ DataStep(target[w]) /\ StatusStep(target[w])
        /\ puts[target[w]] \in Nat
    BY <2>1 DEF TypeOK
  <2> QED
    BY <2>1, <2>2 DEF WorkHolds, DataStep, StatusStep, Begun
<1> QED
  BY <1>1, <1>2, <1>3 DEF HandlersHold

Relying == {"quotaLock", "quotaTx", "mark", "enqueue", "get", "indexLock", "indexTx"}

\* A step to a position that relies on no content.
LEMMA HoldsMoved ==
  ASSUME TypeOK, HandlersHold,
         \A f \in Files : DataStep(f) /\ StatusStep(f),
         NEW p \in Handlers, NEW from, NEW to, Goto(p, from, to), to \notin Relying,
         p \in Files \/ to = "idle" \/ (from # "idle" /\ target'[p] = target[p]),
         \A q \in (Calls \cup Workers) \ {p} : target'[q] = target[q] /\ seen'[q] = seen[q]
  PROVE  HandlersHold'
<1> USE HandlerKinds
<1>1. pc[p] = from /\ pc'[p] = to /\ \A q \in Handlers \ {p} : pc'[q] = pc[q]
  BY DEF Goto, TypeOK, PositionsTyped
<1>2. p \in Files => UploadHolds(p)'
  BY <1>1 DEF UploadHolds, Relying
<1>3. p \in Calls => CallHolds(p)'
  <2> SUFFICES ASSUME p \in Calls, to # "idle"
               PROVE  CallHolds(p)'
    BY <1>1 DEF CallHolds, Relying
  <2>1. CallHolds(p) /\ target[p] \in Files /\ target'[p] = target[p] /\ from # "idle"
    BY <1>1 DEF HandlersHold, TypeOK, TargetsTyped
  <2>2. StatusStep(target[p])
    BY <2>1
  <2> QED
    BY <1>1, <2>1, <2>2 DEF CallHolds, StatusStep, Relying
<1>4. p \in Workers => WorkHolds(p)'
  <2> SUFFICES ASSUME p \in Workers, to # "idle"
               PROVE  WorkHolds(p)'
    BY <1>1 DEF WorkHolds, Relying
  <2>1. WorkHolds(p) /\ target[p] \in Files /\ target'[p] = target[p] /\ from # "idle"
    BY <1>1 DEF HandlersHold, TypeOK, TargetsTyped
  <2>2. StatusStep(target[p])
    BY <2>1
  <2> QED
    BY <1>1, <2>1, <2>2 DEF WorkHolds, StatusStep, Relying
<1> QED
  BY <1>1, <1>2, <1>3, <1>4, HoldsKept DEF Handlers

\* The same for the frames of the steps.
LEMMA HoldsFramed ==
  ASSUME TypeOK, HandlersHold,
         \A f \in Files : DataStep(f) /\ StatusStep(f),
         NEW p \in Handlers, NEW from, NEW to, to \notin Relying, p \in Files \/ from # "idle",
         \/ Update(p, from, to)
         \/ Commit(p, from, to)
         \/ Look(p, from, to)
         \/ LockFile(p, from, to)
         \/ Fault(p, from, to)
  PROVE  HandlersHold'
<1>1. /\ Goto(p, from, to)
      /\ target' = target
      /\ \A q \in (Calls \cup Workers) \ {p} : seen'[q] = seen[q]
  BY DEF Update, Commit, Look, LockFile, Fault, localVars, TypeOK
<1> QED
  BY <1>1, HoldsMoved DEF Handlers

\* The upload of a file until its row is inserted.
LEMMA HoldsUpload ==
  ASSUME TypeOK, HandlersHold,
         \A g \in Files : DataStep(g) /\ StatusStep(g),
         NEW f \in Files, Upload(f) \/ PresignFails(f)
  PROVE  HandlersHold'
<1> USE HandlerKinds
<1>1. CASE StartUpload(f) \/ BeginQuota(f)
  <2>1. /\ \A q \in Handlers \ {f} : pc'[q] = pc[q]
        /\ target' = target /\ seen' = seen
    BY <1>1
    DEF StartUpload, Update, BeginQuota, ReadUsage, Goto, localVars, TypeOK, PositionsTyped
  <2>2. CASE StartUpload(f)
    BY <2>1, <2>2, HoldsKept DEF StartUpload, TypeOK, UploadHolds
  <2>3. CASE BeginQuota(f)
    <3>1. UploadHolds(f)'
      BY <2>3 DEF BeginQuota, ReadUsage, Goto, rowVars, HandlersHold, UploadHolds
    <3> QED
      BY <2>1, <3>1, HoldsKept
  <2> QED
    BY <1>1, <2>2, <2>3
<1>2. CASE CommitQuota(f)
  <2>1. \E to \in {"presign", "done"} : Goto(f, "quotaTx", to)
    BY <1>2 DEF CommitQuota
  <2>2. target' = target /\ seen' = seen
    BY <1>2 DEF CommitQuota, localVars
  <2> QED
    BY <2>1, <2>2, HoldsMoved DEF Relying
<1>3. CASE IssueUrl(f)
  BY <1>3, HoldsFramed DEF IssueUrl, Skip, Relying
<1>4. CASE PresignFails(f)
  BY <1>4, HoldsFramed DEF PresignFails, Relying
<1> QED
  BY <1>1, <1>2, <1>3, <1>4 DEF Upload

\* A call that reads its row, and one that has seen a valid object.
LEMMA HoldsCall ==
  ASSUME TypeOK, FilesHold, HandlersHold,
         \A g \in Files : DataStep(g) /\ StatusStep(g),
         NEW c \in Calls, Call(c) \/ EnqueueFails(c) \/ DeleteObjectFails(c)
  PROVE  HandlersHold'
<1> USE HandlerKinds
<1>1. ASSUME NEW f \in Files, NEW to, Accept(c, f, to), to # "mark",
             status[f] # "none", to = "enqueue" => status[f] # "uploading"
      PROVE  HandlersHold'
  <2>1. /\ pc'[c] = to /\ \A q \in Handlers \ {c} : pc'[q] = pc[q]
        /\ target'[c] = f /\ \A q \in (Calls \cup Workers) \ {c} : target'[q] = target[q]
        /\ seen' = seen /\ status' = status
    BY <1>1 DEF Accept, Goto, TypeOK, PositionsTyped, rowVars
  <2>2. CallHolds(c)'
    BY <1>1, <2>1 DEF CallHolds
  <2> QED
    BY <2>1, <2>2, HoldsKept DEF Handlers
<1>2. ASSUME NEW f \in Files, CallComplete(c, f) \/ CallDelete(c, f) \/ CallReindex(c, f)
      PROVE  HandlersHold'
  BY <1>1, <1>2 DEF CallComplete, CallDelete, CallReindex, Completable, Live
<1>3. CASE HeadValid(c, "mark")
  <2>1. /\ pc[c] = "head" /\ pc'[c] = "mark" /\ \A q \in Handlers \ {c} : pc'[q] = pc[q]
        /\ target' = target /\ \A q \in (Calls \cup Workers) \ {c} : seen'[q] = seen[q]
        /\ seen'[c] = expected[target[c]] /\ expected' = expected /\ status' = status
    BY <1>3 DEF HeadValid, Look, Goto, TypeOK, PositionsTyped, rowVars
  <2>2. CallHolds(c)'
    BY <2>1 DEF HandlersHold, CallHolds
  <2> QED
    BY <2>1, <2>2, HoldsKept DEF Handlers
<1>4. CASE Update(c, "mark", "enqueue") /\ SetUploaded(c)
  <2>1. /\ pc[c] = "mark" /\ pc'[c] = "enqueue" /\ \A q \in Handlers \ {c} : pc'[q] = pc[q]
        /\ target' = target /\ seen' = seen /\ target[c] \in Files
        /\ status'[target[c]] = "uploaded"
    BY <1>4 DEF Update, SetUploaded, Goto, TypeOK, PositionsTyped, TargetsTyped, localVars
  <2>2. CallHolds(c)'
    BY <2>1 DEF CallHolds
  <2> QED
    BY <2>1, <2>2, HoldsKept DEF Handlers
<1>5. CASE Skip(c, "mark", "done")
  BY <1>5, HoldsFramed DEF Skip, Relying
<1>6. CASE Enqueue(c) \/ DeleteObject(c)
  BY <1>6, HoldsMoved DEF Enqueue, DeleteObject, localVars, Relying
<1>7. CASE RejectUpload(c) \/ EnqueueFails(c) \/ DeleteObjectFails(c)
  BY <1>7, HoldsFramed DEF RejectUpload, EnqueueFails, DeleteObjectFails, Relying
<1> QED
  BY <1>2, <1>3, <1>4, <1>5, <1>6, <1>7 DEF Call, MarkUploaded

\* A worker takes a job of a completed file, and carries what it validated.
LEMMA HoldsFetch ==
  ASSUME TypeOK, FilesHold, HandlersHold,
         \A g \in Files : DataStep(g) /\ StatusStep(g),
         NEW w \in Workers, NEW j \in Jobs, Fetch(w, j)
  PROVE  HandlersHold'
<1> USE HandlerKinds
<1>1. /\ pc'[w] = "read" /\ \A q \in Handlers \ {w} : pc'[q] = pc[q]
      /\ target'[w] = jobFile[j]
      /\ \A q \in (Calls \cup Workers) \ {w} : target'[q] = target[q]
      /\ seen' = seen /\ status' = status
  BY DEF Fetch, Goto, TypeOK, PositionsTyped, rowVars
<1>2. status[jobFile[j]] \notin Begun
  BY DEF Fetch, FilesHold, JobsFollowCompletion, Begun
<1>3. WorkHolds(w)'
  BY <1>1, <1>2 DEF WorkHolds
<1> QED
  BY <1>1, <1>3, HoldsKept DEF Handlers

LEMMA HoldsLook ==
  ASSUME TypeOK, FilesHold, HandlersHold,
         \A g \in Files : DataStep(g) /\ StatusStep(g),
         NEW w \in Workers, HeadValid(w, "get") \/ ReadObject(w)
  PROVE  HandlersHold'
<1> USE HandlerKinds
<1> DEFINE f == target[w]
<1>1. /\ pc[w] \in {"head", "get"} /\ \A q \in Handlers \ {w} : pc'[q] = pc[q]
      /\ target' = target /\ \A q \in (Calls \cup Workers) \ {w} : seen'[q] = seen[q]
      /\ seen'[w] = object[f] /\ UNCHANGED << status, expected, object, swapped >>
  BY DEF HeadValid, ReadObject, Look, Goto, TypeOK, PositionsTyped, rowVars, storeVars
<1>2. /\ f \in Files /\ status[f] \notin Begun
  BY <1>1 DEF HandlersHold, WorkHolds, TypeOK, TargetsTyped
<1>3. CASE HeadValid(w, "get")
  <2>1. object[f] = expected[f]
    BY <1>3 DEF HeadValid
  <2>3. pc'[w] = "get"
    BY <1>3 DEF HeadValid, Look, Goto, TypeOK, PositionsTyped
  <2>4. WorkHolds(w)'
    BY <1>1, <1>2, <2>1, <2>3 DEF WorkHolds
  <2> QED
    BY <1>1, <2>4, HoldsKept DEF Handlers
<1>4. CASE ReadObject(w)
  <2>1. /\ pc[w] = "get" /\ pc'[w] = "indexLock" /\ object[f] # None
    BY <1>4 DEF ReadObject, Look, Goto, TypeOK, PositionsTyped
  <2>2. f \in swapped \/ object[f] = expected[f]
    BY <2>1 DEF HandlersHold, WorkHolds
  <2>3. WorkHolds(w)'
    BY <1>1, <1>2, <2>1, <2>2 DEF WorkHolds
  <2> QED
    BY <1>1, <2>3, HoldsKept DEF Handlers
<1> QED
  BY <1>3, <1>4

LEMMA HoldsWork ==
  ASSUME TypeOK, FilesHold, HandlersHold,
         \A g \in Files : DataStep(g) /\ StatusStep(g),
         NEW w \in Workers, Work(w) \/ RecordUsageFails(w) \/ CrashWorker(w)
  PROVE  HandlersHold'
<1> USE HandlerKinds DEF Relying
<1>1. ASSUME NEW from, Stop(w, from)
      PROVE  HandlersHold'
  BY <1>1, HoldsMoved DEF Stop, TypeOK
<1>2. CASE \E j \in Jobs : Fetch(w, j)
  BY <1>2, HoldsFetch
<1>3. CASE HeadValid(w, "get") \/ ReadObject(w)
  BY <1>3, HoldsLook
<1>4. CASE LockFile(w, "indexLock", "indexTx")
  <2>1. /\ pc[w] = "indexLock" /\ pc'[w] = "indexTx"
        /\ \A q \in Handlers \ {w} : pc'[q] = pc[q]
        /\ target' = target /\ seen' = seen /\ UNCHANGED << status, expected, swapped >>
    BY <1>4 DEF LockFile, Goto, TypeOK, PositionsTyped, localVars, rowVars, storeVars
  <2>2. WorkHolds(w)'
    BY <2>1 DEF HandlersHold, WorkHolds
  <2> QED
    BY <2>1, <2>2, HoldsKept
<1>5. CASE BeginIndex(w)
  BY <1>4, <1>5, HoldsFramed DEF BeginIndex, Skip
<1>6. CASE ReadRow(w) \/ MarkProcessing(w)
  BY <1>1, <1>6, HoldsFramed DEF ReadRow, MarkProcessing, Skip, Return, Throw
<1>7. CASE ExtractionFails(w) \/ CommitIndex(w) \/ RecordUsageFails(w)
  BY <1>7, HoldsFramed DEF ExtractionFails, Skip, CommitIndex, RecordUsageFails
<1>8. CASE RejectFile(w) \/ RecordUsage(w) \/ FailFile(w) \/ CrashWorker(w)
  BY <1>1, <1>8 DEF RejectFile, RecordUsage, FailFile, Return, Throw, CrashWorker
<1> QED
  BY <1>2, <1>3, <1>5, <1>6, <1>7, <1>8 DEF Work

\* No step takes away what a handler relies on.
LEMMA HoldsStep ==
  ASSUME LifecycleInv, FilesHold, HandlersHold, Next
  PROVE  HandlersHold'
<1> USE HandlerKinds DEF Relying
<1> TypeOK /\ \A f \in Files : DataStep(f) /\ StatusStep(f)
  BY DataSteps, StatusSteps DEF LifecycleInv
<1>1. ASSUME pc' = pc, target' = target, seen' = seen
      PROVE  HandlersHold'
  <2>1. CASE Handlers # {}
    <3>1. PICK p \in Handlers : TRUE
      BY <2>1
    <3>2. \A f \in Files : status[f] # "none" => expected'[f] = expected[f]
      BY DEF DataStep
    <3>3. p \in Files => UploadHolds(p)'
      BY <1>1 DEF UploadHolds, DataStep, HandlersHold
    <3>4. p \in Calls => CallHolds(p)'
      BY <1>1 DEF CallHolds, DataStep, StatusStep, HandlersHold, Begun, TypeOK, TargetsTyped
    <3>5. p \in Workers => WorkHolds(p)'
      <4> SUFFICES ASSUME p \in Workers, pc[p] # "idle"
                   PROVE  WorkHolds(p)'
        BY <1>1 DEF WorkHolds
      <4>1. WorkHolds(p) /\ target[p] \in Files /\ puts[target[p]] \in Nat
        BY DEF HandlersHold, TypeOK, TargetsTyped
      <4>2. DataStep(target[p]) /\ StatusStep(target[p])
        BY <4>1
      <4> QED
        BY <1>1, <4>1, <4>2 DEF WorkHolds, DataStep, StatusStep, Begun
    <3> QED
      BY <1>1, <3>3, <3>4, <3>5, HoldsKept
  <2>2. CASE Handlers = {}
    BY <2>2 DEF HandlersHold, Handlers
  <2> QED
    BY <2>1, <2>2
<1>2. ASSUME NEW f \in Files, Upload(f) \/ PresignFails(f)
      PROVE  HandlersHold'
  BY <1>2, HoldsUpload
<1>3. ASSUME NEW p \in Calls \cup Workers, Reject(p) \/ HeadFails(p)
      PROVE  HandlersHold'
  <2>1. CASE RejectObject(p)
    BY <2>1, HoldsMoved DEF RejectObject, localVars, Handlers
  <2> QED
    BY <1>3, <2>1, HoldsFramed DEF Reject, HeadInvalid, HeadFails, Skip, Handlers
<1>4. ASSUME NEW p \in Files \cup Calls, Delete(p)
      PROVE  HandlersHold'
  BY <1>4, HoldsFramed DEF Delete, BeginDelete, CommitDelete, Handlers
<1>5. ASSUME NEW c \in Calls, Call(c) \/ EnqueueFails(c) \/ DeleteObjectFails(c)
      PROVE  HandlersHold'
  BY <1>5, HoldsCall
<1>6. ASSUME NEW w \in Workers, Work(w) \/ RecordUsageFails(w) \/ CrashWorker(w)
      PROVE  HandlersHold'
  BY <1>6, HoldsWork
<1>7. ASSUME NEW p \in Files \cup Calls, CrashRequest(p)
      PROVE  HandlersHold'
  <2>1. Goto(p, pc[p], "done") /\ pc[p] # "idle" /\ target' = target /\ seen' = seen
    BY <1>7 DEF CrashRequest, Goto, localVars
  <2> QED
    BY <2>1, HoldsMoved DEF Handlers
<1>8. ASSUME \/ \E f \in Files : Put(f)
             \/ \E w \in Workers : Timeout(w)
             \/ \E j \in Jobs : Expire(j)
      PROVE  HandlersHold'
  BY <1>1, <1>8 DEF Put, Timeout, Expire, localVars
<1> QED
  BY <1>2, <1>3, <1>4, <1>5, <1>6, <1>7, <1>8 DEF Next, Failure

-----------------------------------------------------------------------------
(***************************************************************************)
(* The jobs of the queue are for files that a call worked on.              *)
(***************************************************************************)
JobStep(j) ==
  queue'[j] # "free" =>
    \/ queue[j] # "free" /\ jobFile'[j] = jobFile[j]
    \/ \E c \in Calls : pc[c] = "enqueue" /\ jobFile'[j] = target[c]

LEMMA JobsUntouched == UNCHANGED queueVars => \A j \in Jobs : JobStep(j)
BY DEF queueVars, JobStep

\* A job that is active is not new.
LEMMA JobsMoved ==
  ASSUME TypeOK, NEW j \in Jobs, queue[j] = "active", Completed(j) \/ Failed(j)
  PROVE  \A i \in Jobs : JobStep(i)
BY DEF Completed, Failed, JobStep, TypeOK

LEMMA JobsStep ==
  ASSUME TypeOK, Next
  PROVE  \A j \in Jobs : JobStep(j)
<1>1. ASSUME NEW w \in Workers, NEW from, Return(w, from) \/ Throw(w, from)
      PROVE  \A j \in Jobs : JobStep(j)
  <2>1. CASE job[w] # Nobody
    <3>1. job[w] \in Jobs /\ queue[job[w]] = "active"
      BY <2>1 DEF TypeOK, TargetsTyped
    <3> QED
      BY <1>1, <2>1, <3>1, JobsMoved DEF Return, Throw
  <2> QED
    BY <1>1, <2>1, JobsUntouched DEF Return, Throw
<1>2. ASSUME NEW c \in Calls, Enqueue(c)
      PROVE  \A j \in Jobs : JobStep(j)
  BY <1>2 DEF Enqueue, Goto, JobStep, TypeOK
<1>3. ASSUME NEW w \in Workers, Work(w)
      PROVE  \A j \in Jobs : JobStep(j)
  <2>1. CASE \E j \in Jobs : Fetch(w, j)
    BY <2>1 DEF Fetch, JobStep, TypeOK
  <2>2. CASE ReadRow(w) \/ MarkProcessing(w)
    BY <1>1, <2>2, JobsUntouched DEF ReadRow, MarkProcessing, Skip, Update
  <2>3. CASE RejectFile(w) \/ RecordUsage(w) \/ FailFile(w)
    BY <1>1, <2>3 DEF RejectFile, RecordUsage, FailFile
  <2> QED
    BY <1>3, <2>1, <2>2, <2>3, JobsUntouched
    DEF Work, HeadValid, ReadObject, Look, ExtractionFails, BeginIndex, LockFile, Skip, Update,
        CommitIndex, Commit
<1>4. ASSUME NEW w \in Workers, Timeout(w)
      PROVE  \A j \in Jobs : JobStep(j)
  <2>1. job[w] \in Jobs /\ queue[job[w]] = "active" /\ Failed(job[w])
    BY <1>4 DEF Timeout, TypeOK, TargetsTyped
  <2> QED
    BY <2>1, JobsMoved
<1>5. ASSUME NEW j \in Jobs, Expire(j)
      PROVE  \A i \in Jobs : JobStep(i)
  BY <1>5, JobsMoved DEF Expire
<1>6. CASE \/ \E f \in Files : Upload(f) \/ Put(f) \/ PresignFails(f)
           \/ \E p \in Calls \cup Workers : Reject(p) \/ HeadFails(p)
           \/ \E p \in Files \cup Calls : Delete(p) \/ CrashRequest(p)
           \/ \E w \in Workers : RecordUsageFails(w) \/ CrashWorker(w)
           \/ \E c \in Calls : EnqueueFails(c) \/ DeleteObjectFails(c)
  BY <1>6, JobsUntouched
  DEF Upload, StartUpload, BeginQuota, ReadUsage, CommitQuota, IssueUrl, Put, PresignFails,
      Reject, HeadInvalid, Skip, Update, RejectObject, HeadFails, Fault, Delete, BeginDelete,
      LockFile, CommitDelete, Commit, CrashRequest, RecordUsageFails, CrashWorker, Rollback,
      EnqueueFails, DeleteObjectFails
<1>7. ASSUME NEW c \in Calls, Call(c), ~Enqueue(c)
      PROVE  \A j \in Jobs : JobStep(j)
  BY <1>7, JobsUntouched
  DEF Call, CallComplete, CallDelete, CallReindex, Accept, HeadValid, Look, MarkUploaded,
      RejectUpload, Skip, Update, DeleteObject
<1> QED
  BY <1>2, <1>3, <1>4, <1>5, <1>6, <1>7 DEF Next, Failure

-----------------------------------------------------------------------------
\* The rows, the objects and the jobs after a step.
LEMMA FilesStep ==
  ASSUME LifecycleInv, FilesHold, HandlersHold, Next
  PROVE  FilesHold'
<1> TypeOK /\ \A f \in Files : DataStep(f) /\ StatusStep(f)
  BY DataSteps, StatusSteps DEF LifecycleInv
<1>1. ASSUME NEW f \in Files
      PROVE  /\ status'[f] = "none" => actual'[f] = None
             /\ status'[f] # "none" => expected'[f] \in Sizes
             /\ actual'[f] \in {None, expected'[f]}
             /\ object'[f] # None => puts'[f] > 0
  <2>1. /\ DataStep(f) /\ StatusStep(f) /\ UploadHolds(f) /\ puts[f] \in Nat
    BY DEF HandlersHold, TypeOK
  <2>2. /\ status[f] = "none" => actual[f] = None
        /\ status[f] # "none" => expected[f] \in Sizes
        /\ actual[f] \in {None, expected[f]}
        /\ object[f] # None => puts[f] > 0
    BY DEF FilesHold
  <2> QED
    BY <2>1, <2>2 DEF DataStep, StatusStep, UploadHolds
<1>2. JobsFollowCompletion'
  <2> SUFFICES ASSUME NEW j \in Jobs, queue'[j] # "free"
               PROVE  status'[jobFile'[j]] \notin Begun
    BY DEF JobsFollowCompletion, Begun
  <2>1. JobStep(j)
    BY JobsStep
  <2>2. CASE queue[j] # "free" /\ jobFile'[j] = jobFile[j]
    <3>1. jobFile[j] \in Files /\ status[jobFile[j]] \notin Begun
      BY <2>2 DEF FilesHold, JobsFollowCompletion, Begun, TypeOK, TargetsTyped
    <3> QED
      BY <2>2, <3>1 DEF StatusStep
  <2>3. CASE \E c \in Calls : pc[c] = "enqueue" /\ jobFile'[j] = target[c]
    <3>1. PICK c \in Calls : pc[c] = "enqueue" /\ jobFile'[j] = target[c]
      BY <2>3
    <3>2. target[c] \in Files /\ status[target[c]] \notin Begun
      BY <3>1 DEF HandlersHold, CallHolds, Begun, TypeOK, TargetsTyped
    <3> QED
      BY <3>1, <3>2 DEF StatusStep
  <2> QED
    BY <2>1, <2>2, <2>3 DEF JobStep
<1>3. IndexIsValidated'
  <2> SUFFICES ASSUME NEW f \in Files
               PROVE  chunks'[f] \in {None, expected'[f]} \/ f \in swapped'
    BY DEF IndexIsValidated
  <2>1. DataStep(f)
    OBVIOUS
  <2>2. f \in swapped => f \in swapped'
    BY <2>1 DEF DataStep
  <2>3. CASE chunks'[f] = chunks[f]
    <3>1. chunks[f] \in {None, expected[f]} \/ f \in swapped
      BY DEF FilesHold, IndexIsValidated
    <3>2. status[f] = "none" => chunks[f] = None
      BY DEF LifecycleInv, IndexFollowsStatus
    <3> QED
      BY <2>1, <2>2, <2>3, <3>1, <3>2 DEF DataStep
  <2>4. CASE \E w \in Workers : pc[w] = "indexTx" /\ target[w] = f /\ chunks'[f] = seen[w]
    <3>1. PICK w \in Workers : pc[w] = "indexTx" /\ target[w] = f /\ chunks'[f] = seen[w]
      BY <2>4
    <3>2. (f \in swapped \/ seen[w] = expected[f]) /\ status[f] # "none"
      BY <3>1 DEF HandlersHold, WorkHolds, Begun
    <3> QED
      BY <2>1, <2>2, <3>1, <3>2 DEF DataStep
  <2>5. CASE \E g \in Files : CommitQuota(g)
    <3>1. chunks' = chunks
      BY <2>5 DEF CommitQuota, SetStatus, rowVars
    <3> QED
      BY <2>3, <3>1
  <2>6. CASE ~ \E g \in Files : CommitQuota(g)
    <3>1. RowStep(f)
      BY <2>6, RowsStep DEF LifecycleInv
    <3> QED
      BY <2>3, <2>4, <3>1 DEF RowStep
  <2> QED
    BY <2>5, <2>6
<1> QED
  BY <1>1, <1>2, <1>3 DEF FilesHold

LEMMA ContentInit == Init => FilesHold /\ HandlersHold
<1> SUFFICES ASSUME Init PROVE FilesHold /\ HandlersHold
  OBVIOUS
<1>1. FilesHold
  BY DEF Init, FilesHold, JobsFollowCompletion, IndexIsValidated
<1>2. \A p \in Handlers : pc[p] = "idle"
  BY DEF Init
<1>3. HandlersHold
  BY <1>2, HandlerKinds DEF HandlersHold, UploadHolds, CallHolds, WorkHolds
<1> QED
  BY <1>1, <1>3

LEMMA ContentStep ==
  ASSUME LifecycleInv, FilesHold, HandlersHold, [Next]_vars
  PROVE  FilesHold' /\ HandlersHold'
<1>1. CASE Next
  BY <1>1, FilesStep, HoldsStep
<1>2. CASE UNCHANGED vars
  <2>1. FilesHold'
    BY <1>2 DEF FilesHold, JobsFollowCompletion, IndexIsValidated, vars, rowVars, storeVars,
                queueVars
  <2>2. HandlersHold'
    BY <1>2 DEF HandlersHold, UploadHolds, CallHolds, WorkHolds, vars, rowVars, storeVars, localVars
  <2> QED
    BY <2>1, <2>2
<1> QED
  BY <1>1, <1>2

\* What the rows, the objects, the jobs and the handlers hold of the contents
\* of the files.
ContentInv == LifecycleInv /\ FilesHold /\ HandlersHold

THEOREM FileContents == Spec => []ContentInv
<1>1. Init => ContentInv
  BY InvInit, ContentInit DEF ContentInv
<1>2. ContentInv /\ [Next]_vars => ContentInv'
  BY InvStep, ContentStep DEF ContentInv
<1> QED
  BY <1>1, <1>2, PTL DEF Spec

\* Between the HEAD that validates an object and the GET that reads it the
\* client may replace or lose it; unless a PUT fell between the two, the chunks
\* of a file still come from an object of the declared size.
THEOREM FileIndexIsValidated == Spec => []IndexIsValidated
<1>1. ContentInv => IndexIsValidated
  BY DEF ContentInv, FilesHold
<1> QED
  BY FileContents, <1>1, PTL

\* Only files that were completed get jobs, so the worker never meets a file
\* that is still uploading.
THEOREM FileJobsFollowCompletion == Spec => []JobsFollowCompletion
<1>1. ContentInv => JobsFollowCompletion
  BY DEF ContentInv, FilesHold
<1> QED
  BY FileContents, <1>1, PTL

-----------------------------------------------------------------------------
(***************************************************************************)
(* Completed uploads: as long as nothing fails, a running worker owns the  *)
(* active job of its file, and an uploaded file is awaited by the call     *)
(* that is about to enqueue it, by a queued job or by a worker that has    *)
(* not marked it yet.                                                      *)
(***************************************************************************)
OwnersRun ==
  \A w \in Workers : pc[w] # "idle" => job[w] # Nobody /\ jobFile[job[w]] = target[w]

Awaited(f) ==
  \/ \E c \in Calls : pc[c] = "enqueue" /\ target[c] = f
  \/ \E j \in Jobs : queue[j] = "queued" /\ jobFile[j] = f
  \/ \E w \in Workers : pc[w] \in {"read", "process"} /\ target[w] = f

AwaitInv ==
  faults = 0 => OwnersRun /\ \A f \in Files : status[f] = "uploaded" => Awaited(f)

\* After a failure nothing is claimed.
LEMMA AwaitFaulty == TypeOK /\ Faulty => AwaitInv'
BY DEF TypeOK, Faulty, AwaitInv

Awaiting == {"enqueue", "read", "process"}

\* Nothing but a step of the handler that is awaiting a file, or of its job,
\* ends the wait.
LEMMA AwaitKept ==
  ASSUME TypeOK, AwaitInv, faults' = 0 => faults = 0,
         NEW p \in Handlers,
         \A q \in Handlers \ {p} : /\ pc'[q] = pc[q]
                                   /\ q \notin Files => target'[q] = target[q]
                                   /\ q \in Workers => job'[q] = job[q],
         \A j \in Jobs : /\ queue[j] # "free" => jobFile'[j] = jobFile[j]
                         /\ queue[j] = "queued" => queue'[j] = "queued" \/ Awaited(jobFile[j])',
         faults' = 0 /\ p \in Workers /\ pc'[p] # "idle"
           => job'[p] # Nobody /\ jobFile'[job'[p]] = target'[p],
         \A f \in Files :
           status'[f] = "uploaded" =>
             /\ status[f] = "uploaded" \/ Awaited(f)'
             /\ p \notin Files /\ pc[p] \in Awaiting /\ target[p] = f => Awaited(f)'
  PROVE  AwaitInv'
<1> USE HandlerKinds
<1> SUFFICES ASSUME faults' = 0
             PROVE  OwnersRun' /\ \A f \in Files : status'[f] = "uploaded" => Awaited(f)'
  BY DEF AwaitInv
<1>1. OwnersRun /\ \A f \in Files : status[f] = "uploaded" => Awaited(f)
  BY DEF AwaitInv
<1>2. OwnersRun'
  <2> SUFFICES ASSUME NEW w \in Workers, w # p, pc'[w] # "idle"
               PROVE  job'[w] # Nobody /\ jobFile'[job'[w]] = target'[w]
    BY DEF OwnersRun
  <2>1. job[w] \in Jobs /\ queue[job[w]] = "active" /\ jobFile[job[w]] = target[w]
    BY <1>1 DEF OwnersRun, TypeOK, TargetsTyped
  <2> QED
    BY <2>1
<1>3. ASSUME NEW f \in Files, status'[f] = "uploaded"
      PROVE  Awaited(f)'
  <2> SUFFICES ASSUME status[f] = "uploaded"
               PROVE  Awaited(f)'
    BY <1>3
  <2>1. Awaited(f)
    BY <1>1
  <2>2. CASE \E c \in Calls : pc[c] = "enqueue" /\ target[c] = f
    <3>1. PICK c \in Calls : pc[c] = "enqueue" /\ target[c] = f
      BY <2>2
    <3>2. CASE c = p
      BY <1>3, <3>1, <3>2 DEF Awaiting
    <3>3. CASE c # p
      BY <3>1, <3>3 DEF Awaited
    <3> QED
      BY <3>2, <3>3
  <2>3. CASE \E j \in Jobs : queue[j] = "queued" /\ jobFile[j] = f
    BY <2>3 DEF Awaited
  <2>4. CASE \E w \in Workers : pc[w] \in {"read", "process"} /\ target[w] = f
    <3>1. PICK w \in Workers : pc[w] \in {"read", "process"} /\ target[w] = f
      BY <2>4
    <3>2. CASE w = p
      BY <1>3, <3>1, <3>2 DEF Awaiting
    <3>3. CASE w # p
      BY <3>1, <3>3 DEF Awaited
    <3> QED
      BY <3>2, <3>3
  <2> QED
    BY <2>1, <2>2, <2>3, <2>4 DEF Awaited
<1> QED
  BY <1>2, <1>3

\* Jobs that stay, are completed or fail are no queued ones.
JobsStay ==
  \A j \in Jobs : /\ queue[j] # "free" => jobFile'[j] = jobFile[j]
                  /\ queue[j] = "queued" => queue'[j] = "queued"

LEMMA JobsStayed ==
  ASSUME TypeOK,
         \/ UNCHANGED queueVars
         \/ \E j \in Jobs : queue[j] = "active" /\ (Completed(j) \/ Failed(j))
  PROVE  JobsStay
BY DEF queueVars, Completed, Failed, JobsStay, TypeOK

NewlyUploaded(f) == status'[f] = "uploaded" /\ status[f] # "uploaded"

\* A step of a handler that is not awaiting a file.
LEMMA AwaitQuiet ==
  ASSUME TypeOK, AwaitInv, faults' = 0 => faults = 0, JobsStay,
         NEW p \in Handlers, NEW from, NEW to, Goto(p, from, to), from \notin Awaiting,
         \A q \in (Calls \cup Workers) \ {p} : target'[q] = target[q],
         \A w \in Workers \ {p} : job'[w] = job[w],
         p \in Workers /\ to # "idle"
           => from # "idle" /\ job'[p] = job[p] /\ target'[p] = target[p],
         \A f \in Files : ~NewlyUploaded(f)
  PROVE  AwaitInv'
<1> USE HandlerKinds
<1>1. pc[p] = from /\ pc'[p] = to /\ \A q \in Handlers \ {p} : pc'[q] = pc[q]
  BY DEF Goto, TypeOK, PositionsTyped
<1>2. ASSUME faults' = 0, p \in Workers, pc'[p] # "idle"
      PROVE  job'[p] # Nobody /\ jobFile'[job'[p]] = target'[p]
  <2>1. job[p] \in Jobs /\ queue[job[p]] = "active" /\ jobFile[job[p]] = target[p]
    BY <1>1, <1>2 DEF AwaitInv, OwnersRun, TypeOK, TargetsTyped
  <2> QED
    BY <1>1, <1>2, <2>1 DEF JobsStay
<1> QED
  BY <1>1, <1>2, AwaitKept DEF Handlers, NewlyUploaded, JobsStay

\* No handler moves.
LEMMA AwaitStill ==
  ASSUME TypeOK, AwaitInv, faults' = faults, JobsStay,
         pc' = pc, target' = target, job' = job, status' = status
  PROVE  AwaitInv'
<1>1. OwnersRun => OwnersRun'
  BY DEF OwnersRun, JobsStay, TypeOK, TargetsTyped
<1>2. \A f \in Files : Awaited(f) => Awaited(f)'
  BY DEF Awaited, JobsStay
<1> QED
  BY <1>1, <1>2 DEF AwaitInv

\* The same for the frames of the steps.
LEMMA AwaitFramed ==
  ASSUME TypeOK, AwaitInv,
         NEW p \in Handlers, NEW from, NEW to, from \notin Awaiting,
         p \in Workers => from # "idle",
         \/ Update(p, from, to)
         \/ Commit(p, from, to)
         \/ Look(p, from, to)
         \/ LockFile(p, from, to)
         \/ p \in Calls /\ from = "idle" /\ \E f \in Files : Accept(p, f, to),
         \A f \in Files : ~NewlyUploaded(f)
  PROVE  AwaitInv'
<1> USE HandlerKinds
<1>1. /\ Goto(p, from, to) /\ faults' = faults /\ job' = job /\ UNCHANGED queueVars
      /\ \A q \in (Calls \cup Workers) \ {p} : target'[q] = target[q]
      /\ p \in Workers => target'[p] = target[p]
  BY DEF Update, Commit, Look, LockFile, Accept, localVars, TypeOK
<1> QED
  BY <1>1, JobsStayed, AwaitQuiet

\* A worker whose attempt ends, unless it has just read that it may stop.
LEMMA AwaitStop ==
  ASSUME TypeOK, AwaitInv, NEW w \in Workers, NEW from, Return(w, from) \/ Throw(w, from),
         from \in Awaiting => status'[target[w]] # "uploaded",
         \A f \in Files : ~NewlyUploaded(f)
  PROVE  AwaitInv'
<1> USE HandlerKinds
<1>1. JobsStay
  <2>1. CASE job[w] # Nobody
    <3>1. job[w] \in Jobs /\ queue[job[w]] = "active"
      BY <2>1 DEF TypeOK, TargetsTyped
    <3> QED
      BY <2>1, <3>1, JobsStayed DEF Return, Throw
  <2> QED
    BY <2>1, JobsStayed DEF Return, Throw
<1>2. /\ pc[w] = from /\ pc'[w] = "idle" /\ \A q \in Handlers \ {w} : pc'[q] = pc[q]
      /\ \A q \in (Calls \cup Workers) \ {w} : target'[q] = target[q]
      /\ \A v \in Workers \ {w} : job'[v] = job[v]
      /\ faults' = faults
  BY DEF Return, Throw, Stop, Goto, TypeOK, PositionsTyped
<1> QED
  BY <1>1, <1>2, AwaitKept DEF JobsStay, NewlyUploaded, Handlers

\* Only MarkUploaded uploads.
LEMMA OldlyUploaded ==
  ASSUME TypeOK,
         \/ UNCHANGED rowVars
         \/ \E f, s : SetStatus(f, s) /\ s # "uploaded"
         \/ \E f : MarkFailed(f)
         \/ \E f, s : status' = [status EXCEPT ![f] = s] /\ s # "uploaded"
  PROVE  \A f \in Files : ~NewlyUploaded(f)
BY DEF rowVars, SetStatus, MarkFailed, NewlyUploaded, TypeOK

LEMMA AwaitUpload ==
  ASSUME TypeOK, AwaitInv, NEW f \in Files, Upload(f) \/ Put(f) \/ PresignFails(f)
  PROVE  AwaitInv'
<1> USE HandlerKinds DEF Awaiting
<1>1. CASE StartUpload(f) \/ IssueUrl(f)
  <2>1. \A g \in Files : ~NewlyUploaded(g)
    BY <1>1 DEF StartUpload, IssueUrl, Skip, rowVars, NewlyUploaded
  <2> QED
    BY <1>1, <2>1, AwaitFramed DEF StartUpload, IssueUrl, Skip
<1>2. CASE BeginQuota(f) \/ CommitQuota(f)
  <2>1. \A g \in Files : ~NewlyUploaded(g)
    BY <1>2, OldlyUploaded DEF BeginQuota, ReadUsage, CommitQuota
  <2>2. /\ \E to : Goto(f, "quotaLock", to) \/ Goto(f, "quotaTx", to)
        /\ UNCHANGED queueVars /\ faults' = faults /\ target' = target /\ job' = job
    BY <1>2 DEF BeginQuota, ReadUsage, CommitQuota, localVars
  <2> QED
    BY <2>1, <2>2, JobsStayed, AwaitQuiet
<1>3. CASE Put(f)
  BY <1>3, JobsStayed, AwaitStill DEF Put, rowVars, localVars
<1>4. CASE PresignFails(f)
  BY <1>4, AwaitFaulty DEF PresignFails, Fault
<1> QED
  BY <1>1, <1>2, <1>3, <1>4 DEF Upload

LEMMA AwaitShared ==
  ASSUME TypeOK, AwaitInv, NEW p \in Calls \cup Workers, Reject(p) \/ HeadFails(p)
  PROVE  AwaitInv'
<1> USE HandlerKinds DEF Awaiting
<1>1. CASE HeadInvalid(p)
  BY <1>1, OldlyUploaded, AwaitFramed DEF HeadInvalid, Skip
<1>2. CASE RejectObject(p)
  <2>1. /\ Goto(p, "reject", "rejectMark")
        /\ UNCHANGED queueVars /\ target' = target /\ job' = job /\ UNCHANGED rowVars
    BY <1>2 DEF RejectObject, localVars
  <2>2. faults' = 0 => faults = 0
    BY <1>2 DEF RejectObject, Faulty, TypeOK
  <2> QED
    BY <2>1, <2>2, OldlyUploaded, JobsStayed, AwaitQuiet
<1>3. CASE HeadFails(p)
  BY <1>3, AwaitFaulty DEF HeadFails, Fault
<1> QED
  BY <1>1, <1>2, <1>3 DEF Reject

LEMMA AwaitDelete ==
  ASSUME TypeOK, AwaitInv, NEW p \in Files \cup Calls, Delete(p)
  PROVE  AwaitInv'
<1> USE HandlerKinds DEF Awaiting
<1>1. \A f \in Files : ~NewlyUploaded(f)
  BY OldlyUploaded DEF Delete, BeginDelete, LockFile, CommitDelete
<1> QED
  BY <1>1, AwaitFramed DEF Delete, BeginDelete, CommitDelete

\* The completion waits before the job does.
LEMMA AwaitCall ==
  ASSUME TypeOK, AwaitInv, NEW c \in Calls,
         Call(c) \/ EnqueueFails(c) \/ DeleteObjectFails(c)
  PROVE  AwaitInv'
<1> USE HandlerKinds DEF Awaiting
<1>1. ASSUME NEW f \in Files, CallComplete(c, f) \/ CallDelete(c, f) \/ CallReindex(c, f)
      PROVE  AwaitInv'
  <2>1. PICK to : Accept(c, f, to)
    BY <1>1 DEF CallComplete, CallDelete, CallReindex
  <2>2. \A g \in Files : ~NewlyUploaded(g)
    BY <2>1, OldlyUploaded DEF Accept
  <2> QED
    BY <2>1, <2>2, AwaitFramed
<1>2. CASE HeadValid(c, "mark")
  <2>1. \A f \in Files : ~NewlyUploaded(f)
    BY <1>2, OldlyUploaded DEF HeadValid, Look
  <2> QED
    BY <1>2, <2>1, AwaitFramed DEF HeadValid
<1>3. CASE Update(c, "mark", "enqueue") /\ SetUploaded(c)
  <2>1. /\ pc[c] = "mark" /\ pc'[c] = "enqueue" /\ \A q \in Handlers \ {c} : pc'[q] = pc[q]
        /\ target' = target /\ job' = job /\ faults' = faults /\ UNCHANGED queueVars
    BY <1>3 DEF Update, Goto, TypeOK, PositionsTyped, localVars
  <2>2. \A f \in Files : f = target[c] => Awaited(f)'
    BY <2>1 DEF Awaited
  <2>3. \A f \in Files : status'[f] = "uploaded" => status[f] = "uploaded" \/ Awaited(f)'
    BY <1>3, <2>2 DEF SetUploaded, TypeOK
  <2>4. JobsStay
    BY <2>1, JobsStayed
  <2> QED
    BY <2>1, <2>3, <2>4, AwaitKept DEF JobsStay
<1>4. CASE Skip(c, "mark", "done")
  BY <1>4, OldlyUploaded, AwaitFramed DEF Skip
<1>5. CASE Enqueue(c)
  <2>1. PICK j \in Jobs :
          /\ queue[j] = "free"
          /\ queue' = [queue EXCEPT ![j] = "queued"]
          /\ jobFile' = [jobFile EXCEPT ![j] = target[c]]
    BY <1>5 DEF Enqueue
  <2>2. /\ pc[c] = "enqueue" /\ pc'[c] = "done" /\ \A q \in Handlers \ {c} : pc'[q] = pc[q]
        /\ target' = target /\ job' = job /\ faults' = faults /\ status' = status
    BY <1>5 DEF Enqueue, Goto, TypeOK, PositionsTyped, localVars, rowVars
  <2>3. queue'[j] = "queued" /\ jobFile'[j] = target[c]
    BY <2>1 DEF TypeOK
  <2>4. \A f \in Files : f = target[c] => Awaited(f)'
    BY <2>3 DEF Awaited
  <2>5. JobsStay
    BY <2>1 DEF JobsStay, TypeOK
  <2> QED
    BY <2>2, <2>4, <2>5, AwaitKept DEF JobsStay
<1>6. CASE RejectUpload(c)
  BY <1>6, OldlyUploaded, AwaitFramed DEF RejectUpload
<1>7. CASE DeleteObject(c)
  <2>1. /\ Goto(c, "deleteObject", "deleteLock")
        /\ UNCHANGED queueVars /\ target' = target /\ job' = job /\ UNCHANGED rowVars
        /\ faults' = faults
    BY <1>7 DEF DeleteObject, localVars
  <2> QED
    BY <2>1, OldlyUploaded, JobsStayed, AwaitQuiet
<1>8. CASE EnqueueFails(c) \/ DeleteObjectFails(c)
  BY <1>8, AwaitFaulty DEF EnqueueFails, DeleteObjectFails, Fault
<1> QED
  BY <1>1, <1>2, <1>3, <1>4, <1>5, <1>6, <1>7, <1>8 DEF Call, MarkUploaded

\* The worker that takes the job waits until it marks the file.
LEMMA AwaitWork ==
  ASSUME TypeOK, AwaitInv, NEW w \in Workers, Work(w) \/ RecordUsageFails(w)
  PROVE  AwaitInv'
<1> USE HandlerKinds DEF Awaiting
<1>1. ASSUME NEW j \in Jobs, Fetch(w, j)
      PROVE  AwaitInv'
  <2>1. /\ pc[w] = "idle" /\ pc'[w] = "read" /\ \A q \in Handlers \ {w} : pc'[q] = pc[q]
        /\ target'[w] = jobFile[j] /\ job'[w] = j
        /\ \A q \in (Calls \cup Workers) \ {w} : target'[q] = target[q]
        /\ \A v \in Workers \ {w} : job'[v] = job[v]
        /\ faults' = faults /\ status' = status
    BY <1>1 DEF Fetch, Goto, TypeOK, PositionsTyped, rowVars
  <2>2. Awaited(jobFile[j])'
    BY <1>1, <2>1 DEF Awaited, Fetch
  <2>3. \A i \in Jobs : /\ queue[i] # "free" => jobFile'[i] = jobFile[i]
                        /\ queue[i] = "queued" => queue'[i] = "queued" \/ i = j
    BY <1>1 DEF Fetch, TypeOK
  <2>4. jobFile' = jobFile
    BY <1>1 DEF Fetch
  <2>5. \A i \in Jobs : queue[i] = "queued" => queue'[i] = "queued" \/ Awaited(jobFile[i])'
    BY <2>2, <2>3
  <2> QED
    BY <2>1, <2>3, <2>4, <2>5, AwaitKept DEF Handlers
<1>2. CASE /\ Return(w, "read") \/ Throw(w, "read")
           /\ status[target[w]] \notin Processable /\ UNCHANGED rowVars
  <2>1. status'[target[w]] # "uploaded"
    BY <1>2 DEF Processable, rowVars
  <2> QED
    BY <1>2, <2>1, OldlyUploaded, AwaitStop
<1>3. CASE Skip(w, "read", "process")
  <2>1. /\ pc[w] = "read" /\ pc'[w] = "process" /\ \A q \in Handlers \ {w} : pc'[q] = pc[q]
        /\ target' = target /\ job' = job /\ faults' = faults /\ status' = status
        /\ UNCHANGED queueVars
    BY <1>3 DEF Skip, Update, Goto, TypeOK, PositionsTyped, localVars, rowVars
  <2>2. Awaited(target[w])'
    BY <2>1 DEF Awaited
  <2>3. JobsStay
    BY <2>1, JobsStayed
  <2>4. faults' = 0 => job'[w] # Nobody /\ jobFile'[job'[w]] = target'[w]
    BY <2>1 DEF AwaitInv, OwnersRun, queueVars
  <2> QED
    BY <2>1, <2>2, <2>3, <2>4, AwaitKept DEF JobsStay
<1>4. CASE Update(w, "process", "head") /\ SetStatus(target[w], "processing")
  <2>1. /\ pc[w] = "process" /\ pc'[w] = "head" /\ \A q \in Handlers \ {w} : pc'[q] = pc[q]
        /\ target' = target /\ job' = job /\ faults' = faults
        /\ UNCHANGED queueVars /\ target[w] \in Files
    BY <1>4 DEF Update, Goto, TypeOK, PositionsTyped, TargetsTyped, localVars
  <2>2. status'[target[w]] # "uploaded"
    BY <1>4, <2>1 DEF SetStatus, TypeOK
  <2>3. JobsStay
    BY <2>1, JobsStayed
  <2>4. faults' = 0 => job'[w] # Nobody /\ jobFile'[job'[w]] = target'[w]
    BY <2>1 DEF AwaitInv, OwnersRun, queueVars
  <2>5. \A f \in Files : status'[f] = "uploaded" => status[f] = "uploaded"
    BY <1>4 DEF SetStatus, TypeOK
  <2> QED
    BY <2>1, <2>2, <2>3, <2>4, <2>5, AwaitKept DEF JobsStay
<1>5. CASE Return(w, "process") /\ status[target[w]] \notin Processable /\ UNCHANGED rowVars
  <2>1. status'[target[w]] # "uploaded"
    BY <1>5 DEF Processable, rowVars
  <2> QED
    BY <1>5, <2>1, OldlyUploaded, AwaitStop
<1>6. CASE HeadValid(w, "get") \/ ReadObject(w) \/ ExtractionFails(w)
  BY <1>6, OldlyUploaded, AwaitFramed DEF HeadValid, ReadObject, Look, ExtractionFails, Skip
<1>7. CASE BeginIndex(w)
  BY <1>7, OldlyUploaded, AwaitFramed DEF BeginIndex, LockFile, Skip
<1>8. CASE CommitIndex(w)
  <2>1. \A f \in Files : ~NewlyUploaded(f)
    BY <1>8 DEF CommitIndex, NewlyUploaded, TypeOK
  <2> QED
    BY <1>8, <2>1, AwaitFramed DEF CommitIndex
<1>9. CASE RejectFile(w) \/ RecordUsage(w) \/ FailFile(w)
  <2>1. \A f \in Files : ~NewlyUploaded(f)
    BY <1>9, OldlyUploaded DEF RejectFile, RecordUsage, FailFile
  <2> QED
    BY <1>9, <2>1, AwaitStop DEF RejectFile, RecordUsage, FailFile
<1>10. CASE RecordUsageFails(w)
  BY <1>10, AwaitFaulty DEF RecordUsageFails, Fault
<1> QED
  BY <1>1, <1>2, <1>3, <1>4, <1>5, <1>6, <1>7, <1>8, <1>9, <1>10
  DEF Work, ReadRow, MarkProcessing

LEMMA AwaitStep ==
  ASSUME TypeOK, AwaitInv, [Next]_vars
  PROVE  AwaitInv'
<1>1. ASSUME NEW j \in Jobs, Expire(j)
      PROVE  AwaitInv'
  BY <1>1, JobsStayed, AwaitStill DEF Expire, localVars, rowVars
<1>2. ASSUME \/ \E p \in Files \cup Calls : CrashRequest(p)
             \/ \E w \in Workers : CrashWorker(w) \/ Timeout(w)
      PROVE  AwaitInv'
  BY <1>2, AwaitFaulty DEF CrashRequest, CrashWorker, Rollback, Timeout
<1>3. CASE UNCHANGED vars
  BY <1>3, JobsStayed, AwaitStill DEF vars, localVars, rowVars
<1> QED
  BY <1>1, <1>2, <1>3, AwaitUpload, AwaitShared, AwaitDelete, AwaitCall, AwaitWork
  DEF Next, Failure

\* A completed upload is waiting for an enqueuing call or for a job of the
\* queue, at every moment before the first crash, timeout or failed call.
THEOREM FileUploadNotForgotten == Spec => []UploadNotForgotten
<1>1. Init => TypeOK /\ AwaitInv
  BY TypeInit, HandlerKinds DEF Init, AwaitInv, OwnersRun, Handlers
<1>2. TypeOK /\ AwaitInv /\ [Next]_vars => TypeOK' /\ AwaitInv'
  BY TypeStep, AwaitStep
<1>3. TypeOK /\ AwaitInv => UploadNotForgotten
  <2> SUFFICES ASSUME TypeOK, AwaitInv, NEW f \in Files, status[f] = "uploaded", ~(faults > 0)
               PROVE  AwaitedBy(f)
    BY DEF UploadNotForgotten
  <2>1. OwnersRun /\ Awaited(f)
    BY DEF AwaitInv, TypeOK
  <2> QED
    BY <2>1 DEF Awaited, AwaitedBy, OwnersRun, TypeOK, TargetsTyped
<1> QED
  BY <1>1, <1>2, <1>3, PTL DEF Spec

-----------------------------------------------------------------------------
(***************************************************************************)
(* Bytes: the stored files weigh what was declared for them, and what a    *)
(* transaction summed under the quota lock covers them until it commits.   *)
(***************************************************************************)
UsageRead ==
  /\ bytesRead \in [Files -> Nat]
  /\ \A f \in Files : pc[f] = "quotaTx" => SumOf(expected, Live) <= bytesRead[f]

DeclaredWithinQuota ==
  \A S \in (SUBSET Live) \ {{}} :
    \E f \in S :
      /\ Cardinality(S) <= FileLimit[admitted[f]]
      /\ SumOf(expected, S) <= ByteLimit[admitted[f]]

\* A stored file weighs its declared size, measured or not.
LEMMA LiveBytes ==
  ASSUME FilesHold, NEW S \in SUBSET Live
  PROVE  /\ IsFiniteSet(S)
         /\ \A f \in S : f \in Files /\ expected[f] \in Nat /\ Bytes(f) = expected[f]
<1>1. IsFiniteSet(S)
  BY FilesAssumption, FS_Subset DEF Live
<1>2. \A f \in S : f \in Files /\ expected[f] \in Nat /\ Bytes(f) = expected[f]
  BY SizesAssumption DEF FilesHold, Live, Bytes
<1> QED
  BY <1>1, <1>2

LEMMA SumOfBytes ==
  ASSUME NEW S, IsFiniteSet(S), \A f \in S : expected[f] \in Nat /\ Bytes(f) = expected[f]
  PROVE  MapThenSumSet(Bytes, S) = SumOf(expected, S)
<1> DEFINE Step(h, s) == IF s = {} THEN 0
                         ELSE Bytes(CHOOSE x \in s : TRUE) + h[s \ {CHOOSE x \in s : TRUE}]
           g == CHOOSE h : h = [s \in SUBSET S |-> Step(h, s)]
<1>1. MapThenSumSet(Bytes, S) = g[S]
  BY DEF MapThenSumSet, MapThenFoldSet
<1>2. ASSUME NEW h, NEW s \in SUBSET S
      PROVE  Step(h, s) = SumStep(expected, h, s)
  <2>1. CASE s # {}
    <3>1. (CHOOSE x \in s : TRUE) \in S
      BY <2>1
    <3> QED
      BY <2>1, <3>1 DEF SumStep
  <2> QED
    BY <2>1 DEF SumStep
<1>3. ASSUME NEW h
      PROVE  SumSolution(expected, S, h) <=> h = [s \in SUBSET S |-> Step(h, s)]
  BY <1>2 DEF SumSolution
<1>4. \E h : SumSolution(expected, S, h)
  <2>1. \A f \in S : expected[f] \in Int
    OBVIOUS
  <2> QED
    BY <2>1, SumIsDefined
<1>5. SumSolution(expected, S, g)
  <2> HIDE DEF Step
  <2>1. \E h : h = [s \in SUBSET S |-> Step(h, s)]
    BY <1>3, <1>4
  <2>2. g = [s \in SUBSET S |-> Step(g, s)]
    BY <2>1, Zenon
  <2> QED
    BY <1>3, <2>2
<1>6. SumOf(expected, S) = g[S]
  <2> HIDE DEF g
  <2> QED
    BY <1>5, SumIsSolution
<1> QED
  BY <1>1, <1>6

\* Apart from the transaction that reads the usage and the one that writes,
\* no step touches what was read.
LEMMA UsageStays ==
  ASSUME TypeOK, Next, ~ \E f \in Files : BeginQuota(f) \/ CommitQuota(f)
  PROVE  bytesRead' = bytesRead /\ \A f \in Files : pc'[f] = "quotaTx" => pc[f] = "quotaTx"
<1> USE HandlerKinds DEF Goto
<1>1. ASSUME NEW p \in Handlers, NEW from, NEW to, to # "quotaTx",
             \/ Update(p, from, to) \/ Commit(p, from, to) \/ Look(p, from, to)
             \/ LockFile(p, from, to) \/ Fault(p, from, to) \/ \E f : Accept(p, f, to)
      PROVE  bytesRead' = bytesRead /\ \A f \in Files : pc'[f] = "quotaTx" => pc[f] = "quotaTx"
  BY <1>1 DEF Update, Commit, Look, LockFile, Fault, Accept, lockVars, readVars, TypeOK,
              PositionsTyped
<1>2. ASSUME NEW w \in Workers, NEW from, Return(w, from) \/ Throw(w, from)
      PROVE  bytesRead' = bytesRead /\ \A f \in Files : pc'[f] = "quotaTx" => pc[f] = "quotaTx"
  BY <1>2 DEF Return, Throw, Stop, lockVars, readVars, TypeOK, PositionsTyped
<1>3. ASSUME NEW f \in Files, Upload(f) \/ Put(f) \/ PresignFails(f)
      PROVE  bytesRead' = bytesRead /\ \A g \in Files : pc'[g] = "quotaTx" => pc[g] = "quotaTx"
  <2>1. CASE Put(f)
    BY <2>1 DEF Put, lockVars, readVars
  <2> QED
    BY <1>1, <1>3, <2>1 DEF Upload, StartUpload, IssueUrl, Skip, PresignFails
<1>4. ASSUME NEW p \in Calls \cup Workers, Reject(p) \/ HeadFails(p)
      PROVE  bytesRead' = bytesRead /\ \A f \in Files : pc'[f] = "quotaTx" => pc[f] = "quotaTx"
  <2>1. CASE RejectObject(p)
    BY <2>1 DEF RejectObject, lockVars, readVars, TypeOK, PositionsTyped
  <2> QED
    BY <1>1, <1>4, <2>1 DEF Reject, HeadInvalid, Skip, HeadFails, Handlers
<1>5. ASSUME NEW p \in Files \cup Calls, Delete(p)
      PROVE  bytesRead' = bytesRead /\ \A f \in Files : pc'[f] = "quotaTx" => pc[f] = "quotaTx"
  BY <1>1, <1>5 DEF Delete, BeginDelete, CommitDelete, Handlers
<1>6. ASSUME NEW c \in Calls, Call(c) \/ EnqueueFails(c) \/ DeleteObjectFails(c)
      PROVE  bytesRead' = bytesRead /\ \A f \in Files : pc'[f] = "quotaTx" => pc[f] = "quotaTx"
  <2>1. CASE Enqueue(c) \/ DeleteObject(c)
    BY <2>1 DEF Enqueue, DeleteObject, lockVars, readVars, TypeOK, PositionsTyped
  <2>2. CASE MarkUploaded(c)
    BY <1>1, <2>2 DEF MarkUploaded, Skip
  <2> QED
    BY <1>1, <1>6, <2>1, <2>2
    DEF Call, CallComplete, CallDelete, CallReindex, HeadValid, RejectUpload, EnqueueFails,
        DeleteObjectFails
<1>7. ASSUME NEW w \in Workers, Work(w) \/ RecordUsageFails(w)
      PROVE  bytesRead' = bytesRead /\ \A f \in Files : pc'[f] = "quotaTx" => pc[f] = "quotaTx"
  <2>1. CASE \E j \in Jobs : Fetch(w, j)
    BY <2>1 DEF Fetch, lockVars, readVars, TypeOK, PositionsTyped
  <2>2. CASE ReadRow(w) \/ MarkProcessing(w)
    BY <1>1, <1>2, <2>2 DEF ReadRow, MarkProcessing, Skip
  <2>3. CASE RejectFile(w) \/ RecordUsage(w) \/ FailFile(w)
    BY <1>2, <2>3 DEF RejectFile, RecordUsage, FailFile
  <2> QED
    BY <1>1, <1>7, <2>1, <2>2, <2>3
    DEF Work, HeadValid, ReadObject, ExtractionFails, Skip, BeginIndex, CommitIndex,
        RecordUsageFails
<1>8. ASSUME \/ \E p \in Files \cup Calls : CrashRequest(p)
             \/ \E w \in Workers : CrashWorker(w) \/ Timeout(w)
             \/ \E j \in Jobs : Expire(j)
      PROVE  bytesRead' = bytesRead /\ \A f \in Files : pc'[f] = "quotaTx" => pc[f] = "quotaTx"
  BY <1>8 DEF CrashRequest, CrashWorker, Stop, Rollback, Timeout, Expire, lockVars, readVars,
              TypeOK, PositionsTyped
<1> QED
  BY <1>3, <1>4, <1>5, <1>6, <1>7, <1>8 DEF Next, Failure

\* Without a new row the sums of stored files only shrink.
LEMMA DeclaredKept ==
  ASSUME LifecycleInv, FilesHold, HandlersHold, Next, ~ \E f \in Files : CommitQuota(f),
         NEW S \in SUBSET (Live')
  PROVE  /\ S \in SUBSET Live
         /\ SumOf(expected', S) = SumOf(expected, S)
         /\ SumOf(expected, S) <= SumOf(expected, Live)
         /\ SumOf(expected, S) \in Nat /\ SumOf(expected, Live) \in Nat
<1>1. \A f \in Files : RowStep(f) /\ DataStep(f)
  BY RowsStep, DataSteps DEF LifecycleInv
<1>2. S \in SUBSET Live
  BY <1>1, LiveShrinks DEF LifecycleInv
<1>3. \A T \in SUBSET Live : IsFiniteSet(T) /\ \A f \in T : f \in Files /\ expected[f] \in Nat
  BY LiveBytes
<1>4. \A f \in S : expected'[f] = expected[f]
  BY <1>1, <1>2 DEF DataStep, Live
<1>5. SumOf(expected', S) = SumOf(expected, S)
  <2>1. \A f \in S : expected[f] \in Nat /\ expected'[f] = expected[f]
    BY <1>2, <1>3, <1>4
  <2>2. IsFiniteSet(S)
    BY <1>2, <1>3
  <2> QED
    BY <2>1, <2>2, SumOfSame
<1>6. /\ SumOf(expected, S) <= SumOf(expected, Live)
      /\ SumOf(expected, S) \in Nat /\ SumOf(expected, Live) \in Nat
  BY <1>2, <1>3, SumOfSubset, SumIsNat
<1> QED
  BY <1>2, <1>5, <1>6

LEMMA BytesKept ==
  ASSUME LifecycleInv, FilesHold, HandlersHold, UsageRead, DeclaredWithinQuota,
         Next, ~ \E f \in Files : CommitQuota(f)
  PROVE  UsageRead' /\ DeclaredWithinQuota'
<1>1. DeclaredWithinQuota'
  <2> SUFFICES ASSUME NEW S \in (SUBSET Live') \ {{}}
               PROVE  \E f \in S : /\ Cardinality(S) <= FileLimit[admitted'[f]]
                                   /\ SumOf(expected', S) <= ByteLimit[admitted'[f]]
    BY DEF DeclaredWithinQuota
  <2>1. S \in (SUBSET Live) \ {{}} /\ SumOf(expected', S) = SumOf(expected, S)
    BY DeclaredKept
  <2>2. PICK f \in S : /\ Cardinality(S) <= FileLimit[admitted[f]]
                       /\ SumOf(expected, S) <= ByteLimit[admitted[f]]
    BY <2>1 DEF DeclaredWithinQuota
  <2>3. admitted'[f] = admitted[f]
    BY <2>1, RowsStep DEF RowStep, Live, LifecycleInv
  <2> QED
    BY <2>1, <2>2, <2>3
<1>2. ASSUME NEW g \in Files, BeginQuota(g)
      PROVE  UsageRead'
  <2>1. /\ IsFiniteSet(Live)
        /\ \A f \in Live : f \in Files /\ expected[f] \in Nat /\ Bytes(f) = expected[f]
    BY LiveBytes
  <2>2. MapThenSumSet(Bytes, Live) = SumOf(expected, Live)
    BY <2>1, SumOfBytes
  <2>3. bytesRead' = [bytesRead EXCEPT ![g] = SumOf(expected, Live)]
    BY <1>2, <2>2 DEF BeginQuota, ReadUsage
  <2>4. SumOf(expected, Live) \in Nat
    BY <2>1, SumIsNat
  <2>5. \A f \in Files \ {g} : pc'[f] = pc[f]
    BY <1>2 DEF BeginQuota, ReadUsage, Goto, LifecycleInv, TypeOK, PositionsTyped
  <2>6. Live' = Live /\ expected' = expected
    BY <1>2 DEF BeginQuota, ReadUsage, rowVars, Live
  <2> QED
    BY <2>3, <2>4, <2>5, <2>6 DEF UsageRead
<1>3. CASE ~ \E f \in Files : BeginQuota(f)
  <2>1. bytesRead' = bytesRead /\ \A f \in Files : pc'[f] = "quotaTx" => pc[f] = "quotaTx"
    BY <1>3, UsageStays DEF LifecycleInv
  <2>2. /\ SumOf(expected', Live') = SumOf(expected, Live')
        /\ SumOf(expected, Live') <= SumOf(expected, Live)
        /\ SumOf(expected, Live') \in Nat /\ SumOf(expected, Live) \in Nat
    BY DeclaredKept
  <2> QED
    BY <1>1, <2>1, <2>2 DEF UsageRead
<1> QED
  BY <1>1, <1>2, <1>3

\* The insertion of a row: the bytes summed under the lock are still all.
LEMMA BytesInserted ==
  ASSUME LifecycleInv, FilesHold, HandlersHold, UsageRead, DeclaredWithinQuota,
         NEW f \in Files, CommitQuota(f)
  PROVE  UsageRead' /\ DeclaredWithinQuota'
<1> USE HandlerKinds
<1>1. /\ pc[f] = "quotaTx" /\ status[f] = "none" /\ expected[f] \in Nat
      /\ Cardinality(Live) <= countRead[f] /\ countRead[f] \in Nat
      /\ SumOf(expected, Live) <= bytesRead[f] /\ bytesRead[f] \in Nat
  BY SizesAssumption
  DEF CommitQuota, Goto, LifecycleInv, ReadsHold, HandlersHold, UploadHolds, UsageRead, TypeOK
<1>2. /\ \A g \in Files : pc'[g] # "quotaTx"
      /\ bytesRead' \in [Files -> Nat]
      /\ admitted' = admitted /\ expected' = expected
  BY <1>1
  DEF CommitQuota, Goto, SetStatus, LifecycleInv, TypeOK, PositionsTyped, LocksHeld, UsageRead,
      rowVars
<1>3. /\ \A g \in Files \ {f} : status'[g] = status[g]
      /\ status'[f] = "none" \/ WithinLimits(f)
  BY <1>1 DEF CommitQuota, SetStatus, LifecycleInv, TypeOK, rowVars
<1>4. UsageRead'
  BY <1>2 DEF UsageRead
<1>5. DeclaredWithinQuota'
  <2> SUFFICES ASSUME NEW S \in (SUBSET Live') \ {{}}
               PROVE  \E g \in S : /\ Cardinality(S) <= FileLimit[admitted[g]]
                                   /\ SumOf(expected, S) <= ByteLimit[admitted[g]]
    BY <1>2 DEF DeclaredWithinQuota
  <2>1. f \notin Live /\ Live' \subseteq Live \cup {f}
    BY <1>1, <1>3 DEF Live
  <2>2. CASE f \notin S
    BY <2>1, <2>2 DEF DeclaredWithinQuota
  <2>3. CASE f \in S
    <3>1. WithinLimits(f)
      BY <1>3, <2>3 DEF Live
    <3>2. IsFiniteSet(Live) /\ \A g \in Live : expected[g] \in Nat
      BY LiveBytes
    <3> DEFINE T == Live \cup {f}
    <3>3. IsFiniteSet(T) /\ Cardinality(T) = Cardinality(Live) + 1
      BY <2>1, <3>2, FS_AddElement
    <3>4. /\ \A g \in T : expected[g] \in Nat
          /\ f \in T /\ T \ {f} = Live /\ S \in SUBSET T
      BY <1>1, <2>1, <3>2
    <3> HIDE DEF T
    <3>5. SumOf(expected, T) = expected[f] + SumOf(expected, Live)
      BY <3>3, <3>4, SumOfRest
    <3>6. /\ SumOf(expected, S) <= SumOf(expected, T)
          /\ SumOf(expected, S) \in Nat /\ SumOf(expected, Live) \in Nat
      <4>1. IsFiniteSet(S) /\ \A g \in S : expected[g] \in Nat
        BY <3>3, <3>4, FS_Subset
      <4> QED
        BY <3>2, <3>3, <3>4, <4>1, SumOfSubset, SumIsNat
    <3>7. /\ Cardinality(S) <= Cardinality(T) /\ Cardinality(S) \in Nat
          /\ Cardinality(Live) \in Nat
      BY <3>2, <3>3, <3>4, FS_Subset, FS_CardinalityType
    <3>8. FileLimit[admitted[f]] \in Nat /\ ByteLimit[admitted[f]] \in Nat
      BY QuotaAssumption DEF LifecycleInv, TypeOK
    <3>9. /\ countRead[f] + 1 <= FileLimit[admitted[f]]
          /\ bytesRead[f] + expected[f] <= ByteLimit[admitted[f]]
      BY <3>1 DEF WithinLimits
    <3>10. Cardinality(S) <= FileLimit[admitted[f]]
      BY <1>1, <3>3, <3>7, <3>8, <3>9
    <3>11. SumOf(expected, S) <= ByteLimit[admitted[f]]
      BY <1>1, <3>5, <3>6, <3>8, <3>9
    <3> QED
      BY <2>3, <3>10, <3>11
  <2> QED
    BY <2>2, <2>3
<1> QED
  BY <1>4, <1>5

\* What the rows, the handlers and the transactions hold of the quota.
QuotaInv == ContentInv /\ UsageRead /\ DeclaredWithinQuota

LEMMA QuotaInit == Init => UsageRead /\ DeclaredWithinQuota
<1> SUFFICES ASSUME Init PROVE UsageRead /\ DeclaredWithinQuota
  OBVIOUS
<1>1. UsageRead
  BY HandlerKinds DEF Init, UsageRead
<1>2. Live = {}
  BY DEF Init, Live
<1>3. ASSUME NEW S \in (SUBSET Live) \ {{}} PROVE FALSE
  <2>1. S \subseteq {} /\ S # {}
    BY <1>2
  <2> QED
    BY <2>1
<1> QED
  BY <1>1, <1>3 DEF DeclaredWithinQuota

LEMMA QuotaStep == QuotaInv /\ [Next]_vars => UsageRead' /\ DeclaredWithinQuota'
<1> SUFFICES ASSUME QuotaInv, [Next]_vars
             PROVE  UsageRead' /\ DeclaredWithinQuota'
  OBVIOUS
<1>1. CASE Next
  BY <1>1, BytesKept, BytesInserted DEF QuotaInv, ContentInv
<1>2. CASE UNCHANGED vars
  <2>1. UNCHANGED << pc, bytesRead, expected, admitted, Live >>
    BY <1>2 DEF vars, rowVars, lockVars, readVars, Live
  <2> QED
    BY <2>1 DEF QuotaInv, UsageRead, DeclaredWithinQuota
<1> QED
  BY <1>1, <1>2

THEOREM FileQuotaInvariant == Spec => []QuotaInv
<1>1. Spec => []ContentInv
  BY FileContents
<1>2. Init => UsageRead /\ DeclaredWithinQuota
  BY QuotaInit
<1>3. ContentInv /\ (UsageRead /\ DeclaredWithinQuota) /\ [Next]_vars
        => (UsageRead /\ DeclaredWithinQuota)'
  BY QuotaStep DEF QuotaInv
<1>4. QuotaInv <=> ContentInv /\ (UsageRead /\ DeclaredWithinQuota)
  BY DEF QuotaInv
<1> QED
  BY <1>1, <1>2, <1>3, <1>4, PTL DEF Spec

\* Every stored file was admitted under a lock that kept the sums up to date:
\* any set of stored files, and so all of them together, is within the count
\* and the bytes of the plan under which the last of the set was admitted.
THEOREM FileWithinQuota == Spec => []WithinQuota
<1>1. QuotaInv => WithinQuota
  <2> SUFFICES ASSUME QuotaInv, NEW S \in (SUBSET Live) \ {{}}
               PROVE  \E f \in S : /\ Cardinality(S) <= FileLimit[admitted[f]]
                                   /\ MapThenSumSet(Bytes, S) <= ByteLimit[admitted[f]]
    BY DEF WithinQuota
  <2>1. /\ IsFiniteSet(S)
        /\ \A f \in S : expected[f] \in Nat /\ Bytes(f) = expected[f]
    BY LiveBytes DEF QuotaInv, ContentInv
  <2>2. MapThenSumSet(Bytes, S) = SumOf(expected, S)
    BY <2>1, SumOfBytes
  <2> QED
    BY <2>2 DEF QuotaInv, DeclaredWithinQuota
<1> QED
  BY FileQuotaInvariant, <1>1, PTL

-----------------------------------------------------------------------------
(***************************************************************************)
(* The abstract quota: an insertion is an admission, a deletion under the  *)
(* lock of the file a removal, and every other step leaves the stored      *)
(* files and their bytes alone.                                            *)
(***************************************************************************)
Weight == [f \in Files |-> IF f \in Live THEN Bytes(f) ELSE 0]
Removed == {f \in Files : status[f] = "deleted"}

LEMMA WeightIsDeclared ==
  ASSUME FilesHold
  PROVE  \A f \in Files : Weight[f] = IF f \in Live THEN expected[f] ELSE 0
BY LiveBytes DEF Weight

\* A file that stays stored keeps its weight.
LEMMA WeightKept ==
  ASSUME FilesHold, FilesHold', \A f \in Files : DataStep(f)
  PROVE  \A f \in Live : f \in Live' => Weight'[f] = Weight[f]
<1>1. \A f \in Live : f \in Files /\ status[f] # "none"
  BY DEF Live
<1>2. \A f \in Live : expected'[f] = expected[f]
  BY <1>1 DEF DataStep
<1>3. \A f \in Files : Weight[f] = IF f \in Live THEN expected[f] ELSE 0
  BY WeightIsDeclared
<1>4. \A f \in Files : Weight'[f] = IF f \in Live' THEN expected'[f] ELSE 0
  <2>1. \A f \in Live' : f \in Files /\ Bytes(f)' = expected'[f]
    BY SizesAssumption DEF FilesHold, Live, Bytes
  <2> QED
    BY <2>1 DEF Weight
<1> QED
  BY <1>1, <1>2, <1>3, <1>4

LEMMA QuotaStutter ==
  ASSUME FilesHold, FilesHold', \A f \in Files : DataStep(f), Live' = Live, Removed' = Removed
  PROVE  UNCHANGED Quota!vars
<1>1. Weight' = Weight
  <2>1. \A f \in Files : f \in Live => Weight'[f] = Weight[f]
    BY WeightKept
  <2>2. \A f \in Files : f \notin Live => Weight'[f] = Weight[f]
    BY DEF Weight
  <2> QED
    BY <2>1, <2>2 DEF Weight
<1> QED
  BY <1>1 DEF Quota!vars, Weight, Removed

\* The insertion of a row that fits what was read is an admission.
LEMMA QuotaAdmits ==
  ASSUME QuotaInv, FilesHold', NEW f \in Files, CommitQuota(f), WithinLimits(f),
         status' = [status EXCEPT ![f] = "uploading"],
         NEW s \in Sizes, s = expected[f], NEW x \in Plans, x = admitted[f]
  PROVE  Quota!Admit(f, s, x)
<1>1. /\ pc[f] = "quotaTx" /\ status[f] = "none" /\ expected[f] \in Sizes
      /\ Cardinality(Live) <= countRead[f] /\ countRead[f] \in Nat
      /\ SumOf(expected, Live) <= bytesRead[f] /\ bytesRead[f] \in Nat
      /\ status \in [Files -> Statuses] /\ admitted[f] \in Plans
  BY HandlerKinds
  DEF CommitQuota, Goto, QuotaInv, ContentInv, LifecycleInv, ReadsHold, HandlersHold, UploadHolds,
      UsageRead, TypeOK
<1>2. f \notin Live /\ f \notin Removed
  BY <1>1 DEF Live, Removed
<1>3. Live' = Live \cup {f} /\ Removed' = Removed
  BY <1>1 DEF Live, Removed
<1>4. Weight' = [Weight EXCEPT ![f] = expected[f]]
  <2>1. \A g \in Files : DataStep(g)
    <3>1. CommitQuota(f) => Next
      BY DEF Next, Upload
    <3> QED
      BY <3>1, DataSteps DEF QuotaInv, ContentInv, LifecycleInv
  <2>2. \A g \in Live : Weight'[g] = Weight[g]
    BY <1>3, <2>1, WeightKept DEF QuotaInv, ContentInv
  <2>3. \A g \in Files \ (Live \cup {f}) : Weight'[g] = Weight[g]
    BY <1>3 DEF Weight
  <2>4. Weight'[f] = expected[f]
    <3>1. actual[f] = None /\ actual' = actual /\ expected' = expected
      BY <1>1 DEF QuotaInv, ContentInv, FilesHold, CommitQuota, SetStatus, rowVars
    <3> QED
      BY <1>3, <3>1 DEF Weight, Bytes
  <2> QED
    BY <2>2, <2>3, <2>4 DEF Weight
<1>5. SumOf(Weight, Live) = SumOf(expected, Live) /\ SumOf(expected, Live) \in Nat
  <2>1. /\ IsFiniteSet(Live)
        /\ \A g \in Live : g \in Files /\ expected[g] \in Nat
    BY LiveBytes DEF QuotaInv, ContentInv
  <2>2. \A g \in Live : expected[g] \in Nat /\ Weight[g] = expected[g]
    BY <2>1, WeightIsDeclared DEF QuotaInv, ContentInv
  <2> QED
    BY <2>1, <2>2, SumOfSame, SumIsNat
<1>6. /\ Cardinality(Live) + 1 <= FileLimit[admitted[f]]
      /\ SumOf(Weight, Live) + expected[f] <= ByteLimit[admitted[f]]
  <2>1. /\ countRead[f] + 1 <= FileLimit[admitted[f]]
        /\ bytesRead[f] + expected[f] <= ByteLimit[admitted[f]]
    BY DEF WithinLimits
  <2>2. FileLimit[admitted[f]] \in Nat /\ ByteLimit[admitted[f]] \in Nat /\ expected[f] \in Nat
    BY <1>1, QuotaAssumption, SizesAssumption
  <2>3. Cardinality(Live) \in Nat
    BY LiveBytes, FS_CardinalityType DEF QuotaInv, ContentInv
  <2> QED
    BY <1>1, <1>5, <2>1, <2>2, <2>3
<1>7. Quota!Fits(s, x)
  <2>1. Quota!Cardinality(Live) = Cardinality(Live)
    BY DEF Quota!Cardinality, Cardinality
  <2>2. Quota!MapThenSumSet(LAMBDA g : Weight[g], Live) = SumOf(Weight, Live)
    BY DEF SumOf, Quota!MapThenSumSet, Quota!MapThenFoldSet, MapThenSumSet, MapThenFoldSet
  <2> QED
    BY <1>6, <2>1, <2>2 DEF Quota!Fits, Weight
<1> QED
  <2>1. Weight' = [Weight EXCEPT ![f] = s]
    BY <1>4
  <2> QED
    BY <1>2, <1>3, <1>7, <2>1 DEF Quota!Admit, Weight, Removed

\* A deletion removes its file, if it is still there, and no other one.
LEMMA QuotaRemoves ==
  ASSUME QuotaInv, FilesHold', NEW p \in Files \cup Calls, CommitDelete(p)
  PROVE  [Quota!Next]_(Quota!vars)
<1>1. /\ File(p) \in Files /\ status[File(p)] # "none"
      /\ status \in [Files -> Statuses]
  <2>1. pc[p] = "deleteTx" /\ p \in Handlers
    BY DEF CommitDelete, Commit, Goto, Handlers
  <2> QED
    BY <2>1, HandlerKinds
    DEF QuotaInv, ContentInv, LifecycleInv, ReadsHold, TypeOK, TargetsTyped, File
<1> PICK f \in Files : f = File(p)
  BY <1>1
<1>2. status[f] # "none" /\ status' = [status EXCEPT ![f] = "deleted"]
  BY <1>1 DEF CommitDelete
<1>3. \A g \in Files : DataStep(g)
  <2>1. CommitDelete(p) => Next
    BY DEF Next, Delete
  <2> QED
    BY <2>1, DataSteps DEF QuotaInv, ContentInv, LifecycleInv
<1>4. Live' = Live \ {f} /\ Removed' = Removed \cup {f}
  BY <1>1, <1>2 DEF Live, Removed
<1>5. CASE f \in Live
  <2>1. Weight' = [Weight EXCEPT ![f] = 0]
    <3>1. \A g \in Live \ {f} : Weight'[g] = Weight[g]
      BY <1>3, <1>4, WeightKept DEF QuotaInv, ContentInv
    <3>2. \A g \in Files \ Live : Weight'[g] = 0 /\ Weight[g] = 0
      BY <1>4 DEF Weight
    <3>3. Weight'[f] = 0
      BY <1>1, <1>4 DEF Weight
    <3> QED
      BY <3>1, <3>2, <3>3 DEF Weight
  <2>2. Quota!Remove(f)
    BY <1>4, <1>5, <2>1 DEF Quota!Remove, Weight, Removed
  <2> QED
    BY <1>1, <2>2 DEF Quota!Next
<1>6. CASE f \notin Live
  <2>1. f \in Removed
    BY <1>1, <1>2, <1>6 DEF Live, Removed
  <2> QED
    BY <1>3, <1>4, <1>6, <2>1, QuotaStutter DEF QuotaInv, ContentInv
<1> QED
  BY <1>5, <1>6

\* Every step maps to one step of the quota or to none.
LEMMA QuotaSimulates == QuotaInv /\ QuotaInv' /\ [Next]_vars => [Quota!Next]_(Quota!vars)
<1> SUFFICES ASSUME QuotaInv, QuotaInv', [Next]_vars
             PROVE  [Quota!Next]_(Quota!vars)
  OBVIOUS
<1>1. FilesHold /\ FilesHold' /\ TypeOK /\ TypeOK'
  BY DEF QuotaInv, ContentInv, LifecycleInv
<1>2. ASSUME NEW f \in Files, CommitQuota(f)
      PROVE  [Quota!Next]_(Quota!vars)
  <2>1. CASE WithinLimits(f) /\ status' = [status EXCEPT ![f] = "uploading"]
    <3>1. expected[f] \in Sizes /\ admitted[f] \in Plans
      BY <1>2, HandlerKinds
      DEF CommitQuota, Goto, QuotaInv, ContentInv, HandlersHold, UploadHolds, LifecycleInv, TypeOK
    <3>2. PICK s \in Sizes, x \in Plans : s = expected[f] /\ x = admitted[f]
      BY <3>1
    <3>3. Quota!Admit(f, s, x)
      BY <1>1, <1>2, <2>1, <3>2, QuotaAdmits
    <3> QED
      BY <3>3 DEF Quota!Next
  <2>2. CASE UNCHANGED rowVars
    <3>1. Live' = Live /\ Removed' = Removed
      BY <2>2 DEF rowVars, Live, Removed
    <3>2. \A g \in Files : DataStep(g)
      BY <1>2, <2>2, DataUntouched DEF CommitQuota, rowVars, storeVars
    <3> QED
      BY <1>1, <3>1, <3>2, QuotaStutter
  <2> QED
    BY <1>2, <2>1, <2>2 DEF CommitQuota, SetStatus
<1>3. ASSUME NEW p \in Files \cup Calls, CommitDelete(p)
      PROVE  [Quota!Next]_(Quota!vars)
  BY <1>1, <1>3, QuotaRemoves
<1>4. CASE /\ Next
           /\ ~ \E f \in Files : CommitQuota(f)
           /\ ~ \E p \in Files \cup Calls : CommitDelete(p)
  <2>1. \A f \in Files : RowStep(f) /\ DataStep(f)
    BY <1>4, RowsStep, DataSteps DEF QuotaInv, ContentInv, LifecycleInv
  <2>2. \A f \in Files : \/ status'[f] = status[f]
                         \/ f \in Live /\ status'[f] \notin {"none", "deleted"}
    BY <1>4, <2>1 DEF RowStep
  <2>3. Live' = Live /\ Removed' = Removed
    BY <2>2 DEF Live, Removed
  <2> QED
    BY <1>1, <2>1, <2>3, QuotaStutter
<1>5. CASE UNCHANGED vars
  <2>1. UNCHANGED << expected, actual, object, puts, swapped, Live, Removed >>
    BY <1>5 DEF vars, rowVars, storeVars, Live, Removed
  <2> QED
    BY <1>1, <2>1, DataUntouched, QuotaStutter
<1> QED
  BY <1>2, <1>3, <1>4, <1>5

\* Uploads, completions, workers and deletions implement the quota: a file is
\* checked and inserted as if in one step although the check and the insertion
\* are two, weighs the same until it is deleted, and does not come back.
THEOREM FilesImplementQuota == Spec => ImplementsQuota
<1>1. Init => Quota!Init
  <2> SUFFICES ASSUME Init PROVE Quota!Init
    OBVIOUS
  <2>1. Live = {} /\ Removed = {}
    BY DEF Init, Live, Removed
  <2>2. Weight = [f \in Files |-> 0]
    BY <2>1 DEF Weight
  <2> QED
    BY <2>1, <2>2 DEF Quota!Init, Weight, Removed
<1>2. QuotaInv /\ QuotaInv' /\ [Next]_vars => [Quota!Next]_(Quota!vars)
  BY QuotaSimulates
<1> QED
  BY <1>1, <1>2, FileQuotaInvariant, PTL DEF Spec, ImplementsQuota, Quota!Spec
=============================================================================
