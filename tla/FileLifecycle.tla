---------------------------- MODULE FileLifecycle ----------------------------
(***************************************************************************)
(* The files of one organization, from the upload quota to the searchable  *)
(* index: packages/db/src/files.ts and rag.ts, the handlers under          *)
(* apps/web/app/api/files and the ingestion worker apps/worker/src.        *)
(*                                                                         *)
(* A file is created by one upload request and named like it.  Completion, *)
(* deletion and reindexing are API calls, each of them a process; so is    *)
(* every worker.  An await in a handler ends a step.  A transaction under  *)
(* an advisory lock is two steps: one takes the lock and reads, the other  *)
(* writes and commits.                                                     *)
(*                                                                         *)
(* The content of an object is identified by its size: an object whose     *)
(* size is not the declared one stands for every object that fails         *)
(* validation.  The object store and the queue are external.  The queue    *)
(* keeps at most one job of a file active (policy singleton), retries a    *)
(* failed or expired job and at last moves it to the dead-letter queue.    *)
(***************************************************************************)
EXTENDS Integers, FiniteSets, FiniteSetsExt

CONSTANTS
  Files,       \* upload requests, and the files they create
  Calls,       \* completion, deletion and reindex requests
  Workers,     \* handlers of file.ingest jobs
  Jobs,        \* bound on the jobs in the queue
  Nobody,      \* no lock holder, no job, no file
  Sizes,       \* sizes a client declares or uploads
  Plans,       \* plans of the storage quota policy
  FileLimit,   \* per plan: storedFiles
  ByteLimit,   \* per plan: storageBytes
  RetryLimit,  \* retryLimit of file.ingest
  MaxPuts,     \* bound on the PUTs of one file
  MaxFaults    \* bound on crashes, timeouts and failed external calls

Handlers == Files \cup Calls \cup Workers

ASSUME NamesAssumption ==
  /\ Nobody \notin Handlers \cup Jobs
  /\ Files \cap Calls = {}
  /\ Files \cap Workers = {}
  /\ Calls \cap Workers = {}
ASSUME FilesAssumption == IsFiniteSet(Files)
ASSUME SizesAssumption == Sizes \subseteq Nat \ {0}
ASSUME QuotaAssumption ==
  /\ FileLimit \in [Plans -> Nat \ {0}]
  /\ ByteLimit \in [Plans -> Nat \ {0}]
ASSUME BoundsAssumption == {RetryLimit, MaxPuts, MaxFaults} \subseteq Nat

None == -1     \* SQL null, or no object

VARIABLES
  status,      \* stored_file.status; "none" without a row
  expected,    \* stored_file.expected_size_bytes
  actual,      \* stored_file.actual_size_bytes
  chunks,      \* content the document_chunk rows were made from
  admitted,    \* the plan whose quota the upload request read
  object,      \* the stored object
  puts,        \* PUTs of the file so far
  swapped,     \* files PUT between the HEAD and the GET of a worker (history)
  quotaLock,   \* holder of storage-quota:<org>
  countRead,   \* per upload: files its transaction counted
  bytesRead,   \* per upload: bytes its transaction summed
  fileLock,    \* per file: holder of rag-file:<org>:<file>
  pc,          \* per handler: where it stands
  target,      \* per call and worker: the file it works on
  seen,        \* per call and worker: content its HEAD or GET returned
  job,         \* per worker: its job; Nobody once the job expired
  queue,       \* per job: where it stands
  jobFile,     \* per job: the file to ingest
  retries,     \* per job: failed attempts
  faults

rowVars == << status, expected, actual, chunks, admitted >>
storeVars == << object, puts, swapped >>
readVars == << countRead, bytesRead >>
lockVars == << quotaLock, readVars, fileLock >>
localVars == << target, seen, job >>
queueVars == << queue, jobFile, retries >>
vars == << rowVars, storeVars, lockVars, pc, localVars, queueVars, faults >>

Statuses == {"none", "uploading", "uploaded", "processing", "ready", "failed",
             "deleted"}
Live == {f \in Files : status[f] \notin {"none", "deleted"}}
File(p) == IF p \in Files THEN p ELSE target[p]

Init ==
  /\ status = [f \in Files |-> "none"]
  /\ expected = [f \in Files |-> None]
  /\ actual = [f \in Files |-> None]
  /\ chunks = [f \in Files |-> None]
  /\ \E x \in Plans : admitted = [f \in Files |-> x]
  /\ object = [f \in Files |-> None]
  /\ puts = [f \in Files |-> 0]
  /\ swapped = {}
  /\ quotaLock = Nobody
  /\ countRead = [f \in Files |-> 0]
  /\ bytesRead = [f \in Files |-> 0]
  /\ fileLock = [f \in Files |-> Nobody]
  /\ pc = [p \in Handlers |-> "idle"]
  /\ target = [p \in Calls \cup Workers |-> Nobody]
  /\ seen = [p \in Calls \cup Workers |-> None]
  /\ job = [w \in Workers |-> Nobody]
  /\ queue = [j \in Jobs |-> "free"]
  /\ jobFile = [j \in Jobs |-> Nobody]
  /\ retries = [j \in Jobs |-> 0]
  /\ faults = 0

Goto(p, from, to) == pc[p] = from /\ pc' = [pc EXCEPT ![p] = to]

(***************************************************************************)
(* The kinds of steps: one that only moves on, one that writes the row,    *)
(* one that commits under the lock of the file, one that looks at the      *)
(* object, one that fails.                                                 *)
(***************************************************************************)
Update(p, from, to) ==
  /\ Goto(p, from, to)
  /\ UNCHANGED << storeVars, lockVars, localVars, queueVars, faults >>

Skip(p, from, to) == Update(p, from, to) /\ UNCHANGED rowVars

Commit(p, from, to) ==
  /\ Goto(p, from, to)
  /\ fileLock' = [fileLock EXCEPT ![File(p)] = Nobody]
  /\ UNCHANGED << expected, actual, admitted, storeVars, quotaLock, readVars,
                  localVars, queueVars, faults >>

Look(p, from, to) ==
  /\ Goto(p, from, to)
  /\ seen' = [seen EXCEPT ![p] = object[target[p]]]
  /\ UNCHANGED << rowVars, storeVars, lockVars, target, job, queueVars, faults >>

Faulty == faults < MaxFaults /\ faults' = faults + 1

Fault(p, from, to) ==
  /\ Goto(p, from, to)
  /\ Faulty
  /\ UNCHANGED << rowVars, storeVars, lockVars, localVars, queueVars >>

SetStatus(f, s) ==
  /\ status' = [status EXCEPT ![f] = s]
  /\ UNCHANGED << expected, actual, chunks, admitted >>

-----------------------------------------------------------------------------
(***************************************************************************)
(* POST /api/files/uploads: the plan is read, a row is reserved under the  *)
(* quota lock, an upload URL is issued.                                    *)
(***************************************************************************)

\* The subscription may yield another plan for every upload.
StartUpload(f) ==
  /\ Update(f, "idle", "quotaLock")
  /\ \E s \in Sizes : expected' = [expected EXCEPT ![f] = s]
  /\ \E x \in Plans : admitted' = [admitted EXCEPT ![f] = x]
  /\ UNCHANGED << status, actual, chunks >>

\* coalesce(actual_size_bytes, expected_size_bytes)
Bytes(f) == IF actual[f] # None THEN actual[f] ELSE expected[f]

ReadUsage(f, counted, summed) ==
  /\ Goto(f, "quotaLock", "quotaTx")
  /\ countRead' = [countRead EXCEPT ![f] = Cardinality(counted)]
  /\ bytesRead' = [bytesRead EXCEPT ![f] = MapThenSumSet(Bytes, summed)]
  /\ UNCHANGED << rowVars, storeVars, fileLock, localVars, queueVars, faults >>

\* Mutant: the transaction does not wait for the advisory lock.
BeginQuotaUnlocked(f) == ReadUsage(f, Live, Live) /\ UNCHANGED quotaLock

\* Mutant: uploads that are not completed are not summed.
BeginQuotaUploaded(f) ==
  /\ quotaLock = Nobody /\ quotaLock' = f
  /\ ReadUsage(f, Live, {g \in Live : status[g] # "uploading"})

\* createStoredFileWithinQuota, first half: lock, count and sum.
BeginQuota(f) ==
  /\ quotaLock = Nobody /\ quotaLock' = f
  /\ ReadUsage(f, Live, Live)

WithinLimits(f) ==
  /\ countRead[f] + 1 <= FileLimit[admitted[f]]
  /\ bytesRead[f] + expected[f] <= ByteLimit[admitted[f]]

\* createStoredFileWithinQuota, second half: insert, or answer 409.
CommitQuota(f) ==
  /\ quotaLock' = Nobody
  /\ countRead' = [countRead EXCEPT ![f] = 0]
  /\ bytesRead' = [bytesRead EXCEPT ![f] = 0]
  /\ \/ Goto(f, "quotaTx", "presign") /\ WithinLimits(f) /\ SetStatus(f, "uploading")
     \/ Goto(f, "quotaTx", "done") /\ ~WithinLimits(f) /\ UNCHANGED rowVars
  /\ UNCHANGED << storeVars, fileLock, localVars, queueVars, faults >>

IssueUrl(f) == Skip(f, "presign", "issued")

\* The row is given back with markStoredFileDeleted.
PresignFails(f) == Fault(f, "presign", "deleteLock")

\* The client may PUT anything as long as the URL is valid.
Put(f) ==
  /\ pc[f] = "issued"
  /\ puts[f] < MaxPuts
  /\ puts' = [puts EXCEPT ![f] = @ + 1]
  /\ \E s \in Sizes : object' = [object EXCEPT ![f] = s]
  /\ swapped' = IF \E w \in Workers : pc[w] = "get" /\ target[w] = f
                  THEN swapped \cup {f} ELSE swapped
  /\ UNCHANGED << rowVars, lockVars, pc, localVars, queueVars, faults >>

-----------------------------------------------------------------------------
(***************************************************************************)
(* Steps that several handlers share.                                      *)
(***************************************************************************)

\* Mutant: an object is valid if it exists.
HeadPresent(p, next) == Look(p, "head", next) /\ object[target[p]] # None

\* headStoredObject and validateStoredObject agree with the declaration.
HeadValid(p, next) ==
  Look(p, "head", next) /\ object[target[p]] = expected[target[p]]

\* The object is missing or not what was declared.
HeadInvalid(p) ==
  Skip(p, "head", "reject") /\ object[target[p]] # expected[target[p]]

\* HEAD fails: the same catch block as for an invalid object.
HeadFails(p) == Fault(p, "head", "reject")

\* deleteStoredObject of the catch block; its failure is ignored.
RejectObject(p) ==
  /\ Goto(p, "reject", "rejectMark")
  /\ \/ object' = [object EXCEPT ![target[p]] = None] /\ UNCHANGED faults
     \/ Faulty /\ UNCHANGED object
  /\ UNCHANGED << rowVars, puts, swapped, lockVars, localVars, queueVars >>

\* markStoredFileFailed: one UPDATE, which takes no advisory lock.
MarkFailed(f) ==
  \/ f \in Live /\ SetStatus(f, "failed")
  \/ f \notin Live /\ UNCHANGED rowVars

\* The two transactions under the lock of a file start by taking it.
LockFile(p, from, to) ==
  /\ Goto(p, from, to)
  /\ fileLock[File(p)] = Nobody
  /\ fileLock' = [fileLock EXCEPT ![File(p)] = p]
  /\ UNCHANGED << rowVars, storeVars, quotaLock, readVars, localVars, queueVars, faults >>

BeginDelete(p) == LockFile(p, "deleteLock", "deleteTx")

\* Mutant: the chunks stay.
CommitDeleteRow(p) ==
  /\ Commit(p, "deleteTx", "done")
  /\ status' = [status EXCEPT ![File(p)] = "deleted"]
  /\ UNCHANGED chunks

\* markStoredFileDeleted, whatever the status is.
CommitDelete(p) ==
  /\ Commit(p, "deleteTx", "done")
  /\ status' = [status EXCEPT ![File(p)] = "deleted"]
  /\ chunks' = [chunks EXCEPT ![File(p)] = None]

-----------------------------------------------------------------------------
(***************************************************************************)
(* POST /api/files/:id/complete, DELETE /api/files/:id and                 *)
(* POST /api/files/:id/reindex.                                            *)
(***************************************************************************)

\* A call reads the row of its file and goes on to what it decides.
Accept(c, f, next) ==
  /\ Goto(c, "idle", next)
  /\ target' = [target EXCEPT ![c] = f]
  /\ UNCHANGED << rowVars, storeVars, lockVars, seen, job, queueVars, faults >>

Completable == {"uploading", "uploaded", "failed"}

CallComplete(c, f) == Accept(c, f, "head") /\ status[f] \in Completable
CallDelete(c, f) == Accept(c, f, "deleteObject") /\ f \in Live

\* Mutant: a file may be reindexed while it is uploading.
CallReindexEarly(c, f) == Accept(c, f, "enqueue") /\ f \in Live

CallReindex(c, f) == Accept(c, f, "enqueue") /\ f \in Live /\ status[f] # "uploading"

SetUploaded(c) ==
  /\ status' = [status EXCEPT ![target[c]] = "uploaded"]
  /\ actual' = [actual EXCEPT ![target[c]] = seen[c]]
  /\ UNCHANGED << expected, chunks, admitted >>

\* Mutant: the status the row has by now is not looked at.
MarkUploadedAlways(c) == Update(c, "mark", "enqueue") /\ SetUploaded(c)

\* Mutant: a repeated completion counts as already enqueued.
MarkUploadedOnce(c) ==
  /\ Update(c, "mark", IF status[target[c]] = "uploading" THEN "enqueue" ELSE "done")
  /\ status[target[c]] \in Completable
  /\ SetUploaded(c)

\* markStoredFileUploaded; 409 if the status has moved on since it was read.
MarkUploaded(c) ==
  \/ /\ Update(c, "mark", "enqueue")
     /\ status[target[c]] \in Completable
     /\ SetUploaded(c)
  \/ Skip(c, "mark", "done") /\ status[target[c]] \notin Completable

\* enqueueFileIngestion
Enqueue(c) ==
  /\ Goto(c, "enqueue", "done")
  /\ \E j \in Jobs :
       /\ queue[j] = "free"
       /\ queue' = [queue EXCEPT ![j] = "queued"]
       /\ jobFile' = [jobFile EXCEPT ![j] = target[c]]
       /\ retries' = [retries EXCEPT ![j] = 0]
  /\ UNCHANGED << rowVars, storeVars, lockVars, localVars, faults >>

\* The queue is unavailable: 503, and the file stays as it is.
EnqueueFails(c) == Fault(c, "enqueue", "done")

\* The end of a completion whose object was rejected: 422.
RejectUpload(c) == Update(c, "rejectMark", "done") /\ MarkFailed(target[c])

\* The object goes first; if that fails the row stays (503).
DeleteObject(c) ==
  /\ Goto(c, "deleteObject", "deleteLock")
  /\ object' = [object EXCEPT ![target[c]] = None]
  /\ UNCHANGED << rowVars, puts, swapped, lockVars, localVars, queueVars, faults >>

DeleteObjectFails(c) == Fault(c, "deleteObject", "done")

-----------------------------------------------------------------------------
(***************************************************************************)
(* The worker: processFileJob, and what the queue does around it.          *)
(***************************************************************************)

\* The queue hands out a job unless another one of the same file is active.
Fetch(w, j) ==
  /\ Goto(w, "idle", "read")
  /\ queue[j] = "queued"
  /\ \A i \in Jobs : queue[i] = "active" => jobFile[i] # jobFile[j]
  /\ queue' = [queue EXCEPT ![j] = "active"]
  /\ job' = [job EXCEPT ![w] = j]
  /\ target' = [target EXCEPT ![w] = jobFile[j]]
  /\ UNCHANGED << rowVars, storeVars, lockVars, seen, jobFile, retries, faults >>

Completed(j) ==
  /\ queue' = [queue EXCEPT ![j] = "free"]
  /\ UNCHANGED << jobFile, retries >>

\* Mutant: attempts are not counted.
RetriedAlways(j) ==
  /\ queue' = [queue EXCEPT ![j] = "queued"]
  /\ retries' = [retries EXCEPT ![j] = @ + 1]
  /\ UNCHANGED jobFile

\* The attempt threw or the job expired.
Failed(j) ==
  /\ \/ /\ retries[j] < RetryLimit
        /\ queue' = [queue EXCEPT ![j] = "queued"]
        /\ retries' = [retries EXCEPT ![j] = @ + 1]
     \/ /\ retries[j] >= RetryLimit
        /\ queue' = [queue EXCEPT ![j] = "dead"]
        /\ UNCHANGED retries
  /\ UNCHANGED jobFile

\* The worker is idle again.
Stop(w, from) ==
  /\ Goto(w, from, "idle")
  /\ target' = [target EXCEPT ![w] = Nobody]
  /\ seen' = [seen EXCEPT ![w] = None]
  /\ job' = [job EXCEPT ![w] = Nobody]
  /\ UNCHANGED storeVars

\* The outcome of a job that expired meanwhile is discarded.
Return(w, from) ==
  /\ Stop(w, from)
  /\ IF job[w] # Nobody THEN Completed(job[w]) ELSE UNCHANGED queueVars
  /\ UNCHANGED << lockVars, faults >>

Throw(w, from) ==
  /\ Stop(w, from)
  /\ IF job[w] # Nobody THEN Failed(job[w]) ELSE UNCHANGED queueVars
  /\ UNCHANGED << lockVars, faults >>

Processable == {"uploaded", "processing", "ready", "failed"}

\* The row is read: to be processed, gone (the job is skipped), or still
\* uploading (it throws, and no catch block marks the file; by
\* JobsFollowCompletion there is no such job).
ReadRow(w) ==
  \/ Skip(w, "read", "process") /\ status[target[w]] \in Processable
  \/ /\ pc[w] = "read"
     /\ status[target[w]] \notin Processable
     /\ IF status[target[w]] = "uploading" THEN Throw(w, "read") ELSE Return(w, "read")
     /\ UNCHANGED rowVars

\* markStoredFileProcessing; the job is skipped if it matches no row.
MarkProcessing(w) ==
  \/ /\ Update(w, "process", "head")
     /\ status[target[w]] \in Processable
     /\ SetStatus(target[w], "processing")
  \/ Return(w, "process") /\ status[target[w]] \notin Processable /\ UNCHANGED rowVars

\* A rejected object is final for the job.
RejectFile(w) == Return(w, "rejectMark") /\ MarkFailed(target[w])

\* The object is read, extracted, chunked and embedded, or one of these fails
\* for a transient or a permanent reason.
ReadObject(w) == Look(w, "get", "indexLock") /\ object[target[w]] # None
ExtractionFails(w) == Skip(w, "get", "fail")

\* replaceDocumentChunks, first half: lock and look for the row.
BeginIndex(w) ==
  \/ LockFile(w, "indexLock", "indexTx") /\ target[w] \in Live
  \/ /\ Skip(w, "indexLock", "fail")
     /\ target[w] \notin Live
     /\ fileLock[target[w]] = Nobody

\* replaceDocumentChunks, second half: new chunks, and ready whatever the
\* status was.
CommitIndex(w) ==
  /\ Commit(w, "indexTx", "usage")
  /\ chunks' = [chunks EXCEPT ![target[w]] = seen[w]]
  /\ status' = [status EXCEPT ![target[w]] = "ready"]

\* recordUsage, inside the same try block.
RecordUsage(w) == Return(w, "usage") /\ UNCHANGED rowVars
RecordUsageFails(w) == Fault(w, "usage", "fail")

\* The catch block: mark the file failed and rethrow, for the queue to retry.
FailFile(w) == Throw(w, "fail") /\ MarkFailed(target[w])

-----------------------------------------------------------------------------
(***************************************************************************)
(* Crashes and timeouts.                                                   *)
(***************************************************************************)

\* The open transaction of a handler that dies is rolled back.
Rollback(p) ==
  /\ Faulty
  /\ quotaLock' = IF quotaLock = p THEN Nobody ELSE quotaLock
  /\ fileLock' = [f \in Files |-> IF fileLock[f] = p THEN Nobody ELSE fileLock[f]]
  /\ UNCHANGED << rowVars, readVars, queueVars >>

\* A web handler dies or throws outside its try blocks.
CrashRequest(p) ==
  /\ pc[p] \notin {"idle", "issued", "done"}
  /\ pc' = [pc EXCEPT ![p] = "done"]
  /\ Rollback(p)
  /\ UNCHANGED << storeVars, localVars >>

\* A worker dies.  Its job stays active until it expires.
CrashWorker(w) ==
  /\ pc[w] # "idle"
  /\ Stop(w, pc[w])
  /\ Rollback(w)

\* Mutant: an expired job is dropped.
ExpireDropped(j) ==
  /\ queue[j] = "active" /\ \A w \in Workers : job[w] # j
  /\ Completed(j)
  /\ UNCHANGED << rowVars, storeVars, lockVars, pc, localVars, faults >>

\* The job of a crashed worker expires.
Expire(j) ==
  /\ queue[j] = "active" /\ \A w \in Workers : job[w] # j
  /\ Failed(j)
  /\ UNCHANGED << rowVars, storeVars, lockVars, pc, localVars, faults >>

\* A job expires under a slow worker, which goes on without it.
Timeout(w) ==
  /\ job[w] # Nobody
  /\ Failed(job[w])
  /\ job' = [job EXCEPT ![w] = Nobody]
  /\ Faulty
  /\ UNCHANGED << rowVars, storeVars, lockVars, pc, target, seen >>

-----------------------------------------------------------------------------
Upload(f) ==
  \/ StartUpload(f)
  \/ BeginQuota(f)
  \/ CommitQuota(f)
  \/ IssueUrl(f)

Reject(p) == HeadInvalid(p) \/ RejectObject(p)
Delete(p) == BeginDelete(p) \/ CommitDelete(p)

Call(c) ==
  \/ \E f \in Files : CallComplete(c, f) \/ CallDelete(c, f) \/ CallReindex(c, f)
  \/ HeadValid(c, "mark")
  \/ MarkUploaded(c)
  \/ Enqueue(c)
  \/ RejectUpload(c)
  \/ DeleteObject(c)

Work(w) ==
  \/ \E j \in Jobs : Fetch(w, j)
  \/ ReadRow(w)
  \/ MarkProcessing(w)
  \/ HeadValid(w, "get")
  \/ RejectFile(w)
  \/ ReadObject(w)
  \/ ExtractionFails(w)
  \/ BeginIndex(w)
  \/ CommitIndex(w)
  \/ RecordUsage(w)
  \/ FailFile(w)

Failure ==
  \/ \E f \in Files : PresignFails(f)
  \/ \E p \in Calls \cup Workers : HeadFails(p)
  \/ \E c \in Calls : EnqueueFails(c) \/ DeleteObjectFails(c)
  \/ \E w \in Workers : RecordUsageFails(w) \/ CrashWorker(w) \/ Timeout(w)
  \/ \E p \in Files \cup Calls : CrashRequest(p)

Next ==
  \/ \E f \in Files : Upload(f) \/ Put(f)
  \/ \E c \in Calls : Call(c)
  \/ \E w \in Workers : Work(w)
  \/ \E p \in Calls \cup Workers : Reject(p)
  \/ \E p \in Files \cup Calls : Delete(p)
  \/ \E j \in Jobs : Expire(j)
  \/ Failure

Spec == Init /\ [][Next]_vars

(***************************************************************************)
(* A handler that runs goes on, the queue hands out its jobs and expires   *)
(* abandoned ones.  Clients need not do anything.                          *)
(***************************************************************************)
Fairness ==
  /\ \A f \in Files : WF_vars(Upload(f) /\ pc[f] # "idle")
  /\ \A c \in Calls : WF_vars(Call(c) /\ pc[c] # "idle")
  /\ \A w \in Workers : WF_vars(Work(w))
  /\ \A p \in Calls \cup Workers : WF_vars(Reject(p))
  /\ \A p \in Files \cup Calls : WF_vars(Delete(p))
  /\ \A j \in Jobs : WF_vars(Expire(j))

FairSpec == Spec /\ Fairness
-----------------------------------------------------------------------------
(***************************************************************************)
(* Properties.                                                             *)
(***************************************************************************)
UploadPosition == {"idle", "quotaLock", "quotaTx", "presign", "issued",
                   "deleteLock", "deleteTx", "done"}
CallPosition == {"idle", "head", "reject", "rejectMark", "mark", "enqueue",
                 "deleteObject", "deleteLock", "deleteTx", "done"}
WorkPosition == {"idle", "read", "process", "head", "reject", "rejectMark",
                 "get", "indexLock", "indexTx", "usage", "fail"}

PositionsTyped ==
  /\ pc \in [Handlers -> UploadPosition \cup CallPosition \cup WorkPosition]
  /\ \A f \in Files : pc[f] \in UploadPosition
  /\ \A c \in Calls : pc[c] \in CallPosition
  /\ \A w \in Workers : pc[w] \in WorkPosition

\* A call or worker that runs, and a job in the queue, has a file; a worker
\* has an active job, and no other worker has it too.
TargetsTyped ==
  /\ \A p \in Calls \cup Workers : pc[p] # "idle" => target[p] \in Files
  /\ \A j \in Jobs : queue[j] # "free" => jobFile[j] \in Files
  /\ \A w \in Workers : job[w] # Nobody => queue[job[w]] = "active"
  /\ \A v, w \in Workers : job[v] = job[w] /\ job[v] # Nobody => v = w

\* Type invariant of the rows, the locks, the handlers and the queue; bytesRead
\* is a sum of what actual and expected hold.
TypeOK ==
  /\ status \in [Files -> Statuses]
  /\ expected \in [Files -> Sizes \cup {None}]
  /\ actual \in [Files -> Sizes \cup {None}]
  /\ chunks \in [Files -> Sizes \cup {None}]
  /\ admitted \in [Files -> Plans]
  /\ object \in [Files -> Sizes \cup {None}]
  /\ puts \in [Files -> 0 .. MaxPuts]
  /\ swapped \subseteq Files
  /\ quotaLock \in Files \cup {Nobody}
  /\ countRead \in [Files -> Nat]
  /\ fileLock \in [Files -> Handlers \cup {Nobody}]
  /\ PositionsTyped
  /\ TargetsTyped
  /\ target \in [Calls \cup Workers -> Files \cup {Nobody}]
  /\ seen \in [Calls \cup Workers -> Sizes \cup {None}]
  /\ job \in [Workers -> Jobs \cup {Nobody}]
  /\ queue \in [Jobs -> {"free", "queued", "active", "dead"}]
  /\ jobFile \in [Jobs -> Files \cup {Nobody}]
  /\ retries \in [Jobs -> 0 .. RetryLimit]
  /\ faults \in 0 .. MaxFaults

\* The quota: any set of stored files, and so all of them together, is within
\* the limits of the plan under which the last of the set was admitted, even
\* if uploads are initialized concurrently, plans change, files are deleted
\* and declared sizes give way to measured ones.
WithinQuota ==
  \A S \in (SUBSET Live) \ {{}} :
    \E f \in S :
      /\ Cardinality(S) <= FileLimit[admitted[f]]
      /\ MapThenSumSet(Bytes, S) <= ByteLimit[admitted[f]]

\* The half of it that counts files.
CountWithinQuota ==
  \A S \in (SUBSET Live) \ {{}} :
    \E f \in S : Cardinality(S) <= FileLimit[admitted[f]]

\* The index follows the rows: a ready file has chunks, and neither a deleted
\* file nor one that was never completed has any, although statuses are also
\* written by handlers that do not take the lock of the file.
IndexFollowsStatus ==
  \A f \in Files :
    /\ status[f] = "ready" => chunks[f] # None
    /\ status[f] \in {"none", "uploading", "deleted"} => chunks[f] = None

\* What is indexed passed validation, even if the client replaces the object,
\* except by a PUT that falls between the HEAD that validates it and the GET
\* that reads it, which the worker does not notice.
IndexIsValidated ==
  \A f \in Files : chunks[f] \in {None, expected[f]} \/ f \in swapped

\* A completed upload is not forgotten: it is waiting for a job, or for the
\* call that is about to enqueue one, or some call or worker failed.
AwaitedBy(f) ==
  \/ \E c \in Calls : pc[c] = "enqueue" /\ target[c] = f
  \/ \E j \in Jobs : queue[j] \in {"queued", "active"} /\ jobFile[j] = f

UploadNotForgotten ==
  \A f \in Files : status[f] = "uploaded" => AwaitedBy(f) \/ faults > 0

\* There is no job for a file before its upload was once completed.
JobsFollowCompletion ==
  \A j \in Jobs : queue[j] # "free" => status[jobFile[j]] \notin {"none", "uploading"}

\* A deleted file stays deleted, whatever is still running on it.
DeletedIsFinal ==
  [][\A f \in Files : status[f] = "deleted" => status'[f] = "deleted"]_vars

\* A valid object that was uploaded once is deleted only by a deletion: a
\* worker rejects an object because it is invalid, not because of a transient
\* failure.
WorkersKeepValidObjects ==
  [][\A w \in Workers :
       LET f == target[w]
       IN  RejectObject(w) /\ puts[f] <= 1 /\ object[f] = expected[f]
             => object'[f] = object[f]]_vars

\* Processing comes to an end: with another status, or with the job in the
\* dead-letter queue.
ProcessingEnds ==
  \A f \in Files :
    status[f] = "processing" ~>
      \/ status[f] # "processing"
      \/ \E j \in Jobs : queue[j] = "dead" /\ jobFile[j] = f

(***************************************************************************)
(* The inductive invariant behind IndexFollowsStatus, CountWithinQuota and *)
(* DeletedIsFinal.                                                         *)
(***************************************************************************)

\* A transaction past its lock still owns it.
LocksHeld ==
  /\ \A p \in Handlers : pc[p] \in {"deleteTx", "indexTx"} => fileLock[File(p)] = p
  /\ \A f \in Files : pc[f] = "quotaTx" => quotaLock = f

\* What was read under a lock, and what a handler read of a row before it, is
\* still true or on the safe side when it writes.
ReadsHold ==
  /\ \A f \in Files :
       /\ pc[f] \in {"idle", "quotaLock", "quotaTx"} => status[f] = "none"
       /\ pc[f] = "quotaTx" => Cardinality(Live) <= countRead[f]
  /\ \A p \in Handlers :
       pc[p] \in {"presign", "deleteObject", "deleteLock", "deleteTx"}
         => status[File(p)] # "none"
  /\ \A w \in Workers :
       /\ pc[w] \in {"indexLock", "indexTx"} => seen[w] \in Sizes
       /\ pc[w] = "indexTx" => target[w] \in Live

\* The inductive invariant: what a transaction relies on when it writes.
LifecycleInv ==
  /\ TypeOK
  /\ LocksHeld
  /\ ReadsHold
  /\ IndexFollowsStatus
  /\ CountWithinQuota

-----------------------------------------------------------------------------
(***************************************************************************)
(* The abstract quota.                                                     *)
(***************************************************************************)
Quota == INSTANCE StorageQuota
  WITH stored <- Live,
       size <- [f \in Files |-> IF f \in Live THEN Bytes(f) ELSE 0],
       removed <- {f \in Files : status[f] = "deleted"}

\* Whatever uploads, completions, workers and deletions overlap, the quota
\* behaves as if every row was checked and inserted in one step; a completion
\* that records the measured size does not change what a file counts, and
\* neither a worker nor a late completion brings a deleted file back.
ImplementsQuota == Quota!Spec
=============================================================================
