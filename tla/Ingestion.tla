------------------------------ MODULE Ingestion ------------------------------
(***************************************************************************)
(* The ingestion of one project's files: the Celery tasks that split files *)
(* into chunks and index chunks as vectors, the idempotency records that   *)
(* are to keep equal tasks from running twice, and the chunk and vector    *)
(* tables they write.                                                      *)
(*                                                                         *)
(* One chunk record stands for all the chunks one run wrote for one asset; *)
(* a page holds PageSize of them.  Without ORDER BY PostgreSQL returns the *)
(* rows in heap order, here the order of their ids.  A checksum never      *)
(* changes, so the assets alone tell idempotency keys apart.  Queues are   *)
(* unordered: several processes consume each of them, and tasks return.    *)
(***************************************************************************)
EXTENDS Naturals, Sequences, FiniteSets

CONSTANTS
    Assets,           \* the files that may be uploaded
    EmptyAssets,      \* those that yield no chunk
    Splits,           \* the values of chunk_size and overlap_size
    FileTasks,        \* ids of process_project_files tasks
    IndexTasks,       \* ids of index_project tasks
    FileSlots,        \* concurrency of the file worker
    IndexSlots,       \* concurrency of the index worker
    PageSize,         \* INDEX_PAGE_SIZE
    IndexMaxRetries,  \* INDEX_MAX_RETRIES
    MaxRetries,       \* max_retries of both tasks
    Faults,           \* the kinds of fault a run admits
    MaxFaults         \* bound: faults in one behaviour

FaultKinds ==
    { "crash",        \* a worker or its broker connection is lost
      "time_limit",   \* a task exceeds task_time_limit and is killed
      "error",        \* an await raises
      "connection",   \* an await raises a ConnectionError
      "mark",         \* recording a failure raises too
      "timeout",      \* indexing a batch exceeds INDEX_BATCH_TIMEOUT_SECONDS
      "rate_limit" }  \* the embedding provider answers 429

Tasks == FileTasks \cup IndexTasks

ASSUME TaskAssumption == FileTasks \cap IndexTasks = {} /\ "none" \notin Tasks
ASSUME AssetAssumption == EmptyAssets \subseteq Assets /\ "none" \notin Assets
ASSUME SizeAssumption == PageSize \in Nat \ {0} /\ IndexMaxRetries \in Nat \ {0} /\ MaxRetries \in Nat
ASSUME FaultAssumption == Faults \subseteq FaultKinds /\ MaxFaults \in Nat

VARIABLES
    assets,      \* the assets table
    task,        \* each task: where it is, its retries and its arguments
    work,        \* what a running task holds in memory
    executions,  \* the task_executions table
    chunks,      \* the chunks table
    lastChunk,   \* the last chunk_id given
    vectors,     \* the project's collection: the vectors of each chunk_id
    disturbed,   \* history: index tasks during whose run chunks were replaced
    faults       \* history: the kinds of the faults so far

vars == <<assets, task, work, executions, chunks, lastChunk, vectors, disturbed, faults>>
store == <<chunks, lastChunk, vectors, disturbed>>

-----------------------------------------------------------------------------
(* Tasks *)

None == "none"

Resting == {"idle", "chained", "queued", "succeeded", "failed"}
\* Past the claim: the exception handler would mark the execution FAILED.
Owning  == {"next_asset", "replace", "create", "next_page", "insert", "mark",
            "failing", "retrying"}
Places  == Resting \cup Owning \cup {"claim", "lookup", "return"}

Task == [at      : Places,
         retries : Nat,
         scope   : SUBSET Assets,            \* asset_id; {} is the whole project
         split   : Splits \cup {None},
         then    : IndexTasks \cup {None}]   \* the rest of the chain
NoTask == [at |-> "idle", retries |-> 0, scope |-> {}, split |-> None, then |-> None]

Key == [operation : {"PROCESS_ASSET", "PROCESS_PROJECT"}, about : (SUBSET Assets) \X Splits]
       \cup [operation : {"INDEX_PROJECT"}, about : IndexTasks]
FilesKey(t, files) ==
    [operation |-> IF task[t].scope = {} THEN "PROCESS_PROJECT" ELSE "PROCESS_ASSET",
     about |-> <<files, task[t].split>>]
FilesOf(k) == k.about[1]

Chunk == [id : Nat, asset : Assets]
FileWork  == [key : Key, todo : SUBSET Assets, asset : Assets \cup {None},
              old : SUBSET Chunk, wrote : BOOLEAN]
IndexWork == [page : Nat, batch : SUBSET Chunk, attempt : Nat]
NoWork == [page |-> 0, batch |-> {}, attempt |-> 0]

At(t, place) == task[t].at = place
Running(t)   == task[t].at \notin Resting
Goes(t, place) == task' = [task EXCEPT ![t].at = place]
Sets(t, w) == work' = [work EXCEPT ![t] = w]

KeyOf(t) == IF t \in FileTasks THEN work[t].key
            ELSE [operation |-> "INDEX_PROJECT", about |-> t]
Row(k) == {e \in executions : e.key = k}
Execution == [key : Key, owner : Tasks, status : {"RUNNING", "SUCCESS", "FAILED"}]
Execute(k, t, status) == [key |-> k, owner |-> t, status |-> status]

Fault(kind) == kind \in Faults /\ Len(faults) < MaxFaults /\ faults' = Append(faults, kind)
NoFault == UNCHANGED faults

\* A free process of the worker's pool takes a message of its queue.
SlotFree(pool, slots) == Cardinality({t \in pool : Running(t)}) < slots

-----------------------------------------------------------------------------
(* The API *)

Upload(a) ==
    /\ a \notin assets /\ assets' = assets \cup {a}
    /\ UNCHANGED <<task, work, executions, store>> /\ NoFault

\* process_endpoint, or the chain of process_and_push
SubmitFile(t, scope, split, then) ==
    /\ At(t, "idle")
    /\ then # None => At(then, "idle")
    /\ task' = [u \in Tasks |->
                  IF u = t THEN [at |-> "queued", retries |-> 0, scope |-> scope,
                                 split |-> split, then |-> then]
                  ELSE IF u = then THEN [task[u] EXCEPT !.at = "chained"] ELSE task[u]]
    /\ UNCHANGED <<assets, work, executions, store>> /\ NoFault

SubmitIndex(t) ==
    /\ At(t, "idle") /\ Goes(t, "queued")
    /\ UNCHANGED <<assets, work, executions, store>> /\ NoFault

-----------------------------------------------------------------------------
(* Claiming and ending an execution, for both tasks *)

\* INSERT ... ON CONFLICT DO NOTHING; a conflict sends the task elsewhere.
Claim(t, owning, conflicting) ==
    IF Row(KeyOf(t)) = {}
    THEN /\ executions' = executions \cup {Execute(KeyOf(t), t, "RUNNING")}
         /\ Goes(t, owning)
    ELSE UNCHANGED executions /\ Goes(t, conflicting)

\* Mutant: a record gets a status nobody reads.
MarkedCancelled(t, status) ==
    (executions \ {Execute(KeyOf(t), t, "RUNNING")}) \cup {Execute(KeyOf(t), t, "CANCELLED")}

\* Mutant: a failure is not recorded.
MarkedUnlessFailed(t, status) ==
    IF status = "FAILED" THEN executions
    ELSE (executions \ {Execute(KeyOf(t), t, "RUNNING")}) \cup {Execute(KeyOf(t), t, status)}

\* UPDATE ... WHERE execution_id AND status = 'RUNNING'
Marked(t, status) ==
    LET mine == Execute(KeyOf(t), t, "RUNNING")
    IN  IF mine \in executions
        THEN (executions \ {mine}) \cup {Execute(KeyOf(t), t, status)} ELSE executions

MarkSuccess(t) ==
    /\ At(t, "mark") /\ Goes(t, "return")
    /\ executions' = Marked(t, "SUCCESS")
    /\ UNCHANGED <<assets, work, store>> /\ NoFault

\* The task returns: Celery queues the next task of its chain and acknowledges.
Return(t) ==
    /\ At(t, "return") /\ Sets(t, NoWork)
    /\ task' = [u \in Tasks |->
                  IF u = t THEN [task[u] EXCEPT !.at = "succeeded"]
                  ELSE IF u = task[t].then THEN [task[u] EXCEPT !.at = "queued"] ELSE task[u]]
    /\ UNCHANGED <<assets, executions, store>> /\ NoFault

\* autoretry_for: a connection error or a timeout is retried, with the same task id.
RetriesLeft(t) == task[t].retries < MaxRetries
Again(t, retryable) == retryable /\ RetriesLeft(t)
GivesUp(t, retryable) ==
    /\ Sets(t, NoWork)
    /\ task' = [task EXCEPT
                  ![t].at = IF Again(t, retryable) THEN "queued" ELSE "failed",
                  ![t].retries = task[t].retries + IF Again(t, retryable) THEN 1 ELSE 0]

\* An exception rolls back the transaction; once claimed, the run is marked FAILED.
Raise(t) ==
    /\ Running(t) /\ task[t].at \notin {"failing", "retrying", "return"}
    /\ \E kind \in {"error", "connection"} :
          /\ Fault(kind)
          /\ IF task[t].at \in Owning
             THEN Goes(t, IF kind = "error" THEN "failing" ELSE "retrying") /\ UNCHANGED work
             ELSE GivesUp(t, kind = "connection")
    /\ UNCHANGED <<assets, executions, store>>

MarkFailed(t) ==
    /\ task[t].at \in {"failing", "retrying"}
    /\ \/ executions' = Marked(t, "FAILED") /\ NoFault
       \/ UNCHANGED executions /\ Fault("mark")
    /\ GivesUp(t, At(t, "retrying"))
    /\ UNCHANGED <<assets, store>>

-----------------------------------------------------------------------------
(* process_project_files *)

\* Loads the assets and computes the key; ValueError without files.
StartFile(t) ==
    LET files == IF task[t].scope = {} THEN assets ELSE task[t].scope \cap assets
    IN  /\ At(t, "queued") /\ SlotFree(FileTasks, FileSlots)
        /\ IF files = {} THEN GivesUp(t, FALSE)
           ELSE /\ Goes(t, "claim")
                /\ Sets(t, [key |-> FilesKey(t, files), todo |-> files, asset |-> None,
                            old |-> {}, wrote |-> FALSE])
        /\ UNCHANGED <<assets, executions, store>> /\ NoFault

ClaimFile(t) ==
    /\ At(t, "claim") /\ Claim(t, "next_asset", "lookup")
    /\ UNCHANGED <<assets, work, store>> /\ NoFault

\* Mutant: the task waits for the run that holds its key.
LookupWaits(t) ==
    /\ At(t, "lookup") /\ \A e \in Row(work[t].key) : e.status # "RUNNING"
    /\ IF Row(work[t].key) = {} THEN GivesUp(t, FALSE) ELSE Goes(t, "return") /\ UNCHANGED work
    /\ UNCHANGED <<assets, executions, store>> /\ NoFault

\* The record may have changed since the conflict, or may be gone.
Lookup(t) ==
    /\ At(t, "lookup")
    /\ IF \E e \in Row(work[t].key) : e.status \in {"SUCCESS", "RUNNING"}
       THEN Goes(t, "return") /\ UNCHANGED work
       ELSE GivesUp(t, FALSE)
    /\ UNCHANGED <<assets, executions, store>> /\ NoFault

SkipAsset(t, a) ==
    /\ At(t, "next_asset") /\ a \in work[t].todo \cap EmptyAssets
    /\ Sets(t, [work[t] EXCEPT !.todo = @ \ {a}])
    /\ UNCHANGED <<assets, task, executions, store>> /\ NoFault

\* The DELETE of replace_asset_chunks sees what is committed when it starts.
DeleteOld(t, a) ==
    /\ At(t, "next_asset") /\ a \in work[t].todo \ EmptyAssets
    /\ Goes(t, "replace")
    /\ Sets(t, [work[t] EXCEPT !.asset = a, !.old = {c \in chunks : c.asset = a}])
    /\ UNCHANGED <<assets, executions, store>> /\ NoFault

\* Rows of vectors reference chunks ON DELETE CASCADE.
Without(ids) == [i \in DOMAIN vectors \ ids |-> vectors[i]]

\* Mutant: the new chunks are lost.
ReplacedByNothing(t) == chunks \ work[t].old

Replaced(t) ==
    (chunks \ work[t].old) \cup {[id |-> lastChunk + 1, asset |-> work[t].asset]}

CommitReplace(t) ==
    /\ At(t, "replace") /\ Goes(t, "next_asset")
    /\ chunks' = Replaced(t) /\ lastChunk' = lastChunk + 1
    /\ vectors' = Without({c.id : c \in work[t].old})
    /\ disturbed' = IndexTasks
    /\ Sets(t, [work[t] EXCEPT !.todo = @ \ {work[t].asset}, !.asset = None,
                               !.old = {}, !.wrote = TRUE])
    /\ UNCHANGED <<assets, executions>> /\ NoFault

FilesDone(t) ==
    /\ At(t, "next_asset") /\ work[t].todo = {}
    /\ Goes(t, IF work[t].wrote THEN "mark" ELSE "failing")
    /\ UNCHANGED <<assets, work, executions, store>> /\ NoFault

-----------------------------------------------------------------------------
(* index_project *)

\* Counts the chunks; ValueError without any, before the claim.
StartIndex(t) ==
    /\ At(t, "queued") /\ SlotFree(IndexTasks, IndexSlots)
    /\ IF chunks = {} THEN GivesUp(t, FALSE) ELSE Goes(t, "claim") /\ UNCHANGED work
    /\ disturbed' = disturbed \ {t}
    /\ UNCHANGED <<assets, executions, chunks, lastChunk, vectors>> /\ NoFault

\* The key holds the task id: a retry or a redelivery raises RuntimeError.
ClaimIndex(t) ==
    /\ At(t, "claim") /\ Claim(t, "create", "failed")
    /\ UNCHANGED <<assets, work, store>> /\ NoFault

NoVectors == [i \in {} |-> 0]

\* create_collection drops the table, whatever do_reset asks.
CreateCollection(t) ==
    /\ At(t, "create") /\ Goes(t, "next_page")
    /\ vectors' = NoVectors
    /\ Sets(t, [page |-> 1, batch |-> {}, attempt |-> 1])
    /\ UNCHANGED <<assets, executions, chunks, lastChunk, disturbed>> /\ NoFault

\* Mutant: OFFSET page * PageSize.
PageOffByOne(p) == {c \in chunks : Cardinality({d \in chunks : d.id < c.id}) \div PageSize = p}

\* OFFSET (page - 1) * PageSize LIMIT PageSize
Page(p) == {c \in chunks : Cardinality({d \in chunks : d.id < c.id}) \div PageSize = p - 1}

ReadPage(t) ==
    LET batch == Page(work[t].page)
    IN  /\ At(t, "next_page")
        /\ Goes(t, IF batch = {} THEN "mark" ELSE "insert")
        /\ Sets(t, [work[t] EXCEPT !.batch = batch])
        /\ UNCHANGED <<assets, executions, store>> /\ NoFault

Count(i) == IF i \in DOMAIN vectors THEN vectors[i] ELSE 0
Inserted(t) ==
    LET ids == {c.id : c \in work[t].batch}
    IN  [i \in DOMAIN vectors \cup ids |-> Count(i) + IF i \in ids THEN 1 ELSE 0]

\* The foreign key of every row holds, or the transaction fails.
Insertable(t) == {c.id : c \in work[t].batch} \subseteq {c.id : c \in chunks}

InsertBatch(t) ==
    /\ At(t, "insert") /\ UNCHANGED <<assets, executions, chunks, lastChunk, disturbed>> /\ NoFault
    /\ IF Insertable(t)
       THEN /\ vectors' = Inserted(t) /\ Goes(t, "next_page")
            /\ Sets(t, [page |-> work[t].page + 1, batch |-> {}, attempt |-> 1])
       ELSE Goes(t, "failing") /\ UNCHANGED <<vectors, work>>

\* After the last attempt the error leaves _index_batch_with_retry.
Attempts(t, exhausted) ==
    IF work[t].attempt < IndexMaxRetries
    THEN Sets(t, [work[t] EXCEPT !.attempt = @ + 1]) /\ UNCHANGED task
    ELSE Goes(t, exhausted) /\ UNCHANGED work

\* Cancelled by the timeout, an insertion rolls back, or has just committed.
BatchTimesOut(t) ==
    /\ At(t, "insert") /\ Fault("timeout") /\ Attempts(t, "retrying")
    /\ UNCHANGED vectors \/ (Insertable(t) /\ vectors' = Inserted(t))
    /\ UNCHANGED <<assets, executions, chunks, lastChunk, disturbed>>

BatchLimited(t) ==
    /\ At(t, "insert") /\ Fault("rate_limit") /\ Attempts(t, "failing")
    /\ UNCHANGED <<assets, executions, store>>

-----------------------------------------------------------------------------
(* Maintenance and faults *)

\* Mutant: records of running executions age too.
DeletableAny(e) == TRUE

Deletable(e) == e.status \in {"SUCCESS", "FAILED"}

\* delete_old_executions: enough days have passed for some finished record.
Cleanup(e) ==
    /\ Deletable(e) /\ executions' = executions \ {e}
    /\ UNCHANGED <<assets, task, work, store>> /\ NoFault

\* Unacknowledged messages return to the queue when their worker is lost.
Crash(pool) ==
    /\ \E t \in pool : Running(t)
    /\ Fault("crash")
    /\ task' = [t \in Tasks |-> IF t \in pool /\ Running(t)
                                THEN [task[t] EXCEPT !.at = "queued"] ELSE task[t]]
    /\ work' = [t \in Tasks |-> IF t \in pool THEN NoWork ELSE work[t]]
    /\ UNCHANGED <<assets, executions, store>>

\* The hard time limit kills the process; Celery acknowledges the task as failed.
TimeLimit(t) ==
    /\ Running(t) /\ Fault("time_limit")
    /\ Goes(t, "failed") /\ Sets(t, NoWork)
    /\ UNCHANGED <<assets, executions, store>>

-----------------------------------------------------------------------------

Init ==
    /\ assets = {} /\ task = [t \in Tasks |-> NoTask] /\ work = [t \in Tasks |-> NoWork]
    /\ executions = {} /\ chunks = {} /\ lastChunk = 0 /\ vectors = NoVectors
    /\ disturbed = {} /\ faults = <<>>

FileStep(t) ==
    \/ ClaimFile(t) \/ Lookup(t) \/ CommitReplace(t) \/ FilesDone(t)
    \/ \E a \in Assets : SkipAsset(t, a) \/ DeleteOld(t, a)
IndexStep(t) ==
    \/ ClaimIndex(t) \/ CreateCollection(t) \/ ReadPage(t) \/ InsertBatch(t)
    \/ BatchTimesOut(t) \/ BatchLimited(t)
EndStep(t) == MarkSuccess(t) \/ MarkFailed(t) \/ Return(t)

Scopes == {{}} \cup {{a} : a \in Assets}
Api ==
    \/ \E a \in Assets : Upload(a)
    \/ \E t \in FileTasks, scope \in Scopes, split \in Splits, then \in IndexTasks \cup {None} :
          SubmitFile(t, scope, split, then)
    \/ \E t \in IndexTasks : SubmitIndex(t)

Next ==
    \/ Api
    \/ \E t \in FileTasks : StartFile(t) \/ FileStep(t)
    \/ \E t \in IndexTasks : StartIndex(t) \/ IndexStep(t)
    \/ \E t \in Tasks : EndStep(t) \/ Raise(t) \/ TimeLimit(t)
    \/ \E e \in executions : Cleanup(e)
    \/ Crash(FileTasks) \/ Crash(IndexTasks)

Spec == Init /\ [][Next]_vars

\* Workers keep consuming their queues, and what a task awaits returns or raises.
Fairness ==
    /\ \A t \in FileTasks  : SF_vars(StartFile(t)) /\ WF_vars(FileStep(t) \/ EndStep(t))
    /\ \A t \in IndexTasks : SF_vars(StartIndex(t)) /\ WF_vars(IndexStep(t) \/ EndStep(t))
FairSpec == Spec /\ Fairness

-----------------------------------------------------------------------------
(* Properties *)

FaultLog == {s \in Seq(FaultKinds) : Len(s) <= MaxFaults}
Happened(kind) == \E i \in DOMAIN faults : faults[i] = kind

\* Every variable has its type.
TypeOK ==
    /\ assets \subseteq Assets
    /\ task \in [Tasks -> Task]
    /\ work \in [Tasks -> FileWork \cup IndexWork]
    /\ executions \subseteq Execution
    /\ chunks \subseteq Chunk /\ lastChunk \in Nat
    /\ DOMAIN vectors \subseteq Nat /\ \A i \in DOMAIN vectors : vectors[i] \in Nat
    /\ disturbed \subseteq IndexTasks /\ faults \in FaultLog

\* While a task works, the record of its key is RUNNING and its own, so no two
\* tasks do the same work at once (try_start_execution: "Atomically creates and
\* claims a new RUNNING execution").
OneRunPerKey ==
    /\ \A e, f \in executions : e.key = f.key => e = f
    /\ \A t \in Tasks : task[t].at \in Owning => Execute(KeyOf(t), t, "RUNNING") \in executions

\* A record claims its key for the task that is doing the work, or is to do it.
ClaimIsLive(e) ==
    e.status = "RUNNING" =>
        \/ task[e.owner].at \in Owning /\ KeyOf(e.owner) = e.key
        \/ task[e.owner].at \in {"queued", "claim", "lookup"}

\* "Late acknowledgment prevents task loss on worker crash": the work a lost worker
\* had claimed is done in the end, or is given up openly.
ClaimedWorkIsDone == \A e \in executions : ClaimIsLive(e)

\* What the code does achieve: a claim is left behind only by a run that died or
\* whose failure could not be recorded.
AbandonedClaimNeedsDeadRun ==
    ClaimedWorkIsDone \/ Happened("crash") \/ Happened("time_limit") \/ Happened("mark")

\* A cached result is true: when a record says SUCCESS, every file it names has
\* chunks in the store, whoever replaced them since.
SuccessMeansChunks ==
    \A e \in executions : e.status = "SUCCESS" /\ e.key.operation # "INDEX_PROJECT" =>
        \A a \in FilesOf(e.key) \ EmptyAssets : \E c \in chunks : c.asset = a

\* An index run that ends well, and under which no chunks were replaced, leaves
\* every chunk with one vector; with more only if a batch had timed out.
IndexRunCoversChunks ==
    \A t \in IndexTasks : At(t, "mark") /\ t \notin disturbed =>
        \A c \in chunks : Count(c.id) = 1 \/ (Count(c.id) > 1 /\ Happened("timeout"))

\* Every task that was queued ends, whatever its retries, redeliveries and rivals.
TaskEnds == \A t \in Tasks : At(t, "queued") ~> task[t].at \in {"succeeded", "failed"}
==============================================================================
