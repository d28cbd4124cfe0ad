--------------------------- MODULE IngestionProofs ---------------------------
(***************************************************************************)
(* Proofs about Ingestion, for any number of files, tasks, processes and   *)
(* faults.                                                                 *)
(*                                                                         *)
(* A task that owns an execution has the RUNNING record of its key, which  *)
(* only it may change, so a key has one run.  A file task has written      *)
(* chunks for every file of its key it has taken off its list, and no step *)
(* of any task leaves a file without chunks, so a cached success is true.  *)
(***************************************************************************)
EXTENDS Ingestion, TLAPS

FilePlaces  == {"idle", "queued", "succeeded", "failed", "claim", "lookup", "next_asset",
                "replace", "mark", "failing", "retrying", "return"}
IndexPlaces == {"idle", "chained", "queued", "succeeded", "failed", "claim", "create",
                "next_page", "insert", "mark", "failing", "retrying", "return"}

\* Where each kind of task may be, and what it holds there.
Placed(t) ==
    /\ t \in FileTasks =>
          /\ task[t].at \in FilePlaces
          /\ task[t].at # "idle" => task[t].split \in Splits
          /\ Running(t) => work[t] \in FileWork
    /\ t \in IndexTasks => task[t].at \in IndexPlaces /\ work[t] \in IndexWork

HasChunk(a) == \E c \in chunks : c.asset = a

\* The files a run is done with have chunks.
Progress(t) ==
    t \in FileTasks =>
        /\ task[t].at \in {"claim", "next_asset", "replace", "mark"} =>
              \A a \in FilesOf(work[t].key) \ (work[t].todo \cup EmptyAssets) : HasChunk(a)
        /\ At(t, "replace") =>
              work[t].asset \in Assets /\ \A c \in work[t].old : c.asset = work[t].asset
        /\ At(t, "mark") => work[t].todo = {}

Owns(t) == task[t].at \in Owning => Execute(KeyOf(t), t, "RUNNING") \in executions
KeysUnique == \A e, f \in executions : e.key = f.key => e = f

StoreType ==
    /\ assets \subseteq Assets
    /\ chunks \subseteq Chunk /\ lastChunk \in Nat
    /\ DOMAIN vectors \subseteq Nat /\ \A i \in DOMAIN vectors : vectors[i] \in Nat
    /\ disturbed \subseteq IndexTasks /\ faults \in FaultLog

IInv ==
    /\ TypeOK
    /\ \A t \in Tasks : Placed(t) /\ Progress(t) /\ Owns(t)
    /\ KeysUnique /\ SuccessMeansChunks

-----------------------------------------------------------------------------
(* Types *)

LEMMA PlaceNames ==
  /\ FilePlaces \subseteq Places /\ IndexPlaces \subseteq Places
  /\ Owning \subseteq Places /\ Resting \cap Owning = {}
  BY DEF FilePlaces, IndexPlaces, Places, Owning, Resting

\* The key a running task claims is a key; an index task's names the task.
LEMMA KeyType ==
  ASSUME NEW t \in Tasks, Placed(t), Running(t)
  PROVE  /\ KeyOf(t) \in Key
         /\ t \in IndexTasks => KeyOf(t).operation = "INDEX_PROJECT"
         /\ t \in FileTasks => KeyOf(t) = work[t].key
<1>1. CASE t \in FileTasks
  BY <1>1, TaskAssumption DEF KeyOf, Placed, FileWork
<1>2. CASE t \in IndexTasks
  BY <1>2, TaskAssumption DEF KeyOf, Key
<1>. QED
  BY <1>1, <1>2 DEF Tasks

\* Only t changes, and not its arguments.
Moves(t) ==
    /\ task' \in [Tasks -> Task] /\ work' \in [Tasks -> FileWork \cup IndexWork]
    /\ \A u \in Tasks \ {t} : task'[u] = task[u] /\ work'[u] = work[u]
    /\ task'[t].split = task[t].split /\ task'[t].then = task[t].then

LEMMA NoWorkType == NoWork \in IndexWork
  BY DEF NoWork, IndexWork

LEMMA GoesEffect ==
  ASSUME TypeOK, NEW t \in Tasks, NEW p \in Places, Goes(t, p)
  PROVE  /\ task' \in [Tasks -> Task] /\ task'[t].at = p
         /\ task'[t].split = task[t].split /\ task'[t].then = task[t].then
         /\ \A u \in Tasks \ {t} : task'[u] = task[u]
<1>1. task[t] \in Task
  BY DEF TypeOK
<1>2. [task[t] EXCEPT !.at = p] \in Task
  BY <1>1 DEF Task
<1>3. task' = [task EXCEPT ![t] = [task[t] EXCEPT !.at = p]]
  BY DEF Goes
<1>4. task'[t] = [task[t] EXCEPT !.at = p]
  BY <1>3 DEF TypeOK
<1>5. task'[t].at = p /\ task'[t].split = task[t].split /\ task'[t].then = task[t].then
  BY <1>1, <1>4 DEF Task
<1>. QED
  BY <1>2, <1>3, <1>5 DEF TypeOK

LEMMA SetsEffect ==
  ASSUME TypeOK, NEW t \in Tasks, NEW w \in FileWork \cup IndexWork, Sets(t, w)
  PROVE  /\ work' \in [Tasks -> FileWork \cup IndexWork] /\ work'[t] = w
         /\ \A u \in Tasks \ {t} : work'[u] = work[u]
  BY DEF Sets, TypeOK

\* A task that moves and keeps what it holds.
LEMMA GoesMoves ==
  ASSUME TypeOK, NEW t \in Tasks, NEW p \in Places, Goes(t, p), UNCHANGED work
  PROVE  Moves(t) /\ task'[t].at = p /\ work'[t] = work[t]
  BY GoesEffect DEF Moves, TypeOK

LEMMA GoesSetsMoves ==
  ASSUME TypeOK, NEW t \in Tasks, NEW p \in Places, NEW w \in FileWork \cup IndexWork,
         Goes(t, p), Sets(t, w)
  PROVE  Moves(t) /\ task'[t].at = p /\ work'[t] = w
  BY GoesEffect, SetsEffect DEF Moves

LEMMA SetsMoves ==
  ASSUME TypeOK, NEW t \in Tasks, NEW w \in FileWork \cup IndexWork, Sets(t, w), UNCHANGED task
  PROVE  Moves(t) /\ task'[t].at = task[t].at /\ work'[t] = w
  BY SetsEffect DEF Moves, TypeOK

\* A task that gives up forgets its work and is queued again or failed.
LEMMA GivesUpMoves ==
  ASSUME TypeOK, NEW t \in Tasks, NEW retryable \in BOOLEAN, GivesUp(t, retryable)
  PROVE  Moves(t) /\ task'[t].at \in {"queued", "failed"} /\ work'[t] = NoWork
<1>1. task[t] \in Task /\ task[t].retries \in Nat
  BY DEF TypeOK, Task
<1>. DEFINE p == IF Again(t, retryable) THEN "queued" ELSE "failed"
            n == task[t].retries + IF Again(t, retryable) THEN 1 ELSE 0
            x == [task[t] EXCEPT !.at = p, !.retries = n]
<1>2. task' = [task EXCEPT ![t] = x]
  BY DEF GivesUp, TypeOK
<1>3. /\ x \in Task /\ x.at \in {"queued", "failed"}
      /\ x.split = task[t].split /\ x.then = task[t].then
  <2>1. p \in Places /\ p \in {"queued", "failed"} /\ n \in Nat
    BY <1>1 DEF Places, Resting
  <2>. HIDE DEF p, n
  <2>. QED
    BY <1>1, <2>1 DEF Task
<1>4. task'[t] = x /\ \A u \in Tasks \ {t} : task'[u] = task[u]
  BY <1>2 DEF TypeOK
<1>5. task' \in [Tasks -> Task]
  BY <1>2, <1>3 DEF TypeOK
<1>6. Sets(t, NoWork)
  BY DEF GivesUp
<1>. QED
  BY <1>3, <1>4, <1>5, <1>6, SetsEffect, NoWorkType DEF Moves

LEMMA FaultType ==
  ASSUME TypeOK, NoFault \/ \E kind : Fault(kind) PROVE faults' \in FaultLog
<1>1. faults \in Seq(FaultKinds) /\ Len(faults) <= MaxFaults
  BY DEF TypeOK, FaultLog
<1>2. CASE NoFault
  BY <1>1, <1>2 DEF NoFault, FaultLog
<1>3. ASSUME NEW kind, Fault(kind) PROVE faults' \in FaultLog
  <2>1. faults' = Append(faults, kind) /\ Len(faults) < MaxFaults /\ kind \in FaultKinds
    BY <1>3, FaultAssumption DEF Fault
  <2>2. MaxFaults \in Nat
    BY FaultAssumption
  <2>3. Append(faults, kind) \in Seq(FaultKinds) /\ Len(Append(faults, kind)) = Len(faults) + 1
    BY <1>1, <2>1
  <2>. QED
    BY <1>1, <2>1, <2>2, <2>3 DEF FaultLog
<1>. QED
  BY <1>2, <1>3

-----------------------------------------------------------------------------
(* Steps of one task *)

\* What a step leaves to the tasks it is not about.
SparesOthers(t) ==
    /\ \A a \in Assets : HasChunk(a) => HasChunk(a)'
    /\ \A e \in executions : e.owner # t /\ e.status = "RUNNING" => e \in executions'

KeyKept(t) == KeyOf(t)' = KeyOf(t)

\* A task that keeps its place and its work keeps its part of the invariant.
LEMMA OtherKept ==
  ASSUME IInv, NEW t \in Tasks, NEW u \in Tasks, u # t, SparesOthers(t),
         task'[u] = task[u], work'[u] = work[u]
  PROVE  Placed(u)' /\ Progress(u)' /\ Owns(u)'
<1>1. Placed(u) /\ Progress(u) /\ Owns(u)
  BY DEF IInv
<1>2. Placed(u)'
  BY <1>1 DEF Placed, Running
<1>3. KeyOf(u)' = KeyOf(u)
  BY DEF KeyOf
<1>4. Owns(u)'
  <2>1. ASSUME task[u].at \in Owning PROVE Execute(KeyOf(u), u, "RUNNING") \in executions'
    BY <1>1, <2>1 DEF Owns, SparesOthers, Execute
  <2>. QED
    BY <1>3, <2>1 DEF Owns, Execute
<1>5. Progress(u)'
  <2>1. ASSUME u \in FileTasks, task[u].at \in {"claim", "next_asset", "replace", "mark"},
               NEW a \in FilesOf(work[u].key) \ (work[u].todo \cup EmptyAssets)
        PROVE  HasChunk(a)'
    <3>1. HasChunk(a)
      BY <1>1, <2>1 DEF Progress
    <3>2. a \in Assets
      BY <3>1 DEF HasChunk, IInv, TypeOK, Chunk
    <3>. QED
      BY <3>1, <3>2 DEF SparesOthers
  <2>. QED
    BY <1>1, <2>1 DEF Progress, At
<1>. QED
  BY <1>2, <1>4, <1>5

\* A step of one task preserves the invariant if it does so for that task.
LEMMA OneTaskKeeps ==
  ASSUME IInv, NEW t \in Tasks, Moves(t), SparesOthers(t),
         StoreType', executions' \subseteq Execution,
         Placed(t)', Progress(t)', Owns(t)', KeysUnique', SuccessMeansChunks'
  PROVE  IInv'
<1>1. ASSUME NEW u \in Tasks PROVE Placed(u)' /\ Progress(u)' /\ Owns(u)'
  <2>1. CASE u = t
    BY <2>1
  <2>2. CASE u # t
    BY <2>2, OtherKept DEF Moves
  <2>. QED
    BY <2>1, <2>2
<1>2. TypeOK'
  BY DEF Moves, StoreType, TypeOK
<1>. QED
  BY <1>1, <1>2 DEF IInv

LEMMA StoreTypes == ASSUME IInv PROVE StoreType /\ executions \subseteq Execution
  BY DEF IInv, TypeOK, StoreType

\* A step of one task that writes neither records nor chunks.
LEMMA QuietKeeps ==
  ASSUME IInv, NEW t \in Tasks, Moves(t), UNCHANGED <<executions, chunks>>,
         StoreType', Placed(t)', Progress(t)',
         task'[t].at \in Owning => task[t].at \in Owning /\ KeyKept(t)
  PROVE  IInv'
<1>1. \A a : HasChunk(a) <=> HasChunk(a)'
  BY DEF HasChunk
<1>2. SparesOthers(t)
  BY <1>1 DEF SparesOthers
<1>3. Owns(t)'
  BY DEF IInv, Owns, KeyKept, Execute
<1>4. KeysUnique' /\ SuccessMeansChunks'
  BY DEF IInv, KeysUnique, SuccessMeansChunks
<1>. QED
  BY <1>2, <1>3, <1>4, OneTaskKeeps, StoreTypes

\* The types of the store survive a step that leaves it alone.
LEMMA StoreKept ==
  ASSUME IInv, UNCHANGED assets, UNCHANGED store, NoFault \/ \E kind : Fault(kind)
  PROVE  StoreType'
  BY StoreTypes, FaultType DEF StoreType, store, IInv

\* A task that goes from one place to another of its kind, with its work.
LEMMA GoesKeeps ==
  ASSUME IInv, NEW t \in Tasks, NEW p \in Places, Goes(t, p), UNCHANGED work,
         UNCHANGED <<executions, chunks>>, StoreType',
         task[t].at # "idle",
         t \in FileTasks => p \in FilePlaces /\ (p \notin Resting => Running(t)),
         t \in IndexTasks => p \in IndexPlaces,
         p \in Owning => task[t].at \in Owning,
         Progress(t)'
  PROVE  IInv'
<1>1. Moves(t) /\ task'[t].at = p /\ work'[t] = work[t]
  BY GoesMoves DEF IInv
<1>2. Placed(t)
  BY DEF IInv
<1>3. Placed(t)'
  BY <1>1, <1>2 DEF Placed, Running, Moves
<1>4. KeyKept(t)
  BY <1>1 DEF KeyKept, KeyOf
<1>. QED
  BY <1>1, <1>3, <1>4, QuietKeeps

LEMMA GivesUpKeeps ==
  ASSUME IInv, NEW t \in Tasks, NEW retryable \in BOOLEAN, GivesUp(t, retryable),
         UNCHANGED <<executions, chunks>>, StoreType', task[t].at # "idle"
  PROVE  IInv'
<1>1. Moves(t) /\ task'[t].at \in {"queued", "failed"} /\ work'[t] = NoWork
  BY GivesUpMoves DEF IInv
<1>2. Placed(t)
  BY DEF IInv
<1>3. Placed(t)'
  BY <1>1, <1>2, NoWorkType DEF Placed, Running, Moves, Resting, FilePlaces, IndexPlaces
<1>4. Progress(t)' /\ task'[t].at \notin Owning
  BY <1>1 DEF Progress, At, Owning
<1>. QED
  BY <1>1, <1>3, <1>4, QuietKeeps

-----------------------------------------------------------------------------
(* process_project_files *)

LEMMA StartFileStep == ASSUME IInv, NEW t \in FileTasks, StartFile(t) PROVE IInv'
<1>0. t \in Tasks /\ TypeOK /\ StoreType'
  BY StoreKept DEF Tasks, StartFile, IInv
<1>. DEFINE files == IF task[t].scope = {} THEN assets ELSE task[t].scope \cap assets
            w == [key |-> FilesKey(t, files), todo |-> files, asset |-> None,
                  old |-> {}, wrote |-> FALSE]
<1>1. CASE files = {}
  <2>1. GivesUp(t, FALSE) /\ UNCHANGED <<executions, chunks>> /\ task[t].at # "idle"
    BY <1>1 DEF StartFile, At, store
  <2>. QED
    BY <1>0, <2>1, GivesUpKeeps
<1>2. CASE files # {}
  <2>1. Goes(t, "claim") /\ Sets(t, w) /\ UNCHANGED <<executions, chunks>> /\ task[t].at = "queued"
    BY <1>2 DEF StartFile, At, store
  <2>2. files \subseteq Assets
    BY <1>0 DEF TypeOK
  <2>3. task[t].split \in Splits
    BY <1>0, <2>1 DEF IInv, Placed
  <2>4. FilesKey(t, files) \in Key
    BY <2>2, <2>3 DEF FilesKey, Key
  <2>9. FilesOf(FilesKey(t, files)) = files
    BY DEF FilesKey, FilesOf
  <2>. HIDE DEF files
  <2>5. w \in FileWork
    BY <2>2, <2>4 DEF FileWork
  <2>6. "claim" \in Places /\ "claim" \in FilePlaces /\ "claim" \notin Owning
    BY DEF Places, FilePlaces, Owning
  <2>7. Moves(t) /\ task'[t].at = "claim" /\ work'[t] = w
    BY <1>0, <2>1, <2>5, <2>6, GoesSetsMoves
  <2>8. Placed(t)'
    BY <2>3, <2>5, <2>6, <2>7, TaskAssumption DEF Placed, Moves
  <2>10. Progress(t)'
    BY <2>7, <2>9 DEF Progress, At
  <2>. QED
    BY <1>0, <2>1, <2>6, <2>7, <2>8, <2>10, QuietKeeps
<1>. QED
  BY <1>1, <1>2

\* Both claims: a free key gets the task's RUNNING record, a taken one sends it off.
LEMMA ClaimKeeps ==
  ASSUME IInv, NEW t \in Tasks, At(t, "claim"), UNCHANGED <<work, chunks>>, StoreType',
         NEW owning \in Owning, NEW conflicting \in Places \ Owning,
         Claim(t, owning, conflicting),
         t \in FileTasks => {owning, conflicting} \subseteq FilePlaces,
         t \in IndexTasks => {owning, conflicting} \subseteq IndexPlaces,
         Progress(t)'
  PROVE  IInv'
<1>0. TypeOK /\ Placed(t) /\ Running(t) /\ task[t].at = "claim" /\ owning \in Places
  BY PlaceNames DEF IInv, At, Running, Resting
<1>1. CASE Row(KeyOf(t)) = {}
  <2>. DEFINE r == Execute(KeyOf(t), t, "RUNNING")
  <2>1. executions' = executions \cup {r} /\ Goes(t, owning)
    BY <1>1 DEF Claim
  <2>2. Moves(t) /\ task'[t].at = owning /\ work'[t] = work[t]
    BY <1>0, <2>1, GoesMoves
  <2>3. Placed(t)'
    BY <1>0, <2>2 DEF Placed, Running, Moves
  <2>4. KeyOf(t)' = KeyOf(t)
    BY <2>2 DEF KeyOf
  <2>5. Owns(t)'
    BY <2>1, <2>4 DEF Owns, Execute
  <2>6. r \in Execution /\ r.key = KeyOf(t) /\ r.status = "RUNNING"
    BY <1>0, KeyType DEF Execute, Execution
  <2>. HIDE DEF r
  <2>7. KeysUnique'
    BY <1>1, <2>1, <2>6 DEF IInv, KeysUnique, Row
  <2>8. \A a : HasChunk(a) <=> HasChunk(a)'
    BY DEF HasChunk
  <2>9. SuccessMeansChunks'
    BY <2>1, <2>6 DEF IInv, SuccessMeansChunks
  <2>10. SparesOthers(t)
    BY <2>1, <2>8 DEF SparesOthers
  <2>. QED
    BY <2>1, <2>2, <2>3, <2>5, <2>6, <2>7, <2>9, <2>10, OneTaskKeeps, StoreTypes
<1>2. CASE Row(KeyOf(t)) # {}
  <2>1. UNCHANGED executions /\ Goes(t, conflicting)
    BY <1>2 DEF Claim
  <2>. QED
    BY <1>0, <2>1, GoesKeeps
<1>. QED
  BY <1>1, <1>2

LEMMA ClaimFileStep == ASSUME IInv, NEW t \in FileTasks, ClaimFile(t) PROVE IInv'
<1>0. t \in Tasks /\ TypeOK /\ StoreType' /\ At(t, "claim") /\ UNCHANGED <<work, chunks>>
      /\ Claim(t, "next_asset", "lookup")
  BY StoreKept DEF Tasks, ClaimFile, IInv, store
<1>1. {"next_asset", "lookup"} \subseteq FilePlaces /\ "next_asset" \in Owning
      /\ "lookup" \in Places \ Owning
  BY DEF FilePlaces, Owning, Places
<1>2. task'[t].at \in {"next_asset", "lookup"}
  BY <1>0, <1>1, GoesEffect, PlaceNames DEF Claim
<1>3. \A a : HasChunk(a) <=> HasChunk(a)'
  BY <1>0 DEF HasChunk
<1>4. Progress(t)'
  BY <1>0, <1>2, <1>3 DEF IInv, Progress, At
<1>. QED
  BY <1>0, <1>1, <1>4, ClaimKeeps, TaskAssumption

LEMMA LookupStep == ASSUME IInv, NEW t \in FileTasks, Lookup(t) PROVE IInv'
<1>0. /\ t \in Tasks /\ t \notin IndexTasks /\ StoreType'
      /\ UNCHANGED <<executions, chunks>> /\ task[t].at = "lookup"
  BY StoreKept, TaskAssumption DEF Tasks, Lookup, At, store
<1>1. CASE GivesUp(t, FALSE)
  BY <1>0, <1>1, GivesUpKeeps
<1>2. CASE Goes(t, "return") /\ UNCHANGED work
  <2>1. /\ "return" \in Places /\ "return" \in FilePlaces /\ "return" \notin Owning
        /\ Running(t)
    BY <1>0 DEF Places, FilePlaces, Owning, Running, Resting
  <2>2. task'[t].at = "return"
    BY <1>0, <1>2, <2>1, GoesEffect DEF IInv
  <2>3. Progress(t)'
    BY <2>2 DEF Progress, At
  <2>. QED
    BY <1>0, <1>2, <2>1, <2>3, GoesKeeps
<1>. QED
  BY <1>1, <1>2 DEF Lookup

\* What a file task that loops over its files holds.
LEMMA LoopFacts ==
  ASSUME IInv, NEW t \in FileTasks, task[t].at \in {"next_asset", "replace", "mark"}
  PROVE  /\ t \in Tasks /\ t \notin IndexTasks /\ TypeOK
         /\ Running(t) /\ task[t].at \in Owning
         /\ work[t] \in FileWork /\ KeyOf(t) = work[t].key
         /\ FilesOf(work[t].key) = FilesOf(KeyOf(t))
         /\ Placed(t) /\ Progress(t) /\ Owns(t)
  BY TaskAssumption DEF IInv, Tasks, Running, Resting, Owning, Placed, KeyOf

\* A change of what is left to do that keeps the key.
LEMMA WorkKeeps ==
  ASSUME IInv, NEW t \in FileTasks, task[t].at \in {"next_asset", "replace"},
         NEW p \in {"next_asset", "replace"}, NEW w \in FileWork, w.key = work[t].key,
         task'[t].at = p, work'[t] = w, Moves(t),
         UNCHANGED <<executions, chunks>>, StoreType', Progress(t)'
  PROVE  IInv'
<1>1. Placed(t)'
  BY LoopFacts DEF Placed, FilePlaces, Moves
<1>2. KeyKept(t)
  BY DEF KeyKept, KeyOf
<1>. QED
  BY <1>1, <1>2, LoopFacts, QuietKeeps

LEMMA SkipAssetStep ==
  ASSUME IInv, NEW t \in FileTasks, NEW a \in Assets, SkipAsset(t, a) PROVE IInv'
<1>. DEFINE w == [work[t] EXCEPT !.todo = @ \ {a}]
<1>0. /\ task[t].at = "next_asset" /\ Sets(t, w) /\ UNCHANGED task /\ a \in EmptyAssets
      /\ UNCHANGED <<executions, chunks>> /\ StoreType'
  BY StoreKept DEF SkipAsset, At, store
<1>1. w \in FileWork /\ w.key = work[t].key /\ w.todo = work[t].todo \ {a}
  BY <1>0, LoopFacts DEF FileWork
<1>. HIDE DEF w
<1>2. Moves(t) /\ task'[t].at = "next_asset" /\ work'[t] = w
  BY <1>0, <1>1, LoopFacts, SetsMoves
<1>3. \A b : HasChunk(b) <=> HasChunk(b)'
  BY <1>0 DEF HasChunk
<1>4. Progress(t)'
  BY <1>0, <1>1, <1>2, <1>3, LoopFacts DEF Progress, At
<1>. QED
  BY <1>0, <1>1, <1>2, <1>4, WorkKeeps

LEMMA DeleteOldStep ==
  ASSUME IInv, NEW t \in FileTasks, NEW a \in Assets, DeleteOld(t, a) PROVE IInv'
<1>. DEFINE old == {c \in chunks : c.asset = a}
            w == [work[t] EXCEPT !.asset = a, !.old = old]
<1>0. /\ task[t].at = "next_asset" /\ Sets(t, w) /\ Goes(t, "replace")
      /\ UNCHANGED <<executions, chunks>> /\ StoreType'
  BY StoreKept DEF DeleteOld, At, store
<1>1. old \subseteq Chunk /\ \A c \in old : c.asset = a
  BY LoopFacts, <1>0 DEF TypeOK
<1>. HIDE DEF old
<1>2. /\ w \in FileWork /\ w.key = work[t].key /\ w.todo = work[t].todo
      /\ w.asset = a /\ w.old = old
  BY <1>0, <1>1, LoopFacts DEF FileWork
<1>. HIDE DEF w
<1>3. "replace" \in Places
  BY DEF Places, Owning
<1>4. Moves(t) /\ task'[t].at = "replace" /\ work'[t] = w
  BY <1>0, <1>2, <1>3, LoopFacts, GoesSetsMoves
<1>5. \A b : HasChunk(b) <=> HasChunk(b)'
  BY <1>0 DEF HasChunk
<1>6. Progress(t)'
  BY <1>0, <1>1, <1>2, <1>4, <1>5, LoopFacts DEF Progress, At
<1>. QED
  BY <1>0, <1>2, <1>4, <1>6, WorkKeeps

\* The files a commit replaces chunks of keep chunks, and so do all others.
LEMMA CommitReplaceStep ==
  ASSUME IInv, NEW t \in FileTasks, CommitReplace(t) PROVE IInv'
<1>a. PICK b : b = work[t].asset
  OBVIOUS
<1>. DEFINE new == [id |-> lastChunk + 1, asset |-> b]
            w == [work[t] EXCEPT !.todo = @ \ {b}, !.asset = None, !.old = {}, !.wrote = TRUE]
<1>0. /\ task[t].at = "replace" /\ Goes(t, "next_asset") /\ Sets(t, w)
      /\ chunks' = (chunks \ work[t].old) \cup {new} /\ UNCHANGED <<assets, executions, faults>>
      /\ lastChunk' = lastChunk + 1 /\ disturbed' = IndexTasks
      /\ vectors' = Without({c.id : c \in work[t].old})
  BY <1>a DEF CommitReplace, At, Replaced, NoFault
<1>1. b \in Assets /\ \A c \in work[t].old : c.asset = b
  BY <1>a, <1>0, LoopFacts DEF Progress, At
<1>2. new \in Chunk /\ new.asset = b
  BY <1>0, <1>1, LoopFacts DEF Chunk, TypeOK
<1>3. \A a : HasChunk(a) => HasChunk(a)'
  BY <1>0, <1>1, <1>2 DEF HasChunk
<1>4. HasChunk(b)'
  BY <1>0, <1>2 DEF HasChunk
<1>5. /\ w \in FileWork /\ w.key = work[t].key /\ w.todo = work[t].todo \ {b}
  BY <1>0, LoopFacts DEF FileWork
<1>6. StoreType'
  <2>1. chunks' \subseteq Chunk /\ lastChunk' \in Nat
    BY <1>0, <1>2, LoopFacts DEF TypeOK
  <2>2. DOMAIN vectors' \subseteq Nat /\ \A i \in DOMAIN vectors' : vectors'[i] \in Nat
    BY <1>0, LoopFacts DEF Without, TypeOK
  <2>. QED
    BY <1>0, <2>1, <2>2, LoopFacts DEF StoreType, TypeOK
<1>. HIDE DEF new, w
<1>7. "next_asset" \in Places
  BY DEF Places, Owning
<1>8. Moves(t) /\ task'[t].at = "next_asset" /\ work'[t] = w
  BY <1>0, <1>5, <1>7, LoopFacts, GoesSetsMoves
<1>9. Progress(t)'
  BY <1>0, <1>3, <1>4, <1>5, <1>8, LoopFacts DEF Progress, At
<1>10. Placed(t)'
  BY <1>0, <1>5, <1>8, LoopFacts DEF Placed, FilePlaces, Moves
<1>11. KeyOf(t)' = KeyOf(t)
  BY <1>5, <1>8 DEF KeyOf
<1>12. Owns(t)'
  BY <1>0, <1>11, LoopFacts DEF Owns, Execute
<1>13. SuccessMeansChunks'
  <2>1. SuccessMeansChunks /\ executions' = executions
    BY <1>0 DEF IInv
  <2>. QED
    BY <2>1, <1>3 DEF SuccessMeansChunks, HasChunk
<1>14. KeysUnique' /\ SparesOthers(t)
  BY <1>0, <1>3 DEF IInv, KeysUnique, SparesOthers
<1>. QED
  BY <1>0, <1>6, <1>8, <1>9, <1>10, <1>12, <1>13, <1>14, LoopFacts, StoreTypes, OneTaskKeeps

LEMMA FilesDoneStep == ASSUME IInv, NEW t \in FileTasks, FilesDone(t) PROVE IInv'
<1>0. /\ task[t].at = "next_asset" /\ work[t].todo = {} /\ UNCHANGED work
      /\ UNCHANGED <<executions, chunks>> /\ StoreType'
      /\ Goes(t, IF work[t].wrote THEN "mark" ELSE "failing")
  BY StoreKept DEF FilesDone, At, store
<1>1. PICK p \in {"mark", "failing"} : Goes(t, p)
  BY <1>0
<1>2. p \in Places /\ p \in FilePlaces /\ p \in Owning
  BY DEF Places, FilePlaces, Owning
<1>3. task'[t].at = p
  BY <1>1, <1>2, LoopFacts, <1>0, GoesEffect
<1>4. \A a : HasChunk(a) <=> HasChunk(a)'
  BY <1>0 DEF HasChunk
<1>5. Progress(t)'
  BY <1>0, <1>3, <1>4, LoopFacts DEF Progress, At
<1>. QED
  BY <1>0, <1>1, <1>2, <1>5, LoopFacts, GoesKeeps

-----------------------------------------------------------------------------
(* Ending a run *)

\* A run that marks its record leaves every other record alone.
LEMMA MarkedFacts ==
  ASSUME IInv, NEW t \in Tasks, task[t].at \in Owning,
         NEW status \in {"SUCCESS", "FAILED"}, executions' = Marked(t, status)
  PROVE  /\ executions' = (executions \ {Execute(KeyOf(t), t, "RUNNING")})
                             \cup {Execute(KeyOf(t), t, status)}
         /\ executions' \subseteq Execution /\ KeysUnique'
         /\ \A e \in executions : e.owner # t => e \in executions'
<1>. DEFINE mine == Execute(KeyOf(t), t, "RUNNING")
            r == Execute(KeyOf(t), t, status)
<1>1. mine \in executions
  BY DEF IInv, Owns
<1>2. executions' = (executions \ {mine}) \cup {r}
  BY <1>1 DEF Marked
<1>3. Running(t) /\ Placed(t)
  BY DEF Running, Resting, Owning, IInv
<1>4. mine.key = KeyOf(t) /\ r.key = KeyOf(t) /\ mine.owner = t /\ r \in Execution
  BY <1>3, KeyType DEF Execute, Execution
<1>. HIDE DEF mine, r
<1>5. executions' \subseteq Execution
  BY <1>2, <1>4 DEF IInv, TypeOK
<1>6. KeysUnique'
  BY <1>1, <1>2, <1>4 DEF IInv, KeysUnique
<1>7. \A e \in executions : e.owner # t => e \in executions'
  BY <1>2, <1>4
<1>. QED
  BY <1>2, <1>5, <1>6, <1>7 DEF mine, r

LEMMA MarkSuccessStep == ASSUME IInv, NEW t \in Tasks, MarkSuccess(t) PROVE IInv'
<1>0. /\ task[t].at = "mark" /\ Goes(t, "return") /\ executions' = Marked(t, "SUCCESS")
      /\ UNCHANGED <<work, chunks>> /\ StoreType'
  BY StoreKept DEF MarkSuccess, At, store
<1>1. task[t].at \in Owning /\ Running(t) /\ Placed(t) /\ TypeOK
  BY <1>0 DEF Owning, Running, Resting, IInv
<1>2. "return" \in Places /\ "return" \in FilePlaces /\ "return" \in IndexPlaces
      /\ "return" \notin Owning
  BY DEF Places, FilePlaces, IndexPlaces, Owning
<1>3. Moves(t) /\ task'[t].at = "return" /\ work'[t] = work[t]
  BY <1>0, <1>1, <1>2, GoesMoves
<1>4. Placed(t)' /\ Progress(t)' /\ Owns(t)'
  BY <1>1, <1>2, <1>3 DEF Placed, Running, Resting, Progress, At, Owns, Moves
<1>. DEFINE r == Execute(KeyOf(t), t, "SUCCESS")
<1>5. /\ executions' \subseteq Execution /\ KeysUnique'
      /\ executions' \subseteq executions \cup {r}
      /\ \A e \in executions : e.owner # t => e \in executions'
  BY <1>0, <1>1, MarkedFacts
<1>6. \A a : HasChunk(a) <=> HasChunk(a)'
  BY <1>0 DEF HasChunk
<1>7. r.key.operation # "INDEX_PROJECT" => \A a \in FilesOf(r.key) \ EmptyAssets : HasChunk(a)
  <2>1. SUFFICES ASSUME r.key.operation # "INDEX_PROJECT",
                        NEW a \in FilesOf(r.key) \ EmptyAssets
                 PROVE  HasChunk(a)
    OBVIOUS
  <2>2. r.key = KeyOf(t)
    BY DEF Execute
  <2>3. t \in FileTasks
    BY <1>1, <2>1, <2>2, KeyType DEF Tasks
  <2>4. r.key = work[t].key /\ work[t].todo = {} /\ Progress(t)
    BY <1>0, <2>2, <2>3, LoopFacts DEF Progress, At
  <2>. QED
    BY <1>0, <2>1, <2>3, <2>4 DEF Progress
<1>. HIDE DEF r
<1>8. SuccessMeansChunks'
  <2>1. \A e \in executions' : e \in executions \/ e = r
    BY <1>5
  <2>. QED
    BY <1>6, <1>7, <2>1 DEF IInv, SuccessMeansChunks, HasChunk
<1>9. SparesOthers(t)
  BY <1>5, <1>6 DEF SparesOthers
<1>. QED
  BY <1>0, <1>3, <1>4, <1>5, <1>8, <1>9, OneTaskKeeps

\* A run that ends badly frees nobody else's key and makes no result.
LEMMA MarkFailedStep == ASSUME IInv, NEW t \in Tasks, MarkFailed(t) PROVE IInv'
<1>0. /\ task[t].at \in {"failing", "retrying"} /\ GivesUp(t, At(t, "retrying"))
      /\ UNCHANGED chunks /\ StoreType' /\ At(t, "retrying") \in BOOLEAN
  BY StoreKept DEF MarkFailed, At, store
<1>1. CASE UNCHANGED executions
  BY <1>0, <1>1, GivesUpKeeps
<1>2. CASE executions' = Marked(t, "FAILED")
  <2>1. task[t].at \in Owning /\ Placed(t) /\ TypeOK /\ task[t].at # "idle"
    BY <1>0 DEF Owning, IInv
  <2>2. Moves(t) /\ task'[t].at \in {"queued", "failed"} /\ work'[t] = NoWork
    BY <1>0, <2>1, GivesUpMoves
  <2>3. Placed(t)'
    BY <2>1, <2>2, NoWorkType DEF Placed, Running, Moves, Resting, FilePlaces, IndexPlaces
  <2>4. Progress(t)' /\ Owns(t)'
    BY <2>2 DEF Progress, At, Owns, Owning
  <2>. DEFINE r == Execute(KeyOf(t), t, "FAILED")
  <2>5. /\ executions' \subseteq Execution /\ KeysUnique'
        /\ executions' \subseteq executions \cup {r}
        /\ \A e \in executions : e.owner # t => e \in executions'
    BY <1>2, <2>1, MarkedFacts
  <2>6. \A a : HasChunk(a) <=> HasChunk(a)'
    BY <1>0 DEF HasChunk
  <2>7. r.status # "SUCCESS"
    BY DEF Execute
  <2>. HIDE DEF r
  <2>8. SuccessMeansChunks'
    <3>1. \A e \in executions' : e.status = "SUCCESS" => e \in executions
      BY <2>5, <2>7
    <3>. QED
      BY <1>0, <3>1 DEF IInv, SuccessMeansChunks
  <2>9. SparesOthers(t)
    BY <2>5, <2>6 DEF SparesOthers
  <2>. QED
    BY <1>0, <2>2, <2>3, <2>4, <2>5, <2>8, <2>9, OneTaskKeeps
<1>. QED
  BY <1>1, <1>2 DEF MarkFailed

Same(u) == task'[u] = task[u] /\ work'[u] = work[u]

\* A step of any number of tasks, each of which rests after it.
LEMMA RestKeeps ==
  ASSUME IInv, task' \in [Tasks -> Task], work' \in [Tasks -> FileWork \cup IndexWork],
         UNCHANGED <<executions, chunks>>, StoreType',
         \A u \in Tasks : Same(u) \/ (task'[u].at \in Resting /\ Placed(u)')
  PROVE  IInv'
<1>1. \A a : HasChunk(a) <=> HasChunk(a)'
  BY DEF HasChunk
<1>2. ASSUME NEW u \in Tasks, Same(u) PROVE Placed(u)' /\ Progress(u)' /\ Owns(u)'
  <2>1. Placed(u) /\ Progress(u) /\ Owns(u)
    BY DEF IInv
  <2>2. Placed(u)'
    BY <1>2, <2>1 DEF Same, Placed, Running
  <2>3. Progress(u)'
    BY <1>1, <1>2, <2>1 DEF Same, Progress, At
  <2>4. KeyOf(u)' = KeyOf(u)
    BY <1>2 DEF Same, KeyOf
  <2>5. Owns(u)'
    BY <1>2, <2>1, <2>4 DEF Same, Owns, Execute
  <2>. QED
    BY <2>2, <2>3, <2>5
<1>3. ASSUME NEW u \in Tasks, task'[u].at \in Resting PROVE Progress(u)' /\ Owns(u)'
  BY <1>3 DEF Resting, Owning, Progress, At, Owns
<1>4. TypeOK'
  BY StoreTypes DEF StoreType, TypeOK
<1>5. KeysUnique' /\ SuccessMeansChunks'
  BY DEF IInv, KeysUnique, SuccessMeansChunks
<1>. QED
  BY <1>2, <1>3, <1>4, <1>5 DEF IInv

LEMMA ReturnStep == ASSUME IInv, NEW t \in Tasks, Return(t) PROVE IInv'
<1>0. /\ task[t].at = "return" /\ Sets(t, NoWork) /\ UNCHANGED <<executions, chunks>>
      /\ StoreType' /\ TypeOK
  BY StoreKept DEF Return, At, store, IInv
<1>1. /\ work' \in [Tasks -> FileWork \cup IndexWork] /\ work'[t] = NoWork
      /\ \A u \in Tasks \ {t} : work'[u] = work[u]
  BY <1>0, SetsEffect, NoWorkType
<1>2. ASSUME NEW u \in Tasks
      PROVE  /\ task'[u] \in Task /\ task'[u].split = task[u].split
             /\ u = t => task'[u].at = "succeeded"
             /\ u # t /\ u = task[t].then => task'[u].at = "queued"
             /\ u # t /\ u # task[t].then => task'[u] = task[u]
  <2>1. task[u] \in Task /\ {"succeeded", "queued"} \subseteq Places
    BY <1>0 DEF TypeOK, Places, Resting
  <2>2. task'[u] = IF u = t THEN [task[u] EXCEPT !.at = "succeeded"]
                   ELSE IF u = task[t].then THEN [task[u] EXCEPT !.at = "queued"] ELSE task[u]
    BY DEF Return
  <2>. QED
    BY <2>1, <2>2 DEF Task
<1>3. task' = [u \in Tasks |-> task'[u]]
  BY DEF Return
<1>4. task' \in [Tasks -> Task]
  BY <1>2, <1>3
<1>5. task[t].then \in IndexTasks \cup {None}
  BY <1>0 DEF TypeOK, Task
<1>6. ASSUME NEW u \in Tasks PROVE Same(u) \/ (task'[u].at \in Resting /\ Placed(u)')
  <2>1. Placed(u)
    BY DEF IInv
  <2>2. CASE u = t
    <3>1. task'[u].at = "succeeded" /\ work'[u] = NoWork /\ task'[u].split = task[u].split
      BY <1>1, <1>2, <2>2
    <3>. QED
      BY <1>0, <2>1, <2>2, <3>1, NoWorkType DEF Placed, Running, Resting, FilePlaces, IndexPlaces
  <2>3. CASE u # t /\ u = task[t].then
    <3>1. u \in IndexTasks /\ u \notin FileTasks
      BY <1>5, <2>3, TaskAssumption DEF None
    <3>. QED
      BY <1>1, <1>2, <2>1, <2>3, <3>1 DEF Placed, Resting, IndexPlaces
  <2>4. CASE u # t /\ u # task[t].then
    BY <1>1, <1>2, <2>4 DEF Same
  <2>. QED
    BY <2>2, <2>3, <2>4
<1>. QED
  BY <1>0, <1>1, <1>4, <1>6, RestKeeps

LEMMA RaiseStep == ASSUME IInv, NEW t \in Tasks, Raise(t) PROVE IInv'
<1>0. /\ Running(t) /\ task[t].at # "return" /\ UNCHANGED <<executions, chunks>> /\ StoreType'
      /\ task[t].at # "idle"
  BY StoreKept DEF Raise, store, Running, Resting
<1>1. CASE task[t].at \in Owning
  <2>1. PICK p \in {"failing", "retrying"} : Goes(t, p) /\ UNCHANGED work
    BY <1>1 DEF Raise
  <2>2. p \in Places /\ p \in FilePlaces /\ p \in IndexPlaces
    BY DEF Places, Owning, FilePlaces, IndexPlaces
  <2>3. task'[t].at = p
    BY <2>1, <2>2, GoesEffect DEF IInv
  <2>4. Progress(t)'
    BY <2>3 DEF Progress, At
  <2>. QED
    BY <1>0, <1>1, <2>1, <2>2, <2>4, GoesKeeps
<1>2. CASE task[t].at \notin Owning
  <2>1. PICK kind \in {"error", "connection"} : GivesUp(t, kind = "connection")
    BY <1>2 DEF Raise
  <2>. QED
    BY <1>0, <2>1, GivesUpKeeps
<1>. QED
  BY <1>1, <1>2

LEMMA TimeLimitStep == ASSUME IInv, NEW t \in Tasks, TimeLimit(t) PROVE IInv'
<1>0. /\ Running(t) /\ Goes(t, "failed") /\ Sets(t, NoWork) /\ UNCHANGED <<executions, chunks>>
      /\ StoreType' /\ TypeOK /\ "failed" \in Places /\ Placed(t)
  BY StoreKept DEF TimeLimit, store, IInv, Places, Resting
<1>1. Moves(t) /\ task'[t].at = "failed" /\ work'[t] = NoWork
  BY <1>0, GoesSetsMoves, NoWorkType
<1>2. task'[t].at \in Resting /\ Placed(t)'
  BY <1>0, <1>1, NoWorkType DEF Placed, Running, Resting, FilePlaces, IndexPlaces, Moves
<1>. QED
  BY <1>0, <1>1, <1>2, RestKeeps DEF Moves, Same

-----------------------------------------------------------------------------
(* index_project *)

LEMMA IndexFacts ==
  ASSUME IInv, NEW t \in IndexTasks
  PROVE  t \in Tasks /\ t \notin FileTasks /\ TypeOK /\ Placed(t) /\ work[t] \in IndexWork
         /\ IndexPlaces \subseteq Places
  BY TaskAssumption, PlaceNames DEF IInv, Tasks, Placed

\* The key of an index task never changes, so its place decides alone.
LEMMA IndexKeeps ==
  ASSUME IInv, NEW t \in IndexTasks, Moves(t), UNCHANGED <<executions, chunks>>, StoreType',
         task'[t].at \in IndexPlaces, work'[t] \in IndexWork,
         task'[t].at \in Owning => task[t].at \in Owning
  PROVE  IInv'
<1>1. Placed(t)' /\ Progress(t)'
  BY IndexFacts DEF Placed, Progress
<1>2. KeyKept(t)
  BY IndexFacts DEF KeyKept, KeyOf
<1>. QED
  BY <1>1, <1>2, IndexFacts, QuietKeeps

LEMMA StartIndexStep == ASSUME IInv, NEW t \in IndexTasks, StartIndex(t) PROVE IInv'
<1>0. /\ task[t].at = "queued" /\ UNCHANGED <<assets, executions, chunks, lastChunk, vectors>>
      /\ disturbed' = disturbed \ {t} /\ NoFault
  BY DEF StartIndex, At
<1>1. StoreType'
  BY <1>0, StoreTypes DEF StoreType, NoFault
<1>2. CASE GivesUp(t, FALSE)
  BY <1>0, <1>1, <1>2, IndexFacts, GivesUpKeeps
<1>3. CASE Goes(t, "claim") /\ UNCHANGED work
  <2>1. "claim" \in IndexPlaces /\ "claim" \notin Owning
    BY DEF IndexPlaces, Owning
  <2>2. Moves(t) /\ task'[t].at = "claim" /\ work'[t] = work[t]
    BY <1>3, <2>1, IndexFacts, GoesMoves
  <2>. QED
    BY <1>0, <1>1, <2>1, <2>2, IndexFacts, IndexKeeps
<1>. QED
  BY <1>2, <1>3 DEF StartIndex

LEMMA ClaimIndexStep == ASSUME IInv, NEW t \in IndexTasks, ClaimIndex(t) PROVE IInv'
<1>1. /\ At(t, "claim") /\ Claim(t, "create", "failed") /\ UNCHANGED <<work, chunks>> /\ StoreType'
  BY StoreKept DEF ClaimIndex, store
<1>2. /\ {"create", "failed"} \subseteq IndexPlaces /\ "create" \in Owning
      /\ "failed" \in Places \ Owning
  BY DEF IndexPlaces, Owning, Places, Resting
<1>3. Progress(t)'
  BY IndexFacts DEF Progress
<1>. QED
  BY <1>1, <1>2, <1>3, IndexFacts, ClaimKeeps

\* Going to a place with some work, for an index task.
LEMMA IndexGoes ==
  ASSUME IInv, NEW t \in IndexTasks, task[t].at \in Owning,
         NEW p \in IndexPlaces, NEW w \in IndexWork, Goes(t, p), Sets(t, w) \/ UNCHANGED work,
         UNCHANGED <<executions, chunks>>, StoreType'
  PROVE  IInv'
<1>1. CASE Sets(t, w)
  BY <1>1, IndexFacts, GoesSetsMoves, IndexKeeps
<1>2. CASE UNCHANGED work
  BY <1>2, IndexFacts, GoesMoves, IndexKeeps
<1>. QED
  BY <1>1, <1>2

LEMMA CreateCollectionStep == ASSUME IInv, NEW t \in IndexTasks, CreateCollection(t) PROVE IInv'
<1>. DEFINE w == [page |-> 1, batch |-> {}, attempt |-> 1]
<1>1. /\ task[t].at = "create" /\ Goes(t, "next_page") /\ Sets(t, w) /\ vectors' = NoVectors
      /\ UNCHANGED <<assets, executions, chunks, lastChunk, disturbed, faults>>
  BY DEF CreateCollection, At, NoFault
<1>2. StoreType'
  BY <1>1, StoreTypes DEF StoreType, NoVectors
<1>3. w \in IndexWork /\ "next_page" \in IndexPlaces /\ task[t].at \in Owning
  BY <1>1 DEF IndexWork, IndexPlaces, Owning
<1>. QED
  BY <1>1, <1>2, <1>3, IndexGoes

LEMMA ReadPageStep == ASSUME IInv, NEW t \in IndexTasks, ReadPage(t) PROVE IInv'
<1>1. PICK batch : batch = Page(work[t].page)
  OBVIOUS
<1>. DEFINE w == [work[t] EXCEPT !.batch = batch]
<1>2. /\ task[t].at = "next_page" /\ Goes(t, IF batch = {} THEN "mark" ELSE "insert")
      /\ Sets(t, w) /\ UNCHANGED <<executions, chunks>> /\ StoreType'
  BY <1>1, StoreKept DEF ReadPage, At, store
<1>3. batch \subseteq Chunk
  BY <1>1, IndexFacts DEF Page, TypeOK
<1>4. w \in IndexWork
  BY <1>3, IndexFacts DEF IndexWork
<1>5. {"mark", "insert"} \subseteq IndexPlaces /\ task[t].at \in Owning
  BY <1>2 DEF IndexPlaces, Owning
<1>6. PICK p \in {"mark", "insert"} : Goes(t, p)
  BY <1>2
<1>. HIDE DEF w
<1>. QED
  BY <1>2, <1>4, <1>5, <1>6, IndexGoes

\* A vector count is a number after a batch is inserted.
LEMMA InsertedType ==
  ASSUME IInv, NEW t \in IndexTasks
  PROVE  DOMAIN Inserted(t) \subseteq Nat /\ \A i \in DOMAIN Inserted(t) : Inserted(t)[i] \in Nat
<1>1. {c.id : c \in work[t].batch} \subseteq Nat
  BY IndexFacts DEF IndexWork, Chunk
<1>2. \A i : Count(i) \in Nat
  BY IndexFacts DEF Count, TypeOK
<1>. QED
  BY <1>1, <1>2, IndexFacts DEF Inserted, TypeOK

LEMMA InsertBatchStep == ASSUME IInv, NEW t \in IndexTasks, InsertBatch(t) PROVE IInv'
<1>0. /\ task[t].at = "insert" /\ UNCHANGED <<assets, executions, chunks, lastChunk, disturbed, faults>>
      /\ task[t].at \in Owning /\ {"next_page", "failing"} \subseteq IndexPlaces
  BY DEF InsertBatch, At, NoFault, Owning, IndexPlaces
<1>1. CASE Insertable(t)
  <2>. DEFINE w == [page |-> work[t].page + 1, batch |-> {}, attempt |-> 1]
  <2>1. vectors' = Inserted(t) /\ Goes(t, "next_page") /\ Sets(t, w)
    BY <1>1 DEF InsertBatch
  <2>2. w \in IndexWork
    BY IndexFacts DEF IndexWork
  <2>3. StoreType'
    BY <1>0, <2>1, StoreTypes, InsertedType DEF StoreType
  <2>. HIDE DEF w
  <2>. QED
    BY <1>0, <2>1, <2>2, <2>3, IndexGoes
<1>2. CASE ~Insertable(t)
  <2>1. Goes(t, "failing") /\ UNCHANGED <<vectors, work>>
    BY <1>2 DEF InsertBatch
  <2>2. StoreType'
    BY <1>0, <2>1, StoreTypes DEF StoreType
  <2>. QED
    BY <1>0, <2>1, <2>2, IndexGoes, NoWorkType
<1>. QED
  BY <1>1, <1>2

LEMMA AttemptsKeep ==
  ASSUME IInv, NEW t \in IndexTasks, task[t].at = "insert",
         NEW p \in {"retrying", "failing"}, Attempts(t, p),
         UNCHANGED <<executions, chunks>>, StoreType'
  PROVE  IInv'
<1>1. p \in IndexPlaces /\ "insert" \in IndexPlaces /\ task[t].at \in Owning
  BY DEF IndexPlaces, Owning
<1>2. CASE Goes(t, p) /\ UNCHANGED work
  BY <1>1, <1>2, IndexGoes, NoWorkType
<1>3. CASE Sets(t, [work[t] EXCEPT !.attempt = @ + 1]) /\ UNCHANGED task
  <2>. DEFINE w == [work[t] EXCEPT !.attempt = @ + 1]
  <2>1. w \in IndexWork
    BY IndexFacts DEF IndexWork
  <2>. HIDE DEF w
  <2>2. Moves(t) /\ task'[t].at = task[t].at /\ work'[t] = w
    <3>1. Sets(t, w)
      BY <1>3 DEF w
    <3>. QED
      BY <1>3, <2>1, <3>1, IndexFacts, SetsMoves
  <2>. QED
    BY <1>1, <2>1, <2>2, IndexKeeps
<1>. QED
  BY <1>2, <1>3 DEF Attempts

LEMMA BatchTimesOutStep == ASSUME IInv, NEW t \in IndexTasks, BatchTimesOut(t) PROVE IInv'
<1>1. /\ task[t].at = "insert" /\ Attempts(t, "retrying")
      /\ UNCHANGED <<assets, executions, chunks, lastChunk, disturbed>>
      /\ vectors' = vectors \/ vectors' = Inserted(t)
  BY DEF BatchTimesOut, At
<1>2. faults' \in FaultLog
  BY FaultType DEF BatchTimesOut, IInv
<1>3. StoreType'
  BY <1>1, <1>2, StoreTypes, InsertedType DEF StoreType
<1>. QED
  BY <1>1, <1>3, AttemptsKeep

LEMMA BatchLimitedStep == ASSUME IInv, NEW t \in IndexTasks, BatchLimited(t) PROVE IInv'
<1>1. /\ task[t].at = "insert" /\ Attempts(t, "failing") /\ UNCHANGED <<executions, chunks>>
      /\ StoreType'
  BY StoreKept DEF BatchLimited, At, store
<1>. QED
  BY <1>1, AttemptsKeep

-----------------------------------------------------------------------------
(* The API, maintenance and lost workers *)

LEMMA UploadStep == ASSUME IInv, NEW a \in Assets, Upload(a) PROVE IInv'
<1>1. assets' = assets \cup {a} /\ UNCHANGED <<task, work, executions, store>> /\ UNCHANGED faults
  BY DEF Upload, NoFault
<1>2. StoreType'
  BY <1>1, StoreTypes DEF StoreType, store
<1>. QED
  BY <1>1, <1>2, RestKeeps DEF IInv, TypeOK, Same, store

LEMMA SubmitIndexStep == ASSUME IInv, NEW t \in IndexTasks, SubmitIndex(t) PROVE IInv'
<1>1. /\ task[t].at = "idle" /\ Goes(t, "queued") /\ UNCHANGED <<work, executions, chunks>> /\ StoreType'
  BY StoreKept DEF SubmitIndex, At, store
<1>2. "queued" \in IndexPlaces /\ "queued" \notin Owning
  BY DEF IndexPlaces, Owning
<1>3. Moves(t) /\ task'[t].at = "queued" /\ work'[t] = work[t]
  BY <1>1, <1>2, IndexFacts, GoesMoves
<1>. QED
  BY <1>1, <1>2, <1>3, IndexFacts, IndexKeeps

LEMMA SubmitFileStep ==
  ASSUME IInv, NEW t \in FileTasks, NEW scope \in Scopes, NEW split \in Splits,
         NEW then \in IndexTasks \cup {None}, SubmitFile(t, scope, split, then)
  PROVE  IInv'
<1>0. /\ t \in Tasks /\ t \notin IndexTasks /\ TypeOK /\ UNCHANGED <<work, executions, chunks>>
      /\ StoreType' /\ {"queued", "chained"} \subseteq Places /\ scope \subseteq Assets
  BY StoreKept, TaskAssumption DEF IInv, Tasks, SubmitFile, store, Places, Resting, Scopes
<1>. DEFINE x == [at |-> "queued", retries |-> 0, scope |-> scope, split |-> split, then |-> then]
<1>1. x \in Task /\ x.at = "queued" /\ x.split \in Splits
  BY <1>0 DEF Task
<1>2. task' = [u \in Tasks |-> IF u = t THEN x
                 ELSE IF u = then THEN [task[u] EXCEPT !.at = "chained"] ELSE task[u]]
  BY DEF SubmitFile
<1>. HIDE DEF x
<1>3. ASSUME NEW u \in Tasks
      PROVE  /\ task'[u] \in Task
             /\ u = t => task'[u] = x
             /\ u # t /\ u = then => task'[u].at = "chained"
             /\ u # t /\ u # then => task'[u] = task[u]
  <2>1. task[u] \in Task
    BY <1>0 DEF TypeOK
  <2>. QED
    BY <1>0, <1>1, <1>2, <2>1 DEF Task
<1>4. task' \in [Tasks -> Task]
  BY <1>2, <1>3
<1>5. ASSUME NEW u \in Tasks PROVE Same(u) \/ (task'[u].at \in Resting /\ Placed(u)')
  <2>1. Placed(u) /\ work'[u] = work[u]
    BY <1>0 DEF IInv
  <2>2. CASE u = t
    BY <1>0, <1>1, <1>3, <2>1, <2>2 DEF Placed, Running, Resting, FilePlaces
  <2>3. CASE u # t /\ u = then
    <3>1. u \in IndexTasks /\ u \notin FileTasks
      BY <2>3, TaskAssumption DEF None
    <3>. QED
      BY <1>3, <2>1, <2>3, <3>1 DEF Placed, Resting, IndexPlaces
  <2>4. CASE u # t /\ u # then
    BY <1>3, <2>1, <2>4 DEF Same
  <2>. QED
    BY <2>2, <2>3, <2>4
<1>. QED
  BY <1>0, <1>4, <1>5, RestKeeps DEF TypeOK

LEMMA CleanupStep == ASSUME IInv, NEW e \in executions, Cleanup(e) PROVE IInv'
<1>1. /\ e.status # "RUNNING" /\ executions' = executions \ {e}
      /\ UNCHANGED <<assets, task, work, chunks, lastChunk, vectors, disturbed, faults>>
  BY DEF Cleanup, Deletable, NoFault, store
<1>2. ASSUME NEW u \in Tasks PROVE Placed(u)' /\ Progress(u)' /\ Owns(u)'
  <2>1. Placed(u) /\ Progress(u) /\ Owns(u)
    BY DEF IInv
  <2>2. \A a : HasChunk(a) <=> HasChunk(a)'
    BY <1>1 DEF HasChunk
  <2>3. KeyOf(u)' = KeyOf(u)
    BY <1>1 DEF KeyOf
  <2>4. Owns(u)'
    BY <1>1, <2>1, <2>3 DEF Owns, Execute
  <2>. QED
    BY <1>1, <2>1, <2>2, <2>4 DEF Placed, Progress, Running, At
<1>3. TypeOK'
  BY <1>1 DEF IInv, TypeOK
<1>4. KeysUnique' /\ SuccessMeansChunks'
  BY <1>1 DEF IInv, KeysUnique, SuccessMeansChunks
<1>. QED
  BY <1>2, <1>3, <1>4 DEF IInv

LEMMA CrashStep == ASSUME IInv, NEW pool \in {FileTasks, IndexTasks}, Crash(pool) PROVE IInv'
<1>0. /\ UNCHANGED <<executions, chunks>> /\ StoreType' /\ TypeOK
      /\ task' = [u \in Tasks |-> IF u \in pool /\ Running(u)
                                    THEN [task[u] EXCEPT !.at = "queued"] ELSE task[u]]
      /\ work' = [u \in Tasks |-> IF u \in pool THEN NoWork ELSE work[u]]
  BY StoreKept DEF Crash, store, IInv
<1>1. ASSUME NEW u \in Tasks
      PROVE  /\ task'[u] \in Task /\ task'[u].split = task[u].split
             /\ u \in pool /\ Running(u) => task'[u].at = "queued"
             /\ ~(u \in pool /\ Running(u)) => task'[u] = task[u]
             /\ work'[u] = IF u \in pool THEN NoWork ELSE work[u]
  <2>1. task[u] \in Task /\ "queued" \in Places
    BY <1>0 DEF TypeOK, Places, Resting
  <2>. QED
    BY <1>0, <2>1 DEF Task
<1>2. task' \in [Tasks -> Task] /\ work' \in [Tasks -> FileWork \cup IndexWork]
  BY <1>0, <1>1, NoWorkType DEF TypeOK
<1>3. ASSUME NEW u \in Tasks PROVE Same(u) \/ (task'[u].at \in Resting /\ Placed(u)')
  <2>1. Placed(u)
    BY DEF IInv
  <2>2. CASE u \in pool /\ Running(u)
    <3>1. task'[u].at = "queued" /\ work'[u] = NoWork /\ task[u].at # "idle"
      BY <1>1, <2>2 DEF Running, Resting
    <3>. QED
      BY <1>1, <2>1, <3>1, NoWorkType DEF Placed, Running, Resting, FilePlaces, IndexPlaces
  <2>3. CASE u \in pool /\ ~Running(u)
    <3>1. task'[u] = task[u] /\ work'[u] = NoWork /\ task[u].at \in Resting
      BY <1>1, <2>3 DEF Running
    <3>. QED
      BY <2>1, <3>1, NoWorkType DEF Placed, Running
  <2>4. CASE u \notin pool
    BY <1>1, <2>4 DEF Same
  <2>. QED
    BY <2>2, <2>3, <2>4
<1>. QED
  BY <1>0, <1>2, <1>3, RestKeeps

-----------------------------------------------------------------------------
(* The invariant *)

LEMMA InitInv == ASSUME Init PROVE IInv
<1>1. \A t \in Tasks : task[t] = NoTask /\ work[t] = NoWork
  BY DEF Init
<1>2. NoTask \in Task /\ NoTask.at = "idle" /\ NoWork \in IndexWork
  BY NoWorkType DEF NoTask, Task, Places, Resting
<1>3. DOMAIN NoVectors = {} /\ <<>> \in FaultLog
  BY FaultAssumption DEF NoVectors, FaultLog
<1>4. TypeOK
  BY <1>2, <1>3 DEF Init, TypeOK
<1>5. ASSUME NEW t \in Tasks PROVE Placed(t) /\ Progress(t) /\ Owns(t)
  BY <1>1, <1>2 DEF Placed, Progress, Owns, Running, Resting, Owning, FilePlaces, IndexPlaces, At
<1>6. KeysUnique /\ SuccessMeansChunks
  BY DEF Init, KeysUnique, SuccessMeansChunks
<1>. QED
  BY <1>4, <1>5, <1>6 DEF IInv

LEMMA NextInv == ASSUME IInv, [Next]_vars PROVE IInv'
<1>1. CASE Api
  BY <1>1, UploadStep, SubmitFileStep, SubmitIndexStep DEF Api
<1>2. ASSUME NEW t \in FileTasks, StartFile(t) \/ FileStep(t) PROVE IInv'
  BY <1>2, StartFileStep, ClaimFileStep, LookupStep, SkipAssetStep, DeleteOldStep,
     CommitReplaceStep, FilesDoneStep DEF FileStep
<1>3. ASSUME NEW t \in IndexTasks, StartIndex(t) \/ IndexStep(t) PROVE IInv'
  BY <1>3, StartIndexStep, ClaimIndexStep, CreateCollectionStep, ReadPageStep,
     InsertBatchStep, BatchTimesOutStep, BatchLimitedStep DEF IndexStep
<1>4. ASSUME NEW t \in Tasks, EndStep(t) \/ Raise(t) \/ TimeLimit(t) PROVE IInv'
  BY <1>4, MarkSuccessStep, MarkFailedStep, ReturnStep, RaiseStep, TimeLimitStep DEF EndStep
<1>5. ASSUME NEW e \in executions, Cleanup(e) PROVE IInv'
  BY <1>5, CleanupStep
<1>6. CASE Crash(FileTasks) \/ Crash(IndexTasks)
  BY <1>6, CrashStep
<1>7. CASE UNCHANGED vars
  <2>1. UNCHANGED <<executions, chunks>> /\ StoreType'
    BY <1>7, StoreTypes DEF vars, StoreType
  <2>. QED
    BY <1>7, <2>1, RestKeeps DEF IInv, TypeOK, Same, vars
<1>. QED
  BY <1>1, <1>2, <1>3, <1>4, <1>5, <1>6, <1>7 DEF Next

LEMMA InvHolds == Spec => []IInv
  BY InitInv, NextInv, PTL DEF Spec

\* Every variable keeps its type, whatever is retried, redelivered or lost.
THEOREM TypeCorrect == Spec => []TypeOK
  BY InvHolds, PTL DEF IInv

\* A key has one record and, while the run it names works, that run's RUNNING
\* record: no crash, redelivery, retry or cleanup lets a second run in beside it.
THEOREM OneRun == Spec => []OneRunPerKey
<1>1. IInv => OneRunPerKey
  BY DEF IInv, Owns, KeysUnique, OneRunPerKey
<1>. QED
  BY <1>1, InvHolds, PTL

\* A SUCCESS record of a file task is never a lie: each of its files has chunks,
\* though other tasks replace them and runs die half way.
THEOREM CachedResultsTrue == Spec => []SuccessMeansChunks
  BY InvHolds, PTL DEF IInv
==============================================================================
