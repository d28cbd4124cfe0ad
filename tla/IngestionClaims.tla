--------------------------- MODULE IngestionClaims ---------------------------
(***************************************************************************)
(* Who leaves a claim behind, and what an index run covers, proved for any *)
(* number of files, tasks and faults.                                      *)
(*                                                                         *)
(* Until a run dies or cannot record its failure, the owner of a RUNNING   *)
(* record is at work on its key.  For this a task at work must not be      *)
(* queued by the end of another one, so the chains are followed too: the   *)
(* rest of a chain waits, for one task only, until that task ends.         *)
(***************************************************************************)
EXTENDS IngestionProofs, FiniteSetTheorems

Died == Happened("crash") \/ Happened("time_limit") \/ Happened("mark")

AtWork(e) == task[e.owner].at \in Owning /\ KeyOf(e.owner) = e.key
Claims == Died \/ \A e \in executions : e.status = "RUNNING" => AtWork(e)

Ended == {"succeeded", "failed"}
ChainSound(a, v) ==
    task[a].then = v =>
        /\ task[a].at # "idle" /\ task[v].at # "idle"
        /\ task[a].at \notin Ended => task[v].at = "chained"
        /\ \A b \in Tasks : task[b].then = v => a = b
Chained == \A a, v \in Tasks : ChainSound(a, v)

CInv == Chained /\ Claims

-----------------------------------------------------------------------------
(* What happened stays in the log *)

LEMMA FaultsLogged ==
  ASSUME TypeOK, NoFault \/ \E kind : Fault(kind)
  PROVE  /\ \A kind : Fault(kind) => Happened(kind)'
         /\ \A kind : Happened(kind) => Happened(kind)'
         /\ Died => Died'
<1>1. faults \in Seq(FaultKinds)
  BY DEF TypeOK, FaultLog
<1>2. CASE NoFault /\ ~\E kind : Fault(kind)
  BY <1>2 DEF NoFault, Happened, Died
<1>3. ASSUME NEW kind, Fault(kind)
      PROVE  Happened(kind)' /\ (Died => Died') /\ \A other : Happened(other) => Happened(other)'
  <2>1. kind \in FaultKinds /\ faults' = Append(faults, kind)
    BY <1>3, FaultAssumption DEF Fault
  <2>2. /\ DOMAIN faults' = 1..(Len(faults) + 1) /\ DOMAIN faults = 1..Len(faults)
        /\ Len(faults) \in Nat /\ faults'[Len(faults) + 1] = kind
        /\ \A i \in 1..Len(faults) : faults'[i] = faults[i]
    BY <1>1, <2>1
  <2>3. \A other : Happened(other) => Happened(other)'
    BY <2>2 DEF Happened
  <2>4. Happened(kind)'
    BY <2>2 DEF Happened
  <2>. QED
    BY <2>3, <2>4 DEF Died
<1>. QED
  BY <1>2, <1>3

-----------------------------------------------------------------------------
(* Steps of one task *)

Alone(t) ==
    /\ \A u \in Tasks \ {t} : task'[u] = task[u] /\ work'[u] = work[u]
    /\ task'[t].then = task[t].then
    /\ task[t].at \notin Ended \cup {"chained"} /\ task'[t].at # "idle"

\* The task stays at work on its key, if it was.
StaysAtWork(t) == task[t].at \in Owning => task'[t].at \in Owning /\ KeyKept(t)

LEMMA GoesAlone ==
  ASSUME TypeOK, NEW t \in Tasks, NEW p \in Places \ {"idle"}, Goes(t, p),
         task[t].at \notin Ended \cup {"chained"}, UNCHANGED work \/ \E w : Sets(t, w)
  PROVE  Alone(t) /\ task'[t].at = p
  BY GoesEffect DEF Alone, Sets, TypeOK

LEMMA GivesUpAlone ==
  ASSUME TypeOK, NEW t \in Tasks, NEW retryable \in BOOLEAN, GivesUp(t, retryable),
         task[t].at \notin Ended \cup {"chained"}
  PROVE  Alone(t) /\ task'[t].at \in {"queued", "failed"}
  BY GivesUpMoves DEF Alone, Moves

LEMMA AloneChained ==
  ASSUME Chained, NEW t \in Tasks, Alone(t) PROVE Chained'
<1>. SUFFICES ASSUME NEW a \in Tasks, NEW v \in Tasks PROVE ChainSound(a, v)'
  BY DEF Chained
<1>1. \A b \in Tasks : task'[b].then = task[b].then
  BY DEF Alone
<1>2. ChainSound(a, v)
  BY DEF Chained
<1>. QED
  BY <1>1, <1>2 DEF ChainSound, Alone

\* A step of one task that claims nothing and keeps what it has claimed.
LEMMA AloneKeeps ==
  ASSUME IInv, CInv, NEW t \in Tasks, Alone(t), StaysAtWork(t), UNCHANGED executions,
         Died => Died'
  PROVE  CInv'
<1>1. ASSUME NEW e \in executions, e.status = "RUNNING", AtWork(e) PROVE AtWork(e)'
  <2>1. e.owner \in Tasks
    BY DEF IInv, TypeOK, Execution
  <2>2. CASE e.owner = t
    BY <1>1, <2>2 DEF AtWork, StaysAtWork, KeyKept
  <2>3. CASE e.owner # t
    BY <1>1, <2>1, <2>3 DEF AtWork, Alone, KeyOf
  <2>. QED
    BY <2>2, <2>3
<1>. QED
  BY <1>1, AloneChained DEF CInv, Claims

\* A step that leaves a claim behind, but was noticed.
LEMMA DeathKeeps ==
  ASSUME CInv, NEW t \in Tasks, Alone(t), Died' PROVE CInv'
  BY AloneChained DEF CInv, Claims

\* The index tasks' key is their own.
LEMMA IndexStays ==
  ASSUME NEW t \in IndexTasks, task[t].at \in Owning => task'[t].at \in Owning
  PROVE  StaysAtWork(t)
  BY TaskAssumption DEF StaysAtWork, KeyKept, KeyOf

\* A file task that holds its key.
LEMMA FileStays ==
  ASSUME NEW t \in FileTasks, task[t].at \in Owning => task'[t].at \in Owning,
         work'[t].key = work[t].key
  PROVE  StaysAtWork(t)
  BY DEF StaysAtWork, KeyKept, KeyOf

LEMMA PlaceFacts ==
  /\ Ended \cup {"claim", "lookup", "return", "queued"} \subseteq Places \ Owning
  /\ Owning \subseteq Places \ (Resting \cup Ended)
  /\ "idle" \notin Owning /\ "idle" \notin Ended /\ "chained" \notin Owning \cup Ended
  BY DEF Ended, Places, Resting, Owning

-----------------------------------------------------------------------------
(* The tasks *)

LEMMA StartFileClaims ==
  ASSUME IInv, CInv, NEW t \in FileTasks, StartFile(t), Died => Died' PROVE CInv'
<1>1. /\ t \in Tasks /\ TypeOK /\ task[t].at = "queued" /\ UNCHANGED executions
      /\ task[t].at \notin Ended \cup {"chained"} /\ task[t].at \notin Owning
  BY DEF StartFile, At, IInv, Tasks, Ended, Owning
<1>2. GivesUp(t, FALSE) \/ (Goes(t, "claim") /\ \E w : Sets(t, w))
  BY DEF StartFile
<1>3. Alone(t)
  BY <1>1, <1>2, PlaceFacts, GoesAlone, GivesUpAlone
<1>. QED
  BY <1>1, <1>3, AloneKeeps DEF StaysAtWork

LEMMA StartIndexClaims ==
  ASSUME IInv, CInv, NEW t \in IndexTasks, StartIndex(t), Died => Died' PROVE CInv'
<1>1. /\ t \in Tasks /\ TypeOK /\ task[t].at = "queued" /\ UNCHANGED executions
      /\ task[t].at \notin Ended \cup {"chained"} /\ task[t].at \notin Owning
  BY DEF StartIndex, At, IInv, Tasks, Ended, Owning
<1>2. GivesUp(t, FALSE) \/ (Goes(t, "claim") /\ UNCHANGED work)
  BY DEF StartIndex
<1>3. Alone(t)
  BY <1>1, <1>2, PlaceFacts, GoesAlone, GivesUpAlone
<1>. QED
  BY <1>1, <1>3, AloneKeeps DEF StaysAtWork

LEMMA LookupClaims ==
  ASSUME IInv, CInv, NEW t \in FileTasks, Lookup(t), Died => Died' PROVE CInv'
<1>1. /\ t \in Tasks /\ TypeOK /\ task[t].at = "lookup" /\ UNCHANGED executions
      /\ task[t].at \notin Ended \cup {"chained"} /\ task[t].at \notin Owning
  BY DEF Lookup, At, IInv, Tasks, Ended, Owning
<1>2. GivesUp(t, FALSE) \/ (Goes(t, "return") /\ UNCHANGED work)
  BY DEF Lookup
<1>3. Alone(t)
  BY <1>1, <1>2, PlaceFacts, GoesAlone, GivesUpAlone
<1>. QED
  BY <1>1, <1>3, AloneKeeps DEF StaysAtWork

\* A claim makes the task the owner of the record, and puts it at work.
LEMMA ClaimClaims ==
  ASSUME IInv, CInv, NEW t \in Tasks, At(t, "claim"), UNCHANGED work,
         NEW owning \in Owning, NEW conflicting \in Places \ Owning, conflicting # "idle",
         Claim(t, owning, conflicting), Died => Died'
  PROVE  CInv'
<1>1. /\ TypeOK /\ task[t].at = "claim" /\ task[t].at \notin Ended \cup {"chained"}
      /\ task[t].at \notin Owning /\ owning \in Places \ {"idle"}
  BY PlaceFacts DEF At, IInv, Ended, Owning
<1>2. CASE Row(KeyOf(t)) # {}
  <2>1. UNCHANGED executions /\ Goes(t, conflicting)
    BY <1>2 DEF Claim
  <2>2. Alone(t)
    BY <1>1, <2>1, GoesAlone
  <2>. QED
    BY <1>1, <2>1, <2>2, AloneKeeps DEF StaysAtWork
<1>3. CASE Row(KeyOf(t)) = {}
  <2>0. PICK r : r = Execute(KeyOf(t), t, "RUNNING")
    OBVIOUS
  <2>1. executions' = executions \cup {r} /\ Goes(t, owning)
    BY <1>3, <2>0 DEF Claim
  <2>2. Alone(t) /\ task'[t].at = owning
    BY <1>1, <2>1, GoesAlone
  <2>3. AtWork(r)'
    BY <2>0, <2>2 DEF AtWork, Execute, KeyOf
  <2>4. ASSUME NEW e \in executions, AtWork(e) PROVE AtWork(e)'
    <3>1. e.owner \in Tasks \ {t}
      BY <1>1, <2>4 DEF AtWork, TypeOK, Execution
    <3>. QED
      BY <2>2, <2>4, <3>1 DEF AtWork, Alone, KeyOf
  <2>5. Claims'
    BY <2>1, <2>3, <2>4 DEF CInv, Claims
  <2>. QED
    BY <2>2, <2>5, AloneChained DEF CInv
<1>. QED
  BY <1>2, <1>3

LEMMA FileWorkClaims ==
  ASSUME IInv, CInv, NEW t \in FileTasks, Died => Died',
         CommitReplace(t) \/ FilesDone(t) \/ \E a \in Assets : SkipAsset(t, a) \/ DeleteOld(t, a)
  PROVE  CInv'
<1>1. /\ t \in Tasks /\ TypeOK /\ task[t].at \in {"next_asset", "replace"} /\ UNCHANGED executions
      /\ work[t] \in FileWork
  BY LoopFacts DEF CommitReplace, FilesDone, SkipAsset, DeleteOld, At, IInv, Tasks
<1>2. /\ task[t].at \notin Ended \cup {"chained"} /\ task[t].at \in Owning
      /\ {"next_asset", "replace", "mark", "failing"} \subseteq Owning \cap (Places \ {"idle"})
  BY <1>1 DEF Ended, Owning, Places
<1>3. CASE \E a \in Assets : SkipAsset(t, a)
  <2>1. PICK a \in Assets : SkipAsset(t, a)
    BY <1>3
  <2>2. UNCHANGED task /\ Sets(t, [work[t] EXCEPT !.todo = @ \ {a}])
    BY <2>1 DEF SkipAsset
  <2>3. work'[t].key = work[t].key /\ Alone(t) /\ task'[t].at \in Owning
    BY <1>1, <1>2, <2>2 DEF Sets, TypeOK, FileWork, Alone, Owning
  <2>. QED
    BY <1>1, <2>3, FileStays, AloneKeeps
<1>4. CASE FilesDone(t)
  <2>1. PICK p \in {"mark", "failing"} : Goes(t, p) /\ UNCHANGED work
    BY <1>4 DEF FilesDone
  <2>2. Alone(t) /\ task'[t].at \in Owning
    BY <1>1, <1>2, <2>1, GoesAlone
  <2>. QED
    BY <1>1, <2>1, <2>2, FileStays, AloneKeeps
<1>5. CASE CommitReplace(t) \/ \E a \in Assets : DeleteOld(t, a)
  <2>1. PICK p \in {"next_asset", "replace"} :
            Goes(t, p) /\ \E w : Sets(t, w) /\ w.key = work[t].key
    <3>1. CASE CommitReplace(t)
      <4>. DEFINE w == [work[t] EXCEPT !.todo = @ \ {work[t].asset}, !.asset = None,
                                       !.old = {}, !.wrote = TRUE]
      <4>1. Goes(t, "next_asset") /\ Sets(t, w)
        BY <3>1 DEF CommitReplace
      <4>2. w.key = work[t].key
        BY <1>1 DEF FileWork
      <4>. QED
        BY <4>1, <4>2
    <3>2. ASSUME NEW a \in Assets, DeleteOld(t, a)
          PROVE  \E p \in {"next_asset", "replace"} :
                    Goes(t, p) /\ \E w : Sets(t, w) /\ w.key = work[t].key
      <4>. DEFINE w == [work[t] EXCEPT !.asset = a, !.old = {c \in chunks : c.asset = a}]
      <4>1. Goes(t, "replace") /\ Sets(t, w)
        BY <3>2 DEF DeleteOld
      <4>2. w.key = work[t].key
        BY <1>1 DEF FileWork
      <4>. QED
        BY <4>1, <4>2
    <3>. QED
      BY <1>5, <3>1, <3>2
  <2>2. Alone(t) /\ task'[t].at \in Owning
    BY <1>1, <1>2, <2>1, GoesAlone
  <2>3. work'[t].key = work[t].key
    BY <1>1, <2>1 DEF Sets, TypeOK
  <2>. QED
    BY <1>1, <2>2, <2>3, FileStays, AloneKeeps
<1>. QED
  BY <1>3, <1>4, <1>5

LEMMA IndexWorkClaims ==
  ASSUME IInv, CInv, NEW t \in IndexTasks, Died => Died',
         CreateCollection(t) \/ ReadPage(t) \/ InsertBatch(t) \/ BatchTimesOut(t) \/ BatchLimited(t)
  PROVE  CInv'
<1>1. /\ t \in Tasks /\ TypeOK /\ task[t].at \in {"create", "next_page", "insert"}
      /\ UNCHANGED executions
  BY IndexFacts DEF CreateCollection, ReadPage, InsertBatch, BatchTimesOut, BatchLimited, At
<1>2. /\ task[t].at \notin Ended \cup {"chained"} /\ task[t].at \in Owning
      /\ {"next_page", "insert", "mark", "failing", "retrying"} \subseteq Owning \cap (Places \ {"idle"})
  BY <1>1 DEF Ended, Owning, Places
<1>3. \/ \E p \in {"next_page", "insert", "mark", "failing", "retrying"} :
            Goes(t, p) /\ (UNCHANGED work \/ \E w : Sets(t, w))
      \/ UNCHANGED task /\ \E w : Sets(t, w)
  BY DEF CreateCollection, ReadPage, InsertBatch, BatchTimesOut, BatchLimited, Attempts
<1>4. Alone(t) /\ task'[t].at \in Owning
  <2>1. CASE UNCHANGED task /\ \E w : Sets(t, w)
    BY <1>1, <1>2, <2>1, PlaceFacts DEF Alone, Sets, TypeOK
  <2>2. ASSUME NEW p \in {"next_page", "insert", "mark", "failing", "retrying"},
               Goes(t, p), UNCHANGED work \/ \E w : Sets(t, w)
        PROVE  Alone(t) /\ task'[t].at \in Owning
    BY <1>1, <1>2, <2>2, GoesAlone
  <2>. QED
    BY <1>3, <2>1, <2>2
<1>. QED
  BY <1>1, <1>4, IndexStays, AloneKeeps

\* A run that marks its record owns it no longer, and it owned no other.
LEMMA MarkClaims ==
  ASSUME IInv, CInv, NEW t \in Tasks, task[t].at \in Owning, Alone(t), Died => Died',
         NEW status \in {"SUCCESS", "FAILED"}, executions' = Marked(t, status)
  PROVE  CInv'
<1>. DEFINE mine == Execute(KeyOf(t), t, "RUNNING")
            r == Execute(KeyOf(t), t, status)
<1>1. executions' = (executions \ {mine}) \cup {r}
  BY MarkedFacts
<1>2. r.status # "RUNNING"
  BY DEF Execute
<1>3. ASSUME NEW e \in executions, e # mine, e.status = "RUNNING", AtWork(e) PROVE AtWork(e)'
  <2>1. e.owner \in Tasks /\ e = [key |-> e.key, owner |-> e.owner, status |-> e.status]
    BY DEF IInv, TypeOK, Execution
  <2>2. e.owner # t
    BY <1>3, <2>1 DEF AtWork, Execute
  <2>. QED
    BY <1>3, <2>1, <2>2 DEF AtWork, Alone, KeyOf
<1>. HIDE DEF mine, r
<1>4. Claims'
  BY <1>1, <1>2, <1>3 DEF CInv, Claims
<1>. QED
  BY <1>4, AloneChained DEF CInv

LEMMA EndClaims ==
  ASSUME IInv, CInv, NEW t \in Tasks, MarkSuccess(t) \/ MarkFailed(t),
         \A kind : Fault(kind) => Happened(kind)', Died => Died'
  PROVE  CInv'
<1>1. CASE MarkSuccess(t)
  <2>1. /\ task[t].at = "mark" /\ Goes(t, "return") /\ UNCHANGED work
        /\ executions' = Marked(t, "SUCCESS")
    BY <1>1 DEF MarkSuccess, At
  <2>2. task[t].at \in Owning /\ task[t].at \notin Ended \cup {"chained"}
    BY <2>1 DEF Owning, Ended
  <2>3. Alone(t)
    BY <2>1, <2>2, PlaceFacts, GoesAlone DEF IInv
  <2>. QED
    BY <2>1, <2>2, <2>3, MarkClaims
<1>2. CASE MarkFailed(t)
  <2>1. /\ task[t].at \in {"failing", "retrying"} /\ GivesUp(t, At(t, "retrying"))
        /\ At(t, "retrying") \in BOOLEAN
        /\ executions' = Marked(t, "FAILED") \/ Fault("mark")
    BY <1>2 DEF MarkFailed, At
  <2>2. task[t].at \in Owning /\ task[t].at \notin Ended \cup {"chained"}
    BY <2>1 DEF Owning, Ended
  <2>3. Alone(t)
    BY <2>1, <2>2, GivesUpAlone DEF IInv
  <2>. QED
    BY <2>1, <2>2, <2>3, MarkClaims, DeathKeeps DEF Died
<1>. QED
  BY <1>1, <1>2

LEMMA FaultClaims ==
  ASSUME IInv, CInv, NEW t \in Tasks, Raise(t) \/ TimeLimit(t),
         \A kind : Fault(kind) => Happened(kind)', Died => Died'
  PROVE  CInv'
<1>1. Running(t) /\ UNCHANGED executions /\ TypeOK /\ task[t].at \notin Ended \cup {"chained"}
  BY DEF Raise, TimeLimit, Running, Resting, Ended, IInv
<1>2. CASE TimeLimit(t)
  <2>1. Goes(t, "failed") /\ Sets(t, NoWork) /\ Fault("time_limit")
    BY <1>2 DEF TimeLimit
  <2>. QED
    BY <1>1, <2>1, PlaceFacts, GoesAlone, DeathKeeps DEF Died, Ended
<1>3. CASE Raise(t) /\ task[t].at \in Owning
  <2>1. PICK p \in {"failing", "retrying"} : Goes(t, p) /\ UNCHANGED work
    BY <1>3 DEF Raise
  <2>2. p \in Owning /\ p \in Places \ {"idle"}
    BY DEF Owning, Places
  <2>3. Alone(t) /\ task'[t].at \in Owning /\ KeyKept(t)
    BY <1>1, <2>1, <2>2, GoesAlone DEF KeyKept, KeyOf
  <2>. QED
    BY <1>1, <2>3, AloneKeeps DEF StaysAtWork
<1>4. CASE Raise(t) /\ task[t].at \notin Owning
  <2>1. PICK kind \in {"error", "connection"} : GivesUp(t, kind = "connection")
    BY <1>4 DEF Raise
  <2>. QED
    BY <1>1, <1>4, <2>1, GivesUpAlone, AloneKeeps DEF StaysAtWork
<1>. QED
  BY <1>2, <1>3, <1>4

-----------------------------------------------------------------------------
(* Steps of several tasks *)

\* Tasks that are not at work may change; those that are stay as they are.
LEMMA OthersClaim ==
  ASSUME IInv, CInv, executions' \subseteq executions, Died => Died',
         \A u \in Tasks : task[u].at \in Owning => Same(u)
  PROVE  Claims'
<1>1. ASSUME NEW e \in executions, AtWork(e) PROVE AtWork(e)'
  <2>1. e.owner \in Tasks
    BY DEF IInv, TypeOK, Execution
  <2>. QED
    BY <1>1, <2>1 DEF AtWork, Same, KeyOf
<1>. QED
  BY <1>1 DEF CInv, Claims

\* The end of a task queues the rest of its chain, which nobody else waits for.
LEMMA ReturnClaims ==
  ASSUME IInv, CInv, NEW t \in Tasks, Return(t), Died => Died' PROVE CInv'
<1>0. TypeOK /\ task[t].at = "return" /\ UNCHANGED executions /\ Sets(t, NoWork)
  BY DEF Return, At, IInv
<1>1. PICK n : n = task[t].then
  OBVIOUS
<1>2. ASSUME NEW u \in Tasks
      PROVE  /\ task'[u].then = task[u].then
             /\ u = t => task'[u].at = "succeeded"
             /\ u # t /\ u = n => task'[u].at = "queued"
             /\ u # t /\ u # n => task'[u] = task[u]
             /\ u # t => work'[u] = work[u]
  <2>1. task[u] \in Task
    BY <1>0 DEF TypeOK
  <2>2. task'[u] = IF u = t THEN [task[u] EXCEPT !.at = "succeeded"]
                   ELSE IF u = n THEN [task[u] EXCEPT !.at = "queued"] ELSE task[u]
    BY <1>1 DEF Return
  <2>. QED
    BY <1>0, <2>1, <2>2 DEF Task, Sets, TypeOK
<1>3. t \notin {n} /\ (n \in Tasks => task[n].at = "chained")
  BY <1>0, <1>1 DEF CInv, Chained, ChainSound, Ended
<1>4. Chained'
  <2>. SUFFICES ASSUME NEW a \in Tasks, NEW v \in Tasks PROVE ChainSound(a, v)'
    BY DEF Chained
  <2>1. ChainSound(a, v) /\ ChainSound(t, v)
    BY DEF CInv, Chained
  <2>. QED
    BY <1>0, <1>1, <1>2, <1>3, <2>1 DEF ChainSound, Ended
<1>5. \A u \in Tasks : task[u].at \in Owning => Same(u)
  BY <1>0, <1>2, <1>3, PlaceFacts DEF Same
<1>. QED
  BY <1>0, <1>4, <1>5, OthersClaim DEF CInv

LEMMA SubmitFileClaims ==
  ASSUME IInv, CInv, NEW t \in FileTasks, NEW scope, NEW split,
         NEW then \in IndexTasks \cup {None}, SubmitFile(t, scope, split, then), Died => Died'
  PROVE  CInv'
<1>0. /\ t \in Tasks /\ TypeOK /\ task[t].at = "idle" /\ UNCHANGED <<work, executions>>
      /\ then \in Tasks => task[then].at = "idle" /\ t # then
  BY TaskAssumption DEF SubmitFile, At, IInv, Tasks, None
<1>1. ASSUME NEW u \in Tasks
      PROVE  /\ u = t => task'[u].at = "queued" /\ task'[u].then = then
             /\ u # t /\ u = then => task'[u].at = "chained" /\ task'[u].then = task[u].then
             /\ u # t /\ u # then => task'[u] = task[u]
  <2>1. task[u] \in Task
    BY <1>0 DEF TypeOK
  <2>. QED
    BY <2>1 DEF SubmitFile, Task
<1>2. Chained'
  <2>. SUFFICES ASSUME NEW a \in Tasks, NEW v \in Tasks PROVE ChainSound(a, v)'
    BY DEF Chained
  <2>1. \A b \in Tasks : ChainSound(b, v)
    BY DEF CInv, Chained
  <2>. QED
    BY <1>0, <1>1, <2>1 DEF ChainSound, Ended
<1>3. \A u \in Tasks : task[u].at \in Owning => Same(u)
  BY <1>0, <1>1, PlaceFacts DEF Same
<1>. QED
  BY <1>0, <1>2, <1>3, OthersClaim DEF CInv

LEMMA SubmitIndexClaims ==
  ASSUME IInv, CInv, NEW t \in IndexTasks, SubmitIndex(t), Died => Died' PROVE CInv'
<1>1. /\ t \in Tasks /\ TypeOK /\ task[t].at = "idle" /\ UNCHANGED <<work, executions>>
      /\ Goes(t, "queued") /\ task[t].at \notin Ended \cup {"chained"} /\ task[t].at \notin Owning
  BY IndexFacts DEF SubmitIndex, At, Ended, Owning
<1>2. Alone(t)
  BY <1>1, PlaceFacts, GoesAlone
<1>. QED
  BY <1>1, <1>2, AloneKeeps DEF StaysAtWork

LEMMA CrashClaims ==
  ASSUME IInv, CInv, NEW pool \in {FileTasks, IndexTasks}, Crash(pool),
         \A kind : Fault(kind) => Happened(kind)'
  PROVE  CInv'
<1>1. Claims'
  BY DEF Crash, Claims, Died
<1>2. ASSUME NEW u \in Tasks
      PROVE  /\ task'[u].then = task[u].then
             /\ task'[u] = task[u] \/ (task[u].at \notin Resting /\ task'[u].at = "queued")
  <2>1. task[u] \in Task
    BY DEF IInv, TypeOK
  <2>. QED
    BY <2>1 DEF Crash, Running, Task
<1>3. Chained'
  <2>. SUFFICES ASSUME NEW a \in Tasks, NEW v \in Tasks PROVE ChainSound(a, v)'
    BY DEF Chained
  <2>1. ChainSound(a, v)
    BY DEF CInv, Chained
  <2>. QED
    BY <1>2, <2>1 DEF ChainSound, Ended, Resting
<1>. QED
  BY <1>1, <1>3 DEF CInv

-----------------------------------------------------------------------------
(* The invariant *)

LEMMA ClaimsInit == ASSUME Init PROVE CInv
<1>1. \A a, v \in Tasks : task[a].then # v
  BY TaskAssumption DEF Init, NoTask, None
<1>. QED
  BY <1>1 DEF Init, CInv, Chained, ChainSound, Claims

LEMMA ClaimsNext == ASSUME IInv, CInv, [Next]_vars PROVE CInv'
<1>0. NoFault \/ \E kind : Fault(kind)
  BY DEF Next, Api, FileStep, IndexStep, EndStep, vars, Upload, SubmitFile, SubmitIndex, MarkSuccess,
         MarkFailed, Return, Raise, StartFile, ClaimFile, Lookup, SkipAsset, DeleteOld, CommitReplace,
         FilesDone, StartIndex, ClaimIndex, CreateCollection, ReadPage, InsertBatch, BatchTimesOut,
         BatchLimited, Cleanup, Crash, TimeLimit, NoFault
<1>1. (\A kind : Fault(kind) => Happened(kind)') /\ (Died => Died')
  BY <1>0, FaultsLogged DEF IInv
<1>2. CASE Api
  <2>1. ASSUME NEW a \in Assets, Upload(a) PROVE CInv'
    <3>1. UNCHANGED <<task, work, executions>>
      BY <2>1 DEF Upload
    <3>2. Chained' /\ Claims'
      BY <1>1, <3>1, OthersClaim DEF CInv, Chained, ChainSound, Same
    <3>. QED
      BY <3>2 DEF CInv
  <2>. QED
    BY <1>1, <1>2, <2>1, SubmitFileClaims, SubmitIndexClaims DEF Api
<1>3. ASSUME NEW t \in FileTasks, StartFile(t) \/ FileStep(t) PROVE CInv'
  <2>1. CASE ClaimFile(t)
    <3>1. t \in Tasks /\ "next_asset" \in Owning /\ "lookup" \in Places \ Owning
      BY PlaceFacts DEF Tasks, Owning
    <3>. QED
      BY <1>1, <2>1, <3>1, ClaimClaims DEF ClaimFile
  <2>. QED
    BY <1>1, <1>3, <2>1, StartFileClaims, LookupClaims, FileWorkClaims DEF FileStep
<1>4. ASSUME NEW t \in IndexTasks, StartIndex(t) \/ IndexStep(t) PROVE CInv'
  <2>1. CASE ClaimIndex(t)
    <3>1. t \in Tasks /\ "create" \in Owning /\ "failed" \in Places \ Owning
      BY PlaceFacts DEF Tasks, Owning, Ended
    <3>. QED
      BY <1>1, <2>1, <3>1, ClaimClaims DEF ClaimIndex
  <2>. QED
    BY <1>1, <1>4, <2>1, StartIndexClaims, IndexWorkClaims DEF IndexStep
<1>5. ASSUME NEW t \in Tasks, EndStep(t) \/ Raise(t) \/ TimeLimit(t) PROVE CInv'
  BY <1>1, <1>5, EndClaims, ReturnClaims, FaultClaims DEF EndStep
<1>6. ASSUME NEW e \in executions, Cleanup(e) PROVE CInv'
  <2>1. UNCHANGED <<task, work>> /\ executions' \subseteq executions
    BY <1>6 DEF Cleanup
  <2>2. Chained' /\ Claims'
    BY <1>1, <2>1, OthersClaim DEF CInv, Chained, ChainSound, Same
  <2>. QED
    BY <2>2 DEF CInv
<1>7. CASE Crash(FileTasks) \/ Crash(IndexTasks)
  BY <1>1, <1>7, CrashClaims
<1>8. CASE UNCHANGED vars
  <2>1. UNCHANGED <<task, work, executions>>
    BY <1>8 DEF vars
  <2>2. Chained' /\ Claims'
    BY <1>1, <2>1, OthersClaim DEF CInv, Chained, ChainSound, Same
  <2>. QED
    BY <2>2 DEF CInv
<1>. QED
  BY <1>2, <1>3, <1>4, <1>5, <1>6, <1>7, <1>8 DEF Next

\* A claim is left behind only by a run that died, was killed or could not record
\* its failure: no conflict, retry, rollback or cleanup abandons one.
THEOREM AbandonedClaims == Spec => []AbandonedClaimNeedsDeadRun
<1>1. IInv /\ CInv => AbandonedClaimNeedsDeadRun
  BY DEF CInv, Claims, Died, AtWork, AbandonedClaimNeedsDeadRun, ClaimedWorkIsDone, ClaimIsLive
<1>. QED
  BY <1>1, ClaimsInit, ClaimsNext, InvHolds, PTL DEF Spec

-----------------------------------------------------------------------------
(* What an index run covers.  It reads the chunks page by page, so while no *)
(* chunk is replaced it has indexed those of the earlier pages, and no      *)
(* other: a chunk of a later page has a vector only if a batch timed out.   *)

Before(c) == {d \in chunks : d.id < c.id}
PageOf(c) == Cardinality(Before(c)) \div PageSize

TimedOut   == Happened("timeout")
Covered(c) == Count(c.id) = 1 \/ (Count(c.id) > 1 /\ TimedOut)

Covering == {"next_page", "insert", "mark"}
CoverSound(t) ==
    task[t].at \in Covering /\ t \notin disturbed =>
        /\ work[t].page > 0
        /\ \A c \in chunks : PageOf(c) < work[t].page - 1 => Covered(c)
        /\ \A c \in chunks : PageOf(c) >= work[t].page - 1 => Count(c.id) = 0 \/ TimedOut
        /\ At(t, "insert") => work[t].batch = Page(work[t].page)
        /\ At(t, "mark") => \A c \in chunks : PageOf(c) < work[t].page - 1

\* The index worker has one process, and a project one collection.
OneIndexer == \A t, u \in IndexTasks : Running(t) /\ Running(u) => t = u
ChunksNumbered ==
    /\ IsFiniteSet(chunks)
    /\ \A c \in chunks : c.id <= lastChunk
    /\ \A c, d \in chunks : c.id = d.id => c = d

VInv == OneIndexer /\ ChunksNumbered /\ \A t \in IndexTasks : CoverSound(t)

LEMMA PageStart == ASSUME NEW size \in Nat \ {0}, NEW q \in Nat PROVE (q * size) \div size = q
  BY SMT

LEMMA PageBounds ==
  ASSUME NEW size \in Nat \ {0}, NEW r \in Nat
  PROVE  r \div size \in Nat /\ \A q \in Nat : r \div size >= q => r >= q * size
  BY SMT

LEMMA BeforeFacts ==
  ASSUME TypeOK, ChunksNumbered, NEW c \in chunks
  PROVE  /\ Cardinality(Before(c)) \in Nat /\ Cardinality(chunks) \in Nat
         /\ Cardinality(Before(c)) < Cardinality(chunks)
         /\ PageOf(c) \in Nat /\ c.id \in Nat
<1>1. Before(c) \in SUBSET chunks /\ IsFiniteSet(chunks) /\ c.id \in Nat
  BY DEF Before, ChunksNumbered, TypeOK, Chunk
<1>2. c \notin Before(c)
  BY <1>1 DEF Before
<1>3. /\ IsFiniteSet(Before(c)) /\ Cardinality(Before(c)) <= Cardinality(chunks)
      /\ Cardinality(chunks) # Cardinality(Before(c))
  BY <1>1, <1>2, FS_Subset
<1>4. Cardinality(Before(c)) \in Nat /\ Cardinality(chunks) \in Nat
  BY <1>1, <1>3, FS_CardinalityType
<1>. QED
  BY <1>1, <1>3, <1>4, PageBounds, SizeAssumption DEF PageOf

\* The pages before that of a chunk are not empty: the chunks before it fill them.
LEMMA PagesFilled ==
  ASSUME TypeOK, ChunksNumbered, NEW c \in chunks, NEW q \in Nat, PageOf(c) >= q
  PROVE  \E d \in chunks : PageOf(d) = q
<1>. DEFINE n == Cardinality(chunks)
            rank == [d \in chunks |-> Cardinality(Before(d))]
<1>1. \A d \in chunks : rank[d] \in 0..(n - 1) /\ n \in Nat /\ n > 0
  BY BeforeFacts
<1>2. ASSUME NEW d \in chunks, NEW e \in chunks, d.id < e.id PROVE rank[d] # rank[e]
  <2>1. d.id \in Nat /\ e.id \in Nat /\ \A f \in chunks : f.id \in Nat
    BY BeforeFacts
  <2>2. Before(d) \in SUBSET Before(e) /\ d \in Before(e) /\ d \notin Before(d)
    BY <1>2, <2>1 DEF Before
  <2>3. IsFiniteSet(Before(e))
    BY FS_Subset DEF Before, ChunksNumbered
  <2>4. Cardinality(Before(e)) # Cardinality(Before(d))
    BY <2>2, <2>3, FS_Subset
  <2>. QED
    BY <2>4
<1>3. rank \in Injection(chunks, 0..(n - 1))
  <2>1. ASSUME NEW d \in chunks, NEW e \in chunks, d # e PROVE rank[d] # rank[e]
    <3>1. d.id # e.id /\ d.id \in Nat /\ e.id \in Nat
      BY <2>1, BeforeFacts DEF ChunksNumbered
    <3>2. d.id < e.id \/ e.id < d.id
      BY <3>1
    <3>. QED
      BY <1>2, <3>2
  <2>2. rank \in [chunks -> 0..(n - 1)] /\ DOMAIN rank = chunks
    BY <1>1
  <2>. HIDE DEF rank
  <2>. QED
    BY <2>1, <2>2 DEF Injection, IsInjective
<1>4. IsFiniteSet(0..(n - 1)) /\ Cardinality(0..(n - 1)) = n
  BY <1>1, FS_Interval
<1>5. rank \in Surjection(chunks, 0..(n - 1))
  BY <1>3, <1>4, FS_Injection
<1>6. q * PageSize \in 0..(n - 1)
  <2>1. rank[c] >= q * PageSize /\ q * PageSize \in Nat
    BY <1>1, BeforeFacts, PageBounds, SizeAssumption DEF PageOf
  <2>. QED
    BY <1>1, <2>1
<1>7. PICK d \in chunks : rank[d] = q * PageSize
  BY <1>5, <1>6 DEF Surjection
<1>8. PageOf(d) = q
  BY <1>7, PageStart, SizeAssumption DEF PageOf
<1>. QED
  BY <1>8

-----------------------------------------------------------------------------
(* Steps beside a run *)

LEMMA CoverKept ==
  ASSUME NEW t \in IndexTasks, CoverSound(t), UNCHANGED <<chunks, vectors>>, TimedOut => TimedOut',
         task'[t].at = task[t].at, work'[t].page = work[t].page, work'[t].batch = work[t].batch,
         t \in disturbed => t \in disturbed'
  PROVE  CoverSound(t)'
  BY DEF CoverSound, PageOf, Before, Covered, Count, Page, At

\* No run begins, and those that go on find all as they left it.
LEMMA QuietCovers ==
  ASSUME VInv, UNCHANGED <<chunks, lastChunk, vectors>>, TimedOut => TimedOut',
         \A u \in IndexTasks :
            /\ Running(u)' => Running(u)
            /\ task'[u].at \in Covering =>
                  /\ task'[u].at = task[u].at
                  /\ u \in disturbed => u \in disturbed'
                  /\ work'[u].page = work[u].page /\ work'[u].batch = work[u].batch
  PROVE  VInv'
<1>1. OneIndexer' /\ ChunksNumbered'
  BY DEF VInv, OneIndexer, ChunksNumbered
<1>2. ASSUME NEW u \in IndexTasks PROVE CoverSound(u)'
  <2>1. CASE task'[u].at \in Covering
    BY <2>1, CoverKept DEF VInv
  <2>2. CASE task'[u].at \notin Covering
    BY <2>2 DEF CoverSound
  <2>. QED
    BY <2>1, <2>2
<1>. QED
  BY <1>1, <1>2 DEF VInv

\* A step of one task that is not part of an index run.
LEMMA AloneCovers ==
  ASSUME VInv, NEW t \in Tasks, Alone(t), UNCHANGED store, TimedOut => TimedOut',
         t \in IndexTasks => Running(t) /\ task'[t].at \notin Covering
  PROVE  VInv'
<1>1. UNCHANGED <<chunks, lastChunk, vectors, disturbed>>
  BY DEF store
<1>2. \A u \in IndexTasks : u # t => task'[u] = task[u] /\ work'[u] = work[u]
  BY DEF Alone, Tasks
<1>. QED
  BY <1>1, <1>2, QuietCovers DEF Running

\* A step of the one index run.
LEMMA RunCovers ==
  ASSUME VInv, NEW t \in IndexTasks, Running(t), Alone(t), UNCHANGED <<chunks, lastChunk>>,
         CoverSound(t)'
  PROVE  VInv'
<1>1. ASSUME NEW u \in IndexTasks, u # t PROVE ~Running(u)' /\ task'[u].at \notin Covering
  <2>1. ~Running(u) /\ task'[u] = task[u]
    BY <1>1 DEF VInv, OneIndexer, Alone, Tasks
  <2>. QED
    BY <2>1 DEF Running, Covering, Resting
<1>2. ChunksNumbered' /\ OneIndexer'
  BY <1>1 DEF VInv, ChunksNumbered, OneIndexer
<1>3. \A u \in IndexTasks : CoverSound(u)'
  BY <1>1 DEF CoverSound
<1>. QED
  BY <1>2, <1>3 DEF VInv

-----------------------------------------------------------------------------
(* The steps of a run *)

LEMMA IndexRunning ==
  ASSUME IInv, NEW t \in IndexTasks, task[t].at \in {"create", "next_page", "insert"}
  PROVE  /\ t \in Tasks /\ TypeOK /\ Running(t) /\ task[t].at \notin Ended \cup {"chained"}
         /\ work[t] \in IndexWork
         /\ {"next_page", "insert", "mark", "failing", "retrying"} \subseteq Places \ {"idle"}
  BY IndexFacts DEF Running, Resting, Ended, Places, Owning

\* A run that does not go on, or not yet.
LEMMA RunStops ==
  ASSUME IInv, VInv, NEW t \in IndexTasks, task[t].at \in {"create", "next_page", "insert"},
         NEW p \in {"failing", "retrying"}, Goes(t, p), UNCHANGED work, UNCHANGED <<chunks, lastChunk>>
  PROVE  VInv'
<1>1. Alone(t) /\ task'[t].at \notin Covering
  BY IndexRunning, GoesAlone DEF Covering
<1>. QED
  BY <1>1, IndexRunning, RunCovers DEF CoverSound

\* The work of a run after its step.
LEMMA RunGoes ==
  ASSUME IInv, NEW t \in IndexTasks, task[t].at \in {"create", "next_page", "insert"},
         NEW w, Sets(t, w), UNCHANGED task \/ \E p \in {"next_page", "insert", "mark"} : Goes(t, p)
  PROVE  Alone(t) /\ work'[t] = w /\ \A p \in {"next_page", "insert", "mark"} : Goes(t, p) => task'[t].at = p
<1>1. work'[t] = w /\ \A u \in Tasks \ {t} : work'[u] = work[u]
  BY IndexRunning DEF Sets, TypeOK
<1>2. CASE UNCHANGED task
  BY <1>1, <1>2, IndexRunning, PlaceFacts, GoesAlone DEF Alone, Ended
<1>3. CASE \E p \in {"next_page", "insert", "mark"} : Goes(t, p)
  BY <1>1, <1>3, IndexRunning, GoesAlone
<1>. QED
  BY <1>2, <1>3, IndexRunning, GoesAlone

LEMMA CreateCovers == ASSUME IInv, VInv, NEW t \in IndexTasks, CreateCollection(t) PROVE VInv'
<1>. DEFINE w == [page |-> 1, batch |-> {}, attempt |-> 1]
<1>1. /\ task[t].at = "create" /\ Goes(t, "next_page") /\ Sets(t, w) /\ vectors' = NoVectors
      /\ UNCHANGED <<chunks, lastChunk>>
  BY DEF CreateCollection, At
<1>2. Alone(t) /\ work'[t] = w /\ task'[t].at = "next_page"
  BY <1>1, RunGoes
<1>3. \A c \in chunks : PageOf(c) \in Nat /\ PageOf(c)' = PageOf(c) /\ Count(c.id)' = 0
  BY <1>1, BeforeFacts DEF PageOf, Before, Count, NoVectors, VInv, IInv
<1>4. CoverSound(t)'
  BY <1>1, <1>2, <1>3 DEF CoverSound, At
<1>. QED
  BY <1>1, <1>2, <1>4, IndexRunning, RunCovers

LEMMA PageChunks == ASSUME NEW p \in Nat PROVE Page(p) = {c \in chunks : PageOf(c) = p - 1}
  BY DEF Page, PageOf, Before

\* After the last page there is nothing: an empty one means all chunks are covered.
LEMMA ReadCovers ==
  ASSUME IInv, VInv, NEW t \in IndexTasks, ReadPage(t), TimedOut => TimedOut' PROVE VInv'
<1>. DEFINE p == work[t].page
            w == [work[t] EXCEPT !.batch = Page(p)]
<1>1. /\ task[t].at = "next_page" /\ Goes(t, IF Page(p) = {} THEN "mark" ELSE "insert")
      /\ Sets(t, w) /\ UNCHANGED <<chunks, lastChunk, vectors, disturbed>>
  BY DEF ReadPage, At, store
<1>2. p \in Nat /\ w.page = p /\ w.batch = Page(p)
  BY <1>1, IndexRunning DEF IndexWork
<1>. HIDE DEF w
<1>3. /\ Alone(t) /\ work'[t] = w
      /\ task'[t].at = IF Page(p) = {} THEN "mark" ELSE "insert"
  BY <1>1, RunGoes
<1>4. ASSUME t \notin disturbed', p > 0, Page(p) = {}, NEW c \in chunks PROVE PageOf(c) < p - 1
  <2>1. PageOf(c) \in Nat /\ p - 1 \in Nat
    BY <1>2, <1>4, BeforeFacts DEF VInv, IInv
  <2>2. ~(PageOf(c) >= p - 1)
    BY <1>2, <1>4, <2>1, PagesFilled, PageChunks DEF VInv, IInv
  <2>. QED
    BY <2>1, <2>2
<1>5. \A q : Page(q)' = Page(q)
  BY <1>1 DEF Page
<1>6. CoverSound(t)'
  <2>. SUFFICES ASSUME t \notin disturbed PROVE CoverSound(t)'
    BY <1>1 DEF CoverSound
  <2>1. /\ p > 0 /\ \A c \in chunks : PageOf(c) < p - 1 => Covered(c)
        /\ \A c \in chunks : PageOf(c) >= p - 1 => Count(c.id) = 0 \/ TimedOut
    BY <1>1 DEF VInv, CoverSound, Covering
  <2>2. \A c : PageOf(c)' = PageOf(c) /\ Count(c.id)' = Count(c.id)
    BY <1>1 DEF PageOf, Before, Count
  <2>3. \A c \in chunks : Covered(c) => Covered(c)'
    BY <2>2 DEF Covered
  <2>. QED
    BY <1>1, <1>2, <1>3, <1>4, <1>5, <2>1, <2>2, <2>3 DEF CoverSound, At
<1>. QED
  BY <1>1, <1>3, <1>6, IndexRunning, RunCovers

\* A batch inserted gives each of its chunks one more vector.
LEMMA InsertCounts ==
  ASSUME IInv, VInv, NEW t \in IndexTasks, work[t].batch \subseteq chunks, vectors' = Inserted(t)
  PROVE  \A c \in chunks : /\ Count(c.id) \in Nat
                           /\ Count(c.id)' = Count(c.id) + IF c \in work[t].batch THEN 1 ELSE 0
<1>. DEFINE ids == {c.id : c \in work[t].batch}
<1>1. \A i : Count(i) \in Nat
  BY IndexFacts DEF Count, TypeOK
<1>2. vectors' = [i \in DOMAIN vectors \cup ids |-> Count(i) + IF i \in ids THEN 1 ELSE 0]
  BY DEF Inserted
<1>3. \A c \in chunks : c.id \in ids <=> c \in work[t].batch
  BY DEF VInv, ChunksNumbered
<1>. HIDE DEF ids
<1>4. \A i : Count(i)' = Count(i) + IF i \in ids THEN 1 ELSE 0
  <2>. TAKE i
  <2>1. CASE i \in DOMAIN vectors \cup ids
    BY <1>2, <2>1 DEF Count
  <2>2. CASE i \notin DOMAIN vectors \cup ids
    BY <1>2, <2>2 DEF Count
  <2>. QED
    BY <2>1, <2>2
<1>. QED
  BY <1>1, <1>3, <1>4

LEMMA InsertCovers ==
  ASSUME IInv, VInv, NEW t \in IndexTasks, InsertBatch(t), TimedOut => TimedOut' PROVE VInv'
<1>0. task[t].at = "insert" /\ UNCHANGED <<chunks, lastChunk, disturbed>>
  BY DEF InsertBatch, At
<1>1. CASE ~Insertable(t)
  BY <1>0, <1>1, RunStops DEF InsertBatch
<1>2. CASE Insertable(t)
  <2>. DEFINE p == work[t].page
              w == [page |-> work[t].page + 1, batch |-> {}, attempt |-> 1]
  <2>1. vectors' = Inserted(t) /\ Goes(t, "next_page") /\ Sets(t, w)
    BY <1>2 DEF InsertBatch
  <2>2. p \in Nat /\ w.page = p + 1
    BY <1>0, IndexRunning DEF IndexWork
  <2>. HIDE DEF w
  <2>3. Alone(t) /\ work'[t] = w /\ task'[t].at = "next_page"
    BY <1>0, <2>1, RunGoes
  <2>4. CoverSound(t)'
    <3>. SUFFICES ASSUME t \notin disturbed PROVE CoverSound(t)'
      BY <1>0 DEF CoverSound
    <3>1. /\ work[t].batch = {c \in chunks : PageOf(c) = p - 1} /\ p > 0
          /\ \A c \in chunks : PageOf(c) < p - 1 => Covered(c)
          /\ \A c \in chunks : PageOf(c) >= p - 1 => Count(c.id) = 0 \/ TimedOut
      BY <1>0, <2>2, PageChunks DEF VInv, CoverSound, Covering, At
    <3>2. \A c \in chunks :
            /\ Count(c.id) \in Nat /\ PageOf(c) \in Nat /\ PageOf(c)' = PageOf(c)
            /\ Count(c.id)' = Count(c.id) + IF PageOf(c) = p - 1 THEN 1 ELSE 0
      BY <1>0, <2>1, <3>1, InsertCounts, BeforeFacts DEF PageOf, Before, VInv, IInv
    <3>3. ASSUME NEW c \in chunks PROVE PageOf(c) < p => Covered(c)'
      BY <2>2, <3>1, <3>2 DEF Covered
    <3>4. ASSUME NEW c \in chunks PROVE PageOf(c) >= p => Count(c.id)' = 0 \/ TimedOut'
      BY <2>2, <3>1, <3>2
    <3>5. /\ work'[t].page > 0 /\ work'[t].page - 1 = p
          /\ task'[t].at # "insert" /\ task'[t].at # "mark"
      BY <2>2, <2>3, <3>1
    <3>. QED
      BY <1>0, <3>2, <3>3, <3>4, <3>5 DEF CoverSound, At
  <2>. QED
    BY <1>0, <2>3, <2>4, IndexRunning, RunCovers
<1>. QED
  BY <1>1, <1>2

\* A batch that timed out may be in the store, and is tried again or given up.
LEMMA TimeoutCovers ==
  ASSUME IInv, VInv, NEW t \in IndexTasks, BatchTimesOut(t), TimedOut' PROVE VInv'
<1>0. /\ task[t].at = "insert" /\ UNCHANGED <<chunks, lastChunk, disturbed>>
      /\ vectors' = vectors \/ vectors' = Inserted(t)
  BY DEF BatchTimesOut, At
<1>1. CASE Goes(t, "retrying") /\ UNCHANGED work
  BY <1>0, <1>1, RunStops
<1>2. CASE Sets(t, [work[t] EXCEPT !.attempt = @ + 1]) /\ UNCHANGED task
  <2>. DEFINE p == work[t].page
              w == [work[t] EXCEPT !.attempt = @ + 1]
  <2>1. p \in Nat /\ w.page = p /\ w.batch = work[t].batch
    BY <1>0, IndexRunning DEF IndexWork
  <2>. HIDE DEF w
  <2>2. Sets(t, w)
    BY <1>2 DEF w
  <2>3. Alone(t) /\ work'[t] = w /\ task'[t].at = "insert"
    BY <1>0, <1>2, <2>2, RunGoes
  <2>4. CoverSound(t)'
    <3>. SUFFICES ASSUME t \notin disturbed PROVE CoverSound(t)'
      BY <1>0 DEF CoverSound
    <3>1. /\ work[t].batch = Page(p) /\ p > 0
          /\ \A c \in chunks : PageOf(c) < p - 1 => Covered(c)
      BY <1>0 DEF VInv, CoverSound, Covering, At
    <3>2. /\ Page(p) = {c \in chunks : PageOf(c) = p - 1} /\ \A q : Page(q)' = Page(q)
          /\ \A c : PageOf(c)' = PageOf(c)
      BY <1>0, <2>1, PageChunks DEF Page, PageOf, Before
    <3>3. ASSUME NEW c \in chunks, PageOf(c) < p - 1 PROVE Covered(c)'
      <4>1. PageOf(c) # p - 1 /\ Covered(c)
        BY <2>1, <3>1, <3>3, BeforeFacts DEF VInv, IInv
      <4>2. CASE vectors' = vectors
        BY <4>1, <4>2 DEF Covered, Count
      <4>3. CASE vectors' = Inserted(t)
        <5>1. work[t].batch \subseteq chunks /\ c \notin work[t].batch
          BY <3>1, <3>2, <4>1
        <5>2. Count(c.id)' = Count(c.id)
          BY <4>3, <5>1, InsertCounts
        <5>. QED
          BY <4>1, <5>2 DEF Covered
      <4>. QED
        BY <1>0, <4>2, <4>3
    <3>. QED
      BY <1>0, <2>1, <2>3, <3>1, <3>2, <3>3 DEF CoverSound, At
  <2>. QED
    BY <1>0, <2>3, <2>4, IndexRunning, RunCovers
<1>. QED
  BY <1>1, <1>2 DEF BatchTimesOut, Attempts

LEMMA LimitedCovers ==
  ASSUME IInv, VInv, NEW t \in IndexTasks, BatchLimited(t), TimedOut => TimedOut' PROVE VInv'
<1>0. task[t].at = "insert" /\ UNCHANGED <<chunks, lastChunk, vectors, disturbed>>
  BY DEF BatchLimited, At, store
<1>1. CASE Goes(t, "failing") /\ UNCHANGED work
  BY <1>0, <1>1, RunStops
<1>2. CASE Sets(t, [work[t] EXCEPT !.attempt = @ + 1]) /\ UNCHANGED task
  <2>. DEFINE w == [work[t] EXCEPT !.attempt = @ + 1]
  <2>1. w.page = work[t].page /\ w.batch = work[t].batch
    BY <1>0, IndexRunning DEF IndexWork
  <2>. HIDE DEF w
  <2>2. Sets(t, w)
    BY <1>2 DEF w
  <2>3. Alone(t) /\ work'[t] = w
    BY <1>0, <1>2, <2>2, RunGoes
  <2>4. \A u \in IndexTasks : u # t => work'[u] = work[u]
    BY <2>3 DEF Alone, Tasks
  <2>. QED
    BY <1>0, <1>2, <2>1, <2>3, <2>4, QuietCovers DEF Running
<1>. QED
  BY <1>1, <1>2 DEF BatchLimited, Attempts

-----------------------------------------------------------------------------
(* The steps beside a run *)

\* The one process of the index worker takes a message only when it is free.
LEMMA StartIndexCovers ==
  ASSUME IInv, VInv, IndexSlots = 1, NEW t \in IndexTasks, StartIndex(t) PROVE VInv'
<1>1. /\ t \in Tasks /\ TypeOK /\ task[t].at = "queued" /\ UNCHANGED <<chunks, lastChunk>>
      /\ task[t].at \notin Ended \cup {"chained"} /\ Cardinality({u \in IndexTasks : Running(u)}) < 1
  BY IndexFacts DEF StartIndex, At, Ended, SlotFree
<1>2. GivesUp(t, FALSE) \/ (Goes(t, "claim") /\ UNCHANGED work)
  BY DEF StartIndex
<1>3. Alone(t) /\ task'[t].at \notin Covering
  <2>1. CASE GivesUp(t, FALSE)
    BY <1>1, <2>1, GivesUpAlone DEF Covering
  <2>2. CASE Goes(t, "claim") /\ UNCHANGED work
    <3>1. "claim" \in Places \ {"idle"}
      BY DEF Places
    <3>. QED
      BY <1>1, <2>2, <3>1, GoesAlone DEF Covering
  <2>. QED
    BY <1>2, <2>1, <2>2
<1>4. \A u \in IndexTasks : ~Running(u)
  <2>. SUFFICES ASSUME NEW u \in IndexTasks, Running(u) PROVE FALSE
    OBVIOUS
  <2>1. {v \in IndexTasks : Running(v)} = {u}
    BY DEF VInv, OneIndexer
  <2>2. Cardinality({u}) = 1
    BY FS_Singleton
  <2>. QED
    BY <1>1, <2>1, <2>2
<1>5. \A u \in IndexTasks : u # t => ~Running(u)' /\ task'[u].at \notin Covering
  BY <1>3, <1>4 DEF Alone, Tasks, Running, Resting, Covering
<1>6. OneIndexer' /\ ChunksNumbered'
  BY <1>1, <1>5 DEF VInv, OneIndexer, ChunksNumbered
<1>7. \A u \in IndexTasks : CoverSound(u)'
  BY <1>3, <1>5 DEF CoverSound
<1>. QED
  BY <1>6, <1>7 DEF VInv

LEMMA ClaimIndexCovers ==
  ASSUME IInv, VInv, NEW t \in IndexTasks, ClaimIndex(t), TimedOut => TimedOut' PROVE VInv'
<1>1. /\ t \in Tasks /\ TypeOK /\ task[t].at = "claim" /\ Running(t) /\ UNCHANGED work
      /\ task[t].at \notin Ended \cup {"chained"} /\ UNCHANGED store
      /\ {"create", "failed"} \subseteq Places \ ({"idle"} \cup Covering)
  BY IndexFacts DEF ClaimIndex, At, Ended, Running, Resting, Places, Owning, Covering
<1>2. Goes(t, "create") \/ Goes(t, "failed")
  BY DEF ClaimIndex, Claim
<1>. QED
  BY <1>1, <1>2, GoesAlone, AloneCovers

\* Replacing the chunks of a file disturbs every run; the new chunk has a new number.
LEMMA ReplaceCovers == ASSUME IInv, VInv, NEW t \in FileTasks, CommitReplace(t) PROVE VInv'
<1>. DEFINE new == [id |-> lastChunk + 1, asset |-> work[t].asset]
            w == [work[t] EXCEPT !.todo = @ \ {work[t].asset}, !.asset = None,
                                 !.old = {}, !.wrote = TRUE]
<1>1. /\ task[t].at = "replace" /\ Goes(t, "next_asset") /\ Sets(t, w) /\ disturbed' = IndexTasks
      /\ chunks' = (chunks \ work[t].old) \cup {new} /\ lastChunk' = lastChunk + 1
  BY DEF CommitReplace, At, Replaced
<1>2. t \in Tasks /\ t \notin IndexTasks /\ TypeOK
  BY <1>1, LoopFacts
<1>3. \A u \in IndexTasks : Running(u)' <=> Running(u)
  BY <1>1, <1>2 DEF Goes, TypeOK, Running, Tasks
<1>4. OneIndexer' /\ \A u \in IndexTasks : CoverSound(u)'
  BY <1>1, <1>3 DEF VInv, OneIndexer, CoverSound
<1>5. lastChunk \in Nat /\ new.id = lastChunk + 1 /\ \A c \in chunks : c.id \in Nat /\ c.id <= lastChunk
  BY <1>2 DEF TypeOK, Chunk, VInv, ChunksNumbered
<1>. HIDE DEF new
<1>6. IsFiniteSet(chunks')
  <2>1. IsFiniteSet(chunks \ work[t].old)
    BY FS_Subset DEF VInv, ChunksNumbered
  <2>. QED
    BY <1>1, <2>1, FS_AddElement
<1>7. \A c \in chunks' : c.id <= lastChunk'
  BY <1>1, <1>5
<1>8. \A c, d \in chunks' : c.id = d.id => c = d
  <2>1. \A c \in chunks : c.id # new.id
    BY <1>5
  <2>. QED
    BY <1>1, <2>1 DEF VInv, ChunksNumbered
<1>. QED
  BY <1>4, <1>6, <1>7, <1>8 DEF VInv, ChunksNumbered

\* The other steps of a file task touch neither chunks nor vectors.
LEMMA FileCovers ==
  ASSUME IInv, VInv, NEW t \in FileTasks, TimedOut => TimedOut',
         \/ StartFile(t) \/ ClaimFile(t) \/ Lookup(t) \/ FilesDone(t)
         \/ \E a \in Assets : SkipAsset(t, a) \/ DeleteOld(t, a)
  PROVE  VInv'
<1>1. /\ t \in Tasks /\ t \notin IndexTasks /\ TypeOK /\ UNCHANGED store
      /\ task[t].at \in {"queued", "claim", "lookup", "next_asset"}
  BY TaskAssumption DEF StartFile, ClaimFile, Lookup, FilesDone, SkipAsset, DeleteOld, At, Tasks, IInv
<1>2. \/ UNCHANGED task /\ \E w : Sets(t, w)
      \/ GivesUp(t, FALSE)
      \/ \E p \in {"claim", "next_asset", "lookup", "return", "replace", "mark", "failing"} :
            Goes(t, p) /\ (UNCHANGED work \/ \E w : Sets(t, w))
  BY DEF StartFile, ClaimFile, Lookup, FilesDone, SkipAsset, DeleteOld, Claim
<1>3. /\ task[t].at \notin Ended \cup {"chained"} /\ task[t].at # "idle"
      /\ {"claim", "next_asset", "lookup", "return", "replace", "mark", "failing"} \subseteq Places \ {"idle"}
  BY <1>1 DEF Ended, Places, Owning
<1>4. Alone(t)
  <2>1. CASE UNCHANGED task /\ \E w : Sets(t, w)
    BY <1>1, <1>3, <2>1 DEF Alone, Sets, TypeOK
  <2>2. CASE GivesUp(t, FALSE)
    BY <1>1, <1>3, <2>2, GivesUpAlone
  <2>3. ASSUME NEW p \in {"claim", "next_asset", "lookup", "return", "replace", "mark", "failing"},
               Goes(t, p), UNCHANGED work \/ \E w : Sets(t, w)
        PROVE  Alone(t)
    BY <1>1, <1>3, <2>3, GoesAlone
  <2>. QED
    BY <1>2, <2>1, <2>2, <2>3
<1>. QED
  BY <1>1, <1>4, AloneCovers

\* The end of a task, of either kind, and its failures.
LEMMA EndCovers ==
  ASSUME IInv, VInv, NEW t \in Tasks, TimedOut => TimedOut',
         MarkSuccess(t) \/ MarkFailed(t) \/ Raise(t) \/ TimeLimit(t)
  PROVE  VInv'
<1>1. /\ TypeOK /\ UNCHANGED store /\ task[t].at \notin Ended \cup {"chained"} /\ Running(t)
  BY DEF MarkSuccess, MarkFailed, Raise, TimeLimit, At, Running, Resting, Ended, IInv
<1>2. \/ \E r \in BOOLEAN : GivesUp(t, r)
      \/ \E p \in {"return", "failing", "retrying", "failed"} :
            Goes(t, p) /\ (UNCHANGED work \/ \E w : Sets(t, w))
  BY DEF MarkSuccess, MarkFailed, Raise, TimeLimit, At
<1>3. {"return", "failing", "retrying", "failed"} \subseteq Places \ ({"idle"} \cup Covering)
  BY DEF Places, Owning, Resting, Covering
<1>4. Alone(t) /\ task'[t].at \notin Covering
  <2>1. ASSUME NEW r \in BOOLEAN, GivesUp(t, r) PROVE Alone(t) /\ task'[t].at \notin Covering
    BY <1>1, <2>1, GivesUpAlone DEF Covering
  <2>2. ASSUME NEW p \in {"return", "failing", "retrying", "failed"}, Goes(t, p),
               UNCHANGED work \/ \E w : Sets(t, w)
        PROVE  Alone(t) /\ task'[t].at \notin Covering
    BY <1>1, <1>3, <2>2, GoesAlone
  <2>. QED
    BY <1>2, <2>1, <2>2
<1>. QED
  BY <1>1, <1>4, AloneCovers

\* Submissions, a returning task, and a lost worker begin no run.
LEMMA ApiCovers ==
  ASSUME IInv, VInv, TimedOut => TimedOut',
         Api \/ (\E t \in Tasks : Return(t)) \/ Crash(FileTasks) \/ Crash(IndexTasks)
  PROVE  VInv'
<1>1. UNCHANGED <<chunks, lastChunk, vectors, disturbed>>
  BY DEF Api, Upload, SubmitFile, SubmitIndex, Return, Crash, store
<1>2. ASSUME NEW u \in IndexTasks
      PROVE  Same(u) \/ task'[u].at \in {"queued", "chained", "succeeded"}
                     \/ (task'[u] = task[u] /\ ~Running(u))
  <2>1. u \in Tasks /\ TypeOK /\ task[u] \in Task /\ u \notin FileTasks
    BY IndexFacts DEF TypeOK
  <2>2. CASE \E a \in Assets : Upload(a)
    BY <2>2 DEF Upload, Same
  <2>3. ASSUME NEW t \in FileTasks, NEW scope, NEW split, NEW then, SubmitFile(t, scope, split, then)
        PROVE  Same(u) \/ task'[u].at \in {"queued", "chained", "succeeded"}
    BY <2>1, <2>3 DEF SubmitFile, Same, Task
  <2>4. ASSUME NEW t \in IndexTasks, SubmitIndex(t)
        PROVE  Same(u) \/ task'[u].at \in {"queued", "chained", "succeeded"}
    BY <2>1, <2>4 DEF SubmitIndex, Goes, Same, TypeOK, Task
  <2>5. ASSUME NEW t \in Tasks, Return(t)
        PROVE  Same(u) \/ task'[u].at \in {"queued", "chained", "succeeded"}
    BY <2>1, <2>5 DEF Return, Sets, Same, TypeOK, Task
  <2>6. CASE Crash(FileTasks)
    BY <2>1, <2>6 DEF Crash, Same, TypeOK
  <2>7. CASE Crash(IndexTasks)
    BY <2>1, <2>7 DEF Crash, Task
  <2>. QED
    BY <2>2, <2>3, <2>4, <2>5, <2>6, <2>7 DEF Api
<1>3. ASSUME NEW u \in IndexTasks
      PROVE  /\ Running(u)' => Running(u)
             /\ task'[u].at \in Covering => Same(u)
  BY <1>2 DEF Same, Running, Resting, Covering
<1>. QED
  BY <1>1, <1>3, QuietCovers DEF Same

-----------------------------------------------------------------------------

LEMMA CoversInit == ASSUME Init PROVE VInv
<1>1. \A t \in IndexTasks : task[t].at = "idle"
  BY DEF Init, NoTask, Tasks
<1>2. OneIndexer /\ \A t \in IndexTasks : CoverSound(t)
  BY <1>1 DEF OneIndexer, CoverSound, Running, Resting, Covering
<1>3. ChunksNumbered
  BY FS_EmptySet DEF Init, ChunksNumbered
<1>. QED
  BY <1>2, <1>3 DEF VInv

LEMMA CoversNext == ASSUME IInv, VInv, IndexSlots = 1, [Next]_vars PROVE VInv'
<1>0. (NoFault \/ \E kind : Fault(kind)) \/ UNCHANGED faults
  BY DEF Next, Api, FileStep, IndexStep, EndStep, vars, Upload, SubmitFile, SubmitIndex, MarkSuccess,
         MarkFailed, Return, Raise, StartFile, ClaimFile, Lookup, SkipAsset, DeleteOld, CommitReplace,
         FilesDone, StartIndex, ClaimIndex, CreateCollection, ReadPage, InsertBatch, BatchTimesOut,
         BatchLimited, Cleanup, Crash, TimeLimit
<1>1. (\A kind : Fault(kind) => Happened(kind)') /\ (TimedOut => TimedOut')
  BY <1>0, FaultsLogged DEF IInv, NoFault, TimedOut
<1>2. CASE Api \/ (\E t \in Tasks : Return(t)) \/ Crash(FileTasks) \/ Crash(IndexTasks)
  BY <1>1, <1>2, ApiCovers
<1>3. ASSUME NEW t \in FileTasks, StartFile(t) \/ FileStep(t) PROVE VInv'
  BY <1>1, <1>3, FileCovers, ReplaceCovers DEF FileStep
<1>4. ASSUME NEW t \in IndexTasks, StartIndex(t) \/ IndexStep(t) PROVE VInv'
  <2>1. CASE BatchTimesOut(t)
    BY <1>1, <2>1, TimeoutCovers DEF BatchTimesOut, TimedOut
  <2>. QED
    BY <1>1, <1>4, <2>1, StartIndexCovers, ClaimIndexCovers, CreateCovers, ReadCovers, InsertCovers,
       LimitedCovers DEF IndexStep
<1>5. ASSUME NEW t \in Tasks, MarkSuccess(t) \/ MarkFailed(t) \/ Raise(t) \/ TimeLimit(t) PROVE VInv'
  BY <1>1, <1>5, EndCovers
<1>6. CASE UNCHANGED vars \/ \E e \in executions : Cleanup(e)
  <2>1. UNCHANGED <<task, work, chunks, lastChunk, vectors, disturbed>>
    BY <1>6 DEF vars, Cleanup, store
  <2>. QED
    BY <1>1, <2>1, QuietCovers DEF Running
<1>. QED
  BY <1>2, <1>3, <1>4, <1>5, <1>6 DEF Next, EndStep

\* With the one process the index worker is given, a run that ends well and under
\* which no chunk was replaced leaves every chunk with a vector, and with one only
\* unless a batch had timed out, whatever failed or was retried before it.
THEOREM IndexRunsCover == ASSUME IndexSlots = 1 PROVE Spec => []IndexRunCoversChunks
<1>1. VInv => IndexRunCoversChunks
  BY DEF VInv, CoverSound, Covering, Covered, TimedOut, At, IndexRunCoversChunks
<1>2. IInv /\ VInv /\ [Next]_vars => VInv'
  BY CoversNext
<1>. QED
  BY <1>1, <1>2, CoversInit, InvHolds, PTL DEF Spec
==============================================================================
