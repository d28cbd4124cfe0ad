# Verification of mini-rag-agent

TLA+ models of the parts of mini-rag-agent in which order, failure and concurrency matter, the TLC
configurations that check them on small instances, and proofs, checked by TLAPS, of what holds for
every value of the constants. The code is under `src/src/`; paths below are relative to it unless
they start with `src/`. `PROJECT.json` maps every definition that models code to the lines it models.

## 1. The system

mini-rag-agent is a retrieval-augmented question-answering backend. A FastAPI application (uvicorn
with four worker processes, `src/docker/mini_rag/Dockerfile:42`) serves projects, uploads, search, and
two agents built on LangGraph; Celery workers ingest files; PostgreSQL keeps the data, the agents'
checkpoints and the vectors; Redis keeps browser sessions; RabbitMQ carries the tasks.

| Part | State it keeps | Operations | Talks to |
|---|---|---|---|
| Multi-agent workflow (`agents/multi_agent/`) | one checkpoint per thread: the task, who works on it, what the user was asked | `chat`, `resume`; the nodes of the graph | language models, the knowledge agent, the email tool |
| Email delivery (`email_agent.py`, `email_hitl.py`, `tools/SendEmailTool.py`, `infrastructure/email/`) | the pending approval (in the checkpoint); completed deliveries (in the memory of one process) | draft, approve, reject, ask again, send | the mail server |
| Knowledge agent (`agents/knowledge_agent/`) | a second checkpoint per thread | `run`, `resume`, `cancel_pending`, streams, `clear_memory` | language models, search, tools |
| Thread lock (`utils/async_keyed_lock.py`, `routes/agents.py`) | a registry of asyncio locks per process; one advisory lock per key in PostgreSQL | `acquire`, release | the connection pool |
| Ingestion (`tasks/`, `models/TaskExecutionModel.py`, `models/ChunkModel.py`, `stores/vectordb/`) | idempotency records, chunks, vectors | split files into chunks, index chunks, clean up records | RabbitMQ, the embedding provider |
| Conversation ownership (`models/ConversationThreadModel.py`) | the owner of each thread | claim or require | PostgreSQL |
| Sessions and demo (`authentication/`, `tasks/demo_cleanup.py`) | browser sessions, sign-in transactions, counters | sign in, refresh, log out, demo sessions and their cleanup | Redis, the identity provider |
| Projects, memberships, audit | rows with quotas and roles | create, grant, revoke, record | PostgreSQL |
| Retrieval, language model providers, tools, evaluation, observability, front end | none that outlives a call | calls | outside services |

How they interact:

- A request to the multi-agent API takes the thread lock under the key `multi-agent:{project}:{thread}`,
  checks the thread's owner in a transaction of its own, and runs the graph to its end or to a
  question. The graph reads its checkpoint when a turn begins and writes one after each super-step, in
  the background, while the next super-steps already run.
- The knowledge specialist of the workflow calls the knowledge agent, which keeps its own checkpoint
  under the same thread. The knowledge API calls the same agent directly, under the key
  `{project}:{thread}`.
- An upload adds an asset. The process and index endpoints queue a task; the process-and-push endpoint
  queues a chain of both. Tasks meet through their idempotency records and through the chunks.

What makes this hard: two checkpoints of one conversation that must agree; prompts that are answered
by replies which name nothing; side effects (email) on a path that may be replayed; workers that die
between two checkpoints or with an unacknowledged message; a lock built of three layers that share a
pool with its own users; a claim in a table that outlives the process that made it.

### What makes each component correct

- *Workflow*: a waiting task can always be identified and the reply reaches the agent that asked; the
  response tells the state it leaves; a switch confirmation exists only over a waiting task; agents work
  on what the user asked for; handoffs end; a thread stays usable.
- *Email*: an approval id stands for one draft; only what was shown is sent; once.
- *Knowledge agent*: paused exactly when the workflow waits for it; the conversation sent to a model is one a
  provider accepts, and what it shows can be cited; iterations bound what a message may cost; the question the user
  sees is the one that is open.
- *Lock*: one turn per key across processes, one connection per key in a process, exact registry, no
  request stuck for ever, no two turns on one checkpoint.
- *Ingestion*: one run per key; a recorded success is true; an index run covers the chunks; every task
  ends; claimed work is done.
- *Sessions and demo*: refreshes do not prolong a session beyond its absolute deadline; what has ended stays ended; a
  sign-in transaction gives one session; a demo has its role while it lives, and leaves none behind.
- *Projects, ownership, audit*: one owner per thread; the quota of a creator; roles and owners go back to recorded decisions.

### Hazards

`PROJECT.json` lists them, each at its line, with the properties that would catch it. Those without a
property say why: the models have the behaviour and no promise of the code survives it (section 8), or it lies in
text that the models abstract from.

## 2. Plan

Modules in the order of their weight in the system; all are written, checked and have proofs:

1. `MultiAgentWorkflow`: one thread of the workflow with email and faults.
2. `ThreadLocks`: the routes, the registry, the pool and the advisory lock composed; it implements `KeyedMutex`.
3. `Ingestion`: both tasks, their records, chunks and vectors.
4. `KnowledgeAgent`: the knowledge graph with its tool loop, questions, memory and checkpoint; it implements
   `KnowledgeCore`, which is what the workflow and the API rely on.
5. `Sessions`: sign-in transactions, sessions, demo roles and their cleanup.
6. `Tenancy`: projects, roles, audit events and the claims of threads; it implements `ThreadOwnership`.

Each abstract module is a page; the detailed one is related to it by `INSTANCE ... WITH` and checked as a property
before it is proved. What composes: `ThreadLocks` composes both agent APIs over one lock and one pool, and shows that
turns under one key exclude each other, which is what lets `MultiAgentWorkflow` and `KnowledgeAgent` treat one turn at a
time; `SharedCheckpoint` shows where that assumption fails.

Every safety property a run checks is stated by a theorem (section 6), and so is a bound on the turns of both agents.
Left for later: the same bound for the tasks of `Ingestion` and the requests of `ThreadLocks`; the conversation history
of the workflow; the splitter of `ProcessController` against a reference definition; and one module that runs both
agent APIs on one knowledge checkpoint.

## 3. The modules and the code

### MultiAgentWorkflow

One conversation thread. `ck` is the graph state with the fields of `MultiAgentState` (`state.py`) that
carry control; between turns it is the saved checkpoint, and `prev` is the one before it, which may be the
latest that reached PostgreSQL when a turn dies. `node` is the node to run next. `core` says whether the
knowledge agent's own checkpoint is paused. `issued` gives the draft of each approval id, `cache` is
`SendEmailTool._completed` of each worker, `outbox` what the mail server accepted. `shown`, `task` and
`declined` are history: the last response the user received, the request the user last asked to have worked
on, and the messages the user gave up by continuing that task.

| Action | Code |
|---|---|
| `Chat`, `Resume` | `runtime.py`: the input update of a turn (`NewMessageUpdate`, `ResumeUpdate`), on any worker |
| `Gate` | `conversation_gate.py` and its router; `GateDestination` is the whole decision |
| `Supervise` | `supervisor.py`: shortcuts, decision, retry, clarification of compound requests, resumption |
| `Specialist`, `Knowledge` | `utility_agent.py`, `general_agent.py`, `knowledge_adapter.py`, `handoff.py`, `specialist_hitl.py` |
| `EmailWithoutDraft`, `EmailDrafted`, `EmailNotApproved`, `SendApprovedEmail`, `EmailAccepted` | `email_agent.py`, `email_hitl.py`, `SendEmailTool.py`, `smtp_gateway.py`; delivery is two steps, because a worker may die between the server's answer and the tool's note of it |
| `ContinueCurrentTask`, `SwitchToNewRequest`, `Finish` | `nodes/terminal_nodes.py` and the unconditional edges of `graph.py` |
| `Reply` | `ainvoke` returns, the response is sent |
| `Abort`, `Restart` | a turn dies; a process dies and loses its delivery cache |

An update a node returns is an operator on graph states (`Paused`, `Ended`, `HandoffUpdate`, ...), so an action
is "apply one of these and ask the router for the next node". What a model answers is a choice among the
outcomes the code distinguishes; texts, histories and tool results are abstracted. Messages are members of
`Requests`; only whether one is a greeting or a compound request matters to the code.

### ThreadLocks and KeyedMutex

`turn` says where each request is, `local` and `users` are the registry of each worker's `AsyncKeyedLock`,
`advisory` is who holds PostgreSQL's lock of each key. The pool is not a variable: a connection is checked
out exactly in the places `Connected` names. `Arrive` and `AcquireLocal` are `AsyncKeyedLock.acquire`; `Connect`
to `Return` follow `PostgresAdvisoryKeyedLock.acquire` and the route around it, in which `_thread_access` takes a
second connection of the same pool; `Cancel`, `Kill` and `LoseSession` are the faults. `KeyedMutex` is the
promise, "Serialize a key across all API workers"; `ThreadLocks` implements it with `inside` mapped to the key
whose section each turn is in.

### Ingestion

`task` is each Celery task (where it is, its retries, its arguments, what follows it in its chain), `work` what
a running one holds in memory, `executions` the idempotency records, `chunks`, `lastChunk` and `vectors` the
tables. A step is what happens between two awaits: claim, lookup, one asset's `DELETE`, its commit, one page,
one batch, the final mark. `Raise` lets any await fail, `MarkFailed` is the exception handler (which may itself
fail), `GivesUp` is Celery's `autoretry_for`. `Crash` returns unacknowledged messages to the queue, `TimeLimit`
kills a task that Celery then acknowledges as failed. `Cleanup` is the maintenance task, one record at a time.
`disturbed` is history: the index tasks during whose run chunks were replaced.

### KnowledgeAgent and KnowledgeCore

One thread of the knowledge agent. `run` is the state of the graph in memory, `ck` the checkpoint the turn began with, and
`saves` the states it has handed over to be saved since; `turn` is the request being served. LangGraph saves in background
tasks that no super-step awaits, and a model call that blocks the event loop keeps them from moving, so nothing bounds how far
the checkpoint lags: a turn that is cut short leaves `ck` or any of `saves` (`CutShort`), while one that ends has waited for
its last save (`Respond`). A save that fails is reported when the graph is left, which `CutShort` at the last node covers.
Messages keep their kind, the number of calls they answer for and the chunks they show; tool executions keep their tool and
what they found. `shown`, `lost`, `calls`, `extra` and `reopened` are history: the question the user was last shown, whether
the last turn was cut short, the model calls since the user's message, a call under way at a cut included, the replies since
then to questions the model put in its content, and the cuts since then that left open a question whose reply had
been taken up.

| Action | Code |
|---|---|
| `Send`, `Reply`, `ClearMemory` | `graph.py`: `run` and `stream`, which refuse a message while a question is open; `resume` and `stream_resume`, which answer a reply that is none of its options with the question; `clear_memory`, which `controllers/KnowledgeAgentController.py` calls when it is confirmed |
| `BuildState` | `nodes/build_state.py`: memory is trimmed (`Retained`, `KeptHistory`), the fields of a turn are reset |
| `LLMDecision`, `RouteAfterLLM` | `nodes/llm_decision.py` and the router of `graph.py` |
| `ExecuteTool`, `UpdateMessages` | `nodes/execute_tool.py`, `nodes/update_messages.py`, `tools/ToolRegistry.py` |
| `RaiseGarbled`, `SkipBlank`, `Interrupt`, `TakeReply` | `nodes/request_clarification.py`: the node runs once to ask and once more to take the reply; `StableOptions` is the choice of its options |
| `FinalAnswer`, `Failure` | `nodes/final_answer.py`, `nodes/failure.py` |
| `Respond`, `CutShort` | the plain answer and the stream's last event, both after the last save; a client that leaves, a process that dies, a checkpointer that fails; any state saved in the turn may be the one that is left |

`KnowledgeCore` is what callers are promised: one request at a time; a question stays open, with the same options,
until a reply that is one of them is taken up or the memory is cleared.

### Sessions

`signIns` and `keys` are Redis: when each sign-in transaction expires, and the record of each session with the time its
key goes. `members` are the demo sessions that have the viewer role in PostgreSQL. A request bears the name of the
session it creates. An action is one Redis call, one transaction or one call of the identity provider: `Login`,
`Callback`, `TakeSignIn`, `Exchange` and `CreateSession` follow `oidc.py` and `routes/auth.py`; `Demo`, `Grant` and
`UndoDemo` the demo sign-in; `Authenticate`, `Check`, `Drop` and `Save` are `authenticate` in `sessions.py`, which reads a
session, refreshes it and writes it back; `EndSession` and `Revoke` are the logout; `StartCleanup`, `MeetSession` and
`RemoveStale` the cleanup task, which scans the keys while they come and go. `Tick` is a second. `born`, `taken`, `ended`,
`overlapped` and `raced` are history.

### Tenancy and ThreadOwnership

`created`, `roles` and `threads` are the rows of three tables. A request passes the policy (`Policy`), has the decision
recorded (`Audit`), is served and, if it changed something, has that recorded (`Event`), each in a transaction of its own,
so that requests interleave between them. `Count` and `Insert` are a creation, `SelectMember`, `Grant`, `Refresh` and `Revoke`
the memberships, `CheckMember`, `FindThread` and `Claim` the ownership of a thread: an insert that violates the unique
constraint is rolled back and the claim tried once more. `together` and `granted` are history. `ThreadOwnership` is the
promise: the first who claims a thread owns it, and nobody else is served it. A platform admin passes the policy without
a role but is no member, so the claim refuses it; `OwnClaimNotRefused` says so.

### MC modules

They add the symmetry sets TLC uses. Symmetry is used only where the code compares values for equality and
only in runs without temporal properties that need fairness.

## 4. The runs

| Run | Instance | What it shows | Distinct states, time |
|---|---|---|---|
| `Workflow` | 3 requests (a greeting, a compound one, a plain one), 2 drafts, 2 approvals, 1 worker, no faults | what a thread tells and does in any sequence of messages, replies, interruptions and handoffs | 3.5 million (with symmetry), 1 min |
| `Faults` | 1 request, 2 workers, 2 drafts, one fault of any of the six kinds | a waiting task can be identified, an approval stands for one draft and the thread stays usable, when a turn or a process dies, a call fails, a response or an acknowledgement is lost | 4.5 million (with symmetry), 2 min |
| `OneWorker` | 1 request, 1 draft, 1 worker, two of: aborts, failing cancellations, lost acknowledgements of the mail server; fairness | every turn ends; a sole worker sends again only what a turn cut short brought back and it could not record | 776 000, 2 min |
| `Locks` | 3 requests of 2 threads, 2 workers, pools of 2, a cancelled stream or a killed worker | mutual exclusion, one session per key, the registry, the refinement of `KeyedMutex` | 114 000 (with symmetry), 20 s |
| `LocksLiveness` | 2 requests, 2 threads, 1 worker, pool of 2, a cancelled stream or a lost session, fairness | holders that starve each other of a second connection time out, so every request ends | 8 300, 5 s |
| `Ingest` | 2 file tasks on 2 processes, 1 index task, 2 files, pages of 1, one crash, connection error or batch timeout | one run per key, true cached results, complete index runs | 2.65 million (with symmetry), 2 min |
| `IngestFaults` | a chain of 1 file and 1 index task, 2 files of which 1 is empty, two faults of all seven kinds, fairness | every task ends; what leaves a claim behind | 120 000, 30 s |
| `Knowledge` | 3 requests of one thread, one of them cut short at any step and left in any state of its turn; 1 chunk, 2 files, 2 lists of tools, options that are labels or none, 2 iterations, memory of 7, fairness | conversations a provider accepts, citable results, what a message may cost in model calls, the open question, the refinement of `KnowledgeCore`, every turn ends | 481 000, 2 min |
| `Sessions` | 3 requests of any kind, 1 sign-in, timeouts of 2 and 3 seconds, the cleanup task, one failing call or death, fairness | deadlines stay, only an overlap undoes an end, a demo has its role, nothing is left behind | 1.1 million, 2.5 min |
| `Tenancy` | 3 requests by an admin, a member, a demo and a platform admin; 3 projects, a quota of 1, 1 thread, one failing call or death | roles, owners and answers go back to recorded decisions; claims, quota, the refinement of `ThreadOwnership` | 1.1 million, 1 min |
| `SharedCheckpoint`, `StaleOptions` | the smallest instance each | section 5 | seconds |

Why the bounds are enough. *Requests*: two messages that behave alike are only told apart by the history
variables, which need a third request to distinguish "the task", "the message that interrupted" and "another
one"; `Workflow` has three. *Drafts* and `MaxDrafts` = 2 let an approval be replaced by another of the same or of a
different draft. *Workers* = 2 tells "the same process" from "another". One fault (`MaxFaults` = 1) suffices for the
properties of `Faults`, each of which says what a single mishap may do; `OneWorker` has two, since a sole worker sends
twice only after a lost acknowledgement and an abort. The theorems of section 6 cover any number.
*Turns* = 3 with a pool of 2 is the least at which a request waits for the asyncio lock while another waits in
PostgreSQL and a third is inside, and, with two threads, at which two holders use up the pool of a third request. *PageSize* = 1
gives one page per chunk, so two files make an index run that reads two pages and an empty one; two retries of a
batch and one of a task reach both their success and their exhaustion. Two faults in `IngestFaults` let the
recording of a failure fail too, or a crash hit a retried task. In `Knowledge`, `MaxMemory` = 7 keeps four messages of an
earlier turn (three places are reserved), fewer than a turn with one response of two calls leaves, so the cut falls inside
a turn; two iterations let a question, a tool and the limit meet in one turn; three requests are a turn that asks, a reply
that is cut short in its model call and the same reply again, or a turn, its reply and the turn after. The lists of tools are a search
with a listing and a search with a question; `StaleOptions` also lets the model offer names. The counters saturate at
`CountLimit`, above all that `IterationsBounded` allows in these bounds. In `Sessions` three requests are a session, a request that refreshes it and a
logout, or two callbacks of one sign-in; timeouts of two and three seconds make the idle and the absolute deadline fall
apart, and requests arrive for as long as a session may live. In `Tenancy` three requests and a quota of one let two
creations, or two claims of a thread, overlap beside a revocation.

Deadlock is checked where the system never stops. `Ingestion` really stops: when every task has ended and every record
is cleaned up there is nothing left to do. So do the models of requests that are bounded in number, `KnowledgeAgent`,
`Sessions` and `Tenancy`, once the last of them is served.

Fairness. A turn of the workflow keeps running (`WF(Step)`): each await in a node returns or raises, as provider
and SMTP calls have timeouts; users owe nothing. In `ThreadLocks` the queues of `asyncio.Lock` and of PostgreSQL are
first come, first served, modelled as strong fairness of each waiter; a place in the pool is given or times out.
In `Ingestion` workers keep consuming (strong fairness of starting a task, since a slot comes and goes) and an
awaited call returns or raises. In `KnowledgeAgent` the nodes of a turn go on (provider calls have timeouts) and the end of a turn is
answered. In `Sessions` time passes, requests that have begun go on and the beat of Celery starts the cleanup again and
again; a cleanup that fails is no fair step and bounded, so a later one completes. `Tenancy` has only safety. No fault is ever fair.

## 5. Where the code and what is said of it part

Two runs TLC must find violated:

- `SharedCheckpoint`: the two APIs lock different keys and run the knowledge graph on one checkpoint
  (`routes/agents.py:213`), where `src/README.md:649` says that "PostgreSQL advisory locks prevent two API workers from
  modifying one thread concurrently."
- `StaleOptions`: a second question of one turn that offers the names of listed files is shown with the options of the
  first (`agents/knowledge_agent/nodes/request_clarification.py:230`), though the options are kept stable because the model "may
  otherwise replace real filenames with labels" (line 64).

Four more are pinned by the exception in a property of a passing run, which is as strong as the code allows:

- A message that interrupts a waiting routing question replaces `user_message` (`agents/multi_agent/runtime.py:134`); the resumed
  supervisor is told to "Route the original request using the user's clarification." (`supervisor.py:409`) with the message
  the user declined, and `ContinueCurrentTaskNode` (`nodes/terminal_nodes.py:118`) restores the prompt only.
  `RunsOnlyAskedRequests` therefore admits `declined`.
- A turn that dies after the supervisor wrote RUNNING leaves a checkpoint the gate takes for a turn in progress
  (`agents/multi_agent/conversation_gate.py:100`); every later message of the thread is rejected, "The active task is still running."
  (line 106). `RejectedOnlyAfterCutTurn` says that nothing else does it.
- Completed deliveries live in the memory of one of four processes (`agents/tools/SendEmailTool.py:35`,
  `src/docker/mini_rag/Dockerfile:42`); an approval replayed on another is sent again, where
  `src/tests/test_send_email_tool.py:46` is named `test_same_approval_id_is_delivered_once`. `DuplicateNeedsLostCache` says when:
  after a restart, or after an abort when there is another worker, or when the sole worker could not record the delivery
  because the server's acknowledgement was lost.
- A redelivered task meets its own RUNNING record, reports success and does nothing (`tasks/file_processing.py:263`); the
  lease that `models/TaskExecutionModel.py:63` writes is never read, where `celery_app.py:97` counts on late acknowledgement to
  prevent "task loss on worker crash". `AbandonedClaimNeedsDeadRun` says which runs leave such a record.

## 6. What is proved

TLAPS checks every theorem for any requests, drafts, tasks, files, workers, pools, timeouts, limits and faults that satisfy
the assumptions of the modules (sets of values are disjoint from the string `"none"`, bounds are natural numbers,
faults are of the known kinds; `Turns` and `Workers` are finite).

**MultiAgentWorkflowProofs.** `TypeCorrect`, `PendingTasksWellFormed`, `VisitsMatchCount`, `ApprovalsBindDrafts`. The inductive
invariant is the conjunction of the four. Each part speaks of `ck` *and* `prev`, since an aborted turn falls back to
the earlier checkpoint: without the second half the invariant would not survive `Abort`. The proof shows once per
update operator that it keeps a graph state `Good`, and once per router that a `Good` state is sent to a node that may
run on it; an action then names its update. `ApprovalBindsDraft` needs no assumption on faults: restarts empty a
cache, and aborts restore a checkpoint whose approval was issued before.

**MultiAgentWorkflowClaims.** What a thread promises its user. Faults break most of these promises, so each theorem says
which: it holds, for any faults, until one of those named has happened.

| Theorem | Property | Until |
|---|---|---|
| `ResponsesTellState` | `ResponseTellsState` | (always) |
| `RejectsOnlyAfterCut` | `RejectedOnlyAfterCutTurn` | (always) |
| `KnowledgePausesAgree` | `KnowledgePendingAgrees` | a turn cut short (abort, restart), a failing cancellation, a knowledge call that raises |
| `AgentsRunAskedRequests` | `RunsOnlyAskedRequests` | a turn cut short, a failing cancellation |
| `DeliveriesWereShown`, `ApprovedDraftsWereShown` | `ApprovedDraftWasShown` | a turn cut short, a lost response |
| `DuplicatesNeedLostCache` | `DuplicateNeedsLostCache` | (always) |
| `TurnsDescend`, `TurnsAreBounded` | the safety half of `TurnEnds` | (always) |

The invariant `Promises` adds five parts to the one above. `Placed`: the state fits the node it is at, and a pending email
approval is the one the last response asks about, in `ck` and `prev`. `NotBusy`: no node that is reached between two tasks finds
one running. `PauseShared`: the knowledge agent is paused exactly when the workflow waits for it or is about to say
so. `OnTask`: the user's message is the task, a declined one, or one the gate is holding back. `Seen`: while a
task waits, the user has seen the response that left it waiting. What an agent's update and the router behind it yield is
stated once (`Yields`) and used for every agent. Duplicates need an invariant of their own, `Deliveries`: while no turn is cut
short an approval that was sent is not pending (`SentOnce`), and a sole worker that keeps its memory has recorded what it
could be asked again, in the checkpoint or the one an abort falls back to (`SentIsRecorded`). `StepsLeft` counts the steps a turn
may still take: a supervisor and a specialist for every handoff left, and what follows. It falls with every step, so a
turn takes at most twelve; `runtime.py` relies on that, as it leaves the recursion limit of the graph at its default.

**ThreadLocksProofs.** `TypeCorrect`, `OneSession`, `EntriesCounted`, and, under the hypothesis that no session is lost
(`"disconnect" \notin Faults`), `MutualExclusion` and `Refinement`. The invariant adds `HoldsEntry` (a turn past the wait
holds its worker's entry) and the count of each registry entry against the set of turns using it; `HoldsAdvisory` (a
turn inside holds the advisory lock) gives exclusion and the refinement: a step either lets one turn in whose key
nobody was in, or only lets turns out. The hypothesis is needed: a session that PostgreSQL drops while its turn
works releases the lock, and a second turn enters.

**IngestionProofs.** `TypeCorrect`, `OneRun`, `CachedResultsTrue`. The invariant says where each kind of task may be and
what it holds there (`Placed`), that a task past its claim has the RUNNING record of its key (`Owns`), that keys are unique,
and that the files a run has taken off its list have chunks (`Progress`). The last one is what makes a cached result
true: a replacement adds a chunk of the asset in the very commit that deletes the old ones, so no step of any task
leaves a file that had chunks without any, and a run that marks SUCCESS has emptied its list.

**IngestionClaims.** `AbandonedClaims`, that `AbandonedClaimNeedsDeadRun` always holds. On top of the invariant above it
needs to know that a task at work is never queued by the end of another, hence `Chained`: the rest of a chain waits,
for one task only, until that task ends. Then a RUNNING record loses its owner only in a crash, at the time limit, or
or when the recording of a failure fails too.

The module also proves `IndexRunsCover`, that `IndexRunCoversChunks` always holds, for one index process (`IndexSlots` = 1, which is
what `src/docker/docker-compose.yml:250` starts). The hypothesis is needed: with two, TLC finds a second run of the project under
another key whose `create_collection` drops the vectors of the first. The invariant `VInv` says that while no chunk is
replaced, every chunk of the pages a run has left behind has its vector and no later chunk has one unless a batch timed
out (`CoverSound`), and that ids of chunks are distinct and grow (`ChunksNumbered`). Its lemma `PagesFilled` is the step the code
leaves implicit: an empty page means that every chunk lies on an earlier one.

**KnowledgeAgentProofs.** `TypeCorrect`, `ConversationsKept`, `ResultsCitable`, `IterationsAreBounded`, `ShownIsOpen` and
`CoreImplemented`: all the safety its run checks. What is saved, and so the checkpoint, is always an earlier state of the graph, so one predicate
on states, `StateSound`, is kept by every node for `run` and inherited by `saves` and `ck`; that covers cuts at any point and any
lag of the checkpoint. Messages and
tool history are trimmed by different rules, so that "shown implies found" is not inductive; `Citable` is: a chunk shown in
the i-th message from the end was found by one of the last i executions. Every result message stands behind its
call and belongs to an execution, hence trimming the messages at least as short as the history keeps it. `IterationsBounded` limits the real
model calls since the user's message, those under way at a cut included, to the limit, one more for each reply to a question in
the content, and one less than the limit for each cut that left a question open again. The last term is what the lag of the
checkpoint costs: the question comes back with the iterations it had, at least one, and the same reply buys again the calls
that were left. `Budget` says so of every state that may be left: the calls made and those still left there (`Left`) are
within the allowance, for `run` and, once a cut has chosen one, for `ck`; a node on its way to the model has a call left
(`Calling`). The lemmas of the first half say what
trimming, appending and answering a batch of calls do to a conversation, for sequences of any length. `TurnsDescend` and
`TurnsAreBounded` are the safety half of `TurnEnds`: `StepsLeft` gives three steps to each model call that is left (the
call, the tool or question, what is made of it) and falls with every step of a turn, so that a turn takes at most
`3 * MaxIterations + 1` steps, 16 with the five iterations of `agents/knowledge_agent/graph.py:60`.

**SessionsProofs.** `TypeCorrect`, `DeadlinesKept`, `EndsLast`, `DemosHaveRoles`. The invariant says what a request holds at each
place (`RequestsSound`): in particular a request at work on a session holds one that was handed out, so its birth, and its
deadline, are fixed. `SessionsSound` and `TakenGone` say which sessions may be there and that a transaction taken is gone
for good; `EndedSound`, that a session may come back after its logout only if it was being refreshed just then; and
`RolesSound`, that a demo answered has its role unless it ended or a cleanup raced it.

**TenancyProofs.** `TypeCorrect`, `EffectsAudited`, `OwnClaims`, `LimitsHold`, `OwnershipImplemented`. `RequestsSound` gives the events a
request must have left at each place. `Traced` says that every role and every owner goes back to a request that took effect
with its decision on record; it lasts because what a request has done, and its events, are never taken back (`Lasts`). Creations are
excepted in the property itself: they pass no policy, so they have no decision, and only an event of their success after
their commit. `LimitSound` is the strengthening of the quota: of a principal outside `together` and
`granted`, at most one creation is past its count, and it still has room. `ClaimsSound` says that a claim is tried again only
when the thread has an owner, and that whoever passed the policy has a role until a revocation disturbs it.

Only model-checked: the liveness properties (`TurnEnds` of both agents, `EveryTurnEnds`, `TaskEnds`, `NothingIsLeft`), since what
follows from fairness needs `ENABLED`, which is out of the prover's reach. The two runs of section 5 that find a
violation show a behaviour and have no theorem.

## 7. What is left out of the modelled parts

- *Workflow*: conversation and tool history, listing and clearing memory, the texts of prompts. A restart between
  turns only empties a delivery cache, so `Restart` is a step of a turn. A hung turn is an aborted one. The saved
  checkpoint is taken to lag by at most one super-step: the nodes of this graph make their own model calls in threads, so the
  save of the step before goes on during a call, and the knowledge agent they await blocks the event loop only call by call.
  A save that is slower still is not modelled here, as it is in `KnowledgeAgent`.
- *Email*: the SMTP dialogue is one step that is accepted, fails, or is accepted and raises. Approval ids are numbered
  in order of issue; the code draws UUIDs, taken to be distinct.
- *Lock*: reading memory (`GET`) takes no lock and is left out, as is the pool traffic of other endpoints, which can
  only delay. Lock ids are 64 bits of a hash; collisions are ignored (they could only exclude more).
- *Ingestion*: one chunk record stands for all chunks one run wrote for an asset. Rows are paged in the order of their
  ids, as a heap without updates returns them. A claim whose commit succeeds while its reply is lost, and the
  deletion of assets and projects (which have no endpoint that tasks could meet), are not modelled. A task returns,
  queues its successor and is acknowledged in one step. The loss of a single pool process counts as a task that
  failed, as Celery acknowledges it; `Crash` is the loss of the worker or of its broker connection.
- *Knowledge agent*: the texts of messages, sources and stream events; the system prompt, which is rebuilt in each
  turn; the results of the tools beyond the chunks found and the names listed. The graph goes on while its states are
  saved, which is LangGraph's default and what the code, which asks for no other durability, gets; that LangGraph waits for
  the last save before it returns is taken from how the code uses it.
- *Sessions*: tokens, cookies and CSRF checks; a provider that answers accepts. A session's token is never guessed or
  reused.
- *Tenancy*: listings, names, and the deletion of projects, which has no endpoint. PostgreSQL runs at READ COMMITTED,
  its default; a statement sees what is committed when it starts.

### Not modelled

- *Qdrant provider*: `insert_many_vectors` takes other parameters than the indexing task passes, so the running system
  uses the other store.
- *Tools of the knowledge agent and of the specialists*: read-only calls without state; their answers are choices of the
  models that use them.
- *Language model providers and templates*: calls of outside services, translated message by message.
- *Splitter, answering*: pure functions of texts; nothing in the models depends on where a chunk begins.
- *Evaluation harness*: offline scoring, no shared state.
- *Start-up, observability, front end*: wiring, metrics and views; what they fix (workers, pools, timeouts) are constants.
- *Demo rate limiter and provisioning*: a counter per window that only refuses, and a script run once.

## 8. Known limits of the code that no property rules out

- The reply to a switch whose cancellation fails is still routed to the supervisor (`agents/multi_agent/graph.py:187`);
  its decision overwrites the failure.
- A reply names no prompt (`api_schemas.py:19`): after a response that was lost, a user may approve a draft they have
  not seen. `ApprovedDraftWasShown` therefore holds only until a response is lost or a turn is cut short.
- A wait for an asyncio lock that is cancelled leaves its registry entry counted for ever
  (`utils/async_keyed_lock.py:33`); `EntriesCountUsers` says so.
- A lost database session lets a second turn in while the first still works.
- Two runs for one file under different keys (by asset, by project) may leave the chunks of both
  (`models/ChunkModel.py:114`).
- The chain of process-and-push starts indexing although the file task only found an equal one running
  (`routes/workflow.py:35`), and the index run then covers the old chunks.
- Only the single process of the index worker keeps two index runs of one project apart when their keys differ; with
  a second process, one would drop the collection the other is filling.
- The demo cleanup says that it deletes "only `demo:` principals whose opaque BFF session no longer exists"
  (`tasks/demo_cleanup.py:22`), but a demo that starts, or is restored by a late refresh, during its scan loses its role:
  `raced` in `DemoHasItsRole`.
- A request that read a session before its logout writes it back (`authentication/sessions.py:177`), and a request that was slow
  to find a session expired may delete it after another has refreshed it; the user signs in again.
- The idle timeout may be configured longer than the absolute one; the earlier deadline holds.
- Two callbacks that both read a sign-in transaction before either deletes it both go on; that a code is
  accepted only once is left to the provider.
- Two creations of one user that are both counted before either inserts its project exceed the quota together
  (`models/ProjectModel.py:46`): `together` in `LimitPassedOnlyTogether`.
- A project whose `PROJECT_CREATED` event cannot be recorded stands without any event (`routes/projects.py:55`), and a grant or
  a revocation in that case with the event of its decision only; the caller is told of a failure.
- The last admin of a project may revoke itself, and a request of a revoked principal that passed its policy completes.
- Two grants for one new member overlap: one fails on the unique constraint and is answered with an error
  (`models/ProjectMembershipModel.py:39`).
- Clearing the knowledge memory of a thread leaves the workflow waiting for an answer to a question that is gone; the reply
  then starts nothing and the workflow reports a failure.
- A worker that dies in the model call after a reply may leave the question open with the iterations it had, since the save
  of the reply need not have been written (`agents/knowledge_agent/graph.py:493`). The same reply is then accepted again, and its
  calls are made again: `reopened` in `IterationsBounded`.
- The answer's sources include files read in earlier turns, as long as the history keeps them.
- Without streaming the model call blocks the event loop (`agents/knowledge_agent/nodes/llm_decision.py:94`), and a client that
  leaves a stream may have its lock released before the generator is closed.
- A retry of an index task never starts: it keeps the task id and so meets the record of its first attempt.

## 9. Running

    tlc -workers 2 -config Workflow.cfg MCMultiAgentWorkflow
    tlapm MultiAgentWorkflowProofs.tla

and likewise for the other configurations, whose modules `PROJECT.json` names, and the other `*Proofs` and `*Claims` modules.
