----------------------------- MODULE ThreadLocks -----------------------------
(***************************************************************************)
(* The lock that serialises the turns of a conversation thread: the agent  *)
(* routes that choose its key, the AsyncKeyedLock of each API worker, the  *)
(* worker's pool of database connections and the advisory lock in          *)
(* PostgreSQL.                                                             *)
(*                                                                         *)
(* A turn is one request.  The asyncio guard is never contended (nothing   *)
(* is awaited under it), so looking up an entry and counting its user are  *)
(* one step, and so are releasing the entry's lock and counting it out.    *)
(* The waiters of asyncio.Lock and of PostgreSQL are first come, first     *)
(* served; here any waiter may be next, under strong fairness.  Different  *)
(* keys have different lock ids (64 bits of SHA-256).                      *)
(***************************************************************************)
EXTENDS Naturals, Sequences, FiniteSets

CONSTANTS
    Turns,          \* the requests in flight at a time
    Threads,        \* the conversation threads, each of one project
    Workers,        \* the API worker processes
    PoolSize,       \* the connections of a worker's SQLAlchemy pool
    Faults,         \* the kinds of fault a run admits
    MaxFaults       \* bound: faults in one behaviour

FaultKinds ==
    { "cancel",      \* a streaming client disconnects
      "kill",        \* a worker process dies
      "disconnect" } \* the session holding the advisory lock is lost

ASSUME TurnAssumption == IsFiniteSet(Turns) /\ "none" \notin Turns
ASSUME PoolAssumption == PoolSize \in Nat \ {0}
ASSUME FaultAssumption == Faults \subseteq FaultKinds /\ MaxFaults \in Nat

VARIABLES
    turn,       \* each request: where it is, its worker, route and thread
    local,      \* the turn that holds the asyncio lock of a worker's entry
    users,      \* _LockEntry.users; an entry with none is not in the registry
    advisory,   \* the turn whose session holds the advisory lock of a key
    faults      \* history: the kinds of the faults so far

vars == <<turn, local, users, advisory, faults>>

-----------------------------------------------------------------------------
(* Routes, keys and checkpoints *)

Apis == {"multi_agent", "knowledge", "knowledge_stream"}
Keys == {"multi_agent", "knowledge"} \X Threads
None  == "none"
NoKey == <<None, None>>

Places ==
    { "local",      \* awaits the lock of its entry
      "connect",    \* awaits a connection from the pool
      "advisory",   \* awaits pg_advisory_lock
      "access",     \* holds the lock; awaits a connection for _thread_access
      "running",    \* runs the agent
      "unlock",     \* is about to run pg_advisory_unlock
      "return" }    \* is about to return its connection

Turn == [at : Places, worker : Workers, api : Apis, thread : Threads]
Idle == [at |-> "idle"]

\* f"multi-agent:{project_id}:{thread_id}" or f"{project_id}:{thread_id}"
LockKey(c) == <<IF c.api = "multi_agent" THEN "multi_agent" ELSE "knowledge", c.thread>>

\* The checkpoints a turn writes: both graphs of a thread share its checkpoint_key.
Checkpoints(c) ==
    (IF c.api = "multi_agent" THEN {"multi_agent", "knowledge"} ELSE {"knowledge"})
        \X {c.thread}

Active(t) == turn[t].at # "idle"
Inside(t) == turn[t].at \in {"access", "running"}
InEntry(w, k) == {t \in Turns : Active(t) /\ turn[t].worker = w /\ LockKey(turn[t]) = k}

Connected(t)  == turn[t].at \in {"advisory", "access", "running", "unlock", "return"}
CheckedOut(w) == Cardinality({t \in Turns : Connected(t) /\ turn[t].worker = w})
Available(w)  == CheckedOut(w) < PoolSize

Goes(t, place) == turn' = [turn EXCEPT ![t].at = place]
NoFault == UNCHANGED faults
Fault(kind) == kind \in Faults /\ Len(faults) < MaxFaults /\ faults' = Append(faults, kind)

-----------------------------------------------------------------------------
(* AsyncKeyedLock.acquire, in one worker *)

\* Mutant: a free entry is not asked for.
LocalFreeAlways(w, k) == TRUE

LocalFree(w, k) == local[w][k] = None

\* The entry is looked up or made; a free lock nobody waits for is taken at once.
Arrive(t, w, api, thread) ==
    LET c == [at |-> "connect", worker |-> w, api |-> api, thread |-> thread]
        k == LockKey(c)
    IN  /\ turn[t] = Idle
        /\ users' = [users EXCEPT ![w][k] = @ + 1]
        /\ IF LocalFree(w, k) /\ \A u \in InEntry(w, k) : turn[u].at # "local"
           THEN turn' = [turn EXCEPT ![t] = c] /\ local' = [local EXCEPT ![w][k] = t]
           ELSE turn' = [turn EXCEPT ![t] = [c EXCEPT !.at = "local"]] /\ UNCHANGED local
        /\ UNCHANGED advisory /\ NoFault

AcquireLocal(t) ==
    LET c == turn[t]
    IN  /\ c.at = "local" /\ LocalFree(c.worker, LockKey(c))
        /\ Goes(t, "connect")
        /\ local' = [local EXCEPT ![c.worker][LockKey(c)] = t]
        /\ UNCHANGED <<users, advisory>> /\ NoFault

\* Mutant: an entry that others wait for is not counted out.
UsersLeftIfAlone(w, k) == IF Cardinality(InEntry(w, k)) > 1 THEN users[w][k] ELSE users[w][k] - 1

\* Mutant: the user is counted out twice.
UsersLeftTwice(w, k) == users[w][k] - 2

UsersLeft(w, k) == users[w][k] - 1

\* The finally clause: the lock is released and the user counted out.
Leave(t) ==
    LET w == turn[t].worker  k == LockKey(turn[t])
    IN  /\ turn' = [turn EXCEPT ![t] = Idle]
        /\ local' = [local EXCEPT ![w][k] = None]
        /\ users' = [users EXCEPT ![w][k] = UsersLeft(w, k)]

-----------------------------------------------------------------------------
(* PostgresAdvisoryKeyedLock.acquire and the body of the route *)

Connect(t) ==
    /\ turn[t].at = "connect" /\ Available(turn[t].worker)
    /\ Goes(t, "advisory")
    /\ UNCHANGED <<local, users, advisory>> /\ NoFault

\* The pool gives up after its timeout; the request fails.
ConnectTimeout(t) ==
    /\ turn[t].at = "connect" /\ ~Available(turn[t].worker)
    /\ Leave(t)
    /\ UNCHANGED advisory /\ NoFault

\* Mutant: the lock is granted to every session.
AdvisoryFreeAlways(k) == TRUE

AdvisoryFree(k) == advisory[k] = None

LockAdvisory(t) ==
    LET k == LockKey(turn[t])
    IN  /\ turn[t].at = "advisory" /\ AdvisoryFree(k)
        /\ Goes(t, "access")
        /\ advisory' = [advisory EXCEPT ![k] = t]
        /\ UNCHANGED <<local, users>> /\ NoFault

\* _thread_access takes a second connection for its transaction and may refuse.
Access(t) ==
    /\ turn[t].at = "access" /\ Available(turn[t].worker)
    /\ Goes(t, "running") \/ Goes(t, "unlock")
    /\ UNCHANGED <<local, users, advisory>> /\ NoFault

\* Mutant: the pool waits for ever.
AccessTimeoutNever(t) == FALSE /\ UNCHANGED vars

AccessTimeout(t) ==
    /\ turn[t].at = "access" /\ ~Available(turn[t].worker)
    /\ Goes(t, "unlock")
    /\ UNCHANGED <<local, users, advisory>> /\ NoFault

Finish(t) ==
    /\ turn[t].at = "running"
    /\ Goes(t, "unlock")
    /\ UNCHANGED <<local, users, advisory>> /\ NoFault

\* Mutant: whoever holds the lock of the key loses it.
ReleasedByAnyone(t) == [advisory EXCEPT ![LockKey(turn[t])] = None]

\* A session gives up only a lock of its own.
Released(t) ==
    [advisory EXCEPT ![LockKey(turn[t])] = IF @ = t THEN None ELSE @]

Unlock(t) ==
    /\ turn[t].at = "unlock"
    /\ Goes(t, "return")
    /\ advisory' = Released(t)
    /\ UNCHANGED <<local, users>> /\ NoFault

Return(t) ==
    /\ turn[t].at = "return"
    /\ Leave(t)
    /\ UNCHANGED advisory /\ NoFault

-----------------------------------------------------------------------------
(* Faults *)

\* A streaming response is cancelled where it awaits.  An await of the entry's
\* lock is outside the try, so its user is not counted out; a cancelled
\* statement closes the session, and its lock with it.
Cancel(t) ==
    /\ turn[t].at \in {"local", "connect", "advisory", "access", "running"}
    /\ turn[t].api = "knowledge_stream" /\ Fault("cancel")
    /\ IF turn[t].at = "local"
       THEN turn' = [turn EXCEPT ![t] = Idle] /\ UNCHANGED <<local, users, advisory>>
       ELSE Leave(t) /\ advisory' = Released(t)

Kill(w) ==
    /\ \E t \in Turns : Active(t) /\ turn[t].worker = w
    /\ Fault("kill")
    /\ turn' = [t \in Turns |-> IF Active(t) /\ turn[t].worker = w THEN Idle ELSE turn[t]]
    /\ local' = [local EXCEPT ![w] = [k \in Keys |-> None]]
    /\ users' = [users EXCEPT ![w] = [k \in Keys |-> 0]]
    /\ advisory' = [k \in Keys |-> IF \E t \in InEntry(w, k) : advisory[k] = t
                                   THEN None ELSE advisory[k]]

\* PostgreSQL drops the session; the turn does not notice before it unlocks.
LoseSession(t) ==
    /\ Inside(t) /\ advisory[LockKey(turn[t])] = t /\ Fault("disconnect")
    /\ advisory' = Released(t)
    /\ UNCHANGED <<turn, local, users>>

-----------------------------------------------------------------------------

Init ==
    /\ turn = [t \in Turns |-> Idle]
    /\ local = [w \in Workers |-> [k \in Keys |-> None]]
    /\ users = [w \in Workers |-> [k \in Keys |-> 0]]
    /\ advisory = [k \in Keys |-> None]
    /\ faults = <<>>

Step(t) ==
    \/ AcquireLocal(t) \/ Connect(t) \/ ConnectTimeout(t) \/ LockAdvisory(t)
    \/ Access(t) \/ AccessTimeout(t) \/ Finish(t) \/ Unlock(t) \/ Return(t)

Next ==
    \/ \E t \in Turns, w \in Workers, api \in Apis, h \in Threads : Arrive(t, w, api, h)
    \/ \E t \in Turns : Step(t) \/ Cancel(t) \/ LoseSession(t)
    \/ \E w \in Workers : Kill(w)

Spec == Init /\ [][Next]_vars

\* Both lock queues are first come, first served; a turn ends (see
\* MultiAgentWorkflow), and the pool answers or times out.
Fairness ==
    \A t \in Turns :
        /\ SF_vars(AcquireLocal(t)) /\ SF_vars(LockAdvisory(t))
        /\ WF_vars(Connect(t) \/ ConnectTimeout(t))
        /\ WF_vars(Access(t) \/ AccessTimeout(t))
        /\ WF_vars(Finish(t) \/ Unlock(t) \/ Return(t))
FairSpec == Spec /\ Fairness

-----------------------------------------------------------------------------
(* Properties *)

FaultLog == {s \in Seq(FaultKinds) : Len(s) <= MaxFaults}
Happened(kind) == \E i \in DOMAIN faults : faults[i] = kind

TypeOK ==
    /\ turn \in [Turns -> Turn \cup {Idle}]
    /\ local \in [Workers -> [Keys -> Turns \cup {None}]]
    /\ users \in [Workers -> [Keys -> Nat]]
    /\ advisory \in [Keys -> Turns \cup {None}]
    /\ faults \in FaultLog

\* "Serialize a key across all API workers using PostgreSQL"
\* (PostgresAdvisoryKeyedLock): no two turns are inside with one key.
OneTurnPerKey ==
    \A t, u \in Turns : Inside(t) /\ Inside(u) /\ LockKey(turn[t]) = LockKey(turn[u]) => t = u

\* What the asyncio lock is for: however many requests of a key a worker has, one
\* of them occupies a connection to wait for the advisory lock or to hold it.
OneSessionPerKey ==
    \A t, u \in Turns :
        /\ Connected(t) /\ Connected(u)
        /\ turn[t].worker = turn[u].worker /\ LockKey(turn[t]) = LockKey(turn[u])
        => t = u

\* A registry entry is there exactly while a request uses it: the test
\* test_same_key_is_serialized_and_cleaned_up asserts that none is left over.
RegistryExact ==
    \A w \in Workers, k \in Keys : users[w][k] = Cardinality(InEntry(w, k))

\* An entry is never dropped under a request that uses it, and none is left over
\* but by a wait that was cancelled.
EntriesCoverUsers ==
    \A w \in Workers, k \in Keys : users[w][k] >= Cardinality(InEntry(w, k))
EntriesCountUsers == EntriesCoverUsers /\ (Happened("cancel") \/ RegistryExact)

\* "PostgreSQL advisory locks prevent two API workers from modifying one thread
\* concurrently": no checkpoint of a thread has two turns working on it.
OneTurnPerCheckpoint ==
    \A t, u \in Turns :
        Inside(t) /\ Inside(u) /\ t # u => Checkpoints(turn[t]) \cap Checkpoints(turn[u]) = {}

\* Every request leaves the lock, whatever the other turns and the pool do:
\* holders that starve each other of a second connection time out.
EveryTurnEnds == \A t \in Turns : Active(t) ~> ~Active(t)

\* The key whose section each turn is in.
Occupied == [t \in Turns |-> IF Inside(t) THEN LockKey(turn[t]) ELSE NoKey]

\* The composition of registry, pool and advisory lock is a mutex per key.
Mutex == INSTANCE KeyedMutex WITH inside <- Occupied
ImplementsKeyedMutex == Mutex!Spec
==============================================================================
