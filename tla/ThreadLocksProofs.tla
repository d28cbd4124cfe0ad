-------------------------- MODULE ThreadLocksProofs --------------------------
(***************************************************************************)
(* Proofs about ThreadLocks, for any number of requests, threads, workers  *)
(* and connections.                                                        *)
(*                                                                         *)
(* A turn past the wait for its entry holds the entry's lock (HoldsEntry), *)
(* so a worker has one session per key; a turn inside holds the advisory   *)
(* lock (HoldsAdvisory), so a key has one turn inside, unless its session  *)
(* is lost.  The count of a registry entry is exact unless a wait for its  *)
(* lock is cancelled.                                                      *)
(***************************************************************************)
EXTENDS ThreadLocks, FiniteSetTheorems, TLAPS

HoldsEntry ==
    \A t \in Turns : turn[t].at \notin {"idle", "local"} =>
        local[turn[t].worker][LockKey(turn[t])] = t

HoldsAdvisory == \A t \in Turns : Inside(t) => advisory[LockKey(turn[t])] = t

-----------------------------------------------------------------------------
(* Types *)

\* The key of a turn is one of the keys.
LEMMA KeyType == ASSUME NEW c \in Turn PROVE LockKey(c) \in Keys
  BY DEF Turn, LockKey, Keys, Apis

\* A turn that is somewhere is a Turn; an idle one is nowhere.
LEMMA ActiveType ==
  ASSUME TypeOK, NEW t \in Turns
  PROVE  /\ Active(t) <=> turn[t] \in Turn
         /\ Active(t) => /\ turn[t].at \in Places /\ turn[t].worker \in Workers
                         /\ turn[t].api \in Apis /\ turn[t].thread \in Threads
                         /\ LockKey(turn[t]) \in Keys
         /\ ~Active(t) => turn[t] = Idle
<1>1. turn[t] \in Turn \cup {Idle}
  BY DEF TypeOK
<1>2. CASE turn[t] = Idle
  BY <1>2 DEF Active, Idle, Turn, Places
<1>3. CASE turn[t] \in Turn
  <2>1. turn[t].at \in Places
    BY <1>3 DEF Turn
  <2>2. turn[t].at # "idle"
    BY <2>1 DEF Places
  <2>. QED
    BY <1>3, <2>1, <2>2, KeyType DEF Active, Turn
<1>. QED
  BY <1>1, <1>2, <1>3

\* Moving a turn to another place changes only where it is.
LEMMA GoesEffect ==
  ASSUME TypeOK, NEW t \in Turns, Active(t), NEW p \in Places, Goes(t, p)
  PROVE  /\ turn' \in [Turns -> Turn \cup {Idle}]
         /\ turn'[t].at = p /\ turn'[t].worker = turn[t].worker
         /\ LockKey(turn'[t]) = LockKey(turn[t])
         /\ \A u \in Turns \ {t} : turn'[u] = turn[u]
<1>1. turn[t] \in Turn
  BY ActiveType
<1>2. turn' = [turn EXCEPT ![t] = [turn[t] EXCEPT !.at = p]]
  BY DEF Goes
<1>3. turn'[t] = [turn[t] EXCEPT !.at = p]
  BY <1>2 DEF TypeOK
<1>4. [turn[t] EXCEPT !.at = p] \in Turn
  BY <1>1 DEF Turn
<1>5. turn'[t].worker = turn[t].worker /\ turn'[t].api = turn[t].api
      /\ turn'[t].thread = turn[t].thread /\ turn'[t].at = p
  BY <1>1, <1>3 DEF Turn
<1>6. LockKey(turn'[t]) = LockKey(turn[t])
  BY <1>5 DEF LockKey
<1>. QED
  BY <1>2, <1>4, <1>5, <1>6 DEF TypeOK

\* Leaving makes a turn idle and frees the lock of its entry, if it held it.
LEMMA LeaveEffect ==
  ASSUME TypeOK, NEW t \in Turns, Active(t), Leave(t)
  PROVE  /\ turn' \in [Turns -> Turn \cup {Idle}]
         /\ turn'[t] = Idle
         /\ \A u \in Turns \ {t} : turn'[u] = turn[u]
         /\ local' \in [Workers -> [Keys -> Turns \cup {None}]]
         /\ \A w \in Workers, k \in Keys :
               local'[w][k] # local[w][k] => w = turn[t].worker /\ k = LockKey(turn[t])
<1>1. turn[t].worker \in Workers /\ LockKey(turn[t]) \in Keys
  BY ActiveType
<1>. QED
  BY <1>1 DEF Leave, TypeOK

LEMMA FaultType ==
  ASSUME TypeOK, NEW kind, Fault(kind) PROVE faults' \in FaultLog
<1>1. faults \in Seq(FaultKinds) /\ Len(faults) <= MaxFaults
  BY DEF TypeOK, FaultLog
<1>2. faults' = Append(faults, kind) /\ Len(faults) < MaxFaults /\ kind \in FaultKinds
  BY FaultAssumption DEF Fault
<1>3. MaxFaults \in Nat
  BY FaultAssumption
<1>4. Append(faults, kind) \in Seq(FaultKinds) /\ Len(Append(faults, kind)) = Len(faults) + 1
  BY <1>1, <1>2
<1>. QED
  BY <1>1, <1>2, <1>3, <1>4 DEF FaultLog

\* The log of faults only grows.
LEMMA FaultsLogged ==
  ASSUME TypeOK, NoFault \/ \E kind : Fault(kind)
  PROVE  /\ \A kind : Fault(kind) => Happened(kind)'
         /\ \A other : Happened(other) => Happened(other)'
<1>1. faults \in Seq(FaultKinds)
  BY DEF TypeOK, FaultLog
<1>2. CASE NoFault /\ ~\E kind : Fault(kind)
  BY <1>2 DEF NoFault, Happened
<1>3. ASSUME NEW kind, Fault(kind)
      PROVE  Happened(kind)' /\ \A other : Happened(other) => Happened(other)'
  <2>1. kind \in FaultKinds /\ faults' = Append(faults, kind)
    BY <1>3, FaultAssumption DEF Fault
  <2>2. /\ Len(faults) \in Nat /\ DOMAIN faults = 1..Len(faults)
        /\ DOMAIN faults' = 1..(Len(faults) + 1)
        /\ faults'[Len(faults) + 1] = kind
        /\ \A i \in 1..Len(faults) : faults'[i] = faults[i]
    BY <1>1, <2>1
  <2>. QED
    BY <2>2 DEF Happened
<1>. QED
  BY <1>2, <1>3

-----------------------------------------------------------------------------
(* The users of a registry entry *)

\* There are finitely many requests, so an entry's are counted by a number.
LEMMA EntryFinite ==
  ASSUME NEW w, NEW k
  PROVE  IsFiniteSet(InEntry(w, k)) /\ Cardinality(InEntry(w, k)) \in Nat
<1>1. IsFiniteSet(InEntry(w, k))
  BY TurnAssumption, FS_Subset DEF InEntry
<1>. QED
  BY <1>1, FS_CardinalityType

\* A turn that only moves stays in its entry.
LEMMA EntriesMove ==
  ASSUME TypeOK, NEW t \in Turns, Active(t), NEW p \in Places, Goes(t, p),
         NEW w, NEW k
  PROVE  InEntry(w, k)' = InEntry(w, k)
<1>1. Active(t)'
  BY GoesEffect DEF Active, Places
<1>2. \A u \in Turns : Active(u)' <=> Active(u)
  BY <1>1, GoesEffect DEF Active
<1>. QED
  BY <1>2, GoesEffect DEF InEntry

\* A turn that goes idle is in no entry.
LEMMA EntriesLeave ==
  ASSUME TypeOK, NEW t \in Turns, turn' = [turn EXCEPT ![t] = Idle], NEW w, NEW k
  PROVE  InEntry(w, k)' = InEntry(w, k) \ {t}
<1>1. ~Active(t)'
  BY DEF Active, Idle, TypeOK
<1>2. \A u \in Turns \ {t} : turn'[u] = turn[u]
  BY DEF TypeOK
<1>. QED
  BY <1>1, <1>2 DEF InEntry, Active

\* A turn is in the entry of its worker and key and in no other.
LEMMA OwnEntry ==
  ASSUME TypeOK, NEW t \in Turns, Active(t), NEW w, NEW k
  PROVE  t \in InEntry(w, k) <=> w = turn[t].worker /\ k = LockKey(turn[t])
  BY DEF InEntry

\* Counting out the turn that leaves keeps the count a number that covers the
\* rest, and an exact count exact.
LEMMA CountedOut ==
  ASSUME TypeOK, EntriesCoverUsers, NEW t \in Turns, Active(t), Leave(t)
  PROVE  /\ users' \in [Workers -> [Keys -> Nat]]
         /\ EntriesCoverUsers'
         /\ RegistryExact => RegistryExact'
<1>0. PICK v \in Workers, q \in Keys : v = turn[t].worker /\ q = LockKey(turn[t])
  BY ActiveType
<1>1. t \in InEntry(v, q)
  BY <1>0, OwnEntry
<1>2. /\ users' = [users EXCEPT ![v][q] = users[v][q] - 1]
      /\ turn' = [turn EXCEPT ![t] = Idle]
  BY <1>0 DEF Leave, UsersLeft
<1>3. \A w \in Workers, k \in Keys : InEntry(w, k)' = InEntry(w, k) \ {t}
  BY <1>2, EntriesLeave
<1>4. \A w \in Workers, k \in Keys :
         /\ users[w][k] \in Nat /\ Cardinality(InEntry(w, k)) \in Nat
         /\ IsFiniteSet(InEntry(w, k))
         /\ users[w][k] >= Cardinality(InEntry(w, k))
  BY EntryFinite DEF TypeOK, EntriesCoverUsers
<1>5. Cardinality(InEntry(v, q)') = Cardinality(InEntry(v, q)) - 1
  BY <1>1, <1>3, <1>4, FS_RemoveElement
<1>6. \A w \in Workers, k \in Keys :
         ~(w = v /\ k = q) => InEntry(w, k)' = InEntry(w, k) /\ users'[w][k] = users[w][k]
  <2>1. \A w \in Workers, k \in Keys : ~(w = v /\ k = q) => t \notin InEntry(w, k)
    BY <1>0, OwnEntry
  <2>2. \A w \in Workers, k \in Keys : ~(w = v /\ k = q) => InEntry(w, k)' = InEntry(w, k)
    <3>. SUFFICES ASSUME NEW w \in Workers, NEW k \in Keys, ~(w = v /\ k = q)
                  PROVE  InEntry(w, k)' = InEntry(w, k)
      OBVIOUS
    <3>. DEFINE I == InEntry(w, k)
    <3>1. InEntry(w, k)' = I \ {t} /\ t \notin I
      BY <1>3, <2>1
    <3>. HIDE DEF I
    <3>2. I \ {t} = I
      BY <3>1
    <3>. QED
      BY <3>1, <3>2 DEF I
  <2>3. \A w \in Workers, k \in Keys : ~(w = v /\ k = q) => users'[w][k] = users[w][k]
    BY <1>2 DEF TypeOK
  <2>. QED
    BY <2>2, <2>3
<1>7. users'[v][q] = users[v][q] - 1
  BY <1>1, <1>2 DEF TypeOK
<1>8. Cardinality(InEntry(v, q)) # 0
  BY <1>1, <1>4, FS_EmptySet
<1>9. users'[v][q] \in Nat /\ users'[v][q] >= Cardinality(InEntry(v, q)')
  BY <1>1, <1>4, <1>5, <1>7, <1>8
<1>10. users' \in [Workers -> [Keys -> Nat]]
  BY <1>1, <1>2, <1>7, <1>9 DEF TypeOK
<1>11. EntriesCoverUsers'
  <2>. SUFFICES ASSUME NEW w \in Workers, NEW k \in Keys
                PROVE  users'[w][k] >= Cardinality(InEntry(w, k)')
    BY DEF EntriesCoverUsers
  <2>. QED
    BY <1>4, <1>6, <1>9
<1>12. ASSUME RegistryExact PROVE RegistryExact'
  <2>. SUFFICES ASSUME NEW w \in Workers, NEW k \in Keys
                PROVE  users'[w][k] = Cardinality(InEntry(w, k)')
    BY DEF RegistryExact
  <2>1. users[w][k] = Cardinality(InEntry(w, k)) /\ users[v][q] = Cardinality(InEntry(v, q))
    BY <1>1, <1>12 DEF RegistryExact
  <2>. QED
    BY <1>5, <1>6, <1>7, <2>1
<1>. QED
  BY <1>10, <1>11, <1>12

\* Nothing is counted while no turn comes or goes.
LEMMA CountKept ==
  ASSUME UNCHANGED users, EntriesCoverUsers, \A w, k : InEntry(w, k)' = InEntry(w, k)
  PROVE  EntriesCoverUsers' /\ (RegistryExact => RegistryExact')
  BY DEF EntriesCoverUsers, RegistryExact

-----------------------------------------------------------------------------
(* One session per key in a worker *)

LockInv == TypeOK /\ HoldsEntry /\ EntriesCoverUsers

\* What the steps keep: the invariant, and an exact count exact.
Kept == LockInv' /\ (RegistryExact => RegistryExact')

\* A turn that already holds its entry's lock moves on.
LEMMA MoveKeeps ==
  ASSUME LockInv, NEW t \in Turns, turn[t].at \notin {"idle", "local"},
         NEW p \in Places, Goes(t, p), UNCHANGED <<local, users, faults>>,
         advisory' \in [Keys -> Turns \cup {None}]
  PROVE  Kept
<1>. USE DEF LockInv
<1>1. Active(t)
  BY DEF Active
<1>2. TypeOK'
  BY <1>1, GoesEffect DEF TypeOK
<1>3. HoldsEntry'
  BY <1>1, GoesEffect DEF HoldsEntry
<1>4. \A w, k : InEntry(w, k)' = InEntry(w, k)
  BY <1>1, EntriesMove
<1>. QED
  BY <1>2, <1>3, <1>4, CountKept DEF Kept

\* A turn leaves the lock it holds.
LEMMA LeaveKeeps ==
  ASSUME LockInv, NEW t \in Turns, turn[t].at \notin {"idle", "local"}, Leave(t),
         advisory' \in [Keys -> Turns \cup {None}], faults' \in FaultLog
  PROVE  Kept
<1>. USE DEF LockInv
<1>1. Active(t)
  BY DEF Active
<1>2. EntriesCoverUsers' /\ users' \in [Workers -> [Keys -> Nat]]
      /\ (RegistryExact => RegistryExact')
  BY <1>1, CountedOut
<1>3. TypeOK'
  BY <1>1, <1>2, LeaveEffect DEF TypeOK
<1>4. ASSUME NEW u \in Turns, turn'[u].at \notin {"idle", "local"}
      PROVE  local'[turn'[u].worker][LockKey(turn'[u])] = u
  <2>1. u # t /\ turn'[u] = turn[u]
    BY <1>1, <1>4, LeaveEffect DEF Idle
  <2>2. Active(u) /\ turn[u].worker \in Workers /\ LockKey(turn[u]) \in Keys
    BY <1>4, <2>1, ActiveType DEF Active
  <2>3. local[turn[u].worker][LockKey(turn[u])] = u
        /\ local[turn[t].worker][LockKey(turn[t])] = t
    BY <1>4, <2>1 DEF HoldsEntry
  <2>. QED
    BY <1>1, <2>1, <2>2, <2>3, LeaveEffect
<1>. QED
  BY <1>2, <1>3, <1>4 DEF Kept, HoldsEntry

\* A session gives up the lock of its key and no other.
LEMMA ReleasedType ==
  ASSUME TypeOK, NEW t \in Turns
  PROVE  /\ Released(t) \in [Keys -> Turns \cup {None}]
         /\ \A k \in Keys, u \in Turns \ {t} : advisory[k] = u => Released(t)[k] = u
  BY DEF Released, TypeOK

LEMMA ArriveKeeps ==
  ASSUME LockInv, NEW t \in Turns, NEW w \in Workers, NEW api \in Apis, NEW h \in Threads,
         Arrive(t, w, api, h)
  PROVE  Kept
<1>. DEFINE c == [at |-> "connect", worker |-> w, api |-> api, thread |-> h]
            k == LockKey(c)
            d == [c EXCEPT !.at = "local"]
<1>. USE DEF LockInv
<1>1. c \in Turn /\ d \in Turn /\ k \in Keys /\ LockKey(d) = k /\ d.worker = w
  BY KeyType DEF Turn, Places, LockKey
<1>2. turn[t] = Idle /\ ~Active(t)
  BY DEF Arrive, Idle, Active
<1>3. /\ users' = [users EXCEPT ![w][k] = users[w][k] + 1]
      /\ \/ /\ turn' = [turn EXCEPT ![t] = c] /\ local[w][k] = None
            /\ local' = [local EXCEPT ![w][k] = t]
         \/ turn' = [turn EXCEPT ![t] = d] /\ local' = local
      /\ UNCHANGED <<advisory, faults>>
  BY DEF Arrive, LocalFree, NoFault
<1>4. /\ turn'[t] \in {c, d} /\ turn'[t].worker = w /\ LockKey(turn'[t]) = k /\ Active(t)'
      /\ \A u \in Turns \ {t} : turn'[u] = turn[u]
  <2>1. \A u \in Turns \ {t} : turn'[u] = turn[u]
    BY <1>3 DEF TypeOK
  <2>2. turn'[t] = c \/ turn'[t] = d
    BY <1>3 DEF TypeOK
  <2>3. c.at # "idle" /\ d.at # "idle" /\ c.worker = w
    OBVIOUS
  <2>4. turn'[t].at # "idle"
    BY <2>2, <2>3
  <2>. QED
    BY <1>1, <2>1, <2>2, <2>3, <2>4 DEF Active
<1>5. TypeOK'
  <2>. HIDE DEF c, d, k
  <2>1. turn' \in [Turns -> Turn \cup {Idle}]
    BY <1>1, <1>3 DEF TypeOK
  <2>2. local' \in [Workers -> [Keys -> Turns \cup {None}]]
    <3>1. ASSUME local' = [local EXCEPT ![w][k] = t]
          PROVE  local' \in [Workers -> [Keys -> Turns \cup {None}]]
      BY <3>1 DEF TypeOK
    <3>. QED
      BY <1>3, <3>1 DEF TypeOK
  <2>3. users' \in [Workers -> [Keys -> Nat]]
    BY <1>1, <1>3 DEF TypeOK
  <2>. QED
    BY <1>3, <2>1, <2>2, <2>3 DEF TypeOK
<1>6. ASSUME NEW u \in Turns, turn'[u].at \notin {"idle", "local"}
      PROVE  local'[turn'[u].worker][LockKey(turn'[u])] = u
  <2>1. CASE u = t
    BY <1>1, <1>3, <1>4, <1>6, <2>1 DEF TypeOK
  <2>2. CASE u # t
    <3>1. turn'[u] = turn[u]
      BY <1>4, <2>2
    <3>2. Active(u) /\ turn[u].worker \in Workers /\ LockKey(turn[u]) \in Keys
      BY <1>6, <3>1, ActiveType DEF Active
    <3>3. local[turn[u].worker][LockKey(turn[u])] = u
      BY <1>6, <3>1 DEF HoldsEntry
    <3>4. \A v \in Workers, q \in Keys : local'[v][q] = local[v][q] \/ local[v][q] = None
      <4>. HIDE DEF c, d, k
      <4>1. ASSUME local' = [local EXCEPT ![w][k] = t], local[w][k] = None
            PROVE  \A v \in Workers, q \in Keys : local'[v][q] = local[v][q] \/ local[v][q] = None
        BY <4>1 DEF TypeOK
      <4>. QED
        BY <1>3, <4>1
    <3>5. u # None
      BY TurnAssumption DEF None
    <3>. QED
      BY <3>1, <3>2, <3>3, <3>4, <3>5
  <2>. QED
    BY <2>1, <2>2
<1>7. \A v, q : InEntry(v, q)' = IF v = w /\ q = k THEN InEntry(v, q) \cup {t} ELSE InEntry(v, q)
  BY <1>2, <1>4 DEF InEntry, Active
<1>8. \A v \in Workers, q \in Keys :
         /\ users[v][q] \in Nat /\ Cardinality(InEntry(v, q)) \in Nat
         /\ IsFiniteSet(InEntry(v, q)) /\ t \notin InEntry(v, q)
         /\ users'[v][q] = IF v = w /\ q = k THEN users[v][q] + 1 ELSE users[v][q]
  <2>1. \A v \in Workers, q \in Keys :
           /\ users[v][q] \in Nat
           /\ users'[v][q] = IF v = w /\ q = k THEN users[v][q] + 1 ELSE users[v][q]
    BY <1>1, <1>3 DEF TypeOK
  <2>2. \A v, q : t \notin InEntry(v, q)
    BY <1>2 DEF InEntry
  <2>. QED
    BY <2>1, <2>2, EntryFinite
<1>9. \A v \in Workers, q \in Keys :
         Cardinality(InEntry(v, q)') =
            IF v = w /\ q = k THEN Cardinality(InEntry(v, q)) + 1 ELSE Cardinality(InEntry(v, q))
  BY <1>7, <1>8, FS_AddElement
<1>10. EntriesCoverUsers'
  BY <1>8, <1>9 DEF EntriesCoverUsers
<1>11. RegistryExact => RegistryExact'
  BY <1>8, <1>9 DEF RegistryExact
<1>. QED
  BY <1>5, <1>6, <1>10, <1>11 DEF Kept, HoldsEntry

LEMMA AcquireLocalKeeps == ASSUME LockInv, NEW t \in Turns, AcquireLocal(t) PROVE Kept
<1>. USE DEF LockInv
<1>0. PICK w \in Workers, k \in Keys : w = turn[t].worker /\ k = LockKey(turn[t])
  BY ActiveType DEF AcquireLocal, Active
<1>1. Active(t) /\ Goes(t, "connect") /\ "connect" \in Places
  BY DEF AcquireLocal, Active, Places
<1>2. local[w][k] = None /\ local' = [local EXCEPT ![w][k] = t]
      /\ UNCHANGED <<users, advisory, faults>>
  BY <1>0 DEF AcquireLocal, LocalFree, NoFault
<1>3. TypeOK'
  <2>1. turn' \in [Turns -> Turn \cup {Idle}]
    BY <1>1, GoesEffect
  <2>2. local' \in [Workers -> [Keys -> Turns \cup {None}]]
    BY <1>2 DEF TypeOK
  <2>. QED
    BY <1>2, <2>1, <2>2 DEF TypeOK
<1>4. ASSUME NEW u \in Turns, turn'[u].at \notin {"idle", "local"}
      PROVE  local'[turn'[u].worker][LockKey(turn'[u])] = u
  <2>1. CASE u = t
    BY <1>0, <1>1, <1>2, <2>1, GoesEffect DEF TypeOK
  <2>2. CASE u # t
    <3>1. turn'[u] = turn[u]
      BY <1>1, <2>2, GoesEffect
    <3>2. Active(u) /\ turn[u].worker \in Workers /\ LockKey(turn[u]) \in Keys
      BY <1>4, <3>1, ActiveType DEF Active
    <3>3. local[turn[u].worker][LockKey(turn[u])] = u
      BY <1>4, <3>1 DEF HoldsEntry
    <3>4. \A v \in Workers, q \in Keys : local'[v][q] = local[v][q] \/ local[v][q] = None
      BY <1>2 DEF TypeOK
    <3>5. u # None
      BY TurnAssumption DEF None
    <3>. QED
      BY <3>1, <3>2, <3>3, <3>4, <3>5
  <2>. QED
    BY <2>1, <2>2
<1>5. \A v, q : InEntry(v, q)' = InEntry(v, q)
  BY <1>1, EntriesMove
<1>. QED
  BY <1>2, <1>3, <1>4, <1>5, CountKept DEF Kept, HoldsEntry

\* A cancelled wait for the entry's lock leaves its user counted.
LEMMA CancelledWaitKeeps ==
  ASSUME LockInv, NEW t \in Turns, turn' = [turn EXCEPT ![t] = Idle],
         UNCHANGED <<local, users, advisory>>, faults' \in FaultLog
  PROVE  LockInv'
<1>. USE DEF LockInv
<1>1. TypeOK'
  BY DEF TypeOK
<1>2. HoldsEntry'
  BY DEF HoldsEntry, TypeOK, Idle
<1>3. ASSUME NEW w \in Workers, NEW k \in Keys
      PROVE  users'[w][k] >= Cardinality(InEntry(w, k)')
  <2>0. InEntry(w, k)' = InEntry(w, k) \ {t}
    BY EntriesLeave
  <2>1. InEntry(w, k)' \subseteq InEntry(w, k)
    BY <2>0
  <2>2. Cardinality(InEntry(w, k)') \in Nat /\ Cardinality(InEntry(w, k)') <= Cardinality(InEntry(w, k))
    BY <2>1, EntryFinite, FS_Subset, FS_CardinalityType
  <2>. QED
    BY <2>2, EntryFinite DEF EntriesCoverUsers, TypeOK
<1>. QED
  BY <1>1, <1>2, <1>3 DEF EntriesCoverUsers

LEMMA KillKeeps == ASSUME LockInv, NEW w \in Workers, Kill(w) PROVE Kept
<1>. USE DEF LockInv
<1>1. /\ turn' = [t \in Turns |-> IF Active(t) /\ turn[t].worker = w THEN Idle ELSE turn[t]]
      /\ local' = [local EXCEPT ![w] = [k \in Keys |-> None]]
      /\ users' = [users EXCEPT ![w] = [k \in Keys |-> 0]]
      /\ advisory' \in [Keys -> Turns \cup {None}]
      /\ faults' \in FaultLog
  BY FaultType DEF Kill, TypeOK
<1>2. TypeOK'
  BY <1>1 DEF TypeOK
<1>3. \A u \in Turns : Active(u)' => turn'[u] = turn[u] /\ Active(u) /\ turn[u].worker # w
  BY <1>1 DEF Active, Idle
<1>4. ASSUME NEW u \in Turns, turn'[u].at \notin {"idle", "local"}
      PROVE  local'[turn'[u].worker][LockKey(turn'[u])] = u
  <2>1. turn'[u] = turn[u] /\ Active(u) /\ turn[u].worker # w
    BY <1>3, <1>4 DEF Active
  <2>2. turn[u].worker \in Workers /\ local[turn[u].worker][LockKey(turn[u])] = u
    BY <1>4, <2>1, ActiveType DEF HoldsEntry
  <2>. QED
    BY <1>1, <2>1, <2>2 DEF TypeOK
<1>5. \A v \in Workers, k \in Keys :
         /\ v = w => InEntry(v, k)' = {} /\ users'[v][k] = 0
         /\ v # w => InEntry(v, k)' = InEntry(v, k) /\ users'[v][k] = users[v][k]
  <2>1. \A v \in Workers, k \in Keys :
           (v = w => users'[v][k] = 0) /\ (v # w => users'[v][k] = users[v][k])
    BY <1>1 DEF TypeOK
  <2>2. \A k : InEntry(w, k)' = {}
    BY <1>3 DEF InEntry
  <2>3. \A u \in Turns : Active(u) /\ turn[u].worker # w => turn'[u] = turn[u] /\ Active(u)'
    BY <1>1 DEF Active
  <2>4. \A v, k : v # w => InEntry(v, k)' = InEntry(v, k)
    BY <1>3, <2>3 DEF InEntry
  <2>. QED
    BY <2>1, <2>2, <2>4
<1>6. Cardinality({}) = 0
  BY FS_EmptySet
<1>7. EntriesCoverUsers'
  <2>. SUFFICES ASSUME NEW v \in Workers, NEW k \in Keys
                PROVE  users'[v][k] >= Cardinality(InEntry(v, k)')
    BY DEF EntriesCoverUsers
  <2>1. CASE v = w
    BY <1>5, <1>6, <2>1
  <2>2. CASE v # w
    <3>1. InEntry(v, k)' = InEntry(v, k) /\ users'[v][k] = users[v][k]
      BY <1>5, <2>2
    <3>. QED
      BY <3>1 DEF EntriesCoverUsers
  <2>. QED
    BY <2>1, <2>2
<1>8. ASSUME RegistryExact PROVE RegistryExact'
  <2>. SUFFICES ASSUME NEW v \in Workers, NEW k \in Keys
                PROVE  users'[v][k] = Cardinality(InEntry(v, k)')
    BY DEF RegistryExact
  <2>1. CASE v = w
    BY <1>5, <1>6, <2>1
  <2>2. CASE v # w
    <3>1. InEntry(v, k)' = InEntry(v, k) /\ users'[v][k] = users[v][k]
      BY <1>5, <2>2
    <3>. QED
      BY <1>8, <3>1 DEF RegistryExact
  <2>. QED
    BY <2>1, <2>2
<1>. QED
  BY <1>2, <1>4, <1>7, <1>8 DEF Kept, HoldsEntry

\* Every step but a cancelled wait keeps the invariant and the exact count.
LEMMA StepKeeps == ASSUME LockInv, NEW t \in Turns, Step(t) PROVE Kept
<1>. USE DEF LockInv
<1>0. {"advisory", "access", "running", "unlock", "return"} \subseteq Places
  BY DEF Places
<1>1. CASE AcquireLocal(t)
  BY <1>1, AcquireLocalKeeps
<1>2. CASE Connect(t)
  BY <1>0, <1>2, MoveKeeps DEF Connect, NoFault, TypeOK
<1>3. CASE ConnectTimeout(t)
  BY <1>3, LeaveKeeps DEF ConnectTimeout, NoFault, TypeOK
<1>4. CASE LockAdvisory(t)
  <2>1. advisory' \in [Keys -> Turns \cup {None}]
    BY <1>4 DEF LockAdvisory, TypeOK
  <2>. QED
    BY <1>0, <1>4, <2>1, MoveKeeps DEF LockAdvisory, NoFault
<1>5. CASE Access(t)
  BY <1>0, <1>5, MoveKeeps DEF Access, NoFault, TypeOK
<1>6. CASE AccessTimeout(t)
  BY <1>0, <1>6, MoveKeeps DEF AccessTimeout, NoFault, TypeOK
<1>7. CASE Finish(t)
  BY <1>0, <1>7, MoveKeeps DEF Finish, NoFault, TypeOK
<1>8. CASE Unlock(t)
  BY <1>0, <1>8, MoveKeeps, ReleasedType DEF Unlock, NoFault
<1>9. CASE Return(t)
  BY <1>9, LeaveKeeps DEF Return, NoFault, TypeOK
<1>. QED
  BY <1>1, <1>2, <1>3, <1>4, <1>5, <1>6, <1>7, <1>8, <1>9 DEF Step

LEMMA CancelKeeps == ASSUME LockInv, NEW t \in Turns, Cancel(t) PROVE LockInv'
<1>. USE DEF LockInv
<1>1. faults' \in FaultLog
  BY FaultType DEF Cancel
<1>2. CASE turn[t].at = "local"
  BY <1>1, <1>2, CancelledWaitKeeps DEF Cancel
<1>3. CASE turn[t].at # "local"
  BY <1>1, <1>3, LeaveKeeps, ReleasedType DEF Cancel, Kept
<1>. QED
  BY <1>2, <1>3

LEMMA LoseSessionKeeps == ASSUME LockInv, NEW t \in Turns, LoseSession(t) PROVE Kept
<1>. USE DEF LockInv
<1>1. faults' \in FaultLog
  BY FaultType DEF LoseSession
<1>2. UNCHANGED <<turn, local, users>> /\ advisory' \in [Keys -> Turns \cup {None}]
  BY ReleasedType DEF LoseSession
<1>3. TypeOK' /\ HoldsEntry'
  BY <1>1, <1>2 DEF TypeOK, HoldsEntry
<1>4. \A w, k : InEntry(w, k)' = InEntry(w, k)
  BY <1>2 DEF InEntry, Active
<1>. QED
  BY <1>2, <1>3, <1>4, CountKept DEF Kept

LEMMA LockInvInit == Init => LockInv /\ RegistryExact
<1>. SUFFICES ASSUME Init PROVE LockInv /\ RegistryExact
  OBVIOUS
<1>1. TypeOK
  BY FaultAssumption DEF Init, TypeOK, FaultLog
<1>2. HoldsEntry
  BY DEF Init, HoldsEntry, Idle
<1>3. \A w, k : InEntry(w, k) = {}
  BY DEF Init, InEntry, Active, Idle
<1>4. \A w \in Workers, k \in Keys : Cardinality(InEntry(w, k)) = 0 /\ users[w][k] = 0
  BY <1>3, FS_EmptySet DEF Init
<1>. QED
  BY <1>1, <1>2, <1>4 DEF LockInv, EntriesCoverUsers, RegistryExact

\* No step but a cancellation disturbs an exact count.
LEMMA LockInvNext ==
  ASSUME LockInv, [Next]_vars
  PROVE  LockInv' /\ (RegistryExact => RegistryExact' \/ Happened("cancel")')
<1>0. TypeOK
  BY DEF LockInv
<1>1. ASSUME NEW t \in Turns, NEW w \in Workers, NEW api \in Apis, NEW h \in Threads,
             Arrive(t, w, api, h)
      PROVE  Kept
  BY <1>1, ArriveKeeps
<1>2. ASSUME NEW t \in Turns, Step(t) PROVE Kept
  BY <1>2, StepKeeps
<1>3. ASSUME NEW t \in Turns, Cancel(t) PROVE LockInv' /\ Happened("cancel")'
  BY <1>0, <1>3, CancelKeeps, FaultsLogged DEF Cancel
<1>4. ASSUME NEW t \in Turns, LoseSession(t) PROVE Kept
  BY <1>4, LoseSessionKeeps
<1>5. ASSUME NEW w \in Workers, Kill(w) PROVE Kept
  BY <1>5, KillKeeps
<1>6. CASE UNCHANGED vars
  BY <1>6 DEF vars, LockInv, TypeOK, HoldsEntry, EntriesCoverUsers, RegistryExact, InEntry, Active
<1>. QED
  BY <1>1, <1>2, <1>3, <1>4, <1>5, <1>6 DEF Next, Kept

\* What happened stays in the log.
LEMMA LogGrows ==
  ASSUME TypeOK, [Next]_vars, Happened("cancel") PROVE Happened("cancel")'
<1>1. NoFault \/ \E kind : Fault(kind)
  BY DEF Next, Arrive, Step, AcquireLocal, Connect, ConnectTimeout, LockAdvisory, Access,
         AccessTimeout, Finish, Unlock, Return, Cancel, LoseSession, Kill, NoFault, vars
<1>. QED
  BY <1>1, FaultsLogged

LEMMA LockInvHolds == Spec => []LockInv
  BY LockInvInit, LockInvNext, PTL DEF Spec

\* Every variable keeps its type: in particular no entry's count goes below zero.
THEOREM TypeCorrect == Spec => []TypeOK
  BY LockInvHolds, PTL DEF LockInv

\* In each worker one request per key occupies a connection, whatever is
\* cancelled, killed or lost: the others wait for the asyncio lock.
THEOREM OneSession == Spec => []OneSessionPerKey
<1>1. LockInv => OneSessionPerKey
  BY DEF LockInv, HoldsEntry, OneSessionPerKey, Connected
<1>. QED
  BY <1>1, LockInvHolds, PTL

\* No request ever loses the entry it uses, and the count is exact until a wait for
\* an entry's lock is cancelled.
THEOREM EntriesCounted == Spec => []EntriesCountUsers
<1>. DEFINE Exact == Happened("cancel") \/ RegistryExact
<1>1. Init => LockInv /\ Exact
  BY LockInvInit
<1>2. LockInv /\ Exact /\ [Next]_vars => LockInv' /\ Exact'
  BY LockInvNext, LogGrows DEF LockInv
<1>3. LockInv /\ Exact => EntriesCountUsers
  BY DEF LockInv, EntriesCountUsers
<1>. QED
  BY <1>1, <1>2, <1>3, PTL DEF Spec

-----------------------------------------------------------------------------
(* One turn per key, and the mutex that promises it *)

\* No turn comes inside, and those that stay keep the lock of their key.
Quiet ==
    \A u \in Turns : Inside(u)' =>
        /\ Inside(u) /\ LockKey(turn'[u]) = LockKey(turn[u])
        /\ advisory[LockKey(turn[u])] = u => advisory'[LockKey(turn[u])] = u

LEMMA QuietKeeps == ASSUME HoldsAdvisory, Quiet PROVE HoldsAdvisory'
  BY DEF HoldsAdvisory, Quiet

\* A quiet step lets turns leave their sections, or changes nothing.
LEMMA QuietLeaves == ASSUME Quiet PROVE Mutex!Next
<1>. DEFINE S == {t \in Turns : ~Inside(t)'}
<1>1. \A t \in Turns : t \notin S => Inside(t) /\ LockKey(turn'[t]) = LockKey(turn[t])
  BY DEF Quiet
<1>2. Occupied' = [t \in Turns |-> IF t \in S THEN NoKey ELSE Occupied[t]]
  BY <1>1 DEF Occupied
<1>3. S \in SUBSET Turns
  OBVIOUS
<1>. QED
  BY <1>2, <1>3 DEF Mutex!Next, Mutex!Leave

\* A turn moves to a place that is not inside, or stays inside.
LEMMA MoveQuiet ==
  ASSUME TypeOK, NEW t \in Turns, Active(t), NEW p \in Places, Goes(t, p),
         p \in {"access", "running"} => Inside(t),
         advisory' = advisory \/ (p = "return" /\ advisory' = Released(t))
  PROVE  Quiet
<1>. SUFFICES ASSUME NEW u \in Turns, Inside(u)'
              PROVE  /\ Inside(u) /\ LockKey(turn'[u]) = LockKey(turn[u])
                     /\ advisory[LockKey(turn[u])] = u => advisory'[LockKey(turn[u])] = u
  BY DEF Quiet
<1>1. CASE u = t
  BY <1>1, GoesEffect DEF Inside
<1>2. CASE u # t
  <2>1. turn'[u] = turn[u] /\ Inside(u)
    BY <1>2, GoesEffect DEF Inside
  <2>2. LockKey(turn[u]) \in Keys
    BY <2>1, ActiveType DEF Inside, Active
  <2>. QED
    BY <1>2, <2>1, <2>2, ReleasedType
<1>. QED
  BY <1>1, <1>2

\* So does a turn that goes idle.
LEMMA IdleQuiet ==
  ASSUME TypeOK, NEW t \in Turns, turn' = [turn EXCEPT ![t] = Idle],
         advisory' = advisory \/ advisory' = Released(t)
  PROVE  Quiet
<1>. SUFFICES ASSUME NEW u \in Turns, Inside(u)'
              PROVE  /\ Inside(u) /\ LockKey(turn'[u]) = LockKey(turn[u])
                     /\ advisory[LockKey(turn[u])] = u => advisory'[LockKey(turn[u])] = u
  BY DEF Quiet
<1>1. u # t /\ turn'[u] = turn[u] /\ Inside(u)
  BY DEF Inside, Idle, TypeOK
<1>2. LockKey(turn[u]) \in Keys
  BY <1>1, ActiveType DEF Inside, Active
<1>. QED
  BY <1>1, <1>2, ReleasedType

LEMMA ArriveQuiet ==
  ASSUME TypeOK, NEW t \in Turns, NEW w \in Workers, NEW api \in Apis, NEW h \in Threads,
         Arrive(t, w, api, h)
  PROVE  Quiet
<1>1. \A u \in Turns \ {t} : turn'[u] = turn[u]
  BY DEF Arrive, TypeOK
<1>2. ~Inside(t)'
  <2>. DEFINE c == [at |-> "connect", worker |-> w, api |-> api, thread |-> h]
  <2>1. turn'[t] = c \/ turn'[t] = [c EXCEPT !.at = "local"]
    BY DEF Arrive, TypeOK
  <2>2. turn'[t].at \in {"connect", "local"}
    BY <2>1
  <2>. QED
    BY <2>2 DEF Inside
<1>3. advisory' = advisory
  BY DEF Arrive
<1>. QED
  BY <1>1, <1>2, <1>3 DEF Quiet, Inside

LEMMA KillQuiet == ASSUME TypeOK, NEW w \in Workers, Kill(w) PROVE Quiet
<1>. SUFFICES ASSUME NEW u \in Turns, Inside(u)'
              PROVE  /\ Inside(u) /\ LockKey(turn'[u]) = LockKey(turn[u])
                     /\ advisory[LockKey(turn[u])] = u => advisory'[LockKey(turn[u])] = u
  BY DEF Quiet
<1>1. turn'[u] = turn[u] /\ Inside(u) /\ turn[u].worker # w
  BY DEF Kill, Inside, Active, Idle
<1>2. LockKey(turn[u]) \in Keys
  BY <1>1, ActiveType DEF Inside, Active
<1>3. u \notin InEntry(w, LockKey(turn[u]))
  BY <1>1 DEF InEntry
<1>. QED
  BY <1>1, <1>2, <1>3 DEF Kill

\* The one step that lets a turn in: the lock was free, so nobody was inside.
LEMMA LockAdvisoryEnters ==
  ASSUME TypeOK, HoldsAdvisory, NEW t \in Turns, LockAdvisory(t)
  PROVE  HoldsAdvisory' /\ Mutex!Next
<1>0. PICK k \in Keys : k = LockKey(turn[t])
  BY ActiveType DEF LockAdvisory, Active
<1>1. Active(t) /\ Goes(t, "access") /\ "access" \in Places /\ ~Inside(t)
  BY DEF LockAdvisory, Active, Places, Inside
<1>2. advisory[k] = None /\ advisory' = [advisory EXCEPT ![k] = t]
  BY <1>0 DEF LockAdvisory, AdvisoryFree
<1>3. \A u \in Turns \ {t} :
         /\ Inside(u)' <=> Inside(u)
         /\ turn'[u] = turn[u]
         /\ Inside(u) => LockKey(turn[u]) \in Keys /\ LockKey(turn[u]) # k
                         /\ advisory[LockKey(turn[u])] = u
  <2>1. \A u \in Turns \ {t} : turn'[u] = turn[u] /\ (Inside(u)' <=> Inside(u))
    BY <1>1, GoesEffect DEF Inside
  <2>2. \A u \in Turns : Inside(u) =>
           LockKey(turn[u]) \in Keys /\ advisory[LockKey(turn[u])] = u /\ u # None
    BY ActiveType, TurnAssumption DEF Inside, Active, HoldsAdvisory, None
  <2>. QED
    BY <1>2, <2>1, <2>2
<1>4. Inside(t)' /\ LockKey(turn'[t]) = k
  BY <1>0, <1>1, GoesEffect DEF Inside
<1>5. HoldsAdvisory'
  BY <1>2, <1>3, <1>4 DEF HoldsAdvisory, TypeOK
<1>6. Occupied' = [Occupied EXCEPT ![t] = k]
  BY <1>3, <1>4 DEF Occupied
<1>7. Occupied[t] = NoKey /\ \A u \in Turns : Occupied[u] # k
  <2>1. NoKey # k
    BY <1>0 DEF NoKey, Keys, None
  <2>. QED
    BY <1>1, <1>3, <2>1 DEF Occupied
<1>8. Mutex!Enter(t, k)
  BY <1>6, <1>7 DEF Mutex!Enter
<1>. QED
  BY <1>5, <1>8 DEF Mutex!Next

\* Every step but the loss of a session is a quiet one or an entry.
LEMMA NextEnters ==
  ASSUME TypeOK, HoldsAdvisory, "disconnect" \notin Faults, Next
  PROVE  HoldsAdvisory' /\ Mutex!Next
<1>0. Places = {"local", "connect", "advisory", "access", "running", "unlock", "return"}
  BY DEF Places
<1>1. ASSUME NEW t \in Turns, NEW w \in Workers, NEW api \in Apis, NEW h \in Threads,
             Arrive(t, w, api, h)
      PROVE  Quiet
  BY <1>1, ArriveQuiet
<1>2. ASSUME NEW t \in Turns, Step(t), ~LockAdvisory(t) PROVE Quiet
  <2>1. CASE AcquireLocal(t)
    BY <1>0, <2>1, MoveQuiet DEF AcquireLocal, Active
  <2>2. CASE Connect(t)
    BY <1>0, <2>2, MoveQuiet DEF Connect, Active
  <2>3. CASE ConnectTimeout(t)
    BY <2>3, IdleQuiet DEF ConnectTimeout, Leave
  <2>4. CASE Access(t)
    BY <1>0, <2>4, MoveQuiet DEF Access, Active, Inside
  <2>5. CASE AccessTimeout(t)
    BY <1>0, <2>5, MoveQuiet DEF AccessTimeout, Active
  <2>6. CASE Finish(t)
    BY <1>0, <2>6, MoveQuiet DEF Finish, Active
  <2>7. CASE Unlock(t)
    BY <1>0, <2>7, MoveQuiet DEF Unlock, Active
  <2>8. CASE Return(t)
    BY <2>8, IdleQuiet DEF Return, Leave
  <2>. QED
    BY <1>2, <2>1, <2>2, <2>3, <2>4, <2>5, <2>6, <2>7, <2>8 DEF Step
<1>3. ASSUME NEW t \in Turns, Cancel(t) PROVE Quiet
  BY <1>3, IdleQuiet DEF Cancel, Leave
<1>4. ASSUME NEW t \in Turns, LoseSession(t) PROVE FALSE
  BY <1>4 DEF LoseSession, Fault
<1>5. ASSUME NEW w \in Workers, Kill(w) PROVE Quiet
  BY <1>5, KillQuiet
<1>6. Quiet => HoldsAdvisory' /\ Mutex!Next
  BY QuietKeeps, QuietLeaves
<1>7. (\E t \in Turns : LockAdvisory(t)) => HoldsAdvisory' /\ Mutex!Next
  BY LockAdvisoryEnters
<1>. QED
  BY <1>1, <1>2, <1>3, <1>4, <1>5, <1>6, <1>7 DEF Next

LEMMA HoldsAdvisoryHolds ==
  ASSUME "disconnect" \notin Faults PROVE Spec => [](TypeOK /\ HoldsAdvisory)
<1>1. Init => HoldsAdvisory
  BY DEF Init, HoldsAdvisory, Inside, Idle
<1>2. TypeOK /\ HoldsAdvisory /\ [Next]_vars => HoldsAdvisory'
  BY NextEnters DEF vars, HoldsAdvisory, Inside
<1>. QED
  BY <1>1, <1>2, TypeCorrect, PTL DEF Spec

\* While no session is lost, the turns of a key exclude each other across workers.
THEOREM MutualExclusion == ASSUME "disconnect" \notin Faults PROVE Spec => []OneTurnPerKey
<1>1. HoldsAdvisory => OneTurnPerKey
  BY DEF HoldsAdvisory, OneTurnPerKey
<1>. QED
  BY <1>1, HoldsAdvisoryHolds, PTL

\* The registry, the pool and the advisory lock together implement the mutex.
THEOREM Refinement == ASSUME "disconnect" \notin Faults PROVE Spec => ImplementsKeyedMutex
<1>1. Init => Mutex!Init
  BY DEF Init, Mutex!Init, Occupied, Inside, Idle
<1>2. TypeOK /\ HoldsAdvisory /\ [Next]_vars => [Mutex!Next]_Occupied
  BY NextEnters DEF vars, Occupied, Inside
<1>. QED
  BY <1>1, <1>2, HoldsAdvisoryHolds, PTL DEF Spec, ImplementsKeyedMutex, Mutex!Spec
==============================================================================
