----------------------------- MODULE KeyedMutex -----------------------------
(***************************************************************************)
(* What PostgresAdvisoryKeyedLock promises its users: "Serialize a key     *)
(* across all API workers".  Who waits, where, and for what connection is  *)
(* not part of the promise.                                                *)
(***************************************************************************)
CONSTANTS Turns, Keys, NoKey

VARIABLE inside     \* the key whose section each turn is in, or NoKey

Init == inside = [t \in Turns |-> NoKey]

Enter(t, k) ==
    /\ inside[t] = NoKey
    /\ \A u \in Turns : inside[u] # k
    /\ inside' = [inside EXCEPT ![t] = k]

\* Several turns leave at once when their worker dies.
Leave(S) == inside' = [t \in Turns |-> IF t \in S THEN NoKey ELSE inside[t]]

Next == (\E t \in Turns, k \in Keys : Enter(t, k)) \/ (\E S \in SUBSET Turns : Leave(S))

Spec == Init /\ [][Next]_inside
==============================================================================
