--------------------------- MODULE ThreadOwnership ---------------------------
(***************************************************************************)
(* What the ownership of conversation threads promises: the first who      *)
(* claims a thread owns it for good, and nobody else is ever served it.    *)
(***************************************************************************)
CONSTANTS Threads, Principals, Nobody

VARIABLES
    owner,      \* who owns each thread
    served      \* the pairs of a thread and a principal it was served to

vars == <<owner, served>>

Init == owner = [t \in Threads |-> Nobody] /\ served = {}

Claim(t, u) ==
    /\ owner[t] = Nobody
    /\ owner' = [owner EXCEPT ![t] = u]
    /\ served' \in {served, served \cup {<<t, u>>}}

Serve(t, u) ==
    /\ owner[t] = u
    /\ served' = served \cup {<<t, u>>}
    /\ UNCHANGED owner

Next == \E t \in Threads, u \in Principals : Claim(t, u) \/ Serve(t, u)

Spec == Init /\ [][Next]_vars
==============================================================================
