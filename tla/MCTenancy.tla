------------------------------ MODULE MCTenancy ------------------------------
(* Instances of Tenancy for TLC. *)
EXTENDS Tenancy

Ask(kind, by, project, target, role) ==
    [kind |-> kind, by |-> by, project |-> project, target |-> target, role |-> role,
     thread |-> CHOOSE t \in Threads : TRUE]

\* Creations of one principal, grants and revocations of one member by two
\* admins, a bystander's attempts, and threads claimed by all.
SomeWanted ==
    {Ask("create", u, 1, u, "admin") : u \in {"bob", "guest"}}
        \cup {Ask("grant", "ann", 1, v, "viewer") : v \in {"bob", "guest"}}
        \cup {Ask("grant", "root", p, "bob", "contributor") : p \in {1, 2}}
        \cup {Ask("revoke", "ann", 1, v, "viewer") : v \in {"ann", "bob"}}
        \cup {Ask("revoke", "bob", 1, "ann", "viewer")}
        \cup {Ask("chat", u, 1, u, "viewer") : u \in Principals}
        \cup {Ask("memory", "bob", 1, "bob", "viewer")}
==============================================================================
