------------------------------- MODULE Tenancy -------------------------------
(***************************************************************************)
(* Projects, their members, the audit trail and the ownership of threads.  *)
(* A request on a project is checked against the role of its principal,    *)
(* the decision is recorded, and only then is it served; each of these is  *)
(* a transaction of its own, so requests interleave between them, and a    *)
(* statement of a transaction sees what others have committed by then      *)
(* (READ COMMITTED; unique constraints are the last word on inserts).      *)
(*                                                                         *)
(* The locks of ThreadLocks are left out: the two agent APIs hold          *)
(* different ones while they claim the same thread.                        *)
(***************************************************************************)
EXTENDS Naturals, FiniteSets

CONSTANTS
    Principals,
    PlatformAdmins,     \* principals with the platform_admin role
    Demos,              \* principals of demo sessions
    MaxOwned,           \* max_projects_per_creator
    MaxProjects,        \* bound: projects there can be
    FirstAdmin,         \* who created project 1
    Threads,            \* the thread ids of project 1
    Wanted,             \* the requests that may arrive
    MaxRequests,        \* bound: requests
    MaxFaults           \* bound: failing calls and deaths

Projects == 1..MaxProjects
Roles == {"viewer", "contributor", "admin"}
Kinds == {"create", "grant", "revoke", "chat", "memory"}
Want == [kind : Kinds, by : Principals, project : Projects, target : Principals,
         role : Roles, thread : Threads]

Requests == 1..MaxRequests    \* numbered as they arrive

ASSUME TenancyAssumption ==
    /\ MaxOwned \in Nat \ {0} /\ MaxRequests \in Nat /\ MaxFaults \in Nat
    /\ MaxProjects \in Nat \ {0}
    /\ PlatformAdmins \subseteq Principals /\ Demos \subseteq Principals
    /\ FirstAdmin \in Principals
    /\ "nobody" \notin Principals
    /\ Wanted \subseteq Want
    /\ \A w \in Wanted : w.kind \in {"chat", "memory"} => w.project = 1

VARIABLES
    created,    \* the rows of projects
    roles,      \* the rows of project_memberships: a role or "none"
    threads,    \* the rows of conversation_threads: the owner or "nobody"
    requests,   \* what each request is doing, and its audit events
    together,   \* history: principals with two creations between count and insert
    granted,    \* history: principals who were granted a role
    faults

vars == <<created, roles, threads, requests, together, granted, faults>>

-----------------------------------------------------------------------------
(* Roles and requests.                                                     *)

Permissions(role) ==
    CASE role = "viewer" -> {"read"}
      [] role = "contributor" -> {"read", "write"}
      [] role = "admin" -> {"read", "write", "manage"}
      [] OTHER -> {}

Needed(kind) == IF kind \in {"grant", "revoke"} THEN "manage" ELSE "read"

NoWant == [kind |-> "none"]
NewRequest == [want |-> NoWant, at |-> "new", allowed |-> FALSE, found |-> FALSE, tries |-> 0,
               events |-> {}, outcome |-> "none", changed |-> FALSE,
               disturbed |-> FALSE]

Places == {"new", "policy", "audit", "count", "insert", "member", "find", "claim",
           "select", "write", "refresh", "event", "done"}
Outcomes == {"none", "ok", "denied", "limited", "missing", "unavailable", "failed"}

Owned(u) == {p \in Projects : roles[p][u] # "none"}

w(r) == requests[r].want
RoleOf(r) == roles[w(r).project][w(r).by]
TargetRole(r) == roles[w(r).project][w(r).target]

\* The policy; a demo's own project is project 1.
Entitled(r) ==
    /\ w(r).by \in Demos => w(r).project = 1 /\ Needed(w(r).kind) = "read"
    /\ w(r).by \in PlatformAdmins \/ Needed(w(r).kind) \in Permissions(RoleOf(r))

-----------------------------------------------------------------------------
Init ==
    /\ created = {1}
    /\ roles = [p \in Projects |-> [u \in Principals |->
                   IF p = 1 /\ u = FirstAdmin THEN "admin" ELSE "none"]]
    /\ threads = [t \in Threads |-> "nobody"]
    /\ requests = [r \in Requests |-> NewRequest]
    /\ together = {} /\ granted = {} /\ faults = 0

At(r, place) == requests[r].at = place
Goto(r, place) == requests' = [requests EXCEPT ![r].at = place]
Ends(r, outcome) == requests' = [requests EXCEPT ![r].at = "done", ![r].outcome = outcome]
Breaks(r, outcome) ==
    /\ faults < MaxFaults /\ faults' = faults + 1
    /\ Ends(r, outcome)

rows == <<created, roles, threads>>
history == <<together, granted>>

Arrive(r, want) ==
    /\ At(r, "new") /\ \A q \in 1..(r - 1) : ~At(q, "new")
    /\ requests' = [requests EXCEPT ![r] =
          [NewRequest EXCEPT !.want = want,
                             !.at = IF want.kind # "create" THEN "policy"
                                    ELSE IF want.by \in Demos THEN "done" ELSE "count",
                             !.outcome = IF want.kind = "create" /\ want.by \in Demos
                                         THEN "denied" ELSE "none"]]
    /\ UNCHANGED <<rows, history, faults>>

-----------------------------------------------------------------------------
(* The policy check and its audit event.                                   *)

Policy(r) ==
    /\ At(r, "policy")
    /\ requests' = [requests EXCEPT ![r].at = "audit", ![r].allowed = Entitled(r)]
    /\ UNCHANGED <<rows, history, faults>>

Serving(kind) == IF kind \in {"grant", "revoke"} THEN "select" ELSE "member"

\* A decision is recorded before it takes effect.  The event of an allowed
\* request names its project, which must exist.
Audit(r) ==
    /\ At(r, "audit")
    /\ IF ~requests[r].allowed
       THEN requests' = [requests EXCEPT ![r].at = "done", ![r].outcome = "denied",
                                         ![r].events = {"denied"}]
       ELSE IF w(r).project \in created
       THEN requests' = [requests EXCEPT ![r].at = Serving(w(r).kind), ![r].events = {"allowed"}]
       ELSE Ends(r, "unavailable")
    /\ UNCHANGED <<rows, history, faults>>

\* Mutant: a request is served although its event could not be recorded.
AuditFailsOpen(r) ==
    /\ At(r, "audit") /\ requests[r].allowed /\ faults < MaxFaults
    /\ faults' = faults + 1
    /\ Goto(r, Serving(w(r).kind))
    /\ UNCHANGED <<rows, history>>

AuditFails(r) ==
    /\ At(r, "audit")
    /\ Breaks(r, "unavailable")
    /\ UNCHANGED <<rows, history>>

-----------------------------------------------------------------------------
(* Creating a project.                                                     *)

\* Mutant: the limit is exceeded by one.
WithinLimitPlusOne(u) == Cardinality(Owned(u)) <= MaxOwned

WithinLimit(u) == Cardinality(Owned(u)) < MaxOwned

Creating(u) == {r \in Requests : w(r).kind = "create" /\ At(r, "insert") /\ w(r).by = u}

Count(r) ==
    /\ At(r, "count")
    /\ IF WithinLimit(w(r).by) THEN Goto(r, "insert") ELSE Ends(r, "limited")
    /\ together' = IF Creating(w(r).by) # {} THEN together \cup {w(r).by} ELSE together
    /\ UNCHANGED <<rows, granted, faults>>

\* The project and its first admin are inserted and committed together.
Insert(r) ==
    /\ At(r, "insert")
    /\ \E p \in Projects \ created :
          /\ \A q \in Projects : q < p => q \in created
          /\ created' = created \cup {p}
          /\ roles' = [roles EXCEPT ![p][w(r).by] = "admin"]
    /\ requests' = [requests EXCEPT ![r].at = "event", ![r].changed = TRUE]
    /\ UNCHANGED <<threads, history, faults>>

-----------------------------------------------------------------------------
(* Granting and revoking.                                                  *)

SelectMember(r) ==
    /\ At(r, "select")
    /\ LET found == TargetRole(r) # "none"
       IN  IF w(r).kind = "revoke" /\ ~found
           THEN Ends(r, "missing")
           ELSE requests' = [requests EXCEPT ![r].at = "write", ![r].found = found]
    /\ UNCHANGED <<rows, history, faults>>

\* Others that are at work on the member whose row r changes.
Disturbed(r) ==
    {q \in Requests \ {r} :
        /\ ~At(q, "new") /\ ~At(q, "done") /\ w(q).kind # "create"
        /\ w(q).project = w(r).project
        /\ w(r).target = IF w(q).kind \in {"grant", "revoke"} THEN w(q).target ELSE w(q).by}

Changes(r, role, place) ==
    /\ roles' = [roles EXCEPT ![w(r).project][w(r).target] = role]
    /\ requests' = [q \in Requests |->
          IF q = r THEN [requests[r] EXCEPT !.at = place, !.changed = TRUE]
          ELSE [requests[q] EXCEPT !.disturbed = @ \/ q \in Disturbed(r)]]

\* The row is inserted, which another's insert may have forestalled, or
\* updated, which another's delete may have.
Grant(r) ==
    /\ At(r, "write") /\ w(r).kind = "grant"
    /\ IF requests[r].found = (TargetRole(r) # "none")
       THEN Changes(r, w(r).role, "refresh") /\ granted' = granted \cup {w(r).target}
       ELSE Ends(r, "failed") /\ UNCHANGED <<roles, granted>>
    /\ UNCHANGED <<created, threads, together, faults>>

\* The row is read again after the commit.
Refresh(r) ==
    /\ At(r, "refresh")
    /\ IF TargetRole(r) = "none" THEN Ends(r, "failed") ELSE Goto(r, "event")
    /\ UNCHANGED <<rows, history, faults>>

\* Mutant: the row is kept, with the role of a former member.
RevokeSoftly(r) ==
    /\ At(r, "write") /\ w(r).kind = "revoke"
    /\ Changes(r, "former", "event")
    /\ UNCHANGED <<created, threads, history, faults>>

\* Deleting a row that is gone by now is no error.
Revoke(r) ==
    /\ At(r, "write") /\ w(r).kind = "revoke"
    /\ Changes(r, "none", "event")
    /\ UNCHANGED <<created, threads, history, faults>>

\* The event of a change is recorded after its commit.
Event(r) ==
    /\ At(r, "event")
    /\ requests' = [requests EXCEPT ![r].at = "done", ![r].outcome = "ok",
                                    ![r].events = @ \cup {"succeeded"}]
    /\ UNCHANGED <<rows, history, faults>>

-----------------------------------------------------------------------------
(* Conversation threads.                                                   *)

\* The membership is looked up again, without regard to platform_admin.
CheckMember(r) ==
    /\ At(r, "member")
    /\ IF RoleOf(r) = "none" THEN Ends(r, "denied") ELSE Goto(r, "find")
    /\ UNCHANGED <<rows, history, faults>>

\* Only a message creates a thread.
FindThread(r) ==
    /\ At(r, "find")
    /\ LET owner == threads[w(r).thread]
       IN  \/ owner = w(r).by /\ Ends(r, "ok")
           \/ owner = "nobody" /\ w(r).kind = "chat" /\ Goto(r, "claim")
           \/ owner = "nobody" /\ w(r).kind # "chat" /\ Ends(r, "denied")
           \/ owner \notin {"nobody", w(r).by} /\ Ends(r, "denied")
    /\ UNCHANGED <<rows, history, faults>>

\* Mutant: no unique constraint; a second row takes the thread over.
ClaimAnyway(r) ==
    /\ At(r, "claim")
    /\ threads' = [threads EXCEPT ![w(r).thread] = w(r).by]
    /\ Ends(r, "ok")
    /\ UNCHANGED <<created, roles, history, faults>>

\* Mutant: a conflict is not retried.
ClaimOnce(r) ==
    /\ At(r, "claim")
    /\ IF threads[w(r).thread] = "nobody"
       THEN threads' = [threads EXCEPT ![w(r).thread] = w(r).by] /\ Ends(r, "ok")
       ELSE Ends(r, "denied") /\ UNCHANGED threads
    /\ UNCHANGED <<created, roles, history, faults>>

\* The row is inserted unless another was; then all is tried once again.
Claim(r) ==
    /\ At(r, "claim")
    /\ IF threads[w(r).thread] = "nobody"
       THEN threads' = [threads EXCEPT ![w(r).thread] = w(r).by] /\ Ends(r, "ok")
       ELSE /\ UNCHANGED threads
            /\ IF requests[r].tries = 0
               THEN requests' = [requests EXCEPT ![r].at = "member", ![r].tries = 1]
               ELSE Ends(r, "denied")
    /\ UNCHANGED <<created, roles, history, faults>>

\* The process dies, or a call of PostgreSQL raises.
Fail(r) ==
    /\ ~At(r, "new") /\ ~At(r, "audit") /\ ~At(r, "done")
    /\ Breaks(r, "failed")
    /\ UNCHANGED <<rows, history>>

-----------------------------------------------------------------------------
Step(r) ==
    \/ Policy(r) \/ Audit(r) \/ AuditFails(r)
    \/ Count(r) \/ Insert(r)
    \/ SelectMember(r) \/ Grant(r) \/ Refresh(r) \/ Revoke(r) \/ Event(r)
    \/ CheckMember(r) \/ FindThread(r) \/ Claim(r) \/ Fail(r)

Next == \E r \in Requests : (\E want \in Wanted : Arrive(r, want)) \/ Step(r)

Spec == Init /\ [][Next]_vars

-----------------------------------------------------------------------------
(* Properties.                                                             *)

\* The shape of the state.
TypeOK ==
    /\ created \subseteq Projects
    /\ roles \in [Projects -> [Principals -> Roles \cup {"none"}]]
    /\ threads \in [Threads -> Principals \cup {"nobody"}]
    /\ requests \in [Requests ->
          [want : Wanted \cup {NoWant}, at : Places, allowed : BOOLEAN, found : BOOLEAN,
           tries : {0, 1}, events : SUBSET {"denied", "allowed", "succeeded"},
           outcome : Outcomes, changed : BOOLEAN, disturbed : BOOLEAN]]
    /\ together \subseteq Principals /\ granted \subseteq Principals
    /\ faults \in 0..MaxFaults

Began(r) == requests[r].want # NoWant
Ok(r) == requests[r].outcome = "ok"
IsChange(r) == w(r).kind \in {"create", "grant", "revoke"}

\* Where a role can come from: a creation of its holder, or a grant of just this
\* role to its holder, whose decision was recorded.
Gave(r, p, u) ==
    /\ requests[r].changed
    /\ \/ w(r).kind = "create" /\ w(r).by = u /\ roles[p][u] = "admin"
       \/ /\ w(r).kind = "grant" /\ "allowed" \in requests[r].events
          /\ w(r).project = p /\ w(r).target = u /\ w(r).role = roles[p][u]

Claimed(r, t) ==
    /\ w(r).kind = "chat" /\ w(r).thread = t /\ w(r).by = threads[t]
    /\ "allowed" \in requests[r].events

\* No request on an existing project changes it, serves a thread or is denied
\* without an event of the decision, and the tables show the same: a role that
\* is held and a thread that is owned go back to a recorded decision.  Creations
\* are the exception: they have no decision to record, and only an event of
\* their success, which comes after the commit.  So a new project, and its
\* admin's role, may stand with no event at all (routes/projects.py:55-77), as a
\* grant or a revocation with its decision's only; what is sure is that a change
\* is answered with success only with the event of its success.
EveryEffectAudited ==
    /\ \A r \in Requests : Began(r) =>
          /\ w(r).kind # "create" /\ (requests[r].changed \/ Ok(r)) => "allowed" \in requests[r].events
          /\ w(r).kind # "create" /\ requests[r].outcome = "denied" => requests[r].events # {}
          /\ IsChange(r) /\ Ok(r) => "succeeded" \in requests[r].events
          /\ requests[r].changed /\ "succeeded" \notin requests[r].events =>
                 requests[r].outcome \in {"none", "failed"}
    /\ \A p \in Projects, u \in Principals : roles[p][u] # "none" =>
          \/ p = 1 /\ u = FirstAdmin /\ roles[p][u] = "admin"
          \/ \E r \in Requests : Gave(r, p, u)
    /\ \A t \in Threads : threads[t] # "nobody" => \E r \in Requests : Claimed(r, t)

\* A principal who may use a project is never refused its own thread because
\* another of its requests claims it at the same time.
OwnClaimNotRefused ==
    \A r \in Requests : w(r).kind = "chat" /\ requests[r].outcome = "denied"
        /\ "allowed" \in requests[r].events /\ threads[w(r).thread] = w(r).by =>
            requests[r].disturbed \/ w(r).by \in PlatformAdmins

\* A principal has more projects than the limit only if others granted it a
\* role, or if its own creations counted before one of them inserted.
LimitPassedOnlyTogether ==
    \A u \in Principals : Cardinality(Owned(u)) > MaxOwned => u \in together \cup granted

Served == {<<w(r).thread, w(r).by>> : r \in {r \in Requests : w(r).kind \in {"chat", "memory"} /\ Ok(r)}}

Ownership == INSTANCE ThreadOwnership WITH Nobody <- "nobody", owner <- threads, served <- Served

\* Whatever requests race, fail or retry, a thread belongs to the first who
\* claimed it and is served to nobody else.
ImplementsOwnership == Ownership!Spec
=============================================================================
