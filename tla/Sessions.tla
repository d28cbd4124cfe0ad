------------------------------- MODULE Sessions -------------------------------
(***************************************************************************)
(* Browser sessions and the demo workspace: sign-in transactions and       *)
(* sessions live in Redis, the viewer role of a demo session in            *)
(* PostgreSQL, and a request that authenticates reads its session,         *)
(* refreshes it and writes it back in separate calls.  A periodic task     *)
(* scans the sessions and then removes the roles of those it did not meet. *)
(*                                                                         *)
(* One action is one Redis call, one transaction or one call of the        *)
(* identity provider.  A request is served once; the session it creates,   *)
(* if any, bears its name.                                                 *)
(***************************************************************************)
EXTENDS Naturals

CONSTANTS
    MaxRequests,        \* bound: requests of all browsers
    SignIns,            \* the state values of sign-in transactions
    IdleTimeout,        \* idle_timeout_seconds
    AbsoluteTimeout,    \* absolute_timeout_seconds
    SignInTimeout,      \* transaction_ttl_seconds
    MaxTime,            \* bound: nothing starts later
    MaxFaults           \* bound: failing calls and deaths

ASSUME SessionsAssumption ==
    /\ IdleTimeout \in Nat \ {0} /\ AbsoluteTimeout \in Nat \ {0}
    /\ SignInTimeout \in Nat \ {0}
    /\ MaxRequests \in Nat /\ MaxTime \in Nat /\ MaxFaults \in Nat
    /\ "no state" \notin SignIns

Requests == 1..MaxRequests    \* numbered as they arrive

VARIABLES
    clock,      \* seconds, of every process and of Redis
    signIns,    \* Redis: when the transaction of a state expires, 0 for none
    keys,       \* Redis: the record of each session and when its key goes, if ever
    members,    \* PostgreSQL: the demo sessions that have the viewer role
    requests,   \* what each request is doing
    cleanup,    \* the cleanup task
    born,       \* history: when each session was created
    taken,      \* history: transactions a callback has been through with
    ended,      \* history: sessions deleted by a logout
    overlapped, \* history: sessions being refreshed as a logout deleted them
    raced,      \* history: roles removed of sessions that came up during a scan
    faults

vars == <<clock, signIns, keys, members, requests, cleanup, born, taken, ended, overlapped, raced, faults>>
history == <<born, taken, ended, overlapped, raced>>

-----------------------------------------------------------------------------
(* Records.                                                                *)

Kinds == {"none", "callback", "demo", "read", "logout"}
Places == {"new", "take", "exchange", "create", "grant", "undo", "check", "save", "drop",
           "end", "revoke", "done"}
Outcomes == {"none", "ok", "refused", "failed"}

NoRecord == [expires |-> 0, absolute |-> 0]
NoKey == [record |-> NoRecord, goes |-> 0]

NewRequest == [kind |-> "none", at |-> "new", on |-> 0, state |-> "no state",
               saw |-> NoRecord, late |-> FALSE, outcome |-> "none"]

NoCleanup == [at |-> "idle", live |-> {}, steady |-> {}]

Present(s) == keys[s] # NoKey

Expired(record) == clock >= record.expires \/ clock >= record.absolute

\* SETEX with a time to live that is never below a second.
Key(record) ==
    [record |-> record,
     goes |-> IF clock < record.absolute THEN record.absolute ELSE clock + 1]

Earlier(x, y) == IF x < y THEN x ELSE y

\* Mutant: the absolute deadline slides with every request.
RefreshedAbsolute(record) ==
    [expires |-> clock + IdleTimeout, absolute |-> clock + AbsoluteTimeout]

Refreshed(record) ==
    [record EXCEPT !.expires = Earlier(clock + IdleTimeout, record.absolute)]

\* What a request whose cookies hold a session may be given.
Given == {s \in Requests : requests[s].kind \in {"callback", "demo"} /\ requests[s].outcome = "ok"}

Refreshing(s) == {r \in Requests : requests[r].on = s /\ requests[r].at \in {"check", "save"}}

-----------------------------------------------------------------------------
Init ==
    /\ clock = 0 /\ signIns = [t \in SignIns |-> 0]
    /\ keys = [s \in Requests |-> NoKey] /\ members = {}
    /\ requests = [r \in Requests |-> NewRequest]
    /\ cleanup = NoCleanup
    /\ born = [s \in Requests |-> 0]
    /\ taken = {} /\ ended = {} /\ overlapped = {} /\ raced = {} /\ faults = 0

New(r) ==
    /\ requests[r].at = "new" /\ clock <= MaxTime
    /\ \A q \in 1..(r - 1) : requests[q].at # "new"
At(r, place) == requests[r].at = place
Goto(r, place) == requests' = [requests EXCEPT ![r].at = place]
Ends(r, outcome) == requests' = [requests EXCEPT ![r].at = "done", ![r].outcome = outcome]

Removed(s) ==
    /\ keys' = [keys EXCEPT ![s] = NoKey]
    /\ cleanup' = [cleanup EXCEPT !.steady = @ \ {s}]

\* A second passes: Redis drops what has outlived its time.
Tick ==
    /\ clock <= MaxTime \/ \E s \in Requests : keys[s].goes > clock
    /\ clock' = clock + 1
    /\ signIns' = [t \in SignIns |-> IF signIns[t] = clock + 1 THEN 0 ELSE signIns[t]]
    /\ keys' = [s \in Requests |-> IF keys[s].goes = clock + 1 THEN NoKey ELSE keys[s]]
    /\ cleanup' = [cleanup EXCEPT !.steady = {s \in @ : keys[s].goes # clock + 1}]
    /\ UNCHANGED <<members, requests, history, faults>>

-----------------------------------------------------------------------------
(* Sign-in.                                                                *)

Login(t) ==
    /\ clock <= MaxTime /\ signIns[t] = 0
    /\ \A r \in Requests : requests[r].state # t    \* a state is used once
    /\ signIns' = [signIns EXCEPT ![t] = clock + SignInTimeout]
    /\ UNCHANGED <<clock, keys, members, requests, cleanup, history, faults>>

\* The callback reads the transaction of its state, if it is still there.
Callback(r, t) ==
    /\ New(r)
    /\ requests' = [requests EXCEPT ![r] =
          [NewRequest EXCEPT !.kind = "callback", !.at = "take", !.state = t,
                             !.saw = [NoRecord EXCEPT !.expires = signIns[t]],
                             !.late = t \in taken]]
    /\ UNCHANGED <<clock, signIns, keys, members, cleanup, history, faults>>

\* Mutant: the transaction is not deleted.
TakeSignInAgain(r) ==
    /\ At(r, "take")
    /\ taken' = taken \cup {requests[r].state}
    /\ IF requests[r].saw = NoRecord THEN Ends(r, "refused") ELSE Goto(r, "exchange")
    /\ UNCHANGED <<clock, signIns, keys, members, cleanup, born, ended, overlapped, raced, faults>>

\* The transaction is deleted, whether it was found or not.
TakeSignIn(r) ==
    /\ At(r, "take")
    /\ signIns' = [signIns EXCEPT ![requests[r].state] = 0]
    /\ taken' = taken \cup {requests[r].state}
    /\ IF requests[r].saw = NoRecord THEN Ends(r, "refused") ELSE Goto(r, "exchange")
    /\ UNCHANGED <<clock, keys, members, cleanup, born, ended, overlapped, raced, faults>>

\* The identity provider takes the code and vouches for the user, or not.
Exchange(r) ==
    /\ At(r, "exchange")
    /\ Goto(r, "create") \/ Ends(r, "refused")
    /\ UNCHANGED <<clock, signIns, keys, members, cleanup, history, faults>>

CreateSession(r) ==
    /\ keys' = [keys EXCEPT ![r] = Key([expires |-> clock + IdleTimeout,
                                        absolute |-> clock + AbsoluteTimeout])]
    /\ born' = [born EXCEPT ![r] = clock]

SignedIn(r) ==
    /\ At(r, "create")
    /\ CreateSession(r)
    /\ Ends(r, "ok")
    /\ UNCHANGED <<clock, signIns, members, cleanup, taken, ended, overlapped, raced, faults>>

-----------------------------------------------------------------------------
(* Demo sessions.                                                          *)

Demo(r) ==
    /\ New(r)
    /\ CreateSession(r)
    /\ requests' = [requests EXCEPT ![r] = [NewRequest EXCEPT !.kind = "demo", !.at = "grant", !.on = r]]
    /\ UNCHANGED <<clock, signIns, members, cleanup, taken, ended, overlapped, raced, faults>>

Grant(r) ==
    /\ At(r, "grant")
    /\ members' = members \cup {r}
    /\ Ends(r, "ok")
    /\ UNCHANGED <<clock, signIns, keys, cleanup, history, faults>>

\* Granting raises, before its commit or after.
GrantFails(r) ==
    /\ At(r, "grant") /\ faults < MaxFaults
    /\ members' \in {members, members \cup {r}}
    /\ faults' = faults + 1
    /\ Goto(r, "undo")
    /\ UNCHANGED <<clock, signIns, keys, cleanup, history>>

UndoDemo(r) ==
    /\ At(r, "undo")
    /\ Removed(r)
    /\ Ends(r, "refused")
    /\ UNCHANGED <<clock, signIns, members, history, faults>>

-----------------------------------------------------------------------------
(* Authentication and logout.                                              *)

Seen(s) == keys[s].record

\* The session is read.
Authenticate(r, s, kind) ==
    /\ New(r) /\ s \in Given
    /\ requests' = [requests EXCEPT ![r] =
          [NewRequest EXCEPT !.kind = kind, !.on = s, !.saw = Seen(s),
                             !.at = IF Seen(s) = NoRecord THEN "done" ELSE "check",
                             !.outcome = IF Seen(s) = NoRecord THEN "refused" ELSE "none"]]
    /\ UNCHANGED <<clock, signIns, keys, members, cleanup, history, faults>>

\* The clock is read: a session past its time is dropped, else refreshed.
Check(r) ==
    /\ At(r, "check")
    /\ requests' = [requests EXCEPT
          ![r].at = IF Expired(requests[r].saw) THEN "drop" ELSE "save",
          ![r].saw = IF Expired(@) THEN @ ELSE Refreshed(@)]
    /\ UNCHANGED <<clock, signIns, keys, members, cleanup, history, faults>>

Drop(r) ==
    /\ At(r, "drop")
    /\ Removed(requests[r].on)
    /\ Ends(r, "refused")
    /\ UNCHANGED <<clock, signIns, members, history, faults>>

\* The refreshed session is written over whatever is there by now.  A logout
\* without its CSRF tokens is refused here, and ends as a read does.
Save(r) ==
    /\ At(r, "save")
    /\ keys' = [keys EXCEPT ![requests[r].on] = Key(requests[r].saw)]
    /\ IF requests[r].kind = "logout" THEN Goto(r, "end") ELSE Ends(r, "ok")
    /\ UNCHANGED <<clock, signIns, members, cleanup, history, faults>>

IsDemo(s) == requests[s].kind = "demo"

EndSession(r) ==
    /\ At(r, "end")
    /\ LET s == requests[r].on
       IN  /\ Removed(s)
           /\ ended' = ended \cup {s}
           /\ overlapped' = IF Refreshing(s) # {} THEN overlapped \cup {s} ELSE overlapped
           /\ IF IsDemo(s) THEN Goto(r, "revoke") ELSE Ends(r, "ok")
    /\ UNCHANGED <<clock, signIns, members, born, taken, raced, faults>>

Revoke(r) ==
    /\ At(r, "revoke")
    /\ members' = members \ {requests[r].on}
    /\ Ends(r, "ok")
    /\ UNCHANGED <<clock, signIns, keys, cleanup, history, faults>>

\* The process dies, or a call of Redis, PostgreSQL or the provider raises.
Fail(r) ==
    /\ ~At(r, "new") /\ ~At(r, "done") /\ faults < MaxFaults
    /\ faults' = faults + 1
    /\ Ends(r, "failed")
    /\ UNCHANGED <<clock, signIns, keys, members, cleanup, history>>

-----------------------------------------------------------------------------
(* The cleanup task.                                                       *)

StartCleanup ==
    /\ cleanup.at = "idle"
    /\ cleanup' = [at |-> "scan", live |-> {},
                   steady |-> {s \in Requests : Present(s)}]
    /\ UNCHANGED <<clock, signIns, keys, members, requests, history, faults>>

\* Mutant: the kind of a session is not looked at before its subject.
MeetAnySession(s) ==
    /\ cleanup.at = "scan" /\ Present(s)
    /\ cleanup' = [cleanup EXCEPT !.live = @ \cup {requests[s].on}]
    /\ UNCHANGED <<clock, signIns, keys, members, requests, history, faults>>

MeetSession(s) ==
    /\ cleanup.at = "scan" /\ Present(s) /\ IsDemo(s)
    /\ cleanup' = [cleanup EXCEPT !.live = @ \cup {s}]
    /\ UNCHANGED <<clock, signIns, keys, members, requests, history, faults>>

\* SCAN meets every key that is there all the time; others it may miss.
Scanned == \A s \in cleanup.steady : IsDemo(s) => s \in cleanup.live

\* Mutant: the transaction is not committed.
RemoveStaleUncommitted ==
    /\ cleanup.at = "scan" /\ Scanned
    /\ cleanup' = NoCleanup
    /\ UNCHANGED <<clock, signIns, keys, members, requests, history, faults>>

\* Mutant: the task does not wait for the end of its scan.
RemoveStaleEarly ==
    /\ cleanup.at = "scan"
    /\ members' = members \cap cleanup.live
    /\ raced' = raced \cup ((members \ cleanup.live) \ cleanup.steady)
    /\ cleanup' = NoCleanup
    /\ UNCHANGED <<clock, signIns, keys, requests, born, taken, ended, overlapped, faults>>

\* One transaction selects the demo members and deletes those not met.
RemoveStale ==
    /\ cleanup.at = "scan" /\ Scanned
    /\ members' = members \cap cleanup.live
    /\ raced' = raced \cup ((members \ cleanup.live) \ cleanup.steady)
    /\ cleanup' = NoCleanup
    /\ UNCHANGED <<clock, signIns, keys, requests, born, taken, ended, overlapped, faults>>

CleanupFails ==
    /\ cleanup.at = "scan" /\ faults < MaxFaults
    /\ faults' = faults + 1
    /\ cleanup' = NoCleanup
    /\ UNCHANGED <<clock, signIns, keys, members, requests, history>>

-----------------------------------------------------------------------------
Step(r) ==
    \/ TakeSignIn(r) \/ Exchange(r) \/ SignedIn(r)
    \/ Grant(r) \/ UndoDemo(r)
    \/ Check(r) \/ Drop(r) \/ Save(r) \/ EndSession(r) \/ Revoke(r)

Cleanup == StartCleanup \/ (\E s \in Requests : MeetSession(s)) \/ RemoveStale

Next ==
    \/ Tick
    \/ \E t \in SignIns : Login(t)
    \/ \E r \in Requests :
          \/ \E t \in SignIns : Callback(r, t)
          \/ Demo(r)
          \/ \E s \in Requests, kind \in {"read", "logout"} : Authenticate(r, s, kind)
          \/ Step(r) \/ GrantFails(r) \/ Fail(r)
    \/ Cleanup \/ CleanupFails

\* Time passes, a request that has begun goes on, and the beat starts the
\* cleanup again and again.
Spec ==
    /\ Init /\ [][Next]_vars
    /\ WF_vars(Tick) /\ WF_vars(Cleanup)
    /\ \A r \in Requests : WF_vars(Step(r))

-----------------------------------------------------------------------------
(* Properties.                                                             *)

RecordType == [expires : Nat, absolute : Nat]

\* The shape of the state.
TypeOK ==
    /\ clock \in Nat /\ signIns \in [SignIns -> Nat]
    /\ keys \in [Requests -> [record : RecordType, goes : Nat]]
    /\ members \subseteq Requests
    /\ requests \in [Requests ->
          [kind : Kinds, at : Places, on : 0..MaxRequests, state : SignIns \cup {"no state"},
           saw : RecordType, late : BOOLEAN, outcome : Outcomes]]
    /\ cleanup \in [at : {"idle", "scan"}, live : SUBSET Requests, steady : SUBSET Requests]
    /\ born \in [Requests -> Nat]
    /\ taken \subseteq SignIns /\ ended \subseteq Requests /\ overlapped \subseteq Requests /\ raced \subseteq Requests
    /\ faults \in 0..MaxFaults

Deadline(s) == born[s] + AbsoluteTimeout

KeptBy(record, s) == record.absolute = Deadline(s)

\* However often a session is refreshed, by however many requests at once, the
\* record in Redis and those about to be written keep the deadline set at
\* sign-in, and the key goes with it, or a second after a write that was late.
DeadlineKept ==
    /\ \A s \in Requests : Present(s) =>
           /\ KeptBy(keys[s].record, s)
           /\ keys[s].goes = Deadline(s) \/ keys[s].goes <= clock + 1
    /\ \A r \in Requests : requests[r].at \in {"check", "save"} =>
           KeptBy(requests[r].saw, requests[r].on)

\* What has ended stays ended but for requests that overlapped the end.  A
\* session is there after its logout only if a request that had read it before
\* was still to write it back; and a callback that reads its transaction after
\* another has taken it creates no second session of that sign-in.
EndUndoneOnlyByOverlap ==
    /\ \A s \in ended : Present(s) => s \in overlapped
    /\ \A r \in Requests : requests[r].kind = "callback" /\ requests[r].late => ~Present(r)

\* A demo that was answered can use its workspace until it logs out, but for a
\* cleanup during whose scan its session was not there all the time; one that
\* was refused leaves no session.
DemoHasItsRole ==
    \A r \in Requests : requests[r].kind = "demo" =>
        /\ requests[r].outcome = "ok" /\ Present(r) => r \in members \cup ended \cup raced
        /\ requests[r].outcome = "refused" => ~Present(r)

\* Requests arrive no more after a while.  Then every session ends, and its key
\* with it, however late it was written; and no role of a demo outlives it for
\* good, whatever failed: one that a logout or a refusal has left is removed by
\* a later cleanup.
NothingIsLeft == <>[](members = {} /\ \A s \in Requests : ~Present(s))
=============================================================================
