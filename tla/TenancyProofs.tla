---------------------------- MODULE TenancyProofs ----------------------------
(***************************************************************************)
(* Proofs about Tenancy, for any principals, projects, threads, wanted     *)
(* requests and number of faults.                                          *)
(*                                                                         *)
(* A request that is past its audit carries the event of the decision      *)
(* (RequestsSound), and one that serves a thread finds its owner there; so *)
(* the threads implement ThreadOwnership.  A principal nobody granted a    *)
(* role, and no two of whose creations overlap, keeps within its limit     *)
(* with the creation under way (LimitSound).  A chat that is past its      *)
(* policy has its role still, unless the role was revoked meanwhile, and   *)
(* after a conflict finds the thread claimed (ClaimsSound).  The rows of    *)
(* roles and threads go back to requests whose events are kept (Traced).   *)
(***************************************************************************)
EXTENDS Tenancy, FiniteSetTheorems, TLAPS

Conversation == {"chat", "memory"}
Change == {"create", "grant", "revoke"}

RequestSound(r) ==
    LET q == requests[r]
        k == q.want.kind
    IN  /\ q.at = "new" => q = NewRequest
        /\ q.at # "new" => q.want \in Wanted
        /\ q.outcome # "none" => q.at = "done"
        /\ q.at \in {"policy", "audit"} => k # "create"
        /\ q.at \in {"count", "insert"} => k = "create"
        /\ q.at \in {"select", "write"} => k \in {"grant", "revoke"}
        /\ q.at = "refresh" => k = "grant"
        /\ q.at = "event" => k \in Change
        /\ q.at \in {"member", "find", "claim"} => k \in Conversation
        /\ q.at = "claim" => k = "chat"
        /\ q.at \in {"select", "write", "refresh", "event", "member", "find", "claim"} /\ k # "create"
              => "allowed" \in q.events
        /\ q.changed => k \in Change /\ q.at \in {"refresh", "event", "done"}
        /\ k \in Change /\ q.outcome = "ok" => "succeeded" \in q.events
        /\ k # "create" /\ (q.changed \/ q.outcome = "ok") => "allowed" \in q.events
        /\ k # "create" /\ q.outcome = "denied" => q.events # {}
        /\ q.changed /\ "succeeded" \notin q.events => q.outcome \in {"none", "failed"}

RequestsSound == \A r \in Requests : RequestSound(r)

LimitSound ==
    \A u \in Principals \ (together \cup granted) :
        /\ Cardinality(Owned(u)) <= MaxOwned
        /\ Creating(u) # {} => Cardinality(Owned(u)) < MaxOwned
        /\ \A r, q \in Creating(u) : r = q

Excused(r) == requests[r].disturbed \/ w(r).by \in PlatformAdmins

ClaimSound(r) ==
    LET q == requests[r]
        owner == threads[w(r).thread]
    IN  w(r).kind = "chat" =>
        /\ q.tries = 1 => owner # "nobody" /\ q.at # "claim"
        /\ q.at \in {"member", "find", "claim"} \/ (q.at = "audit" /\ q.allowed)
              => RoleOf(r) # "none" \/ Excused(r)
        /\ q.outcome = "denied" /\ "allowed" \in q.events
              => Excused(r) \/ owner \notin {"nobody", w(r).by}

ClaimsSound == \A r \in Requests : ClaimSound(r)

IInv == TypeOK /\ RequestsSound /\ LimitSound /\ ClaimsSound

-----------------------------------------------------------------------------
(* Types and frames.                                                       *)

RequestType ==
    [want : Wanted \cup {NoWant}, at : Places, allowed : BOOLEAN, found : BOOLEAN,
     tries : {0, 1}, events : SUBSET {"denied", "allowed", "succeeded"},
     outcome : Outcomes, changed : BOOLEAN, disturbed : BOOLEAN]

LEMMA Numbers ==
  /\ MaxOwned \in Nat /\ MaxOwned >= 1 /\ MaxRequests \in Nat /\ MaxFaults \in Nat
  /\ MaxProjects \in Nat /\ MaxProjects >= 1
  BY TenancyAssumption

LEMMA Names ==
  /\ "nobody" \notin Principals /\ FirstAdmin \in Principals /\ Wanted \subseteq Want
  BY TenancyAssumption

\* What a wanted request asks.
LEMMA WantedFacts ==
  ASSUME NEW want \in Wanted
  PROVE  /\ want.kind \in Kinds /\ want.by \in Principals /\ want.project \in Projects
         /\ want.target \in Principals /\ want.role \in Roles /\ want.thread \in Threads
  BY Names DEF Want

LEMMA NewRequestFacts ==
  /\ NewRequest \in RequestType
  /\ NewRequest.want = NoWant /\ NoWant.kind = "none" /\ NewRequest.at = "new"
  /\ NewRequest.outcome = "none" /\ NewRequest.events = {} /\ NewRequest.tries = 0
  /\ NewRequest.changed = FALSE /\ NewRequest.disturbed = FALSE /\ NewRequest.allowed = FALSE
<1>1. NewRequest \in RequestType
  BY DEF NewRequest, RequestType, Places, Outcomes
<1>2. /\ NewRequest.want = NoWant /\ NewRequest.at = "new"
      /\ NewRequest.outcome = "none" /\ NewRequest.events = {} /\ NewRequest.tries = 0
      /\ NewRequest.changed = FALSE /\ NewRequest.disturbed = FALSE
      /\ NewRequest.allowed = FALSE
  BY DEF NewRequest
<1>3. NoWant.kind = "none"
  BY DEF NoWant
<1>. QED
  BY <1>1, <1>2, <1>3

LEMMA Types ==
  ASSUME TypeOK
  PROVE  requests \in [Requests -> RequestType]
  BY DEF TypeOK, RequestType

\* A request that has begun is one of those wanted.
LEMMA BegunFacts ==
  ASSUME IInv, NEW r \in Requests, requests[r].at # "new"
  PROVE  /\ w(r) \in Wanted /\ requests[r] \in RequestType
         /\ w(r).kind \in Kinds /\ w(r).by \in Principals /\ w(r).project \in Projects
         /\ w(r).target \in Principals /\ w(r).role \in Roles /\ w(r).thread \in Threads
<1>1. w(r) \in Wanted
  BY DEF IInv, RequestsSound, RequestSound, w
<1>. QED
  BY <1>1, WantedFacts, Types DEF IInv

LEMMA NewFacts ==
  ASSUME IInv, NEW r \in Requests, requests[r].at = "new"
  PROVE  requests[r] = NewRequest /\ w(r).kind = "none" /\ requests[r].outcome = "none"
<1>1. requests[r] = NewRequest
  BY DEF IInv, RequestsSound, RequestSound
<1>. QED
  BY <1>1, NewRequestFacts DEF w

\* Request r, not done, takes a step; the others stay where they are.
Frame(r) ==
    /\ requests[r].at # "done"
    /\ requests' \in [Requests -> RequestType]
    /\ \A q \in Requests \ {r} : requests'[q] = requests[q]

\* What most steps leave alone of a request: all but its place, outcome and events.
Keeps(r) ==
    /\ requests'[r].want = requests[r].want /\ requests'[r].tries = requests[r].tries
    /\ requests'[r].changed = requests[r].changed
    /\ requests'[r].disturbed = requests[r].disturbed

LEMMA GotoEffect ==
  ASSUME IInv, NEW r \in Requests, NEW place \in Places, requests[r].at # "done", Goto(r, place)
  PROVE  /\ Frame(r) /\ Keeps(r) /\ requests'[r].at = place
         /\ requests'[r].outcome = "none" /\ requests'[r].events = requests[r].events
         /\ requests'[r].allowed = requests[r].allowed
<1>1. requests[r] \in RequestType /\ requests[r].outcome = "none"
  BY Types DEF IInv, RequestsSound, RequestSound
<1>2. requests' = [requests EXCEPT ![r] = [requests[r] EXCEPT !.at = place]]
  BY Types DEF Goto, IInv
<1>3. [requests[r] EXCEPT !.at = place] \in RequestType
  BY <1>1 DEF RequestType
<1>4. Frame(r) /\ requests'[r] = [requests[r] EXCEPT !.at = place]
  BY <1>2, <1>3, Types DEF IInv, Frame
<1>. QED
  BY <1>1, <1>4 DEF Keeps, RequestType

LEMMA EndsEffect ==
  ASSUME IInv, NEW r \in Requests, NEW outcome \in Outcomes, requests[r].at # "done",
         Ends(r, outcome)
  PROVE  /\ Frame(r) /\ Keeps(r) /\ requests'[r].at = "done"
         /\ requests'[r].outcome = outcome /\ requests'[r].events = requests[r].events
<1>1. requests[r] \in RequestType
  BY Types DEF IInv
<1>2. requests' = [requests EXCEPT ![r] = [requests[r] EXCEPT !.at = "done", !.outcome = outcome]]
  BY Types DEF Ends, IInv
<1>3. [requests[r] EXCEPT !.at = "done", !.outcome = outcome] \in RequestType
  BY <1>1 DEF RequestType, Places
<1>4. /\ Frame(r)
      /\ requests'[r] = [requests[r] EXCEPT !.at = "done", !.outcome = outcome]
  BY <1>2, <1>3, Types DEF IInv, Frame
<1>. QED
  BY <1>1, <1>4 DEF Keeps, RequestType

LEMMA FaultType ==
  ASSUME IInv, faults < MaxFaults, faults' = faults + 1
  PROVE  faults' \in 0..MaxFaults
<1>1. faults \in 0..MaxFaults
  BY DEF IInv, TypeOK
<1>. QED
  BY <1>1, Numbers

-----------------------------------------------------------------------------
(* What a step of one request keeps.                                       *)

OwnershipStep == [Ownership!Next]_(Ownership!vars)

LEMMA OthersSound ==
  ASSUME IInv, NEW r \in Requests, Frame(r), RequestSound(r)'
  PROVE  RequestsSound'
<1>1. ASSUME NEW q \in Requests \ {r} PROVE RequestSound(q)'
  BY DEF Frame, IInv, RequestsSound, RequestSound
<1>. QED
  BY <1>1 DEF RequestsSound

\* Who was not served before is not now, unless it is answered so.
LEMMA ServedKept ==
  ASSUME IInv, NEW r \in Requests, Frame(r),
         ~(requests'[r].want.kind \in Conversation /\ requests'[r].outcome = "ok")
  PROVE  Served' = Served
<1>1. requests[r].outcome = "none"
  BY DEF IInv, RequestsSound, RequestSound, Frame
<1>2. ASSUME NEW q \in Requests
      PROVE  (w(q).kind \in Conversation /\ Ok(q))' <=> w(q).kind \in Conversation /\ Ok(q)
  BY <1>1 DEF Frame, w, Ok
<1>3. ASSUME NEW q \in Requests, w(q).kind \in Conversation, Ok(q)
      PROVE  w(q)' = w(q)
  BY <1>1, <1>3 DEF Frame, w, Ok
<1>. QED
  BY <1>2, <1>3 DEF Served, Conversation

\* One more is served.
LEMMA ServedMore ==
  ASSUME IInv, NEW r \in Requests, Frame(r), Keeps(r),
         w(r).kind \in Conversation, requests'[r].outcome = "ok"
  PROVE  Served' = Served \cup {<<w(r).thread, w(r).by>>}
<1>1. requests[r].outcome = "none"
  BY DEF IInv, RequestsSound, RequestSound, Frame
<1>2. ASSUME NEW q \in Requests
      PROVE  (w(q).kind \in Conversation /\ Ok(q))' <=> q = r \/ (w(q).kind \in Conversation /\ Ok(q))
  BY <1>1 DEF Frame, Keeps, w, Ok
<1>3. \A q \in Requests : q = r \/ (w(q).kind \in Conversation /\ Ok(q)) => w(q)' = w(q)
  BY DEF Frame, Keeps, w
<1>. QED
  BY <1>2, <1>3 DEF Served, Conversation

\* Limits depend on the roles and on the creations under way.
LEMMA LimitKept ==
  ASSUME IInv, NEW r \in Requests, Frame(r), UNCHANGED roles,
         together \subseteq together', granted \subseteq granted',
         requests'[r].at # "insert"
  PROVE  LimitSound'
<1>1. ASSUME NEW u \in Principals PROVE Owned(u)' = Owned(u) /\ Creating(u)' \subseteq Creating(u)
  BY DEF Owned, Creating, Frame, w, At
<1>. QED
  BY <1>1 DEF IInv, LimitSound

\* Claims depend on the roles, the owners and the request.
LEMMA ClaimsKept ==
  ASSUME IInv, NEW r \in Requests, Frame(r), UNCHANGED <<roles, threads>>, ClaimSound(r)'
  PROVE  ClaimsSound'
<1>1. ASSUME NEW q \in Requests \ {r} PROVE ClaimSound(q)'
  BY DEF IInv, ClaimsSound, ClaimSound, Frame, w, RoleOf, Excused
<1>. QED
  BY <1>1 DEF ClaimsSound

\* A step that changes no row and serves no thread.
LEMMA QuietStep ==
  ASSUME IInv, NEW r \in Requests, Frame(r), RequestSound(r)', ClaimSound(r)',
         UNCHANGED <<rows, history>>, faults' \in 0..MaxFaults,
         requests'[r].at # "insert",
         ~(requests'[r].want.kind \in Conversation /\ requests'[r].outcome = "ok")
  PROVE  IInv' /\ OwnershipStep
<1>1. TypeOK'
  BY DEF IInv, TypeOK, Frame, RequestType, rows, history
<1>2. UNCHANGED <<roles, threads, together, granted>>
  BY DEF rows, history
<1>3. Served' = Served
  BY ServedKept
<1>. QED
  BY <1>1, <1>2, <1>3, OthersSound, LimitKept, ClaimsKept DEF IInv, OwnershipStep, Ownership!vars

\* A request that ends without being served.
LEMMA QuietEnd ==
  ASSUME IInv, NEW r \in Requests, NEW outcome \in {"denied", "limited", "missing", "unavailable", "failed"},
         requests[r].at \notin {"new", "done"}, Ends(r, outcome),
         outcome = "denied" => requests[r].at \in {"member", "find"} /\ ClaimSound(r)',
         outcome = "failed" \/ requests[r].at \notin {"refresh", "event"},
         UNCHANGED <<rows, history>>, faults' \in 0..MaxFaults
  PROVE  IInv' /\ OwnershipStep
<1>1. outcome \in Outcomes /\ outcome # "none"
  BY DEF Outcomes
<1>2. /\ Frame(r) /\ Keeps(r) /\ requests'[r].at = "done"
      /\ requests'[r].outcome = outcome /\ requests'[r].events = requests[r].events
  BY <1>1, EndsEffect
<1>3. RequestSound(r) /\ requests[r].want \in Wanted
  BY DEF IInv, RequestsSound, RequestSound
<1>4. RequestSound(r)'
  BY <1>1, <1>2, <1>3 DEF RequestSound, Keeps
<1>5. ClaimSound(r)'
  <2>1. CASE outcome = "denied"
    BY <2>1
  <2>2. CASE outcome # "denied"
    BY <1>2, <2>2 DEF IInv, ClaimsSound, ClaimSound, w, rows, Keeps
  <2>. QED
    BY <2>1, <2>2
<1>. QED
  BY <1>1, <1>2, <1>4, <1>5, QuietStep

-----------------------------------------------------------------------------
(* The steps that change no row.                                           *)

LEMMA ArriveStep ==
  ASSUME IInv, NEW r \in Requests, NEW want \in Wanted, Arrive(r, want)
  PROVE  IInv' /\ OwnershipStep
<1>. DEFINE refused == want.kind = "create" /\ want.by \in Demos
            new == [NewRequest EXCEPT !.want = want,
                             !.at = IF want.kind # "create" THEN "policy"
                                    ELSE IF want.by \in Demos THEN "done" ELSE "count",
                             !.outcome = IF want.kind = "create" /\ want.by \in Demos
                                         THEN "denied" ELSE "none"]
<1>1. /\ new \in RequestType /\ new.want = want
      /\ new.at \in {"policy", "count", "done"}
      /\ new.at = "policy" <=> want.kind # "create"
      /\ new.outcome = "none" \/ (new.outcome = "denied" /\ new.at = "done" /\ want.kind = "create")
      /\ new.events = {} /\ new.tries = 0 /\ new.changed = FALSE /\ new.disturbed = FALSE
      /\ new.allowed = FALSE
  BY NewRequestFacts DEF RequestType, Places, Outcomes
<1>2. requests' = [requests EXCEPT ![r] = new] /\ requests[r].at = "new"
      /\ UNCHANGED <<rows, history, faults>>
  BY DEF Arrive, At
<1>. HIDE DEF new
<1>3. Frame(r) /\ requests'[r] = new
  BY <1>1, <1>2, Types DEF Frame, IInv
<1>4. want.kind \in Kinds
  BY WantedFacts
<1>5. RequestSound(r)'
  BY <1>1, <1>3, <1>4 DEF RequestSound, Kinds, Change, Conversation
<1>6. ClaimSound(r)'
  BY <1>1, <1>3 DEF ClaimSound, w
<1>7. faults' \in 0..MaxFaults
  BY <1>2 DEF IInv, TypeOK
<1>8. /\ requests'[r].at # "insert"
      /\ ~(requests'[r].want.kind \in Conversation /\ requests'[r].outcome = "ok")
  BY <1>1, <1>3
<1>. QED
  BY <1>2, <1>3, <1>5, <1>6, <1>7, <1>8, QuietStep

LEMMA FaultsKept ==
  ASSUME IInv, UNCHANGED faults
  PROVE  faults' \in 0..MaxFaults
  BY DEF IInv, TypeOK

\* Who is entitled to read has a role or is a platform admin.
LEMMA PolicyStep ==
  ASSUME IInv, NEW r \in Requests, Policy(r)
  PROVE  IInv' /\ OwnershipStep
<1>. DEFINE yes == Entitled(r)
            next == [requests[r] EXCEPT !.at = "audit", !.allowed = yes]
<1>1. requests[r].at = "policy" /\ UNCHANGED <<rows, history, faults>>
  BY DEF Policy, At
<1>2. requests[r] \in RequestType /\ RequestSound(r) /\ ClaimSound(r)
  BY Types DEF IInv, RequestsSound, ClaimsSound
<1>3. requests' = [requests EXCEPT ![r] = next]
  BY Types DEF Policy, IInv
<1>4. yes \in BOOLEAN
  BY DEF Entitled
<1>5. yes /\ w(r).kind = "chat" => RoleOf(r) # "none" \/ w(r).by \in PlatformAdmins
  BY DEF Entitled, Needed, Permissions
<1>. HIDE DEF yes
<1>6. /\ next \in RequestType /\ next.at = "audit" /\ next.allowed = yes
      /\ next.want = requests[r].want /\ next.tries = requests[r].tries
      /\ next.changed = requests[r].changed /\ next.disturbed = requests[r].disturbed
      /\ next.outcome = requests[r].outcome /\ next.events = requests[r].events
  BY <1>2, <1>4 DEF RequestType, Places
<1>. HIDE DEF next
<1>7. Frame(r) /\ requests'[r] = next
  BY <1>1, <1>3, <1>6, Types DEF Frame, IInv
<1>8. RequestSound(r)'
  BY <1>1, <1>2, <1>6, <1>7 DEF RequestSound
<1>9. ClaimSound(r)'
  <2>1. w(r)' = w(r) /\ RoleOf(r)' = RoleOf(r) /\ UNCHANGED threads /\ (Excused(r)' <=> Excused(r))
    BY <1>1, <1>6, <1>7 DEF w, RoleOf, rows, Excused
  <2>2. requests[r].outcome = "none"
    BY <1>1, <1>2 DEF RequestSound
  <2>3. yes /\ w(r).kind = "chat" => RoleOf(r) # "none" \/ Excused(r)
    BY <1>5 DEF Excused
  <2>. QED
    BY <1>2, <1>6, <1>7, <2>1, <2>2, <2>3 DEF ClaimSound
<1>10. requests'[r].at # "insert" /\ requests'[r].outcome # "ok"
  BY <1>1, <1>2, <1>6, <1>7 DEF RequestSound
<1>. QED
  BY <1>1, <1>7, <1>8, <1>9, <1>10, QuietStep, FaultsKept

LEMMA AuditStep ==
  ASSUME IInv, NEW r \in Requests, Audit(r)
  PROVE  IInv' /\ OwnershipStep
<1>1. requests[r].at = "audit" /\ UNCHANGED <<rows, history, faults>>
  BY DEF Audit, At
<1>2. /\ requests[r] \in RequestType /\ RequestSound(r) /\ ClaimSound(r)
      /\ w(r).kind \in Kinds /\ requests[r].outcome = "none" /\ ~requests[r].changed
  BY <1>1, BegunFacts DEF IInv, RequestsSound, ClaimsSound, RequestSound
<1>3. CASE ~requests[r].allowed
  <2>. DEFINE next == [requests[r] EXCEPT !.at = "done", !.outcome = "denied", !.events = {"denied"}]
  <2>1. requests' = [requests EXCEPT ![r] = next]
    BY <1>3, Types DEF Audit, IInv
  <2>2. /\ next \in RequestType /\ next.at = "done" /\ next.outcome = "denied"
        /\ next.events = {"denied"} /\ next.want = requests[r].want
        /\ next.tries = requests[r].tries /\ next.changed = requests[r].changed
        /\ next.disturbed = requests[r].disturbed
    BY <1>2 DEF RequestType, Places, Outcomes
  <2>. HIDE DEF next
  <2>3. Frame(r) /\ requests'[r] = next
    BY <1>1, <2>1, <2>2, Types DEF Frame, IInv
  <2>4. RequestSound(r)'
    BY <1>1, <1>2, <2>2, <2>3 DEF RequestSound
  <2>5. ClaimSound(r)'
    BY <1>1, <1>2, <2>2, <2>3 DEF ClaimSound, w, rows
  <2>. QED
    BY <1>1, <2>2, <2>3, <2>4, <2>5, QuietStep, FaultsKept
<1>4. CASE requests[r].allowed /\ w(r).project \in created
  <2>. DEFINE place == Serving(w(r).kind)
              next == [requests[r] EXCEPT !.at = place, !.events = {"allowed"}]
  <2>1. requests' = [requests EXCEPT ![r] = next]
    BY <1>4, Types DEF Audit, IInv
  <2>2. /\ place \in {"select", "member"}
        /\ place = "select" <=> w(r).kind \in {"grant", "revoke"}
    BY DEF Serving
  <2>. HIDE DEF place
  <2>3. /\ next \in RequestType /\ next.at = place /\ next.outcome = requests[r].outcome
        /\ next.events = {"allowed"} /\ next.want = requests[r].want
        /\ next.tries = requests[r].tries /\ next.changed = requests[r].changed
        /\ next.disturbed = requests[r].disturbed
    BY <1>2, <2>2 DEF RequestType, Places
  <2>. HIDE DEF next
  <2>4. Frame(r) /\ requests'[r] = next
    BY <1>1, <2>1, <2>3, Types DEF Frame, IInv
  <2>5. RequestSound(r)'
    BY <1>1, <1>2, <2>2, <2>3, <2>4 DEF RequestSound, w, Kinds, Conversation, Change
  <2>6. w(r)' = w(r) /\ RoleOf(r)' = RoleOf(r) /\ UNCHANGED threads /\ (Excused(r)' <=> Excused(r))
    BY <1>1, <2>3, <2>4 DEF w, RoleOf, rows, Excused
  <2>7. ClaimSound(r)'
    BY <1>1, <1>2, <1>4, <2>2, <2>3, <2>4, <2>6 DEF ClaimSound
  <2>. QED
    BY <1>1, <1>2, <2>2, <2>3, <2>4, <2>5, <2>7, QuietStep, FaultsKept
<1>5. CASE requests[r].allowed /\ w(r).project \notin created
  <2>1. Ends(r, "unavailable")
    BY <1>5 DEF Audit
  <2>. QED
    BY <1>1, <2>1, QuietEnd, FaultsKept
<1>. QED
  BY <1>3, <1>4, <1>5

LEMMA AuditFailsStep ==
  ASSUME IInv, NEW r \in Requests, AuditFails(r)
  PROVE  IInv' /\ OwnershipStep
<1>1. /\ requests[r].at = "audit" /\ Ends(r, "unavailable") /\ UNCHANGED <<rows, history>>
      /\ faults' \in 0..MaxFaults
  BY FaultType DEF AuditFails, Breaks, At
<1>. QED
  BY <1>1, QuietEnd

LEMMA FailStep ==
  ASSUME IInv, NEW r \in Requests, Fail(r)
  PROVE  IInv' /\ OwnershipStep
<1>1. /\ requests[r].at \notin {"new", "done"} /\ Ends(r, "failed") /\ UNCHANGED <<rows, history>>
      /\ faults' \in 0..MaxFaults
  BY FaultType DEF Fail, Breaks, At
<1>. QED
  BY <1>1, QuietEnd

\* A request that goes on to another place, with nothing else to show.
LEMMA QuietGoto ==
  ASSUME IInv, NEW r \in Requests, NEW place \in {"find", "claim", "event"}, Goto(r, place),
         requests[r].at \notin {"new", "done"}, RequestSound(r)', ClaimSound(r)',
         UNCHANGED <<rows, history, faults>>
  PROVE  IInv' /\ OwnershipStep
<1>1. place \in Places
  BY DEF Places
<1>2. Frame(r) /\ requests'[r].at = place /\ requests'[r].outcome = "none"
  BY <1>1, GotoEffect
<1>. QED
  BY <1>2, QuietStep, FaultsKept

-----------------------------------------------------------------------------
(* Granting and revoking.                                                  *)

\* What is known of request r before it takes a step.
LEMMA Before ==
  ASSUME IInv, NEW r \in Requests, requests[r].at \notin {"new", "done"}
  PROVE  /\ requests[r] \in RequestType /\ RequestSound(r) /\ ClaimSound(r)
         /\ w(r) \in Wanted /\ w(r).kind \in Kinds /\ requests[r].outcome = "none"
         /\ w(r).by \in Principals /\ w(r).project \in Projects
         /\ w(r).target \in Principals /\ w(r).role \in Roles /\ w(r).thread \in Threads
  BY BegunFacts DEF IInv, RequestsSound, ClaimsSound, RequestSound

LEMMA SelectMemberStep ==
  ASSUME IInv, NEW r \in Requests, SelectMember(r)
  PROVE  IInv' /\ OwnershipStep
<1>. DEFINE known == TargetRole(r) # "none"
            next == [requests[r] EXCEPT !.at = "write", !.found = known]
<1>1. requests[r].at = "select" /\ UNCHANGED <<rows, history, faults>>
  BY DEF SelectMember, At
<1>2. requests[r] \in RequestType /\ RequestSound(r) /\ ClaimSound(r) /\ requests[r].outcome = "none"
  BY <1>1, Before
<1>3. CASE Ends(r, "missing")
  BY <1>1, <1>3, QuietEnd, FaultsKept
<1>4. CASE requests' = [requests EXCEPT ![r].at = "write", ![r].found = known]
  <2>1. requests' = [requests EXCEPT ![r] = next]
    BY <1>4, Types DEF IInv
  <2>2. known \in BOOLEAN
    OBVIOUS
  <2>. HIDE DEF known
  <2>3. /\ next \in RequestType /\ next.at = "write" /\ next.outcome = requests[r].outcome
        /\ next.events = requests[r].events /\ next.want = requests[r].want
        /\ next.tries = requests[r].tries /\ next.changed = requests[r].changed
        /\ next.disturbed = requests[r].disturbed
    BY <1>2, <2>2 DEF RequestType, Places
  <2>. HIDE DEF next
  <2>4. Frame(r) /\ requests'[r] = next
    BY <1>1, <2>1, <2>3, Types DEF Frame, IInv
  <2>5. RequestSound(r)'
    BY <1>1, <1>2, <2>3, <2>4 DEF RequestSound
  <2>6. ClaimSound(r)'
    BY <1>1, <1>2, <2>3, <2>4 DEF ClaimSound, RequestSound, w, rows
  <2>. QED
    BY <1>1, <1>2, <2>3, <2>4, <2>5, <2>6, QuietStep, FaultsKept
<1>. QED
  BY <1>3, <1>4 DEF SelectMember

LEMMA RefreshStep ==
  ASSUME IInv, NEW r \in Requests, Refresh(r)
  PROVE  IInv' /\ OwnershipStep
<1>1. requests[r].at = "refresh" /\ UNCHANGED <<rows, history, faults>>
  BY DEF Refresh, At
<1>2. RequestSound(r) /\ ClaimSound(r) /\ requests[r].outcome = "none" /\ w(r).kind = "grant"
  BY <1>1, Before DEF RequestSound, w
<1>3. CASE Ends(r, "failed")
  BY <1>1, <1>3, QuietEnd, FaultsKept
<1>4. CASE Goto(r, "event")
  <2>1. "event" \in Places
    BY DEF Places
  <2>2. /\ Keeps(r) /\ requests'[r].at = "event" /\ requests'[r].outcome = "none"
        /\ requests'[r].events = requests[r].events
    BY <1>1, <1>4, <2>1, GotoEffect
  <2>3. RequestSound(r)'
    BY <1>1, <1>2, <2>2 DEF RequestSound, Keeps, Change
  <2>4. ClaimSound(r)'
    BY <1>1, <1>2, <2>2 DEF ClaimSound, Keeps, w
  <2>. QED
    BY <1>1, <1>4, <2>3, <2>4, QuietGoto
<1>. QED
  BY <1>3, <1>4 DEF Refresh

LEMMA EventStep ==
  ASSUME IInv, NEW r \in Requests, Event(r)
  PROVE  IInv' /\ OwnershipStep
<1>. DEFINE events == requests[r].events \cup {"succeeded"}
            next == [requests[r] EXCEPT !.at = "done", !.outcome = "ok", !.events = events]
<1>1. requests[r].at = "event" /\ UNCHANGED <<rows, history, faults>>
  BY DEF Event, At
<1>2. requests[r] \in RequestType /\ RequestSound(r) /\ w(r).kind \in Change
  BY <1>1, Before DEF RequestSound, w
<1>3. requests' = [requests EXCEPT ![r] = next]
  BY <1>2, Types DEF Event, IInv, RequestType
<1>4. /\ next \in RequestType /\ next.at = "done" /\ next.outcome = "ok"
      /\ next.events = events /\ next.want = requests[r].want
      /\ next.tries = requests[r].tries /\ next.changed = requests[r].changed
      /\ next.disturbed = requests[r].disturbed
  BY <1>2 DEF RequestType, Places, Outcomes
<1>. HIDE DEF next
<1>5. Frame(r) /\ requests'[r] = next
  BY <1>1, <1>3, <1>4, Types DEF Frame, IInv
<1>6. RequestSound(r)'
  BY <1>1, <1>2, <1>4, <1>5 DEF RequestSound
<1>7. ClaimSound(r)' /\ requests'[r].want.kind \notin Conversation
  BY <1>2, <1>4, <1>5 DEF ClaimSound, w, Change, Conversation
<1>. QED
  BY <1>1, <1>4, <1>5, <1>6, <1>7, QuietStep, FaultsKept

-----------------------------------------------------------------------------
(* Conversation threads.                                                   *)

LEMMA CheckMemberStep ==
  ASSUME IInv, NEW r \in Requests, CheckMember(r)
  PROVE  IInv' /\ OwnershipStep
<1>1. requests[r].at = "member" /\ UNCHANGED <<rows, history, faults>>
  BY DEF CheckMember, At
<1>2. /\ RequestSound(r) /\ ClaimSound(r) /\ requests[r].outcome = "none"
      /\ w(r).kind \in Conversation
  BY <1>1, Before DEF RequestSound, w
<1>3. CASE RoleOf(r) = "none" /\ Ends(r, "denied")
  <2>1. "denied" \in Outcomes
    BY DEF Outcomes
  <2>2. Keeps(r) /\ requests'[r].at = "done" /\ requests'[r].outcome = "denied"
    BY <1>1, <1>3, <2>1, EndsEffect
  <2>3. w(r).kind = "chat" => Excused(r)
    BY <1>1, <1>2, <1>3 DEF ClaimSound
  <2>4. w(r)' = w(r) /\ (Excused(r)' <=> Excused(r)) /\ UNCHANGED threads
    BY <1>1, <2>2 DEF Keeps, w, Excused, rows
  <2>5. ClaimSound(r)'
    BY <1>1, <1>2, <2>2, <2>3, <2>4 DEF ClaimSound, Keeps
  <2>. QED
    BY <1>1, <1>3, <2>5, QuietEnd, FaultsKept
<1>4. CASE Goto(r, "find")
  <2>1. "find" \in Places
    BY DEF Places
  <2>2. /\ Keeps(r) /\ requests'[r].at = "find" /\ requests'[r].outcome = "none"
        /\ requests'[r].events = requests[r].events
    BY <1>1, <1>4, <2>1, GotoEffect
  <2>3. RequestSound(r)'
    BY <1>1, <1>2, <2>2 DEF RequestSound, Keeps, w
  <2>4. /\ w(r)' = w(r) /\ (Excused(r)' <=> Excused(r)) /\ UNCHANGED threads
        /\ RoleOf(r)' = RoleOf(r)
    BY <1>1, <2>2 DEF Keeps, w, Excused, rows, RoleOf
  <2>5. ClaimSound(r)'
    BY <1>1, <1>2, <2>2, <2>4 DEF ClaimSound, Keeps
  <2>. QED
    BY <1>1, <1>4, <2>3, <2>5, QuietGoto
<1>. QED
  BY <1>3, <1>4 DEF CheckMember

\* A request that is served its thread, perhaps with the claim of it.
LEMMA ServedEnd ==
  ASSUME IInv, NEW r \in Requests, requests[r].at \in {"find", "claim"}, Ends(r, "ok")
  PROVE  /\ Frame(r) /\ Keeps(r) /\ requests'[r].at = "done" /\ requests'[r].outcome = "ok"
         /\ RequestsSound' /\ w(r)' = w(r)
         /\ Served' = Served \cup {<<w(r).thread, w(r).by>>}
<1>1. "ok" \in Outcomes
  BY DEF Outcomes
<1>2. /\ Frame(r) /\ Keeps(r) /\ requests'[r].at = "done" /\ requests'[r].outcome = "ok"
      /\ requests'[r].events = requests[r].events
  BY <1>1, EndsEffect
<1>3. /\ RequestSound(r) /\ w(r).kind \in Conversation /\ w(r).kind \notin Change
      /\ w(r).kind # "create"
  BY Before DEF RequestSound, w, Conversation, Change
<1>4. RequestSound(r)'
  BY <1>2, <1>3, Before DEF RequestSound, Keeps, w
<1>5. w(r)' = w(r)
  BY <1>2 DEF Keeps, w
<1>. QED
  BY <1>2, <1>3, <1>4, <1>5, OthersSound, ServedMore

LEMMA FindThreadStep ==
  ASSUME IInv, NEW r \in Requests, FindThread(r)
  PROVE  IInv' /\ OwnershipStep
<1>. DEFINE owner == threads[w(r).thread]
<1>1. requests[r].at = "find" /\ UNCHANGED <<rows, history, faults>>
  BY DEF FindThread, At
<1>2. /\ RequestSound(r) /\ ClaimSound(r) /\ requests[r].outcome = "none"
      /\ w(r).kind \in Conversation /\ w(r).thread \in Threads /\ w(r).by \in Principals
  BY <1>1, Before DEF RequestSound, w
<1>3. UNCHANGED <<created, roles, threads, together, granted>>
  BY <1>1 DEF rows, history
<1>4. CASE owner = w(r).by /\ Ends(r, "ok")
  <2>1. /\ Frame(r) /\ Keeps(r) /\ requests'[r].at = "done" /\ requests'[r].outcome = "ok"
        /\ RequestsSound' /\ w(r)' = w(r)
        /\ Served' = Served \cup {<<w(r).thread, w(r).by>>}
    BY <1>1, <1>4, ServedEnd
  <2>2. TypeOK'
    BY <1>1, <1>3, <2>1 DEF IInv, TypeOK, Frame, RequestType
  <2>3. LimitSound'
    BY <1>3, <2>1, LimitKept
  <2>4. ClaimSound(r)'
    BY <1>2, <1>3, <2>1 DEF ClaimSound, Keeps
  <2>5. ClaimsSound'
    BY <1>3, <2>1, <2>4, ClaimsKept
  <2>6. Ownership!Serve(w(r).thread, w(r).by)
    BY <1>3, <1>4, <2>1 DEF Ownership!Serve
  <2>. QED
    BY <1>2, <2>1, <2>2, <2>3, <2>5, <2>6 DEF IInv, OwnershipStep, Ownership!Next
<1>5. CASE owner = "nobody" /\ w(r).kind = "chat" /\ Goto(r, "claim")
  <2>1. "claim" \in Places
    BY DEF Places
  <2>2. /\ Keeps(r) /\ requests'[r].at = "claim" /\ requests'[r].outcome = "none"
        /\ requests'[r].events = requests[r].events
    BY <1>1, <1>5, <2>1, GotoEffect
  <2>3. RequestSound(r)'
    BY <1>1, <1>2, <1>5, <2>2 DEF RequestSound, Keeps, w
  <2>4. /\ w(r)' = w(r) /\ (Excused(r)' <=> Excused(r)) /\ RoleOf(r)' = RoleOf(r)
    BY <1>3, <2>2 DEF Keeps, w, Excused, RoleOf
  <2>5. ClaimSound(r)'
    BY <1>1, <1>2, <1>3, <1>5, <2>2, <2>4 DEF ClaimSound, Keeps
  <2>. QED
    BY <1>1, <1>5, <2>3, <2>5, QuietGoto
<1>6. CASE Ends(r, "denied") /\ (w(r).kind # "chat" \/ owner \notin {"nobody", w(r).by})
  <2>1. "denied" \in Outcomes
    BY DEF Outcomes
  <2>2. Keeps(r) /\ requests'[r].at = "done" /\ requests'[r].outcome = "denied"
    BY <1>1, <1>6, <2>1, EndsEffect
  <2>3. w(r)' = w(r)
    BY <2>2 DEF Keeps, w
  <2>4. ClaimSound(r)'
    BY <1>2, <1>3, <1>6, <2>2, <2>3 DEF ClaimSound, Keeps
  <2>. QED
    BY <1>1, <1>6, <2>4, QuietEnd, FaultsKept
<1>. QED
  BY <1>4, <1>5, <1>6 DEF FindThread

\* The thread was free; it belongs now to the principal of r.
LEMMA ClaimedStep ==
  ASSUME IInv, NEW r \in Requests, requests[r].at = "claim", Ends(r, "ok"),
         threads[w(r).thread] = "nobody",
         threads' = [threads EXCEPT ![w(r).thread] = w(r).by],
         UNCHANGED <<created, roles, history, faults>>
  PROVE  IInv' /\ OwnershipStep
<1>. DEFINE t == w(r).thread
            u == w(r).by
<1>1. t \in Threads /\ u \in Principals /\ u # "nobody"
  BY Before, Names
<1>2. /\ Frame(r) /\ Keeps(r) /\ requests'[r].at = "done" /\ requests'[r].outcome = "ok"
      /\ RequestsSound' /\ w(r)' = w(r) /\ Served' = Served \cup {<<t, u>>}
  BY ServedEnd
<1>. HIDE DEF t, u
<1>3. /\ threads \in [Threads -> Principals \cup {"nobody"}] /\ threads[t] = "nobody"
      /\ threads' = [threads EXCEPT ![t] = u]
  BY DEF t, u, IInv, TypeOK
<1>4. TypeOK'
  BY <1>1, <1>2, <1>3 DEF IInv, TypeOK, Frame, RequestType, history
<1>5. LimitSound'
  BY <1>2, LimitKept DEF history
<1>6. ClaimSound(r)'
  <2>1. threads'[t] = u /\ t = w(r)'.thread
    BY <1>1, <1>2, <1>3 DEF t
  <2>. QED
    BY <1>1, <1>2, <2>1 DEF ClaimSound, t
<1>7. ASSUME NEW q \in Requests \ {r} PROVE ClaimSound(q)'
  <2>1. requests'[q] = requests[q] /\ w(q)' = w(q) /\ RoleOf(q)' = RoleOf(q)
        /\ (Excused(q)' <=> Excused(q)) /\ ClaimSound(q)
    BY <1>2 DEF Frame, w, RoleOf, Excused, IInv, ClaimsSound
  <2>2. CASE w(q).thread = t
    <3>1. threads'[w(q).thread] = u /\ threads[w(q).thread] = "nobody"
      BY <1>1, <1>3, <2>2
    <3>. QED
      BY <1>1, <2>1, <3>1 DEF ClaimSound
  <2>3. CASE w(q).thread # t
    <3>1. w(q).kind = "chat" => threads'[w(q).thread] = threads[w(q).thread]
      BY <1>1, <1>3, <2>3, BegunFacts, NewFacts
    <3>. QED
      BY <2>1, <3>1 DEF ClaimSound
  <2>. QED
    BY <2>2, <2>3
<1>8. Ownership!Claim(t, u)
  BY <1>2, <1>3 DEF Ownership!Claim
<1>. QED
  BY <1>1, <1>2, <1>4, <1>5, <1>6, <1>7, <1>8 DEF IInv, ClaimsSound, OwnershipStep, Ownership!Next

\* The thread was claimed meanwhile; all is tried once again, and no second
\* time, since it is found claimed then.
LEMMA ConflictStep ==
  ASSUME IInv, NEW r \in Requests, requests[r].at = "claim",
         threads[w(r).thread] # "nobody",
         requests' = [requests EXCEPT ![r].at = "member", ![r].tries = 1],
         UNCHANGED <<rows, history, faults>>
  PROVE  IInv' /\ OwnershipStep
<1>. DEFINE next == [requests[r] EXCEPT !.at = "member", !.tries = 1]
<1>1. /\ requests[r] \in RequestType /\ RequestSound(r) /\ ClaimSound(r)
      /\ requests[r].outcome = "none" /\ w(r).kind = "chat" /\ w(r).kind \in Conversation
  BY Before DEF RequestSound, w
<1>2. requests' = [requests EXCEPT ![r] = next]
  BY Types DEF IInv
<1>3. /\ next \in RequestType /\ next.at = "member" /\ next.tries = 1
      /\ next.outcome = requests[r].outcome
      /\ next.events = requests[r].events /\ next.want = requests[r].want
      /\ next.changed = requests[r].changed /\ next.disturbed = requests[r].disturbed
  BY <1>1 DEF RequestType, Places
<1>. HIDE DEF next
<1>4. Frame(r) /\ requests'[r] = next
  BY <1>2, <1>3, Types DEF Frame, IInv
<1>5. RequestSound(r)'
  BY <1>1, <1>3, <1>4 DEF RequestSound, w
<1>6. w(r)' = w(r) /\ (Excused(r)' <=> Excused(r)) /\ RoleOf(r)' = RoleOf(r) /\ UNCHANGED threads
  BY <1>3, <1>4 DEF w, Excused, RoleOf, rows
<1>7. ClaimSound(r)'
  BY <1>1, <1>3, <1>4, <1>6 DEF ClaimSound
<1>. QED
  BY <1>1, <1>3, <1>4, <1>5, <1>7, QuietStep, FaultsKept

LEMMA ClaimStep ==
  ASSUME IInv, NEW r \in Requests, Claim(r)
  PROVE  IInv' /\ OwnershipStep
<1>1. requests[r].at = "claim" /\ UNCHANGED <<created, roles, history, faults>>
  BY DEF Claim, At
<1>2. requests[r].tries = 0
  <2>1. requests[r] \in RequestType /\ ClaimSound(r) /\ w(r).kind = "chat"
    BY <1>1, Before DEF RequestSound, w
  <2>2. requests[r].tries # 1
    BY <1>1, <2>1 DEF ClaimSound
  <2>. QED
    BY <2>1, <2>2 DEF RequestType
<1>3. CASE threads[w(r).thread] = "nobody"
  BY <1>1, <1>3, ClaimedStep DEF Claim
<1>4. CASE threads[w(r).thread] # "nobody"
  BY <1>1, <1>2, <1>4, ConflictStep DEF Claim, rows
<1>. QED
  BY <1>3, <1>4

-----------------------------------------------------------------------------
(* The steps that disturb others.                                          *)

LEMMA CountStep ==
  ASSUME IInv, NEW r \in Requests, Count(r)
  PROVE  IInv' /\ OwnershipStep
<1>. DEFINE u == w(r).by
<1>1. /\ requests[r].at = "count" /\ UNCHANGED <<rows, granted, faults>>
      /\ together' = IF Creating(u) # {} THEN together \cup {u} ELSE together
  BY DEF Count, At
<1>2. /\ requests[r] \in RequestType /\ RequestSound(r) /\ requests[r].outcome = "none"
      /\ w(r).kind = "create" /\ w(r).kind \notin Conversation /\ u \in Principals
  BY <1>1, Before DEF RequestSound, w, Conversation
<1>3. /\ Frame(r) /\ Keeps(r) /\ requests'[r].events = requests[r].events
      /\ \/ requests'[r].at = "insert" /\ requests'[r].outcome = "none" /\ WithinLimit(u)
         \/ requests'[r].at = "done" /\ requests'[r].outcome = "limited"
  <2>1. "insert" \in Places /\ "limited" \in Outcomes
    BY DEF Places, Outcomes
  <2>2. CASE WithinLimit(u) /\ Goto(r, "insert")
    BY <1>1, <2>1, <2>2, GotoEffect
  <2>3. CASE Ends(r, "limited")
    BY <1>1, <2>1, <2>3, EndsEffect
  <2>. QED
    BY <2>2, <2>3 DEF Count
<1>4. RequestSound(r)'
  BY <1>1, <1>2, <1>3 DEF RequestSound, Keeps, w
<1>5. w(r)' = w(r)
  BY <1>3 DEF Keeps, w
<1>. HIDE DEF u
<1>6. ClaimSound(r)'
  BY <1>2, <1>5 DEF ClaimSound
<1>7. ClaimsSound'
  BY <1>1, <1>3, <1>6, ClaimsKept DEF rows
<1>8. TypeOK'
  BY <1>1, <1>2, <1>3 DEF IInv, TypeOK, Frame, RequestType, rows
<1>9. Served' = Served
  BY <1>2, <1>3, <1>5, ServedKept DEF w
<1>10. ASSUME NEW v \in Principals, v \notin together' \cup granted'
       PROVE  /\ Cardinality(Owned(v)') <= MaxOwned
              /\ Creating(v)' # {} => Cardinality(Owned(v)') < MaxOwned
              /\ \A q1, q2 \in Creating(v)' : q1 = q2
  <2>1. Owned(v)' = Owned(v)
    BY <1>1 DEF Owned, rows
  <2>2. v \notin together \cup granted
    BY <1>1, <1>10
  <2>3. CASE Creating(v)' \subseteq Creating(v)
    BY <2>1, <2>2, <2>3 DEF IInv, LimitSound
  <2>4. CASE v = u /\ WithinLimit(u)
    <3>1. Creating(v) = {}
      BY <1>1, <1>10, <2>4
    <3>2. Creating(v)' \subseteq {r}
      BY <1>3, <3>1 DEF Creating, Frame, At, w
    <3>. QED
      BY <2>1, <2>2, <2>4, <3>2 DEF IInv, LimitSound, WithinLimit
  <2>5. v # u => Creating(v)' \subseteq Creating(v)
    BY <1>3, <1>5 DEF Creating, Frame, At, w, u
  <2>6. requests'[r].at # "insert" => Creating(v)' \subseteq Creating(v)
    BY <1>3 DEF Creating, Frame, At, w
  <2>. QED
    BY <1>3, <2>3, <2>4, <2>5, <2>6
<1>11. LimitSound'
  BY <1>10 DEF LimitSound
<1>. QED
  BY <1>1, <1>3, <1>4, <1>7, <1>8, <1>9, <1>11, OthersSound
     DEF IInv, OwnershipStep, Ownership!vars, rows

LEMMA OwnedFinite ==
  ASSUME NEW u
  PROVE  IsFiniteSet(Owned(u)) /\ Cardinality(Owned(u)) \in Nat
<1>1. IsFiniteSet(Projects)
  BY FS_Interval, Numbers DEF Projects
<1>2. Owned(u) \subseteq Projects
  BY DEF Owned
<1>. QED
  BY <1>1, <1>2, FS_Subset, FS_CardinalityType

LEMMA InsertStep ==
  ASSUME IInv, NEW r \in Requests, Insert(r)
  PROVE  IInv' /\ OwnershipStep
<1>. DEFINE u == w(r).by
            next == [requests[r] EXCEPT !.at = "event", !.changed = TRUE]
<1>1. requests[r].at = "insert" /\ UNCHANGED <<threads, history, faults>>
  BY DEF Insert, At
<1>2. /\ requests[r] \in RequestType /\ RequestSound(r) /\ requests[r].outcome = "none"
      /\ w(r).kind = "create" /\ u \in Principals
  BY <1>1, Before DEF RequestSound, w
<1>3. requests' = [requests EXCEPT ![r] = next]
  BY Types DEF Insert, IInv
<1>4. /\ next \in RequestType /\ next.at = "event" /\ next.changed = TRUE
      /\ next.outcome = requests[r].outcome /\ next.tries = requests[r].tries
      /\ next.events = requests[r].events /\ next.want = requests[r].want
      /\ next.disturbed = requests[r].disturbed
  BY <1>2 DEF RequestType, Places
<1>. HIDE DEF next
<1>5. Frame(r) /\ requests'[r] = next /\ w(r)' = w(r)
  BY <1>1, <1>3, <1>4, Types DEF Frame, IInv, w
<1>6. RequestSound(r)'
  BY <1>1, <1>2, <1>4, <1>5 DEF RequestSound, w, Change
<1>7. PICK p \in Projects \ created :
        /\ created' = created \cup {p}
        /\ roles' = [roles EXCEPT ![p][u] = "admin"]
  BY DEF Insert
<1>. HIDE DEF u
<1>8. /\ roles \in [Projects -> [Principals -> Roles \cup {"none"}]]
      /\ roles' \in [Projects -> [Principals -> Roles \cup {"none"}]]
      /\ \A j \in Projects, v \in Principals :
            roles'[j][v] = IF j = p /\ v = u THEN "admin" ELSE roles[j][v]
  BY <1>2, <1>7 DEF IInv, TypeOK, Roles
<1>9. TypeOK'
  BY <1>1, <1>5, <1>7, <1>8 DEF IInv, TypeOK, Frame, RequestType, history
<1>10. ASSUME NEW q \in Requests PROVE ClaimSound(q)'
  <2>1. CASE q = r
    BY <1>2, <1>5, <2>1 DEF ClaimSound
  <2>2. CASE q # r
    <3>1. requests'[q] = requests[q] /\ w(q)' = w(q) /\ (Excused(q)' <=> Excused(q)) /\ ClaimSound(q)
      BY <1>5, <2>2 DEF Frame, w, Excused, IInv, ClaimsSound
    <3>2. w(q).kind = "chat" /\ RoleOf(q) # "none" => RoleOf(q)' # "none"
      BY <1>8, <3>1, BegunFacts, NewFacts DEF RoleOf
    <3>. QED
      BY <1>1, <3>1, <3>2 DEF ClaimSound
  <2>. QED
    BY <2>1, <2>2
<1>11. Served' = Served
  BY <1>2, <1>4, <1>5, ServedKept
<1>12. ASSUME NEW v \in Principals, v \notin together' \cup granted'
       PROVE  /\ Cardinality(Owned(v)') <= MaxOwned
              /\ Creating(v)' # {} => Cardinality(Owned(v)') < MaxOwned
              /\ \A q1, q2 \in Creating(v)' : q1 = q2
  <2>1. v \notin together \cup granted
    BY <1>1, <1>12 DEF history
  <2>2. CASE v = u
    <3>1. r \in Creating(v)
      BY <1>1, <1>2, <2>2 DEF Creating, At, u
    <3>2. Cardinality(Owned(v)) < MaxOwned /\ \A q \in Creating(v) : q = r
      BY <2>1, <3>1 DEF IInv, LimitSound
    <3>3. Creating(v)' = {}
      BY <1>4, <1>5, <3>2 DEF Creating, At, Frame, w
    <3>4. Owned(v)' = Owned(v) \cup {p}
      BY <1>8, <2>2 DEF Owned
    <3>5. Cardinality(Owned(v) \cup {p}) <= Cardinality(Owned(v)) + 1
      <4>1. IsFiniteSet(Owned(v)) /\ Cardinality(Owned(v)) \in Nat
        BY OwnedFinite
      <4>2. Cardinality(Owned(v) \cup {p}) =
              IF p \in Owned(v) THEN Cardinality(Owned(v)) ELSE Cardinality(Owned(v)) + 1
        BY <4>1, FS_AddElement
      <4>. QED
        BY <4>1, <4>2
    <3>6. Cardinality(Owned(v) \cup {p}) \in Nat
      BY OwnedFinite, FS_AddElement, FS_CardinalityType
    <3>7. Cardinality(Owned(v) \cup {p}) <= MaxOwned
      BY <3>2, <3>5, <3>6, OwnedFinite, Numbers
    <3>. QED
      BY <3>3, <3>4, <3>7
  <2>3. CASE v # u
    <3>1. Owned(v)' = Owned(v) /\ Creating(v)' \subseteq Creating(v)
      BY <1>4, <1>5, <1>8, <2>3 DEF Owned, Creating, At, Frame, w
    <3>. QED
      BY <2>1, <3>1 DEF IInv, LimitSound
  <2>. QED
    BY <2>2, <2>3
<1>13. LimitSound'
  BY <1>12 DEF LimitSound
<1>. QED
  BY <1>1, <1>5, <1>6, <1>9, <1>10, <1>11, <1>13, OthersSound
     DEF IInv, ClaimsSound, OwnershipStep, Ownership!vars

\* A change of a member's row marks the requests at work on it, and leaves
\* all else of them alone.
LEMMA ChangesEffect ==
  ASSUME IInv, NEW r \in Requests, NEW role \in Roles \cup {"none"},
         NEW place \in {"refresh", "event"},
         requests[r].at = "write", w(r).kind = "grant" \/ place = "event", Changes(r, role, place)
  PROVE  /\ requests' \in [Requests -> RequestType]
         /\ requests'[r].at = place
         /\ \A q \in Requests \ {r} :
               /\ requests'[q].at = requests[q].at /\ requests'[q].allowed = requests[q].allowed
               /\ requests'[q].disturbed = (requests[q].disturbed \/ q \in Disturbed(r))
         /\ \A q \in Requests :
               /\ w(q)' = w(q) /\ requests'[q].tries = requests[q].tries
               /\ requests'[q].outcome = requests[q].outcome
               /\ requests'[q].events = requests[q].events
         /\ RequestsSound'
         /\ Served' = Served
         /\ roles' \in [Projects -> [Principals -> Roles \cup {"none"}]]
         /\ \A j \in Projects, v \in Principals :
               roles'[j][v] = IF j = w(r).project /\ v = w(r).target THEN role ELSE roles[j][v]
         /\ \A v \in Principals : Creating(v)' = Creating(v)
<1>. DEFINE mine == [requests[r] EXCEPT !.at = place, !.changed = TRUE]
            marked(q) == requests[q].disturbed \/ q \in Disturbed(r)
            other(q) == [requests[q] EXCEPT !.disturbed = marked(q)]
<1>1. /\ requests \in [Requests -> RequestType] /\ requests[r] \in RequestType
      /\ RequestSound(r) /\ w(r).kind \in {"grant", "revoke"}
      /\ w(r).kind \in Change /\ w(r).kind # "create" /\ w(r).project \in Projects
      /\ w(r).target \in Principals
  BY Types, Before DEF IInv, RequestSound, w, Change
<1>2. \A q \in Requests : requests'[q] = IF q = r THEN mine ELSE other(q)
  BY DEF Changes
<1>3. DOMAIN requests' = Requests /\ requests' = [q \in Requests |-> requests'[q]]
  BY DEF Changes
<1>4. /\ mine \in RequestType /\ mine.at = place /\ mine.changed = TRUE
      /\ mine.want = requests[r].want /\ mine.outcome = requests[r].outcome
      /\ mine.tries = requests[r].tries /\ mine.events = requests[r].events
  BY <1>1 DEF RequestType, Places
<1>5. ASSUME NEW q \in Requests PROVE marked(q) \in BOOLEAN
  BY <1>1 DEF RequestType
<1>. HIDE DEF marked, mine
<1>6. ASSUME NEW q \in Requests
      PROVE  /\ other(q) \in RequestType /\ other(q).at = requests[q].at
             /\ other(q).allowed = requests[q].allowed /\ other(q).disturbed = marked(q)
             /\ other(q).want = requests[q].want /\ other(q).outcome = requests[q].outcome
             /\ other(q).tries = requests[q].tries /\ other(q).events = requests[q].events
             /\ other(q).changed = requests[q].changed
  <2>1. requests[q] \in RequestType
    BY <1>1
  <2>. QED
    BY <1>5, <2>1 DEF RequestType
<1>. HIDE DEF other
<1>7. requests' \in [Requests -> RequestType]
  <2>1. \A q \in Requests : requests'[q] \in RequestType
    BY <1>2, <1>4, <1>6
  <2>. QED
    BY <1>3, <2>1
<1>8. /\ requests'[r].at = place
      /\ \A q \in Requests \ {r} :
            /\ requests'[q].at = requests[q].at /\ requests'[q].allowed = requests[q].allowed
            /\ requests'[q].disturbed = (requests[q].disturbed \/ q \in Disturbed(r))
            /\ requests'[q].changed = requests[q].changed
      /\ \A q \in Requests :
            /\ w(q)' = w(q) /\ requests'[q].tries = requests[q].tries
            /\ requests'[q].outcome = requests[q].outcome
            /\ requests'[q].events = requests[q].events
  BY <1>2, <1>4, <1>6 DEF w, marked
<1>9. RequestSound(r)'
  BY <1>1, <1>2, <1>4 DEF RequestSound, w
<1>10. ASSUME NEW q \in Requests \ {r} PROVE RequestSound(q)'
  <2>1. CASE requests[q].at = "new"
    <3>1. requests[q] = NewRequest /\ q \notin Disturbed(r)
      BY <2>1, NewFacts DEF Disturbed, At
    <3>2. ~marked(q) /\ requests[q].disturbed = FALSE
      BY <3>1, NewRequestFacts DEF marked
    <3>3. marked(q) = FALSE
      BY <3>2, <1>5
    <3>4. requests'[q] = requests[q]
      <4>1. requests'[q] = [NewRequest EXCEPT !.disturbed = FALSE]
        BY <1>2, <3>1, <3>3 DEF other
      <4>2. [NewRequest EXCEPT !.disturbed = FALSE] = NewRequest
        <5>1. NewRequest.disturbed = FALSE
          BY NewRequestFacts
        <5>2. NewRequest = [x \in DOMAIN NewRequest |-> NewRequest[x]]
          BY DEF NewRequest
        <5>. QED
          BY <5>1, <5>2
      <4>. QED
        BY <3>1, <4>1, <4>2
    <3>. QED
      BY <3>4 DEF RequestSound, IInv, RequestsSound
  <2>2. CASE requests[q].at # "new"
    <3>1. RequestSound(q) /\ requests'[q].want = requests[q].want
      BY <1>8 DEF IInv, RequestsSound, w
    <3>. QED
      BY <1>8, <2>2, <3>1 DEF RequestSound
  <2>. QED
    BY <2>1, <2>2
<1>11. Served' = Served
  BY <1>8 DEF Served, Ok
<1>12. /\ roles' \in [Projects -> [Principals -> Roles \cup {"none"}]]
       /\ \A j \in Projects, v \in Principals :
             roles'[j][v] = IF j = w(r).project /\ v = w(r).target THEN role ELSE roles[j][v]
  <2>1. roles \in [Projects -> [Principals -> Roles \cup {"none"}]]
    BY DEF IInv, TypeOK
  <2>2. roles' = [roles EXCEPT ![w(r).project][w(r).target] = role]
    BY DEF Changes
  <2>. QED
    BY <1>1, <2>1, <2>2
<1>13. \A v \in Principals : Creating(v)' = Creating(v)
  <2>1. \A q \in Requests : w(q)' = w(q) /\ (q # r => requests'[q].at = requests[q].at)
    BY <1>8
  <2>2. w(r).kind # "create"
    BY <1>1
  <2>. QED
    BY <2>1, <2>2 DEF Creating, At
<1>. QED
  BY <1>7, <1>8, <1>9, <1>10, <1>11, <1>12, <1>13 DEF RequestsSound

LEMMA GrantStep ==
  ASSUME IInv, NEW r \in Requests, Grant(r)
  PROVE  IInv' /\ OwnershipStep
<1>1. /\ requests[r].at = "write" /\ w(r).kind = "grant"
      /\ UNCHANGED <<created, threads, together, faults>>
  BY DEF Grant, At
<1>2. CASE Ends(r, "failed") /\ UNCHANGED <<roles, granted>>
  BY <1>1, <1>2, QuietEnd, FaultsKept DEF rows, history
<1>3. CASE Changes(r, w(r).role, "refresh") /\ granted' = granted \cup {w(r).target}
  <2>. DEFINE role == w(r).role
  <2>1. role \in Roles /\ role # "none" /\ w(r).target \in Principals
    BY <1>1, Before DEF Roles
  <2>2. Changes(r, role, "refresh")
    BY <1>3
  <2>. HIDE DEF role
  <2>3. /\ requests' \in [Requests -> RequestType]
        /\ requests'[r].at = "refresh"
        /\ \A q \in Requests \ {r} :
              /\ requests'[q].at = requests[q].at /\ requests'[q].allowed = requests[q].allowed
              /\ requests'[q].disturbed = (requests[q].disturbed \/ q \in Disturbed(r))
        /\ \A q \in Requests :
              /\ w(q)' = w(q) /\ requests'[q].tries = requests[q].tries
              /\ requests'[q].outcome = requests[q].outcome
              /\ requests'[q].events = requests[q].events
        /\ RequestsSound'
        /\ Served' = Served
        /\ roles' \in [Projects -> [Principals -> Roles \cup {"none"}]]
        /\ \A j \in Projects, v \in Principals :
              roles'[j][v] = IF j = w(r).project /\ v = w(r).target THEN role ELSE roles[j][v]
        /\ \A v \in Principals : Creating(v)' = Creating(v)
    BY <1>1, <2>1, <2>2, ChangesEffect
  <2>4. TypeOK'
    BY <1>1, <1>3, <2>1, <2>3 DEF IInv, TypeOK, RequestType
  <2>5. ASSUME NEW v \in Principals \ (together' \cup granted')
        PROVE  Owned(v)' = Owned(v) /\ v \in Principals \ (together \cup granted)
    BY <1>1, <1>3, <2>3 DEF Owned
  <2>6. LimitSound'
    BY <2>3, <2>5 DEF IInv, LimitSound
  <2>7. ASSUME NEW q \in Requests PROVE ClaimSound(q)'
    <3>1. CASE q = r
      BY <1>1, <2>3, <3>1 DEF ClaimSound
    <3>2. CASE q # r
      <4>1. Excused(q) => Excused(q)'
        BY <2>3, <3>2 DEF Excused
      <4>2. w(q).kind = "chat" /\ RoleOf(q) # "none" => RoleOf(q)' # "none"
        BY <2>1, <2>3, BegunFacts, NewFacts DEF RoleOf
      <4>3. ClaimSound(q)
        BY DEF IInv, ClaimsSound
      <4>. QED
        BY <1>1, <2>3, <3>2, <4>1, <4>2, <4>3 DEF ClaimSound
    <3>. QED
      BY <3>1, <3>2
  <2>. QED
    BY <1>1, <2>3, <2>4, <2>6, <2>7 DEF IInv, ClaimsSound, OwnershipStep, Ownership!vars
<1>. QED
  BY <1>2, <1>3 DEF Grant

\* Who loses a role is excused: the requests at work on it are marked.
LEMMA RevokeStep ==
  ASSUME IInv, NEW r \in Requests, Revoke(r)
  PROVE  IInv' /\ OwnershipStep
<1>1. /\ requests[r].at = "write" /\ w(r).kind = "revoke"
      /\ UNCHANGED <<created, threads, history, faults>> /\ Changes(r, "none", "event")
  BY DEF Revoke, At
<1>2. /\ requests' \in [Requests -> RequestType]
      /\ requests'[r].at = "event"
      /\ \A q \in Requests \ {r} :
            /\ requests'[q].at = requests[q].at /\ requests'[q].allowed = requests[q].allowed
            /\ requests'[q].disturbed = (requests[q].disturbed \/ q \in Disturbed(r))
      /\ \A q \in Requests :
            /\ w(q)' = w(q) /\ requests'[q].tries = requests[q].tries
            /\ requests'[q].outcome = requests[q].outcome
            /\ requests'[q].events = requests[q].events
      /\ RequestsSound'
      /\ Served' = Served
      /\ roles' \in [Projects -> [Principals -> Roles \cup {"none"}]]
      /\ \A j \in Projects, v \in Principals :
            roles'[j][v] = IF j = w(r).project /\ v = w(r).target THEN "none" ELSE roles[j][v]
      /\ \A v \in Principals : Creating(v)' = Creating(v)
  BY <1>1, ChangesEffect
<1>3. TypeOK'
  BY <1>1, <1>2 DEF IInv, TypeOK, RequestType, history
<1>4. LimitSound'
  <2>1. ASSUME NEW v \in Principals
        PROVE  /\ Cardinality(Owned(v)') <= Cardinality(Owned(v))
               /\ Cardinality(Owned(v)') \in Nat /\ Cardinality(Owned(v)) \in Nat
    <3>1. Owned(v)' \subseteq Owned(v)
      BY <1>2 DEF Owned
    <3>2. IsFiniteSet(Owned(v)) /\ Cardinality(Owned(v)) \in Nat
      BY OwnedFinite
    <3>3. IsFiniteSet(Owned(v)') /\ Cardinality(Owned(v)') <= Cardinality(Owned(v))
      BY <3>1, <3>2, FS_Subset
    <3>. QED
      BY <3>2, <3>3, FS_CardinalityType
  <2>2. UNCHANGED <<together, granted>>
    BY <1>1 DEF history
  <2>3. \A v \in Principals \ (together \cup granted) :
           /\ Cardinality(Owned(v)) <= MaxOwned
           /\ Creating(v) # {} => Cardinality(Owned(v)) < MaxOwned
           /\ \A q1, q2 \in Creating(v) : q1 = q2
    BY DEF IInv, LimitSound
  <2>4. ASSUME NEW v \in Principals \ (together \cup granted)
        PROVE  /\ Cardinality(Owned(v)') <= MaxOwned
               /\ Creating(v) # {} => Cardinality(Owned(v)') < MaxOwned
    BY <2>1, <2>3, Numbers
  <2>. QED
    BY <1>2, <2>2, <2>3, <2>4 DEF LimitSound
<1>5. ASSUME NEW q \in Requests PROVE ClaimSound(q)'
  <2>1. CASE q = r
    BY <1>1, <1>2, <2>1 DEF ClaimSound
  <2>2. CASE q # r
    <3>1. Excused(q) => Excused(q)'
      BY <1>2, <2>2 DEF Excused
    <3>2. ClaimSound(q)
      BY DEF IInv, ClaimsSound
    <3>3. ASSUME w(q).kind = "chat", RoleOf(q) # "none",
                 requests[q].at \in {"member", "find", "claim", "audit"}
          PROVE  RoleOf(q)' # "none" \/ Excused(q)'
      <4>1. w(q).by \in Principals /\ w(q).project \in Projects
        BY <3>3, BegunFacts
      <4>2. CASE w(q).project = w(r).project /\ w(q).by = w(r).target
        <5>1. q \in Disturbed(r)
          BY <2>2, <3>3, <4>2 DEF Disturbed, At
        <5>. QED
          BY <1>2, <2>2, <5>1 DEF Excused
      <4>3. CASE ~(w(q).project = w(r).project /\ w(q).by = w(r).target)
        BY <1>2, <3>3, <4>1, <4>3 DEF RoleOf
      <4>. QED
        BY <4>2, <4>3
    <3>. QED
      BY <1>1, <1>2, <2>2, <3>1, <3>2, <3>3 DEF ClaimSound
  <2>. QED
    BY <2>1, <2>2
<1>. QED
  BY <1>1, <1>2, <1>3, <1>4, <1>5 DEF IInv, ClaimsSound, OwnershipStep, Ownership!vars

-----------------------------------------------------------------------------
(* The invariant and the refinement.                                       *)

LEMMA Initially ==
  ASSUME Init
  PROVE  IInv /\ Ownership!Init
<1>1. \A r \in Requests : requests[r] = NewRequest /\ w(r).kind = "none" /\ w(r) = NoWant
  BY NewRequestFacts DEF Init, w
<1>2. /\ created \subseteq Projects
      /\ roles \in [Projects -> [Principals -> Roles \cup {"none"}]]
      /\ faults \in 0..MaxFaults
  BY Numbers DEF Init, Projects, Roles
<1>3. /\ threads \in [Threads -> Principals \cup {"nobody"}]
      /\ requests \in [Requests -> RequestType]
      /\ together \subseteq Principals /\ granted \subseteq Principals
  BY NewRequestFacts DEF Init
<1>4. TypeOK
  BY <1>2, <1>3 DEF TypeOK, RequestType
<1>5. RequestsSound
  BY <1>1, NewRequestFacts DEF RequestsSound, RequestSound, Change, Conversation
<1>6. ClaimsSound
  BY <1>1 DEF ClaimsSound, ClaimSound
<1>7. ASSUME NEW u \in Principals
      PROVE  Cardinality(Owned(u)) <= MaxOwned /\ Creating(u) = {}
  <2>1. Owned(u) \subseteq {1}
    BY DEF Init, Owned
  <2>2. IsFiniteSet({1}) /\ Cardinality({1}) = 1
    BY FS_Singleton
  <2>3. Cardinality(Owned(u)) <= 1
    BY <2>1, <2>2, FS_Subset
  <2>4. Creating(u) = {}
    BY <1>1 DEF Creating
  <2>. QED
    BY <2>3, <2>4, OwnedFinite, Numbers
<1>8. LimitSound
  BY <1>7 DEF LimitSound
<1>9. Served = {}
  BY <1>1 DEF Served
<1>. QED
  BY <1>4, <1>5, <1>6, <1>8, <1>9 DEF IInv, Ownership!Init, Init

LEMMA EveryStep ==
  ASSUME IInv, [Next]_vars
  PROVE  IInv' /\ OwnershipStep
<1>1. ASSUME NEW r \in Requests, NEW want \in Wanted, Arrive(r, want)
      PROVE  IInv' /\ OwnershipStep
  BY <1>1, ArriveStep
<1>2. ASSUME NEW r \in Requests, Step(r)
      PROVE  IInv' /\ OwnershipStep
  BY <1>2, PolicyStep, AuditStep, AuditFailsStep, CountStep, InsertStep, SelectMemberStep,
     GrantStep, RefreshStep, RevokeStep, EventStep, CheckMemberStep, FindThreadStep, ClaimStep,
     FailStep
     DEF Step
<1>3. CASE UNCHANGED vars
  <2>1. UNCHANGED <<created, roles, threads, requests, together, granted, faults>>
    BY <1>3 DEF vars
  <2>2. TypeOK'
    BY <2>1 DEF IInv, TypeOK
  <2>3. RequestsSound'
    BY <2>1 DEF IInv, RequestsSound, RequestSound
  <2>4. LimitSound'
    BY <2>1 DEF IInv, LimitSound, Owned, Creating, At, w
  <2>5. ClaimsSound'
    BY <2>1 DEF IInv, ClaimsSound, ClaimSound, w, RoleOf, Excused
  <2>6. Served' = Served
    BY <2>1 DEF Served, Ok, w
  <2>. QED
    BY <2>1, <2>2, <2>3, <2>4, <2>5, <2>6 DEF IInv, OwnershipStep, Ownership!vars
<1>. QED
  BY <1>1, <1>2, <1>3 DEF Next

LEMMA Invariance == Spec => []IInv
<1>1. Init => IInv
  BY Initially
<1>2. IInv /\ [Next]_vars => IInv'
  BY EveryStep
<1>. QED
  BY <1>1, <1>2, PTL DEF Spec

\* The state has its shape in every reachable state.
THEOREM TypeCorrect == Spec => []TypeOK
<1>1. IInv => TypeOK
  BY DEF IInv
<1>. QED
  BY <1>1, Invariance, PTL

-----------------------------------------------------------------------------
(* The rows and the trail.                                                 *)

Given(r, p, u) ==
    /\ requests[r].changed
    /\ \/ w(r).kind = "create" /\ w(r).by = u /\ roles[p][u] = "admin"
       \/ w(r).kind = "grant" /\ w(r).project = p /\ w(r).target = u /\ w(r).role = roles[p][u]

Taken(r, t) ==
    w(r).kind = "chat" /\ w(r).thread = t /\ w(r).by = threads[t] /\ Ok(r)

\* Every role and every owner comes from a request.
Traced ==
    /\ \A p \in Projects, u \in Principals : roles[p][u] # "none" =>
          \/ p = 1 /\ u = FirstAdmin /\ roles[p][u] = "admin"
          \/ \E r \in Requests : Given(r, p, u)
    /\ \A t \in Threads : threads[t] # "nobody" => \E r \in Requests : Taken(r, t)

\* What request q has done stays on record.
Lasts(q) ==
    requests[q].changed \/ Ok(q) =>
        /\ w(q)' = w(q)
        /\ requests[q].changed => requests'[q].changed
        /\ Ok(q) => Ok(q)'

LEMMA GivenLasts ==
  ASSUME NEW q \in Requests, NEW p, NEW u, Lasts(q), Given(q, p, u), roles'[p][u] = roles[p][u]
  PROVE  Given(q, p, u)'
  BY DEF Lasts, Given

LEMMA TakenLasts ==
  ASSUME NEW q \in Requests, NEW t, Lasts(q), Taken(q, t), threads'[t] = threads[t]
  PROVE  Taken(q, t)'
  BY DEF Lasts, Taken

\* A step of a request takes nothing off the record.
LEMMA RecordLasts ==
  ASSUME IInv, NEW r \in Requests, (\E want \in Wanted : Arrive(r, want)) \/ Step(r),
         NEW q \in Requests
  PROVE  Lasts(q)
<1>. SUFFICES ASSUME requests[q].changed \/ Ok(q) PROVE Lasts(q)
  BY DEF Lasts
<1>1. /\ requests \in [Requests -> RequestType] /\ requests[q] \in RequestType
      /\ requests[q].at \in {"refresh", "event", "done"}
      /\ Ok(q) => requests[q].at = "done"
  <2>1. RequestSound(q) /\ requests \in [Requests -> RequestType] /\ requests[q] \in RequestType
    BY Types DEF IInv, RequestsSound
  <2>2. requests[q].changed => requests[q].at \in {"refresh", "event", "done"}
    BY <2>1 DEF RequestSound
  <2>3. Ok(q) => requests[q].at = "done"
    BY <2>1 DEF RequestSound, Ok
  <2>. QED
    BY <2>1, <2>2, <2>3
<1>2. requests[r].at # "done"
  BY DEF Arrive, Step, Policy, Audit, AuditFails, Count, Insert, SelectMember, Grant, Refresh,
         Revoke, Event, CheckMember, FindThread, Claim, Fail, At
<1>3. CASE q # r
  <2>1. requests'[q].want = requests[q].want /\ requests'[q].changed = requests[q].changed
        /\ requests'[q].outcome = requests[q].outcome
    <3>1. CASE \E want \in Wanted : Arrive(r, want)
      BY <1>1, <1>3, <3>1 DEF Arrive
    <3>2. CASE Policy(r) \/ Audit(r) \/ AuditFails(r)
      BY <1>1, <1>3, <3>2 DEF Policy, Audit, AuditFails, Goto, Ends, Breaks
    <3>3. CASE Count(r) \/ Insert(r) \/ SelectMember(r)
      BY <1>1, <1>3, <3>3 DEF Count, Insert, SelectMember, Goto, Ends
    <3>4. CASE Grant(r) \/ Revoke(r)
      <4>1. CASE \E role, place : Changes(r, role, place)
        <5>1. requests'[q] = [requests[q] EXCEPT !.disturbed = @ \/ q \in Disturbed(r)]
          BY <1>3, <4>1 DEF Changes
        <5>. QED
          BY <1>1, <5>1 DEF RequestType
      <4>2. CASE Ends(r, "failed")
        BY <1>1, <1>3, <4>2 DEF Ends
      <4>. QED
        BY <3>4, <4>1, <4>2 DEF Grant, Revoke
    <3>5. CASE Refresh(r) \/ Event(r) \/ CheckMember(r) \/ FindThread(r)
      BY <1>1, <1>3, <3>5 DEF Refresh, Event, CheckMember, FindThread, Goto, Ends
    <3>6. CASE Claim(r) \/ Fail(r)
      BY <1>1, <1>3, <3>6 DEF Claim, Fail, Breaks, Ends
    <3>. QED
      BY <3>1, <3>2, <3>3, <3>4, <3>5, <3>6 DEF Step
  <2>. QED
    BY <2>1 DEF Lasts, w, Ok
<1>4. CASE q = r
  <2>1. requests[r].at \in {"refresh", "event"} /\ requests[r].changed /\ ~Ok(r)
    BY <1>1, <1>2, <1>4
  <2>2. Refresh(r) \/ Event(r) \/ Fail(r)
    BY <2>1 DEF Arrive, Step, Policy, Audit, AuditFails, Count, Insert, SelectMember, Grant,
                Revoke, CheckMember, FindThread, Claim, At
  <2>3. requests'[r].want = requests[r].want /\ requests'[r].changed = requests[r].changed
    <3>1. CASE Refresh(r)
      BY <1>1, <3>1 DEF Refresh, Goto, Ends, RequestType
    <3>2. CASE Event(r)
      BY <1>1, <3>2 DEF Event, RequestType
    <3>3. CASE Fail(r)
      BY <1>1, <3>3 DEF Fail, Breaks, Ends, RequestType
    <3>. QED
      BY <2>2, <3>1, <3>2, <3>3
  <2>. QED
    BY <1>4, <2>1, <2>3 DEF Lasts, w
<1>. QED
  BY <1>3, <1>4

\* A role that a step leaves as it is, or gives, goes back to a request.
LEMMA RolesTraced ==
  ASSUME IInv, Traced, NEW r \in Requests, (\E want \in Wanted : Arrive(r, want)) \/ Step(r),
         NEW p \in Projects, NEW u \in Principals, roles'[p][u] # "none"
  PROVE  \/ p = 1 /\ u = FirstAdmin /\ roles'[p][u] = "admin"
         \/ \E q \in Requests : Given(q, p, u)'
<1>1. CASE roles'[p][u] = roles[p][u]
  <2>1. CASE p = 1 /\ u = FirstAdmin /\ roles[p][u] = "admin"
    BY <1>1, <2>1
  <2>2. CASE \E q \in Requests : Given(q, p, u)
    <3>1. PICK q \in Requests : Given(q, p, u)
      BY <2>2
    <3>2. Given(q, p, u)'
      BY <1>1, <3>1, RecordLasts, GivenLasts
    <3>. QED
      BY <3>2
  <2>. QED
    BY <1>1, <2>1, <2>2 DEF Traced
<1>2. CASE roles'[p][u] # roles[p][u]
  <2>1. /\ roles \in [Projects -> [Principals -> Roles \cup {"none"}]]
        /\ requests \in [Requests -> RequestType] /\ requests[r] \in RequestType
    BY Types DEF IInv, TypeOK
  <2>2. Insert(r) \/ Grant(r) \/ Revoke(r)
    BY <1>2 DEF Arrive, Step, Policy, Audit, AuditFails, Count, SelectMember, Refresh, Event,
                CheckMember, FindThread, Claim, Fail, rows
  <2>3. CASE Insert(r)
    <3>1. PICK j \in Projects \ created : roles' = [roles EXCEPT ![j][w(r).by] = "admin"]
      BY <2>3 DEF Insert
    <3>2. p = j /\ u = w(r).by /\ roles'[p][u] = "admin"
      BY <1>2, <2>1, <3>1
    <3>3. w(r).kind = "create"
      BY <2>3 DEF Insert, At, IInv, RequestsSound, RequestSound, w
    <3>4. requests'[r].changed /\ requests'[r].want = requests[r].want
      BY <2>1, <2>3 DEF Insert, RequestType
    <3>. QED
      BY <3>2, <3>3, <3>4 DEF Given, w
  <2>4. CASE Grant(r)
    <3>1. Changes(r, w(r).role, "refresh") /\ w(r).kind = "grant"
      BY <1>2, <2>4 DEF Grant
    <3>2. roles' = [roles EXCEPT ![w(r).project][w(r).target] = w(r).role]
      BY <3>1 DEF Changes
    <3>3. p = w(r).project /\ u = w(r).target /\ roles'[p][u] = w(r).role
      BY <1>2, <2>1, <3>2
    <3>4. requests'[r] = [requests[r] EXCEPT !.at = "refresh", !.changed = TRUE]
      BY <3>1 DEF Changes
    <3>5. requests'[r].changed /\ requests'[r].want = requests[r].want
      BY <2>1, <3>4 DEF RequestType
    <3>. QED
      BY <3>1, <3>3, <3>5 DEF Given, w
  <2>5. CASE Revoke(r)
    <3>1. roles' = [roles EXCEPT ![w(r).project][w(r).target] = "none"]
      BY <2>5 DEF Revoke, Changes
    <3>2. roles'[p][u] = "none"
      BY <1>2, <2>1, <3>1
    <3>. QED
      BY <3>2
  <2>. QED
    BY <2>2, <2>3, <2>4, <2>5
<1>. QED
  BY <1>1, <1>2

\* An owner that a step leaves, or makes, goes back to a chat that was let in.
LEMMA OwnersTraced ==
  ASSUME IInv, Traced, NEW r \in Requests, (\E want \in Wanted : Arrive(r, want)) \/ Step(r),
         NEW t \in Threads, threads'[t] # "nobody"
  PROVE  \E q \in Requests : Taken(q, t)'
<1>1. CASE threads'[t] = threads[t]
  <2>1. PICK q \in Requests : Taken(q, t)
    BY <1>1 DEF Traced
  <2>2. Taken(q, t)'
    BY <1>1, <2>1, RecordLasts, TakenLasts
  <2>. QED
    BY <2>2
<1>2. CASE threads'[t] # threads[t]
  <2>1. /\ threads \in [Threads -> Principals \cup {"nobody"}]
        /\ requests \in [Requests -> RequestType] /\ requests[r] \in RequestType
    BY Types DEF IInv, TypeOK
  <2>2. Claim(r)
    BY <1>2 DEF Arrive, Step, Policy, Audit, AuditFails, Count, Insert, SelectMember, Grant,
                Refresh, Revoke, Event, CheckMember, FindThread, Fail, rows
  <2>3. threads' = [threads EXCEPT ![w(r).thread] = w(r).by] /\ Ends(r, "ok")
    BY <1>2, <2>2 DEF Claim
  <2>4. t = w(r).thread /\ threads'[t] = w(r).by
    BY <1>2, <2>1, <2>3
  <2>5. w(r).kind = "chat"
    BY <2>2 DEF Claim, At, IInv, RequestsSound, RequestSound, w
  <2>6. requests'[r].outcome = "ok" /\ requests'[r].want = requests[r].want
    BY <2>1, <2>3 DEF Ends, RequestType
  <2>. QED
    BY <2>4, <2>5, <2>6 DEF Taken, w, Ok
<1>. QED
  BY <1>1, <1>2

LEMMA TracesKept == Spec => []Traced
<1>1. Init => Traced
  BY DEF Init, Traced
<1>2. IInv /\ Traced /\ [Next]_vars => Traced'
  <2>1. CASE UNCHANGED vars
    BY <2>1 DEF vars, Traced, Given, Taken, Ok, w
  <2>2. ASSUME IInv, Traced, NEW r \in Requests, (\E want \in Wanted : Arrive(r, want)) \/ Step(r)
        PROVE  Traced'
    BY <2>2, RolesTraced, OwnersTraced DEF Traced
  <2>. QED
    BY <2>1, <2>2 DEF Next
<1>. QED
  BY <1>1, <1>2, Invariance, PTL DEF Spec

\* Whatever fails, nothing on an existing project is changed, served or denied
\* without the event of its decision, and every role and every thread's owner
\* goes back to a decision on record, the roles of creators excepted: a creation
\* has only an event of its success, after its commit, and may stand without it,
\* but is not answered with success then (authorization/dependencies.py,
\* routes/projects.py).
THEOREM EffectsAudited == Spec => []EveryEffectAudited
<1>1. IInv /\ Traced => EveryEffectAudited
  <2>. SUFFICES ASSUME IInv, Traced PROVE EveryEffectAudited
    OBVIOUS
  <2>1. ASSUME NEW r \in Requests
        PROVE  RequestSound(r)
    BY DEF IInv, RequestsSound
  <2>2. ASSUME NEW r \in Requests, Began(r)
        PROVE  /\ w(r).kind # "create" /\ (requests[r].changed \/ Ok(r)) => "allowed" \in requests[r].events
               /\ w(r).kind # "create" /\ requests[r].outcome = "denied" => requests[r].events # {}
               /\ IsChange(r) /\ Ok(r) => "succeeded" \in requests[r].events
               /\ requests[r].changed /\ "succeeded" \notin requests[r].events =>
                      requests[r].outcome \in {"none", "failed"}
    BY <2>1 DEF RequestSound, w, Ok, IsChange, Change
  <2>3. ASSUME NEW r \in Requests, NEW p \in Projects, NEW u \in Principals, Given(r, p, u)
        PROVE  Gave(r, p, u)
    BY <2>1, <2>3 DEF Given, Gave, RequestSound, w
  <2>4. ASSUME NEW r \in Requests, NEW t \in Threads, Taken(r, t)
        PROVE  Claimed(r, t)
    BY <2>1, <2>4 DEF Taken, Claimed, RequestSound, w, Ok
  <2>. QED
    BY <2>2, <2>3, <2>4 DEF EveryEffectAudited, Traced
<1>. QED
  BY <1>1, Invariance, TracesKept, PTL

\* Two claims of one principal at the same time refuse neither.
THEOREM OwnClaims == Spec => []OwnClaimNotRefused
<1>1. IInv => OwnClaimNotRefused
  <2>1. ASSUME IInv, NEW r \in Requests
        PROVE  ClaimSound(r)
    BY <2>1 DEF IInv, ClaimsSound
  <2>. QED
    BY <2>1 DEF OwnClaimNotRefused, ClaimSound, Excused
<1>. QED
  BY <1>1, Invariance, PTL

\* The limit of a creator is passed only by creations that overlap, or by
\* the grants of others.
THEOREM LimitsHold == Spec => []LimitPassedOnlyTogether
<1>1. IInv => LimitPassedOnlyTogether
  <2>1. ASSUME IInv, NEW u \in Principals \ (together \cup granted)
        PROVE  ~(Cardinality(Owned(u)) > MaxOwned)
    BY <2>1, OwnedFinite, Numbers DEF IInv, LimitSound
  <2>. QED
    BY <2>1 DEF LimitPassedOnlyTogether
<1>. QED
  BY <1>1, Invariance, PTL

\* The rows of the threads implement their abstract ownership.
THEOREM OwnershipImplemented == Spec => ImplementsOwnership
<1>1. Init => Ownership!Init
  BY Initially
<1>2. IInv /\ [Next]_vars => [Ownership!Next]_(Ownership!vars)
  BY EveryStep DEF OwnershipStep
<1>. QED
  BY <1>1, <1>2, Invariance, PTL DEF Spec, ImplementsOwnership, Ownership!Spec
==============================================================================
