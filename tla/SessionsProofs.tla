---------------------------- MODULE SessionsProofs ----------------------------
(***************************************************************************)
(* Proofs about Sessions, for any number of requests and sign-ins, any     *)
(* timeouts and any number of faults.                                      *)
(*                                                                         *)
(* What a request at work on a session relies on is that the session was   *)
(* given by a request that has ended (RequestsSound): its birth is past,   *)
(* so its deadline is fixed.  A session that is there was given, or is     *)
(* that of a demo that is not refused (SessionsSound); a sign-in taken is  *)
(* gone for good (TakenGone); and a session that came back after its       *)
(* logout was, or may still be, written by a request that overlapped it    *)
(* (EndedSound).                                                           *)
(***************************************************************************)
EXTENDS Sessions, TLAPS

AtWork == {"check", "save", "drop", "end", "revoke"}

RequestSound(r) ==
    LET q == requests[r]
    IN  /\ q.outcome # "none" => q.at = "done"
        /\ q.at = "new" => q = NewRequest
        /\ q.at \in {"take", "exchange", "create"} => q.kind = "callback"
        /\ q.at = "take" => q.state \in SignIns
        /\ q.at \in {"grant", "undo"} => q.kind = "demo"
        /\ q.at \in AtWork => q.on \in Given /\ q.kind \in {"read", "logout"}
        /\ q.at = "revoke" => q.on \in ended
        /\ q.late /\ q.kind = "callback" =>
              q.at \in {"take", "done"} /\ q.outcome # "ok" /\ (q.at = "take" => q.saw = NoRecord)

RequestsSound == \A r \in Requests : RequestSound(r)

SessionsSound ==
    \A s \in Requests : Present(s) =>
        s \in Given \/ (requests[s].kind = "demo" /\ requests[s].outcome # "refused")

TakenGone == \A t \in taken : signIns[t] = 0 /\ \E r \in Requests : requests[r].state = t

EndedSound == \A s \in ended : s \in Given /\ (Present(s) \/ Refreshing(s) # {} => s \in overlapped)

RolesSound == \A s \in Given : IsDemo(s) => s \in members \cup ended \cup raced

IInv ==
    /\ TypeOK /\ RequestsSound /\ SessionsSound /\ TakenGone
    /\ DeadlineKept /\ EndedSound /\ RolesSound

-----------------------------------------------------------------------------
(* Types and frames.                                                       *)

KeyRecords == [record : RecordType, goes : Nat]

RequestType ==
    [kind : Kinds, at : Places, on : 0..MaxRequests, state : SignIns \cup {"no state"},
     saw : RecordType, late : BOOLEAN, outcome : Outcomes]

\* A key holds the record it is made for and goes at its deadline, or soon.
LEMMA KeyType ==
  ASSUME clock \in Nat, NEW record \in RecordType
  PROVE  /\ Key(record) \in KeyRecords /\ Key(record).record = record
         /\ Key(record).goes = record.absolute \/ Key(record).goes = clock + 1
  BY DEF Key, KeyRecords, RecordType

\* The constants are numbers.
LEMMA Constants ==
  /\ IdleTimeout \in Nat /\ AbsoluteTimeout \in Nat /\ SignInTimeout \in Nat
  /\ MaxRequests \in Nat /\ MaxTime \in Nat /\ MaxFaults \in Nat
  BY SessionsAssumption

LEMMA NoState == "no state" \notin SignIns
  BY SessionsAssumption

\* A refreshed record keeps its deadline.
LEMMA RefreshedType ==
  ASSUME clock \in Nat, NEW record \in RecordType
  PROVE  Refreshed(record) \in RecordType /\ Refreshed(record).absolute = record.absolute
<1>1. Earlier(clock + IdleTimeout, record.absolute) \in Nat
  BY Constants DEF RecordType, Earlier
<1>. QED
  BY <1>1 DEF Refreshed, RecordType

\* What the type invariant says of the requests and the keys.
LEMMA Types ==
  ASSUME TypeOK
  PROVE  /\ requests \in [Requests -> RequestType] /\ keys \in [Requests -> KeyRecords]
         /\ clock \in Nat /\ Requests \subseteq 0..MaxRequests
<1>1. Requests \subseteq 0..MaxRequests
  BY Constants DEF Requests
<1>. QED
  BY <1>1 DEF TypeOK, RequestType, KeyRecords

\* A request that goes on leaves the others, and what was given, alone.
LEMMA GotoEffect ==
  ASSUME TypeOK, RequestsSound, NEW r \in Requests, NEW place \in Places \ {"done", "new"},
         requests[r].at # "done", Goto(r, place)
  PROVE  /\ requests' \in [Requests -> RequestType]
         /\ requests'[r].at = place /\ requests'[r].outcome = "none"
         /\ \A q \in Requests \ {r} : requests'[q] = requests[q]
         /\ \A q \in Requests : /\ requests'[q].kind = requests[q].kind
                                /\ requests'[q].on = requests[q].on
                                /\ requests'[q].state = requests[q].state
                                /\ requests'[q].saw = requests[q].saw
                                /\ requests'[q].late = requests[q].late
                                /\ requests'[q].outcome = requests[q].outcome
         /\ Given' = Given
<1>1. requests \in [Requests -> RequestType]
  BY Types
<1>2. /\ requests' \in [Requests -> RequestType]
      /\ requests'[r] = [requests[r] EXCEPT !.at = place]
      /\ \A q \in Requests \ {r} : requests'[q] = requests[q]
  BY <1>1 DEF Goto, RequestType
<1>3. \A q \in Requests : /\ requests'[q].kind = requests[q].kind
                          /\ requests'[q].on = requests[q].on
                          /\ requests'[q].state = requests[q].state
                          /\ requests'[q].saw = requests[q].saw
                          /\ requests'[q].late = requests[q].late
                          /\ requests'[q].outcome = requests[q].outcome
  <2>1. requests[r] \in RequestType
    BY <1>1
  <2>. QED
    BY <1>2, <2>1 DEF RequestType
<1>4. requests[r].outcome = "none"
  BY DEF RequestsSound, RequestSound
<1>5. requests'[r].at = place
  BY <1>1, <1>2 DEF RequestType
<1>. QED
  BY <1>2, <1>3, <1>4, <1>5 DEF Given

\* A request that ends does too, but for what it gives itself.
LEMMA EndsEffect ==
  ASSUME TypeOK, RequestsSound, NEW r \in Requests, NEW outcome \in Outcomes \ {"none"},
         requests[r].at # "done", Ends(r, outcome)
  PROVE  /\ requests' \in [Requests -> RequestType]
         /\ requests'[r].at = "done" /\ requests'[r].outcome = outcome
         /\ \A q \in Requests \ {r} : requests'[q] = requests[q]
         /\ \A q \in Requests : /\ requests'[q].kind = requests[q].kind
                                /\ requests'[q].on = requests[q].on
                                /\ requests'[q].state = requests[q].state
                                /\ requests'[q].saw = requests[q].saw
                                /\ requests'[q].late = requests[q].late
         /\ Given' = IF outcome = "ok" /\ requests[r].kind \in {"callback", "demo"}
                     THEN Given \cup {r} ELSE Given
         /\ r \notin Given
<1>1. requests \in [Requests -> RequestType]
  BY Types
<1>2. /\ requests' \in [Requests -> RequestType]
      /\ requests'[r] = [requests[r] EXCEPT !.at = "done", !.outcome = outcome]
      /\ \A q \in Requests \ {r} : requests'[q] = requests[q]
  <2>1. requests' = [requests EXCEPT ![r] = [requests[r] EXCEPT !.at = "done", !.outcome = outcome]]
    BY <1>1 DEF Ends
  <2>2. [requests[r] EXCEPT !.at = "done", !.outcome = outcome] \in RequestType
    BY <1>1 DEF RequestType, Places
  <2>. QED
    BY <1>1, <2>1, <2>2
<1>3. \A q \in Requests : /\ requests'[q].kind = requests[q].kind
                          /\ requests'[q].on = requests[q].on
                          /\ requests'[q].state = requests[q].state
                          /\ requests'[q].saw = requests[q].saw
                          /\ requests'[q].late = requests[q].late
  <2>1. requests[r] \in RequestType
    BY <1>1
  <2>. QED
    BY <1>2, <2>1 DEF RequestType
<1>4. requests[r].outcome = "none"
  BY DEF RequestsSound, RequestSound
<1>5. requests'[r].at = "done" /\ requests'[r].outcome = outcome
  BY <1>1, <1>2 DEF RequestType
<1>6. \A q \in Requests \ {r} : requests'[q].kind = requests[q].kind /\ requests'[q].outcome = requests[q].outcome
  BY <1>2
<1>7. r \notin Given
  BY <1>4 DEF Given
<1>8. r \in Given' <=> outcome = "ok" /\ requests[r].kind \in {"callback", "demo"}
  BY <1>3, <1>5 DEF Given
<1>9. \A q \in Requests \ {r} : q \in Given' <=> q \in Given
  BY <1>6 DEF Given
<1>10. Given \subseteq Requests /\ Given' \subseteq Requests
  BY DEF Given
<1>11. Given' = IF outcome = "ok" /\ requests[r].kind \in {"callback", "demo"}
                THEN Given \cup {r} ELSE Given
  BY <1>7, <1>8, <1>9, <1>10
<1>. QED
  BY <1>2, <1>3, <1>5, <1>7, <1>11

-----------------------------------------------------------------------------
(* What one request does.                                                  *)

\* Request r, not done, takes a step; the others stay where they are.
Frame(r) ==
    /\ requests[r].at # "done"
    /\ requests' \in [Requests -> RequestType]
    /\ \A q \in Requests \ {r} : requests'[q] = requests[q]

LEMMA NewRequestFacts ==
  /\ NewRequest \in RequestType
  /\ NewRequest.state = "no state" /\ NewRequest.kind = "none" /\ NewRequest.outcome = "none"
<1>1. 0 \in 0..MaxRequests
  BY Constants
<1>2. NoRecord \in RecordType
  BY DEF NoRecord, RecordType
<1>3. NewRequest \in RequestType
  BY <1>1, <1>2 DEF NewRequest, RequestType, Kinds, Places, Outcomes
<1>4. NewRequest.state = "no state" /\ NewRequest.kind = "none" /\ NewRequest.outcome = "none"
  BY DEF NewRequest
<1>. QED
  BY <1>3, <1>4

\* A request that has not begun has nothing to say.
LEMMA NewFacts ==
  ASSUME IInv, NEW r \in Requests, requests[r].at = "new"
  PROVE  /\ requests[r].state = "no state" /\ requests[r].kind = "none"
         /\ requests[r].outcome = "none"
<1>1. requests[r] = NewRequest
  BY DEF IInv, RequestsSound, RequestSound
<1>. QED
  BY <1>1, NewRequestFacts

\* A fault leaves their number within its bound.
LEMMA FaultType ==
  ASSUME IInv, faults < MaxFaults, faults' = faults + 1
  PROVE  faults' \in 0..MaxFaults
<1>1. faults \in 0..MaxFaults
  BY DEF IInv, TypeOK
<1>. QED
  BY <1>1, Constants

\* What was given stays given.
LEMMA FrameFacts ==
  ASSUME IInv, NEW r \in Requests, Frame(r)
  PROVE  /\ requests[r].outcome = "none" /\ r \notin Given
         /\ Given \subseteq Given' /\ \A q \in Requests \ {r} : q \in Given' => q \in Given
         /\ Given \subseteq Requests /\ Given' \subseteq Requests
         /\ \A s \in Requests : r \notin Refreshing(s)' => Refreshing(s)' \subseteq Refreshing(s)
<1>1. requests[r].outcome = "none"
  BY DEF IInv, RequestsSound, RequestSound, Frame
<1>. QED
  BY <1>1 DEF Frame, Given, Refreshing

\* The other requests stay sound.
LEMMA OthersSound ==
  ASSUME IInv, NEW r \in Requests, Frame(r), ended \subseteq ended', RequestSound(r)'
  PROVE  RequestsSound'
<1>1. ASSUME NEW q \in Requests \ {r} PROVE RequestSound(q)'
  BY FrameFacts DEF Frame, IInv, RequestsSound, RequestSound
<1>. QED
  BY <1>1 DEF RequestsSound

\* A step that writes no key and no sign-in.
LEMMA QuietStep ==
  ASSUME IInv, NEW r \in Requests, Frame(r), RequestSound(r)',
         UNCHANGED <<clock, signIns, keys, born, taken, ended, overlapped, raced, cleanup>>,
         faults' \in 0..MaxFaults,
         members' \subseteq Requests, members \ ended \subseteq members',
         requests'[r].state = requests[r].state \/ requests[r].at = "new",
         requests'[r].at \in {"check", "save"} =>
             /\ KeptBy(requests'[r].saw, requests'[r].on)
             /\ requests'[r].on \in ended => requests'[r].on \in overlapped,
         Present(r) => r \in Given' \/ (requests'[r].kind = "demo" /\ requests'[r].outcome # "refused"),
         r \in Given' /\ requests'[r].kind = "demo" => r \in members'
  PROVE  IInv'
<1>1. TypeOK'
  BY DEF IInv, TypeOK, Frame, RequestType
<1>2. RequestsSound'
  BY OthersSound
<1>3. SessionsSound'
  BY FrameFacts DEF IInv, SessionsSound, Frame, Present
<1>4. TakenGone'
  <2>1. requests[r].at = "new" => requests[r].state \notin taken
    <3>1. requests[r].at = "new" => requests[r].state = "no state"
      BY NewFacts
    <3>. QED
      BY <3>1, NoState DEF IInv, TypeOK
  <2>2. \A q \in Requests : requests[q].state \in taken => requests'[q].state = requests[q].state
    BY <2>1 DEF Frame
  <2>. QED
    BY <2>2 DEF IInv, TakenGone
<1>5. DeadlineKept'
  BY DEF IInv, DeadlineKept, Present, KeptBy, Deadline, Frame
<1>6. EndedSound'
  <2>1. ASSUME NEW s \in ended
        PROVE  s \in Given' /\ (Present(s)' \/ Refreshing(s)' # {} => s \in overlapped')
    <3>1. s \in Given /\ s \in Requests
      BY FrameFacts DEF IInv, EndedSound
    <3>2. CASE r \in Refreshing(s)'
      BY <3>1, <3>2, FrameFacts DEF Refreshing
    <3>3. CASE r \notin Refreshing(s)'
      BY <3>1, <3>3, FrameFacts DEF IInv, EndedSound, Present
    <3>. QED
      BY <3>2, <3>3
  <2>. QED
    BY <2>1 DEF EndedSound
<1>7. RolesSound'
  BY FrameFacts DEF IInv, RolesSound, IsDemo, Present, Frame
<1>. QED
  BY <1>1, <1>2, <1>3, <1>4, <1>5, <1>6, <1>7 DEF IInv

-----------------------------------------------------------------------------
(* The steps that write no key.                                            *)

\* Going on to another place is framed.
LEMMA GotoFrame ==
  ASSUME IInv, NEW r \in Requests, NEW place \in Places \ {"done", "new"},
         requests[r].at # "done", Goto(r, place)
  PROVE  Frame(r)
  BY GotoEffect DEF Frame, IInv

LEMMA EndsFrame ==
  ASSUME IInv, NEW r \in Requests, NEW outcome \in Outcomes \ {"none"},
         requests[r].at # "done", Ends(r, outcome)
  PROVE  Frame(r)
  BY EndsEffect DEF Frame, IInv

\* Nothing is there that was not given, nor is a demo's.
LEMMA AbsentOthers ==
  ASSUME IInv, NEW r \in Requests, requests[r].kind # "demo", requests[r].outcome = "none"
  PROVE  ~Present(r)
  BY DEF IInv, SessionsSound, Given

\* A request that ends, for good or not, without giving anything.
LEMMA QuietEnd ==
  ASSUME IInv, NEW r \in Requests, NEW outcome \in {"ok", "failed", "refused"},
         requests[r].at \notin {"new", "done"}, Ends(r, outcome),
         requests[r].kind = "demo" => outcome = "failed",
         requests[r].kind = "callback" => outcome # "ok",
         UNCHANGED <<clock, signIns, keys, born, taken, ended, overlapped, raced, cleanup>>,
         faults' \in 0..MaxFaults, members' \subseteq Requests, members \ ended \subseteq members'
  PROVE  IInv'
<1>1. outcome \in Outcomes \ {"none"}
  BY DEF Outcomes
<1>2. Frame(r)
  BY <1>1, EndsFrame
<1>3. /\ requests'[r].at = "done" /\ requests'[r].outcome = outcome
      /\ requests'[r].kind = requests[r].kind /\ requests'[r].late = requests[r].late
      /\ requests'[r].state = requests[r].state
      /\ r \notin Given'
  BY <1>1, EndsEffect DEF IInv
<1>4. RequestSound(r)'
  BY <1>3 DEF RequestSound, AtWork
<1>5. Present(r) => requests'[r].kind = "demo" /\ requests'[r].outcome # "refused"
  BY <1>2, <1>3, FrameFacts, AbsentOthers
<1>. QED
  BY <1>2, <1>3, <1>4, <1>5, QuietStep

LEMMA ExchangeStep == ASSUME IInv, NEW r \in Requests, Exchange(r) PROVE IInv'
<1>1. /\ requests[r].at = "exchange" /\ requests[r].kind = "callback" /\ ~requests[r].late
      /\ faults' \in 0..MaxFaults /\ members' \subseteq Requests
      /\ requests[r].outcome = "none"
  BY DEF Exchange, At, IInv, RequestsSound, RequestSound, TypeOK
<1>2. CASE Ends(r, "refused")
  BY <1>1, <1>2, QuietEnd DEF Exchange, history
<1>3. CASE Goto(r, "create")
  <2>1. "create" \in Places \ {"done", "new"}
    BY DEF Places
  <2>2. Frame(r)
    BY <1>1, <1>3, <2>1, GotoFrame
  <2>3. /\ requests'[r].at = "create" /\ requests'[r].outcome = "none"
        /\ requests'[r].kind = "callback" /\ ~requests'[r].late
        /\ requests'[r].state = requests[r].state /\ r \notin Given'
    BY <1>1, <1>3, <2>1, GotoEffect DEF IInv, Given
  <2>4. RequestSound(r)'
    BY <2>3 DEF RequestSound, AtWork
  <2>. QED
    BY <1>1, <2>2, <2>3, <2>4, AbsentOthers, QuietStep DEF Exchange, history
<1>. QED
  BY <1>2, <1>3 DEF Exchange

LEMMA GrantStep == ASSUME IInv, NEW r \in Requests, Grant(r) PROVE IInv'
<1>1. /\ requests[r].at = "grant" /\ requests[r].kind = "demo"
      /\ faults' \in 0..MaxFaults /\ members' \subseteq Requests
  BY DEF Grant, At, IInv, RequestsSound, RequestSound, TypeOK, history
<1>2. "ok" \in Outcomes \ {"none"}
  BY DEF Outcomes
<1>3. Frame(r)
  BY <1>1, <1>2, EndsFrame DEF Grant
<1>4. /\ requests'[r].at = "done" /\ requests'[r].outcome = "ok"
      /\ requests'[r].kind = "demo"
      /\ requests'[r].state = requests[r].state /\ r \in Given'
  BY <1>1, <1>2, EndsEffect DEF IInv, Grant
<1>5. RequestSound(r)'
  BY <1>4 DEF RequestSound, AtWork
<1>. QED
  BY <1>1, <1>3, <1>4, <1>5, QuietStep DEF Grant, history

LEMMA GrantFailsStep == ASSUME IInv, NEW r \in Requests, GrantFails(r) PROVE IInv'
<1>1. /\ requests[r].at = "grant" /\ requests[r].kind = "demo" /\ members' \subseteq Requests
      /\ requests[r].outcome = "none"
  BY DEF GrantFails, At, IInv, RequestsSound, RequestSound, TypeOK
<1>2. faults' \in 0..MaxFaults
  BY FaultType DEF GrantFails
<1>3. "undo" \in Places \ {"done", "new"}
  BY DEF Places
<1>4. Frame(r)
  BY <1>1, <1>3, GotoFrame DEF GrantFails
<1>5. /\ requests'[r].at = "undo" /\ requests'[r].outcome = "none"
      /\ requests'[r].kind = "demo"
      /\ requests'[r].state = requests[r].state /\ r \notin Given'
  BY <1>1, <1>3, GotoEffect DEF IInv, Given, GrantFails
<1>6. RequestSound(r)'
  BY <1>5 DEF RequestSound, AtWork
<1>. QED
  BY <1>1, <1>2, <1>4, <1>5, <1>6, QuietStep DEF GrantFails, history

LEMMA CallbackStep ==
  ASSUME IInv, NEW r \in Requests, NEW t \in SignIns, Callback(r, t)
  PROVE  IInv'
<1> DEFINE saw == [NoRecord EXCEPT !.expires = signIns[t]]
           late == t \in taken
           new == [NewRequest EXCEPT !.kind = "callback", !.at = "take", !.state = t,
                                     !.saw = saw, !.late = late]
<1>1. /\ requests[r].at = "new" /\ requests' = [requests EXCEPT ![r] = new]
      /\ faults' \in 0..MaxFaults /\ members' \subseteq Requests
  BY DEF Callback, New, IInv, TypeOK, history
<1>2. saw \in RecordType
  BY DEF IInv, TypeOK, NoRecord, RecordType
<1>3. t \in taken => saw = NoRecord
  BY DEF IInv, TakenGone, NoRecord
<1>9. late \in BOOLEAN /\ (late => saw = NoRecord)
  BY <1>3
<1>. HIDE DEF saw, late
<1>4. /\ new \in RequestType /\ new.kind = "callback" /\ new.at = "take" /\ new.state = t
      /\ new.saw = saw /\ new.late = late /\ new.outcome = "none"
  BY <1>2, <1>9, NewRequestFacts DEF RequestType, Kinds, Places
<1>. HIDE DEF new
<1>5. requests'[r] = new /\ Frame(r)
  BY <1>1, <1>4, Types DEF IInv, Frame
<1>6. r \notin Given'
  BY <1>4, <1>5 DEF Given
<1>7. RequestSound(r)'
  BY <1>9, <1>4, <1>5 DEF RequestSound, AtWork
<1>8. ~Present(r)
  BY <1>1, NewFacts, AbsentOthers
<1>. QED
  BY <1>1, <1>4, <1>5, <1>6, <1>7, <1>8, QuietStep DEF Callback, history

LEMMA AuthenticateStep ==
  ASSUME IInv, NEW r \in Requests, NEW s \in Requests, NEW kind \in {"read", "logout"},
         Authenticate(r, s, kind)
  PROVE  IInv'
<1> DEFINE place == IF Seen(s) = NoRecord THEN "done" ELSE "check"
           outcome == IF Seen(s) = NoRecord THEN "refused" ELSE "none"
           new == [NewRequest EXCEPT !.kind = kind, !.on = s, !.saw = Seen(s),
                                     !.at = place, !.outcome = outcome]
<1>1. /\ requests[r].at = "new" /\ requests' = [requests EXCEPT ![r] = new]
      /\ faults' \in 0..MaxFaults /\ members' \subseteq Requests /\ s \in Given
  BY DEF Authenticate, New, IInv, TypeOK, history
<1>2. Seen(s) \in RecordType
  BY Types DEF IInv, Seen, KeyRecords
<1>3. place \in Places /\ outcome \in Outcomes /\ (outcome # "none" => place = "done")
  BY DEF Places, Outcomes
<1>4. place = "check" => Present(s)
  BY DEF Seen, Present, NoKey
<1>. HIDE DEF place, outcome
<1>5. /\ new \in RequestType /\ new.kind = kind /\ new.at = place /\ new.on = s
      /\ new.saw = Seen(s) /\ ~new.late /\ new.outcome = outcome
  BY <1>2, <1>3, Types DEF IInv, NewRequest, RequestType, Kinds
<1>. HIDE DEF new
<1>6. requests'[r] = new /\ Frame(r)
  BY <1>1, <1>5, Types DEF IInv, Frame
<1>7. r \notin Given'
  BY <1>5, <1>6 DEF Given
<1>8. s \in Given'
  BY <1>1, <1>6, FrameFacts
<1>9. RequestSound(r)'
  BY <1>3, <1>5, <1>6, <1>8 DEF RequestSound, AtWork, place
<1>10. ~Present(r)
  BY <1>1, NewFacts, AbsentOthers
<1>11. new.at \in {"check", "save"} => KeptBy(new.saw, s) /\ (s \in ended => s \in overlapped)
  <2>1. new.at \in {"check", "save"} => Present(s)
    BY <1>4, <1>5 DEF place
  <2>. QED
    BY <1>5, <2>1 DEF IInv, DeadlineKept, EndedSound, Seen
<1>. QED
  BY <1>1, <1>5, <1>6, <1>7, <1>9, <1>10, <1>11, QuietStep DEF Authenticate, history

LEMMA CheckStep == ASSUME IInv, NEW r \in Requests, Check(r) PROVE IInv'
<1> DEFINE q == requests[r]
           place == IF Expired(q.saw) THEN "drop" ELSE "save"
           saw == IF Expired(q.saw) THEN q.saw ELSE Refreshed(q.saw)
           new == [q EXCEPT !.at = place, !.saw = saw]
<1>1. /\ q \in RequestType /\ q.at = "check" /\ q.on \in Given /\ q.outcome = "none"
      /\ q.kind \in {"read", "logout"}
      /\ faults' \in 0..MaxFaults /\ members' \subseteq Requests
      /\ ~(q.late /\ q.kind = "callback")
  BY Types DEF Check, At, IInv, RequestsSound, RequestSound, AtWork, TypeOK, history
<1>2. requests' = [requests EXCEPT ![r] = new]
  BY Types DEF Check, IInv
<1>3. saw \in RecordType /\ saw.absolute = q.saw.absolute
  BY <1>1, RefreshedType, Types DEF IInv, RequestType
<1>4. place \in {"drop", "save"}
  OBVIOUS
<1>. HIDE DEF place, saw
<1>5. /\ new \in RequestType /\ new.at = place /\ new.saw = saw /\ new.on = q.on
      /\ new.kind = q.kind /\ new.late = q.late /\ new.outcome = "none" /\ new.state = q.state
  BY <1>1, <1>3, <1>4 DEF RequestType, Places
<1>. HIDE DEF new
<1>6. requests'[r] = new /\ Frame(r)
  BY <1>1, <1>2, <1>5, Types DEF IInv, Frame
<1>7. r \notin Given' /\ q.on \in Given'
  BY <1>1, <1>5, <1>6, FrameFacts DEF Given
<1>8. RequestSound(r)'
  BY <1>1, <1>4, <1>5, <1>6, <1>7 DEF RequestSound, AtWork
<1>9. KeptBy(saw, q.on)
  BY <1>1, <1>3 DEF IInv, DeadlineKept, KeptBy
<1>10. q.on \in ended => q.on \in overlapped
  BY <1>1, FrameFacts DEF IInv, EndedSound, Refreshing
<1>11. Present(r) => new.kind = "demo" /\ new.outcome # "refused"
  BY <1>1, <1>5, AbsentOthers
<1>. QED
  BY <1>1, <1>5, <1>6, <1>7, <1>8, <1>9, <1>10, <1>11, QuietStep DEF Check, history

LEMMA RevokeStep == ASSUME IInv, NEW r \in Requests, Revoke(r) PROVE IInv'
<1>1. /\ requests[r].at = "revoke" /\ requests[r].kind \in {"read", "logout"}
      /\ requests[r].on \in ended
  BY DEF Revoke, At, IInv, RequestsSound, RequestSound, AtWork
<1>2. faults' \in 0..MaxFaults /\ members' \subseteq Requests /\ members \ ended \subseteq members'
  BY <1>1 DEF Revoke, IInv, TypeOK, history
<1>. QED
  BY <1>1, <1>2, QuietEnd DEF Revoke, history

LEMMA FailStep == ASSUME IInv, NEW r \in Requests, Fail(r) PROVE IInv'
<1>1. faults' \in 0..MaxFaults
  BY FaultType DEF Fail
<1>2. members' \subseteq Requests
  BY DEF Fail, IInv, TypeOK
<1>. QED
  BY <1>1, <1>2, QuietEnd DEF Fail, At, history

-----------------------------------------------------------------------------
(* The steps that remove a key.                                            *)

\* Removing a key, alone or with the end of its session.
LEMMA RemovalStep ==
  ASSUME IInv, NEW r \in Requests, Frame(r), RequestSound(r)', NEW s \in Requests, Removed(s),
         UNCHANGED <<clock, signIns, born, taken, raced, members, faults>>,
         \/ UNCHANGED <<ended, overlapped>>
         \/ /\ s \in Given /\ ended' = ended \cup {s}
            /\ overlapped' = IF Refreshing(s) # {} THEN overlapped \cup {s} ELSE overlapped,
         requests'[r].state = requests[r].state,
         requests'[r].at \notin {"check", "save"},
         r = s \/ ~Present(r), r \notin Given'
  PROVE  IInv'
<1>1. /\ keys' \in [Requests -> KeyRecords] /\ keys'[s] = NoKey
      /\ \A q \in Requests \ {s} : keys'[q] = keys[q]
  <2>1. NoKey \in KeyRecords
    BY DEF NoKey, NoRecord, KeyRecords, RecordType
  <2>. QED
    BY <2>1, Types DEF IInv, Removed
<1>2. \A q \in Requests : Present(q)' => Present(q) /\ q # s
  BY <1>1 DEF Present
<1>3. /\ ended \subseteq ended' /\ overlapped \subseteq overlapped'
      /\ ended' \subseteq Requests /\ overlapped' \subseteq Requests
  BY DEF IInv, TypeOK
<1>4. TypeOK'
  <2>1. cleanup' \in [at : {"idle", "scan"}, live : SUBSET Requests, steady : SUBSET Requests]
    BY DEF IInv, TypeOK, Removed
  <2>. QED
    BY <1>1, <1>3, <2>1 DEF IInv, TypeOK, Frame, RequestType, KeyRecords
<1>5. RequestsSound'
  BY <1>3, OthersSound
<1>6. SessionsSound'
  BY <1>2, FrameFacts DEF IInv, SessionsSound, Frame
<1>7. TakenGone'
  BY DEF IInv, TakenGone, Frame
<1>8. DeadlineKept'
  BY <1>1, <1>2 DEF IInv, DeadlineKept, KeptBy, Deadline, Frame
<1>9. EndedSound'
  <2>1. ASSUME NEW e \in ended'
        PROVE  e \in Given' /\ (Present(e)' \/ Refreshing(e)' # {} => e \in overlapped')
    <3>1. e \in Given /\ Refreshing(e)' \subseteq Refreshing(e)
      BY <1>3, FrameFacts DEF IInv, EndedSound, Refreshing
    <3>2. CASE e \in ended
      BY <1>2, <1>3, <3>1, <3>2, FrameFacts DEF IInv, EndedSound
    <3>3. CASE e \notin ended
      BY <1>2, <3>1, <3>3, FrameFacts
    <3>. QED
      BY <3>2, <3>3
  <2>. QED
    BY <2>1 DEF EndedSound
<1>10. RolesSound'
  BY <1>3, FrameFacts DEF IInv, RolesSound, IsDemo, Frame
<1>. QED
  BY <1>4, <1>5, <1>6, <1>7, <1>8, <1>9, <1>10 DEF IInv

LEMMA UndoDemoStep == ASSUME IInv, NEW r \in Requests, UndoDemo(r) PROVE IInv'
<1>1. requests[r].at = "undo" /\ requests[r].kind = "demo"
  BY DEF UndoDemo, At, IInv, RequestsSound, RequestSound
<1>2. "refused" \in Outcomes \ {"none"}
  BY DEF Outcomes
<1>3. Frame(r)
  BY <1>1, <1>2, EndsFrame DEF UndoDemo
<1>4. /\ requests'[r].at = "done" /\ requests'[r].outcome = "refused"
      /\ requests'[r].kind = "demo"
      /\ requests'[r].state = requests[r].state /\ r \notin Given'
  BY <1>1, <1>2, EndsEffect DEF IInv, UndoDemo
<1>5. RequestSound(r)'
  BY <1>4 DEF RequestSound, AtWork
<1>. QED
  BY <1>3, <1>4, <1>5, RemovalStep DEF UndoDemo, history

LEMMA DropStep == ASSUME IInv, NEW r \in Requests, Drop(r) PROVE IInv'
<1>1. /\ requests[r].at = "drop" /\ requests[r].kind \in {"read", "logout"}
      /\ requests[r].on \in Requests /\ requests[r].outcome = "none"
  BY DEF Drop, At, IInv, RequestsSound, RequestSound, AtWork, Given
<1>2. "refused" \in Outcomes \ {"none"}
  BY DEF Outcomes
<1>3. Frame(r)
  BY <1>1, <1>2, EndsFrame DEF Drop
<1>4. /\ requests'[r].at = "done" /\ requests'[r].outcome = "refused"
      /\ requests'[r].kind \in {"read", "logout"}
      /\ requests'[r].state = requests[r].state /\ r \notin Given'
  BY <1>1, <1>2, EndsEffect DEF IInv, Drop
<1>5. RequestSound(r)'
  BY <1>4 DEF RequestSound, AtWork
<1>. QED
  BY <1>1, <1>3, <1>4, <1>5, AbsentOthers, RemovalStep DEF Drop, history

LEMMA EndSessionStep == ASSUME IInv, NEW r \in Requests, EndSession(r) PROVE IInv'
<1> DEFINE s == requests[r].on
<1>1. /\ requests[r].at = "end" /\ requests[r].kind \in {"read", "logout"}
      /\ s \in Given /\ s \in Requests /\ requests[r].outcome = "none"
  BY DEF EndSession, At, IInv, RequestsSound, RequestSound, AtWork, Given
<1>2. "ok" \in Outcomes \ {"none"} /\ "revoke" \in Places \ {"done", "new"}
  BY DEF Outcomes, Places
<1>3. Ends(r, "ok") \/ Goto(r, "revoke")
  BY DEF EndSession
<1>4. Frame(r)
  BY <1>1, <1>2, <1>3, EndsFrame, GotoFrame
<1>5. /\ requests'[r].at \in {"done", "revoke"} /\ requests'[r].outcome \in {"ok", "none"}
      /\ requests'[r].kind \in {"read", "logout"} /\ requests'[r].on = s
      /\ requests'[r].at = "revoke" => requests'[r].outcome = "none"
      /\ requests'[r].state = requests[r].state /\ r \notin Given'
  BY <1>1, <1>2, <1>3, EndsEffect, GotoEffect DEF IInv, Given
<1>6. s \in Given' /\ s \in ended'
  BY <1>1, <1>4, FrameFacts DEF EndSession
<1>7. RequestSound(r)'
  BY <1>5, <1>6 DEF RequestSound, AtWork
<1>8. /\ Removed(s) /\ ended' = ended \cup {s}
      /\ overlapped' = IF Refreshing(s) # {} THEN overlapped \cup {s} ELSE overlapped
      /\ UNCHANGED <<clock, signIns, born, taken, raced, members, faults>>
  BY DEF EndSession
<1>. QED
  BY <1>1, <1>4, <1>5, <1>7, <1>8, AbsentOthers, RemovalStep

-----------------------------------------------------------------------------
(* The steps that write a key.                                             *)

\* The session a request creates is its own, and nobody is at work on it.
LEMMA CreationStep ==
  ASSUME IInv, NEW r \in Requests, Frame(r), RequestSound(r)', CreateSession(r),
         UNCHANGED <<clock, signIns, members, cleanup, taken, ended, overlapped, raced, faults>>,
         requests'[r].state = requests[r].state \/ requests[r].at = "new",
         requests'[r].at \notin {"check", "save"},
         r \in Given' \/ (requests'[r].kind = "demo" /\ requests'[r].outcome # "refused"),
         r \in Given' => requests'[r].kind # "demo"
  PROVE  IInv'
<1> DEFINE record == [expires |-> clock + IdleTimeout, absolute |-> clock + AbsoluteTimeout]
<1>1. record \in RecordType /\ record.absolute = clock + AbsoluteTimeout /\ clock \in Nat
  BY Types, Constants DEF IInv, RecordType
<1>2. keys' = [keys EXCEPT ![r] = Key(record)] /\ born' = [born EXCEPT ![r] = clock]
  BY DEF CreateSession
<1>. HIDE DEF record
<1>3. /\ keys' \in [Requests -> KeyRecords] /\ keys'[r] = Key(record)
      /\ \A q \in Requests \ {r} : keys'[q] = keys[q]
  BY <1>1, <1>2, KeyType, Types DEF IInv
<1>4. /\ born' \in [Requests -> Nat] /\ born'[r] = clock
      /\ \A q \in Requests \ {r} : born'[q] = born[q]
  BY <1>1, <1>2 DEF IInv, TypeOK
<1>5. TypeOK'
  BY <1>3, <1>4 DEF IInv, TypeOK, Frame, RequestType, KeyRecords
<1>6. RequestsSound'
  BY OthersSound
<1>7. SessionsSound'
  BY <1>3, FrameFacts DEF IInv, SessionsSound, Frame, Present
<1>8. TakenGone'
  <2>1. requests[r].at = "new" => requests[r].state \notin taken
    <3>1. requests[r].at = "new" => requests[r].state = "no state"
      BY NewFacts
    <3>. QED
      BY <3>1, NoState DEF IInv, TypeOK
  <2>2. \A q \in Requests : requests[q].state \in taken => requests'[q].state = requests[q].state
    BY <2>1 DEF Frame
  <2>. QED
    BY <2>2 DEF IInv, TakenGone
<1>9. DeadlineKept'
  <2>1. /\ keys'[r].record.absolute = born'[r] + AbsoluteTimeout
        /\ keys'[r].goes = born'[r] + AbsoluteTimeout \/ keys'[r].goes <= clock' + 1
    <3>1. Key(record).record = record
          /\ (Key(record).goes = record.absolute \/ Key(record).goes = clock + 1)
      BY <1>1, KeyType
    <3>2. clock + 1 <= clock + 1
      BY <1>1
    <3>. QED
      BY <1>1, <1>3, <1>4, <3>1, <3>2
  <2>2. ASSUME NEW s \in Requests \ {r}, Present(s)'
        PROVE  /\ keys'[s].record.absolute = born'[s] + AbsoluteTimeout
               /\ keys'[s].goes = born'[s] + AbsoluteTimeout \/ keys'[s].goes <= clock' + 1
    BY <1>3, <1>4, <2>2 DEF IInv, DeadlineKept, Present, KeptBy, Deadline
  <2>3. ASSUME NEW q \in Requests, requests'[q].at \in {"check", "save"}
        PROVE  requests'[q].saw.absolute = born'[requests'[q].on] + AbsoluteTimeout
    <3>1. q # r /\ requests'[q] = requests[q]
      BY <2>3 DEF Frame
    <3>2. requests[q].on \in Given
      BY <2>3, <3>1 DEF IInv, RequestsSound, RequestSound, AtWork
    <3>3. requests[q].on \in Requests \ {r}
      BY <3>2, FrameFacts
    <3>. QED
      BY <1>4, <2>3, <3>1, <3>3 DEF IInv, DeadlineKept, KeptBy, Deadline
  <2>. QED
    BY <2>1, <2>2, <2>3 DEF DeadlineKept, KeptBy, Deadline
<1>10. EndedSound'
  <2>1. ASSUME NEW s \in ended
        PROVE  s \in Given' /\ (Present(s)' \/ Refreshing(s)' # {} => s \in overlapped')
    <3>1. s \in Given /\ s \in Requests \ {r}
      BY FrameFacts DEF IInv, EndedSound
    <3>2. Present(s)' <=> Present(s)
      BY <1>3, <3>1 DEF Present
    <3>3. r \notin Refreshing(s)'
      BY DEF Refreshing
    <3>. QED
      BY <3>1, <3>2, <3>3, FrameFacts DEF IInv, EndedSound
  <2>. QED
    BY <2>1 DEF EndedSound
<1>11. RolesSound'
  BY FrameFacts DEF IInv, RolesSound, IsDemo, Frame
<1>. QED
  BY <1>5, <1>6, <1>7, <1>8, <1>9, <1>10, <1>11 DEF IInv

LEMMA SignedInStep == ASSUME IInv, NEW r \in Requests, SignedIn(r) PROVE IInv'
<1>1. requests[r].at = "create" /\ requests[r].kind = "callback" /\ ~requests[r].late
  BY DEF SignedIn, At, IInv, RequestsSound, RequestSound
<1>2. "ok" \in Outcomes \ {"none"}
  BY DEF Outcomes
<1>3. Frame(r)
  BY <1>1, <1>2, EndsFrame DEF SignedIn
<1>4. /\ requests'[r].at = "done" /\ requests'[r].outcome = "ok"
      /\ requests'[r].kind = "callback" /\ ~requests'[r].late
      /\ requests'[r].state = requests[r].state /\ r \in Given'
  BY <1>1, <1>2, EndsEffect DEF IInv, SignedIn
<1>5. RequestSound(r)'
  BY <1>4 DEF RequestSound, AtWork
<1>. QED
  BY <1>3, <1>4, <1>5, CreationStep DEF SignedIn

LEMMA DemoStep == ASSUME IInv, NEW r \in Requests, Demo(r) PROVE IInv'
<1> DEFINE new == [NewRequest EXCEPT !.kind = "demo", !.at = "grant", !.on = r]
<1>1. requests[r].at = "new" /\ requests' = [requests EXCEPT ![r] = new]
  BY DEF Demo, New
<1>2. /\ new \in RequestType /\ new.kind = "demo" /\ new.at = "grant" /\ new.outcome = "none"
  BY NewRequestFacts, Types DEF IInv, RequestType, Kinds, Places
<1>. HIDE DEF new
<1>3. requests'[r] = new /\ Frame(r)
  BY <1>1, <1>2, Types DEF IInv, Frame
<1>4. r \notin Given'
  BY <1>2, <1>3 DEF Given
<1>5. RequestSound(r)'
  BY <1>2, <1>3 DEF RequestSound, AtWork
<1>. QED
  BY <1>1, <1>2, <1>3, <1>4, <1>5, CreationStep DEF Demo

LEMMA SaveStep == ASSUME IInv, NEW r \in Requests, Save(r) PROVE IInv'
<1> DEFINE s == requests[r].on
           record == requests[r].saw
<1>1. /\ requests[r].at = "save" /\ requests[r].kind \in {"read", "logout"}
      /\ s \in Given /\ s \in Requests /\ requests[r].outcome = "none"
      /\ KeptBy(record, s)
  BY DEF Save, At, IInv, RequestsSound, RequestSound, AtWork, Given, DeadlineKept
<1>2. "ok" \in Outcomes \ {"none"} /\ "end" \in Places \ {"done", "new"}
  BY DEF Outcomes, Places
<1>3. Ends(r, "ok") \/ Goto(r, "end")
  BY DEF Save
<1>4. Frame(r)
  BY <1>1, <1>2, <1>3, EndsFrame, GotoFrame
<1>5. /\ requests'[r].at \in {"done", "end"} /\ requests'[r].outcome \in {"ok", "none"}
      /\ requests'[r].kind \in {"read", "logout"} /\ requests'[r].on = s
      /\ requests'[r].at = "end" => requests'[r].outcome = "none"
      /\ requests'[r].state = requests[r].state /\ r \notin Given'
  BY <1>1, <1>2, <1>3, EndsEffect, GotoEffect DEF IInv, Given
<1>6. s \in Given'
  BY <1>1, <1>4, FrameFacts
<1>7. RequestSound(r)'
  BY <1>5, <1>6 DEF RequestSound, AtWork
<1>8. record \in RecordType /\ clock \in Nat
  BY <1>1, Types DEF IInv, RequestType
<1>9. keys' = [keys EXCEPT ![s] = Key(record)]
      /\ UNCHANGED <<clock, signIns, members, cleanup, born, taken, ended, overlapped, raced, faults>>
  BY DEF Save, history
<1>. HIDE DEF s, record
<1>10. /\ keys' \in [Requests -> KeyRecords] /\ keys'[s] = Key(record)
       /\ \A q \in Requests \ {s} : keys'[q] = keys[q]
  BY <1>1, <1>8, <1>9, KeyType, Types DEF IInv
<1>11. TypeOK'
  <2>1. UNCHANGED <<clock, signIns, members, cleanup, born, taken, ended, overlapped, raced, faults>>
    BY <1>9
  <2>. QED
    BY <1>4, <1>10, <2>1 DEF IInv, TypeOK, Frame, RequestType, KeyRecords
<1>12. RequestsSound'
  BY <1>4, <1>7, <1>9, OthersSound
<1>13. SessionsSound'
  <2>1. ASSUME NEW q \in Requests, Present(q)'
        PROVE  q \in Given' \/ (requests'[q].kind = "demo" /\ requests'[q].outcome # "refused")
    <3>1. CASE q = s
      BY <1>6, <3>1
    <3>2. CASE q # s /\ q = r
      BY <1>1, <1>10, <2>1, <3>2, AbsentOthers DEF Present
    <3>3. CASE q # s /\ q # r
      BY <1>4, <1>10, <2>1, <3>3, FrameFacts DEF IInv, SessionsSound, Present, Frame
    <3>. QED
      BY <3>1, <3>2, <3>3
  <2>. QED
    BY <2>1 DEF SessionsSound
<1>14. TakenGone'
  BY <1>4, <1>5, <1>9 DEF IInv, TakenGone, Frame
<1>15. DeadlineKept'
  <2>1. KeptBy(keys'[s].record, s) /\ (keys'[s].goes = Deadline(s) \/ keys'[s].goes <= clock + 1)
    <3>1. Key(record).record = record
          /\ (Key(record).goes = record.absolute \/ Key(record).goes = clock + 1)
      BY <1>8, KeyType
    <3>2. clock + 1 <= clock + 1
      BY <1>8
    <3>. QED
      BY <1>1, <1>10, <3>1, <3>2 DEF KeptBy
  <2>2. ASSUME NEW q \in Requests, requests'[q].at \in {"check", "save"}
        PROVE  requests'[q] = requests[q]
    BY <1>4, <1>5, <2>2 DEF Frame
  <2>. QED
    BY <1>9, <1>10, <2>1, <2>2 DEF IInv, DeadlineKept, Present, KeptBy, Deadline
<1>16. EndedSound'
  <2>1. ASSUME NEW e \in ended
        PROVE  e \in Given' /\ (Present(e)' \/ Refreshing(e)' # {} => e \in overlapped)
    <3>1. e \in Given /\ e \in Requests
      BY <1>4, FrameFacts DEF IInv, EndedSound
    <3>2. r \notin Refreshing(e)'
      BY <1>5 DEF Refreshing
    <3>3. e = s => r \in Refreshing(e)
      BY <1>1 DEF Refreshing, s
    <3>4. e # s => (Present(e)' <=> Present(e))
      BY <1>10, <3>1 DEF Present
    <3>. QED
      BY <1>4, <3>1, <3>2, <3>3, <3>4, FrameFacts DEF IInv, EndedSound
  <2>. QED
    BY <1>9, <2>1 DEF EndedSound
<1>17. RolesSound'
  BY <1>4, <1>5, <1>9, FrameFacts DEF IInv, RolesSound, IsDemo, Frame
<1>. QED
  BY <1>11, <1>12, <1>13, <1>14, <1>15, <1>16, <1>17 DEF IInv

-----------------------------------------------------------------------------
(* Time, sign-ins and the cleanup.                                         *)

LEMMA TickStep == ASSUME IInv, Tick PROVE IInv'
<1>1. clock \in Nat /\ clock' = clock + 1
  BY Types DEF IInv, Tick
<1>2. /\ keys' \in [Requests -> KeyRecords]
      /\ \A s \in Requests : Present(s)' => Present(s) /\ keys'[s] = keys[s]
  <2>1. NoKey \in KeyRecords
    BY DEF NoKey, NoRecord, KeyRecords, RecordType
  <2>2. keys' = [s \in Requests |-> IF keys[s].goes = clock + 1 THEN NoKey ELSE keys[s]]
    BY DEF Tick
  <2>. QED
    BY <2>1, <2>2, Types DEF IInv, Present
<1>3. signIns' \in [SignIns -> Nat] /\ \A t \in SignIns : signIns[t] = 0 => signIns'[t] = 0
  BY DEF Tick, IInv, TypeOK
<1>4. cleanup' \in [at : {"idle", "scan"}, live : SUBSET Requests, steady : SUBSET Requests]
  BY DEF Tick, IInv, TypeOK
<1>5. UNCHANGED <<members, requests, born, taken, ended, overlapped, raced, faults>>
  BY DEF Tick, history
<1>6. TypeOK'
  <2>1. clock' \in Nat
    BY <1>1
  <2>. QED
    BY <2>1, <1>2, <1>3, <1>4, <1>5 DEF IInv, TypeOK, KeyRecords
<1>7. RequestsSound' /\ RolesSound'
  BY <1>5 DEF IInv, RequestsSound, RequestSound, RolesSound, Given, IsDemo
<1>8. SessionsSound'
  BY <1>2, <1>5 DEF IInv, SessionsSound, Given
<1>9. TakenGone'
  BY <1>3, <1>5 DEF IInv, TakenGone, TypeOK
<1>10. DeadlineKept'
  <2>1. ASSUME NEW s \in Requests, Present(s)'
        PROVE  /\ keys'[s].record.absolute = born[s] + AbsoluteTimeout
               /\ keys'[s].goes = born[s] + AbsoluteTimeout \/ keys'[s].goes <= clock' + 1
    <3>1. /\ keys'[s].record.absolute = born[s] + AbsoluteTimeout
          /\ keys'[s].goes = born[s] + AbsoluteTimeout \/ keys'[s].goes <= clock + 1
      BY <1>2, <2>1 DEF IInv, DeadlineKept, KeptBy, Deadline
    <3>2. keys'[s].goes \in Nat
      BY <1>2 DEF KeyRecords
    <3>. QED
      BY <1>1, <3>1, <3>2
  <2>2. ASSUME NEW q \in Requests, requests[q].at \in {"check", "save"}
        PROVE  requests[q].saw.absolute = born[requests[q].on] + AbsoluteTimeout
    BY <2>2 DEF IInv, DeadlineKept, KeptBy, Deadline
  <2>. QED
    BY <1>5, <2>1, <2>2 DEF DeadlineKept, KeptBy, Deadline
<1>11. EndedSound'
  <2>1. ended \subseteq Requests
    BY DEF IInv, TypeOK
  <2>. QED
    BY <1>2, <1>5, <2>1 DEF IInv, EndedSound, Given, Refreshing
<1>. QED
  BY <1>6, <1>7, <1>8, <1>9, <1>10, <1>11 DEF IInv

\* A state is used once, so a transaction that was taken does not come back.
LEMMA LoginStep == ASSUME IInv, NEW t \in SignIns, Login(t) PROVE IInv'
<1>1. UNCHANGED <<clock, keys, members, requests, cleanup, born, taken, ended, overlapped, raced, faults>>
  BY DEF Login, history
<1>2. signIns' \in [SignIns -> Nat] /\ \A u \in SignIns \ {t} : signIns'[u] = signIns[u]
  <2>1. clock + SignInTimeout \in Nat
    BY Constants, Types DEF IInv
  <2>. QED
    BY <2>1 DEF Login, IInv, TypeOK
<1>3. t \notin taken
  BY DEF Login, IInv, TakenGone
<1>4. TypeOK'
  BY <1>1, <1>2 DEF IInv, TypeOK
<1>5. TakenGone'
  BY <1>1, <1>2, <1>3 DEF IInv, TakenGone, TypeOK
<1>6. RequestsSound' /\ SessionsSound' /\ DeadlineKept' /\ EndedSound' /\ RolesSound'
  BY <1>1 DEF IInv, RequestsSound, RequestSound, SessionsSound, DeadlineKept, EndedSound,
              RolesSound, Given, Present, KeptBy, Deadline, Refreshing, IsDemo
<1>. QED
  BY <1>4, <1>5, <1>6 DEF IInv

LEMMA TakeSignInStep == ASSUME IInv, NEW r \in Requests, TakeSignIn(r) PROVE IInv'
<1> DEFINE t == requests[r].state
<1>1. /\ requests[r].at = "take" /\ requests[r].kind = "callback" /\ t \in SignIns
      /\ requests[r].outcome = "none" /\ (requests[r].late => requests[r].saw = NoRecord)
  BY DEF TakeSignIn, At, IInv, RequestsSound, RequestSound
<1>2. "refused" \in Outcomes \ {"none"} /\ "exchange" \in Places \ {"done", "new"}
  BY DEF Outcomes, Places
<1>3. \/ Ends(r, "refused")
      \/ Goto(r, "exchange") /\ ~requests[r].late
  BY <1>1 DEF TakeSignIn
<1>4. Frame(r)
  BY <1>1, <1>2, <1>3, EndsFrame, GotoFrame
<1>5. /\ requests'[r].at \in {"done", "exchange"} /\ requests'[r].outcome \in {"refused", "none"}
      /\ requests'[r].kind = "callback" /\ requests'[r].state = t
      /\ requests'[r].at = "exchange" => requests'[r].outcome = "none" /\ ~requests'[r].late
      /\ r \notin Given'
  BY <1>1, <1>2, <1>3, EndsEffect, GotoEffect DEF IInv, Given
<1>6. RequestSound(r)'
  BY <1>5 DEF RequestSound, AtWork
<1>7. /\ signIns' = [signIns EXCEPT ![t] = 0] /\ taken' = taken \cup {t}
      /\ UNCHANGED <<clock, keys, members, cleanup, born, ended, overlapped, raced, faults>>
  BY DEF TakeSignIn
<1>. HIDE DEF t
<1>8. /\ signIns' \in [SignIns -> Nat] /\ signIns'[t] = 0
      /\ \A u \in SignIns \ {t} : signIns'[u] = signIns[u]
  BY <1>1, <1>7 DEF IInv, TypeOK
<1>9. TypeOK'
  BY <1>1, <1>4, <1>7, <1>8 DEF IInv, TypeOK, Frame, RequestType
<1>10. RequestsSound'
  BY <1>4, <1>6, <1>7, OthersSound
<1>11. SessionsSound'
  BY <1>1, <1>4, <1>7, AbsentOthers, FrameFacts DEF IInv, SessionsSound, Frame, Present
<1>12. TakenGone'
  <2>1. \A q \in Requests : requests'[q].state = requests[q].state
    BY <1>4, <1>5 DEF Frame, t
  <2>. QED
    <3>1. ASSUME NEW u \in taken'
          PROVE  signIns'[u] = 0 /\ \E q \in Requests : requests'[q].state = u
      <4>1. CASE u = t
        BY <1>5, <1>8, <4>1
      <4>2. CASE u # t
        <5>1. u \in taken /\ u \in SignIns
          BY <1>7, <4>2 DEF IInv, TypeOK
        <5>. QED
          BY <1>8, <2>1, <4>2, <5>1 DEF IInv, TakenGone
      <4>. QED
        BY <4>1, <4>2
    <3>. QED
      BY <3>1 DEF TakenGone
<1>13. DeadlineKept'
  BY <1>4, <1>5, <1>7 DEF IInv, DeadlineKept, Present, KeptBy, Deadline, Frame
<1>14. EndedSound'
  <2>1. ASSUME NEW s \in ended
        PROVE  s \in Given' /\ (Present(s)' \/ Refreshing(s)' # {} => s \in overlapped')
    <3>1. s \in Given /\ s \in Requests
      BY <1>4, FrameFacts DEF IInv, EndedSound
    <3>2. r \notin Refreshing(s)'
      BY <1>5 DEF Refreshing
    <3>. QED
      BY <1>4, <1>7, <3>1, <3>2, FrameFacts DEF IInv, EndedSound, Present
  <2>. QED
    BY <1>7, <2>1 DEF EndedSound
<1>15. RolesSound'
  BY <1>4, <1>5, <1>7, FrameFacts DEF IInv, RolesSound, IsDemo, Frame
<1>. QED
  BY <1>9, <1>10, <1>11, <1>12, <1>13, <1>14, <1>15 DEF IInv

CleanupType == [at : {"idle", "scan"}, live : SUBSET Requests, steady : SUBSET Requests]

\* A step of the cleanup only changes members, raced, faults and itself.
LEMMA CleanupKeeps ==
  ASSUME IInv, cleanup' \in CleanupType, members' \subseteq members,
         UNCHANGED <<clock, signIns, keys, requests, born, taken, ended, overlapped>>,
         raced' \subseteq Requests, faults' \in 0..MaxFaults, RolesSound'
  PROVE  IInv'
<1>1. TypeOK'
  BY DEF IInv, TypeOK, CleanupType
<1>2. RequestsSound' /\ SessionsSound' /\ DeadlineKept' /\ EndedSound' /\ TakenGone'
  BY DEF IInv, RequestsSound, RequestSound, SessionsSound, DeadlineKept, EndedSound,
         TakenGone, Given, Present, KeptBy, Deadline, Refreshing
<1>. QED
  BY <1>1, <1>2 DEF IInv

LEMMA CleanupStep == ASSUME IInv, Cleanup \/ CleanupFails PROVE IInv'
<1>0. cleanup \in CleanupType /\ NoCleanup \in CleanupType /\ raced \subseteq Requests
      /\ members \subseteq Requests /\ faults \in 0..MaxFaults
  BY DEF IInv, TypeOK, CleanupType, NoCleanup
<1>1. CASE StartCleanup
  BY <1>0, <1>1, CleanupKeeps
  DEF StartCleanup, history, CleanupType, IInv, RolesSound, Given, IsDemo
<1>2. ASSUME NEW s \in Requests, MeetSession(s) PROVE IInv'
  BY <1>0, <1>2, CleanupKeeps
  DEF MeetSession, history, CleanupType, IInv, RolesSound, Given, IsDemo
<1>3. CASE RemoveStale
  <2>1. RolesSound'
    <3>1. ASSUME NEW s \in Given, IsDemo(s) PROVE s \in members' \cup ended \cup raced'
      <4>1. s \in members \cup ended \cup raced
        BY <3>1 DEF IInv, RolesSound
      <4>2. s \in cleanup.steady => s \in cleanup.live
        BY <1>3, <3>1 DEF RemoveStale, Scanned
      <4>. QED
        BY <1>3, <4>1, <4>2 DEF RemoveStale
    <3>. QED
      BY <1>3, <3>1 DEF RemoveStale, RolesSound, Given, IsDemo
  <2>2. members' \subseteq members /\ raced' \subseteq Requests
    BY <1>0, <1>3 DEF RemoveStale
  <2>. QED
    BY <1>0, <1>3, <2>1, <2>2, CleanupKeeps DEF RemoveStale
<1>4. CASE CleanupFails
  <2>1. faults' \in 0..MaxFaults
    BY <1>4, FaultType DEF CleanupFails
  <2>. QED
    BY <1>0, <1>4, <2>1, CleanupKeeps DEF CleanupFails, history, IInv, RolesSound, Given, IsDemo
<1>. QED
  BY <1>1, <1>2, <1>3, <1>4 DEF Cleanup

-----------------------------------------------------------------------------
(* The theorems.                                                           *)

LEMMA InitIInv == Init => IInv
<1>. SUFFICES ASSUME Init PROVE IInv
  OBVIOUS
<1>1. /\ \A r \in Requests : requests[r] = NewRequest
      /\ \A s \in Requests : ~Present(s)
  BY DEF Init, Present
<1>2. \A r \in Requests : /\ requests[r].at = "new" /\ requests[r].outcome = "none"
                          /\ requests[r].kind = "none"
  <2>1. NewRequest.at = "new"
    BY DEF NewRequest
  <2>. QED
    BY <1>1, <2>1, NewRequestFacts
<1>3. TypeOK
  <2>1. NoKey \in KeyRecords
    BY DEF NoKey, NoRecord, KeyRecords, RecordType
  <2>2. 0 \in Nat /\ 0 \in 0..MaxFaults
    BY Constants
  <2>3. NoCleanup \in CleanupType
    BY DEF NoCleanup, CleanupType
  <2>. QED
    BY <2>1, <2>2, <2>3, NewRequestFacts DEF Init, TypeOK, KeyRecords, RequestType, CleanupType
<1>4. RequestsSound
  BY <1>1, <1>2 DEF RequestsSound, RequestSound, AtWork
<1>5. SessionsSound /\ TakenGone /\ EndedSound
  BY <1>1 DEF Init, SessionsSound, TakenGone, EndedSound
<1>6. DeadlineKept
  BY <1>1, <1>2 DEF DeadlineKept
<1>7. RolesSound
  BY <1>2 DEF RolesSound, Given
<1>. QED
  BY <1>3, <1>4, <1>5, <1>6, <1>7 DEF IInv

LEMMA NextIInv == IInv /\ [Next]_vars => IInv'
<1>. SUFFICES ASSUME IInv, [Next]_vars PROVE IInv'
  OBVIOUS
<1>1. CASE Tick
  BY <1>1, TickStep
<1>2. ASSUME NEW t \in SignIns, Login(t) PROVE IInv'
  BY <1>2, LoginStep
<1>3. ASSUME NEW r \in Requests,
             \/ \E t \in SignIns : Callback(r, t)
             \/ Demo(r)
             \/ \E s \in Requests, kind \in {"read", "logout"} : Authenticate(r, s, kind)
             \/ GrantFails(r) \/ Fail(r)
      PROVE  IInv'
  BY <1>3, CallbackStep, DemoStep, AuthenticateStep, GrantFailsStep, FailStep
<1>4. ASSUME NEW r \in Requests, Step(r) PROVE IInv'
  BY <1>4, TakeSignInStep, ExchangeStep, SignedInStep, GrantStep, UndoDemoStep, CheckStep,
     DropStep, SaveStep, EndSessionStep, RevokeStep DEF Step
<1>5. CASE Cleanup \/ CleanupFails
  BY <1>5, CleanupStep
<1>6. CASE UNCHANGED vars
  <2>1. TypeOK'
    BY <1>6 DEF vars, IInv, TypeOK
  <2>2. RequestsSound' /\ SessionsSound' /\ TakenGone' /\ EndedSound' /\ RolesSound'
    BY <1>6 DEF vars, IInv, RequestsSound, RequestSound, SessionsSound, EndedSound,
                TakenGone, RolesSound, Given, Present, Refreshing, IsDemo
  <2>3. DeadlineKept'
    BY <1>6 DEF vars, IInv, DeadlineKept, Present, KeptBy, Deadline
  <2>. QED
    BY <2>1, <2>2, <2>3 DEF IInv
<1>. QED
  BY <1>1, <1>2, <1>3, <1>4, <1>5, <1>6 DEF Next

LEMMA InvHolds == Spec => []IInv
  BY InitIInv, NextIInv, PTL DEF Spec

\* Every reachable session, sign-in, role and request has its type.
THEOREM TypeCorrect == Spec => []TypeOK
  BY InvHolds, PTL DEF IInv

\* No refresh, however late, moves the deadline a session got at its sign-in,
\* nor keeps its key more than a second beyond.
THEOREM DeadlinesKept == Spec => []DeadlineKept
  BY InvHolds, PTL DEF IInv

\* What has ended comes back only by a request that overlapped its end, and
\* two callbacks of one sign-in create two sessions only if both read it first.
THEOREM EndsLast == Spec => []EndUndoneOnlyByOverlap
<1>1. IInv => EndUndoneOnlyByOverlap
  <2>. SUFFICES ASSUME IInv PROVE EndUndoneOnlyByOverlap
    OBVIOUS
  <2>1. \A s \in ended : Present(s) => s \in overlapped
    BY DEF IInv, EndedSound
  <2>2. ASSUME NEW r \in Requests, requests[r].kind = "callback", requests[r].late
        PROVE  ~Present(r)
    <3>1. r \notin Given
      BY <2>2 DEF IInv, RequestsSound, RequestSound, Given
    <3>. QED
      BY <2>2, <3>1 DEF IInv, SessionsSound
  <2>. QED
    BY <2>1, <2>2 DEF EndUndoneOnlyByOverlap
<1>. QED
  BY <1>1, InvHolds, PTL

\* A demo session that was answered has its role until its logout, but for a
\* cleanup that could not have met it; one that was refused leaves no session.
THEOREM DemosHaveRoles == Spec => []DemoHasItsRole
<1>1. IInv => DemoHasItsRole
  BY DEF IInv, RolesSound, SessionsSound, DemoHasItsRole, Given, IsDemo
<1>. QED
  BY <1>1, InvHolds, PTL
===============================================================================
