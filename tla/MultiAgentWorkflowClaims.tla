----------------------- MODULE MultiAgentWorkflowClaims -----------------------
(***************************************************************************)
(* What the workflow promises its user, for every set of requests, drafts  *)
(* and workers and every number of faults: the response of a turn tells    *)
(* the state it leaves, agents work on requests the user asked for, the    *)
(* thread is not taken for busy, the two checkpoints of a knowledge pause  *)
(* agree, only approved drafts are sent, and sent once.  A promise that    *)
(* some kinds of fault break is stated up to the first fault of these      *)
(* kinds.                                                                  *)
(*                                                                         *)
(* Promises is inductive.  Its core is Placed: each node runs on the       *)
(* states its router sends it.  Deliveries is inductive on its own.        *)
(* Last, StepsLeft falls with every step of a turn, which bounds the turn. *)
(***************************************************************************)
EXTENDS MultiAgentWorkflowProofs

\* No fault of these kinds has happened yet.
Calm(kinds) == \A k \in kinds : ~Happened(k)

\* The workflow waits for the answer to the knowledge agent's question.
Asking(c) == Waiting(c) /\ c.resume_target = "knowledge"

\* ResponseTellsState, of one graph state.
Tells(c) ==
    /\ c.final_response # NoResponse
    /\ c.final_response.status \in PromptStatus <=> Waiting(c)
    /\ c.final_response.status = "approval_required" =>
          c.pending_interrupt = Approval(c.final_response.id, c.final_response.draft)
    /\ c.final_response.status \in {"completed", "cancelled", "failed"} =>
          c.task_status = c.final_response.status

Resuming    == {"resume_supervisor", "resume_knowledge", "resume_utility", "resume_general",
                "resume_email"}
Interrupted == {"request_switch_confirmation", "continue_current_task", "switch_to_new_request"}
Fresh       == Specialists \cup {"supervisor", "supervisor_clarification", "failure"}
AgentNodes  == Fresh \cup Resuming \cup {"email_accepted"}

\* State d is one that its routers send to the node next.
Fits(d, next) ==
    /\ next \in Interrupted \cup {"email_accepted"} => Waiting(d)
    /\ next \in Fresh \cup {"rejection"} => ~Waiting(d)
    /\ next \in Resuming => d.pending_user_message # "none" /\ ~d.switch_confirmation_pending
    /\ next = "conversation_gate" /\ d.conversation_event = "resume" =>
          d.pending_user_message # "none"
    /\ next = "reply" => Tells(d)

\* A pending approval no message has interrupted is the one last asked for.
Asks(c) ==
    Waiting(c) /\ ~c.switch_confirmation_pending /\ c.pending_interrupt.type = "email_approval"
        => c.final_response = AsksApproval(c.pending_interrupt.id, c.pending_interrupt.draft)

Placed == Fits(ck, node) /\ Asks(ck) /\ Asks(prev)

Cuts == {"abort", "restart"}

\* No node that is reached between two tasks finds one running.
NotBusy ==
    /\ ck.final_response.status # "rejected_running"
    /\ node \in {"idle", "conversation_gate", "rejection", "reply"} => ~Busy(ck)

PauseShared == core <=> Asking(ck)

\* The user's latest message is a request, or a message the gate is holding back.
OnTask ==
    \/ ck.user_message.req \in {task} \cup declined
    \/ Waiting(ck) /\ ck.switch_confirmation_pending
       /\ node \in {"idle", "reply", "conversation_gate"}
    \/ Waiting(ck) /\ ck.conversation_event = "new_message" /\ node = "conversation_gate"
    \/ node \in Interrupted

\* While a task waits, the user has seen the response that left it waiting.
Seen ==
    node \in {"idle", "conversation_gate"} \cup Resuming /\ Waiting(ck)
        => shown = ck.final_response

FreeInv  == Calm(Cuts) => NotBusy
PauseInv == Calm(Cuts \cup {"cancel", "core"}) => PauseShared
TaskInv  == Calm(Cuts \cup {"cancel"}) => OnTask
SeenInv  == Calm(Cuts \cup {"lost_reply"}) => Seen

Promises == IInv /\ Placed /\ FreeInv /\ PauseInv /\ TaskInv /\ SeenInv

-----------------------------------------------------------------------------
(* Faults and nodes *)

\* A step adds at most one fault, so what has not happened after it had not
\* happened before.
LEMMA CalmBefore ==
  ASSUME IInv, NoFault \/ \E k \in FaultKinds : Fault(k), NEW K, Calm(K)'
  PROVE  Calm(K)
  <1>1. faults \in Seq(FaultKinds)
    BY DEF IInv, TypeOK, FaultLog
  <1>2. \A i \in DOMAIN faults : i \in DOMAIN faults' /\ faults'[i] = faults[i]
    BY <1>1 DEF NoFault, Fault
  <1> QED
    BY <1>2 DEF Calm, Happened

\* A fault has happened once it is logged.
LEMMA FaultHappens ==
  ASSUME IInv, NEW k \in FaultKinds, Fault(k), NEW K, k \in K
  PROVE  ~Calm(K)'
  <1>1. faults \in Seq(FaultKinds) /\ faults' = Append(faults, k)
    BY DEF IInv, TypeOK, FaultLog, Fault
  <1>2. Len(faults) + 1 \in DOMAIN faults' /\ faults'[Len(faults) + 1] = k
    BY <1>1
  <1> QED
    BY <1>2 DEF Calm, Happened

\* The groups of nodes are disjoint.
LEMMA NodeGroups ==
    /\ \A a \in AgentName : ResumeNode[a] \in Resuming
    /\ \A n \in Resuming : \E a \in AgentName : n = ResumeNode[a]
    /\ \A n \in AgentNodes : n \notin Interrupted \cup {"idle", "reply", "conversation_gate",
                                                       "rejection"}
    /\ \A n \in Fresh \cup {"reply"} :
          n \notin Resuming \cup Interrupted
                   \cup {"idle", "conversation_gate", "rejection", "email_accepted"}
    /\ \A n \in Resuming :
          n \notin Fresh \cup Interrupted
                   \cup {"idle", "conversation_gate", "rejection", "reply", "email_accepted"}
    /\ \A n \in Interrupted \cup {"rejection"} :
          n \notin Fresh \cup Resuming
                   \cup {"idle", "conversation_gate", "reply", "email_accepted"}
    /\ "rejection" \notin Interrupted /\ "reply" \notin Fresh
    /\ Specialists \subseteq Fresh
  BY DEF Resuming, ResumeNode, AgentName, Specialists, AgentNodes, Fresh, Interrupted

\* The statuses a node may answer with are told apart.
LEMMA ResponseStatus ==
    /\ \A s : Says(s).status = s
    /\ \A i, d : AsksApproval(i, d).status = "approval_required"
    /\ \A s \in {"none", "completed", "cancelled", "failed", "rejected_running",
                 "rejected_no_task"} : s \notin PromptStatus /\ s # "approval_required"
    /\ \A s \in {"clarification_required", "switch_confirmation_required"} :
          s \in PromptStatus /\ s # "approval_required"
    /\ NoResponse.status = "none" /\ "approval_required" \in PromptStatus
  BY DEF Says, AsksApproval, PromptStatus, NoResponse

-----------------------------------------------------------------------------
(* What an agent's update and the router that reads it yield *)

\* The outcome d of an agent that ran on c, handed to next.
Yields(c, d, next) ==
    /\ next \in Fresh \cup {"reply"}
    /\ Fits(d, next) /\ Asks(d)
    /\ d.user_message.req = c.user_message.req
    /\ d.final_response.status # "rejected_running" \/ d.final_response = c.final_response
    /\ next = "reply" => ~Busy(d)

\* An update that leaves the task running, or fails it, and does not answer.
Unanswered(c, d) ==
    /\ d.task_status \in {"running", "failed"}
    /\ d.user_message.req = c.user_message.req
    /\ d.final_response.status # "rejected_running" \/ d.final_response = c.final_response

\* An update that answers the turn and tells the state it leaves.
Answers(c, d) ==
    /\ Tells(d) /\ Asks(d) /\ d.task_status # "running"
    /\ d.user_message.req = c.user_message.req
    /\ d.final_response.status \notin {"rejected_running", "rejected_no_task"}

LEMMA UnansweredYields ==
  ASSUME NEW c, NEW d, NEW next \in Fresh, Unanswered(c, d)
  PROVE  Yields(c, d, next) /\ ~Asking(d)
  BY NodeGroups DEF Unanswered, Yields, Fits, Asks, Asking, Waiting

LEMMA AnswersYields ==
  ASSUME NEW c, NEW d, Answers(c, d)
  PROVE  Yields(c, d, "reply")
  BY NodeGroups DEF Answers, Yields, Fits, Busy

\* A specialist that did not answer is followed by the supervisor or a failure.
LEMMA UnansweredRoutes ==
  ASSUME NEW d, NEW a, d.task_status \in {"running", "failed"}, d.final_response = NoResponse
  PROVE  SpecialistDestination(d, a) \in Fresh
  <1>1. {"failure", "supervisor"} \subseteq Fresh
    BY DEF Fresh
  <1> QED
    BY <1>1 DEF SpecialistDestination, Waiting

-----------------------------------------------------------------------------
(* Each update yields what the promises need *)

\* FailureNode answers that the turn failed.
LEMMA FailureAnswers ==
  ASSUME NEW c \in MultiAgentState
  PROVE  Answers(c, FailureUpdate(c)) /\ ~Asking(FailureUpdate(c))
  <1> DEFINE d == FailureUpdate(c)
  <1>1. /\ d.task_status = "failed" /\ d.final_response = Says("failed")
        /\ d.user_message = c.user_message
    BY DEF FailureUpdate, MultiAgentState
  <1> HIDE DEF d
  <1>2. /\ d.final_response.status = "failed" /\ "failed" \notin PromptStatus
        /\ d.final_response # NoResponse
    BY <1>1, Constants, ResponseStatus
  <1>3. Answers(c, d) /\ ~Asking(d)
    BY <1>1, <1>2 DEF Answers, Tells, Asks, Asking, Waiting
  <1> QED
    BY <1>3 DEF d

\* A failing supervisor answers nothing.
LEMMA SupervisorFailureYields ==
  ASSUME NEW c \in MultiAgentState
  PROVE  Unanswered(c, SupervisorFailure(c))
  BY DEF SupervisorFailure, MultiAgentState, Unanswered

\* Nor does a routing decision.
LEMMA DecidedYields ==
  ASSUME NEW c \in MultiAgentState, NEW r
  PROVE  Unanswered(c, Decided(c, r))
  BY DEF Decided, MultiAgentState, Unanswered

\* A failing specialist answers nothing and is followed by a failure.
LEMMA SpecialistFailureYields ==
  ASSUME NEW c \in MultiAgentState, NEW a, NEW d \in {SpecialistFailure(c, a), FailureKeepingTask(c, a)}
  PROVE  Yields(c, d, SpecialistDestination(d, a)) /\ ~Asking(d)
  <1>1. /\ d.task_status = "failed" /\ d.final_response = NoResponse
        /\ d.user_message = c.user_message
    BY DEF SpecialistFailure, FailureKeepingTask, MultiAgentState
  <1>2. Unanswered(c, d)
    BY <1>1, ResponseStatus DEF Unanswered
  <1> QED
    BY <1>1, <1>2, UnansweredRoutes, UnansweredYields

\* A handoff leaves the task running.
LEMMA HandoffYields ==
  ASSUME NEW c \in MultiAgentState, NEW a
  PROVE  LET d == HandoffUpdate(c, a)
         IN  Yields(c, d, SpecialistDestination(d, a)) /\ ~Asking(d)
  <1>1. CASE c.handoff_count + 1 > DefaultMaxHandoffs
    BY <1>1, SpecialistFailureYields DEF HandoffUpdate
  <1>2. CASE ~(c.handoff_count + 1 > DefaultMaxHandoffs)
    <2> DEFINE h == HandoffRecorded(c, a)
               d == HandedOff(c, a)
    <2>1. DOMAIN h = DOMAIN c /\ h.user_message = c.user_message
      BY DEF HandoffRecorded, MultiAgentState
    <2>2. /\ d.task_status = "running" /\ d.final_response = NoResponse
          /\ d.user_message = h.user_message
      BY <2>1 DEF HandedOff, MultiAgentState
    <2> HIDE DEF d, h
    <2>3. Unanswered(c, d)
      BY <2>1, <2>2, ResponseStatus DEF Unanswered
    <2>4. Yields(c, d, SpecialistDestination(d, a)) /\ ~Asking(d)
      BY <2>2, <2>3, UnansweredRoutes, UnansweredYields
    <2> QED
      BY <1>2, <2>4 DEF HandoffUpdate, d
  <1> QED
    BY <1>1, <1>2

\* A specialist that ends the task answers so.
LEMMA EndedYields ==
  ASSUME NEW c \in MultiAgentState, NEW a, NEW s \in {"completed", "cancelled"}
  PROVE  LET d == Ended(c, a, s)
         IN  Yields(c, d, SpecialistDestination(d, a)) /\ ~Asking(d)
  <1> DEFINE d == Ended(c, a, s)
  <1>1. /\ d.task_status = s /\ d.final_response = Says(s) /\ d.user_message = c.user_message
        /\ d.active_agent = a /\ d.error = FALSE /\ d.resume_target = "none"
        /\ d.pending_interrupt = NoPending
    BY DEF Ended, MultiAgentState
  <1> HIDE DEF d
  <1>2. Answers(c, d) /\ ~Asking(d)
    BY <1>1, Constants, ResponseStatus DEF Answers, Tells, Asks, Asking, Waiting
  <1>3. SpecialistDestination(d, a) = "reply"
    BY <1>1, Constants DEF SpecialistDestination, Waiting
  <1> QED
    BY <1>2, <1>3, AnswersYields DEF d

\* An agent that puts a question or asks for approval is resumed with the answer.
LEMMA PausedRoutes ==
  ASSUME NEW d, NEW a, Waiting(d), d.resume_target = a, d.active_agent = a, d.error = FALSE,
         d.pending_interrupt # NoPending, d.final_response # NoResponse
  PROVE  SpecialistDestination(d, a) = "reply"
  BY DEF SpecialistDestination, Waiting

\* A question is answered by a prompt.
LEMMA AsksYields ==
  ASSUME NEW c \in MultiAgentState, NEW a, NEW d \in {SpecialistAsks(c, a), KnowledgeAsks(c)},
         d = KnowledgeAsks(c) => a = "knowledge"
  PROVE  /\ Yields(c, d, SpecialistDestination(d, a))
         /\ Asking(d) <=> a = "knowledge"
  <1> DEFINE p == Paused(c, a, Prompt("clarification"), Says("clarification_required"))
  <1>1. /\ DOMAIN p = DOMAIN c
        /\ Waiting(p) /\ p.resume_target = a /\ p.active_agent = a /\ p.error = FALSE
        /\ p.pending_interrupt = Prompt("clarification")
        /\ p.final_response = Says("clarification_required")
        /\ p.user_message = c.user_message
    BY DEF Paused, MultiAgentState, Waiting
  <1> HIDE DEF p
  <1>2. d = p \/ d = [p EXCEPT !.handoff_reason = FALSE]
    BY DEF SpecialistAsks, KnowledgeAsks, p
  <1>3. /\ Waiting(d) /\ d.resume_target = a /\ d.active_agent = a /\ d.error = FALSE
        /\ d.pending_interrupt = Prompt("clarification")
        /\ d.final_response = Says("clarification_required")
        /\ d.user_message = c.user_message
    BY <1>1, <1>2 DEF Waiting, MultiAgentState
  <1>4. Answers(c, d) /\ d.final_response # NoResponse /\ d.pending_interrupt # NoPending
    BY <1>3, Constants, ResponseStatus DEF Answers, Tells, Asks, Waiting
  <1> QED
    BY <1>3, <1>4, PausedRoutes, AnswersYields DEF Asking

\* The supervisor's question is answered by a prompt.
LEMMA SupervisorAsksAnswers ==
  ASSUME NEW c \in MultiAgentState
  PROVE  Answers(c, SupervisorAsks(c)) /\ ~Asking(SupervisorAsks(c))
  <1> DEFINE p == Paused(c, "supervisor", Prompt("routing_clarification"),
                         Says("clarification_required"))
             d == VisitsReset(p)
  <1>1. /\ DOMAIN p = DOMAIN c
        /\ Waiting(p) /\ p.resume_target = "supervisor"
        /\ p.pending_interrupt = Prompt("routing_clarification")
        /\ p.final_response = Says("clarification_required")
        /\ p.user_message = c.user_message
    BY DEF Paused, MultiAgentState, Waiting
  <1> HIDE DEF p
  <1>2. /\ Waiting(d) /\ d.resume_target = "supervisor"
        /\ d.pending_interrupt = Prompt("routing_clarification")
        /\ d.final_response = Says("clarification_required")
        /\ d.user_message = c.user_message
    BY <1>1 DEF VisitsReset, Waiting, MultiAgentState
  <1>3. Answers(c, d) /\ ~Asking(d)
    BY <1>2, Constants, ResponseStatus DEF Answers, Tells, Asks, Asking, Waiting
  <1> QED
    BY <1>3, FailureAnswers DEF SupervisorAsks, RoutingClarification, p

\* A request for approval shows the approval that is pending.
LEMMA AsksToSendYields ==
  ASSUME NEW c \in MultiAgentState, NEW e \in Drafts \cup {"none"}, ApprovalId(c, e) \in Nat
  PROVE  LET d == AsksToSend(c, e)
         IN  Yields(c, d, SpecialistDestination(d, "email")) /\ ~Asking(d)
  <1> DEFINE i == ApprovalId(c, e)
             p == Paused(c, "email", Approval(i, e), AsksApproval(i, e))
             d == AsksToSend(c, e)
  <1>1. d = [p EXCEPT !.handoff_reason = FALSE]
    BY DEF AsksToSend
  <1> HIDE DEF i
  <1>2. /\ DOMAIN p = DOMAIN c
        /\ Waiting(p) /\ p.resume_target = "email" /\ p.active_agent = "email" /\ p.error = FALSE
        /\ p.pending_interrupt = Approval(i, e) /\ p.final_response = AsksApproval(i, e)
        /\ p.user_message = c.user_message
    BY DEF Paused, MultiAgentState, Waiting
  <1> HIDE DEF p
  <1>3. /\ Waiting(d) /\ d.resume_target = "email" /\ d.active_agent = "email"
        /\ d.error = FALSE
        /\ d.pending_interrupt = Approval(i, e) /\ d.final_response = AsksApproval(i, e)
        /\ d.user_message = c.user_message
    BY <1>1, <1>2 DEF Waiting, MultiAgentState
  <1> HIDE DEF d
  <1>4. /\ AsksApproval(i, e).id = i /\ AsksApproval(i, e).draft = e
        /\ Approval(i, e).id = i /\ Approval(i, e).draft = e
    BY DEF AsksApproval, Approval
  <1>5. Approval(i, e) # NoPending /\ AsksApproval(i, e) # NoResponse
    BY ApprovalType, Constants DEF i
  <1>6. Answers(c, d) /\ ~Asking(d)
    BY <1>3, <1>4, <1>5, ResponseStatus DEF Answers, Tells, Asks, Asking, Waiting
  <1>7. SpecialistDestination(d, "email") = "reply"
    BY <1>3, <1>5, PausedRoutes
  <1> QED
    BY <1>6, <1>7, AnswersYields DEF d

\* SupervisorRouter leads to the supervisor's question, a specialist or a failure.
LEMMA SupervisorLeadsOn ==
  ASSUME NEW d, Good(d)
  PROVE  SupervisorDestination(d) \in Fresh
  <1>1. d.supervisor_decision \in Routes \cup {"none"}
    BY DEF Good, MultiAgentState
  <1> QED
    BY <1>1 DEF SupervisorDestination, Routes, Fresh

\* Resuming the supervisor keeps the request, of which it may select one part.
LEMMA SupervisorResumeYields ==
  ASSUME NEW c \in MultiAgentState, NEW d \in SupervisorResumeResults(c)
  PROVE  Unanswered(c, d)
  <1> DEFINE reset    == VisitsReset(c)
             reopened == [reset EXCEPT !.resume_target = "none",
                                       !.pending_interrupt = NoPending,
                                       !.pending_user_message = "none"]
             selected(f) == [Decided(reopened, f) EXCEPT !.user_message.form = f]
  <1>1. /\ DOMAIN reset = DOMAIN c /\ reset.user_message = c.user_message
        /\ reset.final_response = c.final_response
    BY DEF VisitsReset, MultiAgentState
  <1> HIDE DEF reset
  <1>2. /\ DOMAIN reopened = DOMAIN c /\ reopened.user_message = c.user_message
        /\ reopened.final_response = c.final_response
    BY <1>1 DEF MultiAgentState
  <1> HIDE DEF reopened
  <1>3. ASSUME NEW r
        PROVE  /\ DOMAIN Decided(reopened, r) = DOMAIN c
               /\ Decided(reopened, r).task_status = "running"
               /\ Decided(reopened, r).user_message = c.user_message
               /\ Decided(reopened, r).final_response = c.final_response
    BY <1>2 DEF Decided, MultiAgentState
  <1>4. ASSUME NEW f PROVE Unanswered(c, selected(f))
    <2> DEFINE e == Decided(reopened, f)
    <2>1. /\ DOMAIN e = DOMAIN c /\ e.task_status = "running"
          /\ e.user_message = c.user_message /\ e.final_response = c.final_response
      BY <1>3
    <2> HIDE DEF e
    <2> DEFINE s == [e EXCEPT !.user_message.form = f]
    <2>2. c.user_message \in UserMessage
      BY DEF MultiAgentState
    <2>3. /\ s.task_status = "running" /\ s.final_response = c.final_response
          /\ s.user_message.req = c.user_message.req
      BY <2>1, <2>2 DEF MultiAgentState, UserMessage
    <2>4. Unanswered(c, s)
      BY <2>3 DEF Unanswered
    <2> QED
      BY <2>4 DEF e
  <1>5. \/ d = SupervisorFailure(c)
        \/ \E r \in Routes : d = Decided(reopened, r)
        \/ \E f \in {"knowledge", "utility"} : d = selected(f)
    <2>1. CASE ~RoutingReplyPending(c)
      BY <2>1 DEF SupervisorResumeResults
    <2>2. CASE RoutingReplyPending(c) /\ IsCompound(c.user_message)
      BY <2>2 DEF SupervisorResumeResults, CompoundSelections, ClarificationFallback,
                  reopened, reset, Routes
    <2>3. CASE RoutingReplyPending(c) /\ ~IsCompound(c.user_message)
      BY <2>3 DEF SupervisorResumeResults, reopened, reset
    <2> QED
      BY <2>1, <2>2, <2>3
  <1>6. \A r : Unanswered(c, Decided(reopened, r))
    BY <1>3 DEF Unanswered
  <1> QED
    BY <1>4, <1>5, <1>6, SupervisorFailureYields

\* Whatever the supervisor decides, the request is kept and nothing is answered.
LEMMA SupervisorYields ==
  ASSUME NEW c \in MultiAgentState, NEW d \in SupervisorResults(c)
  PROVE  Unanswered(c, d)
  <1>1. d = SupervisorFailure(c) \/ \E r : d = Decided(c, r)
    BY DEF SupervisorResults, ClarificationFallback
  <1> QED
    BY <1>1, SupervisorFailureYields, DecidedYields

\* What UtilityAgent, GeneralAgent and EmailAgent return short of a draft.
LEMMA SpecialistResultYields ==
  ASSUME NEW c \in MultiAgentState, NEW a \in HandsOff, NEW resumed,
         NEW d \in SpecialistResults(c, a, resumed)
  PROVE  Yields(c, d, SpecialistDestination(d, a)) /\ ~Asking(d)
  <1>1. d \in {SpecialistFailure(c, a), SpecialistAsks(c, a), HandoffUpdate(c, a),
               Ended(c, a, "completed")}
    BY DEF SpecialistResults
  <1>2. a # "knowledge"
    BY DEF HandsOff
  <1>3. CASE d = SpecialistFailure(c, a)
    BY <1>3, SpecialistFailureYields
  <1>4. CASE d = SpecialistAsks(c, a)
    <2>1. d = KnowledgeAsks(c) => a = "knowledge"
      BY <1>4 DEF SpecialistAsks, KnowledgeAsks, Paused, MultiAgentState
    <2> QED
      BY <1>2, <1>4, <2>1, AsksYields
  <1>5. CASE d = HandoffUpdate(c, a)
    BY <1>5, HandoffYields
  <1>6. CASE d = Ended(c, a, "completed")
    BY <1>6, EndedYields
  <1> QED
    BY <1>1, <1>3, <1>4, <1>5, <1>6

-----------------------------------------------------------------------------
(* What the user's message and the gate make of a state at rest *)

\* The user's message or reply reaches the gate: the waiting task is untouched.
Received(c, d) ==
    /\ Waiting(d) <=> Waiting(c)
    /\ Waiting(c) => /\ d.resume_target = c.resume_target
                     /\ d.pending_interrupt = c.pending_interrupt
                     /\ d.final_response = c.final_response
                     /\ d.switch_confirmation_pending = c.switch_confirmation_pending
    /\ Busy(d) => Busy(c)
    /\ d.final_response \in {c.final_response, NoResponse}
    /\ d.conversation_event = "resume" => d.pending_user_message # "none"

\* A new task has no active agent and no answer, and the user's message is kept.
LEMMA NewTaskFields ==
  ASSUME NEW c \in MultiAgentState
  PROVE  /\ DOMAIN NewTask(c) = DOMAIN c
         /\ NewTask(c).task_status = "running" /\ NewTask(c).active_agent = "none"
         /\ NewTask(c).final_response = NoResponse
         /\ NewTask(c).user_message = c.user_message
         /\ NewTask(c).conversation_event = c.conversation_event
         /\ NewTask(c).switch_confirmation_pending = c.switch_confirmation_pending
  <1> DEFINE v == VisitsReset(c)
  <1>1. /\ DOMAIN v = DOMAIN c /\ v.user_message = c.user_message
        /\ v.conversation_event = c.conversation_event
        /\ v.switch_confirmation_pending = c.switch_confirmation_pending
    BY DEF VisitsReset, MultiAgentState
  <1>2. NewTask(c) = [v EXCEPT !.supervisor_decision = "none", !.active_agent = "none",
                               !.resume_target = "none", !.task_status = "running",
                               !.pending_interrupt = NoPending,
                               !.final_response = NoResponse]
    BY DEF NewTask
  <1> HIDE DEF v
  <1> QED
    BY <1>1, <1>2 DEF MultiAgentState

\* A new message replaces the last one and starts a task where none waits.
LEMMA NewMessageReceived ==
  ASSUME NEW c \in MultiAgentState, NEW m \in Requests
  PROVE  LET d == NewMessageUpdate(c, m)
         IN  /\ Received(c, d)
             /\ d.user_message = Asked(m) /\ d.conversation_event = "new_message"
  <1> DEFINE received == [c EXCEPT !.conversation_event = "new_message",
                                   !.user_message = Asked(m),
                                   !.pending_user_message = "none", !.error = FALSE]
             d == NewMessageUpdate(c, m)
  <1>1. received \in MultiAgentState
    BY DEF MultiAgentState, Asked, UserMessage
  <1>2. /\ received.conversation_event = "new_message" /\ received.user_message = Asked(m)
        /\ received.resume_target = c.resume_target
        /\ received.pending_interrupt = c.pending_interrupt
        /\ received.final_response = c.final_response
        /\ received.switch_confirmation_pending = c.switch_confirmation_pending
        /\ received.task_status = c.task_status /\ received.active_agent = c.active_agent
    BY DEF MultiAgentState
  <1>3. d = IF c.task_status \in {"completed", "cancelled", "failed", "idle"}
            THEN NewTask(received) ELSE received
    BY DEF NewMessageUpdate
  <1> HIDE DEF received, d
  <1>4. CASE c.task_status \in {"completed", "cancelled", "failed", "idle"}
    BY <1>1, <1>2, <1>3, <1>4, NewTaskFields DEF Received, Waiting, Busy, d
  <1>5. CASE c.task_status \notin {"completed", "cancelled", "failed", "idle"}
    BY <1>2, <1>3, <1>5 DEF Received, Waiting, Busy, d
  <1> QED
    BY <1>4, <1>5

\* A reply is recorded beside the task it may answer.
LEMMA ReplyReceived ==
  ASSUME NEW c \in MultiAgentState, NEW r \in Replies
  PROVE  LET d == ResumeUpdate(c, r)
         IN  /\ Received(c, d) /\ d.user_message = c.user_message
             /\ d.switch_confirmation_pending = c.switch_confirmation_pending
  <1> DEFINE base == IF c = NoCheckpoint THEN NewTask(c) ELSE c
             d == ResumeUpdate(c, r)
  <1>1. /\ DOMAIN base = DOMAIN c /\ base.user_message = c.user_message
        /\ base.switch_confirmation_pending = c.switch_confirmation_pending
        /\ Waiting(base) <=> Waiting(c)
        /\ Waiting(c) => base = c
        /\ Busy(base) => Busy(c)
        /\ base.final_response \in {c.final_response, NoResponse}
    <2>1. CASE c = NoCheckpoint
      <3>1. ~Waiting(c)
        BY <2>1 DEF NoCheckpoint, Waiting
      <3> QED
        BY <2>1, <3>1, NewTaskFields DEF Waiting, Busy
    <2>2. CASE c # NoCheckpoint
      BY <2>2
    <2> QED
      BY <2>1, <2>2
  <1>2. d = [base EXCEPT !.conversation_event = "resume",
                         !.pending_user_message = r, !.error = FALSE]
    BY DEF ResumeUpdate
  <1> HIDE DEF base, d
  <1>3. /\ d.task_status = base.task_status /\ d.active_agent = base.active_agent
        /\ d.resume_target = base.resume_target
        /\ d.pending_interrupt = base.pending_interrupt
        /\ d.final_response = base.final_response /\ d.user_message = base.user_message
        /\ d.switch_confirmation_pending = base.switch_confirmation_pending
        /\ d.pending_user_message = r
    BY <1>1, <1>2 DEF MultiAgentState
  <1>4. r # "none"
    BY DEF Replies
  <1> QED
    BY <1>1, <1>3, <1>4 DEF Received, Waiting, Busy, d

\* Where the gate sends a state it can identify.
LEMMA GateCases ==
  ASSUME NEW c, Good(c), NEW next, next = GateDestination(c)
  PROVE  /\ next # "failure"
         /\ \/ Waiting(c) /\ next \in Interrupted
            \/ /\ Waiting(c) /\ next \in Resuming
               /\ c.conversation_event = "resume" /\ ~c.switch_confirmation_pending
            \/ ~Waiting(c) /\ next = "rejection"
            \/ ~Waiting(c) /\ next = "supervisor"
  <1>1. c.resume_target \in AgentName \cup {"none"} /\ c.pending_user_message \in Replies \cup {"none"}
    BY DEF Good, MultiAgentState
  <1>2. Waiting(c) => c.resume_target # "none" /\ c.pending_interrupt # NoPending
    BY Constants DEF Good, PendingTaskSound
  <1>3. /\ Waiting(c) /\ Confirming(c) =>
             next \in {"continue_current_task", "switch_to_new_request", "request_switch_confirmation"}
        /\ Waiting(c) /\ ~Confirming(c) /\ c.conversation_event = "resume" =>
             next = ResumeNode[c.resume_target]
        /\ Waiting(c) /\ c.conversation_event # "resume" => next = "request_switch_confirmation"
        /\ ~Waiting(c) => next \in {"rejection", "supervisor"}
    BY <1>2 DEF GateDestination, Confirming
  <1>4. CASE Waiting(c) /\ c.conversation_event = "resume" /\ ~Confirming(c)
    <2>1. next \in Resuming
      BY <1>1, <1>2, <1>3, <1>4, NodeGroups
    <2>2. next # "failure"
      BY <2>1 DEF Resuming
    <2> QED
      BY <1>4, <2>1, <2>2 DEF Confirming
  <1>5. CASE Waiting(c) /\ ~(c.conversation_event = "resume" /\ ~Confirming(c))
    BY <1>3, <1>5 DEF Interrupted
  <1>6. CASE ~Waiting(c)
    BY <1>3, <1>6
  <1> QED
    BY <1>4, <1>5, <1>6

\* Unless it fails the task, the gate only clears the error.
LEMMA GateUpdateFields ==
  ASSUME NEW c \in MultiAgentState, NEW next, next # "failure"
  PROVE  LET d == GateUpdate(c, next)
         IN  /\ Waiting(d) <=> Waiting(c)
             /\ Busy(d) <=> Busy(c)
             /\ d.resume_target = c.resume_target
             /\ d.pending_interrupt = c.pending_interrupt
             /\ d.final_response = c.final_response
             /\ d.switch_confirmation_pending = c.switch_confirmation_pending
             /\ d.pending_user_message = c.pending_user_message
             /\ d.user_message = c.user_message
  BY DEF GateUpdate, MultiAgentState, Waiting, Busy

-----------------------------------------------------------------------------
(* What the nodes that talk to the user about a waiting task answer *)

\* GateSwitchConfirmationNode keeps the waiting task and holds the message back.
LEMMA SwitchRequestedAnswers ==
  ASSUME NEW c, Good(c), Waiting(c)
  PROVE  LET d == SwitchRequested(c)
         IN  /\ Answers(c, d) /\ Waiting(d) /\ d.switch_confirmation_pending
             /\ d.resume_target = c.resume_target
  <1> DEFINE m == IF c.pending_switch_message = NoMessage THEN c.user_message
                  ELSE c.pending_switch_message
             d == SwitchRequested(c)
  <1>1. c \in MultiAgentState /\ c.resume_target # "none" /\ c.pending_interrupt # NoPending
    BY Constants DEF Good, PendingTaskSound
  <1>2. d = [c EXCEPT !.switch_confirmation_pending = TRUE, !.pending_switch_message = m,
                      !.pending_user_message = "none",
                      !.final_response = Says("switch_confirmation_required"),
                      !.error = FALSE]
    BY <1>1 DEF SwitchRequested, MultiAgentState
  <1> HIDE DEF m, d
  <1>3. /\ d.task_status = c.task_status /\ d.switch_confirmation_pending = TRUE
        /\ d.final_response = Says("switch_confirmation_required")
        /\ d.user_message = c.user_message /\ d.resume_target = c.resume_target
    BY <1>1, <1>2 DEF MultiAgentState
  <1>4. Answers(c, d) /\ Waiting(d)
    BY <1>3, Constants, ResponseStatus DEF Answers, Tells, Asks, Waiting
  <1> QED
    BY <1>3, <1>4 DEF d

\* ContinueCurrentTaskNode keeps the waiting task and shows its prompt again.
LEMMA TaskContinuedAnswers ==
  ASSUME NEW c, Good(c), Waiting(c)
  PROVE  LET d == TaskContinued(c)
         IN  /\ Answers(c, d) /\ Waiting(d) /\ d.user_message = c.user_message
             /\ d.resume_target = c.resume_target
  <1> DEFINE p == c.pending_interrupt
             r == IF c.pending_interrupt.type = "email_approval"
                  THEN AsksApproval(c.pending_interrupt.id, c.pending_interrupt.draft)
                  ELSE Says("clarification_required")
             d == TaskContinued(c)
  <1>1. /\ c \in MultiAgentState /\ c.resume_target # "none" /\ c.pending_interrupt # NoPending
        /\ p \in PendingInterrupt
    BY Constants DEF Good, PendingTaskSound, MultiAgentState
  <1>2. d = [c EXCEPT !.switch_confirmation_pending = FALSE,
                      !.pending_switch_message = NoMessage, !.pending_user_message = "none",
                      !.final_response = r, !.error = FALSE]
    BY <1>1 DEF TaskContinued
  <1>3. p.type = "email_approval" => /\ r = AsksApproval(p.id, p.draft)
                                     /\ p = Approval(p.id, p.draft)
    BY <1>1 DEF Approval, PendingInterrupt
  <1>4. p.type # "email_approval" => r = Says("clarification_required")
    OBVIOUS
  <1>5. r # NoResponse
    BY <1>3, <1>4, ResponseStatus, Constants
  <1> HIDE DEF r, d
  <1>6. /\ d.task_status = c.task_status /\ d.final_response = r
        /\ d.user_message = c.user_message /\ d.resume_target = c.resume_target
        /\ d.pending_interrupt = p
    BY <1>1, <1>2 DEF MultiAgentState
  <1> HIDE DEF p
  <1>7. AsksApproval(p.id, p.draft).id = p.id /\ AsksApproval(p.id, p.draft).draft = p.draft
    BY DEF AsksApproval
  <1>8. Tells(d) /\ Asks(d) /\ Waiting(d)
    <2>1. CASE p.type = "email_approval"
      BY <1>3, <1>5, <1>6, <1>7, <2>1, ResponseStatus DEF Tells, Asks, Waiting
    <2>2. CASE p.type # "email_approval"
      BY <1>4, <1>5, <1>6, <2>2, ResponseStatus DEF Tells, Asks, Waiting
    <2> QED
      BY <2>1, <2>2
  <1>9. r.status \notin {"rejected_running", "rejected_no_task"}
    BY <1>3, <1>4, ResponseStatus
  <1> QED
    BY <1>6, <1>8, <1>9 DEF Answers, Waiting, d

\* GateRejectionNode tells a running task apart from none.
LEMMA RejectedTells ==
  ASSUME NEW c \in MultiAgentState, ~Waiting(c)
  PROVE  LET d == Rejected(c)
         IN  /\ Tells(d) /\ Asks(d) /\ ~Waiting(d)
             /\ Busy(d) <=> Busy(c)
             /\ d.user_message = c.user_message
             /\ ~Busy(c) => d.final_response.status = "rejected_no_task"
  <1> DEFINE s == IF Busy(c) THEN "rejected_running" ELSE "rejected_no_task"
             d == Rejected(c)
  <1>1. s \in {"rejected_running", "rejected_no_task"} /\ (~Busy(c) => s = "rejected_no_task")
    OBVIOUS
  <1>2. d = [c EXCEPT !.final_response = Says(s), !.error = FALSE]
    BY DEF Rejected
  <1> HIDE DEF s, d
  <1>3. /\ d.task_status = c.task_status /\ d.active_agent = c.active_agent
        /\ d.user_message = c.user_message /\ d.final_response = Says(s)
    BY <1>2 DEF MultiAgentState
  <1>4. Says(s).status = s /\ Says(s) # NoResponse
    BY <1>1, ResponseStatus, Constants
  <1> QED
    BY <1>1, <1>3, <1>4, ResponseStatus DEF Tells, Asks, Waiting, Busy, d

\* SwitchToNewRequestNode runs the message the confirmation was asked for.
LEMMA SwitchedFields ==
  ASSUME NEW c \in MultiAgentState
  PROVE  LET d == Switched(c)
         IN  /\ ~Waiting(d) /\ d.final_response = NoResponse
             /\ d.user_message = c.pending_switch_message
  <1> DEFINE n == NewTask(c)
             d == Switched(c)
  <1>1. /\ DOMAIN n = DOMAIN c /\ n.task_status = "running" /\ n.final_response = NoResponse
    BY NewTaskFields
  <1>2. d = [n EXCEPT !.conversation_event = "new_message",
                      !.user_message = c.pending_switch_message,
                      !.pending_user_message = "none",
                      !.switch_confirmation_pending = FALSE,
                      !.pending_switch_message = NoMessage, !.error = FALSE]
    BY DEF Switched, ConfirmedMessage
  <1> HIDE DEF n, d
  <1>3. /\ d.task_status = "running" /\ d.final_response = NoResponse
        /\ d.user_message = c.pending_switch_message
    BY <1>1, <1>2 DEF MultiAgentState
  <1> QED
    BY <1>3 DEF Waiting, d

-----------------------------------------------------------------------------
(* Every action keeps the promises; that it keeps IInv is NextInv *)

\* Which faults a step may add.
FaultStep == NoFault \/ \E k \in FaultKinds : Fault(k)

\* The facts every step starts from.
LEMMA PromiseFacts ==
  ASSUME Promises
  PROVE  /\ IInv /\ Placed /\ Good(ck) /\ ck \in MultiAgentState
         /\ Fits(ck, node) /\ Asks(ck) /\ Asks(prev)
  BY InvFacts DEF Promises, Placed, Good

\* An agent runs on a state that does not wait for the knowledge agent, unless it
\* is the knowledge agent that resumes.
LEMMA AgentNotAsking ==
  ASSUME Promises, node \in AgentNodes, node # "resume_knowledge"
  PROVE  ~Asking(ck)
  <1>1. CASE node \in Fresh
    BY <1>1, PromiseFacts DEF Fits, Asking
  <1>2. CASE node \in Resuming
    <2>1. PICK a \in AgentName : node = ResumeNode[a]
      BY <1>2, NodeGroups
    <2>2. ck.resume_target = a
      BY <2>1, PromiseFacts DEF IInv, PendingTaskWellFormed
    <2>3. a # "knowledge"
      BY <2>1, ResumeNodes
    <2> QED
      BY <2>2, <2>3 DEF Asking
  <1>3. CASE node = "email_accepted"
    BY <1>3, PromiseFacts DEF IInv, ApprovalBindsDraft, Good, PendingTaskSound, Asking
  <1> QED
    BY <1>1, <1>2, <1>3 DEF AgentNodes

\* An agent that ran keeps every promise if its outcome yields what they need and
\* the two checkpoints of a knowledge pause still agree.
LEMMA AgentKeepsPromises ==
  ASSUME Promises, IInv', node \in AgentNodes, NEW d, NEW next,
         ck' = d, prev' = ck, node' = next, Yields(ck, d, next),
         UNCHANGED history, FaultStep,
         Calm(Cuts \cup {"cancel", "core"})' => PauseShared'
  PROVE  Promises'
  <1>1. next \in Fresh \cup {"reply"} /\ Fits(d, next) /\ Asks(d)
    BY DEF Yields
  <1>2. UNCHANGED <<shown, task, declined>>
    BY DEF history
  <1>3. \A K : Calm(K)' => Calm(K)
    BY PromiseFacts, CalmBefore DEF FaultStep
  <1>4. Placed'
    BY <1>1, PromiseFacts DEF Placed
  <1>5. FreeInv'
    <2> SUFFICES ASSUME Calm(Cuts)' PROVE NotBusy'
      BY DEF FreeInv
    <2>1. NotBusy
      BY <1>3 DEF Promises, FreeInv
    <2>2. next \notin {"idle", "conversation_gate", "rejection"}
      BY <1>1, NodeGroups
    <2> QED
      BY <2>1, <2>2 DEF NotBusy, Yields
  <1>6. PauseInv'
    BY DEF PauseInv
  <1>7. TaskInv'
    <2> SUFFICES ASSUME Calm(Cuts \cup {"cancel"})' PROVE OnTask'
      BY DEF TaskInv
    <2>1. OnTask
      BY <1>3 DEF Promises, TaskInv
    <2>2. ck.user_message.req \in {task} \cup declined
      BY <2>1, NodeGroups DEF OnTask
    <2> QED
      BY <1>2, <2>2 DEF OnTask, Yields
  <1>8. SeenInv'
    BY <1>1, NodeGroups DEF SeenInv, Seen
  <1> QED
    BY <1>4, <1>5, <1>6, <1>7, <1>8 DEF Promises

\* The common case: an agent other than the knowledge agent, and no fault.
LEMMA OtherAgentKeepsPromises ==
  ASSUME Promises, IInv', node \in AgentNodes, node # "resume_knowledge", NEW d, NEW next,
         Move(d, next), Yields(ck, d, next), ~Asking(d), UNCHANGED <<core, history>>, FaultStep
  PROVE  Promises'
  <1>1. ck' = d /\ prev' = ck /\ node' = next /\ core' = core /\ UNCHANGED history
    BY DEF Move
  <1>2. Calm(Cuts \cup {"cancel", "core"})' => PauseShared'
    <2> SUFFICES ASSUME Calm(Cuts \cup {"cancel", "core"})' PROVE PauseShared'
      OBVIOUS
    <2>1. core <=> Asking(ck)
      BY PromiseFacts, CalmBefore DEF FaultStep, Promises, PauseInv, PauseShared
    <2>2. ~Asking(ck)
      BY AgentNotAsking
    <2> QED
      BY <1>1, <2>1, <2>2 DEF PauseShared
  <1> QED
    BY <1>1, <1>2, AgentKeepsPromises

LEMMA SuperviseKeeps == ASSUME Promises, IInv', Supervise PROVE Promises'
  <1>1. PICK d \in IF node = "supervisor" THEN SupervisorResults(ck) ELSE SupervisorResumeResults(ck) :
          Move(d, SupervisorDestination(d))
    BY DEF Supervise
  <1>2. Unanswered(ck, d)
    BY <1>1, PromiseFacts, SupervisorYields, SupervisorResumeYields
  <1>3. Good(d)
    BY <1>1 DEF Move, IInv, TypeOK, PendingTaskWellFormed, VisitedMatchesCount, Good
  <1>4. Yields(ck, d, SupervisorDestination(d)) /\ ~Asking(d)
    BY <1>2, <1>3, SupervisorLeadsOn, UnansweredYields
  <1>5. node \in AgentNodes /\ node # "resume_knowledge" /\ FaultStep
    BY DEF Supervise, AgentNodes, Fresh, Resuming, FaultStep
  <1> QED
    BY <1>1, <1>4, <1>5, OtherAgentKeepsPromises DEF Supervise

LEMMA SpecialistKeeps ==
  ASSUME Promises, IInv', NEW a \in {"utility", "general"}, Specialist(a)
  PROVE  Promises'
  <1>1. PICK d \in SpecialistResults(ck, a, node = ResumeNode[a]) :
          Move(d, SpecialistDestination(d, a))
    BY DEF Specialist
  <1>2. a \in HandsOff
    BY DEF HandsOff
  <1>3. Yields(ck, d, SpecialistDestination(d, a)) /\ ~Asking(d)
    BY <1>1, <1>2, PromiseFacts, SpecialistResultYields
  <1>4. node \in AgentNodes /\ node # "resume_knowledge" /\ FaultStep
    BY DEF Specialist, FreshOrResumed, ResumeNode, AgentNodes, Fresh, Resuming, Specialists,
           FaultStep
  <1> QED
    BY <1>1, <1>3, <1>4, OtherAgentKeepsPromises DEF Specialist

\* The knowledge agent is entered with both checkpoints at rest, or resumed with
\* both of them paused, so it never refuses its turn.
LEMMA KnowledgeReady ==
  ASSUME Promises, node \in FreshOrResumed("knowledge"), PauseShared
  PROVE  IF node = "resume_knowledge" THEN SpecialistReplyPending(ck, "knowledge") /\ core
                                      ELSE ~core
  <1>1. CASE node = "resume_knowledge"
    <2>1. "knowledge" \in AgentName /\ ResumeNode["knowledge"] = "resume_knowledge"
      BY ResumeNodes, Constants
    <2>2. Waiting(ck) /\ ck.resume_target = "knowledge"
      BY <1>1, <2>1, PromiseFacts DEF IInv, PendingTaskWellFormed
    <2>3. ck.pending_user_message # "none"
      BY <1>1, PromiseFacts DEF Fits, Resuming
    <2>4. ck.pending_interrupt # NoPending
      BY <2>2, PromiseFacts, Constants DEF Good, PendingTaskSound
    <2> QED
      BY <1>1, <2>2, <2>3, <2>4 DEF PauseShared, Asking, SpecialistReplyPending
  <1>2. CASE node # "resume_knowledge"
    <2>1. node = "knowledge" /\ "knowledge" \in Fresh
      BY <1>2, ResumeNodes DEF FreshOrResumed, Fresh, Specialists
    <2>2. ~Waiting(ck)
      BY <2>1, PromiseFacts DEF Fits
    <2> QED
      BY <1>2, <2>2 DEF PauseShared, Asking
  <1> QED
    BY <1>1, <1>2

LEMMA KnowledgeKeeps == ASSUME Promises, IInv', Knowledge PROVE Promises'
  <1> DEFINE failed == FailureKeepingTask(ck, "knowledge")
             asked  == KnowledgeAsks(ck)
             done   == Ended(ck, "knowledge", "completed")
  <1>1. PICK d \in {failed, asked, done} : Move(d, SpecialistDestination(d, "knowledge"))
    BY DEF Knowledge, KnowledgeReturns, KnowledgeCompletes
  <1>2. /\ \A e \in {failed, done} : Yields(ck, e, SpecialistDestination(e, "knowledge"))
                                    /\ ~Asking(e)
        /\ Yields(ck, asked, SpecialistDestination(asked, "knowledge")) /\ Asking(asked)
    <2>1. Yields(ck, failed, SpecialistDestination(failed, "knowledge")) /\ ~Asking(failed)
      BY PromiseFacts, SpecialistFailureYields
    <2>2. Yields(ck, asked, SpecialistDestination(asked, "knowledge")) /\ Asking(asked)
      BY PromiseFacts, AsksYields
    <2>3. Yields(ck, done, SpecialistDestination(done, "knowledge")) /\ ~Asking(done)
      BY PromiseFacts, EndedYields
    <2> QED
      BY <2>1, <2>2, <2>3
  <1>3. node \in AgentNodes
    BY DEF Knowledge, FreshOrResumed, ResumeNode, AgentNodes, Fresh, Resuming, Specialists
  <1>4. FaultStep /\ UNCHANGED history
    BY DEF Knowledge, KnowledgeReturns, FaultStep, FaultKinds
  <1>5. Calm(Cuts \cup {"cancel", "core"})' => PauseShared'
    <2> SUFFICES ASSUME Calm(Cuts \cup {"cancel", "core"})' PROVE PauseShared'
      OBVIOUS
    <2>1. PauseShared
      BY <1>4, PromiseFacts, CalmBefore DEF FaultStep, Promises, PauseInv
    <2>2. ~Fault("core")
      BY PromiseFacts, FaultHappens DEF FaultKinds
    <2>3. \/ KnowledgeReturns(failed, FALSE)
          \/ KnowledgeReturns(asked, TRUE)
          \/ KnowledgeReturns(done, FALSE)
      <3>1. IF node = "resume_knowledge" THEN SpecialistReplyPending(ck, "knowledge") /\ core
                                         ELSE ~core
        BY <2>1, KnowledgeReady DEF Knowledge
      <3> QED
        BY <2>2, <3>1 DEF Knowledge, KnowledgeCompletes
    <2>4. \/ ck' = failed /\ core' = FALSE
          \/ ck' = asked /\ core' = TRUE
          \/ ck' = done /\ core' = FALSE
      BY <2>3 DEF KnowledgeReturns, Move
    <2> QED
      BY <1>2, <2>4 DEF PauseShared
  <1> QED
    BY <1>1, <1>2, <1>3, <1>4, <1>5, AgentKeepsPromises DEF Move

LEMMA EmailWithoutDraftKeeps == ASSUME Promises, IInv', EmailWithoutDraft PROVE Promises'
  <1>1. PICK d \in SpecialistResults(ck, "email", node = "resume_email") :
          Move(d, SpecialistDestination(d, "email"))
    BY DEF EmailWithoutDraft, EmailReturns
  <1>2. Yields(ck, d, SpecialistDestination(d, "email")) /\ ~Asking(d)
    BY <1>1, PromiseFacts, SpecialistResultYields DEF HandsOff
  <1>3. node \in AgentNodes /\ node # "resume_knowledge" /\ FaultStep
    BY DEF EmailWithoutDraft, EmailNode, FreshOrResumed, ResumeNode, AgentNodes, Fresh,
           Resuming, Specialists, FaultStep
  <1> QED
    BY <1>1, <1>2, <1>3, OtherAgentKeepsPromises DEF EmailWithoutDraft

\* The id of an approval that is asked for, be it kept or fresh, is a number.
LEMMA ApprovalIdType ==
  ASSUME IInv, NEW e
  PROVE  ApprovalId(ck, e) \in Nat
  <1>1. issued \in Seq(Drafts)
    BY DEF IInv, TypeOK
  <1>2. Len(issued) + 1 \in Nat
    BY <1>1
  <1>3. ck.pending_interrupt.id \in Nat
    BY DEF IInv, TypeOK, MultiAgentState, PendingInterrupt
  <1> QED
    BY <1>2, <1>3 DEF ApprovalId

LEMMA EmailDraftedKeeps == ASSUME Promises, IInv', EmailDrafted PROVE Promises'
  <1>1. PICK e \in Drafts : Move(AsksToSend(ck, e), SpecialistDestination(AsksToSend(ck, e), "email"))
    BY DEF EmailDrafted, EmailReturns
  <1>2. /\ Yields(ck, AsksToSend(ck, e), SpecialistDestination(AsksToSend(ck, e), "email"))
        /\ ~Asking(AsksToSend(ck, e))
    BY <1>1, PromiseFacts, ApprovalIdType, AsksToSendYields
  <1>3. node \in AgentNodes /\ node # "resume_knowledge" /\ FaultStep
    BY DEF EmailDrafted, EmailNode, FreshOrResumed, ResumeNode, AgentNodes, Fresh,
           Resuming, Specialists, FaultStep
  <1> QED
    BY <1>1, <1>2, <1>3, OtherAgentKeepsPromises DEF EmailDrafted

LEMMA EmailNotApprovedKeeps == ASSUME Promises, IInv', EmailNotApproved PROVE Promises'
  <1> DEFINE e == ck.pending_interrupt.draft
  <1>1. PICK d \in {AsksToSend(ck, e), Ended(ck, "email", "cancelled")} :
          Move(d, SpecialistDestination(d, "email"))
    BY DEF EmailNotApproved, EmailCancelled, EmailReturns
  <1>2. e \in Drafts \cup {"none"}
    BY PromiseFacts DEF MultiAgentState, PendingInterrupt
  <1>3. Yields(ck, d, SpecialistDestination(d, "email")) /\ ~Asking(d)
    BY <1>1, <1>2, PromiseFacts, ApprovalIdType, AsksToSendYields, EndedYields
  <1>4. node \in AgentNodes /\ node # "resume_knowledge" /\ FaultStep
    BY DEF EmailNotApproved, ApprovalPending, AgentNodes, Resuming, FaultStep
  <1> QED
    BY <1>1, <1>3, <1>4, OtherAgentKeepsPromises DEF EmailNotApproved

LEMMA EmailAcceptedKeeps == ASSUME Promises, IInv', EmailAccepted PROVE Promises'
  <1>1. PICK d \in {Ended(ck, "email", "completed"), SpecialistFailure(ck, "email")} :
          Move(d, SpecialistDestination(d, "email"))
    BY DEF EmailAccepted, EmailReturns
  <1>2. Yields(ck, d, SpecialistDestination(d, "email")) /\ ~Asking(d)
    BY <1>1, PromiseFacts, EndedYields, SpecialistFailureYields
  <1>3. node \in AgentNodes /\ node # "resume_knowledge" /\ FaultStep
    BY DEF EmailAccepted, AgentNodes, FaultStep, FaultKinds
  <1> QED
    BY <1>1, <1>2, <1>3, OtherAgentKeepsPromises DEF EmailAccepted

LEMMA SendApprovedEmailKeeps == ASSUME Promises, IInv', SendApprovedEmail PROVE Promises'
  <1>1. /\ node = "resume_email" /\ node \in AgentNodes /\ node # "resume_knowledge"
        /\ FaultStep /\ UNCHANGED <<core, history>>
    BY DEF SendApprovedEmail, ApprovalPending, AgentNodes, Resuming, FaultStep
  <1>2. ASSUME NEW d \in {Ended(ck, "email", "completed"), SpecialistFailure(ck, "email")},
               EmailReturns(d)
        PROVE  Promises'
    <2>1. Yields(ck, d, SpecialistDestination(d, "email")) /\ ~Asking(d)
      BY PromiseFacts, EndedYields, SpecialistFailureYields
    <2> QED
      BY <1>1, <1>2, <2>1, OtherAgentKeepsPromises DEF EmailReturns
  <1>3. CASE node' = "email_accepted" /\ UNCHANGED <<ck, prev, worker>>
    <2>1. Waiting(ck)
      BY <1>1, PromiseFacts, ResumeNodes, Constants DEF IInv, PendingTaskWellFormed, Specialists
    <2>2. UNCHANGED <<ck, prev, core, shown, task, declined>>
      BY <1>1, <1>3 DEF history
    <2>3. Placed'
      BY <1>3, <2>1, <2>2, PromiseFacts, NodeGroups DEF Placed, Fits
    <2>4. \A K : Calm(K)' => Calm(K)
      BY <1>1, PromiseFacts, CalmBefore DEF FaultStep
    <2>5. FreeInv'
      BY <1>3, <2>2, <2>4 DEF Promises, FreeInv, NotBusy
    <2>6. PauseInv'
      BY <2>2, <2>4 DEF Promises, PauseInv, PauseShared
    <2>7. TaskInv'
      BY <1>1, <2>2, <2>4, NodeGroups DEF Promises, TaskInv, OnTask
    <2>8. SeenInv'
      BY <1>3 DEF SeenInv, Seen, Resuming
    <2> QED
      BY <2>3, <2>5, <2>6, <2>7, <2>8 DEF Promises
  <1> QED
    BY <1>2, <1>3 DEF SendApprovedEmail

LEMMA FinishKeeps == ASSUME Promises, IInv', Finish PROVE Promises'
  <1>1. FaultStep /\ UNCHANGED <<core, history>>
    BY DEF Finish, FaultStep
  <1>2. ASSUME NEW d \in {SupervisorAsks(ck), FailureUpdate(ck)}, Move(d, "reply"),
               node \in {"supervisor_clarification", "failure"}
        PROVE  Promises'
    <2>1. Yields(ck, d, "reply") /\ ~Asking(d)
      BY PromiseFacts, SupervisorAsksAnswers, FailureAnswers, AnswersYields
    <2>2. node \in AgentNodes /\ node # "resume_knowledge"
      BY <1>2 DEF AgentNodes, Fresh
    <2> QED
      BY <1>1, <1>2, <2>1, <2>2, OtherAgentKeepsPromises
  <1>3. \A K : Calm(K)' => Calm(K)
    BY <1>1, PromiseFacts, CalmBefore DEF FaultStep
  <1>4. ASSUME NEW d, Move(d, "reply"), Tells(d), Asks(d), Asking(d) <=> Asking(ck),
               Calm(Cuts) => d.final_response.status # "rejected_running" /\ ~Busy(d),
               Calm(Cuts \cup {"cancel"}) =>
                  \/ Waiting(d) /\ d.switch_confirmation_pending
                  \/ d.user_message.req \in {task} \cup declined
        PROVE  Promises'
    <2>1. ck' = d /\ prev' = ck /\ node' = "reply"
      BY <1>4 DEF Move
    <2>2. UNCHANGED <<core, shown, task, declined>>
      BY <1>1 DEF history
    <2>3. Placed'
      BY <1>4, <2>1, PromiseFacts, NodeGroups DEF Placed, Fits
    <2>4. FreeInv'
      BY <1>3, <1>4, <2>1 DEF FreeInv, NotBusy
    <2>5. PauseInv'
      BY <1>3, <1>4, <2>1, <2>2 DEF Promises, PauseInv, PauseShared
    <2>6. TaskInv'
      BY <1>3, <1>4, <2>1, <2>2 DEF TaskInv, OnTask
    <2>7. SeenInv'
      BY <2>1 DEF SeenInv, Seen, Resuming
    <2> QED
      BY <2>3, <2>4, <2>5, <2>6, <2>7 DEF Promises
  <1>5. CASE node = "request_switch_confirmation" /\ Move(SwitchRequested(ck), "reply")
    <2> DEFINE d == SwitchRequested(ck)
    <2>1. Waiting(ck)
      BY <1>5, PromiseFacts DEF Fits, Interrupted
    <2>2. /\ Answers(ck, d) /\ Waiting(d) /\ d.switch_confirmation_pending
          /\ d.resume_target = ck.resume_target
      BY <2>1, PromiseFacts, SwitchRequestedAnswers
    <2> HIDE DEF d
    <2>3. Asking(d) <=> Asking(ck)
      BY <2>1, <2>2 DEF Asking
    <2>4. d.final_response.status # "rejected_running" /\ ~Busy(d) /\ Tells(d) /\ Asks(d)
      BY <2>2 DEF Answers, Busy
    <2>5. Move(d, "reply")
      BY <1>5 DEF d
    <2> QED
      BY <1>4, <2>2, <2>3, <2>4, <2>5
  <1>6. CASE node = "rejection" /\ Move(Rejected(ck), "reply")
    <2> DEFINE d == Rejected(ck)
    <2>1. ~Waiting(ck)
      BY <1>6, PromiseFacts DEF Fits
    <2>2. /\ Tells(d) /\ Asks(d) /\ ~Waiting(d)
          /\ Busy(d) <=> Busy(ck)
          /\ d.user_message = ck.user_message
          /\ ~Busy(ck) => d.final_response.status = "rejected_no_task"
      BY <2>1, PromiseFacts, RejectedTells
    <2> HIDE DEF d
    <2>3. Asking(d) <=> Asking(ck)
      BY <2>1, <2>2 DEF Asking
    <2>4. Calm(Cuts) => d.final_response.status # "rejected_running" /\ ~Busy(d)
      BY <1>6, <2>2 DEF Promises, FreeInv, NotBusy
    <2>5. Calm(Cuts \cup {"cancel"}) => d.user_message.req \in {task} \cup declined
      BY <1>6, <2>1, <2>2, NodeGroups DEF Promises, TaskInv, OnTask
    <2>6. Move(d, "reply")
      BY <1>6 DEF d
    <2> QED
      BY <1>4, <2>2, <2>3, <2>4, <2>5, <2>6
  <1> QED
    BY <1>2, <1>5, <1>6 DEF Finish

LEMMA ContinueCurrentTaskKeeps ==
  ASSUME Promises, IInv', ContinueCurrentTask
  PROVE  Promises'
  <1> DEFINE d == TaskContinued(ck)
  <1>1. /\ ck' = d /\ prev' = ck /\ node' = "reply" /\ FaultStep /\ UNCHANGED <<core, shown, task>>
        /\ declined' = declined \cup {ck.pending_switch_message.req, ck.user_message.req}
    BY DEF ContinueCurrentTask, Move, FaultStep
  <1>2. Waiting(ck)
    BY PromiseFacts DEF ContinueCurrentTask, Fits, Interrupted
  <1>3. /\ Answers(ck, d) /\ Waiting(d) /\ d.user_message = ck.user_message
        /\ d.resume_target = ck.resume_target
    BY <1>2, PromiseFacts, TaskContinuedAnswers
  <1> HIDE DEF d
  <1>4. \A K : Calm(K)' => Calm(K)
    BY <1>1, PromiseFacts, CalmBefore DEF FaultStep
  <1>5. Placed'
    BY <1>1, <1>3, PromiseFacts, NodeGroups DEF Placed, Fits, Answers
  <1>6. FreeInv'
    BY <1>1, <1>3 DEF FreeInv, NotBusy, Answers, Busy
  <1>7. PauseInv'
    BY <1>1, <1>2, <1>3, <1>4 DEF Promises, PauseInv, PauseShared, Asking
  <1>8. TaskInv'
    BY <1>1, <1>3 DEF TaskInv, OnTask
  <1>9. SeenInv'
    BY <1>1 DEF SeenInv, Seen, Resuming
  <1> QED
    BY <1>5, <1>6, <1>7, <1>8, <1>9 DEF Promises

LEMMA SwitchToNewRequestKeeps ==
  ASSUME Promises, IInv', SwitchToNewRequest
  PROVE  Promises'
  <1>1. node = "switch_to_new_request" /\ Waiting(ck) /\ FaultStep /\ UNCHANGED shown
    BY PromiseFacts DEF SwitchToNewRequest, Fits, Interrupted, FaultStep, FaultKinds
  <1>2. PICK d \in {Switched(ck), FailureUpdate(ck)} : Move(d, "supervisor")
    BY DEF SwitchToNewRequest
  <1>3. /\ ~Waiting(d) /\ d.final_response.status # "rejected_running"
        /\ Asks(d) /\ ~Asking(d)
    <2>1. CASE d = Switched(ck)
      BY <2>1, PromiseFacts, SwitchedFields, ResponseStatus DEF Asks, Asking
    <2>2. CASE d = FailureUpdate(ck)
      <3>1. d.task_status = "failed" /\ d.final_response = Says("failed")
        BY <2>2, PromiseFacts DEF FailureUpdate, MultiAgentState
      <3> QED
        BY <3>1, ResponseStatus DEF Waiting, Asks, Asking
    <2> QED
      BY <2>1, <2>2
  <1>4. ck' = d /\ prev' = ck /\ node' = "supervisor"
    BY <1>2 DEF Move
  <1>5. \A K : Calm(K)' => Calm(K)
    BY <1>1, PromiseFacts, CalmBefore DEF FaultStep
  <1>6. Placed'
    BY <1>3, <1>4, PromiseFacts DEF Placed, Fits, Interrupted, Resuming
  <1>7. FreeInv'
    BY <1>3, <1>4 DEF FreeInv, NotBusy
  <1>8. "cancel" \in Cuts \cup {"cancel", "core"} /\ "cancel" \in Cuts \cup {"cancel"}
    OBVIOUS
  <1>9. PauseInv'
    <2> SUFFICES ASSUME Calm(Cuts \cup {"cancel", "core"})' PROVE PauseShared'
      BY DEF PauseInv
    <2>1. core <=> Asking(ck)
      BY <1>5 DEF Promises, PauseInv, PauseShared
    <2>2. ~Fault("cancel")
      BY <1>8, PromiseFacts, FaultHappens DEF FaultKinds
    <2>3. core' <=> CoreAfterCancel(ck)
      BY <2>2 DEF SwitchToNewRequest
    <2> QED
      BY <1>3, <1>4, <2>1, <2>3 DEF PauseShared, CoreAfterCancel, Asking
  <1>10. TaskInv'
    <2> SUFFICES ASSUME Calm(Cuts \cup {"cancel"})' PROVE OnTask'
      BY DEF TaskInv
    <2>1. ~Fault("cancel")
      BY <1>8, PromiseFacts, FaultHappens DEF FaultKinds
    <2>2. ck' = Switched(ck) /\ task' = ck.pending_switch_message.req
      BY <2>1 DEF SwitchToNewRequest, Move
    <2> QED
      BY <2>2, PromiseFacts, SwitchedFields DEF OnTask
  <1>11. SeenInv'
    BY <1>4 DEF SeenInv, Seen, Resuming
  <1> QED
    BY <1>6, <1>7, <1>9, <1>10, <1>11 DEF Promises

\* The start of a turn keeps the promises if the message that starts it may wait at
\* the gate.
LEMMA BeginKeeps ==
  ASSUME Promises, IInv', NEW d, NEW w, Begin(d, w), Received(ck, d), UNCHANGED shown, TaskInv'
  PROVE  Promises'
  <1>1. /\ node = "idle" /\ node' = "conversation_gate" /\ ck' = d /\ prev' = ck
        /\ core' = core /\ shown' = shown /\ FaultStep
    BY DEF Begin, FaultStep
  <1>2. \A K : Calm(K)' => Calm(K)
    BY <1>1, PromiseFacts, CalmBefore DEF FaultStep
  <1>3. Placed'
    <2>1. Fits(d, "conversation_gate")
      BY DEF Received, Fits, Interrupted, Fresh, Specialists, Resuming
    <2>2. Asks(d)
      BY PromiseFacts DEF Received, Asks
    <2> QED
      BY <1>1, <2>1, <2>2, PromiseFacts DEF Placed
  <1>4. FreeInv'
    <2>1. NoResponse.status # "rejected_running"
      BY ResponseStatus
    <2> QED
      BY <1>1, <1>2, <2>1 DEF Promises, FreeInv, NotBusy, Received
  <1>5. PauseInv'
    BY <1>1, <1>2 DEF Promises, PauseInv, PauseShared, Asking, Received
  <1>6. SeenInv'
    BY <1>1, <1>2 DEF Promises, SeenInv, Seen, Received
  <1> QED
    BY <1>3, <1>4, <1>5, <1>6 DEF Promises

LEMMA ChatKeeps ==
  ASSUME Promises, IInv', NEW w \in Workers, NEW m \in Requests, Chat(m, w)
  PROVE  Promises'
  <1> DEFINE d == NewMessageUpdate(ck, m)
  <1>1. Received(ck, d) /\ d.user_message = Asked(m) /\ d.conversation_event = "new_message"
    BY PromiseFacts, NewMessageReceived
  <1>2. Begin(d, w) /\ UNCHANGED shown
    BY DEF Chat
  <1> HIDE DEF d
  <1>3. ck' = d /\ node' = "conversation_gate"
    BY <1>2 DEF Begin
  <1>4. OnTask'
    <2>1. CASE Waiting(ck)
      BY <1>1, <1>3, <2>1 DEF OnTask, Received
    <2>2. CASE ~Waiting(ck)
      <3>1. task' = m
        BY <2>2 DEF Chat
      <3>2. d.user_message.req = m
        BY <1>1 DEF Asked
      <3> QED
        BY <1>3, <3>1, <3>2 DEF OnTask
    <2> QED
      BY <2>1, <2>2
  <1> QED
    BY <1>1, <1>2, <1>4, BeginKeeps DEF TaskInv

LEMMA ResumeKeeps ==
  ASSUME Promises, IInv', NEW w \in Workers, NEW r \in Replies, Resume(r, w)
  PROVE  Promises'
  <1> DEFINE d == ResumeUpdate(ck, r)
  <1>1. /\ Received(ck, d) /\ d.user_message = ck.user_message
        /\ d.switch_confirmation_pending = ck.switch_confirmation_pending
    BY PromiseFacts, ReplyReceived
  <1>2. Begin(d, w) /\ UNCHANGED <<shown, task, declined>>
    BY DEF Resume, history
  <1> HIDE DEF d
  <1>3. ck' = d /\ node' = "conversation_gate" /\ node = "idle" /\ FaultStep
    BY <1>2 DEF Begin, FaultStep
  <1>4. TaskInv'
    <2> SUFFICES ASSUME Calm(Cuts \cup {"cancel"})' PROVE OnTask'
      BY DEF TaskInv
    <2>1. OnTask
      BY <1>3, PromiseFacts, CalmBefore DEF FaultStep, Promises, TaskInv
    <2> QED
      BY <1>1, <1>2, <1>3, <2>1 DEF OnTask, Received, Interrupted
  <1> QED
    BY <1>1, <1>2, <1>4, BeginKeeps

LEMMA GateKeeps == ASSUME Promises, IInv', Gate PROVE Promises'
  <1> DEFINE next == GateDestination(ck)
             d    == GateUpdate(ck, next)
  <1>1. /\ ck' = d /\ prev' = ck /\ node' = next /\ node = "conversation_gate"
        /\ FaultStep /\ UNCHANGED <<core, history>>
    BY DEF Gate, Move, FaultStep
  <1>2. UNCHANGED <<core, shown, task, declined>>
    BY <1>1 DEF history
  <1>3. /\ next # "failure"
        /\ \/ Waiting(ck) /\ next \in Interrupted
           \/ /\ Waiting(ck) /\ next \in Resuming
              /\ ck.conversation_event = "resume" /\ ~ck.switch_confirmation_pending
           \/ ~Waiting(ck) /\ next = "rejection"
           \/ ~Waiting(ck) /\ next = "supervisor"
    BY PromiseFacts, GateCases
  <1> HIDE DEF next
  <1>4. /\ Waiting(d) <=> Waiting(ck)
        /\ Busy(d) <=> Busy(ck)
        /\ d.resume_target = ck.resume_target
        /\ d.pending_interrupt = ck.pending_interrupt
        /\ d.final_response = ck.final_response
        /\ d.switch_confirmation_pending = ck.switch_confirmation_pending
        /\ d.pending_user_message = ck.pending_user_message
        /\ d.user_message = ck.user_message
    BY <1>3, PromiseFacts, GateUpdateFields
  <1> HIDE DEF d
  <1>5. \A K : Calm(K)' => Calm(K)
    BY <1>1, PromiseFacts, CalmBefore DEF FaultStep
  <1>6. /\ next # "conversation_gate" /\ next # "reply" /\ next # "email_accepted" /\ next # "idle"
        /\ "supervisor" \in Fresh /\ "supervisor" \notin Interrupted \cup Resuming
    BY <1>3 DEF Interrupted, Resuming, Fresh
  <1>7. Placed'
    <2>1. Fits(d, next)
      <3>1. next \in Interrupted => Waiting(d)
        BY <1>3, <1>4, <1>6, NodeGroups
      <3>2. next \in Fresh \cup {"rejection"} => ~Waiting(d)
        BY <1>3, <1>4, NodeGroups
      <3>3. next \in Resuming => d.pending_user_message # "none" /\ ~d.switch_confirmation_pending
        <4>1. next \in Resuming => /\ ck.conversation_event = "resume"
                                   /\ ~ck.switch_confirmation_pending
          BY <1>3, <1>6, NodeGroups
        <4> QED
          BY <1>1, <1>4, <4>1, PromiseFacts DEF Fits
      <3> QED
        BY <1>6, <3>1, <3>2, <3>3 DEF Fits
    <2>2. Asks(d)
      BY <1>4, PromiseFacts DEF Asks
    <2> QED
      BY <1>1, <2>1, <2>2, PromiseFacts DEF Placed
  <1>8. FreeInv'
    BY <1>1, <1>4, <1>5 DEF Promises, FreeInv, NotBusy
  <1>9. PauseInv'
    BY <1>1, <1>2, <1>4, <1>5 DEF Promises, PauseInv, PauseShared, Asking
  <1>10. TaskInv'
    <2> SUFFICES ASSUME Calm(Cuts \cup {"cancel"})' PROVE OnTask'
      BY DEF TaskInv
    <2>1. OnTask
      BY <1>5 DEF Promises, TaskInv
    <2>2. CASE next \in Interrupted
      BY <1>1, <2>2 DEF OnTask
    <2>3. CASE next \notin Interrupted
      <3>1. ck.user_message.req \in {task} \cup declined
        BY <1>1, <1>3, <2>1, <2>3 DEF OnTask, Interrupted
      <3> QED
        BY <1>1, <1>2, <1>4, <3>1 DEF OnTask
    <2> QED
      BY <2>2, <2>3
  <1>11. SeenInv'
    BY <1>1, <1>2, <1>4, <1>5 DEF Promises, SeenInv, Seen
  <1> QED
    BY <1>7, <1>8, <1>9, <1>10, <1>11 DEF Promises

LEMMA ReplyKeeps == ASSUME Promises, IInv', Reply PROVE Promises'
  <1>1. /\ node = "reply" /\ node' = "idle" /\ prev' = ck /\ ck' = ck
        /\ UNCHANGED <<core, task, declined>> /\ FaultStep
    BY DEF Reply, FaultStep, FaultKinds
  <1>2. \A K : Calm(K)' => Calm(K)
    BY <1>1, PromiseFacts, CalmBefore DEF FaultStep
  <1>3. Placed'
    BY <1>1, PromiseFacts DEF Placed, Fits, Interrupted, Fresh, Specialists, Resuming
  <1>4. FreeInv'
    BY <1>1, <1>2 DEF Promises, FreeInv, NotBusy
  <1>5. PauseInv'
    BY <1>1, <1>2 DEF Promises, PauseInv, PauseShared
  <1>6. TaskInv'
    BY <1>1, <1>2 DEF Promises, TaskInv, OnTask, Interrupted
  <1>7. SeenInv'
    <2> SUFFICES ASSUME Calm(Cuts \cup {"lost_reply"})' PROVE Seen'
      BY DEF SeenInv
    <2>1. ~Fault("lost_reply")
      BY PromiseFacts, FaultHappens DEF FaultKinds
    <2> QED
      BY <1>1, <2>1 DEF Reply, Seen
  <1> QED
    BY <1>3, <1>4, <1>5, <1>6, <1>7 DEF Promises

\* A cut ends every promise but those about the state it falls back to.
LEMMA CutKeeps ==
  ASSUME Promises, IInv', NEW k \in Cuts, Fault(k), CutShort
  PROVE  Promises'
  <1>1. /\ ck' \in {ck, prev} /\ prev' = ck' /\ node' = "idle"
    BY DEF CutShort
  <1>2. ~Calm(Cuts)' /\ ~Calm(Cuts \cup {"cancel", "core"})' /\ ~Calm(Cuts \cup {"cancel"})'
        /\ ~Calm(Cuts \cup {"lost_reply"})'
    BY PromiseFacts, FaultHappens DEF Cuts, FaultKinds
  <1>3. Placed'
    BY <1>1, PromiseFacts DEF Placed, Fits, Interrupted, Fresh, Specialists, Resuming
  <1> QED
    BY <1>2, <1>3 DEF Promises, FreeInv, PauseInv, TaskInv, SeenInv

-----------------------------------------------------------------------------
(* The promises hold *)

\* A thread without a checkpoint keeps every promise.
LEMMA InitPromises == Init => Promises
  <1> SUFFICES ASSUME Init PROVE Promises
    OBVIOUS
  <1>1. IInv
    BY InitInv
  <1>2. /\ ~Waiting(ck) /\ ~Busy(ck) /\ ck.final_response = NoResponse
        /\ ck.user_message.req = "none" /\ node = "idle" /\ task = "none" /\ prev = ck
        /\ core = FALSE
    BY DEF Init, NoCheckpoint, NoMessage, Asked, Waiting, Busy
  <1>3. Placed
    BY <1>2 DEF Placed, Fits, Asks, Interrupted, Fresh, Specialists, Resuming
  <1>4. NotBusy
    BY <1>2, ResponseStatus DEF NotBusy
  <1>5. PauseShared /\ OnTask /\ Seen
    BY <1>2 DEF PauseShared, Asking, OnTask, Seen
  <1> QED
    BY <1>1, <1>3, <1>4, <1>5 DEF Promises, FreeInv, PauseInv, TaskInv, SeenInv

\* Every step keeps the promises.
LEMMA NextPromises == Promises /\ [Next]_vars => Promises'
  <1> SUFFICES ASSUME Promises, [Next]_vars PROVE Promises'
    OBVIOUS
  <1>1. IInv'
    BY NextInv DEF Promises
  <1>2. CASE User
    BY <1>1, <1>2, ChatKeeps, ResumeKeeps DEF User
  <1>3. CASE Step
    BY <1>1, <1>3, GateKeeps, SuperviseKeeps, FinishKeeps, SpecialistKeeps, KnowledgeKeeps,
       ContinueCurrentTaskKeeps, SwitchToNewRequestKeeps, EmailWithoutDraftKeeps,
       EmailDraftedKeeps, EmailNotApprovedKeeps, SendApprovedEmailKeeps, EmailAcceptedKeeps,
       ReplyKeeps DEF Step
  <1>4. CASE Abort \/ Restart
    BY <1>1, <1>4, CutKeeps DEF Abort, Restart, Cuts
  <1>5. CASE UNCHANGED vars
    <2>1. UNCHANGED <<ck, prev, node, core, faults, shown, task, declined>>
      BY <1>5 DEF vars
    <2>2. \A K : Calm(K)' <=> Calm(K)
      BY <2>1 DEF Calm, Happened
    <2>3. Placed'
      BY <2>1 DEF Promises, Placed
    <2>4. FreeInv' /\ PauseInv'
      BY <2>1, <2>2 DEF Promises, FreeInv, NotBusy, PauseInv, PauseShared
    <2>5. TaskInv' /\ SeenInv'
      BY <2>1, <2>2 DEF Promises, TaskInv, OnTask, SeenInv, Seen
    <2> QED
      BY <1>1, <2>3, <2>4, <2>5 DEF Promises
  <1> QED
    BY <1>2, <1>3, <1>4, <1>5 DEF Next

LEMMA PromisesHold == Spec => []Promises
  BY InitPromises, NextPromises, PTL DEF Spec

\* The response of a turn tells the state it left, whatever fails.
THEOREM ResponsesTellState == Spec => []ResponseTellsState
  <1>1. Promises => ResponseTellsState
    BY DEF Promises, Placed, Fits, Tells, ResponseTellsState
  <1> QED
    BY <1>1, PromisesHold, PTL

\* Only a turn cut short makes the gate take a thread at rest for busy.
THEOREM RejectsOnlyAfterCut == Spec => []RejectedOnlyAfterCutTurn
  <1>1. Promises => RejectedOnlyAfterCutTurn
    BY DEF Promises, FreeInv, NotBusy, RejectedOnlyAfterCutTurn, Calm, Cuts
  <1> QED
    BY <1>1, PromisesHold, PTL

\* The workflow and the knowledge agent agree on a pause until a turn is cut short,
\* a cancellation raises or the knowledge agent raises before touching its state.
THEOREM KnowledgePausesAgree ==
  Spec => [](Calm(Cuts \cup {"cancel", "core"}) => KnowledgePendingAgrees)
  <1>1. Promises => (Calm(Cuts \cup {"cancel", "core"}) => KnowledgePendingAgrees)
    BY DEF Promises, PauseInv, PauseShared, Asking, KnowledgePendingAgrees
  <1> QED
    BY <1>1, PromisesHold, PTL

\* No agent works on a message the user was only asked about, until a turn is cut
\* short or a cancellation raises.
THEOREM AgentsRunAskedRequests ==
  Spec => [](Calm(Cuts \cup {"cancel"}) => RunsOnlyAskedRequests)
  <1>1. Promises => (Calm(Cuts \cup {"cancel"}) => RunsOnlyAskedRequests)
    <2> SUFFICES ASSUME Promises, Calm(Cuts \cup {"cancel"}), Working
                 PROVE  ck.user_message.req \in {task} \cup declined
      BY DEF RunsOnlyAskedRequests
    <2>1. node \in Fresh \cup Resuming
      BY DEF Working, Fresh, Resuming
    <2>2. OnTask
      BY DEF Promises, TaskInv
    <2> QED
      BY <2>1, <2>2, NodeGroups DEF OnTask, AgentNodes
  <1> QED
    BY <1>1, PromisesHold, PTL

-----------------------------------------------------------------------------
(* Mail is sent only for the approval that was shown *)

\* Of all actions only SendApprovedEmail adds to what the mail server accepted.
LEMMA OnlySendingDelivers ==
  ASSUME [Next]_vars, ~SendApprovedEmail
  PROVE  outbox' = outbox
  <1>1. CASE User
    BY <1>1 DEF User, Chat, Resume, Begin, NoMail
  <1>2. CASE Gate \/ Supervise \/ Finish \/ \E a \in {"utility", "general"} : Specialist(a)
    BY <1>2 DEF Gate, Supervise, Finish, Specialist, NoMail
  <1>3. CASE Knowledge
    BY <1>3 DEF Knowledge, KnowledgeReturns, NoMail
  <1>4. CASE ContinueCurrentTask \/ SwitchToNewRequest \/ Reply
    BY <1>4 DEF ContinueCurrentTask, SwitchToNewRequest, Reply, NoMail
  <1>5. CASE EmailWithoutDraft \/ EmailDrafted \/ EmailNotApproved \/ EmailAccepted
    BY <1>5 DEF EmailWithoutDraft, EmailDrafted, EmailNotApproved, EmailAccepted, NoMail
  <1>6. CASE Abort \/ Restart
    BY <1>6 DEF Abort, Restart, NoMail
  <1>7. CASE UNCHANGED vars
    BY <1>7 DEF vars
  <1> QED
    BY <1>1, <1>2, <1>3, <1>4, <1>5, <1>6, <1>7 DEF Next, Step

\* What a step adds to what the mail server accepted is the approval that was shown.
DeliversShown ==
    \A i \in DOMAIN outbox' \ DOMAIN outbox :
        shown = AsksApproval(outbox'[i].id, outbox'[i].draft)

LEMMA StepDeliversShown ==
  ASSUME Promises, [Next]_vars, Calm(Cuts \cup {"lost_reply"})
  PROVE  DeliversShown
  <1> DEFINE p == ck.pending_interrupt
  <1>1. CASE outbox' = outbox
    BY <1>1 DEF DeliversShown
  <1>2. CASE outbox' # outbox
    <2>1. SendApprovedEmail
      BY <1>2, OnlySendingDelivers
    <2>2. /\ node = "resume_email" /\ p.type = "email_approval"
          /\ outbox' = Append(outbox, Delivery(p))
      BY <1>2, <2>1 DEF SendApprovedEmail, ApprovalPending, MessageAccepted
    <2>3. Waiting(ck)
      BY <2>2, PromiseFacts, ResumeNodes, Constants DEF IInv, PendingTaskWellFormed, Specialists
    <2>4. node \in Resuming
      BY <2>2 DEF Resuming
    <2>5. ck.final_response = AsksApproval(p.id, p.draft)
      BY <2>2, <2>3, <2>4, PromiseFacts DEF Fits, Asks
    <2>6. shown = ck.final_response
      BY <2>3, <2>4 DEF Promises, SeenInv, Seen
    <2>7. outbox \in Seq(Delivered)
      BY PromiseFacts DEF IInv, TypeOK
    <2>8. \A i \in DOMAIN outbox' \ DOMAIN outbox : outbox'[i] = Delivery(p)
      BY <2>2, <2>7
    <2> QED
      BY <2>5, <2>6, <2>8 DEF DeliversShown, Delivery
  <1> QED
    BY <1>1, <1>2

\* Every fault is of a kind the environment admits.
Admitted == \A i \in DOMAIN faults : faults[i] \in Faults

\* A step logs at most one fault, of a kind that is admitted.
LEMMA StepFaults ==
  ASSUME [Next]_vars
  PROVE  FaultStep
  <1>1. CASE User
    BY <1>1 DEF User, Chat, Resume, Begin, FaultStep
  <1>2. CASE Gate \/ Supervise \/ Finish \/ \E a \in {"utility", "general"} : Specialist(a)
    BY <1>2 DEF Gate, Supervise, Finish, Specialist, FaultStep
  <1>3. CASE Knowledge
    BY <1>3 DEF Knowledge, FaultStep, FaultKinds
  <1>4. CASE ContinueCurrentTask \/ SwitchToNewRequest \/ Reply
    BY <1>4 DEF ContinueCurrentTask, SwitchToNewRequest, Reply, FaultStep, FaultKinds
  <1>5. CASE EmailWithoutDraft \/ EmailDrafted \/ EmailNotApproved \/ SendApprovedEmail
             \/ EmailAccepted
    BY <1>5 DEF EmailWithoutDraft, EmailDrafted, EmailNotApproved, SendApprovedEmail,
                EmailAccepted, FaultStep, FaultKinds
  <1>6. CASE Abort \/ Restart
    BY <1>6 DEF Abort, Restart, FaultStep, FaultKinds
  <1>7. CASE UNCHANGED vars
    BY <1>7 DEF vars, FaultStep, NoFault
  <1> QED
    BY <1>1, <1>2, <1>3, <1>4, <1>5, <1>6, <1>7 DEF Next, Step

LEMMA AdmittedHolds == Spec => []Admitted
  <1>1. Init => Admitted
    BY DEF Init, Admitted
  <1>2. IInv /\ Admitted /\ [Next]_vars => Admitted'
    <2> SUFFICES ASSUME IInv, Admitted, [Next]_vars PROVE Admitted'
      OBVIOUS
    <2>1. faults \in Seq(FaultKinds)
      BY DEF IInv, TypeOK, FaultLog
    <2>2. CASE NoFault
      BY <2>2 DEF NoFault, Admitted
    <2>3. ASSUME NEW k \in FaultKinds, Fault(k) PROVE Admitted'
      BY <2>1, <2>3 DEF Fault, Admitted
    <2> QED
      BY <2>2, <2>3, StepFaults DEF FaultStep
  <1> QED
    BY <1>1, <1>2, InvariantHolds, PTL DEF Spec

\* Until a turn is cut short or a response is lost, mail is sent only to answer the
\* response that showed this very approval and draft.
THEOREM DeliveriesWereShown == Spec => [][Calm(Cuts \cup {"lost_reply"}) => DeliversShown]_vars
  <1>1. Promises /\ [Next]_vars => [Calm(Cuts \cup {"lost_reply"}) => DeliversShown]_vars
    BY StepDeliversShown
  <1> QED
    BY <1>1, PromisesHold, PTL DEF Spec

\* Where no turn is cut short and no response is lost, every message sent was.
THEOREM ApprovedDraftsWereShown ==
  ASSUME Faults \cap (Cuts \cup {"lost_reply"}) = {}
  PROVE  Spec => ApprovedDraftWasShown
  <1>1. Admitted => Calm(Cuts \cup {"lost_reply"})
    BY DEF Admitted, Calm, Happened
  <1>2. Spec => [][DeliversShown]_vars
    BY <1>1, DeliveriesWereShown, AdmittedHolds, PTL
  <1> QED
    BY <1>2, PTL DEF ApprovedDraftWasShown, DeliversShown

-----------------------------------------------------------------------------
(* An approved email is sent once *)

\* Whether the mail server has the approval that is pending.
Sent(c) ==
    /\ c.pending_interrupt.type = "email_approval"
    /\ \E i \in DOMAIN outbox : outbox[i].id = c.pending_interrupt.id

\* A pending approval that was sent is one every worker would replay.
Recorded(c) == Sent(c) => \A w \in Workers : Delivery(c.pending_interrupt) \in cache[w]

\* While no turn is cut short, an approval that was sent is not pending again.
SentOnce == AtMostOncePerApproval /\ (node # "email_accepted" => ~Sent(ck))

\* A sole worker that keeps its memory has recorded what it could be asked again,
\* in the checkpoint or in the one an aborted turn falls back to.
SentIsRecorded ==
    AtMostOncePerApproval /\ (node # "email_accepted" => Recorded(ck) /\ Recorded(prev))

SoleWorker == \A v, w \in Workers : v = w

Deliveries ==
    /\ IInv
    /\ Calm(Cuts) => SentOnce
    /\ SoleWorker /\ Calm({"restart", "lost_ack"}) => SentIsRecorded

\* An update that issues no approval.
KeepsOrDrops(c, d) ==
    d.pending_interrupt = c.pending_interrupt \/ d.pending_interrupt.type # "email_approval"

LEMMA EvolvesKeepsOrDrops ==
  ASSUME NEW c, NEW d, Evolves(c, d)
  PROVE  KeepsOrDrops(c, d)
  BY DEF Evolves, KeepsOrDrops

LEMMA EvolvingMove ==
  ASSUME NEW d, Evolves(ck, d), NEW next, Move(d, next), NoMail
  PROVE  KeepsOrDrops(ck, ck') /\ prev' \in {ck, ck'} /\ UNCHANGED <<outbox, cache>>
  <1>1. ck' = d /\ prev' = ck
    BY DEF Move
  <1> QED
    BY <1>1, EvolvesKeepsOrDrops DEF NoMail

\* A step that issues, sends and forgets no approval.
LEMMA QuietKeepsDeliveries ==
  ASSUME Deliveries, IInv', node # "email_accepted", KeepsOrDrops(ck, ck'),
         prev' \in {ck, ck'}, UNCHANGED <<outbox, cache>>, FaultStep
  PROVE  Deliveries'
  <1>1. \A K : Calm(K)' => Calm(K)
    BY CalmBefore DEF FaultStep, Deliveries
  <1>2. Sent(ck)' => Sent(ck)
    BY DEF Sent, KeepsOrDrops
  <1>3. AtMostOncePerApproval => AtMostOncePerApproval'
    BY DEF AtMostOncePerApproval
  <1>4. Recorded(ck) => Recorded(ck)'
    BY DEF Recorded, Sent, KeepsOrDrops
  <1>5. Recorded(ck) => Recorded(prev)'
    BY <1>4 DEF Recorded, Sent
  <1> QED
    BY <1>1, <1>2, <1>3, <1>4, <1>5 DEF Deliveries, SentOnce, SentIsRecorded

\* Most steps issue, send and forget nothing.
LEMMA QuietSteps ==
  ASSUME IInv, User \/ Gate \/ Supervise \/ Finish
               \/ (\E a \in {"utility", "general"} : Specialist(a))
               \/ Knowledge \/ ContinueCurrentTask \/ SwitchToNewRequest
               \/ EmailWithoutDraft \/ EmailNotApproved \/ Reply
  PROVE  /\ node # "email_accepted" /\ KeepsOrDrops(ck, ck') /\ prev' \in {ck, ck'}
         /\ UNCHANGED <<outbox, cache>> /\ FaultStep
  <1> DEFINE Quiet == /\ node # "email_accepted" /\ KeepsOrDrops(ck, ck') /\ prev' \in {ck, ck'}
                      /\ UNCHANGED <<outbox, cache>>
  <1>0. FaultStep
    <2>1. User \/ Step
      BY DEF Step
    <2> QED
      BY <2>1, StepFaults DEF Next
  <1> SUFFICES Quiet
    BY <1>0
  <1>1. ASSUME NEW w \in Workers, NEW m \in Requests, Chat(m, w) PROVE Quiet
    BY <1>1, InvFacts, NewMessageEvolves, EvolvesKeepsOrDrops DEF Chat, Begin, NoMail
  <1>2. ASSUME NEW w \in Workers, NEW r \in Replies, Resume(r, w) PROVE Quiet
    BY <1>2, InvFacts, ResumeEvolves, EvolvesKeepsOrDrops DEF Resume, Begin, NoMail
  <1>3. CASE Gate
    BY <1>3, InvFacts, GateUpdateEvolves, EvolvingMove DEF Gate
  <1>4. CASE Supervise
    <2>1. PICK c \in IF node = "supervisor" THEN SupervisorResults(ck) ELSE SupervisorResumeResults(ck) :
            Move(c, SupervisorDestination(c))
      BY <1>4 DEF Supervise
    <2>2. Evolves(ck, c)
      <3>1. CASE node = "supervisor"
        <4>1. c = SupervisorFailure(ck) \/ \E r \in Routes : c = Decided(ck, r)
          BY <2>1, <3>1 DEF SupervisorResults, ClarificationFallback, Unvisited, Routes, Specialists
        <4> QED
          BY <4>1, InvFacts, SupervisorFailureEvolves, DecidedEvolves
      <3>2. CASE node # "supervisor"
        BY <2>1, <3>2, InvFacts, SupervisorResumeEvolves
      <3> QED
        BY <3>1, <3>2
    <2> QED
      BY <1>4, <2>1, <2>2, EvolvingMove DEF Supervise
  <1>5. CASE Finish
    <2>1. PICK d \in {SupervisorAsks(ck), SwitchRequested(ck), Rejected(ck), FailureUpdate(ck)} :
            Move(d, "reply")
      BY <1>5 DEF Finish
    <2>2. Evolves(ck, d)
      BY <2>1, InvFacts, SupervisorAsksEvolves, SwitchRequestedEvolves, RejectedEvolves,
         FailureEvolves
    <2> QED
      BY <1>5, <2>1, <2>2, EvolvingMove DEF Finish
  <1>6. ASSUME NEW a \in {"utility", "general"}, Specialist(a) PROVE Quiet
    <2>1. a \in HandsOff /\ node # "email_accepted"
      BY <1>6 DEF HandsOff, Specialist, FreshOrResumed, ResumeNode
    <2> QED
      BY <1>6, <2>1, SpecialistResultsEvolve, EvolvingMove DEF Specialist
  <1>7. CASE Knowledge
    <2>1. "knowledge" \in Specialists /\ "knowledge" \notin ck.visited_agents
      BY InvFacts, Constants DEF Good, VisitsSound
    <2>2. PICK d \in {FailureKeepingTask(ck, "knowledge"), KnowledgeAsks(ck),
                      Ended(ck, "knowledge", "completed")} :
            \E pending \in BOOLEAN : KnowledgeReturns(d, pending)
      BY <1>7, InvFacts DEF Knowledge, KnowledgeCompletes
    <2>3. Evolves(ck, d)
      BY <2>1, <2>2, InvFacts, FailureKeepingTaskEvolves, PausedEvolves, EndedEvolves
    <2>4. node # "email_accepted"
      BY <1>7 DEF Knowledge, FreshOrResumed, ResumeNode
    <2> QED
      BY <2>2, <2>3, <2>4, EvolvingMove DEF KnowledgeReturns
  <1>8. CASE ContinueCurrentTask
    BY <1>8, InvFacts, TaskContinuedEvolves, EvolvingMove DEF ContinueCurrentTask
  <1>9. CASE SwitchToNewRequest
    <2>1. PICK d \in {Switched(ck), FailureUpdate(ck)} : Move(d, "supervisor")
      BY <1>9 DEF SwitchToNewRequest
    <2>2. Evolves(ck, d)
      BY <2>1, InvFacts, SwitchedEvolves, FailureEvolves
    <2> QED
      BY <1>9, <2>1, <2>2, EvolvingMove DEF SwitchToNewRequest
  <1>10. CASE EmailWithoutDraft
    <2>1. "email" \in HandsOff /\ node # "email_accepted"
      BY <1>10 DEF HandsOff, EmailWithoutDraft, EmailNode, FreshOrResumed, ResumeNode
    <2> QED
      BY <1>10, <2>1, SpecialistResultsEvolve, EvolvingMove
      DEF EmailWithoutDraft, EmailNode, EmailReturns
  <1>11. CASE EmailNotApproved
    <2> DEFINE p == ck.pending_interrupt
               asked == AsksToSend(ck, p.draft)
    <2>1. "email" \in Specialists /\ "email" \notin ck.visited_agents
      BY <1>11, ResumeNodes, RunningUnvisited, Constants
      DEF EmailNotApproved, ApprovalPending, FreshOrResumed
    <2>2. /\ p \in PendingInterrupt /\ p.type = "email_approval"
          /\ p.id \in Nat /\ p.draft \in Drafts \cup {"none"}
      BY <1>11, InvFacts
      DEF EmailNotApproved, ApprovalPending, Good, MultiAgentState, PendingInterrupt
    <2>3. ApprovalId(ck, p.draft) = p.id /\ Approval(p.id, p.draft) = p
      BY <2>2 DEF ApprovalId, Approval, PendingInterrupt
    <2>4. KeepsOrDrops(ck, asked)
      BY <2>1, <2>2, <2>3, InvFacts, AsksToSendGood DEF KeepsOrDrops
    <2>5. KeepsOrDrops(ck, Ended(ck, "email", "cancelled"))
      BY <2>1, InvFacts, EndedEvolves, EvolvesKeepsOrDrops
    <2> QED
      BY <1>11, <2>4, <2>5
      DEF EmailNotApproved, ApprovalPending, EmailCancelled, EmailReturns, Move, NoMail
  <1>12. CASE Reply
    BY <1>12 DEF Reply, NoMail, KeepsOrDrops
  <1>13. CASE User
    BY <1>1, <1>2, <1>13 DEF User
  <1> QED
    BY <1>3, <1>4, <1>5, <1>6, <1>7, <1>8, <1>9, <1>10, <1>11, <1>12, <1>13

\* A fresh approval id has never been sent, and a draft asked for again keeps its own.
LEMMA EmailDraftedDelivers == ASSUME Deliveries, IInv', EmailDrafted PROVE Deliveries'
  <1>1. /\ IInv /\ FaultStep /\ UNCHANGED <<cache, outbox>>
        /\ node \in FreshOrResumed("email")
    BY DEF Deliveries, EmailDrafted, EmailNode, FaultStep
  <1>2. PICK e \in Drafts : ck' = AsksToSend(ck, e) /\ prev' = ck
    BY DEF EmailDrafted, EmailReturns, Move
  <1> DEFINE p == ck.pending_interrupt
             i == ApprovalId(ck, e)
  <1>3. "email" \notin ck.visited_agents /\ node # "email_accepted"
    BY <1>1, RunningUnvisited, Constants DEF FreshOrResumed, ResumeNode
  <1>4. ck'.pending_interrupt = Approval(i, e)
    BY <1>1, <1>2, <1>3, InvFacts, ApprovalIdType, AsksToSendGood
  <1>5. CASE p.type = "email_approval" /\ p.draft = e
    <2>1. p \in PendingInterrupt
      BY <1>1, InvFacts DEF Good, MultiAgentState
    <2>2. i = p.id /\ Approval(p.id, e) = p
      BY <1>5, <2>1 DEF ApprovalId, Approval, PendingInterrupt
    <2>3. KeepsOrDrops(ck, ck')
      BY <1>4, <2>2 DEF KeepsOrDrops
    <2> QED
      BY <1>1, <1>2, <1>3, <2>3, QuietKeepsDeliveries
  <1>6. CASE ~(p.type = "email_approval" /\ p.draft = e)
    <2>1. i = Len(issued) + 1
      BY <1>6 DEF ApprovalId
    <2>2. Approval(i, e).id = i
      BY DEF Approval
    <2>3. Len(issued) + 1 \notin DOMAIN issued
      <3>1. issued \in Seq(Drafts)
        BY <1>1 DEF IInv, TypeOK
      <3> QED
        BY <3>1
    <2>4. \A j \in DOMAIN outbox : outbox[j].id \in DOMAIN issued
      BY <1>1 DEF IInv, ApprovalBindsDraft, DraftOf
    <2>5. ~Sent(ck)'
      BY <1>1, <1>4, <2>1, <2>2, <2>3, <2>4 DEF Sent
    <2>6. \A K : Calm(K)' => Calm(K)
      BY <1>1, CalmBefore DEF FaultStep
    <2>7. Recorded(ck) => Recorded(prev)'
      BY <1>1, <1>2 DEF Recorded, Sent
    <2>8. AtMostOncePerApproval => AtMostOncePerApproval'
      BY <1>1 DEF AtMostOncePerApproval
    <2> QED
      BY <1>3, <2>5, <2>6, <2>7, <2>8 DEF Deliveries, SentOnce, SentIsRecorded, Recorded
  <1> QED
    BY <1>5, <1>6

\* Ending or failing the email specialist leaves no approval pending.
LEMMA EmailOver ==
  ASSUME NEW c \in MultiAgentState,
         NEW d \in {Ended(c, "email", "completed"), SpecialistFailure(c, "email")}
  PROVE  d.pending_interrupt = NoPending
  BY DEF Ended, SpecialistFailure, MultiAgentState

\* Only an approval that was not sent is accepted.
LEMMA SendApprovedEmailDelivers == ASSUME Deliveries, IInv', SendApprovedEmail PROVE Deliveries'
  <1> DEFINE p == ck.pending_interrupt
  <1>1. /\ IInv /\ FaultStep /\ node # "email_accepted" /\ UNCHANGED cache
        /\ ck \in MultiAgentState /\ p.type = "email_approval"
    BY DEF Deliveries, SendApprovedEmail, ApprovalPending, FaultStep, IInv, TypeOK
  <1>2. ASSUME NEW d \in {Ended(ck, "email", "completed"), SpecialistFailure(ck, "email")},
               EmailReturns(d), UNCHANGED outbox
        PROVE  Deliveries'
    <2>1. KeepsOrDrops(ck, d)
      BY <1>1, EmailOver, Constants DEF KeepsOrDrops
    <2> QED
      BY <1>1, <1>2, <2>1, QuietKeepsDeliveries DEF EmailReturns, Move
  <1>3. CASE /\ ~Replayable(p) /\ outbox' = Append(outbox, Delivery(p))
             /\ node' = "email_accepted"
    <2>1. \A K : Calm(K)' => Calm(K)
      BY <1>1, CalmBefore DEF FaultStep
    <2>2. AtMostOncePerApproval /\ ~Sent(ck) => AtMostOncePerApproval'
      <3> SUFFICES ASSUME AtMostOncePerApproval, ~Sent(ck) PROVE AtMostOncePerApproval'
        OBVIOUS
      <3>1. outbox \in Seq(Delivered) /\ Delivery(p).id = p.id
        BY <1>1 DEF IInv, TypeOK, Delivery
      <3>2. \A i \in DOMAIN outbox : outbox[i].id # p.id
        BY <1>1 DEF Sent
      <3>3. \A i \in DOMAIN outbox' : \/ i \in DOMAIN outbox /\ outbox'[i] = outbox[i]
                                      \/ i = Len(outbox) + 1 /\ outbox'[i] = Delivery(p)
        <4>1. Delivery(p) \in Delivered
          BY <1>1, DeliverySound
        <4> QED
          BY <1>3, <3>1, <4>1
      <3> QED
        BY <3>1, <3>2, <3>3 DEF AtMostOncePerApproval
    <2>3. Recorded(ck) => ~Sent(ck)
      BY <1>1, <1>3 DEF Recorded, Replayable, IInv, TypeOK
    <2> QED
      BY <1>1, <1>3, <2>1, <2>2, <2>3 DEF Deliveries, SentOnce, SentIsRecorded
  <1> QED
    BY <1>2, <1>3 DEF SendApprovedEmail, MessageAccepted

\* The accepted approval is no longer pending, and recorded unless the call raised.
LEMMA EmailAcceptedDelivers == ASSUME Deliveries, IInv', EmailAccepted PROVE Deliveries'
  <1> DEFINE e == Delivery(ck.pending_interrupt)
  <1>1. /\ IInv /\ FaultStep /\ node = "email_accepted" /\ UNCHANGED outbox
        /\ ck \in MultiAgentState /\ worker \in Workers /\ cache \in [Workers -> SUBSET Delivered]
    BY DEF Deliveries, EmailAccepted, FaultStep, FaultKinds, IInv, TypeOK
  <1>2. PICK d \in {Ended(ck, "email", "completed"), SpecialistFailure(ck, "email")} :
          ck' = d /\ prev' = ck
    BY DEF EmailAccepted, EmailReturns, Move
  <1>3. ~Sent(ck)'
    BY <1>1, <1>2, EmailOver, Constants DEF Sent
  <1>4. \A K : Calm(K)' => Calm(K)
    BY <1>1, CalmBefore DEF FaultStep
  <1>5. AtMostOncePerApproval => AtMostOncePerApproval'
    BY <1>1 DEF AtMostOncePerApproval
  <1>6. SoleWorker /\ Calm({"restart", "lost_ack"})' => Recorded(prev)'
    <2> SUFFICES ASSUME SoleWorker, Calm({"restart", "lost_ack"})' PROVE Recorded(prev)'
      OBVIOUS
    <2>1. ~Fault("lost_ack")
      BY <1>1, FaultHappens DEF FaultKinds
    <2>2. cache' = [cache EXCEPT ![worker] = @ \cup {e}]
      BY <2>1 DEF EmailAccepted
    <2>3. \A w \in Workers : e \in cache'[w]
      BY <1>1, <2>2 DEF SoleWorker
    <2> QED
      BY <1>2, <2>3 DEF Recorded
  <1> QED
    BY <1>3, <1>4, <1>5, <1>6 DEF Deliveries, SentOnce, SentIsRecorded, Recorded

\* An aborted turn falls back to one of two checkpoints; both are recorded.
LEMMA AbortDelivers == ASSUME Deliveries, IInv', Abort PROVE Deliveries'
  <1>1. /\ IInv /\ FaultStep /\ node # "email_accepted" /\ UNCHANGED <<cache, outbox>>
        /\ ck' \in {ck, prev} /\ prev' = ck'
    BY DEF Deliveries, Abort, CutShort, NoMail, FaultStep, FaultKinds
  <1>2. ~Calm(Cuts)'
    BY <1>1, FaultHappens DEF Abort, Cuts, FaultKinds
  <1>3. \A K : Calm(K)' => Calm(K)
    BY <1>1, CalmBefore DEF FaultStep
  <1>4. Recorded(ck) /\ Recorded(prev) => Recorded(ck)' /\ Recorded(prev)'
    BY <1>1 DEF Recorded, Sent
  <1>5. AtMostOncePerApproval => AtMostOncePerApproval'
    BY <1>1 DEF AtMostOncePerApproval
  <1> QED
    BY <1>1, <1>2, <1>3, <1>4, <1>5 DEF Deliveries, SentIsRecorded

\* A restart ends both promises.
LEMMA RestartDelivers == ASSUME Deliveries, IInv', Restart PROVE Deliveries'
  <1>1. ~Calm(Cuts)' /\ ~Calm({"restart", "lost_ack"})'
    BY FaultHappens DEF Deliveries, Restart, Cuts, FaultKinds
  <1> QED
    BY <1>1 DEF Deliveries

LEMMA InitDeliveries == Init => Deliveries
  <1> SUFFICES ASSUME Init PROVE Deliveries
    OBVIOUS
  <1>1. IInv
    BY InitInv
  <1>2. AtMostOncePerApproval /\ ~Sent(ck) /\ ~Sent(prev)
    BY DEF Init, AtMostOncePerApproval, Sent
  <1> QED
    BY <1>1, <1>2 DEF Deliveries, SentOnce, SentIsRecorded, Recorded

LEMMA NextDeliveries == Deliveries /\ [Next]_vars => Deliveries'
  <1> SUFFICES ASSUME Deliveries, [Next]_vars PROVE Deliveries'
    OBVIOUS
  <1>1. IInv /\ IInv'
    BY NextInv DEF Deliveries
  <1>2. CASE User \/ Gate \/ Supervise \/ Finish
             \/ (\E a \in {"utility", "general"} : Specialist(a))
             \/ Knowledge \/ ContinueCurrentTask \/ SwitchToNewRequest
             \/ EmailWithoutDraft \/ EmailNotApproved \/ Reply
    <2>1. /\ node # "email_accepted" /\ KeepsOrDrops(ck, ck') /\ prev' \in {ck, ck'}
          /\ UNCHANGED <<outbox, cache>> /\ FaultStep
      BY <1>1, <1>2, QuietSteps
    <2> QED
      BY <1>1, <2>1, QuietKeepsDeliveries
  <1>3. CASE EmailDrafted \/ SendApprovedEmail \/ EmailAccepted
    BY <1>1, <1>3, EmailDraftedDelivers, SendApprovedEmailDelivers, EmailAcceptedDelivers
  <1>4. CASE Abort \/ Restart
    BY <1>1, <1>4, AbortDelivers, RestartDelivers
  <1>5. CASE UNCHANGED vars
    <2>1. UNCHANGED <<ck, prev, node, cache, outbox, faults>>
      BY <1>5 DEF vars
    <2>2. \A K : Calm(K)' <=> Calm(K)
      BY <2>1 DEF Calm, Happened
    <2>3. AtMostOncePerApproval' <=> AtMostOncePerApproval
      BY <2>1 DEF AtMostOncePerApproval
    <2>4. /\ Sent(ck)' <=> Sent(ck)
          /\ Recorded(ck) => Recorded(ck)'
          /\ Recorded(prev) => Recorded(prev)'
      BY <2>1 DEF Recorded, Sent
    <2> QED
      BY <1>1, <2>1, <2>2, <2>3, <2>4 DEF Deliveries, SentOnce, SentIsRecorded
  <1> QED
    BY <1>2, <1>3, <1>4, <1>5 DEF Next, Step

\* Of finitely many workers, no more than one leaves no two to tell apart.
LEMMA OneWorkerIsSole == ~(Cardinality(Workers) > 1) => SoleWorker
  <1> SUFFICES ASSUME NEW v \in Workers, NEW w \in Workers, v # w
               PROVE  Cardinality(Workers) > 1
    BY DEF SoleWorker
  <1>1. IsFiniteSet({v}) /\ Cardinality({v}) = 1
    BY FS_Singleton
  <1>2. Cardinality({v} \cup {w}) = 2
    BY <1>1, FS_AddElement
  <1>3. {v} \cup {w} \subseteq Workers
    OBVIOUS
  <1>4. Cardinality({v} \cup {w}) <= Cardinality(Workers) /\ Cardinality(Workers) \in Nat
    BY <1>3, WorkersFinite, FS_Subset, FS_CardinalityType
  <1> QED
    BY <1>2, <1>4

\* An approved email is sent twice only after a worker lost its memory, or after a
\* turn cut short brought an approval back where its delivery is not recorded.
THEOREM DuplicatesNeedLostCache == Spec => []DuplicateNeedsLostCache
  <1>1. Spec => []Deliveries
    BY InitDeliveries, NextDeliveries, PTL DEF Spec
  <1>2. Deliveries => DuplicateNeedsLostCache
    BY OneWorkerIsSole
    DEF Deliveries, SentOnce, SentIsRecorded, Calm, Cuts, DuplicateNeedsLostCache
  <1> QED
    BY <1>1, <1>2, PTL

-----------------------------------------------------------------------------
(* A turn ends *)

\* The nodes whose outgoing edge is END, and those that run a specialist, of which
\* the one that may send an email takes a step more.
LastNodes == {"supervisor_clarification", "request_switch_confirmation",
              "continue_current_task", "rejection", "failure"}
AgentRuns == Specialists \cup {"resume_knowledge", "resume_utility", "resume_general"}

LongestTurn == 12

\* The number of steps a turn may still take when it is at node n with state c: a
\* specialist and a supervisor for every handoff that is left, and what follows.
StepsLeft(c, n) ==
    LET handoffs == DefaultMaxHandoffs - c.handoff_count
    IN  CASE n = "idle" -> 0
          [] n = "reply" -> 1
          [] n \in LastNodes -> 2
          [] n = "email_accepted" -> 3
          [] n \in AgentRuns -> 3 + 2 * handoffs
          [] n \in {"resume_email", "supervisor"} -> 4 + 2 * handoffs
          [] n = "resume_supervisor" -> 10
          [] n = "switch_to_new_request" -> 11
          [] n = "conversation_gate" -> LongestTurn

LEMMA StepsLeftValues ==
  ASSUME NEW c
  PROVE  /\ StepsLeft(c, "idle") = 0 /\ StepsLeft(c, "reply") = 1
         /\ \A n \in LastNodes : StepsLeft(c, n) = 2
         /\ StepsLeft(c, "email_accepted") = 3
         /\ \A n \in AgentRuns : StepsLeft(c, n) = 3 + 2 * (3 - c.handoff_count)
         /\ \A n \in {"resume_email", "supervisor"} :
               StepsLeft(c, n) = 4 + 2 * (3 - c.handoff_count)
         /\ StepsLeft(c, "resume_supervisor") = 10
         /\ StepsLeft(c, "switch_to_new_request") = 11
         /\ StepsLeft(c, "conversation_gate") = 12
  BY DEF StepsLeft, LastNodes, AgentRuns, Specialists, LongestTurn, DefaultMaxHandoffs

\* Every node is in one of these groups.
LEMMA TurnNodes ==
  Nodes \cup {"idle", "reply", "email_accepted"} =
    LastNodes \cup AgentRuns
      \cup {"idle", "reply", "email_accepted", "resume_email", "supervisor",
            "resume_supervisor", "switch_to_new_request", "conversation_gate"}
  BY DEF Nodes, LastNodes, AgentRuns, Specialists

\* The step from node n with state c to node m with state d.
LeadsOn(c, n, d, m) ==
    \/ m = "idle" /\ n # "idle"
    \/ n \in LastNodes /\ m = "reply"
    \/ n = "email_accepted" /\ m \in LastNodes \cup {"reply"}
    \/ n = "resume_email" /\ m = "email_accepted"
    \/ n \in AgentRuns \cup {"resume_email"} /\ m \in LastNodes \cup {"reply"}
    \/ n \in AgentRuns \cup {"resume_email"} /\ m = "supervisor"
         /\ d.handoff_count = c.handoff_count + 1
    \/ n = "supervisor" /\ m \in Specialists \cup LastNodes /\ d.handoff_count = c.handoff_count
    \/ n = "resume_supervisor" /\ m \in Specialists \cup LastNodes
    \/ n = "switch_to_new_request" /\ m = "supervisor"
    \/ n = "conversation_gate" /\ m \notin {"idle", "conversation_gate"}

\* The specialists that handed a task off are at most as many as may.
LEMMA HandoffsBounded ==
  ASSUME NEW c, Good(c)
  PROVE  c.handoff_count \in Nat /\ c.handoff_count <= 3
  <1>1. c.handoff_count = Cardinality(c.visited_agents) /\ c.visited_agents \subseteq HandsOff
    BY DEF Good, VisitsSound
  <1>2. IsFiniteSet({"utility"}) /\ Cardinality({"utility"}) = 1
    BY FS_Singleton
  <1>3. /\ IsFiniteSet({"utility"} \cup {"general"})
        /\ Cardinality({"utility"} \cup {"general"}) = 2
    BY <1>2, FS_AddElement
  <1>4. Cardinality(({"utility"} \cup {"general"}) \cup {"email"}) = 3
    BY <1>3, FS_AddElement
  <1>5. HandsOff = ({"utility"} \cup {"general"}) \cup {"email"}
    BY DEF HandsOff
  <1>6. IsFiniteSet(HandsOff)
    BY HandsOffFinite
  <1>7. Cardinality(c.visited_agents) \in Nat /\ Cardinality(c.visited_agents) <= Cardinality(HandsOff)
    BY <1>1, <1>6, FS_Subset, FS_CardinalityType
  <1> QED
    BY <1>1, <1>4, <1>5, <1>7

LEMMA StepsLeftBounded ==
  ASSUME NEW c, Good(c), NEW n \in Nodes \cup {"idle", "reply", "email_accepted"}
  PROVE  /\ StepsLeft(c, n) \in 0 .. LongestTurn
         /\ StepsLeft(c, n) = 0 <=> n = "idle"
         /\ n # "conversation_gate" => StepsLeft(c, n) <= 11
  <1> DEFINE h == c.handoff_count
  <1>1. h \in Nat /\ h <= 3
    BY HandoffsBounded
  <1> HIDE DEF h
  <1>2. /\ 3 + 2 * (3 - h) \in 3 .. 9 /\ 4 + 2 * (3 - h) \in 4 .. 10
    BY <1>1
  <1>3. CASE n = "idle"
    BY <1>3, StepsLeftValues DEF LongestTurn
  <1>4. CASE n \in AgentRuns
    <2>1. StepsLeft(c, n) \in 3 .. 9
      BY <1>2, <1>4, StepsLeftValues DEF h
    <2>2. n # "idle"
      BY <1>4 DEF AgentRuns, Specialists
    <2> QED
      BY <2>1, <2>2 DEF LongestTurn
  <1>5. CASE n \in {"resume_email", "supervisor"}
    <2>1. StepsLeft(c, n) \in 4 .. 10
      BY <1>2, <1>5, StepsLeftValues DEF h
    <2> QED
      BY <2>1, <1>5 DEF LongestTurn
  <1>6. CASE n \in LastNodes
    <2>1. n # "idle" /\ n # "conversation_gate"
      BY <1>6 DEF LastNodes
    <2> QED
      BY <1>6, <2>1, StepsLeftValues DEF LongestTurn
  <1>7. CASE n \in {"reply", "email_accepted", "resume_supervisor", "switch_to_new_request",
                    "conversation_gate"}
    BY <1>7, StepsLeftValues DEF LongestTurn
  <1> QED
    BY <1>3, <1>4, <1>5, <1>6, <1>7, TurnNodes

\* Whatever follows, fewer steps are left.
LEMMA LeadsOnDescends ==
  ASSUME NEW c, Good(c), NEW n \in Nodes \cup {"idle", "reply", "email_accepted"},
         NEW d, Good(d), NEW m \in Nodes \cup {"idle", "reply", "email_accepted"},
         LeadsOn(c, n, d, m)
  PROVE  StepsLeft(d, m) < StepsLeft(c, n)
  <1> DEFINE h == c.handoff_count
             k == d.handoff_count
  <1>1. h \in Nat /\ h <= 3 /\ k \in Nat /\ k <= 3
    BY HandoffsBounded
  <1>2. /\ StepsLeft(c, n) \in Nat /\ StepsLeft(d, m) \in Nat
        /\ StepsLeft(c, n) = 0 <=> n = "idle"
        /\ m # "conversation_gate" => StepsLeft(d, m) <= 11
    BY StepsLeftBounded DEF LongestTurn
  <1>3. /\ m \in Specialists => m \in AgentRuns
        /\ m \in LastNodes \cup {"reply", "email_accepted"} => StepsLeft(d, m) <= 3
        /\ m \in LastNodes \cup {"reply"} => StepsLeft(d, m) <= 2
        /\ m \in AgentRuns => StepsLeft(d, m) = 3 + 2 * (3 - k)
        /\ m = "supervisor" => StepsLeft(d, m) = 4 + 2 * (3 - k)
        /\ n \in AgentRuns => StepsLeft(c, n) = 3 + 2 * (3 - h)
        /\ n \in {"resume_email", "supervisor"} => StepsLeft(c, n) = 4 + 2 * (3 - h)
    <2>1. Specialists \subseteq AgentRuns
      BY DEF AgentRuns
    <2> QED
      BY <2>1, StepsLeftValues
  <1> HIDE DEF h, k
  <1>4. CASE m = "idle" /\ n # "idle"
    <2>1. StepsLeft(d, m) = 0
      BY <1>4, StepsLeftValues
    <2> QED
      BY <1>2, <1>4, <2>1
  <1>5. CASE n \in LastNodes /\ m = "reply"
    <2>1. StepsLeft(c, n) = 2 /\ StepsLeft(d, m) = 1
      BY <1>5, StepsLeftValues
    <2> QED
      BY <2>1
  <1>6. CASE n = "email_accepted" /\ m \in LastNodes \cup {"reply"}
    <2>1. StepsLeft(c, n) = 3
      BY <1>6, StepsLeftValues
    <2> QED
      BY <1>2, <1>3, <1>6, <2>1
  <1>7. CASE n = "resume_email" /\ m = "email_accepted"
    <2>1. StepsLeft(c, n) = 4 + 2 * (3 - h) /\ StepsLeft(d, m) <= 3
      BY <1>3, <1>7
    <2> QED
      BY <1>1, <1>2, <2>1
  <1>8. CASE n \in AgentRuns \cup {"resume_email"} /\ m \in LastNodes \cup {"reply"}
    <2>1. /\ StepsLeft(c, n) \in {3 + 2 * (3 - h), 4 + 2 * (3 - h)}
          /\ StepsLeft(d, m) <= 2
      BY <1>3, <1>8
    <2> QED
      BY <1>1, <1>2, <2>1
  <1>9. CASE n \in AgentRuns \cup {"resume_email"} /\ m = "supervisor" /\ k = h + 1
    <2>1. /\ StepsLeft(c, n) \in {3 + 2 * (3 - h), 4 + 2 * (3 - h)}
          /\ StepsLeft(d, m) = 4 + 2 * (3 - k)
      BY <1>3, <1>9
    <2> QED
      BY <1>1, <1>9, <2>1
  <1>10. CASE n = "supervisor" /\ m \in Specialists \cup LastNodes /\ k = h
    <2>1. /\ StepsLeft(c, n) = 4 + 2 * (3 - h)
          /\ StepsLeft(d, m) = 3 + 2 * (3 - k) \/ StepsLeft(d, m) <= 2
      BY <1>3, <1>10
    <2> QED
      BY <1>1, <1>2, <1>10, <2>1
  <1>11. CASE n = "resume_supervisor" /\ m \in Specialists \cup LastNodes
    <2>1. /\ StepsLeft(c, n) = 10
          /\ StepsLeft(d, m) = 3 + 2 * (3 - k) \/ StepsLeft(d, m) <= 2
      BY <1>3, <1>11, StepsLeftValues
    <2> QED
      BY <1>1, <1>2, <2>1
  <1>12. CASE n = "switch_to_new_request" /\ m = "supervisor"
    <2>1. StepsLeft(c, n) = 11 /\ StepsLeft(d, m) = 4 + 2 * (3 - k)
      BY <1>3, <1>12, StepsLeftValues
    <2> QED
      BY <1>1, <2>1
  <1>13. CASE n = "conversation_gate" /\ m \notin {"idle", "conversation_gate"}
    <2>1. StepsLeft(c, n) = 12 /\ StepsLeft(d, m) <= 11
      BY <1>2, <1>13, StepsLeftValues
    <2> QED
      BY <1>2, <2>1
  <1> QED
    BY <1>4, <1>5, <1>6, <1>7, <1>8, <1>9, <1>10, <1>11, <1>12, <1>13 DEF LeadsOn, h, k

\* What a specialist's update and the router that reads it make of a turn.
Follows(c, d, next) ==
    \/ next \in {"failure", "reply"}
    \/ next = "supervisor" /\ d.handoff_count = c.handoff_count + 1

\* Only an update that leaves the task running sends it back to the supervisor.
LEMMA AnsweredFollows ==
  ASSUME NEW c, NEW d, NEW a, d.task_status # "running"
  PROVE  Follows(c, d, SpecialistDestination(d, a))
  BY DEF Follows, SpecialistDestination

LEMMA HandoffFollows ==
  ASSUME NEW c \in MultiAgentState, NEW a
  PROVE  Follows(c, HandoffUpdate(c, a), SpecialistDestination(HandoffUpdate(c, a), a))
  <1>1. CASE c.handoff_count + 1 > DefaultMaxHandoffs
    <2>1. FailureKeepingTask(c, a).task_status = "failed"
      BY DEF FailureKeepingTask, MultiAgentState
    <2> QED
      BY <1>1, <2>1, AnsweredFollows DEF HandoffUpdate
  <1>2. CASE ~(c.handoff_count + 1 > DefaultMaxHandoffs)
    <2> DEFINE d == HandedOff(c, a)
    <2>1. d.handoff_count = c.handoff_count + 1
      BY DEF HandedOff, HandoffRecorded, MultiAgentState
    <2>2. SpecialistDestination(d, a) \in {"failure", "reply", "supervisor"}
      BY DEF SpecialistDestination
    <2> QED
      BY <1>2, <2>1, <2>2 DEF HandoffUpdate, Follows
  <1> QED
    BY <1>1, <1>2

LEMMA PausedFollows ==
  ASSUME NEW c \in MultiAgentState, NEW a, NEW p, NEW r, NEW b,
         NEW d \in {Paused(c, b, p, r), [Paused(c, b, p, r) EXCEPT !.handoff_reason = FALSE]}
  PROVE  Follows(c, d, SpecialistDestination(d, a))
  <1>1. d.task_status = "waiting_for_user"
    BY DEF Paused, MultiAgentState
  <1> QED
    BY <1>1, AnsweredFollows

LEMMA OverFollows ==
  ASSUME NEW c \in MultiAgentState, NEW a, NEW s \in {"completed", "cancelled"},
         NEW d \in {SpecialistFailure(c, a), FailureKeepingTask(c, a), Ended(c, a, s)}
  PROVE  Follows(c, d, SpecialistDestination(d, a))
  <1>1. d.task_status # "running"
    BY DEF SpecialistFailure, FailureKeepingTask, Ended, MultiAgentState
  <1> QED
    BY <1>1, AnsweredFollows

LEMMA SpecialistResultFollows ==
  ASSUME NEW c \in MultiAgentState, NEW a, NEW resumed,
         NEW d \in SpecialistResults(c, a, resumed)
  PROVE  Follows(c, d, SpecialistDestination(d, a))
  <1>1. d \in {SpecialistFailure(c, a), SpecialistAsks(c, a), HandoffUpdate(c, a),
               Ended(c, a, "completed")}
    BY DEF SpecialistResults
  <1>2. CASE d = SpecialistAsks(c, a)
    BY <1>2, PausedFollows DEF SpecialistAsks
  <1> QED
    BY <1>1, <1>2, OverFollows, HandoffFollows

\* The step of a specialist leads on.
LEMMA AgentLeadsOn ==
  ASSUME IInv, node \in AgentRuns \cup {"resume_email"}, NEW d, NEW a,
         Follows(ck, d, SpecialistDestination(d, a)), Move(d, SpecialistDestination(d, a))
  PROVE  LeadsOn(ck, node, ck', node')
  <1>1. "failure" \in LastNodes
    BY DEF LastNodes
  <1> QED
    BY <1>1 DEF Follows, LeadsOn, Move

LEMMA SpecialistLeadsOn ==
  ASSUME IInv, NEW a \in {"utility", "general"}, Specialist(a)
  PROVE  LeadsOn(ck, node, ck', node')
  <1>1. node \in AgentRuns
    BY DEF Specialist, FreshOrResumed, ResumeNode, AgentRuns, Specialists
  <1> QED
    BY <1>1, InvFacts, SpecialistResultFollows, AgentLeadsOn DEF Specialist, Good

LEMMA KnowledgeLeadsOn == ASSUME IInv, Knowledge PROVE LeadsOn(ck, node, ck', node')
  <1>1. node \in AgentRuns
    BY DEF Knowledge, FreshOrResumed, ResumeNode, AgentRuns, Specialists
  <1>2. PICK d \in {FailureKeepingTask(ck, "knowledge"), KnowledgeAsks(ck),
                    Ended(ck, "knowledge", "completed")} :
          Move(d, SpecialistDestination(d, "knowledge"))
    BY DEF Knowledge, KnowledgeCompletes, KnowledgeReturns
  <1>3. ck \in MultiAgentState
    BY InvFacts DEF Good
  <1>4. Follows(ck, KnowledgeAsks(ck), SpecialistDestination(KnowledgeAsks(ck), "knowledge"))
    BY <1>3, PausedFollows DEF KnowledgeAsks
  <1> QED
    BY <1>1, <1>2, <1>3, <1>4, OverFollows, AgentLeadsOn

LEMMA EmailLeadsOn ==
  ASSUME IInv, EmailWithoutDraft \/ EmailDrafted \/ EmailNotApproved \/ SendApprovedEmail
  PROVE  LeadsOn(ck, node, ck', node')
  <1>1. node \in AgentRuns \cup {"resume_email"}
    BY DEF EmailWithoutDraft, EmailDrafted, EmailNotApproved, SendApprovedEmail, EmailNode,
           ApprovalPending, FreshOrResumed, ResumeNode, AgentRuns, Specialists
  <1>2. ck \in MultiAgentState
    BY InvFacts DEF Good
  <1>3. \A e : Follows(ck, AsksToSend(ck, e), SpecialistDestination(AsksToSend(ck, e), "email"))
    BY <1>2, PausedFollows DEF AsksToSend
  <1>4. CASE EmailWithoutDraft
    BY <1>1, <1>2, <1>4, SpecialistResultFollows, AgentLeadsOn
    DEF EmailWithoutDraft, EmailReturns
  <1>5. CASE EmailDrafted
    BY <1>1, <1>3, <1>5, AgentLeadsOn DEF EmailDrafted, EmailReturns
  <1>6. CASE EmailNotApproved
    BY <1>1, <1>2, <1>3, <1>6, OverFollows, AgentLeadsOn
    DEF EmailNotApproved, EmailCancelled, EmailReturns
  <1>7. CASE SendApprovedEmail
    <2>1. CASE node' = "email_accepted"
      BY <1>7, <2>1 DEF SendApprovedEmail, ApprovalPending, LeadsOn
    <2>2. CASE node' # "email_accepted"
      <3>1. PICK d \in {Ended(ck, "email", "completed"), SpecialistFailure(ck, "email")} :
              EmailReturns(d)
        BY <1>7, <2>2 DEF SendApprovedEmail
      <3> QED
        BY <1>1, <1>2, <3>1, OverFollows, AgentLeadsOn DEF EmailReturns
    <2> QED
      BY <2>1, <2>2
  <1> QED
    BY <1>4, <1>5, <1>6, <1>7

LEMMA EmailAcceptedLeadsOn == ASSUME IInv, EmailAccepted PROVE LeadsOn(ck, node, ck', node')
  <1>1. PICK d \in {Ended(ck, "email", "completed"), SpecialistFailure(ck, "email")} :
          Move(d, SpecialistDestination(d, "email"))
    BY DEF EmailAccepted, EmailReturns
  <1>2. d.task_status # "running"
    BY <1>1, InvFacts DEF Good, Ended, SpecialistFailure, MultiAgentState
  <1>3. SpecialistDestination(d, "email") \in {"failure", "reply"}
    BY <1>2 DEF SpecialistDestination
  <1>4. node = "email_accepted" /\ "failure" \in LastNodes
    BY DEF EmailAccepted, LastNodes
  <1> QED
    BY <1>1, <1>3, <1>4 DEF LeadsOn, Move

\* The supervisor takes a decision and keeps the count of handoffs.
LEMMA SuperviseLeadsOn == ASSUME IInv, IInv', Supervise PROVE LeadsOn(ck, node, ck', node')
  <1>1. PICK d \in IF node = "supervisor" THEN SupervisorResults(ck)
                                          ELSE SupervisorResumeResults(ck) :
          Move(d, SupervisorDestination(d))
    BY DEF Supervise
  <1>2. d = ck' /\ Good(d)
    BY <1>1 DEF Move, IInv, TypeOK, PendingTaskWellFormed, VisitedMatchesCount, Good
  <1>3. d.supervisor_decision \in Routes \cup {"none"}
    BY <1>2 DEF Good, MultiAgentState
  <1>4. SupervisorDestination(d) \in Specialists \cup LastNodes
    BY <1>3 DEF SupervisorDestination, Routes, LastNodes
  <1>5. CASE node = "supervisor"
    <2>1. d = SupervisorFailure(ck) \/ \E r : d = Decided(ck, r)
      BY <1>1, <1>5 DEF SupervisorResults, ClarificationFallback
    <2>2. d.handoff_count = ck.handoff_count
      BY <2>1, InvFacts DEF SupervisorFailure, Decided, Good, MultiAgentState
    <2> QED
      BY <1>1, <1>4, <1>5, <2>2 DEF LeadsOn, Move
  <1>6. CASE node = "resume_supervisor"
    BY <1>1, <1>4, <1>6 DEF LeadsOn, Move
  <1> QED
    BY <1>5, <1>6 DEF Supervise

LEMMA GateLeadsOn == ASSUME IInv, Gate PROVE LeadsOn(ck, node, ck', node')
  <1>1. /\ node = "conversation_gate" /\ node' = GateDestination(ck)
    BY DEF Gate, Move
  <1>2. /\ GateDestination(ck) \in Interrupted \cup Resuming \cup {"rejection", "supervisor"}
    BY InvFacts, GateCases
  <1>3. \A m \in Interrupted \cup Resuming \cup {"rejection", "supervisor"} :
           m \notin {"idle", "conversation_gate"}
    BY DEF Interrupted, Resuming
  <1> QED
    BY <1>1, <1>2, <1>3 DEF LeadsOn

\* Every step of a turn leads on.
LEMMA TurnLeadsOn ==
  ASSUME IInv, IInv', Next, node # "idle"
  PROVE  LeadsOn(ck, node, ck', node')
  <1>1. ASSUME User PROVE FALSE
    BY <1>1 DEF User, Chat, Resume, Begin
  <1>2. CASE Finish \/ ContinueCurrentTask
    BY <1>2 DEF Finish, ContinueCurrentTask, Move, LeadsOn, LastNodes
  <1>3. CASE SwitchToNewRequest
    BY <1>3 DEF SwitchToNewRequest, Move, LeadsOn
  <1>4. CASE Reply \/ Abort \/ Restart
    BY <1>4 DEF Reply, Abort, Restart, CutShort, LeadsOn
  <1> QED
    BY <1>1, <1>2, <1>3, <1>4, GateLeadsOn, SuperviseLeadsOn, SpecialistLeadsOn,
       KnowledgeLeadsOn, EmailLeadsOn, EmailAcceptedLeadsOn
    DEF Next, Step

\* Every step of a turn, whatever fails in it, leaves fewer steps to take: handoffs,
\* resumed questions and confirmed switches cannot keep the graph running.
THEOREM TurnsDescend == Spec => [][node # "idle" => StepsLeft(ck, node)' < StepsLeft(ck, node)]_vars
  <1>1. IInv /\ IInv' /\ [Next]_vars
          => [node # "idle" => StepsLeft(ck, node)' < StepsLeft(ck, node)]_vars
    <2> SUFFICES ASSUME IInv, IInv', Next, node # "idle"
                 PROVE  StepsLeft(ck', node') < StepsLeft(ck, node)
      OBVIOUS
    <2>1. Good(ck) /\ node \in Nodes \cup {"idle", "reply", "email_accepted"}
      BY CheckpointGood DEF IInv, TypeOK
    <2>2. Good(ck') /\ node' \in Nodes \cup {"idle", "reply", "email_accepted"}
      BY DEF IInv, TypeOK, PendingTaskWellFormed, VisitedMatchesCount, Good
    <2> QED
      BY <2>1, <2>2, TurnLeadsOn, LeadsOnDescends
  <1> QED
    BY <1>1, InvariantHolds, PTL DEF Spec

\* A turn takes at most twelve steps, the last of which is its response, so that a
\* run of the graph has at most eleven super-steps (runtime.chat and
\* runtime.resume set no recursion limit of their own).
THEOREM TurnsAreBounded ==
  Spec => [](StepsLeft(ck, node) \in 0 .. LongestTurn /\ (StepsLeft(ck, node) = 0 <=> node = "idle"))
  <1>1. IInv => StepsLeft(ck, node) \in 0 .. LongestTurn /\ (StepsLeft(ck, node) = 0 <=> node = "idle")
    BY CheckpointGood, StepsLeftBounded DEF IInv, TypeOK
  <1> QED
    BY <1>1, InvariantHolds, PTL
==============================================================================
