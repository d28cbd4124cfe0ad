----------------------- MODULE MultiAgentWorkflowProofs -----------------------
(***************************************************************************)
(* Invariants of MultiAgentWorkflow for every set of requests, drafts and  *)
(* workers, every kind and number of faults.  The inductive invariant IInv *)
(* is the conjunction of four invariants, each stated of the checkpoint    *)
(* and of the one before it, because an aborted turn may fall back to the  *)
(* latter.  Updates are shown to keep a graph state Good one by one; an    *)
(* action then only has to name the update it makes.                       *)
(***************************************************************************)
EXTENDS MultiAgentWorkflow, FiniteSetTheorems, TLAPS

IInv == TypeOK /\ PendingTaskWellFormed /\ VisitedMatchesCount /\ ApprovalBindsDraft

\* A graph state the workflow may rest in.
Good(c) == c \in MultiAgentState /\ PendingTaskSound(c) /\ VisitsSound(c)

\* An update from c to d that issues no approval.
Evolves(c, d) ==
    /\ Good(d)
    /\ d.pending_interrupt = c.pending_interrupt \/ d.pending_interrupt.type # "email_approval"

\* A node that may run on state d.
MayRun(d, next) ==
    /\ next \in Nodes \cup {"idle", "reply", "email_accepted"}
    /\ next \in Specialists => next \notin d.visited_agents
    /\ \A a \in AgentName : next = ResumeNode[a] => Waiting(d) /\ d.resume_target = a
    /\ next = "email_accepted" => d.pending_interrupt.type = "email_approval"

-----------------------------------------------------------------------------
(* Constants and helpers *)

\* The values the updates assign have the types of the fields they assign.
LEMMA Constants ==
    /\ NoPending \in PendingInterrupt /\ NoPending.type = "none"
    /\ \A t \in {"clarification", "routing_clarification"} :
          Prompt(t) \in PendingInterrupt /\ Prompt(t).type = t
    /\ \A s \in {"none", "completed", "cancelled", "failed", "rejected_running",
                 "rejected_no_task", "clarification_required",
                 "switch_confirmation_required"} : Says(s) \in Response
    /\ \A s \in {"completed", "cancelled", "failed", "rejected_running", "rejected_no_task",
                 "clarification_required", "switch_confirmation_required"} : Says(s) # NoResponse
    /\ NoResponse \in Response /\ NoMessage \in UserMessage
    /\ {"running", "failed", "waiting_for_user", "completed", "cancelled"} \subseteq TaskStatus
    /\ Specialists \subseteq AgentName /\ HandsOff \in SUBSET Specialists
    /\ "supervisor" \in AgentName /\ "supervisor" \notin Specialists /\ "none" \notin AgentName
    /\ "email" \in HandsOff /\ "knowledge" \in Specialists \ HandsOff
  BY DEF NoPending, Prompt, PendingInterrupt, NoResponse, Says, Response, NoMessage, Asked,
         UserMessage, PromptStatus, TaskStatus, Specialists, AgentName, HandsOff

\* An approval prompt and the response that shows it are well typed.
LEMMA ApprovalType ==
  ASSUME NEW i \in Nat, NEW d \in Drafts \cup {"none"}
  PROVE  /\ Approval(i, d) \in PendingInterrupt /\ Approval(i, d).type = "email_approval"
         /\ Approval(i, d).id = i /\ Approval(i, d).draft = d
         /\ AsksApproval(i, d) \in Response /\ AsksApproval(i, d) # NoResponse
  BY DEF Approval, PendingInterrupt, AsksApproval, Response, PromptStatus, NoResponse, Says

\* Cardinality counts on sets of specialists.
LEMMA HandsOffFinite == \A S \in SUBSET HandsOff : IsFiniteSet(S)
  <1>1. IsFiniteSet({"utility"})
    BY FS_Singleton
  <1>2. IsFiniteSet({"utility"} \cup {"general"})
    BY <1>1, FS_AddElement
  <1>3. IsFiniteSet(({"utility"} \cup {"general"}) \cup {"email"})
    BY <1>2, FS_AddElement
  <1>4. HandsOff = ({"utility"} \cup {"general"}) \cup {"email"}
    BY DEF HandsOff
  <1> QED
    BY <1>3, <1>4, FS_Subset

-----------------------------------------------------------------------------
(* Every update keeps a Good state Good *)

\* An update that leaves the pending task and the visits alone.
SameTask(c, d) ==
    /\ d.pending_interrupt = c.pending_interrupt /\ d.resume_target = c.resume_target
    /\ d.visited_agents = c.visited_agents /\ d.handoff_count = c.handoff_count
    /\ d.task_status = c.task_status
    /\ d.final_response = c.final_response \/ d.final_response # NoResponse

LEMMA SameTaskEvolves ==
  ASSUME NEW c, Good(c), NEW d \in MultiAgentState, SameTask(c, d)
  PROVE  Evolves(c, d)
  BY DEF SameTask, Evolves, Good, PendingTaskSound, VisitsSound, Waiting

\* FailureNode ends the task.
LEMMA FailureEvolves ==
  ASSUME NEW c, Good(c)
  PROVE  Evolves(c, FailureUpdate(c))
  BY Constants
  DEF FailureUpdate, MultiAgentState, Evolves, Good, PendingTaskSound, VisitsSound, Waiting

\* A failing supervisor fails the task and leaves the prompt.
LEMMA SupervisorFailureEvolves ==
  ASSUME NEW c, Good(c)
  PROVE  Evolves(c, SupervisorFailure(c))
  BY Constants
  DEF SupervisorFailure, MultiAgentState, Evolves, Good, PendingTaskSound, VisitsSound, Waiting

\* A failing specialist fails the task and drops the prompt.
LEMMA SpecialistFailureEvolves ==
  ASSUME NEW c, Good(c), NEW a \in Specialists
  PROVE  Evolves(c, SpecialistFailure(c, a))
  BY Constants
  DEF SpecialistFailure, MultiAgentState, Evolves, Good, PendingTaskSound, VisitsSound, Waiting

\* A failing knowledge specialist fails the task and leaves the prompt.
LEMMA FailureKeepingTaskEvolves ==
  ASSUME NEW c, Good(c), NEW a \in Specialists
  PROVE  Evolves(c, FailureKeepingTask(c, a))
  BY Constants
  DEF FailureKeepingTask, MultiAgentState, Evolves, Good, PendingTaskSound, VisitsSound, Waiting

\* A specialist that ends the task clears what waited.
LEMMA EndedEvolves ==
  ASSUME NEW c, Good(c), NEW a \in Specialists, NEW s \in {"completed", "cancelled"}
  PROVE  Evolves(c, Ended(c, a, s))
  BY ZenonT(60), Constants
  DEF Ended, MultiAgentState, Evolves, Good, PendingTaskSound, VisitsSound, Waiting

\* A routing decision makes the task run.
LEMMA DecidedEvolves ==
  ASSUME NEW c, Good(c), NEW r \in Routes
  PROVE  Evolves(c, Decided(c, r)) /\ Decided(c, r).supervisor_decision = r
         /\ Decided(c, r).visited_agents = c.visited_agents
  BY Constants
  DEF Decided, MultiAgentState, Evolves, Good, PendingTaskSound, VisitsSound, Waiting

\* Counting handoffs afresh forgets who made them.
LEMMA VisitsResetEvolves ==
  ASSUME NEW c, Good(c)
  PROVE  Evolves(c, VisitsReset(c))
  BY Constants, FS_EmptySet
  DEF VisitsReset, MultiAgentState, Evolves, Good, PendingTaskSound, VisitsSound, Waiting

\* A new task starts with no prompt and no visits.
LEMMA NewTaskEvolves ==
  ASSUME NEW c, c \in MultiAgentState
  PROVE  Evolves(c, NewTask(c))
  BY ZenonT(60), Constants, FS_EmptySet
  DEF NewTask, VisitsReset, MultiAgentState, Evolves, Good, PendingTaskSound, VisitsSound, Waiting

\* A specialist that did not hand the task off may put a question.
LEMMA PausedEvolves ==
  ASSUME NEW c, Good(c), NEW a \in Specialists, a \notin c.visited_agents
  PROVE  Evolves(c, SpecialistAsks(c, a)) /\ Evolves(c, KnowledgeAsks(c))
  <1> DEFINE p(b) == Paused(c, b, Prompt("clarification"), Says("clarification_required"))
  <1>1. ASSUME NEW b \in Specialists, b \notin c.visited_agents
        PROVE  p(b) \in MultiAgentState /\ Evolves(c, p(b))
    <2>1. p(b) \in MultiAgentState
      BY Constants DEF Paused, MultiAgentState, Good
    <2>2. /\ p(b).pending_interrupt = Prompt("clarification") /\ p(b).resume_target = b
          /\ p(b).visited_agents = c.visited_agents /\ p(b).handoff_count = c.handoff_count
      BY DEF Paused, MultiAgentState, Good
    <2> QED
      BY <1>1, <2>1, <2>2, Constants DEF Evolves, Good, PendingTaskSound, VisitsSound
  <1>2. Evolves(c, SpecialistAsks(c, a))
    <2> HIDE DEF p
    <2>1. SpecialistAsks(c, a) = [p(a) EXCEPT !.handoff_reason = FALSE]
      BY DEF SpecialistAsks, p
    <2>2. SpecialistAsks(c, a) \in MultiAgentState
      BY <1>1, <2>1 DEF MultiAgentState
    <2>3. SameTask(p(a), SpecialistAsks(c, a))
      BY <1>1, <2>1 DEF SameTask, MultiAgentState
    <2> QED
      BY <1>1, <2>2, <2>3, SameTaskEvolves DEF Evolves
  <1>3. Evolves(c, KnowledgeAsks(c))
    BY <1>1, Constants DEF KnowledgeAsks, Good, VisitsSound
  <1> QED
    BY <1>2, <1>3

\* A handoff counts the specialist that makes it once.
LEMMA HandoffEvolves ==
  ASSUME NEW c, Good(c), NEW a \in HandsOff, a \notin c.visited_agents
  PROVE  Evolves(c, HandoffUpdate(c, a))
  <1>1. CASE c.handoff_count + 1 > DefaultMaxHandoffs
    BY <1>1, FailureKeepingTaskEvolves, Constants DEF HandoffUpdate
  <1>2. CASE ~(c.handoff_count + 1 > DefaultMaxHandoffs)
    <2>1. Cardinality(c.visited_agents \cup {a}) = Cardinality(c.visited_agents) + 1
      BY HandsOffFinite, FS_AddElement DEF Good, VisitsSound
    <2>2. HandedOff(c, a) \in MultiAgentState
      <3>1. /\ c.visited_agents \cup {a} \in SUBSET Specialists
            /\ c.handoff_count + 1 \in Nat
        BY Constants DEF Good, MultiAgentState
      <3>2. HandoffRecorded(c, a) \in MultiAgentState
        BY <3>1 DEF HandoffRecorded, MultiAgentState, Good
      <3> QED
        BY <3>2, Constants DEF HandedOff, MultiAgentState
    <2>3. /\ HandedOff(c, a).task_status = "running"
          /\ HandedOff(c, a).pending_interrupt = NoPending
          /\ HandedOff(c, a).visited_agents = c.visited_agents \cup {a}
          /\ HandedOff(c, a).handoff_count = c.handoff_count + 1
      BY DEF HandedOff, HandoffRecorded, MultiAgentState, Good
    <2> QED
      BY <1>2, <2>1, <2>2, <2>3, Constants
      DEF HandoffUpdate, Evolves, Good, PendingTaskSound, VisitsSound, Waiting
  <1> QED
    BY <1>1, <1>2

\* SupervisorClarificationNode asks with the prompt it can resume.
LEMMA SupervisorAsksEvolves ==
  ASSUME NEW c, Good(c)
  PROVE  Evolves(c, SupervisorAsks(c))
  <1> DEFINE p == Paused(c, "supervisor", Prompt("routing_clarification"),
                         Says("clarification_required"))
             d == VisitsReset(p)
  <1>1. /\ p \in MultiAgentState /\ p.resume_target = "supervisor"
        /\ p.pending_interrupt = Prompt("routing_clarification")
    BY Constants DEF Paused, MultiAgentState, Good
  <1> HIDE DEF p
  <1>2. /\ d \in MultiAgentState /\ d.resume_target = "supervisor"
        /\ d.pending_interrupt = Prompt("routing_clarification")
        /\ d.visited_agents = {} /\ d.handoff_count = 0
    BY <1>1 DEF VisitsReset, MultiAgentState
  <1>3. Evolves(c, d)
    BY <1>2, Constants, FS_EmptySet DEF Evolves, Good, PendingTaskSound, VisitsSound
  <1> QED
    BY <1>3, FailureEvolves DEF SupervisorAsks, RoutingClarification, p

\* SupervisorAgent.resume either fails or decides with a state free of prompts.
LEMMA SupervisorResumeEvolves ==
  ASSUME NEW c, Good(c), NEW d \in SupervisorResumeResults(c)
  PROVE  /\ Evolves(c, d)
         /\ d = SupervisorFailure(c) \/ d.visited_agents = {}
  <1> DEFINE reset    == VisitsReset(c)
             reopened == [reset EXCEPT !.resume_target = "none",
                                       !.pending_interrupt = NoPending,
                                       !.pending_user_message = "none"]
             selected(f) == [Decided(reopened, f) EXCEPT !.user_message.form = f]
  <1>1. reset \in MultiAgentState /\ reset.visited_agents = {} /\ reset.handoff_count = 0
    BY VisitsResetEvolves DEF Evolves, Good, VisitsReset, MultiAgentState
  <1> HIDE DEF reset
  <1>2. /\ reopened \in MultiAgentState /\ reopened.visited_agents = {}
        /\ reopened.handoff_count = 0 /\ reopened.pending_interrupt = NoPending
    BY <1>1, Constants DEF MultiAgentState
  <1> HIDE DEF reopened
  <1>3. ASSUME NEW r \in Routes
        PROVE  /\ Evolves(c, Decided(reopened, r)) /\ Decided(reopened, r).visited_agents = {}
               /\ Decided(reopened, r).task_status = "running"
    <2>1. /\ Decided(reopened, r) \in MultiAgentState
          /\ Decided(reopened, r).task_status = "running"
          /\ Decided(reopened, r).pending_interrupt = NoPending
          /\ Decided(reopened, r).visited_agents = {}
          /\ Decided(reopened, r).handoff_count = 0
      BY <1>2, Constants DEF Decided, MultiAgentState
    <2> QED
      BY <2>1, Constants, FS_EmptySet DEF Evolves, Good, PendingTaskSound, VisitsSound, Waiting
  <1>4. ASSUME NEW f \in {"knowledge", "utility"}
        PROVE  Evolves(c, selected(f)) /\ selected(f).visited_agents = {}
    <2>1. f \in Routes
      BY DEF Routes, Specialists
    <2>2. /\ Decided(reopened, f) \in MultiAgentState
          /\ [Decided(reopened, f).user_message EXCEPT !.form = f] \in UserMessage
      BY <1>3, <2>1 DEF Evolves, Good, MultiAgentState, UserMessage
    <2> QED
      BY <1>3, <2>1, <2>2
      DEF Evolves, Good, PendingTaskSound, VisitsSound, Waiting, MultiAgentState
  <1>5. \/ d = SupervisorFailure(c)
        \/ \E r \in Routes : d = Decided(reopened, r)
        \/ \E f \in {"knowledge", "utility"} : d = selected(f)
    <2>1. CASE ~RoutingReplyPending(c)
      BY <2>1 DEF SupervisorResumeResults
    <2>2. CASE RoutingReplyPending(c) /\ IsCompound(c.user_message)
      BY <2>2 DEF SupervisorResumeResults, CompoundSelections, ClarificationFallback,
                  reopened, reset, Routes
    <2>3. CASE RoutingReplyPending(c) /\ ~IsCompound(c.user_message)
      BY <2>3 DEF SupervisorResumeResults, reopened, reset
    <2> QED
      BY <2>1, <2>2, <2>3
  <1> QED
    BY <1>3, <1>4, <1>5, SupervisorFailureEvolves

\* GateSwitchConfirmationNode keeps the waiting task.
LEMMA SwitchRequestedEvolves ==
  ASSUME NEW c, Good(c)
  PROVE  Evolves(c, SwitchRequested(c))
  <1>1. CASE ~Waiting(c) \/ c.resume_target = "none" \/ c.pending_interrupt = NoPending
    BY <1>1, FailureEvolves DEF SwitchRequested
  <1>2. CASE ~(~Waiting(c) \/ c.resume_target = "none" \/ c.pending_interrupt = NoPending)
    <2> DEFINE m == IF c.pending_switch_message = NoMessage THEN c.user_message
                    ELSE c.pending_switch_message
    <2>1. c \in MultiAgentState /\ m \in UserMessage
      BY DEF Good, MultiAgentState
    <2>2. SwitchRequested(c) = [c EXCEPT !.switch_confirmation_pending = TRUE,
                                         !.pending_switch_message = m,
                                         !.pending_user_message = "none",
                                         !.final_response = Says("switch_confirmation_required"),
                                         !.error = FALSE]
      BY <1>2, <2>1 DEF SwitchRequested, MultiAgentState
    <2> HIDE DEF m
    <2>3. SwitchRequested(c) \in MultiAgentState
      BY ZenonT(60), <2>1, <2>2, Constants DEF MultiAgentState
    <2>4. SameTask(c, SwitchRequested(c))
      BY <2>1, <2>2, Constants DEF SameTask, MultiAgentState
    <2> QED
      BY <2>3, <2>4, SameTaskEvolves
  <1> QED
    BY <1>1, <1>2

\* SwitchToNewRequestNode starts a new task.
LEMMA SwitchedEvolves ==
  ASSUME NEW c, Good(c)
  PROVE  Evolves(c, Switched(c))
  <1> DEFINE n == NewTask(c)
  <1>1. n \in MultiAgentState
    BY NewTaskEvolves DEF Evolves, Good
  <1>2. /\ n.task_status = "running" /\ n.pending_interrupt = NoPending
        /\ n.visited_agents = {} /\ n.handoff_count = 0
    BY DEF NewTask, VisitsReset, MultiAgentState, Good
  <1> HIDE DEF n
  <1>3. /\ Switched(c) = [n EXCEPT !.conversation_event = "new_message",
                                   !.user_message = ConfirmedMessage(c),
                                   !.pending_user_message = "none",
                                   !.switch_confirmation_pending = FALSE,
                                   !.pending_switch_message = NoMessage, !.error = FALSE]
        /\ ConfirmedMessage(c) \in UserMessage
    BY DEF Switched, n, ConfirmedMessage, MultiAgentState, Good
  <1>4. Switched(c) \in MultiAgentState
    BY ZenonT(60), <1>1, <1>3, Constants DEF MultiAgentState
  <1>5. /\ Switched(c).task_status = "running" /\ Switched(c).pending_interrupt = NoPending
        /\ Switched(c).visited_agents = {} /\ Switched(c).handoff_count = 0
    BY <1>1, <1>2, <1>3 DEF MultiAgentState
  <1> QED
    BY <1>4, <1>5, Constants, FS_EmptySet DEF Evolves, Good, PendingTaskSound, VisitsSound, Waiting

\* ContinueCurrentTaskNode keeps the waiting task and shows its prompt again.
LEMMA TaskContinuedEvolves ==
  ASSUME NEW c, Good(c)
  PROVE  Evolves(c, TaskContinued(c))
  <1>1. CASE c.resume_target = "none" \/ c.pending_interrupt = NoPending
    BY <1>1, FailureEvolves DEF TaskContinued
  <1>2. CASE ~(c.resume_target = "none" \/ c.pending_interrupt = NoPending)
    <2> DEFINE r == IF c.pending_interrupt.type = "email_approval"
                    THEN AsksApproval(c.pending_interrupt.id, c.pending_interrupt.draft)
                    ELSE Says("clarification_required")
    <2>1. c.pending_interrupt.id \in Nat /\ c.pending_interrupt.draft \in Drafts \cup {"none"}
      BY DEF Good, MultiAgentState, PendingInterrupt
    <2>2. r \in Response /\ r # NoResponse
      BY <2>1, ApprovalType, Constants
    <2> HIDE DEF r
    <2>3. TaskContinued(c) = [c EXCEPT !.switch_confirmation_pending = FALSE,
                                       !.pending_switch_message = NoMessage,
                                       !.pending_user_message = "none",
                                       !.final_response = r, !.error = FALSE]
      BY <1>2 DEF TaskContinued, r
    <2>4. TaskContinued(c) \in MultiAgentState
      BY ZenonT(60), <2>2, <2>3, Constants DEF MultiAgentState, Good
    <2>5. SameTask(c, TaskContinued(c))
      BY <2>2, <2>3 DEF SameTask, MultiAgentState, Good
    <2> QED
      BY <2>4, <2>5, SameTaskEvolves
  <1> QED
    BY <1>1, <1>2

\* GateRejectionNode only answers.
LEMMA RejectedEvolves ==
  ASSUME NEW c, Good(c)
  PROVE  Evolves(c, Rejected(c))
  <1> DEFINE r == Says(IF Busy(c) THEN "rejected_running" ELSE "rejected_no_task")
  <1>1. r \in Response /\ r # NoResponse
    BY Constants
  <1> HIDE DEF r
  <1>2. Rejected(c) = [c EXCEPT !.final_response = r, !.error = FALSE]
    BY DEF Rejected, r
  <1>3. Rejected(c) \in MultiAgentState
    BY <1>1, <1>2 DEF MultiAgentState, Good
  <1>4. SameTask(c, Rejected(c))
    BY <1>1, <1>2 DEF SameTask, MultiAgentState, Good
  <1> QED
    BY <1>3, <1>4, SameTaskEvolves

\* A new message keeps a task that runs or waits and resets any other.
LEMMA NewMessageEvolves ==
  ASSUME NEW c, Good(c), NEW m \in Requests
  PROVE  Evolves(c, NewMessageUpdate(c, m))
  <1> DEFINE received == [c EXCEPT !.conversation_event = "new_message",
                                   !.user_message = Asked(m),
                                   !.pending_user_message = "none", !.error = FALSE]
  <1>1. Asked(m) \in UserMessage
    BY DEF Asked, UserMessage
  <1>2. Evolves(c, received) /\ received \in MultiAgentState
    <2>1. received \in MultiAgentState
      BY <1>1 DEF MultiAgentState, Good
    <2>2. SameTask(c, received)
      BY DEF SameTask, MultiAgentState, Good
    <2> QED
      BY <2>1, <2>2, SameTaskEvolves
  <1> HIDE DEF received
  <1>3. Evolves(c, NewTask(received))
    <2>1. NewTask(received).pending_interrupt = NoPending
      BY <1>2 DEF NewTask, VisitsReset, MultiAgentState
    <2> QED
      BY <1>2, <2>1, NewTaskEvolves, Constants DEF Evolves
  <1> QED
    BY <1>2, <1>3 DEF NewMessageUpdate, received

\* A reply is recorded and nothing else changes.
LEMMA ResumeEvolves ==
  ASSUME NEW c, Good(c), NEW r \in Replies
  PROVE  Evolves(c, ResumeUpdate(c, r))
  <1> DEFINE base == IF c = NoCheckpoint THEN NewTask(c) ELSE c
  <1>1. Evolves(c, base)
    BY NewTaskEvolves DEF Evolves, Good
  <1> HIDE DEF base
  <1>2. ResumeUpdate(c, r) = [base EXCEPT !.conversation_event = "resume",
                                          !.pending_user_message = r, !.error = FALSE]
    BY DEF ResumeUpdate, base
  <1>3. base \in MultiAgentState
    BY <1>1 DEF Evolves, Good
  <1>4. ResumeUpdate(c, r) \in MultiAgentState
    BY <1>2, <1>3 DEF MultiAgentState
  <1>5. SameTask(base, ResumeUpdate(c, r))
    BY <1>2, <1>3 DEF SameTask, MultiAgentState
  <1>6. Evolves(base, ResumeUpdate(c, r))
    BY <1>1, <1>4, <1>5, SameTaskEvolves DEF Evolves
  <1> QED
    BY <1>1, <1>6 DEF Evolves

\* The gate ends an unidentifiable task and otherwise clears the error.
LEMMA GateUpdateEvolves ==
  ASSUME NEW c, Good(c), NEW next
  PROVE  Evolves(c, GateUpdate(c, next))
  <1>1. CASE next = "failure"
    BY <1>1, Constants
    DEF GateUpdate, MultiAgentState, Evolves, Good, PendingTaskSound, VisitsSound, Waiting
  <1>2. CASE next # "failure"
    <2>1. GateUpdate(c, next) \in MultiAgentState
      BY <1>2 DEF GateUpdate, MultiAgentState, Good
    <2>2. SameTask(c, GateUpdate(c, next))
      BY <1>2 DEF GateUpdate, SameTask, MultiAgentState, Good
    <2> QED
      BY <2>1, <2>2, SameTaskEvolves
  <1> QED
    BY <1>1, <1>2

\* An agent that did not hand the task off may ask to approve a draft.
LEMMA AsksToSendGood ==
  ASSUME NEW c, Good(c), "email" \notin c.visited_agents, NEW d \in Drafts \cup {"none"},
         ApprovalId(c, d) \in Nat
  PROVE  /\ Good(AsksToSend(c, d))
         /\ AsksToSend(c, d).pending_interrupt = Approval(ApprovalId(c, d), d)
  <1> DEFINE i == ApprovalId(c, d)
             p == Paused(c, "email", Approval(i, d), AsksApproval(i, d))
  <1>1. /\ Approval(i, d) \in PendingInterrupt /\ Approval(i, d).type = "email_approval"
        /\ AsksApproval(i, d) \in Response /\ AsksApproval(i, d) # NoResponse
    BY ApprovalType
  <1>2. AsksToSend(c, d) = [p EXCEPT !.handoff_reason = FALSE]
    BY DEF AsksToSend
  <1> HIDE DEF i
  <1>3. /\ p \in MultiAgentState /\ p.pending_interrupt = Approval(i, d)
        /\ p.resume_target = "email" /\ p.final_response = AsksApproval(i, d)
        /\ p.visited_agents = c.visited_agents /\ p.handoff_count = c.handoff_count
    BY <1>1, Constants DEF Paused, MultiAgentState, Good
  <1> HIDE DEF p
  <1>4. /\ AsksToSend(c, d) \in MultiAgentState
        /\ AsksToSend(c, d).pending_interrupt = Approval(i, d)
        /\ AsksToSend(c, d).resume_target = "email"
        /\ AsksToSend(c, d).visited_agents = c.visited_agents
        /\ AsksToSend(c, d).handoff_count = c.handoff_count
        /\ AsksToSend(c, d).final_response = AsksApproval(i, d)
    BY <1>2, <1>3 DEF MultiAgentState
  <1> QED
    BY <1>1, <1>4, Constants DEF i, Good, PendingTaskSound, VisitsSound

-----------------------------------------------------------------------------
(* Every destination may run *)

\* The resume nodes are told apart from each other and from every other node.
LEMMA ResumeNodes ==
    /\ \A a \in AgentName :
          /\ ResumeNode[a] \in Nodes /\ ResumeNode[a] \notin Specialists
          /\ ResumeNode[a] \notin {"supervisor", "supervisor_clarification", "failure", "rejection",
                                  "request_switch_confirmation", "continue_current_task",
                                  "switch_to_new_request", "reply", "idle", "email_accepted",
                                  "conversation_gate"}
    /\ \A a, b \in AgentName : ResumeNode[a] = ResumeNode[b] => a = b
    /\ \A a \in Specialists : a \notin {ResumeNode[b] : b \in AgentName}
    /\ Specialists \subseteq Nodes /\ "email_accepted" \notin Nodes
    /\ "supervisor" \notin Specialists
    /\ ResumeNode["supervisor"] = "resume_supervisor" /\ ResumeNode["knowledge"] = "resume_knowledge"
    /\ ResumeNode["email"] = "resume_email"
  BY DEF ResumeNode, AgentName, Specialists, Nodes

\* SupervisorRouter never chooses a specialist that handed the task off.
LEMMA SupervisorRoutes ==
  ASSUME NEW d, Good(d)
  PROVE  MayRun(d, SupervisorDestination(d))
  <1>1. d.supervisor_decision \in Routes \cup {"none"}
    BY DEF Good, MultiAgentState
  <1>2. \/ SupervisorDestination(d) \in {"failure", "supervisor_clarification"}
        \/ SupervisorDestination(d) \in Specialists \ d.visited_agents
    BY <1>1 DEF SupervisorDestination, Routes
  <1>3. {"failure", "supervisor_clarification"} \subseteq Nodes \ Specialists
    BY DEF Nodes, Specialists
  <1> QED
    BY <1>2, <1>3, ResumeNodes DEF MayRun

\* SpecialistResultRouter only ends, fails or goes back to the supervisor.
LEMMA SpecialistRoutes ==
  ASSUME NEW d, NEW a
  PROVE  MayRun(d, SpecialistDestination(d, a))
  <1>1. SpecialistDestination(d, a) \in {"failure", "supervisor", "reply"}
    BY DEF SpecialistDestination
  <1>2. /\ {"failure", "supervisor"} \subseteq Nodes
        /\ \A n \in {"failure", "supervisor", "reply"} : n \notin Specialists
    BY DEF Nodes, Specialists
  <1> QED
    BY <1>1, <1>2, ResumeNodes DEF MayRun

\* The gate resumes only the agent the waiting task names.
LEMMA GateRoutes ==
  ASSUME NEW c, Good(c)
  PROVE  MayRun(GateUpdate(c, GateDestination(c)), GateDestination(c))
  <1> DEFINE next  == GateDestination(c)
             plain == {"failure", "rejection", "supervisor", "request_switch_confirmation",
                       "continue_current_task", "switch_to_new_request"}
  <1>1. next \in plain \/ (/\ Waiting(c) /\ c.resume_target \in AgentName
                           /\ next = ResumeNode[c.resume_target])
    <2>1. c.resume_target \in AgentName \cup {"none"}
      BY DEF Good, MultiAgentState
    <2> QED
      BY <2>1 DEF GateDestination
  <1>2. plain \subseteq Nodes \ Specialists
    BY DEF Nodes, Specialists
  <1>3. CASE next \in plain
    BY <1>2, <1>3, ResumeNodes DEF MayRun
  <1>4. CASE /\ Waiting(c) /\ c.resume_target \in AgentName
             /\ next = ResumeNode[c.resume_target]
    <2>1. next # "failure"
      BY <1>4, ResumeNodes
    <2>2. Waiting(GateUpdate(c, next)) /\ GateUpdate(c, next).resume_target = c.resume_target
      BY <1>4, <2>1 DEF GateUpdate, Waiting, Good, MultiAgentState
    <2> QED
      BY <1>4, <2>2, ResumeNodes DEF MayRun
  <1> QED
    BY <1>1, <1>3, <1>4

-----------------------------------------------------------------------------
(* What one super-step has to establish *)

HistoryTypeOK ==
    /\ shown \in Response /\ task \in Requests \cup {"none"}
    /\ declined \subseteq Requests \cup {"none"}

\* A super-step that issues and sends nothing keeps the invariant if its update
\* evolves and its destination may run.
LEMMA MoveKeepsIInv ==
  ASSUME IInv, NEW d, NEW next, Evolves(ck, d), MayRun(d, next),
         ck' = d, prev' = ck, node' = next, worker' \in Workers, NoMail,
         core' \in BOOLEAN, faults' \in FaultLog, HistoryTypeOK'
  PROVE  IInv'
  <1>1. ck' = d /\ prev' = ck /\ node' = next /\ worker' \in Workers
    OBVIOUS
  <1>2. UNCHANGED <<issued, cache, outbox>>
    BY DEF NoMail
  <1>3. TypeOK'
    BY <1>1, <1>2 DEF IInv, TypeOK, Evolves, Good, MayRun, HistoryTypeOK
  <1>4. PendingTaskWellFormed'
    BY <1>1 DEF IInv, PendingTaskWellFormed, Evolves, Good, MayRun
  <1>5. VisitedMatchesCount'
    BY <1>1 DEF IInv, VisitedMatchesCount, Evolves, Good, MayRun
  <1>6. ApprovalBindsDraft'
    BY <1>1, <1>2 DEF IInv, ApprovalBindsDraft, ApprovalSound, DraftOf, Evolves, MayRun
  <1> QED
    BY <1>3, <1>4, <1>5, <1>6 DEF IInv

\* The checkpoint of an invariant state is Good.
LEMMA CheckpointGood == IInv => Good(ck) /\ Good(prev)
  BY DEF IInv, TypeOK, PendingTaskWellFormed, VisitedMatchesCount, Good

\* Faults stay within their bound.
LEMMA FaultType ==
  ASSUME IInv, NoFault \/ \E k \in FaultKinds : Fault(k)
  PROVE  faults' \in FaultLog
<1>1. faults \in Seq(FaultKinds) /\ Len(faults) <= MaxFaults
  BY DEF IInv, TypeOK, FaultLog
<1>2. CASE NoFault
  BY <1>1, <1>2 DEF NoFault, FaultLog
<1>3. ASSUME NEW k \in FaultKinds, Fault(k) PROVE faults' \in FaultLog
  <2>1. faults' = Append(faults, k) /\ Len(faults) < MaxFaults
    BY <1>3 DEF Fault
  <2>2. MaxFaults \in Nat
    BY FaultAssumption
  <2>3. Append(faults, k) \in Seq(FaultKinds) /\ Len(Append(faults, k)) = Len(faults) + 1
    BY <1>1
  <2>. QED
    BY <1>1, <2>1, <2>2, <2>3 DEF FaultLog
<1>. QED
  BY <1>2, <1>3

\* The facts every step of the invariant's proof starts from.
LEMMA InvFacts ==
  ASSUME IInv
  PROVE  /\ Good(ck) /\ Good(prev) /\ worker \in Workers /\ core \in BOOLEAN
         /\ faults \in FaultLog /\ HistoryTypeOK
  BY CheckpointGood DEF IInv, TypeOK, HistoryTypeOK

-----------------------------------------------------------------------------
(* Every action keeps the invariant *)

LEMMA ChatStep == ASSUME IInv, NEW w \in Workers, NEW m \in Requests, Chat(m, w) PROVE IInv'
  <1>1. Evolves(ck, NewMessageUpdate(ck, m))
    BY InvFacts, NewMessageEvolves
  <1>2. MayRun(NewMessageUpdate(ck, m), "conversation_gate")
    BY ResumeNodes DEF MayRun, Nodes, Specialists
  <1>3. HistoryTypeOK'
    BY InvFacts DEF Chat, HistoryTypeOK
  <1> QED
    BY <1>1, <1>2, <1>3, InvFacts, MoveKeepsIInv DEF Chat, Begin, NoFault

LEMMA ResumeStep == ASSUME IInv, NEW w \in Workers, NEW r \in Replies, Resume(r, w) PROVE IInv'
  <1>1. Evolves(ck, ResumeUpdate(ck, r))
    BY InvFacts, ResumeEvolves
  <1>2. MayRun(ResumeUpdate(ck, r), "conversation_gate")
    BY ResumeNodes DEF MayRun, Nodes, Specialists
  <1>3. HistoryTypeOK'
    BY InvFacts DEF Resume, history, HistoryTypeOK
  <1> QED
    BY <1>1, <1>2, <1>3, InvFacts, MoveKeepsIInv DEF Resume, Begin, NoFault

\* A move that leaves core, faults and the history alone.
LEMMA QuietMove ==
  ASSUME IInv, NEW d, NEW next, Evolves(ck, d), MayRun(d, next), Move(d, next),
         UNCHANGED <<core, history>>, NoMail, NoFault
  PROVE  IInv'
  <1>1. HistoryTypeOK'
    BY InvFacts DEF history, HistoryTypeOK
  <1> QED
    BY <1>1, InvFacts, MoveKeepsIInv DEF Move, NoFault

LEMMA GateStep == ASSUME IInv, Gate PROVE IInv'
  BY InvFacts, GateUpdateEvolves, GateRoutes, QuietMove DEF Gate

LEMMA SuperviseStep == ASSUME IInv, Supervise PROVE IInv'
  <1>1. PICK c \in IF node = "supervisor" THEN SupervisorResults(ck) ELSE SupervisorResumeResults(ck) :
          Move(c, SupervisorDestination(c))
    BY DEF Supervise
  <1>2. Evolves(ck, c)
    <2>1. CASE node = "supervisor"
      <3>1. c = SupervisorFailure(ck) \/ \E r \in Routes : c = Decided(ck, r)
        BY <1>1, <2>1 DEF SupervisorResults, ClarificationFallback, Unvisited, Routes, Specialists
      <3> QED
        BY <3>1, InvFacts, SupervisorFailureEvolves, DecidedEvolves
    <2>2. CASE node # "supervisor"
      BY <1>1, <2>2, InvFacts, SupervisorResumeEvolves
    <2> QED
      BY <2>1, <2>2
  <1> QED
    BY <1>1, <1>2, SupervisorRoutes, QuietMove DEF Supervise, Evolves

LEMMA FinishStep == ASSUME IInv, Finish PROVE IInv'
  <1>1. \A d : MayRun(d, "reply")
    BY ResumeNodes DEF MayRun, Specialists
  <1>2. PICK d \in {SupervisorAsks(ck), SwitchRequested(ck), Rejected(ck), FailureUpdate(ck)} :
          Move(d, "reply")
    BY DEF Finish
  <1>3. Evolves(ck, d)
    BY <1>2, InvFacts, SupervisorAsksEvolves, SwitchRequestedEvolves, RejectedEvolves,
       FailureEvolves
  <1> QED
    BY <1>1, <1>2, <1>3, QuietMove DEF Finish

\* Neither a fresh nor a resumed agent has handed the task off.
LEMMA RunningUnvisited ==
  ASSUME IInv, NEW a \in Specialists, node \in FreshOrResumed(a)
  PROVE  a \notin ck.visited_agents
  <1>1. CASE node = a
    BY <1>1 DEF IInv, VisitedMatchesCount
  <1>2. CASE node = ResumeNode[a]
    BY <1>2, InvFacts, Constants DEF IInv, PendingTaskWellFormed, Good, VisitsSound
  <1> QED
    BY <1>1, <1>2 DEF FreshOrResumed

\* Whatever a specialist returns short of a draft evolves.
LEMMA SpecialistResultsEvolve ==
  ASSUME IInv, NEW a \in HandsOff, node \in FreshOrResumed(a), NEW resumed,
         NEW d \in SpecialistResults(ck, a, resumed)
  PROVE  Evolves(ck, d)
  <1>1. d \in {SpecialistFailure(ck, a), SpecialistAsks(ck, a), HandoffUpdate(ck, a),
               Ended(ck, a, "completed")}
    BY DEF SpecialistResults
  <1>2. a \in Specialists /\ a \notin ck.visited_agents
    BY RunningUnvisited, Constants
  <1> QED
    BY <1>1, <1>2, InvFacts, SpecialistFailureEvolves, PausedEvolves, HandoffEvolves, EndedEvolves

LEMMA SpecialistStep ==
  ASSUME IInv, NEW a \in {"utility", "general"}, Specialist(a)
  PROVE  IInv'
  <1>1. a \in HandsOff
    BY DEF HandsOff
  <1> QED
    BY <1>1, SpecialistResultsEvolve, SpecialistRoutes, QuietMove DEF Specialist

LEMMA KnowledgeStep == ASSUME IInv, Knowledge PROVE IInv'
  <1>1. "knowledge" \in Specialists /\ "knowledge" \notin ck.visited_agents
    BY InvFacts, Constants DEF Good, VisitsSound
  <1>2. PICK d \in {FailureKeepingTask(ck, "knowledge"), KnowledgeAsks(ck),
                    Ended(ck, "knowledge", "completed")} :
          \E pending \in BOOLEAN : KnowledgeReturns(d, pending)
    BY InvFacts DEF Knowledge, KnowledgeCompletes
  <1>3. Evolves(ck, d)
    BY <1>1, <1>2, InvFacts, FailureKeepingTaskEvolves, PausedEvolves, EndedEvolves
  <1>4. faults' \in FaultLog
    BY FaultType DEF Knowledge, FaultKinds
  <1>5. HistoryTypeOK'
    BY <1>2, InvFacts DEF KnowledgeReturns, history, HistoryTypeOK
  <1> QED
    BY <1>2, <1>3, <1>4, <1>5, InvFacts, SpecialistRoutes, MoveKeepsIInv
    DEF KnowledgeReturns, Move

LEMMA ContinueCurrentTaskStep == ASSUME IInv, ContinueCurrentTask PROVE IInv'
  <1>1. MayRun(TaskContinued(ck), "reply")
    BY ResumeNodes DEF MayRun, Specialists
  <1>2. HistoryTypeOK'
    BY InvFacts DEF ContinueCurrentTask, HistoryTypeOK, Good, MultiAgentState, UserMessage
  <1> QED
    BY <1>1, <1>2, InvFacts, TaskContinuedEvolves, MoveKeepsIInv
    DEF ContinueCurrentTask, Move, NoFault

LEMMA SwitchToNewRequestStep == ASSUME IInv, SwitchToNewRequest PROVE IInv'
  <1>1. \A d : MayRun(d, "supervisor")
    BY ResumeNodes DEF MayRun, Nodes
  <1>2. PICK d \in {Switched(ck), FailureUpdate(ck)} : Move(d, "supervisor")
    BY DEF SwitchToNewRequest
  <1>3. Evolves(ck, d)
    BY <1>2, InvFacts, SwitchedEvolves, FailureEvolves
  <1>4. faults' \in FaultLog
    BY FaultType DEF SwitchToNewRequest, FaultKinds
  <1>5. ck.pending_switch_message.req \in Requests \cup {"none"}
    BY InvFacts DEF Good, MultiAgentState, UserMessage
  <1>6. core' \in BOOLEAN /\ HistoryTypeOK'
    BY <1>5, InvFacts DEF SwitchToNewRequest, CoreAfterCancel, HistoryTypeOK
  <1> QED
    BY <1>1, <1>2, <1>3, <1>4, <1>6, InvFacts, MoveKeepsIInv DEF SwitchToNewRequest, Move

LEMMA EmailWithoutDraftStep == ASSUME IInv, EmailWithoutDraft PROVE IInv'
  <1>1. "email" \in HandsOff
    BY DEF HandsOff
  <1> QED
    BY <1>1, SpecialistResultsEvolve, SpecialistRoutes, QuietMove
    DEF EmailWithoutDraft, EmailNode, EmailReturns

LEMMA EmailDraftedStep == ASSUME IInv, EmailDrafted PROVE IInv'
  <1>1. PICK d \in Drafts : /\ EmailReturns(AsksToSend(ck, d))
                            /\ issued' = Append(issued, d)
    BY DEF EmailDrafted
  <1> DEFINE c == AsksToSend(ck, d)
             i == ApprovalId(ck, d)
  <1>2. /\ issued \in Seq(Drafts) /\ Len(issued) + 1 \in Nat
        /\ issued' \in Seq(Drafts) /\ Len(issued') = Len(issued) + 1
        /\ issued'[Len(issued) + 1] = d
        /\ DOMAIN issued' = 1..(Len(issued) + 1) /\ DOMAIN issued = 1..Len(issued)
        /\ \A j \in DOMAIN issued : issued'[j] = issued[j]
    BY <1>1 DEF IInv, TypeOK
  <1>3. i \in Nat /\ (i = Len(issued) + 1 \/ (i \in DOMAIN issued /\ issued[i] = d))
    BY <1>2 DEF ApprovalId, IInv, ApprovalBindsDraft, ApprovalSound, DraftOf
  <1>4. i \in DOMAIN issued' /\ issued'[i] = d
    BY <1>2, <1>3
  <1>5. "email" \notin ck.visited_agents
    BY RunningUnvisited, Constants DEF EmailDrafted, EmailNode
  <1>6. Good(c) /\ c.pending_interrupt = Approval(i, d)
    BY <1>3, <1>5, InvFacts, AsksToSendGood
  <1>7. /\ c.pending_interrupt.id = i /\ c.pending_interrupt.draft = d
    BY <1>3, <1>6, ApprovalType
  <1>8. /\ ck' = c /\ prev' = ck /\ worker' = worker /\ MayRun(c, node')
    BY <1>1, SpecialistRoutes DEF EmailReturns, Move
  <1>9. UNCHANGED <<core, cache, outbox, faults, shown, task, declined>>
    BY DEF EmailDrafted, history, NoFault
  <1>10. TypeOK'
    BY <1>2, <1>6, <1>8, <1>9 DEF IInv, TypeOK, Good, MayRun
  <1>11. PendingTaskWellFormed' /\ VisitedMatchesCount'
    BY <1>6, <1>8 DEF IInv, PendingTaskWellFormed, VisitedMatchesCount, Good, MayRun
  <1>12. ApprovalBindsDraft'
    <2>1. ApprovalSound(ck)'
      BY <1>4, <1>6, <1>7, <1>8 DEF ApprovalSound, DraftOf
    <2>2. ApprovalSound(prev)'
      BY <1>2, <1>8 DEF IInv, ApprovalBindsDraft, ApprovalSound, DraftOf
    <2>3. \A w \in Workers : \A e \in cache'[w] : e.id \in DOMAIN issued' /\ issued'[e.id] = e.draft
      BY <1>2, <1>9 DEF IInv, ApprovalBindsDraft, DraftOf
    <2>4. \A j \in DOMAIN outbox' : /\ outbox'[j].id \in DOMAIN issued'
                                    /\ issued'[outbox'[j].id] = outbox'[j].draft
      BY <1>2, <1>9 DEF IInv, ApprovalBindsDraft, DraftOf
    <2> QED
      BY <1>6, <1>7, <1>8, <2>1, <2>2, <2>3, <2>4, ApprovalType
      DEF ApprovalBindsDraft, DraftOf, MayRun
  <1> QED
    BY <1>10, <1>11, <1>12 DEF IInv

LEMMA EmailNotApprovedStep == ASSUME IInv, EmailNotApproved PROVE IInv'
  <1> DEFINE p == ck.pending_interrupt
             asked == AsksToSend(ck, p.draft)
  <1>1. "email" \in Specialists /\ "email" \notin ck.visited_agents
    BY ResumeNodes, RunningUnvisited, Constants
    DEF EmailNotApproved, ApprovalPending, FreshOrResumed
  <1>2. /\ p \in PendingInterrupt /\ p.type = "email_approval"
        /\ p.id \in Nat /\ p.draft \in Drafts \cup {"none"}
    BY InvFacts DEF EmailNotApproved, ApprovalPending, Good, MultiAgentState, PendingInterrupt
  <1>3. ApprovalId(ck, p.draft) = p.id /\ Approval(p.id, p.draft) = p
    BY <1>2 DEF ApprovalId, Approval, PendingInterrupt
  <1>4. Evolves(ck, asked)
    BY <1>1, <1>2, <1>3, InvFacts, AsksToSendGood DEF Evolves
  <1>5. Evolves(ck, Ended(ck, "email", "cancelled"))
    BY <1>1, InvFacts, EndedEvolves
  <1>6. PICK d \in {asked, Ended(ck, "email", "cancelled")} : EmailReturns(d)
    BY DEF EmailNotApproved, EmailCancelled
  <1>7. Evolves(ck, d)
    BY <1>4, <1>5, <1>6
  <1> QED
    BY <1>6, <1>7, SpecialistRoutes, QuietMove DEF EmailNotApproved, EmailReturns

\* The delivery of a pending approval carries the draft the approval was issued for.
LEMMA DeliverySound ==
  ASSUME IInv, ck.pending_interrupt.type = "email_approval"
  PROVE  LET e == Delivery(ck.pending_interrupt) IN e \in Delivered /\ DraftOf(e)
  BY InvFacts
  DEF Delivery, Delivered, DraftOf, IInv, ApprovalBindsDraft, ApprovalSound, Good,
      MultiAgentState, PendingInterrupt

LEMMA SendApprovedEmailStep == ASSUME IInv, SendApprovedEmail PROVE IInv'
  <1> DEFINE p == ck.pending_interrupt
  <1>1. /\ ck.pending_interrupt.type = "email_approval" /\ "email" \in Specialists
        /\ UNCHANGED <<core, issued, cache, shown, task, declined, faults>>
    BY Constants DEF SendApprovedEmail, ApprovalPending, history, NoFault
  <1>2. CASE UNCHANGED outbox /\ \E d \in {Ended(ck, "email", "completed"),
                                           SpecialistFailure(ck, "email")} : EmailReturns(d)
    <2>1. PICK d \in {Ended(ck, "email", "completed"), SpecialistFailure(ck, "email")} :
            EmailReturns(d)
      BY <1>2
    <2>2. Evolves(ck, d)
      BY <1>1, InvFacts, EndedEvolves, SpecialistFailureEvolves
    <2> QED
      BY <1>1, <1>2, <2>1, <2>2, SpecialistRoutes, QuietMove
      DEF EmailReturns, NoMail, NoFault, history
  <1>3. CASE outbox' = Append(outbox, Delivery(p)) /\ node' = "email_accepted"
             /\ UNCHANGED <<ck, prev, worker>>
    <2>1. Delivery(p) \in Delivered /\ DraftOf(Delivery(p))
      BY <1>1, DeliverySound
    <2>2. /\ outbox \in Seq(Delivered) /\ outbox' \in Seq(Delivered)
          /\ \A i \in DOMAIN outbox' : \/ i \in DOMAIN outbox /\ outbox'[i] = outbox[i]
                                       \/ outbox'[i] = Delivery(p)
      BY <1>3, <2>1 DEF IInv, TypeOK
    <2>3. MayRun(ck, "email_accepted")
      BY <1>1, ResumeNodes DEF MayRun, Specialists
    <2>4. TypeOK'
      BY <1>1, <1>3, <2>2, <2>3 DEF IInv, TypeOK, MayRun
    <2>5. PendingTaskWellFormed' /\ VisitedMatchesCount'
      BY <1>3, <2>3 DEF IInv, PendingTaskWellFormed, VisitedMatchesCount, MayRun
    <2>6. ApprovalBindsDraft'
      BY <1>1, <1>3, <2>1, <2>2 DEF IInv, ApprovalBindsDraft, ApprovalSound, DraftOf
    <2> QED
      BY <2>4, <2>5, <2>6 DEF IInv
  <1> QED
    BY <1>2, <1>3 DEF SendApprovedEmail, MessageAccepted

LEMMA EmailAcceptedStep == ASSUME IInv, EmailAccepted PROVE IInv'
  <1> DEFINE e == Delivery(ck.pending_interrupt)
  <1>1. /\ e \in Delivered /\ DraftOf(e)
        /\ "email" \in Specialists /\ "email_accepted" \notin Nodes
    BY DeliverySound, ResumeNodes, Constants DEF EmailAccepted, IInv, ApprovalBindsDraft
  <1>2. PICK d \in {Ended(ck, "email", "completed"), SpecialistFailure(ck, "email")} :
          EmailReturns(d)
    BY DEF EmailAccepted
  <1>3. Evolves(ck, d)
    BY <1>1, <1>2, InvFacts, EndedEvolves, SpecialistFailureEvolves
  <1>4. MayRun(d, node') /\ ck' = d /\ prev' = ck /\ worker' = worker
    BY <1>2, SpecialistRoutes DEF EmailReturns, Move
  <1>5. UNCHANGED <<core, issued, outbox, shown, task, declined>> /\ faults' \in FaultLog
    BY FaultType DEF EmailAccepted, history, FaultKinds
  <1>6. /\ cache' \in [Workers -> SUBSET Delivered]
        /\ \A w \in Workers : \A f \in cache'[w] : f \in cache[w] \/ f = e
    BY <1>1 DEF EmailAccepted, IInv, TypeOK
  <1>7. TypeOK'
    BY <1>3, <1>4, <1>5, <1>6 DEF IInv, TypeOK, Evolves, Good, MayRun
  <1>8. PendingTaskWellFormed' /\ VisitedMatchesCount'
    BY <1>3, <1>4 DEF IInv, PendingTaskWellFormed, VisitedMatchesCount, Evolves, Good, MayRun
  <1>9. ApprovalBindsDraft'
    BY <1>1, <1>3, <1>4, <1>5, <1>6
    DEF IInv, ApprovalBindsDraft, ApprovalSound, DraftOf, Evolves, MayRun
  <1> QED
    BY <1>7, <1>8, <1>9 DEF IInv

LEMMA ReplyStep == ASSUME IInv, Reply PROVE IInv'
  <1>1. /\ UNCHANGED <<ck, worker, core, task, declined, issued, cache, outbox>>
        /\ prev' = ck /\ node' = "idle"
    BY DEF Reply, NoMail
  <1>2. shown' \in Response /\ faults' \in FaultLog
    BY FaultType, InvFacts DEF Reply, FaultKinds, HistoryTypeOK, Good, MultiAgentState
  <1>3. MayRun(ck, "idle")
    BY ResumeNodes DEF MayRun, Specialists
  <1>4. TypeOK'
    BY <1>1, <1>2, <1>3 DEF IInv, TypeOK, MayRun
  <1>5. PendingTaskWellFormed' /\ VisitedMatchesCount'
    BY <1>1, <1>3 DEF IInv, PendingTaskWellFormed, VisitedMatchesCount, MayRun
  <1>6. ApprovalBindsDraft'
    BY <1>1 DEF IInv, ApprovalBindsDraft, ApprovalSound, DraftOf
  <1> QED
    BY <1>4, <1>5, <1>6 DEF IInv

\* Either checkpoint a cut-short turn may fall back to is sound.
LEMMA CutShortStep ==
  ASSUME IInv, CutShort, UNCHANGED <<issued, outbox>>, faults' \in FaultLog,
         cache' \in [Workers -> SUBSET Delivered], \A w \in Workers : cache'[w] \subseteq cache[w]
  PROVE  IInv'
  <1>1. /\ ck' \in {ck, prev} /\ prev' = ck' /\ node' = "idle" /\ shown' = NoResponse
        /\ UNCHANGED <<worker, core, task, declined>>
    BY DEF CutShort
  <1>2. \A d : MayRun(d, "idle")
    BY ResumeNodes DEF MayRun, Specialists
  <1>3. TypeOK'
    BY <1>1, <1>2, Constants DEF IInv, TypeOK, MayRun
  <1>4. PendingTaskWellFormed' /\ VisitedMatchesCount'
    BY <1>1, <1>2 DEF IInv, PendingTaskWellFormed, VisitedMatchesCount, MayRun
  <1>5. ApprovalBindsDraft'
    BY <1>1 DEF IInv, ApprovalBindsDraft, ApprovalSound, DraftOf
  <1> QED
    BY <1>3, <1>4, <1>5 DEF IInv

LEMMA AbortStep == ASSUME IInv, Abort PROVE IInv'
  <1>1. faults' \in FaultLog
    BY FaultType DEF Abort, FaultKinds
  <1> QED
    BY <1>1, CutShortStep DEF Abort, NoMail, IInv, TypeOK

LEMMA RestartStep == ASSUME IInv, Restart PROVE IInv'
  <1>1. faults' \in FaultLog
    BY FaultType DEF Restart, FaultKinds
  <1>2. /\ cache' \in [Workers -> SUBSET Delivered]
        /\ \A w \in Workers : cache'[w] \subseteq cache[w]
    BY DEF Restart, IInv, TypeOK
  <1> QED
    BY <1>1, <1>2, CutShortStep DEF Restart

-----------------------------------------------------------------------------
(* The theorems *)

\* The initial state satisfies the inductive invariant.
LEMMA InitInv == Init => IInv
  <1> SUFFICES ASSUME Init PROVE IInv
    OBVIOUS
  <1>1. ck \in MultiAgentState
    BY Constants DEF Init, NoCheckpoint, MultiAgentState, TaskStatus
  <1>2. /\ prev = ck /\ node = "idle" /\ ~Waiting(ck) /\ ck.visited_agents = {}
        /\ ck.handoff_count = 0 /\ ck.pending_interrupt = NoPending
    BY DEF Init, NoCheckpoint, Waiting
  <1>3. \A d : MayRun(d, "idle")
    BY ResumeNodes DEF MayRun, Specialists
  <1>4. TypeOK
    <2>1. issued \in Seq(Drafts) /\ outbox \in Seq(Delivered)
      BY DEF Init
    <2>2. worker \in Workers /\ core \in BOOLEAN /\ cache \in [Workers -> SUBSET Delivered]
      BY DEF Init
    <2>3. /\ faults \in FaultLog /\ shown \in Response /\ task \in Requests \cup {"none"}
          /\ declined \subseteq Requests \cup {"none"}
      BY FaultAssumption, Constants DEF Init, FaultLog
    <2> QED
      BY <1>1, <1>2, <2>1, <2>2, <2>3 DEF TypeOK
  <1>5. PendingTaskWellFormed /\ VisitedMatchesCount
    BY <1>2, <1>3, FS_EmptySet
    DEF PendingTaskWellFormed, PendingTaskSound, VisitedMatchesCount, VisitsSound, MayRun
  <1>6. ApprovalBindsDraft
    BY <1>2, Constants DEF Init, ApprovalBindsDraft, ApprovalSound
  <1> QED
    BY <1>4, <1>5, <1>6 DEF IInv

\* Every step keeps the inductive invariant.
LEMMA NextInv == IInv /\ [Next]_vars => IInv'
  <1> SUFFICES ASSUME IInv, [Next]_vars PROVE IInv'
    OBVIOUS
  <1>1. CASE User
    BY <1>1, ChatStep, ResumeStep DEF User
  <1>2. CASE Step
    BY <1>2, GateStep, SuperviseStep, FinishStep, SpecialistStep, KnowledgeStep,
       ContinueCurrentTaskStep, SwitchToNewRequestStep, EmailWithoutDraftStep, EmailDraftedStep,
       EmailNotApprovedStep, SendApprovedEmailStep, EmailAcceptedStep, ReplyStep DEF Step
  <1>3. CASE Abort \/ Restart
    BY <1>3, AbortStep, RestartStep
  <1>4. CASE UNCHANGED vars
    <2>1. UNCHANGED <<ck, prev, node, worker, core, issued, cache, outbox, faults, shown, task,
                      declined>>
      BY <1>4 DEF vars
    <2>2. TypeOK'
      BY <2>1 DEF IInv, TypeOK
    <2>3. PendingTaskWellFormed' /\ VisitedMatchesCount'
      BY <2>1 DEF IInv, PendingTaskWellFormed, VisitedMatchesCount
    <2>4. ApprovalBindsDraft'
      BY <2>1 DEF IInv, ApprovalBindsDraft, ApprovalSound, DraftOf
    <2> QED
      BY <2>2, <2>3, <2>4 DEF IInv
  <1> QED
    BY <1>1, <1>2, <1>3, <1>4 DEF Next

LEMMA InvariantHolds == Spec => []IInv
  BY InitInv, NextInv, PTL DEF Spec

\* Every variable keeps its type, whatever the faults.
THEOREM TypeCorrect == Spec => []TypeOK
  BY InvariantHolds, PTL DEF IInv

\* An approval id stands for one draft in the checkpoint, in the delivery caches
\* and at the mail server, however many workers die and turns are cut short.
THEOREM ApprovalsBindDrafts == Spec => []ApprovalBindsDraft
  BY InvariantHolds, PTL DEF IInv

\* The handoff count is the number of specialists that handed the task off.
THEOREM VisitsMatchCount == Spec => []VisitedMatchesCount
  BY InvariantHolds, PTL DEF IInv

\* A waiting task can be identified and a reply reaches the agent that asked.
THEOREM PendingTasksWellFormed == Spec => []PendingTaskWellFormed
  BY InvariantHolds, PTL DEF IInv
==============================================================================
