-------------------------- MODULE MultiAgentWorkflow --------------------------
(***************************************************************************)
(* One conversation thread of the multi-agent workflow: the runtime that   *)
(* starts a turn, the LangGraph graph that runs it node by node, the       *)
(* checkpoint it leaves behind, the human-in-the-loop prompts, the         *)
(* switch-confirmation protocol and the delivery of approved email.        *)
(*                                                                         *)
(* What the language models answer is a choice among the outcomes the code *)
(* distinguishes.  A chat message is a member of Requests; only whether it *)
(* is a greeting or a compound request matters to the code.  Conversation  *)
(* history and tool history carry no control and are left out.             *)
(***************************************************************************)
EXTENDS Naturals, Sequences, FiniteSets

CONSTANTS
    Requests,       \* the messages a user may send to /chat
    Greetings,      \* those _simple_conversation_decision recognises
    Compounds,      \* those _compound_request_clarification recognises
    Drafts,         \* the email drafts the drafting model may produce
    Workers,        \* the API worker processes, each with its own SendEmailTool
    Faults,         \* the kinds of environment fault a run admits
    MaxFaults,      \* bound: faults in one behaviour
    MaxDrafts       \* bound: email approvals issued in one behaviour

FaultKinds ==
    { "abort",      \* a turn dies with an error: a checkpoint write fails
      "restart",    \* a worker process dies, with its turn and its memory
      "cancel",     \* clearing the knowledge checkpoint raises
      "core",       \* the knowledge agent raises before touching its state
      "lost_reply", \* the client never receives the response of a turn
      "lost_ack" }  \* the mail server accepts a message and the call raises

ASSUME RequestKinds ==
    /\ Greetings \subseteq Requests
    /\ Compounds \subseteq Requests
    /\ Greetings \cap Compounds = {}
ASSUME FaultAssumption == Faults \subseteq FaultKinds /\ MaxFaults \in Nat
ASSUME DraftBound == MaxDrafts \in Nat
ASSUME WorkersFinite == IsFiniteSet(Workers)

VARIABLES
    ck,        \* the graph state; at rest, the checkpoint of the thread
    prev,      \* the checkpoint one super-step earlier, which may be the saved one
    node,      \* "idle", the graph node to run next, or "reply"
    worker,    \* the worker process that runs the turn
    core,      \* the knowledge agent's own checkpoint holds a pending interrupt
    issued,    \* the draft of each email approval id, in order of issue
    cache,     \* SendEmailTool._completed of each worker
    outbox,    \* the messages the mail server accepted
    faults,    \* history: the kinds of the environment faults so far
    shown,     \* history: the last response the user received
    task,      \* history: the request the user last asked to have worked on
    declined   \* history: messages the user gave up by continuing that task

vars == <<ck, prev, node, worker, core, issued, cache, outbox, faults,
          shown, task, declined>>
history == <<shown, task, declined>>

-----------------------------------------------------------------------------
(* The state of the graph *)

Specialists == {"knowledge", "utility", "general", "email"}
HandsOff    == {"utility", "general", "email"}   \* those with a handoff action
AgentName   == Specialists \cup {"supervisor"}
Routes      == Specialists \cup {"clarification"}
TaskStatus  == {"idle", "running", "waiting_for_user", "completed", "cancelled", "failed"}
Replies     == {"approve", "reject", "continue_current_task", "switch_to_new_request", "other"}

\* A compound request is rewritten once the user selects one of its parts.
UserMessage == [req : Requests \cup {"none"}, form : {"asked", "knowledge", "utility"}]
Asked(m)    == [req |-> m, form |-> "asked"]
NoMessage   == Asked("none")

PendingInterrupt == [type  : {"none", "clarification", "routing_clarification", "email_approval"},
                     id    : Nat,
                     draft : Drafts \cup {"none"}]
Prompt(type) == [type |-> type, id |-> 0, draft |-> "none"]
NoPending    == Prompt("none")
Approval(i, d) == [type |-> "email_approval", id |-> i, draft |-> d]

PromptStatus == {"clarification_required", "approval_required", "switch_confirmation_required"}
Response == [status : PromptStatus \cup {"none", "completed", "cancelled", "failed",
                                         "rejected_running", "rejected_no_task"},
             id     : Nat,
             draft  : Drafts \cup {"none"}]
Says(status)     == [status |-> status, id |-> 0, draft |-> "none"]
NoResponse       == Says("none")
AsksApproval(i, d) == [status |-> "approval_required", id |-> i, draft |-> d]

MultiAgentState ==
    [conversation_event          : {"new_message", "resume"},
     user_message                : UserMessage,
     supervisor_decision         : Routes \cup {"none"},
     active_agent                : AgentName \cup {"none"},
     resume_target               : AgentName \cup {"none"},
     task_status                 : TaskStatus,
     pending_interrupt           : PendingInterrupt,
     pending_user_message        : Replies \cup {"none"},
     switch_confirmation_pending : BOOLEAN,
     pending_switch_message      : UserMessage,
     handoff_count               : Nat,
     handoff_reason              : BOOLEAN,      \* whether a reason is recorded
     visited_agents              : SUBSET Specialists,
     final_response              : Response,
     error                       : BOOLEAN]      \* whether an error is recorded

\* A thread without a checkpoint, as if one with the default IDLE status.
NoCheckpoint ==
    [conversation_event |-> "new_message", user_message |-> NoMessage,
     supervisor_decision |-> "none", active_agent |-> "none",
     resume_target |-> "none", task_status |-> "idle",
     pending_interrupt |-> NoPending, pending_user_message |-> "none",
     switch_confirmation_pending |-> FALSE, pending_switch_message |-> NoMessage,
     handoff_count |-> 0, handoff_reason |-> FALSE, visited_agents |-> {},
     final_response |-> NoResponse, error |-> FALSE]

Waiting(c) == c.task_status = "waiting_for_user"

Nodes ==
    {"conversation_gate", "supervisor", "resume_supervisor", "supervisor_clarification",
     "knowledge", "utility", "general", "email",
     "resume_knowledge", "resume_utility", "resume_general", "resume_email",
     "request_switch_confirmation", "continue_current_task", "switch_to_new_request",
     "rejection", "failure"}

ResumeNode == [supervisor |-> "resume_supervisor", knowledge |-> "resume_knowledge",
               utility |-> "resume_utility", general |-> "resume_general",
               email |-> "resume_email"]
FreshOrResumed(a) == {a, ResumeNode[a]}

-----------------------------------------------------------------------------
(* Turn input: runtime.chat and runtime.resume *)

\* Mutant: the count of handoffs survives the reset.
VisitsResetExceptCount(c) == [c EXCEPT !.handoff_reason = FALSE, !.visited_agents = {}]

VisitsReset(c) ==
    [c EXCEPT !.handoff_count = 0, !.handoff_reason = FALSE, !.visited_agents = {}]

\* The reset a new message brings to a thread whose last task has ended.
NewTask(c) ==
    [VisitsReset(c) EXCEPT !.supervisor_decision = "none", !.active_agent = "none",
                           !.resume_target = "none", !.task_status = "running",
                           !.pending_interrupt = NoPending,
                           !.final_response = NoResponse]

NewMessageUpdate(c, m) ==
    LET received == [c EXCEPT !.conversation_event = "new_message",
                              !.user_message = Asked(m),
                              !.pending_user_message = "none", !.error = FALSE]
    IN  IF c.task_status \in {"completed", "cancelled", "failed", "idle"}
        THEN NewTask(received) ELSE received

\* Without a checkpoint the reply itself becomes the user_message of a fresh
\* state; the gate rejects such a turn and the next message overwrites it.
ResumeUpdate(c, r) ==
    LET base == IF c = NoCheckpoint THEN NewTask(c) ELSE c
    IN  [base EXCEPT !.conversation_event = "resume",
                     !.pending_user_message = r, !.error = FALSE]

-----------------------------------------------------------------------------
(* Routing between nodes *)

\* Mutant: an old active agent counts as a running task.
BusyOnceActive(c) == c.active_agent # "none"

Busy(c) == c.task_status = "running" /\ c.active_agent # "none"

\* Mutant: a reply is never taken as the answer to the switch confirmation.
ConfirmingNever(c) == FALSE

Confirming(c) == c.conversation_event = "resume" /\ c.switch_confirmation_pending

\* ConversationGate.decide followed by ConversationGateRouter.route.
GateDestination(c) ==
    LET resuming   == c.conversation_event = "resume"
        wellFormed == c.pending_interrupt # NoPending /\ c.resume_target # "none"
        reply      == c.pending_user_message
    IN  CASE Waiting(c) /\ ~wellFormed -> "failure"
          [] Waiting(c) /\ wellFormed /\ Confirming(c) ->
                IF reply \in {"continue_current_task", "switch_to_new_request"}
                THEN reply ELSE "request_switch_confirmation"
          [] Waiting(c) /\ wellFormed /\ resuming /\ ~Confirming(c) ->
                ResumeNode[c.resume_target]
          [] Waiting(c) /\ wellFormed /\ ~resuming -> "request_switch_confirmation"
          [] ~Waiting(c) /\ (Busy(c) \/ resuming) -> "rejection"
          [] OTHER -> "supervisor"

\* SupervisorRouter.route
SupervisorDestination(c) ==
    LET route == c.supervisor_decision
    IN  IF \/ c.error \/ c.task_status = "failed" \/ route = "none"
           \/ route \in c.visited_agents
        THEN "failure"
        ELSE IF route = "clarification" THEN "supervisor_clarification" ELSE route

\* SpecialistResultRouter.route; "reply" is the end of the graph.
SpecialistDestination(c, a) ==
    LET handed == /\ c.task_status = "running" /\ c.handoff_reason
                  /\ c.supervisor_decision = "none" /\ c.resume_target = "none"
                  /\ c.pending_interrupt = NoPending /\ c.final_response = NoResponse
        paused == /\ Waiting(c) /\ c.resume_target = a
                  /\ c.pending_interrupt # NoPending /\ c.final_response # NoResponse
        ended  == /\ c.task_status \in {"completed", "cancelled"}
                  /\ c.resume_target = "none" /\ c.pending_interrupt = NoPending
                  /\ c.final_response # NoResponse
    IN  CASE c.error \/ c.active_agent # a -> "failure"
          [] ~c.error /\ c.active_agent = a /\ handed -> "supervisor"
          [] ~c.error /\ c.active_agent = a /\ (paused \/ ended) -> "reply"
          [] OTHER -> "failure"

-----------------------------------------------------------------------------
(* Updates the nodes return *)

\* Mutant: the failed turn answers nothing.
FailureUpdateSilent(c) ==
    [c EXCEPT !.active_agent = "none", !.resume_target = "none",
              !.task_status = "failed", !.pending_interrupt = NoPending,
              !.pending_user_message = "none", !.error = TRUE]

FailureUpdate(c) ==
    [c EXCEPT !.active_agent = "none", !.resume_target = "none",
              !.task_status = "failed", !.pending_interrupt = NoPending,
              !.pending_user_message = "none", !.final_response = Says("failed"),
              !.error = TRUE]

SupervisorFailure(c) ==
    [c EXCEPT !.supervisor_decision = "none", !.active_agent = "supervisor",
              !.task_status = "failed", !.error = TRUE]

\* Mutant: the route becomes the active agent.
DecidedActive(c, route) ==
    [c EXCEPT !.supervisor_decision = route, !.active_agent = route,
              !.task_status = "running", !.error = FALSE]

Decided(c, route) ==
    [c EXCEPT !.supervisor_decision = route, !.active_agent = "supervisor",
              !.task_status = "running", !.error = FALSE]

IsGreeting(msg) == msg.form = "asked" /\ msg.req \in Greetings
IsCompound(msg) == msg.form = "asked" /\ msg.req \in Compounds

\* A decision for a specialist that handed the task off is not taken.
Unvisited(c) == Routes \ c.visited_agents

\* Retried once, a decision still not taken gives way to a clarification.
ClarificationFallback(c) == Decided(c, "clarification")

\* SupervisorAgent.__call__: two deterministic shortcuts, then the model.  A
\* failing call fails.
SupervisorResults(c) ==
    IF IsGreeting(c.user_message) THEN {Decided(c, "general")}
    ELSE IF IsCompound(c.user_message) THEN {Decided(c, "clarification")}
    ELSE {SupervisorFailure(c), ClarificationFallback(c)}
         \cup {Decided(c, r) : r \in Unvisited(c)}

RoutingReplyPending(c) ==
    /\ Waiting(c) /\ c.resume_target = "supervisor"
    /\ c.pending_interrupt.type = "routing_clarification"
    /\ c.pending_user_message # "none"

\* The reply names one part of a compound request, which it becomes.
CompoundSelections(c) ==
    {[Decided(c, f) EXCEPT !.user_message.form = f] : f \in {"knowledge", "utility"}}

\* SupervisorAgent.resume: routing reopens with no specialist excluded.
SupervisorResumeResults(c) ==
    LET reopened == [VisitsReset(c) EXCEPT !.resume_target = "none",
                                           !.pending_interrupt = NoPending,
                                           !.pending_user_message = "none"]
    IN  CASE ~RoutingReplyPending(c) -> {SupervisorFailure(c)}
          [] RoutingReplyPending(c) /\ IsCompound(c.user_message) ->
                CompoundSelections(reopened) \cup {ClarificationFallback(reopened)}
          [] OTHER -> {SupervisorFailure(c)} \cup {Decided(reopened, r) : r \in Routes}

SpecialistFailure(c, a) ==
    [c EXCEPT !.active_agent = a, !.resume_target = "none", !.task_status = "failed",
              !.pending_interrupt = NoPending, !.pending_user_message = "none",
              !.final_response = NoResponse, !.error = TRUE]

\* KnowledgeSpecialistAdapter._failure and _handoff_failure leave the rest alone.
FailureKeepingTask(c, a) ==
    [c EXCEPT !.active_agent = a, !.task_status = "failed",
              !.final_response = NoResponse, !.error = TRUE]

Ended(c, a, status) ==
    [c EXCEPT !.active_agent = a, !.resume_target = "none", !.task_status = status,
              !.pending_interrupt = NoPending, !.pending_user_message = "none",
              !.handoff_reason = FALSE, !.final_response = Says(status), !.error = FALSE]

Paused(c, a, pending, response) ==
    [c EXCEPT !.active_agent = a, !.resume_target = a, !.task_status = "waiting_for_user",
              !.pending_interrupt = pending, !.pending_user_message = "none",
              !.final_response = response, !.error = FALSE]

\* SupervisorClarificationNode.  Mutant: the prompt is that of a specialist.
SupervisorAsksPlainly(c) ==
    IF c.supervisor_decision # "clarification" THEN FailureUpdate(c)
    ELSE VisitsReset(Paused(c, "supervisor", Prompt("clarification"),
                            Says("clarification_required")))

RoutingClarification(c) ==
    VisitsReset(Paused(c, "supervisor", Prompt("routing_clarification"),
                       Says("clarification_required")))

SupervisorAsks(c) ==
    IF c.supervisor_decision # "clarification" THEN FailureUpdate(c) ELSE RoutingClarification(c)

SpecialistAsks(c, a) ==
    [Paused(c, a, Prompt("clarification"), Says("clarification_required"))
        EXCEPT !.handoff_reason = FALSE]

DefaultMaxHandoffs == 3

\* Mutant: the handoff leaves no trace.
HandoffForgotten(c, a) == [c EXCEPT !.handoff_reason = TRUE]

HandoffRecorded(c, a) ==
    [c EXCEPT !.handoff_count = @ + 1, !.handoff_reason = TRUE,
              !.visited_agents = @ \cup {a}]

HandedOff(c, a) ==
    [HandoffRecorded(c, a) EXCEPT
        !.supervisor_decision = "none", !.active_agent = a, !.resume_target = "none",
        !.task_status = "running", !.pending_interrupt = NoPending,
        !.pending_user_message = "none", !.final_response = NoResponse, !.error = FALSE]

HandoffUpdate(c, a) ==
    IF c.handoff_count + 1 > DefaultMaxHandoffs THEN FailureKeepingTask(c, a)
                                                ELSE HandedOff(c, a)

SpecialistReplyPending(c, a) ==
    /\ Waiting(c) /\ c.resume_target = a /\ c.pending_interrupt # NoPending
    /\ c.pending_user_message # "none"

\* What UtilityAgent._run and GeneralAgent._run return, and what
\* EmailAgent._create_draft returns short of a draft.
SpecialistResults(c, a, resumed) ==
    IF resumed /\ ~SpecialistReplyPending(c, a) THEN {SpecialistFailure(c, a)}
    ELSE {SpecialistFailure(c, a), SpecialistAsks(c, a), HandoffUpdate(c, a)}
         \cup (IF a = "email" THEN {} ELSE {Ended(c, a, "completed")})

\* GateSwitchConfirmationNode: the first message that interrupted is kept.
SwitchRequested(c) ==
    IF ~Waiting(c) \/ c.resume_target = "none" \/ c.pending_interrupt = NoPending
    THEN FailureUpdate(c)
    ELSE [c EXCEPT !.switch_confirmation_pending = TRUE,
                   !.pending_switch_message = IF @ = NoMessage THEN c.user_message ELSE @,
                   !.pending_user_message = "none",
                   !.final_response = Says("switch_confirmation_required"),
                   !.error = FALSE]

\* ContinueCurrentTaskNode
TaskContinued(c) ==
    IF c.resume_target = "none" \/ c.pending_interrupt = NoPending THEN FailureUpdate(c)
    ELSE [c EXCEPT !.switch_confirmation_pending = FALSE,
                   !.pending_switch_message = NoMessage, !.pending_user_message = "none",
                   !.final_response =
                       IF c.pending_interrupt.type = "email_approval"
                       THEN AsksApproval(c.pending_interrupt.id, c.pending_interrupt.draft)
                       ELSE Says("clarification_required"),
                   !.error = FALSE]

\* Mutant: the latest message is run, not the one the confirmation was asked for.
LatestMessage(c) == c.user_message

ConfirmedMessage(c) == c.pending_switch_message

\* SwitchToNewRequestNode, once the pending task is cancelled.
Switched(c) ==
    [NewTask(c) EXCEPT !.conversation_event = "new_message",
                       !.user_message = ConfirmedMessage(c),
                       !.pending_user_message = "none",
                       !.switch_confirmation_pending = FALSE,
                       !.pending_switch_message = NoMessage, !.error = FALSE]

\* GateRejectionNode, with the reason the gate gave.
Rejected(c) ==
    [c EXCEPT !.final_response =
                  Says(IF Busy(c) THEN "rejected_running" ELSE "rejected_no_task"),
              !.error = FALSE]

-----------------------------------------------------------------------------
(* The steps of a turn *)

\* One super-step: the node's update is applied and the next node is chosen.
\* Its checkpoint is written while the next super-step runs.
Move(c, next) ==
    /\ ck' = c /\ prev' = ck /\ node' = next
    /\ UNCHANGED worker

Fault(kind) == kind \in Faults /\ Len(faults) < MaxFaults /\ faults' = Append(faults, kind)
NoFault     == UNCHANGED faults
NoMail      == UNCHANGED <<issued, cache, outbox>>

Begin(c, w) ==
    /\ node = "idle" /\ node' = "conversation_gate" /\ worker' = w
    /\ ck' = c /\ prev' = ck
    /\ UNCHANGED core /\ NoMail /\ NoFault

Chat(m, w) ==
    /\ Begin(NewMessageUpdate(ck, m), w)
    /\ IF Waiting(ck) THEN UNCHANGED <<task, declined>> ELSE task' = m /\ declined' = {}
    /\ UNCHANGED shown

Resume(r, w) ==
    /\ Begin(ResumeUpdate(ck, r), w)
    /\ UNCHANGED history

GateUpdate(c, next) ==
    IF next = "failure"
    THEN [c EXCEPT !.active_agent = "none", !.task_status = "failed", !.error = TRUE]
    ELSE [c EXCEPT !.error = FALSE]

Gate ==
    /\ node = "conversation_gate"
    /\ LET next == GateDestination(ck)
       IN  Move(GateUpdate(ck, next), next)
    /\ UNCHANGED <<core, history>> /\ NoMail /\ NoFault

Supervise ==
    /\ node \in {"supervisor", "resume_supervisor"}
    /\ \E c \in IF node = "supervisor" THEN SupervisorResults(ck)
                                       ELSE SupervisorResumeResults(ck) :
          Move(c, SupervisorDestination(c))
    /\ UNCHANGED <<core, history>> /\ NoMail /\ NoFault

\* The nodes whose outgoing edge is END.
Finish ==
    /\ \/ node = "supervisor_clarification"    /\ Move(SupervisorAsks(ck), "reply")
       \/ node = "request_switch_confirmation" /\ Move(SwitchRequested(ck), "reply")
       \/ node = "rejection"                   /\ Move(Rejected(ck), "reply")
       \/ node = "failure"                     /\ Move(FailureUpdate(ck), "reply")
    /\ UNCHANGED <<core, history>> /\ NoMail /\ NoFault

Specialist(a) ==
    /\ node \in FreshOrResumed(a)
    /\ \E c \in SpecialistResults(ck, a, node = ResumeNode[a]) :
          Move(c, SpecialistDestination(c, a))
    /\ UNCHANGED <<core, history>> /\ NoMail /\ NoFault

KnowledgeReturns(c, pending) ==
    /\ Move(c, SpecialistDestination(c, "knowledge"))
    /\ core' = pending
    /\ UNCHANGED history /\ NoMail

KnowledgeAsks(c) ==
    Paused(c, "knowledge", Prompt("clarification"), Says("clarification_required"))

KnowledgeCompletes(c) == Ended(c, "knowledge", "completed")

\* KnowledgeAgent.run refuses a thread whose own checkpoint is paused; resume
\* refuses one that is not.  A failed run ends without a pending interrupt.
Knowledge ==
    LET resumed == node = "resume_knowledge"
        ready   == IF resumed THEN SpecialistReplyPending(ck, "knowledge") /\ core ELSE ~core
        failed  == FailureKeepingTask(ck, "knowledge")
    IN  /\ node \in FreshOrResumed("knowledge")
        /\ \/ ~ready /\ KnowledgeReturns(failed, core) /\ NoFault
           \/ ready /\ KnowledgeReturns(failed, FALSE) /\ NoFault
           \/ ready /\ KnowledgeReturns(failed, core) /\ Fault("core")
           \/ ready /\ KnowledgeReturns(KnowledgeAsks(ck), TRUE) /\ NoFault
           \/ ready /\ KnowledgeReturns(KnowledgeCompletes(ck), FALSE) /\ NoFault

ContinueCurrentTask ==
    /\ node = "continue_current_task"
    /\ Move(TaskContinued(ck), "reply")
    /\ declined' = declined \cup {ck.pending_switch_message.req, ck.user_message.req}
    /\ UNCHANGED <<core, shown, task>> /\ NoMail /\ NoFault

\* Mutant: the knowledge agent is not told.
CoreUntouched(c) == core

\* Only the knowledge specialist has a cancel_pending; it deletes its checkpoint.
CoreAfterCancel(c) == core /\ c.resume_target # "knowledge"

\* The edge to the supervisor is unconditional.
SwitchToNewRequest ==
    /\ node = "switch_to_new_request"
    /\ \/ /\ Move(Switched(ck), "supervisor")
          /\ core' = CoreAfterCancel(ck)
          /\ task' = ck.pending_switch_message.req /\ declined' = {}
          /\ NoFault
       \/ /\ ck.resume_target = "knowledge" /\ Fault("cancel")
          /\ Move(FailureUpdate(ck), "supervisor")
          /\ UNCHANGED <<core, task, declined>>
    /\ UNCHANGED shown /\ NoMail

-----------------------------------------------------------------------------
(* Drafting, approving and sending email *)

EmailNode == node \in FreshOrResumed("email")
ApprovalPending == node = "resume_email" /\ ck.pending_interrupt.type = "email_approval"
EmailReturns(c) == Move(c, SpecialistDestination(c, "email"))

\* Mutant: one approval id serves the whole thread.
ApprovalIdOfThread(c, d) == 1

\* An approval keeps its id while the draft is unchanged; a new draft gets a
\* fresh one.
ApprovalId(c, d) ==
    IF c.pending_interrupt.type = "email_approval" /\ c.pending_interrupt.draft = d
    THEN c.pending_interrupt.id ELSE Len(issued) + 1

AsksToSend(c, d) ==
    LET i == ApprovalId(c, d)
    IN  [Paused(c, "email", Approval(i, d), AsksApproval(i, d)) EXCEPT !.handoff_reason = FALSE]

EmailWithoutDraft ==
    /\ EmailNode /\ ~ApprovalPending
    /\ \E c \in SpecialistResults(ck, "email", node = "resume_email") : EmailReturns(c)
    /\ UNCHANGED <<core, history>> /\ NoMail /\ NoFault

EmailDrafted ==
    /\ EmailNode /\ ~ApprovalPending /\ Len(issued) < MaxDrafts
    /\ node = "resume_email" => SpecialistReplyPending(ck, "email")
    /\ \E d \in Drafts :
          /\ EmailReturns(AsksToSend(ck, d))
          /\ issued' = Append(issued, d)
    /\ UNCHANGED <<core, cache, outbox, history>> /\ NoFault

EmailCancelled(c) == Ended(c, "email", "cancelled")

EmailNotApproved ==
    /\ ApprovalPending /\ ck.pending_user_message # "approve"
    /\ EmailReturns(IF ck.pending_user_message = "reject" THEN EmailCancelled(ck)
                    ELSE AsksToSend(ck, ck.pending_interrupt.draft))
    /\ UNCHANGED <<core, history>> /\ NoMail /\ NoFault

Delivery(p) == [id |-> p.id, draft |-> p.draft]

Replayable(p) == Delivery(p) \in cache[worker]
KeyReused(p)  == \E e \in cache[worker] : e.id = p.id /\ e.draft # p.draft

\* The gateway's dialogue with the SMTP server, up to the message it takes.
MessageAccepted(p) == outbox' = Append(outbox, Delivery(p))

\* SendEmailTool.execute up to the answer of the mail server.
SendApprovedEmail ==
    LET p == ck.pending_interrupt
    IN  /\ ApprovalPending /\ ck.pending_user_message = "approve"
        /\ \/ Replayable(p) /\ EmailReturns(Ended(ck, "email", "completed")) /\ UNCHANGED outbox
           \/ ~Replayable(p) /\ EmailReturns(SpecialistFailure(ck, "email")) /\ UNCHANGED outbox
           \/ /\ ~Replayable(p) /\ ~KeyReused(p)
              /\ MessageAccepted(p) /\ node' = "email_accepted"
              /\ UNCHANGED <<ck, prev, worker>>
        /\ UNCHANGED <<core, issued, cache, history>> /\ NoFault

\* Mutant: a delivery that raised is tried again.
EmailAcceptedRetrying ==
    /\ node = "email_accepted"
    /\ \/ /\ EmailReturns(Ended(ck, "email", "completed"))
          /\ cache' = [cache EXCEPT ![worker] = @ \cup {Delivery(ck.pending_interrupt)}]
          /\ NoFault
       \/ /\ node' = "resume_email" /\ UNCHANGED <<ck, prev, worker>>
          /\ UNCHANGED cache /\ Fault("lost_ack")
    /\ UNCHANGED <<core, issued, outbox, history>>

\* The server has the message; the tool records the delivery, or the call raises.
EmailAccepted ==
    /\ node = "email_accepted"
    /\ \/ /\ EmailReturns(Ended(ck, "email", "completed"))
          /\ cache' = [cache EXCEPT ![worker] = @ \cup {Delivery(ck.pending_interrupt)}]
          /\ NoFault
       \/ /\ EmailReturns(SpecialistFailure(ck, "email"))
          /\ UNCHANGED cache /\ Fault("lost_ack")
    /\ UNCHANGED <<core, issued, outbox, history>>

-----------------------------------------------------------------------------
(* The end of a turn, and what may cut it short *)

\* ainvoke returns once the last checkpoint is written; the response is sent.
Reply ==
    /\ node = "reply" /\ node' = "idle" /\ prev' = ck
    /\ \/ shown' = ck.final_response /\ NoFault
       \/ shown' = shown /\ Fault("lost_reply")
    /\ UNCHANGED <<ck, worker, core, task, declined>> /\ NoMail

\* The thread keeps its latest checkpoint or the one before it.
CutShort ==
    /\ ck' \in {ck, prev} /\ prev' = ck' /\ node' = "idle" /\ shown' = NoResponse
    /\ UNCHANGED <<worker, core, task, declined>>

Abort ==
    /\ node \notin {"idle", "email_accepted"} /\ Fault("abort")
    /\ CutShort /\ NoMail

Restart ==
    /\ node # "idle" /\ Fault("restart")
    /\ CutShort
    /\ cache' = [cache EXCEPT ![worker] = {}]
    /\ UNCHANGED <<issued, outbox>>

-----------------------------------------------------------------------------

Init ==
    /\ ck = NoCheckpoint /\ prev = NoCheckpoint /\ node = "idle"
    /\ worker \in Workers /\ core = FALSE
    /\ issued = <<>> /\ outbox = <<>> /\ cache = [w \in Workers |-> {}]
    /\ faults = <<>> /\ shown = NoResponse /\ task = "none" /\ declined = {}

\* The steps the server takes on its own once a turn has begun.
Step ==
    \/ Gate \/ Supervise \/ Finish
    \/ \E a \in {"utility", "general"} : Specialist(a)
    \/ Knowledge \/ ContinueCurrentTask \/ SwitchToNewRequest
    \/ EmailWithoutDraft \/ EmailDrafted \/ EmailNotApproved
    \/ SendApprovedEmail \/ EmailAccepted \/ Reply

User ==
    \E w \in Workers : \/ \E m \in Requests : Chat(m, w)
                       \/ \E r \in Replies : Resume(r, w)

Next == User \/ Step \/ Abort \/ Restart

Spec == Init /\ [][Next]_vars

\* Every call a node awaits returns or raises (provider and SMTP timeouts), so
\* a turn keeps running.  Users are under no obligation.
FairSpec == Spec /\ WF_vars(Step)

-----------------------------------------------------------------------------
(* Properties *)

FaultLog  == {s \in Seq(FaultKinds) : Len(s) <= MaxFaults}
Happened(kind) == \E i \in DOMAIN faults : faults[i] = kind
Delivered == [id : Nat, draft : Drafts \cup {"none"}]

\* Every variable has its type; the checkpoint and the one before it are graph states.
TypeOK ==
    /\ ck \in MultiAgentState /\ prev \in MultiAgentState
    /\ node \in Nodes \cup {"idle", "reply", "email_accepted"}
    /\ worker \in Workers /\ core \in BOOLEAN
    /\ issued \in Seq(Drafts) /\ outbox \in Seq(Delivered)
    /\ cache \in [Workers -> SUBSET Delivered]
    /\ faults \in FaultLog
    /\ shown \in Response /\ task \in Requests \cup {"none"}
    /\ declined \subseteq Requests \cup {"none"}

\* A task that waits can be identified: its prompt has a kind the waiting agent
\* asks, and a reply reaches the agent that asked.  So the gate never turns a
\* reply into a failure (ConversationGate._validate_pending_task).
PendingTaskSound(c) ==
    Waiting(c) =>
        /\ c.resume_target # "none" /\ c.pending_interrupt.type # "none"
        /\ c.resume_target = "supervisor" <=> c.pending_interrupt.type = "routing_clarification"
        /\ c.pending_interrupt.type = "email_approval" =>
              c.resume_target = "email" /\ c.final_response # NoResponse
PendingTaskWellFormed ==
    /\ PendingTaskSound(ck) /\ PendingTaskSound(prev)
    /\ \A a \in AgentName : node = ResumeNode[a] => Waiting(ck) /\ ck.resume_target = a

\* handoff_count counts the distinct specialists that handed the task off, so the
\* limit of build_handoff_update is never what ends a task, and no specialist
\* that handed a task off runs afresh or waits for its user.
VisitsSound(c) ==
    /\ c.visited_agents \subseteq HandsOff
    /\ c.handoff_count = Cardinality(c.visited_agents)
    /\ Waiting(c) => c.resume_target \notin c.visited_agents
VisitedMatchesCount ==
    /\ VisitsSound(ck) /\ VisitsSound(prev)
    /\ node \in Specialists => node \notin ck.visited_agents

\* An approval id stands for one draft for ever: in the checkpoint, in every
\* worker's delivery cache and in the mail server, and only an approval is sent.
\* So "The email approval ID was reused for a different draft."
\* (SendEmailTool.execute) is never raised.
DraftOf(e) == e.id \in DOMAIN issued /\ issued[e.id] = e.draft
ApprovalSound(c) == c.pending_interrupt.type = "email_approval" => DraftOf(c.pending_interrupt)
ApprovalBindsDraft ==
    /\ ApprovalSound(ck) /\ ApprovalSound(prev)
    /\ \A w \in Workers : \A e \in cache[w] : DraftOf(e)
    /\ \A i \in DOMAIN outbox : DraftOf(outbox[i])
    /\ node = "email_accepted" => ck.pending_interrupt.type = "email_approval"

\* The response of a turn tells the state it left: a prompt exactly when a task
\* waits, the approval that is pending, an end only when the task has ended.
ResponseTellsState ==
    node = "reply" =>
        LET r == ck.final_response
        IN  /\ r # NoResponse
            /\ r.status \in PromptStatus <=> Waiting(ck)
            /\ r.status = "approval_required" =>
                  ck.pending_interrupt = Approval(r.id, r.draft)
            /\ r.status \in {"completed", "cancelled", "failed"} => ck.task_status = r.status

\* Mail is sent only to answer the response that showed this very approval and draft.
ApprovedDraftWasShown ==
    [][\A i \in DOMAIN outbox' \ DOMAIN outbox :
          shown = AsksApproval(outbox'[i].id, outbox'[i].draft)]_vars

\* Between turns the knowledge agent is paused exactly when the workflow waits for
\* the answer to its question, though each keeps a checkpoint of its own.
KnowledgePendingAgrees ==
    node = "idle" => (core <=> Waiting(ck) /\ ck.resume_target = "knowledge")

Working == node \in {"supervisor", "resume_supervisor"} \cup Specialists

\* No agent works on a message the user was only asked about: it is the task the
\* user asked for, or one the user declined: ContinueCurrentTaskNode does not put
\* the original message back.
RunsOnlyAskedRequests == Working => ck.user_message.req \in {task} \cup declined

\* An approved email reaches the mail server at most once, whatever replays the
\* approval (SendEmailTool's cache of completed deliveries).
AtMostOncePerApproval ==
    \A i, j \in DOMAIN outbox : outbox[i].id = outbox[j].id => i = j

\* What that cache does achieve: an approval is delivered twice only after a
\* worker lost its memory, or a turn cut short brings the approval back where no
\* delivery is recorded: on another worker, or after a call that raised although
\* the server took the message.
DuplicateNeedsLostCache ==
    \/ AtMostOncePerApproval
    \/ Happened("restart")
    \/ Happened("abort") /\ (Cardinality(Workers) > 1 \/ Happened("lost_ack"))

\* Turns of a thread are serialised, so the gate has no reason to turn a message
\* away because another task is running.  Only a turn that was cut short can make
\* it take the thread for busy; no error, cancelled switch or lost response does.
RejectedOnlyAfterCutTurn ==
    ck.final_response.status = "rejected_running" => Happened("abort") \/ Happened("restart")

\* Every turn ends: handoffs and retries cannot keep the graph running.
TurnEnds == node # "idle" ~> node = "idle"
==============================================================================
