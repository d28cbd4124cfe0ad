---------------------------- MODULE KnowledgeAgent ----------------------------
(***************************************************************************)
(* The knowledge agent of one project on one thread: a LangGraph graph that *)
(* lets a model call tools, ask the user and answer, over a memory that a  *)
(* checkpoint carries from turn to turn.  Requests of the thread exclude   *)
(* one another (ThreadLocks), so there is one turn at a time; its caller   *)
(* is the knowledge API, plain or streaming, or the workflow.              *)
(*                                                                         *)
(* Each node is one super-step.  Its state is saved in the background, one *)
(* save after another, while the graph goes on; a call of the model may    *)
(* even keep the saves from moving.  So a turn that is cut short leaves    *)
(* any state it has been in, or the one it began with; a turn that ends    *)
(* has waited for its last save.  Texts are abstracted to what the graph   *)
(* tells apart, and the system message, always first and always rebuilt,   *)
(* is left out.                                                            *)
(***************************************************************************)
EXTENDS Naturals, Sequences, SequencesExt, FiniteSets

CONSTANTS
    Chunks,         \* ids of the chunks a search may return
    AssetNames,     \* names of the project's files
    Labels,         \* option texts that name no file
    Offers,         \* the sets of options the model may offer
    MaxIterations,  \* max_iterations
    MaxMemory,      \* max_memory_messages
    CallLists,      \* the lists of tools the model may call in one response
    MaxTurns,       \* bound: requests in one behaviour
    MaxCuts         \* bound: turns cut short

Options == AssetNames \cup Labels
NoQuestion == {"no question"}
CountLimit == MaxIterations * (MaxCuts + 1) + MaxTurns    \* bound: counters saturate here, out of reach

ASSUME KnowledgeAssumption ==
    /\ MaxIterations \in Nat \ {0}
    /\ MaxMemory \in Nat /\ MaxMemory >= 5
    /\ MaxTurns \in Nat /\ MaxCuts \in Nat
    /\ Offers \subseteq SUBSET Options
    /\ {"no question", "no reply", "other"} \cap Options = {}
    /\ CallLists \subseteq Seq({"search", "read", "list", "clarify"}) \ {<<>>}

VARIABLES
    turn,     \* the request being served
    run,      \* the state of the graph, in memory
    ck,       \* the state in the thread's checkpoint, as the turn found it
    saves,    \* the states the turn has handed over to be saved
    shown,    \* history: the options of the question the user was last shown
    lost,     \* history: the last turn that began was cut short
    calls,    \* history: model calls since the last message of the user
    extra,    \* history: replies since then to questions put in the content
    reopened, \* history: questions since then that a cut left open again
    turns,    \* history: requests so far
    cuts      \* history: turns cut short so far

vars == <<turn, run, ck, saves, shown, lost, calls, extra, reopened, turns, cuts>>
counts == <<calls, extra, reopened, turns, cuts>>

-----------------------------------------------------------------------------
(* What the graph keeps.                                                   *)

Tools == {"search", "read", "list", "clarify"}

Message(kind, count, chunks) == [kind |-> kind, count |-> count, chunks |-> chunks]
Execution(tool, got) == [tool |-> tool, got |-> got]

NoResponse == [kind |-> "none", calls |-> <<>>, question |-> "none", offers |-> {}, cites |-> {}]

\* A question in a tool call may be blank or its arguments no JSON object.
Responses ==
    {[NoResponse EXCEPT !.kind = "answer", !.cites = c] : c \in SUBSET Chunks}
        \cup {[NoResponse EXCEPT !.kind = "choice"]}
        \cup {[NoResponse EXCEPT !.kind = "structured", !.offers = o] : o \in Offers}
        \cup {[NoResponse EXCEPT !.kind = "calls", !.calls = c]
                 : c \in {c \in CallLists : "clarify" \notin Range(c)}}
        \cup {[NoResponse EXCEPT !.kind = "calls", !.calls = x[1], !.question = x[2]]
                 : x \in {c \in CallLists : "clarify" \in Range(c)} \X {"blank", "garbled"}}
        \cup {[NoResponse EXCEPT !.kind = "calls", !.calls = x[1], !.question = "clear", !.offers = x[2]]
                 : x \in {c \in CallLists : "clarify" \in Range(c)} \X Offers}

\* What the graph itself looks at in a result: the chunks found, the names
\* listed.  A failed or empty call has none, as an unknown or denied one.
Outcomes(tool) ==
    IF tool = "search" THEN {{}} \cup {{c} : c \in Chunks}
    ELSE IF tool = "list" THEN {{}, AssetNames}
    ELSE {{}}

Nodes == {"none", "build_state", "llm_decision", "execute_tool", "update_messages",
          "request_clarification", "final_answer", "failure", "end"}

Fresh == [node |-> "none", msgs |-> <<>>, history |-> <<>>, response |-> NoResponse,
          pending |-> <<>>, options |-> {}, used |-> {}, iterations |-> 0,
          error |-> FALSE, success |-> FALSE, limit |-> FALSE, asked |-> NoQuestion]

NoReply == "no reply"
NoTurn == [busy |-> FALSE, reply |-> NoReply, raised |-> FALSE]

Replying == turn.reply # NoReply

Waiting(state) == state.asked # NoQuestion

-----------------------------------------------------------------------------
(* Memory.                                                                 *)

LastOf(s, n) == SubSeq(s, Max({1, Len(s) - n + 1}), Len(s))

\* The tail that starts with a message of the user: a tool result is never
\* kept without its call.
FromUser(s) ==
    LET starts == {i \in DOMAIN s : s[i].kind = "user"}
    IN  IF starts = {} THEN <<>> ELSE SubSeq(s, Min(starts), Len(s))

\* Mutant: the cut may fall inside a turn.
RetainedAnywhere(msgs) == LastOf(msgs, MaxMemory - 3)

\* Room is left for the system prompt, the new message and the answer.
Retained(msgs) == FromUser(LastOf(msgs, MaxMemory - 3))

\* Mutant: the tool history starts anew with every message.
KeptNothing(history) == <<>>

KeptHistory(history) == LastOf(history, MaxMemory)

FoundChunks(history) == UNION {e.got : e \in {e \in Range(history) : e.tool = "search"}}

\* The names in the latest listing, of this turn or an earlier one.
ListedNames(history) ==
    LET lists == {i \in DOMAIN history : history[i].tool = "list"}
    IN  IF lists = {} THEN {} ELSE history[Max(lists)].got

-----------------------------------------------------------------------------
(* Requests.                                                               *)

Init ==
    /\ turn = NoTurn /\ run = Fresh /\ ck = Fresh /\ saves = {}
    /\ shown = NoQuestion /\ lost = FALSE
    /\ calls = 0 /\ extra = 0 /\ reopened = 0 /\ turns = 0 /\ cuts = 0

Request == ~turn.busy /\ turns < MaxTurns /\ turns' = turns + 1

\* Mutant: the open question is not looked for.
SendAnyway ==
    /\ Request
    /\ turn' = [NoTurn EXCEPT !.busy = TRUE]
    /\ run' = [ck EXCEPT !.node = "build_state", !.asked = NoQuestion]
    /\ saves' = {run'}
    /\ shown' = NoQuestion /\ calls' = 0 /\ extra' = 0 /\ reopened' = 0
    /\ UNCHANGED <<ck, lost, cuts>>

\* A new message; it is refused while a question is open.
Send ==
    /\ Request
    /\ IF Waiting(ck)
       THEN UNCHANGED <<turn, run, saves, shown, calls, extra, reopened>>
       ELSE /\ turn' = [NoTurn EXCEPT !.busy = TRUE]
            /\ run' = [ck EXCEPT !.node = "build_state"]
            /\ saves' = {run'}
            /\ shown' = NoQuestion /\ calls' = 0 /\ extra' = 0 /\ reopened' = 0
    /\ UNCHANGED <<ck, lost, cuts>>

\* A reply; one that is none of the options is answered with the question.
Reply(text) ==
    /\ Request
    /\ \/ /\ ~Waiting(ck)
          /\ UNCHANGED <<turn, run, shown, lost>>
       \/ /\ Waiting(ck) /\ ck.asked # {} /\ text \notin ck.asked
          /\ shown' = ck.asked /\ lost' = FALSE
          /\ UNCHANGED <<turn, run>>
       \/ /\ Waiting(ck) /\ (ck.asked = {} \/ text \in ck.asked)
          /\ turn' = [NoTurn EXCEPT !.busy = TRUE, !.reply = text]
          /\ run' = ck
          /\ shown' = NoQuestion
          /\ UNCHANGED lost
    /\ UNCHANGED <<ck, saves, calls, extra, reopened, cuts>>

\* A confirmed request to clear the memory; one that is not only reads it.
ClearMemory ==
    /\ Request
    /\ ck' = Fresh
    /\ shown' = NoQuestion /\ lost' = FALSE
    /\ UNCHANGED <<turn, run, saves, calls, extra, reopened, cuts>>

-----------------------------------------------------------------------------
(* The nodes.                                                              *)

At(node) == turn.busy /\ ~turn.raised /\ run.node = node

\* The state is saved while the graph goes on.  The checkpoint is read again only
\* when the turn is over, so how far the saves have come is left open until then.
Saving == saves' = saves \cup {run'} /\ UNCHANGED ck

BuildState ==
    /\ At("build_state")
    /\ run' = [run EXCEPT !.node = "llm_decision",
                          !.msgs = Append(Retained(run.msgs), Message("user", 0, {})),
                          !.history = KeptHistory(run.history),
                          !.response = NoResponse, !.pending = <<>>, !.options = {},
                          !.used = {}, !.iterations = 0, !.error = FALSE,
                          !.success = FALSE, !.limit = FALSE]
    /\ Saving
    /\ UNCHANGED <<turn, shown, lost, counts>>

Count(n) == Min({n + 1, CountLimit})

\* Mutant: a question is routed before the iterations are counted.
RouteQuestionsFirst(state) ==
    IF state.error THEN "failure"
    ELSE IF state.response.kind # "calls" THEN
        IF \/ state.response.kind = "structured"
           \/ state.response.kind = "choice" /\ Cardinality(ListedNames(state.history)) >= 2
        THEN "request_clarification" ELSE "final_answer"
    ELSE IF "clarify" \in Range(state.response.calls) THEN "request_clarification"
    ELSE IF state.iterations >= MaxIterations THEN "failure"
    ELSE "execute_tool"

\* Where the graph goes from a response, or from a call that failed.
RouteAfterLLM(state) ==
    IF state.error THEN "failure"
    ELSE IF state.response.kind # "calls" THEN
        IF \/ state.response.kind = "structured"
           \/ state.response.kind = "choice" /\ Cardinality(ListedNames(state.history)) >= 2
        THEN "request_clarification" ELSE "final_answer"
    ELSE IF state.iterations >= MaxIterations THEN "failure"
    ELSE IF "clarify" \in Range(state.response.calls) THEN "request_clarification"
    ELSE "execute_tool"

LLMDecision ==
    /\ At("llm_decision")
    /\ \E failed \in BOOLEAN, response \in Responses :
          LET state == [run EXCEPT !.iterations = Count(run.iterations),
                                   !.response = IF failed THEN NoResponse ELSE response,
                                   !.success = run.success /\ ~failed,
                                   !.error = failed]
          IN  run' = [state EXCEPT !.node = RouteAfterLLM(state)]
    /\ calls' = Count(calls)
    /\ Saving
    /\ UNCHANGED <<turn, shown, lost, extra, reopened, turns, cuts>>

ExecuteTool ==
    /\ At("execute_tool")
    /\ LET wanted == run.response.calls
       IN  \E got \in [DOMAIN wanted -> UNION {Outcomes(t) : t \in Range(wanted)}] :
              /\ \A i \in DOMAIN wanted : got[i] \in Outcomes(wanted[i])
              /\ run' = [run EXCEPT !.node = "update_messages",
                                    !.pending = [i \in DOMAIN wanted |-> Execution(wanted[i], got[i])]]
    /\ Saving
    /\ UNCHANGED <<turn, shown, lost, counts>>

ChunksOf(execution) == IF execution.tool = "search" THEN execution.got ELSE {}

UpdateMessages ==
    /\ At("update_messages")
    /\ run' = [run EXCEPT !.node = "llm_decision",
                          !.msgs = run.msgs \o <<Message("call", Len(run.response.calls), {})>>
                              \o [i \in DOMAIN run.pending |-> Message("result", 0, ChunksOf(run.pending[i]))],
                          !.history = run.history \o run.pending,
                          !.pending = <<>>, !.response = NoResponse]
    /\ Saving
    /\ UNCHANGED <<turn, shown, lost, counts>>

\* Mutant: a way out that no reply is matched with is added.
StableOptionsAndOther(offers, previous, names) == offers \cup {"other"}

\* Options that a reply can be matched with are kept: those of the last
\* question of the turn, else the names listed, unless some are offered again.
StableOptions(offers, previous, names) ==
    IF previous # {} /\ offers \cap previous = {} THEN previous
    ELSE IF names # {} /\ offers \cap names = {} THEN names
    ELSE offers

CurrentOptions == StableOptions(run.response.offers, run.options, ListedNames(run.history))

\* The question's arguments are no JSON object: the turn fails.
RaiseGarbled ==
    /\ At("request_clarification") /\ run.response.question = "garbled"
    /\ turn' = [turn EXCEPT !.raised = TRUE]
    /\ UNCHANGED <<run, ck, saves, shown, lost, counts>>

\* The question is blank: the model is asked again.
SkipBlank ==
    /\ At("request_clarification") /\ run.response.question = "blank"
    /\ run' = [run EXCEPT !.node = "llm_decision", !.success = FALSE, !.error = TRUE]
    /\ Saving
    /\ UNCHANGED <<turn, shown, lost, counts>>

Clear == run.response.question \notin {"garbled", "blank"}

Interrupt ==
    /\ At("request_clarification") /\ Clear
    /\ ~Replying /\ ~Waiting(run)
    /\ run' = [run EXCEPT !.asked = CurrentOptions]
    /\ Saving
    /\ UNCHANGED <<turn, shown, lost, counts>>

\* Every call of the response is answered: the question with the reply, the
\* others with a note that they were deferred.
TakeReply ==
    /\ At("request_clarification") /\ Clear
    /\ Replying
    /\ LET answered == IF run.response.kind = "calls" THEN Len(run.response.calls) ELSE 1
       IN  run' = [run EXCEPT !.node = "llm_decision",
                             !.msgs = run.msgs \o <<Message("call", answered, {})>>
                                 \o [i \in 1..answered |-> Message("result", 0, {})],
                             !.response = NoResponse, !.pending = <<>>,
                             !.options = CurrentOptions, !.error = FALSE, !.asked = NoQuestion]
    /\ turn' = [turn EXCEPT !.reply = NoReply]
    /\ extra' = IF run.response.kind = "calls" THEN extra ELSE Count(extra)
    /\ Saving
    /\ UNCHANGED <<shown, lost, calls, reopened, turns, cuts>>

FinalAnswer ==
    /\ At("final_answer")
    /\ run' = [run EXCEPT !.node = "end",
                          !.msgs = Append(run.msgs, Message("answer", 0, {})),
                          !.used = run.response.cites \cap FoundChunks(run.history),
                          !.success = TRUE, !.error = FALSE]
    /\ Saving
    /\ UNCHANGED <<turn, shown, lost, counts>>

Failure ==
    /\ At("failure")
    /\ run' = [run EXCEPT !.node = "end", !.used = {}, !.success = FALSE, !.error = TRUE,
                          !.limit = (run.iterations >= MaxIterations)]
    /\ Saving
    /\ UNCHANGED <<turn, shown, lost, counts>>

-----------------------------------------------------------------------------
(* The end of a turn.                                                      *)

Paused == Waiting(run) /\ ~Replying

\* Mutant: the answer does not wait for the last save.
RespondEarly ==
    /\ turn.busy
    /\ run.node = "end" \/ turn.raised \/ Paused
    /\ ck' \in {ck} \cup saves
    /\ turn' = NoTurn /\ run' = Fresh /\ saves' = {}
    /\ shown' = run.asked /\ lost' = FALSE
    /\ UNCHANGED counts

\* Mutant: a turn that waits for a reply is not given back to its caller.
RespondUnpaused ==
    /\ turn.busy
    /\ run.node = "end" \/ turn.raised
    /\ ck' = run
    /\ turn' = NoTurn /\ run' = Fresh /\ saves' = {}
    /\ shown' = run.asked /\ lost' = FALSE
    /\ UNCHANGED counts

\* The plain API answers from what the graph returns, the stream from the
\* checkpoint it reads again: both after the last save.
Respond ==
    /\ turn.busy
    /\ run.node = "end" \/ turn.raised \/ Paused
    /\ ck' = run
    /\ turn' = NoTurn /\ run' = Fresh /\ saves' = {}
    /\ shown' = run.asked /\ lost' = FALSE
    /\ UNCHANGED counts

\* The client leaves or the process dies, at a call of the model before or after
\* it was made; or a save has failed, which the graph reports when it is left.
\* A question whose reply was taken up may be open again.
CutShort ==
    /\ turn.busy /\ cuts < MaxCuts
    /\ ck' \in {ck} \cup saves
    /\ calls' \in IF At("llm_decision") THEN {calls, Count(calls)} ELSE {calls}
    /\ reopened' = IF Waiting(ck') /\ ck' # run THEN reopened + 1 ELSE reopened
    /\ turn' = NoTurn /\ run' = Fresh /\ saves' = {}
    /\ lost' = TRUE /\ cuts' = cuts + 1
    /\ UNCHANGED <<shown, extra, turns>>

Nodewise ==
    \/ BuildState \/ LLMDecision \/ ExecuteTool \/ UpdateMessages
    \/ RaiseGarbled \/ SkipBlank \/ Interrupt \/ TakeReply
    \/ FinalAnswer \/ Failure

Next ==
    \/ Send \/ ClearMemory \/ (\E text \in Options \cup {"other"} : Reply(text))
    \/ Nodewise \/ Respond \/ CutShort

\* A running turn is not abandoned by its process: nodes go on, the provider
\* answers or times out, and saves complete.
Spec == Init /\ [][Next]_vars /\ WF_vars(Nodewise) /\ WF_vars(Respond)

-----------------------------------------------------------------------------
(* Properties.                                                             *)

Texts == {"user", "answer", "call", "result"}
MessageType == [kind : Texts, count : Nat, chunks : SUBSET Chunks]
ExecutionType == [tool : Tools, got : SUBSET (Chunks \cup AssetNames)]
StateType ==
    [node : Nodes, msgs : Seq(MessageType), history : Seq(ExecutionType), response : Responses \cup {NoResponse},
     pending : Seq(ExecutionType), options : SUBSET Options, used : SUBSET Chunks,
     iterations : 0..CountLimit, error : BOOLEAN, success : BOOLEAN, limit : BOOLEAN,
     asked : (SUBSET Options) \cup {NoQuestion}]

\* The shape of the turn, the graph's state and the checkpoint.
TypeOK ==
    /\ turn \in [busy : BOOLEAN, reply : Options \cup {"other", NoReply}, raised : BOOLEAN]
    /\ run \in StateType /\ ck \in StateType /\ saves \subseteq StateType
    /\ shown \in (SUBSET Options) \cup {NoQuestion} /\ lost \in BOOLEAN
    /\ calls \in 0..CountLimit /\ extra \in 0..CountLimit
    /\ turns \in 0..MaxTurns /\ cuts \in 0..MaxCuts /\ reopened \in 0..cuts

WellFormed(msgs) ==
    /\ msgs # <<>> => msgs[1].kind = "user"
    /\ \A i \in DOMAIN msgs : msgs[i].kind = "call" =>
           \A j \in 1..msgs[i].count : i + j \in DOMAIN msgs /\ msgs[i + j].kind = "result"
    /\ \A i \in DOMAIN msgs : msgs[i].kind = "result" =>
           \E k \in 1..(i - 1) : msgs[k].kind = "call" /\ i <= k + msgs[k].count

\* The conversation a model is sent starts with the user and gives every tool
\* call its results and no result without its call, whatever was trimmed,
\* asked in between or cut short: providers refuse any other.
ToolCallsAnswered == WellFormed(run.msgs) /\ WellFormed(ck.msgs)

ShownChunks(msgs) == UNION {m.chunks : m \in Range(msgs)}

\* Messages and tool history are trimmed by different rules; still the model
\* is never shown a search result that it could not cite any more.
VisibleResultsCitable ==
    /\ ShownChunks(run.msgs) \subseteq FoundChunks(run.history)
    /\ ShownChunks(ck.msgs) \subseteq FoundChunks(ck.history)

\* The model calls that one message of the user may cost.
Allowance == MaxIterations + (MaxIterations - 1) * reopened + extra

\* A turn fails for its iterations only after that many model calls since the
\* user's message, over all its questions.  Calls beyond the limit are made only
\* for a reply to a question put in the content, and after a cut that left a
\* question open whose reply was taken up: then at most the calls that were
\* left at the question, one less than the limit, are made again.
IterationsBounded ==
    /\ run.node = "end" /\ run.limit => calls >= MaxIterations
    /\ calls <= Allowance

\* The question the user was last shown, if any, is the one the checkpoint
\* waits with, options included, unless the last turn was cut short.
ShownQuestionIsOpen == ~turn.busy /\ ~lost => shown = ck.asked

Core == INSTANCE KnowledgeCore
            WITH Options <- Options \cup {"other"}, busy <- turn.busy, reply <- turn.reply, question <- ck.asked

\* The agent, its lagging checkpoint and its cut turns included, keeps the
\* promise of KnowledgeCore.
ImplementsCore == Core!Spec

\* Every turn ends: the iterations, blank questions included, are counted.
TurnEnds == turn.busy ~> ~turn.busy

\* nodes/request_clarification.py:71-73 keeps options stable so that the model
\* does not "replace real filenames with labels": a question offered with
\* names of listed files shows some of them.
OfferedNamesAreShown ==
    Waiting(run) /\ ~Replying /\ run.response.offers \cap ListedNames(run.history) # {}
        => run.asked \cap run.response.offers # {}
=============================================================================
