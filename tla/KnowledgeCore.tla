---------------------------- MODULE KnowledgeCore ----------------------------
(***************************************************************************)
(* What the knowledge agent promises whoever calls it about one thread:   *)
(* it works on one request at a time, and a question it has asked stays    *)
(* open, with the same options, until a reply that is one of them is taken *)
(* up, or the memory is cleared.  How it reaches an answer is no part of   *)
(* the promise.                                                            *)
(***************************************************************************)
CONSTANTS Options, NoQuestion, NoReply

VARIABLES
    busy,       \* a request is being worked on
    reply,      \* the reply it brought that is not taken up yet, or NoReply
    question    \* the options of the open question, or NoQuestion

vars == <<busy, reply, question>>

Init == busy = FALSE /\ reply = NoReply /\ question = NoQuestion

\* A new message is worked on only while no question is open.
Start == ~busy /\ question = NoQuestion /\ busy' = TRUE /\ UNCHANGED <<reply, question>>

\* A reply is taken up if it is one of the options, or there are none.
Resume(text) ==
    /\ ~busy /\ question # NoQuestion
    /\ question = {} \/ text \in question
    /\ busy' = TRUE /\ reply' = text
    /\ UNCHANGED question

\* At work the agent may take the reply up and go on from its question, and
\* then ask another.  The request ends, answered or cut short, with or without
\* a question left open.
Work ==
    /\ busy
    /\ busy' \in BOOLEAN
    /\ reply' \in IF busy' THEN {reply, NoReply} ELSE {NoReply}
    /\ question' \in (SUBSET Options) \cup {NoQuestion}

Clear == ~busy /\ question' = NoQuestion /\ UNCHANGED <<busy, reply>>

Next ==
    \/ Start \/ Work \/ Clear
    \/ \E text \in Options : Resume(text)

Spec == Init /\ [][Next]_vars
==============================================================================
