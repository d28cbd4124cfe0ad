--------------------------- MODULE MCKnowledgeAgent ---------------------------
(* Instances of KnowledgeAgent for TLC. *)
EXTENDS KnowledgeAgent

\* The model offers nothing, real names or labels of its own.
SomeOffers == {{}, AssetNames, Labels}

\* Names come from a listing then, and are kept or not for the model's labels.
LabelsOrNone == {{}, Labels}

\* Two results of one response, and a question among calls.
SomeCallLists == {<<"search", "list">>, <<"search", "clarify">>}
==============================================================================
