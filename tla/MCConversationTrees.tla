------------------------ MODULE MCConversationTrees ------------------------
(* Conversations for TLC: a is a root, b answers the prompt or the status of *)
(* a, c is another message.                                                 *)
EXTENDS ConversationTrees

CONSTANTS a, b, c, a1, a2, b1, c1

Prompt(m) == [message |-> m, kind |-> "prompt"]
Status(m) == [message |-> m, kind |-> "status"]

MessageOf == [d \in Deliveries |->
  IF d \in {a1, a2} THEN a ELSE IF d = b1 THEN b ELSE c]

\* b answers the status of a, c the prompt of a: siblings in different subtrees.
Siblings == [m \in Messages |->
  IF m = b THEN Status(a) ELSE IF m = c THEN Prompt(a) ELSE NoReference]

AllReferences == References
PromptsOnly   == {Prompt(m) : m \in Messages}
=============================================================================
