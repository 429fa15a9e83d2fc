---------------------------- MODULE MCMcpApprovals ----------------------------
(* McpApprovals on small instances.                                        *)
EXTENDS McpApprovals, TLC

CONSTANT m1

MCWorkflows == {[market |-> m1, metric |-> "price", actions |-> <<"message">>]}

MCTools ==
    {[op |-> "publish", arg |-> None, workflow |-> w] : w \in MCWorkflows}
    \cup {[op |-> "update", arg |-> m1, workflow |-> w] : w \in MCWorkflows}
    \cup {[op |-> o, arg |-> m1, workflow |-> None] : o \in {"pause", "resume", "delete"}}

Symmetry == Permutations(Ids) \cup Permutations(Callers) \cup Permutations(Requests)
=============================================================================
