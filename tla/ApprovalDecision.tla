-------------------------- MODULE ApprovalDecision --------------------------
(***************************************************************************)
(* What a request for approval promises, without handlers, calls or        *)
(* alerts: its tool takes effect at most once, and only on the way to its  *)
(* approval; a request is refused only if it has had no effect, and what   *)
(* is decided stays decided.  A pending request may become disputed, of    *)
(* which nothing is promised.  McpApprovals implements it.                 *)
(***************************************************************************)
EXTENDS Naturals

CONSTANTS Requests

VARIABLES
    outcome,    \* what has become of each request
    effects     \* how often its tool has taken effect

Init ==
    /\ outcome = [r \in Requests |-> "none"]
    /\ effects = [r \in Requests |-> 0]

Become(r, from, to) ==
    /\ outcome[r] = from
    /\ outcome' = [outcome EXCEPT ![r] = to]

Ask(r) == Become(r, "none", "pending") /\ UNCHANGED effects

Act(r) ==
    /\ outcome[r] = "pending" /\ effects[r] = 0
    /\ effects' = [effects EXCEPT ![r] = 1]
    /\ UNCHANGED outcome

Approve(r) == effects[r] = 1 /\ Become(r, "pending", "approved") /\ UNCHANGED effects

Refuse(r) ==
    /\ effects[r] = 0
    /\ Become(r, "pending", "rejected") \/ Become(r, "pending", "expired")
    /\ UNCHANGED effects

Dispute(r) ==
    /\ Become(r, "pending", "disputed")
    /\ effects' = [effects EXCEPT ![r] = 0]

Next == \E r \in Requests : Ask(r) \/ Act(r) \/ Approve(r) \/ Refuse(r) \/ Dispute(r)

Spec == Init /\ [][Next]_<<outcome, effects>>
=============================================================================
