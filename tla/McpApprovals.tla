----------------------------- MODULE McpApprovals -----------------------------
(***************************************************************************)
(* The approvals of the MCP server (src/src/mcp/service.rs): a tool that   *)
(* changes an automation only stores a request, which the user approves or *)
(* rejects within 24 hours; approving it runs the tool.  The tools are the *)
(* calls of the service in Automations, whose requests of the API run      *)
(* beside them; the executor touches no request and is left out.           *)
(***************************************************************************)
EXTENDS Automations

CONSTANTS
    Requests,       \* mcp_approval_requests rows
    Tools           \* the tools' arguments, as calls of the service: see ToolShape

\* A tool's automation has no idempotency key.
ToolShape(t) ==
    \/ t.op = "publish" /\ t.arg = None /\ t.workflow \in Workflows
    \/ t.op = "update" /\ t.arg \in Ids \cup Markets /\ t.workflow \in Workflows
    \/ t.op \in {"pause", "resume", "delete"} /\ t.arg \in Ids \cup Markets /\ t.workflow = None

ASSUME ToolsAssumption == \A t \in Tools : ToolShape(t)
ASSUME NoRequestAssumption == None \notin Requests /\ None \notin Tools

VARIABLES
    status,         \* of each request
    tool,           \* its tool and arguments
    overdue,        \* the requests past expires_at
    notice,         \* status of the alert that asks for the approval
    told,           \* the decisions that alerts tell of
    dec,            \* locals of the handlers of requests
    executed,       \* how many times each request's tool has taken effect
    troubled        \* requests with two decisions at once, or one cut short

approvals == <<status, tool, overdue, notice, told, dec, executed, troubled>>
allVars == <<vars, approvals>>

NoDecision == [req |-> None, stage |-> "idle", as |-> "none", acted |-> FALSE]

AInit ==
    /\ Init
    /\ status = [r \in Requests |-> "none"]
    /\ tool = [r \in Requests |-> None]
    /\ overdue = {}
    /\ notice = [r \in Requests |-> "none"]
    /\ told = [r \in Requests |-> {}]
    /\ dec = [c \in Callers |-> NoDecision]
    /\ executed = [r \in Requests |-> 0]
    /\ troubled = {}
-----------------------------------------------------------------------------
Free(c) == At(c, "idle") /\ dec[c] = NoDecision
Doing(c, stage) == dec[c].stage = stage

\* Mutation: a request can be decided at any time.
Pending_Any(r) == status[r] # "none"

\* Mutation: what was refused can be decided again.
Pending_Unapproved(r) == status[r] \notin {"none", "approved"}

\* The test of find_pending_approval.
Pending(r) == status[r] = "pending"

\* create_approval_request: the row, then the alert that asks for a decision.
Propose(c, r, t) ==
    /\ Free(c)
    /\ status[r] = "none"
    /\ status' = [status EXCEPT ![r] = "pending"]
    /\ tool' = [tool EXCEPT ![r] = t]
    /\ dec' = [dec EXCEPT ![c] = [NoDecision EXCEPT !.req = r, !.stage = "ask"]]
    /\ UNCHANGED <<vars, overdue, notice, told, executed, troubled>>

Ask(c) ==
    /\ Doing(c, "ask")
    /\ notice' = [notice EXCEPT ![dec[c].req] = "pending"]
    /\ dec' = [dec EXCEPT ![c] = NoDecision]
    /\ UNCHANGED <<vars, status, tool, overdue, told, executed, troubled>>

Expire(r) ==
    /\ status[r] # "none"
    /\ r \notin overdue
    /\ overdue' = overdue \cup {r}
    /\ UNCHANGED <<vars, status, tool, notice, told, dec, executed, troubled>>

Deciding(r) == {c \in Callers : dec[c].req = r /\ dec[c].stage # "ask"}

\* find_pending_approval, with a second decision of the request noted.
Open(c, r, decision) ==
    /\ Free(c)
    /\ Pending(r)
    /\ dec' = [dec EXCEPT ![c] = [NoDecision EXCEPT !.req = r, !.as = decision,
                        !.stage = IF decision = "approved" THEN "execute" ELSE "write"]]
    /\ troubled' = IF Deciding(r) # {} THEN troubled \cup {r} ELSE troubled

\* A late decision of either kind only marks the request.
FindExpired(c, r) ==
    /\ r \in overdue
    /\ Open(c, r, "expired")
    /\ UNCHANGED <<vars, status, tool, overdue, notice, told, executed>>

Reject(c, r) ==
    /\ r \notin overdue
    /\ Open(c, r, "rejected")
    /\ UNCHANGED <<vars, status, tool, overdue, notice, told, executed>>

\* approve_request: the tool is run before the approval is written.
Approve(c, r) ==
    /\ r \notin overdue
    /\ Open(c, r, "approved")
    /\ Begin(c, [NoCall EXCEPT !.op = tool[r].op, !.arg = tool[r].arg,
                               !.workflow = tool[r].workflow,
                               !.stage = IF tool[r].op = "publish" THEN "lookup" ELSE "find"])
    /\ UNCHANGED <<tables, exec, now, restarts, ghosts>>
    /\ UNCHANGED <<status, tool, overdue, notice, told, executed>>

TakesEffect(c) ==
    call[c].stage \in {"insert", "write"} /\ call'[c].stage \in {"forget", "alert"}

\* A step of a call, the API's or that of a tool.
Step(c) ==
    LET r == dec[c].req IN
    /\ CallStep(c)
    /\ IF Doing(c, "execute") /\ TakesEffect(c)
         THEN /\ executed' = [executed EXCEPT ![r] = @ + 1]
              /\ dec' = [dec EXCEPT ![c].acted = TRUE]
         ELSE UNCHANGED <<executed, dec>>
    /\ UNCHANGED <<status, tool, overdue, notice, told, troubled>>

\* A decision that ends before it is written: had its tool taken effect?
Cut(c) == IF dec[c].acted /\ Doing(c, "execute") THEN troubled \cup {dec[c].req} ELSE troubled

\* Mutation: the result of the tool is not looked at.
Executed_Ignored(c) ==
    /\ Doing(c, "execute") /\ At(c, "done")
    /\ call' = [call EXCEPT ![c] = NoCall]
    /\ dec' = [dec EXCEPT ![c].stage = "write"]
    /\ UNCHANGED troubled
    /\ UNCHANGED <<tables, calls, exec, now, restarts, ghosts>>
    /\ UNCHANGED <<status, tool, overdue, notice, told, executed>>

\* An error of the tool ends the decision, and the request stays pending.
Executed(c) ==
    /\ Doing(c, "execute") /\ At(c, "done")
    /\ call' = [call EXCEPT ![c] = NoCall]
    /\ IF call[c].ok THEN dec' = [dec EXCEPT ![c].stage = "write"] /\ UNCHANGED troubled
                     ELSE dec' = [dec EXCEPT ![c] = NoDecision] /\ troubled' = Cut(c)
    /\ UNCHANGED <<tables, calls, exec, now, restarts, ghosts>>
    /\ UNCHANGED <<status, tool, overdue, notice, told, executed>>

\* The decision is written whatever the row holds by now.
Write(c) ==
    /\ Doing(c, "write")
    /\ status' = [status EXCEPT ![dec[c].req] = dec[c].as]
    /\ dec' = [dec EXCEPT ![c] = IF @.as = "expired" THEN NoDecision
                                 ELSE [@ EXCEPT !.stage = "notify", !.acted = FALSE]]
    /\ UNCHANGED <<vars, tool, overdue, notice, told, executed, troubled>>

\* Mutation: a rejection is shown as an approval.
Shown_Approved(decision) == "approved"

\* What the alert is marked with.
Shown(decision) == decision

\* mark_approval_alert_decided, if the alert with the request's id is still there.
Notify(c) ==
    LET r == dec[c].req IN
    /\ Doing(c, "notify")
    /\ notice' = IF notice[r] = "none" THEN notice
                 ELSE [notice EXCEPT ![r] = Shown(dec[c].as)]
    /\ dec' = [dec EXCEPT ![c].stage = "tell"]
    /\ UNCHANGED <<vars, status, tool, overdue, told, executed, troubled>>

\* The last statement of approve_request and of reject_request.
Tell(c) ==
    /\ Doing(c, "tell")
    /\ told' = [told EXCEPT ![dec[c].req] = @ \cup {dec[c].as}]
    /\ dec' = [dec EXCEPT ![c] = NoDecision]
    /\ UNCHANGED <<vars, status, tool, overdue, notice, executed, troubled>>

\* A statement fails, or the caller is gone and the handler is dropped.
Abandon(c) ==
    /\ dec[c] # NoDecision
    /\ dec' = [dec EXCEPT ![c] = NoDecision]
    /\ call' = [call EXCEPT ![c] = NoCall]
    /\ troubled' = IF dec[c].acted THEN troubled \cup {dec[c].req} ELSE troubled
    /\ disturbed' = IF At(c, "forget") THEN disturbed \cup {call[c].id} ELSE disturbed
    /\ UNCHANGED <<tables, calls, exec, now, restarts, alertAt, unrecorded>>
    /\ UNCHANGED <<status, tool, overdue, notice, told, executed>>

\* clear_alerts
Clear ==
    /\ notice' = [r \in Requests |-> "none"]
    /\ told' = [r \in Requests |-> {}]
    /\ UNCHANGED <<vars, status, tool, overdue, dec, executed, troubled>>

\* What the API itself starts and answers.
Serve(c) ==
    /\ dec[c] = NoDecision
    /\ Request(c) \/ Answer(c)
    /\ UNCHANGED approvals

ANext ==
    \/ \E c \in Callers :
        \/ \E r \in Requests, t \in Tools : Propose(c, r, t)
        \/ \E r \in Requests : FindExpired(c, r) \/ Reject(c, r) \/ Approve(c, r)
        \/ Ask(c) \/ Step(c) \/ Executed(c) \/ Write(c) \/ Notify(c) \/ Tell(c)
        \/ Abandon(c) \/ Serve(c)
    \/ \E r \in Requests : Expire(r)
    \/ Clear

ASpec == AInit /\ [][ANext]_allVars
-----------------------------------------------------------------------------
(* Properties.                                                             *)

Statuses == {"pending", "approved", "rejected", "expired"}

Decisions == [req : Requests \cup {None}, acted : BOOLEAN,
              stage : {"idle", "ask", "execute", "write", "notify", "tell"},
              as : {"none", "approved", "rejected", "expired"}]

ATypeOK ==
    /\ TypeOK
    /\ status \in [Requests -> Statuses \cup {"none"}]
    /\ tool \in [Requests -> Tools \cup {None}]
    /\ \A r \in Requests : (tool[r] = None) = (status[r] = "none")
    /\ overdue \subseteq Requests
    /\ notice \in [Requests -> Statuses \cup {"none"}]
    /\ told \in [Requests -> SUBSET Statuses]
    /\ dec \in [Callers -> Decisions]
    /\ executed \in [Requests -> Nat]
    /\ troubled \subseteq Requests

Once(r) ==
    /\ executed[r] <= 1
    /\ status[r] \in {"rejected", "expired"} => executed[r] = 0

(* A request is decided once: its tool takes effect at most once, and not  *)
(* at all if the request is rejected or has expired - provided that no two *)
(* of its decisions overlap and none is cut short between the effect of    *)
(* the tool and the write of the decision (approve_request and             *)
(* reject_request).                                                        *)
AloneIsDecidedOnce == \A r \in Requests \ troubled : Once(r)

\* With the same proviso the handlers implement the abstract decision; a
\* request outside the proviso is disputed there.
Decision == INSTANCE ApprovalDecision
    WITH outcome <- [r \in Requests |-> IF r \in troubled THEN "disputed" ELSE status[r]],
         effects <- [r \in Requests |-> IF r \in troubled THEN 0 ELSE executed[r]]

(* With the same proviso a request goes the way the abstract one does: it  *)
(* is asked for, then refused without effect, or executed and approved     *)
(* after it; no later step of any handler changes a decision               *)
(* (find_pending_approval, approve_request, reject_request).               *)
DecisionSpec == Decision!Spec

(* AloneIsDecidedOnce without the proviso: what find_pending_approval      *)
(* tells the second caller, "MCP approval request is already decided".     *)
DecidedOnce == \A r \in Requests : Once(r)

(* A request that is approved has had its effect: no approval is written   *)
(* for a tool that failed, whatever other decisions are under way          *)
(* (approve_request runs the tool and passes its error on).                *)
ApprovedWasExecuted == \A r \in Requests : status[r] = "approved" => executed[r] >= 1

(* No alert shows a decision the request has not had, neither the one that *)
(* asked for it (mark_approval_alert_decided) nor the one that tells of it *)
(* (approve_request and reject_request): alerts may be behind the request, *)
(* but not ahead of it, nor differ from it or from each other.             *)
NoticeIsTrue ==
    \A r \in Requests \ troubled :
        /\ notice[r] \notin {"none", "pending"} => notice[r] = status[r]
        /\ told[r] \subseteq {status[r]}
=============================================================================
