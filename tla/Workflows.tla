------------------------------ MODULE Workflows ------------------------------
(***************************************************************************)
(* What makes a workflow publishable (validate_workflow and the checks it  *)
(* calls, src/src/automations/service.rs), and the order the executor      *)
(* finds in a stored one (ordered_workflow_steps,                          *)
(* src/src/automations/executor.rs).                                       *)
(*                                                                         *)
(* The two are written apart and must agree: the service answers the user, *)
(* the executor runs every 30 seconds where no user sees its errors.       *)
(*                                                                         *)
(* A step has an id, a kind, an action and one parameter, which stands for *)
(* all that its action needs; the texts of titles, messages and markets    *)
(* are left out, and so is the version, which is 1.  The executor's loop   *)
(* over the connections is one action per iteration: nothing in it counts  *)
(* the steps it has seen, so the model stops adding to them when they are  *)
(* more than the workflow's, but does not stop the loop.                   *)
(***************************************************************************)
EXTENDS Integers, SequencesExt

CONSTANTS
    StepIds,        \* what steps are called
    Drafts,         \* the workflows the service is given
    Missing         \* the next step of the last one

\* validate_action_kind: the kind each action must have.  The four that are
\* left out are checked like one of these.
KindOf ==
    [price_moves |-> "trigger", time_check |-> "trigger",
     volume_above |-> "condition", sell |-> "action", send_message |-> "action"]

Intervals == {"5m", "15m", "30m", "1h", "4h", "12h", "24h"}

\* What a step may bring as its parameter: text and none are a number in
\* quotes, and a key left out.
Params == Intervals \cup {"hourly", "YES", "positive", "zero", "text", "none"}

Steps(ids) == [id : ids, kind : {"trigger", "condition", "action"},
               action : DOMAIN KindOf, param : Params]

ASSUME DraftsAssumption ==
    Drafts \subseteq [steps : Seq(Steps(StepIds)),
                     connections : Seq([from : StepIds, to : StepIds])]
ASSUME MissingAssumption == Missing \notin StepIds

VARIABLES
    workflow,       \* the workflow that was received, or was stored before
    accepted,       \* has the service accepted it?
    stage,          \* how far it has come
    current,        \* the id the executor's loop is at
    ordered         \* the steps the loop has been at

workflowVars == <<workflow, accepted, stage, current, ordered>>
-----------------------------------------------------------------------------
Ids(w) == {s.id : s \in Range(w.steps)}
StepWith(w, id) == CHOOSE s \in Range(w.steps) : s.id = id
Edges(w) == Range(w.connections)
Targets(w, id) == {c.to : c \in {d \in Edges(w) : d.from = id}}

\* The places of the steps without a connection to them, and from them.
Roots(w) == {i \in DOMAIN w.steps : \A c \in Edges(w) : c.to # w.steps[i].id}
Sinks(w) == {i \in DOMAIN w.steps : \A c \in Edges(w) : c.from # w.steps[i].id}

\* No two connections, equal or not, to one step or from one step.
NoBranch(w) ==
    \A i, j \in DOMAIN w.connections : i # j =>
        /\ w.connections[i].to # w.connections[j].to
        /\ w.connections[i].from # w.connections[j].from

\* A sequence of as many connections as join the steps of one path.
Spans(w) == Len(w.connections) + 1 = Len(w.steps)
-----------------------------------------------------------------------------
(* The service.                                                            *)

\* Mutation: any text or number is taken, and any interval.
ParamOK_Loose(s) == s.param # "none"

\* validate_params
ParamOK(s) ==
    CASE s.action = "price_moves" -> s.param = "YES"
      [] s.action = "time_check" -> s.param \in Intervals
      [] s.action \in {"volume_above", "sell"} -> s.param = "positive"
      [] s.action = "send_message" -> s.param \notin {"none", "positive", "zero"}

\* Mutation: a condition may follow an action.
KindOrder_Flat(kind) == IF kind = "trigger" THEN 1 ELSE 2

KindOrder(kind) == CASE kind = "trigger" -> 1 [] kind = "condition" -> 2 [] kind = "action" -> 3

StepsOK(w) ==
    /\ w.steps # <<>>
    /\ IsInjective([i \in DOMAIN w.steps |-> w.steps[i].id])
    /\ \A s \in Range(w.steps) : s.kind = KindOf[s.action] /\ ParamOK(s)
    /\ Cardinality({i \in DOMAIN w.steps : w.steps[i].kind = "trigger"}) = 1
    /\ \E s \in Range(w.steps) : s.kind = "action"
    /\ Len(w.steps) > 1 => w.connections # <<>>

\* The connections are between the steps.
Joined(w) == \A c \in Edges(w) : {c.from, c.to} \subseteq Ids(w)

EdgesOK(w) ==
    /\ IsInjective(w.connections)
    /\ Joined(w)
    /\ \A c \in Edges(w) :
        /\ c.from # c.to
        /\ KindOrder(StepWith(w, c.from).kind) <= KindOrder(StepWith(w, c.to).kind)

\* Mutation: a step that is left is not taken off the path to the next one.
Explored_OnPath(path, id) == path \cup {id}

\* visiting, once the search has left id.
Explored(path, id) == path \ {id}

\* What the search knows: found says that it has met its own path, todo is what
\* its innermost loop still has to visit.
Searches(w) ==
    [found : BOOLEAN, visiting : SUBSET Ids(w), visited : SUBSET Ids(w), todo : SUBSET Ids(w)]

Entered(w, search, id) ==
    [search EXCEPT !.visiting = @ \cup {id}, !.todo = Targets(w, id)]

\* Back in the loop, after the search behind id.
Left(search, behind, id) ==
    [search EXCEPT !.found = behind.found, !.visiting = Explored(behind.visiting, id),
                   !.visited = behind.visited \cup {id}]

\* visit, of one step after the other until it has met its own path.
Visit(w) ==
    LET visit[search \in Searches(w)] ==
            IF search.found \/ search.todo = {}
              THEN search
              ELSE LET id == CHOOSE i \in search.todo : TRUE
                       rest == [search EXCEPT !.todo = @ \ {id}]
                   IN visit[CASE id \in search.visiting -> [rest EXCEPT !.found = TRUE]
                              [] id \in search.visited \ search.visiting -> rest
                              [] OTHER -> Left(rest, visit[Entered(w, search, id)], id)]
    IN visit

Unsearched(w) == [found |-> FALSE, visiting |-> {}, visited |-> {}, todo |-> Ids(w)]

HasCycle(w) == Visit(w)[Unsearched(w)].found

\* One beginning, a trigger, and one end, an action.
Ends(w) ==
    /\ Cardinality(Roots(w)) = 1 /\ \A i \in Roots(w) : w.steps[i].kind = "trigger"
    /\ Cardinality(Sinks(w)) = 1 /\ \A i \in Sinks(w) : w.steps[i].kind = "action"

\* The steps met from the first one on, for as many connections as there are.
Followed(w) ==
    LET met[n \in Nat] ==
            IF n = 0 THEN {w.steps[i].id : i \in Roots(w)}
                     ELSE met[n - 1] \cup UNION {Targets(w, id) : id \in met[n - 1]}
    IN met[Len(w.connections)]

\* validate_linear_path
LinearPath(w) ==
    Spans(w) /\ NoBranch(w) /\ Ends(w) /\ Followed(w) = Ids(w)

Valid(w) == StepsOK(w) /\ EdgesOK(w) /\ ~HasCycle(w) /\ LinearPath(w)
-----------------------------------------------------------------------------
(* The executor.                                                           *)

\* schedule_seconds
ScheduleSeconds ==
    [i \in Intervals |->
        CASE i = "5m" -> 300 [] i = "15m" -> 900 [] i = "30m" -> 1800 [] i = "1h" -> 3600
          [] i = "4h" -> 14400 [] i = "12h" -> 43200 [] i = "24h" -> 86400]

\* number_param: a number, in quotes or not.
Number(s) == s.param \in {"positive", "zero", "text"}

\* What evaluate_trigger and execute_action need of a step; an outcome or a
\* message that is left out has a default.
Readable(s) ==
    CASE s.action = "time_check" -> s.param \in DOMAIN ScheduleSeconds
      [] s.action = "sell" -> Number(s)
      [] s.action \in {"price_moves", "send_message"} -> TRUE
      [] OTHER -> FALSE

\* condition_matches: only a condition with a number ever does.
CanMatch(s) == s.action = "volume_above" /\ Number(s)

\* Mutation: the loop begins at the first trigger.
First_Trigger(w) == {i \in DOMAIN w.steps : w.steps[i].kind = "trigger"}

\* Where the loop may begin.
First(w) == Roots(w)

Orderable(w) == NoBranch(w) /\ Cardinality(First(w)) = 1 /\ Spans(w)

\* The checks behind the loop.
Complete(w) ==
    /\ Len(ordered) = Len(w.steps)
    /\ ordered[1].kind = "trigger"
    /\ Last(ordered).kind = "action"

Runnable ==
    LET of(kind) == {s \in Range(ordered) : s.kind = kind} IN
    /\ KindOf[ordered[1].action] = "trigger" /\ Readable(ordered[1])
    /\ \A s \in of("action") : KindOf[s.action] = "action" /\ Readable(s)
-----------------------------------------------------------------------------
WorkflowInit ==
    /\ workflow = Missing
    /\ accepted = FALSE
    /\ stage = "none"
    /\ current = Missing
    /\ ordered = <<>>

\* publish, update and test_run are given a workflow; or the table has one,
\* which an earlier release may have accepted.
Receive ==
    /\ stage = "none"
    /\ workflow' \in Drafts
    /\ stage' \in {"received", "stored"}
    /\ UNCHANGED <<accepted, current, ordered>>

Validate ==
    /\ stage = "received"
    /\ accepted' = Valid(workflow)
    /\ stage' = IF Valid(workflow) THEN "stored" ELSE "rejected"
    /\ UNCHANGED <<workflow, current, ordered>>

StartOrder ==
    /\ stage = "stored"
    /\ IF Orderable(workflow)
         THEN stage' = "walking" /\ \E i \in First(workflow) : current' = workflow.steps[i].id
         ELSE stage' = "refused" /\ UNCHANGED current
    /\ UNCHANGED <<workflow, accepted, ordered>>

\* One iteration: of several steps with one id the map of steps has one.
FollowStep ==
    /\ stage = "walking"
    /\ current # Missing
    /\ IF current \in Ids(workflow)
         THEN /\ ordered' = IF Len(ordered) > Len(workflow.steps) THEN ordered
                            ELSE Append(ordered, StepWith(workflow, current))
              /\ current' = IF Targets(workflow, current) = {} THEN Missing
                            ELSE CHOOSE id \in Targets(workflow, current) : TRUE
              /\ UNCHANGED stage
         ELSE stage' = "refused" /\ UNCHANGED <<current, ordered>>
    /\ UNCHANGED <<workflow, accepted>>

EndOrder ==
    /\ stage = "walking"
    /\ current = Missing
    /\ stage' = IF Complete(workflow) THEN "ordered" ELSE "refused"
    /\ UNCHANGED <<workflow, accepted, current, ordered>>

\* evaluate_automation, when the trigger matches and there is no cooldown.
Run ==
    /\ stage = "ordered"
    /\ stage' = IF ~Runnable THEN "refused"
                ELSE IF \A s \in Range(ordered) : s.kind = "condition" => CanMatch(s)
                       THEN "ran" ELSE "skipped"
    /\ UNCHANGED <<workflow, accepted, current, ordered>>

ExecuteWorkflow == StartOrder \/ FollowStep \/ EndOrder \/ Run

WorkflowNext == Receive \/ Validate \/ ExecuteWorkflow

WorkflowSpec == WorkflowInit /\ [][WorkflowNext]_workflowVars
-----------------------------------------------------------------------------
(* Properties.                                                             *)

(* The executor runs every workflow the service has accepted: it finds its *)
(* order, understands its trigger and its actions, and none of its         *)
(* conditions is beyond matching (validate_workflow against                *)
(* ordered_workflow_steps, evaluate_trigger and execute_action).           *)
AcceptedRuns == accepted => stage \notin {"refused", "skipped"}

(* The order of an accepted workflow has each of its steps once, goes      *)
(* along its connections, and no condition or trigger comes behind an      *)
(* action (validate_connections, ordered_workflow_steps).                  *)
OrderIsSound ==
    stage \in {"ordered", "ran"} =>
        /\ Len(ordered) = Len(workflow.steps)
        /\ IsInjective(ordered)
        /\ \A i \in 1..(Len(ordered) - 1) :
            /\ [from |-> ordered[i].id, to |-> ordered[i + 1].id] \in Edges(workflow)
            /\ accepted /\ ordered[i].kind = "action" => ordered[i + 1].kind = "action"

\* There are steps each of which leads to another one of them.
Cyclic(w) ==
    \E S \in (SUBSET Ids(w)) \ {{}} : \A id \in S : Targets(w, id) \cap S # {}

(* has_cycle, which searches depth-first with one path and one set of      *)
(* finished steps for all its roots, finds a cycle if and only if there is *)
(* one among the steps it is given, which the connections have been        *)
(* checked to join.                                                        *)
CyclesAreFound ==
    stage = "received" /\ Joined(workflow) => HasCycle(workflow) = Cyclic(workflow)

(* The executor's loop over the connections ends for every workflow that   *)
(* the table may hold, accepted or not: it is the one task that evaluates  *)
(* the automations of all users (the loop of ordered_workflow_steps).      *)
OrderingEnds == stage = "stored" ~> stage \in {"refused", "ran", "skipped"}
=============================================================================
