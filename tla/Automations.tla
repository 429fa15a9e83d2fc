----------------------------- MODULE Automations -----------------------------
(***************************************************************************)
(* The automations of one user: the service that publishes, updates,       *)
(* pauses, resumes and deletes them (src/src/automations/service.rs), and  *)
(* the executor that evaluates the active ones every 30 seconds            *)
(* (src/src/automations/executor.rs).                                      *)
(*                                                                         *)
(* A request is a process; so is the executor.  One action is one          *)
(* statement of the database, with the local work up to the next one.  The *)
(* rows of automation_observations and automation_runs are kept per        *)
(* automation; of a workflow the model keeps what its evaluation depends   *)
(* on, and the step id of every trigger is the same, as if each update     *)
(* kept the trigger's id.  The conditions' answer and the values of a      *)
(* market are arbitrary.  There is one provider, so the executor never     *)
(* meets an automation of another one.                                     *)
(***************************************************************************)
EXTENDS Integers, Sequences, FiniteSets

CONSTANTS
    Ids,            \* automation ids, each given to at most one row
    Markets,        \* market ids
    Workflows,      \* what publish and update are given: see WorkflowShape
    Keys,           \* idempotency keys
    Callers,        \* requests in flight at one time
    Calls,          \* bound on the calls of the service
    Levels,         \* values of a market: a set of naturals
    MinChange,      \* minimum_change_percent of the volume triggers
    Interval,       \* interval of the time checks
    Cooldown,       \* AUTOMATION_COOLDOWN_SECONDS
    MaxTime,        \* bound on the clock
    MaxRestarts,    \* bound on the restarts of the process
    None            \* SQL NULL, and the absence of a row

Metrics == {"price", "volume", "schedule"}

\* A workflow ends with an action, so it has one.
WorkflowShape(w) ==
    /\ w.market \in Markets
    /\ w.metric \in Metrics
    /\ w.actions \in Seq({"message", "trade"}) \ {<<>>}

ASSUME WorkflowsAssumption == \A w \in Workflows : WorkflowShape(w)
ASSUME TimeAssumption ==
    /\ Levels \subseteq Nat
    /\ {MinChange, Interval, Cooldown, MaxTime, MaxRestarts, Calls} \subseteq Nat
ASSUME NoneAssumption ==
    /\ None \notin Ids
    /\ None \notin Markets
    /\ None \notin Keys
    /\ None \notin Workflows
    /\ None \notin Levels

Time == 0..MaxTime

Rows == [workflow : Workflows, status : {"active", "paused"}, key : Keys \cup {None}]

Observations == [value : Levels \cup {None}, at : Time, of : Workflows]

\* The absence of a row is not a row.
ASSUME NoRowAssumption == None \notin Rows \cup Observations

VARIABLES
    row,            \* automations
    used,           \* the ids ever given to a row
    obs,            \* automation_observations: the trigger's observation
    runs,           \* automation_runs: created_at of those that count for the cooldown
    call,           \* the requests in flight
    calls,          \* how many there have been
    exec,           \* locals of the executor
    now,            \* the clock
    restarts,       \* how often the process has restarted
    alertAt,        \* when the executor last sent an alert of the automation
    unrecorded,     \* automations with executor alerts newer than their runs
    disturbed       \* automations updated while the executor had them

tables == <<row, used, obs, runs>>
ghosts == <<alertAt, unrecorded, disturbed>>
vars == <<tables, call, calls, exec, now, restarts, ghosts>>
-----------------------------------------------------------------------------
Live(a) == row[a] # None
Active(a) == Live(a) /\ row[a].status = "active"

NoCall == [op |-> "none", stage |-> "idle", arg |-> None, id |-> None,
           workflow |-> None, key |-> None, ok |-> FALSE]

Dormant == [pc |-> "idle", todo |-> {}, id |-> None, workflow |-> None, at |-> 0,
            current |-> None, prev |-> None, found |-> FALSE, matched |-> FALSE,
            left |-> <<>>, sent |-> 0, status |-> None]

Init ==
    /\ row = [a \in Ids |-> None]
    /\ used = {}
    /\ obs = [a \in Ids |-> None]
    /\ runs = [a \in Ids |-> {}]
    /\ call = [c \in Callers |-> NoCall]
    /\ calls = 0
    /\ exec = Dormant
    /\ now = 0
    /\ restarts = 0
    /\ alertAt = [a \in Ids |-> -Cooldown]
    /\ unrecorded = {}
    /\ disturbed = {}
-----------------------------------------------------------------------------
(* The requests.                                                           *)

Goto(c, stage) == call' = [call EXCEPT ![c].stage = stage]
End(c, ok) == call' = [call EXCEPT ![c] = [NoCall EXCEPT !.stage = "done", !.ok = ok]]
At(c, stage) == call[c].stage = stage

\* What is left to do is the alert, about automation a.
Announce(c, a) ==
    call' = [call EXCEPT ![c] = [NoCall EXCEPT !.op = call[c].op, !.id = a, !.stage = "alert"]]

\* Automations the executor still has to evaluate, or is evaluating.
Held == {s.id : s \in exec.todo} \cup {exec.id}

Begin(c, new) ==
    /\ At(c, "idle")
    /\ calls < Calls
    /\ calls' = calls + 1
    /\ call' = [call EXCEPT ![c] = new]

Publish(c, w, k) ==
    /\ Begin(c, [NoCall EXCEPT !.op = "publish", !.stage = "lookup",
                               !.workflow = w, !.key = k])
    /\ UNCHANGED <<tables, exec, now, restarts, ghosts>>

\* The argument is an automation id or, in its place, a market id.
Update(c, arg, w) ==
    /\ Begin(c, [NoCall EXCEPT !.op = "update", !.stage = "find",
                               !.arg = arg, !.workflow = w])
    /\ UNCHANGED <<tables, exec, now, restarts, ghosts>>

Alter(c, op, arg) ==
    /\ Begin(c, [NoCall EXCEPT !.op = op, !.stage = "find", !.arg = arg])
    /\ UNCHANGED <<tables, exec, now, restarts, ghosts>>

OfKey(k) == {a \in Ids : k # None /\ Live(a) /\ row[a].key = k}

\* find_by_idempotency_key, before and after the insert: the row is the answer.
Lookup(c) ==
    /\ \/ At(c, "lookup") /\ IF OfKey(call[c].key) # {} THEN End(c, TRUE)
                                                        ELSE Goto(c, "insert")
       \/ At(c, "again") /\ End(c, OfKey(call[c].key) # {})
    /\ UNCHANGED <<tables, calls, exec, now, restarts, ghosts>>

\* Mutation: no index keeps the keys of a user apart.
Unique_NoIndex(k) == TRUE

\* automations_user_idempotency_key_uidx
Unique(k) == OfKey(k) = {}

Insert(c, a) ==
    /\ At(c, "insert")
    /\ a \notin used
    /\ Unique(call[c].key)
    /\ row' = [row EXCEPT ![a] = [workflow |-> call[c].workflow, status |-> "active",
                                  key |-> call[c].key]]
    /\ used' = used \cup {a}
    /\ Announce(c, a)
    /\ UNCHANGED <<obs, runs, calls, exec, now, restarts, ghosts>>

\* The index refuses the row, or the statement fails otherwise; either way the
\* key is looked up again.
InsertFails(c) ==
    /\ At(c, "insert")
    /\ Goto(c, "again")
    /\ UNCHANGED <<tables, calls, exec, now, restarts, ghosts>>

\* find_owned_automation: by id, or the one last updated of that market (of
\* several, the model takes any).
Owned(arg) ==
    IF arg \in Ids THEN {a \in {arg} : Live(a)}
                   ELSE {a \in Ids : Live(a) /\ row[a].workflow.market = arg}

Find(c) ==
    /\ At(c, "find")
    /\ \/ \E a \in Owned(call[c].arg) :
            call' = [call EXCEPT ![c].id = a, ![c].stage = "write"]
       \/ Owned(call[c].arg) = {} /\ End(c, FALSE)
    /\ UNCHANGED <<tables, calls, exec, now, restarts, ghosts>>

\* The observations are deleted by the argument, so none if it is a market;
\* the executor may hold the row as it was.
UpdateWrite(c) ==
    LET a == call[c].id IN
    /\ At(c, "write")
    /\ call[c].op = "update"
    /\ Live(a)
    /\ row' = [row EXCEPT ![a].workflow = call[c].workflow, ![a].status = "active"]
    /\ disturbed' = IF a \in Held \/ call[c].arg # a THEN disturbed \cup {a} ELSE disturbed
    /\ Goto(c, "forget")
    /\ UNCHANGED <<used, obs, runs, calls, exec, now, restarts, alertAt, unrecorded>>

\* Mutation: an update keeps the observations.
Forget_Nothing(c) ==
    /\ At(c, "forget")
    /\ Announce(c, call[c].id)
    /\ UNCHANGED <<tables, calls, exec, now, restarts, ghosts>>

Forget(c) ==
    /\ At(c, "forget")
    /\ obs' = [a \in Ids |-> IF a = call[c].arg THEN None ELSE obs[a]]
    /\ Announce(c, call[c].id)
    /\ UNCHANGED <<row, used, runs, calls, exec, now, restarts, ghosts>>

SetStatus(c) ==
    LET a == call[c].id IN
    /\ At(c, "write")
    /\ call[c].op \in {"pause", "resume"}
    /\ Live(a)
    /\ row' = [row EXCEPT ![a].status = IF call[c].op = "pause" THEN "paused" ELSE "active"]
    /\ Announce(c, call[c].id)
    /\ UNCHANGED <<used, obs, runs, calls, exec, now, restarts, ghosts>>

\* The foreign keys of observations and runs cascade.  Deleting a row that is
\* gone is no error.
Delete(c) ==
    LET a == call[c].id IN
    /\ At(c, "write")
    /\ call[c].op = "delete"
    /\ row' = [row EXCEPT ![a] = None]
    /\ obs' = [obs EXCEPT ![a] = None]
    /\ runs' = [runs EXCEPT ![a] = {}]
    /\ Announce(c, call[c].id)
    /\ UNCHANGED <<used, calls, exec, now, restarts, ghosts>>

\* create_alert: an alert that names its automation needs the row to exist.
Alert(c) ==
    /\ At(c, "alert")
    /\ End(c, call[c].op = "delete" \/ Live(call[c].id))
    /\ UNCHANGED <<tables, calls, exec, now, restarts, ghosts>>

\* A check before the first write fails, or a statement does: the UPDATE of a
\* row that is gone always.
Fail(c) ==
    /\ call[c].stage \notin {"idle", "done"}
    /\ End(c, FALSE)
    /\ disturbed' = IF At(c, "forget") THEN disturbed \cup {call[c].id} ELSE disturbed
    /\ UNCHANGED <<tables, calls, exec, now, restarts, alertAt, unrecorded>>

Answer(c) ==
    /\ At(c, "done")
    /\ call' = [call EXCEPT ![c] = NoCall]
    /\ UNCHANGED <<tables, calls, exec, now, restarts, ghosts>>

\* The steps of a call that has begun, up to its result.
CallStep(c) ==
    \/ Lookup(c) \/ InsertFails(c) \/ Find(c)
    \/ \E a \in Ids : Insert(c, a)
    \/ UpdateWrite(c) \/ Forget(c) \/ SetStatus(c) \/ Delete(c) \/ Alert(c) \/ Fail(c)
-----------------------------------------------------------------------------
(* The executor.                                                           *)

StartTick ==
    /\ exec.pc = "idle"
    /\ exec' = [exec EXCEPT !.pc = "tick",
                            !.todo = {[id |-> a, workflow |-> row[a].workflow] :
                                        a \in {b \in Ids : Active(b)}}]
    /\ UNCHANGED <<tables, call, calls, now, restarts, ghosts>>

EndTick ==
    /\ exec.pc = "tick"
    /\ exec.todo = {}
    /\ exec' = Dormant
    /\ UNCHANGED <<tables, call, calls, now, restarts, ghosts>>

\* The next automation of the snapshot: oldest update first, here any.
Evaluate(s) ==
    /\ exec.pc = "tick"
    /\ s \in exec.todo
    /\ exec' = [exec EXCEPT !.pc = "load", !.id = s.id, !.workflow = s.workflow,
                            !.todo = @ \ {s}]
    /\ UNCHANGED <<tables, call, calls, now, restarts, ghosts>>

\* What is left of the tick when an evaluation ends, well or not.
Resumed == [Dormant EXCEPT !.pc = "tick", !.todo = exec.todo]

Distance(x, y) == IF x > y THEN x - y ELSE y - x

\* evaluate_trigger: has the metric moved since the last observation?  The
\* conditions of the three metrics; the volume's needs a value to compare with.
Matched(metric, prev, value) ==
    /\ prev # None
    /\ \/ metric = "schedule" /\ now - prev.at >= Interval
       \/ metric = "price" /\ prev.value # None /\ value # prev.value
       \/ /\ metric = "volume"
          /\ prev.value \notin {None, 0}
          /\ Distance(value, prev.value) * 100 >= MinChange * prev.value

\* fetch_market, then the previous observation.  A time check that is not due
\* keeps its observation.  Of an observation the metric needs the value or the
\* time; the other is left out.
Load(value) ==
    LET metric == exec.workflow.metric
        prev == obs[exec.id]
        matched == Matched(metric, prev, value)
    IN
    /\ exec.pc = "load"
    /\ exec' = [exec EXCEPT !.pc = IF metric = "schedule" /\ prev # None /\ ~matched
                                     THEN "decide" ELSE "find",
                            !.at = IF metric = "schedule" THEN now ELSE 0,
                            !.prev = prev, !.matched = matched,
                            !.current = IF metric = "schedule" THEN None ELSE value]
    /\ disturbed' = IF \E c \in Callers : At(c, "forget") /\ call[c].id = exec.id
                      THEN disturbed \cup {exec.id} ELSE disturbed
    /\ UNCHANGED <<tables, call, calls, now, restarts, alertAt, unrecorded>>

SaveFind ==
    /\ exec.pc = "find"
    /\ exec' = [exec EXCEPT !.pc = "save", !.found = obs[exec.id] # None]
    /\ UNCHANGED <<tables, call, calls, now, restarts, ghosts>>

\* Mutation: an observation is saved whatever has become of the automation.
Saveable_Always == TRUE

\* An UPDATE needs the row it has found, an INSERT the automation.
Saveable == IF exec.found THEN obs[exec.id] # None ELSE Live(exec.id)

Save ==
    /\ exec.pc = "save"
    /\ Saveable
    /\ obs' = [obs EXCEPT ![exec.id] = [value |-> exec.current, at |-> exec.at,
                                        of |-> exec.workflow]]
    /\ exec' = [exec EXCEPT !.pc = "decide", !.found = FALSE]
    /\ UNCHANGED <<row, used, runs, call, calls, now, restarts, ghosts>>

\* Mutation: notifications of trades do not count for the cooldown.
Counted_CompletedOnly == {"completed"}

\* The status of the runs that is_in_cooldown looks for.
Counted == {"completed", "approval_notification_sent"}

InCooldown(a) == \E t \in runs[a] : t > now - Cooldown

\* The actions follow if the trigger and the conditions match and no run is
\* recent.  The locals of the trigger's evaluation are not read again.
Decide(conditions) ==
    LET rest == [Resumed EXCEPT !.id = exec.id, !.workflow = exec.workflow] IN
    /\ exec.pc = "decide"
    /\ exec' = IF exec.matched /\ conditions /\ ~InCooldown(exec.id)
                 THEN [rest EXCEPT !.pc = "act", !.left = exec.workflow.actions,
                                   !.status = "completed"]
                 ELSE [rest EXCEPT !.pc = "record", !.status = "skipped"]
    /\ UNCHANGED <<tables, call, calls, now, restarts, ghosts>>

\* Mutation: the alerts of the executor do not name the automation.
Notifiable_Always(a) == TRUE

\* automation_alerts.automation_id refers to the automation.
Notifiable(a) == Live(a)

\* One action: an alert, of a message or of a trade to approve.
Act ==
    LET a == exec.id IN
    /\ exec.pc = "act"
    /\ Notifiable(a)
    /\ exec' = [exec EXCEPT !.left = Tail(@), !.sent = @ + 1,
                            !.pc = IF Len(exec.left) = 1 THEN "record" ELSE "act",
                            !.status = IF Head(exec.left) = "trade"
                                         THEN "approval_notification_sent" ELSE @]
    /\ alertAt' = [alertAt EXCEPT ![a] = now]
    /\ UNCHANGED <<tables, call, calls, now, restarts, unrecorded, disturbed>>

\* insert_run, first statement.
Record ==
    LET a == exec.id IN
    /\ exec.pc = "record"
    /\ Live(a)
    /\ runs' = [runs EXCEPT ![a] = IF exec.status \in Counted THEN @ \cup {now} ELSE @]
    /\ unrecorded' = IF exec.sent > 0 THEN unrecorded \ {a} ELSE unrecorded
    /\ exec' = [exec EXCEPT !.pc = "stamp"]
    /\ UNCHANGED <<row, used, obs, call, calls, now, restarts, alertAt, disturbed>>

\* Mutation: the whole row of the snapshot is written back.
Stamped_Whole(a) ==
    [row EXCEPT ![a].status = "active", ![a].workflow = exec.workflow]

\* insert_run, second statement: of the row it sets last_run_status and
\* last_run_at, which nothing reads and the model leaves out.
Stamped(a) == row

\* On a row that is gone it is an error, and the evaluation ends as well.
Stamp ==
    LET a == exec.id IN
    /\ exec.pc = "stamp"
    /\ row' = IF Live(a) THEN Stamped(a) ELSE row
    /\ exec' = Resumed
    /\ UNCHANGED <<used, obs, runs, call, calls, now, restarts, ghosts>>

Lost == IF exec.sent > 0 /\ exec.pc \in {"act", "record"}
          THEN unrecorded \cup {exec.id} ELSE unrecorded

\* Mutation: an error of one evaluation ends the tick.
EvaluationFails_EndsTick ==
    /\ exec.pc \notin {"idle", "tick"}
    /\ exec' = Dormant
    /\ unrecorded' = Lost
    /\ UNCHANGED <<tables, call, calls, now, restarts, alertAt, disturbed>>

\* The market or a token is unavailable, or a statement fails: the actions
\* already executed are not undone.
EvaluationFails ==
    /\ exec.pc \notin {"idle", "tick"}
    /\ exec' = Resumed
    /\ unrecorded' = Lost
    /\ UNCHANGED <<tables, call, calls, now, restarts, alertAt, disturbed>>

\* Another process takes over: calls end without an answer.
Restart ==
    /\ restarts < MaxRestarts
    /\ restarts' = restarts + 1
    /\ exec' = Dormant
    /\ unrecorded' = Lost
    /\ disturbed' = disturbed \cup {call[c].id : c \in {d \in Callers : At(d, "forget")}}
    /\ call' = [c \in Callers |-> NoCall]
    /\ UNCHANGED <<tables, calls, now, alertAt>>

Elapse ==
    /\ now < MaxTime
    /\ now' = now + 1
    /\ UNCHANGED <<tables, call, calls, exec, restarts, ghosts>>

ExecutorStep ==
    \/ StartTick \/ EndTick \/ SaveFind \/ Save \/ Act \/ Record \/ Stamp
    \/ \E s \in exec.todo : Evaluate(s)
    \/ \E v \in Levels : Load(v)
    \/ \E b \in BOOLEAN : Decide(b)
    \/ EvaluationFails

\* What the routes of the API start.
Request(c) ==
    \/ \E w \in Workflows, k \in Keys \cup {None} : Publish(c, w, k)
    \/ \E arg \in Ids \cup Markets, w \in Workflows : Update(c, arg, w)
    \/ \E op \in {"pause", "resume", "delete"}, arg \in Ids \cup Markets : Alter(c, op, arg)

Next ==
    \/ \E c \in Callers : Request(c) \/ CallStep(c) \/ Answer(c)
    \/ ExecutorStep
    \/ Restart
    \/ Elapse

Spec == Init /\ [][Next]_vars

\* The executor's loop never ends, whatever an evaluation returns.
LiveSpec == Spec /\ WF_vars(ExecutorStep)

-----------------------------------------------------------------------------
(* Properties.                                                             *)

CallRecords ==
    [op : {"none", "publish", "update", "pause", "resume", "delete"},
     stage : {"idle", "lookup", "insert", "again", "find", "write", "forget", "alert", "done"},
     arg : Ids \cup Markets \cup {None}, id : Ids \cup {None},
     workflow : Workflows \cup {None}, key : Keys \cup {None}, ok : BOOLEAN]

ExecRecords ==
    [pc : {"idle", "tick", "load", "find", "save", "decide", "act", "record", "stamp"},
     todo : SUBSET [id : Ids, workflow : Workflows],
     id : Ids \cup {None}, workflow : Workflows \cup {None}, at : Time,
     current : Levels \cup {None}, prev : Observations \cup {None},
     found : BOOLEAN, matched : BOOLEAN, left : Seq({"message", "trade"}), sent : Nat,
     status : {"completed", "approval_notification_sent", "skipped", None}]

\* The columns' types, and the foreign keys of observations and runs.
TableTypeOK ==
    /\ row \in [Ids -> Rows \cup {None}]
    /\ used \subseteq Ids
    /\ obs \in [Ids -> Observations \cup {None}]
    /\ runs \in [Ids -> SUBSET Time]
    /\ \A a \in Ids : Live(a) => a \in used
    /\ \A a \in Ids : obs[a] # None \/ runs[a] # {} => Live(a)

\* What each stage of a request, and each step of the executor, has at hand.
CallStates ==
    {x \in CallRecords :
        /\ x.stage \in {"lookup", "insert"} => x.workflow # None
        /\ x.stage \in {"write", "forget"} => x.id # None
        /\ x.stage \in {"find", "write"} /\ x.op = "update" => x.workflow # None}

ExecStates ==
    {x \in ExecRecords :
        /\ x.pc \notin {"idle", "tick"} => x.id # None /\ x.workflow # None
        /\ x.pc = "act" => x.left # <<>>}

TypeOK ==
    /\ TableTypeOK
    /\ call \in [Callers -> CallStates]
    /\ exec \in ExecStates
    /\ calls \in 0..Calls
    /\ now \in Time
    /\ restarts \in 0..MaxRestarts
    /\ alertAt \in [Ids -> -Cooldown..MaxTime]
    /\ unrecorded \subseteq Ids
    /\ disturbed \subseteq Ids

Forgetting(a) == \E c \in Callers : At(c, "forget") /\ call[c].id = a

(* Outside an update that is under way, the observation of an automation   *)
(* was made for its present workflow, and an evaluation that has matched   *)
(* compared two values of its own workflow - unless the automation was     *)
(* updated while the executor held it, by its market's id, or by a call    *)
(* that stopped between its two statements (update in service.rs,          *)
(* evaluate_trigger in executor.rs).                                       *)
BaselineIsOwn ==
    \A a \in Ids \ disturbed :
        /\ Live(a) /\ obs[a] # None /\ ~Forgetting(a) =>
             obs[a].of = row[a].workflow
        /\ exec.id = a /\ exec.matched => exec.prev.of = exec.workflow

(* The first alert of an evaluation comes at least a cooldown after the    *)
(* last alert of the automation's earlier evaluations, unless one of these *)
(* ended before its run was recorded (is_in_cooldown and                   *)
(* evaluate_automation).                                                   *)
AlertsRespectCooldown ==
    [][\A a \in Ids \ unrecorded :
        exec.id = a /\ exec.sent = 0 /\ exec'.sent = 1 => now >= alertAt[a] + Cooldown]_vars

(* Once an automation is deleted the executor, which may still have it in  *)
(* its snapshot or be in the middle of its actions, sends no alert for it  *)
(* (delete, execute_action and the alert's foreign key).                   *)
DeletedIsSilent ==
    [][\A a \in Ids : ~Live(a) /\ exec.id = a => exec'.sent <= exec.sent]_vars

(* Only a call of the user makes a paused automation active, or changes    *)
(* its workflow: the executor, whose copy of the row may be old, does not  *)
(* (insert_run writes the columns it has set).                             *)
OnlyUsersResume ==
    [][\A a \in Ids :
        Live(a) /\ row'[a] # None
        /\ \/ row[a].status = "paused" /\ row'[a].status = "active"
           \/ row[a].workflow # row'[a].workflow
        => \E c \in Callers : call[c].id = a /\ call[c].op \in {"update", "resume"}]_vars

\* What has become of each automation, and what is asked of it.
Phase == [a \in Ids |-> IF Live(a) THEN row[a].status ELSE IF a \in used THEN "gone" ELSE "unborn"]

Plan == [a \in Ids |-> IF Live(a) THEN row[a].workflow ELSE None]

Asked ==
    {[op |-> call[c].op, id |-> call[c].id, workflow |-> call[c].workflow] :
        c \in {d \in Callers : At(d, "insert") \/ At(d, "write")}}

\* The entry of the snapshot that is evaluated.
Turn == [id |-> exec.id, workflow |-> exec.workflow]

Life == INSTANCE AutomationLife
    WITH phase <- Phase, plan <- Plan, asked <- Asked,
         tick <- exec.todo, turn <- Turn, sent <- exec.sent

(* An automation changes only as a request has asked, the executor's old   *)
(* copy of its row notwithstanding; a tick sends for those that are active *)
(* as it begins; an evaluation sends at most one alert for each action of  *)
(* the workflow it began with, and none once the automation is gone        *)
(* (service.rs, and tick, evaluate_automation and execute_action in        *)
(* executor.rs).                                                           *)
LifeSpec == Life!Spec

(* At most one automation of the user has an idempotency key, however the  *)
(* requests that publish it interleave (publish: lookup, insert, lookup).  *)
OneRowPerKey ==
    \A a, b \in Ids :
        Live(a) /\ Live(b) /\ row[a].key = row[b].key /\ row[a].key # None => a = b

(* As long as an automation stays active, the executor comes to it again   *)
(* and again, whatever the evaluations of the others do (the loop of tick  *)
(* and of spawn).                                                          *)
ActiveIsEvaluated ==
    \A a \in Ids : Active(a) ~> (~Active(a) \/ exec.id = a)
=============================================================================
