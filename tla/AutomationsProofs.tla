-------------------------- MODULE AutomationsProofs --------------------------
(***************************************************************************)
(* Proofs about Automations for any sets of automations, workflows,        *)
(* markets, keys and requests, and any bounds.                             *)
(***************************************************************************)
EXTENDS Automations, SequenceTheorems, TLAPS

LEMMA ConstantFacts ==
    /\ None \notin Ids /\ None \notin Markets /\ None \notin Keys
    /\ None \notin Workflows /\ None \notin Levels
    /\ None \notin Rows /\ None \notin Observations
    /\ Cooldown \in Nat /\ MaxTime \in Nat /\ MaxRestarts \in Nat /\ Calls \in Nat
  BY NoneAssumption, NoRowAssumption, TimeAssumption

LEMMA NoCallType == NoCall \in CallStates
  BY DEF NoCall, CallRecords, CallStates

LEMMA DormantType == Dormant \in ExecStates
  BY ConstantFacts DEF Dormant, ExecRecords, ExecStates, Time
-----------------------------------------------------------------------------
(* The locals of the requests.                                             *)

\* A record of a request that has ended, or has only its alert left.
LEMMA LastRecords ==
    ASSUME NEW x \in CallStates, NEW ok \in BOOLEAN, NEW a \in Ids \cup {None}
    PROVE  /\ [NoCall EXCEPT !.stage = "done", !.ok = ok] \in CallStates
           /\ [NoCall EXCEPT !.op = x.op, !.id = a, !.stage = "alert"] \in CallStates
  <1>1. [NoCall EXCEPT !.stage = "done", !.ok = ok] \in CallStates
    BY DEF NoCall, CallRecords, CallStates
  <1>2. x.op \in {"none", "publish", "update", "pause", "resume", "delete"}
    BY DEF CallRecords, CallStates
  <1>3. \A o \in {"none", "publish", "update", "pause", "resume", "delete"} :
          [NoCall EXCEPT !.op = o, !.id = a, !.stage = "alert"] \in CallStates
    BY DEF NoCall, CallRecords, CallStates
  <1> QED
    BY <1>1, <1>2, <1>3

LEMMA Ended ==
    ASSUME TypeOK, NEW c \in Callers, NEW ok \in BOOLEAN, End(c, ok)
    PROVE  call' \in [Callers -> CallStates]
  <1>1. [NoCall EXCEPT !.stage = "done", !.ok = ok] \in CallStates
    BY LastRecords, NoCallType
  <1> QED
    BY <1>1 DEF End, TypeOK

LEMMA Announced ==
    ASSUME TypeOK, NEW c \in Callers, NEW a \in Ids \cup {None}, Announce(c, a)
    PROVE  call' \in [Callers -> CallStates]
  <1>1. [NoCall EXCEPT !.op = call[c].op, !.id = a, !.stage = "alert"] \in CallStates
    BY LastRecords DEF TypeOK
  <1> QED
    BY <1>1 DEF Announce, TypeOK

LEMMA Moved ==
    ASSUME TypeOK, NEW c \in Callers, NEW s,
           [call[c] EXCEPT !.stage = s] \in CallStates, Goto(c, s)
    PROVE  call' \in [Callers -> CallStates]
  <1>1. call' = [call EXCEPT ![c] = [call[c] EXCEPT !.stage = s]]
    BY DEF Goto
  <1> QED
    BY <1>1 DEF TypeOK

\* The tables and the executor do not see a request begin.
LEMMA RequestLocals ==
    ASSUME TypeOK, NEW c \in Callers, Request(c)
    PROVE  /\ call' \in [Callers -> CallStates]
           /\ calls' \in 0..Calls
           /\ UNCHANGED <<tables, exec, now, restarts, ghosts>>
  <1> USE ConstantFacts
  <1>1. ASSUME NEW w \in Workflows, NEW k \in Keys \cup {None}, Publish(c, w, k)
        PROVE  /\ call' \in [Callers -> CallStates]
               /\ calls' \in 0..Calls
    <2>1. [NoCall EXCEPT !.op = "publish", !.stage = "lookup", !.workflow = w, !.key = k]
            \in CallStates
      BY DEF NoCall, CallRecords, CallStates
    <2> QED
      BY <1>1, <2>1 DEF Publish, Begin, TypeOK
  <1>2. ASSUME NEW arg \in Ids \cup Markets, NEW w \in Workflows, Update(c, arg, w)
        PROVE  /\ call' \in [Callers -> CallStates]
               /\ calls' \in 0..Calls
    <2>1. [NoCall EXCEPT !.op = "update", !.stage = "find", !.arg = arg, !.workflow = w]
            \in CallStates
      BY DEF NoCall, CallRecords, CallStates
    <2> QED
      BY <1>2, <2>1 DEF Update, Begin, TypeOK
  <1>3. ASSUME NEW op \in {"pause", "resume", "delete"}, NEW arg \in Ids \cup Markets,
               Alter(c, op, arg)
        PROVE  /\ call' \in [Callers -> CallStates]
               /\ calls' \in 0..Calls
    <2>1. [NoCall EXCEPT !.op = op, !.stage = "find", !.arg = arg] \in CallStates
      BY DEF NoCall, CallRecords, CallStates
    <2> QED
      BY <1>3, <2>1 DEF Alter, Begin, TypeOK
  <1> QED
    BY <1>1, <1>2, <1>3 DEF Request, Publish, Update, Alter

LEMMA CallLocals ==
    ASSUME TypeOK, NEW c \in Callers, CallStep(c) \/ Answer(c)
    PROVE  /\ call' \in [Callers -> CallStates]
           /\ UNCHANGED <<calls, exec, now, restarts, alertAt, unrecorded>>
  <1> USE ConstantFacts
  <1> DEFINE Typed == call' \in [Callers -> CallStates]
  <1>0. call[c] \in CallStates
    BY DEF TypeOK
  <1>1. ASSUME Lookup(c) PROVE Typed
    <2>1. At(c, "lookup") => [call[c] EXCEPT !.stage = "insert"] \in CallStates
      BY <1>0 DEF At, CallRecords, CallStates
    <2> QED
      BY <1>1, <2>1, Moved, Ended DEF Lookup
  <1>2. ASSUME InsertFails(c) PROVE Typed
    <2>1. [call[c] EXCEPT !.stage = "again"] \in CallStates
      BY <1>0 DEF At, CallRecords, CallStates
    <2> QED
      BY <1>2, <2>1, Moved DEF InsertFails
  <1>3. ASSUME Find(c) PROVE Typed
    <2>1. \A a \in Ids : At(c, "find") =>
             [call[c] EXCEPT !.id = a, !.stage = "write"] \in CallStates
      BY <1>0 DEF At, CallRecords, CallStates
    <2>2. CASE End(c, FALSE)
      BY <2>2, Ended
    <2>3. ASSUME NEW a \in Ids, call' = [call EXCEPT ![c].id = a, ![c].stage = "write"]
          PROVE  Typed
      <3>1. call' = [call EXCEPT ![c] = [call[c] EXCEPT !.id = a, !.stage = "write"]]
        BY <2>3
      <3> QED
        BY <1>3, <2>1, <3>1 DEF Find, TypeOK
    <2> QED
      BY <1>3, <2>2, <2>3 DEF Find, Owned
  <1>4. ASSUME NEW a \in Ids, Insert(c, a) PROVE Typed
    BY <1>4, Announced DEF Insert
  <1>5. ASSUME UpdateWrite(c) PROVE Typed
    <2>1. At(c, "write") => [call[c] EXCEPT !.stage = "forget"] \in CallStates
      BY <1>0 DEF At, CallRecords, CallStates
    <2> QED
      BY <1>5, <2>1, Moved DEF UpdateWrite
  <1>6. ASSUME Announce(c, call[c].id) PROVE Typed
    BY <1>0, <1>6, Announced DEF CallStates, CallRecords
  <1>7. ASSUME Alert(c) PROVE Typed
    BY <1>7, Ended DEF Alert, Live
  <1>8. ASSUME Fail(c) PROVE Typed
    BY <1>8, Ended DEF Fail
  <1>9. ASSUME Answer(c) PROVE Typed
    BY <1>9, NoCallType DEF Answer, TypeOK
  <1>10. Typed
    BY <1>1, <1>2, <1>3, <1>4, <1>5, <1>6, <1>7, <1>8, <1>9
       DEF CallStep, Forget, SetStatus, Delete
  <1>11. UNCHANGED <<calls, exec, now, restarts, alertAt, unrecorded>>
    BY DEF CallStep, Lookup, InsertFails, Find, Insert, UpdateWrite,
           Forget, SetStatus, Delete, Alert, Fail, Answer, ghosts
  <1> QED
    BY <1>10, <1>11

-----------------------------------------------------------------------------
(* The tables.                                                             *)

LEMMA RowUpdates ==
    ASSUME NEW r \in Rows, NEW w \in Workflows, NEW s \in {"active", "paused"}
    PROVE  /\ [r EXCEPT !.workflow = w, !.status = s] \in Rows
           /\ [r EXCEPT !.status = s] \in Rows
  BY DEF Rows

LEMMA CallTables ==
    ASSUME TypeOK, NEW c \in Callers, CallStep(c) \/ Answer(c)
    PROVE  TableTypeOK' /\ disturbed' \subseteq Ids
  <1> USE ConstantFacts
  <1>0. call[c] \in CallStates /\ call[c].id \in Ids \cup {None}
    BY DEF TypeOK, CallStates, CallRecords
  <1>1. ASSUME UNCHANGED tables PROVE TableTypeOK'
    BY <1>1 DEF tables, TypeOK, TableTypeOK, Live
  <1>2. ASSUME NEW a \in Ids, Insert(c, a) PROVE TableTypeOK'
    <2> DEFINE r == [workflow |-> call[c].workflow, status |-> "active", key |-> call[c].key]
    <2>1. r \in Rows
      BY <1>0, <1>2 DEF Insert, At, CallStates, CallRecords, Rows
    <2> HIDE DEF r
    <2>2. /\ row' = [row EXCEPT ![a] = r] /\ used' = used \cup {a}
          /\ obs' = obs /\ runs' = runs
      BY <1>2 DEF Insert, r
    <2> QED
      BY <2>1, <2>2 DEF TypeOK, TableTypeOK, Live
  <1>3. ASSUME UpdateWrite(c) PROVE TableTypeOK'
    <2> DEFINE a == call[c].id
               r == [row[a] EXCEPT !.workflow = call[c].workflow, !.status = "active"]
    <2>1. a \in Ids /\ row[a] \in Rows /\ call[c].workflow \in Workflows
      BY <1>0, <1>3 DEF UpdateWrite, At, Live, CallStates, CallRecords, TypeOK, TableTypeOK
    <2>2. r \in Rows
      BY <2>1, RowUpdates
    <2>3. row' = [row EXCEPT ![a] = r]
      BY <1>3 DEF UpdateWrite
    <2> HIDE DEF r
    <2> QED
      BY <1>3, <2>1, <2>2, <2>3 DEF UpdateWrite, TypeOK, TableTypeOK, Live
  <1>4. ASSUME Forget(c) PROVE TableTypeOK'
    BY <1>4 DEF Forget, TypeOK, TableTypeOK, Live
  <1>5. ASSUME SetStatus(c) PROVE TableTypeOK'
    <2> DEFINE a == call[c].id
               s == IF call[c].op = "pause" THEN "paused" ELSE "active"
               r == [row[a] EXCEPT !.status = s]
    <2>1. a \in Ids /\ row[a] \in Rows /\ s \in {"active", "paused"}
      BY <1>0, <1>5 DEF SetStatus, At, Live, CallStates, TypeOK, TableTypeOK
    <2>2. row' = [row EXCEPT ![a] = r]
      BY <1>5 DEF SetStatus
    <2>3. r \in Rows
      BY <2>1 DEF Rows
    <2> HIDE DEF r
    <2> QED
      BY <1>5, <2>1, <2>2, <2>3 DEF SetStatus, TypeOK, TableTypeOK, Live
  <1>6. ASSUME Delete(c) PROVE TableTypeOK'
    BY <1>0, <1>6 DEF Delete, At, CallStates, TypeOK, TableTypeOK, Live
  <1>7. TableTypeOK'
    BY <1>1, <1>2, <1>3, <1>4, <1>5, <1>6
       DEF CallStep, Lookup, InsertFails, Find, Alert, Fail, Answer
  <1>8. disturbed' \subseteq Ids
    BY <1>0 DEF CallStep, Lookup, InsertFails, Find, Insert, UpdateWrite,
           Forget, SetStatus, Delete, Alert, Fail, Answer, ghosts, At, CallStates, TypeOK
  <1> QED
    BY <1>7, <1>8

\* The executor saves an observation or a run of a row that is there.
LEMMA ExecutorTables ==
    ASSUME TypeOK, ExecutorStep
    PROVE  /\ TableTypeOK'
           /\ row' = row /\ used' = used
           /\ UNCHANGED <<call, calls, now, restarts>>
  <1> USE ConstantFacts
  <1>1. ASSUME UNCHANGED tables PROVE TableTypeOK' /\ row' = row /\ used' = used
    BY <1>1 DEF tables, TypeOK, TableTypeOK, Live
  <1>2. ASSUME Save PROVE TableTypeOK' /\ row' = row /\ used' = used
    <2> DEFINE o == [value |-> exec.current, at |-> exec.at, of |-> exec.workflow]
    <2>1. o \in Observations /\ exec.id \in Ids
      BY <1>2 DEF Save, TypeOK, ExecStates, ExecRecords, Observations
    <2> HIDE DEF o
    <2>2. obs' = [obs EXCEPT ![exec.id] = o]
      BY <1>2 DEF Save, o
    <2>3. Live(exec.id)
      BY <1>2, <2>1 DEF Save, Saveable, TypeOK, TableTypeOK
    <2> QED
      BY <1>2, <2>1, <2>2, <2>3 DEF Save, TypeOK, TableTypeOK, Live
  <1>3. ASSUME Record PROVE TableTypeOK' /\ row' = row /\ used' = used
    <2>1. exec.id \in Ids
      BY <1>3 DEF Record, TypeOK, ExecStates, ExecRecords
    <2> QED
      BY <1>3, <2>1 DEF Record, TypeOK, TableTypeOK, Live
  <1>4. ASSUME Stamp PROVE TableTypeOK' /\ row' = row /\ used' = used
    BY <1>4 DEF Stamp, Stamped, TypeOK, TableTypeOK, Live
  <1>5. UNCHANGED <<call, calls, now, restarts>>
    BY DEF ExecutorStep, StartTick, EndTick, Evaluate, Load, SaveFind, Save, Decide, Act,
           Record, Stamp, EvaluationFails
  <1> QED
    BY <1>1, <1>2, <1>3, <1>4, <1>5
       DEF ExecutorStep, StartTick, EndTick, Evaluate, Load, SaveFind, Decide, Act,
           EvaluationFails

-----------------------------------------------------------------------------
(* The locals of the executor, one lemma for each kind of step.            *)

LEMMA ResumedType == TypeOK => Resumed \in ExecStates
  <1>1. TypeOK => exec.todo \in SUBSET [id : Ids, workflow : Workflows]
    BY DEF TypeOK, ExecStates, ExecRecords
  <1>2. \A t \in SUBSET [id : Ids, workflow : Workflows] :
          [Dormant EXCEPT !.pc = "tick", !.todo = t] \in ExecStates
    BY DormantType DEF ExecStates, ExecRecords
  <1> QED
    BY <1>1, <1>2 DEF Resumed

LEMMA TickType ==
    ASSUME TypeOK, StartTick \/ EndTick \/ \E s \in exec.todo : Evaluate(s)
    PROVE  exec' \in ExecStates
  <1> USE ConstantFacts
  <1>0. exec \in ExecStates /\ exec \in ExecRecords
    BY DEF TypeOK, ExecStates
  <1>1. CASE StartTick
    <2> DEFINE todo == {[id |-> a, workflow |-> row[a].workflow] :
                          a \in {b \in Ids : Active(b)}}
    <2>1. todo \in SUBSET [id : Ids, workflow : Workflows]
      BY DEF Active, Live, TypeOK, TableTypeOK, Rows
    <2> HIDE DEF todo
    <2>2. exec' = [exec EXCEPT !.pc = "tick", !.todo = todo]
      BY <1>1 DEF StartTick, todo
    <2> QED
      BY <1>0, <2>1, <2>2 DEF ExecStates, ExecRecords
  <1>2. CASE EndTick
    BY <1>2, DormantType DEF EndTick
  <1>3. ASSUME NEW s \in exec.todo, Evaluate(s) PROVE exec' \in ExecStates
    <2>1. s.id \in Ids /\ s.workflow \in Workflows
      BY <1>0 DEF ExecRecords
    <2> QED
      BY <1>0, <1>3, <2>1 DEF Evaluate, ExecStates, ExecRecords
  <1> QED
    BY <1>1, <1>2, <1>3

LEMMA TriggerType ==
    ASSUME TypeOK, SaveFind \/ Save \/ \E v \in Levels : Load(v)
    PROVE  exec' \in ExecStates
  <1> USE ConstantFacts
  <1>0. exec \in ExecStates /\ exec \in ExecRecords
    BY DEF TypeOK, ExecStates
  <1>1. CASE SaveFind
    BY <1>0, <1>1 DEF SaveFind, ExecStates, ExecRecords
  <1>2. CASE Save
    BY <1>0, <1>2 DEF Save, ExecStates, ExecRecords
  <1>3. ASSUME NEW v \in Levels, Load(v) PROVE exec' \in ExecStates
    <2> DEFINE metric == exec.workflow.metric
               prev == obs[exec.id]
               matched == Matched(metric, prev, v)
               pc == IF metric = "schedule" /\ prev # None /\ ~matched THEN "decide" ELSE "find"
               at == IF metric = "schedule" THEN now ELSE 0
               current == IF metric = "schedule" THEN None ELSE v
    <2>1. /\ prev \in Observations \cup {None}
          /\ exec.id # None /\ exec.workflow # None
      BY <1>0, <1>3 DEF Load, ExecStates, ExecRecords, TypeOK, TableTypeOK
    <2>2. matched \in BOOLEAN /\ pc \in {"decide", "find"}
      BY DEF Matched
    <2>3. at \in Time /\ current \in Levels \cup {None}
      BY DEF Time, TypeOK
    <2>4. exec' = [exec EXCEPT !.pc = pc, !.at = at, !.prev = prev, !.matched = matched,
                               !.current = current]
      BY <1>3 DEF Load
    <2> HIDE DEF prev, matched, pc, at, current
    <2> QED
      BY <1>0, <2>1, <2>2, <2>3, <2>4 DEF ExecStates, ExecRecords
  <1> QED
    BY <1>1, <1>2, <1>3

LEMMA ActionType ==
    ASSUME TypeOK, Act \/ Record \/ Stamp \/ EvaluationFails \/ \E b \in BOOLEAN : Decide(b)
    PROVE  exec' \in ExecStates
  <1> USE ConstantFacts
  <1>0. exec \in ExecStates /\ exec \in ExecRecords /\ Resumed \in ExecStates
    BY ResumedType DEF TypeOK, ExecStates
  <1>1. CASE Act
    <2> DEFINE left == Tail(exec.left)
               pc == IF Len(exec.left) = 1 THEN "record" ELSE "act"
               status == IF Head(exec.left) = "trade" THEN "approval_notification_sent"
                                                      ELSE exec.status
    <2>1. exec.left \in Seq({"message", "trade"}) \ {<<>>}
      BY <1>0, <1>1 DEF Act, ExecStates, ExecRecords
    <2>2. left \in Seq({"message", "trade"}) /\ Len(left) = Len(exec.left) - 1
      BY <2>1, HeadTailProperties
    <2>6. pc = "act" => left # <<>>
      <3>1. Len(exec.left) \in Nat /\ Len(exec.left) # 0
        BY <2>1, LenProperties, EmptySeq
      <3>2. left = <<>> => Len(left) = 0
        BY EmptySeq
      <3> HIDE DEF left
      <3> QED
        BY <2>2, <3>1, <3>2
    <2>3. status \in {"completed", "approval_notification_sent", "skipped", None}
      BY <1>0 DEF ExecRecords
    <2>4. exec' = [exec EXCEPT !.left = left, !.sent = @ + 1, !.pc = pc, !.status = status]
      BY <1>1 DEF Act
    <2>5. pc \in {"record", "act"} /\ exec.id # None /\ exec.workflow # None
      BY <1>0, <1>1 DEF Act, ExecStates
    <2>7. exec.sent \in Nat /\ exec.sent + 1 \in Nat
      BY <1>0 DEF ExecRecords
    <2> HIDE DEF left, pc, status
    <2>8. exec' \in ExecRecords
      <3> DEFINE n == exec.sent + 1
      <3>1. exec' = [exec EXCEPT !.left = left, !.sent = n, !.pc = pc, !.status = status]
        BY <2>4
      <3>2. n \in Nat
        BY <2>7
      <3> HIDE DEF n
      <3> QED
        BY <1>0, <2>2, <2>3, <2>5, <3>1, <3>2 DEF ExecRecords
    <2>9. exec'.pc = pc /\ exec'.left = left /\ exec'.id = exec.id
          /\ exec'.workflow = exec.workflow
      BY <1>0, <2>4 DEF ExecRecords
    <2> QED
      BY <2>5, <2>6, <2>8, <2>9 DEF ExecStates
  <1>2. CASE Record
    BY <1>0, <1>2 DEF Record, ExecStates, ExecRecords
  <1>3. CASE Stamp \/ EvaluationFails
    BY <1>0, <1>3 DEF Stamp, EvaluationFails
  <1>4. ASSUME NEW b \in BOOLEAN, Decide(b) PROVE exec' \in ExecStates
    <2> DEFINE rest == [Resumed EXCEPT !.id = exec.id, !.workflow = exec.workflow]
               actions == exec.workflow.actions
    <2>1. /\ exec.id \in Ids /\ exec.workflow \in Workflows
          /\ exec.todo \in SUBSET [id : Ids, workflow : Workflows]
      BY <1>0, <1>4 DEF Decide, ExecStates, ExecRecords
    <2>2. actions \in Seq({"message", "trade"}) /\ actions # <<>>
      BY <2>1, WorkflowsAssumption DEF WorkflowShape
    <2>3. \/ exec' = [rest EXCEPT !.pc = "act", !.left = actions, !.status = "completed"]
          \/ exec' = [rest EXCEPT !.pc = "record", !.status = "skipped"]
      BY <1>4 DEF Decide
    <2>4. rest \in ExecRecords /\ rest.id # None /\ rest.workflow # None
      BY <1>0, <2>1 DEF ExecStates, ExecRecords
    <2> HIDE DEF actions, rest
    <2>5. [rest EXCEPT !.pc = "act", !.left = actions, !.status = "completed"] \in ExecStates
      BY <2>2, <2>4 DEF ExecStates, ExecRecords
    <2>6. [rest EXCEPT !.pc = "record", !.status = "skipped"] \in ExecStates
      BY <2>4 DEF ExecStates, ExecRecords
    <2> QED
      BY <2>3, <2>5, <2>6
  <1> QED
    BY <1>1, <1>2, <1>3, <1>4

LEMMA ExecutorGhosts ==
    ASSUME TypeOK, ExecutorStep
    PROVE  /\ alertAt' \in [Ids -> -Cooldown..MaxTime]
           /\ unrecorded' \subseteq Ids
           /\ disturbed' \subseteq Ids
  <1> USE ConstantFacts
  <1>0. exec.id \in Ids \cup {None} /\ (exec.pc \notin {"idle", "tick"} => exec.id \in Ids)
    BY DEF TypeOK, ExecStates, ExecRecords
  <1>1. alertAt' \in [Ids -> -Cooldown..MaxTime]
    <2>1. CASE Act
      <3>1. now \in -Cooldown..MaxTime
        BY DEF TypeOK, Time
      <3>2. alertAt' = [alertAt EXCEPT ![exec.id] = now]
        BY <2>1 DEF Act
      <3>3. alertAt \in [Ids -> -Cooldown..MaxTime]
        BY DEF TypeOK
      <3> QED
        BY <3>1, <3>2, <3>3
    <2>2. CASE ~Act
      <3>1. alertAt' = alertAt
        BY <2>2 DEF ExecutorStep, ghosts, StartTick, EndTick, Evaluate, Load, SaveFind,
               Save, Decide, Record, Stamp, EvaluationFails
      <3> QED
        BY <3>1 DEF TypeOK
    <2> QED
      BY <2>1, <2>2
  <1>2. unrecorded' \subseteq Ids
    <2>1. Lost \subseteq Ids
      BY <1>0 DEF Lost, TypeOK
    <2>2. unrecorded' \subseteq unrecorded \/ unrecorded' = Lost
      BY DEF ExecutorStep, ghosts, StartTick, EndTick, Evaluate, Load, SaveFind, Save,
             Decide, Act, Record, Stamp, EvaluationFails
    <2> QED
      BY <2>1, <2>2 DEF TypeOK
  <1>3. disturbed' \subseteq Ids
    <2>1. ASSUME NEW v \in Levels, Load(v) PROVE disturbed' \subseteq disturbed \cup {exec.id}
      <3>1. disturbed' \in {disturbed, disturbed \cup {exec.id}}
        BY <2>1 DEF Load
      <3> QED
        BY <3>1
    <2>2. ASSUME NEW v \in Levels, Load(v) PROVE exec.id \in Ids
      BY <1>0, <2>2 DEF Load
    <2>3. (\E v \in Levels : Load(v)) \/ disturbed' = disturbed
      BY DEF ExecutorStep, ghosts, StartTick, EndTick, Evaluate, SaveFind, Save,
             Decide, Act, Record, Stamp, EvaluationFails
    <2> QED
      BY <2>1, <2>2, <2>3 DEF TypeOK
  <1> QED
    BY <1>1, <1>2, <1>3
-----------------------------------------------------------------------------
LEMMA TypeInit == Init => TypeOK
  <1> SUFFICES ASSUME Init PROVE TypeOK
    OBVIOUS
  <1>1. TableTypeOK
    BY DEF Init, TableTypeOK, Live
  <1>2. call \in [Callers -> CallStates] /\ exec \in ExecStates
    BY NoCallType, DormantType DEF Init
  <1>3. alertAt \in [Ids -> -Cooldown..MaxTime]
    BY ConstantFacts DEF Init
  <1> QED
    BY <1>1, <1>2, <1>3, ConstantFacts DEF Init, TypeOK, Time

LEMMA TypeStep == TypeOK /\ [Next]_vars => TypeOK'
  <1> SUFFICES ASSUME TypeOK, [Next]_vars PROVE TypeOK'
    OBVIOUS
  <1> USE ConstantFacts
  <1>1. ASSUME NEW c \in Callers, Request(c) PROVE TypeOK'
    BY <1>1, RequestLocals DEF TypeOK, TableTypeOK, Live, tables, ghosts
  <1>2. ASSUME NEW c \in Callers, CallStep(c) \/ Answer(c) PROVE TypeOK'
    BY <1>2, CallLocals, CallTables DEF TypeOK
  <1>3. CASE ExecutorStep
    <2>1. exec' \in ExecStates
      BY <1>3, TickType, TriggerType, ActionType DEF ExecutorStep
    <2> QED
      BY <1>3, <2>1, ExecutorTables, ExecutorGhosts DEF TypeOK
  <1>4. CASE Restart
    <2>1. exec.id \in Ids \cup {None} /\ (exec.sent > 0 /\ exec.pc \in {"act", "record"} => exec.id \in Ids)
      BY DEF TypeOK, ExecStates, ExecRecords
    <2>2. disturbed' \subseteq Ids
      BY <1>4 DEF Restart, TypeOK, At, CallStates, CallRecords
    <2>3. call' \in [Callers -> CallStates] /\ exec' \in ExecStates
      BY <1>4, NoCallType, DormantType DEF Restart
    <2>4. unrecorded' \subseteq Ids
      BY <1>4, <2>1 DEF Restart, Lost, TypeOK
    <2> QED
      BY <1>4, <2>2, <2>3, <2>4 DEF Restart, TypeOK, TableTypeOK, Live, tables
  <1>5. CASE Elapse
    BY <1>5 DEF Elapse, TypeOK, TableTypeOK, Live, tables, ghosts, Time
  <1>6. CASE UNCHANGED vars
    BY <1>6 DEF vars, TypeOK, TableTypeOK, Live, tables, ghosts
  <1> QED
    BY <1>1, <1>2, <1>3, <1>4, <1>5, <1>6 DEF Next

(* Every reachable state is well typed, the foreign keys hold, and every   *)
(* handler has at hand what its next statement needs.                      *)
THEOREM TypeCorrect == Spec => []TypeOK
  BY TypeInit, TypeStep, PTL DEF Spec

-----------------------------------------------------------------------------
(* The keys.                                                               *)

\* Outside Insert no row begins, and no row's key changes.
LEMMA KeysKept ==
    ASSUME TypeOK, [Next]_vars, ~ \E c \in Callers, a \in Ids : Insert(c, a)
    PROVE  \A a \in Ids : row'[a] # None => Live(a) /\ row'[a].key = row[a].key
  <1> USE ConstantFacts
  <1> DEFINE Kept == \A a \in Ids : row'[a] # None => Live(a) /\ row'[a].key = row[a].key
  <1>0. row \in [Ids -> Rows \cup {None}]
    BY DEF TypeOK, TableTypeOK
  <1>1. ASSUME row' = row PROVE Kept
    BY <1>1 DEF Live
  <1>2. ASSUME NEW c \in Callers, UpdateWrite(c) PROVE Kept
    <2> DEFINE b == call[c].id
               r == [row[b] EXCEPT !.workflow = call[c].workflow, !.status = "active"]
    <2>1. Live(b) /\ row' = [row EXCEPT ![b] = r]
      BY <1>2 DEF UpdateWrite
    <2>2. b \in Ids => r.key = row[b].key
      BY <1>0, <2>1 DEF Rows, Live
    <2> HIDE DEF r, b
    <2> QED
      BY <1>0, <2>1, <2>2 DEF Live
  <1>3. ASSUME NEW c \in Callers, SetStatus(c) PROVE Kept
    <2> DEFINE b == call[c].id
               r == [row[b] EXCEPT !.status = IF call[c].op = "pause" THEN "paused" ELSE "active"]
    <2>1. Live(b) /\ row' = [row EXCEPT ![b] = r]
      BY <1>3 DEF SetStatus
    <2>2. b \in Ids => r.key = row[b].key
      BY <1>0, <2>1 DEF Rows, Live
    <2> HIDE DEF r, b
    <2> QED
      BY <1>0, <2>1, <2>2 DEF Live
  <1>4. ASSUME NEW c \in Callers, Delete(c) PROVE Kept
    BY <1>0, <1>4 DEF Delete, Live
  <1>5. ASSUME NEW c \in Callers, CallStep(c) \/ Answer(c) PROVE Kept
    <2>1. \/ row' = row \/ UpdateWrite(c) \/ SetStatus(c) \/ Delete(c)
      BY <1>5 DEF CallStep, Lookup, InsertFails, Find, Forget, Alert, Fail,
             Answer, tables
    <2> QED
      BY <1>1, <1>2, <1>3, <1>4, <2>1
  <1>6. ASSUME NEW c \in Callers, Request(c) PROVE Kept
    BY <1>1, <1>6, RequestLocals DEF tables
  <1>7. CASE ExecutorStep
    BY <1>1, <1>7, ExecutorTables
  <1>8. CASE Restart \/ Elapse \/ UNCHANGED vars
    BY <1>1, <1>8 DEF Restart, Elapse, tables, vars
  <1> QED
    BY <1>5, <1>6, <1>7, <1>8 DEF Next

LEMMA KeyStep == TypeOK /\ OneRowPerKey /\ [Next]_vars => OneRowPerKey'
  <1> SUFFICES ASSUME TypeOK, OneRowPerKey, [Next]_vars PROVE OneRowPerKey'
    OBVIOUS
  <1>1. ASSUME NEW c \in Callers, NEW a \in Ids, Insert(c, a) PROVE OneRowPerKey'
    <2> DEFINE r == [workflow |-> call[c].workflow, status |-> "active", key |-> call[c].key]
    <2>1. row' = [row EXCEPT ![a] = r] /\ r.key = call[c].key
      BY <1>1 DEF Insert
    <2>2. \A b \in Ids : Live(b) /\ call[c].key # None => row[b].key # call[c].key
      BY <1>1 DEF Insert, Unique, OfKey
    <2>3. row \in [Ids -> Rows \cup {None}]
      BY DEF TypeOK, TableTypeOK
    <2> HIDE DEF r
    <2> QED
      BY <2>1, <2>2, <2>3 DEF OneRowPerKey, Live
  <1>2. CASE ~ \E c \in Callers, a \in Ids : Insert(c, a)
    BY <1>2, KeysKept DEF OneRowPerKey, Live
  <1> QED
    BY <1>1, <1>2

(* However the requests that publish it interleave, at most one automation *)
(* of the user has an idempotency key.                                     *)
THEOREM KeysUnique == Spec => []OneRowPerKey
  <1>1. Init => OneRowPerKey
    BY DEF Init, OneRowPerKey, Live
  <1> QED
    BY <1>1, TypeInit, TypeStep, KeyStep, PTL DEF Spec

-----------------------------------------------------------------------------
(* What the executor and the others leave alone.                           *)

LEMMA SilentStep ==
    ASSUME TypeOK, [Next]_vars, NEW a \in Ids, ~Live(a), exec.id = a
    PROVE  exec'.sent <= exec.sent
  <1>0. exec \in ExecRecords /\ exec.sent \in Nat
    BY DEF TypeOK, ExecStates, ExecRecords
  <1>1. ASSUME exec'.sent = exec.sent \/ exec'.sent = 0 PROVE exec'.sent <= exec.sent
    BY <1>0, <1>1
  <1>2. ~Act
    BY DEF Act, Notifiable
  <1>3. Resumed.sent = 0 /\ Dormant.sent = 0
    BY DEF Resumed, Dormant
  <1>4. CASE Stamp \/ EvaluationFails \/ EndTick \/ Restart
    BY <1>1, <1>3, <1>4 DEF Stamp, EvaluationFails, EndTick, Restart
  <1>5. ASSUME NEW b \in BOOLEAN, Decide(b) PROVE exec'.sent = 0
    BY <1>5 DEF Decide, Resumed, Dormant
  <1>6. CASE StartTick \/ SaveFind \/ Save \/ Record
    BY <1>0, <1>1, <1>6 DEF StartTick, SaveFind, Save, Record, ExecRecords
  <1>7. ASSUME NEW s \in exec.todo, Evaluate(s) PROVE exec'.sent = exec.sent
    BY <1>0, <1>7 DEF Evaluate, ExecRecords
  <1>8. ASSUME NEW v \in Levels, Load(v) PROVE exec'.sent = exec.sent
    BY <1>0, <1>8 DEF Load, ExecRecords
  <1>9. ASSUME NEW c \in Callers, Request(c) \/ CallStep(c) \/ Answer(c)
        PROVE  exec' = exec
    BY <1>9, RequestLocals, CallLocals
  <1>10. CASE Elapse \/ UNCHANGED vars
    BY <1>1, <1>10 DEF Elapse, vars
  <1> QED
    BY <1>1, <1>2, <1>4, <1>5, <1>6, <1>7, <1>8, <1>9, <1>10 DEF Next, ExecutorStep

(* The executor sends no alert for an automation that is deleted.          *)
THEOREM DeletedStaysSilent == Spec => DeletedIsSilent
  <1>1. TypeOK /\ [Next]_vars =>
          [\A a \in Ids : ~Live(a) /\ exec.id = a => exec'.sent <= exec.sent]_vars
    BY SilentStep
  <1> QED
    BY <1>1, TypeCorrect, PTL DEF Spec, DeletedIsSilent

LEMMA UserStep ==
    ASSUME TypeOK, [Next]_vars, NEW a \in Ids, Live(a), row'[a] # None,
           \/ row[a].status = "paused" /\ row'[a].status = "active"
           \/ row[a].workflow # row'[a].workflow
    PROVE  \E c \in Callers : call[c].id = a /\ call[c].op \in {"update", "resume"}
  <1> USE ConstantFacts
  <1>0. row \in [Ids -> Rows \cup {None}] /\ row[a] \in Rows /\ row' # row
    BY DEF TypeOK, TableTypeOK, Live
  <1>1. ASSUME NEW c \in Callers, UpdateWrite(c)
        PROVE  call[c].id = a /\ call[c].op = "update"
    BY <1>0, <1>1 DEF UpdateWrite
  <1>2. ASSUME NEW c \in Callers, SetStatus(c)
        PROVE  call[c].id = a /\ call[c].op = "resume"
    <2> DEFINE r == [row[a] EXCEPT !.status = IF call[c].op = "pause" THEN "paused" ELSE "active"]
    <2>1. call[c].id = a
      BY <1>0, <1>2 DEF SetStatus
    <2>2. row'[a] = r /\ call[c].op \in {"pause", "resume"}
      BY <1>0, <1>2, <2>1 DEF SetStatus
    <2>3. r.workflow = row[a].workflow
          /\ (call[c].op = "pause" => r.status = "paused")
      BY <1>0 DEF Rows
    <2> QED
      BY <2>1, <2>2, <2>3
  <1>3. ASSUME NEW c \in Callers, Delete(c) PROVE FALSE
    BY <1>0, <1>3 DEF Delete
  <1>4. ASSUME NEW c \in Callers, NEW b \in Ids, Insert(c, b) PROVE FALSE
    <2>1. b # a
      BY <1>4 DEF Insert, TypeOK, TableTypeOK
    <2> QED
      BY <1>0, <1>4, <2>1 DEF Insert
  <1>5. ASSUME NEW c \in Callers, CallStep(c) \/ Answer(c)
        PROVE  call[c].id = a /\ call[c].op \in {"update", "resume"}
    BY <1>0, <1>1, <1>2, <1>3, <1>4, <1>5
       DEF CallStep, Lookup, InsertFails, Find, Forget, Alert, Fail,
           Answer, tables
  <1>6. ~ExecutorStep
    BY <1>0, ExecutorTables
  <1>7. ASSUME NEW c \in Callers PROVE ~Request(c)
    BY <1>0, RequestLocals DEF tables
  <1> QED
    BY <1>0, <1>5, <1>6, <1>7 DEF Next, Restart, Elapse, tables, vars

(* Only a call of the user makes a paused automation active, or changes    *)
(* its workflow, whatever copy of the row the executor has.                *)
THEOREM UsersResume == Spec => OnlyUsersResume
  <1>1. TypeOK /\ [Next]_vars =>
          [\A a \in Ids :
             Live(a) /\ row'[a] # None
             /\ \/ row[a].status = "paused" /\ row'[a].status = "active"
                \/ row[a].workflow # row'[a].workflow
             => \E c \in Callers : call[c].id = a /\ call[c].op \in {"update", "resume"}]_vars
    BY UserStep
  <1> QED
    BY <1>1, TypeCorrect, PTL DEF Spec, OnlyUsersResume

-----------------------------------------------------------------------------
(* The cooldown.  What an evaluation has sent is either still to be        *)
(* recorded by it, or in a run the next one looks for; a run that is too   *)
(* recent keeps an evaluation from its first alert.                        *)

Sending(a) == exec.id = a /\ exec.sent > 0 /\ exec.pc \in {"act", "record"}

Covered(a) ==
    \/ alertAt[a] = -Cooldown
    \/ Sending(a)
    \/ ~Live(a)
    \/ \E t \in runs[a] : t >= alertAt[a]

Sends ==
    /\ exec.pc = "act" /\ exec.sent = 0 => ~InCooldown(exec.id)
    /\ exec.pc = "act" \/ (exec.pc = "record" /\ exec.sent > 0) => exec.status \in Counted
    /\ exec.pc \notin {"act", "record", "stamp"} => exec.sent = 0

Clocks ==
    \A a \in Ids : alertAt[a] <= now /\ (a \notin used => alertAt[a] = -Cooldown)

CooldownInv == TypeOK /\ (\A a \in Ids \ unrecorded : Covered(a)) /\ Sends /\ Clocks

LEMMA CooldownInit == Init => CooldownInv
  BY TypeInit, ConstantFacts
     DEF Init, CooldownInv, Covered, Sends, Clocks, Dormant, InCooldown

\* A request leaves the executor's state alone; a deletion takes the runs.
LEMMA CooldownCall ==
    ASSUME CooldownInv, NEW c \in Callers, CallStep(c) \/ Answer(c)
    PROVE  (\A a \in Ids \ unrecorded' : Covered(a)') /\ Sends' /\ Clocks'
  <1> USE ConstantFacts
  <1>1. TypeOK
    BY DEF CooldownInv
  <1>2. UNCHANGED <<exec, now, alertAt, unrecorded>>
    BY <1>1, CallLocals
  <1>3. CASE Delete(c)
    <2>1. call[c].id \in Ids
      BY <1>1, <1>3 DEF Delete, At, TypeOK, CallStates, CallRecords
    <2>2. row \in [Ids -> Rows \cup {None}] /\ runs \in [Ids -> SUBSET Time]
      BY <1>1 DEF TypeOK, TableTypeOK
    <2>3. \A a \in Ids : runs'[a] \in {runs[a], {}}
          /\ (a # call[c].id => runs'[a] = runs[a] /\ row'[a] = row[a])
          /\ (a = call[c].id => row'[a] = None)
      BY <1>3, <2>2 DEF Delete
    <2>4. \A a \in Ids \ unrecorded' : Covered(a)'
      BY <1>2, <2>3 DEF CooldownInv, Covered, Sending, Live
    <2>5. Sends'
      <3>1. exec.pc = "act" => exec.id \in Ids
        BY <1>1 DEF TypeOK, ExecStates, ExecRecords
      <3> QED
        BY <1>2, <2>3, <3>1 DEF CooldownInv, Sends, InCooldown
    <2> QED
      BY <1>2, <1>3, <2>4, <2>5 DEF CooldownInv, Clocks, Delete
  <1>4. ASSUME NEW a \in Ids, Insert(c, a)
        PROVE  (\A b \in Ids \ unrecorded' : Covered(b)') /\ Sends' /\ Clocks'
    <2>1. /\ runs' = runs /\ used' = used \cup {a} /\ a \notin used
          /\ \A b \in Ids : b # a => row'[b] = row[b]
      BY <1>1, <1>4 DEF Insert, TypeOK, TableTypeOK
    <2>2. alertAt[a] = -Cooldown
      BY <2>1 DEF CooldownInv, Clocks
    <2> QED
      BY <1>2, <2>1, <2>2
         DEF CooldownInv, Covered, Sending, Live, Sends, InCooldown, Clocks
  <1>5. CASE ~Delete(c) /\ ~ \E a \in Ids : Insert(c, a)
    <2>1. runs' = runs /\ used' = used
      BY <1>5 DEF CallStep, Lookup, InsertFails, Find, UpdateWrite, Forget,
             SetStatus, Alert, Fail, Answer, tables
    <2>2. ~ \E d \in Callers, a \in Ids : Insert(d, a)
      <3>1. ASSUME NEW d \in Callers, NEW a \in Ids, Insert(d, a) PROVE FALSE
        BY <1>1, <2>1, <3>1 DEF Insert
      <3> QED
        BY <3>1
    <2>3. \A a \in Ids : row'[a] # None => Live(a)
      BY <1>1, <2>2, KeysKept DEF Next
    <2> QED
      BY <1>2, <2>1, <2>3
         DEF CooldownInv, Covered, Sending, Live, Sends, InCooldown, Clocks
  <1> QED
    BY <1>3, <1>4, <1>5

\* The steps of an evaluation before its actions.
LEMMA CooldownTrigger ==
    ASSUME CooldownInv,
           \/ StartTick \/ EndTick \/ SaveFind \/ Save
           \/ \E s \in exec.todo : Evaluate(s)
           \/ \E v \in Levels : Load(v)
           \/ \E b \in BOOLEAN : Decide(b)
    PROVE  (\A a \in Ids \ unrecorded' : Covered(a)') /\ Sends' /\ Clocks'
  <1> USE ConstantFacts
  <1>1. TypeOK /\ exec \in ExecRecords
    BY DEF CooldownInv, TypeOK, ExecStates
  <1>2. UNCHANGED <<row, used, runs, now, alertAt, unrecorded>>
    BY DEF StartTick, EndTick, SaveFind, Save, Evaluate, Load, Decide, tables, ghosts
  <1>3. exec.pc \notin {"act", "record", "stamp"} /\ exec.sent = 0
    BY DEF CooldownInv, Sends, StartTick, EndTick, SaveFind, Save, Evaluate, Load, Decide
  <1>4. \A a \in Ids \ unrecorded' : Covered(a)'
    BY <1>2, <1>3 DEF CooldownInv, Covered, Sending, Live
  <1>5. Clocks'
    BY <1>2 DEF CooldownInv, Clocks
  <1>6. Sends'
    <2>1. ASSUME NEW b \in BOOLEAN, Decide(b) PROVE Sends'
      <3> DEFINE rest == [Resumed EXCEPT !.id = exec.id, !.workflow = exec.workflow]
      <3>1. \/ /\ ~InCooldown(exec.id)
               /\ exec' = [rest EXCEPT !.pc = "act", !.left = exec.workflow.actions,
                                       !.status = "completed"]
            \/ exec' = [rest EXCEPT !.pc = "record", !.status = "skipped"]
        BY <2>1 DEF Decide
      <3>2. \/ /\ ~InCooldown(exec.id) /\ exec'.pc = "act" /\ exec'.id = exec.id
               /\ exec'.status = "completed" /\ exec'.sent = 0
            \/ exec'.pc = "record" /\ exec'.sent = 0
        BY <3>1 DEF Resumed, Dormant
      <3> QED
        BY <1>2, <3>2 DEF Sends, InCooldown, Counted
    <2>2. CASE EndTick
      BY <2>2 DEF EndTick, Dormant, Sends
    <2>3. CASE StartTick \/ SaveFind \/ Save
      BY <1>1, <1>3, <2>3 DEF StartTick, SaveFind, Save, Sends, ExecRecords
    <2>4. ASSUME NEW s \in exec.todo, Evaluate(s) PROVE Sends'
      BY <1>1, <1>3, <2>4 DEF Evaluate, Sends, ExecRecords
    <2>5. ASSUME NEW v \in Levels, Load(v) PROVE Sends'
      <3>1. exec'.pc \in {"decide", "find"} /\ exec'.sent = 0
        BY <1>1, <1>3, <2>5 DEF Load, ExecRecords
      <3> QED
        BY <3>1 DEF Sends
    <2> QED
      BY <2>1, <2>2, <2>3, <2>4, <2>5
  <1> QED
    BY <1>4, <1>5, <1>6

\* An action is covered by its evaluation until this one has recorded its run.
LEMMA CooldownSend ==
    ASSUME CooldownInv, Act \/ Record \/ Stamp
    PROVE  (\A a \in Ids \ unrecorded' : Covered(a)') /\ Sends' /\ Clocks'
  <1> USE ConstantFacts
  <1>1. TypeOK /\ exec \in ExecRecords /\ exec.sent \in Nat
    BY DEF CooldownInv, TypeOK, ExecStates, ExecRecords
  <1>2. exec.pc \in {"act", "record"} => exec.id \in Ids
    BY DEF CooldownInv, TypeOK, ExecStates, ExecRecords
  <1>3. now \in Nat /\ alertAt \in [Ids -> -Cooldown..MaxTime] /\ runs \in [Ids -> SUBSET Time]
    BY <1>1 DEF TypeOK, TableTypeOK, Time
  <1>4. CASE Act
    <2> DEFINE status == IF Head(exec.left) = "trade" THEN "approval_notification_sent"
                                                      ELSE exec.status
    <2>1. /\ exec'.id = exec.id /\ exec'.sent = exec.sent + 1
          /\ exec'.pc \in {"act", "record"} /\ exec'.status = status
      BY <1>1, <1>4 DEF Act, ExecRecords
    <2>2. /\ UNCHANGED <<row, used, obs, runs, now, unrecorded>>
          /\ alertAt' = [alertAt EXCEPT ![exec.id] = now]
          /\ exec.id \in Ids /\ Live(exec.id) /\ exec.pc = "act"
      BY <1>2, <1>4 DEF Act, Notifiable, tables
    <2>3. status \in Counted
      BY <2>2 DEF CooldownInv, Sends, Counted
    <2>4. exec'.sent > 0
      BY <1>1, <2>1
    <2>5. ASSUME NEW a \in Ids \ unrecorded' PROVE Covered(a)'
      <3>1. CASE a = exec.id
        BY <2>1, <2>4, <3>1 DEF Covered, Sending
      <3>2. CASE a # exec.id
        <4>1. alertAt'[a] = alertAt[a] /\ Covered(a) /\ ~Sending(a)
          BY <1>3, <2>2, <3>2 DEF CooldownInv, Sending
        <4> QED
          BY <2>2, <4>1 DEF Covered, Live
      <3> QED
        BY <3>1, <3>2
    <2>6. Sends'
      BY <2>1, <2>3, <2>4 DEF Sends, Counted
    <2>7. Clocks'
      <3>1. exec.id \in used
        BY <1>1, <2>2 DEF TypeOK, TableTypeOK
      <3> QED
        BY <1>3, <2>2, <3>1 DEF CooldownInv, Clocks
    <2> QED
      BY <2>5, <2>6, <2>7
  <1>5. CASE Record
    <2>1. /\ exec'.id = exec.id /\ exec'.pc = "stamp" /\ exec.pc = "record"
          /\ exec.id \in Ids
      BY <1>1, <1>2, <1>5 DEF Record, ExecRecords
    <2>2. /\ UNCHANGED <<row, used, now, alertAt>>
          /\ \A a \in Ids : runs[a] \subseteq runs'[a]
          /\ exec.status \in Counted => now \in runs'[exec.id]
          /\ unrecorded' = IF exec.sent > 0 THEN unrecorded \ {exec.id} ELSE unrecorded
      BY <1>3, <2>1, <1>5 DEF Record
    <2>3. ASSUME NEW a \in Ids \ unrecorded' PROVE Covered(a)'
      <3>1. CASE a = exec.id /\ exec.sent > 0
        BY <2>1, <2>2, <3>1 DEF CooldownInv, Sends, Clocks, Covered
      <3>2. CASE ~(a = exec.id /\ exec.sent > 0)
        <4>1. Covered(a) /\ ~Sending(a)
          BY <2>2, <3>2 DEF CooldownInv, Sending
        <4> QED
          BY <2>2, <4>1 DEF Covered, Live
      <3> QED
        BY <3>1, <3>2
    <2>4. Sends'
      BY <2>1 DEF Sends
    <2> QED
      BY <2>2, <2>3, <2>4 DEF CooldownInv, Clocks
  <1>6. CASE Stamp
    <2>1. UNCHANGED <<row, used, runs, now, alertAt, unrecorded>> /\ exec.pc = "stamp"
      BY <1>6 DEF Stamp, Stamped, ghosts
    <2>2. exec'.pc = "tick" /\ exec'.sent = 0
      BY <1>6 DEF Stamp, Resumed, Dormant
    <2> QED
      BY <2>1, <2>2 DEF CooldownInv, Covered, Sending, Live, Sends, Clocks
  <1> QED
    BY <1>4, <1>5, <1>6

\* An evaluation that is given up leaves its automation among the unrecorded.
LEMMA CooldownLost ==
    ASSUME CooldownInv, EvaluationFails \/ Restart
    PROVE  (\A a \in Ids \ unrecorded' : Covered(a)') /\ Sends' /\ Clocks'
  <1>1. /\ UNCHANGED <<row, used, runs, now, alertAt>>
        /\ unrecorded' = Lost /\ exec' \in {Resumed, Dormant}
    BY DEF EvaluationFails, Restart, tables
  <1>2. exec'.sent = 0 /\ exec'.pc \in {"idle", "tick"}
    <2>1. Resumed.sent = 0 /\ Resumed.pc = "tick" /\ Dormant.sent = 0 /\ Dormant.pc = "idle"
      BY DEF Resumed, Dormant
    <2> QED
      BY <1>1, <2>1
  <1>3. \A a \in Ids \ unrecorded' : Covered(a) /\ ~Sending(a)
    BY <1>1 DEF CooldownInv, Lost, Sending
  <1> QED
    BY <1>1, <1>2, <1>3 DEF CooldownInv, Covered, Live, Sends, Clocks

LEMMA CooldownStep == CooldownInv /\ [Next]_vars => CooldownInv'
  <1> SUFFICES ASSUME CooldownInv, [Next]_vars PROVE CooldownInv'
    OBVIOUS
  <1> USE ConstantFacts
  <1>1. TypeOK /\ TypeOK'
    BY TypeStep DEF CooldownInv
  <1> DEFINE Rest == (\A a \in Ids \ unrecorded : Covered(a)) /\ Sends /\ Clocks
  <1>2. ASSUME NEW c \in Callers, CallStep(c) \/ Answer(c) PROVE Rest'
    BY <1>2, CooldownCall
  <1>3. ASSUME UNCHANGED <<row, used, runs, exec, now, alertAt, unrecorded>> PROVE Rest'
    BY <1>3 DEF CooldownInv, Covered, Sending, Live, Sends, InCooldown, Clocks
  <1>4. ASSUME NEW c \in Callers, Request(c) PROVE Rest'
    BY <1>1, <1>3, <1>4, RequestLocals DEF tables, ghosts
  <1>5. ASSUME ExecutorStep PROVE Rest'
    BY <1>5, CooldownTrigger, CooldownSend, CooldownLost DEF ExecutorStep
  <1>6. ASSUME Restart PROVE Rest'
    BY <1>6, CooldownLost
  <1>7. ASSUME Elapse PROVE Rest'
    <2>1. /\ UNCHANGED <<row, used, runs, exec, alertAt, unrecorded>>
          /\ now' = now + 1 /\ now \in Nat
      BY <1>1, <1>7 DEF Elapse, tables, ghosts, TypeOK, Time
    <2>2. Sends'
      <3>1. exec.pc = "act" => exec.id \in Ids /\ runs[exec.id] \subseteq Nat
        BY <1>1 DEF TypeOK, ExecStates, ExecRecords, TableTypeOK, Time
      <3> QED
        BY <2>1, <3>1 DEF CooldownInv, Sends, InCooldown
    <2>3. Clocks'
      BY <1>1, <2>1 DEF CooldownInv, Clocks, TypeOK
    <2> QED
      BY <2>1, <2>2, <2>3 DEF CooldownInv, Covered, Sending, Live
  <1>8. ASSUME UNCHANGED vars PROVE Rest'
    BY <1>3, <1>8 DEF vars, tables, ghosts
  <1> QED
    BY <1>1, <1>2, <1>4, <1>5, <1>6, <1>7, <1>8 DEF Next, CooldownInv

(* An alert of an automation is covered, by the evaluation that sent it or *)
(* by a run as recent as it is, until an evaluation fails in between.      *)
THEOREM CooldownIsInvariant == Spec => []CooldownInv
  BY CooldownInit, CooldownStep, PTL DEF Spec

LEMMA FirstAlert ==
    ASSUME CooldownInv, [Next]_vars, NEW a \in Ids \ unrecorded,
           exec.id = a, exec.sent = 0, exec'.sent = 1
    PROVE  now >= alertAt[a] + Cooldown
  <1> USE ConstantFacts
  <1>1. TypeOK /\ exec \in ExecRecords
    BY DEF CooldownInv, TypeOK, ExecStates
  <1>2. Act
    <2>1. Resumed.sent = 0 /\ Dormant.sent = 0
      BY DEF Resumed, Dormant
    <2>2. ~Stamp /\ ~EvaluationFails /\ ~EndTick /\ ~Restart
      BY <2>1 DEF Stamp, EvaluationFails, EndTick, Restart
    <2>3. ~StartTick /\ ~SaveFind /\ ~Save /\ ~Record
      <3>1. StartTick \/ SaveFind \/ Save \/ Record => exec'.sent = exec.sent
        BY <1>1 DEF StartTick, SaveFind, Save, Record, ExecRecords
      <3> QED
        BY <3>1
    <2>4. ASSUME NEW b \in BOOLEAN, Decide(b) PROVE FALSE
      <3>1. exec'.sent = 0
        BY <2>4 DEF Decide, Resumed, Dormant
      <3> QED
        BY <3>1
    <2>5. ASSUME NEW s \in exec.todo, Evaluate(s) PROVE FALSE
      BY <1>1, <2>5 DEF Evaluate, ExecRecords
    <2>6. ASSUME NEW v \in Levels, Load(v) PROVE FALSE
      BY <1>1, <2>6 DEF Load, ExecRecords
    <2>7. ASSUME NEW c \in Callers, Request(c) \/ CallStep(c) \/ Answer(c) PROVE FALSE
      BY <1>1, <2>7, RequestLocals, CallLocals
    <2>8. ~ (Elapse \/ UNCHANGED vars)
      BY DEF Elapse, vars
    <2> QED
      BY <2>2, <2>3, <2>4, <2>5, <2>6, <2>7, <2>8 DEF Next, ExecutorStep
  <1>3. ~InCooldown(a) /\ Live(a) /\ Covered(a) /\ ~Sending(a)
    BY <1>2 DEF CooldownInv, Sends, Sending, Act, Notifiable
  <1>4. now \in Nat /\ alertAt[a] \in Int /\ runs[a] \subseteq Nat
    BY <1>1 DEF TypeOK, TableTypeOK, Time
  <1> QED
    BY <1>3, <1>4 DEF Covered, InCooldown

(* The first alert of an evaluation comes at least a cooldown after the    *)
(* last alert of the earlier evaluations, unless one of these ended before *)
(* its run was recorded.                                                   *)
THEOREM CooldownRespected == Spec => AlertsRespectCooldown
  <1>1. CooldownInv /\ [Next]_vars =>
          [\A a \in Ids \ unrecorded :
             exec.id = a /\ exec.sent = 0 /\ exec'.sent = 1 =>
               now >= alertAt[a] + Cooldown]_vars
    BY FirstAlert
  <1> QED
    BY <1>1, CooldownIsInvariant, PTL DEF Spec, AlertsRespectCooldown

-----------------------------------------------------------------------------
(* The baseline of the triggers.  The executor's copies of a workflow stay *)
(* those of the row as long as no update comes while it has them, and what *)
(* it compares with was saved from such a copy.                            *)

Fresh(a) == Live(a) /\ obs[a] # None /\ ~Forgetting(a) => obs[a].of = row[a].workflow

Compared(a) == exec.id = a /\ exec.matched => exec.prev.of = exec.workflow

Copied(a) ==
    Live(a) =>
      /\ \A s \in exec.todo : s.id = a => s.workflow = row[a].workflow
      /\ exec.id = a => exec.workflow = row[a].workflow

\* An update that will not delete the observations has been noted.
Forgets ==
    \A c \in Callers : At(c, "forget") => call[c].arg = call[c].id \/ call[c].id \in disturbed

HeldUsed == Held \subseteq used \cup {None}

Own == \A a \in Ids \ disturbed : Fresh(a) /\ Compared(a) /\ Copied(a)

Unmatched == exec.pc \in {"idle", "tick"} => ~exec.matched

OwnInv == TypeOK /\ Own /\ Forgets /\ HeldUsed /\ Unmatched

LEMMA OwnInit == Init => OwnInv
  BY TypeInit, ConstantFacts
     DEF Init, OwnInv, Own, Fresh, Compared, Copied, Forgets, HeldUsed, Held, Dormant,
         NoCall, At, Live, Unmatched

\* A step beside the executor that changes no workflow.
LEMMA OwnKept ==
    ASSUME OwnInv, exec' = exec, disturbed \subseteq disturbed', used \subseteq used',
           \A a \in Ids : Live(a)' => Live(a) /\ row'[a].workflow = row[a].workflow,
           \A a \in Ids : obs'[a] \in {obs[a], None},
           \A a \in Ids \ disturbed' : Forgetting(a) => Forgetting(a)' \/ obs'[a] = None
    PROVE  Own' /\ HeldUsed'
  <1>1. ASSUME NEW a \in Ids \ disturbed' PROVE Fresh(a)' /\ Compared(a)' /\ Copied(a)'
    <2>1. Fresh(a) /\ Compared(a) /\ Copied(a)
      BY DEF OwnInv, Own
    <2>2. Fresh(a)'
      BY <2>1 DEF Fresh
    <2> QED
      BY <2>1, <2>2 DEF Compared, Copied
  <1>2. HeldUsed'
    BY DEF OwnInv, HeldUsed, Held
  <1> QED
    BY <1>1, <1>2 DEF Own

LEMMA OwnUpdate ==
    ASSUME OwnInv, NEW c \in Callers, UpdateWrite(c)
    PROVE  Own' /\ Forgets' /\ HeldUsed'
  <1> DEFINE b == call[c].id
  <1>1. TypeOK
    BY DEF OwnInv
  <1>2. row \in [Ids -> Rows \cup {None}] /\ call \in [Callers -> CallStates]
    BY <1>1 DEF TypeOK, TableTypeOK
  <1>3. /\ call' = [call EXCEPT ![c].stage = "forget"]
        /\ exec' = exec /\ obs' = obs /\ used' = used
        /\ \A a \in Ids : a # b => row'[a] = row[a]
        /\ disturbed' = IF b \in Held \/ call[c].arg # b THEN disturbed \cup {b} ELSE disturbed
    BY <1>2 DEF UpdateWrite, Goto
  <1>4. /\ At(c, "forget")' /\ ~At(c, "forget") /\ call'[c].id = b /\ call'[c].arg = call[c].arg
        /\ \A d \in Callers : d # c => call'[d] = call[d]
    BY <1>2, <1>3 DEF At, UpdateWrite, CallStates, CallRecords
  <1>5. ASSUME NEW a \in Ids \ disturbed' PROVE Fresh(a)' /\ Compared(a)' /\ Copied(a)'
    <2>1. a \notin disturbed /\ Fresh(a) /\ Compared(a) /\ Copied(a)
      BY <1>3 DEF OwnInv, Own
    <2>2. CASE a = b
      <3>1. a \notin Held
        BY <1>3, <2>2
      <3>2. Forgetting(a)'
        BY <1>4, <2>2 DEF Forgetting
      <3> QED
        BY <1>3, <3>1, <3>2 DEF Fresh, Compared, Copied, Held
    <2>3. CASE a # b
      <3>1. Forgetting(a)' = Forgetting(a)
        BY <1>4, <2>3 DEF Forgetting, At
      <3> QED
        BY <1>3, <2>1, <2>3, <3>1 DEF Fresh, Compared, Copied, Live
    <2> QED
      BY <2>2, <2>3
  <1>6. Forgets'
    BY <1>3, <1>4 DEF OwnInv, Forgets, At
  <1> QED
    BY <1>3, <1>5, <1>6 DEF Own, OwnInv, HeldUsed, Held

LEMMA OwnInsert ==
    ASSUME OwnInv, NEW c \in Callers, NEW b \in Ids, Insert(c, b)
    PROVE  Own' /\ Forgets' /\ HeldUsed'
  <1> USE ConstantFacts
  <1>1. TypeOK
    BY DEF OwnInv
  <1>2. row \in [Ids -> Rows \cup {None}] /\ call \in [Callers -> CallStates]
    BY <1>1 DEF TypeOK, TableTypeOK
  <1>3. /\ exec' = exec /\ obs' = obs /\ used' = used \cup {b} /\ disturbed' = disturbed
        /\ \A a \in Ids : a # b => row'[a] = row[a]
        /\ b \notin used
    BY <1>2 DEF Insert, ghosts
  <1>4. /\ ~At(c, "forget") /\ ~At(c, "forget")'
        /\ \A d \in Callers : d # c => call'[d] = call[d]
    BY <1>2 DEF Insert, At, Announce, NoCall
  <1>5. b \notin Held /\ obs[b] = None
    BY <1>1, <1>3 DEF OwnInv, HeldUsed, TypeOK, TableTypeOK
  <1>6. \A a \in Ids : Forgetting(a)' = Forgetting(a)
    BY <1>4 DEF Forgetting, At
  <1>7. ASSUME NEW a \in Ids \ disturbed' PROVE Fresh(a)' /\ Compared(a)' /\ Copied(a)'
    <2>1. Fresh(a) /\ Compared(a) /\ Copied(a)
      BY <1>3 DEF OwnInv, Own
    <2>2. CASE a = b
      BY <1>3, <1>5, <2>2 DEF Fresh, Compared, Copied, Held
    <2>3. CASE a # b
      BY <1>3, <1>6, <2>1, <2>3 DEF Fresh, Compared, Copied, Live
    <2> QED
      BY <2>2, <2>3
  <1>8. Forgets'
    BY <1>3, <1>4 DEF OwnInv, Forgets, At
  <1> QED
    BY <1>3, <1>7, <1>8 DEF Own, OwnInv, HeldUsed, Held

LEMMA OwnCall ==
    ASSUME OwnInv, NEW c \in Callers, CallStep(c) \/ Answer(c)
    PROVE  Own' /\ Forgets' /\ HeldUsed'
  <1> USE ConstantFacts
  <1>1. TypeOK /\ exec' = exec
    BY CallLocals DEF OwnInv
  <1>2. /\ row \in [Ids -> Rows \cup {None}] /\ obs \in [Ids -> Observations \cup {None}]
        /\ call \in [Callers -> CallStates]
    BY <1>1 DEF TypeOK, TableTypeOK
  <1>3. CASE UpdateWrite(c) \/ \E a \in Ids : Insert(c, a)
    BY <1>3, OwnUpdate, OwnInsert
  <1>4. CASE ~UpdateWrite(c) /\ ~ \E a \in Ids : Insert(c, a)
    <2>1. disturbed \subseteq disturbed' /\ used' = used
      BY <1>4 DEF CallStep, Lookup, InsertFails, Find, Forget, SetStatus,
             Delete, Alert, Fail, Answer, tables, ghosts
    <2>2. \A a \in Ids : Live(a)' => Live(a) /\ row'[a].workflow = row[a].workflow
      <3>1. CASE SetStatus(c)
        <4> DEFINE s == IF call[c].op = "pause" THEN "paused" ELSE "active"
                   b == call[c].id
                   r == [row[b] EXCEPT !.status = s]
        <4>1. row' = [row EXCEPT ![b] = r] /\ Live(b)
          BY <3>1 DEF SetStatus
        <4>2. b \in Ids => r.workflow = row[b].workflow
          BY <1>2, <4>1 DEF Live, Rows
        <4> HIDE DEF r, b
        <4> QED
          BY <1>2, <4>1, <4>2 DEF Live
      <3>2. CASE Delete(c)
        BY <1>2, <3>2 DEF Delete, Live
      <3>3. CASE row' = row
        BY <3>3 DEF Live
      <3> QED
        BY <1>4, <3>1, <3>2, <3>3
           DEF CallStep, Lookup, InsertFails, Find, Forget, Alert, Fail,
               Answer, tables
    <2>3. \A a \in Ids : obs'[a] \in {obs[a], None}
      BY <1>2, <1>4
         DEF CallStep, Lookup, InsertFails, Find, Forget, SetStatus,
             Delete, Alert, Fail, Answer, tables
    <2>4. /\ ~At(c, "forget")'
          /\ \A d \in Callers : d # c => call'[d] = call[d]
      <3>1. \A s \in {"insert", "again"} : Goto(c, s) => ~At(c, "forget")'
        BY <1>2 DEF Goto, At, CallStates, CallRecords
      <3>2. \A b \in BOOLEAN : End(c, b) => ~At(c, "forget")'
        BY <1>2 DEF End, At, NoCall
      <3>3. \A a \in Ids \cup {None} : Announce(c, a) => ~At(c, "forget")'
        BY <1>2 DEF Announce, At, NoCall
      <3>4. Find(c) => ~At(c, "forget")'
        <4>1. ASSUME NEW a \in Ids, call' = [call EXCEPT ![c].id = a, ![c].stage = "write"]
              PROVE  ~At(c, "forget")'
          BY <1>2, <4>1 DEF At, CallStates, CallRecords
        <4> QED
          BY <3>2, <4>1 DEF Find, Owned
      <3>5. Answer(c) => ~At(c, "forget")'
        BY <1>2 DEF Answer, At, NoCall
      <3>6. call[c].id \in Ids \cup {None}
        BY <1>2 DEF CallStates, CallRecords
      <3>7. ~At(c, "forget")'
        BY <1>4, <3>1, <3>2, <3>3, <3>4, <3>5, <3>6
           DEF CallStep, Lookup, InsertFails, Forget, SetStatus, Delete,
               Alert, Fail, OfKey, Live
      <3> QED
        BY <1>2, <1>4, <3>7
           DEF CallStep, Lookup, InsertFails, Find, Forget, SetStatus,
               Delete, Alert, Fail, Answer, Goto, End, Announce
    <2>5. Forgets'
      BY <2>1, <2>4 DEF OwnInv, Forgets, At
    <2>6. At(c, "forget") => call[c].id \in disturbed' \/ obs'[call[c].id] = None
      <3>1. ASSUME At(c, "forget") PROVE Forget(c) \/ Fail(c)
        BY <1>4, <3>1
           DEF CallStep, Lookup, InsertFails, Find, SetStatus, Delete,
               Alert, Answer, At
      <3>2. At(c, "forget") => call[c].id \in Ids
        BY <1>2 DEF At, CallStates, CallRecords
      <3>3. CASE Forget(c)
        BY <2>1, <3>2, <3>3 DEF Forget, OwnInv, Forgets
      <3>4. CASE Fail(c)
        BY <3>4 DEF Fail
      <3> QED
        BY <3>1, <3>3, <3>4
    <2>7. \A a \in Ids \ disturbed' : Forgetting(a) => Forgetting(a)' \/ obs'[a] = None
      BY <2>4, <2>6 DEF Forgetting, At
    <2> QED
      BY <1>1, <2>1, <2>2, <2>3, <2>5, <2>7, OwnKept
  <1> QED
    BY <1>3, <1>4

\* What the executor does to its copies, apart from taking the next one.
LEMMA OwnCarried ==
    ASSUME OwnInv, UNCHANGED <<row, used, obs, call>>, disturbed' = disturbed,
           exec'.todo \subseteq exec.todo,
           exec'.id \in {exec.id, None},
           exec'.id # None => exec'.workflow = exec.workflow,
           exec'.matched => exec.matched /\ exec'.prev = exec.prev
    PROVE  Own' /\ Forgets' /\ HeldUsed'
  <1> USE ConstantFacts
  <1>1. ASSUME NEW a \in Ids \ disturbed' PROVE Fresh(a)' /\ Compared(a)' /\ Copied(a)'
    <2>1. Fresh(a) /\ Compared(a) /\ Copied(a)
      BY DEF OwnInv, Own
    <2> QED
      BY <2>1 DEF Fresh, Compared, Copied, Forgetting, At, Live
  <1>2. Forgets'
    BY DEF OwnInv, Forgets, At
  <1>3. HeldUsed'
    BY DEF OwnInv, HeldUsed, Held
  <1> QED
    BY <1>1, <1>2, <1>3 DEF Own

LEMMA OwnLoad ==
    ASSUME OwnInv, NEW v \in Levels, Load(v)
    PROVE  Own' /\ Forgets' /\ HeldUsed'
  <1> USE ConstantFacts
  <1> DEFINE b == exec.id
  <1>1. TypeOK /\ exec \in ExecRecords
    BY DEF OwnInv, TypeOK, ExecStates
  <1>2. b \in Ids
    BY <1>1 DEF Load, TypeOK, ExecStates, ExecRecords
  <1>3. /\ exec'.id = b /\ exec'.workflow = exec.workflow /\ exec'.todo = exec.todo
        /\ exec'.prev = obs[b]
        /\ exec'.matched = Matched(exec.workflow.metric, obs[b], v)
    BY <1>1 DEF Load, ExecRecords
  <1>4. UNCHANGED <<row, used, obs, call>>
    BY DEF Load, tables
  <1>5. disturbed' = IF Forgetting(b) THEN disturbed \cup {b} ELSE disturbed
    BY DEF Load, Forgetting
  <1>6. ASSUME NEW a \in Ids \ disturbed' PROVE Fresh(a)' /\ Compared(a)' /\ Copied(a)'
    <2>1. Fresh(a) /\ Copied(a)
      BY <1>5 DEF OwnInv, Own
    <2>2. Compared(a)'
      <3>1. SUFFICES ASSUME a = b, exec'.matched PROVE obs[b].of = exec.workflow
        BY <1>3 DEF Compared
      <3>2. obs[b] # None
        BY <1>3, <3>1 DEF Matched
      <3>3. Live(b) /\ ~Forgetting(b)
        BY <1>1, <1>2, <1>5, <3>1, <3>2 DEF TypeOK, TableTypeOK
      <3> QED
        BY <2>1, <3>1, <3>2, <3>3 DEF Fresh, Copied
    <2> QED
      BY <1>3, <1>4, <2>1, <2>2 DEF Fresh, Copied, Forgetting, At, Live
  <1>7. Forgets'
    BY <1>4, <1>5 DEF OwnInv, Forgets, At
  <1>8. HeldUsed'
    BY <1>3, <1>4 DEF OwnInv, HeldUsed, Held
  <1> QED
    BY <1>6, <1>7, <1>8 DEF Own

LEMMA OwnSave ==
    ASSUME OwnInv, Save
    PROVE  Own' /\ Forgets' /\ HeldUsed'
  <1> USE ConstantFacts
  <1> DEFINE b == exec.id
             o == [value |-> exec.current, at |-> exec.at, of |-> exec.workflow]
  <1>1. TypeOK /\ exec \in ExecRecords /\ obs \in [Ids -> Observations \cup {None}]
    BY DEF OwnInv, TypeOK, ExecStates, TableTypeOK
  <1>2. b \in Ids
    BY <1>1 DEF Save, TypeOK, ExecStates, ExecRecords
  <1>3. /\ exec'.id = b /\ exec'.workflow = exec.workflow /\ exec'.todo = exec.todo
        /\ exec'.prev = exec.prev /\ exec'.matched = exec.matched
    BY <1>1 DEF Save, ExecRecords
  <1>4. UNCHANGED <<row, used, call, disturbed>> /\ obs' = [obs EXCEPT ![b] = o]
    BY DEF Save, ghosts
  <1>5. ASSUME NEW a \in Ids \ disturbed' PROVE Fresh(a)' /\ Compared(a)' /\ Copied(a)'
    <2>1. Fresh(a) /\ Compared(a) /\ Copied(a)
      BY <1>4 DEF OwnInv, Own
    <2>2. Fresh(a)'
      <3>1. CASE a = b
        <4>1. obs'[a].of = exec.workflow
          BY <1>1, <1>4, <3>1
        <4> QED
          BY <1>4, <2>1, <3>1, <4>1 DEF Fresh, Copied, Live
      <3>2. CASE a # b
        BY <1>1, <1>4, <2>1, <3>2 DEF Fresh, Forgetting, At, Live
      <3> QED
        BY <3>1, <3>2
    <2> QED
      BY <1>3, <1>4, <2>1, <2>2 DEF Compared, Copied, Live
  <1>6. Forgets'
    BY <1>4 DEF OwnInv, Forgets, At
  <1>7. HeldUsed'
    BY <1>3, <1>4 DEF OwnInv, HeldUsed, Held
  <1> QED
    BY <1>5, <1>6, <1>7 DEF Own

LEMMA OwnSnapshot ==
    ASSUME OwnInv, StartTick \/ \E s \in exec.todo : Evaluate(s)
    PROVE  Own' /\ Forgets' /\ HeldUsed'
  <1> USE ConstantFacts
  <1>1. TypeOK /\ exec \in ExecRecords
    BY DEF OwnInv, TypeOK, ExecStates
  <1>2. UNCHANGED <<row, used, obs, call, disturbed>>
    BY DEF StartTick, Evaluate, tables, ghosts
  <1>3. exec'.prev = exec.prev
    BY <1>1 DEF StartTick, Evaluate, ExecRecords
  <1>4. Forgets'
    BY <1>2 DEF OwnInv, Forgets, At
  <1>5. CASE StartTick
    <2>1. /\ exec'.todo = {[id |-> a, workflow |-> row[a].workflow] :
                             a \in {x \in Ids : Active(x)}}
          /\ exec'.id = exec.id /\ exec'.workflow = exec.workflow
          /\ exec'.matched = exec.matched
      BY <1>1, <1>5 DEF StartTick, ExecRecords
    <2>2. \A s \in exec'.todo : s.id \in used /\ s.workflow = row[s.id].workflow
      BY <1>1, <2>1 DEF Active, TypeOK, TableTypeOK
    <2>3. ASSUME NEW a \in Ids \ disturbed' PROVE Fresh(a)' /\ Compared(a)' /\ Copied(a)'
      <3>1. Fresh(a) /\ Compared(a) /\ Copied(a)
        BY <1>2 DEF OwnInv, Own
      <3> QED
        BY <1>2, <1>3, <2>1, <2>2, <3>1 DEF Fresh, Compared, Copied, Forgetting, At, Live
    <2>4. HeldUsed'
      BY <1>2, <2>1, <2>2 DEF OwnInv, HeldUsed, Held
    <2> QED
      BY <1>4, <2>3, <2>4 DEF Own
  <1>6. ASSUME NEW s \in exec.todo, Evaluate(s) PROVE Own' /\ Forgets' /\ HeldUsed'
    <2>1. /\ exec'.todo = exec.todo \ {s} /\ exec'.id = s.id
          /\ exec'.workflow = s.workflow /\ exec'.matched = exec.matched
      BY <1>1, <1>6 DEF Evaluate, ExecRecords
    <2>2. ~exec'.matched
      BY <1>6, <2>1 DEF OwnInv, Unmatched, Evaluate
    <2>3. ASSUME NEW a \in Ids \ disturbed' PROVE Fresh(a)' /\ Compared(a)' /\ Copied(a)'
      <3>1. Fresh(a) /\ Copied(a)
        BY <1>2 DEF OwnInv, Own
      <3> QED
        BY <1>2, <2>1, <2>2, <3>1 DEF Fresh, Compared, Copied, Forgetting, At, Live
    <2>4. HeldUsed'
      BY <1>2, <2>1 DEF OwnInv, HeldUsed, Held
    <2> QED
      BY <1>4, <2>3, <2>4 DEF Own
  <1> QED
    BY <1>5, <1>6

LEMMA OwnExecutor ==
    ASSUME OwnInv, ExecutorStep
    PROVE  Own' /\ Forgets' /\ HeldUsed' /\ Unmatched'
  <1> USE ConstantFacts
  <1>1. TypeOK /\ exec \in ExecRecords
    BY DEF OwnInv, TypeOK, ExecStates
  <1>2. /\ Resumed.todo = exec.todo /\ Resumed.id = None /\ ~Resumed.matched
        /\ Dormant.todo = {} /\ Dormant.id = None /\ ~Dormant.matched
    BY DEF Resumed, Dormant
  <1>3. CASE StartTick \/ \E s \in exec.todo : Evaluate(s)
    <2>1. Unmatched'
      <3>1. exec'.matched = exec.matched /\ exec.pc \in {"idle", "tick"}
        BY <1>1, <1>3 DEF StartTick, Evaluate, ExecRecords
      <3> QED
        BY <3>1 DEF OwnInv, Unmatched
    <2> QED
      BY <1>3, <2>1, OwnSnapshot
  <1>4. ASSUME NEW v \in Levels, Load(v) PROVE Own' /\ Forgets' /\ HeldUsed' /\ Unmatched'
    <2>1. exec'.pc \in {"decide", "find"}
      BY <1>1, <1>4 DEF Load, ExecRecords
    <2> QED
      BY <1>4, <2>1, OwnLoad DEF Unmatched
  <1>5. CASE Save
    <2>1. exec'.pc = "decide"
      BY <1>1, <1>5 DEF Save, ExecRecords
    <2> QED
      BY <1>5, <2>1, OwnSave DEF Unmatched
  <1>6. CASE SaveFind \/ Act \/ Record
    <2>1. /\ UNCHANGED <<row, used, obs, call, disturbed>>
          /\ exec'.todo = exec.todo /\ exec'.id = exec.id /\ exec'.workflow = exec.workflow
          /\ exec'.matched = exec.matched /\ exec'.prev = exec.prev
          /\ exec'.pc \in {"save", "act", "record", "stamp"}
      <3>1. CASE SaveFind
        BY <1>1, <3>1 DEF SaveFind, ExecRecords, tables, ghosts
      <3>2. CASE Act
        BY <1>1, <3>2 DEF Act, ExecRecords, tables
      <3>3. CASE Record
        BY <1>1, <3>3 DEF Record, ExecRecords
      <3> QED
        BY <1>6, <3>1, <3>2, <3>3
    <2> QED
      BY <2>1, OwnCarried DEF Unmatched
  <1>7. ASSUME NEW b \in BOOLEAN, Decide(b)
        PROVE  Own' /\ Forgets' /\ HeldUsed' /\ Unmatched'
    <2>1. /\ UNCHANGED <<row, used, obs, call, disturbed>>
          /\ exec'.todo = exec.todo /\ exec'.id = exec.id /\ exec'.workflow = exec.workflow
          /\ ~exec'.matched
      BY <1>1, <1>7 DEF Decide, Resumed, Dormant, tables, ghosts
    <2> QED
      BY <2>1, OwnCarried DEF Unmatched
  <1>8. CASE EndTick \/ Stamp \/ EvaluationFails
    <2>1. /\ UNCHANGED <<row, used, obs, call, disturbed>>
          /\ exec' \in {Resumed, Dormant}
      BY <1>8 DEF EndTick, Stamp, Stamped, EvaluationFails, tables, ghosts
    <2>2. exec'.todo \subseteq exec.todo /\ exec'.id = None /\ ~exec'.matched
      BY <1>2, <2>1
    <2> QED
      BY <2>1, <2>2, OwnCarried DEF Unmatched
  <1> QED
    BY <1>3, <1>4, <1>5, <1>6, <1>7, <1>8 DEF ExecutorStep

LEMMA OwnStep == OwnInv /\ [Next]_vars => OwnInv'
  <1> SUFFICES ASSUME OwnInv, [Next]_vars PROVE OwnInv'
    OBVIOUS
  <1> USE ConstantFacts
  <1>1. TypeOK /\ TypeOK'
    BY TypeStep DEF OwnInv
  <1> DEFINE Rest == Own /\ Forgets /\ HeldUsed /\ Unmatched
  <1>2. ASSUME NEW c \in Callers, CallStep(c) \/ Answer(c) PROVE Rest'
    BY <1>1, <1>2, OwnCall, CallLocals DEF OwnInv, Unmatched
  <1>3. ASSUME UNCHANGED <<row, used, obs, exec, disturbed>>,
               \A c \in Callers : /\ At(c, "forget")' = At(c, "forget")
                                  /\ At(c, "forget") => call'[c] = call[c]
        PROVE  Rest'
    <2>1. \A a \in Ids : Forgetting(a) => Forgetting(a)'
      BY <1>3 DEF Forgetting
    <2>2. Forgets'
      BY <1>3 DEF OwnInv, Forgets
    <2>3. Own' /\ HeldUsed'
      BY <1>3, <2>1, OwnKept DEF Live
    <2> QED
      BY <1>3, <2>2, <2>3 DEF OwnInv, Unmatched
  <1>4. ASSUME NEW c \in Callers, Request(c) PROVE Rest'
    <2>1. UNCHANGED <<row, used, obs, exec, disturbed>>
      BY <1>1, <1>4, RequestLocals DEF tables, ghosts
    <2>2. ~At(c, "forget") /\ ~At(c, "forget")'
          /\ \A d \in Callers : d # c => call'[d] = call[d]
      <3>1. ASSUME NEW r, r.stage # "forget", Begin(c, r)
            PROVE  ~At(c, "forget") /\ ~At(c, "forget")'
                   /\ \A d \in Callers : d # c => call'[d] = call[d]
        BY <1>1, <3>1 DEF Begin, At, TypeOK
      <3>2. \A w \in Workflows, k \in Keys \cup {None} :
              [NoCall EXCEPT !.op = "publish", !.stage = "lookup", !.workflow = w,
                             !.key = k].stage # "forget"
        BY DEF NoCall
      <3>3. \A arg \in Ids \cup Markets, w \in Workflows :
              [NoCall EXCEPT !.op = "update", !.stage = "find", !.arg = arg,
                             !.workflow = w].stage # "forget"
        BY DEF NoCall
      <3>4. \A arg \in Ids \cup Markets, op \in {"pause", "resume", "delete"} :
              [NoCall EXCEPT !.op = op, !.stage = "find", !.arg = arg].stage # "forget"
        BY DEF NoCall
      <3> QED
        BY <1>4, <3>1, <3>2, <3>3, <3>4 DEF Request, Publish, Update, Alter
    <2> QED
      BY <1>3, <2>1, <2>2 DEF At
  <1>5. ASSUME ExecutorStep PROVE Rest'
    BY <1>5, OwnExecutor
  <1>6. ASSUME Restart PROVE Rest'
    <2>1. /\ UNCHANGED <<row, used, obs>> /\ exec' = Dormant
          /\ disturbed' = disturbed \cup {call[c].id : c \in {d \in Callers : At(d, "forget")}}
          /\ call' = [c \in Callers |-> NoCall]
      BY <1>6 DEF Restart, tables
    <2>2. \A a \in Ids \ disturbed' : a \notin disturbed /\ ~Forgetting(a)
      BY <2>1 DEF Forgetting
    <2>3. Dormant.todo = {} /\ Dormant.id = None /\ ~Dormant.matched
      BY DEF Dormant
    <2>4. Own'
      BY <2>1, <2>2, <2>3 DEF OwnInv, Own, Fresh, Compared, Copied, Live
    <2>5. Forgets'
      BY <2>1 DEF Forgets, At, NoCall
    <2> QED
      BY <2>1, <2>3, <2>4, <2>5 DEF HeldUsed, Held, Unmatched
  <1>7. ASSUME Elapse \/ UNCHANGED vars PROVE Rest'
    <2>1. UNCHANGED <<row, used, obs, exec, disturbed, call>>
      BY <1>7 DEF Elapse, vars, tables, ghosts
    <2> QED
      BY <1>3, <2>1 DEF At
  <1> QED
    BY <1>1, <1>2, <1>4, <1>5, <1>6, <1>7 DEF Next, OwnInv

(* The executor's copies of a workflow are those of the row, unless an     *)
(* update came while it had them.                                          *)
THEOREM OwnIsInvariant == Spec => []OwnInv
  BY OwnInit, OwnStep, PTL DEF Spec

(* Outside an update, a trigger's observation belongs to the automation's  *)
(* present workflow, and an evaluation that matched compared two values of *)
(* its own workflow.                                                       *)
THEOREM BaselineCorrect == Spec => []BaselineIsOwn
  <1>1. OwnInv => BaselineIsOwn
    BY DEF OwnInv, Own, Fresh, Compared, BaselineIsOwn
  <1> QED
    BY <1>1, OwnIsInvariant, PTL
-----------------------------------------------------------------------------
(* The abstract automations.  A request holds what it has asked for until  *)
(* its statement, an evaluation the alerts its workflow still owes it.     *)

CallFits(x) ==
    /\ x.stage \in {"lookup", "insert"} => x.op = "publish" /\ x.id = None
    /\ x.stage \in {"find", "write"} =>
         /\ x.op \in {"update", "pause", "resume", "delete"}
         /\ x.op # "update" => x.workflow = None

TurnFits(e) ==
    /\ e.pc = "idle" => e.todo = {}
    /\ e.pc \in {"idle", "tick"} => e.id = None /\ e.workflow = None
    /\ e.pc \in {"idle", "tick", "load", "find", "save", "decide"} => e.sent = 0
    /\ e.pc = "act" => e.sent + Len(e.left) = Len(e.workflow.actions)

Fits == (\A c \in Callers : CallFits(call[c])) /\ TurnFits(exec)

LEMMA FitsInit == Init => Fits
  BY DEF Init, Fits, CallFits, TurnFits, NoCall, Dormant

LEMMA CallFitsStep ==
    ASSUME TypeOK, Fits, NEW c \in Callers, Request(c) \/ CallStep(c) \/ Answer(c)
    PROVE  \A b \in Callers : CallFits(call'[b])
  <1>0. call \in [Callers -> CallStates] /\ call[c] \in CallStates /\ call[c] \in CallRecords
        /\ CallFits(call[c])
    BY DEF TypeOK, Fits, CallStates
  <1>1. ASSUME NEW x, call' = [call EXCEPT ![c] = x], CallFits(x)
        PROVE  \A b \in Callers : CallFits(call'[b])
    BY <1>0, <1>1 DEF Fits
  <1>2. CASE Request(c)
    <2>1. ASSUME NEW w \in Workflows, NEW k \in Keys \cup {None}, Publish(c, w, k)
          PROVE  \A b \in Callers : CallFits(call'[b])
      BY <1>1, <2>1 DEF Publish, Begin, CallFits, NoCall
    <2>2. ASSUME NEW arg \in Ids \cup Markets, NEW w \in Workflows, Update(c, arg, w)
          PROVE  \A b \in Callers : CallFits(call'[b])
      BY <1>1, <2>2 DEF Update, Begin, CallFits, NoCall
    <2>3. ASSUME NEW op \in {"pause", "resume", "delete"}, NEW arg \in Ids \cup Markets,
                 Alter(c, op, arg)
          PROVE  \A b \in Callers : CallFits(call'[b])
      <3> DEFINE x == [NoCall EXCEPT !.op = op, !.stage = "find", !.arg = arg]
      <3>1. call' = [call EXCEPT ![c] = x]
        BY <2>3 DEF Alter, Begin
      <3>2. CallFits(x)
        BY DEF CallFits, NoCall
      <3> HIDE DEF x
      <3> QED
        BY <1>1, <3>1, <3>2
    <2> QED
      BY <1>2, <2>1, <2>2, <2>3 DEF Request
  <1>3. ASSUME NEW ok \in BOOLEAN, End(c, ok) PROVE \A b \in Callers : CallFits(call'[b])
    BY <1>1, <1>3 DEF End, CallFits, NoCall
  <1>4. ASSUME NEW a, Announce(c, a) PROVE \A b \in Callers : CallFits(call'[b])
    BY <1>1, <1>4 DEF Announce, CallFits, NoCall
  <1>5. ASSUME NEW s \in {"again", "forget"}, Goto(c, s)
        PROVE  \A b \in Callers : CallFits(call'[b])
    <2>1. CallFits([call[c] EXCEPT !.stage = s])
      BY <1>0 DEF CallFits, CallRecords
    <2>2. call' = [call EXCEPT ![c] = [call[c] EXCEPT !.stage = s]]
      BY <1>5 DEF Goto
    <2> QED
      BY <1>1, <2>1, <2>2
  <1>6. CASE Lookup(c)
    <2>1. ASSUME At(c, "lookup"), Goto(c, "insert") PROVE \A b \in Callers : CallFits(call'[b])
      <3>1. CallFits([call[c] EXCEPT !.stage = "insert"])
        BY <1>0, <2>1 DEF CallFits, CallRecords, At
      <3>2. call' = [call EXCEPT ![c] = [call[c] EXCEPT !.stage = "insert"]]
        BY <2>1 DEF Goto
      <3> QED
        BY <1>1, <3>1, <3>2
    <2>2. (OfKey(call[c].key) # {}) \in BOOLEAN
      OBVIOUS
    <2> QED
      BY <1>3, <1>6, <2>1, <2>2 DEF Lookup
  <1>7. CASE Find(c)
    <2>1. ASSUME NEW a, call' = [call EXCEPT ![c].id = a, ![c].stage = "write"]
          PROVE  \A b \in Callers : CallFits(call'[b])
      <3>1. call' = [call EXCEPT ![c] = [call[c] EXCEPT !.id = a, !.stage = "write"]]
        BY <2>1
      <3>2. CallFits([call[c] EXCEPT !.id = a, !.stage = "write"])
        BY <1>0, <1>7 DEF CallFits, CallRecords, Find, At
      <3> QED
        BY <1>1, <3>1, <3>2
    <2> QED
      BY <1>3, <1>7, <2>1 DEF Find
  <1>8. CASE Answer(c)
    BY <1>1, <1>8 DEF Answer, CallFits, NoCall
  <1>9. CASE Alert(c)
    BY <1>3, <1>9 DEF Alert, Live
  <1>10. CASE UpdateWrite(c) \/ InsertFails(c)
    BY <1>5, <1>10 DEF UpdateWrite, InsertFails
  <1>11. CASE Forget(c) \/ SetStatus(c) \/ Delete(c) \/ Fail(c) \/ \E a \in Ids : Insert(c, a)
    BY <1>3, <1>4, <1>11 DEF Forget, SetStatus, Delete, Fail, Insert
  <1> QED
    BY <1>2, <1>6, <1>7, <1>8, <1>9, <1>10, <1>11 DEF CallStep

LEMMA TurnFitsStep ==
    ASSUME TypeOK, Fits, ExecutorStep
    PROVE  TurnFits(exec')
  <1>0. exec \in ExecRecords /\ exec \in ExecStates /\ TurnFits(exec)
    BY DEF TypeOK, ExecStates, Fits
  <1>1. CASE StartTick
    <2>1. exec.id = None /\ exec.workflow = None /\ exec.sent = 0
      BY <1>0, <1>1 DEF StartTick, TurnFits
    <2>2. /\ exec'.pc = "tick" /\ exec'.id = exec.id /\ exec'.workflow = exec.workflow
          /\ exec'.sent = exec.sent
      BY <1>0, <1>1 DEF StartTick, ExecRecords
    <2> QED
      BY <2>1, <2>2 DEF TurnFits
  <1>8. CASE EndTick
    BY <1>8 DEF EndTick, TurnFits, Dormant
  <1>2. ASSUME NEW s \in exec.todo, Evaluate(s) PROVE TurnFits(exec')
    BY <1>0, <1>2 DEF Evaluate, TurnFits, ExecRecords
  <1>3. ASSUME NEW v \in Levels, Load(v) PROVE TurnFits(exec')
    <2>1. exec'.pc \in {"decide", "find"} /\ exec'.sent = exec.sent
      BY <1>0, <1>3 DEF Load, ExecRecords
    <2>2. exec.sent = 0
      BY <1>0, <1>3 DEF Load, TurnFits
    <2> QED
      BY <2>1, <2>2 DEF TurnFits
  <1>4. CASE SaveFind \/ Save \/ Record
    BY <1>0, <1>4 DEF SaveFind, Save, Record, TurnFits, ExecRecords
  <1>5. ASSUME NEW b \in BOOLEAN, Decide(b) PROVE TurnFits(exec')
    <2> DEFINE rest == [Resumed EXCEPT !.id = exec.id, !.workflow = exec.workflow]
               actions == exec.workflow.actions
    <2>1. exec.workflow \in Workflows
      BY <1>0, <1>5 DEF Decide, ExecStates, ExecRecords
    <2>2. actions \in Seq({"message", "trade"})
      BY <2>1, WorkflowsAssumption DEF WorkflowShape
    <2>3. \/ exec' = [rest EXCEPT !.pc = "act", !.left = actions, !.status = "completed"]
          \/ exec' = [rest EXCEPT !.pc = "record", !.status = "skipped"]
      BY <1>5 DEF Decide
    <2>4. \/ exec'.pc = "act" /\ exec'.left = actions /\ exec'.workflow.actions = actions
             /\ exec'.sent = 0
          \/ exec'.pc = "record"
      BY <2>3 DEF Resumed, Dormant
    <2>5. Len(actions) \in Nat
      BY <2>2, LenProperties
    <2> HIDE DEF actions
    <2> QED
      BY <2>4, <2>5 DEF TurnFits
  <1>6. CASE Act
    <2> DEFINE left == Tail(exec.left)
               n == Len(exec.left)
    <2>1. exec.left \in Seq({"message", "trade"}) \ {<<>>}
      BY <1>0, <1>6 DEF Act, ExecStates, ExecRecords
    <2>2. left \in Seq({"message", "trade"}) /\ Len(left) = n - 1 /\ n \in Nat
      BY <2>1, HeadTailProperties, LenProperties
    <2>3. exec.sent + n = Len(exec.workflow.actions) /\ exec.sent \in Nat
      BY <1>0, <1>6 DEF Act, TurnFits, ExecRecords
    <2>4. /\ exec'.pc \in {"act", "record"} /\ exec'.left = left
          /\ exec'.sent = exec.sent + 1 /\ exec'.workflow = exec.workflow
      BY <1>0, <1>6 DEF Act, ExecRecords
    <2> HIDE DEF left, n
    <2>5. exec'.sent + Len(exec'.left) = Len(exec'.workflow.actions)
      <3> DEFINE k == exec.sent
                 whole == Len(exec.workflow.actions)
                 rest == Len(left)
      <3>1. Len(exec'.left) = rest /\ Len(exec'.workflow.actions) = whole /\ exec'.sent = k + 1
        BY <2>4
      <3>2. k + n = whole /\ k \in Nat /\ n \in Nat /\ rest = n - 1
        BY <2>2, <2>3
      <3> HIDE DEF k, whole, rest
      <3>3. (k + 1) + rest = whole
        BY <3>2
      <3> QED
        BY <3>1, <3>3
    <2> QED
      BY <2>4, <2>5 DEF TurnFits
  <1>7. CASE Stamp \/ EvaluationFails
    BY <1>7 DEF Stamp, EvaluationFails, Resumed, Dormant, TurnFits
  <1> QED
    BY <1>1, <1>2, <1>3, <1>4, <1>5, <1>6, <1>7, <1>8 DEF ExecutorStep

LEMMA FitsStep == TypeOK /\ Fits /\ [Next]_vars => Fits'
  <1> SUFFICES ASSUME TypeOK, Fits, [Next]_vars PROVE Fits'
    OBVIOUS
  <1>1. ASSUME NEW c \in Callers, Request(c) \/ CallStep(c) \/ Answer(c) PROVE Fits'
    <2>1. exec' = exec
      BY <1>1, RequestLocals, CallLocals
    <2> QED
      BY <1>1, <2>1, CallFitsStep DEF Fits
  <1>2. CASE ExecutorStep
    <2>1. call' = call
      BY <1>2, ExecutorTables
    <2> QED
      BY <1>2, <2>1, TurnFitsStep DEF Fits
  <1>3. CASE Restart
    BY <1>3 DEF Restart, Fits, CallFits, TurnFits, NoCall, Dormant
  <1>4. CASE Elapse \/ UNCHANGED vars
    BY <1>4 DEF Elapse, vars, Fits
  <1> QED
    BY <1>1, <1>2, <1>3, <1>4 DEF Next

-----------------------------------------------------------------------------
(* Each step is one of the abstract automations, or none.                  *)

Lives == [Life!Next]_(Life!vars)

\* What changes neither a row nor the executor.
LEMMA LifeAsks ==
    ASSUME row' = row, used' = used, exec' = exec
    PROVE  Lives
  <1>1. Phase' = Phase /\ Plan' = Plan /\ Turn' = Turn
    BY DEF Phase, Plan, Turn, Live
  <1>2. Life!Ask
    BY <1>1 DEF Life!Ask, Life!executor
  <1> QED
    BY <1>2 DEF Lives, Life!Next

LEMMA AskedShrinks ==
    ASSUME TypeOK, NEW c \in Callers, NEW x, x.stage \notin {"insert", "write"},
           call' = [call EXCEPT ![c] = x]
    PROVE  Asked' \subseteq Asked
  <1>1. ASSUME NEW b \in Callers, call'[b].stage \in {"insert", "write"}
        PROVE  call'[b] = call[b] /\ call[b].stage \in {"insert", "write"}
    BY <1>1 DEF TypeOK
  <1> QED
    BY <1>1 DEF Asked, At

\* A statement of a request: it has asked for it.
LEMMA LifeBecomes ==
    ASSUME TypeOK, NEW c \in Callers, NEW a \in Ids, NEW r \in Rows \cup {None},
           row' = [row EXCEPT ![a] = r], used' = used \cup {a}, exec' = exec,
           call[c].stage \in {"insert", "write"}, Asked' \subseteq Asked
    PROVE  Life!Become(a, call[c].op, call[c].id, call[c].workflow,
                       IF r = None THEN "gone" ELSE r.status,
                       IF r = None THEN None ELSE r.workflow)
  <1>0. row \in [Ids -> Rows \cup {None}]
    BY DEF TypeOK, TableTypeOK
  <1>1. Phase' = [Phase EXCEPT ![a] = IF r = None THEN "gone" ELSE r.status]
    BY <1>0 DEF Phase, Live
  <1>2. Plan' = [Plan EXCEPT ![a] = IF r = None THEN None ELSE r.workflow]
    BY <1>0 DEF Plan, Live
  <1>3. [op |-> call[c].op, id |-> call[c].id, workflow |-> call[c].workflow] \in Asked
    BY DEF Asked, At
  <1>4. Turn' = Turn
    BY DEF Turn
  <1> QED
    BY <1>1, <1>2, <1>3, <1>4 DEF Life!Become, Life!executor

LEMMA LifeCall ==
    ASSUME TypeOK, Fits, NEW c \in Callers, CallStep(c) \/ Answer(c)
    PROVE  Lives
  <1> USE ConstantFacts
  <1>0. /\ call[c] \in CallStates /\ call[c] \in CallRecords /\ CallFits(call[c])
        /\ row \in [Ids -> Rows \cup {None}] /\ exec' = exec
    BY CallLocals DEF TypeOK, TableTypeOK, CallStates, Fits
  <1>1. ASSUME NEW a, Announce(c, a) PROVE Asked' \subseteq Asked
    BY <1>1, AskedShrinks DEF Announce, NoCall
  <1>2. ASSUME NEW a \in Ids, Insert(c, a) PROVE Lives
    <2> DEFINE w == call[c].workflow
               r == [workflow |-> w, status |-> "active", key |-> call[c].key]
    <2>1. r \in Rows /\ r # None /\ w \in Workflows
      BY <1>0, <1>2 DEF Insert, At, CallStates, CallRecords, Rows
    <2>2. call[c].op = "publish" /\ call[c].id = None
      BY <1>0, <1>2 DEF Insert, At, CallFits
    <2>3. Phase[a] = "unborn"
      BY <1>2 DEF Insert, Phase, TypeOK, TableTypeOK
    <2>4. r.status = "active" /\ r.workflow = w
      OBVIOUS
    <2>5. row' = [row EXCEPT ![a] = r] /\ used' = used \cup {a} /\ At(c, "insert")
      BY <1>2 DEF Insert
    <2>6. Asked' \subseteq Asked
      BY <1>1, <1>2 DEF Insert
    <2> HIDE DEF r, w
    <2>7. Life!Become(a, call[c].op, call[c].id, w,
                      IF r = None THEN "gone" ELSE r.status,
                      IF r = None THEN None ELSE r.workflow)
      BY <1>0, <2>1, <2>5, <2>6, LifeBecomes DEF w, At
    <2>8. Life!Publish(a, w)
      BY <2>1, <2>2, <2>3, <2>4, <2>7 DEF Life!Publish
    <2> QED
      BY <2>1, <2>8 DEF Lives, Life!Next
  <1>3. ASSUME NEW a \in Ids, call[c].id = a, At(c, "write"), Live(a),
               NEW r \in Rows \cup {None}, row' = [row EXCEPT ![a] = r], used' = used,
               Asked' \subseteq Asked
        PROVE  /\ Life!Become(a, call[c].op, call[c].id, call[c].workflow,
                              IF r = None THEN "gone" ELSE r.status,
                              IF r = None THEN None ELSE r.workflow)
               /\ Life!Alive(a) /\ Plan[a] = row[a].workflow
               /\ call[c].op # "update" => call[c].workflow = None
    <2>1. used' = used \cup {a}
      BY <1>3 DEF TypeOK, TableTypeOK
    <2>2. row[a] \in Rows /\ row[a].status \in {"active", "paused"}
      BY <1>0, <1>3 DEF Live, Rows
    <2>3. Life!Alive(a) /\ Plan[a] = row[a].workflow
      BY <1>3, <2>2 DEF Life!Alive, Phase, Plan
    <2> QED
      BY <1>0, <1>3, <2>1, <2>3, LifeBecomes DEF At, CallFits
  <1>4. CASE UpdateWrite(c)
    <2> DEFINE a == call[c].id
               w == call[c].workflow
               r == [row[a] EXCEPT !.workflow = w, !.status = "active"]
    <2>1. /\ a \in Ids /\ w \in Workflows /\ row[a] \in Rows
          /\ Live(a) /\ At(c, "write") /\ call[c].op = "update"
      BY <1>0, <1>4 DEF UpdateWrite, At, Live, CallStates, CallRecords
    <2>2. r \in Rows /\ r.status = "active" /\ r.workflow = w /\ r # None
      BY <2>1 DEF Rows
    <2>3. row' = [row EXCEPT ![a] = r] /\ used' = used
      BY <1>4 DEF UpdateWrite
    <2>4. Asked' \subseteq Asked
      <3>1. call' = [call EXCEPT ![c] = [call[c] EXCEPT !.stage = "forget"]]
        BY <1>4 DEF UpdateWrite, Goto
      <3>2. [call[c] EXCEPT !.stage = "forget"].stage = "forget"
        BY <1>0 DEF CallRecords
      <3> QED
        BY <3>1, <3>2, AskedShrinks
    <2> HIDE DEF r, w, a
    <2>5. Life!Alive(a) /\ Life!Become(a, call[c].op, call[c].id, call[c].workflow, "active", w)
      BY <1>3, <2>1, <2>2, <2>3, <2>4 DEF a
    <2>6. Life!Update(a, w)
      BY <2>1, <2>5 DEF Life!Update, a, w
    <2> QED
      BY <2>1, <2>6 DEF Lives, Life!Next
  <1>5. CASE SetStatus(c)
    <2> DEFINE a == call[c].id
               s == IF call[c].op = "pause" THEN "paused" ELSE "active"
               r == [row[a] EXCEPT !.status = s]
    <2>1. /\ a \in Ids /\ row[a] \in Rows /\ s \in {"active", "paused"}
          /\ Live(a) /\ At(c, "write") /\ call[c].op \in {"pause", "resume"}
      BY <1>0, <1>5 DEF SetStatus, At, Live, CallStates, CallRecords
    <2>2. r \in Rows /\ r.status = s /\ r.workflow = row[a].workflow /\ r # None
      BY <2>1 DEF Rows
    <2>3. row' = [row EXCEPT ![a] = r] /\ used' = used
      BY <1>5 DEF SetStatus
    <2>4. Asked' \subseteq Asked
      BY <1>1, <1>5 DEF SetStatus
    <2> HIDE DEF r, a, s
    <2>5. /\ Life!Alive(a) /\ call[c].workflow = None
          /\ Life!Become(a, call[c].op, call[c].id, call[c].workflow, s, Plan[a])
      BY <1>3, <2>1, <2>2, <2>3, <2>4 DEF a
    <2>6. CASE call[c].op = "pause"
      <3>1. Life!Pause(a)
        BY <2>5, <2>6 DEF Life!Pause, a, s
      <3> QED
        BY <2>1, <3>1 DEF Lives, Life!Next
    <2>7. CASE call[c].op = "resume"
      <3>1. Life!Resume(a)
        BY <2>5, <2>7 DEF Life!Resume, a, s
      <3> QED
        BY <2>1, <3>1 DEF Lives, Life!Next
    <2> QED
      BY <2>1, <2>6, <2>7
  <1>6. CASE Delete(c)
    <2> DEFINE a == call[c].id
    <2>1. a \in Ids /\ At(c, "write") /\ call[c].op = "delete"
      BY <1>0, <1>6 DEF Delete, At, CallStates, CallRecords
    <2>2. row' = [row EXCEPT ![a] = None] /\ used' = used
      BY <1>6 DEF Delete
    <2>3. Asked' \subseteq Asked
      BY <1>1, <1>6 DEF Delete
    <2> HIDE DEF a
    <2>4. CASE Live(a)
      <3>1. /\ Life!Alive(a) /\ call[c].workflow = None
            /\ Life!Become(a, call[c].op, call[c].id, call[c].workflow, "gone", None)
        BY <1>3, <2>1, <2>2, <2>3, <2>4 DEF a
      <3>2. Life!Delete(a)
        BY <2>1, <3>1 DEF Life!Delete, a
      <3> QED
        BY <2>1, <3>2 DEF Lives, Life!Next
    <2>5. CASE ~Live(a)
      <3>1. row' = row
        BY <1>0, <2>1, <2>2, <2>5 DEF Live
      <3> QED
        BY <1>0, <2>2, <3>1, LifeAsks
    <2> QED
      BY <2>4, <2>5
  <1>7. CASE Lookup(c) \/ InsertFails(c) \/ Find(c) \/ Forget(c) \/ Alert(c) \/ Fail(c) \/ Answer(c)
    <2>1. row' = row /\ used' = used
      BY <1>7 DEF Lookup, InsertFails, Find, Forget, Alert, Fail, Answer, tables
    <2> QED
      BY <1>0, <2>1, LifeAsks
  <1> QED
    BY <1>2, <1>4, <1>5, <1>6, <1>7 DEF CallStep

LEMMA LifeExecutor ==
    ASSUME TypeOK, Fits, ExecutorStep
    PROVE  Lives
  <1> USE ConstantFacts
  <1>0. /\ exec \in ExecRecords /\ exec \in ExecStates /\ TurnFits(exec)
        /\ row \in [Ids -> Rows \cup {None}]
    BY DEF TypeOK, TableTypeOK, ExecStates, Fits
  <1>1. Phase' = Phase /\ Plan' = Plan /\ Asked' = Asked
    BY ExecutorTables DEF Phase, Plan, Asked, Live, At
  <1>2. UNCHANGED Life!user
    BY <1>1 DEF Life!user
  <1>3. ASSUME exec'.todo = exec.todo, exec'.id = exec.id, exec'.workflow = exec.workflow,
               exec'.sent = exec.sent
        PROVE  Lives
    BY <1>2, <1>3 DEF Lives, Life!vars, Life!executor, Turn
  <1>4. CASE StartTick
    <2>1. exec.todo = {} /\ exec.id = None /\ exec.workflow = None
      BY <1>0, <1>4 DEF StartTick, TurnFits
    <2>2. /\ exec'.todo = {[id |-> a, workflow |-> row[a].workflow] : a \in {b \in Ids : Active(b)}}
          /\ exec'.id = exec.id /\ exec'.workflow = exec.workflow /\ exec'.sent = exec.sent
      BY <1>0, <1>4 DEF StartTick, ExecRecords
    <2>3. \A a \in Ids : /\ Phase[a] = "active" <=> Active(a)
                         /\ Active(a) => Plan[a] = row[a].workflow
      BY <1>0 DEF Phase, Plan, Active, Live, Rows
    <2>4. {[id |-> a, workflow |-> row[a].workflow] : a \in {b \in Ids : Active(b)}}
            = {[id |-> a, workflow |-> Plan[a]] : a \in {b \in Ids : Phase[b] = "active"}}
      BY <2>3
    <2>5. Life!Tick
      BY <1>2, <2>1, <2>2, <2>4 DEF Life!Tick, Life!Nobody, Turn
    <2> QED
      BY <2>5 DEF Lives, Life!Next
  <1>5. CASE EndTick
    BY <1>0, <1>3, <1>5 DEF EndTick, TurnFits, Dormant
  <1>6. ASSUME NEW s \in exec.todo, Evaluate(s) PROVE Lives
    <2>1. s \in [id : Ids, workflow : Workflows] /\ s = [id |-> s.id, workflow |-> s.workflow]
      BY <1>0 DEF ExecRecords
    <2>2. exec.id = None /\ exec.workflow = None
      BY <1>0, <1>6 DEF Evaluate, TurnFits
    <2>3. /\ exec'.id = s.id /\ exec'.workflow = s.workflow /\ exec'.todo = exec.todo \ {s}
          /\ exec'.sent = exec.sent
      BY <1>0, <1>6 DEF Evaluate, ExecRecords
    <2>4. Turn = Life!Nobody /\ Turn' = s
      BY <2>1, <2>2, <2>3 DEF Turn, Life!Nobody
    <2>5. Life!Take(s)
      BY <1>2, <1>6, <2>3, <2>4 DEF Life!Take
    <2> QED
      BY <1>6, <2>5 DEF Lives, Life!Next
  <1>7. ASSUME NEW v \in Levels, Load(v) PROVE Lives
    BY <1>0, <1>3, <1>7 DEF Load, ExecRecords
  <1>8. CASE SaveFind \/ Save \/ Record
    <2>1. /\ exec'.todo = exec.todo /\ exec'.id = exec.id /\ exec'.workflow = exec.workflow
          /\ exec'.sent = exec.sent
      <3>1. CASE SaveFind
        <4>1. exec'.todo = exec.todo
          BY <1>0, <3>1 DEF SaveFind, ExecRecords
        <4>2. exec'.id = exec.id /\ exec'.workflow = exec.workflow
          BY <1>0, <3>1 DEF SaveFind, ExecRecords
        <4>3. exec'.sent = exec.sent
          BY <1>0, <3>1 DEF SaveFind, ExecRecords
        <4> QED
          BY <4>1, <4>2, <4>3
      <3>2. CASE Save \/ Record
        BY <1>0, <3>2 DEF Save, Record, ExecRecords
      <3> QED
        BY <1>8, <3>1, <3>2
    <2> QED
      BY <1>3, <2>1
  <1>9. ASSUME NEW b \in BOOLEAN, Decide(b) PROVE Lives
    <2>1. exec.sent = 0
      BY <1>0, <1>9 DEF Decide, TurnFits
    <2> QED
      BY <1>3, <1>9, <2>1 DEF Decide, Resumed, Dormant
  <1>10. CASE Act
    <2> DEFINE n == Len(exec.left)
               whole == Len(exec.workflow.actions)
    <2>1. n \in Nat /\ n # 0
      <3>1. exec.left \in Seq({"message", "trade"}) \ {<<>>}
        BY <1>0, <1>10 DEF Act, ExecStates, ExecRecords
      <3> QED
        BY <3>1, LenProperties, EmptySeq
    <2>2. exec.sent + n = whole /\ exec.sent \in Nat
      BY <1>0, <1>10 DEF Act, TurnFits, ExecRecords
    <2>3. /\ exec'.id = exec.id /\ exec'.workflow = exec.workflow /\ exec'.todo = exec.todo
          /\ exec'.sent = exec.sent + 1
      BY <1>0, <1>10 DEF Act, ExecRecords
    <2>4. exec.id \in Ids /\ exec.id # None /\ Live(exec.id)
      BY <1>0, <1>10 DEF Act, Notifiable, ExecStates, ExecRecords
    <2>5. Life!Alive(Turn.id) /\ Turn # Life!Nobody /\ Turn' = Turn
      BY <1>0, <2>3, <2>4 DEF Life!Alive, Phase, Live, Rows, Turn, Life!Nobody
    <2>6. exec.sent < Len(Turn.workflow.actions)
      <3>1. Turn.workflow = exec.workflow
        BY DEF Turn
      <3>2. exec.sent < whole
        <4> HIDE DEF n, whole
        <4> QED
          BY <2>1, <2>2
      <3> QED
        BY <3>1, <3>2
    <2>7. Life!Alert
      BY <1>2, <2>3, <2>5, <2>6 DEF Life!Alert
    <2> QED
      BY <2>7 DEF Lives, Life!Next
  <1>11. CASE Stamp \/ EvaluationFails
    <2>1. /\ exec'.todo = exec.todo /\ exec'.id = None /\ exec'.workflow = None
          /\ exec'.sent = 0
      BY <1>11 DEF Stamp, EvaluationFails, Resumed, Dormant
    <2>2. Life!Done
      BY <1>2, <2>1 DEF Life!Done, Life!Nobody, Turn
    <2> QED
      BY <2>2 DEF Lives, Life!Next
  <1> QED
    BY <1>4, <1>5, <1>6, <1>7, <1>8, <1>9, <1>10, <1>11 DEF ExecutorStep

LEMMA LifeStep == TypeOK /\ Fits /\ [Next]_vars => Lives
  <1> SUFFICES ASSUME TypeOK, Fits, [Next]_vars PROVE Lives
    OBVIOUS
  <1>1. ASSUME NEW c \in Callers, Request(c) PROVE Lives
    BY <1>1, RequestLocals, LifeAsks DEF tables
  <1>2. CASE Restart
    <2>1. Phase' = Phase /\ Plan' = Plan
      BY <1>2 DEF Restart, tables, Phase, Plan, Live
    <2>2. Asked' = {}
      BY <1>2 DEF Restart, Asked, At, NoCall
    <2>3. exec' = Dormant
      BY <1>2 DEF Restart
    <2>4. Life!Stop
      BY <2>1, <2>2, <2>3 DEF Life!Stop, Life!Nobody, Turn, Dormant
    <2> QED
      BY <2>4 DEF Lives, Life!Next
  <1>3. CASE Elapse \/ UNCHANGED vars
    BY <1>3, LifeAsks DEF Elapse, vars, tables
  <1> QED
    BY <1>1, <1>2, <1>3, LifeCall, LifeExecutor DEF Next

(* The service and the executor implement the abstract automations:        *)
(* requests alone change one, and the executor's alerts are those of what  *)
(* was active when its tick began and is not gone.                         *)
THEOREM LifeImplemented == Spec => LifeSpec
  <1>1. Init => Life!Init
    BY DEF Init, Life!Init, Life!Nobody, Phase, Plan, Asked, Turn, Live, At, NoCall, Dormant
  <1>2. TypeOK /\ Fits /\ [Next]_vars => [Life!Next]_(Life!vars)
    BY LifeStep DEF Lives
  <1> QED
    BY <1>1, <1>2, TypeInit, TypeStep, FitsInit, FitsStep, PTL DEF Spec, LifeSpec, Life!Spec
=============================================================================
