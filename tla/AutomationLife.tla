--------------------------- MODULE AutomationLife ---------------------------
(***************************************************************************)
(* What the automations of a user promise, without tables, statements or   *)
(* locals.  An automation changes only as a request has asked; it is sent  *)
(* for by a tick while it is active; and what a tick has sent for sends at *)
(* most an alert for each action of the workflow it was sent for with, and *)
(* none once the automation is gone.  Automations implements it.           *)
(***************************************************************************)
EXTENDS Integers, Sequences

CONSTANTS Ids, Workflows, None

VARIABLES
    phase,      \* unborn, active, paused or gone
    plan,       \* the workflow of each automation that is alive
    asked,      \* the requests that have found what they are about
    tick,       \* the automations, as they were, that a tick has sent for
    turn,       \* the one of them that is evaluated, or Nobody
    sent        \* how many alerts it has sent

user == <<phase, plan, asked>>
executor == <<tick, turn, sent>>
vars == <<user, executor>>

Nobody == [id |-> None, workflow |-> None]

Alive(a) == phase[a] \in {"active", "paused"}

Init ==
    /\ phase = [a \in Ids |-> "unborn"]
    /\ plan = [a \in Ids |-> None]
    /\ asked = {}
    /\ tick = {} /\ turn = Nobody /\ sent = 0

\* Requests come, and may end without effect.
Ask == UNCHANGED <<phase, plan, executor>>

\* A request does what it has asked for, to the automation a.
Become(a, op, id, w, to, new) ==
    /\ [op |-> op, id |-> id, workflow |-> w] \in asked
    /\ asked' \subseteq asked
    /\ phase' = [phase EXCEPT ![a] = to]
    /\ plan' = [plan EXCEPT ![a] = new]
    /\ UNCHANGED executor

Publish(a, w) == phase[a] = "unborn" /\ Become(a, "publish", None, w, "active", w)
Update(a, w) == Alive(a) /\ Become(a, "update", a, w, "active", w)
Pause(a) == Alive(a) /\ Become(a, "pause", a, None, "paused", plan[a])
Resume(a) == Alive(a) /\ Become(a, "resume", a, None, "active", plan[a])
Delete(a) == Alive(a) /\ Become(a, "delete", a, None, "gone", None)

Tick ==
    /\ tick = {} /\ turn = Nobody
    /\ tick' = {[id |-> a, workflow |-> plan[a]] : a \in {b \in Ids : phase[b] = "active"}}
    /\ UNCHANGED <<user, turn, sent>>

Take(s) ==
    /\ turn = Nobody /\ s \in tick
    /\ turn' = s /\ tick' = tick \ {s}
    /\ UNCHANGED <<user, sent>>

Alert ==
    /\ turn # Nobody /\ Alive(turn.id) /\ sent < Len(turn.workflow.actions)
    /\ sent' = sent + 1
    /\ UNCHANGED <<user, tick, turn>>

\* An evaluation ends, with all its alerts sent or not.
Done ==
    /\ turn' = Nobody /\ sent' = 0
    /\ UNCHANGED <<user, tick>>

\* The process ends: requests and the tick are forgotten, automations are not.
Stop ==
    /\ asked' = {} /\ tick' = {} /\ turn' = Nobody /\ sent' = 0
    /\ UNCHANGED <<phase, plan>>

Next ==
    \/ Ask
    \/ \E a \in Ids :
        (\E w \in Workflows : Publish(a, w) \/ Update(a, w)) \/ Pause(a) \/ Resume(a) \/ Delete(a)
    \/ Tick \/ (\E s \in tick : Take(s)) \/ Alert \/ Done \/ Stop

Spec == Init /\ [][Next]_vars
=============================================================================
