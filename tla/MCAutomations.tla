---------------------------- MODULE MCAutomations ----------------------------
(* Automations on small instances.                                         *)
EXTENDS Automations

CONSTANTS m1, a1, a2

MCWorkflows ==
    {[market |-> m1, metric |-> "price", actions |-> <<"message", "trade">>],
     [market |-> m1, metric |-> "schedule", actions |-> <<"message">>],
     [market |-> m1, metric |-> "volume", actions |-> <<"trade">>]}

\* A restart takes the place of a call, and no call is about nothing.
MCCalls ==
    /\ calls + restarts <= Calls
    /\ \A c \in Callers :
         /\ call[c].arg \in Ids => call[c].arg \in used
         /\ At(c, "lookup") => used = {} \/ calls = 2
         /\ call[c].arg = m1 => call[c].op = "update"

\* A second automation is there for the loop over both: it differs in nothing from
\* the first, is published right behind it, before the executor's first tick, and
\* then all is of one workflow and one level, and the clock stands.
Quiet == [market |-> m1, metric |-> "volume", actions |-> <<"trade">>]

MCSecond == a2 \notin used /\ a2 \in used' => a1 \in used /\ calls = 2 /\ exec.pc = "idle"

MCFocus ==
    a2 \in used =>
        /\ now = 0
        /\ \A a \in Ids :
             /\ Live(a) => row[a].workflow = Quiet
             /\ obs[a] # None => obs[a].value = 1
        /\ \A c \in Callers : call[c].workflow \in {Quiet, None}
        /\ exec.current \in {1, None}

MCNext == Next /\ MCSecond /\ MCCalls' /\ MCFocus'

MCLiveSpec == Init /\ [][MCNext]_vars /\ WF_vars(ExecutorStep)
=============================================================================
