-------------------------- MODULE McpApprovalsProofs --------------------------
(***************************************************************************)
(* What becomes of requests for approval, for any number of requests,      *)
(* tools, decisions and calls of the API beside them.                      *)
(***************************************************************************)
EXTENDS McpApprovals, AutomationsProofs

(* What a decision in flight knows.                                        *)

\* The decision and its stage fit; one has acted only on the way to an approval,
\* and is written as approved only if it has.
Shaped(c) ==
    /\ Doing(c, "idle") => dec[c] = NoDecision
    /\ ~Doing(c, "idle") => dec[c].req \in Requests /\ status[dec[c].req] # "none"
    /\ Doing(c, "ask") => dec[c].as = "none"
    /\ Doing(c, "execute") => dec[c].as = "approved"
    /\ Doing(c, "write") => dec[c].as # "none"
    /\ Doing(c, "notify") \/ Doing(c, "tell") => dec[c].as \in {"approved", "rejected"}
    /\ Doing(c, "write") /\ dec[c].as = "approved" => dec[c].acted
    /\ dec[c].acted => dec[c].as = "approved" /\ (Doing(c, "execute") \/ Doing(c, "write"))

\* The tool of a decision: it has no key, so nothing but its effect makes it succeed.
Tooled(c) ==
    Doing(c, "execute") =>
        /\ call[c].key = None
        /\ call[c].stage # "idle"
        /\ call[c].stage \in {"lookup", "insert", "again", "find", "write"} => ~dec[c].acted
        /\ call[c].stage \in {"forget", "alert"} => dec[c].acted
        /\ At(c, "done") /\ call[c].ok => dec[c].acted

\* What has acted has had its effect, and so has what is approved.
Effective ==
    /\ \A c \in Callers : dec[c].acted => executed[dec[c].req] >= 1
    /\ \A r \in Requests : status[r] = "approved" => executed[r] >= 1

\* A request outside troubled has one decision at a time, the effect of the one that
\* has acted while it is pending, and that of its approval afterwards.
Alone(r) ==
    /\ \A c, d \in Deciding(r) : c = d
    /\ \A c \in Deciding(r) : Doing(c, "execute") \/ Doing(c, "write") => status[r] = "pending"
    /\ \A c \in Deciding(r) : Doing(c, "notify") \/ Doing(c, "tell") => status[r] = dec[c].as
    /\ executed[r] = IF \/ status[r] = "approved"
                        \/ status[r] = "pending" /\ \E c \in Deciding(r) : dec[c].acted
                       THEN 1 ELSE 0

\* The alerts of a request outside troubled.
Noticed(r) ==
    /\ notice[r] \notin {"none", "pending"} => notice[r] = status[r]
    /\ told[r] \subseteq {status[r]} \cap {"approved", "rejected"}

Decided ==
    /\ \A c \in Callers : Shaped(c) /\ Tooled(c)
    /\ Effective
    /\ \A r \in Requests \ troubled : Alone(r) /\ Noticed(r)

-----------------------------------------------------------------------------
(* Types.                                                                  *)

LEMMA NoDecisionType ==
    /\ NoDecision \in Decisions /\ NoDecision.req = None /\ NoDecision.stage = "idle"
    /\ NoDecision.as = "none" /\ NoDecision.acted = FALSE
  BY DEF NoDecision, Decisions

\* The service's tables and calls.
LEMMA LocalsTyped ==
    ASSUME TypeOK, call' \in [Callers -> CallStates], calls' \in 0..Calls,
           disturbed' \subseteq Ids,
           UNCHANGED <<tables, exec, now, restarts, alertAt, unrecorded>>
    PROVE  TypeOK'
  BY DEF TypeOK, TableTypeOK, Live, tables

LEMMA ToolTyped ==
    ASSUME ATypeOK, NEW c \in Callers, NEW r \in Requests, Approve(c, r)
    PROVE  /\ TypeOK'
           /\ \E k \in CallStates :
                 /\ call' = [call EXCEPT ![c] = k]
                 /\ k.key = None /\ k.stage \in {"lookup", "find"}
  <1>1. tool[r] \in Tools
    BY NoRequestAssumption DEF ATypeOK, Approve, Open, Pending
  <1>2. PICK t \in Tools : t = tool[r]
    BY <1>1
  <1> DEFINE k(stage) == [NoCall EXCEPT !.op = t.op, !.arg = t.arg, !.workflow = t.workflow,
                                        !.stage = stage]
  <1>3. ToolShape(t)
    BY ToolsAssumption
  <1>4. PICK stage \in {"lookup", "find"} :
            /\ stage = IF t.op = "publish" THEN "lookup" ELSE "find"
            /\ call' = [call EXCEPT ![c] = k(stage)] /\ calls' = calls + 1 /\ calls < Calls
            /\ UNCHANGED <<tables, exec, now, restarts, ghosts>>
    BY <1>2 DEF Approve, Begin
  <1>5. k(stage) \in CallStates /\ k(stage).key = None /\ k(stage).stage = stage
    BY <1>3, <1>4, ConstantFacts DEF ToolShape, NoCall, CallRecords, CallStates
  <1> HIDE DEF k
  <1>6. call' \in [Callers -> CallStates] /\ calls' \in 0..Calls
    BY <1>4, <1>5, ConstantFacts DEF ATypeOK, TypeOK
  <1>7. TypeOK'
    BY <1>4, <1>6, LocalsTyped DEF ATypeOK, TypeOK, ghosts
  <1> QED
    BY <1>4, <1>5, <1>7

\* What the service has and does under a step of the approvals.
LEMMA ServiceTyped ==
    ASSUME ATypeOK, [ANext]_allVars
    PROVE  TypeOK'
  <1> TypeOK
    BY DEF ATypeOK
  <1>1. CASE UNCHANGED vars
    BY <1>1, TypeStep
  <1>2. ASSUME NEW c \in Callers, Step(c) PROVE TypeOK'
    BY <1>2, TypeStep DEF Step, Next
  <1>3. ASSUME NEW c \in Callers, Serve(c) PROVE TypeOK'
    BY <1>3, TypeStep DEF Serve, Next
  <1>4. ASSUME NEW c \in Callers, Executed(c) PROVE TypeOK'
    BY <1>4, LocalsTyped, NoCallType DEF Executed, TypeOK, ghosts
  <1>5. ASSUME NEW c \in Callers, Abandon(c) PROVE TypeOK'
    <2>1. disturbed' \subseteq Ids
      BY <1>5 DEF Abandon, TypeOK, At, CallStates, CallRecords
    <2> QED
      BY <1>5, <2>1, LocalsTyped, NoCallType DEF Abandon, TypeOK
  <1>6. ASSUME NEW c \in Callers,
               \/ \E r \in Requests, t \in Tools : Propose(c, r, t)
               \/ \E r \in Requests : FindExpired(c, r) \/ Reject(c, r)
               \/ Ask(c) \/ Write(c) \/ Notify(c) \/ Tell(c)
        PROVE  UNCHANGED vars
    BY <1>6 DEF Propose, FindExpired, Reject, Ask, Write, Notify, Tell
  <1>7. (\E r \in Requests : Expire(r)) \/ Clear \/ UNCHANGED allVars => UNCHANGED vars
    BY DEF Expire, Clear, allVars
  <1> QED
    BY <1>1, <1>2, <1>3, <1>4, <1>5, <1>6, <1>7, ToolTyped DEF ANext

\* A decision that begins, goes on or ends.
LEMMA DecisionTyped ==
    ASSUME ATypeOK, NEW c \in Callers, NEW k \in Decisions, dec' = [dec EXCEPT ![c] = k]
    PROVE  /\ dec' \in [Callers -> Decisions] /\ dec'[c] = k
           /\ \A d \in Callers \ {c} : dec'[d] = dec[d]
  BY DEF ATypeOK

LEMMA DecisionMoved ==
    ASSUME ATypeOK, NEW c \in Callers
    PROVE  /\ dec[c] \in Decisions
           /\ \A s \in {"write", "notify", "tell"}, b \in BOOLEAN :
                 /\ [dec[c] EXCEPT !.stage = s] \in Decisions
                 /\ [dec[c] EXCEPT !.acted = b] \in Decisions
                 /\ [dec[c] EXCEPT !.stage = s, !.acted = b] \in Decisions
  <1>1. dec[c] \in Decisions
    BY DEF ATypeOK
  <1>2. \A b \in BOOLEAN : [dec[c] EXCEPT !.acted = b] \in Decisions
    BY <1>1 DEF Decisions
  <1>3. ASSUME NEW s \in {"write", "notify", "tell"}
        PROVE  [dec[c] EXCEPT !.stage = s] \in Decisions
    BY <1>1 DEF Decisions
  <1>4. ASSUME NEW s \in {"write", "notify", "tell"}, NEW b \in BOOLEAN
        PROVE  [dec[c] EXCEPT !.stage = s, !.acted = b] \in Decisions
    BY <1>1 DEF Decisions
  <1> QED
    BY <1>1, <1>2, <1>3, <1>4

LEMMA ApprovalsTyped ==
    ASSUME ATypeOK, \A c \in Callers : Shaped(c), [ANext]_allVars
    PROVE  ATypeOK'
  <1> USE NoDecisionType, NoRequestAssumption
  <1>0. TypeOK'
    BY ServiceTyped
  <1>1. CASE UNCHANGED approvals
    BY <1>0, <1>1 DEF ATypeOK, approvals
  <1>2. ASSUME NEW c \in Callers, NEW r \in Requests, NEW t \in Tools, Propose(c, r, t)
        PROVE  ATypeOK'
    <2>1. [NoDecision EXCEPT !.req = r, !.stage = "ask"] \in Decisions
      BY DEF Decisions
    <2>2. dec' \in [Callers -> Decisions]
      BY <1>2, <2>1, DecisionTyped DEF Propose
    <2> QED
      BY <1>0, <1>2, <2>2 DEF Propose, ATypeOK, Statuses
  <1>3. ASSUME NEW c \in Callers, Ask(c) PROVE ATypeOK'
    <2>1. dec' \in [Callers -> Decisions]
      BY <1>3, DecisionTyped DEF Ask
    <2> QED
      BY <1>0, <1>3, <2>1 DEF Ask, ATypeOK, Statuses
  <1>4. ASSUME NEW r \in Requests, Expire(r) PROVE ATypeOK'
    BY <1>0, <1>4 DEF Expire, ATypeOK
  <1>5. ASSUME NEW c \in Callers, NEW r \in Requests,
               FindExpired(c, r) \/ Reject(c, r) \/ Approve(c, r)
        PROVE  ATypeOK'
    <2>1. PICK as \in {"expired", "rejected", "approved"} : Open(c, r, as)
      BY <1>5 DEF FindExpired, Reject, Approve
    <2>2. [NoDecision EXCEPT !.req = r, !.as = as,
              !.stage = IF as = "approved" THEN "execute" ELSE "write"] \in Decisions
      BY DEF Decisions
    <2>3. dec' \in [Callers -> Decisions]
      BY <2>1, <2>2, DecisionTyped DEF Open
    <2>4. troubled' \subseteq Requests
      BY <2>1 DEF Open, ATypeOK
    <2>5. UNCHANGED <<status, tool, overdue, notice, told, executed>>
      BY <1>5 DEF FindExpired, Reject, Approve
    <2> QED
      BY <1>0, <2>3, <2>4, <2>5 DEF ATypeOK
  <1>6. ASSUME NEW c \in Callers, dec[c].acted \/ ~Doing(c, "idle") PROVE dec[c].req \in Requests
    BY <1>6 DEF Shaped, Doing
  <1>7. ASSUME NEW c \in Callers, Step(c) PROVE ATypeOK'
    <2>1. CASE UNCHANGED <<executed, dec>>
      BY <1>0, <1>7, <2>1 DEF Step, ATypeOK
    <2>2. CASE ~UNCHANGED <<executed, dec>>
      <3>1. /\ dec' = [dec EXCEPT ![c].acted = TRUE]
            /\ executed' = [executed EXCEPT ![dec[c].req] = @ + 1]
            /\ UNCHANGED <<status, tool, overdue, notice, told, troubled>>
        BY <1>7, <2>2 DEF Step
      <3>2. dec' \in [Callers -> Decisions]
        BY <3>1, DecisionMoved DEF ATypeOK
      <3>3. dec[c].req \in Requests
        BY <1>6, <1>7, <2>2 DEF Step, Doing
      <3>4. executed' \in [Requests -> Nat]
        BY <3>1, <3>3 DEF ATypeOK
      <3> QED
        BY <1>0, <3>1, <3>2, <3>4 DEF ATypeOK
    <2> QED
      BY <2>1, <2>2
  <1>8. ASSUME NEW c \in Callers, Executed(c) PROVE ATypeOK'
    <2>1. dec' \in [Callers -> Decisions] /\ troubled' \subseteq Requests
      BY <1>6, <1>8, DecisionMoved DEF Executed, Cut, ATypeOK
    <2> QED
      BY <1>0, <1>8, <2>1 DEF Executed, ATypeOK
  <1>9. ASSUME NEW c \in Callers, Write(c) PROVE ATypeOK'
    <2>1. dec[c].req \in Requests /\ dec[c].as \in Statuses
          /\ (dec[c].as = "none") = FALSE /\ status[dec[c].req] # "none"
      BY <1>9 DEF Write, Shaped, Doing, Statuses, ATypeOK, Decisions
    <2>2. status' \in [Requests -> Statuses \cup {"none"}]
          /\ \A r \in Requests : (status'[r] = "none") = (status[r] = "none")
      BY <1>9, <2>1 DEF Write, ATypeOK, Statuses
    <2>3. dec' \in [Callers -> Decisions]
      BY <1>9, DecisionMoved DEF Write, ATypeOK
    <2> QED
      BY <1>0, <1>9, <2>2, <2>3 DEF Write, ATypeOK
  <1>10. ASSUME NEW c \in Callers, Notify(c) PROVE ATypeOK'
    <2>1. dec' \in [Callers -> Decisions]
      BY <1>10, DecisionMoved DEF Notify, ATypeOK
    <2>2. dec[c].as \in Statuses \cup {"none"}
      BY <1>10 DEF Notify, Shaped, Doing, Statuses
    <2>3. notice' = notice \/ notice' = [notice EXCEPT ![dec[c].req] = dec[c].as]
      BY <1>10 DEF Notify, Shown
    <2>4. notice \in [Requests -> Statuses \cup {"none"}]
      BY DEF ATypeOK
    <2>5. notice' \in [Requests -> Statuses \cup {"none"}]
      BY <2>2, <2>3, <2>4
    <2> QED
      BY <1>0, <1>10, <2>1, <2>5 DEF Notify, ATypeOK
  <1>11. ASSUME NEW c \in Callers, Tell(c) PROVE ATypeOK'
    <2>1. dec[c].as \in Statuses
      BY <1>11 DEF Tell, Shaped, Doing, Statuses
    <2>2. dec' \in [Callers -> Decisions] /\ told' \in [Requests -> SUBSET Statuses]
      BY <1>11, <2>1, DecisionTyped DEF Tell, ATypeOK
    <2> QED
      BY <1>0, <1>11, <2>2 DEF Tell, ATypeOK
  <1>12. ASSUME NEW c \in Callers, Abandon(c) PROVE ATypeOK'
    <2>1. dec' \in [Callers -> Decisions] /\ troubled' \subseteq Requests
      BY <1>6, <1>12, DecisionTyped DEF Abandon, ATypeOK
    <2> QED
      BY <1>0, <1>12, <2>1 DEF Abandon, ATypeOK
  <1>13. CASE Clear
    BY <1>0, <1>13 DEF Clear, ATypeOK, Statuses
  <1>14. ASSUME NEW c \in Callers, Serve(c) PROVE UNCHANGED approvals
    BY <1>14 DEF Serve
  <1> QED
    BY <1>1, <1>2, <1>3, <1>4, <1>5, <1>7, <1>8, <1>9, <1>10, <1>11, <1>12, <1>13, <1>14
       DEF ANext, allVars

-----------------------------------------------------------------------------
(* Decisions.                                                              *)

\* A tool without a key moves towards its effect, has it, or fails.
LEMMA ToolStep ==
    ASSUME TypeOK, NEW c \in Callers, CallStep(c), call[c].key = None
    PROVE  /\ \A d \in Callers \ {c} : call'[d] = call[d]
           /\ call'[c].key = None
           /\ \/ call[c].stage \in {"lookup", "find"} /\ call'[c].stage \in {"insert", "write"}
              \/ call[c].stage = "insert" /\ call'[c].stage = "again"
              \/ call[c].stage \in {"insert", "write"} /\ call'[c].stage \in {"forget", "alert"}
              \/ call[c].stage = "forget" /\ call'[c].stage = "alert"
              \/ call[c].stage = "alert" /\ call'[c].stage = "done"
              \/ call'[c].stage = "done" /\ ~call'[c].ok
  <1> DEFINE Goal == /\ \A d \in Callers \ {c} : call'[d] = call[d]
                     /\ call'[c].key = None
                     /\ \/ call[c].stage \in {"lookup", "find"} /\ call'[c].stage \in {"insert", "write"}
                        \/ call[c].stage = "insert" /\ call'[c].stage = "again"
                        \/ call[c].stage \in {"insert", "write"} /\ call'[c].stage \in {"forget", "alert"}
                        \/ call[c].stage = "forget" /\ call'[c].stage = "alert"
                        \/ call[c].stage = "alert" /\ call'[c].stage = "done"
                        \/ call'[c].stage = "done" /\ ~call'[c].ok
  <1>0. call \in [Callers -> CallStates] /\ call[c] \in CallRecords
    BY DEF TypeOK, CallStates
  <1>1. ASSUME NEW ok, End(c, ok)
        PROVE  /\ \A d \in Callers \ {c} : call'[d] = call[d]
               /\ call'[c].key = None /\ call'[c].stage = "done" /\ call'[c].ok = ok
    <2> DEFINE k == [NoCall EXCEPT !.stage = "done", !.ok = ok]
    <2>1. k.key = None /\ k.stage = "done" /\ k.ok = ok
      BY DEF NoCall
    <2>2. call' = [call EXCEPT ![c] = k]
      BY <1>1 DEF End
    <2> HIDE DEF k
    <2> QED
      BY <1>0, <2>1, <2>2
  <1>2. ASSUME NEW a, Announce(c, a)
        PROVE  /\ \A d \in Callers \ {c} : call'[d] = call[d]
               /\ call'[c].key = None /\ call'[c].stage = "alert"
    <2> DEFINE k == [NoCall EXCEPT !.op = call[c].op, !.id = a, !.stage = "alert"]
    <2>1. k.key = None /\ k.stage = "alert"
      BY DEF NoCall
    <2>2. call' = [call EXCEPT ![c] = k]
      BY <1>2 DEF Announce
    <2> HIDE DEF k
    <2> QED
      BY <1>0, <2>1, <2>2
  <1>3. ASSUME NEW s, Goto(c, s)
        PROVE  /\ \A d \in Callers \ {c} : call'[d] = call[d]
               /\ call'[c].key = None /\ call'[c].stage = s
    BY <1>0, <1>3 DEF Goto, CallRecords
  <1>4. OfKey(None) = {}
    BY DEF OfKey
  <1>5. CASE Lookup(c)
    BY <1>1, <1>3, <1>4, <1>5 DEF Lookup, At
  <1>6. CASE InsertFails(c)
    BY <1>3, <1>6 DEF InsertFails, At
  <1>7. CASE Find(c)
    <2>1. CASE End(c, FALSE)
      BY <1>1, <2>1
    <2>2. CASE ~End(c, FALSE)
      <3>1. PICK a \in Owned(call[c].arg) :
                call' = [call EXCEPT ![c].id = a, ![c].stage = "write"]
        BY <1>7, <2>2 DEF Find
      <3>2. /\ \A d \in Callers \ {c} : call'[d] = call[d]
            /\ call'[c].key = None /\ call'[c].stage = "write"
        BY <1>0, <3>1 DEF CallRecords
      <3> QED
        BY <1>7, <3>2 DEF Find, At
    <2> QED
      BY <2>1, <2>2
  <1>8. CASE Fail(c)
    BY <1>1, <1>8 DEF Fail
  <1>9. CASE \E a \in Ids : Insert(c, a)
    BY <1>2, <1>9 DEF Insert, At
  <1>10. CASE UpdateWrite(c)
    BY <1>3, <1>10 DEF UpdateWrite, At
  <1>11. CASE Forget(c) \/ SetStatus(c) \/ Delete(c)
    BY <1>2, <1>11 DEF Forget, SetStatus, Delete, At
  <1>12. CASE Alert(c)
    BY <1>1, <1>12 DEF Alert, At
  <1> QED
    BY <1>5, <1>6, <1>7, <1>8, <1>9, <1>10, <1>11, <1>12 DEF CallStep

\* A step of one decision: the others, and the requests it is not about, are as before.
LEMMA OneDecision ==
    ASSUME ATypeOK, ATypeOK', Decided, NEW c \in Callers, NEW r \in Requests,
           \A d \in Callers \ {c} : dec'[d] = dec[d] /\ call'[d] = call[d],
           dec[c].req \in {None, r}, dec'[c].req \in {None, r},
           Shaped(c)', Tooled(c)', dec'[c].acted => executed'[r] >= 1,
           \A x \in Requests \ {r} : /\ status'[x] = status[x] /\ executed'[x] = executed[x]
                                     /\ notice'[x] = notice[x] /\ told'[x] = told[x],
           status[r] # "none" => status'[r] # "none",
           executed'[r] >= executed[r],
           status'[r] = "approved" => executed'[r] >= 1,
           troubled \subseteq troubled',
           r \notin troubled' => Alone(r)' /\ Noticed(r)'
    PROVE  Decided'
  <1>1. ASSUME NEW d \in Callers PROVE (Shaped(d) /\ Tooled(d))'
    <2>1. CASE d = c
      BY <2>1
    <2>2. CASE d # c
      BY <2>2 DEF Decided, Shaped, Tooled, Doing, At
    <2> QED
      BY <2>1, <2>2
  <1>2. Effective'
    <2>1. ASSUME NEW d \in Callers, dec'[d].acted PROVE executed'[dec'[d].req] >= 1
      <3>1. CASE d = c
        BY <2>1, <3>1, NoRequestAssumption DEF Shaped, Doing
      <3>2. CASE d # c
        <4>1. dec'[d] = dec[d] /\ executed[dec[d].req] >= 1 /\ dec[d].req \in Requests
          BY <2>1, <3>2 DEF Decided, Effective, Shaped, Doing
        <4>2. executed[r] \in Nat /\ executed'[r] \in Nat /\ executed'[r] >= executed[r]
          BY DEF ATypeOK
        <4>3. CASE dec[d].req = r
          BY <4>1, <4>2, <4>3
        <4>4. CASE dec[d].req # r
          BY <4>1, <4>4
        <4> QED
          BY <4>3, <4>4
      <3> QED
        BY <3>1, <3>2
    <2>2. ASSUME NEW x \in Requests, status'[x] = "approved" PROVE executed'[x] >= 1
      BY <2>2 DEF Decided, Effective
    <2> QED
      BY <2>1, <2>2 DEF Effective
  <1>3. ASSUME NEW x \in Requests \ troubled', x # r PROVE Alone(x)' /\ Noticed(x)'
    <2>1. Alone(x) /\ Noticed(x)
      BY <1>3 DEF Decided
    <2>2. c \notin Deciding(x) /\ c \notin Deciding(x)'
      BY <1>3, NoRequestAssumption DEF Deciding
    <2>3. \A d \in Callers : d \in Deciding(x)' <=> d \in Deciding(x)
      BY <2>2 DEF Deciding
    <2>4. \A d \in Deciding(x)' : d \in Deciding(x) /\ dec'[d] = dec[d]
      BY <2>2, <2>3 DEF Deciding
    <2>5. \A d \in Deciding(x) : d \in Deciding(x)' /\ dec'[d] = dec[d]
      BY <2>2, <2>3 DEF Deciding
    <2> QED
      BY <1>3, <2>1, <2>4, <2>5 DEF Alone, Noticed, Doing
  <1> QED
    BY <1>1, <1>2, <1>3 DEF Decided

\* The calls of the others, under a call's step or one that the API makes.
LEMMA OthersKept ==
    ASSUME TypeOK, NEW c \in Callers, CallStep(c) \/ Request(c) \/ Answer(c)
    PROVE  \A d \in Callers \ {c} : call'[d] = call[d]
  <1> DEFINE Kept == \A d \in Callers \ {c} : call'[d] = call[d]
  <1>0. call \in [Callers -> CallStates]
    BY DEF TypeOK
  <1>1. \A k : call' = [call EXCEPT ![c] = k] => Kept
    BY <1>0
  <1>2. \A ok : End(c, ok) => Kept
    BY <1>1 DEF End
  <1>3. \A a : Announce(c, a) => Kept
    BY <1>1 DEF Announce
  <1>4. \A s : Goto(c, s) => Kept
    BY <1>0 DEF Goto
  <1>5. Request(c) => Kept
    BY <1>1 DEF Request, Publish, Update, Alter, Begin
  <1>6. Answer(c) => Kept
    BY <1>1 DEF Answer
  <1>7. CASE Find(c)
    <2>1. End(c, FALSE) \/ \E a : call' = [call EXCEPT ![c].id = a, ![c].stage = "write"]
      BY <1>7 DEF Find
    <2> QED
      BY <1>0, <1>2, <2>1
  <1>8. CASE Lookup(c) \/ InsertFails(c)
    BY <1>2, <1>4, <1>8 DEF Lookup, InsertFails
  <1>9. CASE Alert(c) \/ Fail(c)
    BY <1>2, <1>9 DEF Alert, Fail
  <1>10. CASE (\E a \in Ids : Insert(c, a)) \/ UpdateWrite(c)
    BY <1>3, <1>4, <1>10 DEF Insert, UpdateWrite
  <1>11. CASE Forget(c) \/ SetStatus(c) \/ Delete(c)
    BY <1>3, <1>11 DEF Forget, SetStatus, Delete
  <1> QED
    BY <1>5, <1>6, <1>7, <1>8, <1>9, <1>10, <1>11 DEF CallStep

\* What happens beside the decisions: their calls and their requests stand, and alerts may go.
LEMMA Beside ==
    ASSUME ATypeOK, Decided, UNCHANGED <<status, dec, executed, troubled>>,
           \A c \in Callers : Tooled(c)',
           \A r \in Requests : /\ notice'[r] \in {notice[r], "none"}
                               /\ told'[r] \subseteq told[r]
    PROVE  Decided'
  <1>1. \A c \in Callers : Shaped(c)'
    BY DEF Decided, Shaped, Doing
  <1>2. Effective'
    BY DEF Decided, Effective
  <1>3. ASSUME NEW r \in Requests \ troubled PROVE Alone(r)' /\ Noticed(r)'
    <2>1. Alone(r) /\ Noticed(r)
      BY <1>3 DEF Decided
    <2>2. Alone(r)'
      BY <2>1 DEF Alone, Deciding, Doing
    <2> QED
      BY <2>1, <2>2 DEF Noticed
  <1> QED
    BY <1>1, <1>2, <1>3 DEF Decided

LEMMA ServeDecided ==
    ASSUME ATypeOK, Decided, NEW c \in Callers, Serve(c)
    PROVE  Decided'
  <1>1. \A d \in Callers \ {c} : call'[d] = call[d]
    BY OthersKept DEF Serve, ATypeOK
  <1>2. UNCHANGED approvals
    BY DEF Serve
  <1>3. \A d \in Callers : Tooled(d)'
    BY <1>1, <1>2, NoDecisionType DEF Serve, Decided, Tooled, Doing, At, approvals
  <1> QED
    BY <1>2, <1>3, Beside DEF approvals

LEMMA QuietDecided ==
    ASSUME ATypeOK, Decided, Clear \/ (\E r \in Requests : Expire(r)) \/ UNCHANGED allVars
    PROVE  Decided'
  <1>1. UNCHANGED <<status, dec, executed, troubled, call>>
    BY DEF Clear, Expire, allVars, approvals, vars
  <1>2. \A c \in Callers : Tooled(c)'
    BY <1>1 DEF Decided, Tooled, Doing, At
  <1>3. \A r \in Requests : notice'[r] \in {notice[r], "none"} /\ told'[r] \subseteq told[r]
    BY DEF Clear, Expire, allVars, approvals
  <1> QED
    BY <1>1, <1>2, <1>3, Beside

LEMMA ProposeDecided ==
    ASSUME ATypeOK, ATypeOK', Decided, NEW c \in Callers, NEW r \in Requests, NEW t \in Tools,
           Propose(c, r, t)
    PROVE  Decided'
  <1>1. PICK k \in Decisions : /\ dec' = [dec EXCEPT ![c] = k]
                               /\ k.req = r /\ k.stage = "ask" /\ k.as = "none" /\ ~k.acted
    <2> DEFINE k == [NoDecision EXCEPT !.req = r, !.stage = "ask"]
    <2>1. k \in Decisions /\ k.req = r /\ k.stage = "ask" /\ k.as = "none" /\ ~k.acted
      BY NoDecisionType DEF Decisions
    <2>2. dec' = [dec EXCEPT ![c] = k]
      BY DEF Propose
    <2> HIDE DEF k
    <2> QED
      BY <2>1, <2>2
  <1>2. dec'[c] = k /\ \A d \in Callers \ {c} : dec'[d] = dec[d]
    BY <1>1, DecisionTyped
  <1>3. /\ dec[c].req = None /\ status[r] = "none" /\ status'[r] = "pending"
        /\ UNCHANGED <<call, notice, told, executed, troubled>>
        /\ \A x \in Requests \ {r} : status'[x] = status[x]
    BY NoDecisionType DEF Propose, Free, ATypeOK, vars
  <1>4. Deciding(r)' = {}
    BY <1>1, <1>2, <1>3, NoDecisionType, NoRequestAssumption DEF Deciding, Decided, Shaped, Doing
  <1>5. Shaped(c)' /\ Tooled(c)'
    BY <1>1, <1>2, <1>3 DEF Shaped, Tooled, Doing
  <1>6. ASSUME r \notin troubled PROVE Alone(r)' /\ Noticed(r)'
    <2>1. Alone(r) /\ Noticed(r)
      BY <1>6 DEF Decided
    <2>2. Alone(r)'
      BY <1>3, <1>4, <2>1 DEF Alone
    <2> QED
      BY <1>3, <2>1, <2>2 DEF Noticed
  <1>7. executed[r] \in Nat
    BY DEF ATypeOK
  <1> QED
    BY <1>1, <1>2, <1>3, <1>5, <1>6, <1>7, OneDecision

\* A decision is of one request.
LEMMA OfOne ==
    ASSUME ATypeOK, Decided, NEW c \in Callers, dec[c].stage # "idle"
    PROVE  /\ dec[c].req \in Requests /\ status[dec[c].req] # "none" /\ Shaped(c) /\ Tooled(c)
           /\ dec[c] \in Decisions
           /\ dec[c].req \notin troubled => Alone(dec[c].req) /\ Noticed(dec[c].req)
  BY DEF ATypeOK, Decided, Shaped, Doing

LEMMA AskDecided ==
    ASSUME ATypeOK, ATypeOK', Decided, NEW c \in Callers, Ask(c)
    PROVE  Decided'
  <1>1. PICK r \in Requests : r = dec[c].req /\ status[r] # "none"
    BY OfOne DEF Ask, Doing
  <1>2. dec'[c] = NoDecision /\ \A d \in Callers \ {c} : dec'[d] = dec[d]
    BY NoDecisionType, DecisionTyped DEF Ask
  <1>3. /\ notice' = [notice EXCEPT ![r] = "pending"] /\ dec[c].stage = "ask"
        /\ UNCHANGED <<call, status, told, executed, troubled>>
    BY <1>1 DEF Ask, Doing, vars
  <1>4. notice'[r] = "pending" /\ \A x \in Requests \ {r} : notice'[x] = notice[x]
    BY <1>3 DEF ATypeOK
  <1>5. Shaped(c)' /\ Tooled(c)'
    BY <1>2, NoDecisionType DEF Shaped, Tooled, Doing
  <1>6. /\ Deciding(r)' = Deciding(r)
        /\ \A d \in Deciding(r) : dec'[d] = dec[d]
    BY <1>1, <1>2, <1>3, NoDecisionType, NoRequestAssumption DEF Deciding
  <1>7. ASSUME r \notin troubled PROVE Alone(r)' /\ Noticed(r)'
    <2>1. Alone(r) /\ Noticed(r)
      BY <1>7 DEF Decided
    <2>2. Alone(r)'
      BY <1>3, <1>6, <2>1 DEF Alone, Doing
    <2> QED
      BY <1>3, <1>4, <2>1, <2>2 DEF Noticed
  <1>8. executed[r] \in Nat
    BY DEF ATypeOK
  <1>9. /\ dec[c].req = r /\ dec'[c].req = None /\ ~dec'[c].acted
        /\ status'[r] = "approved" => executed'[r] >= 1
    BY <1>1, <1>2, <1>3, NoDecisionType DEF Decided, Effective
  <1> QED
    BY <1>1, <1>2, <1>3, <1>4, <1>5, <1>7, <1>8, <1>9, OneDecision

LEMMA OpenDecided ==
    ASSUME ATypeOK, ATypeOK', Decided, NEW c \in Callers, NEW r \in Requests,
           NEW as \in {"expired", "rejected", "approved"}, Open(c, r, as),
           UNCHANGED <<status, notice, told, executed>>,
           \A d \in Callers \ {c} : call'[d] = call[d],
           as = "approved" => call'[c].key = None /\ call'[c].stage \in {"lookup", "find"}
    PROVE  Decided'
  <1>1. PICK k \in Decisions : /\ dec' = [dec EXCEPT ![c] = k]
                               /\ k.req = r /\ k.as = as /\ ~k.acted
                               /\ k.stage = IF as = "approved" THEN "execute" ELSE "write"
    <2> DEFINE k == [NoDecision EXCEPT !.req = r, !.as = as,
                        !.stage = IF as = "approved" THEN "execute" ELSE "write"]
    <2>1. /\ k \in Decisions /\ k.req = r /\ k.as = as /\ ~k.acted
          /\ k.stage = IF as = "approved" THEN "execute" ELSE "write"
      BY NoDecisionType DEF Decisions
    <2>2. dec' = [dec EXCEPT ![c] = k]
      BY DEF Open
    <2> HIDE DEF k
    <2> QED
      BY <2>1, <2>2
  <1>2. dec'[c] = k /\ \A d \in Callers \ {c} : dec'[d] = dec[d]
    BY <1>1, DecisionTyped
  <1>3. dec[c].req = None /\ status[r] = "pending" /\ troubled \subseteq troubled'
    BY NoDecisionType DEF Open, Free, Pending
  <1>4. Shaped(c)' /\ Tooled(c)'
    BY <1>1, <1>2, <1>3 DEF Shaped, Tooled, Doing, At
  <1>5. ASSUME r \notin troubled' PROVE Alone(r)' /\ Noticed(r)'
    <2>1. Alone(r) /\ Noticed(r) /\ Deciding(r) = {}
      BY <1>3, <1>5 DEF Decided, Open
    <2>2. Deciding(r)' = {c}
      <3>1. c \in Deciding(r)'
        BY <1>1, <1>2 DEF Deciding
      <3>2. \A d \in Callers \ {c} : d \notin Deciding(r)'
        BY <1>2, <2>1 DEF Deciding
      <3>3. Deciding(r)' \subseteq Callers
        BY DEF Deciding
      <3> QED
        BY <3>1, <3>2, <3>3
    <2>3. executed'[r] = 0
      BY <1>3, <2>1 DEF Alone
    <2>4. Alone(r)'
      BY <1>1, <1>2, <1>3, <2>2, <2>3 DEF Alone, Doing
    <2> QED
      BY <2>1, <2>4 DEF Noticed
  <1>6. executed[r] \in Nat
    BY DEF ATypeOK
  <1> QED
    BY <1>1, <1>2, <1>3, <1>4, <1>5, <1>6, OneDecision

LEMMA DecideDecided ==
    ASSUME ATypeOK, ATypeOK', Decided, NEW c \in Callers, NEW r \in Requests,
           FindExpired(c, r) \/ Reject(c, r) \/ Approve(c, r)
    PROVE  Decided'
  <1>1. CASE FindExpired(c, r) \/ Reject(c, r)
    BY <1>1, OpenDecided DEF FindExpired, Reject, vars
  <1>2. CASE Approve(c, r)
    <2>1. PICK k \in CallStates : call' = [call EXCEPT ![c] = k] /\ k.key = None
                                  /\ k.stage \in {"lookup", "find"}
      BY <1>2, ToolTyped
    <2>2. call'[c] = k /\ \A d \in Callers \ {c} : call'[d] = call[d]
      BY <2>1 DEF ATypeOK, TypeOK
    <2>3. Open(c, r, "approved") /\ UNCHANGED <<status, notice, told, executed>>
      BY <1>2 DEF Approve
    <2> QED
      BY <2>1, <2>2, <2>3, OpenDecided
  <1> QED
    BY <1>1, <1>2

LEMMA StepDecided ==
    ASSUME ATypeOK, ATypeOK', Decided, NEW c \in Callers, Step(c)
    PROVE  Decided'
  <1>0. TypeOK
    BY DEF ATypeOK
  <1>1. \A d \in Callers \ {c} : call'[d] = call[d]
    BY <1>0, OthersKept DEF Step
  <1>2. UNCHANGED <<status, notice, told, troubled>>
    BY DEF Step
  <1>3. CASE ~Doing(c, "execute")
    <2>1. UNCHANGED <<executed, dec>>
      BY <1>3 DEF Step
    <2>2. \A d \in Callers : Tooled(d)'
      BY <1>1, <1>3, <2>1 DEF Decided, Tooled, Doing, At
    <2> QED
      BY <1>2, <2>1, <2>2, Beside
  <1>4. CASE Doing(c, "execute")
    <2>1. /\ call[c].key = None /\ call[c].stage # "idle" /\ CallStep(c)
          /\ Tooled(c) /\ Shaped(c)
      BY <1>4 DEF Decided, Tooled, Step
    <2>2. /\ call'[c].key = None
          /\ \/ call[c].stage \in {"lookup", "find"} /\ call'[c].stage \in {"insert", "write"}
             \/ call[c].stage = "insert" /\ call'[c].stage = "again"
             \/ call[c].stage \in {"insert", "write"} /\ call'[c].stage \in {"forget", "alert"}
             \/ call[c].stage = "forget" /\ call'[c].stage = "alert"
             \/ call[c].stage = "alert" /\ call'[c].stage = "done"
             \/ call'[c].stage = "done" /\ ~call'[c].ok
      BY <1>0, <2>1, ToolStep
    <2>3. CASE ~TakesEffect(c)
      <3>1. UNCHANGED <<executed, dec>>
        BY <2>3 DEF Step
      <3>2. Tooled(c)'
        BY <1>4, <2>1, <2>2, <2>3, <3>1 DEF Tooled, TakesEffect, Doing, At
      <3>3. \A d \in Callers : Tooled(d)'
        BY <1>1, <3>1, <3>2 DEF Decided, Tooled, Doing, At
      <3> QED
        BY <1>2, <3>1, <3>3, Beside
    <2>4. CASE TakesEffect(c)
      <3>1. PICK r \in Requests : r = dec[c].req /\ status[r] # "none"
        BY <1>4, OfOne DEF Doing
      <3>2. /\ dec' = [dec EXCEPT ![c].acted = TRUE]
            /\ executed' = [executed EXCEPT ![r] = @ + 1]
        BY <1>4, <2>4, <3>1 DEF Step
      <3>3. /\ dec'[c].req = r /\ dec'[c].stage = "execute" /\ dec'[c].as = "approved"
            /\ dec'[c].acted
            /\ \A d \in Callers \ {c} : dec'[d] = dec[d]
        BY <1>4, <2>1, <3>1, <3>2 DEF ATypeOK, Decisions, Doing, Shaped
      <3>4. /\ executed[r] \in Nat /\ executed'[r] = executed[r] + 1
            /\ \A x \in Requests \ {r} : executed'[x] = executed[x]
        BY <3>2 DEF ATypeOK
      <3>5. Shaped(c)' /\ Tooled(c)'
        BY <1>2, <2>2, <2>4, <3>1, <3>3 DEF Shaped, Tooled, Doing, At, TakesEffect
      <3>6. ASSUME r \notin troubled PROVE Alone(r)' /\ Noticed(r)'
        <4>1. Alone(r) /\ Noticed(r) /\ ~dec[c].acted /\ c \in Deciding(r)
          BY <1>4, <2>1, <2>4, <3>1, <3>6 DEF Decided, Deciding, Doing, Tooled, TakesEffect
        <4>2. Deciding(r) = {c} /\ status[r] = "pending" /\ executed[r] = 0
          BY <1>4, <4>1 DEF Alone
        <4>3. Deciding(r)' = {c}
          BY <3>3, <4>2 DEF Deciding
        <4>4. Alone(r)'
          BY <1>2, <3>3, <3>4, <4>2, <4>3 DEF Alone, Doing
        <4> QED
          BY <1>2, <4>1, <4>4 DEF Noticed
      <3> QED
        BY <1>1, <1>2, <3>1, <3>3, <3>4, <3>5, <3>6, OneDecision
    <2> QED
      BY <2>3, <2>4
  <1> QED
    BY <1>3, <1>4

LEMMA ExecutedDecided ==
    ASSUME ATypeOK, ATypeOK', Decided, NEW c \in Callers, Executed(c)
    PROVE  Decided'
  <1>1. PICK r \in Requests : r = dec[c].req /\ status[r] # "none"
    BY OfOne DEF Executed, Doing
  <1>2. /\ dec[c].stage = "execute" /\ dec[c].as = "approved" /\ dec[c] \in Decisions
        /\ call[c].stage = "done" /\ call[c].ok => dec[c].acted
        /\ call' = [call EXCEPT ![c] = NoCall] /\ call[c].stage = "done"
        /\ UNCHANGED <<status, notice, told, executed>>
    BY OfOne DEF Executed, Doing, Shaped, Tooled, At
  <1>3. \A d \in Callers \ {c} : call'[d] = call[d]
    BY <1>2 DEF ATypeOK, TypeOK
  <1>4. executed[r] \in Nat /\ (dec[c].acted => executed[r] >= 1)
        /\ (status[r] = "approved" => executed[r] >= 1)
    BY <1>1 DEF ATypeOK, Decided, Effective
  <1>5. CASE call[c].ok
    <2>1. dec' = [dec EXCEPT ![c].stage = "write"] /\ UNCHANGED troubled
      BY <1>5 DEF Executed
    <2>2. /\ dec'[c].req = r /\ dec'[c].stage = "write" /\ dec'[c].as = "approved"
          /\ dec'[c].acted /\ dec[c].acted
          /\ \A d \in Callers \ {c} : dec'[d] = dec[d]
      BY <1>1, <1>2, <1>5, <2>1 DEF ATypeOK, Decisions
    <2>3. Shaped(c)' /\ Tooled(c)'
      BY <1>1, <1>2, <2>2 DEF Shaped, Tooled, Doing
    <2>4. \A d \in Callers : /\ dec'[d].req = dec[d].req /\ dec'[d].as = dec[d].as
                             /\ d = c \/ dec'[d].stage = dec[d].stage
      BY <1>1, <1>2, <2>2
    <2>5. Deciding(r)' = Deciding(r)
      BY <1>2, <2>2, <2>4 DEF Deciding
    <2>6. ASSUME r \notin troubled PROVE Alone(r)' /\ Noticed(r)'
      <3>1. Alone(r) /\ Noticed(r)
        BY <2>6 DEF Decided
      <3>2. c \in Deciding(r) /\ status[r] = "pending"
        BY <1>1, <1>2, <3>1 DEF Alone, Deciding, Doing
      <3>3. Deciding(r) = {c} /\ executed[r] = 1
        BY <2>2, <3>1, <3>2 DEF Alone
      <3>4. Alone(r)'
        BY <1>2, <2>2, <2>5, <3>2, <3>3 DEF Alone, Doing
      <3> QED
        BY <1>2, <3>1, <3>4 DEF Noticed
    <2> QED
      BY <1>1, <1>2, <1>3, <1>4, <2>1, <2>2, <2>3, <2>6, OneDecision
  <1>6. CASE ~call[c].ok
    <2>1. dec' = [dec EXCEPT ![c] = NoDecision] /\ troubled' = Cut(c)
      BY <1>6 DEF Executed
    <2>2. dec'[c] = NoDecision /\ \A d \in Callers \ {c} : dec'[d] = dec[d]
      BY <2>1, NoDecisionType, DecisionTyped
    <2>3. Shaped(c)' /\ Tooled(c)'
      BY <2>2, NoDecisionType DEF Shaped, Tooled, Doing
    <2>4. troubled \subseteq troubled' /\ (dec[c].acted => r \in troubled')
      BY <1>1, <1>2, <2>1 DEF Cut, Doing
    <2>5. ASSUME r \notin troubled' PROVE Alone(r)' /\ Noticed(r)'
      <3>1. Alone(r) /\ Noticed(r) /\ ~dec[c].acted
        BY <2>4, <2>5 DEF Decided
      <3>2. Deciding(r) = {c} /\ status[r] = "pending" /\ executed[r] = 0
        BY <1>1, <1>2, <3>1 DEF Alone, Deciding, Doing
      <3>3. Deciding(r)' = {}
        BY <2>2, <3>2, NoDecisionType, NoRequestAssumption DEF Deciding
      <3>4. Alone(r)'
        BY <1>2, <3>2, <3>3 DEF Alone
      <3> QED
        BY <1>2, <3>1, <3>4 DEF Noticed
    <2> QED
      BY <1>1, <1>2, <1>3, <1>4, <2>2, <2>3, <2>4, <2>5, NoDecisionType, OneDecision
  <1> QED
    BY <1>5, <1>6

LEMMA WriteDecided ==
    ASSUME ATypeOK, ATypeOK', Decided, NEW c \in Callers, Write(c)
    PROVE  Decided'
  <1>1. PICK r \in Requests : r = dec[c].req /\ status[r] # "none"
    BY OfOne DEF Write, Doing
  <1>2. /\ dec[c].stage = "write" /\ dec[c] \in Decisions
        /\ dec[c].as \in {"approved", "rejected", "expired"}
        /\ dec[c].acted <=> dec[c].as = "approved"
    BY <1>1, OfOne DEF Write, Doing, Shaped, Decisions
  <1>3. /\ status' = [status EXCEPT ![r] = dec[c].as]
        /\ UNCHANGED <<call, notice, told, executed, troubled>>
    BY <1>1 DEF Write, vars
  <1>4. status'[r] = dec[c].as /\ \A x \in Requests \ {r} : status'[x] = status[x]
    BY <1>3 DEF ATypeOK
  <1>5. /\ \/ dec'[c] = NoDecision /\ dec[c].as = "expired"
           \/ /\ dec'[c].req = r /\ dec'[c].as = dec[c].as /\ dec'[c].stage = "notify"
              /\ dec[c].as # "expired"
        /\ ~dec'[c].acted
        /\ \A d \in Callers \ {c} : dec'[d] = dec[d]
    <2>1. CASE dec[c].as = "expired"
      <3>1. dec' = [dec EXCEPT ![c] = NoDecision]
        BY <2>1 DEF Write
      <3> QED
        BY <2>1, <3>1, NoDecisionType, DecisionTyped
    <2>2. CASE dec[c].as # "expired"
      <3>1. dec' = [dec EXCEPT ![c] = [@ EXCEPT !.stage = "notify", !.acted = FALSE]]
        BY <2>2 DEF Write
      <3> QED
        BY <1>1, <1>2, <2>2, <3>1 DEF ATypeOK, Decisions
    <2> QED
      BY <2>1, <2>2
  <1>6. Shaped(c)' /\ Tooled(c)'
    BY <1>1, <1>2, <1>4, <1>5, NoDecisionType DEF Shaped, Tooled, Doing
  <1>7. executed[r] \in Nat /\ (dec[c].acted => executed[r] >= 1)
    BY <1>1 DEF ATypeOK, Decided, Effective
  <1>8. ASSUME r \notin troubled PROVE Alone(r)' /\ Noticed(r)'
    <2>1. Alone(r) /\ Noticed(r)
      BY <1>8 DEF Decided
    <2>2. Deciding(r) = {c} /\ status[r] = "pending"
      BY <1>1, <1>2, <2>1 DEF Alone, Deciding, Doing
    <2>3. executed[r] = IF dec[c].as = "approved" THEN 1 ELSE 0
      BY <1>2, <2>1, <2>2 DEF Alone
    <2>4. Deciding(r)' \subseteq {c}
      BY <1>5, <2>2 DEF Deciding
    <2>5. /\ \A d \in Deciding(r)' : Doing(d, "notify")' /\ dec'[d].as = status'[r]
      BY <1>2, <1>4, <1>5, <2>4, NoDecisionType, NoRequestAssumption DEF Deciding, Doing
    <2>6. Alone(r)'
      BY <1>2, <1>3, <1>4, <2>3, <2>4, <2>5 DEF Alone, Doing
    <2>7. Noticed(r)'
      BY <1>3, <2>1, <2>2 DEF Noticed
    <2> QED
      BY <2>6, <2>7
  <1>9. dec'[c].req \in {None, r} /\ (status'[r] = "approved" => executed'[r] >= 1)
        /\ status'[r] # "none"
    BY <1>2, <1>3, <1>4, <1>5, <1>7, NoDecisionType
  <1> QED
    BY <1>1, <1>3, <1>4, <1>5, <1>6, <1>7, <1>8, <1>9, OneDecision

LEMMA NotifyDecided ==
    ASSUME ATypeOK, ATypeOK', Decided, NEW c \in Callers, Notify(c)
    PROVE  Decided'
  <1>1. PICK r \in Requests : r = dec[c].req /\ status[r] # "none"
    BY OfOne DEF Notify, Doing
  <1>2. /\ dec[c].stage = "notify" /\ dec[c] \in Decisions /\ ~dec[c].acted
        /\ dec[c].as \in {"approved", "rejected"}
    BY OfOne DEF Notify, Doing, Shaped
  <1>3. /\ dec' = [dec EXCEPT ![c].stage = "tell"]
        /\ notice' = IF notice[r] = "none" THEN notice
                     ELSE [notice EXCEPT ![r] = dec[c].as]
        /\ UNCHANGED <<call, status, told, executed, troubled>>
    BY <1>1 DEF Notify, Shown, vars
  <1>4. /\ dec'[c].req = r /\ dec'[c].stage = "tell" /\ dec'[c].as = dec[c].as
        /\ ~dec'[c].acted
        /\ \A d \in Callers \ {c} : dec'[d] = dec[d]
    BY <1>1, <1>2, <1>3 DEF ATypeOK, Decisions
  <1>5. /\ notice'[r] \in {notice[r], dec[c].as} /\ (notice[r] = "none" => notice'[r] = "none")
        /\ \A x \in Requests \ {r} : notice'[x] = notice[x]
    BY <1>3 DEF ATypeOK
  <1>6. Shaped(c)' /\ Tooled(c)'
    BY <1>1, <1>2, <1>3, <1>4 DEF Shaped, Tooled, Doing
  <1>7. executed[r] \in Nat /\ (status[r] = "approved" => executed[r] >= 1)
    BY <1>1 DEF ATypeOK, Decided, Effective
  <1>8. ASSUME r \notin troubled PROVE Alone(r)' /\ Noticed(r)'
    <2>1. Alone(r) /\ Noticed(r)
      BY <1>8 DEF Decided
    <2>2. Deciding(r) = {c} /\ status[r] = dec[c].as
      BY <1>1, <1>2, <2>1 DEF Alone, Deciding, Doing
    <2>3. executed[r] = IF status[r] = "approved" THEN 1 ELSE 0
      BY <1>2, <2>1, <2>2 DEF Alone
    <2>4. \A d \in Callers : d \in Deciding(r)' => d = c
      BY <1>4, <2>2 DEF Deciding
    <2>5. Alone(r)'
      <3>1. \A d \in Deciding(r)' : d = c
        BY <2>4 DEF Deciding
      <3> QED
        BY <1>2, <1>3, <1>4, <2>2, <2>3, <3>1 DEF Alone, Doing
    <2>6. Noticed(r)'
      BY <1>3, <1>5, <2>1, <2>2 DEF Noticed
    <2> QED
      BY <2>5, <2>6
  <1> QED
    BY <1>1, <1>3, <1>4, <1>5, <1>6, <1>7, <1>8, OneDecision

LEMMA TellDecided ==
    ASSUME ATypeOK, ATypeOK', Decided, NEW c \in Callers, Tell(c)
    PROVE  Decided'
  <1>1. PICK r \in Requests : r = dec[c].req /\ status[r] # "none"
    BY OfOne DEF Tell, Doing
  <1>2. /\ dec[c].stage = "tell" /\ dec[c] \in Decisions /\ ~dec[c].acted
        /\ dec[c].as \in {"approved", "rejected"}
    BY OfOne DEF Tell, Doing, Shaped
  <1>3. /\ told' = [told EXCEPT ![r] = @ \cup {dec[c].as}]
        /\ UNCHANGED <<call, status, notice, executed, troubled>>
    BY <1>1 DEF Tell, vars
  <1>4. dec'[c] = NoDecision /\ \A d \in Callers \ {c} : dec'[d] = dec[d]
    BY NoDecisionType, DecisionTyped DEF Tell
  <1>5. told'[r] = told[r] \cup {dec[c].as} /\ \A x \in Requests \ {r} : told'[x] = told[x]
    BY <1>3 DEF ATypeOK
  <1>6. Shaped(c)' /\ Tooled(c)'
    BY <1>4, NoDecisionType DEF Shaped, Tooled, Doing
  <1>7. executed[r] \in Nat /\ (status[r] = "approved" => executed[r] >= 1)
    BY <1>1 DEF ATypeOK, Decided, Effective
  <1>8. ASSUME r \notin troubled PROVE Alone(r)' /\ Noticed(r)'
    <2>1. Alone(r) /\ Noticed(r)
      BY <1>8 DEF Decided
    <2>2. Deciding(r) = {c} /\ status[r] = dec[c].as
      BY <1>1, <1>2, <2>1 DEF Alone, Deciding, Doing
    <2>3. executed[r] = IF status[r] = "approved" THEN 1 ELSE 0
      BY <1>2, <2>1, <2>2 DEF Alone
    <2>4. Deciding(r)' = {}
      BY <1>4, <2>2, NoDecisionType, NoRequestAssumption DEF Deciding
    <2>5. Alone(r)'
      BY <1>3, <2>3, <2>4 DEF Alone
    <2>6. Noticed(r)'
      BY <1>2, <1>3, <1>5, <2>1, <2>2 DEF Noticed
    <2> QED
      BY <2>5, <2>6
  <1>9. dec'[c].req = None /\ ~dec'[c].acted
    BY <1>4, NoDecisionType
  <1> QED
    BY <1>1, <1>3, <1>4, <1>5, <1>6, <1>7, <1>8, <1>9, OneDecision

LEMMA AbandonDecided ==
    ASSUME ATypeOK, ATypeOK', Decided, NEW c \in Callers, Abandon(c)
    PROVE  Decided'
  <1>0. dec[c].stage # "idle"
    BY DEF Abandon, Decided, Shaped, Doing
  <1>1. PICK r \in Requests : r = dec[c].req /\ status[r] # "none"
    BY <1>0, OfOne
  <1>2. /\ call' = [call EXCEPT ![c] = NoCall]
        /\ troubled' = IF dec[c].acted THEN troubled \cup {r} ELSE troubled
        /\ UNCHANGED <<status, notice, told, executed>>
    BY <1>1 DEF Abandon
  <1>3. \A d \in Callers \ {c} : call'[d] = call[d]
    BY <1>2 DEF ATypeOK, TypeOK
  <1>4. dec'[c] = NoDecision /\ \A d \in Callers \ {c} : dec'[d] = dec[d]
    BY NoDecisionType, DecisionTyped DEF Abandon
  <1>5. Shaped(c)' /\ Tooled(c)'
    BY <1>4, NoDecisionType DEF Shaped, Tooled, Doing
  <1>6. executed[r] \in Nat /\ (status[r] = "approved" => executed[r] >= 1)
    BY <1>1 DEF ATypeOK, Decided, Effective
  <1>7. ASSUME r \notin troubled' PROVE Alone(r)' /\ Noticed(r)'
    <2>1. Alone(r) /\ Noticed(r) /\ ~dec[c].acted
      BY <1>2, <1>7 DEF Decided
    <2>2. \A d \in Deciding(r)' : d \in Deciding(r) /\ d # c /\ dec'[d] = dec[d]
      BY <1>4, NoDecisionType, NoRequestAssumption DEF Deciding
    <2>3. \A d \in Deciding(r) \ {c} : d \in Deciding(r)'
      BY <1>4 DEF Deciding
    <2>4. (\E d \in Deciding(r)' : dec'[d].acted) <=> (\E d \in Deciding(r) : dec[d].acted)
      <3>1. ASSUME NEW d \in Deciding(r), dec[d].acted PROVE d # c /\ d \in Callers
        BY <2>1, <3>1 DEF Deciding
      <3> QED
        BY <1>4, <2>2, <2>3, <3>1
    <2>5. executed'[r] = IF \/ status'[r] = "approved"
                            \/ status'[r] = "pending" /\ \E d \in Deciding(r)' : dec'[d].acted
                           THEN 1 ELSE 0
      BY <1>2, <2>1, <2>4 DEF Alone
    <2>6. \A x, y \in Deciding(r)' : x = y
      BY <2>1, <2>2 DEF Alone
    <2>7. Alone(r)'
      BY <1>2, <2>1, <2>2, <2>5, <2>6 DEF Alone, Doing
    <2> QED
      BY <1>2, <2>1, <2>7 DEF Noticed
  <1>8. dec'[c].req = None /\ ~dec'[c].acted /\ troubled \subseteq troubled'
    BY <1>2, <1>4, NoDecisionType
  <1> QED
    BY <1>1, <1>2, <1>3, <1>4, <1>5, <1>6, <1>7, <1>8, OneDecision

-----------------------------------------------------------------------------
(* The theorems.                                                           *)

LEMMA DecidedInit == AInit => ATypeOK /\ Decided
  <1> SUFFICES ASSUME AInit PROVE ATypeOK /\ Decided
    OBVIOUS
  <1>1. TypeOK
    BY TypeInit DEF AInit
  <1>2. ATypeOK
    BY <1>1, NoDecisionType, NoRequestAssumption DEF AInit, ATypeOK
  <1>3. \A c \in Callers : dec[c] = NoDecision
    BY DEF AInit
  <1>4. \A r \in Requests : Deciding(r) = {}
    BY <1>3, NoDecisionType, NoRequestAssumption DEF Deciding
  <1>5. \A c \in Callers : Shaped(c) /\ Tooled(c)
    BY <1>3, NoDecisionType DEF Shaped, Tooled, Doing
  <1>6. Effective
    BY <1>3, NoDecisionType DEF AInit, Effective
  <1>7. \A r \in Requests : Alone(r) /\ Noticed(r)
    BY <1>4 DEF AInit, Alone, Noticed
  <1> QED
    BY <1>2, <1>5, <1>6, <1>7 DEF Decided

LEMMA DecidedStep == ATypeOK /\ Decided /\ [ANext]_allVars => (ATypeOK /\ Decided)'
  <1> SUFFICES ASSUME ATypeOK, Decided, [ANext]_allVars PROVE (ATypeOK /\ Decided)'
    OBVIOUS
  <1>1. ATypeOK'
    BY ApprovalsTyped DEF Decided
  <1>2. CASE Clear \/ (\E r \in Requests : Expire(r)) \/ UNCHANGED allVars
    BY <1>1, <1>2, QuietDecided
  <1>3. ASSUME NEW c \in Callers, NEW r \in Requests,
               \/ \E t \in Tools : Propose(c, r, t)
               \/ FindExpired(c, r) \/ Reject(c, r) \/ Approve(c, r)
        PROVE  Decided'
    BY <1>1, <1>3, ProposeDecided, DecideDecided
  <1>4. ASSUME NEW c \in Callers,
               \/ Ask(c) \/ Step(c) \/ Executed(c) \/ Write(c) \/ Notify(c) \/ Tell(c)
               \/ Abandon(c) \/ Serve(c)
        PROVE  Decided'
    BY <1>1, <1>4, AskDecided, StepDecided, ExecutedDecided, WriteDecided, NotifyDecided,
       TellDecided, AbandonDecided, ServeDecided
  <1> QED
    BY <1>1, <1>2, <1>3, <1>4 DEF ANext

(* Every reachable state of the approvals is typed, and the decisions in   *)
(* flight, the requests and their effects fit each other.                  *)
THEOREM DecidedIsInvariant == ASpec => [](ATypeOK /\ Decided)
  BY DecidedInit, DecidedStep, PTL DEF ASpec

(* A request outside troubled is decided once (approve_request and         *)
(* reject_request).                                                        *)
THEOREM AloneCorrect == ASpec => []AloneIsDecidedOnce
  <1>1. ATypeOK /\ Decided => AloneIsDecidedOnce
    BY DEF Decided, Alone, AloneIsDecidedOnce, Once
  <1> QED
    BY <1>1, DecidedIsInvariant, PTL

(* An approved request has had its effect, whatever decisions overlap      *)
(* (approve_request runs the tool and passes its error on).                *)
THEOREM EffectCorrect == ASpec => []ApprovedWasExecuted
  <1>1. ATypeOK /\ Decided => ApprovedWasExecuted
    BY DEF Decided, Effective, ApprovedWasExecuted
  <1> QED
    BY <1>1, DecidedIsInvariant, PTL

(* No alert is ahead of its request (mark_approval_alert_decided, and the  *)
(* alerts that approve_request and reject_request send).                   *)
THEOREM NoticeCorrect == ASpec => []NoticeIsTrue
  <1>1. ATypeOK /\ Decided => NoticeIsTrue
    BY DEF Decided, Noticed, NoticeIsTrue
  <1> QED
    BY <1>1, DecidedIsInvariant, PTL

(* The steps of the approvals that are none of the service's leave the     *)
(* automations alone, so that the tools and the API share one table.       *)
LEMMA ServiceKeys ==
    ATypeOK /\ OneRowPerKey /\ [ANext]_allVars => OneRowPerKey'
  <1> SUFFICES ASSUME ATypeOK, OneRowPerKey, [ANext]_allVars PROVE OneRowPerKey'
    OBVIOUS
  <1> TypeOK
    BY DEF ATypeOK
  <1>1. ASSUME NEW c \in Callers, Step(c) \/ Serve(c) PROVE OneRowPerKey'
    <2>1. [Next]_vars
      BY <1>1 DEF Step, Serve, Next
    <2> QED
      BY <2>1, KeyStep
  <1>2. ASSUME NEW c \in Callers,
               \/ \E r \in Requests, t \in Tools : Propose(c, r, t)
               \/ \E r \in Requests : FindExpired(c, r) \/ Reject(c, r) \/ Approve(c, r)
               \/ Ask(c) \/ Executed(c) \/ Write(c) \/ Notify(c) \/ Tell(c) \/ Abandon(c)
        PROVE  row' = row
    BY <1>2 DEF Propose, FindExpired, Reject, Approve, Ask, Executed, Write, Notify, Tell, Abandon,
                vars, tables
  <1>3. (\E r \in Requests : Expire(r)) \/ Clear \/ UNCHANGED allVars => row' = row
    BY DEF Expire, Clear, allVars, vars, tables
  <1>4. row' = row => OneRowPerKey'
    BY DEF OneRowPerKey, Live
  <1> QED
    BY <1>1, <1>2, <1>3, <1>4 DEF ANext

(* No two automations have one idempotency key, with the tools of approved *)
(* requests among the calls (publish: lookup, insert, lookup).             *)
THEOREM ToolsKeepKeys == ASpec => []OneRowPerKey
  <1>1. AInit => OneRowPerKey
    BY DEF AInit, Init, OneRowPerKey, Live
  <1> QED
    BY <1>1, DecidedIsInvariant, ServiceKeys, PTL DEF ASpec

-----------------------------------------------------------------------------
(* The automations, with the tools among the calls.                        *)

LEMMA ServiceLife ==
    ATypeOK /\ Fits /\ [ANext]_allVars => Fits' /\ Lives
  <1> SUFFICES ASSUME ATypeOK, Fits, [ANext]_allVars PROVE Fits' /\ Lives
    OBVIOUS
  <1>0. TypeOK /\ call \in [Callers -> CallStates]
    BY DEF ATypeOK, TypeOK
  <1>1. [Next]_vars => Fits' /\ Lives
    BY <1>0, FitsStep, LifeStep
  <1>2. ASSUME NEW c \in Callers, Step(c) \/ Serve(c) PROVE [Next]_vars
    BY <1>2 DEF Step, Serve, Next
  <1>3. ASSUME NEW c \in Callers, NEW x, call' = [call EXCEPT ![c] = x], CallFits(x),
               UNCHANGED <<tables, exec>>
        PROVE  Fits' /\ Lives
    <2>1. Lives
      BY <1>3, LifeAsks DEF tables
    <2>2. \A b \in Callers : CallFits(call'[b])
      BY <1>0, <1>3 DEF Fits
    <2> QED
      BY <1>3, <2>1, <2>2 DEF Fits
  <1>4. ASSUME NEW c \in Callers, Executed(c) \/ Abandon(c) PROVE Fits' /\ Lives
    <2>1. CallFits(NoCall)
      BY DEF CallFits, NoCall
    <2> QED
      BY <1>3, <1>4, <2>1 DEF Executed, Abandon
  <1>5. ASSUME NEW c \in Callers, NEW r \in Requests, Approve(c, r) PROVE Fits' /\ Lives
    <2> DEFINE t == tool[r]
               x == [NoCall EXCEPT !.op = t.op, !.arg = t.arg, !.workflow = t.workflow,
                                   !.stage = IF t.op = "publish" THEN "lookup" ELSE "find"]
    <2>1. ToolShape(t)
      <3>1. status[r] # "none" /\ tool[r] \in Tools \cup {None} /\ (tool[r] = None) = (status[r] = "none")
        BY <1>5 DEF Approve, Open, Pending, ATypeOK
      <3> QED
        BY <3>1, ToolsAssumption
    <2>2. call' = [call EXCEPT ![c] = x] /\ UNCHANGED <<tables, exec>>
      BY <1>5 DEF Approve, Begin
    <2>3. /\ x.op = t.op /\ x.workflow = t.workflow /\ x.id = None
          /\ x.stage = IF t.op = "publish" THEN "lookup" ELSE "find"
      BY DEF NoCall
    <2> HIDE DEF x, t
    <2>4. CallFits(x)
      BY <2>1, <2>3 DEF CallFits, ToolShape
    <2> QED
      BY <1>3, <2>2, <2>4
  <1>6. ASSUME NEW c \in Callers,
               \/ \E r \in Requests, t \in Tools : Propose(c, r, t)
               \/ \E r \in Requests : FindExpired(c, r) \/ Reject(c, r)
               \/ Ask(c) \/ Write(c) \/ Notify(c) \/ Tell(c)
        PROVE  UNCHANGED vars
    BY <1>6 DEF Propose, FindExpired, Reject, Ask, Write, Notify, Tell
  <1>7. (\E r \in Requests : Expire(r)) \/ Clear \/ UNCHANGED allVars => UNCHANGED vars
    BY DEF Expire, Clear, allVars
  <1> QED
    BY <1>1, <1>2, <1>4, <1>5, <1>6, <1>7 DEF ANext

(* The service keeps the promise of the abstract automations with the      *)
(* tools of approved requests among its calls (approve_request).           *)
THEOREM ToolsKeepLife == ASpec => LifeSpec
  <1>1. AInit => Life!Init /\ Fits
    BY FitsInit DEF AInit, Init, Life!Init, Life!Nobody, Phase, Plan, Asked, Turn, Live, At,
                    NoCall, Dormant
  <1>2. ATypeOK /\ Fits /\ [ANext]_allVars => Fits' /\ [Life!Next]_(Life!vars)
    BY ServiceLife DEF Lives
  <1> QED
    BY <1>1, <1>2, DecidedIsInvariant, PTL DEF ASpec, LifeSpec, Life!Spec

-----------------------------------------------------------------------------
(* The abstract decision.                                                  *)

Outcomes == [r \in Requests |-> IF r \in troubled THEN "disputed" ELSE status[r]]
Effects == [r \in Requests |-> IF r \in troubled THEN 0 ELSE executed[r]]

Abstractly == [Decision!Next]_<<Outcomes, Effects>>

LEMMA NothingSeen ==
    ASSUME UNCHANGED <<status, executed, troubled>>
    PROVE  Abstractly
  BY DEF Abstractly, Outcomes, Effects

\* A step about one request changes the outcome and the effects of no other one.
LEMMA OfRequest ==
    ASSUME NEW r \in Requests,
           \A x \in Requests \ {r} : /\ status'[x] = status[x] /\ executed'[x] = executed[x]
                                     /\ x \in troubled' <=> x \in troubled
    PROVE  /\ Outcomes' = [Outcomes EXCEPT ![r] = IF r \in troubled' THEN "disputed" ELSE status'[r]]
           /\ Effects' = [Effects EXCEPT ![r] = IF r \in troubled' THEN 0 ELSE executed'[r]]
  BY DEF Outcomes, Effects

LEMMA DisputeSeen ==
    ASSUME NEW r \in Requests, UNCHANGED <<status, executed>>, troubled' = troubled \cup {r},
           r \notin troubled => status[r] = "pending"
    PROVE  Abstractly
  <1>1. CASE r \in troubled
    <2>1. troubled' = troubled
      BY <1>1
    <2> QED
      BY <2>1, NothingSeen
  <1>2. CASE r \notin troubled
    <2>1. /\ Outcomes' = [Outcomes EXCEPT ![r] = "disputed"]
          /\ Effects' = [Effects EXCEPT ![r] = 0]
      BY OfRequest
    <2>2. Outcomes[r] = "pending"
      BY <1>2 DEF Outcomes
    <2>3. Decision!Dispute(r)
      BY <2>1, <2>2 DEF Decision!Dispute, Decision!Become, Outcomes, Effects
    <2> QED
      BY <2>3 DEF Abstractly, Decision!Next
  <1> QED
    BY <1>1, <1>2

LEMMA ProposeSeen ==
    ASSUME ATypeOK, NEW c \in Callers, NEW r \in Requests, NEW t \in Tools, Propose(c, r, t)
    PROVE  Abstractly
  <1>1. /\ status[r] = "none" /\ status' = [status EXCEPT ![r] = "pending"]
        /\ UNCHANGED <<executed, troubled>>
    BY DEF Propose
  <1>2. status'[r] = "pending" /\ \A x \in Requests \ {r} : status'[x] = status[x]
    BY <1>1 DEF ATypeOK
  <1>3. CASE r \in troubled
    BY <1>1, <1>2, <1>3 DEF Abstractly, Outcomes, Effects
  <1>4. CASE r \notin troubled
    <2>1. /\ Outcomes' = [Outcomes EXCEPT ![r] = "pending"] /\ Effects' = Effects
          /\ Outcomes[r] = "none"
      BY <1>1, <1>2, <1>4, OfRequest DEF Outcomes, Effects
    <2>2. Decision!Ask(r)
      BY <2>1 DEF Decision!Ask, Decision!Become, Outcomes, Effects
    <2> QED
      BY <2>2 DEF Abstractly, Decision!Next
  <1> QED
    BY <1>3, <1>4

LEMMA OpenSeen ==
    ASSUME NEW c \in Callers, NEW r \in Requests, NEW as, Open(c, r, as),
           UNCHANGED <<status, executed>>
    PROVE  Abstractly
  <1>1. status[r] = "pending" /\ troubled' \in {troubled, troubled \cup {r}}
    BY DEF Open, Pending
  <1> QED
    BY <1>1, NothingSeen, DisputeSeen

LEMMA StepSeen ==
    ASSUME ATypeOK, Decided, NEW c \in Callers, Step(c)
    PROVE  Abstractly
  <1>1. UNCHANGED <<status, troubled>>
    BY DEF Step
  <1>2. CASE UNCHANGED executed
    BY <1>1, <1>2, NothingSeen
  <1>3. CASE ~UNCHANGED executed
    <2>1. Doing(c, "execute") /\ TakesEffect(c)
      BY <1>3 DEF Step
    <2>2. PICK r \in Requests : r = dec[c].req /\ (r \notin troubled => Alone(r))
      BY <2>1, OfOne DEF Doing
    <2>3. executed' = [executed EXCEPT ![r] = @ + 1]
      BY <2>1, <2>2 DEF Step
    <2>4. executed'[r] = executed[r] + 1 /\ \A x \in Requests \ {r} : executed'[x] = executed[x]
      BY <2>3 DEF ATypeOK
    <2>5. CASE r \in troubled
      BY <1>1, <2>4, <2>5 DEF Abstractly, Outcomes, Effects
    <2>6. CASE r \notin troubled
      <3>1. Alone(r) /\ ~dec[c].acted /\ c \in Deciding(r)
        BY <2>1, <2>2, <2>6 DEF Decided, Deciding, Doing, Tooled, TakesEffect
      <3>2. status[r] = "pending" /\ executed[r] = 0
        BY <2>1, <3>1 DEF Alone
      <3>3. Effects' = [Effects EXCEPT ![r] = 1]
        <4>1. executed'[r] = 1 /\ r \notin troubled'
          BY <1>1, <2>4, <2>6, <3>2
        <4> QED
          BY <1>1, <2>4, <4>1, OfRequest
      <3>4. Outcomes' = Outcomes /\ Outcomes[r] = "pending" /\ Effects[r] = 0
        BY <1>1, <2>6, <3>2 DEF Outcomes, Effects
      <3>5. Decision!Act(r)
        BY <3>3, <3>4 DEF Decision!Act, Outcomes, Effects
      <3> QED
        BY <3>5 DEF Abstractly, Decision!Next
    <2> QED
      BY <2>5, <2>6
  <1> QED
    BY <1>2, <1>3

\* A decision that ends before its write leaves a request that is pending still.
LEMMA CutSeen ==
    ASSUME ATypeOK, Decided, NEW c \in Callers, Executed(c) \/ Abandon(c)
    PROVE  Abstractly
  <1>1. UNCHANGED <<status, executed>>
    BY DEF Executed, Abandon
  <1>2. CASE troubled' = troubled
    BY <1>1, <1>2, NothingSeen
  <1>3. CASE troubled' # troubled
    <2>1. dec[c].acted /\ troubled' = troubled \cup {dec[c].req}
      BY <1>3 DEF Executed, Abandon, Cut
    <2>2. Shaped(c) /\ (Doing(c, "execute") \/ Doing(c, "write"))
      BY <2>1 DEF Decided, Shaped
    <2>3. PICK r \in Requests : r = dec[c].req /\ (r \notin troubled => Alone(r))
      BY <2>2, OfOne DEF Doing
    <2>4. c \in Deciding(r)
      BY <2>2, <2>3 DEF Deciding, Doing
    <2>5. r \notin troubled => status[r] = "pending"
      BY <2>2, <2>3, <2>4 DEF Alone
    <2> QED
      BY <1>1, <2>1, <2>3, <2>5, DisputeSeen
  <1> QED
    BY <1>2, <1>3

LEMMA WriteSeen ==
    ASSUME ATypeOK, Decided, NEW c \in Callers, Write(c)
    PROVE  Abstractly
  <1>1. Doing(c, "write") /\ UNCHANGED <<executed, troubled>>
    BY DEF Write
  <1>2. PICK r \in Requests : r = dec[c].req /\ (r \notin troubled => Alone(r))
    BY <1>1, OfOne DEF Doing
  <1>3. status' = [status EXCEPT ![r] = dec[c].as]
    BY <1>2 DEF Write
  <1>4. status'[r] = dec[c].as /\ \A x \in Requests \ {r} : status'[x] = status[x]
    BY <1>3 DEF ATypeOK
  <1>5. CASE r \in troubled
    BY <1>1, <1>4, <1>5 DEF Abstractly, Outcomes, Effects
  <1>6. CASE r \notin troubled
    <2>1. Alone(r) /\ c \in Deciding(r)
      BY <1>1, <1>2, <1>6 DEF Deciding, Doing
    <2>2. /\ status[r] = "pending" /\ Deciding(r) = {c}
          /\ executed[r] = IF dec[c].acted THEN 1 ELSE 0
      BY <1>1, <2>1 DEF Alone
    <2>3. /\ dec[c].as \in {"approved", "rejected", "expired"}
          /\ dec[c].acted <=> dec[c].as = "approved"
      BY <1>1 DEF Decided, Shaped, ATypeOK, Decisions
    <2>4. /\ Outcomes' = [Outcomes EXCEPT ![r] = dec[c].as] /\ Effects' = Effects
          /\ Outcomes[r] = "pending" /\ Effects[r] = executed[r]
      BY <1>1, <1>4, <1>6, <2>2, OfRequest DEF Outcomes, Effects
    <2>5. CASE dec[c].as = "approved"
      <3>1. Decision!Approve(r)
        BY <2>2, <2>3, <2>4, <2>5 DEF Decision!Approve, Decision!Become, Outcomes, Effects
      <3> QED
        BY <3>1 DEF Abstractly, Decision!Next
    <2>6. CASE dec[c].as \in {"rejected", "expired"}
      <3>1. Decision!Refuse(r)
        BY <2>2, <2>3, <2>4, <2>6 DEF Decision!Refuse, Decision!Become, Outcomes, Effects
      <3> QED
        BY <3>1 DEF Abstractly, Decision!Next
    <2> QED
      BY <2>3, <2>5, <2>6
  <1> QED
    BY <1>5, <1>6

LEMMA EveryStepSeen ==
    ATypeOK /\ Decided /\ [ANext]_allVars => Abstractly
  <1> SUFFICES ASSUME ATypeOK, Decided, [ANext]_allVars PROVE Abstractly
    OBVIOUS
  <1>1. ASSUME NEW c \in Callers, NEW r \in Requests,
               FindExpired(c, r) \/ Reject(c, r) \/ Approve(c, r)
        PROVE  Abstractly
    BY <1>1, OpenSeen DEF FindExpired, Reject, Approve
  <1>2. ASSUME NEW c \in Callers, Ask(c) \/ Notify(c) \/ Tell(c) \/ Serve(c)
        PROVE  Abstractly
    BY <1>2, NothingSeen DEF Ask, Notify, Tell, Serve, approvals
  <1>3. (\E r \in Requests : Expire(r)) \/ Clear \/ UNCHANGED allVars => Abstractly
    BY NothingSeen DEF Expire, Clear, allVars, approvals
  <1> QED
    BY <1>1, <1>2, <1>3, ProposeSeen, StepSeen, CutSeen, WriteSeen DEF ANext

(* Outside troubled the handlers of requests implement the abstract        *)
(* decision: storing a request asks, the write of its tool acts, the write *)
(* of a decision approves or refuses, a second or a broken decision        *)
(* disputes, and nothing else is visible (approve_request,                 *)
(* reject_request, find_pending_approval).                                 *)
THEOREM DecisionImplemented == ASpec => DecisionSpec
  <1>1. AInit => Decision!Init
    BY DEF AInit, Decision!Init
  <1>2. ATypeOK /\ Decided /\ [ANext]_allVars => [Decision!Next]_<<Outcomes, Effects>>
    BY EveryStepSeen DEF Abstractly
  <1> QED
    BY <1>1, <1>2, DecidedIsInvariant, PTL DEF ASpec, DecisionSpec, Decision!Spec, Outcomes, Effects
=============================================================================
