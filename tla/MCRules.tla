------------------------------- MODULE MCRules -------------------------------
(* The modules with little state of their own, on small inputs: what       *)
(* workflows and orders pass through (Workflows, SignedOrders), the rate   *)
(* limiters, the lists that are paged and the rows that are streamed       *)
(* (RateLimiter, Pages, Feeds).  They share no state, and a behaviour is   *)
(* about one of them; Feeds comes three times, as its streams and its      *)
(* edits together only go through fewer rows and fewer editors.            *)
EXTENDS Workflows, SignedOrders, RateLimiter, Pages, Feeds, TLC

CONSTANTS w1, w2, u1, u2, k1, k2, l1, l2, n2, n3, e2

VARIABLE subject        \* what the behaviour is about

Subjects == {"workflow", "order", "limiter", "pages", "streams", "edits", "feeds"}

RulesInit ==
    /\ subject \in Subjects
    /\ WorkflowInit /\ OrderInit /\ LimiterInit /\ PagesInit /\ FeedInit
    /\ subject = "pages" \/ list = "comments"
    /\ subject \in {"streams", "feeds"} \/ feed = "alerts"
    \* Only lists of alerts are about times, and n1 and n2 are alike.
    /\ \A r \in Own : created[r] = 0 \/ (subject \in {"streams", "feeds"} /\ feed = "alerts" /\ r = n2)

RulesNext ==
    /\ UNCHANGED subject
    /\ IF subject = "workflow" THEN WorkflowNext ELSE UNCHANGED workflowVars
    /\ IF subject = "order" THEN OrderNext ELSE UNCHANGED orderVars
    /\ IF subject = "limiter" THEN LimiterNext ELSE UNCHANGED limiterVars
    /\ IF subject = "pages" THEN PagesNext ELSE UNCHANGED pageVars
    /\ CASE subject = "streams" -> FeedNext /\ UNCHANGED edit
         [] subject = "edits" -> FeedNext /\ UNCHANGED stream
         [] subject = "feeds" -> FeedNext /\ entry'[n3] = "none" /\ edit'[e2] = Inactive
         [] OTHER -> UNCHANGED feedVars

rulesVars == <<subject, workflowVars, orderVars, limiterVars, pageVars, feedVars>>

\* The executor's loop over the connections does not wait for anything.
RulesSpec ==
    /\ RulesInit /\ [][RulesNext]_rulesVars
    /\ WF_workflowVars(ExecuteWorkflow)
-----------------------------------------------------------------------------
(* Workflows.                                                              *)

StepOf == [trigger |-> [action |-> "time_check", param |-> "1h"],
           condition |-> [action |-> "volume_above", param |-> "positive"],
           action |-> [action |-> "send_message", param |-> "text"]]

Kinds == <<"trigger", "condition", "action">>

Edge(ids) == [from : ids, to : ids]
Code(e) == 10 * e.from + e.to

Ascending(f) == \A i \in 1..(Len(f) - 1) : f[i] <= f[i + 1]

\* Steps 1 to n, ordered by kind, with k connections, ordered too: two for
\* the same pair are next to each other.
Shapes(n, k) ==
    LET kinds == {f \in [1..n -> 1..3] : Ascending(f)}
        edges == {f \in [1..k -> Edge(1..n)] : Ascending([i \in 1..k |-> Code(f[i])])}
        step(i, kind) == StepOf[kind] @@ [id |-> i, kind |-> kind]
    IN {[steps |-> [i \in 1..n |-> step(i, Kinds[f[i]])], connections |-> e] :
            f \in kinds, e \in edges}

\* Two steps with all sorts of actions and parameters, with one connection or
\* none; step 3 does not exist.
Pairs ==
    LET some(ids, kinds, params) == [id : ids, kind : kinds, action : DOMAIN KindOf, param : params]
        first == some({1}, {"trigger", "condition"}, {"5m", "hourly", "YES", "positive"})
        second == some({1, 2}, {"condition", "action"}, {"text", "positive", "none"})
    IN {[steps |-> <<s, t>>, connections |-> e] : s \in first, t \in second,
            e \in {<<>>, <<[from |-> 1, to |-> 2]>>, <<[from |-> 1, to |-> 3]>>}}

MCDrafts == Shapes(1, 0) \cup Shapes(3, 2) \cup Shapes(3, 3) \cup Shapes(4, 3) \cup Pairs
-----------------------------------------------------------------------------
(* Orders.                                                                 *)

Market(id, tokens, labels) ==
    [id |-> id, outcomes |-> {[id |-> t, label |-> l] : t \in tokens, l \in labels}]

Asked ==
    [deferExec : {FALSE}, market : {k1}, token : {u1}, outcome : {l1}, wallet : {w1},
     primary : {w1}, found : {Market(k1, {u1}, {l1})}]

MCPayloads ==
    {p @@ q : p \in Asked, q \in
        [side : {"BUY", "SELL"}, type : {"LIMIT"}, execution : {"GTC", "GTD"},
         postOnly : BOOLEAN, amount : 0..8, price : 0..8]
        \cup
        [side : {"BUY", "SELL"}, type : {"MARKET"}, execution : {"FOK", "GTC"},
         postOnly : BOOLEAN, amount : 0..8, price : {Absent}]}
    \cup
    \* One payload, of any user and for any market.
    [side : {"BUY"}, type : {"MARKET"}, execution : {"FOK"}, postOnly : {FALSE},
     amount : {2}, price : {Absent}, deferExec : {FALSE}, market : {k1}, token : {u1},
     outcome : Labels, wallet : Wallets, primary : Wallets \cup {Absent},
     found : {Market(id, {t}, {l}) : id \in Markets, t \in Tokens, l \in Labels}]

Honest ==
    [maker : {w1}, signer : {w1}, signatureType : {0}, token : {u1}, side : {"BUY", "SELL"},
     makerAmount : 0..31, takerAmount : 0..31]

\* One order, made and signed by anyone.
Strange ==
    [maker : Wallets, signer : Wallets, signatureType : {0, 1}, token : Tokens,
     side : {"BUY"}, makerAmount : {1}, takerAmount : {2}]

MCSubmissions ==
    [order : Honest, execution : {"GTC", "FOK"}, postOnly : {FALSE}, deferExec : {FALSE},
     primary : {w1}, found : {Market(k1, {u1}, {l1})}, account : {w1}, funder : {w1},
     signatureType : {0}, keys : {TRUE}]
    \cup
    [order : Strange, execution : {"FOK"}, postOnly : {FALSE}, deferExec : {FALSE},
     primary : Wallets \cup {Absent},
     found : {Market(id, {t}, Labels) : id \in Markets, t \in Tokens \cup {Absent}},
     account : Wallets \cup {Absent}, funder : Wallets \cup {Absent},
     signatureType : {0, Absent}, keys : BOOLEAN]
-----------------------------------------------------------------------------
(* Limiters.                                                               *)

MCLimit == [r \in Routes |-> IF r = "public" THEN 2 ELSE 1]
=============================================================================
