--------------------------- MODULE OrderPlacement ---------------------------
(***************************************************************************)
(* What trade submission promises, without requests, rows or retries: a    *)
(* trade is bound once to one signed order, no two trades are bound to the *)
(* same one, and the venue holds only orders some trade is bound to.       *)
(* TradeIntents implements it.                                             *)
(***************************************************************************)
CONSTANTS Trades, Orders, None

VARIABLES
    bound,      \* the signed order a trade is bound to
    placed      \* the orders the venue has taken

Init ==
    /\ bound = [t \in Trades |-> None]
    /\ placed = {}

Bind(t, o) ==
    /\ bound[t] = None
    /\ \A u \in Trades : bound[u] # o
    /\ bound' = [bound EXCEPT ![t] = o]
    /\ UNCHANGED placed

Place(o) ==
    /\ o \notin placed
    /\ \E t \in Trades : bound[t] = o
    /\ placed' = placed \cup {o}
    /\ UNCHANGED bound

Next ==
    \E o \in Orders :
        \/ Place(o)
        \/ \E t \in Trades : Bind(t, o)

Spec == Init /\ [][Next]_<<bound, placed>>
=============================================================================
