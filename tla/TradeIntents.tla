---------------------------- MODULE TradeIntents ----------------------------
(***************************************************************************)
(* The life of a trade intent: the TradeService handlers that create it,   *)
(* submit its signed order, reconcile it and cancel it                     *)
(* (src/src/trades/service.rs), the Polymarket user-stream worker that     *)
(* applies venue events to it (src/src/providers/polymarket/               *)
(* user_stream.rs), and the venue on the other side of the HTTP client.    *)
(*                                                                         *)
(* Every handler is a process of its own: it reads the row, awaits (HTTP,  *)
(* other queries), then writes with whatever filter its UPDATE carries, so *)
(* one action is one statement or one request.  A handler's future may be  *)
(* dropped at any await (client gone, error return, process crash): the    *)
(* Abandon actions.  One user is modelled: every query filters by user_id, *)
(* except the unique indexes on the signed order hash, which are global.   *)
(***************************************************************************)
EXTENDS Naturals, FiniteSets

CONSTANTS
    Trades,         \* trade_intents rows
    Orders,         \* signed orders: one value is the order, its hash and its venue id
    Fills,          \* venue trades that may fill an order
    Submitters,     \* in-flight submit_signed_order requests
    Reconcilers,    \* in-flight reconcile requests
    Cancellers,     \* in-flight cancel_* requests
    MarketOf,       \* the market of each trade intent
    None            \* SQL NULL, and "no value" in a handler's locals

ASSUME NoneAssumption == None \notin Trades \cup Orders

VARIABLES
    status,         \* trade_intents.status, "absent" before the insert
    hash,           \* trade_intents.signed_order_hash
    orderId,        \* trade_intents.provider_order_id
    responded,      \* trade_intents.provider_response IS NOT NULL
    fresh,          \* submission_started_at is less than 30 s old
    sub,            \* locals of the submit handlers
    rec,            \* locals of the reconcile handlers
    can,            \* locals of the cancel handlers, until their last use
    stream,         \* locals of the user-stream worker
    wire,           \* POST /order requests the venue has not processed yet
    exOrder,        \* the venue's view of each order
    exFills         \* the statuses each fill of each order has gone through

row  == <<status, hash, orderId, responded, fresh>>
venue == <<wire, exOrder, exFills>>
vars == <<row, sub, rec, can, stream, venue>>
-----------------------------------------------------------------------------
(* The vocabulary of the code.                                             *)

Statuses ==
    {"pending_signature", "submitting", "reconciliation_required", "submitted",
     "matched", "mined", "retrying", "filled", "partially_filled", "rejected",
     "failed", "cancellation_requested", "cancelled"}

\* Mutation: only an explicitly unknown outcome can be reconciled without an id.
Unresolved_OnlyUnknown == {"reconciliation_required"}

\* What reconcile accepts without a provider order id.
Unresolved == {"submitting", "reconciliation_required"}

\* What the claim's UPDATE accepts as a previous status.
Claimable == {"pending_signature", "failed"}

\* What reconcile refuses to look at.
Terminal == {"filled", "cancelled", "rejected", "failed"}

Cancellable == {"submitted", "matched", "mined", "retrying", "partially_filled"}

FillStatus == {"MATCHED", "MINED", "RETRYING", "CONFIRMED", "FAILED"}

OrderStatus == {"none", "LIVE", "MATCHED", "CANCELED", "INVALID"}

\* Mutation: an event is applied to whatever the row says.
AllowedPrevious_Any(target) == Statuses

\* The statuses from which a stream event may move a trade to its target.
AllowedPrevious(target) ==
    CASE target = "matched" ->
            {"submitting", "reconciliation_required", "submitted",
             "partially_filled", "cancellation_requested"}
      [] target = "mined" -> {"matched", "retrying", "cancellation_requested"}
      [] target = "retrying" -> {"matched", "mined", "cancellation_requested"}
      [] target \in {"filled", "failed"} ->
            {"submitting", "reconciliation_required", "cancellation_requested"}
                \cup Cancellable
      [] target = "cancelled" ->
            {"submitted", "partially_filled", "matched", "retrying",
             "cancellation_requested"}
      [] target = "partially_filled" ->
            {"submitted", "matched", "cancellation_requested"}
      [] OTHER -> {}

\* Mutation: what is mined counts as confirmed.
TradeStatusOf_MinedIsFilled(x) ==
    CASE x \in {"CONFIRMED", "MINED"} -> "filled"
      [] x = "FAILED"    -> "failed"
      [] x = "RETRYING"  -> "retrying"
      [] x = "MATCHED"   -> "matched"

\* The trade status an event or a lookup of a venue fill in status x stands for.
TradeStatusOf(x) ==
    CASE x = "CONFIRMED" -> "filled"
      [] x = "FAILED"    -> "failed"
      [] x = "RETRYING"  -> "retrying"
      [] x = "MINED"     -> "mined"
      [] x = "MATCHED"   -> "matched"

\* reconciled_status: fills first, in this order of precedence, then the order.
ReconciledStatus(order, fills) ==
    CASE "CONFIRMED" \in fills -> "filled"
      [] "CONFIRMED" \notin fills /\ "FAILED" \in fills -> "failed"
      [] fills \cap {"CONFIRMED", "FAILED"} = {} /\ "RETRYING" \in fills -> "retrying"
      [] fills \subseteq {"MINED", "MATCHED"} /\ "MINED" \in fills -> "mined"
      [] fills = {"MATCHED"} -> "matched"
      [] fills = {} /\ order = "CANCELED" -> "cancelled"
      [] fills = {} /\ order = "MATCHED" -> "matched"
      [] fills = {} /\ order = "INVALID" -> "rejected"
      [] OTHER -> "submitted"

\* Mutation: a timeout counts as a failure.
SubmissionOutcome_TimeoutFails(reply) ==
    CASE reply = "live"      -> "submitted"
      [] reply = "confirmed" -> "filled"
      [] reply \in {"unsuccessful", "rejected"} -> "rejected"
      [] reply \in {"matched", "mined", "retrying"} -> reply
      [] reply = "partial"   -> "partially_filled"
      [] reply \in {"definite", "ambiguous"} -> "failed"

\* What a finished POST means for the row: provider_success and provider_status
\* of a 2xx answer, a definite error, or an ambiguous one.
SubmissionOutcome(reply) ==
    CASE reply = "live"      -> "submitted"
      [] reply = "confirmed" -> "filled"
      [] reply \in {"unsuccessful", "rejected"} -> "rejected"
      [] reply \in {"matched", "mined", "retrying"} -> reply
      [] reply = "partial"   -> "partially_filled"
      [] reply = "definite"  -> "failed"
      [] reply = "ambiguous" -> "reconciliation_required"

\* The 2xx answers: success = false, or a word for the status.  "live" stands for
\* every word provider_status does not know, and for none.
Refusals == {"unsuccessful", "rejected"}
Answered ==
    {"live", "matched", "mined", "retrying", "partial", "confirmed"} \cup Refusals
Replies  == Answered \cup {"definite", "ambiguous"}

\* The order id a 2xx answer may carry, whatever it says of the order.
ReturnedIds(o) == {o, None}

IdleSub == [pc |-> "idle", trade |-> None, order |-> None, reply |-> None]
IdleRec == [pc |-> "idle", trade |-> None, order |-> None, found |-> None,
            todo |-> {}, got |-> {}]
IdleCan == [pc |-> "idle", scope |-> None, trades |-> {}, orders |-> {},
            market |-> None, canceled |-> {}]
IdleStream == [pc |-> "idle", trade |-> None, target |-> None]

Init ==
    /\ status = [t \in Trades |-> "absent"]
    /\ hash = [t \in Trades |-> None]
    /\ orderId = [t \in Trades |-> None]
    /\ responded = [t \in Trades |-> FALSE]
    /\ fresh = [t \in Trades |-> FALSE]
    /\ sub = [s \in Submitters |-> IdleSub]
    /\ rec = [r \in Reconcilers |-> IdleRec]
    /\ can = [c \in Cancellers |-> IdleCan]
    /\ stream = IdleStream
    /\ wire = {}
    /\ exOrder = [o \in Orders |-> "none"]
    /\ exFills = [o \in Orders |-> [f \in Fills |-> {}]]
-----------------------------------------------------------------------------
(* create_intent: one insert, after validations that only read.            *)

CreateIntent(t) ==
    /\ status[t] = "absent"
    /\ status' = [status EXCEPT ![t] = "pending_signature"]
    /\ UNCHANGED <<hash, orderId, responded, fresh, sub, rec, can, stream, venue>>

\* Thirty seconds pass after a claim.
Age(t) ==
    /\ fresh[t]
    /\ fresh' = [fresh EXCEPT ![t] = FALSE]
    /\ UNCHANGED <<status, hash, orderId, responded, sub, rec, can, stream, venue>>
-----------------------------------------------------------------------------
(* submit_signed_order.  The checks on the snapshot: a retry of the same   *)
(* order that already has an answer returns the stored answer, another     *)
(* order or another status is a conflict.  Neither changes any state.      *)

Submittable(t, o) ==
    /\ status[t] \in Claimable
    /\ hash[t] \in {None, o}
    /\ hash[t] = o => ~responded[t]

SubmitRead(s, t, o) ==
    /\ sub[s].pc = "idle"
    /\ Submittable(t, o)
    /\ sub' = [sub EXCEPT ![s] = [pc |-> "claim", trade |-> t, order |-> o,
                                  reply |-> None]]
    /\ UNCHANGED <<row, rec, can, stream, venue>>

\* Mutation: no unique index and no duplicate query.
ClaimAllowed_NoIndex(t, o) == status[t] \in Claimable /\ hash[t] \in {None, o}

\* Mutation: the UPDATE does not compare the stored hash.
ClaimAllowed_AnyHash(t, o) ==
    status[t] \in Claimable /\ \A u \in Trades \ {t} : hash[u] # o

\* The conditional UPDATE of claim_submission and the unique index on the hash.
ClaimAllowed(t, o) ==
    /\ status[t] \in Claimable
    /\ hash[t] \in {None, o}
    /\ \A u \in Trades \ {t} : hash[u] # o

\* Mutation: the claim stores the id the order will have, before the venue has it.
SubmitClaim_KnownId(s) ==
    /\ sub[s].pc = "claim"
    /\ LET t == sub[s].trade
           o == sub[s].order
       IN  /\ ClaimAllowed(t, o)
           /\ status' = [status EXCEPT ![t] = "submitting"]
           /\ hash' = [hash EXCEPT ![t] = o]
           /\ orderId' = [orderId EXCEPT ![t] = o]
           /\ responded' = [responded EXCEPT ![t] = FALSE]
           /\ fresh' = [fresh EXCEPT ![t] = TRUE]
    /\ sub' = [sub EXCEPT ![s].pc = "post"]
    /\ UNCHANGED <<rec, can, stream, venue>>

SubmitClaim(s) ==
    /\ sub[s].pc = "claim"
    /\ LET t == sub[s].trade
           o == sub[s].order
       IN  /\ ClaimAllowed(t, o)
           /\ status' = [status EXCEPT ![t] = "submitting"]
           /\ hash' = [hash EXCEPT ![t] = o]
           /\ orderId' = [orderId EXCEPT ![t] = None]
           /\ responded' = [responded EXCEPT ![t] = FALSE]
           /\ fresh' = [fresh EXCEPT ![t] = TRUE]
    /\ sub' = [sub EXCEPT ![s].pc = "post"]
    /\ UNCHANGED <<rec, can, stream, venue>>

\* The claim affects no row, or the index rejects it: 409 to the caller.
SubmitConflict(s) ==
    /\ sub[s].pc = "claim"
    /\ ~ClaimAllowed(sub[s].trade, sub[s].order)
    /\ sub' = [sub EXCEPT ![s] = IdleSub]
    /\ UNCHANGED <<row, rec, can, stream, venue>>

SubmitPost(s) ==
    /\ sub[s].pc = "post"
    /\ wire' = wire \cup {sub[s].order}
    /\ sub' = [sub EXCEPT ![s].pc = "wait"]
    /\ UNCHANGED <<row, rec, can, stream, exOrder, exFills>>

\* The client fails before it sends anything (payload, secret): a definite error.
SubmitUnsent(s) ==
    /\ sub[s].pc = "post"
    /\ sub' = [sub EXCEPT ![s].pc = "finish", ![s].reply = "definite"]
    /\ UNCHANGED <<row, rec, can, stream, venue>>

\* Transport error, 20 s timeout, 5xx or 408, or an unreadable body.
SubmitTimeout(s) ==
    /\ sub[s].pc = "wait"
    /\ sub' = [sub EXCEPT ![s].pc = "finish", ![s].reply = "ambiguous"]
    /\ UNCHANGED <<row, rec, can, stream, venue>>

\* update_claimed_trade: the outcome is written only to a row still submitting
\* under the same hash; otherwise the caller gets a conflict and it is lost.
SubmitFinish(s) ==
    /\ sub[s].pc = "finish"
    /\ LET t == sub[s].trade
           o == sub[s].order
           reply == sub[s].reply
       IN  \/ /\ status[t] = "submitting" /\ hash[t] = o
              /\ status' = [status EXCEPT ![t] = SubmissionOutcome(reply)]
              /\ \/ /\ reply \in Answered
                    /\ \E id \in ReturnedIds(o) :
                           orderId' = [orderId EXCEPT ![t] = id]
                    /\ responded' = [responded EXCEPT ![t] = TRUE]
                 \/ /\ reply \notin Answered
                    /\ UNCHANGED <<orderId, responded>>
              /\ UNCHANGED <<hash, fresh>>
           \/ /\ ~(status[t] = "submitting" /\ hash[t] = o)
              /\ UNCHANGED row
    /\ sub' = [sub EXCEPT ![s] = IdleSub]
    /\ UNCHANGED <<rec, can, stream, venue>>

SubmitAbandon(s) ==
    /\ sub[s].pc # "idle"
    /\ sub' = [sub EXCEPT ![s] = IdleSub]
    /\ UNCHANGED <<row, rec, can, stream, venue>>
-----------------------------------------------------------------------------
(* reconcile.  Both of its UPDATEs filter by id and user only.             *)

\* Mutation: the lookup is started without checking that there is an id.
ReconcileRead_NoIdCheck(r, t) ==
    /\ rec[r].pc = "idle"
    /\ status[t] \notin Terminal \cup {"absent"}
    /\ rec' = [rec EXCEPT ![r] = [IdleRec EXCEPT !.pc = "order", !.trade = t,
                                                 !.order = orderId[t]]]
    /\ UNCHANGED <<row, sub, can, stream, venue>>

ReconcileRead(r, t) ==
    /\ rec[r].pc = "idle"
    /\ status[t] \notin Terminal \cup {"absent"}
    /\ ~(status[t] = "submitting" /\ fresh[t])
    /\ \/ /\ orderId[t] = None
          /\ status[t] \in Unresolved
          /\ rec' = [rec EXCEPT ![r] = [IdleRec EXCEPT !.pc = "mark", !.trade = t]]
       \/ /\ orderId[t] # None
          /\ rec' = [rec EXCEPT ![r] = [IdleRec EXCEPT !.pc = "order", !.trade = t,
                                                       !.order = orderId[t]]]
    /\ UNCHANGED <<row, sub, can, stream, venue>>

\* No provider order id: nothing to look up.
ReconcileMark(r) ==
    /\ rec[r].pc = "mark"
    /\ status' = [status EXCEPT ![rec[r].trade] = "reconciliation_required"]
    /\ rec' = [rec EXCEPT ![r] = IdleRec]
    /\ UNCHANGED <<hash, orderId, responded, fresh, sub, can, stream, venue>>

\* GET order: its status and the fills associated with it at this moment, or an
\* error if the venue does not have it.
ReconcileOrder(r) ==
    /\ rec[r].pc = "order"
    /\ LET o == rec[r].order
       IN  \/ /\ exOrder[o] # "none"
              /\ rec' = [rec EXCEPT ![r].pc = "trades", ![r].found = exOrder[o],
                                    ![r].todo = {f \in Fills : exFills[o][f] # {}}]
           \/ /\ exOrder[o] = "none"
              /\ rec' = [rec EXCEPT ![r] = IdleRec]
    /\ UNCHANGED <<row, sub, can, stream, venue>>

\* The status a lookup of a fill with this history may show.
Latest(seen) ==
    IF seen \cap {"CONFIRMED", "FAILED"} # {} THEN seen \cap {"CONFIRMED", "FAILED"}
    ELSE IF seen = {"MATCHED"} THEN seen ELSE seen \ {"MATCHED"}

\* GET trades, once for every associated fill.
ReconcileTrade(r, f) ==
    /\ rec[r].pc = "trades"
    /\ f \in rec[r].todo
    /\ \E x \in Latest(exFills[rec[r].order][f]) :
           rec' = [rec EXCEPT ![r].todo = @ \ {f}, ![r].got = @ \cup {x}]
    /\ UNCHANGED <<row, sub, can, stream, venue>>

ReconcileWrite(r) ==
    /\ rec[r].pc = "trades"
    /\ rec[r].todo = {}
    /\ LET t == rec[r].trade
       IN  /\ status' = [status EXCEPT ![t] = ReconciledStatus(rec[r].found, rec[r].got)]
           /\ responded' = [responded EXCEPT ![t] = TRUE]
    /\ rec' = [rec EXCEPT ![r] = IdleRec]
    /\ UNCHANGED <<hash, orderId, fresh, sub, can, stream, venue>>

ReconcileAbandon(r) ==
    /\ rec[r].pc # "idle"
    /\ rec' = [rec EXCEPT ![r] = IdleRec]
    /\ UNCHANGED <<row, sub, can, stream, venue>>
-----------------------------------------------------------------------------
(* cancel_one, cancel_multiple, cancel_all and cancel_market: read, mark,  *)
(* call the venue, apply what it confirms.                                 *)

CancelStart(c, scope, ts, os, market) ==
    /\ can[c].pc = "idle"
    /\ can' = [can EXCEPT ![c] = [pc |-> "mark", scope |-> scope, trades |-> ts,
                                  orders |-> os, market |-> market, canceled |-> {}]]
    /\ UNCHANGED <<row, sub, rec, stream, venue>>

\* cancel_one is the singleton.  A cancelled trade is skipped, any other one must
\* have an order id.
CancelTrades(c, ts) ==
    LET open == {t \in ts : status[t] # "cancelled"}
    IN  /\ \A t \in ts : status[t] # "absent"
        /\ open # {}
        /\ \A t \in open : orderId[t] # None
        /\ CancelStart(c, "trades", ts, {orderId[t] : t \in open}, None)

\* Trades with an order id that a bulk cancellation marks.
BulkCancellable ==
    {t \in Trades : /\ orderId[t] # None
                    /\ status[t] \in Cancellable \cup {"cancellation_requested"}}

CancelAll(c) ==
    /\ BulkCancellable # {}
    /\ CancelStart(c, "all", BulkCancellable, {}, None)

CancelMarket(c, t) ==
    /\ orderId[t] # None
    /\ CancelStart(c, "market", {u \in BulkCancellable : MarketOf[u] = MarketOf[t]},
                   {}, MarketOf[t])

CancelMark(c) ==
    /\ can[c].pc = "mark"
    /\ status' = [t \in Trades |->
                    IF t \in can[c].trades /\ status[t] \in Cancellable
                    THEN "cancellation_requested" ELSE status[t]]
    /\ can' = [can EXCEPT ![c].pc = "call", ![c].trades = {}]
    /\ UNCHANGED <<hash, orderId, responded, fresh, sub, rec, stream, venue>>

\* What the DELETE covers when the venue handles it: the listed orders, every
\* order of the account, or every order of the account in the market, whether or
\* not the handler knew of them.
CancelTargets(c) ==
    CASE can[c].scope = "all"    -> Orders
      [] can[c].scope = "market" ->
            {o \in Orders : \E t \in Trades : hash[t] = o /\ MarketOf[t] = can[c].market}
      [] OTHER                   -> can[c].orders

\* The venue cancels some of the covered orders that are still live and lists them.
CancelCall(c) ==
    /\ can[c].pc = "call"
    /\ \E os \in SUBSET {o \in CancelTargets(c) : exOrder[o] = "LIVE"} :
        /\ exOrder' = [o \in Orders |-> IF o \in os THEN "CANCELED" ELSE exOrder[o]]
        /\ can' = [can EXCEPT ![c] = [IdleCan EXCEPT !.pc = "apply", !.canceled = os]]
    /\ UNCHANGED <<row, sub, rec, stream, wire, exFills>>

\* Mutation: every requested cancellation is confirmed, listed by the venue or not.
CancelApply_Unlisted(c) ==
    /\ can[c].pc = "apply"
    /\ status' = [t \in Trades |->
                    IF status[t] = "cancellation_requested" THEN "cancelled" ELSE status[t]]
    /\ can' = [can EXCEPT ![c] = IdleCan]
    /\ UNCHANGED <<hash, orderId, responded, fresh, sub, rec, stream, venue>>

CancelApply(c) ==
    /\ can[c].pc = "apply"
    /\ LET confirmed == {t \in Trades : /\ orderId[t] \in can[c].canceled
                                        /\ status[t] = "cancellation_requested"}
       IN  /\ status' = [t \in Trades |-> IF t \in confirmed THEN "cancelled" ELSE status[t]]
           /\ responded' = [t \in Trades |-> t \in confirmed \/ responded[t]]
    /\ can' = [can EXCEPT ![c] = IdleCan]
    /\ UNCHANGED <<hash, orderId, fresh, sub, rec, stream, venue>>

CancelAbandon(c) ==
    /\ can[c].pc # "idle"
    /\ can' = [can EXCEPT ![c] = IdleCan]
    /\ UNCHANGED <<row, sub, rec, stream, venue>>
-----------------------------------------------------------------------------
(* The user-stream worker.  process_event finds the rows by provider order *)
(* id, stores the event, then updates each row it found by its id.         *)

\* The targets of the events the venue has emitted about order o so far.  Events
\* may be read late, out of order, again, or never.
EventTargets(o) ==
    {TradeStatusOf(x) : x \in UNION {exFills[o][f] : f \in Fills}}
        \cup (IF \E f \in Fills : exFills[o][f] # {} THEN {"partially_filled"} ELSE {})
        \cup (IF exOrder[o] = "CANCELED" THEN {"cancelled"} ELSE {})

StreamRead(t, target) ==
    /\ stream.pc = "idle"
    /\ orderId[t] # None
    /\ target \in EventTargets(orderId[t])
    /\ stream' = [pc |-> "apply", trade |-> t, target |-> target]
    /\ UNCHANGED <<row, sub, rec, can, venue>>

\* apply_event_status.
StreamApply ==
    /\ stream.pc = "apply"
    /\ status' = [status EXCEPT ![stream.trade] =
                    IF @ \in AllowedPrevious(stream.target) THEN stream.target ELSE @]
    /\ stream' = IdleStream
    /\ UNCHANGED <<hash, orderId, responded, fresh, sub, rec, can, venue>>

\* An error drops the connection, or the supervisor aborts the worker.
StreamAbandon ==
    /\ stream.pc = "apply"
    /\ stream' = IdleStream
    /\ UNCHANGED <<row, sub, rec, can, venue>>
-----------------------------------------------------------------------------
(* The venue.  It takes an order once, and answers when it likes, or never *)
(* (SubmitTimeout).  What it answers is true: a 4xx, success = false or    *)
(* "rejected" on arrival means that this request placed nothing, and the   *)
(* word for the status of an order it took was true of the order before.   *)

\* Some fill of the order has gone through status x.
SomeFill(o, x) == \E f \in Fills : x \in exFills[o][f]

VenueAccept(o) ==
    /\ o \in wire
    /\ exOrder[o] = "none"
    /\ wire' = wire \ {o}
    /\ \/ /\ exOrder' = [exOrder EXCEPT ![o] = "LIVE"]
          /\ exFills' = exFills
       \/ \E f \in Fills :
          /\ exOrder' = [exOrder EXCEPT ![o] = "MATCHED"]
          /\ exFills' = [exFills EXCEPT ![o][f] = {"MATCHED"}]
    /\ UNCHANGED <<row, sub, rec, can, stream>>

\* The words that are true of an order the venue has taken.
TrueWords(o) ==
    {"live"}
        \cup {w \in {"matched", "partial"} : SomeFill(o, "MATCHED")}
        \cup {w \in {"mined"} : SomeFill(o, "MINED")}
        \cup {w \in {"retrying"} : SomeFill(o, "RETRYING")}
        \cup {w \in {"confirmed"} : SomeFill(o, "CONFIRMED")}
        \cup {w \in Refusals : exOrder[o] = "INVALID"}

VenueAnswer(s) ==
    /\ sub[s].pc = "wait"
    /\ sub[s].order \notin wire
    /\ exOrder[sub[s].order] # "none"
    /\ \E w \in TrueWords(sub[s].order) :
           sub' = [sub EXCEPT ![s].pc = "finish", ![s].reply = w]
    /\ UNCHANGED <<row, rec, can, stream, venue>>

\* The requests that wait for an answer about o get this one.
Reply(o, kind) ==
    sub' = [s \in Submitters |->
              IF sub[s].pc = "wait" /\ sub[s].order = o
              THEN [sub[s] EXCEPT !.pc = "finish", !.reply = kind] ELSE sub[s]]

VenueRefuse(o) ==
    /\ o \in wire
    /\ wire' = wire \ {o}
    /\ \E kind \in Refusals \cup {"definite"} : Reply(o, kind)
    /\ UNCHANGED <<row, rec, can, stream, exOrder, exFills>>

VenueFill(o, f) ==
    /\ exOrder[o] = "LIVE"
    /\ exFills[o][f] = {}
    /\ exFills' = [exFills EXCEPT ![o][f] = {"MATCHED"}]
    /\ exOrder' \in {exOrder, [exOrder EXCEPT ![o] = "MATCHED"]}
    /\ UNCHANGED <<row, sub, rec, can, stream, wire>>

\* A matched fill is mined and confirmed, or retried and possibly failed.
SettlementSteps(seen) ==
    IF seen = {} \/ seen \cap {"CONFIRMED", "FAILED"} # {} THEN {}
    ELSE ({"MINED", "RETRYING"} \ seen)
            \cup (IF "MINED" \in seen THEN {"CONFIRMED"} ELSE {})
            \cup (IF "RETRYING" \in seen THEN {"FAILED"} ELSE {})

VenueSettle(o, f) ==
    /\ \E x \in SettlementSteps(exFills[o][f]) :
           exFills' = [exFills EXCEPT ![o][f] = @ \cup {x}]
    /\ UNCHANGED <<row, sub, rec, can, stream, wire, exOrder>>

VenueClose(o) ==
    /\ exOrder[o] = "LIVE"
    /\ \E x \in {"CANCELED", "INVALID"} : exOrder' = [exOrder EXCEPT ![o] = x]
    /\ UNCHANGED <<row, sub, rec, can, stream, wire, exFills>>
-----------------------------------------------------------------------------
SubmitStep(s) ==
    \/ SubmitClaim(s) \/ SubmitConflict(s) \/ SubmitPost(s) \/ SubmitUnsent(s)
    \/ SubmitTimeout(s) \/ SubmitFinish(s)

ReconcileStep(r) ==
    \/ ReconcileMark(r) \/ ReconcileOrder(r) \/ ReconcileWrite(r)
    \/ \E f \in Fills : ReconcileTrade(r, f)

CancelStep(c) == CancelMark(c) \/ CancelCall(c) \/ CancelApply(c)

VenueOrder(o) ==
    \/ VenueAccept(o) \/ VenueRefuse(o) \/ VenueClose(o)
    \/ \E f \in Fills : VenueFill(o, f) \/ VenueSettle(o, f)

Venue ==
    (\E s \in Submitters : VenueAnswer(s)) \/ (\E o \in Orders : VenueOrder(o))

Next ==
    \/ \E t \in Trades : CreateIntent(t) \/ Age(t)
    \/ \E s \in Submitters :
        \/ \E t \in Trades, o \in Orders : SubmitRead(s, t, o)
        \/ SubmitStep(s) \/ SubmitAbandon(s)
    \/ \E r \in Reconcilers :
        \/ \E t \in Trades : ReconcileRead(r, t)
        \/ ReconcileStep(r) \/ ReconcileAbandon(r)
    \/ \E c \in Cancellers :
        \/ \E ts \in SUBSET Trades : CancelTrades(c, ts)
        \/ CancelAll(c)
        \/ \E t \in Trades : CancelMarket(c, t)
        \/ CancelStep(c) \/ CancelAbandon(c)
    \/ \E t \in Trades, target \in Statuses : StreamRead(t, target)
    \/ StreamApply \/ StreamAbandon
    \/ Venue

Spec == Init /\ [][Next]_vars
-----------------------------------------------------------------------------
(* Fairness.  Handlers and the worker are polled by the runtime until they *)
(* finish or are dropped, and the HTTP client gives up after 20 s: weak    *)
(* fairness on their steps.  The client of the API keeps asking to         *)
(* reconcile, and not every such request is dropped: strong fairness.      *)
(* Nothing is assumed of the venue or of new submissions.                  *)

LiveSpec ==
    /\ Spec
    /\ \A t \in Trades : WF_vars(Age(t))
    /\ \A s \in Submitters : WF_vars(SubmitStep(s))
    /\ \A r \in Reconcilers :
        /\ WF_vars(ReconcileStep(r))
        /\ SF_vars(ReconcileMark(r))
        /\ SF_vars(ReconcileWrite(r))
        /\ \A t \in Trades : SF_vars(ReconcileRead(r, t))
    /\ WF_vars(StreamApply)
    /\ \A t \in Trades :
        \A target \in {"matched", "mined", "retrying", "filled", "failed", "cancelled"} :
            SF_vars(StreamRead(t, target))
-----------------------------------------------------------------------------
(* Correctness.                                                            *)

RowTypeOK ==
    /\ status \in [Trades -> Statuses \cup {"absent"}]
    /\ hash \in [Trades -> Orders \cup {None}]
    /\ orderId \in [Trades -> Orders \cup {None}]
    /\ responded \in [Trades -> BOOLEAN]
    /\ fresh \in [Trades -> BOOLEAN]

SubRecords ==
    [pc : {"idle", "claim", "post", "wait", "finish"}, trade : Trades \cup {None},
     order : Orders \cup {None}, reply : Replies \cup {None}]

SubTypeOK ==
    /\ sub \in [Submitters -> SubRecords]
    /\ \A s \in Submitters :
        /\ sub[s].pc # "idle" => sub[s].trade \in Trades /\ sub[s].order \in Orders
        /\ sub[s].pc = "finish" => sub[s].reply \in Replies

RecRecords ==
    [pc : {"idle", "mark", "order", "trades"}, trade : Trades \cup {None},
     order : Orders \cup {None}, found : OrderStatus \cup {None},
     todo : SUBSET Fills, got : SUBSET FillStatus]

RecTypeOK ==
    /\ rec \in [Reconcilers -> RecRecords]
    /\ \A r \in Reconcilers :
        /\ rec[r].pc # "idle" => rec[r].trade \in Trades
        /\ rec[r].pc \in {"order", "trades"} => rec[r].order \in Orders
        /\ rec[r].pc = "trades" => rec[r].found \in OrderStatus

CanRecords ==
    [pc : {"idle", "mark", "call", "apply"}, scope : {None, "trades", "all", "market"},
     trades : SUBSET Trades, orders : SUBSET Orders,
     market : {None} \cup {MarketOf[t] : t \in Trades}, canceled : SUBSET Orders]

CanTypeOK == can \in [Cancellers -> CanRecords]

StreamTypeOK ==
    /\ stream \in [pc : {"idle", "apply"}, trade : Trades \cup {None},
                   target : Statuses \cup {None}]
    /\ stream.pc = "apply" => stream.trade \in Trades /\ stream.target \in Statuses

VenueTypeOK ==
    /\ wire \subseteq Orders
    /\ exOrder \in [Orders -> OrderStatus]
    /\ exFills \in [Orders -> [Fills -> SUBSET FillStatus]]

\* The shape of every row, request and venue record.
TypeOK ==
    RowTypeOK /\ SubTypeOK /\ RecTypeOK /\ CanTypeOK /\ StreamTypeOK /\ VenueTypeOK

\* A signed order reaches the venue only on behalf of one trade that durably
\* recorded its hash before, and that is not presented as still unsigned
\* (claim_submission runs before the POST; a crash may come in between).
OrdersAreClaimed ==
    \A o \in Orders : (o \in wire \/ exOrder[o] # "none") =>
        \E t \in Trades :
            /\ hash[t] = o
            /\ status[t] \notin {"absent", "pending_signature"}
            /\ \A u \in Trades \ {t} : hash[u] # o

\* A trade never submits two different orders: once bound to a signed order it
\* stays bound to it, whatever handlers of either order are in flight.
OrderBinding ==
    [][\A t \in Trades : hash[t] # None => hash'[t] = hash[t]]_vars

\* A request is about to be posted only if the venue does not have the order and
\* is not being sent it, unless a fill of it has failed: a lost answer, a timeout
\* or a crash never leads to a blind second POST.
NoBlindRepost ==
    \A s \in Submitters : sub[s].pc = "post" =>
        \/ exOrder[sub[s].order] = "none" /\ sub[s].order \notin wire
        \/ SomeFill(sub[s].order, "FAILED")

\* The terminal statuses say what happened at the venue: filled means a confirmed
\* fill, cancelled a cancelled order, and failed or rejected that nothing is on its
\* way and the order was not taken, was voided, or saw a fill fail.
TerminalIsTrue ==
    \A t \in Trades :
        /\ status[t] = "filled" => SomeFill(hash[t], "CONFIRMED")
        /\ status[t] = "cancelled" => exOrder[hash[t]] = "CANCELED"
        /\ status[t] \in {"failed", "rejected"} =>
            \/ exOrder[hash[t]] = "none" /\ hash[t] \notin wire
            \/ exOrder[hash[t]] = "INVALID"
            \/ SomeFill(hash[t], "FAILED")

\* A provider order id on a row is the id of the row's own signed order: no handler
\* of an earlier claim can attach a foreign id.  The venue has that order, or it has
\* refused it and the row says so; only a reconciliation that was under way may make
\* that unknown again.
OrderIdIsOwn ==
    \A t \in Trades : orderId[t] # None =>
        /\ orderId[t] = hash[t]
        /\ \/ exOrder[hash[t]] # "none"
           \/ status[t] \in {"rejected", "reconciliation_required"}

\* Submission implements the abstract placement: binding is a claim, placing is
\* the venue taking the order, everything else is invisible.
Placement == INSTANCE OrderPlacement
    WITH bound <- hash, placed <- {o \in Orders : exOrder[o] # "none"}
PlacementSpec == Placement!Spec

\* A trade whose submitting request died is not wedged: reconcile gets it out of
\* submitting once the 30 s window is over.
NeverWedged ==
    \A t \in Trades : status[t] = "submitting" ~> status[t] # "submitting"

\* What reconcile's "terminal trades cannot be reconciled" says: a trade that is
\* filled or cancelled keeps its status.
TerminalIsFinal ==
    [][\A t \in Trades : status[t] \in {"filled", "cancelled"} => status'[t] = status[t]]_vars

\* The trade has reached the end of its way, and no reconciliation has it in hand.
Settled(t) ==
    /\ status[t] \in {"filled", "cancelled", "rejected"}
    /\ \A r \in Reconcilers : rec[r].pc # "idle" => rec[r].trade # t

\* It is only a reconciliation that was under way which reopens a trade: without one,
\* a trade that is filled, cancelled or rejected stays so, whatever the submissions,
\* the cancellations and the worker still hold of it, and none will be started.
SettledStays ==
    [][\A t \in Trades : Settled(t) => Settled(t)' /\ status'[t] = status[t]]_vars

\* What reconcile tells the user of a trade with no provider order id, "await the
\* user stream": once the venue has confirmed a fill, the stream resolves it.
StreamResolvesUnknown ==
    \A t \in Trades :
        (/\ status[t] = "reconciliation_required"
         /\ orderId[t] = None
         /\ SomeFill(hash[t], "CONFIRMED"))
            ~> status[t] # "reconciliation_required"
-----------------------------------------------------------------------------
(* The inductive invariant behind the safety properties.                   *)

\* A request that has claimed its trade and not finished.
InFlight(s) == sub[s].pc \in {"post", "wait", "finish"}

Untaken(o) == exOrder[o] = "none" /\ o \notin wire

\* A row has a hash once it has left pending_signature, and its own.
RowBinding ==
    \A t \in Trades :
        /\ hash[t] # None <=> status[t] \notin {"absent", "pending_signature"}
        /\ \A u \in Trades \ {t} : hash[t] # None => hash[u] # hash[t]

\* The venue hears only of orders some row is bound to.
VenueBinding == \A o \in Orders : ~Untaken(o) => \E t \in Trades : hash[t] = o

\* A request in flight, a reconciliation and the worker act on bound rows.
SubBinding == \A s \in Submitters : InFlight(s) => hash[sub[s].trade] = sub[s].order

RecBinding ==
    \A r \in Reconcilers :
        /\ rec[r].pc # "idle" => hash[rec[r].trade] # None
        /\ rec[r].pc \in {"order", "trades"} => hash[rec[r].trade] = rec[r].order
        /\ rec[r].pc = "trades" => exOrder[rec[r].order] # "none"

StreamBinding ==
    stream.pc = "apply" => hash[stream.trade] # None /\ exOrder[hash[stream.trade]] # "none"

BindingInv == RowBinding /\ VenueBinding /\ SubBinding /\ RecBinding /\ StreamBinding

\* A positive answer comes from a venue that has the order, and is true of it.
ReplyTruth ==
    \A s \in Submitters : sub[s].pc = "finish" =>
        /\ sub[s].reply \in Answered \ Refusals => exOrder[sub[s].order] # "none"
        /\ sub[s].reply = "confirmed" => SomeFill(sub[s].order, "CONFIRMED")

\* What is about to be posted, or was refused, has not been taken, or was voided.
NothingTaken(s) ==
    /\ sub[s].pc = "post" => Untaken(sub[s].order)
    /\ sub[s].pc = "finish" /\ sub[s].reply = "definite" => Untaken(sub[s].order)
    /\ sub[s].pc = "finish" /\ sub[s].reply \in Refusals
         => Untaken(sub[s].order) \/ exOrder[sub[s].order] = "INVALID"

\* Unless a fill failed, at most one request per trade is in flight, and its row
\* cannot be claimed again.
Exclusive(s) ==
    /\ \A q \in Submitters \ {s} : InFlight(q) => sub[q].trade # sub[s].trade
    /\ status[sub[s].trade] # "failed"
    /\ status[sub[s].trade] = "rejected" => exOrder[sub[s].order] = "INVALID"
    /\ NothingTaken(s)

SubExclusive ==
    \A s \in Submitters : InFlight(s) => SomeFill(sub[s].order, "FAILED") \/ Exclusive(s)

\* The venue is asked again only for an order of which a fill failed.
WireOnce == \A o \in wire : exOrder[o] = "none" \/ SomeFill(o, "FAILED")

NoFillBeforeOrder ==
    \A o \in Orders : exOrder[o] = "none" => \A f \in Fills : exFills[o][f] = {}

ExclusionInv == SubExclusive /\ WireOnce /\ NoFillBeforeOrder

\* What the worker and the handlers hold about the venue was true and stays true.
StreamTruth ==
    stream.pc = "apply" =>
        /\ stream.target \notin {"absent", "pending_signature", "rejected"}
        /\ stream.target = "filled" => SomeFill(hash[stream.trade], "CONFIRMED")
        /\ stream.target = "failed" => SomeFill(hash[stream.trade], "FAILED")
        /\ stream.target = "cancelled" => exOrder[hash[stream.trade]] = "CANCELED"

RecTruth ==
    \A r \in Reconcilers :
        /\ rec[r].pc \in {"order", "trades"} =>
            \A x \in rec[r].got : SomeFill(rec[r].order, x)
        /\ rec[r].pc = "trades" /\ rec[r].found \in {"CANCELED", "INVALID"} =>
            exOrder[rec[r].order] = rec[r].found

CanTruth == \A c \in Cancellers : \A o \in can[c].canceled : exOrder[o] = "CANCELED"

\* What may be written on the row of t; more than TerminalIsTrue says of failed.
StatusTruth(t, st) ==
    /\ st = "filled" => SomeFill(hash[t], "CONFIRMED")
    /\ st = "cancelled" => exOrder[hash[t]] = "CANCELED"
    /\ st = "failed" => Untaken(hash[t]) \/ SomeFill(hash[t], "FAILED")
    /\ st = "rejected" =>
        Untaken(hash[t]) \/ exOrder[hash[t]] = "INVALID" \/ SomeFill(hash[t], "FAILED")

RowTruth == \A t \in Trades : StatusTruth(t, status[t])

TruthInv == RowTruth /\ StreamTruth /\ RecTruth /\ CanTruth

SafetyInv == BindingInv /\ OrderIdIsOwn /\ ReplyTruth /\ ExclusionInv /\ TruthInv
=============================================================================
