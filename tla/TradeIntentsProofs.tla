-------------------------- MODULE TradeIntentsProofs --------------------------
(***************************************************************************)
(* Proofs about TradeIntents for any sets of trades, orders, fills and     *)
(* handlers: every state is well typed; and PlacementInv is an inductive   *)
(* invariant that says which orders belong to which trades.  The           *)
(* properties of bindings and order ids follow from it, and so does the    *)
(* refinement of OrderPlacement.  At the end: what is settled stays so.    *)
(***************************************************************************)
EXTENDS TradeIntents, TLAPS

(* What the status maps of the code return.                                *)

LEMMA OutcomeType ==
    ASSUME NEW reply \in Replies
    PROVE  SubmissionOutcome(reply) \in Statuses
  BY DEF Replies, Answered, Refusals, SubmissionOutcome, Statuses

LEMMA ReconciledType ==
    ASSUME NEW order, NEW fills \in SUBSET FillStatus
    PROVE  ReconciledStatus(order, fills) \in Statuses
  BY DEF ReconciledStatus, Statuses, FillStatus

LEMMA LatestType ==
    ASSUME NEW seen \in SUBSET FillStatus
    PROVE  Latest(seen) \subseteq seen
  BY DEF Latest

-----------------------------------------------------------------------------
(* The parts of the type invariant depend on their own variables only.     *)

LEMMA RowStutter == ASSUME RowTypeOK, UNCHANGED row PROVE RowTypeOK'
  BY DEF RowTypeOK, row
LEMMA SubStutter == ASSUME SubTypeOK, UNCHANGED sub PROVE SubTypeOK'
  BY DEF SubTypeOK
LEMMA RecStutter == ASSUME RecTypeOK, UNCHANGED rec PROVE RecTypeOK'
  BY DEF RecTypeOK
LEMMA CanStutter == ASSUME CanTypeOK, UNCHANGED can PROVE CanTypeOK'
  BY DEF CanTypeOK
LEMMA StreamStutter == ASSUME StreamTypeOK, UNCHANGED stream PROVE StreamTypeOK'
  BY DEF StreamTypeOK
LEMMA VenueStutter == ASSUME VenueTypeOK, UNCHANGED venue PROVE VenueTypeOK'
  BY DEF VenueTypeOK, venue

\* A well-formed record put into a handler's slot keeps the slots well formed.
LEMMA SubUpdate ==
    ASSUME SubTypeOK, NEW s \in Submitters, NEW e \in SubRecords,
           e.pc # "idle" => e.trade \in Trades /\ e.order \in Orders,
           e.pc = "finish" => e.reply \in Replies,
           sub' = [sub EXCEPT ![s] = e]
    PROVE  SubTypeOK'
  BY DEF SubTypeOK

LEMMA RecUpdate ==
    ASSUME RecTypeOK, NEW r \in Reconcilers, NEW e \in RecRecords,
           e.pc # "idle" => e.trade \in Trades,
           e.pc \in {"order", "trades"} => e.order \in Orders,
           e.pc = "trades" => e.found \in OrderStatus,
           rec' = [rec EXCEPT ![r] = e]
    PROVE  RecTypeOK'
  BY DEF RecTypeOK

LEMMA CanUpdate ==
    ASSUME CanTypeOK, NEW c \in Cancellers, NEW e \in CanRecords,
           can' = [can EXCEPT ![c] = e]
    PROVE  CanTypeOK'
  BY DEF CanTypeOK

LEMMA IdleRecords ==
    /\ IdleSub \in SubRecords /\ IdleSub.pc = "idle"
    /\ IdleRec \in RecRecords /\ IdleRec.pc = "idle"
    /\ IdleCan \in CanRecords /\ IdleCan.pc = "idle"
  BY DEF IdleSub, IdleRec, IdleCan, SubRecords, RecRecords, CanRecords
-----------------------------------------------------------------------------
LEMMA InitTypeOK == Init => TypeOK
  BY IdleRecords DEF Init, TypeOK, RowTypeOK, SubTypeOK, RecTypeOK, CanTypeOK,
     StreamTypeOK, VenueTypeOK, IdleStream, OrderStatus

LEMMA SubmitReadTypeOK ==
    ASSUME SubTypeOK, NEW s \in Submitters, NEW t \in Trades, NEW o \in Orders,
           SubmitRead(s, t, o)
    PROVE  SubTypeOK'
  <1> DEFINE e == [pc |-> "claim", trade |-> t, order |-> o, reply |-> None]
  <1>1. e \in SubRecords
    BY DEF SubRecords
  <1> QED
    BY <1>1, SubUpdate DEF SubmitRead

LEMMA SubmitStepTypeOK ==
    ASSUME SubTypeOK, NEW s \in Submitters, SubmitStep(s) \/ SubmitAbandon(s)
    PROVE  SubTypeOK'
  <1>1. CASE UNCHANGED sub
    BY <1>1, SubStutter
  <1>2. CASE sub' = [sub EXCEPT ![s] = IdleSub]
    BY <1>2, SubUpdate, IdleRecords
  <1>3. ASSUME NEW pc \in {"post", "wait"}, sub[s].pc \in {"claim", "post"},
               sub' = [sub EXCEPT ![s].pc = pc]
        PROVE  SubTypeOK'
    <2> DEFINE e == [sub[s] EXCEPT !.pc = pc]
    <2>1. e \in SubRecords /\ e.pc = pc /\ e.trade \in Trades /\ e.order \in Orders
      BY <1>3 DEF SubTypeOK, SubRecords
    <2>2. sub' = [sub EXCEPT ![s] = e]
      BY <1>3 DEF SubTypeOK
    <2> QED
      BY <2>1, <2>2, SubUpdate
  <1>4. ASSUME NEW reply \in Replies, sub[s].pc \in {"post", "wait"},
               sub' = [sub EXCEPT ![s].pc = "finish", ![s].reply = reply]
        PROVE  SubTypeOK'
    <2> DEFINE e == [sub[s] EXCEPT !.pc = "finish", !.reply = reply]
    <2>1. /\ e \in SubRecords /\ e.trade \in Trades /\ e.order \in Orders
          /\ e.reply \in Replies
      BY <1>4 DEF SubTypeOK, SubRecords
    <2>2. sub' = [sub EXCEPT ![s] = e]
      BY <1>4 DEF SubTypeOK, SubRecords
    <2> QED
      BY <2>1, <2>2, SubUpdate
  <1>5. "definite" \in Replies /\ "ambiguous" \in Replies
    BY DEF Replies
  <1> QED
    BY <1>1, <1>2, <1>3, <1>4, <1>5 DEF SubmitStep, SubmitClaim, SubmitConflict,
       SubmitPost, SubmitUnsent, SubmitTimeout, SubmitFinish, SubmitAbandon
LEMMA SubmitTypeOK ==
    ASSUME TypeOK, NEW s \in Submitters,
           SubmitStep(s) \/ SubmitAbandon(s) \/
           \E t \in Trades, o \in Orders : SubmitRead(s, t, o)
    PROVE  TypeOK'
  <1>1. SubTypeOK'
    BY SubmitReadTypeOK, SubmitStepTypeOK DEF TypeOK
  <1>2. RowTypeOK'
    <2>1. CASE UNCHANGED row
      BY <2>1, RowStutter DEF TypeOK
    <2>2. CASE SubmitClaim(s)
      BY <2>2 DEF SubmitClaim, TypeOK, RowTypeOK, SubTypeOK, Statuses
    <2>3. CASE SubmitFinish(s)
      <3>1. sub[s].trade \in Trades /\ sub[s].order \in Orders
        BY <2>3 DEF SubmitFinish, TypeOK, SubTypeOK
      <3>2. SubmissionOutcome(sub[s].reply) \in Statuses
        BY <2>3, OutcomeType DEF SubmitFinish, TypeOK, SubTypeOK
      <3> QED
        BY <2>3, <3>1, <3>2 DEF SubmitFinish, TypeOK, RowTypeOK, ReturnedIds, row
    <2> QED
      BY <2>1, <2>2, <2>3 DEF SubmitStep, SubmitRead, SubmitConflict, SubmitPost,
         SubmitUnsent, SubmitTimeout, SubmitAbandon
  <1>3. VenueTypeOK'
    <2>1. CASE SubmitPost(s)
      BY <2>1 DEF SubmitPost, TypeOK, VenueTypeOK, SubTypeOK
    <2>2. CASE UNCHANGED venue
      BY <2>2, VenueStutter DEF TypeOK
    <2> QED
      BY <2>1, <2>2 DEF SubmitStep, SubmitRead, SubmitClaim, SubmitConflict,
         SubmitUnsent, SubmitTimeout, SubmitFinish, SubmitAbandon
  <1>4. UNCHANGED <<rec, can, stream>>
    BY DEF SubmitStep, SubmitRead, SubmitClaim, SubmitConflict, SubmitPost,
       SubmitUnsent, SubmitTimeout, SubmitFinish, SubmitAbandon
  <1> QED
    BY <1>1, <1>2, <1>3, <1>4, RecStutter, CanStutter, StreamStutter DEF TypeOK

LEMMA ReconcileTypeOK ==
    ASSUME TypeOK, NEW r \in Reconcilers,
           ReconcileStep(r) \/ ReconcileAbandon(r) \/
           \E t \in Trades : ReconcileRead(r, t)
    PROVE  TypeOK'
  <1>1. UNCHANGED <<sub, can, stream, venue>>
    BY DEF ReconcileStep, ReconcileRead, ReconcileMark, ReconcileOrder,
       ReconcileTrade, ReconcileWrite, ReconcileAbandon
  <1>2. RowTypeOK'
    <2>1. CASE ReconcileMark(r)
      BY <2>1 DEF ReconcileMark, TypeOK, RowTypeOK, Statuses
    <2>2. CASE ReconcileWrite(r)
      <3>1. ReconciledStatus(rec[r].found, rec[r].got) \in Statuses
        BY ReconciledType DEF TypeOK, RecTypeOK, RecRecords
      <3> QED
        BY <2>2, <3>1 DEF ReconcileWrite, TypeOK, RowTypeOK
    <2>3. CASE UNCHANGED row
      BY <2>3, RowStutter DEF TypeOK
    <2> QED
      BY <2>1, <2>2, <2>3 DEF ReconcileStep, ReconcileRead, ReconcileOrder,
         ReconcileTrade, ReconcileAbandon
  <1>3. RecTypeOK'
    <2>1. CASE rec' = [rec EXCEPT ![r] = IdleRec]
      BY <2>1, RecUpdate, IdleRecords DEF TypeOK
    <2>2. ASSUME NEW t \in Trades, ReconcileRead(r, t)
          PROVE  RecTypeOK'
      <3>1. CASE orderId[t] = None
        <4> DEFINE e == [IdleRec EXCEPT !.pc = "mark", !.trade = t]
        <4>1. e \in RecRecords /\ e.pc = "mark" /\ e.trade \in Trades
          BY DEF IdleRec, RecRecords
        <4> QED
          BY <2>2, <3>1, <4>1, RecUpdate DEF ReconcileRead, TypeOK
      <3>2. CASE orderId[t] # None
        <4> DEFINE e == [IdleRec EXCEPT !.pc = "order", !.trade = t, !.order = orderId[t]]
        <4>1. orderId[t] \in Orders
          BY <3>2 DEF TypeOK, RowTypeOK
        <4>2. /\ e \in RecRecords /\ e.pc = "order" /\ e.trade \in Trades
              /\ e.order \in Orders
          BY <4>1 DEF IdleRec, RecRecords
        <4> QED
          BY <2>2, <3>2, <4>2, RecUpdate DEF ReconcileRead, TypeOK
      <3> QED
        BY <3>1, <3>2
    <2>3. CASE ReconcileOrder(r) /\ rec' # [rec EXCEPT ![r] = IdleRec]
      <3> DEFINE o == rec[r].order
                 e == [rec[r] EXCEPT !.pc = "trades", !.found = exOrder[o],
                          !.todo = {f \in Fills : exFills[o][f] # {}}]
      <3>1. /\ rec[r] \in RecRecords /\ rec[r].trade \in Trades /\ o \in Orders
            /\ exOrder[o] \in OrderStatus
        BY <2>3 DEF ReconcileOrder, TypeOK, RecTypeOK, VenueTypeOK
      <3>2. /\ e \in RecRecords /\ e.trade \in Trades /\ e.order \in Orders
            /\ e.found \in OrderStatus
        BY <3>1 DEF RecRecords
      <3>3. rec' = [rec EXCEPT ![r] = e]
        BY <2>3, <3>1 DEF ReconcileOrder, RecRecords, TypeOK, RecTypeOK
      <3> QED
        BY <3>2, <3>3, RecUpdate DEF TypeOK
    <2>4. ASSUME NEW f \in Fills, ReconcileTrade(r, f)
          PROVE  RecTypeOK'
      <3>1. PICK x \in Latest(exFills[rec[r].order][f]) :
                rec' = [rec EXCEPT ![r].todo = @ \ {f}, ![r].got = @ \cup {x}]
        BY <2>4 DEF ReconcileTrade
      <3>2. /\ rec[r] \in RecRecords /\ rec[r].pc = "trades" /\ rec[r].trade \in Trades
            /\ rec[r].order \in Orders /\ rec[r].found \in OrderStatus
        BY <2>4 DEF ReconcileTrade, TypeOK, RecTypeOK
      <3>3. x \in FillStatus
        BY <3>1, <3>2, LatestType DEF TypeOK, VenueTypeOK
      <3> DEFINE e == [rec[r] EXCEPT !.todo = @ \ {f}, !.got = @ \cup {x}]
      <3>4. /\ e \in RecRecords /\ e.trade \in Trades /\ e.order \in Orders
            /\ e.found \in OrderStatus
        BY <3>2, <3>3 DEF RecRecords
      <3>5. rec' = [rec EXCEPT ![r] = e]
        BY <3>1, <3>2 DEF RecRecords, TypeOK, RecTypeOK
      <3> QED
        BY <3>4, <3>5, RecUpdate DEF TypeOK
    <2> QED
      BY <2>1, <2>2, <2>3, <2>4 DEF ReconcileStep, ReconcileMark, ReconcileWrite,
         ReconcileAbandon
  <1> QED
    BY <1>1, <1>2, <1>3, SubStutter, CanStutter, StreamStutter, VenueStutter DEF TypeOK
LEMMA CancelTypeOK ==
    ASSUME TypeOK, NEW c \in Cancellers,
           \/ \E ts \in SUBSET Trades : CancelTrades(c, ts)
           \/ CancelAll(c)
           \/ \E t \in Trades : CancelMarket(c, t)
           \/ CancelStep(c)
           \/ CancelAbandon(c)
    PROVE  TypeOK'
  <1>1. /\ RowTypeOK /\ CanTypeOK /\ VenueTypeOK
        /\ can[c] \in CanRecords
    BY DEF TypeOK, CanTypeOK
  <1>2. ASSUME NEW scope \in {"trades", "all", "market"}, NEW ts \in SUBSET Trades,
               NEW os \in SUBSET Orders,
               NEW market \in {None} \cup {MarketOf[t] : t \in Trades},
               CancelStart(c, scope, ts, os, market)
        PROVE  CanTypeOK' /\ UNCHANGED <<row, sub, rec, stream, venue>>
    <2> DEFINE e == [pc |-> "mark", scope |-> scope, trades |-> ts, orders |-> os,
                     market |-> market, canceled |-> {}]
    <2>1. e \in CanRecords
      BY DEF CanRecords
    <2> QED
      BY <1>1, <1>2, <2>1, CanUpdate DEF CancelStart
  <1>3. CASE \E ts \in SUBSET Trades : CancelTrades(c, ts)
    <2>1. PICK ts \in SUBSET Trades : CancelTrades(c, ts)
      BY <1>3
    <2> DEFINE os == {orderId[t] : t \in {u \in ts : status[u] # "cancelled"}}
    <2>2. os \in SUBSET Orders
      BY <2>1, <1>1 DEF CancelTrades, RowTypeOK
    <2>3. CancelStart(c, "trades", ts, os, None)
      BY <2>1 DEF CancelTrades
    <2> QED
      BY <1>2, <2>2, <2>3, RowStutter, SubStutter, RecStutter, StreamStutter,
         VenueStutter DEF TypeOK
  <1>4. CASE CancelAll(c)
    <2>1. CancelStart(c, "all", BulkCancellable, {}, None) /\ BulkCancellable \in SUBSET Trades
      BY <1>4 DEF CancelAll, BulkCancellable
    <2> QED
      BY <1>2, <2>1, RowStutter, SubStutter, RecStutter, StreamStutter, VenueStutter
      DEF TypeOK
  <1>5. ASSUME NEW t \in Trades, CancelMarket(c, t)
        PROVE  TypeOK'
    <2> DEFINE ts == {u \in BulkCancellable : MarketOf[u] = MarketOf[t]}
    <2>1. ts \in SUBSET Trades /\ CancelStart(c, "market", ts, {}, MarketOf[t])
      BY <1>5 DEF CancelMarket, BulkCancellable
    <2> QED
      BY <1>2, <2>1, RowStutter, SubStutter, RecStutter, StreamStutter, VenueStutter
      DEF TypeOK
  <1>6. CASE CancelMark(c)
    <2> DEFINE e == [can[c] EXCEPT !.pc = "call", !.trades = {}]
    <2>1. e \in CanRecords /\ can' = [can EXCEPT ![c] = e]
      BY <1>1, <1>6 DEF CancelMark, CanRecords, CanTypeOK
    <2>2. RowTypeOK'
      BY <1>1, <1>6 DEF CancelMark, RowTypeOK, Statuses
    <2>3. UNCHANGED <<sub, rec, stream, venue>>
      BY <1>6 DEF CancelMark
    <2> QED
      BY <1>1, <2>1, <2>2, <2>3, CanUpdate, SubStutter, RecStutter, StreamStutter,
         VenueStutter DEF TypeOK
  <1>7. CASE CancelCall(c)
    <2>1. PICK os \in SUBSET {o \in CancelTargets(c) : exOrder[o] = "LIVE"} :
              /\ exOrder' = [o \in Orders |-> IF o \in os THEN "CANCELED" ELSE exOrder[o]]
              /\ can' = [can EXCEPT ![c] = [IdleCan EXCEPT !.pc = "apply", !.canceled = os]]
      BY <1>7 DEF CancelCall
    <2> DEFINE e == [IdleCan EXCEPT !.pc = "apply", !.canceled = os]
    <2>2. CancelTargets(c) \subseteq Orders
      BY <1>1 DEF CancelTargets, CanRecords
    <2>3. os \in SUBSET Orders
      BY <1>7, <2>1, <2>2 DEF CancelCall
    <2>4. e \in CanRecords /\ can' = [can EXCEPT ![c] = e]
      BY <1>1, <2>1, <2>3 DEF CanRecords, CanTypeOK, IdleCan
    <2>5. VenueTypeOK'
      BY <1>1, <1>7, <2>1 DEF CancelCall, VenueTypeOK, OrderStatus
    <2>6. UNCHANGED <<row, sub, rec, stream>>
      BY <1>7 DEF CancelCall
    <2> QED
      BY <1>1, <2>4, <2>5, <2>6, CanUpdate, RowStutter, SubStutter, RecStutter,
         StreamStutter DEF TypeOK
  <1>8. CASE CancelApply(c)
    <2>1. CanTypeOK'
      BY <1>1, <1>8, CanUpdate, IdleRecords DEF CancelApply
    <2>2. RowTypeOK'
      BY <1>1, <1>8 DEF CancelApply, RowTypeOK, Statuses
    <2>3. UNCHANGED <<sub, rec, stream, venue>>
      BY <1>8 DEF CancelApply
    <2> QED
      BY <2>1, <2>2, <2>3, SubStutter, RecStutter, StreamStutter, VenueStutter DEF TypeOK
  <1>9. CASE CancelAbandon(c)
    <2>1. CanTypeOK' /\ UNCHANGED <<row, sub, rec, stream, venue>>
      BY <1>1, <1>9, CanUpdate, IdleRecords DEF CancelAbandon
    <2> QED
      BY <2>1, RowStutter, SubStutter, RecStutter, StreamStutter, VenueStutter DEF TypeOK
  <1> QED
    BY <1>3, <1>4, <1>5, <1>6, <1>7, <1>8, <1>9 DEF CancelStep
LEMMA StreamTypePreserved ==
    ASSUME TypeOK,
           \/ \E t \in Trades, target \in Statuses : StreamRead(t, target)
           \/ StreamApply
           \/ StreamAbandon
    PROVE  TypeOK'
  <1>1. UNCHANGED <<sub, rec, can, venue>>
    BY DEF StreamRead, StreamApply, StreamAbandon
  <1>2. RowTypeOK'
    <2>1. CASE StreamApply
      BY <2>1 DEF StreamApply, TypeOK, RowTypeOK, StreamTypeOK
    <2>2. CASE UNCHANGED row
      BY <2>2, RowStutter DEF TypeOK
    <2> QED
      BY <2>1, <2>2 DEF StreamRead, StreamAbandon
  <1>3. StreamTypeOK'
    BY DEF StreamRead, StreamApply, StreamAbandon, StreamTypeOK, IdleStream
  <1> QED
    BY <1>1, <1>2, <1>3, SubStutter, RecStutter, CanStutter, VenueStutter DEF TypeOK

\* An answer reaches every request that waits for it.
LEMMA ReplyTypeOK ==
    ASSUME SubTypeOK, NEW o \in Orders, NEW kind \in Replies, Reply(o, kind)
    PROVE  SubTypeOK'
  <1>1. ASSUME NEW s \in Submitters, sub[s].pc = "wait"
        PROVE  /\ [sub[s] EXCEPT !.pc = "finish", !.reply = kind] \in SubRecords
               /\ [sub[s] EXCEPT !.pc = "finish", !.reply = kind].trade = sub[s].trade
               /\ [sub[s] EXCEPT !.pc = "finish", !.reply = kind].order = sub[s].order
               /\ [sub[s] EXCEPT !.pc = "finish", !.reply = kind].reply = kind
    BY <1>1 DEF SubTypeOK, SubRecords
  <1> QED
    BY <1>1 DEF Reply, SubTypeOK

LEMMA TrueWordsAnswer ==
    ASSUME NEW o
    PROVE  TrueWords(o) \subseteq Answered
  BY DEF TrueWords, Answered, Refusals

LEMMA AnswerTypeOK ==
    ASSUME TypeOK, NEW s \in Submitters, VenueAnswer(s)
    PROVE  TypeOK'
  <1>1. PICK w \in TrueWords(sub[s].order) :
            sub' = [sub EXCEPT ![s].pc = "finish", ![s].reply = w]
    BY DEF VenueAnswer
  <1>2. w \in Replies
    BY <1>1, TrueWordsAnswer DEF Replies
  <1>3. sub[s] \in SubRecords /\ sub[s].trade \in Trades /\ sub[s].order \in Orders
    BY DEF VenueAnswer, TypeOK, SubTypeOK
  <1> DEFINE e == [sub[s] EXCEPT !.pc = "finish", !.reply = w]
  <1>4. e \in SubRecords /\ e.trade \in Trades /\ e.order \in Orders /\ e.reply \in Replies
    BY <1>2, <1>3 DEF SubRecords
  <1>5. sub' = [sub EXCEPT ![s] = e]
    BY <1>1, <1>3 DEF SubRecords, TypeOK, SubTypeOK
  <1>6. SubTypeOK'
    BY <1>4, <1>5, SubUpdate DEF TypeOK
  <1>7. UNCHANGED <<row, rec, can, stream, venue>>
    BY DEF VenueAnswer
  <1> QED
    BY <1>6, <1>7, RowStutter, RecStutter, CanStutter, StreamStutter, VenueStutter
    DEF TypeOK

LEMMA SettlementType ==
    ASSUME NEW seen \in SUBSET FillStatus
    PROVE  SettlementSteps(seen) \subseteq FillStatus
  BY DEF SettlementSteps, FillStatus

LEMMA VenueOrderTypeOK ==
    ASSUME TypeOK, NEW o \in Orders, VenueOrder(o)
    PROVE  TypeOK'
  <1>0. SubTypeOK /\ VenueTypeOK
    BY DEF TypeOK
  <1>1. UNCHANGED <<row, rec, can, stream>>
    BY DEF VenueOrder, VenueAccept, VenueRefuse, VenueFill, VenueSettle, VenueClose
  <1>2. \/ VenueAccept(o) \/ VenueRefuse(o) \/ VenueClose(o)
        \/ \E f \in Fills : VenueFill(o, f) \/ VenueSettle(o, f)
    BY DEF VenueOrder
  <1>3. SubTypeOK'
    <2>1. Refusals \cup {"definite"} \subseteq Replies
      BY DEF Replies, Answered
    <2>3. CASE VenueRefuse(o)
      BY <1>0, <2>1, <2>3, ReplyTypeOK DEF VenueRefuse
    <2>4. CASE UNCHANGED sub
      BY <1>0, <2>4, SubStutter
    <2> QED
      BY <1>2, <2>3, <2>4 DEF VenueAccept, VenueFill, VenueSettle, VenueClose
  <1>4. VenueTypeOK'
    <2>1. CASE VenueAccept(o)
      <3>1. wire' \subseteq Orders /\ exOrder' \in [Orders -> OrderStatus]
        BY <1>0, <2>1 DEF VenueAccept, VenueTypeOK, OrderStatus
      <3>2. \/ exFills' = exFills
            \/ \E f \in Fills : exFills' = [exFills EXCEPT ![o][f] = {"MATCHED"}]
        BY <2>1 DEF VenueAccept
      <3>3. exFills' \in [Orders -> [Fills -> SUBSET FillStatus]]
        BY <1>0, <3>2 DEF VenueTypeOK, FillStatus
      <3> QED
        BY <3>1, <3>3 DEF VenueTypeOK
    <2>2. CASE VenueRefuse(o)
      BY <1>0, <2>2 DEF VenueRefuse, VenueTypeOK
    <2>3. CASE VenueClose(o)
      BY <1>0, <2>3 DEF VenueClose, VenueTypeOK, OrderStatus
    <2>4. ASSUME NEW f \in Fills, VenueFill(o, f)
          PROVE  VenueTypeOK'
      <3>1. exOrder' \in [Orders -> OrderStatus]
        BY <1>0, <2>4 DEF VenueFill, VenueTypeOK, OrderStatus
      <3>2. exFills' \in [Orders -> [Fills -> SUBSET FillStatus]]
        BY <1>0, <2>4 DEF VenueFill, VenueTypeOK, FillStatus
      <3> QED
        BY <1>0, <2>4, <3>1, <3>2 DEF VenueFill, VenueTypeOK
    <2>5. ASSUME NEW f \in Fills, VenueSettle(o, f)
          PROVE  VenueTypeOK'
      <3>1. PICK x \in SettlementSteps(exFills[o][f]) :
                exFills' = [exFills EXCEPT ![o][f] = @ \cup {x}]
        BY <2>5 DEF VenueSettle
      <3>2. x \in FillStatus
        BY <1>0, <3>1, SettlementType DEF VenueTypeOK
      <3> QED
        BY <1>0, <2>5, <3>1, <3>2 DEF VenueSettle, VenueTypeOK
    <2> QED
      BY <1>2, <2>1, <2>2, <2>3, <2>4, <2>5
  <1> QED
    BY <1>1, <1>3, <1>4, RowStutter, RecStutter, CanStutter, StreamStutter DEF TypeOK

LEMMA VenueTypePreserved ==
    ASSUME TypeOK, Venue
    PROVE  TypeOK'
  BY AnswerTypeOK, VenueOrderTypeOK DEF Venue

LEMMA RowTimeTypeOK ==
    ASSUME TypeOK, NEW t \in Trades, CreateIntent(t) \/ Age(t)
    PROVE  TypeOK'
  <1>1. RowTypeOK'
    BY DEF CreateIntent, Age, TypeOK, RowTypeOK, Statuses
  <1>2. UNCHANGED <<sub, rec, can, stream, venue>>
    BY DEF CreateIntent, Age
  <1> QED
    BY <1>1, <1>2, SubStutter, RecStutter, CanStutter, StreamStutter, VenueStutter
    DEF TypeOK

LEMMA NextTypeOK == TypeOK /\ [Next]_vars => TypeOK'
  <1> SUFFICES ASSUME TypeOK, [Next]_vars PROVE TypeOK'
    OBVIOUS
  <1>1. CASE UNCHANGED vars
    BY <1>1, RowStutter, SubStutter, RecStutter, CanStutter, StreamStutter, VenueStutter
    DEF vars, TypeOK
  <1>2. CASE Next
    BY <1>2, RowTimeTypeOK, SubmitTypeOK, ReconcileTypeOK, CancelTypeOK,
       StreamTypePreserved, VenueTypePreserved DEF Next
  <1> QED
    BY <1>1, <1>2

\* Every row, request and venue record keeps its shape, whatever handlers run
\* concurrently and wherever they are dropped.
THEOREM TypeCorrect == Spec => []TypeOK
  <1>1. Init => TypeOK
    BY InitTypeOK
  <1>2. TypeOK /\ [Next]_vars => TypeOK'
    BY NextTypeOK
  <1> QED
    BY <1>1, <1>2, PTL DEF Spec
-----------------------------------------------------------------------------
(* Which orders belong to which trades.                                    *)

(* Nothing the invariant rests on is ever taken back: a row stays bound to *)
(* its order, a closed order stays closed, fills only progress.            *)

Grows ==
    /\ \A t \in Trades : hash[t] # None => hash'[t] = hash[t]
    /\ \A o \in Orders :
        /\ exOrder[o] # "none" => exOrder'[o] # "none"
        /\ exOrder[o] \in {"CANCELED", "INVALID"} => exOrder'[o] = exOrder[o]
        /\ \A f \in Fills : exFills[o][f] \subseteq exFills'[o][f]

LEMMA GrowsFill ==
    ASSUME Grows, NEW o \in Orders, NEW x, SomeFill(o, x)
    PROVE  SomeFill(o, x)'
  BY DEF Grows, SomeFill

LEMMA UnchangedGrows ==
    ASSUME UNCHANGED <<hash, exOrder, exFills>>
    PROVE  Grows
  BY DEF Grows

LEMMA ClaimGrows ==
    ASSUME TypeOK, NEW s \in Submitters, SubmitClaim(s)
    PROVE  Grows
  <1>1. sub[s].trade \in Trades /\ UNCHANGED <<exOrder, exFills>>
    BY DEF SubmitClaim, TypeOK, SubTypeOK, venue
  <1>2. \A t \in Trades : hash[t] # None => hash'[t] = hash[t]
    BY <1>1 DEF SubmitClaim, ClaimAllowed, TypeOK, RowTypeOK
  <1> QED
    BY <1>1, <1>2 DEF Grows

LEMMA VenueOrderGrows ==
    ASSUME TypeOK, NoFillBeforeOrder, NEW o \in Orders, VenueOrder(o)
    PROVE  Grows
  <1>0. VenueTypeOK
    BY DEF TypeOK
  <1>1. UNCHANGED hash
    BY DEF VenueOrder, VenueAccept, VenueRefuse, VenueFill, VenueSettle, VenueClose, row
  <1>2. \/ VenueAccept(o) \/ VenueRefuse(o) \/ VenueClose(o)
        \/ \E f \in Fills : VenueFill(o, f) \/ VenueSettle(o, f)
    BY DEF VenueOrder
  <1>3. CASE VenueAccept(o)
    <2>1. \/ exFills' = exFills
          \/ \E f \in Fills : exFills' = [exFills EXCEPT ![o][f] = {"MATCHED"}]
      BY <1>3 DEF VenueAccept
    <2>2. \A p \in Orders, f \in Fills : exFills[p][f] \subseteq exFills'[p][f]
      BY <1>0, <1>3, <2>1 DEF VenueTypeOK, NoFillBeforeOrder, VenueAccept
    <2>3. \A p \in Orders : exOrder[p] # "none" => exOrder'[p] = exOrder[p]
      BY <1>0, <1>3 DEF VenueAccept, VenueTypeOK
    <2> QED
      BY <1>1, <2>2, <2>3 DEF Grows
  <1>4. CASE VenueRefuse(o)
    BY <1>1, <1>4, UnchangedGrows DEF VenueRefuse
  <1>5. CASE VenueClose(o)
    BY <1>0, <1>1, <1>5 DEF VenueClose, VenueTypeOK, Grows
  <1>6. ASSUME NEW f \in Fills, VenueFill(o, f)
        PROVE  Grows
    <2>1. \A p \in Orders, g \in Fills : exFills[p][g] \subseteq exFills'[p][g]
      BY <1>0, <1>6 DEF VenueFill, VenueTypeOK
    <2>2. \A p \in Orders :
             exOrder'[p] = exOrder[p] \/ (exOrder[p] = "LIVE" /\ exOrder'[p] = "MATCHED")
      BY <1>0, <1>6 DEF VenueFill, VenueTypeOK
    <2> QED
      BY <1>1, <2>1, <2>2 DEF Grows
  <1>7. ASSUME NEW f \in Fills, VenueSettle(o, f)
        PROVE  Grows
    <2>1. PICK x : exFills' = [exFills EXCEPT ![o][f] = @ \cup {x}]
      BY <1>7 DEF VenueSettle
    <2>2. \A p \in Orders, g \in Fills : exFills[p][g] \subseteq exFills'[p][g]
      BY <1>0, <2>1 DEF VenueTypeOK
    <2> QED
      BY <1>1, <1>7, <2>2 DEF Grows, VenueSettle
  <1> QED
    BY <1>2, <1>3, <1>4, <1>5, <1>6, <1>7

LEMMA VenueGrows ==
    ASSUME TypeOK, NoFillBeforeOrder, Venue
    PROVE  Grows
  <1>1. ASSUME NEW s \in Submitters, VenueAnswer(s)
        PROVE  Grows
    BY <1>1, UnchangedGrows DEF VenueAnswer, row, venue
  <1> QED
    BY <1>1, VenueOrderGrows DEF Venue

LEMMA CancelCallGrows ==
    ASSUME TypeOK, NEW c \in Cancellers, CancelCall(c)
    PROVE  Grows
  <1>1. PICK os \in SUBSET {o \in CancelTargets(c) : exOrder[o] = "LIVE"} :
            exOrder' = [o \in Orders |-> IF o \in os THEN "CANCELED" ELSE exOrder[o]]
    BY DEF CancelCall
  <1>2. UNCHANGED <<hash, exFills>>
    BY DEF CancelCall, row
  <1>3. \A o \in os : exOrder[o] = "LIVE"
    BY <1>1
  <1> QED
    BY <1>1, <1>2, <1>3 DEF Grows

LEMMA NextGrows == TypeOK /\ NoFillBeforeOrder /\ [Next]_vars => Grows
  <1> SUFFICES ASSUME TypeOK, NoFillBeforeOrder, [Next]_vars PROVE Grows
    OBVIOUS
  <1>1. CASE UNCHANGED <<hash, exOrder, exFills>>
    BY <1>1, UnchangedGrows
  <1>2. ASSUME NEW s \in Submitters, SubmitStep(s) PROVE Grows
    <2>1. CASE SubmitClaim(s)
      BY <2>1, ClaimGrows
    <2>2. CASE UNCHANGED <<hash, exOrder, exFills>>
      BY <2>2, UnchangedGrows
    <2> QED
      BY <1>2, <2>1, <2>2 DEF SubmitStep, SubmitConflict, SubmitPost, SubmitUnsent,
         SubmitTimeout, SubmitFinish, row, venue
  <1>3. ASSUME NEW c \in Cancellers, CancelStep(c) PROVE Grows
    <2>1. CASE CancelCall(c)
      BY <2>1, CancelCallGrows
    <2>2. CASE UNCHANGED <<hash, exOrder, exFills>>
      BY <2>2, UnchangedGrows
    <2> QED
      BY <1>3, <2>1, <2>2 DEF CancelStep, CancelMark, CancelApply, venue
  <1>4. CASE Venue
    BY <1>4, VenueGrows
  <1>5. CASE UNCHANGED vars
    BY <1>1, <1>5 DEF vars, row, venue
  <1>6. CASE \E t \in Trades : CreateIntent(t) \/ Age(t)
    BY <1>1, <1>6 DEF CreateIntent, Age, venue
  <1>7. ASSUME NEW r \in Reconcilers,
               \/ \E t \in Trades : ReconcileRead(r, t)
               \/ ReconcileStep(r) \/ ReconcileAbandon(r)
        PROVE  UNCHANGED <<hash, exOrder, exFills>>
    BY <1>7 DEF ReconcileRead, ReconcileStep, ReconcileMark, ReconcileOrder,
       ReconcileTrade, ReconcileWrite, ReconcileAbandon, row, venue
  <1>8. ASSUME NEW s \in Submitters,
               \/ \E t \in Trades, o \in Orders : SubmitRead(s, t, o)
               \/ SubmitAbandon(s)
        PROVE  UNCHANGED <<hash, exOrder, exFills>>
    BY <1>8 DEF SubmitRead, SubmitAbandon, row, venue
  <1>9. ASSUME NEW c \in Cancellers,
               \/ \E ts \in SUBSET Trades : CancelTrades(c, ts)
               \/ CancelAll(c)
               \/ \E t \in Trades : CancelMarket(c, t)
               \/ CancelAbandon(c)
        PROVE  UNCHANGED <<hash, exOrder, exFills>>
    BY <1>9 DEF CancelTrades, CancelAll, CancelMarket, CancelStart, CancelAbandon,
       row, venue
  <1>10. CASE \/ \E t \in Trades, target \in Statuses : StreamRead(t, target)
              \/ StreamApply \/ StreamAbandon
    BY <1>1, <1>10 DEF StreamRead, StreamApply, StreamAbandon, row, venue
  <1> QED
    BY <1>1, <1>2, <1>3, <1>4, <1>5, <1>6, <1>7, <1>8, <1>9, <1>10 DEF Next

-----------------------------------------------------------------------------
(* The first half of the invariant: which orders belong to which trades.   *)

PlacementInv == BindingInv /\ OrderIdIsOwn /\ ReplyTruth /\ NoFillBeforeOrder

LEMMA OrderNotNone == None \notin Orders /\ None \notin Trades
  BY NoneAssumption

\* A status may change on a bound row, to any status of a bound row.
LEMMA StatusKeepsRowBinding ==
    ASSUME RowBinding, UNCHANGED hash,
           \A t \in Trades :
              \/ status'[t] = status[t]
              \/ /\ status[t] \notin {"absent", "pending_signature"}
                 /\ status'[t] \notin {"absent", "pending_signature"}
    PROVE  RowBinding'
  BY DEF RowBinding

\* An order becomes taken only if some row is bound to it.
LEMMA TakenKeepsVenueBinding ==
    ASSUME Grows, VenueBinding,
           \A o \in Orders : Untaken(o)' \/ ~Untaken(o) \/ \E t \in Trades : hash[t] = o
    PROVE  VenueBinding'
  <1> SUFFICES ASSUME NEW o \in Orders, ~Untaken(o)'
               PROVE  \E t \in Trades : hash'[t] = o
    BY DEF VenueBinding
  <1>1. PICK t \in Trades : hash[t] = o
    BY DEF VenueBinding
  <1> QED
    BY <1>1, OrderNotNone DEF Grows

\* The requests in flight stay, or become fewer.
LEMMA FewerKeepsSubBinding ==
    ASSUME TypeOK, Grows, SubBinding,
           \A s \in Submitters : InFlight(s)' =>
              InFlight(s) /\ sub'[s].trade = sub[s].trade /\ sub'[s].order = sub[s].order
    PROVE  SubBinding'
  <1> SUFFICES ASSUME NEW s \in Submitters, InFlight(s)'
               PROVE  hash'[sub'[s].trade] = sub'[s].order
    BY DEF SubBinding
  <1>1. sub[s].trade \in Trades /\ sub[s].order \in Orders
    BY DEF TypeOK, SubTypeOK, InFlight
  <1>2. hash[sub[s].trade] = sub[s].order
    BY DEF SubBinding
  <1> QED
    BY <1>1, <1>2, OrderNotNone DEF Grows

LEMMA FewerKeepsRecBinding ==
    ASSUME TypeOK, Grows, RecBinding,
           \A r \in Reconcilers :
              /\ rec'[r].pc # "idle" =>
                    rec[r].pc # "idle" /\ rec'[r].trade = rec[r].trade
              /\ rec'[r].pc \in {"order", "trades"} =>
                    rec[r].pc \in {"order", "trades"} /\ rec'[r].order = rec[r].order
              /\ rec'[r].pc = "trades" =>
                    rec[r].pc = "trades" \/ exOrder[rec[r].order] # "none"
    PROVE  RecBinding'
  <1> SUFFICES ASSUME NEW r \in Reconcilers
               PROVE  /\ rec'[r].pc # "idle" => hash'[rec'[r].trade] # None
                      /\ rec'[r].pc \in {"order", "trades"}
                            => hash'[rec'[r].trade] = rec'[r].order
                      /\ rec'[r].pc = "trades" => exOrder'[rec'[r].order] # "none"
    BY DEF RecBinding
  <1>1. CASE rec'[r].pc = "idle"
    BY <1>1
  <1>2. CASE rec'[r].pc # "idle"
    <2>1. rec[r].trade \in Trades /\ hash[rec[r].trade] # None
      BY <1>2 DEF TypeOK, RecTypeOK, RecBinding
    <2>2. hash'[rec'[r].trade] = hash[rec[r].trade]
      BY <1>2, <2>1 DEF Grows
    <2>3. rec'[r].pc \in {"order", "trades"} => hash[rec[r].trade] = rec'[r].order
      BY DEF RecBinding
    <2>4. ASSUME rec'[r].pc = "trades"
          PROVE  exOrder'[rec'[r].order] # "none"
      <3>1. rec'[r].order = rec[r].order /\ exOrder[rec[r].order] # "none"
        BY <2>4 DEF RecBinding
      <3>2. rec[r].order \in Orders
        BY <2>4 DEF TypeOK, RecTypeOK
      <3> QED
        BY <3>1, <3>2 DEF Grows
    <2> QED
      BY <2>1, <2>2, <2>3, <2>4
  <1> QED
    BY <1>1, <1>2

LEMMA SameKeepsStreamBinding ==
    ASSUME TypeOK, Grows, StreamBinding, stream' = stream \/ stream' = IdleStream
    PROVE  StreamBinding'
  <1>1. CASE stream' = IdleStream
    BY <1>1 DEF IdleStream, StreamBinding
  <1>2. CASE stream' = stream
    <2> SUFFICES ASSUME stream.pc = "apply"
                 PROVE  hash'[stream.trade] # None /\ exOrder'[hash'[stream.trade]] # "none"
      BY <1>2 DEF StreamBinding
    <2>1. /\ stream.trade \in Trades /\ hash[stream.trade] # None
          /\ exOrder[hash[stream.trade]] # "none"
      BY DEF StreamBinding, TypeOK, StreamTypeOK
    <2>2. hash[stream.trade] \in Orders /\ hash'[stream.trade] = hash[stream.trade]
      BY <2>1 DEF Grows, TypeOK, RowTypeOK
    <2> QED
      BY <2>1, <2>2 DEF Grows
  <1> QED
    BY <1>1, <1>2

\* An id keeps its row: only a row whose order the venue has not taken must not move
\* to another status.
LEMMA SameKeepsOrderIds ==
    ASSUME TypeOK, Grows, OrderIdIsOwn,
           \A t \in Trades : orderId'[t] = orderId[t] \/ orderId'[t] = None,
           \A t \in Trades :
              \/ status'[t] = status[t]
              \/ status'[t] \in {"rejected", "reconciliation_required"}
              \/ status[t] \notin {"rejected", "reconciliation_required"}
              \/ exOrder[hash[t]] # "none"
    PROVE  OrderIdIsOwn'
  <1> SUFFICES ASSUME NEW t \in Trades, orderId'[t] # None
               PROVE  /\ orderId'[t] = hash'[t]
                      /\ \/ exOrder'[hash'[t]] # "none"
                         \/ status'[t] \in {"rejected", "reconciliation_required"}
    BY DEF OrderIdIsOwn
  <1>1. orderId[t] \in Orders /\ orderId'[t] = orderId[t]
    BY DEF TypeOK, RowTypeOK
  <1>2. /\ orderId[t] = hash[t]
        /\ \/ exOrder[hash[t]] # "none"
           \/ status[t] \in {"rejected", "reconciliation_required"}
    BY <1>1, OrderNotNone DEF OrderIdIsOwn
  <1>3. hash'[t] = hash[t] /\ (exOrder[hash[t]] # "none" => exOrder'[hash[t]] # "none")
    BY <1>1, <1>2, OrderNotNone DEF Grows
  <1> QED
    BY <1>1, <1>2, <1>3

\* The same request has the same answer, or the new answer promises nothing.
LEMMA SameKeepsReplyTruth ==
    ASSUME TypeOK, Grows, ReplyTruth,
           \A s \in Submitters :
              sub'[s].pc = "finish" /\ sub'[s].reply \in Answered \ Refusals =>
                 /\ sub[s].pc = "finish"
                 /\ sub'[s].reply = sub[s].reply
                 /\ sub'[s].order = sub[s].order
    PROVE  ReplyTruth'
  <1> SUFFICES ASSUME NEW s \in Submitters, sub'[s].pc = "finish",
                      sub'[s].reply \in Answered \ Refusals
               PROVE  /\ exOrder'[sub'[s].order] # "none"
                      /\ sub'[s].reply = "confirmed" => SomeFill(sub[s].order, "CONFIRMED")'
    <2>1. "confirmed" \in Answered \ Refusals
      BY DEF Answered, Refusals
    <2> QED
      BY <2>1 DEF ReplyTruth, SomeFill
  <1>1. sub[s].order \in Orders /\ sub'[s].order = sub[s].order
    BY DEF TypeOK, SubTypeOK
  <1>2. /\ exOrder[sub[s].order] # "none"
        /\ sub'[s].reply = "confirmed" => SomeFill(sub[s].order, "CONFIRMED")
    BY DEF ReplyTruth
  <1>3. exOrder'[sub[s].order] # "none"
    BY <1>1, <1>2 DEF Grows
  <1>4. sub'[s].reply = "confirmed" => SomeFill(sub[s].order, "CONFIRMED")'
    BY <1>1, <1>2 DEF Grows, SomeFill
  <1> QED
    BY <1>1, <1>3, <1>4

-----------------------------------------------------------------------------
(* Each process preserves it.                                              *)

LEMMA RowTimePlacement ==
    ASSUME TypeOK, PlacementInv, Grows, NEW t \in Trades, CreateIntent(t) \/ Age(t)
    PROVE  PlacementInv'
  <1>1. UNCHANGED <<hash, orderId, sub, rec, stream, wire, exOrder, exFills>>
    BY DEF CreateIntent, Age, venue
  <1>2. RowBinding'
    BY <1>1 DEF CreateIntent, Age, TypeOK, RowTypeOK, PlacementInv, BindingInv, RowBinding
  <1>3. VenueBinding' /\ SubBinding' /\ RecBinding' /\ StreamBinding'
    BY <1>1 DEF PlacementInv, BindingInv, VenueBinding, SubBinding, RecBinding,
       StreamBinding, Untaken, InFlight
  <1>4. ReplyTruth' /\ NoFillBeforeOrder'
    BY <1>1 DEF PlacementInv, ReplyTruth, NoFillBeforeOrder, SomeFill
  <1>5. \A u \in Trades :
            status'[u] = status[u] \/ status[u] \notin {"rejected", "reconciliation_required"}
    BY DEF CreateIntent, Age, TypeOK, RowTypeOK
  <1>6. OrderIdIsOwn'
    BY <1>1, <1>5, SameKeepsOrderIds DEF PlacementInv
  <1> QED
    BY <1>2, <1>3, <1>4, <1>6 DEF PlacementInv, BindingInv

LEMMA ClaimPlacement ==
    ASSUME TypeOK, PlacementInv, Grows, NEW s \in Submitters, SubmitClaim(s)
    PROVE  PlacementInv'
  <1> DEFINE t == sub[s].trade
             o == sub[s].order
  <1>1. t \in Trades /\ o \in Orders
    BY DEF SubmitClaim, TypeOK, SubTypeOK
  <1>2. UNCHANGED <<rec, stream, wire, exOrder, exFills>>
    BY DEF SubmitClaim, venue
  <1>3. /\ status' = [status EXCEPT ![t] = "submitting"]
        /\ hash' = [hash EXCEPT ![t] = o]
        /\ orderId' = [orderId EXCEPT ![t] = None]
        /\ sub' = [sub EXCEPT ![s].pc = "post"]
        /\ \A u \in Trades \ {t} : hash[u] # o
    BY DEF SubmitClaim, ClaimAllowed
  <1>4. /\ hash'[t] = o /\ \A u \in Trades \ {t} : hash'[u] = hash[u]
        /\ status'[t] = "submitting" /\ \A u \in Trades \ {t} : status'[u] = status[u]
        /\ \A u \in Trades : orderId'[u] = orderId[u] \/ orderId'[u] = None
    BY <1>1, <1>3 DEF TypeOK, RowTypeOK
  <1>5. RowBinding'
    BY <1>1, <1>3, <1>4, OrderNotNone DEF PlacementInv, BindingInv, RowBinding
  <1>6. VenueBinding'
    BY <1>2, TakenKeepsVenueBinding DEF PlacementInv, BindingInv, Untaken
  <1>7. /\ sub'[s].trade = t /\ sub'[s].order = o /\ sub'[s].pc = "post"
        /\ \A q \in Submitters \ {s} : sub'[q] = sub[q]
    BY <1>3 DEF TypeOK, SubTypeOK, SubRecords
  <1>8. SubBinding'
    <2> SUFFICES ASSUME NEW q \in Submitters, InFlight(q)'
                 PROVE  hash'[sub'[q].trade] = sub'[q].order
      BY DEF SubBinding
    <2>1. CASE q = s
      BY <1>4, <1>7, <2>1
    <2>2. CASE q # s
      <3>1. InFlight(q) /\ sub'[q] = sub[q]
        BY <1>7, <2>2 DEF InFlight
      <3>2. sub[q].trade \in Trades /\ sub[q].order \in Orders
        BY <3>1 DEF InFlight, TypeOK, SubTypeOK
      <3>3. hash[sub[q].trade] = sub[q].order
        BY <3>1 DEF PlacementInv, BindingInv, SubBinding
      <3> QED
        BY <3>1, <3>2, <3>3, OrderNotNone DEF Grows
    <2> QED
      BY <2>1, <2>2
  <1>9. RecBinding' /\ StreamBinding'
    BY <1>2, FewerKeepsRecBinding, SameKeepsStreamBinding DEF PlacementInv, BindingInv
  <1>10. OrderIdIsOwn'
    <2>1. status[t] \notin {"rejected", "reconciliation_required"}
      BY DEF SubmitClaim, ClaimAllowed, Claimable
    <2> QED
      BY <1>4, <2>1, SameKeepsOrderIds DEF PlacementInv
  <1>11. ReplyTruth'
    BY <1>7, SameKeepsReplyTruth DEF PlacementInv
  <1>12. NoFillBeforeOrder'
    BY <1>2 DEF PlacementInv, NoFillBeforeOrder
  <1> QED
    BY <1>5, <1>6, <1>8, <1>9, <1>10, <1>11, <1>12 DEF PlacementInv, BindingInv

LEMMA FinishPlacement ==
    ASSUME TypeOK, PlacementInv, Grows, NEW s \in Submitters, SubmitFinish(s)
    PROVE  PlacementInv'
  <1> DEFINE t == sub[s].trade
             o == sub[s].order
             reply == sub[s].reply
  <1>1. t \in Trades /\ o \in Orders /\ reply \in Replies
    BY DEF SubmitFinish, TypeOK, SubTypeOK
  <1>2. UNCHANGED <<hash, rec, stream, wire, exOrder, exFills>>
    BY DEF SubmitFinish, venue, row
  <1>3. sub' = [sub EXCEPT ![s] = IdleSub]
    BY DEF SubmitFinish
  <1>4. sub'[s].pc = "idle" /\ \A q \in Submitters \ {s} : sub'[q] = sub[q]
    BY <1>3 DEF TypeOK, SubTypeOK, IdleSub
  <1>5. SubBinding'
    BY <1>4, FewerKeepsSubBinding DEF PlacementInv, BindingInv, InFlight
  <1>6. ReplyTruth'
    BY <1>4, SameKeepsReplyTruth DEF PlacementInv
  <1>7. VenueBinding' /\ RecBinding' /\ StreamBinding' /\ NoFillBeforeOrder'
    BY <1>2, TakenKeepsVenueBinding, FewerKeepsRecBinding, SameKeepsStreamBinding
    DEF PlacementInv, BindingInv, Untaken, NoFillBeforeOrder
  <1>8. CASE UNCHANGED row
    <2>1. RowBinding'
      BY <1>8 DEF row, PlacementInv, BindingInv, RowBinding
    <2>2. OrderIdIsOwn'
      BY <1>8, SameKeepsOrderIds DEF row, PlacementInv
    <2> QED
      BY <1>5, <1>6, <1>7, <2>1, <2>2 DEF PlacementInv, BindingInv
  <1>9. CASE ~UNCHANGED row
    <2>1. /\ status[t] = "submitting" /\ hash[t] = o
          /\ status' = [status EXCEPT ![t] = SubmissionOutcome(reply)]
          /\ \/ /\ reply \in Answered
                /\ \E id \in ReturnedIds(o) :
                       orderId' = [orderId EXCEPT ![t] = id]
             \/ UNCHANGED orderId
      BY <1>9 DEF SubmitFinish
    <2>2. SubmissionOutcome(reply) \notin {"absent", "pending_signature"}
      BY <1>1 DEF SubmissionOutcome, Replies, Answered, Refusals
    <2>3. RowBinding'
      BY <1>1, <1>2, <2>1, <2>2, StatusKeepsRowBinding
      DEF TypeOK, RowTypeOK, PlacementInv, BindingInv
    <2>4. OrderIdIsOwn'
      <3>0. \A u \in Trades :
               status'[u] = status[u] \/ status[u] \notin {"rejected", "reconciliation_required"}
        BY <2>1 DEF TypeOK, RowTypeOK
      <3>1. CASE UNCHANGED orderId
        BY <3>0, <3>1, SameKeepsOrderIds DEF PlacementInv
      <3>2. ASSUME reply \in Answered, NEW id \in ReturnedIds(o),
                   orderId' = [orderId EXCEPT ![t] = id]
            PROVE  OrderIdIsOwn'
        <4>1. /\ orderId'[t] = id
              /\ \A u \in Trades \ {t} : orderId'[u] = orderId[u]
          BY <1>1, <3>2 DEF TypeOK, RowTypeOK
        <4>2. CASE id = None
          BY <3>0, <4>1, <4>2, SameKeepsOrderIds DEF PlacementInv
        <4>3. CASE id # None
          <5>1. id = o
            BY <3>2, <4>3 DEF ReturnedIds
          <5>2. sub[s].pc = "finish"
            BY DEF SubmitFinish
          <5>3. exOrder[o] # "none" \/ status'[t] = "rejected"
            <6>1. CASE reply \in Refusals
              <7>1. SubmissionOutcome(reply) = "rejected"
                BY <6>1 DEF SubmissionOutcome, Refusals
              <7> QED
                BY <1>1, <2>1, <7>1 DEF TypeOK, RowTypeOK
            <6>2. CASE reply \notin Refusals
              BY <3>2, <5>2, <6>2 DEF PlacementInv, ReplyTruth
            <6> QED
              BY <6>1, <6>2
          <5>4. ASSUME NEW u \in Trades, orderId'[u] # None
                PROVE  /\ orderId'[u] = hash'[u]
                       /\ \/ exOrder'[hash'[u]] # "none"
                          \/ status'[u] \in {"rejected", "reconciliation_required"}
            <6>1. CASE u = t
              BY <1>2, <2>1, <4>1, <5>1, <5>3, <6>1
            <6>2. CASE u # t
              <7>1. status'[u] = status[u]
                BY <2>1, <6>2 DEF TypeOK, RowTypeOK
              <7> QED
                BY <1>2, <4>1, <5>4, <6>2, <7>1 DEF PlacementInv, OrderIdIsOwn
            <6> QED
              BY <6>1, <6>2
          <5> QED
            BY <5>4 DEF OrderIdIsOwn
        <4> QED
          BY <4>2, <4>3
      <3> QED
        BY <2>1, <3>1, <3>2
    <2> QED
      BY <1>5, <1>6, <1>7, <2>3, <2>4 DEF PlacementInv, BindingInv
  <1> QED
    BY <1>8, <1>9

\* The rest of a submission leaves the rows alone.
LEMMA SubmitPlacement ==
    ASSUME TypeOK, PlacementInv, Grows, NEW s \in Submitters,
           SubmitStep(s) \/ SubmitAbandon(s) \/
           \E t \in Trades, o \in Orders : SubmitRead(s, t, o)
    PROVE  PlacementInv'
  <1>1. CASE SubmitClaim(s)
    BY <1>1, ClaimPlacement
  <1>2. CASE SubmitFinish(s)
    BY <1>2, FinishPlacement
  <1>3. CASE ~SubmitClaim(s) /\ ~SubmitFinish(s)
    <2>1. UNCHANGED <<row, rec, stream, exOrder, exFills>>
      BY <1>3 DEF SubmitStep, SubmitRead, SubmitConflict, SubmitPost, SubmitUnsent,
         SubmitTimeout, SubmitAbandon, venue
    <2>2. RowBinding' /\ OrderIdIsOwn' /\ NoFillBeforeOrder'
      BY <2>1 DEF row, PlacementInv, BindingInv, RowBinding, OrderIdIsOwn,
         NoFillBeforeOrder
    <2>3. RecBinding' /\ StreamBinding'
      BY <2>1, FewerKeepsRecBinding, SameKeepsStreamBinding DEF PlacementInv, BindingInv
    <2>4. PICK e :
            /\ sub' = [sub EXCEPT ![s] = e]
            /\ e.pc \in {"post", "wait", "finish"} =>
                  /\ sub[s].pc \in {"post", "wait", "finish"}
                  /\ e.trade = sub[s].trade /\ e.order = sub[s].order
            /\ e.pc = "finish" => e.reply \notin Answered
      <3>1. CASE SubmitConflict(s) \/ SubmitAbandon(s)
        <4>1. sub' = [sub EXCEPT ![s] = IdleSub]
          BY <3>1 DEF SubmitConflict, SubmitAbandon
        <4>2. IdleSub.pc = "idle"
          BY DEF IdleSub
        <4> QED
          BY <4>1, <4>2
      <3>2. CASE \E t \in Trades, o \in Orders : SubmitRead(s, t, o)
        <4>1. PICK t \in Trades, o \in Orders : SubmitRead(s, t, o)
          BY <3>2
        <4> DEFINE e == [pc |-> "claim", trade |-> t, order |-> o, reply |-> None]
        <4>2. sub' = [sub EXCEPT ![s] = e]
          BY <4>1 DEF SubmitRead
        <4>3. e.pc = "claim"
          OBVIOUS
        <4> QED
          BY <4>2, <4>3
      <3>3. CASE SubmitPost(s)
        <4> DEFINE e == [sub[s] EXCEPT !.pc = "wait"]
        <4>1. sub[s] \in SubRecords /\ sub[s].pc = "post"
          BY <3>3 DEF SubmitPost, TypeOK, SubTypeOK
        <4>2. e.pc = "wait" /\ e.trade = sub[s].trade /\ e.order = sub[s].order
          BY <4>1 DEF SubRecords
        <4>3. sub' = [sub EXCEPT ![s] = e]
          BY <3>3 DEF SubmitPost
        <4> QED
          BY <4>1, <4>2, <4>3
      <3>4. CASE SubmitUnsent(s)
        <4> DEFINE e == [sub[s] EXCEPT !.pc = "finish", !.reply = "definite"]
        <4>1. sub[s] \in SubRecords /\ sub[s].pc = "post"
          BY <3>4 DEF SubmitUnsent, TypeOK, SubTypeOK
        <4>2. /\ e.pc = "finish" /\ e.trade = sub[s].trade /\ e.order = sub[s].order
              /\ e.reply = "definite" /\ e.reply \notin Answered
          BY <4>1 DEF SubRecords, Answered, Refusals
        <4>3. sub' = [sub EXCEPT ![s] = e]
          BY <3>4 DEF SubmitUnsent
        <4> QED
          BY <4>1, <4>2, <4>3
      <3>5. CASE SubmitTimeout(s)
        <4> DEFINE e == [sub[s] EXCEPT !.pc = "finish", !.reply = "ambiguous"]
        <4>1. sub[s] \in SubRecords /\ sub[s].pc = "wait"
          BY <3>5 DEF SubmitTimeout, TypeOK, SubTypeOK
        <4>2. /\ e.pc = "finish" /\ e.trade = sub[s].trade /\ e.order = sub[s].order
              /\ e.reply = "ambiguous" /\ e.reply \notin Answered
          BY <4>1 DEF SubRecords, Answered, Refusals
        <4>3. sub' = [sub EXCEPT ![s] = e]
          BY <3>5 DEF SubmitTimeout
        <4> QED
          BY <4>1, <4>2, <4>3
      <3> QED
        BY <1>3, <3>1, <3>2, <3>3, <3>4, <3>5 DEF SubmitStep
    <2>5. sub'[s] = e /\ \A q \in Submitters \ {s} : sub'[q] = sub[q]
      BY <2>4 DEF TypeOK, SubTypeOK
    <2>6. SubBinding'
      BY <2>4, <2>5, FewerKeepsSubBinding DEF PlacementInv, BindingInv, InFlight
    <2>7. ReplyTruth'
      BY <2>4, <2>5, SameKeepsReplyTruth DEF PlacementInv
    <2>8. VenueBinding'
      <3>1. CASE SubmitPost(s)
        <4>1. wire' = wire \cup {sub[s].order} /\ sub[s].pc = "post"
          BY <3>1 DEF SubmitPost
        <4>2. sub[s].trade \in Trades /\ hash[sub[s].trade] = sub[s].order
          BY <4>1 DEF TypeOK, SubTypeOK, PlacementInv, BindingInv, SubBinding, InFlight
        <4> QED
          BY <2>1, <4>1, <4>2, TakenKeepsVenueBinding DEF PlacementInv, BindingInv, Untaken
      <3>2. CASE UNCHANGED wire
        BY <2>1, <3>2, TakenKeepsVenueBinding DEF PlacementInv, BindingInv, Untaken
      <3> QED
        BY <1>3, <3>1, <3>2 DEF SubmitStep, SubmitRead, SubmitConflict, SubmitUnsent,
           SubmitTimeout, SubmitAbandon, venue
    <2> QED
      BY <2>2, <2>3, <2>6, <2>7, <2>8 DEF PlacementInv, BindingInv
  <1> QED
    BY <1>1, <1>2, <1>3

LEMMA ReconciledBound ==
    ASSUME NEW order, NEW fills
    PROVE  ReconciledStatus(order, fills) \notin {"absent", "pending_signature"}
  BY DEF ReconciledStatus

\* A reconciliation that has chosen its trade works on the trade's own order.
LEMMA ReconcileReadBinding ==
    ASSUME TypeOK, PlacementInv, Grows, NEW r \in Reconcilers, NEW t \in Trades,
           ReconcileRead(r, t)
    PROVE  RecBinding'
  <1>1. UNCHANGED <<hash, exOrder>>
    BY DEF ReconcileRead, row, venue
  <1>2. PICK e :
          /\ rec' = [rec EXCEPT ![r] = e]
          /\ e.trade = t
          /\ \/ e.pc = "mark" /\ status[t] \in Unresolved
             \/ e.pc = "order" /\ e.order = orderId[t] /\ orderId[t] # None
    <2>1. CASE /\ orderId[t] = None
               /\ status[t] \in Unresolved
               /\ rec' = [rec EXCEPT ![r] = [IdleRec EXCEPT !.pc = "mark", !.trade = t]]
      <3> DEFINE e == [IdleRec EXCEPT !.pc = "mark", !.trade = t]
      <3>1. e.pc = "mark" /\ e.trade = t
        BY DEF IdleRec
      <3> QED
        BY <2>1, <3>1
    <2>2. CASE /\ orderId[t] # None
               /\ rec' = [rec EXCEPT ![r] = [IdleRec EXCEPT !.pc = "order", !.trade = t,
                                                            !.order = orderId[t]]]
      <3> DEFINE e == [IdleRec EXCEPT !.pc = "order", !.trade = t, !.order = orderId[t]]
      <3>1. e.pc = "order" /\ e.trade = t /\ e.order = orderId[t]
        BY DEF IdleRec
      <3> QED
        BY <2>2, <3>1
    <2> QED
      BY <2>1, <2>2 DEF ReconcileRead
  <1>3. rec'[r] = e /\ \A q \in Reconcilers \ {r} : rec'[q] = rec[q]
    BY <1>2 DEF TypeOK, RecTypeOK
  <1>4. hash[t] # None /\ (e.pc = "order" => hash[t] = e.order)
    <2>1. CASE e.pc = "mark"
      BY <1>2, <2>1 DEF PlacementInv, BindingInv, RowBinding, Unresolved
    <2>2. CASE e.pc = "order"
      BY <1>2, <2>2 DEF PlacementInv, OrderIdIsOwn
    <2> QED
      BY <1>2, <2>1, <2>2
  <1>5. ASSUME NEW q \in Reconcilers
        PROVE  /\ rec'[q].pc # "idle" => hash'[rec'[q].trade] # None
               /\ rec'[q].pc \in {"order", "trades"}
                    => hash'[rec'[q].trade] = rec'[q].order
               /\ rec'[q].pc = "trades" => exOrder'[rec'[q].order] # "none"
    <2>1. CASE q = r
      BY <1>1, <1>2, <1>3, <1>4, <2>1
    <2>2. CASE q # r
      BY <1>1, <1>3, <2>2 DEF PlacementInv, BindingInv, RecBinding
    <2> QED
      BY <2>1, <2>2
  <1> QED
    BY <1>5 DEF RecBinding

LEMMA ReconcilePlacement ==
    ASSUME TypeOK, PlacementInv, Grows, NEW r \in Reconcilers,
           ReconcileStep(r) \/ ReconcileAbandon(r) \/ \E t \in Trades : ReconcileRead(r, t)
    PROVE  PlacementInv'
  <1>1. UNCHANGED <<hash, orderId, sub, stream, wire, exOrder, exFills>>
    BY DEF ReconcileStep, ReconcileMark, ReconcileOrder, ReconcileTrade, ReconcileWrite,
       ReconcileAbandon, ReconcileRead, row, venue
  <1>2. VenueBinding' /\ SubBinding' /\ StreamBinding'
    BY <1>1 DEF PlacementInv, BindingInv, VenueBinding, SubBinding, StreamBinding,
       Untaken, InFlight
  <1>3. ReplyTruth' /\ NoFillBeforeOrder'
    BY <1>1 DEF PlacementInv, ReplyTruth, NoFillBeforeOrder, SomeFill
  <1>6. OrderIdIsOwn'
    <2>1. ASSUME ReconcileWrite(r), NEW t \in Trades, status'[t] # status[t]
          PROVE  exOrder[hash[t]] # "none"
      <3>1. rec[r].pc = "trades" /\ rec[r].trade = t
        BY <2>1 DEF ReconcileWrite, TypeOK, RowTypeOK
      <3>2. hash[rec[r].trade] = rec[r].order /\ exOrder[rec[r].order] # "none"
        BY <3>1 DEF PlacementInv, BindingInv, RecBinding
      <3> QED
        BY <3>1, <3>2
    <2>2. ASSUME ReconcileMark(r), NEW t \in Trades
          PROVE  status'[t] = status[t] \/ status'[t] = "reconciliation_required"
      BY <2>2 DEF ReconcileMark, TypeOK, RowTypeOK
    <2>3. CASE ~ReconcileWrite(r) /\ ~ReconcileMark(r)
      <3>1. UNCHANGED status
        BY <2>3 DEF ReconcileStep, ReconcileOrder, ReconcileTrade, ReconcileAbandon,
           ReconcileRead, row
      <3> QED
        BY <1>1, <3>1, SameKeepsOrderIds DEF PlacementInv
    <2> QED
      BY <1>1, <2>1, <2>2, <2>3, SameKeepsOrderIds DEF PlacementInv
  <1>4. RowBinding'
    <2>1. CASE UNCHANGED status
      BY <1>1, <2>1 DEF PlacementInv, BindingInv, RowBinding
    <2>2. ASSUME rec[r].pc # "idle", NEW st, st \notin {"absent", "pending_signature"},
                 status' = [status EXCEPT ![rec[r].trade] = st]
          PROVE  RowBinding'
      <3>1. rec[r].trade \in Trades /\ hash[rec[r].trade] # None
        BY <2>2 DEF TypeOK, RecTypeOK, PlacementInv, BindingInv, RecBinding
      <3>2. status[rec[r].trade] \notin {"absent", "pending_signature"}
        BY <3>1 DEF PlacementInv, BindingInv, RowBinding
      <3>3. \A t \in Trades :
               \/ status'[t] = status[t]
               \/ /\ status[t] \notin {"absent", "pending_signature"}
                  /\ status'[t] \notin {"absent", "pending_signature"}
        BY <2>2, <3>1, <3>2 DEF TypeOK, RowTypeOK
      <3> QED
        BY <1>1, <3>3, StatusKeepsRowBinding DEF PlacementInv, BindingInv
    <2>3. CASE ReconcileMark(r)
      <3> DEFINE st == "reconciliation_required"
      <3>1. /\ rec[r].pc # "idle" /\ st \notin {"absent", "pending_signature"}
            /\ status' = [status EXCEPT ![rec[r].trade] = st]
        BY <2>3 DEF ReconcileMark
      <3> HIDE DEF st
      <3> QED
        BY <2>2, <3>1
    <2>4. CASE ReconcileWrite(r)
      BY <2>2, <2>4, ReconciledBound DEF ReconcileWrite
    <2> QED
      BY <2>1, <2>3, <2>4 DEF ReconcileStep, ReconcileOrder, ReconcileTrade,
         ReconcileAbandon, ReconcileRead, row
  <1>5. RecBinding'
    <2>1. CASE \E t \in Trades : ReconcileRead(r, t)
      BY <2>1, ReconcileReadBinding
    <2>2. ASSUME NEW e, rec' = [rec EXCEPT ![r] = e],
                 e.pc # "idle" => rec[r].pc # "idle" /\ e.trade = rec[r].trade,
                 e.pc \in {"order", "trades"} =>
                    rec[r].pc \in {"order", "trades"} /\ e.order = rec[r].order,
                 e.pc = "trades" =>
                    rec[r].pc = "trades" \/ exOrder[rec[r].order] # "none"
          PROVE  RecBinding'
      <3>1. rec'[r] = e /\ \A q \in Reconcilers \ {r} : rec'[q] = rec[q]
        BY <2>2 DEF TypeOK, RecTypeOK
      <3> QED
        BY <2>2, <3>1, FewerKeepsRecBinding DEF PlacementInv, BindingInv
    <2>3. CASE rec' = [rec EXCEPT ![r] = IdleRec]
      <3>1. rec' = [rec EXCEPT ![r] = IdleRec]
        BY <2>3
      <3>2. IdleRec.pc = "idle"
        BY DEF IdleRec
      <3> QED
        BY <2>2, <3>1, <3>2
    <2>4. CASE ReconcileOrder(r) /\ rec' # [rec EXCEPT ![r] = IdleRec]
      <3> DEFINE e == [rec[r] EXCEPT !.pc = "trades",
                          !.found = exOrder[rec[r].order],
                          !.todo = {f \in Fills : exFills[rec[r].order][f] # {}}]
      <3>1. rec[r] \in RecRecords /\ rec[r].pc = "order" /\ exOrder[rec[r].order] # "none"
        BY <2>4 DEF ReconcileOrder, TypeOK, RecTypeOK
      <3>2. e.pc = "trades" /\ e.trade = rec[r].trade /\ e.order = rec[r].order
        BY <3>1 DEF RecRecords
      <3>3. rec' = [rec EXCEPT ![r] = e]
        BY <2>4 DEF ReconcileOrder
      <3> QED
        BY <2>2, <3>1, <3>2, <3>3
    <2>5. ASSUME NEW f \in Fills, ReconcileTrade(r, f)
          PROVE  RecBinding'
      <3>1. PICK x : rec' = [rec EXCEPT ![r].todo = @ \ {f}, ![r].got = @ \cup {x}]
        BY <2>5 DEF ReconcileTrade
      <3> DEFINE e == [rec[r] EXCEPT !.todo = @ \ {f}, !.got = @ \cup {x}]
      <3>2. rec[r] \in RecRecords /\ rec[r].pc = "trades"
        BY <2>5 DEF ReconcileTrade, TypeOK, RecTypeOK
      <3>3. e.pc = "trades" /\ e.trade = rec[r].trade /\ e.order = rec[r].order
        BY <3>2 DEF RecRecords
      <3>4. rec' = [rec EXCEPT ![r] = e]
        BY <3>1
      <3> QED
        BY <2>2, <3>2, <3>3, <3>4
    <2> QED
      BY <2>1, <2>3, <2>4, <2>5 DEF ReconcileStep, ReconcileMark, ReconcileWrite,
         ReconcileAbandon
  <1> QED
    BY <1>2, <1>3, <1>4, <1>5, <1>6 DEF PlacementInv, BindingInv

\* Cancellations move only rows that have an order, and only live orders.
LEMMA CancelPlacement ==
    ASSUME TypeOK, PlacementInv, Grows, NEW c \in Cancellers,
           \/ \E ts \in SUBSET Trades : CancelTrades(c, ts)
           \/ CancelAll(c)
           \/ \E t \in Trades : CancelMarket(c, t)
           \/ CancelStep(c) \/ CancelAbandon(c)
    PROVE  PlacementInv'
  <1>1. UNCHANGED <<hash, orderId, sub, rec, stream, wire, exFills>>
    BY DEF CancelTrades, CancelAll, CancelMarket, CancelStart, CancelStep, CancelMark,
       CancelCall, CancelApply, CancelAbandon, row, venue
  <1>2. \A o \in Orders : exOrder'[o] = exOrder[o] \/ exOrder[o] = "LIVE"
    <2>1. CASE CancelCall(c)
      <3>1. PICK os \in SUBSET {o \in CancelTargets(c) : exOrder[o] = "LIVE"} :
              exOrder' = [o \in Orders |-> IF o \in os THEN "CANCELED" ELSE exOrder[o]]
        BY <2>1 DEF CancelCall
      <3> QED
        BY <3>1
    <2>2. CASE UNCHANGED exOrder
      BY <2>2
    <2> QED
      BY <2>1, <2>2 DEF CancelTrades, CancelAll, CancelMarket, CancelStart, CancelStep,
         CancelMark, CancelApply, CancelAbandon, venue
  <1>3. \A o \in Orders : Untaken(o) => Untaken(o)'
    BY <1>1, <1>2 DEF Untaken
  <1>4. VenueBinding'
    BY <1>3, TakenKeepsVenueBinding DEF PlacementInv, BindingInv
  <1>5. SubBinding' /\ RecBinding' /\ StreamBinding'
    <2>1. SubBinding'
      BY <1>1 DEF PlacementInv, BindingInv, SubBinding, InFlight
    <2> QED
      BY <1>1, <2>1, FewerKeepsRecBinding, SameKeepsStreamBinding DEF PlacementInv, BindingInv
  <1>6. OrderIdIsOwn' /\ ReplyTruth'
    <2>1. \A t \in Trades :
            status'[t] = status[t] \/ status[t] \notin {"rejected", "reconciliation_required"}
      BY DEF CancelTrades, CancelAll, CancelMarket, CancelStart, CancelStep, CancelMark,
         CancelCall, CancelApply, CancelAbandon, Cancellable, row
    <2> QED
      BY <1>1, <2>1, SameKeepsOrderIds, SameKeepsReplyTruth DEF PlacementInv
  <1>7. NoFillBeforeOrder'
    <2> SUFFICES ASSUME NEW o \in Orders, exOrder'[o] = "none"
                 PROVE  \A f \in Fills : exFills'[o][f] = {}
      BY DEF NoFillBeforeOrder
    <2>1. exOrder[o] = "none"
      BY DEF Grows
    <2> QED
      BY <1>1, <2>1 DEF PlacementInv, NoFillBeforeOrder
  <1>8. \A t \in Trades :
          \/ status'[t] = status[t]
          \/ /\ status[t] \notin {"absent", "pending_signature"}
             /\ status'[t] \notin {"absent", "pending_signature"}
    <2>1. CASE CancelMark(c)
      BY <2>1 DEF CancelMark, Cancellable
    <2>2. CASE CancelApply(c)
      BY <2>2 DEF CancelApply
    <2>3. CASE UNCHANGED status
      BY <2>3
    <2> QED
      BY <2>1, <2>2, <2>3 DEF CancelTrades, CancelAll, CancelMarket, CancelStart,
         CancelStep, CancelCall, CancelAbandon, row
  <1>9. RowBinding'
    BY <1>1, <1>8, StatusKeepsRowBinding DEF PlacementInv, BindingInv
  <1> QED
    BY <1>4, <1>5, <1>6, <1>7, <1>9 DEF PlacementInv, BindingInv

\* No event applies to a row before its claim.
LEMMA UnclaimedIgnoresEvents ==
    ASSUME NEW target, NEW st \in AllowedPrevious(target)
    PROVE  /\ st \notin {"absent", "pending_signature"}
           /\ target \notin {"absent", "pending_signature"}
  BY DEF AllowedPrevious, Cancellable

LEMMA StreamPlacement ==
    ASSUME TypeOK, PlacementInv, Grows,
           \/ \E t \in Trades, target \in Statuses : StreamRead(t, target)
           \/ StreamApply \/ StreamAbandon
    PROVE  PlacementInv'
  <1>1. UNCHANGED <<hash, orderId, sub, rec, wire, exOrder, exFills>>
    BY DEF StreamRead, StreamApply, StreamAbandon, row, venue
  <1>2. VenueBinding' /\ SubBinding' /\ RecBinding'
    BY <1>1 DEF PlacementInv, BindingInv, VenueBinding, SubBinding, RecBinding,
       Untaken, InFlight
  <1>3. ReplyTruth' /\ NoFillBeforeOrder'
    BY <1>1 DEF PlacementInv, ReplyTruth, NoFillBeforeOrder, SomeFill
  <1>6. OrderIdIsOwn'
    <2>1. CASE StreamApply
      <3>1. \A t \in Trades : status'[t] = status[t] \/ exOrder[hash[t]] # "none"
        BY <2>1 DEF StreamApply, TypeOK, RowTypeOK, StreamBinding, PlacementInv, BindingInv
      <3> QED
        BY <1>1, <3>1, SameKeepsOrderIds DEF PlacementInv
    <2>2. CASE UNCHANGED status
      BY <1>1, <2>2, SameKeepsOrderIds DEF PlacementInv
    <2> QED
      BY <2>1, <2>2 DEF StreamRead, StreamAbandon, row
  <1>4. StreamBinding'
    <2>1. CASE \E t \in Trades, target \in Statuses : StreamRead(t, target)
      <3>1. PICK t \in Trades, target \in Statuses : StreamRead(t, target)
        BY <2>1
      <3>2. hash[t] = orderId[t] /\ hash[t] \in Orders
        BY <3>1, OrderNotNone DEF StreamRead, TypeOK, RowTypeOK, PlacementInv, OrderIdIsOwn
      <3>3. exOrder[hash[t]] # "none"
        <4>1. EventTargets(hash[t]) # {}
          BY <3>1, <3>2 DEF StreamRead
        <4>2. exOrder[hash[t]] = "CANCELED" \/ \E f \in Fills : exFills[hash[t]][f] # {}
          BY <4>1 DEF EventTargets
        <4> QED
          BY <3>2, <4>2 DEF PlacementInv, NoFillBeforeOrder
      <3>4. stream'.trade = t /\ hash[t] # None
        BY <3>1, <3>2, OrderNotNone DEF StreamRead
      <3> QED
        BY <1>1, <3>3, <3>4 DEF StreamBinding
    <2>2. CASE StreamApply \/ StreamAbandon
      BY <2>2, SameKeepsStreamBinding DEF StreamApply, StreamAbandon, PlacementInv,
         BindingInv
    <2> QED
      BY <2>1, <2>2
  <1>5. RowBinding'
    <2>1. CASE StreamApply
      <3>1. stream.trade \in Trades
        BY <2>1 DEF StreamApply, TypeOK, StreamTypeOK
      <3>2. \A t \in Trades :
               \/ status'[t] = status[t]
               \/ status[t] \in AllowedPrevious(stream.target) /\ status'[t] = stream.target
        BY <2>1, <3>1 DEF StreamApply, TypeOK, RowTypeOK
      <3>3. \A t \in Trades :
               \/ status'[t] = status[t]
               \/ /\ status[t] \notin {"absent", "pending_signature"}
                  /\ status'[t] \notin {"absent", "pending_signature"}
        BY <3>2, UnclaimedIgnoresEvents
      <3> QED
        BY <1>1, <3>3, StatusKeepsRowBinding DEF PlacementInv, BindingInv
    <2>2. CASE UNCHANGED status
      BY <1>1, <2>2 DEF PlacementInv, BindingInv, RowBinding
    <2> QED
      BY <2>1, <2>2 DEF StreamRead, StreamAbandon, row
  <1> QED
    BY <1>2, <1>3, <1>4, <1>5, <1>6 DEF PlacementInv, BindingInv

\* An answer reaches exactly the requests that wait for it.
LEMMA ReplyChanges ==
    ASSUME TypeOK, NEW o \in Orders, NEW kind \in Replies, Reply(o, kind),
           NEW s \in Submitters
    PROVE  /\ sub'[s].trade = sub[s].trade /\ sub'[s].order = sub[s].order
           /\ InFlight(s)' => InFlight(s)
           /\ \/ sub'[s] = sub[s]
              \/ sub'[s].pc = "finish" /\ sub'[s].reply = kind /\ sub[s].order = o
  <1>1. sub[s] \in SubRecords
    BY DEF TypeOK, SubTypeOK
  <1>2. sub'[s] = IF sub[s].pc = "wait" /\ sub[s].order = o
                  THEN [sub[s] EXCEPT !.pc = "finish", !.reply = kind] ELSE sub[s]
    BY DEF Reply
  <1>3. CASE sub[s].pc = "wait" /\ sub[s].order = o
    <2> DEFINE e == [sub[s] EXCEPT !.pc = "finish", !.reply = kind]
    <2>1. /\ e.trade = sub[s].trade /\ e.order = sub[s].order
          /\ e.pc = "finish" /\ e.reply = kind
      BY <1>1 DEF SubRecords
    <2> QED
      BY <1>2, <1>3, <2>1 DEF InFlight
  <1>4. CASE ~(sub[s].pc = "wait" /\ sub[s].order = o)
    BY <1>2, <1>4 DEF InFlight
  <1> QED
    BY <1>3, <1>4

\* The venue answers requests that wait, refusing them or saying what is true.
LEMMA VenueAnswers ==
    ASSUME TypeOK, Venue, NEW s \in Submitters
    PROVE  \/ sub'[s] = sub[s]
           \/ /\ sub[s].pc = "wait" /\ sub'[s].pc = "finish"
              /\ sub'[s].trade = sub[s].trade /\ sub'[s].order = sub[s].order
              /\ \/ sub'[s].reply \in Refusals \cup {"definite"}
                 \/ /\ exOrder[sub[s].order] # "none"
                    /\ sub'[s].reply = "confirmed" => SomeFill(sub[s].order, "CONFIRMED")
  <1>1. CASE UNCHANGED sub
    BY <1>1
  <1>2. ASSUME NEW q \in Submitters, VenueAnswer(q)
        PROVE  \/ sub'[s] = sub[s]
               \/ /\ sub[s].pc = "wait" /\ sub'[s].pc = "finish"
                  /\ sub'[s].trade = sub[s].trade /\ sub'[s].order = sub[s].order
                  /\ exOrder[sub[s].order] # "none"
                  /\ sub'[s].reply = "confirmed" => SomeFill(sub[s].order, "CONFIRMED")
    <2>1. PICK w \in TrueWords(sub[q].order) :
              sub' = [sub EXCEPT ![q].pc = "finish", ![q].reply = w]
      BY <1>2 DEF VenueAnswer
    <2>2. sub[q] \in SubRecords /\ sub[q].pc = "wait" /\ exOrder[sub[q].order] # "none"
      BY <1>2 DEF VenueAnswer, TypeOK, SubTypeOK
    <2>3. w = "confirmed" => SomeFill(sub[q].order, "CONFIRMED")
      BY <2>1 DEF TrueWords, Refusals
    <2> DEFINE e == [sub[q] EXCEPT !.pc = "finish", !.reply = w]
    <2>4. /\ e.pc = "finish" /\ e.reply = w
          /\ e.trade = sub[q].trade /\ e.order = sub[q].order
      BY <2>2 DEF SubRecords
    <2>5. sub' = [sub EXCEPT ![q] = e]
      BY <2>1, <2>2 DEF SubRecords, TypeOK, SubTypeOK
    <2>6. sub'[q] = e /\ (s # q => sub'[s] = sub[s])
      BY <2>5 DEF TypeOK, SubTypeOK
    <2> HIDE DEF e
    <2> QED
      BY <2>2, <2>3, <2>4, <2>6
  <1>3. ASSUME NEW o \in Orders, VenueRefuse(o)
        PROVE  \/ sub'[s] = sub[s]
               \/ /\ sub[s].pc = "wait" /\ sub'[s].pc = "finish"
                  /\ sub'[s].trade = sub[s].trade /\ sub'[s].order = sub[s].order
                  /\ sub'[s].reply \in Refusals \cup {"definite"}
    <2>1. PICK kind \in Refusals \cup {"definite"} : Reply(o, kind)
      BY <1>3 DEF VenueRefuse
    <2>2. kind \in Replies
      BY DEF Replies, Answered
    <2>3. sub'[s] = sub[s] \/ sub[s].pc = "wait"
      BY <2>1 DEF Reply
    <2> QED
      BY <2>1, <2>2, <2>3, ReplyChanges
  <1> QED
    BY <1>1, <1>2, <1>3 DEF Venue, VenueOrder, VenueAccept, VenueFill, VenueSettle, VenueClose

\* What the venue does with one order.
LEMMA VenueOrderPlacement ==
    ASSUME TypeOK, PlacementInv, Grows, NEW o \in Orders, VenueOrder(o)
    PROVE  VenueBinding' /\ NoFillBeforeOrder'
  <1>1. UNCHANGED <<row, rec, stream>>
    BY DEF VenueOrder, VenueAccept, VenueRefuse, VenueFill, VenueSettle, VenueClose
  <1>4. \/ VenueAccept(o) \/ VenueRefuse(o) \/ VenueClose(o)
        \/ \E f \in Fills : VenueFill(o, f) \/ VenueSettle(o, f)
    BY DEF VenueOrder
  <1>5. VenueTypeOK
    BY DEF TypeOK
  <1>6. \A p \in Orders : Untaken(p)' \/ ~Untaken(p) \/ \E t \in Trades : hash[t] = p
    <2>1. CASE VenueAccept(o)
      BY <1>5, <2>1 DEF VenueAccept, VenueTypeOK, Untaken
    <2>2. CASE VenueRefuse(o)
      BY <2>2 DEF VenueRefuse, Untaken
    <2>3. CASE VenueClose(o)
      BY <1>5, <2>3 DEF VenueClose, VenueTypeOK, Untaken
    <2>4. ASSUME NEW f \in Fills, VenueFill(o, f)
          PROVE  \A p \in Orders : Untaken(p)' \/ ~Untaken(p)
      BY <1>5, <2>4 DEF VenueFill, VenueTypeOK, Untaken
    <2>5. ASSUME NEW f \in Fills, VenueSettle(o, f)
          PROVE  \A p \in Orders : Untaken(p)' \/ ~Untaken(p)
      BY <2>5 DEF VenueSettle, Untaken
    <2> QED
      BY <1>4, <2>1, <2>2, <2>3, <2>4, <2>5
  <1>7. VenueBinding'
    BY <1>6, TakenKeepsVenueBinding DEF PlacementInv, BindingInv
  <1>11. NoFillBeforeOrder'
    <2> SUFFICES ASSUME NEW p \in Orders, exOrder'[p] = "none", NEW g \in Fills
                 PROVE  exFills'[p][g] = {}
      BY DEF NoFillBeforeOrder
    <2>1. exOrder[p] = "none"
      BY DEF Grows
    <2>2. exFills[p][g] = {}
      BY <2>1 DEF PlacementInv, NoFillBeforeOrder
    <2>3. CASE exFills'[p] = exFills[p]
      BY <2>2, <2>3
    <2>4. CASE VenueAccept(o)
      <3>1. exOrder'[o] # "none"
        BY <1>5, <2>4 DEF VenueAccept, VenueTypeOK
      <3>2. exFills'[p] = exFills[p]
        BY <1>5, <2>4, <3>1 DEF VenueAccept, VenueTypeOK
      <3> QED
        BY <2>3, <3>2
    <2>5. ASSUME NEW f \in Fills, VenueFill(o, f)
          PROVE  exFills'[p] = exFills[p]
      BY <1>5, <2>1, <2>5 DEF VenueFill, VenueTypeOK
    <2>6. ASSUME NEW f \in Fills, VenueSettle(o, f)
          PROVE  exFills'[p] = exFills[p]
      <3>1. exFills[o][f] # {}
        BY <2>6 DEF VenueSettle, SettlementSteps
      <3>2. p # o
        BY <2>1, <3>1 DEF PlacementInv, NoFillBeforeOrder
      <3>3. PICK x : exFills' = [exFills EXCEPT ![o][f] = @ \cup {x}]
        BY <2>6 DEF VenueSettle
      <3> QED
        BY <1>5, <3>2, <3>3 DEF VenueTypeOK
    <2> QED
      BY <1>4, <2>3, <2>4, <2>5, <2>6 DEF VenueRefuse, VenueClose
  <1> QED
    BY <1>7, <1>11

LEMMA VenuePlacement ==
    ASSUME TypeOK, PlacementInv, Grows, Venue
    PROVE  PlacementInv'
  <1>1. UNCHANGED <<row, rec, stream>>
    BY DEF Venue, VenueAnswer, VenueOrder, VenueAccept, VenueRefuse, VenueFill, VenueSettle,
       VenueClose
  <1>2. RowBinding' /\ RecBinding' /\ StreamBinding'
    <2>1. RowBinding'
      BY <1>1 DEF row, PlacementInv, BindingInv, RowBinding
    <2> QED
      BY <1>1, <2>1, FewerKeepsRecBinding, SameKeepsStreamBinding DEF PlacementInv, BindingInv
  <1>3. OrderIdIsOwn'
    BY <1>1, SameKeepsOrderIds DEF row, PlacementInv
  <1>4. VenueBinding' /\ NoFillBeforeOrder'
    <2>1. ASSUME NEW s \in Submitters, VenueAnswer(s)
          PROVE  VenueBinding' /\ NoFillBeforeOrder'
      BY <1>1, <2>1 DEF VenueAnswer, row, venue, PlacementInv, BindingInv, VenueBinding,
         NoFillBeforeOrder, Untaken
    <2> QED
      BY <2>1, VenueOrderPlacement DEF Venue
  <1>5. SubBinding'
    BY VenueAnswers, FewerKeepsSubBinding DEF PlacementInv, BindingInv, InFlight
  <1>6. ReplyTruth'
    <2> SUFFICES ASSUME NEW s \in Submitters, sub'[s].pc = "finish"
                 PROVE  /\ sub'[s].reply \in Answered \ Refusals
                              => exOrder'[sub'[s].order] # "none"
                        /\ sub'[s].reply = "confirmed"
                              => SomeFill(sub[s].order, "CONFIRMED")'
      BY DEF ReplyTruth
    <2>1. sub[s].order \in Orders /\ sub'[s].order = sub[s].order
      BY VenueAnswers DEF TypeOK, SubTypeOK
    <2>2. /\ sub'[s].reply \in Answered \ Refusals => exOrder[sub[s].order] # "none"
          /\ sub'[s].reply = "confirmed" => SomeFill(sub[s].order, "CONFIRMED")
      BY VenueAnswers DEF PlacementInv, ReplyTruth, Answered, Refusals
    <2>3. exOrder[sub[s].order] # "none" => exOrder'[sub[s].order] # "none"
      BY <2>1 DEF Grows
    <2>4. SomeFill(sub[s].order, "CONFIRMED") => SomeFill(sub[s].order, "CONFIRMED")'
      BY <2>1 DEF Grows, SomeFill
    <2> QED
      BY <2>1, <2>2, <2>3, <2>4
  <1> QED
    BY <1>2, <1>3, <1>4, <1>5, <1>6 DEF PlacementInv, BindingInv

-----------------------------------------------------------------------------
LEMMA InitPlacement == Init => PlacementInv
  <1> SUFFICES ASSUME Init PROVE PlacementInv
    OBVIOUS
  <1>1. RowBinding /\ VenueBinding /\ OrderIdIsOwn /\ NoFillBeforeOrder
    BY DEF Init, RowBinding, VenueBinding, Untaken, OrderIdIsOwn, NoFillBeforeOrder
  <1>2. SubBinding /\ ReplyTruth
    BY DEF Init, SubBinding, InFlight, ReplyTruth, IdleSub
  <1>3. RecBinding /\ StreamBinding
    BY DEF Init, RecBinding, StreamBinding, IdleRec, IdleStream
  <1> QED
    BY <1>1, <1>2, <1>3 DEF PlacementInv, BindingInv

LEMMA NextPlacement == TypeOK /\ PlacementInv /\ [Next]_vars => PlacementInv'
  <1> SUFFICES ASSUME TypeOK, PlacementInv, [Next]_vars PROVE PlacementInv'
    OBVIOUS
  <1>1. Grows
    BY NextGrows DEF PlacementInv
  <1>2. CASE UNCHANGED vars
    BY <1>2 DEF vars, row, venue, PlacementInv, BindingInv, RowBinding, VenueBinding,
       SubBinding, RecBinding, StreamBinding, OrderIdIsOwn, ReplyTruth,
       NoFillBeforeOrder, Untaken, InFlight, SomeFill
  <1>3. CASE Next
    BY <1>1, <1>3, RowTimePlacement, SubmitPlacement, ReconcilePlacement,
       CancelPlacement, StreamPlacement, VenuePlacement DEF Next
  <1> QED
    BY <1>2, <1>3

\* The orders, hashes and order ids of the rows, the handlers' locals and the venue
\* stay consistent: the inductive invariant of everything below.
THEOREM PlacementIsInvariant == Spec => [](TypeOK /\ PlacementInv)
  <1>1. Init => TypeOK /\ PlacementInv
    BY InitTypeOK, InitPlacement
  <1>2. TypeOK /\ PlacementInv /\ [Next]_vars => TypeOK' /\ PlacementInv'
    BY NextTypeOK, NextPlacement
  <1> QED
    BY <1>1, <1>2, PTL DEF Spec

\* Whatever the venue holds or is being sent was recorded before by exactly one trade.
THEOREM OrdersClaimed == Spec => []OrdersAreClaimed
  <1>1. TypeOK /\ PlacementInv => OrdersAreClaimed
    <2> SUFFICES ASSUME PlacementInv, NEW o \in Orders, ~Untaken(o)
                 PROVE  \E t \in Trades :
                            /\ hash[t] = o
                            /\ status[t] \notin {"absent", "pending_signature"}
                            /\ \A u \in Trades \ {t} : hash[u] # o
      BY DEF OrdersAreClaimed, Untaken
    <2>1. PICK t \in Trades : hash[t] = o
      BY DEF PlacementInv, BindingInv, VenueBinding
    <2> QED
      BY <2>1, OrderNotNone DEF PlacementInv, BindingInv, RowBinding
  <1> QED
    BY <1>1, PlacementIsInvariant, PTL

\* A provider order id never comes from another trade's order.
THEOREM OrderIdsOwn == Spec => []OrderIdIsOwn
  <1>1. TypeOK /\ PlacementInv => OrderIdIsOwn
    BY DEF PlacementInv
  <1> QED
    BY <1>1, PlacementIsInvariant, PTL

\* A trade never changes the signed order it is bound to.
THEOREM BindingKept == Spec => OrderBinding
  <1>1. TypeOK /\ PlacementInv /\ [Next]_vars =>
            [\A t \in Trades : hash[t] # None => hash'[t] = hash[t]]_vars
    BY NextGrows DEF PlacementInv, Grows
  <1> QED
    BY <1>1, PlacementIsInvariant, PTL DEF Spec, OrderBinding

\* Submission, reconciliation, cancellation and the stream together implement the
\* abstract placement of orders: claims bind, the venue's acceptance places, and
\* nothing else is visible.
THEOREM PlacementImplemented == Spec => PlacementSpec
  <1> DEFINE placed == {o \in Orders : exOrder[o] # "none"}
  <1>1. Init => Placement!Init
    BY DEF Init, Placement!Init
  <1>2. ASSUME TypeOK, PlacementInv, [Next]_vars
        PROVE  [Placement!Next]_<<hash, placed>>
    <2>0. Grows
      BY <1>2, NextGrows DEF PlacementInv
    <2>1. ASSUME NEW s \in Submitters, SubmitClaim(s)
          PROVE  [Placement!Next]_<<hash, placed>>
      <3> DEFINE t == sub[s].trade
                 o == sub[s].order
      <3>1. t \in Trades /\ o \in Orders
        BY <1>2, <2>1 DEF SubmitClaim, TypeOK, SubTypeOK
      <3>2. /\ hash' = [hash EXCEPT ![t] = o]
            /\ hash[t] \in {None, o}
            /\ \A u \in Trades \ {t} : hash[u] # o
            /\ placed' = placed
        BY <2>1 DEF SubmitClaim, ClaimAllowed, venue
      <3>3. CASE hash[t] = o
        BY <1>2, <3>1, <3>2, <3>3 DEF TypeOK, RowTypeOK
      <3>4. CASE hash[t] = None
        BY <3>1, <3>2, <3>4, OrderNotNone DEF Placement!Next, Placement!Bind
      <3> QED
        BY <3>2, <3>3, <3>4
    <2>2. ASSUME NEW o \in Orders, VenueAccept(o)
          PROVE  [Placement!Next]_<<hash, placed>>
      <3>1. hash' = hash /\ exOrder[o] = "none" /\ ~Untaken(o)
        BY <2>2 DEF VenueAccept, Untaken, row
      <3>2. PICK t \in Trades : hash[t] = o
        BY <1>2, <3>1 DEF PlacementInv, BindingInv, VenueBinding
      <3>3. /\ exOrder'[o] # "none"
            /\ \A p \in Orders \ {o} : exOrder'[p] = exOrder[p]
        BY <1>2, <2>2 DEF VenueAccept, TypeOK, VenueTypeOK
      <3>4. placed' = placed \cup {o}
        BY <3>3
      <3>5. Placement!Place(o)
        BY <3>1, <3>2, <3>4 DEF Placement!Place
      <3> QED
        BY <3>5 DEF Placement!Next
    <2>3. ASSUME UNCHANGED hash,
                 \A o \in Orders : exOrder[o] = "none" => exOrder'[o] = "none"
          PROVE  [Placement!Next]_<<hash, placed>>
      <3>1. placed' = placed
        BY <2>0, <2>3 DEF Grows
      <3> QED
        BY <2>3, <3>1
    <2>4. ASSUME NEW c \in Cancellers, CancelCall(c)
          PROVE  UNCHANGED hash /\
                 \A o \in Orders : exOrder[o] = "none" => exOrder'[o] = "none"
      BY <2>4 DEF CancelCall, row
    <2>16. ASSUME NEW s \in Submitters, VenueAnswer(s)
           PROVE  UNCHANGED <<hash, exOrder>>
      BY <2>16 DEF VenueAnswer, row, venue
    <2>5. ASSUME NEW o \in Orders,
                 \/ VenueRefuse(o) \/ VenueClose(o)
                 \/ \E f \in Fills : VenueFill(o, f) \/ VenueSettle(o, f)
          PROVE  UNCHANGED hash /\
                 \A p \in Orders : exOrder[p] = "none" => exOrder'[p] = "none"
      BY <1>2, <2>5 DEF VenueRefuse, VenueClose, VenueFill, VenueSettle, row, TypeOK,
         VenueTypeOK
    <2>6. CASE UNCHANGED <<hash, exOrder>>
      BY <2>3, <2>6
    <2>7. CASE UNCHANGED vars
      BY <2>6, <2>7 DEF vars, row, venue
    <2>8. CASE \E t \in Trades : CreateIntent(t) \/ Age(t)
      BY <2>6, <2>8 DEF CreateIntent, Age, venue
    <2>9. ASSUME NEW s \in Submitters, ~SubmitClaim(s),
                 \/ \E t \in Trades, o \in Orders : SubmitRead(s, t, o)
                 \/ SubmitStep(s) \/ SubmitAbandon(s)
          PROVE  UNCHANGED <<hash, exOrder>>
      BY <2>9 DEF SubmitRead, SubmitStep, SubmitAbandon, SubmitConflict, SubmitPost,
         SubmitUnsent, SubmitTimeout, SubmitFinish, row, venue
    <2>10. ASSUME NEW r \in Reconcilers,
                  \/ \E t \in Trades : ReconcileRead(r, t)
                  \/ ReconcileStep(r) \/ ReconcileAbandon(r)
           PROVE  UNCHANGED <<hash, exOrder>>
      BY <2>10 DEF ReconcileRead, ReconcileStep, ReconcileMark, ReconcileOrder,
         ReconcileTrade, ReconcileWrite, ReconcileAbandon, row, venue
    <2>11. ASSUME NEW c \in Cancellers, ~CancelCall(c),
                  \/ \E ts \in SUBSET Trades : CancelTrades(c, ts)
                  \/ CancelAll(c)
                  \/ \E t \in Trades : CancelMarket(c, t)
                  \/ CancelStep(c) \/ CancelAbandon(c)
           PROVE  UNCHANGED <<hash, exOrder>>
      BY <2>11 DEF CancelTrades, CancelAll, CancelMarket, CancelStart, CancelStep,
         CancelMark, CancelApply, CancelAbandon, row, venue
    <2>12. CASE \/ \E t \in Trades, target \in Statuses : StreamRead(t, target)
                \/ StreamApply \/ StreamAbandon
      BY <2>6, <2>12 DEF StreamRead, StreamApply, StreamAbandon, row, venue
    <2>13. CASE \E s \in Submitters :
                  \/ \E t \in Trades, o \in Orders : SubmitRead(s, t, o)
                  \/ SubmitStep(s) \/ SubmitAbandon(s)
      BY <2>1, <2>6, <2>9, <2>13
    <2>14. CASE \E c \in Cancellers :
                  \/ \E ts \in SUBSET Trades : CancelTrades(c, ts)
                  \/ CancelAll(c)
                  \/ \E t \in Trades : CancelMarket(c, t)
                  \/ CancelStep(c) \/ CancelAbandon(c)
      BY <2>3, <2>4, <2>6, <2>11, <2>14
    <2>15. CASE Venue
      BY <2>2, <2>3, <2>5, <2>6, <2>15, <2>16 DEF Venue, VenueOrder
    <2> QED
      BY <1>2, <2>6, <2>7, <2>8, <2>10, <2>12, <2>13, <2>14, <2>15 DEF Next
  <1> QED
    BY <1>1, <1>2, PlacementIsInvariant, PTL DEF Spec, PlacementSpec, Placement!Spec

-----------------------------------------------------------------------------
(* What is settled.                                                        *)

SettledStatus == {"filled", "cancelled", "rejected"}

\* Every statement but those of a reconciliation compares the status it finds.
LEMMA StatusSettles ==
    ASSUME TypeOK, [Next]_vars, NEW t \in Trades, status[t] \in SettledStatus,
           \A r \in Reconcilers : rec[r].pc # "idle" => rec[r].trade # t
    PROVE  status'[t] = status[t]
  <1>0. status \in [Trades -> Statuses \cup {"absent"}]
    BY DEF TypeOK, RowTypeOK
  <1>1. ASSUME NEW u \in Trades, CreateIntent(u) PROVE status'[t] = status[t]
    BY <1>0, <1>1 DEF CreateIntent, SettledStatus
  <1>2. ASSUME NEW s \in Submitters, SubmitClaim(s) PROVE status'[t] = status[t]
    BY <1>0, <1>2 DEF SubmitClaim, ClaimAllowed, Claimable, SettledStatus
  <1>3. ASSUME NEW s \in Submitters, SubmitFinish(s) PROVE status'[t] = status[t]
    BY <1>0, <1>3 DEF SubmitFinish, SettledStatus, row
  <1>4. ASSUME NEW r \in Reconcilers, ReconcileMark(r) \/ ReconcileWrite(r)
        PROVE  status'[t] = status[t]
    <2>1. rec[r].trade # t
      BY <1>4 DEF ReconcileMark, ReconcileWrite
    <2> QED
      BY <1>0, <1>4, <2>1 DEF ReconcileMark, ReconcileWrite
  <1>5. ASSUME NEW c \in Cancellers, CancelMark(c) \/ CancelApply(c)
        PROVE  status'[t] = status[t]
    BY <1>0, <1>5 DEF CancelMark, CancelApply, Cancellable, SettledStatus
  <1>6. CASE StreamApply
    <2>1. status[t] \notin AllowedPrevious(stream.target)
      BY DEF AllowedPrevious, Cancellable, SettledStatus
    <2> QED
      BY <1>0, <1>6, <2>1 DEF StreamApply
  <1>7. CASE UNCHANGED status
    BY <1>7
  <1>8. ASSUME NEW s \in Submitters,
               \/ \E u \in Trades, o \in Orders : SubmitRead(s, u, o)
               \/ SubmitConflict(s) \/ SubmitPost(s) \/ SubmitUnsent(s) \/ SubmitTimeout(s)
               \/ SubmitAbandon(s)
        PROVE  UNCHANGED status
    BY <1>8 DEF SubmitRead, SubmitConflict, SubmitPost, SubmitUnsent, SubmitTimeout,
                SubmitAbandon, row
  <1>9. ASSUME NEW r \in Reconcilers,
               \/ \E u \in Trades : ReconcileRead(r, u)
               \/ ReconcileOrder(r) \/ ReconcileAbandon(r)
               \/ \E f \in Fills : ReconcileTrade(r, f)
        PROVE  UNCHANGED status
    BY <1>9 DEF ReconcileRead, ReconcileOrder, ReconcileTrade, ReconcileAbandon, row
  <1>10. ASSUME NEW c \in Cancellers,
                \/ \E ts \in SUBSET Trades : CancelTrades(c, ts)
                \/ CancelAll(c)
                \/ \E u \in Trades : CancelMarket(c, u)
                \/ CancelCall(c) \/ CancelAbandon(c)
         PROVE  UNCHANGED status
    BY <1>10 DEF CancelTrades, CancelAll, CancelMarket, CancelStart, CancelCall,
                 CancelAbandon, row
  <1>11. CASE \/ \E u \in Trades : Age(u)
              \/ \E u \in Trades, target \in Statuses : StreamRead(u, target)
              \/ StreamAbandon
    BY <1>11 DEF Age, StreamRead, StreamAbandon, row
  <1>12. Venue => UNCHANGED status
    BY DEF Venue, VenueAnswer, VenueOrder, VenueAccept, VenueRefuse, VenueFill, VenueSettle,
       VenueClose, row
  <1>13. UNCHANGED vars => UNCHANGED status
    BY DEF vars, row
  <1> QED
    BY <1>1, <1>2, <1>3, <1>4, <1>5, <1>6, <1>7, <1>8, <1>9, <1>10, <1>11, <1>12, <1>13
       DEF Next, SubmitStep, ReconcileStep, CancelStep

\* None begins to reconcile what is settled.
LEMMA NoneReconciles ==
    ASSUME TypeOK, [Next]_vars, NEW t \in Trades, Settled(t)
    PROVE  \A r \in Reconcilers : rec'[r].pc # "idle" => rec'[r].trade # t
  <1>0. rec \in [Reconcilers -> RecRecords]
        /\ (\A r \in Reconcilers : rec[r].pc # "idle" => rec[r].trade # t)
    BY DEF TypeOK, RecTypeOK, Settled
  <1>1. ASSUME NEW q \in Reconcilers, NEW x, rec' = [rec EXCEPT ![q] = x],
               x.pc # "idle" => x.trade # t
        PROVE  \A r \in Reconcilers : rec'[r].pc # "idle" => rec'[r].trade # t
    BY <1>0, <1>1
  <1>2. ASSUME NEW q \in Reconcilers, NEW u \in Trades, ReconcileRead(q, u)
        PROVE  \A r \in Reconcilers : rec'[r].pc # "idle" => rec'[r].trade # t
    <2>1. u # t
      BY <1>2 DEF ReconcileRead, Settled, Terminal
    <2>2. \/ rec' = [rec EXCEPT ![q] = [IdleRec EXCEPT !.pc = "mark", !.trade = u]]
          \/ rec' = [rec EXCEPT ![q] = [IdleRec EXCEPT !.pc = "order", !.trade = u,
                                                       !.order = orderId[u]]]
      BY <1>2 DEF ReconcileRead
    <2>3. [IdleRec EXCEPT !.pc = "mark", !.trade = u].trade = u
      BY DEF IdleRec
    <2>4. [IdleRec EXCEPT !.pc = "order", !.trade = u, !.order = orderId[u]].trade = u
      BY DEF IdleRec
    <2> QED
      BY <1>1, <2>1, <2>2, <2>3, <2>4
  <1>3. ASSUME NEW q \in Reconcilers, rec' = [rec EXCEPT ![q] = IdleRec]
        PROVE  \A r \in Reconcilers : rec'[r].pc # "idle" => rec'[r].trade # t
    <2>1. rec' = [rec EXCEPT ![q] = IdleRec] /\ IdleRec.pc = "idle"
      BY <1>3 DEF IdleRec
    <2> QED
      BY <1>1, <2>1
  <1>4. ASSUME NEW q \in Reconcilers, ReconcileOrder(q), rec' # [rec EXCEPT ![q] = IdleRec]
        PROVE  \A r \in Reconcilers : rec'[r].pc # "idle" => rec'[r].trade # t
    <2> DEFINE e == [rec[q] EXCEPT !.pc = "trades",
                        !.found = exOrder[rec[q].order],
                        !.todo = {f \in Fills : exFills[rec[q].order][f] # {}}]
    <2>1. rec[q] \in RecRecords /\ rec[q].pc = "order"
      BY <1>0, <1>4 DEF ReconcileOrder
    <2>2. e.trade = rec[q].trade
      BY <2>1 DEF RecRecords
    <2>3. rec' = [rec EXCEPT ![q] = e]
      BY <1>4 DEF ReconcileOrder
    <2>4. e.trade # t
      BY <1>0, <2>1, <2>2
    <2> HIDE DEF e
    <2> QED
      BY <1>1, <2>3, <2>4
  <1>11. ASSUME NEW q \in Reconcilers, NEW f \in Fills, ReconcileTrade(q, f)
         PROVE  \A r \in Reconcilers : rec'[r].pc # "idle" => rec'[r].trade # t
    <2>0. PICK x : rec' = [rec EXCEPT ![q].todo = @ \ {f}, ![q].got = @ \cup {x}]
      BY <1>11 DEF ReconcileTrade
    <2> DEFINE e == [rec[q] EXCEPT !.todo = @ \ {f}, !.got = @ \cup {x}]
    <2>1. rec[q] \in RecRecords /\ rec[q].pc = "trades"
      BY <1>0, <1>11 DEF ReconcileTrade
    <2>2. e.trade = rec[q].trade
      BY <2>1 DEF RecRecords
    <2>3. rec' = [rec EXCEPT ![q] = e]
      BY <2>0
    <2>4. e.trade # t
      BY <1>0, <2>1, <2>2
    <2> HIDE DEF e
    <2> QED
      BY <1>1, <2>3, <2>4
  <1>5. CASE UNCHANGED rec
    BY <1>0, <1>5
  <1>6. ASSUME NEW s \in Submitters,
               \/ \E u \in Trades, o \in Orders : SubmitRead(s, u, o)
               \/ SubmitStep(s) \/ SubmitAbandon(s)
        PROVE  UNCHANGED rec
    BY <1>6 DEF SubmitRead, SubmitStep, SubmitClaim, SubmitConflict, SubmitPost, SubmitUnsent,
                SubmitTimeout, SubmitFinish, SubmitAbandon
  <1>7. ASSUME NEW c \in Cancellers,
               \/ \E ts \in SUBSET Trades : CancelTrades(c, ts)
               \/ CancelAll(c)
               \/ \E u \in Trades : CancelMarket(c, u)
               \/ CancelStep(c) \/ CancelAbandon(c)
        PROVE  UNCHANGED rec
    BY <1>7 DEF CancelTrades, CancelAll, CancelMarket, CancelStart, CancelStep, CancelMark,
                CancelCall, CancelApply, CancelAbandon
  <1>8. CASE \/ \E u \in Trades : CreateIntent(u) \/ Age(u)
             \/ \E u \in Trades, target \in Statuses : StreamRead(u, target)
             \/ StreamApply \/ StreamAbandon
    BY <1>5, <1>8 DEF CreateIntent, Age, StreamRead, StreamApply, StreamAbandon
  <1>9. Venue => UNCHANGED rec
    BY DEF Venue, VenueAnswer, VenueOrder, VenueAccept, VenueRefuse, VenueFill, VenueSettle,
       VenueClose
  <1>10. UNCHANGED vars => UNCHANGED rec
    BY DEF vars
  <1> QED
    BY <1>2, <1>3, <1>4, <1>5, <1>6, <1>7, <1>8, <1>9, <1>10, <1>11 DEF Next, ReconcileStep,
       ReconcileMark, ReconcileWrite, ReconcileAbandon

\* A trade that is filled, cancelled or rejected while no reconciliation of it is under
\* way stays so for ever, whatever else is in flight.
THEOREM SettledStaysSettled == Spec => SettledStays
  <1>1. TypeOK /\ [Next]_vars =>
          [\A t \in Trades : Settled(t) => Settled(t)' /\ status'[t] = status[t]]_vars
    <2> SUFFICES ASSUME TypeOK, [Next]_vars, NEW t \in Trades, Settled(t)
                 PROVE  Settled(t)' /\ status'[t] = status[t]
      OBVIOUS
    <2>1. status'[t] = status[t]
      BY StatusSettles DEF Settled, SettledStatus
    <2> QED
      BY <2>1, NoneReconciles DEF Settled
  <1> QED
    BY <1>1, TypeCorrect, PTL DEF Spec, SettledStays
=============================================================================
