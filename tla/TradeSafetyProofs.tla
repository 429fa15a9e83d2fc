-------------------------- MODULE TradeSafetyProofs --------------------------
(***************************************************************************)
(* The statuses of TradeIntents tell the truth about the venue, and no     *)
(* order is posted blindly a second time: SafetyInv is an inductive        *)
(* invariant.  At most one request of a trade is between its claim and its *)
(* final write as long as no fill of its order has failed (SubExclusive);  *)
(* that is what makes a refusal it sees, or the terminal status it writes, *)
(* a statement about the order and not about one of several requests.      *)
(***************************************************************************)
EXTENDS TradeIntentsProofs

\* The order stays unknown to the venue.
StillUntaken(o) == exOrder'[o] = "none" /\ o \notin wire'

LEMMA BoundRow ==
    ASSUME TypeOK, PlacementInv, NEW t \in Trades,
           status[t] \notin {"absent", "pending_signature"}
    PROVE  hash[t] # None /\ hash[t] \in Orders
  BY DEF TypeOK, RowTypeOK, PlacementInv, BindingInv, RowBinding

LEMMA GrowsHash ==
    ASSUME Grows, NEW t \in Trades, hash[t] # None
    PROVE  hash'[t] = hash[t]
  BY DEF Grows

\* Truth about a row survives growth, unless an untaken order is taken.
LEMMA TruthGrows ==
    ASSUME TypeOK, PlacementInv, Grows, NEW t \in Trades, hash[t] # None,
           NEW st, StatusTruth(t, st),
           st \in {"failed", "rejected"} =>
              \/ ~Untaken(hash[t]) \/ StillUntaken(hash[t])
              \/ SomeFill(hash[t], "FAILED")
    PROVE  StatusTruth(t, st)'
  <1>1. hash[t] \in Orders /\ hash'[t] = hash[t]
    BY DEF TypeOK, RowTypeOK, Grows
  <1>2. \A x : SomeFill(hash[t], x) => SomeFill(hash[t], x)'
    BY <1>1, GrowsFill
  <1>3. exOrder[hash[t]] \in {"CANCELED", "INVALID"} => exOrder'[hash[t]] = exOrder[hash[t]]
    BY <1>1 DEF Grows
  <1> QED
    BY <1>1, <1>2, <1>3 DEF StatusTruth, Untaken, StillUntaken

\* The rows stay true if every new status was true when it was written.
LEMMA TrueWrites ==
    ASSUME TypeOK, PlacementInv, RowTruth, Grows,
           \A t \in Trades :
              \/ status'[t] = status[t]
              \/ hash[t] # None /\ StatusTruth(t, status'[t])
              \/ status'[t] \notin Terminal,
           \A t \in Trades : hash[t] # None /\ status'[t] \in {"failed", "rejected"} =>
              \/ ~Untaken(hash[t]) \/ StillUntaken(hash[t])
              \/ SomeFill(hash[t], "FAILED")
    PROVE  RowTruth'
  <1> SUFFICES ASSUME NEW t \in Trades PROVE StatusTruth(t, status[t])'
    BY DEF RowTruth
  <1>1. CASE status'[t] \notin Terminal
    BY <1>1 DEF Terminal, StatusTruth
  <1>2. CASE status'[t] \in Terminal
    <2>1. StatusTruth(t, status'[t]) /\ hash[t] # None
      BY <1>2, BoundRow DEF RowTruth, Terminal
    <2> DEFINE st == status'[t]
    <2>2. StatusTruth(t, st)
      BY <2>1
    <2>3. st \in {"failed", "rejected"} =>
              \/ ~Untaken(hash[t]) \/ StillUntaken(hash[t])
              \/ SomeFill(hash[t], "FAILED")
      BY <2>1
    <2> QED
      BY <2>1, <2>2, <2>3, TruthGrows DEF StatusTruth
  <1> QED
    BY <1>1, <1>2

-----------------------------------------------------------------------------
(* What keeps a request in flight exclusive.                               *)

Excluded(s) == SomeFill(sub[s].order, "FAILED") \/ Exclusive(s)

\* The statuses a step may write on the row of a request in flight.
HarmlessStatus(t) ==
    \/ status'[t] = status[t]
    \/ status'[t] \notin {"failed", "rejected"}
    \/ status'[t] = "rejected" /\ exOrder'[hash[t]] = "INVALID"
    \/ SomeFill(hash[t], "FAILED")

LEMMA InFlightBound ==
    ASSUME TypeOK, PlacementInv, NEW s \in Submitters, InFlight(s)
    PROVE  /\ sub[s].trade \in Trades /\ sub[s].order \in Orders
           /\ hash[sub[s].trade] = sub[s].order
           /\ hash[sub[s].trade] # None
           /\ status[sub[s].trade] \notin {"absent", "pending_signature"}
  <1>1. sub[s].trade \in Trades /\ sub[s].order \in Orders
    BY DEF InFlight, TypeOK, SubTypeOK
  <1>2. hash[sub[s].trade] = sub[s].order
    BY DEF PlacementInv, BindingInv, SubBinding
  <1> QED
    BY <1>1, <1>2, OrderNotNone DEF PlacementInv, BindingInv, RowBinding

\* What a request knows of its order stays true while the order is not taken.
LEMMA KeepsNothingTaken ==
    ASSUME Grows, NEW s \in Submitters, sub[s].order \in Orders, sub'[s] = sub[s],
           Untaken(sub[s].order) => StillUntaken(sub[s].order), NothingTaken(s)
    PROVE  NothingTaken(s)'
  <1>1. exOrder[sub[s].order] = "INVALID" => exOrder'[sub[s].order] = "INVALID"
    BY DEF Grows
  <1> QED
    BY <1>1 DEF NothingTaken, Untaken, StillUntaken

LEMMA StaysExcluded ==
    ASSUME TypeOK, PlacementInv, Grows, SubExclusive,
           NEW s \in Submitters, InFlight(s),
           sub'[s].trade = sub[s].trade, sub'[s].order = sub[s].order,
           \A q \in Submitters \ {s} : InFlight(q)' =>
              \/ InFlight(q) /\ sub'[q].trade = sub[q].trade
              \/ sub'[q].trade # sub[s].trade
              \/ SomeFill(sub[s].order, "FAILED"),
           HarmlessStatus(sub[s].trade),
           SomeFill(sub[s].order, "FAILED") \/ NothingTaken(s)'
    PROVE  Excluded(s)'
  <1> DEFINE t == sub[s].trade
             o == sub[s].order
  <1>1. t \in Trades /\ o \in Orders /\ hash[t] = o /\ hash[t] # None
    BY InFlightBound
  <1>2. CASE SomeFill(o, "FAILED")
    <2>1. SomeFill(o, "FAILED")'
      BY <1>1, <1>2, GrowsFill
    <2> QED
      BY <2>1 DEF Excluded
  <1>3. CASE ~SomeFill(o, "FAILED")
    <2>1. Exclusive(s)
      BY <1>3 DEF SubExclusive
    <2>2. \A q \in Submitters \ {s} : InFlight(q)' => sub'[q].trade # t
      BY <1>3, <2>1 DEF Exclusive
    <2>3. status'[t] # "failed"
      BY <1>1, <1>3, <2>1 DEF Exclusive, HarmlessStatus
    <2>4. status'[t] = "rejected" => exOrder'[o] = "INVALID"
      BY <1>1, <1>3, <2>1 DEF Exclusive, HarmlessStatus, Grows
    <2>5. NothingTaken(s)'
      BY <1>3
    <2>6. sub'[s].trade = t /\ sub'[s].order = o
      OBVIOUS
    <2>7. Exclusive(s)'
      BY <2>2, <2>3, <2>4, <2>5, <2>6 DEF Exclusive, InFlight
    <2> QED
      BY <2>7 DEF Excluded
  <1> QED
    BY <1>2, <1>3

\* For the steps of the other processes: the requests stay where they are.
LEMMA OthersExcluded ==
    ASSUME TypeOK, PlacementInv, Grows, SubExclusive, UNCHANGED sub,
           \A t \in Trades : HarmlessStatus(t),
           \A o \in Orders : Untaken(o) => StillUntaken(o)
    PROVE  SubExclusive'
  <1> SUFFICES ASSUME NEW s \in Submitters, InFlight(s)'
               PROVE  Excluded(s)'
    BY DEF SubExclusive, Excluded
  <1>1. InFlight(s)
    BY DEF InFlight
  <1>2. sub[s].trade \in Trades /\ sub[s].order \in Orders
    BY <1>1, InFlightBound
  <1>3. Excluded(s)
    BY <1>1 DEF SubExclusive, Excluded
  <1>4. SomeFill(sub[s].order, "FAILED") \/ NothingTaken(s)'
    BY <1>2, <1>3, KeepsNothingTaken DEF Excluded, Exclusive
  <1> QED
    BY <1>1, <1>2, <1>4, StaysExcluded DEF InFlight

-----------------------------------------------------------------------------
(* What the worker and the handlers have learnt of the venue stays true.   *)

LEMMA StreamStaysTrue ==
    ASSUME TypeOK, PlacementInv, Grows, StreamTruth, UNCHANGED stream
    PROVE  StreamTruth'
  <1> SUFFICES ASSUME stream.pc = "apply" PROVE StreamTruth'
    BY DEF StreamTruth
  <1>1. stream.trade \in Trades /\ hash[stream.trade] # None
    BY DEF TypeOK, StreamTypeOK, PlacementInv, BindingInv, StreamBinding
  <1>2. hash'[stream.trade] = hash[stream.trade] /\ hash[stream.trade] \in Orders
    BY <1>1 DEF Grows, TypeOK, RowTypeOK
  <1>3. \A x : SomeFill(hash[stream.trade], x) => SomeFill(hash[stream.trade], x)'
    BY <1>1, <1>2, GrowsFill DEF Grows, SomeFill
  <1>4. exOrder[hash[stream.trade]] = "CANCELED"
          => exOrder'[hash'[stream.trade]] = "CANCELED"
    BY <1>2 DEF Grows
  <1> QED
    BY <1>3, <1>4 DEF StreamTruth

LEMMA RecStaysTrue ==
    ASSUME TypeOK, Grows, RecTruth,
           \A r \in Reconcilers : rec'[r] = rec[r] \/ rec'[r].pc = "idle"
    PROVE  RecTruth'
  <1> SUFFICES ASSUME NEW r \in Reconcilers, rec'[r] = rec[r],
                      rec[r].pc \in {"order", "trades"}
               PROVE  /\ \A x \in rec[r].got : SomeFill(rec[r].order, x)'
                      /\ rec[r].pc = "trades" /\ rec[r].found \in {"CANCELED", "INVALID"}
                            => exOrder'[rec[r].order] = rec[r].found
    <2>1. ASSUME NEW r \in Reconcilers, rec'[r] = rec[r], rec[r].pc \in {"order", "trades"},
                 /\ \A x \in rec[r].got : SomeFill(rec[r].order, x)'
                 /\ rec[r].pc = "trades" /\ rec[r].found \in {"CANCELED", "INVALID"}
                       => exOrder'[rec[r].order] = rec[r].found
          PROVE  /\ rec'[r].pc \in {"order", "trades"} =>
                    \A x \in rec'[r].got : SomeFill(rec[r].order, x)'
                 /\ rec'[r].pc = "trades" /\ rec'[r].found \in {"CANCELED", "INVALID"} =>
                    exOrder'[rec'[r].order] = rec'[r].found
      BY <2>1
    <2> QED
      BY <2>1 DEF RecTruth, SomeFill
  <1>1. rec[r].order \in Orders
    BY DEF TypeOK, RecTypeOK
  <1>2. \A x \in rec[r].got : SomeFill(rec[r].order, x)
    BY DEF RecTruth
  <1>3. rec'[r].order = rec[r].order
    OBVIOUS
  <1>4. \A x \in rec[r].got : SomeFill(rec[r].order, x)'
    BY <1>1, <1>2, <1>3 DEF SomeFill, Grows
  <1>5. rec[r].pc = "trades" /\ rec[r].found \in {"CANCELED", "INVALID"}
           => exOrder[rec[r].order] = rec[r].found
    BY DEF RecTruth
  <1> QED
    BY <1>1, <1>4, <1>5 DEF Grows

LEMMA CanStaysTrue ==
    ASSUME TypeOK, Grows, CanTruth,
           \A c \in Cancellers : can'[c].canceled \subseteq can[c].canceled
    PROVE  CanTruth'
  <1> SUFFICES ASSUME NEW c \in Cancellers, NEW o \in can'[c].canceled
               PROVE  exOrder'[o] = "CANCELED"
    BY DEF CanTruth
  <1>1. o \in Orders /\ o \in can[c].canceled
    BY DEF TypeOK, CanTypeOK, CanRecords
  <1> QED
    BY <1>1 DEF CanTruth, Grows

-----------------------------------------------------------------------------
(* Each process preserves the safety invariant.                            *)

LEMMA SafetyParts ==
    SafetyInv <=> PlacementInv /\ SubExclusive /\ WireOnce
                    /\ RowTruth /\ StreamTruth /\ RecTruth /\ CanTruth
  BY DEF SafetyInv, PlacementInv, ExclusionInv, TruthInv

LEMMA RowTimeSafety ==
    ASSUME TypeOK, SafetyInv, Grows, NEW t \in Trades, CreateIntent(t) \/ Age(t)
    PROVE  SafetyInv'
  <1>1. UNCHANGED <<hash, sub, rec, can, stream, wire, exOrder, exFills>>
    BY DEF CreateIntent, Age, venue
  <1>2. \A u \in Trades : status'[u] = status[u] \/ status'[u] = "pending_signature"
    BY DEF CreateIntent, Age, TypeOK, RowTypeOK
  <1>3. PlacementInv'
    BY RowTimePlacement, SafetyParts
  <1>4. SubExclusive'
    BY <1>1, <1>2, OthersExcluded, SafetyParts DEF HarmlessStatus, Untaken, StillUntaken
  <1>5. WireOnce'
    BY <1>1, SafetyParts DEF WireOnce, SomeFill
  <1>6. RowTruth'
    BY <1>1, <1>2, TrueWrites, SafetyParts DEF Untaken, StillUntaken, Terminal
  <1>7. StreamTruth' /\ RecTruth' /\ CanTruth'
    BY <1>1, StreamStaysTrue, RecStaysTrue, CanStaysTrue, SafetyParts
  <1> QED
    BY <1>3, <1>4, <1>5, <1>6, <1>7, SafetyParts DEF SafetyInv, PlacementInv,
       ExclusionInv, TruthInv

\* A claim starts the only request in flight of its trade, for an order the venue
\* does not have, unless a fill of that order has failed.
LEMMA ClaimSafety ==
    ASSUME TypeOK, SafetyInv, Grows, NEW s \in Submitters, SubmitClaim(s)
    PROVE  SafetyInv'
  <1> DEFINE t == sub[s].trade
             o == sub[s].order
  <1>0. /\ PlacementInv /\ SubExclusive /\ WireOnce
        /\ RowTruth /\ StreamTruth /\ RecTruth /\ CanTruth
    BY SafetyParts
  <1>1. t \in Trades /\ o \in Orders
    BY DEF SubmitClaim, TypeOK, SubTypeOK
  <1>2. UNCHANGED <<rec, can, stream, wire, exOrder, exFills>>
    BY DEF SubmitClaim, venue
  <1>3. /\ status[t] \in Claimable
        /\ hash[t] \in {None, o}
        /\ \A u \in Trades \ {t} : hash[u] # o
        /\ hash' = [hash EXCEPT ![t] = o]
        /\ status' = [status EXCEPT ![t] = "submitting"]
        /\ sub' = [sub EXCEPT ![s].pc = "post"]
    BY DEF SubmitClaim, ClaimAllowed
  <1>4. /\ status'[t] = "submitting" /\ \A u \in Trades \ {t} : status'[u] = status[u]
        /\ hash'[t] = o
        /\ sub'[s].trade = t /\ sub'[s].order = o /\ sub'[s].pc = "post"
        /\ \A q \in Submitters \ {s} : sub'[q] = sub[q]
    BY <1>1, <1>3 DEF TypeOK, RowTypeOK, SubTypeOK, SubRecords
  <1>5. SomeFill(o, "FAILED") \/ Untaken(o)
    <2>1. CASE hash[t] = None
      BY <1>0, <1>1, <1>3, <2>1, OrderNotNone DEF PlacementInv, BindingInv, VenueBinding
    <2>2. CASE hash[t] # None
      <3>1. hash[t] = o /\ status[t] = "failed"
        BY <1>0, <1>1, <1>3, <2>2 DEF Claimable, PlacementInv, BindingInv, RowBinding
      <3> QED
        BY <1>0, <1>1, <3>1 DEF RowTruth, StatusTruth
    <2> QED
      BY <2>1, <2>2
  <1>6. ASSUME NEW q \in Submitters \ {s}, InFlight(q), sub[q].trade = t
        PROVE  SomeFill(o, "FAILED") /\ sub[q].order = o
    <2>1. hash[t] = sub[q].order /\ hash[t] # None /\ status[t] = "failed"
      BY <1>0, <1>3, <1>6, InFlightBound DEF Claimable
    <2>2. ~Exclusive(q)
      BY <1>6, <2>1 DEF Exclusive
    <2> QED
      BY <1>0, <1>3, <1>6, <2>1, <2>2 DEF SubExclusive
  <1>7. SubExclusive'
    <2> SUFFICES ASSUME NEW q \in Submitters, InFlight(q)'
                 PROVE  Excluded(q)'
      BY DEF SubExclusive, Excluded
    <2>1. CASE q = s
      <3>1. CASE SomeFill(o, "FAILED")
        BY <1>1, <1>4, <2>1, <3>1, GrowsFill DEF Excluded, SomeFill, Grows
      <3>2. CASE ~SomeFill(o, "FAILED")
        <4>1. StillUntaken(o)
          BY <1>2, <1>5, <3>2 DEF Untaken, StillUntaken
        <4>2. \A p \in Submitters \ {s} : InFlight(p)' => sub'[p].trade # t
          BY <1>4, <1>6, <3>2 DEF InFlight
        <4>3. Exclusive(s)'
          BY <1>4, <4>1, <4>2 DEF Exclusive, NothingTaken, Untaken, StillUntaken, InFlight
        <4> QED
          BY <2>1, <4>3 DEF Excluded
      <3> QED
        BY <3>1, <3>2
    <2>2. CASE q # s
      <3>1. InFlight(q) /\ sub'[q] = sub[q]
        BY <1>4, <2>2 DEF InFlight
      <3>2. sub[q].trade \in Trades /\ sub[q].order \in Orders
        BY <1>0, <3>1, InFlightBound
      <3>3. CASE sub[q].trade = t
        <4>1. SomeFill(sub[q].order, "FAILED")
          BY <1>6, <2>2, <3>1, <3>3
        <4> QED
          BY <1>2, <3>1, <4>1 DEF Excluded, SomeFill
      <3>4. CASE sub[q].trade # t
        <4>1. HarmlessStatus(sub[q].trade)
          BY <1>4, <3>2, <3>4 DEF HarmlessStatus
        <4>2. \A p \in Submitters \ {q} : InFlight(p)' =>
                 \/ InFlight(p) /\ sub'[p].trade = sub[p].trade
                 \/ sub'[p].trade # sub[q].trade
                 \/ SomeFill(sub[q].order, "FAILED")
          BY <1>4, <3>4 DEF InFlight
        <4>3. SomeFill(sub[q].order, "FAILED") \/ NothingTaken(q)'
          BY <1>0, <1>2, <3>1, <3>2, KeepsNothingTaken DEF SubExclusive, Exclusive, Untaken,
             StillUntaken
        <4> QED
          BY <1>0, <3>1, <4>1, <4>2, <4>3, StaysExcluded
      <3> QED
        BY <3>3, <3>4
    <2> QED
      BY <2>1, <2>2
  <1>8. WireOnce'
    BY <1>0, <1>2 DEF WireOnce, SomeFill
  <1>9. RowTruth'
    <2>1. \A u \in Trades : hash[u] # None /\ status'[u] \in {"failed", "rejected"} =>
              \/ ~Untaken(hash[u]) \/ StillUntaken(hash[u])
              \/ SomeFill(hash[u], "FAILED")
      BY <1>2 DEF Untaken, StillUntaken
    <2>2. \A u \in Trades : status'[u] = status[u] \/ status'[u] \notin Terminal
      BY <1>4 DEF Terminal
    <2> QED
      BY <1>0, <2>1, <2>2, TrueWrites
  <1>10. StreamTruth' /\ RecTruth' /\ CanTruth'
    BY <1>0, <1>2, StreamStaysTrue, RecStaysTrue, CanStaysTrue
  <1>11. PlacementInv'
    BY <1>0, ClaimPlacement
  <1> QED
    BY <1>7, <1>8, <1>9, <1>10, <1>11 DEF SafetyInv, PlacementInv, ExclusionInv, TruthInv

\* The final write of a request: what it saw is what the row becomes.
LEMMA FinishSafety ==
    ASSUME TypeOK, SafetyInv, Grows, NEW s \in Submitters, SubmitFinish(s)
    PROVE  SafetyInv'
  <1> DEFINE t == sub[s].trade
             o == sub[s].order
             reply == sub[s].reply
  <1>0. /\ PlacementInv /\ SubExclusive /\ WireOnce
        /\ RowTruth /\ StreamTruth /\ RecTruth /\ CanTruth
    BY SafetyParts
  <1>1. sub[s].pc = "finish" /\ InFlight(s)
    BY DEF SubmitFinish, InFlight
  <1>2. t \in Trades /\ o \in Orders /\ reply \in Replies /\ hash[t] = o /\ hash[t] # None
    BY <1>0, <1>1, InFlightBound DEF TypeOK, SubTypeOK
  <1>3. UNCHANGED <<hash, rec, can, stream, wire, exOrder, exFills>>
    BY DEF SubmitFinish, venue, row
  <1>4. sub'[s].pc = "idle" /\ \A q \in Submitters \ {s} : sub'[q] = sub[q]
    BY DEF SubmitFinish, TypeOK, SubTypeOK, IdleSub
  <1>5. /\ reply = "definite" => SomeFill(o, "FAILED") \/ Untaken(o)
        /\ reply \in Refusals =>
              SomeFill(o, "FAILED") \/ Untaken(o) \/ exOrder[o] = "INVALID"
        /\ reply = "confirmed" => SomeFill(o, "CONFIRMED")
    BY <1>0, <1>1 DEF SubExclusive, Exclusive, NothingTaken, PlacementInv, ReplyTruth
  <1>6. /\ \A u \in Trades \ {t} : status'[u] = status[u]
        /\ \/ status'[t] = status[t]
           \/ status'[t] = SubmissionOutcome(reply)
    BY <1>2 DEF SubmitFinish, row, TypeOK, RowTypeOK
  <1>7. /\ SubmissionOutcome(reply) # "cancelled"
        /\ SubmissionOutcome(reply) = "filled" => reply = "confirmed"
        /\ SubmissionOutcome(reply) = "failed" => reply = "definite"
        /\ SubmissionOutcome(reply) = "rejected" => reply \in Refusals
    BY <1>2 DEF SubmissionOutcome, Replies, Answered, Refusals
  <1>8. StatusTruth(t, SubmissionOutcome(reply))
    BY <1>2, <1>5, <1>7 DEF StatusTruth
  <1>9. RowTruth'
    <2>1. \A u \in Trades :
              \/ status'[u] = status[u]
              \/ hash[u] # None /\ StatusTruth(u, status'[u])
      BY <1>2, <1>6, <1>8
    <2>2. \A u \in Trades : ~Untaken(hash[u]) \/ StillUntaken(hash[u])
      BY <1>3 DEF Untaken, StillUntaken
    <2> QED
      BY <1>0, <2>1, <2>2, TrueWrites
  <1>10. SubExclusive'
    <2> SUFFICES ASSUME NEW q \in Submitters, InFlight(q)'
                 PROVE  Excluded(q)'
      BY DEF SubExclusive, Excluded
    <2>1. q # s /\ InFlight(q) /\ sub'[q] = sub[q]
      BY <1>4 DEF InFlight
    <2>2. sub[q].trade \in Trades /\ hash[sub[q].trade] = sub[q].order
      BY <1>0, <2>1, InFlightBound
    <2>3. HarmlessStatus(sub[q].trade)
      <3>1. CASE sub[q].trade = t
        <4>1. ~Exclusive(q)
          BY <1>1, <2>1, <3>1 DEF Exclusive
        <4> QED
          BY <1>0, <2>1, <2>2, <4>1 DEF SubExclusive, HarmlessStatus
      <3>2. CASE sub[q].trade # t
        BY <1>6, <2>2, <3>2 DEF HarmlessStatus
      <3> QED
        BY <3>1, <3>2
    <2>4. SomeFill(sub[q].order, "FAILED") \/ NothingTaken(q)'
      BY <1>0, <1>3, <2>1, InFlightBound, KeepsNothingTaken DEF SubExclusive, Exclusive,
         Untaken, StillUntaken
    <2>5. \A p \in Submitters \ {q} : InFlight(p)' =>
             InFlight(p) /\ sub'[p].trade = sub[p].trade
      BY <1>4 DEF InFlight
    <2> QED
      BY <1>0, <2>1, <2>3, <2>4, <2>5, StaysExcluded
  <1>11. WireOnce'
    BY <1>0, <1>3 DEF WireOnce, SomeFill
  <1>12. StreamTruth' /\ RecTruth' /\ CanTruth'
    BY <1>0, <1>3, StreamStaysTrue, RecStaysTrue, CanStaysTrue
  <1>13. PlacementInv'
    BY <1>0, FinishPlacement
  <1> QED
    BY <1>9, <1>10, <1>11, <1>12, <1>13 DEF SafetyInv, PlacementInv, ExclusionInv, TruthInv

\* Sending a request: its order was untaken, or a fill of it has failed.
LEMMA PostSafety ==
    ASSUME TypeOK, SafetyInv, Grows, NEW s \in Submitters, SubmitPost(s)
    PROVE  SafetyInv'
  <1> DEFINE t == sub[s].trade
             o == sub[s].order
  <1>0. /\ PlacementInv /\ SubExclusive /\ WireOnce
        /\ RowTruth /\ StreamTruth /\ RecTruth /\ CanTruth
    BY SafetyParts
  <1>1. sub[s].pc = "post" /\ InFlight(s) /\ wire' = wire \cup {o}
    BY DEF SubmitPost, InFlight
  <1>2. t \in Trades /\ o \in Orders /\ hash[t] = o /\ hash[t] # None
    BY <1>0, <1>1, InFlightBound
  <1>3. UNCHANGED <<status, hash, rec, can, stream, exOrder, exFills>>
    BY DEF SubmitPost, row
  <1>4. /\ sub'[s].pc = "wait" /\ sub'[s].trade = t /\ sub'[s].order = o
        /\ \A q \in Submitters \ {s} : sub'[q] = sub[q]
    BY DEF SubmitPost, TypeOK, SubTypeOK, SubRecords
  <1>5. SomeFill(o, "FAILED") \/ (Exclusive(s) /\ Untaken(o))
    BY <1>0, <1>1 DEF SubExclusive, Exclusive, NothingTaken
  <1>6. ASSUME NEW u \in Trades, hash[u] = o
        PROVE  u = t
    BY <1>0, <1>2, <1>6 DEF PlacementInv, BindingInv, RowBinding
  <1>7. RowTruth'
    <2>1. ASSUME NEW u \in Trades, hash[u] # None, status'[u] \in {"failed", "rejected"},
                 Untaken(hash[u])
          PROVE  StillUntaken(hash[u]) \/ SomeFill(hash[u], "FAILED")
      <3>1. CASE hash[u] # o
        BY <1>1, <1>3, <2>1, <3>1 DEF Untaken, StillUntaken
      <3>2. CASE hash[u] = o
        <4>1. status[t] \in {"failed", "rejected"}
          BY <1>3, <1>6, <2>1, <3>2
        <4>2. ~(Exclusive(s) /\ Untaken(o))
          BY <4>1 DEF Exclusive, Untaken
        <4> QED
          BY <1>5, <3>2, <4>2
      <3> QED
        BY <3>1, <3>2
    <2>2. \A u \in Trades : status'[u] = status[u]
      BY <1>3
    <2> QED
      BY <1>0, <2>1, <2>2, TrueWrites
  <1>8. SubExclusive'
    <2> SUFFICES ASSUME NEW q \in Submitters, InFlight(q)'
                 PROVE  Excluded(q)'
      BY DEF SubExclusive, Excluded
    <2>1. InFlight(q) /\ sub'[q].trade = sub[q].trade /\ sub'[q].order = sub[q].order
      BY <1>1, <1>4 DEF InFlight
    <2>2. sub[q].trade \in Trades /\ hash[sub[q].trade] = sub[q].order
      BY <1>0, <2>1, InFlightBound
    <2>3. HarmlessStatus(sub[q].trade)
      BY <1>3 DEF HarmlessStatus
    <2>4. \A p \in Submitters \ {q} : InFlight(p)' =>
             InFlight(p) /\ sub'[p].trade = sub[p].trade
      BY <1>1, <1>4 DEF InFlight
    <2>5. SomeFill(sub[q].order, "FAILED") \/ NothingTaken(q)'
      <3>1. CASE q = s
        BY <1>4, <3>1 DEF NothingTaken
      <3>2. CASE q # s /\ sub[q].order # o
        <4>1. sub[q].order \in Orders /\ sub'[q] = sub[q]
          BY <1>0, <1>4, <2>1, <3>2, InFlightBound
        <4>2. Untaken(sub[q].order) => StillUntaken(sub[q].order)
          BY <1>1, <1>3, <3>2 DEF Untaken, StillUntaken
        <4> QED
          BY <1>0, <2>1, <4>1, <4>2, KeepsNothingTaken DEF SubExclusive, Exclusive
      <3>3. CASE q # s /\ sub[q].order = o
        <4>1. sub[q].trade = t
          BY <1>6, <2>2, <3>3
        <4>2. ~Exclusive(s)
          BY <2>1, <3>3, <4>1 DEF Exclusive
        <4> QED
          BY <1>5, <3>3, <4>2
      <3> QED
        BY <3>1, <3>2, <3>3
    <2> QED
      BY <1>0, <2>1, <2>3, <2>4, <2>5, StaysExcluded
  <1>9. WireOnce'
    BY <1>0, <1>1, <1>3, <1>5 DEF WireOnce, SomeFill, Untaken
  <1>10. StreamTruth' /\ RecTruth' /\ CanTruth'
    BY <1>0, <1>3, StreamStaysTrue, RecStaysTrue, CanStaysTrue
  <1>11. PlacementInv'
    BY <1>0, SubmitPlacement DEF SubmitStep
  <1> QED
    BY <1>7, <1>8, <1>9, <1>10, <1>11 DEF SafetyInv, PlacementInv, ExclusionInv, TruthInv

\* The other steps of a request write no row; they move it towards the answer it
\* has, or drop it.
LEMMA MoveSafety ==
    ASSUME TypeOK, SafetyInv, Grows, PlacementInv', UNCHANGED <<row, rec, can, stream, venue>>,
           NEW s \in Submitters,
           \A q \in Submitters \ {s} : sub'[q] = sub[q],
           InFlight(s)' => InFlight(s) /\ sub'[s].trade = sub[s].trade
                             /\ sub'[s].order = sub[s].order,
           InFlight(s)' /\ NothingTaken(s) => NothingTaken(s)'
    PROVE  SafetyInv'
  <1>0. /\ PlacementInv /\ SubExclusive /\ WireOnce
        /\ RowTruth /\ StreamTruth /\ RecTruth /\ CanTruth
    BY SafetyParts
  <1>1. UNCHANGED <<status, hash, rec, can, stream, wire, exOrder, exFills>>
    BY DEF row, venue
  <1>2. SubExclusive'
    <2> SUFFICES ASSUME NEW q \in Submitters, InFlight(q)'
                 PROVE  Excluded(q)'
      BY DEF SubExclusive, Excluded
    <2>1. \A p \in Submitters : InFlight(p)' =>
             InFlight(p) /\ sub'[p].trade = sub[p].trade /\ sub'[p].order = sub[p].order
      BY DEF InFlight
    <2>3. sub[q].trade \in Trades /\ sub[q].order \in Orders /\ InFlight(q)
      BY <1>0, <2>1, InFlightBound
    <2>2. NothingTaken(q) => NothingTaken(q)'
      <3>1. CASE q = s
        BY <3>1
      <3>2. CASE q # s
        BY <1>1, <2>3, <3>2, KeepsNothingTaken DEF Untaken, StillUntaken
      <3> QED
        BY <3>1, <3>2
    <2>4. HarmlessStatus(sub[q].trade)
      BY <1>1 DEF HarmlessStatus
    <2>5. SomeFill(sub[q].order, "FAILED") \/ NothingTaken(q)'
      BY <1>0, <2>2, <2>3 DEF SubExclusive, Exclusive
    <2> QED
      BY <1>0, <2>1, <2>3, <2>4, <2>5, StaysExcluded
  <1>3. WireOnce'
    BY <1>0, <1>1 DEF WireOnce, SomeFill
  <1>4. RowTruth'
    BY <1>0, <1>1, TrueWrites DEF Untaken, StillUntaken
  <1>5. StreamTruth' /\ RecTruth' /\ CanTruth'
    BY <1>0, <1>1, StreamStaysTrue, RecStaysTrue, CanStaysTrue
  <1> QED
    BY <1>2, <1>3, <1>4, <1>5 DEF SafetyInv, PlacementInv, ExclusionInv, TruthInv

LEMMA SubmitSafety ==
    ASSUME TypeOK, SafetyInv, Grows, NEW s \in Submitters,
           SubmitStep(s) \/ SubmitAbandon(s) \/
           \E t \in Trades, o \in Orders : SubmitRead(s, t, o)
    PROVE  SafetyInv'
  <1>0. PlacementInv'
    BY SafetyParts, SubmitPlacement
  <1>1. CASE SubmitClaim(s)
    BY <1>1, ClaimSafety
  <1>2. CASE SubmitFinish(s)
    BY <1>2, FinishSafety
  <1>3. CASE SubmitPost(s)
    BY <1>3, PostSafety
  <1>4. CASE SubmitUnsent(s)
    <2>1. /\ InFlight(s) /\ sub[s].pc = "post"
          /\ UNCHANGED <<row, rec, can, stream, venue>>
      BY <1>4 DEF SubmitUnsent, InFlight
    <2>2. /\ \A q \in Submitters \ {s} : sub'[q] = sub[q]
          /\ sub'[s].trade = sub[s].trade /\ sub'[s].order = sub[s].order
          /\ sub'[s].pc = "finish" /\ sub'[s].reply = "definite"
      BY <1>4 DEF SubmitUnsent, TypeOK, SubTypeOK, SubRecords
    <2>3. NothingTaken(s) => NothingTaken(s)'
      BY <2>1, <2>2 DEF NothingTaken, Untaken, venue, Refusals
    <2> QED
      BY <1>0, <2>1, <2>2, <2>3, MoveSafety
  <1>5. CASE SubmitTimeout(s)
    <2>1. InFlight(s) /\ UNCHANGED <<row, rec, can, stream, venue>>
      BY <1>5 DEF SubmitTimeout, InFlight
    <2>2. /\ \A q \in Submitters \ {s} : sub'[q] = sub[q]
          /\ sub'[s].trade = sub[s].trade /\ sub'[s].order = sub[s].order
          /\ sub'[s].pc = "finish" /\ sub'[s].reply = "ambiguous"
      BY <1>5 DEF SubmitTimeout, TypeOK, SubTypeOK, SubRecords
    <2>3. NothingTaken(s)'
      BY <2>2 DEF NothingTaken, Refusals
    <2> QED
      BY <1>0, <2>1, <2>2, <2>3, MoveSafety
  <1>6. CASE SubmitConflict(s) \/ SubmitAbandon(s)
    <2>1. UNCHANGED <<row, rec, can, stream, venue>>
      BY <1>6 DEF SubmitConflict, SubmitAbandon
    <2>2. /\ \A q \in Submitters \ {s} : sub'[q] = sub[q]
          /\ sub'[s].pc = "idle"
      BY <1>6 DEF SubmitConflict, SubmitAbandon, TypeOK, SubTypeOK, IdleSub
    <2>3. ~InFlight(s)'
      BY <2>2 DEF InFlight
    <2> QED
      BY <1>0, <2>1, <2>2, <2>3, MoveSafety
  <1>7. CASE \E t \in Trades, o \in Orders : SubmitRead(s, t, o)
    <2>1. UNCHANGED <<row, rec, can, stream, venue>>
      BY <1>7 DEF SubmitRead
    <2>2. /\ \A q \in Submitters \ {s} : sub'[q] = sub[q]
          /\ sub'[s].pc = "claim"
      BY <1>7 DEF SubmitRead, TypeOK, SubTypeOK
    <2>3. ~InFlight(s)'
      BY <2>2 DEF InFlight
    <2> QED
      BY <1>0, <2>1, <2>2, <2>3, MoveSafety
  <1> QED
    BY <1>1, <1>2, <1>3, <1>4, <1>5, <1>6, <1>7 DEF SubmitStep

-----------------------------------------------------------------------------
(* The processes that write rows of trades they have not claimed.          *)

\* A status backed by the venue, for a trade another request may be submitting.
BackedStatus(t, st) ==
    /\ hash[t] # None
    /\ StatusTruth(t, st)
    /\ st = "failed" => SomeFill(hash[t], "FAILED")
    /\ st = "rejected" => exOrder[hash[t]] = "INVALID"

LEMMA RowWriteSafety ==
    ASSUME TypeOK, SafetyInv, Grows, UNCHANGED <<hash, sub, wire, exOrder, exFills>>,
           \A t \in Trades :
              \/ status'[t] = status[t]
              \/ status'[t] \notin Terminal
              \/ BackedStatus(t, status'[t])
    PROVE  SubExclusive' /\ WireOnce' /\ RowTruth'
  <1>0. PlacementInv /\ SubExclusive /\ WireOnce /\ RowTruth
    BY SafetyParts
  <1>1. \A t \in Trades : HarmlessStatus(t)
    BY DEF HarmlessStatus, BackedStatus, Terminal
  <1>2. SubExclusive'
    BY <1>0, <1>1, OthersExcluded DEF Untaken, StillUntaken
  <1>3. WireOnce'
    BY <1>0 DEF WireOnce, SomeFill
  <1>4. \A t \in Trades :
              \/ status'[t] = status[t]
              \/ hash[t] # None /\ StatusTruth(t, status'[t])
              \/ status'[t] \notin Terminal
    BY DEF BackedStatus
  <1>5. \A t \in Trades : ~Untaken(hash[t]) \/ StillUntaken(hash[t])
    BY DEF Untaken, StillUntaken
  <1>6. RowTruth'
    BY <1>0, <1>4, <1>5, TrueWrites
  <1> QED
    BY <1>2, <1>3, <1>6

LEMMA ReconciledBacked ==
    ASSUME TypeOK, PlacementInv, RecTruth, NEW r \in Reconcilers, rec[r].pc = "trades"
    PROVE  BackedStatus(rec[r].trade, ReconciledStatus(rec[r].found, rec[r].got))
  <1> DEFINE t == rec[r].trade
             st == ReconciledStatus(rec[r].found, rec[r].got)
  <1>1. hash[t] # None /\ hash[t] = rec[r].order
    BY DEF PlacementInv, BindingInv, RecBinding
  <1>2. \A x \in rec[r].got : SomeFill(hash[t], x)
    BY <1>1 DEF RecTruth
  <1>3. rec[r].found \in {"CANCELED", "INVALID"} => exOrder[hash[t]] = rec[r].found
    BY <1>1 DEF RecTruth
  <1>4. /\ st = "filled" => "CONFIRMED" \in rec[r].got
        /\ st = "failed" => "FAILED" \in rec[r].got
        /\ st = "cancelled" => rec[r].found = "CANCELED"
        /\ st = "rejected" => rec[r].found = "INVALID"
    BY DEF ReconciledStatus
  <1> HIDE DEF st
  <1>5. /\ st = "filled" => SomeFill(hash[t], "CONFIRMED")
        /\ st = "failed" => SomeFill(hash[t], "FAILED")
        /\ st = "cancelled" => exOrder[hash[t]] = "CANCELED"
        /\ st = "rejected" => exOrder[hash[t]] = "INVALID"
    BY <1>2, <1>3, <1>4
  <1>6. BackedStatus(t, st)
    BY <1>1, <1>5 DEF BackedStatus, StatusTruth
  <1> QED
    BY <1>6 DEF st

\* What a reconciliation learns of the order and of its fills is true.
LEMMA RecLearnsTruth ==
    ASSUME TypeOK, SafetyInv, Grows, NEW r \in Reconcilers,
           \/ ReconcileStep(r) \/ ReconcileAbandon(r)
           \/ \E t \in Trades : ReconcileRead(r, t)
    PROVE  RecTruth'
  <1>0. RecTruth
    BY SafetyParts
  <1>1. UNCHANGED <<exOrder, exFills>>
    BY DEF ReconcileStep, ReconcileMark, ReconcileOrder, ReconcileTrade, ReconcileWrite,
       ReconcileAbandon, ReconcileRead, venue
  <1>2. CASE rec' = [rec EXCEPT ![r] = IdleRec]
    <2>1. rec' = [rec EXCEPT ![r] = IdleRec]
      BY <1>2
    <2>2. \A q \in Reconcilers : rec'[q] = rec[q] \/ rec'[q].pc = "idle"
      BY <2>1 DEF TypeOK, RecTypeOK, IdleRec
    <2> QED
      BY <1>0, <2>2, RecStaysTrue
  <1>3. CASE \E t \in Trades : ReconcileRead(r, t)
    <2>1. /\ \A q \in Reconcilers \ {r} : rec'[q] = rec[q]
          /\ rec'[r].got = {} /\ rec'[r].pc # "trades"
      BY <1>3 DEF ReconcileRead, TypeOK, RecTypeOK, IdleRec
    <2> QED
      BY <1>0, <1>1, <2>1 DEF RecTruth, SomeFill
  <1>4. CASE ReconcileOrder(r) /\ rec' # [rec EXCEPT ![r] = IdleRec]
    <2>1. /\ \A q \in Reconcilers \ {r} : rec'[q] = rec[q]
          /\ rec[r].pc = "order"
          /\ rec'[r].got = rec[r].got /\ rec'[r].order = rec[r].order
          /\ rec'[r].found = exOrder[rec[r].order]
      BY <1>4 DEF ReconcileOrder, TypeOK, RecTypeOK, RecRecords
    <2> QED
      BY <1>0, <1>1, <2>1 DEF RecTruth, SomeFill
  <1>5. ASSUME NEW f \in Fills, ReconcileTrade(r, f) PROVE RecTruth'
    <2>1. PICK x \in Latest(exFills[rec[r].order][f]) :
            rec' = [rec EXCEPT ![r].todo = @ \ {f}, ![r].got = @ \cup {x}]
      BY <1>5 DEF ReconcileTrade
    <2>2. x \in exFills[rec[r].order][f]
      BY <2>1 DEF Latest
    <2>3. /\ \A q \in Reconcilers \ {r} : rec'[q] = rec[q]
          /\ rec[r].pc = "trades"
          /\ rec'[r].got = rec[r].got \cup {x} /\ rec'[r].order = rec[r].order
          /\ rec'[r].found = rec[r].found
      BY <1>5, <2>1 DEF ReconcileTrade, TypeOK, RecTypeOK, RecRecords
    <2>4. SomeFill(rec[r].order, x)
      BY <2>2 DEF SomeFill
    <2> QED
      BY <1>0, <1>1, <2>3, <2>4 DEF RecTruth, SomeFill
  <1> QED
    BY <1>2, <1>3, <1>4, <1>5 DEF ReconcileStep, ReconcileMark, ReconcileWrite,
       ReconcileAbandon

LEMMA ReconcileSafety ==
    ASSUME TypeOK, SafetyInv, Grows, NEW r \in Reconcilers,
           \/ ReconcileStep(r) \/ ReconcileAbandon(r)
           \/ \E t \in Trades : ReconcileRead(r, t)
    PROVE  SafetyInv'
  <1>0. /\ PlacementInv /\ RecTruth /\ StreamTruth /\ CanTruth
    BY SafetyParts
  <1>1. UNCHANGED <<hash, sub, can, stream, wire, exOrder, exFills>>
    BY DEF ReconcileStep, ReconcileMark, ReconcileOrder, ReconcileTrade, ReconcileWrite,
       ReconcileAbandon, ReconcileRead, row, venue
  <1>2. \A t \in Trades :
              \/ status'[t] = status[t]
              \/ status'[t] \notin Terminal
              \/ BackedStatus(t, status'[t])
    <2>1. CASE ReconcileMark(r)
      BY <2>1 DEF ReconcileMark, TypeOK, RowTypeOK, Terminal
    <2>2. CASE ReconcileWrite(r)
      <3> DEFINE st == ReconciledStatus(rec[r].found, rec[r].got)
      <3>1. rec[r].pc = "trades" /\ status' = [status EXCEPT ![rec[r].trade] = st]
        BY <2>2 DEF ReconcileWrite
      <3>2. BackedStatus(rec[r].trade, st)
        BY <1>0, <3>1, ReconciledBacked
      <3> HIDE DEF st
      <3> QED
        BY <3>1, <3>2 DEF TypeOK, RowTypeOK
    <2>3. CASE status' = status
      BY <2>3
    <2> QED
      BY <2>1, <2>2, <2>3 DEF ReconcileStep, ReconcileOrder, ReconcileTrade,
         ReconcileAbandon, ReconcileRead, row
  <1>3. SubExclusive' /\ WireOnce' /\ RowTruth'
    BY <1>1, <1>2, RowWriteSafety
  <1>4. RecTruth'
    BY RecLearnsTruth
  <1>5. StreamTruth' /\ CanTruth'
    BY <1>0, <1>1, StreamStaysTrue, CanStaysTrue
  <1>6. PlacementInv'
    BY <1>0, ReconcilePlacement
  <1> QED
    BY <1>3, <1>4, <1>5, <1>6 DEF SafetyInv, PlacementInv, ExclusionInv, TruthInv

LEMMA CancelApplyBacked ==
    ASSUME TypeOK, SafetyInv, NEW c \in Cancellers, CancelApply(c), NEW t \in Trades,
           status'[t] # status[t]
    PROVE  BackedStatus(t, status'[t])
  <1>1. /\ orderId[t] \in can[c].canceled
        /\ status[t] = "cancellation_requested" /\ status'[t] = "cancelled"
    BY DEF CancelApply
  <1>2. exOrder[orderId[t]] = "CANCELED" /\ orderId[t] \in Orders
    BY <1>1, SafetyParts DEF CanTruth, TypeOK, CanTypeOK, CanRecords
  <1>3. orderId[t] = hash[t] /\ hash[t] # None
    BY <1>2, SafetyParts, OrderNotNone DEF PlacementInv, OrderIdIsOwn
  <1> QED
    BY <1>1, <1>2, <1>3 DEF BackedStatus, StatusTruth

\* A venue that cancels orders takes or voids none of them.
LEMMA CancelCallSafety ==
    ASSUME TypeOK, SafetyInv, Grows, NEW c \in Cancellers, CancelCall(c)
    PROVE  SubExclusive' /\ WireOnce' /\ RowTruth' /\ CanTruth'
  <1>0. /\ PlacementInv /\ SubExclusive /\ WireOnce /\ RowTruth /\ CanTruth
    BY SafetyParts
  <1>1. UNCHANGED <<status, hash, sub, wire, exFills>>
    BY DEF CancelCall, row
  <1>2. PICK os \in SUBSET {o \in CancelTargets(c) : exOrder[o] = "LIVE"} :
            /\ exOrder' = [o \in Orders |-> IF o \in os THEN "CANCELED" ELSE exOrder[o]]
            /\ can' = [can EXCEPT ![c] = [IdleCan EXCEPT !.pc = "apply", !.canceled = os]]
    BY DEF CancelCall
  <1>3. os \subseteq Orders
    BY <1>2 DEF CancelTargets, TypeOK, CanTypeOK, CanRecords
  <1>4. \A o \in Orders : exOrder[o] = "none" <=> exOrder'[o] = "none"
    BY <1>2
  <1>5. SubExclusive'
    BY <1>0, <1>1, <1>4, OthersExcluded DEF HarmlessStatus, Untaken, StillUntaken
  <1>6. WireOnce'
    BY <1>0, <1>1, <1>4 DEF WireOnce, SomeFill, TypeOK, VenueTypeOK
  <1>7. \A t \in Trades : hash[t] # None => ~Untaken(hash[t]) \/ StillUntaken(hash[t])
    BY <1>1, <1>4 DEF Untaken, StillUntaken, TypeOK, RowTypeOK
  <1>8. RowTruth'
    BY <1>0, <1>1, <1>7, TrueWrites
  <1>9. CanTruth'
    <2> SUFFICES ASSUME NEW d \in Cancellers, NEW o \in can'[d].canceled
                 PROVE  exOrder'[o] = "CANCELED"
      BY DEF CanTruth
    <2>1. CASE d = c
      <3>1. o \in os
        BY <1>2, <2>1 DEF IdleCan, TypeOK, CanTypeOK, CanRecords
      <3> QED
        BY <1>2, <1>3, <3>1
    <2>2. CASE d # c
      <3>1. can'[d] = can[d] /\ can[d].canceled \subseteq Orders
        BY <1>2, <2>2 DEF TypeOK, CanTypeOK, CanRecords
      <3>2. exOrder[o] = "CANCELED" /\ o \in Orders
        BY <1>0, <3>1 DEF CanTruth
      <3> QED
        BY <3>2 DEF Grows
    <2> QED
      BY <2>1, <2>2
  <1> QED
    BY <1>5, <1>6, <1>8, <1>9

LEMMA CancelSafety ==
    ASSUME TypeOK, SafetyInv, Grows, NEW c \in Cancellers,
           \/ \E ts \in SUBSET Trades : CancelTrades(c, ts)
           \/ CancelAll(c)
           \/ \E t \in Trades : CancelMarket(c, t)
           \/ CancelStep(c) \/ CancelAbandon(c)
    PROVE  SafetyInv'
  <1>0. PlacementInv /\ RecTruth /\ StreamTruth /\ CanTruth
    BY SafetyParts
  <1>1. PlacementInv'
    BY <1>0, CancelPlacement
  <1>2. UNCHANGED <<hash, sub, rec, stream, wire, exFills>>
    BY DEF CancelStep, CancelTrades, CancelAll, CancelMarket, CancelStart, CancelMark,
       CancelCall, CancelApply, CancelAbandon, row, venue
  <1>3. StreamTruth' /\ RecTruth'
    BY <1>0, <1>2, StreamStaysTrue, RecStaysTrue
  <1>4. CASE CancelCall(c)
    BY <1>1, <1>3, <1>4, CancelCallSafety DEF SafetyInv, PlacementInv, ExclusionInv, TruthInv
  <1>5. CASE ~CancelCall(c)
    <2>1. UNCHANGED exOrder
      BY <1>5 DEF CancelStep, CancelTrades, CancelAll, CancelMarket, CancelStart, CancelMark,
         CancelApply, CancelAbandon, venue
    <2>2. \A d \in Cancellers : can'[d].canceled \subseteq can[d].canceled
      BY <1>5 DEF CancelStep, CancelTrades, CancelAll, CancelMarket, CancelStart, CancelMark,
         CancelApply, CancelAbandon, IdleCan, TypeOK, CanTypeOK, CanRecords
    <2>3. \A t \in Trades :
              \/ status'[t] = status[t]
              \/ status'[t] \notin Terminal
              \/ BackedStatus(t, status'[t])
      <3>1. CASE CancelApply(c)
        BY <3>1, CancelApplyBacked
      <3>2. CASE CancelMark(c)
        BY <3>2 DEF CancelMark, Terminal
      <3>3. CASE status' = status
        BY <3>3
      <3> QED
        BY <1>5, <3>1, <3>2, <3>3 DEF CancelStep, CancelTrades, CancelAll, CancelMarket,
           CancelStart, CancelAbandon, row
    <2>4. SubExclusive' /\ WireOnce' /\ RowTruth'
      BY <1>2, <2>1, <2>3, RowWriteSafety
    <2>5. CanTruth'
      BY <1>0, <2>2, CanStaysTrue
    <2> QED
      BY <1>1, <1>3, <2>4, <2>5 DEF SafetyInv, PlacementInv, ExclusionInv, TruthInv
  <1> QED
    BY <1>4, <1>5

\* An event the worker reads says something true about the order of its trade.
LEMMA StreamReadTruth ==
    ASSUME TypeOK, SafetyInv, Grows, NEW t \in Trades, NEW target \in Statuses,
           StreamRead(t, target)
    PROVE  StreamTruth'
  <1>1. UNCHANGED <<hash, exOrder, exFills>>
    BY DEF StreamRead, row, venue
  <1>2. hash[t] = orderId[t] /\ target \in EventTargets(hash[t])
    BY SafetyParts DEF StreamRead, PlacementInv, OrderIdIsOwn
  <1>3. hash[t] \in Orders
    BY <1>2, OrderNotNone DEF StreamRead, TypeOK, RowTypeOK
  <1>4. stream'.trade = t /\ stream'.target = target
    BY DEF StreamRead
  <1>5. /\ target \notin {"absent", "pending_signature", "rejected"}
        /\ target = "filled" => SomeFill(hash[t], "CONFIRMED")
        /\ target = "failed" => SomeFill(hash[t], "FAILED")
        /\ target = "cancelled" => exOrder[hash[t]] = "CANCELED"
    <2>1. CASE target \in {"partially_filled", "cancelled"}
      <3>1. target = "cancelled" => exOrder[hash[t]] = "CANCELED"
        <4>1. \A f \in Fills : \A x \in exFills[hash[t]][f] :
                 x \in FillStatus /\ TradeStatusOf(x) # "cancelled"
          BY <1>3 DEF TypeOK, VenueTypeOK, FillStatus, TradeStatusOf
        <4> QED
          BY <1>2, <4>1 DEF EventTargets
      <3> QED
        BY <2>1, <3>1
    <2>2. CASE target \notin {"partially_filled", "cancelled"}
      <3>1. PICK f \in Fills : \E x \in exFills[hash[t]][f] : target = TradeStatusOf(x)
        BY <1>2, <2>2 DEF EventTargets
      <3> PICK x \in exFills[hash[t]][f] : target = TradeStatusOf(x)
        BY <3>1
      <3>2. x \in FillStatus
        BY <1>3 DEF TypeOK, VenueTypeOK
      <3>3. /\ target \in {"filled", "failed", "retrying", "mined", "matched"}
            /\ target = "filled" => x = "CONFIRMED"
            /\ target = "failed" => x = "FAILED"
        BY <3>2 DEF FillStatus, TradeStatusOf
      <3> QED
        BY <3>3 DEF SomeFill
    <2> QED
      BY <2>1, <2>2
  <1> QED
    BY <1>1, <1>4, <1>5 DEF StreamTruth, SomeFill

LEMMA StreamSafety ==
    ASSUME TypeOK, SafetyInv, Grows,
           \/ \E t \in Trades, target \in Statuses : StreamRead(t, target)
           \/ StreamApply \/ StreamAbandon
    PROVE  SafetyInv'
  <1>0. PlacementInv /\ RecTruth /\ StreamTruth /\ CanTruth
    BY SafetyParts
  <1>1. PlacementInv'
    BY <1>0, StreamPlacement
  <1>2. UNCHANGED <<hash, sub, rec, can, wire, exOrder, exFills>>
    BY DEF StreamRead, StreamApply, StreamAbandon, row, venue
  <1>3. RecTruth' /\ CanTruth'
    BY <1>0, <1>2, RecStaysTrue, CanStaysTrue
  <1>4. StreamTruth'
    <2>1. CASE StreamApply \/ StreamAbandon
      BY <2>1 DEF StreamApply, StreamAbandon, IdleStream, StreamTruth
    <2> QED
      BY <2>1, StreamReadTruth
  <1>5. \A t \in Trades :
              \/ status'[t] = status[t]
              \/ status'[t] \notin Terminal
              \/ BackedStatus(t, status'[t])
    <2>1. CASE StreamApply
      <3>1. /\ hash[stream.trade] # None
            /\ stream.target # "rejected"
            /\ stream.target = "filled" => SomeFill(hash[stream.trade], "CONFIRMED")
            /\ stream.target = "failed" => SomeFill(hash[stream.trade], "FAILED")
            /\ stream.target = "cancelled" => exOrder[hash[stream.trade]] = "CANCELED"
        BY <1>0, <2>1 DEF StreamApply, StreamTruth, PlacementInv, BindingInv, StreamBinding
      <3>2. BackedStatus(stream.trade, stream.target)
        BY <3>1 DEF BackedStatus, StatusTruth
      <3>3. \A t \in Trades : \/ status'[t] = status[t]
                              \/ t = stream.trade /\ status'[t] = stream.target
        BY <2>1 DEF StreamApply, TypeOK, RowTypeOK
      <3> QED
        BY <3>2, <3>3
    <2>2. CASE status' = status
      BY <2>2
    <2> QED
      BY <2>1, <2>2 DEF StreamRead, StreamAbandon, row
  <1>6. SubExclusive' /\ WireOnce' /\ RowTruth'
    BY <1>2, <1>5, RowWriteSafety
  <1> QED
    BY <1>1, <1>3, <1>4, <1>6 DEF SafetyInv, PlacementInv, ExclusionInv, TruthInv

-----------------------------------------------------------------------------
(* The venue.                                                              *)

\* A refusal reaches requests whose order is still untaken, or had a fill fail.
LEMMA RefusalExcluded ==
    ASSUME TypeOK, PlacementInv, Grows, SubExclusive, UNCHANGED <<status, hash>>,
           NEW o \in Orders, NEW kind \in Replies, Reply(o, kind),
           \A u \in Orders : Untaken(u) => StillUntaken(u),
           SomeFill(o, "FAILED") \/ StillUntaken(o)
    PROVE  SubExclusive'
  <1> SUFFICES ASSUME NEW s \in Submitters, InFlight(s)'
               PROVE  Excluded(s)'
    BY DEF SubExclusive, Excluded
  <1>1. \A q \in Submitters :
           /\ sub'[q].trade = sub[q].trade /\ sub'[q].order = sub[q].order
           /\ InFlight(q)' => InFlight(q)
    BY ReplyChanges
  <1>2. InFlight(s) /\ sub[s].trade \in Trades /\ sub[s].order \in Orders
    BY <1>1, InFlightBound
  <1>3. HarmlessStatus(sub[s].trade)
    BY DEF HarmlessStatus
  <1>4. SomeFill(sub[s].order, "FAILED") \/ NothingTaken(s)'
    <2>1. \/ sub'[s] = sub[s]
          \/ sub'[s].pc = "finish" /\ sub'[s].reply = kind /\ sub[s].order = o
      BY ReplyChanges
    <2>2. CASE sub'[s] = sub[s]
      BY <1>2, <2>2, KeepsNothingTaken DEF SubExclusive, Exclusive
    <2>3. CASE sub'[s].pc = "finish" /\ sub[s].order = o
      BY <1>1, <2>3 DEF NothingTaken, Untaken, StillUntaken
    <2> QED
      BY <2>1, <2>2, <2>3
  <1> QED
    BY <1>1, <1>2, <1>3, <1>4, StaysExcluded

LEMMA AcceptSafety ==
    ASSUME TypeOK, SafetyInv, Grows, NEW o \in Orders, VenueAccept(o)
    PROVE  SubExclusive' /\ WireOnce' /\ RowTruth'
  <1>0. PlacementInv /\ SubExclusive /\ WireOnce /\ RowTruth
    BY SafetyParts
  <1>1. /\ UNCHANGED <<status, hash, sub>>
        /\ o \in wire /\ wire' = wire \ {o}
    BY DEF VenueAccept, row
  <1>2. \A u \in Orders \ {o} : exOrder'[u] = exOrder[u]
    BY DEF VenueAccept, TypeOK, VenueTypeOK
  <1>4. \A u \in Orders : Untaken(u) => StillUntaken(u)
    BY <1>1, <1>2 DEF Untaken, StillUntaken
  <1>5. SubExclusive'
    BY <1>0, <1>1, <1>4, OthersExcluded DEF HarmlessStatus
  <1>6. WireOnce'
    <2> SUFFICES ASSUME NEW u \in wire' PROVE exOrder'[u] = "none" \/ SomeFill(u, "FAILED")'
      BY DEF WireOnce
    <2>1. u \in Orders \ {o} /\ u \in wire
      BY <1>1 DEF TypeOK, VenueTypeOK
    <2>2. SomeFill(u, "FAILED") => SomeFill(u, "FAILED")'
      BY <2>1, GrowsFill
    <2> QED
      BY <1>0, <1>2, <2>1, <2>2 DEF WireOnce
  <1>7. \A t \in Trades : hash[t] # None => ~Untaken(hash[t]) \/ StillUntaken(hash[t])
    BY <1>1, <1>4 DEF TypeOK, RowTypeOK, Untaken
  <1>8. RowTruth'
    BY <1>0, <1>1, <1>7, TrueWrites
  <1> QED
    BY <1>5, <1>6, <1>8

LEMMA RefuseSafety ==
    ASSUME TypeOK, SafetyInv, Grows, NEW o \in Orders, VenueRefuse(o)
    PROVE  SubExclusive' /\ WireOnce' /\ RowTruth'
  <1>0. PlacementInv /\ SubExclusive /\ WireOnce /\ RowTruth
    BY SafetyParts
  <1>1. /\ UNCHANGED <<status, hash, exOrder, exFills>>
        /\ o \in wire /\ wire' = wire \ {o}
    BY DEF VenueRefuse, row
  <1>2. PICK kind \in Refusals \cup {"definite"} : Reply(o, kind)
    BY DEF VenueRefuse
  <1>3. \A u : Untaken(u) => StillUntaken(u)
    BY <1>1 DEF Untaken, StillUntaken
  <1>4. SomeFill(o, "FAILED") \/ StillUntaken(o)
    BY <1>0, <1>1 DEF WireOnce, StillUntaken
  <1>5. SubExclusive'
    <2>1. kind \in Replies
      BY <1>2 DEF Replies, Answered
    <2> QED
      BY <1>0, <1>1, <1>2, <1>3, <1>4, <2>1, RefusalExcluded
  <1>6. WireOnce'
    BY <1>0, <1>1 DEF WireOnce, SomeFill
  <1>7. RowTruth'
    BY <1>0, <1>1, <1>3, TrueWrites
  <1> QED
    BY <1>5, <1>6, <1>7

\* Fills, settlement and closing concern orders the venue already has.
LEMMA ProgressSafety ==
    ASSUME TypeOK, SafetyInv, Grows, NEW o \in Orders,
           VenueClose(o) \/ \E f \in Fills : VenueFill(o, f) \/ VenueSettle(o, f)
    PROVE  SubExclusive' /\ WireOnce' /\ RowTruth'
  <1>0. PlacementInv /\ SubExclusive /\ WireOnce /\ RowTruth
    BY SafetyParts
  <1>1. UNCHANGED <<status, hash, sub, wire>>
    BY DEF VenueClose, VenueFill, VenueSettle, row
  <1>2. \A u \in Orders : exOrder[u] = "none" <=> exOrder'[u] = "none"
    BY DEF VenueClose, VenueFill, VenueSettle, TypeOK, VenueTypeOK
  <1>3. \A u \in Orders : Untaken(u) <=> StillUntaken(u)
    BY <1>1, <1>2 DEF Untaken, StillUntaken
  <1>4. SubExclusive'
    BY <1>0, <1>1, <1>3, OthersExcluded DEF HarmlessStatus
  <1>5. WireOnce'
    <2> SUFFICES ASSUME NEW u \in wire' PROVE exOrder'[u] = "none" \/ SomeFill(u, "FAILED")'
      BY DEF WireOnce
    <2>1. u \in Orders /\ u \in wire
      BY <1>1 DEF TypeOK, VenueTypeOK
    <2>2. SomeFill(u, "FAILED") => SomeFill(u, "FAILED")'
      BY <2>1, GrowsFill
    <2> QED
      BY <1>0, <1>2, <2>1, <2>2 DEF WireOnce
  <1>6. \A t \in Trades : hash[t] # None => ~Untaken(hash[t]) \/ StillUntaken(hash[t])
    BY <1>3 DEF TypeOK, RowTypeOK
  <1>7. RowTruth'
    BY <1>0, <1>1, <1>6, TrueWrites
  <1> QED
    BY <1>4, <1>5, <1>7

\* An answer is true of the order, and a refusal of an order it took means that it
\* is void.
LEMMA AnswerSafety ==
    ASSUME TypeOK, SafetyInv, Grows, PlacementInv', NEW s \in Submitters, VenueAnswer(s)
    PROVE  SafetyInv'
  <1>1. PICK w \in TrueWords(sub[s].order) :
            sub' = [sub EXCEPT ![s].pc = "finish", ![s].reply = w]
    BY DEF VenueAnswer
  <1>2. /\ InFlight(s)
        /\ UNCHANGED <<row, rec, can, stream, venue>>
    BY DEF VenueAnswer, InFlight
  <1>3. /\ \A q \in Submitters \ {s} : sub'[q] = sub[q]
        /\ sub'[s].trade = sub[s].trade /\ sub'[s].order = sub[s].order
        /\ sub'[s].pc = "finish" /\ sub'[s].reply = w
    BY <1>1 DEF TypeOK, SubTypeOK, SubRecords
  <1>4. w # "definite" /\ (w \in Refusals => exOrder[sub[s].order] = "INVALID")
    BY DEF TrueWords, Refusals
  <1>5. NothingTaken(s)'
    BY <1>2, <1>3, <1>4 DEF NothingTaken, venue
  <1> QED
    BY <1>2, <1>3, <1>5, MoveSafety

LEMMA VenueSafety ==
    ASSUME TypeOK, SafetyInv, Grows, Venue
    PROVE  SafetyInv'
  <1>0. PlacementInv /\ RecTruth /\ StreamTruth /\ CanTruth
    BY SafetyParts
  <1>1. PlacementInv'
    BY <1>0, VenuePlacement
  <1>2. ASSUME NEW s \in Submitters, VenueAnswer(s)
        PROVE  SafetyInv'
    BY <1>1, <1>2, AnswerSafety
  <1>3. ASSUME NEW o \in Orders, VenueOrder(o)
        PROVE  SafetyInv'
    <2>1. UNCHANGED <<rec, can, stream>>
      BY <1>3 DEF VenueOrder, VenueAccept, VenueRefuse, VenueFill, VenueSettle, VenueClose
    <2>2. StreamTruth' /\ RecTruth' /\ CanTruth'
      BY <1>0, <2>1, StreamStaysTrue, RecStaysTrue, CanStaysTrue
    <2>3. SubExclusive' /\ WireOnce' /\ RowTruth'
      BY <1>3, AcceptSafety, RefuseSafety, ProgressSafety DEF VenueOrder
    <2> QED
      BY <1>1, <2>2, <2>3 DEF SafetyInv, PlacementInv, ExclusionInv, TruthInv
  <1> QED
    BY <1>2, <1>3 DEF Venue

-----------------------------------------------------------------------------
(* The theorems.                                                           *)

LEMMA InitSafety == Init => SafetyInv
  <1> SUFFICES ASSUME Init PROVE SafetyInv
    OBVIOUS
  <1>1. PlacementInv
    BY InitPlacement
  <1>2. SubExclusive /\ WireOnce
    BY DEF Init, SubExclusive, InFlight, IdleSub, WireOnce
  <1>3. RowTruth
    BY DEF Init, RowTruth, StatusTruth
  <1>4. StreamTruth /\ RecTruth /\ CanTruth
    BY DEF Init, StreamTruth, RecTruth, CanTruth, IdleStream, IdleRec, IdleCan
  <1> QED
    BY <1>1, <1>2, <1>3, <1>4 DEF SafetyInv, PlacementInv, ExclusionInv, TruthInv

LEMMA NextSafety == TypeOK /\ SafetyInv /\ [Next]_vars => SafetyInv'
  <1> SUFFICES ASSUME TypeOK, SafetyInv, [Next]_vars PROVE SafetyInv'
    OBVIOUS
  <1>1. Grows
    BY NextGrows, SafetyParts DEF PlacementInv
  <1>2. CASE UNCHANGED vars
    BY <1>2 DEF vars, row, venue, SafetyInv, BindingInv, RowBinding, VenueBinding,
       SubBinding, RecBinding, StreamBinding, OrderIdIsOwn, ReplyTruth, ExclusionInv,
       SubExclusive, Exclusive, NothingTaken, InFlight, Untaken, SomeFill, WireOnce, NoFillBeforeOrder,
       TruthInv, RowTruth, StatusTruth, StreamTruth, RecTruth, CanTruth
  <1>3. CASE Next
    BY <1>1, <1>3, RowTimeSafety, SubmitSafety, ReconcileSafety, CancelSafety,
       StreamSafety, VenueSafety DEF Next
  <1> QED
    BY <1>2, <1>3

\* The inductive invariant holds of every behaviour of the handlers, the worker and
\* the venue.
THEOREM SafetyIsInvariant == Spec => [](TypeOK /\ SafetyInv)
  <1>1. Init => TypeOK /\ SafetyInv
    BY InitTypeOK, InitSafety
  <1>2. TypeOK /\ SafetyInv /\ [Next]_vars => TypeOK' /\ SafetyInv'
    BY NextTypeOK, NextSafety
  <1> QED
    BY <1>1, <1>2, PTL DEF Spec

\* No order is posted a second time unless the venue is known not to have it or a
\* fill of it has failed: submit_signed_order's claim, the hash it stores and the
\* status it leaves behind are enough, whatever is lost, late or dropped.
THEOREM NeverRepostedBlindly == Spec => []NoBlindRepost
  <1>1. TypeOK /\ SafetyInv => NoBlindRepost
    BY SafetyParts DEF NoBlindRepost, SubExclusive, Exclusive, NothingTaken, InFlight, Untaken
  <1> QED
    BY <1>1, SafetyIsInvariant, PTL

\* A terminal status, whichever handler or event wrote it, is true of the order at
\* the venue and stays true.
THEOREM TerminalStatusTrue == Spec => []TerminalIsTrue
  <1>1. TypeOK /\ SafetyInv => TerminalIsTrue
    BY SafetyParts DEF TerminalIsTrue, RowTruth, StatusTruth, Untaken
  <1> QED
    BY <1>1, SafetyIsInvariant, PTL
=============================================================================
