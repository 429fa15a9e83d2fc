----------------------------- MODULE RulesProofs -----------------------------
(***************************************************************************)
(* Proofs about the modules with little state of their own, each for any   *)
(* values of its constants: what a signed order that is taken has in       *)
(* common with its intent (SignedOrders), that a limiter lets no address   *)
(* exceed its limit in any window (RateLimiter), that the pages of a list  *)
(* that changes show nothing twice and pass over nothing (Pages), and that *)
(* streams lose nothing and edits go no further than what they have listed *)
(* (Feeds).                                                                *)
(***************************************************************************)
EXTENDS SignedOrders, RateLimiter, Pages, Feeds, FiniteSetTheorems, TLAPS

(* Finite sets, and numbers.                                               *)

LEMMA PartOf ==
    ASSUME NEW S, IsFiniteSet(S), NEW T, T \subseteq S
    PROVE  IsFiniteSet(T) /\ Cardinality(T) \in Nat /\ Cardinality(T) <= Cardinality(S)
  BY FS_Subset, FS_CardinalityType

LEMMA TwoParts ==
    ASSUME NEW S, IsFiniteSet(S), NEW T, NEW U, S = T \cup U, T \cap U = {}
    PROVE  Cardinality(S) = Cardinality(T) + Cardinality(U)
  <1>1. IsFiniteSet(T) /\ IsFiniteSet(U) /\ Cardinality(T) \in Nat /\ Cardinality(U) \in Nat
    BY PartOf
  <1>2. Cardinality(T \cap U) = 0
    BY FS_EmptySet
  <1> QED
    BY <1>1, <1>2, FS_Union

LEMMA LeastOf ==
    ASSUME NEW S \in SUBSET Nat, S # {}
    PROVE  \E m \in S : \A n \in S : m <= n
  <1> DEFINE R == OpToRel(<, Nat)
  <1>1. \E m \in S : \A n \in S : <<n, m>> \notin R
    <2>1. IsWellFoundedOn(R, Nat)
      BY NatLessThanWellFounded, Zenon
    <2> HIDE DEF R
    <2> QED
      BY <2>1, WFMin
  <1>2. \A m, n \in Nat : n < m => <<n, m>> \in R
    BY Zenon DEF OpToRel
  <1> HIDE DEF R
  <1>3. \A m, n \in Nat : ~(n < m) => m <= n
    OBVIOUS
  <1> QED
    BY <1>1, <1>2, <1>3

-----------------------------------------------------------------------------
(* SIGNED ORDERS                                                           *)

\* Multiplication by what is not negative keeps the order.
LEMMA TimesMonotonic ==
    ASSUME NEW d \in Nat, NEW x \in Int, NEW y \in Int, x <= y
    PROVE  d * x <= d * y
  OBVIOUS

\* Rounding moves a decimal by half a base unit at most (normalized_requested_base).
LEMMA NormalizedNear ==
    ASSUME NEW v \in Nat
    PROVE  /\ Normalized(v) \in Nat
           /\ 2 * Fine * Normalized(v) <= 2 * v + Fine
           /\ 2 * Fine * Normalized(v) >= 2 * v - Fine
  <1> DEFINE q == Normalized(v)
  <1>1. Fine \in Nat /\ Fine > 0
    BY ScaleAssumption
  <1>2. q = (2 * v + Fine) \div (2 * Fine)
    BY DEF Normalized
  <1>3. q \in Nat /\ (2 * Fine) * q <= 2 * v + Fine /\ 2 * v + Fine < (2 * Fine) * q + 2 * Fine
    BY <1>1, <1>2
  <1> QED
    BY <1>1, <1>3

\* What holds of the two rows: each has passed its checks.
Checked ==
    /\ trade # Absent => /\ trade \in Payloads
                         /\ Ready(trade.primary, trade.wallet) /\ ValidPayload(trade)
                         /\ Offers(trade.found, trade.market, trade.token, trade.outcome)
    /\ taken # Absent => /\ trade # Absent
                         /\ taken \in Submissions
                         /\ Accepts(trade, taken)

LEMMA CheckedInvariant == OrderSpec => []Checked
  <1>1. OrderInit => Checked
    BY DEF OrderInit, Checked
  <1>2. Checked /\ [OrderNext]_orderVars => Checked'
    <2> SUFFICES ASSUME Checked, [OrderNext]_orderVars PROVE Checked'
      OBVIOUS
    <2>1. CASE Create
      BY <2>1 DEF Checked, Create
    <2>2. CASE Submit
      BY <2>2 DEF Checked, Submit
    <2>3. CASE UNCHANGED orderVars
      BY <2>3 DEF Checked, orderVars
    <2> QED
      BY <2>1, <2>2, <2>3 DEF OrderNext
  <1> QED
    BY <1>1, <1>2, PTL DEF OrderSpec

\* A product in range is the product, and not its remainder (checked_mul).
LEMMA TimesExact ==
    ASSUME NEW x \in Nat, NEW y \in Nat, InRange(x, y)
    PROVE  Times(x, y) = x * y
  <1>1. x * y \in Nat /\ x * y < MaxU128 + 1 /\ MaxU128 \in Nat
    BY ScaleAssumption DEF InRange
  <1>2. ASSUME NEW z \in Nat, NEW m \in Nat, z < m PROVE z % m = z
    BY <1>2
  <1> QED
    BY <1>1, <1>2 DEF Times

\* The amounts' and the prices' bounds, for one intent and one submission.
LEMMA AmountBound ==
    ASSUME NEW t \in PayloadShape, NEW o \in OrderShape, AmountOK(t, o)
    PROVE  /\ 2 * Fine * SignedQuantity(t, o) <= 2 * t.amount + 3 * Fine
           /\ 2 * Fine * SignedQuantity(t, o) >= 2 * t.amount - 3 * Fine
  <1> DEFINE q == SignedQuantity(t, o)
             n == Normalized(t.amount)
  <1>1. Fine \in Nat /\ Fine > 0 /\ MaxU128 \in Nat
    BY ScaleAssumption
  <1>2. t.amount \in Nat /\ q \in Nat
    BY <1>1 DEF PayloadShape, OrderShape, SignedQuantity
  <1>3. n \in Nat /\ 2 * Fine * n <= 2 * t.amount + Fine /\ 2 * Fine * n >= 2 * t.amount - Fine
    BY <1>2, NormalizedNear
  <1>4. q <= n + 1 /\ n <= q + 1
    BY <1>2, <1>3 DEF AmountOK, Distance
  <1> HIDE DEF q, n
  <1>5. (2 * Fine) * q <= (2 * Fine) * (n + 1) /\ (2 * Fine) * n <= (2 * Fine) * (q + 1)
    BY <1>1, <1>2, <1>3, <1>4, TimesMonotonic
  <1>6. 2 * Fine * q <= 2 * t.amount + 3 * Fine /\ 2 * Fine * q >= 2 * t.amount - 3 * Fine
    BY <1>1, <1>2, <1>3, <1>5
  <1> QED
    BY <1>6 DEF q

LEMMA PriceBound ==
    ASSUME NEW t \in PayloadShape, NEW o \in OrderShape, t.type = "LIMIT",
           t.price \in Nat, PriceOK(t, o)
    PROVE  /\ (2 * Fine * Scale) * Money(o) <= Shares(o) * (2 * t.price + 3 * Fine)
           /\ (2 * Fine * Scale) * Money(o) >= Shares(o) * (2 * t.price - 3 * Fine)
  <1> DEFINE m == Money(o)
             d == Shares(o)
             n == Normalized(t.price)
  <1>1. Fine \in Nat /\ Fine > 0 /\ Scale \in Nat /\ MaxU128 \in Nat
    BY ScaleAssumption
  <1>2. m \in Nat /\ d \in Nat
    BY <1>1 DEF OrderShape, Money, Shares
  <1>3. n \in Nat /\ 2 * Fine * n <= 2 * t.price + Fine /\ 2 * Fine * n >= 2 * t.price - Fine
    BY NormalizedNear
  <1>4. Times(m, Scale) = m * Scale /\ Times(d, n) = d * n
    BY <1>1, <1>2, <1>3, TimesExact DEF PriceOK
  <1>5. Distance(m * Scale, d * n) <= d
    BY <1>4 DEF PriceOK
  <1> HIDE DEF m, d, n
  <1> DEFINE x == m * Scale
             y == d * n
  <1>6. x \in Nat /\ y \in Nat
    BY <1>1, <1>2, <1>3
  <1>7. x <= y + d /\ y <= x + d
    BY <1>2, <1>5, <1>6 DEF Distance
  <1> HIDE DEF x, y
  <1>8. (2 * Fine) * x <= (2 * Fine) * (y + d) /\ (2 * Fine) * y <= (2 * Fine) * (x + d)
    BY <1>1, <1>2, <1>6, <1>7, TimesMonotonic
  <1>9. d * (2 * Fine * n) <= d * (2 * t.price + Fine)
        /\ d * (2 * t.price - Fine) <= d * (2 * Fine * n)
    BY <1>1, <1>2, <1>3, TimesMonotonic
  <1>10. (2 * Fine) * y = d * (2 * Fine * n) /\ (2 * Fine * Scale) * m = (2 * Fine) * x
    BY <1>1, <1>2, <1>3 DEF x, y
  <1>11. (2 * Fine * Scale) * m <= d * (2 * t.price + 3 * Fine)
    BY <1>1, <1>2, <1>6, <1>8, <1>9, <1>10
  <1>12. (2 * Fine * Scale) * m >= d * (2 * t.price - 3 * Fine)
    BY <1>1, <1>2, <1>6, <1>8, <1>9, <1>10
  <1> QED
    BY <1>11, <1>12 DEF m, d

(* EconomicsKept holds of every order that is taken, whatever the width of *)
(* the integers and the precision of the user's decimals                   *)
(* (validate_signed_order).                                                *)
THEOREM EconomicsCorrect == OrderSpec => []EconomicsKept
  <1>1. Checked => EconomicsKept
    <2> SUFFICES ASSUME Checked, taken # Absent
                 PROVE  EconomicsKept
      BY DEF EconomicsKept
    <2> DEFINE o == taken.order
    <2>1. trade \in PayloadShape /\ ValidPayload(trade) /\ o \in OrderShape
          /\ AmountOK(trade, o) /\ PriceOK(trade, o)
      BY InputAssumption, SubmissionAssumption DEF Checked, Accepts, SubmissionShape
    <2>2. /\ 2 * Fine * SignedQuantity(trade, o) <= 2 * trade.amount + 3 * Fine
          /\ 2 * Fine * SignedQuantity(trade, o) >= 2 * trade.amount - 3 * Fine
      BY <2>1, AmountBound
    <2>3. ASSUME trade.type = "LIMIT"
          PROVE  /\ (2 * Fine * Scale) * Money(o) <= Shares(o) * (2 * trade.price + 3 * Fine)
                 /\ (2 * Fine * Scale) * Money(o) >= Shares(o) * (2 * trade.price - 3 * Fine)
      <3>1. trade.price \in Nat
        BY <2>1, <2>3 DEF PayloadShape, ValidPayload
      <3> QED
        BY <2>1, <2>3, <3>1, PriceBound
    <2> QED
      BY <2>2, <2>3 DEF EconomicsKept
  <1> QED
    BY <1>1, CheckedInvariant, PTL

(* OneWalletOneOutcome holds of every order that is taken, whatever the    *)
(* user's wallets, the venue's markets and the connections become between  *)
(* the readings (validate_readiness, resolve_instrument, credentials,      *)
(* validate_signed_order).                                                 *)
THEOREM PartiesCorrect == OrderSpec => []OneWalletOneOutcome
  <1>1. Checked => OneWalletOneOutcome
    <2> SUFFICES ASSUME Checked, taken # Absent
                 PROVE  OneWalletOneOutcome
      BY DEF OneWalletOneOutcome
    <2>1. trade # Absent /\ Accepts(trade, taken)
      BY DEF Checked
    <2>2. trade.primary = trade.wallet /\ taken.primary = trade.wallet
      BY <2>1 DEF Checked, Accepts, Ready
    <2>3. /\ taken.account = trade.wallet /\ taken.funder = trade.wallet
          /\ taken.order.maker = trade.wallet /\ taken.order.signer = trade.wallet
          /\ taken.order.token = trade.token
      BY <2>1 DEF Accepts, CredentialsFit, Identity
    <2>4. /\ Offers(trade.found, trade.market, trade.token, trade.outcome)
          /\ Offers(taken.found, trade.market, trade.token, trade.outcome)
      BY <2>1 DEF Checked, Accepts
    <2> QED
      BY <2>2, <2>3, <2>4 DEF OneWalletOneOutcome, Offers
  <1> QED
    BY <1>1, CheckedInvariant, PTL

-----------------------------------------------------------------------------
(* RATE LIMITERS                                                           *)

Buckets(r) == [count : 1..Limit[r], start : Nat]

Admissions == [at : Nat, nth : Nat]

\* Of an address, the limiter has a bucket whose window is not over.
Counting(r, a) == a \in DOMAIN buckets[r] /\ Live(buckets[r][a])

Earlier(r, a) == {q \in admitted[r][a] : q.at < buckets[r][a].start}
Since(r, a) == {q \in admitted[r][a] : q.at >= buckets[r][a].start}
Later(r, a) == {q \in admitted[r][a] : q.at > buckets[r][a].start}

LimiterTyped ==
    /\ clock \in Nat
    /\ buckets \in [Routes -> UNION {[S -> [count : Nat, start : Nat]] : S \in SUBSET Addresses}]
    /\ admitted \in [Routes -> [Addresses -> SUBSET Admissions]]
    /\ refused \in [Routes -> SUBSET Addresses]
    /\ \A r \in Routes, a \in Addresses : IsFiniteSet(admitted[r][a])
    /\ \A r \in Routes : \A a \in DOMAIN buckets[r] :
        buckets[r][a] \in Buckets(r) /\ buckets[r][a].start <= clock

\* What is counted has come in the last Window ticks, and has numbers of its own.
Recent(r, a) ==
    \A q \in admitted[r][a] :
        /\ q.at <= clock /\ clock - q.at < Window
        /\ q.at = clock => q.nth < Cardinality(admitted[r][a])

\* A bucket counts what was let through since it began, the first at once.
\* Earlier, in the same length of time, the limit was not reached.
Counted(r, a) ==
    IF Counting(r, a)
      THEN /\ Cardinality(Since(r, a)) = buckets[r][a].count
           /\ Cardinality(Later(r, a)) < buckets[r][a].count
           /\ Cardinality(Earlier(r, a)) < Limit[r]
           /\ a \in refused[r] => buckets[r][a].count = Limit[r]
      ELSE /\ Cardinality(admitted[r][a]) < Limit[r]
           /\ \A q \in admitted[r][a] : q.at # clock
           /\ a \notin refused[r]

LimiterInv ==
    /\ LimiterTyped
    /\ \A r \in Routes, a \in Addresses : Recent(r, a) /\ Counted(r, a)

\* What an address has been granted is before its bucket or since.
LEMMA Parted ==
    ASSUME LimiterTyped, NEW r \in Routes, NEW a \in Addresses, a \in DOMAIN buckets[r]
    PROVE  /\ Cardinality(Earlier(r, a)) \in Nat /\ Cardinality(Since(r, a)) \in Nat
           /\ Cardinality(Later(r, a)) \in Nat
           /\ Cardinality(admitted[r][a]) = Cardinality(Earlier(r, a)) + Cardinality(Since(r, a))
  <1> DEFINE all == admitted[r][a]
  <1>1. IsFiniteSet(all) /\ all \subseteq Admissions /\ buckets[r][a].start \in Nat
    BY DEF LimiterTyped, Buckets
  <1>2. /\ Earlier(r, a) \subseteq all /\ Since(r, a) \subseteq all /\ Later(r, a) \subseteq all
        /\ all = Earlier(r, a) \cup Since(r, a)
        /\ Earlier(r, a) \cap Since(r, a) = {}
    BY <1>1 DEF Earlier, Since, Later, Admissions
  <1> QED
    BY <1>1, <1>2, PartOf, TwoParts
-----------------------------------------------------------------------------
(* A request.                                                              *)

\* The map after a check has the bucket of the address, one more or one full.
LEMMA CheckTyped ==
    ASSUME LimiterTyped, NEW r \in Routes, NEW a \in Addresses
    PROVE  LET map == Check(r, a).map IN
           /\ map \in [DOMAIN map -> Buckets(r)]
           /\ a \in DOMAIN map /\ DOMAIN map \subseteq Addresses
           /\ \A b \in DOMAIN map : map[b].start <= clock
           /\ \A b \in Addresses \ {a} :
                /\ b \in DOMAIN map => b \in DOMAIN buckets[r] /\ map[b] = buckets[r][b]
                /\ Counting(r, b) => b \in DOMAIN map
  <1> DEFINE all == Retained(buckets[r])
             bucket == BucketOf(all, a)
             goesOn == bucket.count < Limit[r]
             counted == IF goesOn THEN [bucket EXCEPT !.count = @ + 1] ELSE bucket
             map == [b \in DOMAIN all \cup {a} |-> IF b = a THEN counted ELSE all[b]]
  <1>1. /\ DOMAIN buckets[r] \subseteq Addresses
        /\ \A b \in DOMAIN buckets[r] : buckets[r][b] \in Buckets(r) /\ buckets[r][b].start <= clock
    BY DEF LimiterTyped
  <1>2. /\ DOMAIN all \subseteq DOMAIN buckets[r]
        /\ \A b \in DOMAIN all : all[b] = buckets[r][b]
        /\ \A b \in Addresses : Counting(r, b) => b \in DOMAIN all
    BY DEF Retained, Restrict, Counting
  <1> HIDE DEF all
  <1>3. Limit[r] \in Nat \ {0} /\ clock \in Nat
    BY LimitAssumption DEF LimiterTyped
  <1>4. /\ bucket \in [count : 0..Limit[r], start : Nat]
        /\ bucket.start <= clock
    BY <1>1, <1>2, <1>3 DEF BucketOf, Buckets
  <1> HIDE DEF bucket
  <1>5. counted \in Buckets(r) /\ counted.start <= clock
    <2>1. CASE goesOn
      BY <1>3, <1>4, <2>1 DEF Buckets
    <2>2. CASE ~goesOn
      BY <1>3, <1>4, <2>2 DEF Buckets
    <2> QED
      BY <2>1, <2>2
  <1> HIDE DEF counted
  <1>6. Check(r, a).map = map
    BY DEF Check, all, bucket, counted, goesOn
  <1>7. /\ DOMAIN map = DOMAIN all \cup {a}
        /\ \A b \in DOMAIN map : map[b] = IF b = a THEN counted ELSE all[b]
    OBVIOUS
  <1> HIDE DEF map
  <1>8. \A b \in DOMAIN map : map[b] \in Buckets(r) /\ map[b].start <= clock
    BY <1>1, <1>2, <1>5, <1>7
  <1>9. map = [b \in DOMAIN map |-> map[b]]
    BY DEF map
  <1> QED
    BY <1>1, <1>2, <1>6, <1>7, <1>8, <1>9

\* The bucket of the address itself.
LEMMA CheckOwn ==
    ASSUME LimiterTyped, NEW r \in Routes, NEW a \in Addresses
    PROVE  LET bucket == IF Counting(r, a) THEN buckets[r][a] ELSE [count |-> 0, start |-> clock]
               mine == Check(r, a).map[a]
           IN
           /\ Check(r, a).goesOn <=> bucket.count < Limit[r]
           /\ Check(r, a).goesOn => mine = [count |-> bucket.count + 1, start |-> bucket.start]
           /\ ~Check(r, a).goesOn => mine = bucket
  <1> DEFINE all == Retained(buckets[r])
             own == IF Counting(r, a) THEN buckets[r][a] ELSE [count |-> 0, start |-> clock]
             bucket == BucketOf(all, a)
  <1>1. /\ DOMAIN all \subseteq DOMAIN buckets[r]
        /\ \A b \in DOMAIN all : all[b] = buckets[r][b]
        /\ Counting(r, a) => a \in DOMAIN all
    BY DEF Retained, Restrict, Counting
  <1> HIDE DEF all
  <1>2. bucket = own
    BY <1>1 DEF BucketOf, Counting
  <1>3. own \in [count : Nat, start : Nat]
    BY DEF LimiterTyped, Counting, Buckets
  <1> HIDE DEF bucket, own
  <1>4. /\ Check(r, a).goesOn <=> bucket.count < Limit[r]
        /\ Check(r, a).map[a] = IF bucket.count < Limit[r] THEN [bucket EXCEPT !.count = @ + 1] ELSE bucket
    BY DEF Check, all, bucket
  <1>5. [own EXCEPT !.count = @ + 1] = [count |-> own.count + 1, start |-> own.start]
    BY <1>3
  <1> QED
    BY <1>2, <1>4, <1>5 DEF own

LEMMA CheckOld ==
    ASSUME LimiterTyped, NEW r \in Routes, NEW a \in Addresses, Counting(r, a)
    PROVE  LET old == buckets[r][a] IN
           /\ old.count \in 1..Limit[r] /\ old.start \in Nat /\ old.start <= clock
           /\ Check(r, a).goesOn <=> old.count < Limit[r]
           /\ Check(r, a).goesOn =>
                Check(r, a).map[a] = [count |-> old.count + 1, start |-> old.start]
           /\ ~Check(r, a).goesOn => Check(r, a).map[a] = old
  <1>1. buckets[r][a] \in Buckets(r) /\ buckets[r][a].start <= clock
    BY DEF LimiterTyped, Counting
  <1> QED
    BY <1>1, CheckOwn DEF Buckets

LEMMA CheckNew ==
    ASSUME LimiterTyped, NEW r \in Routes, NEW a \in Addresses, ~Counting(r, a)
    PROVE  /\ Check(r, a).goesOn
           /\ Check(r, a).map[a] = [count |-> 1, start |-> clock]
  <1> DEFINE new == [count |-> 0, start |-> clock]
  <1>1. /\ Check(r, a).goesOn <=> new.count < Limit[r]
        /\ Check(r, a).goesOn => Check(r, a).map[a] = [count |-> new.count + 1, start |-> new.start]
    BY CheckOwn
  <1>2. new.count = 0 /\ new.start = clock
    OBVIOUS
  <1> HIDE DEF new
  <1>3. 0 < Limit[r]
    BY LimitAssumption
  <1> QED
    BY <1>1, <1>2, <1>3

\* One limiter in a request: it is not reached, or admits, or refuses.
NotReached(r) ==
    /\ buckets'[r] = buckets[r] /\ admitted'[r] = admitted[r] /\ refused'[r] = refused[r]

Admits(r, a) ==
    /\ Check(r, a).goesOn
    /\ buckets'[r] = Check(r, a).map
    /\ admitted'[r] = [admitted[r] EXCEPT ![a] = @ \cup {Another(@)}]
    /\ refused'[r] = refused[r]

Refuses(r, a) ==
    /\ ~Check(r, a).goesOn
    /\ buckets'[r] = Check(r, a).map
    /\ admitted'[r] = admitted[r]
    /\ refused'[r] = refused[r] \cup {a}

LEMMA RequestParts ==
    ASSUME NEW route \in Routes, NEW a \in Addresses, Request(route, a), NEW r \in Routes
    PROVE  clock' = clock /\ (NotReached(r) \/ Admits(r, a) \/ Refuses(r, a))
  <1> DEFINE result == [q \in Layers(route) |-> Check(q, a)]
             reached == IF result["public"].goesOn THEN Layers(route) ELSE {"public"}
             passed == {q \in reached : result[q].goesOn}
  <1>1. /\ buckets' = [q \in Routes |-> IF q \in reached THEN result[q].map ELSE buckets[q]]
        /\ admitted' = [q \in Routes |-> IF q \in passed
                                           THEN [admitted[q] EXCEPT ![a] = @ \cup {Another(@)}]
                                           ELSE admitted[q]]
        /\ refused' = [q \in Routes |-> IF q \in reached \ passed THEN refused[q] \cup {a} ELSE refused[q]]
        /\ clock' = clock
    BY DEF Request
  <1>2. reached \subseteq Layers(route)
    BY DEF Layers
  <1>3. \A q \in reached : result[q] = Check(q, a)
    BY <1>2
  <1>4. \A q : q \in passed <=> q \in reached /\ result[q].goesOn
    OBVIOUS
  <1> HIDE DEF result, reached, passed
  <1>5. CASE r \notin reached
    BY <1>1, <1>4, <1>5 DEF NotReached
  <1>6. CASE r \in reached /\ Check(r, a).goesOn
    BY <1>1, <1>3, <1>4, <1>6 DEF Admits
  <1>7. CASE r \in reached /\ ~Check(r, a).goesOn
    BY <1>1, <1>3, <1>4, <1>7 DEF Refuses
  <1> QED
    BY <1>1, <1>5, <1>6, <1>7

\* The request that is added is none of those that are there.
LEMMA AnotherIsNew ==
    ASSUME LimiterTyped, NEW r \in Routes, NEW a \in Addresses, Recent(r, a)
    PROVE  LET q == Another(admitted[r][a]) IN
           q \in Admissions /\ q.at = clock /\ q \notin admitted[r][a]
  <1>1. Cardinality(admitted[r][a]) \in Nat /\ clock \in Nat
    BY FS_CardinalityType DEF LimiterTyped
  <1> QED
    BY <1>1 DEF Another, Admissions, Recent

LEMMA RequestTyped ==
    ASSUME LimiterInv, NEW route \in Routes, NEW a \in Addresses, Request(route, a)
    PROVE  LimiterTyped'
  <1>1. /\ DOMAIN buckets' = Routes /\ DOMAIN admitted' = Routes /\ DOMAIN refused' = Routes
        /\ buckets' = [r \in Routes |-> buckets'[r]]
        /\ admitted' = [r \in Routes |-> admitted'[r]]
        /\ refused' = [r \in Routes |-> refused'[r]]
    BY DEF Request
  <1>2. ASSUME NEW r \in Routes
        PROVE  /\ buckets'[r] \in UNION {[S -> [count : Nat, start : Nat]] : S \in SUBSET Addresses}
               /\ \A b \in DOMAIN buckets'[r] :
                    buckets'[r][b] \in Buckets(r) /\ buckets'[r][b].start <= clock'
    <2>1. CASE NotReached(r)
      BY <2>1, RequestParts DEF NotReached, LimiterInv, LimiterTyped
    <2>2. CASE Admits(r, a) \/ Refuses(r, a)
      <3> DEFINE map == Check(r, a).map
      <3>1. /\ map \in [DOMAIN map -> Buckets(r)]
            /\ DOMAIN map \subseteq Addresses
            /\ \A b \in DOMAIN map : map[b].start <= clock
        BY CheckTyped DEF LimiterInv
      <3>2. buckets'[r] = map /\ clock' = clock
        BY <2>2, RequestParts DEF Admits, Refuses
      <3> HIDE DEF map
      <3>3. Buckets(r) \subseteq [count : Nat, start : Nat]
        BY LimitAssumption DEF Buckets
      <3>4. map \in [DOMAIN map -> [count : Nat, start : Nat]]
        BY <3>1, <3>3
      <3> QED
        BY <3>1, <3>2, <3>4
    <2> QED
      BY <2>1, <2>2, RequestParts
  <1>3. ASSUME NEW r \in Routes
        PROVE  /\ admitted'[r] \in [Addresses -> SUBSET Admissions]
               /\ \A b \in Addresses : IsFiniteSet(admitted'[r][b])
               /\ refused'[r] \in SUBSET Addresses
    <2>1. /\ admitted[r] \in [Addresses -> SUBSET Admissions]
          /\ \A b \in Addresses : IsFiniteSet(admitted[r][b])
          /\ refused[r] \in SUBSET Addresses
      BY DEF LimiterInv, LimiterTyped
    <2>2. CASE NotReached(r) \/ Refuses(r, a)
      BY <2>1, <2>2 DEF NotReached, Refuses
    <2>3. CASE Admits(r, a)
      <3>1. Another(admitted[r][a]) \in Admissions
        BY AnotherIsNew DEF LimiterInv
      <3>2. IsFiniteSet(admitted[r][a] \cup {Another(admitted[r][a])})
        BY <2>1, FS_AddElement
      <3> QED
        BY <2>1, <2>3, <3>1, <3>2 DEF Admits
    <2> QED
      BY <2>2, <2>3, RequestParts
  <1>4. clock' \in Nat
    BY DEF Request, LimiterInv, LimiterTyped
  <1> QED
    BY <1>1, <1>2, <1>3, <1>4 DEF LimiterTyped

\* Of the other addresses nothing that counts is changed.
LEMMA OthersKept ==
    ASSUME LimiterInv, NEW route \in Routes, NEW a \in Addresses, Request(route, a),
           NEW r \in Routes, NEW b \in Addresses, NotReached(r) \/ b # a
    PROVE  Recent(r, b)' /\ Counted(r, b)'
  <1>1. clock' = clock
    BY RequestParts
  <1>2. admitted'[r][b] = admitted[r][b] /\ (b \in refused'[r] <=> b \in refused[r])
    <2>1. admitted[r] \in [Addresses -> SUBSET Admissions]
      BY DEF LimiterInv, LimiterTyped
    <2>2. NotReached(r) \/ Admits(r, a) \/ Refuses(r, a)
      BY RequestParts
    <2> QED
      BY <2>1, <2>2 DEF NotReached, Admits, Refuses
  <1>3. Counting(r, b)' = Counting(r, b) /\ (Counting(r, b) => buckets'[r][b] = buckets[r][b])
    <2>1. CASE NotReached(r)
      BY <1>1, <2>1 DEF NotReached, Counting, Live
    <2>2. CASE ~NotReached(r)
      <3> DEFINE map == Check(r, a).map
      <3>1. /\ b \in DOMAIN map => b \in DOMAIN buckets[r] /\ map[b] = buckets[r][b]
            /\ Counting(r, b) => b \in DOMAIN map
        BY <2>2, CheckTyped DEF LimiterInv
      <3>2. buckets'[r] = map
        BY <2>2, RequestParts DEF Admits, Refuses
      <3> HIDE DEF map
      <3> QED
        BY <1>1, <3>1, <3>2 DEF Counting, Live
    <2> QED
      BY <2>1, <2>2
  <1>4. Recent(r, b) /\ Counted(r, b)
    BY DEF LimiterInv
  <1>5. Recent(r, b)'
    BY <1>1, <1>2, <1>4 DEF Recent
  <1>6. CASE Counting(r, b)
    <2>1. /\ Since(r, b)' = Since(r, b) /\ Later(r, b)' = Later(r, b) /\ Earlier(r, b)' = Earlier(r, b)
      BY <1>2, <1>3, <1>6 DEF Since, Later, Earlier
    <2> QED
      BY <1>2, <1>3, <1>4, <1>5, <1>6, <2>1 DEF Counted
  <1>7. CASE ~Counting(r, b)
    BY <1>1, <1>2, <1>3, <1>4, <1>5, <1>7 DEF Counted
  <1> QED
    BY <1>6, <1>7

\* An address that is let through: its bucket's first request, or one more.
LEMMA AdmittedCounted ==
    ASSUME LimiterInv, NEW route \in Routes, NEW a \in Addresses, Request(route, a),
           NEW r \in Routes, Admits(r, a)
    PROVE  Recent(r, a)' /\ Counted(r, a)'
  <1> DEFINE all == admitted[r][a]
             q == Another(all)
             mine == buckets'[r][a]
  <1>1. /\ LimiterTyped /\ Recent(r, a) /\ Counted(r, a)
        /\ clock' = clock /\ clock \in Nat
        /\ Limit[r] \in Nat \ {0} /\ Window \in Nat \ {0}
    BY RequestParts, LimitAssumption, WindowAssumption DEF LimiterInv, LimiterTyped
  <1>2. admitted'[r][a] = all \cup {q} /\ refused'[r] = refused[r]
    BY <1>1 DEF Admits, LimiterTyped
  <1>3. IsFiniteSet(all) /\ all \subseteq Admissions /\ Cardinality(all) \in Nat
    BY <1>1, FS_CardinalityType DEF LimiterTyped
  <1>4. q \in Admissions /\ q.at = clock /\ q.nth = Cardinality(all) /\ q \notin all
    BY <1>1, AnotherIsNew DEF Another
  <1>5. Cardinality(all \cup {q}) = Cardinality(all) + 1
    BY <1>3, <1>4, FS_AddElement
  <1>6. a \in DOMAIN buckets'[r] /\ LimiterTyped'
    BY <1>1, RequestTyped, CheckTyped DEF Admits
  <1>7. Recent(r, a)'
    <2>1. \A x \in all : x.at <= clock /\ clock - x.at < Window
                         /\ (x.at = clock => x.nth < Cardinality(all))
      BY <1>1 DEF Recent
    <2>2. \A x \in all : x.nth \in Nat
      BY <1>3 DEF Admissions
    <2> HIDE DEF all, q
    <2>3. \A x \in all \cup {q} : x.at <= clock /\ clock - x.at < Window
                                 /\ (x.at = clock => x.nth < Cardinality(all) + 1)
      BY <1>1, <1>3, <1>4, <2>1, <2>2
    <2> QED
      BY <1>1, <1>2, <1>5, <2>3 DEF Recent
  <1>8. CASE Counting(r, a)
    <2> DEFINE old == buckets[r][a]
    <2>1. /\ old.count < Limit[r]
          /\ mine = [count |-> old.count + 1, start |-> old.start]
          /\ old.start \in Nat /\ old.start <= clock /\ old.count \in Nat
      <3>1. /\ old.count \in 1..Limit[r] /\ old.start \in Nat /\ old.start <= clock
            /\ Check(r, a).goesOn <=> old.count < Limit[r]
            /\ Check(r, a).goesOn => Check(r, a).map[a] = [count |-> old.count + 1, start |-> old.start]
        BY <1>1, <1>8, CheckOld
      <3> HIDE DEF old
      <3>2. mine = Check(r, a).map[a] /\ Check(r, a).goesOn
        BY DEF Admits
      <3> QED
        BY <1>1, <3>1, <3>2
    <2>2. a \in DOMAIN buckets[r] /\ Live(old)
      BY <1>8 DEF Counting
    <2>3. Counting(r, a)'
      BY <1>1, <1>6, <2>1, <2>2 DEF Counting, Live
    <2>4. /\ Since(r, a)' = Since(r, a) \cup {q}
          /\ Earlier(r, a)' = Earlier(r, a)
          /\ Later(r, a)' \subseteq Later(r, a) \cup {q}
      <3>1. mine.start = old.start
        BY <2>1
      <3> HIDE DEF all, q, mine, old
      <3>2. /\ {x \in all \cup {q} : x.at >= old.start} = {x \in all : x.at >= old.start} \cup {q}
            /\ {x \in all \cup {q} : x.at < old.start} = {x \in all : x.at < old.start}
            /\ {x \in all \cup {q} : x.at > old.start} \subseteq {x \in all : x.at > old.start} \cup {q}
        BY <1>1, <1>4, <2>1
      <3> QED
        BY <1>2, <3>1, <3>2 DEF Since, Earlier, Later, all, mine, old
    <2>5. /\ Cardinality(Since(r, a)) = old.count
          /\ Cardinality(Later(r, a)) < old.count
          /\ Cardinality(Earlier(r, a)) < Limit[r]
          /\ a \in refused[r] => old.count = Limit[r]
      BY <1>1, <1>8 DEF Counted
    <2>6. /\ IsFiniteSet(Since(r, a)) /\ IsFiniteSet(Later(r, a)) /\ Cardinality(Later(r, a)) \in Nat
          /\ q \notin Since(r, a) /\ q \notin Later(r, a)
      BY <1>3, <1>4, PartOf DEF Since, Later
    <2>7. /\ Cardinality(Since(r, a) \cup {q}) = Cardinality(Since(r, a)) + 1
          /\ IsFiniteSet(Later(r, a) \cup {q})
          /\ Cardinality(Later(r, a) \cup {q}) = Cardinality(Later(r, a)) + 1
      BY <2>6, FS_AddElement
    <2>8. Cardinality(Later(r, a)') <= Cardinality(Later(r, a)) + 1 /\ Cardinality(Later(r, a)') \in Nat
      BY <2>4, <2>7, PartOf
    <2>9. /\ Cardinality(Since(r, a)') = mine.count
          /\ Cardinality(Later(r, a)') < mine.count
          /\ Cardinality(Earlier(r, a)') < Limit[r]
          /\ a \notin refused'[r]
      <3> HIDE DEF old, mine, q, all
      <3>1. mine.count = old.count + 1
        BY <2>1
      <3> QED
        BY <1>2, <2>1, <2>4, <2>5, <2>6, <2>7, <2>8, <3>1
    <2> QED
      BY <1>7, <2>3, <2>9 DEF Counted
  <1>9. CASE ~Counting(r, a)
    <2>1. mine = [count |-> 1, start |-> clock]
      BY <1>1, <1>9, CheckNew DEF Admits
    <2>2. Counting(r, a)'
      BY <1>1, <1>6, <2>1 DEF Counting, Live
    <2>3. \A x \in all : x.at < clock
      BY <1>1, <1>3, <1>9 DEF Counted, Recent, Admissions
    <2>4. Since(r, a)' = {q} /\ Later(r, a)' = {} /\ Earlier(r, a)' = all
      <3>1. mine.start = clock
        BY <2>1
      <3> HIDE DEF all, q, mine
      <3>2. /\ {x \in all \cup {q} : x.at >= clock} = {q}
            /\ {x \in all \cup {q} : x.at > clock} = {}
            /\ {x \in all \cup {q} : x.at < clock} = all
        <4>1. \A x \in all : x.at \in Nat
          BY <1>3 DEF Admissions
        <4> QED
          BY <1>1, <1>4, <2>3, <4>1
      <3> QED
        BY <1>2, <3>1, <3>2 DEF Since, Earlier, Later, all, mine
    <2>5. Cardinality({q}) = 1 /\ Cardinality({}) = 0
      BY FS_Singleton, FS_EmptySet
    <2>6. Cardinality(all) < Limit[r] /\ a \notin refused[r]
      BY <1>1, <1>9 DEF Counted
    <2> QED
      BY <1>2, <1>7, <2>1, <2>2, <2>4, <2>5, <2>6 DEF Counted
  <1> QED
    BY <1>8, <1>9

\* An address that is refused: its bucket is full.
LEMMA RefusedCounted ==
    ASSUME LimiterInv, NEW route \in Routes, NEW a \in Addresses, Request(route, a),
           NEW r \in Routes, Refuses(r, a)
    PROVE  Recent(r, a)' /\ Counted(r, a)'
  <1>1. /\ LimiterTyped /\ Recent(r, a) /\ Counted(r, a)
        /\ clock' = clock
        /\ Limit[r] \in Nat \ {0}
        /\ admitted'[r] = admitted[r]
    BY RequestParts, LimitAssumption DEF LimiterInv, Refuses
  <1>2. Counting(r, a)
    BY <1>1, CheckNew DEF Refuses
  <1>3. /\ buckets'[r][a] = buckets[r][a] /\ ~(buckets[r][a].count < Limit[r])
        /\ buckets[r][a].count \in 1..Limit[r]
    BY <1>1, <1>2, CheckOld DEF Refuses
  <1>4. a \in DOMAIN buckets'[r]
    BY <1>1, CheckTyped DEF Refuses
  <1>5. buckets[r][a].count = Limit[r]
    BY <1>1, <1>3
  <1>6. Counting(r, a)'
    BY <1>1, <1>2, <1>3, <1>4 DEF Counting, Live
  <1>7. Since(r, a)' = Since(r, a) /\ Later(r, a)' = Later(r, a) /\ Earlier(r, a)' = Earlier(r, a)
    BY <1>1, <1>3 DEF Since, Later, Earlier
  <1>8. Recent(r, a)'
    BY <1>1 DEF Recent
  <1> QED
    BY <1>1, <1>2, <1>3, <1>5, <1>6, <1>7, <1>8 DEF Counted

LEMMA RequestStep ==
    ASSUME LimiterInv, NEW route \in Routes, NEW a \in Addresses, Request(route, a)
    PROVE  LimiterInv'
  <1>1. LimiterTyped'
    BY RequestTyped
  <1>2. ASSUME NEW r \in Routes, NEW b \in Addresses
        PROVE  Recent(r, b)' /\ Counted(r, b)'
    <2>1. CASE NotReached(r) \/ b # a
      BY <2>1, OthersKept
    <2>2. CASE b = a /\ Admits(r, a)
      BY <2>2, AdmittedCounted
    <2>3. CASE b = a /\ Refuses(r, a)
      BY <2>3, RefusedCounted
    <2> QED
      BY <2>1, <2>2, <2>3, RequestParts
  <1> QED
    BY <1>1, <1>2 DEF LimiterInv
-----------------------------------------------------------------------------
(* Time.                                                                   *)

LEMMA PassStep ==
    ASSUME LimiterInv, Pass
    PROVE  LimiterInv'
  <1>1. /\ clock \in Nat /\ clock' = clock + 1 /\ Window \in Nat \ {0}
        /\ buckets' = buckets /\ refused' = [r \in Routes |-> {}]
        /\ LimiterTyped
    BY WindowAssumption DEF Pass, LimiterInv, LimiterTyped
  <1>2. ASSUME NEW r \in Routes, NEW a \in Addresses
        PROVE  admitted'[r][a] = {q \in admitted[r][a] : clock + 1 - q.at < Window}
    <2>1. admitted'[r][a] = {q \in admitted[r][a] : clock' - q.at < Window}
      BY DEF Pass
    <2>2. \A q \in admitted[r][a] : q.at \in Nat
      BY <1>1 DEF LimiterTyped, Admissions
    <2> QED
      BY <1>1, <2>1, <2>2
  <1>3. LimiterTyped'
    <2>1. admitted' = [r \in Routes |-> [a \in Addresses |-> admitted'[r][a]]]
      BY DEF Pass
    <2>2. ASSUME NEW r \in Routes, NEW a \in Addresses
          PROVE  admitted'[r][a] \subseteq Admissions /\ IsFiniteSet(admitted'[r][a])
      <3>1. admitted'[r][a] \subseteq admitted[r][a]
        BY <1>2
      <3> QED
        BY <1>1, <3>1, PartOf DEF LimiterTyped
    <2>3. admitted' \in [Routes -> [Addresses -> SUBSET Admissions]]
      <3>1. ASSUME NEW r \in Routes
            PROVE  [a \in Addresses |-> admitted'[r][a]] \in [Addresses -> SUBSET Admissions]
        BY <2>2
      <3> QED
        BY <2>1, <3>1, Zenon
    <2>4. /\ refused' \in [Routes -> SUBSET Addresses]
          /\ clock' \in Nat
          /\ buckets' \in [Routes -> UNION {[S -> [count : Nat, start : Nat]] : S \in SUBSET Addresses}]
      BY <1>1 DEF LimiterTyped
    <2>5. \A r \in Routes : \A a \in DOMAIN buckets'[r] :
            buckets'[r][a] \in Buckets(r) /\ buckets'[r][a].start <= clock'
      BY <1>1 DEF LimiterTyped, Buckets
    <2> QED
      BY <2>2, <2>3, <2>4, <2>5 DEF LimiterTyped
  <1>4. ASSUME NEW r \in Routes, NEW a \in Addresses
        PROVE  Recent(r, a)' /\ Counted(r, a)'
    <2> DEFINE all == admitted[r][a]
               kept == {q \in all : clock + 1 - q.at < Window}
    <2>1. /\ IsFiniteSet(all) /\ all \subseteq Admissions
          /\ Recent(r, a) /\ Counted(r, a)
          /\ Limit[r] \in Nat \ {0}
      BY <1>1, LimitAssumption DEF LimiterInv, LimiterTyped
    <2>2. admitted'[r][a] = kept /\ a \notin refused'[r]
      BY <1>1, <1>2
    <2>3. \A q \in all : q.at \in Nat /\ q.at <= clock
      BY <2>1 DEF Recent, Admissions
    <2>4. Recent(r, a)'
      BY <1>1, <2>2, <2>3 DEF Recent
    <2>5. IsFiniteSet(kept) /\ Cardinality(kept) \in Nat /\ Cardinality(kept) <= Cardinality(all)
      BY <2>1, PartOf
    <2>6. \A q \in kept : q.at # clock'
      BY <1>1, <2>3
    <2>7. CASE ~Counting(r, a)
      <3>1. ~Counting(r, a)'
        BY <1>1, <2>7 DEF Counting, Live, LimiterTyped, Buckets
      <3>2. Cardinality(all) < Limit[r] /\ Cardinality(all) \in Nat
        BY <2>1, <2>7, FS_CardinalityType DEF Counted
      <3> HIDE DEF all, kept
      <3>3. Cardinality(kept) < Limit[r]
        BY <2>1, <2>5, <3>2
      <3> QED
        BY <2>2, <2>4, <2>6, <3>1, <3>3 DEF Counted
    <2>8. CASE Counting(r, a)
      <3> DEFINE bucket == buckets[r][a]
      <3>1. /\ a \in DOMAIN buckets[r] /\ bucket \in Buckets(r) /\ bucket.start <= clock
            /\ bucket.start \in Nat /\ bucket.count \in Nat /\ bucket.count <= Limit[r]
        BY <1>1, <2>1, <2>8 DEF Counting, LimiterTyped, Buckets
      <3>2. /\ Cardinality(Since(r, a)) = bucket.count
            /\ Cardinality(Later(r, a)) < bucket.count
            /\ Cardinality(Earlier(r, a)) < Limit[r]
        BY <2>1, <2>8 DEF Counted
      <3>3. CASE Counting(r, a)'
        <4>1. clock + 1 - bucket.start < Window
          <5>1. clock' - buckets'[r][a].start < Window
            BY <3>3 DEF Counting, Live
          <5> QED
            BY <1>1, <3>1, <5>1
        <4>2. /\ Since(r, a)' = Since(r, a)
              /\ Later(r, a)' = Later(r, a)
              /\ Earlier(r, a)' \subseteq Earlier(r, a)
          <5> HIDE DEF bucket, all
          <5>1. /\ {q \in kept : q.at >= bucket.start} = {q \in all : q.at >= bucket.start}
                /\ {q \in kept : q.at > bucket.start} = {q \in all : q.at > bucket.start}
                /\ {q \in kept : q.at < bucket.start} \subseteq {q \in all : q.at < bucket.start}
            BY <1>1, <2>3, <3>1, <4>1
          <5> QED
            BY <1>1, <2>2, <5>1 DEF Since, Later, Earlier, all, bucket
        <4>3. Cardinality(Earlier(r, a)') < Limit[r]
          <5>1. Cardinality(Earlier(r, a)) \in Nat /\ IsFiniteSet(Earlier(r, a))
            BY <2>1, PartOf DEF Earlier
          <5>2. Cardinality(Earlier(r, a)') <= Cardinality(Earlier(r, a)) /\ Cardinality(Earlier(r, a)') \in Nat
            BY <4>2, <5>1, PartOf
          <5> QED
            BY <2>1, <3>2, <5>1, <5>2
        <4> QED
          BY <1>1, <2>2, <2>4, <3>2, <3>3, <4>2, <4>3 DEF Counted
      <3>4. CASE ~Counting(r, a)'
        <4>1. ~(clock + 1 - bucket.start < Window)
          <5>1. a \in DOMAIN buckets'[r] => ~(clock' - buckets'[r][a].start < Window)
            BY <3>4 DEF Counting, Live
          <5> QED
            BY <1>1, <3>1, <5>1
        <4>2. kept \subseteq Later(r, a)
          BY <1>1, <2>3, <3>1, <4>1 DEF Later
        <4>3. IsFiniteSet(Later(r, a)) /\ Cardinality(Later(r, a)) \in Nat
          BY <2>1, PartOf DEF Later
        <4>4. Cardinality(kept) <= Cardinality(Later(r, a))
          BY <4>2, <4>3, PartOf
        <4> HIDE DEF kept, bucket
        <4>5. Cardinality(kept) < Limit[r]
          BY <2>1, <2>5, <3>1, <3>2, <4>3, <4>4
        <4> QED
          BY <2>2, <2>4, <2>6, <3>4, <4>5 DEF Counted
      <3> QED
        BY <3>3, <3>4
    <2> QED
      BY <2>7, <2>8
  <1> QED
    BY <1>3, <1>4 DEF LimiterInv
-----------------------------------------------------------------------------
LEMMA LimiterInvariant == LimiterSpec => []LimiterInv
  <1>1. LimiterInit => LimiterInv
    <2> SUFFICES ASSUME LimiterInit PROVE LimiterInv
      OBVIOUS
    <2>1. IsFiniteSet({}) /\ Cardinality({}) = 0
      BY FS_EmptySet
    <2>2. LimiterTyped
      <3>1. <<>> \in [{} -> [count : Nat, start : Nat]] /\ DOMAIN <<>> = {}
        OBVIOUS
      <3>2. buckets \in [Routes -> UNION {[S -> [count : Nat, start : Nat]] : S \in SUBSET Addresses}]
        BY <3>1 DEF LimiterInit
      <3>3. \A r \in Routes : DOMAIN buckets[r] = {}
        BY <3>1 DEF LimiterInit
      <3> QED
        BY <2>1, <3>2, <3>3 DEF LimiterInit, LimiterTyped
    <2>3. \A r \in Routes, a \in Addresses : admitted[r][a] = {} /\ refused[r] = {} /\ ~Counting(r, a)
      BY DEF LimiterInit, Counting
    <2>4. \A r \in Routes : Limit[r] > 0
      BY LimitAssumption
    <2> QED
      BY <2>1, <2>2, <2>3, <2>4 DEF LimiterInv, Recent, Counted
  <1>2. LimiterInv /\ [LimiterNext]_limiterVars => LimiterInv'
    <2> SUFFICES ASSUME LimiterInv, [LimiterNext]_limiterVars PROVE LimiterInv'
      OBVIOUS
    <2>1. CASE Pass
      BY <2>1, PassStep
    <2>2. ASSUME NEW route \in Routes, NEW a \in Addresses, Request(route, a)
          PROVE  LimiterInv'
      BY <2>2, RequestStep
    <2>3. CASE UNCHANGED limiterVars
      <3>1. clock' = clock /\ buckets' = buckets /\ admitted' = admitted /\ refused' = refused
        BY <2>3 DEF limiterVars
      <3>2. LimiterTyped'
        BY <3>1 DEF LimiterInv, LimiterTyped, Buckets
      <3>3. ASSUME NEW r \in Routes, NEW a \in Addresses
            PROVE  Recent(r, a)' /\ Counted(r, a)'
        <4>1. Counting(r, a)' = Counting(r, a)
          BY <3>1 DEF Counting, Live
        <4>2. Since(r, a)' = Since(r, a) /\ Later(r, a)' = Later(r, a) /\ Earlier(r, a)' = Earlier(r, a)
          BY <3>1 DEF Since, Later, Earlier
        <4> QED
          BY <3>1, <4>1, <4>2 DEF LimiterInv, Recent, Counted
      <3> QED
        BY <3>2, <3>3 DEF LimiterInv
    <2> QED
      BY <2>1, <2>2, <2>3 DEF LimiterNext
  <1> QED
    BY <1>1, <1>2, PTL DEF LimiterSpec

(* LimitIsKept holds for any addresses, routes and limits, any length of   *)
(* the window and any size at which a map is cleared (RateLimiter::check,  *)
(* enforce).                                                               *)
THEOREM LimitCorrect == LimiterSpec => []LimitIsKept
  <1>1. LimiterInv => LimitIsKept
    <2> SUFFICES ASSUME LimiterInv, NEW r \in Routes, NEW a \in Addresses
                 PROVE  /\ Cardinality(admitted[r][a]) < 2 * Limit[r]
                        /\ a \in refused[r] => Cardinality(admitted[r][a]) >= Limit[r]
      BY DEF LimitIsKept
    <2>1. /\ LimiterTyped /\ Counted(r, a) /\ Limit[r] \in Nat \ {0}
          /\ Cardinality(admitted[r][a]) \in Nat
      BY LimitAssumption, FS_CardinalityType DEF LimiterInv, LimiterTyped
    <2>2. CASE Counting(r, a)
      <3>1. /\ a \in DOMAIN buckets[r]
            /\ buckets[r][a].count \in Nat /\ buckets[r][a].count <= Limit[r]
        BY <2>1, <2>2 DEF Counting, LimiterTyped, Buckets
      <3>2. /\ Cardinality(Earlier(r, a)) \in Nat
            /\ Cardinality(admitted[r][a]) = Cardinality(Earlier(r, a)) + Cardinality(Since(r, a))
        BY <2>1, <3>1, Parted
      <3> QED
        BY <2>1, <2>2, <3>1, <3>2 DEF Counted
    <2>3. CASE ~Counting(r, a)
      BY <2>1, <2>3 DEF Counted
    <2> QED
      BY <2>2, <2>3
  <1> QED
    BY <1>1, LimiterInvariant, PTL

-----------------------------------------------------------------------------
(* PAGES                                                                   *)

(* The order of the rows.                                                  *)

AllRows == [id : RowIds, topic : Topics, at : Nat]

\* No two rows have one id.
Distinct(some) == \A r, s \in some : r.id = s.id => r = s

LEMMA NewerOrder ==
    /\ \A r \in AllRows : ~Newer(r, r)
    /\ \A r, s \in AllRows : ~(Newer(r, s) /\ Newer(s, r))
    /\ \A r, s, t \in AllRows : Newer(r, s) /\ Newer(s, t) => Newer(r, t)
    /\ \A r, s \in AllRows : r.id # s.id => Newer(r, s) \/ Newer(s, r)
  <1>1. \A r \in AllRows : r.id \in Nat /\ r.at \in Nat
    BY RowIdsAssumption DEF AllRows
  <1> QED
    BY <1>1 DEF Newer

Above(some, r) == {s \in some : Newer(s, r)}
Below(some, r) == {s \in some : Newer(r, s)}

\* What is above a newer row is above the older one, and it is less.
LEMMA AboveLess ==
    ASSUME NEW some \in SUBSET AllRows, IsFiniteSet(some), NEW r \in AllRows, NEW s \in some,
           Newer(s, r)
    PROVE  Cardinality(Above(some, s)) < Cardinality(Above(some, r))
  <1>1. Above(some, s) \subseteq Above(some, r) /\ s \in Above(some, r) /\ s \notin Above(some, s)
    BY NewerOrder DEF Above
  <1>2. IsFiniteSet(Above(some, r)) /\ Cardinality(Above(some, r)) \in Nat
    BY PartOf DEF Above
  <1>3. /\ Cardinality(Above(some, s)) <= Cardinality(Above(some, r))
        /\ Cardinality(Above(some, s)) # Cardinality(Above(some, r))
        /\ Cardinality(Above(some, s)) \in Nat
    BY <1>1, <1>2, FS_Subset, PartOf
  <1> QED
    BY <1>2, <1>3

LEMMA BelowLess ==
    ASSUME NEW some \in SUBSET AllRows, IsFiniteSet(some), NEW r \in AllRows, NEW s \in some,
           Newer(r, s)
    PROVE  Cardinality(Below(some, s)) < Cardinality(Below(some, r))
  <1>1. Below(some, s) \subseteq Below(some, r) /\ s \in Below(some, r) /\ s \notin Below(some, s)
    BY NewerOrder DEF Below
  <1>2. IsFiniteSet(Below(some, r)) /\ Cardinality(Below(some, r)) \in Nat
    BY PartOf DEF Below
  <1>3. /\ Cardinality(Below(some, s)) <= Cardinality(Below(some, r))
        /\ Cardinality(Below(some, s)) # Cardinality(Below(some, r))
        /\ Cardinality(Below(some, s)) \in Nat
    BY <1>1, <1>2, FS_Subset, PartOf
  <1> QED
    BY <1>2, <1>3

LEMMA NewestOf ==
    ASSUME NEW some \in SUBSET AllRows, IsFiniteSet(some), some # {}
    PROVE  \E r \in some : Above(some, r) = {}
  <1> DEFINE counts == {Cardinality(Above(some, r)) : r \in some}
  <1>1. counts \in SUBSET Nat /\ counts # {}
    BY PartOf DEF Above
  <1>2. PICK m \in counts : \A n \in counts : m <= n
    <2> HIDE DEF counts
    <2> QED
      BY <1>1, LeastOf
  <1>3. PICK r \in some : m = Cardinality(Above(some, r))
    OBVIOUS
  <1>4. ASSUME NEW s \in some, Newer(s, r) PROVE FALSE
    <2>1. Cardinality(Above(some, s)) < Cardinality(Above(some, r))
      BY <1>4, AboveLess
    <2>2. Cardinality(Above(some, r)) <= Cardinality(Above(some, s))
      BY <1>2, <1>3
    <2> QED
      BY <2>1, <2>2, <1>1
  <1> QED
    BY <1>4 DEF Above

LEMMA OldestOf ==
    ASSUME NEW some \in SUBSET AllRows, IsFiniteSet(some), some # {}, Distinct(some)
    PROVE  Oldest(some) \in some /\ \A s \in some \ {Oldest(some)} : Newer(s, Oldest(some))
  <1> DEFINE counts == {Cardinality(Below(some, r)) : r \in some}
  <1>1. counts \in SUBSET Nat /\ counts # {}
    BY PartOf DEF Below
  <1>2. PICK m \in counts : \A n \in counts : m <= n
    <2> HIDE DEF counts
    <2> QED
      BY <1>1, LeastOf
  <1>3. PICK r \in some : m = Cardinality(Below(some, r))
    OBVIOUS
  <1>4. ASSUME NEW s \in some, Newer(r, s) PROVE FALSE
    <2>1. Cardinality(Below(some, s)) < Cardinality(Below(some, r))
      BY <1>4, BelowLess
    <2>2. Cardinality(Below(some, r)) <= Cardinality(Below(some, s))
      BY <1>2, <1>3
    <2> QED
      BY <2>1, <2>2, <1>1
  <1>5. \A s \in some \ {r} : Newer(s, r)
    BY <1>4, NewerOrder DEF Distinct
  <1> QED
    BY <1>5 DEF Oldest

\* Newest takes from the top.
LEMMA NewestFirst ==
    ASSUME NEW some \in SUBSET AllRows, IsFiniteSet(some), Distinct(some), NEW n \in Nat,
           NEW p \in Newest(some, n), NEW r \in some \ Newest(some, n)
    PROVE  Newer(p, r)
  <1>1. p \in some /\ p # r /\ Cardinality(Above(some, p)) < n /\ ~(Cardinality(Above(some, r)) < n)
    BY DEF Newest, Above
  <1>2. Cardinality(Above(some, p)) \in Nat /\ Cardinality(Above(some, r)) \in Nat
    BY PartOf DEF Above
  <1>3. ~Newer(r, p)
    <2>1. Newer(r, p) => Cardinality(Above(some, r)) < Cardinality(Above(some, p))
      BY <1>1, AboveLess
    <2> QED
      BY <1>1, <1>2, <2>1
  <1> QED
    BY <1>1, <1>3, NewerOrder DEF Distinct

\* It takes one at least.
LEMMA NewestSome ==
    ASSUME NEW some \in SUBSET AllRows, IsFiniteSet(some), some # {}, NEW n \in Nat \ {0}
    PROVE  Newest(some, n) # {}
  <1>1. PICK r \in some : Above(some, r) = {}
    BY NewestOf
  <1>2. Cardinality({s \in some : Newer(s, r)}) = 0
    BY <1>1, FS_EmptySet DEF Above
  <1> QED
    BY <1>2 DEF Newest

\* It takes all when what it takes is less than it may.
LEMMA NewestAll ==
    ASSUME NEW some \in SUBSET AllRows, IsFiniteSet(some), Distinct(some), NEW n \in Nat,
           Cardinality(Newest(some, n + 1)) <= n
    PROVE  Newest(some, n + 1) = some
  <1> DEFINE found == Newest(some, n + 1)
             rest == some \ found
  <1>1. found \subseteq some
    BY DEF Newest
  <1>2. IsFiniteSet(found) /\ Cardinality(found) \in Nat /\ IsFiniteSet(rest) /\ rest \in SUBSET AllRows
    BY <1>1, PartOf
  <1>3. ASSUME rest # {} PROVE FALSE
    <2>1. PICK r \in rest : Above(rest, r) = {}
      <3> HIDE DEF rest
      <3> QED
        BY <1>2, <1>3, NewestOf
    <2>2. \A p \in found : Newer(p, r)
      BY <2>1, NewestFirst
    <2>3. Above(some, r) = found
      BY <1>1, <2>1, <2>2 DEF Above
    <2>4. ~(Cardinality(Above(some, r)) < n + 1)
      BY <2>1 DEF Newest, Above
    <2> QED
      BY <1>2, <2>3, <2>4
  <1> QED
    BY <1>1, <1>3

\* A page is the rows found when they are no more than it may have.
LEMMA PageOfAll ==
    ASSUME NEW some \in SUBSET AllRows, IsFiniteSet(some), NEW n \in Nat, Cardinality(some) <= n
    PROVE  Newest(some, n) = some
  <1>1. ASSUME NEW r \in some PROVE Cardinality(Above(some, r)) < n
    <2>1. Above(some, r) \subseteq some /\ Above(some, r) # some
      BY NewerOrder DEF Above
    <2>2. /\ Cardinality(some) \in Nat /\ Cardinality(Above(some, r)) \in Nat
          /\ Cardinality(Above(some, r)) <= Cardinality(some)
          /\ Cardinality(Above(some, r)) # Cardinality(some)
      BY <2>1, PartOf, FS_Subset
    <2> QED
      BY <2>2
  <1> QED
    BY <1>1 DEF Newest, Above

-----------------------------------------------------------------------------
(* The invariant.                                                          *)

Known == rows \cup stamped \cup shown

PagesTyped ==
    /\ list \in {"comments", "favorites"}
    /\ time \in Nat
    /\ rows \in SUBSET AllRows /\ stamped \in SUBSET AllRows /\ shown \in SUBSET AllRows
    /\ IsFiniteSet(rows) /\ IsFiniteSet(shown)
    /\ whole \subseteq rows
    /\ reader \in [stage : {"first", "next", "query", "done"}, cursor : RowIds \cup {NoRow},
                   position : SUBSET shown]

\* c is the last row shown, and of what must be shown the rest comes after it.
LastShown(c) ==
    /\ c \in shown
    /\ \A r \in shown \ {c} : Newer(r, c)
    /\ \A r \in whole \ shown : Newer(c, r)

Reading ==
    /\ reader.stage = "first" => shown = {} /\ whole = {} /\ reader.position = {}
    /\ reader.stage \in {"next", "query"} =>
        \E c \in shown :
            /\ reader.cursor = c.id /\ LastShown(c)
            /\ reader.stage = "query" => reader.position = {c}
    /\ reader.stage = "done" => whole \subseteq shown

PagesInv ==
    /\ PagesTyped
    /\ Distinct(Known)
    /\ returned = Cardinality(shown)
    /\ Reading

\* One page: what is before the cursor, and the rows of the page.
LEMMA QueriedRows ==
    ASSUME PagesInv, reader.stage \in {"first", "query"}
    PROVE  LET base == Before(rows, reader.position) IN
           /\ base \in SUBSET rows /\ IsFiniteSet(base) /\ Distinct(base) /\ base \in SUBSET AllRows
           /\ base \cap shown = {}
           /\ \A r \in shown, s \in base : Newer(r, s)
           /\ (IF reader.stage = "first" THEN rows ELSE whole) \ shown \subseteq base
  <1> DEFINE base == Before(rows, reader.position)
  <1>1. rows \in SUBSET AllRows /\ IsFiniteSet(rows) /\ Distinct(Known) /\ shown \in SUBSET AllRows
    BY DEF PagesInv, PagesTyped
  <1>2. base \in SUBSET rows
    BY DEF Before
  <1>3. IsFiniteSet(base) /\ Distinct(base) /\ base \in SUBSET AllRows
    BY <1>1, <1>2, PartOf DEF Distinct, Known
  <1>4. CASE reader.stage = "first"
    <2>1. base = rows /\ shown = {}
      BY <1>4 DEF PagesInv, Reading, Before
    <2> QED
      BY <1>2, <1>3, <1>4, <2>1
  <1>5. CASE reader.stage = "query"
    <2>1. PICK c \in shown : LastShown(c) /\ reader.position = {c}
      BY <1>5 DEF PagesInv, Reading
    <2>2. \A r \in rows : r \in base <=> Newer(c, r)
      BY <2>1 DEF Before
    <2>3. \A r \in shown, s \in base : Newer(r, s)
      <3>1. \A r \in shown : r = c \/ Newer(r, c)
        BY <2>1 DEF LastShown
      <3>2. \A s \in base : Newer(c, s) /\ s \in AllRows
        BY <1>2, <1>3, <2>2
      <3> HIDE DEF base
      <3> QED
        BY <1>1, <3>1, <3>2, NewerOrder
    <2>4. base \cap shown = {}
      BY <1>1, <1>3, <2>3, NewerOrder
    <2>5. whole \ shown \subseteq base
      BY <2>1, <2>2 DEF LastShown, PagesInv, PagesTyped
    <2> QED
      BY <1>2, <1>3, <1>5, <2>3, <2>4, <2>5
  <1> QED
    BY <1>4, <1>5

LEMMA QueryPageStep ==
    ASSUME PagesInv, NEW n \in PageSizes, QueryPage(n)
    PROVE  PagesInv'
  <1> DEFINE base == Before(rows, reader.position)
             found == Newest(base, n + 1)
             page == Newest(found, n)
             hasMore == Cardinality(found) > n
  <1>0. n \in Nat \ {0} /\ n \in Nat /\ n + 1 \in Nat
    BY PageSizesAssumption
  <1>1. /\ reader.stage \in {"first", "query"}
        /\ shown' = shown \cup page
        /\ returned' = returned + Cardinality(page)
        /\ whole' = IF reader.stage = "first" THEN rows ELSE whole
        /\ reader' = [stage |-> IF hasMore THEN "next" ELSE "done", position |-> {},
                      cursor |-> IF hasMore THEN Oldest(page).id ELSE NoRow]
        /\ UNCHANGED <<list, time, rows, stamped>>
    BY DEF QueryPage
  <1>2. /\ base \in SUBSET rows /\ IsFiniteSet(base) /\ Distinct(base) /\ base \in SUBSET AllRows
        /\ base \cap shown = {}
        /\ \A r \in shown, s \in base : Newer(r, s)
        /\ whole' \ shown \subseteq base
    BY <1>1, QueriedRows
  <1>3. found \subseteq base /\ page \subseteq found
    BY DEF Newest
  <1>4. /\ IsFiniteSet(found) /\ Distinct(found) /\ found \in SUBSET AllRows
        /\ IsFiniteSet(page) /\ Distinct(page) /\ page \in SUBSET AllRows
        /\ Cardinality(found) \in Nat /\ Cardinality(page) \in Nat
    <2> HIDE DEF base, found, page
    <2> QED
      BY <1>2, <1>3, PartOf DEF Distinct
  <1>5. \A p \in page, r \in base \ page : Newer(p, r)
    <2> HIDE DEF base
    <2>1. \A p \in found, r \in base \ found : Newer(p, r)
      BY <1>0, <1>2, NewestFirst
    <2> HIDE DEF found
    <2>2. \A p \in page, r \in found \ page : Newer(p, r)
      BY <1>0, <1>4, NewestFirst
    <2> QED
      BY <1>3, <2>1, <2>2
  <1>6. PagesTyped' /\ Distinct(Known)' /\ returned' = Cardinality(shown')
    <2> HIDE DEF base, found, page, hasMore
    <2>1. /\ rows \in SUBSET AllRows /\ IsFiniteSet(rows) /\ stamped \in SUBSET AllRows
          /\ shown \in SUBSET AllRows /\ IsFiniteSet(shown) /\ returned = Cardinality(shown)
          /\ whole \subseteq rows /\ Distinct(Known)
      BY DEF PagesInv, PagesTyped
    <2>2. IsFiniteSet(shown')
      BY <1>1, <1>4, <2>1, FS_Union
    <2>3. returned' = Cardinality(shown')
      <3>1. shown \cap page = {}
        BY <1>2, <1>3
      <3> QED
        BY <1>1, <2>1, <2>2, <3>1, TwoParts
    <2>4. Distinct(Known)'
      <3>1. Known' \subseteq Known
        BY <1>1, <1>2, <1>3 DEF Known
      <3> QED
        BY <2>1, <3>1 DEF Distinct
    <2>5. hasMore => Oldest(page).id \in RowIds
      <3>1. hasMore => page # {}
        <4>1. hasMore => found # {}
          BY <1>0, FS_EmptySet DEF hasMore
        <4> QED
          BY <1>0, <1>4, <4>1, NewestSome DEF page
      <3>2. hasMore => Oldest(page) \in page
        BY <1>4, <3>1, OldestOf
      <3> QED
        BY <1>4, <3>2 DEF AllRows
    <2>6. reader' \in [stage : {"first", "next", "query", "done"}, cursor : RowIds \cup {NoRow},
                       position : SUBSET shown']
      BY <1>1, <2>5
    <2>7. whole' \subseteq rows'
      BY <1>1, <2>1
    <2>8. list' = list /\ time' = time /\ stamped' = stamped /\ rows' = rows
      BY <1>1
    <2>9. shown' \in SUBSET AllRows
      BY <1>1, <1>4, <2>1
    <2>10. list \in {"comments", "favorites"} /\ time \in Nat
      BY DEF PagesInv, PagesTyped
    <2> QED
      BY <2>1, <2>2, <2>3, <2>4, <2>6, <2>7, <2>8, <2>9, <2>10 DEF PagesTyped
  <1>7. CASE hasMore
    <2>1. page # {}
      <3> HIDE DEF found
      <3>1. found # {}
        BY <1>0, <1>7, FS_EmptySet
      <3> QED
        BY <1>0, <1>4, <3>1, NewestSome
    <2>2. PICK c \in page : c = Oldest(page) /\ \A s \in page \ {c} : Newer(s, c)
      <3> HIDE DEF page
      <3> QED
        BY <1>4, <2>1, OldestOf
    <2> HIDE DEF base, found, page
    <2>3. \A r \in shown' \ {c} : Newer(r, c)
      BY <1>1, <1>2, <1>3, <2>2
    <2>4. \A r \in whole' \ shown' : Newer(c, r)
      BY <1>1, <1>2, <1>5, <2>2
    <2>5. LastShown(c)'
      BY <1>1, <2>2, <2>3, <2>4 DEF LastShown
    <2>6. reader'.stage = "next" /\ reader'.cursor = c.id
      BY <1>1, <1>7, <2>2
    <2>7. c \in shown'
      BY <1>1, <2>2
    <2>8. Reading'
      BY <2>5, <2>6, <2>7 DEF Reading
    <2> QED
      BY <1>6, <2>8 DEF PagesInv
  <1>8. CASE ~hasMore
    <2>1. found = base
      <3> HIDE DEF base
      <3>1. Cardinality(Newest(base, n + 1)) <= n
        BY <1>0, <1>4, <1>8
      <3> QED
        BY <1>0, <1>2, <3>1, NewestAll
    <2>2. page = found
      <3> HIDE DEF found
      <3>1. Cardinality(found) <= n
        BY <1>0, <1>4, <1>8
      <3> QED
        BY <1>0, <1>4, <3>1, PageOfAll
    <2> HIDE DEF base, found, page
    <2>3. whole' \subseteq shown'
      BY <1>1, <1>2, <2>1, <2>2
    <2>4. reader'.stage = "done"
      BY <1>1, <1>8
    <2>5. Reading'
      BY <2>3, <2>4 DEF Reading
    <2> QED
      BY <1>6, <2>5 DEF PagesInv
  <1> QED
    BY <1>7, <1>8

LEMMA FindCursorStep ==
    ASSUME PagesInv, FindCursor
    PROVE  PagesInv'
  <1>1. PICK c \in shown : reader.cursor = c.id /\ LastShown(c)
    BY DEF FindCursor, PagesInv, Reading
  <1>2. ASSUME NEW r \in rows, r.id = reader.cursor,
               reader' = [reader EXCEPT !.stage = "query", !.position = {r}], UNCHANGED seen,
               UNCHANGED <<list, time, rows, stamped>>
        PROVE  PagesInv'
    <2>1. r = c
      BY <1>1, <1>2 DEF PagesInv, Distinct, Known
    <2>2. /\ reader'.stage = "query" /\ reader'.cursor = c.id /\ reader'.position = {c}
          /\ reader' \in [stage : {"first", "next", "query", "done"}, cursor : RowIds \cup {NoRow},
                          position : SUBSET shown]
      BY <1>1, <1>2, <2>1 DEF PagesInv, PagesTyped
    <2>3. LastShown(c)'
      BY <1>1, <1>2 DEF LastShown, seen
    <2>4. Reading'
      BY <1>1, <1>2, <2>2, <2>3 DEF Reading, seen
    <2>5. PagesTyped' /\ Distinct(Known)'
      BY <1>2, <2>2 DEF PagesInv, PagesTyped, Distinct, Known, seen
    <2> QED
      BY <1>2, <2>4, <2>5 DEF PagesInv, seen
  <1>3. ASSUME reader' = Resting, shown' = {} /\ returned' = 0 /\ whole' = {},
               UNCHANGED <<list, time, rows, stamped>>
        PROVE  PagesInv'
    <2>1. Resting \in [stage : {"first", "next", "query", "done"}, cursor : RowIds \cup {NoRow},
                       position : SUBSET shown']
      BY DEF Resting
    <2>2. PagesTyped' /\ Distinct(Known)'
      BY <1>3, <2>1, FS_EmptySet DEF PagesInv, PagesTyped, Distinct, Known
    <2>3. Reading'
      BY <1>3 DEF Reading, Resting
    <2> QED
      BY <1>3, <2>2, <2>3, FS_EmptySet DEF PagesInv
  <1> QED
    BY <1>2, <1>3 DEF FindCursor

\* Writers do not come between the reader and what it must be shown.
LEMMA WritersStep ==
    ASSUME PagesInv, UNCHANGED <<reader, shown, returned>>, whole' \subseteq whole,
           PagesTyped', Distinct(Known)'
    PROVE  PagesInv'
  <1>1. \A c \in shown : LastShown(c) => LastShown(c)'
    BY DEF LastShown
  <1>2. Reading'
    BY <1>1 DEF PagesInv, Reading
  <1> QED
    BY <1>2 DEF PagesInv

LEMMA PagesInductive ==
    ASSUME PagesInv, [PagesNext]_pageVars
    PROVE  PagesInv'
  <1> USE DEF PagesInv
  <1>1. CASE Tick
    <2>1. PagesTyped' /\ Distinct(Known)'
      BY <1>1 DEF Tick, seen, PagesTyped, Distinct, Known
    <2> QED
      BY <1>1, <2>1, WritersStep DEF Tick, seen
  <1>2. ASSUME NEW id \in RowIds, NEW topic \in Topics, Stamp(id, topic)
        PROVE  PagesInv'
    <2> DEFINE new == [id |-> id, topic |-> topic, at |-> time]
    <2>1. new \in AllRows /\ new.id = id /\ \A r \in Known : r.id # id
      BY <1>2 DEF Stamp, PagesTyped, AllRows, Known
    <2>2. stamped' = stamped \cup {new} /\ UNCHANGED <<list, time, rows, reader, seen>>
      BY <1>2 DEF Stamp
    <2> HIDE DEF new
    <2>3. PagesTyped'
      BY <2>1, <2>2 DEF PagesTyped, seen
    <2>4. Known' = Known \cup {new}
      BY <2>2 DEF Known, seen
    <2>5. Distinct(Known)'
      BY <2>1, <2>4 DEF Distinct
    <2> QED
      BY <2>2, <2>3, <2>5, WritersStep DEF seen
  <1>3. ASSUME NEW r \in stamped, InsertRow(r)
        PROVE  PagesInv'
    <2>1. /\ stamped' = stamped \ {r} /\ rows' \in {rows, rows \cup {r}}
          /\ UNCHANGED <<list, time, reader, seen>>
      BY <1>3 DEF InsertRow
    <2>2. IsFiniteSet(rows')
      BY <2>1, FS_AddElement DEF PagesTyped
    <2>3. PagesTyped'
      BY <2>1, <2>2 DEF PagesTyped, seen
    <2>4. Known' \subseteq Known
      BY <2>1 DEF Known, seen
    <2>5. Distinct(Known)'
      BY <2>4 DEF Distinct
    <2> QED
      BY <2>1, <2>3, <2>5, WritersStep DEF seen
  <1>4. ASSUME NEW topic \in Topics, RemoveFavorite(topic)
        PROVE  PagesInv'
    <2>1. /\ rows' \subseteq rows /\ whole' = whole \cap rows'
          /\ UNCHANGED <<list, time, stamped, reader, shown, returned>>
      BY <1>4 DEF RemoveFavorite
    <2>2. IsFiniteSet(rows')
      BY <2>1, PartOf DEF PagesTyped
    <2>3. PagesTyped'
      BY <2>1, <2>2 DEF PagesTyped
    <2>4. Known' \subseteq Known
      BY <2>1 DEF Known
    <2>5. Distinct(Known)'
      BY <2>4 DEF Distinct
    <2> QED
      BY <2>1, <2>3, <2>5, WritersStep
  <1>5. CASE RetryPage
    <2>1. /\ reader'.stage = "next" /\ reader'.cursor = reader.cursor
          /\ reader' \in [stage : {"first", "next", "query", "done"}, cursor : RowIds \cup {NoRow},
                          position : SUBSET shown]
          /\ UNCHANGED <<list, time, rows, stamped, seen>>
      BY <1>5 DEF RetryPage, PagesTyped
    <2>2. PagesTyped' /\ Distinct(Known)'
      BY <2>1 DEF PagesTyped, Distinct, Known, seen
    <2>3. PICK c \in shown : reader.cursor = c.id /\ LastShown(c)
      BY <1>5 DEF RetryPage, Reading
    <2>4. LastShown(c)'
      BY <2>1, <2>3 DEF LastShown, seen
    <2>5. Reading'
      BY <2>1, <2>3, <2>4 DEF Reading, seen
    <2> QED
      BY <2>1, <2>2, <2>5 DEF seen
  <1>6. CASE UNCHANGED pageVars
    <2>1. PagesTyped' /\ Distinct(Known)'
      BY <1>6 DEF pageVars, seen, PagesTyped, Distinct, Known
    <2> QED
      BY <1>6, <2>1, WritersStep DEF pageVars, seen
  <1> QED
    BY <1>1, <1>2, <1>3, <1>4, <1>5, <1>6, FindCursorStep, QueryPageStep DEF PagesNext

LEMMA PagesInitially == PagesInit => PagesInv
  BY FS_EmptySet DEF PagesInit, Resting, PagesInv, PagesTyped, Reading, Distinct, Known

(* For any rows, markets and limits: no page shows a row again, and the    *)
(* list comes past no row that was there from its first page on without    *)
(* showing it (list, of comments and of favorites).                        *)
THEOREM PagesCorrect == PagesSpec => []PagesAreExact
  <1>1. PagesInv => PagesAreExact
    <2> SUFFICES ASSUME PagesInv, NEW r \in whole \ shown
                 PROVE  /\ reader.stage # "done"
                        /\ \A c \in shown : reader.cursor = c.id => Newer(c, r)
      BY DEF PagesInv, PagesAreExact
    <2>1. reader.stage \notin {"done", "first"} /\ reader.stage \in {"first", "next", "query", "done"}
      BY DEF PagesInv, PagesTyped, Reading
    <2>2. PICK c \in shown : reader.cursor = c.id /\ LastShown(c)
      BY <2>1 DEF PagesInv, Reading
    <2>3. \A d \in shown : reader.cursor = d.id => d = c
      BY <2>2 DEF PagesInv, Distinct, Known
    <2> QED
      BY <2>1, <2>2, <2>3 DEF LastShown
  <1> QED
    BY <1>1, PagesInitially, PagesInductive, PTL DEF PagesSpec

-----------------------------------------------------------------------------
(* FEEDS                                                                   *)

Streams == [open : BOOLEAN, next : Nat, lagged : BOOLEAN,
            response : Seq(Alerts \cup {"heartbeat"}), listed : BOOLEAN, known : SUBSET Alerts]

Edits == [op : {"none", "mark", "clear"}, rows : SUBSET Own, left : SUBSET Own]

FeedTyped ==
    /\ entry \in [Alerts -> {"none", "unread", "read", "gone"}]
    /\ unsent \in SUBSET Alerts
    /\ sent \in Seq(Alerts)
    /\ stream \in [Clients -> Streams]
    /\ edit \in [Editors -> Edits]
    /\ cleared \in SUBSET Alerts /\ marked \in SUBSET Alerts

\* What an editor is about it has listed, and what it has left is gone or read.
Listed(e) ==
    LET those == edit[e].rows IN
    /\ edit[e].left \subseteq those
    /\ edit[e].op = "none" => those = {}
    /\ edit[e].op = "mark" => those \subseteq marked
    /\ edit[e].op = "clear" => those \subseteq cleared
    /\ \A r \in those : entry[r] # "none"
    /\ \A r \in those \ edit[e].left :
        entry[r] \in IF edit[e].op = "clear" THEN {"gone"} ELSE {"read", "gone"}

Owed == \A r \in Alerts :
    /\ entry[r] = "gone" => r \in cleared
    /\ entry[r] = "read" => r \in marked

\* What is about to be published, or is, has been inserted.
Inserted == \A r \in unsent \cup Range(sent) : entry[r] # "none"

Coming(s) == {sent[i] : i \in stream[s].next..Len(sent)}

\* A stream is somewhere in what was published, and loses nothing of it.
Follows(s) ==
    /\ stream[s].listed => stream[s].open
    /\ stream[s].open => stream[s].next \in 1..(Len(sent) + 1)
    /\ stream[s].listed /\ ~stream[s].lagged =>
        \A r \in Range(sent) \cap Present :
            \/ r \in stream[s].known \cup Range(stream[s].response) \cup Coming(s)
            \/ feed = "alerts" /\ Outlisted(s, r)

FeedInv ==
    /\ FeedTyped /\ Owed /\ Inserted
    /\ \A e \in Editors : Listed(e)
    /\ \A s \in Clients : Follows(s)

-----------------------------------------------------------------------------
(* Sequences.                                                              *)

LEMMA RangeOfAppend ==
    ASSUME NEW S, NEW q \in Seq(S), NEW x \in S
    PROVE  /\ Append(q, x) \in Seq(S)
           /\ Len(Append(q, x)) = Len(q) + 1
           /\ \A i \in 1..Len(q) : Append(q, x)[i] = q[i]
           /\ Append(q, x)[Len(q) + 1] = x
           /\ Range(Append(q, x)) = Range(q) \cup {x}
  <1>1. /\ Append(q, x) \in Seq(S)
        /\ Len(Append(q, x)) = Len(q) + 1
        /\ \A i \in 1..Len(q) : Append(q, x)[i] = q[i]
        /\ Append(q, x)[Len(q) + 1] = x
        /\ DOMAIN q = 1..Len(q) /\ DOMAIN Append(q, x) = 1..(Len(q) + 1)
        /\ Len(q) \in Nat
    OBVIOUS
  <1>2. Range(Append(q, x)) = {Append(q, x)[i] : i \in 1..(Len(q) + 1)}
        /\ Range(q) = {q[i] : i \in 1..Len(q)}
    BY <1>1 DEF Range
  <1>3. Range(Append(q, x)) \subseteq Range(q) \cup {x}
    BY <1>1, <1>2
  <1>4. Range(q) \subseteq Range(Append(q, x)) /\ x \in Range(Append(q, x))
    <2>1. Len(q) + 1 \in 1..(Len(q) + 1) /\ \A i \in 1..Len(q) : i \in 1..(Len(q) + 1)
      BY <1>1
    <2> QED
      BY <1>1, <1>2, <2>1
  <1> QED
    BY <1>1, <1>3, <1>4

LEMMA RangeOfTail ==
    ASSUME NEW S, NEW q \in Seq(S), q # <<>>
    PROVE  /\ Head(q) \in S /\ Tail(q) \in Seq(S)
           /\ Range(q) \subseteq {Head(q)} \cup Range(Tail(q))
  <1>1. /\ Head(q) \in S /\ Tail(q) \in Seq(S) /\ Head(q) = q[1]
        /\ Len(Tail(q)) = Len(q) - 1 /\ Len(q) \in Nat
        /\ \A i \in 1..Len(Tail(q)) : Tail(q)[i] = q[i + 1]
        /\ DOMAIN q = 1..Len(q) /\ DOMAIN Tail(q) = 1..Len(Tail(q))
    OBVIOUS
  <1>2. ASSUME NEW i \in 1..Len(q)
        PROVE  q[i] \in {Head(q)} \cup Range(Tail(q))
    <2>1. CASE i = 1
      BY <1>1, <2>1
    <2>2. CASE i # 1
      <3>1. i - 1 \in 1..Len(Tail(q)) /\ Tail(q)[i - 1] = q[i]
        BY <1>1, <2>2
      <3> QED
        BY <1>1, <3>1 DEF Range
    <2> QED
      BY <2>1, <2>2
  <1> QED
    BY <1>1, <1>2 DEF Range
-----------------------------------------------------------------------------
(* Types.                                                                  *)

LEMMA ClosedTyped == Closed \in Streams
  <1>1. <<>> \in Seq(Alerts \cup {"heartbeat"})
    OBVIOUS
  <1> QED
    BY <1>1 DEF Closed, Streams

LEMMA InactiveTyped == Inactive \in Edits
  BY DEF Inactive, Edits

LEMMA BeginTyped ==
    ASSUME FeedTyped, NEW e \in Editors, NEW op \in {"mark", "clear"}, NEW those \in SUBSET Own,
           Begin(e, op, those)
    PROVE  edit' \in [Editors -> Edits]
  <1>1. [op |-> op, rows |-> those, left |-> those] \in Edits
    BY DEF Edits
  <1> QED
    BY <1>1 DEF Begin, FeedTyped

(* What becomes of a stream.                                               *)
Becomes(s, record) == record \in Streams /\ stream' = [stream EXCEPT ![s] = record]

Opened == [Closed EXCEPT !.open = TRUE, !.next = Len(sent) + 1]

LEMMA AfterOpen ==
    ASSUME FeedTyped, NEW s \in Clients, OpenStream(s)
    PROVE  /\ Becomes(s, Opened)
           /\ Opened.next = Len(sent) + 1 /\ ~Opened.listed
  <1>1. Len(sent) \in Nat
    BY DEF FeedTyped
  <1>2. ~Closed.listed
    BY DEF Closed
  <1>3. Opened.next = Len(sent) + 1 /\ (Opened.listed <=> Closed.listed)
    BY ClosedTyped DEF Opened, Streams
  <1>4. ASSUME NEW c \in Streams, NEW n \in Nat
        PROVE  [c EXCEPT !.open = TRUE, !.next = n] \in Streams
    BY DEF Streams
  <1>5. Opened \in Streams
    <2>1. Len(sent) + 1 \in Nat
      BY <1>1
    <2> QED
      BY <1>4, <2>1, ClosedTyped, Zenon DEF Opened
  <1> QED
    BY <1>2, <1>3, <1>5 DEF OpenStream, Becomes, Opened

\* A list is of rows that are there, and passes over those only that are no
\* newer than as many as it can have.
LEMMA ListingIs ==
    ASSUME NEW L \in Listings
    PROVE  /\ L \subseteq Present
           /\ \A r \in Present \ L :
                /\ feed = "alerts" /\ Cardinality(L) = ListLimit
                /\ \A q \in L : created[q] >= created[r]
  <1>1. CASE feed = "alerts" /\ Cardinality(Present) > ListLimit
    BY <1>1 DEF Listings
  <1>2. CASE ~(feed = "alerts" /\ Cardinality(Present) > ListLimit)
    <2>1. L = Present
      BY <1>2 DEF Listings
    <2> QED
      BY <2>1
  <1> QED
    BY <1>1, <1>2

LEMMA AfterList ==
    ASSUME FeedTyped, NEW s \in Clients, ListEntries(s)
    PROVE  \E L \in Listings : Becomes(s, [stream[s] EXCEPT !.listed = TRUE, !.known = @ \cup L])
  <1>1. PICK L \in Listings :
           stream' = [stream EXCEPT ![s] = [stream[s] EXCEPT !.listed = TRUE, !.known = @ \cup L]]
    BY DEF ListEntries
  <1>2. stream[s] \in Streams /\ L \subseteq Alerts
    BY OwnAssumption, ListingIs DEF FeedTyped, Present
  <1>3. [stream[s] EXCEPT !.listed = TRUE, !.known = @ \cup L] \in Streams
    BY <1>2 DEF Streams
  <1> QED
    BY <1>1, <1>3 DEF Becomes

LEMMA AfterTake ==
    ASSUME FeedTyped, NEW s \in Clients, TakeEvent(s)
    PROVE  LET r == sent[stream[s].next] IN
           /\ stream[s].next \in 1..Len(sent) /\ r \in Alerts
           /\ Becomes(s, [stream[s] EXCEPT !.next = @ + 1,
                                         !.response = IF r \in Own THEN Append(@, r) ELSE @])
  <1> DEFINE r == sent[stream[s].next]
             events == stream[s].response
  <1>1. stream[s] \in Streams /\ Len(sent) \in Nat /\ OldestKept \in Nat /\ OldestKept >= 1
    BY RoomAssumption DEF FeedTyped, OldestKept
  <1>2. stream[s].next \in 1..Len(sent)
    BY <1>1 DEF TakeEvent
  <1>3. r \in Alerts
    BY <1>2 DEF FeedTyped
  <1>4. events \in Seq(Alerts \cup {"heartbeat"}) /\ stream[s].next + 1 \in Nat
    BY <1>1 DEF Streams
  <1>5. Append(events, r) \in Seq(Alerts \cup {"heartbeat"})
    BY <1>3, <1>4, RangeOfAppend
  <1>6. [stream[s] EXCEPT !.next = @ + 1,
                          !.response = IF r \in Own THEN Append(@, r) ELSE @] \in Streams
    <2> HIDE DEF r
    <2> QED
      BY <1>1, <1>4, <1>5 DEF Streams
  <1> QED
    BY <1>2, <1>3, <1>6 DEF TakeEvent, Becomes

LEMMA AfterLag ==
    ASSUME FeedTyped, NEW s \in Clients, Lag(s)
    PROVE  /\ OldestKept \in 1..(Len(sent) + 1)
           /\ Becomes(s, [stream[s] EXCEPT !.next = OldestKept, !.lagged = TRUE])
  <1>1. stream[s] \in Streams /\ OldestKept \in Nat /\ OldestKept \in 1..(Len(sent) + 1)
    BY RoomAssumption DEF FeedTyped, OldestKept
  <1>2. [stream[s] EXCEPT !.next = OldestKept, !.lagged = TRUE] \in Streams
    BY <1>1 DEF Streams
  <1> QED
    BY <1>1, <1>2 DEF Lag, Becomes

LEMMA AfterHeartbeat ==
    ASSUME FeedTyped, NEW s \in Clients, Heartbeat(s)
    PROVE  Becomes(s, [stream[s] EXCEPT !.response = Append(@, "heartbeat")])
  <1>1. stream[s] \in Streams
    BY DEF FeedTyped
  <1>2. Append(stream[s].response, "heartbeat") \in Seq(Alerts \cup {"heartbeat"})
    BY <1>1, RangeOfAppend DEF Streams
  <1>3. [stream[s] EXCEPT !.response = Append(@, "heartbeat")] \in Streams
    BY <1>1, <1>2 DEF Streams
  <1> QED
    BY <1>1, <1>3 DEF Heartbeat, Becomes, FeedTyped

LEMMA AfterRead ==
    ASSUME FeedTyped, NEW s \in Clients, ReadEvent(s)
    PROVE  LET events == stream[s].response IN
           Becomes(s, [stream[s] EXCEPT !.response = Tail(events),
                                      !.known = @ \cup ({Head(events)} \ {"heartbeat"})])
  <1> DEFINE events == stream[s].response
  <1>1. stream[s] \in Streams
    BY DEF FeedTyped
  <1>2. Head(events) \in Alerts \cup {"heartbeat"} /\ Tail(events) \in Seq(Alerts \cup {"heartbeat"})
    BY <1>1, RangeOfTail DEF Streams, ReadEvent
  <1>3. [stream[s] EXCEPT !.response = Tail(events),
                          !.known = @ \cup ({Head(events)} \ {"heartbeat"})] \in Streams
    BY <1>1, <1>2 DEF Streams
  <1> QED
    BY <1>3 DEF ReadEvent, Becomes

LEMMA AfterClose ==
    ASSUME FeedTyped, NEW s \in Clients, CloseStream(s)
    PROVE  Becomes(s, Closed)
  BY ClosedTyped DEF CloseStream, Becomes

LEMMA TypedStep ==
    ASSUME FeedTyped, [FeedNext]_feedVars
    PROVE  FeedTyped'
  <1> USE OwnAssumption
  <1>1. ASSUME NEW r \in Alerts, InsertEntry(r) PROVE FeedTyped'
    BY <1>1 DEF InsertEntry, FeedTyped
  <1>2. ASSUME NEW r \in Alerts, Publish(r) PROVE FeedTyped'
    BY <1>2, RangeOfAppend DEF Publish, FeedTyped
  <1>3. ASSUME NEW r \in Alerts, DropWriter(r) PROVE FeedTyped'
    BY <1>3 DEF DropWriter, FeedTyped
  <1>4. ASSUME NEW s \in Clients, NEW record, Becomes(s, record),
               UNCHANGED <<feed, created, entry, unsent, sent, edit, cleared, marked>>
        PROVE  FeedTyped'
    BY <1>4 DEF Becomes, FeedTyped
  <1>5. ASSUME NEW s \in Clients,
               OpenStream(s) \/ ListEntries(s) \/ TakeEvent(s) \/ Lag(s)
                 \/ Heartbeat(s) \/ ReadEvent(s) \/ CloseStream(s)
        PROVE  FeedTyped'
    <2>1. UNCHANGED <<feed, created, entry, unsent, sent, edit, cleared, marked>>
      BY <1>5 DEF OpenStream, ListEntries, TakeEvent, Lag, Heartbeat, ReadEvent, CloseStream
    <2>2. \E record : Becomes(s, record)
      BY <1>5, AfterOpen, AfterList, AfterTake, AfterLag, AfterHeartbeat, AfterRead, AfterClose
    <2> QED
      BY <1>4, <2>1, <2>2
  <1>11. ASSUME NEW e \in Editors, ListUnread(e) PROVE FeedTyped'
    <2>1. Unread \in SUBSET Own
      BY DEF Unread, Present
    <2>2. edit' \in [Editors -> Edits]
      BY <1>11, <2>1, BeginTyped DEF ListUnread
    <2> QED
      BY <1>11, <2>1, <2>2 DEF ListUnread, Begin, FeedTyped
  <1>12. ASSUME NEW e \in Editors, ListAlerts(e) PROVE FeedTyped'
    <2>1. Present \in SUBSET Own
      BY DEF Present
    <2>2. edit' \in [Editors -> Edits]
      BY <1>12, <2>1, BeginTyped DEF ListAlerts
    <2> QED
      BY <1>12, <2>1, <2>2 DEF ListAlerts, Begin, FeedTyped
  <1>13. ASSUME NEW e \in Editors, EndEdit(e) PROVE FeedTyped'
    BY <1>13, InactiveTyped DEF EndEdit, FeedTyped
  <1>14. ASSUME NEW e \in Editors, NEW r \in Own, ReadAlert(e, r) PROVE FeedTyped'
    <2>1. edit' \in [Editors -> Edits]
      BY <1>14, BeginTyped DEF ReadAlert
    <2> QED
      BY <1>14, <2>1 DEF ReadAlert, Begin, FeedTyped
  <1>15. ASSUME NEW e \in Editors, NEW r \in Own, MarkEntry(e, r) PROVE FeedTyped'
    <2>1. edit' \in [Editors -> Edits]
      BY <1>15, InactiveTyped DEF MarkEntry, FeedTyped, Edits
    <2> QED
      BY <1>15, <2>1 DEF MarkEntry, FeedTyped
  <1>16. ASSUME NEW e \in Editors, NEW r \in Own, ClearEntry(e, r) PROVE FeedTyped'
    <2>1. edit' \in [Editors -> Edits]
      BY <1>16 DEF ClearEntry, FeedTyped, Edits
    <2> QED
      BY <1>16, <2>1 DEF ClearEntry, FeedTyped
  <1>17. CASE RestartFeed
    BY <1>17, ClosedTyped, InactiveTyped DEF RestartFeed, FeedTyped
  <1>18. CASE UNCHANGED feedVars
    BY <1>18 DEF feedVars, FeedTyped
  <1> QED
    BY <1>1, <1>2, <1>3, <1>5, <1>11, <1>12, <1>13, <1>14, <1>15, <1>16, <1>17, <1>18 DEF FeedNext

-----------------------------------------------------------------------------
(* Editors.                                                                *)

OfStreams(s) ==
    OpenStream(s) \/ ListEntries(s) \/ TakeEvent(s) \/ Lag(s)
      \/ Heartbeat(s) \/ ReadEvent(s) \/ CloseStream(s)

LEMMA StreamsOnly ==
    ASSUME NEW s \in Clients, OfStreams(s)
    PROVE  UNCHANGED <<feed, created, entry, unsent, sent, edit, cleared, marked>>
  BY DEF OfStreams, OpenStream, ListEntries, TakeEvent, Lag, Heartbeat, ReadEvent, CloseStream

Begins(e) == ListUnread(e) \/ ListAlerts(e) \/ \E r \in Own : ReadAlert(e, r)
Edited(e, r) == MarkEntry(e, r) \/ ClearEntry(e, r)

\* What a request that begins has listed.
LEMMA Beginning ==
    ASSUME NEW e \in Editors, Begins(e)
    PROVE  \E op \in {"mark", "clear"}, those \in SUBSET Present :
            /\ edit' = [edit EXCEPT ![e] = [op |-> op, rows |-> those, left |-> those]]
            /\ those \subseteq IF op = "mark" THEN marked' ELSE cleared'
            /\ marked \subseteq marked' /\ cleared \subseteq cleared'
            /\ UNCHANGED <<feed, created, entry, unsent, sent, stream>>
  <1>1. CASE ListUnread(e)
    <2>1. Unread \in SUBSET Present
      BY DEF Unread
    <2> QED
      BY <1>1, <2>1 DEF ListUnread, Begin
  <1>2. CASE ListAlerts(e)
    <2>1. Present \in SUBSET Present
      OBVIOUS
    <2> QED
      BY <1>2, <2>1 DEF ListAlerts, Begin
  <1>3. ASSUME NEW r \in Own, ReadAlert(e, r)
        PROVE  /\ {r} \in SUBSET Present
               /\ edit' = [edit EXCEPT ![e] = [op |-> "mark", rows |-> {r}, left |-> {r}]]
               /\ {r} \subseteq marked'
               /\ marked \subseteq marked' /\ cleared \subseteq cleared'
               /\ UNCHANGED <<feed, created, entry, unsent, sent, stream>>
    BY <1>3 DEF ReadAlert, Begin, Unread
  <1> QED
    BY <1>1, <1>2, <1>3 DEF Begins

\* What becomes of the row an editor is at.
LEMMA EntryStep ==
    ASSUME NEW e \in Editors, Listed(e), NEW r \in Own, Edited(e, r)
    PROVE  /\ UNCHANGED <<feed, created, unsent, sent, stream, cleared, marked>>
           /\ r \in edit[e].rows
           /\ \/ /\ edit[e].op = "mark" /\ r \in marked /\ r \in Present
                 /\ entry' = [entry EXCEPT ![r] = "read"]
                 /\ edit' = [edit EXCEPT ![e].left = @ \ {r}]
              \/ /\ edit[e].op = "mark" /\ entry' = entry
                 /\ edit' = [edit EXCEPT ![e] = Inactive]
              \/ /\ edit[e].op = "clear" /\ r \in cleared
                 /\ entry' = [entry EXCEPT ![r] = "gone"]
                 /\ edit' = [edit EXCEPT ![e].left = @ \ {r}]
  BY DEF Edited, MarkEntry, ClearEntry, Listed

LEMMA FeedSteps ==
    ASSUME [FeedNext]_feedVars
    PROVE  \/ \E r \in Alerts : InsertEntry(r) \/ Publish(r) \/ DropWriter(r)
           \/ \E s \in Clients : OfStreams(s)
           \/ \E e \in Editors : Begins(e) \/ EndEdit(e) \/ \E r \in Own : Edited(e, r)
           \/ RestartFeed
           \/ UNCHANGED feedVars
  BY DEF FeedNext, OfStreams, Begins, Edited

LEMMA OwedStep ==
    ASSUME FeedInv, [FeedNext]_feedVars
    PROVE  Owed'
  <1> USE OwnAssumption DEF FeedInv
  <1>0. entry \in [Alerts -> {"none", "unread", "read", "gone"}]
    BY DEF FeedTyped
  <1>1. ASSUME NEW r \in Alerts, InsertEntry(r) PROVE Owed'
    BY <1>0, <1>1 DEF InsertEntry, Owed
  <1>2. CASE UNCHANGED <<entry, cleared, marked>>
    BY <1>2 DEF Owed
  <1>3. ASSUME NEW e \in Editors, Begins(e) PROVE Owed'
    BY <1>3, Beginning DEF Owed
  <1>4. ASSUME NEW e \in Editors, NEW r \in Own, Edited(e, r) PROVE Owed'
    BY <1>0, <1>4, EntryStep DEF Owed
  <1> QED
    BY <1>1, <1>2, <1>3, <1>4, FeedSteps, StreamsOnly
       DEF feedVars, Publish, DropWriter, EndEdit, RestartFeed

LEMMA InsertedStep ==
    ASSUME FeedInv, [FeedNext]_feedVars
    PROVE  Inserted'
  <1> USE OwnAssumption DEF FeedInv
  <1>0. entry \in [Alerts -> {"none", "unread", "read", "gone"}] /\ sent \in Seq(Alerts)
    BY DEF FeedTyped
  <1>1. ASSUME NEW r \in Alerts, InsertEntry(r) PROVE Inserted'
    BY <1>0, <1>1 DEF InsertEntry, Inserted
  <1>2. ASSUME NEW r \in Alerts, Publish(r) PROVE Inserted'
    <2>1. Range(sent') = Range(sent) \cup {r}
      BY <1>0, <1>2, RangeOfAppend DEF Publish
    <2> QED
      BY <1>2, <2>1 DEF Publish, Inserted
  <1>3. CASE UNCHANGED <<entry, unsent, sent>>
    BY <1>3 DEF Inserted
  <1>4. ASSUME NEW e \in Editors, Begins(e) PROVE Inserted'
    BY <1>4, Beginning DEF Inserted
  <1>5. ASSUME NEW e \in Editors, NEW r \in Own, Edited(e, r) PROVE Inserted'
    <2>1. sent' = sent /\ unsent' = unsent
      BY <1>5, EntryStep
    <2>2. \A q \in Alerts : entry[q] # "none" => entry'[q] # "none"
      BY <1>0, <1>5, EntryStep
    <2>3. unsent \cup Range(sent) \subseteq Alerts
      BY DEF FeedTyped, Range
    <2> QED
      BY <2>1, <2>2, <2>3 DEF Inserted
  <1>6. CASE RestartFeed
    <2>1. Range(<<>>) = {}
      BY DEF Range
    <2> QED
      BY <1>6, <2>1 DEF RestartFeed, Inserted
  <1>7. ASSUME NEW r \in Alerts, DropWriter(r) PROVE Inserted'
    BY <1>7 DEF DropWriter, Inserted
  <1> QED
    BY <1>1, <1>2, <1>3, <1>4, <1>5, <1>6, <1>7, FeedSteps, StreamsOnly DEF feedVars, EndEdit

LEMMA ListedStep ==
    ASSUME FeedInv, [FeedNext]_feedVars, NEW e \in Editors
    PROVE  Listed(e)'
  <1> USE OwnAssumption DEF FeedInv
  <1>0. /\ entry \in [Alerts -> {"none", "unread", "read", "gone"}]
        /\ edit \in [Editors -> Edits] /\ edit[e] \in Edits
        /\ Listed(e)
    BY DEF FeedTyped
  <1>1. ASSUME NEW r \in Alerts, InsertEntry(r) PROVE Listed(e)'
    <2>1. \A q \in edit[e].rows : q \in Alerts /\ entry[q] # "none" /\ entry'[q] = entry[q]
      BY <1>0, <1>1 DEF InsertEntry, Listed, Edits
    <2>2. edit' = edit /\ marked' = marked /\ cleared' = cleared
      BY <1>1 DEF InsertEntry
    <2> QED
      BY <1>0, <2>1, <2>2 DEF Listed
  <1>2. CASE UNCHANGED <<entry, edit, cleared, marked>>
    BY <1>0, <1>2 DEF Listed
  <1>3. ASSUME NEW f \in Editors, Begins(f) PROVE Listed(e)'
    <2>1. PICK op \in {"mark", "clear"}, those \in SUBSET Present :
            /\ edit' = [edit EXCEPT ![f] = [op |-> op, rows |-> those, left |-> those]]
            /\ those \subseteq IF op = "mark" THEN marked' ELSE cleared'
            /\ marked \subseteq marked' /\ cleared \subseteq cleared'
            /\ UNCHANGED <<feed, created, entry, unsent, sent, stream>>
      BY <1>3, Beginning
    <2>2. CASE e = f
      <3>1. edit'[e].op = op /\ edit'[e].rows = those /\ edit'[e].left = those
        BY <1>0, <2>1, <2>2
      <3>2. \A r \in those : entry'[r] # "none"
        BY <2>1 DEF Present
      <3> QED
        BY <2>1, <3>1, <3>2 DEF Listed
    <2>3. CASE e # f
      <3>1. edit'[e] = edit[e]
        BY <1>0, <2>1, <2>3
      <3>2. entry' = entry
        BY <2>1
      <3>3. edit[e].op \in {"none", "mark", "clear"}
        BY <1>0 DEF Edits
      <3> QED
        BY <1>0, <2>1, <3>1, <3>2, <3>3 DEF Listed
    <2> QED
      BY <2>2, <2>3
  <1>4. ASSUME NEW f \in Editors, NEW r \in Own, Edited(f, r) PROVE Listed(e)'
    <2>0. r \in Alerts /\ marked' = marked /\ cleared' = cleared /\ edit[f] \in Edits
      BY <1>0, <1>4, EntryStep
    <2>1. CASE edit' = [edit EXCEPT ![f] = Inactive] /\ entry' = entry
      <3>1. CASE e = f
        <4>1. edit'[e] = Inactive
          BY <1>0, <2>1, <3>1
        <4> QED
          BY <4>1 DEF Listed, Inactive
      <3>2. CASE e # f
        <4>1. edit'[e] = edit[e]
          BY <1>0, <2>1, <3>2
        <4> QED
          BY <1>0, <2>0, <2>1, <4>1 DEF Listed
      <3> QED
        BY <3>1, <3>2
    <2>2. ASSUME NEW to \in {"read", "gone"},
                 entry' = [entry EXCEPT ![r] = to],
                 edit' = [edit EXCEPT ![f].left = @ \ {r}],
                 to = "read" => edit[f].op = "mark" /\ r \in Present,
                 to = "gone" => edit[f].op = "clear"
          PROVE  Listed(e)'
      <3>1. /\ edit'[e].op = edit[e].op /\ edit'[e].rows = edit[e].rows
            /\ edit'[e].left = IF e = f THEN edit[e].left \ {r} ELSE edit[e].left
        BY <1>0, <2>0, <2>2 DEF Edits
      <3>2. /\ entry'[r] = to
            /\ \A q \in Alerts : q # r => entry'[q] = entry[q]
        BY <1>0, <2>0, <2>2
      <3>3. edit[e].rows \subseteq Alerts /\ edit[e].op \in {"none", "mark", "clear"}
        BY <1>0 DEF Edits
      <3>4. to = "read" => entry[r] # "gone"
        BY <2>2 DEF Present
      <3>5. /\ edit'[e].left \subseteq edit'[e].rows
            /\ \A q \in edit'[e].rows : entry'[q] # "none"
        BY <1>0, <2>2, <3>1, <3>2, <3>3 DEF Listed
      <3>6. \A q \in edit'[e].rows \ edit'[e].left :
              entry'[q] \in IF edit'[e].op = "clear" THEN {"gone"} ELSE {"read", "gone"}
        BY <1>0, <2>2, <3>1, <3>2, <3>3, <3>4 DEF Listed
      <3>7. CASE edit[e].op = "none"
        BY <1>0, <2>0, <3>1, <3>5, <3>6, <3>7 DEF Listed
      <3>8. CASE edit[e].op # "none"
        BY <1>0, <2>0, <3>1, <3>3, <3>5, <3>6, <3>8 DEF Listed
      <3> QED
        BY <3>7, <3>8
    <2> QED
      BY <1>4, <2>1, <2>2, EntryStep
  <1>5. ASSUME NEW f \in Editors, EndEdit(f) PROVE Listed(e)'
    <2>1. CASE e = f
      <3>1. edit'[e] = Inactive
        BY <1>0, <1>5, <2>1 DEF EndEdit
      <3> QED
        BY <3>1 DEF Listed, Inactive
    <2>2. CASE e # f
      BY <1>0, <1>5, <2>2 DEF EndEdit, Listed
    <2> QED
      BY <2>1, <2>2
  <1>6. CASE RestartFeed
    <2>1. edit'[e] = Inactive
      BY <1>6 DEF RestartFeed
    <2> QED
      BY <2>1 DEF Listed, Inactive
  <1> QED
    BY <1>1, <1>2, <1>3, <1>4, <1>5, <1>6, FeedSteps, StreamsOnly DEF feedVars, Publish, DropWriter

-----------------------------------------------------------------------------
(* Streams.                                                                *)

\* What a client has enough newer ones of, it still has while it is connected.
LEMMA OutlistedStays ==
    ASSUME NEW s \in Clients, NEW r, Outlisted(s, r), created' = created,
           stream[s].known \subseteq stream'[s].known
    PROVE  Outlisted(s, r)'
  BY DEF Outlisted

\* A stream that is left alone still follows, as long as nothing that was
\* published before comes to be present.
LEMMA FollowsKept ==
    ASSUME NEW s \in Clients, Follows(s), stream'[s] = stream[s], sent' = sent,
           UNCHANGED <<feed, created>>,
           Range(sent) \cap Present' \subseteq Present
    PROVE  Follows(s)'
  <1>1. Coming(s)' = Coming(s)
    BY DEF Coming
  <1>2. Range(sent') = Range(sent)
    OBVIOUS
  <1> QED
    BY <1>1, <1>2, OutlistedStays DEF Follows

LEMMA FollowsClosed ==
    ASSUME NEW s \in Clients, stream'[s] = Closed
    PROVE  Follows(s)'
  BY DEF Follows, Closed

LEMMA FollowsPublish ==
    ASSUME FeedInv, NEW s \in Clients, NEW r \in Alerts, Publish(r)
    PROVE  Follows(s)'
  <1>1. /\ sent \in Seq(Alerts) /\ Len(sent) \in Nat
        /\ stream[s] \in Streams /\ stream[s].next \in Nat
        /\ Follows(s)
    BY DEF FeedInv, FeedTyped, Streams
  <1>2. /\ sent' = Append(sent, r) /\ stream' = stream /\ Present' = Present
        /\ feed' = feed /\ \A q : Outlisted(s, q) => Outlisted(s, q)'
    BY OutlistedStays DEF Publish, Present
  <1>3. /\ Len(sent') = Len(sent) + 1
        /\ \A i \in 1..Len(sent) : sent'[i] = sent[i]
        /\ sent'[Len(sent) + 1] = r
        /\ Range(sent') = Range(sent) \cup {r}
    BY <1>1, <1>2, RangeOfAppend
  <1>4. CASE stream[s].open
    <2>1. stream[s].next \in 1..(Len(sent) + 1)
      BY <1>1, <1>4 DEF Follows
    <2>2. stream[s].next \in 1..(Len(sent') + 1)
      BY <1>1, <1>3, <2>1
    <2>3. Coming(s) \subseteq Coming(s)' /\ r \in Coming(s)'
      <3>1. \A i \in stream[s].next..Len(sent) :
              i \in stream[s].next..Len(sent') /\ sent'[i] = sent[i]
        BY <1>1, <1>3, <2>1
      <3>2. Len(sent) + 1 \in stream[s].next..Len(sent')
        BY <1>1, <1>3, <2>1
      <3>3. Coming(s)' = {sent'[i] : i \in stream[s].next..Len(sent')}
        BY <1>2 DEF Coming
      <3> QED
        BY <1>3, <3>1, <3>2, <3>3 DEF Coming
    <2> QED
      BY <1>1, <1>2, <1>3, <2>2, <2>3 DEF Follows
  <1>5. CASE ~stream[s].open
    BY <1>1, <1>2, <1>5 DEF Follows
  <1> QED
    BY <1>4, <1>5

LEMMA FollowsTake ==
    ASSUME FeedInv, NEW s \in Clients, TakeEvent(s)
    PROVE  Follows(s)'
  <1> DEFINE at == stream[s].next
             r == sent[at]
             old == stream[s]
             new == stream'[s]
             events == old.response
  <1>1. /\ sent \in Seq(Alerts) /\ Len(sent) \in Nat /\ old \in Streams /\ Follows(s)
        /\ events \in Seq(Alerts \cup {"heartbeat"})
    BY DEF FeedInv, FeedTyped, Streams
  <1>2. at \in 1..Len(sent) /\ r \in Alerts
    BY AfterTake DEF FeedInv
  <1>3. sent' = sent /\ Present' = Present /\ feed' = feed /\ created' = created
    BY DEF TakeEvent, Present
  <1>4. /\ new.next = at + 1 /\ (new.open <=> old.open) /\ (new.lagged <=> old.lagged)
        /\ (new.listed <=> old.listed) /\ new.known = old.known
        /\ new.response = IF r \in Own THEN Append(events, r) ELSE events
    BY <1>1 DEF TakeEvent, FeedInv, FeedTyped, Streams
  <1>5. /\ Range(events) \subseteq Range(new.response)
        /\ r \in Own => r \in Range(new.response)
    <2>1. Range(Append(events, r)) = Range(events) \cup {r}
      BY <1>1, <1>2, RangeOfAppend
    <2> QED
      BY <1>4, <2>1
  <1>6. Coming(s) \subseteq Coming(s)' \cup {r}
    <2>1. Coming(s)' = {sent[i] : i \in (at + 1)..Len(sent)}
      BY <1>3, <1>4 DEF Coming
    <2>2. \A i \in at..Len(sent) : i = at \/ i \in (at + 1)..Len(sent)
      BY <1>1, <1>2
    <2> QED
      BY <2>1, <2>2 DEF Coming
  <1>7. \A q \in Range(sent) \cap Present :
            q \in old.known \cup Range(events) \cup Coming(s) =>
              q \in new.known \cup Range(new.response) \cup Coming(s)'
    BY <1>4, <1>5, <1>6 DEF Present
  <1>8. new.next \in 1..(Len(sent) + 1)
    BY <1>1, <1>2, <1>4
  <1>9. \A q : Outlisted(s, q) => Outlisted(s, q)'
    BY <1>3, <1>4, OutlistedStays
  <1> QED
    BY <1>1, <1>3, <1>4, <1>7, <1>8, <1>9 DEF Follows

LEMMA FollowsRead ==
    ASSUME FeedInv, NEW s \in Clients, ReadEvent(s)
    PROVE  Follows(s)'
  <1> DEFINE old == stream[s]
             new == stream'[s]
             events == old.response
  <1>1. /\ sent \in Seq(Alerts) /\ old \in Streams /\ Follows(s) /\ events # <<>>
        /\ events \in Seq(Alerts \cup {"heartbeat"})
    BY DEF FeedInv, FeedTyped, Streams, ReadEvent
  <1>2. sent' = sent /\ Present' = Present /\ feed' = feed /\ created' = created
    BY DEF ReadEvent, Present
  <1>3. /\ new.next = old.next /\ (new.open <=> old.open) /\ (new.lagged <=> old.lagged)
        /\ (new.listed <=> old.listed)
        /\ new.known = old.known \cup ({Head(events)} \ {"heartbeat"})
        /\ new.response = Tail(events)
    BY <1>1 DEF ReadEvent, FeedInv, FeedTyped, Streams
  <1>4. Range(events) \subseteq {Head(events)} \cup Range(new.response)
    BY <1>1, <1>3, RangeOfTail
  <1>5. Coming(s)' = Coming(s)
    BY <1>2, <1>3 DEF Coming
  <1>6. \A q \in Present : q # "heartbeat"
    BY OwnAssumption, HeartbeatAssumption DEF Present
  <1>7. \A q \in Range(sent) \cap Present :
            q \in old.known \cup Range(events) \cup Coming(s) =>
              q \in new.known \cup Range(new.response) \cup Coming(s)'
    BY <1>3, <1>4, <1>5, <1>6
  <1>8. \A q : Outlisted(s, q) => Outlisted(s, q)'
    BY <1>2, <1>3, OutlistedStays
  <1> QED
    BY <1>1, <1>2, <1>3, <1>7, <1>8 DEF Follows

LEMMA FollowsOwn ==
    ASSUME FeedInv, NEW s \in Clients, OfStreams(s)
    PROVE  Follows(s)'
  <1> DEFINE old == stream[s]
             new == stream'[s]
  <1>1. /\ sent \in Seq(Alerts) /\ Len(sent) \in Nat /\ old \in Streams /\ Follows(s)
        /\ stream \in [Clients -> Streams]
    BY DEF FeedInv, FeedTyped
  <1>2. sent' = sent /\ Present' = Present /\ feed' = feed /\ created' = created
    BY StreamsOnly DEF Present
  <1>3. CASE OpenStream(s)
    <2>0. new = Opened
      BY <1>1, <1>3, AfterOpen DEF Becomes, FeedInv
    <2>1. new.next = Len(sent) + 1 /\ ~new.listed
      BY <1>3, <2>0, AfterOpen DEF FeedInv
    <2> QED
      BY <1>1, <1>2, <2>1 DEF Follows
  <1>4. CASE ListEntries(s)
    <2>1. PICK L \in Listings :
             stream' = [stream EXCEPT ![s] = [old EXCEPT !.listed = TRUE, !.known = @ \cup L]]
      BY <1>4 DEF ListEntries
    <2>2. /\ new.next = old.next /\ (new.open <=> old.open) /\ old.open
          /\ new.known = old.known \cup L
      BY <1>1, <1>4, <2>1 DEF ListEntries, Streams
    <2>3. \A r \in Present' : r \notin new.known => feed' = "alerts" /\ Outlisted(s, r)'
      <3>1. \A r \in Present \ L :
              /\ feed = "alerts" /\ Cardinality(L) = ListLimit
              /\ \A q \in L : created[q] >= created[r]
        BY ListingIs
      <3> QED
        BY <1>2, <2>2, <3>1 DEF Outlisted
    <2> QED
      BY <1>1, <1>2, <2>2, <2>3 DEF Follows
  <1>5. CASE TakeEvent(s)
    BY <1>5, FollowsTake
  <1>6. CASE Lag(s)
    <2>1. /\ new.next = OldestKept /\ (new.open <=> old.open) /\ new.lagged
          /\ (new.listed <=> old.listed)
      BY <1>1, <1>6 DEF Lag, Streams
    <2>2. OldestKept \in 1..(Len(sent) + 1)
      BY <1>6, AfterLag DEF FeedInv
    <2> QED
      BY <1>1, <1>2, <2>1, <2>2 DEF Follows
  <1>7. CASE Heartbeat(s)
    <2>1. /\ new.next = old.next /\ (new.open <=> old.open) /\ (new.lagged <=> old.lagged)
          /\ (new.listed <=> old.listed) /\ new.known = old.known
          /\ new.response = Append(old.response, "heartbeat")
      BY <1>1, <1>7 DEF Heartbeat, Streams
    <2>2. Range(old.response) \subseteq Range(new.response)
      BY <1>1, <2>1, RangeOfAppend DEF Streams
    <2>3. Coming(s)' = Coming(s)
      BY <1>2, <2>1 DEF Coming
    <2>4. \A q : Outlisted(s, q) => Outlisted(s, q)'
      BY <1>2, <2>1, OutlistedStays
    <2> QED
      BY <1>1, <1>2, <2>1, <2>2, <2>3, <2>4 DEF Follows
  <1>8. CASE ReadEvent(s)
    BY <1>8, FollowsRead
  <1>9. CASE CloseStream(s)
    BY <1>1, <1>9, FollowsClosed DEF CloseStream
  <1> QED
    BY <1>3, <1>4, <1>5, <1>6, <1>7, <1>8, <1>9 DEF OfStreams

LEMMA FollowsStep ==
    ASSUME FeedInv, [FeedNext]_feedVars, NEW s \in Clients
    PROVE  Follows(s)'
  <1> USE OwnAssumption
  <1>0. /\ entry \in [Alerts -> {"none", "unread", "read", "gone"}]
        /\ stream \in [Clients -> Streams] /\ Follows(s) /\ Inserted
    BY DEF FeedInv, FeedTyped
  <1>1. ASSUME NEW r \in Alerts, InsertEntry(r) PROVE Follows(s)'
    <2>1. r \notin Range(sent)
      BY <1>0, <1>1 DEF InsertEntry, Inserted
    <2>2. Present' \subseteq Present \cup {r}
      BY <1>0, <1>1 DEF InsertEntry, Present
    <2> QED
      BY <1>0, <1>1, <2>1, <2>2, FollowsKept DEF InsertEntry
  <1>2. ASSUME NEW r \in Alerts, Publish(r) PROVE Follows(s)'
    BY <1>2, FollowsPublish
  <1>3. CASE UNCHANGED <<feed, created, entry, sent, stream>>
    BY <1>0, <1>3, FollowsKept DEF Present
  <1>4. ASSUME NEW t \in Clients, OfStreams(t) PROVE Follows(s)'
    <2>1. CASE s = t
      BY <1>4, <2>1, FollowsOwn
    <2>2. CASE s # t
      <3>1. stream'[s] = stream[s]
        BY <1>0, <1>4, <2>2
           DEF OfStreams, OpenStream, ListEntries, TakeEvent, Lag, Heartbeat, ReadEvent, CloseStream
      <3>2. sent' = sent /\ Present' = Present /\ UNCHANGED <<feed, created>>
        BY <1>4, StreamsOnly DEF Present
      <3> QED
        BY <1>0, <3>1, <3>2, FollowsKept
    <2> QED
      BY <2>1, <2>2
  <1>5. ASSUME NEW e \in Editors, Begins(e) PROVE Follows(s)'
    <2>1. UNCHANGED <<feed, created, entry, sent, stream>>
      BY <1>5, Beginning
    <2> QED
      BY <1>3, <2>1
  <1>6. ASSUME NEW e \in Editors, NEW r \in Own, Edited(e, r) PROVE Follows(s)'
    <2>1. UNCHANGED <<feed, created, sent, stream>>
      BY <1>6, EntryStep DEF FeedInv
    <2>2. Present' \subseteq Present
      BY <1>0, <1>6, EntryStep DEF Present, FeedInv
    <2> QED
      BY <1>0, <2>1, <2>2, FollowsKept
  <1>7. CASE RestartFeed
    BY <1>7, FollowsClosed DEF RestartFeed
  <1> QED
    BY <1>1, <1>2, <1>3, <1>4, <1>5, <1>6, <1>7, FeedSteps DEF feedVars, DropWriter, EndEdit
-----------------------------------------------------------------------------
LEMMA FeedInitially == FeedInit => FeedInv
  <1> SUFFICES ASSUME FeedInit PROVE FeedInv
    OBVIOUS
  <1>1. FeedTyped
    BY ClosedTyped, InactiveTyped DEF FeedInit, FeedTyped
  <1>2. Owed
    BY DEF FeedInit, Owed
  <1>3. Inserted
    BY DEF FeedInit, Inserted, Range
  <1>4. ASSUME NEW e \in Editors PROVE Listed(e)
    <2>1. edit[e] = Inactive
      BY DEF FeedInit
    <2> QED
      BY <2>1 DEF Listed, Inactive
  <1>5. ASSUME NEW s \in Clients PROVE Follows(s)
    <2>1. stream[s] = Closed
      BY DEF FeedInit
    <2> QED
      BY <2>1 DEF Follows, Closed
  <1> QED
    BY <1>1, <1>2, <1>3, <1>4, <1>5 DEF FeedInv

LEMMA FeedInductive == FeedInv /\ [FeedNext]_feedVars => FeedInv'
  <1> SUFFICES ASSUME FeedInv, [FeedNext]_feedVars PROVE FeedInv'
    OBVIOUS
  <1>1. FeedTyped'
    BY TypedStep DEF FeedInv
  <1> QED
    BY <1>1, OwedStep, InsertedStep, ListedStep, FollowsStep DEF FeedInv

LEMMA FeedAlways == FeedSpec => []FeedInv
  BY FeedInitially, FeedInductive, PTL DEF FeedSpec

(* For any rows, clients and requests: clearing and marking touch only what*)
(* the request has listed, and leave none of it behind (clear_alerts,      *)
(* mark_alerts_read).                                                      *)
THEOREM OnlyListedCorrect == FeedSpec => []OnlyListedGo
  <1>1. FeedInv => OnlyListedGo
    BY DEF FeedInv, Owed, Listed, OnlyListedGo
  <1> QED
    BY <1>1, FeedAlways, PTL

(* For any backlog, any room and any limit of the list: what was published *)
(* and is still there, a client that opened its stream before it listed    *)
(* knows or is about to get, unless the channel has passed it, or it is an *)
(* alert and the client has a list's worth of alerts that are no older     *)
(* (alerts, stream_alerts, list, market_comment_stream).                   *)
THEOREM NothingMissedCorrect == FeedSpec => []NothingMissed
  <1>1. FeedInv => NothingMissed
    BY DEF FeedInv, Follows, Coming, NothingMissed
  <1> QED
    BY <1>1, FeedAlways, PTL
=============================================================================
