---------------------------- MODULE SignedOrders ----------------------------
(***************************************************************************)
(* What the trade service compares before it takes a signed order for a    *)
(* trade intent: validate_readiness, validate_trade_payload and            *)
(* resolve_instrument when the intent is created, and validate_readiness,  *)
(* validate_submission_options, resolve_instrument, credentials and        *)
(* validate_signed_order when the order is submitted                       *)
(* (src/src/trades/service.rs).  TradeIntents begins behind these checks.  *)
(*                                                                         *)
(* The user's wallet, the venue's market and the connection are read one   *)
(* after the other, and others may change each of them in between and      *)
(* after: a request comes with any readings, independent of each other.    *)
(*                                                                         *)
(* The amounts of a signed order are integers, u128 in the code.  What the *)
(* user asks for are decimals: here they are multiples of 1/Fine of a base *)
(* unit, which the code rounds to the nearest base unit.                   *)
(***************************************************************************)
EXTENDS Integers

CONSTANTS
    Payloads,       \* what create_intent is given and finds
    Submissions,    \* what submit_signed_order is given and finds
    Wallets,        \* addresses
    Tokens,         \* outcome tokens
    Markets,        \* ids of markets
    Labels,         \* names of outcomes, up to their case
    Scale,          \* base units in one: 1_000_000
    Fine,           \* parts of a base unit the user's decimals tell apart
    MaxU128,        \* u128::MAX
    MaxRequest,     \* u64::MAX, the bound of a decimal in base units
    Absent          \* None

Executions == {"FOK", "FAK", "GTC", "GTD"}

\* A market of the venue: its id, and its outcomes, some without a token.
MarketShape ==
    [id : Markets, outcomes : SUBSET [id : Tokens \cup {Absent}, label : Labels]]

\* amount and price in parts of a base unit; and the user's primary wallet
\* and the venue's answer.
PayloadShape ==
    [side : {"BUY", "SELL"}, type : {"MARKET", "LIMIT"}, execution : Executions,
     postOnly : BOOLEAN, deferExec : BOOLEAN, amount : Nat, price : Nat \cup {Absent},
     market : Markets, token : Tokens, outcome : Labels, wallet : Wallets,
     primary : Wallets \cup {Absent}, found : MarketShape]

OrderShape ==
    [maker : Wallets, signer : Wallets, signatureType : Nat, token : Tokens,
     side : {"BUY", "SELL"}, makerAmount : 0..MaxU128, takerAmount : 0..MaxU128]

\* The order and the options of the request; the user's primary wallet and
\* the venue's answer by now; the active connection, with what there is in
\* its config.
SubmissionShape ==
    [order : OrderShape, execution : Executions, postOnly : BOOLEAN, deferExec : BOOLEAN,
     primary : Wallets \cup {Absent}, found : MarketShape,
     account : Wallets \cup {Absent}, funder : Wallets \cup {Absent},
     signatureType : Nat \cup {Absent}, keys : BOOLEAN]

ASSUME ScaleAssumption ==
    Scale \in Nat \ {0} /\ Fine \in Nat \ {0} /\ MaxU128 \in Nat /\ MaxRequest \in Nat
ASSUME InputAssumption == \A p \in Payloads : p \in PayloadShape
ASSUME SubmissionAssumption == \A s \in Submissions : s \in SubmissionShape
ASSUME AbsentAssumption ==
    Absent \notin Nat \cup Wallets \cup Tokens \cup Payloads \cup Submissions

VARIABLES
    trade,          \* the intent, once it is created
    taken           \* the submission that was claimed for it

orderVars == <<trade, taken>>
-----------------------------------------------------------------------------
\* validate_readiness: there is one provider, so it is the preferred one.
Ready(primary, wallet) == primary # Absent /\ primary = wallet

\* resolve_market and resolve_instrument: the market that was asked for has
\* the outcome that was asked for.
Offers(found, id, token, label) ==
    found.id = id /\ [id |-> token, label |-> label] \in found.outcomes

\* What resolve_instrument returns if it does.
Resolved(found, token, label) == [market |-> found.id, token |-> token, label |-> label]

\* validate_trade_payload
ValidPayload(p) ==
    /\ p.amount > 0
    /\ \/ p.type = "MARKET" /\ p.execution \in {"FOK", "FAK"}
       \/ p.type = "LIMIT" /\ p.execution = "GTC"
    /\ p.postOnly => p.execution = "GTC"
    /\ p.type = "LIMIT" => p.price # Absent /\ p.price > 0 /\ p.price < Scale * Fine

\* validate_submission_options
OptionsMatch(t, s) ==
    s.execution = t.execution /\ s.deferExec = t.deferExec /\ s.postOnly = t.postOnly

\* validate_resolved_trade
ResolvedMatches(t, instrument) ==
    /\ instrument.market = t.market
    /\ instrument.token = t.token /\ instrument.label = t.outcome

\* string_config and integer_config: the config has all that is read of it.
Configured(s) == s.signatureType # Absent /\ s.funder # Absent /\ s.keys

\* credentials: of a complete EOA connection of the intent's wallet.
CredentialsFit(t, s) ==
    /\ Configured(s)
    /\ s.account = t.wallet
    /\ s.signatureType = 0
    /\ s.funder = s.account /\ s.funder = t.wallet

\* Mutation: who signed is not compared.
Identity_AnySigner(t, s) ==
    s.order.signatureType = 0 /\ s.order.token = t.token /\ s.order.side = t.side
    /\ s.order.maker = s.funder

\* validate_signed_order, as far as the integers.
Identity(t, s) ==
    /\ s.order.signatureType = 0
    /\ s.order.token = t.token
    /\ s.order.maker = s.funder /\ s.order.maker = t.wallet
    /\ s.order.signer = t.wallet
    /\ s.order.side = t.side

Distance(x, y) == IF x > y THEN x - y ELSE y - x

\* normalized_requested_base: the nearest base unit, a half upwards.
Normalized(v) == (2 * v + Fine) \div (2 * Fine)

Requestable(v) == v > 0 /\ v <= MaxRequest * Fine

\* What the order says of the quantity the intent's amount is about.
SignedQuantity(t, o) ==
    IF t.type = "LIMIT" /\ t.side = "BUY" THEN o.takerAmount ELSE o.makerAmount

AmountOK(t, o) ==
    /\ Requestable(t.amount)
    /\ Distance(SignedQuantity(t, o), Normalized(t.amount)) <= 1

\* Mutation: products are not checked for overflow.
InRange_Unchecked(x, y) == TRUE

\* checked_mul, and the product of two u128.
InRange(x, y) == x * y <= MaxU128
Times(x, y) == (x * y) % (MaxU128 + 1)

\* The price of an order: money for shares.
Money(o) == IF o.side = "BUY" THEN o.makerAmount ELSE o.takerAmount
Shares(o) == IF o.side = "BUY" THEN o.takerAmount ELSE o.makerAmount

PriceOK(t, o) ==
    LET intended == Normalized(t.price) IN
    t.type = "LIMIT" =>
        /\ Requestable(t.price)
        /\ InRange(Money(o), Scale) /\ InRange(Shares(o), intended)
        /\ Distance(Times(Money(o), Scale), Times(Shares(o), intended)) <= Shares(o)

Accepts(t, s) ==
    /\ OptionsMatch(t, s) /\ Ready(s.primary, t.wallet)
    /\ Offers(s.found, t.market, t.token, t.outcome)
    /\ ResolvedMatches(t, Resolved(s.found, t.token, t.outcome))
    /\ CredentialsFit(t, s) /\ Identity(t, s)
    /\ s.order.makerAmount > 0 /\ s.order.takerAmount > 0
    /\ AmountOK(t, s.order) /\ PriceOK(t, s.order)
-----------------------------------------------------------------------------
OrderInit == trade = Absent /\ taken = Absent

Create ==
    /\ trade = Absent
    /\ trade' \in {p \in Payloads : /\ Ready(p.primary, p.wallet) /\ ValidPayload(p)
                                    /\ Offers(p.found, p.market, p.token, p.outcome)}
    /\ UNCHANGED taken

\* A submission that is refused changes nothing.
Submit ==
    /\ trade # Absent
    /\ taken = Absent
    /\ taken' \in {s \in Submissions : Accepts(trade, s)}
    /\ UNCHANGED trade

OrderNext == Create \/ Submit

OrderSpec == OrderInit /\ [][OrderNext]_orderVars
-----------------------------------------------------------------------------
(* Properties.                                                             *)

(* A signed order that is taken is what the user asked for: its quantity   *)
(* is that of the intent, and a limit order pays no more for a share, or   *)
(* is paid no less, than the limit price, each to one and a half base      *)
(* units, the half from rounding the decimal.  A product that exceeds the  *)
(* integers never hides a difference (validate_signed_order).              *)
EconomicsKept ==
    taken # Absent =>
        LET o == taken.order IN
        /\ 2 * Fine * SignedQuantity(trade, o) <= 2 * trade.amount + 3 * Fine
        /\ 2 * Fine * SignedQuantity(trade, o) >= 2 * trade.amount - 3 * Fine
        /\ trade.type = "LIMIT" /\ trade.side = "BUY" =>
             (2 * Fine * Scale) * Money(o) <= Shares(o) * (2 * trade.price + 3 * Fine)
        /\ trade.type = "LIMIT" /\ trade.side = "SELL" =>
             (2 * Fine * Scale) * Money(o) >= Shares(o) * (2 * trade.price - 3 * Fine)

(* One wallet and one outcome are behind a signed order that is taken: the *)
(* intent's wallet was and is the user's, has signed the order, gives what *)
(* it gives, and is both the account and the funder of the connection that *)
(* posts it; and the token it buys or sells was and is that of the outcome *)
(* that the user named (validate_readiness, credentials,                   *)
(* validate_resolved_trade, validate_signed_order).                        *)
OneWalletOneOutcome ==
    taken # Absent =>
        /\ {trade.primary, taken.primary, taken.order.maker, taken.order.signer,
             taken.account, taken.funder} = {trade.wallet}
        /\ \A market \in {trade.found, taken.found} :
              /\ market.id = trade.market
              /\ [id |-> taken.order.token, label |-> trade.outcome] \in market.outcomes
=============================================================================
