----------------------------- MODULE RateLimiter -----------------------------
(***************************************************************************)
(* The rate limiters (src/src/app/rate_limit.rs) and the layers they form  *)
(* around the routes (create_app and the routers in src/src/app/mod.rs).   *)
(*                                                                         *)
(* A limiter counts the requests of each address in windows of its own.    *)
(* All of a check happens under the limiter's mutex except that the clock  *)
(* is read just before; the microseconds in between are nothing beside a   *)
(* window, and the model's clock has ticks that are far apart.             *)
(***************************************************************************)
EXTENDS Naturals, FiniteSets, Functions

CONSTANTS
    Addresses,      \* IP addresses, and "unknown" for all the others
    Routes,         \* routes that have a limiter of their own, and "public"
    Limit,          \* requests in one window: [Routes -> Nat], from the configuration
    Window,         \* 60 seconds
    Crowd,          \* buckets that may be there before any are dropped: 10 000
    MaxClock        \* bound on the clock

ASSUME RoutesAssumption == "public" \in Routes
ASSUME LimitAssumption == Limit \in [Routes -> Nat \ {0}]
ASSUME WindowAssumption == Window \in Nat \ {0} /\ Crowd \in Nat

VARIABLES
    clock,
    buckets,        \* by limiter, one bucket for each address it remembers
    admitted,       \* by limiter, the requests of each address let through in the last Window ticks
    refused         \* whom it has refused at this tick

limiterVars == <<clock, buckets, admitted, refused>>
-----------------------------------------------------------------------------
\* The limiter of all routes is the outer layer.
Layers(route) == {"public", route}

LimiterInit ==
    /\ clock = 0
    /\ buckets = [r \in Routes |-> <<>>]
    /\ admitted = [r \in Routes |-> [a \in Addresses |-> {}]]
    /\ refused = [r \in Routes |-> {}]

Live(bucket) == clock - bucket.start < Window

\* Mutation: the buckets that still count are dropped.
Retained_Reversed(all) ==
    IF Cardinality(DOMAIN all) > Crowd
      THEN Restrict(all, {a \in DOMAIN all : ~Live(all[a])}) ELSE all

\* Only a crowded map is cleared of the buckets whose window is over.
Retained(all) ==
    IF Cardinality(DOMAIN all) > Crowd
      THEN Restrict(all, {a \in DOMAIN all : Live(all[a])}) ELSE all

\* The address's bucket, new or begun again when its window is over.
BucketOf(all, a) ==
    IF a \in DOMAIN all /\ Live(all[a]) THEN all[a] ELSE [count |-> 0, start |-> clock]

\* check: the map after it, and whether the request may go on.
Check(r, a) ==
    LET all == Retained(buckets[r])
        bucket == BucketOf(all, a)
        goesOn == bucket.count < Limit[r]
        counted == IF goesOn THEN [bucket EXCEPT !.count = @ + 1] ELSE bucket
    IN [goesOn |-> goesOn,
        map |-> [b \in DOMAIN all \cup {a} |-> IF b = a THEN counted ELSE all[b]]]

\* A request that is not among those, to count them by.
Another(some) == [at |-> clock, nth |-> Cardinality(some)]

\* enforce, in each layer around the route: a request that an outer layer
\* refuses does not reach the inner one, and one that the inner layer
\* refuses has been counted by the outer.
Request(route, a) ==
    LET result == [r \in Layers(route) |-> Check(r, a)]
        reached == IF result["public"].goesOn THEN Layers(route) ELSE {"public"}
        passed == {r \in reached : result[r].goesOn}
    IN
    /\ buckets' = [r \in Routes |-> IF r \in reached THEN result[r].map ELSE buckets[r]]
    /\ admitted' = [r \in Routes |-> IF r \in passed THEN [admitted[r] EXCEPT ![a] = @ \cup {Another(@)}]
                                                     ELSE admitted[r]]
    /\ refused' = [r \in Routes |-> IF r \in reached \ passed THEN refused[r] \cup {a} ELSE refused[r]]
    /\ UNCHANGED clock

Pass ==
    /\ clock < MaxClock
    /\ clock' = clock + 1
    /\ admitted' = [r \in Routes |-> [a \in Addresses |->
                      {q \in admitted[r][a] : clock' - q.at < Window}]]
    /\ refused' = [r \in Routes |-> {}]
    /\ UNCHANGED buckets

LimiterNext == Pass \/ \E route \in Routes, a \in Addresses : Request(route, a)

LimiterSpec == LimiterInit /\ [][LimiterNext]_limiterVars
-----------------------------------------------------------------------------
(* Properties.                                                             *)

(* The limit is kept and nobody is refused for less: within the length of  *)
(* a window no limiter lets through twice its limit of one address, where  *)
(* two windows may meet, and an address that it refuses has had the whole  *)
(* limit in that time - whatever other addresses do, with buckets that are *)
(* dropped and windows that end (RateLimiter::check).                      *)
LimitIsKept ==
    \A r \in Routes, a \in Addresses :
        LET recent == Cardinality(admitted[r][a]) IN
        /\ recent < 2 * Limit[r]
        /\ a \in refused[r] => recent >= Limit[r]
=============================================================================
