--------------------------- MODULE VenueConnections ---------------------------
(***************************************************************************)
(* Wallets, venue connections and the user-stream workers that serve them: *)
(* wallet sign-in and association and connect_polymarket                   *)
(* (src/src/auth/service.rs), the eligibility of a connection              *)
(* (src/src/providers/polymarket/connection.rs), and the supervisor that   *)
(* keeps one worker per eligible connection                                *)
(* (PolymarketUserStreamSupervisor in user_stream.rs).                     *)
(*                                                                         *)
(* A handler is a process; one action is one statement, or one database    *)
(* transaction.  The supervisor works on a snapshot of the connections and *)
(* takes one of them per action.  A user has at most one connection (the   *)
(* index on user and provider), so connections are named by their user;    *)
(* none is ever disabled by the code, so the enabled column is left out.   *)
(***************************************************************************)
EXTENDS Naturals, FiniteSets

CONSTANTS
    Users,          \* users rows, existing or to be created by a sign-in
    Wallets,        \* wallet addresses, normalised
    Challenges,     \* wallet_signature_challenges rows
    Associations,   \* in-flight associate_wallet requests
    Connects,       \* in-flight connect_polymarket requests
    SignIns,        \* in-flight verify_challenge requests
    MaxVersion,     \* bound on the writes of one connection
    None            \* SQL NULL

ASSUME MaxVersionAssumption == MaxVersion \in Nat
ASSUME NoneAssumption == None \notin Users \cup Wallets \cup Challenges

VARIABLES
    users,          \* the users that exist
    wallet,         \* users.primary_wallet_address
    method,         \* auth_methods of type wallet: the user of each wallet
    chal,           \* the challenges
    conn,           \* venue_connections: a row per user
    assoc,          \* locals of associate_wallet: the challenge it has checked
    cnx,            \* locals of connect_polymarket
    signin,         \* locals of verify_challenge
    sup,            \* locals of the supervisor's pass
    worker          \* its workers: for which wallet, started for which version

accounts == <<users, wallet, method, chal>>
requests == <<assoc, cnx, signin>>
stream == <<sup, worker>>
vars == <<accounts, conn, requests, stream>>
-----------------------------------------------------------------------------
Failures == {"wallet_missing", "wallet_mismatch", "unsupported", "credentials"}

\* What decrypting the stored config shows: usable, not readable or incomplete
\* (another key), or for an account that is not a plain wallet (older rows).
Configs == {"usable", "unreadable", "unsupported"}

NoRow == [status |-> "absent", account |-> None, config |-> None, version |-> 0]

\* updated_at as a version: every write of the row gives it a new one.
Stamped(row) == [row EXCEPT !.version = @ + 1]

Room(u) == conn[u].version < MaxVersion

\* Mutation: the worker is given whatever the row holds.
Verdict_NoWalletCheck(row, w) ==
    CASE row.config = "usable" -> "active"
      [] row.config = "unsupported" -> "unsupported"
      [] OTHER -> "credentials"

\* stream_credentials: "active" if the row may be served, or why not.
Verdict(row, w) ==
    CASE w = None -> "wallet_missing"
      [] w # None /\ w # row.account -> "wallet_mismatch"
      [] w # None /\ w = row.account /\ row.config = "unreadable" -> "credentials"
      [] w # None /\ w = row.account /\ row.config = "unsupported" -> "unsupported"
      [] OTHER -> "active"

Idle == [pc |-> "idle", user |-> None, wallet |-> None, found |-> FALSE]
IdleSup == [pc |-> "idle", rows |-> [u \in Users |-> NoRow],
            cur |-> None, version |-> 0, verdict |-> None]

OldRows ==
    {[status |-> "active", account |-> w, config |-> x, version |-> 0] :
        w \in Wallets, x \in Configs}

\* Users that signed up by email, some with a connection an older release wrote.
Init ==
    /\ users \in SUBSET Users
    /\ wallet = [u \in Users |-> None]
    /\ method = [w \in Wallets |-> None]
    /\ chal = [c \in Challenges |-> [state |-> "none", user |-> None, wallet |-> None]]
    /\ conn \in [Users -> OldRows \cup {NoRow}]
    /\ \A u \in Users \ users : conn[u] = NoRow
    /\ assoc = [a \in Associations |-> None]
    /\ cnx = [k \in Connects |-> Idle]
    /\ signin = [q \in SignIns |-> Idle]
    /\ sup = IdleSup
    /\ worker = [u \in Users |-> None]
-----------------------------------------------------------------------------
(* create_wallet_challenge and associate_wallet.                           *)

Taken(u, w) == (\E v \in Users \ {u} : wallet[v] = w) \/ method[w] \notin {None, u}

CreateChallenge(c, u, w) ==
    /\ chal[c].state = "none"
    /\ u \in users
    /\ ~Taken(u, w)
    /\ chal' = [chal EXCEPT ![c] = [state |-> "open", user |-> u, wallet |-> w]]
    /\ UNCHANGED <<users, wallet, method, conn, requests, stream>>

ExpireChallenge(c) ==
    /\ chal[c].state = "open"
    /\ chal' = [chal EXCEPT ![c].state = "expired"]
    /\ UNCHANGED <<users, wallet, method, conn, requests, stream>>

\* Mutation: a challenge is good unless it has been used.
AssociateRead_NotUsed(a, c) ==
    /\ assoc[a] = None
    /\ chal[c].state # "used"
    /\ assoc' = [assoc EXCEPT ![a] = c]
    /\ UNCHANGED <<accounts, conn, cnx, signin, stream>>

\* The checks on the challenge, on the row as it is before the transaction.
AssociateRead(a, c) ==
    /\ assoc[a] = None
    /\ chal[c].state = "open"
    /\ assoc' = [assoc EXCEPT ![a] = c]
    /\ UNCHANGED <<accounts, conn, cnx, signin, stream>>

\* Mutation: the second UPDATE does not touch updated_at.
Reconciled_Unstamped(row, w) ==
    CASE row.status = "wallet_mismatch" /\ row.account = w ->
            Stamped([row EXCEPT !.status = "active"])
      [] row.status = "active" /\ row.account # w ->
            [row EXCEPT !.status = "wallet_mismatch"]
      [] OTHER -> row

\* reconcile_polymarket_after_wallet_replacement: restore, then mark.
Reconciled(row, w) ==
    CASE row.status = "wallet_mismatch" /\ row.account = w ->
            Stamped([row EXCEPT !.status = "active"])
      [] row.status = "active" /\ row.account # w ->
            Stamped([row EXCEPT !.status = "wallet_mismatch"])
      [] OTHER -> row

\* Mutation: the challenge is not compared again inside the transaction.
Consumable_Unchecked(c) == chal[c].state # "none"

\* The conditional UPDATE that consumes the challenge.
Consumable(c) == chal[c].state = "open"

\* The user's wallet row among auth_methods, any of them, is moved to the wallet;
\* a unique violation rolls the transaction back.
MethodMoves(u, w) ==
    LET own == {x \in Wallets : method[x] = u}
    IN  IF own = {} THEN {[method EXCEPT ![w] = u]}
        ELSE {[method EXCEPT ![x] = None, ![w] = u] :
                 x \in {y \in own : y = w \/ method[w] = None}}

\* One transaction: it commits all of it, or nothing.
AssociateCommit(a) ==
    /\ assoc[a] # None
    /\ LET c == assoc[a]
           u == chal[c].user
           w == chal[c].wallet
       IN  \/ /\ Consumable(c)
              /\ ~Taken(u, w)
              /\ Reconciled(conn[u], w).version <= MaxVersion
              /\ method' \in MethodMoves(u, w)
              /\ chal' = [chal EXCEPT ![c].state = "used"]
              /\ wallet' = [wallet EXCEPT ![u] = w]
              /\ conn' = [conn EXCEPT ![u] = Reconciled(@, w)]
           \/ /\ ~Consumable(c) \/ Taken(u, w) \/ MethodMoves(u, w) = {}
              /\ UNCHANGED <<wallet, method, chal, conn>>
    /\ assoc' = [assoc EXCEPT ![a] = None]
    /\ UNCHANGED <<users, cnx, signin, stream>>

AssociateAbandon(a) ==
    /\ assoc[a] # None
    /\ assoc' = [assoc EXCEPT ![a] = None]
    /\ UNCHANGED <<accounts, conn, cnx, signin, stream>>
-----------------------------------------------------------------------------
(* connect_polymarket: the account is the one given, or the user's wallet. *)

ConnectFind(k, u, w) ==
    /\ cnx[k].pc = "idle"
    /\ u \in users
    /\ cnx' = [cnx EXCEPT ![k] = [pc |-> "write", user |-> u, wallet |-> w,
                                  found |-> conn[u].status # "absent"]]
    /\ UNCHANGED <<accounts, conn, assoc, signin, stream>>

\* An update by id, or an insert that the index rejects if a row appeared.
ConnectWrite(k) ==
    /\ cnx[k].pc = "write"
    /\ LET u == cnx[k].user
           new == [status |-> "active", account |-> cnx[k].wallet,
                   config |-> "usable", version |-> conn[u].version]
       IN  \/ /\ cnx[k].found \/ conn[u].status = "absent"
              /\ Room(u)
              /\ conn' = [conn EXCEPT ![u] = Stamped(new)]
           \/ /\ ~cnx[k].found /\ conn[u].status # "absent"
              /\ UNCHANGED conn
    /\ cnx' = [cnx EXCEPT ![k] = Idle]
    /\ UNCHANGED <<accounts, assoc, signin, stream>>

ConnectAbandon(k) ==
    /\ cnx[k].pc # "idle"
    /\ cnx' = [cnx EXCEPT ![k] = Idle]
    /\ UNCHANGED <<accounts, conn, assoc, signin, stream>>
-----------------------------------------------------------------------------
(* verify_challenge: wallet sign-in finds or creates the wallet's user,    *)
(* then makes sure of its auth method, in separate statements.             *)

SignInFind(q, w) ==
    /\ signin[q].pc = "idle"
    /\ \/ \E u \in users :
          /\ wallet[u] = w
          /\ signin' = [signin EXCEPT ![q] = [pc |-> "method", user |-> u, wallet |-> w,
                                              found |-> TRUE]]
       \/ /\ \A u \in users : wallet[u] # w
          /\ signin' = [signin EXCEPT ![q] = [pc |-> "insert", user |-> None,
                                              wallet |-> w, found |-> FALSE]]
    /\ UNCHANGED <<accounts, conn, assoc, cnx, stream>>

\* Mutation: a user is created without the unique index on the wallet.
WalletFree_NoIndex(w) == TRUE

\* The unique index on users.primary_wallet_address.
WalletFree(w) == \A u \in Users : wallet[u] # w

SignInInsert(q, u) ==
    /\ signin[q].pc = "insert"
    /\ LET w == signin[q].wallet
       IN  \/ /\ WalletFree(w)
              /\ u \notin users
              /\ users' = users \cup {u}
              /\ wallet' = [wallet EXCEPT ![u] = w]
              /\ signin' = [signin EXCEPT ![q].pc = "method", ![q].user = u]
           \/ /\ ~WalletFree(w)
              /\ signin' = [signin EXCEPT ![q] = Idle]
              /\ UNCHANGED <<users, wallet>>
    /\ UNCHANGED <<method, chal, conn, assoc, cnx, stream>>

\* INSERT ... ON CONFLICT DO NOTHING.
SignInMethod(q) ==
    /\ signin[q].pc = "method"
    /\ method' = [method EXCEPT ![signin[q].wallet] = IF @ = None THEN signin[q].user ELSE @]
    /\ signin' = [signin EXCEPT ![q] = Idle]
    /\ UNCHANGED <<users, wallet, chal, conn, assoc, cnx, stream>>

SignInAbandon(q) ==
    /\ signin[q].pc # "idle"
    /\ signin' = [signin EXCEPT ![q] = Idle]
    /\ UNCHANGED <<accounts, conn, assoc, cnx, stream>>
-----------------------------------------------------------------------------
(* The supervisor.  A pass lists the active connections, aborts the        *)
(* workers of the others, then takes the listed rows one by one.           *)

SupList ==
    /\ sup.pc = "idle"
    /\ LET active == {u \in Users : conn[u].status = "active"}
       IN  /\ sup' = [IdleSup EXCEPT !.pc = "rows",
                        !.rows = [u \in Users |-> IF u \in active THEN conn[u] ELSE NoRow]]
           /\ worker' = [u \in Users |-> IF u \in active THEN worker[u] ELSE None]
    /\ UNCHANGED <<accounts, conn, requests>>

Serves(u, version) == worker[u] # None /\ worker[u].version = version

\* The row of u is still to be taken in this pass.
Listed(u) == sup.pc = "rows" /\ sup.rows[u] # NoRow

\* The row is what its worker was started for.
SupKeep(u) ==
    /\ Listed(u)
    /\ Serves(u, sup.rows[u].version)
    /\ sup' = [sup EXCEPT !.rows[u] = NoRow]
    /\ UNCHANGED <<accounts, conn, requests, worker>>

\* The old worker is aborted, but the user cannot be read: on to the next row.
SupSkip(u) ==
    /\ Listed(u)
    /\ ~Serves(u, sup.rows[u].version)
    /\ worker' = [worker EXCEPT ![u] = None]
    /\ sup' = [sup EXCEPT !.rows[u] = NoRow]
    /\ UNCHANGED <<accounts, conn, requests>>

\* The old worker is aborted and a new one started for the row of the snapshot.
SupSpawn(u) ==
    /\ Listed(u)
    /\ LET listed == sup.rows[u]
       IN  /\ ~Serves(u, listed.version)
           /\ Verdict(listed, wallet[u]) = "active"
           /\ worker' = [worker EXCEPT ![u] = [account |-> listed.account,
                                               version |-> listed.version]]
    /\ sup' = [sup EXCEPT !.rows[u] = NoRow]
    /\ UNCHANGED <<accounts, conn, requests>>

SupReject(u) ==
    /\ Listed(u)
    /\ LET listed == sup.rows[u]
           verdict == Verdict(listed, wallet[u])
       IN  /\ ~Serves(u, listed.version)
           /\ verdict # "active"
           /\ sup' = [sup EXCEPT !.pc = "mark", !.rows[u] = NoRow, !.cur = u,
                                 !.version = listed.version, !.verdict = verdict]
    /\ worker' = [worker EXCEPT ![u] = None]
    /\ UNCHANGED <<accounts, conn, requests>>

\* Mutation: the row is marked whatever was written since the snapshot.
Unwritten_Ignored(u) == conn[u].status = "active"

\* The filter of mark_eligibility_failure: still the row of the snapshot.
Unwritten(u) == conn[u].status = "active" /\ conn[u].version = sup.version

SupMark ==
    /\ sup.pc = "mark"
    /\ \/ /\ Unwritten(sup.cur)
          /\ Room(sup.cur)
          /\ conn' = [conn EXCEPT ![sup.cur] = Stamped([@ EXCEPT !.status = sup.verdict])]
       \/ /\ ~Unwritten(sup.cur)
          /\ UNCHANGED conn
    /\ sup' = [sup EXCEPT !.pc = "rows", !.cur = None, !.version = 0, !.verdict = None]
    /\ UNCHANGED <<accounts, requests, worker>>

\* Mutation: a failed UPDATE ends the supervisor's task.
SupMarkFails_Ends ==
    /\ sup.pc = "mark"
    /\ sup' = [IdleSup EXCEPT !.pc = "ended"]
    /\ UNCHANGED <<accounts, conn, requests, worker>>

\* The UPDATE fails: logged, on to the next row.
SupMarkFails ==
    /\ sup.pc = "mark"
    /\ sup' = [sup EXCEPT !.pc = "rows", !.cur = None, !.version = 0, !.verdict = None]
    /\ UNCHANGED <<accounts, conn, requests, worker>>

\* The pass is over; the next one starts five seconds later.
SupSleep ==
    /\ sup.pc = "rows" /\ \A u \in Users : ~Listed(u)
    /\ sup' = IdleSup
    /\ UNCHANGED <<accounts, conn, requests, worker>>

\* A worker's task ends (it panicked); its handle is finished.
WorkerEnds(u) ==
    /\ worker[u] # None
    /\ worker' = [worker EXCEPT ![u] = None]
    /\ UNCHANGED <<accounts, conn, requests, sup>>
-----------------------------------------------------------------------------
Associate(a) ==
    (\E c \in Challenges : AssociateRead(a, c)) \/ AssociateCommit(a) \/ AssociateAbandon(a)

Connect(k) ==
    \/ \E u \in Users, w \in Wallets : ConnectFind(k, u, w)
    \/ ConnectWrite(k) \/ ConnectAbandon(k)

SignIn(q) ==
    \/ \E w \in Wallets : SignInFind(q, w)
    \/ \E u \in Users : SignInInsert(q, u)
    \/ SignInMethod(q) \/ SignInAbandon(q)

SupRow(u) == SupKeep(u) \/ SupSkip(u) \/ SupSpawn(u) \/ SupReject(u)

Supervise ==
    SupList \/ (\E u \in Users : SupRow(u)) \/ SupMark \/ SupMarkFails \/ SupSleep

Next ==
    \/ \E c \in Challenges :
        ExpireChallenge(c) \/ \E u \in Users, w \in Wallets : CreateChallenge(c, u, w)
    \/ \E a \in Associations : Associate(a)
    \/ \E k \in Connects : Connect(k)
    \/ \E q \in SignIns : SignIn(q)
    \/ Supervise
    \/ \E u \in Users : WorkerEnds(u)

Spec == Init /\ [][Next]_vars

\* The supervisor's task is polled for ever.  The database may fail a query now and
\* then, but not every time: strong fairness on the outcomes that need it.
LiveSpec ==
    /\ Spec
    /\ WF_vars(Supervise)
    /\ SF_vars(SupMark)
    /\ \A u \in Users : SF_vars(SupSpawn(u)) /\ SF_vars(SupReject(u))
-----------------------------------------------------------------------------
(* Correctness.                                                            *)

Rows == [status : {"active"} \cup Failures, account : Wallets, config : Configs,
         version : 0 .. MaxVersion]

AccountTypeOK ==
    /\ users \subseteq Users
    /\ wallet \in [Users -> Wallets \cup {None}]
    /\ method \in [Wallets -> Users \cup {None}]

ChalTypeOK ==
    /\ chal \in [Challenges -> [state : {"none", "open", "used", "expired"},
                                user : Users \cup {None}, wallet : Wallets \cup {None}]]
    /\ \A c \in Challenges : chal[c].state # "none" =>
            chal[c].user \in users /\ chal[c].wallet \in Wallets

ConnTypeOK ==
    /\ conn \in [Users -> Rows \cup {NoRow}]
    /\ \A u \in Users \ users : conn[u] = NoRow

AssocTypeOK ==
    /\ assoc \in [Associations -> Challenges \cup {None}]
    /\ \A a \in Associations : assoc[a] # None => chal[assoc[a]].state # "none"

CnxTypeOK ==
    /\ cnx \in [Connects -> [pc : {"idle", "write"}, user : Users \cup {None},
                             wallet : Wallets \cup {None}, found : BOOLEAN]]
    /\ \A k \in Connects : cnx[k].pc = "write" =>
            cnx[k].user \in users /\ cnx[k].wallet \in Wallets

SignInTypeOK ==
    /\ signin \in [SignIns -> [pc : {"idle", "insert", "method"}, user : Users \cup {None},
                               wallet : Wallets \cup {None}, found : BOOLEAN]]
    /\ \A q \in SignIns :
        /\ signin[q].pc # "idle" => signin[q].wallet \in Wallets
        /\ signin[q].pc = "method" => signin[q].user \in users

StreamTypeOK ==
    /\ sup \in [pc : {"idle", "rows", "mark"}, rows : [Users -> Rows \cup {NoRow}],
                cur : Users \cup {None}, version : 0 .. MaxVersion,
                verdict : Failures \cup {None}]
    /\ sup.pc = "mark" => sup.cur \in users /\ sup.verdict \in Failures
    /\ \A u \in Users \ users : sup.rows[u] = NoRow
    /\ worker \in [Users -> [account : Wallets, version : 0 .. MaxVersion] \cup {None}]

\* The shape of every row, request and worker; only users that exist have any.
TypeOK ==
    /\ AccountTypeOK /\ ChalTypeOK /\ ConnTypeOK
    /\ AssocTypeOK /\ CnxTypeOK /\ SignInTypeOK /\ StreamTypeOK

\* A worker started for what the row still is serves an active connection of the
\* wallet the user has now: a worker that could show one account's events to the
\* holder of another is always recognisable as out of date, and is restarted.
WorkerIsEligible ==
    \A u \in Users : Serves(u, conn[u].version) =>
        /\ conn[u].status = "active"
        /\ conn[u].account = worker[u].account
        /\ conn[u].account = wallet[u]

\* A verdict on the stored credentials is about the credentials stored now: a
\* supervisor's pass that overlaps a reconnection does not condemn the new ones.
VerdictIsCurrent ==
    \A u \in Users :
        /\ conn[u].status = "credentials" => conn[u].config = "unreadable"
        /\ conn[u].status = "unsupported" => conn[u].config = "unsupported"

\* A wallet is the primary wallet of one user, whatever sign-ins and associations
\* of it race.
OneOwner ==
    \A u, v \in Users : wallet[u] = wallet[v] /\ u # v => wallet[u] = None

\* A user's wallet is replaced only by consuming a challenge for that user and that
\* wallet that was neither used nor expired: a challenge works once.
AssociationIsProven ==
    [][\A u \in users : wallet'[u] # wallet[u] =>
         \E c \in Challenges :
            /\ chal[c] = [state |-> "open", user |-> u, wallet |-> wallet'[u]]
            /\ chal'[c].state = "used"]_vars

Eligible(u) == conn[u].status = "active" /\ Verdict(conn[u], wallet[u]) = "active"

\* A connection that stays eligible is served again and again by a worker of its own
\* version, although passes work on snapshots, queries fail and workers die.
EligibleIsServed ==
    \A u \in Users : <>[]Eligible(u) => []<>Serves(u, conn[u].version)

\* A connection that no longer matches its user's wallet does not stay active: the
\* association marks it, or the supervisor does.
MismatchIsNoticed ==
    \A u \in Users :
        (conn[u].status = "active" /\ wallet[u] # conn[u].account /\ Room(u))
            ~> (conn[u].status # "active" \/ wallet[u] = conn[u].account \/ ~Room(u))

\* What the account warning says of a connection in wallet_missing, under the title
\* "Connect a wallet": it "needs a connected wallet before private updates can
\* resume".  Connecting the wallet of the connection then takes it out of that
\* status (violated: only wallet_mismatch is restored).
ConnectingWalletResolvesMissing ==
    [][\A u \in Users :
         (conn[u].status = "wallet_missing" /\ wallet[u] # wallet'[u] /\ wallet'[u] = conn[u].account)
            => conn'[u].status # "wallet_missing"]_vars
=============================================================================
