------------------------------- MODULE Accounts -------------------------------
(***************************************************************************)
(* Accounts, the links mailed to them and their sessions                   *)
(* (src/src/auth/service.rs): signup, login, verify_email,                 *)
(* forgot_password, reset_password, update_email, update_password, logout, *)
(* logout_all, and wallet sign-in from its challenge to its session.       *)
(*                                                                         *)
(* A request is a process; one action is one statement, or one database    *)
(* transaction, and an UPDATE writes the columns it sets of the row with   *)
(* the id that was read, whatever the row holds by then.  A login between  *)
(* the statements of a transaction is one that overlaps it.  Time is left  *)
(* out: a link or a session past its time is one no request succeeds with  *)
(* any more, which is among the behaviours here.                           *)
(*                                                                         *)
(* Passwords are counted: the epoch of an account is the number of times   *)
(* its password was set, zero for none.  Usernames are left out, and so    *)
(* are the email rows of auth_methods, which nothing reads: of the         *)
(* statement that writes them only that it may fail.  How a wallet's user  *)
(* is found or made, and moves to another wallet, is in VenueConnections.  *)
(***************************************************************************)
EXTENDS Naturals, FiniteSets

CONSTANTS
    Users,          \* users rows, existing or to be created
    Wallets,        \* those among them that a wallet signs in to
    Emails,         \* addresses, normalised
    Tokens,         \* verification and reset tokens, and nonces of challenges
    Sessions,       \* user_sessions rows
    Callers,        \* concurrent requests
    MaxEpoch,       \* bound on the passwords of an account
    None            \* SQL NULL

ASSUME WalletsAssumption == Wallets \subseteq Users
ASSUME MaxEpochAssumption == MaxEpoch \in Nat
ASSUME NoneAssumption == None \notin Users \cup Emails \cup Tokens \cup Sessions

VARIABLES
    row,            \* users
    link,           \* what each token is for and whom it was given to
    session,        \* user_sessions
    challenge,      \* the service's map of wallet challenges, in memory
    call,           \* locals of the requests
    proven,         \* the address the last link came back from since an account has its own
    uses,           \* how many times each token has taken effect
    shared,         \* tokens that two requests held at once
    strayed         \* accounts that changed address under an outstanding link

tables == <<row, link, session>>
ghosts == <<proven, uses, shared, strayed>>
vars == <<tables, challenge, call, ghosts>>
-----------------------------------------------------------------------------
NoAccount == [known |-> FALSE, email |-> None, verified |-> FALSE,
              verification |-> None, reset |-> None, epoch |-> 0]

Unused == [kind |-> "none", to |-> None, sent |-> FALSE]

Idle == [stage |-> "idle", op |-> "none", user |-> None, email |-> None,
         token |-> None, session |-> None, epoch |-> 0]

\* Users of wallets that have signed in before.
Init ==
    /\ \E old \in SUBSET Wallets :
         row = [u \in Users |-> [NoAccount EXCEPT !.known = u \in old]]
    /\ link = [t \in Tokens |-> Unused]
    /\ session = [s \in Sessions |-> None]
    /\ challenge = [w \in Wallets |-> None]
    /\ call = [c \in Callers |-> Idle]
    /\ proven = [u \in Users |-> None]
    /\ uses = [t \in Tokens |-> 0]
    /\ shared = {}
    /\ strayed = {}

At(c, stage) == call[c].stage = stage
Finish(c) == call' = [call EXCEPT ![c] = Idle]
Go(c, stage) == call' = [call EXCEPT ![c].stage = stage]

\* All that is left to do is to mail the token.
GoWith(c, stage, t) == call' = [call EXCEPT ![c] = [Idle EXCEPT !.stage = stage, !.token = t]]

\* The request goes on to issue a session to the account it has read.
SignIn(c, u, epoch) ==
    call' = [call EXCEPT ![c] = [Idle EXCEPT !.stage = "session", !.user = u, !.epoch = epoch]]

\* A new token, for an address or for a wallet.
Mint(t, kind, to) ==
    /\ link[t] = Unused
    /\ link' = [link EXCEPT ![t] = [Unused EXCEPT !.kind = kind, !.to = to]]

\* Whoever follows a link has been sent it.
Usable(t) == link[t].sent

\* The unique index on users.email: e is nobody's, or only the account's own.
EmailFree(e) == \A u \in Users : row[u].email # e
EmailFreeFor(u, e) == \A v \in Users \ {u} : row[v].email # e

\* DELETE FROM user_sessions WHERE user_id = u
WithoutSessions(u) ==
    [s \in Sessions |-> IF session[s] # None /\ session[s].user = u THEN None ELSE session[s]]

\* Two requests that have found their account by the same token.
Presented(c, t) ==
    shared' = IF \E d \in Callers \ {c} : call[d].token = t /\ call[d].stage \in {"verify", "reset"}
                THEN shared \cup {t} ELSE shared

Spent(t) == uses' = [uses EXCEPT ![t] = @ + 1]
-----------------------------------------------------------------------------
(* signup: the address is looked up, the row inserted, the auth method     *)
(* written and the mail sent.                                              *)

SignupLookup(c, e) ==
    /\ At(c, "idle")
    /\ EmailFree(e)
    /\ call' = [call EXCEPT ![c] = [Idle EXCEPT !.stage = "insert", !.email = e]]
    /\ UNCHANGED <<tables, challenge, ghosts>>

SignupInsert(c, u, t) ==
    LET e == call[c].email IN
    /\ At(c, "insert")
    /\ \/ /\ EmailFree(e)
          /\ ~row[u].known
          /\ u \notin Wallets
          /\ Mint(t, "verify", e)
          /\ row' = [row EXCEPT ![u] = [NoAccount EXCEPT !.known = TRUE, !.email = e,
                                            !.verification = t, !.epoch = 1]]
          /\ GoWith(c, "method", t)
       \/ /\ ~EmailFree(e)
          /\ Finish(c)
          /\ UNCHANGED <<row, link>>
    /\ UNCHANGED <<session, challenge, ghosts>>

\* ensure_email_auth_method, or sync_email_auth_method
WriteMethod(c) ==
    /\ At(c, "method")
    /\ Go(c, "mail")
    /\ UNCHANGED <<tables, challenge, ghosts>>

\* send_verification_email or send_password_reset_email
SendMail(c) ==
    /\ At(c, "mail")
    /\ link' = [link EXCEPT ![call[c].token].sent = TRUE]
    /\ Finish(c)
    /\ UNCHANGED <<row, session, challenge, ghosts>>
-----------------------------------------------------------------------------
(* login, and the session that it, a link or a wallet ends with.           *)

LoginRead(c, u) ==
    /\ At(c, "idle")
    /\ row[u].email # None /\ row[u].verified
    /\ row[u].epoch > 0
    /\ SignIn(c, u, row[u].epoch)
    /\ UNCHANGED <<tables, challenge, ghosts>>

\* create_session; it is late if the password was set since the account was read.
IssueSession(c, s) ==
    LET u == call[c].user IN
    /\ At(c, "session")
    /\ session[s] = None
    /\ session' = [session EXCEPT ![s] = [user |-> u, epoch |-> call[c].epoch,
                                          late |-> call[c].epoch # row[u].epoch]]
    /\ Finish(c)
    /\ UNCHANGED <<row, link, challenge, ghosts>>
-----------------------------------------------------------------------------
(* verify_email.                                                           *)

VerifyRead(c, u, t) ==
    /\ At(c, "idle")
    /\ row[u].verification = t
    /\ Usable(t)
    /\ Presented(c, t)
    /\ call' = [call EXCEPT ![c] = [Idle EXCEPT !.stage = "verify",
                                                !.user = u, !.token = t]]
    /\ UNCHANGED <<tables, challenge, proven, uses, strayed>>

\* Mutation: the link stays good until it expires.
VerifyWrite_KeepsLink(c) ==
    LET u == call[c].user IN
    /\ At(c, "verify")
    /\ row' = [row EXCEPT ![u].verified = TRUE]
    /\ proven' = [proven EXCEPT ![u] = link[call[c].token].to]
    /\ Spent(call[c].token)
    /\ SignIn(c, u, row[u].epoch)
    /\ UNCHANGED <<link, session, challenge, shared, strayed>>

VerifyWrite(c) ==
    LET u == call[c].user IN
    /\ At(c, "verify")
    /\ row' = [row EXCEPT ![u].verified = TRUE, ![u].verification = None]
    /\ proven' = [proven EXCEPT ![u] = link[call[c].token].to]
    /\ Spent(call[c].token)
    /\ SignIn(c, u, row[u].epoch)
    /\ UNCHANGED <<link, session, challenge, shared, strayed>>
-----------------------------------------------------------------------------
(* forgot_password and reset_password.                                     *)

ForgotRead(c, u) ==
    /\ At(c, "idle")
    /\ row[u].email # None
    /\ row[u].epoch > 0
    /\ call' = [call EXCEPT ![c] = [Idle EXCEPT !.stage = "forgot",
                                                !.user = u, !.email = row[u].email]]
    /\ UNCHANGED <<tables, challenge, ghosts>>

\* Mutation: the token goes where that of a verification is.
ForgotWrite_Column(c, t) ==
    /\ At(c, "forgot")
    /\ Mint(t, "reset", call[c].email)
    /\ row' = [row EXCEPT ![call[c].user].verification = t]
    /\ GoWith(c, "mail", t)
    /\ UNCHANGED <<session, challenge, ghosts>>

\* A newer reset token takes the place of an older one.
ForgotWrite(c, t) ==
    /\ At(c, "forgot")
    /\ Mint(t, "reset", call[c].email)
    /\ row' = [row EXCEPT ![call[c].user].reset = t]
    /\ GoWith(c, "mail", t)
    /\ UNCHANGED <<session, challenge, ghosts>>

ResetRead(c, u, t) ==
    /\ At(c, "idle")
    /\ row[u].reset = t
    /\ Usable(t)
    /\ Presented(c, t)
    /\ call' = [call EXCEPT ![c] = [Idle EXCEPT !.stage = "reset",
                                                !.user = u, !.token = t]]
    /\ UNCHANGED <<tables, challenge, proven, uses, strayed>>

\* The transaction: the new password, and no session of the account is left.
\* That the link came back counts as a proof of the address, too.
ResetWrite(c) ==
    LET u == call[c].user IN
    /\ At(c, "reset")
    /\ row[u].epoch < MaxEpoch
    /\ row' = [row EXCEPT ![u].epoch = @ + 1, ![u].reset = None, ![u].verified = TRUE]
    /\ session' = WithoutSessions(u)
    /\ proven' = [proven EXCEPT ![u] = link[call[c].token].to]
    /\ Spent(call[c].token)
    /\ SignIn(c, u, row[u].epoch + 1)
    /\ UNCHANGED <<link, challenge, shared, strayed>>
-----------------------------------------------------------------------------
(* Requests with an access token.                                          *)

Operations == {"email", "password", "logout", "logout_all"}

\* session: the row of the token, if it has not expired.
Authorize(c, s, op, e) ==
    /\ At(c, "idle")
    /\ session[s] # None
    /\ call' = [call EXCEPT ![c] = [Idle EXCEPT !.stage = "user", !.op = op, !.email = e,
                                        !.session = s, !.user = session[s].user]]
    /\ UNCHANGED <<tables, challenge, ghosts>>

Doing(c, op, stage) == call[c].op = op /\ call[c].stage = stage

\* update_email, given the current password if there is one.
EmailRead(c) ==
    /\ Doing(c, "email", "user")
    /\ IF row[call[c].user].email = call[c].email THEN Finish(c) ELSE Go(c, "lookup")
    /\ UNCHANGED <<tables, challenge, ghosts>>

EmailLookup(c) ==
    /\ At(c, "lookup")
    /\ IF EmailFreeFor(call[c].user, call[c].email) THEN Go(c, "change") ELSE Finish(c)
    /\ UNCHANGED <<tables, challenge, ghosts>>

\* A link to the address that the account has can still take effect.
Outstanding(c, u) ==
    \/ row[u].reset # None
    \/ \E d \in Callers \ {c} :
          call[d].user = u /\ call[d].stage \in {"verify", "forgot", "reset"}

Strays(c, u, e) == row[u].email # e /\ Outstanding(c, u)

\* Mutation: a verification that is under way goes on.
EmailWrite_KeepsLink(c, t) ==
    LET u == call[c].user  e == call[c].email IN
    /\ At(c, "change")
    /\ \/ /\ EmailFreeFor(u, e)
          /\ row[u].verification = t \/ row[u].verification = None
          /\ IF row[u].verification = t THEN UNCHANGED link ELSE Mint(t, "verify", e)
          /\ row' = [row EXCEPT ![u].email = e, ![u].verified = FALSE, ![u].verification = t]
          /\ proven' = [proven EXCEPT ![u] = None]
          /\ strayed' = IF Strays(c, u, e) THEN strayed \cup {u} ELSE strayed
          /\ GoWith(c, "method", t)
       \/ /\ ~EmailFreeFor(u, e)
          /\ Finish(c)
          /\ UNCHANGED <<row, link, proven, strayed>>
    /\ UNCHANGED <<session, challenge, uses, shared>>

\* It writes although an update that overlaps has set the same address meanwhile.
EmailWrite(c, t) ==
    LET u == call[c].user  e == call[c].email IN
    /\ At(c, "change")
    /\ \/ /\ EmailFreeFor(u, e)
          /\ Mint(t, "verify", e)
          /\ row' = [row EXCEPT ![u].email = e, ![u].verified = FALSE, ![u].verification = t]
          /\ proven' = [proven EXCEPT ![u] = None]
          /\ strayed' = IF Strays(c, u, e) THEN strayed \cup {u} ELSE strayed
          /\ GoWith(c, "method", t)
       \/ /\ ~EmailFreeFor(u, e)
          /\ Finish(c)
          /\ UNCHANGED <<row, link, proven, strayed>>
    /\ UNCHANGED <<session, challenge, uses, shared>>

\* update_password: the current password is checked against the row read here.
PasswordRead(c) ==
    /\ Doing(c, "password", "user")
    /\ IF row[call[c].user].epoch > 0 THEN Go(c, "password") ELSE Finish(c)
    /\ UNCHANGED <<tables, challenge, ghosts>>

\* Mutation: no session is revoked.
PasswordWrite_KeepsSessions(c) ==
    LET u == call[c].user IN
    /\ At(c, "password")
    /\ row[u].epoch < MaxEpoch
    /\ row' = [row EXCEPT ![u].epoch = @ + 1]
    /\ Finish(c)
    /\ UNCHANGED <<link, session, challenge, ghosts>>

\* The transaction.
PasswordWrite(c) ==
    LET u == call[c].user IN
    /\ At(c, "password")
    /\ row[u].epoch < MaxEpoch
    /\ row' = [row EXCEPT ![u].epoch = @ + 1]
    /\ session' = WithoutSessions(u)
    /\ Finish(c)
    /\ UNCHANGED <<link, challenge, ghosts>>

Logout(c) ==
    /\ Doing(c, "logout", "user")
    /\ session' = [session EXCEPT ![call[c].session] = None]
    /\ Finish(c)
    /\ UNCHANGED <<row, link, challenge, ghosts>>

\* revoke_user_sessions
LogoutAll(c) ==
    /\ Doing(c, "logout_all", "user")
    /\ session' = WithoutSessions(call[c].user)
    /\ Finish(c)
    /\ UNCHANGED <<row, link, challenge, ghosts>>
-----------------------------------------------------------------------------
(* Wallet sign-in.                                                         *)

\* create_challenge: a wallet has one challenge, the newest.
CreateChallenge(w, t) ==
    /\ link[t] = Unused
    /\ link' = [link EXCEPT ![t] = [Unused EXCEPT !.kind = "nonce", !.to = w, !.sent = TRUE]]
    /\ challenge' = [challenge EXCEPT ![w] = t]
    /\ UNCHANGED <<row, session, call, ghosts>>

\* verify_challenge: the challenge is taken out under the lock before it is
\* compared with what was signed.
VerifyChallenge(c, w, t) ==
    /\ At(c, "idle")
    /\ link[t].kind = "nonce" /\ link[t].to = w
    /\ challenge[w] # None
    /\ challenge' = [challenge EXCEPT ![w] = None]
    /\ \/ /\ challenge[w] = t
          /\ Spent(t)
          /\ row' = [row EXCEPT ![w].known = TRUE]
          /\ SignIn(c, w, row[w].epoch)
       \* It has expired, or the signature is of another one.
       \/ UNCHANGED <<uses, row, call>>
    /\ UNCHANGED <<link, session, proven, shared, strayed>>
-----------------------------------------------------------------------------
\* A statement or the mail fails, a password is wrong, or the caller is gone.
Abandon(c) ==
    /\ ~At(c, "idle")
    /\ Finish(c)
    /\ UNCHANGED <<tables, challenge, ghosts>>

\* The process ends and starts again.
Restart ==
    /\ challenge' = [w \in Wallets |-> None]
    /\ call' = [c \in Callers |-> Idle]
    /\ UNCHANGED <<tables, ghosts>>

Next ==
    \/ \E c \in Callers :
        \/ \E e \in Emails : SignupLookup(c, e)
        \/ \E u \in Users, t \in Tokens :
            SignupInsert(c, u, t) \/ VerifyRead(c, u, t) \/ ResetRead(c, u, t)
        \/ \E u \in Users : LoginRead(c, u) \/ ForgotRead(c, u)
        \/ \E t \in Tokens : ForgotWrite(c, t) \/ EmailWrite(c, t)
        \/ \E s \in Sessions :
            \/ IssueSession(c, s)
            \/ \E e \in Emails : Authorize(c, s, "email", e)
            \/ \E op \in Operations \ {"email"} : Authorize(c, s, op, None)
        \/ \E w \in Wallets, t \in Tokens : VerifyChallenge(c, w, t)
        \/ WriteMethod(c) \/ SendMail(c) \/ VerifyWrite(c) \/ ResetWrite(c)
        \/ EmailRead(c) \/ EmailLookup(c) \/ PasswordRead(c) \/ PasswordWrite(c)
        \/ Logout(c) \/ LogoutAll(c) \/ Abandon(c)
    \/ \E w \in Wallets, t \in Tokens : CreateChallenge(w, t)
    \/ Restart

Spec == Init /\ [][Next]_vars
-----------------------------------------------------------------------------
(* Properties.                                                             *)

Accounts == [known : BOOLEAN, email : Emails \cup {None}, verified : BOOLEAN,
             verification : Tokens \cup {None}, reset : Tokens \cup {None},
             epoch : 0..(MaxEpoch + 1)]

Links == [kind : {"none", "verify", "reset", "nonce"}, to : Emails \cup Wallets \cup {None},
          sent : BOOLEAN]

Grants == [user : Users, epoch : Nat, late : BOOLEAN]

Calls == [stage : {"idle", "insert", "method", "mail", "session", "verify", "forgot", "reset",
                   "user", "lookup", "change", "password"},
          op : {"none"} \cup Operations,
          user : Users \cup {None}, email : Emails \cup {None}, token : Tokens \cup {None},
          session : Sessions \cup {None}, epoch : Nat]

(* Rows, links and requests are of their types, and each token is in the   *)
(* column of its kind: what forgot_password stores is never taken for a    *)
(* verification, nor the other way round.                                  *)
TypeOK ==
    /\ row \in [Users -> Accounts]
    /\ link \in [Tokens -> Links]
    /\ session \in [Sessions -> Grants \cup {None}]
    /\ challenge \in [Wallets -> Tokens \cup {None}]
    /\ call \in [Callers -> Calls]
    /\ proven \in [Users -> Emails \cup {None}]
    /\ uses \in [Tokens -> Nat]
    /\ shared \subseteq Tokens
    /\ strayed \subseteq Users
    /\ \A u \in Users :
        /\ row[u].verification # None => link[row[u].verification].kind = "verify"
        /\ row[u].reset # None => link[row[u].reset].kind = "reset"

(* A verified address has been proven: since the account has it, a link    *)
(* that was mailed to it has come back - unless the account changed its    *)
(* address while a reset link to the old one was stored, or a request that *)
(* concerned the old one was under way (verify_email and reset_password    *)
(* mark the account by its id, whatever its address is by then).           *)
VerifiedIsProven ==
    \A u \in Users \ strayed : row[u].verified => proven[u] = row[u].email

(* What is given out once works once: a link that was mailed, unless two   *)
(* requests with it overlap, and the signature of a wallet's challenge     *)
(* even then (verify_email, reset_password, verify_challenge).             *)
WorksOnce ==
    \A t \in Tokens :
        /\ t \notin shared => uses[t] <= 1
        /\ link[t].kind = "nonce" => uses[t] <= 1

(* After a password is set there is no session from before it: every       *)
(* session there is was signed in to with the password the account has     *)
(* now, or by a sign-in that overlapped the change (reset_password:        *)
(* "prior sessions revoked"; update_password: "all sessions revoked").     *)
SessionsAreCurrent ==
    \A s \in Sessions : session[s] # None =>
        session[s].late \/ session[s].epoch = row[session[s].user].epoch
=============================================================================
