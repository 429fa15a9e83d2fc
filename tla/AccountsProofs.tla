---------------------------- MODULE AccountsProofs ----------------------------
(* What the requests of the auth service keep true, for any number of      *)
(* users, requests, sessions and tokens.  Four invariants, each inductive  *)
(* together with the ones before it: the types (Typed), what is there for  *)
(* a request or a session to be about (Alive), whose address a link proves *)
(* (Mailed), and where a token may still be found (Held).                  *)
EXTENDS Accounts, TLAPS

\* What a request holds at each stage.
Equipped(k) ==
    /\ k.stage \in {"verify", "forgot", "reset", "session", "user", "lookup", "change",
                    "password"} => k.user \in Users
    /\ k.stage \in {"insert", "forgot", "lookup", "change"} \/ k.op = "email"
         => k.email \in Emails
    /\ k.stage = "verify" => k.token \in Tokens /\ link[k.token].kind = "verify"
    /\ k.stage = "reset" => k.token \in Tokens /\ link[k.token].kind = "reset"

Addressed(t) == link[t].kind \in {"verify", "reset"} => link[t].to \in Emails

Column(u) ==
    /\ row[u].verification # None => link[row[u].verification].kind = "verify"
    /\ row[u].reset # None => link[row[u].reset].kind = "reset"

\* TypeOK, but for the requests; a link that is mailed is to an address.
TypedTables ==
    /\ row \in [Users -> Accounts]
    /\ link \in [Tokens -> Links]
    /\ session \in [Sessions -> Grants \cup {None}]
    /\ challenge \in [Wallets -> Tokens \cup {None}]
    /\ proven \in [Users -> Emails \cup {None}]
    /\ uses \in [Tokens -> Nat]
    /\ shared \subseteq Tokens
    /\ strayed \subseteq Users
    /\ \A u \in Users : Column(u)
    /\ \A t \in Tokens : Addressed(t)

TypedCalls ==
    /\ call \in [Callers -> Calls]
    /\ \A c \in Callers : Equipped(call[c])

Typed == TypedTables /\ TypedCalls

\* A token keeps its kind and its owner from when it is made.
Kept(t) == link[t].kind # "none" => link'[t].kind = link[t].kind /\ link'[t].to = link[t].to

\* Nothing is about an account that does not exist yet.
Alive ==
    /\ \A u \in Users : row[u].known \/ row[u] = NoAccount
    /\ \A c \in Callers : call[c].user # None => row[call[c].user].known
    /\ \A s \in Sessions : session[s] # None => row[session[s].user].known
    /\ SessionsAreCurrent

\* Of the accounts that did not stray, the links are to the address they have.
MailedCall(k) ==
    k.user \notin strayed =>
        /\ k.stage \in {"verify", "reset"} => link[k.token].to = row[k.user].email
        /\ k.stage = "forgot" => k.email = row[k.user].email

MailedRow(u) ==
    u \notin strayed =>
        /\ row[u].verification # None => link[row[u].verification].to = row[u].email
        /\ row[u].reset # None => link[row[u].reset].to = row[u].email
        /\ row[u].verified => proven[u] = row[u].email

Mailed ==
    /\ \A c \in Callers : MailedCall(call[c])
    /\ \A u \in Users : MailedRow(u)

\* Where a link can be found: in a row, or with a request that has read it.
Stored(u, t) == row[u].verification = t \/ row[u].reset = t
Holds(c, t) == call[c].stage \in {"verify", "reset"} /\ call[c].token = t

\* A token is found with one account; unless two requests have shared it, with
\* one request, and nowhere once it has taken effect.
HeldToken(t) ==
    /\ link[t].kind = "none" => uses[t] = 0
    /\ link[t].kind = "nonce" => uses[t] <= 1
    /\ \A u, v \in Users : Stored(u, t) /\ Stored(v, t) => u = v
    /\ \A c \in Callers, u \in Users : Holds(c, t) /\ Stored(u, t) => u = call[c].user
    /\ t \notin shared =>
        /\ uses[t] <= 1
        /\ \A c, d \in Callers : Holds(c, t) /\ Holds(d, t) => c = d
        /\ uses[t] = 1 => /\ \A u \in Users : ~Stored(u, t)
                          /\ \A c \in Callers : ~Holds(c, t)

HeldChallenge(w) ==
    LET t == challenge[w] IN
    t # None => link[t].kind = "nonce" /\ link[t].to = w /\ uses[t] = 0

Held ==
    /\ \A t \in Tokens : HeldToken(t)
    /\ \A w \in Wallets : HeldChallenge(w)
-----------------------------------------------------------------------------
(* Types.                                                                  *)

LEMMA MintTyped ==
    ASSUME TypedTables, NEW t \in Tokens, NEW kind \in {"verify", "reset"},
           NEW to \in Emails, Mint(t, kind, to)
    PROVE  /\ link[t].kind = "none"
           /\ link' \in [Tokens -> Links]
           /\ link'[t].kind = kind /\ link'[t].to = to
           /\ \A x \in Tokens \ {t} : link'[x] = link[x]
           /\ \A x \in Tokens : Kept(x) /\ Addressed(x)'
  <1> DEFINE new == [Unused EXCEPT !.kind = kind, !.to = to]
  <1>1. link[t] = Unused /\ link' = [link EXCEPT ![t] = new]
    BY DEF Mint
  <1>2. new \in Links /\ new.kind = kind /\ new.to = to
    BY DEF Unused, Links
  <1>3. link[t].kind = "none"
    BY <1>1 DEF Unused
  <1> HIDE DEF new
  <1>4. link \in [Tokens -> Links] /\ \A x \in Tokens : Addressed(x)
    BY DEF TypedTables
  <1>5. link' \in [Tokens -> Links] /\ link'[t] = new
        /\ \A x \in Tokens \ {t} : link'[x] = link[x]
    BY <1>1, <1>2, <1>4
  <1>6. \A x \in Tokens : Kept(x) /\ Addressed(x)'
    BY <1>2, <1>3, <1>4, <1>5 DEF Kept, Addressed
  <1> QED
    BY <1>2, <1>3, <1>5, <1>6

\* The tables after a step that leaves them alone.
LEMMA QuietTables ==
    ASSUME TypedTables, UNCHANGED <<tables, challenge, ghosts>>
    PROVE  TypedTables' /\ \A t \in Tokens : Kept(t)
  BY DEF TypedTables, tables, ghosts, Column, Addressed, Kept

\* A step of one account's row, in which a column keeps its token, loses it,
\* or has a new one of its kind.
LEMMA RowTyped ==
    ASSUME TypedTables, NEW u \in Users, NEW r \in Accounts, row' = [row EXCEPT ![u] = r],
           link' \in [Tokens -> Links], \A t \in Tokens : Kept(t),
           \/ r.verification \in {None, row[u].verification}
           \/ link'[r.verification].kind = "verify",
           \/ r.reset \in {None, row[u].reset}
           \/ link'[r.reset].kind = "reset"
    PROVE  /\ row' \in [Users -> Accounts] /\ row'[u] = r
           /\ \A v \in Users \ {u} : row'[v] = row[v]
           /\ \A v \in Users : Column(v)'
  <1>1. row \in [Users -> Accounts] /\ \A v \in Users : Column(v)
    BY DEF TypedTables
  <1>2. row' \in [Users -> Accounts] /\ row'[u] = r /\ \A v \in Users \ {u} : row'[v] = row[v]
    BY <1>1
  <1>3. ASSUME NEW v \in Users PROVE Column(v)'
    <2>1. row[v].verification \in Tokens \cup {None} /\ row[v].reset \in Tokens \cup {None}
      BY <1>1 DEF Accounts
    <2>2. /\ row[v].verification # None => link'[row[v].verification].kind = "verify"
          /\ row[v].reset # None => link'[row[v].reset].kind = "reset"
      BY <1>1, <2>1 DEF Column, Kept
    <2> QED
      BY <1>2, <2>2 DEF Column
  <1> QED
    BY <1>2, <1>3

\* The account is created with the token of its first link.
LEMMA SignupTables ==
    ASSUME Typed, NEW c \in Callers, NEW u \in Users, NEW t \in Tokens, SignupInsert(c, u, t)
    PROVE  TypedTables' /\ \A x \in Tokens : Kept(x)
  <1>1. TypedTables /\ call[c].email \in Emails
    BY DEF Typed, TypedCalls, Equipped, SignupInsert, At
  <1>2. UNCHANGED <<session, challenge, ghosts>>
    BY DEF SignupInsert
  <1>3. CASE UNCHANGED <<row, link>>
    BY <1>1, <1>2, <1>3, QuietTables DEF tables
  <1>4. CASE ~UNCHANGED <<row, link>>
    <2> DEFINE e == call[c].email
               r == [NoAccount EXCEPT !.known = TRUE, !.email = e, !.verification = t, !.epoch = 1]
    <2>1. Mint(t, "verify", e) /\ row' = [row EXCEPT ![u] = r]
      BY <1>4 DEF SignupInsert
    <2> HIDE DEF e
    <2>2. r \in Accounts /\ r.verification = t /\ r.reset = None
      <3>1. NoAccount \in Accounts /\ NoAccount.reset = None
        BY MaxEpochAssumption DEF NoAccount, Accounts
      <3>2. 1 \in 0..(MaxEpoch + 1) /\ e \in Emails
        BY <1>1, MaxEpochAssumption DEF e
      <3> QED
        BY <3>1, <3>2 DEF Accounts
    <2> HIDE DEF r
    <2> USE DEF e
    <2>3. /\ link' \in [Tokens -> Links] /\ link'[t].kind = "verify"
          /\ \A x \in Tokens : Kept(x) /\ Addressed(x)'
      BY <1>1, <2>1, MintTyped
    <2>4. row' \in [Users -> Accounts] /\ \A v \in Users : Column(v)'
      BY <1>1, <2>1, <2>2, <2>3, RowTyped
    <2> QED
      BY <1>1, <1>2, <2>3, <2>4 DEF TypedTables, ghosts
  <1> QED
    BY <1>3, <1>4

LEMMA ForgotTables ==
    ASSUME Typed, NEW c \in Callers, NEW t \in Tokens, ForgotWrite(c, t)
    PROVE  TypedTables' /\ \A x \in Tokens : Kept(x)
  <1> DEFINE u == call[c].user
             r == [row[u] EXCEPT !.reset = t]
  <1>1. TypedTables /\ call[c].email \in Emails /\ u \in Users
    BY DEF Typed, TypedCalls, Equipped, ForgotWrite, At
  <1>2. Mint(t, "reset", call[c].email) /\ row' = [row EXCEPT ![u] = r]
        /\ UNCHANGED <<session, challenge, ghosts>>
    BY DEF ForgotWrite
  <1>3. r \in Accounts /\ r.verification = row[u].verification /\ r.reset = t
    BY <1>1 DEF TypedTables, Accounts
  <1> HIDE DEF u, r
  <1>4. /\ link' \in [Tokens -> Links] /\ link'[t].kind = "reset"
        /\ \A x \in Tokens : Kept(x) /\ Addressed(x)'
    BY <1>1, <1>2, MintTyped
  <1>5. row' \in [Users -> Accounts] /\ \A v \in Users : Column(v)'
    BY <1>1, <1>2, <1>3, <1>4, RowTyped
  <1> QED
    BY <1>1, <1>2, <1>4, <1>5 DEF TypedTables, ghosts

LEMMA EmailTables ==
    ASSUME Typed, NEW c \in Callers, NEW t \in Tokens, EmailWrite(c, t)
    PROVE  TypedTables' /\ \A x \in Tokens : Kept(x)
  <1> DEFINE u == call[c].user
             e == call[c].email
  <1>1. TypedTables /\ e \in Emails /\ u \in Users
    BY DEF Typed, TypedCalls, Equipped, EmailWrite, At
  <1>2. UNCHANGED <<session, challenge, uses, shared>>
    BY DEF EmailWrite
  <1>3. CASE UNCHANGED <<row, link, proven, strayed>>
    BY <1>1, <1>2, <1>3, QuietTables DEF tables, ghosts
  <1>4. CASE ~UNCHANGED <<row, link, proven, strayed>>
    <2> DEFINE r == [row[u] EXCEPT !.email = e, !.verified = FALSE, !.verification = t]
    <2>1. /\ Mint(t, "verify", e) /\ row' = [row EXCEPT ![u] = r]
          /\ proven' = [proven EXCEPT ![u] = None] /\ strayed' \in {strayed, strayed \cup {u}}
      BY <1>4 DEF EmailWrite
    <2> HIDE DEF u, e
    <2>2. r \in Accounts /\ r.verification = t /\ r.reset = row[u].reset
      <3>1. row[u] \in Accounts
        BY <1>1 DEF TypedTables
      <3> QED
        BY <1>1, <3>1 DEF Accounts
    <2> HIDE DEF r
    <2>3. /\ link' \in [Tokens -> Links] /\ link'[t].kind = "verify"
          /\ \A x \in Tokens : Kept(x) /\ Addressed(x)'
      BY <1>1, <2>1, MintTyped
    <2>4. row' \in [Users -> Accounts] /\ \A v \in Users : Column(v)'
      BY <1>1, <2>1, <2>2, <2>3, RowTyped
    <2>5. proven' \in [Users -> Emails \cup {None}] /\ strayed' \subseteq Users
      BY <1>1, <2>1 DEF TypedTables
    <2> QED
      BY <1>1, <1>2, <2>3, <2>4, <2>5 DEF TypedTables
  <1> QED
    BY <1>3, <1>4

LEMMA MailTables ==
    ASSUME Typed, NEW c \in Callers, SendMail(c)
    PROVE  TypedTables' /\ \A x \in Tokens : Kept(x)
  <1> DEFINE k == call[c].token
  <1>1. TypedTables
    BY DEF Typed
  <1>2. link' = [link EXCEPT ![k].sent = TRUE] /\ UNCHANGED <<row, session, challenge, ghosts>>
    BY DEF SendMail
  <1> HIDE DEF k
  <1>3. link' \in [Tokens -> Links]
        /\ \A x \in Tokens : link'[x].kind = link[x].kind /\ link'[x].to = link[x].to
    BY <1>1, <1>2 DEF TypedTables, Links
  <1>4. \A u \in Users : row[u] \in Accounts /\ Column(u)
    BY <1>1 DEF TypedTables
  <1>5. \A u \in Users : Column(u)'
    BY <1>2, <1>3, <1>4 DEF Column, Accounts
  <1>6. \A x \in Tokens : Kept(x) /\ Addressed(x)'
    BY <1>1, <1>3 DEF TypedTables, Kept, Addressed
  <1> QED
    BY <1>1, <1>2, <1>3, <1>5, <1>6 DEF TypedTables, ghosts

\* The sessions of an account end, or one does, or one begins.
LEMMA SessionTables ==
    ASSUME TypedTables, UNCHANGED <<row, link, challenge, ghosts>>,
           session' \in [Sessions -> Grants \cup {None}]
    PROVE  TypedTables' /\ \A x \in Tokens : Kept(x)
  BY DEF TypedTables, ghosts, Column, Addressed, Kept

LEMMA WithoutTyped ==
    ASSUME TypedTables, NEW u
    PROVE  WithoutSessions(u) \in [Sessions -> Grants \cup {None}]
  BY DEF TypedTables, WithoutSessions

LEMMA IssueTables ==
    ASSUME Typed, NEW c \in Callers, NEW s \in Sessions, IssueSession(c, s)
    PROVE  TypedTables' /\ \A x \in Tokens : Kept(x)
  <1> DEFINE g == [user |-> call[c].user, epoch |-> call[c].epoch,
                   late |-> call[c].epoch # row[call[c].user].epoch]
  <1>1. TypedTables /\ call[c].user \in Users /\ call[c].epoch \in Nat
    BY DEF Typed, TypedCalls, Equipped, Calls, IssueSession, At
  <1>2. session' = [session EXCEPT ![s] = g] /\ UNCHANGED <<row, link, challenge, ghosts>>
    BY DEF IssueSession
  <1>3. (call[c].epoch # row[call[c].user].epoch) \in BOOLEAN
    OBVIOUS
  <1>4. g \in Grants
    BY <1>1, <1>3 DEF Grants
  <1> HIDE DEF g
  <1>5. session' \in [Sessions -> Grants \cup {None}]
    BY <1>1, <1>2, <1>4 DEF TypedTables
  <1> QED
    BY <1>1, <1>2, <1>5, SessionTables

\* A token takes effect.
LEMMA SpentTyped ==
    ASSUME TypedTables, NEW t \in Tokens, Spent(t)
    PROVE  uses' \in [Tokens -> Nat] /\ uses'[t] = uses[t] + 1
           /\ \A x \in Tokens \ {t} : uses'[x] = uses[x]
  BY DEF TypedTables, Spent

LEMMA VerifyTables ==
    ASSUME Typed, NEW c \in Callers, VerifyWrite(c)
    PROVE  TypedTables' /\ \A x \in Tokens : Kept(x)
  <1> DEFINE u == call[c].user
             k == call[c].token
             r == [row[u] EXCEPT !.verified = TRUE, !.verification = None]
  <1>1. TypedTables /\ u \in Users /\ k \in Tokens /\ link[k].kind = "verify"
    BY DEF Typed, TypedCalls, Equipped, VerifyWrite, At
  <1>2. /\ row' = [row EXCEPT ![u] = r] /\ proven' = [proven EXCEPT ![u] = link[k].to]
        /\ Spent(k) /\ UNCHANGED <<link, session, challenge, shared, strayed>>
    BY DEF VerifyWrite
  <1> HIDE DEF u, k
  <1>3. r \in Accounts /\ r.verification = None /\ r.reset = row[u].reset
    <2>1. row[u] \in Accounts
      BY <1>1 DEF TypedTables
    <2> QED
      BY <2>1 DEF Accounts
  <1> HIDE DEF r
  <1>4. link' \in [Tokens -> Links] /\ \A x \in Tokens : Kept(x) /\ Addressed(x)'
    BY <1>1, <1>2 DEF TypedTables, Kept, Addressed
  <1>5. row' \in [Users -> Accounts] /\ \A v \in Users : Column(v)'
    BY <1>1, <1>2, <1>3, <1>4, RowTyped
  <1>6. link[k].to \in Emails
    BY <1>1 DEF TypedTables, Addressed
  <1>7. proven' \in [Users -> Emails \cup {None}] /\ uses' \in [Tokens -> Nat]
    BY <1>1, <1>2, <1>6, SpentTyped DEF TypedTables
  <1> QED
    BY <1>1, <1>2, <1>4, <1>5, <1>7 DEF TypedTables

LEMMA ResetTables ==
    ASSUME Typed, NEW c \in Callers, ResetWrite(c)
    PROVE  TypedTables' /\ \A x \in Tokens : Kept(x)
  <1> DEFINE u == call[c].user
             k == call[c].token
             r == [row[u] EXCEPT !.epoch = @ + 1, !.reset = None, !.verified = TRUE]
  <1>1. TypedTables /\ u \in Users /\ k \in Tokens /\ link[k].kind = "reset"
    BY DEF Typed, TypedCalls, Equipped, ResetWrite, At
  <1>2. /\ row[u].epoch < MaxEpoch
        /\ row' = [row EXCEPT ![u] = r] /\ proven' = [proven EXCEPT ![u] = link[k].to]
        /\ session' = WithoutSessions(u)
        /\ Spent(k) /\ UNCHANGED <<link, challenge, shared, strayed>>
    BY DEF ResetWrite
  <1> HIDE DEF u, k
  <1>3. r \in Accounts /\ r.verification = row[u].verification /\ r.reset = None
    <2>1. row[u] \in Accounts
      BY <1>1 DEF TypedTables
    <2>2. row[u].epoch + 1 \in 0..(MaxEpoch + 1)
      BY <1>2, <2>1, MaxEpochAssumption DEF Accounts
    <2> QED
      BY <2>1, <2>2 DEF Accounts
  <1> HIDE DEF r
  <1>4. link' \in [Tokens -> Links] /\ \A x \in Tokens : Kept(x) /\ Addressed(x)'
    BY <1>1, <1>2 DEF TypedTables, Kept, Addressed
  <1>5. row' \in [Users -> Accounts] /\ \A v \in Users : Column(v)'
    BY <1>1, <1>2, <1>3, <1>4, RowTyped
  <1>6. link[k].to \in Emails
    BY <1>1 DEF TypedTables, Addressed
  <1>7. proven' \in [Users -> Emails \cup {None}] /\ uses' \in [Tokens -> Nat]
    BY <1>1, <1>2, <1>6, SpentTyped DEF TypedTables
  <1> QED
    BY <1>1, <1>2, <1>4, <1>5, <1>7, WithoutTyped DEF TypedTables

LEMMA PasswordTables ==
    ASSUME Typed, NEW c \in Callers, PasswordWrite(c)
    PROVE  TypedTables' /\ \A x \in Tokens : Kept(x)
  <1> DEFINE u == call[c].user
             r == [row[u] EXCEPT !.epoch = @ + 1]
  <1>1. TypedTables /\ u \in Users
    BY DEF Typed, TypedCalls, Equipped, PasswordWrite, At
  <1>2. /\ row[u].epoch < MaxEpoch /\ row' = [row EXCEPT ![u] = r]
        /\ session' = WithoutSessions(u) /\ UNCHANGED <<link, challenge, ghosts>>
    BY DEF PasswordWrite
  <1> HIDE DEF u
  <1>3. r \in Accounts /\ r.verification = row[u].verification /\ r.reset = row[u].reset
    <2>1. row[u] \in Accounts
      BY <1>1 DEF TypedTables
    <2>2. row[u].epoch + 1 \in 0..(MaxEpoch + 1)
      BY <1>2, <2>1, MaxEpochAssumption DEF Accounts
    <2> QED
      BY <2>1, <2>2 DEF Accounts
  <1> HIDE DEF r
  <1>4. link' \in [Tokens -> Links] /\ \A x \in Tokens : Kept(x) /\ Addressed(x)'
    BY <1>1, <1>2 DEF TypedTables, Kept, Addressed
  <1>5. row' \in [Users -> Accounts] /\ \A v \in Users : Column(v)'
    BY <1>1, <1>2, <1>3, <1>4, RowTyped
  <1> QED
    BY <1>1, <1>2, <1>4, <1>5, WithoutTyped DEF TypedTables, ghosts

LEMMA ChallengeTables ==
    ASSUME Typed, NEW w \in Wallets, NEW t \in Tokens, CreateChallenge(w, t)
    PROVE  TypedTables' /\ \A x \in Tokens : Kept(x)
  <1> DEFINE new == [Unused EXCEPT !.kind = "nonce", !.to = w, !.sent = TRUE]
  <1>1. TypedTables
    BY DEF Typed
  <1>2. /\ link[t] = Unused /\ link' = [link EXCEPT ![t] = new]
        /\ challenge' = [challenge EXCEPT ![w] = t] /\ UNCHANGED <<row, session, ghosts>>
    BY DEF CreateChallenge
  <1>3. new \in Links /\ new.kind = "nonce" /\ link[t].kind = "none"
    <2>1. Unused \in Links /\ Unused.kind = "none"
      BY DEF Unused, Links
    <2> QED
      BY <1>2, <2>1 DEF Links
  <1> HIDE DEF new
  <1>4. link' \in [Tokens -> Links] /\ challenge' \in [Wallets -> Tokens \cup {None}]
        /\ link'[t] = new /\ \A x \in Tokens \ {t} : link'[x] = link[x]
    BY <1>1, <1>2, <1>3 DEF TypedTables
  <1>5. \A x \in Tokens : Kept(x) /\ Addressed(x)'
    BY <1>1, <1>3, <1>4 DEF TypedTables, Kept, Addressed
  <1>6. \A u \in Users : Column(u)'
    <2> SUFFICES ASSUME NEW u \in Users PROVE Column(u)'
      OBVIOUS
    <2>1. row[u] \in Accounts /\ Column(u)
      BY <1>1 DEF TypedTables
    <2>2. row[u].verification \in Tokens \cup {None} /\ row[u].reset \in Tokens \cup {None}
      BY <2>1 DEF Accounts
    <2> QED
      BY <1>2, <1>5, <2>1, <2>2 DEF Column, Kept
  <1> QED
    BY <1>1, <1>2, <1>4, <1>5, <1>6 DEF TypedTables, ghosts

LEMMA SignatureTables ==
    ASSUME Typed, NEW c \in Callers, NEW w \in Wallets, NEW t \in Tokens,
           VerifyChallenge(c, w, t)
    PROVE  TypedTables' /\ \A x \in Tokens : Kept(x)
  <1> DEFINE r == [row[w] EXCEPT !.known = TRUE]
  <1>1. TypedTables /\ w \in Users
    BY WalletsAssumption DEF Typed
  <1>2. challenge' = [challenge EXCEPT ![w] = None]
        /\ UNCHANGED <<link, session, proven, shared, strayed>>
    BY DEF VerifyChallenge
  <1>3. challenge' \in [Wallets -> Tokens \cup {None}]
    BY <1>1, <1>2 DEF TypedTables
  <1>4. CASE UNCHANGED <<uses, row>>
    BY <1>1, <1>2, <1>3, <1>4 DEF TypedTables, Column, Addressed, Kept
  <1>5. CASE ~UNCHANGED <<uses, row>>
    <2>1. Spent(t) /\ row' = [row EXCEPT ![w] = r]
      BY <1>5 DEF VerifyChallenge
    <2>2. r \in Accounts /\ r.verification = row[w].verification /\ r.reset = row[w].reset
      <3>1. row[w] \in Accounts
        BY <1>1 DEF TypedTables
      <3> QED
        BY <3>1 DEF Accounts
    <2> HIDE DEF r
    <2>3. link' \in [Tokens -> Links] /\ \A x \in Tokens : Kept(x) /\ Addressed(x)'
      BY <1>1, <1>2 DEF TypedTables, Kept, Addressed
    <2>4. row' \in [Users -> Accounts] /\ \A v \in Users : Column(v)'
      BY <1>1, <2>1, <2>2, <2>3, RowTyped
    <2> QED
      BY <1>1, <1>2, <1>3, <2>1, <2>3, <2>4, SpentTyped DEF TypedTables
  <1> QED
    BY <1>4, <1>5

\* What every step does to the tables.
LEMMA TablesStep ==
    ASSUME Typed, [Next]_vars
    PROVE  TypedTables' /\ \A x \in Tokens : Kept(x)
  <1> TypedTables
    BY DEF Typed
  <1>1. CASE UNCHANGED <<tables, challenge, ghosts>>
    BY <1>1, QuietTables
  <1>2. ASSUME NEW c \in Callers, NEW u \in Users, NEW t \in Tokens,
               VerifyRead(c, u, t) \/ ResetRead(c, u, t)
        PROVE  TypedTables' /\ \A x \in Tokens : Kept(x)
    <2>1. shared' \subseteq Tokens
          /\ UNCHANGED <<tables, challenge, proven, uses, strayed>>
      BY <1>2 DEF VerifyRead, ResetRead, Presented, TypedTables
    <2> QED
      BY <2>1 DEF TypedTables, tables, Column, Addressed, Kept
  <1>3. ASSUME NEW c \in Callers, Logout(c) \/ LogoutAll(c)
        PROVE  TypedTables' /\ \A x \in Tokens : Kept(x)
    <2>1. UNCHANGED <<row, link, challenge, ghosts>>
      BY <1>3 DEF Logout, LogoutAll
    <2>2. session' \in [Sessions -> Grants \cup {None}]
      BY <1>3, WithoutTyped DEF Logout, LogoutAll, TypedTables
    <2> QED
      BY <2>1, <2>2, SessionTables
  <1>4. CASE Restart
    <2>1. challenge' \in [Wallets -> Tokens \cup {None}] /\ UNCHANGED <<tables, ghosts>>
      BY <1>4 DEF Restart
    <2> QED
      BY <2>1 DEF TypedTables, tables, ghosts, Column, Addressed, Kept
  <1>5. CASE UNCHANGED vars
    BY <1>1, <1>5 DEF vars
  <1>6. ASSUME NEW c \in Callers,
               \/ \E e \in Emails : SignupLookup(c, e)
               \/ \E u \in Users : LoginRead(c, u) \/ ForgotRead(c, u)
               \/ \E s \in Sessions, op \in Operations, e \in Emails \cup {None} :
                    Authorize(c, s, op, e)
               \/ WriteMethod(c) \/ EmailRead(c) \/ EmailLookup(c)
               \/ PasswordRead(c) \/ Abandon(c)
        PROVE  UNCHANGED <<tables, challenge, ghosts>>
    BY <1>6 DEF SignupLookup, LoginRead, ForgotRead, Authorize, WriteMethod, EmailRead,
                EmailLookup, PasswordRead, Abandon
  <1>7. "email" \in Operations
    BY DEF Operations
  <1> QED
    BY <1>1, <1>2, <1>3, <1>4, <1>5, <1>6, <1>7, SignupTables, ForgotTables, EmailTables,
       MailTables, IssueTables, VerifyTables, ResetTables, PasswordTables, ChallengeTables,
       SignatureTables DEF Next

LEMMA IdleTyped == Idle \in Calls /\ Idle.stage = "idle" /\ Idle.op = "none" /\ Idle.user = None
                   /\ Equipped(Idle) /\ Equipped(Idle)'
  BY DEF Idle, Calls, Equipped

\* One request goes on, and what the others hold is still there.
LEMMA OneCall ==
    ASSUME Typed, \A x \in Tokens : Kept(x), NEW c \in Callers, NEW k \in Calls, Equipped(k)',
           call' = [call EXCEPT ![c] = k]
    PROVE  TypedCalls'
  <1>1. call' \in [Callers -> Calls] /\ call'[c] = k /\ \A d \in Callers \ {c} : call'[d] = call[d]
    BY DEF Typed, TypedCalls
  <1>2. ASSUME NEW d \in Callers \ {c} PROVE Equipped(call[d])'
    <2>1. Equipped(call[d]) /\ call'[d] = call[d]
      BY <1>1 DEF Typed, TypedCalls
    <2>2. ASSUME NEW kind \in {"verify", "reset"}, call[d].token \in Tokens,
                 link[call[d].token].kind = kind
          PROVE  link'[call[d].token].kind = kind
      BY <2>2 DEF Kept
    <2> QED
      BY <2>1, <2>2 DEF Equipped
  <1> QED
    BY <1>1, <1>2 DEF TypedCalls

\* The steps that only read and go on.
LEMMA ReadCalls ==
    ASSUME Typed, NEW c \in Callers,
           \/ \E e \in Emails : SignupLookup(c, e)
           \/ \E u \in Users : LoginRead(c, u) \/ ForgotRead(c, u)
           \/ \E s \in Sessions, op \in Operations, e \in Emails \cup {None} :
                (op = "email" => e \in Emails) /\ Authorize(c, s, op, e)
           \/ WriteMethod(c) \/ EmailRead(c) \/ EmailLookup(c) \/ PasswordRead(c)
           \/ Abandon(c),
           \A x \in Tokens : Kept(x)
    PROVE  TypedCalls'
  <1> USE IdleTyped
  <1>0. call \in [Callers -> Calls] /\ call[c] \in Calls /\ Equipped(call[c]) /\ TypedTables
    BY DEF Typed, TypedCalls
  <1> SUFFICES \E k \in Calls : Equipped(k)' /\ call' = [call EXCEPT ![c] = k]
    BY OneCall
  <1>1. ASSUME NEW e \in Emails, SignupLookup(c, e)
        PROVE  \E k \in Calls : Equipped(k)' /\ call' = [call EXCEPT ![c] = k]
    <2> DEFINE k == [Idle EXCEPT !.stage = "insert", !.email = e]
    <2>1. k \in Calls /\ k.stage = "insert" /\ k.email = e
      BY DEF Calls
    <2>2. call' = [call EXCEPT ![c] = k]
      BY <1>1 DEF SignupLookup
    <2> QED
      BY <2>1, <2>2 DEF Equipped
  <1>2. ASSUME NEW u \in Users, LoginRead(c, u)
        PROVE  \E k \in Calls : Equipped(k)' /\ call' = [call EXCEPT ![c] = k]
    <2> DEFINE k == [Idle EXCEPT !.stage = "session", !.user = u, !.epoch = row[u].epoch]
    <2>1. row[u].epoch \in Nat
      BY <1>0, MaxEpochAssumption DEF TypedTables, Accounts
    <2>2. k \in Calls /\ k.stage = "session" /\ k.user = u /\ k.op = "none"
      BY <2>1 DEF Calls
    <2>3. call' = [call EXCEPT ![c] = k]
      BY <1>2 DEF LoginRead, SignIn
    <2> QED
      BY <2>2, <2>3 DEF Equipped
  <1>3. ASSUME NEW u \in Users, ForgotRead(c, u)
        PROVE  \E k \in Calls : Equipped(k)' /\ call' = [call EXCEPT ![c] = k]
    <2> DEFINE k == [Idle EXCEPT !.stage = "forgot", !.user = u, !.email = row[u].email]
    <2>1. row[u].email \in Emails
      BY <1>0, <1>3 DEF TypedTables, Accounts, ForgotRead
    <2>2. k \in Calls /\ k.stage = "forgot" /\ k.user = u /\ k.email = row[u].email
      BY <2>1 DEF Calls
    <2>3. call' = [call EXCEPT ![c] = k]
      BY <1>3 DEF ForgotRead
    <2> QED
      BY <2>1, <2>2, <2>3 DEF Equipped
  <1>4. ASSUME NEW s \in Sessions, NEW op \in Operations, NEW e \in Emails \cup {None},
               op = "email" => e \in Emails, Authorize(c, s, op, e)
        PROVE  \E k \in Calls : Equipped(k)' /\ call' = [call EXCEPT ![c] = k]
    <2> DEFINE k == [Idle EXCEPT !.stage = "user", !.op = op, !.email = e,
                                 !.session = s, !.user = session[s].user]
    <2>1. session[s].user \in Users
      BY <1>0, <1>4 DEF TypedTables, Grants, Authorize
    <2>2. k \in Calls /\ k.stage = "user" /\ k.user \in Users /\ k.email = e /\ k.op = op
      BY <2>1 DEF Calls
    <2>3. call' = [call EXCEPT ![c] = k]
      BY <1>4 DEF Authorize
    <2> QED
      BY <1>4, <2>2, <2>3 DEF Equipped
  <1>5. ASSUME NEW x \in {"mail", "lookup", "change", "password"}, Go(c, x),
               x \in {"lookup", "change", "password"} => call[c].user \in Users,
               x \in {"lookup", "change"} => call[c].email \in Emails
        PROVE  \E k \in Calls : Equipped(k)' /\ call' = [call EXCEPT ![c] = k]
    <2>1. [call[c] EXCEPT !.stage = x] \in Calls
      BY <1>0 DEF Calls
    <2>2. PICK k \in Calls : k = [call[c] EXCEPT !.stage = x]
      BY <2>1
    <2>3. k.stage = x /\ k.user = call[c].user /\ k.email = call[c].email /\ k.op = call[c].op
      BY <1>0, <2>2 DEF Calls
    <2>4. call' = [call EXCEPT ![c] = k]
      BY <1>0, <1>5, <2>2 DEF Go
    <2>5. Equipped(k)'
      BY <1>0, <1>5, <2>3 DEF Equipped
    <2> QED
      BY <2>4, <2>5
  <1>6. ASSUME Finish(c)
        PROVE  \E k \in Calls : Equipped(k)' /\ call' = [call EXCEPT ![c] = k]
    BY <1>6 DEF Finish
  <1>7. CASE WriteMethod(c)
    BY <1>5, <1>7 DEF WriteMethod
  <1>8. CASE EmailRead(c)
    BY <1>0, <1>5, <1>6, <1>8 DEF EmailRead, Doing, Equipped
  <1>9. CASE EmailLookup(c)
    BY <1>0, <1>5, <1>6, <1>9 DEF EmailLookup, At, Equipped
  <1>10. CASE PasswordRead(c)
    BY <1>0, <1>5, <1>6, <1>10 DEF PasswordRead, Doing, Equipped
  <1>11. CASE Abandon(c)
    BY <1>6, <1>11 DEF Abandon
  <1> QED
    BY <1>1, <1>2, <1>3, <1>4, <1>7, <1>8, <1>9, <1>10, <1>11

\* A link is read.
LEMMA LinkCalls ==
    ASSUME Typed, NEW c \in Callers, NEW u \in Users, NEW t \in Tokens,
           VerifyRead(c, u, t) \/ ResetRead(c, u, t)
    PROVE  /\ \A x \in Tokens : Kept(x)
           /\ TypedCalls'
  <1>1. row[u] \in Accounts /\ Column(u) /\ t # None /\ UNCHANGED link
    BY NoneAssumption DEF Typed, TypedTables, VerifyRead, ResetRead, tables
  <1>2. \A x \in Tokens : Kept(x)
    BY <1>1 DEF Kept
  <1> DEFINE k(stage) == [Idle EXCEPT !.stage = stage, !.user = u, !.token = t]
  <1>3. ASSUME NEW stage \in {"verify", "reset"}, link[t].kind = stage,
               call' = [call EXCEPT ![c] = k(stage)]
        PROVE  TypedCalls'
    <2>1. k(stage) \in Calls /\ k(stage).stage = stage /\ k(stage).user = u
          /\ k(stage).token = t /\ k(stage).op = "none"
      BY IdleTyped DEF Calls
    <2> HIDE DEF k
    <2>2. Equipped(k(stage))'
      BY <1>1, <1>3, <2>1 DEF Equipped
    <2> QED
      BY <1>2, <1>3, <2>1, <2>2, OneCall
  <1>4. CASE VerifyRead(c, u, t)
    <2>1. call' = [call EXCEPT ![c] = k("verify")]
      BY <1>4 DEF VerifyRead
    <2>2. link[t].kind = "verify"
      BY <1>1, <1>4 DEF VerifyRead, Column
    <2> HIDE DEF k
    <2> QED
      BY <1>2, <1>3, <2>1, <2>2
  <1>5. CASE ResetRead(c, u, t)
    <2>1. call' = [call EXCEPT ![c] = k("reset")]
      BY <1>5 DEF ResetRead
    <2>2. link[t].kind = "reset"
      BY <1>1, <1>5 DEF ResetRead, Column
    <2> HIDE DEF k
    <2> QED
      BY <1>2, <1>3, <2>1, <2>2
  <1> QED
    BY <1>2, <1>4, <1>5

\* A request and its stage after every step.
LEMMA CallsStep ==
    ASSUME Typed, [Next]_vars
    PROVE  TypedCalls'
  <1> USE IdleTyped
  <1>0. TypedTables /\ TypedCalls /\ \A x \in Tokens : Kept(x)
    BY TablesStep DEF Typed
  <1>1. ASSUME NEW c \in Callers, Finish(c) PROVE TypedCalls'
    BY <1>0, <1>1, OneCall DEF Finish
  <1>2. ASSUME NEW c \in Callers, NEW t \in Tokens, NEW x \in {"method", "mail"}, GoWith(c, x, t)
        PROVE  TypedCalls'
    <2> DEFINE k == [Idle EXCEPT !.stage = x, !.token = t]
    <2>1. k \in Calls /\ k.stage = x /\ k.op = "none"
      BY DEF Calls
    <2>2. call' = [call EXCEPT ![c] = k]
      BY <1>2 DEF GoWith
    <2> HIDE DEF k
    <2>3. Equipped(k)'
      BY <2>1 DEF Equipped
    <2> QED
      BY <1>0, <2>1, <2>2, <2>3, OneCall
  <1>3. ASSUME NEW c \in Callers, NEW u \in Users, NEW n \in Nat, SignIn(c, u, n)
        PROVE  TypedCalls'
    <2> DEFINE k == [Idle EXCEPT !.stage = "session", !.user = u, !.epoch = n]
    <2>1. k \in Calls /\ k.stage = "session" /\ k.op = "none" /\ k.user = u
      BY DEF Calls
    <2>2. call' = [call EXCEPT ![c] = k]
      BY <1>3 DEF SignIn
    <2> HIDE DEF k
    <2>3. Equipped(k)'
      BY <2>1 DEF Equipped
    <2> QED
      BY <1>0, <2>1, <2>2, <2>3, OneCall
  <1>4. ASSUME call' = call PROVE TypedCalls'
    <2>1. ASSUME NEW d \in Callers PROVE Equipped(call[d])'
      <3>1. Equipped(call[d])
        BY <1>0 DEF TypedCalls
      <3>2. ASSUME NEW kind \in {"verify", "reset"}, call[d].token \in Tokens,
                   link[call[d].token].kind = kind
            PROVE  link'[call[d].token].kind = kind
        BY <1>0, <3>2 DEF Kept
      <3> QED
        BY <1>4, <3>1, <3>2 DEF Equipped
    <2> QED
      BY <1>0, <1>4, <2>1 DEF TypedCalls
  <1>5. CASE Restart
    BY <1>5 DEF Restart, TypedCalls
  <1>6. ASSUME NEW c \in Callers, NEW u \in Users, NEW t \in Tokens, SignupInsert(c, u, t)
        PROVE  TypedCalls'
    BY <1>1, <1>2, <1>6 DEF SignupInsert
  <1>7. ASSUME NEW c \in Callers, NEW t \in Tokens, ForgotWrite(c, t) \/ EmailWrite(c, t)
        PROVE  TypedCalls'
    BY <1>1, <1>2, <1>7 DEF ForgotWrite, EmailWrite
  <1>8. ASSUME NEW c \in Callers, VerifyWrite(c) \/ ResetWrite(c)
        PROVE  TypedCalls'
    <2>1. call[c].user \in Users
      BY <1>0, <1>8 DEF TypedCalls, Equipped, VerifyWrite, ResetWrite, At
    <2>2. row[call[c].user].epoch \in Nat
      BY <1>0, <2>1, MaxEpochAssumption DEF TypedTables, Accounts
    <2>3. row[call[c].user].epoch + 1 \in Nat
      BY <2>2
    <2> QED
      BY <1>3, <1>8, <2>1, <2>2, <2>3 DEF VerifyWrite, ResetWrite
  <1>9. ASSUME NEW c \in Callers, NEW w \in Wallets, NEW t \in Tokens, VerifyChallenge(c, w, t)
        PROVE  TypedCalls'
    <2>1. w \in Users /\ row[w].epoch \in Nat
      BY <1>0, WalletsAssumption, MaxEpochAssumption DEF TypedTables, Accounts
    <2> QED
      BY <1>3, <1>4, <1>9, <2>1 DEF VerifyChallenge
  <1>10. ASSUME NEW w \in Wallets, NEW t \in Tokens, CreateChallenge(w, t)
         PROVE  TypedCalls'
    BY <1>4, <1>10 DEF CreateChallenge
  <1>11. ASSUME NEW c \in Callers,
                \/ \E s \in Sessions : IssueSession(c, s)
                \/ SendMail(c) \/ PasswordWrite(c) \/ Logout(c) \/ LogoutAll(c)
         PROVE  TypedCalls'
    BY <1>1, <1>11 DEF IssueSession, SendMail, PasswordWrite, Logout, LogoutAll
  <1>12. CASE UNCHANGED vars
    BY <1>4, <1>12 DEF vars
  <1>13. "email" \in Operations
    BY DEF Operations
  <1> QED
    BY <1>0, <1>5, <1>6, <1>7, <1>8, <1>9, <1>10, <1>11, <1>12, <1>13, ReadCalls, LinkCalls
       DEF Next

LEMMA TypedInit == Init => Typed
  <1> SUFFICES ASSUME Init PROVE Typed
    OBVIOUS
  <1>1. NoAccount \in Accounts /\ NoAccount.verification = None /\ NoAccount.reset = None
    BY MaxEpochAssumption DEF NoAccount, Accounts
  <1>2. PICK old \in SUBSET Wallets : row = [u \in Users |-> [NoAccount EXCEPT !.known = u \in old]]
    BY DEF Init
  <1>3. ASSUME NEW u \in Users
        PROVE  row[u] \in Accounts /\ row[u].verification = None /\ row[u].reset = None
    <2>1. row[u] = [NoAccount EXCEPT !.known = u \in old]
      BY <1>2
    <2>2. (u \in old) \in BOOLEAN
      OBVIOUS
    <2> QED
      BY <1>1, <2>1, <2>2 DEF Accounts
  <1>4. row \in [Users -> Accounts] /\ \A u \in Users : Column(u)
    BY <1>2, <1>3 DEF Column
  <1>5. link \in [Tokens -> Links] /\ \A t \in Tokens : Addressed(t)
    BY DEF Init, Unused, Links, Addressed
  <1>6. TypedTables
    BY <1>4, <1>5 DEF Init, TypedTables
  <1>7. TypedCalls
    BY IdleTyped DEF Init, TypedCalls
  <1> QED
    BY <1>6, <1>7 DEF Typed

LEMMA TypedAlways == Spec => []Typed
  <1>1. Typed /\ [Next]_vars => Typed'
    BY TablesStep, CallsStep DEF Typed
  <1> QED
    BY <1>1, TypedInit, PTL DEF Spec

\* Rows, links, sessions and requests keep their types, and each token stays
\* in the column of its kind: what forgot_password stores is never taken for
\* a verification.
THEOREM TypeCorrect == Spec => []TypeOK
  <1>1. Typed => TypeOK
    BY DEF Typed, TypedTables, TypedCalls, TypeOK, Column
  <1> QED
    BY <1>1, TypedAlways, PTL

\* A request comes to hold a link, or the address one is for, only by the steps
\* that read it.
LEMMA NewHolder ==
    ASSUME Typed, [Next]_vars, NEW c \in Callers, call'[c] # call[c]
    PROVE  \/ call'[c].stage \notin {"verify", "forgot", "reset"}
           \/ \E u \in Users : ForgotRead(c, u)
           \/ \E u \in Users, t \in Tokens : VerifyRead(c, u, t) \/ ResetRead(c, u, t)
  <1> DEFINE Goal == \/ call'[c].stage \notin {"verify", "forgot", "reset"}
                     \/ \E u \in Users : ForgotRead(c, u)
                     \/ \E u \in Users, t \in Tokens : VerifyRead(c, u, t) \/ ResetRead(c, u, t)
  <1> SUFFICES Goal
    OBVIOUS
  <1>0. /\ call \in [Callers -> Calls] /\ \A d \in Callers : call[d] \in Calls
    BY DEF Typed, TypedCalls
  <1>1. ASSUME call'[c].stage \notin {"verify", "forgot", "reset"} PROVE Goal
    BY <1>1
  <1>2. ASSUME NEW d \in Callers, NEW k, call' = [call EXCEPT ![d] = k]
        PROVE  d = c /\ call'[c] = k
    BY <1>0, <1>2
  <1>3. ASSUME NEW d \in Callers, NEW k, call' = [call EXCEPT ![d] = k],
               k.stage \notin {"verify", "forgot", "reset"}
        PROVE  Goal
    BY <1>1, <1>2, <1>3
  <1>4. ASSUME NEW d \in Callers, NEW x, Go(d, x), x \notin {"verify", "forgot", "reset"}
        PROVE  Goal
    <2>1. [call[d] EXCEPT !.stage = x].stage = x
      BY <1>0 DEF Calls
    <2>2. call' = [call EXCEPT ![d] = [call[d] EXCEPT !.stage = x]]
      BY <1>0, <1>4 DEF Go
    <2> QED
      BY <1>3, <1>4, <2>1, <2>2
  <1>5. ASSUME NEW d \in Callers, NEW x \in {"method", "mail"}, NEW t, GoWith(d, x, t) PROVE Goal
    <2>1. [Idle EXCEPT !.stage = x, !.token = t].stage = x
      BY DEF Idle
    <2> QED
      BY <1>3, <1>5, <2>1 DEF GoWith
  <1>6. ASSUME NEW d \in Callers, NEW u, NEW n, SignIn(d, u, n) PROVE Goal
    <2>1. [Idle EXCEPT !.stage = "session", !.user = u, !.epoch = n].stage = "session"
      BY DEF Idle
    <2> QED
      BY <1>3, <1>6, <2>1 DEF SignIn
  <1>7. ASSUME NEW d \in Callers, Finish(d) PROVE Goal
    BY <1>3, <1>7, IdleTyped DEF Finish
  <1> HIDE DEF Goal
  <1>8. ASSUME NEW d \in Callers, NEW e \in Emails, SignupLookup(d, e) PROVE Goal
    <2>1. [Idle EXCEPT !.stage = "insert", !.email = e].stage = "insert"
      BY DEF Idle
    <2> QED
      BY <1>3, <1>8, <2>1 DEF SignupLookup
  <1>9. ASSUME NEW d \in Callers, NEW u \in Users, ForgotRead(d, u) PROVE Goal
    <2>1. d = c
      BY <1>2, <1>9 DEF ForgotRead
    <2> QED
      BY <1>9, <2>1 DEF Goal
  <1>10. ASSUME NEW d \in Callers, NEW u \in Users, NEW t \in Tokens,
                VerifyRead(d, u, t) \/ ResetRead(d, u, t)
         PROVE  Goal
    <2>1. d = c
      BY <1>2, <1>10 DEF VerifyRead, ResetRead
    <2> QED
      BY <1>10, <2>1 DEF Goal
  <1>11. ASSUME NEW d \in Callers, NEW s \in Sessions, NEW op, NEW e, Authorize(d, s, op, e)
         PROVE  Goal
    <2>1. [Idle EXCEPT !.stage = "user", !.op = op, !.email = e, !.session = s,
                       !.user = session[s].user].stage = "user"
      BY DEF Idle
    <2> QED
      BY <1>3, <1>11, <2>1 DEF Authorize
  <1>12. CASE Restart
    BY <1>1, <1>12, IdleTyped DEF Restart
  <1>13. ASSUME NEW d \in Callers,
                \/ \E u \in Users, t \in Tokens : SignupInsert(d, u, t)
                \/ \E t \in Tokens : ForgotWrite(d, t) \/ EmailWrite(d, t)
                \/ \E s \in Sessions : IssueSession(d, s)
                \/ SendMail(d) \/ PasswordWrite(d) \/ Logout(d) \/ LogoutAll(d) \/ Abandon(d)
         PROVE  Goal
    BY <1>5, <1>7, <1>13 DEF SignupInsert, ForgotWrite, EmailWrite, IssueSession, SendMail,
       PasswordWrite, Logout, LogoutAll, Abandon
  <1>14. ASSUME NEW d \in Callers,
                WriteMethod(d) \/ EmailRead(d) \/ EmailLookup(d) \/ PasswordRead(d)
         PROVE  Goal
    BY <1>4, <1>7, <1>14 DEF WriteMethod, EmailRead, EmailLookup, PasswordRead
  <1>15. ASSUME NEW d \in Callers,
                \/ \E u \in Users : LoginRead(d, u)
                \/ \E w \in Wallets, t \in Tokens : VerifyChallenge(d, w, t)
                \/ VerifyWrite(d) \/ ResetWrite(d)
         PROVE  Goal
    BY <1>6, <1>15 DEF LoginRead, VerifyChallenge, VerifyWrite, ResetWrite
  <1>16. ASSUME \/ \E w \in Wallets, t \in Tokens : CreateChallenge(w, t)
                \/ UNCHANGED vars
         PROVE  FALSE
    BY <1>16 DEF CreateChallenge, vars
  <1> QED
    BY <1>8, <1>9, <1>10, <1>11, <1>12, <1>13, <1>14, <1>15, <1>16 DEF Next

-----------------------------------------------------------------------------
(* Sessions and passwords.                                                 *)

\* An account never goes away, and a password is not set but for a new account
\* or together with the end of the account's sessions.
Risen(v) ==
    /\ row[v].known => row'[v].known
    /\ row'[v].known \/ row'[v] = NoAccount
    /\ \/ row'[v].epoch = row[v].epoch
       \/ ~row[v].known /\ session' = session
       \/ session' = WithoutSessions(v)

\* A write to one row.
LEMMA OneRisen ==
    ASSUME Alive, NEW u \in Users, \A v \in Users \ {u} : row'[v] = row[v], row'[u].known,
           \/ row'[u].epoch = row[u].epoch
           \/ ~row[u].known /\ session' = session
           \/ session' = WithoutSessions(u)
    PROVE  \A v \in Users : Risen(v)
  BY DEF Alive, Risen

LEMMA RowsRise ==
    ASSUME Typed, Alive, [Next]_vars
    PROVE  \A v \in Users : Risen(v)
  <1>0. /\ row \in [Users -> Accounts] /\ \A v \in Users : row[v] \in Accounts
        /\ \A c \in Callers : call[c].user \in Users => row[call[c].user].known
        /\ \A c \in Callers : Equipped(call[c])
    BY NoneAssumption DEF Typed, TypedTables, TypedCalls, Alive
  <1>1. CASE row' = row
    BY <1>1 DEF Alive, Risen
  <1>2. ASSUME NEW c \in Callers, NEW u \in Users, NEW t \in Tokens, SignupInsert(c, u, t)
        PROVE  \A v \in Users : Risen(v)
    <2>1. CASE row' # row
      <3> DEFINE r == [NoAccount EXCEPT !.known = TRUE, !.email = call[c].email,
                                        !.verification = t, !.epoch = 1]
      <3>1. row' = [row EXCEPT ![u] = r] /\ ~row[u].known /\ session' = session
        BY <1>2, <2>1 DEF SignupInsert
      <3>2. r.known
        BY DEF NoAccount
      <3> HIDE DEF r
      <3>3. row'[u].known /\ \A v \in Users \ {u} : row'[v] = row[v]
        BY <1>0, <3>1, <3>2
      <3> QED
        BY <3>1, <3>3, OneRisen
    <2> QED
      BY <1>1, <2>1
  <1>3. ASSUME NEW c \in Callers, NEW t \in Tokens, ForgotWrite(c, t)
        PROVE  \A v \in Users : Risen(v)
    <2> DEFINE u == call[c].user
    <2>1. u \in Users /\ row[u].known /\ row' = [row EXCEPT ![u].reset = t]
      BY <1>0, <1>3 DEF Equipped, ForgotWrite, At
    <2> HIDE DEF u
    <2>2. row'[u].known /\ row'[u].epoch = row[u].epoch
          /\ \A v \in Users \ {u} : row'[v] = row[v]
      BY <1>0, <2>1 DEF Accounts
    <2> QED
      BY <2>1, <2>2, OneRisen
  <1>4. ASSUME NEW c \in Callers, NEW t \in Tokens, EmailWrite(c, t)
        PROVE  \A v \in Users : Risen(v)
    <2>1. CASE row' # row
      <3> DEFINE u == call[c].user
                 e == call[c].email
      <3>1. u \in Users /\ row[u].known
            /\ row' = [row EXCEPT ![u].email = e, ![u].verified = FALSE, ![u].verification = t]
        BY <1>0, <1>4, <2>1 DEF Equipped, EmailWrite, At
      <3> HIDE DEF u, e
      <3>2. row'[u].known /\ row'[u].epoch = row[u].epoch
            /\ \A v \in Users \ {u} : row'[v] = row[v]
        BY <1>0, <3>1 DEF Accounts
      <3> QED
        BY <3>1, <3>2, OneRisen
    <2> QED
      BY <1>1, <2>1
  <1>5. ASSUME NEW c \in Callers, VerifyWrite(c)
        PROVE  \A v \in Users : Risen(v)
    <2> DEFINE u == call[c].user
    <2>1. u \in Users /\ row[u].known
          /\ row' = [row EXCEPT ![u].verified = TRUE, ![u].verification = None]
      BY <1>0, <1>5 DEF Equipped, VerifyWrite, At
    <2> HIDE DEF u
    <2>2. row'[u].known /\ row'[u].epoch = row[u].epoch
          /\ \A v \in Users \ {u} : row'[v] = row[v]
      BY <1>0, <2>1 DEF Accounts
    <2> QED
      BY <2>1, <2>2, OneRisen
  <1>6. ASSUME NEW c \in Callers, ResetWrite(c)
        PROVE  \A v \in Users : Risen(v)
    <2> DEFINE u == call[c].user
    <2>1. /\ u \in Users /\ row[u].known /\ session' = WithoutSessions(u)
          /\ row' = [row EXCEPT ![u].epoch = @ + 1, ![u].reset = None, ![u].verified = TRUE]
      BY <1>0, <1>6 DEF Equipped, ResetWrite, At
    <2> HIDE DEF u
    <2>2. row'[u].known /\ \A v \in Users \ {u} : row'[v] = row[v]
      BY <1>0, <2>1 DEF Accounts
    <2> QED
      BY <2>1, <2>2, OneRisen
  <1>7. ASSUME NEW c \in Callers, PasswordWrite(c)
        PROVE  \A v \in Users : Risen(v)
    <2> DEFINE u == call[c].user
    <2>1. /\ u \in Users /\ row[u].known /\ session' = WithoutSessions(u)
          /\ row' = [row EXCEPT ![u].epoch = @ + 1]
      BY <1>0, <1>7 DEF Equipped, PasswordWrite, At
    <2> HIDE DEF u
    <2>2. row'[u].known /\ \A v \in Users \ {u} : row'[v] = row[v]
      BY <1>0, <2>1 DEF Accounts
    <2> QED
      BY <2>1, <2>2, OneRisen
  <1>8. ASSUME NEW c \in Callers, NEW w \in Wallets, NEW t \in Tokens, VerifyChallenge(c, w, t)
        PROVE  \A v \in Users : Risen(v)
    <2>1. CASE row' # row
      <3>1. w \in Users /\ row' = [row EXCEPT ![w].known = TRUE]
        BY <1>8, <2>1, WalletsAssumption DEF VerifyChallenge
      <3>2. row'[w].known /\ row'[w].epoch = row[w].epoch
            /\ \A v \in Users \ {w} : row'[v] = row[v]
        BY <1>0, <3>1 DEF Accounts
      <3> QED
        BY <3>1, <3>2, OneRisen
    <2> QED
      BY <1>1, <2>1
  <1>9. ASSUME NEW c \in Callers,
               \/ \E e \in Emails : SignupLookup(c, e)
               \/ \E u \in Users, t \in Tokens : VerifyRead(c, u, t) \/ ResetRead(c, u, t)
               \/ \E u \in Users : LoginRead(c, u) \/ ForgotRead(c, u)
               \/ \E s \in Sessions : IssueSession(c, s)
               \/ \E s \in Sessions, op \in Operations, e \in Emails \cup {None} :
                    Authorize(c, s, op, e)
               \/ WriteMethod(c) \/ SendMail(c) \/ EmailRead(c) \/ EmailLookup(c)
               \/ PasswordRead(c) \/ Logout(c) \/ LogoutAll(c) \/ Abandon(c)
        PROVE  row' = row
    BY <1>9 DEF SignupLookup, VerifyRead, ResetRead, LoginRead, ForgotRead, IssueSession,
       Authorize, WriteMethod, SendMail, EmailRead, EmailLookup, PasswordRead, Logout,
       LogoutAll, Abandon, tables
  <1>10. (\E w \in Wallets, t \in Tokens : CreateChallenge(w, t)) \/ Restart \/ UNCHANGED vars
         => row' = row
    BY DEF CreateChallenge, Restart, vars, tables
  <1>11. "email" \in Operations
    BY DEF Operations
  <1> QED
    BY <1>1, <1>2, <1>3, <1>4, <1>5, <1>6, <1>7, <1>8, <1>9, <1>10, <1>11 DEF Next

\* What the requests are about, after every step.
LEMMA CallsAlive ==
    ASSUME Typed, Alive, [Next]_vars
    PROVE  \A d \in Callers : call'[d].user # None => row'[call'[d].user].known
  <1> DEFINE Goal == \A d \in Callers : call'[d].user # None => row'[call'[d].user].known
  <1> SUFFICES Goal
    OBVIOUS
  <1>0. /\ call \in [Callers -> Calls]
        /\ \A u \in Users : row[u] \in Accounts
        /\ \A c \in Callers : call[c] \in Calls /\ Equipped(call[c])
        /\ \A c \in Callers : call[c].user # None =>
              call[c].user \in Users /\ row'[call[c].user].known
    <2>1. \A c \in Callers : call[c].user \in Users \cup {None}
      BY DEF Typed, TypedCalls, Calls
    <2> QED
      BY <2>1, RowsRise DEF Typed, TypedTables, TypedCalls, Alive, Risen
  <1>1. ASSUME NEW c \in Callers, NEW k, call' = [call EXCEPT ![c] = k],
               k.user # None => row'[k.user].known
        PROVE  Goal
    <2>1. call'[c] = k /\ \A d \in Callers \ {c} : call'[d] = call[d]
      BY <1>0, <1>1
    <2> QED
      BY <1>0, <1>1, <2>1
  <1> HIDE DEF Goal
  <1>2. ASSUME NEW c \in Callers, Finish(c) PROVE Goal
    BY <1>1, <1>2, IdleTyped DEF Finish
  <1>3. ASSUME NEW c \in Callers, NEW t, NEW x, GoWith(c, x, t) PROVE Goal
    <2>1. [Idle EXCEPT !.stage = x, !.token = t].user = None
      BY DEF Idle
    <2> QED
      BY <1>1, <1>3, <2>1 DEF GoWith
  <1>4. ASSUME NEW c \in Callers, NEW x, Go(c, x) PROVE Goal
    <2>1. [call[c] EXCEPT !.stage = x].user = call[c].user
      BY <1>0 DEF Calls
    <2>2. call' = [call EXCEPT ![c] = [call[c] EXCEPT !.stage = x]]
      BY <1>0, <1>4 DEF Go
    <2> QED
      BY <1>0, <1>1, <2>1, <2>2
  <1>5. ASSUME NEW c \in Callers, NEW u, NEW n, SignIn(c, u, n), row'[u].known PROVE Goal
    <2>1. [Idle EXCEPT !.stage = "session", !.user = u, !.epoch = n].user = u
      BY DEF Idle
    <2> QED
      BY <1>1, <1>5, <2>1 DEF SignIn
  <1>6. CASE call' = call
    BY <1>0, <1>6 DEF Goal
  <1>7. ASSUME NEW u \in Users, row[u] # NoAccount PROVE row'[u].known
    BY <1>7, RowsRise DEF Alive, Risen
  <1>8. NoAccount.email = None /\ NoAccount.verification = None /\ NoAccount.reset = None
    BY DEF NoAccount
  <1>9. ASSUME NEW c \in Callers, NEW e \in Emails, SignupLookup(c, e) PROVE Goal
    <2>1. [Idle EXCEPT !.stage = "insert", !.email = e].user = None
      BY DEF Idle
    <2> QED
      BY <1>1, <1>9, <2>1 DEF SignupLookup
  <1>10. ASSUME NEW c \in Callers, NEW u \in Users, LoginRead(c, u) PROVE Goal
    BY <1>5, <1>7, <1>8, <1>10 DEF LoginRead
  <1>11. ASSUME NEW c \in Callers, NEW u \in Users, ForgotRead(c, u) PROVE Goal
    <2>1. [Idle EXCEPT !.stage = "forgot", !.user = u, !.email = row[u].email].user = u
      BY DEF Idle
    <2> QED
      BY <1>1, <1>7, <1>8, <1>11, <2>1 DEF ForgotRead
  <1>12. ASSUME NEW c \in Callers, NEW u \in Users, NEW t \in Tokens,
                VerifyRead(c, u, t) \/ ResetRead(c, u, t)
         PROVE  Goal
    <2>1. row'[u].known
      BY <1>7, <1>8, <1>12, NoneAssumption DEF VerifyRead, ResetRead
    <2>2. \A x \in {"verify", "reset"} :
              [Idle EXCEPT !.stage = x, !.user = u, !.token = t].user = u
      BY DEF Idle
    <2> QED
      BY <1>1, <1>12, <2>1, <2>2 DEF VerifyRead, ResetRead
  <1>13. ASSUME NEW c \in Callers, NEW s \in Sessions, NEW op, NEW e, Authorize(c, s, op, e)
         PROVE  Goal
    <2>1. row'[session[s].user].known
      BY <1>13, RowsRise DEF Typed, TypedTables, Grants, Alive, Risen, Authorize
    <2>2. [Idle EXCEPT !.stage = "user", !.op = op, !.email = e, !.session = s,
                       !.user = session[s].user].user = session[s].user
      BY DEF Idle
    <2> QED
      BY <1>1, <1>13, <2>1, <2>2 DEF Authorize
  <1>14. ASSUME NEW c \in Callers, VerifyWrite(c) \/ ResetWrite(c) PROVE Goal
    <2>1. call[c].user # None
      BY <1>0, <1>14, NoneAssumption DEF Equipped, VerifyWrite, ResetWrite, At
    <2> QED
      BY <1>0, <1>5, <1>14, <2>1 DEF VerifyWrite, ResetWrite
  <1>15. ASSUME NEW c \in Callers, NEW w \in Wallets, NEW t \in Tokens, VerifyChallenge(c, w, t)
         PROVE  Goal
    <2>1. CASE SignIn(c, w, row[w].epoch) /\ row' = [row EXCEPT ![w].known = TRUE]
      <3>1. row'[w].known
        BY <2>1, WalletsAssumption DEF Typed, TypedTables, Accounts
      <3> QED
        BY <1>5, <2>1, <3>1
    <2> QED
      BY <1>6, <1>15, <2>1 DEF VerifyChallenge
  <1>16. CASE Restart
    BY <1>16, IdleTyped DEF Restart, Goal
  <1>17. ASSUME NEW c \in Callers,
                \/ \E u \in Users, t \in Tokens : SignupInsert(c, u, t)
                \/ \E t \in Tokens : ForgotWrite(c, t) \/ EmailWrite(c, t)
                \/ \E s \in Sessions : IssueSession(c, s)
                \/ WriteMethod(c) \/ SendMail(c) \/ EmailRead(c) \/ EmailLookup(c)
                \/ PasswordRead(c) \/ PasswordWrite(c) \/ Logout(c) \/ LogoutAll(c)
                \/ Abandon(c)
         PROVE  Goal
    BY <1>2, <1>3, <1>4, <1>17 DEF SignupInsert, ForgotWrite, EmailWrite, IssueSession,
       WriteMethod, SendMail, EmailRead, EmailLookup, PasswordRead, PasswordWrite, Logout,
       LogoutAll, Abandon
  <1>18. (\E w \in Wallets, t \in Tokens : CreateChallenge(w, t)) \/ UNCHANGED vars
         => call' = call
    BY DEF CreateChallenge, vars
  <1> QED
    BY <1>6, <1>9, <1>10, <1>11, <1>12, <1>13, <1>14, <1>15, <1>16, <1>17, <1>18 DEF Next

\* A session is one there was, or the one that was just issued.
LEMMA SessionsStep ==
    ASSUME Typed, Alive, [Next]_vars, NEW s \in Sessions, session'[s] # None,
           session'[s] # session[s]
    PROVE  \E c \in Callers :
              /\ call[c].user \in Users /\ row[call[c].user].known /\ row' = row
              /\ session'[s].user = call[c].user
              /\ session'[s].late \/ session'[s].epoch = row[call[c].user].epoch
  <1>0. session \in [Sessions -> Grants \cup {None}]
    BY DEF Typed, TypedTables
  <1>1. ASSUME NEW c \in Callers, NEW x \in Sessions, IssueSession(c, x)
        PROVE  \E d \in Callers :
                  /\ call[d].user \in Users /\ row[call[d].user].known /\ row' = row
                  /\ session'[s].user = call[d].user
                  /\ session'[s].late \/ session'[s].epoch = row[call[d].user].epoch
    <2> DEFINE g == [user |-> call[c].user, epoch |-> call[c].epoch,
                     late |-> call[c].epoch # row[call[c].user].epoch]
    <2>1. session' = [session EXCEPT ![x] = g] /\ row' = row
      BY <1>1 DEF IssueSession
    <2>2. g.user = call[c].user /\ (g.late \/ g.epoch = row[call[c].user].epoch)
      OBVIOUS
    <2>3. call[c].user \in Users /\ row[call[c].user].known
      BY <1>1, NoneAssumption DEF Typed, TypedCalls, Equipped, IssueSession, At, Alive
    <2> HIDE DEF g
    <2>4. session'[s] = g
      BY <1>0, <2>1
    <2> QED
      BY <2>1, <2>2, <2>3, <2>4
  <1>2. \A u : WithoutSessions(u)[s] \in {None, session[s]}
    BY DEF WithoutSessions
  <1>3. ASSUME NEW c \in Callers,
               ResetWrite(c) \/ PasswordWrite(c) \/ Logout(c) \/ LogoutAll(c)
        PROVE  FALSE
    BY <1>0, <1>2, <1>3 DEF ResetWrite, PasswordWrite, Logout, LogoutAll
  <1>4. ASSUME NEW c \in Callers,
               \/ \E e \in Emails : SignupLookup(c, e)
               \/ \E u \in Users, t \in Tokens :
                    SignupInsert(c, u, t) \/ VerifyRead(c, u, t) \/ ResetRead(c, u, t)
               \/ \E u \in Users : LoginRead(c, u) \/ ForgotRead(c, u)
               \/ \E t \in Tokens : ForgotWrite(c, t) \/ EmailWrite(c, t)
               \/ \E x \in Sessions, op \in Operations, e \in Emails \cup {None} :
                    Authorize(c, x, op, e)
               \/ \E w \in Wallets, t \in Tokens : VerifyChallenge(c, w, t)
               \/ WriteMethod(c) \/ SendMail(c) \/ VerifyWrite(c) \/ EmailRead(c)
               \/ EmailLookup(c) \/ PasswordRead(c) \/ Abandon(c)
        PROVE  session' = session
    BY <1>4 DEF SignupLookup, SignupInsert, VerifyRead, ResetRead, LoginRead, ForgotRead,
       ForgotWrite, EmailWrite, Authorize, VerifyChallenge, WriteMethod, SendMail, VerifyWrite,
       EmailRead, EmailLookup, PasswordRead, Abandon, tables
  <1>5. (\E w \in Wallets, t \in Tokens : CreateChallenge(w, t)) \/ Restart \/ UNCHANGED vars
         => session' = session
    BY DEF CreateChallenge, Restart, vars, tables
  <1>6. "email" \in Operations
    BY DEF Operations
  <1> QED
    BY <1>1, <1>3, <1>4, <1>5, <1>6 DEF Next

LEMMA AliveStep ==
    ASSUME Typed, Alive, [Next]_vars
    PROVE  Alive'
  <1>1. \A v \in Users : Risen(v)
    BY RowsRise
  <1>2. ASSUME NEW s \in Sessions, session'[s] # None
        PROVE  /\ row'[session'[s].user].known
               /\ session'[s].late \/ session'[s].epoch = row'[session'[s].user].epoch
    <2>1. CASE session'[s] # session[s]
      BY <1>2, <2>1, SessionsStep
    <2>2. CASE session'[s] = session[s]
      <3> DEFINE u == session[s].user
      <3>1. u \in Users /\ row[u].known /\ (session[s].late \/ session[s].epoch = row[u].epoch)
        BY <1>2, <2>2 DEF Typed, TypedTables, Grants, Alive, SessionsAreCurrent
      <3>2. session' # WithoutSessions(u)
        BY <1>2, <2>2 DEF WithoutSessions
      <3>3. row'[u].known /\ row'[u].epoch = row[u].epoch
        BY <1>1, <3>1, <3>2 DEF Risen
      <3> QED
        BY <2>2, <3>1, <3>3
    <2> QED
      BY <2>1, <2>2
  <1> QED
    BY <1>1, <1>2, CallsAlive DEF Alive, Risen, SessionsAreCurrent

LEMMA AliveInit == Init => Alive
  <1> SUFFICES ASSUME Init PROVE Alive
    OBVIOUS
  <1>1. PICK old \in SUBSET Wallets : row = [u \in Users |-> [NoAccount EXCEPT !.known = u \in old]]
    BY DEF Init
  <1>2. ASSUME NEW u \in Users PROVE row[u].known \/ row[u] = NoAccount
    <2>1. CASE u \in old
      BY <1>1, <2>1 DEF NoAccount
    <2>2. CASE u \notin old
      <3>1. (u \in old) = FALSE
        BY <2>2
      <3>2. row[u] = [NoAccount EXCEPT !.known = (u \in old)]
        BY <1>1
      <3>3. row[u] = [NoAccount EXCEPT !.known = FALSE]
        BY <3>1, <3>2
      <3> QED
        BY <3>3 DEF NoAccount
    <2> QED
      BY <2>1, <2>2
  <1> QED
    BY <1>2, IdleTyped DEF Init, Alive, SessionsAreCurrent

LEMMA AliveAlways == Spec => [](Typed /\ Alive)
  <1>1. Typed /\ Alive /\ [Next]_vars => (Typed /\ Alive)'
    BY TablesStep, CallsStep, AliveStep DEF Typed
  <1> QED
    BY <1>1, TypedInit, AliveInit, PTL DEF Spec

\* After a password is set there is no session from before it: the accounts of
\* sessions exist, and a password is set only together with the end of the
\* account's sessions, or on an account that has none.
THEOREM SessionsCorrect == Spec => []SessionsAreCurrent
  <1>1. Alive => SessionsAreCurrent
    BY DEF Alive
  <1> QED
    BY <1>1, AliveAlways, PTL

-----------------------------------------------------------------------------
(* Verified addresses.                                                     *)

\* A row that the step leaves alone.
LEMMA RowMailed ==
    ASSUME Typed, Mailed, \A x \in Tokens : Kept(x), strayed \subseteq strayed',
           NEW u \in Users, row'[u] = row[u], proven'[u] = proven[u]
    PROVE  MailedRow(u)'
  <1>1. row[u] \in Accounts /\ Column(u) /\ MailedRow(u)
    BY DEF Typed, TypedTables, Mailed
  <1>2. row[u].verification \in Tokens \cup {None} /\ row[u].reset \in Tokens \cup {None}
    BY <1>1 DEF Accounts
  <1>3. /\ row[u].verification # None =>
              link'[row[u].verification].to = link[row[u].verification].to
        /\ row[u].reset # None => link'[row[u].reset].to = link[row[u].reset].to
    BY <1>1, <1>2 DEF Column, Kept
  <1> QED
    BY <1>1, <1>3 DEF MailedRow

\* A request that the step leaves alone.
LEMMA CallMailed ==
    ASSUME Typed, Mailed, \A x \in Tokens : Kept(x), strayed \subseteq strayed',
           NEW d \in Callers, call'[d] = call[d],
           \/ call[d].user \in strayed'
           \/ call[d].stage \notin {"verify", "forgot", "reset"}
           \/ row'[call[d].user].email = row[call[d].user].email
    PROVE  MailedCall(call[d])'
  <1>1. call[d] \in Calls /\ Equipped(call[d]) /\ MailedCall(call[d])
    BY DEF Typed, TypedCalls, Mailed
  <1>2. call[d].stage \in {"verify", "reset"} =>
            link'[call[d].token].to = link[call[d].token].to
    BY <1>1 DEF Equipped, Kept
  <1> QED
    BY <1>1, <1>2 DEF MailedCall

\* What a request does to itself when it begins, goes on or ends.
LEMMA OwnCall ==
    ASSUME Typed, Mailed, [Next]_vars, NEW c \in Callers, call'[c] # call[c]
    PROVE  MailedCall(call[c])'
  <1>0. /\ call \in [Callers -> Calls]
        /\ \A u \in Users : row[u] \in Accounts /\ Column(u) /\ MailedRow(u)
    BY DEF Typed, TypedTables, TypedCalls, Mailed
  <1>1. CASE call'[c].stage \notin {"verify", "forgot", "reset"}
    BY <1>1 DEF MailedCall
  <1>2. ASSUME NEW u \in Users, ForgotRead(c, u) PROVE MailedCall(call[c])'
    <2> DEFINE k == [Idle EXCEPT !.stage = "forgot", !.user = u, !.email = row[u].email]
    <2>1. k.stage = "forgot" /\ k.user = u /\ k.email = row[u].email
      BY DEF Idle
    <2>2. call' = [call EXCEPT ![c] = k] /\ row' = row
      BY <1>2 DEF ForgotRead, tables
    <2>3. call'[c] = k
      BY <1>0, <2>2
    <2> HIDE DEF k
    <2> QED
      BY <2>1, <2>2, <2>3 DEF MailedCall
  <1>3. ASSUME NEW u \in Users, NEW t \in Tokens, VerifyRead(c, u, t) \/ ResetRead(c, u, t)
        PROVE  MailedCall(call[c])'
    <2> DEFINE k(stage) == [Idle EXCEPT !.stage = stage, !.user = u, !.token = t]
    <2>1. \A stage \in {"verify", "reset"} :
             k(stage).stage = stage /\ k(stage).user = u /\ k(stage).token = t
      BY DEF Idle
    <2>2. PICK stage \in {"verify", "reset"} : call' = [call EXCEPT ![c] = k(stage)]
      BY <1>3 DEF VerifyRead, ResetRead
    <2>3. call'[c] = k(stage)
      BY <1>0, <2>2
    <2>4. UNCHANGED <<link, row, strayed>>
      BY <1>3 DEF VerifyRead, ResetRead, tables
    <2>5. u \notin strayed => link[t].to = row[u].email
      BY <1>0, <1>3, NoneAssumption DEF VerifyRead, ResetRead, MailedRow
    <2> HIDE DEF k
    <2> QED
      BY <2>1, <2>3, <2>4, <2>5 DEF MailedCall
  <1> QED
    BY <1>1, <1>2, <1>3, NewHolder

\* An account that changes its address has no link to the old one, or strays.
Steady(u) ==
    \/ row'[u].email = row[u].email
    \/ ~row[u].known
    \/ u \in strayed'
    \/ \A d \in Callers : call'[d] = call[d] /\ call[d].user = u =>
          call[d].stage \notin {"verify", "forgot", "reset"}

Addresses == strayed \subseteq strayed' /\ \A u \in Users : MailedRow(u)' /\ Steady(u)

LEMMA OneAddress ==
    ASSUME Typed, Mailed, \A x \in Tokens : Kept(x), strayed \subseteq strayed',
           NEW u \in Users, \A v \in Users \ {u} : row'[v] = row[v] /\ proven'[v] = proven[v],
           MailedRow(u)', Steady(u)
    PROVE  Addresses
  BY RowMailed DEF Addresses, Steady

LEMMA VerifyAddress ==
    ASSUME Typed, Mailed, \A x \in Tokens : Kept(x), NEW c \in Callers,
           VerifyWrite(c) \/ ResetWrite(c)
    PROVE  Addresses
  <1>0. PICK u \in Users : u = call[c].user
    BY DEF Typed, TypedCalls, Equipped, VerifyWrite, ResetWrite, At
  <1> DEFINE k == call[c].token
  <1>1. /\ u \in Users /\ k \in Tokens /\ row \in [Users -> Accounts] /\ row[u] \in Accounts
        /\ proven \in [Users -> Emails \cup {None}]
        /\ Column(u) /\ MailedRow(u) /\ MailedCall(call[c]) /\ call[c].stage \in {"verify", "reset"}
    BY <1>0 DEF Typed, TypedTables, TypedCalls, Equipped, Mailed, VerifyWrite, ResetWrite, At
  <1>2. u \notin strayed => link[k].to = row[u].email
    BY <1>0, <1>1 DEF MailedCall
  <1>3. /\ \/ row' = [row EXCEPT ![u].verified = TRUE, ![u].verification = None]
           \/ row' = [row EXCEPT ![u].epoch = @ + 1, ![u].reset = None, ![u].verified = TRUE]
        /\ proven' = [proven EXCEPT ![u] = link[k].to]
        /\ strayed' = strayed /\ link' = link
    BY <1>0 DEF VerifyWrite, ResetWrite
  <1> HIDE DEF k
  <1>4. /\ row'[u].email = row[u].email
        /\ row'[u].verification \in {None, row[u].verification}
        /\ row'[u].reset \in {None, row[u].reset}
        /\ \A v \in Users \ {u} : row'[v] = row[v]
    BY <1>1, <1>3 DEF Accounts
  <1>5. proven'[u] = link[k].to /\ \A v \in Users \ {u} : proven'[v] = proven[v]
    BY <1>1, <1>3
  <1>6. MailedRow(u)' /\ Steady(u)
    BY <1>1, <1>2, <1>3, <1>4, <1>5 DEF MailedRow, Steady
  <1> QED
    BY <1>1, <1>3, <1>4, <1>5, <1>6, OneAddress

LEMMA ForgotAddress ==
    ASSUME Typed, Mailed, \A x \in Tokens : Kept(x), NEW c \in Callers, NEW t \in Tokens,
           ForgotWrite(c, t)
    PROVE  Addresses
  <1>0. PICK u \in Users : u = call[c].user
    BY DEF Typed, TypedCalls, Equipped, ForgotWrite, At
  <1> DEFINE e == call[c].email
  <1>1. /\ TypedTables /\ u \in Users /\ e \in Emails
        /\ row \in [Users -> Accounts] /\ row[u] \in Accounts
        /\ Column(u) /\ MailedRow(u) /\ MailedCall(call[c]) /\ call[c].stage = "forgot"
    BY <1>0 DEF Typed, TypedTables, TypedCalls, Equipped, Mailed, ForgotWrite, At
  <1>2. u \notin strayed => e = row[u].email
    BY <1>0, <1>1 DEF MailedCall
  <1>3. /\ row' = [row EXCEPT ![u].reset = t] /\ Mint(t, "reset", e)
        /\ proven' = proven /\ strayed' = strayed
    BY <1>0 DEF ForgotWrite, ghosts
  <1> HIDE DEF e
  <1>4. /\ row'[u].email = row[u].email /\ row'[u].verified = row[u].verified
        /\ row'[u].verification = row[u].verification /\ row'[u].reset = t
        /\ \A v \in Users \ {u} : row'[v] = row[v]
    BY <1>1, <1>3 DEF Accounts
  <1>5. link'[t].to = e
    BY <1>1, <1>3, MintTyped
  <1>6. row[u].verification # None => link'[row[u].verification].to = link[row[u].verification].to
    BY <1>1 DEF Accounts, Column, Kept
  <1>7. MailedRow(u)' /\ Steady(u)
    BY <1>1, <1>2, <1>3, <1>4, <1>5, <1>6 DEF MailedRow, Steady
  <1> QED
    BY <1>1, <1>3, <1>4, <1>7, OneAddress

LEMMA SignupAddress ==
    ASSUME Typed, Mailed, \A x \in Tokens : Kept(x), NEW c \in Callers, NEW u \in Users,
           NEW t \in Tokens, SignupInsert(c, u, t), row' # row
    PROVE  Addresses
  <1> DEFINE e == call[c].email
             r == [NoAccount EXCEPT !.known = TRUE, !.email = e, !.verification = t, !.epoch = 1]
  <1>1. /\ ~row[u].known /\ Mint(t, "verify", e) /\ row' = [row EXCEPT ![u] = r]
        /\ proven' = proven /\ strayed' = strayed
    BY DEF SignupInsert, ghosts
  <1>2. r.email = e /\ r.verification = t /\ r.reset = None /\ ~r.verified
    BY DEF NoAccount
  <1>3. TypedTables /\ e \in Emails /\ row \in [Users -> Accounts]
    BY DEF Typed, TypedTables, TypedCalls, Equipped, SignupInsert, At
  <1> HIDE DEF r, e
  <1>4. row'[u] = r /\ \A v \in Users \ {u} : row'[v] = row[v]
    BY <1>1, <1>3
  <1>5. link'[t].to = e
    BY <1>1, <1>3, MintTyped
  <1>6. MailedRow(u)' /\ Steady(u)
    BY <1>1, <1>2, <1>4, <1>5 DEF MailedRow, Steady
  <1> QED
    BY <1>1, <1>4, <1>6, OneAddress

LEMMA ChangedAddress ==
    ASSUME Typed, Mailed, \A x \in Tokens : Kept(x), NEW c \in Callers, NEW t \in Tokens,
           EmailWrite(c, t), row' # row
    PROVE  Addresses
  <1>0. PICK u \in Users : u = call[c].user
    BY DEF Typed, TypedCalls, Equipped, EmailWrite, At
  <1> DEFINE e == call[c].email
  <1>1. /\ TypedTables /\ u \in Users /\ e \in Emails /\ call \in [Callers -> Calls]
        /\ row \in [Users -> Accounts] /\ row[u] \in Accounts /\ call[c].stage = "change"
        /\ proven \in [Users -> Emails \cup {None}]
    BY <1>0 DEF Typed, TypedTables, TypedCalls, Equipped, EmailWrite, At
  <1>2. /\ row' = [row EXCEPT ![u].email = e, ![u].verified = FALSE, ![u].verification = t]
        /\ Mint(t, "verify", e) /\ proven' = [proven EXCEPT ![u] = None]
        /\ strayed' = IF Strays(c, u, e) THEN strayed \cup {u} ELSE strayed
    BY <1>0 DEF EmailWrite
  <1> HIDE DEF e
  <1>3. /\ row'[u].email = e /\ ~row'[u].verified
        /\ row'[u].verification = t /\ row'[u].reset = row[u].reset
        /\ \A v \in Users \ {u} : row'[v] = row[v] /\ proven'[v] = proven[v]
    BY <1>1, <1>2 DEF Accounts
  <1>4. link'[t].to = e
    BY <1>1, <1>2, MintTyped
  <1>5. CASE Strays(c, u, e)
    <2>1. u \in strayed' /\ strayed \subseteq strayed'
      BY <1>2, <1>5
    <2>2. MailedRow(u)' /\ Steady(u)
      BY <2>1 DEF MailedRow, Steady
    <2> QED
      BY <1>1, <1>3, <2>1, <2>2, OneAddress
  <1>6. CASE row[u].email # e /\ ~Outstanding(c, u)
    <2>1. row[u].reset = None /\ strayed' = strayed
          /\ \A d \in Callers : call[d].user = u =>
                call[d].stage \notin {"verify", "forgot", "reset"}
      BY <1>1, <1>2, <1>6 DEF Strays, Outstanding
    <2>2. MailedRow(u)' /\ Steady(u)
      BY <1>3, <1>4, <2>1 DEF MailedRow, Steady
    <2> QED
      BY <1>1, <1>3, <2>1, <2>2, OneAddress
  \* The account has the address already: another update has overtaken this one.
  <1>7. CASE row[u].email = e
    <2>1. strayed' = strayed
      BY <1>2, <1>7 DEF Strays
    <2>2. Column(u) /\ MailedRow(u) /\ row[u].reset \in Tokens \cup {None}
      BY <1>1 DEF Typed, TypedTables, Mailed, Accounts
    <2>3. row[u].reset # None => link'[row[u].reset].to = link[row[u].reset].to
      BY <2>2 DEF Column, Kept
    <2>4. MailedRow(u)' /\ Steady(u)
      BY <1>3, <1>4, <1>7, <2>1, <2>2, <2>3 DEF MailedRow, Steady
    <2> QED
      BY <1>1, <1>3, <2>1, <2>4, OneAddress
  <1> QED
    BY <1>5, <1>6, <1>7 DEF Strays

LEMMA AddressesStep ==
    ASSUME Typed, Mailed, [Next]_vars
    PROVE  Addresses
  <1>0. \A x \in Tokens : Kept(x)
    BY TablesStep
  <1>1. ASSUME row' = row, proven' = proven, strayed' = strayed PROVE Addresses
    BY <1>0, <1>1, RowMailed DEF Addresses, Steady
  <1>2. ASSUME NEW c \in Callers, PasswordWrite(c) PROVE Addresses
    <2>0. PICK u \in Users : u = call[c].user
      BY <1>2 DEF Typed, TypedCalls, Equipped, PasswordWrite, At
    <2>1. /\ u \in Users /\ row \in [Users -> Accounts] /\ row[u] \in Accounts /\ MailedRow(u)
          /\ row' = [row EXCEPT ![u].epoch = @ + 1]
          /\ link' = link /\ proven' = proven /\ strayed' = strayed
      BY <1>2, <2>0 DEF Typed, TypedTables, TypedCalls, Equipped, Mailed, PasswordWrite, At, ghosts
    <2>2. /\ row'[u].email = row[u].email /\ row'[u].verified = row[u].verified
          /\ row'[u].verification = row[u].verification /\ row'[u].reset = row[u].reset
          /\ \A v \in Users \ {u} : row'[v] = row[v]
      BY <2>1 DEF Accounts
    <2>3. MailedRow(u)' /\ Steady(u)
      BY <2>1, <2>2 DEF MailedRow, Steady
    <2> QED
      BY <1>0, <2>1, <2>2, <2>3, OneAddress
  <1>3. ASSUME NEW c \in Callers, NEW w \in Wallets, NEW t \in Tokens, VerifyChallenge(c, w, t)
        PROVE Addresses
    <2>1. w \in Users /\ proven' = proven /\ strayed' = strayed /\ link' = link
      BY <1>3, WalletsAssumption DEF VerifyChallenge
    <2>2. CASE row' = [row EXCEPT ![w].known = TRUE]
      <3>1. /\ row'[w].email = row[w].email /\ row'[w].verified = row[w].verified
            /\ row'[w].verification = row[w].verification /\ row'[w].reset = row[w].reset
            /\ \A v \in Users \ {w} : row'[v] = row[v]
        BY <2>1, <2>2 DEF Typed, TypedTables, Accounts
      <3>2. MailedRow(w)' /\ Steady(w)
        BY <2>1, <3>1 DEF Mailed, MailedRow, Steady
      <3> QED
        BY <1>0, <2>1, <3>1, <3>2, OneAddress
    <2> QED
      BY <1>1, <1>3, <2>1, <2>2 DEF VerifyChallenge
  <1>4. ASSUME NEW c \in Callers,
               \/ \E e \in Emails : SignupLookup(c, e)
               \/ \E u \in Users, t \in Tokens : VerifyRead(c, u, t) \/ ResetRead(c, u, t)
               \/ \E u \in Users : LoginRead(c, u) \/ ForgotRead(c, u)
               \/ \E s \in Sessions : IssueSession(c, s)
               \/ \E s \in Sessions, op \in Operations, e \in Emails \cup {None} :
                    Authorize(c, s, op, e)
               \/ WriteMethod(c) \/ SendMail(c) \/ EmailRead(c) \/ EmailLookup(c)
               \/ PasswordRead(c) \/ Logout(c) \/ LogoutAll(c) \/ Abandon(c)
        PROVE  UNCHANGED <<row, proven, strayed>>
    BY <1>4 DEF SignupLookup, VerifyRead, ResetRead, LoginRead, ForgotRead, IssueSession,
       Authorize, WriteMethod, SendMail, EmailRead, EmailLookup, PasswordRead, Logout,
       LogoutAll, Abandon, tables, ghosts
  <1>5. (\E w \in Wallets, t \in Tokens : CreateChallenge(w, t)) \/ Restart \/ UNCHANGED vars
         => UNCHANGED <<row, proven, strayed>>
    BY DEF CreateChallenge, Restart, vars, tables, ghosts
  <1>6. ASSUME NEW c \in Callers,
               \/ \E u \in Users, t \in Tokens : SignupInsert(c, u, t)
               \/ \E t \in Tokens : EmailWrite(c, t),
               row' = row
        PROVE  UNCHANGED <<row, proven, strayed>>
    <2>1. \A t \in Tokens : EmailWrite(c, t) => UNCHANGED <<row, proven, strayed>>
      <3> SUFFICES ASSUME NEW t \in Tokens, EmailWrite(c, t), 
                          row' = [row EXCEPT ![call[c].user].email = call[c].email,
                                             ![call[c].user].verified = FALSE,
                                             ![call[c].user].verification = t],
                          Mint(t, "verify", call[c].email)
                   PROVE  FALSE
        BY <1>6 DEF EmailWrite
      <3>1. call[c].user \in Users /\ row \in [Users -> Accounts]
            /\ row[call[c].user] \in Accounts /\ Column(call[c].user)
        BY DEF Typed, TypedTables, TypedCalls, Equipped, EmailWrite, At
      <3>2. row'[call[c].user].verification = t
        BY <3>1 DEF Accounts
      <3>3. link[t].kind = "none" /\ t # None
        BY NoneAssumption DEF Mint, Unused
      <3> QED
        BY <1>6, <3>1, <3>2, <3>3 DEF Column
    <2>2. \A u \in Users, t \in Tokens : SignupInsert(c, u, t) => UNCHANGED <<proven, strayed>>
      BY DEF SignupInsert, ghosts
    <2> QED
      BY <1>6, <2>1, <2>2
  <1>7. "email" \in Operations
    BY DEF Operations
  <1> QED
    BY <1>0, <1>1, <1>2, <1>3, <1>4, <1>5, <1>6, <1>7, VerifyAddress, ForgotAddress,
       SignupAddress, ChangedAddress DEF Next

LEMMA MailedStep ==
    ASSUME Typed, Alive, Mailed, [Next]_vars
    PROVE  Mailed'
  <1>1. Addresses /\ \A x \in Tokens : Kept(x)
    BY AddressesStep, TablesStep
  <1>2. ASSUME NEW d \in Callers PROVE MailedCall(call[d])'
    <2>1. CASE call'[d] # call[d]
      BY <2>1, OwnCall
    <2>2. CASE call'[d] = call[d]
      <3>1. CASE call[d].stage \in {"verify", "forgot", "reset"}
        <4>1. call[d].user \in Users /\ row[call[d].user].known
          BY <3>1, NoneAssumption DEF Typed, TypedCalls, Equipped, Alive
        <4>2. Steady(call[d].user)
          BY <1>1, <4>1 DEF Addresses
        <4>3. \/ call[d].user \in strayed'
              \/ row'[call[d].user].email = row[call[d].user].email
          BY <2>2, <3>1, <4>1, <4>2 DEF Steady
        <4> QED
          BY <1>1, <2>2, <4>3, CallMailed DEF Addresses
      <3> QED
        BY <1>1, <2>2, <3>1, CallMailed DEF Addresses
    <2> QED
      BY <2>1, <2>2
  <1> QED
    BY <1>1, <1>2 DEF Mailed, Addresses

LEMMA MailedInit == Init => Mailed
  <1> SUFFICES ASSUME Init PROVE Mailed
    OBVIOUS
  <1>1. PICK old \in SUBSET Wallets : row = [u \in Users |-> [NoAccount EXCEPT !.known = u \in old]]
    BY DEF Init
  <1>2. ASSUME NEW u \in Users PROVE MailedRow(u)
    <2>1. row[u].verification = None /\ row[u].reset = None /\ ~row[u].verified
      BY <1>1 DEF NoAccount
    <2> QED
      BY <2>1 DEF MailedRow
  <1>3. ASSUME NEW c \in Callers PROVE MailedCall(call[c])
    BY IdleTyped DEF Init, MailedCall
  <1> QED
    BY <1>2, <1>3 DEF Mailed

\* A verified address has been proven: links are to the address their account
\* has, in the row and with the request that has read it, and an account whose
\* address changes under one strays.
THEOREM VerifiedCorrect == Spec => []VerifiedIsProven
  <1>1. Typed /\ Alive /\ Mailed /\ [Next]_vars => (Typed /\ Alive /\ Mailed)'
    BY TablesStep, CallsStep, AliveStep, MailedStep DEF Typed
  <1>2. Mailed => VerifiedIsProven
    BY DEF Mailed, MailedRow, VerifiedIsProven
  <1> QED
    BY <1>1, <1>2, TypedInit, AliveInit, MailedInit, PTL DEF Spec

-----------------------------------------------------------------------------
(* Tokens.                                                                 *)

\* No request comes to hold the token.
Passed(t) ==
    \A d \in Callers : Holds(d, t)' => Holds(d, t) /\ call'[d].user = call[d].user

\* A token that the step neither makes, nor uses, nor gives to anyone.
LEMMA QuietHeld ==
    ASSUME Held, NEW t \in Tokens, link'[t].kind = link[t].kind, uses'[t] = uses[t],
           t \in shared <=> t \in shared', \A u \in Users : Stored(u, t)' => Stored(u, t), Passed(t)
    PROVE  HeldToken(t)'
  <1>1. HeldToken(t)
    BY DEF Held
  <1> QED
    BY <1>1 DEF HeldToken, Passed

\* What has not been made, and what was made for a wallet, is in no row and
\* with no request.
LEMMA Fresh ==
    ASSUME Typed, NEW t \in Tokens, link[t].kind \in {"none", "nonce"}
    PROVE  /\ \A u \in Users : ~Stored(u, t)
           /\ \A c \in Callers : ~Holds(c, t)
  BY NoneAssumption DEF Typed, TypedTables, TypedCalls, Column, Equipped, Stored, Holds

LEMMA NobodyTakes ==
    ASSUME Typed, [Next]_vars, NEW t \in Tokens,
           \A c \in Callers, u \in Users, x \in Tokens :
              ~VerifyRead(c, u, x) /\ ~ResetRead(c, u, x)
    PROVE  Passed(t)
  <1> SUFFICES ASSUME NEW d \in Callers, Holds(d, t)'
               PROVE  Holds(d, t) /\ call'[d].user = call[d].user
    BY DEF Passed
  <1>1. CASE call'[d] = call[d]
    BY <1>1 DEF Holds
  <1>2. CASE call'[d] # call[d]
    <2>1. PICK u \in Users : ForgotRead(d, u)
      BY <1>2, NewHolder DEF Holds
    <2> DEFINE k == [Idle EXCEPT !.stage = "forgot", !.user = u, !.email = row[u].email]
    <2>2. k.stage = "forgot"
      BY DEF Idle
    <2>3. call' = [call EXCEPT ![d] = k] /\ call \in [Callers -> Calls]
      BY <2>1 DEF ForgotRead, Typed, TypedCalls
    <2>4. call'[d] = k
      BY <2>3
    <2> QED
      BY <2>2, <2>4 DEF Holds
  <1> QED
    BY <1>1, <1>2

\* A link is read: with another request that has it, it is shared.
LEMMA ReadHeld ==
    ASSUME Typed, Held, NEW c \in Callers, NEW u \in Users, NEW t \in Tokens,
           VerifyRead(c, u, t) \/ ResetRead(c, u, t)
    PROVE  \A x \in Tokens : HeldToken(x)'
  <1> DEFINE k(stage) == [Idle EXCEPT !.stage = stage, !.user = u, !.token = t]
  <1>1. \A stage \in {"verify", "reset"} :
           k(stage).stage = stage /\ k(stage).user = u /\ k(stage).token = t
    BY DEF Idle
  <1>2. PICK stage \in {"verify", "reset"} : call' = [call EXCEPT ![c] = k(stage)]
    BY DEF VerifyRead, ResetRead
  <1> HIDE DEF k
  <1>3. /\ call'[c].stage = stage /\ call'[c].user = u /\ call'[c].token = t
        /\ \A d \in Callers \ {c} : call'[d] = call[d]
    BY <1>1, <1>2 DEF Typed, TypedCalls
  <1>4. UNCHANGED <<row, link, uses>> /\ Stored(u, t) /\ Presented(c, t) /\ shared \subseteq Tokens
    BY DEF VerifyRead, ResetRead, Stored, tables, Typed, TypedTables
  <1>5. ASSUME NEW x \in Tokens \ {t} PROVE HeldToken(x)'
    <2>1. Passed(x)
      BY <1>3 DEF Passed, Holds
    <2>2. x \in shared <=> x \in shared'
      BY <1>4 DEF Presented
    <2>3. \A v \in Users : Stored(v, x)' => Stored(v, x)
      BY <1>4 DEF Stored
    <2> QED
      BY <1>4, <2>1, <2>2, <2>3, QuietHeld
  <1>6. HeldToken(t)'
    <2>1. HeldToken(t)
      BY DEF Held
    <2>2. \A v \in Users : Stored(v, t)' <=> Stored(v, t)
      BY <1>4 DEF Stored
    <2>3. \A d \in Callers \ {c} : (Holds(d, t)' <=> Holds(d, t)) /\ call'[d].user = call[d].user
      BY <1>3 DEF Holds
    <2>4. t \notin shared' => t \notin shared /\ \A d \in Callers \ {c} : ~Holds(d, t)
      BY <1>4 DEF Presented, Holds
    <2> QED
      BY <1>3, <1>4, <2>1, <2>2, <2>3, <2>4 DEF HeldToken
  <1> QED
    BY <1>5, <1>6

\* A link takes effect: its request is done with it, and its row holds it no more.
LEMMA SpentHeld ==
    ASSUME Typed, Held, NEW c \in Callers, VerifyWrite(c) \/ ResetWrite(c),
           \A x \in Tokens : Passed(x)
    PROVE  \A x \in Tokens : HeldToken(x)'
  <1>0. /\ TypedTables /\ call[c].user \in Users /\ call[c].token \in Tokens
        /\ call[c].stage \in {"verify", "reset"} /\ link[call[c].token].kind = call[c].stage
        /\ Column(call[c].user)
    BY DEF Typed, TypedTables, TypedCalls, Equipped, VerifyWrite, ResetWrite, At
  <1>1. PICK u \in Users, k \in Tokens : u = call[c].user /\ k = call[c].token
    BY <1>0
  <1>2. /\ link' = link /\ shared' = shared /\ Spent(k)
        /\ \/ call[c].stage = "verify"
              /\ row' = [row EXCEPT ![u].verified = TRUE, ![u].verification = None]
           \/ call[c].stage = "reset"
              /\ row' = [row EXCEPT ![u].epoch = @ + 1, ![u].reset = None, ![u].verified = TRUE]
    BY <1>1 DEF VerifyWrite, ResetWrite, At
  <1>3. /\ \A v \in Users \ {u} : row'[v] = row[v]
        /\ row'[u].verification \in {None, row[u].verification}
        /\ row'[u].reset \in {None, row[u].reset}
        /\ call[c].stage = "verify" => row'[u].verification = None
        /\ call[c].stage = "reset" => row'[u].reset = None
    BY <1>0, <1>2 DEF TypedTables, Accounts
  <1>4. \A v \in Users, x \in Tokens : Stored(v, x)' => Stored(v, x)
    BY <1>3, NoneAssumption DEF Stored
  <1>5. ~Stored(u, k)'
    BY <1>0, <1>1, <1>3, NoneAssumption DEF Stored, Column
  <1>6. ~Holds(c, k)'
    <2>1. \A n : [Idle EXCEPT !.stage = "session", !.user = u, !.epoch = n].stage = "session"
      BY DEF Idle
    <2>2. \A n : SignIn(c, u, n) => call'[c].stage = "session"
      BY <2>1 DEF SignIn, Typed, TypedCalls
    <2> QED
      BY <1>1, <2>2 DEF VerifyWrite, ResetWrite, Holds
  <1>7. ASSUME NEW x \in Tokens \ {k} PROVE HeldToken(x)'
    BY <1>0, <1>2, <1>4, <1>7, SpentTyped, QuietHeld
  <1>8. HeldToken(k)'
    <2>1. HeldToken(k) /\ Holds(c, k)
      BY <1>0, <1>1 DEF Held, Holds
    <2>2. uses'[k] = uses[k] + 1 /\ uses[k] \in Nat /\ link[k].kind \in {"verify", "reset"}
      BY <1>0, <1>1, <1>2, SpentTyped DEF TypedTables
    <2>3. k \notin shared => uses[k] = 0
      BY <2>1, <2>2 DEF HeldToken
    <2>4. \A v \in Users : Stored(v, k)' => v = u
      BY <1>1, <1>4, <2>1 DEF HeldToken
    <2>5. \A d \in Callers : Holds(d, k)' => Holds(d, k) /\ call'[d].user = call[d].user
      BY DEF Passed
    <2>6. k \notin shared => \A d \in Callers : ~Holds(d, k)'
      BY <1>6, <2>1, <2>5 DEF HeldToken
    <2>7. \A v \in Users : ~Stored(v, k)'
      BY <1>5, <2>4
    <2> QED
      BY <1>2, <2>2, <2>3, <2>6, <2>7 DEF HeldToken
  <1> QED
    BY <1>7, <1>8

\* A token is made, and stored in one row.
LEMMA MintHeld ==
    ASSUME Typed, Held, NEW t \in Tokens, NEW kind \in {"verify", "reset"}, NEW to \in Emails,
           Mint(t, kind, to), uses' = uses, shared' = shared, NEW u \in Users,
           \A v \in Users \ {u} : row'[v] = row[v],
           row'[u].verification \in {None, t, row[u].verification},
           row'[u].reset \in {None, t, row[u].reset},
           \A x \in Tokens : Passed(x)
    PROVE  \A x \in Tokens : HeldToken(x)'
  <1>1. /\ link[t].kind = "none" /\ link'[t].kind = kind
        /\ \A x \in Tokens \ {t} : link'[x] = link[x]
    BY MintTyped DEF Typed
  <1>2. ASSUME NEW x \in Tokens \ {t} PROVE HeldToken(x)'
    <2>1. \A v \in Users : Stored(v, x)' => Stored(v, x)
      BY NoneAssumption DEF Stored
    <2> QED
      BY <1>1, <2>1, QuietHeld
  <1>3. HeldToken(t)'
    <2>1. uses[t] = 0
      BY <1>1 DEF Held, HeldToken
    <2>2. (\A v \in Users : ~Stored(v, t)) /\ (\A c \in Callers : ~Holds(c, t))
      BY <1>1, Fresh
    <2>3. \A v \in Users : Stored(v, t)' => v = u
      BY <2>2 DEF Stored
    <2>4. \A c \in Callers : ~Holds(c, t)'
      BY <2>2 DEF Passed
    <2> QED
      BY <1>1, <2>1, <2>3, <2>4 DEF HeldToken
  <1> QED
    BY <1>2, <1>3

\* The challenge of a wallet is taken for its signature.
LEMMA SignatureHeld ==
    ASSUME Typed, Held, NEW c \in Callers, NEW w \in Wallets, NEW t \in Tokens,
           VerifyChallenge(c, w, t), \A x \in Tokens : Passed(x)
    PROVE  /\ \A x \in Tokens : HeldToken(x)'
           /\ \A v \in Wallets : HeldChallenge(v)'
  <1>1. /\ TypedTables /\ w \in Users /\ link[t].kind = "nonce" /\ link[t].to = w
        /\ UNCHANGED <<link, shared>> /\ challenge' = [challenge EXCEPT ![w] = None]
    BY WalletsAssumption DEF Typed, VerifyChallenge
  <1>2. ASSUME NEW v \in Users, NEW x \in Tokens, Stored(v, x)' PROVE Stored(v, x)
    <2>1. row'[v].verification = row[v].verification /\ row'[v].reset = row[v].reset
      BY <1>1 DEF VerifyChallenge, TypedTables, Accounts
    <2> QED
      BY <1>2, <2>1 DEF Stored
  <1>3. challenge'[w] = None /\ \A v \in Wallets \ {w} : challenge'[v] = challenge[v]
    BY <1>1 DEF TypedTables
  <1>4. CASE uses' = uses
    <2>1. \A x \in Tokens : HeldToken(x)'
      BY <1>1, <1>2, <1>4, QuietHeld
    <2>2. \A v \in Wallets : HeldChallenge(v)'
      BY <1>1, <1>3, <1>4 DEF Held, HeldChallenge
    <2> QED
      BY <2>1, <2>2
  <1>5. CASE challenge[w] = t /\ Spent(t)
    <2>1. uses'[t] = uses[t] + 1 /\ \A x \in Tokens \ {t} : uses'[x] = uses[x]
      BY <1>1, <1>5, SpentTyped
    <2>2. uses[t] = 0
      BY <1>5, NoneAssumption DEF Held, HeldChallenge
    <2>3. \A x \in Tokens \ {t} : HeldToken(x)'
      BY <1>1, <1>2, <2>1, QuietHeld
    <2>4. HeldToken(t)'
      <3>1. (\A v \in Users : ~Stored(v, t)') /\ (\A d \in Callers : ~Holds(d, t)')
        BY <1>1, <1>2, Fresh DEF Passed
      <3> QED
        BY <1>1, <2>1, <2>2, <3>1 DEF HeldToken
    <2>5. ASSUME NEW v \in Wallets PROVE HeldChallenge(v)'
      <3>1. challenge[v] # None => link[challenge[v]].to = v
        BY DEF Held, HeldChallenge
      <3>2. CASE v = w
        BY <1>3, <3>2 DEF HeldChallenge
      <3>3. CASE v # w
        <4>1. challenge'[v] = challenge[v] /\ challenge[v] \in Tokens \cup {None}
              /\ challenge[v] # t
          BY <1>1, <1>3, <3>1, <3>3, NoneAssumption DEF TypedTables
        <4> QED
          BY <1>1, <2>1, <4>1 DEF Held, HeldChallenge
      <3> QED
        BY <3>2, <3>3
    <2> QED
      BY <2>3, <2>4, <2>5
  <1> QED
    BY <1>4, <1>5 DEF VerifyChallenge

\* A wallet is given a new challenge.
LEMMA ChallengeHeld ==
    ASSUME Typed, Held, NEW w \in Wallets, NEW t \in Tokens, CreateChallenge(w, t),
           \A x \in Tokens : Passed(x)
    PROVE  /\ \A x \in Tokens : HeldToken(x)'
           /\ \A v \in Wallets : HeldChallenge(v)'
  <1> DEFINE new == [Unused EXCEPT !.kind = "nonce", !.to = w, !.sent = TRUE]
  <1>1. /\ TypedTables /\ link[t] = Unused /\ link' = [link EXCEPT ![t] = new]
        /\ challenge' = [challenge EXCEPT ![w] = t] /\ UNCHANGED <<row, uses, shared>>
    BY DEF Typed, CreateChallenge, ghosts
  <1>2. new.kind = "nonce" /\ new.to = w /\ Unused.kind = "none"
    BY DEF Unused
  <1> HIDE DEF new
  <1>3. link[t].kind = "none" /\ link'[t] = new /\ \A x \in Tokens \ {t} : link'[x] = link[x]
    BY <1>1, <1>2 DEF TypedTables
  <1>4. \A v \in Users, x \in Tokens : Stored(v, x)' => Stored(v, x)
    BY <1>1 DEF Stored
  <1>5. uses[t] = 0
    BY <1>3 DEF Held, HeldToken
  <1>6. \A x \in Tokens \ {t} : HeldToken(x)'
    BY <1>1, <1>3, <1>4, QuietHeld
  <1>7. HeldToken(t)'
    <2>1. (\A v \in Users : ~Stored(v, t)') /\ (\A d \in Callers : ~Holds(d, t)')
      BY <1>3, <1>4, Fresh DEF Passed
    <2> QED
      BY <1>1, <1>2, <1>3, <1>5, <2>1 DEF HeldToken
  <1>8. ASSUME NEW v \in Wallets PROVE HeldChallenge(v)'
    <2>1. CASE v = w
      BY <1>1, <1>2, <1>3, <1>5, <2>1 DEF HeldChallenge, TypedTables
    <2>2. CASE v # w
      <3>1. challenge'[v] = challenge[v] /\ challenge[v] \in Tokens \cup {None}
        BY <1>1, <2>2 DEF TypedTables
      <3>2. challenge[v] # t
        BY <1>3, NoneAssumption DEF Held, HeldChallenge
      <3> QED
        BY <1>1, <1>3, <3>1, <3>2 DEF Held, HeldChallenge
    <2> QED
      BY <2>1, <2>2
  <1> QED
    BY <1>6, <1>7, <1>8

LEMMA TokensStep ==
    ASSUME Typed, Held, [Next]_vars
    PROVE  \A x \in Tokens : HeldToken(x)'
  <1> DEFINE Goal == \A x \in Tokens : HeldToken(x)'
  <1>1. CASE \E c \in Callers, u \in Users, t \in Tokens :
                VerifyRead(c, u, t) \/ ResetRead(c, u, t)
    BY <1>1, ReadHeld
  <1>2. CASE \A c \in Callers, u \in Users, t \in Tokens :
                ~VerifyRead(c, u, t) /\ ~ResetRead(c, u, t)
    <2>1. \A x \in Tokens : Passed(x)
      BY <1>2, NobodyTakes
    <2>2. ASSUME UNCHANGED <<uses, shared>>,
                 \A x \in Tokens : link'[x].kind = link[x].kind,
                 \A u \in Users : /\ row'[u].verification = row[u].verification
                                  /\ row'[u].reset = row[u].reset
          PROVE  Goal
      <3>1. \A u \in Users, x \in Tokens : Stored(u, x)' => Stored(u, x)
        BY <2>2 DEF Stored
      <3> QED
        BY <2>1, <2>2, <3>1, QuietHeld
    <2>3. ASSUME NEW c \in Callers, SendMail(c) PROVE Goal
      <3>1. UNCHANGED <<row, uses, shared>>
            /\ link' = [link EXCEPT ![call[c].token].sent = TRUE]
        BY <2>3 DEF SendMail, ghosts
      <3>2. \A x \in Tokens : link'[x].kind = link[x].kind
        BY <3>1 DEF Typed, TypedTables, Links
      <3> QED
        BY <2>2, <3>1, <3>2
    <2>4. ASSUME NEW c \in Callers, PasswordWrite(c) PROVE Goal
      <3>1. UNCHANGED <<link, uses, shared>>
            /\ row' = [row EXCEPT ![call[c].user].epoch = @ + 1]
        BY <2>4 DEF PasswordWrite, ghosts
      <3>2. \A u \in Users : /\ row'[u].verification = row[u].verification
                             /\ row'[u].reset = row[u].reset
        BY <3>1 DEF Typed, TypedTables, Accounts
      <3> QED
        BY <2>2, <3>1, <3>2
    <2>5. ASSUME NEW c \in Callers, NEW t \in Tokens, ForgotWrite(c, t) PROVE Goal
      <3>1. /\ row \in [Users -> Accounts] /\ call[c].user \in Users /\ call[c].email \in Emails
            /\ row' = [row EXCEPT ![call[c].user].reset = t]
            /\ Mint(t, "reset", call[c].email) /\ UNCHANGED <<uses, shared>>
        BY <2>5 DEF Typed, TypedTables, TypedCalls, Equipped, ForgotWrite, At, ghosts
      <3>2. PICK u \in Users : u = call[c].user
        BY <3>1
      <3>3. /\ row'[u].verification = row[u].verification /\ row'[u].reset = t
            /\ \A v \in Users \ {u} : row'[v] = row[v]
        BY <3>1, <3>2 DEF Accounts
      <3> QED
        BY <2>1, <3>1, <3>3, MintHeld
    <2>6. ASSUME NEW c \in Callers, NEW t \in Tokens, EmailWrite(c, t) PROVE Goal
      <3>1. CASE UNCHANGED <<row, link>>
        BY <2>2, <2>6, <3>1 DEF EmailWrite
      <3>2. CASE ~UNCHANGED <<row, link>>
        <4>1. /\ row \in [Users -> Accounts] /\ call[c].user \in Users /\ call[c].email \in Emails
          BY <2>6 DEF Typed, TypedTables, TypedCalls, Equipped, EmailWrite, At
        <4>2. PICK u \in Users, e \in Emails : u = call[c].user /\ e = call[c].email
          BY <4>1
        <4>3. /\ row' = [row EXCEPT ![u].email = e, ![u].verified = FALSE, ![u].verification = t]
              /\ Mint(t, "verify", e) /\ UNCHANGED <<uses, shared>>
          BY <2>6, <3>2, <4>2 DEF EmailWrite
        <4>4. /\ row'[u].verification = t /\ row'[u].reset = row[u].reset
              /\ \A v \in Users \ {u} : row'[v] = row[v]
          BY <4>1, <4>3 DEF Accounts
        <4> QED
          BY <2>1, <4>3, <4>4, MintHeld
      <3> QED
        BY <3>1, <3>2
    <2>7. ASSUME NEW c \in Callers, NEW u \in Users, NEW t \in Tokens, SignupInsert(c, u, t)
          PROVE  Goal
      <3>1. CASE UNCHANGED <<row, link>>
        BY <2>2, <2>7, <3>1 DEF SignupInsert, ghosts
      <3>2. CASE ~UNCHANGED <<row, link>>
        <4> DEFINE r == [NoAccount EXCEPT !.known = TRUE, !.email = call[c].email,
                                          !.verification = t, !.epoch = 1]
        <4>1. /\ row' = [row EXCEPT ![u] = r] /\ row \in [Users -> Accounts]
              /\ call[c].email \in Emails /\ Mint(t, "verify", call[c].email)
              /\ UNCHANGED <<uses, shared>>
          BY <2>7, <3>2 DEF SignupInsert, Typed, TypedTables, TypedCalls, Equipped, At, ghosts
        <4>2. r.verification = t /\ r.reset = None
          BY DEF NoAccount
        <4> HIDE DEF r
        <4>3. row'[u] = r /\ \A v \in Users \ {u} : row'[v] = row[v]
          BY <4>1
        <4> QED
          BY <2>1, <4>1, <4>2, <4>3, MintHeld
      <3> QED
        BY <3>1, <3>2
    <2>8. ASSUME NEW c \in Callers,
                 \/ \E e \in Emails : SignupLookup(c, e)
                 \/ \E u \in Users : LoginRead(c, u) \/ ForgotRead(c, u)
                 \/ \E s \in Sessions : IssueSession(c, s)
                 \/ \E s \in Sessions, op \in Operations, e \in Emails \cup {None} :
                      Authorize(c, s, op, e)
                 \/ WriteMethod(c) \/ EmailRead(c) \/ EmailLookup(c)
                 \/ PasswordRead(c) \/ Logout(c) \/ LogoutAll(c) \/ Abandon(c)
          PROVE  UNCHANGED <<row, link, uses, shared>>
      BY <2>8 DEF SignupLookup, LoginRead, ForgotRead, IssueSession, Authorize, WriteMethod,
         EmailRead, EmailLookup, PasswordRead, Logout, LogoutAll, Abandon, tables, ghosts
    <2>9. Restart \/ UNCHANGED vars => UNCHANGED <<row, link, uses, shared>>
      BY DEF Restart, vars, tables, ghosts
    <2>10. "email" \in Operations
      BY DEF Operations
    <2> HIDE DEF Goal
    <2>11. Goal <=> \A x \in Tokens : HeldToken(x)'
      BY DEF Goal
    <2> QED
      BY <1>2, <2>1, <2>2, <2>3, <2>4, <2>5, <2>6, <2>7, <2>8, <2>9, <2>10, <2>11,
         SpentHeld, SignatureHeld, ChallengeHeld DEF Next
  <1> QED
    BY <1>1, <1>2

LEMMA ChallengesStep ==
    ASSUME Typed, Held, [Next]_vars
    PROVE  \A w \in Wallets : HeldChallenge(w)'
  <1>0. \A x \in Tokens : Kept(x)
    BY TablesStep
  <1>1. ASSUME UNCHANGED <<challenge, uses>> PROVE \A w \in Wallets : HeldChallenge(w)'
    BY <1>0, <1>1 DEF Typed, TypedTables, Held, HeldChallenge, Kept
  <1>2. ASSUME NEW c \in Callers, VerifyWrite(c) \/ ResetWrite(c), NEW w \in Wallets
        PROVE  HeldChallenge(w)'
    <2>1. /\ TypedTables /\ call[c].token \in Tokens
          /\ link[call[c].token].kind # "nonce" /\ Spent(call[c].token)
          /\ UNCHANGED <<link, challenge>>
      BY <1>2 DEF Typed, TypedCalls, Equipped, VerifyWrite, ResetWrite, At
    <2>2. challenge[w] \in Tokens \cup {None} /\ challenge[w] # call[c].token
      BY <2>1, NoneAssumption DEF TypedTables, Held, HeldChallenge
    <2> QED
      BY <2>1, <2>2, SpentTyped DEF Held, HeldChallenge
  <1>3. ASSUME NEW c \in Callers, NEW w \in Wallets, NEW t \in Tokens, VerifyChallenge(c, w, t)
        PROVE  \A v \in Wallets : HeldChallenge(v)'
    <2>1. \A d \in Callers, u \in Users, x \in Tokens : ~VerifyRead(d, u, x) /\ ~ResetRead(d, u, x)
      <3>1. challenge' # challenge
        BY <1>3 DEF Typed, TypedTables, VerifyChallenge
      <3> QED
        BY <3>1 DEF VerifyRead, ResetRead
    <2> QED
      BY <1>3, <2>1, NobodyTakes, SignatureHeld
  <1>4. ASSUME NEW w \in Wallets, NEW t \in Tokens, CreateChallenge(w, t)
        PROVE  \A v \in Wallets : HeldChallenge(v)'
    <2>1. Passed(t) /\ \A x \in Tokens : Passed(x)
      BY <1>4 DEF CreateChallenge, Passed, Holds
    <2> QED
      BY <1>4, <2>1, ChallengeHeld
  <1>5. CASE Restart
    BY <1>5 DEF Restart, HeldChallenge
  <1>6. ASSUME NEW c \in Callers,
               \/ \E e \in Emails : SignupLookup(c, e)
               \/ \E u \in Users, t \in Tokens :
                    SignupInsert(c, u, t) \/ VerifyRead(c, u, t) \/ ResetRead(c, u, t)
               \/ \E u \in Users : LoginRead(c, u) \/ ForgotRead(c, u)
               \/ \E t \in Tokens : ForgotWrite(c, t) \/ EmailWrite(c, t)
               \/ \E s \in Sessions : IssueSession(c, s)
               \/ \E s \in Sessions, op \in Operations, e \in Emails \cup {None} :
                    Authorize(c, s, op, e)
               \/ WriteMethod(c) \/ SendMail(c) \/ EmailRead(c) \/ EmailLookup(c)
               \/ PasswordRead(c) \/ PasswordWrite(c) \/ Logout(c) \/ LogoutAll(c) \/ Abandon(c)
        PROVE  UNCHANGED <<challenge, uses>>
    BY <1>6 DEF SignupLookup, SignupInsert, VerifyRead, ResetRead, LoginRead, ForgotRead,
       ForgotWrite, EmailWrite, IssueSession, Authorize, WriteMethod, SendMail, EmailRead,
       EmailLookup, PasswordRead, PasswordWrite, Logout, LogoutAll, Abandon, ghosts
  <1>7. UNCHANGED vars => UNCHANGED <<challenge, uses>>
    BY DEF vars, ghosts
  <1>8. "email" \in Operations
    BY DEF Operations
  <1> QED
    BY <1>1, <1>2, <1>3, <1>4, <1>5, <1>6, <1>7, <1>8 DEF Next

LEMMA HeldInit == Init => Held
  <1> SUFFICES ASSUME Init PROVE Held
    OBVIOUS
  <1>1. PICK old \in SUBSET Wallets : row = [u \in Users |-> [NoAccount EXCEPT !.known = u \in old]]
    BY DEF Init
  <1>2. ASSUME NEW u \in Users, NEW t \in Tokens PROVE ~Stored(u, t)
    <2>1. row[u].verification = None /\ row[u].reset = None
      BY <1>1 DEF NoAccount
    <2> QED
      BY <2>1, NoneAssumption DEF Stored
  <1>3. ASSUME NEW c \in Callers, NEW t \in Tokens PROVE ~Holds(c, t)
    BY IdleTyped DEF Init, Holds
  <1>4. \A t \in Tokens : HeldToken(t)
    BY <1>2, <1>3 DEF Init, HeldToken
  <1> QED
    BY <1>4 DEF Init, Held, HeldChallenge

\* A link works once unless two requests with it overlap, and a signed
\* challenge even then: a link is made for one row, is gone from it when it
\* takes effect, and a challenge is taken out of the map before it is compared.
THEOREM WorksOnceCorrect == Spec => []WorksOnce
  <1>1. Typed /\ Held /\ [Next]_vars => (Typed /\ Held)'
    BY TablesStep, CallsStep, TokensStep, ChallengesStep DEF Typed, Held
  <1>2. Held => WorksOnce
    BY DEF Held, HeldToken, WorksOnce
  <1> QED
    BY <1>1, <1>2, TypedInit, HeldInit, PTL DEF Spec
=============================================================================
