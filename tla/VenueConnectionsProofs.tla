------------------------ MODULE VenueConnectionsProofs ------------------------
(***************************************************************************)
(* Proofs about VenueConnections for any sets of users, wallets,           *)
(* challenges and requests, and any bound on the versions: the types, then *)
(* who owns a wallet, whose events a worker reads, and what the status of  *)
(* a connection says.                                                      *)
(***************************************************************************)
EXTENDS VenueConnections, TLAPS

(* What the operators return.                                              *)

LEMMA NoneIsNoUser == None \notin Users /\ None \notin Wallets /\ None \notin Challenges
  BY NoneAssumption

LEMMA VerdictType ==
    ASSUME NEW r \in Rows, NEW w \in Wallets \cup {None}
    PROVE  /\ Verdict(r, w) \in Failures \cup {"active"}
           /\ Verdict(r, w) = "active" => w = r.account
  BY NoneIsNoUser DEF Verdict, Failures, Rows, Configs

LEMMA NoRowIsNotARow == NoRow \notin Rows /\ NoRow.status = "absent" /\ NoRow.version = 0
  BY DEF NoRow, Rows, Failures

LEMMA StampedRow ==
    ASSUME NEW r \in Rows
    PROVE  /\ Stamped(r).version = r.version + 1
           /\ Stamped(r).status = r.status
           /\ Stamped(r).account = r.account
           /\ r.version < MaxVersion => Stamped(r) \in Rows
  BY MaxVersionAssumption DEF Stamped, Rows

LEMMA StatusOfRow ==
    ASSUME NEW r \in Rows, NEW s \in Failures \cup {"active"}
    PROVE  /\ [r EXCEPT !.status = s] \in Rows
           /\ [r EXCEPT !.status = s].version = r.version
  BY DEF Rows

\* The association keeps a row or writes it, with a new version.
LEMMA ReconciledRow ==
    ASSUME NEW r \in Rows \cup {NoRow}, NEW w \in Wallets,
           Reconciled(r, w).version <= MaxVersion
    PROVE  /\ Reconciled(r, w) \in Rows \cup {NoRow}
           /\ r = NoRow => Reconciled(r, w) = NoRow
           /\ \/ Reconciled(r, w) = r /\ (r.status = "active" => r.account = w)
              \/ Reconciled(r, w).version = r.version + 1
  <1>1. CASE r = NoRow
    BY <1>1, NoRowIsNotARow DEF Reconciled
  <1>2. CASE r \in Rows
    <2>1. CASE r.status = "wallet_mismatch" /\ r.account = w
      <3> DEFINE x == [r EXCEPT !.status = "active"]
      <3>1. Reconciled(r, w) = Stamped(x)
        BY <2>1 DEF Reconciled
      <3>2. x \in Rows /\ x.version = r.version /\ r.version \in Nat
        BY <1>2, StatusOfRow DEF Failures, Rows
      <3> HIDE DEF x
      <3>3. Stamped(x).version = r.version + 1 /\ r.version < MaxVersion
        BY <3>1, <3>2, StampedRow, MaxVersionAssumption
      <3> QED
        BY <1>2, <3>1, <3>2, <3>3, StampedRow, NoRowIsNotARow
    <2>2. CASE r.status = "active" /\ r.account # w
      <3> DEFINE x == [r EXCEPT !.status = "wallet_mismatch"]
      <3>1. Reconciled(r, w) = Stamped(x)
        BY <2>2 DEF Reconciled
      <3>2. x \in Rows /\ x.version = r.version /\ r.version \in Nat
        BY <1>2, StatusOfRow DEF Failures, Rows
      <3> HIDE DEF x
      <3>3. Stamped(x).version = r.version + 1 /\ r.version < MaxVersion
        BY <3>1, <3>2, StampedRow, MaxVersionAssumption
      <3> QED
        BY <1>2, <3>1, <3>2, <3>3, StampedRow, NoRowIsNotARow
    <2>3. CASE /\ ~(r.status = "wallet_mismatch" /\ r.account = w)
               /\ ~(r.status = "active" /\ r.account # w)
      BY <1>2, <2>3, NoRowIsNotARow DEF Reconciled
    <2> QED
      BY <2>1, <2>2, <2>3
  <1> QED
    BY <1>1, <1>2

LEMMA MethodMovesType ==
    ASSUME method \in [Wallets -> Users \cup {None}],
           NEW u \in Users, NEW w \in Wallets, NEW moved \in MethodMoves(u, w)
    PROVE  moved \in [Wallets -> Users \cup {None}]
  BY DEF MethodMoves

LEMMA SupTypes == IdleSup \in [pc : {"idle", "rows", "mark"}, rows : [Users -> Rows \cup {NoRow}],
                cur : Users \cup {None}, version : 0 .. MaxVersion,
                verdict : Failures \cup {None}]
  BY MaxVersionAssumption DEF IdleSup

LEMMA IdleTypes ==
    /\ Idle.pc = "idle" /\ Idle.user = None /\ Idle.wallet = None /\ Idle.found = FALSE
    /\ Idle = [pc |-> "idle", user |-> None, wallet |-> None, found |-> FALSE]
  BY DEF Idle
-----------------------------------------------------------------------------
(* The type invariant.                                                     *)

LEMMA InitTypeOK == Init => TypeOK
  <1> SUFFICES ASSUME Init PROVE TypeOK
    OBVIOUS
  <1>1. OldRows \subseteq Rows
    BY MaxVersionAssumption DEF OldRows, Rows
  <1>2. AccountTypeOK /\ ChalTypeOK
    BY DEF Init, AccountTypeOK, ChalTypeOK
  <1>3. ConnTypeOK
    BY <1>1 DEF Init, ConnTypeOK
  <1>4. AssocTypeOK /\ CnxTypeOK /\ SignInTypeOK
    BY DEF Init, AssocTypeOK, CnxTypeOK, SignInTypeOK, Idle
  <1>5. StreamTypeOK
    BY MaxVersionAssumption DEF Init, StreamTypeOK, IdleSup
  <1> QED
    BY <1>2, <1>3, <1>4, <1>5 DEF TypeOK

\* What the types of the parts depend on.
LEMMA AccountStutter ==
    ASSUME TypeOK, UNCHANGED <<users, wallet, method>> PROVE AccountTypeOK'
  BY DEF TypeOK, AccountTypeOK
LEMMA ChalStutter == ASSUME TypeOK, UNCHANGED chal, users \subseteq users' PROVE ChalTypeOK'
  BY DEF TypeOK, ChalTypeOK
LEMMA ConnStutter == ASSUME TypeOK, UNCHANGED conn, users \subseteq users' PROVE ConnTypeOK'
  BY DEF TypeOK, ConnTypeOK
LEMMA AssocStutter == ASSUME TypeOK, UNCHANGED <<assoc, chal>> PROVE AssocTypeOK'
  BY DEF TypeOK, AssocTypeOK
LEMMA CnxStutter == ASSUME TypeOK, UNCHANGED cnx, users \subseteq users' PROVE CnxTypeOK'
  BY DEF TypeOK, CnxTypeOK
LEMMA SignInStutter == ASSUME TypeOK, UNCHANGED signin, users \subseteq users' PROVE SignInTypeOK'
  BY DEF TypeOK, SignInTypeOK
LEMMA StreamStutter == ASSUME TypeOK, UNCHANGED stream, users \subseteq users' PROVE StreamTypeOK'
  BY DEF TypeOK, StreamTypeOK, stream

\* A challenge once made keeps its user and wallet, and never returns to "none".
LEMMA ChallengeTypeOK ==
    ASSUME TypeOK, NEW c \in Challenges, UNCHANGED <<users, wallet, method, conn, requests, stream>>,
           \/ ExpireChallenge(c)
           \/ \E u \in Users, w \in Wallets : CreateChallenge(c, u, w)
    PROVE  TypeOK'
  <1>1. ChalTypeOK' /\ AssocTypeOK'
    BY DEF TypeOK, ChalTypeOK, AssocTypeOK, AccountTypeOK, ExpireChallenge, CreateChallenge, requests
  <1>2. UNCHANGED <<users, wallet, method, conn, cnx, signin, stream>>
    BY DEF requests
  <1> QED
    BY <1>1, <1>2, AccountStutter, ConnStutter, CnxStutter, SignInStutter, StreamStutter DEF TypeOK

LEMMA AssociateTypeOK ==
    ASSUME TypeOK, NEW a \in Associations, Associate(a)
    PROVE  TypeOK'
  <1>1. CASE (\E c \in Challenges : AssociateRead(a, c)) \/ AssociateAbandon(a)
    <2>1. AssocTypeOK'
      BY <1>1, NoneIsNoUser DEF TypeOK, AssocTypeOK, AssociateRead, AssociateAbandon, accounts
    <2>2. UNCHANGED <<users, wallet, method, chal, conn, cnx, signin, stream>>
      BY <1>1 DEF AssociateRead, AssociateAbandon, accounts
    <2> QED
      BY <2>1, <2>2, AccountStutter, ChalStutter, ConnStutter, CnxStutter, SignInStutter,
         StreamStutter DEF TypeOK
  <1>2. CASE AssociateCommit(a)
    <2>0. UNCHANGED <<users, cnx, signin, stream>>
      BY <1>2 DEF AssociateCommit
    <2> DEFINE c == assoc[a]
               u == chal[c].user
               w == chal[c].wallet
    <2>1. c \in Challenges /\ chal[c].state # "none" /\ u \in users /\ u \in Users /\ w \in Wallets
      BY <1>2 DEF AssociateCommit, TypeOK, AssocTypeOK, ChalTypeOK, AccountTypeOK
    <2>2. AssocTypeOK' /\ ChalTypeOK'
      BY <1>2, <2>0, <2>1 DEF AssociateCommit, TypeOK, AssocTypeOK, ChalTypeOK
    <2>3. AccountTypeOK'
      BY <1>2, <2>0, <2>1, MethodMovesType DEF AssociateCommit, TypeOK, AccountTypeOK
    <2>4. ConnTypeOK'
      <3>1. CASE UNCHANGED conn
        BY <3>1, <2>0, ConnStutter
      <3>2. CASE /\ conn' = [conn EXCEPT ![u] = Reconciled(@, w)]
                 /\ Reconciled(conn[u], w).version <= MaxVersion
        <4>1. conn[u] \in Rows \cup {NoRow}
          BY <2>1 DEF TypeOK, ConnTypeOK
        <4>2. Reconciled(conn[u], w) \in Rows \cup {NoRow}
          BY <4>1, <3>2, <2>1, ReconciledRow
        <4> QED
          BY <4>2, <3>2, <2>0, <2>1 DEF TypeOK, ConnTypeOK
      <3> QED
        BY <3>1, <3>2, <1>2 DEF AssociateCommit
    <2> QED
      BY <2>0, <2>2, <2>3, <2>4, CnxStutter, SignInStutter, StreamStutter DEF TypeOK
  <1> QED
    BY <1>1, <1>2 DEF Associate

LEMMA ConnectTypeOK ==
    ASSUME TypeOK, NEW k \in Connects, Connect(k)
    PROVE  TypeOK'
  <1>1. UNCHANGED <<users, wallet, method, chal, assoc, signin, stream>>
    BY DEF Connect, ConnectFind, ConnectWrite, ConnectAbandon, accounts
  <1>2. CnxTypeOK'
    <2>1. CASE cnx' = [cnx EXCEPT ![k] = Idle]
      BY <2>1, <1>1 DEF TypeOK, CnxTypeOK, Idle
    <2>2. ASSUME NEW u \in Users, NEW w \in Wallets, ConnectFind(k, u, w)
          PROVE  CnxTypeOK'
      <3> DEFINE e == [pc |-> "write", user |-> u, wallet |-> w,
                       found |-> conn[u].status # "absent"]
      <3>1. cnx' = [cnx EXCEPT ![k] = e] /\ u \in users
        BY <2>2 DEF ConnectFind
      <3>2. e \in [pc : {"idle", "write"}, user : Users \cup {None},
                  wallet : Wallets \cup {None}, found : BOOLEAN]
        OBVIOUS
      <3> HIDE DEF e
      <3>3. e.user = u /\ e.wallet = w
        BY DEF e
      <3> QED
        BY <3>1, <3>2, <3>3, <1>1 DEF TypeOK, CnxTypeOK
    <2> QED
      BY <2>1, <2>2 DEF Connect, ConnectWrite, ConnectAbandon
  <1>3. ConnTypeOK'
    <2>1. CASE UNCHANGED conn
      BY <2>1, <1>1, ConnStutter
    <2>2. CASE ConnectWrite(k) /\ conn' # conn
      <3> DEFINE u == cnx[k].user
                 new == [status |-> "active", account |-> cnx[k].wallet,
                         config |-> "usable", version |-> conn[u].version]
      <3>1. u \in users /\ u \in Users /\ cnx[k].wallet \in Wallets
        BY <2>2 DEF ConnectWrite, TypeOK, CnxTypeOK, AccountTypeOK
      <3>2. conn' = [conn EXCEPT ![u] = Stamped(new)] /\ conn[u].version < MaxVersion
        BY <2>2 DEF ConnectWrite, Room
      <3>3. conn[u].version \in Nat
        BY <3>1, NoRowIsNotARow DEF TypeOK, ConnTypeOK, Rows
      <3>4. Stamped(new) \in Rows
        BY <3>1, <3>2, <3>3, MaxVersionAssumption DEF Stamped, Rows, Configs
      <3> QED
        BY <3>1, <3>2, <3>4, <1>1 DEF TypeOK, ConnTypeOK
    <2> QED
      BY <2>1, <2>2 DEF Connect, ConnectFind, ConnectAbandon
  <1> QED
    BY <1>1, <1>2, <1>3, AccountStutter, ChalStutter, AssocStutter, SignInStutter, StreamStutter
       DEF TypeOK

SignInRecords == [pc : {"idle", "insert", "method"}, user : Users \cup {None},
                  wallet : Wallets \cup {None}, found : BOOLEAN]

\* A well-formed record put into a sign-in's slot keeps the slots well formed.
LEMMA SignInUpdate ==
    ASSUME TypeOK, NEW q \in SignIns, NEW e \in SignInRecords, users \subseteq users',
           signin' = [signin EXCEPT ![q] = e],
           e.pc # "idle" => e.wallet \in Wallets,
           e.pc = "method" => e.user \in users'
    PROVE  SignInTypeOK'
  BY DEF TypeOK, SignInTypeOK, SignInRecords

LEMMA IdleSignIn == Idle \in SignInRecords /\ Idle.pc = "idle"
  BY DEF Idle, SignInRecords

LEMMA SignInTypeOKStep ==
    ASSUME TypeOK, NEW q \in SignIns, SignIn(q)
    PROVE  TypeOK'
  <1>1. UNCHANGED <<chal, conn, assoc, cnx, stream>> /\ users \subseteq users'
    BY DEF SignIn, SignInFind, SignInInsert, SignInMethod, SignInAbandon, accounts
  <1>2. ASSUME NEW w \in Wallets, SignInFind(q, w)
        PROVE  AccountTypeOK' /\ SignInTypeOK'
    <2>1. UNCHANGED <<users, wallet, method>>
      BY <1>2 DEF SignInFind, accounts
    <2> DEFINE found(u) == [pc |-> "method", user |-> u, wallet |-> w, found |-> TRUE]
               new == [pc |-> "insert", user |-> None, wallet |-> w, found |-> FALSE]
    <2>2. new \in SignInRecords /\ \A u \in Users : found(u) \in SignInRecords
      BY DEF SignInRecords
    <2>3. ASSUME NEW u \in users, signin' = [signin EXCEPT ![q] = found(u)]
          PROVE  SignInTypeOK'
      <3>1. u \in Users /\ found(u).wallet = w /\ found(u).user = u
        BY DEF TypeOK, AccountTypeOK
      <3> HIDE DEF found
      <3> QED
        BY <2>1, <2>2, <2>3, <3>1, SignInUpdate
    <2>4. CASE signin' = [signin EXCEPT ![q] = new]
      <3>1. new.wallet = w /\ new.pc = "insert"
        OBVIOUS
      <3> HIDE DEF new
      <3> QED
        BY <2>1, <2>2, <2>4, <3>1, SignInUpdate, AccountStutter
    <2>5. \/ \E u \in users : signin' = [signin EXCEPT ![q] = found(u)]
          \/ signin' = [signin EXCEPT ![q] = new]
      BY <1>2 DEF SignInFind
    <2>6. SignInTypeOK'
      BY <2>3, <2>4, <2>5
    <2> QED
      BY <2>1, <2>6, AccountStutter
  <1>3. ASSUME NEW u \in Users, SignInInsert(q, u)
        PROVE  AccountTypeOK' /\ SignInTypeOK'
    <2>1. signin[q] \in SignInRecords /\ signin[q].wallet \in Wallets
      BY <1>3 DEF SignInInsert, TypeOK, SignInTypeOK, SignInRecords
    <2>2. AccountTypeOK'
      BY <1>3, <2>1 DEF SignInInsert, TypeOK, AccountTypeOK
    <2>3. CASE signin' = [signin EXCEPT ![q] = Idle]
      BY <2>2, <2>3, <1>1, IdleSignIn, SignInUpdate
    <2>4. CASE /\ signin' = [signin EXCEPT ![q].pc = "method", ![q].user = u]
               /\ users' = users \cup {u}
      <3> DEFINE e == [signin[q] EXCEPT !.pc = "method", !.user = u]
      <3>1. e \in SignInRecords /\ e.wallet = signin[q].wallet /\ e.user = u
        BY <2>1 DEF SignInRecords
      <3>2. signin' = [signin EXCEPT ![q] = e]
        BY <2>4 DEF TypeOK, SignInTypeOK
      <3> HIDE DEF e
      <3> QED
        BY <2>1, <2>2, <2>4, <3>1, <3>2, SignInUpdate
    <2> QED
      BY <2>2, <2>3, <2>4, <1>3 DEF SignInInsert
  <1>4. AccountTypeOK' /\ SignInTypeOK'
    <2>1. CASE SignInMethod(q) \/ SignInAbandon(q)
      <3>1. signin' = [signin EXCEPT ![q] = Idle]
        BY <2>1 DEF SignInMethod, SignInAbandon
      <3>2. SignInTypeOK'
        BY <3>1, <1>1, IdleSignIn, SignInUpdate
      <3>3. CASE SignInAbandon(q)
        BY <3>2, <3>3, AccountStutter DEF SignInAbandon, accounts
      <3>4. CASE SignInMethod(q)
        <4>1. signin[q].wallet \in Wallets /\ signin[q].user \in Users
          BY <3>4 DEF SignInMethod, TypeOK, SignInTypeOK, AccountTypeOK
        <4> QED
          BY <3>2, <3>4, <4>1 DEF SignInMethod, TypeOK, AccountTypeOK
      <3> QED
        BY <2>1, <3>3, <3>4
    <2> QED
      BY <1>2, <1>3, <2>1 DEF SignIn
  <1> QED
    BY <1>1, <1>4, ChalStutter, ConnStutter, AssocStutter, CnxStutter, StreamStutter
       DEF TypeOK

SupRecords == [pc : {"idle", "rows", "mark"}, rows : [Users -> Rows \cup {NoRow}],
               cur : Users \cup {None}, version : 0 .. MaxVersion,
               verdict : Failures \cup {None}]

LEMMA StreamUpdate ==
    ASSUME TypeOK, UNCHANGED users,
           sup' \in SupRecords,
           sup'.pc = "mark" => sup'.cur \in users /\ sup'.verdict \in Failures,
           \A u \in Users \ users : sup'.rows[u] = NoRow,
           worker' \in [Users -> [account : Wallets, version : 0 .. MaxVersion] \cup {None}]
    PROVE  StreamTypeOK'
  BY DEF StreamTypeOK, SupRecords

\* Taking the row of u off the pass.
LEMMA RowTaken ==
    ASSUME TypeOK, NEW u \in Users, Listed(u)
    PROVE  /\ u \in users /\ sup.rows[u] \in Rows /\ sup.pc = "rows"
           /\ [sup EXCEPT !.rows[u] = NoRow] \in SupRecords
           /\ [sup EXCEPT !.rows[u] = NoRow].pc = "rows"
           /\ [sup EXCEPT !.rows[u] = NoRow].rows = [sup.rows EXCEPT ![u] = NoRow]
  BY DEF TypeOK, StreamTypeOK, Listed, SupRecords

LEMMA SupRowTypeOK ==
    ASSUME TypeOK, NEW u \in Users, SupRow(u)
    PROVE  StreamTypeOK'
  <1>0. Listed(u) /\ UNCHANGED users
    BY DEF SupRow, SupKeep, SupSkip, SupSpawn, SupReject, accounts
  <1> DEFINE row == sup.rows[u]
             verdict == Verdict(row, wallet[u])
             marks == [sup EXCEPT !.pc = "mark", !.rows[u] = NoRow, !.cur = u,
                                  !.version = row.version, !.verdict = verdict]
  <1>1. row \in Rows /\ u \in users
    BY <1>0, RowTaken
  <1>2. worker' \in [Users -> [account : Wallets, version : 0 .. MaxVersion] \cup {None}]
    <2>1. worker \in [Users -> [account : Wallets, version : 0 .. MaxVersion] \cup {None}]
      BY DEF TypeOK, StreamTypeOK
    <2>2. [account |-> row.account, version |-> row.version]
            \in [account : Wallets, version : 0 .. MaxVersion]
      BY <1>1 DEF Rows
    <2>3. \/ worker' = worker \/ worker' = [worker EXCEPT ![u] = None]
          \/ worker' = [worker EXCEPT ![u] = [account |-> row.account, version |-> row.version]]
      BY DEF SupRow, SupKeep, SupSkip, SupSpawn, SupReject
    <2> QED
      BY <2>1, <2>2, <2>3
  <1>3. CASE sup' = [sup EXCEPT !.rows[u] = NoRow]
    <2>1. \A v \in Users \ users : [sup EXCEPT !.rows[u] = NoRow].rows[v] = NoRow
      BY <1>0, RowTaken DEF TypeOK, StreamTypeOK
    <2> QED
      BY <1>0, <1>2, <1>3, <2>1, RowTaken, StreamUpdate
  <1>4. CASE sup' = marks /\ verdict # "active"
    <2>1. verdict \in Failures
      BY <1>1, <1>4, VerdictType DEF TypeOK, AccountTypeOK
    <2>2. marks \in SupRecords /\ marks.pc = "mark" /\ marks.cur = u /\ marks.verdict = verdict
      BY <1>1, <2>1 DEF TypeOK, StreamTypeOK, SupRecords, Rows
    <2>3. \A v \in Users \ users : marks.rows[v] = NoRow
      BY <1>1 DEF TypeOK, StreamTypeOK
    <2> HIDE DEF marks, verdict
    <2> QED
      BY <1>0, <1>1, <1>2, <1>4, <2>1, <2>2, <2>3, StreamUpdate
  <1> QED
    BY <1>3, <1>4 DEF SupRow, SupKeep, SupSkip, SupSpawn, SupReject

LEMMA SuperviseTypeOK ==
    ASSUME TypeOK, Supervise
    PROVE  TypeOK'
  <1>1. UNCHANGED <<users, wallet, method, chal, assoc, cnx, signin>>
    BY DEF Supervise, SupList, SupRow, SupKeep, SupSkip, SupSpawn, SupReject, SupMark,
       SupMarkFails, SupSleep, accounts, requests
  <1>2. StreamTypeOK'
    <2>1. CASE SupList
      <3> DEFINE listed == [u \in Users |-> IF conn[u].status = "active" THEN conn[u] ELSE NoRow]
      <3>1. sup' = [IdleSup EXCEPT !.pc = "rows", !.rows = listed]
        BY <2>1 DEF SupList
      <3>2. listed \in [Users -> Rows \cup {NoRow}] /\ \A u \in Users \ users : listed[u] = NoRow
        BY DEF TypeOK, ConnTypeOK
      <3>3. sup' \in SupRecords /\ sup'.pc = "rows" /\ sup'.rows = listed
        BY <3>1, <3>2, SupTypes DEF SupRecords, IdleSup
      <3>4. worker' \in [Users -> [account : Wallets, version : 0 .. MaxVersion] \cup {None}]
        BY <2>1 DEF SupList, TypeOK, StreamTypeOK
      <3> QED
        BY <1>1, <3>2, <3>3, <3>4, StreamUpdate
    <2>2. ASSUME NEW u \in Users, SupRow(u) PROVE StreamTypeOK'
      BY <2>2, SupRowTypeOK
    <2>3. CASE SupMark \/ SupMarkFails
      <3>1. sup' = [sup EXCEPT !.pc = "rows", !.cur = None, !.version = 0, !.verdict = None]
            /\ worker' = worker
        BY <2>3 DEF SupMark, SupMarkFails
      <3>2. sup' \in SupRecords /\ sup'.pc = "rows" /\ sup'.rows = sup.rows
        <4>1. sup \in SupRecords /\ 0 \in 0 .. MaxVersion
          BY MaxVersionAssumption DEF TypeOK, StreamTypeOK, SupRecords
        <4> QED
          BY <3>1, <4>1 DEF SupRecords
      <3> QED
        BY <1>1, <3>1, <3>2, StreamUpdate DEF TypeOK, StreamTypeOK
    <2>4. CASE SupSleep
      BY <2>4, SupTypes DEF SupSleep, TypeOK, StreamTypeOK, IdleSup, accounts
    <2> QED
      BY <2>1, <2>2, <2>3, <2>4 DEF Supervise
  <1>3. ConnTypeOK'
    <2>1. CASE UNCHANGED conn
      BY <1>1, <2>1, ConnStutter
    <2>2. CASE SupMark /\ Unwritten(sup.cur)
      <3> DEFINE u == sup.cur
                 x == [conn[u] EXCEPT !.status = sup.verdict]
      <3>1. u \in users /\ u \in Users /\ sup.verdict \in Failures
        BY <2>2 DEF SupMark, TypeOK, StreamTypeOK, AccountTypeOK
      <3>2. conn[u] \in Rows
        BY <2>2, <3>1, NoRowIsNotARow DEF Unwritten, TypeOK, ConnTypeOK
      <3>3. x \in Rows /\ x.version < MaxVersion
        BY <2>2, <3>1, <3>2, StatusOfRow DEF SupMark, Room
      <3>4. conn' = [conn EXCEPT ![u] = Stamped(x)]
        BY <2>2, <3>1 DEF SupMark, TypeOK, ConnTypeOK
      <3>5. Stamped(x) \in Rows
        BY <3>3, StampedRow
      <3> HIDE DEF x
      <3> QED
        BY <3>1, <3>4, <3>5, <1>1 DEF TypeOK, ConnTypeOK
    <2> QED
      BY <2>1, <2>2 DEF Supervise, SupList, SupRow, SupKeep, SupSkip, SupSpawn, SupReject,
         SupMark, SupMarkFails, SupSleep
  <1> QED
    BY <1>1, <1>2, <1>3, AccountStutter, ChalStutter, AssocStutter, CnxStutter, SignInStutter
       DEF TypeOK

LEMMA NextTypeOK == TypeOK /\ [Next]_vars => TypeOK'
  <1> SUFFICES ASSUME TypeOK, [Next]_vars PROVE TypeOK'
    OBVIOUS
  <1>1. ASSUME NEW c \in Challenges,
               ExpireChallenge(c) \/ \E u \in Users, w \in Wallets : CreateChallenge(c, u, w)
        PROVE  TypeOK'
    BY <1>1, ChallengeTypeOK DEF ExpireChallenge, CreateChallenge
  <1>2. ASSUME NEW u \in Users, WorkerEnds(u) PROVE TypeOK'
    <2>1. UNCHANGED <<users, wallet, method, chal, conn, assoc, cnx, signin, sup>>
      BY <1>2 DEF WorkerEnds, accounts, requests
    <2>2. StreamTypeOK'
      BY <1>2, <2>1 DEF WorkerEnds, TypeOK, StreamTypeOK
    <2> QED
      BY <2>1, <2>2, AccountStutter, ChalStutter, ConnStutter, AssocStutter, CnxStutter,
         SignInStutter DEF TypeOK
  <1>3. CASE UNCHANGED vars
    BY <1>3, AccountStutter, ChalStutter, ConnStutter, AssocStutter, CnxStutter, SignInStutter,
       StreamStutter DEF TypeOK, vars, accounts, requests
  <1> QED
    BY <1>1, <1>2, <1>3, AssociateTypeOK, ConnectTypeOK, SignInTypeOKStep, SuperviseTypeOK
       DEF Next

\* In every reachable state, whatever the sets of users, wallets and requests, every
\* row, request and worker is well formed, and only users that exist have any.
THEOREM TypeCorrect == Spec => []TypeOK
  BY InitTypeOK, NextTypeOK, PTL DEF Spec
-----------------------------------------------------------------------------
(* What a step may do to the row of a user, and to the supervisor's locals *)
(* about it.                                                               *)

\* The row is kept, and then an active one still matches a wallet that changed; or
\* it is written, and then its version grows, and only the supervisor's mark gives it
\* another status than active or wallet_mismatch.
RowStep(u) ==
    \/ /\ conn'[u] = conn[u]
       /\ wallet'[u] = wallet[u] \/ (conn[u].status = "active" => conn[u].account = wallet'[u])
    \/ /\ conn'[u].version = conn[u].version + 1
       /\ \/ conn'[u].status \in {"active", "wallet_mismatch"}
          \/ /\ sup.pc = "mark" /\ sup.cur = u /\ Unwritten(u)
             /\ conn'[u].status = sup.verdict /\ conn'[u].config = conn[u].config

\* The snapshot of u is kept, taken off, or has just been read.
PassStep(u) ==
    \/ sup'.rows[u] \in {NoRow, sup.rows[u]}
    \/ sup'.rows[u] = conn[u] /\ conn[u].status = "active" /\ UNCHANGED <<conn, wallet>>

\* The worker of u is kept or gone, or is started for the row of the snapshot.
WorkerStep(u) ==
    \/ worker'[u] \in {None, worker[u]}
    \/ /\ sup.rows[u] # NoRow
       /\ worker'[u] = [account |-> sup.rows[u].account, version |-> sup.rows[u].version]
       /\ sup.rows[u].account = wallet[u]
       /\ UNCHANGED <<conn, wallet>>

\* The row to be marked is the one that was, or one whose verdict was just reached.
MarkStep ==
    sup'.pc = "mark" =>
        \/ sup.pc = "mark" /\ sup' = sup
        \/ \E u \in Users :
              /\ sup.rows[u] # NoRow
              /\ sup'.cur = u /\ sup'.version = sup.rows[u].version
              /\ sup'.verdict = Verdict(sup.rows[u], wallet[u])
              /\ UNCHANGED <<conn, wallet>>

StepsOf(u) == RowStep(u) /\ PassStep(u) /\ WorkerStep(u)

LEMMA StutterSteps ==
    ASSUME NEW u \in Users, UNCHANGED <<conn, wallet, sup, worker>>
    PROVE  StepsOf(u) /\ MarkStep
  BY DEF StepsOf, RowStep, PassStep, WorkerStep, MarkStep

LEMMA AssociateSteps ==
    ASSUME TypeOK, NEW a \in Associations, Associate(a), NEW v \in Users
    PROVE  StepsOf(v) /\ MarkStep
  <1>1. CASE UNCHANGED <<conn, wallet>>
    BY <1>1, StutterSteps DEF Associate, AssociateRead, AssociateCommit, AssociateAbandon, stream
  <1>2. CASE AssociateCommit(a) /\ ~UNCHANGED <<conn, wallet>>
    <2> DEFINE c == assoc[a]
               u == chal[c].user
               w == chal[c].wallet
    <2>1. /\ UNCHANGED <<sup, worker>>
          /\ Reconciled(conn[u], w).version <= MaxVersion
          /\ wallet' = [wallet EXCEPT ![u] = w]
          /\ conn' = [conn EXCEPT ![u] = Reconciled(conn[u], w)]
      BY <1>2 DEF AssociateCommit, stream
    <2>2. u \in Users /\ w \in Wallets
      BY <1>2 DEF AssociateCommit, TypeOK, AssocTypeOK, ChalTypeOK, AccountTypeOK
    <2>3. conn[u] \in Rows \cup {NoRow}
      BY <2>2 DEF TypeOK, ConnTypeOK
    <2>4. PassStep(v) /\ WorkerStep(v) /\ MarkStep
      BY <2>1 DEF PassStep, WorkerStep, MarkStep
    <2>5. CASE v # u
      BY <2>1, <2>4, <2>5 DEF StepsOf, RowStep, TypeOK, ConnTypeOK, AccountTypeOK
    <2>6. CASE v = u
      <3>1. conn'[u] = Reconciled(conn[u], w) /\ wallet'[u] = w
        BY <2>1, <2>2 DEF TypeOK, ConnTypeOK, AccountTypeOK
      <3>2. \/ Reconciled(conn[u], w) = conn[u] /\ (conn[u].status = "active" => conn[u].account = w)
            \/ /\ Reconciled(conn[u], w).version = conn[u].version + 1
               /\ Reconciled(conn[u], w).status \in {"active", "wallet_mismatch"}
        <4>1. \/ Reconciled(conn[u], w) = conn[u]
              \/ Reconciled(conn[u], w).status \in {"active", "wallet_mismatch"}
          <5>1. CASE conn[u] = NoRow
            BY <5>1, <2>1, <2>2, ReconciledRow
          <5>2. CASE conn[u] \in Rows
            BY <5>2 DEF Reconciled, Stamped, Rows
          <5> QED
            BY <2>3, <5>1, <5>2
        <4>2. conn[u].version \in Nat
          BY <2>3, NoRowIsNotARow DEF Rows
        <4> QED
          BY <4>1, <4>2, <2>1, <2>2, <2>3, ReconciledRow
      <3> QED
        BY <2>4, <2>6, <3>1, <3>2 DEF StepsOf, RowStep
    <2> QED
      BY <2>5, <2>6
  <1> QED
    BY <1>1, <1>2 DEF Associate, AssociateRead, AssociateAbandon, accounts

LEMMA ConnectSteps ==
    ASSUME TypeOK, NEW k \in Connects, Connect(k), NEW v \in Users
    PROVE  StepsOf(v) /\ MarkStep
  <1>1. UNCHANGED <<wallet, sup, worker>>
    BY DEF Connect, ConnectFind, ConnectWrite, ConnectAbandon, accounts, stream
  <1>2. CASE UNCHANGED conn
    BY <1>1, <1>2, StutterSteps
  <1>3. CASE ConnectWrite(k) /\ conn' # conn
    <2> DEFINE u == cnx[k].user
               new == [status |-> "active", account |-> cnx[k].wallet,
                       config |-> "usable", version |-> conn[u].version]
    <2>1. conn' = [conn EXCEPT ![u] = Stamped(new)]
      BY <1>3 DEF ConnectWrite
    <2>2. Stamped(new).version = conn[u].version + 1 /\ Stamped(new).status = "active"
      BY DEF Stamped
    <2> HIDE DEF new
    <2> QED
      BY <1>1, <2>1, <2>2 DEF StepsOf, RowStep, PassStep, WorkerStep, MarkStep, TypeOK, ConnTypeOK
  <1> QED
    BY <1>2, <1>3 DEF Connect, ConnectFind, ConnectAbandon

\* A sign-in only gives a wallet to a user it creates, who has no connection.
LEMMA SignInSteps ==
    ASSUME TypeOK, NEW q \in SignIns, SignIn(q), NEW v \in Users
    PROVE  StepsOf(v) /\ MarkStep
  <1>1. UNCHANGED <<conn, sup, worker>>
    BY DEF SignIn, SignInFind, SignInInsert, SignInMethod, SignInAbandon, stream
  <1>2. wallet'[v] = wallet[v] \/ conn[v].status = "absent"
    BY NoRowIsNotARow DEF SignIn, SignInFind, SignInInsert, SignInMethod, SignInAbandon,
       accounts, TypeOK, AccountTypeOK, ConnTypeOK
  <1> QED
    BY <1>1, <1>2 DEF StepsOf, RowStep, PassStep, WorkerStep, MarkStep

LEMMA SupRowSteps ==
    ASSUME TypeOK, NEW u \in Users, SupRow(u), NEW v \in Users
    PROVE  StepsOf(v) /\ MarkStep
  <1>1. UNCHANGED <<conn, wallet>> /\ Listed(u)
    BY DEF SupRow, SupKeep, SupSkip, SupSpawn, SupReject, accounts
  <1>2. sup.rows[u] \in Rows /\ sup.rows[u] # NoRow /\ sup.pc = "rows"
    BY <1>1, RowTaken DEF Listed
  <1>3. RowStep(v)
    BY <1>1 DEF RowStep
  <1>4. PassStep(v)
    <2>1. sup'.rows = [sup.rows EXCEPT ![u] = NoRow]
      BY DEF SupRow, SupKeep, SupSkip, SupSpawn, SupReject, TypeOK, StreamTypeOK
    <2> QED
      BY <2>1 DEF PassStep, TypeOK, StreamTypeOK
  <1>5. WorkerStep(v)
    <2>1. CASE SupSpawn(u)
      <3>1. wallet[u] = sup.rows[u].account
        BY <2>1, <1>2, VerdictType DEF SupSpawn, TypeOK, AccountTypeOK
      <3>2. worker' = [worker EXCEPT ![u] = [account |-> sup.rows[u].account,
                                             version |-> sup.rows[u].version]]
        BY <2>1 DEF SupSpawn
      <3> QED
        BY <1>1, <1>2, <3>1, <3>2 DEF WorkerStep, TypeOK, StreamTypeOK
    <2>2. CASE worker' = worker \/ worker' = [worker EXCEPT ![u] = None]
      BY <2>2 DEF WorkerStep, TypeOK, StreamTypeOK
    <2> QED
      BY <2>1, <2>2 DEF SupRow, SupKeep, SupSkip, SupReject
  <1>6. MarkStep
    <2>1. CASE SupReject(u)
      <3>1. /\ sup'.cur = u /\ sup'.version = sup.rows[u].version
            /\ sup'.verdict = Verdict(sup.rows[u], wallet[u])
        BY <2>1 DEF SupReject, TypeOK, StreamTypeOK
      <3> QED
        BY <1>1, <1>2, <3>1 DEF MarkStep
    <2>2. CASE sup' = [sup EXCEPT !.rows[u] = NoRow]
      BY <1>2, <2>2 DEF MarkStep, TypeOK, StreamTypeOK
    <2> QED
      BY <2>1, <2>2 DEF SupRow, SupKeep, SupSkip, SupSpawn
  <1> QED
    BY <1>3, <1>4, <1>5, <1>6 DEF StepsOf

LEMMA SuperviseSteps ==
    ASSUME TypeOK, Supervise, NEW v \in Users
    PROVE  StepsOf(v) /\ MarkStep
  <1>1. CASE SupList
    <2>1. UNCHANGED <<conn, wallet>> /\ worker'[v] \in {None, worker[v]}
      BY <1>1 DEF SupList, accounts
    <2>2. /\ sup'.rows[v] = IF conn[v].status = "active" THEN conn[v] ELSE NoRow
          /\ sup'.pc = "rows"
      BY <1>1 DEF SupList, IdleSup
    <2> QED
      BY <2>1, <2>2 DEF StepsOf, RowStep, PassStep, WorkerStep, MarkStep
  <1>2. ASSUME NEW u \in Users, SupRow(u) PROVE StepsOf(v) /\ MarkStep
    BY <1>2, SupRowSteps
  <1>3. CASE SupMark \/ SupMarkFails
    <2>1. /\ sup' = [sup EXCEPT !.pc = "rows", !.cur = None, !.version = 0, !.verdict = None]
          /\ UNCHANGED <<wallet, worker>>
      BY <1>3 DEF SupMark, SupMarkFails, accounts
    <2>2. sup'.pc = "rows" /\ sup'.rows = sup.rows
      BY <2>1 DEF TypeOK, StreamTypeOK
    <2>3. PassStep(v) /\ WorkerStep(v) /\ MarkStep
      BY <2>1, <2>2 DEF PassStep, WorkerStep, MarkStep
    <2>4. CASE UNCHANGED conn
      BY <2>1, <2>3, <2>4 DEF StepsOf, RowStep
    <2>5. CASE SupMark /\ Unwritten(sup.cur)
      <3> DEFINE u == sup.cur
                 x == [conn[u] EXCEPT !.status = sup.verdict]
      <3>1. u \in Users /\ sup.verdict \in Failures /\ sup.pc = "mark"
        BY <2>5 DEF SupMark, TypeOK, StreamTypeOK, AccountTypeOK
      <3>2. conn[u] \in Rows
        BY <2>5, <3>1, NoRowIsNotARow DEF Unwritten, TypeOK, ConnTypeOK
      <3>3. /\ x \in Rows /\ x.version = conn[u].version
            /\ x.status = sup.verdict /\ x.config = conn[u].config
        BY <3>1, <3>2, StatusOfRow DEF Rows
      <3>4. conn' = [conn EXCEPT ![u] = Stamped(x)]
        BY <2>5, <3>1 DEF SupMark, TypeOK, ConnTypeOK
      <3> HIDE DEF x
      <3>5. /\ Stamped(x).version = conn[u].version + 1
            /\ Stamped(x).status = sup.verdict /\ Stamped(x).config = conn[u].config
        BY <3>3, StampedRow DEF Stamped, Rows
      <3>6. RowStep(v)
        BY <2>1, <2>5, <3>1, <3>4, <3>5 DEF RowStep, TypeOK, ConnTypeOK
      <3> QED
        BY <2>3, <3>6 DEF StepsOf
    <2> QED
      BY <1>3, <2>4, <2>5 DEF SupMark, SupMarkFails
  <1>4. CASE SupSleep
    <2>1. UNCHANGED <<conn, wallet, worker>> /\ sup' = IdleSup
      BY <1>4 DEF SupSleep, accounts
    <2> QED
      BY <2>1 DEF IdleSup, StepsOf, RowStep, PassStep, WorkerStep, MarkStep
  <1> QED
    BY <1>1, <1>2, <1>3, <1>4 DEF Supervise

LEMMA NextSteps ==
    ASSUME TypeOK, [Next]_vars, NEW v \in Users
    PROVE  StepsOf(v) /\ MarkStep
  <1>1. CASE UNCHANGED <<conn, wallet, sup, worker>>
    BY <1>1, StutterSteps
  <1>2. ASSUME NEW u \in Users, WorkerEnds(u) PROVE StepsOf(v) /\ MarkStep
    BY <1>2 DEF WorkerEnds, accounts, StepsOf, RowStep, PassStep, WorkerStep, MarkStep, TypeOK,
       StreamTypeOK
  <1>3. ASSUME NEW c \in Challenges,
               ExpireChallenge(c) \/ \E u \in Users, w \in Wallets : CreateChallenge(c, u, w)
        PROVE  StepsOf(v) /\ MarkStep
    BY <1>3, StutterSteps DEF ExpireChallenge, CreateChallenge, stream
  <1> QED
    BY <1>1, <1>2, <1>3, AssociateSteps, ConnectSteps, SignInSteps, SuperviseSteps
       DEF Next, vars, accounts, stream
-----------------------------------------------------------------------------
(* The inductive invariant.  WorkerIsEligible and VerdictIsCurrent hold    *)
(* because what the supervisor and a worker hold of a row is never newer   *)
(* than the row, and is the row itself when it is not older.               *)

\* The listed rows were active, and are what the table holds unless it was written.
SnapshotIsPast ==
    \A u \in Users : sup.rows[u] # NoRow =>
        /\ sup.rows[u].status = "active"
        /\ sup.rows[u].version <= conn[u].version
        /\ sup.rows[u].version = conn[u].version => sup.rows[u] = conn[u]

WorkerIsPast ==
    \A u \in Users : worker[u] # None => worker[u].version <= conn[u].version

\* What a verdict on stored credentials says of them.
TrueOf(verdict, config) ==
    /\ verdict = "credentials" => config = "unreadable"
    /\ verdict = "unsupported" => config = "unsupported"

\* The verdict to be written is true of the row it was reached for.
MarkIsPast ==
    sup.pc = "mark" =>
        /\ sup.version <= conn[sup.cur].version
        /\ sup.version = conn[sup.cur].version => TrueOf(sup.verdict, conn[sup.cur].config)

EligibilityInv ==
    /\ TypeOK
    /\ SnapshotIsPast /\ WorkerIsPast /\ MarkIsPast
    /\ WorkerIsEligible /\ VerdictIsCurrent

LEMMA VersionsAreNat ==
    ASSUME TypeOK, NEW u \in Users
    PROVE  /\ conn[u] \in Rows \cup {NoRow} /\ conn[u].version \in Nat
           /\ sup.rows[u] \in Rows \cup {NoRow} /\ sup.rows[u].version \in Nat
           /\ worker[u] # None => worker[u].version \in Nat
           /\ sup.version \in Nat
  <1>1. conn[u] \in Rows \cup {NoRow} /\ sup.rows[u] \in Rows \cup {NoRow}
    BY DEF TypeOK, ConnTypeOK, StreamTypeOK
  <1>2. \A r \in Rows \cup {NoRow} : r.version \in Nat
    BY NoRowIsNotARow DEF Rows
  <1> QED
    BY <1>1, <1>2, MaxVersionAssumption DEF TypeOK, StreamTypeOK

LEMMA InitEligibilityInv == Init => EligibilityInv
  <1> SUFFICES ASSUME Init PROVE EligibilityInv
    OBVIOUS
  <1>1. sup = IdleSup /\ IdleSup.pc = "idle" /\ \A u \in Users : sup.rows[u] = NoRow /\ worker[u] = None
    BY DEF Init, IdleSup
  <1>2. \A u \in Users : conn[u].status \in {"active", "absent"}
    BY NoRowIsNotARow DEF Init, OldRows
  <1> QED
    BY <1>1, <1>2, InitTypeOK DEF EligibilityInv, SnapshotIsPast, WorkerIsPast, MarkIsPast,
       WorkerIsEligible, VerdictIsCurrent, Serves

\* A verdict names what is wrong with the row it is reached for.
LEMMA VerdictIsTrue ==
    ASSUME NEW r \in Rows, NEW w \in Wallets \cup {None}
    PROVE  TrueOf(Verdict(r, w), r.config)
  BY DEF Verdict, TrueOf, Rows, Configs

LEMMA NextEligibilityInv == EligibilityInv /\ [Next]_vars => EligibilityInv'
  <1> SUFFICES ASSUME EligibilityInv, [Next]_vars PROVE EligibilityInv'
    OBVIOUS
  <1>0. TypeOK /\ TypeOK'
    BY NextTypeOK DEF EligibilityInv
  <1>1. ASSUME NEW u \in Users
        PROVE  /\ RowStep(u) /\ PassStep(u) /\ WorkerStep(u)
               /\ conn[u].version \in Nat /\ conn'[u].version \in Nat
               /\ sup.rows[u].version \in Nat
               /\ worker[u] # None => worker[u].version \in Nat
               /\ conn'[u].version >= conn[u].version
               /\ conn'[u].version = conn[u].version => conn'[u] = conn[u]
    <2>1. RowStep(u) /\ PassStep(u) /\ WorkerStep(u)
      BY <1>0, NextSteps DEF StepsOf
    <2>2. conn[u].version \in Nat /\ sup.rows[u].version \in Nat
          /\ (worker[u] # None => worker[u].version \in Nat)
      BY <1>0, VersionsAreNat
    <2> QED
      BY <2>1, <2>2 DEF RowStep
  <1>2. SnapshotIsPast'
    <2> SUFFICES ASSUME NEW u \in Users, sup'.rows[u] # NoRow
                 PROVE  /\ sup'.rows[u].status = "active"
                        /\ sup'.rows[u].version <= conn'[u].version
                        /\ sup'.rows[u].version = conn'[u].version => sup'.rows[u] = conn'[u]
      BY DEF SnapshotIsPast
    <2>1. CASE sup'.rows[u] = sup.rows[u]
      BY <1>1, <2>1 DEF EligibilityInv, SnapshotIsPast
    <2>2. CASE sup'.rows[u] = conn[u] /\ conn[u].status = "active" /\ UNCHANGED <<conn, wallet>>
      BY <1>1, <2>2
    <2> QED
      BY <1>1, <2>1, <2>2 DEF PassStep
  <1>3. WorkerIsPast' /\ WorkerIsEligible'
    <2> SUFFICES ASSUME NEW u \in Users, worker'[u] # None
                 PROVE  /\ worker'[u].version <= conn'[u].version
                        /\ worker'[u].version = conn'[u].version =>
                             /\ conn'[u].status = "active"
                             /\ conn'[u].account = worker'[u].account
                             /\ conn'[u].account = wallet'[u]
      BY DEF WorkerIsPast, WorkerIsEligible, Serves
    <2>1. CASE worker'[u] = worker[u]
      <3>1. worker[u].version <= conn[u].version /\ worker[u].version \in Nat
        BY <1>1, <2>1 DEF EligibilityInv, WorkerIsPast
      <3>2. worker[u].version = conn[u].version =>
               /\ conn[u].status = "active" /\ conn[u].account = worker[u].account
               /\ conn[u].account = wallet[u]
        BY <2>1 DEF EligibilityInv, WorkerIsEligible, Serves
      <3> QED
        BY <1>1, <2>1, <3>1, <3>2 DEF RowStep
    <2>2. CASE /\ sup.rows[u] # NoRow
               /\ worker'[u] = [account |-> sup.rows[u].account, version |-> sup.rows[u].version]
               /\ sup.rows[u].account = wallet[u]
               /\ UNCHANGED <<conn, wallet>>
      <3>1. worker'[u].account = sup.rows[u].account /\ worker'[u].version = sup.rows[u].version
        BY <2>2
      <3> QED
        BY <1>1, <2>2, <3>1 DEF EligibilityInv, SnapshotIsPast
    <2> QED
      BY <1>1, <2>1, <2>2 DEF WorkerStep
  <1>4. MarkIsPast'
    <2> SUFFICES ASSUME sup'.pc = "mark"
                 PROVE  /\ sup'.version <= conn'[sup'.cur].version
                        /\ sup'.version = conn'[sup'.cur].version =>
                             TrueOf(sup'.verdict, conn'[sup'.cur].config)
      BY DEF MarkIsPast, TrueOf
    <2>1. CASE sup.pc = "mark" /\ sup' = sup
      <3>1. sup.cur \in Users /\ sup.version \in Nat
        BY <1>0, <2>1, MaxVersionAssumption DEF TypeOK, StreamTypeOK, AccountTypeOK
      <3> QED
        BY <1>1, <2>1, <3>1 DEF EligibilityInv, MarkIsPast
    <2>2. ASSUME NEW u \in Users, sup.rows[u] # NoRow,
                 sup'.cur = u, sup'.version = sup.rows[u].version,
                 sup'.verdict = Verdict(sup.rows[u], wallet[u]),
                 UNCHANGED <<conn, wallet>>
          PROVE  /\ sup'.version <= conn'[sup'.cur].version
                 /\ sup'.version = conn'[sup'.cur].version =>
                      TrueOf(sup'.verdict, conn'[sup'.cur].config)
      <3>1. sup.rows[u] \in Rows /\ wallet[u] \in Wallets \cup {None}
        BY <1>0, <2>2, VersionsAreNat DEF TypeOK, AccountTypeOK
      <3>2. TrueOf(sup'.verdict, sup.rows[u].config)
        BY <2>2, <3>1, VerdictIsTrue
      <3> QED
        BY <2>2, <3>2 DEF EligibilityInv, SnapshotIsPast
    <2>3. PICK v \in Users : TRUE
      BY <1>0 DEF TypeOK, StreamTypeOK, AccountTypeOK
    <2> QED
      BY <1>0, <2>1, <2>2, <2>3, NextSteps DEF MarkStep
  <1>5. VerdictIsCurrent'
    <2> SUFFICES ASSUME NEW u \in Users
                 PROVE  TrueOf(conn'[u].status, conn'[u].config)
      BY DEF VerdictIsCurrent, TrueOf
    <2>1. TrueOf(conn[u].status, conn[u].config)
      BY DEF EligibilityInv, VerdictIsCurrent, TrueOf
    <2>2. CASE /\ sup.pc = "mark" /\ sup.cur = u /\ Unwritten(u)
               /\ conn'[u].status = sup.verdict /\ conn'[u].config = conn[u].config
      BY <2>2 DEF EligibilityInv, MarkIsPast, Unwritten
    <2>3. CASE conn'[u].status \in {"active", "wallet_mismatch"}
      BY <2>3 DEF TrueOf
    <2> QED
      BY <1>1, <2>1, <2>2, <2>3 DEF RowStep
  <1> QED
    BY <1>0, <1>2, <1>3, <1>4, <1>5 DEF EligibilityInv

\* What the supervisor and the workers hold is past or present, never wrong about
\* the present: the invariant the two theorems below rest on.
THEOREM EligibilityIsInvariant == Spec => []EligibilityInv
  BY InitEligibilityInv, NextEligibilityInv, PTL DEF Spec

\* A worker that the supervisor would keep serves an active connection of its user's
\* present wallet, however passes, reconnections and associations interleave.
THEOREM WorkersEligible == Spec => []WorkerIsEligible
  <1>1. EligibilityInv => WorkerIsEligible
    BY DEF EligibilityInv
  <1> QED
    BY <1>1, EligibilityIsInvariant, PTL

\* The supervisor never condemns credentials it has not looked at.
THEOREM VerdictsCurrent == Spec => []VerdictIsCurrent
  <1>1. EligibilityInv => VerdictIsCurrent
    BY DEF EligibilityInv
  <1> QED
    BY <1>1, EligibilityIsInvariant, PTL
-----------------------------------------------------------------------------
(* Wallets and their users.                                                *)

\* A step changes no wallet, gives a free one to a new user, or moves a user with a
\* challenge that it consumes.
WalletsMove ==
    \/ UNCHANGED wallet
    \/ \E u \in Users \ users, w \in Wallets :
          WalletFree(w) /\ wallet' = [wallet EXCEPT ![u] = w]
    \/ \E c \in Challenges, u \in Users, w \in Wallets :
          /\ chal[c] = [state |-> "open", user |-> u, wallet |-> w]
          /\ chal'[c].state = "used"
          /\ ~Taken(u, w)
          /\ wallet' = [wallet EXCEPT ![u] = w]

LEMMA AssociateMoves ==
    ASSUME TypeOK, NEW a \in Associations, Associate(a)
    PROVE  WalletsMove
  <1>1. CASE UNCHANGED wallet
    BY <1>1 DEF WalletsMove
  <1>2. CASE AssociateCommit(a) /\ wallet' # wallet
    <2> DEFINE c == assoc[a]
               u == chal[c].user
               w == chal[c].wallet
    <2>1. c \in Challenges /\ u \in Users /\ w \in Wallets
      BY <1>2 DEF AssociateCommit, TypeOK, AssocTypeOK, ChalTypeOK, AccountTypeOK
    <2>2. /\ Consumable(c) /\ ~Taken(u, w)
          /\ wallet' = [wallet EXCEPT ![u] = w]
          /\ chal' = [chal EXCEPT ![c].state = "used"]
      BY <1>2 DEF AssociateCommit
    <2>3. chal[c] = [state |-> "open", user |-> u, wallet |-> w] /\ chal'[c].state = "used"
      BY <2>1, <2>2 DEF Consumable, TypeOK, ChalTypeOK
    <2> QED
      BY <2>1, <2>2, <2>3 DEF WalletsMove
  <1> QED
    BY <1>1, <1>2 DEF Associate, AssociateRead, AssociateAbandon, accounts

LEMMA SignInMoves ==
    ASSUME TypeOK, NEW q \in SignIns, SignIn(q)
    PROVE  WalletsMove
  <1>1. ASSUME NEW u \in Users, SignInInsert(q, u) PROVE WalletsMove
    BY <1>1 DEF SignInInsert, WalletsMove, TypeOK, SignInTypeOK
  <1> QED
    BY <1>1 DEF SignIn, SignInFind, SignInMethod, SignInAbandon, accounts, WalletsMove

LEMMA NextMoves ==
    ASSUME TypeOK, [Next]_vars
    PROVE  WalletsMove
  <1>1. CASE UNCHANGED wallet
    BY <1>1 DEF WalletsMove
  <1>2. ASSUME NEW k \in Connects, Connect(k) PROVE UNCHANGED wallet
    BY <1>2 DEF Connect, ConnectFind, ConnectWrite, ConnectAbandon, accounts
  <1>3. CASE Supervise
    BY <1>1, <1>3 DEF Supervise, SupList, SupRow, SupKeep, SupSkip, SupSpawn, SupReject,
       SupMark, SupMarkFails, SupSleep, accounts
  <1> QED
    BY <1>1, <1>2, <1>3, AssociateMoves, SignInMoves
       DEF Next, vars, accounts, ExpireChallenge, CreateChallenge, WorkerEnds

LEMMA MovesKeepOneOwner ==
    ASSUME TypeOK, OneOwner, WalletsMove
    PROVE  OneOwner'
  <1>1. CASE UNCHANGED wallet
    BY <1>1 DEF OneOwner
  <1>2. ASSUME NEW u \in Users, NEW w \in Wallets, \A v \in Users \ {u} : wallet[v] # w,
               wallet' = [wallet EXCEPT ![u] = w]
        PROVE  OneOwner'
    BY <1>2 DEF OneOwner, TypeOK, AccountTypeOK
  <1> QED
    BY <1>1, <1>2 DEF WalletsMove, WalletFree, Taken

\* However sign-ins and associations of one wallet race, it is the primary wallet of
\* at most one user.
THEOREM WalletHasOneOwner == Spec => []OneOwner
  <1>1. Init => OneOwner
    BY DEF Init, OneOwner
  <1>2. TypeOK /\ OneOwner /\ [Next]_vars => OneOwner'
    BY NextMoves, MovesKeepOneOwner
  <1> QED
    BY <1>1, <1>2, TypeCorrect, PTL DEF Spec

\* No step changes the wallet of an existing user but the commit of an association
\* that consumes an open challenge for that user and wallet.
THEOREM AssociationsProven == Spec => AssociationIsProven
  <1> DEFINE Proven == \A u \in users : wallet'[u] # wallet[u] =>
                         \E c \in Challenges :
                            /\ chal[c] = [state |-> "open", user |-> u, wallet |-> wallet'[u]]
                            /\ chal'[c].state = "used"
  <1>1. ASSUME TypeOK, [Next]_vars PROVE Proven
    <2>1. WalletsMove
      BY <1>1, NextMoves
    <2> QED
      BY <1>1, <2>1 DEF WalletsMove, TypeOK, AccountTypeOK
  <1>2. TypeOK /\ [Next]_vars => [Proven]_vars
    BY <1>1
  <1> QED
    BY <1>2, TypeCorrect, PTL DEF Spec, AssociationIsProven
=============================================================================
