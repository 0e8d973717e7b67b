------------------------ MODULE UserAccounts_proofs ------------------------
(***************************************************************************)
(* Theorems about the accounts, for any number of clients, names and ids.  *)
(* The handlers decide from what they have read and write later; the       *)
(* invariant says what is still true of a row when they do.                *)
(***************************************************************************)
EXTENDS UserAccounts, TLAPS

(* The fields of a request that its stage will use are there, and valid. *)
ReqInv(c) ==
    LET q == req[c]
    IN  /\ pc[c] \in {"name", "store"} =>
              q.name \in Names /\ q.pw \in Passwords /\ q.role \in Roles
        /\ pc[c] = "rehash" => q.pw \in Passwords
        /\ pc[c] \notin {"idle", "name", "store", "logregister"} => q.on \in Ids
        /\ pc[c] \in {"flush", "logupdate", "commit"} => q.role # BadRole
        /\ pc[c] = "refuse" => q.role = Unset /\ q.active = Unset

(* The entry is written, or could not be; an id is never used again. *)
AuditInv(c) ==
    /\ pc[c] \in {"commit", "delete"} => Accounted(c)
    /\ pc[c] \notin {"idle", "rehash"} => me[c] \in Ids
    /\ me[c] < nextId

HoldsRow(c) ==
    pc[c] \in {"logupdate", "commit"} => Stored(req[c].on) /\ owner[req[c].on] = c

ClientInv(c) == ReqInv(c) /\ AuditInv(c) /\ HoldsRow(c)

IdsUsed == \A u \in Ids : Stored(u) => u < nextId

AccountsInv ==
    /\ TypeOK
    /\ NamesUnique
    /\ IdsUsed
    /\ \A c \in Clients : ClientInv(c)

-----------------------------------------------------------------------------
(* A step of client c leaves the requests of the others alone ... *)
Moves(c) ==
    /\ pc'      \in [Clients -> PCs]
    /\ me'      \in [Clients -> Ids \cup {0}]
    /\ req'     \in [Clients -> Request]
    /\ audited' \in [Clients -> Fates]
    /\ \A d \in Clients \ {c} : pc'[d] = pc[d] /\ me'[d] = me[d]
                                /\ req'[d] = req[d] /\ audited'[d] = audited[d]

(* ... and the rows they rely on. *)
RowsKept(c) ==
    /\ nextId <= nextId'
    /\ \A u \in Ids :
          /\ Stored(u)' => Stored(u) \/ ~(u < nextId)
          /\ \A d \in Clients \ {c} :
                owner[u] = d => owner'[u] = d /\ (Stored(u) => Stored(u)')

LEMMA NothingType ==
    /\ Nothing \in Request
    /\ Nothing.on = 0 /\ Nothing.name = Unset /\ Nothing.pw = Unset
    /\ Nothing.role = Unset /\ Nothing.active = Unset
  BY DEF Nothing, Request

LEMMA FinishMoves ==
    ASSUME TypeOK, NEW c \in Clients, Finish(c)
    PROVE  Moves(c) /\ pc'[c] = "idle" /\ me'[c] = 0
  BY NothingType DEF TypeOK, Finish, Goto, Moves, PCs, Fates

LEMMA IdleClient ==
    ASSUME NEW c \in Clients, pc'[c] = "idle", me'[c] < nextId'
    PROVE  ClientInv(c)'
  BY DEF ClientInv, ReqInv, AuditInv, HoldsRow

(* One client's step, put together. *)
LEMMA ClientStep ==
    ASSUME AccountsInv, NEW c \in Clients, Moves(c), RowsKept(c), ClientInv(c)',
           NamesUnique', IdsUsed', nextId' \in Nat,
           users' \in [Ids -> Account \cup {NoAccount}],
           owner' \in [Ids -> Clients \cup {NoClient}]
    PROVE  AccountsInv'
<1>1. TypeOK'
  BY DEF TypeOK, Moves
<1>2. ASSUME NEW d \in Clients \ {c} PROVE ClientInv(d)'
  <2>t. /\ pc'[d] = pc[d] /\ me'[d] = me[d] /\ req'[d] = req[d] /\ audited'[d] = audited[d]
        /\ ReqInv(d) /\ AuditInv(d) /\ HoldsRow(d)
    BY DEF Moves, AccountsInv, ClientInv
  <2>n. /\ me[d] \in Ids \cup {0} /\ me[d] \in Int /\ nextId \in Int /\ nextId' \in Int
        /\ nextId <= nextId'
    BY IdsAssumption DEF AccountsInv, TypeOK, Ids, RowsKept
  <2>1. ReqInv(d)'
    BY <2>t DEF ReqInv
  <2>3. AuditInv(d)'
    <3>1. me'[d] < nextId'
      BY <2>t, <2>n DEF AuditInv
    <3>2. CASE me[d] \in Ids
      BY <2>t, <3>1, <3>2 DEF AuditInv, Accounted, RowsKept
    <3>3. CASE me[d] \notin Ids
      BY <2>t, <3>1, <3>3 DEF AuditInv, Accounted
    <3>4. QED
      BY <3>2, <3>3
  <2>4. HoldsRow(d)'
    BY <2>t DEF HoldsRow, ReqInv, RowsKept
  <2>5. QED
    BY <2>1, <2>3, <2>4 DEF ClientInv
<1>3. QED
  BY <1>1, <1>2 DEF AccountsInv

(* A step that changes no account and takes no row. *)
LEMMA QuietStep ==
    ASSUME AccountsInv, NEW c \in Clients, Moves(c), ClientInv(c)',
           UNCHANGED <<users, nextId, owner>>
    PROVE  AccountsInv'
<1>t. TypeOK /\ nextId \in Nat
  BY DEF AccountsInv, TypeOK
<1>1. RowsKept(c)
  BY <1>t DEF RowsKept, Stored
<1>2. NamesUnique' /\ IdsUsed'
  BY DEF AccountsInv, NamesUnique, IdsUsed, Stored
<1>3. QED
  BY <1>t, <1>1, <1>2, ClientStep DEF TypeOK

(* The end of a request that changes no account. *)
LEMMA QuietEnd ==
    ASSUME AccountsInv, NEW c \in Clients, Finish(c), UNCHANGED <<users, nextId, owner>>
    PROVE  AccountsInv'
<1>1. TypeOK /\ 0 < nextId'
  <2>1. TypeOK /\ nextId' = nextId /\ me[c] < nextId
    BY DEF AccountsInv, ClientInv, AuditInv
  <2>2. me[c] \in Nat /\ nextId \in Nat
    BY <2>1, IdsAssumption DEF TypeOK, Ids
  <2>3. QED
    BY <2>1, <2>2
<1>2. QED
  BY <1>1, FinishMoves, IdleClient, QuietStep

-----------------------------------------------------------------------------
(* Requests are let in, and look at what they are about. *)
LEMMA AskStep ==
    ASSUME AccountsInv, NEW c \in Clients, Ask(c)
    PROVE  AccountsInv'
<1>t. TypeOK /\ IdsUsed
  BY DEF AccountsInv
<1>0. \A u \in Ids : Stored(u) => users[u] \in Account /\ u < nextId
  BY <1>t DEF TypeOK, Stored, IdsUsed
<1>1. ASSUME NEW u \in Ids, Login(c, u) PROVE AccountsInv'
  <2> DEFINE q == [Nothing EXCEPT !.on = u, !.pw = users[u].hash.pw]
  <2>1. /\ pc' = [pc EXCEPT ![c] = "rehash"] /\ req' = [req EXCEPT ![c] = q]
        /\ Stored(u) /\ UNCHANGED <<users, nextId, owner, me, audited>>
    BY <1>1 DEF Login, Goto
  <2>2. users[u].hash.pw \in Passwords
    BY <1>0, <2>1 DEF Account, Hash
  <2>3. q \in Request /\ q.on = u /\ q.pw = users[u].hash.pw
    BY <2>2, NothingType DEF Request
  <2> HIDE DEF q
  <2>4. Moves(c)
    BY <1>t, <2>1, <2>3 DEF TypeOK, Moves, PCs
  <2>5. pc'[c] = "rehash" /\ req'[c] = q /\ me'[c] = me[c]
    BY <1>t, <2>1 DEF TypeOK
  <2>6. ClientInv(c)'
    BY <2>1, <2>2, <2>3, <2>5
    DEF AccountsInv, ClientInv, ReqInv, AuditInv, HoldsRow, Stored
  <2>7. QED
    BY <2>1, <2>4, <2>6, QuietStep
<1>2. ASSUME NEW u \in Ids, NEW q \in Request, NEW label \in {"name", "read", "target"},
             Admit(c, u, q, label),
             label = "name" => q.name \in Names /\ q.pw \in Passwords /\ q.role \in Roles,
             label # "name" => q.on \in Ids
      PROVE  AccountsInv'
  <2>1. /\ pc' = [pc EXCEPT ![c] = label] /\ req' = [req EXCEPT ![c] = q]
        /\ me' = [me EXCEPT ![c] = u]
        /\ Stored(u) /\ UNCHANGED <<users, nextId, owner, audited>>
    BY <1>2 DEF Admit, Goto, MayAct, IsAdmin
  <2>2. Moves(c)
    BY <1>t, <1>2, <2>1 DEF TypeOK, Moves, PCs
  <2>3. pc'[c] = label /\ req'[c] = q /\ me'[c] = u
    BY <1>t, <2>1 DEF TypeOK
  <2>4. ClientInv(c)'
    BY <1>0, <1>2, <2>1, <2>3 DEF ClientInv, ReqInv, AuditInv, HoldsRow
  <2>5. QED
    BY <2>1, <2>2, <2>4, QuietStep
<1>3. ASSUME NEW u \in Ids, NEW n \in NewUsers, AskRegister(c, u, n) PROVE AccountsInv'
  <2> DEFINE q == [Nothing EXCEPT !.name = n.name, !.pw = n.pw, !.role = n.role]
  <2>1. n.name \in Names /\ n.pw \in Passwords /\ n.role \in Roles
    BY NewUsersAssumption
  <2>2. q \in Request /\ q.name = n.name /\ q.pw = n.pw /\ q.role = n.role
    BY <2>1, NothingType DEF Request
  <2>3. Admit(c, u, q, "name")
    BY <1>3 DEF AskRegister
  <2> HIDE DEF q
  <2>4. QED
    BY <1>2, <2>1, <2>2, <2>3
<1>4. ASSUME NEW u \in Ids, NEW v \in Ids, NEW n \in Changes, AskUpdate(c, u, v, n)
      PROVE  AccountsInv'
  <2> DEFINE q == [on |-> v, name |-> Unset, pw |-> n.pw, role |-> n.role, active |-> n.active]
  <2>1. q \in Request /\ q.on = v
    BY ChangesAssumption DEF Request
  <2>2. Admit(c, u, q, "read")
    BY <1>4 DEF AskUpdate
  <2> HIDE DEF q
  <2>3. QED
    BY <1>2, <2>1, <2>2
<1>5. ASSUME NEW u \in Ids, NEW v \in Ids, AskDelete(c, u, v) PROVE AccountsInv'
  <2> DEFINE q == [Nothing EXCEPT !.on = v]
  <2>1. q \in Request /\ q.on = v
    BY NothingType DEF Request
  <2>2. Admit(c, u, q, "target")
    BY <1>5 DEF AskDelete
  <2> HIDE DEF q
  <2>3. QED
    BY <1>2, <2>1, <2>2
<1>6. QED
  BY <1>1, <1>3, <1>4, <1>5 DEF Ask

(* Steps that change no account: a request goes from one label to the next. *)
LEMMA Advance ==
    ASSUME AccountsInv, NEW c \in Clients, NEW label \in PCs, Goto(c, label),
           UNCHANGED <<users, nextId, owner, me, req>>,
           audited' \in [Clients -> Fates],
           \A d \in Clients \ {c} : audited'[d] = audited[d],
           <<pc[c], label>> \in {<<"name", "store">>, <<"logupdate", "commit">>,
              <<"target", "count">>, <<"target", "logdelete">>, <<"count", "logdelete">>,
              <<"logdelete", "delete">>},
           label \in {"commit", "delete"} => Accounted(c)'
    PROVE  AccountsInv'
<1>t. TypeOK
  BY DEF AccountsInv
<1>1. Moves(c) /\ pc'[c] = label
  BY <1>t DEF TypeOK, Moves, Goto
<1>2. ReqInv(c) /\ AuditInv(c) /\ HoldsRow(c)
  BY DEF AccountsInv, ClientInv
<1>3. ReqInv(c)'
  BY <1>1, <1>2 DEF ReqInv
<1>4. AuditInv(c)'
  BY <1>1, <1>2 DEF AuditInv, Stored
<1>5. HoldsRow(c)'
  BY <1>1, <1>2 DEF HoldsRow, Stored
<1>6. QED
  BY <1>1, <1>3, <1>4, <1>5, QuietStep DEF ClientInv

LEMMA ReadStep ==
    ASSUME AccountsInv, NEW c \in Clients, ReadUser(c)
    PROVE  AccountsInv'
<1>t. TypeOK /\ req[c] \in Request /\ ReqInv(c) /\ AuditInv(c) /\ pc[c] = "read"
      /\ UNCHANGED <<users, nextId, owner>>
  BY DEF AccountsInv, TypeOK, ClientInv, ReadUser
<1>1. ASSUME NEW q \in Request, NEW label \in {"refuse", "flush"},
             req' = [req EXCEPT ![c] = q], Goto(c, label), UNCHANGED <<me, audited>>,
             q.on = req[c].on, q.role # BadRole,
             label = "refuse" => q.role = Unset /\ q.active = Unset
      PROVE  AccountsInv'
  <2>1. pc'[c] = label /\ req'[c] = q
    BY <1>t, <1>1 DEF TypeOK, Goto
  <2>2. Moves(c)
    BY <1>t, <1>1 DEF TypeOK, Moves, Goto, PCs
  <2>3. ReqInv(c)' /\ AuditInv(c)' /\ HoldsRow(c)'
    BY <1>t, <1>1, <2>1 DEF ReqInv, AuditInv, HoldsRow
  <2>4. QED
    BY <1>t, <2>2, <2>3, QuietStep DEF ClientInv
<1>2. Unset # BadRole
  BY UnsetAssumption
<1>3. CASE /\ req' = [req EXCEPT ![c] = [Nothing EXCEPT !.on = req[c].on, !.pw = req[c].pw]]
           /\ Goto(c, "refuse") /\ UNCHANGED <<me, audited>>
  <2> DEFINE q == [Nothing EXCEPT !.on = req[c].on, !.pw = req[c].pw]
  <2>1. /\ q \in Request /\ q.on = req[c].on /\ q.role = Unset /\ q.active = Unset
    BY <1>t, NothingType DEF Request
  <2>2. req' = [req EXCEPT ![c] = q]
    BY <1>3
  <2> HIDE DEF q
  <2>3. QED
    BY <1>1, <1>2, <1>3, <2>1, <2>2
<1>4. CASE /\ req[c].role # BadRole
           /\ req' = [req EXCEPT ![c] = Differences(users[req[c].on], req[c])]
           /\ Goto(c, "flush") /\ UNCHANGED <<me, audited>>
  <2> DEFINE q == Differences(users[req[c].on], req[c])
  <2>1. q \in Request /\ q.on = req[c].on /\ q.role \in {req[c].role, Unset}
    BY <1>t DEF Request, Differences
  <2>2. req' = [req EXCEPT ![c] = q]
    BY <1>4
  <2> HIDE DEF q
  <2>3. QED
    BY <1>1, <1>2, <1>4, <2>1, <2>2
<1>5. CASE Finish(c)
  BY <1>t, <1>5, QuietEnd
<1>6. QED
  BY <1>3, <1>4, <1>5 DEF ReadUser

LEMMA LogMoves ==
    ASSUME TypeOK, NEW c \in Clients, LogAs(c), UNCHANGED <<users, me>>
    PROVE  /\ audited' \in [Clients -> Fates]
           /\ \A d \in Clients \ {c} : audited'[d] = audited[d]
           /\ Accounted(c)'
<1>1. PICK e \in Fates : /\ audited' = [audited EXCEPT ![c] = e]
                        /\ \/ e = "stored"
                           \/ e = "refused" /\ ~Stored(me[c])
                           \/ e = "lost" /\ AuditFaults
  BY DEF LogAs, Fates
<1>2. QED
  BY <1>1 DEF TypeOK, Accounted, Stored

LEMMA QuietSteps ==
    ASSUME AccountsInv, NEW c \in Clients,
           \/ CheckName(c) \/ LogRegister(c) \/ ReadUser(c) \/ LogUpdate(c)
           \/ AccountGone(c) \/ ReadTarget(c) \/ CountAdmins(c) \/ LogDelete(c)
    PROVE  AccountsInv'
<1>t. TypeOK /\ audited \in [Clients -> Fates]
  BY DEF AccountsInv, TypeOK
<1>p. {"store", "commit", "count", "logdelete", "delete"} \subseteq PCs
  BY DEF PCs
<1>1. CASE CheckName(c)
  <2>1. CASE Finish(c)
    BY <1>1, <2>1, QuietEnd DEF CheckName
  <2>2. CASE Goto(c, "store") /\ UNCHANGED <<me, req, audited>>
    BY <1>t, <1>p, <1>1, <2>2, Advance DEF CheckName
  <2>3. QED
    BY <1>1, <2>1, <2>2 DEF CheckName
<1>2. CASE LogRegister(c) \/ AccountGone(c)
  BY <1>2, QuietEnd DEF LogRegister, AccountGone
<1>3. CASE ReadUser(c)
  BY <1>3, ReadStep
<1>4. CASE LogUpdate(c)
  BY <1>t, <1>p, <1>4, LogMoves, Advance DEF LogUpdate
<1>5. CASE ReadTarget(c)
  <2>1. PICK label \in {"count", "logdelete"} : Goto(c, label)
    BY <1>5 DEF ReadTarget
  <2>2. QED
    BY <1>t, <1>p, <1>5, <2>1, Advance DEF ReadTarget
<1>6. CASE CountAdmins(c)
  <2>1. CASE Finish(c)
    BY <1>6, <2>1, QuietEnd DEF CountAdmins
  <2>2. CASE Goto(c, "logdelete") /\ UNCHANGED <<me, req, audited>>
    BY <1>t, <1>p, <1>6, <2>2, Advance DEF CountAdmins
  <2>3. QED
    BY <1>6, <2>1, <2>2 DEF CountAdmins
<1>7. CASE LogDelete(c)
  BY <1>t, <1>p, <1>7, LogMoves, Advance DEF LogDelete
<1>8. QED
  BY <1>1, <1>2, <1>3, <1>4, <1>5, <1>6, <1>7

-----------------------------------------------------------------------------
(* Steps that change an account. *)

LEMMA UpdatedType ==
    ASSUME NEW row \in Account, NEW q \in Request, q.role # BadRole
    PROVE  /\ Updated(row, q) \in Account
           /\ Updated(row, q).name = row.name
<1>1. \A p \in Passwords : Fresh(p) \in Hash
  BY DEF Fresh, Hash
<1>2. CASE q.pw = Unset
  BY <1>2 DEF Updated, Account, Request
<1>3. CASE q.pw # Unset
  <2>1. q.pw \in Passwords
    BY <1>3 DEF Request
  <2>2. QED
    BY <1>1, <1>3, <2>1 DEF Updated, Account, Request
<1>4. QED
  BY <1>2, <1>3

(* A request that ends with one row changed, or removed. *)
LEMMA RowEnd ==
    ASSUME AccountsInv, NEW c \in Clients, Finish(c), nextId' = nextId,
           owner' \in [Ids -> Clients \cup {NoClient}],
           \A u \in Ids, d \in Clients \ {c} : owner[u] = d => owner'[u] = d,
           NEW u \in Ids, NEW r \in Account \cup {NoAccount},
           users' = [users EXCEPT ![u] = r],
           r # NoAccount =>
              Stored(u) /\ r.name = users[u].name,
           r = NoAccount => \A d \in Clients \ {c} : owner[u] # d
    PROVE  AccountsInv'
<1>t. TypeOK /\ nextId \in Nat /\ NamesUnique /\ IdsUsed
  BY DEF AccountsInv, TypeOK
<1>1. users'[u] = r /\ \A v \in Ids : v # u => users'[v] = users[v]
  BY <1>t DEF TypeOK
<1>2. RowsKept(c)
  BY <1>t, <1>1 DEF RowsKept, Stored
<1>3. Moves(c) /\ pc'[c] = "idle" /\ me'[c] = 0
  BY <1>t, FinishMoves
<1>4. 0 < nextId'
  <2>1. me[c] \in Nat /\ me[c] < nextId
    BY <1>t, IdsAssumption DEF TypeOK, Ids, AccountsInv, ClientInv, AuditInv
  <2>2. QED
    BY <1>t, <2>1
<1>5. ClientInv(c)'
  BY <1>3, <1>4, IdleClient
<1>6. NamesUnique' /\ IdsUsed'
  BY <1>t, <1>1 DEF NamesUnique, IdsUsed, Stored
<1>7. users' \in [Ids -> Account \cup {NoAccount}]
  BY <1>t DEF TypeOK
<1>8. QED
  BY <1>t, <1>2, <1>3, <1>5, <1>6, <1>7, ClientStep

LEMMA EndSteps ==
    ASSUME AccountsInv, NEW c \in Clients,
           Rehash(c) \/ RefuseUpdate(c) \/ CommitUpdate(c) \/ DeleteUser(c)
    PROVE  AccountsInv'
<1> DEFINE u == req[c].on
<1>t. /\ TypeOK /\ owner \in [Ids -> Clients \cup {NoClient}] /\ req[c] \in Request
      /\ ReqInv(c) /\ HoldsRow(c) /\ Finish(c) /\ nextId' = nextId
  BY DEF AccountsInv, TypeOK, ClientInv, Rehash, RefuseUpdate, CommitUpdate, DeleteUser
<1>0. u \in Ids /\ users \in [Ids -> Account \cup {NoAccount}]
  BY <1>t DEF ReqInv, Rehash, RefuseUpdate, CommitUpdate, DeleteUser, TypeOK
<1>a. Stored(u) => users[u] \in Account
  BY <1>0 DEF Stored
<1>1. CASE Rehash(c)
  <2>1. owner' = owner
    BY <1>1 DEF Rehash
  <2> DEFINE r == [users[u] EXCEPT !.hash = Fresh(req[c].pw)]
  <2>2. Stored(u) /\ req[c].pw \in Passwords
    BY <1>1, <1>t DEF Rehash, ReqInv
  <2>3. r \in Account /\ r.name = users[u].name
    BY <1>a, <2>2 DEF Account, Hash, Fresh
  <2>4. users' = [users EXCEPT ![u] = r]
    BY <1>1, <1>0 DEF Rehash
  <2> HIDE DEF r, u
  <2>5. QED
    BY <1>t, <1>0, <2>1, <2>2, <2>3, <2>4, NoAccountAssumption, RowEnd
<1>2. CASE RefuseUpdate(c) \/ CommitUpdate(c)
  <2> DEFINE r == Updated(users[u], req[c])
  <2>1. Stored(u) /\ req[c].role # BadRole
    BY <1>2, <1>t, UnsetAssumption DEF RefuseUpdate, CommitUpdate, ReqInv, HoldsRow
  <2>2. r \in Account /\ r.name = users[u].name
    BY <1>t, <1>a, <2>1, UpdatedType
  <2>3. users' = [users EXCEPT ![u] = r]
    BY <1>2 DEF RefuseUpdate, CommitUpdate
  <2>4. /\ owner' \in [Ids -> Clients \cup {NoClient}]
        /\ \A v \in Ids, d \in Clients \ {c} : owner[v] = d => owner'[v] = d
    BY <1>t, <1>2 DEF RefuseUpdate, CommitUpdate, Release
  <2> HIDE DEF r, u
  <2>5. QED
    BY <1>t, <1>0, <2>1, <2>2, <2>3, <2>4, NoAccountAssumption, RowEnd
<1>3. CASE DeleteUser(c)
  <2>1. /\ owner[u] = NoClient /\ owner' = owner
        /\ users' = [users EXCEPT ![u] = NoAccount]
    BY <1>3 DEF DeleteUser
  <2> HIDE DEF u
  <2>2. QED
    BY <1>t, <1>0, <2>1, NoClientAssumption, RowEnd
<1>4. QED
  BY <1>1, <1>2, <1>3

LEMMA OtherSteps ==
    ASSUME AccountsInv, NEW c \in Clients,
           FlushUpdate(c) \/ StoreUser(c) \/ StoreFails(c) \/ Abort(c)
    PROVE  AccountsInv'
<1>t. /\ TypeOK /\ nextId \in Nat /\ NamesUnique /\ IdsUsed
      /\ users \in [Ids -> Account \cup {NoAccount}]
      /\ owner \in [Ids -> Clients \cup {NoClient}]
      /\ ReqInv(c) /\ AuditInv(c) /\ HoldsRow(c) /\ req[c] \in Request
  BY DEF AccountsInv, TypeOK, ClientInv
<1>0. 0 < nextId
  <2>1. me[c] \in Nat /\ me[c] < nextId
    BY <1>t, IdsAssumption DEF TypeOK, Ids, AuditInv
  <2>2. QED
    BY <1>t, <2>1
<1>1. CASE FlushUpdate(c)
  <2> DEFINE u == req[c].on
  <2>1. /\ pc[c] = "flush" /\ owner[u] = NoClient /\ Stored(u)
        /\ owner' = [owner EXCEPT ![u] = c] /\ pc' = [pc EXCEPT ![c] = "logupdate"]
        /\ UNCHANGED <<users, nextId, me, req, audited>>
    BY <1>1 DEF FlushUpdate, Goto
  <2>2. u \in Ids
    BY <1>t, <2>1 DEF ReqInv
  <2>3. Moves(c) /\ pc'[c] = "logupdate"
    BY <1>t, <2>1 DEF TypeOK, Moves, PCs
  <2>4. RowsKept(c)
    BY <1>t, <2>1, <2>2, NoClientAssumption DEF RowsKept, Stored
  <2>5. ReqInv(c)' /\ AuditInv(c)'
    BY <1>t, <2>1, <2>3 DEF ReqInv, AuditInv
  <2>6. HoldsRow(c)'
    BY <1>t, <2>1, <2>2 DEF HoldsRow, Stored
  <2>7. NamesUnique' /\ IdsUsed'
    BY <1>t, <2>1 DEF NamesUnique, IdsUsed, Stored
  <2>8. owner' \in [Ids -> Clients \cup {NoClient}]
    BY <1>t, <2>1
  <2>9. QED
    BY <1>t, <2>1, <2>3, <2>4, <2>5, <2>6, <2>7, <2>8, ClientStep DEF ClientInv
<1>2. CASE StoreUser(c)
  <2> DEFINE r == [name |-> req[c].name, hash |-> Fresh(req[c].pw),
                   role |-> req[c].role, active |-> TRUE]
  <2>1. /\ pc[c] = "store" /\ ~Taken(req[c].name) /\ users' = [users EXCEPT ![nextId] = r]
        /\ nextId' = nextId + 1 /\ pc' = [pc EXCEPT ![c] = "logregister"]
        /\ UNCHANGED <<owner, me, req, audited>>
    BY <1>2 DEF StoreUser, Goto
  <2>2. r \in Account /\ r.name = req[c].name
    BY <1>t, <2>1 DEF ReqInv, Account, Hash, Fresh
  <2> HIDE DEF r
  <2>3. Moves(c) /\ pc'[c] = "logregister"
    BY <1>t, <2>1 DEF TypeOK, Moves, PCs
  <2>4. \A u \in Ids : IF u = nextId THEN users'[u] = r /\ ~Stored(u) ELSE users'[u] = users[u]
    BY <1>t, <2>1 DEF IdsUsed
  <2>5. RowsKept(c)
    BY <1>t, <2>1, <2>2, <2>4, NoAccountAssumption DEF RowsKept, Stored
  <2>6. NamesUnique'
    BY <1>t, <2>1, <2>2, <2>4 DEF NamesUnique, Taken, Stored
  <2>7. IdsUsed'
    BY <1>t, <2>1, <2>4, IdsAssumption DEF IdsUsed, Stored, Ids
  <2>8. me[c] < nextId /\ me[c] \in Int /\ (me[c] \in Ids)
    BY <1>t, <2>1, IdsAssumption DEF AuditInv, TypeOK, Ids
  <2>9. ReqInv(c)' /\ AuditInv(c)' /\ HoldsRow(c)'
    BY <1>t, <2>1, <2>3, <2>8 DEF ReqInv, AuditInv, HoldsRow
  <2>10. users' \in [Ids -> Account \cup {NoAccount}] /\ nextId' \in Nat
         /\ owner' \in [Ids -> Clients \cup {NoClient}]
    <3>1. users' \in [Ids -> Account \cup {NoAccount}]
      BY <1>t, <2>1, <2>2, Zenon
    <3>2. nextId' \in Nat /\ owner' \in [Ids -> Clients \cup {NoClient}]
      BY <1>t, <2>1
    <3>3. QED
      BY <3>1, <3>2
  <2>11. QED
    BY <2>3, <2>5, <2>6, <2>7, <2>9, <2>10, ClientStep DEF ClientInv
<1>3. CASE StoreFails(c) \/ Abort(c)
  <2>1. /\ Finish(c) /\ users' = users /\ nextId' \in {nextId, nextId + 1}
        /\ owner' \in [Ids -> Clients \cup {NoClient}]
        /\ \A u \in Ids, d \in Clients \ {c} : owner[u] = d => owner'[u] = d
    BY <1>t, <1>3 DEF StoreFails, Abort, Release
  <2>2. nextId' \in Nat /\ nextId <= nextId' /\ 0 < nextId'
    BY <1>t, <1>0, <2>1
  <2>3. Moves(c) /\ ClientInv(c)'
    BY <1>t, <2>1, <2>2, FinishMoves, IdleClient
  <2>4. RowsKept(c)
    BY <1>t, <2>1, <2>2 DEF RowsKept, Stored
  <2>5. NamesUnique'
    BY <1>t, <2>1 DEF NamesUnique, Stored
  <2>6. IdsUsed'
    <3>1. \A u \in Ids : u \in Int
      BY DEF Ids
    <3>2. QED
      BY <1>t, <2>1, <2>2, <3>1 DEF IdsUsed, Stored
  <2>7. QED
    BY <1>t, <2>1, <2>2, <2>3, <2>4, <2>5, <2>6, ClientStep
<1>4. QED
  BY <1>1, <1>2, <1>3

(* Requests are lost, and an empty table gets an admin. *)
LEMMA RestartStep ==
    ASSUME AccountsInv, Restart
    PROVE  AccountsInv'
<1>t. /\ TypeOK /\ nextId \in Nat /\ NamesUnique /\ IdsUsed
      /\ users \in [Ids -> Account \cup {NoAccount}]
  BY DEF AccountsInv, TypeOK
<1>1. /\ owner' \in [Ids -> Clients \cup {NoClient}] /\ pc' \in [Clients -> PCs]
      /\ me' \in [Clients -> Ids \cup {0}] /\ req' \in [Clients -> Request]
      /\ audited' \in [Clients -> Fates]
      /\ \A c \in Clients : pc'[c] = "idle" /\ me'[c] = 0
  BY NothingType DEF Restart, PCs, Fates
<1>2. /\ users' \in [Ids -> Account \cup {NoAccount}] /\ nextId' \in Nat /\ nextId <= nextId'
      /\ NamesUnique' /\ IdsUsed'
  <2>1. CASE UNCHANGED <<users, nextId>>
    BY <1>t, <2>1 DEF NamesUnique, IdsUsed, Stored
  <2>2. CASE /\ \A u \in Ids : ~Stored(u)
             /\ nextId \in Ids
             /\ \E n \in Names, p \in Passwords :
                   users' = [users EXCEPT ![nextId] =
                                [name |-> n, hash |-> Fresh(p), role |-> "admin", active |-> TRUE]]
             /\ nextId' = nextId + 1
    <3>1. PICK n \in Names, p \in Passwords :
             users' = [users EXCEPT ![nextId] =
                          [name |-> n, hash |-> Fresh(p), role |-> "admin", active |-> TRUE]]
      BY <2>2
    <3> DEFINE r == [name |-> n, hash |-> Fresh(p), role |-> "admin", active |-> TRUE]
    <3>2. r \in Account
      BY RolesAssumption DEF Account, Hash, Fresh
    <3>3. users' = [users EXCEPT ![nextId] = r]
      BY <3>1
    <3> HIDE DEF r
    <3>4. users' \in [Ids -> Account \cup {NoAccount}]
      BY <1>t, <3>2, <3>3
    <3>5. \A u \in Ids : Stored(u)' => u = nextId
      BY <1>t, <2>2, <3>3 DEF Stored
    <3>6. NamesUnique'
      BY <3>5 DEF NamesUnique
    <3>7. nextId' \in Nat /\ nextId <= nextId' /\ nextId < nextId'
      BY <1>t, <2>2
    <3>8. QED
      BY <3>4, <3>5, <3>6, <3>7 DEF IdsUsed
  <2>3. QED
    BY <2>1, <2>2 DEF Restart
<1>3. ASSUME NEW c \in Clients PROVE ClientInv(c)'
  <2>1. me[c] \in Nat /\ me[c] < nextId
    BY <1>t, IdsAssumption DEF TypeOK, Ids, AccountsInv, ClientInv, AuditInv
  <2>2. 0 < nextId'
    BY <1>t, <1>2, <2>1
  <2>3. QED
    BY <1>1, <2>2, IdleClient
<1>4. QED
  BY <1>1, <1>2, <1>3 DEF AccountsInv, TypeOK

LEMMA AccountsInit == Init => AccountsInv
<1> SUFFICES ASSUME Init PROVE AccountsInv
  OBVIOUS
<1>1. TypeOK
  BY SeedAssumption, IdsAssumption, NothingType DEF Init, TypeOK, PCs, Fates
<1>2. NamesUnique
  BY SeedAssumption DEF Init, NamesUnique, Stored
<1>3. IdsUsed
  BY SeedAssumption, IdsAssumption DEF Init, IdsUsed, Stored, Ids
<1>4. \A c \in Clients : ClientInv(c)
  BY IdsAssumption DEF Init, ClientInv, ReqInv, AuditInv, HoldsRow
<1>5. QED
  BY <1>1, <1>2, <1>3, <1>4 DEF AccountsInv

LEMMA AccountsStep == AccountsInv /\ [Next]_vars => AccountsInv'
<1> SUFFICES ASSUME AccountsInv, [Next]_vars PROVE AccountsInv'
  OBVIOUS
<1>1. ASSUME NEW c \in Clients, Serve(c) PROVE AccountsInv'
  BY <1>1, QuietSteps, EndSteps, OtherSteps DEF Serve
<1>2. ASSUME NEW c \in Clients, Acquire(c) PROVE AccountsInv'
  BY <1>2, EndSteps, OtherSteps DEF Acquire
<1>3. CASE UNCHANGED vars
  <2>1. UNCHANGED <<users, nextId, owner, pc, me, req, audited>>
    BY <1>3 DEF vars
  <2>2. TypeOK' /\ NamesUnique' /\ IdsUsed'
    BY <2>1 DEF AccountsInv, TypeOK, NamesUnique, IdsUsed, Stored
  <2>3. \A c \in Clients : ClientInv(c)'
    BY <2>1 DEF AccountsInv, ClientInv, ReqInv, AuditInv, HoldsRow, Accounted, Stored
  <2>4. QED
    BY <2>2, <2>3 DEF AccountsInv
<1>4. QED
  BY <1>1, <1>2, <1>3, AskStep, OtherSteps, RestartStep DEF Next

LEMMA AccountsInvariant == Spec => []AccountsInv
  BY AccountsInit, AccountsStep, PTL DEF Spec

-----------------------------------------------------------------------------
(* Requests, rows and sequences keep their types: no update stores a role that
   is not valid, no registration one without a password. *)
THEOREM AccountsTypeCorrect == Spec => []TypeOK
<1>1. AccountsInv => TypeOK
  BY DEF AccountsInv
<1>2. QED
  BY <1>1, AccountsInvariant, PTL

(* No two accounts ever have one name, however many registrations have passed
   the lookup at the same time: the unique index decides. *)
THEOREM NamesStayUnique == Spec => []NamesUnique
<1>1. AccountsInv => NamesUnique
  BY DEF AccountsInv
<1>2. QED
  BY <1>1, AccountsInvariant, PTL

(* An update that has been flushed finds its row at the commit. *)
THEOREM UpdatesKeepTheirRow == Spec => []UpdateKeepsRow
<1>1. AccountsInv => UpdateKeepsRow
  BY DEF AccountsInv, ClientInv, HoldsRow, UpdateKeepsRow
<1>2. QED
  BY <1>1, AccountsInvariant, PTL

-----------------------------------------------------------------------------
LEMMA FreshRow ==
    ASSUME NEW row \in Account, NEW p \in Passwords
    PROVE  [row EXCEPT !.hash = Fresh(p)] \in Account
<1>1. Fresh(p) \in Hash
  BY DEF Hash, Fresh
<1>2. QED
  BY <1>1 DEF Account

LEMMA PasswordOnly ==
    ASSUME NEW row \in Account, NEW q \in Request, q.role = Unset, q.active = Unset
    PROVE  [Updated(row, q) EXCEPT !.hash = row.hash] = row
  BY DEF Updated, Account

(* Whatever an account loses or has changed besides its hash, it loses to a
   request whose entry is in the log, or whose admin was gone before, or whose
   entry could not be written. *)
THEOREM AccountChangesAudited == Spec => ChangesAudited
<1> DEFINE Seen(u) == \/ users'[u] # NoAccount
                         /\ [users'[u] EXCEPT !.hash = users[u].hash] = users[u]
                      \/ \E c \in Clients :
                            /\ req[c].on = u
                            /\ pc[c] # "idle" /\ pc'[c] = "idle"
                            /\ Accounted(c)
           Entered == \A u \in Ids : Stored(u) /\ users'[u] # users[u] => Seen(u)
<1>1. ASSUME AccountsInv, Next PROVE Entered
  <2> SUFFICES ASSUME NEW u \in Ids, Stored(u), users'[u] # users[u] PROVE Seen(u)
    OBVIOUS
  <2>t. TypeOK /\ users[u] \in Account
    BY <1>1 DEF AccountsInv, TypeOK, Stored
  <2>h. ASSUME NEW h, users'[u] = [users[u] EXCEPT !.hash = h], users'[u] # NoAccount
        PROVE  Seen(u)
    <3>1. [users'[u] EXCEPT !.hash = users[u].hash] = users[u]
      BY <2>t, <2>h DEF Account
    <3>2. QED
      BY <2>h, <3>1
  <2>1. ~Restart
    BY <2>t DEF Restart
  <2>2. PICK c \in Clients : Ask(c) \/ Serve(c) \/ Acquire(c) \/ Abort(c)
    BY <1>1, <2>1 DEF Next
  <2>3. \/ StoreUser(c) \/ Rehash(c) \/ RefuseUpdate(c) \/ CommitUpdate(c) \/ DeleteUser(c)
    BY <2>2 DEF Ask, Login, AskRegister, AskUpdate, AskDelete, Admit, Serve, CheckName,
       StoreFails, LogRegister, ReadUser, LogUpdate, AccountGone, ReadTarget,
       CountAdmins, LogDelete, Acquire, FlushUpdate, Abort
  <2>4. ~StoreUser(c)
    BY <1>1, <2>t DEF StoreUser, AccountsInv, IdsUsed, TypeOK
  <2>c. /\ ReqInv(c) /\ AuditInv(c) /\ req[c] \in Request
        /\ users' \in [Ids -> Account \cup {NoAccount}]
    BY <1>1, <2>t, AccountsStep DEF AccountsInv, ClientInv, TypeOK
  <2>5. CASE Rehash(c)
    <3>1. users' = [users EXCEPT ![req[c].on].hash = Fresh(req[c].pw)]
      BY <2>5 DEF Rehash
    <3>2. users'[u] = [users[u] EXCEPT !.hash = Fresh(req[c].pw)] /\ u = req[c].on
      BY <2>t, <3>1 DEF TypeOK
    <3>3. req[c].pw \in Passwords
      BY <2>5, <2>c DEF Rehash, ReqInv
    <3>4. users'[u] \in Account
      BY <2>t, <3>2, <3>3, FreshRow
    <3>5. QED
      BY <2>h, <3>2, <3>4, NoAccountAssumption
  <2>6. CASE RefuseUpdate(c)
    <3>1. users' = [users EXCEPT ![req[c].on] = Updated(@, req[c])]
          /\ req[c].role = Unset /\ req[c].active = Unset
      BY <2>6, <2>c DEF RefuseUpdate, ReqInv
    <3>2. users'[u] = Updated(users[u], req[c])
      BY <2>t, <3>1 DEF TypeOK
    <3>3. users'[u] # NoAccount
      BY <2>t, <2>c, <3>1, <3>2, UnsetAssumption, NoAccountAssumption, UpdatedType
    <3>4. [users'[u] EXCEPT !.hash = users[u].hash] = users[u]
      BY <2>t, <2>c, <3>1, <3>2, PasswordOnly
    <3>5. QED
      BY <3>3, <3>4
  <2>7. CASE CommitUpdate(c) \/ DeleteUser(c)
    <3>1. /\ pc[c] \in {"commit", "delete"} /\ Finish(c)
          /\ \E r : users' = [users EXCEPT ![req[c].on] = r]
      BY <2>7, Zenon DEF CommitUpdate, DeleteUser
    <3>2. req[c].on = u
      BY <2>t, <3>1 DEF TypeOK
    <3>3. pc'[c] = "idle" /\ Accounted(c)
      BY <2>t, <2>c, <3>1, FinishMoves DEF AuditInv
    <3>4. QED
      BY <3>1, <3>2, <3>3
  <2>8. QED
    BY <2>3, <2>4, <2>5, <2>6, <2>7
<1>2. AccountsInv /\ [Next]_vars => [Entered]_vars
  BY <1>1
<1>3. QED
  BY <1>2, AccountsInvariant, PTL DEF Spec, ChangesAudited
=============================================================================
