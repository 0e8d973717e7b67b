---------------------------- MODULE UserAccounts ----------------------------
(***************************************************************************)
(* The accounts of routes/auth.py: registration, login with its rehash,    *)
(* update and deletion by admins, and the two decorators that let a        *)
(* request in.  Handlers read a row without a lock, decide from what they  *)
(* read, and write later; the ORM writes only the columns that differ.     *)
(*                                                                         *)
(* Tokens carry an account id and nothing else that is used, ids are never *)
(* given out twice, and a token outlives the changes made here, so a       *)
(* client may send a request as any account.  What is answered 401 or 403  *)
(* at once, and the handlers that only read (me, verify-password, the list *)
(* of users, the manual), change nothing.                                  *)
(***************************************************************************)
EXTENDS Integers, FiniteSets

CONSTANTS
    Clients,    \* threads that serve requests about accounts
    NoClient,   \* "the row is not locked"
    Names,      \* usernames
    Passwords,
    Roles,      \* the valid roles
    BadRole,    \* a role that is none of them
    Unset,      \* "the request does not have this field"
    NoAccount,  \* "no row with this id"
    Seed,       \* the accounts when the server starts
    FirstId,    \* the first value of users_id_seq
    MaxId,      \* BOUND: the last id that is given out
    NewUsers,   \* what clients ask to register
    Changes,    \* the fields clients put into an update
    AuditFaults \* the connection or the INSERT of an audit entry can fail

Ids      == 1..MaxId
Hash     == [pw : Passwords, outdated : BOOLEAN]
Account  == [name : Names, hash : Hash, role : Roles, active : BOOLEAN]
Request  == [on : Ids \cup {0}, name : Names \cup {Unset},
             pw : Passwords \cup {Unset}, role : Roles \cup {BadRole, Unset},
             active : BOOLEAN \cup {Unset}]
Nothing  == [on |-> 0, name |-> Unset, pw |-> Unset, role |-> Unset, active |-> Unset]

ASSUME NoClientAssumption  == NoClient \notin Clients
ASSUME RolesAssumption     == "admin" \in Roles /\ BadRole \notin Roles
ASSUME UnsetAssumption     ==
    /\ Unset \notin Names /\ Unset \notin Passwords
    /\ Unset \notin Roles \cup {BadRole} /\ Unset \notin BOOLEAN
ASSUME NoAccountAssumption == NoAccount \notin Account
ASSUME IdsAssumption       == FirstId \in Nat \ {0} /\ MaxId \in Nat
ASSUME SeedAssumption ==
    /\ Seed \in [Ids -> Account \cup {NoAccount}]
    /\ \A u \in Ids : u >= FirstId => Seed[u] = NoAccount
    /\ \A u, v \in Ids :
          Seed[u] # NoAccount /\ Seed[v] # NoAccount /\ Seed[u].name = Seed[v].name => u = v
ASSUME NewUsersAssumption == NewUsers \subseteq [name : Names, pw : Passwords, role : Roles]
ASSUME ChangesAssumption ==
    Changes \subseteq [pw : Passwords \cup {Unset}, role : Roles \cup {BadRole, Unset},
                       active : BOOLEAN \cup {Unset}]

ASSUME FaultsAssumption == AuditFaults \in BOOLEAN

VARIABLES
    users,    \* id -> committed row
    nextId,   \* users_id_seq
    owner,    \* id -> client whose open transaction has written the row
    pc,       \* client -> where its request stands
    me,       \* client -> g.current_user, of which the id matters
    req,      \* client -> what the request asks; for an update, what it will write
    audited   \* client -> what became of the audit entry of this request

vars == <<users, nextId, owner, pc, me, req, audited>>

Stored(u)  == users[u] # NoAccount
IsAdmin(u) == Stored(u) /\ users[u].role = "admin"
MayAct(u)  == IsAdmin(u) /\ users[u].active
HasAdmin   == \E u \in Ids : IsAdmin(u)
Taken(n)   == \E u \in Ids : Stored(u) /\ users[u].name = n
Fresh(p)   == [pw |-> p, outdated |-> FALSE]

Registering == {c \in Clients : pc[c] \in {"name", "store"}}

Init ==
    /\ users   = Seed
    /\ nextId  = FirstId
    /\ owner   = [u \in Ids |-> NoClient]
    /\ pc      = [c \in Clients |-> "idle"]
    /\ me      = [c \in Clients |-> 0]
    /\ req     = [c \in Clients |-> Nothing]
    /\ audited = [c \in Clients |-> "none"]

Goto(c, label) == pc' = [pc EXCEPT ![c] = label]

Finish(c) ==
    /\ Goto(c, "idle")
    /\ me'      = [me      EXCEPT ![c] = 0]
    /\ req'     = [req     EXCEPT ![c] = Nothing]
    /\ audited' = [audited EXCEPT ![c] = "none"]

(* The session ends: what it has not committed is gone. *)
MutRelease(c) == UNCHANGED owner

Release(c) == owner' = [u \in Ids |-> IF owner[u] = c THEN NoClient ELSE owner[u]]

-----------------------------------------------------------------------------
(* login: the row is read and detached, then the password verified.  With a
   hash made under current parameters a token is all that comes of it. *)
Login(c, u) ==
    /\ pc[c] = "idle"
    /\ Stored(u)
    /\ users[u].active
    /\ users[u].hash.outdated
    /\ req' = [req EXCEPT ![c] = [Nothing EXCEPT !.on = u, !.pw = users[u].hash.pw]]
    /\ Goto(c, "rehash")
    /\ UNCHANGED <<users, nextId, owner, me, audited>>

(* A second session then writes a new hash of the password that was verified,
   whatever the row has by now; the UPDATE waits for who has the row. *)
Rehash(c) ==
    LET u == req[c].on
    IN  /\ pc[c] = "rehash"
        /\ owner[u] = NoClient
        /\ Stored(u)
        /\ users' = [users EXCEPT ![u].hash = Fresh(req[c].pw)]
        /\ Finish(c)
        /\ UNCHANGED <<nextId, owner>>

-----------------------------------------------------------------------------
(* require_auth and require_role: the account is read in a session of its own
   and detached; from here on the handler goes by what it was. *)
MutAdmit(c, u, q, label) ==
    /\ pc[c] = "idle"
    /\ Stored(u)
    /\ me'  = [me EXCEPT ![c] = u]
    /\ req' = [req EXCEPT ![c] = q]
    /\ Goto(c, label)
    /\ UNCHANGED <<users, nextId, owner, audited>>

Admit(c, u, q, label) ==
    /\ pc[c] = "idle"
    /\ MayAct(u)
    /\ me'  = [me EXCEPT ![c] = u]
    /\ req' = [req EXCEPT ![c] = q]
    /\ Goto(c, label)
    /\ UNCHANGED <<users, nextId, owner, audited>>

MutLogAs(c) == UNCHANGED audited

(* log_action through a connection of its own, every failure of which is
   swallowed.  activity_logs.user_id refers to users, so the entry of an admin
   whose account is gone is refused; and the pool may have no connection, or
   the INSERT fail. *)
LogAs(c) ==
    \E e \in {IF Stored(me[c]) THEN "stored" ELSE "refused"}
                \cup (IF AuditFaults THEN {"lost"} ELSE {}) :
        audited' = [audited EXCEPT ![c] = e]

-----------------------------------------------------------------------------
AskRegister(c, u, q) ==
    /\ nextId + Cardinality(Registering) <= MaxId
    /\ Admit(c, u, [Nothing EXCEPT !.name = q.name, !.pw = q.pw, !.role = q.role], "name")

(* register: the name is looked up without a lock (409 if it is there) ... *)
CheckName(c) ==
    /\ pc[c] = "name"
    /\ \/ Taken(req[c].name) /\ Finish(c)
       \/ ~Taken(req[c].name) /\ Goto(c, "store") /\ UNCHANGED <<me, req, audited>>
    /\ UNCHANGED <<users, nextId, owner>>

MutStoreUser(c) ==
    /\ pc[c] = "store"
    /\ users' = [users EXCEPT ![nextId] =
                    [name |-> req[c].name, hash |-> Fresh(req[c].pw),
                     role |-> req[c].role, active |-> TRUE]]
    /\ nextId' = nextId + 1
    /\ Goto(c, "logregister")
    /\ UNCHANGED <<owner, me, req, audited>>

(* ... so the unique index decides at the flush, which the commit follows. *)
StoreUser(c) ==
    /\ pc[c] = "store"
    /\ ~Taken(req[c].name)
    /\ users' = [users EXCEPT ![nextId] =
                    [name |-> req[c].name, hash |-> Fresh(req[c].pw),
                     role |-> req[c].role, active |-> TRUE]]
    /\ nextId' = nextId + 1
    /\ Goto(c, "logregister")
    /\ UNCHANGED <<owner, me, req, audited>>

(* The loser draws an id for nothing. *)
StoreFails(c) ==
    /\ pc[c] = "store"
    /\ Taken(req[c].name)
    /\ nextId' = nextId + 1
    /\ Finish(c)
    /\ UNCHANGED <<users, owner>>

LogRegister(c) ==
    /\ pc[c] = "logregister"
    /\ Finish(c)
    /\ UNCHANGED <<users, nextId, owner>>

-----------------------------------------------------------------------------
AskUpdate(c, u, v, q) ==
    Admit(c, u, [on |-> v, name |-> Unset, pw |-> q.pw, role |-> q.role,
                 active |-> q.active], "read")

(* The fields of q that differ from the row as it was read; a password always
   does, because of its salt. *)
Differences(row, q) ==
    [q EXCEPT !.role   = IF q.role = row.role THEN Unset ELSE q.role,
              !.active = IF q.active = row.active THEN Unset ELSE q.active]

Writes(q) == q.pw # Unset \/ q.role # Unset \/ q.active # Unset

MutReadUser(c) ==
    LET q == req[c]
        d == Differences(users[q.on], q)
    IN  /\ pc[c] = "read"
        /\ Stored(q.on)
        /\ IF Writes(d)
           THEN /\ req' = [req EXCEPT ![c] = d]
                /\ Goto(c, "flush")
                /\ UNCHANGED <<me, audited>>
           ELSE Finish(c)
        /\ UNCHANGED <<users, nextId, owner>>

(* update_user reads the row and sets attributes one after the other: the
   password before the role is looked at, so that a role that is refused with
   400 leaves a password to be written when the session is committed. *)
ReadUser(c) ==
    LET q == req[c]
        d == Differences(users[q.on], q)
    IN  /\ pc[c] = "read"
        /\ Stored(q.on)
        /\ \/ /\ q.role = BadRole
              /\ q.pw # Unset
              /\ req' = [req EXCEPT ![c] = [Nothing EXCEPT !.on = q.on, !.pw = q.pw]]
              /\ Goto(c, "refuse")
              /\ UNCHANGED <<me, audited>>
           \/ /\ q.role # BadRole
              /\ Writes(d)
              /\ req' = [req EXCEPT ![c] = d]
              /\ Goto(c, "flush")
              /\ UNCHANGED <<me, audited>>
           \/ /\ IF q.role = BadRole THEN q.pw = Unset ELSE ~Writes(d)
              /\ Finish(c)
        /\ UNCHANGED <<users, nextId, owner>>

(* What the UPDATE of request q makes of a row. *)
Updated(row, q) ==
    [row EXCEPT !.hash   = IF q.pw = Unset THEN @ ELSE Fresh(q.pw),
                !.role   = IF q.role = Unset THEN @ ELSE q.role,
                !.active = IF q.active = Unset THEN @ ELSE q.active]

(* The early return inside the with-block. *)
RefuseUpdate(c) ==
    LET u == req[c].on
    IN  /\ pc[c] = "refuse"
        /\ owner[u] = NoClient
        /\ Stored(u)
        /\ users' = [users EXCEPT ![u] = Updated(@, req[c])]
        /\ Finish(c)
        /\ UNCHANGED <<nextId, owner>>

(* session.flush() sends the UPDATE, which locks the row until the commit. *)
FlushUpdate(c) ==
    LET u == req[c].on
    IN  /\ pc[c] = "flush"
        /\ owner[u] = NoClient
        /\ Stored(u)
        /\ owner' = [owner EXCEPT ![u] = c]
        /\ Goto(c, "logupdate")
        /\ UNCHANGED <<users, nextId, me, req, audited>>

LogUpdate(c) ==
    /\ pc[c] = "logupdate"
    /\ LogAs(c)
    /\ Goto(c, "commit")
    /\ UNCHANGED <<users, nextId, owner, me, req>>

CommitUpdate(c) ==
    LET u == req[c].on
    IN  /\ pc[c] = "commit"
        /\ users' = [users EXCEPT ![u] = Updated(@, req[c])]
        /\ Release(c)
        /\ Finish(c)
        /\ UNCHANGED nextId

(* 404, or an UPDATE that no longer finds its row: StaleDataError.  A login
   goes on without its rehash. *)
AccountGone(c) ==
    /\ pc[c] \in {"rehash", "read", "refuse", "flush", "target"}
    /\ ~Stored(req[c].on)
    /\ Finish(c)
    /\ UNCHANGED <<users, nextId, owner>>

-----------------------------------------------------------------------------
AskDelete(c, u, v) == Admit(c, u, [Nothing EXCEPT !.on = v], "target")

(* delete_user: the role as it was read decides whether admins are counted. *)
ReadTarget(c) ==
    /\ pc[c] = "target"
    /\ Stored(req[c].on)
    /\ Goto(c, IF IsAdmin(req[c].on) THEN "count" ELSE "logdelete")
    /\ UNCHANGED <<users, nextId, owner, me, req, audited>>

(* The count is a statement of its own and locks nothing. *)
CountAdmins(c) ==
    /\ pc[c] = "count"
    /\ IF Cardinality({u \in Ids : IsAdmin(u)}) <= 1
       THEN Finish(c)
       ELSE Goto(c, "logdelete") /\ UNCHANGED <<me, req, audited>>
    /\ UNCHANGED <<users, nextId, owner>>

LogDelete(c) ==
    /\ pc[c] = "logdelete"
    /\ LogAs(c)
    /\ Goto(c, "delete")
    /\ UNCHANGED <<users, nextId, owner, me, req>>

MutDeleteUser(c) ==
    /\ pc[c] = "delete"
    /\ users' = [users EXCEPT ![req[c].on] = NoAccount]
    /\ Finish(c)
    /\ UNCHANGED <<nextId, owner>>

(* DELETE and commit; finding no row is a warning and still answered 200. *)
DeleteUser(c) ==
    LET u == req[c].on
    IN  /\ pc[c] = "delete"
        /\ owner[u] = NoClient
        /\ users' = [users EXCEPT ![u] = NoAccount]
        /\ Finish(c)
        /\ UNCHANGED <<nextId, owner>>

-----------------------------------------------------------------------------
(* An exception in a handler: rollback.  A login swallows that of its rehash. *)
Abort(c) ==
    /\ pc[c] # "idle"
    /\ Release(c)
    /\ Finish(c)
    /\ UNCHANGED <<users, nextId>>

(* The server is started again: requests are lost, and _init_database seeds
   an admin if there is no account at all. *)
Restart ==
    /\ \/ UNCHANGED <<users, nextId>>
       \/ /\ \A u \in Ids : ~Stored(u)
          /\ nextId \in Ids
          /\ \E n \in Names, p \in Passwords :
                users' = [users EXCEPT ![nextId] =
                             [name |-> n, hash |-> Fresh(p), role |-> "admin", active |-> TRUE]]
          /\ nextId' = nextId + 1
    /\ owner'   = [u \in Ids |-> NoClient]
    /\ pc'      = [c \in Clients |-> "idle"]
    /\ me'      = [c \in Clients |-> 0]
    /\ req'     = [c \in Clients |-> Nothing]
    /\ audited' = [c \in Clients |-> "none"]

-----------------------------------------------------------------------------
Serve(c) ==
    \/ CheckName(c) \/ StoreUser(c) \/ StoreFails(c) \/ LogRegister(c)
    \/ ReadUser(c) \/ LogUpdate(c) \/ CommitUpdate(c) \/ AccountGone(c)
    \/ ReadTarget(c) \/ CountAdmins(c) \/ LogDelete(c)

(* Steps that wait for the row lock of an update. *)
Acquire(c) == Rehash(c) \/ RefuseUpdate(c) \/ FlushUpdate(c) \/ DeleteUser(c)

Ask(c) ==
    \E u \in Ids :
       \/ Login(c, u)
       \/ \E q \in NewUsers : AskRegister(c, u, q)
       \/ \E v \in Ids, q \in Changes : AskUpdate(c, u, v, q)
       \/ \E v \in Ids : AskDelete(c, u, v)

Next ==
    \/ \E c \in Clients : Ask(c) \/ Serve(c) \/ Acquire(c) \/ Abort(c)
    \/ Restart

Spec == Init /\ [][Next]_vars

(* Threads go on with their handlers, and PostgreSQL queues those that wait
   for a row.  Nothing makes clients ask, or handlers fail. *)
Fairness == \A c \in Clients : WF_vars(Serve(c)) /\ SF_vars(Acquire(c))

FairSpec == Spec /\ Fairness
-----------------------------------------------------------------------------
PCs == {"idle", "rehash", "name", "store", "logregister", "read", "refuse",
        "flush", "logupdate", "commit", "target", "count", "logdelete", "delete"}

Fates == {"none", "stored", "refused", "lost"}

TypeOK ==
    /\ users   \in [Ids -> Account \cup {NoAccount}]
    /\ nextId  \in Nat
    /\ owner   \in [Ids -> Clients \cup {NoClient}]
    /\ pc      \in [Clients -> PCs]
    /\ me      \in [Clients -> Ids \cup {0}]
    /\ req     \in [Clients -> Request]
    /\ audited \in [Clients -> Fates]

(* Two accounts never share a name, however many registrations of one name
   pass the check at once (auth.py:107-121): login looks accounts up by name
   and takes the first. *)
NamesUnique ==
    \A u, v \in Ids :
        Stored(u) /\ Stored(v) /\ users[u].name = users[v].name => u = v

(* From its flush to its commit an update has its row: a deletion that was
   asked for meanwhile waits, and what the answer and the audit entry report
   is stored (auth.py:394-415). *)
UpdateKeepsRow ==
    \A c \in Clients : pc[c] \in {"logupdate", "commit"} =>
        Stored(req[c].on) /\ owner[req[c].on] = c

(* The entry of request c is in the log, or could not be written. *)
Accounted(c) ==
    \/ audited[c] = "stored"
    \/ audited[c] = "refused" /\ ~Stored(me[c])
    \/ audited[c] = "lost" /\ AuditFaults

(* Whoever loses an account, or sees its role or its activity changed by a
   handler, finds it in the audit log under the admin who did it, unless that
   admin's own account was deleted before the entry was written, or writing it
   failed: the change and its entry are on two connections
   (auth.py:425-434, 482-489). *)
ChangesAudited ==
    [][\A u \in Ids :
          Stored(u) /\ users'[u] # users[u] =>
             \/ users'[u] # NoAccount /\ [users'[u] EXCEPT !.hash = users[u].hash] = users[u]
             \/ \E c \in Clients :
                   /\ req[c].on = u
                   /\ pc[c] # "idle" /\ pc'[c] = "idle"
                   /\ Accounted(c)]_vars

(* "Cannot delete the last admin account." (auth.py:477-480): a deletion does
   not leave the service without an admin. *)
AdminRemains ==
    [][\A c \in Clients :
          pc[c] = "delete" /\ pc'[c] = "idle" /\ HasAdmin => HasAdmin']_vars

(* A role that has been taken away for good ends to count: requests admitted
   under it before go on (the decorators read the account once,
   decorators.py:52-66), but no new ones are, and those in flight end. *)
RevokedEnds ==
    \A u \in Ids : <>[](~MayAct(u)) => <>[](\A c \in Clients : me[c] # u)

(* Every request is answered, also when it waits for the row of an account
   that others keep changing. *)
Answered == \A c \in Clients : (pc[c] # "idle") ~> (pc[c] = "idle")
=============================================================================
