---------------------------- MODULE ItemEditing ----------------------------
(***************************************************************************)
(* Concurrent editing of inventory items: GET and POST of routes/items.py, *)
(* the handlers of routes/update.py, and what rename_production_line does  *)
(* to a product, each running as one PostgreSQL transaction at READ        *)
(* COMMITTED on its own pooled connection (db.managed_connection), with    *)
(* its audit entry written through a SECOND connection (log_action).       *)
(*                                                                         *)
(* A client has one request in flight, so it stands for the Waitress       *)
(* thread that serves it.  db is what is committed; work[c] is what the    *)
(* open transaction of c has written and nobody else can see.              *)
(*                                                                         *)
(* A request that is refused before the database is touched (400) changes  *)
(* nothing and is a stuttering step.  A rename is the transaction of one   *)
(* product here: how it covers all products of its line, and the requests  *)
(* that delete_product rejects, are in ProductionLines and                 *)
(* ApprovalWorkflow.                                                       *)
(***************************************************************************)
EXTENDS ItemRecord

CONSTANTS
    Clients,      \* users editing items, each with one request at a time
    NoClient,     \* "the row is not locked"
    Items,        \* inventory ids
    Unread,       \* "this client has not fetched this item"
    Seed,         \* the stored items when the server starts
    FirstId,      \* first value of activities_id_seq
    Ops,          \* the kinds of request clients send
    Skips,        \* values of ?skip_revision clients send
    IdSets,       \* lists of activity ids a bulk update names, as sets
    MaxAdds,      \* longest list of new activities in one request
    AuditFaults,  \* whether the second connection can fail
    MaxTx         \* BOUND: number of transactions that change items

OpNames == {"get", "create", "patch", "add", "update", "delete", "bulk",
            "rename", "remove"}

ASSUME ItemsAssumption    == Items # {}
ASSUME NoClientAssumption == NoClient \notin Clients
ASSUME UnreadAssumption   == Unread \notin Content
ASSUME OpsAssumption      == Ops \subseteq OpNames
ASSUME IdSetsAssumption   == IdSets \subseteq SUBSET Nat /\ {} \in IdSets
ASSUME SkipsAssumption    == Skips \subseteq BOOLEAN
ASSUME FaultsAssumption   == AuditFaults \in BOOLEAN
ASSUME BoundsAssumption   == FirstId \in Nat /\ MaxAdds \in Nat /\ MaxTx \in Nat

(* Every product is loaded at revision "00" and has no archive yet. *)
ASSUME SeedAssumption ==
    /\ Seed \in [Items -> Record]
    /\ \A i \in Items : Seed[i].now.rev = 0 /\ Seed[i].arch = {}

VARIABLES
    db,      \* item -> committed record
    owner,   \* item -> client whose transaction holds the row lock
    clock,   \* PostgreSQL's clock, read by now() at the start of a transaction
    nextId,  \* activities_id_seq: advances outside of transactions
    pc,      \* client -> where its request stands
    req,     \* client -> the request in flight
    start,   \* client -> now() of its transaction
    old,     \* client -> revision read under the lock
    work,    \* client -> the record as its transaction has changed it
    view,    \* client -> item -> what its last GET returned
    audit,   \* rows of activity_logs about items
    blind    \* client -> the items whose revision does not count all that
             \* happened to them since its last GET (no code reads it)

vars == <<db, owner, clock, nextId, pc, req, start, old, work, view, audit, blind>>

Request ==
    [op : OpNames \cup {"none"}, item : Items, skip : BOOLEAN,
     meta : Metas \cup {Unset}, val : Vals \cup {Unset}, act : Nat,
     del : SUBSET Nat, upd : SUBSET Nat, adds : Nat, expect : Nat]

AuditEntry == [item : Items, at : Nat, rev : Nat]

PCs == {"idle", "get", "lock", "apply", "log", "commit",
        "insert", "store", "created"}

(* The request of an idle client; its fields are never read. *)
Blank(i) ==
    [op |-> "none", item |-> i, skip |-> FALSE, meta |-> Unset,
     val |-> Unset, act |-> 0, del |-> {}, upd |-> {},
     adds |-> 0, expect |-> 0]
NoRequest == Blank(CHOOSE i \in Items : TRUE)

-----------------------------------------------------------------------------
(* The requests a client can send, with the activity ids and the revision it
   saw in its last GET.  bulk_update_item insists on expected_revision. *)
KnownIds(c, i) == IF view[c][i] = Unread THEN {} ELSE Ids(view[c][i].acts)

KnownIdSets(c, i) == {S \in IdSets : S \subseteq KnownIds(c, i)}

Renames(i)    == {[Blank(i) EXCEPT !.op = "rename", !.meta = m] : m \in Metas}
Removes(i)    == {[Blank(i) EXCEPT !.op = "remove"]}
Patches(i)    == {[Blank(i) EXCEPT !.op = "patch", !.meta = m] : m \in Metas}
Adds(i)       == {[Blank(i) EXCEPT !.op = "add", !.val = v, !.skip = s] :
                    v \in Vals, s \in Skips}
Updates(c, i) == {[Blank(i) EXCEPT !.op = "update", !.val = v, !.skip = s, !.act = a] :
                    v \in Vals, s \in Skips, a \in KnownIds(c, i)}
Deletes(c, i) == {[Blank(i) EXCEPT !.op = "delete", !.skip = s, !.act = a] :
                    s \in Skips, a \in KnownIds(c, i)}
Creates(i)    == {[Blank(i) EXCEPT !.op = "create", !.meta = m, !.val = v, !.adds = n] :
                    m \in Metas, v \in Vals, n \in 0..MaxAdds}

(* What a bulk update can ask for.  A value is given exactly when an activity
   is updated or added with it. *)
BulkChanges(c, i) ==
    {q \in [meta : Metas \cup {Unset}, val : Vals \cup {Unset}, adds : 0..MaxAdds,
            del : KnownIdSets(c, i), upd : KnownIdSets(c, i)] :
        q.val = Unset <=> q.upd = {} /\ q.adds = 0}

Bulks(c, i) ==
    IF view[c][i] = Unread THEN {} ELSE
    {[Blank(i) EXCEPT !.op = "bulk", !.meta = q.meta, !.val = q.val,
                      !.del = q.del, !.upd = q.upd, !.adds = q.adds,
                      !.expect = view[c][i].rev] : q \in BulkChanges(c, i)}

Edits(c) ==
    {r \in UNION {Patches(i) \cup Adds(i) \cup Updates(c, i) \cup Deletes(c, i)
                    \cup Bulks(c, i) \cup Renames(i) \cup Removes(i) : i \in Items} :
        r.op \in Ops}

-----------------------------------------------------------------------------
Init ==
    /\ db     = Seed
    /\ owner  = [i \in Items |-> NoClient]
    /\ clock  = 0
    /\ nextId = FirstId
    /\ pc     = [c \in Clients |-> "idle"]
    /\ req    = [c \in Clients |-> NoRequest]
    /\ start  = [c \in Clients |-> 0]
    /\ old    = [c \in Clients |-> 0]
    /\ work   = [c \in Clients |-> Absent]
    /\ view   = [c \in Clients |-> [i \in Items |-> Unread]]
    /\ audit  = {}
    /\ blind  = [c \in Clients |-> {}]

Goto(c, label) == pc' = [pc EXCEPT ![c] = label]

MutRelease(c) == UNCHANGED owner

Release(c) == owner' = [i \in Items |-> IF owner[i] = c THEN NoClient ELSE owner[i]]

(* The handler has returned: the connection is back in the pool. *)
Finish(c) ==
    /\ Goto(c, "idle")
    /\ req'   = [req   EXCEPT ![c] = NoRequest]
    /\ start' = [start EXCEPT ![c] = 0]
    /\ old'   = [old   EXCEPT ![c] = 0]
    /\ work'  = [work  EXCEPT ![c] = Absent]

-----------------------------------------------------------------------------
(* get_item: two SELECTs, and at READ COMMITTED each sees what is committed
   when it runs, so an edit can commit between them. *)
ReadRow(c, i) ==
    /\ pc[c] = "idle"
    /\ db[i].live
    /\ view' = [view EXCEPT ![c][i] = [db[i].now EXCEPT !.acts = {}]]
    /\ blind' = [blind EXCEPT ![c] = @ \ {i}]
    /\ req'  = [req EXCEPT ![c] = [Blank(i) EXCEPT !.op = "get"]]
    /\ Goto(c, "get")
    /\ UNCHANGED <<db, owner, clock, nextId, start, old, work, audit>>

ReadActivities(c) ==
    LET i == req[c].item
    IN  /\ pc[c] = "get"
        /\ view' = [view EXCEPT ![c][i].acts = db[i].now.acts]
        /\ Finish(c)
        /\ UNCHANGED <<db, owner, clock, nextId, audit, blind>>

-----------------------------------------------------------------------------
(* The first statement of an edit, SELECT ... FOR UPDATE, or the UPDATE of a
   rename: the transaction is open, which fixes now(). *)
Begin(c, r) ==
    /\ pc[c] = "idle"
    /\ clock < MaxTx
    /\ clock' = clock + 1
    /\ start' = [start EXCEPT ![c] = clock']
    /\ req'   = [req EXCEPT ![c] = r]
    /\ Goto(c, "lock")
    /\ UNCHANGED <<db, owner, nextId, old, work, view, audit, blind>>

MutLockWithoutWaiting(c) ==
    LET i == req[c].item
    IN  /\ pc[c] = "lock"
        /\ owner' = [owner EXCEPT ![i] = c]
        /\ old'   = [old EXCEPT ![c] = db[i].now.rev]
        /\ Goto(c, "apply")
        /\ UNCHANGED <<db, clock, nextId, req, start, work, view, audit, blind>>

(* The lock is granted, and the row read again as it is by then
   (_fetch_product with for_update=True). *)
Lock(c) ==
    LET i == req[c].item
    IN  /\ pc[c] = "lock"
        /\ db[i].live
        /\ owner[i] = NoClient
        /\ owner' = [owner EXCEPT ![i] = c]
        /\ old'   = [old EXCEPT ![c] = db[i].now.rev]
        /\ Goto(c, "apply")
        /\ UNCHANGED <<db, clock, nextId, req, start, work, view, audit, blind>>

(* There is no row, or no more: 404, and a rename passes it over.  The row of
   a transaction that has not committed is not seen. *)
RowGone(c) ==
    /\ pc[c] = "lock"
    /\ ~db[req[c].item].live
    /\ Finish(c)
    /\ UNCHANGED <<db, owner, clock, nextId, view, audit, blind>>

Applying(c, op) == pc[c] = "apply" /\ req[c].op = op

(* update_product_metadata *)
ApplyPatch(c) ==
    LET r == req[c]
    IN  /\ Applying(c, "patch")
        /\ \E w \in PatchOutcomes(db[r.item], old[c], start[c], r.meta) :
              work' = [work EXCEPT ![c] = w]
        /\ Goto(c, "log")
        /\ UNCHANGED <<db, owner, clock, nextId, req, start, old, view, audit, blind>>

(* add_activity *)
ApplyAdd(c) ==
    LET r == req[c]
    IN  /\ Applying(c, "add")
        /\ \E w \in AddOutcomes(db[r.item], old[c], start[c], nextId, r.val, r.skip) :
              work' = [work EXCEPT ![c] = w]
        /\ nextId' = nextId + 1
        /\ Goto(c, "log")
        /\ UNCHANGED <<db, owner, clock, req, start, old, view, audit, blind>>

(* update_activity *)
ApplyUpdate(c) ==
    LET r == req[c]
    IN  /\ Applying(c, "update")
        /\ r.act \in Ids(db[r.item].now.acts)
        /\ \E pl \in Placings({r.act}) :
           \E w \in UpdateOutcomes(db[r.item], old[c], start[c], r.act, r.val, pl, r.skip) :
              work' = [work EXCEPT ![c] = w]
        /\ Goto(c, "log")
        /\ UNCHANGED <<db, owner, clock, nextId, req, start, old, view, audit, blind>>

(* delete_activity *)
ApplyDelete(c) ==
    LET r == req[c]
    IN  /\ Applying(c, "delete")
        /\ r.act \in Ids(db[r.item].now.acts)
        /\ \E w \in DeleteOutcomes(db[r.item], old[c], start[c], r.act, r.skip) :
              work' = [work EXCEPT ![c] = w]
        /\ Goto(c, "log")
        /\ UNCHANGED <<db, owner, clock, nextId, req, start, old, view, audit, blind>>

(* Both of them, when the activity is gone: 404, and nothing to commit. *)
ActivityMissing(c) ==
    LET r == req[c]
    IN  /\ Applying(c, "update") \/ Applying(c, "delete")
        /\ r.act \notin Ids(db[r.item].now.acts)
        /\ Release(c)
        /\ Finish(c)
        /\ UNCHANGED <<db, clock, nextId, view, audit, blind>>

MutApplyBulkUnchecked(c) ==
    LET r == req[c]
    IN  /\ Applying(c, "bulk")
        /\ \E pl \in Placings(r.upd \cup NewIds(nextId, r.adds)) :
           \E w \in BulkOutcomes(db[r.item], old[c], start[c], nextId, r, pl) :
              work' = [work EXCEPT ![c] = w]
        /\ nextId' = nextId + r.adds
        /\ Goto(c, "log")
        /\ UNCHANGED <<db, owner, clock, req, start, old, view, audit, blind>>

(* bulk_update_item, when the revision is the one the client expects ... *)
ApplyBulk(c) ==
    LET r == req[c]
    IN  /\ Applying(c, "bulk")
        /\ old[c] = r.expect
        /\ \E pl \in Placings(r.upd \cup NewIds(nextId, r.adds)) :
           \E w \in BulkOutcomes(db[r.item], old[c], start[c], nextId, r, pl) :
              work' = [work EXCEPT ![c] = w]
        /\ nextId' = nextId + r.adds
        /\ Goto(c, "log")
        /\ UNCHANGED <<db, owner, clock, req, start, old, view, audit, blind>>

(* ... and when it is not: 409. *)
BulkConflict(c) ==
    /\ Applying(c, "bulk")
    /\ old[c] # req[c].expect
    /\ Release(c)
    /\ Finish(c)
    /\ UNCHANGED <<db, clock, nextId, view, audit, blind>>

(* rename_production_line: the columns of this product, and nothing else. *)
ApplyRename(c) ==
    LET r == req[c]
    IN  /\ Applying(c, "rename")
        /\ work' = [work EXCEPT ![c] = Renamed(db[r.item], r.meta)]
        /\ Goto(c, "commit")
        /\ UNCHANGED <<db, owner, clock, nextId, req, start, old, view, audit, blind>>

(* delete_product: archive, activities and product row *)
ApplyRemove(c) ==
    /\ Applying(c, "remove")
    /\ work' = [work EXCEPT ![c] = Absent]
    /\ Goto(c, "log")
    /\ UNCHANGED <<db, owner, clock, nextId, req, start, old, view, audit, blind>>

-----------------------------------------------------------------------------
(* log_action without conn: one row through a connection of its own, durable
   at once; a failure is logged and swallowed. *)
WriteAudit(c) ==
    \/ audit' = audit \cup {[item |-> req[c].item, at |-> start[c],
                             rev  |-> work[c].now.rev]}
    \/ AuditFaults /\ UNCHANGED audit

MutLogEdit(c) ==
    /\ pc[c] = "log"
    /\ Goto(c, "commit")
    /\ UNCHANGED <<db, owner, clock, nextId, req, start, old, work, view, audit, blind>>

LogEdit(c) ==
    /\ pc[c] = "log"
    /\ WriteAudit(c)
    /\ Goto(c, "commit")
    /\ UNCHANGED <<db, owner, clock, nextId, req, start, old, work, view, blind>>

(* The requests whose effect the revision does not count: skip_revision=1, a
   rename, and delete_product, after which it starts again from "00". *)
Uncounted(r) == r.skip \/ r.op \in {"rename", "remove"}

(* managed_connection on leaving the with-block: conn.commit(). *)
CommitEdit(c) ==
    LET r == req[c]
    IN  /\ pc[c] = "commit"
        /\ db' = [db EXCEPT ![r.item] = work[c]]
        /\ blind' = IF Uncounted(r) THEN [d \in Clients |-> blind[d] \cup {r.item}]
                                    ELSE blind
        /\ Release(c)
        /\ Finish(c)
        /\ UNCHANGED <<clock, nextId, view, audit>>

-----------------------------------------------------------------------------
(* create_item: the duplicate check takes no lock ... *)
CheckDuplicate(c, r) ==
    /\ pc[c] = "idle"
    /\ clock < MaxTx
    /\ ~db[r.item].live
    /\ clock' = clock + 1
    /\ start' = [start EXCEPT ![c] = clock']
    /\ req'   = [req EXCEPT ![c] = r]
    /\ Goto(c, "insert")
    /\ UNCHANGED <<db, owner, nextId, old, work, view, audit, blind>>

MutInsertProduct(c) ==
    LET r == req[c]
    IN  /\ pc[c] = "insert"
        /\ owner'  = [owner EXCEPT ![r.item] = c]
        /\ \E pl \in Placings(NewIds(nextId, r.adds)) :
              work' = [work EXCEPT ![c] = Created(db[r.item], nextId, r, pl)]
        /\ nextId' = nextId + r.adds
        /\ Goto(c, "store")
        /\ UNCHANGED <<db, clock, req, start, old, view, audit, blind>>

(* ... so the primary key decides: INSERT waits for a transaction that has
   inserted the same key, goes ahead when there is none ... *)
InsertProduct(c) ==
    LET r == req[c]
    IN  /\ pc[c] = "insert"
        /\ owner[r.item] = NoClient
        /\ ~db[r.item].live
        /\ owner'  = [owner EXCEPT ![r.item] = c]
        /\ \E pl \in Placings(NewIds(nextId, r.adds)) :
              work' = [work EXCEPT ![c] = Created(db[r.item], nextId, r, pl)]
        /\ nextId' = nextId + r.adds
        /\ Goto(c, "store")
        /\ UNCHANGED <<db, clock, req, start, old, view, audit, blind>>

(* ... and fails with IntegrityError when that transaction has committed, and
   no other is about to change or delete the row: rollback, 409. *)
InsertFails(c) ==
    LET i == req[c].item
    IN  /\ pc[c] = "insert"
        /\ db[i].live
        /\ owner[i] # NoClient => pc[owner[i]] = "apply"
        /\ Finish(c)
        /\ UNCHANGED <<db, owner, clock, nextId, view, audit, blind>>

(* The with-block ends before log_action (FIX #23). *)
CommitCreate(c) ==
    /\ pc[c] = "store"
    /\ db' = [db EXCEPT ![req[c].item] = work[c]]
    /\ Release(c)
    /\ Goto(c, "created")
    /\ UNCHANGED <<clock, nextId, req, start, old, work, view, audit, blind>>

LogCreate(c) ==
    /\ pc[c] = "created"
    /\ WriteAudit(c)
    /\ Finish(c)
    /\ UNCHANGED <<db, owner, clock, nextId, view, blind>>

-----------------------------------------------------------------------------
(* A statement fails, the commit fails, or the server dies: the transaction
   is rolled back and the row lock freed.  What log_action wrote stays. *)
Abort(c) ==
    /\ pc[c] \in {"lock", "apply", "log", "commit", "insert", "store"}
    /\ Release(c)
    /\ Finish(c)
    /\ UNCHANGED <<db, clock, nextId, view, audit, blind>>

-----------------------------------------------------------------------------
(* Steps of the server that follow once it has a request. *)
Serve(c) ==
    \/ ReadActivities(c)
    \/ ApplyPatch(c) \/ ApplyAdd(c) \/ ApplyUpdate(c) \/ ApplyDelete(c)
    \/ ActivityMissing(c) \/ ApplyBulk(c) \/ BulkConflict(c)
    \/ ApplyRename(c) \/ ApplyRemove(c)
    \/ LogEdit(c) \/ CommitEdit(c)
    \/ CommitCreate(c) \/ LogCreate(c)

(* Steps that wait for another transaction to end. *)
Acquire(c) == Lock(c) \/ RowGone(c) \/ InsertProduct(c) \/ InsertFails(c)

(* An idle client sends a request: a GET, or one that opens a transaction. *)
Ask(c) ==
    /\ pc[c] = "idle"
    /\ \/ "get" \in Ops /\ \E i \in Items : ReadRow(c, i)
       \/ /\ clock < MaxTx
          /\ \/ \E r \in Edits(c) : Begin(c, r)
             \/ "create" \in Ops /\ \E i \in Items :
                   \E r \in Creates(i) : CheckDuplicate(c, r)

Next == \E c \in Clients : Ask(c) \/ Acquire(c) \/ Serve(c) \/ Abort(c)

Spec == Init /\ [][Next]_vars

(* A Waitress thread keeps running its handler, and PostgreSQL queues the
   transactions waiting for a row, so one that waits is eventually served.
   Nothing makes clients ask, and nothing makes a transaction fail. *)
Fairness == \A c \in Clients : WF_vars(Serve(c)) /\ SF_vars(Acquire(c))

FairSpec == Spec /\ Fairness
-----------------------------------------------------------------------------
TypeOK ==
    /\ db     \in [Items -> Record]
    /\ owner  \in [Items -> Clients \cup {NoClient}]
    /\ clock  \in Nat
    /\ nextId \in Nat
    /\ pc     \in [Clients -> PCs]
    /\ req    \in [Clients -> Request]
    /\ start  \in [Clients -> Nat]
    /\ old    \in [Clients -> Nat]
    /\ work   \in [Clients -> Record]
    /\ view   \in [Clients -> [Items -> Content \cup {Unread}]]
    /\ audit  \subseteq AuditEntry
    /\ blind  \in [Clients -> SUBSET Items]

(* Past its SELECT ... FOR UPDATE and not yet committed. *)
Editing(c) == pc[c] \in {"apply", "log", "commit"}

(* A handler computes from the revision it read under the lock until it
   commits; this is what FIX #10 (update.py:21-24) is for: between the two no
   other transaction changes the row, so no bump is lost. *)
HolderIsCurrent ==
    \A c \in Clients : Editing(c) => old[c] = db[req[c].item].now.rev

Accepted(c) == pc[c] \in {"log", "commit"} /\ req[c].op = "bulk"

(* bulk_update_item is accepted only if what its client saw in its last GET
   is exactly what is stored, activities included: the "Optimistic Locking"
   of readme.md (update.py:869-876).  It is not so: see BulkSeesCounted. *)
BulkSeesLatest ==
    \A c \in Clients :
        Accepted(c) => view[c][req[c].item] = db[req[c].item].now

(* What the check does promise, although GET reads the row and the activities
   in two statements and the check compares nothing but the revision: when
   what an accepted bulk update overwrites is not what its client saw, then
   since that GET some edit skipped the revision, a line was renamed, or the
   item was deleted. *)
BulkSeesCounted ==
    \A c \in Clients :
        Accepted(c) /\ req[c].item \notin blind[c]
            => view[c][req[c].item] = db[req[c].item].now

(* Every revision before the current one has a snapshot, as long as nothing
   had to be pruned (archive.py:4-6): no edit gets through unarchived, and no
   two count up from the same revision. *)
HistoryComplete ==
    \A i \in Items :
        Cardinality(db[i].arch) < Keep =>
            \A r \in 0..(db[i].now.rev - 1) : \E s \in db[i].arch : s.rev = r

(* However the transactions that prune it interleave, an item keeps at most
   Keep snapshots (archive_utilities.py:124-140). *)
ArchiveBounded == \A i \in Items : Cardinality(db[i].arch) <= Keep

(* An edit that is stored has its row in activity_logs, because log_action
   runs before the commit: whatever else fails, no change goes unrecorded
   when the second connection works (log_utils.py:8-17). *)
EditsAudited ==
    \A i \in Items : \A s \in db[i].arch :
        \E e \in audit : e.item = i /\ e.at = s.at

(* The commits that store an edit of item i: its transaction, at this step,
   goes from "commit" to "idle" having changed the record. *)
Stores(c, i) == pc[c] = "commit" /\ pc'[c] = "idle" /\ req[c].item = i

(* An activity that add_activity stores comes last in the routing of its item,
   and nothing else of the routing changes: the MAX(sort_order) it computed,
   under the lock, is still the largest place when it commits, wherever other
   clients have moved theirs meanwhile (update.py:370-382). *)
AddedIsLast ==
    [][\A i \in Items, c \in Clients :
          /\ Stores(c, i) /\ req[c].op = "add"
          /\ db'[i] # db[i]
          => \E a \in db'[i].now.acts :
                /\ a \notin db[i].now.acts
                /\ db'[i].now.acts = db[i].now.acts \cup {a}
                /\ \A b \in db[i].now.acts : b.ord < a.ord]_vars

(* What GET shows of a stored item changes only together with its revision, by
   exactly one, but for two exceptions: an edit sent with skip_revision, and
   the rename of a production line, which leaves the activities alone
   (production_lines.py:425-439). *)
RevisionCountsChanges ==
    [][\A i \in Items :
          db[i].live /\ db'[i].live /\ db'[i].now # db[i].now =>
            \/ db'[i].now.rev = db[i].now.rev + 1
            \/ /\ db'[i].now.rev = db[i].now.rev
               /\ \E c \in Clients :
                     /\ Stores(c, i)
                     /\ \/ req[c].skip
                        \/ req[c].op = "rename" /\ db'[i].now.acts = db[i].now.acts]_vars

(* Every stored change is the effect of one request on the item as stored at
   that moment: the row lock, taken before the first read that counts, makes
   each handler atomic. *)
Atomic == INSTANCE AtomicEditing WITH items <- db, clock <- clock, nextId <- nextId
Serializable == Atomic!Spec

(* What an edit leaves in the archive is one state of the item, under the
   revision it had before the edit: what was stored before, or what is stored
   after, and nothing in between or of another edit (snapshot_product reads
   the rows of the transaction it runs in, archive_utilities.py:44-120). *)
SnapshotsShowOneState ==
    [][\A i \in Items : \A s \in db'[i].arch \ db[i].arch :
          /\ s.rev = db[i].now.rev
          /\ s.was \in {db[i].now, [db'[i].now EXCEPT !.rev = db[i].now.rev]}]_vars

(* Every request that reached the server is answered: waiting for row locks
   ends, under any interleaving of edits that wait for the same row. *)
Answered == \A c \in Clients : (pc[c] # "idle") ~> (pc[c] = "idle")
=============================================================================
