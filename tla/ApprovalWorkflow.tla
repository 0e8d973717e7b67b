-------------------------- MODULE ApprovalWorkflow --------------------------
(***************************************************************************)
(* The approval queue of routes/approvals.py together with what races with *)
(* it for the same rows: delete_product (routes/update.py), the creation   *)
(* and the editing of items, and the cleanup thread (helpers/cleanup.py).  *)
(*                                                                         *)
(* Two kinds of rows are locked here, those of pending_approvals and those *)
(* of products, and not in the same order: approve_request takes the       *)
(* approval and then the product, delete_product the product and then its  *)
(* pending approvals.  PostgreSQL breaks the resulting deadlocks by        *)
(* aborting one of the transactions.                                       *)
(*                                                                         *)
(* Editing and creating are one step each: that they are atomic is what    *)
(* ItemEditing shows.  SELECTs that find nothing to work on (404, 409) are *)
(* stuttering steps as long as no lock is held.                            *)
(***************************************************************************)
EXTENDS ItemRecord

CONSTANTS
    Clients,      \* users, each with one request at a time
    NoClient,     \* "the row is not locked"
    Items,        \* inventory ids
    Seed,         \* the stored items when the server starts
    FirstId,      \* first value of activities_id_seq
    NoRow,        \* "there is no row of this id", not yet or not any more
    MaxApprovals, \* BOUND: number of approvals submitted
    MaxAdds,      \* longest list of activities in one payload
    LineGone,     \* whether production lines are deleted while requests wait
    LogFaults,    \* whether the INSERT into activity_logs can fail
    MaxTx         \* BOUND: number of transactions that change items

ASSUME ItemsAssumption     == Items # {}
ASSUME NoClientAssumption  == NoClient \notin Clients
ASSUME FaultsAssumption    == {LogFaults, LineGone} \subseteq BOOLEAN
ASSUME BoundsAssumption    == {FirstId, MaxApprovals, MaxAdds, MaxTx} \subseteq Nat
ASSUME SeedAssumption ==
    /\ Seed \in [Items -> Record]
    /\ \A i \in Items : Seed[i].now.rev = 0 /\ Seed[i].arch = {}
                        /\ (~Seed[i].live => Seed[i] = Absent)

VARIABLES
    db,        \* item -> committed record
    owner,     \* item -> client holding its products row
    clock,     \* PostgreSQL's clock, read by now() at the start of a transaction
    nextId,    \* activities_id_seq
    drawn,     \* pending_approvals_id_seq: ids handed out so far
    queue,     \* approval id -> committed row of pending_approvals
    keeper,    \* approval id -> client holding that row
    pc,        \* client -> where its request stands
    job,       \* client -> what the request is about
    start,     \* client -> now() of its transaction
    work,      \* client -> the item as its transaction has changed it
    todo,      \* client -> approvals its UPDATE has yet to come to
    marked,    \* client -> approvals its transaction has given a new status
    poisoned,  \* clients whose transaction PostgreSQL will only roll back
    applied    \* approval id -> how often its payload was stored (history)

rows == <<db, owner, clock, nextId, drawn, queue, keeper>>
txs  == <<pc, job, start, work, todo, marked, poisoned>>
vars == <<rows, txs, applied>>

Approvals == 1..MaxApprovals
Payload  == [meta : Metas, val : Vals, adds : 0..MaxAdds]
Statuses == {"PENDING", "APPROVED", "REJECTED"}

Row   == [item : Items, action : {"ADD", "UPDATE"}, what : Payload,
          status : Statuses, by : Clients \cup {NoClient}]

(* What a request is about; approval 0 is none. *)
Job   == [op : {"none", "submit", "approve", "reject", "delete"},
          item : Items, approval : Nat, row : Row \cup {NoRow}]
ASSUME NoRowAssumption == NoRow \notin Row
NoJob == [op |-> "none", item |-> CHOOSE i \in Items : TRUE, approval |-> 0, row |-> NoRow]

PCs == {"idle", "claim", "product", "sweep", "reject rows", "log", "commit"}

Init ==
    /\ db       = Seed
    /\ owner    = [i \in Items |-> NoClient]
    /\ clock    = 0
    /\ nextId   = FirstId
    /\ drawn    = 0
    /\ queue    = [a \in Approvals |-> NoRow]
    /\ keeper   = [a \in Approvals |-> NoClient]
    /\ pc       = [c \in Clients |-> "idle"]
    /\ job      = [c \in Clients |-> NoJob]
    /\ start    = [c \in Clients |-> 0]
    /\ work     = [c \in Clients |-> Absent]
    /\ todo     = [c \in Clients |-> {}]
    /\ marked   = [c \in Clients |-> {}]
    /\ poisoned = {}
    /\ applied  = [a \in Approvals |-> 0]

-----------------------------------------------------------------------------
IsStatus(a, s) == queue[a] # NoRow /\ queue[a].status = s
Pending(i)     == {a \in Approvals : IsStatus(a, "PENDING") /\ queue[a].item = i}

Goto(c, label) == pc' = [pc EXCEPT ![c] = label]

MutRelease(c) ==
    /\ owner'  = [i \in Items |-> IF owner[i] = c THEN NoClient ELSE owner[i]]
    /\ UNCHANGED keeper

(* The locks that c holds are given back when its transaction ends. *)
Release(c) ==
    /\ owner'  = [i \in Items |-> IF owner[i] = c THEN NoClient ELSE owner[i]]
    /\ keeper' = [a \in Approvals |-> IF keeper[a] = c THEN NoClient ELSE keeper[a]]

(* The handler returns and its connection goes back to the pool. *)
Finish(c) ==
    /\ Release(c)
    /\ Goto(c, "idle")
    /\ job'      = [job    EXCEPT ![c] = NoJob]
    /\ start'    = [start  EXCEPT ![c] = 0]
    /\ work'     = [work   EXCEPT ![c] = Absent]
    /\ todo'     = [todo   EXCEPT ![c] = {}]
    /\ marked'   = [marked EXCEPT ![c] = {}]
    /\ poisoned' = poisoned \ {c}

(* An early return or an exception: nothing the transaction did is stored. *)
GiveUp(c) ==
    /\ Finish(c)
    /\ UNCHANGED <<db, clock, nextId, drawn, queue, applied>>

-----------------------------------------------------------------------------
(* submit_approval: refused when a committed approval of the item is pending;
   otherwise the row is inserted, which no other transaction can see yet. *)
Submit(c, r) ==
    /\ pc[c] = "idle"
    /\ drawn < MaxApprovals
    /\ Pending(r.item) = {}
    /\ drawn' = drawn + 1
    /\ job' = [job EXCEPT ![c] = [op |-> "submit", item |-> r.item,
                                  approval |-> drawn', row |-> r]]
    /\ Goto(c, "log")
    /\ UNCHANGED <<db, owner, clock, nextId, queue, keeper, start, work,
                   todo, marked, poisoned, applied>>

Submissions ==
    [item : Items, action : {"ADD", "UPDATE"}, what : Payload,
     status : {"PENDING"}, by : {NoClient}]

(* approve_request and reject_approval start with SELECT ... WHERE status =
   'PENDING' FOR UPDATE, which waits for whoever holds the row ... *)
Resolve(c, a, op) ==
    /\ pc[c] = "idle"
    /\ clock < MaxTx
    /\ IsStatus(a, "PENDING")
    /\ clock' = clock + 1
    /\ start' = [start EXCEPT ![c] = clock']
    /\ job' = [job EXCEPT ![c] = [op |-> op, item |-> queue[a].item,
                                  approval |-> a, row |-> queue[a]]]
    /\ Goto(c, "claim")
    /\ UNCHANGED <<db, owner, nextId, drawn, queue, keeper, work, todo,
                   marked, poisoned, applied>>

MutClaim(c) ==
    LET a == job[c].approval
    IN  /\ pc[c] = "claim"
        /\ IsStatus(a, "PENDING")
        /\ marked' = [marked EXCEPT ![c] = {a}]
        /\ Goto(c, IF job[c].op = "approve" THEN "product" ELSE "log")
        /\ UNCHANGED <<rows, job, start, work, todo, poisoned, applied>>

(* ... and then looks at it again. *)
Claim(c) ==
    LET a == job[c].approval
    IN  /\ pc[c] = "claim"
        /\ keeper[a] = NoClient
        /\ IsStatus(a, "PENDING")
        /\ keeper' = [keeper EXCEPT ![a] = c]
        /\ marked' = [marked EXCEPT ![c] = {a}]
        /\ Goto(c, IF job[c].op = "approve" THEN "product" ELSE "log")
        /\ UNCHANGED <<db, owner, clock, nextId, drawn, queue, job, start,
                       work, todo, poisoned, applied>>

(* Resolved, or removed, while waiting: 404. *)
ClaimFails(c) ==
    LET a == job[c].approval
    IN  /\ pc[c] = "claim"
        /\ keeper[a] = NoClient
        /\ ~IsStatus(a, "PENDING")
        /\ GiveUp(c)

(* The rows the payload of an ADD becomes: approve_request numbers its
   activities, whatever sort_order they carry. *)
CreatedFrom(r, id, q) == Created(r, id, q, Unplaced(NewIds(id, q.adds)))

(* Approving an ADD: the INSERT waits for a transaction that holds the key. *)
ApproveAdd(c) ==
    LET i == job[c].item
    IN  /\ pc[c] = "product"
        /\ job[c].row.action = "ADD"
        /\ ~db[i].live
        /\ owner[i] = NoClient
        /\ owner' = [owner EXCEPT ![i] = c]
        /\ work' = [work EXCEPT ![c] = CreatedFrom(db[i], nextId, job[c].row.what)]
        /\ nextId' = nextId + job[c].row.what.adds
        /\ Goto(c, "log")
        /\ UNCHANGED <<db, clock, drawn, queue, keeper, job, start, todo,
                       marked, poisoned, applied>>

MutApproveUpdate(c) ==
    LET i == job[c].item
    IN  /\ pc[c] = "product"
        /\ job[c].row.action = "UPDATE"
        /\ db[i].live
        /\ owner' = [owner EXCEPT ![i] = c]
        /\ \E w \in ReplaceOutcomes(db[i], db[i].now.rev, start[c], nextId, job[c].row.what) :
              work' = [work EXCEPT ![c] = w]
        /\ nextId' = nextId + job[c].row.what.adds
        /\ Goto(c, "log")
        /\ UNCHANGED <<db, clock, drawn, queue, keeper, job, start, todo,
                       marked, poisoned, applied>>

(* Approving an UPDATE: _fetch_product(..., for_update=True), then the
   snapshot and the replacement of everything the payload gives. *)
ApproveUpdate(c) ==
    LET i == job[c].item
    IN  /\ pc[c] = "product"
        /\ job[c].row.action = "UPDATE"
        /\ db[i].live
        /\ owner[i] = NoClient
        /\ owner' = [owner EXCEPT ![i] = c]
        /\ \E w \in ReplaceOutcomes(db[i], db[i].now.rev, start[c], nextId, job[c].row.what) :
              work' = [work EXCEPT ![c] = w]
        /\ nextId' = nextId + job[c].row.what.adds
        /\ Goto(c, "log")
        /\ UNCHANGED <<db, clock, drawn, queue, keeper, job, start, todo,
                       marked, poisoned, applied>>

(* 404 or 409 (or the primary key, 500): the item is not, or is already
   there.  The approval stays pending. *)
ApproveRefused(c) ==
    /\ pc[c] = "product"
    /\ job[c].row.action = "ADD" <=> db[job[c].item].live
    /\ GiveUp(c)

(* 400: a production line the payload names has been deleted since.  An ADD is
   validated before its INSERT; an UPDATE looks only once it has the row of
   the item, which it gives back. *)
LineMissing(c) ==
    /\ LineGone
    /\ pc[c] = "product"
    /\ job[c].row.action = "UPDATE" => /\ db[job[c].item].live
                                       /\ owner[job[c].item] = NoClient
    /\ GiveUp(c)

-----------------------------------------------------------------------------
(* delete_product: the row lock, the three DELETEs ... *)
DeleteRows(c, i) ==
    /\ pc[c] = "idle"
    /\ db[i].live
    /\ owner[i] = NoClient
    /\ owner' = [owner EXCEPT ![i] = c]
    /\ job' = [job EXCEPT ![c] = [NoJob EXCEPT !.op = "delete", !.item = i]]
    /\ work' = [work EXCEPT ![c] = Absent]
    /\ Goto(c, "sweep")
    /\ UNCHANGED <<db, clock, nextId, drawn, queue, keeper, start, todo,
                   marked, poisoned, applied>>

MutSweep(c) ==
    /\ pc[c] = "sweep"
    /\ \E T \in SUBSET Pending(job[c].item) : todo' = [todo EXCEPT ![c] = T]
    /\ Goto(c, "reject rows")
    /\ UNCHANGED <<rows, job, start, work, marked, poisoned, applied>>

(* ... and the UPDATE that rejects what is pending for the item: the rows it
   will come to are those committed when it starts ... *)
Sweep(c) ==
    /\ pc[c] = "sweep"
    /\ todo' = [todo EXCEPT ![c] = Pending(job[c].item)]
    /\ Goto(c, "reject rows")
    /\ UNCHANGED <<rows, job, start, work, marked, poisoned, applied>>

MutSweepRow(c, a) ==
    /\ pc[c] = "reject rows"
    /\ a \in todo[c]
    /\ keeper[a] = NoClient
    /\ keeper' = [keeper EXCEPT ![a] = c]
    /\ marked' = [marked EXCEPT ![c] = @ \cup {a}]
    /\ todo' = [todo EXCEPT ![c] = @ \ {a}]
    /\ UNCHANGED <<db, owner, clock, nextId, drawn, queue, pc, job, start,
                   work, poisoned, applied>>

(* ... and each is waited for, and skipped if it is not pending any more. *)
SweepRow(c, a) ==
    /\ pc[c] = "reject rows"
    /\ a \in todo[c]
    /\ keeper[a] = NoClient
    /\ \/ /\ IsStatus(a, "PENDING")
          /\ keeper' = [keeper EXCEPT ![a] = c]
          /\ marked' = [marked EXCEPT ![c] = @ \cup {a}]
       \/ /\ ~IsStatus(a, "PENDING")
          /\ UNCHANGED <<keeper, marked>>
    /\ todo' = [todo EXCEPT ![c] = @ \ {a}]
    /\ UNCHANGED <<db, owner, clock, nextId, drawn, queue, pc, job, start,
                   work, poisoned, applied>>

-----------------------------------------------------------------------------
(* log_action(..., conn=conn): the INSERT is part of the transaction.  When it
   fails the exception is swallowed, but PostgreSQL has aborted the
   transaction and will roll it back at COMMIT. *)
LogShared(c) ==
    /\ pc[c] = "log"
    /\ \/ poisoned' = poisoned
       \/ LogFaults /\ poisoned' = poisoned \cup {c}
    /\ Goto(c, "commit")
    /\ UNCHANGED <<rows, job, start, work, todo, marked, applied>>

Committing(c, op) == pc[c] = "commit" /\ job[c].op = op /\ c \notin poisoned

(* The approvals the transaction of c has marked, with their new status and
   resolved_by. *)
Resolved(c, status) ==
    [a \in Approvals |->
        IF a \in marked[c] /\ queue[a] # NoRow
        THEN [queue[a] EXCEPT !.status = status, !.by = c] ELSE queue[a]]

CommitSubmit(c) ==
    /\ Committing(c, "submit")
    /\ queue' = [queue EXCEPT ![job[c].approval] = job[c].row]
    /\ Finish(c)
    /\ UNCHANGED <<db, clock, nextId, drawn, applied>>

CommitReject(c) ==
    /\ Committing(c, "reject")
    /\ queue' = Resolved(c, "REJECTED")
    /\ Finish(c)
    /\ UNCHANGED <<db, clock, nextId, drawn, applied>>

CommitApprove(c) ==
    LET a == job[c].approval
    IN  /\ Committing(c, "approve")
        /\ db' = [db EXCEPT ![job[c].item] = work[c]]
        /\ queue' = Resolved(c, "APPROVED")
        /\ applied' = [applied EXCEPT ![a] = @ + 1]
        /\ Finish(c)
        /\ UNCHANGED <<clock, nextId, drawn>>

(* COMMIT of an aborted transaction: PostgreSQL answers ROLLBACK, which the
   driver does not report, so the handler answers 200. *)
CommitRollsBack(c) ==
    /\ pc[c] = "commit"
    /\ c \in poisoned
    /\ GiveUp(c)

(* delete_product commits once its UPDATE has come to every row.  (Its audit
   entry goes through a second connection, as in ItemEditing.) *)
CommitDelete(c) ==
    /\ pc[c] = "reject rows"
    /\ todo[c] = {}
    /\ db' = [db EXCEPT ![job[c].item] = work[c]]
    /\ queue' = Resolved(c, "REJECTED")
    /\ Finish(c)
    /\ UNCHANGED <<clock, nextId, drawn, applied>>

-----------------------------------------------------------------------------
(* The other writers of products, in one step each: a handler of update.py or
   a rename of its production line, and create_item. *)
Edit(c, i) ==
    /\ pc[c] = "idle"
    /\ clock < MaxTx
    /\ db[i].live
    /\ owner[i] = NoClient
    /\ clock' = clock + 1
    /\ \E m \in Metas :
          \E w \in PatchOutcomes(db[i], db[i].now.rev, clock', m) \cup {Renamed(db[i], m)} :
             db' = [db EXCEPT ![i] = w]
    /\ UNCHANGED <<owner, nextId, drawn, queue, keeper, txs, applied>>

Create(c, i) ==
    /\ pc[c] = "idle"
    /\ clock < MaxTx
    /\ ~db[i].live
    /\ owner[i] = NoClient
    /\ clock' = clock + 1
    /\ \E q \in Payload : \E pl \in Placings(NewIds(nextId, q.adds)) :
          /\ db' = [db EXCEPT ![i] = Created(db[i], nextId, q, pl)]
          /\ nextId' = nextId + q.adds
    /\ UNCHANGED <<owner, drawn, queue, keeper, txs, applied>>

(* _cleanup_loop removes what was resolved long ago. *)
Cleanup ==
    \E a \in Approvals :
        /\ IsStatus(a, "APPROVED") \/ IsStatus(a, "REJECTED")
        /\ queue' = [queue EXCEPT ![a] = NoRow]
        /\ UNCHANGED <<db, owner, clock, nextId, drawn, keeper, txs, applied>>

-----------------------------------------------------------------------------
(* c cannot go on before d's transaction ends. *)
WaitsFor(c, d) ==
    \/ pc[c] = "claim" /\ keeper[job[c].approval] = d
    \/ pc[c] = "product" /\ owner[job[c].item] = d
    \/ /\ pc[c] = "reject rows"
       /\ todo[c] # {}
       /\ \A a \in todo[c] : keeper[a] # NoClient
       /\ \E a \in todo[c] : keeper[a] = d

Cycle(S) ==
    \A c \in S : \E b, d \in S \ {c} : WaitsFor(b, c) /\ WaitsFor(c, d)

(* After deadlock_timeout PostgreSQL aborts a transaction of the cycle: 500. *)
DeadlockVictim(c) ==
    /\ \E S \in SUBSET Clients : c \in S /\ Cycle(S)
    /\ GiveUp(c)

(* A statement fails, or the server dies. *)
Abort(c) == pc[c] # "idle" /\ GiveUp(c)

-----------------------------------------------------------------------------
Ask(c) ==
    \/ \E r \in Submissions : Submit(c, r)
    \/ \E a \in Approvals, op \in {"approve", "reject"} : Resolve(c, a, op)
    \/ \E i \in Items : DeleteRows(c, i) \/ Edit(c, i) \/ Create(c, i)

(* Steps that may have to wait for a row. *)
Acquire(c) ==
    \/ Claim(c) \/ ClaimFails(c)
    \/ ApproveAdd(c) \/ ApproveUpdate(c)
    \/ \E a \in Approvals : SweepRow(c, a)

Serve(c) ==
    \/ ApproveRefused(c) \/ Sweep(c) \/ LogShared(c)
    \/ CommitSubmit(c) \/ CommitReject(c) \/ CommitApprove(c) \/ CommitRollsBack(c)
    \/ CommitDelete(c)

Next ==
    \/ \E c \in Clients :
          \/ Ask(c) \/ Acquire(c) \/ Serve(c)
          \/ LineMissing(c) \/ DeadlockVictim(c) \/ Abort(c)
    \/ Cleanup

Spec == Init /\ [][Next]_vars

(* Handlers run on, PostgreSQL queues those who wait for a row, and its
   deadlock detector runs; nothing makes anybody ask, fail or clean up, or
   delete a production line. *)
Fairness ==
    \A c \in Clients :
        WF_vars(Serve(c)) /\ SF_vars(Acquire(c)) /\ WF_vars(DeadlockVictim(c))

FairSpec == Spec /\ Fairness
-----------------------------------------------------------------------------
TypeOK ==
    /\ db       \in [Items -> Record]
    /\ owner    \in [Items -> Clients \cup {NoClient}]
    /\ clock    \in Nat
    /\ nextId   \in Nat
    /\ drawn    \in 0..MaxApprovals
    /\ queue    \in [Approvals -> Row \cup {NoRow}]
    /\ keeper   \in [Approvals -> Clients \cup {NoClient}]
    /\ pc       \in [Clients -> PCs]
    /\ job      \in [Clients -> Job]
    /\ start    \in [Clients -> Nat]
    /\ work     \in [Clients -> Record]
    /\ todo     \in [Clients -> SUBSET Approvals]
    /\ marked   \in [Clients -> SUBSET Approvals]
    /\ poisoned \subseteq Clients
    /\ applied  \in [Approvals -> Nat]

(* A payload reaches the live tables exactly if its approval is APPROVED, and
   then once, whoever else approves, rejects or deletes at the same time
   (FIX I1, approvals.py:510-512, and the FOR UPDATE of approve_request). *)
AppliedOnce ==
    \A a \in Approvals :
        /\ applied[a] <= 1
        /\ IsStatus(a, "APPROVED") => applied[a] = 1
        /\ IsStatus(a, "PENDING") \/ IsStatus(a, "REJECTED") => applied[a] = 0

(* Once resolved, an approval is never resolved again: its row keeps its
   status and who resolved it until cleanup removes it, although
   delete_product updates rows it has found pending some time before. *)
ResolvedForGood ==
    [][\A a \in Approvals :
          IsStatus(a, "APPROVED") \/ IsStatus(a, "REJECTED") =>
              queue'[a] \in {queue[a], NoRow}]_vars

(* A deleted item stays deleted, with nothing left of it: an approval or an
   edit that was waiting for its row when it went does not bring it back.
   Only a new item takes its place, at revision "00" and with no history
   (update.py:725-737, approvals.py:396-399). *)
DeletedIsGone ==
    [][\A i \in Items : ~db[i].live =>
          \/ db'[i] = db[i]
          \/ db'[i].live /\ db'[i].now.rev = 0 /\ db'[i].arch = {}]_vars

(* Approving an UPDATE leaves the complete state it replaced, direct edits made
   since the submission included, in the archive (approvals.py:416-417) --
   unless the archive is full of what was archived since the approval began:
   now() is the start of the transaction, so who waits for the item can find
   its snapshot to be the oldest.  Nothing else ever enters an archive. *)
ReplacedIsArchived ==
    [][/\ \A a \in Approvals : LET i == queue[a].item IN
             applied'[a] > applied[a] /\ queue[a].action = "UPDATE" =>
                \/ \E s \in db'[i].arch : s.was = db[i].now /\ s.rev = db[i].now.rev
                \/ /\ Cardinality(db'[i].arch) = Keep
                   /\ \E c \in Clients :
                         /\ job[c].op = "approve" /\ job[c].approval = a
                         /\ \A s \in db'[i].arch : s.at >= start[c]
       /\ \A i \in Items : \A s \in db'[i].arch \ db[i].arch :
             s.was = db[i].now /\ s.rev = db[i].now.rev]_vars

(* Every request is answered, deadlocks between approve_request and
   delete_product included. *)
Answered == \A c \in Clients : (pc[c] # "idle") ~> (pc[c] = "idle")

(* Every decision takes effect at once: whatever others approve, reject, edit
   or delete between the first SELECT of a request and its commit, what is
   stored in products and in pending_approvals is what one step of
   AtomicApproval makes of both as they are at the commit.  What a deletion
   under way is going to reject are the rows its UPDATE has found that are
   still pending, those it has come to and those it has not. *)
Deletions(i) == {c \in Clients : pc[c] = "reject rows" /\ job[c].item = i}
Found(c)     == {a \in todo[c] \cup marked[c] : IsStatus(a, "PENDING")}

AtOnce == INSTANCE AtomicApproval WITH
    items  <- db,
    doomed <- [i \in Items |-> {Found(c) : c \in Deletions(i)}]
DecidedAtOnce == AtOnce!Spec
=============================================================================
