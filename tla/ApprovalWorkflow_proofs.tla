---------------------- MODULE ApprovalWorkflow_proofs ----------------------
(***************************************************************************)
(* Theorems about the approval queue, for every number of users, items and *)
(* approvals.  The first ones come from one invariant, about what a        *)
(* request in flight relies on: the rows it has locked are as it found     *)
(* them.  Three sections follow that build on it: ApprovalWorkflow         *)
(* implements AtomicApproval, what a replacement leaves in the archive,    *)
(* and what can wait in a circle.                                          *)
(***************************************************************************)
EXTENDS ApprovalWorkflow, ItemRecord_proofs

Resolving == {"approve", "reject"}

(* What w, about to be stored instead of r, has to be like. *)
Follows(r, w) ==
    \/ ~r.live /\ w.live /\ w.now.rev = 0 /\ w.arch = r.arch
    \/ /\ r.live /\ w.live
       /\ \A s \in w.arch \ r.arch : s.was = r.now /\ s.rev = r.now.rev

(* What kind of request is where. *)
JobInv(c) ==
    LET j == job[c]
    IN  /\ pc[c] = "idle" => j = NoJob
        /\ pc[c] = "claim" => j.op \in Resolving
        /\ pc[c] = "product" => j.op = "approve"
        /\ pc[c] \in {"sweep", "reject rows"} => j.op = "delete"
        /\ pc[c] \in {"log", "commit"} => j.op \in Resolving \cup {"submit"}
        /\ j.op \in Resolving \cup {"submit"} =>
              /\ j.approval \in Approvals
              /\ j.row \in Row
              /\ j.row.status = "PENDING"
        /\ j.op = "submit" => pc[c] \in {"log", "commit"}

(* The approvals it has marked are locked and still pending. *)
MarkInv(c) ==
    LET j == job[c]
    IN  /\ pc[c] \in {"idle", "claim", "sweep"} => marked[c] = {}
        /\ j.op = "submit" => marked[c] = {}
        /\ pc[c] \in {"product", "log", "commit"} /\ j.op \in Resolving =>
              marked[c] = {j.approval}
        /\ \A a \in marked[c] : keeper[a] = c /\ IsStatus(a, "PENDING")

(* Nobody knows the approval it is about to insert. *)
FreshInv(c) ==
    LET a == job[c].approval
    IN  job[c].op = "submit" => a <= drawn /\ queue[a] = NoRow /\ applied[a] = 0

(* The item it is about to store or to delete is locked. *)
ItemInv(c) ==
    LET i == job[c].item
    IN  /\ pc[c] \in {"log", "commit"} /\ job[c].op = "approve" =>
              owner[i] = c /\ Follows(db[i], work[c])
        /\ pc[c] \in {"sweep", "reject rows"} =>
              owner[i] = c /\ db[i].live /\ work[c] = Absent

ClientInv(c) == JobInv(c) /\ MarkInv(c) /\ FreshInv(c) /\ ItemInv(c)

(* Two users never insert the same approval. *)
IdsDistinct ==
    \A c, d \in Clients :
        job[c].op = "submit" /\ job[d].op = "submit" /\ job[c].approval = job[d].approval
            => c = d

QueueInv ==
    /\ \A a \in Approvals : a > drawn => queue[a] = NoRow /\ applied[a] = 0
    /\ \A i \in Items : ~db[i].live => db[i] = Absent

WorkflowInv ==
    /\ TypeOK
    /\ \A c \in Clients : ClientInv(c)
    /\ IdsDistinct
    /\ QueueInv
    /\ AppliedOnce

-----------------------------------------------------------------------------
LEMMA NoJobType ==
    /\ NoJob \in Job
    /\ NoJob.op = "none"
    /\ \A i \in Items :
          /\ [NoJob EXCEPT !.op = "delete", !.item = i] \in Job
          /\ [NoJob EXCEPT !.op = "delete", !.item = i].op = "delete"
          /\ [NoJob EXCEPT !.op = "delete", !.item = i].item = i
<1>1. (CHOOSE i \in Items : TRUE) \in Items
  BY ItemsAssumption
<1>2. QED
  BY <1>1 DEF NoJob, Job

LEMMA PayloadType == \A q \in Payload : IsPayload(q)
  BY BoundsAssumption DEF Payload, IsPayload

(* The end of a transaction. *)
LEMMA FinishFrame ==
    ASSUME TypeOK, NEW c \in Clients, Finish(c)
    PROVE  /\ pc'[c] = "idle" /\ job'[c] = NoJob /\ marked'[c] = {}
           /\ \A d \in Clients \ {c} :
                 /\ pc'[d] = pc[d] /\ job'[d] = job[d]
                 /\ work'[d] = work[d] /\ marked'[d] = marked[d]
           /\ \A d \in Clients \ {c} :
                 /\ \A a \in Approvals : keeper[a] = d => keeper'[a] = d
                 /\ \A i \in Items : owner[i] = d => owner'[i] = d
  BY DEF Finish, Release, Goto, TypeOK

LEMMA FinishType ==
    ASSUME TypeOK, NEW c \in Clients, Finish(c)
    PROVE  /\ owner'  \in [Items -> Clients \cup {NoClient}]
           /\ keeper' \in [Approvals -> Clients \cup {NoClient}]
           /\ pc'     \in [Clients -> PCs]
           /\ job'    \in [Clients -> Job]
           /\ start'  \in [Clients -> Nat]
           /\ work'   \in [Clients -> Record]
           /\ todo'   \in [Clients -> SUBSET Approvals]
           /\ marked' \in [Clients -> SUBSET Approvals]
           /\ poisoned' \subseteq Clients
<1>1. /\ owner'  \in [Items -> Clients \cup {NoClient}]
      /\ keeper' \in [Approvals -> Clients \cup {NoClient}]
      /\ pc'     \in [Clients -> PCs]
      /\ start'  \in [Clients -> Nat]
      /\ todo'   \in [Clients -> SUBSET Approvals]
      /\ marked' \in [Clients -> SUBSET Approvals]
      /\ poisoned' \subseteq Clients
  BY DEF TypeOK, Finish, Release, Goto, PCs
<1>2. job' \in [Clients -> Job] /\ work' \in [Clients -> Record]
  BY NoJobType, AbsentIsRecord DEF TypeOK, Finish
<1>3. QED
  BY <1>1, <1>2

(* A client that neither moves nor loses a lock keeps what it relies on, as
   long as nobody touches the rows it has locked. *)
LEMMA OthersKeep ==
    ASSUME TypeOK, NEW d \in Clients, ClientInv(d), drawn' \in Nat, drawn <= drawn',
           pc'[d] = pc[d], job'[d] = job[d], work'[d] = work[d], marked'[d] = marked[d],
           \A a \in Approvals :
              keeper[a] = d => keeper'[a] = d /\ (IsStatus(a, "PENDING") => IsStatus(a, "PENDING")'),
           job[d].op = "submit" =>
              /\ queue'[job[d].approval] = queue[job[d].approval]
              /\ applied'[job[d].approval] = applied[job[d].approval],
           \A i \in Items : owner[i] = d => owner'[i] = d /\ db'[i] = db[i]
    PROVE  ClientInv(d)'
<1>1. /\ marked[d] \subseteq Approvals /\ job[d] \in Job /\ job[d].item \in Items
      /\ drawn \in Nat
  BY DEF TypeOK, Job
<1>2. JobInv(d)'
  BY DEF ClientInv, JobInv
<1>3. MarkInv(d)'
  BY <1>1 DEF ClientInv, MarkInv
<1>4. FreshInv(d)'
  <2>1. CASE job[d].op = "submit"
    <3>1. job[d].approval \in Approvals
      BY <2>1 DEF ClientInv, JobInv
    <3>2. job[d].approval \in Nat
      BY <3>1, BoundsAssumption DEF Approvals
    <3>3. QED
      BY <1>1, <2>1, <3>2 DEF ClientInv, FreshInv
  <2>2. CASE job[d].op # "submit"
    BY <2>2 DEF FreshInv
  <2>3. QED
    BY <2>1, <2>2
<1>5. ItemInv(d)'
  BY <1>1 DEF ClientInv, ItemInv
<1>6. QED
  BY <1>2, <1>3, <1>4, <1>5 DEF ClientInv

LEMMA IdleClient ==
    ASSUME NEW c \in Clients, pc'[c] = "idle", job'[c] = NoJob, marked'[c] = {}
    PROVE  ClientInv(c)'
  BY NoJobType DEF ClientInv, JobInv, MarkInv, FreshInv, ItemInv, Resolving

-----------------------------------------------------------------------------
(* Types.  What an approval stores has the type of a record because the
   request holds a row of the queue. *)
LEMMA JobTypes ==
    ASSUME TypeOK, NEW c \in Clients, ClientInv(c)
    PROVE  /\ job[c] \in Job /\ job[c].item \in Items /\ db[job[c].item] \in Record
           /\ db[job[c].item].now.rev \in Nat /\ start[c] \in Nat /\ nextId \in Nat
           /\ pc[c] \in {"product", "log", "commit"} =>
                 /\ job[c].approval \in Approvals /\ job[c].row \in Row
                 /\ IsPayload(job[c].row.what) /\ job[c].row.what.adds \in Nat
<1>1. job[c] \in Job /\ job[c].item \in Items
  BY DEF TypeOK, Job
<1>2. db[job[c].item] \in Record /\ start[c] \in Nat /\ nextId \in Nat
  BY <1>1 DEF TypeOK
<1>3. db[job[c].item].now.rev \in Nat
  BY <1>2 DEF Record, Content
<1>4. pc[c] \in {"product", "log", "commit"} =>
         job[c].approval \in Approvals /\ job[c].row \in Row
  BY DEF ClientInv, JobInv, Resolving
<1>5. \A r \in Row : IsPayload(r.what) /\ r.what.adds \in Nat
  BY PayloadType DEF Row, IsPayload
<1>6. QED
  BY <1>1, <1>2, <1>3, <1>4, <1>5

(* What approving an UPDATE makes of the stored item. *)
LEMMA ReplacedType ==
    ASSUME TypeOK, NEW c \in Clients, ClientInv(c), pc[c] = "product",
           NEW w \in ReplaceOutcomes(db[job[c].item], db[job[c].item].now.rev,
                                     start[c], nextId, job[c].row.what)
    PROVE  /\ w \in Record /\ w.live = db[job[c].item].live
           /\ \A s \in w.arch \ db[job[c].item].arch :
                 s.was = db[job[c].item].now /\ s.rev = db[job[c].item].now.rev
<1> DEFINE r == db[job[c].item]
           q == job[c].row.what
<1>1. /\ r \in Record /\ r.now.rev \in Nat /\ start[c] \in Nat
      /\ nextId \in Nat /\ IsPayload(q)
  BY JobTypes
<1>2. w \in ReplaceOutcomes(r, r.now.rev, start[c], nextId, q)
  OBVIOUS
<1> HIDE DEF r, q
<1>3. /\ w \in Record /\ w.live = r.live
      /\ \A s \in w.arch \ r.arch : s.was = r.now /\ s.rev = r.now.rev
  BY <1>1, <1>2, ReplaceLemma DEF EditOf
<1>4. QED
  BY <1>3 DEF r

(* What approving an ADD makes of it. *)
LEMMA CreatedFromLemma ==
    ASSUME NEW r \in Record, NEW id \in Nat, NEW q, IsPayload(q)
    PROVE  /\ CreatedFrom(r, id, q) \in Record
           /\ ~r.live => Follows(r, CreatedFrom(r, id, q))
  BY CreatedLemma, UnplacedIsPlacing DEF CreatedFrom, Follows

(* What the other writers make of an item. *)
LEMMA EditedItem ==
    ASSUME TypeOK, NEW c \in Clients, NEW i \in Items, Edit(c, i)
    PROVE  \E w \in Record : db' = [db EXCEPT ![i] = w] /\ Follows(db[i], w)
<1>1. /\ db[i] \in Record /\ db[i].now.rev \in Nat /\ db[i].live
      /\ clock' \in Nat
  BY DEF Edit, TypeOK, Record, Content
<1>2. PICK m \in Metas :
         \E w \in PatchOutcomes(db[i], db[i].now.rev, clock', m) \cup {Renamed(db[i], m)} :
            db' = [db EXCEPT ![i] = w]
  BY DEF Edit
<1>3. PICK w \in PatchOutcomes(db[i], db[i].now.rev, clock', m) \cup {Renamed(db[i], m)} :
         db' = [db EXCEPT ![i] = w]
  BY <1>2
<1>4. CASE w \in PatchOutcomes(db[i], db[i].now.rev, clock', m)
  <2>1. w \in Record /\ w.live
    BY <1>1, <1>4, PatchLemma DEF EditOf
  <2>2. \A s \in w.arch \ db[i].arch : s.was = db[i].now /\ s.rev = db[i].now.rev
    BY <1>1, <1>4, PatchArchives
  <2>3. QED
    BY <1>1, <1>3, <2>1, <2>2 DEF Follows
<1>5. CASE w = Renamed(db[i], m)
  BY <1>1, <1>3, <1>5, RenamedLemma DEF Follows
<1>6. QED
  BY <1>4, <1>5

LEMMA CreatedItem ==
    ASSUME TypeOK, NEW c \in Clients, NEW i \in Items, Create(c, i)
    PROVE  /\ \E w \in Record : db' = [db EXCEPT ![i] = w] /\ Follows(db[i], w)
           /\ nextId' \in Nat
<1>1. PICK q \in Payload : \E pl \in Placings(NewIds(nextId, q.adds)) :
         /\ db' = [db EXCEPT ![i] = Created(db[i], nextId, q, pl)]
         /\ nextId' = nextId + q.adds
  BY DEF Create
<1>2. PICK pl \in Placings(NewIds(nextId, q.adds)) :
         db' = [db EXCEPT ![i] = Created(db[i], nextId, q, pl)]
  BY <1>1
<1>3. db[i] \in Record /\ ~db[i].live /\ nextId \in Nat /\ q.adds \in Nat
  BY BoundsAssumption DEF Create, TypeOK, Payload
<1>4. /\ Created(db[i], nextId, q, pl) \in Record
      /\ Follows(db[i], Created(db[i], nextId, q, pl))
  BY <1>3, PayloadType, CreatedLemma DEF Follows
<1>5. \E w \in Record : db' = [db EXCEPT ![i] = w] /\ Follows(db[i], w)
  BY <1>2, <1>4
<1>6. nextId' \in Nat
  BY <1>1, <1>3
<1>7. QED
  BY <1>5, <1>6

(* Whoever finds a line missing gives up. *)
LEMMA LineMissingAborts ==
    \A c \in Clients : LineMissing(c) => Abort(c)
  BY DEF LineMissing, Abort

LEMMA ResolvedType ==
    ASSUME TypeOK, NEW c \in Clients, NEW s \in Statuses
    PROVE  Resolved(c, s) \in [Approvals -> Row \cup {NoRow}]
<1>1. \A r \in Row : [r EXCEPT !.status = s, !.by = c] \in Row
  BY DEF Row
<1>2. QED
  BY <1>1 DEF Resolved, TypeOK

LEMMA TypeStep == WorkflowInv /\ [Next]_vars => TypeOK'
<1> SUFFICES ASSUME WorkflowInv, [Next]_vars PROVE TypeOK'
  OBVIOUS
<1>t. TypeOK /\ \A c \in Clients : ClientInv(c)
  BY DEF WorkflowInv
<1>n. MaxApprovals \in Nat /\ MaxTx \in Nat /\ FirstId \in Nat
  BY BoundsAssumption
<1>g. ASSUME NEW c \in Clients, Finish(c), UNCHANGED <<clock, nextId, drawn>>,
             db' \in [Items -> Record], queue' \in [Approvals -> Row \cup {NoRow}],
             applied' \in [Approvals -> Nat]
      PROVE  TypeOK'
  <2>1. clock' \in Nat /\ nextId' \in Nat /\ drawn' \in 0..MaxApprovals
    BY <1>t, <1>g DEF TypeOK
  <2>2. QED
    BY <1>t, <1>g, <2>1, FinishType DEF TypeOK
<1>1. CASE UNCHANGED vars
  BY <1>1, <1>t DEF vars, rows, txs, TypeOK
<1>2. ASSUME NEW c \in Clients, NEW r \in Submissions, Submit(c, r) PROVE TypeOK'
  <2>1. r \in Row /\ r.item \in Items
    BY DEF Submissions, Row, Statuses
  <2>2. drawn' = drawn + 1 /\ drawn' \in Nat /\ drawn' \in 0..MaxApprovals
    BY <1>2, <1>t, <1>n DEF Submit, TypeOK
  <2>3. [op |-> "submit", item |-> r.item, approval |-> drawn', row |-> r] \in Job
    BY <2>1, <2>2 DEF Job
  <2>4. QED
    BY <1>2, <1>t, <2>2, <2>3 DEF Submit, TypeOK, Goto, PCs
<1>3. ASSUME NEW c \in Clients, NEW a \in Approvals, NEW op \in Resolving, Resolve(c, a, op)
      PROVE  TypeOK'
  <2>1. queue[a] \in Row /\ queue[a].item \in Items /\ a \in Nat
    BY <1>3, <1>t, <1>n DEF TypeOK, Resolve, IsStatus, Row, Approvals
  <2> DEFINE j == [op |-> op, item |-> queue[a].item, approval |-> a, row |-> queue[a]]
  <2>2. j \in Job
    BY <2>1 DEF Job, Resolving
  <2>3. job' = [job EXCEPT ![c] = j]
    BY <1>3 DEF Resolve
  <2> HIDE DEF j
  <2>4. job' \in [Clients -> Job] /\ clock' \in Nat
    BY <1>3, <1>t, <2>2, <2>3 DEF TypeOK, Resolve
  <2>5. start' \in [Clients -> Nat] /\ pc' \in [Clients -> PCs]
    BY <1>3, <1>t, <2>4 DEF TypeOK, Resolve, Goto, PCs
  <2>6. UNCHANGED <<db, owner, nextId, drawn, queue, keeper, work, todo,
                    marked, poisoned, applied>>
    BY <1>3 DEF Resolve
  <2>7. QED
    BY <1>t, <2>4, <2>5, <2>6 DEF TypeOK
<1>4. ASSUME NEW c \in Clients, Claim(c) PROVE TypeOK'
  <2>1. job[c].approval \in Approvals
    BY <1>4, <1>t DEF Claim, ClientInv, JobInv
  <2>2. QED
    BY <1>4, <1>t, <2>1 DEF Claim, TypeOK, Goto, PCs
<1>5. ASSUME NEW c \in Clients, ApproveAdd(c) PROVE TypeOK'
  <2>1. /\ job[c].item \in Items /\ nextId + job[c].row.what.adds \in Nat
        /\ CreatedFrom(db[job[c].item], nextId, job[c].row.what) \in Record
    BY <1>5, <1>t, JobTypes, CreatedFromLemma DEF ApproveAdd
  <2>2. QED
    BY <1>5, <1>t, <2>1 DEF ApproveAdd, TypeOK, Goto, PCs
<1>6. ASSUME NEW c \in Clients, ApproveUpdate(c) PROVE TypeOK'
  <2> DEFINE r == db[job[c].item]
  <2>1. job[c].item \in Items /\ nextId + job[c].row.what.adds \in Nat
    BY <1>6, <1>t, JobTypes DEF ApproveUpdate
  <2>2. PICK w \in ReplaceOutcomes(r, r.now.rev, start[c], nextId, job[c].row.what) :
           work' = [work EXCEPT ![c] = w]
    BY <1>6 DEF ApproveUpdate
  <2>3. w \in Record
    BY <1>6, <1>t, <2>2, JobTypes, ReplaceLemma DEF ApproveUpdate, EditOf
  <2>4. QED
    BY <1>6, <1>t, <2>1, <2>2, <2>3 DEF ApproveUpdate, TypeOK, Goto, PCs
<1>7. ASSUME NEW c \in Clients, NEW i \in Items, DeleteRows(c, i) PROVE TypeOK'
  BY <1>7, <1>t, NoJobType, AbsentIsRecord DEF DeleteRows, TypeOK, Goto, PCs
<1>8. ASSUME NEW c \in Clients, Sweep(c) PROVE TypeOK'
  <2>1. Pending(job[c].item) \in SUBSET Approvals
    BY DEF Pending
  <2>2. QED
    BY <1>8, <1>t, <2>1 DEF Sweep, TypeOK, Goto, PCs, rows
<1>9. ASSUME NEW c \in Clients, NEW a \in Approvals, SweepRow(c, a) PROVE TypeOK'
  <2>1. /\ todo' = [todo EXCEPT ![c] = @ \ {a}]
        /\ UNCHANGED <<db, owner, clock, nextId, drawn, queue, pc, job, start,
                       work, poisoned, applied>>
        /\ \/ keeper' = [keeper EXCEPT ![a] = c] /\ marked' = [marked EXCEPT ![c] = @ \cup {a}]
           \/ UNCHANGED <<keeper, marked>>
    BY <1>9 DEF SweepRow
  <2>2. todo' \in [Clients -> SUBSET Approvals]
    BY <1>t, <2>1 DEF TypeOK
  <2>3. /\ marked' \in [Clients -> SUBSET Approvals]
        /\ keeper' \in [Approvals -> Clients \cup {NoClient}]
    BY <1>t, <2>1 DEF TypeOK
  <2>4. QED
    BY <1>t, <2>1, <2>2, <2>3 DEF TypeOK
<1>10. ASSUME NEW c \in Clients, LogShared(c) PROVE TypeOK'
  BY <1>10, <1>t DEF LogShared, TypeOK, Goto, PCs, rows
<1>11. ASSUME NEW c \in Clients, CommitSubmit(c) PROVE TypeOK'
  <2>1. job[c].row \in Row
    BY <1>11, <1>t, JobTypes DEF CommitSubmit, Committing
  <2>2. queue' \in [Approvals -> Row \cup {NoRow}]
    BY <1>11, <1>t, <2>1 DEF CommitSubmit, TypeOK
  <2>3. QED
    BY <1>11, <1>t, <1>g, <2>2 DEF CommitSubmit, TypeOK
<1>12. ASSUME NEW c \in Clients, CommitReject(c) PROVE TypeOK'
  <2>1. queue' \in [Approvals -> Row \cup {NoRow}]
    BY <1>12, <1>t, ResolvedType DEF CommitReject, Statuses
  <2>2. QED
    BY <1>12, <1>t, <1>g, <2>1 DEF CommitReject, TypeOK
<1>13. ASSUME NEW c \in Clients, CommitApprove(c) PROVE TypeOK'
  <2>1. queue' \in [Approvals -> Row \cup {NoRow}]
    BY <1>13, <1>t, ResolvedType DEF CommitApprove, Statuses
  <2>2. job[c].approval \in Approvals
    BY <1>13, <1>t, JobTypes DEF CommitApprove, Committing
  <2> DEFINE a == job[c].approval
  <2>i. /\ db' = [db EXCEPT ![job[c].item] = work[c]]
        /\ applied' = [applied EXCEPT ![a] = @ + 1]
    BY <1>13 DEF CommitApprove
  <2>h. a \in Approvals /\ work[c] \in Record /\ \A b \in Approvals : applied[b] + 1 \in Nat
    BY <1>t, <2>2 DEF TypeOK
  <2> HIDE DEF a
  <2>3. db' \in [Items -> Record] /\ applied' \in [Approvals -> Nat]
    BY <1>t, <2>h, <2>i DEF TypeOK
  <2>4. QED
    BY <1>13, <1>g, <2>1, <2>3 DEF CommitApprove
<1>15. ASSUME NEW c \in Clients, CommitDelete(c) PROVE TypeOK'
  <2>1. queue' \in [Approvals -> Row \cup {NoRow}]
    BY <1>15, <1>t, ResolvedType DEF CommitDelete, Statuses
  <2>2. db' \in [Items -> Record]
    BY <1>15, <1>t DEF CommitDelete, TypeOK
  <2>3. QED
    BY <1>15, <1>t, <1>g, <2>1, <2>2 DEF CommitDelete, TypeOK
<1>16. ASSUME NEW c \in Clients, GiveUp(c) PROVE TypeOK'
  BY <1>16, <1>t, <1>g DEF GiveUp, TypeOK
<1>17. ASSUME NEW c \in Clients, NEW i \in Items, Edit(c, i) \/ Create(c, i) PROVE TypeOK'
  <2>1. PICK w \in Record : db' = [db EXCEPT ![i] = w]
    BY <1>17, <1>t, EditedItem, CreatedItem
  <2>2. db' \in [Items -> Record]
    BY <1>t, <2>1 DEF TypeOK
  <2>3. clock' \in Nat /\ nextId' \in Nat
    <3>1. CASE Edit(c, i)
      BY <1>t, <3>1 DEF Edit, TypeOK
    <3>2. CASE Create(c, i)
      <4>1. nextId' \in Nat
        BY <1>t, <3>2, CreatedItem
      <4>2. QED
        BY <1>t, <3>2, <4>1 DEF Create, TypeOK
    <3>3. QED
      BY <1>17, <3>1, <3>2
  <2>4. UNCHANGED <<owner, drawn, queue, keeper, pc, job, start, work, todo,
                    marked, poisoned, applied>>
    BY <1>17 DEF Edit, Create, txs
  <2>5. QED
    BY <1>t, <2>2, <2>3, <2>4 DEF TypeOK
<1>19. ASSUME Cleanup PROVE TypeOK'
  BY <1>19, <1>t DEF Cleanup, TypeOK, txs
<1>20. QED
  BY <1>1, <1>2, <1>3, <1>4, <1>5, <1>6, <1>7, <1>8, <1>9, <1>10, <1>11, <1>12,
     <1>13, <1>15, <1>16, <1>17, <1>19
  DEF Next, Ask, Acquire, Serve, ClaimFails, ApproveRefused, CommitRollsBack, LineMissing,
      DeadlockVictim, Abort, Resolving

-----------------------------------------------------------------------------
(* What a step of client c leaves to the others: their requests and the rows
   they have locked. *)
LeavesOthers(c) ==
    \A d \in Clients \ {c} :
        /\ pc'[d] = pc[d] /\ job'[d] = job[d]
        /\ work'[d] = work[d] /\ marked'[d] = marked[d]
        /\ \A a \in Approvals : keeper[a] = d => keeper'[a] = d
        /\ \A i \in Items : owner[i] = d => owner'[i] = d

LEMMA IdsKept ==
    ASSUME WorkflowInv, NEW c \in Clients, LeavesOthers(c),
           job'[c].op # "submit" \/ job'[c] = job[c]
    PROVE  IdsDistinct'
  BY DEF WorkflowInv, IdsDistinct, LeavesOthers

(* A step of client c that stores nothing. *)
LEMMA NothingStored ==
    ASSUME WorkflowInv, TypeOK', NEW c \in Clients, LeavesOthers(c), ClientInv(c)',
           job'[c].op # "submit" \/ job'[c] = job[c],
           UNCHANGED <<db, queue, drawn, applied>>
    PROVE  WorkflowInv'
<1>t. TypeOK /\ drawn \in Nat /\ drawn' \in Nat /\ drawn <= drawn'
  BY BoundsAssumption DEF WorkflowInv, TypeOK
<1>1. \A d \in Clients \ {c} : ClientInv(d)'
  BY <1>t, OthersKeep DEF WorkflowInv, LeavesOthers, IsStatus
<1>2. QueueInv' /\ AppliedOnce'
  BY DEF WorkflowInv, QueueInv, AppliedOnce, IsStatus
<1>3. QED
  BY <1>1, <1>2, IdsKept DEF WorkflowInv

LEMMA FinishLeaves ==
    ASSUME TypeOK, NEW c \in Clients, Finish(c)
    PROVE  ClientInv(c)' /\ LeavesOthers(c) /\ job'[c].op # "submit"
<1>1. pc'[c] = "idle" /\ job'[c] = NoJob /\ marked'[c] = {}
  BY FinishFrame
<1>2. LeavesOthers(c)
  BY FinishFrame DEF LeavesOthers
<1>3. QED
  BY <1>1, <1>2, IdleClient, NoJobType

(* A transaction that ends without storing anything. *)
LEMMA GiveUpStep ==
    ASSUME WorkflowInv, TypeOK', NEW c \in Clients, Finish(c),
           UNCHANGED <<db, queue, drawn, applied>>
    PROVE  WorkflowInv'
<1>1. ClientInv(c)' /\ LeavesOthers(c) /\ job'[c].op # "submit"
  BY FinishLeaves DEF WorkflowInv
<1>2. QED
  BY <1>1, NothingStored

(* A transaction that ends and stores what it has done to rows it has
   locked, or to rows that nobody has. *)
LEMMA CommitStep ==
    ASSUME WorkflowInv, TypeOK', NEW c \in Clients, Finish(c), UNCHANGED drawn,
           \A d \in Clients \ {c} :
              /\ \A a \in Approvals :
                    keeper[a] = d => (IsStatus(a, "PENDING") => IsStatus(a, "PENDING")')
              /\ job[d].op = "submit" =>
                    /\ queue'[job[d].approval] = queue[job[d].approval]
                    /\ applied'[job[d].approval] = applied[job[d].approval]
              /\ \A i \in Items : owner[i] = d => db'[i] = db[i],
           QueueInv', AppliedOnce'
    PROVE  WorkflowInv'
<1>t. TypeOK /\ drawn \in Nat /\ drawn' \in Nat /\ drawn <= drawn'
  BY BoundsAssumption DEF WorkflowInv, TypeOK
<1>1. ClientInv(c)' /\ LeavesOthers(c) /\ job'[c].op # "submit"
  BY <1>t, FinishLeaves
<1>2. \A d \in Clients \ {c} : ClientInv(d)'
  BY <1>t, <1>1, OthersKeep DEF WorkflowInv, LeavesOthers
<1>3. QED
  BY <1>1, <1>2, IdsKept DEF WorkflowInv

(* Resolving rows that one has locked. *)
LEMMA ResolveRows ==
    ASSUME WorkflowInv, NEW c \in Clients, NEW s \in Statuses, queue' = Resolved(c, s)
    PROVE  \A a \in Approvals :
              /\ a \notin marked[c] => queue'[a] = queue[a]
              /\ a \in marked[c] => /\ keeper[a] = c /\ IsStatus(a, "PENDING")
                                    /\ queue'[a] # NoRow /\ queue'[a].status = s
<1>1. TypeOK /\ \A a \in marked[c] : keeper[a] = c /\ IsStatus(a, "PENDING")
  BY DEF WorkflowInv, ClientInv, MarkInv
<1>2. ASSUME NEW a \in Approvals, a \in marked[c]
      PROVE  queue'[a] # NoRow /\ queue'[a].status = s
  <2>1. queue[a] \in Row
    BY <1>1, <1>2 DEF IsStatus, TypeOK
  <2>2. [queue[a] EXCEPT !.status = s, !.by = c] \in Row
        /\ [queue[a] EXCEPT !.status = s, !.by = c].status = s
    BY <2>1 DEF Row
  <2>3. queue'[a] = [queue[a] EXCEPT !.status = s, !.by = c]
    BY <1>1, <1>2 DEF Resolved, IsStatus
  <2>4. QED
    BY <2>2, <2>3, NoRowAssumption
<1>3. ASSUME NEW a \in Approvals, a \notin marked[c] PROVE queue'[a] = queue[a]
  BY <1>3 DEF Resolved
<1>4. QED
  BY <1>1, <1>2, <1>3

(* Then the others' rows stay, and those about to be inserted are not there. *)
LEMMA ResolveKeeps ==
    ASSUME WorkflowInv, NEW c \in Clients, NEW s \in Statuses, queue' = Resolved(c, s),
           NEW d \in Clients \ {c}
    PROVE  /\ \A a \in Approvals :
                 keeper[a] = d => (IsStatus(a, "PENDING") => IsStatus(a, "PENDING")')
           /\ job[d].op = "submit" =>
                 /\ queue'[job[d].approval] = queue[job[d].approval]
                 /\ job[d].approval \notin marked[c]
<1>1. \A a \in Approvals : keeper[a] = d => queue'[a] = queue[a]
  BY ResolveRows
<1>2. job[d].op = "submit" => job[d].approval \in Approvals /\ queue[job[d].approval] = NoRow
  BY DEF WorkflowInv, ClientInv, JobInv, FreshInv
<1>3. job[d].op = "submit" => job[d].approval \notin marked[c]
  BY <1>2, ResolveRows DEF IsStatus
<1>4. QED
  BY <1>1, <1>2, <1>3, ResolveRows DEF IsStatus

-----------------------------------------------------------------------------
LEMMA WorkflowInit == Init => WorkflowInv
<1> SUFFICES ASSUME Init PROVE WorkflowInv
  OBVIOUS
<1>0. FirstId \in Nat /\ MaxApprovals \in Nat
  BY BoundsAssumption
<1>a. /\ db \in [Items -> Record] /\ clock \in Nat /\ nextId \in Nat /\ drawn \in 0..MaxApprovals
      /\ queue \in [Approvals -> Row \cup {NoRow}] /\ applied \in [Approvals -> Nat]
      /\ poisoned \subseteq Clients
  BY <1>0, SeedAssumption DEF Init
<1>b. /\ owner \in [Items -> Clients \cup {NoClient}]
      /\ keeper \in [Approvals -> Clients \cup {NoClient}]
      /\ pc \in [Clients -> PCs] /\ start \in [Clients -> Nat]
      /\ job \in [Clients -> Job] /\ work \in [Clients -> Record]
      /\ todo \in [Clients -> SUBSET Approvals] /\ marked \in [Clients -> SUBSET Approvals]
  BY NoJobType, AbsentIsRecord DEF Init, PCs
<1>1. TypeOK
  BY <1>a, <1>b DEF TypeOK
<1>2. \A c \in Clients : ClientInv(c)
  BY NoJobType DEF Init, ClientInv, JobInv, MarkInv, FreshInv, ItemInv, Resolving
<1>3. IdsDistinct
  BY NoJobType DEF Init, IdsDistinct
<1>4. QueueInv
  BY SeedAssumption DEF Init, QueueInv
<1>5. AppliedOnce
  BY NoRowAssumption DEF Init, AppliedOnce, IsStatus
<1>6. QED
  BY <1>1, <1>2, <1>3, <1>4, <1>5 DEF WorkflowInv

(* Steps that begin a request. *)
LEMMA AskStep ==
    ASSUME WorkflowInv, TypeOK', NEW c \in Clients, Ask(c)
    PROVE  WorkflowInv'
<1>t. TypeOK /\ ClientInv(c)
  BY DEF WorkflowInv
<1>1. ASSUME NEW r \in Submissions, Submit(c, r) PROVE WorkflowInv'
  <2> DEFINE a == drawn + 1
             j == [op |-> "submit", item |-> r.item, approval |-> a, row |-> r]
  <2>1. /\ pc[c] = "idle" /\ drawn < MaxApprovals /\ drawn' = a
        /\ job' = [job EXCEPT ![c] = j] /\ pc' = [pc EXCEPT ![c] = "log"]
        /\ UNCHANGED <<db, owner, queue, keeper, work, marked, applied>>
    BY <1>1 DEF Submit, Goto
  <2>2. /\ drawn \in Nat /\ drawn' \in Nat /\ a \in Nat
        /\ drawn <= drawn' /\ a \in Approvals /\ a > drawn /\ a <= drawn'
        /\ r \in Row /\ r.status = "PENDING"
    BY <1>t, <2>1, BoundsAssumption DEF TypeOK, Approvals, Submissions, Row, Statuses
  <2>3. j.op = "submit" /\ j.approval = a /\ j.row = r
    OBVIOUS
  <2> HIDE DEF j
  <2>4. job'[c] = j /\ pc'[c] = "log" /\ marked'[c] = {} /\ LeavesOthers(c)
    BY <1>t, <2>1 DEF TypeOK, LeavesOthers, ClientInv, MarkInv
  <2>5. queue[a] = NoRow /\ applied[a] = 0
    BY <2>2 DEF WorkflowInv, QueueInv
  <2> HIDE DEF a
  <2>6. ClientInv(c)'
    BY <2>1, <2>2, <2>3, <2>4, <2>5
    DEF ClientInv, JobInv, MarkInv, FreshInv, ItemInv, Resolving
  <2>7. \A d \in Clients \ {c} : ClientInv(d)'
    BY <1>t, <2>1, <2>2, <2>4, OthersKeep DEF WorkflowInv, LeavesOthers, IsStatus
  <2>8. \A d \in Clients \ {c} : job[d].op = "submit" => job[d].approval # a
    <3> TAKE d \in Clients \ {c}
    <3>1. job[d].op = "submit" => job[d].approval \in Approvals /\ job[d].approval <= drawn
      BY DEF WorkflowInv, ClientInv, JobInv, FreshInv
    <3>2. QED
      BY <2>2, <3>1, BoundsAssumption DEF Approvals
  <2>9. IdsDistinct'
    BY <2>3, <2>4, <2>8 DEF WorkflowInv, IdsDistinct, LeavesOthers
  <2>10. \A b \in Approvals : b > drawn' => b > drawn
    BY <2>1, <2>2, BoundsAssumption DEF Approvals, a
  <2>11. QueueInv' /\ AppliedOnce'
    BY <2>1, <2>10 DEF WorkflowInv, QueueInv, AppliedOnce, IsStatus
  <2>12. QED
    BY <2>6, <2>7, <2>9, <2>11 DEF WorkflowInv
<1>2. ASSUME NEW b \in Approvals, NEW op \in Resolving, Resolve(c, b, op) PROVE WorkflowInv'
  <2> DEFINE j == [op |-> op, item |-> queue[b].item, approval |-> b, row |-> queue[b]]
  <2>1. /\ pc[c] = "idle" /\ IsStatus(b, "PENDING")
        /\ job' = [job EXCEPT ![c] = j] /\ pc' = [pc EXCEPT ![c] = "claim"]
        /\ UNCHANGED <<db, owner, queue, drawn, keeper, work, marked, applied>>
    BY <1>2 DEF Resolve, Goto
  <2>2. j.op = op /\ j.approval = b /\ j.row = queue[b]
    OBVIOUS
  <2>3. queue[b] \in Row /\ queue[b].status = "PENDING"
    BY <1>t, <2>1 DEF TypeOK, IsStatus
  <2> HIDE DEF j
  <2>4. job'[c] = j /\ pc'[c] = "claim" /\ marked'[c] = {} /\ LeavesOthers(c)
    BY <1>t, <2>1 DEF TypeOK, LeavesOthers, ClientInv, MarkInv
  <2>5. ClientInv(c)' /\ job'[c].op # "submit"
    BY <2>2, <2>3, <2>4 DEF ClientInv, JobInv, MarkInv, FreshInv, ItemInv, Resolving
  <2>6. QED
    BY <2>1, <2>4, <2>5, NothingStored
<1>3. ASSUME NEW i \in Items, DeleteRows(c, i) PROVE WorkflowInv'
  <2> DEFINE j == [NoJob EXCEPT !.op = "delete", !.item = i]
  <2>1. /\ pc[c] = "idle" /\ db[i].live /\ owner[i] = NoClient
        /\ owner' = [owner EXCEPT ![i] = c] /\ work' = [work EXCEPT ![c] = Absent]
        /\ job' = [job EXCEPT ![c] = j] /\ pc' = [pc EXCEPT ![c] = "sweep"]
        /\ UNCHANGED <<db, queue, drawn, keeper, marked, applied>>
    BY <1>3 DEF DeleteRows, Goto
  <2>2. j.op = "delete" /\ j.item = i
    BY NoJobType
  <2> HIDE DEF j
  <2>3. /\ job'[c] = j /\ pc'[c] = "sweep" /\ marked'[c] = {}
        /\ work'[c] = Absent /\ owner'[i] = c
    BY <1>t, <2>1 DEF TypeOK, ClientInv, MarkInv
  <2>4. LeavesOthers(c)
    BY <1>t, <2>1, NoClientAssumption DEF TypeOK, LeavesOthers
  <2>5. ClientInv(c)' /\ job'[c].op # "submit"
    BY <2>1, <2>2, <2>3 DEF ClientInv, JobInv, MarkInv, FreshInv, ItemInv, Resolving
  <2>6. QED
    BY <2>1, <2>4, <2>5, NothingStored
<1>4. ASSUME NEW i \in Items, Edit(c, i) \/ Create(c, i) PROVE WorkflowInv'
  <2>1. /\ owner[i] = NoClient
        /\ \E w \in Record : db' = [db EXCEPT ![i] = w] /\ Follows(db[i], w)
        /\ UNCHANGED <<owner, drawn, queue, keeper, pc, job, work, marked, applied>>
    BY <1>4, <1>t, EditedItem, CreatedItem DEF Edit, Create, txs
  <2>2. db'[i].live
    BY <1>t, <2>1 DEF TypeOK, Follows
  <2>3. \A k \in Items : k # i => db'[k] = db[k]
    BY <1>t, <2>1 DEF TypeOK
  <2>4. \A d \in Clients : \A k \in Items : owner[k] = d => db'[k] = db[k]
    BY <2>1, <2>3, NoClientAssumption
  <2>5. drawn \in Nat /\ drawn' \in Nat /\ drawn <= drawn'
    BY <1>t, <2>1 DEF TypeOK
  <2>6. \A d \in Clients : ClientInv(d)'
    BY <1>t, <2>1, <2>4, <2>5, OthersKeep DEF WorkflowInv, IsStatus
  <2>7. QueueInv'
    BY <2>1, <2>2, <2>3 DEF WorkflowInv, QueueInv
  <2>8. IdsDistinct' /\ AppliedOnce'
    BY <2>1 DEF WorkflowInv, IdsDistinct, AppliedOnce, IsStatus
  <2>9. QED
    BY <2>6, <2>7, <2>8 DEF WorkflowInv
<1>5. QED
  BY <1>1, <1>2, <1>3, <1>4 DEF Ask, Resolving

(* Steps that take a lock. *)
LEMMA AcquireStep ==
    ASSUME WorkflowInv, TypeOK', NEW c \in Clients, Acquire(c)
    PROVE  WorkflowInv'
<1>t. TypeOK /\ ClientInv(c) /\ JobInv(c) /\ MarkInv(c) /\ FreshInv(c) /\ ItemInv(c)
  BY DEF WorkflowInv, ClientInv
<1>1. CASE Claim(c)
  <2> DEFINE a == job[c].approval
  <2>1. /\ pc[c] = "claim" /\ keeper[a] = NoClient /\ IsStatus(a, "PENDING")
        /\ keeper' = [keeper EXCEPT ![a] = c] /\ marked' = [marked EXCEPT ![c] = {a}]
        /\ pc' = [pc EXCEPT ![c] = IF job[c].op = "approve" THEN "product" ELSE "log"]
        /\ UNCHANGED <<db, owner, queue, drawn, job, work, applied>>
    BY <1>1 DEF Claim, Goto
  <2>2. /\ a \in Approvals /\ job[c].op \in Resolving
        /\ job[c].row \in Row /\ job[c].row.status = "PENDING"
    BY <1>t, <2>1 DEF JobInv
  <2>3. /\ pc'[c] = IF job[c].op = "approve" THEN "product" ELSE "log"
        /\ marked'[c] = {a} /\ keeper'[a] = c
    BY <1>t, <2>1, <2>2 DEF TypeOK
  <2>4. LeavesOthers(c)
    BY <1>t, <2>1, NoClientAssumption DEF TypeOK, LeavesOthers
  <2>5. ClientInv(c)'
    <3>1. job'[c] = job[c] /\ pc'[c] \in {"product", "log"}
          /\ (pc'[c] = "product" => job[c].op = "approve")
          /\ (pc'[c] = "log" => job[c].op # "approve")
      BY <2>1, <2>3
    <3>2. JobInv(c)'
      BY <2>2, <3>1 DEF JobInv, Resolving
    <3>3. MarkInv(c)'
      BY <2>1, <2>2, <2>3, <3>1 DEF MarkInv, IsStatus, Resolving
    <3>4. FreshInv(c)' /\ ItemInv(c)'
      BY <2>2, <3>1 DEF FreshInv, ItemInv, Resolving
    <3>5. QED
      BY <3>2, <3>3, <3>4 DEF ClientInv
  <2>6. QED
    BY <2>1, <2>4, <2>5, NothingStored
<1>2. CASE ClaimFails(c)
  BY <1>2, GiveUpStep DEF ClaimFails, GiveUp
<1>3. CASE ApproveAdd(c) \/ ApproveUpdate(c)
  <2> DEFINE i == job[c].item
  <2>1. /\ pc[c] = "product" /\ owner[i] = NoClient
        /\ owner' = [owner EXCEPT ![i] = c] /\ pc' = [pc EXCEPT ![c] = "log"]
        /\ \E w : work' = [work EXCEPT ![c] = w]
        /\ UNCHANGED <<db, queue, drawn, keeper, job, marked, applied>>
    BY <1>3, Zenon DEF ApproveAdd, ApproveUpdate, Goto
  <2>2. /\ i \in Items /\ job[c].op = "approve" /\ job[c].approval \in Approvals
        /\ marked[c] = {job[c].approval}
    BY <1>t, <2>1, JobTypes DEF JobInv, MarkInv, Resolving
  <2>3. Follows(db[i], work'[c])
    <3>1. CASE ApproveAdd(c)
      <4>1. work'[c] = CreatedFrom(db[i], nextId, job[c].row.what) /\ ~db[i].live
        BY <1>t, <3>1 DEF ApproveAdd, TypeOK
      <4>2. QED
        BY <1>t, <2>1, <4>1, JobTypes, CreatedFromLemma
    <3>2. CASE ApproveUpdate(c)
      <4>1. PICK w \in ReplaceOutcomes(db[i], db[i].now.rev, start[c], nextId, job[c].row.what) :
               work' = [work EXCEPT ![c] = w]
        BY <3>2 DEF ApproveUpdate
      <4>2. db[i].live /\ work'[c] = w
        BY <1>t, <3>2, <4>1 DEF ApproveUpdate, TypeOK
      <4>3. /\ w.live = db[i].live
            /\ \A s \in w.arch \ db[i].arch : s.was = db[i].now /\ s.rev = db[i].now.rev
        BY <1>t, <2>1, ReplacedType
      <4>4. QED
        BY <4>2, <4>3 DEF Follows
    <3>3. QED
      BY <1>3, <3>1, <3>2
  <2>4. pc'[c] = "log" /\ owner'[i] = c /\ LeavesOthers(c)
    BY <1>t, <2>1, <2>2, NoClientAssumption DEF TypeOK, LeavesOthers
  <2>5. ClientInv(c)' /\ job'[c].op # "submit"
    BY <1>t, <2>1, <2>2, <2>3, <2>4
    DEF ClientInv, JobInv, MarkInv, FreshInv, ItemInv, IsStatus, Resolving
  <2>6. QED
    BY <2>1, <2>4, <2>5, NothingStored
<1>4. ASSUME NEW a \in Approvals, SweepRow(c, a) PROVE WorkflowInv'
  <2>1. /\ pc[c] = "reject rows" /\ keeper[a] = NoClient
        /\ \/ /\ IsStatus(a, "PENDING")
              /\ keeper' = [keeper EXCEPT ![a] = c]
              /\ marked' = [marked EXCEPT ![c] = @ \cup {a}]
           \/ UNCHANGED <<keeper, marked>>
        /\ UNCHANGED <<db, owner, queue, drawn, pc, job, work, applied>>
    BY <1>4 DEF SweepRow
  <2>2. LeavesOthers(c)
    BY <1>t, <2>1, NoClientAssumption DEF TypeOK, LeavesOthers
  <2>3. job[c].op = "delete"
    BY <1>t, <2>1 DEF JobInv
  <2>4. MarkInv(c)'
    <3>1. marked[c] \subseteq Approvals
      BY <1>t DEF TypeOK
    <3>2. \A b \in marked'[c] : keeper'[b] = c /\ IsStatus(b, "PENDING")
      <4>1. \A b \in marked[c] : keeper[b] = c /\ IsStatus(b, "PENDING")
        BY <1>t DEF MarkInv
      <4>2. CASE UNCHANGED <<keeper, marked>>
        BY <4>1, <4>2
      <4>3. CASE /\ IsStatus(a, "PENDING")
                 /\ keeper' = [keeper EXCEPT ![a] = c]
                 /\ marked' = [marked EXCEPT ![c] = @ \cup {a}]
        <5>1. marked'[c] = marked[c] \cup {a} /\ keeper'[a] = c
              /\ \A b \in Approvals : keeper[b] = c => keeper'[b] = c
          BY <1>t, <4>3 DEF TypeOK
        <5>2. QED
          BY <3>1, <4>1, <4>3, <5>1
      <4>4. QED
        BY <2>1, <4>2, <4>3
    <3>3. QED
      BY <2>1, <2>3, <3>2 DEF MarkInv, IsStatus, Resolving
  <2>5. ClientInv(c)'
    BY <1>t, <2>1, <2>3, <2>4 DEF ClientInv, JobInv, FreshInv, ItemInv
  <2>6. QED
    BY <2>1, <2>2, <2>5, NothingStored
<1>5. QED
  BY <1>1, <1>2, <1>3, <1>4 DEF Acquire

(* The remaining steps of a request. *)
LEMMA ServeStep ==
    ASSUME WorkflowInv, TypeOK', NEW c \in Clients, Serve(c)
    PROVE  WorkflowInv'
<1>t. TypeOK /\ ClientInv(c) /\ JobInv(c) /\ MarkInv(c) /\ FreshInv(c) /\ ItemInv(c)
  BY DEF WorkflowInv, ClientInv
<1>1. CASE ApproveRefused(c) \/ CommitRollsBack(c)
  BY <1>1, GiveUpStep DEF ApproveRefused, CommitRollsBack, GiveUp
<1>2. CASE Sweep(c) \/ LogShared(c)
  <2>1. /\ UNCHANGED <<db, owner, queue, drawn, keeper, job, work, marked, applied>>
        /\ \/ pc[c] = "sweep" /\ pc' = [pc EXCEPT ![c] = "reject rows"]
           \/ pc[c] = "log" /\ pc' = [pc EXCEPT ![c] = "commit"]
    BY <1>2 DEF Sweep, LogShared, Goto, rows
  <2>2. LeavesOthers(c) /\ \/ pc[c] = "sweep" /\ pc'[c] = "reject rows"
                           \/ pc[c] = "log" /\ pc'[c] = "commit"
    BY <1>t, <2>1 DEF TypeOK, LeavesOthers
  <2>3. ClientInv(c)'
    BY <1>t, <2>1, <2>2 DEF ClientInv, JobInv, MarkInv, FreshInv, ItemInv, IsStatus, Resolving
  <2>4. QED
    BY <2>1, <2>2, <2>3, NothingStored
<1>3. CASE CommitSubmit(c)
  <2> DEFINE a == job[c].approval
  <2>1. /\ pc[c] = "commit" /\ job[c].op = "submit" /\ Finish(c)
        /\ queue' = [queue EXCEPT ![a] = job[c].row] /\ UNCHANGED <<db, drawn, applied>>
    BY <1>3 DEF CommitSubmit, Committing
  <2>2. /\ a \in Approvals /\ job[c].row \in Row /\ job[c].row.status = "PENDING"
        /\ queue[a] = NoRow /\ applied[a] = 0 /\ a <= drawn
    BY <1>t, <2>1 DEF JobInv, FreshInv
  <2> HIDE DEF a
  <2>3. /\ queue'[a] = job[c].row /\ queue'[a] # NoRow
        /\ \A b \in Approvals : b # a => queue'[b] = queue[b]
    BY <1>t, <2>1, <2>2, NoRowAssumption DEF TypeOK
  <2>4. \A b \in Approvals : IsStatus(b, "PENDING") => IsStatus(b, "PENDING")'
    BY <2>2, <2>3 DEF IsStatus
  <2>5. \A d \in Clients \ {c} :
           job[d].op = "submit" => job[d].approval \in Approvals /\ job[d].approval # a
    BY <2>1 DEF WorkflowInv, IdsDistinct, ClientInv, JobInv, a
  <2>6. QueueInv'
    <3>1. \A b \in Approvals : b > drawn => b # a
      BY <2>2, <1>t DEF TypeOK, Approvals
    <3>2. QED
      BY <2>1, <2>3, <3>1 DEF WorkflowInv, QueueInv
  <2>7. AppliedOnce'
    BY <2>1, <2>2, <2>3 DEF WorkflowInv, AppliedOnce, IsStatus
  <2>8. QED
    BY <2>1, <2>3, <2>4, <2>5, <2>6, <2>7, CommitStep
<1>4. CASE CommitReject(c) \/ CommitDelete(c)
  <2>1. /\ queue' = Resolved(c, "REJECTED") /\ "REJECTED" \in Statuses /\ Finish(c)
        /\ UNCHANGED <<drawn, applied>>
    BY <1>4 DEF CommitReject, CommitDelete, Statuses
  <2>2. \A a \in Approvals :
           /\ a \notin marked[c] => queue'[a] = queue[a]
           /\ a \in marked[c] => /\ keeper[a] = c /\ IsStatus(a, "PENDING")
                                 /\ queue'[a] # NoRow /\ queue'[a].status = "REJECTED"
    BY <2>1, ResolveRows
  <2>3. \/ db' = db
        \/ /\ owner[job[c].item] = c /\ work[c] = Absent
           /\ db' = [db EXCEPT ![job[c].item] = Absent]
    BY <1>4, <1>t DEF CommitReject, CommitDelete, ItemInv
  <2>4. \A d \in Clients \ {c} : \A i \in Items : owner[i] = d => db'[i] = db[i]
    BY <1>t, <2>3 DEF TypeOK
  <2>5. QueueInv'
    BY <1>t, <2>1, <2>2, <2>3 DEF TypeOK, WorkflowInv, QueueInv, IsStatus
  <2>6. AppliedOnce'
    BY <2>1, <2>2 DEF WorkflowInv, AppliedOnce, IsStatus
  <2>7. \A d \in Clients \ {c} :
           /\ \A a \in Approvals :
                 keeper[a] = d => (IsStatus(a, "PENDING") => IsStatus(a, "PENDING")')
           /\ job[d].op = "submit" =>
                 /\ queue'[job[d].approval] = queue[job[d].approval]
                 /\ applied'[job[d].approval] = applied[job[d].approval]
    BY <2>1, ResolveKeeps
  <2>8. QED
    BY <2>1, <2>4, <2>5, <2>6, <2>7, CommitStep
<1>5. CASE CommitApprove(c)
  <2> DEFINE a == job[c].approval
             i == job[c].item
  <2>1. /\ pc[c] = "commit" /\ job[c].op = "approve" /\ Finish(c)
        /\ queue' = Resolved(c, "APPROVED") /\ "APPROVED" \in Statuses /\ UNCHANGED drawn
        /\ db' = [db EXCEPT ![i] = work[c]] /\ applied' = [applied EXCEPT ![a] = @ + 1]
    BY <1>5 DEF CommitApprove, Committing, Statuses
  <2>2. /\ a \in Approvals /\ marked[c] = {a} /\ owner[i] = c /\ Follows(db[i], work[c])
        /\ IsStatus(a, "PENDING")
    BY <1>t, <2>1 DEF JobInv, MarkInv, ItemInv, Resolving
  <2> HIDE DEF a, i
  <2>3. /\ queue'[a] # NoRow /\ queue'[a].status = "APPROVED"
        /\ \A b \in Approvals : b # a => queue'[b] = queue[b]
    BY <2>1, <2>2, ResolveRows
  <2>4. /\ applied[a] = 0 /\ applied'[a] = 1
        /\ \A b \in Approvals : b # a => applied'[b] = applied[b]
    BY <1>t, <2>1, <2>2 DEF TypeOK, WorkflowInv, AppliedOnce
  <2>5. \A d \in Clients \ {c} : \A k \in Items : owner[k] = d => db'[k] = db[k]
    BY <1>t, <2>1, <2>2 DEF TypeOK
  <2>6. QueueInv'
    <3>1. \A b \in Approvals : b > drawn => b # a
      BY <2>2 DEF WorkflowInv, QueueInv, IsStatus
    <3>2. \A k \in Items : db'[k] = db[k] \/ db'[k].live
      BY <1>t, <2>1, <2>2 DEF TypeOK, Follows
    <3>3. QED
      BY <2>1, <2>3, <2>4, <3>1, <3>2 DEF WorkflowInv, QueueInv
  <2>7. AppliedOnce'
    BY <2>3, <2>4 DEF WorkflowInv, AppliedOnce, IsStatus
  <2>8. \A d \in Clients \ {c} :
           /\ \A b \in Approvals :
                 keeper[b] = d => (IsStatus(b, "PENDING") => IsStatus(b, "PENDING")')
           /\ job[d].op = "submit" =>
                 /\ queue'[job[d].approval] = queue[job[d].approval]
                 /\ job[d].approval \in Approvals /\ job[d].approval \notin marked[c]
    BY <2>1, ResolveKeeps DEF WorkflowInv, ClientInv, JobInv
  <2>9. \A d \in Clients \ {c} : job[d].op = "submit" =>
           applied'[job[d].approval] = applied[job[d].approval]
    BY <2>2, <2>4, <2>8
  <2>10. QED
    BY <2>1, <2>5, <2>6, <2>7, <2>8, <2>9, CommitStep
<1>6. QED
  BY <1>1, <1>2, <1>3, <1>4, <1>5 DEF Serve

(* The cleanup thread removes nothing that anybody has locked or is about to
   insert. *)
LEMMA CleanupStep ==
    ASSUME WorkflowInv, TypeOK', Cleanup
    PROVE  WorkflowInv'
<1>1. PICK a \in Approvals :
         /\ IsStatus(a, "APPROVED") \/ IsStatus(a, "REJECTED")
         /\ queue' = [queue EXCEPT ![a] = NoRow]
         /\ UNCHANGED <<db, owner, drawn, keeper, pc, job, work, marked, applied>>
  BY DEF Cleanup, txs
<1>2. TypeOK /\ drawn \in Nat /\ drawn' \in Nat /\ drawn <= drawn'
  BY <1>1 DEF WorkflowInv, TypeOK
<1>3. queue[a] # NoRow /\ queue'[a] = NoRow /\ \A b \in Approvals : b # a => queue'[b] = queue[b]
  BY <1>1, <1>2 DEF TypeOK, IsStatus
<1>4. \A b \in Approvals : IsStatus(b, "PENDING") => IsStatus(b, "PENDING")'
  BY <1>1, <1>3 DEF IsStatus
<1>5. ASSUME NEW d \in Clients PROVE ClientInv(d)'
  <2>1. job[d].op = "submit" => job[d].approval \in Approvals /\ queue[job[d].approval] = NoRow
    BY DEF WorkflowInv, ClientInv, JobInv, FreshInv
  <2>2. QED
    BY <1>1, <1>2, <1>3, <1>4, <2>1, OthersKeep DEF WorkflowInv
<1>6. QueueInv' /\ IdsDistinct' /\ AppliedOnce'
  BY <1>1, <1>3 DEF WorkflowInv, QueueInv, IdsDistinct, AppliedOnce, IsStatus
<1>7. QED
  BY <1>5, <1>6 DEF WorkflowInv

LEMMA WorkflowStep == WorkflowInv /\ [Next]_vars => WorkflowInv'
<1> SUFFICES ASSUME WorkflowInv, [Next]_vars PROVE WorkflowInv'
  OBVIOUS
<1>t. TypeOK'
  BY TypeStep
<1>1. CASE UNCHANGED vars
  <2>1. UNCHANGED <<db, owner, queue, drawn, keeper, pc, job, work, marked, applied>>
    BY <1>1 DEF vars, rows, txs
  <2>2. TypeOK /\ drawn \in Nat /\ drawn' \in Nat /\ drawn <= drawn'
    BY <2>1, BoundsAssumption DEF WorkflowInv, TypeOK
  <2>3. \A c \in Clients : ClientInv(c)'
    BY <2>1, <2>2, OthersKeep DEF WorkflowInv, IsStatus
  <2>4. IdsDistinct' /\ QueueInv' /\ AppliedOnce'
    BY <2>1 DEF WorkflowInv, IdsDistinct, QueueInv, AppliedOnce, IsStatus
  <2>5. QED
    BY <1>t, <2>3, <2>4 DEF WorkflowInv
<1>2. ASSUME NEW c \in Clients, DeadlockVictim(c) \/ Abort(c) PROVE WorkflowInv'
  BY <1>2, <1>t, GiveUpStep DEF DeadlockVictim, Abort, GiveUp
<1>3. QED
  BY <1>1, <1>2, <1>t, AskStep, AcquireStep, ServeStep, CleanupStep, LineMissingAborts DEF Next

LEMMA WorkflowInvariant == Spec => []WorkflowInv
  BY WorkflowInit, WorkflowStep, PTL DEF Spec

-----------------------------------------------------------------------------
(* The state of every request and row is well formed, whatever the number of
   users and however their transactions interleave. *)
THEOREM WorkflowTypeCorrect == Spec => []TypeOK
<1>1. WorkflowInv => TypeOK
  BY DEF WorkflowInv
<1>2. QED
  BY <1>1, WorkflowInvariant, PTL

(* A payload is stored exactly if its approval is APPROVED, and once: holding
   the FOR UPDATE lock, the row is PENDING until the one transaction that
   resolves it commits both. *)
THEOREM PayloadAppliedOnce == Spec => []AppliedOnce
<1>1. WorkflowInv => AppliedOnce
  BY DEF WorkflowInv
<1>2. QED
  BY <1>1, WorkflowInvariant, PTL

-----------------------------------------------------------------------------
(* What a step may do to a row of pending_approvals: insert it, resolve it
   while it is pending, remove it. *)
LEMMA QueueSteps ==
    ASSUME WorkflowInv, [Next]_vars, NEW a \in Approvals
    PROVE  queue[a] = NoRow \/ IsStatus(a, "PENDING") \/ queue'[a] \in {queue[a], NoRow}
<1>t. TypeOK /\ {"REJECTED", "APPROVED"} \subseteq Statuses
  BY DEF WorkflowInv, Statuses
<1>1. ASSUME NEW c \in Clients, NEW s \in Statuses, queue' = Resolved(c, s)
      PROVE  IsStatus(a, "PENDING") \/ queue'[a] = queue[a]
  BY <1>1, ResolveRows
<1>2. ASSUME NEW c \in Clients, CommitSubmit(c)
      PROVE  queue[a] = NoRow \/ queue'[a] = queue[a]
  <2>1. job[c].op = "submit" /\ queue' = [queue EXCEPT ![job[c].approval] = job[c].row]
    BY <1>2 DEF CommitSubmit, Committing
  <2>2. queue[job[c].approval] = NoRow
    BY <2>1 DEF WorkflowInv, ClientInv, FreshInv
  <2>3. QED
    BY <1>t, <2>1, <2>2 DEF TypeOK
<1>3. ASSUME Cleanup PROVE queue'[a] \in {queue[a], NoRow}
  BY <1>3, <1>t DEF Cleanup, TypeOK
<1>4. ASSUME NEW c \in Clients, Ask(c) \/ Acquire(c) \/ DeadlockVictim(c) \/ Abort(c)
      PROVE  queue' = queue
  BY <1>4 DEF Ask, Submit, Resolve, DeleteRows, Edit, Create, Acquire, Claim, ClaimFails,
     ApproveAdd, ApproveUpdate, SweepRow, DeadlockVictim, Abort, GiveUp
<1>5. ASSUME NEW c \in Clients, Serve(c)
      PROVE  queue' = queue \/ CommitSubmit(c) \/ \E s \in Statuses : queue' = Resolved(c, s)
  BY <1>5, <1>t DEF Serve, ApproveRefused, GiveUp, Sweep, LogShared, rows, CommitReject,
     CommitApprove, CommitRollsBack, CommitDelete
<1>6. QED
  BY <1>1, <1>2, <1>3, <1>4, <1>5, LineMissingAborts DEF Next, vars, rows

(* Once APPROVED or REJECTED, an approval keeps its status and who resolved it
   until it is removed: only marked rows are resolved, and those are pending. *)
THEOREM ResolvedStaysResolved == Spec => ResolvedForGood
<1> DEFINE Keeps == \A a \in Approvals :
                       IsStatus(a, "APPROVED") \/ IsStatus(a, "REJECTED") =>
                           queue'[a] \in {queue[a], NoRow}
<1>1. WorkflowInv /\ [Next]_vars => Keeps
  BY QueueSteps DEF IsStatus
<1>2. WorkflowInv /\ [Next]_vars => [Keeps]_vars
  BY <1>1
<1>3. QED
  BY <1>2, WorkflowInvariant, PTL DEF Spec, ResolvedForGood

-----------------------------------------------------------------------------
(* What a step may do to a stored item: replace it by what follows it, or
   delete it. *)
LEMMA ItemSteps ==
    ASSUME WorkflowInv, [Next]_vars, NEW i \in Items
    PROVE  db'[i] \in {db[i], Absent} \/ Follows(db[i], db'[i])
<1>t. TypeOK /\ db[i] \in Record /\ db[i].now.rev \in Nat
  BY DEF WorkflowInv, TypeOK, Record, Content
<1>1. ASSUME NEW c \in Clients, NEW k \in Items, Edit(c, k) \/ Create(c, k)
      PROVE  db'[i] = db[i] \/ Follows(db[i], db'[i])
  BY <1>1, <1>t, EditedItem, CreatedItem DEF TypeOK
<1>3. ASSUME NEW c \in Clients, CommitApprove(c) \/ CommitDelete(c)
      PROVE  db'[i] \in {db[i], Absent} \/ Follows(db[i], db'[i])
  <2>1. /\ db' = [db EXCEPT ![job[c].item] = work[c]]
        /\ work[c] = Absent \/ Follows(db[job[c].item], work[c])
    BY <1>3 DEF CommitApprove, Committing, CommitDelete, WorkflowInv, ClientInv, ItemInv
  <2>2. QED
    BY <1>t, <2>1 DEF TypeOK
<1>4. ASSUME NEW c \in Clients, Acquire(c) \/ DeadlockVictim(c) \/ Abort(c) PROVE db' = db
  BY <1>4 DEF Acquire, Claim, ClaimFails, ApproveAdd, ApproveUpdate, SweepRow,
     DeadlockVictim, Abort, GiveUp
<1>5. ASSUME NEW c \in Clients, Serve(c) PROVE db' = db \/ CommitApprove(c) \/ CommitDelete(c)
  BY <1>5 DEF Serve, ApproveRefused, GiveUp, Sweep, LogShared, rows, CommitSubmit,
     CommitReject, CommitRollsBack
<1>6. ASSUME NEW c \in Clients, Ask(c)
      PROVE  db' = db \/ \E k \in Items : Edit(c, k) \/ Create(c, k)
  BY <1>6 DEF Ask, Submit, Resolve, DeleteRows
<1>7. ASSUME Cleanup \/ UNCHANGED vars PROVE db' = db
  BY <1>7 DEF Cleanup, vars, rows
<1>8. QED
  BY <1>1, <1>3, <1>4, <1>5, <1>6, <1>7, LineMissingAborts DEF Next

(* A deleted item stays deleted until a new one takes its place, at revision
   "00" and without a history: who was waiting for its row finds it gone, and
   who has it locked finds it as it was. *)
THEOREM DeletedStaysDeleted == Spec => DeletedIsGone
<1> DEFINE Gone == \A i \in Items : ~db[i].live =>
                      \/ db'[i] = db[i]
                      \/ db'[i].live /\ db'[i].now.rev = 0 /\ db'[i].arch = {}
<1>1. ASSUME WorkflowInv, [Next]_vars PROVE Gone
  <2> SUFFICES ASSUME NEW i \in Items, ~db[i].live
               PROVE  \/ db'[i] = db[i]
                      \/ db'[i].live /\ db'[i].now.rev = 0 /\ db'[i].arch = {}
    OBVIOUS
  <2>0. QueueInv /\ Absent.arch = {}
    BY <1>1 DEF WorkflowInv, Absent
  <2>1. db[i] = Absent /\ db[i].arch = {}
    BY <2>0 DEF QueueInv
  <2>2. db'[i] \in {db[i], Absent} \/ Follows(db[i], db'[i])
    BY <1>1, ItemSteps
  <2>3. QED
    BY <2>1, <2>2 DEF Follows
<1>2. WorkflowInv /\ [Next]_vars => [Gone]_vars
  BY <1>1
<1>3. QED
  BY <1>2, WorkflowInvariant, PTL DEF Spec, DeletedIsGone

-----------------------------------------------------------------------------
(***************************************************************************)
(* The refinement of AtomicApproval.  A request works from the row it has  *)
(* read with its first SELECT, and from the item it has locked later; both *)
(* are still what is stored when it commits.                               *)
(***************************************************************************)
(* The approvals that c is about to resolve: a request its own, a deletion
   those its UPDATE has found. *)
Aware(c, a) ==
    \/ job[c].op \in Resolving /\ a = job[c].approval
    \/ pc[c] = "reject rows" /\ a \in todo[c] \cup marked[c]

(* Nobody will insert the approval any more, and its row is as c has read it
   as long as it is pending. *)
SeenInv(c) ==
    /\ \A a \in Approvals : Aware(c, a) =>
          /\ a <= drawn
          /\ \A d \in Clients : job[d].op = "submit" => job[d].approval # a
          /\ queue[a] # NoRow => queue[a].item = job[c].item
          /\ job[c].op \in Resolving /\ IsStatus(a, "PENDING") => queue[a] = job[c].row
    /\ job[c].op = "submit" => job[c].row \in AtOnce!Submission
    /\ job[c].op \in Resolving => start[c] \in 1..clock

(* What approving makes of record r. *)
Makes(r, row, at, id) ==
    IF row.action = "UPDATE" THEN ReplaceOutcomes(r, r.now.rev, at, id, row.what)
                             ELSE {CreatedFrom(r, id, row.what)}

MakesInv(c) ==
    LET r   == db[job[c].item]
        row == job[c].row
    IN  job[c].op = "approve" /\ pc[c] \in {"log", "commit"} =>
          /\ r.live <=> row.action = "UPDATE"
          /\ \E id \in FirstId..nextId : work[c] \in Makes(r, row, start[c], id)

AtOnceInv ==
    /\ FirstId <= nextId
    /\ \A c \in Clients : SeenInv(c) /\ MakesInv(c)

-----------------------------------------------------------------------------
(* What a step may do to a row: insert it for the request that has drawn its
   number, resolve it, remove it. *)
RowMoves(a) ==
    \/ queue'[a] \in {queue[a], NoRow}
    \/ queue[a] = NoRow /\ \E d \in Clients : job[d].op = "submit" /\ job[d].approval = a
    \/ /\ queue[a] # NoRow /\ queue'[a] # NoRow
       /\ queue'[a].item = queue[a].item /\ queue'[a].status # "PENDING"

LEMMA RowsMove ==
    ASSUME WorkflowInv, [Next]_vars, NEW a \in Approvals
    PROVE  RowMoves(a)
<1>t. TypeOK
  BY DEF WorkflowInv
<1>1. ASSUME NEW c \in Clients, NEW s \in {"APPROVED", "REJECTED"}, queue' = Resolved(c, s)
      PROVE  RowMoves(a)
  <2>1. CASE a \in marked[c]
    <3>1. queue[a] # NoRow /\ queue'[a] # NoRow /\ queue'[a].status = s
      BY <1>1, <2>1, ResolveRows DEF Statuses, IsStatus
    <3>2. queue[a] \in Row /\ queue'[a] = [queue[a] EXCEPT !.status = s, !.by = c]
      BY <1>1, <1>t, <2>1, <3>1 DEF Resolved, TypeOK
    <3>3. queue'[a].item = queue[a].item
      BY <3>2 DEF Row
    <3>4. QED
      BY <3>1, <3>3 DEF RowMoves
  <2>2. CASE a \notin marked[c]
    BY <1>1, <2>2, ResolveRows DEF Statuses, RowMoves
  <2>3. QED
    BY <2>1, <2>2
<1>2. ASSUME NEW c \in Clients, CommitSubmit(c)
      PROVE  RowMoves(a)
  <2>1. job[c].op = "submit" /\ queue' = [queue EXCEPT ![job[c].approval] = job[c].row]
    BY <1>2 DEF CommitSubmit, Committing
  <2>2. queue[job[c].approval] = NoRow
    BY <2>1 DEF WorkflowInv, ClientInv, FreshInv
  <2>3. QED
    BY <1>t, <2>1, <2>2 DEF TypeOK, RowMoves
<1>3. ASSUME Cleanup PROVE RowMoves(a)
  BY <1>3, <1>t DEF Cleanup, TypeOK, RowMoves
<1>4. ASSUME NEW c \in Clients, Ask(c) \/ Acquire(c) \/ DeadlockVictim(c) \/ Abort(c)
      PROVE  queue' = queue
  BY <1>4 DEF Ask, Submit, Resolve, DeleteRows, Edit, Create, Acquire, Claim, ClaimFails,
     ApproveAdd, ApproveUpdate, SweepRow, DeadlockVictim, Abort, GiveUp
<1>5. ASSUME NEW c \in Clients, Serve(c)
      PROVE  \/ queue' = queue \/ CommitSubmit(c)
             \/ \E s \in {"APPROVED", "REJECTED"} : queue' = Resolved(c, s)
  BY <1>5, <1>t DEF Serve, ApproveRefused, GiveUp, Sweep, LogShared, rows, CommitReject,
     CommitApprove, CommitRollsBack, CommitDelete
<1>6. QED
  BY <1>1, <1>2, <1>3, <1>4, <1>5, LineMissingAborts DEF Next, vars, rows, RowMoves

(* Numbers are drawn and never given back. *)
LEMMA CountersGrow ==
    ASSUME WorkflowInv, [Next]_vars
    PROVE  /\ drawn \in Nat /\ drawn' \in Nat /\ drawn <= drawn'
           /\ clock \in Nat /\ clock' \in Nat /\ clock <= clock'
           /\ nextId \in Nat /\ nextId' \in Nat /\ nextId <= nextId'
<1>t. TypeOK /\ drawn \in Nat /\ clock \in Nat /\ nextId \in Nat
  BY BoundsAssumption DEF WorkflowInv, TypeOK
<1>1. \A c \in Clients : pc[c] = "product" => job[c].row.what.adds \in Nat
  BY JobTypes DEF WorkflowInv
<1>2. \A q \in Payload : q.adds \in Nat
  BY BoundsAssumption DEF Payload
<1>3. ASSUME NEW c \in Clients, Ask(c)
      PROVE  /\ drawn' \in {drawn, drawn + 1} /\ clock' \in {clock, clock + 1}
             /\ nextId' = nextId \/ \E n \in Nat : nextId' = nextId + n
  <2>1. ASSUME NEW i \in Items, Create(c, i)
        PROVE  /\ drawn' = drawn /\ clock' = clock + 1
               /\ \E n \in Nat : nextId' = nextId + n
    BY <1>2, <2>1 DEF Create
  <2>2. QED
    BY <1>3, <2>1 DEF Ask, Submit, Resolve, DeleteRows, Edit
<1>4. ASSUME NEW c \in Clients, Acquire(c)
      PROVE  /\ UNCHANGED <<drawn, clock>>
             /\ nextId' = nextId \/ \E n \in Nat : nextId' = nextId + n
  <2>1. ASSUME ApproveAdd(c) \/ ApproveUpdate(c)
        PROVE  /\ UNCHANGED <<drawn, clock>>
               /\ \E n \in Nat : nextId' = nextId + n
    BY <1>1, <2>1 DEF ApproveAdd, ApproveUpdate
  <2>2. QED
    BY <1>4, <2>1 DEF Acquire, Claim, ClaimFails, SweepRow, GiveUp
<1>5. ASSUME NEW c \in Clients, Serve(c) \/ DeadlockVictim(c) \/ Abort(c)
      PROVE  UNCHANGED <<drawn, clock, nextId>>
  BY <1>5 DEF DeadlockVictim, Abort, GiveUp, Serve, ApproveRefused, Sweep, LogShared, rows,
     CommitSubmit, CommitReject, CommitApprove, CommitRollsBack, CommitDelete
<1>6. Cleanup \/ UNCHANGED vars => UNCHANGED <<drawn, clock, nextId>>
  BY DEF Cleanup, vars, rows
<1>7. /\ drawn' \in {drawn, drawn + 1} /\ clock' \in {clock, clock + 1}
      /\ nextId' = nextId \/ \E n \in Nat : nextId' = nextId + n
  BY <1>3, <1>4, <1>5, <1>6, LineMissingAborts DEF Next
<1>8. QED
  BY <1>t, <1>7

(* Who submits has drawn a number that nobody had before. *)
LEMMA NumbersAreNew ==
    ASSUME WorkflowInv, [Next]_vars, NEW d \in Clients, job'[d].op = "submit"
    PROVE  \/ job[d].op = "submit" /\ job'[d].approval = job[d].approval
           \/ job'[d].approval > drawn
<1>t. TypeOK /\ drawn \in Nat
  BY BoundsAssumption DEF WorkflowInv, TypeOK
<1>1. ASSUME NEW c \in Clients, NEW r \in Submissions, Submit(c, r)
      PROVE  job'[d] = job[d] \/ job'[d].approval = drawn + 1
  BY <1>1, <1>t DEF Submit, TypeOK
<1>2. ASSUME NEW c \in Clients, NEW a \in Approvals, NEW op \in Resolving, Resolve(c, a, op)
      PROVE  job'[d] = job[d] \/ job'[d].op \in Resolving
  BY <1>2, <1>t DEF Resolve, TypeOK
<1>3. ASSUME NEW c \in Clients, NEW i \in Items, DeleteRows(c, i)
      PROVE  job'[d] = job[d] \/ job'[d].op = "delete"
  BY <1>3, <1>t, NoJobType DEF DeleteRows, TypeOK
<1>4. ASSUME NEW c \in Clients, Finish(c)
      PROVE  job'[d] = job[d] \/ job'[d].op = "none"
  BY <1>4, <1>t, NoJobType DEF Finish, TypeOK
<1>5. \/ job' = job
      \/ \E c \in Clients : \/ Finish(c)
                            \/ \E r \in Submissions : Submit(c, r)
                            \/ \E a \in Approvals, op \in Resolving : Resolve(c, a, op)
                            \/ \E i \in Items : DeleteRows(c, i)
  <2>1. ASSUME NEW c \in Clients, Ask(c)
        PROVE  \/ job' = job
               \/ \E r \in Submissions : Submit(c, r)
               \/ \E a \in Approvals, op \in Resolving : Resolve(c, a, op)
               \/ \E i \in Items : DeleteRows(c, i)
    BY <2>1 DEF Ask, Edit, Create, txs, Resolving
  <2>2. ASSUME NEW c \in Clients, Acquire(c) \/ DeadlockVictim(c) \/ Abort(c)
        PROVE  job' = job \/ Finish(c)
    BY <2>2 DEF Acquire, Claim, ClaimFails, ApproveAdd, ApproveUpdate, SweepRow,
       DeadlockVictim, Abort, GiveUp
  <2>3. ASSUME NEW c \in Clients, Serve(c)
        PROVE  job' = job \/ Finish(c)
    BY <2>3 DEF Serve, ApproveRefused, GiveUp, Sweep, LogShared, CommitSubmit, CommitReject,
       CommitApprove, CommitRollsBack, CommitDelete
  <2>4. Cleanup \/ UNCHANGED vars => job' = job
    BY DEF Cleanup, vars, txs
  <2>5. QED
    BY <2>1, <2>2, <2>3, <2>4, LineMissingAborts DEF Next
<1>6. QED
  BY <1>1, <1>2, <1>3, <1>4, <1>5, <1>t DEF Resolving

(* A request that does not move keeps what it has seen and what it has made,
   and so does one that moves on without starting anything new. *)
Unmoved(d) ==
    /\ pc'[d] = pc[d] /\ job'[d] = job[d] /\ start'[d] = start[d]
    /\ work'[d] = work[d] /\ todo'[d] = todo[d] /\ marked'[d] = marked[d]

LEMMA SeenKept ==
    ASSUME WorkflowInv, AtOnceInv, [Next]_vars, NEW d \in Clients,
           job'[d] = job[d], start'[d] = start[d],
           \A a \in Approvals : Aware(d, a)' => Aware(d, a)
    PROVE  SeenInv(d)'
<1>1. /\ drawn \in Nat /\ drawn' \in Nat /\ drawn <= drawn'
      /\ clock \in Nat /\ clock' \in Nat /\ clock <= clock'
  BY CountersGrow
<1>2. SeenInv(d) /\ \A e \in Clients : ClientInv(e)
  BY DEF WorkflowInv, AtOnceInv
<1>3. ASSUME NEW a \in Approvals, Aware(d, a)'
      PROVE  /\ a <= drawn'
             /\ \A e \in Clients : job'[e].op = "submit" => job'[e].approval # a
             /\ queue'[a] # NoRow => queue'[a].item = job'[d].item
             /\ job'[d].op \in Resolving /\ IsStatus(a, "PENDING")' => queue'[a] = job'[d].row
  <2>0. a \in Nat
    BY BoundsAssumption DEF Approvals
  <2>1. /\ a <= drawn
        /\ \A e \in Clients : job[e].op = "submit" => job[e].approval # a
        /\ queue[a] # NoRow => queue[a].item = job[d].item
        /\ job[d].op \in Resolving /\ IsStatus(a, "PENDING") => queue[a] = job[d].row
    BY <1>2, <1>3 DEF SeenInv
  <2>2. RowMoves(a)
    BY RowsMove
  <2>3. \A e \in Clients : job'[e].op = "submit" => job'[e].approval # a
    BY <1>1, <2>0, <2>1, NumbersAreNew
  <2>4. QED
    BY <1>1, <2>0, <2>1, <2>2, <2>3 DEF RowMoves, IsStatus
<1>4. job'[d].op = "submit" => job'[d].row \in AtOnce!Submission
  BY <1>2 DEF SeenInv
<1>5. job'[d].op \in Resolving => start'[d] \in 1..clock'
  BY <1>1, <1>2 DEF SeenInv
<1>6. (job[d].op = "submit" => job[d].row \in AtOnce!Submission)'
  BY <1>4 DEF AtOnce!Submission, AtOnce!Change
<1>7. QED
  BY <1>3, <1>5, <1>6 DEF SeenInv

LEMMA MakesKept ==
    ASSUME WorkflowInv, AtOnceInv, [Next]_vars, NEW d \in Clients,
           job'[d] = job[d], start'[d] = start[d], work'[d] = work[d],
           pc'[d] \in {"log", "commit"} => pc[d] \in {"log", "commit"},
           owner[job[d].item] = d => db'[job[d].item] = db[job[d].item]
    PROVE  MakesInv(d)'
<1>1. nextId \in Nat /\ nextId' \in Nat /\ nextId <= nextId' /\ FirstId \in Nat
  BY CountersGrow, BoundsAssumption
<1>2. FirstId..nextId \subseteq FirstId..nextId'
  BY <1>1
<1>3. MakesInv(d) /\ ItemInv(d)
  BY DEF WorkflowInv, AtOnceInv, ClientInv
<1>4. QED
  BY <1>2, <1>3 DEF MakesInv, ItemInv, Makes

(* A step of client c leaves the requests of the others alone, and the items
   they have locked. *)
LEMMA OthersWait ==
    ASSUME WorkflowInv, NEW c \in Clients,
           Ask(c) \/ Acquire(c) \/ Serve(c) \/ DeadlockVictim(c) \/ Abort(c),
           NEW d \in Clients \ {c}
    PROVE  Unmoved(d) /\ \A i \in Items : owner[i] = d => db'[i] = db[i]
<1>t. TypeOK /\ NoClient \notin Clients
  BY NoClientAssumption DEF WorkflowInv
<1>1. CASE Ask(c)
  <2>1. CASE \E i \in Items : Edit(c, i) \/ Create(c, i)
    BY <2>1, <1>t DEF Edit, Create, txs, TypeOK, Unmoved
  <2>2. CASE \E r \in Submissions : Submit(c, r)
    BY <2>2, <1>t DEF Submit, Goto, TypeOK, Unmoved
  <2>3. CASE \E a \in Approvals, op \in Resolving : Resolve(c, a, op)
    BY <2>3, <1>t DEF Resolve, Goto, TypeOK, Unmoved
  <2>4. CASE \E i \in Items : DeleteRows(c, i)
    BY <2>4, <1>t DEF DeleteRows, Goto, TypeOK, Unmoved
  <2>5. QED
    BY <1>1, <2>1, <2>2, <2>3, <2>4 DEF Ask, Resolving
<1>2. Finish(c) => Unmoved(d)
  BY <1>t DEF Finish, Goto, TypeOK, Unmoved
<1>3. CASE Acquire(c) \/ DeadlockVictim(c) \/ Abort(c)
  <2>1. db' = db
    BY <1>3 DEF Acquire, Claim, ClaimFails, ApproveAdd, ApproveUpdate, SweepRow,
       DeadlockVictim, Abort, GiveUp
  <2>2. Unmoved(d)
    <3>1. CASE Claim(c) \/ ApproveAdd(c) \/ ApproveUpdate(c)
      <4>1. CASE Claim(c)
        BY <4>1, <1>t DEF Claim, Goto, TypeOK, Unmoved
      <4>2. CASE ApproveAdd(c) \/ ApproveUpdate(c)
        <5>1. \E w : work' = [work EXCEPT ![c] = w]
          BY <4>2 DEF ApproveAdd, ApproveUpdate
        <5>2. pc' = [pc EXCEPT ![c] = "log"] /\ UNCHANGED <<job, start, todo, marked>>
          BY <4>2 DEF ApproveAdd, ApproveUpdate, Goto
        <5>3. QED
          BY <1>t, <5>1, <5>2 DEF TypeOK, Unmoved
      <4>3. QED
        BY <3>1, <4>1, <4>2
    <3>2. CASE \E a \in Approvals : SweepRow(c, a)
      <4>1. /\ \E T : todo' = [todo EXCEPT ![c] = T]
            /\ marked' = marked \/ \E T : marked' = [marked EXCEPT ![c] = T]
            /\ UNCHANGED <<pc, job, start, work>>
        BY <3>2 DEF SweepRow
      <4>2. QED
        BY <1>t, <4>1 DEF TypeOK, Unmoved
    <3>3. QED
      BY <1>2, <1>3, <3>1, <3>2 DEF Acquire, ClaimFails, DeadlockVictim, Abort, GiveUp
  <2>3. QED
    BY <2>1, <2>2
<1>4. CASE Serve(c)
  <2>1. Unmoved(d)
    BY <1>2, <1>4, <1>t DEF Serve, ApproveRefused, GiveUp, Sweep, LogShared, rows, Goto,
       CommitSubmit, CommitReject, CommitApprove, CommitRollsBack, CommitDelete, TypeOK, Unmoved
  <2>2. CASE CommitApprove(c) \/ CommitDelete(c)
    <3>1. db' = [db EXCEPT ![job[c].item] = work[c]] /\ owner[job[c].item] = c
      BY <2>2 DEF CommitApprove, Committing, CommitDelete, WorkflowInv, ClientInv, ItemInv
    <3>2. QED
      BY <1>t, <2>1, <3>1 DEF TypeOK
  <2>3. CASE db' = db
    BY <2>1, <2>3
  <2>4. QED
    BY <1>4, <2>2, <2>3 DEF Serve, ApproveRefused, GiveUp, Sweep, LogShared, rows,
       CommitSubmit, CommitReject, CommitRollsBack
<1>5. QED
  BY <1>1, <1>3, <1>4

LEMMA AtOnceStep == WorkflowInv /\ AtOnceInv /\ WorkflowInv' /\ [Next]_vars => AtOnceInv'
<1> SUFFICES ASSUME WorkflowInv, AtOnceInv, WorkflowInv', [Next]_vars PROVE AtOnceInv'
  OBVIOUS
<1>t. TypeOK /\ \A c \in Clients : ClientInv(c)
  BY DEF WorkflowInv
<1>g. /\ drawn \in Nat /\ drawn' \in Nat /\ clock \in Nat /\ clock' \in Nat
      /\ nextId \in Nat /\ nextId' \in Nat /\ nextId <= nextId' /\ FirstId \in Nat
  BY CountersGrow, BoundsAssumption
<1>u. ASSUME NEW d \in Clients, Unmoved(d),
             owner[job[d].item] = d => db'[job[d].item] = db[job[d].item]
      PROVE  SeenInv(d)' /\ MakesInv(d)'
  BY <1>u, SeenKept, MakesKept DEF Unmoved, Aware
<1>i. ASSUME NEW c \in Clients, pc'[c] = "idle"
      PROVE  SeenInv(c)' /\ MakesInv(c)'
  <2>1. job'[c] = NoJob
    BY <1>i DEF WorkflowInv, ClientInv, JobInv
  <2>2. QED
    BY <1>i, <2>1, NoJobType DEF SeenInv, Aware, MakesInv, Resolving
<1>o. ASSUME NEW c \in Clients, SeenInv(c)' /\ MakesInv(c)',
             Ask(c) \/ Acquire(c) \/ Serve(c) \/ DeadlockVictim(c) \/ Abort(c)
      PROVE  AtOnceInv'
  <2>1. ASSUME NEW d \in Clients \ {c} PROVE SeenInv(d)' /\ MakesInv(d)'
    <3>1. Unmoved(d) /\ \A i \in Items : owner[i] = d => db'[i] = db[i]
      BY <1>o, OthersWait
    <3>2. job[d].item \in Items
      BY <1>t DEF TypeOK, Job
    <3>3. QED
      BY <1>u, <3>1, <3>2
  <2>2. FirstId <= nextId'
    BY <1>g DEF AtOnceInv
  <2>3. QED
    BY <1>o, <2>1, <2>2 DEF AtOnceInv
<1>1. ASSUME NEW c \in Clients, NEW r \in Submissions, Submit(c, r) PROVE AtOnceInv'
  <2>1. job'[c].op = "submit" /\ job'[c].row = r /\ pc'[c] = "log"
    BY <1>1, <1>t DEF Submit, Goto, TypeOK
  <2>2. (job[c].row \in AtOnce!Submission)'
    BY <2>1 DEF AtOnce!Submission, AtOnce!Change, Submissions, Payload
  <2>3. SeenInv(c)' /\ MakesInv(c)'
    BY <2>1, <2>2 DEF SeenInv, Aware, MakesInv, Resolving
  <2>4. QED
    BY <1>1, <1>o, <2>3 DEF Ask
<1>2. ASSUME NEW c \in Clients, NEW a \in Approvals, NEW op \in Resolving, Resolve(c, a, op)
      PROVE  AtOnceInv'
  <2>1. /\ IsStatus(a, "PENDING") /\ queue' = queue /\ drawn' = drawn
        /\ clock' = clock + 1 /\ start'[c] = clock' /\ pc'[c] = "claim"
        /\ job'[c] = [op |-> op, item |-> queue[a].item, approval |-> a, row |-> queue[a]]
        /\ \A d \in Clients \ {c} : job'[d] = job[d]
    BY <1>2, <1>t DEF Resolve, Goto, TypeOK
  <2>2. a <= drawn
    BY <2>1, <1>g, BoundsAssumption DEF WorkflowInv, QueueInv, IsStatus, Approvals
  <2>3. \A d \in Clients : job'[d].op = "submit" => job'[d].approval # a
    BY <2>1, <1>t DEF ClientInv, FreshInv, IsStatus, Resolving
  <2>4. start'[c] \in 1..clock'
    BY <1>g, <2>1
  <2>5. SeenInv(c)'
    BY <2>1, <2>2, <2>3, <2>4 DEF SeenInv, Aware, IsStatus, Resolving
  <2>6. MakesInv(c)'
    BY <2>1 DEF MakesInv
  <2>7. QED
    BY <1>2, <1>o, <2>5, <2>6 DEF Ask, Resolving
<1>3. ASSUME NEW c \in Clients, NEW i \in Items, DeleteRows(c, i) PROVE AtOnceInv'
  <2>1. job'[c].op = "delete" /\ pc'[c] = "sweep"
    BY <1>3, <1>t, NoJobType DEF DeleteRows, Goto, TypeOK
  <2>2. SeenInv(c)' /\ MakesInv(c)'
    BY <2>1 DEF SeenInv, Aware, MakesInv, Resolving
  <2>3. QED
    BY <1>3, <1>o, <2>2 DEF Ask
<1>4. ASSUME NEW c \in Clients, NEW i \in Items, Edit(c, i) \/ Create(c, i) PROVE AtOnceInv'
  <2>1. pc'[c] = "idle"
    BY <1>4 DEF Edit, Create, txs
  <2>2. QED
    BY <1>4, <1>i, <1>o, <2>1 DEF Ask
<1>5. ASSUME NEW c \in Clients, Claim(c) PROVE AtOnceInv'
  <2>1. /\ job' = job /\ start' = start /\ work' = work
        /\ pc[c] = "claim" /\ pc'[c] \in {"product", "log"}
        /\ pc'[c] = "log" => job[c].op # "approve"
    BY <1>5, <1>t DEF Claim, Goto, TypeOK
  <2>2. SeenInv(c)'
    BY <2>1, SeenKept DEF Aware
  <2>3. MakesInv(c)'
    BY <2>1 DEF MakesInv
  <2>4. QED
    BY <1>5, <1>o, <2>2, <2>3 DEF Acquire
<1>6. ASSUME NEW c \in Clients, ApproveAdd(c) \/ ApproveUpdate(c) PROVE AtOnceInv'
  <2>1. /\ job' = job /\ start' = start /\ db' = db /\ pc[c] = "product" /\ pc'[c] = "log"
        /\ job[c].row \in Row /\ job[c].row.action \in {"ADD", "UPDATE"}
    BY <1>6, <1>t, JobTypes DEF ApproveAdd, ApproveUpdate, Goto, TypeOK, Row
  <2>2. SeenInv(c)'
    BY <2>1, SeenKept DEF Aware
  <2>3. /\ db[job[c].item].live <=> job[c].row.action = "UPDATE"
        /\ work'[c] \in Makes(db[job[c].item], job[c].row, start[c], nextId)
    BY <1>6, <1>t DEF ApproveAdd, ApproveUpdate, Makes, TypeOK
  <2>4. nextId \in FirstId..nextId'
    BY <1>g DEF AtOnceInv
  <2>5. MakesInv(c)'
    BY <2>1, <2>3, <2>4 DEF MakesInv, Makes
  <2>6. QED
    BY <1>6, <1>o, <2>2, <2>5 DEF Acquire
<1>7. ASSUME NEW c \in Clients, Sweep(c) PROVE AtOnceInv'
  <2>1. /\ UNCHANGED <<queue, drawn>> /\ job' = job /\ pc[c] = "sweep" /\ pc'[c] = "reject rows"
        /\ todo'[c] = Pending(job[c].item) /\ marked'[c] = marked[c]
    BY <1>7, <1>t DEF Sweep, rows, Goto, TypeOK
  <2>s. job[c].op = "delete" /\ marked[c] = {}
    BY <1>t, <2>1 DEF ClientInv, JobInv, MarkInv
  <2>2. ASSUME NEW a \in Approvals, a \in todo'[c]
        PROVE  /\ a <= drawn /\ queue[a].item = job[c].item
               /\ \A d \in Clients : job[d].op = "submit" => job[d].approval # a
    <3>1. IsStatus(a, "PENDING") /\ queue[a].item = job[c].item
      BY <2>1, <2>2 DEF Pending
    <3>2. a <= drawn
      BY <3>1, <1>g, BoundsAssumption DEF WorkflowInv, QueueInv, IsStatus, Approvals
    <3>3. QED
      BY <3>1, <3>2, <1>t DEF ClientInv, FreshInv, IsStatus
  <2>3. SeenInv(c)' /\ MakesInv(c)'
    BY <2>1, <2>s, <2>2 DEF SeenInv, Aware, MakesInv, Resolving
  <2>4. QED
    BY <1>7, <1>o, <2>3 DEF Serve
<1>8. ASSUME NEW c \in Clients, NEW a \in Approvals, SweepRow(c, a) PROVE AtOnceInv'
  <2>s. /\ job' = job /\ start' = start /\ work' = work /\ pc' = pc
        /\ pc[c] = "reject rows" /\ a \in todo[c] /\ todo' = [todo EXCEPT ![c] = @ \ {a}]
        /\ marked' = [marked EXCEPT ![c] = @ \cup {a}] \/ marked' = marked
    BY <1>8 DEF SweepRow
  <2>1. todo'[c] \cup marked'[c] \subseteq todo[c] \cup marked[c]
    <3>1. todo \in [Clients -> SUBSET Approvals] /\ marked \in [Clients -> SUBSET Approvals]
      BY <1>t DEF TypeOK
    <3>2. QED
      BY <2>s, <3>1
  <2>2. SeenInv(c)'
    BY <2>s, <2>1, SeenKept DEF Aware
  <2>3. MakesInv(c)'
    BY <2>s DEF MakesInv
  <2>4. QED
    BY <1>8, <1>o, <2>2, <2>3 DEF Acquire
<1>9. ASSUME NEW c \in Clients, LogShared(c) PROVE AtOnceInv'
  <2>1. /\ job' = job /\ start' = start /\ work' = work /\ db' = db
        /\ pc[c] = "log" /\ pc'[c] = "commit"
    BY <1>9, <1>t DEF LogShared, rows, Goto, TypeOK
  <2>2. SeenInv(c)' /\ MakesInv(c)'
    BY <2>1, SeenKept, MakesKept DEF Aware
  <2>3. QED
    BY <1>9, <1>o, <2>2 DEF Serve
<1>10. ASSUME NEW c \in Clients, Finish(c),
              Acquire(c) \/ Serve(c) \/ DeadlockVictim(c) \/ Abort(c)
       PROVE  AtOnceInv'
  BY <1>10, <1>t, <1>i, <1>o, FinishFrame
<1>11. CASE Cleanup \/ UNCHANGED vars
  <2>1. db' = db /\ nextId' = nextId /\ \A d \in Clients : Unmoved(d)
    BY <1>11 DEF Cleanup, vars, rows, txs, Unmoved
  <2>2. QED
    BY <1>u, <2>1 DEF AtOnceInv
<1>12. ASSUME NEW c \in Clients, Acquire(c) \/ Serve(c) \/ DeadlockVictim(c) \/ Abort(c)
       PROVE  \/ Finish(c) \/ Claim(c) \/ ApproveAdd(c) \/ ApproveUpdate(c)
              \/ Sweep(c) \/ LogShared(c) \/ \E a \in Approvals : SweepRow(c, a)
  BY <1>12 DEF Acquire, ClaimFails, Serve, ApproveRefused, CommitSubmit, CommitReject,
     CommitApprove, CommitRollsBack, CommitDelete, DeadlockVictim, Abort, GiveUp
<1>13. ASSUME NEW c \in Clients, Acquire(c) \/ Serve(c) \/ DeadlockVictim(c) \/ Abort(c)
       PROVE  AtOnceInv'
  BY <1>5, <1>6, <1>7, <1>8, <1>9, <1>10, <1>12, <1>13
<1>14. ASSUME NEW c \in Clients, Ask(c) PROVE AtOnceInv'
  BY <1>1, <1>2, <1>3, <1>4, <1>14 DEF Ask, Resolving
<1>15. QED
  BY <1>11, <1>13, <1>14, LineMissingAborts DEF Next

LEMMA AtOnceInit == Init => AtOnceInv
<1> SUFFICES ASSUME Init PROVE AtOnceInv
  OBVIOUS
<1>1. FirstId <= nextId
  BY BoundsAssumption DEF Init
<1>2. ASSUME NEW c \in Clients PROVE SeenInv(c) /\ MakesInv(c)
  <2>1. pc[c] = "idle" /\ job[c] = NoJob
    BY DEF Init
  <2>2. QED
    BY <2>1, NoJobType DEF SeenInv, Aware, MakesInv, Resolving
<1>3. QED
  BY <1>1, <1>2 DEF AtOnceInv

-----------------------------------------------------------------------------
(* AtomicApproval has its own copy of ItemRecord; it computes the same. *)
LEMMA SameOutcomes ==
    /\ \A r, o, at, m : AtOnce!PatchOutcomes(r, o, at, m) = PatchOutcomes(r, o, at, m)
    /\ \A r, o, at, id, q :
          AtOnce!ReplaceOutcomes(r, o, at, id, q) = ReplaceOutcomes(r, o, at, id, q)
    /\ \A r, id, q, pl : AtOnce!Created(r, id, q, pl) = Created(r, id, q, pl)
    /\ \A r, m : AtOnce!Renamed(r, m) = Renamed(r, m)
    /\ \A first, count : AtOnce!NewIds(first, count) = NewIds(first, count)
    /\ \A ids : AtOnce!Placings(ids) = Placings(ids) /\ AtOnce!Unplaced(ids) = Unplaced(ids)
    /\ AtOnce!Absent = Absent
<1>0. \A S : AtOnce!Cardinality(S) = Cardinality(S)
  BY DEF AtOnce!Cardinality, Cardinality
<1>1. \A S, k : AtOnce!Newest(S, k) = Newest(S, k)
  BY <1>0 DEF AtOnce!Newest, Newest
<1>2. \A r, n, o, at : AtOnce!Archived(r, n, o, at) = Archived(r, n, o, at)
  BY <1>1 DEF AtOnce!Archived, Archived
<1>a. /\ \A first, count : AtOnce!NewIds(first, count) = NewIds(first, count)
      /\ \A ids : AtOnce!Placings(ids) = Placings(ids) /\ AtOnce!Unplaced(ids) = Unplaced(ids)
      /\ \A x, y : AtOnce!Given(x, y) = Given(x, y)
  BY DEF AtOnce!NewIds, NewIds, AtOnce!Placings, Placings, AtOnce!Unplaced, Unplaced,
     AtOnce!Given, Given
<1>b. \A id, k, v, pl : AtOnce!Listed(id, k, v, pl) = Listed(id, k, v, pl)
  BY <1>a DEF AtOnce!Listed, Listed
<1>3. /\ \A n, o : AtOnce!Bumped(n, o) = Bumped(n, o)
      /\ \A n, m : AtOnce!Patched(n, m) = Patched(n, m)
      /\ \A r, m : AtOnce!Renamed(r, m) = Renamed(r, m)
  BY DEF AtOnce!Bumped, AtOnce!Patched, AtOnce!NextRevision, Bumped, Patched, NextRevision,
     AtOnce!Renamed, Renamed
<1>4. \A r, o, at, m : AtOnce!PatchOutcomes(r, o, at, m) = PatchOutcomes(r, o, at, m)
  BY <1>2, <1>3 DEF AtOnce!PatchOutcomes, PatchOutcomes
<1>5. ASSUME NEW r, NEW o, NEW at, NEW id, NEW q
      PROVE  AtOnce!ReplaceOutcomes(r, o, at, id, q) = ReplaceOutcomes(r, o, at, id, q)
  <2> DEFINE list == Listed(id, q.adds, q.val, Unplaced(NewIds(id, q.adds)))
             n == [Patched(r.now, q.meta) EXCEPT !.acts = list]
  <2>1. [AtOnce!Patched(r.now, q.meta) EXCEPT
           !.acts = AtOnce!Listed(id, q.adds, q.val, AtOnce!Unplaced(AtOnce!NewIds(id, q.adds)))]
          = n
    BY <1>3, <1>a, <1>b
  <2>2. /\ AtOnce!Bumped(n, o) = Bumped(n, o)
        /\ AtOnce!Archived(r, r.now, o, at) = Archived(r, r.now, o, at)
    BY <1>2, <1>3
  <2>3. QED
    BY <2>1, <2>2 DEF AtOnce!ReplaceOutcomes, ReplaceOutcomes
<1>6. \A r, id, q, pl : AtOnce!Created(r, id, q, pl) = Created(r, id, q, pl)
  BY <1>b DEF AtOnce!Created, Created
<1>7. AtOnce!Absent = Absent
  BY DEF AtOnce!Absent, Absent, AtOnce!NoContent, NoContent
<1>8. QED
  BY <1>3, <1>4, <1>5, <1>6, <1>7, <1>a

(* A deletion that goes on is going to reject what it was, as far as nobody
   else has resolved it. *)
Stays(d) ==
    /\ pc'[d] = "reject rows" <=> pc[d] = "reject rows"
    /\ pc[d] = "reject rows" => job'[d] = job[d] /\ Found(d)' = AtOnce!StillOpen(Found(d))

LEMMA UnmovedStays ==
    ASSUME WorkflowInv, AtOnceInv, [Next]_vars, NEW d \in Clients,
           pc'[d] = pc[d], job'[d] = job[d],
           todo'[d] \cup marked'[d] = todo[d] \cup marked[d]
    PROVE  Stays(d)
<1>1. ASSUME pc[d] = "reject rows", NEW a \in todo[d] \cup marked[d], IsStatus(a, "PENDING")'
      PROVE  IsStatus(a, "PENDING")
  <2>1. a \in Approvals
    BY DEF WorkflowInv, TypeOK
  <2>2. Aware(d, a)
    BY <1>1 DEF Aware
  <2>3. \A e \in Clients : job[e].op = "submit" => job[e].approval # a
    BY <2>1, <2>2 DEF AtOnceInv, SeenInv
  <2>4. RowMoves(a)
    BY <2>1, RowsMove
  <2>5. QED
    BY <1>1, <2>3, <2>4 DEF RowMoves, IsStatus
<1>2. ASSUME pc[d] = "reject rows" PROVE Found(d)' = AtOnce!StillOpen(Found(d))
  BY <1>1, <1>2 DEF Found, IsStatus, AtOnce!StillOpen, AtOnce!IsPending
<1>3. QED
  BY <1>2 DEF Stays

LEMMA OthersStay ==
    ASSUME WorkflowInv, AtOnceInv, [Next]_vars, NEW c \in Clients,
           Ask(c) \/ Acquire(c) \/ Serve(c) \/ DeadlockVictim(c) \/ Abort(c)
    PROVE  \A d \in Clients \ {c} : Stays(d)
  BY OthersWait, UnmovedStays DEF Unmoved

LEMMA SameDeletions ==
    ASSUME NEW k \in Items,
           \A d \in Clients : d \in Deletions(k)' <=> d \in Deletions(k),
           \A d \in Deletions(k) : Found(d)' = AtOnce!StillOpen(Found(d))
    PROVE  {Found(d) : d \in Deletions(k)}'
             = {AtOnce!StillOpen(S) : S \in {Found(d) : d \in Deletions(k)}}
  BY DEF Deletions

(* So AtomicApproval need not notice a step in which all deletions go on ... *)
LEMMA AllStay ==
    ASSUME \A d \in Clients : Stays(d)
    PROVE  AtOnce!Unnoticed
<1>1. ASSUME NEW k \in Items
      PROVE  {Found(d) : d \in Deletions(k)}'
               = {AtOnce!StillOpen(S) : S \in {Found(d) : d \in Deletions(k)}}
  <2>1. \A d \in Clients : d \in Deletions(k)' <=> d \in Deletions(k)
    BY DEF Stays, Deletions
  <2>2. \A d \in Deletions(k) : Found(d)' = AtOnce!StillOpen(Found(d))
    BY DEF Stays, Deletions
  <2>3. QED
    BY <2>1, <2>2, SameDeletions
<1>2. QED
  BY <1>1 DEF AtOnce!Unnoticed

(* ... and otherwise sees what becomes of the one deletion that there is of
   the item. *)
LEMMA OneMoves ==
    ASSUME NEW c \in Clients, NEW i \in Items, job[c].item = i,
           \A d \in Clients \ {c} : Stays(d) /\ d \notin Deletions(i),
           pc'[c] = "reject rows" => job'[c].item = i,
           NEW D, D = {Found(d) : d \in Deletions(i)}'
    PROVE  AtOnce!Dooms(i, D)
<1>1. ASSUME NEW k \in Items, k # i
      PROVE  {Found(d) : d \in Deletions(k)}'
               = {AtOnce!StillOpen(S) : S \in {Found(d) : d \in Deletions(k)}}
  <2>1. \A d \in Clients : d \in Deletions(k)' <=> d \in Deletions(k)
    BY <1>1 DEF Stays, Deletions
  <2>2. \A d \in Deletions(k) : Found(d)' = AtOnce!StillOpen(Found(d))
    BY <1>1 DEF Stays, Deletions
  <2>3. QED
    BY <2>1, <2>2, SameDeletions
<1>2. QED
  BY <1>1 DEF AtOnce!Dooms

(* There is one at most: it has locked the item. *)
LEMMA OneDeletion ==
    ASSUME WorkflowInv, NEW i \in Items
    PROVE  \A d \in Deletions(i) : owner[i] = d /\ d \in Clients
  BY DEF WorkflowInv, ClientInv, ItemInv, Deletions

LEMMA NoneDoomed ==
    ASSUME WorkflowInv, NEW i \in Items, \A d \in Clients : owner[i] = d => pc[d] # "reject rows"
    PROVE  {Found(d) : d \in Deletions(i)} = {}
<1>1. Deletions(i) = {}
  BY OneDeletion DEF Deletions
<1>2. QED
  BY <1>1

(* Each commit is one step of AtomicApproval. *)
LEMMA ApprovalIsAtomic ==
    ASSUME WorkflowInv, AtOnceInv, [Next]_vars, NEW c \in Clients, CommitApprove(c),
           AtOnce!Unnoticed
    PROVE  AtOnce!Next
<1> DEFINE a == job[c].approval
           i == job[c].item
<1>t. TypeOK /\ ClientInv(c) /\ SeenInv(c) /\ MakesInv(c) /\ i \in Items
  BY DEF WorkflowInv, AtOnceInv, TypeOK, Job
<1>1. /\ pc[c] = "commit" /\ job[c].op = "approve" /\ a \in Approvals
      /\ db' = [db EXCEPT ![i] = work[c]] /\ queue' = Resolved(c, "APPROVED")
  BY <1>t, JobTypes DEF CommitApprove, Committing
<1>2. marked[c] = {a} /\ IsStatus(a, "PENDING")
  BY <1>t, <1>1 DEF ClientInv, MarkInv, Resolving
<1>3. queue[a] = job[c].row /\ queue[a].item = i
  BY <1>t, <1>1, <1>2 DEF SeenInv, Aware, Resolving, IsStatus
<1>g. /\ clock \in Nat /\ clock' \in Nat /\ clock <= clock'
      /\ nextId \in Nat /\ nextId' \in Nat /\ nextId <= nextId' /\ FirstId \in Nat
  BY CountersGrow, BoundsAssumption
<1>4. start[c] \in 1..clock'
  BY <1>t, <1>1, <1>g DEF SeenInv, Resolving
<1>5. PICK id \in FirstId..nextId : work[c] \in Makes(db[i], job[c].row, start[c], id)
  BY <1>t, <1>1 DEF MakesInv
<1>6. id \in FirstId..nextId'
  BY <1>5, <1>g
<1>7. AtOnce!Becomes(i, Makes(db[i], job[c].row, start[c], id))
  BY <1>1, <1>5 DEF AtOnce!Becomes
<1>8. AtOnce!Decided({a}, "APPROVED")
  BY <1>1, <1>2 DEF AtOnce!Decided, Resolved, IsStatus
<1>9. db[i].live <=> job[c].row.action = "UPDATE"
  BY <1>t, <1>1 DEF MakesInv
<1>o. {Found(d) : d \in Deletions(i)} = {}
  <2>1. owner[i] = c
    BY <1>t, <1>1 DEF ClientInv, ItemInv
  <2>2. QED
    BY <1>t, <1>1, <2>1, NoneDoomed
<1>m. Makes(db[i], job[c].row, start[c], id)
        = IF job[c].row.action = "UPDATE"
          THEN AtOnce!ReplaceOutcomes(db[i], db[i].now.rev, start[c], id, job[c].row.what)
          ELSE {AtOnce!Created(db[i], id, job[c].row.what,
                               AtOnce!Unplaced(AtOnce!NewIds(id, job[c].row.what.adds)))}
  BY SameOutcomes DEF Makes, CreatedFrom
<1>10. AtOnce!Approve(a)
  BY <1>t, <1>2, <1>3, <1>4, <1>6, <1>7, <1>8, <1>9, <1>o, <1>m
     DEF AtOnce!Approve, AtOnce!IsPending, IsStatus
<1>11. QED
  BY <1>1, <1>10, <1>g DEF AtOnce!Next, AtOnce!Draws

LEMMA DeletionIsAtomic ==
    ASSUME WorkflowInv, AtOnceInv, [Next]_vars, NEW c \in Clients,
           NEW i \in Items, job[c].item = i, CommitDelete(c)
    PROVE  AtOnce!Next
<1>t. TypeOK /\ ClientInv(c) /\ SeenInv(c)
  BY DEF WorkflowInv, AtOnceInv
<1>1. /\ pc[c] = "reject rows" /\ db' = [db EXCEPT ![i] = work[c]]
      /\ queue' = Resolved(c, "REJECTED") /\ todo[c] = {} /\ pc'[c] = "idle"
  BY <1>t, FinishFrame DEF CommitDelete
<1>2. work[c] = Absent /\ owner[i] = c
  BY <1>t, <1>1 DEF ClientInv, ItemInv
<1>3. \A a \in marked[c] : a \in Approvals /\ IsStatus(a, "PENDING")
  BY <1>t, <1>1 DEF ClientInv, MarkInv, TypeOK
<1>4. AtOnce!Decided(marked[c], "REJECTED")
  BY <1>1, <1>3 DEF AtOnce!Decided, Resolved, IsStatus
<1>5. c \in Deletions(i) /\ Found(c) = marked[c]
  BY <1>1, <1>3 DEF Deletions, Found
<1>6. \A d \in Clients \ {c} : Stays(d) /\ d \notin Deletions(i)
  BY <1>t, <1>2, OthersStay, OneDeletion DEF Serve
<1>7. \A d \in Clients : d \notin Deletions(i)'
  BY <1>1, <1>6 DEF Stays, Deletions
<1>8. {Found(d) : d \in Deletions(i)}' = {}
  BY <1>7 DEF Deletions
<1>9. AtOnce!Dooms(i, {})
  BY <1>1, <1>t, <1>6, <1>8, OneMoves
<1>10. AtOnce!Delete(i)
  <2>1. \E S \in {Found(d) : d \in Deletions(i)} : AtOnce!Decided(S, "REJECTED")
    BY <1>4, <1>5
  <2>2. AtOnce!Becomes(i, {AtOnce!Absent})
    BY <1>1, <1>2, SameOutcomes DEF AtOnce!Becomes
  <2>3. QED
    BY <1>t, <1>9, <2>1, <2>2 DEF AtOnce!Delete
<1>11. QED
  BY <1>t, <1>10, CountersGrow DEF AtOnce!Next, AtOnce!Draws

(* So is the moment at which a deletion finds what is pending ... *)
LEMMA SweepIsAtomic ==
    ASSUME WorkflowInv, AtOnceInv, [Next]_vars, NEW c \in Clients,
           NEW i \in Items, job[c].item = i, Sweep(c)
    PROVE  AtOnce!Next
<1>t. TypeOK /\ ClientInv(c)
  BY DEF WorkflowInv
<1>1. /\ pc[c] = "sweep" /\ pc'[c] = "reject rows" /\ job' = job
      /\ todo'[c] = Pending(i) /\ marked'[c] = marked[c] /\ db' = db /\ queue' = queue
  BY <1>t DEF Sweep, rows, Goto, TypeOK
<1>2. db[i].live /\ owner[i] = c /\ marked[c] = {}
  BY <1>t, <1>1 DEF ClientInv, ItemInv, MarkInv
<1>3. \A d \in Clients \ {c} : Stays(d) /\ d \notin Deletions(i)
  BY <1>t, <1>2, OthersStay, OneDeletion DEF Serve
<1> DEFINE P == {a \in Approvals : AtOnce!IsPending(a) /\ queue[a].item = i}
<1>4. Found(c)' = P
  BY <1>1, <1>2 DEF Found, Pending, IsStatus, AtOnce!IsPending
<1>5. \A d \in Clients : d \in Deletions(i)' <=> d = c
  BY <1>1, <1>3 DEF Stays, Deletions
<1>6. {Found(d) : d \in Deletions(i)}' = {P}
  BY <1>4, <1>5 DEF Deletions
<1>7. AtOnce!Dooms(i, {P})
  BY <1>1, <1>t, <1>3, <1>6, OneMoves
<1>8. {Found(d) : d \in Deletions(i)} = {}
  BY <1>t, <1>1, <1>2, NoneDoomed
<1>9. AtOnce!Look(i)
  BY <1>t, <1>1, <1>2, <1>7, <1>8 DEF AtOnce!Look
<1>10. QED
  BY <1>t, <1>9, CountersGrow DEF AtOnce!Next, AtOnce!Draws

(* ... and the one at which it fails. *)
LEMMA FailureIsAtomic ==
    ASSUME WorkflowInv, AtOnceInv, [Next]_vars, NEW c \in Clients,
           NEW i \in Items, job[c].item = i, GiveUp(c),
           DeadlockVictim(c) \/ Abort(c), pc[c] = "reject rows"
    PROVE  AtOnce!Next
<1>t. TypeOK /\ ClientInv(c)
  BY DEF WorkflowInv
<1>1. pc'[c] = "idle" /\ db' = db /\ queue' = queue
  BY <1>t, FinishFrame DEF GiveUp
<1>2. owner[i] = c
  BY <1>t DEF ClientInv, ItemInv
<1>3. \A d \in Clients \ {c} : Stays(d) /\ d \notin Deletions(i)
  BY <1>t, <1>2, OthersStay, OneDeletion
<1>4. \A d \in Clients : d \notin Deletions(i)'
  BY <1>1, <1>3 DEF Stays, Deletions
<1>5. {Found(d) : d \in Deletions(i)}' = {}
  BY <1>4 DEF Deletions
<1>6. AtOnce!Dooms(i, {})
  BY <1>1, <1>t, <1>3, <1>5, OneMoves
<1>7. AtOnce!Forgo(i)
  BY <1>1, <1>6 DEF AtOnce!Forgo
<1>8. QED
  BY <1>t, <1>7, CountersGrow DEF AtOnce!Next, AtOnce!Draws

LEMMA RejectionIsAtomic ==
    ASSUME WorkflowInv, AtOnceInv, [Next]_vars, NEW c \in Clients, CommitReject(c),
           AtOnce!Unnoticed
    PROVE  AtOnce!Next
<1> DEFINE a == job[c].approval
<1>t. TypeOK /\ ClientInv(c)
  BY DEF WorkflowInv
<1>1. /\ pc[c] = "commit" /\ job[c].op = "reject" /\ a \in Approvals
      /\ db' = db /\ queue' = Resolved(c, "REJECTED")
  BY <1>t, JobTypes DEF CommitReject, Committing
<1>2. marked[c] = {a} /\ IsStatus(a, "PENDING")
  BY <1>t, <1>1 DEF ClientInv, MarkInv, Resolving
<1>3. AtOnce!Decided({a}, "REJECTED")
  BY <1>1, <1>2 DEF AtOnce!Decided, Resolved, IsStatus
<1>4. AtOnce!Reject(a)
  BY <1>1, <1>2, <1>3 DEF AtOnce!Reject, AtOnce!IsPending, IsStatus
<1>5. QED
  BY <1>1, <1>4, CountersGrow DEF AtOnce!Next, AtOnce!Draws

LEMMA SubmissionIsAtomic ==
    ASSUME WorkflowInv, AtOnceInv, [Next]_vars, NEW c \in Clients, CommitSubmit(c),
           AtOnce!Unnoticed
    PROVE  AtOnce!Next
<1> DEFINE a == job[c].approval
<1>t. ClientInv(c) /\ SeenInv(c)
  BY DEF WorkflowInv, AtOnceInv
<1>1. /\ pc[c] = "commit" /\ job[c].op = "submit" /\ db' = db
      /\ queue' = [queue EXCEPT ![a] = job[c].row]
  BY DEF CommitSubmit, Committing
<1>2. a \in Approvals /\ queue[a] = NoRow /\ job[c].row \in AtOnce!Submission
  BY <1>t, <1>1 DEF ClientInv, JobInv, FreshInv, SeenInv
<1>3. AtOnce!Submit(a)
  BY <1>1, <1>2 DEF AtOnce!Submit
<1>4. QED
  BY <1>2, <1>3, CountersGrow DEF AtOnce!Next, AtOnce!Draws

(* And so is every edit and creation. *)
LEMMA OtherWritersAreAtomic ==
    ASSUME WorkflowInv, AtOnceInv, [Next]_vars, AtOnce!Unnoticed,
           NEW c \in Clients, NEW i \in Items, Edit(c, i) \/ Create(c, i)
    PROVE  AtOnce!Next
<1>g. /\ clock \in Nat /\ clock' \in Nat /\ clock <= clock'
      /\ nextId \in Nat /\ nextId' \in Nat /\ nextId <= nextId' /\ FirstId \in Nat
      /\ FirstId <= nextId
  BY CountersGrow, BoundsAssumption DEF AtOnceInv
<1>d. AtOnce!Draws
  BY <1>g DEF AtOnce!Draws
<1>1. CASE Edit(c, i)
  <2>1. PICK m \in Metas :
           \E w \in PatchOutcomes(db[i], db[i].now.rev, clock', m) \cup {Renamed(db[i], m)} :
              db' = [db EXCEPT ![i] = w]
    BY <1>1 DEF Edit
  <2>2. clock' \in 1..clock'
    BY <1>1, <1>g DEF Edit
  <2>3. AtOnce!Becomes(i, AtOnce!PatchOutcomes(db[i], db[i].now.rev, clock', m)
                            \cup {AtOnce!Renamed(db[i], m)})
    BY <2>1, SameOutcomes DEF AtOnce!Becomes
  <2>4. {Found(d) : d \in Deletions(i)} = {}
    BY <1>1, NoneDoomed, NoClientAssumption DEF Edit
  <2>5. AtOnce!Edit(i)
    BY <1>1, <2>2, <2>3, <2>4 DEF Edit, AtOnce!Edit
  <2>6. QED
    BY <1>d, <2>5 DEF AtOnce!Next
<1>2. CASE Create(c, i)
  <2>1. PICK q \in Payload : \E pl \in Placings(NewIds(nextId, q.adds)) :
           db' = [db EXCEPT ![i] = Created(db[i], nextId, q, pl)]
    BY <1>2 DEF Create
  <2>2. nextId \in FirstId..nextId' /\ q \in AtOnce!Change
    BY <1>g, <2>1 DEF Payload, AtOnce!Change
  <2>3. AtOnce!Becomes(i, {AtOnce!Created(db[i], nextId, q, pl) :
                              pl \in AtOnce!Placings(AtOnce!NewIds(nextId, q.adds))})
    BY <2>1, SameOutcomes DEF AtOnce!Becomes
  <2>4. AtOnce!Create(i)
    BY <1>2, <2>2, <2>3 DEF Create, AtOnce!Create
  <2>5. QED
    BY <1>d, <2>4 DEF AtOnce!Next
<1>3. QED
  BY <1>1, <1>2

(* What the cleanup thread removes was not doomed; no other step changes what
   is stored. *)
LEMMA QuietSteps ==
    ASSUME WorkflowInv, AtOnceInv, [Next]_vars, UNCHANGED <<db, queue>>, AtOnce!Unnoticed
    PROVE  AtOnce!Next
<1>1. \A d \in Clients : AtOnce!StillOpen(Found(d)) = Found(d)
  BY DEF Found, IsStatus, AtOnce!StillOpen, AtOnce!IsPending
<1>2. \A k \in Items : {AtOnce!StillOpen(S) : S \in {Found(d) : d \in Deletions(k)}}
                          = {Found(d) : d \in Deletions(k)}
  BY <1>1 DEF Deletions
<1>3. [i \in Items |-> {Found(d) : d \in Deletions(i)}]'
         = [i \in Items |-> {Found(d) : d \in Deletions(i)}]
  BY <1>2 DEF AtOnce!Unnoticed
<1>4. AtOnce!Draws
  BY CountersGrow DEF AtOnce!Draws
<1>5. QED
  BY <1>3, <1>4 DEF AtOnce!Next

LEMMA CleanupIsAtomic ==
    ASSUME WorkflowInv, AtOnceInv, [Next]_vars, Cleanup, AtOnce!Unnoticed
    PROVE  AtOnce!Next
<1>1. PICK a \in Approvals : /\ IsStatus(a, "APPROVED") \/ IsStatus(a, "REJECTED")
                             /\ queue' = [queue EXCEPT ![a] = NoRow] /\ db' = db
  BY DEF Cleanup
<1>2. AtOnce!Forget(a)
  BY <1>1 DEF IsStatus, AtOnce!Forget, AtOnce!IsResolved
<1>3. QED
  BY <1>2, CountersGrow DEF AtOnce!Next, AtOnce!Draws

LEMMA StepIsAtOnce ==
    WorkflowInv /\ AtOnceInv /\ [Next]_vars => [AtOnce!Next]_(AtOnce!vars)
<1> SUFFICES ASSUME WorkflowInv, AtOnceInv, [Next]_vars
             PROVE  [AtOnce!Next]_(AtOnce!vars)
  OBVIOUS
<1>t. TypeOK /\ \A c \in Clients : job[c].item \in Items
  BY DEF WorkflowInv, TypeOK, Job
<1>u. ASSUME NEW c \in Clients,
             Ask(c) \/ Acquire(c) \/ Serve(c) \/ DeadlockVictim(c) \/ Abort(c), Stays(c)
      PROVE  AtOnce!Unnoticed
  BY <1>u, OthersStay, AllStay
<1>f. ASSUME NEW c \in Clients, Finish(c), pc[c] # "reject rows" PROVE Stays(c)
  BY <1>f, <1>t, FinishFrame DEF Stays
<1>1. ASSUME NEW c \in Clients, Ask(c) PROVE AtOnce!Next
  <2>1. Stays(c)
    <3>1. pc[c] = "idle" /\ pc'[c] # "reject rows"
      BY <1>1, <1>t DEF Ask, Submit, Resolve, DeleteRows, Edit, Create, txs, Goto, TypeOK
    <3>2. QED
      BY <3>1 DEF Stays
  <2>2. AtOnce!Unnoticed
    BY <1>1, <1>u, <2>1
  <2>3. UNCHANGED <<db, queue>> \/ \E i \in Items : Edit(c, i) \/ Create(c, i)
    BY <1>1 DEF Ask, Submit, Resolve, DeleteRows
  <2>4. QED
    BY <2>2, <2>3, QuietSteps, OtherWritersAreAtomic
<1>2. ASSUME NEW c \in Clients, Acquire(c) PROVE AtOnce!Next
  <2>1. Stays(c)
    <3>1. CASE \E a \in Approvals : SweepRow(c, a)
      <4>1. PICK a \in Approvals : SweepRow(c, a)
        BY <3>1
      <4>2. /\ pc[c] = "reject rows" /\ pc' = pc /\ job' = job /\ queue' = queue
            /\ todo' = [todo EXCEPT ![c] = @ \ {a}] /\ a \in todo[c]
            /\ \/ marked' = [marked EXCEPT ![c] = @ \cup {a}]
               \/ marked' = marked /\ ~IsStatus(a, "PENDING")
        BY <4>1 DEF SweepRow
      <4>3. Found(c)' = Found(c)
        <5>1. todo'[c] = todo[c] \ {a} /\ \/ marked'[c] = marked[c] \cup {a}
                                          \/ marked'[c] = marked[c] /\ ~IsStatus(a, "PENDING")
          BY <1>t, <4>2 DEF TypeOK
        <5>2. QED
          BY <4>2, <5>1 DEF Found, IsStatus
      <4>4. AtOnce!StillOpen(Found(c)) = Found(c)
        BY <4>2 DEF Found, IsStatus, AtOnce!StillOpen, AtOnce!IsPending
      <4>5. QED
        BY <4>2, <4>3, <4>4 DEF Stays
    <3>2. CASE Claim(c) \/ ApproveAdd(c) \/ ApproveUpdate(c)
      <4>1. pc[c] # "reject rows" /\ pc'[c] # "reject rows"
        BY <3>2, <1>t DEF Claim, ApproveAdd, ApproveUpdate, Goto, TypeOK
      <4>2. QED
        BY <4>1 DEF Stays
    <3>3. CASE ClaimFails(c)
      BY <1>f, <3>3 DEF ClaimFails, GiveUp
    <3>4. QED
      BY <1>2, <3>1, <3>2, <3>3 DEF Acquire
  <2>2. UNCHANGED <<db, queue>>
    BY <1>2 DEF Acquire, Claim, ClaimFails, ApproveAdd, ApproveUpdate, SweepRow, GiveUp
  <2>3. QED
    BY <1>2, <1>u, <2>1, <2>2, QuietSteps
<1>3. ASSUME NEW c \in Clients, DeadlockVictim(c) \/ Abort(c) PROVE AtOnce!Next
  <2>1. GiveUp(c) /\ Finish(c) /\ UNCHANGED <<db, queue>>
    BY <1>3 DEF DeadlockVictim, Abort, GiveUp
  <2>2. CASE pc[c] = "reject rows"
    BY <1>3, <1>t, <2>1, <2>2, FailureIsAtomic
  <2>3. CASE pc[c] # "reject rows"
    BY <1>3, <1>f, <1>u, <2>1, <2>3, QuietSteps
  <2>4. QED
    BY <2>2, <2>3
<1>4. ASSUME NEW c \in Clients, Serve(c) PROVE AtOnce!Next
  <2>1. CASE Sweep(c)
    BY <1>t, <2>1, SweepIsAtomic
  <2>2. CASE CommitDelete(c)
    BY <1>t, <2>2, DeletionIsAtomic
  <2>3. ASSUME \/ CommitSubmit(c) \/ CommitReject(c) \/ CommitApprove(c)
               \/ ApproveRefused(c) \/ CommitRollsBack(c)
        PROVE  AtOnce!Next
    <3>1. Finish(c) /\ pc[c] # "reject rows"
      BY <2>3 DEF CommitSubmit, CommitReject, CommitApprove, Committing, ApproveRefused,
         CommitRollsBack, GiveUp
    <3>2. AtOnce!Unnoticed
      BY <1>4, <1>f, <1>u, <3>1
    <3>3. ApproveRefused(c) \/ CommitRollsBack(c) => UNCHANGED <<db, queue>>
      BY DEF ApproveRefused, CommitRollsBack, GiveUp
    <3>4. QED
      BY <2>3, <3>2, <3>3, QuietSteps, ApprovalIsAtomic, RejectionIsAtomic, SubmissionIsAtomic
  <2>4. CASE LogShared(c)
    <3>1. pc[c] # "reject rows" /\ pc'[c] # "reject rows" /\ UNCHANGED <<db, queue>>
      BY <2>4, <1>t DEF LogShared, Goto, rows, TypeOK
    <3>2. Stays(c)
      BY <3>1 DEF Stays
    <3>3. QED
      BY <1>4, <1>u, <3>1, <3>2, QuietSteps
  <2>5. QED
    BY <1>4, <2>1, <2>2, <2>3, <2>4 DEF Serve
<1>5. ASSUME Cleanup \/ UNCHANGED vars PROVE AtOnce!Next
  <2>1. \A d \in Clients : Stays(d)
    BY <1>5, UnmovedStays DEF Cleanup, vars, txs
  <2>2. AtOnce!Unnoticed
    BY <2>1, AllStay
  <2>3. UNCHANGED vars => UNCHANGED <<db, queue>>
    BY DEF vars, rows
  <2>4. QED
    BY <1>5, <2>2, <2>3, CleanupIsAtomic, QuietSteps
<1>6. QED
  BY <1>1, <1>2, <1>3, <1>4, <1>5, LineMissingAborts DEF Next

(* However requests overlap, wait for each other, lose their log entries, are
   picked as deadlock victims or fail: what is stored changes as if each
   decision were carried out at once, on the row and the item as they are
   then, and a deletion rejects all it has found and nobody has resolved since. *)
THEOREM DecisionsTakeEffectAtOnce == Spec => DecidedAtOnce
<1>1. Init => AtOnce!Init
  <2> SUFFICES ASSUME Init PROVE AtOnce!Init
    OBVIOUS
  <2>1. \A i \in Items : {Found(d) : d \in Deletions(i)} = {}
    BY DEF Init, Deletions
  <2>2. QED
    BY <2>1 DEF Init, AtOnce!Init
<1>2. WorkflowInv /\ AtOnceInv /\ [Next]_vars => WorkflowInv' /\ AtOnceInv'
  BY WorkflowStep, AtOnceStep
<1>3. Spec => AtOnce!Init /\ [][AtOnce!Next]_(AtOnce!vars)
  BY <1>1, <1>2, WorkflowInit, AtOnceInit, StepIsAtOnce, PTL DEF Spec
<1>4. QED
  BY <1>3 DEF DecidedAtOnce, AtOnce!Spec
-----------------------------------------------------------------------------
(* Archives are finite, so that one which is full has pruned something. *)
FiniteArchives == \A i \in Items : IsFiniteSet(db[i].arch)

LEMMA FiniteStep == WorkflowInv /\ AtOnceInv /\ FiniteArchives /\ [Next]_vars => FiniteArchives'
<1> SUFFICES ASSUME WorkflowInv, AtOnceInv, FiniteArchives, [Next]_vars, NEW i \in Items
             PROVE  IsFiniteSet(db'[i].arch)
  BY DEF FiniteArchives
<1>t. TypeOK /\ db[i] \in Record /\ IsFiniteSet(db[i].arch) /\ db[i].arch \subseteq Snapshot
  BY DEF WorkflowInv, TypeOK, FiniteArchives, Record
<1>1. ASSUME NEW c \in Clients, CommitApprove(c), job[c].item = i
      PROVE  IsFiniteSet(db'[i].arch)
  <2>1. db'[i] = work[c] /\ job[c].op = "approve" /\ pc[c] = "commit"
    BY <1>1, <1>t DEF CommitApprove, Committing, TypeOK
  <2>2. PICK id \in FirstId..nextId : work[c] \in Makes(db[i], job[c].row, start[c], id)
    BY <1>1, <2>1 DEF AtOnceInv, MakesInv
  <2>3. CASE job[c].row.action = "UPDATE"
    BY <1>t, <2>1, <2>2, <2>3, ReplacementKept DEF Makes
  <2>4. CASE job[c].row.action # "UPDATE"
    BY <1>t, <2>1, <2>2, <2>4 DEF Makes, CreatedFrom, Created, Record
  <2>5. QED
    BY <2>3, <2>4
<1>2. ASSUME NEW c \in Clients, CommitDelete(c), job[c].item = i
      PROVE  IsFiniteSet(db'[i].arch)
  <2>1. db'[i] = Absent
    BY <1>2, <1>t DEF CommitDelete, TypeOK, WorkflowInv, ClientInv, ItemInv
  <2>2. QED
    BY <2>1, FS_EmptySet DEF Absent
<1>3. ASSUME NEW c \in Clients, CommitApprove(c) \/ CommitDelete(c), job[c].item # i
      PROVE  db'[i] = db[i]
  BY <1>3, <1>t DEF CommitApprove, CommitDelete, TypeOK
<1>4. ASSUME NEW c \in Clients, NEW k \in Items, Edit(c, k)
      PROVE  IsFiniteSet(db'[i].arch)
  <2>1. PICK m \in Metas :
           \E w \in PatchOutcomes(db[k], db[k].now.rev, clock', m) \cup {Renamed(db[k], m)} :
              db' = [db EXCEPT ![k] = w]
    BY <1>4 DEF Edit
  <2>2. PICK w \in PatchOutcomes(db[k], db[k].now.rev, clock', m) \cup {Renamed(db[k], m)} :
           db' = [db EXCEPT ![k] = w]
    BY <2>1
  <2>3. CASE i = k /\ w = Renamed(db[k], m)
    BY <1>t, <2>2, <2>3 DEF TypeOK, Renamed, Record
  <2>4. CASE i = k /\ w \in PatchOutcomes(db[k], db[k].now.rev, clock', m)
    <3>1. PICK n, A : A \in Archived(db[i], db[i].now, db[i].now.rev, clock')
                      /\ w = [db[i] EXCEPT !.now = n, !.arch = A]
      BY <2>4 DEF PatchOutcomes
    <3>2. w.arch = A
      BY <1>t, <3>1 DEF Record
    <3>3. QED
      BY <1>t, <2>2, <2>4, <3>1, <3>2, ArchivedFinite DEF TypeOK
  <2>5. CASE i # k
    BY <1>t, <2>2, <2>5 DEF TypeOK
  <2>6. QED
    BY <2>2, <2>3, <2>4, <2>5
<1>5. ASSUME NEW c \in Clients, NEW k \in Items, Create(c, k)
      PROVE  db'[i] = db[i] \/ db'[i].arch = db[i].arch
  BY <1>5, <1>t DEF Create, TypeOK, Created, Record
<1>6. ASSUME NEW c \in Clients, Acquire(c) \/ DeadlockVictim(c) \/ Abort(c) PROVE db' = db
  BY <1>6 DEF Acquire, Claim, ClaimFails, ApproveAdd, ApproveUpdate, SweepRow,
     DeadlockVictim, Abort, GiveUp
<1>7. ASSUME NEW c \in Clients, Serve(c) PROVE db' = db \/ CommitApprove(c) \/ CommitDelete(c)
  BY <1>7 DEF Serve, ApproveRefused, GiveUp, Sweep, LogShared, rows, CommitSubmit,
     CommitReject, CommitRollsBack
<1>8. ASSUME NEW c \in Clients, Ask(c)
      PROVE  db' = db \/ \E k \in Items : Edit(c, k) \/ Create(c, k)
  BY <1>8 DEF Ask, Submit, Resolve, DeleteRows
<1>9. ASSUME Cleanup \/ UNCHANGED vars PROVE db' = db
  BY <1>9 DEF Cleanup, vars, rows
<1>10. QED
  BY <1>1, <1>2, <1>3, <1>4, <1>5, <1>6, <1>7, <1>8, <1>9, <1>t, LineMissingAborts DEF Next

(* An approved UPDATE leaves the complete content it has replaced in the
   archive, under its revision, unless the archive is full of snapshots that
   are not older than the approval; and no step archives anything else. *)
THEOREM ReplacedStateArchived == Spec => ReplacedIsArchived
<1> DEFINE Kept(a) == LET i == queue[a].item IN
             applied'[a] > applied[a] /\ queue[a].action = "UPDATE" =>
                \/ \E s \in db'[i].arch : s.was = db[i].now /\ s.rev = db[i].now.rev
                \/ /\ Cardinality(db'[i].arch) = Keep
                   /\ \E c \in Clients :
                         /\ job[c].op = "approve" /\ job[c].approval = a
                         /\ \A s \in db'[i].arch : s.at >= start[c]
           Nothing(i) == \A s \in db'[i].arch \ db[i].arch :
                            s.was = db[i].now /\ s.rev = db[i].now.rev
<1>1. ASSUME WorkflowInv, [Next]_vars, NEW i \in Items PROVE Nothing(i)
  <2>1. Absent.arch = {}
    BY DEF Absent
  <2>2. QED
    BY <1>1, <2>1, ItemSteps DEF Follows
<1>2. ASSUME WorkflowInv, AtOnceInv, FiniteArchives, [Next]_vars, NEW a \in Approvals
      PROVE  Kept(a)
  <2>t. TypeOK
    BY <1>2 DEF WorkflowInv
  <2>1. ASSUME NEW c \in Clients, CommitApprove(c), job[c].approval = a,
               queue[a].action = "UPDATE"
        PROVE  LET i == queue[a].item IN
                \/ \E s \in db'[i].arch : s.was = db[i].now /\ s.rev = db[i].now.rev
                \/ /\ Cardinality(db'[i].arch) = Keep
                   /\ \A s \in db'[i].arch : s.at >= start[c]
    <3> DEFINE i == job[c].item
    <3>c. ClientInv(c) /\ SeenInv(c) /\ MakesInv(c) /\ i \in Items
      BY <1>2, <2>t DEF WorkflowInv, AtOnceInv, TypeOK, Job
    <3>1. /\ pc[c] = "commit" /\ job[c].op = "approve" /\ db' = [db EXCEPT ![i] = work[c]]
      BY <2>1 DEF CommitApprove, Committing
    <3>2. IsStatus(a, "PENDING")
      BY <2>1, <3>c, <3>1 DEF ClientInv, MarkInv, Resolving
    <3>3. queue[a] = job[c].row /\ queue[a].item = i
      BY <2>1, <3>c, <3>1, <3>2 DEF SeenInv, Aware, Resolving, IsStatus
    <3>4. PICK id \in FirstId..nextId :
             work[c] \in ReplaceOutcomes(db[i], db[i].now.rev, start[c], id, job[c].row.what)
      BY <2>1, <3>c, <3>1, <3>3 DEF MakesInv, Makes
    <3>5. db[i] \in Record /\ IsFiniteSet(db[i].arch) /\ db'[i] = work[c]
      BY <1>2, <2>t, <3>c, <3>1 DEF FiniteArchives, TypeOK
    <3> DEFINE new == [rev |-> db[i].now.rev, was |-> db[i].now, at |-> start[c]]
    <3>6. \/ new \in work[c].arch
          \/ Cardinality(work[c].arch) = Keep /\ \A s \in work[c].arch : s.at >= start[c]
      BY <3>4, <3>5, ReplacementKept
    <3>7. new.was = db[i].now /\ new.rev = db[i].now.rev
      OBVIOUS
    <3> HIDE DEF new
    <3>8. QED
      BY <3>3, <3>5, <3>6, <3>7
  <2>2. ASSUME NEW c \in Clients, CommitApprove(c), job[c].approval # a
        PROVE  applied'[a] = applied[a]
    BY <2>2, <2>t DEF CommitApprove, TypeOK
  <2>3. ASSUME NEW c \in Clients, Ask(c) \/ Acquire(c) \/ DeadlockVictim(c) \/ Abort(c)
        PROVE  applied' = applied
    BY <2>3 DEF Ask, Submit, Resolve, DeleteRows, Edit, Create, Acquire, Claim, ClaimFails,
       ApproveAdd, ApproveUpdate, SweepRow, DeadlockVictim, Abort, GiveUp
  <2>4. ASSUME NEW c \in Clients, Serve(c)
        PROVE  applied' = applied \/ CommitApprove(c)
    BY <2>4 DEF Serve, ApproveRefused, CommitRollsBack, GiveUp, Sweep, LogShared, CommitSubmit,
       CommitReject, CommitDelete
  <2>5. Cleanup \/ UNCHANGED vars => applied' = applied
    BY DEF Cleanup, vars
  <2>6. \/ applied' = applied
        \/ \E c \in Clients : CommitApprove(c) /\ job[c].op = "approve"
    BY <1>2, <2>3, <2>4, <2>5, LineMissingAborts DEF Next, CommitApprove, Committing
  <2>7. applied[a] \in Nat
    BY <2>t DEF TypeOK
  <2>8. QED
    BY <2>1, <2>2, <2>6, <2>7
<1> DEFINE Archives == (\A a \in Approvals : Kept(a)) /\ \A i \in Items : Nothing(i)
<1>3. WorkflowInv /\ AtOnceInv /\ FiniteArchives /\ [Next]_vars => [Archives]_vars
  BY <1>1, <1>2
<1>4. Init => FiniteArchives
  BY SeedAssumption, FS_EmptySet DEF Init, FiniteArchives
<1>5. WorkflowInv /\ AtOnceInv /\ FiniteArchives /\ [Next]_vars
        => WorkflowInv' /\ AtOnceInv' /\ FiniteArchives'
  BY WorkflowStep, AtOnceStep, FiniteStep
<1>6. QED
  BY <1>3, <1>4, <1>5, WorkflowInit, AtOnceInit, PTL DEF Spec, ReplacedIsArchived
-----------------------------------------------------------------------------
(***************************************************************************)
(* Deadlocks.  Two kinds of rows are locked in two orders; which requests  *)
(* can end up waiting for one another?                                     *)
(***************************************************************************)
(* Every lock belongs to a request that is past the statement that took it:
   that of an item to one that stores or deletes it, that of an approval to
   one that has marked it. *)
LocksInv ==
    \A c \in Clients :
        /\ \A i \in Items :
              owner[i] = c => /\ job[c].item = i
                              /\ pc[c] \in {"log", "commit", "sweep", "reject rows"}
        /\ \A a \in Approvals : keeper[a] = c => a \in marked[c]

LEMMA LocksFollow ==
    ASSUME WorkflowInv, LocksInv, NEW d \in Clients,
           job'[d] = job[d], pc'[d] = pc[d], marked[d] \subseteq marked'[d],
           \A i \in Items : owner'[i] = d => owner[i] = d,
           \A a \in Approvals : keeper'[a] = d => keeper[a] = d \/ a \in marked'[d]
    PROVE  /\ \A i \in Items :
                 owner'[i] = d => /\ job'[d].item = i
                                  /\ pc'[d] \in {"log", "commit", "sweep", "reject rows"}
           /\ \A a \in Approvals : keeper'[a] = d => a \in marked'[d]
  BY DEF LocksInv

(* A step of client c gives no lock to another. *)
LEMMA OthersGetNothing ==
    ASSUME WorkflowInv, NEW c \in Clients,
           Ask(c) \/ Acquire(c) \/ Serve(c) \/ DeadlockVictim(c) \/ Abort(c),
           NEW d \in Clients \ {c}
    PROVE  /\ \A i \in Items : owner'[i] = d => owner[i] = d
           /\ \A a \in Approvals : keeper'[a] = d => keeper[a] = d
<1>t. TypeOK /\ NoClient \notin Clients
  BY NoClientAssumption DEF WorkflowInv
<1> DEFINE Kept == /\ \A i \in Items : owner'[i] = d => owner[i] = d
                   /\ \A a \in Approvals : keeper'[a] = d => keeper[a] = d
<1>1. Finish(c) => Kept
  BY <1>t DEF Finish, Release, TypeOK
<1>2. UNCHANGED <<owner, keeper>> => Kept
  OBVIOUS
<1>3. ASSUME NEW i \in Items, owner' = [owner EXCEPT ![i] = c], keeper' = keeper PROVE Kept
  BY <1>t, <1>3 DEF TypeOK
<1>4. ASSUME NEW a \in Approvals, keeper' = [keeper EXCEPT ![a] = c], owner' = owner PROVE Kept
  BY <1>t, <1>4 DEF TypeOK
<1> HIDE DEF Kept
<1>5. ASSUME Ask(c) PROVE Kept
  BY <1>2, <1>3, <1>5 DEF Ask, Submit, Resolve, DeleteRows, Edit, Create
<1>6. ASSUME Acquire(c) PROVE Kept
  <2>1. job[c].item \in Items /\ (pc[c] = "claim" => job[c].approval \in Approvals)
    BY <1>t DEF WorkflowInv, ClientInv, JobInv, TypeOK, Job
  <2>2. CASE Claim(c)
    BY <1>4, <2>1, <2>2 DEF Claim
  <2>3. CASE ApproveAdd(c) \/ ApproveUpdate(c)
    BY <1>3, <2>1, <2>3 DEF ApproveAdd, ApproveUpdate
  <2>4. CASE \E a \in Approvals : SweepRow(c, a)
    BY <1>2, <1>4, <2>4 DEF SweepRow
  <2>5. ClaimFails(c) => Finish(c)
    BY DEF ClaimFails, GiveUp
  <2>6. QED
    BY <1>1, <1>6, <2>2, <2>3, <2>4, <2>5 DEF Acquire
<1>7. ASSUME Serve(c) \/ DeadlockVictim(c) \/ Abort(c) PROVE Kept
  <2>1. Sweep(c) \/ LogShared(c) => UNCHANGED <<owner, keeper>>
    BY DEF Sweep, LogShared, rows
  <2>2. Finish(c) \/ Sweep(c) \/ LogShared(c)
    BY <1>7 DEF DeadlockVictim, Abort, GiveUp, Serve, ApproveRefused, CommitSubmit,
       CommitReject, CommitApprove, CommitRollsBack, CommitDelete
  <2>3. QED
    BY <1>1, <1>2, <2>1, <2>2
<1>8. Kept
  BY <1>5, <1>6, <1>7
<1>9. QED
  BY <1>8 DEF Kept

LEMMA LocksStep == WorkflowInv /\ LocksInv /\ [Next]_vars => LocksInv'
<1> SUFFICES ASSUME WorkflowInv, LocksInv, [Next]_vars PROVE LocksInv'
  OBVIOUS
<1>t. TypeOK /\ NoClient \notin Clients /\ \A c \in Clients : ClientInv(c)
  BY NoClientAssumption DEF WorkflowInv
<1> DEFINE Own(d) ==
             /\ \A i \in Items :
                   owner'[i] = d => /\ job'[d].item = i
                                    /\ pc'[d] \in {"log", "commit", "sweep", "reject rows"}
             /\ \A a \in Approvals : keeper'[a] = d => a \in marked'[d]
<1>o. ASSUME NEW c \in Clients, Own(c),
             Ask(c) \/ Acquire(c) \/ Serve(c) \/ DeadlockVictim(c) \/ Abort(c)
      PROVE  LocksInv'
  <2>1. ASSUME NEW d \in Clients \ {c} PROVE Own(d)
    <3>1. /\ Unmoved(d)
          /\ \A i \in Items : owner'[i] = d => owner[i] = d
          /\ \A a \in Approvals : keeper'[a] = d => keeper[a] = d
      BY <1>o, OthersWait, OthersGetNothing
    <3>2. QED
      BY <3>1, LocksFollow DEF Unmoved
  <2>2. QED
    BY <1>o, <2>1 DEF LocksInv
<1>k. ASSUME NEW c \in Clients, pc[c] \in {"idle", "claim", "product"}
      PROVE  \A i \in Items : owner[i] # c
  BY <1>k DEF LocksInv
<1>m. ASSUME NEW c \in Clients, pc[c] \in {"idle", "claim", "sweep"}
      PROVE  \A a \in Approvals : keeper[a] # c
  BY <1>k, <1>m, <1>t DEF LocksInv, ClientInv, MarkInv
<1>1. ASSUME NEW c \in Clients, Finish(c),
             Acquire(c) \/ Serve(c) \/ DeadlockVictim(c) \/ Abort(c)
      PROVE  LocksInv'
  <2>1. /\ \A i \in Items : owner'[i] # c
        /\ \A a \in Approvals : keeper'[a] # c
    BY <1>1, <1>t DEF Finish, Release, TypeOK
  <2>2. QED
    BY <1>1, <1>o, <2>1
<1>2. ASSUME NEW c \in Clients, Ask(c) PROVE LocksInv'
  <2>1. pc[c] = "idle"
    BY <1>2 DEF Ask, Submit, Resolve, DeleteRows, Edit, Create
  <2>2. CASE \E i \in Items : DeleteRows(c, i)
    <3>1. PICK i \in Items : DeleteRows(c, i)
      BY <2>2
    <3>2. /\ owner' = [owner EXCEPT ![i] = c] /\ keeper' = keeper
          /\ job'[c].item = i /\ pc'[c] = "sweep"
      BY <1>t, <3>1, NoJobType DEF DeleteRows, Goto, TypeOK
    <3>3. Own(c)
      BY <1>k, <1>m, <1>t, <2>1, <3>2 DEF TypeOK
    <3>4. QED
      BY <1>2, <1>o, <3>3
  <2>3. CASE UNCHANGED <<owner, keeper>>
    BY <1>2, <1>k, <1>m, <1>o, <2>1, <2>3
  <2>4. QED
    BY <1>2, <2>2, <2>3 DEF Ask, Submit, Resolve, Edit, Create
<1>3. ASSUME NEW c \in Clients, Claim(c) PROVE LocksInv'
  <2>1. /\ owner' = owner /\ keeper' = [keeper EXCEPT ![job[c].approval] = c]
        /\ pc[c] = "claim" /\ marked'[c] = {job[c].approval}
    BY <1>3, <1>t DEF Claim, TypeOK
  <2>2. Own(c)
    BY <1>k, <1>m, <1>t, <2>1 DEF TypeOK
  <2>3. QED
    BY <1>3, <1>o, <2>2 DEF Acquire
<1>4. ASSUME NEW c \in Clients, ApproveAdd(c) \/ ApproveUpdate(c) PROVE LocksInv'
  <2>1. /\ owner' = [owner EXCEPT ![job[c].item] = c] /\ keeper' = keeper
        /\ job' = job /\ marked' = marked /\ pc[c] = "product" /\ pc'[c] = "log"
    BY <1>4, <1>t DEF ApproveAdd, ApproveUpdate, Goto, TypeOK
  <2>2. \A i \in Items : owner'[i] = c => i = job[c].item
    BY <1>k, <1>t, <2>1 DEF TypeOK
  <2>o. Own(c)
    BY <2>1, <2>2 DEF LocksInv
  <2>3. QED
    BY <1>4, <1>o, <2>o DEF Acquire
<1>5. ASSUME NEW c \in Clients, NEW a \in Approvals, SweepRow(c, a) PROVE LocksInv'
  <2>1. /\ owner' = owner /\ job' = job /\ pc' = pc
        /\ \/ keeper' = [keeper EXCEPT ![a] = c] /\ marked' = [marked EXCEPT ![c] = @ \cup {a}]
           \/ keeper' = keeper /\ marked' = marked
    BY <1>5 DEF SweepRow
  <2>2. /\ marked[c] \subseteq marked'[c]
        /\ \A b \in Approvals : keeper'[b] = c => keeper[b] = c \/ b \in marked'[c]
    BY <1>t, <2>1 DEF TypeOK
  <2>3. Own(c)
    BY <2>1, <2>2, LocksFollow
  <2>4. QED
    BY <1>5, <1>o, <2>3 DEF Acquire
<1>6. ASSUME NEW c \in Clients, Sweep(c) \/ LogShared(c) PROVE LocksInv'
  <2>1. /\ UNCHANGED <<owner, keeper, job, marked>>
        /\ pc'[c] \in {"reject rows", "commit"}
    BY <1>6, <1>t DEF Sweep, LogShared, rows, Goto, TypeOK
  <2>2. Own(c)
    BY <2>1 DEF LocksInv
  <2>3. QED
    BY <1>6, <1>o, <2>2 DEF Serve
<1>7. ASSUME NEW c \in Clients, Acquire(c) \/ Serve(c) \/ DeadlockVictim(c) \/ Abort(c)
      PROVE  LocksInv'
  <2>1. \/ Finish(c) \/ Claim(c) \/ ApproveAdd(c) \/ ApproveUpdate(c)
        \/ Sweep(c) \/ LogShared(c) \/ \E a \in Approvals : SweepRow(c, a)
    BY <1>7 DEF Acquire, ClaimFails, Serve, ApproveRefused, CommitSubmit, CommitReject,
       CommitApprove, CommitRollsBack, CommitDelete, DeadlockVictim, Abort, GiveUp
  <2>2. QED
    BY <1>1, <1>3, <1>4, <1>5, <1>6, <1>7, <2>1
<1>8. CASE Cleanup \/ UNCHANGED vars
  <2>1. UNCHANGED <<owner, keeper, job, pc, marked>>
    BY <1>8 DEF Cleanup, vars, rows, txs
  <2>2. QED
    BY <2>1 DEF LocksInv
<1>9. QED
  BY <1>2, <1>7, <1>8, LineMissingAborts DEF Next

(* Requests that wait in a circle are approvals and deletions, among them one
   of each for the same item: the deletion has locked the item and has come to
   the approval, which the other has locked and whose item it wants. *)
Deadlocks ==
    \A S \in SUBSET Clients : S # {} /\ Cycle(S) =>
        /\ \A c \in S : job[c].op \in {"approve", "delete"}
        /\ \E c, d \in S :
               /\ pc[c] = "product" /\ job[c].op = "approve" /\ keeper[job[c].approval] = c
               /\ pc[d] = "reject rows" /\ job[d].op = "delete" /\ owner[job[d].item] = d
               /\ job[c].item = job[d].item
               /\ job[c].approval \in todo[d]

(* So a rejection or a submission is never the victim of the deadlock detector:
   only approve_request (approvals.py:282-412) and delete_product
   (update.py:686-751) of one item can lock each other out, and two of them
   are enough. *)
THEOREM DeadlocksAreOfTwo == Spec => []Deadlocks
<1>1. ASSUME WorkflowInv, AtOnceInv, LocksInv PROVE Deadlocks
  <2> SUFFICES ASSUME NEW S \in SUBSET Clients, S # {}, Cycle(S)
               PROVE  /\ \A c \in S : job[c].op \in {"approve", "delete"}
                      /\ \E c, d \in S :
                            /\ pc[c] = "product" /\ job[c].op = "approve"
                            /\ keeper[job[c].approval] = c
                            /\ pc[d] = "reject rows" /\ job[d].op = "delete"
                            /\ owner[job[d].item] = d
                            /\ job[c].item = job[d].item
                            /\ job[c].approval \in todo[d]
    BY DEF Deadlocks
  <2>t. TypeOK /\ \A c \in Clients : ClientInv(c) /\ SeenInv(c) /\ job[c].item \in Items
    BY <1>1 DEF WorkflowInv, AtOnceInv, TypeOK, Job
  <2>1. ASSUME NEW c \in S
        PROVE  pc[c] \in {"product", "reject rows"}
    <3>1. PICK b, d \in S \ {c} : WaitsFor(b, c) /\ WaitsFor(c, d)
      BY DEF Cycle
    <3>2. pc[c] \in {"claim", "product", "reject rows"}
      BY <3>1 DEF WaitsFor
    <3>3. (\E a \in Approvals : keeper[a] = c) \/ (\E i \in Items : owner[i] = c)
      BY <3>1, <2>t DEF WaitsFor, ClientInv, JobInv, TypeOK
    <3>m. pc[c] = "claim" => marked[c] = {}
      BY <2>t DEF ClientInv, MarkInv
    <3>4. pc[c] # "claim"
      BY <1>1, <3>3, <3>m DEF LocksInv
    <3>5. QED
      BY <3>2, <3>4
  <2>2. ASSUME NEW c \in S, pc[c] = "product"
        PROVE  \E d \in S : pc[d] = "reject rows"
    <3>1. PICK d \in S : WaitsFor(c, d)
      BY DEF Cycle
    <3>2. owner[job[c].item] = d
      BY <2>2, <3>1 DEF WaitsFor
    <3>3. pc[d] # "product"
      BY <1>1, <2>t, <3>2 DEF LocksInv
    <3>4. QED
      BY <2>1, <3>3
  <2>3. PICK d \in S : pc[d] = "reject rows"
    BY <2>1, <2>2
  <2>4. PICK c \in S \ {d} : WaitsFor(d, c)
    BY DEF Cycle
  <2>5. PICK a \in todo[d] : keeper[a] = c
    BY <2>3, <2>4 DEF WaitsFor
  <2>6. a \in Approvals /\ a \in marked[c]
    BY <1>1, <2>t, <2>5 DEF TypeOK, LocksInv
  <2>7. owner[job[d].item] = d /\ job[d].op = "delete"
    BY <2>3, <2>t DEF ClientInv, ItemInv, JobInv
  <2>m. /\ pc[c] = "product" => /\ job[c].op = "approve" /\ job[c].op \in Resolving
                                /\ marked[c] = {job[c].approval}
        /\ IsStatus(a, "PENDING")
    BY <2>6, <2>t DEF ClientInv, JobInv, MarkInv, Resolving
  <2>8. Aware(c, a) /\ Aware(d, a) /\ queue[a] # NoRow
    BY <2>1, <2>3, <2>5, <2>6, <2>m DEF Aware, IsStatus
  <2>9. job[c].item = job[d].item
    BY <2>6, <2>8, <2>t DEF SeenInv
  <2>10. pc[c] = "product"
    <3>1. ASSUME pc[c] = "reject rows" PROVE FALSE
      BY <2>4, <2>7, <2>9, <2>t, <3>1 DEF ClientInv, ItemInv
    <3>2. QED
      BY <2>1, <3>1
  <2>11. job[c].op = "approve" /\ job[c].approval = a
    BY <2>6, <2>10, <2>m
  <2>12. \A e \in S : job[e].op \in {"approve", "delete"}
    BY <2>1, <2>t DEF ClientInv, JobInv
  <2>13. QED
    BY <2>3, <2>5, <2>7, <2>9, <2>10, <2>11, <2>12
<1>2. Init => LocksInv
  BY NoClientAssumption DEF Init, LocksInv
<1>3. WorkflowInv /\ AtOnceInv /\ LocksInv /\ [Next]_vars
        => WorkflowInv' /\ AtOnceInv' /\ LocksInv'
  BY WorkflowStep, AtOnceStep, LocksStep
<1>4. QED
  BY <1>1, <1>2, <1>3, WorkflowInit, AtOnceInit, PTL DEF Spec
=============================================================================
