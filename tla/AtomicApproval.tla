--------------------------- MODULE AtomicApproval ---------------------------
(***************************************************************************)
(* What routes/approvals.py and delete_product promise: a queue in which   *)
(* an approval is decided once, and takes effect on the stored item in the *)
(* same step.  No locks, no transactions, no requests under way -- except  *)
(* that a deletion takes two steps: it looks for what is pending for the   *)
(* item, and later removes the item and rejects all of that which is still *)
(* pending, and nothing else.                                              *)
(*                                                                         *)
(* ApprovalWorkflow implements this specification: items are its committed *)
(* records, queue its committed rows.                                      *)
(***************************************************************************)
EXTENDS ItemRecord

CONSTANTS Clients, NoClient, Items, Seed, FirstId, NoRow, Approvals, MaxAdds

VARIABLES
    items,   \* item -> stored record
    queue,   \* approval id -> stored row of pending_approvals
    doomed,  \* item -> what a deletion under way is going to reject, as the
             \*   one member of a set that is empty when there is none
    clock,   \* timestamps handed out so far are 1..clock
    nextId   \* activity ids handed out so far are below nextId

vars == <<items, queue, doomed, clock, nextId>>

Change == [meta : Metas, val : Vals, adds : 0..MaxAdds]

Submission ==
    [item : Items, action : {"ADD", "UPDATE"}, what : Change,
     status : {"PENDING"}, by : {NoClient}]

Init ==
    /\ items = Seed
    /\ queue = [a \in Approvals |-> NoRow]
    /\ doomed = [i \in Items |-> {}]
    /\ clock = 0
    /\ nextId = FirstId

IsPending(a)  == queue[a] # NoRow /\ queue[a].status = "PENDING"
IsResolved(a) == queue[a] # NoRow /\ queue[a].status # "PENDING"

(* Requests draw timestamps and ids, whether or not they change anything. *)
Draws == clock' >= clock /\ nextId' >= nextId

(* Item i becomes one of the outcomes. *)
Becomes(i, outcomes) == \E w \in outcomes : items' = [items EXCEPT ![i] = w]

(* One client resolves the approvals in S. *)
Decided(S, status) ==
    \E c \in Clients :
        queue' = [a \in Approvals |->
                     IF a \in S THEN [queue[a] EXCEPT !.status = status, !.by = c]
                     ELSE queue[a]]

(* What is doomed shrinks as others resolve it; how it is for item i is said
   apart. *)
StillOpen(S) == {a \in S : IsPending(a)'}
Dooms(i, D) ==
    doomed' = [k \in Items |-> IF k = i THEN D ELSE {StillOpen(S) : S \in doomed[k]}]
Unnoticed == doomed' = [k \in Items |-> {StillOpen(S) : S \in doomed[k]}]

Submit(a) ==
    /\ queue[a] = NoRow
    /\ \E r \in Submission : queue' = [queue EXCEPT ![a] = r]
    /\ UNCHANGED items
    /\ Unnoticed

(* The payload becomes, or replaces, the item as it is stored now. *)
Approve(a) ==
    LET row == queue[a]
        r   == items[row.item]
    IN  /\ IsPending(a)
        /\ doomed[row.item] = {}
        /\ r.live <=> row.action = "UPDATE"
        /\ \E at \in 1..clock', id \in FirstId..nextId' :
              Becomes(row.item,
                      IF row.action = "UPDATE"
                      THEN ReplaceOutcomes(r, r.now.rev, at, id, row.what)
                      ELSE {Created(r, id, row.what, Unplaced(NewIds(id, row.what.adds)))})
        /\ Decided({a}, "APPROVED")
        /\ Unnoticed

Reject(a) ==
    /\ IsPending(a)
    /\ Decided({a}, "REJECTED")
    /\ UNCHANGED items
    /\ Unnoticed

(* A deletion finds everything that is pending for the item; only what is
   submitted after that escapes it. *)
Look(i) ==
    /\ items[i].live
    /\ doomed[i] = {}
    /\ Dooms(i, {{a \in Approvals : IsPending(a) /\ queue[a].item = i}})
    /\ UNCHANGED <<items, queue>>

Delete(i) ==
    /\ \E S \in doomed[i] : Decided(S, "REJECTED")
    /\ Becomes(i, {Absent})
    /\ Dooms(i, {})

(* The deletion fails. *)
Forgo(i) ==
    /\ Dooms(i, {})
    /\ UNCHANGED <<items, queue>>

Forget(a) ==
    /\ IsResolved(a)
    /\ queue' = [queue EXCEPT ![a] = NoRow]
    /\ UNCHANGED items
    /\ Unnoticed

Edit(i) ==
    /\ items[i].live
    /\ doomed[i] = {}
    /\ \E m \in Metas, at \in 1..clock' :
          Becomes(i, PatchOutcomes(items[i], items[i].now.rev, at, m)
                       \cup {Renamed(items[i], m)})
    /\ UNCHANGED queue
    /\ Unnoticed

Create(i) ==
    /\ ~items[i].live
    /\ \E q \in Change, id \in FirstId..nextId' :
          Becomes(i, {Created(items[i], id, q, pl) : pl \in Placings(NewIds(id, q.adds))})
    /\ UNCHANGED queue
    /\ Unnoticed

Next ==
    /\ Draws
    /\ \/ UNCHANGED <<items, queue, doomed>>
       \/ \E a \in Approvals : Submit(a) \/ Approve(a) \/ Reject(a) \/ Forget(a)
       \/ \E i \in Items : Look(i) \/ Delete(i) \/ Forgo(i) \/ Edit(i) \/ Create(i)

Spec == Init /\ [][Next]_vars
=============================================================================
