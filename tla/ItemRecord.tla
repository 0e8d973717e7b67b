----------------------------- MODULE ItemRecord -----------------------------
(***************************************************************************)
(* The data one inventory item is made of, and what each handler of        *)
(* routes/update.py computes from it: a row of products, its rows of       *)
(* activities, and its rows of product_revisions (the archive).            *)
(*                                                                         *)
(* Every operator is pure.  The modules that model concurrency apply them  *)
(* to the committed record under the row lock; ItemRecord itself knows     *)
(* nothing of clients or transactions.                                     *)
(*                                                                         *)
(* A handler's effect is a SET of possible results, because the archive is *)
(* pruned by an ORDER BY ... LIMIT that does not say which of two rows of  *)
(* equal archived_at it keeps.                                             *)
(*                                                                         *)
(* A definition named Mut... is the next one with a plausible mistake in   *)
(* it; nothing else uses it.                                               *)
(***************************************************************************)
EXTENDS Integers, FiniteSets

CONSTANTS
    Metas,      \* values the updatable columns of products can take, together
    Vals,       \* values the data columns of an activity can take, together
    Places,     \* values of sort_order that clients send
    Unset,      \* "the request does not give it"; also: there is no row
    Keep        \* rows of product_revisions kept per item (50 in the code)

ASSUME KeepAssumption == Keep \in Nat \ {0}
ASSUME PlacesAssumption == Places \subseteq Nat
ASSUME UnsetAssumption == Unset \notin Metas \cup Vals \cup Places

-----------------------------------------------------------------------------
(* A row of activities: its primary key, its data columns, its sort_order. *)
Activity == [id : Nat, val : Vals \cup {Unset}, ord : Nat]

(* What GET /api/items/<code> shows: the product row with its activities.  *)
(* The revision string "00", "01", ... is written by _increment_revision   *)
(* from an integer, and distinct integers give distinct strings, so the    *)
(* integer stands for it.                                                  *)
Content == [rev : Nat, meta : Metas \cup {Unset}, acts : SUBSET Activity]

(* A row of product_revisions: the revision column, the JSON snapshot, and *)
(* archived_at, whose DEFAULT now() is the start of the transaction.       *)
Snapshot == [rev : Nat, was : Content, at : Nat]

(* All that is stored about one inventory id.                              *)
Record == [live : BOOLEAN, now : Content, arch : SUBSET Snapshot]

NoContent == [rev |-> 0, meta |-> Unset, acts |-> {}]
Absent    == [live |-> FALSE, now |-> NoContent, arch |-> {}]

-----------------------------------------------------------------------------
(* _increment_revision on a numeric revision. *)
NextRevision(r) == r + 1

(* _bump_revision writes the successor of the revision the handler read. *)
Bumped(n, old) == [n EXCEPT !.rev = NextRevision(old)]

(* The same behind ?skip_revision=1 of the three activity handlers. *)
BumpedUnless(skip, n, old) == IF skip THEN n ELSE Bumped(n, old)

(* UPDATE products SET ... : an empty product_updates changes nothing. *)
Patched(n, m) == [n EXCEPT !.meta = IF m = Unset THEN @ ELSE m]

MutNextOrders(A) == {Cardinality(A) + 1}

(* COALESCE(MAX(sort_order), 0) + 1 : the one member of this set. *)
NextOrders(A) ==
    {k \in {1} \cup {a.ord + 1 : a \in A} : \A a \in A : a.ord < k}

Ids(A) == {a.id : a \in A}

WithActivity(n, id, v, k) ==
    [n EXCEPT !.acts = @ \cup {[id |-> id, val |-> v, ord |-> k]}]

(* A sort_order is a column clients may set (UPDATABLE_ACTIVITY_FIELDS, and
   act.get("sort_order", i) where a list is inserted).  A request places the
   activities it names, by id, each at the sort_order sent or at none. *)
Placings(ids) == [ids -> Places \cup {Unset}]
Unplaced(ids) == [a \in ids |-> Unset]

Given(x, otherwise) == IF x = Unset THEN otherwise ELSE x

(* UPDATE activities SET ... WHERE id = :id AND inventory_id = :canonical_id,
   for the ids of a set; an id of another item or of no row is skipped.  One
   that only moves an activity sends the value it has. *)
Revalued(A, ids, v, pl) ==
    {IF a.id \in ids THEN [a EXCEPT !.val = v, !.ord = Given(pl[a.id], @)] ELSE a :
        a \in A}

(* DELETE FROM activities WHERE id = ... AND inventory_id = :canonical_id. *)
Without(A, ids) == {a \in A : a.id \notin ids}

(* The ids that a list of count new activities draws from the sequence. *)
NewIds(first, count) == first..(first + count - 1)

(* The rows the list becomes: the sort_order sent, by default the position in
   the LIST, whatever is stored. *)
Listed(first, count, v, pl) ==
    {[id |-> a, val |-> v, ord |-> Given(pl[a], a - first + 1)] :
        a \in NewIds(first, count)}

-----------------------------------------------------------------------------
MutNewest(S, k) == {S}

(* DELETE ... WHERE id NOT IN (SELECT id ... ORDER BY archived_at DESC
   LIMIT k): what remains is k rows (all of them when there are no more)
   such that no row removed is newer than a row kept. *)
Newest(S, k) ==
    {T \in SUBSET S :
        /\ Cardinality(T) = IF Cardinality(S) <= k THEN Cardinality(S) ELSE k
        /\ \A x \in T, y \in S \ T : x.at >= y.at}

(* snapshot_product: insert a row holding the content n it reads back, under
   the revision the caller passes, then prune.  at is the transaction's
   start. *)
Archived(r, n, old, at) ==
    Newest(r.arch \cup {[rev |-> old, was |-> n, at |-> at]}, Keep)

-----------------------------------------------------------------------------
(* What each handler makes of record r (delete_product makes it Absent): old
   is the revision read by its SELECT ... FOR UPDATE, at the start of its
   transaction, id the next value of activities_id_seq, pl the places sent. *)

PatchOutcomes(r, old, at, m) ==
    {[r EXCEPT !.now = Bumped(Patched(r.now, m), old), !.arch = A] :
        A \in Archived(r, r.now, old, at)}

(* The activity is inserted BEFORE snapshot_product runs, so the snapshot
   holds it. *)
AddOutcomes(r, old, at, id, v, skip) ==
    UNION {LET n == WithActivity(r.now, id, v, k)
           IN  {[r EXCEPT !.now = BumpedUnless(skip, n, old), !.arch = A] :
                    A \in Archived(r, n, old, at)} :
           k \in NextOrders(r.now.acts)}

(* Likewise the new values are in the snapshot. *)
UpdateOutcomes(r, old, at, id, v, pl, skip) ==
    LET n == [r.now EXCEPT !.acts = Revalued(@, {id}, v, pl)]
    IN  {[r EXCEPT !.now = BumpedUnless(skip, n, old), !.arch = A] :
            A \in Archived(r, n, old, at)}

(* The snapshot is taken first: the removed activity is still in it. *)
DeleteOutcomes(r, old, at, id, skip) ==
    LET n == [r.now EXCEPT !.acts = Without(@, {id})]
    IN  {[r EXCEPT !.now = BumpedUnless(skip, n, old), !.arch = A] :
            A \in Archived(r, r.now, old, at)}

MutBulkOutcomes(r, old, at, id, q, pl) ==
    LET p == Patched(r.now, q.meta)
        n == [p EXCEPT !.acts = Revalued(Without(@, q.del), q.upd, q.val, pl)
                                  \cup Listed(id, q.adds, q.val, pl)]
    IN  {[r EXCEPT !.now = Bumped(n, old), !.arch = A] : A \in Archived(r, p, old, at)}

(* Snapshot, product columns, then the activities: deletes, updates, adds. *)
BulkOutcomes(r, old, at, id, q, pl) ==
    LET n == [Patched(r.now, q.meta) EXCEPT
                !.acts = Revalued(Without(@, q.del), q.upd, q.val, pl)
                           \cup Listed(id, q.adds, q.val, pl)]
    IN  {[r EXCEPT !.now = Bumped(n, old), !.arch = A] :
            A \in Archived(r, r.now, old, at)}

MutReplaceOutcomes(r, old, at, id, q) ==
    LET n == [Patched(r.now, q.meta) EXCEPT
                !.acts = Listed(id, q.adds, q.val, Unplaced(NewIds(id, q.adds)))]
    IN  {[r EXCEPT !.now = Bumped(n, old)]}

(* An approved UPDATE: snapshot, product columns, and all activities replaced
   by those of the payload, in the order of the list. *)
ReplaceOutcomes(r, old, at, id, q) ==
    LET n == [Patched(r.now, q.meta) EXCEPT
                !.acts = Listed(id, q.adds, q.val, Unplaced(NewIds(id, q.adds)))]
    IN  {[r EXCEPT !.now = Bumped(n, old), !.arch = A] :
            A \in Archived(r, r.now, old, at)}

(* create_item, and an approved ADD: revision "00", the listed activities, no
   snapshot. *)
Created(r, id, q, pl) ==
    [r EXCEPT !.live = TRUE,
              !.now  = [rev  |-> 0,
                        meta |-> q.meta,
                        acts |-> Listed(id, q.adds, q.val, pl)]]

(* rename_production_line, to a product of the line: the name columns change,
   and neither the revision nor the archive does. *)
Renamed(r, m) == [r EXCEPT !.now = Patched(@, m)]
=============================================================================
