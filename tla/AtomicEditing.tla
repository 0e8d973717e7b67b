--------------------------- MODULE AtomicEditing ---------------------------
(***************************************************************************)
(* What routes/update.py, create_item and rename_production_line promise   *)
(* about the stored items: every request that changes an item takes effect *)
(* at once, computed from the item as it is stored at that moment, as if   *)
(* requests never overlapped.  No locks, no transactions, no clients.      *)
(*                                                                         *)
(* ItemEditing implements this specification: items are its committed      *)
(* records.                                                                *)
(***************************************************************************)
EXTENDS ItemRecord

CONSTANTS Items, Seed, FirstId, Skips, IdSets, MaxAdds

VARIABLES
    items,   \* item -> stored record
    clock,   \* timestamps handed out so far are 1..clock
    nextId   \* activity ids handed out so far are below nextId

vars == <<items, clock, nextId>>

Init ==
    /\ items = Seed
    /\ clock = 0
    /\ nextId = FirstId

(* Item i becomes one of the outcomes. *)
Becomes(i, outcomes) ==
    /\ \E w \in outcomes : items' = [items EXCEPT ![i] = w]
    /\ UNCHANGED <<clock, nextId>>

Patch(i) ==
    /\ items[i].live
    /\ \E m \in Metas, at \in 1..clock :
          Becomes(i, PatchOutcomes(items[i], items[i].now.rev, at, m))

Add(i) ==
    /\ items[i].live
    /\ \E v \in Vals, s \in Skips, at \in 1..clock, id \in FirstId..(nextId - 1) :
          Becomes(i, AddOutcomes(items[i], items[i].now.rev, at, id, v, s))

Update(i) ==
    /\ items[i].live
    /\ \E v \in Vals, s \in Skips, at \in 1..clock, id \in Ids(items[i].now.acts) :
          \E pl \in Placings({id}) :
             Becomes(i, UpdateOutcomes(items[i], items[i].now.rev, at, id, v, pl, s))

Delete(i) ==
    /\ items[i].live
    /\ \E s \in Skips, at \in 1..clock, id \in Ids(items[i].now.acts) :
          Becomes(i, DeleteOutcomes(items[i], items[i].now.rev, at, id, s))

(* The part of a bulk or create request that says what to store. *)
Change ==
    [meta : Metas \cup {Unset}, val : Vals \cup {Unset},
     del : IdSets, upd : IdSets, adds : 0..MaxAdds]

Bulk(i) ==
    /\ items[i].live
    /\ \E q \in Change, at \in 1..clock, id \in FirstId..nextId :
          \E pl \in Placings(q.upd \cup NewIds(id, q.adds)) :
             Becomes(i, BulkOutcomes(items[i], items[i].now.rev, at, id, q, pl))

Create(i) ==
    /\ ~items[i].live
    /\ \E q \in Change, id \in FirstId..nextId :
          \E pl \in Placings(NewIds(id, q.adds)) :
             Becomes(i, {Created(items[i], id, q, pl)})

Rename(i) ==
    /\ items[i].live
    /\ \E m \in Metas : Becomes(i, {Renamed(items[i], m)})

Remove(i) ==
    /\ items[i].live
    /\ Becomes(i, {Absent})

(* Requests that arrive draw timestamps and ids, whether or not they end up
   changing anything. *)
Draw ==
    /\ clock' >= clock
    /\ nextId' >= nextId
    /\ UNCHANGED items

Next ==
    \/ Draw
    \/ \E i \in Items :
          \/ Patch(i) \/ Add(i) \/ Update(i) \/ Delete(i) \/ Bulk(i)
          \/ Create(i) \/ Rename(i) \/ Remove(i)

Spec == Init /\ [][Next]_vars
=============================================================================
