------------------------- MODULE ItemRecord_proofs -------------------------
(***************************************************************************)
(* What the operators of ItemRecord return, for every value of the         *)
(* constants: facts about the handlers' effects that the proofs about      *)
(* concurrent editing cite.                                                *)
(***************************************************************************)
EXTENDS ItemRecord, FiniteSetTheorems, TLAPS

(* Pruning keeps some of the rows, and never more than asked for. *)
LEMMA NewestIsSubset ==
    ASSUME NEW S, NEW k \in Nat, NEW T \in Newest(S, k)
    PROVE  T \subseteq S /\ Cardinality(T) <= k
<1>1. T \in SUBSET S
  BY DEF Newest
<1>2. Cardinality(T) = IF Cardinality(S) <= k THEN Cardinality(S) ELSE k
  BY DEF Newest
<1>3. QED
  BY <1>1, <1>2

(* A new sort_order is a natural number larger than every one in use. *)
LEMMA NextOrderIsLarger ==
    ASSUME NEW A \in SUBSET Activity, NEW k \in NextOrders(A)
    PROVE  k \in Nat /\ \A a \in A : a.ord < k
  BY DEF NextOrders, Activity

(* The archive after a snapshot holds snapshots, at most Keep of them. *)
LEMMA ArchivedType ==
    ASSUME NEW r \in Record, NEW n \in Content, NEW old \in Nat, NEW at \in Nat,
           NEW A \in Archived(r, n, old, at)
    PROVE  A \in SUBSET Snapshot /\ Cardinality(A) <= Keep
<1> DEFINE new == [rev |-> old, was |-> n, at |-> at]
<1>1. new \in Snapshot
  BY DEF Snapshot
<1>2. r.arch \in SUBSET Snapshot
  BY DEF Record
<1>3. A \subseteq r.arch \cup {new} /\ Cardinality(A) <= Keep
  BY NewestIsSubset, KeepAssumption DEF Archived
<1>4. QED
  BY <1>1, <1>2, <1>3

(* A place that is given is a natural number. *)
LEMMA GivenPlace ==
    ASSUME NEW ids, NEW pl \in Placings(ids), NEW a \in ids, NEW k \in Nat
    PROVE  Given(pl[a], k) \in Nat
  BY PlacesAssumption DEF Placings, Given

(* To place nothing is one of the placings. *)
LEMMA UnplacedIsPlacing ==
    ASSUME NEW ids
    PROVE  Unplaced(ids) \in Placings(ids)
  BY DEF Unplaced, Placings

(* An activity that is updated, to wherever it is moved, is an activity. *)
LEMMA RevaluedType ==
    ASSUME NEW A \in SUBSET Activity, NEW ids, NEW v \in Vals \cup {Unset},
           NEW S, ids \subseteq S, NEW pl \in Placings(S)
    PROVE  Revalued(A, ids, v, pl) \in SUBSET Activity
<1>1. ASSUME NEW a \in A, a.id \in ids
      PROVE  [a EXCEPT !.val = v, !.ord = Given(pl[a.id], @)] \in Activity
  <2>1. a \in Activity /\ a.ord \in Nat
    BY DEF Activity
  <2>2. Given(pl[a.id], a.ord) \in Nat
    BY <1>1, <2>1, GivenPlace
  <2>3. QED
    BY <2>1, <2>2 DEF Activity
<1>2. QED
  BY <1>1 DEF Revalued

(* What the handlers make of the content is content again. *)
LEMMA ContentTypes ==
    ASSUME NEW n \in Content
    PROVE  /\ \A o \in Nat : Bumped(n, o) \in Content
           /\ \A o \in Nat, s \in BOOLEAN : BumpedUnless(s, n, o) \in Content
           /\ \A m \in Metas \cup {Unset} : Patched(n, m) \in Content
           /\ \A id \in Nat, v \in Vals \cup {Unset}, k \in Nat :
                 WithActivity(n, id, v, k) \in Content
           /\ \A ids \in SUBSET Nat : Without(n.acts, ids) \in SUBSET Activity
<1>1. \A o \in Nat : Bumped(n, o) \in Content
  BY DEF Bumped, Content, NextRevision
<1>2. \A o \in Nat, s \in BOOLEAN : BumpedUnless(s, n, o) \in Content
  BY <1>1 DEF BumpedUnless
<1>3. \A m \in Metas \cup {Unset} : Patched(n, m) \in Content
  BY DEF Patched, Content
<1>4. \A id \in Nat, v \in Vals \cup {Unset}, k \in Nat :
         WithActivity(n, id, v, k) \in Content
  BY DEF WithActivity, Content, Activity
<1>5. \A ids \in SUBSET Nat : Without(n.acts, ids) \in SUBSET Activity
  BY DEF Without, Content
<1>6. QED
  BY <1>1, <1>2, <1>3, <1>4, <1>5

LEMMA ListedType ==
    ASSUME NEW first \in Nat, NEW count \in Nat, NEW v \in Vals \cup {Unset},
           NEW S, NewIds(first, count) \subseteq S, NEW pl \in Placings(S)
    PROVE  Listed(first, count, v, pl) \in SUBSET Activity
<1>1. ASSUME NEW a \in NewIds(first, count)
      PROVE  [id |-> a, val |-> v, ord |-> Given(pl[a], a - first + 1)] \in Activity
  <2>1. a \in Nat /\ a - first + 1 \in Nat
    BY DEF NewIds
  <2>2. Given(pl[a], a - first + 1) \in Nat
    BY <2>1, GivenPlace
  <2>3. QED
    BY <2>1, <2>2 DEF Activity
<1>2. QED
  BY <1>1 DEF Listed

-----------------------------------------------------------------------------
(* What an edit of the stored record r, at revision old, leads to: a record
   with a bounded archive, still live, one revision further unless the edit
   skips the revision. *)
EditOf(r, old, skip) ==
    {w \in Record : /\ w.live = r.live
                    /\ w.now.rev = IF skip THEN r.now.rev ELSE old + 1
                    /\ Cardinality(w.arch) <= Keep}

LEMMA EditLemma ==
    ASSUME NEW r \in Record, NEW old \in Nat, NEW at \in Nat,
           NEW skip \in BOOLEAN, NEW n \in Content, n.rev = r.now.rev,
           NEW m \in Content, NEW A \in Archived(r, m, old, at)
    PROVE  [r EXCEPT !.now = BumpedUnless(skip, n, old), !.arch = A]
              \in EditOf(r, old, skip)
<1> DEFINE w == [r EXCEPT !.now = BumpedUnless(skip, n, old), !.arch = A]
<1>1. A \in SUBSET Snapshot /\ Cardinality(A) <= Keep
  BY ArchivedType
<1>2. BumpedUnless(skip, n, old) \in Content
  BY ContentTypes
<1>3. /\ w \in Record
      /\ w.live = r.live
      /\ w.now = BumpedUnless(skip, n, old)
      /\ w.arch = A
  BY <1>1, <1>2 DEF Record
<1>4. BumpedUnless(skip, n, old).rev = IF skip THEN r.now.rev ELSE old + 1
  BY DEF BumpedUnless, Bumped, NextRevision, Content
<1>5. QED
  BY <1>1, <1>3, <1>4 DEF EditOf

LEMMA PatchLemma ==
    ASSUME NEW r \in Record, NEW old \in Nat, NEW at \in Nat,
           NEW m \in Metas \cup {Unset}
    PROVE  PatchOutcomes(r, old, at, m) \subseteq EditOf(r, old, FALSE)
<1> DEFINE n == Patched(r.now, m)
<1>1. r.now \in Content
  BY DEF Record
<1>2. n \in Content /\ n.rev = r.now.rev
  BY <1>1, ContentTypes DEF Patched, Content
<1>3. Bumped(n, old) = BumpedUnless(FALSE, n, old)
  BY DEF BumpedUnless
<1>4. \A A \in Archived(r, r.now, old, at) :
         [r EXCEPT !.now = BumpedUnless(FALSE, n, old), !.arch = A]
            \in EditOf(r, old, FALSE)
  BY <1>1, <1>2, EditLemma
<1>5. QED
  BY <1>3, <1>4 DEF PatchOutcomes

LEMMA AddLemma ==
    ASSUME NEW r \in Record, NEW old \in Nat, NEW at \in Nat, NEW id \in Nat,
           NEW v \in Vals \cup {Unset}, NEW skip \in BOOLEAN
    PROVE  AddOutcomes(r, old, at, id, v, skip) \subseteq EditOf(r, old, skip)
<1>1. r.now \in Content /\ r.now.acts \in SUBSET Activity
  BY DEF Record, Content
<1>2. ASSUME NEW k \in NextOrders(r.now.acts),
             NEW A \in Archived(r, WithActivity(r.now, id, v, k), old, at)
      PROVE  [r EXCEPT !.now = BumpedUnless(skip, WithActivity(r.now, id, v, k), old),
                       !.arch = A] \in EditOf(r, old, skip)
  <2>1. k \in Nat
    BY <1>1, NextOrderIsLarger
  <2>2. /\ WithActivity(r.now, id, v, k) \in Content
        /\ WithActivity(r.now, id, v, k).rev = r.now.rev
    BY <1>1, <2>1, ContentTypes DEF WithActivity, Content
  <2>3. QED
    BY <2>2, EditLemma
<1> DEFINE results(k) ==
             {[r EXCEPT !.now = BumpedUnless(skip, WithActivity(r.now, id, v, k), old),
                        !.arch = A] :
                 A \in Archived(r, WithActivity(r.now, id, v, k), old, at)}
<1>3. AddOutcomes(r, old, at, id, v, skip)
         = UNION {results(k) : k \in NextOrders(r.now.acts)}
  BY Zenon DEF AddOutcomes
<1>4. ASSUME NEW k \in NextOrders(r.now.acts), NEW w \in results(k)
      PROVE  w \in EditOf(r, old, skip)
  BY <1>2
<1> HIDE DEF results
<1>5. QED
  BY <1>3, <1>4

LEMMA UpdateLemma ==
    ASSUME NEW r \in Record, NEW old \in Nat, NEW at \in Nat, NEW id \in Nat,
           NEW v \in Vals \cup {Unset}, NEW pl \in Placings({id}), NEW skip \in BOOLEAN
    PROVE  UpdateOutcomes(r, old, at, id, v, pl, skip) \subseteq EditOf(r, old, skip)
<1> DEFINE n == [r.now EXCEPT !.acts = Revalued(@, {id}, v, pl)]
<1>1. r.now \in Content
  BY DEF Record
<1>2. Revalued(r.now.acts, {id}, v, pl) \in SUBSET Activity
  BY <1>1, RevaluedType DEF Content
<1>3. n \in Content /\ n.rev = r.now.rev
  BY <1>1, <1>2 DEF Content
<1>4. \A A \in Archived(r, n, old, at) :
         [r EXCEPT !.now = BumpedUnless(skip, n, old), !.arch = A]
            \in EditOf(r, old, skip)
  BY <1>3, EditLemma
<1>5. QED
  BY <1>4 DEF UpdateOutcomes

LEMMA DeleteLemma ==
    ASSUME NEW r \in Record, NEW old \in Nat, NEW at \in Nat, NEW id \in Nat,
           NEW skip \in BOOLEAN
    PROVE  DeleteOutcomes(r, old, at, id, skip) \subseteq EditOf(r, old, skip)
<1> DEFINE n == [r.now EXCEPT !.acts = Without(@, {id})]
<1>1. r.now \in Content
  BY DEF Record
<1>2. Without(r.now.acts, {id}) \in SUBSET Activity
  BY <1>1, ContentTypes
<1>3. n \in Content /\ n.rev = r.now.rev
  BY <1>1, <1>2 DEF Content
<1>4. \A A \in Archived(r, r.now, old, at) :
         [r EXCEPT !.now = BumpedUnless(skip, n, old), !.arch = A]
            \in EditOf(r, old, skip)
  BY <1>1, <1>3, EditLemma
<1>5. QED
  BY <1>4 DEF DeleteOutcomes

(* The fields of a create request, or of a submitted payload, that say what
   to store, and of a bulk request. *)
IsPayload(q) ==
    /\ q.meta \in Metas \cup {Unset}
    /\ q.val \in Vals \cup {Unset}
    /\ q.adds \in Nat

IsChange(q) ==
    /\ IsPayload(q)
    /\ q.del \in SUBSET Nat
    /\ q.upd \in SUBSET Nat

LEMMA BulkLemma ==
    ASSUME NEW r \in Record, NEW old \in Nat, NEW at \in Nat, NEW id \in Nat,
           NEW q, IsChange(q), NEW pl \in Placings(q.upd \cup NewIds(id, q.adds))
    PROVE  BulkOutcomes(r, old, at, id, q, pl) \subseteq EditOf(r, old, FALSE)
<1> DEFINE p == Patched(r.now, q.meta)
           acts == Revalued(Without(p.acts, q.del), q.upd, q.val, pl)
                      \cup Listed(id, q.adds, q.val, pl)
           n == [p EXCEPT !.acts = acts]
<1>1. r.now \in Content
  BY DEF Record
<1>2. p \in Content /\ p.rev = r.now.rev
  BY <1>1, ContentTypes DEF IsChange, IsPayload, Patched, Content
<1>3. Without(p.acts, q.del) \in SUBSET Activity
  BY <1>2, ContentTypes DEF IsChange
<1>4. Revalued(Without(p.acts, q.del), q.upd, q.val, pl) \in SUBSET Activity
  BY <1>3, RevaluedType DEF IsChange, IsPayload
<1>5. Listed(id, q.adds, q.val, pl) \in SUBSET Activity
  BY ListedType DEF IsChange, IsPayload
<1>6. n \in Content /\ n.rev = r.now.rev
  BY <1>2, <1>4, <1>5 DEF Content
<1>7. Bumped(n, old) = BumpedUnless(FALSE, n, old)
  BY DEF BumpedUnless
<1>8. \A A \in Archived(r, r.now, old, at) :
         [r EXCEPT !.now = BumpedUnless(FALSE, n, old), !.arch = A]
            \in EditOf(r, old, FALSE)
  BY <1>1, <1>6, EditLemma
<1>9. QED
  BY <1>7, <1>8 DEF BulkOutcomes

(* create_item stores a record that keeps whatever archive there was. *)
LEMMA CreatedLemma ==
    ASSUME NEW r \in Record, NEW id \in Nat, NEW q, IsPayload(q),
           NEW pl \in Placings(NewIds(id, q.adds))
    PROVE  /\ Created(r, id, q, pl) \in Record
           /\ Created(r, id, q, pl).live
           /\ Created(r, id, q, pl).now.rev = 0
           /\ Created(r, id, q, pl).arch = r.arch
<1>1. Listed(id, q.adds, q.val, pl) \in SUBSET Activity
  BY ListedType DEF IsPayload
<1>2. [rev |-> 0, meta |-> q.meta, acts |-> Listed(id, q.adds, q.val, pl)] \in Content
  BY <1>1 DEF Content, IsPayload
<1>3. QED
  BY <1>2 DEF Created, Record

(* A rename leaves a record with the revision, the activities and the archive
   it had. *)
LEMMA RenamedLemma ==
    ASSUME NEW r \in Record, NEW m \in Metas \cup {Unset}
    PROVE  /\ Renamed(r, m) \in Record
           /\ Renamed(r, m).live = r.live
           /\ Renamed(r, m).now.rev = r.now.rev
           /\ Renamed(r, m).now.acts = r.now.acts
           /\ Renamed(r, m).arch = r.arch
<1>1. r.now \in Content
  BY DEF Record
<1>2. /\ Patched(r.now, m) \in Content
      /\ Patched(r.now, m).rev = r.now.rev
      /\ Patched(r.now, m).acts = r.now.acts
  BY <1>1, ContentTypes DEF Patched, Content
<1>3. QED
  BY <1>2 DEF Renamed, Record

(* What delete_product leaves. *)
LEMMA AbsentIsRecord == Absent \in Record
  BY DEF Absent, NoContent, Record, Content

(* An approved UPDATE leads to a record too, and what is new in its archive is
   the content it has replaced. *)
LEMMA ReplaceLemma ==
    ASSUME NEW r \in Record, NEW old \in Nat, NEW at \in Nat, NEW id \in Nat,
           NEW q, IsPayload(q), NEW w \in ReplaceOutcomes(r, old, at, id, q)
    PROVE  /\ w \in EditOf(r, old, FALSE)
           /\ \A s \in w.arch \ r.arch : s.was = r.now /\ s.rev = old
<1> DEFINE list == Listed(id, q.adds, q.val, Unplaced(NewIds(id, q.adds)))
           n == [Patched(r.now, q.meta) EXCEPT !.acts = list]
           new == [rev |-> old, was |-> r.now, at |-> at]
<1>1. r.now \in Content
  BY DEF Record
<1>2. Patched(r.now, q.meta) \in Content /\ Patched(r.now, q.meta).rev = r.now.rev
  BY <1>1, ContentTypes DEF IsPayload, Patched, Content
<1>3. list \in SUBSET Activity
  BY ListedType, UnplacedIsPlacing DEF IsPayload
<1>4. n \in Content /\ n.rev = r.now.rev
  BY <1>2, <1>3 DEF Content
<1>5. Bumped(n, old) = BumpedUnless(FALSE, n, old)
  BY DEF BumpedUnless
<1>6. PICK A \in Archived(r, r.now, old, at) :
         w = [r EXCEPT !.now = BumpedUnless(FALSE, n, old), !.arch = A]
  BY <1>5 DEF ReplaceOutcomes
<1>7. w \in EditOf(r, old, FALSE)
  BY <1>1, <1>4, <1>6, EditLemma
<1>8. w.arch = A
  BY <1>6 DEF Record
<1>9. A \subseteq r.arch \cup {new}
  BY NewestIsSubset, KeepAssumption DEF Archived
<1>10. \A s \in A \ r.arch : s.was = r.now /\ s.rev = old
  BY <1>9
<1>11. QED
  BY <1>7, <1>8, <1>10

(* The same of update_product_metadata. *)
LEMMA PatchArchives ==
    ASSUME NEW r \in Record, NEW old \in Nat, NEW at \in Nat,
           NEW m, NEW w \in PatchOutcomes(r, old, at, m)
    PROVE  \A s \in w.arch \ r.arch : s.was = r.now /\ s.rev = old
<1> DEFINE new == [rev |-> old, was |-> r.now, at |-> at]
<1>1. PICK A \in Archived(r, r.now, old, at) :
         w = [r EXCEPT !.now = Bumped(Patched(r.now, m), old), !.arch = A]
  BY DEF PatchOutcomes
<1>2. w.arch = A
  BY <1>1 DEF Record
<1>3. A \subseteq r.arch \cup {new}
  BY NewestIsSubset, KeepAssumption DEF Archived
<1>4. QED
  BY <1>2, <1>3

(* Archives are finite. *)
LEMMA ArchivedFinite ==
    ASSUME NEW r, IsFiniteSet(r.arch), NEW n, NEW old, NEW at,
           NEW A \in Archived(r, n, old, at)
    PROVE  IsFiniteSet(A)
<1> DEFINE new == [rev |-> old, was |-> n, at |-> at]
<1>1. IsFiniteSet(r.arch \cup {new})
  BY FS_AddElement
<1>2. A \subseteq r.arch \cup {new}
  BY DEF Archived, Newest
<1>3. QED
  BY <1>1, <1>2, FS_Subset

(* A snapshot that is not there after pruning had to make room for as many as
   are kept, none of them older. *)
LEMMA ArchivedOrOldest ==
    ASSUME NEW r, IsFiniteSet(r.arch), NEW n, NEW old, NEW at,
           NEW A \in Archived(r, n, old, at)
    PROVE  \/ [rev |-> old, was |-> n, at |-> at] \in A
           \/ Cardinality(A) = Keep /\ \A s \in A : s.at >= at
<1> DEFINE new == [rev |-> old, was |-> n, at |-> at]
           S   == r.arch \cup {new}
<1>a. new.at = at
  OBVIOUS
<1>1. A \in Newest(S, Keep)
  BY DEF Archived
<1> HIDE DEF new
<1>2. IsFiniteSet(S) /\ new \in S
  BY FS_AddElement
<1>3. /\ A \subseteq S
      /\ Cardinality(A) = IF Cardinality(S) <= Keep THEN Cardinality(S) ELSE Keep
      /\ \A x \in A, y \in S \ A : x.at >= y.at
  BY <1>1 DEF Newest
<1>4. ASSUME new \notin A
      PROVE  Cardinality(A) = Keep /\ \A s \in A : s.at >= at
  <2>1. Cardinality(A) # Cardinality(S)
    BY <1>2, <1>3, <1>4, FS_Subset
  <2>2. QED
    BY <1>2, <1>3, <1>4, <1>a, <2>1
<1>5. QED
  BY <1>4 DEF new

(* What an approved UPDATE archives. *)
LEMMA ReplacementKept ==
    ASSUME NEW r \in Record, IsFiniteSet(r.arch), NEW old, NEW at, NEW id,
           NEW q, NEW w \in ReplaceOutcomes(r, old, at, id, q)
    PROVE  /\ IsFiniteSet(w.arch)
           /\ \/ [rev |-> old, was |-> r.now, at |-> at] \in w.arch
              \/ Cardinality(w.arch) = Keep /\ \A s \in w.arch : s.at >= at
<1>1. PICK n, A : A \in Archived(r, r.now, old, at) /\ w = [r EXCEPT !.now = n, !.arch = A]
  BY DEF ReplaceOutcomes
<1>2. w.arch = A
  BY <1>1 DEF Record
<1>3. QED
  BY <1>1, <1>2, ArchivedFinite, ArchivedOrOldest

-----------------------------------------------------------------------------
(* The content that the snapshot of an edit holds: add_activity and
   update_activity take it after their change, the others before. *)
Pictured(op, r, w) ==
    IF op \in {"add", "update"} THEN [w.now EXCEPT !.rev = r.now.rev] ELSE r.now

(* Pruning removes nothing while there is room, and as much as it must when
   there is not: the new snapshot is no row that was there. *)
LEMMA ArchivedKeeps ==
    ASSUME NEW r, IsFiniteSet(r.arch), Cardinality(r.arch) <= Keep,
           NEW n, NEW o, NEW at, \A s \in r.arch : s.at # at,
           NEW A \in Archived(r, n, o, at)
    PROVE  LET new == [rev |-> o, was |-> n, at |-> at]
           IN  /\ A \subseteq r.arch \cup {new}
               /\ IsFiniteSet(A)
               /\ Cardinality(A) <= Keep
               /\ Cardinality(A) < Keep => A = r.arch \cup {new}
<1> DEFINE new == [rev |-> o, was |-> n, at |-> at]
           S == r.arch \cup {new}
<1>1. new \notin r.arch
  <2>1. new.at = at
    OBVIOUS
  <2>2. QED
    BY <2>1
<1>2. A \in Newest(S, Keep)
  BY DEF Archived
<1> HIDE DEF new
<1>3. /\ IsFiniteSet(S) /\ Cardinality(S) = Cardinality(r.arch) + 1
      /\ Cardinality(S) \in Nat
  BY <1>1, FS_AddElement, FS_CardinalityType
<1>4. /\ A \subseteq S
      /\ Cardinality(A) = IF Cardinality(S) <= Keep THEN Cardinality(S) ELSE Keep
  BY <1>2 DEF Newest
<1>5. IsFiniteSet(A)
  BY <1>3, <1>4, FS_Subset
<1>6. Cardinality(A) <= Keep
  BY <1>3, <1>4, KeepAssumption
<1>7. Cardinality(A) < Keep => A = S
  <2>1. Cardinality(A) < Keep => Cardinality(A) = Cardinality(S)
    BY <1>4, KeepAssumption
  <2>2. QED
    BY <1>3, <1>4, <2>1, FS_Subset
<1>8. QED
  BY <1>4, <1>5, <1>6, <1>7 DEF new

(* add_activity adds one activity, after all others, and changes none. *)
LEMMA AddedComesLast ==
    ASSUME NEW r \in Record, NEW o, NEW at, NEW id, NEW v, NEW skip,
           NEW w \in AddOutcomes(r, o, at, id, v, skip)
    PROVE  \E a \in w.now.acts :
              /\ a \notin r.now.acts
              /\ w.now.acts = r.now.acts \cup {a}
              /\ \A b \in r.now.acts : b.ord < a.ord
<1> DEFINE n(p) == WithActivity(r.now, id, v, p)
           of(p) == {[r EXCEPT !.now = BumpedUnless(skip, n(p), o), !.arch = A] :
                        A \in Archived(r, n(p), o, at)}
<1>1. w \in UNION {of(p) : p \in NextOrders(r.now.acts)}
  BY DEF AddOutcomes
<1>2. PICK p \in NextOrders(r.now.acts) : w \in of(p)
  BY <1>1
<1>3. PICK A : w = [r EXCEPT !.now = BumpedUnless(skip, n(p), o), !.arch = A]
  BY <1>2
<1>4. r.now \in Content /\ r.now.acts \in SUBSET Activity
  BY DEF Record, Content
<1>5. w.now.acts = r.now.acts \cup {[id |-> id, val |-> v, ord |-> p]}
  BY <1>3, <1>4 DEF BumpedUnless, Bumped, WithActivity, Content, Record
<1>6. \A b \in r.now.acts : b.ord < p /\ b.ord \in Nat
  BY <1>4, NextOrderIsLarger DEF Activity
<1>7. p \in Nat
  BY <1>4, NextOrderIsLarger
<1>8. [id |-> id, val |-> v, ord |-> p] \notin r.now.acts
  BY <1>6, <1>7
<1>9. QED
  BY <1>5, <1>6, <1>8

(* Every handler archives once, under the revision it was given and with the
   start of its transaction. *)
LEMMA OutcomesArchive ==
    ASSUME NEW r \in Record, NEW o \in Nat, NEW at \in Nat, NEW id \in Nat,
           NEW v \in Vals \cup {Unset}, NEW skip \in BOOLEAN, NEW m, NEW q, NEW w
    PROVE  /\ w \in PatchOutcomes(r, o, at, m) =>
                 w.arch \in Archived(r, Pictured("patch", r, w), o, at)
           /\ w \in AddOutcomes(r, o, at, id, v, skip) =>
                 w.arch \in Archived(r, Pictured("add", r, w), o, at)
           /\ \A pl \in Placings({id}) : w \in UpdateOutcomes(r, o, at, id, v, pl, skip) =>
                 w.arch \in Archived(r, Pictured("update", r, w), o, at)
           /\ w \in DeleteOutcomes(r, o, at, id, skip) =>
                 w.arch \in Archived(r, Pictured("delete", r, w), o, at)
           /\ \A pl : w \in BulkOutcomes(r, o, at, id, q, pl) =>
                 w.arch \in Archived(r, Pictured("bulk", r, w), o, at)
<1>t. r.now \in Content /\ r.now.acts \in SUBSET Activity
  BY DEF Record, Content
<1>w. \A x, A : [r EXCEPT !.now = x, !.arch = A].arch = A /\ [r EXCEPT !.now = x, !.arch = A].now = x
  BY DEF Record
<1>p. ASSUME NEW op \in {"patch", "delete", "bulk"} PROVE Pictured(op, r, w) = r.now
  BY DEF Pictured
<1>1. ASSUME w \in PatchOutcomes(r, o, at, m)
      PROVE  w.arch \in Archived(r, Pictured("patch", r, w), o, at)
  <2>1. PICK A \in Archived(r, r.now, o, at) :
           w = [r EXCEPT !.now = Bumped(Patched(r.now, m), o), !.arch = A]
    BY <1>1 DEF PatchOutcomes
  <2>2. QED
    BY <2>1, <1>w, <1>p
<1>a. ASSUME NEW n \in Content, n.rev = r.now.rev
      PROVE  [BumpedUnless(skip, n, o) EXCEPT !.rev = r.now.rev] = n
  BY <1>a DEF BumpedUnless, Bumped, NextRevision, Content
<1>2. ASSUME w \in AddOutcomes(r, o, at, id, v, skip)
      PROVE  w.arch \in Archived(r, Pictured("add", r, w), o, at)
  <2> DEFINE n(k) == WithActivity(r.now, id, v, k)
             of(k) == {[r EXCEPT !.now = BumpedUnless(skip, n(k), o), !.arch = A] :
                          A \in Archived(r, n(k), o, at)}
  <2>1. w \in UNION {of(k) : k \in NextOrders(r.now.acts)}
    BY <1>2 DEF AddOutcomes
  <2>2. PICK k \in NextOrders(r.now.acts) : w \in of(k)
    BY <2>1
  <2>3. PICK A \in Archived(r, n(k), o, at) :
           w = [r EXCEPT !.now = BumpedUnless(skip, n(k), o), !.arch = A]
    BY <2>2
  <2>4. n(k) \in Content /\ n(k).rev = r.now.rev
    BY <1>t, NextOrderIsLarger, ContentTypes DEF WithActivity, Content
  <2> HIDE DEF n
  <2>5. w.now = BumpedUnless(skip, n(k), o) /\ w.arch = A
    BY <2>3, <1>w
  <2>6. Pictured("add", r, w) = n(k)
    BY <2>4, <2>5, <1>a DEF Pictured
  <2>7. QED
    BY <2>3, <2>5, <2>6
<1>3. ASSUME NEW pl \in Placings({id}), w \in UpdateOutcomes(r, o, at, id, v, pl, skip)
      PROVE  w.arch \in Archived(r, Pictured("update", r, w), o, at)
  <2> DEFINE n == [r.now EXCEPT !.acts = Revalued(@, {id}, v, pl)]
  <2>1. PICK A \in Archived(r, n, o, at) :
           w = [r EXCEPT !.now = BumpedUnless(skip, n, o), !.arch = A]
    BY <1>3 DEF UpdateOutcomes
  <2>2. Revalued(r.now.acts, {id}, v, pl) \in SUBSET Activity
    BY <1>t, RevaluedType
  <2>3. n \in Content /\ n.rev = r.now.rev
    BY <1>t, <2>2 DEF Content
  <2> HIDE DEF n
  <2>4. w.now = BumpedUnless(skip, n, o) /\ w.arch = A
    BY <2>1, <1>w
  <2>5. Pictured("update", r, w) = n
    BY <2>3, <2>4, <1>a DEF Pictured
  <2>6. QED
    BY <2>1, <2>4, <2>5
<1>4. ASSUME w \in DeleteOutcomes(r, o, at, id, skip)
      PROVE  w.arch \in Archived(r, Pictured("delete", r, w), o, at)
  <2> DEFINE n == [r.now EXCEPT !.acts = Without(@, {id})]
  <2>1. PICK A \in Archived(r, r.now, o, at) :
           w = [r EXCEPT !.now = BumpedUnless(skip, n, o), !.arch = A]
    BY <1>4 DEF DeleteOutcomes
  <2>2. QED
    BY <2>1, <1>w, <1>p
<1>5. ASSUME NEW pl, w \in BulkOutcomes(r, o, at, id, q, pl)
      PROVE  w.arch \in Archived(r, Pictured("bulk", r, w), o, at)
  <2> DEFINE n == [Patched(r.now, q.meta) EXCEPT
                      !.acts = Revalued(Without(@, q.del), q.upd, q.val, pl)
                                 \cup Listed(id, q.adds, q.val, pl)]
  <2>1. PICK A \in Archived(r, r.now, o, at) :
           w = [r EXCEPT !.now = Bumped(n, o), !.arch = A]
    BY <1>5 DEF BulkOutcomes
  <2> HIDE DEF n
  <2>2. QED
    BY <2>1, <1>w, <1>p
<1>6. QED
  BY <1>1, <1>2, <1>3, <1>4, <1>5
=============================================================================
