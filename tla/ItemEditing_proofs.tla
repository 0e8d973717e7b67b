------------------------ MODULE ItemEditing_proofs -------------------------
(***************************************************************************)
(* Theorems about ItemEditing, for every number of clients and items.      *)
(*                                                                         *)
(*   1. types                                                              *)
(*   2. the row lock, and the bound of the archive                         *)
(*   3. the optimistic check of bulk_update_item                           *)
(*   4. ItemEditing implements AtomicEditing                               *)
(*   5. the history of an item: snapshots, revisions, log entries          *)
(***************************************************************************)
EXTENDS ItemEditing, ItemRecord_proofs

(* TypeOK alone is not inductive: the second statement of GET updates a view
   that must not be Unread any more. *)
HalfRead ==
    \A c \in Clients : pc[c] = "get" => view[c][req[c].item] \in Content

TypeInv == TypeOK /\ HalfRead

-----------------------------------------------------------------------------
LEMMA BlankType == \A i \in Items : Blank(i) \in Request
<1>1. {} \in SUBSET Nat
  OBVIOUS
<1>2. QED
  BY <1>1 DEF Blank, Request

LEMMA AbsentType == Absent \in Record /\ Cardinality(Absent.arch) = 0
<1>1. NoContent \in Content
  BY DEF NoContent, Content
<1>2. {} \in SUBSET Snapshot
  OBVIOUS
<1>3. QED
  BY <1>1, <1>2, FS_EmptySet DEF Absent, Record

LEMMA NoRequestType == NoRequest \in Request
<1>1. (CHOOSE i \in Items : TRUE) \in Items
  BY ItemsAssumption
<1>2. QED
  BY <1>1, BlankType DEF NoRequest

(* Only the three activity handlers read skip_revision, so no other request
   carries it. *)
Sent == {r \in Request : /\ r.skip \in Skips \cup {FALSE}
                         /\ r.op \in {"patch", "bulk", "rename", "remove"} => r.skip = FALSE}

(* Whatever clients send is a request: the activity ids and the expected
   revision come out of what they have read. *)
LEMMA RequestTypes ==
    ASSUME TypeOK, NEW c \in Clients
    PROVE  /\ Edits(c) \subseteq Sent
           /\ \A i \in Items : Creates(i) \subseteq Sent
<1>1. \A i \in Items : KnownIds(c, i) \subseteq Nat
  <2> TAKE i \in Items
  <2>1. view[c][i] # Unread => view[c][i] \in Content
    BY DEF TypeOK
  <2>2. QED
    BY <2>1 DEF KnownIds, Ids, Content, Activity
<1>2. \A i \in Items : Patches(i) \subseteq Sent
  <2> TAKE i \in Items
  <2>1. ASSUME NEW m \in Metas
        PROVE  [Blank(i) EXCEPT !.op = "patch", !.meta = m] \in Sent
    <3>1. {} \in SUBSET Nat
      OBVIOUS
    <3>2. QED
      BY <3>1 DEF Blank, Request, OpNames, Sent
  <2>2. QED
    BY <2>1 DEF Patches
<1>3. \A i \in Items : Adds(i) \subseteq Sent
  <2> TAKE i \in Items
  <2> DEFINE q(v, s) == [Blank(i) EXCEPT !.op = "add", !.val = v, !.skip = s]
  <2>1. ASSUME NEW v \in Vals, NEW s \in Skips
        PROVE  q(v, s) \in Sent
    <3>1. {} \in SUBSET Nat
      OBVIOUS
    <3>2. QED
      BY <3>1, SkipsAssumption DEF Blank, Request, OpNames, Sent
  <2>2. Adds(i) = {q(v, s) : v \in Vals, s \in Skips}
    BY DEF Adds
  <2> HIDE DEF q
  <2>3. QED
    BY <2>1, <2>2
<1>4. \A i \in Items : Updates(c, i) \subseteq Sent
  <2> TAKE i \in Items
  <2> DEFINE q(v, s, a) == [Blank(i) EXCEPT !.op = "update", !.val = v, !.skip = s, !.act = a]
  <2>1. ASSUME NEW v \in Vals, NEW s \in Skips, NEW a \in KnownIds(c, i)
        PROVE  q(v, s, a) \in Sent
    <3>1. {} \in SUBSET Nat
      OBVIOUS
    <3>2. QED
      BY <3>1, <1>1, SkipsAssumption DEF Blank, Request, OpNames, Sent
  <2>2. Updates(c, i) = {q(v, s, a) : v \in Vals, s \in Skips, a \in KnownIds(c, i)}
    BY DEF Updates
  <2> HIDE DEF q
  <2>3. QED
    BY <2>1, <2>2
<1>5. \A i \in Items : Deletes(c, i) \subseteq Sent
  <2> TAKE i \in Items
  <2> DEFINE q(s, a) == [Blank(i) EXCEPT !.op = "delete", !.skip = s, !.act = a]
  <2>1. ASSUME NEW s \in Skips, NEW a \in KnownIds(c, i)
        PROVE  q(s, a) \in Sent
    <3>1. {} \in SUBSET Nat
      OBVIOUS
    <3>2. QED
      BY <3>1, <1>1, SkipsAssumption DEF Blank, Request, OpNames, Sent
  <2>2. Deletes(c, i) = {q(s, a) : s \in Skips, a \in KnownIds(c, i)}
    BY DEF Deletes
  <2> HIDE DEF q
  <2>3. QED
    BY <2>1, <2>2
<1>6. \A i \in Items : Bulks(c, i) \subseteq Sent
  <2> TAKE i \in Items
  <2>1. CASE view[c][i] = Unread
    BY <2>1 DEF Bulks
  <2>2. CASE view[c][i] # Unread
    <3>1. view[c][i].rev \in Nat
      BY <2>2 DEF TypeOK, Content
    <3>2. KnownIdSets(c, i) \subseteq SUBSET Nat
      BY IdSetsAssumption DEF KnownIdSets
    <3> DEFINE ask(q) == [Blank(i) EXCEPT !.op = "bulk", !.meta = q.meta,
                                   !.val = q.val, !.del = q.del, !.upd = q.upd,
                                   !.adds = q.adds, !.expect = view[c][i].rev]
    <3>3. ASSUME NEW q \in BulkChanges(c, i)
          PROVE  ask(q) \in Sent
      <4>1. /\ q.del \in SUBSET Nat /\ q.upd \in SUBSET Nat /\ q.adds \in Nat
            /\ q.meta \in Metas \cup {Unset} /\ q.val \in Vals \cup {Unset}
        BY <3>2, BoundsAssumption DEF BulkChanges
      <4>2. QED
        BY <3>1, <4>1 DEF Blank, Request, OpNames, Sent
    <3>4. Bulks(c, i) = {ask(q) : q \in BulkChanges(c, i)}
      BY <2>2 DEF Bulks
    <3> HIDE DEF ask
    <3>5. QED
      BY <3>3, <3>4
  <2>3. QED
    BY <2>1, <2>2
<1>7. \A i \in Items : Creates(i) \subseteq Sent
  <2> TAKE i \in Items
  <2> DEFINE q(m, v, n) == [Blank(i) EXCEPT !.op = "create", !.meta = m, !.val = v, !.adds = n]
  <2>1. ASSUME NEW m \in Metas, NEW v \in Vals, NEW n \in 0..MaxAdds
        PROVE  q(m, v, n) \in Sent
    <3>1. {} \in SUBSET Nat /\ n \in Nat
      BY BoundsAssumption
    <3>2. QED
      BY <3>1 DEF Blank, Request, OpNames, Sent
  <2>2. Creates(i) = {q(m, v, n) : m \in Metas, v \in Vals, n \in 0..MaxAdds}
    BY DEF Creates
  <2> HIDE DEF q
  <2>3. QED
    BY <2>1, <2>2
<1>8. \A i \in Items : Renames(i) \subseteq Sent
  <2> TAKE i \in Items
  <2>1. ASSUME NEW m \in Metas
        PROVE  [Blank(i) EXCEPT !.op = "rename", !.meta = m] \in Sent
    <3>1. {} \in SUBSET Nat
      OBVIOUS
    <3>2. QED
      BY <3>1 DEF Blank, Request, OpNames, Sent
  <2>2. QED
    BY <2>1 DEF Renames
<1>9. \A i \in Items : Removes(i) \subseteq Sent
  <2> TAKE i \in Items
  <2>1. {} \in SUBSET Nat
    OBVIOUS
  <2>2. [Blank(i) EXCEPT !.op = "remove"] \in Sent
    BY <2>1 DEF Blank, Request, OpNames, Sent
  <2>3. QED
    BY <2>2 DEF Removes
<1>10. QED
  BY <1>2, <1>3, <1>4, <1>5, <1>6, <1>7, <1>8, <1>9 DEF Edits

LEMMA CreateRequest == \A i \in Items : \A r \in Creates(i) : r.op = "create"
<1> TAKE i \in Items
<1> DEFINE ask(m, v, n) ==
        [Blank(i) EXCEPT !.op = "create", !.meta = m, !.val = v, !.adds = n]
<1>1. \A m \in Metas, v \in Vals, n \in 0..MaxAdds : ask(m, v, n).op = "create"
  BY DEF Blank
<1>2. Creates(i) = {ask(m, v, n) : m \in Metas, v \in Vals, n \in 0..MaxAdds}
  BY DEF Creates
<1> HIDE DEF ask
<1>3. QED
  BY <1>1, <1>2

LEMMA ChangeType == \A r \in Request : IsPayload(r) /\ IsChange(r)
  BY DEF Request, IsPayload, IsChange

(* Returning from a handler, and giving back a row lock, keep the types. *)
LEMMA FinishType ==
    ASSUME TypeOK, NEW c \in Clients, Finish(c)
    PROVE  /\ pc' \in [Clients -> PCs]
           /\ req' \in [Clients -> Request]
           /\ start' \in [Clients -> Nat]
           /\ old' \in [Clients -> Nat]
           /\ work' \in [Clients -> Record]
           /\ pc'[c] = "idle"
           /\ \A d \in Clients \ {c} : pc'[d] = pc[d] /\ req'[d] = req[d]
  BY NoRequestType, AbsentType DEF TypeOK, Finish, Goto, PCs

LEMMA ReleaseType ==
    ASSUME TypeOK, NEW c \in Clients, Release(c)
    PROVE  owner' \in [Items -> Clients \cup {NoClient}]
  BY DEF TypeOK, Release
-----------------------------------------------------------------------------
(* An action that leaves the views alone and only moves its own client, to
   any place but "get", keeps HalfRead. *)
LEMMA HalfReadKept ==
    ASSUME TypeOK, HalfRead, NEW c \in Clients, view' = view,
           pc'[c] # "get",
           \A d \in Clients \ {c} : pc'[d] = pc[d] /\ req'[d] = req[d]
    PROVE  HalfRead'
  BY DEF HalfRead

LEMMA TypeInit == Init => TypeInv
<1> SUFFICES ASSUME Init PROVE TypeInv
  OBVIOUS
<1>1. TypeOK
  BY NoRequestType, AbsentType, SeedAssumption, BoundsAssumption
  DEF Init, TypeOK, PCs
<1>2. HalfRead
  BY DEF Init, HalfRead
<1>3. QED
  BY <1>1, <1>2 DEF TypeInv

LEMMA TypeStep == TypeInv /\ [Next]_vars => TypeInv'
<1> SUFFICES ASSUME TypeInv, [Next]_vars PROVE TypeInv'
  OBVIOUS
<1> USE DEF TypeInv
<1>1. ASSUME NEW c \in Clients, view' = view, pc'[c] # "get",
             \A d \in Clients \ {c} : pc'[d] = pc[d] /\ req'[d] = req[d]
      PROVE  HalfRead'
  BY <1>1, HalfReadKept
<1>2. CASE UNCHANGED vars
  BY <1>2 DEF vars, TypeOK, HalfRead
<1>3. ASSUME NEW c \in Clients, NEW i \in Items, ReadRow(c, i) PROVE TypeInv'
  <2>1. db[i].now \in Content
    BY DEF TypeOK, Record
  <2>2. [db[i].now EXCEPT !.acts = {}] \in Content
    BY <2>1 DEF Content
  <2>3. [Blank(i) EXCEPT !.op = "get"] \in Request
        /\ [Blank(i) EXCEPT !.op = "get"].item = i
    BY BlankType DEF Request, OpNames, Blank
  <2>4. TypeOK'
    BY <1>3, <2>2, <2>3 DEF TypeOK, ReadRow, Goto, PCs
  <2>5. HalfRead'
    BY <1>3, <2>2, <2>3 DEF TypeOK, HalfRead, ReadRow, Goto
  <2>6. QED
    BY <2>4, <2>5
<1>4. ASSUME NEW c \in Clients, ReadActivities(c) PROVE TypeInv'
  <2> DEFINE i == req[c].item
  <2>1. i \in Items /\ view[c][i] \in Content
    BY <1>4 DEF TypeOK, Request, HalfRead, ReadActivities
  <2>2. db[i].now.acts \in SUBSET Activity
    BY <2>1 DEF TypeOK, Record, Content
  <2>3. [view[c][i] EXCEPT !.acts = db[i].now.acts] \in Content
    BY <2>1, <2>2 DEF Content
  <2>4. view' \in [Clients -> [Items -> Content \cup {Unread}]]
    BY <1>4, <2>1, <2>3 DEF TypeOK, ReadActivities
  <2>5. \A d \in Clients \ {c} : view'[d] = view[d]
    BY <1>4 DEF TypeOK, ReadActivities
  <2>6. Finish(c) /\ UNCHANGED <<db, owner, clock, nextId, audit, blind>>
    BY <1>4 DEF ReadActivities
  <2>7. TypeOK'
    BY <2>4, <2>6, FinishType DEF TypeOK
  <2>8. HalfRead'
    BY <2>5, <2>6, FinishType DEF HalfRead
  <2>9. QED
    BY <2>7, <2>8
<1>5. ASSUME NEW c \in Clients, NEW r \in Edits(c), Begin(c, r) PROVE TypeInv'
  <2>1. r \in Request
    BY RequestTypes DEF Sent
  <2>2. TypeOK'
    BY <1>5, <2>1 DEF TypeOK, Begin, Goto, PCs
  <2>3. HalfRead'
    BY <1>5, <1>1 DEF TypeOK, Begin, Goto
  <2>4. QED
    BY <2>2, <2>3
<1>6. ASSUME NEW c \in Clients, NEW i \in Items, NEW r \in Creates(i),
             CheckDuplicate(c, r)
      PROVE  TypeInv'
  <2>1. r \in Request
    BY RequestTypes DEF Sent
  <2>2. TypeOK'
    BY <1>6, <2>1 DEF TypeOK, CheckDuplicate, Goto, PCs
  <2>3. HalfRead'
    BY <1>6, <1>1 DEF TypeOK, CheckDuplicate, Goto
  <2>4. QED
    BY <2>2, <2>3
<1>7. ASSUME NEW c \in Clients, Lock(c) PROVE TypeInv'
  <2>1. req[c].item \in Items /\ db[req[c].item].now.rev \in Nat
    BY DEF TypeOK, Request, Record, Content
  <2>2. TypeOK'
    BY <1>7, <2>1 DEF TypeOK, Lock, Goto, PCs
  <2>3. HalfRead'
    BY <1>7, <1>1 DEF TypeOK, Lock, Goto
  <2>4. QED
    BY <2>2, <2>3
<1>8. ASSUME NEW c \in Clients, ApplyPatch(c) PROVE TypeInv'
  <2>1. req[c] \in Request /\ db[req[c].item] \in Record /\ req[c].item \in Items
        /\ old[c] \in Nat /\ start[c] \in Nat
    BY DEF TypeOK, Request
  <2>2. PatchOutcomes(db[req[c].item], old[c], start[c], req[c].meta) \subseteq Record
    BY <2>1, PatchLemma DEF EditOf, Request
  <2>3. TypeOK'
    BY <1>8, <2>1, <2>2 DEF TypeOK, ApplyPatch, Applying, Goto, PCs, Request
  <2>4. HalfRead'
    BY <1>8, <1>1 DEF TypeOK, ApplyPatch, Applying, Goto, PCs
  <2>5. QED
    BY <2>3, <2>4 DEF TypeInv
<1>9. ASSUME NEW c \in Clients, ApplyAdd(c) PROVE TypeInv'
  <2>1. req[c] \in Request /\ db[req[c].item] \in Record /\ req[c].item \in Items
        /\ old[c] \in Nat /\ start[c] \in Nat
    BY DEF TypeOK, Request
  <2>2. AddOutcomes(db[req[c].item], old[c], start[c], nextId, req[c].val, req[c].skip) \subseteq Record
    BY <2>1, AddLemma DEF EditOf, Request, TypeOK
  <2>3. TypeOK'
    BY <1>9, <2>1, <2>2 DEF TypeOK, ApplyAdd, Applying, Goto, PCs, Request
  <2>4. HalfRead'
    BY <1>9, <1>1 DEF TypeOK, ApplyAdd, Applying, Goto, PCs
  <2>5. QED
    BY <2>3, <2>4 DEF TypeInv
<1>10. ASSUME NEW c \in Clients, ApplyUpdate(c) PROVE TypeInv'
  <2>1. req[c] \in Request /\ db[req[c].item] \in Record /\ req[c].item \in Items
        /\ old[c] \in Nat /\ start[c] \in Nat
    BY DEF TypeOK, Request
  <2>2. \A pl \in Placings({req[c].act}) :
           UpdateOutcomes(db[req[c].item], old[c], start[c], req[c].act, req[c].val, pl, req[c].skip)
              \subseteq Record
    BY <2>1, UpdateLemma DEF EditOf, Request
  <2>3. TypeOK'
    BY <1>10, <2>1, <2>2 DEF TypeOK, ApplyUpdate, Applying, Goto, PCs, Request
  <2>4. HalfRead'
    BY <1>10, <1>1 DEF TypeOK, ApplyUpdate, Applying, Goto, PCs
  <2>5. QED
    BY <2>3, <2>4 DEF TypeInv
<1>11. ASSUME NEW c \in Clients, ApplyDelete(c) PROVE TypeInv'
  <2>1. req[c] \in Request /\ db[req[c].item] \in Record /\ req[c].item \in Items
        /\ old[c] \in Nat /\ start[c] \in Nat
    BY DEF TypeOK, Request
  <2>2. DeleteOutcomes(db[req[c].item], old[c], start[c], req[c].act, req[c].skip) \subseteq Record
    BY <2>1, DeleteLemma DEF EditOf, Request
  <2>3. TypeOK'
    BY <1>11, <2>1, <2>2 DEF TypeOK, ApplyDelete, Applying, Goto, PCs, Request
  <2>4. HalfRead'
    BY <1>11, <1>1 DEF TypeOK, ApplyDelete, Applying, Goto, PCs
  <2>5. QED
    BY <2>3, <2>4 DEF TypeInv
<1>12. ASSUME NEW c \in Clients, ApplyBulk(c) PROVE TypeInv'
  <2>1. req[c] \in Request /\ db[req[c].item] \in Record /\ req[c].item \in Items
        /\ old[c] \in Nat /\ start[c] \in Nat
    BY DEF TypeOK, Request
  <2>2. \A pl \in Placings(req[c].upd \cup NewIds(nextId, req[c].adds)) :
           BulkOutcomes(db[req[c].item], old[c], start[c], nextId, req[c], pl) \subseteq Record
    BY <2>1, BulkLemma, ChangeType DEF EditOf, Request, TypeOK
  <2>3. /\ \E w \in Record : work' = [work EXCEPT ![c] = w]
        /\ nextId' = nextId + req[c].adds /\ Goto(c, "log")
        /\ UNCHANGED <<db, owner, clock, req, start, old, view, audit, blind>>
    BY <1>12, <2>2 DEF ApplyBulk
  <2>4. req[c].adds \in Nat
    BY <2>1 DEF Request
  <2>5. TypeOK'
    BY <2>3, <2>4 DEF TypeOK, Goto, PCs
  <2>6. HalfRead'
    BY <2>3, <1>1 DEF TypeOK, Goto
  <2>7. QED
    BY <2>5, <2>6 DEF TypeInv
<1>13. ASSUME NEW c \in Clients, ActivityMissing(c) PROVE TypeInv'
  <2>1. Finish(c) /\ Release(c) /\ UNCHANGED <<db, clock, nextId, view, audit, blind>>
    BY <1>13 DEF ActivityMissing
  <2>2. TypeOK'
    BY <2>1, FinishType, ReleaseType DEF TypeOK
  <2>3. HalfRead'
    BY <2>1, <1>1, FinishType
  <2>4. QED
    BY <2>2, <2>3
<1>14. ASSUME NEW c \in Clients, BulkConflict(c) PROVE TypeInv'
  <2>1. Finish(c) /\ Release(c) /\ UNCHANGED <<db, clock, nextId, view, audit, blind>>
    BY <1>14 DEF BulkConflict
  <2>2. TypeOK'
    BY <2>1, FinishType, ReleaseType DEF TypeOK
  <2>3. HalfRead'
    BY <2>1, <1>1, FinishType
  <2>4. QED
    BY <2>2, <2>3
<1>15. ASSUME NEW c \in Clients, Abort(c) PROVE TypeInv'
  <2>1. Finish(c) /\ Release(c) /\ UNCHANGED <<db, clock, nextId, view, audit, blind>>
    BY <1>15 DEF Abort
  <2>2. TypeOK'
    BY <2>1, FinishType, ReleaseType DEF TypeOK
  <2>3. HalfRead'
    BY <2>1, <1>1, FinishType
  <2>4. QED
    BY <2>2, <2>3
<1>16. ASSUME NEW c \in Clients, WriteAudit(c) PROVE audit' \subseteq AuditEntry
  <2>1. req[c].item \in Items /\ start[c] \in Nat /\ work[c].now.rev \in Nat
    BY DEF TypeOK, Request, Record, Content
  <2>2. QED
    BY <1>16, <2>1 DEF TypeOK, WriteAudit, AuditEntry
<1>17. ASSUME NEW c \in Clients, LogEdit(c) PROVE TypeInv'
  <2>1. audit' \subseteq AuditEntry
    BY <1>16, <1>17 DEF LogEdit
  <2>2. TypeOK'
    BY <1>17, <2>1 DEF TypeOK, LogEdit, Goto, PCs
  <2>3. HalfRead'
    BY <1>17, <1>1 DEF TypeOK, LogEdit, Goto
  <2>4. QED
    BY <2>2, <2>3
<1>18. ASSUME NEW c \in Clients, LogCreate(c) PROVE TypeInv'
  <2>1. audit' \subseteq AuditEntry
    BY <1>16, <1>18 DEF LogCreate
  <2>2. Finish(c) /\ UNCHANGED <<db, owner, clock, nextId, view, blind>>
    BY <1>18 DEF LogCreate
  <2>3. TypeOK'
    BY <2>1, <2>2, FinishType DEF TypeOK
  <2>4. HalfRead'
    BY <2>2, <1>1, FinishType
  <2>5. QED
    BY <2>3, <2>4
<1>19. ASSUME NEW c \in Clients, CommitEdit(c) PROVE TypeInv'
  <2>1. Finish(c) /\ Release(c) /\ UNCHANGED <<clock, nextId, view, audit>>
        /\ db' = [db EXCEPT ![req[c].item] = work[c]]
    BY <1>19 DEF CommitEdit
  <2>2. db' \in [Items -> Record]
    BY <2>1 DEF TypeOK
  <2>3. blind' \in [Clients -> SUBSET Items]
    <3>1. req[c].item \in Items
      BY DEF TypeOK, Request
    <3>2. QED
      BY <1>19, <3>1 DEF TypeOK, CommitEdit
  <2>4. TypeOK'
    BY <2>1, <2>2, <2>3, FinishType, ReleaseType DEF TypeOK
  <2>5. HalfRead'
    BY <2>1, <1>1, FinishType
  <2>6. QED
    BY <2>4, <2>5
<1>20. ASSUME NEW c \in Clients, InsertProduct(c) PROVE TypeInv'
  <2>1. req[c] \in Request /\ req[c].item \in Items /\ req[c].adds \in Nat
        /\ db[req[c].item] \in Record /\ nextId \in Nat
    BY DEF TypeOK, Request
  <2>2. \A pl \in Placings(NewIds(nextId, req[c].adds)) :
           Created(db[req[c].item], nextId, req[c], pl) \in Record
    BY <2>1, ChangeType, CreatedLemma
  <2>3. TypeOK'
    BY <1>20, <2>1, <2>2 DEF TypeOK, InsertProduct, Goto, PCs
  <2>4. HalfRead'
    BY <1>20, <1>1 DEF TypeOK, InsertProduct, Goto
  <2>5. QED
    BY <2>3, <2>4
<1>21. ASSUME NEW c \in Clients, InsertFails(c) PROVE TypeInv'
  <2>1. Finish(c) /\ UNCHANGED <<db, owner, clock, nextId, view, audit, blind>>
    BY <1>21 DEF InsertFails
  <2>2. TypeOK'
    BY <2>1, FinishType DEF TypeOK
  <2>3. HalfRead'
    BY <2>1, <1>1, FinishType
  <2>4. QED
    BY <2>2, <2>3
<1>22. ASSUME NEW c \in Clients, CommitCreate(c) PROVE TypeInv'
  <2>1. Release(c) /\ db' = [db EXCEPT ![req[c].item] = work[c]]
        /\ Goto(c, "created")
        /\ UNCHANGED <<clock, nextId, req, start, old, work, view, audit, blind>>
    BY <1>22 DEF CommitCreate
  <2>2. TypeOK'
    BY <2>1, ReleaseType DEF TypeOK, Goto, PCs
  <2>3. HalfRead'
    BY <2>1, <1>1 DEF TypeOK, Goto
  <2>4. QED
    BY <2>2, <2>3
<1>23. ASSUME NEW c \in Clients, RowGone(c) PROVE TypeInv'
  <2>1. Finish(c) /\ UNCHANGED <<db, owner, clock, nextId, view, audit, blind>>
    BY <1>23 DEF RowGone
  <2>2. TypeOK'
    BY <2>1, FinishType DEF TypeOK
  <2>3. HalfRead'
    BY <2>1, <1>1, FinishType
  <2>4. QED
    BY <2>2, <2>3
<1>24. ASSUME NEW c \in Clients, ApplyRename(c) PROVE TypeInv'
  <2>1. req[c] \in Request /\ db[req[c].item] \in Record
    BY DEF TypeOK, Request
  <2>2. Renamed(db[req[c].item], req[c].meta) \in Record
    BY <2>1, RenamedLemma DEF Request
  <2>3. TypeOK'
    BY <1>24, <2>2 DEF TypeOK, ApplyRename, Applying, Goto, PCs
  <2>4. HalfRead'
    BY <1>24, <1>1 DEF TypeOK, ApplyRename, Applying, Goto, PCs
  <2>5. QED
    BY <2>3, <2>4
<1>25. ASSUME NEW c \in Clients, ApplyRemove(c) PROVE TypeInv'
  <2>1. TypeOK'
    BY <1>25, AbsentType DEF TypeOK, ApplyRemove, Applying, Goto, PCs
  <2>2. HalfRead'
    BY <1>25, <1>1 DEF TypeOK, ApplyRemove, Applying, Goto, PCs
  <2>3. QED
    BY <2>1, <2>2
<1>26. QED
  BY <1>2, <1>3, <1>4, <1>5, <1>6, <1>7, <1>8, <1>9, <1>10, <1>11, <1>12,
     <1>13, <1>14, <1>15, <1>17, <1>18, <1>19, <1>20, <1>21, <1>22, <1>23,
     <1>24, <1>25
  DEF Next, Ask, Acquire, Serve

(* Every variable keeps its type: whatever requests clients send and however
   their transactions interleave. *)
THEOREM TypeCorrect == Spec => []TypeOK
<1>1. Spec => []TypeInv
  BY TypeInit, TypeStep, PTL DEF Spec
<1>2. TypeInv => TypeOK
  BY DEF TypeInv
<1>3. QED
  BY <1>1, <1>2, PTL
-----------------------------------------------------------------------------
SkipInv ==
    \A c \in Clients :
        /\ req[c].skip \in Skips \cup {FALSE}
        /\ req[c].op \in {"patch", "bulk", "rename", "remove"} => req[c].skip = FALSE

(* A step leaves every request in place, or gives one client another that
   can be sent (a fresh blank included). *)
LEMMA RequestStep ==
    ASSUME TypeOK, [Next]_vars
    PROVE  \/ req' = req
           \/ \E c \in Clients : \E r \in Sent : req' = [req EXCEPT ![c] = r]
<1>1. CASE UNCHANGED vars
  BY <1>1 DEF vars
<1>2. ASSUME NEW c \in Clients, Finish(c)
      PROVE  \E i \in Items : req' = [req EXCEPT ![c] = Blank(i)]
  BY <1>2, ItemsAssumption DEF Finish, NoRequest
<1>3. ASSUME NEW c \in Clients, NEW i \in Items, ReadRow(c, i)
      PROVE  req' = [req EXCEPT ![c] = [Blank(i) EXCEPT !.op = "get"]]
  BY <1>3 DEF ReadRow
<1>4. \A i \in Items : Blank(i) \in Sent /\ [Blank(i) EXCEPT !.op = "get"] \in Sent
  <2> TAKE i \in Items
  <2>1. {} \in SUBSET Nat
    OBVIOUS
  <2>2. QED
    BY <2>1 DEF Blank, Request, OpNames, Sent
<1>5. ASSUME NEW c \in Clients, Ask(c)
      PROVE  \E r \in Sent : req' = [req EXCEPT ![c] = r]
  BY <1>3, <1>4, <1>5, RequestTypes DEF Ask, Begin, CheckDuplicate
<1>6. ASSUME NEW c \in Clients, Acquire(c) \/ Serve(c) \/ Abort(c)
      PROVE  req' = req \/ Finish(c)
  BY <1>6 DEF Acquire, Serve, Abort, Lock, RowGone, InsertProduct, ReadActivities,
       ApplyPatch, ApplyAdd, ApplyUpdate, ApplyDelete, ActivityMissing,
       ApplyBulk, BulkConflict, ApplyRename, ApplyRemove, LogEdit, CommitEdit, InsertFails,
       CommitCreate, LogCreate
<1>7. QED
  BY <1>1, <1>2, <1>4, <1>5, <1>6 DEF Next

LEMMA SkipInvariant ==
    /\ Init => SkipInv
    /\ TypeInv /\ SkipInv /\ [Next]_vars => SkipInv'
<1>1. Init => SkipInv
  <2>1. NoRequest.skip = FALSE
    BY DEF NoRequest, Blank
  <2>2. QED
    BY <2>1 DEF Init, SkipInv
<1>2. ASSUME TypeInv, SkipInv, [Next]_vars PROVE SkipInv'
  <2>1. CASE req' = req
    BY <1>2, <2>1 DEF SkipInv
  <2>2. ASSUME NEW c \in Clients, NEW r \in Sent, req' = [req EXCEPT ![c] = r]
        PROVE  SkipInv'
    BY <1>2, <2>2 DEF TypeInv, TypeOK, SkipInv, Sent
  <2>3. QED
    BY <1>2, <2>1, <2>2, RequestStep DEF TypeInv
<1>3. QED
  BY <1>1, <1>2

-----------------------------------------------------------------------------
(***************************************************************************)
(* 2. The row lock.  What a client's transaction relies on from the        *)
(* moment it holds the lock to its commit; every other client keeps it     *)
(* true, since whoever commits a change to an item holds the lock of that  *)
(* item.                                                                   *)
(***************************************************************************)
Holding == {"apply", "log", "commit", "store"}

(* The transaction has written all it is going to write. *)
Decided(c) == pc[c] \in {"log", "commit"}

ClientInv(c) ==
    LET r == db[req[c].item]
    IN  /\ pc[c] \in Holding => owner[req[c].item] = c
        /\ Editing(c) => r.live /\ old[c] = r.now.rev
        /\ Decided(c) /\ req[c].op # "remove" => work[c] \in EditOf(r, old[c], Uncounted(req[c]))
        /\ Decided(c) /\ req[c].op = "remove" => work[c] = Absent
        /\ pc[c] = "store" => ~r.live /\ work[c].live /\ work[c].arch = r.arch

LockInv == (\A c \in Clients : ClientInv(c)) /\ ArchiveBounded

SafeInv == TypeInv /\ SkipInv /\ LockInv

(* A client that neither moves nor has its items changed or its locks taken
   keeps what it relies on. *)
LEMMA OthersKeep ==
    ASSUME SafeInv, NEW c \in Clients, NEW d \in Clients \ {c},
           pc'[d] = pc[d], req'[d] = req[d], old'[d] = old[d], work'[d] = work[d],
           \A i \in Items : owner[i] = d => owner'[i] = d /\ db'[i] = db[i]
    PROVE  ClientInv(d)'
<1>1. req[d].item \in Items
  BY DEF SafeInv, TypeInv, TypeOK, Request
<1>2. ClientInv(d)
  BY DEF SafeInv, LockInv
<1>3. CASE pc[d] \in Holding
  <2>1. owner[req[d].item] = d
    BY <1>2, <1>3 DEF ClientInv
  <2>2. owner'[req[d].item] = d /\ db'[req[d].item] = db[req[d].item]
    BY <1>1, <2>1
  <2>3. QED
    BY <1>2, <1>3, <2>2 DEF ClientInv, Editing, Decided
<1>4. CASE pc[d] \notin Holding
  BY <1>4 DEF ClientInv, Holding, Editing, Decided
<1>5. QED
  BY <1>3, <1>4

(* One step of client c, in three parts: what it must leave to the others,
   what it must establish for itself, and that archives stay bounded. *)
LEMMA StepOfOne ==
    ASSUME SafeInv, TypeInv', SkipInv', NEW c \in Clients,
           \A d \in Clients \ {c} :
              /\ pc'[d] = pc[d] /\ req'[d] = req[d]
              /\ old'[d] = old[d] /\ work'[d] = work[d]
              /\ \A i \in Items : owner[i] = d => owner'[i] = d /\ db'[i] = db[i],
           ClientInv(c)',
           \A i \in Items :
              db'[i] = db[i] \/ Cardinality(db'[i].arch) <= Keep
    PROVE  SafeInv'
<1>1. \A d \in Clients : ClientInv(d)'
  BY OthersKeep
<1>2. ArchiveBounded'
  BY DEF SafeInv, LockInv, ArchiveBounded
<1>3. QED
  BY <1>1, <1>2 DEF SafeInv, LockInv

(* Giving back its locks, a client takes none from the others. *)
LEMMA ReleaseKeeps ==
    ASSUME TypeOK, NEW c \in Clients, Release(c), NEW d \in Clients \ {c},
           NEW i \in Items, owner[i] = d
    PROVE  owner'[i] = d
  BY DEF Release, TypeOK

LEMMA FinishFrame ==
    ASSUME TypeOK, NEW c \in Clients, Finish(c)
    PROVE  /\ pc'[c] = "idle"
           /\ \A d \in Clients \ {c} :
                 /\ pc'[d] = pc[d] /\ req'[d] = req[d]
                 /\ old'[d] = old[d] /\ work'[d] = work[d]
  BY DEF Finish, Goto, TypeOK

LEMMA IdleClient ==
    ASSUME NEW c \in Clients,
           pc'[c] \in {"idle", "get", "insert", "created"}
    PROVE  ClientInv(c)'
  BY DEF ClientInv, Holding, Editing, Decided

LEMMA SafeInit == Init => SafeInv
<1> SUFFICES ASSUME Init PROVE SafeInv
  OBVIOUS
<1>1. \A c \in Clients : ClientInv(c)
  BY DEF Init, ClientInv, Holding, Editing, Decided
<1>2. ArchiveBounded
  <2>1. Cardinality({}) = 0
    BY FS_EmptySet
  <2>2. \A i \in Items : db[i].arch = {}
    BY SeedAssumption DEF Init
  <2>3. QED
    BY <2>1, <2>2, KeepAssumption DEF ArchiveBounded
<1>3. QED
  BY <1>1, <1>2, TypeInit, SkipInvariant DEF SafeInv, LockInv

LEMMA SafeStep == SafeInv /\ [Next]_vars => SafeInv'
<1> SUFFICES ASSUME SafeInv, [Next]_vars PROVE SafeInv'
  OBVIOUS
<1>t. TypeOK /\ TypeInv' /\ SkipInv'
  BY TypeStep, SkipInvariant DEF SafeInv, TypeInv
<1>s. \A c \in Clients :
         /\ req[c].op \in {"patch", "bulk"} => Uncounted(req[c]) = FALSE
         /\ req[c].op \in {"add", "update", "delete"} => Uncounted(req[c]) = req[c].skip
         /\ req[c].op = "rename" => Uncounted(req[c]) = TRUE
  BY <1>t DEF SafeInv, SkipInv, TypeOK, Request, Uncounted
<1>i. \A c \in Clients : req[c] \in Request /\ req[c].item \in Items
  BY <1>t DEF TypeOK, Request
<1>1. CASE UNCHANGED vars
  BY <1>1, <1>t DEF vars, SafeInv, LockInv, ClientInv, Editing, Decided, ArchiveBounded
<1>2. ASSUME NEW c \in Clients, NEW i \in Items, ReadRow(c, i) PROVE SafeInv'
  <2>1. ClientInv(c)'
    BY <1>2, <1>t, IdleClient DEF TypeOK, ReadRow, Goto
  <2>2. QED
    BY <1>2, <1>t, <2>1, StepOfOne DEF TypeOK, ReadRow, Goto
<1>3. ASSUME NEW c \in Clients, ReadActivities(c) PROVE SafeInv'
  <2>1. Finish(c) /\ UNCHANGED <<db, owner>>
    BY <1>3 DEF ReadActivities
  <2>2. QED
    BY <1>t, <2>1, FinishFrame, IdleClient, StepOfOne
<1>4. ASSUME NEW c \in Clients, NEW r \in Edits(c), Begin(c, r) PROVE SafeInv'
  <2>1. ClientInv(c)'
    BY <1>4, <1>t DEF TypeOK, Begin, Goto, ClientInv, Holding, Editing, Decided
  <2>2. QED
    BY <1>4, <1>t, <2>1, StepOfOne DEF TypeOK, Begin, Goto
<1>5. ASSUME NEW c \in Clients, NEW i \in Items, NEW r \in Creates(i), CheckDuplicate(c, r) PROVE SafeInv'
  <2>1. ClientInv(c)'
    BY <1>5, <1>t, IdleClient DEF TypeOK, CheckDuplicate, Goto
  <2>2. QED
    BY <1>5, <1>t, <2>1, StepOfOne DEF TypeOK, CheckDuplicate, Goto
<1>6. ASSUME NEW c \in Clients, Lock(c) PROVE SafeInv'
  <2>1. ClientInv(c)'
    BY <1>6, <1>t, <1>i DEF TypeOK, SafeInv, LockInv, Lock, Goto, ClientInv, Holding, Editing, Decided
  <2>2. QED
    BY <1>6, <1>t, <2>1, NoClientAssumption, StepOfOne DEF TypeOK, Lock, Goto
<1>7. ASSUME NEW c \in Clients, ApplyPatch(c) PROVE SafeInv'
  <2>1. req[c] \in Request /\ db[req[c].item] \in Record
        /\ old[c] \in Nat /\ start[c] \in Nat /\ nextId \in Nat
    BY <1>t, <1>i DEF TypeOK
  <2>2. PatchOutcomes(db[req[c].item], old[c], start[c], req[c].meta) \subseteq EditOf(db[req[c].item], old[c], FALSE)
    BY <2>1, PatchLemma DEF Request
  <2>3. work'[c] \in EditOf(db[req[c].item], old[c], FALSE)
    BY <1>7, <1>t, <2>2 DEF TypeOK, ApplyPatch
  <2>4. ClientInv(c)'
    BY <1>7, <1>t, <2>3, <1>s DEF TypeOK, SafeInv, LockInv, ApplyPatch, Applying, Goto, ClientInv, Holding, Editing, Decided
  <2>5. QED
    BY <1>7, <1>t, <2>4, StepOfOne DEF TypeOK, ApplyPatch, Goto
<1>8. ASSUME NEW c \in Clients, ApplyAdd(c) PROVE SafeInv'
  <2>1. req[c] \in Request /\ db[req[c].item] \in Record
        /\ old[c] \in Nat /\ start[c] \in Nat /\ nextId \in Nat
    BY <1>t, <1>i DEF TypeOK
  <2>2. AddOutcomes(db[req[c].item], old[c], start[c], nextId, req[c].val, req[c].skip) \subseteq EditOf(db[req[c].item], old[c], req[c].skip)
    BY <2>1, AddLemma DEF Request
  <2>3. work'[c] \in EditOf(db[req[c].item], old[c], req[c].skip)
    BY <1>8, <1>t, <2>2 DEF TypeOK, ApplyAdd
  <2>4. ClientInv(c)'
    BY <1>8, <1>t, <1>s, <2>3 DEF TypeOK, SafeInv, LockInv, ApplyAdd, Applying, Goto, ClientInv, Holding, Editing, Decided
  <2>5. QED
    BY <1>8, <1>t, <2>4, StepOfOne DEF TypeOK, ApplyAdd, Goto
<1>9. ASSUME NEW c \in Clients, ApplyUpdate(c) PROVE SafeInv'
  <2>1. req[c] \in Request /\ db[req[c].item] \in Record
        /\ old[c] \in Nat /\ start[c] \in Nat /\ nextId \in Nat
    BY <1>t, <1>i DEF TypeOK
  <2>2. \A pl \in Placings({req[c].act}) :
           UpdateOutcomes(db[req[c].item], old[c], start[c], req[c].act, req[c].val, pl, req[c].skip)
              \subseteq EditOf(db[req[c].item], old[c], req[c].skip)
    BY <2>1, UpdateLemma DEF Request
  <2>3. work'[c] \in EditOf(db[req[c].item], old[c], req[c].skip)
    BY <1>9, <1>t, <2>2 DEF TypeOK, ApplyUpdate
  <2>4. ClientInv(c)'
    BY <1>9, <1>t, <1>s, <2>3 DEF TypeOK, SafeInv, LockInv, ApplyUpdate, Applying, Goto, ClientInv, Holding, Editing, Decided
  <2>5. QED
    BY <1>9, <1>t, <2>4, StepOfOne DEF TypeOK, ApplyUpdate, Goto
<1>10. ASSUME NEW c \in Clients, ApplyDelete(c) PROVE SafeInv'
  <2>1. req[c] \in Request /\ db[req[c].item] \in Record
        /\ old[c] \in Nat /\ start[c] \in Nat /\ nextId \in Nat
    BY <1>t, <1>i DEF TypeOK
  <2>2. DeleteOutcomes(db[req[c].item], old[c], start[c], req[c].act, req[c].skip) \subseteq EditOf(db[req[c].item], old[c], req[c].skip)
    BY <2>1, DeleteLemma DEF Request
  <2>3. work'[c] \in EditOf(db[req[c].item], old[c], req[c].skip)
    BY <1>10, <1>t, <2>2 DEF TypeOK, ApplyDelete
  <2>4. ClientInv(c)'
    BY <1>10, <1>t, <1>s, <2>3 DEF TypeOK, SafeInv, LockInv, ApplyDelete, Applying, Goto, ClientInv, Holding, Editing, Decided
  <2>5. QED
    BY <1>10, <1>t, <2>4, StepOfOne DEF TypeOK, ApplyDelete, Goto
<1>11. ASSUME NEW c \in Clients, ApplyBulk(c) PROVE SafeInv'
  <2>1. req[c] \in Request /\ db[req[c].item] \in Record
        /\ old[c] \in Nat /\ start[c] \in Nat /\ nextId \in Nat
    BY <1>t, <1>i DEF TypeOK
  <2>2. \A pl \in Placings(req[c].upd \cup NewIds(nextId, req[c].adds)) :
           BulkOutcomes(db[req[c].item], old[c], start[c], nextId, req[c], pl)
              \subseteq EditOf(db[req[c].item], old[c], FALSE)
    BY <2>1, BulkLemma, ChangeType DEF Request
  <2>3. work'[c] \in EditOf(db[req[c].item], old[c], FALSE)
    BY <1>11, <1>t, <2>2 DEF TypeOK, ApplyBulk
  <2>4. ClientInv(c)'
    BY <1>11, <1>t, <2>3, <1>s DEF TypeOK, SafeInv, LockInv, ApplyBulk, Applying, Goto, ClientInv, Holding, Editing, Decided
  <2>5. QED
    BY <1>11, <1>t, <2>4, StepOfOne DEF TypeOK, ApplyBulk, Goto
<1>12. ASSUME NEW c \in Clients, ActivityMissing(c) PROVE SafeInv'
  <2>1. Finish(c) /\ Release(c) /\ UNCHANGED db
    BY <1>12 DEF ActivityMissing
  <2>2. QED
    BY <1>t, <2>1, FinishFrame, ReleaseKeeps, IdleClient, StepOfOne
<1>13. ASSUME NEW c \in Clients, BulkConflict(c) PROVE SafeInv'
  <2>1. Finish(c) /\ Release(c) /\ UNCHANGED db
    BY <1>13 DEF BulkConflict
  <2>2. QED
    BY <1>t, <2>1, FinishFrame, ReleaseKeeps, IdleClient, StepOfOne
<1>14. ASSUME NEW c \in Clients, Abort(c) PROVE SafeInv'
  <2>1. Finish(c) /\ Release(c) /\ UNCHANGED db
    BY <1>14 DEF Abort
  <2>2. QED
    BY <1>t, <2>1, FinishFrame, ReleaseKeeps, IdleClient, StepOfOne
<1>15. ASSUME NEW c \in Clients, LogEdit(c) PROVE SafeInv'
  <2>1. ClientInv(c)'
    BY <1>15, <1>t DEF TypeOK, SafeInv, LockInv, LogEdit, Goto, ClientInv, Holding, Editing, Decided
  <2>2. QED
    BY <1>15, <1>t, <2>1, StepOfOne DEF TypeOK, LogEdit, Goto
<1>16. ASSUME NEW c \in Clients, InsertFails(c) PROVE SafeInv'
  <2>1. Finish(c) /\ UNCHANGED <<db, owner>>
    BY <1>16 DEF InsertFails
  <2>2. QED
    BY <1>t, <2>1, FinishFrame, IdleClient, StepOfOne
<1>17. ASSUME NEW c \in Clients, LogCreate(c) PROVE SafeInv'
  <2>1. Finish(c) /\ UNCHANGED <<db, owner>>
    BY <1>17 DEF LogCreate
  <2>2. QED
    BY <1>t, <2>1, FinishFrame, IdleClient, StepOfOne
<1>18. ASSUME NEW c \in Clients, InsertProduct(c) PROVE SafeInv'
  <2>1. req[c] \in Request /\ db[req[c].item] \in Record /\ nextId \in Nat
    BY <1>t, <1>i DEF TypeOK
  <2>2. \A pl \in Placings(NewIds(nextId, req[c].adds)) :
           /\ Created(db[req[c].item], nextId, req[c], pl).live
           /\ Created(db[req[c].item], nextId, req[c], pl).arch = db[req[c].item].arch
    BY <2>1, ChangeType, CreatedLemma
  <2>3. ClientInv(c)'
    BY <1>18, <1>t, <1>i, <2>2
    DEF TypeOK, InsertProduct, Goto, ClientInv, Holding, Editing, Decided
  <2>4. QED
    BY <1>18, <1>t, <2>3, NoClientAssumption, StepOfOne DEF TypeOK, InsertProduct, Goto
<1>19. ASSUME NEW c \in Clients, CommitEdit(c) PROVE SafeInv'
  <2>1. Finish(c) /\ Release(c) /\ db' = [db EXCEPT ![req[c].item] = work[c]]
    BY <1>19 DEF CommitEdit
  <2>2. owner[req[c].item] = c /\ Cardinality(work[c].arch) <= Keep
    <3>1. ClientInv(c) /\ pc[c] = "commit"
      BY <1>19 DEF SafeInv, LockInv, CommitEdit
    <3>2. 0 <= Keep
      BY KeepAssumption
    <3>3. QED
      BY <3>1, <3>2, AbsentType DEF ClientInv, Holding, Decided, EditOf
  <2>3. \A i \in Items : owner[i] # c => db'[i] = db[i]
    BY <1>t, <2>1, <2>2 DEF TypeOK
  <2>4. \A i \in Items :
           db'[i] = db[i] \/ Cardinality(db'[i].arch) <= Keep
    BY <1>t, <2>1, <2>2 DEF TypeOK
  <2>5. \A d \in Clients \ {c}, i \in Items :
           owner[i] = d => owner'[i] = d /\ db'[i] = db[i]
    BY <1>t, <2>1, <2>3, ReleaseKeeps
  <2>6. QED
    BY <1>t, <2>1, <2>4, <2>5, FinishFrame, IdleClient, StepOfOne
<1>20. ASSUME NEW c \in Clients, CommitCreate(c) PROVE SafeInv'
  <2>1. Release(c) /\ db' = [db EXCEPT ![req[c].item] = work[c]]
        /\ Goto(c, "created") /\ UNCHANGED <<req, old, work>>
    BY <1>20 DEF CommitCreate
  <2>2. owner[req[c].item] = c /\ work[c].live /\ work[c].arch = db[req[c].item].arch
    BY <1>20 DEF SafeInv, LockInv, CommitCreate, ClientInv, Holding
  <2>3. \A i \in Items : owner[i] # c => db'[i] = db[i]
    BY <1>t, <2>1, <2>2 DEF TypeOK
  <2>4. \A i \in Items :
           db'[i] = db[i] \/ Cardinality(db'[i].arch) <= Keep
    BY <1>t, <1>i, <2>1, <2>2 DEF TypeOK, SafeInv, LockInv, ArchiveBounded
  <2>5. \A d \in Clients \ {c}, i \in Items :
           owner[i] = d => owner'[i] = d /\ db'[i] = db[i]
    BY <1>t, <2>1, <2>3, ReleaseKeeps
  <2>6. pc'[c] = "created" /\ \A d \in Clients \ {c} : pc'[d] = pc[d]
    BY <1>t, <2>1 DEF TypeOK, Goto
  <2>7. QED
    BY <1>t, <2>1, <2>4, <2>5, <2>6, IdleClient, StepOfOne
<1>21. ASSUME NEW c \in Clients, RowGone(c) PROVE SafeInv'
  <2>1. Finish(c) /\ UNCHANGED <<db, owner>>
    BY <1>21 DEF RowGone
  <2>2. QED
    BY <1>t, <2>1, FinishFrame, IdleClient, StepOfOne
<1>22. ASSUME NEW c \in Clients, ApplyRename(c) PROVE SafeInv'
  <2>1. req[c] \in Request /\ db[req[c].item] \in Record
        /\ Cardinality(db[req[c].item].arch) <= Keep
    BY <1>t, <1>i DEF TypeOK, SafeInv, LockInv, ArchiveBounded
  <2>2. Renamed(db[req[c].item], req[c].meta) \in EditOf(db[req[c].item], old[c], TRUE)
    BY <2>1, RenamedLemma DEF Request, EditOf
  <2>3. work'[c] \in EditOf(db[req[c].item], old[c], TRUE)
    BY <1>22, <1>t, <2>2 DEF TypeOK, ApplyRename
  <2>4. ClientInv(c)'
    BY <1>22, <1>t, <1>s, <2>3
    DEF TypeOK, SafeInv, LockInv, ApplyRename, Applying, Goto, ClientInv, Holding, Editing, Decided
  <2>5. QED
    BY <1>22, <1>t, <2>4, StepOfOne DEF TypeOK, ApplyRename, Goto
<1>23. ASSUME NEW c \in Clients, ApplyRemove(c) PROVE SafeInv'
  <2>1. ClientInv(c)'
    BY <1>23, <1>t
    DEF TypeOK, SafeInv, LockInv, ApplyRemove, Applying, Goto, ClientInv, Holding, Editing, Decided
  <2>2. QED
    BY <1>23, <1>t, <2>1, StepOfOne DEF TypeOK, ApplyRemove, Goto
<1>24. QED
  BY <1>1, <1>2, <1>3, <1>4, <1>5, <1>6, <1>7, <1>8, <1>9, <1>10, <1>11,
     <1>12, <1>13, <1>14, <1>15, <1>16, <1>17, <1>18, <1>19, <1>20, <1>21,
     <1>22, <1>23
  DEF Next, Ask, Acquire, Serve

LEMMA SafeInvariant == Spec => []SafeInv
  BY SafeInit, SafeStep, PTL DEF Spec

(* No transaction ever works from a revision that another one has replaced:
   FIX #10 of update.py, for any number of concurrent editors. *)
THEOREM LockProtectsRevision == Spec => []HolderIsCurrent
<1>1. SafeInv => HolderIsCurrent
  BY DEF SafeInv, LockInv, ClientInv, HolderIsCurrent
<1>2. QED
  BY <1>1, SafeInvariant, PTL

(* The pruning in snapshot_product bounds the archive of every item, whatever
   the order in which the transactions that prune it commit. *)
THEOREM ArchiveStaysBounded == Spec => []ArchiveBounded
<1>1. SafeInv => ArchiveBounded
  BY DEF SafeInv, LockInv
<1>2. QED
  BY <1>1, SafeInvariant, PTL

-----------------------------------------------------------------------------
(***************************************************************************)
(* 3. The optimistic check of bulk_update_item compares nothing but the    *)
(* revision.  How far that is enough is proved here on top of the          *)
(* invariant of the row lock: unless something the revision does not count *)
(* has happened to the item since, a reading that has the stored revision  *)
(* is a reading of what is stored.                                         *)
(***************************************************************************)
Reading(c, i) == pc[c] = "get" /\ req[c].item = i

(* Where its client is not blind, a reading is never ahead of the stored
   revision, and where it is not behind it shows what is stored (of the row alone, as long as get_item has
   not come to the activities). *)
ViewInv ==
    \A c \in Clients, i \in Items :
        LET v == view[c][i]
            n == db[i].now
        IN  v # Unread /\ i \notin blind[c] =>
              /\ db[i].live
              /\ v.rev <= n.rev
              /\ v.rev = n.rev =>
                    v = IF Reading(c, i) THEN [n EXCEPT !.acts = {}] ELSE n

(* A bulk update expects the revision its client has read, and is carried out
   on that revision only. *)
ExpectInv ==
    \A c \in Clients :
        req[c].op = "bulk" =>
            /\ view[c][req[c].item] # Unread
            /\ req[c].expect = view[c][req[c].item].rev
            /\ pc[c] \in {"log", "commit"} => old[c] = req[c].expect

BulkInv == ViewInv /\ ExpectInv
-----------------------------------------------------------------------------
(* With a change the stored revision grows, and the readings fall behind; or
   else all clients are blind to the item from now on. *)
Advances(i) ==
    \/ db'[i] = db[i]
    \/ ~db[i].live
    \/ db'[i].live /\ db'[i].now.rev > db[i].now.rev
    \/ \A d \in Clients : i \in blind'[d]

BlindStay == \A d \in Clients : blind[d] \subseteq blind'[d]

LEMMA ViewsKept ==
    ASSUME TypeOK, TypeOK', ViewInv, view' = view, BlindStay,
           \A i \in Items : Advances(i),
           \A d \in Clients, i \in Items : Reading(d, i)' <=> Reading(d, i)
    PROVE  ViewInv'
<1> SUFFICES ASSUME NEW d \in Clients, NEW i \in Items, view[d][i] # Unread,
                    i \notin blind'[d]
             PROVE  /\ db'[i].live
                    /\ view[d][i].rev <= db'[i].now.rev
                    /\ view[d][i].rev = db'[i].now.rev =>
                         view[d][i] = IF Reading(d, i)
                                      THEN [db'[i].now EXCEPT !.acts = {}] ELSE db'[i].now
  BY DEF ViewInv
<1>1. view[d][i].rev \in Nat /\ db[i].now.rev \in Nat /\ db'[i].now.rev \in Nat
  BY DEF TypeOK, Content, Record
<1>2. /\ db[i].live
      /\ view[d][i].rev <= db[i].now.rev
      /\ view[d][i].rev = db[i].now.rev =>
           view[d][i] = IF Reading(d, i)
                        THEN [db[i].now EXCEPT !.acts = {}] ELSE db[i].now
  BY DEF ViewInv, BlindStay
<1>3. CASE db'[i] = db[i]
  BY <1>2, <1>3
<1>4. CASE db'[i].live /\ db'[i].now.rev > db[i].now.rev
  BY <1>1, <1>2, <1>4
<1>5. QED
  BY <1>2, <1>3, <1>4 DEF Advances

(* A client that keeps its request and its reading keeps what it expects. *)
LEMMA ExpectationsKept ==
    ASSUME ExpectInv, view' = view, NEW c \in Clients,
           \A d \in Clients \ {c} : pc'[d] = pc[d] /\ req'[d] = req[d] /\ old'[d] = old[d],
           \/ req'[c].op # "bulk"
           \/ /\ req'[c] = req[c]
              /\ pc'[c] \in {"log", "commit"} =>
                    old'[c] = old[c] /\ (pc[c] \in {"log", "commit"} \/ old[c] = req[c].expect)
    PROVE  ExpectInv'
<1> SUFFICES ASSUME NEW d \in Clients, req'[d].op = "bulk"
             PROVE  /\ view[d][req'[d].item] # Unread
                    /\ req'[d].expect = view[d][req'[d].item].rev
                    /\ pc'[d] \in {"log", "commit"} => old'[d] = req'[d].expect
  BY DEF ExpectInv
<1>1. CASE d = c
  BY <1>1 DEF ExpectInv
<1>2. CASE d # c
  BY <1>2 DEF ExpectInv
<1>3. QED
  BY <1>1, <1>2

(* The only requests that expect a revision carry the one of the last GET. *)
LEMMA BulkRequest ==
    ASSUME NEW c \in Clients, NEW r \in Edits(c), r.op = "bulk"
    PROVE  view[c][r.item] # Unread /\ r.expect = view[c][r.item].rev
<1>1. PICK i \in Items : r \in Patches(i) \cup Adds(i) \cup Updates(c, i)
                                \cup Deletes(c, i) \cup Bulks(c, i)
                                \cup Renames(i) \cup Removes(i)
  BY DEF Edits
<1>2. \A q \in Patches(i) : q.op = "patch"
  BY DEF Patches, Blank
<1>r. \A q \in Renames(i) \cup Removes(i) : q.op # "bulk"
  BY DEF Renames, Removes, Blank
<1>3. \A q \in Adds(i) : q.op = "add"
  <2> DEFINE ask(v, s) == [Blank(i) EXCEPT !.op = "add", !.val = v, !.skip = s]
  <2>1. \A v \in Vals, s \in Skips : ask(v, s).op = "add"
    BY DEF Blank
  <2>2. Adds(i) = {ask(v, s) : v \in Vals, s \in Skips}
    BY DEF Adds
  <2> HIDE DEF ask
  <2>3. QED
    BY <2>1, <2>2
<1>4. \A q \in Updates(c, i) : q.op = "update"
  <2> DEFINE ask(v, s, a) == [Blank(i) EXCEPT !.op = "update", !.val = v, !.skip = s, !.act = a]
  <2>1. \A v \in Vals, s \in Skips, a \in KnownIds(c, i) : ask(v, s, a).op = "update"
    BY DEF Blank
  <2>2. Updates(c, i) = {ask(v, s, a) : v \in Vals, s \in Skips, a \in KnownIds(c, i)}
    BY DEF Updates
  <2> HIDE DEF ask
  <2>3. QED
    BY <2>1, <2>2
<1>5. \A q \in Deletes(c, i) : q.op = "delete"
  <2> DEFINE ask(s, a) == [Blank(i) EXCEPT !.op = "delete", !.skip = s, !.act = a]
  <2>1. \A s \in Skips, a \in KnownIds(c, i) : ask(s, a).op = "delete"
    BY DEF Blank
  <2>2. Deletes(c, i) = {ask(s, a) : s \in Skips, a \in KnownIds(c, i)}
    BY DEF Deletes
  <2> HIDE DEF ask
  <2>3. QED
    BY <2>1, <2>2
<1>6. r \in Bulks(c, i) /\ view[c][i] # Unread
  BY <1>1, <1>2, <1>3, <1>4, <1>5, <1>r DEF Bulks
<1>7. r.item = i /\ r.expect = view[c][i].rev
  <2> DEFINE ask(q) == [Blank(i) EXCEPT !.op = "bulk", !.meta = q.meta,
                                 !.val = q.val, !.del = q.del, !.upd = q.upd,
                                 !.adds = q.adds, !.expect = view[c][i].rev]
  <2>1. \A q \in BulkChanges(c, i) : ask(q).item = i /\ ask(q).expect = view[c][i].rev
    BY DEF Blank
  <2>2. Bulks(c, i) = {ask(q) : q \in BulkChanges(c, i)}
    BY <1>6 DEF Bulks
  <2> HIDE DEF ask
  <2>3. QED
    BY <1>6, <2>1, <2>2
<1>8. QED
  BY <1>6, <1>7

LEMMA ReadStep ==
    ASSUME SafeInv, BulkInv, NEW c \in Clients, NEW i \in Items, ReadRow(c, i)
    PROVE  BulkInv'
<1>t. TypeOK /\ ViewInv /\ ExpectInv
  BY DEF SafeInv, TypeInv, BulkInv
<1>1. /\ db[i].live /\ db' = db /\ pc[c] = "idle"
      /\ view' = [view EXCEPT ![c][i] = [db[i].now EXCEPT !.acts = {}]]
      /\ pc' = [pc EXCEPT ![c] = "get"]
      /\ req' = [req EXCEPT ![c] = [Blank(i) EXCEPT !.op = "get"]]
      /\ old' = old
      /\ blind' = [blind EXCEPT ![c] = @ \ {i}]
  BY DEF ReadRow, Goto
<1>2. req'[c].item = i /\ req'[c].op = "get" /\ pc'[c] = "get"
      /\ \A d \in Clients \ {c} : req'[d] = req[d] /\ pc'[d] = pc[d]
  BY <1>1, <1>t DEF TypeOK, Blank
<1>3. /\ view'[c][i] = [db[i].now EXCEPT !.acts = {}]
      /\ \A d \in Clients, j \in Items : <<d, j>> # <<c, i>> => view'[d][j] = view[d][j]
  BY <1>1, <1>t DEF TypeOK
<1>4. ViewInv'
  <2> SUFFICES ASSUME NEW d \in Clients, NEW j \in Items, view'[d][j] # Unread,
                      j \notin blind'[d]
               PROVE  /\ db[j].live
                      /\ view'[d][j].rev <= db[j].now.rev
                      /\ view'[d][j].rev = db[j].now.rev =>
                           view'[d][j] = IF Reading(d, j)'
                                         THEN [db[j].now EXCEPT !.acts = {}] ELSE db[j].now
    BY <1>1 DEF ViewInv
  <2>1. CASE d = c /\ j = i
    <3>1. db[i].now \in Content
      BY <1>t DEF TypeOK, Record
    <3>2. view'[d][j].rev = db[j].now.rev /\ db[j].now.rev \in Nat
      BY <2>1, <3>1, <1>3 DEF Content
    <3>3. Reading(d, j)'
      BY <2>1, <1>2 DEF Reading
    <3>4. QED
      BY <2>1, <3>2, <3>3, <1>1, <1>3
  <2>2. CASE ~(d = c /\ j = i)
    <3>1. Reading(d, j)' <=> Reading(d, j)
      BY <2>2, <1>1, <1>2 DEF Reading
    <3>2. view'[d][j] = view[d][j]
      BY <2>2, <1>3
    <3>3. j \notin blind[d]
      BY <2>2, <1>1, <1>t DEF TypeOK
    <3>4. QED
      BY <3>1, <3>2, <3>3, <1>t DEF ViewInv
  <2>3. QED
    BY <2>1, <2>2
<1>5. ExpectInv'
  <2>1. \A d \in Clients \ {c} : \A j \in Items : view'[d][j] = view[d][j]
    BY <1>3
  <2>2. \A d \in Clients : req[d].item \in Items
    BY <1>t DEF TypeOK, Request
  <2>3. QED
    BY <2>1, <2>2, <1>1, <1>2, <1>t DEF ExpectInv
<1>6. QED
  BY <1>4, <1>5 DEF BulkInv

LEMMA ReadRestStep ==
    ASSUME SafeInv, BulkInv, NEW c \in Clients, ReadActivities(c)
    PROVE  BulkInv'
<1> DEFINE i == req[c].item
<1>t. TypeOK /\ HalfRead /\ ViewInv /\ ExpectInv
  BY DEF SafeInv, TypeInv, BulkInv
<1>1. /\ db' = db /\ pc[c] = "get" /\ Finish(c) /\ blind' = blind
      /\ view' = [view EXCEPT ![c][i].acts = db[i].now.acts]
  BY DEF ReadActivities
<1>2. i \in Items /\ view[c][i] \in Content /\ view[c][i] # Unread
  BY <1>1, <1>t, UnreadAssumption DEF TypeOK, Request, HalfRead
<1>3. /\ view'[c][i] = [view[c][i] EXCEPT !.acts = db[i].now.acts]
      /\ \A d \in Clients, j \in Items : <<d, j>> # <<c, i>> => view'[d][j] = view[d][j]
  BY <1>1, <1>2, <1>t DEF TypeOK
<1>4. /\ pc'[c] = "idle" /\ req'[c] = NoRequest
      /\ \A d \in Clients \ {c} : req'[d] = req[d] /\ pc'[d] = pc[d] /\ old'[d] = old[d]
  BY <1>1, <1>t DEF TypeOK, Finish, Goto
<1>5. ViewInv'
  <2> SUFFICES ASSUME NEW d \in Clients, NEW j \in Items, view'[d][j] # Unread,
                      j \notin blind'[d]
               PROVE  /\ db[j].live
                      /\ view'[d][j].rev <= db[j].now.rev
                      /\ view'[d][j].rev = db[j].now.rev =>
                           view'[d][j] = IF Reading(d, j)'
                                         THEN [db[j].now EXCEPT !.acts = {}] ELSE db[j].now
    BY <1>1 DEF ViewInv
  <2>1. CASE d = c /\ j = i
    <3>1. db[i].now \in Content
      BY <1>t, <1>2 DEF TypeOK, Record
    <3>2. /\ db[i].live /\ view[c][i].rev <= db[i].now.rev
          /\ view[c][i].rev = db[i].now.rev => view[c][i] = [db[i].now EXCEPT !.acts = {}]
      BY <1>1, <1>2, <1>t, <2>1 DEF ViewInv, Reading
    <3>3. [[db[i].now EXCEPT !.acts = {}] EXCEPT !.acts = db[i].now.acts] = db[i].now
      BY <3>1 DEF Content
    <3>4. view'[c][i].rev = view[c][i].rev
      BY <1>2, <1>3 DEF Content
    <3>5. ~Reading(d, j)'
      BY <2>1, <1>4 DEF Reading
    <3>6. QED
      BY <2>1, <3>2, <3>3, <3>4, <3>5, <1>3
  <2>2. CASE ~(d = c /\ j = i)
    <3>1. Reading(d, j)' <=> Reading(d, j)
      BY <2>2, <1>1, <1>4 DEF Reading
    <3>2. view'[d][j] = view[d][j]
      BY <2>2, <1>3
    <3>3. j \notin blind[d]
      BY <2>2, <1>1, <1>t DEF TypeOK
    <3>4. QED
      BY <3>1, <3>2, <3>3, <1>t DEF ViewInv
  <2>3. QED
    BY <2>1, <2>2
<1>6. ExpectInv'
  <2>1. NoRequest.op = "none"
    BY DEF NoRequest, Blank
  <2>2. \A d \in Clients \ {c} : \A j \in Items : view'[d][j] = view[d][j]
    BY <1>3
  <2>3. \A d \in Clients : req[d].item \in Items
    BY <1>t DEF TypeOK, Request
  <2>4. QED
    BY <2>1, <2>2, <2>3, <1>4, <1>t DEF ExpectInv
<1>7. QED
  BY <1>5, <1>6 DEF BulkInv

(* Any other step of a client: it leaves the readings alone. *)
LEMMA OtherStep ==
    ASSUME SafeInv, BulkInv, TypeInv', NEW c \in Clients, view' = view, BlindStay,
           pc[c] # "get", pc'[c] # "get",
           \A d \in Clients \ {c} : pc'[d] = pc[d] /\ req'[d] = req[d] /\ old'[d] = old[d],
           \A i \in Items : Advances(i),
           \/ req'[c].op # "bulk"
           \/ /\ req'[c] = req[c]
              /\ pc'[c] \in {"log", "commit"} =>
                    old'[c] = old[c] /\ (pc[c] \in {"log", "commit"} \/ old[c] = req[c].expect)
    PROVE  BulkInv'
<1>1. \A d \in Clients, i \in Items : Reading(d, i)' <=> Reading(d, i)
  BY DEF Reading
<1>2. ViewInv'
  BY <1>1, ViewsKept DEF SafeInv, TypeInv, BulkInv
<1>3. ExpectInv'
  BY ExpectationsKept DEF BulkInv
<1>4. QED
  BY <1>2, <1>3 DEF BulkInv

(* A handler that returns leaves no request behind. *)
LEMMA ReturnStep ==
    ASSUME SafeInv, BulkInv, TypeInv', NEW c \in Clients, view' = view, BlindStay,
           pc[c] # "get", Finish(c), \A i \in Items : Advances(i)
    PROVE  BulkInv'
<1>1. NoRequest.op = "none"
  BY DEF NoRequest, Blank
<1>2. TypeOK
  BY DEF SafeInv, TypeInv
<1>3. req'[c].op # "bulk" /\ pc'[c] # "get"
  BY <1>1, <1>2 DEF TypeOK, Finish, Goto
<1>4. \A d \in Clients \ {c} : pc'[d] = pc[d] /\ req'[d] = req[d] /\ old'[d] = old[d]
  BY <1>2, FinishFrame
<1>5. QED
  BY <1>3, <1>4, OtherStep

(* A request comes in: a bulk update expects the revision that was read. *)
LEMMA BeginStep ==
    ASSUME SafeInv, BulkInv, TypeInv', NEW c \in Clients, NEW r \in Edits(c), Begin(c, r)
    PROVE  BulkInv'
<1>1. /\ pc[c] = "idle" /\ db' = db /\ view' = view /\ old' = old /\ blind' = blind
      /\ req' = [req EXCEPT ![c] = r] /\ pc' = [pc EXCEPT ![c] = "lock"]
  BY DEF Begin, Goto
<1>2. /\ TypeOK /\ ViewInv /\ ExpectInv
      /\ TypeOK'
  BY DEF SafeInv, TypeInv, BulkInv
<1>3. /\ req'[c] = r /\ pc'[c] = "lock"
      /\ \A d \in Clients \ {c} : pc'[d] = pc[d] /\ req'[d] = req[d]
  BY <1>1, <1>2 DEF TypeOK
<1>4. \A d \in Clients, i \in Items : Reading(d, i)' <=> Reading(d, i)
  BY <1>1, <1>3 DEF Reading
<1>5. ViewInv'
  BY <1>1, <1>2, <1>4, ViewsKept DEF Advances, BlindStay
<1>6. ExpectInv'
  BY <1>1, <1>2, <1>3, BulkRequest DEF ExpectInv
<1>7. QED
  BY <1>5, <1>6 DEF BulkInv

(* An edit that is committed has moved the revision, or the clients are blind
   to its item. *)
LEMMA CommitStep ==
    ASSUME SafeInv, BulkInv, TypeInv', NEW c \in Clients, CommitEdit(c)
    PROVE  BulkInv'
<1>1. /\ pc[c] = "commit" /\ view' = view /\ Finish(c)
      /\ db' = [db EXCEPT ![req[c].item] = work[c]]
      /\ blind' = IF Uncounted(req[c])
                  THEN [d \in Clients |-> blind[d] \cup {req[c].item}] ELSE blind
  BY DEF CommitEdit
<1>2. TypeOK /\ req[c].item \in Items /\ ClientInv(c)
  BY DEF SafeInv, TypeInv, TypeOK, Request, LockInv
<1>3. BlindStay
  BY <1>1, <1>2 DEF BlindStay, TypeOK
<1>4. Advances(req[c].item)
  <2>1. CASE Uncounted(req[c])
    BY <1>1, <2>1 DEF Advances
  <2>2. CASE ~Uncounted(req[c])
    <3>1. req[c].op # "remove" /\ Uncounted(req[c]) = FALSE
      BY <2>2, <1>2 DEF Uncounted, TypeOK, Request
    <3>2. /\ db[req[c].item].live /\ old[c] = db[req[c].item].now.rev
          /\ work[c] \in EditOf(db[req[c].item], old[c], FALSE)
      BY <1>1, <1>2, <3>1 DEF ClientInv, Editing, Decided
    <3>3. work[c].live /\ work[c].now.rev = old[c] + 1 /\ old[c] \in Nat
      BY <1>2, <3>2 DEF EditOf, TypeOK
    <3>4. db'[req[c].item] = work[c]
      BY <1>1, <1>2 DEF TypeOK
    <3>5. QED
      BY <3>2, <3>3, <3>4 DEF Advances
  <2>3. QED
    BY <2>1, <2>2
<1>5. \A i \in Items : Advances(i)
  BY <1>1, <1>2, <1>4 DEF TypeOK, Advances
<1>6. QED
  BY <1>1, <1>3, <1>5, ReturnStep
-----------------------------------------------------------------------------
LEMMA BulkInit == Init => BulkInv
<1> SUFFICES ASSUME Init PROVE BulkInv
  OBVIOUS
<1>1. NoRequest.op = "none"
  BY DEF NoRequest, Blank
<1>2. QED
  BY <1>1 DEF Init, BulkInv, ViewInv, ExpectInv

LEMMA BulkStep == SafeInv /\ BulkInv /\ TypeInv' /\ [Next]_vars => BulkInv'
<1> SUFFICES ASSUME SafeInv, BulkInv, TypeInv', [Next]_vars PROVE BulkInv'
  OBVIOUS
<1>t. TypeOK /\ \A c \in Clients : ClientInv(c)
  BY DEF SafeInv, TypeInv, LockInv
<1>0. /\ db' = db => \A i \in Items : Advances(i)
      /\ blind' = blind => BlindStay
  BY DEF Advances, BlindStay
<1>1. CASE UNCHANGED vars
  BY <1>1 DEF vars, BulkInv, ViewInv, ExpectInv, Reading
<1>2. ASSUME NEW c \in Clients, NEW i \in Items, ReadRow(c, i) PROVE BulkInv'
  BY <1>2, ReadStep
<1>3. ASSUME NEW c \in Clients, ReadActivities(c) PROVE BulkInv'
  BY <1>3, ReadRestStep
<1>4. ASSUME NEW c \in Clients, NEW r \in Edits(c), Begin(c, r) PROVE BulkInv'
  BY <1>4, BeginStep
<1>5. ASSUME NEW c \in Clients, NEW i \in Items, NEW r \in Creates(i), CheckDuplicate(c, r)
      PROVE  BulkInv'
  <2>1. r.op = "create"
    BY CreateRequest
  <2>2. /\ pc[c] # "get" /\ pc'[c] # "get" /\ view' = view /\ db' = db
        /\ req'[c].op # "bulk" /\ blind' = blind
        /\ \A d \in Clients \ {c} : pc'[d] = pc[d] /\ req'[d] = req[d] /\ old'[d] = old[d]
    BY <1>5, <1>t, <2>1 DEF CheckDuplicate, Goto, TypeOK
  <2>3. QED
    BY <1>0, <2>2, OtherStep
<1>6. ASSUME NEW c \in Clients, Lock(c) PROVE BulkInv'
  <2>1. /\ pc[c] # "get" /\ pc'[c] = "apply" /\ view' = view /\ db' = db /\ req' = req
        /\ blind' = blind
        /\ \A d \in Clients \ {c} : pc'[d] = pc[d] /\ old'[d] = old[d]
    BY <1>6, <1>t DEF Lock, Goto, TypeOK
  <2>2. QED
    BY <1>0, <2>1, OtherStep
<1>7. ASSUME NEW c \in Clients,
             \/ ApplyPatch(c) \/ ApplyAdd(c) \/ ApplyUpdate(c) \/ ApplyDelete(c)
             \/ ApplyBulk(c) \/ ApplyRename(c) \/ ApplyRemove(c)
      PROVE  BulkInv'
  <2>1. /\ pc[c] # "get" /\ \E l \in {"log", "commit"} : pc' = [pc EXCEPT ![c] = l]
        /\ view' = view /\ db' = db /\ req' = req /\ old' = old /\ blind' = blind
        /\ req[c].op # "bulk" \/ old[c] = req[c].expect
    BY <1>7 DEF ApplyPatch, ApplyAdd, ApplyUpdate, ApplyDelete, ApplyBulk, ApplyRename,
         ApplyRemove, Applying, Goto
  <2>2. pc'[c] # "get" /\ \A d \in Clients \ {c} : pc'[d] = pc[d]
    BY <1>t, <2>1 DEF TypeOK
  <2>3. QED
    BY <1>0, <2>1, <2>2, OtherStep
<1>8. ASSUME NEW c \in Clients,
             \/ ActivityMissing(c) \/ BulkConflict(c) \/ Abort(c)
             \/ RowGone(c) \/ InsertFails(c) \/ LogCreate(c)
      PROVE  BulkInv'
  <2>1. pc[c] # "get" /\ view' = view /\ db' = db /\ Finish(c) /\ blind' = blind
    BY <1>8 DEF ActivityMissing, BulkConflict, Applying, Abort, RowGone, InsertFails, LogCreate
  <2>2. QED
    BY <1>0, <2>1, ReturnStep
<1>9. ASSUME NEW c \in Clients, LogEdit(c) PROVE BulkInv'
  <2>1. /\ pc[c] = "log" /\ pc'[c] = "commit"
        /\ view' = view /\ db' = db /\ req' = req /\ old' = old /\ blind' = blind
        /\ \A d \in Clients \ {c} : pc'[d] = pc[d]
    BY <1>9, <1>t DEF LogEdit, Goto, TypeOK
  <2>2. QED
    BY <1>0, <2>1, OtherStep
<1>10. ASSUME NEW c \in Clients, CommitEdit(c) PROVE BulkInv'
  BY <1>10, CommitStep
<1>11. ASSUME NEW c \in Clients, InsertProduct(c) PROVE BulkInv'
  <2>1. /\ pc[c] # "get" /\ pc'[c] = "store"
        /\ view' = view /\ db' = db /\ req' = req /\ old' = old /\ blind' = blind
        /\ \A d \in Clients \ {c} : pc'[d] = pc[d]
    BY <1>11, <1>t DEF InsertProduct, Goto, TypeOK
  <2>2. QED
    BY <1>0, <2>1, OtherStep
<1>12. ASSUME NEW c \in Clients, CommitCreate(c) PROVE BulkInv'
  <2>1. /\ pc[c] = "store" /\ pc'[c] = "created"
        /\ view' = view /\ req' = req /\ old' = old /\ blind' = blind
        /\ db' = [db EXCEPT ![req[c].item] = work[c]]
        /\ \A d \in Clients \ {c} : pc'[d] = pc[d]
    BY <1>12, <1>t DEF CommitCreate, Goto, TypeOK
  <2>2. ~db[req[c].item].live
    BY <1>t, <2>1 DEF ClientInv
  <2>3. \A i \in Items : Advances(i)
    BY <1>t, <2>1, <2>2 DEF TypeOK, Advances
  <2>4. QED
    BY <1>0, <2>1, <2>3, OtherStep
<1>13. QED
  BY <1>1, <1>2, <1>3, <1>4, <1>5, <1>6, <1>7, <1>8, <1>9, <1>10, <1>11, <1>12
  DEF Next, Ask, Acquire, Serve

(* What is accepted as current is current, in content as well as in number. *)
LEMMA BulkCurrent == SafeInv /\ BulkInv => BulkSeesCounted
<1> SUFFICES ASSUME SafeInv, BulkInv, NEW c \in Clients,
                    pc[c] \in {"log", "commit"}, req[c].op = "bulk",
                    req[c].item \notin blind[c]
             PROVE  view[c][req[c].item] = db[req[c].item].now
  BY DEF BulkSeesCounted, Accepted
<1>1. req[c].item \in Items
  BY DEF SafeInv, TypeInv, TypeOK, Request
<1>2. old[c] = db[req[c].item].now.rev
  BY DEF SafeInv, LockInv, ClientInv, Editing
<1>3. view[c][req[c].item] # Unread /\ view[c][req[c].item].rev = old[c]
  BY DEF BulkInv, ExpectInv
<1>4. ~Reading(c, req[c].item)
  BY DEF Reading
<1>5. QED
  BY <1>1, <1>2, <1>3, <1>4 DEF BulkInv, ViewInv

(* A bulk update is carried out only for a client that has seen all of what it
   overwrites, activities included, unless since its GET an edit skipped the
   revision, a line was renamed or the item was deleted: these are the only
   ways round the comparison of revisions in bulk_update_item. *)
THEOREM BulkUpdatesAreCurrent == Spec => []BulkSeesCounted
<1>1. SafeInv /\ BulkInv /\ [Next]_vars => SafeInv' /\ BulkInv'
  BY SafeStep, BulkStep DEF SafeInv
<1>2. Spec => [](SafeInv /\ BulkInv)
  BY <1>1, SafeInit, BulkInit, PTL DEF Spec
<1>3. QED
  BY <1>2, BulkCurrent, PTL

-----------------------------------------------------------------------------
(***************************************************************************)
(* 4. ItemEditing implements AtomicEditing: with row locks, transactions   *)
(* and a sequence that advances outside of them, what is stored changes as *)
(* if requests never overlapped.                                           *)
(*                                                                         *)
(* The step of AtomicEditing is the commit.  What makes it one is an       *)
(* invariant about the open transaction: the record it is about to store   *)
(* is what its request makes of the record that is stored NOW, although it *)
(* was computed some steps ago.                                            *)
(***************************************************************************)
(* Requests that clients can send, in the parts that say what to store. *)
Carried ==
    {r \in Request :
        /\ r.op \in {"patch", "rename"} => r.meta \in Metas
        /\ r.op \in {"add", "update"} => r.val \in Vals
        /\ r.op \in {"add", "update", "delete"} => r.skip \in Skips
        /\ r.op \in {"bulk", "create"} =>
              r.del \in IdSets /\ r.upd \in IdSets /\ r.adds \in 0..MaxAdds}

(* Record w is what some edit makes of r at once, with one of the timestamps
   and one of the activity ids handed out so far. *)
Edited(r, w, now, next) ==
    \/ \E m \in Metas, at \in 1..now : w \in PatchOutcomes(r, r.now.rev, at, m)
    \/ \E v \in Vals, s \in Skips, at \in 1..now, id \in FirstId..(next - 1) :
          w \in AddOutcomes(r, r.now.rev, at, id, v, s)
    \/ \E v \in Vals, s \in Skips, at \in 1..now, id \in Ids(r.now.acts) :
          \E pl \in Placings({id}) : w \in UpdateOutcomes(r, r.now.rev, at, id, v, pl, s)
    \/ \E s \in Skips, at \in 1..now, id \in Ids(r.now.acts) :
          w \in DeleteOutcomes(r, r.now.rev, at, id, s)
    \/ \E q \in Atomic!Change, at \in 1..now, id \in FirstId..next :
          \E pl \in Placings(q.upd \cup NewIds(id, q.adds)) :
             w \in BulkOutcomes(r, r.now.rev, at, id, q, pl)
    \/ \E m \in Metas : w = Renamed(r, m)
    \/ w = Absent

(* Likewise for the creation of an item. *)
Made(r, w, next) ==
    \E q \in Atomic!Change, id \in FirstId..next :
       \E pl \in Placings(NewIds(id, q.adds)) : w = Created(r, id, q, pl)

Work(c) ==
    LET r == db[req[c].item]
    IN  /\ req[c] \in Carried
        /\ pc[c] \in {"lock", "apply"} => start[c] \in 1..clock
        /\ pc[c] \in {"log", "commit"} => Edited(r, work[c], clock, nextId)
        /\ pc[c] = "insert" => req[c].op = "create"
        /\ pc[c] = "store" => Made(r, work[c], nextId)

WorkInv == FirstId <= nextId /\ \A c \in Clients : Work(c)

-----------------------------------------------------------------------------
(* AtomicEditing has its own copy of ItemRecord; it computes the same. *)
LEMMA SameOutcomes ==
    /\ \A r, o, at, m : Atomic!PatchOutcomes(r, o, at, m) = PatchOutcomes(r, o, at, m)
    /\ \A r, o, at, id, v, s :
          Atomic!AddOutcomes(r, o, at, id, v, s) = AddOutcomes(r, o, at, id, v, s)
    /\ \A r, o, at, id, v, pl, s :
          Atomic!UpdateOutcomes(r, o, at, id, v, pl, s) = UpdateOutcomes(r, o, at, id, v, pl, s)
    /\ \A r, o, at, id, s :
          Atomic!DeleteOutcomes(r, o, at, id, s) = DeleteOutcomes(r, o, at, id, s)
    /\ \A r, o, at, id, q, pl :
          Atomic!BulkOutcomes(r, o, at, id, q, pl) = BulkOutcomes(r, o, at, id, q, pl)
    /\ \A r, id, q, pl : Atomic!Created(r, id, q, pl) = Created(r, id, q, pl)
    /\ \A r, m : Atomic!Renamed(r, m) = Renamed(r, m)
    /\ Atomic!Absent = Absent
    /\ \A A : Atomic!Ids(A) = Ids(A)
    /\ \A ids : Atomic!Placings(ids) = Placings(ids)
    /\ \A f, n : Atomic!NewIds(f, n) = NewIds(f, n)
<1>0. \A S : Atomic!Cardinality(S) = Cardinality(S)
  BY DEF Atomic!Cardinality, Cardinality
<1>1. \A S, k : Atomic!Newest(S, k) = Newest(S, k)
  BY <1>0 DEF Atomic!Newest, Newest
<1>2. \A r, n, o, at : Atomic!Archived(r, n, o, at) = Archived(r, n, o, at)
  BY <1>1 DEF Atomic!Archived, Archived
<1>3. /\ \A n, o : Atomic!Bumped(n, o) = Bumped(n, o)
      /\ \A s, n, o : Atomic!BumpedUnless(s, n, o) = BumpedUnless(s, n, o)
      /\ \A n, m : Atomic!Patched(n, m) = Patched(n, m)
      /\ \A n, id, v, k : Atomic!WithActivity(n, id, v, k) = WithActivity(n, id, v, k)
      /\ \A A, ids, v, pl : Atomic!Revalued(A, ids, v, pl) = Revalued(A, ids, v, pl)
      /\ \A A, ids : Atomic!Without(A, ids) = Without(A, ids)
      /\ \A f, n : Atomic!NewIds(f, n) = NewIds(f, n)
      /\ \A f, n, v, pl : Atomic!Listed(f, n, v, pl) = Listed(f, n, v, pl)
      /\ \A A : Atomic!NextOrders(A) = NextOrders(A)
  BY DEF Atomic!Bumped, Atomic!BumpedUnless, Atomic!Patched, Atomic!WithActivity,
     Atomic!Revalued, Atomic!Without, Atomic!Listed, Atomic!NextOrders, Atomic!NextRevision,
     Atomic!NewIds, Atomic!Given,
     Bumped, BumpedUnless, Patched, WithActivity, Revalued, Without, Listed,
     NextOrders, NextRevision, NewIds, Given
<1>4. \A r, o, at, m : Atomic!PatchOutcomes(r, o, at, m) = PatchOutcomes(r, o, at, m)
  BY <1>2, <1>3 DEF Atomic!PatchOutcomes, PatchOutcomes
<1>5. ASSUME NEW r, NEW o, NEW at, NEW id, NEW v, NEW s
      PROVE  Atomic!AddOutcomes(r, o, at, id, v, s) = AddOutcomes(r, o, at, id, v, s)
  <2> DEFINE of(k) == LET n == WithActivity(r.now, id, v, k)
                      IN  {[r EXCEPT !.now = BumpedUnless(s, n, o), !.arch = A] :
                              A \in Archived(r, n, o, at)}
             atomicOf(k) == LET n == Atomic!WithActivity(r.now, id, v, k)
                            IN  {[r EXCEPT !.now = Atomic!BumpedUnless(s, n, o), !.arch = A] :
                                    A \in Atomic!Archived(r, n, o, at)}
  <2>1. \A k : atomicOf(k) = of(k)
    <3> TAKE k
    <3>1. Atomic!WithActivity(r.now, id, v, k) = WithActivity(r.now, id, v, k)
      BY <1>3
    <3> DEFINE n == WithActivity(r.now, id, v, k)
    <3>2. /\ Atomic!BumpedUnless(s, n, o) = BumpedUnless(s, n, o)
          /\ Atomic!Archived(r, n, o, at) = Archived(r, n, o, at)
      BY <1>2, <1>3
    <3> HIDE DEF n
    <3>3. QED
      BY <3>1, <3>2 DEF n
  <2>2. AddOutcomes(r, o, at, id, v, s) = UNION {of(k) : k \in NextOrders(r.now.acts)}
    BY DEF AddOutcomes
  <2>3. Atomic!AddOutcomes(r, o, at, id, v, s)
          = UNION {atomicOf(k) : k \in Atomic!NextOrders(r.now.acts)}
    BY DEF Atomic!AddOutcomes
  <2>4. Atomic!NextOrders(r.now.acts) = NextOrders(r.now.acts)
    BY <1>3
  <2> HIDE DEF of, atomicOf
  <2>5. QED
    BY <2>1, <2>2, <2>3, <2>4
<1>6. ASSUME NEW r, NEW o, NEW at, NEW id, NEW v, NEW pl, NEW s
      PROVE  Atomic!UpdateOutcomes(r, o, at, id, v, pl, s) = UpdateOutcomes(r, o, at, id, v, pl, s)
  <2>1. [r.now EXCEPT !.acts = Atomic!Revalued(@, {id}, v, pl)]
          = [r.now EXCEPT !.acts = Revalued(@, {id}, v, pl)]
    BY <1>3
  <2> DEFINE n == [r.now EXCEPT !.acts = Revalued(@, {id}, v, pl)]
  <2>2. /\ Atomic!BumpedUnless(s, n, o) = BumpedUnless(s, n, o)
        /\ Atomic!Archived(r, n, o, at) = Archived(r, n, o, at)
    BY <1>2, <1>3
  <2>3. QED
    BY <2>1, <2>2 DEF Atomic!UpdateOutcomes, UpdateOutcomes
<1>7. ASSUME NEW r, NEW o, NEW at, NEW id, NEW s
      PROVE  Atomic!DeleteOutcomes(r, o, at, id, s) = DeleteOutcomes(r, o, at, id, s)
  <2>1. [r.now EXCEPT !.acts = Atomic!Without(@, {id})]
          = [r.now EXCEPT !.acts = Without(@, {id})]
    BY <1>3
  <2> DEFINE n == [r.now EXCEPT !.acts = Without(@, {id})]
  <2>2. /\ Atomic!BumpedUnless(s, n, o) = BumpedUnless(s, n, o)
        /\ Atomic!Archived(r, r.now, o, at) = Archived(r, r.now, o, at)
    BY <1>2, <1>3
  <2>3. QED
    BY <2>1, <2>2 DEF Atomic!DeleteOutcomes, DeleteOutcomes
<1>8. ASSUME NEW r, NEW o, NEW at, NEW id, NEW q, NEW pl
      PROVE  Atomic!BulkOutcomes(r, o, at, id, q, pl) = BulkOutcomes(r, o, at, id, q, pl)
  <2>1. [Atomic!Patched(r.now, q.meta) EXCEPT
            !.acts = Atomic!Revalued(Atomic!Without(@, q.del), q.upd, q.val, pl)
                       \cup Atomic!Listed(id, q.adds, q.val, pl)]
          = [Patched(r.now, q.meta) EXCEPT
                !.acts = Revalued(Without(@, q.del), q.upd, q.val, pl)
                           \cup Listed(id, q.adds, q.val, pl)]
    BY <1>3
  <2> DEFINE n == [Patched(r.now, q.meta) EXCEPT
                      !.acts = Revalued(Without(@, q.del), q.upd, q.val, pl)
                                 \cup Listed(id, q.adds, q.val, pl)]
  <2>2. /\ Atomic!Bumped(n, o) = Bumped(n, o)
        /\ Atomic!Archived(r, r.now, o, at) = Archived(r, r.now, o, at)
    BY <1>2, <1>3
  <2>3. QED
    BY <2>1, <2>2 DEF Atomic!BulkOutcomes, BulkOutcomes
<1>9. /\ \A r, id, q, pl : Atomic!Created(r, id, q, pl) = Created(r, id, q, pl)
      /\ \A r, m : Atomic!Renamed(r, m) = Renamed(r, m)
  BY <1>3 DEF Atomic!Created, Created, Atomic!Renamed, Renamed
<1>10. /\ \A A : Atomic!Ids(A) = Ids(A)
       /\ \A ids : Atomic!Placings(ids) = Placings(ids)
       /\ Atomic!Absent = Absent
  BY DEF Atomic!Ids, Ids, Atomic!Placings, Placings, Atomic!Absent, Absent,
     Atomic!NoContent, NoContent
<1>11. QED
  BY <1>3, <1>4, <1>5, <1>6, <1>7, <1>8, <1>9, <1>10

(* More timestamps and ids handed out take nothing away. *)
LEMMA LaterIsEnough ==
    ASSUME NEW r, NEW w, NEW n1 \in Nat, NEW n2 \in Nat, NEW k1 \in Nat, NEW k2 \in Nat,
           n1 <= n2, k1 <= k2
    PROVE  /\ Edited(r, w, n1, k1) => Edited(r, w, n2, k2)
           /\ Made(r, w, k1) => Made(r, w, k2)
<1>1. /\ 1..n1 \subseteq 1..n2
      /\ FirstId..(k1 - 1) \subseteq FirstId..(k2 - 1)
      /\ FirstId..k1 \subseteq FirstId..k2
  BY BoundsAssumption
<1>2. QED
  BY <1>1, Zenon DEF Edited, Made

(* What clients send is of that kind. *)
LEMMA SentIsCarried ==
    ASSUME TypeOK, NEW c \in Clients
    PROVE  /\ Edits(c) \subseteq Carried
           /\ \A i \in Items : Creates(i) \subseteq Carried
<1>0. Edits(c) \subseteq Request /\ \A i \in Items : Creates(i) \subseteq Request
  BY RequestTypes DEF Sent
<1>1. ASSUME NEW i \in Items
      PROVE  Patches(i) \cap Request \subseteq Carried
  <2>1. \A q \in Patches(i) : q.op = "patch" /\ q.meta \in Metas
    BY DEF Patches, Blank
  <2>2. QED
    BY <2>1 DEF Carried
<1>2. ASSUME NEW i \in Items
      PROVE  Adds(i) \cap Request \subseteq Carried
  <2> DEFINE ask(v, s) == [Blank(i) EXCEPT !.op = "add", !.val = v, !.skip = s]
  <2>1. \A v \in Vals, s \in Skips :
           ask(v, s).op = "add" /\ ask(v, s).val \in Vals /\ ask(v, s).skip \in Skips
    BY DEF Blank
  <2>2. Adds(i) = {ask(v, s) : v \in Vals, s \in Skips}
    BY DEF Adds
  <2> HIDE DEF ask
  <2>3. \A q \in Adds(i) : q.op = "add" /\ q.val \in Vals /\ q.skip \in Skips
    BY <2>1, <2>2
  <2>4. QED
    BY <2>3 DEF Carried
<1>3. ASSUME NEW i \in Items
      PROVE  Updates(c, i) \cap Request \subseteq Carried
  <2> DEFINE ask(v, s, a) == [Blank(i) EXCEPT !.op = "update", !.val = v, !.skip = s, !.act = a]
  <2>1. \A v \in Vals, s \in Skips, a \in KnownIds(c, i) :
           /\ ask(v, s, a).op = "update"
           /\ ask(v, s, a).val \in Vals /\ ask(v, s, a).skip \in Skips
    BY DEF Blank
  <2>2. Updates(c, i) = {ask(v, s, a) : v \in Vals, s \in Skips, a \in KnownIds(c, i)}
    BY DEF Updates
  <2> HIDE DEF ask
  <2>3. \A q \in Updates(c, i) : q.op = "update" /\ q.val \in Vals /\ q.skip \in Skips
    BY <2>1, <2>2
  <2>4. QED
    BY <2>3 DEF Carried
<1>4. ASSUME NEW i \in Items
      PROVE  Deletes(c, i) \cap Request \subseteq Carried
  <2> DEFINE ask(s, a) == [Blank(i) EXCEPT !.op = "delete", !.skip = s, !.act = a]
  <2>1. \A s \in Skips, a \in KnownIds(c, i) :
           ask(s, a).op = "delete" /\ ask(s, a).skip \in Skips
    BY DEF Blank
  <2>2. Deletes(c, i) = {ask(s, a) : s \in Skips, a \in KnownIds(c, i)}
    BY DEF Deletes
  <2> HIDE DEF ask
  <2>3. \A q \in Deletes(c, i) : q.op = "delete" /\ q.skip \in Skips
    BY <2>1, <2>2
  <2>4. QED
    BY <2>3 DEF Carried
<1>5. ASSUME NEW i \in Items
      PROVE  Bulks(c, i) \cap Request \subseteq Carried
  <2> DEFINE ask(q) == [Blank(i) EXCEPT !.op = "bulk", !.meta = q.meta,
                                 !.val = q.val, !.del = q.del, !.upd = q.upd,
                                 !.adds = q.adds, !.expect = view[c][i].rev]
  <2>1. \A q \in BulkChanges(c, i) :
           /\ ask(q).op = "bulk" /\ ask(q).adds \in 0..MaxAdds
           /\ ask(q).del \in IdSets /\ ask(q).upd \in IdSets
    BY DEF Blank, BulkChanges, KnownIdSets
  <2>2. Bulks(c, i) \subseteq {ask(q) : q \in BulkChanges(c, i)}
    BY DEF Bulks
  <2> HIDE DEF ask
  <2>3. \A r \in Bulks(c, i) : /\ r.op = "bulk" /\ r.adds \in 0..MaxAdds
                               /\ r.del \in IdSets /\ r.upd \in IdSets
    BY <2>1, <2>2
  <2>4. QED
    BY <2>3 DEF Carried
<1>6. ASSUME NEW i \in Items
      PROVE  Creates(i) \cap Request \subseteq Carried
  <2> DEFINE ask(m, v, n) == [Blank(i) EXCEPT !.op = "create", !.meta = m, !.val = v, !.adds = n]
  <2>1. \A m \in Metas, v \in Vals, n \in 0..MaxAdds :
           /\ ask(m, v, n).op = "create" /\ ask(m, v, n).adds \in 0..MaxAdds
           /\ ask(m, v, n).del = {} /\ ask(m, v, n).upd = {}
    BY DEF Blank
  <2>2. Creates(i) = {ask(m, v, n) : m \in Metas, v \in Vals, n \in 0..MaxAdds}
    BY DEF Creates
  <2> HIDE DEF ask
  <2>3. \A r \in Creates(i) : /\ r.op = "create" /\ r.adds \in 0..MaxAdds
                              /\ r.del = {} /\ r.upd = {}
    BY <2>1, <2>2
  <2>4. QED
    BY <2>3, IdSetsAssumption DEF Carried
<1>7. ASSUME NEW i \in Items
      PROVE  (Renames(i) \cup Removes(i)) \cap Request \subseteq Carried
  <2>1. /\ \A q \in Renames(i) : q.op = "rename" /\ q.meta \in Metas
        /\ \A q \in Removes(i) : q.op = "remove"
    BY DEF Renames, Removes, Blank
  <2>2. QED
    BY <2>1 DEF Carried
<1>8. QED
  BY <1>0, <1>1, <1>2, <1>3, <1>4, <1>5, <1>6, <1>7 DEF Edits

LEMMA NothingIsCarried == NoRequest \in Carried
<1>1. NoRequest.op = "none"
  BY DEF NoRequest, Blank
<1>2. QED
  BY <1>1, NoRequestType DEF Carried

-----------------------------------------------------------------------------
(* One step of client c: the others' transactions are about other items, or
   have computed nothing yet. *)
LEMMA WorkOfOne ==
    ASSUME SafeInv, WorkInv, TypeOK', NEW c \in Clients, clock <= clock', nextId <= nextId',
           \A d \in Clients \ {c} :
              /\ pc'[d] = pc[d] /\ req'[d] = req[d]
              /\ start'[d] = start[d] /\ work'[d] = work[d]
              /\ \A i \in Items : owner[i] = d => db'[i] = db[i],
           Work(c)'
    PROVE  WorkInv'
<1>1. /\ clock \in Nat /\ clock' \in Nat /\ nextId \in Nat /\ nextId' \in Nat
      /\ FirstId <= nextId'
  BY BoundsAssumption DEF SafeInv, TypeInv, TypeOK, WorkInv
<1>2. ASSUME NEW d \in Clients \ {c} PROVE Work(d)'
  <2>1. Work(d) /\ ClientInv(d) /\ req[d].item \in Items
    BY DEF WorkInv, SafeInv, LockInv, TypeInv, TypeOK, Request
  <2>2. pc[d] \in Holding => db'[req[d].item] = db[req[d].item]
    BY <2>1 DEF ClientInv
  <2>3. pc[d] \in {"lock", "apply"} => start[d] \in 1..clock'
    BY <1>1, <2>1 DEF Work
  <2>4. pc[d] \in {"log", "commit"} =>
           Edited(db'[req[d].item], work[d], clock', nextId')
    BY <1>1, <2>1, <2>2, LaterIsEnough DEF Work, Holding
  <2>5. pc[d] = "store" => Made(db'[req[d].item], work[d], nextId')
    BY <1>1, <2>1, <2>2, LaterIsEnough DEF Work, Holding
  <2>6. QED
    BY <2>1, <2>3, <2>4, <2>5 DEF Work
<1>3. QED
  BY <1>1, <1>2 DEF WorkInv

(* A handler that returns leaves no work behind. *)
LEMMA ReturnKeepsWork ==
    ASSUME SafeInv, WorkInv, TypeOK', NEW c \in Clients, Finish(c),
           clock' = clock, nextId' = nextId,
           \A i \in Items : owner[i] # c => db'[i] = db[i]
    PROVE  WorkInv'
<1>1. TypeOK
  BY DEF SafeInv, TypeInv
<1>2. /\ pc'[c] = "idle" /\ req'[c] = NoRequest
      /\ \A d \in Clients \ {c} : /\ pc'[d] = pc[d] /\ req'[d] = req[d]
                                  /\ start'[d] = start[d] /\ work'[d] = work[d]
  BY <1>1 DEF TypeOK, Finish, Goto
<1>3. Work(c)'
  BY <1>2, NothingIsCarried DEF Work
<1>4. \A d \in Clients \ {c}, i \in Items : owner[i] = d => db'[i] = db[i]
  OBVIOUS
<1>5. clock <= clock' /\ nextId <= nextId'
  BY <1>1 DEF TypeOK
<1>6. QED
  BY <1>2, <1>3, <1>4, <1>5, WorkOfOne

(* What bulk_update_item and create_item take from their request. *)
ChangeOf(r) ==
    [meta |-> r.meta, val |-> r.val, del |-> r.del, upd |-> r.upd, adds |-> r.adds]

LEMMA ChangeIsEnough ==
    ASSUME NEW r \in Carried, r.op \in {"bulk", "create"}, NEW q, NEW old0, NEW at, NEW id
    PROVE  /\ ChangeOf(r) \in Atomic!Change
           /\ \A pl : BulkOutcomes(q, old0, at, id, r, pl)
                        = BulkOutcomes(q, old0, at, id, ChangeOf(r), pl)
           /\ \A pl : Created(q, id, r, pl) = Created(q, id, ChangeOf(r), pl)
           /\ ChangeOf(r).upd = r.upd /\ ChangeOf(r).adds = r.adds
<1>1. ChangeOf(r) \in Atomic!Change
  BY DEF Carried, Request, ChangeOf, Atomic!Change
<1>2. \A pl : BulkOutcomes(q, old0, at, id, r, pl)
                = BulkOutcomes(q, old0, at, id, ChangeOf(r), pl)
  BY DEF BulkOutcomes, ChangeOf
<1>3. /\ \A pl : Created(q, id, r, pl) = Created(q, id, ChangeOf(r), pl)
      /\ ChangeOf(r).upd = r.upd /\ ChangeOf(r).adds = r.adds
  BY DEF Created, ChangeOf
<1>4. QED
  BY <1>1, <1>2, <1>3

(* A handler that has computed its result from the revision it read under the
   lock has computed one step of AtomicEditing. *)
LEMMA AppliedIsEdited ==
    ASSUME SafeInv, WorkInv, TypeOK', NEW c \in Clients,
           \/ ApplyPatch(c) \/ ApplyAdd(c) \/ ApplyUpdate(c) \/ ApplyDelete(c)
           \/ ApplyBulk(c) \/ ApplyRename(c) \/ ApplyRemove(c)
    PROVE  Edited(db[req[c].item], work'[c], clock, nextId') /\ nextId <= nextId'
<1> DEFINE r == db[req[c].item]
<1>1. /\ TypeOK /\ pc[c] = "apply"
      /\ old[c] = r.now.rev
      /\ start[c] \in 1..clock
      /\ req[c] \in Carried /\ req[c] \in Request
      /\ nextId \in Nat /\ nextId' \in Nat /\ FirstId \in Nat /\ FirstId <= nextId
  <2>1. TypeOK /\ pc[c] = "apply" /\ Work(c) /\ ClientInv(c)
    BY DEF SafeInv, TypeInv, LockInv, WorkInv, ApplyPatch, ApplyAdd, ApplyUpdate,
       ApplyDelete, ApplyBulk, ApplyRename, ApplyRemove, Applying
  <2>2. QED
    BY <2>1, BoundsAssumption DEF TypeOK, Work, WorkInv, ClientInv, Editing
<1> HIDE DEF r
<1>2. ASSUME NEW S, \E w \in S : work' = [work EXCEPT ![c] = w]
      PROVE  work'[c] \in S
  BY <1>1, <1>2 DEF TypeOK
<1>3. CASE ApplyPatch(c)
  <2>1. /\ req[c].op = "patch" /\ nextId' = nextId
        /\ \E w \in PatchOutcomes(r, r.now.rev, start[c], req[c].meta) :
              work' = [work EXCEPT ![c] = w]
    BY <1>1, <1>3 DEF r, ApplyPatch, Applying
  <2>2. work'[c] \in PatchOutcomes(r, r.now.rev, start[c], req[c].meta)
    BY <1>2, <2>1
  <2>3. req[c].meta \in Metas
    BY <1>1, <2>1 DEF Carried
  <2>4. Edited(r, work'[c], clock, nextId')
    BY <1>1, <2>2, <2>3, Zenon DEF Edited
  <2>5. QED
    BY <1>1, <2>1, <2>4 DEF r
<1>4. CASE ApplyAdd(c)
  <2>1. /\ req[c].op = "add" /\ nextId' = nextId + 1
        /\ \E w \in AddOutcomes(r, r.now.rev, start[c], nextId, req[c].val, req[c].skip) :
              work' = [work EXCEPT ![c] = w]
    BY <1>1, <1>4 DEF r, ApplyAdd, Applying
  <2>2. work'[c] \in AddOutcomes(r, r.now.rev, start[c], nextId, req[c].val, req[c].skip)
    BY <1>2, <2>1
  <2>3. req[c].val \in Vals /\ req[c].skip \in Skips
    BY <1>1, <2>1 DEF Carried
  <2>4. nextId \in FirstId..(nextId' - 1)
    BY <1>1, <2>1
  <2>5. Edited(r, work'[c], clock, nextId')
    BY <1>1, <2>2, <2>3, <2>4, Zenon DEF Edited
  <2>6. QED
    BY <1>1, <2>1, <2>5 DEF r
<1>5. CASE ApplyUpdate(c)
  <2>1. /\ req[c].op = "update" /\ nextId' = nextId /\ req[c].act \in Ids(r.now.acts)
        /\ \E pl \in Placings({req[c].act}) :
           \E w \in UpdateOutcomes(r, r.now.rev, start[c], req[c].act, req[c].val, pl, req[c].skip) :
              work' = [work EXCEPT ![c] = w]
    BY <1>1, <1>5 DEF r, ApplyUpdate, Applying
  <2>2. PICK pl \in Placings({req[c].act}) :
           work'[c] \in UpdateOutcomes(r, r.now.rev, start[c], req[c].act, req[c].val, pl, req[c].skip)
    BY <1>2, <2>1
  <2>3. req[c].val \in Vals /\ req[c].skip \in Skips
    BY <1>1, <2>1 DEF Carried
  <2>4. Edited(r, work'[c], clock, nextId')
    BY <1>1, <2>1, <2>2, <2>3, Zenon DEF Edited
  <2>5. QED
    BY <1>1, <2>1, <2>4 DEF r
<1>6. CASE ApplyDelete(c)
  <2>1. /\ req[c].op = "delete" /\ nextId' = nextId /\ req[c].act \in Ids(r.now.acts)
        /\ \E w \in DeleteOutcomes(r, r.now.rev, start[c], req[c].act, req[c].skip) :
              work' = [work EXCEPT ![c] = w]
    BY <1>1, <1>6 DEF r, ApplyDelete, Applying
  <2>2. work'[c] \in DeleteOutcomes(r, r.now.rev, start[c], req[c].act, req[c].skip)
    BY <1>2, <2>1
  <2>3. req[c].skip \in Skips
    BY <1>1, <2>1 DEF Carried
  <2>4. Edited(r, work'[c], clock, nextId')
    BY <1>1, <2>1, <2>2, <2>3, Zenon DEF Edited
  <2>5. QED
    BY <1>1, <2>1, <2>4 DEF r
<1>7. CASE ApplyBulk(c)
  <2>1. /\ req[c].op = "bulk" /\ nextId' = nextId + req[c].adds /\ req[c].adds \in Nat
        /\ \E pl \in Placings(req[c].upd \cup NewIds(nextId, req[c].adds)) :
           \E w \in BulkOutcomes(r, r.now.rev, start[c], nextId, req[c], pl) :
              work' = [work EXCEPT ![c] = w]
    BY <1>1, <1>7 DEF r, ApplyBulk, Applying, Request
  <2> DEFINE q == ChangeOf(req[c])
  <2>2. PICK pl \in Placings(req[c].upd \cup NewIds(nextId, req[c].adds)) :
           work'[c] \in BulkOutcomes(r, r.now.rev, start[c], nextId, req[c], pl)
    BY <1>2, <2>1
  <2>3. /\ q \in Atomic!Change
        /\ BulkOutcomes(r, r.now.rev, start[c], nextId, req[c], pl)
             = BulkOutcomes(r, r.now.rev, start[c], nextId, q, pl)
        /\ q.upd = req[c].upd /\ q.adds = req[c].adds
    BY <1>1, <2>1, ChangeIsEnough
  <2> HIDE DEF q
  <2>4. /\ pl \in Placings(q.upd \cup NewIds(nextId, q.adds))
        /\ work'[c] \in BulkOutcomes(r, r.now.rev, start[c], nextId, q, pl)
    BY <2>2, <2>3
  <2>5. nextId \in FirstId..nextId' /\ nextId <= nextId'
    BY <1>1, <2>1
  <2>6. Edited(r, work'[c], clock, nextId')
    BY <1>1, <2>3, <2>4, <2>5, Zenon DEF Edited
  <2>7. QED
    BY <2>5, <2>6 DEF r
<1>8. CASE ApplyRename(c)
  <2>1. /\ req[c].op = "rename" /\ nextId' = nextId
        /\ work' = [work EXCEPT ![c] = Renamed(r, req[c].meta)]
    BY <1>1, <1>8 DEF r, ApplyRename, Applying
  <2>2. work'[c] = Renamed(r, req[c].meta) /\ req[c].meta \in Metas
    BY <1>1, <2>1 DEF TypeOK, Carried
  <2>3. Edited(r, work'[c], clock, nextId')
    BY <2>2, Zenon DEF Edited
  <2>4. QED
    BY <1>1, <2>1, <2>3 DEF r
<1>9. CASE ApplyRemove(c)
  <2>1. work'[c] = Absent /\ nextId' = nextId
    BY <1>1, <1>9 DEF ApplyRemove, TypeOK
  <2>2. QED
    BY <1>1, <2>1 DEF Edited
<1>10. QED
  BY <1>3, <1>4, <1>5, <1>6, <1>7, <1>8, <1>9

LEMMA WorkInit == Init => WorkInv
<1>1. \A c \in Clients : Init => Work(c)
  BY NothingIsCarried DEF Init, Work
<1>2. QED
  BY <1>1, BoundsAssumption DEF Init, WorkInv

LEMMA WorkStep == SafeInv /\ WorkInv /\ TypeOK' /\ [Next]_vars => WorkInv'
<1> SUFFICES ASSUME SafeInv, WorkInv, TypeOK', [Next]_vars PROVE WorkInv'
  OBVIOUS
<1>t. TypeOK /\ \A c \in Clients : Work(c) /\ ClientInv(c)
  BY DEF SafeInv, TypeInv, LockInv, WorkInv
<1>n. /\ clock \in Nat /\ nextId \in Nat
      /\ clock' = clock => clock <= clock'
      /\ nextId' = nextId => nextId <= nextId'
  BY <1>t DEF TypeOK
<1>1. CASE UNCHANGED vars
  BY <1>1 DEF vars, WorkInv, Work
<1>2. ASSUME NEW c \in Clients, NEW i \in Items, ReadRow(c, i) PROVE WorkInv'
  <2>1. [Blank(i) EXCEPT !.op = "get"] \in Request
        /\ [Blank(i) EXCEPT !.op = "get"].op = "get"
    BY BlankType DEF Request, OpNames, Blank
  <2>2. [Blank(i) EXCEPT !.op = "get"] \in Carried
    BY <2>1 DEF Carried
  <2>3. Work(c)'
    BY <1>2, <1>t, <2>2 DEF TypeOK, ReadRow, Goto, Work
  <2>4. QED
    BY <1>2, <1>t, <1>n, <2>3, WorkOfOne DEF TypeOK, ReadRow, Goto
<1>3. ASSUME NEW c \in Clients, NEW r \in Edits(c), Begin(c, r) PROVE WorkInv'
  <2>1. r \in Carried
    BY <1>t, SentIsCarried
  <2>2. clock' = clock + 1 /\ clock <= clock' /\ clock' \in 1..clock'
    BY <1>3, <1>n DEF Begin
  <2>3. Work(c)'
    BY <1>3, <1>t, <2>1, <2>2 DEF TypeOK, Begin, Goto, Work
  <2>4. QED
    BY <1>3, <1>t, <1>n, <2>2, <2>3, WorkOfOne DEF TypeOK, Begin, Goto
<1>4. ASSUME NEW c \in Clients, NEW i \in Items, NEW r \in Creates(i), CheckDuplicate(c, r)
      PROVE  WorkInv'
  <2>1. r \in Carried /\ r.op = "create"
    BY <1>t, SentIsCarried, CreateRequest
  <2>2. clock' = clock + 1 /\ clock <= clock'
    BY <1>4, <1>n DEF CheckDuplicate
  <2>3. Work(c)'
    BY <1>4, <1>t, <2>1 DEF TypeOK, CheckDuplicate, Goto, Work
  <2>4. QED
    BY <1>4, <1>t, <1>n, <2>2, <2>3, WorkOfOne DEF TypeOK, CheckDuplicate, Goto
<1>5. ASSUME NEW c \in Clients, Lock(c) PROVE WorkInv'
  <2>1. Work(c)'
    BY <1>5, <1>t DEF TypeOK, Lock, Goto, Work
  <2>2. QED
    BY <1>5, <1>t, <1>n, <2>1, WorkOfOne DEF TypeOK, Lock, Goto
<1>6. ASSUME NEW c \in Clients,
             \/ ApplyPatch(c) \/ ApplyAdd(c) \/ ApplyUpdate(c) \/ ApplyDelete(c)
             \/ ApplyBulk(c) \/ ApplyRename(c) \/ ApplyRemove(c)
      PROVE  WorkInv'
  <2>1. /\ \E l \in {"log", "commit"} : pc' = [pc EXCEPT ![c] = l]
        /\ UNCHANGED <<db, clock, req, start>>
        /\ \E w : work' = [work EXCEPT ![c] = w]
    BY <1>6 DEF ApplyPatch, ApplyAdd, ApplyUpdate, ApplyDelete, ApplyBulk, ApplyRename,
         ApplyRemove, Goto
  <2>2. Edited(db[req[c].item], work'[c], clock, nextId') /\ nextId <= nextId'
    BY <1>6, AppliedIsEdited
  <2>3. Work(c)'
    BY <1>t, <2>1, <2>2 DEF TypeOK, Work
  <2>4. QED
    BY <1>t, <1>n, <2>1, <2>2, <2>3, WorkOfOne DEF TypeOK
<1>7. ASSUME NEW c \in Clients,
             \/ ReadActivities(c) \/ ActivityMissing(c) \/ BulkConflict(c)
             \/ Abort(c) \/ RowGone(c) \/ InsertFails(c) \/ LogCreate(c)
      PROVE  WorkInv'
  <2>1. Finish(c) /\ UNCHANGED <<db, clock, nextId>>
    BY <1>7 DEF ReadActivities, ActivityMissing, BulkConflict, Abort, RowGone, InsertFails,
         LogCreate
  <2>2. QED
    BY <2>1, ReturnKeepsWork
<1>8. ASSUME NEW c \in Clients, LogEdit(c) PROVE WorkInv'
  <2>1. Work(c)'
    BY <1>8, <1>t DEF TypeOK, LogEdit, Goto, Work
  <2>2. QED
    BY <1>8, <1>t, <1>n, <2>1, WorkOfOne DEF TypeOK, LogEdit, Goto
<1>9. ASSUME NEW c \in Clients, InsertProduct(c) PROVE WorkInv'
  <2> DEFINE r == db[req[c].item]
  <2>1. PICK pl \in Placings(NewIds(nextId, req[c].adds)) :
           /\ pc' = [pc EXCEPT ![c] = "store"] /\ UNCHANGED <<db, clock, req, start>>
           /\ work' = [work EXCEPT ![c] = Created(r, nextId, req[c], pl)]
           /\ nextId' = nextId + req[c].adds
    BY <1>9 DEF InsertProduct, Goto
  <2>2. req[c] \in Carried /\ req[c].op = "create" /\ req[c].adds \in Nat
    BY <1>9, <1>t DEF Work, InsertProduct, Carried, Request
  <2>3. nextId <= nextId' /\ nextId \in FirstId..nextId'
    BY <1>n, <2>1, <2>2, BoundsAssumption DEF WorkInv
  <2>4. /\ ChangeOf(req[c]) \in Atomic!Change
        /\ Created(r, nextId, req[c], pl) = Created(r, nextId, ChangeOf(req[c]), pl)
        /\ pl \in Placings(NewIds(nextId, ChangeOf(req[c]).adds))
    BY <2>2, ChangeIsEnough
  <2>5. Made(r, Created(r, nextId, req[c], pl), nextId')
    BY <2>3, <2>4, Zenon DEF Made
  <2>6. Work(c)'
    BY <1>t, <2>1, <2>2, <2>5 DEF TypeOK, Work
  <2>7. QED
    BY <1>t, <1>n, <2>1, <2>3, <2>6, WorkOfOne DEF TypeOK
<1>10. ASSUME NEW c \in Clients, CommitEdit(c) PROVE WorkInv'
  <2>1. /\ Finish(c) /\ UNCHANGED <<clock, nextId>> /\ pc[c] = "commit"
        /\ db' = [db EXCEPT ![req[c].item] = work[c]]
    BY <1>10 DEF CommitEdit
  <2>2. owner[req[c].item] = c
    BY <1>t, <2>1 DEF ClientInv, Holding
  <2>3. \A i \in Items : owner[i] # c => db'[i] = db[i]
    BY <1>t, <2>1, <2>2 DEF TypeOK
  <2>4. QED
    BY <2>1, <2>3, ReturnKeepsWork
<1>11. ASSUME NEW c \in Clients, CommitCreate(c) PROVE WorkInv'
  <2>1. /\ pc' = [pc EXCEPT ![c] = "created"] /\ pc[c] = "store"
        /\ UNCHANGED <<clock, nextId, req, start, work>>
        /\ db' = [db EXCEPT ![req[c].item] = work[c]]
    BY <1>11 DEF CommitCreate, Goto
  <2>2. owner[req[c].item] = c
    BY <1>t, <2>1 DEF ClientInv, Holding
  <2>3. \A d \in Clients \ {c}, i \in Items : owner[i] = d => db'[i] = db[i]
    BY <1>t, <2>1, <2>2 DEF TypeOK
  <2>4. Work(c)'
    BY <1>t, <2>1 DEF TypeOK, Work
  <2>5. QED
    BY <1>t, <1>n, <2>1, <2>3, <2>4, WorkOfOne DEF TypeOK
<1>12. QED
  BY <1>1, <1>2, <1>3, <1>4, <1>5, <1>6, <1>7, <1>8, <1>9, <1>10, <1>11
  DEF Next, Ask, Acquire, Serve

LEMMA WorkInvariant == Spec => [](SafeInv /\ WorkInv)
<1>1. SafeInv /\ WorkInv /\ [Next]_vars => SafeInv' /\ WorkInv'
  BY SafeStep, WorkStep DEF SafeInv, TypeInv
<1>2. QED
  BY <1>1, SafeInit, WorkInit, PTL DEF Spec

-----------------------------------------------------------------------------
(* The commit of an edit is a step of AtomicEditing ... *)
LEMMA CommitIsAtomic ==
    ASSUME SafeInv, WorkInv, NEW c \in Clients, CommitEdit(c)
    PROVE  Atomic!Next
<1> DEFINE i == req[c].item
           w == work[c]
           r == db[i]
<1>1. /\ i \in Items /\ r.live
      /\ db' = [db EXCEPT ![i] = w] /\ UNCHANGED <<clock, nextId>>
      /\ Edited(r, w, clock, nextId)
  <2>1. ClientInv(c) /\ Work(c) /\ pc[c] = "commit" /\ i \in Items
    BY DEF CommitEdit, SafeInv, TypeInv, TypeOK, LockInv, WorkInv, Request
  <2>2. QED
    BY <2>1 DEF ClientInv, Editing, Work, CommitEdit
<1> HIDE DEF i, w, r
<1>2. ASSUME NEW S, w \in S PROVE Atomic!Becomes(i, S)
  BY <1>1, <1>2 DEF Atomic!Becomes
<1>3. r = db[i]
  BY DEF r
<1>4. CASE \E m \in Metas, at \in 1..clock : w \in PatchOutcomes(r, r.now.rev, at, m)
  <2>1. Atomic!Patch(i)
    BY <1>1, <1>2, <1>3, <1>4, SameOutcomes DEF Atomic!Patch
  <2>2. QED
    BY <1>1, <2>1 DEF Atomic!Next
<1>5. CASE \E v \in Vals, s \in Skips, at \in 1..clock, id \in FirstId..(nextId - 1) :
              w \in AddOutcomes(r, r.now.rev, at, id, v, s)
  <2>1. Atomic!Add(i)
    BY <1>1, <1>2, <1>3, <1>5, SameOutcomes DEF Atomic!Add
  <2>2. QED
    BY <1>1, <2>1 DEF Atomic!Next
<1>6. CASE \E v \in Vals, s \in Skips, at \in 1..clock, id \in Ids(r.now.acts) :
              \E pl \in Placings({id}) : w \in UpdateOutcomes(r, r.now.rev, at, id, v, pl, s)
  <2>1. Atomic!Update(i)
    BY <1>1, <1>2, <1>3, <1>6, SameOutcomes DEF Atomic!Update
  <2>2. QED
    BY <1>1, <2>1 DEF Atomic!Next
<1>7. CASE \E s \in Skips, at \in 1..clock, id \in Ids(r.now.acts) :
              w \in DeleteOutcomes(r, r.now.rev, at, id, s)
  <2>1. Atomic!Delete(i)
    BY <1>1, <1>2, <1>3, <1>7, SameOutcomes DEF Atomic!Delete
  <2>2. QED
    BY <1>1, <2>1 DEF Atomic!Next
<1>8. CASE \E q \in Atomic!Change, at \in 1..clock, id \in FirstId..nextId :
              \E pl \in Placings(q.upd \cup NewIds(id, q.adds)) :
                 w \in BulkOutcomes(r, r.now.rev, at, id, q, pl)
  <2>1. Atomic!Bulk(i)
    BY <1>1, <1>2, <1>3, <1>8, SameOutcomes DEF Atomic!Bulk
  <2>2. QED
    BY <1>1, <2>1 DEF Atomic!Next
<1>9. CASE \E m \in Metas : w = Renamed(r, m)
  <2>1. Atomic!Rename(i)
    BY <1>1, <1>2, <1>3, <1>9, SameOutcomes DEF Atomic!Rename
  <2>2. QED
    BY <1>1, <2>1 DEF Atomic!Next
<1>10. CASE w = Absent
  <2>1. Atomic!Remove(i)
    BY <1>1, <1>2, <1>3, <1>10, SameOutcomes DEF Atomic!Remove
  <2>2. QED
    BY <1>1, <2>1 DEF Atomic!Next
<1>11. QED
  BY <1>1, <1>4, <1>5, <1>6, <1>7, <1>8, <1>9, <1>10 DEF Edited

(* ... and so is the commit of a creation ... *)
LEMMA CreationIsAtomic ==
    ASSUME SafeInv, WorkInv, NEW c \in Clients, CommitCreate(c)
    PROVE  Atomic!Next
<1> DEFINE i == req[c].item
<1>1. /\ i \in Items /\ ~db[i].live
      /\ db' = [db EXCEPT ![i] = work[c]] /\ UNCHANGED <<clock, nextId>>
      /\ Made(db[i], work[c], nextId)
  <2>1. ClientInv(c) /\ Work(c) /\ pc[c] = "store" /\ i \in Items
    BY DEF CommitCreate, SafeInv, TypeInv, TypeOK, LockInv, WorkInv, Request
  <2>2. QED
    BY <2>1 DEF ClientInv, Work, CommitCreate
<1> HIDE DEF i
<1>2. PICK q \in Atomic!Change, id \in FirstId..nextId :
         \E pl \in Placings(NewIds(id, q.adds)) : work[c] = Created(db[i], id, q, pl)
  BY <1>1 DEF Made
<1>3. \E pl \in Atomic!Placings(Atomic!NewIds(id, q.adds)) :
         Atomic!Becomes(i, {Atomic!Created(db[i], id, q, pl)})
  BY <1>1, <1>2, SameOutcomes DEF Atomic!Becomes
<1>4. Atomic!Create(i)
  BY <1>1, <1>2, <1>3 DEF Atomic!Create
<1>5. QED
  BY <1>1, <1>4 DEF Atomic!Next

(* ... while every other step changes nothing that is stored. *)
LEMMA StepIsAtomic ==
    SafeInv /\ WorkInv /\ TypeOK' /\ [Next]_vars => [Atomic!Next]_(Atomic!vars)
<1> SUFFICES ASSUME SafeInv, WorkInv, TypeOK', [Next]_vars
             PROVE  [Atomic!Next]_(Atomic!vars)
  OBVIOUS
<1>t. /\ clock \in Nat /\ nextId \in Nat /\ clock' \in Nat /\ nextId' \in Nat
      /\ \A c \in Clients : req[c].adds \in Nat
  BY DEF SafeInv, TypeInv, TypeOK, Request
<1>1. CASE UNCHANGED vars
  BY <1>1 DEF vars, Atomic!vars
<1>2. ASSUME NEW c \in Clients, CommitEdit(c) PROVE Atomic!Next
  BY <1>2, CommitIsAtomic
<1>3. ASSUME NEW c \in Clients, CommitCreate(c) PROVE Atomic!Next
  BY <1>3, CreationIsAtomic
<1>4. ASSUME UNCHANGED db,
             clock' = clock \/ clock' = clock + 1,
             \/ nextId' = nextId \/ nextId' = nextId + 1
             \/ \E c \in Clients : nextId' = nextId + req[c].adds
      PROVE  Atomic!Next
  BY <1>4, <1>t DEF Atomic!Next, Atomic!Draw
<1>5. ASSUME NEW c \in Clients, Ask(c) PROVE Atomic!Next
  BY <1>4, <1>5 DEF Ask, ReadRow, Begin, CheckDuplicate
<1>6. ASSUME NEW c \in Clients, Acquire(c) \/ Abort(c) PROVE Atomic!Next
  BY <1>4, <1>6 DEF Acquire, Lock, RowGone, InsertProduct, InsertFails, Abort
<1>7. ASSUME NEW c \in Clients, Serve(c) PROVE Atomic!Next
  BY <1>2, <1>3, <1>4, <1>7 DEF Serve, ReadActivities, ApplyPatch, ApplyAdd, ApplyUpdate,
     ApplyDelete, ActivityMissing, ApplyBulk, BulkConflict, ApplyRename, ApplyRemove,
     LogEdit, LogCreate
<1>8. QED
  BY <1>1, <1>5, <1>6, <1>7 DEF Next

(* Whatever clients send, however their transactions interleave, wait, fail or
   are aborted: what is stored changes as if every request that succeeds took
   effect at once, computed from what is stored at that moment. *)
THEOREM EditsAreSerializable == Spec => Serializable
<1>1. Init => Atomic!Init
  BY DEF Init, Atomic!Init
<1>2. SafeInv => TypeOK
  BY DEF SafeInv, TypeInv
<1>3. Spec => Atomic!Init /\ [][Atomic!Next]_(Atomic!vars)
  BY <1>1, <1>2, WorkInvariant, StepIsAtomic, PTL DEF Spec
<1>4. QED
  BY <1>3 DEF Serializable, Atomic!Spec

-----------------------------------------------------------------------------
(***************************************************************************)
(* 5. The history of an item.  A snapshot tells the time at which the      *)
(* transaction that took it began, and no two transactions began at the    *)
(* same time; so a snapshot that is stored is nobody's who is still at     *)
(* work, and every revision below the stored one has had its own.          *)
(***************************************************************************)
(* The transaction of an edit is open. *)
Dated(c) == pc[c] \in {"lock", "apply", "log", "commit"}

(* In w an activity that r does not have comes last. *)
ComesLast(r, w) ==
    \E a \in w.now.acts : /\ a \notin r.now.acts
                          /\ w.now.acts = r.now.acts \cup {a}
                          /\ \A b \in r.now.acts : b.ord < a.ord

(* What it will leave in the archive, and has left in activity_logs. *)
Recorded(c) ==
    LET r  == db[req[c].item]
        op == req[c].op
    IN  /\ Dated(c) => start[c] <= clock
        /\ Decided(c) /\ op \notin {"rename", "remove"} =>
              work[c].arch \in Archived(r, Pictured(op, r, work[c]), old[c], start[c])
        /\ Decided(c) /\ op = "rename" =>
              work[c].arch = r.arch /\ work[c].now.acts = r.now.acts
        /\ Decided(c) /\ op = "add" => ComesLast(r, work[c])
        /\ pc[c] = "commit" /\ op # "rename" /\ ~AuditFaults =>
              \E e \in audit : e.item = req[c].item /\ e.at = start[c]
        /\ pc[c] = "store" => work[c].now.rev = 0

(* No two transactions start at the same time ... *)
Apart == \A c, d \in Clients : Dated(c) /\ Dated(d) /\ start[c] = start[d] => c = d

(* ... nor one at the time of a snapshot that is stored already. *)
Fresh(s) == s.at <= clock /\ \A c \in Clients : Dated(c) => start[c] # s.at

Complete(r) ==
    Cardinality(r.arch) < Keep =>
        \A k \in 0..(r.now.rev - 1) : \E s \in r.arch : s.rev = k

Logged(i, s) == ~AuditFaults => \E e \in audit : e.item = i /\ e.at = s.at

Kept(i) ==
    /\ IsFiniteSet(db[i].arch)
    /\ ~db[i].live => db[i].arch = {}
    /\ Complete(db[i])
    /\ \A s \in db[i].arch : Fresh(s) /\ Logged(i, s)

HistoryInv == (\A c \in Clients : Recorded(c)) /\ Apart /\ (\A i \in Items : Kept(i))

-----------------------------------------------------------------------------
(* A step of client c that stores nothing keeps the history, if c keeps its
   timestamp or draws a later one. *)
LEMMA HistoryKept ==
    ASSUME TypeOK, HistoryInv, TypeOK', NEW c \in Clients,
           db' = db, clock <= clock', audit \subseteq audit',
           \A d \in Clients \ {c} :
              /\ pc'[d] = pc[d] /\ req'[d] = req[d] /\ old'[d] = old[d]
              /\ start'[d] = start[d] /\ work'[d] = work[d],
           Recorded(c)',
           Dated(c)' => \/ Dated(c) /\ start'[c] = start[c]
                        \/ start'[c] > clock
    PROVE  HistoryInv'
<1>t. /\ clock \in Nat /\ clock' \in Nat
      /\ \A d \in Clients : start[d] \in Nat /\ start'[d] \in Nat
      /\ \A i \in Items : \A s \in db[i].arch : s.at \in Nat
  BY DEF TypeOK, Record, Snapshot
<1>d. \A d \in Clients \ {c} : Dated(d)' <=> Dated(d)
  BY DEF Dated
<1>1. \A d \in Clients : Recorded(d)'
  <2>1. ASSUME NEW d \in Clients \ {c} PROVE Recorded(d)'
    <3>1. Recorded(d)
      BY DEF HistoryInv
    <3>2. Dated(d)' => start'[d] <= clock'
      BY <1>t, <1>d, <3>1 DEF Recorded
    <3>3. (\E e \in audit : e.item = req[d].item /\ e.at = start[d])
             => \E e \in audit' : e.item = req[d].item /\ e.at = start[d]
      OBVIOUS
    <3>4. QED
      BY <3>1, <3>2, <3>3 DEF Recorded, Decided
  <2>2. QED
    BY <2>1
<1>2. Apart'
  <2>1. \A d \in Clients : Dated(d) => start[d] <= clock
    BY DEF HistoryInv, Recorded
  <2>2. ASSUME NEW d \in Clients, NEW e \in Clients, Dated(d)', Dated(e)', start'[d] = start'[e]
        PROVE  d = e
    BY <1>t, <1>d, <2>1, <2>2 DEF HistoryInv, Apart
  <2>3. QED
    BY <2>2 DEF Apart
<1>3. ASSUME NEW i \in Items PROVE Kept(i)'
  <2>1. Kept(i)
    BY DEF HistoryInv
  <2>2. ASSUME NEW s \in db[i].arch PROVE Fresh(s)' /\ Logged(i, s)'
    <3>1. Fresh(s) /\ Logged(i, s)
      BY <2>1 DEF Kept
    <3>2. Fresh(s)'
      BY <1>t, <1>d, <3>1 DEF Fresh
    <3>3. Logged(i, s)'
      BY <3>1 DEF Logged
    <3>4. QED
      BY <3>2, <3>3
  <2>3. QED
    BY <2>1, <2>2 DEF Kept, Complete
<1>4. QED
  BY <1>1, <1>2, <1>3 DEF HistoryInv

(* A handler that returns has no transaction any more. *)
LEMMA ReturnKeepsHistory ==
    ASSUME TypeOK, HistoryInv, TypeOK', NEW c \in Clients, Finish(c),
           db' = db, clock' = clock, audit \subseteq audit'
    PROVE  HistoryInv'
<1>1. /\ pc'[c] = "idle" /\ clock <= clock'
      /\ \A d \in Clients \ {c} :
            /\ pc'[d] = pc[d] /\ req'[d] = req[d] /\ old'[d] = old[d]
            /\ start'[d] = start[d] /\ work'[d] = work[d]
  BY DEF Finish, Goto, TypeOK
<1>2. Recorded(c)' /\ ~Dated(c)'
  BY <1>1 DEF Recorded, Dated, Decided
<1>3. QED
  BY <1>1, <1>2, HistoryKept

(* What an edit stores: the snapshot it has announced, and no revision that
   no snapshot stands for. *)
LEMMA EditKeepsRecord ==
    ASSUME SafeInv, HistoryInv, NEW c \in Clients, pc[c] = "commit"
    PROVE  LET r == db[req[c].item]
               w == work[c]
           IN  /\ IsFiniteSet(w.arch)
               /\ ~w.live => w.arch = {}
               /\ Complete(w)
               /\ \A s \in w.arch :
                     s \in r.arch \/ (s.at = start[c] /\ req[c].op # "rename")
<1> DEFINE r == db[req[c].item]
           w == work[c]
           n == Pictured(req[c].op, r, w)
           new == [rev |-> old[c], was |-> n, at |-> start[c]]
<1>1. /\ req[c].item \in Items /\ r \in Record
      /\ ClientInv(c) /\ Recorded(c) /\ Kept(req[c].item)
      /\ Cardinality(r.arch) <= Keep
  BY DEF SafeInv, TypeInv, TypeOK, Request, LockInv, HistoryInv, ArchiveBounded
<1>a. CASE req[c].op = "remove"
  <2>1. w = Absent
    BY <1>1, <1>a DEF ClientInv, Decided
  <2>2. w.arch = {} /\ w.now.rev = 0
    BY <2>1 DEF Absent, NoContent
  <2>3. Complete(w)
    BY <2>2 DEF Complete
  <2>4. QED
    BY <2>2, <2>3, FS_EmptySet
<1>b. CASE req[c].op = "rename"
  <2>1. w \in EditOf(r, old[c], TRUE) /\ w.arch = r.arch /\ r.live
    BY <1>1, <1>b DEF ClientInv, Recorded, Editing, Decided, Uncounted
  <2>2. w.live /\ w.now.rev = r.now.rev
    BY <2>1 DEF EditOf
  <2>3. IsFiniteSet(r.arch) /\ Complete(r)
    BY <1>1 DEF Kept
  <2>4. Complete(w)
    BY <2>1, <2>2, <2>3 DEF Complete
  <2>5. /\ IsFiniteSet(w.arch)
        /\ \A s \in w.arch : s \in r.arch
    BY <2>1, <2>3
  <2>6. QED
    BY <2>2, <2>4, <2>5
<1>c. SUFFICES ASSUME req[c].op \notin {"rename", "remove"}
               PROVE  /\ IsFiniteSet(w.arch)
                      /\ w.live
                      /\ Complete(w)
                      /\ \A s \in w.arch : s \in r.arch \/ s.at = start[c]
  BY <1>a, <1>b
<1>2. /\ old[c] = r.now.rev /\ w \in EditOf(r, old[c], Uncounted(req[c]))
      /\ r.live
  BY <1>1, <1>c DEF ClientInv, Editing, Decided
<1>3. w.arch \in Archived(r, n, old[c], start[c])
  BY <1>1, <1>c DEF Recorded, Decided
<1>4. /\ IsFiniteSet(r.arch) /\ Complete(r)
      /\ \A s \in r.arch : s.at # start[c]
  BY <1>1 DEF Kept, Fresh, Dated
<1> HIDE DEF r, w, n
<1>5. /\ w.arch \subseteq r.arch \cup {new}
      /\ IsFiniteSet(w.arch)
      /\ Cardinality(w.arch) < Keep => w.arch = r.arch \cup {new}
  BY <1>1, <1>3, <1>4, ArchivedKeeps
<1>6. new.rev = r.now.rev /\ new.at = start[c]
  BY <1>2
<1>7. r.now.rev \in Nat /\ w.now.rev \in {r.now.rev, r.now.rev + 1} /\ w.live
  BY <1>1, <1>2 DEF EditOf, Record, Content
<1> HIDE DEF new
<1>8. Complete(w)
  <2> SUFFICES ASSUME Cardinality(w.arch) < Keep, NEW k \in 0..(w.now.rev - 1)
               PROVE  \E s \in w.arch : s.rev = k
    BY DEF Complete
  <2>1. w.arch = r.arch \cup {new}
    BY <1>5
  <2>2. CASE k = r.now.rev
    BY <1>6, <2>1, <2>2
  <2>3. CASE k # r.now.rev
    <3>1. k \in 0..(r.now.rev - 1)
      BY <1>7, <2>3
    <3>2. IsFiniteSet(w.arch) /\ Cardinality(r.arch) <= Cardinality(w.arch)
      BY <1>5, <2>1, FS_Subset
    <3>3. Cardinality(r.arch) < Keep
      BY <1>4, <1>5, <3>2, FS_CardinalityType, KeepAssumption
    <3>4. QED
      BY <1>4, <2>1, <3>1, <3>3 DEF Complete
  <2>4. QED
    BY <2>2, <2>3
<1>9. QED
  BY <1>5, <1>6, <1>7, <1>8 DEF r, w

(* Whoever commits an item holds its row, so other transactions neither lose
   what they have computed nor meet a snapshot with their own timestamp. *)
LEMMA CommitKeepsHistory ==
    ASSUME SafeInv, HistoryInv, TypeOK', NEW c \in Clients, NEW i \in Items,
           owner[i] = c, i = req[c].item,
           db' = [db EXCEPT ![i] = work[c]],
           clock' = clock, audit' = audit, pc'[c] \in {"idle", "created"},
           \A d \in Clients \ {c} :
              /\ pc'[d] = pc[d] /\ req'[d] = req[d] /\ old'[d] = old[d]
              /\ start'[d] = start[d] /\ work'[d] = work[d],
           Kept(i)'
    PROVE  HistoryInv'
<1>t. TypeOK /\ \A d \in Clients : ClientInv(d) /\ Recorded(d) /\ req[d].item \in Items
  BY DEF SafeInv, TypeInv, TypeOK, Request, LockInv, HistoryInv
<1>d. \A d \in Clients : Dated(d)' => Dated(d) /\ start'[d] = start[d] /\ d # c
  BY DEF Dated
<1>o. \A j \in Items \ {i} : db'[j] = db[j]
  BY <1>t DEF TypeOK
<1>1. \A d \in Clients : Recorded(d)'
  <2>1. ASSUME NEW d \in Clients \ {c} PROVE Recorded(d)'
    <3>1. Decided(d) => req[d].item # i
      BY <1>t, <2>1 DEF ClientInv, Holding, Decided
    <3>2. Decided(d) => db'[req[d].item] = db[req[d].item]
      BY <1>t, <1>o, <3>1
    <3>3. Dated(d)' => Dated(d)
      BY <1>d
    <3>4. QED
      BY <1>t, <3>2, <3>3 DEF Recorded, Decided
  <2>2. Recorded(c)'
    BY DEF Recorded, Dated, Decided
  <2>3. QED
    BY <2>1, <2>2
<1>2. Apart'
  BY <1>d DEF HistoryInv, Apart
<1>3. ASSUME NEW j \in Items \ {i} PROVE Kept(j)'
  <2>1. Kept(j) /\ db'[j] = db[j]
    BY <1>o DEF HistoryInv
  <2>2. \A s \in db[j].arch : Fresh(s)'
    BY <1>d, <2>1 DEF Kept, Fresh
  <2>3. \A s \in db[j].arch : Logged(j, s)'
    BY <2>1 DEF Kept, Logged
  <2>4. QED
    BY <2>1, <2>2, <2>3 DEF Kept, Complete
<1>4. QED
  BY <1>1, <1>2, <1>3 DEF HistoryInv

LEMMA EditCommitKeepsHistory ==
    ASSUME SafeInv, HistoryInv, TypeOK', NEW c \in Clients, CommitEdit(c)
    PROVE  HistoryInv'
<1>0. PICK i \in Items : i = req[c].item
  BY DEF SafeInv, TypeInv, TypeOK, Request
<1>1. /\ TypeOK /\ i \in Items /\ owner[i] = c /\ pc[c] = "commit"
      /\ db' = [db EXCEPT ![i] = work[c]]
      /\ Finish(c) /\ clock' = clock /\ audit' = audit
  BY <1>0 DEF CommitEdit, SafeInv, TypeInv, LockInv, ClientInv, Holding
<1>2. /\ ~Dated(c)' /\ pc'[c] \in {"idle", "created"}
      /\ \A d \in Clients \ {c} :
            /\ pc'[d] = pc[d] /\ req'[d] = req[d] /\ old'[d] = old[d]
            /\ start'[d] = start[d] /\ work'[d] = work[d]
  BY <1>1 DEF Finish, Goto, TypeOK, Dated
<1>3. db'[i] = work[c]
  BY <1>1 DEF TypeOK
<1>4. /\ IsFiniteSet(work[c].arch) /\ Complete(work[c])
      /\ ~work[c].live => work[c].arch = {}
      /\ \A s \in work[c].arch :
            s \in db[i].arch \/ (s.at = start[c] /\ req[c].op # "rename")
  BY <1>0, <1>1, EditKeepsRecord
<1>5. Recorded(c) /\ Kept(i) /\ Apart /\ Dated(c)
  BY <1>1 DEF HistoryInv, Dated
<1>6. ASSUME NEW s \in work[c].arch PROVE Fresh(s)' /\ Logged(i, s)'
  <2>1. CASE s \in db[i].arch
    <3>1. Fresh(s) /\ Logged(i, s)
      BY <1>5, <2>1 DEF Kept
    <3>2. Fresh(s)'
      BY <1>1, <1>2, <3>1 DEF Fresh, Dated
    <3>3. QED
      BY <1>1, <3>1, <3>2 DEF Logged
  <2>2. CASE s.at = start[c] /\ req[c].op # "rename"
    <3>1. start[c] <= clock /\ \A d \in Clients \ {c} : Dated(d) => start[d] # s.at
      BY <1>5, <2>2 DEF Recorded, Apart
    <3>2. Fresh(s)'
      BY <1>1, <1>2, <2>2, <3>1 DEF Fresh, Dated
    <3>3. Logged(i, s)'
      BY <1>0, <1>1, <1>5, <2>2 DEF Recorded, Logged
    <3>4. QED
      BY <3>2, <3>3
  <2>3. QED
    BY <1>4, <2>1, <2>2
<1>7. Kept(i)'
  BY <1>3, <1>4, <1>6 DEF Kept, Complete
<1>8. QED
  BY <1>0, <1>1, <1>2, <1>7, CommitKeepsHistory

LEMMA CreationKeepsHistory ==
    ASSUME SafeInv, HistoryInv, TypeOK', NEW c \in Clients, CommitCreate(c)
    PROVE  HistoryInv'
<1>0. PICK i \in Items : i = req[c].item
  BY DEF SafeInv, TypeInv, TypeOK, Request
<1>1. /\ TypeOK /\ i \in Items /\ owner[i] = c
      /\ work[c].live /\ work[c].arch = db[i].arch /\ ~db[i].live
      /\ db' = [db EXCEPT ![i] = work[c]]
      /\ pc' = [pc EXCEPT ![c] = "created"]
      /\ UNCHANGED <<clock, audit, req, old, start, work>>
  BY <1>0 DEF CommitCreate, Goto, SafeInv, TypeInv, LockInv, ClientInv, Holding
<1>2. pc'[c] = "created" /\ ~Dated(c)' /\ \A d \in Clients \ {c} : pc'[d] = pc[d]
  BY <1>1 DEF TypeOK, Dated
<1>3. db'[i] = work[c]
  BY <1>1 DEF TypeOK
<1>4. Kept(i) /\ work[c].now.rev = 0
  BY <1>1 DEF HistoryInv, Recorded, CommitCreate
<1>5. work[c].arch = {}
  BY <1>1, <1>4 DEF Kept
<1>6. Complete(work[c])
  BY <1>4 DEF Complete
<1>7. Kept(i)'
  BY <1>1, <1>3, <1>5, <1>6, FS_EmptySet DEF Kept, Complete
<1>8. QED
  BY <1>0, <1>1, <1>2, <1>7, CommitKeepsHistory

(* Computing the new record, the handler takes its snapshot. *)
LEMMA ApplyKeepsHistory ==
    ASSUME SafeInv, HistoryInv, TypeOK', NEW c \in Clients,
           \/ ApplyPatch(c) \/ ApplyAdd(c) \/ ApplyUpdate(c) \/ ApplyDelete(c)
           \/ ApplyBulk(c) \/ ApplyRename(c) \/ ApplyRemove(c)
    PROVE  HistoryInv'
<1> DEFINE r == db[req[c].item]
           w == work'[c]
<1>1. /\ TypeOK /\ pc[c] = "apply" /\ Recorded(c)
      /\ UNCHANGED <<db, clock, audit, req, old, start>>
      /\ pc' = [pc EXCEPT ![c] = IF req[c].op = "rename" THEN "commit" ELSE "log"]
      /\ \E x : work' = [work EXCEPT ![c] = x]
  BY DEF SafeInv, TypeInv, HistoryInv, ApplyPatch, ApplyAdd, ApplyUpdate, ApplyDelete,
     ApplyBulk, ApplyRename, ApplyRemove, Applying, Goto
<1>2. /\ r \in Record /\ old[c] \in Nat /\ start[c] \in Nat /\ nextId \in Nat
      /\ req[c].meta \in Metas \cup {Unset} /\ req[c].act \in Nat /\ req[c].val \in Vals \cup {Unset} /\ req[c].skip \in BOOLEAN
      /\ clock \in Nat
  BY <1>1 DEF TypeOK, Request
<1>3. ASSUME NEW S, \E x \in S : work' = [work EXCEPT ![c] = x]
      PROVE  w \in S
  BY <1>1, <1>3 DEF TypeOK
<1>4. /\ req[c].op \notin {"rename", "remove"} =>
            w.arch \in Archived(r, Pictured(req[c].op, r, w), old[c], start[c])
      /\ req[c].op = "rename" => w.arch = r.arch /\ w.now.acts = r.now.acts
      /\ req[c].op = "add" => ComesLast(r, w)
  <2>1. CASE ApplyPatch(c)
    <3>1. /\ req[c].op = "patch"
          /\ w \in PatchOutcomes(r, old[c], start[c], req[c].meta)
      BY <1>3, <2>1 DEF ApplyPatch, Applying
    <3>2. QED
      BY <1>2, <3>1, OutcomesArchive
  <2>2. CASE ApplyAdd(c)
    <3>1. /\ req[c].op = "add"
          /\ w \in AddOutcomes(r, old[c], start[c], nextId, req[c].val, req[c].skip)
      BY <1>3, <2>2 DEF ApplyAdd, Applying
    <3>2. ComesLast(r, w)
      BY <1>2, <3>1, AddedComesLast DEF ComesLast
    <3>3. QED
      BY <1>2, <3>1, <3>2, OutcomesArchive
  <2>3. CASE ApplyUpdate(c)
    <3>1. /\ req[c].op = "update"
          /\ \E pl \in Placings({req[c].act}) :
                w \in UpdateOutcomes(r, old[c], start[c], req[c].act, req[c].val, pl, req[c].skip)
      BY <1>3, <2>3 DEF ApplyUpdate, Applying
    <3>2. QED
      BY <1>2, <3>1, OutcomesArchive
  <2>4. CASE ApplyDelete(c)
    <3>1. /\ req[c].op = "delete"
          /\ w \in DeleteOutcomes(r, old[c], start[c], req[c].act, req[c].skip)
      BY <1>3, <2>4 DEF ApplyDelete, Applying
    <3>2. QED
      BY <1>2, <3>1, OutcomesArchive
  <2>5. CASE ApplyBulk(c)
    <3>1. /\ req[c].op = "bulk"
          /\ \E pl : w \in BulkOutcomes(r, old[c], start[c], nextId, req[c], pl)
      BY <1>3, <2>5 DEF ApplyBulk, Applying
    <3>2. QED
      BY <1>2, <3>1, OutcomesArchive
  <2>6. CASE ApplyRename(c)
    <3>1. req[c].op = "rename" /\ w = Renamed(r, req[c].meta)
      BY <1>1, <2>6 DEF ApplyRename, Applying, TypeOK
    <3>2. QED
      BY <1>2, <3>1, RenamedLemma
  <2>7. CASE ApplyRemove(c)
    BY <2>7 DEF ApplyRemove, Applying
  <2>8. QED
    BY <2>1, <2>2, <2>3, <2>4, <2>5, <2>6, <2>7
<1>5. /\ pc'[c] = (IF req[c].op = "rename" THEN "commit" ELSE "log")
      /\ Dated(c)
  BY <1>1 DEF TypeOK, Dated
<1>6. Recorded(c)'
  BY <1>1, <1>4, <1>5 DEF Recorded, Dated, Decided
<1>7. \A d \in Clients \ {c} : pc'[d] = pc[d] /\ work'[d] = work[d]
  BY <1>1 DEF TypeOK
<1>8. QED
  BY <1>1, <1>2, <1>5, <1>6, <1>7, HistoryKept

LEMMA HistoryInit == Init => HistoryInv
<1> SUFFICES ASSUME Init PROVE HistoryInv
  OBVIOUS
<1>1. \A c \in Clients : Recorded(c) /\ ~Dated(c)
  BY DEF Init, Recorded, Dated, Decided
<1>2. ASSUME NEW i \in Items PROVE Kept(i)
  <2>1. db[i].now.rev = 0 /\ db[i].arch = {}
    BY SeedAssumption DEF Init
  <2>2. QED
    BY <2>1, FS_EmptySet DEF Kept, Complete
<1>3. QED
  BY <1>1, <1>2 DEF HistoryInv, Apart

LEMMA HistoryStep == SafeInv /\ HistoryInv /\ SafeInv' /\ [Next]_vars => HistoryInv'
<1> SUFFICES ASSUME SafeInv, HistoryInv, SafeInv', [Next]_vars PROVE HistoryInv'
  OBVIOUS
<1>t. /\ TypeOK /\ TypeOK' /\ clock \in Nat
      /\ \A c \in Clients : Recorded(c)
  BY DEF SafeInv, TypeInv, TypeOK, HistoryInv
<1>1. CASE UNCHANGED vars
  BY <1>1 DEF vars, HistoryInv, Recorded, Apart, Kept, Fresh, Logged, Complete, Dated,
     Decided
<1>2. ASSUME NEW c \in Clients, NEW i \in Items, ReadRow(c, i) PROVE HistoryInv'
  <2>1. Recorded(c)' /\ ~Dated(c)'
    BY <1>2, <1>t DEF TypeOK, ReadRow, Goto, Recorded, Dated, Decided
  <2>2. QED
    BY <1>2, <1>t, <2>1, HistoryKept DEF TypeOK, ReadRow, Goto
<1>3. ASSUME NEW c \in Clients, NEW r \in Edits(c), Begin(c, r) PROVE HistoryInv'
  <2>1. clock' = clock + 1 /\ start'[c] = clock' /\ req'[c] = r /\ pc'[c] = "lock"
    BY <1>3, <1>t DEF TypeOK, Begin, Goto
  <2>2. Recorded(c)'
    BY <1>t, <2>1 DEF Recorded, Dated, Decided
  <2>3. start'[c] > clock /\ clock <= clock'
    BY <1>t, <2>1
  <2>4. QED
    BY <1>3, <1>t, <2>2, <2>3, HistoryKept DEF TypeOK, Begin, Goto
<1>4. ASSUME NEW c \in Clients, NEW i \in Items, NEW r \in Creates(i), CheckDuplicate(c, r)
      PROVE  HistoryInv'
  <2>1. clock' = clock + 1 /\ pc'[c] = "insert"
    BY <1>4, <1>t DEF TypeOK, CheckDuplicate, Goto
  <2>2. Recorded(c)' /\ ~Dated(c)' /\ clock <= clock'
    BY <1>t, <2>1 DEF Recorded, Dated, Decided
  <2>3. QED
    BY <1>4, <1>t, <2>2, HistoryKept DEF TypeOK, CheckDuplicate, Goto
<1>5. ASSUME NEW c \in Clients, Lock(c) PROVE HistoryInv'
  <2>1. Dated(c) /\ Recorded(c)'
    BY <1>5, <1>t DEF TypeOK, Lock, Goto, Recorded, Dated, Decided
  <2>2. QED
    BY <1>5, <1>t, <2>1, HistoryKept DEF TypeOK, Lock, Goto
<1>6. ASSUME NEW c \in Clients,
             \/ ApplyPatch(c) \/ ApplyAdd(c) \/ ApplyUpdate(c) \/ ApplyDelete(c)
             \/ ApplyBulk(c) \/ ApplyRename(c) \/ ApplyRemove(c)
      PROVE  HistoryInv'
  BY <1>6, <1>t, ApplyKeepsHistory
<1>7. ASSUME NEW c \in Clients,
             \/ ReadActivities(c) \/ ActivityMissing(c) \/ BulkConflict(c)
             \/ Abort(c) \/ RowGone(c) \/ InsertFails(c) \/ LogCreate(c)
      PROVE  HistoryInv'
  <2>1. Finish(c) /\ db' = db /\ clock' = clock /\ audit \subseteq audit'
    BY <1>7 DEF ReadActivities, ActivityMissing, BulkConflict, Abort, RowGone, InsertFails,
       LogCreate, WriteAudit
  <2>2. QED
    BY <1>t, <2>1, ReturnKeepsHistory
<1>8. ASSUME NEW c \in Clients, LogEdit(c) PROVE HistoryInv'
  <2>1. /\ pc[c] = "log" /\ pc'[c] = "commit" /\ audit \subseteq audit'
        /\ UNCHANGED <<db, clock, req, start, old, work>>
    BY <1>8, <1>t DEF TypeOK, LogEdit, Goto, WriteAudit
  <2>2. ~AuditFaults => \E e \in audit' : e.item = req[c].item /\ e.at = start[c]
    <3> DEFINE row == [item |-> req[c].item, at |-> start[c], rev |-> work[c].now.rev]
    <3>1. row.item = req[c].item /\ row.at = start[c]
      OBVIOUS
    <3>2. ~AuditFaults => row \in audit'
      BY <1>8 DEF LogEdit, WriteAudit
    <3> HIDE DEF row
    <3>3. QED
      BY <3>1, <3>2
  <2>3. Dated(c) /\ Recorded(c)'
    BY <1>t, <2>1, <2>2 DEF Recorded, Dated, Decided
  <2>4. QED
    BY <1>8, <1>t, <2>1, <2>3, HistoryKept DEF TypeOK, LogEdit, Goto
<1>9. ASSUME NEW c \in Clients, InsertProduct(c) PROVE HistoryInv'
  <2>1. /\ \E pl \in Placings(NewIds(nextId, req[c].adds)) :
              work'[c] = Created(db[req[c].item], nextId, req[c], pl)
        /\ db[req[c].item] \in Record /\ req[c] \in Request /\ nextId \in Nat
    BY <1>9, <1>t DEF TypeOK, InsertProduct, Request
  <2>2. work'[c].now.rev = 0
    BY <2>1, ChangeType, CreatedLemma
  <2>3. Recorded(c)' /\ ~Dated(c)'
    BY <1>9, <1>t, <2>2 DEF TypeOK, InsertProduct, Goto, Recorded, Dated, Decided
  <2>4. QED
    BY <1>9, <1>t, <2>3, HistoryKept DEF TypeOK, InsertProduct, Goto
<1>10. ASSUME NEW c \in Clients, CommitEdit(c) \/ CommitCreate(c) PROVE HistoryInv'
  BY <1>10, <1>t, EditCommitKeepsHistory, CreationKeepsHistory
<1>11. QED
  BY <1>1, <1>2, <1>3, <1>4, <1>5, <1>6, <1>7, <1>8, <1>9, <1>10
  DEF Next, Ask, Acquire, Serve

LEMMA HistoryInvariant == Spec => [](SafeInv /\ HistoryInv)
<1>1. SafeInv /\ HistoryInv /\ [Next]_vars => SafeInv' /\ HistoryInv'
  BY SafeStep, HistoryStep
<1>2. QED
  BY <1>1, SafeInit, HistoryInit, PTL DEF Spec

(* As long as nothing had to be pruned there is a snapshot for every revision
   before the current one, skip_revision or not: no edit that moves the
   revision gets through without one, and two edits at once never archive the
   same revision. *)
THEOREM EveryRevisionHasSnapshot == Spec => []HistoryComplete
<1>1. HistoryInv => HistoryComplete
  BY DEF HistoryInv, Kept, Complete, HistoryComplete
<1>2. QED
  BY <1>1, HistoryInvariant, PTL

(* If the second connection works, every edit that is stored has its row in
   activity_logs: log_action comes before the commit, whatever comes between
   the two. *)
THEOREM StoredEditsAreLogged == ~AuditFaults => (Spec => []EditsAudited)
<1> SUFFICES ASSUME ~AuditFaults PROVE Spec => []EditsAudited
  OBVIOUS
<1>1. HistoryInv => EditsAudited
  BY DEF HistoryInv, Kept, Logged, EditsAudited
<1>2. QED
  BY <1>1, HistoryInvariant, PTL

-----------------------------------------------------------------------------
(* What is stored changes only at a commit, to what that transaction has
   computed. *)
LEMMA OnlyCommitsStore ==
    ASSUME SafeInv, [Next]_vars, NEW i \in Items, db'[i] # db[i]
    PROVE  \E c \in Clients : /\ CommitEdit(c) \/ CommitCreate(c)
                              /\ req[c].item = i
                              /\ db'[i] = work[c]
<1>1. PICK c \in Clients : CommitEdit(c) \/ CommitCreate(c)
  BY DEF vars, Next, Ask, Acquire, Serve, Abort, ReadRow, Begin, CheckDuplicate, Lock,
     RowGone, InsertProduct, ReadActivities, ApplyPatch, ApplyAdd, ApplyUpdate,
     ApplyDelete, ActivityMissing, ApplyBulk, BulkConflict, ApplyRename, ApplyRemove,
     LogEdit, InsertFails, LogCreate
<1>2. db' = [db EXCEPT ![req[c].item] = work[c]] /\ DOMAIN db = Items
  BY <1>1 DEF CommitEdit, CommitCreate, SafeInv, TypeInv, TypeOK
<1>3. QED
  BY <1>1, <1>2

(* The revision tells every change of an item from the next, one by one.  The
   only changes of a stored item that it does not count are those of edits sent
   with skip_revision, and the renames of lines, which leave its activities
   alone. *)
THEOREM RevisionsCount == Spec => RevisionCountsChanges
<1>1. ASSUME SafeInv, HistoryInv, [Next]_vars,
             NEW i \in Items, db[i].live, db'[i].live, db'[i].now # db[i].now
      PROVE  \/ db'[i].now.rev = db[i].now.rev + 1
             \/ /\ db'[i].now.rev = db[i].now.rev
                /\ \E c \in Clients :
                      /\ Stores(c, i)
                      /\ \/ req[c].skip
                         \/ req[c].op = "rename" /\ db'[i].now.acts = db[i].now.acts
  <2>1. PICK c \in Clients : /\ CommitEdit(c) \/ CommitCreate(c)
                             /\ req[c].item = i
                             /\ db'[i] = work[c]
    BY <1>1, OnlyCommitsStore
  <2>2. TypeOK /\ ClientInv(c) /\ Recorded(c)
    BY <1>1 DEF SafeInv, TypeInv, LockInv, HistoryInv
  <2>3. CommitEdit(c) /\ pc[c] = "commit"
    BY <1>1, <2>1, <2>2 DEF CommitCreate, CommitEdit, ClientInv
  <2>4. req[c].op # "remove"
    BY <1>1, <2>1, <2>2, <2>3 DEF ClientInv, Decided, Absent
  <2>5. old[c] = db[i].now.rev /\ work[c] \in EditOf(db[i], old[c], Uncounted(req[c]))
    BY <2>1, <2>2, <2>3, <2>4 DEF ClientInv, Editing, Decided
  <2>6. Stores(c, i)
    BY <2>1, <2>2, <2>3 DEF TypeOK, CommitEdit, Finish, Goto, Stores
  <2>7. req[c].op = "rename" => db'[i].now.acts = db[i].now.acts
    BY <2>1, <2>2, <2>3 DEF Recorded, Decided
  <2>8. QED
    BY <2>1, <2>4, <2>5, <2>6, <2>7 DEF EditOf, Uncounted
<1>2. SafeInv /\ HistoryInv /\ [Next]_vars =>
        [\A i \in Items :
            db[i].live /\ db'[i].live /\ db'[i].now # db[i].now =>
              \/ db'[i].now.rev = db[i].now.rev + 1
              \/ /\ db'[i].now.rev = db[i].now.rev
                 /\ \E c \in Clients :
                       /\ Stores(c, i)
                       /\ \/ req[c].skip
                          \/ req[c].op = "rename" /\ db'[i].now.acts = db[i].now.acts]_vars
  BY <1>1
<1>3. QED
  BY <1>2, HistoryInvariant, PTL DEF Spec, RevisionCountsChanges

(* An activity that add_activity stores comes after all that are stored by
   then, wherever other clients have moved theirs since it was asked for. *)
THEOREM AddsComeLast == Spec => AddedIsLast
<1>1. ASSUME SafeInv, HistoryInv, [Next]_vars, NEW i \in Items, NEW c \in Clients,
             Stores(c, i), req[c].op = "add", db'[i] # db[i]
      PROVE  \E a \in db'[i].now.acts :
                /\ a \notin db[i].now.acts
                /\ db'[i].now.acts = db[i].now.acts \cup {a}
                /\ \A b \in db[i].now.acts : b.ord < a.ord
  <2>1. PICK d \in Clients : /\ CommitEdit(d) \/ CommitCreate(d)
                             /\ req[d].item = i
                             /\ db'[i] = work[d]
    BY <1>1, OnlyCommitsStore
  <2>2. TypeOK /\ Recorded(c) /\ pc[c] = "commit" /\ req[c].item = i /\ pc'[c] # pc[c]
    BY <1>1 DEF SafeInv, TypeInv, HistoryInv, Stores
  <2>3. d = c
    BY <2>1, <2>2 DEF CommitEdit, CommitCreate, Finish, Goto, TypeOK
  <2>4. ComesLast(db[i], work[c])
    BY <1>1, <2>2 DEF Recorded, Decided
  <2>5. QED
    BY <2>1, <2>3, <2>4 DEF ComesLast
<1>2. SafeInv /\ HistoryInv /\ [Next]_vars =>
        [\A i \in Items, c \in Clients :
            /\ Stores(c, i) /\ req[c].op = "add"
            /\ db'[i] # db[i]
            => \E a \in db'[i].now.acts :
                  /\ a \notin db[i].now.acts
                  /\ db'[i].now.acts = db[i].now.acts \cup {a}
                  /\ \A b \in db[i].now.acts : b.ord < a.ord]_vars
  BY <1>1
<1>3. QED
  BY <1>2, HistoryInvariant, PTL DEF Spec, AddedIsLast

(* A snapshot shows one state of its item, the one an edit found or the one it
   left, whichever handler took it and in whatever order transactions commit. *)
THEOREM SnapshotsAreStates == Spec => SnapshotsShowOneState
<1>1. ASSUME SafeInv, HistoryInv, [Next]_vars,
             NEW i \in Items, NEW s \in db'[i].arch \ db[i].arch
      PROVE  /\ s.rev = db[i].now.rev
             /\ s.was \in {db[i].now, [db'[i].now EXCEPT !.rev = db[i].now.rev]}
  <2>1. PICK c \in Clients : /\ CommitEdit(c) \/ CommitCreate(c)
                             /\ req[c].item = i
                             /\ db'[i] = work[c]
    BY <1>1, OnlyCommitsStore
  <2>2. ClientInv(c) /\ Recorded(c)
    BY <1>1 DEF SafeInv, LockInv, HistoryInv
  <2>3. CommitEdit(c)
    BY <1>1, <2>1, <2>2 DEF CommitCreate, ClientInv
  <2>r. req[c].op \notin {"rename", "remove"}
    <3>1. req[c].op = "rename" => work[c].arch = db[i].arch
      BY <2>1, <2>2, <2>3 DEF CommitEdit, Recorded, Decided
    <3>2. req[c].op = "remove" => work[c].arch = {}
      BY <2>1, <2>2, <2>3 DEF CommitEdit, ClientInv, Decided, Absent
    <3>3. QED
      BY <1>1, <2>1, <3>1, <3>2
  <2> DEFINE was == Pictured(req[c].op, db[i], work[c])
             new == [rev |-> old[c], was |-> was, at |-> start[c]]
  <2>4. old[c] = db[i].now.rev /\ work[c].arch \in Archived(db[i], was, old[c], start[c])
    BY <2>1, <2>2, <2>3, <2>r DEF CommitEdit, ClientInv, Editing, Recorded, Decided
  <2>5. was \in {db[i].now, [db'[i].now EXCEPT !.rev = db[i].now.rev]}
    BY <2>1 DEF Pictured
  <2> HIDE DEF was
  <2>6. work[c].arch \subseteq db[i].arch \cup {new}
    BY <2>4, NewestIsSubset, KeepAssumption DEF Archived
  <2>7. s = new
    BY <1>1, <2>1, <2>6
  <2>8. QED
    BY <2>4, <2>5, <2>7
<1>2. SafeInv /\ HistoryInv /\ [Next]_vars =>
        [\A i \in Items : \A s \in db'[i].arch \ db[i].arch :
            /\ s.rev = db[i].now.rev
            /\ s.was \in {db[i].now, [db'[i].now EXCEPT !.rev = db[i].now.rev]}]_vars
  BY <1>1
<1>3. QED
  BY <1>2, HistoryInvariant, PTL DEF Spec, SnapshotsShowOneState
=============================================================================
