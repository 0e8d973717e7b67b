-------------------------- MODULE ArchiveBrowsing --------------------------
(***************************************************************************)
(* Reading the archive of one item (routes/archive.py) while it is being   *)
(* edited, deleted and created again: the pages of list_revisions, one     *)
(* request each and in each a COUNT and a SELECT that see what is          *)
(* committed when they run, and the lookup of one revision.                *)
(*                                                                         *)
(* What editing does to the archive is here one step (ItemEditing shows    *)
(* that it may be): a snapshot goes in, dated with the start of its        *)
(* transaction, and all but the newest Keep go.  Transactions that wait    *)
(* for the row of the item get it in any order.                            *)
(***************************************************************************)
EXTENDS Integers, FiniteSets

CONSTANTS
    Editors,   \* transactions that edit the item at once
    Keep,      \* snapshots kept (50)
    PerPage,   \* ?per_page of the reader
    Nobody,    \* "no snapshot found"
    Skips,     \* values of ?skip_revision editors send
    MaxTx,     \* BOUND: transactions that edit the item
    MaxReads   \* BOUND: times the reader starts from page 1

ASSUME SizesAssumption  == Keep \in Nat \ {0} /\ PerPage \in Nat \ {0}
ASSUME SkipsAssumption  == Skips \subseteq BOOLEAN
ASSUME BoundsAssumption == MaxTx \in Nat /\ MaxReads \in Nat

Snapshot == [id : Nat, rev : Nat, at : Nat]

ASSUME NobodyAssumption == Nobody \notin Snapshot

VARIABLES
    ever,     \* history: all snapshots taken since the item was created
    arch,     \* the rows of product_revisions of the item
    rev,      \* its revision
    clock,    \* PostgreSQL's clock, read at the start of a transaction
    nextId,   \* product_revisions_id_seq
    start,    \* editor -> the start of its transaction, 0 if it has none
    phase,    \* of the reader: "idle", "count", "page", "listed"
    page,     \* the page it is at
    total,    \* what the COUNT of that page returned
    rows,     \* what its SELECT returned
    seen,     \* everything the pages so far have shown
    first,    \* what was stored when page 1 was asked for
    reads,    \* how often it has started
    asked,    \* the listed snapshot it has looked up
    got       \* what the lookup returned

editorVars == <<ever, arch, rev, clock, nextId, start>>
listVars   == <<phase, page, total, rows, seen, first, reads>>
fetchVars  == <<asked, got>>
vars == <<ever, arch, rev, clock, nextId, start, phase, page, total, rows, seen,
          first, reads, asked, got>>

Init ==
    /\ ever   = {}
    /\ arch   = {}
    /\ rev    = 0
    /\ clock  = 0
    /\ nextId = 1
    /\ start  = [e \in Editors |-> 0]
    /\ phase  = "idle"
    /\ page   = 1
    /\ total  = 0
    /\ rows   = {}
    /\ seen   = {}
    /\ first  = {}
    /\ reads  = 0
    /\ asked  = Nobody
    /\ got    = Nobody

(* The place of a row under ORDER BY archived_at DESC, from 0. *)
Rank(S, s) == Cardinality({t \in S : t.at > s.at})

MutPruned(S) == {s \in S : \A t \in S : t.id - s.id < Keep}

Pruned(S) == {s \in S : Rank(S, s) < Keep}

-----------------------------------------------------------------------------
Begin(e) ==
    /\ start[e] = 0
    /\ clock < MaxTx
    /\ clock' = clock + 1
    /\ start' = [start EXCEPT ![e] = clock']
    /\ UNCHANGED <<ever, arch, rev, nextId, listVars, fetchVars>>

Taken(e) == [id |-> nextId, rev |-> rev, at |-> start[e]]

(* snapshot_product and the commit of the edit it belongs to. *)
Archive(e) ==
    /\ start[e] # 0
    /\ ever' = ever \cup {Taken(e)}
    /\ arch' = Pruned(arch \cup {Taken(e)})
    /\ nextId' = nextId + 1
    /\ \E skip \in Skips : rev' = IF skip THEN rev ELSE rev + 1
    /\ start' = [start EXCEPT ![e] = 0]
    /\ UNCHANGED <<clock, listVars, fetchVars>>

(* delete_product takes the archive along; an item created again starts at
   revision "00".  Edits that waited find nothing. *)
Wipe ==
    /\ arch # {}
    /\ ever' = {}
    /\ arch' = {}
    /\ rev' = 0
    /\ start' = [e \in Editors |-> 0]
    /\ UNCHANGED <<clock, nextId, listVars, fetchVars>>

-----------------------------------------------------------------------------
(* list_revisions of page n: nothing there is 404 ... *)
Count(n) ==
    /\ total' = Cardinality(arch)
    /\ page' = n
    /\ phase' = IF arch = {} THEN "idle" ELSE "page"
    /\ rows' = {}
    /\ asked' = Nobody
    /\ got' = Nobody
    /\ UNCHANGED editorVars

StartBrowsing ==
    /\ phase \in {"idle", "listed"}
    /\ reads < MaxReads
    /\ reads' = reads + 1
    /\ first' = arch
    /\ seen' = {}
    /\ Count(1)

MutListed(n) == {s \in arch : (Cardinality(arch) - 1 - Rank(arch, s)) \div PerPage = n - 1}

(* ORDER BY archived_at DESC LIMIT :limit OFFSET :offset. *)
Listed(n) == {s \in arch : Rank(arch, s) \div PerPage = n - 1}

(* ... and otherwise its rows, which may be more than were counted, or none. *)
ReadPage ==
    /\ phase = "page"
    /\ rows' = Listed(page)
    /\ seen' = seen \cup rows'
    /\ phase' = "listed"
    /\ UNCHANGED <<page, total, first, reads, editorVars, fetchVars>>

(* The answer says how many pages there are: max(1, -(-total // per_page)). *)
LastPage == page * PerPage >= total

NextPage ==
    /\ phase = "listed"
    /\ ~LastPage
    /\ UNCHANGED <<seen, first, reads>>
    /\ Count(page + 1)

-----------------------------------------------------------------------------
(* What get_revision looks at: the rows of the revision, and with
   ?snapshot_id only the one with that id. *)
MutMatching(s, pinned) == {t \in arch : t.rev = s.rev}

Matching(s, pinned) == {t \in arch : t.rev = s.rev /\ (pinned => t.id = s.id)}

(* ORDER BY archived_at DESC LIMIT 1, or 404. *)
GetRevision(s, pinned) ==
    /\ phase = "listed"
    /\ s \in rows
    /\ asked' = s
    /\ got' = IF Matching(s, pinned) = {} THEN Nobody
              ELSE CHOOSE t \in Matching(s, pinned) : Rank(Matching(s, pinned), t) = 0
    /\ UNCHANGED <<editorVars, listVars>>

-----------------------------------------------------------------------------
Next ==
    \/ \E e \in Editors : Begin(e) \/ Archive(e)
    \/ Wipe
    \/ StartBrowsing \/ ReadPage \/ NextPage
    \/ \E s \in rows, pinned \in BOOLEAN : GetRevision(s, pinned)

Spec == Init /\ [][Next]_vars
-----------------------------------------------------------------------------
TypeOK ==
    /\ ever   \subseteq Snapshot
    /\ arch   \subseteq Snapshot
    /\ rev    \in Nat
    /\ clock  \in Nat
    /\ nextId \in Nat
    /\ start  \in [Editors -> Nat]
    /\ phase  \in {"idle", "page", "listed"}
    /\ page   \in Nat \ {0}
    /\ total  \in Nat
    /\ rows   \subseteq Snapshot
    /\ seen   \subseteq Snapshot
    /\ first  \subseteq Snapshot
    /\ reads  \in Nat
    /\ asked  \in Snapshot \cup {Nobody}
    /\ got    \in Snapshot \cup {Nobody}

(* Snapshots are pruned one transaction at a time, in the order in which edits
   get the row, and yet what is kept is what pruning all of them together
   would keep: the Keep newest by archived_at, the order in which they are
   listed (archive_utilities.py:124-140). *)
KeepsTheNewest ==
    /\ arch \subseteq ever
    /\ \A s \in arch, t \in ever \ arch : t.at < s.at
    /\ ever # arch => Cardinality(arch) = Keep

(* Who reads all the pages sees every snapshot that was there from the first
   page to the last (archive.py:133-157), although snapshots are inserted and
   pruned between two pages: what stays moves to later pages only.  The
   exception is an edit that commits between the COUNT and the SELECT of the
   last page. *)
BrowsingMissesNothing ==
    [][ReadPage /\ LastPage /\ Cardinality(arch) <= total
          => first \cap arch \subseteq seen']_vars

(* Looking up a listed snapshot with ?snapshot_id gives that snapshot or 404,
   whatever was archived under the same revision meanwhile, or after the item
   was deleted and created again (archive.py:232-236). *)
LookupIsExact ==
    [][\A s \in rows : GetRevision(s, TRUE) => got' \in {s, Nobody}]_vars
=============================================================================
