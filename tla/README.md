# Verification of the routing API

TLA+ models of the Flask/PostgreSQL service in this repository, the TLC
configurations that check them, and proofs that TLAPS checks. File and line
references are to `src/`; those without a directory are to `src/routes/`.

The service keeps product routings: items with their activities, the archive of
their past revisions, the queue of changes that wait for an admin, the
production lines items refer to, and the accounts of those who use it. It is a
CRUD program on the surface; what makes it hard is that Waitress runs many
handlers at once, each in a PostgreSQL transaction at READ COMMITTED, that
handlers lock some rows and only look at others, that audit entries go through a
connection of their own in some places and through the caller's in others, that
an approval is decided long after it was written, and that what dashboards are
told was read before it is sent. So the models are about transactions: what a
handler reads, what it locks, what others can do before it commits, and what is
left when it does not.

## 1. Inventory

| Component | State | Operations | Modelled in |
|---|---|---|---|
| Item editing (`update.py`, `utils/archive_utilities.py`) | rows of `products`, `activities`, `product_revisions`; row locks | patch, add / update / delete activity, bulk update, delete product; `production_lines.py` renames | `ItemRecord`, `ItemEditing`, `AtomicEditing`; what a deletion does to approvals in `ApprovalWorkflow` |
| Item creation and lookup (`items.py`, `utils/validators.py`) | the same | create, get; search and stats only read | `ItemEditing`; its check of the line in `ProductionLines` |
| Approval workflow (`approvals.py`) | rows of `pending_approvals` | submit, approve, reject, list; deletion of a product rejects; `helpers/cleanup.py` removes what is old | `ApprovalWorkflow`, `AtomicApproval` |
| Approval event stream (`approvals.py:39-91, 200-279`) | set of subscriber queues, each bounded | subscribe, broadcast the count after a commit, deliver, heartbeat, drop, close | `ApprovalStream` |
| Production lines (`production_lines.py`) | rows of `production_lines`, `line_activities`; copies of the line's name in `products` | create, replace, rename, delete a line; add, update, delete an activity | `ProductionLines` |
| Revision archive (`archive.py`) | none of its own | list by pages, fetch one | `ArchiveBrowsing` |
| Users and authentication (`auth.py`, `utils/decorators.py`) | rows of `users` | register, login with rehash, update, delete, the role check before every handler, the seed at start | `UserAccounts` |
| Audit log (`utils/log_utils.py`, `logs.py`) | rows of `activity_logs` | `log_action` on its own or the caller's connection; list, purge | `log_action` in `ItemEditing`, `UserAccounts`, `ConnectionPool` (own connection) and `ApprovalWorkflow` (shared) |
| Connections and threads (`db.py`, `models.py`, `server.py`, `config.py`) | the pool; the transaction of each handler; worker threads | take, wait, time out, give back; commit, rollback | `ConnectionPool`; commit, rollback and row locks in every module |
| Export, health, application factory, import scripts, backup, legacy scripts | none, or run by hand | read or wire things together | see "Not modelled" |

How they interact:

- Every handler runs in `managed_connection()` or `managed_db_session()`: commit
  on leaving the block, also by an early `return`; rollback on an exception
  (`db.py:103-118`, `models.py:132-156`).
- `require_auth` uses a connection of its own and gives it back before the
  handler starts. `log_action` without `conn` opens a second connection and
  commits on it while the edit is still open; with `conn` its INSERT belongs to
  the caller's transaction. Its exception is swallowed either way.
- Editing handlers lock the product row with `SELECT ... FOR UPDATE`
  (`_fetch_product`), so that they meet approvals and deletions at that row.
  `approve_request` and `reject_approval` lock the approval's row as well.
- No foreign key ties `products` to `production_lines`; handlers keep them in
  step. (The schema defines a function `sync_production_line_text` that would,
  but no trigger calls it.)
- After a commit, `approvals.py` reads the number of pending approvals in a new
  transaction and puts it into the queues of connected browsers, in the
  handler's thread. An open stream keeps a worker thread for itself.

What each has to get right:

- *Editing.* No bump of a revision is lost; the archive holds every state a
  revision had and stays bounded; a bulk update never overwrites what its client
  has not seen (it does, in three ways: run `lost`); what is added comes last; an
  edit is recorded in the audit log; waiting ends.
- *Approvals.* A request is resolved once and its payload stored exactly then,
  whoever else approves, rejects, edits or deletes; a deleted item stays deleted
  and takes its pending approvals along; lock cycles do not hang.
- *Event stream.* Dashboards end with the current count (not after a deletion:
  run `silent`); a slow or vanished one is let go.
- *Lines.* A rename reaches all products; templates have distinct places;
  nothing outlives its line or comes back.
- *Archive.* Pruning keeps the newest; paging misses nothing that stays; a
  lookup by id is exact.
- *Users.* Names are unique; an update has its row until it commits; changes are
  recorded; a role that was taken away ends to count; there is always an admin
  (there is not: run `lastadmin`).
- *Pool.* Connections come back; handlers that need a second one do not wait for
  each other.

`PROJECT.json` lists the hazards line by line.

## 2. Modules

**`ItemRecord`** is pure: the record of one item (product columns, activities,
archive) and what each handler makes of it. A handler's effect is a *set* of
records because `snapshot_product` prunes by `ORDER BY archived_at DESC LIMIT 50`
and does not say which of two equals stays. `PatchOutcomes`, `AddOutcomes`, ...
keep the order of the code: add and update change the activity *before* they
take the snapshot, the others after it. Where clients may send a `sort_order`
(PATCH of an activity, bulk update, creation), `Placings` lets each activity go
to any of `Places`, or have the default. `Renamed` is what the rename of a line
does to a product of it: columns change, the revision and the archive do not.

**`ItemEditing`** has the handlers as transactions. `db` is what is committed,
`owner` the row locks, `work[c]` what the open transaction of client `c` has
written. A request moves through `pc`:

    Begin -> "lock" -> Lock -> "apply" -> Apply* -> "log" -> LogEdit -> "commit" -> CommitEdit

with `RowGone`, `ActivityMissing` and `BulkConflict` as early returns and `Abort`
anywhere. The rename of a line, as far as one product goes, and `delete_product`
are requests like the others (`ApplyRename`, which writes no entry of its own for
the product, and `ApplyRemove`), and an item that is gone can be created again.
`archived_at` is `now()`, the *start* of the transaction, so the clock is read in
`Begin`, before the wait. GET is two steps because `get_item` runs two SELECTs:
in between another edit may commit. What a client read is what it later sends as
`expected_revision` and as ids. Creation checks for duplicates, inserts (waiting
for whoever holds the key) and commits, and logs afterwards. `LogEdit` writes to
`audit` at once, which an `Abort` does not take back. `blind[c]` is history: the
items to which, since the last GET of `c`, something was done that the revision
does not count (`Uncounted`: `skip_revision`, a rename, a deletion).

**`AtomicEditing`** is the abstract specification: no clients, no locks; each
request takes effect in one step on the item as stored, and requests draw
timestamps and ids. `ItemEditing` implements it (`Serializable`, an `INSTANCE`
with `items` mapped to `db`): checked by TLC in two runs and proved. Other
modules rely on it where they take an edit of an item as one step.

**`ApprovalWorkflow`** adds the rows of `pending_approvals` with their own locks
(`keeper`). `approve_request` is `Resolve`, `Claim`, `ApproveAdd` or
`ApproveUpdate`, `LogShared`, `CommitApprove`; `delete_product` is `DeleteRows`,
`Sweep`, one `SweepRow` per approval that its UPDATE waits for, `CommitDelete`.
The two lock in opposite orders, so `DeadlockVictim` is part of the model. A log
entry that fails on the shared connection puts the client in `poisoned`:
PostgreSQL will answer its COMMIT with a rollback (`CommitRollsBack`). An approval
is refused when its item is not there, or already is (`ApproveRefused`), and when
a line of its payload has gone (`LineMissing`), which for an UPDATE is found out
only with the row lock of the item in hand: an approval that waits for that lock
cannot leave the circle that way. Direct edits, renames and creations are one
step here. `applied` is history: how often a payload was stored.

**`AtomicApproval`** is the abstract queue: no locks, no transactions. `Approve`
stores the payload and marks the row in one step; `Edit` and `Create` change
items beside the queue. A deletion is two steps, because the code looks for
pending rows once and then waits for them: `Look` notes all that is pending for
the item (`doomed`), and `Delete` removes the item and rejects all of that which
nobody has decided meanwhile, and nothing else. What is submitted between the two
escapes it. `Forgo` is a deletion that fails. `ApprovalWorkflow` implements it
(`DecidedAtOnce`, with `items` mapped to `db` and `doomed` to what the UPDATE of a
deletion has found, `Found`). That a resolved approval is not resolved again is
the guard of `Approve` and `Reject` here, and so a consequence.

**`ApprovalStream`** is about the badge. `pending` is the committed count, of
which `ApprovalWorkflow` has the details; a handler that has changed it
(`Change`) reads it (`ReadCount`) and pushes it (`Push`, under `_sse_lock`, so
one step). A stream registers its queue (`Subscribe`) before its generator runs
(`Start`); closing a generator that never started runs none of it, `finally`
included (`Vanish`). `strayed` is history: whether something has happened since
the last undisturbed broadcast that no push may tell.

**`ProductionLines`** has lines, templates and the two line references of a
product (`fg`, `bm`). A rename is the UPDATE of the line and one UPDATE of
`products` per side; each UPDATE fixes the rows it will visit when it starts
(`todo`), waits for them one at a time in any order, and looks at each again.
Adding and replacing activities, and deleting a line, lock the line's row;
`update_line_activity` and `delete_line_activity` lock only the activity's, so
`ClearLine` waits for the former and the former finds nothing after it.
`PatchItem` is the PATCH of an item as far as lines go: it checks nothing.

**`ArchiveBrowsing`** is a reader of `archive.py` next to editors: `Count` and
`ReadPage` are the two statements of a page, `NextPage` a new request,
`GetRevision` the lookup, with or without `?snapshot_id`. `Archive` is an edit in
one step, dated with the start of its transaction, and prunes.

**`UserAccounts`** has the handlers of `auth.py` on ORM sessions: what a request
read earlier decides what it writes later (`Differences`: only the columns that
changed), the flush takes the row lock, the audit entry is written in between on
a connection of its own: stored, refused by the foreign key to the acting admin
when that account has gone, or lost when the connection or the INSERT fails
(`LogAs`; with `AuditFaults`, as in both runs). A rehash waits for the row like
every UPDATE. `Admit` is the two decorators: the account is read once and kept.
`Restart` drops what is open and seeds an admin if there is no account.

**`ConnectionPool`** follows each worker thread through the connections it
takes: for `require_auth`, for the handler, for `log_action` on top of it, for
the count that is broadcast. `held` is a set of pairs of thread and use; whoever
finds the pool exhausted waits until it gets one or times out (`TurnAway`,
`LoseLog`, `SkipCount`: three places in the code that react differently).

The `MC...` modules hold instances, the `..._proofs` modules the theorems. A
definition called `Mut...` is the one after it with a plausible mistake; nothing
uses it, it is there to show that a property would notice.

### Abstractions

- The revision string is an integer: `_increment_revision` writes `str(n + 1)`
  padded to two digits. Only a manual edit of the database writes one that is
  not numeric.
- `Metas` and `Vals` stand for the updatable columns of a product and of an
  activity that both GET and `snapshot_product` read. The snapshot leaves out
  the computed columns (`run_time`, `labor_min`, ..., the totals), and so do the
  models.
- `sort_order` is a natural number, sent by a client or the default of the
  handler: `MAX + 1` for one activity, the position in the list for several.
  Approvals number their activities, whatever the payload says
  (`approvals.py:386, 464`). A PATCH that only moves an activity is one that sends
  the value it has as well.
- A 400 before the database is touched, and a 404 or 409 found by the first
  SELECT, change nothing and are stuttering. Later ones are actions.
- The ids of one bulk request are consecutive.
- A rename covers all products of its line in one transaction. `ProductionLines`
  has that, with all its locks; `ItemEditing` has the part of one product as a
  transaction of its own, which is what matters to readers of that product.
- `delete_product` is in `ItemEditing` for what it does to the item and in
  `ApprovalWorkflow` for what it does to approvals.
- The creation of a line is one step (its primary key settles the race), as is
  the removal of one template.
- A production line that has vanished when an approval is applied is the
  constant `LineGone` in `ApprovalWorkflow`. `delete_product` writes its audit
  entry on a second connection, which `ItemEditing` models and `ApprovalWorkflow`
  leaves out.
- A token is its account id: tokens outlive all that happens here, so any client
  may act as any account. A hash is the password and whether it is outdated.
- Rate limits, heartbeats, pagination limits and filters are left out.

## 3. Runs

| Run | Shows |
|---|---|
| `edits` | two users do everything to one item: patch, add, change and move, delete activities, bulk-update, rename its line, delete and create it, with and without `skip_revision`. The lock keeps what a handler computes from current (`HolderIsCurrent`); an accepted bulk update comes from a client that saw exactly what is stored, unless the revision did not count what happened since (`BulkSeesCounted`); what is added comes last, wherever clients have moved the rest (`AddedIsLast`); what GET shows changes by one revision at a time, but for `skip_revision` and renames (`RevisionCountsChanges`); a snapshot is the item as it was before the edit or as it is after it, and nothing in between (`SnapshotsShowOneState`); the archive is bounded (`ArchiveBounded`), every archived edit has its audit entry (`EditsAudited`), and the transactions implement `AtomicEditing` (`Serializable`) |
| `live` | two users create, patch, rename and delete one item, with room for four snapshots: every past revision is archived (`HistoryComplete`), every request is answered (`Answered`), whether or not the audit entry can be written, and of creations at once one takes effect (`Serializable`) |
| `lost` | refutes `BulkSeesLatest` (`BulkSeesCounted` without its exception) once `skip_revision` is used: the revision does not tell of the edit, and the bulk update overwrites it |
| `queue` | two users and up to two approvals for one item, with failing log entries and vanishing lines: `AppliedOnce`, `ResolvedForGood`, `DeletedIsGone`, `ReplacedIsArchived`, `Answered`; and the transactions implement `AtomicApproval` (`DecidedAtOnce`), a deletion that rejects all it found included |
| `rename` | three users rename two lines that the same two products name, the other way round: `NamesAgree`, and `Answered` in spite of the deadlocks |
| `activities` | all line operations together: `LineOrdersDistinct`, `DeletedLineIsEmpty`, `RemovedStaysRemoved` |
| `accounts` | two requests at a time on two or three accounts, with restarts: `NamesUnique`, `UpdateKeepsRow`, `ChangesAudited`; `RevokedEnds` (no request runs for ever on a role that is gone) and `Answered` |
| `lastadmin` | refutes `AdminRemains`: the count of admins is a statement of its own |
| `pool` | three workers, the cleanup thread, up to two dashboards, pools of several sizes: `NothingLeaks`, `RoomForAll` (more than two connections for each worker: no timeout, ever), `NoGridlock` (more than one each: holders do not wait only for each other), `WorkersComeFree` |
| `stream` | two broadcasts and two dashboards: `BadgesSettle` (once a broadcast has told the count undisturbed, badges settle on it) and `LeakEnds` |
| `silent` | refutes `BadgesFollow`, that a dashboard hears of every rejection: the one by `delete_product` is told to nobody |
| `browse` | a reader and two editors: `KeepsTheNewest`, `BrowsingMissesNothing`, `LookupIsExact` |

The findings in `PROJECT.json` quote the comment each of the three refuting runs
disagrees with.

Seen while reading the code for the models, without a run of their own. Most
are behaviours of the models as well:

- *Editing.* `add_activity` and `update_activity` take the snapshot after the
  change (`update.py:414`), so it is not the state BEFORE of `archive.py:4-6`.
  `archived_at` is the start of the transaction, so the order of the list
  (`archive.py:11`) need not be that of the revisions. `skip_revision` still takes
  a snapshot, though `readme.md:557` says it does not. An edit that fails to
  commit stays in the audit log. `delete_product` removes the archive, though
  `archive.py:23` says revisions survive. Besides `skip_revision`, a rename of the
  line and a deletion followed by a creation escape the check of
  `bulk_update_item`. Two activities can have one place: clients may send any, and
  lists are numbered from 1 whatever is taken (`update.py:950`).
- *Approvals.* Two submissions at once leave two pending approvals for one item
  (`approvals.py:124`). A submission that commits during a deletion stays in the
  queue (`update.py:743`). A failed audit INSERT on the shared connection makes
  the commit a rollback that is answered with 200 (`log_utils.py:17, 101`).
- *Stream.* Crossed broadcasts leave a stale count until the next one
  (`approvals.py:67`).
- *Lines.* A product created while its line is deleted names a line that does not
  exist (`production_lines.py:504`, against `readme.md:409`). PUT of a line with a
  new name does not cascade it, and a product created during a rename keeps the
  old name, which is why `NamesAgree` is checked for renames alone.
  `update_line_activity` answers "updated" also when the row went meanwhile.
- *Accounts.* The second of two registrations of one name ends in a 500 and not
  in the 409 of `auth.py:121-122`, because the session is committed in a failed
  state. Two deletions of one account both answer 200. A login that a password
  reset overtakes between its verification and its rehash brings the old password
  back (`auth.py:209-217`). A 400 for a bad role comes after the password was set,
  and the session commits the password (`auth.py:401-410`). PATCH demotes the last
  admin unchecked.
- *Pool.* The handlers' `except Exception` turns a pool timeout into a 500, not
  the 503 of `db.py:108` and `app.py:114`. The rule of thumb "pool_size >= number
  of server threads" (`config.py:39`) is enough, with any overflow on top, against
  gridlock, but not against timeouts. The defaults (8 threads, 30 connections) rule
  out both; `legacy/setup_server.ps1` (64 threads, 74 connections) only the first.

### Bounds

- `MaxTx` (3) bounds the transactions that change items. Two suffice for each
  race of two handlers; the third lets one of them start from what the race left,
  and lets the archive reach and pass `Keep = 2` (50 in the code). It is 4 in
  `live`, where `Keep` is 4 as well: nothing is pruned there, and archives of up
  to four snapshots have to be complete. It is 5 in `browse`, where `Keep` is 3
  and the reader has three pages of one.
- `Clients` is 2 for the safety of items, approvals and accounts: a row has one
  holder and one waiter, and a third only waits as the second does. It is 3 in
  `rename`, where more than one wait at a time matters.
- `MaxApprovals = 2`: two pending approvals for one item are the least that makes
  `delete_product` wait for one while it holds another.
- `MaxAdds`, `IdSets`, `MaxActs` (4) bound lists in requests and templates. In
  `edits` a list adds nothing (`MaxAdds = 0`): single additions are enough there
  for `AddedIsLast`, and lists are in `live` (creations) and in the theorems.
- `Places = {2}` in `edits`: the place that `MAX + 1` computes for the first
  addition, so a client can take it before, during or after that.
- `Metas` has one value, and the seeded item has none (its columns are NULL), so
  that the first patch or rename shows.
- `MaxId = 3`: the admin of the seed and two accounts registered later, which can
  ask for one name and delete each other.
- `QueueSize = 2`, `MaxPending = 1`: a queue can be empty, half full and full, a
  count right or wrong.
- `Capacities` in `pool` reach from one connection to more than two per worker;
  with three workers two can hold all of a pool that the third waits for.
- One item, except in the line runs: items do not share rows, but products share
  lines.
- Symmetry is declared for clients and editors in runs without liveness.

For safety the theorems of section 4 remove most of these bounds.

`CHECK_DEADLOCK FALSE` appears where clients may run out of what the bounds
allow: once `MaxTx` transactions have begun and nothing is stored, all approvals
are drawn or the reader has read `MaxReads` times, nobody can ask for anything.
The other runs are checked for deadlock.

### Fairness

- `WF(Serve(c))`, `WF(Run(t))`, `WF(Broadcast(h))`: a Waitress thread that has a
  request keeps running its handler. `WF(Send(s))`: so does the thread of an open
  stream, which takes from its queue what there is.
- `SF(Acquire(c))`: a row lock is taken and freed again and again, so a waiter's
  step is not continuously enabled; PostgreSQL queues waiters, which is what
  strong fairness says. The rehash of a login is among them.
- `WF(Get(t) \/ TimesOut(t))`: who waits for a connection gets one or, after
  `DB_POOL_TIMEOUT`, an exception. Nothing says that it gets one.
- `WF(DeadlockVictim(c))`: after `deadlock_timeout` PostgreSQL aborts one of a
  cycle.
- None for `Ask`, `Take`, `CloseStream` (users need not send or close anything),
  `LineMissing` (nobody need delete a line), `Abort` (nothing has to fail),
  `Restart`, `Wake` or `Cleanup`. `LeakEnds` is conditional on broadcasts that go on, `WorkersComeFree` on fewer dashboards
  than workers.

## 4. Proofs

TLAPS proves the following for every number of clients, items, lines, accounts
and threads, every list of requests and every bound. An invariant that is checked
by TLC is seldom inductive; each module names the strengthening it needs.

**`ItemEditing_proofs`**, with the lemmas of `ItemRecord_proofs` on `Newest` and the
`...Outcomes`. Its sections build on each other:

1. `TypeCorrect`. Inductive as `TypeInv`, which adds that a client between the two
   SELECTs of GET has a half-read view: without it `ReadActivities` could update
   `Unread`.
2. `LockProtectsRevision` (`HolderIsCurrent`) and `ArchiveStaysBounded` from
   `SafeInv`: `ClientInv` says of each client that it holds the row it works on,
   that the row still exists, that `old` is its stored revision, and that what it
   has written is an archive within bounds. `HolderIsCurrent` alone is not
   inductive: it is the ownership of the row that keeps others from committing.
   `StepOfOne` and `OthersKeep` carry the argument: an action moves one client,
   changes only rows that client holds, and leaves everybody else's locks alone.
3. `BulkUpdatesAreCurrent` (`BulkSeesCounted`). `ViewInv` says of an item that
   nothing uncounted has happened to since it was read that the reading is not
   ahead of the stored revision and, where it is not behind, shows what is stored
   (of the row alone between the two SELECTs of GET); `ExpectInv` that a bulk
   update expects the revision its client has read. A commit moves the revision
   past every reading, or makes every client blind to the item (`CommitStep`).
   `BulkSeesLatest` is the same without the exception, and the run `lost`
   refutes it.
4. `EditsAreSerializable`, the refinement of `AtomicEditing`. `WorkInv` says that
   the record an open transaction is about to store is what its request makes of
   the record that is stored *now* (`Edited`, `Made`), although it was computed
   steps ago and others have drawn ids and timestamps since. So a commit is one
   step of `AtomicEditing`, and every other step draws (`Draw`) or stutters.
5. The history, from `HistoryInv`: no two open transactions began at one time, nor
   one at the time of a snapshot that is stored (`Apart`, `Fresh`); what a
   transaction will leave in the archive is dated with its start (`Recorded`); as
   long as nothing was pruned there is a snapshot for each past revision
   (`Complete`). `EveryRevisionHasSnapshot` (`HistoryComplete`), `RevisionsCount`
   (`RevisionCountsChanges`) and `SnapshotsAreStates` (`SnapshotsShowOneState`) hold
   for all requests. `StoredEditsAreLogged` (`EditsAudited`) needs `~AuditFaults`: a
   log entry that fails is swallowed.
   `AddsComeLast` (`AddedIsLast`) follows from `Recorded` too: what an addition is
   about to store puts the activity behind all that is stored now, wherever clients
   have put theirs (`ComesLast`). No seed and no request is ruled out.

**`ApprovalWorkflow_proofs`**:

- From `WorkflowInv`: what a request has marked is locked and pending (`MarkInv`),
  what it is about to store is a successor of the locked row (`ItemInv`), nobody
  knows an approval that is about to be inserted (`FreshInv`), two submissions
  never insert the same (`IdsDistinct`). `PayloadAppliedOnce`,
  `ResolvedStaysResolved`, `DeletedStaysDeleted`, `ReplacedStateArchived`, and
  types. `AppliedOnce` needs `MarkInv`: that the row is pending is read at `Claim`
  and used at the commit. `ReplacedStateArchived` says that the snapshot is there, not only that it would
  be right: the one way to lose it is an archive full of snapshots that are not
  older than the start of the approval, because pruning goes by that.
- `DecisionsTakeEffectAtOnce`, the refinement of `AtomicApproval`. `SeenInv`: the
  row of an approval is what a request has read with its first SELECT, which takes
  no lock, for as long as it is pending; `MakesInv`: what an approval is about to
  store is what its payload makes of the item as stored now. `RowsMove` lists what
  a step may do to a row. A deletion maps to `Look` when its UPDATE starts and to
  `Delete` at its commit: what it has found and not decided otherwise is what is
  doomed, the rows it has marked and those it has still to come to.
- `DeadlocksAreOfTwo`. `LocksInv` says where a request can be that has a lock.
  Whatever waits in a circle are approvals and deletions, and in every circle an
  approval and a deletion of one item block each other. TLC finds that such
  circles do occur; a rejection or a submission is never in one.

**`ProductionLines_proofs`**:

- From `LinesInv`, for any seed whose lines are in order (`SeedInOrder`): who adds
  or replaces activities holds a line that exists (`HoldsLine`), a computed place
  is still behind all others (`PlaceFree`), what an UPDATE holds is there
  (`StillThere`), and once the activities of a line are about to go nobody updates
  one (`Undisturbed`). `PlacesStayDistinct`, `DeletedLinesAreEmpty`,
  `RemovedTemplatesStayRemoved`, and types.
- `ProductsShowTheName` (`NamesAgree`) from `NamesInv`: at every commit all
  products that name a line carry its name (`Agree`), because what a rename's
  UPDATE has not come to is still before it (`RenameInv`), and a line that is being
  renamed stays locked. `NamesAgree` looks at quiet states only; `Agree` is the
  stronger statement. The theorem needs that nobody replaces a line or creates or
  patches a product (`NamesCascaded`), each of which breaks it, and a seed whose
  names agree.

**`ArchiveBrowsing_proofs`** from `BrowseInv`, with the ranks of rows in a finite set
(`RankType`, `RankOrder`, and a pigeonhole argument that some row is the oldest):
ids and timestamps are handed out once (`StampInv`, `IdInv`); what is kept is newer
than what was pruned (`ArchInv`); what was there from the start and has not been
shown is on the pages still to come, because newer rows only push it back and
pruning never pulls it forward (`PageInv`). `NewestAreKept`, `NothingIsMissed`,
`LookupsAreExact`, and types.

**`ApprovalStream_proofs`** from `StreamInv`: unless something strayed, one handler at
a time broadcasts and what it has read still holds (`AloneInv`); the queue of a
registered stream ends with the count, before its generator starts too
(`QueueInv`). Types, and `StreamsCatchUp`: what a stream shows once its queue is
empty is the count, the half of `BadgesSettle` that is not liveness.

**`UserAccounts_proofs`** from `AccountsInv`: ids are below the sequence, so an id is
never used again; the entry of a change under way is stored, was refused because
its admin had gone, or is lost (`AuditInv`). `NamesStayUnique`,
`UpdatesKeepTheirRow`, `AccountChangesAudited`, and types.

**`ConnectionPool_proofs`** from `PoolInv`: what a thread holds follows from where it
is, and then it is counting (`OneEach`, `WaitingLeavesRoom`, with the theorems on
finite sets): while somebody waits, at most two connections for each worker are in
use. `NothingIsLeaked`, `TwoEachSuffice`, `MoreThanWorkersNoGridlock`, and types.
So the rule about pool sizes holds for every configuration, not for three threads.

The assumptions are those named in the modules: bounds are naturals, `Keep` is
positive, constants like `Unset` and `NoClient` are no values of the kinds they are
told apart from, items are seeded at revision 0 with an empty archive, the seeded
accounts have distinct names, the set of threads is finite, the kinds of requests
are known ones. TLC evaluates each of them on every run of its module. The
conditions named above (`~AuditFaults`, `NamesCascaded`, ...) are
hypotheses of single theorems; the run of the property meets them.

Every safety property of the passing runs is proved, and the three refuting runs
show that `BulkSeesLatest`, `AdminRemains` and `BadgesFollow` are not to be had.
Only model-checked is liveness (`Answered` in four modules, `WorkersComeFree`,
`RevokedEnds`, `BadgesSettle`, `LeakEnds`), which is outside of the prover's reach.
The type invariants are proved, and not among the properties of the runs.

## 5. Plan

Done: all components of section 1 that keep state, and a theorem for each of
their safety properties. Next, in this order:

1. Deadlocks of `ProductionLines`: which requests can be in a circle, as
   `DeadlocksAreOfTwo` tells for approvals. Two renames can; whether a deletion
   or a patch can be the victim is open.
2. An abstract specification of the accounts, as there is one of editing and of
   approvals: what a request decides from a row it has read earlier makes it weaker
   than serializable, and the specification would say by how much.

## 6. Not modelled

- `search` and `stats` of `items.py`, `export.py`, `health.py`, the lists of users,
  logs and approvals: they read in one transaction and change nothing.
- `logs.py` purging: deletes entries by age, which no handler looks at.
- `_increment_revision` on strings: what a recursive or string definition computes
  is no question of interleavings, and only numeric revisions are ever written.
- `helpers/load_data.py`, `parser.py`, `fix_line_activities.py`, `clean.py`,
  `creat_admin.py` (which imports a module that does not exist,
  `routes.auth_utils`), the backup script and `legacy/`: run by hand or by cron
  against an idle database, or superseded.
- Rate limits and the wiring of `app.py`, except for the seed of the first admin.
