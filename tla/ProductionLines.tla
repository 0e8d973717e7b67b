-------------------------- MODULE ProductionLines --------------------------
(***************************************************************************)
(* routes/production_lines.py: production lines, their activity templates, *)
(* and the products that carry a line's code together with a COPY of its   *)
(* name.  No foreign key ties products to lines, so the handlers keep them *)
(* in step: create_item checks that the code exists, the deletion of a     *)
(* line that no product uses it, a rename copies the new name.             *)
(*                                                                         *)
(* The statements that lock rows are those of UPDATE, DELETE and SELECT    *)
(* ... FOR UPDATE; every other SELECT sees what is committed when it runs. *)
(* A product names two lines, of its finished good and its base material.  *)
(***************************************************************************)
EXTENDS Integers, FiniteSets

CONSTANTS
    Clients,    \* users, each with one request at a time
    NoClient,   \* "the row is not locked"
    Lines,      \* production line codes
    NoLine,     \* the code of a product that names no line
    Names,      \* names of lines
    NoName,     \* the name a product has where it names no line
    Items,      \* inventory ids
    SeedLines,  \* the lines when the server starts
    SeedItems,  \* the products when the server starts
    Ops,        \* the kinds of request clients send
    Orders,     \* values of sort_order that clients send
    MaxActs     \* BOUND: number of line activities added

Sides   == {"fg", "bm"}
OpNames == {"rename", "drop", "replace", "add", "remove", "update", "create", "open",
            "patch"}

(* A row of line_activities: its primary key, its sort_order, and (history)
   whether that is the place add_line_activity computed. *)
LineActivity == [id : Nat, ord : Nat, auto : BOOLEAN]
Line    == [live : BOOLEAN, name : Names, acts : SUBSET LineActivity]
Product == [live : BOOLEAN,
            code : [Sides -> Lines \cup {NoLine}],
            name : [Sides -> Names \cup {NoName}]]

ASSUME OpsAssumption      == Ops \subseteq OpNames
ASSUME NoClientAssumption == NoClient \notin Clients
ASSUME SizeAssumption     == Lines # {} /\ Items # {}
ASSUME SeedAssumption     == SeedLines \in [Lines -> Line] /\ SeedItems \in [Items -> Product]
ASSUME NoLineAssumption   == NoLine \notin Lines /\ NoName \notin Names
ASSUME OrdersAssumption   == Orders \subseteq Nat \ {0}
ASSUME BoundAssumption    == MaxActs \in Nat

VARIABLES
    lines,      \* code -> committed row of production_lines, with its activities
    items,      \* inventory id -> committed row of products
    lineOwner,  \* code -> client holding the row
    itemOwner,  \* inventory id -> client holding the row
    nextId,     \* line_activities_id_seq
    pc,         \* client -> where its request stands
    job,        \* client -> what the request is about
    todo,       \* client -> products its UPDATE has yet to come to
    hits        \* client -> side -> products its UPDATEs have renamed

rows == <<lines, items, lineOwner, itemOwner, nextId>>
vars == <<rows, pc, job, todo, hits>>

Job == [op : OpNames \cup {"none"}, line : Lines, name : Names \cup {NoName},
        acts : SUBSET LineActivity, item : Items, side : Sides]
Blank(l) == [op |-> "none", line |-> l, name |-> NoName, acts |-> {},
             item |-> CHOOSE i \in Items : TRUE, side |-> "fg"]
NoJob == Blank(CHOOSE l \in Lines : TRUE)

PCs == {"idle", "line", "statement", "rows", "unused", "clear", "activity", "commit",
        "store"}

Init ==
    /\ lines     = SeedLines
    /\ items     = SeedItems
    /\ lineOwner = [l \in Lines |-> NoClient]
    /\ itemOwner = [i \in Items |-> NoClient]
    /\ nextId    = 1
    /\ pc        = [c \in Clients |-> "idle"]
    /\ job       = [c \in Clients |-> NoJob]
    /\ todo      = [c \in Clients |-> {}]
    /\ hits      = [c \in Clients |-> [s \in Sides |-> {}]]

-----------------------------------------------------------------------------
Naming(l, s) == {i \in Items : items[i].live /\ items[i].code[s] = l}

Goto(c, label) == pc' = [pc EXCEPT ![c] = label]

MutFinish(c) ==
    /\ lineOwner' = [l \in Lines |-> IF lineOwner[l] = c THEN NoClient ELSE lineOwner[l]]
    /\ UNCHANGED itemOwner
    /\ Goto(c, "idle")
    /\ job'  = [job  EXCEPT ![c] = NoJob]
    /\ todo' = [todo EXCEPT ![c] = {}]
    /\ hits' = [hits EXCEPT ![c] = [s \in Sides |-> {}]]

(* The transaction of c ends and its connection goes back to the pool. *)
Finish(c) ==
    /\ lineOwner' = [l \in Lines |-> IF lineOwner[l] = c THEN NoClient ELSE lineOwner[l]]
    /\ itemOwner' = [i \in Items |-> IF itemOwner[i] = c THEN NoClient ELSE itemOwner[i]]
    /\ Goto(c, "idle")
    /\ job'  = [job  EXCEPT ![c] = NoJob]
    /\ todo' = [todo EXCEPT ![c] = {}]
    /\ hits' = [hits EXCEPT ![c] = [s \in Sides |-> {}]]

GiveUp(c) == Finish(c) /\ UNCHANGED <<lines, items, nextId>>

(* The first SELECT of a handler, which takes no lock. *)
Open(c, label, j) ==
    /\ pc[c] = "idle"
    /\ j.op \in Ops
    /\ job' = [job EXCEPT ![c] = j]
    /\ Goto(c, label)
    /\ UNCHANGED <<rows, todo, hits>>

-----------------------------------------------------------------------------
(* rename_production_line: SELECT without a lock ... *)
Rename(c, l, n) ==
    lines[l].live /\ Open(c, "line", [Blank(l) EXCEPT !.op = "rename", !.name = n])

(* ... the UPDATE of the line, of no row if it has been deleted meanwhile ... *)
RenameLine(c) ==
    LET l == job[c].line
    IN  /\ pc[c] = "line"
        /\ job[c].op = "rename"
        /\ lineOwner[l] = NoClient
        /\ lineOwner' = IF lines[l].live THEN [lineOwner EXCEPT ![l] = c] ELSE lineOwner
        /\ Goto(c, "statement")
        /\ UNCHANGED <<lines, items, itemOwner, nextId, job, todo, hits>>

(* ... and one UPDATE of products for each side: the rows it will come to are
   those committed when it starts ... *)
StartUpdate(c) ==
    /\ pc[c] = "statement"
    /\ todo' = [todo EXCEPT ![c] = Naming(job[c].line, job[c].side)]
    /\ Goto(c, "rows")
    /\ UNCHANGED <<rows, job, hits>>

(* ... each is waited for, and skipped if it names the line no more ... *)
UpdateRow(c, i) ==
    LET s == job[c].side
    IN  /\ pc[c] = "rows"
        /\ i \in todo[c]
        /\ itemOwner[i] \in {NoClient, c}
        /\ todo' = [todo EXCEPT ![c] = @ \ {i}]
        /\ \/ /\ i \in Naming(job[c].line, s)
              /\ itemOwner' = [itemOwner EXCEPT ![i] = c]
              /\ hits' = [hits EXCEPT ![c][s] = @ \cup {i}]
           \/ /\ i \notin Naming(job[c].line, s)
              /\ UNCHANGED <<itemOwner, hits>>
        /\ UNCHANGED <<lines, items, lineOwner, nextId, pc, job>>

MutEndUpdate(c) ==
    /\ pc[c] = "rows"
    /\ todo[c] = {}
    /\ Goto(c, "commit")
    /\ UNCHANGED <<rows, job, todo, hits>>

(* ... first for fg_production_line, then for bm_production_line. *)
EndUpdate(c) ==
    /\ pc[c] = "rows"
    /\ todo[c] = {}
    /\ \/ /\ job[c].side = "fg"
          /\ job' = [job EXCEPT ![c].side = "bm"]
          /\ Goto(c, "statement")
       \/ /\ job[c].side = "bm"
          /\ Goto(c, "commit")
          /\ UNCHANGED job
    /\ UNCHANGED <<rows, todo, hits>>

CommitRename(c) ==
    LET l == job[c].line
    IN  /\ pc[c] = "commit"
        /\ job[c].op = "rename"
        /\ lines' = IF lineOwner[l] = c THEN [lines EXCEPT ![l].name = job[c].name] ELSE lines
        /\ items' = [i \in Items |->
                        [items[i] EXCEPT !.name =
                            [s \in Sides |-> IF i \in hits[c][s] THEN job[c].name ELSE @[s]]]]
        /\ Finish(c)
        /\ UNCHANGED nextId

-----------------------------------------------------------------------------
(* delete_production_line: SELECT without a lock, SELECT of a product that
   names the line, DELETE. *)
Drop(c, l) == lines[l].live /\ Open(c, "unused", [Blank(l) EXCEPT !.op = "drop"])

LineUnused(c) ==
    LET used == \E s \in Sides : Naming(job[c].line, s) # {}
    IN  /\ pc[c] = "unused"
        /\ \/ used /\ GiveUp(c)
           \/ /\ ~used
              /\ Goto(c, "line")
              /\ UNCHANGED <<rows, job, todo, hits>>

DropLine(c) ==
    LET l == job[c].line
    IN  /\ pc[c] = "line"
        /\ job[c].op = "drop"
        /\ lineOwner[l] = NoClient
        /\ lineOwner' = IF lines[l].live THEN [lineOwner EXCEPT ![l] = c] ELSE lineOwner
        /\ Goto(c, "clear")
        /\ UNCHANGED <<lines, items, itemOwner, nextId, job, todo, hits>>

(* Those whose UPDATE holds the row of one of the activities of l. *)
Changing(l) == {d \in Clients : pc[d] = "commit" /\ job[d].op = "update" /\ job[d].line = l}

(* The activities go too, by ON DELETE CASCADE or by the DELETE of
   update_production_line, which waits for those who hold one. *)
ClearLine(c) ==
    /\ pc[c] = "clear"
    /\ lineOwner[job[c].line] = c => Changing(job[c].line) = {}
    /\ Goto(c, "commit")
    /\ UNCHANGED <<rows, job, todo, hits>>

CommitDrop(c) ==
    LET l == job[c].line
    IN  /\ pc[c] = "commit"
        /\ job[c].op = "drop"
        /\ lines' = IF lineOwner[l] = c
                    THEN [lines EXCEPT ![l].live = FALSE, ![l].acts = {}] ELSE lines
        /\ Finish(c)
        /\ UNCHANGED <<items, nextId>>

-----------------------------------------------------------------------------
(* create_production_line: the primary key settles the race of two. *)
CreateLine(c, l, n) ==
    /\ pc[c] = "idle"
    /\ "open" \in Ops
    /\ ~lines[l].live
    /\ lineOwner[l] = NoClient
    /\ lines' = [lines EXCEPT ![l] = [live |-> TRUE, name |-> n, acts |-> {}]]
    /\ UNCHANGED <<items, lineOwner, itemOwner, nextId, pc, job, todo, hits>>

(* update_production_line: SELECT ... FOR UPDATE; all activities are replaced,
   in the order the client gives, and the name if it gives one. *)
ReplaceLine(c, l, n, count) ==
    /\ pc[c] = "idle"
    /\ "replace" \in Ops
    /\ lines[l].live
    /\ lineOwner[l] = NoClient
    /\ nextId + count <= MaxActs + 1
    /\ lineOwner' = [lineOwner EXCEPT ![l] = c]
    /\ job' = [job EXCEPT ![c] =
                  [Blank(l) EXCEPT !.op = "replace", !.name = n,
                      !.acts = {[id |-> nextId + k - 1, ord |-> k, auto |-> FALSE] :
                                   k \in 1..count}]]
    /\ nextId' = nextId + count
    /\ Goto(c, "clear")
    /\ UNCHANGED <<lines, items, itemOwner, todo, hits>>

MutCommitReplace(c) ==
    LET l == job[c].line
    IN  /\ pc[c] = "commit"
        /\ job[c].op = "replace"
        /\ lines' = [lines EXCEPT ![l].acts = job[c].acts, ![l].name = job[c].name]
        /\ Finish(c)
        /\ UNCHANGED <<items, nextId>>

CommitReplace(c) ==
    LET l == job[c].line
    IN  /\ pc[c] = "commit"
        /\ job[c].op = "replace"
        /\ lines' = [lines EXCEPT ![l].acts = job[c].acts,
                                  ![l].name = IF job[c].name = NoName THEN @ ELSE job[c].name]
        /\ Finish(c)
        /\ UNCHANGED <<items, nextId>>

MutAddActivity(c, l) ==
    /\ pc[c] = "idle"
    /\ "add" \in Ops
    /\ lines[l].live
    /\ nextId <= MaxActs
    /\ \E k \in 1..(Cardinality(lines[l].acts) + 1) :
          /\ \A a \in lines[l].acts : a.ord < k
          /\ job' = [job EXCEPT ![c] = [Blank(l) EXCEPT !.op = "add",
                                            !.acts = {[id |-> nextId, ord |-> k,
                                                       auto |-> TRUE]}]]
    /\ nextId' = nextId + 1
    /\ Goto(c, "commit")
    /\ UNCHANGED <<lines, items, lineOwner, itemOwner, todo, hits>>

(* COALESCE(MAX(sort_order), 0) + 1 : the one member of this set. *)
NextOrders(A) == {k \in {1} \cup {a.ord + 1 : a \in A} : \A a \in A : a.ord < k}

(* add_line_activity: SELECT ... FOR UPDATE, then an INSERT that takes the
   place the client sends, or the one after the last. *)
AddActivity(c, l) ==
    /\ pc[c] = "idle"
    /\ "add" \in Ops
    /\ lines[l].live
    /\ lineOwner[l] = NoClient
    /\ nextId <= MaxActs
    /\ lineOwner' = [lineOwner EXCEPT ![l] = c]
    /\ \E auto \in BOOLEAN : \E k \in IF auto THEN NextOrders(lines[l].acts) ELSE Orders :
          job' = [job EXCEPT ![c] = [Blank(l) EXCEPT !.op = "add",
                                         !.acts = {[id |-> nextId, ord |-> k, auto |-> auto]}]]
    /\ nextId' = nextId + 1
    /\ Goto(c, "commit")
    /\ UNCHANGED <<lines, items, itemOwner, todo, hits>>

CommitAdd(c) ==
    /\ pc[c] = "commit"
    /\ job[c].op = "add"
    /\ lines' = [lines EXCEPT ![job[c].line].acts = @ \cup job[c].acts]
    /\ Finish(c)
    /\ UNCHANGED <<items, nextId>>

(* The row of activity n of line l is free: nobody deletes it with all the
   others, and nobody updates it. *)
ActivityFree(l, n) ==
    /\ \A d \in Clients : lineOwner[l] = d /\ pc[d] = "commit" => job[d].op \notin {"replace", "drop"}
    /\ \A d \in Changing(l) : \A a \in job[d].acts : a.id # n

(* delete_line_activity locks nothing but the activity's own row. *)
RemoveActivity(c, l) ==
    /\ pc[c] = "idle"
    /\ "remove" \in Ops
    /\ \E a \in lines[l].acts :
          /\ ActivityFree(l, a.id)
          /\ lines' = [lines EXCEPT ![l].acts = @ \ {a}]
    /\ UNCHANGED <<items, lineOwner, itemOwner, nextId, pc, job, todo, hits>>

(* update_line_activity: SELECT of the line and of the activity, which take no
   lock; sort_order is among the columns sent, or it is not and stays ... *)
FindActivity(c, l, a, ord) ==
    Open(c, "activity",
         [Blank(l) EXCEPT !.op = "update",
                          !.acts = {[id |-> a.id, ord |-> ord, auto |-> FALSE]}])

MutUpdateActivity(c) ==
    /\ pc[c] = "activity"
    /\ \A a \in job[c].acts : ActivityFree(job[c].line, a.id)
    /\ Goto(c, "commit")
    /\ UNCHANGED <<rows, job, todo, hits>>

(* ... UPDATE of the row with that id on that line, if it is still there ... *)
UpdateActivity(c) ==
    /\ pc[c] = "activity"
    /\ \A a \in job[c].acts : ActivityFree(job[c].line, a.id)
    /\ job' = [job EXCEPT ![c].acts =
                  {a \in @ : \E b \in lines[job[c].line].acts : b.id = a.id}]
    /\ Goto(c, "commit")
    /\ UNCHANGED <<rows, todo, hits>>

Changed(old, sent) ==
    {b \in old : \A a \in sent : a.id # b.id \/ a.ord = 0}
        \cup {a \in sent : a.ord # 0}

(* ... and its commit. *)
CommitUpdate(c) ==
    /\ pc[c] = "commit"
    /\ job[c].op = "update"
    /\ lines' = [lines EXCEPT ![job[c].line].acts = Changed(@, job[c].acts)]
    /\ Finish(c)
    /\ UNCHANGED <<items, nextId>>

-----------------------------------------------------------------------------
(* create_item, as far as lines are concerned: validate_product_payload looks
   for the code without a lock, the client sends the name it was shown ... *)
CheckLine(c, i, s, l) ==
    /\ ~items[i].live
    /\ lines[l].live
    /\ Open(c, "store", [Blank(l) EXCEPT !.op = "create", !.item = i, !.side = s,
                                         !.name = lines[l].name])

(* ... and the product is inserted and committed. *)
StoreItem(c) ==
    LET i == job[c].item
    IN  /\ pc[c] = "store"
        /\ \/ items[i].live /\ UNCHANGED items
           \/ /\ ~items[i].live
              /\ items' = [items EXCEPT ![i] =
                    [live |-> TRUE,
                     code |-> [s \in Sides |-> IF s = job[c].side THEN job[c].line ELSE NoLine],
                     name |-> [s \in Sides |-> IF s = job[c].side THEN job[c].name ELSE NoName]]]
        /\ Finish(c)
        /\ UNCHANGED <<lines, nextId>>

(* update_product_metadata takes whatever code and name the client sends for a
   side: it locks the product and looks at no line. *)
PatchItem(c, i, s, l, n) ==
    /\ pc[c] = "idle"
    /\ "patch" \in Ops
    /\ items[i].live
    /\ itemOwner[i] = NoClient
    /\ itemOwner' = [itemOwner EXCEPT ![i] = c]
    /\ job' = [job EXCEPT ![c] = [Blank(l) EXCEPT !.op = "patch", !.item = i, !.side = s,
                                                  !.name = n]]
    /\ Goto(c, "commit")
    /\ UNCHANGED <<lines, items, lineOwner, nextId, todo, hits>>

CommitPatch(c) ==
    LET j == job[c]
    IN  /\ pc[c] = "commit"
        /\ j.op = "patch"
        /\ items' = [items EXCEPT ![j.item].code[j.side] = j.line,
                                  ![j.item].name[j.side] = j.name]
        /\ Finish(c)
        /\ UNCHANGED <<lines, nextId>>

-----------------------------------------------------------------------------
(* c cannot go on before d's transaction ends. *)
WaitsFor(c, d) ==
    \/ pc[c] = "line" /\ lineOwner[job[c].line] = d
    \/ pc[c] = "clear" /\ d \in Changing(job[c].line)
    \/ /\ pc[c] = "rows"
       /\ todo[c] # {}
       /\ \A i \in todo[c] : itemOwner[i] \notin {NoClient, c}
       /\ \E i \in todo[c] : itemOwner[i] = d

Cycle(S) ==
    \A c \in S : \E b, d \in S \ {c} : WaitsFor(b, c) /\ WaitsFor(c, d)

(* After deadlock_timeout PostgreSQL aborts a transaction of the cycle: 500. *)
DeadlockVictim(c) ==
    /\ \E S \in SUBSET Clients : c \in S /\ Cycle(S)
    /\ GiveUp(c)

(* A statement fails, or the server dies. *)
Abort(c) == pc[c] # "idle" /\ GiveUp(c)

-----------------------------------------------------------------------------
Ask(c) ==
    \E l \in Lines :
        \/ \E n \in Names : Rename(c, l, n) \/ CreateLine(c, l, n)
        \/ \E n \in Names \cup {NoName}, count \in 0..MaxActs : ReplaceLine(c, l, n, count)
        \/ \E n \in Names, i \in Items, s \in Sides : PatchItem(c, i, s, l, n)
        \/ Drop(c, l) \/ AddActivity(c, l) \/ RemoveActivity(c, l)
        \/ \E a \in lines[l].acts, ord \in Orders \cup {0} : FindActivity(c, l, a, ord)
        \/ \E i \in Items, s \in Sides : CheckLine(c, i, s, l)

Acquire(c) ==
    \/ RenameLine(c) \/ DropLine(c) \/ ClearLine(c) \/ UpdateActivity(c)
    \/ \E i \in Items : UpdateRow(c, i)

Serve(c) ==
    \/ StartUpdate(c) \/ EndUpdate(c) \/ LineUnused(c) \/ StoreItem(c)
    \/ CommitRename(c) \/ CommitDrop(c) \/ CommitReplace(c) \/ CommitAdd(c)
    \/ CommitUpdate(c) \/ CommitPatch(c)

Next == \E c \in Clients : Ask(c) \/ Acquire(c) \/ Serve(c) \/ DeadlockVictim(c) \/ Abort(c)

Spec == Init /\ [][Next]_vars

(* Handlers run on, PostgreSQL queues those who wait for a row, and its
   deadlock detector runs. *)
Fairness ==
    \A c \in Clients :
        WF_vars(Serve(c)) /\ SF_vars(Acquire(c)) /\ WF_vars(DeadlockVictim(c))

FairSpec == Spec /\ Fairness
-----------------------------------------------------------------------------
TypeOK ==
    /\ lines     \in [Lines -> Line]
    /\ items     \in [Items -> Product]
    /\ lineOwner \in [Lines -> Clients \cup {NoClient}]
    /\ itemOwner \in [Items -> Clients \cup {NoClient}]
    /\ nextId    \in Nat
    /\ pc        \in [Clients -> PCs]
    /\ job       \in [Clients -> Job]
    /\ todo      \in [Clients -> SUBSET Items]
    /\ hits      \in [Clients -> [Sides -> SUBSET Items]]

(* A product shows the name of the line it names: a rename is cascaded "to
   all products that reference this line" (production_lines.py:425), also
   when several users rename the same line at once. *)
NamesAgree ==
    \A i \in Items, s \in Sides :
        LET l == items[i].code[s]
        IN  items[i].live /\ l # NoLine /\ lines[l].live => items[i].name[s] = lines[l].name

(* Two templates of a line that were not given a place by a client never get
   the same one: MAX + 1 is computed under the lock of the line's row
   (production_lines.py:600-624), although update and delete of activities,
   which run at the same time, do not take that lock. *)
LineOrdersDistinct ==
    \A l \in Lines : \A a, b \in lines[l].acts :
        a.auto /\ b.auto /\ a.ord = b.ord => a = b

(* A template that has been deleted, alone or with all those of its line, does
   not come back with the commit of an update that had found it before
   (production_lines.py:744-767). *)
RemovedStaysRemoved ==
    [][\A l \in Lines : \A a \in lines'[l].acts :
           \/ \E b \in lines[l].acts : b.id = a.id
           \/ \E c \in Clients : job[c].op \in {"add", "replace"} /\ a \in job[c].acts]_vars

(* A line that does not exist has no activities, nobody who was adding one
   when it was deleted leaves one behind, and a line created again under the
   same code starts without. *)
DeletedLineIsEmpty ==
    /\ \A l \in Lines : ~lines[l].live => lines[l].acts = {}
    /\ \A c \in Clients : pc[c] = "commit" /\ job[c].op = "add" => lines[job[c].line].live

(* Every request is answered, deadlocks between two renames included: each
   locks the products of its line, and a product can name both lines. *)
Answered == \A c \in Clients : (pc[c] # "idle") ~> (pc[c] = "idle")
=============================================================================
