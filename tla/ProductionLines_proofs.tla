----------------------- MODULE ProductionLines_proofs -----------------------
(***************************************************************************)
(* Theorems about production lines and their activity templates, for every *)
(* number of clients, lines and products.  Activities are added, replaced  *)
(* and deleted with their line under the lock of the line's row, while     *)
(* updates and single deletions lock nothing but the activity: the         *)
(* invariant says what each side can rely on until it commits.             *)
(***************************************************************************)
EXTENDS ProductionLines, TLAPS

(* The lines the server starts with have what the properties ask for. *)
SeedInOrder ==
    \A l \in Lines :
        /\ ~SeedLines[l].live => SeedLines[l].acts = {}
        /\ \A a, b \in SeedLines[l].acts : a.auto /\ b.auto /\ a.ord = b.ord => a = b

DeadIsEmpty == \A l \in Lines : ~lines[l].live => lines[l].acts = {}

(* Where a request stands tells what it is ... *)
StageInv(c) ==
    /\ pc[c] \in {"statement", "rows"} => job[c].op = "rename"
    /\ pc[c] \in {"unused", "clear"} => job[c].op \in {"drop", "replace"}
    /\ pc[c] = "activity" => job[c].op = "update" /\ job[c].acts # {}
    /\ pc[c] \in {"idle", "store"} => job[c].op # "update"
    /\ job[c].op = "rename" => job[c].name \in Names
    /\ job[c].op \in {"update", "replace"} => \A a \in job[c].acts : ~a.auto

(* ... who adds or replaces activities holds the line, which exists ... *)
HoldsLine(c) ==
    job[c].op \in {"add", "replace"} =>
        lineOwner[job[c].line] = c /\ lines[job[c].line].live

(* ... and the place of one that is added is still free ... *)
PlaceFree(c) ==
    job[c].op = "add" =>
        /\ \A a, b \in job[c].acts : a = b
        /\ \A a \in job[c].acts, b \in lines[job[c].line].acts :
              a.auto /\ b.auto => b.ord < a.ord

(* ... what an UPDATE holds is there ... *)
StillThere(c) ==
    pc[c] = "commit" /\ job[c].op = "update" =>
        \A a \in job[c].acts : \E b \in lines[job[c].line].acts : b.id = a.id

(* ... and nobody updates what is about to go with its line. *)
Undisturbed(c) ==
    /\ pc[c] = "commit"
    /\ job[c].op \in {"replace", "drop"}
    /\ lineOwner[job[c].line] = c
    => Changing(job[c].line) = {}

ClientInv(c) ==
    StageInv(c) /\ HoldsLine(c) /\ PlaceFree(c) /\ StillThere(c) /\ Undisturbed(c)

LinesInv ==
    /\ TypeOK
    /\ DeadIsEmpty
    /\ LineOrdersDistinct
    /\ \A c \in Clients : ClientInv(c)

LEMMA InvImplies == LinesInv => DeletedLineIsEmpty
  BY DEF LinesInv, TypeOK, Job, DeadIsEmpty, ClientInv, HoldsLine, DeletedLineIsEmpty

-----------------------------------------------------------------------------
LEMMA BlankType == \A l \in Lines : Blank(l) \in Job
  BY SizeAssumption DEF Blank, Job, Sides

LEMMA NoJobType == NoJob \in Job /\ NoJob.op = "none"
  BY SizeAssumption, BlankType DEF NoJob, Blank

(* What the end of a transaction does. *)
LEMMA FinishEffect ==
    ASSUME TypeOK, NEW c \in Clients, Finish(c)
    PROVE  /\ lineOwner' \in [Lines -> Clients \cup {NoClient}]
           /\ itemOwner' \in [Items -> Clients \cup {NoClient}]
           /\ pc'   \in [Clients -> PCs]
           /\ job'  \in [Clients -> Job]
           /\ todo' \in [Clients -> SUBSET Items]
           /\ hits' \in [Clients -> [Sides -> SUBSET Items]]
           /\ pc'[c] = "idle" /\ job'[c].op = "none"
           /\ \A d \in Clients \ {c} : /\ pc'[d] = pc[d] /\ job'[d] = job[d]
                                       /\ \A l \in Lines : lineOwner'[l] = d <=> lineOwner[l] = d
  BY NoJobType, NoClientAssumption DEF TypeOK, Finish, Goto, PCs

(* Every step is one client's; what the others rely on stays as long as it
   leaves alone what they hold. *)
LEMMA OthersKeep ==
    ASSUME LinesInv, NEW c \in Clients, TypeOK',
           \A d \in Clients \ {c} :
              /\ pc'[d] = pc[d] /\ job'[d] = job[d]
              /\ \A l \in Lines : lineOwner'[l] = d <=> lineOwner[l] = d,
           \A d \in Clients \ {c}, l \in Lines :
              lineOwner[l] = d /\ lines[l].live =>
                 /\ lines'[l].live
                 /\ \A b \in lines'[l].acts : b.auto => b \in lines[l].acts,
           \A d \in Clients \ {c} : d \in Changing(job[d].line) =>
              \A a \in job[d].acts : \A b \in lines[job[d].line].acts : b.id = a.id =>
                 \E e \in lines'[job[d].line].acts : e.id = a.id,
           pc'[c] = "commit" /\ job'[c].op = "update" =>
              \/ pc[c] = "commit" /\ job[c].op = "update" /\ job'[c].line = job[c].line
              \/ \A d \in Clients \ {c} : pc[d] = "commit" /\ lineOwner[job'[c].line] = d =>
                    job[d].op \notin {"replace", "drop"}
    PROVE  \A d \in Clients \ {c} : ClientInv(d)'
<1> SUFFICES ASSUME NEW d \in Clients \ {c} PROVE ClientInv(d)'
  OBVIOUS
<1>1. /\ pc'[d] = pc[d] /\ job'[d] = job[d] /\ job[d] \in Job /\ job[d].line \in Lines
      /\ ClientInv(d)
  BY DEF LinesInv, TypeOK, Job
<1>2. StageInv(d)'
  BY <1>1 DEF ClientInv, StageInv
<1>3. HoldsLine(d)'
  BY <1>1 DEF ClientInv, HoldsLine
<1>4. PlaceFree(d)'
  BY <1>1 DEF ClientInv, HoldsLine, PlaceFree
<1>5. StillThere(d)'
  BY <1>1 DEF ClientInv, StillThere, Changing
<1>6. Undisturbed(d)'
  <2>1. SUFFICES ASSUME pc[d] = "commit", job[d].op \in {"replace", "drop"},
                        lineOwner[job[d].line] = d,
                        NEW e \in Clients, e \in Changing(job[d].line)'
                 PROVE  FALSE
    BY <1>1 DEF Undisturbed, Changing
  <2>2. Changing(job[d].line) = {}
    BY <1>1, <2>1 DEF ClientInv, Undisturbed
  <2>3. e = c
    BY <2>1, <2>2 DEF Changing
  <2>4. QED
    BY <1>1, <2>1, <2>2, <2>3 DEF Changing
<1>7. QED
  BY <1>2, <1>3, <1>4, <1>5, <1>6 DEF ClientInv

(* The end of a transaction that changes no activities. *)
LEMMA FinishKeeps ==
    ASSUME LinesInv, NEW c \in Clients, Finish(c),
           lines' \in [Lines -> Line], items' \in [Items -> Product], nextId' \in Nat,
           \A l \in Lines : lines'[l].live = lines[l].live /\ lines'[l].acts = lines[l].acts
    PROVE  LinesInv'
<1>1. TypeOK
  BY DEF LinesInv
<1>2. TypeOK'
  BY <1>1, FinishEffect DEF TypeOK
<1>3. DeadIsEmpty' /\ LineOrdersDistinct'
  BY DEF LinesInv, DeadIsEmpty, LineOrdersDistinct
<1>4. pc'[c] = "idle" /\ job'[c].op = "none"
  BY <1>1, FinishEffect
<1>5. ClientInv(c)'
  BY <1>4 DEF ClientInv, StageInv, HoldsLine, PlaceFree, StillThere, Undisturbed
<1>6. \A d \in Clients \ {c} : /\ pc'[d] = pc[d] /\ job'[d] = job[d]
                               /\ \A l \in Lines : lineOwner'[l] = d <=> lineOwner[l] = d
  BY <1>1, FinishEffect
<1>7. \A d \in Clients : job[d].line \in Lines
  BY <1>1 DEF TypeOK, Job
<1>8. \A d \in Clients \ {c} : ClientInv(d)'
  BY <1>2, <1>4, <1>6, <1>7, OthersKeep
<1>9. QED
  BY <1>2, <1>3, <1>5, <1>8 DEF LinesInv

(* A step that leaves the lines as they are. *)
LEMMA SameLines ==
    ASSUME LinesInv, NEW c \in Clients, TypeOK', lines' = lines, ClientInv(c)',
           \A d \in Clients \ {c} :
              /\ pc'[d] = pc[d] /\ job'[d] = job[d]
              /\ \A l \in Lines : lineOwner'[l] = d <=> lineOwner[l] = d,
           pc'[c] = "commit" /\ job'[c].op = "update" =>
              \A d \in Clients \ {c} : pc[d] = "commit" /\ lineOwner[job'[c].line] = d =>
                 job[d].op \notin {"replace", "drop"}
    PROVE  LinesInv'
<1>1. DeadIsEmpty' /\ LineOrdersDistinct'
  BY DEF LinesInv, DeadIsEmpty, LineOrdersDistinct
<1>2. \A d \in Clients \ {c} : ClientInv(d)'
  BY OthersKeep
<1>3. QED
  BY <1>1, <1>2 DEF LinesInv

(* The first statements. *)
LEMMA OpenKeeps ==
    ASSUME LinesInv, NEW c \in Clients, NEW label, NEW j, Open(c, label, j),
           j \in Job, label \in {"line", "unused", "activity", "store"},
           label = "unused" => j.op = "drop",
           label = "activity" => j.op = "update" /\ j.acts # {},
           label = "store" => j.op # "update",
           j.op = "rename" => j.name \in Names,
           j.op \notin {"add", "replace"},
           j.op = "update" => \A a \in j.acts : ~a.auto
    PROVE  LinesInv'
<1>1. TypeOK
  BY DEF LinesInv
<1>2. TypeOK'
  BY <1>1 DEF TypeOK, Open, Goto, PCs, rows
<1>3. pc'[c] = label /\ job'[c] = j
  BY <1>1 DEF TypeOK, Open, Goto
<1>4. ClientInv(c)'
  BY <1>3 DEF ClientInv, StageInv, HoldsLine, PlaceFree, StillThere, Undisturbed
<1>5. QED
  BY <1>1, <1>2, <1>3, <1>4, SameLines DEF Open, Goto, TypeOK, rows

LEMMA RenameKeeps ==
    ASSUME LinesInv, NEW c \in Clients, NEW l \in Lines, NEW n \in Names, Rename(c, l, n)
    PROVE  LinesInv'
<1> DEFINE j == [Blank(l) EXCEPT !.op = "rename", !.name = n]
<1>1. j \in Job /\ j.op = "rename" /\ j.name = n
  BY BlankType DEF Blank, Job, OpNames
<1>2. Open(c, "line", j)
  BY DEF Rename
<1> HIDE DEF j
<1>3. QED
  BY <1>1, <1>2, OpenKeeps

LEMMA DropKeeps ==
    ASSUME LinesInv, NEW c \in Clients, NEW l \in Lines, Drop(c, l)
    PROVE  LinesInv'
<1> DEFINE j == [Blank(l) EXCEPT !.op = "drop"]
<1>1. j \in Job /\ j.op = "drop"
  BY BlankType DEF Blank, Job, OpNames
<1>2. Open(c, "unused", j)
  BY DEF Drop
<1> HIDE DEF j
<1>3. QED
  BY <1>1, <1>2, OpenKeeps

LEMMA FindActivityKeeps ==
    ASSUME LinesInv, NEW c \in Clients, NEW l \in Lines, NEW a \in lines[l].acts,
           NEW ord \in Orders \cup {0}, FindActivity(c, l, a, ord)
    PROVE  LinesInv'
<1> DEFINE e == [id |-> a.id, ord |-> ord, auto |-> FALSE]
           j == [Blank(l) EXCEPT !.op = "update", !.acts = {e}]
<1>1. a \in LineActivity
  BY DEF LinesInv, TypeOK, Line
<1>2. e \in LineActivity /\ ~e.auto
  BY <1>1, OrdersAssumption DEF LineActivity
<1>3. Open(c, "activity", j)
  BY DEF FindActivity
<1> HIDE DEF e
<1>4. j \in Job /\ j.op = "update" /\ j.acts = {e}
  BY <1>2, BlankType DEF Blank, Job, OpNames
<1> HIDE DEF j
<1>5. QED
  BY <1>2, <1>3, <1>4, OpenKeeps

LEMMA CheckLineKeeps ==
    ASSUME LinesInv, NEW c \in Clients, NEW l \in Lines, NEW i \in Items, NEW s \in Sides,
           CheckLine(c, i, s, l)
    PROVE  LinesInv'
<1> DEFINE j == [Blank(l) EXCEPT !.op = "create", !.item = i, !.side = s,
                                 !.name = lines[l].name]
<1>1. lines[l].name \in Names
  BY DEF LinesInv, TypeOK, Line
<1>2. j \in Job /\ j.op = "create"
  BY <1>1, BlankType DEF Blank, Job, OpNames
<1>3. Open(c, "store", j)
  BY DEF CheckLine
<1> HIDE DEF j
<1>4. QED
  BY <1>2, <1>3, OpenKeeps

-----------------------------------------------------------------------------
(* The steps of a rename and of a deletion before their commit. *)
LEMMA RenameLineKeeps ==
    ASSUME LinesInv, NEW c \in Clients, RenameLine(c)
    PROVE  LinesInv'
<1>1. TypeOK /\ ClientInv(c)
  BY DEF LinesInv
<1>2. TypeOK'
  BY <1>1 DEF TypeOK, RenameLine, Goto, PCs, Job
<1>3. pc'[c] = "statement" /\ job' = job /\ job[c].op = "rename"
  BY <1>1 DEF TypeOK, RenameLine, Goto
<1>4. ClientInv(c)'
  BY <1>1, <1>3 DEF ClientInv, StageInv, HoldsLine, PlaceFree, StillThere, Undisturbed
<1>5. \A d \in Clients \ {c} :
         pc'[d] = pc[d] /\ \A l \in Lines : lineOwner'[l] = d <=> lineOwner[l] = d
  BY <1>1, NoClientAssumption DEF TypeOK, RenameLine, Goto, Job
<1>6. QED
  BY <1>2, <1>3, <1>4, <1>5, SameLines DEF RenameLine

LEMMA StartUpdateKeeps ==
    ASSUME LinesInv, NEW c \in Clients, StartUpdate(c)
    PROVE  LinesInv'
<1>1. TypeOK /\ ClientInv(c)
  BY DEF LinesInv
<1>2. TypeOK'
  BY <1>1 DEF TypeOK, StartUpdate, Goto, PCs, rows, Naming
<1>3. pc'[c] = "rows" /\ job' = job /\ job[c].op = "rename"
  BY <1>1 DEF TypeOK, StartUpdate, Goto, ClientInv, StageInv
<1>4. ClientInv(c)'
  BY <1>1, <1>3 DEF ClientInv, StageInv, HoldsLine, PlaceFree, StillThere, Undisturbed
<1>5. QED
  BY <1>1, <1>2, <1>3, <1>4, SameLines DEF StartUpdate, Goto, TypeOK, rows

LEMMA UpdateRowKeeps ==
    ASSUME LinesInv, NEW c \in Clients, NEW i \in Items, UpdateRow(c, i)
    PROVE  LinesInv'
<1>1. TypeOK /\ ClientInv(c) /\ job[c].side \in Sides
  BY DEF LinesInv, TypeOK, Job
<1>2. TypeOK'
  <2>1. hits' \in [Clients -> [Sides -> SUBSET Items]]
    <3> DEFINE s == job[c].side
               h == [hits[c] EXCEPT ![s] = hits[c][s] \cup {i}]
    <3>1. hits' = hits \/ hits' = [hits EXCEPT ![c] = h]
      BY DEF UpdateRow
    <3>2. hits[c] \in [Sides -> SUBSET Items]
      BY <1>1 DEF TypeOK
    <3>3. h \in [Sides -> SUBSET Items]
      BY <1>1, <3>2
    <3> HIDE DEF h
    <3>4. QED
      BY <1>1, <3>1, <3>3 DEF TypeOK
  <2>2. QED
    BY <1>1, <2>1 DEF TypeOK, UpdateRow
<1>3. pc' = pc /\ job' = job /\ lines' = lines /\ lineOwner' = lineOwner
      /\ pc[c] = "rows" /\ job[c].op = "rename"
  BY <1>1 DEF UpdateRow, ClientInv, StageInv
<1>4. ClientInv(c)'
  BY <1>1, <1>3 DEF ClientInv, StageInv, HoldsLine, PlaceFree, StillThere, Undisturbed
<1>5. QED
  BY <1>2, <1>3, <1>4, SameLines

LEMMA EndUpdateKeeps ==
    ASSUME LinesInv, NEW c \in Clients, EndUpdate(c)
    PROVE  LinesInv'
<1>1. TypeOK /\ ClientInv(c) /\ job[c] \in Job
  BY DEF LinesInv, TypeOK
<1>2. /\ job'[c].op = job[c].op /\ job'[c].line = job[c].line
      /\ job'[c].name = job[c].name /\ job'[c].acts = job[c].acts
      /\ job' \in [Clients -> Job]
      /\ \A d \in Clients \ {c} : job'[d] = job[d]
  <2> DEFINE j == [job[c] EXCEPT !.side = "bm"]
  <2>1. job' = job \/ job' = [job EXCEPT ![c] = j]
    BY DEF EndUpdate
  <2>2. /\ j \in Job /\ j.op = job[c].op /\ j.line = job[c].line
        /\ j.name = job[c].name /\ j.acts = job[c].acts
    BY <1>1 DEF Job, Sides
  <2> HIDE DEF j
  <2>3. QED
    BY <1>1, <2>1, <2>2 DEF TypeOK
<1>3. /\ pc'[c] \in {"statement", "commit"} /\ pc' \in [Clients -> PCs]
      /\ \A d \in Clients \ {c} : pc'[d] = pc[d]
  BY <1>1 DEF TypeOK, EndUpdate, Goto, PCs
<1>4. lines' = lines /\ lineOwner' = lineOwner /\ job[c].op = "rename"
  BY <1>1 DEF EndUpdate, rows, ClientInv, StageInv
<1>5. TypeOK'
  BY <1>1, <1>2, <1>3 DEF TypeOK, EndUpdate, rows
<1>6. ClientInv(c)'
  BY <1>1, <1>2, <1>3, <1>4
     DEF ClientInv, StageInv, HoldsLine, PlaceFree, StillThere, Undisturbed
<1>7. QED
  BY <1>2, <1>3, <1>4, <1>5, <1>6, SameLines

LEMMA DropLineKeeps ==
    ASSUME LinesInv, NEW c \in Clients, DropLine(c)
    PROVE  LinesInv'
<1>1. TypeOK /\ ClientInv(c)
  BY DEF LinesInv
<1>2. TypeOK'
  BY <1>1 DEF TypeOK, DropLine, Goto, PCs, Job
<1>3. pc'[c] = "clear" /\ job' = job /\ job[c].op = "drop"
  BY <1>1 DEF TypeOK, DropLine, Goto
<1>4. ClientInv(c)'
  BY <1>1, <1>3 DEF ClientInv, StageInv, HoldsLine, PlaceFree, StillThere, Undisturbed
<1>5. \A d \in Clients \ {c} :
         pc'[d] = pc[d] /\ \A l \in Lines : lineOwner'[l] = d <=> lineOwner[l] = d
  BY <1>1, NoClientAssumption DEF TypeOK, DropLine, Goto, Job
<1>6. QED
  BY <1>2, <1>3, <1>4, <1>5, SameLines DEF DropLine

(* The activities of a line are deleted once nobody updates one: nobody will
   until they are gone. *)
LEMMA ClearLineKeeps ==
    ASSUME LinesInv, NEW c \in Clients, ClearLine(c)
    PROVE  LinesInv'
<1>1. TypeOK /\ ClientInv(c) /\ job[c].op \in {"drop", "replace"}
  BY DEF LinesInv, ClearLine, ClientInv, StageInv
<1>2. TypeOK'
  BY <1>1 DEF TypeOK, ClearLine, Goto, PCs, rows
<1>3. /\ pc'[c] = "commit" /\ job' = job /\ lines' = lines /\ lineOwner' = lineOwner
      /\ \A d \in Clients \ {c} : pc'[d] = pc[d]
  BY <1>1 DEF TypeOK, ClearLine, Goto, rows
<1>4. Undisturbed(c)'
  BY <1>1, <1>3 DEF ClearLine, Undisturbed, Changing
<1>5. ClientInv(c)'
  BY <1>1, <1>3, <1>4 DEF ClientInv, StageInv, HoldsLine, PlaceFree, StillThere
<1>6. QED
  BY <1>1, <1>2, <1>3, <1>5, SameLines

(* The UPDATE of an activity waits for those who delete its line. *)
LEMMA UpdateActivityKeeps ==
    ASSUME LinesInv, NEW c \in Clients, UpdateActivity(c)
    PROVE  LinesInv'
<1>1. TypeOK /\ ClientInv(c) /\ job[c] \in Job /\ job[c].op = "update" /\ job[c].acts # {}
  BY DEF LinesInv, TypeOK, UpdateActivity, ClientInv, StageInv
<1> DEFINE found == {a \in job[c].acts : \E b \in lines[job[c].line].acts : b.id = a.id}
<1>2. job' = [job EXCEPT ![c].acts = found]
  BY DEF UpdateActivity
<1>3. \A a \in found : a \in job[c].acts /\ \E b \in lines[job[c].line].acts : b.id = a.id
  OBVIOUS
<1>4. /\ pc'[c] = "commit" /\ lines' = lines /\ lineOwner' = lineOwner
      /\ \A d \in Clients \ {c} : pc'[d] = pc[d]
  BY <1>1 DEF TypeOK, UpdateActivity, Goto, rows
<1>5. \A d \in Clients : lineOwner[job[c].line] = d /\ pc[d] = "commit" =>
         job[d].op \notin {"replace", "drop"}
  BY <1>1 DEF UpdateActivity, ActivityFree
<1> HIDE DEF found
<1>6. /\ job'[c].op = "update" /\ job'[c].line = job[c].line /\ job'[c].acts = found
      /\ job' \in [Clients -> Job]
      /\ \A d \in Clients \ {c} : job'[d] = job[d]
  BY <1>1, <1>2, <1>3 DEF TypeOK, Job
<1>7. TypeOK'
  BY <1>1, <1>6 DEF TypeOK, UpdateActivity, Goto, PCs, rows
<1>8. ClientInv(c)'
  BY <1>1, <1>3, <1>4, <1>6
     DEF ClientInv, StageInv, HoldsLine, PlaceFree, StillThere, Undisturbed
<1>9. QED
  BY <1>4, <1>5, <1>6, <1>7, <1>8, SameLines

-----------------------------------------------------------------------------
LEMMA LineUnusedKeeps ==
    ASSUME LinesInv, NEW c \in Clients, LineUnused(c)
    PROVE  LinesInv'
<1>1. TypeOK /\ ClientInv(c)
  BY DEF LinesInv
<1>2. CASE GiveUp(c)
  BY <1>1, <1>2, FinishKeeps DEF GiveUp, TypeOK
<1>3. CASE ~GiveUp(c)
  <2>1. /\ pc' = [pc EXCEPT ![c] = "line"] /\ job' = job /\ lines' = lines
        /\ lineOwner' = lineOwner /\ UNCHANGED <<rows, todo, hits>>
    BY <1>3 DEF LineUnused, Goto, rows
  <2>2. TypeOK' /\ pc'[c] = "line" /\ \A d \in Clients \ {c} : pc'[d] = pc[d]
    BY <1>1, <2>1 DEF TypeOK, PCs, rows
  <2>3. ClientInv(c)'
    BY <1>1, <2>1, <2>2
       DEF ClientInv, StageInv, HoldsLine, PlaceFree, StillThere, Undisturbed
  <2>4. QED
    BY <2>1, <2>2, <2>3, SameLines
<1>4. QED
  BY <1>2, <1>3

(* A line is renamed: its activities are what they were. *)
LEMMA CommitRenameKeeps ==
    ASSUME LinesInv, NEW c \in Clients, CommitRename(c)
    PROVE  LinesInv'
<1> DEFINE l == job[c].line
           n == job[c].name
<1>1. TypeOK /\ l \in Lines /\ n \in Names
  BY DEF LinesInv, TypeOK, Job, ClientInv, StageInv, CommitRename
<1>2. lines' = lines \/ lines' = [lines EXCEPT ![l].name = n]
  BY DEF CommitRename
<1>3. items' = [i \in Items |->
                   [items[i] EXCEPT !.name =
                       [s \in Sides |-> IF i \in hits[c][s] THEN n ELSE @[s]]]]
  BY DEF CommitRename
<1>4. Finish(c) /\ nextId' = nextId
  BY DEF CommitRename
<1> HIDE DEF l, n
<1>5. /\ lines' \in [Lines -> Line]
      /\ \A k \in Lines : lines'[k].live = lines[k].live /\ lines'[k].acts = lines[k].acts
  <2> DEFINE new == [lines[l] EXCEPT !.name = n]
  <2>1. lines' = lines \/ lines' = [lines EXCEPT ![l] = new]
    BY <1>2
  <2>2. new \in Line /\ new.live = lines[l].live /\ new.acts = lines[l].acts
    BY <1>1 DEF TypeOK, Line
  <2> HIDE DEF new
  <2>3. QED
    BY <1>1, <2>1, <2>2 DEF TypeOK
<1>6. items' \in [Items -> Product]
  <2>1. ASSUME NEW i \in Items
        PROVE  [items[i] EXCEPT !.name =
                   [s \in Sides |-> IF i \in hits[c][s] THEN n ELSE @[s]]] \in Product
    <3>1. items[i] \in Product
      BY <1>1 DEF TypeOK
    <3> DEFINE new == [s \in Sides |-> IF i \in hits[c][s] THEN n ELSE items[i].name[s]]
    <3>2. new \in [Sides -> Names \cup {NoName}]
      BY <1>1, <3>1 DEF Product
    <3> HIDE DEF new
    <3>3. [items[i] EXCEPT !.name = new] \in Product
      BY <3>1, <3>2 DEF Product
    <3>4. QED
      BY <3>3 DEF new
  <2>2. QED
    BY <1>3, <2>1
<1>7. nextId' \in Nat
  BY <1>1, <1>4 DEF TypeOK
<1>8. QED
  BY <1>4, <1>5, <1>6, <1>7, FinishKeeps

LEMMA StoreItemKeeps ==
    ASSUME LinesInv, NEW c \in Clients, StoreItem(c)
    PROVE  LinesInv'
<1>1. TypeOK /\ job[c] \in Job
  BY DEF LinesInv, TypeOK
<1> DEFINE j   == job[c]
           new == [live |-> TRUE,
                   code |-> [s \in Sides |-> IF s = j.side THEN j.line ELSE NoLine],
                   name |-> [s \in Sides |-> IF s = j.side THEN j.name ELSE NoName]]
<1>2. new \in Product
  BY <1>1 DEF Product, Job
<1>3. items' = items \/ items' = [items EXCEPT ![j.item] = new]
  BY DEF StoreItem
<1> HIDE DEF new
<1>4. items' \in [Items -> Product]
  BY <1>1, <1>2, <1>3 DEF TypeOK, Job
<1>5. Finish(c) /\ lines' = lines /\ nextId' = nextId
  BY DEF StoreItem
<1>6. QED
  BY <1>1, <1>4, <1>5, FinishKeeps DEF TypeOK

LEMMA CommitPatchKeeps ==
    ASSUME LinesInv, NEW c \in Clients, CommitPatch(c)
    PROVE  LinesInv'
<1>1. TypeOK /\ job[c] \in Job /\ items[job[c].item] \in Product
  BY DEF LinesInv, TypeOK, Job
<1> DEFINE j    == job[c]
           code == [items[j.item].code EXCEPT ![j.side] = j.line]
           name == [items[j.item].name EXCEPT ![j.side] = j.name]
           new  == [items[j.item] EXCEPT !.code = code, !.name = name]
<1>2. code \in [Sides -> Lines \cup {NoLine}] /\ name \in [Sides -> Names \cup {NoName}]
  BY <1>1 DEF Product, Job
<1>3. items' = [items EXCEPT ![j.item] = new]
  BY <1>1 DEF CommitPatch, TypeOK, Job, Product
<1> HIDE DEF code, name
<1>4. new \in Product
  BY <1>1, <1>2 DEF Product
<1> HIDE DEF new
<1>5. items' \in [Items -> Product]
  BY <1>1, <1>3, <1>4 DEF TypeOK, Job
<1>6. Finish(c) /\ lines' = lines /\ nextId' = nextId
  BY DEF CommitPatch
<1>7. QED
  BY <1>1, <1>5, <1>6, FinishKeeps DEF TypeOK

LEMMA GiveUpKeeps ==
    ASSUME LinesInv, NEW c \in Clients, GiveUp(c)
    PROVE  LinesInv'
  BY FinishKeeps DEF GiveUp, LinesInv, TypeOK

-----------------------------------------------------------------------------
(* Requests that take the lock of the line in their first statement. *)
LEMMA ReplaceLineKeeps ==
    ASSUME LinesInv, NEW c \in Clients, NEW l \in Lines, NEW n \in Names \cup {NoName},
           NEW count \in 0..MaxActs, ReplaceLine(c, l, n, count)
    PROVE  LinesInv'
<1> DEFINE sent == {[id |-> nextId + k - 1, ord |-> k, auto |-> FALSE] : k \in 1..count}
           j    == [Blank(l) EXCEPT !.op = "replace", !.name = n, !.acts = sent]
<1>1. TypeOK /\ ClientInv(c) /\ nextId \in Nat
  BY DEF LinesInv, TypeOK
<1>2. sent \subseteq LineActivity /\ \A a \in sent : ~a.auto
  <2>1. ASSUME NEW a \in sent PROVE a \in LineActivity /\ ~a.auto
    <3>1. PICK k \in 1..count : a = [id |-> nextId + k - 1, ord |-> k, auto |-> FALSE]
      OBVIOUS
    <3>2. nextId + k - 1 \in Nat /\ k \in Nat
      BY <1>1, BoundAssumption
    <3>3. QED
      BY <3>1, <3>2 DEF LineActivity
  <2>2. QED
    BY <2>1
<1>3. job' = [job EXCEPT ![c] = j]
  BY DEF ReplaceLine
<1> HIDE DEF sent
<1>4. j \in Job /\ j.op = "replace" /\ j.line = l /\ j.acts = sent
  BY <1>2, BlankType DEF Blank, Job, OpNames
<1> HIDE DEF j
<1>5. job' \in [Clients -> Job] /\ job'[c] = j /\ \A d \in Clients \ {c} : job'[d] = job[d]
  BY <1>1, <1>3, <1>4 DEF TypeOK
<1>6. /\ lineOwner' \in [Lines -> Clients \cup {NoClient}] /\ lineOwner'[l] = c
      /\ \A d \in Clients \ {c}, k \in Lines : lineOwner'[k] = d <=> lineOwner[k] = d
  BY <1>1, NoClientAssumption DEF TypeOK, ReplaceLine
<1>7. pc' \in [Clients -> PCs] /\ pc'[c] = "clear" /\ \A d \in Clients \ {c} : pc'[d] = pc[d]
  BY <1>1 DEF TypeOK, ReplaceLine, Goto, PCs
<1>8. lines' = lines /\ lines[l].live /\ nextId' \in Nat
  BY <1>1, BoundAssumption DEF ReplaceLine
<1>9. TypeOK'
  BY <1>1, <1>5, <1>6, <1>7, <1>8 DEF TypeOK, ReplaceLine
<1>10. ClientInv(c)'
  BY <1>2, <1>4, <1>5, <1>6, <1>7, <1>8
     DEF ClientInv, StageInv, HoldsLine, PlaceFree, StillThere, Undisturbed
<1>11. QED
  BY <1>5, <1>6, <1>7, <1>8, <1>9, <1>10, SameLines

(* MAX + 1 is computed under the lock, behind all that have a place. *)
LEMMA AddActivityKeeps ==
    ASSUME LinesInv, NEW c \in Clients, NEW l \in Lines, AddActivity(c, l)
    PROVE  LinesInv'
<1>1. TypeOK /\ ClientInv(c) /\ nextId \in Nat /\ lines[l].acts \subseteq LineActivity
  BY DEF LinesInv, TypeOK, Line
<1>2. PICK auto \in BOOLEAN : \E k \in IF auto THEN NextOrders(lines[l].acts) ELSE Orders :
        job' = [job EXCEPT ![c] = [Blank(l) EXCEPT !.op = "add",
                                       !.acts = {[id |-> nextId, ord |-> k, auto |-> auto]}]]
  BY DEF AddActivity
<1>3. PICK k \in IF auto THEN NextOrders(lines[l].acts) ELSE Orders :
        job' = [job EXCEPT ![c] = [Blank(l) EXCEPT !.op = "add",
                                       !.acts = {[id |-> nextId, ord |-> k, auto |-> auto]}]]
  BY <1>2
<1>4. k \in Nat /\ (auto => \A b \in lines[l].acts : b.ord < k)
  BY <1>1, <1>3, OrdersAssumption DEF NextOrders, LineActivity
<1> DEFINE a == [id |-> nextId, ord |-> k, auto |-> auto]
           j == [Blank(l) EXCEPT !.op = "add", !.acts = {a}]
<1>5. a \in LineActivity /\ a.ord = k /\ a.auto = auto
  BY <1>1, <1>4 DEF LineActivity
<1>6. job' = [job EXCEPT ![c] = j]
  BY <1>3
<1> HIDE DEF a
<1>7. j \in Job /\ j.op = "add" /\ j.line = l /\ j.acts = {a}
  BY <1>5, BlankType DEF Blank, Job, OpNames
<1> HIDE DEF j
<1>8. job' \in [Clients -> Job] /\ job'[c] = j /\ \A d \in Clients \ {c} : job'[d] = job[d]
  BY <1>1, <1>6, <1>7 DEF TypeOK
<1>9. /\ lineOwner' \in [Lines -> Clients \cup {NoClient}] /\ lineOwner'[l] = c
      /\ \A d \in Clients \ {c}, m \in Lines : lineOwner'[m] = d <=> lineOwner[m] = d
  BY <1>1, NoClientAssumption DEF TypeOK, AddActivity
<1>10. pc' \in [Clients -> PCs] /\ pc'[c] = "commit" /\ \A d \in Clients \ {c} : pc'[d] = pc[d]
  BY <1>1 DEF TypeOK, AddActivity, Goto, PCs
<1>11. lines' = lines /\ lines[l].live /\ nextId' \in Nat
  BY <1>1 DEF AddActivity
<1>12. TypeOK'
  BY <1>1, <1>8, <1>9, <1>10, <1>11 DEF TypeOK, AddActivity
<1>13. ClientInv(c)'
  BY <1>4, <1>5, <1>7, <1>8, <1>9, <1>10, <1>11
     DEF ClientInv, StageInv, HoldsLine, PlaceFree, StillThere, Undisturbed
<1>14. QED
  BY <1>7, <1>8, <1>9, <1>10, <1>11, <1>12, <1>13, SameLines

LEMMA PatchItemKeeps ==
    ASSUME LinesInv, NEW c \in Clients, NEW i \in Items, NEW s \in Sides, NEW l \in Lines,
           NEW n \in Names, PatchItem(c, i, s, l, n)
    PROVE  LinesInv'
<1> DEFINE j == [Blank(l) EXCEPT !.op = "patch", !.item = i, !.side = s, !.name = n]
<1>1. TypeOK /\ ClientInv(c)
  BY DEF LinesInv
<1>2. job' = [job EXCEPT ![c] = j]
  BY DEF PatchItem
<1>3. j \in Job /\ j.op = "patch"
  BY BlankType DEF Blank, Job, OpNames
<1> HIDE DEF j
<1>4. job' \in [Clients -> Job] /\ job'[c] = j /\ \A d \in Clients \ {c} : job'[d] = job[d]
  BY <1>1, <1>2, <1>3 DEF TypeOK
<1>5. pc' \in [Clients -> PCs] /\ pc'[c] = "commit" /\ \A d \in Clients \ {c} : pc'[d] = pc[d]
  BY <1>1 DEF TypeOK, PatchItem, Goto, PCs
<1>6. lines' = lines /\ lineOwner' = lineOwner
  BY DEF PatchItem
<1>7. TypeOK'
  BY <1>1, <1>4, <1>5 DEF TypeOK, PatchItem
<1>8. ClientInv(c)'
  BY <1>3, <1>4, <1>5 DEF ClientInv, StageInv, HoldsLine, PlaceFree, StillThere, Undisturbed
<1>9. QED
  BY <1>3, <1>4, <1>5, <1>6, <1>7, <1>8, SameLines

-----------------------------------------------------------------------------
(* Steps that change the activities of one line l, to acts: what the others
   rely on stays if the line is theirs, and what they update remains. *)
LEMMA ActivitiesKeep ==
    ASSUME LinesInv, NEW c \in Clients, NEW l \in Lines, TypeOK', ClientInv(c)',
           \A d \in Clients \ {c} :
              /\ pc'[d] = pc[d] /\ job'[d] = job[d]
              /\ \A m \in Lines : lineOwner'[m] = d <=> lineOwner[m] = d,
           pc'[c] # "commit" \/ job'[c].op # "update",
           \A m \in Lines \ {l} : lines'[m] = lines[m],
           ~lines'[l].live => lines'[l].acts = {},
           \A a, b \in lines'[l].acts : a.auto /\ b.auto /\ a.ord = b.ord => a = b,
           \A d \in Clients \ {c} : lineOwner[l] = d /\ lines[l].live =>
              /\ lines'[l].live
              /\ \A b \in lines'[l].acts : b.auto => b \in lines[l].acts,
           \A d \in Clients \ {c} : d \in Changing(l) =>
              \A a \in job[d].acts : \A b \in lines[l].acts : b.id = a.id =>
                 \E e \in lines'[l].acts : e.id = a.id
    PROVE  LinesInv'
<1>1. DeadIsEmpty'
  BY DEF LinesInv, DeadIsEmpty
<1>2. LineOrdersDistinct'
  <2>1. \A m \in Lines \ {l} : \A a, b \in lines'[m].acts :
           a.auto /\ b.auto /\ a.ord = b.ord => a = b
    BY DEF LinesInv, LineOrdersDistinct
  <2>2. QED
    BY <2>1 DEF LineOrdersDistinct
<1>3. \A d \in Clients \ {c}, m \in Lines : lineOwner[m] = d /\ lines[m].live =>
         /\ lines'[m].live
         /\ \A b \in lines'[m].acts : b.auto => b \in lines[m].acts
  OBVIOUS
<1>4. \A d \in Clients \ {c} : d \in Changing(job[d].line) =>
         \A a \in job[d].acts : \A b \in lines[job[d].line].acts : b.id = a.id =>
            \E e \in lines'[job[d].line].acts : e.id = a.id
  <2>1. \A d \in Clients : job[d].line \in Lines
    BY DEF LinesInv, TypeOK, Job
  <2>2. SUFFICES ASSUME NEW d \in Clients \ {c}, d \in Changing(job[d].line),
                        NEW a \in job[d].acts, NEW b \in lines[job[d].line].acts,
                        b.id = a.id
                 PROVE  \E e \in lines'[job[d].line].acts : e.id = a.id
    OBVIOUS
  <2>3. CASE job[d].line = l
    BY <2>2, <2>3
  <2>4. CASE job[d].line # l
    BY <2>1, <2>2, <2>4
  <2>5. QED
    BY <2>3, <2>4
<1>5. \A d \in Clients \ {c} : ClientInv(d)'
  BY <1>3, <1>4, OthersKeep
<1>6. QED
  BY <1>1, <1>2, <1>5 DEF LinesInv

LEMMA CreateLineKeeps ==
    ASSUME LinesInv, NEW c \in Clients, NEW l \in Lines, NEW n \in Names, CreateLine(c, l, n)
    PROVE  LinesInv'
<1> DEFINE new == [live |-> TRUE, name |-> n, acts |-> {}]
<1>1. TypeOK /\ ClientInv(c) /\ DeadIsEmpty
  BY DEF LinesInv
<1>2. lines' = [lines EXCEPT ![l] = new] /\ ~lines[l].live
  BY DEF CreateLine
<1>3. new \in Line /\ new.live /\ new.acts = {}
  BY DEF Line
<1> HIDE DEF new
<1>4. pc' = pc /\ job' = job /\ lineOwner' = lineOwner /\ pc[c] = "idle"
  BY DEF CreateLine
<1>5. /\ lines' \in [Lines -> Line] /\ lines'[l] = new
      /\ \A m \in Lines \ {l} : lines'[m] = lines[m]
  BY <1>1, <1>2, <1>3 DEF TypeOK
<1>6. TypeOK'
  BY <1>1, <1>4, <1>5 DEF TypeOK, CreateLine
<1>7. lines[l].acts = {}
  BY <1>1, <1>2 DEF DeadIsEmpty
<1>8. ClientInv(c)'
  <2>1. job[c].line \in Lines
    BY <1>1 DEF TypeOK, Job
  <2>2. QED
    BY <1>1, <1>3, <1>4, <1>5, <2>1
       DEF ClientInv, StageInv, HoldsLine, PlaceFree, StillThere, Undisturbed
<1>9. QED
  BY <1>2, <1>3, <1>4, <1>5, <1>6, <1>7, <1>8, ActivitiesKeep

(* One activity goes, which nobody updates. *)
LEMMA RemoveActivityKeeps ==
    ASSUME LinesInv, NEW c \in Clients, NEW l \in Lines, RemoveActivity(c, l)
    PROVE  LinesInv'
<1>1. PICK x \in lines[l].acts : ActivityFree(l, x.id)
                                 /\ lines' = [lines EXCEPT ![l].acts = @ \ {x}]
  BY DEF RemoveActivity
<1>2. TypeOK /\ ClientInv(c) /\ DeadIsEmpty /\ LineOrdersDistinct /\ lines[l] \in Line
  BY DEF LinesInv, TypeOK
<1> DEFINE new == [lines[l] EXCEPT !.acts = lines[l].acts \ {x}]
<1>3. lines' = [lines EXCEPT ![l] = new]
  BY <1>1
<1>4. new \in Line /\ new.live = lines[l].live /\ new.acts = lines[l].acts \ {x}
  BY <1>2 DEF Line
<1> HIDE DEF new
<1>5. pc' = pc /\ job' = job /\ lineOwner' = lineOwner /\ pc[c] = "idle"
  BY DEF RemoveActivity
<1>6. /\ lines' \in [Lines -> Line] /\ lines'[l] = new
      /\ \A m \in Lines \ {l} : lines'[m] = lines[m]
  BY <1>2, <1>3, <1>4 DEF TypeOK
<1>7. TypeOK'
  BY <1>2, <1>5, <1>6 DEF TypeOK, RemoveActivity
<1>8. ClientInv(c)'
  <2>1. job[c].line \in Lines
    BY <1>2 DEF TypeOK, Job
  <2>2. QED
    BY <1>2, <1>4, <1>5, <1>6, <2>1
       DEF ClientInv, StageInv, HoldsLine, PlaceFree, StillThere, Undisturbed
<1>9. \A d \in Clients \ {c} : d \in Changing(l) =>
         \A a \in job[d].acts : \A b \in lines[l].acts : b.id = a.id =>
            \E e \in lines'[l].acts : e.id = a.id
  BY <1>1, <1>4, <1>6 DEF ActivityFree
<1>10. \A a, b \in lines'[l].acts : a.auto /\ b.auto /\ a.ord = b.ord => a = b
  BY <1>2, <1>4, <1>6 DEF LineOrdersDistinct
<1>11. ~lines'[l].live => lines'[l].acts = {}
  BY <1>2, <1>4, <1>6 DEF DeadIsEmpty
<1>12. QED
  BY <1>4, <1>5, <1>6, <1>7, <1>8, <1>9, <1>10, <1>11, ActivitiesKeep

-----------------------------------------------------------------------------
(* The commits that change the activities of the line of the request: the
   same lemma for the end of a transaction. *)
LEMMA CommitKeeps ==
    ASSUME LinesInv, NEW c \in Clients, Finish(c), NEW new \in Line,
           lines' = [lines EXCEPT ![job[c].line] = new], items' = items, nextId' = nextId,
           ~new.live => new.acts = {},
           \A a, b \in new.acts : a.auto /\ b.auto /\ a.ord = b.ord => a = b,
           \A d \in Clients \ {c} : lineOwner[job[c].line] = d /\ lines[job[c].line].live =>
              /\ new.live
              /\ \A b \in new.acts : b.auto => b \in lines[job[c].line].acts,
           \A d \in Clients \ {c} : d \in Changing(job[c].line) =>
              \A a \in job[d].acts : \A b \in lines[job[c].line].acts : b.id = a.id =>
                 \E e \in new.acts : e.id = a.id
    PROVE  LinesInv'
<1>1. TypeOK /\ job[c].line \in Lines
  BY DEF LinesInv, TypeOK, Job
<1>2. /\ lines' \in [Lines -> Line] /\ lines'[job[c].line] = new
      /\ \A m \in Lines \ {job[c].line} : lines'[m] = lines[m]
  BY <1>1 DEF TypeOK
<1>3. pc'[c] = "idle" /\ job'[c].op = "none"
  BY <1>1, FinishEffect
<1>4. \A d \in Clients \ {c} : /\ pc'[d] = pc[d] /\ job'[d] = job[d]
                               /\ \A m \in Lines : lineOwner'[m] = d <=> lineOwner[m] = d
  BY <1>1, FinishEffect
<1>5. TypeOK'
  BY <1>1, <1>2, FinishEffect DEF TypeOK
<1>6. ClientInv(c)'
  BY <1>3 DEF ClientInv, StageInv, HoldsLine, PlaceFree, StillThere, Undisturbed
<1>7. QED
  BY <1>1, <1>2, <1>3, <1>4, <1>5, <1>6, ActivitiesKeep

LEMMA CommitDropKeeps ==
    ASSUME LinesInv, NEW c \in Clients, CommitDrop(c)
    PROVE  LinesInv'
<1> DEFINE l   == job[c].line
           new == [lines[l] EXCEPT !.live = FALSE, !.acts = {}]
<1>1. TypeOK /\ ClientInv(c) /\ l \in Lines /\ lines[l] \in Line
  BY DEF LinesInv, TypeOK, Job
<1>2. /\ Finish(c) /\ pc[c] = "commit" /\ job[c].op = "drop"
      /\ items' = items /\ nextId' = nextId
  BY DEF CommitDrop
<1>3. CASE lineOwner[l] = c
  <2>1. lines' = [lines EXCEPT ![l] = new]
    BY <1>3 DEF CommitDrop
  <2>2. new \in Line /\ ~new.live /\ new.acts = {}
    BY <1>1 DEF Line
  <2> HIDE DEF new
  <2>3. Changing(l) = {}
    BY <1>1, <1>2, <1>3 DEF ClientInv, Undisturbed
  <2>4. QED
    BY <1>2, <1>3, <2>1, <2>2, <2>3, CommitKeeps
<1>4. CASE lineOwner[l] # c
  <2>1. lines' = lines
    BY <1>4 DEF CommitDrop
  <2>2. QED
    BY <1>1, <1>2, <2>1, FinishKeeps DEF TypeOK
<1>5. QED
  BY <1>3, <1>4

LEMMA CommitReplaceKeeps ==
    ASSUME LinesInv, NEW c \in Clients, CommitReplace(c)
    PROVE  LinesInv'
<1> DEFINE l   == job[c].line
           n   == IF job[c].name = NoName THEN lines[l].name ELSE job[c].name
           new == [lines[l] EXCEPT !.acts = job[c].acts, !.name = n]
<1>1. TypeOK /\ ClientInv(c) /\ job[c] \in Job /\ l \in Lines /\ lines[l] \in Line
  BY DEF LinesInv, TypeOK, Job
<1>2. /\ Finish(c) /\ pc[c] = "commit" /\ job[c].op = "replace"
      /\ items' = items /\ nextId' = nextId
  BY DEF CommitReplace
<1>3. lines' = [lines EXCEPT ![l] = new]
  BY <1>1 DEF CommitReplace, TypeOK, Line
<1>4. n \in Names
  BY <1>1 DEF Job, Line
<1> HIDE DEF n
<1>5. new \in Line /\ new.live = lines[l].live /\ new.acts = job[c].acts
  BY <1>1, <1>4 DEF Line, Job
<1> HIDE DEF new
<1>6. lineOwner[l] = c /\ lines[l].live /\ \A a \in job[c].acts : ~a.auto
  BY <1>1, <1>2 DEF ClientInv, HoldsLine, StageInv
<1>7. Changing(l) = {}
  BY <1>1, <1>2, <1>6 DEF ClientInv, Undisturbed
<1>8. QED
  BY <1>2, <1>3, <1>5, <1>6, <1>7, CommitKeeps

LEMMA CommitAddKeeps ==
    ASSUME LinesInv, NEW c \in Clients, CommitAdd(c)
    PROVE  LinesInv'
<1> DEFINE l   == job[c].line
           new == [lines[l] EXCEPT !.acts = lines[l].acts \cup job[c].acts]
<1>1. /\ TypeOK /\ ClientInv(c) /\ LineOrdersDistinct /\ job[c] \in Job
      /\ l \in Lines /\ lines[l] \in Line
  BY DEF LinesInv, TypeOK, Job
<1>2. /\ Finish(c) /\ pc[c] = "commit" /\ job[c].op = "add"
      /\ items' = items /\ nextId' = nextId
  BY DEF CommitAdd
<1>3. lines' = [lines EXCEPT ![l] = new]
  BY DEF CommitAdd
<1>4. new \in Line /\ new.live = lines[l].live /\ new.acts = lines[l].acts \cup job[c].acts
  BY <1>1 DEF Line, Job
<1> HIDE DEF new
<1>5. lineOwner[l] = c /\ lines[l].live
  BY <1>1, <1>2 DEF ClientInv, HoldsLine
<1>6. \A a, b \in new.acts : a.auto /\ b.auto /\ a.ord = b.ord => a = b
  <2>1. \A a, b \in job[c].acts : a = b
    BY <1>1, <1>2 DEF ClientInv, PlaceFree
  <2>2. \A a \in job[c].acts, b \in lines[l].acts : a.auto /\ b.auto => a.ord # b.ord
    <3>1. \A a \in job[c].acts, b \in lines[l].acts : a.auto /\ b.auto => b.ord < a.ord
      BY <1>1, <1>2 DEF ClientInv, PlaceFree
    <3>2. \A a \in job[c].acts : a.ord \in Nat
      BY <1>1 DEF Job, LineActivity
    <3>3. QED
      BY <3>1, <3>2
  <2>3. \A a, b \in lines[l].acts : a.auto /\ b.auto /\ a.ord = b.ord => a = b
    BY <1>1 DEF LineOrdersDistinct
  <2>4. QED
    BY <1>4, <2>1, <2>2, <2>3
<1>7. \A d \in Clients \ {c} : lineOwner[l] = d /\ lines[l].live =>
         /\ new.live
         /\ \A b \in new.acts : b.auto => b \in lines[l].acts
  BY <1>5
<1>8. \A a \in lines[l].acts : \E e \in new.acts : e.id = a.id
  BY <1>4
<1>9. \A d \in Clients \ {c} : d \in Changing(l) =>
         \A a \in job[d].acts : \A b \in lines[l].acts : b.id = a.id =>
            \E e \in new.acts : e.id = a.id
  BY <1>8, Zenon
<1>10. ~new.live => new.acts = {}
  BY <1>4, <1>5
<1>11. new \in Line
  BY <1>4
<1>12. QED
  BY <1>2, <1>3, <1>6, <1>7, <1>9, <1>10, <1>11, CommitKeeps

(* The activities updated are those of the line still, with new places. *)
LEMMA CommitUpdateKeeps ==
    ASSUME LinesInv, NEW c \in Clients, CommitUpdate(c)
    PROVE  LinesInv'
<1> DEFINE l    == job[c].line
           sent == job[c].acts
           acts == Changed(lines[l].acts, sent)
           new  == [lines[l] EXCEPT !.acts = acts]
<1>1. /\ TypeOK /\ ClientInv(c) /\ DeadIsEmpty /\ LineOrdersDistinct
      /\ job[c] \in Job /\ l \in Lines /\ lines[l] \in Line
  BY DEF LinesInv, TypeOK, Job
<1>2. /\ Finish(c) /\ pc[c] = "commit" /\ job[c].op = "update"
      /\ items' = items /\ nextId' = nextId
  BY DEF CommitUpdate
<1>3. lines' = [lines EXCEPT ![l] = new]
  BY DEF CommitUpdate
<1>4. /\ \A a \in sent : ~a.auto
      /\ \A a \in sent : \E b \in lines[l].acts : b.id = a.id
  BY <1>1, <1>2 DEF ClientInv, StageInv, StillThere
<1>5. /\ acts \subseteq lines[l].acts \cup sent
      /\ \A a \in acts : a.auto => a \in lines[l].acts
      /\ \A b \in lines[l].acts : \E e \in acts : e.id = b.id
  BY <1>4 DEF Changed
<1> HIDE DEF acts
<1>6. new \in Line /\ new.live = lines[l].live /\ new.acts = acts
  BY <1>1, <1>5 DEF Line, Job
<1> HIDE DEF new
<1>7. ~lines[l].live => acts = {}
  BY <1>1, <1>4, <1>5 DEF DeadIsEmpty
<1>8. \A a, b \in acts : a.auto /\ b.auto /\ a.ord = b.ord => a = b
  BY <1>1, <1>5 DEF LineOrdersDistinct
<1>9. \A d \in Clients \ {c} : lineOwner[l] = d /\ lines[l].live =>
         /\ new.live
         /\ \A b \in new.acts : b.auto => b \in lines[l].acts
  BY <1>5, <1>6
<1>10. \A d \in Clients \ {c} : d \in Changing(l) =>
          \A a \in job[d].acts : \A b \in lines[l].acts : b.id = a.id =>
             \E e \in new.acts : e.id = a.id
  BY <1>5, <1>6, Zenon
<1>11. ~new.live => new.acts = {}
  BY <1>6, <1>7
<1>12. \A a, b \in new.acts : a.auto /\ b.auto /\ a.ord = b.ord => a = b
  BY <1>6, <1>8
<1>13. QED
  BY <1>2, <1>3, <1>6, <1>9, <1>10, <1>11, <1>12, CommitKeeps

-----------------------------------------------------------------------------
LEMMA InitKeeps == Init /\ SeedInOrder => LinesInv
<1> SUFFICES ASSUME Init, SeedInOrder PROVE LinesInv
  OBVIOUS
<1>1. TypeOK
  BY NoJobType, SeedAssumption DEF Init, TypeOK, PCs
<1>2. DeadIsEmpty /\ LineOrdersDistinct
  BY DEF Init, SeedInOrder, DeadIsEmpty, LineOrdersDistinct
<1>3. \A c \in Clients : ClientInv(c)
  BY NoJobType
     DEF Init, ClientInv, StageInv, HoldsLine, PlaceFree, StillThere, Undisturbed
<1>4. QED
  BY <1>1, <1>2, <1>3 DEF LinesInv

LEMMA StepKeeps == LinesInv /\ [Next]_vars => LinesInv'
<1> SUFFICES ASSUME LinesInv, [Next]_vars PROVE LinesInv'
  OBVIOUS
<1>1. CASE UNCHANGED vars
  BY <1>1 DEF vars, rows, LinesInv, TypeOK, DeadIsEmpty, LineOrdersDistinct, ClientInv,
              StageInv, HoldsLine, PlaceFree, StillThere, Undisturbed, Changing
<1>2. CASE Next
  <2>1. PICK c \in Clients : Ask(c) \/ Acquire(c) \/ Serve(c) \/ DeadlockVictim(c) \/ Abort(c)
    BY <1>2 DEF Next
  <2>2. CASE Ask(c)
    BY <2>2, RenameKeeps, CreateLineKeeps, ReplaceLineKeeps, PatchItemKeeps, DropKeeps,
       AddActivityKeeps, RemoveActivityKeeps, FindActivityKeeps, CheckLineKeeps DEF Ask
  <2>3. CASE Acquire(c)
    BY <2>3, RenameLineKeeps, DropLineKeeps, ClearLineKeeps, UpdateActivityKeeps,
       UpdateRowKeeps DEF Acquire
  <2>4. CASE Serve(c)
    BY <2>4, StartUpdateKeeps, EndUpdateKeeps, LineUnusedKeeps, StoreItemKeeps,
       CommitRenameKeeps, CommitDropKeeps, CommitReplaceKeeps, CommitAddKeeps,
       CommitUpdateKeeps, CommitPatchKeeps DEF Serve
  <2>5. CASE DeadlockVictim(c) \/ Abort(c)
    BY <2>5, GiveUpKeeps DEF DeadlockVictim, Abort
  <2>6. QED
    BY <2>1, <2>2, <2>3, <2>4, <2>5
<1>3. QED
  BY <1>1, <1>2

LEMMA LinesInvariant == ASSUME SeedInOrder PROVE Spec => []LinesInv
<1>1. Init => LinesInv
  BY InitKeeps
<1>2. QED
  BY <1>1, StepKeeps, PTL DEF Spec

(* Every variable keeps its type, whatever clients send. *)
THEOREM LinesTypeCorrect == ASSUME SeedInOrder PROVE Spec => []TypeOK
<1>1. LinesInv => TypeOK
  BY DEF LinesInv
<1>2. QED
  BY <1>1, LinesInvariant, PTL

(* Places that add_line_activity computes (production_lines.py:614-624) stay
   distinct, for any number of clients who add, update, delete and replace. *)
THEOREM PlacesStayDistinct == ASSUME SeedInOrder PROVE Spec => []LineOrdersDistinct
<1>1. LinesInv => LineOrdersDistinct
  BY DEF LinesInv
<1>2. QED
  BY <1>1, LinesInvariant, PTL

(* Nothing is left on, or comes to, a line that has been deleted
   (production_lines.py:523-527). *)
THEOREM DeletedLinesAreEmpty == ASSUME SeedInOrder PROVE Spec => []DeletedLineIsEmpty
  BY InvImplies, LinesInvariant, PTL

(* A template that is gone does not come back with the commit of an UPDATE
   that had found it before (production_lines.py:744-767). *)
THEOREM RemovedTemplatesStayRemoved == ASSUME SeedInOrder PROVE Spec => RemovedStaysRemoved
<1> DEFINE Fresh(l, a) ==
             \/ \E b \in lines[l].acts : b.id = a.id
             \/ \E c \in Clients : job[c].op \in {"add", "replace"} /\ a \in job[c].acts
           Step == \A l \in Lines : \A a \in lines'[l].acts : Fresh(l, a)
<1>1. LinesInv /\ [Next]_vars => [Step]_vars
  <2>1. SUFFICES ASSUME LinesInv, Next, NEW l \in Lines, NEW a \in lines'[l].acts
                 PROVE  Fresh(l, a)
    BY Zenon
  <2>2. lines' = lines => Fresh(l, a)
    OBVIOUS
  <2>3. TypeOK /\ lines[l] \in Line /\ \A c \in Clients : job[c].line \in Lines
    BY <2>1 DEF LinesInv, TypeOK, Job
  <2>4. PICK c \in Clients : Ask(c) \/ Acquire(c) \/ Serve(c) \/ DeadlockVictim(c) \/ Abort(c)
    BY <2>1 DEF Next
  <2>5. CASE Ask(c)
    <3>1. CASE \E m \in Lines, n \in Names : CreateLine(c, m, n)
      BY <2>3, <3>1 DEF CreateLine, TypeOK
    <3>2. CASE \E m \in Lines : RemoveActivity(c, m)
      BY <2>3, <3>2 DEF RemoveActivity, TypeOK
    <3>3. CASE lines' = lines
      BY <2>2, <3>3
    <3>4. QED
      BY <2>5, <3>1, <3>2, <3>3
         DEF Ask, Rename, Drop, FindActivity, CheckLine, Open, rows, ReplaceLine,
             PatchItem, AddActivity
  <2>6. CASE Acquire(c) \/ DeadlockVictim(c) \/ Abort(c)
    BY <2>2, <2>6 DEF Acquire, RenameLine, DropLine, ClearLine, UpdateActivity, UpdateRow,
                      rows, DeadlockVictim, Abort, GiveUp
  <2>7. CASE Serve(c)
    <3>1. CASE CommitRename(c)
      BY <2>2, <2>3, <3>1 DEF CommitRename, TypeOK
    <3>2. CASE CommitDrop(c)
      BY <2>2, <2>3, <3>2 DEF CommitDrop, TypeOK
    <3>3. CASE CommitReplace(c)
      BY <2>2, <2>3, <3>3 DEF CommitReplace, TypeOK
    <3>4. CASE CommitAdd(c)
      BY <2>2, <2>3, <3>4 DEF CommitAdd, TypeOK
    <3>5. CASE CommitUpdate(c)
      <4>1. \A e \in job[c].acts : \E b \in lines[job[c].line].acts : b.id = e.id
        BY <2>1, <3>5 DEF CommitUpdate, LinesInv, ClientInv, StillThere
      <4>2. l = job[c].line =>
               a \in lines[l].acts \/ a \in job[c].acts
        BY <2>3, <3>5 DEF CommitUpdate, Changed, TypeOK, Line
      <4>3. l # job[c].line => lines'[l] = lines[l]
        BY <2>3, <3>5 DEF CommitUpdate, TypeOK
      <4>4. QED
        BY <4>1, <4>2, <4>3
    <3>6. CASE lines' = lines
      BY <2>2, <3>6
    <3>7. QED
      BY <2>7, <3>1, <3>2, <3>3, <3>4, <3>5, <3>6
         DEF Serve, StartUpdate, EndUpdate, LineUnused, GiveUp, StoreItem, CommitPatch, rows
  <2>8. QED
    BY <2>4, <2>5, <2>6, <2>7
<1>2. QED
  BY <1>1, LinesInvariant, PTL DEF Spec, RemovedStaysRemoved

-----------------------------------------------------------------------------
(***************************************************************************)
(* The copies of a line's name.  create_item stores the name its client    *)
(* was shown, update_product_metadata any name, and update_production_line *)
(* renames a line without its products; where none of these is used, the   *)
(* products of a line carry its name, whatever is renamed, deleted and     *)
(* created at the same time.                                               *)
(***************************************************************************)
NamesCascaded == Ops \cap {"replace", "create", "patch"} = {}

SeedAgrees ==
    \A i \in Items, s \in Sides :
        LET l == SeedItems[i].code[s]
        IN  SeedItems[i].live /\ l # NoLine =>
              SeedLines[l].live /\ SeedItems[i].name[s] = SeedLines[l].name

Agree ==
    \A i \in Items, s \in Sides :
        LET l == items[i].code[s]
        IN  items[i].live /\ l # NoLine =>
              lines[l].live /\ items[i].name[s] = lines[l].name

Unused(l) == \A s \in Sides : Naming(l, s) = {}

(* Whose UPDATEs have come to all products that name line l on side s. *)
AllHit(c, l, s) == Naming(l, s) \subseteq hits[c][s]

(* A rename holds its line, unless it found none, and then no product names
   it; what an UPDATE has not come to is still before it. *)
RenameInv(c, l) ==
    /\ Unused(l) \/ (lineOwner[l] = c /\ lines[l].live)
    /\ job[c].side = "bm" => AllHit(c, l, "fg")
    /\ pc[c] = "rows" => Naming(l, job[c].side) \subseteq hits[c][job[c].side] \cup todo[c]
    /\ pc[c] = "commit" => \A s \in Sides : AllHit(c, l, s)

NameInv(c) ==
    /\ job[c].op \in Ops \cup {"none"}
    /\ pc[c] = "store" => job[c].op = "create"
    /\ pc[c] \in {"idle", "line"} => \A s \in Sides : hits[c][s] = {}
    /\ \A s \in Sides : hits[c][s] \subseteq Naming(job[c].line, s)
    /\ job[c].op = "rename" /\ pc[c] = "line" => job[c].side = "fg"
    /\ job[c].op = "rename" /\ pc[c] \in {"statement", "rows", "commit"} =>
          RenameInv(c, job[c].line)
    /\ job[c].op = "drop" /\ pc[c] \in {"line", "clear", "commit"} => Unused(job[c].line)

NamesInv == Agree /\ \A c \in Clients : NameInv(c)

(* No product changes the lines it names. *)
CodesStay ==
    \A i \in Items : items'[i].live = items[i].live /\ items'[i].code = items[i].code

Mine(c) ==
    /\ pc'[c] = pc[c] /\ job'[c] = job[c] /\ todo'[c] = todo[c] /\ hits'[c] = hits[c]
    /\ \A l \in Lines : lineOwner'[l] = c <=> lineOwner[l] = c

LEMMA NamingStays == CodesStay => \A l, s : Naming(l, s)' = Naming(l, s)
  BY DEF CodesStay, Naming

LEMMA OthersRename ==
    ASSUME LinesInv, NamesInv, CodesStay, NEW d \in Clients, Mine(d),
           \A l \in Lines : lineOwner[l] = d /\ lines[l].live => lines'[l].live
    PROVE  NameInv(d)'
<1>0. job[d].line \in Lines
  BY DEF LinesInv, TypeOK, Job
<1> PICK l \in Lines : l = job[d].line
  BY <1>0
<1>1. NameInv(d)
  BY DEF NamesInv
<1>2. /\ pc'[d] = pc[d] /\ job'[d] = job[d] /\ todo'[d] = todo[d] /\ hits'[d] = hits[d]
      /\ lineOwner'[l] = d <=> lineOwner[l] = d
      /\ lineOwner[l] = d /\ lines[l].live => lines'[l].live
  BY <1>1 DEF Mine
<1>3. \A k, s : Naming(k, s)' = Naming(k, s)
  BY NamingStays
<1>4. /\ Unused(l)' <=> Unused(l)
      /\ \A s : AllHit(d, l, s)' <=> AllHit(d, l, s)
  BY <1>2, <1>3 DEF Unused, AllHit
<1>5. RenameInv(d, l) => RenameInv(d, l)'
  BY <1>2, <1>3, <1>4 DEF RenameInv
<1> QED
  BY <1>1, <1>2, <1>3, <1>4, <1>5 DEF NameInv

(* The end of a transaction that keeps the products' codes. *)
LEMMA FinishNames ==
    ASSUME LinesInv, NEW c \in Clients, Finish(c)
    PROVE  NameInv(c)' /\ \A d \in Clients \ {c} : Mine(d)
<1>1. TypeOK
  BY DEF LinesInv
<1>2. /\ todo' = [todo EXCEPT ![c] = {}]
      /\ hits' = [hits EXCEPT ![c] = [s \in Sides |-> {}]]
  BY DEF Finish
<1>3. /\ pc'[c] = "idle" /\ job'[c].op = "none"
      /\ \A d \in Clients \ {c} : /\ pc'[d] = pc[d] /\ job'[d] = job[d]
                                  /\ \A l \in Lines : lineOwner'[l] = d <=> lineOwner[l] = d
  BY <1>1, FinishEffect
<1>4. \A s \in Sides : hits'[c][s] = {}
  BY <1>1, <1>2 DEF TypeOK
<1>5. \A d \in Clients \ {c} : todo'[d] = todo[d] /\ hits'[d] = hits[d]
  BY <1>1, <1>2 DEF TypeOK
<1>6. \A d \in Clients \ {c} : Mine(d)
  BY <1>3, <1>5 DEF Mine
<1> QED
  BY <1>3, <1>4, <1>6 DEF NameInv

(* A step that changes neither products nor names, nor deletes a line. *)
LEMMA SameNames ==
    ASSUME LinesInv, NamesInv, NEW c \in Clients, items' = items, NameInv(c)',
           \A d \in Clients \ {c} : Mine(d),
           \A l \in Lines : lines'[l].live = lines[l].live /\ lines'[l].name = lines[l].name
    PROVE  NamesInv'
<1>1. CodesStay
  BY DEF CodesStay
<1>2. \A d \in Clients \ {c} : NameInv(d)'
  BY <1>1, OthersRename
<1>3. \A i \in Items, s \in Sides : items[i].code[s] \in Lines \cup {NoLine}
  BY DEF LinesInv, TypeOK, Product
<1>4. Agree'
  BY <1>3 DEF NamesInv, Agree
<1> QED
  BY <1>2, <1>4 DEF NamesInv

LEMMA OpenNames ==
    ASSUME LinesInv, NamesInv, NEW c \in Clients, NEW label, NEW j, Open(c, label, j),
           label \in {"line", "unused", "activity", "store"},
           label = "line" => j.op = "rename" /\ j.side = "fg",
           label # "line" => j.op # "rename",
           label = "store" => j.op = "create"
    PROVE  NamesInv'
<1>1. TypeOK
  BY DEF LinesInv
<1>2. pc'[c] = label /\ job'[c] = j /\ hits' = hits /\ j.op \in Ops /\ pc[c] = "idle"
  BY <1>1 DEF Open, Goto, TypeOK
<1>3. \A s \in Sides : hits[c][s] = {}
  BY <1>2 DEF NamesInv, NameInv
<1>4. NameInv(c)'
  BY <1>2, <1>3 DEF NameInv
<1>5. \A d \in Clients \ {c} : Mine(d)
  BY <1>1 DEF Open, Goto, TypeOK, rows, Mine
<1> QED
  BY <1>4, <1>5, SameNames DEF Open, rows

LEMMA AskNames ==
    ASSUME LinesInv, NamesInv, NamesCascaded, NEW c \in Clients, Ask(c)
    PROVE  NamesInv'
<1> USE DEF Blank
<1>1. TypeOK
  BY DEF LinesInv
<1>2. ASSUME NEW l \in Lines, NEW n \in Names, Rename(c, l, n) PROVE NamesInv'
  <2>1. PICK j : j.op = "rename" /\ j.side = "fg" /\ Open(c, "line", j)
    BY <1>2 DEF Rename
  <2> QED
    BY <2>1, OpenNames
<1>3. ASSUME NEW l \in Lines, Drop(c, l) PROVE NamesInv'
  <2>1. PICK j : j.op = "drop" /\ Open(c, "unused", j)
    BY <1>3 DEF Drop
  <2> QED
    BY <2>1, OpenNames
<1>4. ASSUME NEW l \in Lines, NEW a, NEW ord, FindActivity(c, l, a, ord) PROVE NamesInv'
  <2>1. PICK j : j.op = "update" /\ Open(c, "activity", j)
    BY <1>4 DEF FindActivity
  <2> QED
    BY <2>1, OpenNames
<1>5. ASSUME NEW l \in Lines, NEW i, NEW s, CheckLine(c, i, s, l) PROVE NamesInv'
  <2>1. PICK j : j.op = "create" /\ Open(c, "store", j)
    BY <1>5 DEF CheckLine
  <2> QED
    BY <2>1, OpenNames
<1>6. ASSUME NEW l \in Lines, NEW n, NEW count, ReplaceLine(c, l, n, count) PROVE FALSE
  BY <1>6 DEF ReplaceLine, NamesCascaded
<1>7. ASSUME NEW l \in Lines, NEW n, NEW i, NEW s, PatchItem(c, i, s, l, n) PROVE FALSE
  BY <1>7 DEF PatchItem, NamesCascaded
(* A line that is created again was no product's. *)
<1>8. ASSUME NEW l \in Lines, NEW n \in Names, CreateLine(c, l, n) PROVE NamesInv'
  <2>1. /\ ~lines[l].live /\ lines'[l].live
        /\ \A k \in Lines \ {l} : lines'[k] = lines[k]
        /\ UNCHANGED <<items, lineOwner, pc, job, todo, hits>>
    BY <1>1, <1>8 DEF CreateLine, TypeOK
  <2>2. CodesStay /\ \A d \in Clients : Mine(d)
    BY <2>1 DEF CodesStay, Mine
  <2>3. \A d \in Clients : NameInv(d)'
    BY <2>1, <2>2, OthersRename
  <2>4. \A i \in Items, s \in Sides :
           items[i].live /\ items[i].code[s] # NoLine => items[i].code[s] \in Lines \ {l}
    BY <1>1, <2>1 DEF TypeOK, Product, NamesInv, Agree
  <2>5. Agree'
    BY <2>1, <2>4 DEF NamesInv, Agree
  <2> QED
    BY <2>3, <2>5 DEF NamesInv
<1>9. ASSUME NEW l \in Lines, AddActivity(c, l) PROVE NamesInv'
  <2>1. /\ pc'[c] = "commit" /\ job'[c].op = "add" /\ hits'[c] = hits[c] /\ pc[c] = "idle"
        /\ "add" \in Ops /\ items' = items /\ lines' = lines
    BY <1>1, <1>9 DEF AddActivity, Goto, TypeOK
  <2>2. NameInv(c)'
    BY <2>1 DEF NamesInv, NameInv
  <2>3. \A d \in Clients \ {c} : Mine(d)
    BY <1>1, <1>9, NoClientAssumption DEF AddActivity, Goto, TypeOK, Mine
  <2> QED
    BY <2>1, <2>2, <2>3, SameNames
<1>10. ASSUME NEW l \in Lines, RemoveActivity(c, l) PROVE NamesInv'
  <2>1. /\ \A k \in Lines : lines'[k].live = lines[k].live /\ lines'[k].name = lines[k].name
        /\ UNCHANGED <<items, lineOwner, pc, job, todo, hits>>
    BY <1>1, <1>10 DEF RemoveActivity, TypeOK, Line
  <2>2. CodesStay /\ \A d \in Clients : Mine(d)
    BY <2>1 DEF CodesStay, Mine
  <2>3. NameInv(c)'
    BY <2>1, <2>2, OthersRename
  <2> QED
    BY <2>1, <2>2, <2>3, SameNames
<1> QED
  BY <1>2, <1>3, <1>4, <1>5, <1>6, <1>7, <1>8, <1>9, <1>10 DEF Ask

LEMMA GiveUpNames ==
    ASSUME LinesInv, NamesInv, NEW c \in Clients, GiveUp(c)
    PROVE  NamesInv'
  BY FinishNames, SameNames DEF GiveUp

(* The UPDATE of the line: it holds the row from here on, or there is none. *)
LEMMA RenameLineNames ==
    ASSUME LinesInv, NamesInv, NEW c \in Clients, RenameLine(c)
    PROVE  NamesInv'
<1>1. /\ TypeOK /\ job[c] \in Job /\ job[c].line \in Lines
      /\ \A i \in Items : items[i] \in Product
  BY DEF LinesInv, TypeOK, Job
<1> PICK l \in Lines : l = job[c].line
  BY <1>1
<1>2. /\ pc'[c] = "statement" /\ job' = job /\ todo' = todo /\ hits' = hits
      /\ items' = items /\ lines' = lines
      /\ pc[c] = "line" /\ job[c].op = "rename" /\ lineOwner[l] = NoClient
      /\ lines[l].live => lineOwner'[l] = c
  BY <1>1 DEF RenameLine, Goto, TypeOK
<1>3. NameInv(c) /\ job[c].side = "fg" /\ \A s \in Sides : hits[c][s] = {}
  BY <1>2 DEF NamesInv, NameInv
<1>4. ~lines[l].live => Unused(l)
  BY <1>1, NoLineAssumption DEF NamesInv, Agree, Unused, Naming
<1>5. \A k, s : Naming(k, s)' = Naming(k, s)
  BY <1>2, NamingStays DEF CodesStay
<1>6. RenameInv(c, l)'
  BY <1>2, <1>3, <1>4, <1>5 DEF RenameInv, Unused
<1>7. NameInv(c)'
  BY <1>2, <1>3, <1>5, <1>6 DEF NameInv
<1>8. \A d \in Clients \ {c} : Mine(d)
  BY <1>1, <1>2, NoClientAssumption DEF RenameLine, Goto, TypeOK, Mine
<1> QED
  BY <1>2, <1>7, <1>8, SameNames

LEMMA StartUpdateNames ==
    ASSUME LinesInv, NamesInv, NEW c \in Clients, StartUpdate(c)
    PROVE  NamesInv'
<1>1. TypeOK /\ ClientInv(c) /\ job[c].line \in Lines /\ NameInv(c)
  BY DEF LinesInv, TypeOK, Job, NamesInv
<1> PICK l \in Lines : l = job[c].line
  BY <1>1
<1>2. /\ pc'[c] = "rows" /\ job' = job /\ hits' = hits
      /\ todo'[c] = Naming(l, job[c].side)
      /\ UNCHANGED rows
      /\ pc[c] = "statement" /\ job[c].op = "rename"
  BY <1>1 DEF StartUpdate, Goto, TypeOK, ClientInv, StageInv
<1>3. \A k, s : Naming(k, s)' = Naming(k, s)
  BY <1>2, NamingStays DEF CodesStay, rows
<1>4. RenameInv(c, l)
  BY <1>1, <1>2 DEF NameInv
<1>5. RenameInv(c, l)'
  BY <1>2, <1>3, <1>4 DEF RenameInv, Unused, AllHit, rows
<1>6. NameInv(c)'
  BY <1>1, <1>2, <1>3, <1>5 DEF NameInv
<1>7. \A d \in Clients \ {c} : Mine(d)
  BY <1>1 DEF StartUpdate, Goto, TypeOK, Mine, rows
<1> QED
  BY <1>2, <1>6, <1>7, SameNames DEF rows

LEMMA UpdateRowNames ==
    ASSUME LinesInv, NamesInv, NEW c \in Clients, NEW i \in Items, UpdateRow(c, i)
    PROVE  NamesInv'
<1>1. /\ TypeOK /\ ClientInv(c) /\ job[c].line \in Lines /\ job[c].side \in Sides
      /\ hits[c] \in [Sides -> SUBSET Items] /\ NameInv(c)
  BY DEF LinesInv, TypeOK, Job, NamesInv
<1> PICK l \in Lines, s \in Sides : l = job[c].line /\ s = job[c].side
  BY <1>1
<1>2. /\ UNCHANGED <<lines, items, lineOwner, nextId, pc, job>>
      /\ pc[c] = "rows" /\ job[c].op = "rename"
      /\ todo'[c] = todo[c] \ {i}
      /\ \A d \in Clients \ {c} : todo'[d] = todo[d] /\ hits'[d] = hits[d]
  BY <1>1 DEF UpdateRow, TypeOK, ClientInv, StageInv
<1> DEFINE new == [hits[c] EXCEPT ![s] = @ \cup {i}]
<1>3. \/ i \in Naming(l, s) /\ hits'[c] = new
      \/ i \notin Naming(l, s) /\ hits'[c] = hits[c]
  BY <1>1 DEF UpdateRow, TypeOK
<1>4. new[s] = hits[c][s] \cup {i} /\ \A t \in Sides \ {s} : new[t] = hits[c][t]
  BY <1>1
<1> HIDE DEF new
<1>5. \A k, t : Naming(k, t)' = Naming(k, t)
  BY <1>2, NamingStays DEF CodesStay
<1>6. RenameInv(c, l) /\ \A t \in Sides : hits[c][t] \subseteq Naming(l, t)
  BY <1>1, <1>2 DEF NameInv
<1>7. RenameInv(c, l)'
  <2>1. \A t \in Sides : hits[c][t] \subseteq hits'[c][t]
    BY <1>3, <1>4
  <2>2. Naming(l, s) \subseteq hits'[c][s] \cup todo'[c]
    BY <1>2, <1>3, <1>4, <1>6 DEF RenameInv
  <2> QED
    BY <1>2, <1>5, <1>6, <2>1, <2>2 DEF RenameInv, Unused, AllHit, Sides
<1>8. \A t \in Sides : hits'[c][t] \subseteq Naming(l, t)
  BY <1>3, <1>4, <1>6
<1>9. NameInv(c)'
  BY <1>1, <1>2, <1>5, <1>7, <1>8 DEF NameInv
<1>10. \A d \in Clients \ {c} : Mine(d)
  BY <1>2 DEF Mine
<1> QED
  BY <1>2, <1>9, <1>10, SameNames

LEMMA EndUpdateNames ==
    ASSUME LinesInv, NamesInv, NEW c \in Clients, EndUpdate(c)
    PROVE  NamesInv'
<1>1. TypeOK /\ ClientInv(c) /\ job[c] \in Job /\ NameInv(c)
  BY DEF LinesInv, TypeOK, NamesInv
<1> PICK l \in Lines : l = job[c].line
  BY <1>1 DEF Job
<1>2. /\ UNCHANGED rows /\ todo' = todo /\ hits' = hits
      /\ pc[c] = "rows" /\ job[c].op = "rename" /\ todo[c] = {}
  BY <1>1 DEF EndUpdate, ClientInv, StageInv
<1>3. /\ job'[c].op = "rename" /\ job'[c].line = l /\ job'[c].side = "bm"
      /\ \/ job[c].side = "fg" /\ pc'[c] = "statement"
         \/ job[c].side = "bm" /\ pc'[c] = "commit"
  BY <1>1, <1>2 DEF EndUpdate, Goto, TypeOK, Job, Sides
<1>4. \A k, s : Naming(k, s)' = Naming(k, s)
  BY <1>2, NamingStays DEF CodesStay, rows
<1>5. RenameInv(c, l)
  BY <1>1, <1>2 DEF NameInv
<1>6. AllHit(c, l, job[c].side)
  BY <1>2, <1>5 DEF RenameInv, AllHit
<1>7. RenameInv(c, l)'
  BY <1>2, <1>3, <1>4, <1>5, <1>6 DEF RenameInv, Unused, AllHit, rows, Sides
<1>8. NameInv(c)'
  BY <1>1, <1>2, <1>3, <1>4, <1>7 DEF NameInv
<1>9. \A d \in Clients \ {c} : Mine(d)
  BY <1>1 DEF EndUpdate, Goto, TypeOK, Mine, rows
<1> QED
  BY <1>2, <1>8, <1>9, SameNames DEF rows

(* All products of the line are renamed with it, or there is neither. *)
LEMMA CommitRenameNames ==
    ASSUME LinesInv, NamesInv, NEW c \in Clients, CommitRename(c)
    PROVE  NamesInv'
<1>1. TypeOK /\ job[c] \in Job /\ NameInv(c) /\ Finish(c)
  BY DEF LinesInv, TypeOK, NamesInv, CommitRename
<1> PICK l \in Lines, n \in Names \cup {NoName} : l = job[c].line /\ n = job[c].name
  BY <1>1 DEF Job
<1>2. /\ lines' = IF lineOwner[l] = c THEN [lines EXCEPT ![l].name = n] ELSE lines
      /\ items' = [i \in Items |->
                     [items[i] EXCEPT !.name =
                         [s \in Sides |-> IF i \in hits[c][s] THEN n ELSE @[s]]]]
      /\ pc[c] = "commit" /\ job[c].op = "rename"
  BY DEF CommitRename
<1>3. ASSUME NEW i \in Items
      PROVE  /\ items'[i].live = items[i].live /\ items'[i].code = items[i].code
             /\ \A s \in Sides :
                   items'[i].name[s] = IF i \in hits[c][s] THEN n ELSE items[i].name[s]
  <2>1. items[i] \in Product
    BY <1>1 DEF TypeOK
  <2> QED
    BY <1>2, <2>1 DEF Product
<1>4. /\ \A k \in Lines : lines'[k].live = lines[k].live
      /\ \A k \in Lines \ {l} : lines'[k].name = lines[k].name
      /\ lines'[l].name = IF lineOwner[l] = c THEN n ELSE lines[l].name
  BY <1>1, <1>2 DEF TypeOK, Line
<1>5. /\ RenameInv(c, l)
      /\ \A s \in Sides : hits[c][s] = Naming(l, s)
  BY <1>1, <1>2 DEF NameInv, RenameInv, AllHit
<1>6. Agree'
  <2> SUFFICES ASSUME NEW i \in Items, NEW s \in Sides,
                      items[i].live, items[i].code[s] # NoLine
               PROVE  /\ lines'[items[i].code[s]].live
                      /\ items'[i].name[s] = lines'[items[i].code[s]].name
    BY <1>3 DEF Agree
  <2>1. PICK k \in Lines : k = items[i].code[s]
    BY <1>1 DEF TypeOK, Product
  <2>2. lines[k].live /\ items[i].name[s] = lines[k].name
    BY <2>1 DEF NamesInv, Agree
  <2>3. i \in hits[c][s] <=> k = l
    BY <1>5, <2>1 DEF Naming
  <2>4. k = l => lineOwner[l] = c
    BY <1>5, <2>1 DEF RenameInv, Unused, Naming
  <2> QED
    BY <1>3, <1>4, <2>1, <2>2, <2>3, <2>4
<1>7. CodesStay
  BY <1>3 DEF CodesStay
<1>8. NameInv(c)' /\ \A d \in Clients \ {c} : Mine(d)
  BY <1>1, FinishNames
<1>9. \A d \in Clients \ {c} : NameInv(d)'
  BY <1>4, <1>7, <1>8, OthersRename
<1> QED
  BY <1>6, <1>8, <1>9 DEF NamesInv

-----------------------------------------------------------------------------
LEMMA LineUnusedNames ==
    ASSUME LinesInv, NamesInv, NEW c \in Clients, LineUnused(c)
    PROVE  NamesInv'
<1>1. TypeOK /\ ClientInv(c) /\ NameInv(c) /\ job[c].line \in Lines
  BY DEF LinesInv, TypeOK, Job, NamesInv
<1> PICK l \in Lines : l = job[c].line
  BY <1>1
<1>2. CASE GiveUp(c)
  BY <1>2, GiveUpNames
<1>3. CASE ~GiveUp(c)
  <2>1. /\ pc[c] = "unused" /\ pc'[c] = "line" /\ Unused(l)
        /\ \A d \in Clients \ {c} : pc'[d] = pc[d]
        /\ UNCHANGED <<rows, job, todo, hits>>
    BY <1>1, <1>3 DEF LineUnused, Goto, TypeOK, Unused
  <2>2. job[c].op = "drop" \/ job[c].op = "replace"
    BY <1>1, <2>1 DEF ClientInv, StageInv
  <2>3. \A s \in Sides : hits[c][s] = {}
    BY <1>1, <2>1 DEF NameInv, Unused
  <2>4. \A k, s : Naming(k, s)' = Naming(k, s)
    BY <2>1, NamingStays DEF CodesStay, rows
  <2>5. Unused(l)'
    BY <2>1, <2>4 DEF Unused
  <2>6. NameInv(c)'
    BY <1>1, <2>1, <2>2, <2>3, <2>4, <2>5 DEF NameInv
  <2>7. \A d \in Clients \ {c} : Mine(d)
    BY <2>1 DEF Mine, rows
  <2> QED
    BY <2>1, <2>6, <2>7, SameNames DEF rows
<1> QED
  BY <1>2, <1>3

(* The steps of a deletion to its commit, and the UPDATE of an activity. *)
LEMMA WaitNames ==
    ASSUME LinesInv, NamesInv, NEW c \in Clients,
           DropLine(c) \/ ClearLine(c) \/ UpdateActivity(c)
    PROVE  NamesInv'
<1>1. TypeOK /\ ClientInv(c) /\ NameInv(c) /\ job[c] \in Job /\ job[c].line \in Lines
  BY DEF LinesInv, TypeOK, Job, NamesInv
<1> PICK l \in Lines : l = job[c].line
  BY <1>1
<1>2. /\ lines' = lines /\ items' = items /\ hits' = hits /\ todo' = todo
      /\ pc'[c] \in {"clear", "commit"}
      /\ job'[c].op = job[c].op /\ job'[c].line = l
      /\ \A d \in Clients \ {c} : pc'[d] = pc[d] /\ job'[d] = job[d]
  BY <1>1 DEF DropLine, ClearLine, UpdateActivity, Goto, TypeOK, rows, Job
<1>3. /\ job[c].op # "rename"
      /\ job[c].op = "drop" => Unused(l)
  BY <1>1 DEF DropLine, ClearLine, UpdateActivity, ClientInv, StageInv, NameInv
<1>4. \A k, s : Naming(k, s)' = Naming(k, s)
  BY <1>2, NamingStays DEF CodesStay
<1>5. Unused(l)' <=> Unused(l)
  BY <1>4 DEF Unused
<1>6. NameInv(c)'
  BY <1>1, <1>2, <1>3, <1>4, <1>5 DEF NameInv
<1>7. \A d \in Clients \ {c} : \A k \in Lines : lineOwner'[k] = d <=> lineOwner[k] = d
  BY <1>1, NoClientAssumption DEF DropLine, ClearLine, UpdateActivity, TypeOK, rows
<1>8. \A d \in Clients \ {c} : Mine(d)
  BY <1>2, <1>7 DEF Mine
<1> QED
  BY <1>2, <1>6, <1>8, SameNames

(* Only a line that no product names is deleted, and no rename holds it. *)
LEMMA CommitDropNames ==
    ASSUME LinesInv, NamesInv, NEW c \in Clients, CommitDrop(c)
    PROVE  NamesInv'
<1>1. TypeOK /\ NameInv(c) /\ job[c].line \in Lines /\ Finish(c) /\ items' = items
  BY DEF LinesInv, TypeOK, Job, NamesInv, CommitDrop
<1> PICK l \in Lines : l = job[c].line
  BY <1>1
<1>2. Unused(l)
  BY <1>1 DEF CommitDrop, NameInv
<1>3. \/ lines' = lines
      \/ lineOwner[l] = c /\ \A k \in Lines \ {l} : lines'[k] = lines[k]
  BY <1>1 DEF CommitDrop, TypeOK
<1>4. Agree'
  <2> SUFFICES ASSUME NEW i \in Items, NEW s \in Sides,
                      items[i].live, items[i].code[s] # NoLine
               PROVE  lines'[items[i].code[s]] = lines[items[i].code[s]]
    BY <1>1 DEF NamesInv, Agree
  <2>1. items[i].code[s] \in Lines \ {l}
    BY <1>1, <1>2 DEF TypeOK, Product, Unused, Naming
  <2> QED
    BY <1>3, <2>1
<1>5. CodesStay
  BY <1>1 DEF CodesStay
<1>6. NameInv(c)' /\ \A d \in Clients \ {c} : Mine(d)
  BY <1>1, FinishNames
<1>7. \A d \in Clients \ {c} : NameInv(d)'
  BY <1>3, <1>5, <1>6, OthersRename
<1> QED
  BY <1>4, <1>6, <1>7 DEF NamesInv

LEMMA CommitActivityNames ==
    ASSUME LinesInv, NamesInv, NEW c \in Clients, CommitAdd(c) \/ CommitUpdate(c)
    PROVE  NamesInv'
<1>1. TypeOK /\ job[c].line \in Lines /\ Finish(c) /\ items' = items
  BY DEF LinesInv, TypeOK, Job, CommitAdd, CommitUpdate
<1>2. \A k \in Lines : lines'[k].live = lines[k].live /\ lines'[k].name = lines[k].name
  <2>1. PICK l \in Lines : l = job[c].line
    BY <1>1
  <2>2. PICK A : lines' = [lines EXCEPT ![l].acts = A]
    BY <2>1 DEF CommitAdd, CommitUpdate
  <2> QED
    BY <1>1, <2>2 DEF TypeOK, Line
<1> QED
  BY <1>1, <1>2, FinishNames, SameNames

-----------------------------------------------------------------------------
LEMMA NamesStep ==
    NamesCascaded /\ LinesInv /\ NamesInv /\ [Next]_vars => NamesInv'
<1> SUFFICES ASSUME NamesCascaded, LinesInv, NamesInv, [Next]_vars PROVE NamesInv'
  OBVIOUS
<1>1. CASE UNCHANGED vars
  BY <1>1 DEF vars, rows, NamesInv, Agree, NameInv, RenameInv, Unused, AllHit, Naming
<1>2. ASSUME NEW c \in Clients, Ask(c) PROVE NamesInv'
  BY <1>2, AskNames
<1>3. ASSUME NEW c \in Clients, Acquire(c) PROVE NamesInv'
  BY <1>3, RenameLineNames, WaitNames, UpdateRowNames DEF Acquire
<1>4. ASSUME NEW c \in Clients, Serve(c) PROVE NamesInv'
  <2>1. job[c].op \in Ops \cup {"none"} /\ (pc[c] = "store" => job[c].op = "create")
    BY DEF NamesInv, NameInv
  <2>2. ~StoreItem(c) /\ ~CommitReplace(c) /\ ~CommitPatch(c)
    BY <2>1 DEF StoreItem, CommitReplace, CommitPatch, NamesCascaded
  <2> QED
    BY <1>4, <2>2, StartUpdateNames, EndUpdateNames, LineUnusedNames, CommitRenameNames,
       CommitDropNames, CommitActivityNames DEF Serve
<1>5. ASSUME NEW c \in Clients, DeadlockVictim(c) \/ Abort(c) PROVE NamesInv'
  BY <1>5, GiveUpNames DEF DeadlockVictim, Abort
<1> QED
  BY <1>1, <1>2, <1>3, <1>4, <1>5 DEF Next

LEMMA NamesInvariant ==
    ASSUME NamesCascaded, SeedInOrder, SeedAgrees
    PROVE  Spec => [](LinesInv /\ NamesInv)
<1>1. Init => LinesInv /\ NamesInv
  <2> SUFFICES ASSUME Init PROVE NamesInv
    BY InitKeeps
  <2>1. Agree
    BY DEF Init, SeedAgrees, Agree
  <2>2. \A c \in Clients : NameInv(c)
    BY NoJobType DEF Init, NameInv
  <2> QED
    BY <2>1, <2>2 DEF NamesInv
<1>2. LinesInv /\ NamesInv /\ [Next]_vars => LinesInv' /\ NamesInv'
  BY StepKeeps, NamesStep
<1> QED
  BY <1>1, <1>2, PTL DEF Spec

(* A rename reaches every product that references the line
   (production_lines.py:425), for any number of users who rename, delete and
   create lines at once, as long as products keep their lines and names are
   changed by renaming. *)
THEOREM ProductsShowTheName ==
    ASSUME NamesCascaded, SeedInOrder, SeedAgrees
    PROVE  Spec => []NamesAgree
<1>1. NamesInv => NamesAgree
  BY DEF NamesInv, Agree, NamesAgree
<1> QED
  BY <1>1, NamesInvariant, PTL
=============================================================================
