--------------------------- MODULE ConnectionPool ---------------------------
(***************************************************************************)
(* What the worker threads of Waitress and the connections of the pool     *)
(* allow.  A request is served by one thread from beginning to end, and    *)
(* takes connections one after the other:                                  *)
(*   - one for require_auth, given back before the handler starts;         *)
(*   - one for the transaction of the handler;                             *)
(*   - one more for log_action, while the handler holds its own;           *)
(*   - for a change of the approval queue, one for the count that is       *)
(*     broadcast, after the handler has given its own back;                *)
(*   - for an event stream, one for the first count.  The stream then      *)
(*     holds no connection, but it holds its thread until it is closed.    *)
(*                                                                         *)
(* A thread that finds the pool exhausted waits, at most DB_POOL_TIMEOUT   *)
(* seconds.  The background thread of helpers/cleanup.py takes a           *)
(* connection too.                                                         *)
(***************************************************************************)
EXTENDS Integers, FiniteSets

CONSTANTS
    Threads,     \* WAITRESS_THREADS workers
    Cleaner,     \* the cleanup thread
    Capacities,  \* values of DB_POOL_SIZE + DB_MAX_OVERFLOW
    Dashboards   \* how many event streams are open at most

ASSUME ThreadsAssumption    == IsFiniteSet(Threads) /\ Cleaner \notin Threads
ASSUME CapacityAssumption   == Capacities \subseteq Nat \ {0}
ASSUME DashboardsAssumption == Dashboards \in Nat

Kinds == {"read", "edit", "approve", "stream"}

(* What a thread can want a connection for; it may hold two of them. *)
Uses == {"auth", "main", "log", "count"}

VARIABLES
    capacity,   \* the size the engine was created with
    pc,         \* thread -> where it stands
    kind,       \* thread -> the kind of request it serves
    held,       \* the connections in use: pairs of thread and use
    timedOut    \* whether anybody ever waited too long

vars == <<capacity, pc, kind, held, timedOut>>

(* "main.wait" is a thread blocked in QueuePool.get, "main" one that has it. *)
Waiting == [auth |-> "auth.wait", main |-> "main.wait",
            log  |-> "log.wait",  count |-> "count.wait"]

Everyone == Threads \cup {Cleaner}
Free     == Cardinality(held) < capacity
Has(t)   == {u \in Uses : <<t, u>> \in held}

Init ==
    /\ capacity   \in Capacities
    /\ pc         = [t \in Everyone |-> "idle"]
    /\ kind       = [t \in Everyone |-> "read"]
    /\ held       = {}
    /\ timedOut   = FALSE

(* An idle thread serves no request; its kind is never read. *)
Goto(t, label) ==
    /\ pc'   = [pc EXCEPT ![t] = label]
    /\ kind' = [kind EXCEPT ![t] = IF label = "idle" THEN "read" ELSE @]

Streaming == {t \in Threads : pc[t] # "idle" /\ kind[t] = "stream"}

-----------------------------------------------------------------------------
(* Waitress hands a request to an idle thread, and require_auth asks for a
   connection. *)
Take(t, k) ==
    /\ t \in Threads
    /\ pc[t] = "idle"
    /\ k = "stream" => Cardinality(Streaming) < Dashboards
    /\ kind' = [kind EXCEPT ![t] = k]
    /\ pc'   = [pc EXCEPT ![t] = "auth.wait"]
    /\ UNCHANGED <<capacity, held, timedOut>>

(* _cleanup_loop wakes up. *)
Wake ==
    /\ pc[Cleaner] = "idle"
    /\ Goto(Cleaner, "main.wait")
    /\ UNCHANGED <<capacity, held, timedOut>>

(* get_connection, when the pool has one or may open one. *)
Acquire(t, u) ==
    /\ pc[t] = Waiting[u]
    /\ Free
    /\ held' = held \cup {<<t, u>>}
    /\ Goto(t, u)
    /\ UNCHANGED <<capacity, timedOut>>

(* The session of require_auth ends before the handler is called (FIX #6). *)
MutAuthorized(t) ==
    /\ pc[t] = "auth"
    /\ Goto(t, IF kind[t] = "stream" THEN "count.wait" ELSE "main.wait")
    /\ UNCHANGED <<capacity, held, timedOut>>

Authorized(t) ==
    /\ pc[t] = "auth"
    /\ held' = held \ {<<t, "auth">>}
    /\ Goto(t, IF kind[t] = "stream" THEN "count.wait" ELSE "main.wait")
    /\ UNCHANGED <<capacity, timedOut>>

(* An edit writes its audit entry through a second connection; approvals use
   the one they have. *)
StartLog(t) ==
    /\ pc[t] = "main"
    /\ kind[t] = "edit"
    /\ Goto(t, "log.wait")
    /\ UNCHANGED <<capacity, held, timedOut>>

MutLogged(t) ==
    /\ pc[t] = "log"
    /\ Goto(t, "logged")
    /\ UNCHANGED <<capacity, held, timedOut>>

Logged(t) ==
    /\ pc[t] = "log"
    /\ held' = held \ {<<t, "log">>}
    /\ Goto(t, "logged")
    /\ UNCHANGED <<capacity, timedOut>>

(* commit or rollback, and release_connection; after that, the broadcast. *)
Release(t) ==
    /\ held' = held \ {<<t, "main">>}
    /\ Goto(t, IF kind[t] = "approve" THEN "count.wait" ELSE "idle")
    /\ UNCHANGED <<capacity, timedOut>>

Leave(t) ==
    /\ \/ pc[t] = "main" /\ kind[t] # "edit"
       \/ pc[t] = "logged"
    /\ Release(t)

(* _get_pending_approvals_count gives its connection back before anything is
   pushed, or before the stream yields. *)
Counted(t) ==
    /\ pc[t] = "count"
    /\ held' = held \ {<<t, "count">>}
    /\ Goto(t, IF kind[t] = "stream" THEN "open" ELSE "idle")
    /\ UNCHANGED <<capacity, timedOut>>

(* The browser is gone: the generator ends and the thread is free. *)
CloseStream(t) ==
    /\ pc[t] = "open"
    /\ Goto(t, "idle")
    /\ UNCHANGED <<capacity, held, timedOut>>

-----------------------------------------------------------------------------
(* DB_POOL_TIMEOUT.  Where it was the request's own connection, the answer is
   503 or 500; the cleanup thread tries again another day. *)
TurnAway(t) ==
    /\ pc[t] \in {"auth.wait", "main.wait"}
    /\ ~Free
    /\ timedOut' = TRUE
    /\ Goto(t, "idle")
    /\ UNCHANGED <<capacity, held>>

MutLoseLog(t) ==
    /\ pc[t] = "log.wait"
    /\ ~Free
    /\ timedOut' = TRUE
    /\ UNCHANGED <<capacity, pc, kind, held>>

(* log_action swallows it: the edit goes on without its audit entry. *)
LoseLog(t) ==
    /\ pc[t] = "log.wait"
    /\ ~Free
    /\ timedOut' = TRUE
    /\ Goto(t, "logged")
    /\ UNCHANGED <<capacity, held>>

(* So do _broadcast_approvals_changed, which then tells nobody, and the event
   stream, which starts with a count of 0. *)
SkipCount(t) ==
    /\ pc[t] = "count.wait"
    /\ ~Free
    /\ timedOut' = TRUE
    /\ Goto(t, IF kind[t] = "stream" THEN "open" ELSE "idle")
    /\ UNCHANGED <<capacity, held>>

TimesOut(t) == TurnAway(t) \/ LoseLog(t) \/ SkipCount(t)

-----------------------------------------------------------------------------
Run(t) == Authorized(t) \/ StartLog(t) \/ Logged(t) \/ Leave(t) \/ Counted(t)

Get(t) == \E u \in Uses : Acquire(t, u)

Next ==
    \/ \E t \in Everyone :
          \/ \E k \in Kinds : Take(t, k)
          \/ Get(t) \/ Run(t) \/ TimesOut(t) \/ CloseStream(t)
    \/ Wake

Spec == Init /\ [][Next]_vars

(* A thread goes on; one that waits gets a connection or times out.  Browsers
   need not close their streams, nor send requests. *)
Fairness == \A t \in Everyone : WF_vars(Run(t)) /\ WF_vars(Get(t) \/ TimesOut(t))

FairSpec == Spec /\ Fairness
-----------------------------------------------------------------------------
PCs == {"idle", "open", "logged"} \cup Uses \cup {Waiting[u] : u \in Uses}

TypeOK ==
    /\ capacity   \in Capacities
    /\ pc         \in [Everyone -> PCs]
    /\ kind       \in [Everyone -> Kinds]
    /\ held       \subseteq Everyone \X Uses
    /\ timedOut   \in BOOLEAN

(* What a thread holds follows from where it is: nothing is kept from an
   earlier stage or an earlier request, however stages end, by success or by
   timeout (FIX #5/#6 of models.py, db.py:94-118). *)
NothingLeaks ==
    \A t \in Everyone :
        Has(t) = CASE pc[t] \in {"auth", "main", "count"} -> {pc[t]}
                   [] pc[t] \in {"log.wait", "logged"}    -> {"main"}
                   [] pc[t] = "log"                       -> {"main", "log"}
                   [] OTHER                               -> {}

(* With two connections for every worker and one for the cleanup thread,
   whatever the load, nobody times out: no request is turned away, no edit is
   stored without its audit entry, no broadcast is dropped.  The defaults, 8
   threads and 20 + 10 connections (config.py:38-45), are of this kind. *)
RoomForAll ==
    capacity > 2 * Cardinality(Threads) => ~timedOut

(* "Rule of thumb: pool_size >= number of server threads" (config.py:39).
   With any overflow on top of that, handlers that hold a connection and want
   another never exhaust the pool among themselves: when it is exhausted, one
   of those who hold a connection can go on and will give it back. *)
NoGridlock ==
    capacity > Cardinality(Threads) /\ ~Free =>
        \E t \in Everyone : Has(t) # {} /\ pc[t] # "log.wait"

(* Fewer dashboards than workers leave the others at work: again and again a
   thread is ready to take a request, also when the pool is exhausted
   (approvals.py:48-51). *)
WorkersComeFree ==
    Dashboards < Cardinality(Threads) => []<>(\E t \in Threads : pc[t] = "idle")
=============================================================================
