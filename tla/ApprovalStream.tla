--------------------------- MODULE ApprovalStream ---------------------------
(***************************************************************************)
(* The event stream of routes/approvals.py: the badge on open dashboards   *)
(* that shows how many approvals are pending.                              *)
(*                                                                         *)
(* A handler that has committed a change of the approval queue reads the   *)
(* count in a transaction of its own and then, under _sse_lock, puts it    *)
(* into the queue of every subscriber; handlers do this side by side.  A   *)
(* stream registers its queue before its generator starts, sends the count *)
(* it reads then, and after that whatever its queue holds.  A subscriber   *)
(* whose queue is full is dropped, and its stream stays open.              *)
(*                                                                         *)
(* Heartbeats carry nothing and are stuttering steps.                      *)
(***************************************************************************)
EXTENDS Integers, Sequences

CONSTANTS
    Handlers,     \* threads that submit, approve, reject or delete
    Streams,      \* event streams, one for each open dashboard
    QueueSize,    \* maxsize of a subscriber's queue (50)
    MaxPending,   \* BOUND: approvals pending at once
    NoCount,      \* "no count read yet", "no badge shown yet"
    CountFaults   \* whether the count can fail (no connection, database down)

ASSUME HandlersAssumption == Handlers # {}
ASSUME SizesAssumption    == QueueSize \in Nat \ {0} /\ MaxPending \in Nat
ASSUME NoCountAssumption  == NoCount \notin Nat
ASSUME FaultsAssumption   == CountFaults \in BOOLEAN

Counts == 0..MaxPending

VARIABLES
    pending,      \* SELECT COUNT(*) ... WHERE status = 'PENDING', as committed
    pc,           \* handler -> where it stands
    read,         \* handler -> the count it will push
    subscribers,  \* _sse_subscribers
    queue,        \* stream -> client_queue
    state,        \* stream -> "closed", "new" (generator not started), "open"
    badge,        \* stream -> the count its dashboard shows
    strayed       \* since the last broadcast that nothing interfered with read
                  \* its count, something may have happened that no push tells

handlerVars == <<pending, pc, read>>
streamVars  == <<subscribers, queue, state, badge>>
vars == <<pending, pc, read, subscribers, queue, state, badge, strayed>>

Init ==
    /\ pending     \in Counts
    /\ pc          = [h \in Handlers |-> "idle"]
    /\ read        = [h \in Handlers |-> NoCount]
    /\ subscribers = {}
    /\ queue       = [s \in Streams |-> <<>>]
    /\ state       = [s \in Streams |-> "closed"]
    /\ badge       = [s \in Streams |-> NoCount]
    /\ strayed     = FALSE

Goto(h, label) == pc' = [pc EXCEPT ![h] = label]

(* Between the commit of its change and its push. *)
Broadcasting(h) == pc[h] # "idle"
Quiet == \A h \in Handlers : ~Broadcasting(h)

-----------------------------------------------------------------------------
(* submit_approval, approve_request or reject_approval has committed (or its
   commit was answered with a rollback): one pending approval more, or one
   less, or as many as before.  Only now is the broadcast called. *)
Change(h, n) ==
    /\ pc[h] = "idle"
    /\ n \in {pending - 1, pending, pending + 1}
    /\ pending' = n
    /\ strayed' = (strayed \/ ~Quiet)
    /\ Goto(h, "count")
    /\ UNCHANGED <<read, streamVars>>

(* delete_product rejects the approvals of its item and tells nobody. *)
DeleteProduct(n) ==
    /\ n < pending
    /\ pending' = n
    /\ strayed' = TRUE
    /\ UNCHANGED <<pc, read, streamVars>>

(* _get_pending_approvals_count in a transaction of its own ... *)
ReadCount(h) ==
    /\ pc[h] = "count"
    /\ read' = [read EXCEPT ![h] = pending]
    /\ strayed' = (strayed /\ \E g \in Handlers \ {h} : Broadcasting(g))
    /\ Goto(h, "push")
    /\ UNCHANGED <<pending, streamVars>>

(* ... which ends the broadcast if it fails. *)
CountFails(h) ==
    /\ CountFaults
    /\ pc[h] = "count"
    /\ strayed' = TRUE
    /\ Goto(h, "idle")
    /\ UNCHANGED <<pending, read, streamVars>>

Full(s) == Len(queue[s]) = QueueSize

MutPush(h) ==
    /\ pc[h] = "push"
    /\ queue' = [s \in Streams |->
                    IF s \in subscribers /\ ~Full(s) THEN Append(queue[s], read[h])
                    ELSE queue[s]]
    /\ read' = [read EXCEPT ![h] = NoCount]
    /\ Goto(h, "idle")
    /\ UNCHANGED <<pending, subscribers, state, badge, strayed>>

(* put_nowait into every queue, and the full ones out, all under _sse_lock. *)
Push(h) ==
    /\ pc[h] = "push"
    /\ queue' = [s \in Streams |->
                    IF s \in subscribers /\ ~Full(s) THEN Append(queue[s], read[h])
                    ELSE queue[s]]
    /\ subscribers' = {s \in subscribers : ~Full(s)}
    /\ read' = [read EXCEPT ![h] = NoCount]
    /\ Goto(h, "idle")
    /\ UNCHANGED <<pending, state, badge, strayed>>

-----------------------------------------------------------------------------
(* approvals_stream registers the queue and returns the response ... *)
Subscribe(s) ==
    /\ state[s] = "closed"
    /\ s \notin subscribers
    /\ state' = [state EXCEPT ![s] = "new"]
    /\ subscribers' = subscribers \cup {s}
    /\ queue' = [queue EXCEPT ![s] = <<>>]
    /\ UNCHANGED <<handlerVars, badge, strayed>>

(* ... whose generator reads and sends the count when it is first asked for
   something; 0 if that fails. *)
Start(s) ==
    /\ state[s] = "new"
    /\ state' = [state EXCEPT ![s] = "open"]
    /\ badge' = [badge EXCEPT ![s] = pending]
    /\ UNCHANGED <<handlerVars, subscribers, queue, strayed>>

StartBlind(s) ==
    /\ CountFaults
    /\ state[s] = "new"
    /\ state' = [state EXCEPT ![s] = "open"]
    /\ badge' = [badge EXCEPT ![s] = 0]
    /\ strayed' = TRUE
    /\ UNCHANGED <<handlerVars, subscribers, queue>>

Deliver(s) ==
    /\ state[s] = "open"
    /\ queue[s] # <<>>
    /\ badge' = [badge EXCEPT ![s] = Head(queue[s])]
    /\ queue' = [queue EXCEPT ![s] = Tail(@)]
    /\ UNCHANGED <<handlerVars, subscribers, state, strayed>>

(* The browser has left, which the server notices when it sends something:
   the generator is closed and takes its queue out. *)
Close(s) ==
    /\ state[s] = "open"
    /\ state' = [state EXCEPT ![s] = "closed"]
    /\ subscribers' = subscribers \ {s}
    /\ badge' = [badge EXCEPT ![s] = NoCount]
    /\ queue' = [queue EXCEPT ![s] = <<>>]
    /\ UNCHANGED <<handlerVars, strayed>>

(* The browser has left before the generator started: closing a generator
   that has not started runs none of it, so its queue stays registered. *)
Vanish(s) ==
    /\ state[s] = "new"
    /\ state' = [state EXCEPT ![s] = "closed"]
    /\ UNCHANGED <<handlerVars, subscribers, queue, badge, strayed>>

-----------------------------------------------------------------------------
Broadcast(h) == ReadCount(h) \/ CountFails(h) \/ Push(h)
Send(s)      == Start(s) \/ StartBlind(s) \/ Deliver(s)

Next ==
    \/ \E h \in Handlers : Broadcast(h) \/ \E n \in Counts : Change(h, n)
    \/ \E n \in Counts : DeleteProduct(n)
    \/ \E s \in Streams : Subscribe(s) \/ Send(s) \/ Close(s) \/ Vanish(s)

Spec == Init /\ [][Next]_vars

(* A thread goes on with its broadcast, and the one of an open stream takes
   from its queue what there is (it waits there, or in the heartbeat, which
   ends).  Nothing makes users change anything or leave. *)
Fairness ==
    /\ \A h \in Handlers : WF_vars(Broadcast(h))
    /\ \A s \in Streams : WF_vars(Send(s))

FairSpec == Spec /\ Fairness
-----------------------------------------------------------------------------
TypeOK ==
    /\ pending     \in Counts
    /\ pc          \in [Handlers -> {"idle", "count", "push"}]
    /\ read        \in [Handlers -> Counts \cup {NoCount}]
    /\ subscribers \subseteq Streams
    /\ queue       \in [Streams -> Seq(Counts)]
    /\ \A s \in Streams : Len(queue[s]) <= QueueSize
    /\ state       \in [Streams -> {"closed", "new", "open"}]
    /\ badge       \in [Streams -> Counts \cup {NoCount}]
    /\ strayed     \in BOOLEAN

(* "Push the fresh pending-approvals count to every connected SSE client"
   (approvals.py:68-74): a dashboard that stays connected and is still
   subscribed when things come to rest ends with the right count, whenever it
   connected and however far behind its queue was. *)
BadgesSettle ==
    \A s \in Streams :
        <>[](Quiet /\ ~strayed /\ state[s] = "open" /\ s \in subscribers)
            => <>[](badge[s] = pending)

(* "one more event any time an approval is submitted, approved, or rejected by
   anyone" (approvals.py:204-205): a dashboard that stays connected and
   subscribed ends with the right count. *)
BadgesFollow ==
    \A s \in Streams :
        <>[](Quiet /\ state[s] = "open" /\ s \in subscribers) => <>[](badge[s] = pending)

(* The queue of a browser that left before its generator started is not kept
   for ever: as long as there are broadcasts, it fills and is dropped
   (approvals.py:81-87). *)
LeakEnds ==
    \A s \in Streams :
        []<><<\E h \in Handlers : Push(h)>>_vars
            => (s \in subscribers /\ state[s] = "closed" ~> s \notin subscribers)
=============================================================================
