------------------------ MODULE ApprovalStream_proofs ------------------------
(***************************************************************************)
(* Theorems about ApprovalStream, for every number of handlers and of      *)
(* dashboards, every queue size and every number of pending approvals.     *)
(***************************************************************************)
EXTENDS ApprovalStream, SequenceTheorems, TLAPS

Last(q) == q[Len(q)]

(* What the dashboard of stream s will show once its queue is empty. *)
Latest(s) == IF queue[s] = <<>> THEN badge[s] ELSE Last(queue[s])

(* When things are at rest, every dashboard that is connected and subscribed
   shows, or is about to be sent, the right count. *)
CaughtUp ==
    Quiet /\ ~strayed
        => \A s \in subscribers : state[s] = "open" => Latest(s) = pending

(* A handler about to push has a count to push. *)
ReadInv == \A h \in Handlers : pc[h] = "push" => read[h] \in Counts

(* Unless something strayed, at most one handler broadcasts, and what it has
   read still holds. *)
AloneInv ==
    ~strayed =>
        /\ \A g, h \in Handlers : Broadcasting(g) /\ Broadcasting(h) => g = h
        /\ \A h \in Handlers : pc[h] = "push" => read[h] = pending

(* A registered queue ends with the count, before its generator starts too. *)
QueueInv ==
    Quiet /\ ~strayed =>
        \A s \in subscribers :
            /\ queue[s] # <<>> => Last(queue[s]) = pending
            /\ queue[s] = <<>> /\ state[s] = "open" => badge[s] = pending

StreamInv == TypeOK /\ ReadInv /\ AloneInv /\ QueueInv
-----------------------------------------------------------------------------
LEMMA EmptyQueue == <<>> \in Seq(Counts) /\ Len(<<>>) <= QueueSize /\ 0 \in Counts
BY SizesAssumption DEF Counts

LEMMA StreamInit == Init => StreamInv
<1> SUFFICES ASSUME Init PROVE StreamInv
  OBVIOUS
<1>1. TypeOK
  BY EmptyQueue DEF Init, TypeOK
<1>2. ReadInv /\ AloneInv /\ QueueInv
  BY DEF Init, ReadInv, AloneInv, Broadcasting, QueueInv
<1> QED
  BY <1>1, <1>2 DEF StreamInv

LEMMA ChangeKeeps ==
    ASSUME StreamInv, NEW h \in Handlers, NEW n \in Counts, Change(h, n)
    PROVE  StreamInv'
<1> USE DEF Change, Goto, streamVars
<1>1. TypeOK'
  BY DEF StreamInv, TypeOK
<1>2. ReadInv'
  BY DEF StreamInv, TypeOK, ReadInv
<1>3. AloneInv'
  BY DEF StreamInv, TypeOK, AloneInv, Broadcasting, Quiet
<1>4. ~Quiet'
  BY DEF StreamInv, TypeOK, Broadcasting, Quiet
<1> QED
  BY <1>1, <1>2, <1>3, <1>4 DEF StreamInv, QueueInv

LEMMA DeleteProductKeeps ==
    ASSUME StreamInv, NEW n \in Counts, DeleteProduct(n)
    PROVE  StreamInv'
<1> USE DEF DeleteProduct, streamVars
<1>1. TypeOK' /\ ReadInv'
  BY DEF StreamInv, TypeOK, ReadInv
<1>2. strayed'
  OBVIOUS
<1> QED
  BY <1>1, <1>2 DEF StreamInv, AloneInv, QueueInv

(* A broadcast that nothing interferes with starts here: no other handler is
   between its commit and its push. *)
LEMMA ReadCountKeeps ==
    ASSUME StreamInv, NEW h \in Handlers, ReadCount(h)
    PROVE  StreamInv'
<1> USE DEF ReadCount, Goto, streamVars
<1>1. TypeOK'
  BY DEF StreamInv, TypeOK
<1>2. ReadInv'
  BY DEF StreamInv, TypeOK, ReadInv
<1>3. AloneInv'
  <2> SUFFICES ASSUME ~strayed'
               PROVE  /\ \A g, k \in Handlers : Broadcasting(g)' /\ Broadcasting(k)' => g = k
                      /\ \A g \in Handlers : pc'[g] = "push" => read'[g] = pending'
    BY DEF AloneInv
  <2>1. \A g \in Handlers \ {h} : ~Broadcasting(g)
    BY DEF StreamInv, AloneInv, TypeOK, Broadcasting
  <2>2. \A g \in Handlers \ {h} : pc'[g] = "idle"
    BY <2>1 DEF StreamInv, TypeOK, Broadcasting
  <2> QED
    BY <2>2 DEF StreamInv, TypeOK, Broadcasting
<1>4. ~Quiet'
  BY DEF StreamInv, TypeOK, Broadcasting, Quiet
<1> QED
  BY <1>1, <1>2, <1>3, <1>4 DEF StreamInv, QueueInv

LEMMA CountFailsKeeps ==
    ASSUME StreamInv, NEW h \in Handlers, CountFails(h)
    PROVE  StreamInv'
<1> USE DEF CountFails, Goto, streamVars
<1>1. TypeOK' /\ ReadInv'
  BY DEF StreamInv, TypeOK, ReadInv
<1>2. strayed'
  OBVIOUS
<1> QED
  BY <1>1, <1>2 DEF StreamInv, AloneInv, QueueInv

(* What is put into a queue is its last element. *)
LEMMA AppendIsLast ==
    ASSUME NEW T, NEW q \in Seq(T), NEW x \in T
    PROVE  /\ Append(q, x) \in Seq(T) /\ Append(q, x) # <<>>
           /\ Last(Append(q, x)) = x
           /\ Len(Append(q, x)) = Len(q) + 1
BY DEF Last

LEMMA TailIsRest ==
    ASSUME NEW T, NEW q \in Seq(T), q # <<>>
    PROVE  /\ Head(q) \in T /\ Tail(q) \in Seq(T)
           /\ Len(q) \in Nat /\ Len(Tail(q)) = Len(q) - 1
           /\ Tail(q) # <<>> => Last(Tail(q)) = Last(q)
           /\ Tail(q) = <<>> => Head(q) = Last(q)
<1> DEFINE rest == Tail(q)
<1>1. Len(q) \in Nat \ {0} /\ Head(q) = q[1] /\ q[1] \in T /\ rest \in Seq(T)
  OBVIOUS
<1>2. Len(rest) = Len(q) - 1 /\ \A i \in 1..(Len(q) - 1) : rest[i] = q[i + 1]
  OBVIOUS
<1> HIDE DEF rest
<1>3. rest = <<>> <=> Len(rest) = 0
  BY <1>1, EmptySeq
<1>4. rest # <<>> => Last(rest) = Last(q)
  BY <1>1, <1>2, <1>3 DEF Last
<1>5. rest = <<>> => Head(q) = Last(q)
  BY <1>1, <1>2, <1>3 DEF Last
<1>6. /\ Head(q) \in T /\ rest \in Seq(T)
      /\ Len(q) \in Nat /\ Len(rest) = Len(q) - 1
  BY <1>1, <1>2
<1> QED
  BY <1>4, <1>5, <1>6, Zenon DEF rest

LEMMA PushKeeps ==
    ASSUME StreamInv, NEW h \in Handlers, Push(h)
    PROVE  StreamInv'
<1>1. /\ pc[h] = "push" /\ read[h] \in Counts
      /\ pc' = [pc EXCEPT ![h] = "idle"]
      /\ read' = [read EXCEPT ![h] = NoCount]
      /\ subscribers' = {s \in subscribers : ~Full(s)}
      /\ UNCHANGED <<pending, state, badge, strayed>>
  BY DEF Push, Goto, StreamInv, ReadInv
<1>2. ASSUME NEW s \in Streams
      PROVE  /\ queue'[s] \in Seq(Counts)
             /\ Len(queue'[s]) <= QueueSize
             /\ s \in subscribers' => /\ queue'[s] # <<>>
                                       /\ Last(queue'[s]) = read[h]
  <2>1. queue'[s] = IF s \in subscribers /\ ~Full(s) THEN Append(queue[s], read[h])
                    ELSE queue[s]
    BY DEF Push
  <2>2. queue[s] \in Seq(Counts) /\ Len(queue[s]) <= QueueSize /\ Len(queue[s]) \in Nat
    BY DEF StreamInv, TypeOK
  <2>3. CASE s \in subscribers /\ ~Full(s)
    <3>1. /\ Append(queue[s], read[h]) \in Seq(Counts)
          /\ Append(queue[s], read[h]) # <<>>
          /\ Last(Append(queue[s], read[h])) = read[h]
          /\ Len(Append(queue[s], read[h])) = Len(queue[s]) + 1
      BY <1>1, <2>2, AppendIsLast
    <3> QED
      BY <2>1, <2>2, <2>3, <3>1, SizesAssumption DEF Full
  <2>4. CASE ~(s \in subscribers /\ ~Full(s))
    BY <1>1, <2>1, <2>2, <2>4
  <2> QED
    BY <2>3, <2>4
<1>3. queue' \in [Streams -> Seq(Counts)]
  <2>1. queue' = [s \in Streams |-> queue'[s]]
    BY DEF Push
  <2> QED
    BY <1>2, <2>1
<1>4. TypeOK'
  BY <1>1, <1>2, <1>3 DEF StreamInv, TypeOK
<1>5. ReadInv'
  BY <1>1 DEF StreamInv, TypeOK, ReadInv
<1>6. AloneInv'
  BY <1>1 DEF StreamInv, TypeOK, AloneInv, Broadcasting
<1>7. ~strayed => read[h] = pending
  BY <1>1 DEF StreamInv, AloneInv
<1>9. QueueInv'
  BY <1>1, <1>2, <1>7 DEF StreamInv, TypeOK, QueueInv
<1> QED
  BY <1>4, <1>5, <1>6, <1>9 DEF StreamInv

-----------------------------------------------------------------------------
(* Streams do not touch what handlers know. *)
LEMMA HandlersKept ==
    ASSUME StreamInv, UNCHANGED handlerVars,
           strayed => strayed'
    PROVE  ReadInv' /\ AloneInv' /\ (Quiet' <=> Quiet)
<1> USE DEF handlerVars
<1>1. Quiet' <=> Quiet
  BY DEF Quiet, Broadcasting
<1> QED
  BY <1>1 DEF StreamInv, ReadInv, AloneInv, Broadcasting

LEMMA SubscribeKeeps ==
    ASSUME StreamInv, NEW s \in Streams, Subscribe(s)
    PROVE  StreamInv'
<1> USE DEF Subscribe
<1>1. TypeOK'
  BY EmptyQueue DEF StreamInv, TypeOK, handlerVars
<1>2. QueueInv'
  BY HandlersKept DEF StreamInv, TypeOK, QueueInv, handlerVars
<1> QED
  BY <1>1, <1>2, HandlersKept DEF StreamInv

LEMMA StartKeeps ==
    ASSUME StreamInv, NEW s \in Streams, Start(s) \/ StartBlind(s)
    PROVE  StreamInv'
<1>1. TypeOK'
  BY EmptyQueue DEF Start, StartBlind, StreamInv, TypeOK, handlerVars
<1>2. QueueInv'
  BY HandlersKept DEF Start, StartBlind, StreamInv, TypeOK, QueueInv, handlerVars
<1>3. UNCHANGED handlerVars /\ (strayed => strayed')
  BY DEF Start, StartBlind
<1> QED
  BY <1>1, <1>2, <1>3, HandlersKept DEF StreamInv

LEMMA DeliverKeeps ==
    ASSUME StreamInv, NEW s \in Streams, Deliver(s)
    PROVE  StreamInv'
<1> DEFINE q == queue[s]
<1>1. /\ q \in Seq(Counts) /\ q # <<>> /\ Len(q) <= QueueSize
      /\ queue' = [queue EXCEPT ![s] = Tail(q)]
      /\ badge' = [badge EXCEPT ![s] = Head(q)]
      /\ UNCHANGED <<pending, pc, read, subscribers, state, strayed>>
  BY DEF Deliver, StreamInv, TypeOK, handlerVars
<1> HIDE DEF q
<1>2. /\ Head(q) \in Counts /\ Tail(q) \in Seq(Counts)
      /\ Len(Tail(q)) <= QueueSize
      /\ Tail(q) # <<>> => Last(Tail(q)) = Last(q)
      /\ Tail(q) = <<>> => Head(q) = Last(q)
  BY <1>1, TailIsRest, SizesAssumption
<1>3. TypeOK'
  BY <1>1, <1>2 DEF StreamInv, TypeOK
<1>4. QueueInv'
  <2> SUFFICES ASSUME Quiet', ~strayed', NEW z \in subscribers'
               PROVE  /\ queue'[z] # <<>> => Last(queue'[z]) = pending'
                      /\ queue'[z] = <<>> /\ state'[z] = "open" => badge'[z] = pending'
    BY DEF QueueInv
  <2>1. Quiet /\ ~strayed /\ z \in subscribers /\ z \in Streams
    BY <1>1 DEF Quiet, Broadcasting, StreamInv, TypeOK
  <2>2. /\ queue[z] # <<>> => Last(queue[z]) = pending
        /\ queue[z] = <<>> /\ state[z] = "open" => badge[z] = pending
    BY <2>1 DEF StreamInv, QueueInv
  <2>3. CASE z = s
    <3>1. Last(q) = pending
      BY <1>1, <2>2, <2>3 DEF q
    <3>2. queue'[s] = Tail(q) /\ badge'[s] = Head(q)
      BY <1>1 DEF StreamInv, TypeOK
    <3> QED
      BY <1>1, <1>2, <2>3, <3>1, <3>2
  <2>4. CASE z # s
    BY <1>1, <2>1, <2>2, <2>4 DEF StreamInv, TypeOK
  <2> QED
    BY <2>3, <2>4
<1>5. UNCHANGED <<handlerVars, strayed>>
  BY <1>1 DEF handlerVars
<1> QED
  BY <1>3, <1>4, <1>5, HandlersKept DEF StreamInv

LEMMA LeaveKeeps ==
    ASSUME StreamInv, NEW s \in Streams, Close(s) \/ Vanish(s)
    PROVE  StreamInv'
<1>1. TypeOK'
  <2>1. CASE Close(s)
    BY <2>1, EmptyQueue DEF Close, StreamInv, TypeOK, handlerVars
  <2>2. CASE Vanish(s)
    BY <2>2 DEF Vanish, StreamInv, TypeOK, handlerVars
  <2> QED
    BY <2>1, <2>2
<1>2. UNCHANGED <<handlerVars, strayed>>
  BY DEF Close, Vanish
<1>3. QueueInv'
  BY <1>2, HandlersKept DEF Close, Vanish, StreamInv, TypeOK, QueueInv, handlerVars
<1> QED
  BY <1>1, <1>2, <1>3, HandlersKept DEF StreamInv

-----------------------------------------------------------------------------
LEMMA StreamStep == StreamInv /\ [Next]_vars => StreamInv'
<1> SUFFICES ASSUME StreamInv, [Next]_vars PROVE StreamInv'
  OBVIOUS
<1>1. ASSUME NEW h \in Handlers, NEW n \in Counts, Change(h, n) PROVE StreamInv'
  BY <1>1, ChangeKeeps
<1>2. ASSUME NEW n \in Counts, DeleteProduct(n) PROVE StreamInv'
  BY <1>2, DeleteProductKeeps
<1>3. ASSUME NEW h \in Handlers, Broadcast(h) PROVE StreamInv'
  BY <1>3, ReadCountKeeps, CountFailsKeeps, PushKeeps DEF Broadcast
<1>4. ASSUME NEW s \in Streams, Subscribe(s) PROVE StreamInv'
  BY <1>4, SubscribeKeeps
<1>5. ASSUME NEW s \in Streams, Send(s) PROVE StreamInv'
  BY <1>5, StartKeeps, DeliverKeeps DEF Send
<1>6. ASSUME NEW s \in Streams, Close(s) \/ Vanish(s) PROVE StreamInv'
  BY <1>6, LeaveKeeps
<1>7. CASE UNCHANGED vars
  BY <1>7 DEF vars, StreamInv, TypeOK, ReadInv, AloneInv, QueueInv,
              Quiet, Broadcasting
<1> QED
  BY <1>1, <1>2, <1>3, <1>4, <1>5, <1>6, <1>7 DEF Next

THEOREM StreamInvariant == Spec => []StreamInv
<1> QED
  BY StreamInit, StreamStep, PTL DEF Spec

(* Every variable keeps its type; no queue ever holds more than its maxsize. *)
THEOREM TypeCorrect == Spec => []TypeOK
<1>1. StreamInv => TypeOK
  BY DEF StreamInv
<1> QED
  BY <1>1, StreamInvariant, PTL

(* The safety half of BadgesSettle: at rest, what an open and subscribed stream
   has in its queue ends with the right count, and if it has nothing, it has
   sent the right count already (approvals.py:81-92, 227-270).  Streams may
   connect between a commit and its push, and may start long after. *)
THEOREM StreamsCatchUp == Spec => []CaughtUp
<1>1. StreamInv => CaughtUp
  BY DEF StreamInv, QueueInv, CaughtUp, Latest
<1> QED
  BY <1>1, StreamInvariant, PTL
=============================================================================
