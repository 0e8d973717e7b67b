----------------------- MODULE ConnectionPool_proofs -----------------------
(***************************************************************************)
(* Theorems about the connection pool, for every number of worker threads  *)
(* and every size of the pool: what a thread holds follows from where it   *)
(* is, and so the sizes that suffice can be counted.                       *)
(***************************************************************************)
EXTENDS ConnectionPool, FiniteSetTheorems, TLAPS

(* What thread t has to hold where it stands. *)
Due(t) == CASE pc[t] \in {"auth", "main", "count"} -> {pc[t]}
            [] pc[t] \in {"log.wait", "logged"}    -> {"main"}
            [] pc[t] = "log"                       -> {"main", "log"}
            [] OTHER                               -> {}

(* The cleanup thread serves no request, so it never writes an audit entry. *)
CleanerReads == kind[Cleaner] = "read"

CleanerModest == pc[Cleaner] \notin {"log.wait", "log"}

PoolInv ==
    /\ TypeOK
    /\ NothingLeaks
    /\ CleanerReads
    /\ CleanerModest
    /\ RoomForAll

LEMMA HasIsDue == NothingLeaks <=> \A t \in Everyone : Has(t) = Due(t)
  BY DEF NothingLeaks, Due

-----------------------------------------------------------------------------
(* Counting connections. *)

(* A set of connections of different threads of T is no larger than T. *)
LEMMA OneEach ==
    ASSUME NEW T, IsFiniteSet(T), NEW H,
           \A x \in H : x[1] \in T,
           \A x, y \in H : x[1] = y[1] => x = y
    PROVE  IsFiniteSet(H) /\ Cardinality(H) <= Cardinality(T)
<1> DEFINE f == [x \in H |-> x[1]]
<1>1. f \in Injection(H, T)
  BY DEF Injection, IsInjective
<1>2. QED
  BY <1>1, FS_Injection

LEMMA ThreadCount ==
    /\ IsFiniteSet(Everyone)
    /\ Cardinality(Threads) \in Nat
    /\ Cardinality(Everyone) = Cardinality(Threads) + 1
  BY ThreadsAssumption, FS_AddElement, FS_CardinalityType DEF Everyone

(* The connections of a thread that waits for one, and those of the others,
   are not more than two for each worker. *)
LEMMA WaitingLeavesRoom ==
    ASSUME TypeOK, NothingLeaks, CleanerModest, NEW t \in Everyone,
           pc[t] \in {"auth.wait", "main.wait", "log.wait", "count.wait"}
    PROVE  IsFiniteSet(held) /\ Cardinality(held) <= 2 * Cardinality(Threads)
<1> DEFINE first  == {x \in held : x[2] # "log"}
           second == {x \in held : x[2] = "log"}
           n      == Cardinality(Threads)
<1>1. \A x \in held : /\ x[1] \in Everyone /\ x = <<x[1], x[2]>>
                      /\ x[2] \in Has(x[1]) /\ Has(x[1]) = Due(x[1])
  BY HasIsDue DEF TypeOK, Has
<1>2. \A s \in Everyone : \A u, v \in Due(s) : u # "log" /\ v # "log" => u = v
  BY DEF Due
<1>3. \A s \in Everyone : "log" \in Due(s) => pc[s] = "log" /\ s \in Threads
  BY DEF Due, CleanerModest, Everyone
<1>4. \A x, y \in first : x[1] = y[1] => x = y
  BY <1>1, <1>2
<1>5. \A x, y \in second : x[1] = y[1] => x = y
  BY <1>1
<1>6. \A x \in second : x[1] \in Threads
  BY <1>1, <1>3
<1>7. n \in Nat /\ IsFiniteSet(Threads) /\ IsFiniteSet(Everyone) /\ Cardinality(Everyone) = n + 1
  BY ThreadsAssumption, ThreadCount
<1>8. /\ IsFiniteSet(first) /\ IsFiniteSet(second)
      /\ Cardinality(first) \in Nat /\ Cardinality(second) \in Nat
      /\ Cardinality(first) + Cardinality(second) <= 2 * n
  <2>1. CASE pc[t] = "log.wait"
    <3>1. t \in Threads /\ "log" \notin Due(t)
      BY <2>1 DEF CleanerModest, Everyone, Due
    <3>2. \A x \in second : x[1] \in Threads \ {t}
      BY <1>1, <1>6, <3>1
    <3>3. IsFiniteSet(Threads \ {t}) /\ Cardinality(Threads \ {t}) = n - 1
      BY <1>7, <3>1, FS_RemoveElement
    <3>4. IsFiniteSet(second) /\ Cardinality(second) <= n - 1
      BY <1>5, <3>2, <3>3, OneEach
    <3>5. \A x \in first : x[1] \in Everyone
      BY <1>1
    <3>6. IsFiniteSet(first) /\ Cardinality(first) <= n + 1
      BY <1>4, <1>7, <3>5, OneEach
    <3>7. QED
      BY <1>7, <3>4, <3>6, FS_CardinalityType
  <2>2. CASE pc[t] # "log.wait"
    <3>1. Due(t) = {}
      BY <2>2 DEF Due
    <3>2. \A x \in first : x[1] \in Everyone \ {t}
      BY <1>1, <3>1
    <3>3. IsFiniteSet(Everyone \ {t}) /\ Cardinality(Everyone \ {t}) = n
      <4>1. /\ IsFiniteSet(Everyone \ {t})
            /\ Cardinality(Everyone \ {t}) = Cardinality(Everyone) - 1
        BY <1>7, FS_RemoveElement
      <4>2. QED
        BY <1>7, <4>1
    <3>4. IsFiniteSet(first) /\ Cardinality(first) <= n
      BY <1>4, <3>2, <3>3, OneEach
    <3>5. IsFiniteSet(second) /\ Cardinality(second) <= n
      BY <1>5, <1>6, <1>7, OneEach
    <3>6. QED
      BY <1>7, <3>4, <3>5, FS_CardinalityType
  <2>3. QED
    BY <2>1, <2>2
<1>9. held = first \cup second /\ first \cap second = {}
  OBVIOUS
<1> HIDE DEF first, second
<1>10. Cardinality(held) = Cardinality(first) + Cardinality(second) /\ IsFiniteSet(held)
  <2>1. /\ IsFiniteSet(first \cup second)
        /\ Cardinality(first \cup second)
              = Cardinality(first) + Cardinality(second) - Cardinality(first \cap second)
    BY <1>8, FS_Union
  <2>2. Cardinality(first \cap second) = 0
    BY <1>9, FS_EmptySet
  <2>3. QED
    BY <1>8, <1>9, <2>1, <2>2
<1>11. QED
  BY <1>8, <1>10

-----------------------------------------------------------------------------
(* Each stage changes what its own thread holds, as the next one requires. *)
LEMMA StageKept ==
    ASSUME NothingLeaks, NEW t \in Everyone,
           \A s \in Everyone \ {t} : pc'[s] = pc[s] /\ \A u \in Uses : <<s, u>> \in held' <=> <<s, u>> \in held,
           (Has(t) = Due(t))'
    PROVE  NothingLeaks'
<1>1. ASSUME NEW s \in Everyone \ {t} PROVE (Has(s) = Due(s))'
  <2>1. Has(s) = Due(s)
    BY HasIsDue
  <2>2. Has(s)' = Has(s)
    BY DEF Has
  <2>3. Due(s)' = Due(s)
    BY DEF Due
  <2>4. QED
    BY <2>1, <2>2, <2>3
<1>2. \A s \in Everyone : Has(s)' = Due(s)'
  BY <1>1
<1>3. QED
  BY <1>2 DEF NothingLeaks, Due

LEMMA WaitingPCs ==
    /\ \A u \in Uses : Waiting[u] \in PCs /\ u \in PCs
    /\ Waiting["auth"] = "auth.wait" /\ Waiting["main"] = "main.wait"
    /\ Waiting["log"] = "log.wait" /\ Waiting["count"] = "count.wait"
    /\ {"idle", "open", "logged", "auth.wait", "main.wait", "log.wait", "count.wait"} \subseteq PCs
  BY DEF Waiting, PCs, Uses

LEMMA PoolInit == Init => PoolInv
<1> SUFFICES ASSUME Init PROVE PoolInv
  OBVIOUS
<1>1. TypeOK
  BY WaitingPCs DEF Init, TypeOK, Kinds
<1>2. NothingLeaks
  BY HasIsDue DEF Init, Has, Due
<1>3. CleanerReads /\ CleanerModest /\ RoomForAll
  BY DEF Init, CleanerReads, CleanerModest, RoomForAll, Everyone
<1>4. QED
  BY <1>1, <1>2, <1>3 DEF PoolInv

(* A step of thread t that takes or gives back what it should. *)
LEMMA ThreadStep ==
    ASSUME PoolInv, NEW t \in Everyone, NEW label \in PCs, NEW k \in Kinds,
           pc' = [pc EXCEPT ![t] = label], kind' = [kind EXCEPT ![t] = k],
           capacity' = capacity, timedOut' = timedOut,
           held' \subseteq Everyone \X Uses,
           \A s \in Everyone \ {t}, u \in Uses : <<s, u>> \in held' <=> <<s, u>> \in held,
           (Has(t) = Due(t))',
           t = Cleaner => k = "read" /\ label \notin {"log.wait", "log"}
    PROVE  PoolInv'
<1>t. TypeOK /\ NothingLeaks /\ CleanerReads /\ CleanerModest /\ RoomForAll
  BY DEF PoolInv
<1>1. TypeOK'
  BY <1>t DEF TypeOK
<1>2. \A s \in Everyone \ {t} : pc'[s] = pc[s] /\ kind'[s] = kind[s]
  BY <1>t DEF TypeOK
<1>3. NothingLeaks'
  BY <1>t, <1>2, StageKept
<1>4. CleanerReads' /\ CleanerModest'
  BY <1>t, <1>2 DEF TypeOK, CleanerReads, CleanerModest, Everyone
<1>5. RoomForAll'
  BY <1>t DEF RoomForAll
<1>6. QED
  BY <1>1, <1>3, <1>4, <1>5 DEF PoolInv

(* Nobody times out where there is room for all. *)
LEMMA TimeoutStep ==
    ASSUME PoolInv, NEW t \in Everyone, NEW label \in PCs, NEW k \in Kinds, ~Free,
           pc[t] \in {"auth.wait", "main.wait", "log.wait", "count.wait"},
           pc' = [pc EXCEPT ![t] = label], kind' = [kind EXCEPT ![t] = k],
           capacity' = capacity, held' = held, timedOut' = TRUE,
           Due(t)' = Due(t),
           t = Cleaner => k = "read" /\ label \notin {"log.wait", "log"}
    PROVE  PoolInv'
<1>t. TypeOK /\ NothingLeaks /\ CleanerReads /\ CleanerModest
  BY DEF PoolInv
<1>1. TypeOK'
  BY <1>t DEF TypeOK
<1>2. \A s \in Everyone \ {t} : pc'[s] = pc[s] /\ kind'[s] = kind[s]
  BY <1>t DEF TypeOK
<1>3. (Has(t) = Due(t))'
  BY <1>t, HasIsDue DEF Has
<1>4. NothingLeaks'
  BY <1>t, <1>2, <1>3, StageKept
<1>5. CleanerReads' /\ CleanerModest'
  BY <1>t, <1>2 DEF TypeOK, CleanerReads, CleanerModest, Everyone
<1>6. RoomForAll'
  <2>1. Cardinality(held) <= 2 * Cardinality(Threads) /\ IsFiniteSet(held)
    BY <1>t, WaitingLeavesRoom
  <2>2. capacity \in Nat /\ Cardinality(held) \in Nat /\ Cardinality(Threads) \in Nat
    BY <1>t, <2>1, CapacityAssumption, ThreadCount, FS_CardinalityType DEF TypeOK
  <2>3. ~(capacity > 2 * Cardinality(Threads))
    BY <2>1, <2>2 DEF Free
  <2>4. QED
    BY <2>3 DEF RoomForAll
<1>7. QED
  BY <1>1, <1>4, <1>5, <1>6 DEF PoolInv

LEMMA PoolStep == PoolInv /\ [Next]_vars => PoolInv'
<1> SUFFICES ASSUME PoolInv, [Next]_vars PROVE PoolInv'
  OBVIOUS
<1>t. TypeOK /\ \A t \in Everyone : Has(t) = Due(t)
  BY HasIsDue DEF PoolInv
<1>c. kind[Cleaner] = "read" /\ pc[Cleaner] \notin {"log.wait", "log"} /\ Cleaner \in Everyone
  BY DEF PoolInv, CleanerReads, CleanerModest, Everyone
<1>k. \A t \in Everyone : kind[t] \in Kinds /\ "read" \in Kinds
  BY <1>t DEF TypeOK, Kinds
<1>1. ASSUME NEW t \in Everyone, NEW k \in Kinds, Take(t, k) PROVE PoolInv'
  <2>1. /\ t \in Threads /\ pc[t] = "idle" /\ pc' = [pc EXCEPT ![t] = "auth.wait"]
        /\ kind' = [kind EXCEPT ![t] = k] /\ UNCHANGED <<capacity, held, timedOut>>
    BY <1>1 DEF Take
  <2>2. (Has(t) = Due(t))'
    BY <1>t, <2>1 DEF TypeOK, Has, Due
  <2>3. t # Cleaner /\ held' \subseteq Everyone \X Uses
    BY <1>t, <2>1, ThreadsAssumption DEF TypeOK
  <2>4. QED
    BY <2>1, <2>2, <2>3, WaitingPCs, ThreadStep
<1>2. CASE Wake
  <2>1. /\ pc[Cleaner] = "idle" /\ pc' = [pc EXCEPT ![Cleaner] = "main.wait"]
        /\ kind' = [kind EXCEPT ![Cleaner] = "read"] /\ UNCHANGED <<capacity, held, timedOut>>
    BY <1>2, <1>c DEF Wake, Goto
  <2>2. (Has(Cleaner) = Due(Cleaner))'
    BY <1>t, <1>c, <2>1 DEF TypeOK, Has, Due
  <2>3. held' \subseteq Everyone \X Uses
    BY <1>t, <2>1 DEF TypeOK
  <2>4. QED
    BY <1>c, <1>k, <2>1, <2>2, <2>3, WaitingPCs, ThreadStep
<1>3. ASSUME NEW t \in Everyone, NEW u \in Uses, Acquire(t, u) PROVE PoolInv'
  <2>1. /\ pc[t] = Waiting[u] /\ pc' = [pc EXCEPT ![t] = u]
        /\ kind' = [kind EXCEPT ![t] = kind[t]] /\ held' = held \cup {<<t, u>>}
        /\ UNCHANGED <<capacity, timedOut>>
    BY <1>3 DEF Acquire, Goto, Uses
  <2>2. Has(t)' = Has(t) \cup {u} /\ pc'[t] = u
    BY <1>t, <2>1 DEF Has, TypeOK
  <2>3. Due(t)' = Due(t) \cup {u}
    BY <2>1, <2>2, WaitingPCs DEF Due, Uses
  <2>4. held' \subseteq Everyone \X Uses
    BY <1>t, <2>1 DEF TypeOK
  <2>5. t = Cleaner => u # "log"
    BY <1>c, <2>1, WaitingPCs
  <2>6. t = Cleaner => kind[t] = "read" /\ u \notin {"log.wait", "log"}
    BY <1>c, <2>5 DEF Uses
  <2>7. \A s \in Everyone \ {t}, v \in Uses : <<s, v>> \in held' <=> <<s, v>> \in held
    BY <2>1
  <2>8. QED
    BY <1>t, <1>k, <2>1, <2>2, <2>3, <2>4, <2>6, <2>7, WaitingPCs, ThreadStep
<1>4. ASSUME NEW t \in Everyone, NEW u \in Uses, NEW label \in PCs, u \in Has(t),
             held' = held \ {<<t, u>>}, Goto(t, label), UNCHANGED <<capacity, timedOut>>,
             (Due(t))' = Due(t) \ {u}, t = Cleaner => label \notin {"log.wait", "log"}
      PROVE  PoolInv'
  <2>1. PICK k \in Kinds : kind' = [kind EXCEPT ![t] = k] /\ (t = Cleaner => k = "read")
    <3>1. CASE label = "idle"
      BY <1>4, <1>k, <3>1 DEF Goto
    <3>2. CASE label # "idle"
      BY <1>4, <1>k, <1>c, <3>2 DEF Goto
    <3>3. QED
      BY <3>1, <3>2
  <2>2. pc' = [pc EXCEPT ![t] = label]
    BY <1>4 DEF Goto
  <2>3. Has(t)' = Has(t) \ {u}
    BY <1>4 DEF Has
  <2>4. held' \subseteq Everyone \X Uses
    BY <1>t, <1>4 DEF TypeOK
  <2>5. QED
    BY <1>t, <1>4, <2>1, <2>2, <2>3, <2>4, ThreadStep
<1>5. ASSUME NEW t \in Everyone, NEW label \in PCs, Goto(t, label),
             UNCHANGED <<capacity, held>>, (Due(t))' = Due(t),
             t = Cleaner => label \notin {"log.wait", "log"},
             \/ timedOut' = timedOut
             \/ /\ ~Free /\ timedOut' = TRUE
                /\ pc[t] \in {"auth.wait", "main.wait", "log.wait", "count.wait"}
      PROVE  PoolInv'
  <2>1. PICK k \in Kinds : kind' = [kind EXCEPT ![t] = k] /\ (t = Cleaner => k = "read")
    <3>1. CASE label = "idle"
      BY <1>5, <1>k, <3>1 DEF Goto
    <3>2. CASE label # "idle"
      BY <1>5, <1>k, <1>c, <3>2 DEF Goto
    <3>3. QED
      BY <3>1, <3>2
  <2>2. pc' = [pc EXCEPT ![t] = label]
    BY <1>5 DEF Goto
  <2>3. Has(t)' = Has(t) /\ held' \subseteq Everyone \X Uses
    BY <1>t, <1>5 DEF Has, TypeOK
  <2>4. CASE timedOut' = timedOut
    BY <1>t, <1>5, <2>1, <2>2, <2>3, <2>4, ThreadStep
  <2>5. CASE timedOut' # timedOut
    BY <1>5, <2>1, <2>2, <2>5, TimeoutStep
  <2>6. QED
    BY <2>4, <2>5
<1>6. ASSUME NEW t \in Everyone, Run(t) PROVE PoolInv'
  <2>0. /\ "auth" \in Uses /\ "main" \in Uses /\ "log" \in Uses /\ "count" \in Uses
        /\ Has(t) = Due(t)
    BY <1>t DEF Uses
  <2>p. \A label \in PCs : Goto(t, label) => pc'[t] = label
    BY <1>t DEF Goto, TypeOK
  <2>1. CASE Authorized(t)
    <3> DEFINE label == IF kind[t] = "stream" THEN "count.wait" ELSE "main.wait"
    <3>1. /\ pc[t] = "auth" /\ held' = held \ {<<t, "auth">>} /\ Goto(t, label)
          /\ UNCHANGED <<capacity, timedOut>> /\ label \in {"count.wait", "main.wait"}
      BY <2>1 DEF Authorized
    <3> HIDE DEF label
    <3>2. label \in PCs /\ label \notin {"log.wait", "log"} /\ pc'[t] = label
      BY <2>p, <3>1, WaitingPCs
    <3>3. Due(t) = {"auth"} /\ Due(t)' = {}
      BY <3>1, <3>2 DEF Due
    <3>4. QED
      BY <1>4, <2>0, <3>1, <3>2, <3>3
  <2>2. CASE StartLog(t)
    <3>1. /\ pc[t] = "main" /\ kind[t] = "edit" /\ Goto(t, "log.wait")
          /\ UNCHANGED <<capacity, held, timedOut>> /\ t # Cleaner /\ pc'[t] = "log.wait"
      BY <1>c, <2>2, <2>p, WaitingPCs DEF StartLog
    <3>2. Due(t) = {"main"} /\ Due(t)' = {"main"}
      BY <3>1 DEF Due
    <3>3. QED
      BY <1>5, <3>1, <3>2, WaitingPCs
  <2>3. CASE Logged(t)
    <3>1. /\ pc[t] = "log" /\ held' = held \ {<<t, "log">>} /\ Goto(t, "logged")
          /\ UNCHANGED <<capacity, timedOut>> /\ pc'[t] = "logged"
      BY <2>3, <2>p, WaitingPCs DEF Logged
    <3>2. Due(t) = {"main", "log"} /\ Due(t)' = {"main"}
      BY <3>1 DEF Due
    <3>3. QED
      BY <1>4, <2>0, <3>1, <3>2, WaitingPCs
  <2>4. CASE Leave(t)
    <3> DEFINE label == IF kind[t] = "approve" THEN "count.wait" ELSE "idle"
    <3>1. /\ pc[t] \in {"main", "logged"} /\ held' = held \ {<<t, "main">>} /\ Goto(t, label)
          /\ UNCHANGED <<capacity, timedOut>> /\ label \in {"count.wait", "idle"}
      BY <2>4 DEF Leave, Release
    <3> HIDE DEF label
    <3>2. label \in PCs /\ label \notin {"log.wait", "log"} /\ pc'[t] = label
      BY <2>p, <3>1, WaitingPCs
    <3>3. Due(t) = {"main"} /\ Due(t)' = {}
      BY <3>1, <3>2 DEF Due
    <3>4. QED
      BY <1>4, <2>0, <3>1, <3>2, <3>3
  <2>5. CASE Counted(t)
    <3> DEFINE label == IF kind[t] = "stream" THEN "open" ELSE "idle"
    <3>1. /\ pc[t] = "count" /\ held' = held \ {<<t, "count">>} /\ Goto(t, label)
          /\ UNCHANGED <<capacity, timedOut>> /\ label \in {"open", "idle"}
      BY <2>5 DEF Counted
    <3> HIDE DEF label
    <3>2. label \in PCs /\ label \notin {"log.wait", "log"} /\ pc'[t] = label
      BY <2>p, <3>1, WaitingPCs
    <3>3. Due(t) = {"count"} /\ Due(t)' = {}
      BY <3>1, <3>2 DEF Due
    <3>4. QED
      BY <1>4, <2>0, <3>1, <3>2, <3>3
  <2>6. QED
    BY <1>6, <2>1, <2>2, <2>3, <2>4, <2>5 DEF Run
<1>7. ASSUME NEW t \in Everyone, TimesOut(t) \/ CloseStream(t) PROVE PoolInv'
  <2>p. \A label \in PCs : Goto(t, label) => pc'[t] = label
    BY <1>t DEF Goto, TypeOK
  <2>1. CASE LoseLog(t)
    <3>1. /\ pc[t] = "log.wait" /\ ~Free /\ timedOut' = TRUE /\ Goto(t, "logged")
          /\ UNCHANGED <<capacity, held>> /\ pc'[t] = "logged"
      BY <2>1, <2>p, WaitingPCs DEF LoseLog
    <3>2. Due(t) = {"main"} /\ Due(t)' = {"main"}
      BY <3>1 DEF Due
    <3>3. QED
      BY <1>5, <3>1, <3>2, WaitingPCs
  <2>2. CASE TurnAway(t) \/ SkipCount(t) \/ CloseStream(t)
    <3>1. PICK label \in {"idle", "open"} : Goto(t, label)
      BY <2>2 DEF TurnAway, SkipCount, CloseStream
    <3>2. /\ UNCHANGED <<capacity, held>>
          /\ \/ pc[t] = "open" /\ timedOut' = timedOut
             \/ /\ pc[t] \in {"auth.wait", "main.wait", "count.wait"}
                /\ ~Free /\ timedOut' = TRUE
      BY <2>2 DEF TurnAway, SkipCount, CloseStream
    <3>3. label \in PCs /\ label \notin {"log.wait", "log"} /\ pc'[t] = label
      BY <2>p, <3>1, WaitingPCs
    <3>4. Due(t) = {} /\ Due(t)' = {}
      BY <3>1, <3>2, <3>3 DEF Due
    <3>5. QED
      BY <1>5, <3>1, <3>2, <3>3, <3>4
  <2>3. QED
    BY <1>7, <2>1, <2>2 DEF TimesOut
<1>8. CASE UNCHANGED vars
  BY <1>8 DEF vars, PoolInv, TypeOK, NothingLeaks, Has, CleanerReads, CleanerModest, RoomForAll
<1>9. QED
  BY <1>1, <1>2, <1>3, <1>6, <1>7, <1>8 DEF Next, Get

LEMMA PoolInvariant == Spec => []PoolInv
  BY PoolInit, PoolStep, PTL DEF Spec

-----------------------------------------------------------------------------
(* Every thread, the use of every connection and the size of the pool stay
   what the code gives them. *)
THEOREM PoolTypeCorrect == Spec => []TypeOK
<1>1. PoolInv => TypeOK
  BY DEF PoolInv
<1>2. QED
  BY <1>1, PoolInvariant, PTL

(* No connection is kept longer than the stage that needs it, whether the
   stage ends well or in a timeout. *)
THEOREM NothingIsLeaked == Spec => []NothingLeaks
<1>1. PoolInv => NothingLeaks
  BY DEF PoolInv
<1>2. QED
  BY <1>1, PoolInvariant, PTL

(* A pool of more than two connections for each worker never makes anybody
   wait in vain, whatever the number of workers and of dashboards. *)
THEOREM TwoEachSuffice == Spec => []RoomForAll
<1>1. PoolInv => RoomForAll
  BY DEF PoolInv
<1>2. QED
  BY <1>1, PoolInvariant, PTL

(* With more connections than workers, handlers that want a second one never
   hold all of them: those that wait for it hold one each. *)
THEOREM MoreThanWorkersNoGridlock == Spec => []NoGridlock
<1>1. ASSUME PoolInv PROVE NoGridlock
  <2> SUFFICES ASSUME capacity > Cardinality(Threads), ~Free,
                      \A t \in Everyone : Has(t) # {} => pc[t] = "log.wait"
               PROVE  FALSE
    BY DEF NoGridlock
  <2>t. TypeOK /\ NothingLeaks /\ CleanerModest
    BY <1>1 DEF PoolInv
  <2>1. \A x \in held : /\ x[1] \in Everyone /\ x = <<x[1], x[2]>> /\ x[2] \in Has(x[1])
    BY <2>t DEF TypeOK, Has
  <2>2. \A x \in held : pc[x[1]] = "log.wait" /\ x[1] \in Threads
    BY <2>t, <2>1 DEF CleanerModest, Everyone
  <2>3. \A x \in held : x[2] = "main"
    BY <2>t, <2>1, <2>2, HasIsDue DEF Due
  <2>4. IsFiniteSet(held) /\ Cardinality(held) <= Cardinality(Threads)
    BY <2>1, <2>2, <2>3, ThreadsAssumption, OneEach
  <2>5. capacity \in Nat /\ Cardinality(held) \in Nat /\ Cardinality(Threads) \in Nat
    BY <2>t, <2>4, CapacityAssumption, ThreadCount, FS_CardinalityType DEF TypeOK
  <2>6. QED
    BY <2>4, <2>5 DEF Free
<1>2. QED
  BY <1>1, PoolInvariant, PTL
=============================================================================
