----------------------- MODULE ArchiveBrowsing_proofs -----------------------
(***************************************************************************)
(* Theorems about ArchiveBrowsing, for every number of editors, every size *)
(* of the archive and every page size.                                     *)
(***************************************************************************)
EXTENDS ArchiveBrowsing, FiniteSetTheorems, TLAPS

(* The rank of a row is the number of newer ones. *)
LEMMA RankType ==
    ASSUME NEW S \in SUBSET Snapshot, IsFiniteSet(S), NEW s \in S
    PROVE  Rank(S, s) \in 0..(Cardinality(S) - 1)
<1> DEFINE newer == {t \in S : t.at > s.at}
<1>1. newer \subseteq S \ {s}
  BY DEF Snapshot
<1>2. /\ IsFiniteSet(S \ {s})
      /\ Cardinality(S \ {s}) = Cardinality(S) - 1
      /\ Cardinality(S) \in Nat
  BY FS_RemoveElement, FS_CardinalityType
<1>3. IsFiniteSet(newer) /\ Cardinality(newer) <= Cardinality(S) - 1
  BY <1>1, <1>2, FS_Subset
<1>4. Cardinality(newer) \in Nat
  BY <1>3, FS_CardinalityType
<1> QED
  BY <1>2, <1>3, <1>4 DEF Rank

(* The newer of two rows has the smaller rank. *)
LEMMA RankOrder ==
    ASSUME NEW S \in SUBSET Snapshot, IsFiniteSet(S), NEW s \in S, NEW t \in S, s.at < t.at
    PROVE  Rank(S, t) < Rank(S, s)
<1> DEFINE newerS == {u \in S : u.at > s.at}
           newerT == {u \in S : u.at > t.at}
<1>1. newerT \subseteq newerS \ {t} /\ t \in newerS
  BY DEF Snapshot
<1>2. IsFiniteSet(newerS)
  BY FS_Subset
<1>3. /\ IsFiniteSet(newerS \ {t})
      /\ Cardinality(newerS \ {t}) = Cardinality(newerS) - 1
      /\ Cardinality(newerS) \in Nat
  BY <1>1, <1>2, FS_RemoveElement, FS_CardinalityType
<1>4. IsFiniteSet(newerT) /\ Cardinality(newerT) <= Cardinality(newerS) - 1
  BY <1>1, <1>3, FS_Subset
<1>5. Cardinality(newerT) \in Nat
  BY <1>4, FS_CardinalityType
<1> QED
  BY <1>3, <1>4, <1>5 DEF Rank

(* Rows that are inserted, and rows that are removed from behind, move no row
   to an earlier place. *)
LEMMA RankGrows ==
    ASSUME NEW S \in SUBSET Snapshot, NEW T \in SUBSET Snapshot, IsFiniteSet(T),
           NEW s \in Snapshot, \A t \in S : t.at > s.at => t \in T
    PROVE  Rank(S, s) <= Rank(T, s)
<1> DEFINE newerS == {u \in S : u.at > s.at}
           newerT == {u \in T : u.at > s.at}
<1>1. newerS \subseteq newerT /\ newerT \subseteq T
  OBVIOUS
<1>2. IsFiniteSet(newerT)
  BY <1>1, FS_Subset
<1>3. Cardinality(newerS) <= Cardinality(newerT)
  BY <1>1, <1>2, FS_Subset
<1> QED
  BY <1>3 DEF Rank

(* Pruning leaves an archive alone that is not too large ... *)
LEMMA PrunedSmall ==
    ASSUME NEW S \in SUBSET Snapshot, IsFiniteSet(S), Cardinality(S) <= Keep
    PROVE  Pruned(S) = S
<1>1. \A s \in S : Rank(S, s) < Keep
  BY RankType, FS_CardinalityType, SizesAssumption
<1> QED
  BY <1>1 DEF Pruned

(* ... and removes the oldest row of one with a row too many. *)
LEMMA PrunedOldest ==
    ASSUME NEW S \in SUBSET Snapshot, IsFiniteSet(S), Cardinality(S) = Keep + 1,
           \A s, t \in S : s.at = t.at => s = t
    PROVE  \E m \in S : /\ Pruned(S) = S \ {m}
                        /\ \A s \in S \ {m} : m.at < s.at
<1> USE SizesAssumption
<1>1. \E m \in S : Rank(S, m) >= Keep
  <2> SUFFICES ASSUME \A m \in S : ~(Rank(S, m) >= Keep)
               PROVE  FALSE
    OBVIOUS
  <2> DEFINE f == [s \in S |-> Rank(S, s)]
  <2>1. f \in [S -> 0..(Keep - 1)]
    BY RankType
  <2>2. IsFiniteSet(0..(Keep - 1)) /\ Cardinality(0..(Keep - 1)) = Keep
    BY FS_Interval
  <2>3. PICK x \in S, y \in S : x # y /\ f[x] = f[y]
    <3> HIDE DEF f
    <3> QED
      BY <2>1, <2>2, FS_PigeonHole
  <2>4. x.at < y.at \/ y.at < x.at
    BY <2>3 DEF Snapshot
  <2>5. Rank(S, x) # Rank(S, y)
    BY <2>4, RankOrder, RankType, FS_CardinalityType
  <2> QED
    BY <2>3, <2>5
<1>2. PICK m \in S : Rank(S, m) >= Keep
  BY <1>1
<1> DEFINE newer == {t \in S : t.at > m.at}
<1>3. newer \subseteq S \ {m}
  BY DEF Snapshot
<1>4. IsFiniteSet(S \ {m}) /\ Cardinality(S \ {m}) = Keep
  BY FS_RemoveElement
<1>5. Rank(S, m) = Keep
  BY <1>2, RankType
<1>6. newer = S \ {m}
  BY <1>3, <1>4, <1>5, FS_Subset DEF Rank
<1>7. \A s \in S \ {m} : m.at < s.at
  BY <1>6 DEF Snapshot
<1>8. \A s \in S \ {m} : Rank(S, s) < Keep
  BY <1>5, <1>7, RankOrder
<1> QED
  BY <1>5, <1>7, <1>8 DEF Pruned

(* Rows with different dates have different ranks, so one of them is first. *)
LEMMA NewestExists ==
    ASSUME NEW S \in SUBSET Snapshot, IsFiniteSet(S), S # {},
           \A s, t \in S : s.at = t.at => s = t
    PROVE  \E t \in S : Rank(S, t) = 0
<1> DEFINE n == Cardinality(S)
           T == 0..(n - 1)
           f == [s \in S |-> Rank(S, s)]
<1>1. n \in Nat \ {0}
  BY FS_CardinalityType, FS_EmptySet
<1>2. IsFiniteSet(T) /\ Cardinality(T) = n
  BY <1>1, FS_Interval
<1>3. f \in [S -> T]
  BY RankType
<1>4. \A s, t \in S : s # t => f[s] # f[t]
  <2> SUFFICES ASSUME NEW s \in S, NEW t \in S, s # t, s.at < t.at \/ t.at < s.at
               PROVE  Rank(S, s) # Rank(S, t)
    BY DEF Snapshot
  <2> QED
    BY RankOrder, RankType, FS_CardinalityType
<1>5. f \in Surjection(S, T)
  <2> HIDE DEF f, T, n
  <2>1. f \in Injection(S, T)
    BY <1>3, <1>4 DEF Injection, IsInjective
  <2> QED
    BY <1>2, <2>1, FS_Injection DEF n
<1>6. \E t \in S : f[t] = 0
  <2>1. 0 \in T
    BY <1>1
  <2> HIDE DEF f, T
  <2> QED
    BY <1>5, <2>1 DEF Surjection
<1> QED
  BY <1>6

-----------------------------------------------------------------------------
(* Timestamps and ids are handed out once. *)
StampInv ==
    /\ \A s \in ever : s.at <= clock
    /\ \A s, t \in ever : s.at = t.at => s = t
    /\ \A e \in Editors : /\ start[e] <= clock
                          /\ start[e] # 0 => \A s \in ever : s.at # start[e]
    /\ \A e, f \in Editors : start[e] = start[f] /\ start[e] # 0 => e = f

(* Whatever is stored, was stored, or has been shown. *)
Known == ever \cup rows \cup first

IdInv ==
    /\ \A s \in Known : s.id < nextId
    /\ \A s, t \in Known : s.id = t.id => s = t

ArchInv == KeepsTheNewest /\ IsFiniteSet(arch) /\ Cardinality(arch) <= Keep

(* What was there from the start and has not been shown yet comes on the pages
   from k \div PerPage + 1 on. *)
Ahead(k) == \A s \in first \cap arch : s \in seen \/ Rank(arch, s) >= k

PageInv ==
    /\ phase = "page"   => Ahead((page - 1) * PerPage)
    /\ phase = "listed" => Ahead(page * PerPage)

BrowseInv == TypeOK /\ StampInv /\ IdInv /\ ArchInv /\ PageInv

-----------------------------------------------------------------------------
LEMMA BrowseInit == Init => BrowseInv
<1> SUFFICES ASSUME Init PROVE BrowseInv
  OBVIOUS
<1>1. IsFiniteSet({}) /\ Cardinality({}) = 0
  BY FS_EmptySet
<1>2. TypeOK /\ StampInv /\ IdInv /\ PageInv
  BY DEF Init, TypeOK, StampInv, IdInv, Known, PageInv
<1>3. ArchInv
  BY <1>1, SizesAssumption DEF Init, ArchInv, KeepsTheNewest
<1> QED
  BY <1>2, <1>3 DEF BrowseInv

LEMMA TakenType ==
    ASSUME BrowseInv, NEW e \in Editors, start[e] # 0
    PROVE  /\ Taken(e) \in Snapshot
           /\ Taken(e).id = nextId /\ Taken(e).at = start[e]
           /\ Taken(e) \notin ever
<1>1. Taken(e) \in Snapshot
  BY DEF BrowseInv, TypeOK, Taken, Snapshot
<1>2. Taken(e).id = nextId /\ Taken(e).at = start[e]
  BY DEF Taken
<1>3. \A s \in ever : s.at # start[e]
  BY DEF BrowseInv, StampInv
<1> QED
  BY <1>1, <1>2, <1>3

(* What archiving leaves: everything, while there is room, and after that
   everything but the oldest row, which may be the new one. *)
LEMMA ArchiveShape ==
    ASSUME BrowseInv, NEW e \in Editors, Archive(e)
    PROVE  \/ /\ Cardinality(arch) < Keep
              /\ arch' = arch \cup {Taken(e)}
           \/ /\ Cardinality(arch) = Keep
              /\ \E m \in arch \cup {Taken(e)} :
                    /\ arch' = (arch \cup {Taken(e)}) \ {m}
                    /\ \A s \in arch' : m.at < s.at
<1> DEFINE new == Taken(e)
           S   == arch \cup {new}
<1>1. /\ new \in Snapshot /\ new.at = start[e] /\ new \notin ever
      /\ start[e] # 0 /\ arch' = Pruned(S)
  BY TakenType DEF Archive
<1>2. arch \subseteq ever /\ ever \subseteq Snapshot
  BY DEF BrowseInv, TypeOK, ArchInv, KeepsTheNewest
<1>3. IsFiniteSet(arch) /\ Cardinality(arch) <= Keep /\ Cardinality(arch) \in Nat
  BY FS_CardinalityType DEF BrowseInv, ArchInv
<1>4. IsFiniteSet(S) /\ Cardinality(S) = Cardinality(arch) + 1
  BY <1>1, <1>2, <1>3, FS_AddElement
<1>5. \A s, t \in S : s.at = t.at => s = t
  BY <1>1, <1>2 DEF BrowseInv, StampInv
<1> HIDE DEF new
<1>6. S \in SUBSET Snapshot
  BY <1>1, <1>2
<1>7. CASE Cardinality(arch) < Keep
  <2>1. Pruned(S) = S
    <3> HIDE DEF S
    <3> QED
      BY <1>3, <1>4, <1>6, <1>7, PrunedSmall, SizesAssumption
  <2> QED
    BY <1>1, <1>7, <2>1 DEF new
<1>8. CASE Cardinality(arch) = Keep
  <2>1. PICK m \in S : Pruned(S) = S \ {m} /\ \A s \in S \ {m} : m.at < s.at
    <3> HIDE DEF S
    <3> QED
      BY <1>4, <1>5, <1>6, <1>8, PrunedOldest
  <2> QED
    BY <1>1, <1>8, <2>1 DEF new
<1> QED
  BY <1>3, <1>7, <1>8, SizesAssumption

(* The pages that are still to come hold what they held. *)
LEMMA AheadKept ==
    ASSUME BrowseInv, arch' \subseteq Snapshot, IsFiniteSet(arch'),
           first' = first, seen' = seen, first \cap arch' \subseteq arch,
           \A s \in arch', t \in arch : t.at > s.at => t \in arch',
           NEW k \in Nat, Ahead(k)
    PROVE  Ahead(k)'
<1> SUFFICES ASSUME NEW s \in first \cap arch', s \notin seen
             PROVE  Rank(arch', s) >= k
  BY DEF Ahead
<1>1. arch \subseteq Snapshot /\ IsFiniteSet(arch)
  BY DEF BrowseInv, TypeOK, ArchInv
<1>2. Rank(arch, s) >= k /\ s \in arch
  BY DEF Ahead
<1>3. Rank(arch, s) <= Rank(arch', s)
  BY <1>1, <1>2, RankGrows
<1>4. Rank(arch, s) \in Int /\ Rank(arch', s) \in Int
  BY <1>1, <1>2, RankType, FS_CardinalityType
<1> QED
  BY <1>2, <1>3, <1>4

LEMMA PagesKept ==
    ASSUME BrowseInv, arch' \subseteq Snapshot, IsFiniteSet(arch'),
           UNCHANGED listVars, first \cap arch' \subseteq arch,
           \A s \in arch', t \in arch : t.at > s.at => t \in arch'
    PROVE  PageInv'
<1>1. page \in Nat \ {0} /\ PerPage \in Nat \ {0}
  BY SizesAssumption DEF BrowseInv, TypeOK
<1>2. (page - 1) * PerPage \in Nat /\ page * PerPage \in Nat
  BY <1>1
<1>3. \A k \in Nat : Ahead(k) => Ahead(k)'
  BY AheadKept DEF listVars
<1>4. PageInv
  BY DEF BrowseInv
<1>5. phase' = phase /\ page' = page
  BY DEF listVars
<1> QED
  BY <1>2, <1>3, <1>4, <1>5 DEF PageInv
LEMMA BeginKeeps == ASSUME BrowseInv, NEW e \in Editors, Begin(e) PROVE BrowseInv'
<1> USE DEF Begin, listVars, fetchVars
<1>1. TypeOK'
  BY DEF BrowseInv, TypeOK
<1>2. StampInv'
  BY DEF BrowseInv, TypeOK, StampInv, Snapshot
<1>3. IdInv' /\ ArchInv'
  BY DEF BrowseInv, IdInv, Known, ArchInv, KeepsTheNewest
<1>4. PageInv'
  BY DEF BrowseInv, PageInv, Ahead, Rank
<1> QED
  BY <1>1, <1>2, <1>3, <1>4 DEF BrowseInv

LEMMA ArchiveKeeps == ASSUME BrowseInv, NEW e \in Editors, Archive(e) PROVE BrowseInv'
<1> DEFINE new == Taken(e)
<1>1. /\ new \in Snapshot /\ new.id = nextId /\ new.at = start[e] /\ new \notin ever
      /\ start[e] # 0
  BY TakenType DEF Archive
<1>2. /\ ever' = ever \cup {new} /\ nextId' = nextId + 1
      /\ start' = [start EXCEPT ![e] = 0] /\ rev' \in {rev, rev + 1}
      /\ UNCHANGED <<clock, listVars, fetchVars>>
  BY DEF Archive
<1>3. \/ Cardinality(arch) < Keep /\ arch' = arch \cup {new}
      \/ /\ Cardinality(arch) = Keep
         /\ \E m \in arch \cup {new} : /\ arch' = (arch \cup {new}) \ {m}
                                     /\ \A s \in arch' : m.at < s.at
  BY ArchiveShape
<1> HIDE DEF new
<1>4. TypeOK /\ StampInv /\ IdInv /\ ArchInv
  BY DEF BrowseInv
<1>5. /\ arch \subseteq ever /\ ever \subseteq Snapshot /\ IsFiniteSet(arch)
      /\ Cardinality(arch) \in Nat
  BY <1>4, FS_CardinalityType DEF TypeOK, ArchInv, KeepsTheNewest
<1>6. arch' \subseteq arch \cup {new} /\ IsFiniteSet(arch \cup {new})
  BY <1>3, <1>5, FS_AddElement
<1>7. IsFiniteSet(arch') /\ arch' \subseteq Snapshot
  BY <1>1, <1>5, <1>6, FS_Subset
<1>8. TypeOK'
  BY <1>1, <1>2, <1>4, <1>7 DEF TypeOK, listVars, fetchVars
<1>9. StampInv'
  BY <1>1, <1>2, <1>4 DEF TypeOK, StampInv
<1>10. IdInv'
  <2>1. Known' \subseteq Known \cup {new}
    BY <1>2 DEF Known, listVars
  <2>2. \A s \in Known : s.id < nextId /\ s \in Snapshot
    BY <1>4 DEF IdInv, Known, TypeOK
  <2> QED
    BY <1>1, <1>2, <1>4, <2>1, <2>2 DEF IdInv, Snapshot, TypeOK
<1>11. ArchInv'
  <2>1. CASE Cardinality(arch) < Keep /\ arch' = arch \cup {new}
    <3>1. ever = arch
      BY <1>4, <2>1, SizesAssumption DEF ArchInv, KeepsTheNewest
    <3>2. Cardinality(arch') <= Keep
      <4>1. Cardinality(arch \cup {new}) = Cardinality(arch) + 1
        BY <1>1, <1>5, FS_AddElement
      <4> QED
        BY <1>5, <2>1, <4>1, SizesAssumption
    <3> QED
      BY <1>2, <1>7, <2>1, <3>1, <3>2 DEF ArchInv, KeepsTheNewest
  <2>2. CASE Cardinality(arch) = Keep /\ ~(Cardinality(arch) < Keep)
    <3>1. PICK m \in arch \cup {new} : /\ arch' = (arch \cup {new}) \ {m}
                                      /\ \A s \in arch' : m.at < s.at
      BY <1>3, <2>2
    <3>2. Cardinality(arch') = Keep
      <4>1. Cardinality(arch \cup {new}) = Keep + 1
        BY <1>1, <1>5, <2>2, FS_AddElement
      <4>2. Cardinality((arch \cup {new}) \ {m}) = (Keep + 1) - 1
        BY <1>6, <4>1, FS_RemoveElement
      <4> QED
        BY <3>1, <4>2, SizesAssumption
    <3>3. ASSUME NEW s \in arch', NEW t \in ever' \ arch'
          PROVE  t.at < s.at
      <4>1. CASE t = m
        BY <3>1, <4>1
      <4>2. CASE t # m
        <5>1. t \in ever \ arch
          BY <1>2, <3>1, <4>2
        <5>2. \A u \in arch : t.at < u.at
          BY <1>4, <5>1 DEF ArchInv, KeepsTheNewest
        <5>3. CASE s = new
          <6>1. m \in arch /\ m.at < s.at
            BY <3>1, <5>3
          <6> QED
            BY <1>1, <1>5, <5>1, <5>2, <5>3, <6>1 DEF Snapshot
        <5> QED
          BY <3>1, <5>2, <5>3
      <4> QED
        BY <4>1, <4>2
    <3>4. arch' \subseteq ever'
      BY <1>2, <1>5, <1>6
    <3> QED
      BY <1>7, <3>2, <3>3, <3>4, SizesAssumption DEF ArchInv, KeepsTheNewest
  <2> QED
    BY <1>3, <2>1, <2>2, SizesAssumption
<1>12. PageInv'
  <2>1. new \notin first
    BY <1>1, <1>4 DEF IdInv, Known, TypeOK
  <2>2. \A s \in arch', t \in arch : t.at > s.at => t \in arch'
    BY <1>1, <1>3, <1>5, <1>7 DEF Snapshot
  <2> QED
    BY <1>2, <1>6, <1>7, <2>1, <2>2, PagesKept
<1> QED
  BY <1>8, <1>9, <1>10, <1>11, <1>12 DEF BrowseInv

LEMMA WipeKeeps == ASSUME BrowseInv, Wipe PROVE BrowseInv'
<1> USE DEF Wipe
<1>1. IsFiniteSet({}) /\ Cardinality({}) = 0
  BY FS_EmptySet
<1>2. TypeOK'
  BY DEF BrowseInv, TypeOK, listVars, fetchVars
<1>3. StampInv'
  BY DEF BrowseInv, TypeOK, StampInv
<1>4. IdInv'
  BY DEF BrowseInv, IdInv, Known, listVars
<1>5. ArchInv'
  BY <1>1, SizesAssumption DEF ArchInv, KeepsTheNewest
<1>6. PageInv'
  BY <1>1, PagesKept
<1> QED
  BY <1>2, <1>3, <1>4, <1>5, <1>6 DEF BrowseInv

-----------------------------------------------------------------------------
LEMMA StartBrowsingKeeps == ASSUME BrowseInv, StartBrowsing PROVE BrowseInv'
<1> USE DEF StartBrowsing, Count, editorVars
<1>1. Cardinality(arch) \in Nat
  BY FS_CardinalityType DEF BrowseInv, ArchInv
<1>2. TypeOK'
  BY <1>1 DEF BrowseInv, TypeOK
<1>3. StampInv' /\ ArchInv'
  BY DEF BrowseInv, StampInv, ArchInv, KeepsTheNewest
<1>4. IdInv'
  BY DEF BrowseInv, IdInv, Known, ArchInv, KeepsTheNewest
<1>5. PageInv'
  <2>1. \A s \in arch : Rank(arch, s) >= 0
    BY RankType, FS_CardinalityType DEF BrowseInv, TypeOK, ArchInv
  <2>2. Ahead(0)'
    BY <2>1 DEF Ahead, Rank
  <2>3. (page' - 1) * PerPage = 0 /\ phase' # "listed"
    BY SizesAssumption
  <2> QED
    BY <2>2, <2>3 DEF PageInv
<1> QED
  BY <1>2, <1>3, <1>4, <1>5 DEF BrowseInv

(* A row that page n does not show and no earlier page could show is on a
   later one. *)
LEMMA Paged ==
    ASSUME NEW d \in Nat \ {0}, NEW n \in Nat \ {0}, NEW r \in Nat,
           r >= (n - 1) * d, r \div d # n - 1
    PROVE  r >= n * d
<1> SUFFICES ASSUME r < n * d PROVE FALSE
  OBVIOUS
<1>1. n * d = (n - 1) * d + d
  OBVIOUS
<1> DEFINE p == (n - 1) * d
           i == r - p
<1>2. p \in Nat /\ i \in 0..(d - 1)
  BY <1>1
<1>3. r = (n - 1) * d + i
  BY <1>2
<1>4. r \div d = n - 1
  BY <1>2, <1>3
<1> QED
  BY <1>4

LEMMA ReadPageKeeps == ASSUME BrowseInv, ReadPage PROVE BrowseInv'
<1> USE DEF ReadPage
<1>1. rows' \subseteq arch
  BY DEF Listed
<1>2. TypeOK'
  BY <1>1 DEF BrowseInv, TypeOK, editorVars, fetchVars
<1>3. StampInv' /\ ArchInv'
  BY DEF BrowseInv, StampInv, ArchInv, KeepsTheNewest, editorVars
<1>4. IdInv'
  BY <1>1 DEF BrowseInv, IdInv, Known, ArchInv, KeepsTheNewest, editorVars
<1>5. PageInv'
  <2>1. Ahead((page - 1) * PerPage)
    BY DEF BrowseInv, PageInv
  <2>2. ASSUME NEW s \in first \cap arch, s \notin seen, s \notin Listed(page)
        PROVE  Rank(arch, s) >= page * PerPage
    <3>1. Rank(arch, s) >= (page - 1) * PerPage
      BY <2>1, <2>2 DEF Ahead
    <3>2. Rank(arch, s) \in Nat
      BY RankType, FS_CardinalityType DEF BrowseInv, TypeOK, ArchInv
    <3>3. Rank(arch, s) \div PerPage # page - 1
      BY <2>2 DEF Listed
    <3> QED
      BY <3>1, <3>2, <3>3, Paged, SizesAssumption DEF BrowseInv, TypeOK
  <2>3. /\ seen' = seen \cup Listed(page) /\ phase' = "listed"
        /\ page' = page /\ first' = first /\ arch' = arch
    BY DEF editorVars
  <2>4. \A s \in first' \cap arch' : s \in seen' \/ Rank(arch', s) >= page' * PerPage
    BY <2>2, <2>3
  <2> QED
    BY <2>3, <2>4 DEF PageInv, Ahead
<1> QED
  BY <1>2, <1>3, <1>4, <1>5 DEF BrowseInv

LEMMA NextPageKeeps == ASSUME BrowseInv, NextPage PROVE BrowseInv'
<1> USE DEF NextPage, Count, editorVars
<1>1. Cardinality(arch) \in Nat
  BY FS_CardinalityType DEF BrowseInv, ArchInv
<1>2. TypeOK'
  BY <1>1 DEF BrowseInv, TypeOK
<1>3. StampInv' /\ ArchInv'
  BY DEF BrowseInv, StampInv, ArchInv, KeepsTheNewest
<1>4. IdInv'
  BY DEF BrowseInv, IdInv, Known
<1>5. PageInv'
  <2>1. Ahead(page * PerPage)
    BY DEF BrowseInv, PageInv
  <2>2. (page' - 1) * PerPage = page * PerPage /\ phase' # "listed"
    BY DEF BrowseInv, TypeOK
  <2> QED
    BY <2>1, <2>2 DEF PageInv, Ahead, Rank
<1> QED
  BY <1>2, <1>3, <1>4, <1>5 DEF BrowseInv

LEMMA GetRevisionKeeps ==
    ASSUME BrowseInv, NEW s \in rows, NEW pinned \in BOOLEAN, GetRevision(s, pinned)
    PROVE  BrowseInv'
<1> USE DEF GetRevision, editorVars, listVars
<1> DEFINE M == Matching(s, pinned)
<1>1. got' \in Snapshot \cup {Nobody}
  <2>1. M \subseteq arch /\ arch \subseteq Snapshot /\ IsFiniteSet(M)
    BY FS_Subset DEF Matching, BrowseInv, TypeOK, ArchInv
  <2>2. \A t, u \in M : t.at = u.at => t = u
    BY <2>1 DEF BrowseInv, StampInv, ArchInv, KeepsTheNewest
  <2>3. got' = IF M = {} THEN Nobody ELSE CHOOSE t \in M : Rank(M, t) = 0
    OBVIOUS
  <2> HIDE DEF M
  <2>4. M # {} => \E t \in M : Rank(M, t) = 0
    BY <2>1, <2>2, NewestExists
  <2> QED
    BY <2>1, <2>3, <2>4
<1>2. TypeOK'
  BY <1>1 DEF BrowseInv, TypeOK
<1>3. StampInv' /\ ArchInv' /\ IdInv'
  BY DEF BrowseInv, StampInv, ArchInv, KeepsTheNewest, IdInv, Known
<1>4. PageInv'
  BY DEF BrowseInv, PageInv, Ahead, Rank
<1> QED
  BY <1>2, <1>3, <1>4 DEF BrowseInv
-----------------------------------------------------------------------------
LEMMA BrowseStep == BrowseInv /\ [Next]_vars => BrowseInv'
<1> SUFFICES ASSUME BrowseInv, [Next]_vars PROVE BrowseInv'
  OBVIOUS
<1>1. ASSUME NEW e \in Editors, Begin(e) PROVE BrowseInv'
  BY <1>1, BeginKeeps
<1>2. ASSUME NEW e \in Editors, Archive(e) PROVE BrowseInv'
  BY <1>2, ArchiveKeeps
<1>3. CASE Wipe
  BY <1>3, WipeKeeps
<1>4. CASE StartBrowsing
  BY <1>4, StartBrowsingKeeps
<1>5. CASE ReadPage
  BY <1>5, ReadPageKeeps
<1>6. CASE NextPage
  BY <1>6, NextPageKeeps
<1>7. ASSUME NEW s \in rows, NEW pinned \in BOOLEAN, GetRevision(s, pinned)
      PROVE  BrowseInv'
  BY <1>7, GetRevisionKeeps
<1>8. CASE UNCHANGED vars
  BY <1>8 DEF vars, BrowseInv, TypeOK, StampInv, IdInv, Known, ArchInv, KeepsTheNewest,
              PageInv, Ahead, Rank
<1> QED
  BY <1>1, <1>2, <1>3, <1>4, <1>5, <1>6, <1>7, <1>8 DEF Next

THEOREM BrowseInvariant == Spec => []BrowseInv
<1> QED
  BY BrowseInit, BrowseStep, PTL DEF Spec

(* Every variable keeps its type; what the reader looks up is a snapshot or
   the answer 404. *)
THEOREM TypeCorrect == Spec => []TypeOK
<1>1. BrowseInv => TypeOK
  BY DEF BrowseInv
<1> QED
  BY <1>1, BrowseInvariant, PTL

(* Pruning by transaction keeps the newest snapshots
   (archive_utilities.py:124-140), however many editors wait for the row and
   however large the archive may be. *)
THEOREM NewestAreKept == Spec => []KeepsTheNewest
<1>1. BrowseInv => KeepsTheNewest
  BY DEF BrowseInv, ArchInv
<1> QED
  BY <1>1, BrowseInvariant, PTL

(* Whoever reads to the last page has seen every snapshot that stayed
   (archive.py:133-157), for every page size and every number of pages. *)
THEOREM NothingIsMissed == Spec => BrowsingMissesNothing
<1>1. BrowseInv /\ BrowseInv' /\ [Next]_vars
        => [ReadPage /\ LastPage /\ Cardinality(arch) <= total
               => first \cap arch \subseteq seen']_vars
  <2> SUFFICES ASSUME BrowseInv, BrowseInv', ReadPage, LastPage,
                      Cardinality(arch) <= total, NEW s \in first \cap arch,
                      s \notin seen'
               PROVE  FALSE
    OBVIOUS
  <2>1. phase' = "listed" /\ page' = page /\ first' = first /\ arch' = arch
    BY DEF ReadPage, editorVars
  <2>2. Rank(arch, s) >= page * PerPage
    BY <2>1 DEF BrowseInv, PageInv, Ahead
  <2>3. Rank(arch, s) < Cardinality(arch) /\ Cardinality(arch) \in Nat /\ Rank(arch, s) \in Nat
    BY RankType, FS_CardinalityType DEF BrowseInv, TypeOK, ArchInv
  <2>4. page * PerPage \in Nat /\ total \in Nat
    BY SizesAssumption DEF BrowseInv, TypeOK
  <2>5. total <= page * PerPage
    BY <2>4 DEF LastPage
  <2> DEFINE p == page * PerPage
  <2> HIDE DEF p
  <2>6. Rank(arch, s) >= p /\ total <= p /\ p \in Nat
    BY <2>2, <2>4, <2>5 DEF p
  <2> QED
    BY <2>3, <2>4, <2>6
<1> QED
  BY <1>1, BrowseInvariant, PTL DEF Spec, BrowsingMissesNothing

(* A lookup with ?snapshot_id is exact (archive.py:232-236): ids are handed out
   once, so nothing archived meanwhile can take the place of the snapshot. *)
THEOREM LookupsAreExact == Spec => LookupIsExact
<1>1. BrowseInv /\ [Next]_vars
        => [\A s \in rows : GetRevision(s, TRUE) => got' \in {s, Nobody}]_vars
  <2> SUFFICES ASSUME BrowseInv, NEW s \in rows, GetRevision(s, TRUE),
                      Matching(s, TRUE) # {}
               PROVE  got' = s
    BY DEF GetRevision
  <2>1. Matching(s, TRUE) = {s}
    BY DEF Matching, BrowseInv, IdInv, Known, ArchInv, KeepsTheNewest
  <2>2. {t \in {s} : t.at > s.at} = {}
    BY DEF BrowseInv, TypeOK, Snapshot
  <2>3. Rank({s}, s) = 0
    BY <2>2, FS_EmptySet DEF Rank
  <2> QED
    BY <2>1, <2>3 DEF GetRevision
<1> QED
  BY <1>1, BrowseInvariant, PTL DEF Spec, LookupIsExact
=============================================================================
