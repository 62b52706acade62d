------------------------------ MODULE BackhaulProofs ----------------------------
(***************************************************************************)
(* Theorems about Backhaul, for every finite set of detections, every size *)
(* of the archive and of a batch: the archive implements StoreAndForward,  *)
(* and synced rows give way first.                                         *)
(*                                                                         *)
(* The invariant the refinement rests on is that a row marked as synced    *)
(* has been published, though the process may die between the two: what    *)
(* purge_synced deletes, StoreAndForward may forget.                       *)
(***************************************************************************)
EXTENDS Backhaul, FiniteSetTheorems, WellFoundedInduction, TLAPS

-----------------------------------------------------------------------------
(* Oldest *)

LEMMA PartIsFinite ==
  ASSUME NEW S, S \subseteq Detections
  PROVE  IsFiniteSet(S) /\ Cardinality(S) \in Nat
BY BackhaulAssumption, FS_Subset, FS_CardinalityType

LEMMA OldestNone ==
  ASSUME NEW S, S \subseteq Detections
  PROVE  Oldest(S, 0) = {}
<1>1. ASSUME NEW d \in S  PROVE Cardinality({e \in S : e < d}) \in Nat
  BY PartIsFinite
<1> QED
  BY <1>1 DEF Oldest

LEMMA OldestIsPart ==
  ASSUME NEW S, NEW n  PROVE Oldest(S, n) \subseteq S
BY DEF Oldest

LEMMA LeastExists ==
  ASSUME NEW T, T \subseteq Nat, T # {}
  PROVE  \E e \in T : \A f \in T : ~(f < e)
<1>1. IsWellFoundedOn(OpToRel(<, Nat), Nat)
  BY NatLessThanWellFounded
<1>2. \E e \in T : \A f \in T : ~(<<f, e>> \in OpToRel(<, Nat))
  BY <1>1, WFMin
<1> QED
  BY <1>2 DEF OpToRel

\* The first n are all there are, or they are n.
LEMMA OldestShortIsAll ==
  ASSUME NEW S, S \subseteq Detections, NEW n \in Nat, Cardinality(Oldest(S, n)) < n
  PROVE  Oldest(S, n) = S
<1> DEFINE T == S \ Oldest(S, n)
<1> SUFFICES ASSUME T # {}  PROVE FALSE
  BY OldestIsPart
<1>0. T \subseteq Nat /\ S \subseteq Nat
  BY BackhaulAssumption
<1>1. PICK e \in T : \A f \in T : ~(f < e)
  <2> HIDE DEF T
  <2> QED BY <1>0, LeastExists
<1> DEFINE B == {f \in S : f < e}
<1>2. B \subseteq Oldest(S, n)
  BY <1>1
<1>3. /\ IsFiniteSet(Oldest(S, n)) /\ Cardinality(Oldest(S, n)) \in Nat
      /\ Cardinality(B) \in Nat
  BY PartIsFinite, OldestIsPart
<1>4. Cardinality(B) <= Cardinality(Oldest(S, n))
  BY <1>2, <1>3, FS_Subset
<1>5. Cardinality(B) < n
  BY <1>3, <1>4
<1>6. e \in Oldest(S, n)
  BY <1>5 DEF Oldest
<1> QED
  BY <1>6

-----------------------------------------------------------------------------
(* What the archive gives up *)

LEMMA StoredParts ==
  ASSUME NEW r
  PROVE  Stored(r) \subseteq Detections /\ Synced(r) \subseteq Stored(r)
BY DEF Stored, Synced

\* Nothing is given up unless there is too much.
LEMMA EvictedOnlyIfOver ==
  ASSUME NEW r, Evicted(r) # {}
  PROVE  Cardinality(Stored(r)) > MaxSize
<1> SUFFICES ASSUME ~(Cardinality(Stored(r)) > MaxSize)  PROVE Evicted(r) = {}
  OBVIOUS
<1>1. Oldest(Synced(r), 0) = {}
  BY OldestNone, StoredParts
<1>2. Cardinality({}) = 0
  BY FS_EmptySet
<1>3. Oldest(Stored(r) \ {}, 0 - 0) = {}
  BY OldestNone, StoredParts
<1> QED
  BY <1>1, <1>2, <1>3 DEF Evicted

\* A row that is not synced is given up only with all the synced ones.
LEMMA SyncedFirst ==
  ASSUME NEW r, NEW d \in Evicted(r), r[d] = "unsynced"
  PROVE  Synced(r) \subseteq Evicted(r)
<1> DEFINE excess == IF Cardinality(Stored(r)) > MaxSize
                     THEN Cardinality(Stored(r)) - MaxSize ELSE 0
           first  == Oldest(Synced(r), excess)
           second == Oldest(Stored(r) \ first, excess - Cardinality(first))
<1>1. Evicted(r) = first \cup second
  BY DEF Evicted
<1>2. excess \in Nat
  BY PartIsFinite, StoredParts, BackhaulAssumption
<1>3. /\ first \subseteq Synced(r) /\ first \subseteq Detections
      /\ Cardinality(first) \in Nat
  BY OldestIsPart, StoredParts, PartIsFinite
<1>4. d \in second
  BY <1>1, <1>3 DEF Synced
<1>5. Cardinality(first) < excess
  <2> DEFINE R == Stored(r) \ first
             B == {e \in R : e < d}
             n == excess - Cardinality(first)
  <2>1. Cardinality(B) < n
    BY <1>4 DEF Oldest
  <2>2. Cardinality(B) \in Nat
    BY PartIsFinite, StoredParts
  <2> HIDE DEF B, excess, first
  <2> QED BY <2>1, <2>2, <1>2, <1>3
<1>6. first = Synced(r)
  <2> HIDE DEF excess
  <2> QED BY <1>2, <1>5, OldestShortIsAll, StoredParts
<1> QED
  BY <1>1, <1>6

-----------------------------------------------------------------------------
(* Types and the invariant *)

\* What is marked has been published.
MarkedIsDelivered == Synced(rows) \subseteq delivered

IInv == TypeOK /\ MarkedIsDelivered

Status == {"absent", "unsynced", "synced"}

LEMMA InsertedType ==
  ASSUME TypeOK, NEW d \in Detections
  PROVE  /\ Inserted(d) \in [Detections -> Status]
         /\ \A e \in Detections : Inserted(d)[e] = IF e = d THEN "unsynced" ELSE rows[e]
BY DEF Inserted, TypeOK, Status

LEMMA PublishedIsFetched ==
  ASSUME NEW some \in Published
  PROVE  some \subseteq Unsynced(rows) /\ some \subseteq Detections
BY DEF Published, Fetched, Oldest, Unsynced

\* The monitor starts over or goes on.
LEMMA CutShortTyped ==
  ASSUME TypeOK, CutShort
  PROVE  /\ connected' \subseteq Links /\ mode' \in Modes
         /\ candidate' \in Modes \cup {None} /\ count' \in 0..HysteresisCount - 1
BY DEF CutShort, Dies, TypeOK, monitor, Modes, None, HysteresisCount

LEMMA InitIInv == Init => IInv
BY BackhaulAssumption DEF Init, IInv, TypeOK, MarkedIsDelivered, Synced, Modes, None, HysteresisCount

LEMMA NextIInv == IInv /\ [Next]_vars => IInv'
<1> SUFFICES ASSUME IInv, [Next]_vars  PROVE IInv'
  OBVIOUS
<1> USE BackhaulAssumption DEF IInv
<1>1. ASSUME NEW d \in Detections, Buffer(d)  PROVE IInv'
  <2>1. rows' \in [Detections -> Status]
    BY <1>1, InsertedType DEF Buffer, Without, Status
  <2>2. Synced(rows') \subseteq Synced(rows) \ {d}
    BY <1>1, InsertedType DEF Buffer, Without, Synced
  <2> QED
    BY <1>1, <2>1, <2>2 DEF Buffer, TypeOK, MarkedIsDelivered, monitor, Status
<1>2. ASSUME NEW d \in Detections, BufferTorn(d)  PROVE IInv'
  <2>1. Synced(rows') \subseteq Synced(rows) \ {d}
    BY <1>2, InsertedType DEF BufferTorn, Synced
  <2>2. rows' \in [Detections -> Status]
    BY <1>2, InsertedType DEF BufferTorn
  <2> QED
    BY <1>2, <2>1, <2>2, CutShortTyped DEF BufferTorn, TypeOK, MarkedIsDelivered, Status
<1>3. ASSUME NEW some \in Published, Sync(some)  PROVE IInv'
  <2>1. rows' \in [Detections -> Status]
    BY <1>3 DEF Sync, Without, Marked, TypeOK, Status
  <2>2. Synced(rows') = {}
    BY <1>3 DEF Sync, Without, Marked, Synced
  <2> QED
    BY <1>3, <2>1, <2>2, PublishedIsFetched
    DEF Sync, TypeOK, MarkedIsDelivered, monitor, Status
<1>4. ASSUME NEW some \in Published, SyncTorn(some)  PROVE IInv'
  <2>1. rows' \in [Detections -> Status]
    BY <1>4 DEF SyncTorn, Marked, Without, TypeOK, Status
  <2>2. Synced(rows') \subseteq Synced(rows) \cup some
    BY <1>4 DEF SyncTorn, Marked, Without, Synced
  <2> QED
    BY <1>4, <2>1, <2>2, PublishedIsFetched, CutShortTyped
    DEF SyncTorn, TypeOK, MarkedIsDelivered, Status
<1>5. ASSUME NEW l \in Links, Receive(l) \/ MarkDisconnected(l)  PROVE IInv'
  BY <1>5 DEF Receive, MarkDisconnected, TypeOK, MarkedIsDelivered, archive, Synced
<1>6. ASSUME NEW silent \in SUBSET Links, Check(silent)  PROVE IInv'
  <2> DEFINE target == ModeFor(connected \ silent)
  <2>1. target \in Modes
    BY DEF ModeFor, Modes, Links, TypeOK
  <2>2. mode' \in Modes /\ candidate' \in Modes \cup {None} /\ count' \in 0..HysteresisCount - 1
    <3> HIDE DEF target
    <3> QED BY <1>6, <2>1 DEF Check, target, Waits, TypeOK, HysteresisCount
  <2> QED
    BY <1>6, <2>2 DEF Check, TypeOK, MarkedIsDelivered, archive, Synced
<1>7. CASE Crash
  BY <1>7, CutShortTyped DEF Crash, CutShort, archive, TypeOK, MarkedIsDelivered, Synced
<1>8. CASE UNCHANGED vars
  BY <1>8 DEF vars, archive, monitor, TypeOK, MarkedIsDelivered, Synced
<1> QED
  BY <1>1, <1>2, <1>3, <1>4, <1>5, <1>6, <1>7, <1>8 DEF Next

LEMMA Invariance == Spec => []IInv
<1> QED
  BY InitIInv, NextIInv, PTL DEF Spec

\* Every reachable state is well typed: the count of the monitor stays below three.
THEOREM TypeCorrect == Spec => []TypeOK
<1>1. IInv => TypeOK
  BY DEF IInv
<1> QED
  BY <1>1, Invariance, PTL

-----------------------------------------------------------------------------
(* The refinement *)

\* The two modules count alike.
LEMMA SameCardinality ==
  ASSUME NEW S  PROVE Abstract!Cardinality(S) = Cardinality(S)
BY DEF Abstract!Cardinality, Cardinality, Abstract!IsFiniteSet, IsFiniteSet

LEMMA InitRefines == Init => Abstract!Init
BY DEF Init, Abstract!Init, Stored

\* A row that is buffered is taken; what gives way does so because there is too much.
LEMMA BufferTakes ==
  ASSUME IInv, NEW d \in Detections, Buffer(d) \/ BufferTorn(d)
  PROVE  Abstract!Take(d)
<1>1. Stored(Inserted(d)) = Stored(rows) \cup {d}
  BY InsertedType DEF IInv, Stored, TypeOK
<1>2. delivered' = delivered \ {d}
  BY DEF Buffer, BufferTorn
<1>3. CASE Buffer(d)
  <2> DEFINE lost == Evicted(Inserted(d))
  <2>1. Stored(rows') = Stored(Inserted(d)) \ lost
    BY <1>3, InsertedType DEF Buffer, Without, Stored
  <2>2. lost \subseteq Stored(Inserted(d))
    BY OldestIsPart, StoredParts DEF Evicted
  <2>3. lost # {} => Cardinality(Stored(Inserted(d))) > MaxSize
    BY EvictedOnlyIfOver
  <2> HIDE DEF lost
  <2>4. /\ lost \in SUBSET (Stored(rows) \cup {d})
        /\ lost # {} => Cardinality(Stored(rows) \cup {d}) > MaxSize
        /\ Stored(rows') = (Stored(rows) \cup {d}) \ lost
    BY <1>1, <2>1, <2>2, <2>3
  <2>5. \E l \in SUBSET (Stored(rows) \cup {d}) :
          /\ l # {} => Cardinality(Stored(rows) \cup {d}) > MaxSize
          /\ Stored(rows') = (Stored(rows) \cup {d}) \ l
    BY <2>4
  <2> QED BY <1>2, <2>5, SameCardinality DEF Abstract!Take
<1>4. CASE BufferTorn(d)
  <2>1. Stored(rows') = (Stored(rows) \cup {d}) \ {}
    BY <1>1, <1>4 DEF BufferTorn
  <2> QED BY <1>2, <2>1 DEF Abstract!Take
<1> QED
  BY <1>3, <1>4

\* A pass of the syncer delivers what it publishes, and forgets only what is marked.
LEMMA SyncForwards ==
  ASSUME IInv, NEW some \in Published, Sync(some)
  PROVE  Abstract!Forward
<1>1. some \subseteq Stored(rows)
  BY PublishedIsFetched DEF Stored, Unsynced
<1> DEFINE done == Synced(Marked(some))
<1>2. done \subseteq Synced(rows) \cup some
  BY DEF Marked, Synced
<1>3. done \subseteq Stored(rows)
  BY <1>1, <1>2, StoredParts
<1>4. done \subseteq delivered'
  BY <1>2 DEF Sync, IInv, MarkedIsDelivered
<1>5. Stored(rows') = Stored(rows) \ done
  BY <1>1 DEF Sync, Without, Marked, Stored, Synced
<1> HIDE DEF done
<1> QED
  BY <1>1, <1>3, <1>4, <1>5 DEF Sync, Abstract!Forward

\* A pass that ends early has delivered what it published, and has forgotten nothing
\* but what was marked before.
LEMMA TornSyncForwards ==
  ASSUME IInv, NEW some \in Published, SyncTorn(some)
  PROVE  Abstract!Forward
<1>1. some \subseteq Stored(rows)
  BY PublishedIsFetched DEF Stored, Unsynced
<1>2. Synced(rows) \subseteq Stored(rows) /\ Synced(rows) \subseteq delivered'
  BY StoredParts DEF SyncTorn, IInv, MarkedIsDelivered
<1>3. \/ Stored(rows') = Stored(rows) \ {}
      \/ Stored(rows') = Stored(rows) \ Synced(rows)
  <2>1. Stored(Marked(some)) = Stored(rows)
    BY <1>1 DEF Marked, Stored
  <2>2. Stored(Without(rows, Synced(rows))) = Stored(rows) \ Synced(rows)
    BY DEF Without, Stored, Synced
  <2> QED BY <2>1, <2>2 DEF SyncTorn
<1>4. \E done \in SUBSET Stored(rows) :
        done \subseteq delivered' /\ Stored(rows') = Stored(rows) \ done
  BY <1>2, <1>3
<1> QED
  BY <1>1, <1>4 DEF SyncTorn, Abstract!Forward

LEMMA NextRefines == IInv /\ [Next]_vars => [Abstract!Next]_(Abstract!vars)
<1> SUFFICES ASSUME IInv, [Next]_vars  PROVE [Abstract!Next]_(Abstract!vars)
  OBVIOUS
<1>1. ASSUME NEW d \in Detections, Buffer(d) \/ BufferTorn(d)  PROVE Abstract!Next
  BY <1>1, BufferTakes DEF Abstract!Next
<1>2. ASSUME NEW some \in Published, Sync(some) \/ SyncTorn(some)
      PROVE  Abstract!Next
  BY <1>2, SyncForwards, TornSyncForwards DEF Abstract!Next
<1>3. ASSUME archive' = archive  PROVE UNCHANGED Abstract!vars
  BY <1>3 DEF archive, Abstract!vars
<1>4. ASSUME NEW l \in Links, Receive(l) \/ MarkDisconnected(l)  PROVE archive' = archive
  BY <1>4 DEF Receive, MarkDisconnected
<1>5. ASSUME NEW silent \in SUBSET Links, Check(silent)  PROVE archive' = archive
  BY <1>5 DEF Check
<1>6. CASE Crash \/ UNCHANGED vars
  BY <1>3, <1>6 DEF Crash, vars
<1> QED
  BY <1>1, <1>2, <1>3, <1>4, <1>5, <1>6 DEF Next

\* Whatever dies in the midst of a call: the archive delivers every detection it takes
\* at least once, unless it is full (DetectionBuffer, DetectionSyncer.run).
THEOREM ArchiveRefinesStore == Spec => AtLeastOnce
<1> QED
  BY InitRefines, NextRefines, Invariance, PTL DEF Spec, AtLeastOnce, Abstract!Spec

-----------------------------------------------------------------------------
(* Synced rows give way first *)

GiveWay ==
  \A d \in Unsynced(rows) :
    rows'[d] = "absent" /\ d \notin delivered' => Synced(rows') = {}

LEMMA StepGivesWay == IInv /\ [Next]_vars => GiveWay
<1> SUFFICES ASSUME IInv, [Next]_vars, NEW d \in Unsynced(rows),
                    rows'[d] = "absent", d \notin delivered'
             PROVE  Synced(rows') = {}
  BY DEF GiveWay
<1>0. d \in Detections /\ rows[d] = "unsynced"
  BY DEF Unsynced
<1>1. ASSUME NEW x \in Detections, Buffer(x)  PROVE Synced(rows') = {}
  <2>1. Inserted(x)[d] = "unsynced"
    BY <1>0, InsertedType DEF IInv
  <2>2. d \in Evicted(Inserted(x))
    BY <1>0, <1>1, <2>1 DEF Buffer, Without
  <2>3. Synced(Inserted(x)) \subseteq Evicted(Inserted(x))
    BY <2>1, <2>2, SyncedFirst
  <2> QED
    BY <1>1, <2>3 DEF Buffer, Without, Synced
<1>2. ASSUME NEW x \in Detections, BufferTorn(x)  PROVE FALSE
  BY <1>0, <1>2, InsertedType DEF BufferTorn, IInv
<1>3. ASSUME NEW some \in Published, Sync(some)  PROVE Synced(rows') = {}
  BY <1>3 DEF Sync, Without, Marked, Synced
<1>4. ASSUME NEW some \in Published, SyncTorn(some)  PROVE FALSE
  BY <1>0, <1>4 DEF SyncTorn, Marked, Without, Synced, Published, Fetched
<1>5. ASSUME rows' = rows  PROVE FALSE
  BY <1>0, <1>5
<1> QED
  BY <1>1, <1>2, <1>3, <1>4, <1>5
  DEF Next, Receive, MarkDisconnected, Check, Crash, archive, vars

\* A full archive gives up what has not been published only when nothing is left that
\* has (buffer(): "Evict synced records FIRST").
THEOREM UnsyncedGiveWayLast == Spec => SyncedGiveWayFirst
<1>1. IInv /\ [Next]_vars => [GiveWay]_vars
  BY StepGivesWay
<1> QED
  BY <1>1, Invariance, PTL DEF Spec, SyncedGiveWayFirst, GiveWay
================================================================================
