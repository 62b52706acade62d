-------------------------------- MODULE Backhaul -------------------------------
(***************************************************************************)
(* What a drone keeps for the base station while the links are bad: the    *)
(* archive of detections in SQLite and the task that uploads it            *)
(* (olympus_brain/detection_buffer.py), and the monitor that says which    *)
(* mode of communication the links allow (comms_monitor.py).               *)
(*                                                                         *)
(* A call of the archive and a pass of either loop run without suspending; *)
(* in the middle, where the archive has committed some of its statements   *)
(* and not others, the process may die, or a statement may fail: the       *)
(* archive logs the exception and drops it.  A statement that fails leaves *)
(* nothing of it behind (SQLite rolls it back).                            *)
(*                                                                         *)
(* What publishes is the callback the syncer is given, and it has no part  *)
(* in the monitor: it may return or raise whatever the links are.          *)
(***************************************************************************)
EXTENDS Naturals, FiniteSets

CONSTANTS
  Detections,  \* identifiers, numbered by their timestamps
  Unreadable,  \* those whose stored JSON does not validate any more
  MaxSize,     \* max_size of the archive
  Batch        \* batch_size of the syncer

Links == {"wifi", "elrs", "lora"}
Modes == {"full", "degraded", "minimal", "denied"}
None  == "none"

ASSUME BackhaulAssumption ==
  /\ Detections \subseteq Nat /\ IsFiniteSet(Detections)
  /\ Unreadable \subseteq Detections
  /\ MaxSize \in Nat \ {0} /\ Batch \in Nat \ {0}

VARIABLES
  rows,       \* rows of the table: those absent, and the column synced of the others
  delivered,  \* detections published since they were last buffered
  connected,  \* links that are connected
  mode,       \* CommsState.mode
  candidate,  \* _pending_mode
  count       \* _pending_count

archive == <<rows, delivered>>
monitor == <<connected, mode, candidate, count>>
vars    == <<archive, monitor>>

HysteresisCount == 3

TypeOK ==
  /\ rows \in [Detections -> {"absent", "unsynced", "synced"}]
  /\ delivered \subseteq Detections
  /\ connected \subseteq Links
  /\ mode \in Modes /\ candidate \in Modes \cup {None}
  /\ count \in 0..HysteresisCount - 1

\* The process dies: what the archive has committed is still there, the monitor
\* starts over.
Dies ==
  /\ connected' = {} /\ mode' = "full" /\ candidate' = None /\ count' = 0

\* A call of the archive ends early: with the process, or by an exception it swallows.
CutShort == Dies \/ UNCHANGED monitor

Init ==
  /\ rows = [d \in Detections |-> "absent"] /\ delivered = {}
  /\ connected = {} /\ mode = "full" /\ candidate = None /\ count = 0

-----------------------------------------------------------------------------
(* The archive *)

Stored(r)   == {d \in Detections : r[d] # "absent"}
Synced(r)   == {d \in Detections : r[d] = "synced"}
Unsynced(r) == {d \in Detections : r[d] = "unsynced"}
Without(r, gone) == [d \in Detections |-> IF d \in gone THEN "absent" ELSE r[d]]

\* The first n of a set in the order of time (ORDER BY timestamp ASC LIMIT n).
Oldest(S, n) == {d \in S : Cardinality({e \in S : e < d}) < n}

Inserted(d) == [rows EXCEPT ![d] = "unsynced"]

\* Mutant of Evicted: no difference is made between synced and unsynced rows.
EvictedByAge(r) ==
  Oldest(Stored(r), IF Cardinality(Stored(r)) > MaxSize
                    THEN Cardinality(Stored(r)) - MaxSize ELSE 0)

\* What buffer() deletes when the table is over its size: the oldest of the synced
\* rows, and only if they are not enough, the oldest of all.
Evicted(r) ==
  LET excess == IF Cardinality(Stored(r)) > MaxSize
                THEN Cardinality(Stored(r)) - MaxSize ELSE 0
      first  == Oldest(Synced(r), excess)
      second == Oldest(Stored(r) \ first, excess - Cardinality(first))
  IN  first \cup second

\* buffer: an identifier that is stored already is stored anew, as unsynced.
Buffer(d) ==
  /\ rows' = Without(Inserted(d), Evicted(Inserted(d)))
  /\ delivered' = delivered \ {d}
  /\ UNCHANGED monitor

\* It ends after the row is committed and before the surplus is.  (If it ends before
\* that, nothing has happened: the caller does not hear of it, and the detection was
\* never taken.)
BufferTorn(d) ==
  /\ rows' = Inserted(d)
  /\ delivered' = delivered \ {d}
  /\ CutShort

-----------------------------------------------------------------------------
(* The syncer *)

\* Mutant of Fetched: a row that cannot be read fails the query.
FetchedIfAllReadable ==
  LET batch == Oldest(Unsynced(rows), Batch)
  IN  IF batch \cap Unreadable = {} THEN batch ELSE {}

\* get_unsynced: rows that cannot be read are left out, but count for the batch.
Fetched == Oldest(Unsynced(rows), Batch) \ Unreadable

\* The detections are published in order up to the first that fails; none is where the
\* query fails.
Published ==
  {some \in SUBSET Fetched : \A d \in some, e \in Fetched : e < d => e \in some}

\* Mutant of Marked: the whole batch is marked, published or not.
MarkedAll(some) == [d \in Detections |-> IF d \in Fetched THEN "synced" ELSE rows[d]]

\* mark_synced
Marked(some) == [d \in Detections |-> IF d \in some THEN "synced" ELSE rows[d]]

\* One pass of DetectionSyncer.run that publishes `some`: it is marked, and all that
\* is marked is purged.
Sync(some) ==
  /\ Unsynced(rows) # {}
  /\ delivered' = delivered \cup some
  /\ rows' = Without(Marked(some), Synced(Marked(some)))
  /\ UNCHANGED monitor

\* Such a pass ends before it has marked anything or before it has purged anything, or
\* the marking fails and only what was marked earlier is purged.
SyncTorn(some) ==
  /\ Unsynced(rows) # {}
  /\ delivered' = delivered \cup some
  /\ rows' \in {rows, Marked(some), Without(rows, Synced(rows))}
  /\ CutShort

\* The process dies while neither is under way.
Crash == Dies /\ UNCHANGED archive

-----------------------------------------------------------------------------
(* The monitor *)

\* update_link, when a packet arrives
Receive(l) ==
  /\ connected' = connected \cup {l}
  /\ UNCHANGED <<archive, mode, candidate, count>>

MarkDisconnected(l) ==
  /\ connected' = connected \ {l}
  /\ UNCHANGED <<archive, mode, candidate, count>>

\* _evaluate_mode
ModeFor(up) ==
  CASE "wifi" \in up -> "full"
    [] "wifi" \notin up /\ "elrs" \in up -> "degraded"
    [] up = {"lora"} -> "minimal"
    [] up = {} -> "denied"

\* Mutant of Waits: the mode that is waited for is not remembered.
WaitsForAnything(target) == candidate' = None /\ count' = 1

\* One more check in a row that has found the same mode, or the first one.
Waits(target) ==
  /\ candidate' = target
  /\ count' = IF target = candidate THEN count + 1 ELSE 1

\* One pass of CommsMonitor.run, which finds that `silent` have timed out.
Check(silent) ==
  LET target == ModeFor(connected \ silent)
      third  == target = candidate /\ count + 1 = HysteresisCount
  IN
  /\ silent \subseteq connected
  /\ connected' = connected \ silent
  /\ \/ target # mode /\ ~third /\ Waits(target) /\ UNCHANGED mode
     \/ target # mode /\ third /\ mode' = target /\ candidate' = None /\ count' = 0
     \/ target = mode /\ candidate' = None /\ count' = 0 /\ UNCHANGED mode
  /\ UNCHANGED archive

-----------------------------------------------------------------------------
Next ==
  \/ \E d \in Detections : Buffer(d) \/ BufferTorn(d)
  \/ \E some \in Published : Sync(some) \/ SyncTorn(some)
  \/ Crash
  \/ \E l \in Links : Receive(l) \/ MarkDisconnected(l)
  \/ \E silent \in SUBSET Links : Check(silent)

Spec == Init /\ [][Next]_vars

\* Both loops go on, and a batch that is tried again and again gets through some time.
FairSpec ==
  /\ Spec
  /\ SF_vars(Fetched # {} /\ Sync(Fetched))
  /\ WF_vars(Check({}))

-----------------------------------------------------------------------------
(* Properties *)

Abstract == INSTANCE StoreAndForward
  WITH Items <- Detections, Capacity <- MaxSize, held <- Stored(rows)

\* The archive delivers what it takes at least once, unless it is full: the process
\* may die anywhere, and the syncer deletes what it has published and nothing else.
AtLeastOnce == Abstract!Spec

\* An unsynced row gives way only when no synced row is left (buffer(): "Evict synced
\* records FIRST").
SyncedGiveWayFirst ==
  [][\A d \in Unsynced(rows) :
       rows'[d] = "absent" /\ d \notin delivered' => Synced(rows') = {}]_vars

\* A detection that can be read is delivered or gives way, whatever the process was
\* doing when it died and however small a batch is, if rows that cannot be read do not
\* fill one and no older detection goes on coming in.
DeliveredInTheEnd ==
  \A d \in Detections \ Unreadable :
    /\ Cardinality(Unreadable) < Batch
    /\ <>[][\A e \in Detections : e < d /\ rows[e] # "unsynced" => rows'[e] # "unsynced"]_vars
    => (rows[d] = "unsynced" ~> (d \in delivered \/ rows[d] = "absent"))

\* Once the links stay as they are and the process lives, the monitor says what they
\* allow, however it came to where it was.
ModeSettles ==
  \A up \in SUBSET Links :
    <>[](connected = up) /\ <>[][~Dies]_vars => <>[](mode = ModeFor(up))
================================================================================
