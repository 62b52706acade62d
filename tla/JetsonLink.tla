------------------------------ MODULE JetsonLink ------------------------------
(***************************************************************************)
(* The JSON data link between a module and its Jetson: the link thread of  *)
(* coap_server/src/jetson_link.c and the reader jetson_agent/nrf_link.py.  *)
(*                                                                         *)
(* The thread samples DTR (the host has the port open) and sees no edge    *)
(* between two samples.  A line is a manifest, a sample or broken.  The    *)
(* module's transmit ring outlives a session; what the host had already    *)
(* fetched when it closes is lost.                                         *)
(***************************************************************************)
EXTENDS Naturals, Sequences

CONSTANTS
  RingLines,   \* lines the transmit ring holds
  MaxAttempts, \* HS_MAX_ATTEMPTS
  MaxAcks,     \* bound: acks on their way to the module
  QuickReopen, \* the host may reopen the port before the module has seen it closed
  SlowHost     \* the host may take longer than HS_ACK_TIMEOUT_MS to answer

ASSUME LinkAssumption ==
  /\ RingLines \in Nat \ {0} /\ MaxAttempts \in Nat \ {0} /\ MaxAcks \in Nat \ {0}
  /\ QuickReopen \in BOOLEAN /\ SlowHost \in BOOLEAN

VARIABLES
  dtr,      \* the host has the port open
  known,    \* the host has read a manifest in this session
  phase,    \* where the link thread is
  prev,     \* prev_dtr
  attempt,  \* the handshake's attempt
  ack,      \* ack_sem
  toHost,   \* tx_rb: lines not fetched by the host
  torn,     \* the last of them has lost its newline
  toModule  \* acks on their way

host   == <<dtr, known>>
module == <<phase, prev, attempt, ack>>
wires  == <<toHost, torn, toModule>>
vars   == <<host, module, wires>>

Lines  == {"manifest", "data", "broken"}
Phases == {"poll", "announce", "await", "backoff", "stream", "period", "resample"}

TypeOK ==
  /\ dtr \in BOOLEAN /\ known \in BOOLEAN /\ prev \in BOOLEAN
  /\ phase \in Phases
  /\ attempt \in 0 .. MaxAttempts
  /\ ack \in 0 .. 1
  /\ toHost \in Seq(Lines) /\ Len(toHost) <= RingLines + 1
  /\ torn \in BOOLEAN
  /\ toModule \in 0 .. MaxAcks

Init ==
  /\ dtr = FALSE /\ known = FALSE
  /\ phase = "poll" /\ prev = FALSE /\ attempt = 0 /\ ack = 0
  /\ toHost = <<>> /\ torn = FALSE /\ toModule = 0

-----------------------------------------------------------------------------
(* The module *)

\* emit_line: a line that does not fit is cut and may lose its newline; the next
\* one is then read as part of it.
Emit(line) ==
  \/ /\ Len(toHost) < RingLines /\ ~torn
     /\ toHost' = Append(toHost, line) /\ UNCHANGED torn
  \/ /\ Len(toHost) < RingLines /\ torn
     /\ torn' = FALSE /\ UNCHANGED toHost
  \/ /\ Len(toHost) >= RingLines
     /\ \/ UNCHANGED <<toHost, torn>>
        \/ /\ Len(toHost) = RingLines /\ ~torn
           /\ toHost' = Append(toHost, "broken")
           /\ torn' \in BOOLEAN

Poll ==
  /\ phase = "poll"
  /\ \/ dtr /\ ~prev /\ phase' = "announce" /\ attempt' = 1 /\ UNCHANGED prev
     \/ ~(dtr /\ ~prev) /\ prev' = dtr /\ UNCHANGED <<phase, attempt>>
  /\ UNCHANGED <<host, ack, wires>>

\* Mutant of Announce: the semaphore is not reset.
AnnounceKeepingAck ==
  /\ phase = "announce"
  /\ \/ dtr /\ Emit("manifest") /\ phase' = "await" /\ UNCHANGED ack
     \/ ~dtr /\ phase' = "resample" /\ UNCHANGED <<ack, toHost, torn>>
  /\ UNCHANGED <<host, prev, attempt, toModule>>

Announce ==
  /\ phase = "announce"
  /\ \/ dtr /\ ack' = 0 /\ Emit("manifest") /\ phase' = "await"
     \/ ~dtr /\ phase' = "resample" /\ UNCHANGED <<ack, toHost, torn>>
  /\ UNCHANGED <<host, prev, attempt, toModule>>

Acked ==
  /\ phase = "await" /\ ack = 1
  /\ ack' = 0 /\ phase' = "stream"
  /\ UNCHANGED <<host, prev, attempt, wires>>

\* A host that answers within the time limit has read every line before.
Answering == toHost # <<>> \/ toModule > 0

AckTimeout ==
  /\ phase = "await" /\ ack = 0
  /\ SlowHost \/ ~dtr \/ ~Answering
  /\ phase' = "backoff"
  /\ UNCHANGED <<host, prev, attempt, ack, wires>>

\* Mutant of BackedOff: one attempt and no more.
BackedOffOnce ==
  /\ phase = "backoff"
  /\ phase' = "resample" /\ UNCHANGED attempt
  /\ UNCHANGED <<host, prev, ack, wires>>

BackedOff ==
  /\ phase = "backoff"
  /\ \/ dtr /\ attempt < MaxAttempts /\ attempt' = attempt + 1 /\ phase' = "announce"
     \/ (~dtr \/ attempt = MaxAttempts) /\ phase' = "resample" /\ UNCHANGED attempt
  /\ UNCHANGED <<host, prev, ack, wires>>

Stream ==
  /\ phase = "stream"
  /\ \/ dtr /\ phase' = "period" /\ Emit("data")
     \/ ~dtr /\ phase' = "resample" /\ UNCHANGED <<toHost, torn>>
  /\ UNCHANGED <<host, prev, attempt, ack, toModule>>

Period ==
  /\ phase = "period"
  /\ phase' = IF dtr THEN "stream" ELSE "resample"
  /\ UNCHANGED <<host, prev, attempt, ack, wires>>

Resample ==
  /\ phase = "resample"
  /\ prev' = dtr /\ attempt' = 0 /\ phase' = "poll"
  /\ UNCHANGED <<host, ack, wires>>

\* rx_on_byte, in the interrupt.
ReceiveAck ==
  /\ toModule > 0
  /\ toModule' = toModule - 1 /\ ack' = 1
  /\ UNCHANGED <<host, phase, prev, attempt, toHost, torn>>

Thread == Poll \/ Announce \/ Acked \/ AckTimeout \/ BackedOff \/ Stream \/ Period \/ Resample

-----------------------------------------------------------------------------
(* The host *)

\* The reconnect delay of two seconds is longer than the module stays in any
\* phase in which it does not sample DTR.
Unseen == dtr \/ phase # "poll" \/ prev

Open ==
  /\ ~dtr
  /\ QuickReopen \/ ~Unseen
  /\ dtr' = TRUE /\ known' = FALSE
  /\ UNCHANGED <<module, wires>>

\* A line that lacks its newline is read alone when readline times out.
TornAfterRead == torn /\ Len(toHost) > 1

Read ==
  /\ dtr /\ toHost # <<>>
  /\ toHost' = Tail(toHost) /\ torn' = TornAfterRead
  /\ \/ /\ Head(toHost) = "manifest" /\ toModule < MaxAcks
        /\ known' = TRUE /\ toModule' = toModule + 1
     \/ /\ Head(toHost) # "manifest"
        /\ UNCHANGED <<known, toModule>>
  /\ UNCHANGED <<dtr, module>>

\* What stays in the ring when the host closes: the lines it has not fetched,
\* the first of them perhaps in part.
Unfetched ==
  {SubSeq(toHost, n + 1, Len(toHost)) : n \in 0 .. Len(toHost)}
    \cup {<<"broken">> \o SubSeq(toHost, n + 1, Len(toHost)) : n \in 1 .. Len(toHost)}

\* The session ends: stop(), or an exception that run() catches.
Close ==
  /\ dtr
  /\ dtr' = FALSE /\ known' = FALSE
  /\ toHost' \in Unfetched
  /\ torn' = (torn /\ toHost' # <<>>)
  /\ toModule' \in IF QuickReopen THEN {0, toModule} ELSE {0}
  /\ UNCHANGED module

-----------------------------------------------------------------------------
Next == Thread \/ ReceiveAck \/ Open \/ Read \/ Close

Spec == Init /\ [][Next]_vars

\* The link thread, the interrupt and the host's read loop run; the host opens
\* the port again after every session.
FairSpec == Spec /\ WF_vars(Thread) /\ WF_vars(ReceiveAck) /\ WF_vars(Read) /\ WF_vars(Open)

-----------------------------------------------------------------------------
(* Properties *)

\* While the module streams, the host at the other end has read the manifest in
\* its present session ("Emitted when the host opens the port (CDC-ACM DTR
\* asserted) and re-emitted on every reconnect", protocol.h).
StreamsToTheAnnounced ==
  phase \in {"stream", "period"} /\ dtr => known

\* A host that keeps the port open is streamed to in the end (handshake: retry
\* with timeout and backoff; link_thread_fn: on a fresh DTR re-announce).
StreamsInTheEnd ==
  <>[]dtr => <>[](phase \in {"stream", "period"})
===============================================================================
