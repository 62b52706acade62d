---------------------------- MODULE CompanionProofs ----------------------------
(***************************************************************************)
(* Theorems about what reaches a companion computer.  JetsonLink: the data *)
(* link of one module, for every ring size and every number of attempts.   *)
(* CommandChain: an operator's command, for every set of orders, every     *)
(* sequence of reports and every bound.                                    *)
(***************************************************************************)
EXTENDS JetsonLink, CommandChain, WellFoundedInduction, TLAPS

-----------------------------------------------------------------------------
(* The data link: types.                                                   *)

LEMMA EmitTypes ==
  ASSUME TypeOK, NEW x \in Lines, Emit(x)
  PROVE  toHost' \in Seq(Lines) /\ Len(toHost') <= RingLines + 1 /\ torn' \in BOOLEAN
<1> USE DEF TypeOK
<1>0. Len(toHost) \in Nat
  OBVIOUS
<1>1. ASSUME NEW l \in Lines
      PROVE  Append(toHost, l) \in Seq(Lines) /\ Len(Append(toHost, l)) = Len(toHost) + 1
  OBVIOUS
<1>2. "broken" \in Lines
  BY DEF Lines
<1>3. CASE Len(toHost) < RingLines
  <2>1. ~(Len(toHost) >= RingLines)
    BY <1>0, <1>3, LinkAssumption
  <2>2. CASE ~torn
    <3>1. toHost' = Append(toHost, x) /\ torn' = torn
      BY <2>1, <2>2 DEF Emit
    <3> QED
      BY <1>0, <1>1, <1>3, <3>1, LinkAssumption
  <2>3. CASE torn
    <3>1. torn' = FALSE /\ toHost' = toHost
      BY <2>1, <2>3 DEF Emit
    <3> QED
      BY <3>1
  <2> QED
    BY <2>2, <2>3
<1>4. CASE Len(toHost) >= RingLines
  BY <1>0, <1>1, <1>2, <1>4, LinkAssumption DEF Emit
<1> QED
  BY <1>0, <1>3, <1>4, LinkAssumption

LEMMA UnfetchedTypes ==
  ASSUME TypeOK, NEW rest \in Unfetched
  PROVE  rest \in Seq(Lines) /\ Len(rest) <= RingLines + 1
<1>1. ASSUME NEW n \in 0 .. Len(toHost)
      PROVE  /\ SubSeq(toHost, n + 1, Len(toHost)) \in Seq(Lines)
             /\ Len(SubSeq(toHost, n + 1, Len(toHost))) = Len(toHost) - n
  <2>1. Len(toHost) \in Nat /\ toHost \in Seq(Lines)
    BY DEF TypeOK
  <2>2. \A i \in (n + 1) .. Len(toHost) : toHost[i] \in Lines
    BY <2>1
  <2>3. n + 1 \in Nat /\ n + 1 <= Len(toHost) + 1
    BY <2>1
  <2> QED
    BY <2>1, <2>2, <2>3
<1>2. <<"broken">> \in Seq(Lines) /\ Len(<<"broken">>) = 1
  BY DEF Lines
<1>3. CASE rest \in {SubSeq(toHost, n + 1, Len(toHost)) : n \in 0 .. Len(toHost)}
  <2>1. PICK n \in 0 .. Len(toHost) : rest = SubSeq(toHost, n + 1, Len(toHost))
    BY <1>3
  <2> QED
    BY <1>1, <2>1, LinkAssumption DEF TypeOK
<1>4. CASE rest \in {<<"broken">> \o SubSeq(toHost, n + 1, Len(toHost)) : n \in 1 .. Len(toHost)}
  <2>1. PICK n \in 1 .. Len(toHost) : rest = <<"broken">> \o SubSeq(toHost, n + 1, Len(toHost))
    BY <1>4
  <2> DEFINE s == SubSeq(toHost, n + 1, Len(toHost))
  <2>2. s \in Seq(Lines) /\ Len(s) = Len(toHost) - n /\ n >= 1 /\ Len(toHost) \in Nat
    BY <1>1 DEF TypeOK
  <2> HIDE DEF s
  <2>3. <<"broken">> \o s \in Seq(Lines) /\ Len(<<"broken">> \o s) = 1 + Len(s)
    BY <1>2, <2>2
  <2>4. rest = <<"broken">> \o s
    BY <2>1 DEF s
  <2> QED
    BY <2>2, <2>3, <2>4, LinkAssumption DEF TypeOK
<1> QED
  BY <1>3, <1>4 DEF Unfetched

LEMMA TypesKept == TypeOK /\ [Next]_vars => TypeOK'
<1> SUFFICES ASSUME TypeOK, [Next]_vars PROVE TypeOK'
  OBVIOUS
<1> USE LinkAssumption DEF TypeOK, Phases, host, module, wires
<1>1. CASE Poll
  BY <1>1 DEF Poll
<1>2. CASE Announce
  <2>1. CASE Emit("manifest")
    BY <1>2, <2>1, EmitTypes DEF Announce, Lines
  <2>2. CASE UNCHANGED <<toHost, torn>>
    BY <1>2, <2>2 DEF Announce
  <2> QED
    BY <1>2, <2>1, <2>2 DEF Announce
<1>3. CASE Acked \/ AckTimeout \/ BackedOff
  BY <1>3 DEF Acked, AckTimeout, BackedOff
<1>4. CASE Stream
  <2>1. CASE Emit("data")
    BY <1>4, <2>1, EmitTypes DEF Stream, Lines
  <2>2. CASE UNCHANGED <<toHost, torn>>
    BY <1>4, <2>2 DEF Stream
  <2> QED
    BY <1>4, <2>1, <2>2 DEF Stream
<1>5. CASE Period \/ Resample \/ ReceiveAck
  BY <1>5 DEF Period, Resample, ReceiveAck
<1>6. CASE Open
  BY <1>6 DEF Open
<1>7. CASE Read
  <2> HIDE LinkAssumption DEF Phases, host, module, wires
  <2>1. toHost # <<>> /\ toHost \in Seq(Lines) /\ Len(toHost) \in Nat
    BY <1>7 DEF Read
  <2>2. Head(toHost) \in Lines /\ Tail(toHost) \in Seq(Lines)
        /\ Len(Tail(toHost)) = Len(toHost) - 1
    BY <2>1
  <2>4. Len(Tail(toHost)) <= RingLines + 1
    BY <2>1, <2>2, LinkAssumption
  <2> USE LinkAssumption DEF Phases, host, module, wires
  <2>3. toModule' \in 0 .. MaxAcks /\ known' \in BOOLEAN
    <3>1. CASE Head(toHost) = "manifest"
      <4>1. toModule < MaxAcks /\ known' = TRUE /\ toModule' = toModule + 1
        BY <1>7, <3>1 DEF Read
      <4> QED
        BY <4>1
    <3>2. CASE Head(toHost) # "manifest"
      <4>1. UNCHANGED <<known, toModule>>
        BY <1>7, <3>2 DEF Read
      <4> QED
        BY <4>1
    <3> QED
      BY <3>1, <3>2
  <2> QED
    BY <1>7, <2>2, <2>3, <2>4 DEF Read, TornAfterRead
<1>8. CASE Close
  <2>1. toHost' \in Seq(Lines) /\ Len(toHost') <= RingLines + 1
    BY <1>8, UnfetchedTypes DEF Close
  <2>2. toModule' \in 0 .. MaxAcks
    BY <1>8 DEF Close
  <2> QED
    BY <1>8, <2>1, <2>2 DEF Close
<1>9. CASE UNCHANGED vars
  BY <1>9 DEF vars
<1> QED
  BY <1>1, <1>2, <1>3, <1>4, <1>5, <1>6, <1>7, <1>8, <1>9 DEF Next, Thread

LEMMA InitialTypes == Init => TypeOK
<1> SUFFICES ASSUME Init PROVE TypeOK
  OBVIOUS
<1>1. toHost = <<>>
  BY DEF Init
<1>2. toHost \in Seq(Lines) /\ Len(toHost) = 0
  BY <1>1
<1>3. Len(toHost) <= RingLines + 1
  BY <1>2, LinkAssumption
<1>4. attempt \in 0 .. MaxAttempts /\ toModule \in 0 .. MaxAcks /\ ack \in 0 .. 1
  BY LinkAssumption DEF Init
<1> QED
  BY <1>2, <1>3, <1>4 DEF Init, TypeOK, Phases

\* Every variable keeps its type and the ring its size (emit_raw).
THEOREM TypeCorrect == Spec => []TypeOK
  BY InitialTypes, TypesKept, PTL DEF Spec

-----------------------------------------------------------------------------
(* The data link: whoever is streamed to has been announced.               *)

\* An ack on its way or taken note of comes from the present session, unless the
\* thread will reset the semaphore before it looks at it.
AcksAreFresh ==
  /\ toModule > 0 => dtr /\ known
  /\ phase = "await" /\ ack = 1 /\ dtr => known

Announced == TypeOK /\ AcksAreFresh /\ StreamsToTheAnnounced

\* With a host that leaves the module time to see its port closed, whoever is
\* streamed to has read the manifest in the same session, however slow it is.
THEOREM StreamsAreAnnounced ==
  ASSUME QuickReopen = FALSE
  PROVE  Spec => []StreamsToTheAnnounced
<1>1. Init => Announced
  BY InitialTypes DEF Init, Announced, AcksAreFresh, StreamsToTheAnnounced
<1>2. Announced /\ [Next]_vars => Announced'
  <2> SUFFICES ASSUME Announced, [Next]_vars PROVE AcksAreFresh' /\ StreamsToTheAnnounced'
    BY TypesKept DEF Announced
  <2> USE LinkAssumption
      DEF Announced, TypeOK, AcksAreFresh, StreamsToTheAnnounced, host, module, wires
  <2>1. CASE Poll \/ Announce
    BY <2>1 DEF Poll, Announce
  <2>2. CASE Acked \/ AckTimeout \/ BackedOff
    BY <2>2 DEF Acked, AckTimeout, BackedOff
  <2>3. CASE Stream \/ Period \/ Resample
    BY <2>3 DEF Stream, Period, Resample
  <2>4. CASE ReceiveAck
    BY <2>4 DEF ReceiveAck
  <2>5. CASE Open
    BY <2>5, QuickReopen = FALSE DEF Open, Unseen
  <2>6. CASE Read
    BY <2>6 DEF Read
  <2>7. CASE Close
    BY <2>7, QuickReopen = FALSE DEF Close
  <2>8. CASE UNCHANGED vars
    BY <2>8 DEF vars
  <2> QED
    BY <2>1, <2>2, <2>3, <2>4, <2>5, <2>6, <2>7, <2>8 DEF Next, Thread
<1>3. Announced => StreamsToTheAnnounced
  BY DEF Announced
<1> QED
  BY <1>1, <1>2, <1>3, PTL DEF Spec

-----------------------------------------------------------------------------
(* The chain: what is packed (SwarmProto) is unpacked.                     *)

LEMMA TwoAre ==
  ASSUME NEW n \in Int
  PROVE  U(2, n) = <<n % 256, (n \div 256) % 256>>
<1>1. Worth[1] = 1 /\ Worth[2] = 256
  BY SMT DEF Worth
<1>2. n \div 1 = n
  BY SMT
<1>3. \A k \in 1..2 : U(2, n)[k] = (n \div Worth[k]) % 256
  BY SMT DEF U
<1>4. U(2, n) = [k \in 1..2 |-> U(2, n)[k]]
  BY SMT DEF U
<1>5. U(2, n)[1] = n % 256 /\ U(2, n)[2] = (n \div 256) % 256
  BY SMT, <1>1, <1>2, <1>3
<1> QED
  BY SMT, <1>4, <1>5

\* What division by 256 leaves, and what division by its powers does.
LEMMA Divided ==
  ASSUME NEW n \in Int
  PROVE  \E a \in Int, r \in Int : n = 256 * a + r /\ 0 <= r /\ r < 256
<1>1. /\ n = 256 * (n \div 256) + (n % 256) /\ n \div 256 \in Int
      /\ (n % 256) \in Int /\ 0 <= (n % 256) /\ (n % 256) < 256
  BY SMT
<1> QED
  BY SMT, <1>1

LEMMA DividedOnce ==
  ASSUME NEW n \in Int, NEW a \in Int, NEW r \in Int, n = 256 * a + r, 0 <= r, r < 256
  PROVE  n \div 256 = a /\ (n % 256) = r
  BY SMT

LEMMA Octets ==
  ASSUME NEW n \in Int
  PROVE  \E r, s, t, c \in Int :
           /\ 0 <= r /\ r < 256 /\ 0 <= s /\ s < 256 /\ 0 <= t /\ t < 256
           /\ n = r + 256 * s + 65536 * t + 16777216 * c
           /\ (n % 256) = r /\ ((n \div 256) % 256) = s /\ ((n \div 65536) % 256) = t
           /\ n \div 16777216 = c
<1>1. PICK a \in Int, r \in Int : n = 256 * a + r /\ 0 <= r /\ r < 256
  BY SMT, Divided
<1>2. PICK b \in Int, s \in Int : a = 256 * b + s /\ 0 <= s /\ s < 256
  BY SMT, Divided
<1>3. PICK c \in Int, t \in Int : b = 256 * c + t /\ 0 <= t /\ t < 256
  BY SMT, Divided
<1>4. (n % 256) = r /\ n \div 256 = a
  BY SMT, <1>1, DividedOnce
<1>5. (a % 256) = s
  BY SMT, <1>2, DividedOnce
<1>6. n \div 65536 = b
  BY SMT, <1>1, <1>2
<1>7. (b % 256) = t
  BY SMT, <1>3, DividedOnce
<1>8. n \div 16777216 = c
  BY SMT, <1>1, <1>2, <1>3
<1>9. n = r + 256 * s + 65536 * t + 16777216 * c
  BY SMT, <1>1, <1>2, <1>3
<1> QED
  BY SMT, <1>1, <1>2, <1>3, <1>4, <1>5, <1>6, <1>7, <1>8, <1>9

\* A number is made up of its octets.
LEMMA OctetsMakeUp ==
  ASSUME NEW n \in Int, -900000000 <= n, n <= 900000000
  PROVE  LET top == (n \div 16777216) % 256 IN
         n = (n % 256) + 256 * ((n \div 256) % 256) + 65536 * ((n \div 65536) % 256)
             + 16777216 * (IF top < 128 THEN top ELSE top - 256)
<1>1. PICK r, s, t, c \in Int :
           /\ 0 <= r /\ r < 256 /\ 0 <= s /\ s < 256 /\ 0 <= t /\ t < 256
           /\ n = r + 256 * s + 65536 * t + 16777216 * c
           /\ (n % 256) = r /\ ((n \div 256) % 256) = s /\ ((n \div 65536) % 256) = t
           /\ n \div 16777216 = c
  BY SMT, Octets
<1>2. -128 <= c /\ c < 128
  BY SMT, <1>1
<1>3. (c % 256) = IF c < 0 THEN c + 256 ELSE c
  BY SMT, <1>2
<1> QED
  BY SMT, <1>1, <1>2, <1>3

LEMMA Joined ==
  ASSUME NEW s \in Seq(Int), NEW t \in Seq(Int)
  PROVE  /\ s \o t \in Seq(Int) /\ Len(s \o t) = Len(s) + Len(t)
         /\ \A i \in 1..Len(s) : (s \o t)[i] = s[i]
         /\ \A i \in 1..Len(t) : (s \o t)[Len(s) + i] = t[i]
  BY SMT

LEMMA TwoOctets ==
  ASSUME NEW n \in Int
  PROVE  /\ U(2, n) \in Seq(Int) /\ Len(U(2, n)) = 2
         /\ U(2, n)[1] = n % 256 /\ U(2, n)[2] = (n \div 256) % 256
<1> DEFINE x == n % 256
           y == (n \div 256) % 256
<1>1. x \in Nat /\ y \in Nat
  BY SMT
<1>2. U(2, n) = <<x, y>>
  <2>1. U(2, n) = <<n % 256, (n \div 256) % 256>>
    BY TwoAre
  <2> QED
    BY <2>1
<1> HIDE DEF x, y
<1>3. <<x, y>> \in Seq(Int) /\ Len(<<x, y>>) = 2 /\ <<x, y>>[1] = x /\ <<x, y>>[2] = y
  BY SMT, <1>1
<1>4. /\ U(2, n) \in Seq(Int) /\ Len(U(2, n)) = 2 /\ U(2, n)[1] = x /\ U(2, n)[2] = y
  BY <1>2, <1>3
<1> QED
  BY <1>1, <1>4 DEF x, y

\* Two octets hold a number modulo 65536.
LEMMA TwoMakeUp ==
  ASSUME NEW n \in Int
  PROVE  /\ (n % 256) + 256 * ((n \div 256) % 256) = Kept(n)
         /\ Kept(n) \in Nat
<1>1. PICK r, s, t, c \in Int :
           /\ 0 <= r /\ r < 256 /\ 0 <= s /\ s < 256 /\ 0 <= t /\ t < 256
           /\ n = r + 256 * s + 65536 * t + 16777216 * c
           /\ (n % 256) = r /\ ((n \div 256) % 256) = s /\ ((n \div 65536) % 256) = t
           /\ n \div 16777216 = c
  BY SMT, Octets
<1>2. PICK k \in Int, l \in Int : k = t + 256 * c /\ l = r + 256 * s
  BY SMT
<1>3. n = 65536 * k + l /\ 0 <= l /\ l < 65536
  BY SMT, <1>1, <1>2
<1>4. (n % 65536) = l
  BY SMT, <1>3
<1> QED
  BY SMT, <1>1, <1>2, <1>3, <1>4 DEF Kept

LEMMA TwoArrive ==
  ASSUME NEW b, NEW i \in Int, NEW n \in Int,
         b[i] = n % 256, b[i + 1] = (n \div 256) % 256
  PROVE  U16(b, i) = Kept(n)
<1>1. U16(b, i) = b[i] + 256 * b[i + 1]
  BY SMT DEF U16
<1>2. (n % 256) + 256 * ((n \div 256) % 256) = Kept(n)
  BY Zenon, TwoMakeUp
<1> QED
  BY Zenon, <1>1, <1>2

LEMMA FourOctets ==
  ASSUME NEW n \in Int
  PROVE  /\ U(4, n) \in Seq(Int) /\ Len(U(4, n)) = 4
         /\ U(4, n)[1] = n % 256 /\ U(4, n)[2] = (n \div 256) % 256
         /\ U(4, n)[3] = (n \div 65536) % 256 /\ U(4, n)[4] = (n \div 16777216) % 256
<1> DEFINE x == n % 256
           y == (n \div 256) % 256
           z == (n \div 65536) % 256
           v == (n \div 16777216) % 256
<1>1. x \in Int /\ y \in Int /\ z \in Int /\ v \in Int
  BY SMT
<1>2. U(4, n) = <<x, y, z, v>>
  <2>1. Worth[1] = 1 /\ Worth[2] = 256 /\ Worth[3] = 65536 /\ Worth[4] = 16777216
    BY SMT DEF Worth
  <2>2. n \div 1 = n
    BY SMT
  <2>3. \A k \in 1..4 : U(4, n)[k] = (n \div Worth[k]) % 256
    BY SMT DEF U
  <2>4. U(4, n) = [k \in 1..4 |-> U(4, n)[k]]
    BY SMT DEF U
  <2>5. /\ U(4, n)[1] = n % 256 /\ U(4, n)[2] = (n \div 256) % 256
        /\ U(4, n)[3] = (n \div 65536) % 256 /\ U(4, n)[4] = (n \div 16777216) % 256
    BY SMT, <2>1, <2>2, <2>3
  <2> QED
    BY SMT, <2>4, <2>5
<1> HIDE DEF x, y, z, v
<1> DEFINE s == <<x, y, z, v>>
<1>3. s \in Seq(Int) /\ Len(s) = 4 /\ s[1] = x /\ s[2] = y /\ s[3] = z /\ s[4] = v
  BY SMT, <1>1
<1>4. U(4, n) = s
  BY SMT, <1>2
<1> HIDE DEF s
<1>5. /\ U(4, n) \in Seq(Int) /\ Len(U(4, n)) = 4
      /\ U(4, n)[1] = x /\ U(4, n)[2] = y /\ U(4, n)[3] = z /\ U(4, n)[4] = v
  BY SMT, <1>3, <1>4
<1> QED
  BY SMT, <1>5 DEF x, y, z, v

\* What translate packs for GO_TO
Waypoint(lat, ttl) == PackWaypoint(lat, 0, 0, MissionType.GOTO, 5, ttl)

LEMMA WaypointOctets ==
  ASSUME NEW lat \in Int, NEW ttl \in Nat
  PROVE  LET b == Waypoint(lat, ttl) IN
         /\ ~(Len(b) < 16) /\ b[13] = 4
         /\ b[15] = ttl % 256 /\ b[16] = (ttl \div 256) % 256
         /\ \A i \in 1..4 : b[i] = U(4, lat)[i]
<1> DEFINE s1 == U(4, lat)
           s2 == U(4, 0)
           s4 == <<4, 5>>
           s5 == U(2, ttl)
           b2 == s1 \o s2
           b3 == b2 \o s2
           b4 == b3 \o s4
           b == b4 \o s5
<1>1. 0 \in Int /\ ttl \in Int
  OBVIOUS
<1>2. s1 \in Seq(Int) /\ 4 = Len(s1)
  BY SMT, FourOctets
<1>3. s2 \in Seq(Int) /\ 4 = Len(s2)
  BY SMT, <1>1, FourOctets
<1>4. s5 \in Seq(Int) /\ 2 = Len(s5) /\ s5[1] = ttl % 256 /\ s5[2] = (ttl \div 256) % 256
  <2> HIDE DEF s5
  <2>1. /\ s5 \in Seq(Int) /\ Len(s5) = 2 /\ s5[1] = ttl % 256 /\ s5[2] = (ttl \div 256) % 256
    <3>1. /\ U(2, ttl) \in Seq(Int) /\ Len(U(2, ttl)) = 2
          /\ U(2, ttl)[1] = ttl % 256 /\ U(2, ttl)[2] = (ttl \div 256) % 256
      BY <1>1, TwoOctets
    <3> QED
      BY <3>1 DEF s5
  <2> QED
    BY <2>1
<1>5. s4 \in Seq(Int) /\ 2 = Len(s4) /\ s4[1] = 4
  BY SMT
<1>6. Waypoint(lat, ttl) = b
  BY SMT DEF Waypoint, PackWaypoint, MissionType
<1> HIDE DEF s1, s2, s4, s5, b2, b3, b4, b
<1>7. 8 = 4 + 4 /\ 12 = 8 + 4 /\ 14 = 12 + 2 /\ 16 = 14 + 2
  OBVIOUS
<1>8. b2 \in Seq(Int) /\ 8 = Len(b2) /\ \A i \in 1..4 : b2[i] = s1[i]
  <2>1. /\ b2 \in Seq(Int) /\ Len(b2) = Len(s1) + Len(s2)
        /\ \A i \in 1..Len(s1) : b2[i] = s1[i]
        /\ \A i \in 1..Len(s2) : b2[Len(s1) + i] = s2[i]
    BY Zenon, <1>2, <1>3, Joined DEF b2
  <2> QED
    BY Zenon, <1>2, <1>3, <1>7, <2>1
<1>9. b3 \in Seq(Int) /\ 12 = Len(b3) /\ \A i \in 1..4 : b3[i] = s1[i]
  <2>1. b3 \in Seq(Int) /\ 12 = Len(b3) /\ \A i \in 1..8 : b3[i] = b2[i]
    <3>1. /\ b3 \in Seq(Int) /\ Len(b3) = Len(b2) + Len(s2)
          /\ \A i \in 1..Len(b2) : b3[i] = b2[i]
          /\ \A i \in 1..Len(s2) : b3[Len(b2) + i] = s2[i]
      BY Zenon, <1>3, <1>8, Joined DEF b3
    <3> QED
      BY Zenon, <1>3, <1>7, <1>8, <3>1
  <2>2. \A i \in 1..4 : i \in 1..8
    OBVIOUS
  <2> QED
    BY Zenon, <1>8, <2>1, <2>2
<1>10. /\ b4 \in Seq(Int) /\ 14 = Len(b4) /\ b4[13] = 4
       /\ \A i \in 1..4 : b4[i] = s1[i]
  <2>1. /\ b4 \in Seq(Int) /\ 14 = Len(b4)
        /\ \A i \in 1..12 : b4[i] = b3[i]
        /\ \A i \in 1..2 : b4[12 + i] = s4[i]
    <3>1. /\ b4 \in Seq(Int) /\ Len(b4) = Len(b3) + Len(s4)
          /\ \A i \in 1..Len(b3) : b4[i] = b3[i]
          /\ \A i \in 1..Len(s4) : b4[Len(b3) + i] = s4[i]
      BY Zenon, <1>5, <1>9, Joined DEF b4
    <3>2. /\ b4 \in Seq(Int) /\ 14 = Len(b4)
          /\ \A i \in 1..12 : b4[i] = b3[i]
      BY Zenon, <1>5, <1>7, <1>9, <3>1
    <3>3. ASSUME NEW i \in 1..2 PROVE b4[12 + i] = s4[i]
      <4>1. i \in 1..Len(s4) /\ 12 + i = Len(b3) + i
        BY Zenon, <1>5, <1>9
      <4>2. b4[Len(b3) + i] = s4[i]
        BY Zenon, <3>1, <4>1
      <4> QED
        BY <4>1, <4>2
    <3> QED
      BY Zenon, <3>2, <3>3
  <2>2. (\A i \in 1..4 : i \in 1..12) /\ 1 \in 1..2 /\ 13 = 12 + 1
    OBVIOUS
  <2> QED
    BY Zenon, <1>5, <1>9, <2>1, <2>2
<1>11. /\ 16 = Len(b) /\ b[13] = 4 /\ b[15] = s5[1] /\ b[16] = s5[2]
       /\ \A i \in 1..4 : b[i] = s1[i]
  <2>1. /\ 16 = Len(b)
        /\ \A i \in 1..14 : b[i] = b4[i]
        /\ \A i \in 1..2 : b[14 + i] = s5[i]
    <3>1. /\ b \in Seq(Int) /\ Len(b) = Len(b4) + Len(s5)
          /\ \A i \in 1..Len(b4) : b[i] = b4[i]
          /\ \A i \in 1..Len(s5) : b[Len(b4) + i] = s5[i]
      <4>1. s5 \in Seq(Int) /\ b4 \in Seq(Int)
        BY Zenon, <1>4, <1>10
      <4> HIDE DEF s5, b4
      <4> QED
        BY Zenon, <4>1, Joined DEF b
    <3>2. /\ b \in Seq(Int) /\ 16 = Len(b)
          /\ \A i \in 1..14 : b[i] = b4[i]
      BY Zenon, <1>4, <1>7, <1>10, <3>1
    <3>3. ASSUME NEW i \in 1..2 PROVE b[14 + i] = s5[i]
      <4>1. i \in 1..Len(s5) /\ 14 + i = Len(b4) + i
        BY Zenon, <1>4, <1>10
      <4>2. b[Len(b4) + i] = s5[i]
        BY Zenon, <3>1, <4>1
      <4> QED
        BY <4>1, <4>2
    <3> QED
      BY Zenon, <3>2, <3>3
  <2>2. /\ \A i \in 1..4 : i \in 1..14
        /\ 13 \in 1..14 /\ 1 \in 1..2 /\ 2 \in 1..2
    OBVIOUS
  <2>3. 15 = 14 + 1 /\ 16 = 14 + 2
    OBVIOUS
  <2>4. b[15] = s5[1] /\ b[16] = s5[2]
    BY Zenon, <2>1, <2>2, <2>3
  <2> QED
    BY Zenon, <1>10, <2>1, <2>2, <2>4
<1>12. ~(Len(b) < 16)
  <2>1. ~(16 < 16)
    OBVIOUS
  <2> QED
    BY Zenon, <1>11, <2>1
<1> QED
  BY Zenon, <1>4, <1>6, <1>11, <1>12 DEF s1

\* What pack_waypoint packs is what unpack_waypoint finds, but for the time limit, of
\* which it keeps 16 bits.
LEMMA WaypointsArrive ==
  ASSUME NEW lat \in Int, -900000000 <= lat, lat <= 900000000, NEW ttl \in Nat
  PROVE  LET wp == UnpackWaypoint(Waypoint(lat, ttl)) IN
         /\ wp # Malformed
         /\ wp.lat = lat /\ wp.mission_type = MissionType.GOTO /\ wp.ttl_s = Kept(ttl)
<1> DEFINE b == Waypoint(lat, ttl)
           wp == UnpackWaypoint(b)
<1>1. /\ ~(Len(b) < 16) /\ b[13] = 4
      /\ b[15] = ttl % 256 /\ b[16] = (ttl \div 256) % 256
      /\ \A i \in 1..4 : b[i] = U(4, lat)[i]
  BY SMT, WaypointOctets
<1> HIDE DEF b
<1>2. wp = [lat |-> I32(b, 1), lon |-> I32(b, 5), alt |-> I32(b, 9),
            mission_type |-> b[13], priority |-> b[14], ttl_s |-> U16(b, 15)]
  BY SMT, <1>1 DEF UnpackWaypoint
<1> HIDE DEF wp
<1>3. "lat" \in DOMAIN wp /\ "lat" \notin DOMAIN Malformed
  BY SMT, <1>2 DEF Malformed
<1>4. 1 \in 1..4 /\ 2 \in 1..4 /\ 3 \in 1..4 /\ 4 \in 1..4
  BY SMT
<1>5. /\ b[1] = U(4, lat)[1] /\ b[2] = U(4, lat)[2]
       /\ b[3] = U(4, lat)[3] /\ b[4] = U(4, lat)[4]
  BY SMT, <1>1, <1>4
<1>6. /\ b[1] = lat % 256 /\ b[2] = (lat \div 256) % 256
      /\ b[3] = (lat \div 65536) % 256 /\ b[4] = (lat \div 16777216) % 256
  BY SMT, <1>5, FourOctets
<1>7. I32(b, 1) = b[1] + 256 * b[2] + 65536 * b[3]
                  + 16777216 * (IF b[4] < 128 THEN b[4] ELSE b[4] - 256)
  BY SMT DEF I32
<1>8. I32(b, 1) = lat
  BY SMT, <1>6, <1>7, OctetsMakeUp
<1>9. U16(b, 15) = Kept(ttl)
  BY SMT, <1>1, TwoArrive
<1>10. MissionType.GOTO = 4
  BY SMT DEF MissionType
<1> QED
  BY SMT, <1>1, <1>2, <1>3, <1>8, <1>9, <1>10 DEF wp, b

LEMMA MissionsArrive ==
  ASSUME NEW type \in Nat, NEW ttl \in Nat
  PROVE  LET ms == UnpackMission(PackMission(type, ttl)) IN
         /\ ms # Malformed
         /\ ms.mission_type = type /\ ms.ttl_s = Kept(ttl)
<1> DEFINE s1 == <<type>>
           s2 == U(2, ttl)
           b == s1 \o s2
<1>1. s2 \in Seq(Int) /\ 2 = Len(s2) /\ s2[1] = ttl % 256 /\ s2[2] = (ttl \div 256) % 256
  <2> HIDE DEF s2
  <2>1. ttl \in Int
    OBVIOUS
  <2>2. /\ s2 \in Seq(Int) /\ Len(s2) = 2 /\ s2[1] = ttl % 256 /\ s2[2] = (ttl \div 256) % 256
    <3>1. /\ U(2, ttl) \in Seq(Int) /\ Len(U(2, ttl)) = 2
          /\ U(2, ttl)[1] = ttl % 256 /\ U(2, ttl)[2] = (ttl \div 256) % 256
      BY <2>1, TwoOctets
    <3> QED
      BY <3>1 DEF s2
  <2> QED
    BY <2>2
<1>2. s1 \in Seq(Int) /\ 1 = Len(s1) /\ s1[1] = type
  BY SMT
<1>3. PackMission(type, ttl) = b
  BY SMT DEF PackMission
<1> HIDE DEF s1, s2, b
<1>4. 3 = Len(b) /\ b[1] = type /\ b[2] = ttl % 256 /\ b[3] = (ttl \div 256) % 256
  <2>1. 3 = 1 + 2 /\ 2 = 1 + 1
    OBVIOUS
  <2>2. /\ 3 = Len(b)
        /\ \A i \in 1..1 : b[i] = s1[i]
        /\ \A i \in 1..2 : b[1 + i] = s2[i]
    <3>1. /\ b \in Seq(Int) /\ Len(b) = Len(s1) + Len(s2)
          /\ \A i \in 1..Len(s1) : b[i] = s1[i]
          /\ \A i \in 1..Len(s2) : b[Len(s1) + i] = s2[i]
      BY Zenon, <1>1, <1>2, Joined DEF b
    <3>2. 3 = Len(b) /\ \A i \in 1..1 : b[i] = s1[i]
      BY Zenon, <1>1, <1>2, <2>1, <3>1
    <3>3. ASSUME NEW i \in 1..2 PROVE b[1 + i] = s2[i]
      <4>1. i \in 1..Len(s2) /\ 1 + i = Len(s1) + i
        BY Zenon, <1>1, <1>2
      <4>2. b[Len(s1) + i] = s2[i]
        BY Zenon, <3>1, <4>1
      <4> QED
        BY <4>1, <4>2
    <3> QED
      BY Zenon, <3>2, <3>3
  <2>3. 1 \in 1..1 /\ 1 \in 1..2 /\ 2 \in 1..2
    OBVIOUS
  <2>4. b[1] = s1[1] /\ b[1 + 1] = s2[1] /\ b[1 + 2] = s2[2]
    BY Zenon, <2>2, <2>3
  <2> QED
    BY Zenon, <1>1, <1>2, <2>1, <2>2, <2>4
<1>5. ~(Len(b) < 3)
  <2>1. ~(3 < 3)
    OBVIOUS
  <2> QED
    BY Zenon, <1>4, <2>1
<1> DEFINE ms == UnpackMission(b)
<1>6. ms = [mission_type |-> b[1], ttl_s |-> U16(b, 2)]
  BY Zenon, <1>5 DEF UnpackMission
<1> HIDE DEF ms
<1>7. "ttl_s" \in DOMAIN ms /\ "ttl_s" \notin DOMAIN Malformed
  BY SMT, <1>6 DEF Malformed
<1>8. U16(b, 2) = Kept(ttl)
  BY SMT, <1>4, TwoArrive
<1> QED
  BY <1>3, <1>4, <1>6, <1>7, <1>8 DEF ms

-----------------------------------------------------------------------------
(* The chain: what a message makes of an agent.                            *)

\* An operator's command that the node may pass to its companion is one of three.
LEMMA ActionsAre ==
  ASSUME NEW o \in Orders, IsActionOp(Translate(o).op)
  PROVE  LET t == Translate(o) IN
         /\ t.fleet => o.command \in Emergencies
         /\ \/ /\ o.command = "GO_TO" /\ t.op = CmdOp.SET_WAYPOINT
               /\ t.params = Waypoint(o.lat, o.ttl)
            \/ /\ o.command \in DOMAIN MissionOf /\ t.op = CmdOp.SET_MISSION
               /\ t.params = PackMission(MissionType[MissionOf[o.command]], Limit(o))
            \/ t.op = CmdOp.CLEAR_OVERRIDE
<1> DEFINE c == o.command
<1>1. CASE c = "GO_TO"
  BY <1>1 DEF Translate, Waypoint
<1>2. CASE c \in DOMAIN MissionOf \ {"GO_TO"}
  <2>1. c \notin {"GO_TO", "IDENTIFY", "CLEAR_OVERRIDE"}
    BY <1>2 DEF MissionOf
  <2>2. Translate(o) = [op |-> CmdOp.SET_MISSION, fleet |-> c \in Emergencies,
                        params |-> PackMission(MissionType[MissionOf[c]], Limit(o))]
    BY <1>2, <2>1 DEF Translate
  <2>3. /\ Translate(o).op = CmdOp.SET_MISSION /\ Translate(o).fleet = (c \in Emergencies)
        /\ Translate(o).params = PackMission(MissionType[MissionOf[c]], Limit(o))
    BY <2>2
  <2>4. Translate(o).fleet => c \in Emergencies
    BY <2>3
  <2> QED
    BY Zenon, <1>2, <2>3, <2>4
<1>3. ASSUME c \notin DOMAIN MissionOf
      PROVE  /\ Translate(o).op \in {CmdOp.IDENTIFY, CmdOp.CLEAR_OVERRIDE, -1}
             /\ Translate(o).fleet = FALSE
  <2>1. c # "GO_TO"
    BY <1>3 DEF MissionOf
  <2> QED
    BY <1>3, <2>1 DEF Translate, Untranslated
<1>4. CASE c \notin DOMAIN MissionOf
  <2>1. Translate(o).op = CmdOp.CLEAR_OVERRIDE
    BY <1>3, <1>4 DEF IsActionOp, CmdOp
  <2> QED
    BY <1>3, <1>4, <2>1
<1> QED
  BY <1>1, <1>2, <1>4

\* The missions orders ask for have numbers, and their limits are natural.
LEMMA MissionNumbers ==
  ASSUME NEW o \in Orders, o.command \in DOMAIN MissionOf
  PROVE  MissionType[MissionOf[o.command]] \in Nat /\ Limit(o) \in Nat
<1>1. \A c \in DOMAIN MissionOf : MissionOf[c] \in {"GOTO", "RTL", "SEARCH", "LOITER", "COVERAGE"}
  BY DEF MissionOf
<1>2. \A x \in {"GOTO", "RTL", "SEARCH", "LOITER", "COVERAGE"} : MissionType[x] \in Nat
  BY DEF MissionType
<1>3. o.ttl \in Nat
  BY CommandChainAssumption
<1> QED
  BY <1>1, <1>2, <1>3 DEF Limit

\* What the nRF may send up, when these orders were given and the node may be overridden
\* or not: a report, or the command of an order that handle_command passes on.
Messages(given, allowed) ==
  {Reports[i] : i \in DOMAIN Reports}
  \cup {m \in {Downlink(o, Translate(o)) : o \in given} :
          allowed /\ IsActionOp(m.op) /\ (m.type = "cmd" => m.eui = Me)}

\* HeldAsOrdered, of an override and the orders given
Asks(o, ov) ==
  LET limit == Kept(Limit(o))
  IN  /\ o.command \in DOMAIN MissionOf
      /\ ov.mission = MissionType[MissionOf[o.command]]
      /\ limit \in Nat /\ ov.left <= limit
      /\ ov.sticky = (limit = 0)

ForMe(given) == {o \in given : o.target \in {Me, FLEET} \/ o.command \in Emergencies}

OverrideOK(ov, given, allowed) ==
  /\ ov = [goal |-> ov.goal, mission |-> ov.mission, left |-> ov.left, sticky |-> ov.sticky]
  /\ ov.left \in Nat /\ ov.sticky \in BOOLEAN
  /\ ov.sticky => ov.mission # NoMission
  /\ ov.mission # NoMission => allowed /\ \E o \in ForMe(given) : Asks(o, ov)
  /\ ov.goal # NoPlace => \E o \in ForMe(given) : o.command = "GO_TO" /\ o.lat = ov.goal

AgentOK(a, given, allowed) ==
  /\ a = [own |-> a.own, mods |-> a.mods, ov |-> a.ov]
  /\ OverrideOK(a.ov, given, allowed)

LEMMA WaypointTold ==
  ASSUME NEW given \in SUBSET Orders, NEW allowed \in BOOLEAN, NEW o \in ForMe(given), NEW ov,
         o.command = "GO_TO", allowed, Translate(o).op = CmdOp.SET_WAYPOINT,
         Translate(o).params = Waypoint(o.lat, o.ttl)
  PROVE  OverrideOK(Told(ov, CmdOp.SET_WAYPOINT, Translate(o).params), given, allowed)
<1> DEFINE p == Translate(o).params
           wp == UnpackWaypoint(p)
           new == Told(ov, CmdOp.SET_WAYPOINT, p)
<1>1. o \in Orders /\ o.lat \in Int /\ -900000000 <= o.lat /\ o.lat <= 900000000 /\ o.ttl \in Nat
  BY SMT, CommandChainAssumption DEF ForMe
<1>2. /\ wp # Malformed /\ wp.lat = o.lat
      /\ wp.mission_type = MissionType.GOTO /\ wp.ttl_s = Kept(o.ttl)
  BY SMT, <1>1, WaypointsArrive
<1>3. CmdOp.SET_WAYPOINT # CmdOp.OVERRIDE /\ CmdOp.SET_WAYPOINT # CmdOp.SET_MISSION
  BY SMT DEF CmdOp
<1> HIDE DEF wp
<1>4. new = [goal |-> wp.lat, mission |-> wp.mission_type, left |-> wp.ttl_s,
             sticky |-> (wp.ttl_s = 0)]
  BY SMT, <1>2, <1>3 DEF Told, wp
<1> HIDE DEF new
<1>5. /\ new.mission # NoMission
      /\ "GO_TO" \in DOMAIN MissionOf /\ new.mission = MissionType[MissionOf["GO_TO"]]
  BY SMT, <1>2, <1>4 DEF NoMission, MissionOf, MissionType
<1>6. Asks(o, new)
  <2>1. Limit(o) = o.ttl
    BY DEF Limit, Emergencies
  <2>2. Kept(o.ttl) \in Nat
    BY SMT, <1>1, TwoMakeUp
  <2>3. new.left = Kept(o.ttl) /\ new.sticky = (Kept(o.ttl) = 0)
    BY SMT, <1>2, <1>4
  <2>4. new.left <= Kept(o.ttl)
    BY SMT, <2>2, <2>3
  <2> QED
    BY SMT, <1>5, <2>1, <2>2, <2>3, <2>4 DEF Asks
<1>7. new.left \in Nat /\ new.sticky \in BOOLEAN
  <2>1. Kept(o.ttl) \in Nat
    BY SMT, <1>1, TwoMakeUp
  <2> QED
    BY SMT, <1>2, <1>4, <2>1
<1>8. new = [goal |-> new.goal, mission |-> new.mission, left |-> new.left, sticky |-> new.sticky]
  BY SMT, <1>4
<1>9. new.goal = o.lat
  BY SMT, <1>2, <1>4
<1> QED
  BY SMT, <1>5, <1>6, <1>7, <1>8, <1>9 DEF OverrideOK, new

LEMMA MissionTold ==
  ASSUME NEW given \in SUBSET Orders, NEW allowed \in BOOLEAN, NEW o \in ForMe(given), NEW ov,
         allowed, Translate(o).op = CmdOp.SET_MISSION, OverrideOK(ov, given, allowed),
         o.command \in DOMAIN MissionOf,
         Translate(o).params = PackMission(MissionType[MissionOf[o.command]], Limit(o))
  PROVE  OverrideOK(Told(ov, CmdOp.SET_MISSION, Translate(o).params), given, allowed)
<1> DEFINE p == Translate(o).params
           ms == UnpackMission(p)
           new == Told(ov, CmdOp.SET_MISSION, p)
           type == MissionType[MissionOf[o.command]]
<1>0. type \in Nat /\ Limit(o) \in Nat
  BY MissionNumbers DEF ForMe
<1>1. /\ ms # Malformed /\ ms.mission_type = type /\ ms.ttl_s = Kept(Limit(o))
      /\ ms.ttl_s \in Nat
  <2>1. ms # Malformed /\ ms.mission_type = type /\ ms.ttl_s = Kept(Limit(o))
    BY <1>0, MissionsArrive
  <2>2. Kept(Limit(o)) \in Nat
    BY SMT, <1>0, TwoMakeUp
  <2> QED
    BY <2>1, <2>2
<1>2. CmdOp.SET_MISSION \notin {CmdOp.OVERRIDE, CmdOp.SET_WAYPOINT}
  BY SMT DEF CmdOp
<1> HIDE DEF ms
<1>3. new = [ov EXCEPT !.mission = ms.mission_type, !.left = ms.ttl_s, !.sticky = (ms.ttl_s = 0)]
  BY SMT, <1>1, <1>2 DEF Told, ms
<1>4. new = [goal |-> ov.goal, mission |-> ms.mission_type, left |-> ms.ttl_s,
              sticky |-> (ms.ttl_s = 0)]
  <2>1. ov = [goal |-> ov.goal, mission |-> ov.mission, left |-> ov.left, sticky |-> ov.sticky]
    BY DEF OverrideOK
  <2>2. ASSUME NEW v, NEW g, NEW m, NEW l, NEW t, NEW x, NEW y, NEW z,
               v = [goal |-> g, mission |-> m, left |-> l, sticky |-> t]
        PROVE  [v EXCEPT !.mission = x, !.left = y, !.sticky = z]
               = [goal |-> g, mission |-> x, left |-> y, sticky |-> z]
    <3> DEFINE v1 == [v EXCEPT !.mission = x]
               v2 == [v1 EXCEPT !.left = y]
               v3 == [v2 EXCEPT !.sticky = z]
    <3>1. v1 = [goal |-> g, mission |-> x, left |-> l, sticky |-> t]
      BY SMT, <2>2
    <3>2. v3 = [v EXCEPT !.mission = x, !.left = y, !.sticky = z]
      BY SMT, <2>2
    <3> HIDE DEF v1
    <3>3. v2 = [goal |-> g, mission |-> x, left |-> y, sticky |-> t]
      BY SMT, <3>1
    <3> HIDE DEF v2
    <3>4. v3 = [goal |-> g, mission |-> x, left |-> y, sticky |-> z]
      BY SMT, <3>3
    <3> HIDE DEF v3
    <3> QED
      BY Zenon, <3>2, <3>4
  <2> QED
    BY Zenon, <1>3, <2>1, <2>2
<1> HIDE DEF new
<1>5. new.mission # NoMission
  BY SMT, <1>0, <1>1, <1>4 DEF NoMission
<1>6. Asks(o, new)
  <2>1. /\ new.mission = ms.mission_type /\ ms.ttl_s \in Nat /\ new.left <= ms.ttl_s
        /\ new.sticky = (ms.ttl_s = 0)
    BY SMT, <1>1, <1>4
  <2> HIDE DEF ms
  <2> QED
    BY SMT, <1>1, <2>1 DEF Asks
<1>7. new.left \in Nat /\ new.sticky \in BOOLEAN
  BY SMT, <1>1, <1>4
<1>8. new = [goal |-> new.goal, mission |-> new.mission, left |-> new.left, sticky |-> new.sticky]
  BY SMT, <1>4
<1>9. new.goal = ov.goal
  BY SMT, <1>4
<1> QED
  BY SMT, <1>5, <1>6, <1>7, <1>8, <1>9 DEF OverrideOK, new

LEMMA OnlyModules ==
  ASSUME NEW a, NEW given, NEW allowed, NEW v, AgentOK(a, given, allowed)
  PROVE  AgentOK([a EXCEPT !.mods = v], given, allowed)
<1> DEFINE b == [a EXCEPT !.mods = v]
<1>1. a = [own |-> a.own, mods |-> a.mods, ov |-> a.ov]
  BY DEF AgentOK
<1>2. b = [own |-> a.own, mods |-> v, ov |-> a.ov]
  BY SMT, <1>1
<1> HIDE DEF b
<1>3. b = [own |-> b.own, mods |-> b.mods, ov |-> b.ov] /\ b.ov = a.ov
  BY SMT, <1>2
<1> QED
  BY <1>3 DEF AgentOK, b

LEMMA OnlyOwn ==
  ASSUME NEW a, NEW given, NEW allowed, NEW v, AgentOK(a, given, allowed)
  PROVE  AgentOK([a EXCEPT !.own = v], given, allowed)
<1> DEFINE b == [a EXCEPT !.own = v]
<1>1. a = [own |-> a.own, mods |-> a.mods, ov |-> a.ov]
  BY DEF AgentOK
<1>2. b = [own |-> v, mods |-> a.mods, ov |-> a.ov]
  BY SMT, <1>1
<1> HIDE DEF b
<1>3. b = [own |-> b.own, mods |-> b.mods, ov |-> b.ov] /\ b.ov = a.ov
  BY SMT, <1>2
<1> QED
  BY <1>3 DEF AgentOK, b

LEMMA OnlyOverride ==
  ASSUME NEW a, NEW given, NEW allowed, NEW v, AgentOK(a, given, allowed),
         OverrideOK(v, given, allowed)
  PROVE  AgentOK([a EXCEPT !.ov = v], given, allowed)
<1> DEFINE b == [a EXCEPT !.ov = v]
<1>1. a = [own |-> a.own, mods |-> a.mods, ov |-> a.ov]
  BY DEF AgentOK
<1>2. b = [own |-> a.own, mods |-> a.mods, ov |-> v]
  BY SMT, <1>1
<1> HIDE DEF b
<1>3. b = [own |-> b.own, mods |-> b.mods, ov |-> b.ov] /\ b.ov = v
  BY SMT, <1>2
<1> QED
  BY <1>3 DEF AgentOK, b

LEMMA ReportHandled ==
  ASSUME NEW a, NEW given, NEW allowed, NEW m, AgentOK(a, given, allowed)
  PROVE  /\ AgentOK(OnHello(a, m), given, allowed)
         /\ AgentOK(OnTelemetry(a, m), given, allowed)
         /\ AgentOK(OnNeighbors(a, m), given, allowed)
<1> DEFINE t == Touched(a, m.eui)
<1>1. AgentOK(t, given, allowed)
  BY OnlyModules DEF Touched
<1> HIDE DEF t
<1>2. AgentOK(OnTelemetry(a, m), given, allowed)
  BY <1>1, OnlyModules DEF OnTelemetry, t
<1>3. AgentOK(OnNeighbors(a, m), given, allowed)
  BY <1>1, OnlyModules DEF OnNeighbors, t
<1>4. AgentOK(OnHello(a, m), given, allowed)
  BY <1>1, OnlyModules DEF OnHello, t
<1> QED
  BY <1>2, <1>3, <1>4

LEMMA CommandFacts ==
  ASSUME NEW given \in SUBSET Orders, NEW o \in given,
         NEW m, m = Downlink(o, Translate(o)), IsActionOp(m.op), m.type = "cmd" => m.eui = Me
  PROVE  /\ m.type \in {"cmd", "broadcast"}
         /\ m.op = Translate(o).op /\ m.params = Translate(o).params
         /\ o \in ForMe(given)
<1>1. /\ m.type \in {"cmd", "broadcast"}
      /\ m.op = Translate(o).op /\ m.params = Translate(o).params
  BY DEF Downlink
<1>2. CASE Translate(o).fleet
  <2>1. o.command \in Emergencies
    BY <1>1, <1>2, ActionsAre
  <2> QED
    BY <1>1, <2>1 DEF ForMe
<1>3. CASE o.target = FLEET
  BY <1>1, <1>3 DEF ForMe
<1>4. CASE ~(Translate(o).fleet \/ o.target = FLEET)
  <2>1. m.type = "cmd" /\ m.eui = o.target
    BY <1>4 DEF Downlink
  <2> QED
    BY <1>1, <2>1 DEF ForMe
<1> QED
  BY <1>2, <1>3, <1>4

LEMMA CommandTold ==
  ASSUME NEW given \in SUBSET Orders, NEW allowed \in BOOLEAN, allowed, NEW o \in given, NEW ov,
         NEW m, m = Downlink(o, Translate(o)), IsActionOp(m.op), m.type = "cmd" => m.eui = Me,
         OverrideOK(ov, given, allowed)
  PROVE  OverrideOK(Told(ov, m.op, m.params), given, allowed)
<1>1. m.op = Translate(o).op /\ m.params = Translate(o).params /\ o \in ForMe(given)
  BY CommandFacts
<1>2. CASE /\ o.command = "GO_TO" /\ Translate(o).op = CmdOp.SET_WAYPOINT
           /\ Translate(o).params = Waypoint(o.lat, o.ttl)
  BY <1>1, <1>2, WaypointTold
<1>3. CASE /\ o.command \in DOMAIN MissionOf /\ Translate(o).op = CmdOp.SET_MISSION
           /\ Translate(o).params = PackMission(MissionType[MissionOf[o.command]], Limit(o))
  BY <1>1, <1>3, MissionTold
<1>4. CASE Translate(o).op = CmdOp.CLEAR_OVERRIDE
  <2>1. Told(ov, m.op, m.params) = NoOverride
    BY <1>1, <1>4 DEF Told, CmdOp
  <2>2. OverrideOK(NoOverride, given, allowed)
    BY DEF OverrideOK, NoOverride, NoMission, NoPlace
  <2> QED
    BY <2>1, <2>2
<1>5. IsActionOp(Translate(o).op)
  BY <1>1
<1> QED
  BY <1>2, <1>3, <1>4, <1>5, ActionsAre

LEMMA PayloadHandled ==
  ASSUME NEW given \in SUBSET Orders, NEW allowed \in BOOLEAN,
         NEW m \in Messages(given, allowed), NEW a, AgentOK(a, given, allowed)
  PROVE  AgentOK(OnPayload(a, m), given, allowed)
<1> DEFINE b == IF a.own = NoEui /\ ~HasFlag(m.flags, GATEWAY) /\ ~HasFlag(m.flags, RELAYED)
                THEN [a EXCEPT !.own = m.eui] ELSE a
<1>1. AgentOK(b, given, allowed)
  BY OnlyOwn
<1> HIDE DEF b
<1>2. CASE m.type \in {"hello", "telemetry", "neighbors"}
  <2>1. m \notin {Malformed, None}
    BY <1>2 DEF Malformed, None
  <2>2. OnPayload(a, m) \in {OnHello(b, m), OnTelemetry(b, m), OnNeighbors(b, m)}
    BY <1>2, <2>1 DEF OnPayload, b
  <2> QED
    BY <1>1, <2>2, ReportHandled
<1>3. CASE /\ m \in {Downlink(o, Translate(o)) : o \in given} /\ allowed /\ IsActionOp(m.op)
           /\ m.type = "cmd" => m.eui = Me
  <2>1. PICK o \in given : m = Downlink(o, Translate(o))
    BY <1>3
  <2>2. m.type \in {"cmd", "broadcast"}
    BY <1>3, <2>1, CommandFacts
  <2>3. m \notin {Malformed, None}
    BY <2>2 DEF Malformed, None
  <2>4. OnPayload(a, m) = [b EXCEPT !.ov = Told(b.ov, m.op, m.params)]
    BY <2>2, <2>3 DEF OnPayload, b
  <2>5. OverrideOK(Told(b.ov, m.op, m.params), given, allowed)
    BY <1>1, <1>3, <2>1, CommandTold DEF AgentOK
  <2> QED
    BY <1>1, <2>4, <2>5, OnlyOverride
<1>4. \A i \in DOMAIN Reports : Reports[i].type \in {"hello", "telemetry", "neighbors"}
  BY CommandChainAssumption
<1> QED
  BY <1>2, <1>3, <1>4 DEF Messages

-----------------------------------------------------------------------------
(* The chain: one message after the other.                                 *)

LEMMA LeastNatural ==
  ASSUME NEW T \in SUBSET Nat, T # {}
  PROVE  \E x \in T : \A y \in T : x <= y
<1> DEFINE R == OpToRel(<, Nat)
<1>1. IsWellFoundedOn(R, Nat)
  BY NatLessThanWellFounded
<1>2. \E x \in T : \A y \in T : <<y, x>> \notin R
  <2> HIDE DEF R
  <2> QED BY <1>1, WFMin
<1>3. \A x, y \in Nat : <<y, x>> \notin R => x <= y
  BY DEF OpToRel
<1> QED
  <2> HIDE DEF R
  <2> QED BY <1>2, <1>3

\* after is what Handled makes of the first n messages.
HandledUpTo(after, a, msgs, n) ==
  after = [i \in 0..n |-> IF i = 0 THEN a ELSE OnPayload(after[i - 1], msgs[i])]

LEMMA HandlingEnds ==
  ASSUME NEW n \in Nat, NEW a, NEW msgs
  PROVE  \E after : HandledUpTo(after, a, msgs, n)
<1> DEFINE Lacking == {k \in 0..n : ~ \E after : HandledUpTo(after, a, msgs, k)}
<1>1. ASSUME Lacking # {}  PROVE FALSE
  <2>1. PICK k \in Lacking : \A j \in Lacking : k <= j
    <3>1. Lacking \in SUBSET Nat
      OBVIOUS
    <3> HIDE DEF Lacking
    <3> QED
      BY <1>1, <3>1, LeastNatural
  <2>2. CASE k = 0
    <3> DEFINE t == [i \in 0..0 |-> a]
    <3>1. t = [i \in 0..0 |-> IF i = 0 THEN a ELSE OnPayload(t[i - 1], msgs[i])]
      BY \A i \in 0..0 : i = 0
    <3>2. HandledUpTo(t, a, msgs, 0)
      BY <3>1 DEF HandledUpTo
    <3> QED
      BY <2>1, <2>2, <3>2
  <2>3. CASE k # 0
    <3>1. k - 1 \in 0..n /\ k - 1 \notin Lacking
      <4> HIDE DEF Lacking
      <4>1. k \in 0..n
        BY DEF Lacking
      <4> QED
        BY <2>1, <2>3, <4>1
    <3>2. PICK s : HandledUpTo(s, a, msgs, k - 1)
      BY <3>1
    <3> DEFINE t == [i \in 0..k |-> IF i < k THEN s[i] ELSE OnPayload(s[k - 1], msgs[k])]
    <3>3. ASSUME NEW i \in 0..k
          PROVE  t[i] = IF i = 0 THEN a ELSE OnPayload(t[i - 1], msgs[i])
      <4>1. k \in Nat /\ k > 0
        BY <2>3
      <4>2. CASE i = k
        <5>1. t[i] = OnPayload(s[k - 1], msgs[k]) /\ t[k - 1] = s[k - 1] /\ i # 0
          BY <4>1, <4>2
        <5> QED
          BY <4>2, <5>1
      <4>3. CASE i < k
        <5>1. i \in 0..k - 1 /\ t[i] = s[i]
          BY <4>1, <4>3
        <5>2. s[i] = IF i = 0 THEN a ELSE OnPayload(s[i - 1], msgs[i])
          BY <3>2, <5>1 DEF HandledUpTo
        <5>3. i # 0 => t[i - 1] = s[i - 1]
          BY <4>1, <4>3
        <5> QED
          BY <5>1, <5>2, <5>3
      <4> QED
        BY <4>1, <4>2, <4>3
    <3>4. HandledUpTo(t, a, msgs, k)
      <4>1. t = [i \in 0..k |-> t[i]]
        OBVIOUS
      <4> HIDE DEF t
      <4> QED
        BY <3>3, <4>1 DEF HandledUpTo
    <3> QED
      BY <2>1, <3>4
  <2> QED
    BY <2>2, <2>3
<1> QED
  BY <1>1

LEMMA AllHandled ==
  ASSUME NEW given \in SUBSET Orders, NEW allowed \in BOOLEAN,
         NEW msgs \in Seq(Messages(given, allowed)), NEW a, AgentOK(a, given, allowed)
  PROVE  AgentOK(Handled(a, msgs), given, allowed)
<1> DEFINE n == Len(msgs)
<1>1. n \in Nat /\ \A i \in 1..n : msgs[i] \in Messages(given, allowed)
  OBVIOUS
<1>2. Handled(a, msgs) = (CHOOSE after : HandledUpTo(after, a, msgs, n))[n]
  BY DEF Handled, HandledUpTo
<1> HIDE DEF n
<1>3. PICK after : HandledUpTo(after, a, msgs, n) /\ Handled(a, msgs) = after[n]
  BY <1>1, <1>2, HandlingEnds
<1> DEFINE Wrong == {k \in 0..n : ~AgentOK(after[k], given, allowed)}
<1>4. ASSUME Wrong # {}  PROVE FALSE
  <2>1. PICK k \in Wrong : \A j \in Wrong : k <= j
    <3>1. Wrong \in SUBSET Nat
      BY <1>1
    <3> HIDE DEF Wrong
    <3> QED
      BY <1>4, <3>1, LeastNatural
  <2>2. k \in 0..n /\ k \in Nat /\ ~AgentOK(after[k], given, allowed)
    BY <1>1
  <2>3. after[k] = IF k = 0 THEN a ELSE OnPayload(after[k - 1], msgs[k])
    BY <1>3, <2>2 DEF HandledUpTo
  <2>4. k # 0
    BY <2>2, <2>3
  <2>5. k - 1 \in 0..n /\ k \in 1..n /\ k - 1 \notin Wrong
    <3> HIDE DEF Wrong
    <3> QED
      BY <1>1, <2>1, <2>2, <2>4
  <2>6. AgentOK(after[k - 1], given, allowed)
    BY <2>5
  <2> QED
    BY <1>1, <2>2, <2>3, <2>4, <2>5, <2>6, PayloadHandled
<1> QED
  BY <1>1, <1>3, <1>4

-----------------------------------------------------------------------------
(* The line: what may arrive of a frame.                                   *)

\* What arrived of the frame of m, and how many frames may be lost with it
Piece(a, m, l) ==
  LET f == Frame(Encode(m))
  IN  \/ l = 0 /\ a = f
      \/ l = 1 /\ \E i \in HitAt : a = RemoveAt(f, i)
      \/ l = 2 /\ a = Half(f)

LEMMA Glued ==
  ASSUME NEW s \in Seq(Nat), NEW t \in Seq(Nat)
  PROVE  /\ s \o t \in Seq(Nat) /\ Len(s \o t) = Len(s) + Len(t)
         /\ \A x \in 1..Len(s) : (s \o t)[x] = s[x]
         /\ \A x \in 1..Len(t) : (s \o t)[Len(s) + x] = t[x]
  BY SMT

LEMMA Removed ==
  ASSUME NEW f \in Seq(Nat), NEW i \in 1..Len(f) - 1
  PROVE  /\ RemoveAt(f, i) \in Seq(Nat) /\ Len(RemoveAt(f, i)) = Len(f) - 1
         /\ \A x \in 1..Len(f) - 1 : RemoveAt(f, i)[x] = IF x < i THEN f[x] ELSE f[x + 1]
<1> DEFINE s == SubSeq(f, 1, i - 1)
           t == SubSeq(f, i + 1, Len(f))
<1>0. Len(f) \in Nat /\ i \in Nat /\ 1 <= i /\ i < Len(f)
  OBVIOUS
<1>1. s \in Seq(Nat) /\ Len(s) = i - 1 /\ \A x \in 1..i - 1 : s[x] = f[x]
  BY <1>0
<1>2. t \in Seq(Nat) /\ Len(t) = Len(f) - i /\ \A x \in 1..Len(f) - i : t[x] = f[i + x]
  BY <1>0
<1>3. RemoveAt(f, i) = s \o t
  BY DEF RemoveAt
<1> HIDE DEF s, t
<1>6. /\ s \o t \in Seq(Nat) /\ Len(s \o t) = Len(s) + Len(t)
      /\ \A x \in 1..Len(s) : (s \o t)[x] = s[x]
      /\ \A x \in 1..Len(t) : (s \o t)[Len(s) + x] = t[x]
  BY <1>1, <1>2, Glued
<1>4. /\ s \o t \in Seq(Nat) /\ Len(s \o t) = Len(f) - 1
      /\ \A x \in 1..i - 1 : (s \o t)[x] = s[x]
      /\ \A x \in 1..Len(f) - i : (s \o t)[(i - 1) + x] = t[x]
  <2>1. Len(s) + Len(t) = Len(f) - 1
    BY <1>0, <1>1, <1>2
  <2>2. Len(s) = i - 1 /\ Len(t) = Len(f) - i
    BY <1>1, <1>2
  <2> QED
    BY Zenon, <1>6, <2>1, <2>2
<1>5. ASSUME NEW x \in 1..Len(f) - 1
      PROVE  (s \o t)[x] = IF x < i THEN f[x] ELSE f[x + 1]
  <2>1. CASE x < i
    BY <1>0, <1>1, <1>4, <2>1
  <2>2. CASE ~(x < i)
    <3>1. PICK y \in 1..Len(f) - i : (i - 1) + y = x /\ i + y = x + 1
      <4>1. x - (i - 1) \in 1..Len(f) - i
        BY <1>0, <2>2
      <4> QED
        BY <1>0, <4>1
    <3>2. (s \o t)[x] = t[y] /\ t[y] = f[x + 1]
      BY <1>2, <1>4, <3>1
    <3> QED
      BY <2>2, <3>2
  <2> QED
    BY <2>1, <2>2
<1> QED
  BY <1>3, <1>4, <1>5

LEMMA PieceFacts ==
  ASSUME ChecksumsTell, NEW m \in MayBeSent, NEW a, NEW l, Piece(a, m, l)
  PROVE  /\ a \in Seq(Nat) /\ Len(a) >= 1 /\ l \in 0..2
         /\ \A i \in 1..Len(a) : a[i] = 0 <=> i = Len(a) /\ l # 2
<1> DEFINE f == Frame(Encode(m))
<1>1. /\ f \in Seq(Nat) /\ Len(f) >= 2 /\ HitAt \subseteq 1..Len(f) - 1
      /\ \A i \in 1..Len(f) : f[i] = 0 <=> i = Len(f)
  BY DEF ChecksumsTell
<1>2. \/ l = 0 /\ a = f
      \/ l = 1 /\ \E i \in HitAt : a = RemoveAt(f, i)
      \/ l = 2 /\ a = Half(f)
  BY DEF Piece
<1> HIDE DEF f
<1>0. Len(f) \in Nat
  BY <1>1
<1>3. CASE l = 0 /\ a = f
  BY <1>0, <1>1, <1>3
<1>4. CASE l = 1 /\ \E i \in HitAt : a = RemoveAt(f, i)
  <2>1. PICK i \in HitAt : a = RemoveAt(f, i)
    BY <1>4
  <2>2. i \in 1..Len(f) - 1
    BY <1>1
  <2>3. /\ a \in Seq(Nat) /\ Len(a) = Len(f) - 1
        /\ \A x \in 1..Len(f) - 1 : a[x] = IF x < i THEN f[x] ELSE f[x + 1]
    BY <1>1, <2>1, <2>2, Removed
  <2>4. ASSUME NEW x \in 1..Len(a)
        PROVE  a[x] = 0 <=> x = Len(a)
    <3>1. x \in 1..Len(f) /\ x + 1 \in 1..Len(f) /\ x # Len(f) /\ i \in Nat /\ i < Len(f)
      BY <1>0, <2>2, <2>3
    <3>2. CASE x < i
      <4>1. a[x] = f[x] /\ x # Len(a)
        BY <1>0, <2>2, <2>3, <3>1, <3>2
      <4> QED
        BY <1>1, <3>1, <4>1
    <3>3. CASE ~(x < i)
      <4>1. a[x] = f[x + 1] /\ (x = Len(a) <=> x + 1 = Len(f))
        BY <1>0, <2>3, <3>1, <3>3
      <4> QED
        BY <1>1, <3>1, <4>1
    <3> QED
      BY <3>2, <3>3
  <2>5. Len(a) >= 1 /\ l \in 0..2 /\ l # 2
    BY <1>0, <1>1, <1>4, <2>3
  <2> QED
    BY <2>3, <2>4, <2>5
<1>5. CASE l = 2 /\ a = Half(f)
  <2>1. PICK h \in Nat : h = Len(f) \div 2 /\ 1 <= h /\ h < Len(f)
    BY <1>0, <1>1
  <2>2. a = SubSeq(f, 1, h)
    BY <1>5, <2>1 DEF Half
  <2>3. a \in Seq(Nat) /\ Len(a) = h /\ \A x \in 1..h : a[x] = f[x]
    BY <1>0, <1>1, <2>1, <2>2
  <2>4. ASSUME NEW x \in 1..Len(a)
        PROVE  a[x] # 0
    <3>1. x \in 1..Len(f) /\ x # Len(f)
      BY <1>0, <2>1, <2>3
    <3> QED
      BY <1>1, <2>3, <3>1
  <2> QED
    BY <1>5, <2>1, <2>3, <2>4
<1> QED
  BY <1>2, <1>3, <1>4, <1>5

\* after is what Stumps is up to n.
StumpsUpTo(after, n) ==
  after = [k \in 0..n |->
             IF k = 0 THEN {<<>>}
             ELSE after[k - 1]
                  \cup {s \o Half(Frame(Encode(m))) : s \in after[k - 1], m \in MayBeSent}]

LEMMA StumpsEnd ==
  ASSUME NEW n \in Nat
  PROVE  \E after : StumpsUpTo(after, n)
<1> DEFINE Longer(T) == T \cup {s \o Half(Frame(Encode(m))) : s \in T, m \in MayBeSent}
           Lacking == {k \in 0..n : ~ \E after : StumpsUpTo(after, k)}
<1>0. ASSUME NEW after, NEW k
      PROVE  StumpsUpTo(after, k)
             <=> after = [i \in 0..k |-> IF i = 0 THEN {<<>>} ELSE Longer(after[i - 1])]
  BY DEF StumpsUpTo
<1> HIDE DEF Longer
<1>1. ASSUME Lacking # {}  PROVE FALSE
  <2>1. PICK k \in Lacking : \A j \in Lacking : k <= j
    <3>1. Lacking \in SUBSET Nat
      OBVIOUS
    <3> HIDE DEF Lacking
    <3> QED
      BY <1>1, <3>1, LeastNatural
  <2>2. CASE k = 0
    <3> DEFINE t == [i \in 0..0 |-> {<<>>}]
    <3>1. t = [i \in 0..0 |-> IF i = 0 THEN {<<>>} ELSE Longer(t[i - 1])]
      BY \A i \in 0..0 : i = 0
    <3>2. StumpsUpTo(t, 0)
      BY <1>0, <3>1
    <3> QED
      BY <2>1, <2>2, <3>2
  <2>3. CASE k # 0
    <3>1. k - 1 \in 0..n /\ k - 1 \notin Lacking
      <4> HIDE DEF Lacking
      <4>1. k \in 0..n
        BY DEF Lacking
      <4> QED
        BY <2>1, <2>3, <4>1
    <3>2. PICK s : StumpsUpTo(s, k - 1)
      BY <3>1
    <3> DEFINE t == [i \in 0..k |-> IF i < k THEN s[i] ELSE Longer(s[k - 1])]
    <3>3. ASSUME NEW i \in 0..k
          PROVE  t[i] = IF i = 0 THEN {<<>>} ELSE Longer(t[i - 1])
      <4>1. k \in Nat /\ k > 0
        BY <2>3
      <4>2. CASE i = k
        <5>1. t[i] = Longer(s[k - 1]) /\ t[k - 1] = s[k - 1] /\ i # 0
          BY <4>1, <4>2
        <5> QED
          BY <4>2, <5>1
      <4>3. CASE i < k
        <5>1. i \in 0..k - 1 /\ t[i] = s[i]
          BY <4>1, <4>3
        <5>2. s[i] = IF i = 0 THEN {<<>>} ELSE Longer(s[i - 1])
          <6>1. s = [x \in 0..k - 1 |-> IF x = 0 THEN {<<>>} ELSE Longer(s[x - 1])]
            BY <1>0, <3>2
          <6> QED
            BY <5>1, <6>1
        <5>3. i # 0 => t[i - 1] = s[i - 1]
          BY <4>1, <4>3
        <5> QED
          BY <5>1, <5>2, <5>3
      <4> QED
        BY <4>1, <4>2, <4>3
    <3>4. StumpsUpTo(t, k)
      <4>1. t = [i \in 0..k |-> t[i]]
        OBVIOUS
      <4> HIDE DEF t
      <4> QED
        BY <1>0, <3>3, <4>1
    <3> QED
      BY <2>1, <3>4
  <2> QED
    BY <2>2, <2>3
<1> QED
  BY <1>1

LEMMA StumpsGrow ==
  /\ <<>> \in Stumps[0]
  /\ \A k \in 1..MaxFrames : Stumps[k - 1] \subseteq Stumps[k]
  /\ \A k \in 1..MaxFrames : \A s \in Stumps[k - 1], m \in MayBeSent :
       s \o Half(Frame(Encode(m))) \in Stumps[k]
<1> DEFINE Longer(T) == T \cup {s \o Half(Frame(Encode(m))) : s \in T, m \in MayBeSent}
<1>0. ASSUME NEW after, NEW k
      PROVE  StumpsUpTo(after, k)
             <=> after = [i \in 0..k |-> IF i = 0 THEN {<<>>} ELSE Longer(after[i - 1])]
  BY DEF StumpsUpTo
<1>1. Stumps = CHOOSE after : StumpsUpTo(after, MaxFrames)
  BY DEF Stumps, StumpsUpTo
<1>2. StumpsUpTo(Stumps, MaxFrames)
  BY <1>1, StumpsEnd, JetsonAgentAssumption
<1>3. Stumps = [k \in 0..MaxFrames |-> IF k = 0 THEN {<<>>} ELSE Longer(Stumps[k - 1])]
  <2> HIDE DEF Longer
  <2> QED
    BY <1>0, <1>2
<1>4. 0 \in 0..MaxFrames /\ \A k \in 1..MaxFrames : k \in 0..MaxFrames /\ k # 0
  BY JetsonAgentAssumption
<1>5. \A T : T \subseteq Longer(T)
             /\ \A s \in T, m \in MayBeSent : s \o Half(Frame(Encode(m))) \in Longer(T)
  OBVIOUS
<1> HIDE DEF Longer
<1>6. Stumps[0] = {<<>>} /\ \A k \in 1..MaxFrames : Stumps[k] = Longer(Stumps[k - 1])
  BY <1>3, <1>4
<1>7. ASSUME NEW k \in 1..MaxFrames
      PROVE  /\ Stumps[k - 1] \subseteq Stumps[k]
             /\ \A s \in Stumps[k - 1], m \in MayBeSent :
                  s \o Half(Frame(Encode(m))) \in Stumps[k]
  <2>1. Stumps[k] = Longer(Stumps[k - 1])
    BY <1>6
  <2> QED
    BY <1>5, <2>1
<1> QED
  BY Zenon, <1>6, <1>7

LEMMA NoStump == \A k \in 0..MaxFrames : <<>> \in Stumps[k]
<1> DEFINE Lacking == {k \in 0..MaxFrames : <<>> \notin Stumps[k]}
<1>1. ASSUME Lacking # {}  PROVE FALSE
  <2>1. PICK k \in Lacking : \A j \in Lacking : k <= j
    <3>1. Lacking \in SUBSET Nat
      BY JetsonAgentAssumption
    <3> HIDE DEF Lacking
    <3> QED
      BY <1>1, <3>1, LeastNatural
  <2>2. k \in 0..MaxFrames /\ <<>> \notin Stumps[k]
    OBVIOUS
  <2>3. k # 0
    BY <2>2, StumpsGrow
  <2>4. k - 1 \in 0..MaxFrames /\ k \in 1..MaxFrames /\ k - 1 \notin Lacking
    <3> HIDE DEF Lacking
    <3> QED
      BY <2>1, <2>2, <2>3, JetsonAgentAssumption
  <2>5. <<>> \in Stumps[k - 1]
    BY <2>4
  <2> QED
    BY <2>2, <2>4, <2>5, StumpsGrow
<1> QED
  BY <1>1

-----------------------------------------------------------------------------
(* The line: where every octet comes from.                                 *)

\* The pieces e have arrived of the messages sent; c tells where each ends in the octets
\* put, and lost how many frames may be lost up to there.
Laid(sent, e, c, lost) ==
  LET n == Len(sent)
  IN  /\ c \in [0..n -> Nat] /\ c[0] = 0 /\ \A i \in 0..n : c[i] <= c[n]
      /\ lost \in [0..n -> Nat] /\ lost[0] = 0
      /\ \A i \in 1..n :
           c[i] = c[i - 1] + Len(e[i]) /\ Piece(e[i], sent[i], lost[i] - lost[i - 1])

\* On the line is what follows the first r octets of the pieces.
Ahead(ln, sent, e, c, r) ==
  /\ ln \in Seq(Nat) /\ r \in Nat /\ r + Len(ln) = c[Len(sent)]
  /\ \A i \in 1..Len(sent) : \A x \in 1..Len(e[i]) :
       c[i - 1] + x > r => ln[(c[i - 1] + x) - r] = e[i][x]

\* The messages got are some of the first j that were sent, in their order.
Taken(sent, j, got) ==
  /\ Len(got) <= j
  /\ \E from \in [1..Len(got) -> 1..j] :
       /\ \A x, y \in 1..Len(got) : x < y => from[x] < from[y]
       /\ got = [x \in 1..Len(got) |-> sent[from[x]]]

\* j pieces are read to their end and a part of the next one; the buffer holds this part
\* after the stump g, and of the j messages no more are missing than may be lost.
At(sent, e, c, lost, r, b, got, j, g) ==
  /\ IF j = Len(sent) THEN r = c[j] /\ b = g
     ELSE c[j] <= r /\ r < c[j + 1] /\ b = g \o SubSeq(e[j + 1], 1, r - c[j])
  /\ g \in Stumps[j]
  /\ got \in Seq(MayBeSent) /\ Taken(sent, j, got)
  /\ j - Len(got) + (IF g = <<>> THEN 0 ELSE 1) <= lost[j]

Reached(sent, e, c, lost, r, b, got) ==
  \E j \in 0..Len(sent), g \in Seq(Nat) : At(sent, e, c, lost, r, b, got, j, g)

LEMMA TakenOn ==
  ASSUME NEW sent, NEW j \in Nat, NEW got \in Seq(MayBeSent), Taken(sent, j, got)
  PROVE  /\ Taken(sent, j + 1, got)
         /\ sent[j + 1] \in MayBeSent => Taken(sent, j + 1, Append(got, sent[j + 1]))
<1> DEFINE q == Len(got)
<1>0. q \in Nat /\ q <= j
  BY DEF Taken
<1>1. PICK from \in [1..q -> 1..j] :
        /\ \A x, y \in 1..q : x < y => from[x] < from[y]
        /\ got = [x \in 1..q |-> sent[from[x]]]
  BY DEF Taken
<1>2. Taken(sent, j + 1, got)
  <2>1. from \in [1..q -> 1..j + 1]
    OBVIOUS
  <2> QED
    BY <1>0, <1>1, <2>1 DEF Taken
<1>3. ASSUME sent[j + 1] \in MayBeSent
      PROVE  Taken(sent, j + 1, Append(got, sent[j + 1]))
  <2> DEFINE more == [x \in 1..q + 1 |-> IF x = q + 1 THEN j + 1 ELSE from[x]]
             all == Append(got, sent[j + 1])
  <2>1. Len(all) = q + 1 /\ q + 1 <= j + 1
    BY <1>0
  <2>2. more \in [1..q + 1 -> 1..j + 1]
    BY <1>0
  <2>3. ASSUME NEW x \in 1..q + 1, NEW y \in 1..q + 1, x < y
        PROVE  more[x] < more[y]
    <3>1. x \in 1..q /\ more[x] = from[x] /\ from[x] \in 1..j
      BY <1>0, <2>3
    <3>2. CASE y = q + 1
      <4>1. more[y] = j + 1
        BY <3>2
      <4> QED
        BY <3>1, <4>1
    <3>3. CASE y # q + 1
      <4>1. y \in 1..q /\ more[y] = from[y]
        BY <1>0, <3>3
      <4> QED
        BY <1>1, <2>3, <3>1, <4>1
    <3> QED
      BY <3>2, <3>3
  <2>4. all = [x \in 1..q + 1 |-> sent[more[x]]]
    <3>1. all = [x \in 1..q + 1 |-> IF x = q + 1 THEN sent[j + 1] ELSE got[x]]
      BY <1>0, <1>3
    <3>2. \A x \in 1..q + 1 : (IF x = q + 1 THEN sent[j + 1] ELSE got[x]) = sent[more[x]]
      <4>1. \A x \in 1..q + 1 : x # q + 1 => x \in 1..q
        BY <1>0
      <4> QED
        BY <1>1, <4>1
    <3> HIDE DEF all, more
    <3> QED
      BY <3>1, <3>2
  <2> HIDE DEF all, more, q
  <2> QED
    BY <2>1, <2>2, <2>3, <2>4 DEF Taken, all
<1> QED
  BY <1>2, <1>3

\* The buffer holds octets.
LEMMA BufferTypes ==
  ASSUME ChecksumsTell, NEW sent \in Seq(MayBeSent), NEW e, NEW c, NEW lost,
         Laid(sent, e, c, lost), NEW r \in Nat, NEW b, NEW got, Reached(sent, e, c, lost, r, b, got)
  PROVE  b \in Seq(Nat)
<1>1. PICK j \in 0..Len(sent), g \in Seq(Nat) : At(sent, e, c, lost, r, b, got, j, g)
  BY DEF Reached
<1>2. CASE j = Len(sent)
  BY <1>1, <1>2 DEF At
<1>3. CASE j # Len(sent)
  <2>1. j + 1 \in 1..Len(sent) /\ j \in 0..Len(sent) /\ Len(sent) \in Nat
    BY <1>3
  <2>2. /\ c[j] <= r /\ r < c[j + 1] /\ b = g \o SubSeq(e[j + 1], 1, r - c[j])
    BY <1>1, <1>3 DEF At
  <2>3. /\ c \in [0..Len(sent) -> Nat]
        /\ c[j + 1] = c[(j + 1) - 1] + Len(e[j + 1])
        /\ Piece(e[j + 1], sent[j + 1], lost[j + 1] - lost[(j + 1) - 1])
    BY <2>1 DEF Laid
  <2>4. sent[j + 1] \in MayBeSent
    BY <2>1
  <2>5. e[j + 1] \in Seq(Nat)
    BY <2>3, <2>4, PieceFacts
  <2>6. r - c[j] \in Nat /\ r - c[j] <= Len(e[j + 1])
    <3>1. (j + 1) - 1 = j
      OBVIOUS
    <3> QED
      <4>1. c[j] \in Nat /\ Len(e[j + 1]) \in Nat
        <5>1. c[j] \in Nat
          BY <2>1, <2>3
        <5>2. Len(e[j + 1]) \in Nat
          BY <2>5
        <5> QED
          BY <5>1, <5>2
      <4>2. c[j + 1] = c[j] + Len(e[j + 1])
        BY <2>3, <3>1
      <4> QED
        BY <2>2, <4>1, <4>2
  <2>7. SubSeq(e[j + 1], 1, r - c[j]) \in Seq(Nat)
    BY <2>5, <2>6
  <2> QED
    BY <2>2, <2>7, Glued
<1> QED
  BY <1>2, <1>3

\* Where a piece ends, the next one begins.
LEMMA NextPiece ==
  ASSUME ChecksumsTell, NEW sent \in Seq(MayBeSent), NEW e, NEW c, NEW lost,
         Laid(sent, e, c, lost), NEW j \in 1..Len(sent), NEW g \in Seq(Nat), g \in Stumps[j],
         NEW got \in Seq(MayBeSent), Taken(sent, j, got),
         j - Len(got) + (IF g = <<>> THEN 0 ELSE 1) <= lost[j]
  PROVE  Reached(sent, e, c, lost, c[j], g, got)
<1> DEFINE n == Len(sent)
<1>0. n \in Nat /\ j \in 0..n
  OBVIOUS
<1>1. n \in Nat /\ j \in 0..n /\ c[j] \in Nat
  <2>1. c \in [0..n -> Nat]
    BY DEF Laid
  <2> QED
    BY <1>0, <2>1
<1>2. CASE j = n
  <2>1. At(sent, e, c, lost, c[j], g, got, j, g)
    BY <1>2 DEF At
  <2> QED
    BY <1>1, <2>1 DEF Reached
<1>3. CASE j # n
  <2>1. j + 1 \in 1..n /\ (j + 1) - 1 = j
    BY <1>1, <1>3
  <2>2. /\ c[j + 1] = c[j] + Len(e[j + 1])
        /\ Piece(e[j + 1], sent[j + 1], lost[j + 1] - lost[j])
    BY <2>1 DEF Laid
  <2>3. sent[j + 1] \in MayBeSent
    BY <2>1
  <2>4. e[j + 1] \in Seq(Nat) /\ Len(e[j + 1]) >= 1
    BY <2>2, <2>3, PieceFacts
  <2>5. c[j] < c[j + 1] /\ c[j] - c[j] = 0
    BY <1>1, <2>2, <2>4
  <2>6. g \o SubSeq(e[j + 1], 1, 0) = g
    BY <2>4
  <2>7. At(sent, e, c, lost, c[j], g, got, j, g)
    BY <1>1, <1>3, <2>5, <2>6 DEF At
  <2> QED
    BY <1>1, <2>7 DEF Reached
<1> QED
  BY <1>2, <1>3

LEMMA SameOctets ==
  ASSUME NEW s \in Seq(Nat), NEW t \in Seq(Nat), Len(s) = Len(t),
         \A i \in 1..Len(s) : s[i] = t[i]
  PROVE  s = t
  BY SMT

LEMMA OneMore ==
  ASSUME NEW g \in Seq(Nat), NEW a \in Seq(Nat), NEW k \in Nat, k < Len(a)
  PROVE  Append(g \o SubSeq(a, 1, k), a[k + 1]) = g \o SubSeq(a, 1, k + 1)
<1> DEFINE s == SubSeq(a, 1, k)
           t == SubSeq(a, 1, k + 1)
<1>3. s \in Seq(Nat) /\ Len(s) = k /\ \A i \in 1..k : s[i] = a[i]
  OBVIOUS
<1>4. t \in Seq(Nat) /\ Len(t) = k + 1 /\ \A i \in 1..k + 1 : t[i] = a[i]
  OBVIOUS
<1>5. a[k + 1] \in Nat
  OBVIOUS
<1> HIDE DEF s, t
<1>2. Append(g \o s, a[k + 1]) = g \o t
  <2>1. /\ g \o s \in Seq(Nat) /\ Len(g \o s) = Len(g) + k
        /\ \A i \in 1..Len(g) : (g \o s)[i] = g[i]
        /\ \A i \in 1..k : (g \o s)[Len(g) + i] = a[i]
    BY <1>3, Glued
  <2>2. /\ g \o t \in Seq(Nat) /\ Len(g \o t) = Len(g) + (k + 1)
        /\ \A i \in 1..Len(g) : (g \o t)[i] = g[i]
        /\ \A i \in 1..k + 1 : (g \o t)[Len(g) + i] = a[i]
    <3>1. /\ g \o t \in Seq(Nat) /\ Len(g \o t) = Len(g) + Len(t)
          /\ \A i \in 1..Len(g) : (g \o t)[i] = g[i]
          /\ \A i \in 1..Len(t) : (g \o t)[Len(g) + i] = t[i]
      BY <1>4, Glued
    <3> QED
      BY <1>4, <3>1
  <2> DEFINE u == Append(g \o s, a[k + 1])
  <2>3. /\ u \in Seq(Nat) /\ Len(u) = Len(g) + (k + 1) /\ u[Len(g) + (k + 1)] = a[k + 1]
        /\ \A i \in 1..Len(g) + k : u[i] = (g \o s)[i]
    BY <1>5, <2>1
  <2> HIDE DEF u
  <2>4. ASSUME NEW i \in 1..Len(u)  PROVE u[i] = (g \o t)[i]
    <3>0. Len(g) \in Nat
      OBVIOUS
    <3>1. CASE i \in 1..Len(g)
      <4>1. i \in 1..Len(g) + k
        BY <3>0, <3>1
      <4> QED
        BY <2>1, <2>2, <2>3, <3>1, <4>1
    <3>2. CASE i \notin 1..Len(g)
      <4>1. PICK x \in 1..k + 1 : i = Len(g) + x
        <5>1. i - Len(g) \in 1..k + 1 /\ i = Len(g) + (i - Len(g))
          BY <2>3, <3>0, <3>2
        <5> QED
          BY <5>1
      <4>2. (g \o t)[i] = a[x]
        BY <2>2, <4>1
      <4>3. CASE x = k + 1
        BY <2>3, <4>1, <4>2, <4>3
      <4>4. CASE x # k + 1
        <5>1. x \in 1..k /\ Len(g) + x \in 1..Len(g) + k
          BY <3>0, <4>4
        <5> QED
          BY <2>1, <2>3, <4>1, <4>2, <5>1
      <4> QED
        BY <4>3, <4>4
    <3> QED
      BY <3>1, <3>2
  <2> QED
    BY <2>2, <2>3, <2>4, SameOctets DEF u
<1> QED
  BY <1>2 DEF s, t

\* One octet more is read: octet x stays in the buffer, or ends a frame that is good or
\* cost one of those that may be lost.
LEMMA OneOctet ==
  ASSUME ChecksumsTell, NEW sent \in Seq(MayBeSent), Len(sent) <= MaxFrames,
         NEW e, NEW c, NEW lost, Laid(sent, e, c, lost),
         NEW r \in Nat, r < c[Len(sent)],
         NEW b, NEW got, Reached(sent, e, c, lost, r, b, got),
         NEW x, \A i \in 1..Len(sent) : \A k \in 1..Len(e[i]) : c[i - 1] + k = r + 1 => x = e[i][k]
  PROVE  IF x = 0
         THEN \/ Deframed(b) = <<>> /\ Reached(sent, e, c, lost, r + 1, <<>>, got)
              \/ \E m \in MayBeSent :
                   /\ Deframed(b) = <<Encode(m)>> /\ Decode(Encode(m)) = m
                   /\ Reached(sent, e, c, lost, r + 1, <<>>, Append(got, m))
         ELSE Reached(sent, e, c, lost, r + 1, Append(b, x), got)
<1> DEFINE n == Len(sent)
<1>1. PICK j \in 0..n, g \in Seq(Nat) : At(sent, e, c, lost, r, b, got, j, g)
  BY DEF Reached
<1>2. j # n /\ j \in Nat /\ n \in Nat
  BY <1>1 DEF At
<1> DEFINE a == e[j + 1]
           m == sent[j + 1]
           l == lost[j + 1] - lost[j]
           k == r - c[j]
<1>3. j + 1 \in 1..n /\ j \in 0..n /\ (j + 1) - 1 = j
  BY <1>2
<1>4. m \in MayBeSent
  BY <1>3
<1>5. /\ c[j] \in Nat /\ c[j + 1] = c[j] + Len(a)
      /\ lost[j] \in Nat /\ lost[j + 1] \in Nat /\ Piece(a, m, l)
  <2>1. /\ c \in [0..n -> Nat] /\ lost \in [0..n -> Nat]
        /\ \A i \in 1..n :
             c[i] = c[i - 1] + Len(e[i]) /\ Piece(e[i], sent[i], lost[i] - lost[i - 1])
    BY DEF Laid
  <2>2. j \in 0..n /\ j + 1 \in 0..n
    BY <1>2, <1>3
  <2>3. c[j + 1] = c[j] + Len(a) /\ Piece(a, m, l)
    BY <1>3, <2>1
  <2> QED
    BY <2>1, <2>2, <2>3
<1>6. /\ a \in Seq(Nat) /\ Len(a) \in Nat /\ Len(a) >= 1 /\ l \in 0..2
      /\ \A i \in 1..Len(a) : a[i] = 0 <=> i = Len(a) /\ l # 2
  <2> HIDE DEF a, m, l
  <2> QED
    BY <1>4, <1>5, PieceFacts
<1>7. /\ b = g \o SubSeq(a, 1, k) /\ c[j] <= r /\ r < c[j + 1]
      /\ g \in Stumps[j] /\ got \in Seq(MayBeSent) /\ Taken(sent, j, got)
      /\ j - Len(got) + (IF g = <<>> THEN 0 ELSE 1) <= lost[j]
  BY <1>1, <1>2 DEF At
<1>8. k \in Nat /\ k < Len(a) /\ k + 1 \in 1..Len(a) /\ c[j] + (k + 1) = r + 1
  <2>1. Len(a) \in Nat /\ c[j] \in Nat /\ c[j] <= r /\ r < c[j] + Len(a)
    BY <1>5, <1>6, <1>7
  <2> HIDE DEF a
  <2> QED
    BY <2>1
<1>9. x = a[k + 1]
  BY <1>3, <1>8
<1>10. Append(b, x) = g \o SubSeq(a, 1, k + 1)
  <2> HIDE DEF a, k
  <2> QED
    BY <1>6, <1>7, <1>8, <1>9, OneMore
<1>11. Len(got) \in Nat
  BY <1>7
<1>12. j + 1 \in 1..MaxFrames /\ j \in 0..MaxFrames - 1 /\ (j + 1) - 1 = j
  BY <1>2, <1>3, JetsonAgentAssumption
<1>13. Taken(sent, j + 1, got) /\ Taken(sent, j + 1, Append(got, m))
  BY <1>2, <1>4, <1>7, TakenOn
<1>14. CASE k + 1 # Len(a)
  <2>1. x # 0
    <3> HIDE DEF a, k
    <3> QED
      BY <1>6, <1>8, <1>9, <1>14
  <2>2. c[j] <= r + 1 /\ r + 1 < c[j + 1] /\ (r + 1) - c[j] = k + 1
    <3>1. k + 1 < Len(a)
      <4> HIDE DEF a, k
      <4> QED
        BY <1>6, <1>8, <1>14
    <3>2. Len(a) \in Nat /\ c[j] \in Nat /\ c[j] <= r /\ c[j + 1] = c[j] + Len(a)
      <4> HIDE DEF a
      <4> QED
        BY Zenon, <1>5, <1>6, <1>7
    <3> HIDE DEF a
    <3> QED
      BY <3>1, <3>2
  <2>3. At(sent, e, c, lost, r + 1, Append(b, x), got, j, g)
    BY <1>2, <1>7, <1>10, <2>2 DEF At
  <2> QED
    BY <1>3, <2>1, <2>3 DEF Reached
<1>15. CASE k + 1 = Len(a) /\ l = 2
  <2>1. x # 0
    <3> HIDE DEF a, k, l
    <3> QED
      BY <1>6, <1>8, <1>9, <1>15
  <2>2. r + 1 = c[j + 1]
    BY <1>5, <1>8, <1>15
  <2>3. Append(b, x) = g \o a /\ g \o a \in Seq(Nat) /\ g \o a # <<>>
    <3> HIDE DEF a, k
    <3>1. SubSeq(a, 1, Len(a)) = a
      BY <1>6
    <3>2. g \o a \in Seq(Nat) /\ Len(g \o a) = Len(g) + Len(a)
      BY <1>6
    <3>3. g \o a # <<>>
      BY <1>6, <3>2
    <3> QED
      BY <1>10, <1>15, <3>1, <3>2, <3>3
  <2>4. a = Half(Frame(Encode(m)))
    <3> HIDE DEF a, m, l
    <3> QED
      BY <1>5, <1>15 DEF Piece
  <2>5. g \o a \in Stumps[j + 1]
    <3> HIDE DEF a, m
    <3> QED
      BY <1>4, <1>7, <1>12, <2>4, StumpsGrow
  <2>6. (j + 1) - Len(got) + (IF g \o a = <<>> THEN 0 ELSE 1) <= lost[j + 1]
    <3>1. lost[j + 1] = lost[j] + 2 /\ lost[j] \in Nat
      BY <1>5, <1>15
    <3>2. j - Len(got) <= lost[j]
      BY <1>2, <1>7, <1>11, <3>1
    <3>3. (IF g \o a = <<>> THEN 0 ELSE 1) = 1
      BY <2>3
    <3> HIDE DEF a
    <3> QED
      BY <1>2, <1>11, <3>1, <3>2, <3>3
  <2>7. Reached(sent, e, c, lost, c[j + 1], g \o a, got)
    <3> HIDE DEF a, m, l, k
    <3> QED
      BY <1>3, <1>7, <1>13, <2>3, <2>5, <2>6, NextPiece
  <2> QED
    BY <2>1, <2>2, <2>3, <2>7
<1>16. CASE k + 1 = Len(a) /\ l # 2
  <2>1. x = 0
    <3> HIDE DEF a, k, l
    <3> QED
      BY <1>6, <1>8, <1>9, <1>16
  <2>2. r + 1 = c[j + 1]
    BY <1>5, <1>8, <1>16
  <2>3. b = g \o Front(a)
    <3>1. k = Len(a) - 1
      <4> HIDE DEF a, k
      <4> QED
        BY <1>6, <1>8, <1>16
    <3> QED
      BY <1>7, <3>1 DEF Front
  <2>4. <<>> \in Seq(Nat) /\ <<>> \in Stumps[j + 1]
    BY <1>12, NoStump
  <2>5. CASE l = 0 /\ g = <<>>
    <3>1. a = Frame(Encode(m))
      <4> HIDE DEF a, m, l
      <4> QED
        BY <1>5, <2>5 DEF Piece
    <3>2. Deframed(Front(a)) = <<Encode(m)>> /\ Decode(Encode(m)) = m
      <4> HIDE DEF a, m
      <4> QED
        BY <1>4, <3>1 DEF ChecksumsTell
    <3>3. b = Front(a)
      <4> HIDE DEF a
      <4>1. Front(a) \in Seq(Nat)
        BY <1>6 DEF Front
      <4> QED
        BY <2>3, <2>5, <4>1
    <3>4. /\ Append(got, m) \in Seq(MayBeSent)
          /\ (j + 1) - Len(Append(got, m)) + 0 <= lost[j + 1]
      <4>1. Append(got, m) \in Seq(MayBeSent) /\ Len(Append(got, m)) = Len(got) + 1
        BY <1>4, <1>7
      <4>2. lost[j + 1] = lost[j]
        BY <1>5, <2>5
      <4> QED
        BY <1>2, <1>5, <1>7, <1>11, <2>5, <4>1, <4>2
    <3>5. Reached(sent, e, c, lost, c[j + 1], <<>>, Append(got, m))
      <4> HIDE DEF a, m, l, k
      <4> QED
        BY <1>3, <1>13, <2>4, <3>4, NextPiece
    <3> QED
      BY <1>4, <2>1, <2>2, <3>2, <3>3, <3>5
  <2>6. CASE ~(l = 0 /\ g = <<>>)
    <3>1. Deframed(b) = <<>>
      <4>1. CASE l = 0 /\ g # <<>>
        <5>1. a = Frame(Encode(m))
          <6> HIDE DEF a, m, l
          <6> QED
            BY <1>5, <4>1 DEF Piece
        <5> HIDE DEF a, m, l
        <5>2. \A i \in 0..MaxFrames - 1 : \A s \in Stumps[i] :
                s # <<>> => Deframed(s \o Front(Frame(Encode(m)))) = <<>>
          BY <1>4 DEF ChecksumsTell
        <5> QED
          BY Zenon, <1>7, <1>12, <2>3, <4>1, <5>1, <5>2
      <4>2. CASE l # 0
        <5>1. PICK i \in HitAt : a = RemoveAt(Frame(Encode(m)), i)
          <6> HIDE DEF a, m, l
          <6> QED
            BY <1>5, <1>16, <4>2 DEF Piece
        <5> HIDE DEF a, m, l
        <5>2. \A y \in 0..MaxFrames - 1 : \A s \in Stumps[y] :
                Deframed(s \o Front(RemoveAt(Frame(Encode(m)), i))) = <<>>
          BY <1>4 DEF ChecksumsTell
        <5> QED
          BY Zenon, <1>7, <1>12, <2>3, <5>1, <5>2
      <4> QED
        BY <2>6, <4>1, <4>2
    <3>2. (j + 1) - Len(got) + 0 <= lost[j + 1]
      <4>1. CASE g # <<>>
        <5>1. lost[j] <= lost[j + 1] /\ lost[j] \in Nat /\ lost[j + 1] \in Nat
          BY <1>5, <1>6
        <5>2. j - Len(got) + 1 <= lost[j]
          BY <1>7, <4>1
        <5> QED
          BY <1>2, <1>11, <5>1, <5>2
      <4>2. CASE g = <<>>
        <5>1. lost[j + 1] = lost[j] + 1
          <6>1. l = 1
            <7> HIDE DEF a, l
            <7> QED
              BY <1>6, <1>16, <2>6, <4>2
          <6> QED
            BY <1>5, <6>1
        <5> QED
          BY <1>2, <1>5, <1>7, <1>11, <4>2, <5>1
      <4> QED
        BY <4>1, <4>2
    <3>3. Reached(sent, e, c, lost, c[j + 1], <<>>, got)
      <4> HIDE DEF a, m, l, k
      <4> QED
        BY <1>3, <1>7, <1>13, <2>4, <3>2, NextPiece
    <3> QED
      BY <2>1, <2>2, <3>1, <3>3
  <2> QED
    BY <2>5, <2>6
<1> QED
  BY <1>14, <1>15, <1>16

-----------------------------------------------------------------------------
(* The line: one octet after the other.                                    *)

Decoded(payloads) == [i \in DOMAIN payloads |-> Decode(payloads[i])]

Payloads == {Encode(m) : m \in MayBeSent}

LEMMA DecodedTypes ==
  ASSUME ChecksumsTell, NEW ps \in Seq(Payloads)
  PROVE  Decoded(ps) \in Seq(MayBeSent) /\ Len(Decoded(ps)) = Len(ps)
<1>1. Len(ps) \in Nat /\ DOMAIN ps = 1..Len(ps)
  OBVIOUS
<1>2. ASSUME NEW i \in 1..Len(ps)  PROVE Decode(ps[i]) \in MayBeSent
  <2>1. ps[i] \in Payloads
    OBVIOUS
  <2>2. PICK m \in MayBeSent : ps[i] = Encode(m)
    BY <2>1 DEF Payloads
  <2>3. Decode(Encode(m)) = m
    BY DEF ChecksumsTell
  <2> QED
    BY <2>2, <2>3
<1>3. Decoded(ps) = [i \in 1..Len(ps) |-> Decode(ps[i])]
  BY <1>1 DEF Decoded
<1> QED
  BY <1>1, <1>2, <1>3

LEMMA AppendedLast ==
  ASSUME NEW S, NEW s \in Seq(S), NEW t \in Seq(S), NEW x \in S
  PROVE  s \o Append(t, x) = Append(s \o t, x)
<1> DEFINE u == s \o Append(t, x)
           v == Append(s \o t, x)
<1>1. Append(t, x) \in Seq(S) /\ s \o t \in Seq(S) /\ Len(s) \in Nat /\ Len(t) \in Nat
  OBVIOUS
<1>2. u \in Seq(S) /\ v \in Seq(S) /\ Len(u) = Len(s) + Len(t) + 1 /\ Len(v) = Len(s) + Len(t) + 1
  BY <1>1
<1>3. ASSUME NEW i \in 1..Len(s) + Len(t) + 1
      PROVE  u[i] = v[i]
  BY <1>1
<1> HIDE DEF u, v
<1> QED
  BY <1>1, <1>2, <1>3 DEF u, v

LEMMA DecodedOn ==
  ASSUME ChecksumsTell, NEW ps \in Seq(Payloads), NEW m \in MayBeSent
  PROVE  /\ ps \o <<Encode(m)>> \in Seq(Payloads)
         /\ Decoded(ps \o <<Encode(m)>>) = Append(Decoded(ps), m)
<1> DEFINE p == Encode(m)
           n == Len(ps)
           qs == ps \o <<p>>
<1>1. p \in Payloads /\ Decode(p) = m /\ n \in Nat
  BY DEF Payloads, ChecksumsTell
<1> HIDE DEF p
<1>2. /\ qs \in Seq(Payloads) /\ Len(qs) = n + 1 /\ qs[n + 1] = p
      /\ \A i \in 1..n : qs[i] = ps[i]
  BY <1>1
<1>3. DOMAIN qs = 1..n + 1 /\ DOMAIN ps = 1..n
  BY <1>2
<1> HIDE DEF qs
<1>4. Decoded(qs) = [i \in 1..n + 1 |-> Decode(qs[i])]
  BY <1>3 DEF Decoded
<1>5. Decoded(ps) = [i \in 1..n |-> Decode(ps[i])] /\ Decoded(ps) \in Seq(MayBeSent)
  BY <1>3, DecodedTypes DEF Decoded
<1>6. /\ Len(Decoded(ps)) = n
      /\ Append(Decoded(ps), m) = [i \in 1..n + 1 |-> IF i = n + 1 THEN m ELSE Decoded(ps)[i]]
  <2>1. Len(Decoded(ps)) = n
    BY DecodedTypes
  <2> QED
    BY <1>1, <1>5, <2>1
<1>7. \A i \in 1..n + 1 : Decode(qs[i]) = IF i = n + 1 THEN m ELSE Decoded(ps)[i]
  <2>1. \A i \in 1..n + 1 : i # n + 1 => i \in 1..n
    BY <1>1
  <2> QED
    BY <1>1, <1>2, <1>5, <2>1
<1>8. Decoded(qs) = Append(Decoded(ps), m)
  BY <1>4, <1>6, <1>7
<1> QED
  BY <1>2, <1>8 DEF p, qs

\* What one octet makes of the payloads and the buffer.
FeedOctet(s, octet) ==
  IF octet = 0 THEN [payloads |-> WithFrame(s.payloads, s.buf), buf |-> <<>>]
  ELSE [payloads |-> s.payloads, buf |-> Append(s.buf, octet)]

\* got was handled before, and s is what has been fed since.
Fed(sent, e, c, lost, r, got, s) ==
  /\ s.payloads \in Seq(Payloads)
  /\ Reached(sent, e, c, lost, r, s.buf, got \o Decoded(s.payloads))

LEMMA FedOn ==
  ASSUME ChecksumsTell, NEW sent \in Seq(MayBeSent), Len(sent) <= MaxFrames,
         NEW e, NEW c, NEW lost, Laid(sent, e, c, lost),
         NEW r \in Nat, r < c[Len(sent)], NEW got \in Seq(MayBeSent),
         NEW s, Fed(sent, e, c, lost, r, got, s),
         NEW x, \A i \in 1..Len(sent) : \A k \in 1..Len(e[i]) : c[i - 1] + k = r + 1 => x = e[i][k]
  PROVE  Fed(sent, e, c, lost, r + 1, got, FeedOctet(s, x))
<1> DEFINE d == Decoded(s.payloads)
<1>1. s.payloads \in Seq(Payloads) /\ d \in Seq(MayBeSent)
  BY DecodedTypes DEF Fed
<1>2. Reached(sent, e, c, lost, r, s.buf, got \o d)
  BY DEF Fed
<1> HIDE DEF d
<1>3. IF x = 0
      THEN \/ Deframed(s.buf) = <<>> /\ Reached(sent, e, c, lost, r + 1, <<>>, got \o d)
           \/ \E m \in MayBeSent :
                /\ Deframed(s.buf) = <<Encode(m)>> /\ Decode(Encode(m)) = m
                /\ Reached(sent, e, c, lost, r + 1, <<>>, Append(got \o d, m))
      ELSE Reached(sent, e, c, lost, r + 1, Append(s.buf, x), got \o d)
  BY <1>2, OneOctet
<1>4. CASE x # 0
  <2>1. FeedOctet(s, x) = [payloads |-> s.payloads, buf |-> Append(s.buf, x)]
    BY <1>4 DEF FeedOctet
  <2>2. FeedOctet(s, x).payloads = s.payloads /\ FeedOctet(s, x).buf = Append(s.buf, x)
    BY <2>1
  <2> QED
    BY <1>1, <1>3, <1>4, <2>2 DEF Fed, d
<1>5. CASE x = 0
  <2>1. FeedOctet(s, x) = [payloads |-> s.payloads \o Deframed(s.buf), buf |-> <<>>]
    BY <1>5 DEF FeedOctet, WithFrame
  <2>2. FeedOctet(s, x).payloads = s.payloads \o Deframed(s.buf) /\ FeedOctet(s, x).buf = <<>>
    <3> DEFINE p == s.payloads \o Deframed(s.buf)
    <3>1. FeedOctet(s, x) = [payloads |-> p, buf |-> <<>>]
      BY <2>1
    <3> HIDE DEF p
    <3>2. FeedOctet(s, x).payloads = p /\ FeedOctet(s, x).buf = <<>>
      BY <3>1
    <3> QED
      BY <3>2 DEF p
  <2>3. CASE Deframed(s.buf) = <<>> /\ Reached(sent, e, c, lost, r + 1, <<>>, got \o d)
    <3>1. s.payloads \o <<>> = s.payloads
      BY <1>1
    <3>2. FeedOctet(s, x).payloads = s.payloads
      BY <2>2, <2>3, <3>1
    <3> QED
      BY <1>1, <2>2, <2>3, <3>2 DEF Fed, d
  <2>4. CASE \E m \in MayBeSent :
                /\ Deframed(s.buf) = <<Encode(m)>> /\ Decode(Encode(m)) = m
                /\ Reached(sent, e, c, lost, r + 1, <<>>, Append(got \o d, m))
    <3>1. PICK m \in MayBeSent :
             /\ Deframed(s.buf) = <<Encode(m)>>
             /\ Reached(sent, e, c, lost, r + 1, <<>>, Append(got \o d, m))
      BY <2>4
    <3>2. FeedOctet(s, x).payloads = s.payloads \o <<Encode(m)>>
      BY <2>2, <3>1
    <3>3. /\ FeedOctet(s, x).payloads \in Seq(Payloads)
          /\ Decoded(FeedOctet(s, x).payloads) = Append(d, m)
      BY <1>1, <3>2, DecodedOn DEF d
    <3>4. got \o Append(d, m) = Append(got \o d, m)
      BY <1>1, AppendedLast
    <3> QED
      BY <2>2, <3>1, <3>3, <3>4 DEF Fed
  <2> QED
    BY <1>3, <1>5, <2>3, <2>4
<1> QED
  BY <1>4, <1>5

LEMMA LastEndFacts ==
  ASSUME NEW chunk, NEW i \in Nat
  PROVE  LET k == LastEnd(chunk, i)
         IN  /\ k \in 0..i
             /\ k # 0 => chunk[k] = 0
             /\ \A j \in 1..i : chunk[j] = 0 => j <= k
<1> DEFINE S == {0} \cup {j \in 1..i : chunk[j] = 0}
           T == {i - x : x \in S}
<1>1. S \in SUBSET Nat /\ 0 \in S /\ \A x \in S : x <= i
  OBVIOUS
<1>2. \E x \in S : \A y \in S : x >= y
  <2>1. T \in SUBSET Nat /\ T # {}
    <3> HIDE DEF S
    <3> QED
      BY <1>1
  <2>2. PICK t \in T : \A u \in T : t <= u
    <3> HIDE DEF T
    <3> QED
      BY <2>1, LeastNatural
  <2>3. PICK x \in S : t = i - x
    BY <2>2
  <2>4. ASSUME NEW y \in S  PROVE x >= y
    <3>1. i - y \in T
      OBVIOUS
    <3>2. i - x <= i - y /\ x \in Nat /\ y \in Nat
      <4> HIDE DEF S, T
      <4> QED
        BY <1>1, <2>2, <2>3, <3>1
    <3> QED
      BY <3>2
  <2> QED
    BY <2>3, <2>4
<1>3. LastEnd(chunk, i) = CHOOSE x \in S : \A y \in S : x >= y
  BY DEF LastEnd, Max
<1>4. LastEnd(chunk, i) \in S /\ \A y \in S : LastEnd(chunk, i) >= y
  <2> HIDE DEF S
  <2> QED
    BY <1>2, <1>3
<1>5. LastEnd(chunk, i) \in Nat
  <2> HIDE DEF S
  <2> QED
    BY <1>1, <1>4
<1> QED
  BY <1>4, <1>5

\* The last delimiter, and what is behind it, with one octet more
LEMMA LastEndNext ==
  ASSUME NEW chunk, NEW i \in Nat, i # 0
  PROVE  LastEnd(chunk, i) = IF chunk[i] = 0 THEN i ELSE LastEnd(chunk, i - 1)
<1> DEFINE k == LastEnd(chunk, i)
           l == LastEnd(chunk, i - 1)
<1>1. i - 1 \in Nat /\ i \in 1..i
  OBVIOUS
<1>2. /\ k \in 0..i
      /\ k # 0 => chunk[k] = 0
      /\ \A j \in 1..i : chunk[j] = 0 => j <= k
  BY LastEndFacts
<1>3. /\ l \in 0..i - 1
      /\ l # 0 => chunk[l] = 0
      /\ \A j \in 1..i - 1 : chunk[j] = 0 => j <= l
  BY <1>1, LastEndFacts
<1> HIDE DEF k, l
<1>4. CASE chunk[i] = 0
  <2>1. i <= k
    BY <1>1, <1>2, <1>4
  <2>2. k = i
    BY <1>2, <2>1
  <2> QED
    BY <1>4, <2>2 DEF k
<1>5. CASE chunk[i] # 0
  <2>1. k \in 0..i - 1
    BY <1>2, <1>5
  <2>2. k = 0 \/ k <= l
    BY <1>2, <1>3, <2>1
  <2>3. l = 0 \/ l <= k
    BY <1>2, <1>3
  <2>4. k = l
    BY <1>2, <1>3, <2>2, <2>3
  <2> QED
    BY <1>5, <2>4 DEF k, l
<1> QED
  BY <1>4, <1>5

LEMMA Cut ==
  ASSUME NEW s \in Seq(Nat), NEW k \in Nat, NEW i \in Nat, k <= i, i <= Len(s)
  PROVE  /\ SubSeq(s, k + 1, i) \in Seq(Nat) /\ Len(SubSeq(s, k + 1, i)) = i - k
         /\ \A x \in 1..i - k : SubSeq(s, k + 1, i)[x] = s[k + x]
<1> DEFINE t == SubSeq(s, k + 1, i)
<1>1. t = [x \in 1..i - k |-> s[k + x]]
  <2>1. (i - (k + 1)) + 1 = i - k /\ \A x \in 1..i - k : (x + (k + 1)) - 1 = k + x
    OBVIOUS
  <2> QED
    BY <2>1
<1>2. \A x \in 1..i - k : k + x \in 1..Len(s) /\ s[k + x] \in Nat
  OBVIOUS
<1> HIDE DEF t
<1>3. t \in Seq(Nat) /\ Len(t) = i - k
  <2>1. i - k \in Nat
    OBVIOUS
  <2> QED
    BY <1>1, <1>2, <2>1
<1> QED
  BY <1>1, <1>3 DEF t

LEMMA UnendedNext ==
  ASSUME NEW b \in Seq(Nat), NEW chunk \in Seq(Nat)
  PROVE  /\ Unended(b, chunk, 0) = b
         /\ \A i \in 1..Len(chunk) :
              Unended(b, chunk, i) = IF chunk[i] = 0 THEN <<>>
                                     ELSE Append(Unended(b, chunk, i - 1), chunk[i])
<1>1. Unended(b, chunk, 0) = b
  <2>1. LastEnd(chunk, 0) = 0
    <3>1. LastEnd(chunk, 0) \in 0..0
      BY LastEndFacts
    <3> QED
      BY <3>1
  <2>2. b \o SubSeq(chunk, 1, 0) = b
    OBVIOUS
  <2> QED
    BY <2>1, <2>2 DEF Unended
<1>2. ASSUME NEW i \in 1..Len(chunk)
      PROVE  Unended(b, chunk, i) = IF chunk[i] = 0 THEN <<>>
                                    ELSE Append(Unended(b, chunk, i - 1), chunk[i])
  <2>1. i \in Nat /\ i # 0 /\ i - 1 \in Nat /\ i - 1 < Len(chunk) /\ (i - 1) + 1 = i
    OBVIOUS
  <2>2. LastEnd(chunk, i) = IF chunk[i] = 0 THEN i ELSE LastEnd(chunk, i - 1)
    BY <2>1, LastEndNext
  <2>3. CASE chunk[i] = 0
    <3>1. SubSeq(chunk, i + 1, i) = <<>>
      BY <2>1
    <3> QED
      BY <2>1, <2>2, <2>3, <3>1 DEF Unended
  <2>4. CASE chunk[i] # 0 /\ LastEnd(chunk, i - 1) = 0
    <3>1. Append(b \o SubSeq(chunk, 1, i - 1), chunk[i]) = b \o SubSeq(chunk, 1, i)
      <4>1. Append(b \o SubSeq(chunk, 1, i - 1), chunk[(i - 1) + 1])
              = b \o SubSeq(chunk, 1, (i - 1) + 1)
        BY <2>1, OneMore
      <4> QED
        BY <2>1, <4>1
    <3> QED
      BY <2>2, <2>4, <3>1 DEF Unended
  <2>5. CASE chunk[i] # 0 /\ LastEnd(chunk, i - 1) # 0
    <3> DEFINE k == LastEnd(chunk, i - 1)
               s == SubSeq(chunk, k + 1, i - 1)
               t == SubSeq(chunk, k + 1, i)
    <3>1. k \in 0..i - 1
      BY <2>1, LastEndFacts
    <3>2. Unended(b, chunk, i) = t /\ Unended(b, chunk, i - 1) = s
      BY <2>2, <2>5 DEF Unended
    <3> HIDE DEF k
    <3>3. k \in Nat /\ k <= i - 1 /\ i \in Nat /\ i <= Len(chunk)
      BY <2>1, <3>1
    <3>4. s \in Seq(Nat) /\ Len(s) = (i - 1) - k /\ \A x \in 1..(i - 1) - k : s[x] = chunk[k + x]
      BY <3>3, Cut
    <3>5. t \in Seq(Nat) /\ Len(t) = i - k /\ \A x \in 1..i - k : t[x] = chunk[k + x]
      <4>1. k <= i
        BY <3>3
      <4> QED
        BY <3>3, <4>1, Cut
    <3>6. chunk[i] \in Nat
      OBVIOUS
    <3> HIDE DEF s, t
    <3> DEFINE u == Append(s, chunk[i])
    <3>7. /\ u \in Seq(Nat) /\ Len(u) = i - k /\ u[i - k] = chunk[i]
          /\ \A x \in 1..(i - 1) - k : u[x] = chunk[k + x]
      BY <3>3, <3>4, <3>6
    <3> HIDE DEF u
    <3>8. ASSUME NEW x \in 1..Len(u)  PROVE u[x] = t[x]
      <4>1. x \in 1..i - k
        BY <3>7
      <4>2. CASE x = i - k
        <5>1. k + x = i
          BY <3>3, <4>2
        <5> QED
          BY <3>5, <3>7, <4>1, <4>2, <5>1
      <4>3. CASE x # i - k
        <5>1. x \in 1..(i - 1) - k
          BY <3>3, <4>1, <4>3
        <5> QED
          BY <3>5, <3>7, <4>1, <5>1
      <4> QED
        BY <4>2, <4>3
    <3>9. u = t
      BY <3>5, <3>7, <3>8, SameOctets
    <3> QED
      BY <2>5, <3>2, <3>9 DEF u
  <2> QED
    BY <2>3, <2>4, <2>5
<1> QED
  BY <1>1, <1>2

\* The payloads of the frames that end among the first i octets, given those of fewer
More(g, b, chunk, i) ==
  LET end == LastEnd(chunk, i)
  IN  IF end = 0 THEN <<>> ELSE WithFrame(g[end - 1], Unended(b, chunk, end - 1))

GoodUpTo(g, b, chunk, n) == g = [i \in 0..n |-> More(g, b, chunk, i)]

LEMMA FeedingEnds ==
  ASSUME NEW n \in Nat, NEW b, NEW chunk
  PROVE  \E g : GoodUpTo(g, b, chunk, n)
<1> DEFINE Lacking == {k \in 0..n : ~ \E g : GoodUpTo(g, b, chunk, k)}
<1>1. ASSUME NEW s, NEW t, NEW i \in Nat, \A j \in 0..i - 1 : s[j] = t[j]
      PROVE  More(s, b, chunk, i) = More(t, b, chunk, i)
  <2>1. LastEnd(chunk, i) \in 0..i
    BY LastEndFacts
  <2>2. CASE LastEnd(chunk, i) # 0
    <3>1. LastEnd(chunk, i) - 1 \in 0..i - 1
      BY <2>1, <2>2
    <3>2. s[LastEnd(chunk, i) - 1] = t[LastEnd(chunk, i) - 1]
      BY <1>1, <3>1
    <3> QED
      BY <3>2 DEF More
  <2> QED
    BY <2>2 DEF More
<1>2. ASSUME Lacking # {}  PROVE FALSE
  <2>1. PICK k \in Lacking : \A j \in Lacking : k <= j
    <3>1. Lacking \in SUBSET Nat
      OBVIOUS
    <3> HIDE DEF Lacking
    <3> QED
      BY <1>2, <3>1, LeastNatural
  <2>2. CASE k = 0
    <3> DEFINE t == [i \in 0..0 |-> More(<<>>, b, chunk, i)]
    <3>1. More(t, b, chunk, 0) = More(<<>>, b, chunk, 0)
      <4>1. \A j \in 0..0 - 1 : t[j] = <<>>[j]
        OBVIOUS
      <4> HIDE DEF t
      <4> QED
        BY <1>1, <4>1
    <3>2. t = [i \in 0..0 |-> More(t, b, chunk, i)]
      <4>1. \A i \in 0..0 : i = 0
        OBVIOUS
      <4>2. \A i \in 0..0 : More(<<>>, b, chunk, i) = More(t, b, chunk, i)
        BY <3>1, <4>1
      <4> QED
        BY <4>2
    <3>3. GoodUpTo(t, b, chunk, 0)
      BY <3>2 DEF GoodUpTo
    <3> QED
      BY <2>1, <2>2, <3>3
  <2>3. CASE k # 0
    <3>1. k - 1 \in 0..n /\ k - 1 \notin Lacking /\ k \in Nat /\ k > 0
      <4> HIDE DEF Lacking
      <4>1. k \in 0..n
        BY DEF Lacking
      <4> QED
        BY <2>1, <2>3, <4>1
    <3>2. PICK s : GoodUpTo(s, b, chunk, k - 1)
      BY <3>1
    <3>3. s = [i \in 0..k - 1 |-> More(s, b, chunk, i)]
      BY <3>2 DEF GoodUpTo
    <3> DEFINE t == [i \in 0..k |-> IF i < k THEN s[i] ELSE More(s, b, chunk, k)]
    <3>4. \A i \in 0..k - 1 : t[i] = s[i]
      BY <3>1
    <3>5. ASSUME NEW i \in 0..k  PROVE t[i] = More(t, b, chunk, i)
      <4>1. i \in Nat /\ \A j \in 0..i - 1 : s[j] = t[j]
        BY <3>1, <3>4
      <4>2. More(s, b, chunk, i) = More(t, b, chunk, i)
        <5> HIDE DEF t
        <5> QED
          BY <1>1, <4>1
      <4>3. t[i] = More(s, b, chunk, i)
        <5>1. CASE i < k
          <6>1. i \in 0..k - 1
            BY <3>1, <5>1
          <6>2. s[i] = More(s, b, chunk, i)
            BY <3>3, <6>1
          <6> QED
            BY <3>4, <6>1, <6>2
        <5>2. CASE i = k
          BY <3>1, <5>2
        <5> QED
          BY <3>1, <5>1, <5>2
      <4> QED
        BY <4>2, <4>3
    <3>6. GoodUpTo(t, b, chunk, k)
      <4>1. t = [i \in 0..k |-> t[i]]
        OBVIOUS
      <4> HIDE DEF t
      <4>2. t = [i \in 0..k |-> More(t, b, chunk, i)]
        BY <3>5, <4>1
      <4> QED
        BY <4>2 DEF GoodUpTo
    <3> QED
      BY <2>1, <3>6
  <2> QED
    BY <2>2, <2>3
<1> QED
  BY <1>2

\* after is what feed makes of the first octets, one by one.
FedUpTo(after, b, chunk, n) ==
  \A i \in 0..n :
    after[i] = IF i = 0 THEN [payloads |-> <<>>, buf |-> b] ELSE FeedOctet(after[i - 1], chunk[i])

\* What feed makes of a chunk is what its octets make one after the other.
LEMMA FedOneByOne ==
  ASSUME NEW b \in Seq(Nat), NEW chunk \in Seq(Nat)
  PROVE  \E after : FedUpTo(after, b, chunk, Len(chunk)) /\ Feed(b, chunk) = after[Len(chunk)]
<1> DEFINE n == Len(chunk)
           good == CHOOSE g : GoodUpTo(g, b, chunk, n)
           after == [i \in 0..n |-> [payloads |-> good[i], buf |-> Unended(b, chunk, i)]]
<1>1. n \in Nat
  OBVIOUS
<1>2. GoodUpTo(good, b, chunk, n)
  <2>1. \E g : GoodUpTo(g, b, chunk, n)
    BY <1>1, FeedingEnds
  <2> QED
    BY <2>1
<1>3. Feed(b, chunk) = [payloads |-> good[n], buf |-> Unended(b, chunk, n)]
  BY DEF Feed, GoodUpTo, More
<1> HIDE DEF good
<1>4. ASSUME NEW i \in 0..n
      PROVE  good[i] = IF LastEnd(chunk, i) = 0 THEN <<>>
                       ELSE WithFrame(good[LastEnd(chunk, i) - 1],
                                      Unended(b, chunk, LastEnd(chunk, i) - 1))
  BY <1>2 DEF GoodUpTo, More
<1>5. ASSUME NEW i \in 0..n
      PROVE  after[i] = IF i = 0 THEN [payloads |-> <<>>, buf |-> b]
                        ELSE FeedOctet(after[i - 1], chunk[i])
  <2>1. after[i] = [payloads |-> good[i], buf |-> Unended(b, chunk, i)]
    OBVIOUS
  <2>2. CASE i = 0
    <3>1. LastEnd(chunk, 0) \in 0..0
      BY LastEndFacts
    <3>2. good[0] = <<>>
      BY <1>4, <2>2, <3>1
    <3>3. Unended(b, chunk, 0) = b
      BY UnendedNext
    <3> HIDE DEF after
    <3> QED
      BY <2>1, <2>2, <3>2, <3>3
  <2>3. CASE i # 0
    <3>1. i \in 1..n /\ i - 1 \in 0..n /\ i \in Nat /\ i - 1 \in Nat
      BY <1>1, <2>3
    <3>2. after[i - 1] = [payloads |-> good[i - 1], buf |-> Unended(b, chunk, i - 1)]
      BY <3>1
    <3>3. after[i - 1].payloads = good[i - 1] /\ after[i - 1].buf = Unended(b, chunk, i - 1)
      <4> HIDE DEF after
      <4> QED
        BY <3>2
    <3> HIDE DEF after, n
    <3>4. LastEnd(chunk, i) = IF chunk[i] = 0 THEN i ELSE LastEnd(chunk, i - 1)
      BY <2>3, <3>1, LastEndNext
    <3>5. Unended(b, chunk, i) = IF chunk[i] = 0 THEN <<>>
                                 ELSE Append(Unended(b, chunk, i - 1), chunk[i])
      BY <3>1, UnendedNext DEF n
    <3>6. CASE chunk[i] = 0
      <4>1. good[i] = WithFrame(good[i - 1], Unended(b, chunk, i - 1))
        BY <1>4, <2>3, <3>4, <3>6
      <4>2. FeedOctet(after[i - 1], chunk[i]) = [payloads |-> good[i], buf |-> <<>>]
        BY <3>3, <3>6, <4>1 DEF FeedOctet
      <4> QED
        BY <2>1, <2>3, <3>5, <3>6, <4>2
    <3>7. CASE chunk[i] # 0
      <4>1. good[i] = good[i - 1]
        <5>1. good[i - 1] = IF LastEnd(chunk, i - 1) = 0 THEN <<>>
                            ELSE WithFrame(good[LastEnd(chunk, i - 1) - 1],
                                           Unended(b, chunk, LastEnd(chunk, i - 1) - 1))
          BY <1>4, <3>1
        <5>2. LastEnd(chunk, i) = LastEnd(chunk, i - 1)
          BY <3>4, <3>7
        <5> QED
          BY <1>4, <5>1, <5>2
      <4>2. FeedOctet(after[i - 1], chunk[i])
              = [payloads |-> good[i], buf |-> Unended(b, chunk, i)]
        BY <3>3, <3>5, <3>7, <4>1 DEF FeedOctet
      <4> QED
        BY <2>1, <2>3, <4>2
    <3> QED
      BY <3>6, <3>7
  <2> QED
    BY <2>2, <2>3
<1>6. Feed(b, chunk) = after[n]
  BY <1>1, <1>3
<1>7. FedUpTo(after, b, chunk, n)
  <2> HIDE DEF after, n
  <2> QED
    BY <1>5 DEF FedUpTo
<1> QED
  BY <1>6, <1>7

\* q octets of the line are read at once.
LEMMA AllFed ==
  ASSUME ChecksumsTell, NEW sent \in Seq(MayBeSent), Len(sent) <= MaxFrames,
         NEW e, NEW c, NEW lost, Laid(sent, e, c, lost),
         NEW ln, NEW r, Ahead(ln, sent, e, c, r), NEW b, NEW got,
         Reached(sent, e, c, lost, r, b, got), NEW q \in 0..Len(ln)
  PROVE  Fed(sent, e, c, lost, r + q, got, Feed(b, SubSeq(ln, 1, q)))
<1> DEFINE chunk == SubSeq(ln, 1, q)
           n == Len(chunk)
<1>1. ln \in Seq(Nat) /\ r \in Nat /\ r + Len(ln) = c[Len(sent)]
  BY DEF Ahead
<1>2. n = q /\ q \in Nat /\ \A i \in 1..q : chunk[i] = ln[i]
  BY <1>1
<1>3. got \in Seq(MayBeSent)
  BY DEF Reached, At
<1>4. b \in Seq(Nat) /\ chunk \in Seq(Nat)
  <2>1. chunk \in Seq(Nat)
    BY <1>1
  <2> QED
    BY <1>1, <2>1, BufferTypes
<1> HIDE DEF n, chunk
<1>5. PICK after : FedUpTo(after, b, chunk, q) /\ Feed(b, chunk) = after[q]
  BY <1>2, <1>4, FedOneByOne DEF n
<1>6. \A i \in 0..q : after[i] = IF i = 0 THEN [payloads |-> <<>>, buf |-> b]
                                 ELSE FeedOctet(after[i - 1], chunk[i])
  BY <1>5 DEF FedUpTo
<1> DEFINE Good(i) == Fed(sent, e, c, lost, r + i, got, after[i])
           Wrong == {i \in 0..q : ~Good(i)}
<1>7. ASSUME Wrong # {}  PROVE FALSE
  <2>1. PICK i \in Wrong : \A j \in Wrong : i <= j
    <3>1. Wrong \in SUBSET Nat
      BY <1>2
    <3> HIDE DEF Wrong
    <3> QED
      BY <1>7, <3>1, LeastNatural
  <2>2. i \in 0..q /\ i \in Nat /\ ~Good(i)
    BY <1>2
  <2>3. CASE i = 0
    <3>1. after[i] = [payloads |-> <<>>, buf |-> b]
      BY <1>6, <2>2, <2>3
    <3>2. after[i].payloads = <<>> /\ after[i].buf = b
      BY <3>1
    <3>3. got \o Decoded(<<>>) = got
      <4>1. Decoded(<<>>) = <<>>
        BY DEF Decoded
      <4> QED
        BY <1>3, <4>1
    <3>4. r + i = r
      BY <1>1, <2>3
    <3>5. after[i].payloads \in Seq(Payloads)
      BY <3>2
    <3>6. Reached(sent, e, c, lost, r + i, after[i].buf, got \o Decoded(after[i].payloads))
      BY <3>2, <3>3, <3>4
    <3> QED
      BY <2>2, <3>5, <3>6 DEF Fed
  <2>4. CASE i # 0
    <3>1. i - 1 \in 0..q /\ i - 1 \notin Wrong /\ i \in 1..q
      <4> HIDE DEF Wrong
      <4> QED
        BY <1>2, <2>1, <2>2, <2>4
    <3>2. Good(i - 1)
      BY <3>1
    <3>3. after[i] = FeedOctet(after[i - 1], ln[i])
      BY <1>2, <1>6, <2>2, <2>4, <3>1
    <3>4. /\ r + (i - 1) \in Nat /\ r + (i - 1) < c[Len(sent)]
          /\ (r + (i - 1)) + 1 = r + i
      BY <1>1, <1>2, <3>1
    <3>5. ASSUME NEW h \in 1..Len(sent), NEW k \in 1..Len(e[h]), c[h - 1] + k = r + i
          PROVE  ln[i] = e[h][k]
      <4>1. c[h - 1] + k > r => ln[(c[h - 1] + k) - r] = e[h][k]
        BY DEF Ahead
      <4>2. r + i > r /\ (r + i) - r = i
        BY <1>1, <3>1
      <4>3. (c[h - 1] + k) - r = i
        BY <3>5, <4>2
      <4> QED
        BY <3>5, <4>1, <4>2, <4>3
    <3>6. Fed(sent, e, c, lost, r + i, got, FeedOctet(after[i - 1], ln[i]))
      BY <1>3, <3>2, <3>4, <3>5, FedOn
    <3> QED
      BY <2>2, <3>3, <3>6
  <2> QED
    BY <2>3, <2>4
<1>8. Good(q)
  BY <1>2, <1>7
<1> QED
  BY <1>5, <1>8 DEF chunk

LEMMA Between ==
  ASSUME NEW p \in Nat, NEW x \in Int, NEW r \in Nat, NEW q \in Nat, NEW len \in Nat,
         p + x > r + q, p + x <= r + len
  PROVE  LET y == (p + x) - (r + q)
         IN  y \in 1..len - q /\ q + y = (p + x) - r /\ p + x > r
  OBVIOUS

LEMMA AheadOn ==
  ASSUME NEW sent, NEW e, NEW c, NEW ln, NEW r, Ahead(ln, sent, e, c, r), NEW q \in 0..Len(ln),
         c \in [0..Len(sent) -> Nat], Len(sent) \in Nat,
         \A i \in 1..Len(sent) : e[i] \in Seq(Nat) /\ c[i] = c[i - 1] + Len(e[i]) /\ c[i] <= c[Len(sent)]
  PROVE  Ahead(SubSeq(ln, q + 1, Len(ln)), sent, e, c, r + q)
<1> DEFINE rest == SubSeq(ln, q + 1, Len(ln))
<1>1. ln \in Seq(Nat) /\ r \in Nat /\ r + Len(ln) = c[Len(sent)] /\ q \in Nat /\ Len(ln) \in Nat
  BY DEF Ahead
<1>2. rest \in Seq(Nat) /\ Len(rest) = Len(ln) - q /\ \A x \in 1..Len(ln) - q : rest[x] = ln[q + x]
  BY <1>1
<1> HIDE DEF rest
<1>3. ASSUME NEW i \in 1..Len(sent), NEW x \in 1..Len(e[i]), c[i - 1] + x > r + q
      PROVE  rest[(c[i - 1] + x) - (r + q)] = e[i][x]
  <2>1. /\ c[i - 1] \in Nat /\ c[i] \in Nat /\ c[i] = c[i - 1] + Len(e[i])
        /\ c[i] <= c[Len(sent)] /\ c[Len(sent)] \in Nat /\ Len(e[i]) \in Nat
    <3>1. i - 1 \in 0..Len(sent) /\ i \in 0..Len(sent) /\ Len(sent) \in 0..Len(sent)
      OBVIOUS
    <3>2. c[i - 1] \in Nat /\ c[i] \in Nat /\ c[Len(sent)] \in Nat
      BY <3>1
    <3>3. Len(e[i]) \in Nat
      OBVIOUS
    <3> QED
      BY <3>2, <3>3
  <2> DEFINE p == c[i - 1]
             y == (p + x) - (r + q)
  <2>3. p \in Nat /\ p + x <= r + Len(ln) /\ p + x > r + q /\ x \in Int
    <3>1. p + x <= p + Len(e[i])
      BY <2>1
    <3> QED
      BY <1>1, <1>3, <2>1, <3>1
  <2>2. y \in 1..Len(ln) - q /\ q + y = (p + x) - r /\ p + x > r
    <3> HIDE DEF p
    <3> QED
      BY <1>1, <2>3, Between
  <2>5. ln[(c[i - 1] + x) - r] = e[i][x]
    BY <2>2 DEF Ahead
  <2> QED
    BY <1>2, <2>2, <2>5
<1>4. r + q \in Nat /\ (r + q) + Len(rest) = c[Len(sent)]
  BY <1>1, <1>2
<1> QED
  BY <1>2, <1>3, <1>4 DEF Ahead, rest

-----------------------------------------------------------------------------
(* The line: its invariant.                                                *)

LineOK(ln, b, sent, got, loss) ==
  /\ sent \in Seq(MayBeSent) /\ Len(sent) <= MaxFrames
  /\ \E e, c, lost, r :
       /\ Laid(sent, e, c, lost) /\ Ahead(ln, sent, e, c, r)
       /\ Reached(sent, e, c, lost, r, b, got)
       /\ loss = lost[Len(sent)]

LEMMA LineBegins == LineOK(<<>>, <<>>, <<>>, <<>>, 0)
<1> DEFINE c == [i \in 0..0 |-> 0]
           s == <<>>
<1>1. /\ s \in Seq(MayBeSent) /\ s \in Seq(Nat) /\ Len(s) = 0 /\ Len(s) <= MaxFrames
      /\ 1..0 = {} /\ 0..0 = {0}
  BY JetsonAgentAssumption
<1>2. c \in [0..0 -> Nat] /\ c[0] = 0 /\ \A i \in 0..0 : c[i] <= c[0]
  OBVIOUS
<1> HIDE DEF c, s
<1>3. Laid(s, s, c, c)
  BY <1>1, <1>2 DEF Laid
<1>4. Ahead(s, s, s, c, 0)
  BY <1>1, <1>2 DEF Ahead
<1>5. Taken(s, 0, s)
  <2> DEFINE from == [x \in 1..0 |-> 0]
  <2>1. from \in [1..0 -> 1..0] /\ \A x, y \in 1..0 : x < y => from[x] < from[y]
    BY <1>1
  <2>2. s = [x \in 1..0 |-> s[from[x]]]
    BY <1>1 DEF s
  <2>3. /\ from \in [1..Len(s) -> 1..0] /\ s = [x \in 1..Len(s) |-> s[from[x]]]
        /\ \A x, y \in 1..Len(s) : x < y => from[x] < from[y]
        /\ Len(s) <= 0
    BY <1>1, <2>1, <2>2
  <2> HIDE DEF from
  <2> QED
    BY Zenon, <2>3 DEF Taken
<1>6. At(s, s, c, c, 0, s, s, 0, s)
  <2>1. s \in Stumps[0] /\ s = <<>>
    BY StumpsGrow DEF s
  <2>2. 0 - Len(s) + (IF s = <<>> THEN 0 ELSE 1) <= c[0]
    BY <1>1, <1>2, <2>1
  <2> QED
    BY <1>1, <1>2, <1>5, <2>1, <2>2 DEF At
<1>7. Reached(s, s, c, c, 0, s, s)
  BY <1>1, <1>6 DEF Reached
<1>8. LineOK(s, s, s, s, 0)
  <2>1. 0 = c[Len(s)]
    BY <1>1, <1>2
  <2> QED
    BY <1>1, <1>3, <1>4, <1>7, <2>1 DEF LineOK
<1> QED
  BY <1>8 DEF s

\* A read of q octets, whatever they are the end or the beginning of
LEMMA LineRead ==
  ASSUME ChecksumsTell, NEW ln, NEW b, NEW sent, NEW got, NEW loss,
         LineOK(ln, b, sent, got, loss), NEW q \in 0..Len(ln)
  PROVE  LET f == Feed(b, SubSeq(ln, 1, q))
         IN  LineOK(SubSeq(ln, q + 1, Len(ln)), f.buf, sent, got \o Decoded(f.payloads), loss)
<1> DEFINE f == Feed(b, SubSeq(ln, 1, q))
<1>1. sent \in Seq(MayBeSent) /\ Len(sent) <= MaxFrames /\ Len(sent) \in Nat
  BY DEF LineOK
<1>2. PICK e, c, lost, r :
        /\ Laid(sent, e, c, lost) /\ Ahead(ln, sent, e, c, r)
        /\ Reached(sent, e, c, lost, r, b, got)
        /\ loss = lost[Len(sent)]
  BY DEF LineOK
<1>3. Reached(sent, e, c, lost, r + q, f.buf, got \o Decoded(f.payloads))
  <2>1. Fed(sent, e, c, lost, r + q, got, f)
    BY <1>1, <1>2, AllFed
  <2> HIDE DEF f
  <2> QED
    BY <2>1 DEF Fed
<1>4. /\ c \in [0..Len(sent) -> Nat]
      /\ \A i \in 1..Len(sent) : /\ c[i] = c[i - 1] + Len(e[i]) /\ c[i] <= c[Len(sent)]
                                 /\ Piece(e[i], sent[i], lost[i] - lost[i - 1])
  <2>1. \A i \in 1..Len(sent) : i \in 0..Len(sent)
    BY <1>1
  <2> QED
    BY <1>2, <2>1 DEF Laid
<1>5. \A i \in 1..Len(sent) : e[i] \in Seq(Nat)
  <2> TAKE i \in 1..Len(sent)
  <2>1. sent[i] \in MayBeSent
    BY <1>1
  <2> QED
    BY <1>4, <2>1, PieceFacts
<1>6. Ahead(SubSeq(ln, q + 1, Len(ln)), sent, e, c, r + q)
  BY <1>1, <1>2, <1>4, <1>5, AheadOn
<1> HIDE DEF f
<1>7. LineOK(SubSeq(ln, q + 1, Len(ln)), f.buf, sent, got \o Decoded(f.payloads), loss)
  BY <1>1, <1>2, <1>3, <1>6 DEF LineOK
<1> QED
  BY <1>7 DEF f

LEMMA LineTakes ==
  ASSUME NEW ln, NEW b, NEW sent, NEW got, NEW loss, LineOK(ln, b, sent, got, loss)
  PROVE  /\ \E n \in 0..Len(sent) : \E from \in [1..n -> DOMAIN sent] :
              /\ \A i, j \in 1..n : i < j => from[i] < from[j]
              /\ got = [i \in 1..n |-> sent[from[i]]]
         /\ got \in Seq(MayBeSent)
         /\ ln = <<>> /\ b = <<>> => Len(sent) - Len(got) <= loss
<1>1. sent \in Seq(MayBeSent) /\ Len(sent) \in Nat
  BY DEF LineOK
<1>2. PICK e, c, lost, r :
        /\ Laid(sent, e, c, lost) /\ Ahead(ln, sent, e, c, r)
        /\ Reached(sent, e, c, lost, r, b, got)
        /\ loss = lost[Len(sent)]
  BY DEF LineOK
<1>3. PICK j \in 0..Len(sent), g \in Seq(Nat) : At(sent, e, c, lost, r, b, got, j, g)
  BY <1>2 DEF Reached
<1>4. got \in Seq(MayBeSent) /\ Len(got) \in Nat /\ Taken(sent, j, got)
  BY <1>3 DEF At
<1>5. PICK from \in [1..Len(got) -> 1..j] :
        /\ \A x, y \in 1..Len(got) : x < y => from[x] < from[y]
        /\ got = [x \in 1..Len(got) |-> sent[from[x]]]
  BY <1>4 DEF Taken
<1>6. Len(got) \in 0..Len(sent) /\ from \in [1..Len(got) -> DOMAIN sent]
  <2>1. Len(got) <= j
    BY <1>4 DEF Taken
  <2>2. DOMAIN sent = 1..Len(sent) /\ 1..j \subseteq 1..Len(sent)
    BY <1>1
  <2> QED
    BY <1>1, <1>4, <2>1, <2>2
<1>7. ASSUME ln = <<>>, b = <<>>  PROVE Len(sent) - Len(got) <= loss
  <2>1. r = c[Len(sent)] /\ r \in Nat
    BY <1>2, <1>7 DEF Ahead
  <2>2. \A i \in 0..Len(sent) : c[i] <= c[Len(sent)] /\ c[i] \in Nat
    BY <1>2 DEF Laid
  <2>3. j = Len(sent)
    <3> SUFFICES ASSUME j # Len(sent) PROVE FALSE
      OBVIOUS
    <3>1. r < c[j + 1] /\ j + 1 \in 0..Len(sent)
      BY <1>1, <1>3 DEF At
    <3> QED
      BY <2>1, <2>2, <3>1
  <2>4. g = <<>> /\ j - Len(got) + (IF g = <<>> THEN 0 ELSE 1) <= lost[j]
    BY <1>3, <1>7, <2>3 DEF At
  <2>5. lost[j] = loss /\ loss \in Nat
    <3>1. lost \in [0..Len(sent) -> Nat]
      BY <1>2 DEF Laid
    <3> QED
      BY <1>1, <1>2, <2>3, <3>1
  <2> QED
    BY <1>1, <1>4, <2>3, <2>4, <2>5
<1> QED
  BY <1>4, <1>5, <1>6, <1>7

\* One frame more is put on the line, or what arrives of it.
LEMMA LineLonger ==
  ASSUME ChecksumsTell, NEW ln, NEW b, NEW sent, NEW got, NEW loss,
         LineOK(ln, b, sent, got, loss), Len(sent) < MaxFrames,
         NEW m \in MayBeSent, NEW a, NEW l, Piece(a, m, l)
  PROVE  LineOK(ln \o a, b, Append(sent, m), got, loss + l)
<1> DEFINE n == Len(sent)
           more == Append(sent, m)
<1>1. sent \in Seq(MayBeSent) /\ n \in Nat /\ n + 1 <= MaxFrames
  BY JetsonAgentAssumption DEF LineOK
<1>2. PICK e, c, lost, r :
        /\ Laid(sent, e, c, lost) /\ Ahead(ln, sent, e, c, r)
        /\ Reached(sent, e, c, lost, r, b, got)
        /\ loss = lost[n]
  BY DEF LineOK
<1>3. a \in Seq(Nat) /\ Len(a) \in Nat /\ Len(a) >= 1 /\ l \in 0..2
  BY PieceFacts
<1>4. /\ more \in Seq(MayBeSent) /\ Len(more) = n + 1 /\ more[n + 1] = m
      /\ \A i \in 1..n : more[i] = sent[i]
  BY <1>1
<1>5. /\ c \in [0..n -> Nat] /\ c[0] = 0 /\ \A i \in 0..n : c[i] <= c[n]
      /\ lost \in [0..n -> Nat] /\ lost[0] = 0
      /\ \A i \in 1..n :
           c[i] = c[i - 1] + Len(e[i]) /\ Piece(e[i], sent[i], lost[i] - lost[i - 1])
  BY <1>2 DEF Laid
<1> DEFINE e2 == [i \in 1..n + 1 |-> IF i = n + 1 THEN a ELSE e[i]]
           c2 == [i \in 0..n + 1 |-> IF i = n + 1 THEN c[n] + Len(a) ELSE c[i]]
           l2 == [i \in 0..n + 1 |-> IF i = n + 1 THEN lost[n] + l ELSE lost[i]]
<1>6. /\ \A i \in 1..n : e2[i] = e[i]
      /\ \A i \in 0..n : c2[i] = c[i] /\ l2[i] = lost[i]
      /\ e2[n + 1] = a /\ c2[n + 1] = c[n] + Len(a) /\ l2[n + 1] = lost[n] + l
  BY <1>1
<1>7. c[n] \in Nat /\ lost[n] \in Nat /\ n \in 0..n
  BY <1>1, <1>5
<1>8. c2 \in [0..n + 1 -> Nat] /\ l2 \in [0..n + 1 -> Nat]
  BY <1>1, <1>3, <1>5, <1>7
<1> HIDE DEF e2, c2, l2, more
<1>9. Laid(more, e2, c2, l2)
  <2>1. c2[0] = 0 /\ l2[0] = 0
    BY <1>1, <1>5, <1>6
  <2>2. ASSUME NEW i \in 0..n + 1  PROVE c2[i] <= c2[n + 1]
    <3>1. CASE i = n + 1
      BY <1>8, <3>1
    <3>2. CASE i # n + 1
      <4>1. i \in 0..n /\ c[i] \in Nat
        BY <1>1, <1>5, <3>2
      <4>2. c2[i] = c[i] /\ c[i] <= c[n] /\ c2[n + 1] = c[n] + Len(a)
        BY <1>5, <1>6, <4>1
      <4> QED
        BY <1>3, <1>7, <4>1, <4>2
    <3> QED
      BY <3>1, <3>2
  <2>3. ASSUME NEW i \in 1..n + 1
        PROVE  /\ c2[i] = c2[i - 1] + Len(e2[i])
               /\ Piece(e2[i], more[i], l2[i] - l2[i - 1])
    <3>1. CASE i = n + 1
      <4>1. i - 1 = n /\ c2[i - 1] = c[n] /\ l2[i - 1] = lost[n]
        BY <1>1, <1>6, <1>7, <3>1
      <4>2. l2[i] - l2[i - 1] = l
        BY <1>3, <1>6, <1>7, <3>1, <4>1
      <4> QED
        BY <1>4, <1>6, <3>1, <4>1, <4>2
    <3>2. CASE i # n + 1
      <4>1. i \in 1..n /\ i \in 0..n /\ i - 1 \in 0..n
        BY <1>1, <3>2
      <4>2. /\ c2[i] = c[i] /\ c2[i - 1] = c[i - 1] /\ l2[i] = lost[i] /\ l2[i - 1] = lost[i - 1]
            /\ e2[i] = e[i] /\ more[i] = sent[i]
        BY <1>4, <1>6, <4>1
      <4> QED
        BY <1>5, <4>1, <4>2
    <3> QED
      BY <3>1, <3>2
  <2> QED
    BY <1>4, <1>8, <2>1, <2>2, <2>3 DEF Laid
<1>10. Ahead(ln \o a, more, e2, c2, r)
  <2>1. ln \in Seq(Nat) /\ Len(ln) \in Nat /\ r \in Nat /\ r + Len(ln) = c[n]
    BY <1>2 DEF Ahead
  <2>2. /\ ln \o a \in Seq(Nat) /\ Len(ln \o a) = Len(ln) + Len(a)
        /\ \A x \in 1..Len(ln) : (ln \o a)[x] = ln[x]
        /\ \A x \in 1..Len(a) : (ln \o a)[Len(ln) + x] = a[x]
    BY <1>3, <2>1, Glued
  <2>3. r + Len(ln \o a) = c2[Len(more)]
    BY <1>3, <1>4, <1>6, <2>1, <2>2
  <2>4. ASSUME NEW i \in 1..n + 1, NEW x \in 1..Len(e2[i]), c2[i - 1] + x > r
        PROVE  (ln \o a)[(c2[i - 1] + x) - r] = e2[i][x]
    <3>1. CASE i = n + 1
      <4>1. c2[i - 1] = c[n] /\ e2[i] = a /\ x \in 1..Len(a)
        <5>1. i - 1 = n
          BY <1>1, <3>1
        <5> QED
          BY <1>6, <1>7, <3>1, <5>1
      <4>2. (c[n] + x) - r = Len(ln) + x
        BY <1>3, <2>1, <4>1
      <4> QED
        BY <2>2, <4>1, <4>2
    <3>2. CASE i # n + 1
      <4>1. i \in 1..n /\ i \in 0..n /\ i - 1 \in 0..n
        BY <1>1, <3>2
      <4>2. c2[i - 1] = c[i - 1] /\ e2[i] = e[i] /\ x \in 1..Len(e[i])
        BY <1>6, <4>1
      <4>3. ln[(c[i - 1] + x) - r] = e[i][x]
        BY <1>2, <2>4, <4>1, <4>2 DEF Ahead
      <4>4. (c[i - 1] + x) - r \in 1..Len(ln)
        <5>1. /\ c[i - 1] \in Nat /\ c[i] \in Nat /\ c[i] <= c[n]
              /\ c[i] = c[i - 1] + Len(e[i])
          BY <1>5, <4>1
        <5>2. Len(e[i]) \in Nat
          <6>1. sent[i] \in MayBeSent /\ Piece(e[i], sent[i], lost[i] - lost[i - 1])
            BY <1>1, <1>5, <4>1
          <6>2. e[i] \in Seq(Nat)
            BY <6>1, PieceFacts
          <6> QED
            BY <6>2
        <5> DEFINE p == c[i - 1]
        <5>3. p + x > r /\ x \in Int /\ p + x <= p + Len(e[i])
          BY <2>4, <4>2, <5>1, <5>2
        <5>4. p \in Nat /\ p + x <= r + Len(ln)
          BY <1>7, <2>1, <5>1, <5>2, <5>3
        <5> HIDE DEF p
        <5>5. (p + x) - r \in 1..Len(ln)
          BY <2>1, <5>3, <5>4
        <5> QED
          BY <5>5 DEF p
      <4> QED
        BY <2>2, <4>2, <4>3, <4>4
    <3> QED
      BY <3>1, <3>2
  <2> QED
    BY <1>4, <2>1, <2>2, <2>3, <2>4 DEF Ahead
<1>11. Reached(more, e2, c2, l2, r, b, got)
  <2>1. PICK j \in 0..n, g \in Seq(Nat) : At(sent, e, c, lost, r, b, got, j, g)
    BY <1>2 DEF Reached
  <2>2. j \in 0..n + 1 /\ j # n + 1 /\ j \in Nat
    BY <1>1
  <2>3. /\ g \in Stumps[j] /\ got \in Seq(MayBeSent)
        /\ j - Len(got) + (IF g = <<>> THEN 0 ELSE 1) <= l2[j]
    BY <1>6, <2>1 DEF At
  <2>4. Taken(more, j, got)
    <3>1. PICK from \in [1..Len(got) -> 1..j] :
            /\ \A x, y \in 1..Len(got) : x < y => from[x] < from[y]
            /\ got = [x \in 1..Len(got) |-> sent[from[x]]]
      BY <2>1 DEF At, Taken
    <3>2. \A x \in 1..Len(got) : more[from[x]] = sent[from[x]]
      <4>1. \A x \in 1..Len(got) : from[x] \in 1..n
        BY <1>1, <2>2
      <4> QED
        BY <1>4, <4>1
    <3>3. got = [x \in 1..Len(got) |-> more[from[x]]]
      BY <3>1, <3>2
    <3> QED
      BY <2>1, <3>1, <3>3 DEF At, Taken
  <2>5. c2[j] <= r /\ r < c2[j + 1] /\ b = g \o SubSeq(e2[j + 1], 1, r - c2[j])
    <3>1. CASE j = n
      <4>1. r = c[n] /\ b = g /\ c2[j] = c[n] /\ c2[j + 1] = c[n] + Len(a) /\ e2[j + 1] = a
        BY <1>6, <1>7, <2>1, <3>1 DEF At
      <4>2. g \o SubSeq(a, 1, 0) = g
        BY <1>3
      <4>3. r - c2[j] = 0 /\ c2[j] <= r /\ r < c2[j + 1]
        BY <1>3, <1>7, <4>1
      <4> QED
        BY <4>1, <4>2, <4>3
    <3>2. CASE j # n
      <4>1. j + 1 \in 1..n /\ j + 1 \in 0..n /\ j \in 0..n
        BY <1>1, <3>2
      <4>2. c2[j] = c[j] /\ c2[j + 1] = c[j + 1] /\ e2[j + 1] = e[j + 1]
        BY <1>6, <4>1
      <4> QED
        BY <2>1, <3>2, <4>2 DEF At
    <3> QED
      BY <3>1, <3>2
  <2>6. At(more, e2, c2, l2, r, b, got, j, g)
    BY <1>4, <2>2, <2>3, <2>4, <2>5 DEF At
  <2> QED
    BY <1>4, <2>2, <2>6 DEF Reached
<1>12. loss + l = l2[Len(more)]
  BY <1>2, <1>4, <1>6
<1>13. LineOK(ln \o a, b, more, got, loss + l)
  <2>1. Len(more) <= MaxFrames
    BY <1>1, <1>4
  <2> QED
    BY <1>4, <1>9, <1>10, <1>11, <1>12, <2>1 DEF LineOK
<1> QED
  BY <1>13 DEF more

-----------------------------------------------------------------------------
(* The chain: its invariant.                                               *)

ReportsDue == {Framed(Reports[i]) : i \in DOMAIN Reports}

\* Whatever is under way comes from a report or an order that was given, what the nRF has
\* sent up is what it may send up, and the override is as ordered.
ChainOK ==
  /\ ordered \in SUBSET Orders /\ overridable \in BOOLEAN
  /\ \A m \in mesh : \E o \in ordered : m = Framed(Downlink(o, Translate(o)))
  /\ due \in Seq(ReportsDue)
  /\ traffic = [sent |-> traffic.sent, got |-> traffic.got, loss |-> traffic.loss,
                faults |-> traffic.faults]
  /\ traffic.sent \in Seq(Messages(ordered, overridable))
  /\ AgentOK(agent, ordered, overridable)

LEMMA LeftLess ==
  ASSUME NEW given, NEW allowed, NEW ov, OverrideOK(ov, given, allowed),
         NEW l \in Nat, l <= ov.left
  PROVE  OverrideOK([ov EXCEPT !.left = l], given, allowed)
<1> DEFINE new == [ov EXCEPT !.left = l]
<1>1. ov = [goal |-> ov.goal, mission |-> ov.mission, left |-> ov.left, sticky |-> ov.sticky]
      /\ ov.left \in Nat /\ ov.sticky \in BOOLEAN
  BY DEF OverrideOK
<1>2. new = [goal |-> ov.goal, mission |-> ov.mission, left |-> l, sticky |-> ov.sticky]
  BY SMT, <1>1
<1> HIDE DEF new
<1>3. /\ new = [goal |-> new.goal, mission |-> new.mission, left |-> new.left,
                sticky |-> new.sticky]
      /\ new.goal = ov.goal /\ new.mission = ov.mission /\ new.left = l /\ new.sticky = ov.sticky
  BY SMT, <1>2
<1>4. ASSUME NEW o, Asks(o, ov)  PROVE Asks(o, new)
  <2>1. ASSUME NEW n \in Nat, ov.left <= n  PROVE new.left <= n
    BY <1>1, <1>3, <2>1
  <2> QED
    BY <1>3, <1>4, <2>1 DEF Asks
<1> QED
  BY <1>1, <1>3, <1>4 DEF OverrideOK, new

LEMMA MoreGiven ==
  ASSUME NEW given, NEW more, given \subseteq more, NEW allowed
  PROVE  /\ Messages(given, allowed) \subseteq Messages(more, allowed)
         /\ \A a : AgentOK(a, given, allowed) => AgentOK(a, more, allowed)
<1>1. Messages(given, allowed) \subseteq Messages(more, allowed)
  BY DEF Messages
<1>2. ForMe(given) \subseteq ForMe(more)
  BY DEF ForMe
<1>3. \A ov : OverrideOK(ov, given, allowed) => OverrideOK(ov, more, allowed)
  BY <1>2 DEF OverrideOK
<1> QED
  BY <1>1, <1>3 DEF AgentOK

LEMMA ChainBegins == CommandInit => ChainOK
<1> SUFFICES ASSUME CommandInit PROVE ChainOK
  OBVIOUS
<1>1. due \in Seq(ReportsDue)
  <2>1. Reports \in Seq(ToSet(Reports))
    BY CommandChainAssumption
  <2>2. DOMAIN Reports = 1..Len(Reports) /\ Len(Reports) \in Nat
    BY <2>1
  <2>3. due = [i \in 1..Len(Reports) |-> Framed(Reports[i])]
    BY <2>2 DEF CommandInit
  <2>4. \A i \in 1..Len(Reports) : Framed(Reports[i]) \in ReportsDue
    BY <2>2 DEF ReportsDue
  <2> QED
    BY <2>2, <2>3, <2>4
<1>2. OverrideOK(NoOverride, ordered, overridable)
  BY DEF OverrideOK, NoOverride, NoMission, NoPlace
<1>3. AgentOK(agent, ordered, overridable)
  BY <1>2 DEF CommandInit, AgentInit, AgentOK
<1>4. traffic = Quiet(0)
  BY DEF CommandInit, AgentInit
<1>5. /\ traffic = [sent |-> traffic.sent, got |-> traffic.got, loss |-> traffic.loss,
                    faults |-> traffic.faults]
      /\ traffic.sent = <<>>
  BY <1>4 DEF Quiet
<1>6. ordered = {} /\ mesh = {} /\ overridable \in BOOLEAN
  BY DEF CommandInit
<1> QED
  BY <1>1, <1>3, <1>5, <1>6 DEF ChainOK

LEMMA PutOK ==
  ASSUME ChainOK, NEW m \in Messages(ordered, overridable), NEW frame, Put(m, frame)
  PROVE  /\ traffic' = [sent |-> traffic'.sent, got |-> traffic'.got, loss |-> traffic'.loss,
                        faults |-> traffic'.faults]
         /\ traffic'.sent \in Seq(Messages(ordered, overridable))
<1> DEFINE old == IF line = <<>> /\ buf = <<>> THEN Quiet(traffic.faults) ELSE traffic
<1>1. /\ old = [sent |-> old.sent, got |-> old.got, loss |-> old.loss, faults |-> old.faults]
      /\ old.sent \in Seq(Messages(ordered, overridable))
  <2>1. CASE line = <<>> /\ buf = <<>>
    <3>1. old = [sent |-> <<>>, got |-> <<>>, loss |-> 0, faults |-> traffic.faults]
      BY <2>1 DEF Quiet
    <3> HIDE DEF old
    <3> QED
      BY <3>1
  <2>2. CASE ~(line = <<>> /\ buf = <<>>)
    BY <2>2 DEF ChainOK
  <2> QED
    BY <2>1, <2>2
<1> HIDE DEF old
<1>2. PICK x, y : traffic' = [old EXCEPT !.sent = Append(old.sent, m), !.loss = x, !.faults = y]
  BY DEF Put, old
<1>3. PICK s, z, g, l, f : /\ old = [sent |-> s, got |-> g, loss |-> l, faults |-> f]
                            /\ z = Append(old.sent, m)
  BY <1>1
<1> DEFINE t1 == [old EXCEPT !.sent = z]
           t2 == [t1 EXCEPT !.loss = x]
           t3 == [t2 EXCEPT !.faults = y]
<1>4. traffic' = t3
  BY <1>2, <1>3
<1>5. t1 = [sent |-> z, got |-> g, loss |-> l, faults |-> f]
  BY <1>3
<1> HIDE DEF t1
<1>6. t2 = [sent |-> z, got |-> g, loss |-> x, faults |-> f]
  BY <1>5
<1> HIDE DEF t2
<1>7. t3 = [sent |-> z, got |-> g, loss |-> x, faults |-> y]
  BY <1>6
<1> HIDE DEF t3
<1>8. Append(old.sent, m) \in Seq(Messages(ordered, overridable))
  BY <1>1
<1> QED
  BY <1>3, <1>7, <1>8, <1>4

LEMMA OrderKeeps ==
  ASSUME ChainOK, NEW order \in Orders, Order(order)
  PROVE  ChainOK'
<1>1. /\ ordered \subseteq ordered' /\ ordered' \in SUBSET Orders /\ order \in ordered'
      /\ overridable' = overridable /\ due' = due /\ traffic' = traffic /\ agent' = agent
      /\ mesh' \subseteq mesh \cup {Commands[order]}
  BY DEF Order, ChainOK, agentVars
<1>2. /\ Messages(ordered, overridable) \subseteq Messages(ordered', overridable)
      /\ AgentOK(agent, ordered', overridable)
  BY <1>1, MoreGiven DEF ChainOK
<1>3. traffic.sent \in Seq(Messages(ordered', overridable))
  BY <1>2 DEF ChainOK
<1>4. Commands[order] = Framed(Downlink(order, Translate(order)))
  BY DEF Commands
<1>5. \A m \in mesh' : \E o \in ordered' : m = Framed(Downlink(o, Translate(o)))
  BY <1>1, <1>4 DEF ChainOK
<1> QED
  BY <1>1, <1>2, <1>3, <1>5 DEF ChainOK

LEMMA ArriveKeeps ==
  ASSUME ChainOK, NEW m \in mesh, Arrive(m)
  PROVE  ChainOK'
<1>1. /\ mesh' \subseteq mesh
      /\ UNCHANGED <<agent, ordered, due, overridable>>
  BY DEF Arrive
<1>2. PICK o \in ordered : m = Framed(Downlink(o, Translate(o)))
  BY DEF ChainOK
<1>3. m.msg = Downlink(o, Translate(o))
  BY <1>2 DEF Framed
<1>4. CASE Forwards(m.msg)
  <2>1. m.msg \in Messages(ordered, overridable)
    BY <1>3, <1>4 DEF Messages, Forwards, Arrive
  <2>2. Put(m.msg, m.frame)
    BY <1>4 DEF Arrive
  <2>3. /\ traffic' = [sent |-> traffic'.sent, got |-> traffic'.got, loss |-> traffic'.loss,
                       faults |-> traffic'.faults]
        /\ traffic'.sent \in Seq(Messages(ordered, overridable))
    BY <2>1, <2>2, PutOK
  <2> QED
    BY <1>1, <2>3 DEF ChainOK
<1>5. CASE ~Forwards(m.msg)
  BY <1>1, <1>5 DEF ChainOK, Arrive
<1> QED
  BY <1>4, <1>5

LEMMA ReportKeeps == ChainOK /\ Report => ChainOK'
<1> SUFFICES ASSUME ChainOK, Report PROVE ChainOK'
  OBVIOUS
<1>1. /\ UNCHANGED <<agent, ordered, mesh, overridable>>
      /\ due # <<>> /\ due' = Tail(due) /\ Put(due[1].msg, due[1].frame)
  BY DEF Report
<1>2. due \in Seq(ReportsDue)
  BY DEF ChainOK
<1>3. due[1] \in ReportsDue /\ Tail(due) \in Seq(ReportsDue)
  BY <1>1, <1>2
<1>4. due[1].msg \in Messages(ordered, overridable)
  BY <1>3 DEF ReportsDue, Framed, Messages
<1>5. /\ traffic' = [sent |-> traffic'.sent, got |-> traffic'.got, loss |-> traffic'.loss,
                     faults |-> traffic'.faults]
      /\ traffic'.sent \in Seq(Messages(ordered, overridable))
  BY <1>1, <1>4, PutOK
<1> QED
  BY <1>1, <1>3, <1>5 DEF ChainOK

\* What was handled since the line was empty is what was sent.
LEMMA GotIsSent ==
  ASSUME NEW S, NEW sent \in Seq(S), NEW got,
         \E n \in 0..Len(sent) : \E from \in [1..n -> DOMAIN sent] :
           got = [i \in 1..n |-> sent[from[i]]]
  PROVE  got \in Seq(S)
<1>1. PICK n \in 0..Len(sent) : \E from \in [1..n -> DOMAIN sent] :
        got = [i \in 1..n |-> sent[from[i]]]
  OBVIOUS
<1>2. PICK from \in [1..n -> DOMAIN sent] : got = [i \in 1..n |-> sent[from[i]]]
  BY <1>1
<1>3. \A i \in 1..n : sent[from[i]] \in S
  OBVIOUS
<1>4. n \in Nat
  OBVIOUS
<1> QED
  BY <1>2, <1>3, <1>4

LEMMA ReadKeeps ==
  ASSUME ChainOK, FramesArrive, FramesArrive', ReadSome, UNCHANGED chainVars
  PROVE  ChainOK'
<1>1. PICK n : OnReadable(n)
  BY DEF ReadSome
<1> DEFINE S == Messages(ordered, overridable)
           fresh == SubSeq(traffic'.got, Len(traffic.got) + 1, Len(traffic'.got))
<1>2. /\ UNCHANGED <<ordered, mesh, due, overridable>>
      /\ agent' = Handled(agent, fresh)
  BY <1>1 DEF OnReadable, chainVars
<1>3. PICK got : traffic' = [traffic EXCEPT !.got = got]
  BY <1>1 DEF OnReadable
<1>4. traffic' = [sent |-> traffic.sent, got |-> got, loss |-> traffic.loss,
                  faults |-> traffic.faults]
  <2>1. PICK s, g, l, f : traffic = [sent |-> s, got |-> g, loss |-> l, faults |-> f]
    BY DEF ChainOK
  <2>2. traffic' = [sent |-> s, got |-> got, loss |-> l, faults |-> f]
    BY <1>3, <2>1
  <2> QED
    BY <2>1, <2>2
<1>5. /\ traffic' = [sent |-> traffic'.sent, got |-> traffic'.got, loss |-> traffic'.loss,
                     faults |-> traffic'.faults]
      /\ traffic'.sent \in Seq(S)
  BY <1>4 DEF ChainOK
<1> HIDE DEF S
<1>6. traffic.got \in Seq(S) /\ traffic'.got \in Seq(S)
  <2>1. traffic.sent \in Seq(S)
    BY DEF ChainOK, S
  <2>2. \E n0 \in 0..Len(traffic.sent) : \E from \in [1..n0 -> DOMAIN traffic.sent] :
          traffic.got = [i \in 1..n0 |-> traffic.sent[from[i]]]
    BY DEF FramesArrive
  <2>3. \E n0 \in 0..Len(traffic'.sent) : \E from \in [1..n0 -> DOMAIN traffic'.sent] :
          traffic'.got = [i \in 1..n0 |-> traffic'.sent[from[i]]]
    BY DEF FramesArrive
  <2> QED
    BY <1>5, <2>1, <2>2, <2>3, GotIsSent
<1>7. fresh \in Seq(S)
  BY <1>6
<1> HIDE DEF fresh
<1>8. AgentOK(agent', ordered, overridable)
  BY <1>2, <1>7, AllHandled DEF ChainOK, S
<1> QED
  BY <1>2, <1>5, <1>8 DEF ChainOK, S

LEMMA AgentSteps ==
  ASSUME ChainOK, Tick \/ Registered \/ Second, UNCHANGED chainVars
  PROVE  ChainOK'
<1>1. UNCHANGED <<ordered, mesh, due, overridable, traffic>>
  BY DEF Tick, Registered, Second, chainVars
<1>2. AgentOK(agent, ordered, overridable) /\ OverrideOK(agent.ov, ordered, overridable)
  BY DEF ChainOK, AgentOK
<1>3. ASSUME NEW v, agent' = [agent EXCEPT !.mods = v]
      PROVE  AgentOK(agent', ordered, overridable)
  BY <1>2, <1>3, OnlyModules
<1>4. ASSUME NEW v, NEW l \in Nat, l <= agent.ov.left,
             agent' = [agent EXCEPT !.mods = v, !.ov.left = l]
      PROVE  AgentOK(agent', ordered, overridable)
  <2> DEFINE b == [agent EXCEPT !.mods = v]
  <2>1. AgentOK(b, ordered, overridable) /\ OverrideOK(b.ov, ordered, overridable)
    BY <1>2, OnlyModules DEF AgentOK
  <2>2. b.ov = agent.ov
    <3>1. agent = [own |-> agent.own, mods |-> agent.mods, ov |-> agent.ov]
      BY <1>2 DEF AgentOK
    <3> QED
      BY <3>1
  <2>3. agent' = [b EXCEPT !.ov = [b.ov EXCEPT !.left = l]]
    BY <1>4
  <2> HIDE DEF b
  <2>4. OverrideOK([b.ov EXCEPT !.left = l], ordered, overridable)
    BY <1>4, <2>1, <2>2, LeftLess
  <2> QED
    BY <2>1, <2>3, <2>4, OnlyOverride
<1>5. agent.ov.left \in Nat
  BY <1>2 DEF OverrideOK
<1>6. CASE Tick
  <2>1. CASE \E v : agent' = [agent EXCEPT !.mods = v]
    BY <1>1, <1>3, <2>1 DEF ChainOK
  <2>2. CASE \E v, l : l \in {agent.ov.left, 0} /\ agent' = [agent EXCEPT !.mods = v, !.ov.left = l]
    <3>1. PICK v, l : l \in {agent.ov.left, 0} /\ agent' = [agent EXCEPT !.mods = v, !.ov.left = l]
      BY <2>2
    <3>2. l \in Nat /\ l <= agent.ov.left
      BY <1>5, <3>1
    <3>3. AgentOK(agent', ordered, overridable)
      BY <1>4, <3>1, <3>2
    <3> QED
      BY <1>1, <3>3 DEF ChainOK
  <2> QED
    BY <1>6, <2>1, <2>2 DEF Tick
<1>7. CASE Registered
  <2>1. \E v : agent' = [agent EXCEPT !.mods = v]
    BY <1>7 DEF Registered
  <2> QED
    BY <1>1, <1>3, <2>1 DEF ChainOK
<1>8. CASE Second
  <2>1. /\ agent' = [agent EXCEPT !.ov = [agent.ov EXCEPT !.left = agent.ov.left - 1]]
        /\ agent.ov.left > 0
    BY <1>8 DEF Second
  <2>2. OverrideOK([agent.ov EXCEPT !.left = agent.ov.left - 1], ordered, overridable)
    BY <1>2, <1>5, <2>1, LeftLess
  <2>3. AgentOK(agent', ordered, overridable)
    BY <1>2, <2>1, <2>2, OnlyOverride
  <2> QED
    BY <1>1, <2>3 DEF ChainOK
<1> QED
  BY <1>6, <1>7, <1>8

LEMMA ChainKeeps ==
  ChainOK /\ FramesArrive /\ FramesArrive' /\ [CommandNext]_commandVars => ChainOK'
<1> SUFFICES ASSUME ChainOK, FramesArrive, FramesArrive', [CommandNext]_commandVars
             PROVE  ChainOK'
  OBVIOUS
<1>1. CASE \E order \in Orders : Order(order)
  BY <1>1, OrderKeeps
<1>2. CASE \E m \in mesh : Arrive(m)
  BY <1>2, ArriveKeeps
<1>3. CASE Report
  BY <1>3, ReportKeeps
<1>4. CASE AgentNext /\ UNCHANGED chainVars
  BY <1>4, ReadKeeps, AgentSteps DEF AgentNext
<1>5. CASE UNCHANGED commandVars
  <2>1. UNCHANGED <<ordered, mesh, due, overridable, traffic, agent>>
    BY <1>5 DEF commandVars, agentVars, chainVars
  <2> QED
    BY <2>1 DEF ChainOK
<1> QED
  BY <1>1, <1>2, <1>3, <1>4, <1>5 DEF CommandNext

-----------------------------------------------------------------------------
(* The chain: what arrives was sent.                                       *)

LineGood == LineOK(line, buf, traffic.sent, traffic.got, traffic.loss)

\* FramesArrive, of what was sent and got
Arrives(ln, b, sent, got, loss) ==
  /\ \E n \in 0..Len(sent) : \E from \in [1..n -> DOMAIN sent] :
       /\ \A i, j \in 1..n : i < j => from[i] < from[j]
       /\ got = [i \in 1..n |-> sent[from[i]]]
  /\ ln = <<>> /\ b = <<>> => Len(sent) - Len(got) <= loss

LEMMA LineArrives ==
  /\ LineGood => FramesArrive
  /\ LineGood' => FramesArrive'
<1>1. \A ln, b, sent, got, loss :
        LineOK(ln, b, sent, got, loss) => Arrives(ln, b, sent, got, loss)
  <2> TAKE ln, b, sent, got, loss
  <2> SUFFICES ASSUME LineOK(ln, b, sent, got, loss) PROVE Arrives(ln, b, sent, got, loss)
    OBVIOUS
  <2>1. /\ \E n \in 0..Len(sent) : \E from \in [1..n -> DOMAIN sent] :
              /\ \A i, j \in 1..n : i < j => from[i] < from[j]
              /\ got = [i \in 1..n |-> sent[from[i]]]
        /\ got \in Seq(MayBeSent)
        /\ ln = <<>> /\ b = <<>> => Len(sent) - Len(got) <= loss
    BY LineTakes
  <2> QED
    BY <2>1 DEF Arrives
<1>2. FramesArrive = Arrives(line, buf, traffic.sent, traffic.got, traffic.loss)
  BY DEF FramesArrive, Arrives
<1>3. FramesArrive' = Arrives(line', buf', traffic'.sent, traffic'.got, traffic'.loss)
  BY DEF FramesArrive, Arrives
<1>4. LineGood => FramesArrive
  BY <1>1, <1>2 DEF LineGood
<1>5. LineGood' => FramesArrive'
  BY <1>1, <1>3 DEF LineGood
<1> QED
  BY <1>4, <1>5

LEMMA SentMayBe == Messages(ordered, overridable) \subseteq MayBeSent \/ ~(ordered \in SUBSET Orders)
<1> SUFFICES ASSUME ordered \in SUBSET Orders, NEW m \in Messages(ordered, overridable)
             PROVE  m \in MayBeSent
  OBVIOUS
<1>1. CASE \E i \in DOMAIN Reports : m = Reports[i]
  BY <1>1 DEF MayBeSent, ToSet
<1>2. CASE \E o \in ordered : m = Downlink(o, Translate(o)) /\ IsActionOp(m.op)
  <2>1. PICK o \in ordered : m = Downlink(o, Translate(o)) /\ IsActionOp(m.op)
    BY <1>2
  <2>2. m.op = Translate(o).op
    BY <2>1 DEF Downlink
  <2> QED
    BY <2>1, <2>2 DEF MayBeSent
<1> QED
  BY <1>1, <1>2 DEF Messages

\* A frame put on the line adds to what was sent since the line was empty.
Added(m, frame) ==
  \E sent, got, loss, a :
    /\ LineOK(line, buf, sent, got, loss) /\ Len(sent) < MaxFrames
    /\ a \in Arrivals(frame) /\ line' = line \o a.octets
    /\ traffic'.sent = Append(sent, m) /\ traffic'.got = got
    /\ traffic'.loss = loss + a.loss

LEMMA PutAdds ==
  ASSUME ChainOK, LineGood, NEW m, NEW frame, Put(m, frame)
  PROVE  Added(m, frame)
<1> DEFINE old == IF line = <<>> /\ buf = <<>> THEN Quiet(traffic.faults) ELSE traffic
<1>1. \E s, g, l, f : /\ old = [sent |-> s, got |-> g, loss |-> l, faults |-> f]
                      /\ LineOK(line, buf, s, g, l)
  <2>1. CASE line = <<>> /\ buf = <<>>
    <3>1. old = [sent |-> <<>>, got |-> <<>>, loss |-> 0, faults |-> traffic.faults]
      BY <2>1 DEF Quiet
    <3>2. LineOK(line, buf, <<>>, <<>>, 0)
      BY <2>1, LineBegins
    <3> HIDE DEF old
    <3> QED
      BY <3>1, <3>2
  <2>2. CASE ~(line = <<>> /\ buf = <<>>)
    <3>1. old = [sent |-> traffic.sent, got |-> traffic.got, loss |-> traffic.loss,
                 faults |-> traffic.faults]
      BY <2>2 DEF ChainOK
    <3> HIDE DEF old
    <3> QED
      BY <3>1 DEF LineGood
  <2> QED
    BY <2>1, <2>2
<1>2. /\ Len(old.sent) < MaxFrames
      /\ \E a \in Arrivals(frame) :
           /\ line' = line \o a.octets
           /\ \E y : traffic' = [old EXCEPT !.sent = Append(old.sent, m),
                                            !.loss = old.loss + a.loss, !.faults = y]
  BY DEF Put
<1> HIDE DEF old
<1>3. PICK s, g, l, f : /\ old = [sent |-> s, got |-> g, loss |-> l, faults |-> f]
                        /\ LineOK(line, buf, s, g, l)
  BY <1>1
<1>4. PICK a \in Arrivals(frame) :
        /\ line' = line \o a.octets
        /\ \E y : traffic' = [old EXCEPT !.sent = Append(old.sent, m),
                                         !.loss = old.loss + a.loss, !.faults = y]
  BY <1>2
<1>5. PICK y : traffic' = [old EXCEPT !.sent = Append(old.sent, m),
                                      !.loss = old.loss + a.loss, !.faults = y]
  BY <1>4
<1>6. old.sent = s /\ old.loss = l
  BY <1>3
<1>7. PICK z, x : z = Append(s, m) /\ x = l + a.loss
  OBVIOUS
<1> DEFINE t1 == [old EXCEPT !.sent = z]
           t2 == [t1 EXCEPT !.loss = x]
           t3 == [t2 EXCEPT !.faults = y]
<1>8. traffic' = t3
  BY <1>5, <1>6, <1>7
<1>9. t1 = [sent |-> z, got |-> g, loss |-> l, faults |-> f]
  BY <1>3
<1> HIDE DEF t1
<1>10. t2 = [sent |-> z, got |-> g, loss |-> x, faults |-> f]
  BY <1>9
<1> HIDE DEF t2
<1>11. t3 = [sent |-> z, got |-> g, loss |-> x, faults |-> y]
  BY <1>10
<1> HIDE DEF t3
<1>12. traffic'.sent = z /\ traffic'.got = g /\ traffic'.loss = x
  BY <1>8, <1>11
<1>13. Len(s) < MaxFrames
  BY <1>2, <1>6
<1>14. traffic'.sent = Append(s, m) /\ traffic'.got = g /\ traffic'.loss = l + a.loss
  BY <1>7, <1>12
<1>15. LineOK(line, buf, s, g, l) /\ line' = line \o a.octets
  BY <1>3, <1>4
<1> QED
  BY Zenon, <1>13, <1>14, <1>15 DEF Added

LEMMA PutKeepsLine ==
  ASSUME ChecksumsTell, ChainOK, LineGood, NEW m \in MayBeSent, Put(m, Frame(Encode(m))),
         buf' = buf
  PROVE  LineGood'
<1> DEFINE frame == Frame(Encode(m))
<1>0. Put(m, frame)
  OBVIOUS
<1> HIDE DEF frame
<1>3. Added(m, frame)
  BY <1>0, PutAdds
<1>1. PICK sent, got, loss, a :
        /\ LineOK(line, buf, sent, got, loss) /\ Len(sent) < MaxFrames
        /\ a \in Arrivals(frame) /\ line' = line \o a.octets
        /\ traffic'.sent = Append(sent, m) /\ traffic'.got = got
        /\ traffic'.loss = loss + a.loss
  BY <1>3 DEF Added
<1>2. Piece(a.octets, m, a.loss)
  <2>1. \/ a = [octets |-> frame, loss |-> 0]
        \/ \E i \in HitAt : a = [octets |-> RemoveAt(frame, i), loss |-> 1]
        \/ a = [octets |-> Half(frame), loss |-> 2]
    BY <1>1 DEF Arrivals
  <2>2. CASE a = [octets |-> frame, loss |-> 0]
    BY <2>2 DEF Piece, frame
  <2>3. CASE \E i \in HitAt : a = [octets |-> RemoveAt(frame, i), loss |-> 1]
    <3>1. PICK i \in HitAt : a = [octets |-> RemoveAt(frame, i), loss |-> 1]
      BY <2>3
    <3>2. a.octets = RemoveAt(frame, i) /\ a.loss = 1
      BY <3>1
    <3> QED
      BY <3>2 DEF Piece, frame
  <2>4. CASE a = [octets |-> Half(frame), loss |-> 2]
    <3>1. a.octets = Half(frame) /\ a.loss = 2
      BY <2>4
    <3> QED
      BY <3>1 DEF Piece, frame
  <2> QED
    BY <2>1, <2>2, <2>3, <2>4
<1>4. LineOK(line \o a.octets, buf, Append(sent, m), got, loss + a.loss)
  BY <1>1, <1>2, LineLonger
<1> QED
  BY <1>1, <1>4 DEF LineGood

LEMMA ReadKeepsLine ==
  ASSUME ChecksumsTell, ChainOK, LineGood, ReadSome
  PROVE  LineGood'
<1>1. PICK n \in 0..Len(line) : OnReadable(n)
  <2>1. Len(line) \in Nat
    BY DEF LineGood, LineOK, Ahead
  <2>2. Len(line) \in 0..Len(line) /\ Len(line) \div 2 \in 0..Len(line)
    BY <2>1
  <2> QED
    BY <2>2 DEF ReadSome
<1> DEFINE f == Feed(buf, SubSeq(line, 1, n))
<1>2. /\ line' = SubSeq(line, n + 1, Len(line)) /\ buf' = f.buf
      /\ traffic' = [traffic EXCEPT !.got = traffic.got \o Decoded(f.payloads)]
  BY <1>1 DEF OnReadable, Decoded
<1>3. LineOK(SubSeq(line, n + 1, Len(line)), f.buf, traffic.sent,
             traffic.got \o Decoded(f.payloads), traffic.loss)
  BY LineRead DEF LineGood
<1> HIDE DEF f
<1>4. PICK z : z = traffic.got \o Decoded(f.payloads)
  OBVIOUS
<1>5. traffic'.sent = traffic.sent /\ traffic'.got = z /\ traffic'.loss = traffic.loss
  <2>1. PICK s, g, l, x : traffic = [sent |-> s, got |-> g, loss |-> l, faults |-> x]
    BY DEF ChainOK
  <2>2. traffic' = [traffic EXCEPT !.got = z]
    BY <1>2, <1>4
  <2>3. traffic' = [sent |-> s, got |-> z, loss |-> l, faults |-> x]
    BY <2>1, <2>2
  <2> QED
    BY <2>1, <2>3
<1> QED
  BY <1>2, <1>3, <1>4, <1>5 DEF LineGood

LEMMA LineKeeps ==
  ASSUME ChecksumsTell, ChainOK, LineGood, [CommandNext]_commandVars
  PROVE  LineGood'
<1>0. ASSUME UNCHANGED <<line, buf, traffic>>  PROVE LineGood'
  BY <1>0 DEF LineGood
<1>1. CASE \E order \in Orders : Order(order)
  <2>1. UNCHANGED <<line, buf, traffic>>
    BY <1>1 DEF Order, agentVars
  <2> QED
    BY <1>0, <2>1
<1>2. CASE \E m \in mesh : Arrive(m)
  <2>1. PICK m \in mesh : Arrive(m)
    BY <1>2
  <2>2. PICK o \in ordered : m = Framed(Downlink(o, Translate(o)))
    BY DEF ChainOK
  <2>3. m.msg = Downlink(o, Translate(o)) /\ m.frame = Frame(Encode(m.msg))
    BY <2>2 DEF Framed
  <2>4. CASE Forwards(m.msg)
    <3>1. m.msg \in Messages(ordered, overridable)
      BY <2>1, <2>3, <2>4 DEF Messages, Forwards, Arrive
    <3>2. m.msg \in MayBeSent
      BY <3>1, SentMayBe DEF ChainOK
    <3>3. Put(m.msg, Frame(Encode(m.msg))) /\ buf' = buf
      BY <2>1, <2>3, <2>4 DEF Arrive
    <3> QED
      BY <3>2, <3>3, PutKeepsLine
  <2>5. CASE ~Forwards(m.msg)
    BY <1>0, <2>1, <2>5 DEF Arrive
  <2> QED
    BY <2>4, <2>5
<1>3. CASE Report
  <2>1. due \in Seq(ReportsDue) /\ due # <<>> /\ Put(due[1].msg, due[1].frame) /\ buf' = buf
    BY <1>3 DEF Report, ChainOK
  <2>2. due[1] \in ReportsDue
    BY <2>1
  <2>3. PICK i \in DOMAIN Reports : due[1] = Framed(Reports[i])
    BY <2>2 DEF ReportsDue
  <2>4. due[1].msg = Reports[i] /\ due[1].frame = Frame(Encode(Reports[i]))
    BY <2>3 DEF Framed
  <2>5. Reports[i] \in MayBeSent
    BY DEF MayBeSent, ToSet
  <2> QED
    BY <2>1, <2>4, <2>5, PutKeepsLine
<1>4. CASE AgentNext /\ UNCHANGED chainVars
  <2>1. CASE ReadSome
    BY <2>1, ReadKeepsLine
  <2>2. CASE Tick \/ Registered \/ Second
    <3>1. UNCHANGED <<line, buf, traffic>>
      BY <2>2 DEF Tick, Registered, Second
    <3> QED
      BY <1>0, <3>1
  <2> QED
    BY <1>4, <2>1, <2>2 DEF AgentNext
<1>5. CASE UNCHANGED commandVars
  <2>1. UNCHANGED <<line, buf, traffic>>
    BY <1>5 DEF commandVars, agentVars
  <2> QED
    BY <1>0, <2>1
<1> QED
  BY <1>1, <1>2, <1>3, <1>4, <1>5 DEF CommandNext

LEMMA LineAtFirst == CommandInit => LineGood
<1> SUFFICES ASSUME CommandInit PROVE LineGood
  OBVIOUS
<1>1. line = <<>> /\ buf = <<>> /\ traffic = Quiet(0)
  BY DEF CommandInit, AgentInit
<1>2. traffic.sent = <<>> /\ traffic.got = <<>> /\ traffic.loss = 0
  BY <1>1 DEF Quiet
<1> QED
  BY <1>1, <1>2, LineBegins DEF LineGood

\* If a frame ends with its only delimiter, holds its message, and has a wrong checksum
\* when it was hit or follows a half (ChecksumsTell), then what the companion handles are
\* messages its nRF sent, each once and in their order, however the octets are cut into
\* reads; and no frame is lost but those that were hit or cut and, after a cut one, the
\* next (serial_link_send, SerialReader.feed, deframe_serial).
THEOREM FramesAlwaysArrive ==
  ASSUME ChecksumsTell
  PROVE  CommandSpec => []FramesArrive
<1> DEFINE Both == ChainOK /\ LineGood
<1>1. CommandInit => Both
  BY ChainBegins, LineAtFirst
<1>2. Both /\ [CommandNext]_commandVars => Both'
  <2> SUFFICES ASSUME ChainOK, LineGood, [CommandNext]_commandVars
               PROVE  ChainOK' /\ LineGood'
    OBVIOUS
  <2>1. LineGood'
    BY LineKeeps
  <2>2. FramesArrive /\ FramesArrive'
    BY <2>1, LineArrives
  <2> QED
    BY <2>1, <2>2, ChainKeeps
<1>3. Both => FramesArrive
  BY LineArrives
<1> QED
  BY <1>1, <1>2, <1>3, PTL DEF CommandSpec

-----------------------------------------------------------------------------
(* The chain: what the agent flies by was ordered.                         *)

\* If the checksums tell what was damaged, the override the agent flies by was ordered for
\* its node, whatever was ordered, lost and overtaken on the way: its mission and limit are
\* those of one order, the limit as the frame keeps it (modulo 2^16), its waypoint is that
\* of the same or another order, and the node may be overridden (_dispatch, pack_waypoint,
\* handle_command, unpack_waypoint, apply_cmd).
THEOREM FliesAsOrdered ==
  ASSUME ChecksumsTell
  PROVE  CommandSpec => []HeldAsOrdered
<1>1. ChainOK => HeldAsOrdered
  <2> SUFFICES ASSUME ChainOK PROVE HeldAsOrdered
    OBVIOUS
  <2>1. OverrideOK(agent.ov, ordered, overridable)
    BY DEF ChainOK, AgentOK
  <2> QED
    BY <2>1 DEF OverrideOK, HeldAsOrdered, Asks, ForMe
<1>2. CommandSpec => []FramesArrive
  BY FramesAlwaysArrive
<1> QED
  BY <1>1, <1>2, ChainBegins, ChainKeeps, PTL DEF CommandSpec

\* p is a plan that an agent with the override ov makes when look k is the first to find it over.
MadeOf(p, ov, k) ==
  \E x, y : p = [mode |-> IF k >= 6 THEN ov.mission ELSE MissionType.COVERAGE, goal |-> x,
                 overridden |-> ov.goal # NoPlace /\ k = 10, status |-> y]

LEMMA PlanMade ==
  ASSUME NEW ov, NEW my, NEW base, NEW peers, NEW k, NEW hemmed,
         Planned(ov, my, base, peers, k, hemmed).plan # plan
  PROVE  MadeOf(Planned(ov, my, base, peers, k, hemmed).plan, ov, k)
<1> DEFINE p == Planned(ov, my, base, peers, k, hemmed)
           mode == IF k >= 6 THEN ov.mission ELSE MissionType.COVERAGE
           over == ov.goal # NoPlace /\ k = 10
<1> DEFINE searches(md) == md \in {MissionType.EXPLORE, MissionType.SEARCH}
           early == IF k >= 3 THEN ov.mission ELSE MissionType.COVERAGE
           ahead == IF searches(early) THEN Frontier(my, peers) ELSE dir
           told  == ov.goal # NoPlace
           goal  == CASE mode = MissionType.RTL -> base
                      [] searches(mode) -> my + 30 * ahead
                      [] OTHER -> IF told /\ k >= 8 THEN ov.goal ELSE base
           flown == IF told /\ k = 10 THEN ov.goal ELSE goal
           fails == \/ k \in {2, 5}
                    \/ told /\ k = 9
                    \/ told /\ k = 7 /\ mode # MissionType.RTL /\ ~searches(mode)
           status == StatusOf(mode, my, goal, Emergency(my, flown, peers, hemmed))
<1>1. p = [dir |-> IF k = 2 THEN dir ELSE ahead,
           plan |-> IF fails THEN plan
                    ELSE [mode |-> mode, goal |-> flown, overridden |-> over, status |-> status],
           raised |-> fails]
  BY DEF Planned
<1> HIDE DEF p, mode, over, searches, early, ahead, told, goal, flown, fails, status
<1>2. PICK before, failed, x, y :
        p = [dir |-> before, plan |-> IF failed THEN plan
                                      ELSE [mode |-> mode, goal |-> x, overridden |-> over,
                                            status |-> y],
             raised |-> failed]
  BY Zenon, <1>1
<1>3. p.plan = IF failed THEN plan
               ELSE [mode |-> mode, goal |-> x, overridden |-> over, status |-> y]
  BY <1>2
<1>4. p.plan = [mode |-> mode, goal |-> x, overridden |-> over, status |-> y]
  <2>1. p.plan # plan
    BY DEF p
  <2> QED
    BY Zenon, <1>3, <2>1
<1> QED
  BY Zenon, <1>4 DEF p, mode, over, MadeOf

LEMMA TickTold ==
  ASSUME ChainOK, Tick, plan' # plan
  PROVE  /\ agent.ov.sticky => plan'.mode = agent.ov.mission
         /\ ~agent.ov.sticky /\ agent.ov.left = 0 =>
              plan'.mode = MissionType.COVERAGE /\ ~plan'.overridden
<1> DEFINE m == WithGps(agent.mods[agent.own])
           my == Estimate(m)
           seen == {e \in DOMAIN agent.mods \ {agent.own} : Valid(agent.mods[e])}
           places == [e \in seen |-> agent.mods[e].pos.place]
           base == IF home = NoPlace THEN my ELSE home
           peers == {places[e] : e \in seen}
           told == agent.ov.goal # NoPlace
<1>1. PICK k \in Reads(agent.ov) : \E hemmed \in BOOLEAN :
        plan' = Planned(agent.ov, my, base, peers, k, hemmed).plan
  BY Zenon DEF Tick
<1> HIDE DEF m, my, seen, places, base, peers
<1>2. MadeOf(plan', agent.ov, k)
  <2>1. PICK hemmed : plan' = Planned(agent.ov, my, base, peers, k, hemmed).plan
    BY <1>1
  <2>2. Planned(agent.ov, my, base, peers, k, hemmed).plan # plan
    BY Zenon, <2>1
  <2>3. MadeOf(Planned(agent.ov, my, base, peers, k, hemmed).plan, agent.ov, k)
    BY Zenon, <2>2, PlanMade
  <2> QED
    BY Zenon, <2>1, <2>3
<1>3. agent.ov.sticky \in BOOLEAN /\ (agent.ov.sticky => agent.ov.mission # NoMission)
  BY DEF ChainOK, AgentOK, OverrideOK
<1>4. PICK mode, x, over, y :
        /\ plan' = [mode |-> mode, goal |-> x, overridden |-> over, status |-> y]
        /\ mode = IF k >= 6 THEN agent.ov.mission ELSE MissionType.COVERAGE
        /\ over = (told /\ k = 10)
  BY Zenon, <1>2 DEF MadeOf
<1>5. plan'.mode = mode /\ plan'.overridden = over
  BY <1>4
<1>6. CASE agent.ov.sticky
  <2>1. k = 10
    BY <1>1, <1>3, <1>6 DEF Reads
  <2> QED
    BY <1>4, <1>5, <1>6, <2>1
<1>7. CASE ~agent.ov.sticky /\ agent.ov.left = 0
  <2>1. k = 0
    BY <1>1, <1>7 DEF Reads
  <2>2. mode = MissionType.COVERAGE
    BY <1>4, <2>1
  <2>3. ~over
    <3>1. k # 10
      BY <2>1
    <3> QED
      BY Zenon, <1>4, <3>1
  <2> QED
    BY Zenon, <1>5, <1>7, <2>2, <2>3
<1> QED
  BY Zenon, <1>6, <1>7

\* If the checksums tell what was damaged, an order without a time limit decides the mode
\* of every plan and one whose time is up decides none, whatever looks at the override see
\* (Override.active, MissionPlanner.step).
THEOREM PlansAreAsTold ==
  ASSUME ChecksumsTell
  PROVE  CommandSpec => PlansAsTold
<1>1. ChainOK /\ [CommandNext]_commandVars =>
        [plan' # plan =>
           /\ agent.ov.sticky => plan'.mode = agent.ov.mission
           /\ ~agent.ov.sticky /\ agent.ov.left = 0 =>
                plan'.mode = MissionType.COVERAGE /\ ~plan'.overridden]_commandVars
  <2> SUFFICES ASSUME ChainOK, CommandNext, plan' # plan PROVE Tick
    BY TickTold
  <2> QED
    BY DEF CommandNext, Order, Arrive, Report, AgentNext, ReadSome, OnReadable, Registered,
           Second, agentVars
<1>2. CommandSpec => []FramesArrive
  BY FramesAlwaysArrive
<1> QED
  BY <1>1, <1>2, ChainBegins, ChainKeeps, PTL DEF CommandSpec, PlansAsTold
================================================================================
