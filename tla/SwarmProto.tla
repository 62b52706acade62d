------------------------------- MODULE SwarmProto -------------------------------
(***************************************************************************)
(* proto/swarm_proto.py: how messages become octets and octets become      *)
(* messages, and the framing of the serial lines (COBS, CRC16, delimiter). *)
(*                                                                         *)
(* Octets are numbers and strings are sequences of octets.  Quantities are *)
(* kept in the unit they travel in (1e-7 degrees, cm, cdeg, cm/s), so what *)
(* float arithmetic does to them is left out, and so are numbers of 2^31   *)
(* and more, which this model has no senders of.  A field that does not    *)
(* fit its width raises an exception in the code and is masked here.       *)
(***************************************************************************)
EXTENDS Integers, Sequences, SequencesExt, TLC

CONSTANT MaxCode  \* largest code of a COBS block, 0xFF in the code

ASSUME SwarmProtoAssumption == MaxCode \in 2..255

MAGIC == 83
VERSION == 1
HDR_LEN == 16

MsgType ==
  [hello |-> 1, telemetry |-> 2, neighbors |-> 3, range_req |-> 4, range_resp |-> 5,
   pose_inject |-> 6, mesh_send |-> 7, route |-> 16, cmd |-> 17, broadcast |-> 18]

CmdOp ==
  [NOOP |-> 0, SET_ROLE |-> 1, IDENTIFY |-> 2, SET_RATE |-> 3, REBOOT |-> 4, LIGHT |-> 5,
   SET_MOUNT |-> 6, SET_WAYPOINT |-> 7, SET_MISSION |-> 8, OVERRIDE |-> 9,
   CLEAR_OVERRIDE |-> 10, SET_PERMISSIONS |-> 11]

MissionType ==
  [EXPLORE |-> 0, SEARCH |-> 1, COVERAGE |-> 2, PATROL |-> 3, GOTO |-> 4, LOITER |-> 5,
   RTL |-> 6]

\* The bits and numbers that the agent tells apart
Sensor == [GPS |-> 1, IMU |-> 2, MAG |-> 4, BARO |-> 8, CAMERA |-> 128, VIO |-> 256]
PosSource == [NONE |-> 0, GPS |-> 1, RANGED |-> 2, IMU |-> 3, FUSED |-> 4]
Status ==
  [IDLE |-> 0, SCANNING |-> 1, TRANSITING |-> 2, EXECUTING |-> 3, RETURNING |-> 4,
   CHARGING |-> 5, EMERGENCY |-> 6, OFFLINE |-> 7]
EkfFlag ==
  [GPS_USED |-> 1, IMU_USED |-> 2, VIO_USED |-> 4, PEER_USED |-> 8, CONVERGED |-> 16]

\* Flags of a header
GATEWAY == 1
RELAYED == 2
LEADER == 4
OVERRIDE == 8
HasFlag(flags, f) == (flags \div f) % 2 = 1

-----------------------------------------------------------------------------
(* Checksum and framing *)

\* One step of the division by 0x1021: bits 12, 5 and 0 are toggled.
Flip(n, bit) == IF (n \div 2^bit) % 2 = 1 THEN n - 2^bit ELSE n + 2^bit
Shift(crc, bit) ==
  LET s == (2 * crc) % 65536
  IN  IF (crc \div 32768 + bit) % 2 = 1 THEN Flip(Flip(Flip(s, 12), 5), 0) ELSE s

\* crc16: the bits of an octet enter from the highest to the lowest.
Shifted(crc, octet) ==
  LET after[c \in 0..65535, i \in 0..8] ==
        IF i = 0 THEN c ELSE after[Shift(c, (octet \div 2^(i - 1)) % 2), i - 1]
  IN  after[crc, 8]

Crc16(data) ==
  LET after[crc \in 0..65535, i \in 1..Len(data) + 1] ==
        IF i > Len(data) THEN crc ELSE after[Shifted(crc, data[i]), i + 1]
  IN  after[65535, 1]

\* cobs_encode: blocks of octets that are not 0, each after its length plus one.
CobsEncode(data) ==
  LET close(s) == s.out \o <<Len(s.block) + 1>> \o s.block
  IN  close(FoldLeft(LAMBDA s, octet :
              IF octet = 0 THEN [out |-> close(s), block |-> <<>>]
              ELSE LET t == [s EXCEPT !.block = Append(@, octet)]
                   IN  IF Len(t.block) + 1 = MaxCode THEN [out |-> close(t), block |-> <<>>]
                       ELSE t,
            [out |-> <<>>, block |-> <<>>], data))

\* cobs_decode: a sequence of the data, or the empty one if it raises.  A block that is
\* not full stands for the 0 that follows it, if anything follows.
CobsDecode(frame) ==
  LET end == Len(frame) + 1
      from[i \in 1..end + 255] ==
        LET next == i + frame[i]
            rest == from[next]
        IN  CASE i = end -> <<<<>>>>
              [] i > end -> <<>>
              [] OTHER ->
                   IF frame[i] = 0 \/ rest = <<>> THEN <<>>
                   ELSE <<SubSeq(frame, i + 1, next - 1)
                          \o (IF frame[i] < MaxCode /\ next < end THEN <<0>> ELSE <<>>)
                          \o rest[1]>>
  IN  from[1]

\* pack("<H") and the other formats, the lowest octet first
Worth == <<1, 256, 65536, 16777216>>
U(width, n) == [k \in 1..width |-> (n \div Worth[k]) % 256]

Frame(payload) == CobsEncode(payload \o U(2, Crc16(payload))) \o <<0>>

\* deframe_serial of a frame without its delimiter: a sequence of the payload, or the
\* empty one if it raises.
Deframed(frame) ==
  LET body    == CobsDecode(frame)
      len     == Len(body[1]) - 2
      payload == SubSeq(body[1], 1, len)
  IN  IF body # <<>> /\ len >= 0 /\ SubSeq(body[1], len + 1, len + 2) = U(2, Crc16(payload))
      THEN <<payload>> ELSE <<>>

\* Mutant of WithFrame: a bad frame takes the good ones before it along.
WithFrameRaises(payloads, frame) ==
  IF Deframed(frame) = <<>> THEN <<>> ELSE payloads \o Deframed(frame)

\* A frame that has become whole, in feed: a bad one is skipped.
WithFrame(payloads, frame) == payloads \o Deframed(frame)

\* The last delimiter among the first i octets of a chunk, 0 if there is none
LastEnd(chunk, i) == Max({0} \cup {j \in 1..i : chunk[j] = 0})

\* What the buffer holds after them: what follows that delimiter
Unended(buf, chunk, i) ==
  IF LastEnd(chunk, i) = 0 THEN buf \o SubSeq(chunk, 1, i)
  ELSE SubSeq(chunk, LastEnd(chunk, i) + 1, i)

\* SerialReader.feed: the payloads of the frames that are complete and good, and what
\* stays in the buffer, where no delimiter is between two calls.
Feed(buf, chunk) ==
  LET good[i \in 0..Len(chunk)] ==
        LET end == LastEnd(chunk, i)
        IN  IF end = 0 THEN <<>> ELSE WithFrame(good[end - 1], Unended(buf, chunk, end - 1))
  IN  [payloads |-> good[Len(chunk)], buf |-> Unended(buf, chunk, Len(chunk))]

-----------------------------------------------------------------------------
(* Fields: a layout is a sequence of <<name, width, signed>> *)

Unsigned(octets) == FoldRight(LAMBDA x, n : x + 256 * n, octets, 0)
Signed(octets) ==
  FoldRight(LAMBDA x, n : x + 256 * n, Front(octets),
            IF Last(octets) >= 128 THEN Last(octets) - 256 ELSE Last(octets))

Size(layout) == FoldLeft(LAMBDA n, f : n + f[2], 0, layout)

Pack(layout, m) == FlattenSeq([i \in DOMAIN layout |-> U(layout[i][2], m[layout[i][1]])])

\* The octets b[off:off + n], fewer if there are not as many.
Slice(b, off, n) == SubSeq(b, off + 1, IF off + n > Len(b) THEN Len(b) ELSE off + n)

\* The fields at an offset of b, where there are enough octets.
Unpack(layout, b, off) ==
  [name \in {layout[i][1] : i \in DOMAIN layout} |->
     LET i == SelectInSeq(layout, LAMBDA f : f[1] = name)
         octets == Slice(b, off + Size(SubSeq(layout, 1, i - 1)), layout[i][2])
     IN  IF layout[i][3] THEN Signed(octets) ELSE Unsigned(octets)]

\* _pack_str, _read_str; a string that is cut short by the end of the body stays short.
Str(s, maxlen) == LET raw == Slice(s, 0, maxlen) IN <<Len(raw)>> \o raw
StrAt(b, off) == Slice(b, off + 1, b[off + 1])

Clamp(v, lo, hi) == IF v < lo THEN lo ELSE IF v > hi THEN hi ELSE v

HelloLayout ==
  << <<"role", 1, FALSE>>, <<"mount", 1, FALSE>>, <<"sensors", 2, FALSE>>,
     <<"fw_version", 2, FALSE>>, <<"battery_pct", 1, FALSE>>, <<"uptime_s", 4, FALSE>> >>

TelemetryLayout ==
  << <<"status", 1, FALSE>>, <<"pos_source", 1, FALSE>>, <<"lat", 4, TRUE>>,
     <<"lon", 4, TRUE>>, <<"alt", 4, TRUE>>, <<"heading", 2, FALSE>>,
     <<"battery_pct", 1, FALSE>>, <<"pos_quality", 1, FALSE>> >>

KinematicsLayout ==
  << <<"vel_n", 2, TRUE>>, <<"vel_e", 2, TRUE>>, <<"pos_std", 2, FALSE>>,
     <<"hdg_std", 2, FALSE>>, <<"ekf_flags", 1, FALSE>> >>

ReadingLayout == << <<"channel", 1, FALSE>>, <<"value", 4, TRUE>> >>

LinkLayout == << <<"rssi", 1, TRUE>>, <<"range_cm", 2, FALSE>>, <<"link_quality", 1, FALSE>> >>

PoseLayout ==
  << <<"lat", 4, TRUE>>, <<"lon", 4, TRUE>>, <<"alt", 4, TRUE>>, <<"heading", 2, FALSE>>,
     <<"vel_n", 2, TRUE>>, <<"vel_e", 2, TRUE>>, <<"pos_std", 2, FALSE>>,
     <<"hdg_std", 2, FALSE>>, <<"src_flags", 1, FALSE>>, <<"ts_ms", 4, FALSE>> >>

\* What encode makes of the quantities of a pose before it packs them.
Clamped(m) ==
  [m EXCEPT !.heading = @ % 36000,
            !.vel_n = Clamp(@, -32768, 32767), !.vel_e = Clamp(@, -32768, 32767),
            !.pos_std = Clamp(@, 0, 65535), !.hdg_std = Clamp(@, 0, 65535)]

-----------------------------------------------------------------------------
(* Messages *)

Body(m) ==
  CASE m.type = "hello" ->
         Pack(HelloLayout, m) \o Str(m.name, 24) \o Str(m.attached_to, 32) \o U(2, m.capabilities)
    [] m.type = "telemetry" ->
         Pack(TelemetryLayout, Clamped(m)) \o <<Len(m.readings)>>
         \o FlattenSeq([i \in DOMAIN m.readings |-> Pack(ReadingLayout, m.readings[i])])
         \o (IF m.has_kinematics THEN Pack(KinematicsLayout, Clamped(m)) ELSE <<>>)
    [] m.type = "neighbors" ->
         <<Len(m.links)>>
         \o FlattenSeq([i \in DOMAIN m.links |-> m.links[i].eui \o Pack(LinkLayout, m.links[i])])
    [] m.type = "range_req" -> m.target \o U(4, m.t1_us)
    [] m.type = "range_resp" -> m.initiator \o U(4, m.t1_us) \o U(4, m.t2_us) \o U(4, m.t3_us)
    [] m.type = "pose_inject" -> Pack(PoseLayout, Clamped(m))
    [] m.type = "mesh_send" -> m.payload
    [] m.type = "route" ->
         m.primary_parent \o m.secondary_parent \o <<m.role_override, Len(m.subscriptions)>>
         \o FlattenSeq(m.subscriptions)
    [] m.type \in {"cmd", "broadcast"} -> <<m.op, Len(m.params)>> \o m.params

Header(m) == <<MAGIC, VERSION, MsgType[m.type], m.flags>> \o m.eui \o U(4, m.seq)

Encode(m) == Header(m) \o Body(m)

\* What decode returns when it raises, and for a type it does not know
Malformed == [type |-> "malformed"]
None == [type |-> "none"]

DecodeHello(b) ==
  IF Len(b) < 12 THEN Malformed
  ELSE LET name == StrAt(b, 11)
           off  == 12 + b[12]
           att  == StrAt(b, off)
           end  == off + 1 + b[off + 1]
       IN  IF Len(b) <= off THEN Malformed
           ELSE Unpack(HelloLayout, b, 0)
                @@ [name |-> name, attached_to |-> att,
                    capabilities |-> IF end + 2 <= Len(b) THEN Unsigned(Slice(b, end, 2)) ELSE 0]

DecodeTelemetry(b) ==
  IF Len(b) < 19 \/ Len(b) < 19 + 5 * b[19] THEN Malformed
  ELSE LET off == 19 + 5 * b[19]
           has == off + 9 <= Len(b)
       IN  Unpack(TelemetryLayout, b, 0)
           @@ [readings |-> [i \in 1..b[19] |-> Unpack(ReadingLayout, b, 14 + 5 * i)],
               has_kinematics |-> has]
           @@ (IF has THEN Unpack(KinematicsLayout, b, off)
               ELSE [vel_n |-> 0, vel_e |-> 0, pos_std |-> 0, hdg_std |-> 0, ekf_flags |-> 0])

DecodeNeighbors(b) ==
  IF Len(b) < 1 \/ Len(b) < 1 + 12 * b[1] THEN Malformed
  ELSE [links |-> [i \in 1..b[1] |->
          [eui |-> Slice(b, 12 * i - 11, 8)] @@ Unpack(LinkLayout, b, 12 * i - 3)]]

DecodeRoute(b) ==
  IF Len(b) < 18 THEN Malformed
  ELSE [primary_parent |-> Slice(b, 0, 8), secondary_parent |-> Slice(b, 8, 8),
        role_override |-> b[17], subscriptions |-> [i \in 1..b[18] |-> Slice(b, 10 + 8 * i, 8)]]

DecodeBody(type, b) ==
  CASE type = "hello" -> DecodeHello(b)
    [] type = "telemetry" -> DecodeTelemetry(b)
    [] type = "neighbors" -> DecodeNeighbors(b)
    [] type = "range_req" ->
         IF Len(b) < 12 THEN Malformed
         ELSE [target |-> Slice(b, 0, 8), t1_us |-> Unsigned(Slice(b, 8, 4))]
    [] type = "range_resp" ->
         IF Len(b) < 20 THEN Malformed
         ELSE [initiator |-> Slice(b, 0, 8), t1_us |-> Unsigned(Slice(b, 8, 4)),
               t2_us |-> Unsigned(Slice(b, 12, 4)), t3_us |-> Unsigned(Slice(b, 16, 4))]
    [] type = "pose_inject" -> IF Len(b) < 27 THEN Malformed ELSE Unpack(PoseLayout, b, 0)
    [] type = "mesh_send" -> [payload |-> b]
    [] type = "route" -> DecodeRoute(b)
    [] type \in {"cmd", "broadcast"} ->
         IF Len(b) < 2 THEN Malformed ELSE [op |-> b[1], params |-> Slice(b, 2, b[2])]

\* decode
Decode(payload) ==
  IF Len(payload) < HDR_LEN \/ payload[1] # MAGIC \/ payload[2] > VERSION THEN Malformed
  ELSE LET known == {t \in DOMAIN MsgType : MsgType[t] = payload[3]}
       IN  IF known = {} THEN None
           ELSE LET type == CHOOSE t \in known : TRUE
                    body == DecodeBody(type, Slice(payload, HDR_LEN, Len(payload)))
                IN  IF body = Malformed THEN Malformed
                    ELSE [type |-> type, flags |-> payload[4], eui |-> Slice(payload, 4, 8),
                          seq |-> Unsigned(Slice(payload, 12, 4))] @@ body

-----------------------------------------------------------------------------
(* Parameters of commands *)

\* unpack("<i"), unpack("<H") of the octets from number i on
I32(b, i) ==
  b[i] + 256 * b[i + 1] + 65536 * b[i + 2]
  + 16777216 * (IF b[i + 3] < 128 THEN b[i + 3] ELSE b[i + 3] - 256)
U16(b, i) == b[i] + 256 * b[i + 1]

\* pack_waypoint, pack_mission
PackWaypoint(lat, lon, alt, type, priority, ttl) ==
  U(4, lat) \o U(4, lon) \o U(4, alt) \o <<type, priority>> \o U(2, ttl)
PackMission(type, ttl) == <<type>> \o U(2, ttl)

\* unpack_waypoint, unpack_mission; Malformed if they raise
UnpackWaypoint(b) ==
  IF Len(b) < 16 THEN Malformed
  ELSE [lat |-> I32(b, 1), lon |-> I32(b, 5), alt |-> I32(b, 9),
        mission_type |-> b[13], priority |-> b[14], ttl_s |-> U16(b, 15)]
UnpackMission(b) ==
  IF Len(b) < 3 THEN Malformed ELSE [mission_type |-> b[1], ttl_s |-> U16(b, 2)]
================================================================================
