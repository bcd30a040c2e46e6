------------------------------- MODULE Uplink -------------------------------
(***************************************************************************)
(* From a device to the coordinator and back: the byte stream that         *)
(* readLoop reads, with the codecs of Wire and Zcl on the host's side of   *)
(* it.  The device and the coprocessor are external; what they send is     *)
(* encoded by the protocols' own rules, the checksum by its polynomial.    *)
(* The line may flip, lose or add bytes, within a bound, and carry noise   *)
(* between frames.                                                         *)
(*                                                                         *)
(* In a behaviour the device has one thing to say and says it again and    *)
(* again: spontaneously, or because the host wrote it an attribute.  The   *)
(* reader depends only on the bytes, so the next frame is sent when it has *)
(* used up what it can.                                                    *)
(***************************************************************************)
EXTENDS Zcl, FiniteSets

CONSTANT MaxFaults   \* damaged frames in a behaviour

ASSUME FaultAssumption == MaxFaults \in Nat

\* Digits are bytes, and the longest message here is below the limit.
ASSUME LineAssumption == Base \in 8 .. 256 /\ maxHDLCFrameSize >= Base + 64

VARIABLES
    framing,   \* "raw" as readLoop reads, or "hdlc" as nrf52840_hdlc.go provides
    msg,       \* what the device says
    frame,     \* the bytes of it
    written,   \* the attribute value the host wrote first, or None
    wire,      \* bytes not yet consumed
    got,       \* what the host understood last
    behind,    \* undamaged frames sent since the host understood one
    faults

vars == <<framing, msg, frame, written, wire, got, behind, faults>>

-----------------------------------------------------------------------------
(* What a device says, and the bytes of it (external).                     *)

\* Widths the ZCL specification gives its types, by the structure of the IDs.
StdWidth(t) ==
    CASE t \in \h08 .. \h0F \cup \h18 .. \h1F \cup \h20 .. \h2F \cup \h30 .. \h31 -> (t % 8) + 1
      [] t = \h38 -> 2 [] t = \h39 -> 4 [] t = \h3A -> 8 [] t = TypeBool -> 1
      [] t \in \hE0 .. \hE2 -> 4 [] t \in \hE8 .. \hE9 -> 2 [] t = \hF0 -> 8

\* Types of which the library makes a value; of others a report is given in hex.
LibraryTypes == {\h10} \cup \h18 .. \h1A \cup {\h1B} \cup \h20 .. \h25 \cup \h28 .. \h2B
                \cup {\h30, \h31, \h38, \h39, \h3A, \hE0, \hE1, \hE2, \hE8, \hE9, \hF0}
OtherTypes   == \h08 .. \h0F \cup {\h26, \h27} \cup \h2C .. \h2F
Opaque       == {\h39, \h3A, \hF0}
SignedStd    == \h28 .. \h2F
NumberTypes  == (LibraryTypes \cup OtherTypes) \ Opaque

Edges(w, signed) ==
    LET top == Pow(w)
    IN  IF signed THEN {-(top \div 2), -1, 0, 1, top \div 2 - 1}
        ELSE {0, 1, top \div 2 - 1, top \div 2, top - 1}

NumberRecords == UNION {{[type |-> t, n |-> n, s |-> Digits(n, StdWidth(t))] :
                            n \in IF t = TypeBool THEN {0, 1}
                                  ELSE Edges(StdWidth(t), t \in SignedStd)} : t \in NumberTypes}
OpaqueRecords == {[type |-> t, n |-> 0, s |-> [i \in 1 .. StdWidth(t) |-> i % Base]] : t \in Opaque}
StringRecords == {[type |-> t, n |-> 0, s |-> [i \in 1 .. k |-> i % Base]] :
                      t \in \h41 .. \h44, k \in {0, 1, Base - 2}}

recordBytes(r) ==
    CASE r.type \in {\h41, \h42} -> Digits(Len(r.s), 1) \o r.s
      [] r.type \in {\h43, \h44} -> Digits(Len(r.s), 2) \o r.s
      [] OTHER -> r.s

\* The value the host should make of it: a number, or bytes.
recordMeans(r) ==
    IF r.type \in LibraryTypes \ Opaque THEN <<r.n, <<>>>> ELSE <<0, r.s>>

Say(kind, mfr, recs) == [kind |-> kind, mfr |-> mfr, recs |-> recs]

Follower == [type |-> \h20, n |-> 1, s |-> <<1>>]   \* shows where the one before it ended
Reports == {Say("report", mfr, <<r, Follower>>) : mfr \in BOOLEAN,
                r \in NumberRecords \cup OpaqueRecords \cup StringRecords}
\* A response says of its second attribute that it is not supported.
Responses == {Say("response", FALSE, <<r, Follower>>) : r \in NumberRecords \cup StringRecords}

\* Tuya: a data point of each type, then a number.  Xiaomi: two tags in a string.
TuyaPoint(type, d) == [type |-> type, d |-> d]
TuyaPoints   == {TuyaPoint(type, d) : type \in 0 .. 5, d \in {<<>>, <<1>>, <<0, 0, 0, 3>>, <<1, 0, 0, 0, 2>>}}
TuyaCommands == {Say("tuya", FALSE, <<p, TuyaPoint(2, <<0, 0, 1, 2>>)>>) : p \in TuyaPoints}
XiaomiTags == {Say("xiaomi", TRUE, <<r, Follower>>) :
                    r \in {q \in NumberRecords : q.type \in LibraryTypes /\ Len(q.s) = 1}}
Indications == {Say(kind, FALSE, <<>>) : kind \in {"ack", "announce", "join", "left", "leave",
                                                   "rejoin", "address", "reset"}}

Messages == Reports \cup Responses \cup TuyaCommands \cup XiaomiTags \cup Indications

\* Messages that are sent over a line with faults: a frame without a body, one
\* whose body holds the bytes that HDLC escapes, and a report.
Fragile == {m \in Indications : m.kind \in {"ack", "announce"}}
           \cup {Say("report", TRUE, <<Follower, Follower>>)}

Attr(i) == 4 + i
Short   == \hBEEF
Ieee    == <<1, 2, 3, 4, 5, 6, \h7E, \h7D>>
Cluster(m) == CASE m.kind = "tuya" -> \hEF00 [] OTHER -> \hFCC0

zclBytes(m) ==
    LET hdr(fc, cmd) == IF m.mfr THEN <<fc + 4, \h5F, \h11, 9, cmd>> ELSE <<fc, 9, cmd>>
        rec(i, mid)  == LE16(Attr(i)) \o mid \o <<m.recs[i].type>> \o recordBytes(m.recs[i])
        point(i)     == <<i, m.recs[i].type, 0, Len(m.recs[i].d)>> \o m.recs[i].d
        tag(i)       == <<i, m.recs[i].type>> \o m.recs[i].s
    IN  CASE m.kind = "report" -> hdr(\h08, 10) \o rec(1, <<>>) \o rec(2, <<>>)
          [] m.kind = "response" -> hdr(\h08, 1) \o rec(1, <<0>>) \o LE16(Attr(2)) \o <<\h86>>
          [] m.kind = "tuya" -> hdr(\h09, 2) \o <<0, 7>> \o point(1) \o point(2)
          [] m.kind = "xiaomi" -> hdr(\h08, 10) \o LE16(\hF7) \o <<\h41>>
                                  \o LET tags == tag(1) \o tag(2) IN Digits(Len(tags), 1) \o tags

apsInd(m) ==
    LET zcl == zclBytes(m)
    IN  <<21>> \o LE16(Len(zcl)) \o <<0>> \o LE16(Short) \o <<0, 0, 0, 0, 1, 3>> \o LE16(Cluster(m))
        \o LE16(\h104) \o <<8, 0, 0, 0, 0, 200, 180, 0>> \o zcl

refTable == [i \in Byte |-> Poly(\h8408, i)]
\* The literal in the code is the table of the polynomial.
ASSUME TableAssumption == refTable = fcsTable

refCRC16(data) == crc16(refTable, 0, data)

indication(callID, payload) ==
    LET hl == <<0, 2>> \o LE16(callID) \o payload
    IN  llHeader(7 + Len(hl), \hC4) \o LE16(refCRC16(hl)) \o hl

zbossBytes(m) ==
    CASE m.kind = "ack" -> llHeader(5, \h21)
      [] m.kind = "announce" -> indication(\h20C, LE16(Short) \o Ieee \o <<\h80>>)
      [] m.kind \in {"join", "left"} ->
            indication(\h215, Ieee \o LE16(Short) \o <<IF m.kind = "left" THEN 2 ELSE 1>>)
      [] m.kind \in {"leave", "rejoin"} ->
            indication(\h40B, Ieee \o <<IF m.kind = "rejoin" THEN 1 ELSE 0>>)
      [] m.kind = "address" -> indication(\h41C, LE16(Short))
      [] m.kind = "reset" -> indication(\h2B, <<>>)
      [] OTHER -> indication(\h306, apsInd(m))

frameBytes(m) == IF framing = "hdlc" THEN hdlcEncode(zbossBytes(m)) ELSE zbossBytes(m)

\* What the host should understand.
Meant(m) ==
    CASE m.kind = "report" -> <<"report", Short, 3, [i \in 1 .. 2 |-> <<Attr(i), recordMeans(m.recs[i])>>]>>
      [] m.kind = "response" ->
            <<"response", 9, <<<<Attr(1), 0, IF m.recs[1].type \in OtherTypes THEN <<0, <<>>>>
                                           ELSE recordMeans(m.recs[1])>>, <<Attr(2), \h86, <<0, <<>>>>>>>>>>
      [] m.kind = "tuya" ->
            LET p == m.recs[1]
                num == Number(Reverse(p.d)) % Pow(4)
                first == CASE p.type = 1 /\ p.d # <<>> -> {<<1, <<IF p.d[1] # 0 THEN 1 ELSE 0, <<>>>>>>}
                           [] p.type = 2 /\ Len(p.d) >= 4 ->
                                 {<<1, <<Number(Reverse(SubSeq(p.d, 1, 4))), <<>>>>>>}
                           [] p.type = 4 /\ p.d # <<>> -> {<<1, <<p.d[1], <<>>>>>>}
                           [] p.type = 5 -> {<<1, <<num, <<>>>>>>}
                           [] p.type \in {0, 3} -> {<<1, <<0, p.d>>>>}
                           [] OTHER -> {}
            IN  <<"tuya", first \cup {<<2, <<Base + 2, <<>>>>>>}>>
      [] m.kind = "xiaomi" -> <<"xiaomi", {<<i, recordMeans(m.recs[i])>> : i \in 1 .. 2}>>
      [] m.kind = "ack" -> <<"ack", 2>>
      [] m.kind = "announce" -> <<"announce", Short, Ieee>>
      [] m.kind = "join" -> <<"joined", Short, Ieee>>
      [] m.kind = "left" -> <<"left", Short, Ieee>>
      [] m.kind = "leave" -> <<"left", 0, Ieee>>
      [] m.kind = "rejoin" -> <<"nothing">>
      [] m.kind = "address" -> <<"address", Short>>
      [] m.kind = "reset" -> <<"reset">>

-----------------------------------------------------------------------------
(* The host.                                                               *)

\* What it may make of a frame.
Plains     == Int \X Seq(Byte)
Understood == {<<"nothing">>, <<"reset">>} \cup ({"ack", "address"} \X Word)
              \cup ({"announce", "joined", "left"} \X Word \X Seq(Byte))
              \cup ({"report"} \X Word \X Byte \X Seq(Word \X Plains))
              \cup ({"response"} \X Byte \X Seq(Word \X Byte \X Plains))
              \cup ({"tuya", "xiaomi"} \X SUBSET (Byte \X Plains))

\* A message with attributes.
Attributes == [kind : {"report", "response", "xiaomi"}, mfr : BOOLEAN,
               recs : Seq([type : Byte, n : Int, s : Seq(Byte)])]

ASSUME ResultAssumption ==
    /\ None \notin Understood \cup Attributes
    /\ \A S \in SUBSET (1 .. 2) : Err \notin [S -> Value]

Plain(v) == <<v.n, v.s>>
Pairs(map) == {<<k, Plain(map[k])>> : k \in DOMAIN map}

\* Device manager: HandleAttributeReport with processProperties for a
\* definition that decodes attribute 0xF7 as xiaomi_tlv, and
\* HandleClusterCommand with one that decodes 0xEF00 as tuya_dp; ReadAttributes
\* for the response.
HandleZcl(e) ==
    CASE e.to = "report" /\ Len(e.data) = 1 /\ e.data[1].attr = \hF7 ->
            LET val == decodeReported(e.data[1].type, e.data[1].value)
                tlv == decodeXiaomiTLV(IF val.go = "hex" THEN hexText(val.s) ELSE val.s)
            IN  IF val.go \notin {"[]byte", "string", "hex"} \/ tlv = Err THEN None
                ELSE <<"xiaomi", Pairs(tlv)>>
      [] e.to = "report" /\ ~(Len(e.data) = 1 /\ e.data[1].attr = \hF7) ->
            <<"report", e.src, e.ep,
              [i \in DOMAIN e.data |-> <<e.data[i].attr,
                                         Plain(decodeReported(e.data[i].type, e.data[i].value))>>]>>
      [] e.to = "response" ->
            <<"response", e.seq,
              [i \in DOMAIN e.data |-> <<e.data[i].attr, e.data[i].status,
                                         Plain(readResult(e.data[i].type, e.data[i].value))>>]>>
      [] e.to = "command" /\ e.cluster = \hEF00 ->
            LET dps == decodeTuyaDPs(e.data)
            IN  IF dps = Err THEN None ELSE <<"tuya", Pairs(dps)>>
      [] OTHER -> None

handleIndication(f) ==
    LET p == f.payload
    IN  CASE f.callID = \h20C -> IF Len(p) < 11 THEN None
                                 ELSE <<"announce", Uint16(p[1], p[2]), SubSeq(p, 3, 10)>>
          [] f.callID = \h215 ->
                IF Len(p) < 11 \/ p[11] > 3 THEN None
                ELSE <<IF p[11] = 2 THEN "left" ELSE "joined", Uint16(p[9], p[10]), SubSeq(p, 1, 8)>>
          [] f.callID = \h40B -> IF Len(p) < 8 THEN None
                                 ELSE IF Len(p) >= 9 /\ p[9] # 0 THEN <<"nothing">>
                                 ELSE <<"left", 0, SubSeq(p, 1, 8)>>
          [] f.callID = \h306 -> LET e == handleAPSDEDataInd(p)
                                 IN  IF e = None THEN None ELSE HandleZcl(e)
          [] f.callID = \h2B -> <<"reset">>
          [] f.callID = \h41C -> IF Len(p) < 2 THEN None ELSE <<"address", Uint16(p[1], p[2])>>
          [] OTHER -> None

\* readLoop, for one frame: errors are logged and the loop goes on.
understand(raw) ==
    LET data == IF framing = "hdlc" THEN hdlcDecode(raw) ELSE raw
        f    == zbossDecodeFrame(data)
    IN  IF data = Err THEN None
        ELSE IF f \in {Err, Panic} THEN IF f = Panic THEN Panic ELSE None
        ELSE IF zbossLLIsACK(f.flags) THEN <<"ack", zbossLLAckSeq(f.flags)>>
        ELSE IF f.packetType = 2 THEN handleIndication(f)
        ELSE None

next == IF framing = "hdlc" THEN readHDLCFrame(wire) ELSE readRawZBOSSFrame(wire)

ReadFrame ==
    LET r == next
    IN  /\ r # None
        /\ wire' = r.rest
        /\ LET u == understand(r.frame)
           IN  /\ got' = IF u = None THEN got ELSE u
               /\ behind' = IF u = None THEN behind ELSE 0
        /\ UNCHANGED <<framing, msg, frame, written, faults>>

\* WriteAttribute and WriteAttributes: the request on the wire, if the value
\* can be encoded.
requestBytes(t, v) ==
    zbossEncodeRequest(\h301, 5, 1, buildAPSDEDataReq(Short, 3, 1, \hFCC0, \h104, 30,
        zclBuildWriteAttributes(9, <<Record(Attr(1), t, EncodeValue(t, v))>>)))

\* The device keeps the record it finds in the request, and reports it.
deviceKeeps(req) ==
    LET aps    == zbossDecodeFrame(req).payload
        rec    == zclParseAttributeReports(SubSeq(aps, 28, 24 + Uint16(aps[2], aps[3])))[1]
        prefix == CASE rec.type \in {\h41, \h42} -> 1 [] rec.type \in {\h43, \h44} -> 2 [] OTHER -> 0
    IN  [type |-> rec.type, s |-> From(rec.value, prefix + 1),
         n |-> IF prefix > 0 THEN 0
               ELSE IF rec.type \in SignedStd THEN Signed(rec.value) ELSE Number(rec.value)]

\* What the host may be asked to write: numbers in and out of range, strings of
\* any length.
WriteNumbers(w) ==
    Edges(w, TRUE) \cup Edges(w, FALSE) \cup {Pow(w), Pow(w) + 1, -(Pow(w) \div 2) - 1}
\* Exact, halfway between two floats and next to it, for both kinds of float.
FloatNumbers ==
    {0, 1, Base, Pow(2) + Base \div 2} \cup {k * Pow(p) + d : k \in {1, 2}, p \in {2, 6}, d \in {0, 1}}
\* The JSON or Lua numbers, whole and with a half, and the Go integers.
GoNumbers(ns) == {Go("float64", 2 * n + k) : n \in ns, k \in {0, 1}}
                 \cup {Go("int64", n) : n \in ns} \cup {Go("uint64", n) : n \in ns \cap Nat}
WriteValues(t) ==
    CASE t = \hF0 -> {GoBytes("[]byte", [i \in 1 .. k |-> i % Base]) : k \in {4, 8}}
      [] t \in {\h41, \h43} -> {GoBytes("[]byte", [i \in 1 .. k |-> 1]) : k \in {0, Base - 2, Base - 1}}
      [] t \in {\h42, \h44} -> {GoBytes("string", [i \in 1 .. k |-> 1]) : k \in {0, Base - 2, Base - 1}}
      [] t \in {\h39, \h3A} -> GoNumbers(FloatNumbers \cup {-n : n \in FloatNumbers})
      [] OTHER -> GoNumbers(WriteNumbers(StdWidth(t)))

Speak(m) == msg' = m /\ frame' = frameBytes(m)

WriteAttribute(t, v) ==
    /\ EncodeValue(t, v) # Err
    /\ Speak(Say("report", FALSE, <<deviceKeeps(requestBytes(t, v)), Follower>>))
    /\ written' = [type |-> t, v |-> v]
    /\ UNCHANGED <<framing, wire, got, behind, faults>>

-----------------------------------------------------------------------------
(* The line (external).                                                    *)

Damage(f) ==
    {[f EXCEPT ![i] = xor(@, 2 ^ k)] : i \in DOMAIN f, k \in 0 .. 7}
    \cup {RemoveAt(f, i) : i \in DOMAIN f}
    \cup {SubSeq(f, 1, i) : i \in 0 .. Len(f) - 1}
    \cup {SubSeq(f, 1, i) \o n \o From(f, i + 1) : i \in 0 .. Len(f),
             n \in {<<\hDE>>, <<\hAD>>, <<\hDE, \hAD>>, <<\h7E>>, <<\h7D>>, <<0>>}}

\* Bytes between frames, without the two that start one.
Noise == {<<0>>, <<\hAD>>, <<\hDE>>, <<\hDE, \hDE>>, <<0, \hDE>>, <<\hDE, 0>>}

Init ==
    /\ framing \in {"raw", "hdlc"}
    /\ msg = None /\ frame = <<>> /\ written = None /\ wire = <<>> /\ got = None
    /\ behind = 0 /\ faults = 0

DeviceSpeaks(m) ==
    /\ Speak(m)
    /\ UNCHANGED <<framing, written, wire, got, behind, faults>>

Send ==
    /\ msg # None /\ next = None
    /\ \/ wire' = wire \o frame /\ behind' = behind + 1 /\ UNCHANGED faults
       \/ /\ msg \in Fragile /\ faults = 0
          /\ \E n \in Noise : wire' = wire \o n \o frame
          /\ behind' = behind + 1 /\ UNCHANGED faults
       \/ /\ msg \in Fragile /\ faults < MaxFaults
          /\ \E f \in Damage(frame) : wire' = wire \o f
          /\ faults' = faults + 1 /\ UNCHANGED behind
    /\ UNCHANGED <<framing, msg, frame, written, got>>

Next ==
    \/ msg = None /\ \E m \in (IF framing = "hdlc" THEN Indications ELSE Messages) : DeviceSpeaks(m)
    \/ msg = None /\ framing = "raw" /\ \E t \in NumberTypes \cup Opaque \cup \h41 .. \h44 : \E v \in WriteValues(t) : WriteAttribute(t, v)
    \/ Send
    \/ ReadFrame

Spec == Init /\ [][Next]_vars

-----------------------------------------------------------------------------
(* Properties.                                                             *)

\* What the host understands is what the device said, to the last digit and
\* sign, whichever byte of the stream was flipped, lost or added: readLoop, the
\* two record parsers, DecodeValue and the Tuya and Xiaomi decoders take no
\* damaged or misaligned frame for another one, and no slice is out of range.
UnderstoodIsSaid == got \in {None} \cup (IF msg = None THEN {} ELSE {Meant(msg)})

\* Without damage every frame is understood, also behind noise in which no 0xDE
\* is followed by a 0xAD: the scan in readRawZBOSSFrame loses no frame to a stray
\* 0xDE.
NoNeedlessLoss == faults = 0 /\ next = None => behind = 0

\* After damage the readers find their way back: the frames lost to it are those
\* that fit into one of the size the length check in readRawZBOSSFrame admits,
\* and the ones the damage cuts at either end.
Resync == next = None => (behind - 2) * Len(frame) <= maxHDLCFrameSize

\* What is left of a value in an attribute: of a bool whether it is zero, of an
\* integer its whole part, of a float the nearest one.
LeftOf(t, v) ==
    CASE t = TypeBool -> <<IF v.n # 0 THEN 1 ELSE 0, <<>>>>
      [] t = \h39 -> <<0, FloatBits(float32(v), 4)>>
      [] t = \h3A -> <<0, FloatBits(float64(v), 8)>>
      [] OTHER -> <<Whole(v), v.s>>

\* A value that EncodeValue accepted comes back from the device with its sign
\* and all its digits: no number is cut to the width of the attribute and none
\* takes the place of another.  A fraction is lost in an integer, silently, and
\* so is what a float has no digits for.  Float16 is left out, EncodeValue cuts
\* it without a check.
WrittenIsReported ==
    written # None /\ got # None /\ written.type # TypeFloat16 =>
        got[4][1][2] = LeftOf(written.type, written.v)
=============================================================================
