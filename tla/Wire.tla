-------------------------------- MODULE Wire --------------------------------
(***************************************************************************)
(* The serial link layer of internal/ncp as functions on byte sequences:   *)
(* CRCs, ZBOSS LL/HL frames, HDLC-Lite framing and the two frame readers.  *)
(* Bytes and 16-bit numbers are those of the code.  A reader is a function *)
(* of the bytes not yet consumed; None means that it blocks for more.      *)
(***************************************************************************)
EXTENDS Integers, Sequences, SequencesExt

CONSTANTS
    maxHDLCFrameSize,   \* 4096 in the code
    None,               \* no result
    Err,                \* an error return
    Panic               \* a slice expression out of range

ASSUME SizeAssumption == maxHDLCFrameSize \in Nat \ {0}

Byte == 0 .. 255
MaxUint16 == 65535
Word == 0 .. MaxUint16

\* ^ on 16 bits, by nibbles.
XorNibble == [p \in (0 .. 15) \X (0 .. 15) |->
    LET bit(k) == k * (((p[1] \div k) + (p[2] \div k)) % 2)
    IN  bit(1) + bit(2) + bit(4) + bit(8)]
xor(a, b) ==
    LET at(k) == k * XorNibble[<<(a \div k) % 16, (b \div k) % 16>>]
    IN  at(1) + at(16) + at(256) + at(4096)

From(s, i) == SubSeq(s, i, Len(s))
LE16(n) == <<n % 256, (n \div 256) % 256>>
Uint16(lo, hi) == lo + 256 * hi

-----------------------------------------------------------------------------
(* Checksums.                                                              *)

\* Eight steps of a reflected CRC, one per bit.
Poly(poly, byte) ==
    LET bit[k \in 0 .. 8] ==
          IF k = 0 THEN byte
          ELSE LET c == bit[k - 1] IN IF c % 2 = 1 THEN xor(c \div 2, poly) ELSE c \div 2
    IN  bit[8]

crc8Table == [i \in Byte |-> Poly(\hB2, i)]

zbossCRC8(data) ==
    LET crc[i \in 0 .. Len(data)] == IF i = 0 THEN \hFF ELSE crc8Table[xor(crc[i - 1], data[i])]
    IN  xor(crc[Len(data)], \hFF)

fcsTableLiteral == <<
    \h0000, \h1189, \h2312, \h329B, \h4624, \h57AD, \h6536, \h74BF,
    \h8C48, \h9DC1, \hAF5A, \hBED3, \hCA6C, \hDBE5, \hE97E, \hF8F7,
    \h1081, \h0108, \h3393, \h221A, \h56A5, \h472C, \h75B7, \h643E,
    \h9CC9, \h8D40, \hBFDB, \hAE52, \hDAED, \hCB64, \hF9FF, \hE876,
    \h2102, \h308B, \h0210, \h1399, \h6726, \h76AF, \h4434, \h55BD,
    \hAD4A, \hBCC3, \h8E58, \h9FD1, \hEB6E, \hFAE7, \hC87C, \hD9F5,
    \h3183, \h200A, \h1291, \h0318, \h77A7, \h662E, \h54B5, \h453C,
    \hBDCB, \hAC42, \h9ED9, \h8F50, \hFBEF, \hEA66, \hD8FD, \hC974,
    \h4204, \h538D, \h6116, \h709F, \h0420, \h15A9, \h2732, \h36BB,
    \hCE4C, \hDFC5, \hED5E, \hFCD7, \h8868, \h99E1, \hAB7A, \hBAF3,
    \h5285, \h430C, \h7197, \h601E, \h14A1, \h0528, \h37B3, \h263A,
    \hDECD, \hCF44, \hFDDF, \hEC56, \h98E9, \h8960, \hBBFB, \hAA72,
    \h6306, \h728F, \h4014, \h519D, \h2522, \h34AB, \h0630, \h17B9,
    \hEF4E, \hFEC7, \hCC5C, \hDDD5, \hA96A, \hB8E3, \h8A78, \h9BF1,
    \h7387, \h620E, \h5095, \h411C, \h35A3, \h242A, \h16B1, \h0738,
    \hFFCF, \hEE46, \hDCDD, \hCD54, \hB9EB, \hA862, \h9AF9, \h8B70,
    \h8408, \h9581, \hA71A, \hB693, \hC22C, \hD3A5, \hE13E, \hF0B7,
    \h0840, \h19C9, \h2B52, \h3ADB, \h4E64, \h5FED, \h6D76, \h7CFF,
    \h9489, \h8500, \hB79B, \hA612, \hD2AD, \hC324, \hF1BF, \hE036,
    \h18C1, \h0948, \h3BD3, \h2A5A, \h5EE5, \h4F6C, \h7DF7, \h6C7E,
    \hA50A, \hB483, \h8618, \h9791, \hE32E, \hF2A7, \hC03C, \hD1B5,
    \h2942, \h38CB, \h0A50, \h1BD9, \h6F66, \h7EEF, \h4C74, \h5DFD,
    \hB58B, \hA402, \h9699, \h8710, \hF3AF, \hE226, \hD0BD, \hC134,
    \h39C3, \h284A, \h1AD1, \h0B58, \h7FE7, \h6E6E, \h5CF5, \h4D7C,
    \hC60C, \hD785, \hE51E, \hF497, \h8028, \h91A1, \hA33A, \hB2B3,
    \h4A44, \h5BCD, \h6956, \h78DF, \h0C60, \h1DE9, \h2F72, \h3EFB,
    \hD68D, \hC704, \hF59F, \hE416, \h90A9, \h8120, \hB3BB, \hA232,
    \h5AC5, \h4B4C, \h79D7, \h685E, \h1CE1, \h0D68, \h3FF3, \h2E7A,
    \hE70E, \hF687, \hC41C, \hD595, \hA12A, \hB0A3, \h8238, \h93B1,
    \h6B46, \h7ACF, \h4854, \h59DD, \h2D62, \h3CEB, \h0E70, \h1FF9,
    \hF78F, \hE606, \hD49D, \hC514, \hB1AB, \hA022, \h92B9, \h8330,
    \h7BC7, \h6A4E, \h58D5, \h495C, \h3DE3, \h2C6A, \h1EF1, \h0F78>>

fcsTable == [i \in Byte |-> fcsTableLiteral[i + 1]]

crc16(table, init, data) ==
    LET step == [p \in Word \X Byte |-> xor(p[1] \div 256, table[xor(p[1] % 256, p[2])])]
        crc[i \in 0 .. Len(data)] == IF i = 0 THEN init ELSE step[<<crc[i - 1], data[i]>>]
    IN  crc[Len(data)]

zbossCRC16(data) == crc16(fcsTable, 0, data)
hdlcFCS16(data)  == xor(crc16(fcsTable, \hFFFF, data), \hFFFF)

-----------------------------------------------------------------------------
(* ZBOSS frames.                                                           *)

zbossSig0 == \hDE
zbossSig1 == \hAD
zbossLLType == 6

\* The LL header: signature, size, type, flags and a CRC of all but the
\* signature.
llHeader(llSize, flags) ==
    LET h == LE16(llSize) \o <<zbossLLType, flags>>
    IN  <<zbossSig0, zbossSig1>> \o h \o <<zbossCRC8(h)>>

zbossLLIsACK(flags)  == flags % 2 = 1
zbossLLAckSeq(flags) == (flags \div 16) % 4

\* FirstFrag, LastFrag and the packet number.
zbossEncodeDataFrame(pktSeq, hlData) ==
    llHeader(7 + Len(hlData), \hC0 + 4 * (pktSeq % 4))
    \o LE16(zbossCRC16(hlData)) \o hlData

zbossEncodeRequest(callID, tsn, pktSeq, payload) ==
    zbossEncodeDataFrame(pktSeq, <<0, 0>> \o LE16(callID) \o <<tsn>> \o payload)

\* What zbossDecodeFrame returns without an error: an ACK, or a data frame.
LLAck   == [flags : Byte]
HLFrame == [flags : Byte, packetType : 0 .. 2, callID : Word, tsn : Byte,
            status : Byte \X Byte, payload : Seq(Byte)]

ASSUME PanicAssumption == Panic \notin {Err} \cup LLAck \cup HLFrame
ASSUME ErrAssumption   == Err \notin Seq(Byte) \cup LLAck \cup HLFrame

\* HL header sizes of requests, responses and indications.
hlSize(packetType) == CASE packetType = 0 -> 5 [] packetType = 1 -> 7 [] packetType = 2 -> 4
                        [] OTHER -> 0

\* The HL part of a data frame whose body CRC matched.
decodeHL(flags, hl) ==
    LET type == hl[2]
        size == hlSize(type)
    IN  IF Len(hl) < 4 THEN Err
        ELSE IF size = 0 \/ Len(hl) < size THEN Err
        ELSE [flags |-> flags, packetType |-> type, callID |-> Uint16(hl[3], hl[4]),
              tsn |-> IF type = 2 THEN 0 ELSE hl[5],
              status |-> IF type = 1 THEN <<hl[6], hl[7]>> ELSE <<0, 0>>,
              payload |-> SubSeq(hl, size + 1, Len(hl))]

zbossDecodeFrame(data) ==
    IF Len(data) < 7 THEN Err
    ELSE LET llSize == Uint16(data[3], data[4])
             flags  == data[6]
             body   == SubSeq(data, 8, 2 + llSize)
             hl     == SubSeq(body, 3, Len(body))
         IN  IF \/ <<data[1], data[2]>> # <<zbossSig0, zbossSig1>>
                \/ data[7] # zbossCRC8(SubSeq(data, 3, 6))
                \/ data[5] # zbossLLType
                \/ llSize + 2 > Len(data) THEN Err
             ELSE IF zbossLLIsACK(flags) THEN [flags |-> flags]
             ELSE IF llSize < 5 THEN Panic
             ELSE IF Len(body) < 2 THEN Err
             ELSE IF Uint16(body[1], body[2]) # zbossCRC16(hl) THEN Err
             ELSE decodeHL(flags, hl)

\* Mutant of afterSig0: the byte after a 0xDE is never looked at again.
skipBoth(b) == 2

\* A 0xDE in place of 0xAD may start the real signature.
afterSig0(b) == IF b = zbossSig0 THEN 1 ELSE 2

\* Mutant of goodSize: no upper limit.
noLimit(llSize) == llSize - 2 >= 3

\* What a reader returns: a frame, and the bytes left for the next call.
Taken == [frame : Seq(Byte), rest : Seq(Byte)]

ASSUME NoneAssumption == None \notin Taken

goodSize(llSize) == llSize - 2 >= 3 /\ llSize - 2 <= maxHDLCFrameSize

\* Scan for the signature.  A size out of range is skipped with it, else that
\* many bytes are read, whatever they are.
readRawZBOSSFrame(w) ==
    LET scan[i \in 1 .. Len(w) + 4] ==
          IF i + 3 > Len(w) THEN None
          ELSE IF w[i] # zbossSig0 THEN scan[i + 1]
          ELSE IF w[i + 1] # zbossSig1 THEN scan[i + afterSig0(w[i + 1])]
          ELSE LET llSize == Uint16(w[i + 2], w[i + 3])
                   end    == i + 1 + llSize
               IN  IF ~goodSize(llSize) THEN scan[i + 4]
                   ELSE IF end > Len(w) THEN None
                   ELSE [frame |-> SubSeq(w, i, end), rest |-> From(w, end + 1)]
    IN  scan[1]

-----------------------------------------------------------------------------
(* HDLC-Lite.                                                              *)

hdlcFlag   == \h7E
hdlcEscape == \h7D

hdlcEncode(data) ==
    LET raw == data \o LE16(hdlcFCS16(data))
        escaped[i \in 0 .. Len(raw)] ==
          IF i = 0 THEN <<hdlcFlag>>
          ELSE escaped[i - 1] \o IF raw[i] \in {hdlcFlag, hdlcEscape}
                                 THEN <<hdlcEscape, xor(raw[i], \h20)>> ELSE <<raw[i]>>
    IN  Append(escaped[Len(raw)], hdlcFlag)

\* An escape at the very end is dropped.
hdlcDecode(data) ==
    LET unescape[i \in 1 .. Len(data) + 2] ==
          IF i > Len(data) THEN <<>>
          ELSE IF data[i] # hdlcEscape THEN <<data[i]>> \o unescape[i + 1]
          ELSE IF i = Len(data) THEN <<>>
          ELSE <<xor(data[i + 1], \h20)>> \o unescape[i + 2]
        raw     == unescape[1]
        payload == SubSeq(raw, 1, Len(raw) - 2)
    IN  IF Len(raw) < 2 THEN Err
        ELSE IF Uint16(raw[Len(raw) - 1], raw[Len(raw)]) # hdlcFCS16(payload) THEN Err
        ELSE payload

\* from: where the frame being read starts, 0 outside one.  A flag ends a frame
\* that has bytes; a frame that is too large is given up, and the next flag
\* starts one.
readHDLCFrame(w) ==
    LET scan[p \in (1 .. Len(w) + 1) \X (0 .. Len(w) + 1)] ==
          LET i    == p[1]
              from == p[2]
          IN  IF i > Len(w) THEN None
              ELSE IF w[i] = hdlcFlag
                   THEN IF from # 0 /\ from < i
                        THEN [frame |-> SubSeq(w, from, i - 1), rest |-> SubSeq(w, i + 1, Len(w))]
                        ELSE scan[<<i + 1, i + 1>>]
              ELSE scan[<<i + 1, IF from # 0 /\ i - from >= maxHDLCFrameSize THEN 0 ELSE from>>]
    IN  scan[<<1, 0>>]
=============================================================================
