-------------------------------- MODULE Zcl ---------------------------------
(***************************************************************************)
(* ZCL payloads: the type table, value codec and conversions of            *)
(* internal/zcl/types.go, the record parsers and frame builders of         *)
(* internal/ncp, and the Tuya and Xiaomi decoders of properties.go.        *)
(*                                                                         *)
(* A typed value is a sequence of digits in base Base, which is 256 in the *)
(* code: widths, signs, overflow and length prefixes are those of the      *)
(* code, and eight digits stay within TLC's integers.  Headers, addresses  *)
(* and type IDs are bytes.                                                 *)
(***************************************************************************)
EXTENDS Wire

CONSTANT Base

ASSUME BaseAssumption == Base \in Nat /\ Base % 2 = 0 /\ Base > 2

\* Base to the power of k, and the lowest k digits of n.
Pow(k) ==
    LET pow[i \in 0 .. k] == IF i = 0 THEN 1 ELSE Base * pow[i - 1]
    IN  pow[k]
Digits(n, k) ==
    LET rest[i \in 0 .. k] == IF i = 0 THEN n ELSE rest[i - 1] \div Base
    IN  [i \in 1 .. k |-> rest[i - 1] % Base]
Number(d) ==
    LET num[i \in 1 .. Len(d) + 1] == IF i > Len(d) THEN 0 ELSE d[i] + Base * num[i + 1]
    IN  num[1]

\* Mutant of Signed: the sign bit is a digit like the others.
NoSign(d) == Number(d)

Signed(d) == IF 2 * Number(d) < Pow(Len(d)) THEN Number(d) ELSE Number(d) - Pow(Len(d))

\* A Go value: its dynamic type with a number, or with bytes.  A float that was
\* read is its bits; one to be written is whole or has a half, which stands for
\* any fraction: its n is twice the number.
Go(type, n)      == [go |-> type, n |-> n, s |-> <<>>]
GoBytes(type, s) == [go |-> type, n |-> 0, s |-> s]
Nil == Go("nil", 0)

\* The dynamic types a value may have ("hex" is a string with %X of the bytes).
GoTypes == {"nil", "bool", "int", "int8", "int16", "int32", "int64", "uint8", "uint16", "uint32",
            "uint64", "float32", "float64", "string", "[]byte", "[8]byte", "hex"}
Value   == [go : GoTypes, n : Int, s : Seq(Byte)]

ASSUME ValueAssumption == None \notin Value /\ Err \notin [val : Value, used : Nat]

-----------------------------------------------------------------------------
(* Types.  zcl.TypeSize and ncp.typeSize are two tables of the same types; *)
(* the second also knows data8..data64 and the widest integers.            *)

TypeNoData == 0
TypeBool == \h10
TypeFloat16 == \h38
UintTypes(size) == CASE size = 1 -> {\h20, \h30, \h18} [] size = 2 -> {\h21, \h31, \h19, \hE8, \hE9}
                [] size = 3 -> {\h22, \h1A} [] size = 4 -> {\h23, \h1B, \hE2, \hE0, \hE1}
                [] size = 5 -> {\h24} [] size = 6 -> {\h25}
SignedTypes == \h28 .. \h2B   \* int8 to int32
TypeOctetStr == \h41
TypeCharStr == \h42
TypeOctetStr16 == \h43
TypeCharStr16 == \h44

TypeSize(t) ==
    CASE t = TypeNoData -> 0
      [] t = TypeBool -> 1
      [] \E k \in 1 .. 6 : t \in UintTypes(k) -> CHOOSE k \in 1 .. 6 : t \in UintTypes(k)
      [] t \in SignedTypes -> t - \h27
      [] t = TypeFloat16 -> 2 [] t = \h39 -> 4 [] t \in {\h3A, \hF0} -> 8
      [] OTHER -> -1

typeSize(t) ==
    CASE t \in \h08 .. \h0F \cup \h20 .. \h2F \cup \h18 .. \h1B -> (t % 8) + 1
      [] t = \h10 -> 1 [] t = \h30 -> 1 [] t = \h31 -> 2
      [] t = \h38 -> 2 [] t = \h39 -> 4 [] t = \h3A -> 8
      [] t \in \hE0 .. \hE2 -> 4 [] t \in {\hE8, \hE9} -> 2 [] t = \hF0 -> 8
      [] t \in {TypeOctetStr, TypeCharStr} -> -1
      [] t \in {TypeOctetStr16, TypeCharStr16} -> -3
      [] OTHER -> -2

-----------------------------------------------------------------------------
(* DecodeValue: the value and the bytes it took.                           *)

Decoded(val, used) == [val |-> val, used |-> used]

\* A length of all ones stands for no value.
decodeVariableValue(t, data) ==
    LET prefix == CASE t \in {TypeOctetStr, TypeCharStr} -> 1
                    [] t \in {TypeOctetStr16, TypeCharStr16} -> 2 [] OTHER -> 0
        length == Number(SubSeq(data, 1, prefix))
        go     == IF t \in {TypeCharStr, TypeCharStr16} THEN "string" ELSE "[]byte"
    IN  IF prefix = 0 \/ Len(data) < prefix THEN Err
        ELSE IF length = Pow(prefix) - 1 THEN Decoded(Nil, prefix)
        ELSE IF Len(data) < prefix + length THEN Err
        ELSE Decoded(GoBytes(go, SubSeq(data, prefix + 1, prefix + length)), prefix + length)

uintName(size) == CASE size = 1 -> "uint8" [] size = 2 -> "uint16" [] size <= 4 -> "uint32"
                    [] OTHER -> "uint64"
intName(size)  == CASE size = 1 -> "int8" [] size = 2 -> "int16" [] OTHER -> "int32"

\* A value of a fixed size that is all there.
decodeFixed(t, d) ==
    CASE t = TypeBool -> Go("bool", IF d[1] # 0 THEN 1 ELSE 0)
      [] t \in SignedTypes -> Go(intName(Len(d)), Signed(d))
      [] t = \h39 -> GoBytes("float32", d)
      [] t = \h3A -> GoBytes("float64", d)
      [] t = \hF0 -> GoBytes("[8]byte", d)
      [] OTHER -> Go(uintName(Len(d)), Number(d))

DecodeValue(t, data) ==
    LET size == TypeSize(t)
    IN  IF size = 0 THEN Decoded(Nil, 0)
        ELSE IF size < 0 THEN decodeVariableValue(t, data)
        ELSE IF Len(data) < size THEN Err
        ELSE Decoded(decodeFixed(t, SubSeq(data, 1, size)), size)

-----------------------------------------------------------------------------
(* EncodeValue.  NaN, the infinities and floats that no 64-bit integer     *)
(* holds are left out: what becomes of them depends on the processor.      *)

\* A float has a sign, an exponent and significant digits, 6 or 2 of them in
\* base Base; IEEE 754 has 53 or 24 bits.  Neither overflows here.

\* How many digits m has.
Width(m) == Min({k \in 0 .. 8 : m < Pow(k)} \cup {9})

\* The number with p significant digits that is nearest to m, ties to even.
Nearest(m, p) ==
    LET g == Pow(IF Width(m) > p THEN Width(m) - p ELSE 0)
        q == m \div g
        up == 2 * (m % g) > g \/ (2 * (m % g) = g /\ q % 2 = 1)
    IN  g * (IF up THEN q + 1 ELSE q)
Rounded(h, p) == IF h < 0 THEN -Nearest(-h, p) ELSE Nearest(h, p)

\* math.Float32bits and math.Float64bits of h / 2.
FloatBits(h, size) ==
    LET m == IF h < 0 THEN -h ELSE h
        p == size - 2
        significand == IF Width(m) <= p THEN m * Pow(p - Width(m)) ELSE m \div Pow(Width(m) - p)
    IN  Digits((IF h < 0 THEN Pow(size) \div 2 ELSE 0) + Width(m) * Pow(p) + significand, size)

\* Twice the number that v becomes as a float64 or, after that, as a float32:
\* rounded without an error.
float64(v) == Rounded(IF v.go \in {"float32", "float64"} THEN v.n ELSE 2 * v.n, 6)
float32(v) == Rounded(float64(v), 2)

\* uint64(val), int64(val): what a float has after the point is dropped,
\* without an error.
Whole(v) == IF v.go # "float64" THEN v.n ELSE IF v.n < 0 THEN -((-v.n) \div 2) ELSE v.n \div 2

\* Which values each of them takes.
toBool(v)    == v.go \in {"bool", "float64", "int"}
toUint64(v)  == \/ v.go \in {"uint8", "uint16", "uint32", "uint64"}
                \/ v.go \in {"int", "int64", "float64"} /\ v.n >= 0
toInt64(v)   == v.go \in {"int8", "int16", "int32", "int64", "int", "uint8", "uint16", "uint32",
                          "uint64", "float64"}
toFloat64(v) == v.go \in {"float32", "float64", "int", "int64", "uint64"}

\* TypeToD, TypeDate, TypeClusterID and TypeAttrID can be read and not written.
Writable(size) == UintTypes(size) \ {\hE0, \hE1, \hE8, \hE9}

encodeString(prefix, v, go) ==
    IF v.go # go \/ Len(v.s) > Pow(prefix) - 2 THEN Err
    ELSE Digits(Len(v.s), prefix) \o v.s

\* Mutant of EncodeValue: a number out of range is cut to the width.
EncodeCut(t, v) ==
    IF t # TypeBool /\ TypeSize(t) \in 1 .. 6 THEN Digits(Whole(v), TypeSize(t)) ELSE Err

EncodeValue(t, v) ==
    LET size == TypeSize(t)
    IN  CASE t = TypeBool -> IF toBool(v) THEN <<IF v.n # 0 THEN 1 ELSE 0>> ELSE Err
          [] size \in 1 .. 6 /\ t \in Writable(size) ->
                IF toUint64(v) /\ Whole(v) < Pow(size) THEN Digits(Whole(v), size) ELSE Err
          [] t \in SignedTypes ->
                IF toInt64(v) /\ 2 * Whole(v) >= -Pow(size) /\ 2 * Whole(v) < Pow(size)
                THEN Digits(Whole(v), size) ELSE Err
          [] t = TypeFloat16 -> IF toUint64(v) THEN Digits(Whole(v), 2) ELSE Err
          [] t = \h39 -> IF toFloat64(v) THEN FloatBits(float32(v), 4) ELSE Err
          [] t = \h3A -> IF toFloat64(v) THEN FloatBits(float64(v), 8) ELSE Err
          [] t = \hF0 -> IF v.go \in {"[8]byte", "[]byte"} /\ Len(v.s) = 8 THEN v.s ELSE Err
          [] t = TypeCharStr -> encodeString(1, v, "string")
          [] t = TypeOctetStr -> encodeString(1, v, "[]byte")
          [] t = TypeCharStr16 -> encodeString(2, v, "string")
          [] t = TypeOctetStr16 -> encodeString(2, v, "[]byte")
          [] OTHER -> Err

-----------------------------------------------------------------------------
(* Attribute records.                                                      *)

\* The bytes a value at the start of data takes, prefix included; 0 when that
\* cannot be told.
valueLen(t, data) ==
    LET prefix == CASE typeSize(t) = -1 -> 1 [] typeSize(t) = -3 -> 2 [] OTHER -> 0
    IN  CASE typeSize(t) > 0 -> typeSize(t)
          [] prefix > 0 /\ Len(data) >= prefix -> prefix + Number(SubSeq(data, 1, prefix))
          [] OTHER -> 0

Fits(t, data) == valueLen(t, data) \in 1 .. Len(data)

Record(attr, t, value) == [attr |-> attr, type |-> t, value |-> value]

\* It stops at a record that is cut short or has a type it does not know.
zclParseAttributeReports(data) ==
    LET from[p \in 1 .. Len(data) + 1] ==
          LET rest == From(data, p + 3)
              t    == data[p + 2]
              n    == valueLen(t, rest)
          IN  IF p + 2 > Len(data) THEN <<>>
              ELSE IF ~Fits(t, rest) THEN <<>>
              ELSE <<Record(Uint16(data[p], data[p + 1]), t, SubSeq(rest, 1, n))>> \o from[p + 3 + n]
    IN  from[1]

\* A value that is cut short is left out of its record and what there is of it
\* is read as the next record; an unknown type ends the list.
parseAttributeResponses(data) ==
    LET from[p \in 1 .. Len(data) + 1] ==
          LET status == data[p + 2]
              t      == data[p + 3]
              rest   == From(data, p + 4)
              n      == IF Fits(t, rest) THEN valueLen(t, rest) ELSE 0
              rec(st, type, val) == <<[attr |-> Uint16(data[p], data[p + 1]), status |-> st,
                                       type |-> type, value |-> val]>>
          IN  IF p + 2 > Len(data) THEN <<>>
              ELSE IF status # 0 THEN rec(status, 0, <<>>) \o from[p + 3]
              ELSE IF p + 3 > Len(data) THEN <<>>
              ELSE IF typeSize(t) = -2 THEN rec(0, t, <<>>)
              ELSE rec(0, t, SubSeq(rest, 1, n)) \o from[p + 4 + n]
    IN  from[1]

\* fmt.Sprintf("%X") of a value of a type that zcl.DecodeValue does not know.
decodeReported(t, value) ==
    IF value = <<>> THEN Nil
    ELSE IF DecodeValue(t, value) = Err THEN GoBytes("hex", value)
    ELSE DecodeValue(t, value).val

\* The characters of that text.
hexText(s) ==
    LET half(i) == s[(i + 1) \div 2] \div (IF i % 2 = 1 THEN 16 ELSE 1) % 16
    IN  [i \in 1 .. 2 * Len(s) |-> half(i) + (IF half(i) < 10 THEN 48 ELSE 55)]

\* Coordinator.ReadAttributes gives an error instead.
readResult(t, value) ==
    IF value = <<>> \/ DecodeValue(t, value) = Err THEN Nil ELSE DecodeValue(t, value).val

-----------------------------------------------------------------------------
(* Frames to devices.                                                      *)

zclBuildWriteAttributes(seq, recs) ==
    LET buf[i \in 0 .. Len(recs)] ==
          IF i = 0 THEN <<\h10, seq, 2>>
          ELSE buf[i - 1] \o (LE16(recs[i].attr) \o <<recs[i].type>> \o recs[i].value)
    IN  buf[Len(recs)]

\* param_len, data_len, dst_addr (8), profile, cluster, endpoints, radius,
\* addr mode, tx options, alias (4), data.
buildAPSDEDataReq(dst, dstEP, srcEP, cluster, profile, radius, data) ==
    <<21>> \o LE16(Len(data)) \o LE16(dst) \o <<0, 0, 0, 0, 0, 0>> \o LE16(profile) \o LE16(cluster)
    \o <<dstEP, srcEP, radius, 2, 4, 0, 0, 0, 0>> \o data

-----------------------------------------------------------------------------
(* handleAPSDEDataInd: where a ZCL frame goes, and with what.              *)

\* An event, for readLoop to hand on.
Event == [to : {"ota", "command", "response", "report"}, src : Word, ep : Byte, cluster : Word, seq : Byte,
          data : Seq(Byte) \cup Seq([attr : Word, type : Byte, value : Seq(Byte)])
                 \cup Seq([attr : Word, status : Byte, type : Byte, value : Seq(Byte)])]

ASSUME EventAssumption == None \notin Event

zclHdrLen(frameCtrl) == IF (frameCtrl \div 4) % 2 = 1 THEN 5 ELSE 3

handleAPSDEDataInd(payload) ==
    LET dataLen == Uint16(payload[2], payload[3])
        zcl     == SubSeq(payload, 25, 24 + dataLen)
        hdrLen  == zclHdrLen(zcl[1])
        cluster == Uint16(payload[13], payload[14])
        cmd     == zcl[hdrLen]
        seq     == zcl[hdrLen - 1]
        body    == From(zcl, hdrLen + 1)
        evt(to, data) == [to |-> to, src |-> Uint16(payload[5], payload[6]), ep |-> payload[12],
                          cluster |-> cluster, seq |-> seq, data |-> data]
    IN  IF Len(payload) < 25 THEN None
        ELSE IF dataLen = 0 \/ Len(payload) < 24 + dataLen \/ Len(zcl) < 3 THEN None
        ELSE IF Len(zcl) < hdrLen THEN None
        ELSE CASE zcl[1] % 4 = 1 /\ cluster = \h19 /\ cmd = 1 -> evt("ota", <<>>)
               [] zcl[1] % 4 = 1 /\ ~(cluster = \h19 /\ cmd = 1) -> evt("command", body)
               [] zcl[1] % 4 = 0 /\ cmd = 1 -> evt("response", parseAttributeResponses(body))
               [] zcl[1] % 4 = 0 /\ cmd = 10 -> evt("report", zclParseAttributeReports(body))
               [] OTHER -> None

-----------------------------------------------------------------------------
(* Manufacturer formats: a map from tag to value, or Err.                  *)

ASSUME PairsAssumption == Err \notin Seq(Byte \X Value)

\* The map a sequence of <<tag, value>> leaves: later entries win.
MapOf(pairs) ==
    [k \in {p[1] : p \in Range(pairs)} |->
        pairs[CHOOSE i \in DOMAIN pairs : /\ pairs[i][1] = k
                                          /\ \A j \in i + 1 .. Len(pairs) : pairs[j][1] # k][2]]

\* One data point, big-endian; none when it is too short for its type.
tuyaValue(type, d) ==
    LET big == Number(Reverse(d))
    IN  CASE type = 1 -> IF Len(d) >= 1 THEN Go("bool", IF d[1] # 0 THEN 1 ELSE 0) ELSE None
          [] type = 2 -> IF Len(d) >= 4 THEN Go("int64", Number(Reverse(SubSeq(d, 1, 4)))) ELSE None
          [] type = 3 -> GoBytes("string", d)
          [] type = 4 -> IF Len(d) >= 1 THEN Go("int64", d[1]) ELSE None
          [] type = 5 -> Go("int64", big % Pow(4))
          [] OTHER -> GoBytes("[]byte", d)

decodeTuyaDPs(data) ==
    LET from[p \in 1 .. Len(data) + 3] ==
          LET len == 256 * data[p + 2] + data[p + 3]
              val == tuyaValue(data[p + 1], SubSeq(data, p + 4, p + 3 + len))
              tail == from[p + 4 + len]
          IN  IF p + 3 > Len(data) THEN <<>>
              ELSE IF p + 3 + len > Len(data) THEN Err
              ELSE IF tail = Err THEN Err
              ELSE IF val = None THEN tail ELSE <<<<data[p], val>>>> \o tail
    IN  IF Len(data) < 2 THEN MapOf(<<>>) ELSE IF from[3] = Err THEN Err ELSE MapOf(from[3])

decodeXiaomiTLV(data) ==
    LET from[p \in 1 .. Len(data) + 2] ==
          LET val  == DecodeValue(data[p + 1], From(data, p + 2))
              tail == from[p + 2 + val.used]
          IN  IF p + 1 > Len(data) THEN <<>>
              ELSE IF val = Err THEN Err
              ELSE IF tail = Err THEN Err
              ELSE <<<<data[p], val.val>>>> \o tail
    IN  IF from[1] = Err THEN Err ELSE MapOf(from[1])
=============================================================================
