---------------------------- MODULE CodecProofs -----------------------------
(***************************************************************************)
(* Theorems about the codecs of Wire and Zcl, for streams, payloads and    *)
(* numbers of any length, and from them the ones about Uplink: what a      *)
(* device says over an undamaged line is understood, and what is written   *)
(* to it comes back.                                                       *)
(*                                                                         *)
(* The codecs are recursive functions.  Induction is done on sets of       *)
(* naturals (Upward, Downward, RankedExists), and each recursive function  *)
(* is shown to exist before its equation is used.                          *)
(***************************************************************************)
EXTENDS Uplink, SequenceTheorems, WellFoundedInduction, TLAPS

-----------------------------------------------------------------------------
(* Induction.                                                              *)

\* A set of naturals that is not empty has a least element.
LEMMA LeastNat ==
    ASSUME NEW T \in SUBSET Nat, T # {}
    PROVE  \E x \in T : \A y \in T : x <= y
  <1> DEFINE R == {ss \in Nat \X Nat : ss[1] < ss[2]}
  <1>1. IsWellFoundedOn(R, Nat)
    BY NatLessThanWellFounded DEF OpToRel
  <1>2. \A x, y \in Nat : y < x => <<y, x>> \in R
    OBVIOUS
  <1> HIDE DEF R
  <1>3. PICK x \in T : \A y \in T : ~(<<y, x>> \in R)
    BY <1>1, WFMin, Zenon
  <1>4. \A y \in T : ~(y < x)
    BY <1>2, <1>3
  <1> QED BY <1>4

\* Induction on the naturals, up to n from 0 (Upward) and down from N (Downward).
LEMMA Induction ==
    ASSUME NEW S, 0 \in S, \A n \in Nat : n \in S => n + 1 \in S
    PROVE  Nat \subseteq S
  <1> SUFFICES ASSUME ~(Nat \subseteq S) PROVE FALSE
    OBVIOUS
  <1> DEFINE T == Nat \ S
  <1>1. T \in SUBSET Nat /\ T # {}
    OBVIOUS
  <1>2. PICK x \in T : \A y \in T : x <= y
    BY <1>1, LeastNat
  <1>3. x # 0 /\ x - 1 \in Nat /\ x - 1 \notin T
    BY <1>1, <1>2
  <1> QED BY <1>3

LEMMA Downward ==
    ASSUME NEW N \in Nat, NEW S, N \in S, \A k \in 1 .. N : k \in S => k - 1 \in S
    PROVE  0 .. N \subseteq S
  <1> DEFINE T == {n \in Nat : n <= N => N - n \in S}
  <1>1. 0 \in T
    OBVIOUS
  <1>2. ASSUME NEW n \in Nat, n \in T PROVE n + 1 \in T
    <2>1. CASE n + 1 <= N
      <3>1. N - n \in 1 .. N /\ N - n \in S /\ (N - n) - 1 = N - (n + 1)
        BY <1>2, <2>1
      <3> QED BY <3>1
    <2>2. CASE ~(n + 1 <= N)
      BY <2>2
    <2> QED BY <2>1, <2>2
  <1> HIDE DEF T
  <1>3. Nat \subseteq T
    BY <1>1, <1>2, Induction
  <1>4. ASSUME NEW k \in 0 .. N PROVE k \in S
    <2>1. N - k \in Nat /\ N - k <= N /\ N - (N - k) = k
      OBVIOUS
    <2> QED BY <1>3, <2>1 DEF T
  <1> QED BY <1>4

LEMMA Upward ==
    ASSUME NEW n \in Nat, NEW S, 0 \in S, \A i \in 1 .. n : i - 1 \in S => i \in S
    PROVE  0 .. n \subseteq S
  <1> DEFINE T == {i \in Nat : i <= n => i \in S}
  <1>1. 0 \in T
    OBVIOUS
  <1>2. ASSUME NEW i \in Nat, i \in T PROVE i + 1 \in T
    <2>1. CASE i + 1 <= n
      <3>1. i \in S /\ i + 1 \in 1 .. n /\ (i + 1) - 1 = i
        BY <1>2, <2>1
      <3> QED BY <3>1
    <2>2. CASE ~(i + 1 <= n)
      BY <2>2
    <2> QED BY <2>1, <2>2
  <1> HIDE DEF T
  <1>3. Nat \subseteq T
    BY <1>1, <1>2, Induction
  <1>4. ASSUME NEW i \in 0 .. n PROVE i \in S
    BY <1>3 DEF T
  <1> QED BY <1>4

\* f starts with c, G[i] being the step to i; there is such a function.
Recursive(D, n, c, G, f) ==
    f \in [0 .. n -> D] /\ f[0] = c /\ \A i \in 1 .. n : f[i] = G[i][f[i - 1]]

LEMMA RecursionExists ==
    ASSUME NEW D, NEW n \in Nat, NEW c \in D, NEW G \in [1 .. n -> [D -> D]]
    PROVE  \E f : Recursive(D, n, c, G, f)
  <1> DEFINE S == {k \in 0 .. n : \E f \in [0 .. n -> D] :
                      f[0] = c /\ \A i \in 1 .. k : f[i] = G[i][f[i - 1]]}
  <1>1. 0 \in S
    <2> DEFINE h == [i \in 0 .. n |-> c]
    <2>1. h \in [0 .. n -> D] /\ h[0] = c
      OBVIOUS
    <2> HIDE DEF h
    <2>2. \A i \in 1 .. 0 : h[i] = G[i][h[i - 1]]
      OBVIOUS
    <2> QED BY <2>1, <2>2
  <1>2. ASSUME NEW k \in 1 .. n, k - 1 \in S PROVE k \in S
    <2>1. PICK f \in [0 .. n -> D] : f[0] = c /\ \A i \in 1 .. k - 1 : f[i] = G[i][f[i - 1]]
      BY <1>2
    <2> DEFINE g == [f EXCEPT ![k] = G[k][f[k - 1]]]
    <2>2. f[k - 1] \in D
      OBVIOUS
    <2>3. G[k] \in [D -> D]
      OBVIOUS
    <2>4. G[k][f[k - 1]] \in D
      BY <2>2, <2>3
    <2>5. g \in [0 .. n -> D] /\ g[k] = G[k][f[k - 1]] /\ \A i \in 0 .. k - 1 : g[i] = f[i]
      BY <2>4
    <2> HIDE DEF g
    <2>6. ASSUME NEW i \in 1 .. k PROVE g[i] = G[i][g[i - 1]]
      <3>1. CASE i = k
        BY <2>5, <3>1
      <3>2. CASE i # k
        <4>1. i \in 1 .. k - 1 /\ i \in 0 .. k - 1 /\ i - 1 \in 0 .. k - 1
          BY <3>2
        <4> QED BY <2>1, <2>5, <4>1
      <3> QED BY <3>1, <3>2
    <2>7. g[0] = c
      BY <2>1, <2>5
    <2> QED BY <2>5, <2>6, <2>7
  <1> HIDE DEF S
  <1>3. 0 .. n \subseteq S
    BY <1>1, <1>2, Upward
  <1>4. n \in S
    BY <1>3
  <1> QED BY <1>4 DEF S, Recursive

-----------------------------------------------------------------------------
(* Bytes and words.                                                        *)

\* Membership in intervals; Byte and Word stay opaque elsewhere.
LEMMA IntervalFacts ==
    ASSUME NEW m \in Int, NEW n \in Int
    PROVE  \A x : x \in m .. n <=> x \in Int /\ m <= x /\ x <= n
  OBVIOUS

LEMMA ByteFacts == \A b : b \in Byte <=> b \in Int /\ 0 <= b /\ b <= 255
  <1>1. 0 \in Int /\ 255 \in Int
    OBVIOUS
  <1>2. \A x : x \in 0 .. 255 <=> x \in Int /\ 0 <= x /\ x <= 255
    BY <1>1, IntervalFacts, Zenon
  <1> QED BY <1>2, Zenon DEF Byte

LEMMA WordFacts == \A b : b \in Word <=> b \in Int /\ 0 <= b /\ b <= 65535
  <1>1. MaxUint16 \in Int
    BY DEF MaxUint16
  <1>2. \A b : b \in Word <=> b \in Int /\ 0 <= b /\ b <= MaxUint16
    BY <1>1 DEF Word
  <1> QED BY <1>2 DEF MaxUint16

\* Little-endian: LE16 and Uint16 are inverse to each other.
LEMMA WordBytes ==
    ASSUME NEW n \in Word
    PROVE  /\ n % 256 \in Byte /\ (n \div 256) % 256 \in Byte
           /\ Uint16(n % 256, (n \div 256) % 256) = n
  <1>1. n \in Int /\ 0 <= n /\ n <= 65535
    BY WordFacts
  <1>2. n % 256 \in Int /\ 0 <= n % 256 /\ n % 256 <= 255
    BY <1>1
  <1>3. n \div 256 \in Int /\ 0 <= n \div 256 /\ n \div 256 <= 255
    BY <1>1
  <1>4. (n \div 256) % 256 = n \div 256 /\ n = 256 * (n \div 256) + (n % 256)
    BY <1>1, <1>3
  <1> QED BY <1>2, <1>3, <1>4, ByteFacts DEF Uint16

\* Two bytes make a 16-bit number.
LEMMA UintType ==
    ASSUME NEW lo \in Byte, NEW hi \in Byte
    PROVE  Uint16(lo, hi) \in Word
  BY ByteFacts, WordFacts DEF Uint16

-----------------------------------------------------------------------------
(* Sequences.                                                              *)

\* Sequences of one and two elements.
LEMMA Tuples ==
    ASSUME NEW S, NEW a \in S, NEW b \in S
    PROVE  /\ <<a>> \in Seq(S) /\ Len(<<a>>) = 1 /\ <<a>>[1] = a
           /\ <<a, b>> \in Seq(S) /\ Len(<<a, b>>) = 2 /\ <<a, b>>[1] = a /\ <<a, b>>[2] = b
  OBVIOUS

\* Concatenation is associative.
LEMMA Assoc == \A s, t, u \in Seq(Byte) : (s \o t) \o u = s \o (t \o u)
  BY ConcatAssociative

\* Concatenation: the elements of both parts, and the parts themselves.
LEMMA Parts ==
    ASSUME NEW S, NEW s \in Seq(S), NEW t \in Seq(S)
    PROVE  /\ s \o t \in Seq(S) /\ Len(s \o t) = Len(s) + Len(t)
           /\ \A i \in 1 .. Len(s) : (s \o t)[i] = s[i]
           /\ \A i \in 1 .. Len(t) : (s \o t)[Len(s) + i] = t[i]
  <1>1. Len(s) \in Nat /\ Len(t) \in Nat
    BY LenProperties
  <1>2. /\ s \o t \in Seq(S) /\ Len(s \o t) = Len(s) + Len(t)
        /\ \A i \in 1 .. Len(s) + Len(t) : (s \o t)[i] = IF i <= Len(s) THEN s[i] ELSE t[i - Len(s)]
    BY ConcatProperties
  <1>3. ASSUME NEW i \in 1 .. Len(s) PROVE (s \o t)[i] = s[i]
    <2>1. i \in 1 .. Len(s) + Len(t) /\ i <= Len(s)
      BY <1>1
    <2> QED BY <1>2, <2>1
  <1>4. ASSUME NEW i \in 1 .. Len(t) PROVE (s \o t)[Len(s) + i] = t[i]
    <2>1. Len(s) + i \in 1 .. Len(s) + Len(t) /\ ~(Len(s) + i <= Len(s)) /\ (Len(s) + i) - Len(s) = i
      BY <1>1
    <2> QED BY <1>2, <2>1
  <1> QED BY <1>2, <1>3, <1>4

\* SubSeq cuts out what was concatenated: in the middle, at the end, at the start.
LEMMA Middle ==
    ASSUME NEW S, NEW s \in Seq(S), NEW t \in Seq(S), NEW u \in Seq(S)
    PROVE  SubSeq(s \o (t \o u), Len(s) + 1, Len(s) + Len(t)) = t
  <1> DEFINE w == s \o (t \o u)
             x == SubSeq(w, Len(s) + 1, Len(s) + Len(t))
  <1>1. Len(s) \in Nat /\ Len(t) \in Nat /\ Len(u) \in Nat
    BY LenProperties
  <1>2. t \o u \in Seq(S) /\ Len(t \o u) = Len(t) + Len(u) /\ \A i \in 1 .. Len(t) : (t \o u)[i] = t[i]
    BY Parts
  <1>3. /\ w \in Seq(S) /\ Len(w) = Len(s) + (Len(t) + Len(u))
        /\ \A i \in 1 .. Len(t) + Len(u) : w[Len(s) + i] = (t \o u)[i]
    BY <1>2, Parts
  <1> HIDE DEF w
  <1>4. ASSUME NEW i \in 1 .. Len(t) PROVE w[Len(s) + i] = t[i]
    <2>1. i \in 1 .. Len(t) + Len(u)
      BY <1>1
    <2> QED BY <1>2, <1>3, <2>1
  <1>5. ASSUME NEW i \in Len(s) + 1 .. Len(s) + Len(t) PROVE w[i] \in S
    <2>1. i \in 1 .. Len(w)
      BY <1>1, <1>3
    <2> QED BY <1>3, <2>1, ElementOfSeq
  <1>6. Len(s) + 1 \in Int /\ Len(s) + Len(t) \in Int
    BY <1>1
  <1>7. /\ x \in Seq(S)
        /\ Len(x) = IF Len(s) + 1 <= Len(s) + Len(t) THEN (Len(s) + Len(t)) - (Len(s) + 1) + 1 ELSE 0
        /\ \A i \in 1 .. (Len(s) + Len(t)) - (Len(s) + 1) + 1 : x[i] = w[Len(s) + 1 + i - 1]
    BY <1>5, <1>6, SubSeqProperties
  <1> HIDE DEF x
  <1>8. Len(x) = Len(t)
    BY <1>1, <1>7
  <1>9. ASSUME NEW i \in 1 .. Len(x) PROVE x[i] = t[i]
    <2>1. i \in 1 .. Len(t) /\ i \in 1 .. (Len(s) + Len(t)) - (Len(s) + 1) + 1 /\ Len(s) + 1 + i - 1 = Len(s) + i
      BY <1>1, <1>8
    <2> QED BY <1>4, <1>7, <2>1
  <1>10. x = t
    BY <1>7, <1>8, <1>9, SeqEqual
  <1> QED BY <1>10 DEF x, w

LEMMA Suffix ==
    ASSUME NEW S, NEW s \in Seq(S), NEW t \in Seq(S)
    PROVE  SubSeq(s \o t, Len(s) + 1, Len(s) + Len(t)) = t
  <1>1. <<>> \in Seq(S) /\ t \o <<>> = t
    BY EmptySeq, ConcatEmptySeq
  <1> QED BY <1>1, Middle

LEMMA Prefix ==
    ASSUME NEW S, NEW s \in Seq(S), NEW t \in Seq(S)
    PROVE  SubSeq(s \o t, 1, Len(s)) = s
  <1>1. <<>> \in Seq(S) /\ Len(<<>>) = 0 /\ s \o t \in Seq(S)
    BY EmptySeq, Parts
  <1>2. <<>> \o (s \o t) = s \o t
    BY <1>1, ConcatEmptySeq
  <1>3. SubSeq(<<>> \o (s \o t), Len(<<>>) + 1, Len(<<>>) + Len(s)) = s
    BY <1>1, Middle
  <1>4. Len(s) \in Nat
    BY LenProperties
  <1> QED BY <1>1, <1>2, <1>3, <1>4

-----------------------------------------------------------------------------
(* readRawZBOSSFrame.                                                      *)

\* One step of the scan at i, and the scan.
RawStep(w, f, i) ==
    IF i + 3 > Len(w) THEN None
    ELSE IF w[i] # zbossSig0 THEN f[i + 1]
    ELSE IF w[i + 1] # zbossSig1 THEN f[i + afterSig0(w[i + 1])]
    ELSE LET llSize == Uint16(w[i + 2], w[i + 3])
             end    == i + 1 + llSize
         IN  IF ~goodSize(llSize) THEN f[i + 4]
             ELSE IF end > Len(w) THEN None
             ELSE [frame |-> SubSeq(w, i, end), rest |-> From(w, end + 1)]

RawScan(w) == CHOOSE f : f = [i \in 1 .. Len(w) + 4 |-> RawStep(w, f, i)]

\* readRawZBOSSFrame is the scan from the first byte.
LEMMA RawReads == ASSUME NEW w PROVE readRawZBOSSFrame(w) = RawScan(w)[1]
  BY DEF readRawZBOSSFrame, RawScan, RawStep

\* A step depends on later positions only.
LEMMA RawStepLooksAhead ==
    ASSUME NEW w \in Seq(Byte), NEW i \in 1 .. Len(w) + 4, NEW f, NEW g,
           \A j \in i + 1 .. Len(w) + 4 : f[j] = g[j]
    PROVE  RawStep(w, f, i) = RawStep(w, g, i)
  <1>1. i + 3 <= Len(w) => /\ f[i + 1] = g[i + 1] /\ f[i + 2] = g[i + 2] /\ f[i + 4] = g[i + 4]
    OBVIOUS
  <1>2. afterSig0(w[i + 1]) \in {1, 2}
    BY DEF afterSig0
  <1>3. i + 3 <= Len(w) => f[i + afterSig0(w[i + 1])] = g[i + afterSig0(w[i + 1])]
    BY <1>1, <1>2
  <1>4. i + 3 > Len(w) <=> ~(i + 3 <= Len(w))
    OBVIOUS
  <1> QED BY <1>1, <1>3, <1>4, Zenon DEF RawStep

\* So there is a function that takes these steps,
LEMMA RawScanExists ==
    ASSUME NEW w \in Seq(Byte)
    PROVE  \E f : f = [i \in 1 .. Len(w) + 4 |-> RawStep(w, f, i)]
  <1> DEFINE N == Len(w) + 4
             S == {k \in 0 .. N : \E f : \A i \in k + 1 .. N : f[i] = RawStep(w, f, i)}
  <1>1. N \in Nat
    OBVIOUS
  <1>2. N \in S
    OBVIOUS
  <1>3. ASSUME NEW k \in 1 .. N, k \in S PROVE k - 1 \in S
    <2>1. PICK f : \A i \in k + 1 .. N : f[i] = RawStep(w, f, i)
      BY <1>3
    <2> DEFINE g == [i \in 1 .. N |-> IF i = k THEN RawStep(w, f, k) ELSE f[i]]
    <2>2. \A j \in k + 1 .. N : f[j] = g[j]
      OBVIOUS
    <2>3. g[k] = RawStep(w, f, k)
      OBVIOUS
    <2> HIDE DEF g
    <2>4. ASSUME NEW i \in k .. N PROVE RawStep(w, f, i) = RawStep(w, g, i)
      <3>1. i \in 1 .. Len(w) + 4 /\ \A j \in i + 1 .. Len(w) + 4 : f[j] = g[j]
        BY <2>2
      <3> QED BY <3>1, RawStepLooksAhead
    <2>5. \A i \in k .. N : g[i] = RawStep(w, g, i)
      BY <2>1, <2>2, <2>3, <2>4
    <2> QED BY <2>5
  <1> HIDE DEF S
  <1>4. 0 \in S
    BY <1>1, <1>2, <1>3, Downward
  <1>5. PICK f : \A i \in 1 .. N : f[i] = RawStep(w, f, i)
    BY <1>4 DEF S
  <1> DEFINE g == [i \in 1 .. N |-> f[i]]
  <1>6. \A i \in 1 .. N : g[i] = f[i]
    OBVIOUS
  <1>7. ASSUME NEW i \in 1 .. N PROVE RawStep(w, f, i) = RawStep(w, g, i)
    <2>1. \A j \in i + 1 .. Len(w) + 4 : f[j] = g[j]
      BY <1>6
    <2> QED BY <2>1, RawStepLooksAhead
  <1>8. g = [i \in 1 .. N |-> RawStep(w, g, i)]
    BY <1>5, <1>7
  <1> QED BY <1>8

\* and the scan is one.
LEMMA RawScanSteps ==
    ASSUME NEW w \in Seq(Byte), NEW i \in 1 .. Len(w) + 4
    PROVE  RawScan(w)[i] = RawStep(w, RawScan(w), i)
  <1>1. RawScan(w) = [k \in 1 .. Len(w) + 4 |-> RawStep(w, RawScan(w), k)]
    BY RawScanExists, Zenon DEF RawScan
  <1> QED BY <1>1

\* A frame as the reader knows one: the signature, a size it admits and as many
\* bytes; and what it makes of it.
LLSizeAt(w, k) == Uint16(w[k + 2], w[k + 3])
FrameAt(w, k) ==
    /\ k \in 1 .. Len(w) - 3
    /\ w[k] = zbossSig0 /\ w[k + 1] = zbossSig1
    /\ goodSize(LLSizeAt(w, k)) /\ k + 1 + LLSizeAt(w, k) <= Len(w)
TakenAt(w, k) == [frame |-> SubSeq(w, k, k + 1 + LLSizeAt(w, k)),
                  rest |-> From(w, k + 2 + LLSizeAt(w, k))]

\* The length field is a natural number.
LEMMA SizeType ==
    ASSUME NEW w \in Seq(Byte), NEW k \in 1 .. Len(w) - 3
    PROVE  LLSizeAt(w, k) \in Nat
  <1>1. k + 2 \in 1 .. Len(w) /\ k + 3 \in 1 .. Len(w)
    OBVIOUS
  <1>2. w[k + 2] \in Byte /\ w[k + 3] \in Byte
    BY <1>1, ElementOfSeq
  <1> QED BY <1>2, ByteFacts DEF LLSizeAt, Uint16

\* At a frame the scan takes it.
LEMMA RawStepTakes ==
    ASSUME NEW w \in Seq(Byte), NEW k, FrameAt(w, k), NEW f
    PROVE  RawStep(w, f, k) = TakenAt(w, k)
  <1>1. k \in Int /\ Len(w) \in Int /\ ~(k + 3 > Len(w)) /\ LLSizeAt(w, k) \in Nat
    BY SizeType DEF FrameAt
  <1>2. ~(k + 1 + LLSizeAt(w, k) > Len(w))
    BY <1>1 DEF FrameAt
  <1>3. k + 1 + LLSizeAt(w, k) + 1 = k + 2 + LLSizeAt(w, k)
    BY <1>1
  <1> QED BY <1>1, <1>2, <1>3 DEF RawStep, FrameAt, TakenAt, LLSizeAt

\* What the scan finds from i on is a frame at i or later.
LEMMA RawScanSound ==
    ASSUME NEW w \in Seq(Byte), NEW i \in 1 .. Len(w) + 4, RawScan(w)[i] # None
    PROVE  \E k \in i .. Len(w) : FrameAt(w, k) /\ RawScan(w)[i] = TakenAt(w, k)
  <1> DEFINE N == Len(w) + 4
             F == RawScan(w)
             P(j) == F[j] # None => \E k \in j .. Len(w) : FrameAt(w, k) /\ F[j] = TakenAt(w, k)
             S == {n \in 0 .. N : \A j \in n + 1 .. N : P(j)}
  <1>1. N \in Nat /\ N \in S
    OBVIOUS
  <1>2. ASSUME NEW n \in 1 .. N, n \in S PROVE n - 1 \in S
    <2>1. \A j \in n + 1 .. N : P(j)
      BY <1>2
    <2>2. F[n] = RawStep(w, F, n)
      BY RawScanSteps
    <2> HIDE DEF F, P
    <2>3. P(n)
      <3>1. CASE n + 3 > Len(w)
        BY <2>2, <3>1 DEF RawStep, P
      <3>2. CASE n + 3 <= Len(w) /\ FrameAt(w, n)
        BY <2>2, <3>2, RawStepTakes DEF P
      <3>3. CASE n + 3 <= Len(w) /\ ~FrameAt(w, n)
        <4>1. LLSizeAt(w, n) \in Nat /\ n \in 1 .. Len(w) - 3
          BY <3>3, SizeType
        <4>2. afterSig0(w[n + 1]) \in {1, 2}
          BY DEF afterSig0
        <4>3. F[n] = None \/ \E j \in n + 1 .. n + 4 : F[n] = F[j]
          <5>1. CASE w[n] # zbossSig0
            BY <2>2, <3>3, <4>1, <5>1 DEF RawStep
          <5>2. CASE w[n] = zbossSig0 /\ w[n + 1] # zbossSig1
            BY <2>2, <3>3, <4>1, <4>2, <5>2 DEF RawStep
          <5>3. CASE w[n] = zbossSig0 /\ w[n + 1] = zbossSig1 /\ ~goodSize(LLSizeAt(w, n))
            BY <2>2, <3>3, <4>1, <5>3 DEF RawStep, LLSizeAt
          <5>4. CASE w[n] = zbossSig0 /\ w[n + 1] = zbossSig1 /\ goodSize(LLSizeAt(w, n))
            <6>1. n + 1 + LLSizeAt(w, n) > Len(w)
              BY <3>3, <4>1, <5>4 DEF FrameAt
            <6> QED BY <2>2, <3>3, <4>1, <5>4, <6>1 DEF RawStep, LLSizeAt
          <5> QED BY <5>1, <5>2, <5>3, <5>4
        <4>4. ASSUME NEW j \in n + 1 .. n + 4, F[n] = F[j] PROVE P(n)
          <5>1. j \in n + 1 .. N /\ j .. Len(w) \subseteq n .. Len(w)
            BY <3>3, <4>1
          <5> QED BY <2>1, <4>4, <5>1 DEF P
        <4> QED BY <4>3, <4>4 DEF P
      <3> QED BY <3>1, <3>2, <3>3
    <2>4. n - 1 \in 0 .. N /\ \A j \in (n - 1) + 1 .. N : j = n \/ j \in n + 1 .. N
      OBVIOUS
    <2> QED BY <2>1, <2>3, <2>4
  <1> HIDE DEF S
  <1>3. 0 \in S
    BY <1>1, <1>2, Downward
  <1>4. P(i)
    BY <1>3 DEF S
  <1> QED BY <1>4

\* Whatever bytes come over the line, what readRawZBOSSFrame hands on is a
\* contiguous part of them that begins with the signature and is as long as
\* its length field says, within the limits; what it leaves for the next call
\* is what follows, so every call consumes at least a header.
THEOREM ReaderTakesFrames ==
    ASSUME NEW w \in Seq(Byte), readRawZBOSSFrame(w) # None
    PROVE  LET r == readRawZBOSSFrame(w)
           IN  /\ \E junk \in Seq(Byte) : w = junk \o r.frame \o r.rest
               /\ r.frame \in Seq(Byte) /\ r.rest \in Seq(Byte)
               /\ Len(r.frame) >= 7
               /\ r.frame[1] = zbossSig0 /\ r.frame[2] = zbossSig1
               /\ Len(r.frame) = 2 + Uint16(r.frame[3], r.frame[4])
               /\ Len(r.frame) <= maxHDLCFrameSize + 4
  <1> DEFINE r == readRawZBOSSFrame(w)
  <1>1. PICK k \in 1 .. Len(w) : FrameAt(w, k) /\ r = TakenAt(w, k)
    BY RawReads, RawScanSound
  <1> DEFINE size == LLSizeAt(w, k)
             end == k + 1 + size
  <1>2. k \in 1 .. Len(w) - 3 /\ w[k] = zbossSig0 /\ w[k + 1] = zbossSig1 /\ goodSize(size) /\ end <= Len(w)
    BY <1>1 DEF FrameAt
  <1>3. size \in Nat
    BY <1>2, SizeType
  <1>4. size >= 5 /\ size - 2 <= maxHDLCFrameSize
    BY <1>2, <1>3 DEF goodSize
  <1>5. r.frame = SubSeq(w, k, end) /\ r.rest = SubSeq(w, end + 1, Len(w))
    <2>1. k + 2 + size = end + 1 /\ k + 1 + size = end
      BY <1>2, <1>3
    <2>2. r = [frame |-> SubSeq(w, k, k + 1 + size), rest |-> SubSeq(w, k + 2 + size, Len(w))]
      BY <1>1, Zenon DEF TakenAt, From, size
    <2>3. r = [frame |-> SubSeq(w, k, end), rest |-> SubSeq(w, end + 1, Len(w))]
      BY <2>1, <2>2, Zenon
    <2> HIDE DEF r, end, size
    <2> QED BY <2>3
  <1> HIDE DEF r, size
  <1>6. /\ r.frame \in Seq(Byte) /\ Len(r.frame) = 2 + size
        /\ \A i \in 1 .. 2 + size : r.frame[i] = w[k + i - 1]
    <2>1. k \in 1 .. Len(w) + 1 /\ end \in k - 1 .. Len(w) /\ Len(w) \in Nat
      BY <1>2, <1>3
    <2>2. /\ SubSeq(w, k, end) \in Seq(Byte) /\ Len(SubSeq(w, k, end)) = end - k + 1
          /\ \A i \in 1 .. end - k + 1 : SubSeq(w, k, end)[i] = w[k + i - 1]
      BY <2>1, SubSeqProperties
    <2>3. end - k + 1 = 2 + size
      BY <1>3, <2>1
    <2> QED BY <1>5, <2>2, <2>3
  <1>7. r.frame[1] = w[k] /\ r.frame[2] = w[k + 1] /\ r.frame[3] = w[k + 2] /\ r.frame[4] = w[k + 3]
    <2>1. /\ 1 \in 1 .. 2 + size /\ 2 \in 1 .. 2 + size /\ 3 \in 1 .. 2 + size /\ 4 \in 1 .. 2 + size
          /\ k + 1 - 1 = k /\ k + 2 - 1 = k + 1 /\ k + 3 - 1 = k + 2 /\ k + 4 - 1 = k + 3
      BY <1>3, <1>4
    <2> QED BY <1>6, <2>1
  <1>8. size = Uint16(r.frame[3], r.frame[4])
    BY <1>7 DEF size, LLSizeAt
  <1>9. r.rest \in Seq(Byte)
    BY <1>2, <1>3, <1>5, SubSeqProperties
  <1>10. \E junk \in Seq(Byte) : w = junk \o r.frame \o r.rest
    <2> DEFINE junk == SubSeq(w, 1, k - 1)
    <2>1. junk \in Seq(Byte)
      BY <1>2, SubSeqProperties
    <2>2. junk \o r.frame = SubSeq(w, 1, end)
      <3>1. 1 \in 1 .. Len(w) + 1 /\ k - 1 \in 1 - 1 .. Len(w) /\ end \in k - 1 .. Len(w)
        BY <1>2, <1>3, <1>4
      <3>2. junk \o SubSeq(w, (k - 1) + 1, end) = SubSeq(w, 1, end)
        BY <3>1, ConcatAdjacentSubSeq
      <3>3. (k - 1) + 1 = k
        OBVIOUS
      <3> QED BY <1>5, <3>2, <3>3
    <2>3. SubSeq(w, 1, end) \o r.rest = SubSeq(w, 1, Len(w))
      <3>1. 1 \in 1 .. Len(w) + 1 /\ end \in 1 - 1 .. Len(w) /\ Len(w) \in end .. Len(w)
        BY <1>2, <1>3, <1>4
      <3>2. SubSeq(w, 1, end) \o SubSeq(w, end + 1, Len(w)) = SubSeq(w, 1, Len(w))
        BY <3>1, ConcatAdjacentSubSeq
      <3> QED BY <1>5, <3>2
    <2>4. SubSeq(w, 1, Len(w)) = w
      BY SubSeqFull
    <2> QED BY <2>1, <2>2, <2>3, <2>4
  <1>11. Len(r.frame) >= 7 /\ Len(r.frame) <= maxHDLCFrameSize + 4
    BY <1>3, <1>4, <1>6, SizeAssumption
  <1> QED BY <1>2, <1>6, <1>7, <1>8, <1>9, <1>10, <1>11 DEF r

\* The HL part of a frame, once the checks have passed.
LEMMA DecodeHLType ==
    ASSUME NEW flags \in Byte, NEW hl \in Seq(Byte)
    PROVE  decodeHL(flags, hl) \in {Err} \cup HLFrame
  <1> DEFINE type == hl[2]
             size == hlSize(type)
  <1>1. CASE Len(hl) < 4 \/ size = 0 \/ Len(hl) < size
    BY <1>1, Zenon DEF decodeHL
  <1>2. CASE ~(Len(hl) < 4) /\ size # 0 /\ ~(Len(hl) < size)
    <2>1. \/ type = 0 /\ size = 5
          \/ type = 1 /\ size = 7
          \/ type = 2 /\ size = 4
      BY <1>2 DEF hlSize
    <2> HIDE DEF size
    <2>2. Len(hl) \in Nat /\ Len(hl) >= 4 /\ (type # 2 => Len(hl) >= 5) /\ (type = 1 => Len(hl) >= 7)
      BY <1>2, <2>1
    <2>3. hl[3] \in Byte /\ hl[4] \in Byte
      BY <2>2, ElementOfSeq
    <2>4. Uint16(hl[3], hl[4]) \in Word
      BY <2>3, UintType
    <2>5. (IF type = 2 THEN 0 ELSE hl[5]) \in Byte
      BY <2>2, ElementOfSeq, ByteFacts
    <2>6. (IF type = 1 THEN <<hl[6], hl[7]>> ELSE <<0, 0>>) \in Byte \X Byte
      <3>1. type = 1 => hl[6] \in Byte /\ hl[7] \in Byte
        BY <2>2, ElementOfSeq
      <3>2. 0 \in Byte
        BY ByteFacts
      <3> QED BY <3>1, <3>2
    <2>7. SubSeq(hl, size + 1, Len(hl)) \in Seq(Byte)
      BY <2>1, <2>2, SubSeqProperties
    <2>8. type \in 0 .. 2
      BY <2>1
    <2>9. decodeHL(flags, hl) =
            [flags |-> flags, packetType |-> type, callID |-> Uint16(hl[3], hl[4]),
             tsn |-> IF type = 2 THEN 0 ELSE hl[5],
             status |-> IF type = 1 THEN <<hl[6], hl[7]>> ELSE <<0, 0>>,
             payload |-> SubSeq(hl, size + 1, Len(hl))]
      BY <1>2, Zenon DEF decodeHL, size
    <2> HIDE DEF type
    <2> QED BY <2>4, <2>5, <2>6, <2>7, <2>8, <2>9 DEF HLFrame
  <1> QED BY <1>1, <1>2

\* zbossDecodeFrame slices without looking when the length field is below 5.
\* The reader gives it no such frame: whatever bytes come, the result is an
\* error, an ACK or a data frame all of whose parts are there.
THEOREM ReaderPreventsPanic ==
    ASSUME NEW w \in Seq(Byte), readRawZBOSSFrame(w) # None
    PROVE  LET result == zbossDecodeFrame(readRawZBOSSFrame(w).frame)
           IN  result \in {Err} \cup LLAck \cup HLFrame /\ result # Panic
  <1> DEFINE d == readRawZBOSSFrame(w).frame
             llSize == Uint16(d[3], d[4])
             body   == SubSeq(d, 8, 2 + llSize)
             hl     == SubSeq(body, 3, Len(body))
  <1>1. d \in Seq(Byte) /\ Len(d) >= 7 /\ Len(d) = 2 + llSize
    BY ReaderTakesFrames
  <1> HIDE DEF d
  <1>2. llSize \in Nat /\ d[6] \in Byte
    <2>1. d[3] \in Byte /\ d[4] \in Byte /\ d[6] \in Byte
      BY <1>1, ElementOfSeq
    <2> QED BY <2>1, UintType, WordFacts
  <1>3. ~(llSize < 5)
    BY <1>1, <1>2
  <1>4. body \in Seq(Byte)
    BY <1>1, <1>2, SubSeqProperties, ElementOfSeq
  <1> HIDE DEF body
  <1>5. hl \in Seq(Byte)
    BY <1>4, SubSeqProperties, ElementOfSeq
  <1>6. decodeHL(d[6], hl) \in {Err} \cup HLFrame
    BY <1>2, <1>5, DecodeHLType
  <1>7. [flags |-> d[6]] \in LLAck
    BY <1>2 DEF LLAck
  <1>8. zbossDecodeFrame(d) \in {Err, [flags |-> d[6]], decodeHL(d[6], hl)}
    BY <1>3, Zenon DEF zbossDecodeFrame, body
  <1>9. zbossDecodeFrame(d) \in {Err} \cup LLAck \cup HLFrame
    BY <1>6, <1>7, <1>8
  <1> QED BY <1>9, PanicAssumption DEF d

\* Noise before a frame costs nothing: if the signature does not occur before
\* position k and a frame begins there, readRawZBOSSFrame returns just that
\* frame.  A stray 0xDE, the one right before the signature included, does not
\* make it miss the frame.
THEOREM NoiseIsSkipped ==
    ASSUME NEW w \in Seq(Byte), NEW k, FrameAt(w, k),
           \A i \in 1 .. k - 1 : ~(w[i] = zbossSig0 /\ w[i + 1] = zbossSig1)
    PROVE  readRawZBOSSFrame(w) = TakenAt(w, k)
  <1> DEFINE F == RawScan(w)
             S == {n \in 0 .. k - 1 : \A j \in n + 1 .. k : F[j] = TakenAt(w, k)}
  <1>1. k \in 1 .. Len(w) - 3 /\ k - 1 \in Nat /\ w[k] = zbossSig0
    BY DEF FrameAt
  <1>2. \A j \in 1 .. k : F[j] = RawStep(w, F, j)
    BY <1>1, RawScanSteps
  <1> HIDE DEF F
  <1>3. k - 1 \in S
    <2>1. F[k] = TakenAt(w, k)
      BY <1>1, <1>2, RawStepTakes
    <2> QED BY <1>1, <2>1
  <1>4. ASSUME NEW n \in 1 .. k - 1, n \in S PROVE n - 1 \in S
    <2>1. \A j \in n + 1 .. k : F[j] = TakenAt(w, k)
      BY <1>4
    <2>2. n \in 1 .. k /\ n + 1 \in n + 1 .. k /\ ~(n + 3 > Len(w))
      BY <1>1
    <2>3. F[n] = RawStep(w, F, n)
      BY <1>2, <2>2
    <2>4. F[n] = TakenAt(w, k)
      <3>1. CASE w[n] # zbossSig0
        BY <2>1, <2>2, <2>3, <3>1 DEF RawStep
      <3>2. CASE w[n] = zbossSig0
        <4>1. w[n + 1] # zbossSig1
          BY <3>2
        <4>2. n + afterSig0(w[n + 1]) \in n + 1 .. k
          <5>1. CASE w[n + 1] = zbossSig0
            BY <2>2, <5>1 DEF afterSig0
          <5>2. CASE w[n + 1] # zbossSig0
            <6>1. n + 1 # k
              BY <1>1, <5>2
            <6> QED BY <1>1, <5>2, <6>1 DEF afterSig0
          <5> QED BY <5>1, <5>2
        <4> QED BY <2>1, <2>2, <2>3, <3>2, <4>1, <4>2 DEF RawStep
      <3> QED BY <3>1, <3>2
    <2>5. n - 1 \in 0 .. k - 1 /\ \A j \in (n - 1) + 1 .. k : j = n \/ j \in n + 1 .. k
      BY <1>1
    <2> QED BY <2>1, <2>4, <2>5
  <1> HIDE DEF S
  <1>5. 0 \in S
    BY <1>1, <1>3, <1>4, Downward
  <1>6. F[1] = TakenAt(w, k)
    BY <1>1, <1>5 DEF S
  <1> QED BY <1>6, RawReads DEF F

-----------------------------------------------------------------------------
(* Checksums.                                                              *)

\* xor of nibbles is a nibble, and 0 of zeroes.
LEMMA NibbleType ==
    ASSUME NEW x \in Int, NEW y \in Int
    PROVE  /\ XorNibble[<<x % 16, y % 16>>] \in Int
           /\ 0 <= XorNibble[<<x % 16, y % 16>>] /\ XorNibble[<<x % 16, y % 16>>] <= 15
           /\ x % 16 = 0 /\ y % 16 = 0 => XorNibble[<<x % 16, y % 16>>] = 0
  <1> DEFINE a == x % 16
             b == y % 16
             s(k) == ((a \div k) + (b \div k)) % 2
  <1>1. a \in Int /\ b \in Int /\ 0 <= a /\ a <= 15 /\ 0 <= b /\ b <= 15
    OBVIOUS
  <1> HIDE DEF a, b
  <1>2. <<a, b>> \in (0 .. 15) \X (0 .. 15)
    BY <1>1
  <1>3. XorNibble[<<a, b>>] = 1 * s(1) + 2 * s(2) + 4 * s(4) + 8 * s(8)
    BY <1>2, Zenon DEF XorNibble
  <1>4. ASSUME NEW k \in {1, 2, 4, 8} PROVE s(k) \in {0, 1} /\ (a = 0 /\ b = 0 => s(k) = 0)
    BY <1>1
  <1>5. /\ s(1) \in {0, 1} /\ s(2) \in {0, 1} /\ s(4) \in {0, 1} /\ s(8) \in {0, 1}
        /\ a = 0 /\ b = 0 => s(1) = 0 /\ s(2) = 0 /\ s(4) = 0 /\ s(8) = 0
    BY <1>4
  <1> HIDE DEF s
  <1>6. /\ XorNibble[<<a, b>>] \in Int /\ 0 <= XorNibble[<<a, b>>] /\ XorNibble[<<a, b>>] <= 15
        /\ a = 0 /\ b = 0 => XorNibble[<<a, b>>] = 0
    BY <1>3, <1>5
  <1> QED BY <1>6 DEF a, b

\* xor is a 16-bit number, of bytes a byte.
LEMMA XorType ==
    ASSUME NEW a \in Int, NEW b \in Int
    PROVE  xor(a, b) \in Word /\ (a \in Byte /\ b \in Byte => xor(a, b) \in Byte)
  <1> DEFINE N(k) == XorNibble[<<(a \div k) % 16, (b \div k) % 16>>]
  <1>1. xor(a, b) = 1 * N(1) + 16 * N(16) + 256 * N(256) + 4096 * N(4096)
    BY Zenon DEF xor
  <1>2. ASSUME NEW k \in Nat \ {0}
        PROVE  /\ N(k) \in Int /\ 0 <= N(k) /\ N(k) <= 15
               /\ (a \div k) % 16 = 0 /\ (b \div k) % 16 = 0 => N(k) = 0
    <2>1. a \div k \in Int /\ b \div k \in Int
      OBVIOUS
    <2> QED BY <2>1, NibbleType
  <1>3. a \in Byte => (a \div 256) % 16 = 0 /\ (a \div 4096) % 16 = 0
    <2>1. a \in Byte => 0 <= a /\ a <= 255
      BY ByteFacts
    <2> QED BY <2>1
  <1>4. b \in Byte => (b \div 256) % 16 = 0 /\ (b \div 4096) % 16 = 0
    <2>1. b \in Byte => 0 <= b /\ b <= 255
      BY ByteFacts
    <2> QED BY <2>1
  <1>5. /\ N(1) \in Int /\ 0 <= N(1) /\ N(1) <= 15 /\ N(16) \in Int /\ 0 <= N(16) /\ N(16) <= 15
        /\ N(256) \in Int /\ 0 <= N(256) /\ N(256) <= 15
        /\ N(4096) \in Int /\ 0 <= N(4096) /\ N(4096) <= 15
    BY <1>2
  <1>6. a \in Byte /\ b \in Byte => N(256) = 0 /\ N(4096) = 0
    <2>1. 256 \in Nat \ {0} /\ 4096 \in Nat \ {0}
      OBVIOUS
    <2> QED BY <1>2, <1>3, <1>4, <2>1
  <1> HIDE DEF N
  <1>7. xor(a, b) \in Int /\ 0 <= xor(a, b) /\ xor(a, b) <= 65535
    BY <1>1, <1>5
  <1>8. a \in Byte /\ b \in Byte => xor(a, b) <= 255
    BY <1>1, <1>5, <1>6
  <1>9. xor(a, b) \in Word
    BY <1>7, WordFacts
  <1>10. a \in Byte /\ b \in Byte => xor(a, b) \in Byte
    BY <1>7, <1>8, ByteFacts
  <1> QED BY <1>9, <1>10

\* The table has an entry for every byte.
LEMMA FcsTableType == fcsTable \in [Byte -> Int]
  <1> DEFINE T == fcsTableLiteral
  <1>1. T \in Seq(Int) /\ Len(T) = 256
    BY DEF fcsTableLiteral
  <1>0. T \in Seq(Int)
    BY <1>1
  <1> HIDE DEF T
  <1>2. ASSUME NEW i \in Byte PROVE T[i + 1] \in Int
    <2>1. PICK n \in Nat : n = Len(T)
      BY <1>1
    <2>2. n = 256
      BY <1>1, <2>1
    <2>3. i \in Int /\ 0 <= i /\ i <= 255
      BY ByteFacts
    <2>4. i + 1 \in Int /\ 1 <= i + 1 /\ i + 1 <= n
      BY <2>2, <2>3
    <2>5. i + 1 \in 1 .. n
      BY <2>4
    <2>6. i + 1 \in 1 .. Len(T)
      BY <2>1, <2>5, Zenon
    <2> QED BY <1>0, <2>6, ElementOfSeq
  <1> QED BY <1>2, Zenon DEF fcsTable, T

\* One byte of the 16-bit checksum.
CrcStep == [p \in Word \X Byte |-> xor(p[1] \div 256, fcsTable[xor(p[1] % 256, p[2])])]

LEMMA CrcStepType == CrcStep \in [Word \X Byte -> Word]
  <1>1. ASSUME NEW c \in Word, NEW d \in Byte
        PROVE  xor(c \div 256, fcsTable[xor(c % 256, d)]) \in Word
    <2>1. c \in Int /\ d \in Int
      BY WordFacts, ByteFacts
    <2>2. c % 256 \in Int /\ 0 <= c % 256 /\ c % 256 <= 255 /\ c \div 256 \in Int
      BY <2>1
    <2>3. c % 256 \in Byte
      BY <2>2, ByteFacts
    <2>4. xor(c % 256, d) \in Byte
      BY <2>1, <2>2, <2>3, XorType
    <2>5. fcsTable[xor(c % 256, d)] \in Int
      BY <2>4, FcsTableType
    <2> QED BY <2>2, <2>5, XorType
  <1> QED BY <1>1 DEF CrcStep

\* The loop of zbossCRC16 and hdlcFCS16 ends with a 16-bit number.
LEMMA Crc16Type ==
    ASSUME NEW init \in Word, NEW data \in Seq(Byte)
    PROVE  crc16(fcsTable, init, data) \in Word
  <1> DEFINE n == Len(data)
             F(f) == [i \in 0 .. n |-> IF i = 0 THEN init ELSE CrcStep[<<f[i - 1], data[i]>>]]
             crc == CHOOSE f : f = F(f)
             G == [i \in 1 .. n |-> [c \in Word |-> CrcStep[<<c, data[i]>>]]]
  <1>1. crc16(fcsTable, init, data) = crc[n]
    BY Zenon DEF crc16, CrcStep
  <1>2. n \in Nat /\ \A i \in 1 .. n : data[i] \in Byte
    BY LenProperties, ElementOfSeq
  <1>3. G \in [1 .. n -> [Word -> Word]]
    BY <1>2, CrcStepType
  <1> HIDE DEF n
  <1>4. \E f : f = F(f)
    <2>0. PICK f : Recursive(Word, n, init, G, f)
      <3> HIDE DEF G
      <3> QED BY <1>2, <1>3, RecursionExists
    <2>1. f \in [0 .. n -> Word] /\ f[0] = init /\ \A i \in 1 .. n : f[i] = G[i][f[i - 1]]
      BY <2>0 DEF Recursive
    <2>2. ASSUME NEW i \in 1 .. n PROVE f[i] = CrcStep[<<f[i - 1], data[i]>>]
      <3>1. i - 1 \in 0 .. n /\ f[i - 1] \in Word
        BY <1>2, <2>1
      <3> QED BY <2>1, <3>1
    <2>3. \A i \in 0 .. n : f[i] = IF i = 0 THEN init ELSE CrcStep[<<f[i - 1], data[i]>>]
      BY <1>2, <2>1, <2>2
    <2>4. f = F(f)
      BY <2>1, <2>3
    <2> QED BY <2>4
  <1>5. crc = F(crc)
    BY <1>4, Zenon
  <1> HIDE DEF crc, G
  <1> DEFINE S == {i \in 0 .. n : crc[i] \in Word}
  <1>6. 0 \in S
    BY <1>2, <1>5
  <1>7. ASSUME NEW i \in 1 .. n, i - 1 \in S PROVE i \in S
    <2>1. crc[i] = CrcStep[<<crc[i - 1], data[i]>>]
      BY <1>2, <1>5
    <2> QED BY <1>2, <1>7, <2>1, CrcStepType
  <1> HIDE DEF S
  <1>8. 0 .. n \subseteq S
    BY <1>2, <1>6, <1>7, Upward
  <1>9. crc[n] \in Word
    BY <1>2, <1>8 DEF S
  <1> QED BY <1>1, <1>9 DEF n

\* An entry of crc8Table is a byte, and so is the checksum.
LEMMA PolyType ==
    ASSUME NEW poly \in Byte, NEW byte \in Byte
    PROVE  Poly(poly, byte) \in Byte
  <1> DEFINE st(c) == IF c % 2 = 1 THEN xor(c \div 2, poly) ELSE c \div 2
             F(f) == [k \in 0 .. 8 |-> IF k = 0 THEN byte ELSE st(f[k - 1])]
             bit == CHOOSE f : f = F(f)
             G == [k \in 1 .. 8 |-> [c \in Byte |-> st(c)]]
  <1>1. Poly(poly, byte) = bit[8]
    BY Zenon DEF Poly
  <1>2. ASSUME NEW c \in Byte PROVE st(c) \in Byte
    <2>1. c \in Int /\ 0 <= c /\ c <= 255 /\ poly \in Int
      BY ByteFacts
    <2>2. c \div 2 \in Int /\ 0 <= c \div 2 /\ c \div 2 <= 255
      BY <2>1
    <2>3. c \div 2 \in Byte
      BY <2>2, ByteFacts
    <2>4. xor(c \div 2, poly) \in Byte
      BY <2>1, <2>2, <2>3, XorType
    <2> QED BY <2>3, <2>4
  <1> HIDE DEF st
  <1>3. G \in [1 .. 8 -> [Byte -> Byte]]
    BY <1>2
  <1>4. \E f : f = F(f)
    <2>1. PICK f : Recursive(Byte, 8, byte, G, f)
      <3> HIDE DEF G
      <3> QED BY <1>3, RecursionExists
    <2>2. f \in [0 .. 8 -> Byte] /\ f[0] = byte /\ \A k \in 1 .. 8 : f[k] = G[k][f[k - 1]]
      BY <2>1 DEF Recursive
    <2>3. ASSUME NEW k \in 1 .. 8 PROVE f[k] = st(f[k - 1])
      <3>1. f[k - 1] \in Byte
        BY <2>2
      <3> QED BY <2>2, <3>1
    <2>4. f = F(f)
      BY <2>2, <2>3
    <2> QED BY <2>4
  <1>5. bit = F(bit)
    BY <1>4, Zenon
  <1> HIDE DEF bit, G
  <1> DEFINE S == {k \in 0 .. 8 : bit[k] \in Byte}
  <1>6. 0 \in S
    BY <1>5
  <1>7. ASSUME NEW k \in 1 .. 8, k - 1 \in S PROVE k \in S
    <2>1. bit[k] = st(bit[k - 1])
      BY <1>5
    <2> QED BY <1>2, <1>7, <2>1
  <1> HIDE DEF S
  <1>8. 0 .. 8 \subseteq S
    BY <1>6, <1>7, Upward
  <1>9. bit[8] \in Byte
    BY <1>8 DEF S
  <1> QED BY <1>1, <1>9

LEMMA Crc8Type ==
    ASSUME NEW data \in Seq(Byte)
    PROVE  zbossCRC8(data) \in Byte
  <1> DEFINE n == Len(data)
             st(i, c) == crc8Table[xor(c, data[i])]
             F(f) == [i \in 0 .. n |-> IF i = 0 THEN 255 ELSE st(i, f[i - 1])]
             crc == CHOOSE f : f = F(f)
             G == [i \in 1 .. n |-> [c \in Byte |-> st(i, c)]]
  <1>1. zbossCRC8(data) = xor(crc[n], 255)
    BY DEF zbossCRC8
  <1>2. n \in Nat /\ (\A i \in 1 .. n : data[i] \in Byte) /\ 255 \in Byte
    BY LenProperties, ElementOfSeq, ByteFacts
  <1>3. ASSUME NEW i \in 1 .. n, NEW c \in Byte PROVE st(i, c) \in Byte
    <2>1. xor(c, data[i]) \in Byte
      BY <1>2, XorType, ByteFacts
    <2>2. crc8Table \in [Byte -> Byte]
      <3>1. 178 \in Byte
        BY ByteFacts
      <3> QED BY <3>1, PolyType DEF crc8Table
    <2> QED BY <2>1, <2>2
  <1> HIDE DEF n, st
  <1>4. G \in [1 .. n -> [Byte -> Byte]]
    BY <1>3
  <1>5. \E f : f = F(f)
    <2>1. PICK f : Recursive(Byte, n, 255, G, f)
      <3> HIDE DEF G
      <3> QED BY <1>2, <1>4, RecursionExists
    <2>2. f \in [0 .. n -> Byte] /\ f[0] = 255 /\ \A i \in 1 .. n : f[i] = G[i][f[i - 1]]
      BY <2>1 DEF Recursive
    <2>3. ASSUME NEW i \in 1 .. n PROVE f[i] = st(i, f[i - 1])
      <3>1. f[i - 1] \in Byte
        BY <1>2, <2>2
      <3> QED BY <2>2, <3>1
    <2>4. f = F(f)
      BY <1>2, <2>2, <2>3
    <2> QED BY <2>4
  <1>6. crc = F(crc)
    BY <1>5, Zenon
  <1> HIDE DEF crc, G
  <1> DEFINE S == {i \in 0 .. n : crc[i] \in Byte}
  <1>7. 0 \in S
    BY <1>2, <1>6
  <1>8. ASSUME NEW i \in 1 .. n, i - 1 \in S PROVE i \in S
    <2>1. crc[i] = st(i, crc[i - 1])
      BY <1>2, <1>6
    <2> QED BY <1>2, <1>3, <1>8, <2>1
  <1> HIDE DEF S
  <1>9. 0 .. n \subseteq S
    BY <1>2, <1>7, <1>8, Upward
  <1>10. crc[n] \in Byte
    BY <1>2, <1>9 DEF S
  <1> QED BY <1>1, <1>2, <1>10, XorType, ByteFacts

-----------------------------------------------------------------------------
(* ZBOSS frames.                                                           *)

\* The bytes of the LL header.
LEMMA LLHeader ==
    ASSUME NEW size \in Word, NEW flags \in Byte
    PROVE  LET h == LE16(size) \o <<zbossLLType, flags>>
               x == llHeader(size, flags)
           IN  /\ h \in Seq(Byte) /\ Len(h) = 4 /\ x \in Seq(Byte) /\ Len(x) = 7
               /\ x[1] = zbossSig0 /\ x[2] = zbossSig1 /\ Uint16(x[3], x[4]) = size
               /\ x[5] = zbossLLType /\ x[6] = flags /\ x[7] = zbossCRC8(h)
               /\ x = <<zbossSig0, zbossSig1>> \o (h \o <<zbossCRC8(h)>>)
  <1> DEFINE le == LE16(size)
             tf == <<zbossLLType, flags>>
             h == le \o tf
             sig == <<zbossSig0, zbossSig1>>
             c == <<zbossCRC8(h)>>
             x == llHeader(size, flags)
  <1>1. /\ le \in Seq(Byte) /\ Len(le) = 2 /\ Uint16(le[1], le[2]) = size
    BY WordBytes, Tuples DEF LE16
  <1>2. tf \in Seq(Byte) /\ Len(tf) = 2 /\ tf[1] = zbossLLType /\ tf[2] = flags
    <2>1. zbossLLType \in Byte
      BY ByteFacts DEF zbossLLType
    <2> QED BY <2>1, Tuples
  <1>3. sig \in Seq(Byte) /\ Len(sig) = 2 /\ sig[1] = zbossSig0 /\ sig[2] = zbossSig1
    <2>1. zbossSig0 \in Byte /\ zbossSig1 \in Byte
      BY ByteFacts DEF zbossSig0, zbossSig1
    <2> QED BY <2>1, Tuples
  <1> HIDE DEF le, tf, sig
  <1>4. /\ h \in Seq(Byte) /\ Len(h) = 4
        /\ h[1] = le[1] /\ h[2] = le[2] /\ h[3] = tf[1] /\ h[4] = tf[2]
    <2>1. /\ h \in Seq(Byte) /\ Len(h) = Len(le) + Len(tf)
          /\ \A i \in 1 .. Len(le) : h[i] = le[i]
          /\ \A i \in 1 .. Len(tf) : h[Len(le) + i] = tf[i]
      BY <1>1, <1>2, Parts
    <2> HIDE DEF h
    <2> QED BY <1>1, <1>2, <2>1
  <1>5. c \in Seq(Byte) /\ Len(c) = 1 /\ c[1] = zbossCRC8(h)
    BY <1>4, Crc8Type, Tuples
  <1>6. x = (sig \o h) \o c
    BY Zenon DEF llHeader, h, sig, le, tf
  <1> HIDE DEF h, c, x
  <1>7. /\ h \o c \in Seq(Byte) /\ Len(h \o c) = 5
        /\ (h \o c)[1] = h[1] /\ (h \o c)[2] = h[2] /\ (h \o c)[3] = h[3] /\ (h \o c)[4] = h[4]
        /\ (h \o c)[5] = c[1]
    <2>0. h \in Seq(Byte) /\ c \in Seq(Byte)
      BY <1>4, <1>5
    <2>1. /\ h \o c \in Seq(Byte) /\ Len(h \o c) = Len(h) + Len(c)
          /\ \A i \in 1 .. Len(h) : (h \o c)[i] = h[i]
          /\ \A i \in 1 .. Len(c) : (h \o c)[Len(h) + i] = c[i]
      BY <2>0, Parts
    <2> QED BY <1>4, <1>5, <2>1
  <1>8. x = sig \o (h \o c)
    BY <1>3, <1>4, <1>5, <1>6, ConcatAssociative
  <1>9. /\ x \in Seq(Byte) /\ Len(x) = 7 /\ x[1] = sig[1] /\ x[2] = sig[2]
        /\ x[3] = h[1] /\ x[4] = h[2] /\ x[5] = h[3] /\ x[6] = h[4] /\ x[7] = c[1]
    <2> DEFINE y == h \o c
    <2>0. sig \in Seq(Byte) /\ y \in Seq(Byte) /\ x = sig \o y
      BY <1>3, <1>7, <1>8
    <2>1. /\ x \in Seq(Byte) /\ Len(x) = Len(sig) + Len(y)
          /\ \A i \in 1 .. Len(sig) : x[i] = sig[i]
          /\ \A i \in 1 .. Len(y) : x[Len(sig) + i] = y[i]
      <3> HIDE DEF y
      <3> QED BY <2>0, Parts
    <2>2. Len(y) = 5 /\ y[1] = h[1] /\ y[2] = h[2] /\ y[3] = h[3] /\ y[4] = h[4] /\ y[5] = c[1]
      BY <1>7
    <2> HIDE DEF y
    <2> QED BY <1>3, <2>1, <2>2
  <1>10. /\ h \in Seq(Byte) /\ Len(h) = 4 /\ x \in Seq(Byte) /\ Len(x) = 7
         /\ x[1] = zbossSig0 /\ x[2] = zbossSig1 /\ Uint16(x[3], x[4]) = size
         /\ x[5] = zbossLLType /\ x[6] = flags /\ x[7] = zbossCRC8(h)
         /\ x = sig \o (h \o c)
    BY <1>1, <1>2, <1>3, <1>4, <1>5, <1>8, <1>9
  <1> QED BY <1>10, Zenon DEF h, x, sig, c, le, tf

\* The parts of a data frame, as zbossDecodeFrame will look at them.
IsDataFrame(pktSeq, hl) ==
    LET flags == 192 + 4 * (pktSeq % 4)
        size  == 7 + Len(hl)
        body  == LE16(zbossCRC16(hl)) \o hl
        f     == zbossEncodeDataFrame(pktSeq, hl)
    IN  /\ f \in Seq(Byte) /\ Len(f) = 2 + size
        /\ f[1] = zbossSig0 /\ f[2] = zbossSig1 /\ Uint16(f[3], f[4]) = size
        /\ f[5] = zbossLLType /\ f[6] = flags /\ flags \in Byte /\ ~zbossLLIsACK(flags)
        /\ f[7] = zbossCRC8(SubSeq(f, 3, 6))
        /\ SubSeq(f, 8, 2 + size) = body
        /\ Len(body) = 2 + Len(hl) /\ Uint16(body[1], body[2]) = zbossCRC16(hl)
        /\ SubSeq(body, 3, Len(body)) = hl

\* What zbossEncodeDataFrame builds has them.
LEMMA DataFrame ==
    ASSUME NEW pktSeq \in Nat, NEW hl \in Seq(Byte), 7 + Len(hl) \in Word
    PROVE  IsDataFrame(pktSeq, hl)
  <1> DEFINE flags == 192 + 4 * (pktSeq % 4)
             size  == 7 + Len(hl)
             crc   == LE16(zbossCRC16(hl))
             body  == crc \o hl
             h     == LE16(size) \o <<zbossLLType, flags>>
             c     == <<zbossCRC8(h)>>
             x     == llHeader(size, flags)
             sig   == <<zbossSig0, zbossSig1>>
             f     == zbossEncodeDataFrame(pktSeq, hl)
  <1>1. flags \in Byte /\ ~zbossLLIsACK(flags) /\ size \in Word /\ Len(hl) \in Nat
    <2>1. pktSeq % 4 \in {0, 1, 2, 3}
      OBVIOUS
    <2>2. flags \in Int /\ 0 <= flags /\ flags <= 255 /\ flags % 2 = 0
      BY <2>1
    <2> QED BY <2>2, ByteFacts DEF zbossLLIsACK
  <1> HIDE DEF flags
  <1>2. zbossCRC16(hl) \in Word
    <2>1. 0 \in Word
      BY WordFacts
    <2> QED BY <2>1, Crc16Type DEF zbossCRC16
  <1>3. crc \in Seq(Byte) /\ Len(crc) = 2 /\ Uint16(crc[1], crc[2]) = zbossCRC16(hl)
    BY <1>2, WordBytes, Tuples DEF LE16
  <1> HIDE DEF crc
  <1>4. crc \in Seq(Byte)
    BY <1>3
  <1>5. /\ body \in Seq(Byte) /\ Len(body) = Len(crc) + Len(hl)
        /\ \A i \in 1 .. Len(crc) : body[i] = crc[i]
    BY <1>4, Parts
  <1>6. SubSeq(body, Len(crc) + 1, Len(crc) + Len(hl)) = hl
    BY <1>4, Suffix
  <1> HIDE DEF body
  <1>7. /\ Len(body) = 2 + Len(hl) /\ Uint16(body[1], body[2]) = zbossCRC16(hl)
        /\ SubSeq(body, 3, Len(body)) = hl
    BY <1>3, <1>5, <1>6
  <1>8. /\ h \in Seq(Byte) /\ Len(h) = 4 /\ x \in Seq(Byte) /\ Len(x) = 7
        /\ x[1] = zbossSig0 /\ x[2] = zbossSig1 /\ Uint16(x[3], x[4]) = size
        /\ x[5] = zbossLLType /\ x[6] = flags /\ x[7] = zbossCRC8(h)
        /\ x = sig \o (h \o c)
    <2> HIDE DEF size
    <2> QED BY <1>1, LLHeader, Zenon
  <1>9. c \in Seq(Byte) /\ sig \in Seq(Byte) /\ Len(sig) = 2
    <2>1. zbossSig0 \in Byte /\ zbossSig1 \in Byte
      BY ByteFacts DEF zbossSig0, zbossSig1
    <2>2. zbossCRC8(h) \in Byte
      BY <1>8, Crc8Type
    <2> QED BY <2>1, <2>2, Tuples
  <1>10. f = (x \o crc) \o hl
    BY Zenon DEF zbossEncodeDataFrame, flags, crc
  <1> HIDE DEF h, c, x, sig, f, size
  <1>11. x \in Seq(Byte) /\ body \in Seq(Byte) /\ f = x \o body
    <2>1. x \in Seq(Byte) /\ body \in Seq(Byte)
      BY <1>5, <1>8
    <2>2. (x \o crc) \o hl = x \o (crc \o hl)
      BY <1>4, <2>1, Assoc, Zenon
    <2> QED BY <1>10, <2>1, <2>2, Zenon DEF body
  <1>12. /\ f \in Seq(Byte) /\ Len(f) = Len(x) + Len(body)
         /\ \A i \in 1 .. Len(x) : f[i] = x[i]
    BY <1>11, Parts
  <1>13. SubSeq(f, 8, 2 + size) = body
    <2>1. SubSeq(f, Len(x) + 1, Len(x) + Len(body)) = body
      BY <1>11, Suffix
    <2>2. Len(x) + 1 = 8 /\ Len(x) + Len(body) = 2 + size
      BY <1>1, <1>7, <1>8 DEF size
    <2> QED BY <2>1, <2>2
  <1>14. SubSeq(f, 3, 6) = h
    <2>1. h \in Seq(Byte) /\ c \in Seq(Byte) /\ sig \in Seq(Byte)
      BY <1>8, <1>9
    <2>2. h \o c \in Seq(Byte) /\ c \o body \in Seq(Byte)
      BY <1>11, <2>1, Parts
    <2>3. f = sig \o ((h \o c) \o body)
      <3>1. (sig \o (h \o c)) \o body = sig \o ((h \o c) \o body)
        <4> DEFINE hc == h \o c
        <4>1. sig \in Seq(Byte) /\ hc \in Seq(Byte) /\ body \in Seq(Byte)
          BY <1>11, <2>1, <2>2
        <4> HIDE DEF hc
        <4>2. (sig \o hc) \o body = sig \o (hc \o body)
          BY <4>1, Assoc, Zenon
        <4> QED BY <4>2 DEF hc
      <3> QED BY <1>8, <1>11, <3>1, Zenon
    <2>4. (h \o c) \o body = h \o (c \o body)
      <3>1. h \in Seq(Byte) /\ c \in Seq(Byte) /\ body \in Seq(Byte)
        BY <1>11, <2>1
      <3> QED BY <3>1, Assoc, Zenon
    <2>5. f = sig \o (h \o (c \o body))
      BY <2>3, <2>4
    <2>6. SubSeq(f, Len(sig) + 1, Len(sig) + Len(h)) = h
      BY <2>1, <2>2, <2>5, Middle
    <2> QED BY <1>8, <1>9, <2>6
  <1>15. /\ f[1] = zbossSig0 /\ f[2] = zbossSig1 /\ Uint16(f[3], f[4]) = size
         /\ f[5] = zbossLLType /\ f[6] = flags /\ f[7] = zbossCRC8(h)
    <2>1. f[1] = x[1] /\ f[2] = x[2] /\ f[3] = x[3] /\ f[4] = x[4] /\ f[5] = x[5] /\ f[6] = x[6] /\ f[7] = x[7]
      <3>1. Len(x) = 7
        BY <1>8
      <3>2. \A i \in 1 .. 7 : f[i] = x[i]
        BY <1>12, <3>1
      <3> QED BY <3>2
    <2> QED BY <1>8, <2>1, Zenon
  <1>16. Len(f) = 2 + size
    BY <1>1, <1>7, <1>8, <1>12 DEF size
  <1>17. /\ f \in Seq(Byte) /\ Len(f) = 2 + size
         /\ f[1] = zbossSig0 /\ f[2] = zbossSig1 /\ Uint16(f[3], f[4]) = size
         /\ f[5] = zbossLLType /\ f[6] = flags /\ flags \in Byte /\ ~zbossLLIsACK(flags)
         /\ f[7] = zbossCRC8(SubSeq(f, 3, 6))
         /\ SubSeq(f, 8, 2 + size) = body
         /\ Len(body) = 2 + Len(hl) /\ Uint16(body[1], body[2]) = zbossCRC16(hl)
         /\ SubSeq(body, 3, Len(body)) = hl
    BY <1>1, <1>7, <1>12, <1>13, <1>14, <1>15, <1>16, Zenon
  <1> QED BY <1>17, Zenon DEF IsDataFrame, f, size, body, crc, flags

\* What zbossEncodeDataFrame makes of an HL part, whatever it holds and however
\* long it is, zbossDecodeFrame takes apart again: the header CRC and the body
\* CRC it computes are those it finds, and no byte is lost at either end.
THEOREM FrameRoundTrip ==
    ASSUME NEW pktSeq \in Nat, NEW hl \in Seq(Byte), 7 + Len(hl) \in Word
    PROVE  zbossDecodeFrame(zbossEncodeDataFrame(pktSeq, hl)) = decodeHL(192 + 4 * (pktSeq % 4), hl)
  <1> DEFINE flags == 192 + 4 * (pktSeq % 4)
             size  == 7 + Len(hl)
             body  == LE16(zbossCRC16(hl)) \o hl
             f     == zbossEncodeDataFrame(pktSeq, hl)
  <1>1. /\ f \in Seq(Byte) /\ Len(f) = 2 + size
        /\ f[1] = zbossSig0 /\ f[2] = zbossSig1 /\ Uint16(f[3], f[4]) = size
        /\ f[5] = zbossLLType /\ f[6] = flags /\ flags \in Byte /\ ~zbossLLIsACK(flags)
        /\ f[7] = zbossCRC8(SubSeq(f, 3, 6))
        /\ SubSeq(f, 8, 2 + size) = body
        /\ Len(body) = 2 + Len(hl) /\ Uint16(body[1], body[2]) = zbossCRC16(hl)
        /\ SubSeq(body, 3, Len(body)) = hl
    <2>1. IsDataFrame(pktSeq, hl)
      BY DataFrame
    <2> QED BY <2>1, Zenon DEF IsDataFrame
  <1>2. /\ ~(Len(f) < 7) /\ ~(size + 2 > Len(f)) /\ ~(size < 5) /\ ~(Len(body) < 2)
    <2>1. Len(f) = 2 + size /\ Len(body) = 2 + Len(hl)
      BY <1>1
    <2>2. Len(hl) \in Nat
      BY LenProperties
    <2> HIDE DEF f, body
    <2> QED BY <2>1, <2>2
  <1>3. <<f[1], f[2]>> = <<zbossSig0, zbossSig1>>
    BY <1>1, Zenon
  <1> HIDE DEF f, size, body, flags
  <1>4. zbossDecodeFrame(f) = decodeHL(flags, hl)
    BY <1>1, <1>2, <1>3, Zenon DEF zbossDecodeFrame
  <1> QED BY <1>4 DEF f, flags

\* A frame anywhere in the stream is read as it was written, if nothing before
\* it looks like the start of another.
LEMMA FrameIsRead ==
    ASSUME NEW f \in Seq(Byte), NEW size \in Nat, goodSize(size), Len(f) = 2 + size,
           f[1] = zbossSig0, f[2] = zbossSig1, Uint16(f[3], f[4]) = size,
           NEW junk \in Seq(Byte), NEW rest \in Seq(Byte),
           \A i \in 1 .. Len(junk) - 1 : ~(junk[i] = zbossSig0 /\ junk[i + 1] = zbossSig1)
    PROVE  readRawZBOSSFrame(junk \o (f \o rest)) = [frame |-> f, rest |-> rest]
  <1> DEFINE fr == f \o rest
             w == junk \o fr
             k == Len(junk) + 1
  <1>1. size >= 5
    BY DEF goodSize
  <1>3. Len(junk) \in Nat /\ Len(rest) \in Nat /\ Len(f) \in Nat
    BY LenProperties
  <1>4. /\ fr \in Seq(Byte) /\ Len(fr) = Len(f) + Len(rest) /\ \A i \in 1 .. Len(f) : fr[i] = f[i]
    BY Parts
  <1>5. fr \in Seq(Byte)
    BY <1>4
  <1> HIDE DEF fr
  <1>6. /\ w \in Seq(Byte) /\ Len(w) = Len(junk) + Len(fr)
        /\ \A i \in 1 .. Len(junk) : w[i] = junk[i]
        /\ \A i \in 1 .. Len(fr) : w[Len(junk) + i] = fr[i]
    BY <1>5, Parts
  <1> HIDE DEF w
  <1>7. ASSUME NEW i \in 1 .. 4 PROVE w[Len(junk) + i] = f[i]
    <2>1. i \in 1 .. Len(f) /\ i \in 1 .. Len(fr)
      <3>1. Len(f) >= 4 /\ Len(fr) >= 4
        BY <1>1, <1>3, <1>4
      <3> QED BY <1>3, <1>4, <3>1
    <2> QED BY <1>4, <1>6, <2>1
  <1>8. w[k] = f[1] /\ w[k + 1] = f[2] /\ w[k + 2] = f[3] /\ w[k + 3] = f[4]
    <2>1. /\ w[Len(junk) + 1] = f[1] /\ w[Len(junk) + 2] = f[2] /\ w[Len(junk) + 3] = f[3]
          /\ w[Len(junk) + 4] = f[4]
      BY <1>7
    <2>2. k + 1 = Len(junk) + 2 /\ k + 2 = Len(junk) + 3 /\ k + 3 = Len(junk) + 4
      BY <1>3
    <2> QED BY <2>1, <2>2
  <1>9. LLSizeAt(w, k) = size
    BY <1>1, <1>8 DEF LLSizeAt
  <1>10. Len(w) = Len(junk) + (2 + size + Len(rest)) /\ size >= 5
    BY <1>1, <1>3, <1>4, <1>6
  <1>11. FrameAt(w, k)
    <2>1. k \in 1 .. Len(w) - 3 /\ k + 1 + size <= Len(w)
      BY <1>3, <1>10
    <2> QED BY <1>1, <1>8, <1>9, <2>1 DEF FrameAt
  <1>12. ASSUME NEW i \in 1 .. k - 1 PROVE ~(w[i] = zbossSig0 /\ w[i + 1] = zbossSig1)
    <2>1. CASE i = Len(junk)
      <3>1. w[i + 1] = zbossSig0
        BY <1>1, <1>8, <2>1
      <3>2. zbossSig0 # zbossSig1
        BY DEF zbossSig0, zbossSig1
      <3> QED BY <3>1, <3>2
    <2>2. CASE i # Len(junk)
      <3>1. i \in 1 .. Len(junk) - 1 /\ i \in 1 .. Len(junk) /\ i + 1 \in 1 .. Len(junk)
        BY <1>3, <2>2
      <3>2. w[i] = junk[i] /\ w[i + 1] = junk[i + 1]
        BY <1>6, <3>1
      <3> QED BY <3>1, <3>2
    <2> QED BY <2>1, <2>2
  <1>13. readRawZBOSSFrame(w) = TakenAt(w, k)
    <2> HIDE DEF k
    <2>1. w \in Seq(Byte)
      BY <1>6
    <2> QED BY <1>11, <1>12, <2>1, NoiseIsSkipped
  <1>14. SubSeq(w, k, k + 1 + size) = f
    <2>1. SubSeq(w, Len(junk) + 1, Len(junk) + Len(f)) = f
      BY Middle DEF w, fr
    <2>2. Len(junk) + Len(f) = k + 1 + size
      BY <1>1, <1>3
    <2> QED BY <2>1, <2>2
  <1>15. From(w, k + 2 + size) = rest
    <2> DEFINE jf == junk \o f
    <2>1. jf \in Seq(Byte) /\ Len(jf) = Len(junk) + Len(f)
      BY Parts
    <2>2. w = jf \o rest
      BY Assoc, Zenon DEF w, fr
    <2> HIDE DEF jf
    <2>3. SubSeq(w, Len(jf) + 1, Len(jf) + Len(rest)) = rest
      BY <2>1, <2>2, Suffix
    <2>4. Len(jf) + 1 = k + 2 + size /\ Len(jf) + Len(rest) = Len(w)
      BY <1>1, <1>3, <1>10, <2>1
    <2> QED BY <2>3, <2>4 DEF From
  <1>16. TakenAt(w, k) = [frame |-> f, rest |-> rest]
    BY <1>9, <1>14, <1>15 DEF TakenAt
  <1>17. readRawZBOSSFrame(w) = [frame |-> f, rest |-> rest]
    BY <1>13, <1>16
  <1> QED BY <1>17, Zenon DEF w, fr

LEMMA DataFrameIsRead ==
    ASSUME NEW pktSeq \in Nat, NEW hl \in Seq(Byte), 7 + Len(hl) \in Word, goodSize(7 + Len(hl)),
           NEW junk \in Seq(Byte), NEW rest \in Seq(Byte),
           \A i \in 1 .. Len(junk) - 1 : ~(junk[i] = zbossSig0 /\ junk[i + 1] = zbossSig1)
    PROVE  LET f == zbossEncodeDataFrame(pktSeq, hl)
           IN  readRawZBOSSFrame(junk \o (f \o rest)) = [frame |-> f, rest |-> rest]
  <1> DEFINE f == zbossEncodeDataFrame(pktSeq, hl)
             size == 7 + Len(hl)
  <1>1. /\ f \in Seq(Byte) /\ Len(f) = 2 + size /\ f[1] = zbossSig0 /\ f[2] = zbossSig1
        /\ Uint16(f[3], f[4]) = size
    <2>1. IsDataFrame(pktSeq, hl)
      BY DataFrame
    <2> QED BY <2>1, Zenon DEF IsDataFrame
  <1>2. size \in Nat
    BY LenProperties
  <1> HIDE DEF f, size
  <1>3. goodSize(size)
    BY DEF size
  <1>4. f \in Seq(Byte)
    BY <1>1
  <1>5. readRawZBOSSFrame(junk \o (f \o rest)) = [frame |-> f, rest |-> rest]
    BY <1>1, <1>2, <1>3, <1>4, FrameIsRead
  <1> QED BY <1>5 DEF f

\* The HL part of a request is decoded to what it was made of.
LEMMA RequestHL ==
    ASSUME NEW callID \in Word, NEW tsn \in Byte, NEW payload \in Seq(Byte), NEW flags
    PROVE  LET hl == <<0, 0>> \o LE16(callID) \o <<tsn>> \o payload
           IN  /\ hl \in Seq(Byte) /\ Len(hl) = 5 + Len(payload)
               /\ decodeHL(flags, hl) = [flags |-> flags, packetType |-> 0, callID |-> callID, tsn |-> tsn,
                                         status |-> <<0, 0>>, payload |-> payload]
  <1> DEFINE zz == <<0, 0>>
             le == LE16(callID)
             ts == <<tsn>>
             a == zz \o le
             b == a \o ts
             hl == b \o payload
  <1>1. zz \in Seq(Byte) /\ Len(zz) = 2 /\ zz[1] = 0 /\ zz[2] = 0
    <2>1. 0 \in Byte
      BY ByteFacts
    <2> QED BY <2>1, Tuples
  <1>2. le \in Seq(Byte) /\ Len(le) = 2 /\ Uint16(le[1], le[2]) = callID
    BY WordBytes, Tuples DEF LE16
  <1>3. ts \in Seq(Byte) /\ Len(ts) = 1 /\ ts[1] = tsn
    BY Tuples
  <1> HIDE DEF zz, le, ts
  <1>4. zz \in Seq(Byte) /\ le \in Seq(Byte) /\ ts \in Seq(Byte) /\ Len(payload) \in Nat
    BY <1>1, <1>2, <1>3, LenProperties
  <1>5. /\ a \in Seq(Byte) /\ Len(a) = Len(zz) + Len(le)
        /\ \A i \in 1 .. Len(zz) : a[i] = zz[i]
        /\ \A i \in 1 .. Len(le) : a[Len(zz) + i] = le[i]
    BY <1>4, Parts
  <1> HIDE DEF a
  <1>6. a \in Seq(Byte) /\ Len(a) = 4 /\ a[2] = 0 /\ a[3] = le[1] /\ a[4] = le[2]
    BY <1>1, <1>2, <1>5
  <1>7. a \in Seq(Byte)
    BY <1>6
  <1>8. /\ b \in Seq(Byte) /\ Len(b) = Len(a) + Len(ts)
        /\ \A i \in 1 .. Len(a) : b[i] = a[i]
        /\ \A i \in 1 .. Len(ts) : b[Len(a) + i] = ts[i]
    BY <1>4, <1>7, Parts
  <1> HIDE DEF b
  <1>9. b \in Seq(Byte) /\ Len(b) = 5 /\ b[2] = a[2] /\ b[3] = a[3] /\ b[4] = a[4] /\ b[5] = ts[1]
    BY <1>3, <1>6, <1>8
  <1>10. b \in Seq(Byte)
    BY <1>9
  <1>11. /\ hl \in Seq(Byte) /\ Len(hl) = Len(b) + Len(payload)
         /\ \A i \in 1 .. Len(b) : hl[i] = b[i]
    BY <1>10, Parts
  <1>12. SubSeq(hl, Len(b) + 1, Len(b) + Len(payload)) = payload
    BY <1>10, Suffix
  <1> HIDE DEF hl
  <1>13. /\ Len(hl) = 5 + Len(payload) /\ hl[2] = b[2] /\ hl[3] = b[3] /\ hl[4] = b[4] /\ hl[5] = b[5]
         /\ SubSeq(hl, 6, Len(hl)) = payload
    <2>1. Len(b) = 5
      BY <1>9
    <2> QED BY <1>11, <1>12, <2>1
  <1>14. hl[2] = 0 /\ Uint16(hl[3], hl[4]) = callID /\ hl[5] = tsn
    BY <1>2, <1>3, <1>6, <1>9, <1>13
  <1>15. hlSize(0) = 5
    BY DEF hlSize
  <1>16. ~(Len(hl) < 4) /\ ~(Len(hl) < 5)
    BY <1>4, <1>13
  <1>17. decodeHL(flags, hl) =
           [flags |-> flags, packetType |-> 0, callID |-> callID, tsn |-> tsn,
            status |-> <<0, 0>>, payload |-> payload]
    <2>1. decodeHL(flags, hl) =
            IF Len(hl) < 4 THEN Err
            ELSE IF 5 = 0 \/ Len(hl) < 5 THEN Err
            ELSE [flags |-> flags, packetType |-> 0, callID |-> callID, tsn |-> IF 0 = 2 THEN 0 ELSE tsn,
                  status |-> IF 0 = 1 THEN <<hl[6], hl[7]>> ELSE <<0, 0>>,
                  payload |-> SubSeq(hl, 5 + 1, Len(hl))]
      BY <1>14, <1>15, Zenon DEF decodeHL
    <2>2. /\ 5 # 0 /\ (IF 0 = 2 THEN 0 ELSE tsn) = tsn /\ 5 + 1 = 6
          /\ (IF 0 = 1 THEN <<hl[6], hl[7]>> ELSE <<0, 0>>) = <<0, 0>>
      OBVIOUS
    <2> QED BY <1>13, <1>16, <2>1, <2>2, Zenon
  <1> QED BY <1>11, <1>13, <1>17, Zenon DEF hl, b, a, zz, le, ts

\* A request of any command, with any payload that a frame may hold, comes out
\* of readRawZBOSSFrame and zbossDecodeFrame as it went into zbossEncodeRequest,
\* and the bytes after it are left for the next call, whatever bytes without a
\* signature came before it: a 0xDE right before the frame included.
THEOREM RequestRoundTrip ==
    ASSUME NEW callID \in Word, NEW tsn \in Byte, NEW pktSeq \in Nat, NEW payload \in Seq(Byte),
           12 + Len(payload) \in Word, goodSize(12 + Len(payload)),
           NEW junk \in Seq(Byte), NEW rest \in Seq(Byte),
           \A i \in 1 .. Len(junk) - 1 : ~(junk[i] = zbossSig0 /\ junk[i + 1] = zbossSig1)
    PROVE  LET r == readRawZBOSSFrame(junk \o (zbossEncodeRequest(callID, tsn, pktSeq, payload) \o rest))
           IN  /\ r.frame = zbossEncodeRequest(callID, tsn, pktSeq, payload) /\ r.rest = rest
               /\ zbossDecodeFrame(r.frame) =
                    [flags |-> 192 + 4 * (pktSeq % 4), packetType |-> 0, callID |-> callID, tsn |-> tsn,
                     status |-> <<0, 0>>, payload |-> payload]
  <1> DEFINE hl == <<0, 0>> \o LE16(callID) \o <<tsn>> \o payload
             flags == 192 + 4 * (pktSeq % 4)
             f == zbossEncodeDataFrame(pktSeq, hl)
             r == readRawZBOSSFrame(junk \o (f \o rest))
  <1>1. zbossEncodeRequest(callID, tsn, pktSeq, payload) = f
    BY Zenon DEF zbossEncodeRequest
  <1>2. /\ hl \in Seq(Byte) /\ Len(hl) = 5 + Len(payload)
        /\ decodeHL(flags, hl) = [flags |-> flags, packetType |-> 0, callID |-> callID, tsn |-> tsn,
                                  status |-> <<0, 0>>, payload |-> payload]
    BY RequestHL, Zenon
  <1> HIDE DEF hl
  <1>3. hl \in Seq(Byte) /\ 7 + Len(hl) = 12 + Len(payload)
    <2>1. Len(payload) \in Nat
      BY LenProperties
    <2> QED BY <1>2, <2>1
  <1>4. 7 + Len(hl) \in Word /\ goodSize(7 + Len(hl))
    BY <1>3
  <1>5. r = [frame |-> f, rest |-> rest]
    BY <1>3, <1>4, DataFrameIsRead
  <1>6. zbossDecodeFrame(f) = decodeHL(flags, hl)
    BY <1>3, <1>4, FrameRoundTrip
  <1> HIDE DEF f, r, flags
  <1>7. r.frame = f /\ r.rest = rest
    BY <1>5
  <1> QED BY <1>1, <1>2, <1>6, <1>7, Zenon DEF r, flags

-----------------------------------------------------------------------------
(* Numbers in base Base.                                                   *)

\* A digit, a byte in the code.
Digit == 0 .. Base - 1

\* The base is 256 in the code.
LEMMA BaseFacts == Base \in Nat /\ Base > 2
  BY BaseAssumption

\* Division with remainder, rounding down.
LEMMA DivMod ==
    ASSUME NEW n \in Int
    PROVE  /\ n \div Base \in Int /\ n % Base \in Int /\ 0 <= n % Base /\ n % Base < Base
           /\ n % Base \in Digit
           /\ n = Base * (n \div Base) + (n % Base)
  <1>1. /\ n \div Base \in Int /\ n % Base \in Int /\ 0 <= n % Base /\ n % Base < Base
        /\ n = Base * (n \div Base) + (n % Base)
    BY BaseFacts
  <1>2. n % Base \in Digit
    BY <1>1, BaseFacts DEF Digit
  <1> QED BY <1>1, <1>2

\* The powers of Base, what is left of n after i digits, and the number that
\* the digits from i on make.
IsPow(P, k) == P \in [0 .. k -> Nat] /\ P[0] = 1 /\ \A i \in 1 .. k : P[i] = Base * P[i - 1]
IsRest(R, n, k) == R \in [0 .. k -> Int] /\ R[0] = n /\ \A i \in 1 .. k : R[i] = R[i - 1] \div Base

\* The recursive functions in Pow, Digits and Number exist; what they compute.
LEMMA PowExists == ASSUME NEW k \in Nat PROVE \E P : IsPow(P, k) /\ Pow(k) = P[k]
  <1> DEFINE F(f) == [i \in 0 .. k |-> IF i = 0 THEN 1 ELSE Base * f[i - 1]]
             pow == CHOOSE f : f = F(f)
             G == [i \in 1 .. k |-> [c \in Nat |-> Base * c]]
  <1>1. Pow(k) = pow[k]
    BY Zenon DEF Pow
  <1>2. ASSUME NEW c \in Nat PROVE Base * c \in Nat
    BY BaseFacts
  <1>3. G \in [1 .. k -> [Nat -> Nat]]
    BY <1>2
  <1>4. \E f : f = F(f)
    <2>1. PICK f : Recursive(Nat, k, 1, G, f)
      <3> HIDE DEF G
      <3> QED BY <1>3, RecursionExists
    <2>2. f \in [0 .. k -> Nat] /\ f[0] = 1 /\ \A i \in 1 .. k : f[i] = G[i][f[i - 1]]
      BY <2>1 DEF Recursive
    <2>3. ASSUME NEW i \in 1 .. k PROVE f[i] = Base * f[i - 1]
      <3>1. f[i - 1] \in Nat
        BY <2>2
      <3> QED BY <2>2, <3>1
    <2>4. f = F(f)
      BY <2>2, <2>3
    <2> QED BY <2>4
  <1>5. pow = F(pow)
    BY <1>4, Zenon
  <1> HIDE DEF pow, G
  <1>6. pow[0] = 1 /\ \A i \in 1 .. k : pow[i] = Base * pow[i - 1]
    BY <1>5
  <1> DEFINE S == {i \in 0 .. k : pow[i] \in Nat}
  <1>7. 0 \in S /\ \A i \in 1 .. k : i - 1 \in S => i \in S
    BY <1>2, <1>6
  <1> HIDE DEF S
  <1>8. 0 .. k \subseteq S
    BY <1>7, Upward
  <1>9. pow \in [0 .. k -> Nat]
    BY <1>5, <1>8 DEF S
  <1> QED BY <1>1, <1>6, <1>9 DEF IsPow

LEMMA RestExists ==
    ASSUME NEW n \in Int, NEW k \in Nat
    PROVE  \E R : IsRest(R, n, k) /\ Digits(n, k) = [i \in 1 .. k |-> R[i - 1] % Base]
  <1> DEFINE F(f) == [i \in 0 .. k |-> IF i = 0 THEN n ELSE f[i - 1] \div Base]
             R == CHOOSE f : f = F(f)
             G == [i \in 1 .. k |-> [c \in Int |-> c \div Base]]
  <1>1. Digits(n, k) = [i \in 1 .. k |-> R[i - 1] % Base]
    BY Zenon DEF Digits
  <1>2. ASSUME NEW c \in Int PROVE c \div Base \in Int
    BY DivMod
  <1>3. G \in [1 .. k -> [Int -> Int]]
    BY <1>2
  <1>4. \E f : f = F(f)
    <2>1. PICK f : Recursive(Int, k, n, G, f)
      <3> HIDE DEF G
      <3> QED BY <1>3, RecursionExists
    <2>2. f \in [0 .. k -> Int] /\ f[0] = n /\ \A i \in 1 .. k : f[i] = G[i][f[i - 1]]
      BY <2>1 DEF Recursive
    <2>3. ASSUME NEW i \in 1 .. k PROVE f[i] = f[i - 1] \div Base
      <3>1. f[i - 1] \in Int
        BY <2>2
      <3> QED BY <2>2, <3>1
    <2>4. f = F(f)
      BY <2>2, <2>3
    <2> QED BY <2>4
  <1>5. R = F(R)
    BY <1>4, Zenon
  <1> HIDE DEF R, G
  <1>6. R[0] = n /\ \A i \in 1 .. k : R[i] = R[i - 1] \div Base
    BY <1>5
  <1> DEFINE S == {i \in 0 .. k : R[i] \in Int}
  <1>7. 0 \in S /\ \A i \in 1 .. k : i - 1 \in S => i \in S
    BY <1>2, <1>6
  <1> HIDE DEF S
  <1>8. 0 .. k \subseteq S
    BY <1>7, Upward
  <1>9. R \in [0 .. k -> Int]
    BY <1>5, <1>8 DEF S
  <1> QED BY <1>1, <1>6, <1>9 DEF IsRest

IsNumber(N, d) ==
    /\ N \in [1 .. Len(d) + 1 -> Nat] /\ N[Len(d) + 1] = 0
    /\ \A i \in 1 .. Len(d) : N[i] = d[i] + Base * N[i + 1]

LEMMA NumberOfNats == ASSUME NEW d \in Seq(Nat) PROVE \E N : IsNumber(N, d) /\ Number(d) = N[1]
  <1> DEFINE n == Len(d)
             F(f) == [i \in 1 .. n + 1 |-> IF i > n THEN 0 ELSE d[i] + Base * f[i + 1]]
             num == CHOOSE f : f = F(f)
             G == [j \in 1 .. n |-> [c \in Nat |-> d[n + 1 - j] + Base * c]]
  <1>1. Number(d) = num[1]
    BY Zenon DEF Number
  <1>2. n \in Nat /\ \A i \in 1 .. n : d[i] \in Nat
    BY LenProperties, ElementOfSeq
  <1> HIDE DEF n
  <1>3. ASSUME NEW i \in 1 .. n, NEW c \in Nat PROVE d[i] + Base * c \in Nat
    <2>1. Base * c \in Nat
      BY BaseFacts
    <2> QED BY <1>2, <2>1
  <1>4. G \in [1 .. n -> [Nat -> Nat]]
    <2>1. \A j \in 1 .. n : n + 1 - j \in 1 .. n
      BY <1>2
    <2> QED BY <1>3, <2>1
  <1>5. \E f : f = F(f)
    <2>1. PICK g : Recursive(Nat, n, 0, G, g)
      <3> HIDE DEF G
      <3> QED BY <1>2, <1>4, RecursionExists
    <2>2. g \in [0 .. n -> Nat] /\ g[0] = 0 /\ \A j \in 1 .. n : g[j] = G[j][g[j - 1]]
      BY <2>1 DEF Recursive
    <2> DEFINE f == [i \in 1 .. n + 1 |-> g[n + 1 - i]]
    <2>3. f[n + 1] = 0
      BY <1>2, <2>2
    <2>4. ASSUME NEW i \in 1 .. n PROVE f[i] = d[i] + Base * f[i + 1]
      <3>1. /\ n + 1 - i \in 1 .. n /\ n + 1 - (n + 1 - i) = i /\ (n + 1 - i) - 1 = n + 1 - (i + 1)
            /\ i + 1 \in 1 .. n + 1 /\ i \in 1 .. n + 1
        BY <1>2
      <3>2. g[(n + 1 - i) - 1] \in Nat
        BY <1>2, <2>2, <3>1
      <3>3. g[n + 1 - i] = d[i] + Base * g[(n + 1 - i) - 1]
        BY <2>2, <3>1, <3>2
      <3>4. f[i] = g[n + 1 - i] /\ f[i + 1] = g[n + 1 - (i + 1)]
        BY <3>1
      <3> HIDE DEF f
      <3> QED BY <3>1, <3>3, <3>4
    <2>5. \A i \in 1 .. n + 1 : f[i] = IF i > n THEN 0 ELSE d[i] + Base * f[i + 1]
      <3> HIDE DEF f
      <3> QED BY <1>2, <2>3, <2>4
    <2>6. f = F(f)
      BY <2>5
    <2> QED BY <2>6
  <1>6. num = F(num)
    BY <1>5, Zenon
  <1> HIDE DEF num, G
  <1>7. num[n + 1] = 0 /\ \A i \in 1 .. n : num[i] = d[i] + Base * num[i + 1]
    BY <1>2, <1>6
  <1> DEFINE S == {i \in 0 .. n : num[i + 1] \in Nat}
  <1>8. n \in S
    BY <1>2, <1>7
  <1>9. ASSUME NEW i \in 1 .. n, i \in S PROVE i - 1 \in S
    <2>1. num[i] \in Nat
      BY <1>3, <1>7, <1>9
    <2> QED BY <1>2, <2>1
  <1> HIDE DEF S
  <1>10. 0 .. n \subseteq S
    BY <1>2, <1>8, <1>9, Downward
  <1>11. ASSUME NEW i \in 1 .. n + 1 PROVE num[i] \in Nat
    <2>1. i - 1 \in 0 .. n /\ (i - 1) + 1 = i
      BY <1>2
    <2> QED BY <1>10, <2>1 DEF S
  <1>12. num \in [1 .. n + 1 -> Nat]
    BY <1>6, <1>11
  <1> QED BY <1>1, <1>7, <1>12 DEF IsNumber, n

LEMMA NumberExists == ASSUME NEW d \in Seq(Digit) PROVE \E N : IsNumber(N, d) /\ Number(d) = N[1]
  <1>1. Len(d) \in Nat /\ \A i \in 1 .. Len(d) : d[i] \in Digit
    BY LenProperties, ElementOfSeq
  <1>2. \A i \in 1 .. Len(d) : d[i] \in Nat
    BY <1>1, BaseFacts DEF Digit
  <1>3. d = [i \in 1 .. Len(d) |-> d[i]]
    BY LenProperties
  <1>4. [i \in 1 .. Len(d) |-> d[i]] \in Seq(Nat)
    BY <1>1, <1>2
  <1>5. d \in Seq(Nat)
    BY <1>3, <1>4
  <1> QED BY <1>5, NumberOfNats

\* k digits are k digits.
LEMMA DigitsType ==
    ASSUME NEW n \in Int, NEW k \in Nat
    PROVE  Digits(n, k) \in Seq(Digit) /\ Len(Digits(n, k)) = k
  <1>1. PICK R : IsRest(R, n, k) /\ Digits(n, k) = [i \in 1 .. k |-> R[i - 1] % Base]
    BY RestExists
  <1>2. ASSUME NEW i \in 1 .. k PROVE R[i - 1] % Base \in Digit
    <2>1. R[i - 1] \in Int
      BY <1>1 DEF IsRest
    <2> QED BY <2>1, DivMod
  <1>3. Digits(n, k) \in [1 .. k -> Digit]
    BY <1>1, <1>2
  <1> QED BY <1>3

\* Division by Base keeps a number between the powers one lower.
LEMMA DivBelow ==
    ASSUME NEW n \in Int, NEW p \in Nat
    PROVE  /\ 0 <= n /\ n < Base * p => 0 <= n \div Base /\ n \div Base < p
           /\ -(Base * p) <= n /\ n < 0 => -p <= n \div Base /\ n \div Base < 0
  <1> DEFINE q == n \div Base
             r == n % Base
  <1>1. q \in Int /\ r \in Int /\ 0 <= r /\ r < Base /\ n = Base * q + r
    BY DivMod
  <1> HIDE DEF q, r
  <1>2. Base \in Nat /\ Base > 2
    BY BaseFacts
  <1>3. ASSUME 0 <= n, n < Base * p PROVE 0 <= q /\ q < p
    <2>1. CASE q < 0
      <3>1. Base * q <= -Base
        BY <1>1, <1>2, <2>1
      <3> QED BY <1>1, <1>2, <1>3, <3>1
    <2>2. CASE q >= p
      <3>1. Base * q >= Base * p
        BY <1>1, <1>2, <2>2
      <3>2. Base * q \in Int /\ Base * p \in Int
        BY <1>1, <1>2
      <3> QED BY <1>1, <1>3, <3>1, <3>2
    <2> QED BY <1>1, <2>1, <2>2
  <1>4. ASSUME -(Base * p) <= n, n < 0 PROVE -p <= q /\ q < 0
    <2>1. CASE q >= 0
      <3>1. Base * q >= 0
        BY <1>1, <1>2, <2>1
      <3>2. Base * q \in Int
        BY <1>1, <1>2
      <3> QED BY <1>1, <1>4, <3>1, <3>2
    <2>2. CASE q < -p
      <3>1. q + 1 <= -p /\ q + 1 \in Int
        BY <1>1, <2>2
      <3>2. Base * (q + 1) <= Base * (-p)
        BY <1>2, <3>1
      <3>3. Base * (q + 1) = Base * q + Base /\ Base * (-p) = -(Base * p)
        BY <1>1, <1>2
      <3>4. Base * q \in Int /\ Base * p \in Int
        BY <1>1, <1>2
      <3> QED BY <1>1, <1>2, <1>4, <3>2, <3>3, <3>4
    <2> QED BY <1>1, <2>1, <2>2
  <1> QED BY <1>3, <1>4 DEF q

\* The digits of a number are read as that number, or, when it is negative, as
\* its complement.
LEMMA NumberOfDigits ==
    ASSUME NEW n \in Int, NEW k \in Nat
    PROVE  /\ Pow(k) \in Nat
           /\ 0 <= n /\ n < Pow(k) => Number(Digits(n, k)) = n
           /\ -Pow(k) <= n /\ n < 0 => Number(Digits(n, k)) = n + Pow(k)
  <1> DEFINE d == Digits(n, k)
  <1>1. d \in Seq(Digit) /\ Len(d) = k
    BY DigitsType
  <1>2. PICK P : IsPow(P, k) /\ Pow(k) = P[k]
    BY PowExists
  <1>3. PICK R : IsRest(R, n, k) /\ d = [i \in 1 .. k |-> R[i - 1] % Base]
    BY RestExists
  <1>4. PICK N : IsNumber(N, d) /\ Number(d) = N[1]
    <2> HIDE DEF d
    <2> QED BY <1>1, NumberExists
  <1> HIDE DEF d
  <1>5. P \in [0 .. k -> Nat] /\ P[0] = 1 /\ \A i \in 1 .. k : P[i] = Base * P[i - 1]
    BY <1>2 DEF IsPow
  <1>6. R \in [0 .. k -> Int] /\ R[0] = n /\ \A i \in 1 .. k : R[i] = R[i - 1] \div Base
    BY <1>3 DEF IsRest
  <1>7. /\ N \in [1 .. k + 1 -> Nat] /\ N[k + 1] = 0
        /\ \A i \in 1 .. k : N[i] = (R[i - 1] % Base) + Base * N[i + 1]
    BY <1>1, <1>3, <1>4 DEF IsNumber
  <1>8. Pow(k) \in Nat
    BY <1>2, <1>5
  <1> DEFINE Within(i) == IF n < 0 THEN -P[k - i] <= R[i] /\ R[i] < 0 ELSE 0 <= R[i] /\ R[i] < P[k - i]
             E(i) == IF n < 0 THEN P[i] ELSE 0
  <1>9. ASSUME IF n < 0 THEN -Pow(k) <= n ELSE n < Pow(k)
        PROVE  N[1] = n + E(k)
    <2> DEFINE S == {i \in 0 .. k : Within(i)}
    <2>1. 0 \in S
      BY <1>2, <1>5, <1>6, <1>9
    <2>2. ASSUME NEW i \in 1 .. k, i - 1 \in S PROVE i \in S
      <3>1. k - (i - 1) \in 1 .. k /\ (k - (i - 1)) - 1 = k - i /\ k - i \in 0 .. k /\ i - 1 \in 0 .. k
        OBVIOUS
      <3>2. P[k - (i - 1)] = Base * P[k - i] /\ P[k - i] \in Nat /\ R[i - 1] \in Int
        BY <1>5, <1>6, <3>1
      <3>3. R[i] = R[i - 1] \div Base
        BY <1>6
      <3>4. IF n < 0 THEN -(Base * P[k - i]) <= R[i - 1] /\ R[i - 1] < 0
            ELSE 0 <= R[i - 1] /\ R[i - 1] < Base * P[k - i]
        BY <2>2, <3>2
      <3>5. Within(i)
        BY <3>2, <3>3, <3>4, DivBelow
      <3> QED BY <3>5
    <2> HIDE DEF S
    <2>3. 0 .. k \subseteq S
      BY <2>1, <2>2, Upward
    <2>4. R[k] + E(0) = 0
      <3>1. Within(k) /\ k - k = 0
        BY <2>3 DEF S
      <3>2. R[k] \in Int
        BY <1>6
      <3> QED BY <1>5, <3>1, <3>2
    <2> DEFINE T == {i \in 0 .. k : N[i + 1] = R[i] + E(k - i)}
    <2>5. k \in T
      BY <1>7, <2>4
    <2>6. ASSUME NEW i \in 1 .. k, i \in T PROVE i - 1 \in T
      <3>1. k - (i - 1) \in 1 .. k /\ (k - (i - 1)) - 1 = k - i /\ k - i \in 0 .. k /\ i - 1 \in 0 .. k
        OBVIOUS
      <3>2. P[k - (i - 1)] = Base * P[k - i] /\ P[k - i] \in Nat /\ R[i - 1] \in Int
        BY <1>5, <1>6, <3>1
      <3>3. E(k - (i - 1)) = Base * E(k - i) /\ E(k - i) \in Int
        BY <3>2, BaseFacts
      <3> HIDE DEF E
      <3>4. N[i + 1] = (R[i - 1] \div Base) + E(k - i)
        BY <1>6, <2>6
      <3>5. N[i] = (R[i - 1] % Base) + Base * N[i + 1]
        BY <1>7
      <3> DEFINE q == R[i - 1] \div Base
                 r == R[i - 1] % Base
      <3>6. q \in Int /\ r \in Int /\ R[i - 1] = Base * q + r
        BY <3>2, DivMod
      <3> HIDE DEF q, r
      <3>7. N[i] = r + Base * (q + E(k - i))
        BY <3>4, <3>5 DEF q, r
      <3>8. Base * (q + E(k - i)) = Base * q + Base * E(k - i)
        BY <3>3, <3>6, BaseFacts
      <3>9. Base * q \in Int /\ Base * E(k - i) \in Int
        BY <3>3, <3>6, BaseFacts
      <3>10. N[i] = R[i - 1] + E(k - (i - 1))
        BY <3>3, <3>6, <3>7, <3>8, <3>9
      <3>11. (i - 1) + 1 = i
        OBVIOUS
      <3> QED BY <3>1, <3>10, <3>11
    <2> HIDE DEF T
    <2>7. 0 .. k \subseteq T
      BY <2>5, <2>6, Downward
    <2>8. 0 \in T /\ k - 0 = k /\ 0 + 1 = 1
      BY <2>7
    <2> QED BY <1>6, <2>8 DEF T
  <1>10. 0 <= n /\ n < Pow(k) => N[1] = n
    BY <1>8, <1>9
  <1>11. -Pow(k) <= n /\ n < 0 => N[1] = n + Pow(k)
    BY <1>2, <1>8, <1>9
  <1> QED BY <1>4, <1>8, <1>10, <1>11 DEF d

\* With the sign bit the number itself comes back.
LEMMA SignedOfDigits ==
    ASSUME NEW n \in Int, NEW k \in Nat, 2 * n >= -Pow(k), 2 * n < Pow(k)
    PROVE  Signed(Digits(n, k)) = n
  <1>1. /\ Pow(k) \in Nat
        /\ 0 <= n /\ n < Pow(k) => Number(Digits(n, k)) = n
        /\ -Pow(k) <= n /\ n < 0 => Number(Digits(n, k)) = n + Pow(k)
    BY NumberOfDigits
  <1>2. Len(Digits(n, k)) = k
    BY DigitsType
  <1>3. CASE n >= 0
    <2>1. Number(Digits(n, k)) = n
      BY <1>1, <1>3
    <2> QED BY <1>2, <2>1 DEF Signed
  <1>4. CASE n < 0
    <2>1. Number(Digits(n, k)) = n + Pow(k)
      BY <1>1, <1>4
    <2>2. ~(2 * (n + Pow(k)) < Pow(k)) /\ (n + Pow(k)) - Pow(k) = n
      BY <1>1
    <2> QED BY <1>2, <2>1, <2>2 DEF Signed
  <1> QED BY <1>3, <1>4

\* A power of the base is even and not below the base.
LEMMA PowFacts ==
    ASSUME NEW k \in Nat, k >= 1
    PROVE  Pow(k) \in Nat /\ Pow(k) >= Base /\ (\E m \in Nat : Pow(k) = 2 * m /\ m >= 1) /\ (k = 1 => Pow(k) = Base)
  <1>1. PICK P : IsPow(P, k) /\ Pow(k) = P[k]
    BY PowExists
  <1>2. P \in [0 .. k -> Nat] /\ P[0] = 1 /\ \A i \in 1 .. k : P[i] = Base * P[i - 1]
    BY <1>1 DEF IsPow
  <1>3. Base \in Nat /\ Base > 2
    BY BaseFacts
  <1> DEFINE S == {i \in 0 .. k : P[i] >= 1}
  <1>4. 0 \in S
    BY <1>2
  <1>5. ASSUME NEW i \in 1 .. k, i - 1 \in S PROVE i \in S
    <2>1. P[i - 1] \in Nat /\ P[i - 1] >= 1 /\ P[i] = Base * P[i - 1] /\ i \in 0 .. k
      BY <1>2, <1>5
    <2>2. \A x \in Nat : x >= 1 => Base * x >= 1
      BY <1>3
    <2> QED BY <2>1, <2>2
  <1> HIDE DEF S
  <1>6. 0 .. k \subseteq S
    BY <1>4, <1>5, Upward
  <1>7. k - 1 \in 0 .. k /\ k \in 1 .. k
    OBVIOUS
  <1> DEFINE x == P[k - 1]
  <1>8. x \in Nat /\ x >= 1 /\ Pow(k) = Base * x
    <2>1. k - 1 \in S
      BY <1>6, <1>7
    <2> QED BY <1>1, <1>2, <1>7, <2>1 DEF S
  <1>9. k = 1 => x = 1
    BY <1>2
  <1> HIDE DEF x
  <1>10. Base * x >= Base /\ Base * x \in Nat
    BY <1>3, <1>8
  <1>11. PICK h \in Nat : Base = 2 * h /\ h >= 1
    <2>1. Base \div 2 \in Nat /\ Base = 2 * (Base \div 2) /\ Base \div 2 >= 1
      BY <1>3, BaseAssumption
    <2> QED BY <2>1
  <1>12. h * x \in Nat /\ h * x >= 1 /\ Base * x = 2 * (h * x)
    BY <1>8, <1>11
  <1>13. k = 1 => Pow(k) = Base
    BY <1>3, <1>8, <1>9
  <1> QED BY <1>8, <1>10, <1>12, <1>13

-----------------------------------------------------------------------------
(* Values.                                                                 *)

LEMMA PowPositive == ASSUME NEW k \in Nat PROVE Pow(k) \in Nat /\ Pow(k) >= 1
  <1>1. CASE k = 0
    <2>1. PICK P : IsPow(P, 0) /\ Pow(0) = P[0]
      BY PowExists
    <2> QED BY <1>1, <2>1 DEF IsPow
  <1>2. CASE k # 0
    <2>1. Pow(k) \in Nat /\ Pow(k) >= Base
      BY <1>2, PowFacts
    <2> QED BY <2>1, BaseFacts
  <1> QED BY <1>1, <1>2

LEMMA DigitCount == ASSUME NEW m PROVE Width(m) \in 0 .. 9
  <1> DEFINE T == {k \in 0 .. 8 : m < Pow(k)} \cup {9}
  <1>1. T \in SUBSET Nat /\ T # {} /\ T \subseteq 0 .. 9
    OBVIOUS
  <1>2. Width(m) = Min(T)
    BY DEF Width
  <1> HIDE DEF T
  <1>3. \E x \in T : \A y \in T : x <= y
    BY <1>1, LeastNat
  <1>4. Min(T) \in T
    BY <1>3, Zenon DEF Min
  <1> QED BY <1>1, <1>2, <1>4

LEMMA NearestType == ASSUME NEW m \in Int, NEW p \in Nat PROVE Nearest(m, p) \in Int
  <1> DEFINE k == IF Width(m) > p THEN Width(m) - p ELSE 0
             g == Pow(k)
             q == m \div g
             up == 2 * (m % g) > g \/ (2 * (m % g) = g /\ q % 2 = 1)
  <1>1. k \in Nat
    BY DigitCount
  <1> HIDE DEF k
  <1>2. g \in Nat /\ g >= 1
    BY <1>1, PowPositive
  <1>3. Nearest(m, p) = g * (IF up THEN q + 1 ELSE q)
    BY DEF Nearest, k
  <1> HIDE DEF g
  <1>4. q \in Int
    BY <1>2
  <1> HIDE DEF q, up
  <1>5. (IF up THEN q + 1 ELSE q) \in Int
    BY <1>4
  <1> QED BY <1>2, <1>3, <1>5

\* Bytes of a float, whatever the number.
LEMMA FloatBitsType ==
    ASSUME NEW h \in Int, NEW size \in {4, 8}
    PROVE  FloatBits(h, size) \in Seq(Digit) /\ Len(FloatBits(h, size)) = size
  <1> DEFINE m == IF h < 0 THEN -h ELSE h
             p == size - 2
             w == Width(m)
             significand == IF w <= p THEN m * Pow(p - w) ELSE m \div Pow(w - p)
             sign == IF h < 0 THEN Pow(size) \div 2 ELSE 0
  <1>1. m \in Int /\ p \in Nat /\ w \in Nat
    BY DigitCount
  <1>2. FloatBits(h, size) = Digits(sign + w * Pow(p) + significand, size)
    BY DEF FloatBits
  <1> HIDE DEF m, p, w
  <1>3. significand \in Int
    <2>1. CASE w <= p
      <3>1. Pow(p - w) \in Nat
        BY <1>1, <2>1, PowPositive
      <3> QED BY <1>1, <2>1, <3>1
    <2>2. CASE ~(w <= p)
      <3>1. Pow(w - p) \in Nat /\ Pow(w - p) >= 1
        BY <1>1, <2>2, PowPositive
      <3> QED BY <1>1, <2>2, <3>1
    <2> QED BY <2>1, <2>2
  <1>4. sign \in Int
    <2>1. Pow(size) \in Nat
      BY PowPositive
    <2> QED BY <2>1
  <1>5. Pow(p) \in Nat
    BY <1>1, PowPositive
  <1> HIDE DEF significand, sign
  <1>6. sign + w * Pow(p) + significand \in Int /\ size \in Nat
    BY <1>1, <1>3, <1>4, <1>5
  <1> QED BY <1>2, <1>6, DigitsType

\* The numbers that are made of a value.
LEMMA ValueNumbers ==
    ASSUME NEW v, v.n \in Int
    PROVE  /\ Whole(v) \in Int /\ float64(v) \in Int /\ float32(v) \in Int
           /\ v.n >= 0 => Whole(v) >= 0
  <1>1. \A h \in Int : \A p \in Nat : Rounded(h, p) \in Int
    BY NearestType DEF Rounded
  <1>2. float64(v) \in Int
    <2>1. (IF v.go \in {"float32", "float64"} THEN v.n ELSE 2 * v.n) \in Int
      OBVIOUS
    <2> QED BY <1>1, <2>1 DEF float64
  <1>3. float32(v) \in Int
    BY <1>1, <1>2 DEF float32
  <1>4. Whole(v) \in Int /\ (v.n >= 0 => Whole(v) >= 0)
    BY DEF Whole
  <1> QED BY <1>2, <1>3, <1>4

\* Go values, whole or with a fraction: an unsigned one is not negative.
GoValue == {v \in [go : GoTypes, n : Int, s : Seq(Digit)] :
               v.go \in {"uint8", "uint16", "uint32", "uint64"} => v.n >= 0}

StringTypes == {TypeOctetStr, TypeCharStr, TypeOctetStr16, TypeCharStr16}

\* The types by size, and which of them are not unsigned numbers.
LEMMA UintTypesAre ==
    /\ UintTypes(1) = {32, 48, 24} /\ UintTypes(2) = {33, 49, 25, 232, 233}
    /\ UintTypes(3) = {34, 26} /\ UintTypes(4) = {35, 27, 226, 224, 225}
    /\ UintTypes(5) = {36} /\ UintTypes(6) = {37}
  BY DEF UintTypes

LEMMA AnyUintType ==
    ASSUME NEW k \in 1 .. 6, NEW t \in UintTypes(k)
    PROVE  t \in Nat /\ t \notin {0, 16, 40, 41, 42, 43, 56, 57, 58, 240, 65, 66, 67, 68}
  <1>1. k \in {1, 2, 3, 4, 5, 6}
    OBVIOUS
  <1> QED BY <1>1, UintTypesAre

LEMMA TypeSizes ==
    /\ TypeSize(16) = 1 /\ TypeSize(240) = 8 /\ TypeSize(57) = 4 /\ TypeSize(58) = 8
    /\ \A t \in SignedTypes : TypeSize(t) \in 1 .. 4
    /\ \A t \in StringTypes : TypeSize(t) = -1
  <1>1. \A t \in {16, 57, 58, 240} \cup SignedTypes \cup StringTypes : ~\E k \in 1 .. 6 : t \in UintTypes(k)
    <2>1. {16, 57, 58, 240} \cup SignedTypes \cup StringTypes
            \subseteq {0, 16, 40, 41, 42, 43, 56, 57, 58, 240, 65, 66, 67, 68}
      BY DEF SignedTypes, StringTypes, TypeOctetStr, TypeCharStr, TypeOctetStr16, TypeCharStr16
    <2> QED BY <2>1, AnyUintType
  <1>2. TypeSize(16) = 1 /\ TypeSize(240) = 8 /\ TypeSize(57) = 4 /\ TypeSize(58) = 8
    BY <1>1 DEF TypeSize, TypeNoData, TypeBool, TypeFloat16, SignedTypes
  <1>3. ASSUME NEW t \in SignedTypes PROVE TypeSize(t) \in 1 .. 4
    BY <1>1 DEF TypeSize, TypeNoData, TypeBool, TypeFloat16, SignedTypes
  <1>4. ASSUME NEW t \in StringTypes PROVE TypeSize(t) = -1
    BY <1>1 DEF TypeSize, TypeNoData, TypeBool, TypeFloat16, SignedTypes, StringTypes,
                TypeOctetStr, TypeCharStr, TypeOctetStr16, TypeCharStr16
  <1> QED BY <1>2, <1>3, <1>4

\* A value of a fixed size is decoded from its own bytes.
LEMMA DecodesFixed ==
    ASSUME NEW t, TypeSize(t) \in 1 .. 8, NEW S, NEW e \in Seq(S), Len(e) = TypeSize(t), NEW rest \in Seq(S)
    PROVE  DecodeValue(t, e \o rest) = Decoded(decodeFixed(t, e), Len(e))
  <1>1. SubSeq(e \o rest, 1, Len(e)) = e
    BY Prefix
  <1>2. Len(e \o rest) = Len(e) + Len(rest) /\ Len(rest) \in Nat
    BY Parts, LenProperties
  <1>3. TypeSize(t) # 0 /\ ~(TypeSize(t) < 0) /\ ~(Len(e \o rest) < TypeSize(t))
    BY <1>2
  <1> QED BY <1>1, <1>3, Zenon DEF DecodeValue

\* What EncodeValue does for a type it can write, and e is what it returns.
IsUint(t) == TypeSize(t) \in 1 .. 6 /\ t \in Writable(TypeSize(t))

BoolCase(t, v, e) == t = 16 /\ e = <<IF v.n # 0 THEN 1 ELSE 0>>
UintCase(t, v, e) ==
    IsUint(t) /\ toUint64(v) /\ Whole(v) < Pow(TypeSize(t)) /\ e = Digits(Whole(v), TypeSize(t))
SignedCase(t, v, e) ==
    /\ t \in SignedTypes /\ 2 * Whole(v) >= -Pow(TypeSize(t)) /\ 2 * Whole(v) < Pow(TypeSize(t))
    /\ e = Digits(Whole(v), TypeSize(t))
FloatCase(t, v, e) == \/ t = 57 /\ e = FloatBits(float32(v), 4)
                      \/ t = 58 /\ e = FloatBits(float64(v), 8)
AddressCase(t, v, e) == t = 240 /\ Len(v.s) = 8 /\ e = v.s
StringCase(t, v, e, p) ==
    /\ (p = 1 /\ t \in {65, 66}) \/ (p = 2 /\ t \in {67, 68})
    /\ ~(Len(v.s) > Pow(p) - 2) /\ e = Digits(Len(v.s), p) \o v.s

\* The types of the cases exclude each other.
LEMMA UintFacts ==
    ASSUME NEW t, IsUint(t)
    PROVE  t \in Nat /\ t \notin {0, 16, 40, 41, 42, 43, 56, 57, 58, 240, 65, 66, 67, 68}
  BY AnyUintType DEF IsUint, Writable

\* EncodeValue without an error is one of the cases.
LEMMA EncodeCases ==
    ASSUME NEW t, NEW v, EncodeValue(t, v) # Err
    PROVE  LET e == EncodeValue(t, v)
           IN  \/ BoolCase(t, v, e) \/ UintCase(t, v, e) \/ SignedCase(t, v, e)
               \/ t = 56 \/ FloatCase(t, v, e) \/ AddressCase(t, v, e)
               \/ StringCase(t, v, e, 1) \/ StringCase(t, v, e, 2)
  <1> DEFINE e == EncodeValue(t, v)
  <1> USE DEF TypeBool, TypeFloat16, TypeOctetStr, TypeCharStr, TypeOctetStr16, TypeCharStr16
  <1>0. \A x \in SignedTypes : x \in {40, 41, 42, 43}
    BY DEF SignedTypes
  <1>1. CASE t = 16
    <2>1. ~IsUint(t) /\ t \notin SignedTypes
      BY <1>0, <1>1, UintFacts
    <2>2. e = IF toBool(v) THEN <<IF v.n # 0 THEN 1 ELSE 0>> ELSE Err
      BY <1>1, <2>1 DEF EncodeValue, IsUint
    <2> QED BY <1>1, <2>2 DEF BoolCase
  <1>2. CASE IsUint(t)
    <2>1. t \notin {16, 56, 57, 58, 240, 65, 66, 67, 68} /\ t \notin SignedTypes
      BY <1>0, <1>2, UintFacts
    <2>2. e = IF toUint64(v) /\ Whole(v) < Pow(TypeSize(t)) THEN Digits(Whole(v), TypeSize(t)) ELSE Err
      BY <1>2, <2>1 DEF EncodeValue, IsUint
    <2> QED BY <1>2, <2>2 DEF UintCase
  <1>3. CASE t \in SignedTypes
    <2>1. t \notin {16, 56, 57, 58, 240, 65, 66, 67, 68} /\ ~IsUint(t)
      BY <1>0, <1>3, UintFacts
    <2>2. e = IF toInt64(v) /\ 2 * Whole(v) >= -Pow(TypeSize(t)) /\ 2 * Whole(v) < Pow(TypeSize(t))
              THEN Digits(Whole(v), TypeSize(t)) ELSE Err
      BY <1>3, <2>1 DEF EncodeValue, IsUint
    <2> QED BY <1>3, <2>2 DEF SignedCase
  <1>4. CASE t = 56
    BY <1>4
  <1>9. CASE t = 57 \/ t = 58
    <2>1. ~IsUint(t) /\ t \notin SignedTypes
      BY <1>0, <1>9, UintFacts
    <2>2. e = IF ~toFloat64(v) THEN Err ELSE IF t = 57 THEN FloatBits(float32(v), 4) ELSE FloatBits(float64(v), 8)
      BY <1>9, <2>1 DEF EncodeValue, IsUint
    <2> QED BY <1>9, <2>2 DEF FloatCase
  <1>5. CASE t = 240
    <2>1. ~IsUint(t) /\ t \notin SignedTypes
      BY <1>0, <1>5, UintFacts
    <2>2. e = IF v.go \in {"[8]byte", "[]byte"} /\ Len(v.s) = 8 THEN v.s ELSE Err
      BY <1>5, <2>1 DEF EncodeValue, IsUint
    <2> QED BY <1>5, <2>2 DEF AddressCase
  <1>6. CASE t \in {65, 66}
    <2>1. ~IsUint(t) /\ t \notin SignedTypes
      BY <1>0, <1>6, UintFacts
    <2>2. \E go : e = encodeString(1, v, go)
      BY <1>6, <2>1 DEF EncodeValue, IsUint
    <2> QED BY <1>6, <2>2 DEF encodeString, StringCase
  <1>7. CASE t \in {67, 68}
    <2>1. ~IsUint(t) /\ t \notin SignedTypes
      BY <1>0, <1>7, UintFacts
    <2>2. \E go : e = encodeString(2, v, go)
      BY <1>7, <2>1 DEF EncodeValue, IsUint
    <2> QED BY <1>7, <2>2 DEF encodeString, StringCase
  <1>8. CASE t \notin {16, 56, 57, 58, 240, 65, 66, 67, 68} /\ t \notin SignedTypes /\ ~IsUint(t)
    <2>1. e = Err
      BY <1>8 DEF EncodeValue, IsUint
    <2> QED BY <2>1
  <1> QED BY <1>1, <1>2, <1>3, <1>4, <1>5, <1>6, <1>7, <1>8, <1>9

goString(t) == IF t \in {TypeCharStr, TypeCharStr16} THEN "string" ELSE "[]byte"

\* s is a string that fits into an attribute of type t, whose length has p
\* digits, and it comes back whatever follows it.
StringFits(S, t, p, s) ==
    /\ (p = 1 /\ t \in {65, 66}) \/ (p = 2 /\ t \in {67, 68})
    /\ s \in Seq(S) /\ ~(Len(s) > Pow(p) - 2)
StringDecodes(t, p, s, rest) ==
    DecodeValue(t, (Digits(Len(s), p) \o s) \o rest)
        = Decoded(GoBytes(goString(t), s), Len(Digits(Len(s), p) \o s))

\* A string is decoded by the length before it.
LEMMA StringRoundTrip ==
    ASSUME NEW S, Digit \subseteq S, NEW t, NEW p \in {1, 2}, NEW s, StringFits(S, t, p, s), NEW rest \in Seq(S)
    PROVE  StringDecodes(t, p, s, rest)
  <1>0. /\ (p = 1 /\ t \in {65, 66}) \/ (p = 2 /\ t \in {67, 68})
        /\ s \in Seq(S) /\ ~(Len(s) > Pow(p) - 2)
    BY DEF StringFits
  <1> DEFINE dg == Digits(Len(s), p)
             sr == s \o rest
             data == dg \o sr
  <1>1. Len(s) \in Nat /\ Len(rest) \in Nat /\ p \in Nat /\ Pow(p) \in Nat
    <2>1. Len(s) \in Nat /\ Len(rest) \in Nat
      BY <1>0, LenProperties
    <2>2. p \in Nat
      OBVIOUS
    <2> QED BY <2>1, <2>2, NumberOfDigits
  <1>2. dg \in Seq(S) /\ Len(dg) = p
    <2>1. dg \in Seq(Digit) /\ Len(dg) = p
      BY <1>1, DigitsType
    <2> HIDE DEF dg
    <2> QED BY <2>1
  <1>3. Number(dg) = Len(s)
    <2>1. Len(s) \in Int /\ 0 <= Len(s) /\ Len(s) < Pow(p)
      BY <1>0, <1>1
    <2> QED BY <1>1, <2>1, NumberOfDigits
  <1> HIDE DEF dg
  <1>4. sr \in Seq(S) /\ Len(sr) = Len(s) + Len(rest)
    BY <1>0, Parts
  <1>5. (dg \o s) \o rest = data
    BY <1>0, <1>2, ConcatAssociative
  <1>6. SubSeq(data, Len(dg) + 1, Len(dg) + Len(s)) = s
    BY <1>0, <1>2, Middle
  <1> HIDE DEF sr
  <1>7. Len(data) = Len(dg) + Len(sr) /\ SubSeq(data, 1, Len(dg)) = dg
    BY <1>2, <1>4, Parts, Prefix
  <1> HIDE DEF data
  <1>8. SubSeq(data, 1, p) = dg /\ SubSeq(data, p + 1, p + Len(s)) = s
    BY <1>2, <1>6, <1>7
  <1>9. p # 0 /\ ~(Len(data) < p) /\ Len(s) # Pow(p) - 1 /\ ~(Len(data) < p + Len(s))
    BY <1>0, <1>1, <1>2, <1>4, <1>7
  <1>10. t \in StringTypes
    BY <1>0 DEF StringTypes, TypeOctetStr, TypeCharStr, TypeOctetStr16, TypeCharStr16
  <1>11. TypeSize(t) # 0 /\ TypeSize(t) < 0
    BY <1>10, TypeSizes
  <1>12. DecodeValue(t, data) = decodeVariableValue(t, data)
    BY <1>11, Zenon DEF DecodeValue
  <1> DEFINE prefix == CASE t \in {TypeOctetStr, TypeCharStr} -> 1
                         [] t \in {TypeOctetStr16, TypeCharStr16} -> 2 [] OTHER -> 0
  <1>13. prefix = p
    BY <1>0 DEF TypeOctetStr, TypeCharStr, TypeOctetStr16, TypeCharStr16
  <1>14. decodeVariableValue(t, data) =
           IF prefix = 0 \/ Len(data) < prefix THEN Err
           ELSE IF Number(SubSeq(data, 1, prefix)) = Pow(prefix) - 1 THEN Decoded(Nil, prefix)
           ELSE IF Len(data) < prefix + Number(SubSeq(data, 1, prefix)) THEN Err
           ELSE Decoded(GoBytes(goString(t), SubSeq(data, prefix + 1, prefix + Number(SubSeq(data, 1, prefix)))),
                        prefix + Number(SubSeq(data, 1, prefix)))
    BY Zenon DEF decodeVariableValue, goString
  <1> HIDE DEF prefix
  <1>15. decodeVariableValue(t, data) = Decoded(GoBytes(goString(t), s), p + Len(s))
    BY <1>3, <1>8, <1>9, <1>13, <1>14, Zenon
  <1>16. Len(dg \o s) = p + Len(s)
    BY <1>0, <1>2, Parts
  <1> QED BY <1>5, <1>12, <1>15, <1>16, Zenon DEF dg, StringDecodes

\* val is what is left of v in an attribute of type t.
Means(t, v, val) ==
    CASE t \in StringTypes \cup {240} -> val.s = v.s
      [] t = 57 -> val.s = FloatBits(float32(v), 4)
      [] t = 58 -> val.s = FloatBits(float64(v), 8)
      [] t = TypeBool -> val.n = IF v.n # 0 THEN 1 ELSE 0
      [] OTHER -> val.n = Whole(v)

\* Of a value that EncodeValue accepts, DecodeValue makes of the bytes the
\* value again, to the last digit and with its sign, and it takes just those
\* bytes from whatever follows: of what is written to an integer type the whole
\* part, for a fraction is dropped without an error, of what is written to a
\* float type the float nearest to it, of what is written as a bool whether it
\* is zero.  In any base, so for every width of a byte.  Float16 is left out,
\* EncodeValue cuts it without a check.
THEOREM ValueRoundTrip ==
    ASSUME NEW t, NEW v \in GoValue, NEW rest \in Seq(Digit),
           EncodeValue(t, v) # Err, t # TypeFloat16
    PROVE  LET e == EncodeValue(t, v)
           IN  \E val : DecodeValue(t, e \o rest) = Decoded(val, Len(e)) /\ Means(t, v, val)
  <1> DEFINE e == EncodeValue(t, v)
             Goal == \E val : DecodeValue(t, e \o rest) = Decoded(val, Len(e)) /\ Means(t, v, val)
  <1> SUFFICES Goal
    OBVIOUS
  <1>0. v.n \in Int /\ v.s \in Seq(Digit) /\ (v.go \in {"uint8", "uint16", "uint32", "uint64"} => v.n >= 0)
    BY DEF GoValue
  <1>1. t # 56 /\ TypeBool = 16 /\ StringTypes = {65, 66, 67, 68} /\ \A x \in SignedTypes : x \in {40, 41, 42, 43}
    BY DEF TypeFloat16, TypeBool, StringTypes, SignedTypes, TypeOctetStr, TypeCharStr, TypeOctetStr16, TypeCharStr16
  <1>11. Whole(v) \in Int /\ float64(v) \in Int /\ float32(v) \in Int /\ (v.n >= 0 => Whole(v) >= 0)
    BY <1>0, ValueNumbers
  <1>2. CASE BoolCase(t, v, e)
    <2> USE DEF BoolCase
    <2> DEFINE b == IF v.n # 0 THEN 1 ELSE 0
               val == Go("bool", b)
    <2>1. b \in Digit /\ (IF b # 0 THEN 1 ELSE 0) = b
      BY BaseFacts DEF Digit
    <2> HIDE DEF b
    <2>0. e = <<b>>
      BY <1>2 DEF b
    <2> HIDE DEF e
    <2>2. e \in Seq(Digit) /\ Len(e) = 1 /\ e[1] = b
      BY <2>0, <2>1, Tuples
    <2>3. TypeSize(t) \in 1 .. 8 /\ Len(e) = TypeSize(t)
      BY <1>2, <2>2, TypeSizes
    <2>4. DecodeValue(t, e \o rest) = Decoded(decodeFixed(t, e), Len(e))
      BY <2>2, <2>3, DecodesFixed
    <2>5. decodeFixed(t, e) = val
      BY <1>1, <1>2, <2>1, <2>2 DEF decodeFixed
    <2>6. val.n = b
      BY DEF Go
    <2>7. Means(t, v, val)
      BY <1>1, <1>2, <2>6 DEF Means, b
    <2> QED BY <2>4, <2>5, <2>7
  <1>3. CASE UintCase(t, v, e)
    <2> USE DEF UintCase
    <2> DEFINE k == TypeSize(t)
    <2>1. k \in 1 .. 8 /\ k \in Nat /\ Whole(v) >= 0
      BY <1>0, <1>3, <1>11 DEF IsUint, toUint64
    <2> HIDE DEF k
    <2>2. e \in Seq(Digit) /\ Len(e) = k /\ Number(e) = Whole(v)
      <3>1. e = Digits(Whole(v), k) /\ Whole(v) < Pow(k)
        BY <1>3 DEF k
      <3> HIDE DEF e
      <3> QED BY <1>11, <2>1, <3>1, DigitsType, NumberOfDigits
    <2> HIDE DEF e
    <2>3. DecodeValue(t, e \o rest) = Decoded(decodeFixed(t, e), Len(e))
      BY <2>1, <2>2, DecodesFixed DEF k
    <2>4. t \notin {16, 57, 58, 240, 65, 66, 67, 68} /\ t \notin SignedTypes
      BY <1>1, <1>3, UintFacts
    <2>5. decodeFixed(t, e) = Go(uintName(Len(e)), Number(e))
      BY <1>1, <2>4 DEF decodeFixed
    <2>6. decodeFixed(t, e).n = Whole(v)
      BY <2>2, <2>5 DEF Go
    <2>7. Means(t, v, decodeFixed(t, e))
      BY <1>1, <2>4, <2>6 DEF Means
    <2> QED BY <2>3, <2>7
  <1>4. CASE SignedCase(t, v, e)
    <2> USE DEF SignedCase
    <2> DEFINE k == TypeSize(t)
    <2>1. k \in 1 .. 8 /\ k \in Nat
      BY <1>4, TypeSizes
    <2> HIDE DEF k
    <2>2. e \in Seq(Digit) /\ Len(e) = k /\ Signed(e) = Whole(v)
      <3>1. e = Digits(Whole(v), k) /\ 2 * Whole(v) >= -Pow(k) /\ 2 * Whole(v) < Pow(k)
        BY <1>4 DEF k
      <3> HIDE DEF e
      <3> QED BY <1>11, <2>1, <3>1, DigitsType, SignedOfDigits
    <2> HIDE DEF e
    <2>3. DecodeValue(t, e \o rest) = Decoded(decodeFixed(t, e), Len(e))
      BY <2>1, <2>2, DecodesFixed DEF k
    <2>4. t \notin {16, 57, 58, 240, 65, 66, 67, 68}
      BY <1>1, <1>4
    <2>5. decodeFixed(t, e) = Go(intName(Len(e)), Signed(e))
      BY <1>1, <1>4, <2>4 DEF decodeFixed
    <2>6. decodeFixed(t, e).n = Whole(v)
      BY <2>2, <2>5 DEF Go
    <2>7. Means(t, v, decodeFixed(t, e))
      BY <1>1, <2>4, <2>6 DEF Means
    <2> QED BY <2>3, <2>7
  <1>12. CASE FloatCase(t, v, e)
    <2>1. PICK h \in Int, size \in {4, 8} :
            e = FloatBits(h, size) /\ <<t, h, size>> \in {<<57, float32(v), 4>>, <<58, float64(v), 8>>}
      BY <1>11, <1>12 DEF FloatCase
    <2>2. e \in Seq(Digit) /\ Len(e) = size
      BY <2>1, FloatBitsType
    <2>3. t \in {57, 58} /\ TypeSize(t) = size /\ size \in 1 .. 8
      BY <2>1, TypeSizes
    <2> HIDE DEF e
    <2>4. DecodeValue(t, e \o rest) = Decoded(decodeFixed(t, e), Len(e))
      BY <2>2, <2>3, DecodesFixed
    <2>5. decodeFixed(t, e).s = e
      BY <1>1, <2>3 DEF decodeFixed, GoBytes
    <2>6. Means(t, v, decodeFixed(t, e))
      BY <1>1, <2>1, <2>5 DEF Means
    <2> QED BY <2>4, <2>6
  <1>5. CASE AddressCase(t, v, e)
    <2> USE DEF AddressCase
    <2> HIDE DEF e
    <2>0. e \in Seq(Digit) /\ Len(e) = 8
      BY <1>0, <1>5
    <2>9. TypeSize(t) = 8
      BY <1>5, TypeSizes, Zenon
    <2>1. TypeSize(t) \in 1 .. 8 /\ Len(e) = TypeSize(t)
      BY <2>0, <2>9
    <2>2. DecodeValue(t, e \o rest) = Decoded(decodeFixed(t, e), Len(e))
      BY <2>0, <2>1, DecodesFixed
    <2>3. decodeFixed(t, e) = GoBytes("[8]byte", e)
      BY <1>1, <1>5 DEF decodeFixed
    <2>4. decodeFixed(t, e).s = v.s
      BY <1>5, <2>3 DEF GoBytes
    <2>5. Means(t, v, decodeFixed(t, e))
      BY <1>1, <1>5, <2>4 DEF Means
    <2> QED BY <2>2, <2>5
  <1>6. ASSUME NEW p \in {1, 2}, StringCase(t, v, e, p) PROVE Goal
    <2> DEFINE s == v.s
               val == GoBytes(goString(t), s)
    <2>1. s \in Seq(Digit) /\ ~(Len(s) > Pow(p) - 2) /\ e = Digits(Len(s), p) \o s
      BY <1>0, <1>6 DEF StringCase
    <2>2. (p = 1 /\ t \in {65, 66}) \/ (p = 2 /\ t \in {67, 68})
      BY <1>6 DEF StringCase
    <2> HIDE DEF s, e
    <2>3. DecodeValue(t, (Digits(Len(s), p) \o s) \o rest) = Decoded(val, Len(Digits(Len(s), p) \o s))
      <3>1. StringFits(Digit, t, p, s)
        BY <2>1, <2>2, Zenon DEF StringFits
      <3>2. StringDecodes(t, p, s, rest)
        BY <3>1, StringRoundTrip
      <3> QED BY <3>2, Zenon DEF StringDecodes
    <2>4. DecodeValue(t, e \o rest) = Decoded(val, Len(e))
      BY <2>1, <2>3, Zenon
    <2>5. val.s = s
      BY DEF GoBytes
    <2>6. Means(t, v, val)
      BY <1>1, <2>2, <2>5 DEF Means, s
    <2> QED BY <2>4, <2>6
  <1>7. 1 \in {1, 2} /\ 2 \in {1, 2} /\ t # 56
    BY <1>1
  <1> HIDE DEF Goal
  <1>8. StringCase(t, v, e, 1) => Goal
    BY <1>6, <1>7, Zenon
  <1>9. StringCase(t, v, e, 2) => Goal
    BY <1>6, <1>7, Zenon
  <1>10. \/ BoolCase(t, v, e) \/ UintCase(t, v, e) \/ SignedCase(t, v, e)
         \/ FloatCase(t, v, e) \/ AddressCase(t, v, e) \/ StringCase(t, v, e, 1) \/ StringCase(t, v, e, 2)
    BY <1>7, EncodeCases, Zenon
  <1> QED BY <1>2, <1>3, <1>4, <1>5, <1>8, <1>9, <1>10, <1>12, Zenon

\* Of the recursive functions whose argument has a lower rank in the next call
\* there is one: x stops with c[x], or goes on with H[x] of what next[x] gives.
Ranked(Dom, D, stop, c, next_, H, f) ==
    f \in [Dom -> D] /\ \A x \in Dom : f[x] = IF x \in stop THEN c[x] ELSE H[x][f[next_[x]]]

LEMMA RankedExists ==
    ASSUME NEW Dom, NEW D, NEW N \in Nat, NEW rank \in [Dom -> 0 .. N], NEW stop, NEW c \in [Dom -> D],
           NEW nxt \in [Dom -> Dom], NEW H \in [Dom -> [D -> D]],
           \A x \in Dom : x \notin stop => rank[nxt[x]] < rank[x]
    PROVE  \E f : Ranked(Dom, D, stop, c, nxt, H, f)
  <1> DEFINE Good(f, x) == f[x] = IF x \in stop THEN c[x] ELSE H[x][f[nxt[x]]]
             S == {k \in 0 .. N : \E f \in [Dom -> D] : \A x \in Dom : rank[x] <= k => Good(f, x)}
  <1>1. 0 \in S
    <2>1. \A x \in Dom : rank[x] <= 0 => x \in stop
      OBVIOUS
    <2>2. \A x \in Dom : rank[x] <= 0 => Good(c, x)
      BY <2>1
    <2> QED BY <2>2
  <1>2. ASSUME NEW k \in 1 .. N, k - 1 \in S PROVE k \in S
    <2>1. PICK f \in [Dom -> D] : \A x \in Dom : rank[x] <= k - 1 => Good(f, x)
      BY <1>2
    <2> DEFINE g == [x \in Dom |-> IF rank[x] <= k - 1 THEN f[x]
                                   ELSE IF x \in stop THEN c[x] ELSE H[x][f[nxt[x]]]]
    <2>2. ASSUME NEW x \in Dom PROVE f[nxt[x]] \in D /\ c[x] \in D /\ H[x][f[nxt[x]]] \in D
      <3>1. nxt[x] \in Dom /\ H[x] \in [D -> D]
        OBVIOUS
      <3>2. f[nxt[x]] \in D
        BY <3>1
      <3> QED BY <3>1, <3>2
    <2>3. g \in [Dom -> D]
      BY <2>2
    <2>4. \A x \in Dom : rank[x] <= k - 1 => g[x] = f[x]
      OBVIOUS
    <2>5. \A x \in Dom : ~(rank[x] <= k - 1) => g[x] = IF x \in stop THEN c[x] ELSE H[x][f[nxt[x]]]
      OBVIOUS
    <2> HIDE DEF g
    <2>6. ASSUME NEW x \in Dom, rank[x] <= k PROVE Good(g, x)
      <3>0. nxt[x] \in Dom /\ rank[x] \in Int /\ rank[nxt[x]] \in Int
        OBVIOUS
      <3>1. CASE x \in stop
        BY <2>1, <2>4, <2>5, <3>1
      <3>2. CASE x \notin stop
        <4>1. rank[nxt[x]] <= k - 1
          BY <2>6, <3>0, <3>2
        <4>2. g[nxt[x]] = f[nxt[x]]
          BY <2>4, <3>0, <4>1
        <4> QED BY <2>1, <2>4, <2>5, <3>2, <4>2
      <3> QED BY <3>1, <3>2
    <2> QED BY <2>3, <2>6
  <1> HIDE DEF S
  <1>3. 0 .. N \subseteq S
    BY <1>1, <1>2, Upward
  <1>4. N \in S
    BY <1>3
  <1>5. PICK f \in [Dom -> D] : \A x \in Dom : rank[x] <= N => Good(f, x)
    BY <1>4 DEF S
  <1> HIDE DEF Good
  <1>6. \A x \in Dom : Good(f, x)
    BY <1>5
  <1> QED BY <1>5, <1>6 DEF Ranked, Good

-----------------------------------------------------------------------------
(* HDLC-Lite.                                                              *)

\* The bytes that are escaped, and the ones they are escaped to.
LEMMA EscapeXor ==
    /\ xor(126, 32) = 94 /\ xor(94, 32) = 126 /\ xor(125, 32) = 93 /\ xor(93, 32) = 125
  <1> DEFINE bit(a, b, k) == k * (((a \div k) + (b \div k)) % 2)
  <1>1. \A a, b \in 0 .. 15 :
          XorNibble[<<a, b>>] = bit(a, b, 1) + bit(a, b, 2) + bit(a, b, 4) + bit(a, b, 8)
    BY DEF XorNibble
  <1>2. /\ XorNibble[<<0, 0>>] = 0 /\ XorNibble[<<14, 0>>] = 14 /\ XorNibble[<<13, 0>>] = 13
        /\ XorNibble[<<7, 2>>] = 5 /\ XorNibble[<<5, 2>>] = 7
    BY <1>1
  <1>3. /\ (126 \div 1) % 16 = 14 /\ (126 \div 16) % 16 = 7 /\ (126 \div 256) % 16 = 0 /\ (126 \div 4096) % 16 = 0
        /\ (125 \div 1) % 16 = 13 /\ (125 \div 16) % 16 = 7 /\ (125 \div 256) % 16 = 0 /\ (125 \div 4096) % 16 = 0
        /\ (94 \div 1) % 16 = 14 /\ (94 \div 16) % 16 = 5 /\ (94 \div 256) % 16 = 0 /\ (94 \div 4096) % 16 = 0
        /\ (93 \div 1) % 16 = 13 /\ (93 \div 16) % 16 = 5 /\ (93 \div 256) % 16 = 0 /\ (93 \div 4096) % 16 = 0
        /\ (32 \div 1) % 16 = 0 /\ (32 \div 16) % 16 = 2 /\ (32 \div 256) % 16 = 0 /\ (32 \div 4096) % 16 = 0
    OBVIOUS
  <1> QED BY <1>2, <1>3 DEF xor

\* One step of the two loops, as functions of what is left and of what is done.
UnescapeStep(data, f, i) ==
    IF i > Len(data) THEN <<>>
    ELSE IF data[i] # hdlcEscape THEN <<data[i]>> \o f[i + 1]
    ELSE IF i = Len(data) THEN <<>>
    ELSE <<xor(data[i + 1], \h20)>> \o f[i + 2]
Unescape(data) == CHOOSE f : f = [i \in 1 .. Len(data) + 2 |-> UnescapeStep(data, f, i)]

escape(b) == IF b \in {hdlcFlag, hdlcEscape} THEN <<hdlcEscape, xor(b, \h20)>> ELSE <<b>>

LEMMA HdlcDecodes ==
    ASSUME NEW data
    PROVE  LET raw == Unescape(data)[1]
               payload == SubSeq(raw, 1, Len(raw) - 2)
           IN  hdlcDecode(data) =
                 IF Len(raw) < 2 THEN Err
                 ELSE IF Uint16(raw[Len(raw) - 1], raw[Len(raw)]) # hdlcFCS16(payload) THEN Err
                 ELSE payload
  BY DEF hdlcDecode, Unescape, UnescapeStep

LEMMA UnescapeSteps ==
    ASSUME NEW data \in Seq(Byte), NEW i \in 1 .. Len(data) + 2
    PROVE  Unescape(data)[i] = UnescapeStep(data, Unescape(data), i)
  <1> DEFINE Dom == 1 .. Len(data) + 2
             D == Seq(Byte)
             N == Len(data) + 2
             stop == {k \in Dom : k > Len(data) \/ (data[k] = hdlcEscape /\ k = Len(data))}
             rank == [k \in Dom |-> N - k]
             c == [k \in Dom |-> <<>>]
             nxt == [k \in Dom |-> IF k \in stop THEN k ELSE IF data[k] # hdlcEscape THEN k + 1 ELSE k + 2]
             b == [k \in Dom |-> IF k \in stop THEN 0 ELSE IF data[k] # hdlcEscape THEN data[k] ELSE xor(data[k + 1], 32)]
             H == [k \in Dom |-> [x \in D |-> <<b[k]>> \o x]]
  <1>1. N \in Nat /\ rank \in [Dom -> 0 .. N]
    OBVIOUS
  <1>2. c \in [Dom -> D]
    OBVIOUS
  <1>3. nxt \in [Dom -> Dom]
    OBVIOUS
  <1>4. b \in [Dom -> Byte]
    <2>1. ASSUME NEW k \in Dom, k \notin stop PROVE data[k] \in Byte /\ (data[k] = hdlcEscape => xor(data[k + 1], 32) \in Byte)
      <3>1. k \in 1 .. Len(data) /\ (data[k] = hdlcEscape => k + 1 \in 1 .. Len(data))
        BY <2>1
      <3>2. data[k] \in Byte /\ (data[k] = hdlcEscape => data[k + 1] \in Byte)
        BY <3>1, ElementOfSeq
      <3>3. 32 \in Byte /\ 32 \in Int /\ \A x \in Byte : x \in Int
        BY ByteFacts
      <3> QED BY <3>2, <3>3, XorType
    <2>2. 0 \in Byte
      BY ByteFacts
    <2> QED BY <2>1, <2>2
  <1> HIDE DEF b
  <1>5. H \in [Dom -> [D -> D]]
    <2>1. ASSUME NEW k \in Dom, NEW x \in D PROVE <<b[k]>> \o x \in D
      BY <1>4
    <2> QED BY <2>1
  <1>6. \A x \in Dom : x \notin stop => rank[nxt[x]] < rank[x]
    OBVIOUS
  <1> HIDE DEF rank, nxt, c, H, stop, D, N
  <1>7. PICK f : Ranked(Dom, D, stop, c, nxt, H, f)
    BY <1>1, <1>2, <1>3, <1>5, <1>6, RankedExists
  <1>8. f \in [Dom -> D] /\ \A x \in Dom : f[x] = IF x \in stop THEN c[x] ELSE H[x][f[nxt[x]]]
    BY <1>7 DEF Ranked
  <1>9. ASSUME NEW k \in Dom PROVE f[k] = UnescapeStep(data, f, k)
    <2>1. CASE k \in stop
      BY <1>8, <2>1 DEF stop, c, UnescapeStep
    <2>2. CASE k \notin stop
      <3>1. nxt[k] \in Dom /\ f[nxt[k]] \in D
        BY <1>3, <1>8
      <3>2. f[k] = <<b[k]>> \o f[nxt[k]]
        BY <1>8, <2>2, <3>1 DEF H
      <3>3. k <= Len(data) /\ (data[k] = hdlcEscape => k # Len(data))
        BY <2>2 DEF stop
      <3>4. CASE data[k] # hdlcEscape
        <4>1. nxt[k] = k + 1 /\ b[k] = data[k]
          BY <2>2, <3>4 DEF nxt, b
        <4> QED BY <3>2, <3>3, <3>4, <4>1 DEF UnescapeStep
      <3>5. CASE data[k] = hdlcEscape
        <4>1. nxt[k] = k + 2 /\ b[k] = xor(data[k + 1], 32)
          BY <2>2, <3>5 DEF nxt, b
        <4> QED BY <3>2, <3>3, <3>5, <4>1 DEF UnescapeStep
      <3> QED BY <3>4, <3>5
    <2> QED BY <2>1, <2>2
  <1>10. f = [k \in Dom |-> UnescapeStep(data, f, k)]
    BY <1>8, <1>9
  <1>11. Unescape(data) = [k \in Dom |-> UnescapeStep(data, Unescape(data), k)]
    BY <1>10, Zenon DEF Unescape
  <1> QED BY <1>11

\* B[i] is the first i bytes of raw, escaped.
IsStuffing(raw, B) ==
    /\ B \in [0 .. Len(raw) -> Seq(Byte)] /\ B[0] = <<>>
    /\ \A i \in 1 .. Len(raw) : B[i] = B[i - 1] \o escape(raw[i])
Escaped(raw) == CHOOSE f : f = [i \in 0 .. Len(raw) |->
                                  IF i = 0 THEN <<hdlcFlag>> ELSE f[i - 1] \o escape(raw[i])]

\* An escaped byte has no flag in it, and unescapes.
LEMMA EscapeFacts ==
    ASSUME NEW b \in Byte
    PROVE  /\ escape(b) \in Seq(Byte) /\ Len(escape(b)) \in {1, 2}
           /\ \A i \in 1 .. Len(escape(b)) : escape(b)[i] # hdlcFlag
           /\ Len(escape(b)) = 1 => escape(b)[1] = b /\ b # hdlcEscape
           /\ Len(escape(b)) = 2 => escape(b)[1] = hdlcEscape /\ xor(escape(b)[2], 32) = b
  <1>1. CASE b = 126
    <2>1. escape(b) = <<125, 94>>
      BY <1>1, EscapeXor DEF escape, hdlcFlag, hdlcEscape
    <2>2. 125 \in Byte /\ 94 \in Byte
      BY ByteFacts
    <2>3. escape(b) \in Seq(Byte) /\ Len(escape(b)) = 2 /\ escape(b)[1] = 125 /\ escape(b)[2] = 94
      BY <2>1, <2>2, Tuples
    <2> QED BY <1>1, <2>3, EscapeXor DEF hdlcFlag, hdlcEscape
  <1>2. CASE b = 125
    <2>1. escape(b) = <<125, 93>>
      BY <1>2, EscapeXor DEF escape, hdlcFlag, hdlcEscape
    <2>2. 125 \in Byte /\ 93 \in Byte
      BY ByteFacts
    <2>3. escape(b) \in Seq(Byte) /\ Len(escape(b)) = 2 /\ escape(b)[1] = 125 /\ escape(b)[2] = 93
      BY <2>1, <2>2, Tuples
    <2> QED BY <1>2, <2>3, EscapeXor DEF hdlcFlag, hdlcEscape
  <1>3. CASE b # 126 /\ b # 125
    <2>1. escape(b) = <<b>>
      BY <1>3 DEF escape, hdlcFlag, hdlcEscape
    <2> QED BY <1>3, <2>1 DEF hdlcFlag, hdlcEscape
  <1> QED BY <1>1, <1>2, <1>3

LEMMA StuffingExists ==
    ASSUME NEW raw \in Seq(Byte)
    PROVE  \E B : IsStuffing(raw, B)
  <1> DEFINE D == Seq(Byte)
             n == Len(raw)
             G == [i \in 1 .. n |-> [x \in D |-> x \o escape(raw[i])]]
  <1>1. ASSUME NEW i \in 1 .. n, NEW x \in D PROVE x \o escape(raw[i]) \in D
    <2>1. raw[i] \in Byte
      OBVIOUS
    <2>2. escape(raw[i]) \in Seq(Byte)
      BY <2>1, EscapeFacts
    <2> QED BY <2>2
  <1>2. G \in [1 .. n -> [D -> D]] /\ <<>> \in D /\ n \in Nat
    BY <1>1
  <1> HIDE DEF G, D, n
  <1>3. PICK B : Recursive(D, n, <<>>, G, B)
    BY <1>2, RecursionExists
  <1>4. ASSUME NEW i \in 1 .. n PROVE B[i] = B[i - 1] \o escape(raw[i])
    <2>1. i - 1 \in 0 .. n
      BY <1>2
    <2>2. B[i - 1] \in D /\ B[i] = G[i][B[i - 1]]
      BY <1>3, <2>1 DEF Recursive
    <2> QED BY <2>2 DEF G
  <1> QED BY <1>3, <1>4 DEF Recursive, IsStuffing, n, D

LEMMA FlagIsByte == hdlcFlag \in Byte /\ hdlcEscape \in Byte /\ hdlcFlag # hdlcEscape
  BY ByteFacts DEF hdlcFlag, hdlcEscape

\* hdlcEncode puts the escaped bytes between two flags.
LEMMA EscapedIs ==
    ASSUME NEW B, NEW raw \in Seq(Byte), IsStuffing(raw, B)
    PROVE  Append(Escaped(raw)[Len(raw)], hdlcFlag) = <<hdlcFlag>> \o (B[Len(raw)] \o <<hdlcFlag>>)
  <1> DEFINE n == Len(raw)
             E == Escaped(raw)
             S == {i \in 0 .. n : E[i] = <<hdlcFlag>> \o B[i]}
             f == [i \in 0 .. n |-> <<hdlcFlag>> \o B[i]]
  <1>1. n \in Nat /\ B \in [0 .. n -> Seq(Byte)] /\ B[0] = <<>>
    <2>1. n \in Nat
      BY LenProperties
    <2> QED BY <2>1, Zenon DEF IsStuffing
  <1>2. hdlcFlag \in Byte /\ <<hdlcFlag>> \in Seq(Byte)
    BY FlagIsByte, Tuples
  <1>3. ASSUME NEW i \in 1 .. n
        PROVE  /\ i - 1 \in 0 .. n /\ i \in 0 .. n
               /\ <<hdlcFlag>> \o B[i] = (<<hdlcFlag>> \o B[i - 1]) \o escape(raw[i])
    <2>1. i - 1 \in 0 .. n /\ i \in 0 .. n /\ raw[i] \in Byte
      BY <1>1
    <2>2. B[i - 1] \in Seq(Byte) /\ escape(raw[i]) \in Seq(Byte)
      BY <1>1, <2>1, EscapeFacts
    <2>3. B[i] = B[i - 1] \o escape(raw[i])
      BY Zenon DEF IsStuffing
    <2>4. (<<hdlcFlag>> \o B[i - 1]) \o escape(raw[i]) = <<hdlcFlag>> \o B[i]
      <3>1. \A x, y \in Seq(Byte) : (<<hdlcFlag>> \o x) \o y = <<hdlcFlag>> \o (x \o y)
        <4> DEFINE F == <<hdlcFlag>>
        <4>1. F \in Seq(Byte)
          BY <1>2
        <4> HIDE DEF F
        <4>2. \A x, y \in Seq(Byte) : (F \o x) \o y = F \o (x \o y)
          BY <4>1, Assoc
        <4> QED BY <4>2, Zenon DEF F
      <3>2. (<<hdlcFlag>> \o B[i - 1]) \o escape(raw[i]) = <<hdlcFlag>> \o (B[i - 1] \o escape(raw[i]))
        BY <2>2, <3>1, Zenon
      <3> QED BY <2>3, <3>2, Zenon
    <2> QED BY <2>1, <2>4
  <1>4. <<hdlcFlag>> \o B[0] = <<hdlcFlag>>
    BY <1>1, <1>2, ConcatEmptySeq
  <1>5. f = [i \in 0 .. n |-> IF i = 0 THEN <<hdlcFlag>> ELSE f[i - 1] \o escape(raw[i])]
    <2>1. \A i \in 0 .. n : f[i] = <<hdlcFlag>> \o B[i]
      OBVIOUS
    <2>2. ASSUME NEW i \in 0 .. n
          PROVE  <<hdlcFlag>> \o B[i] = IF i = 0 THEN <<hdlcFlag>> ELSE f[i - 1] \o escape(raw[i])
      <3>1. CASE i = 0
        BY <1>4, <3>1
      <3>2. CASE i # 0
        <4>1. i \in 1 .. n
          BY <1>1, <3>2
        <4>2. f[i - 1] = <<hdlcFlag>> \o B[i - 1]
          BY <1>3, <2>1, <4>1
        <4> HIDE DEF f
        <4> QED BY <1>3, <3>2, <4>1, <4>2
      <3> QED BY <3>1, <3>2
    <2> QED BY <2>2
  <1> HIDE DEF f
  <1>6. E = [i \in 0 .. n |-> IF i = 0 THEN <<hdlcFlag>> ELSE E[i - 1] \o escape(raw[i])]
    BY <1>5, Zenon DEF Escaped
  <1> HIDE DEF E
  <1>7. E[0] = <<hdlcFlag>> /\ \A i \in 1 .. n : E[i] = E[i - 1] \o escape(raw[i])
    BY <1>1, <1>6
  <1>8. 0 \in S
    <2>1. 0 \in 0 .. n
      BY <1>1
    <2> QED BY <1>4, <1>7, <2>1, Zenon
  <1>9. ASSUME NEW i \in 1 .. n, i - 1 \in S PROVE i \in S
    <2>1. E[i] = (<<hdlcFlag>> \o B[i - 1]) \o escape(raw[i])
      BY <1>7, <1>9, Zenon
    <2> QED BY <1>3, <2>1, Zenon
  <1> HIDE DEF S, n
  <1>10. n \in S
    <2>1. 0 .. n \subseteq S
      BY <1>1, <1>8, <1>9, Upward
    <2> QED BY <1>1, <2>1
  <1>11. E[n] = <<hdlcFlag>> \o B[n] /\ B[n] \in Seq(Byte) /\ <<hdlcFlag>> \o B[n] \in Seq(Byte)
    <2>1. B[n] \in Seq(Byte)
      BY <1>1
    <2> QED BY <1>2, <1>10, <2>1, Parts DEF S
  <1>12. Append(E[n], hdlcFlag) = (<<hdlcFlag>> \o B[n]) \o <<hdlcFlag>>
    BY <1>2, <1>11, AppendIsConcat
  <1>13. Append(E[n], hdlcFlag) = <<hdlcFlag>> \o (B[n] \o <<hdlcFlag>>)
    BY <1>2, <1>11, <1>12, Assoc
  <1> QED BY <1>13 DEF n, E

LEMMA HdlcEncodes ==
    ASSUME NEW data
    PROVE  LET raw == data \o LE16(hdlcFCS16(data))
           IN  hdlcEncode(data) = Append(Escaped(raw)[Len(raw)], hdlcFlag)
  BY DEF hdlcEncode, Escaped, escape

\* There is no flag among escaped bytes, and they are at most twice as many.
LEMMA StuffingHasNoFlag ==
    ASSUME NEW raw \in Seq(Byte), NEW B, IsStuffing(raw, B), NEW k \in 0 .. Len(raw)
    PROVE  /\ B[k] \in Seq(Byte) /\ k <= Len(B[k]) /\ Len(B[k]) <= 2 * k
           /\ \A j \in 1 .. Len(B[k]) : B[k][j] # hdlcFlag
  <1> DEFINE n == Len(raw)
             P(i) == /\ i <= Len(B[i]) /\ Len(B[i]) <= 2 * i
                     /\ \A j \in 1 .. Len(B[i]) : B[i][j] # hdlcFlag
             S == {i \in 0 .. n : P(i)}
  <1>1. n \in Nat /\ B[0] = <<>> /\ \A i \in 0 .. n : B[i] \in Seq(Byte)
    BY DEF IsStuffing
  <1>2. 0 \in S
    BY <1>1
  <1>3. ASSUME NEW i \in 1 .. n, i - 1 \in S PROVE i \in S
    <2> DEFINE a == B[i - 1]
               e == escape(raw[i])
    <2>1. a \in Seq(Byte) /\ i \in 0 .. n
      BY <1>1
    <2>2. i - 1 <= Len(a) /\ Len(a) <= 2 * (i - 1) /\ \A j \in 1 .. Len(a) : a[j] # hdlcFlag
      BY <1>3
    <2>3. e \in Seq(Byte) /\ Len(e) \in {1, 2} /\ \A j \in 1 .. Len(e) : e[j] # hdlcFlag
      <3>1. raw[i] \in Byte
        OBVIOUS
      <3> QED BY <3>1, EscapeFacts
    <2>4. B[i] = a \o e
      BY Zenon DEF IsStuffing
    <2> HIDE DEF a, e
    <2>5. /\ Len(a \o e) = Len(a) + Len(e) /\ \A j \in 1 .. Len(a) : (a \o e)[j] = a[j]
          /\ \A j \in 1 .. Len(e) : (a \o e)[Len(a) + j] = e[j]
      BY <2>1, <2>3, Parts
    <2>6. Len(a) \in Nat /\ Len(e) \in Nat
      BY <2>1, <2>3, LenProperties
    <2>7. ASSUME NEW j \in 1 .. Len(a \o e) PROVE (a \o e)[j] # hdlcFlag
      <3>1. CASE j <= Len(a)
        BY <2>2, <2>5, <2>6, <3>1
      <3>2. CASE ~(j <= Len(a))
        <4>1. j - Len(a) \in 1 .. Len(e) /\ Len(a) + (j - Len(a)) = j
          BY <2>5, <2>6, <3>2
        <4> QED BY <2>3, <2>5, <4>1
      <3> QED BY <3>1, <3>2
    <2>8. i <= Len(a \o e) /\ Len(a \o e) <= 2 * i
      <3>1. \A x, y \in Nat : (i - 1 <= x /\ x <= 2 * (i - 1) /\ y \in {1, 2}) => (i <= x + y /\ x + y <= 2 * i)
        OBVIOUS
      <3> QED BY <2>2, <2>3, <2>5, <2>6, <3>1, Zenon
    <2> QED BY <2>1, <2>4, <2>7, <2>8
  <1> HIDE DEF S
  <1>4. 0 .. n \subseteq S
    BY <1>1, <1>2, <1>3, Upward
  <1> QED BY <1>1, <1>4 DEF S

\* Unescaping is the inverse of escaping.
LEMMA StuffingUnescapes ==
    ASSUME NEW raw \in Seq(Byte), NEW B, IsStuffing(raw, B)
    PROVE  Unescape(B[Len(raw)])[1] = raw
  <1> DEFINE n == Len(raw)
             W == B[n]
             U == Unescape(W)
             S == {k \in 0 .. n : /\ \E t \in Seq(Byte) : W = B[k] \o t
                                  /\ U[Len(B[k]) + 1] = SubSeq(raw, k + 1, n)}
  <1>1. n \in Nat /\ B[0] = <<>> /\ \A i \in 0 .. n : B[i] \in Seq(Byte)
    BY DEF IsStuffing
  <1>2. W \in Seq(Byte)
    BY <1>1
  <1>3. \A i \in 1 .. Len(W) + 2 : U[i] = UnescapeStep(W, U, i)
    BY <1>2, UnescapeSteps
  <1> HIDE DEF W, U
  <1>4. n \in S
    <2>1. Len(W) \in Nat /\ Len(W) + 1 \in 1 .. Len(W) + 2 /\ Len(W) + 1 > Len(W)
      BY <1>2, LenProperties
    <2>2. U[Len(W) + 1] = <<>>
      BY <1>3, <2>1 DEF UnescapeStep
    <2>3. SubSeq(raw, n + 1, n) = <<>>
      BY <1>1, SubSeqEmpty
    <2>4. W = B[n] \o <<>> /\ <<>> \in Seq(Byte)
      BY <1>2, ConcatEmptySeq DEF W
    <2>5. W = B[n]
      BY DEF W
    <2>6. n \in 0 .. n
      BY <1>1
    <2> QED BY <2>2, <2>3, <2>4, <2>5, <2>6, Zenon
  <1>5. ASSUME NEW k \in 1 .. n, k \in S PROVE k - 1 \in S
    <2> DEFINE a == B[k - 1]
               e == escape(raw[k])
               p == Len(a) + 1
    <2>1. PICK t \in Seq(Byte) : W = B[k] \o t
      BY <1>5
    <2>2. U[Len(B[k]) + 1] = SubSeq(raw, k + 1, n)
      BY <1>5
    <2>3. a \in Seq(Byte) /\ k - 1 \in 0 .. n /\ raw[k] \in Byte
      BY <1>1
    <2>4. /\ e \in Seq(Byte) /\ Len(e) \in {1, 2}
          /\ Len(e) = 1 => e[1] = raw[k] /\ raw[k] # hdlcEscape
          /\ Len(e) = 2 => e[1] = hdlcEscape /\ xor(e[2], 32) = raw[k]
      BY <2>3, EscapeFacts
    <2>5. B[k] = a \o e
      BY Zenon DEF IsStuffing
    <2> HIDE DEF a, e
    <2>6. W = a \o (e \o t) /\ e \o t \in Seq(Byte)
      <3>1. a \in Seq(Byte) /\ e \in Seq(Byte)
        BY <2>3, <2>4
      <3>2. (a \o e) \o t = a \o (e \o t)
        BY <3>1, Assoc
      <3>3. e \o t \in Seq(Byte)
        BY <3>1, Parts
      <3> QED BY <2>1, <2>5, <3>2, <3>3
    <2>7. Len(a) \in Nat /\ Len(e) \in Nat /\ Len(t) \in Nat
      BY <2>3, <2>4, LenProperties
    <2>8. /\ Len(e \o t) = Len(e) + Len(t) /\ \A j \in 1 .. Len(e) : (e \o t)[j] = e[j]
      BY <2>4, Parts
    <2>9. Len(W) = Len(a) + Len(e \o t) /\ \A j \in 1 .. Len(e \o t) : W[Len(a) + j] = (e \o t)[j]
      BY <2>3, <2>6, Parts
    <2>10. ASSUME NEW j \in 1 .. Len(e) PROVE W[Len(a) + j] = e[j]
      <3>1. j \in 1 .. Len(e \o t)
        BY <2>7, <2>8
      <3> QED BY <2>8, <2>9, <3>1
    <2>11. Len(B[k]) = Len(a) + Len(e)
      BY <2>3, <2>4, <2>5, Parts
    <2>12. p \in 1 .. Len(W) + 2 /\ ~(p > Len(W)) /\ Len(W) = Len(a) + (Len(e) + Len(t))
      BY <2>4, <2>7, <2>8, <2>9
    <2>13. U[p] = UnescapeStep(W, U, p)
      BY <1>3, <2>12
    <2>14. U[p] = <<raw[k]>> \o SubSeq(raw, k + 1, n)
      <3>1. CASE Len(e) = 1
        <4>1. W[p] = raw[k] /\ raw[k] # hdlcEscape /\ p + 1 = Len(B[k]) + 1
          BY <2>4, <2>7, <2>10, <2>11, <3>1
        <4> QED BY <2>2, <2>12, <2>13, <4>1 DEF UnescapeStep
      <3>2. CASE Len(e) = 2
        <4>1. W[p] = hdlcEscape /\ xor(W[p + 1], 32) = raw[k] /\ p + 2 = Len(B[k]) + 1 /\ p # Len(W)
          <5>1. 1 \in 1 .. Len(e) /\ 2 \in 1 .. Len(e) /\ Len(a) + 2 = p + 1 /\ Len(a) + 1 = p
            BY <2>7, <3>2
          <5>2. W[p] = e[1] /\ W[p + 1] = e[2]
            BY <2>10, <5>1
          <5>3. p + 2 = Len(B[k]) + 1 /\ p # Len(W)
            BY <2>7, <2>11, <2>12, <3>2
          <5> QED BY <2>4, <3>2, <5>2, <5>3
        <4> QED BY <2>2, <2>12, <2>13, <4>1, Zenon DEF UnescapeStep
      <3> QED BY <2>4, <3>1, <3>2
    <2>15. SubSeq(raw, k, n) = <<raw[k]>> \o SubSeq(raw, k + 1, n)
      BY SubSeqRecursiveFirst
    <2>16. \E u \in Seq(Byte) : W = B[k - 1] \o u
      BY <2>6 DEF a
    <2>17. U[Len(B[k - 1]) + 1] = SubSeq(raw, (k - 1) + 1, n)
      BY <2>14, <2>15 DEF a
    <2> QED BY <2>3, <2>16, <2>17
  <1> HIDE DEF S
  <1>6. 0 .. n \subseteq S
    BY <1>1, <1>4, <1>5, Downward
  <1>7. U[1] = SubSeq(raw, 1, n)
    <2>1. 0 \in S /\ Len(<<>>) + 1 = 1
      BY <1>1, <1>6
    <2> QED BY <1>1, <2>1 DEF S
  <1>8. SubSeq(raw, 1, n) = raw
    BY SubSeqFull
  <1> QED BY <1>7, <1>8 DEF U, W

\* W is data with its checksum, escaped.
IsHdlc(data, W) ==
    /\ W \in Seq(Byte) /\ Len(data) + 2 <= Len(W) /\ Len(W) <= 2 * (Len(data) + 2)
    /\ \A j \in 1 .. Len(W) : W[j] # hdlcFlag
    /\ hdlcEncode(data) = <<hdlcFlag>> \o (W \o <<hdlcFlag>>)
    /\ hdlcDecode(W) = data

LEMMA HdlcFrame ==
    ASSUME NEW data \in Seq(Byte)
    PROVE  \E W : IsHdlc(data, W)
  <1> DEFINE fcs == hdlcFCS16(data)
             le == LE16(fcs)
             raw == data \o le
  <1>1. fcs \in Word
    <2>1. 65535 \in Word /\ 65535 \in Int
      BY WordFacts
    <2>2. crc16(fcsTable, 65535, data) \in Word
      BY <2>1, Crc16Type
    <2>3. crc16(fcsTable, 65535, data) \in Int
      BY <2>2, WordFacts
    <2> QED BY <2>1, <2>3, XorType DEF hdlcFCS16
  <1> HIDE DEF fcs
  <1>2. le \in Seq(Byte) /\ Len(le) = 2 /\ Uint16(le[1], le[2]) = fcs
    BY <1>1, WordBytes, Tuples DEF LE16
  <1> HIDE DEF le
  <1>3. /\ raw \in Seq(Byte) /\ Len(raw) = Len(data) + Len(le)
        /\ \A i \in 1 .. Len(le) : raw[Len(data) + i] = le[i]
    <2>1. le \in Seq(Byte)
      BY <1>2
    <2> QED BY <2>1, Parts
  <1>4. SubSeq(raw, 1, Len(data)) = data
    BY <1>2, Prefix
  <1>5. hdlcEncode(data) = Append(Escaped(raw)[Len(raw)], hdlcFlag)
    BY HdlcEncodes, Zenon DEF le, fcs
  <1> HIDE DEF raw
  <1>6. raw \in Seq(Byte) /\ Len(data) \in Nat
    BY <1>3, LenProperties
  <1>7. PICK B : IsStuffing(raw, B)
    BY <1>6, StuffingExists
  <1> DEFINE W == B[Len(raw)]
  <1>8. Unescape(W)[1] = raw
    BY <1>6, <1>7, StuffingUnescapes
  <1>9. hdlcEncode(data) = <<hdlcFlag>> \o (W \o <<hdlcFlag>>)
    BY <1>5, <1>6, <1>7, EscapedIs
  <1>10. /\ W \in Seq(Byte) /\ Len(raw) <= Len(W) /\ Len(W) <= 2 * Len(raw)
         /\ \A j \in 1 .. Len(W) : W[j] # hdlcFlag
    <2>1. Len(raw) \in 0 .. Len(raw)
      BY <1>6, LenProperties
    <2> QED BY <1>6, <1>7, <2>1, StuffingHasNoFlag
  <1> HIDE DEF W
  <1>11. Len(raw) = Len(data) + 2
    BY <1>2, <1>3
  <1>12. /\ ~(Len(raw) < 2) /\ SubSeq(raw, 1, Len(raw) - 2) = data
         /\ Uint16(raw[Len(raw) - 1], raw[Len(raw)]) = fcs
    <2>1. Len(raw) - 2 = Len(data) /\ Len(raw) - 1 = Len(data) + 1 /\ Len(raw) = Len(data) + 2 /\ ~(Len(raw) < 2)
      BY <1>6, <1>11
    <2>2. raw[Len(data) + 1] = le[1] /\ raw[Len(data) + 2] = le[2]
      BY <1>2, <1>3
    <2> QED BY <1>2, <1>4, <2>1, <2>2
  <1>13. hdlcDecode(W) = data
    BY <1>8, <1>12, HdlcDecodes, Zenon DEF fcs
  <1>14. IsHdlc(data, W)
    BY <1>9, <1>10, <1>11, <1>13 DEF IsHdlc
  <1> QED BY <1>14

\* One step of the scan of readHDLCFrame, and the scan.
HdlcStep(w, f, p) ==
    LET i    == p[1]
        from == p[2]
    IN  IF i > Len(w) THEN None
        ELSE IF w[i] = hdlcFlag
             THEN IF from # 0 /\ from < i
                  THEN [frame |-> SubSeq(w, from, i - 1), rest |-> SubSeq(w, i + 1, Len(w))]
                  ELSE f[<<i + 1, i + 1>>]
        ELSE f[<<i + 1, IF from # 0 /\ i - from >= maxHDLCFrameSize THEN 0 ELSE from>>]
HdlcScan(w) == CHOOSE f : f = [p \in (1 .. Len(w) + 1) \X (0 .. Len(w) + 1) |-> HdlcStep(w, f, p)]

LEMMA HdlcReads == ASSUME NEW w PROVE readHDLCFrame(w) = HdlcScan(w)[<<1, 0>>]
  BY DEF readHDLCFrame, HdlcScan, HdlcStep

LEMMA HdlcScanSteps ==
    ASSUME NEW w \in Seq(Byte), NEW i \in 1 .. Len(w) + 1, NEW from \in 0 .. Len(w) + 1
    PROVE  HdlcScan(w)[<<i, from>>] = HdlcStep(w, HdlcScan(w), <<i, from>>)
  <1> DEFINE N == Len(w) + 1
             Dom == (1 .. N) \X (0 .. N)
             taken(p) == [frame |-> SubSeq(w, p[2], p[1] - 1), rest |-> SubSeq(w, p[1] + 1, Len(w))]
             D == {None} \cup {taken(p) : p \in Dom}
             stop == {p \in Dom : p[1] > Len(w) \/ (w[p[1]] = hdlcFlag /\ p[2] # 0 /\ p[2] < p[1])}
             rank == [p \in Dom |-> N - p[1]]
             c == [p \in Dom |-> IF p[1] > Len(w) THEN None ELSE taken(p)]
             keep(p) == IF p[2] # 0 /\ p[1] - p[2] >= maxHDLCFrameSize THEN 0 ELSE p[2]
             nxt == [p \in Dom |-> IF p \in stop THEN p
                                   ELSE IF w[p[1]] = hdlcFlag THEN <<p[1] + 1, p[1] + 1>> ELSE <<p[1] + 1, keep(p)>>]
             H == [p \in Dom |-> [x \in D |-> x]]
  <1>1. N \in Nat /\ rank \in [Dom -> 0 .. N]
    OBVIOUS
  <1>2. c \in [Dom -> D]
    OBVIOUS
  <1>3. ASSUME NEW p \in Dom, p \notin stop
        PROVE  p[1] \in 1 .. Len(w) /\ <<p[1] + 1, p[1] + 1>> \in Dom /\ <<p[1] + 1, keep(p)>> \in Dom
    <2>1. p[1] \in 1 .. N /\ p[2] \in 0 .. N
      OBVIOUS
    <2>2. p[1] \in 1 .. Len(w)
      BY <1>3, <2>1
    <2>3. keep(p) \in 0 .. N
      BY <2>1
    <2> HIDE DEF keep
    <2> QED BY <2>2, <2>3
  <1>4. nxt \in [Dom -> Dom]
    <2> HIDE DEF stop, keep, Dom
    <2> QED BY <1>3
  <1>5. H \in [Dom -> [D -> D]]
    <2> HIDE DEF Dom, D
    <2> QED OBVIOUS
  <1>6. ASSUME NEW p \in Dom, p \notin stop PROVE rank[nxt[p]] < rank[p]
    <2>1. nxt[p] \in Dom /\ nxt[p][1] = p[1] + 1
      <3>1. nxt[p] = IF w[p[1]] = hdlcFlag THEN <<p[1] + 1, p[1] + 1>> ELSE <<p[1] + 1, keep(p)>>
        BY <1>6
      <3> HIDE DEF nxt, keep
      <3> QED BY <1>3, <1>6, <3>1
    <2>2. p[1] \in Int /\ rank[p] = N - p[1]
      OBVIOUS
    <2> HIDE DEF nxt
    <2>3. rank[nxt[p]] = N - (p[1] + 1)
      BY <2>1
    <2> QED BY <1>1, <2>2, <2>3
  <1> HIDE DEF rank, nxt, c, H, D, N, Dom, stop
  <1>7. PICK f : Ranked(Dom, D, stop, c, nxt, H, f)
    BY <1>1, <1>2, <1>4, <1>5, <1>6, RankedExists
  <1>8. f \in [Dom -> D] /\ \A x \in Dom : f[x] = IF x \in stop THEN c[x] ELSE H[x][f[nxt[x]]]
    BY <1>7 DEF Ranked
  <1>9. ASSUME NEW p \in Dom PROVE f[p] = HdlcStep(w, f, p)
    <2>1. CASE p \in stop
      <3>1. f[p] = c[p] /\ c[p] = IF p[1] > Len(w) THEN None ELSE taken(p)
        BY <1>8, <2>1 DEF c
      <3>2. p[1] > Len(w) \/ (w[p[1]] = hdlcFlag /\ p[2] # 0 /\ p[2] < p[1])
        BY <2>1 DEF stop
      <3> QED BY <3>1, <3>2, Zenon DEF HdlcStep
    <2>2. CASE p \notin stop
      <3>1. nxt[p] \in Dom /\ f[nxt[p]] \in D
        BY <1>4, <1>8
      <3>2. f[p] = f[nxt[p]]
        BY <1>8, <2>2, <3>1 DEF H
      <3>3. ~(p[1] > Len(w)) /\ ~(w[p[1]] = hdlcFlag /\ p[2] # 0 /\ p[2] < p[1])
        BY <2>2 DEF stop
      <3>4. nxt[p] = IF w[p[1]] = hdlcFlag THEN <<p[1] + 1, p[1] + 1>> ELSE <<p[1] + 1, keep(p)>>
        BY <2>2 DEF nxt
      <3> QED BY <3>2, <3>3, <3>4, Zenon DEF HdlcStep
    <2> QED BY <2>1, <2>2
  <1>10. f = [p \in Dom |-> HdlcStep(w, f, p)]
    BY <1>8, <1>9
  <1>11. HdlcScan(w) = [p \in Dom |-> HdlcStep(w, HdlcScan(w), p)]
    BY <1>10, Zenon DEF HdlcScan, Dom, N
  <1>12. <<i, from>> \in Dom
    BY DEF Dom, N
  <1> QED BY <1>11, <1>12

\* HDLC framing is transparent: whatever bytes hdlcEncode is given, flags and
\* escapes among them, readHDLCFrame finds the frame behind any bytes without a
\* flag, hdlcDecode gives the bytes back, and what follows is left for the next
\* call; the frame has to be no longer than the limit that the reader keeps.
THEOREM HdlcRoundTrip ==
    ASSUME NEW data \in Seq(Byte), 2 * (Len(data) + 2) <= maxHDLCFrameSize,
           NEW junk \in Seq(Byte), \A i \in 1 .. Len(junk) : junk[i] # hdlcFlag, NEW rest \in Seq(Byte)
    PROVE  \E W \in Seq(Byte) : /\ readHDLCFrame(junk \o (hdlcEncode(data) \o rest)) = [frame |-> W, rest |-> rest]
                                /\ hdlcDecode(W) = data
  <1>1. PICK W : IsHdlc(data, W)
    BY HdlcFrame
  <1> DEFINE F == <<hdlcFlag>>
             fr == F \o rest
             wfr == W \o fr
             enc == F \o wfr
             w == junk \o enc
             j == Len(junk)
             n == Len(W)
             scan == HdlcScan(w)
  <1>2. /\ W \in Seq(Byte) /\ Len(data) + 2 <= n /\ n <= 2 * (Len(data) + 2)
        /\ \A k \in 1 .. n : W[k] # hdlcFlag
        /\ hdlcEncode(data) = F \o (W \o F) /\ hdlcDecode(W) = data
    BY <1>1, Zenon DEF IsHdlc
  <1>3. F \in Seq(Byte) /\ Len(F) = 1 /\ F[1] = hdlcFlag /\ W \in Seq(Byte)
    BY <1>2, FlagIsByte, Tuples
  <1> HIDE DEF F
  <1>4. F \in Seq(Byte) /\ W \in Seq(Byte) /\ W \o F \in Seq(Byte) /\ fr \in Seq(Byte)
    BY <1>3, Parts
  <1>5. hdlcEncode(data) \o rest = enc
    <2>0. \A x, y \in Seq(Byte) : (F \o x) \o y = F \o (x \o y)
      BY <1>4, Assoc
    <2>1. (F \o (W \o F)) \o rest = F \o ((W \o F) \o rest)
      BY <1>4, <2>0, Zenon
    <2>2. (W \o F) \o rest = W \o (F \o rest)
      BY <1>4, Assoc
    <2> QED BY <1>2, <2>1, <2>2
  <1>6. Len(data) \in Nat /\ Len(rest) \in Nat /\ j \in Nat /\ n \in Nat /\ maxHDLCFrameSize \in Nat
    BY <1>4, LenProperties, SizeAssumption
  <1>7. fr \in Seq(Byte) /\ Len(fr) = 1 + Len(rest) /\ fr[1] = hdlcFlag
    <2>1. Len(fr) = Len(F) + Len(rest) /\ \A i \in 1 .. Len(F) : fr[i] = F[i]
      BY <1>4, Parts
    <2> HIDE DEF fr
    <2> QED BY <1>3, <1>4, <2>1
  <1>8. wfr \in Seq(Byte) /\ Len(wfr) = n + Len(fr) /\ (\A i \in 1 .. n : wfr[i] = W[i])
        /\ \A i \in 1 .. Len(fr) : wfr[n + i] = fr[i]
    BY <1>4, Parts
  <1> HIDE DEF fr
  <1>9. wfr \in Seq(Byte) /\ Len(wfr) = n + 1 + Len(rest) /\ wfr[n + 1] = hdlcFlag
    BY <1>6, <1>7, <1>8
  <1>10. wfr \in Seq(Byte)
    BY <1>9
  <1>11. enc \in Seq(Byte) /\ Len(enc) = Len(F) + Len(wfr) /\ (\A i \in 1 .. Len(F) : enc[i] = F[i])
         /\ \A i \in 1 .. Len(wfr) : enc[Len(F) + i] = wfr[i]
    BY <1>4, <1>10, Parts
  <1> HIDE DEF wfr
  <1>12. enc \in Seq(Byte) /\ Len(enc) = n + 2 + Len(rest) /\ enc[1] = hdlcFlag
         /\ \A i \in 1 .. n + 1 + Len(rest) : enc[1 + i] = wfr[i]
    BY <1>3, <1>6, <1>9, <1>11
  <1>13. enc \in Seq(Byte)
    BY <1>12
  <1>14. w \in Seq(Byte) /\ Len(w) = j + Len(enc) /\ (\A i \in 1 .. j : w[i] = junk[i])
         /\ \A i \in 1 .. Len(enc) : w[j + i] = enc[i]
    BY <1>13, Parts
  <1> HIDE DEF enc
  <1>15. w \in Seq(Byte) /\ Len(w) = j + n + 2 + Len(rest)
    BY <1>6, <1>12, <1>14
  <1>16. \A i \in 1 .. j : w[i] # hdlcFlag
    BY <1>14
  <1>17. w[j + 1] = hdlcFlag
    BY <1>6, <1>12, <1>14
  <1>18. ASSUME NEW i \in 1 .. n + 1 PROVE w[j + 1 + i] = wfr[i]
    <2>1. 1 + i \in 1 .. Len(enc) /\ i \in 1 .. n + 1 + Len(rest) /\ j + (1 + i) = j + 1 + i
      BY <1>6, <1>12
    <2> QED BY <1>12, <1>14, <2>1
  <1>19. (\A i \in 1 .. n : w[j + 1 + i] # hdlcFlag) /\ w[j + 1 + (n + 1)] = hdlcFlag
    <2>1. ASSUME NEW i \in 1 .. n PROVE w[j + 1 + i] # hdlcFlag
      <3>1. i \in 1 .. n + 1
        BY <1>6
      <3>2. wfr[i] = W[i] /\ W[i] # hdlcFlag
        BY <1>2, <1>8
      <3> QED BY <1>18, <3>1, <3>2
    <2>2. n + 1 \in 1 .. n + 1
      BY <1>6
    <2>3. w[j + 1 + (n + 1)] = wfr[n + 1]
      BY <1>18, <2>2
    <2> QED BY <1>9, <2>1, <2>3
  <1>20. SubSeq(w, j + 2, j + 1 + n) = W /\ SubSeq(w, j + n + 3, Len(w)) = rest
    <2> DEFINE a == junk \o F
               b == a \o W
               d == b \o F
    <2>1. a \in Seq(Byte) /\ Len(a) = j + 1
      <3>1. a \in Seq(Byte) /\ Len(a) = j + Len(F)
        BY <1>4, Parts
      <3> HIDE DEF a
      <3> QED BY <1>3, <3>1
    <2>2. w = a \o wfr
      <3>1. \A x \in Seq(Byte) : (junk \o F) \o x = junk \o (F \o x)
        BY <1>4, Assoc
      <3> QED BY <1>10, <3>1, Zenon DEF enc
    <2>3. SubSeq(a \o (W \o fr), Len(a) + 1, Len(a) + n) = W
      BY <1>4, <2>1, Middle
    <2>4. SubSeq(w, j + 2, j + 1 + n) = W
      <3>1. Len(a) + 1 = j + 2 /\ Len(a) + n = j + 1 + n
        BY <1>6, <2>1
      <3> HIDE DEF a
      <3> QED BY <2>2, <2>3, <3>1, Zenon DEF wfr
    <2>5. w = b \o fr
      <3> HIDE DEF a
      <3>1. a \in Seq(Byte)
        BY <2>1
      <3> QED BY <1>4, <2>2, <3>1, Assoc DEF wfr
    <2>6. b \in Seq(Byte) /\ Len(b) = j + 1 + n
      <3> HIDE DEF a
      <3>1. a \in Seq(Byte)
        BY <2>1
      <3>2. b \in Seq(Byte) /\ Len(b) = Len(a) + n
        BY <1>4, <3>1, Parts
      <3> QED BY <2>1, <3>2
    <2> HIDE DEF a, b
    <2>7. b \in Seq(Byte)
      BY <2>6
    <2>8. d \in Seq(Byte) /\ Len(d) = Len(b) + Len(F) /\ w = d \o rest
      <3>1. d \in Seq(Byte) /\ Len(d) = Len(b) + Len(F)
        BY <1>4, <2>7, Parts
      <3>2. \A x, y \in Seq(Byte) : (b \o x) \o y = b \o (x \o y)
        BY <2>7, Assoc
      <3>3. F \in Seq(Byte) /\ rest \in Seq(Byte)
        BY <1>4
      <3>4. w = d \o rest
        BY <2>5, <3>2, <3>3, Zenon DEF fr
      <3> QED BY <3>1, <3>4
    <2> HIDE DEF d
    <2>9. d \in Seq(Byte)
      BY <2>8
    <2>10. SubSeq(d \o rest, Len(d) + 1, Len(d) + Len(rest)) = rest
      BY <2>9, Suffix
    <2>11. Len(d) + 1 = j + n + 3 /\ Len(d) + Len(rest) = Len(w)
      BY <1>3, <1>6, <1>15, <2>6, <2>8
    <2> QED BY <2>4, <2>8, <2>10, <2>11
  <1> HIDE DEF w
  <1>21. w \in Seq(Byte)
    BY <1>15
  <1>22. \A i \in 1 .. Len(w) + 1 : \A from \in 0 .. Len(w) + 1 :
            scan[<<i, from>>] = HdlcStep(w, scan, <<i, from>>)
    BY <1>21, HdlcScanSteps
  <1> HIDE DEF scan, j, n
  <1>23. scan[<<1, 0>>] = scan[<<j + 1, 0>>]
    <2> DEFINE S == {i \in 0 .. j : scan[<<1, 0>>] = scan[<<i + 1, 0>>]}
    <2>1. 0 \in S
      BY <1>6
    <2>2. ASSUME NEW i \in 1 .. j, i - 1 \in S PROVE i \in S
      <3>1. i \in 1 .. Len(w) + 1 /\ 0 \in 0 .. Len(w) + 1 /\ ~(i > Len(w)) /\ (i - 1) + 1 = i
        BY <1>6, <1>15
      <3>2. scan[<<i, 0>>] = HdlcStep(w, scan, <<i, 0>>) /\ w[i] # hdlcFlag
        BY <1>16, <1>22, <3>1
      <3>3. HdlcStep(w, scan, <<i, 0>>) = scan[<<i + 1, 0>>]
        BY <3>1, <3>2 DEF HdlcStep
      <3> QED BY <2>2, <3>1, <3>2, <3>3
    <2> HIDE DEF S
    <2>3. 0 .. j \subseteq S
      BY <1>6, <2>1, <2>2, Upward
    <2>4. j \in S
      BY <1>6, <2>3
    <2> QED BY <2>4 DEF S
  <1>24. scan[<<j + 1, 0>>] = scan[<<j + 2, j + 2>>]
    <2>1. j + 1 \in 1 .. Len(w) + 1 /\ 0 \in 0 .. Len(w) + 1 /\ ~(j + 1 > Len(w)) /\ (j + 1) + 1 = j + 2
      BY <1>6, <1>15
    <2>2. scan[<<j + 1, 0>>] = HdlcStep(w, scan, <<j + 1, 0>>)
      BY <1>22, <2>1
    <2> QED BY <1>17, <2>1, <2>2 DEF HdlcStep
  <1>25. scan[<<j + 2, j + 2>>] = scan[<<j + 2 + n, j + 2>>]
    <2> DEFINE S == {k \in 0 .. n : scan[<<j + 2, j + 2>>] = scan[<<j + 2 + k, j + 2>>]}
    <2>1. 0 \in S
      BY <1>6
    <2>2. ASSUME NEW k \in 1 .. n, k - 1 \in S PROVE k \in S
      <3> DEFINE i == j + 1 + k
      <3>1. /\ i \in 1 .. Len(w) + 1 /\ j + 2 \in 0 .. Len(w) + 1 /\ ~(i > Len(w))
            /\ j + 2 + (k - 1) = i /\ j + 2 + k = i + 1 /\ ~(i - (j + 2) >= maxHDLCFrameSize)
        BY <1>2, <1>6, <1>15
      <3>2. w[i] # hdlcFlag
        BY <1>19
      <3> HIDE DEF i
      <3>3. scan[<<i, j + 2>>] = HdlcStep(w, scan, <<i, j + 2>>)
        BY <1>22, <3>1
      <3>4. HdlcStep(w, scan, <<i, j + 2>>) = scan[<<i + 1, j + 2>>]
        BY <3>1, <3>2 DEF HdlcStep
      <3>5. scan[<<j + 2, j + 2>>] = scan[<<j + 2 + (k - 1), j + 2>>] /\ k \in 0 .. n
        BY <1>6, <2>2
      <3> QED BY <3>1, <3>3, <3>4, <3>5, Zenon
    <2> HIDE DEF S
    <2>3. 0 .. n \subseteq S
      BY <1>6, <2>1, <2>2, Upward
    <2>4. n \in S
      BY <1>6, <2>3
    <2> QED BY <2>4 DEF S
  <1>26. scan[<<j + 2 + n, j + 2>>] = [frame |-> W, rest |-> rest]
    <2> DEFINE i == j + 2 + n
    <2>1. /\ i \in 1 .. Len(w) + 1 /\ j + 2 \in 0 .. Len(w) + 1 /\ ~(i > Len(w)) /\ i = j + 1 + (n + 1)
          /\ i - 1 = j + 1 + n /\ i + 1 = j + n + 3 /\ j + 2 # 0 /\ j + 2 < i
      BY <1>2, <1>6, <1>15
    <2>2. w[i] = hdlcFlag
      BY <1>19, <2>1
    <2> HIDE DEF i
    <2>3. scan[<<i, j + 2>>] = HdlcStep(w, scan, <<i, j + 2>>)
      BY <1>22, <2>1
    <2>4. HdlcStep(w, scan, <<i, j + 2>>) = [frame |-> SubSeq(w, j + 2, i - 1), rest |-> SubSeq(w, i + 1, Len(w))]
      BY <2>1, <2>2 DEF HdlcStep
    <2>5. scan[<<i, j + 2>>] = [frame |-> W, rest |-> rest]
      BY <1>20, <2>1, <2>3, <2>4
    <2> QED BY <2>5 DEF i
  <1>27. readHDLCFrame(w) = [frame |-> W, rest |-> rest]
    <2>1. readHDLCFrame(w) = scan[<<1, 0>>]
      BY HdlcReads DEF scan
    <2> QED BY <1>23, <1>24, <1>25, <1>26, <2>1
  <1>28. readHDLCFrame(junk \o (hdlcEncode(data) \o rest)) = [frame |-> W, rest |-> rest]
    BY <1>5, <1>27 DEF w
  <1> QED BY <1>2, <1>28

-----------------------------------------------------------------------------
(* What the coprocessor sends.                                             *)

\* The HL part of an indication is decoded to what it was made of.
LEMMA IndicationHL ==
    ASSUME NEW callID \in Word, NEW payload \in Seq(Byte), NEW flags
    PROVE  LET hl == <<0, 2>> \o LE16(callID) \o payload
           IN  /\ hl \in Seq(Byte) /\ Len(hl) = 4 + Len(payload)
               /\ decodeHL(flags, hl) = [flags |-> flags, packetType |-> 2, callID |-> callID, tsn |-> 0,
                                         status |-> <<0, 0>>, payload |-> payload]
  <1> DEFINE zt == <<0, 2>>
             le == LE16(callID)
             a == zt \o le
             hl == a \o payload
  <1>1. zt \in Seq(Byte) /\ Len(zt) = 2 /\ zt[2] = 2
    <2>1. 0 \in Byte /\ 2 \in Byte
      BY ByteFacts
    <2> QED BY <2>1, Tuples
  <1>2. le \in Seq(Byte) /\ Len(le) = 2 /\ Uint16(le[1], le[2]) = callID
    BY WordBytes, Tuples DEF LE16
  <1> HIDE DEF zt, le
  <1>3. zt \in Seq(Byte) /\ le \in Seq(Byte) /\ Len(payload) \in Nat
    BY <1>1, <1>2, LenProperties
  <1>4. /\ a \in Seq(Byte) /\ Len(a) = Len(zt) + Len(le)
        /\ \A i \in 1 .. Len(zt) : a[i] = zt[i]
        /\ \A i \in 1 .. Len(le) : a[Len(zt) + i] = le[i]
    BY <1>3, Parts
  <1> HIDE DEF a
  <1>5. a \in Seq(Byte) /\ Len(a) = 4 /\ a[2] = 2 /\ a[3] = le[1] /\ a[4] = le[2]
    BY <1>1, <1>2, <1>4
  <1>6. a \in Seq(Byte)
    BY <1>5
  <1>7. /\ hl \in Seq(Byte) /\ Len(hl) = Len(a) + Len(payload)
        /\ \A i \in 1 .. Len(a) : hl[i] = a[i]
    BY <1>6, Parts
  <1>8. SubSeq(hl, Len(a) + 1, Len(a) + Len(payload)) = payload
    BY <1>6, Suffix
  <1> HIDE DEF hl
  <1>9. /\ Len(hl) = 4 + Len(payload) /\ hl[2] = 2 /\ Uint16(hl[3], hl[4]) = callID
        /\ SubSeq(hl, 5, Len(hl)) = payload
    <2>1. Len(a) = 4
      BY <1>5
    <2>2. hl[2] = a[2] /\ hl[3] = a[3] /\ hl[4] = a[4]
      BY <1>7, <2>1
    <2> QED BY <1>2, <1>5, <1>7, <1>8, <2>1, <2>2
  <1>10. hlSize(2) = 4 /\ ~(Len(hl) < 4)
    BY <1>3, <1>9 DEF hlSize
  <1>11. decodeHL(flags, hl) =
           [flags |-> flags, packetType |-> 2, callID |-> callID, tsn |-> 0,
            status |-> <<0, 0>>, payload |-> payload]
    <2>1. decodeHL(flags, hl) =
            IF Len(hl) < 4 THEN Err
            ELSE IF 4 = 0 \/ Len(hl) < 4 THEN Err
            ELSE [flags |-> flags, packetType |-> 2, callID |-> callID, tsn |-> IF 2 = 2 THEN 0 ELSE hl[5],
                  status |-> IF 2 = 1 THEN <<hl[6], hl[7]>> ELSE <<0, 0>>,
                  payload |-> SubSeq(hl, 4 + 1, Len(hl))]
      BY <1>9, <1>10, Zenon DEF decodeHL
    <2>2. /\ 4 # 0 /\ (IF 2 = 2 THEN 0 ELSE hl[5]) = 0 /\ 4 + 1 = 5
          /\ (IF 2 = 1 THEN <<hl[6], hl[7]>> ELSE <<0, 0>>) = <<0, 0>>
      OBVIOUS
    <2> QED BY <1>9, <1>10, <2>1, <2>2, Zenon
  <1> QED BY <1>7, <1>9, <1>11, Zenon DEF hl, a, zt, le

\* A frame that readRawZBOSSFrame takes.
Readable(f) ==
    /\ f \in Seq(Byte) /\ Len(f) >= 7 /\ goodSize(Len(f) - 2)
    /\ f[1] = zbossSig0 /\ f[2] = zbossSig1 /\ Uint16(f[3], f[4]) = Len(f) - 2

\* An indication is a data frame with packet number 1, which can be read and
\* decodes to what it was made of.
IndicationFrame(callID, payload) ==
    [flags |-> 196, packetType |-> 2, callID |-> callID, tsn |-> 0, status |-> <<0, 0>>, payload |-> payload]

LEMMA IndicationDecodes ==
    ASSUME NEW callID \in Word, NEW payload \in Seq(Byte), Len(payload) <= Base + 55
    PROVE  /\ Readable(indication(callID, payload)) /\ Len(indication(callID, payload)) = 13 + Len(payload)
           /\ zbossDecodeFrame(indication(callID, payload)) = IndicationFrame(callID, payload)
  <1> DEFINE hl == <<0, 2>> \o LE16(callID) \o payload
             f == zbossEncodeDataFrame(1, hl)
  <1>1. 192 + 4 * (1 % 4) = 196
    OBVIOUS
  <1>2. indication(callID, payload) = f
    <2>1. refCRC16(hl) = zbossCRC16(hl)
      BY TableAssumption, Zenon DEF refCRC16, zbossCRC16
    <2> QED BY <1>1, <2>1, Zenon DEF indication, zbossEncodeDataFrame
  <1>3. /\ hl \in Seq(Byte) /\ Len(hl) = 4 + Len(payload)
        /\ decodeHL(196, hl) = IndicationFrame(callID, payload)
    BY IndicationHL, Zenon DEF IndicationFrame
  <1> HIDE DEF hl
  <1>4. hl \in Seq(Byte) /\ Len(payload) \in Nat /\ Base \in Int /\ Base <= 256 /\ maxHDLCFrameSize \in Int
    BY <1>3, LenProperties, LineAssumption, SizeAssumption
  <1>5. 7 + Len(hl) = 11 + Len(payload) /\ 7 + Len(hl) \in Word /\ goodSize(7 + Len(hl)) /\ 1 \in Nat
    BY <1>3, <1>4, WordFacts, LineAssumption DEF goodSize
  <1>6. zbossDecodeFrame(f) = decodeHL(196, hl)
    BY <1>1, <1>4, <1>5, FrameRoundTrip
  <1>7. IsDataFrame(1, hl)
    BY <1>4, <1>5, DataFrame
  <1>8. /\ f \in Seq(Byte) /\ Len(f) = 2 + (7 + Len(hl))
        /\ f[1] = zbossSig0 /\ f[2] = zbossSig1 /\ Uint16(f[3], f[4]) = 7 + Len(hl)
    BY <1>7, Zenon DEF IsDataFrame
  <1> HIDE DEF f
  <1>9. Len(f) = 13 + Len(payload) /\ Len(f) >= 7 /\ Len(f) - 2 = 7 + Len(hl)
    BY <1>4, <1>5, <1>8
  <1>10. Readable(f)
    BY <1>5, <1>8, <1>9, Zenon DEF Readable
  <1> QED BY <1>2, <1>3, <1>6, <1>9, <1>10

\* An acknowledgement decodes to its flags.
LEMMA AckDecodes ==
    /\ Readable(llHeader(5, 33)) /\ Len(llHeader(5, 33)) = 7
    /\ zbossDecodeFrame(llHeader(5, 33)) = [flags |-> 33]
  <1> DEFINE h == LE16(5) \o <<zbossLLType, 33>>
             x == llHeader(5, 33)
             pre == <<zbossSig0, zbossSig1>>
  <1>0. 5 \in Word /\ 33 \in Byte
    BY ByteFacts, WordFacts
  <1>1. /\ h \in Seq(Byte) /\ Len(h) = 4 /\ x \in Seq(Byte) /\ Len(x) = 7
        /\ x[1] = zbossSig0 /\ x[2] = zbossSig1 /\ Uint16(x[3], x[4]) = 5
        /\ x[5] = zbossLLType /\ x[6] = 33 /\ x[7] = zbossCRC8(h)
        /\ x = <<zbossSig0, zbossSig1>> \o (h \o <<zbossCRC8(h)>>)
    BY <1>0, LLHeader, Zenon
  <1>2. SubSeq(x, 3, 6) = h
    <2>1. zbossSig0 \in Byte /\ zbossSig1 \in Byte
      BY ByteFacts DEF zbossSig0, zbossSig1
    <2>2. pre \in Seq(Byte) /\ Len(pre) = 2
      BY <2>1, Tuples
    <2> HIDE DEF h, x
    <2>3. h \in Seq(Byte)
      BY <1>1
    <2>4. zbossCRC8(h) \in Byte
      BY <2>3, Crc8Type
    <2>5. <<zbossCRC8(h)>> \in Seq(Byte)
      BY <2>4, Tuples
    <2> HIDE DEF pre
    <2>6. SubSeq(pre \o (h \o <<zbossCRC8(h)>>), Len(pre) + 1, Len(pre) + Len(h)) = h
      BY <2>2, <2>3, <2>5, Middle
    <2>7. Len(pre) + 1 = 3 /\ Len(pre) + Len(h) = 6
      BY <1>1, <2>2
    <2> QED BY <1>1, <2>6, <2>7, Zenon DEF pre
  <1> HIDE DEF h, x
  <1>3. Readable(x)
    <2>1. goodSize(5)
      BY LineAssumption, SizeAssumption DEF goodSize
    <2>2. 7 - 2 = 5 /\ 7 >= 7
      OBVIOUS
    <2> QED BY <1>1, <2>1, <2>2 DEF Readable
  <1>4. zbossDecodeFrame(x) = [flags |-> 33]
    <2>1. ~(Len(x) < 7) /\ ~(5 + 2 > Len(x)) /\ zbossLLIsACK(33)
      BY <1>1 DEF zbossLLIsACK
    <2> QED BY <1>1, <1>2, <2>1, Zenon DEF zbossDecodeFrame
  <1> QED BY <1>1, <1>3, <1>4 DEF x

-----------------------------------------------------------------------------
(* Attribute records.                                                      *)

\* Attribute records, and the bytes of one as zclBuildWriteAttributes and the
\* devices write it.
RecordSet == [attr : Word, type : Byte, value : Seq(Byte)]
recordOf(r) == LE16(r.attr) \o <<r.type>> \o r.value

\* The value tells its own length, whatever follows.
Delimited(t, v) ==
    v \in Seq(Byte) /\ Len(v) >= 1 /\ \A b \in Seq(Byte) : valueLen(t, v \o b) = Len(v)

\* One step of zclParseAttributeReports at p, and the scan.
ReportStep(data, f, p) ==
    LET rest == From(data, p + 3)
        t    == data[p + 2]
        n    == valueLen(t, rest)
    IN  IF p + 2 > Len(data) THEN <<>>
        ELSE IF ~Fits(t, rest) THEN <<>>
        ELSE <<Record(Uint16(data[p], data[p + 1]), t, SubSeq(rest, 1, n))>> \o f[p + 3 + n]
ReportScan(data) == CHOOSE f : f = [p \in 1 .. Len(data) + 1 |-> ReportStep(data, f, p)]

LEMMA ReportReads == ASSUME NEW data PROVE zclParseAttributeReports(data) = ReportScan(data)[1]
  BY DEF zclParseAttributeReports, ReportScan, ReportStep

\* What is left of a sequence from a position.
LEMMA FromLen ==
    ASSUME NEW s \in Seq(Byte), NEW p \in 1 .. Len(s) + 1
    PROVE  From(s, p) \in Seq(Byte) /\ Len(From(s, p)) = Len(s) + 1 - p
  <1>1. p \in Int /\ Len(s) \in Int /\ \A i \in p .. Len(s) : s[i] \in Byte
    OBVIOUS
  <1>2. /\ SubSeq(s, p, Len(s)) \in Seq(Byte)
        /\ Len(SubSeq(s, p, Len(s))) = IF p <= Len(s) THEN Len(s) - p + 1 ELSE 0
    BY <1>1, SubSeqProperties
  <1> QED BY <1>1, <1>2 DEF From

LEMMA ReportScanSteps ==
    ASSUME NEW data \in Seq(Byte), NEW p \in 1 .. Len(data) + 1
    PROVE  ReportScan(data)[p] = ReportStep(data, ReportScan(data), p)
  <1> DEFINE N == Len(data) + 1
             Dom == 1 .. N
             rest(q) == From(data, q + 3)
             len(q) == valueLen(data[q + 2], rest(q))
             rec(q) == Record(Uint16(data[q], data[q + 1]), data[q + 2], SubSeq(rest(q), 1, len(q)))
             D == Seq({rec(q) : q \in Dom})
             stop == {q \in Dom : q + 2 > Len(data) \/ ~Fits(data[q + 2], rest(q))}
             rank == [q \in Dom |-> N - q]
             c == [q \in Dom |-> <<>>]
             nxt == [q \in Dom |-> IF q \in stop THEN q ELSE q + 3 + len(q)]
             H == [q \in Dom |-> [x \in D |-> <<rec(q)>> \o x]]
  <1>1. N \in Nat /\ rank \in [Dom -> 0 .. N]
    OBVIOUS
  <1>2. c \in [Dom -> D]
    <2> HIDE DEF rec
    <2> QED OBVIOUS
  <1>3. ASSUME NEW q \in Dom, q \notin stop
        PROVE  q + 3 + len(q) \in Dom /\ q + 3 + len(q) > q /\ len(q) \in Int
    <2>1. q + 2 <= Len(data) /\ Fits(data[q + 2], rest(q))
      BY <1>3
    <2>2. len(q) \in 1 .. Len(rest(q))
      BY <2>1 DEF Fits
    <2>3. q + 3 \in 1 .. Len(data) + 1
      BY <2>1
    <2>4. Len(rest(q)) = Len(data) + 1 - (q + 3)
      BY <2>3, FromLen
    <2> HIDE DEF len, rest
    <2> QED BY <2>1, <2>2, <2>4
  <1>4. nxt \in [Dom -> Dom]
    <2> HIDE DEF stop, len, Dom
    <2> QED BY <1>3
  <1>5. H \in [Dom -> [D -> D]]
    <2> HIDE DEF rec, Dom
    <2>1. ASSUME NEW q \in Dom, NEW x \in D PROVE <<rec(q)>> \o x \in D
      OBVIOUS
    <2> HIDE DEF D
    <2> QED BY <2>1
  <1>6. ASSUME NEW q \in Dom, q \notin stop PROVE rank[nxt[q]] < rank[q]
    <2>1. nxt[q] = q + 3 + len(q)
      BY <1>6
    <2>2. nxt[q] \in Dom /\ nxt[q] > q
      BY <1>3, <1>6, <2>1
    <2> HIDE DEF nxt, len, stop
    <2> QED BY <2>2
  <1> HIDE DEF rank, nxt, c, H, D, N, Dom, stop
  <1>7. PICK f : Ranked(Dom, D, stop, c, nxt, H, f)
    BY <1>1, <1>2, <1>4, <1>5, <1>6, RankedExists
  <1>8. f \in [Dom -> D] /\ \A x \in Dom : f[x] = IF x \in stop THEN c[x] ELSE H[x][f[nxt[x]]]
    BY <1>7 DEF Ranked
  <1>9. ASSUME NEW q \in Dom PROVE f[q] = ReportStep(data, f, q)
    <2>1. CASE q \in stop
      <3>1. f[q] = <<>>
        BY <1>8, <2>1 DEF c
      <3>2. q + 2 > Len(data) \/ ~Fits(data[q + 2], rest(q))
        BY <2>1 DEF stop
      <3> QED BY <3>1, <3>2, Zenon DEF ReportStep
    <2>2. CASE q \notin stop
      <3>1. nxt[q] \in Dom /\ f[nxt[q]] \in D
        BY <1>4, <1>8
      <3>2. f[q] = <<rec(q)>> \o f[nxt[q]]
        <4> HIDE DEF rec
        <4> QED BY <1>8, <2>2, <3>1 DEF H
      <3>3. ~(q + 2 > Len(data)) /\ Fits(data[q + 2], rest(q))
        BY <2>2 DEF stop
      <3>4. nxt[q] = q + 3 + len(q)
        BY <2>2 DEF nxt
      <3> QED BY <3>2, <3>3, <3>4, Zenon DEF ReportStep
    <2> QED BY <2>1, <2>2
  <1>10. f = [q \in Dom |-> ReportStep(data, f, q)]
    BY <1>8, <1>9
  <1>11. ReportScan(data) = [q \in Dom |-> ReportStep(data, ReportScan(data), q)]
    BY <1>10, Zenon DEF ReportScan, Dom, N
  <1>12. p \in Dom
    BY DEF Dom, N
  <1> QED BY <1>11, <1>12

LEMMA Triple ==
    ASSUME NEW S, NEW a \in S, NEW b \in S, NEW c \in S
    PROVE  /\ <<a, b, c>> \in Seq(S) /\ Len(<<a, b, c>>) = 3
           /\ <<a, b, c>>[1] = a /\ <<a, b, c>>[2] = b /\ <<a, b, c>>[3] = c
           /\ <<a, b>> \o <<c>> = <<a, b, c>>
  <1> DEFINE x == <<a, b>> \o <<c>>
             y == <<a, b, c>>
  <1>1. x \in Seq(S) /\ Len(x) = 3 /\ x[1] = a /\ x[2] = b /\ x[3] = c
    OBVIOUS
  <1>2. y \in Seq(S) /\ Len(y) = 3 /\ y[1] = a /\ y[2] = b /\ y[3] = c
    OBVIOUS
  <1> HIDE DEF x, y
  <1>3. \A i \in 1 .. Len(x) : x[i] = y[i]
    BY <1>1, <1>2
  <1>4. x = y
    BY <1>1, <1>2, <1>3, SeqEqual
  <1> QED BY <1>2, <1>4 DEF x, y

\* The bytes of a record.
LEMMA RecordBytes ==
    ASSUME NEW r \in RecordSet
    PROVE  /\ recordOf(r) \in Seq(Byte) /\ Len(recordOf(r)) = 3 + Len(r.value)
           /\ \A b \in Seq(Byte) : recordOf(r) \o b = <<r.attr % 256, (r.attr \div 256) % 256, r.type>> \o (r.value \o b)
  <1> DEFINE lo == r.attr % 256
             hi == (r.attr \div 256) % 256
             le == <<lo, hi>>
             ty == <<r.type>>
             h == <<lo, hi, r.type>>
  <1>1. lo \in Byte /\ hi \in Byte /\ r.type \in Byte /\ r.value \in Seq(Byte)
    BY WordBytes DEF RecordSet
  <1> HIDE DEF lo, hi
  <1>2. le \o ty = h /\ h \in Seq(Byte) /\ Len(h) = 3
    BY <1>1, Triple
  <1>3. recordOf(r) = h \o r.value
    BY <1>2 DEF recordOf, LE16, lo, hi
  <1> HIDE DEF h
  <1>4. h \in Seq(Byte) /\ r.value \in Seq(Byte)
    BY <1>1, <1>2
  <1>5. h \o r.value \in Seq(Byte) /\ Len(h \o r.value) = Len(h) + Len(r.value)
    BY <1>4, Parts
  <1>6. \A b \in Seq(Byte) : (h \o r.value) \o b = h \o (r.value \o b)
    BY <1>4, Assoc
  <1>7. \A b \in Seq(Byte) : recordOf(r) \o b = h \o (r.value \o b)
    BY <1>3, <1>6, Zenon
  <1>8. recordOf(r) \in Seq(Byte) /\ Len(recordOf(r)) = 3 + Len(r.value)
    BY <1>2, <1>3, <1>5
  <1> QED BY <1>7, <1>8, Zenon DEF h, lo, hi

\* A record whose value tells its length is taken where it stands.
LEMMA ReportAt ==
    ASSUME NEW a \in Seq(Byte), NEW r \in RecordSet, Delimited(r.type, r.value), NEW b \in Seq(Byte)
    PROVE  LET F == ReportScan(a \o (recordOf(r) \o b))
           IN  F[Len(a) + 1] = <<r>> \o F[Len(a) + Len(recordOf(r)) + 1]
  <1> DEFINE lo == r.attr % 256
             hi == (r.attr \div 256) % 256
             h == <<lo, hi, r.type>>
             v == r.value
             vb == v \o b
             data == a \o (h \o vb)
             F == ReportScan(data)
             p == Len(a) + 1
  <1>1. lo \in Byte /\ hi \in Byte /\ Uint16(lo, hi) = r.attr /\ r.type \in Byte /\ v \in Seq(Byte)
    BY WordBytes DEF RecordSet
  <1>2. recordOf(r) \o b = h \o vb /\ Len(recordOf(r)) = 3 + Len(v)
    <2> HIDE DEF Delimited
    <2>1. /\ Len(recordOf(r)) = 3 + Len(r.value)
          /\ \A x \in Seq(Byte) : recordOf(r) \o x = <<r.attr % 256, (r.attr \div 256) % 256, r.type>> \o (r.value \o x)
      BY RecordBytes
    <2> QED BY <2>1, Zenon
  <1>3. valueLen(r.type, vb) = Len(v) /\ Len(v) >= 1
    BY DEF Delimited
  <1>4. r = Record(r.attr, r.type, v)
    BY DEF RecordSet, Record
  <1> HIDE DEF lo, hi, v
  <1>5. h \in Seq(Byte) /\ Len(h) = 3 /\ h[1] = lo /\ h[2] = hi /\ h[3] = r.type
    BY <1>1, Triple
  <1> HIDE DEF h
  <1>6. h \in Seq(Byte) /\ v \in Seq(Byte) /\ Len(a) \in Nat /\ Len(v) \in Nat /\ Len(b) \in Nat
    BY <1>1, <1>5, LenProperties
  <1>7. vb \in Seq(Byte) /\ Len(vb) = Len(v) + Len(b) /\ SubSeq(vb, 1, Len(v)) = v
    BY <1>6, Parts, Prefix
  <1> HIDE DEF vb
  <1>8. vb \in Seq(Byte)
    BY <1>7
  <1> DEFINE hv == h \o vb
  <1>9. hv \in Seq(Byte) /\ Len(hv) = Len(h) + Len(vb) /\ \A i \in 1 .. Len(h) : hv[i] = h[i]
    BY <1>6, <1>8, Parts
  <1> HIDE DEF hv
  <1>10. hv \in Seq(Byte) /\ Len(hv) = 3 + Len(vb) /\ hv[1] = lo /\ hv[2] = hi /\ hv[3] = r.type
    BY <1>5, <1>9
  <1>11. hv \in Seq(Byte)
    BY <1>10
  <1>12. data \in Seq(Byte) /\ Len(data) = Len(a) + Len(hv) /\ \A i \in 1 .. Len(hv) : data[Len(a) + i] = hv[i]
    BY <1>11, Parts DEF hv
  <1>13. From(data, p + 3) = vb
    <2> DEFINE ah == a \o h
    <2>1. ah \in Seq(Byte) /\ Len(ah) = Len(a) + Len(h)
      BY <1>6, Parts
    <2>2. data = ah \o vb
      BY <1>6, <1>8, Assoc
    <2> HIDE DEF ah
    <2>3. ah \in Seq(Byte)
      BY <2>1
    <2>4. SubSeq(ah \o vb, Len(ah) + 1, Len(ah) + Len(vb)) = vb
      BY <1>8, <2>3, Suffix
    <2>5. Len(ah) + 1 = p + 3 /\ Len(ah) + Len(vb) = Len(data)
      BY <1>5, <1>6, <1>7, <1>10, <1>12, <2>1
    <2> QED BY <2>2, <2>4, <2>5, Zenon DEF From
  <1> HIDE DEF data
  <1>14. /\ p \in 1 .. Len(data) + 1 /\ ~(p + 2 > Len(data))
         /\ data[p] = lo /\ data[p + 1] = hi /\ data[p + 2] = r.type
    <2>1. Len(data) = Len(a) + (3 + (Len(v) + Len(b)))
      BY <1>7, <1>10, <1>12
    <2>2. data[Len(a) + 1] = lo /\ data[Len(a) + 2] = hi /\ data[Len(a) + 3] = r.type
      BY <1>6, <1>7, <1>10, <1>12
    <2>3. p + 1 = Len(a) + 2 /\ p + 2 = Len(a) + 3
      BY <1>6
    <2> QED BY <1>6, <2>1, <2>2, <2>3
  <1>15. Fits(r.type, vb)
    BY <1>3, <1>6, <1>7 DEF Fits
  <1>16. F[p] = ReportStep(data, F, p)
    <2>1. data \in Seq(Byte)
      BY <1>12
    <2> QED BY <1>14, <2>1, ReportScanSteps
  <1> HIDE DEF F, p
  <1>17. F[p] = <<r>> \o F[p + 3 + Len(v)]
    BY <1>1, <1>3, <1>4, <1>7, <1>13, <1>14, <1>15, <1>16, Zenon DEF ReportStep
  <1>18. p + 3 + Len(v) = Len(a) + Len(recordOf(r)) + 1
    BY <1>2, <1>6 DEF p
  <1>19. data = a \o (recordOf(r) \o b)
    BY <1>2 DEF data
  <1> QED BY <1>17, <1>18, <1>19 DEF F, p

\* O[i] is the bytes of the first i records.
IsRecords(recs, O) ==
    /\ O \in [0 .. Len(recs) -> Seq(Byte)] /\ O[0] = <<>>
    /\ \A i \in 1 .. Len(recs) : O[i] = O[i - 1] \o recordOf(recs[i])

\* A list of records, of any length, is parsed to just those records, if each
\* value tells its own length.
LEMMA RecordsAreParsed ==
    ASSUME NEW recs \in Seq(RecordSet), \A i \in 1 .. Len(recs) : Delimited(recs[i].type, recs[i].value),
           NEW O, IsRecords(recs, O)
    PROVE  zclParseAttributeReports(O[Len(recs)]) = recs
  <1> DEFINE n == Len(recs)
             W == O[n]
             F == ReportScan(W)
             S == {k \in 0 .. n : /\ \E t \in Seq(Byte) : W = O[k] \o t
                                  /\ F[Len(O[k]) + 1] = SubSeq(recs, k + 1, n)}
  <1>1. n \in Nat /\ O[0] = <<>> /\ \A i \in 0 .. n : O[i] \in Seq(Byte)
    BY DEF IsRecords
  <1>2. W \in Seq(Byte)
    BY <1>1
  <1>3. zclParseAttributeReports(W) = F[1]
    BY ReportReads
  <1>4. n \in S
    <2> HIDE DEF F
    <2>0. W = O[n]
      OBVIOUS
    <2> HIDE DEF W
    <2>1. Len(W) + 1 \in 1 .. Len(W) + 1 /\ Len(W) + 1 + 2 > Len(W)
      BY <1>2, LenProperties
    <2>2. F[Len(W) + 1] = <<>>
      <3>1. F[Len(W) + 1] = ReportStep(W, F, Len(W) + 1)
        BY <1>2, <2>1, ReportScanSteps DEF F
      <3> QED BY <2>1, <3>1, Zenon DEF ReportStep
    <2>3. SubSeq(recs, n + 1, n) = <<>>
      BY <1>1, SubSeqEmpty
    <2>4. W = O[n] \o <<>> /\ <<>> \in Seq(Byte)
      BY <1>2, <2>0, ConcatEmptySeq
    <2>5. n \in 0 .. n
      BY <1>1
    <2> QED BY <2>0, <2>2, <2>3, <2>4, <2>5, Zenon
  <1>5. ASSUME NEW k \in 1 .. n, k \in S PROVE k - 1 \in S
    <2> DEFINE a == O[k - 1]
               r == recs[k]
               e == recordOf(r)
    <2> HIDE DEF W
    <2>1. PICK t \in Seq(Byte) : W = O[k] \o t
      BY <1>5
    <2>2. F[Len(O[k]) + 1] = SubSeq(recs, k + 1, n)
      BY <1>5
    <2>3. a \in Seq(Byte) /\ k - 1 \in 0 .. n /\ r \in RecordSet /\ Delimited(r.type, r.value)
      BY <1>1
    <2>4. e \in Seq(Byte)
      BY <2>3, RecordBytes
    <2>5. O[k] = a \o e
      BY Zenon DEF IsRecords
    <2> HIDE DEF a, e, r
    <2>6. a \in Seq(Byte) /\ r \in RecordSet /\ Len(a) \in Nat /\ Len(e) \in Nat
      BY <2>3, <2>4, LenProperties
    <2>7. W = a \o (e \o t) /\ e \o t \in Seq(Byte) /\ Len(O[k]) = Len(a) + Len(e)
      <3>1. (a \o e) \o t = a \o (e \o t)
        BY <2>4, <2>6, Assoc
      <3>2. e \o t \in Seq(Byte) /\ Len(a \o e) = Len(a) + Len(e)
        BY <2>4, <2>6, Parts
      <3> QED BY <2>1, <2>5, <3>1, <3>2
    <2>8. F[Len(a) + 1] = <<r>> \o F[Len(a) + Len(e) + 1]
      BY <2>3, <2>6, <2>7, ReportAt DEF e
    <2>9. SubSeq(recs, k, n) = <<r>> \o SubSeq(recs, k + 1, n)
      BY SubSeqRecursiveFirst DEF r
    <2>10. \E u \in Seq(Byte) : W = O[k - 1] \o u
      BY <2>7 DEF a
    <2>11. F[Len(O[k - 1]) + 1] = SubSeq(recs, (k - 1) + 1, n)
      <3>1. (k - 1) + 1 = k
        OBVIOUS
      <3> QED BY <2>2, <2>7, <2>8, <2>9, <3>1, Zenon DEF a
    <2> QED BY <2>3, <2>10, <2>11
  <1> HIDE DEF S, F, W
  <1>6. 0 .. n \subseteq S
    BY <1>1, <1>4, <1>5, Downward
  <1>7. F[1] = SubSeq(recs, 1, n)
    <2>1. 0 \in S /\ Len(<<>>) + 1 = 1
      BY <1>1, <1>6
    <2> QED BY <1>1, <2>1 DEF S
  <1>8. SubSeq(recs, 1, n) = recs
    BY SubSeqFull
  <1> QED BY <1>3, <1>7, <1>8 DEF W

LEMMA RecordsExist ==
    ASSUME NEW recs \in Seq(RecordSet)
    PROVE  \E O : IsRecords(recs, O)
  <1> DEFINE D == Seq(Byte)
             n == Len(recs)
             G == [i \in 1 .. n |-> [x \in D |-> x \o recordOf(recs[i])]]
  <1>1. ASSUME NEW i \in 1 .. n, NEW x \in D PROVE x \o recordOf(recs[i]) \in D
    <2>1. recs[i] \in RecordSet
      OBVIOUS
    <2>2. recordOf(recs[i]) \in Seq(Byte)
      BY <2>1, RecordBytes
    <2> QED BY <2>2
  <1>2. G \in [1 .. n -> [D -> D]] /\ <<>> \in D /\ n \in Nat
    BY <1>1
  <1> HIDE DEF G, D, n
  <1>3. PICK O : Recursive(D, n, <<>>, G, O)
    BY <1>2, RecursionExists
  <1>4. ASSUME NEW i \in 1 .. n PROVE O[i] = O[i - 1] \o recordOf(recs[i])
    <2>1. i - 1 \in 0 .. n
      BY <1>2
    <2>2. O[i - 1] \in D /\ O[i] = G[i][O[i - 1]]
      BY <1>3, <2>1 DEF Recursive
    <2> QED BY <2>2 DEF G
  <1> QED BY <1>3, <1>4 DEF Recursive, IsRecords, n, D

\* zclBuildWriteAttributes puts the records behind the header.
WriteBuf(seq, recs) ==
    CHOOSE f : f = [i \in 0 .. Len(recs) |-> IF i = 0 THEN <<16, seq, 2>> ELSE f[i - 1] \o recordOf(recs[i])]

LEMMA WriteReads ==
    ASSUME NEW seq, NEW recs PROVE zclBuildWriteAttributes(seq, recs) = WriteBuf(seq, recs)[Len(recs)]
  BY DEF zclBuildWriteAttributes, WriteBuf, recordOf

LEMMA WriteIs ==
    ASSUME NEW seq \in Byte, NEW recs \in Seq(RecordSet), NEW O, IsRecords(recs, O)
    PROVE  zclBuildWriteAttributes(seq, recs) = <<16, seq, 2>> \o O[Len(recs)]
  <1> DEFINE n == Len(recs)
             h == <<16, seq, 2>>
             E == WriteBuf(seq, recs)
             S == {i \in 0 .. n : E[i] = h \o O[i]}
             f == [i \in 0 .. n |-> h \o O[i]]
  <1>1. n \in Nat /\ O \in [0 .. n -> Seq(Byte)] /\ O[0] = <<>>
    BY DEF IsRecords
  <1>2. h \in Seq(Byte)
    <2>1. 16 \in Byte /\ 2 \in Byte
      BY ByteFacts
    <2> QED BY <2>1, Triple
  <1>3. zclBuildWriteAttributes(seq, recs) = E[n]
    BY WriteReads
  <1>4. E = CHOOSE g : g = [i \in 0 .. n |-> IF i = 0 THEN h ELSE g[i - 1] \o recordOf(recs[i])]
    BY Zenon DEF WriteBuf
  <1> HIDE DEF h, E
  <1>5. ASSUME NEW i \in 1 .. n
        PROVE  i - 1 \in 0 .. n /\ i \in 0 .. n /\ h \o O[i] = (h \o O[i - 1]) \o recordOf(recs[i])
    <2>1. i - 1 \in 0 .. n /\ i \in 0 .. n /\ recs[i] \in RecordSet
      BY <1>1
    <2>2. O[i - 1] \in Seq(Byte) /\ recordOf(recs[i]) \in Seq(Byte)
      BY <1>1, <2>1, RecordBytes
    <2>3. O[i] = O[i - 1] \o recordOf(recs[i])
      BY Zenon DEF IsRecords
    <2>4. \A x, y \in Seq(Byte) : (h \o x) \o y = h \o (x \o y)
      BY <1>2, Assoc
    <2>5. (h \o O[i - 1]) \o recordOf(recs[i]) = h \o O[i]
      BY <2>2, <2>3, <2>4, Zenon
    <2> QED BY <2>1, <2>5
  <1>6. h \o O[0] = h
    BY <1>1, <1>2, ConcatEmptySeq
  <1>7. f = [i \in 0 .. n |-> IF i = 0 THEN h ELSE f[i - 1] \o recordOf(recs[i])]
    <2>1. \A i \in 0 .. n : f[i] = h \o O[i]
      OBVIOUS
    <2>2. ASSUME NEW i \in 0 .. n
          PROVE  h \o O[i] = IF i = 0 THEN h ELSE f[i - 1] \o recordOf(recs[i])
      <3>1. CASE i = 0
        BY <1>6, <3>1
      <3>2. CASE i # 0
        <4>1. i \in 1 .. n
          BY <1>1, <3>2
        <4>2. f[i - 1] = h \o O[i - 1]
          BY <1>5, <2>1, <4>1
        <4> HIDE DEF f
        <4> QED BY <1>5, <3>2, <4>1, <4>2
      <3> QED BY <3>1, <3>2
    <2> QED BY <2>2
  <1> HIDE DEF f
  <1>8. E = [i \in 0 .. n |-> IF i = 0 THEN h ELSE E[i - 1] \o recordOf(recs[i])]
    BY <1>4, <1>7, Zenon
  <1>9. E[0] = h /\ \A i \in 1 .. n : E[i] = E[i - 1] \o recordOf(recs[i])
    <2>1. \A i \in 0 .. n : E[i] = IF i = 0 THEN h ELSE E[i - 1] \o recordOf(recs[i])
      BY <1>8, Zenon
    <2>2. 0 \in 0 .. n /\ \A i \in 1 .. n : i \in 0 .. n /\ i # 0
      BY <1>1
    <2> QED BY <2>1, <2>2, Zenon
  <1>10. 0 \in S
    <2>1. 0 \in 0 .. n
      BY <1>1
    <2> QED BY <1>6, <1>9, <2>1, Zenon
  <1>11. ASSUME NEW i \in 1 .. n, i - 1 \in S PROVE i \in S
    <2>1. E[i] = (h \o O[i - 1]) \o recordOf(recs[i])
      BY <1>9, <1>11, Zenon
    <2> QED BY <1>5, <2>1, Zenon
  <1> HIDE DEF S
  <1>12. 0 .. n \subseteq S
    BY <1>1, <1>10, <1>11, Upward
  <1>13. n \in S
    BY <1>1, <1>12
  <1> QED BY <1>3, <1>13 DEF S, h

\* A write request carries its records: whoever parses what
\* zclBuildWriteAttributes puts behind the three bytes of the header finds the
\* records that were given to it, all of them, in order and with no byte of one
\* taken for another's, however many there are.
THEOREM WriteRoundTrip ==
    ASSUME NEW seq \in Byte, NEW recs \in Seq(RecordSet),
           \A i \in 1 .. Len(recs) : Delimited(recs[i].type, recs[i].value)
    PROVE  LET frm == zclBuildWriteAttributes(seq, recs)
           IN  frm \in Seq(Byte) /\ Len(frm) >= 3 /\ zclParseAttributeReports(From(frm, 4)) = recs
  <1> DEFINE h == <<16, seq, 2>>
             frm == zclBuildWriteAttributes(seq, recs)
  <1>1. PICK O : IsRecords(recs, O)
    BY RecordsExist
  <1> DEFINE o == O[Len(recs)]
  <1>2. frm = h \o o
    BY <1>1, WriteIs
  <1>3. zclParseAttributeReports(o) = recs
    BY <1>1, RecordsAreParsed
  <1>4. o \in Seq(Byte)
    <2>1. Len(recs) \in 0 .. Len(recs)
      OBVIOUS
    <2> QED BY <1>1, <2>1 DEF IsRecords
  <1>5. h \in Seq(Byte) /\ Len(h) = 3
    <2>1. 16 \in Byte /\ 2 \in Byte
      BY ByteFacts
    <2> QED BY <2>1, Triple
  <1> HIDE DEF h, o, frm
  <1>6. h \in Seq(Byte) /\ Len(o) \in Nat
    BY <1>4, <1>5, LenProperties
  <1>7. frm \in Seq(Byte) /\ Len(frm) = 3 + Len(o)
    <2>1. h \o o \in Seq(Byte) /\ Len(h \o o) = Len(h) + Len(o)
      BY <1>4, <1>6, Parts
    <2> QED BY <1>2, <1>5, <2>1
  <1>8. From(frm, 4) = o
    <2>1. SubSeq(h \o o, Len(h) + 1, Len(h) + Len(o)) = o
      BY <1>4, <1>6, Suffix
    <2>2. Len(h) + 1 = 4 /\ Len(h) + Len(o) = Len(frm)
      BY <1>5, <1>7
    <2> QED BY <1>2, <2>1, <2>2, Zenon DEF From
  <1>9. Len(frm) >= 3
    BY <1>6, <1>7
  <1> QED BY <1>3, <1>7, <1>8, <1>9 DEF frm

-----------------------------------------------------------------------------
(* What a record means to the host.                                        *)

\* Digits are bytes.
LEMMA DigitIsByte == Digit \subseteq Byte /\ Seq(Digit) \subseteq Seq(Byte) /\ Base \in Int /\ 8 <= Base /\ Base <= 256
  <1>1. Base \in Int /\ 8 <= Base /\ Base <= 256
    BY LineAssumption
  <1>2. Digit \subseteq Byte
    BY <1>1, ByteFacts DEF Digit
  <1> QED BY <1>1, <1>2

\* The types of a fixed width: both tables of the code give them the width that
\* the specification does, the library's table for the types it makes a value of.
LibraryWidths ==
    {<<16, 1>>, <<24, 1>>, <<25, 2>>, <<26, 3>>, <<27, 4>>, <<32, 1>>, <<33, 2>>, <<34, 3>>, <<35, 4>>, <<36, 5>>,
     <<37, 6>>, <<40, 1>>, <<41, 2>>, <<42, 3>>, <<43, 4>>, <<48, 1>>, <<49, 2>>, <<56, 2>>, <<57, 4>>, <<58, 8>>,
     <<224, 4>>, <<225, 4>>, <<226, 4>>, <<232, 2>>, <<233, 2>>, <<240, 8>>}
OtherWidths ==
    {<<8, 1>>, <<9, 2>>, <<10, 3>>, <<11, 4>>, <<12, 5>>, <<13, 6>>, <<14, 7>>, <<15, 8>>, <<38, 7>>, <<39, 8>>,
     <<44, 5>>, <<45, 6>>, <<46, 7>>, <<47, 8>>}

LEMMA LibraryWidth ==
    ASSUME NEW t \in LibraryTypes
    PROVE  <<t, StdWidth(t)>> \in LibraryWidths
  <1>1. t \in {16, 24, 25, 26, 27, 32, 33, 34, 35, 36, 37, 40, 41, 42, 43, 48, 49, 56, 57, 58, 224, 225, 226, 232, 233, 240}
    BY DEF LibraryTypes
  <1>2. /\ StdWidth(16) = 1 /\ StdWidth(24) = 1 /\ StdWidth(25) = 2 /\ StdWidth(26) = 3 /\ StdWidth(27) = 4
        /\ StdWidth(32) = 1 /\ StdWidth(33) = 2 /\ StdWidth(34) = 3 /\ StdWidth(35) = 4 /\ StdWidth(36) = 5
    BY DEF StdWidth, TypeBool
  <1>3. /\ StdWidth(37) = 6 /\ StdWidth(40) = 1 /\ StdWidth(41) = 2 /\ StdWidth(42) = 3 /\ StdWidth(43) = 4
        /\ StdWidth(48) = 1 /\ StdWidth(49) = 2 /\ StdWidth(56) = 2 /\ StdWidth(57) = 4 /\ StdWidth(58) = 8
    BY DEF StdWidth, TypeBool
  <1>4. /\ StdWidth(224) = 4 /\ StdWidth(225) = 4 /\ StdWidth(226) = 4 /\ StdWidth(232) = 2 /\ StdWidth(233) = 2
        /\ StdWidth(240) = 8
    BY DEF StdWidth, TypeBool
  <1> QED BY <1>1, <1>2, <1>3, <1>4 DEF LibraryWidths

LEMMA OtherWidth ==
    ASSUME NEW t \in OtherTypes
    PROVE  <<t, StdWidth(t)>> \in OtherWidths
  <1>1. t \in {8, 9, 10, 11, 12, 13, 14, 15, 38, 39, 44, 45, 46, 47}
    BY DEF OtherTypes
  <1>2. /\ StdWidth(8) = 1 /\ StdWidth(9) = 2 /\ StdWidth(10) = 3 /\ StdWidth(11) = 4 /\ StdWidth(12) = 5
        /\ StdWidth(13) = 6 /\ StdWidth(14) = 7 /\ StdWidth(15) = 8 /\ StdWidth(38) = 7 /\ StdWidth(39) = 8
        /\ StdWidth(44) = 5 /\ StdWidth(45) = 6 /\ StdWidth(46) = 7 /\ StdWidth(47) = 8
    BY DEF StdWidth, TypeBool
  <1> QED BY <1>1, <1>2, Zenon DEF OtherWidths

LEMMA WidthsAgree ==
    ASSUME NEW t, NEW w, <<t, w>> \in LibraryWidths \cup OtherWidths
    PROVE  t \in Byte /\ w \in 1 .. 8 /\ typeSize(t) = w
  <1>1. t \in Int /\ 0 <= t /\ t <= 255 /\ w \in 1 .. 8
    BY DEF LibraryWidths, OtherWidths
  <1>2. t \in Byte
    BY <1>1, ByteFacts
  <1>3. CASE <<t, w>> \in LibraryWidths
    <2> USE DEF TypeOctetStr, TypeCharStr, TypeOctetStr16, TypeCharStr16
    <2>1. /\ typeSize(16) = 1 /\ typeSize(24) = 1 /\ typeSize(25) = 2 /\ typeSize(26) = 3 /\ typeSize(27) = 4
          /\ typeSize(32) = 1 /\ typeSize(33) = 2 /\ typeSize(34) = 3 /\ typeSize(35) = 4 /\ typeSize(36) = 5
          /\ typeSize(37) = 6 /\ typeSize(40) = 1 /\ typeSize(41) = 2
      BY DEF typeSize
    <2>2. /\ typeSize(42) = 3 /\ typeSize(43) = 4 /\ typeSize(48) = 1 /\ typeSize(49) = 2 /\ typeSize(56) = 2
          /\ typeSize(57) = 4 /\ typeSize(58) = 8 /\ typeSize(224) = 4 /\ typeSize(225) = 4 /\ typeSize(226) = 4
          /\ typeSize(232) = 2 /\ typeSize(233) = 2 /\ typeSize(240) = 8
      BY DEF typeSize
    <2> QED BY <1>1, <1>2, <1>3, <2>1, <2>2 DEF LibraryWidths
  <1>4. CASE <<t, w>> \in OtherWidths
    <2> USE DEF TypeOctetStr, TypeCharStr, TypeOctetStr16, TypeCharStr16
    <2>1. /\ typeSize(8) = 1 /\ typeSize(9) = 2 /\ typeSize(10) = 3 /\ typeSize(11) = 4 /\ typeSize(12) = 5
          /\ typeSize(13) = 6 /\ typeSize(14) = 7 /\ typeSize(15) = 8 /\ typeSize(38) = 7 /\ typeSize(39) = 8
          /\ typeSize(44) = 5 /\ typeSize(45) = 6 /\ typeSize(46) = 7 /\ typeSize(47) = 8
      BY DEF typeSize
    <2> QED BY <1>1, <1>2, <1>4, <2>1 DEF OtherWidths
  <1> QED BY <1>1, <1>2, <1>3, <1>4

LEMMA TypeSizeAgrees ==
    /\ \A t, w : <<t, w>> \in LibraryWidths => TypeSize(t) = w
    /\ \A t, w : <<t, w>> \in OtherWidths => TypeSize(t) = -1
  <1> USE DEF TypeNoData, TypeBool, TypeFloat16
  <1> DEFINE U(t) == \E k \in 1 .. 6 : t \in UintTypes(k)
             C(t) == CHOOSE k \in 1 .. 6 : t \in UintTypes(k)
  <1>1. \A k \in 1 .. 6 : k = 1 \/ k = 2 \/ k = 3 \/ k = 4 \/ k = 5 \/ k = 6
    OBVIOUS
  <1>2. ASSUME NEW k \in 1 .. 6, NEW t \in UintTypes(k) PROVE U(t) /\ C(t) = k
    <2>1. \A m \in 1 .. 6 : t \in UintTypes(m) => m = k
      BY <1>1, UintTypesAre
    <2> QED BY <2>1
  <1>3. \A t : U(t) => t \in UintTypes(1) \cup UintTypes(2) \cup UintTypes(3) \cup UintTypes(4) \cup UintTypes(5) \cup UintTypes(6)
    BY <1>1
  <1>4. \A t : t \in SignedTypes <=> t \in {40, 41, 42, 43}
    BY DEF SignedTypes
  <1> HIDE DEF C, U
  <1>5. ASSUME NEW k \in 1 .. 6, NEW t \in UintTypes(k) PROVE TypeSize(t) = k
    <2>1. t # 0 /\ t # 16 /\ t # 56 /\ t # 57 /\ t # 58 /\ t # 240 /\ t \notin SignedTypes
      BY <1>4, AnyUintType
    <2> QED BY <1>2, <2>1 DEF TypeSize, U, C
  <1>6. ASSUME NEW t, ~U(t)
        PROVE  /\ t = 16 => TypeSize(t) = 1
               /\ t \in {40, 41, 42, 43} => TypeSize(t) = t - 39
               /\ t = 56 => TypeSize(t) = 2
               /\ t = 57 => TypeSize(t) = 4
               /\ t \in {58, 240} => TypeSize(t) = 8
               /\ t \notin {0, 16, 40, 41, 42, 43, 56, 57, 58, 240} => TypeSize(t) = -1
    BY <1>4, <1>6 DEF TypeSize, U
  <1>7. ASSUME NEW t, NEW w, <<t, w>> \in LibraryWidths PROVE TypeSize(t) = w
    <2>1. t \in {16, 40, 41, 42, 43, 56, 57, 58, 240} => ~U(t)
      BY <1>3, UintTypesAre
    <2>2. 1 \in 1 .. 6 /\ 2 \in 1 .. 6 /\ 3 \in 1 .. 6 /\ 4 \in 1 .. 6 /\ 5 \in 1 .. 6 /\ 6 \in 1 .. 6
      OBVIOUS
    <2>3. t \notin {16, 40, 41, 42, 43, 56, 57, 58, 240} => w \in 1 .. 6 /\ t \in UintTypes(w)
      BY <1>7, <2>2, UintTypesAre DEF LibraryWidths
    <2>4. t \in {16, 40, 41, 42, 43, 56, 57, 58, 240} => TypeSize(t) = w
      BY <1>6, <1>7, <2>1 DEF LibraryWidths
    <2> QED BY <1>5, <2>3, <2>4
  <1>8. ASSUME NEW t, NEW w, <<t, w>> \in OtherWidths PROVE TypeSize(t) = -1
    <2>1. ~U(t) /\ t \notin {0, 16, 40, 41, 42, 43, 56, 57, 58, 240}
      BY <1>3, <1>8, UintTypesAre DEF OtherWidths
    <2> QED BY <1>6, <2>1
  <1> QED BY <1>7, <1>8

\* A record that a device may send: the number is that of the digits, the string
\* is short enough.
SaneNumber(r) ==
    /\ r.type \in NumberTypes /\ r.s \in Seq(Digit) /\ Len(r.s) = StdWidth(r.type)
    /\ r.n = IF r.type \in SignedStd THEN Signed(r.s) ELSE Number(r.s)
    /\ r.type = 16 => r.s[1] \in {0, 1}
SaneOpaque(r) == r.type \in Opaque /\ r.s \in Seq(Digit) /\ Len(r.s) = StdWidth(r.type)
SaneString(r, p) == StringFits(Digit, r.type, p, r.s) /\ Len(r.s) <= Base - 1
Sane(r) == SaneNumber(r) \/ SaneOpaque(r) \/ SaneString(r, 1) \/ SaneString(r, 2)

LEMMA DelimitedFixed ==
    ASSUME NEW t, NEW w, <<t, w>> \in LibraryWidths \cup OtherWidths, NEW b \in Seq(Byte), Len(b) = w
    PROVE  Delimited(t, b)
  <1>1. w \in 1 .. 8 /\ typeSize(t) = w
    BY WidthsAgree
  <1>2. \A x : valueLen(t, x) = w
    BY <1>1 DEF valueLen
  <1>3. Len(b) >= 1
    BY <1>1
  <1> QED BY <1>2, <1>3, Zenon DEF Delimited

LEMMA DelimitedString ==
    ASSUME NEW t, NEW p \in {1, 2}, NEW s, StringFits(Byte, t, p, s)
    PROVE  Delimited(t, Digits(Len(s), p) \o s)
  <1> DEFINE dg == Digits(Len(s), p)
             e == dg \o s
  <1>1. /\ (p = 1 /\ t \in {65, 66}) \/ (p = 2 /\ t \in {67, 68})
        /\ s \in Seq(Byte) /\ ~(Len(s) > Pow(p) - 2)
    BY DEF StringFits
  <1>2. Len(s) \in Nat /\ p \in Nat /\ Pow(p) \in Nat
    <2>1. Len(s) \in Nat /\ p \in Nat
      BY <1>1, LenProperties
    <2> QED BY <2>1, NumberOfDigits
  <1>3. dg \in Seq(Digit) /\ Len(dg) = p /\ Number(dg) = Len(s)
    <2>1. Len(s) \in Int /\ 0 <= Len(s) /\ Len(s) < Pow(p)
      BY <1>1, <1>2
    <2> QED BY <1>2, <2>1, DigitsType, NumberOfDigits
  <1> HIDE DEF dg
  <1>4. dg \in Seq(Byte) /\ s \in Seq(Byte)
    BY <1>1, <1>3, DigitIsByte
  <1>5. e \in Seq(Byte) /\ Len(e) = Len(dg) + Len(s)
    BY <1>4, Parts
  <1>6. typeSize(t) = IF p = 1 THEN -1 ELSE -3
    BY <1>1 DEF typeSize, TypeOctetStr, TypeCharStr, TypeOctetStr16, TypeCharStr16
  <1>7. ASSUME NEW b \in Seq(Byte) PROVE valueLen(t, e \o b) = Len(e)
    <2> DEFINE sb == s \o b
               data == dg \o sb
    <2>1. sb \in Seq(Byte) /\ Len(sb) = Len(s) + Len(b) /\ Len(b) \in Nat
      BY <1>4, Parts, LenProperties
    <2>2. e \o b = data
      BY <1>4, Assoc
    <2> HIDE DEF sb
    <2>3. Len(data) = Len(dg) + Len(sb) /\ SubSeq(data, 1, Len(dg)) = dg
      BY <1>4, <2>1, Parts, Prefix
    <2> HIDE DEF data, e
    <2>4. Number(SubSeq(data, 1, p)) = Len(s) /\ Len(data) >= p
      <3>1. SubSeq(data, 1, p) = dg
        BY <1>3, <2>3, Zenon
      <3>2. Number(SubSeq(data, 1, p)) = Len(s)
        BY <1>3, <3>1, Zenon
      <3>3. Len(data) = p + (Len(s) + Len(b))
        BY <1>3, <2>1, <2>3, Zenon
      <3>4. Len(data) >= p
        BY <1>2, <2>1, <3>3
      <3> QED BY <3>2, <3>4
    <2>5. valueLen(t, data) = p + Len(s)
      <3>1. CASE p = 1
        BY <1>6, <2>4, <3>1 DEF valueLen
      <3>2. CASE p = 2
        BY <1>6, <2>4, <3>2 DEF valueLen
      <3> QED BY <3>1, <3>2
    <2> QED BY <1>3, <1>5, <2>2, <2>5
  <1>8. Len(e) >= 1
    BY <1>2, <1>3, <1>5
  <1>9. Delimited(t, e)
    <2> HIDE DEF e
    <2> QED BY <1>5, <1>7, <1>8 DEF Delimited
  <1> QED BY <1>9 DEF e, dg

\* Numbers of digits.
LEMMA NumberType ==
    ASSUME NEW d \in Seq(Digit)
    PROVE  Number(d) \in Nat /\ Signed(d) \in Int /\ (Len(d) = 1 => Number(d) = d[1])
  <1>1. PICK N : IsNumber(N, d) /\ Number(d) = N[1]
    BY NumberExists
  <1>2. Len(d) \in Nat /\ 1 \in 1 .. Len(d) + 1
    BY LenProperties
  <1>3. Number(d) \in Nat
    BY <1>1, <1>2 DEF IsNumber
  <1>4. Pow(Len(d)) \in Nat
    <2>1. 0 \in Int
      OBVIOUS
    <2> QED BY <1>2, <2>1, NumberOfDigits
  <1>5. Signed(d) \in Int
    BY <1>3, <1>4 DEF Signed
  <1>6. ASSUME Len(d) = 1 PROVE Number(d) = d[1]
    <2>0. 1 \in 1 .. Len(d) /\ Len(d) + 1 = 1 + 1
      BY <1>6
    <2>3. d[1] \in Digit
      BY <2>0
    <2>1. N[1] = d[1] + Base * N[1 + 1] /\ N[1 + 1] = 0 /\ d[1] \in Digit
      BY <1>1, <2>0, <2>3, Zenon DEF IsNumber
    <2>2. d[1] \in Int /\ Base \in Int
      BY <2>1, BaseFacts DEF Digit
    <2> QED BY <1>1, <2>1, <2>2
  <1> QED BY <1>3, <1>5, <1>6

\* DecodeValue makes of a number or of bits what the record means, whatever
\* follows.
DecodesTo(t, e, rest, means) ==
    \E val \in Value : DecodeValue(t, e \o rest) = Decoded(val, Len(e)) /\ Plain(val) = means

LEMMA Names == \A k : uintName(k) \in GoTypes /\ intName(k) \in GoTypes
  <1> TAKE k
  <1>1. uintName(k) = "uint8" \/ uintName(k) = "uint16" \/ uintName(k) = "uint32" \/ uintName(k) = "uint64"
    BY DEF uintName
  <1>2. intName(k) = "int8" \/ intName(k) = "int16" \/ intName(k) = "int32"
    BY DEF intName
  <1> QED BY <1>1, <1>2, Zenon DEF GoTypes

LEMMA LibraryFixed ==
    ASSUME NEW r, SaneNumber(r) \/ SaneOpaque(r), r.type \in LibraryTypes, NEW rest \in Seq(Byte)
    PROVE  DecodesTo(r.type, r.s, rest, recordMeans(r))
  <1> DEFINE t == r.type
             w == StdWidth(t)
             s == r.s
             val == decodeFixed(t, s)
  <1>1. s \in Seq(Digit) /\ Len(s) = w
    BY DEF SaneNumber, SaneOpaque
  <1>2. <<t, w>> \in LibraryWidths
    BY LibraryWidth
  <1>3. w \in 1 .. 8 /\ TypeSize(t) = w
    <2>1. <<t, w>> \in LibraryWidths \cup OtherWidths
      BY <1>2
    <2> QED BY <1>2, <2>1, WidthsAgree, TypeSizeAgrees
  <1>4. s \in Seq(Byte)
    BY <1>1, DigitIsByte
  <1>5. DecodeValue(t, s \o rest) = Decoded(val, Len(s))
    <2> HIDE DEF t, s, w
    <2>1. TypeSize(t) \in 1 .. 8 /\ Len(s) = TypeSize(t)
      BY <1>1, <1>3
    <2> QED BY <1>4, <2>1, DecodesFixed
  <1>6. Number(s) \in Nat /\ Signed(s) \in Int /\ (Len(s) = 1 => Number(s) = s[1])
    BY <1>1, NumberType
  <1>7. \A g \in GoTypes : (\A n \in Int : Go(g, n) \in Value /\ Plain(Go(g, n)) = <<n, <<>>>>)
                          /\ GoBytes(g, s) \in Value /\ Plain(GoBytes(g, s)) = <<0, s>>
    BY <1>4 DEF Go, GoBytes, Value, Plain
  <1>8. \A x : x \in SignedTypes <=> x \in {40, 41, 42, 43}
    BY DEF SignedTypes
  <1>9. t \in SignedTypes <=> t \in SignedStd
    <2>1. t \in {16, 24, 25, 26, 27, 32, 33, 34, 35, 36, 37, 40, 41, 42, 43, 48, 49, 56, 57, 58, 224, 225, 226, 232, 233, 240}
      BY DEF LibraryTypes
    <2> HIDE DEF t
    <2>2. t \in Int /\ (t \in SignedStd <=> 40 <= t /\ t <= 47)
      BY <2>1 DEF SignedStd
    <2> QED BY <1>8, <2>1, <2>2
  <1>10. val \in Value /\ Plain(val) = recordMeans(r)
    <2>1. CASE t \in {57, 58, 240}
      <3>1. val = GoBytes("float32", s) \/ val = GoBytes("float64", s) \/ val = GoBytes("[8]byte", s)
        BY <1>8, <2>1 DEF decodeFixed, TypeBool
      <3>2. recordMeans(r) = <<0, s>>
        BY <2>1 DEF recordMeans, Opaque
      <3>3. "float32" \in GoTypes /\ "float64" \in GoTypes /\ "[8]byte" \in GoTypes
        BY DEF GoTypes
      <3> HIDE DEF val, s
      <3> QED BY <1>7, <3>1, <3>2, <3>3, Zenon
    <2>2. CASE t \notin {57, 58, 240}
      <3>1. recordMeans(r) = <<r.n, <<>>>> /\ SaneNumber(r)
        BY <2>2 DEF recordMeans, Opaque, SaneOpaque
      <3>2. CASE t = 16
        <4>1. val = Go("bool", IF s[1] # 0 THEN 1 ELSE 0)
          <5>1. t = 16 /\ t \notin SignedTypes /\ t # 57 /\ t # 58 /\ t # 240
            BY <1>8, <3>2
          <5> HIDE DEF t, s
          <5> QED BY <5>1 DEF decodeFixed, TypeBool
        <4>2. s[1] \in {0, 1} /\ w = 1 /\ t \notin SignedStd
          <5>1. t \notin SignedTypes
            BY <1>8, <3>2
          <5>2. w = 1
            BY <3>2 DEF StdWidth, TypeBool
          <5>3. s[1] \in {0, 1}
            BY <3>1, <3>2, Zenon DEF SaneNumber
          <5> QED BY <1>9, <5>1, <5>2, <5>3
        <4>4. "bool" \in GoTypes
          BY DEF GoTypes
        <4>3. (IF s[1] # 0 THEN 1 ELSE 0) = s[1] /\ s[1] \in Int /\ r.n = s[1]
          BY <1>1, <1>6, <3>1, <4>2 DEF SaneNumber
        <4> HIDE DEF val, s
        <4> QED BY <1>7, <3>1, <4>1, <4>3, <4>4, Zenon
      <3>3. CASE t \in SignedTypes
        <4>1. val = Go(intName(Len(s)), Signed(s))
          BY <1>8, <2>2, <3>3 DEF decodeFixed, TypeBool
        <4>2. r.n = Signed(s)
          BY <1>9, <3>1, <3>3 DEF SaneNumber
        <4>3. intName(Len(s)) \in GoTypes
          BY <1>1, <1>3, Names
        <4>4. Number(s) \in Int /\ Signed(s) \in Int
          BY <1>6
        <4> HIDE DEF val, s
        <4> QED BY <1>7, <3>1, <4>1, <4>2, <4>3, <4>4, Zenon
      <3>4. CASE t # 16 /\ t \notin SignedTypes
        <4>1. val = Go(uintName(Len(s)), Number(s))
          BY <2>2, <3>4 DEF decodeFixed, TypeBool
        <4>2. r.n = Number(s)
          BY <1>9, <3>1, <3>4 DEF SaneNumber
        <4>3. uintName(Len(s)) \in GoTypes
          BY <1>1, <1>3, Names
        <4>4. Number(s) \in Int /\ Signed(s) \in Int
          BY <1>6
        <4> HIDE DEF val, s
        <4> QED BY <1>7, <3>1, <4>1, <4>2, <4>3, <4>4, Zenon
      <3> QED BY <3>2, <3>3, <3>4
    <2> QED BY <2>1, <2>2
  <1> HIDE DEF val
  <1> QED BY <1>5, <1>10 DEF DecodesTo

\* What a record takes and means.
RecordReads(r) ==
    LET b == recordBytes(r)
    IN  /\ r.type \in Byte /\ Delimited(r.type, b) /\ Len(b) <= Base + 1 /\ recordMeans(r) \in Plains
        /\ r.type \notin OtherTypes => \A rest \in Seq(Byte) : DecodesTo(r.type, b, rest, recordMeans(r))
        /\ r.type \in OtherTypes => recordMeans(r) = <<0, b>> /\ DecodeValue(r.type, b) = Err

LEMMA NotStrings == \A t \in LibraryTypes \cup OtherTypes : t \notin {65, 66, 67, 68}
  BY DEF LibraryTypes, OtherTypes

LEMMA PlainType == \A n \in Int : \A x \in Seq(Byte) : <<n, x>> \in Plains
  BY DEF Plains

LEMMA FixedRecord ==
    ASSUME NEW r, SaneNumber(r) \/ SaneOpaque(r)
    PROVE  RecordReads(r)
  <1> DEFINE t == r.type
             w == StdWidth(t)
             s == r.s
  <1>1. s \in Seq(Digit) /\ Len(s) = w /\ t \in LibraryTypes \cup OtherTypes
    <2>1. Opaque \subseteq LibraryTypes
      BY DEF Opaque, LibraryTypes
    <2> QED BY <2>1 DEF SaneNumber, SaneOpaque, NumberTypes
  <1>2. recordBytes(r) = s
    <2>1. t \notin {65, 66, 67, 68}
      BY <1>1, NotStrings
    <2> QED BY <2>1 DEF recordBytes
  <1>3. <<t, w>> \in LibraryWidths \cup OtherWidths
    BY <1>1, LibraryWidth, OtherWidth
  <1>4. s \in Seq(Byte)
    BY <1>1, DigitIsByte
  <1>5. t \in Byte /\ w \in 1 .. 8
    BY <1>3, WidthsAgree
  <1>6. Delimited(t, s)
    BY <1>1, <1>3, <1>4, DelimitedFixed
  <1>7. Len(s) <= Base + 1
    BY <1>1, <1>5, DigitIsByte
  <1>8. t \in OtherTypes => t \notin LibraryTypes
    BY DEF OtherTypes, LibraryTypes
  <1>9. recordMeans(r) \in Plains
    <2>1. CASE t \in LibraryTypes \ Opaque
      <3>1. SaneNumber(r)
        BY <2>1 DEF SaneOpaque
      <3>2. Number(s) \in Nat /\ Signed(s) \in Int
        BY <1>1, NumberType
      <3>3. r.n \in Int
        BY <3>1, <3>2 DEF SaneNumber
      <3>4. recordMeans(r) = <<r.n, <<>>>>
        BY <2>1 DEF recordMeans
      <3>5. <<>> \in Seq(Byte)
        OBVIOUS
      <3> QED BY <3>3, <3>4, <3>5, PlainType, Zenon
    <2>2. CASE t \notin LibraryTypes \ Opaque
      <3>1. recordMeans(r) = <<0, s>>
        BY <2>2 DEF recordMeans
      <3> QED BY <1>4, <3>1 DEF Plains
    <2> QED BY <2>1, <2>2
  <1>10. ASSUME t \notin OtherTypes, NEW rest \in Seq(Byte) PROVE DecodesTo(t, s, rest, recordMeans(r))
    BY <1>1, <1>10, LibraryFixed
  <1>11. ASSUME t \in OtherTypes PROVE recordMeans(r) = <<0, s>> /\ DecodeValue(t, s) = Err
    <2>1. <<t, w>> \in OtherWidths
      BY <1>11, OtherWidth
    <2>2. TypeSize(t) = -1
      BY <2>1, TypeSizeAgrees
    <2>3. t \notin {65, 66, 67, 68}
      BY <1>1, NotStrings
    <2>4. decodeVariableValue(t, s) = Err
      BY <2>3 DEF decodeVariableValue, TypeOctetStr, TypeCharStr, TypeOctetStr16, TypeCharStr16
    <2>5. DecodeValue(t, s) = Err
      BY <2>2, <2>4 DEF DecodeValue
    <2>6. recordMeans(r) = <<0, s>>
      BY <1>8, <1>11 DEF recordMeans
    <2> QED BY <2>5, <2>6
  <1> HIDE DEF t, w, s
  <1> QED BY <1>2, <1>5, <1>6, <1>7, <1>9, <1>10, <1>11, Zenon DEF RecordReads, t, s

LEMMA StringRecord ==
    ASSUME NEW r, NEW p \in {1, 2}, SaneString(r, p)
    PROVE  RecordReads(r)
  <1> DEFINE t == r.type
             s == r.s
             dg == Digits(Len(s), p)
             b == dg \o s
  <1>1. StringFits(Digit, t, p, s) /\ Len(s) <= Base - 1
    BY DEF SaneString
  <1>2. /\ (p = 1 /\ t \in {65, 66}) \/ (p = 2 /\ t \in {67, 68})
        /\ s \in Seq(Digit)
    BY <1>1 DEF StringFits
  <1>3. recordBytes(r) = b
    <2> HIDE DEF dg, b
    <2>1. recordBytes(r) = CASE t \in {65, 66} -> Digits(Len(s), 1) \o s
                             [] t \in {67, 68} -> Digits(Len(s), 2) \o s [] OTHER -> s
      BY Zenon DEF recordBytes
    <2>2. b = Digits(Len(s), p) \o s
      BY DEF b, dg
    <2> DEFINE x == Digits(Len(s), 1) \o s
               y == Digits(Len(s), 2) \o s
    <2>3. (p = 1 => b = x) /\ (p = 2 => b = y)
      BY <2>2, Zenon
    <2>4. recordBytes(r) = CASE t \in {65, 66} -> x [] t \in {67, 68} -> y [] OTHER -> s
      BY <2>1
    <2> HIDE DEF x, y, t, s
    <2> QED BY <1>2, <2>3, <2>4
  <1>4. s \in Seq(Byte) /\ Len(s) \in Nat /\ p \in Nat
    BY <1>2, DigitIsByte, LenProperties
  <1>5. dg \in Seq(Digit) /\ Len(dg) = p
    BY <1>4, DigitsType
  <1>6. dg \in Seq(Byte)
    BY <1>5, DigitIsByte
  <1>7. StringFits(Byte, t, p, s)
    BY <1>1, <1>4 DEF StringFits
  <1>8. Delimited(t, b)
    BY <1>7, DelimitedString
  <1>9. Len(b) <= Base + 1
    <2> HIDE DEF dg
    <2>1. Len(b) = Len(dg) + Len(s)
      BY <1>4, <1>6, Parts
    <2> HIDE DEF b
    <2> QED BY <1>1, <1>4, <1>5, <2>1, DigitIsByte
  <1>10. t \in Byte /\ t \notin OtherTypes /\ t \notin LibraryTypes
    <2>1. t \in Byte
      BY <1>2, ByteFacts
    <2> QED BY <1>2, <2>1, NotStrings
  <1>11. recordMeans(r) = <<0, s>> /\ recordMeans(r) \in Plains
    <2>1. recordMeans(r) = <<0, s>>
      BY <1>10 DEF recordMeans
    <2> QED BY <1>4, <2>1 DEF Plains
  <1>12. ASSUME NEW rest \in Seq(Byte) PROVE DecodesTo(t, b, rest, recordMeans(r))
    <2> DEFINE val == GoBytes(goString(t), s)
    <2>1. StringDecodes(t, p, s, rest)
      BY <1>7, DigitIsByte, StringRoundTrip
    <2>2. DecodeValue(t, b \o rest) = Decoded(val, Len(b))
      BY <2>1, Zenon DEF StringDecodes
    <2>3. goString(t) \in GoTypes
      BY DEF goString, GoTypes
    <2>4. val \in Value /\ Plain(val) = <<0, s>>
      <3> HIDE DEF s
      <3> QED BY <1>4, <2>3 DEF GoBytes, Value, Plain
    <2> HIDE DEF val, b
    <2> QED BY <1>11, <2>2, <2>4, Zenon DEF DecodesTo
  <1> HIDE DEF b, t, s
  <1> QED BY <1>3, <1>8, <1>9, <1>10, <1>11, <1>12, Zenon DEF RecordReads, t, s

LEMMA SaneReads == ASSUME NEW r, Sane(r) PROVE RecordReads(r)
  BY FixedRecord, StringRecord DEF Sane

\* decodeReported and ReadAttributes give what the record means.
LEMMA SaneReported ==
    ASSUME NEW r, Sane(r)
    PROVE  /\ Plain(decodeReported(r.type, recordBytes(r))) = recordMeans(r)
           /\ Plain(readResult(r.type, recordBytes(r))) =
                IF r.type \in OtherTypes THEN <<0, <<>>>> ELSE recordMeans(r)
  <1> DEFINE b == recordBytes(r)
             t == r.type
  <1>1. RecordReads(r)
    BY SaneReads
  <1>2. b \in Seq(Byte) /\ Len(b) >= 1
    BY <1>1 DEF RecordReads, Delimited
  <1> HIDE DEF b, t
  <1>3. b # <<>>
    BY <1>2
  <1>4. CASE t \in OtherTypes
    <2>1. recordMeans(r) = <<0, b>> /\ DecodeValue(t, b) = Err
      BY <1>1, <1>4, Zenon DEF RecordReads, b, t
    <2>2. decodeReported(t, b) = GoBytes("hex", b)
      BY <1>3, <2>1, Zenon DEF decodeReported
    <2>3. readResult(t, b) = Nil
      BY <2>1, Zenon DEF readResult
    <2>4. Plain(GoBytes("hex", b)) = <<0, b>> /\ Plain(Nil) = <<0, <<>>>>
      BY DEF Plain, GoBytes, Nil, Go
    <2> QED BY <1>4, <2>1, <2>2, <2>3, <2>4, Zenon DEF b, t
  <1>5. CASE t \notin OtherTypes
    <2>1. <<>> \in Seq(Byte) /\ b \o <<>> = b
      BY <1>2, ConcatEmptySeq
    <2>2. DecodesTo(t, b, <<>>, recordMeans(r))
      BY <1>1, <1>5, <2>1, Zenon DEF RecordReads, b, t
    <2>3. PICK val \in Value : DecodeValue(t, b) = Decoded(val, Len(b)) /\ Plain(val) = recordMeans(r)
      BY <2>1, <2>2, Zenon DEF DecodesTo
    <2>4. Decoded(val, Len(b)) # Err /\ Decoded(val, Len(b)).val = val
      BY <1>2, ValueAssumption DEF Decoded
    <2>5. decodeReported(t, b) = val /\ readResult(t, b) = val
      BY <1>3, <2>3, <2>4, Zenon DEF decodeReported, readResult
    <2> QED BY <1>5, <2>3, <2>5, Zenon DEF b, t
  <1> QED BY <1>4, <1>5

LEMMA NumberWidth ==
    ASSUME NEW t \in LibraryTypes \cup OtherTypes
    PROVE  StdWidth(t) \in Nat /\ StdWidth(t) >= 1 /\ (t = 16 => StdWidth(t) = 1)
  <1>1. <<t, StdWidth(t)>> \in LibraryWidths \cup OtherWidths
    BY LibraryWidth, OtherWidth
  <1>2. StdWidth(t) \in 1 .. 8
    BY <1>1, WidthsAgree
  <1>3. StdWidth(16) = 1
    BY DEF StdWidth, TypeBool
  <1> QED BY <1>2, <1>3

LEMMA NumbersAreSane ==
    ASSUME NEW r \in NumberRecords
    PROVE  SaneNumber(r)
  <1>1. PICK t \in NumberTypes : \E n \in (IF t = TypeBool THEN {0, 1} ELSE Edges(StdWidth(t), t \in SignedStd)) :
                                    r = [type |-> t, n |-> n, s |-> Digits(n, StdWidth(t))]
    BY DEF NumberRecords
  <1> DEFINE w == StdWidth(t)
             top == Pow(w)
  <1>2. PICK n \in (IF t = TypeBool THEN {0, 1} ELSE Edges(w, t \in SignedStd)) : r = [type |-> t, n |-> n, s |-> Digits(n, w)]
    BY <1>1
  <1>3. w \in Nat /\ w >= 1 /\ (t = 16 => w = 1)
    BY NumberWidth DEF NumberTypes
  <1> HIDE DEF w
  <1>4. top \in Nat /\ top >= Base /\ \E m \in Nat : top = 2 * m /\ m >= 1
    BY <1>3, PowFacts
  <1> HIDE DEF top
  <1>5. PICK m \in Nat : top = 2 * m /\ m >= 1
    BY <1>4
  <1>6. top \div 2 = m
    BY <1>5
  <1>7. Base \in Int /\ 8 <= Base
    BY DigitIsByte
  <1>8. CASE t = 16
    <2>1. n \in {0, 1}
      BY <1>2, <1>8 DEF TypeBool
    <2>2. n \in Int /\ 0 <= n /\ n < top
      BY <1>4, <1>7, <2>1
    <2> DEFINE d == Digits(n, w)
    <2>3. d \in Seq(Digit) /\ Len(d) = 1 /\ Len(d) = w /\ Number(d) = n
      BY <1>3, <1>8, <2>2, DigitsType, NumberOfDigits DEF top
    <2> HIDE DEF d
    <2>4. d[1] = n
      BY <2>3, NumberType
    <2>5. t \notin SignedStd
      BY <1>8 DEF SignedStd
    <2>6. r.type = t /\ r.n = n /\ r.s = d
      BY <1>2 DEF d
    <2> QED BY <2>1, <2>3, <2>4, <2>5, <2>6 DEF SaneNumber, w
  <1>9. CASE t # 16 /\ t \in SignedStd
    <2>1. n \in {-m, -1, 0, 1, m - 1}
      BY <1>2, <1>6, <1>9 DEF Edges, top, TypeBool
    <2>2. n \in Int /\ 2 * n >= -top /\ 2 * n < top
      BY <1>4, <1>5, <1>7, <2>1
    <2> DEFINE d == Digits(n, w)
    <2>3. d \in Seq(Digit) /\ Len(d) = w /\ Signed(d) = n
      BY <1>3, <2>2, DigitsType, SignedOfDigits DEF top
    <2>4. r.type = t /\ r.n = n /\ r.s = d
      BY <1>2
    <2> HIDE DEF d
    <2> QED BY <1>9, <2>3, <2>4 DEF SaneNumber, w
  <1>10. CASE t # 16 /\ t \notin SignedStd
    <2>1. n \in {0, 1, m - 1, m, top - 1}
      BY <1>2, <1>6, <1>10 DEF Edges, top, TypeBool
    <2>2. n \in Int /\ 0 <= n /\ n < top
      BY <1>4, <1>5, <1>7, <2>1
    <2> DEFINE d == Digits(n, w)
    <2>3. d \in Seq(Digit) /\ Len(d) = w /\ Number(d) = n
      BY <1>3, <2>2, DigitsType, NumberOfDigits DEF top
    <2>4. r.type = t /\ r.n = n /\ r.s = d
      BY <1>2
    <2> HIDE DEF d
    <2> QED BY <1>10, <2>3, <2>4 DEF SaneNumber, w
  <1> QED BY <1>8, <1>9, <1>10

\* The payloads of bits and strings.
LEMMA Ramp ==
    ASSUME NEW k \in Nat
    PROVE  LET s == [i \in 1 .. k |-> i % Base] IN s \in Seq(Digit) /\ Len(s) = k
  <1>1. ASSUME NEW i \in 1 .. k PROVE i % Base \in Digit
    BY DivMod
  <1> QED BY <1>1

LEMMA OpaquesAreSane == ASSUME NEW r \in OpaqueRecords PROVE SaneOpaque(r)
  <1>1. PICK t \in Opaque : r = [type |-> t, n |-> 0, s |-> [i \in 1 .. StdWidth(t) |-> i % Base]]
    BY DEF OpaqueRecords
  <1> DEFINE s == [i \in 1 .. StdWidth(t) |-> i % Base]
  <1>2. StdWidth(t) \in Nat
    <2>1. t \in LibraryTypes \cup OtherTypes
      BY DEF Opaque, LibraryTypes
    <2> QED BY <2>1, NumberWidth
  <1>3. s \in Seq(Digit) /\ Len(s) = StdWidth(t)
    BY <1>2, Ramp
  <1>4. r.type = t /\ r.s = s
    BY <1>1
  <1> HIDE DEF s
  <1> QED BY <1>3, <1>4 DEF SaneOpaque

LEMMA ShortString ==
    ASSUME NEW t \in 65 .. 68, NEW s \in Seq(Digit), Len(s) <= Base - 2, NEW r, r.type = t, r.s = s
    PROVE  SaneString(r, 1) \/ SaneString(r, 2)
  <1>1. Base \in Int /\ Pow(1) \in Nat /\ Pow(1) >= Base /\ Pow(2) \in Nat /\ Pow(2) >= Base /\ Len(s) \in Nat
    <2>1. 1 \in Nat /\ 1 >= 1 /\ 2 \in Nat /\ 2 >= 1
      OBVIOUS
    <2>2. Pow(1) \in Nat /\ Pow(1) >= Base
      BY <2>1, PowFacts, Zenon
    <2>3. Pow(2) \in Nat /\ Pow(2) >= Base
      BY <2>1, PowFacts, Zenon
    <2>4. Base \in Int /\ Len(s) \in Nat
      BY BaseFacts, LenProperties
    <2> QED BY <2>2, <2>3, <2>4
  <1>2. ~(Len(s) > Pow(1) - 2) /\ ~(Len(s) > Pow(2) - 2) /\ Len(s) <= Base - 1
    BY <1>1
  <1>3. t \in {65, 66} \/ t \in {67, 68}
    OBVIOUS
  <1> QED BY <1>2, <1>3 DEF SaneString, StringFits

LEMMA StringsAreSane == ASSUME NEW r \in StringRecords PROVE SaneString(r, 1) \/ SaneString(r, 2)
  <1>1. PICK t \in 65 .. 68, k \in {0, 1, Base - 2} : r = [type |-> t, n |-> 0, s |-> [i \in 1 .. k |-> i % Base]]
    BY DEF StringRecords
  <1>2. k \in Nat /\ k <= Base - 2
    BY DigitIsByte
  <1> DEFINE s == [i \in 1 .. k |-> i % Base]
  <1>3. s \in Seq(Digit) /\ Len(s) = k
    BY <1>2, Ramp
  <1>4. r.type = t /\ r.s = s
    BY <1>1
  <1> HIDE DEF s
  <1> QED BY <1>2, <1>3, <1>4, ShortString

LEMMA FollowerIsSane == SaneNumber(Follower) /\ recordMeans(Follower) = <<1, <<>>>> /\ Follower.type = 32
  <1> DEFINE d == <<1>>
  <1>1. 1 \in Digit
    BY BaseFacts DEF Digit
  <1>2. d \in Seq(Digit) /\ Len(d) = 1 /\ d[1] = 1
    BY <1>1
  <1>3. Follower.type = 32 /\ Follower.n = 1 /\ Follower.s = d
    BY DEF Follower
  <1> HIDE DEF d
  <1>4. Number(d) = 1
    BY <1>2, NumberType
  <1>5. StdWidth(32) = 1 /\ 32 \notin SignedStd /\ 32 \in LibraryTypes /\ 32 \notin Opaque
    BY DEF StdWidth, SignedStd, LibraryTypes, Opaque, TypeBool
  <1>6. 32 \in NumberTypes
    BY <1>5 DEF NumberTypes
  <1>7. SaneNumber(Follower)
    BY <1>2, <1>3, <1>4, <1>5, <1>6 DEF SaneNumber
  <1>8. recordMeans(Follower) = <<1, <<>>>>
    BY <1>3, <1>5, Zenon DEF recordMeans
  <1> QED BY <1>3, <1>7, <1>8

-----------------------------------------------------------------------------
(* A ZCL frame in a data indication.                                       *)

\* The header of an indication and of a request, each of 24 bytes.
apsHeader(n, c) ==
    <<21>> \o LE16(n) \o <<0>> \o LE16(Short) \o <<0, 0, 0, 0, 1, 3>> \o LE16(c)
    \o LE16(260) \o <<8, 0, 0, 0, 0, 200, 180, 0>>
reqHeader(n) ==
    <<21>> \o LE16(n) \o LE16(Short) \o <<0, 0, 0, 0, 0, 0>> \o LE16(260) \o LE16(64704)
    \o <<3, 1, 30, 2, 4, 0, 0, 0, 0>>

LEMMA ApsHeader ==
    ASSUME NEW n \in Word, NEW c \in Word
    PROVE  LET h == apsHeader(n, c)
           IN  /\ h \in Seq(Byte) /\ Len(h) = 24 /\ h[2] = n % 256 /\ h[3] = (n \div 256) % 256
               /\ h[5] = 239 /\ h[6] = 190 /\ h[12] = 3 /\ h[13] = c % 256 /\ h[14] = (c \div 256) % 256
  <1>2. /\ 0 \in Byte /\ 1 \in Byte /\ 2 \in Byte /\ 3 \in Byte /\ 4 \in Byte /\ 8 \in Byte /\ 21 \in Byte /\ 30 \in Byte
        /\ 180 \in Byte /\ 200 \in Byte /\ 239 \in Byte /\ 190 \in Byte /\ 252 \in Byte /\ 192 \in Byte
    BY ByteFacts
  <1> DEFINE p1 == <<21>>
             p2 == LE16(n)
             p3 == <<0>>
             p4 == LE16(Short)
             p5 == <<0, 0, 0, 0, 1, 3>>
             p6 == LE16(c)
             p7 == LE16(260)
             p8 == <<8, 0, 0, 0, 0, 200, 180, 0>>
             s2 == p1 \o p2
             s3 == s2 \o p3
             s4 == s3 \o p4
             s5 == s4 \o p5
             s6 == s5 \o p6
             s7 == s6 \o p7
             s8 == s7 \o p8
  <1>3. p1 \in Seq(Byte) /\ Len(p1) = 1
    BY <1>2
  <1>4. p2 \in Seq(Byte) /\ Len(p2) = 2 /\ p2[1] = n % 256 /\ p2[2] = (n \div 256) % 256
    BY WordBytes DEF LE16
  <1>5. p3 \in Seq(Byte) /\ Len(p3) = 1
    BY <1>2
  <1>6. p4 \in Seq(Byte) /\ Len(p4) = 2 /\ p4[1] = 239 /\ p4[2] = 190
    BY <1>2 DEF LE16, Short
  <1>7. p5 \in Seq(Byte) /\ Len(p5) = 6 /\ p5[6] = 3
    BY <1>2
  <1>8. p6 \in Seq(Byte) /\ Len(p6) = 2 /\ p6[1] = c % 256 /\ p6[2] = (c \div 256) % 256
    BY WordBytes DEF LE16
  <1>9. p7 \in Seq(Byte) /\ Len(p7) = 2
    BY <1>2 DEF LE16
  <1>10. p8 \in Seq(Byte) /\ Len(p8) = 8
    BY <1>2
  <1> HIDE DEF p1, p2, p3, p4, p5, p6, p7, p8
  <1>11. s2 \in Seq(Byte) /\ Len(s2) = 3 /\ s2[2] = n % 256 /\ s2[3] = (n \div 256) % 256
    <2>1. p1 \in Seq(Byte) /\ p2 \in Seq(Byte)
      BY <1>3, <1>4
    <2> HIDE DEF p1
    <2>2. /\ s2 \in Seq(Byte) /\ Len(s2) = Len(p1) + Len(p2)
          /\ \A i \in 1 .. Len(p1) : s2[i] = p1[i]
          /\ \A i \in 1 .. Len(p2) : s2[Len(p1) + i] = p2[i]
      BY <2>1, Parts
    <2> HIDE DEF s2
    <2> QED BY <1>3, <1>4, <2>2
  <1>12. s3 \in Seq(Byte) /\ Len(s3) = 4 /\ s3[2] = n % 256 /\ s3[3] = (n \div 256) % 256
    <2>1. s2 \in Seq(Byte) /\ p3 \in Seq(Byte)
      BY <1>11, <1>5
    <2> HIDE DEF s2
    <2>2. /\ s3 \in Seq(Byte) /\ Len(s3) = Len(s2) + Len(p3)
          /\ \A i \in 1 .. Len(s2) : s3[i] = s2[i]
          /\ \A i \in 1 .. Len(p3) : s3[Len(s2) + i] = p3[i]
      BY <2>1, Parts
    <2> HIDE DEF s3
    <2> QED BY <1>11, <1>5, <2>2
  <1>13. s4 \in Seq(Byte) /\ Len(s4) = 6 /\ s4[2] = n % 256 /\ s4[3] = (n \div 256) % 256 /\ s4[5] = 239 /\ s4[6] = 190
    <2>1. s3 \in Seq(Byte) /\ p4 \in Seq(Byte)
      BY <1>12, <1>6
    <2> HIDE DEF s3
    <2>2. /\ s4 \in Seq(Byte) /\ Len(s4) = Len(s3) + Len(p4)
          /\ \A i \in 1 .. Len(s3) : s4[i] = s3[i]
          /\ \A i \in 1 .. Len(p4) : s4[Len(s3) + i] = p4[i]
      BY <2>1, Parts
    <2> HIDE DEF s4
    <2> QED BY <1>12, <1>6, <2>2
  <1>14. s5 \in Seq(Byte) /\ Len(s5) = 12 /\ s5[2] = n % 256 /\ s5[3] = (n \div 256) % 256 /\ s5[5] = 239 /\ s5[6] = 190 /\ s5[12] = 3
    <2>1. s4 \in Seq(Byte) /\ p5 \in Seq(Byte)
      BY <1>13, <1>7
    <2> HIDE DEF s4
    <2>2. /\ s5 \in Seq(Byte) /\ Len(s5) = Len(s4) + Len(p5)
          /\ \A i \in 1 .. Len(s4) : s5[i] = s4[i]
          /\ \A i \in 1 .. Len(p5) : s5[Len(s4) + i] = p5[i]
      BY <2>1, Parts
    <2> HIDE DEF s5
    <2> QED BY <1>13, <1>7, <2>2
  <1>15. s6 \in Seq(Byte) /\ Len(s6) = 14 /\ s6[2] = n % 256 /\ s6[3] = (n \div 256) % 256 /\ s6[5] = 239 /\ s6[6] = 190 /\ s6[12] = 3 /\ s6[13] = c % 256 /\ s6[14] = (c \div 256) % 256
    <2>1. s5 \in Seq(Byte) /\ p6 \in Seq(Byte)
      BY <1>14, <1>8
    <2> HIDE DEF s5
    <2>2. /\ s6 \in Seq(Byte) /\ Len(s6) = Len(s5) + Len(p6)
          /\ \A i \in 1 .. Len(s5) : s6[i] = s5[i]
          /\ \A i \in 1 .. Len(p6) : s6[Len(s5) + i] = p6[i]
      BY <2>1, Parts
    <2> HIDE DEF s6
    <2> QED BY <1>14, <1>8, <2>2
  <1>16. s7 \in Seq(Byte) /\ Len(s7) = 16 /\ s7[2] = n % 256 /\ s7[3] = (n \div 256) % 256 /\ s7[5] = 239 /\ s7[6] = 190 /\ s7[12] = 3 /\ s7[13] = c % 256 /\ s7[14] = (c \div 256) % 256
    <2>1. s6 \in Seq(Byte) /\ p7 \in Seq(Byte)
      BY <1>15, <1>9
    <2> HIDE DEF s6
    <2>2. /\ s7 \in Seq(Byte) /\ Len(s7) = Len(s6) + Len(p7)
          /\ \A i \in 1 .. Len(s6) : s7[i] = s6[i]
          /\ \A i \in 1 .. Len(p7) : s7[Len(s6) + i] = p7[i]
      BY <2>1, Parts
    <2> HIDE DEF s7
    <2> QED BY <1>15, <1>9, <2>2
  <1>17. s8 \in Seq(Byte) /\ Len(s8) = 24 /\ s8[2] = n % 256 /\ s8[3] = (n \div 256) % 256 /\ s8[5] = 239 /\ s8[6] = 190 /\ s8[12] = 3 /\ s8[13] = c % 256 /\ s8[14] = (c \div 256) % 256
    <2>1. s7 \in Seq(Byte) /\ p8 \in Seq(Byte)
      BY <1>16, <1>10
    <2> HIDE DEF s7
    <2>2. /\ s8 \in Seq(Byte) /\ Len(s8) = Len(s7) + Len(p8)
          /\ \A i \in 1 .. Len(s7) : s8[i] = s7[i]
          /\ \A i \in 1 .. Len(p8) : s8[Len(s7) + i] = p8[i]
      BY <2>1, Parts
    <2> HIDE DEF s8
    <2> QED BY <1>16, <1>10, <2>2
  <1>18. apsHeader(n, c) = s8
    BY DEF apsHeader, p1, p2, p3, p4, p5, p6, p7, p8
  <1> HIDE DEF s8
  <1> QED BY <1>17, <1>18, Zenon

LEMMA ReqHeader ==
    ASSUME NEW n \in Word
    PROVE  LET h == reqHeader(n)
           IN  h \in Seq(Byte) /\ Len(h) = 24 /\ h[2] = n % 256 /\ h[3] = (n \div 256) % 256
  <1>2. /\ 0 \in Byte /\ 1 \in Byte /\ 2 \in Byte /\ 3 \in Byte /\ 4 \in Byte /\ 8 \in Byte /\ 21 \in Byte /\ 30 \in Byte
        /\ 180 \in Byte /\ 200 \in Byte /\ 239 \in Byte /\ 190 \in Byte /\ 252 \in Byte /\ 192 \in Byte
    BY ByteFacts
  <1> DEFINE p1 == <<21>>
             p2 == LE16(n)
             p3 == LE16(Short)
             p4 == <<0, 0, 0, 0, 0, 0>>
             p5 == LE16(260)
             p6 == LE16(64704)
             p7 == <<3, 1, 30, 2, 4, 0, 0, 0, 0>>
             s2 == p1 \o p2
             s3 == s2 \o p3
             s4 == s3 \o p4
             s5 == s4 \o p5
             s6 == s5 \o p6
             s7 == s6 \o p7
  <1>3. p1 \in Seq(Byte) /\ Len(p1) = 1
    BY <1>2
  <1>4. p2 \in Seq(Byte) /\ Len(p2) = 2 /\ p2[1] = n % 256 /\ p2[2] = (n \div 256) % 256
    BY WordBytes DEF LE16
  <1>5. p3 \in Seq(Byte) /\ Len(p3) = 2
    BY <1>2 DEF LE16, Short
  <1>6. p4 \in Seq(Byte) /\ Len(p4) = 6
    BY <1>2
  <1>7. p5 \in Seq(Byte) /\ Len(p5) = 2
    BY <1>2 DEF LE16
  <1>8. p6 \in Seq(Byte) /\ Len(p6) = 2
    BY <1>2 DEF LE16
  <1>9. p7 \in Seq(Byte) /\ Len(p7) = 9
    BY <1>2
  <1> HIDE DEF p1, p2, p3, p4, p5, p6, p7
  <1>10. s2 \in Seq(Byte) /\ Len(s2) = 3 /\ s2[2] = n % 256 /\ s2[3] = (n \div 256) % 256
    <2>1. p1 \in Seq(Byte) /\ p2 \in Seq(Byte)
      BY <1>3, <1>4
    <2> HIDE DEF p1
    <2>2. /\ s2 \in Seq(Byte) /\ Len(s2) = Len(p1) + Len(p2)
          /\ \A i \in 1 .. Len(p1) : s2[i] = p1[i]
          /\ \A i \in 1 .. Len(p2) : s2[Len(p1) + i] = p2[i]
      BY <2>1, Parts
    <2> HIDE DEF s2
    <2> QED BY <1>3, <1>4, <2>2
  <1>11. s3 \in Seq(Byte) /\ Len(s3) = 5 /\ s3[2] = n % 256 /\ s3[3] = (n \div 256) % 256
    <2>1. s2 \in Seq(Byte) /\ p3 \in Seq(Byte)
      BY <1>10, <1>5
    <2> HIDE DEF s2
    <2>2. /\ s3 \in Seq(Byte) /\ Len(s3) = Len(s2) + Len(p3)
          /\ \A i \in 1 .. Len(s2) : s3[i] = s2[i]
          /\ \A i \in 1 .. Len(p3) : s3[Len(s2) + i] = p3[i]
      BY <2>1, Parts
    <2> HIDE DEF s3
    <2> QED BY <1>10, <1>5, <2>2
  <1>12. s4 \in Seq(Byte) /\ Len(s4) = 11 /\ s4[2] = n % 256 /\ s4[3] = (n \div 256) % 256
    <2>1. s3 \in Seq(Byte) /\ p4 \in Seq(Byte)
      BY <1>11, <1>6
    <2> HIDE DEF s3
    <2>2. /\ s4 \in Seq(Byte) /\ Len(s4) = Len(s3) + Len(p4)
          /\ \A i \in 1 .. Len(s3) : s4[i] = s3[i]
          /\ \A i \in 1 .. Len(p4) : s4[Len(s3) + i] = p4[i]
      BY <2>1, Parts
    <2> HIDE DEF s4
    <2> QED BY <1>11, <1>6, <2>2
  <1>13. s5 \in Seq(Byte) /\ Len(s5) = 13 /\ s5[2] = n % 256 /\ s5[3] = (n \div 256) % 256
    <2>1. s4 \in Seq(Byte) /\ p5 \in Seq(Byte)
      BY <1>12, <1>7
    <2> HIDE DEF s4
    <2>2. /\ s5 \in Seq(Byte) /\ Len(s5) = Len(s4) + Len(p5)
          /\ \A i \in 1 .. Len(s4) : s5[i] = s4[i]
          /\ \A i \in 1 .. Len(p5) : s5[Len(s4) + i] = p5[i]
      BY <2>1, Parts
    <2> HIDE DEF s5
    <2> QED BY <1>12, <1>7, <2>2
  <1>14. s6 \in Seq(Byte) /\ Len(s6) = 15 /\ s6[2] = n % 256 /\ s6[3] = (n \div 256) % 256
    <2>1. s5 \in Seq(Byte) /\ p6 \in Seq(Byte)
      BY <1>13, <1>8
    <2> HIDE DEF s5
    <2>2. /\ s6 \in Seq(Byte) /\ Len(s6) = Len(s5) + Len(p6)
          /\ \A i \in 1 .. Len(s5) : s6[i] = s5[i]
          /\ \A i \in 1 .. Len(p6) : s6[Len(s5) + i] = p6[i]
      BY <2>1, Parts
    <2> HIDE DEF s6
    <2> QED BY <1>13, <1>8, <2>2
  <1>15. s7 \in Seq(Byte) /\ Len(s7) = 24 /\ s7[2] = n % 256 /\ s7[3] = (n \div 256) % 256
    <2>1. s6 \in Seq(Byte) /\ p7 \in Seq(Byte)
      BY <1>14, <1>9
    <2> HIDE DEF s6
    <2>2. /\ s7 \in Seq(Byte) /\ Len(s7) = Len(s6) + Len(p7)
          /\ \A i \in 1 .. Len(s6) : s7[i] = s6[i]
          /\ \A i \in 1 .. Len(p7) : s7[Len(s6) + i] = p7[i]
      BY <2>1, Parts
    <2> HIDE DEF s7
    <2> QED BY <1>14, <1>9, <2>2
  <1>16. reqHeader(n) = s7
    BY DEF reqHeader, p1, p2, p3, p4, p5, p6, p7
  <1> HIDE DEF s7
  <1> QED BY <1>15, <1>16, Zenon

zclHeader(mfr, fc, cmd) == IF mfr THEN <<fc + 4, 95, 17, 9, cmd>> ELSE <<fc, 9, cmd>>

LEMMA ZclHeader ==
    ASSUME NEW mfr \in BOOLEAN, NEW fc \in {8, 9}, NEW cmd \in Byte
    PROVE  LET h == zclHeader(mfr, fc, cmd)
           IN  /\ h \in Seq(Byte) /\ Len(h) \in {3, 5} /\ zclHdrLen(h[1]) = Len(h)
               /\ h[Len(h)] = cmd /\ h[Len(h) - 1] = 9 /\ h[1] % 4 = fc - 8
  <1>1. 8 \in Byte /\ 9 \in Byte /\ 12 \in Byte /\ 13 \in Byte /\ 17 \in Byte /\ 95 \in Byte
    BY ByteFacts
  <1>2. CASE mfr
    <2> DEFINE f == fc + 4
               h == <<f, 95, 17, 9, cmd>>
    <2>1. f \in {12, 13} /\ f \in Byte /\ f % 4 = fc - 8
      BY <1>1
    <2>2. zclHdrLen(f) = 5
      BY <2>1 DEF zclHdrLen
    <2>3. zclHeader(mfr, fc, cmd) = h
      BY <1>2 DEF zclHeader
    <2> HIDE DEF f
    <2>4. h \in Seq(Byte) /\ Len(h) = 5 /\ h[1] = f /\ h[5] = cmd /\ h[4] = 9
      BY <1>1, <2>1
    <2> HIDE DEF h
    <2>5. Len(h) - 1 = 4
      BY <2>4
    <2> QED BY <2>1, <2>2, <2>3, <2>4, <2>5
  <1>3. CASE ~mfr
    <2> DEFINE h == <<fc, 9, cmd>>
    <2>1. fc \in Byte /\ fc % 4 = fc - 8
      BY <1>1
    <2>2. zclHdrLen(fc) = 3
      BY DEF zclHdrLen
    <2>3. zclHeader(mfr, fc, cmd) = h
      BY <1>3 DEF zclHeader
    <2>4. h \in Seq(Byte) /\ Len(h) = 3 /\ h[1] = fc /\ h[3] = cmd /\ h[2] = 9
      BY <1>1, <2>1, Triple
    <2> HIDE DEF h
    <2>5. Len(h) - 1 = 2
      BY <2>4
    <2> QED BY <2>1, <2>2, <2>3, <2>4, <2>5
  <1> QED BY <1>2, <1>3

\* What handleAPSDEDataInd hands on of it.
Evt(to, c, data) == [to |-> to, src |-> 48879, ep |-> 3, cluster |-> c, seq |-> 9, data |-> data]
Dispatch(lp, n, zcl, l, c, cmd, src, ep, seq, body) ==
    LET evt(to, data) == [to |-> to, src |-> src, ep |-> ep, cluster |-> c, seq |-> seq, data |-> data]
    IN  IF lp < 25 THEN None
        ELSE IF n = 0 \/ lp < 24 + n \/ Len(zcl) < 3 THEN None
        ELSE IF Len(zcl) < l THEN None
        ELSE CASE zcl[1] % 4 = 1 /\ c = 25 /\ cmd = 1 -> evt("ota", <<>>)
               [] zcl[1] % 4 = 1 /\ ~(c = 25 /\ cmd = 1) -> evt("command", body)
               [] zcl[1] % 4 = 0 /\ cmd = 1 -> evt("response", parseAttributeResponses(body))
               [] zcl[1] % 4 = 0 /\ cmd = 10 -> evt("report", zclParseAttributeReports(body))
               [] OTHER -> None
apsFrame(mfr, fc, cmd, c, body) ==
    LET zcl == zclHeader(mfr, fc, cmd) \o body IN apsHeader(Len(zcl), c) \o zcl

LEMMA ApsReads ==
    ASSUME NEW mfr \in BOOLEAN, NEW fc \in {8, 9}, NEW cmd \in Byte, NEW c \in Word, c # 25,
           NEW body \in Seq(Byte), Len(body) <= Base + 11
    PROVE  LET p == apsFrame(mfr, fc, cmd, c, body)
           IN  /\ p \in Seq(Byte) /\ Len(p) <= Base + 55
               /\ fc = 9 => handleAPSDEDataInd(p) = Evt("command", c, body)
               /\ fc = 8 /\ cmd = 1 => handleAPSDEDataInd(p) = Evt("response", c, parseAttributeResponses(body))
               /\ fc = 8 /\ cmd = 10 => handleAPSDEDataInd(p) = Evt("report", c, zclParseAttributeReports(body))
  <1> DEFINE zh == zclHeader(mfr, fc, cmd)
             zcl == zh \o body
             L == Len(zh)
             ah == apsHeader(Len(zcl), c)
             p == ah \o zcl
  <1>1. /\ zh \in Seq(Byte) /\ L \in {3, 5} /\ zclHdrLen(zh[1]) = L
        /\ zh[L] = cmd /\ zh[L - 1] = 9 /\ zh[1] % 4 = fc - 8
    BY ZclHeader
  <1> HIDE DEF zh
  <1>2. zh \in Seq(Byte) /\ L \in Nat /\ Len(body) \in Nat
    BY <1>1, LenProperties
  <1>3. /\ zcl \in Seq(Byte) /\ Len(zcl) = L + Len(body) /\ \A i \in 1 .. L : zcl[i] = zh[i]
        /\ SubSeq(zcl, L + 1, L + Len(body)) = body
    BY <1>2, Parts, Suffix
  <1> HIDE DEF zcl, L
  <1>4. zcl[1] = zh[1] /\ zcl[L] = cmd /\ zcl[L - 1] = 9 /\ zclHdrLen(zcl[1]) = L /\ zcl[1] % 4 = fc - 8
    <2>1. 1 \in 1 .. L /\ L \in 1 .. L /\ L - 1 \in 1 .. L
      BY <1>1
    <2>2. zcl[1] = zh[1] /\ zcl[L] = zh[L] /\ zcl[L - 1] = zh[L - 1]
      BY <1>3, <2>1
    <2> QED BY <1>1, <2>2
  <1>5. From(zcl, L + 1) = body
    BY <1>3 DEF From
  <1>6. Len(zcl) \in Word /\ Len(zcl) >= 3 /\ Len(zcl) >= L /\ Len(zcl) <= Base + 16 /\ zcl \in Seq(Byte)
    <2>1. Len(zcl) = L + Len(body) /\ L \in {3, 5} /\ Len(body) \in Nat /\ Len(body) <= Base + 11
      BY <1>1, <1>2, <1>3
    <2>2. Base \in Int /\ Base <= 256
      BY DigitIsByte
    <2>3. /\ Len(zcl) \in Int /\ 0 <= Len(zcl) /\ Len(zcl) <= 65535
          /\ Len(zcl) >= 3 /\ Len(zcl) >= L /\ Len(zcl) <= Base + 16
      BY <2>1, <2>2
    <2>4. Len(zcl) \in Word
      BY <2>3, WordFacts
    <2> QED BY <1>3, <2>3, <2>4
  <1>7. /\ ah \in Seq(Byte) /\ Len(ah) = 24 /\ ah[2] = Len(zcl) % 256 /\ ah[3] = (Len(zcl) \div 256) % 256
        /\ ah[5] = 239 /\ ah[6] = 190 /\ ah[12] = 3 /\ ah[13] = c % 256 /\ ah[14] = (c \div 256) % 256
    BY <1>6, ApsHeader
  <1> HIDE DEF ah
  <1>8. ah \in Seq(Byte) /\ zcl \in Seq(Byte)
    BY <1>6, <1>7
  <1>9. /\ p \in Seq(Byte) /\ Len(p) = Len(ah) + Len(zcl) /\ \A i \in 1 .. Len(ah) : p[i] = ah[i]
        /\ SubSeq(p, Len(ah) + 1, Len(ah) + Len(zcl)) = zcl
    BY <1>8, Parts, Suffix
  <1> HIDE DEF p
  <1>10. /\ p[2] = Len(zcl) % 256 /\ p[3] = (Len(zcl) \div 256) % 256
         /\ p[5] = 239 /\ p[6] = 190 /\ p[12] = 3 /\ p[13] = c % 256 /\ p[14] = (c \div 256) % 256
    <2>1. 2 \in 1 .. 24 /\ 3 \in 1 .. 24 /\ 5 \in 1 .. 24 /\ 6 \in 1 .. 24 /\ 12 \in 1 .. 24 /\ 13 \in 1 .. 24 /\ 14 \in 1 .. 24
      OBVIOUS
    <2>2. \A i \in 1 .. 24 : p[i] = ah[i]
      BY <1>7, <1>9, Zenon
    <2>3. p[2] = ah[2] /\ p[3] = ah[3] /\ p[5] = ah[5] /\ p[6] = ah[6] /\ p[12] = ah[12] /\ p[13] = ah[13] /\ p[14] = ah[14]
      BY <2>1, <2>2
    <2> QED BY <1>7, <2>3
  <1>11. Uint16(p[2], p[3]) = Len(zcl) /\ Uint16(p[13], p[14]) = c
    <2>1. Uint16(Len(zcl) % 256, (Len(zcl) \div 256) % 256) = Len(zcl)
      BY <1>6, WordBytes, Zenon
    <2>2. Uint16(c % 256, (c \div 256) % 256) = c
      BY WordBytes, Zenon
    <2>3. p[2] = Len(zcl) % 256 /\ p[3] = (Len(zcl) \div 256) % 256
      BY <1>10, Zenon
    <2>4. p[13] = c % 256 /\ p[14] = (c \div 256) % 256
      BY <1>10, Zenon
    <2>5. Uint16(p[2], p[3]) = Len(zcl)
      BY <2>1, <2>3, Zenon
    <2>6. Uint16(p[13], p[14]) = c
      BY <2>2, <2>4, Zenon
    <2> QED BY <2>5, <2>6
  <1>12. Uint16(p[5], p[6]) = 48879
    BY <1>10 DEF Uint16
  <1>13. SubSeq(p, 25, 24 + Len(zcl)) = zcl
    <2>1. Len(ah) + 1 = 25 /\ Len(ah) + Len(zcl) = 24 + Len(zcl)
      BY <1>7
    <2> QED BY <1>9, <2>1, Zenon
  <1>14. Len(p) = 24 + Len(zcl) /\ Len(zcl) \in Int
    BY <1>6, <1>7, <1>9, WordFacts
  <1>15. ~(Len(p) < 25) /\ ~(Len(zcl) = 0 \/ Len(p) < 24 + Len(zcl) \/ Len(zcl) < 3) /\ ~(Len(zcl) < L) /\ Len(p) <= Base + 55
    <2>1. Len(zcl) \in Int /\ Len(zcl) >= 3 /\ Len(zcl) <= Base + 16 /\ Len(p) = 24 + Len(zcl) /\ Base \in Int
      BY <1>6, <1>14, DigitIsByte
    <2>2. Len(zcl) >= L /\ L \in Int
      BY <1>1, <1>6
    <2>3. ~(Len(p) < 25) /\ ~(Len(zcl) = 0 \/ Len(p) < 24 + Len(zcl) \/ Len(zcl) < 3) /\ Len(p) <= Base + 55
      BY <2>1
    <2>4. ~(Len(zcl) < L)
      BY <2>1, <2>2
    <2> QED BY <2>3, <2>4
  <1> DEFINE z == zcl[1]
             A == Evt("ota", c, <<>>)
             B == Evt("command", c, body)
             C == Evt("response", c, parseAttributeResponses(body))
             D == Evt("report", c, zclParseAttributeReports(body))
  <1>16. handleAPSDEDataInd(p) = Dispatch(Len(p), Len(zcl), zcl, L, c, cmd, 48879, 3, 9, body)
    <2> DEFINE n == Uint16(p[2], p[3])
               q == SubSeq(p, 25, 24 + n)
    <2>1. handleAPSDEDataInd(p) =
            LET l == zclHdrLen(q[1])
            IN  Dispatch(Len(p), n, q, l, Uint16(p[13], p[14]), q[l], Uint16(p[5], p[6]), p[12], q[l - 1], From(q, l + 1))
      BY Zenon DEF handleAPSDEDataInd, Dispatch
    <2>2. /\ Uint16(p[2], p[3]) = Len(zcl) /\ Uint16(p[13], p[14]) = c /\ Uint16(p[5], p[6]) = 48879 /\ p[12] = 3
          /\ SubSeq(p, 25, 24 + Len(zcl)) = zcl /\ zclHdrLen(zcl[1]) = L /\ zcl[L] = cmd /\ zcl[L - 1] = 9
          /\ From(zcl, L + 1) = body
      BY <1>4, <1>5, <1>10, <1>11, <1>12, <1>13
    <2>5. n = Len(zcl) /\ q = zcl
      BY <2>2
    <2> HIDE DEF n, q
    <2>3. handleAPSDEDataInd(p) =
            LET l == zclHdrLen(zcl[1])
            IN  Dispatch(Len(p), Len(zcl), zcl, l, c, zcl[l], 48879, 3, zcl[l - 1], From(zcl, l + 1))
      BY <2>1, <2>2, <2>5
    <2>4. handleAPSDEDataInd(p) = Dispatch(Len(p), Len(zcl), zcl, L, c, zcl[L], 48879, 3, zcl[L - 1], From(zcl, L + 1))
      BY <2>2, <2>3
    <2> QED BY <2>2, <2>4
  <1> HIDE DEF A, B, C, D
  <1>17. /\ fc = 9 => handleAPSDEDataInd(p) = B
         /\ fc = 8 /\ cmd = 1 => handleAPSDEDataInd(p) = C
         /\ fc = 8 /\ cmd = 10 => handleAPSDEDataInd(p) = D
    <2>1. z % 4 = fc - 8
      BY <1>4
    <2> HIDE DEF z
    <2>2. handleAPSDEDataInd(p) =
            CASE z % 4 = 1 /\ c = 25 /\ cmd = 1 -> A
              [] z % 4 = 1 /\ ~(c = 25 /\ cmd = 1) -> B
              [] z % 4 = 0 /\ cmd = 1 -> C
              [] z % 4 = 0 /\ cmd = 10 -> D
              [] OTHER -> None
      <3>1. Dispatch(Len(p), Len(zcl), zcl, L, c, cmd, 48879, 3, 9, body) =
            IF Len(p) < 25 THEN None
            ELSE IF Len(zcl) = 0 \/ Len(p) < 24 + Len(zcl) \/ Len(zcl) < 3 THEN None
            ELSE IF Len(zcl) < L THEN None
            ELSE CASE z % 4 = 1 /\ c = 25 /\ cmd = 1 -> A
                   [] z % 4 = 1 /\ ~(c = 25 /\ cmd = 1) -> B
                   [] z % 4 = 0 /\ cmd = 1 -> C
                   [] z % 4 = 0 /\ cmd = 10 -> D
                   [] OTHER -> None
        BY DEF Dispatch, z, Evt, A, B, C, D
      <3> QED BY <1>15, <1>16, <3>1
    <2> QED BY <2>1, <2>2
  <1>18. p = apsFrame(mfr, fc, cmd, c, body)
    BY Zenon DEF apsFrame, p, ah, zcl, zh
  <1> QED BY <1>9, <1>15, <1>17, <1>18, Zenon DEF A, B, C, D

-----------------------------------------------------------------------------
(* Messages and what is understood of them.                                *)

\* The bytes that zbossDecodeFrame gets.
Unframed(raw) == IF framing = "hdlc" THEN hdlcDecode(raw) ELSE raw

\* The frame of m is one that a reader takes, and is understood as it is meant.
Good(m) ==
    /\ Readable(zbossBytes(m)) /\ Meant(m) \in Understood
    /\ \A raw : Unframed(raw) = zbossBytes(m) => understand(raw) = Meant(m)

LEMMA IndicationUnderstood ==
    ASSUME NEW callID \in Word, NEW payload \in Seq(Byte), Len(payload) <= Base + 55,
           NEW raw, Unframed(raw) = indication(callID, payload)
    PROVE  understand(raw) = handleIndication(IndicationFrame(callID, payload))
  <1> DEFINE d == indication(callID, payload)
             f == IndicationFrame(callID, payload)
  <1>1. d \in Seq(Byte) /\ zbossDecodeFrame(d) = f
    BY IndicationDecodes DEF Readable
  <1>2. f \in HLFrame
    <2>1. 196 \in Byte /\ 0 \in Byte
      BY ByteFacts
    <2>2. <<0, 0>> \in Byte \X Byte /\ 2 \in 0 .. 2
      BY <2>1
    <2> QED BY <2>1, <2>2 DEF HLFrame, IndicationFrame
  <1>3. f.flags = 196 /\ f.packetType = 2
    BY DEF IndicationFrame
  <1> HIDE DEF d, f
  <1>4. d # Err
    BY <1>1, ErrAssumption
  <1>5. f # Err /\ f # Panic
    BY <1>2, ErrAssumption, PanicAssumption
  <1>6. ~zbossLLIsACK(f.flags)
    BY <1>3 DEF zbossLLIsACK
  <1>7. understand(raw) =
          IF d = Err THEN None
          ELSE IF f \in {Err, Panic} THEN IF f = Panic THEN Panic ELSE None
          ELSE IF zbossLLIsACK(f.flags) THEN <<"ack", zbossLLAckSeq(f.flags)>>
          ELSE IF f.packetType = 2 THEN handleIndication(f)
          ELSE None
    <2>1. Unframed(raw) = d
      BY DEF d
    <2>2. understand(raw) =
            LET g == zbossDecodeFrame(Unframed(raw))
            IN  IF Unframed(raw) = Err THEN None
                ELSE IF g \in {Err, Panic} THEN IF g = Panic THEN Panic ELSE None
                ELSE IF zbossLLIsACK(g.flags) THEN <<"ack", zbossLLAckSeq(g.flags)>>
                ELSE IF g.packetType = 2 THEN handleIndication(g)
                ELSE None
      BY Zenon DEF understand, Unframed
    <2> QED BY <1>1, <2>1, <2>2, Zenon
  <1> QED BY <1>3, <1>4, <1>5, <1>6, <1>7, Zenon DEF f

LEMMA OneRecord ==
    ASSUME NEW R \in RecordSet, Delimited(R.type, R.value)
    PROVE  zclParseAttributeReports(recordOf(R)) = <<R>>
  <1> DEFINE recs == <<R>>
  <1>1. recs \in Seq(RecordSet) /\ Len(recs) = 1 /\ recs[1] = R
    OBVIOUS
  <1> HIDE DEF recs
  <1>2. PICK O : IsRecords(recs, O)
    BY <1>1, RecordsExist
  <1>3. \A i \in 1 .. Len(recs) : Delimited(recs[i].type, recs[i].value)
    <2>1. \A i \in 1 .. Len(recs) : i = 1
      BY <1>1
    <2> QED BY <1>1, <2>1, Zenon
  <1>4. zclParseAttributeReports(O[Len(recs)]) = recs
    BY <1>1, <1>2, <1>3, RecordsAreParsed
  <1>5. recordOf(R) \in Seq(Byte)
    BY RecordBytes
  <1>6. O[1] = recordOf(R)
    <2>1. 1 \in 1 .. Len(recs) /\ 1 - 1 = 0
      BY <1>1
    <2>2. O[1] = O[1 - 1] \o recordOf(recs[1]) /\ O[0] = <<>>
      BY <1>2, <2>1, Zenon DEF IsRecords
    <2>3. <<>> \o recordOf(R) = recordOf(R)
      BY <1>5, ConcatEmptySeq
    <2> QED BY <1>1, <2>1, <2>2, <2>3, Zenon
  <1> QED BY <1>1, <1>4, <1>6, Zenon DEF recs

LEMMA TwoRecords ==
    ASSUME NEW R \in RecordSet, Delimited(R.type, R.value), NEW Q \in RecordSet, Delimited(Q.type, Q.value)
    PROVE  zclParseAttributeReports(recordOf(R) \o recordOf(Q)) = <<R, Q>>
  <1> DEFINE recs == <<R, Q>>
  <1>1. recs \in Seq(RecordSet) /\ Len(recs) = 2 /\ recs[1] = R /\ recs[2] = Q
    OBVIOUS
  <1> HIDE DEF recs
  <1>2. PICK O : IsRecords(recs, O)
    BY <1>1, RecordsExist
  <1>3. \A i \in 1 .. Len(recs) : Delimited(recs[i].type, recs[i].value)
    <2>1. \A i \in 1 .. Len(recs) : i = 1 \/ i = 2
      BY <1>1
    <2> QED BY <1>1, <2>1, Zenon
  <1>4. zclParseAttributeReports(O[Len(recs)]) = recs
    BY <1>1, <1>2, <1>3, RecordsAreParsed
  <1>5. recordOf(R) \in Seq(Byte)
    BY RecordBytes
  <1>6. O[2] = recordOf(R) \o recordOf(Q)
    <2>1. 1 \in 1 .. Len(recs) /\ 1 - 1 = 0 /\ 2 \in 1 .. Len(recs) /\ 2 - 1 = 1
      BY <1>1
    <2>2. O[1] = O[1 - 1] \o recordOf(recs[1]) /\ O[0] = <<>> /\ O[2] = O[2 - 1] \o recordOf(recs[2])
      BY <1>2, <2>1, Zenon DEF IsRecords
    <2>3. <<>> \o recordOf(R) = recordOf(R)
      BY <1>5, ConcatEmptySeq
    <2>4. O[1] = recordOf(R)
      BY <1>1, <2>1, <2>2, <2>3, Zenon
    <2> QED BY <1>1, <2>1, <2>2, <2>4, Zenon
  <1> QED BY <1>1, <1>4, <1>6, Zenon DEF recs

\* The frames of the four kinds of message that carry ZCL.
reportRec(m, i, mid) == LE16(Attr(i)) \o mid \o <<m.recs[i].type>> \o recordBytes(m.recs[i])
tuyaPoint(m, i)      == <<i, m.recs[i].type, 0, Len(m.recs[i].d)>> \o m.recs[i].d
xiaomiTag(m, i)      == <<i, m.recs[i].type>> \o m.recs[i].s
zclReport(m)   == zclHeader(m.mfr, 8, 10) \o reportRec(m, 1, <<>>) \o reportRec(m, 2, <<>>)
zclResponse(m) == zclHeader(m.mfr, 8, 1) \o reportRec(m, 1, <<0>>) \o LE16(Attr(2)) \o <<134>>
zclTuya(m)     == zclHeader(m.mfr, 9, 2) \o <<0, 7>> \o tuyaPoint(m, 1) \o tuyaPoint(m, 2)
zclXiaomi(m)   == zclHeader(m.mfr, 8, 10) \o LE16(247) \o <<65>>
                  \o (Digits(Len(xiaomiTag(m, 1) \o xiaomiTag(m, 2)), 1) \o (xiaomiTag(m, 1) \o xiaomiTag(m, 2)))

LEMMA ZclCases ==
    ASSUME NEW m
    PROVE  /\ m.kind = "report" => zclBytes(m) = zclReport(m)
           /\ m.kind = "response" => zclBytes(m) = zclResponse(m)
           /\ m.kind = "tuya" => zclBytes(m) = zclTuya(m)
           /\ m.kind = "xiaomi" => zclBytes(m) = zclXiaomi(m)
  <1> DEFINE A == zclReport(m)
             B == zclResponse(m)
             C == zclTuya(m)
             D == zclXiaomi(m)
  <1>1. zclBytes(m) = CASE m.kind = "report" -> A [] m.kind = "response" -> B [] m.kind = "tuya" -> C
                        [] m.kind = "xiaomi" -> D
    BY Zenon DEF zclBytes, zclReport, zclResponse, zclTuya, zclXiaomi, zclHeader, reportRec, tuyaPoint, xiaomiTag
  <1> HIDE DEF A, B, C, D
  <1>2. /\ m.kind = "report" => zclBytes(m) = A
        /\ m.kind = "response" => zclBytes(m) = B
        /\ m.kind = "tuya" => zclBytes(m) = C
        /\ m.kind = "xiaomi" => zclBytes(m) = D
    BY <1>1
  <1> QED BY <1>2 DEF A, B, C, D

ZclKinds == {"report", "response", "tuya", "xiaomi"}

LEMMA ZbossCases ==
    ASSUME NEW m
    PROVE  /\ m.kind = "ack" => zbossBytes(m) = llHeader(5, 33)
           /\ m.kind = "announce" => zbossBytes(m) = indication(524, LE16(Short) \o Ieee \o <<128>>)
           /\ m.kind = "join" => zbossBytes(m) = indication(533, Ieee \o LE16(Short) \o <<1>>)
           /\ m.kind = "left" => zbossBytes(m) = indication(533, Ieee \o LE16(Short) \o <<2>>)
           /\ m.kind = "leave" => zbossBytes(m) = indication(1035, Ieee \o <<0>>)
           /\ m.kind = "rejoin" => zbossBytes(m) = indication(1035, Ieee \o <<1>>)
           /\ m.kind = "address" => zbossBytes(m) = indication(1052, LE16(Short))
           /\ m.kind = "reset" => zbossBytes(m) = indication(43, <<>>)
           /\ m.kind \in ZclKinds => zbossBytes(m) = indication(774, apsInd(m))
  <1> DEFINE x == indication(774, apsInd(m))
             y1 == llHeader(5, 33)
             y2 == indication(524, LE16(Short) \o Ieee \o <<128>>)
             a == IF m.kind = "left" THEN 2 ELSE 1
             b == IF m.kind = "rejoin" THEN 1 ELSE 0
             y3(n) == indication(533, Ieee \o LE16(Short) \o <<n>>)
             y4(n) == indication(1035, Ieee \o <<n>>)
             y5 == indication(1052, LE16(Short))
             y6 == indication(43, <<>>)
  <1>1. zbossBytes(m) =
            CASE m.kind = "ack" -> y1 [] m.kind = "announce" -> y2 [] m.kind \in {"join", "left"} -> y3(a)
              [] m.kind \in {"leave", "rejoin"} -> y4(b) [] m.kind = "address" -> y5 [] m.kind = "reset" -> y6
              [] OTHER -> x
    BY Zenon DEF zbossBytes
  <1>2. /\ m.kind = "left" => a = 2
        /\ m.kind = "join" => a = 1
        /\ m.kind = "rejoin" => b = 1
        /\ m.kind = "leave" => b = 0
    OBVIOUS
  <1> HIDE DEF x, y1, y2, y3, y4, y5, y6, a, b
  <1>3. /\ m.kind = "ack" => zbossBytes(m) = y1
        /\ m.kind = "announce" => zbossBytes(m) = y2
        /\ m.kind \in {"join", "left"} => zbossBytes(m) = y3(a)
        /\ m.kind \in {"leave", "rejoin"} => zbossBytes(m) = y4(b)
    BY <1>1
  <1>4. /\ m.kind = "address" => zbossBytes(m) = y5
        /\ m.kind = "reset" => zbossBytes(m) = y6
        /\ m.kind \in ZclKinds => zbossBytes(m) = x
    BY <1>1 DEF ZclKinds
  <1>5. /\ m.kind = "join" => zbossBytes(m) = y3(1)
        /\ m.kind = "left" => zbossBytes(m) = y3(2)
        /\ m.kind = "leave" => zbossBytes(m) = y4(0)
        /\ m.kind = "rejoin" => zbossBytes(m) = y4(1)
    BY <1>2, <1>3
  <1>6. /\ m.kind = "ack" => zbossBytes(m) = llHeader(5, 33)
        /\ m.kind = "announce" => zbossBytes(m) = indication(524, LE16(Short) \o Ieee \o <<128>>)
    BY <1>3, Zenon DEF y1, y2
  <1>7. /\ m.kind = "join" => zbossBytes(m) = indication(533, Ieee \o LE16(Short) \o <<1>>)
        /\ m.kind = "left" => zbossBytes(m) = indication(533, Ieee \o LE16(Short) \o <<2>>)
    BY <1>5, Zenon DEF y3
  <1>8. /\ m.kind = "leave" => zbossBytes(m) = indication(1035, Ieee \o <<0>>)
        /\ m.kind = "rejoin" => zbossBytes(m) = indication(1035, Ieee \o <<1>>)
    BY <1>5, Zenon DEF y4
  <1>9. /\ m.kind = "address" => zbossBytes(m) = indication(1052, LE16(Short))
        /\ m.kind = "reset" => zbossBytes(m) = indication(43, <<>>)
        /\ m.kind \in ZclKinds => zbossBytes(m) = indication(774, apsInd(m))
    BY <1>4, Zenon DEF x, y5, y6
  <1> QED BY <1>6, <1>7, <1>8, <1>9

LEMMA ApsIs ==
    ASSUME NEW m, NEW mfr, NEW fc, NEW cmd, NEW body, zclBytes(m) = zclHeader(mfr, fc, cmd) \o body
    PROVE  apsInd(m) = apsFrame(mfr, fc, cmd, Cluster(m), body)
  BY Zenon DEF apsInd, apsFrame, apsHeader

LEMMA ClusterIs ==
    ASSUME NEW m, m.kind \in ZclKinds
    PROVE  Cluster(m) = IF m.kind = "tuya" THEN 61184 ELSE 64704
  BY DEF Cluster, ZclKinds

\* handleIndication, by the call ID.
onAnnounce(p) == IF Len(p) < 11 THEN None ELSE <<"announce", Uint16(p[1], p[2]), SubSeq(p, 3, 10)>>
onUpdate(p) ==
    IF Len(p) < 11 \/ p[11] > 3 THEN None
    ELSE <<IF p[11] = 2 THEN "left" ELSE "joined", Uint16(p[9], p[10]), SubSeq(p, 1, 8)>>
onLeave(p) ==
    IF Len(p) < 8 THEN None
    ELSE IF Len(p) >= 9 /\ p[9] # 0 THEN <<"nothing">> ELSE <<"left", 0, SubSeq(p, 1, 8)>>
onData(p) ==
    LET e == handleAPSDEDataInd(p) IN IF e = None THEN None ELSE HandleZcl(e)
onAddress(p) == IF Len(p) < 2 THEN None ELSE <<"address", Uint16(p[1], p[2])>>

LEMMA IndicationCases ==
    ASSUME NEW f
    PROVE  /\ f.callID = 524 => handleIndication(f) = onAnnounce(f.payload)
           /\ f.callID = 533 => handleIndication(f) = onUpdate(f.payload)
           /\ f.callID = 1035 => handleIndication(f) = onLeave(f.payload)
           /\ f.callID = 774 => handleIndication(f) = onData(f.payload)
           /\ f.callID = 43 => handleIndication(f) = <<"reset">>
           /\ f.callID = 1052 => handleIndication(f) = onAddress(f.payload)
  <1> DEFINE y1 == onAnnounce(f.payload)
             y2 == onUpdate(f.payload)
             y3 == onLeave(f.payload)
             y4 == onData(f.payload)
             y5 == <<"reset">>
             y6 == onAddress(f.payload)
  <1>1. handleIndication(f) = CASE f.callID = 524 -> y1 [] f.callID = 533 -> y2 [] f.callID = 1035 -> y3
                                [] f.callID = 774 -> y4 [] f.callID = 43 -> y5 [] f.callID = 1052 -> y6 [] OTHER -> None
    BY Zenon DEF handleIndication, onAnnounce, onUpdate, onLeave, onData, onAddress
  <1> HIDE DEF y1, y2, y3, y4, y5, y6
  <1>2. /\ f.callID = 524 => handleIndication(f) = y1
        /\ f.callID = 533 => handleIndication(f) = y2
        /\ f.callID = 1035 => handleIndication(f) = y3
        /\ f.callID = 774 => handleIndication(f) = y4
        /\ f.callID = 43 => handleIndication(f) = y5
        /\ f.callID = 1052 => handleIndication(f) = y6
    BY <1>1
  <1> QED BY <1>2 DEF y1, y2, y3, y4, y5, y6

\* The event that handleAPSDEDataInd makes of it.
Becomes(m, fc, cmd, body, e) ==
    \/ fc = 9 /\ e = Evt("command", Cluster(m), body)
    \/ fc = 8 /\ cmd = 1 /\ e = Evt("response", Cluster(m), parseAttributeResponses(body))
    \/ fc = 8 /\ cmd = 10 /\ e = Evt("report", Cluster(m), zclParseAttributeReports(body))

\* A message with ZCL: what is left to show of it is what HandleZcl makes of its body.
ZclSays(m, fc, cmd, body, e) ==
    /\ m.kind \in ZclKinds /\ fc \in {8, 9} /\ cmd \in {1, 2, 10} /\ m.mfr \in BOOLEAN
    /\ body \in Seq(Byte) /\ Len(body) <= Base + 11 /\ zclBytes(m) = zclHeader(m.mfr, fc, cmd) \o body
    /\ e \in Event /\ Becomes(m, fc, cmd, body, e)
    /\ HandleZcl(e) = Meant(m) /\ Meant(m) \in Understood

LEMMA ZclUnderstood ==
    ASSUME NEW m, NEW fc, NEW cmd, NEW body, NEW e, ZclSays(m, fc, cmd, body, e)
    PROVE  Good(m)
  <1>0. /\ m.kind \in ZclKinds /\ fc \in {8, 9} /\ cmd \in {1, 2, 10} /\ m.mfr \in BOOLEAN
        /\ body \in Seq(Byte) /\ Len(body) <= Base + 11 /\ zclBytes(m) = zclHeader(m.mfr, fc, cmd) \o body
        /\ e \in Event /\ Becomes(m, fc, cmd, body, e)
        /\ HandleZcl(e) = Meant(m) /\ Meant(m) \in Understood
    BY DEF ZclSays
  <1> DEFINE c == Cluster(m)
             p == apsFrame(m.mfr, fc, cmd, c, body)
  <1>1. c \in Word /\ c # 25 /\ cmd \in Byte
    <2>1. m.kind \in ZclKinds /\ cmd \in {1, 2, 10}
      BY <1>0
    <2>2. c = 61184 \/ c = 64704
      BY <2>1, ClusterIs
    <2> HIDE DEF c
    <2> QED BY <2>1, <2>2, WordFacts, ByteFacts
  <1>2. apsInd(m) = p
    BY <1>0, ApsIs
  <1> HIDE DEF c
  <1>3. p \in Seq(Byte) /\ Len(p) <= Base + 55 /\ handleAPSDEDataInd(p) = e
    BY <1>0, <1>1, ApsReads DEF c, Becomes
  <1> HIDE DEF p
  <1>4. zbossBytes(m) = indication(774, p) /\ 774 \in Word
    <2>1. m.kind \in ZclKinds
      BY <1>0
    <2>2. zbossBytes(m) = indication(774, apsInd(m))
      BY <2>1, ZbossCases
    <2>3. 774 \in Word
      BY WordFacts
    <2> QED BY <1>2, <2>2, <2>3
  <1>5. Readable(zbossBytes(m))
    BY <1>3, <1>4, IndicationDecodes
  <1>6. e # None
    BY <1>0, EventAssumption
  <1> DEFINE f == IndicationFrame(774, p)
  <1>7. f.callID = 774 /\ f.payload = p
    BY DEF IndicationFrame
  <1> HIDE DEF f
  <1>8. handleIndication(f) = HandleZcl(e)
    <2>1. handleIndication(f) = onData(p)
      BY <1>7, IndicationCases
    <2> QED BY <1>3, <1>6, <2>1, Zenon DEF onData
  <1>9. ASSUME NEW raw, Unframed(raw) = zbossBytes(m) PROVE understand(raw) = Meant(m)
    <2>1. Unframed(raw) = indication(774, p)
      BY <1>4, <1>9
    <2>2. understand(raw) = handleIndication(f)
      BY <1>3, <1>4, <2>1, IndicationUnderstood DEF f
    <2> QED BY <1>0, <1>8, <2>2
  <1> QED BY <1>0, <1>5, <1>9 DEF Good

MeantReport(m) == <<"report", Short, 3, [i \in 1 .. 2 |-> <<Attr(i), recordMeans(m.recs[i])>>]>>
MeantResponse(m) ==
    <<"response", 9, <<<<Attr(1), 0, IF m.recs[1].type \in OtherTypes THEN <<0, <<>>>> ELSE recordMeans(m.recs[1])>>,
                       <<Attr(2), 134, <<0, <<>>>>>>>>>>
meantPoint(p) ==
    CASE p.type = 1 /\ p.d # <<>> -> {<<1, <<IF p.d[1] # 0 THEN 1 ELSE 0, <<>>>>>>}
      [] p.type = 2 /\ Len(p.d) >= 4 -> {<<1, <<Number(Reverse(SubSeq(p.d, 1, 4))), <<>>>>>>}
      [] p.type = 4 /\ p.d # <<>> -> {<<1, <<p.d[1], <<>>>>>>}
      [] p.type = 5 -> {<<1, <<Number(Reverse(p.d)) % Pow(4), <<>>>>>>}
      [] p.type \in {0, 3} -> {<<1, <<0, p.d>>>>}
      [] OTHER -> {}
MeantTuya(m)   == <<"tuya", meantPoint(m.recs[1]) \cup {<<2, <<Base + 2, <<>>>>>>}>>
MeantXiaomi(m) == <<"xiaomi", {<<i, recordMeans(m.recs[i])>> : i \in 1 .. 2}>>

LEMMA MeantCases ==
    ASSUME NEW m
    PROVE  /\ m.kind = "report" => Meant(m) = MeantReport(m)
           /\ m.kind = "response" => Meant(m) = MeantResponse(m)
           /\ m.kind = "tuya" => Meant(m) = MeantTuya(m)
           /\ m.kind = "xiaomi" => Meant(m) = MeantXiaomi(m)
           /\ m.kind = "ack" => Meant(m) = <<"ack", 2>>
           /\ m.kind = "announce" => Meant(m) = <<"announce", Short, Ieee>>
           /\ m.kind = "join" => Meant(m) = <<"joined", Short, Ieee>>
           /\ m.kind = "left" => Meant(m) = <<"left", Short, Ieee>>
           /\ m.kind = "leave" => Meant(m) = <<"left", 0, Ieee>>
           /\ m.kind = "rejoin" => Meant(m) = <<"nothing">>
           /\ m.kind = "address" => Meant(m) = <<"address", Short>>
           /\ m.kind = "reset" => Meant(m) = <<"reset">>
  <1> DEFINE A == MeantReport(m)
             B == MeantResponse(m)
             C == MeantTuya(m)
             D == MeantXiaomi(m)
             E == <<"ack", 2>>
             F == <<"announce", Short, Ieee>>
             G == <<"joined", Short, Ieee>>
             H == <<"left", Short, Ieee>>
             I == <<"left", 0, Ieee>>
             J == <<"nothing">>
             K == <<"address", Short>>
             L == <<"reset">>
  <1>1. Meant(m) = CASE m.kind = "report" -> A [] m.kind = "response" -> B [] m.kind = "tuya" -> C
                     [] m.kind = "xiaomi" -> D [] m.kind = "ack" -> E [] m.kind = "announce" -> F
                     [] m.kind = "join" -> G [] m.kind = "left" -> H [] m.kind = "leave" -> I
                     [] m.kind = "rejoin" -> J [] m.kind = "address" -> K [] m.kind = "reset" -> L
    BY Zenon DEF Meant, MeantReport, MeantResponse, MeantTuya, meantPoint, MeantXiaomi
  <1> HIDE DEF A, B, C, D, E, F, G, H, I, J, K, L
  <1>2. /\ m.kind = "report" => Meant(m) = A
        /\ m.kind = "response" => Meant(m) = B
        /\ m.kind = "tuya" => Meant(m) = C
        /\ m.kind = "xiaomi" => Meant(m) = D
        /\ m.kind = "ack" => Meant(m) = E
        /\ m.kind = "announce" => Meant(m) = F
    BY <1>1
  <1>3. /\ m.kind = "join" => Meant(m) = G
        /\ m.kind = "left" => Meant(m) = H
        /\ m.kind = "leave" => Meant(m) = I
        /\ m.kind = "rejoin" => Meant(m) = J
        /\ m.kind = "address" => Meant(m) = K
        /\ m.kind = "reset" => Meant(m) = L
    BY <1>1
  <1> QED BY <1>2, <1>3, Zenon DEF A, B, C, D, E, F, G, H, I, J, K, L

\* The record a device reports of attribute 4 + i.
attrRecord(i, r) == Record(4 + i, r.type, recordBytes(r))

LEMMA AttrRecord ==
    ASSUME NEW i \in {1, 2}, NEW r, Sane(r)
    PROVE  LET R == attrRecord(i, r)
           IN  /\ R \in RecordSet /\ Delimited(R.type, R.value) /\ recordOf(R) \in Seq(Byte)
               /\ Len(recordOf(R)) = 3 + Len(recordBytes(r)) /\ Len(recordBytes(r)) <= Base + 1
               /\ R.attr = 4 + i /\ R.type = r.type /\ R.value = recordBytes(r)
  <1> DEFINE b == recordBytes(r)
             R == attrRecord(i, r)
  <1>1. r.type \in Byte /\ Delimited(r.type, b) /\ Len(b) <= Base + 1
    BY SaneReads DEF RecordReads
  <1>2. b \in Seq(Byte)
    BY <1>1 DEF Delimited
  <1> HIDE DEF b
  <1>3. 4 + i \in Word
    BY WordFacts
  <1>4. R.attr = 4 + i /\ R.type = r.type /\ R.value = b /\ R \in RecordSet
    BY <1>1, <1>2, <1>3 DEF attrRecord, Record, RecordSet, b
  <1> HIDE DEF R
  <1>5. recordOf(R) \in Seq(Byte) /\ Len(recordOf(R)) = 3 + Len(R.value)
    BY <1>4, RecordBytes
  <1> QED BY <1>1, <1>4, <1>5 DEF R, b

LEMMA ReportRec ==
    ASSUME NEW m, NEW i \in {1, 2}
    PROVE  reportRec(m, i, <<>>) = recordOf(attrRecord(i, m.recs[i]))
  <1> DEFINE R == attrRecord(i, m.recs[i])
  <1>1. R.attr = Attr(i) /\ R.type = m.recs[i].type /\ R.value = recordBytes(m.recs[i])
    BY DEF attrRecord, Record, Attr
  <1>2. LE16(Attr(i)) \o <<>> = LE16(Attr(i))
    <2>1. Attr(i) \in Word
      BY WordFacts DEF Attr
    <2>2. LE16(Attr(i)) \in Seq(Byte)
      BY <2>1, WordBytes DEF LE16
    <2> QED BY <2>2, ConcatEmptySeq
  <1> HIDE DEF R
  <1> QED BY <1>1, <1>2, Zenon DEF reportRec, recordOf, R

LEMMA FollowerBytes == recordBytes(Follower) = <<1>> /\ Sane(Follower) /\ Len(recordBytes(Follower)) = 1
  <1>1. Follower.type = 32 /\ Follower.s = <<1>> /\ SaneNumber(Follower)
    BY FollowerIsSane DEF Follower
  <1>2. recordBytes(Follower) = Follower.s
    BY <1>1 DEF recordBytes
  <1>3. Len(<<1>>) = 1
    OBVIOUS
  <1> QED BY <1>1, <1>2, <1>3 DEF Sane

ResponseSet == [attr : Word, status : Byte, type : Byte, value : Seq(Byte)]

LEMMA EventType ==
    ASSUME NEW c \in Word
    PROVE  /\ \A d \in Seq(Byte) : Evt("command", c, d) \in Event
           /\ \A d \in Seq(RecordSet) : Evt("report", c, d) \in Event
           /\ \A d \in Seq(ResponseSet) : Evt("response", c, d) \in Event
  <1>1. 48879 \in Word /\ 3 \in Byte /\ 9 \in Byte
    BY WordFacts, ByteFacts
  <1> QED BY <1>1 DEF Evt, Event, RecordSet, ResponseSet

\* HandleZcl, by the kinds of event.
HandleTlv(e) ==
    LET val == decodeReported(e.data[1].type, e.data[1].value)
        tlv == decodeXiaomiTLV(IF val.go = "hex" THEN hexText(val.s) ELSE val.s)
    IN  IF val.go \notin {"[]byte", "string", "hex"} \/ tlv = Err THEN None
        ELSE <<"xiaomi", Pairs(tlv)>>
HandleReport(e) ==
    <<"report", e.src, e.ep,
      [i \in DOMAIN e.data |-> <<e.data[i].attr, Plain(decodeReported(e.data[i].type, e.data[i].value))>>]>>
HandleResponse(e) ==
    <<"response", e.seq,
      [i \in DOMAIN e.data |-> <<e.data[i].attr, e.data[i].status,
                                 Plain(readResult(e.data[i].type, e.data[i].value))>>]>>
HandleTuya(e) ==
    LET dps == decodeTuyaDPs(e.data)
    IN  IF dps = Err THEN None ELSE <<"tuya", Pairs(dps)>>

LEMMA HandleZclCases ==
    ASSUME NEW e
    PROVE  /\ e.to = "report" /\ Len(e.data) = 1 /\ e.data[1].attr = 247 => HandleZcl(e) = HandleTlv(e)
           /\ e.to = "report" /\ ~(Len(e.data) = 1 /\ e.data[1].attr = 247) => HandleZcl(e) = HandleReport(e)
           /\ e.to = "response" => HandleZcl(e) = HandleResponse(e)
           /\ e.to = "command" /\ e.cluster = 61184 => HandleZcl(e) = HandleTuya(e)
  <1> DEFINE A == HandleTlv(e)
             B == HandleReport(e)
             C == HandleResponse(e)
             D == HandleTuya(e)
             P == Len(e.data) = 1 /\ e.data[1].attr = 247
  <1>1. HandleZcl(e) = CASE e.to = "report" /\ Len(e.data) = 1 /\ e.data[1].attr = 247 -> A
                         [] e.to = "report" /\ ~(Len(e.data) = 1 /\ e.data[1].attr = 247) -> B
                         [] e.to = "response" -> C
                         [] e.to = "command" /\ e.cluster = 61184 -> D
                         [] OTHER -> None
    BY DEF HandleZcl, HandleTlv, HandleReport, HandleResponse, HandleTuya
  <1> HIDE DEF A, B, C, D
  <1>2. /\ e.to = "report" /\ P => HandleZcl(e) = A
        /\ e.to = "report" /\ ~P => HandleZcl(e) = B
        /\ e.to = "response" => HandleZcl(e) = C
        /\ e.to = "command" /\ e.cluster = 61184 => HandleZcl(e) = D
    BY <1>1
  <1> QED BY <1>2 DEF A, B, C, D

\* A message of a record and the follower.
SaysOf(m, kind, r) == m.kind = kind /\ m.mfr \in BOOLEAN /\ m.recs[1] = r /\ m.recs[2] = Follower

\* A report of any sane record is understood as it is meant.
LEMMA ReportGood ==
    ASSUME NEW r, Sane(r), NEW m, SaysOf(m, "report", r)
    PROVE  Good(m)
  <1> DEFINE R == attrRecord(1, r)
             Q == attrRecord(2, Follower)
             x == recordOf(R)
             y == recordOf(Q)
             h == zclHeader(m.mfr, 8, 10)
             body == x \o y
             data == <<R, Q>>
             e == Evt("report", 64704, data)
  <1>0. m.mfr \in BOOLEAN
    BY Zenon DEF SaysOf
  <1>1. m.kind = "report" /\ m.recs[1] = r /\ m.recs[2] = Follower
    BY Zenon DEF SaysOf
  <1>2. 1 \in {1, 2} /\ 2 \in {1, 2} /\ Sane(Follower)
    BY FollowerBytes
  <1>3. /\ R \in RecordSet /\ Delimited(R.type, R.value) /\ x \in Seq(Byte) /\ Len(x) <= Base + 4
        /\ R.attr = 5 /\ R.type = r.type /\ R.value = recordBytes(r)
    <2>1. /\ R \in RecordSet /\ Delimited(R.type, R.value) /\ x \in Seq(Byte)
          /\ Len(x) = 3 + Len(recordBytes(r)) /\ Len(recordBytes(r)) <= Base + 1
          /\ R.attr = 4 + 1 /\ R.type = r.type /\ R.value = recordBytes(r)
      BY <1>2, AttrRecord
    <2>2. Len(recordBytes(r)) \in Int /\ Base \in Int
      <3>1. R.value \in Seq(Byte)
        BY <2>1 DEF RecordSet
      <3> QED BY <2>1, <3>1, DigitIsByte, LenProperties
    <2> HIDE DEF R, x
    <2> QED BY <2>1, <2>2
  <1>4. /\ Q \in RecordSet /\ Delimited(Q.type, Q.value) /\ y \in Seq(Byte) /\ Len(y) = 4
        /\ Q.attr = 6 /\ Q.type = Follower.type /\ Q.value = recordBytes(Follower)
    <2>1. /\ Q \in RecordSet /\ Delimited(Q.type, Q.value) /\ y \in Seq(Byte)
          /\ Len(y) = 3 + Len(recordBytes(Follower))
          /\ Q.attr = 4 + 2 /\ Q.type = Follower.type /\ Q.value = recordBytes(Follower)
      BY <1>2, AttrRecord
    <2> HIDE DEF Q, y
    <2> QED BY <2>1, FollowerBytes
  <1>5. zclParseAttributeReports(body) = data
    <2> HIDE DEF R, Q
    <2> QED BY <1>3, <1>4, TwoRecords
  <1>6. reportRec(m, 1, <<>>) = x /\ reportRec(m, 2, <<>>) = y
    BY <1>1, <1>2, ReportRec
  <1>7. h \in Seq(Byte)
    <2>1. 10 \in Byte /\ 8 \in {8, 9}
      BY ByteFacts
    <2> QED BY <1>0, <2>1, ZclHeader
  <1> HIDE DEF x, y, h
  <1>8. x \in Seq(Byte) /\ y \in Seq(Byte) /\ Len(x) \in Nat
    BY <1>3, <1>4, LenProperties
  <1>9. body \in Seq(Byte) /\ Len(body) = Len(x) + Len(y)
    BY <1>8, Parts
  <1>10. (h \o x) \o y = h \o body
    BY <1>7, <1>8, Assoc
  <1> HIDE DEF body
  <1>11. body \in Seq(Byte) /\ Len(body) <= Base + 11
    BY <1>3, <1>4, <1>8, <1>9, DigitIsByte
  <1>12. zclBytes(m) = zclHeader(m.mfr, 8, 10) \o body
    <2>1. zclBytes(m) = zclReport(m)
      BY <1>1, ZclCases
    <2>2. zclReport(m) = (h \o x) \o y
      BY <1>6, Zenon DEF zclReport, h
    <2> QED BY <1>10, <2>1, <2>2, Zenon DEF h
  <1>13. m.kind \in ZclKinds /\ Cluster(m) = 64704
    BY <1>1, ClusterIs DEF ZclKinds
  <1> HIDE DEF R, Q
  <1>14. data \in Seq(RecordSet) /\ Len(data) = 2 /\ DOMAIN data = 1 .. 2 /\ data[1] = R /\ data[2] = Q
    BY <1>3, <1>4
  <1> HIDE DEF data
  <1>15. e \in Event
    <2>1. 64704 \in Word
      BY WordFacts
    <2> QED BY <1>14, <2>1, EventType
  <1>16. e.to = "report" /\ e.data = data /\ e.src = Short /\ e.ep = 3
    BY DEF Evt, Short
  <1> HIDE DEF e
  <1> DEFINE f == [i \in 1 .. 2 |-> <<Attr(i), recordMeans(m.recs[i])>>]
             g == [i \in DOMAIN data |-> <<data[i].attr, Plain(decodeReported(data[i].type, data[i].value))>>]
  <1>17. g = f
    <2>1. ASSUME NEW i \in 1 .. 2
          PROVE  <<data[i].attr, Plain(decodeReported(data[i].type, data[i].value))>> = <<Attr(i), recordMeans(m.recs[i])>>
      <3>1. CASE i = 1
        <4>1. data[i].attr = Attr(i)
          BY <1>3, <1>14, <3>1 DEF Attr
        <4>2. Plain(decodeReported(data[i].type, data[i].value)) = recordMeans(m.recs[i])
          BY <1>1, <1>3, <1>14, <3>1, SaneReported, Zenon
        <4> QED BY <4>1, <4>2, Zenon
      <3>2. CASE i = 2
        <4>1. data[i].attr = Attr(i)
          BY <1>4, <1>14, <3>2 DEF Attr
        <4>2. Plain(decodeReported(data[i].type, data[i].value)) = recordMeans(m.recs[i])
          BY <1>1, <1>2, <1>4, <1>14, <3>2, SaneReported, Zenon
        <4> QED BY <4>1, <4>2, Zenon
      <3> QED BY <3>1, <3>2
    <2> QED BY <1>14, <2>1, Zenon
  <1>18. Meant(m) = <<"report", Short, 3, f>>
    BY <1>1, MeantCases, Zenon DEF MeantReport
  <1>19. HandleZcl(e) = <<"report", e.src, e.ep, g>>
    <2>1. Len(e.data) # 1
      BY <1>14, <1>16
    <2>2. HandleZcl(e) = HandleReport(e)
      BY <1>16, <2>1, HandleZclCases
    <2> QED BY <1>16, <2>2, Zenon DEF HandleReport
  <1>20. HandleZcl(e) = Meant(m)
    <2> HIDE DEF f, g
    <2> QED BY <1>16, <1>17, <1>18, <1>19
  <1>21. Meant(m) \in Understood
    <2>1. recordMeans(r) \in Plains /\ recordMeans(Follower) \in Plains
      BY <1>2, SaneReads DEF RecordReads
    <2>2. \A i \in 1 .. 2 : Attr(i) \in Word /\ recordMeans(m.recs[i]) \in Plains
      <3>1. \A i \in 1 .. 2 : i = 1 \/ i = 2
        OBVIOUS
      <3>2. Attr(1) \in Word /\ Attr(2) \in Word
        BY WordFacts DEF Attr
      <3> QED BY <1>1, <2>1, <3>1, <3>2, Zenon
    <2>3. f \in Seq(Word \X Plains)
      BY <2>2
    <2>4. Short \in Word /\ 3 \in Byte
      BY WordFacts, ByteFacts DEF Short
    <2> HIDE DEF f
    <2>5. <<"report", Short, 3, f>> \in {"report"} \X Word \X Byte \X Seq(Word \X Plains)
      BY <2>3, <2>4
    <2> QED BY <1>18, <2>5 DEF Understood
  <1>22. e = Evt("report", Cluster(m), zclParseAttributeReports(body))
    BY <1>5, <1>13 DEF e
  <1>23. 8 \in {8, 9} /\ 10 \in {1, 2, 10}
    OBVIOUS
  <1>24. Becomes(m, 8, 10, body, e)
    BY <1>22 DEF Becomes
  <1>25. ZclSays(m, 8, 10, body, e)
    <2>1. m.kind \in ZclKinds
      BY <1>13
    <2> QED BY <1>0, <1>11, <1>12, <1>15, <1>20, <1>21, <1>23, <1>24, <2>1, Zenon DEF ZclSays
  <1> QED BY <1>25, ZclUnderstood

-----------------------------------------------------------------------------
(* The answer to a read.                                                   *)

RespStep(data, f, p) ==
    LET status == data[p + 2]
        t      == data[p + 3]
        rest   == From(data, p + 4)
        n      == IF Fits(t, rest) THEN valueLen(t, rest) ELSE 0
        rec(st, type, val) == <<[attr |-> Uint16(data[p], data[p + 1]), status |-> st,
                                 type |-> type, value |-> val]>>
    IN  IF p + 2 > Len(data) THEN <<>>
        ELSE IF status # 0 THEN rec(status, 0, <<>>) \o f[p + 3]
        ELSE IF p + 3 > Len(data) THEN <<>>
        ELSE IF typeSize(t) = -2 THEN rec(0, t, <<>>)
        ELSE rec(0, t, SubSeq(rest, 1, n)) \o f[p + 4 + n]
RespScan(data) == CHOOSE f : f = [p \in 1 .. Len(data) + 1 |-> RespStep(data, f, p)]

LEMMA RespReads == ASSUME NEW data PROVE parseAttributeResponses(data) = RespScan(data)[1]
  BY DEF parseAttributeResponses, RespScan, RespStep

LEMMA RespScanSteps ==
    ASSUME NEW data \in Seq(Byte), NEW p \in 1 .. Len(data) + 1
    PROVE  RespScan(data)[p] = RespStep(data, RespScan(data), p)
  <1> DEFINE N == Len(data) + 1
             Dom == 1 .. N
             st(q) == data[q + 2]
             t(q) == data[q + 3]
             rest(q) == From(data, q + 4)
             len(q) == IF Fits(t(q), rest(q)) THEN valueLen(t(q), rest(q)) ELSE 0
             rec(q, s, ty, v) == [attr |-> Uint16(data[q], data[q + 1]), status |-> s, type |-> ty, value |-> v]
             ra(q) == rec(q, st(q), 0, <<>>)
             rb(q) == rec(q, 0, t(q), <<>>)
             rc(q) == rec(q, 0, t(q), SubSeq(rest(q), 1, len(q)))
             D == Seq({ra(q) : q \in Dom} \cup {rb(q) : q \in Dom} \cup {rc(q) : q \in Dom})
             short == {q \in Dom : q + 2 > Len(data)}
             bad == {q \in Dom : st(q) # 0} \ short
             cut == {q \in Dom : q + 3 > Len(data)} \ (short \cup bad)
             odd == {q \in Dom : typeSize(t(q)) = -2} \ (short \cup bad \cup cut)
             stop == short \cup cut \cup odd
             rank == [q \in Dom |-> N - q]
             c == [q \in Dom |-> IF q \in odd THEN <<rb(q)>> ELSE <<>>]
             nxt == [q \in Dom |-> IF q \in stop THEN q ELSE IF q \in bad THEN q + 3 ELSE q + 4 + len(q)]
             H == [q \in Dom |-> [x \in D |-> <<IF q \in bad THEN ra(q) ELSE rc(q)>> \o x]]
  <1>1. N \in Nat /\ rank \in [Dom -> 0 .. N]
    OBVIOUS
  <1>2. c \in [Dom -> D]
    <2> HIDE DEF ra, rb, rc, odd, Dom
    <2>1. ASSUME NEW q \in Dom PROVE <<rb(q)>> \in D /\ <<>> \in D
      OBVIOUS
    <2> HIDE DEF D
    <2> QED BY <2>1
  <1>3. ASSUME NEW q \in Dom, q \notin stop
        PROVE  IF q \in bad THEN q + 3 \in Dom /\ q + 3 > q
               ELSE q + 4 + len(q) \in Dom /\ q + 4 + len(q) > q
    <2>1. q \in bad => q + 3 \in Dom /\ q + 3 > q
      BY <1>3
    <2>2. ASSUME q \notin bad PROVE q + 4 + len(q) \in Dom /\ q + 4 + len(q) > q
      <3>1. q + 3 <= Len(data)
        BY <1>3, <2>2
      <3>2. q + 4 \in 1 .. Len(data) + 1
        BY <3>1
      <3>3. Len(rest(q)) = Len(data) + 1 - (q + 4)
        BY <3>2, FromLen
      <3>4. len(q) \in 0 .. Len(rest(q))
        <4>1. Len(rest(q)) \in Nat
          BY <3>1, <3>3
        <4> HIDE DEF t, rest
        <4>2. CASE Fits(t(q), rest(q))
          BY <4>1, <4>2 DEF Fits
        <4>3. CASE ~Fits(t(q), rest(q))
          BY <4>1, <4>3
        <4> QED BY <4>2, <4>3
      <3> HIDE DEF len, rest
      <3> QED BY <3>1, <3>3, <3>4
    <2> QED BY <2>1, <2>2
  <1>4. nxt \in [Dom -> Dom]
    <2> HIDE DEF stop, len, Dom, bad
    <2> QED BY <1>3
  <1>5. H \in [Dom -> [D -> D]]
    <2> HIDE DEF ra, rb, rc, Dom, bad
    <2>1. ASSUME NEW q \in Dom, NEW x \in D PROVE <<IF q \in bad THEN ra(q) ELSE rc(q)>> \o x \in D
      OBVIOUS
    <2> HIDE DEF D
    <2> QED BY <2>1
  <1>6. ASSUME NEW q \in Dom, q \notin stop PROVE rank[nxt[q]] < rank[q]
    <2>1. nxt[q] = IF q \in bad THEN q + 3 ELSE q + 4 + len(q)
      BY <1>6
    <2> HIDE DEF len, stop, bad
    <2>2. nxt[q] \in Dom /\ nxt[q] > q
      BY <1>3, <1>6, <2>1
    <2> HIDE DEF nxt
    <2> QED BY <1>1, <2>2
  <1> HIDE DEF rank, c, nxt, H, D, Dom, stop
  <1>7. PICK f : Ranked(Dom, D, stop, c, nxt, H, f)
    BY <1>1, <1>2, <1>4, <1>5, <1>6, RankedExists DEF N
  <1>8. f \in [Dom -> D] /\ \A q \in Dom : f[q] = IF q \in stop THEN c[q] ELSE H[q][f[nxt[q]]]
    BY <1>7 DEF Ranked
  <1>9. ASSUME NEW q \in Dom PROVE f[q] = RespStep(data, f, q)
    <2> DEFINE k == len(q)
    <2>0. RespStep(data, f, q) =
            IF q + 2 > Len(data) THEN <<>>
            ELSE IF st(q) # 0 THEN <<ra(q)>> \o f[q + 3]
            ELSE IF q + 3 > Len(data) THEN <<>>
            ELSE IF typeSize(t(q)) = -2 THEN <<rb(q)>>
            ELSE <<rc(q)>> \o f[q + 4 + k]
      BY Zenon DEF RespStep
    <2>9. /\ q \in short <=> q + 2 > Len(data)
          /\ q \in bad <=> ~(q + 2 > Len(data)) /\ st(q) # 0
          /\ q \in cut <=> ~(q + 2 > Len(data)) /\ st(q) = 0 /\ q + 3 > Len(data)
          /\ q \in odd <=> ~(q + 2 > Len(data)) /\ st(q) = 0 /\ ~(q + 3 > Len(data)) /\ typeSize(t(q)) = -2
      BY DEF Dom
    <2>10. q \in stop <=> q \in short \/ q \in cut \/ q \in odd
      BY DEF stop
    <2> HIDE DEF k, ra, rb, rc, short, bad, cut, odd, st, t
    <2>1. CASE q \in stop
      <3>1. f[q] = IF q \in odd THEN <<rb(q)>> ELSE <<>>
        BY <1>8, <2>1 DEF c
      <3> QED BY <2>0, <2>1, <2>9, <2>10, <3>1
    <2>2. CASE q \notin stop
      <3>1. f[nxt[q]] \in D
        BY <1>4, <1>8
      <3>2. f[q] = <<IF q \in bad THEN ra(q) ELSE rc(q)>> \o f[nxt[q]]
        BY <1>8, <2>2, <3>1 DEF H
      <3>3. nxt[q] = IF q \in bad THEN q + 3 ELSE q + 4 + k
        BY <2>2 DEF nxt, k
      <3>4. CASE q \in bad
        BY <2>0, <2>9, <3>2, <3>3, <3>4, Zenon
      <3>5. CASE q \notin bad
        <4>1. ~(q + 2 > Len(data)) /\ st(q) = 0 /\ ~(q + 3 > Len(data)) /\ typeSize(t(q)) # -2
          BY <2>2, <2>9, <2>10, <3>5
        <4> QED BY <2>0, <3>2, <3>3, <3>5, <4>1, Zenon
      <3> QED BY <3>4, <3>5
    <2> QED BY <2>1, <2>2
  <1>10. f = [q \in Dom |-> RespStep(data, f, q)]
    BY <1>8, <1>9
  <1>11. RespScan(data) = [q \in Dom |-> RespStep(data, RespScan(data), q)]
    BY <1>10, Zenon DEF RespScan, Dom, N
  <1>12. p \in Dom
    BY DEF Dom, N
  <1> QED BY <1>11, <1>12

LEMMA Pair == ASSUME NEW a, NEW b PROVE <<a>> \o <<b>> = <<a, b>>
  <1> DEFINE S == {a, b}
             x == <<a>> \o <<b>>
             y == <<a, b>>
  <1>1. x \in Seq(S) /\ Len(x) = 2 /\ x[1] = a /\ x[2] = b
    OBVIOUS
  <1>2. y \in Seq(S) /\ Len(y) = 2 /\ y[1] = a /\ y[2] = b
    OBVIOUS
  <1> HIDE DEF x, y, S
  <1>3. \A i \in 1 .. Len(x) : x[i] = y[i]
    BY <1>1, <1>2
  <1>4. x = y
    BY <1>1, <1>2, <1>3, SeqEqual
  <1> QED BY <1>4 DEF x, y

\* A value and a status are parsed to just those.
LEMMA ResponseParsed ==
    ASSUME NEW t \in Byte, NEW b, Delimited(t, b)
    PROVE  LET body == (LE16(5) \o <<0>> \o <<t>> \o b) \o (LE16(6) \o <<134>>)
           IN  /\ body \in Seq(Byte) /\ Len(body) = 7 + Len(b)
               /\ parseAttributeResponses(body) = <<[attr |-> 5, status |-> 0, type |-> t, value |-> b],
                                                    [attr |-> 6, status |-> 134, type |-> 0, value |-> <<>>]>>
  <1> DEFINE h == <<5, 0, 0, t>>
             g == <<6, 0, 134>>
             bg == b \o g
             data == h \o bg
             F == RespScan(data)
             n == Len(b)
             A == [attr |-> 5, status |-> 0, type |-> t, value |-> b]
             B == [attr |-> 6, status |-> 134, type |-> 0, value |-> <<>>]
  <1>1. b \in Seq(Byte) /\ n \in Nat /\ n >= 1 /\ valueLen(t, bg) = n
    <2>1. 6 \in Byte /\ 0 \in Byte /\ 134 \in Byte
      BY ByteFacts
    <2>2. g \in Seq(Byte)
      BY <2>1, Triple
    <2> HIDE DEF g
    <2> QED BY <2>2, LenProperties DEF Delimited
  <1>2. 0 \in Byte /\ 5 \in Byte /\ 6 \in Byte /\ 134 \in Byte
    BY ByteFacts
  <1>3. h \in Seq(Byte) /\ Len(h) = 4 /\ h[1] = 5 /\ h[2] = 0 /\ h[3] = 0 /\ h[4] = t
    BY <1>2
  <1>4. g \in Seq(Byte) /\ Len(g) = 3 /\ g[1] = 6 /\ g[2] = 0 /\ g[3] = 134
    BY <1>2, Triple
  <1>5. ((LE16(5) \o <<0>>) \o <<t>>) \o b = h \o b /\ LE16(6) \o <<134>> = g
    <2>1. LE16(5) = <<5, 0>> /\ LE16(6) = <<6, 0>>
      BY DEF LE16
    <2>2. <<5, 0>> \o <<0>> = <<5, 0, 0>> /\ <<6, 0>> \o <<134>> = g
      BY <1>2, Triple
    <2>3. <<5, 0, 0>> \o <<t>> = h
      <3> DEFINE u == <<5, 0, 0>> \o <<t>>
      <3>1. u \in Seq(Byte) /\ Len(u) = 4 /\ u[1] = 5 /\ u[2] = 0 /\ u[3] = 0 /\ u[4] = t
        BY <1>2
      <3> HIDE DEF u, h
      <3>2. \A i \in 1 .. Len(u) : u[i] = h[i]
        BY <1>3, <3>1
      <3>3. u = h
        BY <1>3, <3>1, <3>2, SeqEqual
      <3> QED BY <3>3 DEF u
    <2> QED BY <2>1, <2>2, <2>3, Zenon
  <1> HIDE DEF h, g
  <1>6. h \in Seq(Byte) /\ g \in Seq(Byte) /\ b \in Seq(Byte)
    BY <1>1, <1>3, <1>4
  <1>7. /\ bg \in Seq(Byte) /\ Len(bg) = n + 3 /\ SubSeq(bg, 1, n) = b
        /\ bg[n + 1] = 6 /\ bg[n + 2] = 0 /\ bg[n + 3] = 134
    <2>1. /\ bg \in Seq(Byte) /\ Len(bg) = Len(b) + Len(g) /\ \A i \in 1 .. Len(g) : bg[Len(b) + i] = g[i]
          /\ SubSeq(bg, 1, Len(b)) = b
      BY <1>6, Parts, Prefix
    <2> HIDE DEF bg
    <2> QED BY <1>4, <2>1
  <1> HIDE DEF bg
  <1>8. bg \in Seq(Byte)
    BY <1>7
  <1>9. /\ data \in Seq(Byte) /\ Len(data) = Len(h) + Len(bg) /\ \A i \in 1 .. Len(h) : data[i] = h[i]
        /\ \A i \in 1 .. Len(bg) : data[Len(h) + i] = bg[i]
        /\ SubSeq(data, Len(h) + 1, Len(h) + Len(bg)) = bg
    BY <1>6, <1>8, Parts, Suffix
  <1> HIDE DEF data
  <1>10. /\ Len(data) = n + 7 /\ data[1] = 5 /\ data[2] = 0 /\ data[3] = 0 /\ data[4] = t
         /\ data[n + 5] = 6 /\ data[n + 6] = 0 /\ data[n + 7] = 134
    <2>1. Len(data) = n + 7
      BY <1>1, <1>3, <1>7, <1>9
    <2>2. data[1] = 5 /\ data[2] = 0 /\ data[3] = 0 /\ data[4] = t
      BY <1>3, <1>9
    <2>3. data[4 + (n + 1)] = 6 /\ data[4 + (n + 2)] = 0 /\ data[4 + (n + 3)] = 134
      <3>1. n + 1 \in 1 .. Len(bg) /\ n + 2 \in 1 .. Len(bg) /\ n + 3 \in 1 .. Len(bg)
        BY <1>1, <1>7
      <3>2. \A i \in 1 .. Len(bg) : data[Len(h) + i] = bg[i]
        BY <1>9, Zenon
      <3>3. Len(h) = 4
        BY <1>3
      <3>4. \A i \in 1 .. Len(bg) : data[4 + i] = bg[i]
        BY <3>2, <3>3, Zenon
      <3> QED BY <1>7, <3>1, <3>4, Zenon
    <2>4. 4 + (n + 1) = n + 5 /\ 4 + (n + 2) = n + 6 /\ 4 + (n + 3) = n + 7
      BY <1>1
    <2> QED BY <2>1, <2>2, <2>3, <2>4
  <1>11. From(data, 5) = bg
    <2>1. Len(h) + 1 = 5 /\ Len(h) + Len(bg) = Len(data)
      BY <1>3, <1>9
    <2> QED BY <1>9, <2>1, Zenon DEF From
  <1>12. typeSize(t) # -2 /\ Fits(t, bg)
    <2>1. typeSize(t) # -2
      BY <1>1 DEF valueLen
    <2>2. Fits(t, bg)
      BY <1>1, <1>7 DEF Fits
    <2> QED BY <2>1, <2>2
  <1>13. \A p \in 1 .. Len(data) + 1 : F[p] = RespStep(data, F, p)
    BY <1>9, RespScanSteps
  <1> HIDE DEF F
  <1>14. F[1] = <<A>> \o F[5 + n]
    <2>1. 1 \in 1 .. Len(data) + 1 /\ ~(1 + 2 > Len(data)) /\ ~(1 + 3 > Len(data))
      BY <1>1, <1>10
    <2>2. F[1] = RespStep(data, F, 1)
      BY <1>13, <2>1
    <2>3. 1 + 1 = 2 /\ 1 + 2 = 3 /\ 1 + 3 = 4 /\ 1 + 4 = 5
      OBVIOUS
    <2>4. Uint16(5, 0) = 5
      BY DEF Uint16
    <2>5. RespStep(data, F, 1) = <<[attr |-> Uint16(data[1], data[2]), status |-> 0, type |-> t, value |-> SubSeq(bg, 1, n)]>> \o F[5 + n]
      BY <1>1, <1>10, <1>11, <1>12, <2>1, <2>3 DEF RespStep
    <2> QED BY <1>7, <1>10, <2>2, <2>4, <2>5, Zenon
  <1>15. F[5 + n] = <<B>> \o F[8 + n]
    <2> DEFINE p == 5 + n
    <2>1. p \in 1 .. Len(data) + 1 /\ ~(p + 2 > Len(data))
      BY <1>1, <1>10
    <2>2. F[p] = RespStep(data, F, p)
      BY <1>13, <2>1
    <2>3. p = n + 5 /\ p + 1 = n + 6 /\ p + 2 = n + 7 /\ p + 3 = 8 + n
      BY <1>1
    <2>4. Uint16(6, 0) = 6
      BY DEF Uint16
    <2>5. data[p] = 6 /\ data[p + 1] = 0 /\ data[p + 2] = 134 /\ data[p + 2] # 0
      BY <1>10, <2>3
    <2> HIDE DEF p
    <2>6. RespStep(data, F, p) = <<[attr |-> Uint16(6, 0), status |-> 134, type |-> 0, value |-> <<>>]>> \o F[p + 3]
      BY <2>1, <2>5 DEF RespStep
    <2> QED BY <2>2, <2>3, <2>4, <2>6, Zenon DEF p
  <1>16. F[8 + n] = <<>>
    <2> DEFINE p == 8 + n
    <2>1. p \in 1 .. Len(data) + 1 /\ p + 2 > Len(data)
      BY <1>1, <1>10
    <2>2. F[p] = RespStep(data, F, p)
      BY <1>13, <2>1
    <2> HIDE DEF p
    <2>3. F[p] = <<>>
      BY <2>1, <2>2, Zenon DEF RespStep
    <2> QED BY <2>3 DEF p
  <1> HIDE DEF A, B
  <1>17. <<A>> \o (<<B>> \o <<>>) = <<A, B>>
    <2> DEFINE S == {A, B}
    <2>1. <<B>> \in Seq(S) /\ <<A>> \in Seq(S)
      OBVIOUS
    <2>2. <<B>> \o <<>> = <<B>>
      BY <2>1, ConcatEmptySeq
    <2>3. <<A>> \o <<B>> = <<A, B>>
      BY Pair
    <2> QED BY <2>2, <2>3
  <1>18. parseAttributeResponses(data) = <<A, B>>
    BY <1>14, <1>15, <1>16, <1>17, RespReads, Zenon DEF F
  <1>19. (h \o b) \o g = data
    BY <1>6, Assoc DEF data, bg
  <1>20. ((LE16(5) \o <<0>> \o <<t>>) \o b) \o (LE16(6) \o <<134>>) = data
    BY <1>5, <1>19, Zenon
  <1>21. Len(data) = 7 + Len(b)
    BY <1>1, <1>10
  <1> QED BY <1>9, <1>18, <1>20, <1>21, Zenon DEF A, B

\* The answer to a read of any sane record, and of one that is not supported.
LEMMA ResponseGood ==
    ASSUME NEW r, Sane(r), NEW m, SaysOf(m, "response", r)
    PROVE  Good(m)
  <1> DEFINE t == r.type
             b == recordBytes(r)
             u == ((LE16(5) \o <<0>>) \o <<t>>) \o b
             v == LE16(6)
             w == <<134>>
             h == zclHeader(m.mfr, 8, 1)
             body == u \o (v \o w)
             A == [attr |-> 5, status |-> 0, type |-> t, value |-> b]
             B == [attr |-> 6, status |-> 134, type |-> 0, value |-> <<>>]
             data == <<A, B>>
             e == Evt("response", 64704, data)
  <1>0. m.mfr \in BOOLEAN
    BY Zenon DEF SaysOf
  <1>1. m.kind = "response" /\ m.recs[1] = r
    BY Zenon DEF SaysOf
  <1>2. t \in Byte /\ Delimited(t, b) /\ Len(b) <= Base + 1 /\ b \in Seq(Byte)
    BY SaneReads DEF RecordReads, Delimited
  <1>3. body \in Seq(Byte) /\ Len(body) = 7 + Len(b) /\ parseAttributeResponses(body) = data
    <2> HIDE DEF t, b
    <2> QED BY <1>2, ResponseParsed
  <1>4. Len(body) <= Base + 11
    <2> HIDE DEF body, b
    <2> QED BY <1>2, <1>3, DigitIsByte, LenProperties
  <1>5. 0 \in Byte /\ 1 \in Byte /\ 5 \in Byte /\ 6 \in Byte /\ 134 \in Byte /\ 5 \in Word /\ 6 \in Word
    BY ByteFacts, WordFacts
  <1>6. u \in Seq(Byte) /\ v \in Seq(Byte) /\ w \in Seq(Byte)
    <2>1. LE16(5) \in Seq(Byte) /\ v \in Seq(Byte)
      BY <1>5, WordBytes DEF LE16
    <2>2. <<0>> \in Seq(Byte) /\ <<t>> \in Seq(Byte) /\ w \in Seq(Byte) /\ b \in Seq(Byte)
      BY <1>2, <1>5
    <2> HIDE DEF t, b, v, w
    <2>3. LE16(5) \o <<0>> \in Seq(Byte)
      BY <2>1, <2>2
    <2>4. (LE16(5) \o <<0>>) \o <<t>> \in Seq(Byte)
      BY <2>2, <2>3
    <2>5. u \in Seq(Byte)
      BY <2>2, <2>4
    <2> QED BY <2>1, <2>2, <2>5
  <1>7. h \in Seq(Byte)
    BY <1>0, <1>5, ZclHeader
  <1>8. reportRec(m, 1, <<0>>) = u /\ LE16(Attr(2)) = v
    <2>1. Attr(1) = 5 /\ Attr(2) = 6
      BY DEF Attr
    <2> QED BY <1>1, <2>1, Zenon DEF reportRec
  <1> HIDE DEF u, v, w, h
  <1>9. ((h \o u) \o v) \o w = h \o body
    <2>1. v \o w \in Seq(Byte) /\ h \o u \in Seq(Byte)
      BY <1>6, <1>7
    <2>2. \A x, y \in Seq(Byte) : (h \o x) \o y = h \o (x \o y)
      BY <1>7, Assoc
    <2>3. ((h \o u) \o v) \o w = (h \o u) \o (v \o w)
      <3> DEFINE hu == h \o u
      <3>1. hu \in Seq(Byte)
        BY <2>1
      <3> HIDE DEF hu
      <3>2. \A x, y \in Seq(Byte) : (hu \o x) \o y = hu \o (x \o y)
        BY <3>1, Assoc
      <3> QED BY <1>6, <3>2, Zenon DEF hu
    <2> QED BY <1>6, <2>1, <2>2, <2>3, Zenon
  <1>10. zclBytes(m) = zclHeader(m.mfr, 8, 1) \o body
    <2>1. zclBytes(m) = zclResponse(m)
      BY <1>1, ZclCases
    <2>2. zclResponse(m) = ((h \o u) \o v) \o w
      BY <1>8, Zenon DEF zclResponse, h, w
    <2> QED BY <1>9, <2>1, <2>2, Zenon DEF h
  <1> HIDE DEF body
  <1>11. m.kind \in ZclKinds /\ Cluster(m) = 64704
    <2>1. m.kind = "response"
      BY <1>1
    <2>2. m.kind \in ZclKinds
      BY <2>1, Zenon DEF ZclKinds
    <2>3. m.kind # "tuya"
      BY <2>1
    <2>4. Cluster(m) = 64704
      BY <2>2, <2>3, ClusterIs
    <2> QED BY <2>2, <2>4
  <1>12. A \in ResponseSet /\ B \in ResponseSet
    <2> HIDE DEF t, b
    <2> QED BY <1>2, <1>5 DEF ResponseSet
  <1>13. /\ A.attr = 5 /\ A.status = 0 /\ A.type = t /\ A.value = b
         /\ B.attr = 6 /\ B.status = 134 /\ B.type = 0 /\ B.value = <<>>
    <2> HIDE DEF t, b
    <2> QED OBVIOUS
  <1> HIDE DEF A, B
  <1>14. data \in Seq(ResponseSet) /\ DOMAIN data = 1 .. 2 /\ data[1] = A /\ data[2] = B
    BY <1>12
  <1> HIDE DEF data
  <1>15. e \in Event
    <2>1. 64704 \in Word
      BY WordFacts
    <2> QED BY <1>14, <2>1, EventType
  <1>16. e.to = "response" /\ e.data = data /\ e.seq = 9
    BY DEF Evt
  <1>17. Becomes(m, 8, 1, body, e)
    <2>1. e = Evt("response", Cluster(m), parseAttributeResponses(body))
      BY <1>3, <1>11
    <2> HIDE DEF e
    <2> QED BY <2>1 DEF Becomes
  <1> HIDE DEF e
  <1> DEFINE M == IF t \in OtherTypes THEN <<0, <<>>>> ELSE recordMeans(r)
             X == <<5, 0, M>>
             Y == <<6, 134, <<0, <<>>>>>>
             g == [i \in DOMAIN data |-> <<data[i].attr, data[i].status, Plain(readResult(data[i].type, data[i].value))>>]
  <1>18. Plain(readResult(A.type, A.value)) = M
    BY <1>13, SaneReported
  <1>19. Plain(readResult(B.type, B.value)) = <<0, <<>>>>
    <2>1. readResult(B.type, B.value) = Nil
      BY <1>13 DEF readResult
    <2> QED BY <2>1 DEF Plain, Nil, Go
  <1> HIDE DEF M
  <1>20. g = <<X, Y>>
    <2>1. <<A.attr, A.status, Plain(readResult(A.type, A.value))>> = X
      BY <1>13, <1>18, Zenon
    <2>2. <<B.attr, B.status, Plain(readResult(B.type, B.value))>> = Y
      BY <1>13, <1>19, Zenon
    <2>3. g = [i \in 1 .. 2 |-> IF i = 1 THEN X ELSE Y]
      <3>1. ASSUME NEW i \in 1 .. 2
            PROVE  <<data[i].attr, data[i].status, Plain(readResult(data[i].type, data[i].value))>> = IF i = 1 THEN X ELSE Y
        <4>1. i = 1 \/ (i = 2 /\ i # 1)
          OBVIOUS
        <4> HIDE DEF X, Y
        <4> QED BY <1>14, <2>1, <2>2, <4>1, Zenon
      <3> HIDE DEF X, Y
      <3> QED BY <1>14, <3>1, Zenon
    <2> HIDE DEF X, Y
    <2>4. [i \in 1 .. 2 |-> IF i = 1 THEN X ELSE Y] = <<X, Y>>
      OBVIOUS
    <2> QED BY <2>3, <2>4
  <1>21. Meant(m) = <<"response", 9, <<X, Y>>>>
    <2>1. Attr(1) = 5 /\ Attr(2) = 6
      BY DEF Attr
    <2>2. Meant(m) = MeantResponse(m)
      BY <1>1, MeantCases
    <2> QED BY <1>1, <2>1, <2>2, Zenon DEF MeantResponse, M
  <1>22. HandleZcl(e) = Meant(m)
    <2>1. HandleZcl(e) = HandleResponse(e)
      BY <1>16, HandleZclCases
    <2>2. HandleResponse(e) = <<"response", e.seq, g>>
      BY <1>16, Zenon DEF HandleResponse
    <2> QED BY <1>16, <1>20, <1>21, <2>1, <2>2, Zenon
  <1>23. Meant(m) \in Understood
    <2>1. M \in Plains /\ <<0, <<>>>> \in Plains
      <3>1. recordMeans(r) \in Plains /\ <<>> \in Seq(Byte) /\ 0 \in Int
        BY SaneReads DEF RecordReads
      <3> QED BY <3>1, PlainType DEF M
    <2>2. X \in Word \X Byte \X Plains /\ Y \in Word \X Byte \X Plains
      BY <1>5, <2>1
    <2>3. 9 \in Byte
      BY ByteFacts
    <2> HIDE DEF X, Y
    <2>4. <<X, Y>> \in Seq(Word \X Byte \X Plains)
      BY <2>2
    <2>5. <<"response", 9, <<X, Y>>>> \in {"response"} \X Byte \X Seq(Word \X Byte \X Plains)
      BY <2>3, <2>4
    <2> QED BY <1>21, <2>5 DEF Understood
  <1>24. ZclSays(m, 8, 1, body, e)
    <2>1. m.kind \in ZclKinds
      BY <1>11
    <2>2. 8 \in {8, 9} /\ 1 \in {1, 2, 10}
      OBVIOUS
    <2> QED BY <1>0, <1>3, <1>4, <1>10, <1>15, <1>17, <1>22, <1>23, <2>1, <2>2, Zenon DEF ZclSays
  <1> QED BY <1>24, ZclUnderstood

-----------------------------------------------------------------------------
(* The indications that carry no ZCL frame.                                *)

LEMMA IndicationParts ==
    /\ Ieee \in Seq(Byte) /\ Len(Ieee) = 8
    /\ LE16(Short) = <<239, 190>> /\ LE16(Short) \in Seq(Byte) /\ Len(LE16(Short)) = 2
    /\ Uint16(239, 190) = Short /\ Short \in Word
  <1>1. /\ 1 \in Byte /\ 2 \in Byte /\ 3 \in Byte /\ 4 \in Byte /\ 5 \in Byte /\ 6 \in Byte
        /\ 126 \in Byte /\ 125 \in Byte /\ 239 \in Byte /\ 190 \in Byte
    BY ByteFacts
  <1>2. Ieee \in Seq(Byte) /\ Len(Ieee) = 8
    BY <1>1 DEF Ieee
  <1>3. LE16(Short) = <<239, 190>>
    BY DEF LE16, Short
  <1>4. <<239, 190>> \in Seq(Byte) /\ Len(<<239, 190>>) = 2
    BY <1>1
  <1>5. Uint16(239, 190) = Short /\ Short \in Word
    BY WordFacts DEF Uint16, Short
  <1> QED BY <1>2, <1>3, <1>4, <1>5

AnnounceSays(p) ==
    /\ p \in Seq(Byte) /\ Len(p) = 11 /\ p[1] = 239 /\ p[2] = 190 /\ SubSeq(p, 3, 10) = Ieee
LEMMA AnnouncePayload == AnnounceSays(LE16(Short) \o Ieee \o <<128>>)
  <1> DEFINE s == LE16(Short)
             z == <<128>>
             y == Ieee \o z
             p == s \o y
  <1>1. /\ s \in Seq(Byte) /\ Len(s) = 2 /\ s[1] = 239 /\ s[2] = 190
    BY IndicationParts
  <1>2. z \in Seq(Byte) /\ Len(z) = 1
    BY ByteFacts
  <1>3. Ieee \in Seq(Byte) /\ Len(Ieee) = 8
    BY IndicationParts
  <1> HIDE DEF s, z
  <1>20. s \in Seq(Byte) /\ z \in Seq(Byte) /\ Ieee \in Seq(Byte)
    BY <1>1, <1>2, <1>3
  <1>4. y \in Seq(Byte) /\ Len(y) = Len(Ieee) + Len(z)
    BY <1>20, Parts
  <1>21. y \in Seq(Byte)
    BY <1>4
  <1>5. SubSeq(s \o (Ieee \o z), Len(s) + 1, Len(s) + Len(Ieee)) = Ieee
    BY <1>20, Middle
  <1> HIDE DEF y
  <1>6. p \in Seq(Byte) /\ Len(p) = Len(s) + Len(y) /\ \A i \in 1 .. Len(s) : p[i] = s[i]
    BY <1>20, <1>21, Parts
  <1>7. (s \o Ieee) \o z = p
    BY <1>1, <1>2, <1>3, Assoc DEF y
  <1>8. Len(s) + 1 = 3 /\ Len(s) + Len(Ieee) = 10 /\ Len(s) + Len(y) = 11 /\ 1 \in 1 .. Len(s) /\ 2 \in 1 .. Len(s)
    BY <1>1, <1>2, <1>3, <1>4
  <1> HIDE DEF p
  <1>9. p[1] = 239 /\ p[2] = 190
    BY <1>1, <1>6, <1>8
  <1>10. SubSeq(p, 3, 10) = Ieee
    BY <1>5, <1>8, Zenon DEF p, y
  <1>11. Len(p) = 11
    BY <1>6, <1>8
  <1>12. AnnounceSays(p)
    BY <1>6, <1>9, <1>10, <1>11 DEF AnnounceSays
  <1> QED BY <1>7, <1>12 DEF s, z

UpdateSays(p, n) ==
    /\ p \in Seq(Byte) /\ Len(p) = 11 /\ p[9] = 239 /\ p[10] = 190 /\ p[11] = n /\ SubSeq(p, 1, 8) = Ieee
LEMMA UpdatePayload ==
    ASSUME NEW n \in {1, 2}
    PROVE  UpdateSays(Ieee \o LE16(Short) \o <<n>>, n)
  <1> DEFINE s == LE16(Short)
             z == <<n>>
             y == s \o z
             p == Ieee \o y
  <1>1. /\ s \in Seq(Byte) /\ Len(s) = 2 /\ s[1] = 239 /\ s[2] = 190
    BY IndicationParts
  <1>2. z \in Seq(Byte) /\ Len(z) = 1 /\ z[1] = n
    BY ByteFacts
  <1>3. Ieee \in Seq(Byte) /\ Len(Ieee) = 8
    BY IndicationParts
  <1> HIDE DEF s, z
  <1>20. s \in Seq(Byte) /\ z \in Seq(Byte) /\ Ieee \in Seq(Byte)
    BY <1>1, <1>2, <1>3
  <1>4. /\ y \in Seq(Byte) /\ Len(y) = Len(s) + Len(z) /\ \A i \in 1 .. Len(s) : y[i] = s[i]
        /\ \A i \in 1 .. Len(z) : y[Len(s) + i] = z[i]
    BY <1>20, Parts
  <1> HIDE DEF y
  <1>5. Len(y) = 3 /\ y[1] = 239 /\ y[2] = 190 /\ y[3] = n
    <2>1. 1 \in 1 .. Len(s) /\ 2 \in 1 .. Len(s) /\ 1 \in 1 .. Len(z) /\ Len(s) + 1 = 3 /\ Len(s) + Len(z) = 3
      BY <1>1, <1>2
    <2>2. y[Len(s) + 1] = z[1]
      BY <1>4, <2>1
    <2> QED BY <1>1, <1>2, <1>4, <2>1, <2>2
  <1>6. /\ p \in Seq(Byte) /\ Len(p) = Len(Ieee) + Len(y) /\ \A i \in 1 .. Len(y) : p[Len(Ieee) + i] = y[i]
        /\ SubSeq(p, 1, Len(Ieee)) = Ieee
    <2>1. Ieee \in Seq(Byte) /\ y \in Seq(Byte)
      BY <1>3, <1>4
    <2>2. p \in Seq(Byte) /\ Len(p) = Len(Ieee) + Len(y) /\ \A i \in 1 .. Len(y) : p[Len(Ieee) + i] = y[i]
      BY <2>1, Parts
    <2>3. SubSeq(p, 1, Len(Ieee)) = Ieee
      BY <2>1, Prefix, Zenon
    <2> QED BY <2>2, <2>3, Zenon
  <1>7. (Ieee \o s) \o z = p
    BY <1>1, <1>2, <1>3, Assoc DEF y
  <1> HIDE DEF p
  <1>8. p[9] = 239 /\ p[10] = 190 /\ p[11] = n
    <2>1. 1 \in 1 .. Len(y) /\ 2 \in 1 .. Len(y) /\ 3 \in 1 .. Len(y)
      BY <1>5
    <2>2. p[Len(Ieee) + 1] = y[1] /\ p[Len(Ieee) + 2] = y[2] /\ p[Len(Ieee) + 3] = y[3]
      BY <1>6, <2>1
    <2>3. Len(Ieee) + 1 = 9 /\ Len(Ieee) + 2 = 10 /\ Len(Ieee) + 3 = 11
      BY <1>3
    <2> QED BY <1>5, <2>2, <2>3
  <1>9. Len(p) = 11
    BY <1>3, <1>5, <1>6
  <1>10. SubSeq(p, 1, 8) = Ieee
    BY <1>3, <1>6
  <1>11. UpdateSays(p, n)
    BY <1>6, <1>8, <1>9, <1>10 DEF UpdateSays
  <1> QED BY <1>7, <1>11 DEF s, z

LeaveSays(p, n) == p \in Seq(Byte) /\ Len(p) = 9 /\ p[9] = n /\ SubSeq(p, 1, 8) = Ieee
LEMMA LeavePayload ==
    ASSUME NEW n \in {0, 1}
    PROVE  LeaveSays(Ieee \o <<n>>, n)
  <1> DEFINE z == <<n>>
             p == Ieee \o z
  <1>1. z \in Seq(Byte) /\ Len(z) = 1 /\ z[1] = n
    BY ByteFacts
  <1>2. Ieee \in Seq(Byte) /\ Len(Ieee) = 8
    BY IndicationParts
  <1> HIDE DEF z
  <1>3. /\ p \in Seq(Byte) /\ Len(p) = Len(Ieee) + Len(z) /\ \A i \in 1 .. Len(z) : p[Len(Ieee) + i] = z[i]
        /\ SubSeq(p, 1, Len(Ieee)) = Ieee
    BY <1>1, <1>2, Parts, Prefix
  <1> HIDE DEF p
  <1>4. p[9] = n
    <2>1. 1 \in 1 .. Len(z) /\ Len(Ieee) + 1 = 9
      BY <1>1, <1>2
    <2>2. p[Len(Ieee) + 1] = z[1]
      BY <1>3, <2>1
    <2> QED BY <1>1, <2>1, <2>2
  <1>5. LeaveSays(p, n)
    BY <1>1, <1>2, <1>3, <1>4 DEF LeaveSays
  <1> QED BY <1>5 DEF p, z

\* Such an indication, its payload and what is made of it.
IndSays(m, callID, p) ==
    /\ callID \in Word /\ p \in Seq(Byte) /\ Len(p) <= 11
    /\ zbossBytes(m) = indication(callID, p)
    /\ handleIndication(IndicationFrame(callID, p)) = Meant(m) /\ Meant(m) \in Understood

LEMMA IndUnderstood ==
    ASSUME NEW m, NEW callID, NEW p, IndSays(m, callID, p)
    PROVE  Good(m) /\ Len(zbossBytes(m)) <= 24
  <1>1. callID \in Word /\ p \in Seq(Byte) /\ Len(p) <= 11
    BY DEF IndSays
  <1>2. zbossBytes(m) = indication(callID, p)
    BY DEF IndSays
  <1>3. handleIndication(IndicationFrame(callID, p)) = Meant(m) /\ Meant(m) \in Understood
    BY DEF IndSays
  <1>4. Len(p) <= Base + 55 /\ Len(p) \in Nat
    BY <1>1, DigitIsByte, LenProperties
  <1>5. Readable(zbossBytes(m)) /\ Len(zbossBytes(m)) = 13 + Len(p)
    BY <1>1, <1>2, <1>4, IndicationDecodes
  <1>6. ASSUME NEW raw, Unframed(raw) = zbossBytes(m) PROVE understand(raw) = Meant(m)
    <2>1. Unframed(raw) = indication(callID, p)
      BY <1>2, <1>6
    <2>2. understand(raw) = handleIndication(IndicationFrame(callID, p))
      BY <1>1, <1>4, <2>1, IndicationUnderstood
    <2> QED BY <1>3, <2>2
  <1>7. Len(zbossBytes(m)) <= 24
    BY <1>1, <1>4, <1>5
  <1> QED BY <1>3, <1>5, <1>6, <1>7 DEF Good

LEMMA AckGood ==
    ASSUME NEW m, m.kind = "ack"
    PROVE  Good(m) /\ Len(zbossBytes(m)) <= 24
  <1> DEFINE d == llHeader(5, 33)
             f == [flags |-> 33]
  <1>1. zbossBytes(m) = d
    BY ZbossCases
  <1>2. Readable(d) /\ Len(d) = 7 /\ zbossDecodeFrame(d) = f /\ d \in Seq(Byte)
    BY AckDecodes DEF Readable
  <1>3. Meant(m) = <<"ack", 2>>
    BY MeantCases
  <1>4. f \in LLAck /\ f.flags = 33
    BY ByteFacts DEF LLAck
  <1>5. f # Err /\ f # Panic
    BY <1>4, ErrAssumption, PanicAssumption
  <1>6. zbossLLIsACK(33) /\ zbossLLAckSeq(33) = 2
    BY DEF zbossLLIsACK, zbossLLAckSeq
  <1> HIDE DEF d, f
  <1>7. d # Err
    BY <1>2, ErrAssumption
  <1>8. ASSUME NEW raw, Unframed(raw) = zbossBytes(m) PROVE understand(raw) = Meant(m)
    <2>1. Unframed(raw) = d
      BY <1>1, <1>8
    <2>2. understand(raw) =
            IF Unframed(raw) = Err THEN None
            ELSE IF zbossDecodeFrame(Unframed(raw)) \in {Err, Panic}
                 THEN IF zbossDecodeFrame(Unframed(raw)) = Panic THEN Panic ELSE None
            ELSE IF zbossLLIsACK(zbossDecodeFrame(Unframed(raw)).flags)
                 THEN <<"ack", zbossLLAckSeq(zbossDecodeFrame(Unframed(raw)).flags)>>
            ELSE IF zbossDecodeFrame(Unframed(raw)).packetType = 2 THEN handleIndication(zbossDecodeFrame(Unframed(raw)))
            ELSE None
      BY Zenon DEF understand, Unframed
    <2>3. zbossDecodeFrame(Unframed(raw)) = f
      BY <1>2, <2>1
    <2>4. f \notin {Err, Panic}
      BY <1>5
    <2>5. understand(raw) = <<"ack", zbossLLAckSeq(33)>>
      BY <1>4, <1>6, <1>7, <2>1, <2>2, <2>3, <2>4, Zenon
    <2> QED BY <1>3, <1>6, <2>5, Zenon
  <1>9. Meant(m) \in Understood
    <2>1. 2 \in Word
      BY WordFacts
    <2>2. <<"ack", 2>> \in {"ack", "address"} \X Word
      BY <2>1
    <2> QED BY <1>3, <2>2 DEF Understood
  <1> QED BY <1>1, <1>2, <1>8, <1>9 DEF Good

IndicationKinds == {"ack", "announce", "join", "left", "leave", "rejoin", "address", "reset"}

\* Every indication without a ZCL frame is understood as it is meant.
LEMMA IndicationGood ==
    ASSUME NEW m, m.kind \in IndicationKinds
    PROVE  Good(m) /\ Len(zbossBytes(m)) <= 24
  <1>0. 524 \in Word /\ 533 \in Word /\ 1035 \in Word /\ 1052 \in Word /\ 43 \in Word /\ 0 \in Word
    BY WordFacts
  <1>1. \A c, p : IndicationFrame(c, p).callID = c /\ IndicationFrame(c, p).payload = p
    BY DEF IndicationFrame
  <1>2. Short \in Word /\ Ieee \in Seq(Byte) /\ Uint16(239, 190) = Short
    BY IndicationParts
  <1>3. CASE m.kind = "ack"
    BY <1>3, AckGood
  <1>4. CASE m.kind = "announce"
    <2> DEFINE p == LE16(Short) \o Ieee \o <<128>>
               f == IndicationFrame(524, p)
    <2>11. AnnounceSays(p)
      BY AnnouncePayload
    <2>12. zbossBytes(m) = indication(524, p)
      BY <1>4, ZbossCases
    <2>13. f.callID = 524 /\ f.payload = p
      <3> HIDE DEF p
      <3>1. IndicationFrame(524, p).callID = 524 /\ IndicationFrame(524, p).payload = p
        BY <1>1
      <3> QED BY <3>1
    <2>1. AnnounceSays(p) /\ zbossBytes(m) = indication(524, p) /\ f.callID = 524 /\ f.payload = p
      BY <2>11, <2>12, <2>13
    <2> HIDE DEF p, f
    <2>2. p \in Seq(Byte) /\ Len(p) = 11 /\ p[1] = 239 /\ p[2] = 190 /\ SubSeq(p, 3, 10) = Ieee
      BY <2>1 DEF AnnounceSays
    <2>3. ~(Len(p) < 11)
      BY <2>2
    <2>4. handleIndication(f) = onAnnounce(p)
      BY <2>1, IndicationCases
    <2>5. onAnnounce(p) = <<"announce", Short, Ieee>>
      BY <1>2, <2>2, <2>3, Zenon DEF onAnnounce
    <2>6. Meant(m) = <<"announce", Short, Ieee>>
      BY <1>4, MeantCases
    <2>7. <<"announce", Short, Ieee>> \in {"announce", "joined", "left"} \X Word \X Seq(Byte)
      BY <1>2
    <2>8. Meant(m) \in Understood
      BY <2>6, <2>7 DEF Understood
    <2>9. IndSays(m, 524, p)
      BY <1>0, <2>1, <2>2, <2>4, <2>5, <2>6, <2>8 DEF IndSays, f
    <2> QED BY <2>9, IndUnderstood
  <1>5. ASSUME NEW n \in {1, 2}, NEW k, k = (IF n = 2 THEN "left" ELSE "joined"),
               zbossBytes(m) = indication(533, Ieee \o LE16(Short) \o <<n>>), Meant(m) = <<k, Short, Ieee>>
        PROVE  Good(m) /\ Len(zbossBytes(m)) <= 24
    <2> DEFINE p == Ieee \o LE16(Short) \o <<n>>
               f == IndicationFrame(533, p)
    <2>11. UpdateSays(p, n)
      BY UpdatePayload
    <2>12. zbossBytes(m) = indication(533, p)
      BY <1>5
    <2>13. f.callID = 533 /\ f.payload = p
      <3> HIDE DEF p
      <3>1. IndicationFrame(533, p).callID = 533 /\ IndicationFrame(533, p).payload = p
        BY <1>1
      <3> QED BY <3>1
    <2>1. UpdateSays(p, n) /\ zbossBytes(m) = indication(533, p) /\ f.callID = 533 /\ f.payload = p
      BY <2>11, <2>12, <2>13
    <2> HIDE DEF p, f
    <2>2. p \in Seq(Byte) /\ Len(p) = 11 /\ p[9] = 239 /\ p[10] = 190 /\ p[11] = n /\ SubSeq(p, 1, 8) = Ieee
      BY <2>1 DEF UpdateSays
    <2>3. ~(Len(p) < 11) /\ ~(p[11] > 3)
      BY <2>2
    <2>4. handleIndication(f) = onUpdate(p)
      BY <2>1, IndicationCases
    <2>5. onUpdate(p) = <<k, Short, Ieee>>
      <3>1. onUpdate(p) = <<IF p[11] = 2 THEN "left" ELSE "joined", Uint16(p[9], p[10]), SubSeq(p, 1, 8)>>
        BY <2>3, Zenon DEF onUpdate
      <3>0. p[11] = n
        BY <2>2, Zenon
      <3>2. k = (IF p[11] = 2 THEN "left" ELSE "joined")
        BY <1>5, <3>0
      <3>3. Uint16(p[9], p[10]) = Short /\ SubSeq(p, 1, 8) = Ieee
        BY <1>2, <2>2, Zenon
      <3> QED BY <3>1, <3>2, <3>3, Zenon
    <2>7. Meant(m) \in {"announce", "joined", "left"} \X Word \X Seq(Byte)
      <3>1. k \in {"announce", "joined", "left"}
        BY <1>5
      <3> QED BY <1>2, <1>5, <3>1
    <2>8. Meant(m) \in Understood
      BY <2>7 DEF Understood
    <2>9. IndSays(m, 533, p)
      BY <1>0, <1>5, <2>1, <2>2, <2>4, <2>5, <2>8 DEF IndSays, f
    <2> QED BY <2>9, IndUnderstood
  <1>6. CASE m.kind = "join"
    <2>1. zbossBytes(m) = indication(533, Ieee \o LE16(Short) \o <<1>>)
      BY <1>6, ZbossCases
    <2>2. Meant(m) = <<"joined", Short, Ieee>>
      BY <1>6, MeantCases
    <2>3. 1 \in {1, 2} /\ "joined" = (IF 1 = 2 THEN "left" ELSE "joined")
      OBVIOUS
    <2> QED BY <1>5, <2>1, <2>2, <2>3, Zenon
  <1>7. CASE m.kind = "left"
    <2>1. zbossBytes(m) = indication(533, Ieee \o LE16(Short) \o <<2>>)
      BY <1>7, ZbossCases
    <2>2. Meant(m) = <<"left", Short, Ieee>>
      BY <1>7, MeantCases
    <2>3. 2 \in {1, 2} /\ "left" = (IF 2 = 2 THEN "left" ELSE "joined")
      OBVIOUS
    <2> QED BY <1>5, <2>1, <2>2, <2>3, Zenon
  <1>8. CASE m.kind = "leave"
    <2> DEFINE p == Ieee \o <<0>>
               f == IndicationFrame(1035, p)
    <2>11. LeaveSays(p, 0)
      <3>1. 0 \in {0, 1}
        OBVIOUS
      <3> QED BY <3>1, LeavePayload
    <2>12. zbossBytes(m) = indication(1035, p)
      BY <1>8, ZbossCases
    <2>13. f.callID = 1035 /\ f.payload = p
      <3> HIDE DEF p
      <3>1. IndicationFrame(1035, p).callID = 1035 /\ IndicationFrame(1035, p).payload = p
        BY <1>1
      <3> QED BY <3>1
    <2>1. LeaveSays(p, 0) /\ zbossBytes(m) = indication(1035, p) /\ f.callID = 1035 /\ f.payload = p
      BY <2>11, <2>12, <2>13
    <2> HIDE DEF p, f
    <2>2. p \in Seq(Byte) /\ Len(p) = 9 /\ p[9] = 0 /\ SubSeq(p, 1, 8) = Ieee
      BY <2>1 DEF LeaveSays
    <2>3. ~(Len(p) < 8) /\ ~(p[9] # 0)
      BY <2>2
    <2>4. handleIndication(f) = onLeave(p)
      BY <2>1, IndicationCases
    <2>5. onLeave(p) = <<"left", 0, Ieee>>
      BY <2>2, <2>3, Zenon DEF onLeave
    <2>6. Meant(m) = <<"left", 0, Ieee>>
      BY <1>8, MeantCases
    <2>7. <<"left", 0, Ieee>> \in {"announce", "joined", "left"} \X Word \X Seq(Byte)
      BY <1>0, <1>2
    <2>8. Meant(m) \in Understood
      BY <2>6, <2>7 DEF Understood
    <2>9. IndSays(m, 1035, p)
      BY <1>0, <2>1, <2>2, <2>4, <2>5, <2>6, <2>8 DEF IndSays, f
    <2> QED BY <2>9, IndUnderstood
  <1>9. CASE m.kind = "rejoin"
    <2> DEFINE p == Ieee \o <<1>>
               f == IndicationFrame(1035, p)
    <2>11. LeaveSays(p, 1)
      <3>1. 1 \in {0, 1}
        OBVIOUS
      <3> QED BY <3>1, LeavePayload
    <2>12. zbossBytes(m) = indication(1035, p)
      BY <1>9, ZbossCases
    <2>13. f.callID = 1035 /\ f.payload = p
      <3> HIDE DEF p
      <3>1. IndicationFrame(1035, p).callID = 1035 /\ IndicationFrame(1035, p).payload = p
        BY <1>1
      <3> QED BY <3>1
    <2>1. LeaveSays(p, 1) /\ zbossBytes(m) = indication(1035, p) /\ f.callID = 1035 /\ f.payload = p
      BY <2>11, <2>12, <2>13
    <2> HIDE DEF p, f
    <2>2. p \in Seq(Byte) /\ Len(p) = 9 /\ p[9] = 1
      BY <2>1 DEF LeaveSays
    <2>3. ~(Len(p) < 8) /\ Len(p) >= 9 /\ p[9] # 0
      BY <2>2
    <2>4. handleIndication(f) = onLeave(p)
      BY <2>1, IndicationCases
    <2>5. onLeave(p) = <<"nothing">>
      BY <2>3, Zenon DEF onLeave
    <2>6. Meant(m) = <<"nothing">>
      BY <1>9, MeantCases
    <2>8. Meant(m) \in Understood
      BY <2>6 DEF Understood
    <2>9. IndSays(m, 1035, p)
      BY <1>0, <2>1, <2>2, <2>4, <2>5, <2>6, <2>8 DEF IndSays, f
    <2> QED BY <2>9, IndUnderstood
  <1>10. CASE m.kind = "address"
    <2> DEFINE p == LE16(Short)
               f == IndicationFrame(1052, p)
    <2>1. zbossBytes(m) = indication(1052, p) /\ f.callID = 1052 /\ f.payload = p
      BY <1>1, <1>10, ZbossCases
    <2>2. p \in Seq(Byte) /\ Len(p) = 2 /\ p[1] = 239 /\ p[2] = 190
      BY IndicationParts
    <2> HIDE DEF p, f
    <2>3. ~(Len(p) < 2)
      BY <2>2
    <2>4. handleIndication(f) = onAddress(p)
      BY <2>1, IndicationCases
    <2>5. onAddress(p) = <<"address", Short>>
      BY <1>2, <2>2, <2>3, Zenon DEF onAddress
    <2>6. Meant(m) = <<"address", Short>>
      BY <1>10, MeantCases
    <2>7. <<"address", Short>> \in {"ack", "address"} \X Word
      BY <1>2
    <2>8. Meant(m) \in Understood
      BY <2>6, <2>7 DEF Understood
    <2>9. IndSays(m, 1052, p)
      BY <1>0, <2>1, <2>2, <2>4, <2>5, <2>6, <2>8 DEF IndSays, f
    <2> QED BY <2>9, IndUnderstood
  <1>11. CASE m.kind = "reset"
    <2> DEFINE p == <<>>
               f == IndicationFrame(43, p)
    <2>1. zbossBytes(m) = indication(43, p) /\ f.callID = 43
      BY <1>1, <1>11, ZbossCases
    <2>2. p \in Seq(Byte) /\ Len(p) <= 11
      OBVIOUS
    <2> HIDE DEF p, f
    <2>4. handleIndication(f) = <<"reset">>
      BY <2>1, IndicationCases
    <2>6. Meant(m) = <<"reset">>
      BY <1>11, MeantCases
    <2>8. Meant(m) \in Understood
      BY <2>6 DEF Understood
    <2>9. IndSays(m, 43, p)
      BY <1>0, <2>1, <2>2, <2>4, <2>6, <2>8 DEF IndSays, f
    <2> QED BY <2>9, IndUnderstood
  <1> QED BY <1>3, <1>4, <1>6, <1>7, <1>8, <1>9, <1>10, <1>11 DEF IndicationKinds

-----------------------------------------------------------------------------
(* Tuya and Xiaomi.  The maps their decoders leave.                        *)

LEMMA MapOfTwo ==
    ASSUME NEW v \in Value, NEW w \in Value
    PROVE  /\ MapOf(<<<<1, v>>, <<2, w>>>>) # Err
           /\ Pairs(MapOf(<<<<1, v>>, <<2, w>>>>)) = {<<1, Plain(v)>>, <<2, Plain(w)>>}
  <1> DEFINE ps == <<<<1, v>>, <<2, w>>>>
             at(k) == CHOOSE i \in DOMAIN ps : ps[i][1] = k /\ \A j \in i + 1 .. Len(ps) : ps[j][1] # k
             f == MapOf(ps)
  <1>1. DOMAIN ps = 1 .. 2 /\ Len(ps) = 2 /\ ps[1][1] = 1 /\ ps[1][2] = v /\ ps[2][1] = 2 /\ ps[2][2] = w
    OBVIOUS
  <1>2. {p[1] : p \in Range(ps)} = {1, 2}
    <2>1. Range(ps) = {ps[1], ps[2]}
      <3> HIDE DEF ps
      <3>1. DOMAIN ps = {1, 2}
        BY <1>1
      <3> QED BY <3>1 DEF Range
    <2> HIDE DEF ps
    <2>2. {p[1] : p \in {ps[1], ps[2]}} = {ps[1][1], ps[2][1]}
      OBVIOUS
    <2> QED BY <1>1, <2>1, <2>2
  <1> HIDE DEF ps
  <1>3. at(1) = 1 /\ at(2) = 2
    <2>1. \A i \in DOMAIN ps : i = 1 \/ i = 2
      BY <1>1
    <2>2. 1 \in DOMAIN ps /\ 2 \in DOMAIN ps /\ \A j \in 1 + 1 .. Len(ps) : j = 2
      BY <1>1
    <2>3. \A j \in 2 + 1 .. Len(ps) : FALSE
      BY <1>1
    <2>4. 1 # 2
      OBVIOUS
    <2>5. at(1) = 1
      <3>1. \A i \in DOMAIN ps : (ps[i][1] = 1 /\ \A j \in i + 1 .. Len(ps) : ps[j][1] # 1) <=> i = 1
        BY <1>1, <2>1, <2>2, <2>4, Zenon
      <3> QED BY <2>2, <3>1
    <2>6. at(2) = 2
      <3>1. \A i \in DOMAIN ps : (ps[i][1] = 2 /\ \A j \in i + 1 .. Len(ps) : ps[j][1] # 2) <=> i = 2
        BY <1>1, <2>1, <2>3, <2>4, Zenon
      <3> QED BY <2>2, <3>1
    <2> QED BY <2>5, <2>6
  <1>4. f = [k \in {1, 2} |-> ps[at(k)][2]]
    BY <1>2, Zenon DEF MapOf
  <1> HIDE DEF at
  <1>5. f = [k \in {1, 2} |-> IF k = 1 THEN v ELSE w]
    <2>1. \A k \in {1, 2} : ps[at(k)][2] = IF k = 1 THEN v ELSE w
      BY <1>1, <1>3
    <2> QED BY <1>4, <2>1, Zenon
  <1> HIDE DEF f
  <1>6. DOMAIN f = {1, 2} /\ f[1] = v /\ f[2] = w /\ f \in [{1, 2} -> Value]
    BY <1>5
  <1>7. f # Err
    <2>1. {1, 2} \in SUBSET (1 .. 2)
      OBVIOUS
    <2> QED BY <1>6, <2>1, ResultAssumption
  <1>8. Pairs(f) = {<<1, Plain(v)>>, <<2, Plain(w)>>}
    BY <1>6 DEF Pairs
  <1> QED BY <1>7, <1>8 DEF f, ps

LEMMA MapOfOne ==
    ASSUME NEW w \in Value
    PROVE  /\ MapOf(<<<<2, w>>>>) # Err
           /\ Pairs(MapOf(<<<<2, w>>>>)) = {<<2, Plain(w)>>}
  <1> DEFINE ps == <<<<2, w>>>>
             at(k) == CHOOSE i \in DOMAIN ps : ps[i][1] = k /\ \A j \in i + 1 .. Len(ps) : ps[j][1] # k
             f == MapOf(ps)
  <1>1. DOMAIN ps = 1 .. 1 /\ Len(ps) = 1 /\ ps[1][1] = 2 /\ ps[1][2] = w
    OBVIOUS
  <1>2. {p[1] : p \in Range(ps)} = {2}
    <2>1. Range(ps) = {ps[1]}
      <3> HIDE DEF ps
      <3>1. DOMAIN ps = {1}
        BY <1>1
      <3> QED BY <3>1 DEF Range
    <2> HIDE DEF ps
    <2>2. {p[1] : p \in {ps[1]}} = {ps[1][1]}
      OBVIOUS
    <2> QED BY <1>1, <2>1, <2>2
  <1> HIDE DEF ps
  <1>3. at(2) = 1
    <2>1. \A i \in DOMAIN ps : i = 1
      BY <1>1
    <2>2. 1 \in DOMAIN ps /\ \A j \in 1 + 1 .. Len(ps) : FALSE
      BY <1>1
    <2>3. \A i \in DOMAIN ps : (ps[i][1] = 2 /\ \A j \in i + 1 .. Len(ps) : ps[j][1] # 2) <=> i = 1
      BY <1>1, <2>1, <2>2, Zenon
    <2> QED BY <2>2, <2>3
  <1>4. f = [k \in {2} |-> ps[at(k)][2]]
    BY <1>2, Zenon DEF MapOf
  <1> HIDE DEF at
  <1>5. f = [k \in {2} |-> w]
    <2>1. \A k \in {2} : ps[at(k)][2] = w
      BY <1>1, <1>3
    <2> QED BY <1>4, <2>1, Zenon
  <1> HIDE DEF f
  <1>6. DOMAIN f = {2} /\ f[2] = w /\ f \in [{2} -> Value]
    BY <1>5
  <1>7. f # Err
    <2>1. {2} \in SUBSET (1 .. 2)
      OBVIOUS
    <2> QED BY <1>6, <2>1, ResultAssumption
  <1>8. Pairs(f) = {<<2, Plain(w)>>}
    BY <1>6 DEF Pairs
  <1> QED BY <1>7, <1>8 DEF f, ps

\* Positions where DecodeValue may stop.
LEMMA WidthType == ASSUME NEW t PROVE TypeSize(t) \in Int
  <1> DEFINE P == \E k \in 1 .. 6 : t \in UintTypes(k)
             c == CHOOSE k \in 1 .. 6 : t \in UintTypes(k)
  <1>1. P => c \in 1 .. 6
    BY Zenon
  <1>2. TypeSize(t) = CASE t = TypeNoData -> 0 [] t = TypeBool -> 1 [] P -> c [] t \in SignedTypes -> t - 39
                        [] t = TypeFloat16 -> 2 [] t = 57 -> 4 [] t \in {58, 240} -> 8 [] OTHER -> -1
    BY Zenon DEF TypeSize
  <1>3. t \in SignedTypes => t - 39 \in Int
    BY DEF SignedTypes
  <1> DEFINE d == t - 39
  <1> HIDE DEF P, c, d
  <1>4. \/ TypeSize(t) \in {0, 1, 2, 4, 8, -1}
        \/ (P /\ TypeSize(t) = c)
        \/ (t \in SignedTypes /\ TypeSize(t) = d)
    BY <1>2 DEF d
  <1>5. {0, 1, 2, 4, 8, -1} \subseteq Int /\ 1 .. 6 \subseteq Int
    OBVIOUS
  <1> QED BY <1>1, <1>3, <1>4, <1>5 DEF d

LEMMA DecodeBound ==
    ASSUME NEW t, NEW data \in Seq(Byte), DecodeValue(t, data) # Err
    PROVE  DecodeValue(t, data).used \in 0 .. Len(data)
  <1> DEFINE size == TypeSize(t)
             prefix == CASE t \in {TypeOctetStr, TypeCharStr} -> 1
                         [] t \in {TypeOctetStr16, TypeCharStr16} -> 2 [] OTHER -> 0
             x == SubSeq(data, 1, prefix)
             length == Number(x)
             go == IF t \in {TypeCharStr, TypeCharStr16} THEN "string" ELSE "[]byte"
             y == GoBytes(go, SubSeq(data, prefix + 1, prefix + length))
             z == decodeFixed(t, SubSeq(data, 1, size))
             pw == Pow(prefix) - 1
  <1>1. Len(data) \in Nat /\ size \in Int /\ prefix \in {0, 1, 2}
    <2>1. prefix \in {0, 1, 2}
      BY DEF TypeOctetStr, TypeCharStr, TypeOctetStr16, TypeCharStr16
    <2>2. size \in Int
      BY WidthType
    <2> QED BY <2>1, <2>2, LenProperties
  <1>2. DecodeValue(t, data) =
            IF size = 0 THEN Decoded(Nil, 0)
            ELSE IF size < 0 THEN IF prefix = 0 \/ Len(data) < prefix THEN Err
                                  ELSE IF length = pw THEN Decoded(Nil, prefix)
                                  ELSE IF Len(data) < prefix + length THEN Err
                                  ELSE Decoded(y, prefix + length)
            ELSE IF Len(data) < size THEN Err
            ELSE Decoded(z, size)
    BY Zenon DEF DecodeValue, decodeVariableValue
  <1>3. \A a, b : Decoded(a, b).used = b
    BY DEF Decoded
  <1>4. ~(Len(data) < prefix) => length \in Nat
    <2> HIDE DEF prefix
    <2>1. CASE prefix <= Len(data)
      <3>1. x \in Seq(Nat)
        <4>1. \A i \in 1 .. prefix : data[i] \in Nat
          <5>1. \A i \in 1 .. Len(data) : data[i] \in Byte
            BY ElementOfSeq
          <5>2. \A i \in 1 .. prefix : i \in 1 .. Len(data)
            BY <1>1, <2>1
          <5>3. Byte \subseteq Nat
            BY ByteFacts
          <5> QED BY <5>1, <5>2, <5>3
        <4>2. x = [i \in 1 .. prefix |-> data[i]]
          <5>1. prefix \in Nat /\ \A i \in 1 .. prefix : 1 + i - 1 = i
            BY <1>1
          <5> QED BY <1>1, <2>1, <5>1
        <4>3. prefix \in Nat
          BY <1>1
        <4> HIDE DEF x
        <4> QED BY <4>1, <4>2, <4>3
      <3> HIDE DEF x
      <3>2. PICK N : IsNumber(N, x) /\ Number(x) = N[1]
        BY <3>1, NumberOfNats
      <3>3. 1 \in 1 .. Len(x) + 1
        BY <3>1, LenProperties
      <3> QED BY <3>2, <3>3 DEF IsNumber
    <2> QED BY <1>1, <2>1
  <1> HIDE DEF size, prefix, length, y, z, x, go, pw
  <1>5. \/ DecodeValue(t, data) = Decoded(Nil, 0)
        \/ (prefix <= Len(data) /\ DecodeValue(t, data) = Decoded(Nil, prefix))
        \/ (~(Len(data) < prefix) /\ ~(Len(data) < prefix + length) /\ DecodeValue(t, data) = Decoded(y, prefix + length))
        \/ (size > 0 /\ size <= Len(data) /\ DecodeValue(t, data) = Decoded(z, size))
    BY <1>1, <1>2
  <1> QED BY <1>1, <1>3, <1>4, <1>5

-----------------------------------------------------------------------------
(* The scans of the two decoders.                                          *)

TuyaStep(data, f, p) ==
    LET len  == 256 * data[p + 2] + data[p + 3]
        val  == tuyaValue(data[p + 1], SubSeq(data, p + 4, p + 3 + len))
        tail == f[p + 4 + len]
    IN  IF p + 3 > Len(data) THEN <<>>
        ELSE IF p + 3 + len > Len(data) THEN Err
        ELSE IF tail = Err THEN Err
        ELSE IF val = None THEN tail ELSE <<<<data[p], val>>>> \o tail
TuyaScan(data) == CHOOSE f : f = [p \in 1 .. Len(data) + 3 |-> TuyaStep(data, f, p)]

LEMMA TuyaReads ==
    ASSUME NEW data, ~(Len(data) < 2), TuyaScan(data)[3] # Err
    PROVE  decodeTuyaDPs(data) = MapOf(TuyaScan(data)[3])
  BY Zenon DEF decodeTuyaDPs, TuyaScan, TuyaStep

LEMMA TuyaScanSteps ==
    ASSUME NEW data \in Seq(Byte), NEW p \in 1 .. Len(data) + 3
    PROVE  TuyaScan(data)[p] = TuyaStep(data, TuyaScan(data), p)
  <1> DEFINE N == Len(data) + 3
             Dom == 1 .. N
             len(q) == 256 * data[q + 2] + data[q + 3]
             val(q) == tuyaValue(data[q + 1], SubSeq(data, q + 4, q + 3 + len(q)))
             pr(q) == <<data[q], val(q)>>
             D == {Err} \cup Seq({pr(q) : q \in Dom})
             short == {q \in Dom : q + 3 > Len(data)}
             cut == {q \in Dom : q + 3 + len(q) > Len(data)} \ short
             stop == short \cup cut
             rank == [q \in Dom |-> N - q]
             c == [q \in Dom |-> IF q \in short THEN <<>> ELSE Err]
             nxt == [q \in Dom |-> IF q \in stop THEN q ELSE q + 4 + len(q)]
             h(q, x) == IF x = Err THEN Err ELSE IF val(q) = None THEN x ELSE <<pr(q)>> \o x
             H == [q \in Dom |-> [x \in D |-> h(q, x)]]
  <1>1. N \in Nat /\ rank \in [Dom -> 0 .. N]
    OBVIOUS
  <1>2. c \in [Dom -> D]
    <2> HIDE DEF pr, short, Dom
    <2>1. <<>> \in D /\ Err \in D
      OBVIOUS
    <2> HIDE DEF D
    <2> QED BY <2>1
  <1>3. ASSUME NEW q \in Dom, q \notin stop
        PROVE  q + 4 + len(q) \in Dom /\ q + 4 + len(q) > q
    <2>1. q + 3 <= Len(data) /\ ~(q + 3 + len(q) > Len(data))
      BY <1>3
    <2>2. data[q + 2] \in Byte /\ data[q + 3] \in Byte
      <3>1. q + 2 \in 1 .. Len(data) /\ q + 3 \in 1 .. Len(data)
        BY <2>1
      <3> QED BY <3>1, ElementOfSeq
    <2>3. len(q) \in Nat
      <3>1. \A x, y \in Byte : 256 * x + y \in Nat
        BY ByteFacts
      <3> QED BY <2>2, <3>1, Zenon
    <2> HIDE DEF len
    <2> QED BY <2>1, <2>3
  <1>4. nxt \in [Dom -> Dom]
    <2> HIDE DEF stop, len, Dom
    <2> QED BY <1>3
  <1>5. H \in [Dom -> [D -> D]]
    <2> HIDE DEF pr, val, Dom
    <2>1. ASSUME NEW q \in Dom, NEW x \in D PROVE h(q, x) \in D
      <3>1. CASE x = Err
        BY <3>1
      <3>2. CASE x # Err /\ val(q) = None
        BY <3>2
      <3>3. CASE x # Err /\ val(q) # None
        <4>1. x \in Seq({pr(k) : k \in Dom})
          BY <3>3
        <4>2. <<pr(q)>> \o x \in Seq({pr(k) : k \in Dom})
          BY <4>1
        <4> QED BY <3>3, <4>2
      <3> QED BY <3>1, <3>2, <3>3
    <2> HIDE DEF D, h
    <2> QED BY <2>1
  <1>6. ASSUME NEW q \in Dom, q \notin stop PROVE rank[nxt[q]] < rank[q]
    <2>1. nxt[q] = q + 4 + len(q)
      BY <1>6
    <2> HIDE DEF len, stop
    <2>2. nxt[q] \in Dom /\ nxt[q] > q
      BY <1>3, <1>6, <2>1
    <2> HIDE DEF nxt
    <2> QED BY <1>1, <2>2
  <1> HIDE DEF rank, c, nxt, H, D, Dom, stop
  <1>7. PICK f : Ranked(Dom, D, stop, c, nxt, H, f)
    BY <1>1, <1>2, <1>4, <1>5, <1>6, RankedExists DEF N
  <1>8. f \in [Dom -> D] /\ \A q \in Dom : f[q] = IF q \in stop THEN c[q] ELSE H[q][f[nxt[q]]]
    BY <1>7 DEF Ranked
  <1>9. ASSUME NEW q \in Dom PROVE f[q] = TuyaStep(data, f, q)
    <2> DEFINE n == q + 4 + len(q)
    <2>0. TuyaStep(data, f, q) =
            IF q + 3 > Len(data) THEN <<>>
            ELSE IF q + 3 + len(q) > Len(data) THEN Err
            ELSE h(q, f[n])
      BY Zenon DEF TuyaStep
    <2>9. /\ q \in short <=> q + 3 > Len(data)
          /\ q \in cut <=> ~(q + 3 > Len(data)) /\ q + 3 + len(q) > Len(data)
          /\ q \in stop <=> q \in short \/ q \in cut
      BY DEF Dom, stop
    <2> HIDE DEF n, h, short, cut, len
    <2>1. CASE q \in stop
      <3>1. f[q] = IF q \in short THEN <<>> ELSE Err
        BY <1>8, <2>1 DEF c
      <3> QED BY <2>0, <2>1, <2>9, <3>1, Zenon
    <2>2. CASE q \notin stop
      <3>1. f[nxt[q]] \in D
        BY <1>4, <1>8
      <3>2. f[q] = h(q, f[nxt[q]])
        BY <1>8, <2>2, <3>1 DEF H
      <3>3. nxt[q] = n
        BY <2>2 DEF nxt, n
      <3> QED BY <2>0, <2>2, <2>9, <3>2, <3>3, Zenon
    <2> QED BY <2>1, <2>2
  <1>10. f = [q \in Dom |-> TuyaStep(data, f, q)]
    BY <1>8, <1>9
  <1>11. TuyaScan(data) = [q \in Dom |-> TuyaStep(data, TuyaScan(data), q)]
    BY <1>10, Zenon DEF TuyaScan, Dom, N
  <1>12. p \in Dom
    BY DEF Dom, N
  <1> QED BY <1>11, <1>12

TlvStep(data, f, p) ==
    LET val  == DecodeValue(data[p + 1], From(data, p + 2))
        tail == f[p + 2 + val.used]
    IN  IF p + 1 > Len(data) THEN <<>>
        ELSE IF val = Err THEN Err
        ELSE IF tail = Err THEN Err
        ELSE <<<<data[p], val.val>>>> \o tail
TlvScan(data) == CHOOSE f : f = [p \in 1 .. Len(data) + 2 |-> TlvStep(data, f, p)]

LEMMA TlvReads ==
    ASSUME NEW data, TlvScan(data)[1] # Err
    PROVE  decodeXiaomiTLV(data) = MapOf(TlvScan(data)[1])
  BY Zenon DEF decodeXiaomiTLV, TlvScan, TlvStep

LEMMA TlvScanSteps ==
    ASSUME NEW data \in Seq(Byte), NEW p \in 1 .. Len(data) + 2
    PROVE  TlvScan(data)[p] = TlvStep(data, TlvScan(data), p)
  <1> DEFINE N == Len(data) + 2
             Dom == 1 .. N
             rest(q) == From(data, q + 2)
             val(q) == DecodeValue(data[q + 1], rest(q))
             used(q) == val(q).used
             pr(q) == <<data[q], val(q).val>>
             D == {Err} \cup Seq({pr(q) : q \in Dom})
             short == {q \in Dom : q + 1 > Len(data)}
             bad == {q \in Dom : val(q) = Err} \ short
             stop == short \cup bad
             rank == [q \in Dom |-> N - q]
             c == [q \in Dom |-> IF q \in short THEN <<>> ELSE Err]
             nxt == [q \in Dom |-> IF q \in stop THEN q ELSE q + 2 + used(q)]
             h(q, x) == IF x = Err THEN Err ELSE <<pr(q)>> \o x
             H == [q \in Dom |-> [x \in D |-> h(q, x)]]
  <1>1. N \in Nat /\ rank \in [Dom -> 0 .. N]
    OBVIOUS
  <1>2. c \in [Dom -> D]
    <2> HIDE DEF pr, short, Dom
    <2>1. <<>> \in D /\ Err \in D
      OBVIOUS
    <2> HIDE DEF D
    <2> QED BY <2>1
  <1>3. ASSUME NEW q \in Dom, q \notin stop
        PROVE  q + 2 + used(q) \in Dom /\ q + 2 + used(q) > q
    <2> HIDE DEF val
    <2>1. q + 1 <= Len(data) /\ val(q) # Err
      BY <1>3
    <2>2. q + 2 \in 1 .. Len(data) + 1
      BY <2>1
    <2>3. Len(rest(q)) = Len(data) + 1 - (q + 2) /\ rest(q) \in Seq(Byte)
      BY <2>2, FromLen
    <2> HIDE DEF rest
    <2>4. used(q) \in 0 .. Len(rest(q))
      BY <2>1, <2>3, DecodeBound DEF val
    <2> HIDE DEF used
    <2> QED BY <2>1, <2>3, <2>4
  <1>4. nxt \in [Dom -> Dom]
    <2> HIDE DEF stop, used, Dom
    <2> QED BY <1>3
  <1>5. H \in [Dom -> [D -> D]]
    <2> HIDE DEF pr, val, Dom
    <2>1. ASSUME NEW q \in Dom, NEW x \in D PROVE h(q, x) \in D
      <3>1. CASE x = Err
        BY <3>1
      <3>2. CASE x # Err
        <4>1. x \in Seq({pr(k) : k \in Dom})
          BY <3>2
        <4>2. <<pr(q)>> \o x \in Seq({pr(k) : k \in Dom})
          BY <4>1
        <4> QED BY <3>2, <4>2
      <3> QED BY <3>1, <3>2
    <2> HIDE DEF D, h
    <2> QED BY <2>1
  <1>6. ASSUME NEW q \in Dom, q \notin stop PROVE rank[nxt[q]] < rank[q]
    <2>1. nxt[q] = q + 2 + used(q)
      BY <1>6
    <2> HIDE DEF used, stop
    <2>2. nxt[q] \in Dom /\ nxt[q] > q
      BY <1>3, <1>6, <2>1
    <2> HIDE DEF nxt
    <2> QED BY <1>1, <2>2
  <1> HIDE DEF rank, c, nxt, H, D, Dom, stop
  <1>7. PICK f : Ranked(Dom, D, stop, c, nxt, H, f)
    BY <1>1, <1>2, <1>4, <1>5, <1>6, RankedExists DEF N
  <1>8. f \in [Dom -> D] /\ \A q \in Dom : f[q] = IF q \in stop THEN c[q] ELSE H[q][f[nxt[q]]]
    BY <1>7 DEF Ranked
  <1>9. ASSUME NEW q \in Dom PROVE f[q] = TlvStep(data, f, q)
    <2> DEFINE n == q + 2 + used(q)
    <2>0. TlvStep(data, f, q) =
            IF q + 1 > Len(data) THEN <<>>
            ELSE IF val(q) = Err THEN Err
            ELSE h(q, f[n])
      BY Zenon DEF TlvStep
    <2> HIDE DEF val
    <2>9. /\ q \in short <=> q + 1 > Len(data)
          /\ q \in bad <=> ~(q + 1 > Len(data)) /\ val(q) = Err
          /\ q \in stop <=> q \in short \/ q \in bad
      BY DEF Dom, stop
    <2> HIDE DEF n, h, short, bad, used
    <2>1. CASE q \in stop
      <3>1. f[q] = IF q \in short THEN <<>> ELSE Err
        BY <1>8, <2>1 DEF c
      <3> QED BY <2>0, <2>1, <2>9, <3>1, Zenon
    <2>2. CASE q \notin stop
      <3>1. f[nxt[q]] \in D
        BY <1>4, <1>8
      <3>2. f[q] = h(q, f[nxt[q]])
        BY <1>8, <2>2, <3>1 DEF H
      <3>3. nxt[q] = n
        BY <2>2 DEF nxt, n
      <3> QED BY <2>0, <2>2, <2>9, <3>2, <3>3, Zenon
    <2> QED BY <2>1, <2>2
  <1>10. f = [q \in Dom |-> TlvStep(data, f, q)]
    BY <1>8, <1>9
  <1>11. TlvScan(data) = [q \in Dom |-> TlvStep(data, TlvScan(data), q)]
    BY <1>10, Zenon DEF TlvScan, Dom, N
  <1>12. p \in Dom
    BY DEF Dom, N
  <1> QED BY <1>11, <1>12

LEMMA BytesNumber == ASSUME NEW d \in Seq(Byte) PROVE Number(Reverse(d)) \in Nat
  <1> DEFINE e == Reverse(d)
  <1>1. Len(d) \in Nat /\ \A i \in 1 .. Len(d) : d[i] \in Nat
    <2>1. Len(d) \in Nat /\ \A i \in 1 .. Len(d) : d[i] \in Byte
      BY LenProperties, ElementOfSeq
    <2> QED BY <2>1, ByteFacts
  <1>2. \A i \in 1 .. Len(d) : d[(Len(d) - i) + 1] \in Nat
    <2>1. \A i \in 1 .. Len(d) : (Len(d) - i) + 1 \in 1 .. Len(d)
      BY <1>1
    <2> QED BY <1>1, <2>1
  <1>3. e \in Seq(Nat)
    BY <1>1, <1>2 DEF Reverse
  <1> HIDE DEF e
  <1>4. PICK N : IsNumber(N, e) /\ Number(e) = N[1]
    BY <1>3, NumberOfNats
  <1>5. 1 \in 1 .. Len(e) + 1
    BY <1>3, LenProperties
  <1>6. Number(e) \in Nat
    BY <1>4, <1>5 DEF IsNumber
  <1> QED BY <1>6 DEF e

LEMMA GoType ==
    /\ \A n \in Int : Go("bool", n) \in Value /\ Go("int64", n) \in Value
    /\ \A s \in Seq(Byte) : GoBytes("string", s) \in Value /\ GoBytes("[]byte", s) \in Value
    /\ \A x, n : Plain(Go(x, n)) = <<n, <<>>>> /\ Plain(GoBytes(x, n)) = <<0, n>>
  <1>1. "bool" \in GoTypes /\ "int64" \in GoTypes /\ "string" \in GoTypes /\ "[]byte" \in GoTypes
    BY DEF GoTypes
  <1>2. <<>> \in Seq(Byte) /\ 0 \in Int
    OBVIOUS
  <1>3. \A x \in GoTypes : \A n \in Int : Go(x, n) \in Value
    BY <1>2 DEF Value, Go
  <1>4. \A x \in GoTypes : \A s \in Seq(Byte) : GoBytes(x, s) \in Value
    BY <1>2 DEF Value, GoBytes
  <1>5. \A x, n : Plain(Go(x, n)) = <<n, <<>>>> /\ Plain(GoBytes(x, n)) = <<0, n>>
    BY DEF Plain, Go, GoBytes
  <1> QED BY <1>1, <1>3, <1>4, <1>5

\* tuyaValue makes of a data point what it means, and nothing of one that is too
\* short for its type.
LEMMA TuyaValues ==
    ASSUME NEW p, p.type \in 0 .. 5, p.d \in Seq(Byte)
    PROVE  \/ tuyaValue(p.type, p.d) = None /\ meantPoint(p) = {}
           \/ tuyaValue(p.type, p.d) \in Value /\ meantPoint(p) = {<<1, Plain(tuyaValue(p.type, p.d))>>}
  <1> DEFINE t == p.type
             d == p.d
             v == tuyaValue(t, d)
             b == IF d[1] # 0 THEN 1 ELSE 0
             four == Number(Reverse(SubSeq(d, 1, 4)))
             big == Number(Reverse(d))
             num == big % Pow(4)
  <1>1. Len(d) \in Nat /\ (Len(d) >= 1 <=> d # <<>>)
    BY EmptySeq, LenProperties
  <1>2. v = CASE t = 1 -> IF Len(d) >= 1 THEN Go("bool", b) ELSE None
              [] t = 2 -> IF Len(d) >= 4 THEN Go("int64", four) ELSE None
              [] t = 3 -> GoBytes("string", d)
              [] t = 4 -> IF Len(d) >= 1 THEN Go("int64", d[1]) ELSE None
              [] t = 5 -> Go("int64", num)
              [] OTHER -> GoBytes("[]byte", d)
    BY Zenon DEF tuyaValue
  <1>3. meantPoint(p) = CASE t = 1 /\ d # <<>> -> {<<1, <<b, <<>>>>>>}
                          [] t = 2 /\ Len(d) >= 4 -> {<<1, <<four, <<>>>>>>}
                          [] t = 4 /\ d # <<>> -> {<<1, <<d[1], <<>>>>>>}
                          [] t = 5 -> {<<1, <<num, <<>>>>>>}
                          [] t \in {0, 3} -> {<<1, <<0, d>>>>}
                          [] OTHER -> {}
    BY Zenon DEF meantPoint
  <1>4. b \in Int
    OBVIOUS
  <1>5. num \in Int
    <2>1. big \in Nat /\ Pow(4) \in Nat /\ Pow(4) > 0
      <3>1. 4 \in Nat /\ 0 \in Int
        OBVIOUS
      <3>2. Pow(4) \in Nat
        BY <3>1, NumberOfDigits
      <3>3. Pow(4) > 0
        BY PowFacts
      <3> QED BY <3>2, <3>3, BytesNumber
    <2> HIDE DEF big
    <2> QED BY <2>1
  <1>6. Len(d) >= 4 => four \in Int
    <2> SUFFICES ASSUME Len(d) >= 4 PROVE four \in Int
      OBVIOUS
    <2>0. \A i \in 1 .. 4 : d[i] \in Byte
      <3>1. \A i \in 1 .. 4 : i \in 1 .. Len(d)
        BY <1>1
      <3>2. \A i \in 1 .. Len(d) : d[i] \in Byte
        BY ElementOfSeq
      <3> QED BY <3>1, <3>2
    <2>1. SubSeq(d, 1, 4) \in Seq(Byte)
      <3>1. 1 \in Int /\ 4 \in Int
        OBVIOUS
      <3> HIDE DEF d
      <3> QED BY <2>0, <3>1, SubSeqProperties
    <2> DEFINE x == SubSeq(d, 1, 4)
    <2> HIDE DEF x
    <2>2. Number(Reverse(x)) \in Nat
      BY <2>1, BytesNumber DEF x
    <2>3. Number(Reverse(x)) \in Int
      BY <2>2
    <2> QED BY <2>3 DEF x
  <1>7. Len(d) >= 1 => d[1] \in Int
    <2> SUFFICES ASSUME Len(d) >= 1 PROVE d[1] \in Int
      OBVIOUS
    <2>1. 1 \in 1 .. Len(d)
      BY <1>1
    <2>2. d[1] \in Byte
      BY <2>1, ElementOfSeq
    <2> QED BY <2>2, ByteFacts
  <1>8. d \in Seq(Byte) /\ t \in 0 .. 5
    OBVIOUS
  <1> HIDE DEF t, d, v, b, four, big, num
  <1> DEFINE P(x) == x \in Value /\ meantPoint(p) = {<<1, Plain(x)>>}
  <1>9. CASE t = 1
    <2>1. Len(d) >= 1 => v = Go("bool", b) /\ meantPoint(p) = {<<1, <<b, <<>>>>>>}
      BY <1>1, <1>2, <1>3, <1>9
    <2>2. ~(Len(d) >= 1) => v = None /\ meantPoint(p) = {}
      BY <1>1, <1>2, <1>3, <1>9
    <2>3. Len(d) >= 1 => v \in Value /\ meantPoint(p) = {<<1, Plain(v)>>}
      BY <1>4, <2>1, GoType
    <2> QED BY <2>2, <2>3 DEF v, t, d
  <1>10. CASE t = 2
    <2>1. Len(d) >= 4 => v = Go("int64", four) /\ meantPoint(p) = {<<1, <<four, <<>>>>>>}
      BY <1>2, <1>3, <1>10
    <2>2. ~(Len(d) >= 4) => v = None /\ meantPoint(p) = {}
      BY <1>2, <1>3, <1>10
    <2>3. Len(d) >= 4 => v \in Value /\ meantPoint(p) = {<<1, Plain(v)>>}
      BY <1>6, <2>1, GoType
    <2> QED BY <2>2, <2>3 DEF v, t, d
  <1>11. CASE t = 4
    <2>1. Len(d) >= 1 => v = Go("int64", d[1]) /\ meantPoint(p) = {<<1, <<d[1], <<>>>>>>}
      BY <1>1, <1>2, <1>3, <1>11
    <2>2. ~(Len(d) >= 1) => v = None /\ meantPoint(p) = {}
      BY <1>1, <1>2, <1>3, <1>11
    <2>3. Len(d) >= 1 => v \in Value /\ meantPoint(p) = {<<1, Plain(v)>>}
      BY <1>7, <2>1, GoType
    <2> QED BY <2>2, <2>3 DEF v, t, d
  <1>12. CASE t = 5
    <2>1. v = Go("int64", num) /\ meantPoint(p) = {<<1, <<num, <<>>>>>>}
      BY <1>2, <1>3, <1>12
    <2>2. v \in Value /\ meantPoint(p) = {<<1, Plain(v)>>}
      BY <1>5, <2>1, GoType
    <2> QED BY <2>2 DEF v, t, d
  <1>13. CASE t = 3
    <2>1. v = GoBytes("string", d) /\ meantPoint(p) = {<<1, <<0, d>>>>}
      BY <1>2, <1>3, <1>13
    <2>2. v \in Value /\ meantPoint(p) = {<<1, Plain(v)>>}
      BY <1>8, <2>1, GoType
    <2> QED BY <2>2 DEF v, t, d
  <1>14. CASE t = 0
    <2>1. v = GoBytes("[]byte", d) /\ meantPoint(p) = {<<1, <<0, d>>>>}
      BY <1>2, <1>3, <1>14
    <2>2. v \in Value /\ meantPoint(p) = {<<1, Plain(v)>>}
      BY <1>8, <2>1, GoType
    <2> QED BY <2>2 DEF v, t, d
  <1>15. t = 0 \/ t = 1 \/ t = 2 \/ t = 3 \/ t = 4 \/ t = 5
    BY <1>8
  <1> QED BY <1>9, <1>10, <1>11, <1>12, <1>13, <1>14, <1>15

\* The number that follows.
LEMMA TuyaNumber == tuyaValue(2, <<0, 0, 1, 2>>) = Go("int64", Base + 2)
  <1> DEFINE d == <<0, 0, 1, 2>>
             e == <<2, 1, 0, 0>>
  <1>1. SubSeq(d, 1, 4) = d /\ Len(d) = 4
    <2>1. d \in Seq(Nat) /\ Len(d) = 4
      OBVIOUS
    <2> HIDE DEF d
    <2>2. SubSeq(d, 1, Len(d)) = d
      BY <2>1, SubSeqFull
    <2> QED BY <2>1, <2>2
  <1>2. Reverse(d) = e
    BY DEF Reverse
  <1>3. e \in Seq(Nat) /\ Len(e) = 4 /\ e[1] = 2 /\ e[2] = 1 /\ e[3] = 0 /\ e[4] = 0
    OBVIOUS
  <1>4. Len(d) >= 4
    BY <1>1
  <1> HIDE DEF d, e
  <1>5. PICK N : IsNumber(N, e) /\ Number(e) = N[1]
    BY <1>3, NumberOfNats
  <1>6. N[5] = 0 /\ N[4] = 0 + Base * N[5] /\ N[3] = 0 + Base * N[4] /\ N[2] = 1 + Base * N[3] /\ N[1] = 2 + Base * N[2]
    <2>1. N[4 + 1] = 0 /\ \A i \in 1 .. 4 : N[i] = e[i] + Base * N[i + 1]
      BY <1>3, <1>5 DEF IsNumber
    <2>2. 1 \in 1 .. 4 /\ 2 \in 1 .. 4 /\ 3 \in 1 .. 4 /\ 4 \in 1 .. 4 /\ 4 + 1 = 5 /\ 1 + 1 = 2 /\ 2 + 1 = 3 /\ 3 + 1 = 4
      OBVIOUS
    <2> QED BY <1>3, <2>1, <2>2
  <1>7. Base \in Int
    BY DigitIsByte
  <1>8. N[4] = 0
    BY <1>6, <1>7
  <1>9. N[3] = 0
    BY <1>6, <1>7, <1>8
  <1>10. N[2] = 1
    BY <1>6, <1>7, <1>9
  <1>11. N[1] = Base + 2
    BY <1>6, <1>7, <1>10
  <1>12. tuyaValue(2, d) = Go("int64", Number(Reverse(SubSeq(d, 1, 4))))
    BY <1>4 DEF tuyaValue
  <1> QED BY <1>1, <1>2, <1>5, <1>11, <1>12, Zenon DEF d

\* A data point, wherever it stands.
pointBytes(i, t, d) == <<i, t, 0, Len(d)>> \o d

LEMMA PointHeader ==
    ASSUME NEW i \in Byte, NEW t \in Byte, NEW d \in Seq(Byte), Len(d) <= 255
    PROVE  LET h == <<i, t, 0, Len(d)>>
           IN  h \in Seq(Byte) /\ Len(h) = 4 /\ h[1] = i /\ h[2] = t /\ h[3] = 0 /\ h[4] = Len(d)
  <1>1. Len(d) \in Nat /\ Len(d) \in Byte /\ 0 \in Byte
    BY ByteFacts, LenProperties
  <1> QED BY <1>1

LEMMA PointBytes ==
    ASSUME NEW i \in Byte, NEW t \in Byte, NEW d \in Seq(Byte), Len(d) <= 255
    PROVE  LET x == pointBytes(i, t, d)
           IN  /\ x \in Seq(Byte) /\ Len(x) = 4 + Len(d) /\ x[1] = i /\ x[2] = t /\ x[3] = 0 /\ x[4] = Len(d)
               /\ SubSeq(x, 5, 4 + Len(d)) = d
  <1> DEFINE h == <<i, t, 0, Len(d)>>
             x == h \o d
  <1>1. Len(d) \in Nat
    BY LenProperties
  <1>2. h \in Seq(Byte) /\ Len(h) = 4 /\ h[1] = i /\ h[2] = t /\ h[3] = 0 /\ h[4] = Len(d)
    BY PointHeader
  <1> HIDE DEF h
  <1>3. h \in Seq(Byte)
    BY <1>2
  <1>4. /\ x \in Seq(Byte) /\ Len(x) = Len(h) + Len(d) /\ \A k \in 1 .. Len(h) : x[k] = h[k]
        /\ SubSeq(x, Len(h) + 1, Len(h) + Len(d)) = d
    BY <1>3, Parts, Suffix
  <1> HIDE DEF x
  <1>5. x[1] = i /\ x[2] = t /\ x[3] = 0 /\ x[4] = Len(d)
    BY <1>2, <1>4
  <1>6. Len(h) + 1 = 5 /\ Len(h) + Len(d) = 4 + Len(d)
    BY <1>1, <1>2
  <1> QED BY <1>4, <1>5, <1>6, Zenon DEF pointBytes, x, h

PointAt(i, t, d, a, z, data) ==
    /\ i \in Byte /\ t \in Byte /\ d \in Seq(Byte) /\ Len(d) <= 255
    /\ a \in Seq(Byte) /\ z \in Seq(Byte) /\ data = a \o (pointBytes(i, t, d) \o z)
PointTaken(i, d, v, p, F) ==
    F[p] = IF F[p + 4 + Len(d)] = Err THEN Err
           ELSE IF v = None THEN F[p + 4 + Len(d)] ELSE <<<<i, v>>>> \o F[p + 4 + Len(d)]

LEMMA PointIsTaken ==
    ASSUME NEW i, NEW t, NEW d, NEW a, NEW z, NEW data, PointAt(i, t, d, a, z, data)
    PROVE  PointTaken(i, d, tuyaValue(t, d), Len(a) + 1, TuyaScan(data))
  <1> DEFINE x == pointBytes(i, t, d)
             w == x \o z
             p == Len(a) + 1
             n == p + 4 + Len(d)
             v == tuyaValue(t, d)
             F == TuyaScan(data)
  <1>01. i \in Byte /\ t \in Byte /\ d \in Seq(Byte) /\ Len(d) <= 255 /\ a \in Seq(Byte) /\ z \in Seq(Byte)
    BY DEF PointAt
  <1>02. data = a \o w
    BY DEF PointAt
  <1>1. /\ x \in Seq(Byte) /\ Len(x) = 4 + Len(d) /\ x[1] = i /\ x[2] = t /\ x[3] = 0 /\ x[4] = Len(d)
        /\ SubSeq(x, 5, 4 + Len(d)) = d
    BY <1>01, PointBytes
  <1>2. Len(a) \in Nat /\ Len(d) \in Nat /\ Len(z) \in Nat
    BY <1>01, LenProperties
  <1> HIDE DEF x
  <1>3. x \in Seq(Byte)
    BY <1>1
  <1>4. w \in Seq(Byte) /\ Len(w) = Len(x) + Len(z) /\ \A k \in 1 .. Len(x) : w[k] = x[k]
    BY <1>01, <1>3, Parts
  <1> HIDE DEF w
  <1>6. w \in Seq(Byte)
    BY <1>4
  <1>7. data \in Seq(Byte) /\ Len(data) = Len(a) + Len(w) /\ \A k \in 1 .. Len(w) : data[Len(a) + k] = w[k]
    BY <1>01, <1>02, <1>6, Parts
  <1>8. \A k \in 1 .. 4 + Len(d) : data[Len(a) + k] = x[k]
    <2>1. \A k \in 1 .. 4 + Len(d) : k \in 1 .. Len(x) /\ k \in 1 .. Len(w)
      BY <1>1, <1>2, <1>4
    <2> QED BY <1>4, <1>7, <2>1
  <1>9. data[p] = i /\ data[p + 1] = t /\ data[p + 2] = 0 /\ data[p + 3] = Len(d)
    <2>1. 1 \in 1 .. 4 + Len(d) /\ 2 \in 1 .. 4 + Len(d) /\ 3 \in 1 .. 4 + Len(d) /\ 4 \in 1 .. 4 + Len(d)
      BY <1>2
    <2>2. p + 1 = Len(a) + 2 /\ p + 2 = Len(a) + 3 /\ p + 3 = Len(a) + 4
      BY <1>2
    <2> QED BY <1>1, <1>8, <2>1, <2>2
  <1>10. SubSeq(data, p + 4, p + 3 + Len(d)) = d
    <2> DEFINE h == <<i, t, 0, Len(d)>>
               ah == a \o h
    <2>1. h \in Seq(Byte) /\ Len(h) = 4
      BY <1>01, PointHeader
    <2>2. x = h \o d
      BY DEF x, pointBytes
    <2> HIDE DEF h
    <2>3. h \in Seq(Byte)
      BY <2>1
    <2>4. d \o z \in Seq(Byte)
      BY <1>01, Parts
    <2>5. w = h \o (d \o z)
      BY <1>01, <2>2, <2>3, Assoc DEF w
    <2>6. data = ah \o (d \o z)
      BY <1>01, <1>02, <2>3, <2>4, <2>5, Assoc
    <2>7. ah \in Seq(Byte) /\ Len(ah) = Len(a) + Len(h)
      BY <1>01, <2>3, Parts
    <2> HIDE DEF ah
    <2>8. SubSeq(ah \o (d \o z), Len(ah) + 1, Len(ah) + Len(d)) = d
      BY <1>01, <2>7, Middle
    <2>9. Len(ah) + 1 = p + 4 /\ Len(ah) + Len(d) = p + 3 + Len(d)
      BY <1>2, <2>1, <2>7
    <2> HIDE DEF p
    <2> QED BY <2>6, <2>8, <2>9, Zenon
  <1>11. p \in 1 .. Len(data) + 3 /\ ~(p + 3 > Len(data)) /\ ~(p + 3 + Len(d) > Len(data))
    <2>1. p \in Nat /\ p >= 1 /\ Len(data) \in Nat /\ Len(d) \in Nat
      BY <1>1, <1>2, <1>7
    <2>2. p + 3 + Len(d) <= Len(data)
      BY <1>1, <1>2, <1>4, <1>7
    <2> HIDE DEF p
    <2> QED BY <2>1, <2>2
  <1>12. F[p] = TuyaStep(data, F, p)
    BY <1>7, <1>11, TuyaScanSteps
  <1>13. 256 * data[p + 2] + data[p + 3] = Len(d)
    BY <1>2, <1>9
  <1> HIDE DEF F, p
  <1>14. TuyaStep(data, F, p) = IF F[n] = Err THEN Err ELSE IF v = None THEN F[n] ELSE <<<<i, v>>>> \o F[n]
    <2>1. ~(p + 3 > Len(data)) /\ ~(p + 3 + Len(d) > Len(data))
      BY <1>11, Zenon
    <2>2. data[p] = i /\ data[p + 1] = t
      BY <1>9, Zenon
    <2> QED BY <1>10, <1>13, <2>1, <2>2, Zenon DEF TuyaStep
  <1> QED BY <1>12, <1>14, Zenon DEF F, p, PointTaken

LEMMA TuyaEnd ==
    ASSUME NEW data \in Seq(Byte)
    PROVE  TuyaScan(data)[Len(data) + 1] = <<>>
  <1>1. Len(data) + 1 \in 1 .. Len(data) + 3 /\ (Len(data) + 1) + 3 > Len(data)
    BY LenProperties
  <1>2. TuyaScan(data)[Len(data) + 1] = TuyaStep(data, TuyaScan(data), Len(data) + 1)
    BY <1>1, TuyaScanSteps
  <1> QED BY <1>1, <1>2, Zenon DEF TuyaStep

\* A data point and the number after it are decoded to just those.
tuyaBody(p) == (<<0, 7>> \o pointBytes(1, p.type, p.d)) \o pointBytes(2, 2, <<0, 0, 1, 2>>)

LEMMA TuyaDecoded ==
    ASSUME NEW p, p.type \in 0 .. 5, p.d \in Seq(Byte), Len(p.d) <= 5
    PROVE  LET data == tuyaBody(p)
               dps  == decodeTuyaDPs(data)
           IN  /\ data \in Seq(Byte) /\ Len(data) <= 19 /\ dps # Err
               /\ Pairs(dps) = meantPoint(p) \cup {<<2, <<Base + 2, <<>>>>>>}
  <1> DEFINE t == p.type
             d == p.d
             e == <<0, 0, 1, 2>>
             a == <<0, 7>>
             x == pointBytes(1, t, d)
             y == pointBytes(2, 2, e)
             ax == a \o x
             data == ax \o y
             F == TuyaScan(data)
             v == tuyaValue(t, d)
             w == tuyaValue(2, e)
             n == 7 + Len(d)
  <1>1. d \in Seq(Byte) /\ Len(d) <= 5 /\ Len(d) <= 255 /\ Len(d) \in Nat
    BY LenProperties
  <1>2. t \in Byte /\ 1 \in Byte /\ 2 \in Byte /\ 0 \in Byte /\ 7 \in Byte
    BY ByteFacts
  <1>3. e \in Seq(Byte) /\ Len(e) = 4 /\ Len(e) <= 255
    BY <1>2
  <1>4. a \in Seq(Byte) /\ Len(a) = 2
    BY <1>2
  <1>5. w = Go("int64", Base + 2) /\ w \in Value /\ Plain(w) = <<Base + 2, <<>>>>
    <2>1. Base + 2 \in Int
      BY DigitIsByte
    <2>2. w = Go("int64", Base + 2)
      BY TuyaNumber
    <2> HIDE DEF w
    <2> QED BY <2>1, <2>2, GoType
  <1>6. \/ v = None /\ meantPoint(p) = {}
        \/ v \in Value /\ meantPoint(p) = {<<1, Plain(v)>>}
    BY TuyaValues
  <1> HIDE DEF v, w, t, d, e, a
  <1>7. x \in Seq(Byte) /\ Len(x) = 4 + Len(d)
    BY <1>1, <1>2, PointBytes
  <1>8. y \in Seq(Byte) /\ Len(y) = 4 + Len(e)
    <2>1. 2 \in Byte /\ e \in Seq(Byte) /\ Len(e) <= 255
      BY <1>2, <1>3
    <2> QED BY <2>1, PointBytes
  <1> HIDE DEF x, y
  <1>9. x \in Seq(Byte) /\ y \in Seq(Byte) /\ a \in Seq(Byte) /\ <<>> \in Seq(Byte)
    BY <1>4, <1>7, <1>8
  <1>10. ax \in Seq(Byte) /\ Len(ax) = Len(a) + Len(x)
    BY <1>9, Parts
  <1>11. data = a \o (x \o y)
    BY <1>9, Assoc
  <1>12. y \o <<>> = y
    BY <1>9, ConcatEmptySeq
  <1> HIDE DEF ax
  <1>13. ax \in Seq(Byte)
    BY <1>10
  <1>14. data \in Seq(Byte) /\ Len(data) = Len(ax) + Len(y)
    BY <1>9, <1>13, Parts
  <1>15. data = ax \o (y \o <<>>)
    BY <1>12
  <1> HIDE DEF data
  <1>16. /\ Len(data) = 14 + Len(d) /\ Len(a) + 1 = 3 /\ Len(ax) + 1 = n
         /\ (Len(a) + 1) + 4 + Len(d) = n /\ (Len(ax) + 1) + 4 + Len(e) = Len(data) + 1
    BY <1>1, <1>3, <1>4, <1>7, <1>8, <1>10, <1>14
  <1>17. F[3] = IF F[n] = Err THEN Err ELSE IF v = None THEN F[n] ELSE <<<<1, v>>>> \o F[n]
    <2>1. PointAt(1, t, d, a, y, data)
      BY <1>1, <1>2, <1>9, <1>11, Zenon DEF x, PointAt
    <2>2. PointTaken(1, d, v, Len(a) + 1, F)
      BY <2>1, PointIsTaken DEF v
    <2> QED BY <1>16, <2>2, Zenon DEF PointTaken
  <1>18. F[n] = IF F[Len(data) + 1] = Err THEN Err ELSE IF w = None THEN F[Len(data) + 1] ELSE <<<<2, w>>>> \o F[Len(data) + 1]
    <2>1. PointAt(2, 2, e, ax, <<>>, data)
      BY <1>2, <1>3, <1>9, <1>13, <1>15, Zenon DEF y, PointAt
    <2>2. PointTaken(2, e, w, Len(ax) + 1, F)
      BY <2>1, PointIsTaken DEF w
    <2> QED BY <1>16, <2>2, Zenon DEF PointTaken
  <1>19. F[Len(data) + 1] = <<>>
    BY <1>14, TuyaEnd
  <1> HIDE DEF F, n
  <1> DEFINE S == Byte \X Value
             A == <<1, v>>
             B == <<2, w>>
  <1>20. B \in S /\ (v \in Value => A \in S)
    BY <1>2, <1>5
  <1>21. Err \notin Seq(S) /\ None \notin Value
    BY PairsAssumption, ValueAssumption
  <1> HIDE DEF A, B, S
  <1>22. <<B>> \in Seq(S) /\ <<>> \in Seq(S) /\ (v \in Value => <<A, B>> \in Seq(S))
    BY <1>20
  <1>23. F[n] = <<B>>
    <2>1. <<>> # Err /\ w # None
      BY <1>5, <1>21, <1>22
    <2>2. <<B>> \o <<>> = <<B>>
      BY <1>22, ConcatEmptySeq
    <2> QED BY <1>18, <1>19, <2>1, <2>2, Zenon DEF B
  <1>24. <<B>> # Err
    BY <1>21, <1>22
  <1>25. ~(Len(data) < 2)
    BY <1>1, <1>16
  <1>26. CASE v = None /\ meantPoint(p) = {}
    <2>1. F[3] = <<B>>
      BY <1>17, <1>23, <1>24, <1>26, Zenon
    <2>2. decodeTuyaDPs(data) = MapOf(<<B>>)
      BY <1>24, <1>25, <2>1, TuyaReads DEF F
    <2>3. MapOf(<<B>>) # Err /\ Pairs(MapOf(<<B>>)) = {<<2, Plain(w)>>}
      BY <1>5, MapOfOne, Zenon DEF B
    <2>4. Pairs(decodeTuyaDPs(data)) = meantPoint(p) \cup {<<2, <<Base + 2, <<>>>>>>}
      BY <1>5, <1>26, <2>2, <2>3
    <2>5. decodeTuyaDPs(data) # Err
      BY <2>2, <2>3
    <2>6. Len(data) <= 19
      BY <1>1, <1>16
    <2> QED BY <1>14, <2>4, <2>5, <2>6, Zenon DEF data, ax, x, y, a, t, d, e, tuyaBody
  <1>27. CASE v \in Value /\ meantPoint(p) = {<<1, Plain(v)>>}
    <2>0. v # None
      BY <1>21, <1>27
    <2>1. F[3] = <<A, B>>
      <3>1. <<A>> \o <<B>> = <<A, B>>
        BY Pair
      <3> QED BY <1>17, <1>23, <1>24, <2>0, <3>1, Zenon DEF A
    <2>2. decodeTuyaDPs(data) = MapOf(<<A, B>>)
      <3>1. <<A, B>> # Err
        BY <1>21, <1>22, <1>27
      <3> QED BY <1>25, <2>1, <3>1, TuyaReads DEF F
    <2>3. MapOf(<<A, B>>) # Err /\ Pairs(MapOf(<<A, B>>)) = {<<1, Plain(v)>>, <<2, Plain(w)>>}
      BY <1>5, <1>27, MapOfTwo, Zenon DEF A, B
    <2>4. Pairs(decodeTuyaDPs(data)) = meantPoint(p) \cup {<<2, <<Base + 2, <<>>>>>>}
      BY <1>5, <1>27, <2>2, <2>3
    <2>5. decodeTuyaDPs(data) # Err
      BY <2>2, <2>3
    <2>6. Len(data) <= 19
      BY <1>1, <1>16
    <2> QED BY <1>14, <2>4, <2>5, <2>6, Zenon DEF data, ax, x, y, a, t, d, e, tuyaBody
  <1> QED BY <1>6, <1>26, <1>27

TuyaSays(m, p) ==
    /\ m.kind = "tuya" /\ m.mfr \in BOOLEAN /\ m.recs[1] = p /\ m.recs[2] = TuyaPoint(2, <<0, 0, 1, 2>>)
    /\ p.type \in 0 .. 5 /\ p.d \in Seq(Byte) /\ Len(p.d) <= 5

\* A Tuya command with a data point of any type is understood as it is meant.
LEMMA TuyaGood ==
    ASSUME NEW m, NEW p, TuyaSays(m, p)
    PROVE  Good(m)
  <1> DEFINE a == <<0, 7>>
             x == pointBytes(1, p.type, p.d)
             y == pointBytes(2, 2, <<0, 0, 1, 2>>)
             h == zclHeader(m.mfr, 9, 2)
             body == tuyaBody(p)
             e == Evt("command", 61184, body)
             dps == decodeTuyaDPs(body)
             mean == meantPoint(p) \cup {<<2, <<Base + 2, <<>>>>>>}
  <1>0. m.mfr \in BOOLEAN
    BY Zenon DEF TuyaSays
  <1>1. m.kind = "tuya"
    BY Zenon DEF TuyaSays
  <1>2. p.type \in 0 .. 5 /\ p.d \in Seq(Byte) /\ Len(p.d) <= 5
    BY Zenon DEF TuyaSays
  <1>3. m.recs[1] = p /\ m.recs[2] = TuyaPoint(2, <<0, 0, 1, 2>>)
    BY Zenon DEF TuyaSays
  <1>4. body \in Seq(Byte) /\ Len(body) <= 19 /\ dps # Err /\ Pairs(dps) = mean
    BY <1>2, TuyaDecoded
  <1>5. Len(body) <= Base + 11
    <2> HIDE DEF body
    <2> QED BY <1>4, DigitIsByte, LenProperties
  <1>6. 0 \in Byte /\ 1 \in Byte /\ 2 \in Byte /\ 7 \in Byte
    BY ByteFacts
  <1>7. p.type \in Byte /\ Len(p.d) <= 255
    <2>1. Len(p.d) \in Nat
      BY <1>2, LenProperties
    <2> QED BY <1>2, <2>1, ByteFacts
  <1>8. a \in Seq(Byte) /\ x \in Seq(Byte) /\ y \in Seq(Byte) /\ h \in Seq(Byte)
    <2>1. a \in Seq(Byte)
      BY <1>6
    <2>2. x \in Seq(Byte)
      BY <1>2, <1>6, <1>7, PointBytes
    <2>3. <<0, 0, 1, 2>> \in Seq(Byte) /\ Len(<<0, 0, 1, 2>>) <= 255
      BY <1>6
    <2>4. y \in Seq(Byte)
      BY <1>6, <2>3, PointBytes
    <2>5. 9 \in {8, 9}
      OBVIOUS
    <2>6. h \in Seq(Byte)
      BY <1>0, <1>6, <2>5, ZclHeader
    <2> QED BY <2>1, <2>2, <2>4, <2>6
  <1>9. tuyaPoint(m, 1) = x /\ tuyaPoint(m, 2) = y
    <2> DEFINE q == TuyaPoint(2, <<0, 0, 1, 2>>)
    <2>1. q.type = 2 /\ q.d = <<0, 0, 1, 2>>
      BY DEF TuyaPoint
    <2> HIDE DEF q
    <2>2. m.recs[2] = q
      BY <1>3 DEF q
    <2> QED BY <1>3, <2>1, <2>2, Zenon DEF tuyaPoint, pointBytes
  <1>10. body = (a \o x) \o y
    BY Zenon DEF tuyaBody
  <1> HIDE DEF a, x, y, h, body
  <1>11. ((h \o a) \o x) \o y = h \o body
    <2>1. a \o x \in Seq(Byte) /\ h \o a \in Seq(Byte)
      BY <1>8
    <2>2. \A u, w \in Seq(Byte) : (h \o u) \o w = h \o (u \o w)
      BY <1>8, Assoc
    <2>3. (h \o a) \o x = h \o (a \o x)
      BY <1>8, <2>2, Zenon
    <2>4. (h \o (a \o x)) \o y = h \o ((a \o x) \o y)
      BY <1>8, <2>1, <2>2, Zenon
    <2> QED BY <1>10, <2>3, <2>4, Zenon
  <1>12. zclBytes(m) = zclHeader(m.mfr, 9, 2) \o body
    <2>1. zclBytes(m) = zclTuya(m)
      BY <1>1, ZclCases
    <2>2. zclTuya(m) = ((h \o a) \o x) \o y
      BY <1>9, Zenon DEF zclTuya, h, a
    <2> QED BY <1>11, <2>1, <2>2, Zenon DEF h
  <1>13. m.kind \in ZclKinds /\ Cluster(m) = 61184
    <2>1. m.kind \in ZclKinds
      BY <1>1, Zenon DEF ZclKinds
    <2>2. Cluster(m) = 61184
      BY <1>1, <2>1, ClusterIs
    <2> QED BY <2>1, <2>2
  <1>14. e \in Event
    <2>1. 61184 \in Word
      BY WordFacts
    <2> QED BY <1>4, <2>1, EventType
  <1>15. e.to = "command" /\ e.data = body /\ e.cluster = 61184
    BY DEF Evt
  <1>16. Becomes(m, 9, 2, body, e)
    <2>1. e = Evt("command", Cluster(m), body)
      BY <1>13
    <2> HIDE DEF e
    <2> QED BY <2>1 DEF Becomes
  <1> HIDE DEF e, dps, mean
  <1>17. Meant(m) = <<"tuya", mean>>
    <2>1. Meant(m) = MeantTuya(m)
      BY <1>1, MeantCases
    <2> QED BY <1>3, <2>1, Zenon DEF MeantTuya, mean
  <1>18. HandleZcl(e) = Meant(m)
    <2>1. HandleZcl(e) = HandleTuya(e)
      BY <1>15, HandleZclCases
    <2>2. decodeTuyaDPs(e.data) = dps
      BY <1>15 DEF dps
    <2>3. HandleTuya(e) = <<"tuya", Pairs(dps)>>
      BY <1>4, <2>2, Zenon DEF HandleTuya
    <2> QED BY <1>4, <1>17, <2>1, <2>3, Zenon
  <1>19. Meant(m) \in Understood
    <2>1. <<2, <<Base + 2, <<>>>>>> \in Byte \X Plains
      <3>1. Base + 2 \in Int /\ <<>> \in Seq(Byte)
        BY DigitIsByte
      <3>2. <<Base + 2, <<>>>> \in Plains
        BY <3>1, PlainType
      <3> QED BY <1>6, <3>2
    <2>2. meantPoint(p) \subseteq Byte \X Plains
      <3>1. CASE meantPoint(p) = {}
        BY <3>1
      <3>2. CASE tuyaValue(p.type, p.d) \in Value /\ meantPoint(p) = {<<1, Plain(tuyaValue(p.type, p.d))>>}
        <4> DEFINE v == tuyaValue(p.type, p.d)
        <4>1. v \in Value /\ meantPoint(p) = {<<1, Plain(v)>>}
          BY <3>2
        <4> HIDE DEF v
        <4>2. v.n \in Int /\ v.s \in Seq(Byte)
          BY <4>1 DEF Value
        <4>3. Plain(v) \in Plains
          BY <4>2, PlainType DEF Plain
        <4> QED BY <1>6, <4>1, <4>3
      <3> QED BY <1>2, <3>1, <3>2, TuyaValues
    <2>3. mean \in SUBSET (Byte \X Plains)
      BY <2>1, <2>2 DEF mean
    <2>4. <<"tuya", mean>> \in {"tuya", "xiaomi"} \X SUBSET (Byte \X Plains)
      BY <2>3
    <2> QED BY <1>17, <2>4 DEF Understood
  <1>20. ZclSays(m, 9, 2, body, e)
    <2>1. m.kind \in ZclKinds /\ body \in Seq(Byte)
      BY <1>4, <1>13
    <2>2. 9 \in {8, 9} /\ 2 \in {1, 2, 10}
      OBVIOUS
    <2> QED BY <1>0, <1>5, <1>12, <1>14, <1>16, <1>18, <1>19, <2>1, <2>2, Zenon DEF ZclSays
  <1> QED BY <1>20, ZclUnderstood

-----------------------------------------------------------------------------
(* Xiaomi.                                                                 *)

\* The scan at a tag whose value is decoded to what it means.
TagAt(i, t, e, a, z, data, means) ==
    /\ i \in Byte /\ t \in Byte /\ e \in Seq(Byte) /\ a \in Seq(Byte) /\ z \in Seq(Byte)
    /\ data = a \o (<<i, t>> \o (e \o z)) /\ DecodesTo(t, e, z, means)
TagTaken(i, e, val, p, F) ==
    F[p] = IF F[p + 2 + Len(e)] = Err THEN Err ELSE <<<<i, val>>>> \o F[p + 2 + Len(e)]

LEMMA TagIsTaken ==
    ASSUME NEW i, NEW t, NEW e, NEW a, NEW z, NEW data, NEW means, TagAt(i, t, e, a, z, data, means)
    PROVE  \E val \in Value : Plain(val) = means /\ TagTaken(i, e, val, Len(a) + 1, TlvScan(data))
  <1> DEFINE u == <<i, t>>
             ez == e \o z
             w == u \o ez
             p == Len(a) + 1
             F == TlvScan(data)
  <1>1. i \in Byte /\ t \in Byte /\ e \in Seq(Byte) /\ a \in Seq(Byte) /\ z \in Seq(Byte)
    BY DEF TagAt
  <1>2. data = a \o w /\ DecodesTo(t, e, z, means)
    BY DEF TagAt
  <1>3. u \in Seq(Byte) /\ Len(u) = 2 /\ u[1] = i /\ u[2] = t
    BY <1>1, Tuples
  <1>4. ez \in Seq(Byte) /\ Len(ez) = Len(e) + Len(z) /\ Len(e) \in Nat /\ Len(z) \in Nat /\ Len(a) \in Nat
    BY <1>1, Parts, LenProperties
  <1> HIDE DEF u, ez
  <1>5. u \in Seq(Byte) /\ ez \in Seq(Byte) /\ a \in Seq(Byte)
    BY <1>1, <1>3, <1>4
  <1>6. w \in Seq(Byte) /\ Len(w) = Len(u) + Len(ez) /\ \A k \in 1 .. Len(u) : w[k] = u[k]
    BY <1>5, Parts
  <1>7. data = (a \o u) \o ez
    BY <1>2, <1>5, Assoc
  <1>8. a \o u \in Seq(Byte) /\ Len(a \o u) = Len(a) + Len(u)
    BY <1>5, Parts
  <1> HIDE DEF w
  <1>9. w \in Seq(Byte)
    BY <1>6
  <1>10. data \in Seq(Byte) /\ Len(data) = Len(a) + Len(w) /\ \A k \in 1 .. Len(w) : data[Len(a) + k] = w[k]
    BY <1>2, <1>5, <1>9, Parts
  <1>11. data[p] = i /\ data[p + 1] = t
    <2>1. 1 \in 1 .. Len(u) /\ 2 \in 1 .. Len(u) /\ 1 \in 1 .. Len(w) /\ 2 \in 1 .. Len(w) /\ p + 1 = Len(a) + 2
      BY <1>3, <1>4, <1>6
    <2> QED BY <1>3, <1>6, <1>10, <2>1
  <1>12. From(data, p + 2) = ez
    <2> DEFINE au == a \o u
    <2>1. au \in Seq(Byte) /\ Len(au) = Len(a) + 2
      BY <1>3, <1>8
    <2> HIDE DEF au
    <2>2. SubSeq(au \o ez, Len(au) + 1, Len(au) + Len(ez)) = ez
      BY <1>5, <2>1, Suffix
    <2>3. Len(au) + 1 = p + 2 /\ Len(au) + Len(ez) = Len(data)
      BY <1>3, <1>4, <1>6, <1>10, <2>1
    <2>4. data = au \o ez
      BY <1>7 DEF au
    <2> HIDE DEF p
    <2>5. SubSeq(data, p + 2, Len(data)) = ez
      BY <2>2, <2>3, <2>4, Zenon
    <2> QED BY <2>5, Zenon DEF From
  <1>13. p \in 1 .. Len(data) + 2 /\ ~(p + 1 > Len(data))
    BY <1>3, <1>4, <1>6, <1>10
  <1>14. F[p] = TlvStep(data, F, p)
    BY <1>10, <1>13, TlvScanSteps
  <1>15. PICK val \in Value : DecodeValue(t, ez) = Decoded(val, Len(e)) /\ Plain(val) = means
    BY <1>2, Zenon DEF DecodesTo, ez
  <1>16. Decoded(val, Len(e)) # Err /\ Decoded(val, Len(e)).val = val /\ Decoded(val, Len(e)).used = Len(e)
    BY <1>4, <1>15, ValueAssumption DEF Decoded
  <1> HIDE DEF F, p
  <1>17. TlvStep(data, F, p) = IF F[p + 2 + Len(e)] = Err THEN Err ELSE <<<<i, val>>>> \o F[p + 2 + Len(e)]
    BY <1>11, <1>12, <1>13, <1>15, <1>16, Zenon DEF TlvStep
  <1>18. TagTaken(i, e, val, p, F)
    BY <1>14, <1>17, Zenon DEF TagTaken
  <1> QED BY <1>15, <1>18 DEF F, p

LEMMA TlvEnd ==
    ASSUME NEW data \in Seq(Byte)
    PROVE  TlvScan(data)[Len(data) + 1] = <<>>
  <1>1. Len(data) + 1 \in 1 .. Len(data) + 2 /\ (Len(data) + 1) + 1 > Len(data)
    BY LenProperties
  <1>2. TlvScan(data)[Len(data) + 1] = TlvStep(data, TlvScan(data), Len(data) + 1)
    BY <1>1, TlvScanSteps
  <1> QED BY <1>1, <1>2, Zenon DEF TlvStep

\* Two tags of one byte are decoded to what they mean.
tlvBytes(r) == (<<1, r.type>> \o r.s) \o (<<2, 32>> \o <<1>>)

SaneTag(r) == SaneNumber(r) /\ r.type \in LibraryTypes /\ Len(r.s) = 1

LEMMA TlvDecoded ==
    ASSUME NEW r, SaneTag(r)
    PROVE  LET data == tlvBytes(r)
               tlv  == decodeXiaomiTLV(data)
           IN  /\ data \in Seq(Byte) /\ Len(data) = 6 /\ tlv # Err /\ r.type \in Byte
               /\ Pairs(tlv) = {<<1, recordMeans(r)>>, <<2, recordMeans(Follower)>>}
  <1> DEFINE t == r.type
             s == r.s
             u == <<1, t>>
             g == <<2, 32>>
             q == <<1>>
             us == u \o s
             gq == g \o q
             data == us \o gq
             F == TlvScan(data)
             mr == recordMeans(r)
             mf == recordMeans(Follower)
  <1>1. s \in Seq(Byte) /\ Len(s) = 1 /\ t \in Byte
    <2>1. s \in Seq(Digit) /\ Len(s) = 1 /\ t \in LibraryTypes
      BY DEF SaneTag, SaneNumber
    <2>2. t \in Byte
      <3>1. Sane(r)
        BY DEF SaneTag, Sane
      <3> QED BY <3>1, SaneReads DEF RecordReads
    <2> QED BY <2>1, <2>2, DigitIsByte
  <1>2. 1 \in Byte /\ 2 \in Byte /\ 32 \in Byte
    BY ByteFacts
  <1>3. u \in Seq(Byte) /\ Len(u) = 2 /\ g \in Seq(Byte) /\ Len(g) = 2 /\ q \in Seq(Byte) /\ Len(q) = 1
    BY <1>1, <1>2, Tuples
  <1>4. \A rest \in Seq(Byte) : DecodesTo(t, s, rest, mr)
    <2>1. SaneNumber(r) /\ r.type \in LibraryTypes
      BY DEF SaneTag
    <2> QED BY <2>1, LibraryFixed
  <1>5. \A rest \in Seq(Byte) : DecodesTo(32, q, rest, mf)
    <2>1. SaneNumber(Follower) /\ Follower.type = 32
      BY FollowerIsSane
    <2>2. Follower.s = q
      BY DEF Follower
    <2>3. 32 \in LibraryTypes
      BY DEF LibraryTypes
    <2>4. \A rest \in Seq(Byte) : DecodesTo(Follower.type, Follower.s, rest, mf)
      BY <2>1, <2>3, LibraryFixed
    <2> QED BY <2>1, <2>2, <2>4
  <1> HIDE DEF u, g, q, s, t
  <1>6. u \in Seq(Byte) /\ g \in Seq(Byte) /\ q \in Seq(Byte) /\ s \in Seq(Byte) /\ <<>> \in Seq(Byte)
    BY <1>1, <1>3
  <1>7. us \in Seq(Byte) /\ Len(us) = Len(u) + Len(s) /\ gq \in Seq(Byte) /\ Len(gq) = Len(g) + Len(q)
    BY <1>6, Parts
  <1>8. us \o gq = u \o (s \o gq)
    <2> HIDE DEF gq
    <2>1. \A x, y \in Seq(Byte) : (u \o x) \o y = u \o (x \o y)
      BY <1>6, Assoc
    <2> QED BY <1>6, <1>7, <2>1, Zenon
  <1>9. q \o <<>> = q
    BY <1>6, ConcatEmptySeq
  <1> HIDE DEF us, gq
  <1>10. us \in Seq(Byte) /\ gq \in Seq(Byte)
    BY <1>7
  <1>11. data \in Seq(Byte) /\ Len(data) = Len(us) + Len(gq)
    BY <1>10, Parts
  <1>12. s \o gq \in Seq(Byte) /\ u \o (s \o gq) \in Seq(Byte)
    <2>1. s \o gq \in Seq(Byte)
      BY <1>6, <1>10, Parts
    <2> DEFINE sg == s \o gq
    <2> HIDE DEF sg
    <2>2. u \o sg \in Seq(Byte)
      BY <1>6, <2>1, Parts DEF sg
    <2> QED BY <2>1, <2>2 DEF sg
  <1>13. <<>> \o (u \o (s \o gq)) = u \o (s \o gq)
    BY <1>12, ConcatEmptySeq
  <1> HIDE DEF data
  <1>14. data = <<>> \o (<<1, t>> \o (s \o gq)) /\ data = us \o (<<2, 32>> \o (q \o <<>>))
    BY <1>8, <1>9, <1>13, Zenon DEF data, u, gq, g
  <1>15. TagAt(1, t, s, <<>>, gq, data, mr)
    BY <1>1, <1>2, <1>4, <1>6, <1>10, <1>14, Zenon DEF TagAt
  <1>16. TagAt(2, 32, q, us, <<>>, data, mf)
    BY <1>2, <1>5, <1>6, <1>10, <1>14, Zenon DEF TagAt
  <1>17. PICK v \in Value : Plain(v) = mr /\ TagTaken(1, s, v, Len(<<>>) + 1, F)
    BY <1>15, TagIsTaken
  <1>18. PICK w \in Value : Plain(w) = mf /\ TagTaken(2, q, w, Len(us) + 1, F)
    BY <1>16, TagIsTaken
  <1>19. F[Len(data) + 1] = <<>>
    BY <1>11, TlvEnd
  <1>20. Len(<<>>) + 1 = 1 /\ Len(us) + 1 = 4 /\ 1 + 2 + Len(s) = 4 /\ 4 + 2 + Len(q) = 7 /\ Len(data) + 1 = 7 /\ Len(data) = 6
    BY <1>1, <1>3, <1>7, <1>11
  <1> HIDE DEF F, mr, mf
  <1> DEFINE S == Byte \X Value
             A == <<1, v>>
             B == <<2, w>>
  <1>21. F[1] = IF F[4] = Err THEN Err ELSE <<A>> \o F[4]
    BY <1>17, <1>20, Zenon DEF TagTaken
  <1>22. F[4] = IF F[7] = Err THEN Err ELSE <<B>> \o F[7]
    BY <1>18, <1>20, Zenon DEF TagTaken
  <1>23. F[7] = <<>>
    BY <1>19, <1>20
  <1>24. A \in S /\ B \in S
    BY <1>2
  <1>25. Err \notin Seq(S)
    BY PairsAssumption
  <1> HIDE DEF A, B, S
  <1>26. <<B>> \in Seq(S) /\ <<>> \in Seq(S) /\ <<A, B>> \in Seq(S)
    BY <1>24
  <1>27. F[4] = <<B>>
    <2>1. <<>> # Err
      BY <1>25, <1>26
    <2>2. <<B>> \o <<>> = <<B>>
      BY <1>26, ConcatEmptySeq
    <2> QED BY <1>22, <1>23, <2>1, <2>2, Zenon
  <1>28. F[1] = <<A, B>>
    <2>1. <<B>> # Err
      BY <1>25, <1>26
    <2>2. <<A>> \o <<B>> = <<A, B>>
      BY Pair
    <2> QED BY <1>21, <1>27, <2>1, <2>2, Zenon
  <1>29. decodeXiaomiTLV(data) = MapOf(<<A, B>>)
    <2>1. <<A, B>> # Err
      BY <1>25, <1>26
    <2> QED BY <1>28, <2>1, TlvReads DEF F
  <1>30. MapOf(<<A, B>>) # Err /\ Pairs(MapOf(<<A, B>>)) = {<<1, Plain(v)>>, <<2, Plain(w)>>}
    BY MapOfTwo, Zenon DEF A, B
  <1>31. /\ decodeXiaomiTLV(data) # Err
         /\ Pairs(decodeXiaomiTLV(data)) = {<<1, mr>>, <<2, mf>>}
    BY <1>17, <1>18, <1>29, <1>30, Zenon
  <1>32. data = tlvBytes(r)
    BY Zenon DEF data, us, gq, u, g, q, s, t, tlvBytes
  <1> QED BY <1>1, <1>11, <1>20, <1>31, <1>32, Zenon DEF mr, mf, t

\* A Xiaomi string with two tags is understood as it is meant.
LEMMA XiaomiGood ==
    ASSUME NEW r, SaneTag(r), NEW m, SaysOf(m, "xiaomi", r)
    PROVE  Good(m)
  <1> DEFINE tags == tlvBytes(r)
             dg == Digits(Len(tags), 1)
             value == dg \o tags
             R == [attr |-> 247, type |-> 65, value |-> value]
             h == zclHeader(m.mfr, 8, 10)
             a == LE16(247)
             c == <<65>>
             body == recordOf(R)
             data == <<R>>
             e == Evt("report", 64704, data)
             tlv == decodeXiaomiTLV(tags)
             mean == {<<1, recordMeans(r)>>, <<2, recordMeans(Follower)>>}
  <1>0. m.mfr \in BOOLEAN
    BY Zenon DEF SaysOf
  <1>1. m.kind = "xiaomi" /\ m.recs[1] = r /\ m.recs[2] = Follower
    BY Zenon DEF SaysOf
  <1>2. tags \in Seq(Byte) /\ Len(tags) = 6 /\ tlv # Err /\ Pairs(tlv) = mean
    BY TlvDecoded
  <1> HIDE DEF tags, tlv, mean
  <1>3. dg \in Seq(Digit) /\ Len(dg) = 1
    <2>1. Len(tags) \in Int /\ 1 \in Nat
      BY <1>2
    <2> QED BY <2>1, DigitsType
  <1>4. StringFits(Byte, 65, 1, tags)
    <2>1. Pow(1) \in Nat /\ Pow(1) = Base
      <3>1. 1 \in Nat /\ 1 >= 1
        OBVIOUS
      <3> QED BY <3>1, PowFacts
    <2>2. ~(Len(tags) > Pow(1) - 2)
      BY <1>2, <2>1, DigitIsByte
    <2> QED BY <1>2, <2>2 DEF StringFits
  <1>5. Delimited(65, value)
    <2>1. 1 \in {1, 2}
      OBVIOUS
    <2> QED BY <1>4, <2>1, DelimitedString
  <1>6. \A rest \in Seq(Byte) : StringDecodes(65, 1, tags, rest)
    <2>1. 1 \in {1, 2} /\ Digit \subseteq Byte
      BY DigitIsByte
    <2> QED BY <1>4, <2>1, StringRoundTrip
  <1>7. dg \in Seq(Byte) /\ tags \in Seq(Byte)
    BY <1>2, <1>3, DigitIsByte
  <1> HIDE DEF dg
  <1>8. value \in Seq(Byte) /\ Len(value) = Len(dg) + Len(tags)
    BY <1>7, Parts
  <1> HIDE DEF value
  <1>9. value \in Seq(Byte) /\ Len(value) = 7 /\ value # <<>>
    BY <1>2, <1>3, <1>8
  <1>10. 247 \in Word /\ 65 \in Byte /\ 10 \in Byte
    BY ByteFacts, WordFacts
  <1>11. R \in RecordSet /\ R.attr = 247 /\ R.type = 65 /\ R.value = value
    BY <1>9, <1>10 DEF RecordSet
  <1> HIDE DEF R
  <1>12. zclParseAttributeReports(body) = data
    <2>1. Delimited(R.type, R.value)
      BY <1>5, <1>11
    <2> QED BY <1>11, <2>1, OneRecord
  <1>13. body \in Seq(Byte) /\ Len(body) = 10
    <2>1. body \in Seq(Byte) /\ Len(body) = 3 + Len(R.value)
      BY <1>11, RecordBytes
    <2> HIDE DEF body
    <2> QED BY <1>9, <1>11, <2>1
  <1>14. h \in Seq(Byte) /\ a \in Seq(Byte) /\ c \in Seq(Byte)
    <2>1. 8 \in {8, 9}
      OBVIOUS
    <2>2. h \in Seq(Byte)
      BY <1>0, <1>10, <2>1, ZclHeader
    <2>3. a \in Seq(Byte)
      BY <1>10, WordBytes DEF LE16
    <2>4. c \in Seq(Byte)
      BY <1>10
    <2> QED BY <2>2, <2>3, <2>4
  <1>15. body = (a \o c) \o value
    BY <1>11, Zenon DEF recordOf
  <1> HIDE DEF h, a, c, body
  <1>16. ((h \o a) \o c) \o value = h \o body
    <2>1. a \o c \in Seq(Byte) /\ value \in Seq(Byte)
      BY <1>9, <1>14
    <2>2. \A x, y \in Seq(Byte) : (h \o x) \o y = h \o (x \o y)
      BY <1>14, Assoc
    <2>3. (h \o a) \o c = h \o (a \o c)
      BY <1>14, <2>2, Zenon
    <2>4. (h \o (a \o c)) \o value = h \o ((a \o c) \o value)
      BY <2>1, <2>2, Zenon
    <2> QED BY <1>15, <2>3, <2>4, Zenon
  <1>17. zclBytes(m) = zclHeader(m.mfr, 8, 10) \o body
    <2>1. zclBytes(m) = zclXiaomi(m)
      BY <1>1, ZclCases
    <2>2. Follower.type = 32 /\ Follower.s = <<1>>
      BY DEF Follower
    <2>3. xiaomiTag(m, 1) \o xiaomiTag(m, 2) = tags
      BY <1>1, <2>2, Zenon DEF xiaomiTag, tags, tlvBytes
    <2>4. zclXiaomi(m) = ((h \o a) \o c) \o (Digits(Len(tags), 1) \o tags)
      BY <2>3, Zenon DEF zclXiaomi, h, a, c
    <2>5. zclXiaomi(m) = ((h \o a) \o c) \o value
      BY <2>4 DEF value, dg
    <2> QED BY <1>16, <2>1, <2>5, Zenon DEF h
  <1>18. m.kind \in ZclKinds /\ Cluster(m) = 64704
    <2>1. m.kind \in ZclKinds
      BY <1>1, Zenon DEF ZclKinds
    <2>2. m.kind # "tuya"
      BY <1>1
    <2> QED BY <2>1, <2>2, ClusterIs
  <1>19. data \in Seq(RecordSet) /\ Len(data) = 1 /\ data[1] = R
    BY <1>11
  <1> HIDE DEF data
  <1>20. e \in Event
    <2>1. 64704 \in Word
      BY WordFacts
    <2> QED BY <1>19, <2>1, EventType
  <1>21. e.to = "report" /\ e.data = data
    BY DEF Evt
  <1>22. Becomes(m, 8, 10, body, e)
    <2>1. e = Evt("report", Cluster(m), zclParseAttributeReports(body))
      BY <1>12, <1>18
    <2> HIDE DEF e
    <2> QED BY <2>1 DEF Becomes
  <1> HIDE DEF e
  <1>23. decodeReported(65, value).s = tags /\ decodeReported(65, value).go = "[]byte"
    <2> DEFINE V == GoBytes("[]byte", tags)
    <2>1. <<>> \in Seq(Byte) /\ value \o <<>> = value
      BY <1>9, ConcatEmptySeq
    <2>2. goString(65) = "[]byte"
      BY DEF goString, TypeCharStr, TypeCharStr16
    <2>3. StringDecodes(65, 1, tags, <<>>)
      BY <1>6, <2>1
    <2>4. DecodeValue(65, value) = Decoded(V, Len(value))
      BY <2>1, <2>2, <2>3, Zenon DEF StringDecodes, value, dg
    <2>5. V \in Value /\ V.s = tags /\ V.go = "[]byte"
      <3>1. V \in Value
        BY <1>2, GoType
      <3> QED BY <3>1 DEF GoBytes
    <2> HIDE DEF V
    <2>6. Decoded(V, Len(value)) # Err /\ Decoded(V, Len(value)).val = V
      BY <1>9, <2>5, ValueAssumption DEF Decoded
    <2>7. decodeReported(65, value) = V
      BY <1>9, <2>4, <2>6, Zenon DEF decodeReported
    <2> QED BY <2>5, <2>7
  <1>24. HandleZcl(e) = <<"xiaomi", mean>>
    <2>1. Len(e.data) = 1 /\ e.data[1].attr = 247 /\ e.data[1].type = 65 /\ e.data[1].value = value
      BY <1>11, <1>19, <1>21
    <2>2. HandleZcl(e) = HandleTlv(e)
      BY <1>21, <2>1, HandleZclCases
    <2> DEFINE val == decodeReported(e.data[1].type, e.data[1].value)
               raw == IF val.go = "hex" THEN hexText(val.s) ELSE val.s
    <2>3. val.s = tags /\ val.go = "[]byte"
      BY <1>23, <2>1, Zenon
    <2>5. HandleTlv(e) = IF val.go \notin {"[]byte", "string", "hex"} \/ decodeXiaomiTLV(raw) = Err THEN None
                         ELSE <<"xiaomi", Pairs(decodeXiaomiTLV(raw))>>
      BY Zenon DEF HandleTlv
    <2> HIDE DEF val
    <2>6. raw = tags /\ val.go \in {"[]byte", "string", "hex"}
      BY <2>3
    <2> HIDE DEF raw
    <2>4. HandleTlv(e) = <<"xiaomi", Pairs(tlv)>>
      BY <1>2, <2>5, <2>6, Zenon DEF tlv
    <2> QED BY <1>2, <2>2, <2>4, Zenon
  <1>25. Meant(m) = <<"xiaomi", mean>>
    <2>1. Meant(m) = MeantXiaomi(m)
      BY <1>1, MeantCases
    <2> DEFINE f(i) == <<i, recordMeans(m.recs[i])>>
    <2>2. f(1) = <<1, recordMeans(r)>> /\ f(2) = <<2, recordMeans(Follower)>>
      BY <1>1
    <2>3. MeantXiaomi(m) = <<"xiaomi", {f(i) : i \in 1 .. 2}>>
      BY Zenon DEF MeantXiaomi
    <2> HIDE DEF f
    <2>4. {f(i) : i \in 1 .. 2} = {f(1), f(2)}
      OBVIOUS
    <2> QED BY <2>1, <2>2, <2>3, <2>4, Zenon DEF mean
  <1>26. Meant(m) \in Understood
    <2>1. recordMeans(r) \in Plains /\ recordMeans(Follower) \in Plains
      <3>1. Sane(r) /\ Sane(Follower)
        BY FollowerBytes DEF SaneTag, Sane
      <3> QED BY <3>1, SaneReads DEF RecordReads
    <2>2. 1 \in Byte /\ 2 \in Byte
      BY ByteFacts
    <2>3. mean \in SUBSET (Byte \X Plains)
      BY <2>1, <2>2 DEF mean
    <2>4. <<"xiaomi", mean>> \in {"tuya", "xiaomi"} \X SUBSET (Byte \X Plains)
      BY <2>3
    <2> QED BY <1>25, <2>4 DEF Understood
  <1>27. ZclSays(m, 8, 10, body, e)
    <2>1. m.kind \in ZclKinds /\ body \in Seq(Byte)
      BY <1>13, <1>18
    <2>2. 8 \in {8, 9} /\ 10 \in {1, 2, 10}
      OBVIOUS
    <2>3. Len(body) <= Base + 11
      BY <1>13, DigitIsByte
    <2>4. HandleZcl(e) = Meant(m)
      BY <1>24, <1>25
    <2> QED BY <1>0, <1>17, <1>20, <1>22, <1>26, <2>1, <2>2, <2>3, <2>4, Zenon DEF ZclSays
  <1> QED BY <1>27, ZclUnderstood

LEMMA IndicationKind == \A m \in Indications : m.kind \in IndicationKinds
<1> SUFFICES ASSUME NEW m \in Indications PROVE m.kind \in IndicationKinds
  OBVIOUS
<1>1. \E kind \in IndicationKinds : m = Say(kind, FALSE, <<>>)
  BY Zenon DEF Indications, IndicationKinds
<1> QED
  BY <1>1 DEF Say

LEMMA SaysFollower ==
    ASSUME NEW kind, NEW mfr \in BOOLEAN, NEW r
    PROVE  SaysOf(Say(kind, mfr, <<r, Follower>>), kind, r)
<1> DEFINE m == Say(kind, mfr, <<r, Follower>>)
<1>1. m.kind = kind /\ m.mfr = mfr /\ m.recs = <<r, Follower>>
  BY DEF Say
<1> HIDE DEF m
<1>2. m.recs[1] = r /\ m.recs[2] = Follower
  BY <1>1
<1>3. SaysOf(m, kind, r)
  BY <1>1, <1>2, Zenon DEF SaysOf
<1> QED
  BY <1>3 DEF m

\* Every message of the model is decoded to what it means: the LL and HL layers, the
\* record parsers, the value codec and the manufacturer formats agree with
\* what the device encoded (readLoop and below).
THEOREM MessagesAreUnderstood == \A m \in Messages : Good(m)
<1> SUFFICES ASSUME NEW m \in Messages PROVE Good(m)
  OBVIOUS
<1>1. CASE m \in Reports
  <2>1. PICK mfr \in BOOLEAN, r \in NumberRecords \cup OpaqueRecords \cup StringRecords :
            m = Say("report", mfr, <<r, Follower>>)
    BY <1>1 DEF Reports
  <2>2. Sane(r)
    BY NumbersAreSane, OpaquesAreSane, StringsAreSane, Zenon DEF Sane
  <2>3. SaysOf(m, "report", r)
    BY <2>1, SaysFollower, Zenon
  <2> QED
    BY <2>2, <2>3, ReportGood, Zenon
<1>2. CASE m \in Responses
  <2>1. PICK r \in NumberRecords \cup StringRecords : m = Say("response", FALSE, <<r, Follower>>)
    BY <1>2, Zenon DEF Responses
  <2>2. Sane(r)
    BY NumbersAreSane, StringsAreSane, Zenon DEF Sane
  <2>0. FALSE \in BOOLEAN
    OBVIOUS
  <2>3. SaysOf(m, "response", r)
    BY <2>0, <2>1, SaysFollower, Zenon
  <2> QED
    BY <2>2, <2>3, ResponseGood, Zenon
<1>3. CASE m \in TuyaCommands
  <2> DEFINE D == {<<>>, <<1>>, <<0, 0, 0, 3>>, <<1, 0, 0, 0, 2>>}
             two == <<0, 0, 1, 2>>
             say(pt) == Say("tuya", FALSE, <<pt, TuyaPoint(2, two)>>)
  <2>a. m \in {say(pt) : pt \in TuyaPoints}
    BY <1>3, Zenon DEF TuyaCommands
  <2> HIDE DEF D, two, say
  <2>0. PICK pt \in TuyaPoints : m = say(pt)
    BY <2>a
  <2>1. PICK type \in 0 .. 5, d \in D : pt = TuyaPoint(type, d)
    BY <2>0 DEF TuyaPoints, D
  <2> DEFINE p == TuyaPoint(type, d)
             q == TuyaPoint(2, two)
  <2>2. p.type = type /\ p.d = d
    BY DEF TuyaPoint
  <2>3. d \in Seq(Byte) /\ Len(d) <= 5
    <3>1. 0 \in Byte /\ 1 \in Byte /\ 2 \in Byte /\ 3 \in Byte
      BY ByteFacts
    <3>2. <<>> \in Seq(Byte) /\ Len(<<>>) = 0
      OBVIOUS
    <3> DEFINE d3 == <<0, 0, 0, 3>>
               d4 == <<1, 0, 0, 0, 2>>
               d2 == <<1>>
    <3>3. d2 \in Seq(Byte) /\ Len(d2) = 1
      BY <3>1
    <3>4. d3 \in Seq(Byte) /\ Len(d3) = 4
      BY <3>1
    <3>5. d4 \in Seq(Byte) /\ Len(d4) = 5
      BY <3>1
    <3>6. d = <<>> \/ d = d2 \/ d = d3 \/ d = d4
      BY DEF D
    <3> HIDE DEF d2, d3, d4
    <3>7. 0 <= 5 /\ 1 <= 5 /\ 4 <= 5 /\ 5 <= 5
      OBVIOUS
    <3> QED
      BY <3>2, <3>3, <3>4, <3>5, <3>6, <3>7
  <2>4. m.kind = "tuya" /\ m.mfr = FALSE /\ m.recs = <<p, q>>
    BY <2>0, <2>1 DEF Say, say
  <2> HIDE DEF p, q
  <2>5. m.recs[1] = p /\ m.recs[2] = q
    BY <2>4
  <2>6. TuyaSays(m, p)
    BY <2>2, <2>3, <2>4, <2>5 DEF TuyaSays, q, two
  <2> QED
    BY <2>6, TuyaGood, Zenon
<1>4. CASE m \in XiaomiTags
  <2>1. PICK r \in NumberRecords : r.type \in LibraryTypes /\ Len(r.s) = 1 /\ m = Say("xiaomi", TRUE, <<r, Follower>>)
    BY <1>4, Zenon DEF XiaomiTags
  <2>2. SaneTag(r)
    BY <2>1, NumbersAreSane, Zenon DEF SaneTag
  <2>0. TRUE \in BOOLEAN
    OBVIOUS
  <2>3. SaysOf(m, "xiaomi", r)
    BY <2>0, <2>1, SaysFollower, Zenon
  <2> QED
    BY <2>2, <2>3, XiaomiGood, Zenon
<1>5. CASE m \in Indications
  BY <1>5, IndicationKind, IndicationGood, Zenon
<1> QED
  BY <1>1, <1>2, <1>3, <1>4, <1>5, Zenon DEF Messages

-----------------------------------------------------------------------------
(* A written value, as the device keeps it.                                *)

prefixOf(t) == CASE t \in {65, 66} -> 1 [] t \in {67, 68} -> 2 [] OTHER -> 0
kept(t, e) ==
    [type |-> t, s |-> From(e, prefixOf(t) + 1),
     n |-> IF prefixOf(t) > 0 THEN 0 ELSE IF t \in SignedStd THEN Signed(e) ELSE Number(e)]

LEMMA PrefixOf ==
    /\ \A t \in {65, 66} : prefixOf(t) = 1
    /\ \A t \in {67, 68} : prefixOf(t) = 2
    /\ \A t : t \notin {65, 66, 67, 68} => prefixOf(t) = 0
  <1>1. \A t \in {65, 66} : prefixOf(t) = 1
    BY DEF prefixOf
  <1>2. \A t \in {67, 68} : prefixOf(t) = 2
    BY DEF prefixOf
  <1>3. \A t : t \notin {65, 66, 67, 68} => prefixOf(t) = 0
    BY DEF prefixOf
  <1> QED BY <1>1, <1>2, <1>3

\* The write request, as buildAPSDEDataReq lays it out.
LEMMA RequestIs ==
    ASSUME NEW data
    PROVE  buildAPSDEDataReq(Short, 3, 1, 64704, 260, 30, data) = reqHeader(Len(data)) \o data
  BY DEF buildAPSDEDataReq, reqHeader

Encoded(t, e) == t \in Byte /\ Delimited(t, e) /\ Len(e) <= Base + 1

\* One record in a write: its bytes, and what the parser makes of them.
LEMMA WriteOne ==
    ASSUME NEW t, NEW e, Encoded(t, e)
    PROVE  LET frm == zclBuildWriteAttributes(9, <<Record(5, t, e)>>)
           IN  /\ frm \in Seq(Byte) /\ Len(frm) >= 3 /\ Len(frm) <= Base + 7
               /\ zclParseAttributeReports(From(frm, 4)) = <<Record(5, t, e)>>
  <1> DEFINE R == Record(5, t, e)
             recs == <<R>>
             frm == zclBuildWriteAttributes(9, recs)
  <1>1. R \in RecordSet /\ R.type = t /\ R.value = e /\ R.attr = 5
    <2>1. 5 \in Word
      BY WordFacts
    <2>2. t \in Byte /\ e \in Seq(Byte)
      BY DEF Encoded, Delimited
    <2> QED BY <2>1, <2>2 DEF Record, RecordSet
  <1> HIDE DEF R
  <1>2. recs \in Seq(RecordSet) /\ Len(recs) = 1 /\ recs[1] = R
    BY <1>1
  <1>3. Delimited(R.type, R.value) /\ Len(R.value) <= Base + 1
    BY <1>1 DEF Encoded
  <1>4. 9 \in Byte
    BY ByteFacts
  <1> HIDE DEF recs
  <1>5. \A i \in 1 .. Len(recs) : Delimited(recs[i].type, recs[i].value)
    BY <1>2, <1>3
  <1>6. frm \in Seq(Byte) /\ Len(frm) >= 3 /\ zclParseAttributeReports(From(frm, 4)) = recs
    BY <1>2, <1>4, <1>5, WriteRoundTrip
  <1>7. PICK O : IsRecords(recs, O)
    BY <1>2, RecordsExist
  <1>8. frm = <<16, 9, 2>> \o O[Len(recs)]
    BY <1>2, <1>4, <1>7, WriteIs
  <1>9. O[0] = <<>> /\ O[1] = O[0] \o recordOf(R)
    <2>1. 1 \in 1 .. Len(recs)
      BY <1>2
    <2>2. O[0] = <<>> /\ \A i \in 1 .. Len(recs) : O[i] = O[i - 1] \o recordOf(recs[i])
      BY <1>7, Zenon DEF IsRecords
    <2>3. 1 - 1 = 0
      OBVIOUS
    <2>4. O[1] = O[1 - 1] \o recordOf(recs[1])
      BY <2>1, <2>2, Zenon
    <2> QED BY <1>2, <2>2, <2>3, <2>4
  <1>10. recordOf(R) \in Seq(Byte) /\ Len(recordOf(R)) = 3 + Len(R.value)
    BY <1>1, RecordBytes
  <1>11. O[1] \in Seq(Byte) /\ Len(O[1]) = 3 + Len(R.value)
    BY <1>9, <1>10
  <1>12. <<16, 9, 2>> \in Seq(Byte) /\ Len(<<16, 9, 2>>) = 3
    <2>1. 16 \in Byte /\ 9 \in Byte /\ 2 \in Byte
      BY ByteFacts
    <2> QED BY <2>1, Triple
  <1>13. Len(frm) = 6 + Len(R.value)
    <2> DEFINE a == <<16, 9, 2>>
               b == O[1]
    <2>1. frm = a \o b
      BY <1>2, <1>8
    <2> HIDE DEF a, b
    <2>2. a \in Seq(Byte) /\ Len(a) = 3 /\ b \in Seq(Byte) /\ Len(b) = 3 + Len(R.value)
      BY <1>11, <1>12 DEF a, b
    <2>3. Len(a \o b) = Len(a) + Len(b)
      BY <2>2, Parts
    <2>4. Len(R.value) \in Nat
      BY <1>3 DEF Delimited
    <2> QED BY <2>1, <2>2, <2>3, <2>4
  <1>14. Len(frm) <= Base + 7
    <2>1. Len(R.value) \in Nat
      BY <1>3 DEF Delimited
    <2> QED BY <1>3, <1>13, <2>1, DigitIsByte
  <1> QED BY <1>6, <1>14 DEF R, recs

\* The request that WriteAttribute sends holds the record, and the device finds it.
LEMMA DeviceKeeps ==
    ASSUME NEW t, NEW v, NEW e, Encoded(t, e), EncodeValue(t, v) = e
    PROVE  deviceKeeps(requestBytes(t, v)) = kept(t, e)
  <1> DEFINE R == Record(5, t, e)
             frm == zclBuildWriteAttributes(9, <<R>>)
             n == Len(frm)
             h == reqHeader(n)
             aps == h \o frm
             hl == <<0, 0>> \o LE16(769) \o <<5>> \o aps
             req == zbossEncodeDataFrame(1, hl)
  <1>1. frm \in Seq(Byte) /\ n >= 3 /\ n <= Base + 7 /\ zclParseAttributeReports(From(frm, 4)) = <<R>>
    BY WriteOne
  <1>2. requestBytes(t, v) = req
    <2>1. requestBytes(t, v) =
            zbossEncodeRequest(769, 5, 1, buildAPSDEDataReq(Short, 3, 1, 64704, 260, 30,
                zclBuildWriteAttributes(9, <<Record(4 + 1, t, EncodeValue(t, v))>>)))
      BY DEF requestBytes, Attr
    <2> DEFINE B(x) == buildAPSDEDataReq(Short, 3, 1, 64704, 260, 30, x)
               Q(x) == zbossEncodeRequest(769, 5, 1, x)
    <2>2. requestBytes(t, v) = Q(B(frm))
      BY <2>1
    <2>a. Q(aps) = req
      BY Zenon DEF zbossEncodeRequest
    <2> HIDE DEF frm
    <2>3. requestBytes(t, v) = Q(aps)
      <3>1. B(frm) = reqHeader(Len(frm)) \o frm
        BY DEF buildAPSDEDataReq, reqHeader
      <3>2. aps = reqHeader(Len(frm)) \o frm
        OBVIOUS
      <3> HIDE DEF aps, B, Q
      <3> QED BY <2>2, <3>1, <3>2, Zenon
    <2> HIDE DEF aps, Q, req
    <2> QED BY <2>3, <2>a, Zenon
  <1> HIDE DEF frm
  <1>3. n \in Word /\ n \in Nat
    BY <1>1, DigitIsByte, WordFacts
  <1> HIDE DEF n
  <1>4. h \in Seq(Byte) /\ Len(h) = 24 /\ h[2] = n % 256 /\ h[3] = (n \div 256) % 256
    BY <1>3, ReqHeader
  <1> HIDE DEF h
  <1>5. n = Len(frm)
    BY DEF n
  <1>a. h \in Seq(Byte)
    BY <1>4
  <1>b. frm \in Seq(Byte)
    BY <1>1
  <1>c. /\ h \o frm \in Seq(Byte) /\ Len(h \o frm) = Len(h) + Len(frm)
        /\ \A i \in 1 .. Len(h) : (h \o frm)[i] = h[i]
        /\ \A i \in 1 .. Len(frm) : (h \o frm)[Len(h) + i] = frm[i]
    BY <1>a, <1>b, Parts
  <1>6. aps \in Seq(Byte) /\ Len(aps) = 24 + n /\ aps[2] = n % 256 /\ aps[3] = (n \div 256) % 256
    <2>1. aps \in Seq(Byte) /\ Len(aps) = Len(h) + Len(frm)
      BY <1>c
    <2>2. \A i \in 1 .. Len(h) : aps[i] = h[i]
      BY <1>c
    <2>3. 2 \in 1 .. 24 /\ 3 \in 1 .. 24
      OBVIOUS
    <2> HIDE DEF aps
    <2> QED BY <1>4, <1>5, <2>1, <2>2, <2>3
  <1>7. Uint16(aps[2], aps[3]) = n
    BY <1>3, <1>6, WordBytes
  <1>8. SubSeq(aps, 28, 24 + n) = From(frm, 4)
    <2>1. n \in Nat /\ n >= 3
      BY <1>1, <1>3
    <2>2. \A i \in 1 .. n : aps[24 + i] = frm[i]
      BY <1>4, <1>5, <1>c
    <2>3. SubSeq(aps, 28, 24 + n) \in Seq(Byte) /\ Len(SubSeq(aps, 28, 24 + n)) = n - 3
          /\ \A i \in 1 .. n - 3 : SubSeq(aps, 28, 24 + n)[i] = aps[27 + i]
      <3> HIDE DEF aps
      <3>1. 28 \in 1 .. Len(aps) + 1 /\ 24 + n \in 27 .. Len(aps)
        BY <1>6, <2>1
      <3> QED BY <1>6, <2>1, <3>1, SubSeqProperties
    <2>4. From(frm, 4) \in Seq(Byte) /\ Len(From(frm, 4)) = n - 3
          /\ \A i \in 1 .. n - 3 : From(frm, 4)[i] = frm[3 + i]
      <3>1. 4 \in 1 .. Len(frm) + 1 /\ Len(frm) \in 3 .. Len(frm)
        BY <1>5, <2>1
      <3> QED BY <1>1, <1>5, <2>1, <3>1, SubSeqProperties DEF From
    <2> HIDE DEF aps
    <2>5. \A i \in 1 .. n - 3 : SubSeq(aps, 28, 24 + n)[i] = From(frm, 4)[i]
      BY <2>1, <2>2, <2>3, <2>4
    <2> QED BY <2>3, <2>4, <2>5, SeqEqual
  <1> HIDE DEF aps
  <1>9. 769 \in Word /\ 5 \in Byte
    BY WordFacts, ByteFacts
  <1>10. /\ hl \in Seq(Byte) /\ Len(hl) = 5 + Len(aps)
         /\ decodeHL(196, hl) = [flags |-> 196, packetType |-> 0, callID |-> 769, tsn |-> 5,
                                 status |-> <<0, 0>>, payload |-> aps]
    BY <1>6, <1>9, RequestHL
  <1> HIDE DEF hl
  <1>11. 7 + Len(hl) \in Word /\ 192 + 4 * (1 % 4) = 196 /\ 1 \in Nat
    <2>1. Len(hl) = 29 + n /\ n <= Base + 7 /\ n \in Nat /\ Base <= 256 /\ Base \in Int
      BY <1>1, <1>3, <1>5, <1>6, <1>10, DigitIsByte
    <2>2. 7 + Len(hl) \in Int /\ 0 <= 7 + Len(hl) /\ 7 + Len(hl) <= 65535
      BY <2>1
    <2>3. 7 + Len(hl) \in Word
      BY <2>2, WordFacts
    <2>4. 192 + 4 * (1 % 4) = 196 /\ 1 \in Nat
      OBVIOUS
    <2> QED BY <2>3, <2>4
  <1>12. zbossDecodeFrame(req) = decodeHL(192 + 4 * (1 % 4), hl)
    BY <1>10, <1>11, FrameRoundTrip
  <1>13. zbossDecodeFrame(req).payload = aps
    BY <1>10, <1>11, <1>12
  <1> HIDE DEF req
  <1>14. zclParseAttributeReports(SubSeq(aps, 28, 24 + Uint16(aps[2], aps[3])))[1] = R
    <2>1. zclParseAttributeReports(SubSeq(aps, 28, 24 + Uint16(aps[2], aps[3]))) = <<R>>
      BY <1>1, <1>7, <1>8, Zenon
    <2> QED BY <2>1
  <1>15. R.type = t /\ R.value = e
    BY DEF Record
  <1> HIDE DEF R
  <1> DEFINE keep(rec) ==
               [type |-> rec.type, s |-> From(rec.value, prefixOf(rec.type) + 1),
                n |-> IF prefixOf(rec.type) > 0 THEN 0
                      ELSE IF rec.type \in SignedStd THEN Signed(rec.value) ELSE Number(rec.value)]
  <1>16. deviceKeeps(req) = keep(R)
    <2>1. deviceKeeps(req) = keep(zclParseAttributeReports(
              SubSeq(zbossDecodeFrame(req).payload, 28,
                     24 + Uint16(zbossDecodeFrame(req).payload[2], zbossDecodeFrame(req).payload[3])))[1])
      BY Zenon DEF deviceKeeps, prefixOf
    <2> HIDE DEF keep
    <2> QED BY <1>13, <1>14, <2>1
  <1>17. keep(R) = kept(t, e)
    BY <1>15, Zenon DEF kept
  <1> QED BY <1>2, <1>16, <1>17

LEMMA WriteSets ==
    ASSUME NEW t
    PROVE  /\ t = 240 => WriteValues(t) = {GoBytes("[]byte", [i \in 1 .. k |-> i % Base]) : k \in {4, 8}}
           /\ t \in {65, 67} => WriteValues(t) = {GoBytes("[]byte", [i \in 1 .. k |-> 1]) : k \in {0, Base - 2, Base - 1}}
           /\ t \in {66, 68} => WriteValues(t) = {GoBytes("string", [i \in 1 .. k |-> 1]) : k \in {0, Base - 2, Base - 1}}
           /\ t \in {57, 58} => WriteValues(t) = GoNumbers(FloatNumbers \cup {-n : n \in FloatNumbers})
           /\ t \notin {240, 57, 58, 65, 66, 67, 68} => WriteValues(t) = GoNumbers(WriteNumbers(StdWidth(t)))
  <1> DEFINE A == {GoBytes("[]byte", [i \in 1 .. k |-> i % Base]) : k \in {4, 8}}
             C == {GoBytes("[]byte", [i \in 1 .. k |-> 1]) : k \in {0, Base - 2, Base - 1}}
             D == {GoBytes("string", [i \in 1 .. k |-> 1]) : k \in {0, Base - 2, Base - 1}}
             B == GoNumbers(FloatNumbers \cup {-n : n \in FloatNumbers})
             E == GoNumbers(WriteNumbers(StdWidth(t)))
  <1>1. WriteValues(t) = CASE t = 240 -> A [] t \in {65, 67} -> C [] t \in {66, 68} -> D
                           [] t \in {57, 58} -> B [] OTHER -> E
    BY Zenon DEF WriteValues
  <1> HIDE DEF A, B, C, D, E
  <1>3. t = 240 => WriteValues(t) = A
    BY <1>1
  <1>4. t \in {57, 58} => WriteValues(t) = B
    BY <1>1
  <1>5. t \in {65, 67} => WriteValues(t) = C
    BY <1>1
  <1>6. t \in {66, 68} => WriteValues(t) = D
    BY <1>1
  <1>7. t \notin {240, 57, 58, 65, 66, 67, 68} => WriteValues(t) = E
    BY <1>1
  <1> QED BY <1>3, <1>4, <1>5, <1>6, <1>7, Zenon DEF A, B, C, D, E

LEMMA FloatEdges == FloatNumbers \subseteq Int
  <1>1. Base \in Nat /\ Pow(2) \in Nat /\ Pow(6) \in Nat
    BY BaseFacts, PowPositive
  <1>2. ASSUME NEW k \in {1, 2}, NEW p \in {2, 6}, NEW d \in {0, 1} PROVE k * Pow(p) + d \in Int
    <2>1. Pow(p) \in Nat
      BY <1>1
    <2> QED BY <2>1
  <1>3. {k * Pow(p) + d : k \in {1, 2}, p \in {2, 6}, d \in {0, 1}} \subseteq Int
    BY <1>2
  <1>4. {0, 1, Base, Pow(2) + Base \div 2} \subseteq Int
    BY <1>1
  <1> QED BY <1>3, <1>4 DEF FloatNumbers

LEMMA NumberEdges == ASSUME NEW t \in NumberTypes PROVE WriteNumbers(StdWidth(t)) \subseteq Int
  <1>1. StdWidth(t) \in Nat
    BY NumberWidth DEF NumberTypes
  <1> DEFINE top == Pow(StdWidth(t))
  <1>2. top \in Nat
    BY <1>1, NumberOfDigits
  <1> HIDE DEF top
  <1>3. WriteNumbers(StdWidth(t)) = ({-(top \div 2), -1, 0, 1, top \div 2 - 1} \cup {0, 1, top \div 2 - 1, top \div 2, top - 1})
                         \cup {top, top + 1, -(top \div 2) - 1}
    BY DEF WriteNumbers, Edges, top
  <1>4. top \div 2 \in Int
    BY <1>2
  <1> HIDE DEF WriteNumbers
  <1> QED BY <1>2, <1>3, <1>4

WriteNumber(v) ==
    /\ v.n \in Int /\ v.s = <<>> /\ v.go \in {"float64", "int64", "uint64"}
    /\ v.go = "uint64" => v.n >= 0
WriteBytes(v) == v.n = 0 /\ v.s \in Seq(Digit) /\ v.go # "float64"

LEMMA NumberNotOther ==
    \A t \in NumberTypes : t \notin {240, 57, 58, 65, 66, 67, 68} /\ t \in LibraryTypes \cup OtherTypes
  BY NotStrings DEF NumberTypes, Opaque

LEMMA NumbersWritten ==
    ASSUME NEW t \in NumberTypes \cup {57, 58}, NEW v \in WriteValues(t)
    PROVE  WriteNumber(v)
  <1>1. \E N \in SUBSET Int : v \in GoNumbers(N)
    <2>1. CASE t \in {57, 58}
      <3>1. FloatNumbers \cup {-n : n \in FloatNumbers} \in SUBSET Int
        <4>1. \A n \in FloatNumbers : n \in Int /\ -n \in Int
          BY FloatEdges
        <4>2. \A x \in FloatNumbers \cup {-n : n \in FloatNumbers} : x \in Int
          BY <4>1
        <4> QED BY <4>2
      <3>2. v \in GoNumbers(FloatNumbers \cup {-n : n \in FloatNumbers})
        BY <2>1, WriteSets, Zenon
      <3> QED BY <3>1, <3>2, Zenon
    <2>2. CASE t \in NumberTypes
      <3>1. WriteNumbers(StdWidth(t)) \in SUBSET Int
        BY <2>2, NumberEdges
      <3>2. v \in GoNumbers(WriteNumbers(StdWidth(t)))
        BY <2>2, WriteSets, NumberNotOther
      <3> QED BY <3>1, <3>2, Zenon
    <2>3. t \in NumberTypes \/ t \in {57, 58}
      OBVIOUS
    <2> QED BY <2>1, <2>2, <2>3, Zenon
  <1>2. PICK N \in SUBSET Int : v \in GoNumbers(N)
    BY <1>1, Zenon
  <1>3. CASE v \in {Go("float64", 2 * n + k) : n \in N, k \in {0, 1}}
    <2>1. PICK n \in N, k \in {0, 1} : v = Go("float64", 2 * n + k)
      BY <1>3
    <2>2. 2 * n + k \in Int
      OBVIOUS
    <2> QED BY <2>1, <2>2 DEF Go, WriteNumber
  <1>4. CASE v \in {Go("int64", n) : n \in N}
    <2>1. PICK n \in N : v = Go("int64", n)
      BY <1>4
    <2> QED BY <2>1 DEF Go, WriteNumber
  <1>5. CASE v \in {Go("uint64", n) : n \in N \cap Nat}
    <2>1. PICK n \in N \cap Nat : v = Go("uint64", n)
      BY <1>5
    <2> QED BY <2>1 DEF Go, WriteNumber
  <1> QED BY <1>2, <1>3, <1>4, <1>5 DEF GoNumbers

LEMMA Ones ==
    ASSUME NEW k \in Nat
    PROVE  LET s == [i \in 1 .. k |-> 1] IN s \in Seq(Digit) /\ Len(s) = k
  <1>1. 1 \in Digit
    BY BaseFacts DEF Digit
  <1> DEFINE s == [i \in 1 .. k |-> 1]
  <1>2. s \in [1 .. k -> Digit]
    BY <1>1
  <1>3. DOMAIN s = 1 .. k
    OBVIOUS
  <1> HIDE DEF s
  <1>4. s \in Seq(Digit)
    BY <1>2
  <1>5. Len(s) = k
    BY <1>3, <1>4
  <1> QED BY <1>4, <1>5 DEF s

LEMMA BytesFields == \A go, b : GoBytes(go, b).n = 0 /\ GoBytes(go, b).s = b /\ GoBytes(go, b).go = go
  BY DEF GoBytes

LEMMA AddressWritten == \A v \in WriteValues(240) : WriteBytes(v)
  <1> SUFFICES ASSUME NEW v \in WriteValues(240) PROVE WriteBytes(v)
    OBVIOUS
  <1> DEFINE ramp(k) == [i \in 1 .. k |-> i % Base]
  <1>1. v \in {GoBytes("[]byte", ramp(k)) : k \in {4, 8}}
    BY WriteSets
  <1>2. \A k \in Nat : ramp(k) \in Seq(Digit)
    BY Ramp
  <1> HIDE DEF ramp
  <1>3. PICK k \in {4, 8} : v = GoBytes("[]byte", ramp(k))
    BY <1>1
  <1>4. v.n = 0 /\ v.s = ramp(k) /\ v.go = "[]byte"
    BY <1>3, BytesFields
  <1>5. k \in Nat
    OBVIOUS
  <1> QED BY <1>2, <1>4, <1>5 DEF WriteBytes

LEMMA StringsWritten ==
    ASSUME NEW t \in 65 .. 68, NEW v \in WriteValues(t)
    PROVE  WriteBytes(v) /\ Len(v.s) <= Base - 1
  <1> DEFINE ones(k) == [i \in 1 .. k |-> 1]
             K == {0, Base - 2, Base - 1}
  <1>1. v \in {GoBytes("[]byte", ones(k)) : k \in K} \/ v \in {GoBytes("string", ones(k)) : k \in K}
    <2>1. t \in {65, 67} \/ t \in {66, 68}
      OBVIOUS
    <2>2. CASE t \in {65, 67}
      <3>1. t \in {65, 67} => WriteValues(t) = {GoBytes("[]byte", ones(k)) : k \in K}
        BY WriteSets
      <3> QED BY <2>2, <3>1, Zenon
    <2>3. CASE t \in {66, 68}
      <3>1. t \in {66, 68} => WriteValues(t) = {GoBytes("string", ones(k)) : k \in K}
        BY WriteSets
      <3> QED BY <2>3, <3>1, Zenon
    <2> QED BY <2>1, <2>2, <2>3, Zenon
  <1>2. \A k \in Nat : ones(k) \in Seq(Digit) /\ Len(ones(k)) = k
    BY Ones
  <1>3. \A k \in K : k \in Nat /\ k <= Base - 1
    BY DigitIsByte
  <1> HIDE DEF ones, K
  <1>4. PICK go \in {"[]byte", "string"}, k \in K : v = GoBytes(go, ones(k))
    BY <1>1
  <1>5. v.n = 0 /\ v.s = ones(k) /\ v.go # "float64"
    BY <1>4, BytesFields
  <1>6. k \in Nat /\ k <= Base - 1
    BY <1>3, <1>4
  <1> QED BY <1>2, <1>5, <1>6 DEF WriteBytes

Kept(t, v, e) ==
    /\ Encoded(t, e) /\ Sane(kept(t, e))
    /\ t # 56 => recordMeans(kept(t, e)) = LeftOf(t, v)

LEMMA KeptFields ==
    ASSUME NEW t, NEW e
    PROVE  /\ kept(t, e).type = t /\ kept(t, e).s = From(e, prefixOf(t) + 1)
           /\ kept(t, e).n = IF prefixOf(t) > 0 THEN 0 ELSE IF t \in SignedStd THEN Signed(e) ELSE Number(e)
  BY DEF kept

LEMMA LibrarySizes ==
    ASSUME NEW t \in LibraryTypes
    PROVE  TypeSize(t) = StdWidth(t)
  BY LibraryWidth, TypeSizeAgrees

LEMMA FixedKept ==
    ASSUME NEW t \in LibraryTypes, NEW d \in Seq(Digit), Len(d) = StdWidth(t)
    PROVE  LET r == kept(t, d)
           IN  /\ Encoded(t, d) /\ r.type = t /\ r.s = d
               /\ r.n = IF t \in SignedStd THEN Signed(d) ELSE Number(d)
  <1>1. <<t, StdWidth(t)>> \in LibraryWidths \cup OtherWidths
    BY LibraryWidth
  <1>2. t \in Byte /\ StdWidth(t) \in 1 .. 8
    BY <1>1, WidthsAgree
  <1>3. d \in Seq(Byte)
    BY DigitIsByte
  <1>4. Delimited(t, d)
    BY <1>1, <1>3, DelimitedFixed
  <1>5. Encoded(t, d)
    <2>1. Len(d) <= Base + 1
      BY <1>2, DigitIsByte
    <2> QED BY <1>2, <1>4, <2>1 DEF Encoded
  <1>6. t \notin {65, 66, 67, 68}
    BY NotStrings
  <1>7. prefixOf(t) = 0
    BY <1>6, PrefixOf
  <1>8. From(d, 0 + 1) = d
    <2>1. 0 + 1 = 1
      OBVIOUS
    <2>2. SubSeq(d, 1, Len(d)) = d
      BY SubSeqFull
    <2> QED BY <2>1, <2>2 DEF From
  <1>9. kept(t, d).s = d
    BY <1>7, <1>8, KeptFields
  <1>10. ~(0 > 0)
    OBVIOUS
  <1> QED BY <1>5, <1>7, <1>9, <1>10, KeptFields

LEMMA NumberKept ==
    ASSUME NEW t \in LibraryTypes, t \in NumberTypes, NEW d \in Seq(Digit), Len(d) = StdWidth(t),
           t = 16 => d[1] \in {0, 1}
    PROVE  LET r == kept(t, d)
           IN  /\ Encoded(t, d) /\ Sane(r)
               /\ recordMeans(r) = <<IF t \in SignedStd THEN Signed(d) ELSE Number(d), <<>>>>
  <1> DEFINE r == kept(t, d)
  <1>1. /\ Encoded(t, d) /\ r.type = t /\ r.s = d
        /\ r.n = IF t \in SignedStd THEN Signed(d) ELSE Number(d)
    BY FixedKept
  <1> HIDE DEF r
  <1>2. SaneNumber(r)
    BY <1>1, Zenon DEF SaneNumber
  <1>3. r.type \in LibraryTypes \ Opaque
    BY <1>1 DEF NumberTypes
  <1>4. recordMeans(r) = <<r.n, <<>>>>
    BY <1>3, Zenon DEF recordMeans
  <1>5. recordMeans(r) = <<IF t \in SignedStd THEN Signed(d) ELSE Number(d), <<>>>>
    BY <1>1, <1>4, Zenon
  <1>6. Sane(r)
    BY <1>2, Zenon DEF Sane
  <1> QED BY <1>1, <1>5, <1>6 DEF r

LEMMA BoolKept ==
    ASSUME NEW v, NEW e, BoolCase(16, v, e)
    PROVE  Kept(16, v, e)
  <1> DEFINE b == IF v.n # 0 THEN 1 ELSE 0
  <1>1. e = <<b>>
    BY DEF BoolCase
  <1>2. b \in {0, 1}
    OBVIOUS
  <1>3. b \in Digit
    BY <1>2, BaseFacts DEF Digit
  <1>0. LeftOf(16, v) = <<b, <<>>>>
    BY DEF LeftOf, TypeBool
  <1> HIDE DEF b
  <1>4. e \in Seq(Digit) /\ Len(e) = 1 /\ e[1] = b
    BY <1>1, <1>3
  <1>5. 16 \in LibraryTypes /\ 16 \in NumberTypes /\ 16 \notin SignedStd
    BY DEF LibraryTypes, NumberTypes, Opaque, SignedStd
  <1>6. StdWidth(16) = 1
    BY <1>5, NumberWidth
  <1>7. Number(e) = b
    BY <1>4, NumberType
  <1>8. Encoded(16, e) /\ Sane(kept(16, e)) /\ recordMeans(kept(16, e)) = <<Number(e), <<>>>>
    BY <1>2, <1>4, <1>5, <1>6, NumberKept
  <1> QED BY <1>0, <1>7, <1>8 DEF Kept

LEMMA NumberWritten ==
    ASSUME NEW t \in NumberTypes, NEW v, WriteNumber(v), NEW e,
           \/ UintCase(t, v, e) \/ SignedCase(t, v, e) \/ (t = 56 /\ e = Digits(Whole(v), 2))
    PROVE  Kept(t, v, e)
  <1>0. v.n \in Int /\ v.s = <<>> /\ Whole(v) \in Int /\ (v.n >= 0 => Whole(v) >= 0)
    BY ValueNumbers DEF WriteNumber
  <1>1. t \in LibraryTypes /\ t # 16
    <2>1. CASE UintCase(t, v, e)
      <3>1. IsUint(t)
        BY <2>1 DEF UintCase
      <3>2. TypeSize(t) \in 1 .. 6 /\ t # 16
        BY <3>1, UintFacts DEF IsUint
      <3>3. t \notin OtherTypes
        <4>1. SUFFICES ASSUME t \in OtherTypes PROVE FALSE
          OBVIOUS
        <4>2. <<t, StdWidth(t)>> \in OtherWidths
          BY <4>1, OtherWidth
        <4>3. TypeSize(t) = -1
          BY <4>2, TypeSizeAgrees, Zenon
        <4> QED BY <3>2, <4>3
      <3> QED BY <3>2, <3>3 DEF NumberTypes
    <2>2. CASE SignedCase(t, v, e)
      BY <2>2 DEF SignedCase, SignedTypes, LibraryTypes
    <2>3. CASE t = 56
      BY <2>3 DEF LibraryTypes
    <2> QED BY <2>1, <2>2, <2>3
  <1>2. TypeSize(t) = StdWidth(t) /\ StdWidth(t) \in Nat
    BY <1>1, LibrarySizes, NumberWidth
  <1>3. e = Digits(Whole(v), StdWidth(t))
    <2>1. CASE UintCase(t, v, e)
      BY <1>2, <2>1 DEF UintCase
    <2>2. CASE SignedCase(t, v, e)
      BY <1>2, <2>2 DEF SignedCase
    <2>3. CASE t = 56 /\ e = Digits(Whole(v), 2)
      <3>0. <<56, StdWidth(56)>> \in LibraryWidths
        BY <1>1, <2>3, LibraryWidth
      <3>1. StdWidth(56) = 2
        BY <3>0 DEF LibraryWidths
      <3> QED BY <2>3, <3>1
    <2> QED BY <2>1, <2>2, <2>3
  <1>4. e \in Seq(Digit) /\ Len(e) = StdWidth(t)
    BY <1>0, <1>2, <1>3, DigitsType
  <1>5. /\ Encoded(t, e) /\ Sane(kept(t, e))
        /\ recordMeans(kept(t, e)) = <<IF t \in SignedStd THEN Signed(e) ELSE Number(e), <<>>>>
    BY <1>1, <1>4, NumberKept
  <1>6. t # 56 => (IF t \in SignedStd THEN Signed(e) ELSE Number(e)) = Whole(v)
    <2>1. CASE UintCase(t, v, e)
      <3>1. IsUint(t) /\ toUint64(v) /\ Whole(v) < Pow(StdWidth(t))
        BY <1>2, <2>1 DEF UintCase
      <3>2. Whole(v) >= 0
        BY <1>0, <3>1 DEF toUint64, WriteNumber
      <3>3. t \notin SignedStd
        <4>1. t \notin {40, 41, 42, 43}
          BY <3>1, UintFacts
        <4>2. t \notin {44, 45, 46, 47}
          BY <1>1 DEF LibraryTypes
        <4> QED BY <4>1, <4>2 DEF SignedStd
      <3>4. Number(e) = Whole(v)
        BY <1>0, <1>2, <1>3, <3>1, <3>2, NumberOfDigits
      <3> QED BY <3>3, <3>4
    <2>2. CASE SignedCase(t, v, e)
      <3>1. t \in SignedStd
        BY <2>2 DEF SignedCase, SignedTypes, SignedStd
      <3>2. 2 * Whole(v) >= -Pow(StdWidth(t)) /\ 2 * Whole(v) < Pow(StdWidth(t))
        BY <1>2, <2>2 DEF SignedCase
      <3>3. Signed(e) = Whole(v)
        BY <1>0, <1>2, <1>3, <3>2, SignedOfDigits
      <3> QED BY <3>1, <3>3
    <2>3. CASE t = 56 /\ e = Digits(Whole(v), 2)
      BY <2>3
    <2> QED BY <2>1, <2>2, <2>3
  <1>7. LeftOf(t, v) = <<Whole(v), <<>>>>
    <2>1. t \notin {16, 57, 58}
      BY <1>1, NumberNotOther
    <2> QED BY <1>0, <2>1, Zenon DEF LeftOf, TypeBool
  <1> QED BY <1>5, <1>6, <1>7 DEF Kept

LEMMA OpaqueKept ==
    ASSUME NEW t \in Opaque, NEW v, NEW e \in Seq(Digit), Len(e) = StdWidth(t), LeftOf(t, v) = <<0, e>>
    PROVE  Kept(t, v, e)
  <1>1. t \in LibraryTypes
    BY DEF Opaque, LibraryTypes
  <1> DEFINE r == kept(t, e)
  <1>2. Encoded(t, e) /\ r.type = t /\ r.s = e
    BY <1>1, FixedKept
  <1> HIDE DEF r
  <1>3. SaneOpaque(r)
    BY <1>2 DEF SaneOpaque
  <1>4. recordMeans(r) = <<0, e>>
    BY <1>2 DEF recordMeans
  <1>5. Sane(r)
    BY <1>3, Zenon DEF Sane
  <1> QED BY <1>2, <1>4, <1>5 DEF Kept, r

LEMMA StringKept ==
    ASSUME NEW t, NEW p \in {1, 2}, NEW v, WriteBytes(v), Len(v.s) <= Base - 1, NEW e, StringCase(t, v, e, p)
    PROVE  Kept(t, v, e)
  <1> DEFINE d == Digits(Len(v.s), p)
             r == kept(t, e)
  <1>1. v.s \in Seq(Digit) /\ v.n = 0 /\ Len(v.s) \in Nat
    BY DEF WriteBytes
  <1>2. v.s \in Seq(Byte)
    BY <1>1, DigitIsByte
  <1>3. /\ (p = 1 /\ t \in {65, 66}) \/ (p = 2 /\ t \in {67, 68})
        /\ ~(Len(v.s) > Pow(p) - 2) /\ e = d \o v.s
    BY DEF StringCase
  <1>4. d \in Seq(Digit) /\ Len(d) = p
    BY <1>1, DigitsType
  <1> HIDE DEF d
  <1>5. prefixOf(t) = p /\ t \in Byte /\ t # 16 /\ t \notin LibraryTypes
    <2>1. prefixOf(t) = p
      BY <1>3, PrefixOf
    <2>2. t \in Byte /\ t # 16
      BY <1>3, ByteFacts
    <2>3. t \notin LibraryTypes
      BY <1>3, NotStrings
    <2> QED BY <2>1, <2>2, <2>3
  <1>6. StringFits(Byte, t, p, v.s) /\ StringFits(Digit, t, p, v.s)
    BY <1>1, <1>2, <1>3 DEF StringFits
  <1>7. Delimited(t, e)
    BY <1>3, <1>6, DelimitedString DEF d
  <1>8. Len(e) = p + Len(v.s) /\ From(e, p + 1) = v.s
    <2> DEFINE x == v.s
    <2>1. d \in Seq(Byte) /\ x \in Seq(Byte)
      BY <1>2, <1>4, DigitIsByte
    <2>2. e = d \o x
      BY <1>3
    <2> HIDE DEF x
    <2>3. Len(d \o x) = Len(d) + Len(x)
      BY <2>1, Parts
    <2>4. SubSeq(d \o x, Len(d) + 1, Len(d) + Len(x)) = x
      BY <2>1, Suffix
    <2> QED BY <1>4, <2>2, <2>3, <2>4 DEF From, x
  <1>9. Encoded(t, e)
    BY <1>1, <1>5, <1>7, <1>8, DigitIsByte DEF Encoded
  <1>10. r.type = t /\ r.s = v.s
    BY <1>5, <1>8, KeptFields
  <1> HIDE DEF r
  <1>11. SaneString(r, p)
    BY <1>6, <1>10 DEF SaneString
  <1>12. Sane(r)
    BY <1>11 DEF Sane
  <1>13. recordMeans(r) = <<0, v.s>>
    BY <1>5, <1>10 DEF recordMeans
  <1>14. LeftOf(t, v) = <<0, v.s>>
    <2>1. t \notin {16, 57, 58}
      BY <1>3
    <2>2. Whole(v) = 0
      BY DEF Whole, WriteBytes
    <2> QED BY <2>1, <2>2, Zenon DEF LeftOf, TypeBool
  <1> QED BY <1>9, <1>12, <1>13, <1>14 DEF Kept, r

\* A value that EncodeValue accepts is what the device keeps.
LEMMA EncodedIsKept ==
    ASSUME NEW t \in NumberTypes \cup Opaque \cup 65 .. 68, NEW v \in WriteValues(t), EncodeValue(t, v) # Err
    PROVE  Kept(t, v, EncodeValue(t, v))
  <1> DEFINE e == EncodeValue(t, v)
  <1>1. \/ BoolCase(t, v, e) \/ UintCase(t, v, e) \/ SignedCase(t, v, e)
        \/ t = 56 \/ FloatCase(t, v, e) \/ AddressCase(t, v, e)
        \/ StringCase(t, v, e, 1) \/ StringCase(t, v, e, 2)
    BY EncodeCases
  <1>2. /\ BoolCase(t, v, e) => t = 16
        /\ UintCase(t, v, e) => t \notin {0, 16, 40, 41, 42, 43, 56, 57, 58, 240, 65, 66, 67, 68}
        /\ SignedCase(t, v, e) => t \in {40, 41, 42, 43}
        /\ AddressCase(t, v, e) => t = 240 /\ Len(v.s) = 8 /\ e = v.s
        /\ FloatCase(t, v, e) => t \in {57, 58}
        /\ StringCase(t, v, e, 1) \/ StringCase(t, v, e, 2) => t \in {65, 66, 67, 68}
    <2>1. UintCase(t, v, e) => t \notin {0, 16, 40, 41, 42, 43, 56, 57, 58, 240, 65, 66, 67, 68}
      BY UintFacts DEF UintCase
    <2>2. SignedCase(t, v, e) => t \in {40, 41, 42, 43}
      BY DEF SignedCase, SignedTypes
    <2>3. AddressCase(t, v, e) => t = 240 /\ Len(v.s) = 8 /\ e = v.s
      BY DEF AddressCase
    <2>4. StringCase(t, v, e, 1) \/ StringCase(t, v, e, 2) => t \in {65, 66, 67, 68}
      BY DEF StringCase
    <2>5. BoolCase(t, v, e) => t = 16
      BY DEF BoolCase
    <2>6. FloatCase(t, v, e) => t \in {57, 58}
      BY DEF FloatCase
    <2> QED BY <2>1, <2>2, <2>3, <2>4, <2>5, <2>6
  <1>3. t = 56 => e = Digits(Whole(v), 2)
    <2> SUFFICES ASSUME t = 56 PROVE e = Digits(Whole(v), 2)
      OBVIOUS
    <2>1. ~IsUint(t) /\ t \notin SignedTypes
      BY UintFacts DEF SignedTypes
    <2>2. e = IF toUint64(v) THEN Digits(Whole(v), 2) ELSE Err
      BY <2>1 DEF EncodeValue, IsUint, TypeBool, TypeFloat16, TypeOctetStr, TypeCharStr, TypeOctetStr16, TypeCharStr16
    <2> QED BY <2>2
  <1> HIDE DEF e
  <1>5. CASE t \in NumberTypes
    <2>1. WriteNumber(v) /\ t \notin {240, 57, 58, 65, 66, 67, 68}
      BY <1>5, NumbersWritten, NumberNotOther
    <2>2. CASE BoolCase(t, v, e)
      <3>1. t = 16
        BY <1>2, <2>2
      <3>2. BoolCase(16, v, e)
        BY <2>2, <3>1, Zenon
      <3>3. Kept(16, v, e)
        BY <3>2, BoolKept
      <3> QED BY <3>1, <3>3, Zenon DEF e
    <2>3. CASE UintCase(t, v, e) \/ SignedCase(t, v, e) \/ t = 56
      <3>1. Kept(t, v, e)
        BY <1>3, <1>5, <2>1, <2>3, NumberWritten
      <3> QED BY <3>1 DEF e
    <2>4. BoolCase(t, v, e) \/ UintCase(t, v, e) \/ SignedCase(t, v, e) \/ t = 56
      BY <1>1, <1>2, <2>1
    <2> QED BY <2>2, <2>3, <2>4, Zenon
  <1>6. CASE t \in Opaque
    <2>1. t \in {57, 58, 240}
      BY <1>6 DEF Opaque
    <2>2. StdWidth(240) = 8 /\ StdWidth(57) = 4 /\ StdWidth(58) = 8
      <3>1. \A x \in {57, 58, 240} : <<x, StdWidth(x)>> \in LibraryWidths
        BY LibraryWidth DEF LibraryTypes
      <3> QED BY <3>1 DEF LibraryWidths
    <2>3. CASE t = 240
      <3>1. WriteBytes(v) /\ Len(v.s) = 8 /\ e = v.s
        BY <1>1, <1>2, <2>3, AddressWritten
      <3>2. LeftOf(t, v) = <<0, e>>
        <4>1. Whole(v) = 0 /\ t \notin {16, 57, 58}
          BY <2>3, <3>1 DEF Whole, WriteBytes
        <4> QED BY <3>1, <4>1, Zenon DEF LeftOf, TypeBool
      <3>3. e \in Seq(Digit) /\ Len(e) = StdWidth(t)
        BY <2>2, <2>3, <3>1 DEF WriteBytes
      <3>4. Kept(t, v, e)
        BY <1>6, <3>2, <3>3, OpaqueKept
      <3> QED BY <3>4 DEF e
    <2>4. CASE t \in {57, 58}
      <3>1. FloatCase(t, v, e)
        BY <1>1, <1>2, <2>4
      <3>2. WriteNumber(v)
        BY <2>4, NumbersWritten
      <3>3. float64(v) \in Int /\ float32(v) \in Int
        BY <3>2, ValueNumbers DEF WriteNumber
      <3>4. e \in Seq(Digit) /\ Len(e) = StdWidth(t)
        BY <2>2, <3>1, <3>3, FloatBitsType DEF FloatCase
      <3>5. LeftOf(t, v) = <<0, e>>
        BY <2>4, <3>1 DEF LeftOf, TypeBool, FloatCase
      <3> QED BY <1>6, <3>4, <3>5, OpaqueKept DEF e
    <2> QED BY <2>1, <2>3, <2>4
  <1>7. CASE t \in 65 .. 68
    <2>1. WriteBytes(v) /\ Len(v.s) <= Base - 1
      BY <1>7, StringsWritten
    <2>2. t \in {65, 66, 67, 68}
      BY <1>7
    <2>3. StringCase(t, v, e, 1) \/ StringCase(t, v, e, 2)
      BY <1>1, <1>2, <2>2
    <2>4. 1 \in {1, 2} /\ 2 \in {1, 2}
      OBVIOUS
    <2> QED BY <2>1, <2>3, <2>4, StringKept, Zenon DEF e
  <1> QED BY <1>5, <1>6, <1>7

-----------------------------------------------------------------------------
(* The line: an inductive invariant.                                       *)

Sayable(m) == m \in Messages \/ \E r : Sane(r) /\ SaysOf(m, "report", r)

Silent   == msg = None => wire = <<>> /\ got = None /\ behind = 0 /\ faults = 0 /\ written = None
Speaking == msg # None => /\ Sayable(msg) /\ frame = frameBytes(msg)
                          /\ framing = "hdlc" => msg \in Indications
Pending  == behind = 1 /\ \E n \in Noise \cup {<<>>} : wire = n \o frame
Clean    == faults = 0 /\ msg # None =>
              got \in {None, Meant(msg)} /\ ((behind = 0 /\ wire = <<>>) \/ Pending)
Wrote    == written # None =>
              /\ faults = 0 /\ msg \notin Fragile
              /\ written.type # 56 => Meant(msg)[4][1][2] = LeftOf(written.type, written.v)
LineInv  == framing \in {"raw", "hdlc"} /\ faults \in Nat /\ Silent /\ Speaking /\ Clean /\ Wrote

LEMMA SayableGood == ASSUME NEW m, Sayable(m) PROVE Good(m)
  <1>1. CASE m \in Messages
    BY <1>1, MessagesAreUnderstood
  <1>2. CASE \E r : Sane(r) /\ SaysOf(m, "report", r)
    BY <1>2, ReportGood
  <1> QED BY <1>1, <1>2 DEF Sayable

\* An empty stream: both readers wait.
LEMMA NothingToRead ==
    ASSUME wire = <<>>
    PROVE  next = None
  <1>0. <<>> \in Seq(Byte) /\ Len(<<>>) = 0
    OBVIOUS
  <1>1. readRawZBOSSFrame(<<>>) = None
    <2>1. 1 \in 1 .. Len(<<>>) + 4 /\ 1 + 3 > Len(<<>>)
      BY <1>0
    <2>2. RawScan(<<>>)[1] = RawStep(<<>>, RawScan(<<>>), 1)
      BY <1>0, <2>1, RawScanSteps
    <2>3. RawStep(<<>>, RawScan(<<>>), 1) = None
      BY <2>1, Zenon DEF RawStep
    <2> QED BY <2>2, <2>3, RawReads
  <1>2. readHDLCFrame(<<>>) = None
    <2>1. 1 \in 1 .. Len(<<>>) + 1 /\ 0 \in 0 .. Len(<<>>) + 1 /\ 1 > Len(<<>>)
      BY <1>0
    <2>2. HdlcScan(<<>>)[<<1, 0>>] = HdlcStep(<<>>, HdlcScan(<<>>), <<1, 0>>)
      BY <1>0, <2>1, HdlcScanSteps
    <2>3. <<1, 0>>[1] = 1
      OBVIOUS
    <2>4. HdlcStep(<<>>, HdlcScan(<<>>), <<1, 0>>) = None
      BY <2>1, <2>3, Zenon DEF HdlcStep
    <2> QED BY <2>2, <2>4, HdlcReads
  <1> QED BY <1>1, <1>2, Zenon DEF next

LEMMA NoiseFacts ==
    ASSUME NEW n \in Noise \cup {<<>>}
    PROVE  /\ n \in Seq(Byte) /\ Len(n) <= 2
           /\ \A i \in 1 .. Len(n) - 1 : ~(n[i] = zbossSig0 /\ n[i + 1] = zbossSig1)
           /\ \A i \in 1 .. Len(n) : n[i] # hdlcFlag
  <1>1. n \in {<<>>, <<0>>, <<173>>, <<222>>, <<222, 222>>, <<0, 222>>, <<222, 0>>}
    BY DEF Noise
  <1>2. 0 \in Byte /\ 173 \in Byte /\ 222 \in Byte
    BY ByteFacts
  <1> USE DEF zbossSig0, zbossSig1, hdlcFlag
  <1>3. CASE n = <<>>
    BY <1>3
  <1>4. ASSUME NEW a \in {0, 173, 222}, n = <<a>>
        PROVE  /\ n \in Seq(Byte) /\ Len(n) = 1 /\ \A i \in 1 .. 1 : n[i] # 126
    BY <1>2, <1>4
  <1>5. ASSUME NEW a \in {0, 222}, NEW b \in {0, 222}, n = <<a, b>>
        PROVE  /\ n \in Seq(Byte) /\ Len(n) = 2 /\ n[2] # 173 /\ \A i \in 1 .. 2 : n[i] # 126
    BY <1>2, <1>5
  <1>6. n = <<>> \/ (\E a \in {0, 173, 222} : n = <<a>>) \/ (\E a, b \in {0, 222} : n = <<a, b>>)
    BY <1>1
  <1>7. CASE \E a \in {0, 173, 222} : n = <<a>>
    BY <1>4, <1>7
  <1>8. CASE \E a, b \in {0, 222} : n = <<a, b>>
    <2>1. n \in Seq(Byte) /\ Len(n) = 2 /\ n[2] # 173 /\ \A i \in 1 .. 2 : n[i] # 126
      BY <1>5, <1>8
    <2>2. \A i \in 1 .. Len(n) - 1 : i + 1 = 2
      BY <2>1
    <2> QED BY <2>1, <2>2
  <1> QED BY <1>3, <1>6, <1>7, <1>8

\* Undamaged bytes: the frame is read, noise or not, and understood.
LEMMA PendingIsRead ==
    ASSUME framing \in {"raw", "hdlc"}, Speaking, msg # None, NEW n \in Noise \cup {<<>>}, wire = n \o frame
    PROVE  /\ next # None /\ next.rest = <<>>
           /\ understand(next.frame) = Meant(msg) /\ Meant(msg) # None
  <1>1. Sayable(msg) /\ frame = frameBytes(msg) /\ (framing = "hdlc" => msg \in Indications)
    BY DEF Speaking
  <1>2. Good(msg)
    BY <1>1, SayableGood
  <1> DEFINE z == zbossBytes(msg)
  <1>3. Readable(z) /\ Meant(msg) \in Understood /\ \A raw : Unframed(raw) = z => understand(raw) = Meant(msg)
    BY <1>2 DEF Good
  <1>4. Meant(msg) # None
    BY <1>3, ResultAssumption
  <1>5. framing = "hdlc" => Len(z) <= 24
    BY <1>1, IndicationKind, IndicationGood
  <1>6. frame = IF framing = "hdlc" THEN hdlcEncode(z) ELSE z
    BY <1>1, Zenon DEF frameBytes
  <1> HIDE DEF z
  <1>7. z \in Seq(Byte)
    BY <1>3 DEF Readable
  <1>8. <<>> \in Seq(Byte)
    OBVIOUS
  <1>9. \E F \in Seq(Byte) : next = [frame |-> F, rest |-> <<>>] /\ Unframed(F) = z
    <2>1. CASE framing = "raw"
      <3>1. /\ Len(z) - 2 \in Nat /\ goodSize(Len(z) - 2) /\ Len(z) = 2 + (Len(z) - 2)
            /\ z[1] = zbossSig0 /\ z[2] = zbossSig1 /\ Uint16(z[3], z[4]) = Len(z) - 2
        BY <1>3, <1>7 DEF Readable
      <3>2. n \in Seq(Byte) /\ \A i \in 1 .. Len(n) - 1 : ~(n[i] = zbossSig0 /\ n[i + 1] = zbossSig1)
        BY NoiseFacts
      <3>3. readRawZBOSSFrame(n \o (z \o <<>>)) = [frame |-> z, rest |-> <<>>]
        BY <1>7, <1>8, <3>1, <3>2, FrameIsRead
      <3>4. z \o <<>> = z
        BY <1>7
      <3>5. wire = n \o z
        BY <1>6, <2>1
      <3>6. next = readRawZBOSSFrame(wire)
        BY <2>1 DEF next
      <3>7. next = [frame |-> z, rest |-> <<>>]
        BY <3>3, <3>4, <3>5, <3>6
      <3>8. Unframed(z) = z
        BY <2>1 DEF Unframed
      <3> QED BY <1>7, <3>7, <3>8
    <2>2. CASE framing = "hdlc"
      <3> DEFINE h == hdlcEncode(z)
      <3>1. 2 * (Len(z) + 2) <= maxHDLCFrameSize
        <4>1. Len(z) <= 24 /\ Len(z) \in Nat
          BY <1>5, <1>7, <2>2
        <4>2. maxHDLCFrameSize \in Nat /\ maxHDLCFrameSize >= Base + 64
          BY LineAssumption, SizeAssumption
        <4> QED BY <4>1, <4>2, DigitIsByte
      <3>2. n \in Seq(Byte) /\ \A i \in 1 .. Len(n) : n[i] # hdlcFlag
        BY NoiseFacts
      <3>3. PICK W \in Seq(Byte) : /\ readHDLCFrame(n \o (h \o <<>>)) = [frame |-> W, rest |-> <<>>]
                                   /\ hdlcDecode(W) = z
        BY <1>7, <1>8, <3>1, <3>2, HdlcRoundTrip
      <3>4. h \o <<>> = h
        <4>1. PICK X : IsHdlc(z, X)
          BY <1>7, HdlcFrame
        <4>2. X \in Seq(Byte) /\ h = <<hdlcFlag>> \o (X \o <<hdlcFlag>>)
          BY <4>1 DEF IsHdlc
        <4>3. <<hdlcFlag>> \in Seq(Byte)
          BY FlagIsByte
        <4>4. X \o <<hdlcFlag>> \in Seq(Byte)
          BY <4>2, <4>3, Parts
        <4>5. h \in Seq(Byte)
          BY <4>2, <4>3, <4>4, Parts
        <4> HIDE DEF h
        <4> QED BY <4>5
      <3>5. wire = n \o h
        BY <1>6, <2>2
      <3>6. next = readHDLCFrame(wire)
        BY <2>2 DEF next
      <3> HIDE DEF h
      <3>7. next = [frame |-> W, rest |-> <<>>]
        BY <3>3, <3>4, <3>5, <3>6
      <3>8. Unframed(W) = z
        BY <2>2, <3>3 DEF Unframed
      <3> QED BY <3>7, <3>8
    <2> QED BY <2>1, <2>2
  <1>10. PICK F \in Seq(Byte) : next = [frame |-> F, rest |-> <<>>] /\ Unframed(F) = z
    BY <1>9
  <1>11. [frame |-> F, rest |-> <<>>] \in Taken
    BY <1>8 DEF Taken
  <1>12. next # None /\ next.rest = <<>> /\ next.frame = F
    BY <1>10, <1>11, NoneAssumption
  <1> QED BY <1>3, <1>4, <1>10, <1>12

LEMMA LineInit == Init => LineInv
  <1> SUFFICES ASSUME Init PROVE LineInv
    OBVIOUS
  <1>1. /\ framing \in {"raw", "hdlc"} /\ msg = None /\ written = None /\ wire = <<>> /\ got = None
        /\ behind = 0 /\ faults = 0
    BY DEF Init
  <1> QED BY <1>1 DEF LineInv, Silent, Speaking, Clean, Wrote

LEMMA LineSpeaks ==
    ASSUME LineInv, NEW m, DeviceSpeaks(m), msg = None, m \in (IF framing = "hdlc" THEN Indications ELSE Messages)
    PROVE  LineInv'
  <1>1. msg' = m /\ frame' = frameBytes(m) /\ UNCHANGED <<framing, written, wire, got, behind, faults>>
    BY DEF DeviceSpeaks, Speak
  <1>2. framing \in {"raw", "hdlc"} /\ wire = <<>> /\ got = None /\ behind = 0 /\ faults = 0 /\ written = None
    BY DEF LineInv, Silent
  <1>3. frameBytes(m) = frameBytes(m)'
    BY <1>1 DEF frameBytes
  <1>4. Sayable(m) /\ (framing = "hdlc" => m \in Indications)
    BY DEF Sayable, Messages
  <1>5. Silent' /\ Clean' /\ Wrote'
    BY <1>1, <1>2 DEF Silent, Clean, Wrote
  <1>6. Speaking'
    <2>1. frameBytes(msg)' = frameBytes(m)
      BY <1>1 DEF frameBytes
    <2> QED BY <1>1, <1>4, <2>1 DEF Speaking
  <1> QED BY <1>1, <1>2, <1>5, <1>6 DEF LineInv

\* What a device reports after a write.
LEMMA WrittenSays ==
    ASSUME NEW t \in NumberTypes \cup Opaque \cup 65 .. 68, NEW v \in WriteValues(t), EncodeValue(t, v) # Err
    PROVE  LET r == deviceKeeps(requestBytes(t, v))
               m == Say("report", FALSE, <<r, Follower>>)
           IN  /\ Sane(r) /\ SaysOf(m, "report", r) /\ m.mfr = FALSE /\ m # None
               /\ t # 56 => Meant(m)[4][1][2] = LeftOf(t, v)
  <1> DEFINE e == EncodeValue(t, v)
             r == deviceKeeps(requestBytes(t, v))
             m == Say("report", FALSE, <<r, Follower>>)
  <1>1. Encoded(t, e) /\ Sane(kept(t, e)) /\ (t # 56 => recordMeans(kept(t, e)) = LeftOf(t, v))
    BY EncodedIsKept DEF Kept
  <1>2. r = kept(t, e)
    BY <1>1, DeviceKeeps
  <1>3. r \in [type : Byte, n : Int, s : Seq(Byte)]
    <2>1. t \in Byte /\ e \in Seq(Byte) /\ Len(e) >= 1
      BY <1>1 DEF Encoded, Delimited
    <2>2. kept(t, e).s \in Seq(Byte)
      <3>1. CASE t \in {65, 66, 67, 68}
        <4>1. Sane(kept(t, e)) /\ kept(t, e).type = t
          BY <1>1, KeptFields
        <4>2. SaneString(kept(t, e), 1) \/ SaneString(kept(t, e), 2)
          BY <3>1, <4>1, NotStrings DEF Sane, SaneNumber, SaneOpaque, NumberTypes, Opaque
        <4> QED BY <4>2, DigitIsByte DEF SaneString, StringFits
      <3>2. CASE t \notin {65, 66, 67, 68}
        <4>1. prefixOf(t) = 0
          BY <3>2, PrefixOf
        <4>2. kept(t, e).s = From(e, 0 + 1)
          BY <4>1, KeptFields
        <4>3. 0 + 1 \in 1 .. Len(e) + 1
          BY <2>1
        <4> QED BY <2>1, <4>2, <4>3, FromLen
      <3> QED BY <3>1, <3>2
    <2>3. kept(t, e).n \in Int
      <3>1. Number(e) \in Int
        <4>1. e \in Seq(Nat)
          BY <2>1, ByteFacts
        <4>2. PICK N : IsNumber(N, e) /\ Number(e) = N[1]
          BY <4>1, NumberOfNats
        <4>3. N \in [1 .. Len(e) + 1 -> Nat]
          BY <4>2, Zenon DEF IsNumber
        <4> QED BY <2>1, <4>2, <4>3
      <3>2. Pow(Len(e)) \in Int
        BY <2>1, NumberOfDigits
      <3>3. Signed(e) \in Int
        BY <3>1, <3>2 DEF Signed
      <3> QED BY <3>1, <3>3, KeptFields
    <2> HIDE DEF e, r
    <2>4. kept(t, e) = [type |-> t, s |-> kept(t, e).s, n |-> kept(t, e).n]
      BY DEF kept
    <2> DEFINE x == kept(t, e).s
               y == kept(t, e).n
    <2>5. r = [type |-> t, s |-> x, n |-> y] /\ x \in Seq(Byte) /\ y \in Int
      BY <1>2, <2>2, <2>3, <2>4
    <2> HIDE DEF x, y
    <2> QED BY <2>1, <2>5
  <1> HIDE DEF r
  <1>4. Sane(r)
    BY <1>1, <1>2
  <1>5. SaysOf(m, "report", r) /\ m.mfr = FALSE
    <2>1. m.mfr = FALSE
      BY DEF Say
    <2>2. SaysOf(m, "report", r)
      BY SaysFollower
    <2> QED BY <2>1, <2>2
  <1>6. m # None
    <2>1. Follower \in [type : Byte, n : Int, s : Seq(Byte)]
      <3>1. 32 \in Byte /\ 1 \in Byte
        BY ByteFacts
      <3> QED BY <3>1 DEF Follower
    <2>2. <<r, Follower>> \in Seq([type : Byte, n : Int, s : Seq(Byte)])
      BY <1>3, <2>1
    <2>3. m \in Attributes
      BY <2>2 DEF Say, Attributes
    <2> QED BY <2>3, ResultAssumption
  <1>7. t # 56 => Meant(m)[4][1][2] = LeftOf(t, v)
    <2>1. m.kind = "report" /\ m.recs[1] = r
      BY <1>5 DEF SaysOf
    <2> HIDE DEF m
    <2>2. Meant(m) = <<"report", Short, 3, [i \in 1 .. 2 |-> <<Attr(i), recordMeans(m.recs[i])>>]>>
      BY <2>1, MeantCases DEF MeantReport
    <2>3. Meant(m)[4] = [i \in 1 .. 2 |-> <<Attr(i), recordMeans(m.recs[i])>>]
      BY <2>2
    <2>4. Meant(m)[4][1] = <<Attr(1), recordMeans(m.recs[1])>>
      BY <2>3
    <2>5. Meant(m)[4][1][2] = recordMeans(r)
      BY <2>1, <2>4
    <2> QED BY <1>1, <1>2, <2>5
  <1> QED BY <1>4, <1>5, <1>6, <1>7 DEF r

LEMMA NotFragile ==
    ASSUME NEW m, m.kind = "report", m.mfr = FALSE
    PROVE  m \notin Fragile
  <1>1. m \notin Indications
    BY IndicationKind DEF IndicationKinds
  <1>2. m # Say("report", TRUE, <<Follower, Follower>>)
    BY DEF Say
  <1> QED BY <1>1, <1>2 DEF Fragile

LEMMA LineWrites ==
    ASSUME LineInv, msg = None, framing = "raw", NEW t \in NumberTypes \cup Opaque \cup 65 .. 68,
           NEW v \in WriteValues(t), WriteAttribute(t, v)
    PROVE  LineInv'
  <1> DEFINE r == deviceKeeps(requestBytes(t, v))
             m == Say("report", FALSE, <<r, Follower>>)
             w == [type |-> t, v |-> v]
  <1>1. /\ EncodeValue(t, v) # Err /\ msg' = m /\ frame' = frameBytes(m) /\ written' = w
        /\ UNCHANGED <<framing, wire, got, behind, faults>>
    BY DEF WriteAttribute, Speak
  <1>2. wire = <<>> /\ got = None /\ behind = 0 /\ faults = 0
    BY DEF LineInv, Silent
  <1>3. /\ Sane(r) /\ SaysOf(m, "report", r) /\ m.mfr = FALSE /\ m # None
        /\ t # 56 => Meant(m)[4][1][2] = LeftOf(t, v)
    BY <1>1, WrittenSays
  <1>4. w.type = t /\ w.v = v
    OBVIOUS
  <1> HIDE DEF m, w, r
  <1>5. Sayable(m)
    BY <1>3 DEF Sayable
  <1>6. m \notin Fragile
    BY <1>3, NotFragile DEF SaysOf
  <1>7. Silent' /\ Clean'
    BY <1>1, <1>2, <1>3 DEF Silent, Clean
  <1>8. Speaking'
    <2>1. frameBytes(msg)' = frameBytes(m)
      BY <1>1 DEF frameBytes
    <2> QED BY <1>1, <1>5, <2>1 DEF Speaking
  <1>9. Wrote'
    <2>1. msg' = m /\ written' = w /\ faults' = 0
      BY <1>1, <1>2
    <2>2. Meant(msg)' = Meant(m)
      BY <2>1
    <2> QED BY <1>3, <1>4, <1>6, <2>1, <2>2 DEF Wrote
  <1> QED BY <1>1, <1>2, <1>7, <1>8, <1>9 DEF LineInv

\* Without damage the reader waits only for an empty line.
LEMMA WaitsForNothing ==
    ASSUME LineInv, faults = 0, next = None
    PROVE  behind = 0 /\ wire = <<>>
  <1>1. CASE msg = None
    BY <1>1 DEF LineInv, Silent
  <1>2. CASE msg # None
    <2>1. framing \in {"raw", "hdlc"} /\ Speaking /\ ((behind = 0 /\ wire = <<>>) \/ Pending)
      BY <1>2 DEF LineInv, Clean
    <2>2. ~Pending
      <3>1. SUFFICES ASSUME NEW n \in Noise \cup {<<>>}, wire = n \o frame PROVE FALSE
        BY DEF Pending
      <3> QED BY <1>2, <2>1, <3>1, PendingIsRead
    <2> QED BY <2>1, <2>2
  <1> QED BY <1>1, <1>2

LEMMA LineSends ==
    ASSUME LineInv, Send
    PROVE  LineInv'
  <1>1. msg # None /\ next = None /\ UNCHANGED <<framing, msg, frame, written, got>>
    BY DEF Send
  <1>2. framing \in {"raw", "hdlc"} /\ faults \in Nat /\ Speaking /\ Clean /\ Wrote
    BY DEF LineInv
  <1>3. faults' \in Nat /\ (faults' = 0 => faults = 0)
    <2>1. faults' = faults \/ faults' = faults + 1
      BY DEF Send
    <2> QED BY <1>2, <2>1
  <1>4. Silent'
    BY <1>1 DEF Silent
  <1>5. Speaking'
    <2>1. frameBytes(msg)' = frameBytes(msg)
      BY <1>1 DEF frameBytes
    <2>2. Sayable(msg) /\ frame = frameBytes(msg) /\ (framing = "hdlc" => msg \in Indications)
      BY <1>1, <1>2 DEF Speaking
    <2> QED BY <1>1, <2>1, <2>2 DEF Speaking
  <1>6. Clean'
    <2>1. SUFFICES ASSUME faults' = 0 PROVE got' \in {None, Meant(msg)'} /\ Pending'
      BY DEF Clean
    <2>2. faults = 0 /\ wire = <<>> /\ behind = 0
      BY <1>1, <1>3, <2>1, WaitsForNothing
    <2>3. Meant(msg)' = Meant(msg)
      BY <1>1
    <2>4. got \in {None, Meant(msg)}
      BY <1>1, <1>2, <2>2 DEF Clean
    <2> DEFINE On(x) == wire' = (wire \o x) \o frame \/ (wire' = wire \o frame /\ x = <<>>)
    <2>5. behind' = 1 /\ \E n \in Noise \cup {<<>>} : On(n)
      <3>1. CASE wire' = wire \o frame /\ behind' = behind + 1
        BY <2>2, <3>1
      <3>2. CASE (\E n \in Noise : wire' = wire \o n \o frame) /\ behind' = behind + 1
        <4>1. PICK n \in Noise : wire' = (wire \o n) \o frame
          BY <3>2, Zenon
        <4>2. behind' = 1
          BY <2>2, <3>2
        <4>3. n \in Noise \cup {<<>>}
          OBVIOUS
        <4>4. On(n)
          BY <4>1
        <4> HIDE DEF On
        <4> QED BY <4>2, <4>3, <4>4
      <3>3. CASE faults' = faults + 1
        BY <2>1, <2>2, <3>3
      <3> QED BY <3>1, <3>2, <3>3 DEF Send
    <2>6. PICK n \in Noise \cup {<<>>} : On(n)
      BY <2>5
    <2>7. n \in Seq(Byte)
      BY NoiseFacts
    <2>8. <<>> \o n = n
      BY <2>7
    <2>9. wire' = n \o frame'
      BY <1>1, <2>2, <2>6, <2>8
    <2> QED BY <1>1, <2>3, <2>4, <2>5, <2>9 DEF Pending
  <1>7. Wrote'
    <2>1. SUFFICES ASSUME written # None PROVE Wrote'
      BY <1>1 DEF Wrote
    <2>2. /\ faults = 0 /\ msg \notin Fragile
          /\ written.type # 56 => Meant(msg)[4][1][2] = LeftOf(written.type, written.v)
      BY <1>2, <2>1 DEF Wrote
    <2>3. faults' = faults
      BY <2>2 DEF Send
    <2>4. Meant(msg)' = Meant(msg)
      BY <1>1
    <2> QED BY <1>1, <2>2, <2>3, <2>4 DEF Wrote
  <1> QED BY <1>1, <1>2, <1>3, <1>4, <1>5, <1>6, <1>7 DEF LineInv

LEMMA LineReads ==
    ASSUME LineInv, ReadFrame
    PROVE  LineInv'
  <1>1. /\ next # None /\ wire' = next.rest
        /\ got' = IF understand(next.frame) = None THEN got ELSE understand(next.frame)
        /\ behind' = IF understand(next.frame) = None THEN behind ELSE 0
        /\ UNCHANGED <<framing, msg, frame, written, faults>>
    BY DEF ReadFrame
  <1>2. framing \in {"raw", "hdlc"} /\ faults \in Nat /\ Silent /\ Speaking /\ Clean /\ Wrote
    BY DEF LineInv
  <1>3. wire # <<>>
    BY <1>1, NothingToRead
  <1>4. msg # None
    BY <1>2, <1>3 DEF Silent
  <1>5. Silent'
    BY <1>1, <1>4 DEF Silent
  <1>6. Speaking'
    <2>1. frameBytes(msg)' = frameBytes(msg)
      BY <1>1 DEF frameBytes
    <2>2. Sayable(msg) /\ frame = frameBytes(msg) /\ (framing = "hdlc" => msg \in Indications)
      BY <1>2, <1>4 DEF Speaking
    <2> QED BY <1>1, <2>1, <2>2 DEF Speaking
  <1>7. Clean'
    <2>1. SUFFICES ASSUME faults = 0 PROVE Clean'
      BY <1>1 DEF Clean
    <2>2. Pending
      BY <1>2, <1>3, <1>4, <2>1 DEF Clean
    <2>3. PICK n \in Noise \cup {<<>>} : wire = n \o frame
      BY <2>2 DEF Pending
    <2>4. next.rest = <<>> /\ understand(next.frame) = Meant(msg) /\ Meant(msg) # None
      BY <1>2, <1>4, <2>3, PendingIsRead
    <2>5. wire' = <<>> /\ got' = Meant(msg) /\ behind' = 0
      BY <1>1, <2>4
    <2>6. Meant(msg)' = Meant(msg)
      BY <1>1
    <2> QED BY <2>5, <2>6 DEF Clean
  <1>8. Wrote'
    <2>1. Meant(msg)' = Meant(msg)
      BY <1>1
    <2> QED BY <1>1, <1>2, <2>1 DEF Wrote
  <1> QED BY <1>1, <1>2, <1>5, <1>6, <1>7, <1>8 DEF LineInv

LEMMA LineNext == LineInv /\ [Next]_vars => LineInv'
  <1> SUFFICES ASSUME LineInv, [Next]_vars PROVE LineInv'
    OBVIOUS
  <1>1. CASE msg = None /\ \E m \in (IF framing = "hdlc" THEN Indications ELSE Messages) : DeviceSpeaks(m)
    BY <1>1, LineSpeaks
  <1>2. CASE /\ msg = None /\ framing = "raw"
             /\ \E t \in NumberTypes \cup Opaque \cup 65 .. 68 : \E v \in WriteValues(t) : WriteAttribute(t, v)
    BY <1>2, LineWrites
  <1>3. CASE Send
    BY <1>3, LineSends
  <1>4. CASE ReadFrame
    BY <1>4, LineReads
  <1>5. CASE UNCHANGED vars
    <2>1. /\ framing' = framing /\ msg' = msg /\ frame' = frame /\ written' = written /\ wire' = wire
          /\ got' = got /\ behind' = behind /\ faults' = faults
      BY <1>5 DEF vars
    <2>2. Meant(msg)' = Meant(msg) /\ frameBytes(msg)' = frameBytes(msg)
      BY <2>1 DEF frameBytes
    <2>3. Silent' /\ Wrote'
      BY <2>1, <2>2 DEF LineInv, Silent, Wrote
    <2>4. Speaking' /\ Clean'
      BY <2>1, <2>2 DEF LineInv, Speaking, Clean, Pending
    <2> QED BY <2>1, <2>3, <2>4 DEF LineInv
  <1> QED BY <1>1, <1>2, <1>3, <1>4, <1>5 DEF Next

\* The state of the line, for every base of the digits, every frame limit that holds the
\* longest message and any number of faults: until the first damaged frame what
\* is on it is nothing, or one frame that the host has still to read.
THEOREM LineIsInvariant == Spec => []LineInv
  <1>1. Init => LineInv
    BY LineInit
  <1>2. LineInv /\ [Next]_vars => LineInv'
    BY LineNext
  <1> QED BY <1>1, <1>2, PTL DEF Spec

\* NoNeedlessLoss: while no frame was damaged, readRawZBOSSFrame or
\* readHDLCFrame blocks only when all that was sent has been read, behind noise
\* in which no 0xDE is followed by a 0xAD.
THEOREM NothingIsLost == Spec => []NoNeedlessLoss
  <1>1. LineInv => NoNeedlessLoss
    BY WaitsForNothing DEF NoNeedlessLoss
  <1> QED BY <1>1, LineIsInvariant, PTL

\* WrittenIsReported: what EncodeValue made of a value it accepted goes through
\* zclBuildWriteAttributes, buildAPSDEDataReq, zbossEncodeRequest, the device,
\* its report, readLoop, the record parser and DecodeValue.  A whole number comes
\* back as it is, of a fraction the integer types keep the whole part, and the
\* float types the nearest float.
THEOREM WritesComeBack == Spec => []WrittenIsReported
  <1>1. LineInv => WrittenIsReported
    <2> SUFFICES ASSUME LineInv, written # None, got # None, written.type # 56
                 PROVE  got[4][1][2] = LeftOf(written.type, written.v)
      BY DEF WrittenIsReported, TypeFloat16
    <2>1. msg # None
      BY DEF LineInv, Silent
    <2>2. faults = 0 /\ Meant(msg)[4][1][2] = LeftOf(written.type, written.v)
      BY DEF LineInv, Wrote
    <2>3. got = Meant(msg)
      BY <2>1, <2>2 DEF LineInv, Clean
    <2> QED BY <2>2, <2>3
  <1> QED BY <1>1, LineIsInvariant, PTL

\* UnderstoodIsSaid as far as it does not rest on the checksums: while no frame
\* was damaged, what the host understands is what the device said.
THEOREM CleanIsUnderstood == Spec => [](faults = 0 => UnderstoodIsSaid)
  <1>1. LineInv => (faults = 0 => UnderstoodIsSaid)
    <2> SUFFICES ASSUME LineInv, faults = 0 PROVE UnderstoodIsSaid
      OBVIOUS
    <2>1. CASE msg = None
      BY <2>1 DEF LineInv, Silent, UnderstoodIsSaid
    <2>2. CASE msg # None
      BY <2>2 DEF LineInv, Clean, UnderstoodIsSaid
    <2> QED BY <2>1, <2>2
  <1> QED BY <1>1, LineIsInvariant, PTL
=============================================================================
