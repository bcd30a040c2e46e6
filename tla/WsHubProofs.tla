---------------------------- MODULE WsHubProofs ----------------------------
(***************************************************************************)
(* Proofs about WsHub, for any number of connections, any limits and any   *)
(* number of events.                                                       *)
(***************************************************************************)
EXTENDS WsHub, FiniteSetTheorems, SequenceTheorems, TLAPS

\* A connection the hub has not taken yet is not a client and its channel is
\* open: this is why rejecting it is the first close of its channel.
ChannelInv ==
    \A c \in Client :
        /\ closes[c] <= 1
        /\ c \in clients => closes[c] = 0
        /\ handler[c] \in {"new", "register"} => c \notin clients /\ closes[c] = 0

IInv == TypeOK /\ IsFiniteSet(clients) /\ ChannelInv

\* A client has been given all it is to get, and nothing waits for a
\* connection the hub has not taken yet: this is why it starts without a gap.
GapInv ==
    \A c \in Client :
        /\ handler[c] \in {"new", "register"} => send[c] = <<>> /\ got[c] = <<>>
        /\ c \in clients => /\ from[c] <= Len(log)
                            /\ got[c] \o send[c] = SubSeq(log, from[c] + 1, Len(log))

-----------------------------------------------------------------------------
\* What taking a message from a queue and appending one yields.
LEMMA QueueFacts ==
    ASSUME NEW s \in Seq(Message), NEW x \in Message
    PROVE  /\ Append(s, x) \in Seq(Message)
           /\ Len(Append(s, x)) = Len(s) + 1
           /\ s # <<>> => /\ Head(s) \in Message
                          /\ Tail(s) \in Seq(Message)
                          /\ Len(Tail(s)) = Len(s) - 1
           /\ Len(s) \in Nat
  BY AppendProperties, HeadTailProperties, EmptySeq

LEMMA InitInv == Init => IInv
  <1> SUFFICES ASSUME Init PROVE IInv
    OBVIOUS
  <1>1. <<>> \in Seq(Message) /\ Len(<<>>) = 0
    BY EmptySeq
  <1>2. IsFiniteSet({}) /\ Cardinality({}) = 0
    BY FS_EmptySet
  <1>3. 0 <= MaxClients /\ 0 <= BroadcastCap
    BY CapAssumption
  <1>4. 0 \in 0 .. MaxEvents
    BY EventsAssumption
  <1>5. TypeOK
    BY <1>1, <1>2, <1>3, <1>4 DEF Init, TypeOK
  <1>6. ChannelInv
    BY DEF Init, ChannelInv
  <1> QED BY <1>2, <1>5, <1>6 DEF Init, IInv

\* HubDone.
LEMMA HubDoneInv == IInv /\ HubDone => IInv'
  <1> SUFFICES ASSUME IInv, HubDone PROVE IInv'
    OBVIOUS
  <1> USE DEF IInv
  <1>1. TypeOK'
    BY FS_EmptySet, CapAssumption DEF TypeOK, HubDone, Close, pumpVars, historyVars
  <1>2. IsFiniteSet(clients)'
    BY FS_EmptySet DEF HubDone
  <1>3. ChannelInv'
    BY DEF TypeOK, ChannelInv, HubDone, Close, pumpVars
  <1> QED BY <1>1, <1>2, <1>3

LEMMA HubRegisterInv == ASSUME NEW c \in Client PROVE IInv /\ HubRegister(c) => IInv'
  <1> SUFFICES ASSUME IInv, HubRegister(c) PROVE IInv'
    OBVIOUS
  <1> USE DEF IInv
  <1>0. Cardinality(clients) \in Nat
    BY FS_CardinalityType
  <1>1. CASE Cardinality(clients) >= MaxClients
    <2>1. TypeOK'
      <3>0. closes' = [d \in Client |-> IF d \in {c} THEN closes[d] + 1 ELSE closes[d]]
        BY <1>1 DEF HubRegister, Close
      <3>1. closes' \in [Client -> Nat]
        BY <3>0 DEF TypeOK
      <3>2. UNCHANGED <<clients, broadcast, done, send, writer, stop, events, log, from, got>>
        BY <1>1 DEF HubRegister
      <3>3. /\ hub' = "rejecting"
            /\ handler' = [handler EXCEPT ![c] = "start"]
            /\ conn' = [conn EXCEPT ![c] = "closed"]
        BY <1>1 DEF HubRegister, HandlerGoto
      <3> QED BY <3>1, <3>2, <3>3 DEF TypeOK
    <2>2. IsFiniteSet(clients)'
      BY <1>1 DEF HubRegister
    <2>3. ChannelInv'
      BY <1>1 DEF TypeOK, ChannelInv, HubRegister, HandlerGoto, Close
    <2> QED BY <2>1, <2>2, <2>3
  <1>2. CASE ~(Cardinality(clients) >= MaxClients)
    <2>1. clients' = clients \cup {c}
      BY <1>2 DEF HubRegister
    <2>2. IsFiniteSet(clients') /\ Cardinality(clients') <= Cardinality(clients) + 1
      BY <2>1, <1>0, FS_AddElement
    <2>3. Cardinality(clients') <= MaxClients
      BY <2>2, <1>0, <1>2, CapAssumption, FS_CardinalityType
    <2>4. Len(log) \in Nat
      BY LenProperties DEF TypeOK
    <2>5. TypeOK'
      BY <1>2, <2>1, <2>3, <2>4 DEF TypeOK, HubRegister, HandlerGoto
    <2>6. ChannelInv'
      BY <1>2, <2>1 DEF TypeOK, ChannelInv, HubRegister, HandlerGoto
    <2> QED BY <2>2, <2>5, <2>6
  <1> QED BY <1>1, <1>2

LEMMA HubUnregisterInv == ASSUME NEW c \in Client PROVE IInv /\ HubUnregister(c) => IInv'
  <1> SUFFICES ASSUME IInv, HubUnregister(c) PROVE IInv'
    OBVIOUS
  <1> USE DEF IInv
  <1>1. clients' \subseteq clients /\ clients' = clients \ {c}
    BY DEF HubUnregister
  <1>2. IsFiniteSet(clients') /\ Cardinality(clients') <= Cardinality(clients)
    BY <1>1, FS_Subset
  <1>3. Cardinality(clients') <= MaxClients
    BY <1>2, CapAssumption, FS_CardinalityType DEF TypeOK
  <1>4. TypeOK'
    BY <1>1, <1>3 DEF TypeOK, HubUnregister, HandlerGoto, Close, historyVars
  <1>5. ChannelInv'
    BY DEF TypeOK, ChannelInv, HubUnregister, HandlerGoto, Close
  <1> QED BY <1>2, <1>4, <1>5

LEMMA HubBroadcastInv == IInv /\ HubBroadcast => IInv'
  <1> SUFFICES ASSUME IInv, HubBroadcast PROVE IInv'
    OBVIOUS
  <1> USE DEF IInv
  <1> DEFINE slow == {c \in clients : Len(send[c]) >= SendCap}
  <1>1. clients' = clients \ slow /\ slow \subseteq clients /\ clients' \subseteq clients
    BY DEF HubBroadcast
  <1>2. IsFiniteSet(clients') /\ Cardinality(clients') <= Cardinality(clients)
    BY <1>1, FS_Subset
  <1>3. Cardinality(clients') <= MaxClients
    BY <1>2, CapAssumption, FS_CardinalityType DEF TypeOK
  <1>4. broadcast' \in Seq(Message) /\ Len(broadcast') <= BroadcastCap /\ Head(broadcast) \in Message
    BY QueueFacts, CapAssumption DEF TypeOK, HubBroadcast
  <1>5. log' \in Seq(Message)
    BY <1>4, QueueFacts DEF TypeOK, HubBroadcast
  <1>6. send' \in [Client -> Seq(Message)]
    BY <1>4, QueueFacts DEF TypeOK, HubBroadcast
  <1>7. closes' \in [Client -> Nat]
    BY DEF TypeOK, HubBroadcast, Close
  <1>8. TypeOK'
    BY <1>1, <1>3, <1>4, <1>5, <1>6, <1>7 DEF TypeOK, HubBroadcast, pumpVars
  <1>9. closes' = [c \in Client |-> IF c \in slow THEN closes[c] + 1 ELSE closes[c]]
    BY DEF HubBroadcast, Close
  <1>10. ChannelInv'
    BY <1>1, <1>9 DEF TypeOK, ChannelInv, HubBroadcast, pumpVars
  <1> QED BY <1>2, <1>8, <1>10

\* The steps that neither close a channel nor change the set of clients, and
\* leave no handler before its registration that was past it.
LEMMA QuietInv ==
    ASSUME IInv, TypeOK', UNCHANGED <<clients, closes>>,
           \A c \in Client : handler'[c] \in {"new", "register"} => handler[c] \in {"new", "register"}
    PROVE  IInv'
  BY DEF IInv, ChannelInv

LEMMA ConnectionInv ==
    ASSUME NEW c \in Client,
           IInv, handleWS(c) \/ HandlerStep(c) \/ PeerCloses(c) \/ WriterStep(c)
    PROVE  IInv'
  <1> USE DEF IInv
  <1>1. CASE handleWS(c) \/ HandlerStep(c) \/ PeerCloses(c)
    <2>1. TypeOK'
      BY <1>1 DEF TypeOK, handleWS, HandlerStep, RegisterShutdown, StartPumps, ReadFails,
                  UnregisterShutdown, PeerCloses, HandlerGoto, connRest
    <2>2. UNCHANGED <<clients, closes>>
      BY <1>1 DEF handleWS, HandlerStep, RegisterShutdown, StartPumps, ReadFails,
                  UnregisterShutdown, PeerCloses, connRest
    <2>3. ASSUME NEW d \in Client, handler'[d] \in {"new", "register"}
          PROVE  handler[d] \in {"new", "register"}
      BY <1>1, <2>3 DEF TypeOK, handleWS, HandlerStep, RegisterShutdown, StartPumps, ReadFails,
                  UnregisterShutdown, PeerCloses, HandlerGoto
    <2> QED BY <2>1, <2>2, <2>3, QuietInv
  <1>2. CASE WriterStep(c)
    <2>1. UNCHANGED <<clients, closes, handler>>
      BY <1>2 DEF WriterStep, WriterTakes, WriterWrites, WriterEnds, connRest
    <2>2. CASE WriterTakes(c)
      <3>1. Head(send[c]) \in Message /\ Tail(send[c]) \in Seq(Message)
        BY <2>2, HeadTailProperties DEF TypeOK, WriterTakes
      <3>2. Append(got[c], Head(send[c])) \in Seq(Message)
        BY <3>1, AppendProperties DEF TypeOK
      <3> QED BY <2>1, <2>2, <3>1, <3>2, QuietInv DEF TypeOK, WriterTakes, connRest
    <2>3. CASE WriterWrites(c) \/ WriterEnds(c)
      <3>1. TypeOK'
        BY <2>3 DEF TypeOK, WriterWrites, WriterEnds, connRest
      <3> QED BY <3>1, <2>1, QuietInv
    <2> QED BY <1>2, <2>2, <2>3 DEF WriterStep
  <1> QED BY <1>1, <1>2

LEMMA BroadcastInv == IInv /\ Broadcast => IInv'
  <1> SUFFICES ASSUME IInv, Broadcast PROVE IInv'
    OBVIOUS
  <1> USE DEF IInv
  <1>1. events' \in 0 .. MaxEvents /\ events + 1 \in Message
    BY EventsAssumption DEF TypeOK, Broadcast, Message
  <1>2. broadcast' \in Seq(Message) /\ Len(broadcast') <= BroadcastCap
    BY <1>1, QueueFacts, CapAssumption DEF TypeOK, Broadcast
  <1>3. TypeOK'
    BY <1>1, <1>2 DEF TypeOK, Broadcast, clientVars, pumpVars, historyVars
  <1> QED BY <1>3, QuietInv DEF Broadcast, clientVars, pumpVars

LEMMA OtherInv ==
    IInv /\ (HubRejected \/ HubMarshalFails \/ Stop \/ StopReturns \/ UNCHANGED vars) => IInv'
  <1> SUFFICES ASSUME IInv, HubRejected \/ HubMarshalFails \/ Stop \/ StopReturns \/ UNCHANGED vars
               PROVE  IInv'
    OBVIOUS
  <1> USE DEF IInv
  <1>1. CASE HubMarshalFails
    <2>1. broadcast' \in Seq(Message) /\ Len(broadcast') <= BroadcastCap
      BY <1>1, QueueFacts, HeadTailProperties, CapAssumption DEF TypeOK, HubMarshalFails
    <2>2. TypeOK'
      BY <1>1, <2>1 DEF TypeOK, HubMarshalFails, clientVars, pumpVars, historyVars
    <2> QED BY <1>1, <2>2, QuietInv DEF HubMarshalFails, clientVars, pumpVars
  <1>2. CASE HubRejected \/ Stop \/ StopReturns \/ UNCHANGED vars
    <2>1. TypeOK'
      BY <1>2 DEF TypeOK, HubRejected, Stop, StopReturns, vars, clientVars, pumpVars, historyVars
    <2>2. UNCHANGED <<clients, closes, handler>>
      BY <1>2 DEF HubRejected, Stop, StopReturns, vars, clientVars, pumpVars
    <2> QED BY <2>1, <2>2, QuietInv
  <1> QED BY <1>1, <1>2

LEMMA NextInv == IInv /\ [Next]_vars => IInv'
  BY HubDoneInv, HubRegisterInv, HubUnregisterInv, HubBroadcastInv, ConnectionInv, BroadcastInv,
     OtherInv DEF Next, Hub

LEMMA Invariance == Spec => []IInv
  BY InitInv, NextInv, PTL DEF Spec

\* The type invariant of the hub: never more clients than MaxClients
\* (handlers_ws.go:63), never more messages waiting than the channel holds.
THEOREM TypeCorrect == Spec => []TypeOK
  BY Invariance, PTL DEF IInv

\* However rejection, unregistering, eviction and shutdown interleave, a
\* client's channel is closed at most once and never while it is registered.
THEOREM ChannelsSafe == Spec => []NoChannelPanic
  <1>1. IInv => NoChannelPanic
    BY DEF IInv, ChannelInv, NoChannelPanic
  <1> QED BY <1>1, Invariance, PTL

-----------------------------------------------------------------------------
(* Order and completeness of what a client is given.                       *)

\* What a client has and has yet to take does not change when it takes the next.
LEMMA TakeKeepsOrder ==
    ASSUME NEW S, NEW g \in Seq(S), NEW s \in Seq(S), s # <<>>
    PROVE  Append(g, Head(s)) \o Tail(s) = g \o s
  <1> DEFINE l == Append(g, Head(s)) \o Tail(s)
             r == g \o s
  <1>1. /\ Head(s) \in S /\ Tail(s) \in Seq(S) /\ Len(Tail(s)) = Len(s) - 1 /\ Head(s) = s[1]
        /\ \A i \in 1 .. Len(s) - 1 : Tail(s)[i] = s[i + 1]
        /\ Len(s) \in Nat \ {0} /\ Len(g) \in Nat
    BY HeadTailProperties, EmptySeq
  <1>2. /\ Append(g, Head(s)) \in Seq(S) /\ Len(Append(g, Head(s))) = Len(g) + 1
        /\ \A i \in 1 .. Len(g) : Append(g, Head(s))[i] = g[i]
        /\ Append(g, Head(s))[Len(g) + 1] = Head(s)
    BY <1>1, AppendProperties
  <1>3. l \in Seq(S) /\ r \in Seq(S) /\ Len(l) = Len(g) + Len(s) /\ Len(r) = Len(g) + Len(s)
    BY <1>1, <1>2, ConcatProperties
  <1>4. ASSUME NEW i \in 1 .. Len(l) PROVE l[i] = r[i]
    <2>1. CASE i <= Len(g)
      BY <2>1, <1>1, <1>2, <1>3, ConcatProperties
    <2>2. CASE i = Len(g) + 1
      BY <2>2, <1>1, <1>2, <1>3, ConcatProperties
    <2>3. CASE i > Len(g) + 1
      BY <2>3, <1>1, <1>2, <1>3, ConcatProperties
    <2> QED BY <2>1, <2>2, <2>3, <1>1, <1>3
  <1> QED BY <1>3, <1>4, SeqEqual

\* The messages of a log after the first n.
After(l, n) == SubSeq(l, n + 1, Len(l))

\* What SubSeq says of them.
LEMMA SuffixProperties ==
    ASSUME NEW S, NEW t \in Seq(S), NEW n \in Nat, n <= Len(t)
    PROVE  /\ SubSeq(t, n + 1, Len(t)) \in Seq(S)
           /\ Len(SubSeq(t, n + 1, Len(t))) = Len(t) - n
           /\ \A i \in 1 .. Len(t) - n : SubSeq(t, n + 1, Len(t))[i] = t[n + i]
  BY SubSeqProperties

\* A message appended to the log and to what a client is to get.
LEMMA AppendKeepsSuffix ==
    ASSUME NEW g \in Seq(Message), NEW s \in Seq(Message), NEW l \in Seq(Message),
           NEW m \in Message, NEW n \in Nat, n <= Len(l), g \o s = After(l, n)
    PROVE  g \o Append(s, m) = After(Append(l, m), n)
  <1> USE DEF After
  <1> DEFINE a == g \o Append(s, m)
             b == SubSeq(Append(l, m), n + 1, Len(Append(l, m)))
  <1>1. /\ Append(s, m) \in Seq(Message) /\ Len(Append(s, m)) = Len(s) + 1
        /\ \A i \in 1 .. Len(s) : Append(s, m)[i] = s[i]
        /\ Append(s, m)[Len(s) + 1] = m
        /\ Append(l, m) \in Seq(Message) /\ Len(Append(l, m)) = Len(l) + 1
        /\ \A i \in 1 .. Len(l) : Append(l, m)[i] = l[i]
        /\ Append(l, m)[Len(l) + 1] = m
        /\ Len(s) \in Nat /\ Len(l) \in Nat /\ Len(g) \in Nat
    BY AppendProperties
  <1>2. /\ g \o s \in Seq(Message) /\ Len(g \o s) = Len(g) + Len(s)
        /\ \A i \in 1 .. Len(g) + Len(s) : (g \o s)[i] = IF i <= Len(g) THEN g[i] ELSE s[i - Len(g)]
    BY ConcatProperties
  <1>3. /\ a \in Seq(Message) /\ Len(a) = Len(g) + Len(s) + 1
        /\ \A i \in 1 .. Len(g) + Len(s) + 1 :
               a[i] = IF i <= Len(g) THEN g[i] ELSE Append(s, m)[i - Len(g)]
    <2>1. Len(g) + Len(Append(s, m)) = Len(g) + Len(s) + 1
      BY <1>1
    <2> QED BY <1>1, <2>1, ConcatProperties
  <1>4. /\ Len(g \o s) = Len(l) - n
        /\ \A i \in 1 .. Len(l) - n : (g \o s)[i] = l[n + i]
    BY SuffixProperties
  <1>5. /\ b \in Seq(Message) /\ Len(b) = Len(l) + 1 - n
        /\ \A i \in 1 .. Len(l) + 1 - n : b[i] = Append(l, m)[n + i]
    <2>1. PICK t \in Seq(Message) : t = Append(l, m)
      BY <1>1
    <2>2. Len(t) = Len(l) + 1 /\ n <= Len(t)
      BY <1>1, <2>1
    <2>3. /\ SubSeq(t, n + 1, Len(t)) \in Seq(Message)
          /\ Len(SubSeq(t, n + 1, Len(t))) = Len(l) + 1 - n
          /\ \A i \in 1 .. Len(l) + 1 - n : SubSeq(t, n + 1, Len(t))[i] = t[n + i]
      BY <2>2, SuffixProperties
    <2> QED BY <2>1, <2>3
  <1> HIDE DEF a, b
  <1>6. Len(a) = Len(b)
    BY <1>1, <1>2, <1>3, <1>4, <1>5
  <1>7. ASSUME NEW i \in 1 .. Len(a) PROVE a[i] = b[i]
    <2>1. CASE i = Len(a)
      <3>1. i - Len(g) = Len(s) + 1 /\ n + i = Len(l) + 1 /\ ~(i <= Len(g)) /\ i \in 1 .. Len(l) + 1 - n
        BY <2>1, <1>1, <1>2, <1>3, <1>4
      <3>2. a[i] = m
        BY <2>1, <3>1, <1>1, <1>3
      <3>3. b[i] = m
        BY <3>1, <1>1, <1>5
      <3> QED BY <3>2, <3>3
    <2>2. CASE i < Len(a)
      <3>1. /\ i \in 1 .. Len(g) + Len(s) /\ i \in 1 .. Len(l) - n
            /\ n + i \in 1 .. Len(l) /\ i \in 1 .. Len(l) + 1 - n /\ i \in 1 .. Len(g) + Len(s) + 1
            /\ ~(i <= Len(g)) => i - Len(g) \in 1 .. Len(s)
        BY <2>2, <1>1, <1>2, <1>3, <1>4
      <3>2. a[i] = (g \o s)[i]
        BY <3>1, <1>1, <1>2, <1>3
      <3>3. b[i] = l[n + i]
        BY <3>1, <1>1, <1>5
      <3> QED BY <3>1, <3>2, <3>3, <1>4
    <2>3. Len(a) \in Nat /\ i \in 1 .. Len(a)
      BY <1>1, <1>3
    <2>4. i = Len(a) \/ i < Len(a)
      BY <2>3
    <2> QED BY <2>1, <2>2, <2>4
  <1>8. a = b
    BY <1>3, <1>5, <1>6, <1>7, SeqEqual
  <1> QED BY <1>8 DEF a, b

\* A client that has just registered has seen all it is to see.
LEMMA EmptySuffix ==
    ASSUME NEW S, NEW l \in Seq(S)
    PROVE  <<>> \o <<>> = SubSeq(l, Len(l) + 1, Len(l))
  BY SubSeqProperties, ConcatProperties, EmptySeq

\* The steps that distribute, give and take no message, and register nobody.
LEMMA SilentGap ==
    ASSUME GapInv, UNCHANGED <<send, got, log, from>>, clients' \subseteq clients,
           \A c \in Client : handler'[c] \in {"new", "register"} => handler[c] \in {"new", "register"}
    PROVE  GapInv'
  BY DEF GapInv

LEMMA HubRegisterGap ==
    ASSUME NEW c \in Client, IInv, GapInv, HubRegister(c)
    PROVE  GapInv'
  <1> USE DEF IInv
  <1>1. handler[c] = "register" /\ handler' = [handler EXCEPT ![c] = "start"]
    BY DEF HubRegister, HandlerGoto
  <1>2. \A d \in Client : handler'[d] \in {"new", "register"} => handler[d] \in {"new", "register"}
    BY <1>1 DEF TypeOK
  <1>3. UNCHANGED <<send, log, got>>
    BY DEF HubRegister
  <1>4. CASE Cardinality(clients) >= MaxClients
    BY <1>2, <1>3, <1>4, SilentGap DEF HubRegister
  <1>5. CASE ~(Cardinality(clients) >= MaxClients)
    <2>1. clients' = clients \cup {c} /\ from' = [from EXCEPT ![c] = Len(log)]
      BY <1>5 DEF HubRegister
    <2>2. log \in Seq(Message) /\ Len(log) \in Nat
      BY DEF TypeOK
    <2>3. got[c] \o send[c] = SubSeq(log, Len(log) + 1, Len(log))
      BY <1>1, <2>2, EmptySuffix DEF GapInv
    <2>4. from'[c] = Len(log) /\ \A d \in Client \ {c} : from'[d] = from[d]
      BY <2>1 DEF TypeOK
    <2>5. ASSUME NEW d \in Client, handler'[d] \in {"new", "register"}
          PROVE  send'[d] = <<>> /\ got'[d] = <<>>
      BY <1>2, <1>3, <2>5 DEF GapInv
    <2>6. ASSUME NEW d \in Client, d \in clients'
          PROVE  /\ from'[d] <= Len(log')
                 /\ got'[d] \o send'[d] = SubSeq(log', from'[d] + 1, Len(log'))
      <3>1. CASE d = c
        <4>1. from'[c] <= Len(log')
          BY <1>3, <2>2, <2>4
        <4>2. got'[c] \o send'[c] = SubSeq(log', from'[c] + 1, Len(log'))
          BY <1>3, <2>3, <2>4
        <4> QED BY <3>1, <4>1, <4>2
      <3>2. CASE d # c
        <4>1. d \in clients /\ from'[d] = from[d]
          BY <2>1, <2>4, <2>6, <3>2
        <4>2. from[d] <= Len(log) /\ got[d] \o send[d] = SubSeq(log, from[d] + 1, Len(log))
          BY <4>1 DEF GapInv
        <4> QED BY <1>3, <4>1, <4>2
      <3> QED BY <3>1, <3>2
    <2> QED BY <2>5, <2>6 DEF GapInv
  <1> QED BY <1>4, <1>5

LEMMA HubBroadcastGap == ASSUME IInv, GapInv, HubBroadcast PROVE GapInv'
  <1> USE DEF IInv
  <1> DEFINE m == Head(broadcast)
             slow == {c \in clients : Len(send[c]) >= SendCap}
  <1>1. /\ clients' = clients \ slow /\ log' = Append(log, m)
        /\ send' = [c \in Client |-> IF c \in clients \ slow THEN Append(send[c], m) ELSE send[c]]
    BY DEF HubBroadcast
  <1>2. UNCHANGED <<handler, from, got>>
    BY DEF HubBroadcast, pumpVars
  <1>3. m \in Message
    BY QueueFacts DEF TypeOK, HubBroadcast
  <1> HIDE DEF m, slow
  <1>4. ASSUME NEW c \in Client, handler'[c] \in {"new", "register"}
        PROVE  send'[c] = <<>> /\ got'[c] = <<>>
    <2>1. c \notin clients
      BY <1>2, <1>4 DEF ChannelInv
    <2> QED BY <1>1, <1>2, <1>4, <2>1 DEF GapInv
  <1>5. ASSUME NEW c \in Client, c \in clients'
        PROVE  /\ from'[c] <= Len(log')
               /\ got'[c] \o send'[c] = SubSeq(log', from'[c] + 1, Len(log'))
    <2>1. /\ got[c] \in Seq(Message) /\ send[c] \in Seq(Message) /\ log \in Seq(Message)
          /\ from[c] \in Nat
      BY DEF TypeOK
    <2>2. c \in clients /\ send'[c] = Append(send[c], m)
      BY <1>1, <1>5
    <2>3. from[c] <= Len(log) /\ got[c] \o send[c] = SubSeq(log, from[c] + 1, Len(log))
      BY <2>2 DEF GapInv
    <2>4. got[c] \o Append(send[c], m) = SubSeq(Append(log, m), from[c] + 1, Len(Append(log, m)))
      <3>1. got[c] \o send[c] = After(log, from[c])
        BY <2>3 DEF After
      <3>2. got[c] \o Append(send[c], m) = After(Append(log, m), from[c])
        BY <1>3, <2>1, <2>3, <3>1, AppendKeepsSuffix, Zenon
      <3> QED BY <3>2 DEF After
    <2>5. Len(log') = Len(log) + 1 /\ Len(log) \in Nat
      BY <1>1, <1>3, <2>1, QueueFacts
    <2>6. from[c] <= Len(log')
      BY <2>1, <2>3, <2>5
    <2> QED BY <1>1, <1>2, <2>2, <2>4, <2>6
  <1> QED BY <1>4, <1>5 DEF GapInv

LEMMA WriterTakesGap ==
    ASSUME NEW c \in Client, IInv, GapInv, WriterTakes(c)
    PROVE  GapInv'
  <1> USE DEF IInv
  <1>1. /\ send[c] # <<>> /\ send' = [send EXCEPT ![c] = Tail(send[c])]
        /\ got' = [got EXCEPT ![c] = Append(got[c], Head(send[c]))]
    BY DEF WriterTakes
  <1>2. UNCHANGED <<handler, clients, from, log>>
    BY DEF WriterTakes, connRest
  <1>3. got[c] \in Seq(Message) /\ send[c] \in Seq(Message)
    BY DEF TypeOK
  <1>4. Append(got[c], Head(send[c])) \o Tail(send[c]) = got[c] \o send[c]
    BY <1>1, <1>3, TakeKeepsOrder
  <1>5. /\ send'[c] = Tail(send[c]) /\ got'[c] = Append(got[c], Head(send[c]))
        /\ \A d \in Client \ {c} : send'[d] = send[d] /\ got'[d] = got[d]
    BY <1>1 DEF TypeOK
  <1>6. got'[c] \o send'[c] = got[c] \o send[c]
    BY <1>4, <1>5
  <1>7. handler[c] \notin {"new", "register"}
    BY <1>1 DEF GapInv
  <1> QED BY <1>2, <1>5, <1>6, <1>7 DEF GapInv

LEMMA NextGap == IInv /\ GapInv /\ [Next]_vars => GapInv'
  <1> SUFFICES ASSUME IInv, GapInv, [Next]_vars PROVE GapInv'
    OBVIOUS
  <1>1. CASE HubBroadcast
    BY <1>1, HubBroadcastGap
  <1>2. ASSUME NEW c \in Client, HubRegister(c) PROVE GapInv'
    BY <1>2, HubRegisterGap
  <1>3. ASSUME NEW c \in Client, WriterTakes(c) PROVE GapInv'
    BY <1>3, WriterTakesGap
  <1>4. CASE HubDone \/ HubRejected \/ HubMarshalFails \/ Broadcast \/ Stop \/ StopReturns
             \/ UNCHANGED vars
    <2>1. UNCHANGED <<send, got, log, from, handler>> /\ clients' \subseteq clients
      BY <1>4 DEF HubDone, HubRejected, HubMarshalFails, Broadcast, Stop, StopReturns, vars,
                  clientVars, pumpVars, historyVars
    <2> QED BY <2>1, SilentGap
  <1>5. ASSUME NEW c \in Client,
               HubUnregister(c) \/ handleWS(c) \/ HandlerStep(c) \/ PeerCloses(c)
               \/ WriterWrites(c) \/ WriterEnds(c)
        PROVE  GapInv'
    <2>1. UNCHANGED <<send, got, log, from>> /\ clients' \subseteq clients
      BY <1>5 DEF HubUnregister, handleWS, HandlerStep, RegisterShutdown, StartPumps, ReadFails,
                  UnregisterShutdown, PeerCloses, WriterWrites, WriterEnds, connRest, historyVars
    <2>2. ASSUME NEW d \in Client, handler'[d] \in {"new", "register"}
          PROVE  handler[d] \in {"new", "register"}
      BY <1>5, <2>2 DEF IInv, TypeOK, HubUnregister, handleWS, HandlerStep, RegisterShutdown,
                  StartPumps, ReadFails, UnregisterShutdown, PeerCloses, HandlerGoto, WriterWrites,
                  WriterEnds
    <2> QED BY <2>1, <2>2, SilentGap
  <1> QED BY <1>1, <1>2, <1>3, <1>4, <1>5 DEF Next, Hub, WriterStep

\* Whatever the number of clients, the size of their queues and the speed at
\* which they are read, a registered client is given every message distributed
\* since it registered, in order and without a gap.
THEOREM GapFree == Spec => []NoGap
  <1>1. Init => GapInv
    BY DEF Init, GapInv
  <1>2. IInv /\ GapInv => NoGap
    BY DEF IInv, TypeOK, GapInv, NoGap
  <1> QED BY <1>1, <1>2, NextGap, Invariance, PTL DEF Spec
=============================================================================
