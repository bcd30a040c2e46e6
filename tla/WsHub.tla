------------------------------- MODULE WsHub -------------------------------
(***************************************************************************)
(* The WebSocket hub of internal/web/handlers_ws.go: the hub goroutine     *)
(* (Run), which owns the set of clients and closes their send channels,    *)
(* the handler of every connection (handleWS, then wsReadPump), its write  *)
(* pump, the event bus calling Broadcast, and Server.Stop.                 *)
(*                                                                         *)
(* register and unregister are unbuffered: a send is a step of the hub and *)
(* of the handler together.  A select with several ready cases takes any.  *)
(* Messages are numbers, in the order of Broadcast.                        *)
(***************************************************************************)
EXTENDS Naturals, Sequences, FiniteSets

CONSTANTS
    Client,        \* connections accepted; each is used once
    MaxClients,    \* maxWSClients
    SendCap,       \* capacity of wsClient.send
    BroadcastCap,  \* capacity of WSHub.broadcast
    MaxEvents      \* bounds the events emitted

ASSUME CapAssumption == {MaxClients, SendCap, BroadcastCap} \subseteq Nat \ {0}
ASSUME EventsAssumption == MaxEvents \in Nat

VARIABLES
    clients,           \* WSHub.clients
    broadcast,         \* the channel WSHub.broadcast
    done,              \* WSHub.done is closed
    hub,               \* the hub goroutine
    send, closes,      \* wsClient.send, and how often it was closed
    handler, writer,   \* the goroutines of a connection
    conn,              \* the connection
    stop,              \* Server.Stop
    events,            \* events emitted so far
    log, from, got     \* history: messages distributed, how many of them
                       \* before the client registered, those it took

clientVars  == <<send, closes>>
pumpVars    == <<handler, writer, conn>>
historyVars == <<log, from, got>>
vars == <<clients, broadcast, done, hub, clientVars, pumpVars, stop, events, historyVars>>

Message == 1 .. MaxEvents

TypeOK ==
    /\ clients \subseteq Client /\ Cardinality(clients) <= MaxClients
    /\ broadcast \in Seq(Message) /\ Len(broadcast) <= BroadcastCap
    /\ done \in BOOLEAN
    /\ hub \in {"select", "rejecting", "gone"}
    /\ send \in [Client -> Seq(Message)]
    /\ closes \in [Client -> Nat]
    /\ handler \in [Client -> {"new", "register", "start", "read", "unregister", "gone"}]
    /\ writer \in [Client -> {"none", "range", "write", "gone"}]
    /\ conn \in [Client -> {"none", "open", "closed"}]
    /\ stop \in {"up", "waiting", "stopped"}
    /\ events \in 0 .. MaxEvents
    /\ log \in Seq(Message)
    /\ from \in [Client -> Nat]
    /\ got \in [Client -> Seq(Message)]

\* NewWSHub, with its goroutine started by NewServer.
Init ==
    /\ clients = {} /\ broadcast = <<>> /\ done = FALSE
    /\ hub = "select"
    /\ send = [c \in Client |-> <<>>]
    /\ closes = [c \in Client |-> 0]
    /\ handler = [c \in Client |-> "new"]
    /\ writer = [c \in Client |-> "none"]
    /\ conn = [c \in Client |-> "none"]
    /\ stop = "up"
    /\ events = 0
    /\ log = <<>>
    /\ from = [c \in Client |-> 0]
    /\ got = [c \in Client |-> <<>>]

Close(C) == closes' = [c \in Client |-> IF c \in C THEN closes[c] + 1 ELSE closes[c]]

HandlerGoto(c, at, to) == handler[c] = at /\ handler' = [handler EXCEPT ![c] = to]

-----------------------------------------------------------------------------
(* The hub goroutine: the cases of Run's select.                           *)

\* Mutant of HubDone: the remaining clients are forgotten, not closed.
ForgetClients ==
    /\ hub = "select" /\ done
    /\ hub' = "gone" /\ clients' = {}
    /\ UNCHANGED <<broadcast, done, clientVars, pumpVars, stop, events, historyVars>>

HubDone ==
    /\ hub = "select" /\ done
    /\ hub' = "gone"
    /\ Close(clients) /\ clients' = {}
    /\ UNCHANGED <<broadcast, done, send, pumpVars, stop, events, historyVars>>

\* Mutant of HubRegister: off by one, a client too many.
RegisterOneMore(c) ==
    /\ hub = "select"
    /\ Cardinality(clients) <= MaxClients
    /\ HandlerGoto(c, "register", "start")
    /\ clients' = clients \cup {c}
    /\ from' = [from EXCEPT ![c] = Len(log)]
    /\ UNCHANGED <<broadcast, done, hub, clientVars, conn, writer, stop, events, log, got>>

HubRegister(c) ==
    /\ hub = "select"
    /\ HandlerGoto(c, "register", "start")
    /\ IF Cardinality(clients) >= MaxClients
       THEN /\ Close({c})
            /\ hub' = "rejecting"
            /\ conn' = [conn EXCEPT ![c] = "closed"]
            /\ UNCHANGED <<clients, from>>
       ELSE /\ clients' = clients \cup {c}
            /\ from' = [from EXCEPT ![c] = Len(log)]
            /\ UNCHANGED <<closes, hub, conn>>
    /\ UNCHANGED <<broadcast, done, send, writer, stop, events, log, got>>

\* conn.Close of a rejected client returns, after the closing handshake or
\* its timeout; the hub serves nobody meanwhile.
HubRejected ==
    /\ hub = "rejecting"
    /\ hub' = "select"
    /\ UNCHANGED <<clients, broadcast, done, clientVars, pumpVars, stop, events, historyVars>>

\* Mutant of HubUnregister: the channel is closed without the lookup.
CloseUnchecked(c) ==
    /\ hub = "select"
    /\ HandlerGoto(c, "unregister", "gone")
    /\ clients' = clients \ {c}
    /\ Close({c})
    /\ UNCHANGED <<broadcast, done, hub, send, writer, conn, stop, events, historyVars>>

HubUnregister(c) ==
    /\ hub = "select"
    /\ HandlerGoto(c, "unregister", "gone")
    /\ clients' = clients \ {c}
    /\ Close({c} \cap clients)
    /\ UNCHANGED <<broadcast, done, hub, send, writer, conn, stop, events, historyVars>>

\* Mutant of HubBroadcast: a slow client misses the message and stays.
SkipSlow ==
    /\ hub = "select" /\ broadcast # <<>>
    /\ broadcast' = Tail(broadcast)
    /\ log' = Append(log, Head(broadcast))
    /\ send' = [c \in Client |->
                  IF c \in clients /\ Len(send[c]) < SendCap
                  THEN Append(send[c], Head(broadcast)) ELSE send[c]]
    /\ UNCHANGED <<clients, done, hub, closes, pumpVars, stop, events, from, got>>

\* Every client gets the message or, its channel full, is evicted.
HubBroadcast ==
    /\ hub = "select" /\ broadcast # <<>>
    /\ broadcast' = Tail(broadcast)
    /\ log' = Append(log, Head(broadcast))
    /\ LET slow == {c \in clients : Len(send[c]) >= SendCap}
       IN  /\ send' = [c \in Client |->
                         IF c \in clients \ slow
                         THEN Append(send[c], Head(broadcast)) ELSE send[c]]
           /\ clients' = clients \ slow
           /\ Close(slow)
    /\ UNCHANGED <<done, hub, pumpVars, stop, events, from, got>>

\* json.Marshal fails: the message is logged and skipped.
HubMarshalFails ==
    /\ hub = "select" /\ broadcast # <<>>
    /\ broadcast' = Tail(broadcast)
    /\ UNCHANGED <<clients, done, hub, clientVars, pumpVars, stop, events, historyVars>>

Hub ==
    \/ HubDone \/ HubRejected \/ HubBroadcast \/ HubMarshalFails
    \/ \E c \in Client : HubRegister(c) \/ HubUnregister(c)

-----------------------------------------------------------------------------
(* The goroutines of a connection.                                         *)

connRest == <<clients, broadcast, done, hub, closes, stop, events, log, from>>

\* websocket.Accept succeeded.
handleWS(c) ==
    /\ HandlerGoto(c, "new", "register")
    /\ conn' = [conn EXCEPT ![c] = "open"]
    /\ UNCHANGED <<writer, send, got, connRest>>

\* The hub is gone or going before it took the client.
RegisterShutdown(c) ==
    /\ done
    /\ HandlerGoto(c, "register", "gone")
    /\ conn' = [conn EXCEPT ![c] = "closed"]
    /\ UNCHANGED <<writer, send, got, connRest>>

StartPumps(c) ==
    /\ HandlerGoto(c, "start", "read")
    /\ writer' = [writer EXCEPT ![c] = "range"]
    /\ UNCHANGED <<conn, send, got, connRest>>

\* The client, or the network, ends the connection.
PeerCloses(c) ==
    /\ conn[c] = "open"
    /\ conn' = [conn EXCEPT ![c] = "closed"]
    /\ UNCHANGED <<handler, writer, send, got, connRest>>

\* Mutant of ReadFails: the read pump returns without unregistering.
LeaveRegistered(c) ==
    /\ conn[c] = "closed" \/ done
    /\ HandlerGoto(c, "read", "gone")
    /\ conn' = [conn EXCEPT ![c] = "closed"]
    /\ UNCHANGED <<writer, send, got, connRest>>

\* conn.Read fails: the connection is closed, or the watcher goroutine
\* cancelled the read on shutdown, which closes the connection too.
ReadFails(c) ==
    /\ conn[c] = "closed" \/ done
    /\ HandlerGoto(c, "read", "unregister")
    /\ conn' = [conn EXCEPT ![c] = "closed"]
    /\ UNCHANGED <<writer, send, got, connRest>>

\* The deferred select of the read pump takes the case of a closed done.
UnregisterShutdown(c) ==
    /\ done
    /\ HandlerGoto(c, "unregister", "gone")
    /\ conn' = [conn EXCEPT ![c] = "closed"]
    /\ UNCHANGED <<writer, send, got, connRest>>

\* range client.send: the next message, even of a closed channel.
WriterTakes(c) ==
    /\ writer[c] = "range" /\ send[c] # <<>>
    /\ writer' = [writer EXCEPT ![c] = "write"]
    /\ send' = [send EXCEPT ![c] = Tail(@)]
    /\ got' = [got EXCEPT ![c] = Append(@, Head(send[c]))]
    /\ UNCHANGED <<handler, conn, connRest>>

\* conn.Write returns, at the latest with its 10 s timeout; the library
\* closes the connection when it fails.
WriterWrites(c) ==
    /\ writer[c] = "write"
    /\ \/ conn[c] = "open" /\ writer' = [writer EXCEPT ![c] = "range"] /\ UNCHANGED conn
       \/ /\ writer' = [writer EXCEPT ![c] = "gone"]
          /\ conn' = [conn EXCEPT ![c] = "closed"]
    /\ UNCHANGED <<handler, send, got, connRest>>

\* The channel is closed and drained: the write pump closes the connection.
WriterEnds(c) ==
    /\ writer[c] = "range" /\ send[c] = <<>> /\ closes[c] > 0
    /\ writer' = [writer EXCEPT ![c] = "gone"]
    /\ conn' = [conn EXCEPT ![c] = "closed"]
    /\ UNCHANGED <<handler, send, got, connRest>>

HandlerStep(c) == RegisterShutdown(c) \/ StartPumps(c) \/ ReadFails(c) \/ UnregisterShutdown(c)
WriterStep(c)  == WriterTakes(c) \/ WriterWrites(c) \/ WriterEnds(c)

-----------------------------------------------------------------------------
(* The event bus and Server.Stop.                                          *)

\* An event is emitted.  Unsubscribing does not wait for an Emit under way,
\* so this may happen at any time, after Stop too.
Broadcast ==
    /\ events < MaxEvents
    /\ events' = events + 1
    /\ broadcast' = IF Len(broadcast) < BroadcastCap
                    THEN Append(broadcast, events + 1) ELSE broadcast
    /\ UNCHANGED <<clients, done, hub, clientVars, pumpVars, stop, historyVars>>

\* unsubEvents and wsHub.Stop.
Stop ==
    /\ stop = "up"
    /\ stop' = "waiting" /\ done' = TRUE
    /\ UNCHANGED <<clients, broadcast, hub, clientVars, pumpVars, events, historyVars>>

\* wg.Wait: the hub goroutine has returned.
StopReturns ==
    /\ stop = "waiting" /\ hub = "gone"
    /\ stop' = "stopped"
    /\ UNCHANGED <<clients, broadcast, done, hub, clientVars, pumpVars, events, historyVars>>

-----------------------------------------------------------------------------
Next ==
    \/ Hub
    \/ \E c \in Client : handleWS(c) \/ HandlerStep(c) \/ PeerCloses(c) \/ WriterStep(c)
    \/ Broadcast \/ Stop \/ StopReturns

Spec == Init /\ [][Next]_vars

\* Goroutines are scheduled, conn.Close, conn.Write and a cancelled or broken
\* conn.Read return.  Go's select picks among its ready cases at random, so
\* none is starved; as events are finitely many here, weak fairness of the hub
\* says as much.  Nothing makes peers connect or disconnect, events happen, or
\* anybody call Stop.
FairSpec ==
    /\ Spec
    /\ WF_vars(Hub) /\ WF_vars(StopReturns)
    /\ \A c \in Client : WF_vars(HandlerStep(c)) /\ WF_vars(WriterStep(c))

-----------------------------------------------------------------------------
(* Properties.                                                             *)

\* Four places close a client's channel (rejection, unregistering, eviction,
\* shutdown) and two goroutines cause them; it is closed at most once, and
\* never while the hub may still send on it.  Either would panic the process.
NoChannelPanic ==
    \A c \in Client : closes[c] <= 1 /\ (c \in clients => closes[c] = 0)

\* A client sees every message from its registration on, in order and without
\* a gap: one that falls behind is disconnected rather than served around.
NoGap ==
    \A c \in clients : got[c] \o send[c] = SubSeq(log, from[c] + 1, Len(log))

\* A connection that ended gives its place among the MaxClients back.
PlaceIsFreed == \A c \in Client : conn[c] = "closed" ~> c \notin clients

\* After Stop, Stop returns and every connection is closed with both its
\* goroutines gone, whatever was going on.
ShutdownEnds ==
    done ~> /\ stop = "stopped"
            /\ \A c \in Client : handler[c] # "new" =>
                  handler[c] = "gone" /\ writer[c] \in {"none", "gone"} /\ conn[c] = "closed"
=============================================================================
