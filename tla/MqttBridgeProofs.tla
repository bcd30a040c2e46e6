-------------------------- MODULE MqttBridgeProofs --------------------------
(***************************************************************************)
(* Proofs about MqttBridge, for any number of devices, names, discoveries  *)
(* and events and any queue: devices that share a topic among them.        *)
(***************************************************************************)
EXTENDS MqttBridge, SequenceTheorems, TLAPS

(* The inductive invariant: the types, one part for each goroutine, and    *)
(* one part for each promise.                                              *)

EnvInv ==
    /\ record \in [Device -> {"none", "joined", "interviewed", "left"}]
    /\ name \in [Device -> Topic]
    /\ handler \in Handler \cup {None}
    /\ leaving \subseteq Device /\ happened \in Value

QueueInv == eventCh \in Seq(Event) /\ Len(eventCh) <= QueueCap

DiscTypes ==
    /\ pendingDiscovery \in [Device -> Disc \cup {None}]
    /\ discoveryGen \in [Device -> Nat] /\ nextDiscGen \in Nat
    /\ pc \in [Disc -> DiscPc] /\ dev \in [Disc -> Device \cup {None}]
    /\ gen \in [Disc -> Nat] /\ cancelled \in [Disc -> BOOLEAN]
    /\ ticks \in [Disc -> 0 .. MaxTicks]

\* A goroutine that was not registered yet has not ticked, one that polls has
\* ticks left.
DiscInv ==
    \A w \in Disc :
        /\ pc[w] \notin {"none", "gone"} => dev[w] \in Device
        /\ pc[w] \in {"none", "spawned"} => ticks[w] = 0
        /\ pc[w] = "wait" => ticks[w] < MaxTicks

\* One that has found the interview done has the topic it read.
Announcing == {"cache", "publish", "subscribe"}
CopyInv ==
    /\ topic \in [Disc -> Topic \cup {None}]
    /\ \A w \in Disc : pc[w] \in Announcing => topic[w] \in Topic

\* The generation numbers of the goroutines under way differ, the table names
\* the one whose number it holds, and whoever is not cancelled is in the table.
\* Nobody can cancel a goroutine before it is in the table.
RegistryInv ==
    /\ \A w \in Disc : pc[w] \in {"none", "spawned"} => ~cancelled[w]
    /\ \A w \in Disc : pc[w] \in Waiting => gen[w] > 0 /\ gen[w] <= nextDiscGen
    /\ \A v, w \in Disc : pc[v] \in Waiting /\ pc[w] \in Waiting /\ gen[v] = gen[w] => v = w
    /\ \A d \in Device : pendingDiscovery[d] = None => discoveryGen[d] = 0
    /\ \A d \in Device : pendingDiscovery[d] # None =>
           /\ pc[pendingDiscovery[d]] \in Waiting
           /\ dev[pendingDiscovery[d]] = d
           /\ gen[pendingDiscovery[d]] = discoveryGen[d]
    /\ \A w \in Disc : pc[w] \in Waiting /\ ~cancelled[w] => pendingDiscovery[dev[w]] = w

\* Only a payload on its way is one; that of a device that left is 0.
LoopInv ==
    /\ loop \in {"select", "topic", "fill", "publish", "forget", "gone"}
    /\ loopDev \in Device \cup {None} /\ loopPayload \in Value
    /\ loopTopic \in Topic \cup {None}
    /\ loop \in Publishing \cup {"forget"} => loopDev \in Device
    /\ loop \notin Publishing => loopPayload = 0
    /\ loop \in {"fill", "publish"} => loopTopic \in Topic

CmdInv ==
    /\ cmd \in {"idle", "send", "topic", "fill", "publish"}
    /\ cmdDev \in Device \cup {None} /\ cmdPayload \in Value
    /\ cmdTopic \in Topic \cup {None}
    /\ cmd # "idle" => cmdDev \in Device
    /\ cmd \in Publishing => cmdPayload # 0
    /\ cmd \in {"fill", "publish"} => cmdTopic \in Topic

ConnInv ==
    /\ connected \in BOOLEAN /\ unlisted \in BOOLEAN
    /\ conn \in {"idle", "list", "cache", "publish", "subscribe"}
    /\ todo \subseteq Device \X Topic /\ copy \in (Device \X Topic) \cup {None}
    /\ subscribed \in [Topic -> Device \cup {None}]
    /\ stop \in {"up", "waitLoop", "waitDisc", "stopped"}
    /\ conn = "publish" => copy \in Device \X Topic

StateTypes == states \in [Device -> Value]

BrokerTypes ==
    /\ topicNames \in [Device -> Topic \cup {None}]
    /\ retained \in [Topic -> [dev : Device, val : Value] \cup {None}]
    /\ overlap \in [Device -> BOOLEAN]
    /\ excuse \in [Device -> SUBSET (Topic \cup {"config"})]
    /\ discovery \in [Device -> Topic \cup {None}]

UpsetType == upset \in [Device -> BOOLEAN]

TypeInv ==
    /\ EnvInv /\ QueueInv /\ DiscTypes /\ DiscInv /\ CopyInv /\ LoopInv /\ CmdInv /\ ConnInv
    /\ StateTypes /\ BrokerTypes /\ UpsetType

\* A payload yet to be published is the accumulated state, unless the other
\* goroutine has changed that meanwhile, which shows as an overlap, or the
\* device left.
PayloadInv ==
    \A d \in Device :
        /\ LoopHolds(d) /\ loopPayload # 0 /\ ~overlap[d] => loopPayload = states[d]
        /\ CmdHolds(d) /\ ~overlap[d] /\ states[d] # 0 => cmdPayload = states[d]

\* Whoever has retained something of a device and has not cached its topic
\* since is excused: the topic in the cache is the only one to be cleared.
CoverInv ==
    \A d \in Device : \A t \in RetainedOf(d) : t = topicNames[d] \/ t \in excuse[d]

\* A device-left event is queued or about to be emitted.
Leaving(d) ==
    \/ d \in leaving
    \/ \E i \in DOMAIN eventCh : eventCh[i].type = "left" /\ eventCh[i].dev = d

\* When handleDeviceLeft is about to clear the topic it found, that is all there
\* is to clear.
StagedInv ==
    loop = "publish" /\ loopPayload = 0 /\ Gone(loopDev) /\ ~Leaving(loopDev)
    => RetainedOf(loopDev) \subseteq excuse[loopDev] \cup {loopTopic}

\* Whoever announces or subscribes a device does so under the name it has, as
\* long as nobody changed its record.
Known(d, t) == record[d] = "interviewed" /\ t = name[d]
KnownInv ==
    /\ \A d \in Device : ~upset[d] /\ discovery[d] # None => Known(d, discovery[d])
    /\ \A p \in todo : ~upset[p[1]] => Known(p[1], p[2])
    /\ conn = "publish" => (~upset[copy[1]] => Known(copy[1], copy[2]))
    /\ \A w \in Disc : pc[w] \in Announcing /\ ~upset[dev[w]] => Known(dev[w], topic[w])

\* While the OnConnect handler subscribes, a device without a subscription is
\* on its list.
ReachInv ==
    connected /\ conn \in {"idle", "subscribe"} /\ ~unlisted =>
        \A d \in Device :
            /\ ~upset[d] /\ discovery[d] # None
            /\ \A w \in Disc : ~(pc[w] = "subscribe" /\ dev[w] = d)
            => \/ subscribed[discovery[d]] # None
               \/ conn = "subscribe" /\ <<d, discovery[d]>> \in todo

-----------------------------------------------------------------------------
(* What each actor leaves alone.                                           *)

LEMMA CoordinatorFrame == Coordinator => UNCHANGED envRest
  BY DEF Coordinator, HandleRead, HandleSave, InterviewDone, Rename, Delete, EmitLeft, Report

LEMMA LoopFrame == eventLoop => UNCHANGED loopRest
  BY DEF eventLoop, LoopIgnore, LoopReport, LoopLeft, LoopAnnounce, LoopTopic, LoopFill,
         LoopPublish, LoopClear, LoopForget, LoopEnds

LEMMA DiscFrame == ASSUME NEW w \in Disc, delayedDiscovery(w) PROVE UNCHANGED discRest
  BY DEF delayedDiscovery, DiscRegister, DiscTick, DiscCancelled, DiscCache, DiscPublish,
         DiscSubscribe, DiscCleanup

LEMMA CmdFrame == handleCommand => UNCHANGED cmdRest
  BY DEF handleCommand, CommandArrives, CommandSent, CommandLeavesState, CommandTopic,
         CommandFill, CommandPublish

LEMMA ConnFrame == ConnectionLost \/ Connect \/ OnConnect => UNCHANGED connRest
  BY DEF ConnectionLost, Connect, OnConnect, ConnList, ConnCache, ConnPublish, ConnRelist,
         ConnSubscribe

LEMMA StopFrame == Stop \/ Stopping => UNCHANGED stopRest
  BY DEF Stop, Stopping, StopWaitsLoop, StopReturns

\* The actors, and what is left of Next.
LEMMA Actors ==
    ASSUME [Next]_vars
    PROVE  \/ Coordinator /\ UNCHANGED envRest
           \/ eventLoop /\ UNCHANGED loopRest
           \/ \E w \in Disc : delayedDiscovery(w) /\ UNCHANGED discRest
           \/ handleCommand /\ UNCHANGED cmdRest
           \/ (ConnectionLost \/ Connect \/ OnConnect) /\ UNCHANGED connRest
           \/ (Stop \/ Stopping) /\ UNCHANGED stopRest
           \/ UNCHANGED vars
  BY CoordinatorFrame, LoopFrame, DiscFrame, CmdFrame, ConnFrame, StopFrame DEF Next

-----------------------------------------------------------------------------
(* Types.                                                                  *)

\* What taking an event from the queue and appending one yields.
LEMMA QueueFacts ==
    ASSUME NEW s \in Seq(Event), NEW x \in Event
    PROVE  /\ Append(s, x) \in Seq(Event)
           /\ Len(Append(s, x)) = Len(s) + 1
           /\ s # <<>> => /\ Head(s) \in Event
                          /\ Tail(s) \in Seq(Event)
                          /\ Len(Tail(s)) = Len(s) - 1
           /\ Len(s) \in Nat
  BY AppendProperties, HeadTailProperties, EmptySeq

\* The events that the coordinator emits.
IsEvent(type, v) == \/ type \in {"joined", "announce", "left"} /\ v = 0
                    \/ type = "report" /\ v \in Value \ {0}

LEMMA EmitType ==
    ASSUME QueueInv, NEW type, NEW d \in Device, NEW v, IsEvent(type, v), Emit(type, d, v)
    PROVE  QueueInv'
  <1> DEFINE x == [type |-> type, dev |-> d, value |-> v]
  <1>1. x \in Event
    BY DEF Event, IsEvent
  <1>2. eventCh' = IF Len(eventCh) < QueueCap THEN Append(eventCh, x) ELSE eventCh
    BY DEF Emit, Room
  <1> HIDE DEF x
  <1>3. CASE Len(eventCh) < QueueCap
    BY <1>1, <1>2, <1>3, QueueFacts, BoundAssumption DEF QueueInv
  <1>4. CASE ~(Len(eventCh) < QueueCap)
    BY <1>2, <1>4 DEF QueueInv
  <1> QED BY <1>3, <1>4

LEMMA TakeType ==
    ASSUME QueueInv, NEW type, TakeEvent(type)
    PROVE  QueueInv' /\ Head(eventCh) \in Event /\ Head(eventCh).type = type
           /\ Head(eventCh).dev \in Device
  <1>1. eventCh # <<>> /\ eventCh' = Tail(eventCh) /\ Head(eventCh).type = type
    BY DEF TakeEvent
  <1>2. Head(eventCh) \in Event /\ Tail(eventCh) \in Seq(Event) /\ Len(Tail(eventCh)) = Len(eventCh) - 1
        /\ Len(eventCh) \in Nat
    BY <1>1, HeadTailProperties DEF QueueInv
  <1>3. Head(eventCh).dev \in Device
    BY <1>2 DEF Event
  <1> QED BY <1>1, <1>2, <1>3, BoundAssumption DEF QueueInv

\* Counting an event.
LEMMA HappensType ==
    ASSUME happened \in Value, Happens
    PROVE  happened' \in Value \ {0}
  BY BoundAssumption DEF Happens, Value

\* The updates of the broker and of the history keep their types.
LEMMA CacheType ==
    ASSUME BrokerTypes, NEW d \in Device, NEW t \in Topic, cacheTopic(d, t), discovery' = discovery
    PROVE  BrokerTypes'
  <1>1. /\ topicNames' = [topicNames EXCEPT ![d] = t]
        /\ excuse' = [excuse EXCEPT ![d] = excuse[d] \cup (RetainedOf(d) \ {t})]
        /\ retained' = retained /\ overlap' = overlap
    BY DEF cacheTopic
  <1>2. RetainedOf(d) \subseteq Topic
    BY DEF RetainedOf
  <1> QED BY <1>1, <1>2 DEF BrokerTypes

LEMMA PutType ==
    ASSUME BrokerTypes, NEW d \in Device, NEW t \in Topic, NEW p \in Value, putState(d, t, p)
    PROVE  /\ topicNames' = topicNames
           /\ retained' \in [Topic -> [dev : Device, val : Value] \cup {None}]
           /\ overlap' \in [Device -> BOOLEAN]
  <1>1. /\ retained' = [retained EXCEPT ![t] = IF p = 0 THEN None ELSE [dev |-> d, val |-> p]]
        /\ topicNames' = topicNames
    BY DEF putState
  <1>2. overlap' \in [Device -> BOOLEAN]
    BY Zenon DEF putState
  <1> QED BY <1>1, <1>2 DEF BrokerTypes

LEMMA PublishType ==
    ASSUME BrokerTypes, NEW d \in Device, NEW t \in Topic, NEW p \in Value, publishState(d, t, p),
           discovery' = discovery
    PROVE  BrokerTypes'
  <1>1. putState(d, t, p)
    BY DEF publishState
  <1>2. excuse' \in [Device -> SUBSET (Topic \cup {"config"})]
    BY DEF publishState, BrokerTypes
  <1> QED BY <1>1, <1>2, PutType DEF BrokerTypes

LEMMA PublishDiscoveryType ==
    ASSUME BrokerTypes, NEW d \in Device, NEW t \in Topic, publishDiscovery(d, t)
    PROVE  BrokerTypes'
  <1>1. /\ discovery' = [discovery EXCEPT ![d] = t]
        /\ excuse' = [excuse EXCEPT ![d] = IF Gone(d) THEN excuse[d] \cup {"config"}
                                           ELSE excuse[d] \ {"config"}]
        /\ topicNames' = topicNames /\ retained' = retained /\ overlap' = overlap
    BY DEF publishDiscovery
  <1> QED BY <1>1 DEF BrokerTypes

LEMMA UpdateType ==
    ASSUME StateTypes, BrokerTypes, NEW d \in Device, NEW new \in Value, NEW other \in BOOLEAN,
           updateState(d, new, other), discovery' = discovery
    PROVE  StateTypes' /\ BrokerTypes'
  <1>1. /\ states' = [states EXCEPT ![d] = new]
        /\ topicNames' = topicNames /\ retained' = retained /\ excuse' = excuse
    BY DEF updateState
  <1>2. overlap' \in [Device -> BOOLEAN]
    BY Zenon DEF updateState, BrokerTypes
  <1> QED BY <1>1, <1>2 DEF StateTypes, BrokerTypes

\* What cachedTopicName returns is a topic.
LEMMA FoundType ==
    ASSUME EnvInv, BrokerTypes, NEW d \in Device, NEW found \in cachedTopicName(d)
    PROVE  found.at \in {"fill", "publish"} /\ found.topic \in Topic
  BY DEF cachedTopicName, EnvInv, BrokerTypes, Topic

\* The topics of the interviewed devices.
LEMMA InterviewedType == ASSUME EnvInv PROVE Interviewed \subseteq Device \X Topic
  BY DEF Interviewed, EnvInv

LEMMA UpsetKept == ASSUME UpsetType, NEW d \in Device, Upset(d) PROVE UpsetType'
  BY Zenon DEF UpsetType, Upset

LEMMA CoordinatorType == ASSUME TypeInv, Coordinator PROVE TypeInv'
  <1>1. /\ UNCHANGED <<pendingDiscovery, discoveryGen, nextDiscGen, pc, dev, gen, cancelled, ticks>>
        /\ UNCHANGED <<topic, loop, loopDev, loopPayload, loopTopic, cmd, cmdDev, cmdPayload>>
        /\ UNCHANGED <<cmdTopic, connected, conn, todo, copy, unlisted, subscribed, stop>>
        /\ UNCHANGED <<topicNames, states, retained, overlap, discovery>>
    BY CoordinatorFrame DEF envRest, discVars, loopVars, cmdVars, connVars
  <1>2. ASSUME EnvInv', QueueInv', excuse' \in [Device -> SUBSET (Topic \cup {"config"})], UpsetType'
        PROVE  TypeInv'
    BY <1>1, <1>2 DEF TypeInv, DiscTypes, DiscInv, CopyInv, LoopInv, CmdInv, ConnInv, StateTypes,
       BrokerTypes
  <1> USE DEF TypeInv
  <1>3. ASSUME NEW type \in {"joined", "announce"}, NEW d \in Device, HandleRead(type, d)
        PROVE  TypeInv'
    <2>1. handler' \in Handler
      BY <1>3 DEF HandleRead, Handler, EnvInv, Topic, Gone
    <2>2. happened' \in Value /\ UNCHANGED <<record, name, leaving, upset, eventCh, excuse>>
      BY <1>3, HappensType DEF HandleRead, EnvInv
    <2> QED BY <1>2, <2>1, <2>2 DEF EnvInv, QueueInv, BrokerTypes, UpsetType
  <1>4. CASE HandleSave
    <2>1. /\ handler \in Handler /\ handler' = None
          /\ record' = [record EXCEPT ![handler.dev] = handler.record]
          /\ name' = [name EXCEPT ![handler.dev] = handler.name]
          /\ Emit(handler.type, handler.dev, 0)
          /\ upset' = upset \/ Upset(handler.dev)
          /\ UNCHANGED <<leaving, happened, excuse>>
      BY <1>4 DEF HandleSave, EnvInv
    <2>2. /\ handler.dev \in Device /\ handler.type \in {"joined", "announce"}
          /\ handler.record \in {"joined", "interviewed"} /\ handler.name \in Topic
      BY <2>1 DEF Handler
    <2>3. EnvInv'
      BY <2>1, <2>2 DEF EnvInv
    <2>4. QueueInv'
      BY <2>1, <2>2, EmitType DEF IsEvent
    <2>5. UpsetType'
      BY <2>1, <2>2, UpsetKept DEF UpsetType
    <2> QED BY <1>2, <2>1, <2>3, <2>4, <2>5 DEF BrokerTypes
  <1>5. ASSUME NEW d \in Device, InterviewDone(d) PROVE TypeInv'
    BY <1>2, <1>5 DEF InterviewDone, EnvInv, QueueInv, BrokerTypes, UpsetType
  <1>6. ASSUME NEW d \in Device, Rename(d) PROVE TypeInv'
    <2>1. happened' \in Value /\ UpsetType'
      BY <1>6, HappensType, UpsetKept DEF Rename, EnvInv
    <2> QED BY <1>2, <1>6, <2>1 DEF Rename, EnvInv, QueueInv, BrokerTypes
  <1>7. ASSUME NEW d \in Device, Delete(d) PROVE TypeInv'
    <2>1. happened' \in Value /\ UpsetType'
      BY <1>7, HappensType, UpsetKept DEF Delete, EnvInv
    <2> QED BY <1>2, <1>7, <2>1 DEF Delete, EnvInv, QueueInv, BrokerTypes
  <1>8. ASSUME NEW d \in Device, EmitLeft(d) PROVE TypeInv'
    <2>1. QueueInv'
      BY <1>8, EmitType DEF EmitLeft, IsEvent
    <2>2. RetainedOf(d) \subseteq Topic
      BY DEF RetainedOf
    <2>3. excuse' \in [Device -> SUBSET (Topic \cup {"config"})]
      BY <1>8, <2>2 DEF EmitLeft, BrokerTypes
    <2> QED BY <1>2, <1>8, <2>1, <2>3 DEF EmitLeft, EnvInv, UpsetType
  <1>9. ASSUME NEW d \in Device, Report(d) PROVE TypeInv'
    <2>1. happened' \in Value \ {0} /\ Emit("report", d, happened')
      BY <1>9, HappensType DEF Report, EnvInv
    <2>2. QueueInv'
      BY <2>1, EmitType DEF IsEvent
    <2> QED BY <1>2, <1>9, <2>1, <2>2 DEF Report, EnvInv, BrokerTypes, UpsetType
  <1> QED BY <1>3, <1>4, <1>5, <1>6, <1>7, <1>8, <1>9 DEF Coordinator

LEMMA LoopType == ASSUME TypeInv, eventLoop PROVE TypeInv'
  <1>0. /\ UNCHANGED <<record, name, handler, leaving, happened, upset, cmd, cmdDev, cmdPayload>>
        /\ UNCHANGED <<cmdTopic, connected, conn, todo, copy, unlisted, subscribed, stop>>
    BY LoopFrame DEF loopRest, envVars, cmdVars, connVars
  <1> DEFINE tables == <<pendingDiscovery, discoveryGen, nextDiscGen, gen, cancelled, ticks, topic>>
  <1>1. ASSUME UNCHANGED <<tables, pc, dev>>, QueueInv', LoopInv', StateTypes', BrokerTypes'
        PROVE  TypeInv'
    BY <1>0, <1>1 DEF TypeInv, EnvInv, DiscTypes, DiscInv, CopyInv, CmdInv, ConnInv, UpsetType
  <1> USE DEF TypeInv
  <1>2. CASE LoopIgnore
    BY <1>1, <1>2, TakeType DEF LoopIgnore, discVars, loopVars, topicVars, LoopInv, StateTypes,
       BrokerTypes
  <1>3. CASE LoopReport
    <2> DEFINE d == Head(eventCh).dev
               v == Head(eventCh).value
    <2>1. /\ TakeEvent("report") /\ updateState(d, v, CmdHolds(d)) /\ discovery' = discovery
          /\ loop' = "topic" /\ loopDev' = d /\ loopPayload' = v /\ loopTopic' = loopTopic
          /\ UNCHANGED <<tables, pc, dev>>
      BY <1>3 DEF LoopReport, discVars
    <2>2. QueueInv' /\ d \in Device /\ Head(eventCh) \in Event /\ Head(eventCh).type = "report"
      BY <2>1, TakeType
    <2>3. v \in Value
      BY <2>2 DEF Event
    <2> HIDE DEF d, v
    <2>4. CmdHolds(d) \in BOOLEAN
      BY DEF CmdHolds
    <2>5. StateTypes' /\ BrokerTypes'
      BY <2>1, <2>2, <2>3, <2>4, UpdateType
    <2>6. LoopInv'
      BY <2>1, <2>2, <2>3 DEF LoopInv, Publishing
    <2> QED BY <1>1, <2>1, <2>2, <2>5, <2>6
  <1>4. CASE LoopLeft
    <2>1. /\ TakeEvent("left") /\ loop = "select" /\ UNCHANGED <<loopPayload, loopTopic>>
          /\ loop' = "topic" /\ loopDev' = Head(eventCh).dev
          /\ UNCHANGED <<tables, pc, dev, topicNames, retained, overlap, excuse, states, discovery>>
      BY <1>4 DEF LoopLeft, TakeEvent, discVars, topicVars
    <2>2. QueueInv' /\ Head(eventCh).dev \in Device
      BY <2>1, TakeType
    <2> QED BY <1>1, <2>1, <2>2 DEF LoopInv, Publishing, StateTypes, BrokerTypes
  <1>5. CASE LoopTopic
    <2>1. /\ loop = "topic"
          /\ UNCHANGED <<tables, pc, dev, eventCh, topicNames, retained, overlap, excuse, states,
                         discovery, loopDev, loopPayload>>
      BY <1>5 DEF LoopTopic, discVars, topicVars
    <2>2. PICK found \in cachedTopicName(loopDev) : loop' = found.at /\ loopTopic' = found.topic
      BY <1>5 DEF LoopTopic
    <2>3. loopDev \in Device
      BY <2>1 DEF LoopInv, Publishing
    <2>4. loop' \in {"fill", "publish"} /\ loopTopic' \in Topic
      BY <2>2, <2>3, FoundType
    <2> QED BY <1>1, <2>1, <2>3, <2>4 DEF LoopInv, Publishing, StateTypes, BrokerTypes, QueueInv
  <1>6. CASE LoopFill
    <2>1. /\ loop = "fill" /\ loop' = "publish" /\ cacheTopic(loopDev, loopTopic)
          /\ UNCHANGED <<tables, pc, dev, eventCh, states, discovery, loopDev, loopPayload,
                         loopTopic>>
      BY <1>6 DEF LoopFill, discVars
    <2>2. loopDev \in Device /\ loopTopic \in Topic
      BY <2>1 DEF LoopInv, Publishing
    <2> QED BY <1>1, <2>1, <2>2, CacheType DEF LoopInv, Publishing, StateTypes, QueueInv
  <1>7. CASE LoopPublish
    <2>1. /\ loop = "publish" /\ publishState(loopDev, loopTopic, loopPayload)
          /\ loop' = "select" /\ loopDev' = None /\ loopPayload' = 0 /\ loopTopic' = None
          /\ UNCHANGED <<tables, pc, dev, eventCh, states, discovery>>
      BY <1>7 DEF LoopPublish, discVars
    <2>2. loopDev \in Device /\ loopTopic \in Topic /\ loopPayload \in Value
      BY <2>1 DEF LoopInv, Publishing
    <2>3. 0 \in Value
      BY BoundAssumption DEF Value
    <2> QED BY <1>1, <2>1, <2>2, <2>3, PublishType DEF LoopInv, Publishing, StateTypes, QueueInv
  <1>8. CASE LoopClear
    <2>1. /\ loop = "publish" /\ loopPayload = 0 /\ putState(loopDev, loopTopic, 0)
          /\ loop' = "forget" /\ loopTopic' = None
          /\ discovery' = [discovery EXCEPT ![loopDev] = None]
          /\ excuse' = [e \in Device |-> excuse[e] \ (IF e = loopDev THEN {loopTopic, "config"}
                                                      ELSE {loopTopic})]
          /\ UNCHANGED <<tables, pc, dev, eventCh, states, loopDev, loopPayload>>
      BY <1>8 DEF LoopClear, discVars
    <2>2. loopDev \in Device /\ loopTopic \in Topic /\ loopPayload \in Value
      BY <2>1 DEF LoopInv, Publishing
    <2>3. /\ topicNames' = topicNames /\ overlap' \in [Device -> BOOLEAN]
          /\ retained' \in [Topic -> [dev : Device, val : Value] \cup {None}]
      BY <2>1, <2>2, PutType
    <2>4. BrokerTypes'
      BY <2>1, <2>2, <2>3 DEF BrokerTypes
    <2> QED BY <1>1, <2>1, <2>2, <2>4 DEF LoopInv, Publishing, StateTypes, QueueInv
  <1>9. CASE LoopForget
    <2>1. /\ loop = "forget" /\ loop' = "select" /\ loopDev' = None
          /\ states' = [states EXCEPT ![loopDev] = 0]
          /\ topicNames' = [topicNames EXCEPT ![loopDev] = None]
          /\ excuse' = [excuse EXCEPT ![loopDev] = excuse[loopDev] \cup RetainedOf(loopDev)]
          /\ UNCHANGED <<tables, pc, dev, eventCh, retained, overlap, discovery, loopPayload,
                         loopTopic>>
      BY <1>9 DEF LoopForget, discVars
    <2>2. RetainedOf(loopDev) \subseteq Topic /\ 0 \in Value
      BY BoundAssumption DEF RetainedOf, Value
    <2>3. StateTypes' /\ BrokerTypes'
      BY <2>1, <2>2 DEF StateTypes, BrokerTypes
    <2> QED BY <1>1, <2>1, <2>3 DEF LoopInv, Publishing, QueueInv
  <1>10. CASE LoopEnds
    BY <1>1, <1>10 DEF LoopEnds, discVars, topicVars, LoopInv, Publishing, StateTypes, BrokerTypes,
       QueueInv
  <1>11. CASE LoopAnnounce
    <2>1. /\ TakeEvent("announce")
          /\ UNCHANGED <<tables, loop, loopDev, loopPayload, loopTopic>>
          /\ UNCHANGED <<topicNames, states, retained, overlap, excuse, discovery>>
      BY <1>11 DEF LoopAnnounce, loopVars, topicVars
    <2>2. QueueInv' /\ Head(eventCh).dev \in Device
      BY <2>1, TakeType
    <2>3. PICK w \in Disc : /\ pc[w] = "none"
                            /\ pc' = [pc EXCEPT ![w] = "spawned"]
                            /\ dev' = [dev EXCEPT ![w] = Head(eventCh).dev]
      BY <1>11 DEF LoopAnnounce
    <2>4. DiscTypes' /\ DiscInv' /\ CopyInv'
      BY <2>1, <2>2, <2>3 DEF DiscTypes, DiscInv, CopyInv, Announcing, DiscPc
    <2> QED BY <1>0, <2>1, <2>2, <2>4 DEF EnvInv, LoopInv, CmdInv, ConnInv, StateTypes, BrokerTypes,
               UpsetType
  <1> QED BY <1>2, <1>3, <1>4, <1>5, <1>6, <1>7, <1>8, <1>9, <1>10, <1>11 DEF eventLoop

LEMMA DiscTableType ==
    ASSUME TypeInv, NEW w \in Disc, delayedDiscovery(w)
    PROVE  DiscTypes' /\ DiscInv' /\ CopyInv'
  <1> USE DEF TypeInv
  <1>1. CASE DiscRegister(w)
    <2>1. dev[w] \in Device /\ pc[w] = "spawned" /\ ticks[w] = 0
      BY <1>1 DEF DiscInv, DiscRegister, DiscGoto
    <2>2. /\ pc' = [pc EXCEPT ![w] = "wait"] /\ UNCHANGED <<dev, ticks, topic>>
          /\ pendingDiscovery' = [pendingDiscovery EXCEPT ![dev[w]] = w]
          /\ discoveryGen' = [discoveryGen EXCEPT ![dev[w]] = nextDiscGen + 1]
          /\ nextDiscGen' = nextDiscGen + 1
          /\ gen' = [gen EXCEPT ![w] = nextDiscGen + 1]
      BY <1>1 DEF DiscRegister, DiscGoto
    <2>3. cancelled' \in [Disc -> BOOLEAN]
      BY <1>1, <2>1, Zenon DEF DiscRegister, DiscTypes
    <2>4. DiscTypes'
      <3>1. /\ pendingDiscovery' \in [Device -> Disc \cup {None}]
            /\ discoveryGen' \in [Device -> Nat] /\ nextDiscGen' \in Nat
            /\ gen' \in [Disc -> Nat]
        BY <2>1, <2>2 DEF DiscTypes
      <3>2. /\ pc' \in [Disc -> DiscPc] /\ dev' \in [Disc -> Device \cup {None}]
            /\ ticks' \in [Disc -> 0 .. MaxTicks]
        BY <2>2 DEF DiscTypes, DiscPc
      <3> QED BY <2>3, <3>1, <3>2 DEF DiscTypes
    <2>5. DiscInv' /\ CopyInv'
      BY <2>1, <2>2, BoundAssumption DEF DiscTypes, DiscInv, CopyInv, Announcing
    <2> QED BY <2>4, <2>5
  <1>2. CASE DiscTick(w)
    <2>1. UNCHANGED <<pendingDiscovery, discoveryGen, nextDiscGen, dev, gen, cancelled>>
          /\ pc[w] = "wait" /\ dev[w] \in Device /\ ticks[w] < MaxTicks
      BY <1>2 DEF DiscTick, DiscInv, tableVars
    <2>2. CASE UNCHANGED <<ticks, topic>> /\ pc' = [pc EXCEPT ![w] = "exit"]
      BY <2>1, <2>2 DEF DiscTypes, DiscInv, DiscPc, CopyInv, Announcing
    <2>3. CASE /\ ticks' = ticks /\ pc' = [pc EXCEPT ![w] = "cache"]
               /\ topic' = [topic EXCEPT ![w] = name[dev[w]]]
      <3>1. name[dev[w]] \in Topic
        BY <2>1 DEF EnvInv
      <3> QED BY <2>1, <2>3, <3>1 DEF DiscTypes, DiscInv, DiscPc, CopyInv, Announcing
    <2>4. CASE /\ ticks' = [ticks EXCEPT ![w] = ticks[w] + 1] /\ topic' = topic
               /\ pc' = [pc EXCEPT ![w] = IF ticks[w] + 1 < MaxTicks THEN "wait" ELSE "exit"]
      <3>1. DiscTypes' /\ DiscInv'
        BY <2>1, <2>4, BoundAssumption DEF DiscTypes, DiscInv, DiscPc
      <3>2. CopyInv'
        BY <2>1, <2>4 DEF DiscTypes, CopyInv, Announcing
      <3> QED BY <3>1, <3>2
    <2> QED BY <1>2, <2>2, <2>3, <2>4 DEF DiscTick, DiscGoto
  <1>3. CASE DiscCancelled(w) \/ DiscCache(w) \/ DiscPublish(w) \/ DiscSubscribe(w)
    <2>1. UNCHANGED <<pendingDiscovery, discoveryGen, nextDiscGen, dev, gen, cancelled, ticks>>
      BY <1>3 DEF DiscCancelled, DiscCache, DiscPublish, DiscSubscribe, tableVars
    <2>2. /\ pc[w] \in {"wait", "cache", "publish", "subscribe"}
          /\ \/ topic' = topic /\ pc[w] = "wait" /\ pc' = [pc EXCEPT ![w] = "exit"]
             \/ topic' = topic /\ pc[w] = "cache" /\ pc' = [pc EXCEPT ![w] = "publish"]
             \/ topic' = topic /\ pc[w] = "publish" /\ pc' = [pc EXCEPT ![w] = "subscribe"]
             \/ topic' = [topic EXCEPT ![w] = None] /\ pc' = [pc EXCEPT ![w] = "exit"]
      BY <1>3 DEF DiscCancelled, DiscCache, DiscPublish, DiscSubscribe, DiscGoto
    <2>3. DiscTypes' /\ DiscInv'
      BY <2>1, <2>2 DEF DiscTypes, DiscInv, DiscPc
    <2>4. CopyInv'
      BY <2>1, <2>2 DEF DiscTypes, CopyInv, Announcing
    <2> QED BY <2>3, <2>4
  <1>4. CASE DiscCleanup(w)
    <2>1. /\ pc' = [pc EXCEPT ![w] = "gone"] /\ dev' = [dev EXCEPT ![w] = None]
          /\ gen' = [gen EXCEPT ![w] = 0] /\ ticks' = [ticks EXCEPT ![w] = 0]
          /\ nextDiscGen' = nextDiscGen /\ topic' = topic
      BY <1>4 DEF DiscCleanup, DiscGoto
    <2>2. cancelled' \in [Disc -> BOOLEAN]
      BY <1>4, Zenon DEF DiscCleanup, DiscTypes
    <2>3. /\ pendingDiscovery' \in [Device -> Disc \cup {None}]
          /\ discoveryGen' \in [Device -> Nat]
      BY <1>4 DEF DiscCleanup, DiscTypes
    <2>4. /\ pc' \in [Disc -> DiscPc] /\ dev' \in [Disc -> Device \cup {None}]
          /\ gen' \in [Disc -> Nat] /\ nextDiscGen' \in Nat
          /\ ticks' \in [Disc -> 0 .. MaxTicks]
      BY <2>1, BoundAssumption DEF DiscTypes, DiscPc
    <2>5. DiscInv' /\ CopyInv'
      BY <2>1 DEF DiscTypes, DiscInv, CopyInv, Announcing
    <2> QED BY <2>2, <2>3, <2>4, <2>5 DEF DiscTypes
  <1> QED BY <1>1, <1>2, <1>3, <1>4 DEF delayedDiscovery

\* What a discovery does at the broker.
LEMMA DiscBroker ==
    ASSUME TypeInv, NEW w \in Disc, delayedDiscovery(w)
    PROVE  /\ BrokerTypes' /\ subscribed' \in [Topic -> Device \cup {None}]
  <1> USE DEF TypeInv
  <1>1. pc[w] \in Announcing => dev[w] \in Device /\ topic[w] \in Topic
    BY DEF DiscInv, CopyInv, Announcing
  <1>2. CASE DiscCache(w)
    BY <1>1, <1>2, CacheType DEF DiscCache, DiscGoto, Announcing, ConnInv
  <1>3. CASE DiscPublish(w)
    BY <1>1, <1>3, PublishDiscoveryType DEF DiscPublish, DiscGoto, Announcing, ConnInv
  <1>4. CASE DiscSubscribe(w)
    BY <1>1, <1>4 DEF DiscSubscribe, DiscGoto, subscribe, Announcing, ConnInv, BrokerTypes, topicVars
  <1>5. CASE DiscRegister(w) \/ DiscTick(w) \/ DiscCancelled(w) \/ DiscCleanup(w)
    <2>1. UNCHANGED <<topicNames, retained, overlap, excuse, discovery, subscribed>>
      BY <1>5 DEF DiscRegister, DiscTick, DiscCancelled, DiscCleanup, topicVars
    <2> QED BY <2>1 DEF BrokerTypes, ConnInv
  <1> QED BY <1>2, <1>3, <1>4, <1>5 DEF delayedDiscovery

LEMMA DiscType == ASSUME TypeInv, NEW w \in Disc, delayedDiscovery(w) PROVE TypeInv'
  <1>0. /\ UNCHANGED <<record, name, handler, leaving, happened, upset, eventCh, states, stop>>
        /\ UNCHANGED <<loop, loopDev, loopPayload, loopTopic, cmd, cmdDev, cmdPayload, cmdTopic>>
        /\ UNCHANGED <<connected, conn, todo, copy, unlisted>>
    BY DiscFrame DEF discRest, envVars, loopVars, cmdVars, connVars
  <1> QED BY <1>0, DiscBroker, DiscTableType DEF TypeInv, EnvInv, QueueInv, LoopInv, CmdInv, ConnInv,
               StateTypes, UpsetType

LEMMA CmdType == ASSUME TypeInv, handleCommand PROVE TypeInv'
  <1>0. /\ UNCHANGED <<record, name, handler, leaving, upset, eventCh>>
        /\ UNCHANGED <<loop, loopDev, loopPayload, loopTopic>>
        /\ UNCHANGED <<pendingDiscovery, discoveryGen, nextDiscGen, pc, dev, gen, cancelled, ticks>>
        /\ UNCHANGED <<topic, connected, conn, todo, copy, unlisted, subscribed, stop, discovery>>
    BY CmdFrame DEF cmdRest, discVars, loopVars, connVars
  <1>1. ASSUME happened' \in Value, CmdInv', StateTypes', BrokerTypes'
        PROVE  TypeInv'
    BY <1>0, <1>1 DEF TypeInv, EnvInv, QueueInv, DiscTypes, DiscInv, CopyInv, LoopInv, ConnInv,
       UpsetType
  <1> USE DEF TypeInv
  <1>2. CASE CommandSent
    <2>1. /\ cmd = "send" /\ Happens /\ updateState(cmdDev, happened', LoopHolds(cmdDev))
          /\ cmd' = "topic" /\ cmdPayload' = happened' /\ UNCHANGED <<cmdDev, cmdTopic>>
      BY <1>2 DEF CommandSent
    <2>2. cmdDev \in Device /\ happened' \in Value \ {0} /\ LoopHolds(cmdDev) \in BOOLEAN
      BY <2>1, HappensType DEF CmdInv, EnvInv, LoopHolds
    <2>3. StateTypes' /\ BrokerTypes'
      BY <1>0, <2>1, <2>2, UpdateType
    <2>4. CmdInv'
      BY <2>1, <2>2 DEF CmdInv, Publishing
    <2> QED BY <1>1, <2>2, <2>3, <2>4
  <1>3. CASE CommandTopic
    <2>1. cmd = "topic" /\ UNCHANGED <<cmdDev, cmdPayload, happened, topicVars, states>>
      BY <1>3 DEF CommandTopic
    <2>2. PICK found \in cachedTopicName(cmdDev) : cmd' = found.at /\ cmdTopic' = found.topic
      BY <1>3 DEF CommandTopic
    <2>3. cmd' \in {"fill", "publish"} /\ cmdTopic' \in Topic
      BY <2>1, <2>2, FoundType DEF CmdInv
    <2> QED BY <1>0, <1>1, <2>1, <2>3 DEF CmdInv, Publishing, EnvInv, StateTypes, BrokerTypes, topicVars
  <1>4. CASE CommandFill
    <2>1. /\ cmd = "fill" /\ cmd' = "publish" /\ cacheTopic(cmdDev, cmdTopic)
          /\ UNCHANGED <<cmdDev, cmdPayload, cmdTopic, happened, states>>
      BY <1>4 DEF CommandFill
    <2>2. cmdDev \in Device /\ cmdTopic \in Topic
      BY <2>1 DEF CmdInv
    <2>3. BrokerTypes'
      BY <1>0, <2>1, <2>2, CacheType
    <2> QED BY <1>1, <2>1, <2>2, <2>3 DEF CmdInv, Publishing, EnvInv, StateTypes
  <1>5. CASE CommandPublish
    <2>1. /\ cmd = "publish" /\ publishState(cmdDev, cmdTopic, cmdPayload)
          /\ cmdPayload' = 0 /\ cmdTopic' = None /\ UNCHANGED <<happened, states>>
          /\ \/ cmd' = "idle" /\ cmdDev' = None
             \/ cmd' = "send" /\ cmdDev' = cmdDev
      BY <1>5 DEF CommandPublish
    <2>2. cmdDev \in Device /\ cmdTopic \in Topic /\ cmdPayload \in Value /\ 0 \in Value
      BY <2>1, BoundAssumption DEF CmdInv, Value
    <2>3. BrokerTypes'
      BY <1>0, <2>1, <2>2, PublishType
    <2> QED BY <1>1, <2>1, <2>2, <2>3 DEF CmdInv, Publishing, EnvInv, StateTypes
  <1>6. CASE CommandLeavesState \/ \E d \in Device : CommandArrives(d)
    <2>1. UNCHANGED <<happened, states, topicNames, retained, overlap, excuse>>
      BY <1>6 DEF CommandLeavesState, CommandArrives, topicVars
    <2>2. CmdInv'
      BY <1>6 DEF CommandLeavesState, CommandArrives, CmdInv, Publishing
    <2> QED BY <1>0, <1>1, <2>1, <2>2 DEF EnvInv, StateTypes, BrokerTypes
  <1> QED BY <1>2, <1>3, <1>4, <1>5, <1>6 DEF handleCommand

LEMMA ConnType ==
    ASSUME TypeInv, ConnectionLost \/ Connect \/ OnConnect \/ Stop \/ Stopping \/ UNCHANGED vars
    PROVE  TypeInv'
  <1>0. /\ UNCHANGED <<record, name, handler, leaving, upset, eventCh, states>>
        /\ UNCHANGED <<loop, loopDev, loopPayload, loopTopic, cmd, cmdDev, cmdPayload, cmdTopic>>
        /\ UNCHANGED <<pendingDiscovery, discoveryGen, nextDiscGen, pc, dev, gen, cancelled, ticks>>
        /\ UNCHANGED topic
    BY ConnFrame, StopFrame DEF connRest, stopRest, vars, envVars, discVars, loopVars, cmdVars
  <1>1. ASSUME happened' \in Value, ConnInv', BrokerTypes' PROVE TypeInv'
    BY <1>0, <1>1 DEF TypeInv, EnvInv, QueueInv, DiscTypes, DiscInv, CopyInv, LoopInv, CmdInv,
       StateTypes, UpsetType
  <1> USE DEF TypeInv
  <1>2. CASE ConnCache
    <2>1. /\ conn' = "publish" /\ copy' \in todo /\ todo' = todo \ {copy'}
          /\ cacheTopic(copy'[1], copy'[2])
          /\ UNCHANGED <<connected, unlisted, subscribed, happened, discovery, stop>>
      BY <1>2 DEF ConnCache, connRest
    <2>2. copy' \in Device \X Topic /\ copy'[1] \in Device /\ copy'[2] \in Topic
      BY <2>1 DEF ConnInv
    <2>3. BrokerTypes'
      BY <2>1, <2>2, CacheType
    <2> QED BY <1>1, <2>1, <2>2, <2>3 DEF ConnInv, EnvInv
  <1>3. CASE ConnPublish
    <2>1. /\ conn = "publish" /\ conn' = "cache" /\ publishDiscovery(copy[1], copy[2])
          /\ copy' = None /\ UNCHANGED <<connected, todo, unlisted, subscribed, happened, stop>>
      BY <1>3 DEF ConnPublish, connRest
    <2>2. copy[1] \in Device /\ copy[2] \in Topic
      BY <2>1 DEF ConnInv
    <2>3. BrokerTypes'
      BY <2>2, <2>1, PublishDiscoveryType
    <2> QED BY <1>1, <2>1, <2>3 DEF ConnInv, EnvInv
  <1>4. CASE ~ConnCache /\ ~ConnPublish
    <2>1. UNCHANGED <<topicNames, retained, overlap, excuse, discovery>>
      BY <1>4 DEF ConnectionLost, Connect, OnConnect, ConnList, ConnRelist, ConnSubscribe, Stop,
                  Stopping, StopWaitsLoop, StopReturns, stopRest, vars, topicVars
    <2>2. happened' \in Value /\ ConnInv'
      <3>1. CASE ConnectionLost
        BY <3>1, HappensType DEF ConnectionLost, connRest, ConnInv, EnvInv
      <3>2. CASE Connect
        BY <3>2 DEF Connect, connRest, ConnInv, EnvInv
      <3>3. CASE ConnList \/ ConnRelist
        BY <3>3, InterviewedType DEF ConnList, ConnRelist, connRest, ConnInv, EnvInv
      <3>4. CASE ConnSubscribe
        <4>1. CASE todo = {}
          BY <3>4, <4>1 DEF ConnSubscribe, connRest, ConnInv, EnvInv
        <4>2. CASE todo # {}
          <5>1. PICK p \in todo : subscribe(p[1], p[2]) /\ todo' = todo \ {p} /\ conn' = conn
            BY <3>4, <4>2 DEF ConnSubscribe
          <5>2. p[1] \in Device /\ p[2] \in Topic
            BY <5>1 DEF ConnInv
          <5>3. subscribed' \in [Topic -> Device \cup {None}]
            BY <5>1, <5>2 DEF subscribe, ConnInv
          <5>4. UNCHANGED <<connected, copy, unlisted, happened, stop>> /\ conn = "subscribe"
            BY <3>4 DEF ConnSubscribe, connRest
          <5> QED BY <5>1, <5>3, <5>4 DEF ConnInv, EnvInv
        <4> QED BY <4>1, <4>2
      <3>5. CASE Stop
        BY <3>5, HappensType DEF Stop, stopRest, ConnInv, EnvInv
      <3>6. CASE Stopping
        BY <3>6 DEF Stopping, StopWaitsLoop, StopReturns, stopRest, ConnInv, EnvInv
      <3>7. CASE UNCHANGED vars
        BY <3>7 DEF vars, connVars, envVars, ConnInv, EnvInv
      <3> QED BY <1>4, <3>1, <3>2, <3>3, <3>4, <3>5, <3>6, <3>7 DEF OnConnect
    <2> QED BY <1>1, <2>1, <2>2 DEF BrokerTypes
  <1> QED BY <1>2, <1>3, <1>4

LEMMA InitType == Init => TypeInv
  <1> SUFFICES ASSUME Init PROVE TypeInv
    OBVIOUS
  <1>0. 0 \in Value
    BY BoundAssumption DEF Value
  <1>1. EnvInv /\ LoopInv /\ CmdInv
    BY <1>0 DEF Init, EnvInv, LoopInv, CmdInv, Publishing
  <1>2. QueueInv
    <2>1. <<>> \in Seq(Event) /\ Len(<<>>) = 0
      BY EmptySeq
    <2> QED BY <2>1, BoundAssumption DEF Init, QueueInv
  <1>3. DiscTypes /\ DiscInv
    BY BoundAssumption DEF Init, DiscTypes, DiscInv, DiscPc
  <1>4. ConnInv /\ CopyInv
    BY DEF Init, ConnInv, CopyInv, Announcing
  <1>5. StateTypes /\ BrokerTypes /\ UpsetType
    BY <1>0 DEF Init, StateTypes, BrokerTypes, UpsetType
  <1> QED BY <1>1, <1>2, <1>3, <1>4, <1>5 DEF TypeInv

LEMMA NextType == TypeInv /\ [Next]_vars => TypeInv'
  BY CoordinatorType, LoopType, DiscType, CmdType, ConnType DEF Next

\* The type invariant of the bridge, with what the program counters say of the
\* local variables of each goroutine.
LEMMA Typing == Spec => []TypeInv
  BY InitType, NextType, PTL DEF Spec

\* The bridge never holds more events than its queue has room for, never polls
\* a device more often than MaxTicks, and keeps every other variable in its type.
THEOREM TypeCorrect == Spec => []TypeOK
  <1>1. TypeInv => TypeOK
    BY DEF TypeInv, EnvInv, QueueInv, DiscTypes, CopyInv, LoopInv, CmdInv, ConnInv, StateTypes,
           BrokerTypes, UpsetType, TypeOK
  <1> QED BY <1>1, Typing, PTL

-----------------------------------------------------------------------------
(* The table of pending discoveries.                                       *)

\* Everyone but the loop's announce and the discoveries themselves leaves the
\* table alone.
LEMMA TableFrame ==
    ASSUME [Next]_vars, ~LoopAnnounce, \A w \in Disc : ~delayedDiscovery(w)
    PROVE  UNCHANGED <<pendingDiscovery, discoveryGen, nextDiscGen, pc, dev, gen, cancelled, ticks>>
  <1>1. CASE eventLoop
    BY <1>1 DEF eventLoop, LoopIgnore, LoopReport, LoopLeft, LoopTopic, LoopFill, LoopPublish,
       LoopClear, LoopForget, LoopEnds, discVars
  <1>2. CASE ~eventLoop
    BY <1>2, Actors DEF envRest, cmdRest, connRest, stopRest, vars, discVars
  <1> QED BY <1>1, <1>2

LEMMA AnnounceSpawns ==
    ASSUME TypeInv, LoopAnnounce
    PROVE  \E w \in Disc : /\ pc[w] = "none" /\ Head(eventCh).dev \in Device
                           /\ pc' = [pc EXCEPT ![w] = "spawned"]
                           /\ dev' = [dev EXCEPT ![w] = Head(eventCh).dev]
                           /\ UNCHANGED <<pendingDiscovery, discoveryGen, nextDiscGen, gen,
                                          cancelled, ticks>>
  BY TakeType DEF LoopAnnounce, TypeInv

\* A step of one discovery inside its loop or to its end.
LEMMA MoveRegistry ==
    ASSUME TypeInv, RegistryInv, NEW w \in Disc, pc[w] \in Waiting, NEW p \in Waiting,
           pc' = [pc EXCEPT ![w] = p],
           UNCHANGED <<pendingDiscovery, discoveryGen, nextDiscGen, dev, gen, cancelled>>
    PROVE  RegistryInv'
  <1>1. \A v \in Disc : pc'[v] \in Waiting <=> pc[v] \in Waiting
    BY DEF TypeInv, DiscTypes
  <1>2. \A v \in Disc : pc'[v] \in {"none", "spawned"} => pc[v] \in {"none", "spawned"}
    BY DEF TypeInv, DiscTypes, Waiting
  <1>3. \A d \in Device : pendingDiscovery[d] # None => pendingDiscovery[d] \in Disc
    BY DEF TypeInv, DiscTypes
  <1> QED BY <1>1, <1>2, <1>3 DEF RegistryInv

LEMMA RegisterRegistry ==
    ASSUME TypeInv, RegistryInv, NEW w \in Disc, DiscRegister(w)
    PROVE  /\ RegistryInv'
           /\ dev[w] \in Device /\ pc[w] = "spawned" /\ pc' = [pc EXCEPT ![w] = "wait"] /\ dev' = dev
           /\ ~cancelled'[w]
           /\ \A v \in Disc : cancelled[v] => cancelled'[v]
           /\ \A v \in Disc : pc[v] \in Waiting /\ dev[v] = dev[w] => cancelled'[v]
           /\ \A v \in Disc : pc[v] \in Waiting /\ dev[v] # dev[w] => cancelled'[v] = cancelled[v]
  <1> DEFINE d == dev[w]
             n == nextDiscGen + 1
             old == pendingDiscovery[d]
  <1>1. d \in Device /\ pc[w] = "spawned" /\ ~cancelled[w] /\ nextDiscGen \in Nat
    BY DEF TypeInv, DiscTypes, DiscInv, RegistryInv, DiscRegister, DiscGoto
  <1>2. /\ pc' = [pc EXCEPT ![w] = "wait"] /\ UNCHANGED dev
        /\ pendingDiscovery' = [pendingDiscovery EXCEPT ![d] = w]
        /\ discoveryGen' = [discoveryGen EXCEPT ![d] = n]
        /\ nextDiscGen' = n /\ gen' = [gen EXCEPT ![w] = n]
    BY DEF DiscRegister, DiscGoto
  <1>3. cancelled' = IF old = None THEN cancelled ELSE [cancelled EXCEPT ![old] = TRUE]
    BY DEF DiscRegister
  <1>4. old # None => old \in Disc /\ pc[old] \in Waiting /\ dev[old] = d
    BY <1>1 DEF TypeInv, DiscTypes, RegistryInv
  <1>5. \A v \in Disc : cancelled'[v] <=> cancelled[v] \/ (old # None /\ v = old)
    BY <1>3, <1>4 DEF TypeInv, DiscTypes
  <1>6. w # old /\ w # None
    BY <1>1, <1>4, NoneAssumption DEF Waiting
  <1>7. ~cancelled'[w]
    BY <1>1, <1>5, <1>6
  <1>8. \A v \in Disc : pc[v] \in Waiting /\ dev[v] = d => cancelled'[v]
    BY <1>5, <1>6, NoneAssumption DEF RegistryInv
  <1>9. \A v \in Disc : pc[v] \in Waiting /\ dev[v] # d => cancelled'[v] = cancelled[v]
    BY <1>3, <1>4 DEF TypeInv, DiscTypes
  <1>10. \A v \in Disc : /\ v # w => pc'[v] = pc[v] /\ gen'[v] = gen[v]
                         /\ pc'[w] = "wait" /\ gen'[w] = n /\ gen[v] \in Nat
    BY <1>2 DEF TypeInv, DiscTypes
  <1>11. \A e \in Device : /\ e # d => /\ pendingDiscovery'[e] = pendingDiscovery[e]
                                       /\ discoveryGen'[e] = discoveryGen[e]
                           /\ pendingDiscovery'[d] = w /\ discoveryGen'[d] = n
    BY <1>1, <1>2 DEF TypeInv, DiscTypes
  <1> HIDE DEF old, n
  <1>12. n > 0 /\ n > nextDiscGen /\ n \in Nat
    BY <1>1 DEF n
  <1>13. RegistryInv'
    <2>1. \A v \in Disc : pc'[v] \in {"none", "spawned"} => ~cancelled'[v]
      <3>1. ASSUME NEW v \in Disc, pc'[v] \in {"none", "spawned"} PROVE ~cancelled'[v]
        <4>1. v # w /\ pc[v] \in {"none", "spawned"}
          BY <3>1, <1>10
        <4>2. ~(old # None /\ v = old)
          BY <4>1, <1>4 DEF Waiting
        <4> QED BY <4>1, <4>2, <1>5 DEF RegistryInv
      <3> QED BY <3>1
    <2>2. \A v \in Disc : pc'[v] \in Waiting => gen'[v] > 0 /\ gen'[v] <= nextDiscGen'
      BY <1>1, <1>2, <1>10, <1>12 DEF RegistryInv
    <2>3. \A u, v \in Disc : pc'[u] \in Waiting /\ pc'[v] \in Waiting /\ gen'[u] = gen'[v] => u = v
      BY <1>1, <1>10, <1>12 DEF RegistryInv
    <2>4. \A e \in Device : pendingDiscovery'[e] = None => discoveryGen'[e] = 0
      BY <1>6, <1>11 DEF RegistryInv
    <2>5. \A e \in Device : pendingDiscovery'[e] # None =>
             /\ pc'[pendingDiscovery'[e]] \in Waiting
             /\ dev'[pendingDiscovery'[e]] = e
             /\ gen'[pendingDiscovery'[e]] = discoveryGen'[e]
      <3>1. ASSUME NEW e \in Device, pendingDiscovery'[e] # None
            PROVE  /\ pc'[pendingDiscovery'[e]] \in Waiting
                   /\ dev'[pendingDiscovery'[e]] = e
                   /\ gen'[pendingDiscovery'[e]] = discoveryGen'[e]
        <4>1. CASE e = d
          BY <4>1, <1>2, <1>10, <1>11 DEF Waiting
        <4>2. CASE e # d
          <5>1. pendingDiscovery[e] \in Disc /\ pc[pendingDiscovery[e]] \in Waiting
            BY <3>1, <4>2, <1>11 DEF RegistryInv, TypeInv, DiscTypes
          <5>2. pendingDiscovery[e] # w
            BY <5>1, <1>1 DEF Waiting
          <5> QED BY <3>1, <4>2, <5>1, <5>2, <1>2, <1>10, <1>11 DEF RegistryInv
        <4> QED BY <4>1, <4>2
      <3> QED BY <3>1
    <2>6. \A v \in Disc : pc'[v] \in Waiting /\ ~cancelled'[v] => pendingDiscovery'[dev'[v]] = v
      <3>1. ASSUME NEW v \in Disc, pc'[v] \in Waiting, ~cancelled'[v]
            PROVE  pendingDiscovery'[dev'[v]] = v
        <4>1. CASE v = w
          BY <4>1, <1>1, <1>2, <1>11
        <4>2. CASE v # w
          <5>1. pc[v] \in Waiting /\ ~cancelled[v] /\ dev[v] # d
            BY <3>1, <4>2, <1>5, <1>8, <1>10
          <5>2. dev[v] \in Device
            BY <5>1 DEF TypeInv, DiscInv, Waiting
          <5> QED BY <5>1, <5>2, <1>2, <1>11 DEF RegistryInv
        <4> QED BY <4>1, <4>2
      <3> QED BY <3>1
    <2> QED BY <2>1, <2>2, <2>3, <2>4, <2>5, <2>6 DEF RegistryInv
  <1>14. \A v \in Disc : cancelled[v] => cancelled'[v]
    BY <1>5
  <1> QED BY <1>1, <1>2, <1>7, <1>8, <1>9, <1>13, <1>14

LEMMA CleanupRegistry ==
    ASSUME TypeInv, RegistryInv, NEW w \in Disc, DiscCleanup(w)
    PROVE  RegistryInv'
  <1> DEFINE d == dev[w]
             mine == discoveryGen[d] = gen[w]
  <1>1. d \in Device /\ pc[w] = "exit" /\ pc[w] \in Waiting
    BY DEF TypeInv, DiscInv, DiscCleanup, DiscGoto, Waiting
  <1>2. /\ pc' = [pc EXCEPT ![w] = "gone"] /\ dev' = [dev EXCEPT ![w] = None]
        /\ gen' = [gen EXCEPT ![w] = 0] /\ nextDiscGen' = nextDiscGen
        /\ cancelled' = [cancelled EXCEPT ![w] = TRUE]
    BY DEF DiscCleanup, DiscGoto
  <1>3. /\ pendingDiscovery' = [pendingDiscovery EXCEPT ![d] = IF mine THEN None ELSE pendingDiscovery[d]]
        /\ discoveryGen' = [discoveryGen EXCEPT ![d] = IF mine THEN 0 ELSE discoveryGen[d]]
    BY DEF DiscCleanup
  <1>4. pendingDiscovery[d] = w <=> mine
    <2>1. pendingDiscovery[d] \in Disc \cup {None} /\ gen[w] > 0 /\ gen[w] \in Nat /\ w # None
      BY <1>1, NoneAssumption DEF TypeInv, DiscTypes, RegistryInv
    <2>2. CASE pendingDiscovery[d] = None
      BY <1>1, <2>1, <2>2 DEF RegistryInv
    <2>3. CASE pendingDiscovery[d] # None
      BY <1>1, <2>1, <2>3 DEF RegistryInv
    <2> QED BY <2>2, <2>3
  <1> HIDE DEF mine
  <1>5. \A e \in Device : \/ /\ pendingDiscovery[e] = w /\ e = d
                             /\ pendingDiscovery'[e] = None /\ discoveryGen'[e] = 0
                          \/ /\ pendingDiscovery[e] # w
                             /\ pendingDiscovery'[e] = pendingDiscovery[e]
                             /\ discoveryGen'[e] = discoveryGen[e]
    <2>1. ASSUME NEW e \in Device, e # d PROVE pendingDiscovery[e] # w
      BY <1>1, <2>1, NoneAssumption DEF RegistryInv
    <2>2. CASE mine
      BY <1>1, <1>3, <1>4, <2>1, <2>2 DEF TypeInv, DiscTypes
    <2>3. CASE ~mine
      BY <1>1, <1>3, <1>4, <2>1, <2>3 DEF TypeInv, DiscTypes
    <2> QED BY <2>2, <2>3
  <1>6. \A v \in Disc : /\ v # w => pc'[v] = pc[v] /\ gen'[v] = gen[v] /\ dev'[v] = dev[v]
                        /\ pc'[w] = "gone"
    BY <1>2 DEF TypeInv, DiscTypes
  <1>7. \A v \in Disc : v # w => cancelled'[v] = cancelled[v]
    BY <1>2 DEF TypeInv, DiscTypes
  <1>8. \A v \in Disc : pc'[v] \in Waiting \cup {"none", "spawned"} => v # w
    BY <1>6 DEF Waiting
  <1>9. \A e \in Device : pendingDiscovery[e] # None => pendingDiscovery[e] \in Disc
    BY DEF TypeInv, DiscTypes
  <1>10. \A v \in Disc : pc[v] \in Waiting => dev[v] \in Device
    BY DEF TypeInv, DiscInv, Waiting
  <1>11. \A v \in Disc : pc'[v] \in {"none", "spawned"} => ~cancelled'[v]
    BY <1>6, <1>7, <1>8 DEF RegistryInv
  <1>12. \A v \in Disc : pc'[v] \in Waiting => gen'[v] > 0 /\ gen'[v] <= nextDiscGen'
    BY <1>2, <1>6, <1>8 DEF RegistryInv
  <1>13. \A u, v \in Disc : pc'[u] \in Waiting /\ pc'[v] \in Waiting /\ gen'[u] = gen'[v] => u = v
    BY <1>6, <1>8 DEF RegistryInv
  <1>14. \A e \in Device : pendingDiscovery'[e] = None => discoveryGen'[e] = 0
    BY <1>5 DEF RegistryInv
  <1>15. \A e \in Device : pendingDiscovery'[e] # None =>
             /\ pc'[pendingDiscovery'[e]] \in Waiting
             /\ dev'[pendingDiscovery'[e]] = e
             /\ gen'[pendingDiscovery'[e]] = discoveryGen'[e]
    BY <1>5, <1>6, <1>9 DEF RegistryInv
  <1>16. \A v \in Disc : pc'[v] \in Waiting /\ ~cancelled'[v] => pendingDiscovery'[dev'[v]] = v
    BY <1>5, <1>6, <1>7, <1>8, <1>10 DEF RegistryInv
  <1> QED BY <1>11, <1>12, <1>13, <1>14, <1>15, <1>16 DEF RegistryInv

\* The steps of a discovery between its registration and its cleanup.
LEMMA WaitingMoves ==
    ASSUME TypeInv, NEW w \in Disc, delayedDiscovery(w), ~DiscRegister(w), ~DiscCleanup(w)
    PROVE  /\ pc[w] \in Waiting /\ \E p \in Waiting : pc' = [pc EXCEPT ![w] = p]
           /\ UNCHANGED <<pendingDiscovery, discoveryGen, nextDiscGen, dev, gen, cancelled>>
  BY DEF delayedDiscovery, DiscTick, DiscCancelled, DiscCache, DiscPublish, DiscSubscribe, DiscGoto,
         Waiting, tableVars

LEMMA NextRegistry == TypeInv /\ RegistryInv /\ [Next]_vars => RegistryInv'
  <1> SUFFICES ASSUME TypeInv, RegistryInv, [Next]_vars PROVE RegistryInv'
    OBVIOUS
  <1>1. CASE LoopAnnounce
    <2>1. PICK w \in Disc : /\ pc[w] = "none" /\ Head(eventCh).dev \in Device
                            /\ pc' = [pc EXCEPT ![w] = "spawned"]
                            /\ dev' = [dev EXCEPT ![w] = Head(eventCh).dev]
                            /\ UNCHANGED <<pendingDiscovery, discoveryGen, nextDiscGen, gen,
                                           cancelled, ticks>>
      BY <1>1, AnnounceSpawns
    <2>2. \A v \in Disc : /\ v # w => pc'[v] = pc[v] /\ dev'[v] = dev[v]
                          /\ pc'[w] = "spawned"
      BY <2>1 DEF TypeInv, DiscTypes
    <2>3. \A v \in Disc : /\ pc'[v] \in Waiting <=> pc[v] \in Waiting
                          /\ pc[v] \in Waiting => dev'[v] = dev[v]
                          /\ pc'[v] \in {"none", "spawned"} => pc[v] \in {"none", "spawned"}
      BY <2>1, <2>2 DEF Waiting
    <2>4. \A d \in Device : pendingDiscovery[d] # None => pendingDiscovery[d] \in Disc
      BY DEF TypeInv, DiscTypes
    <2> QED BY <2>1, <2>3, <2>4 DEF RegistryInv
  <1>2. ASSUME NEW w \in Disc, delayedDiscovery(w) PROVE RegistryInv'
    BY <1>2, RegisterRegistry, CleanupRegistry, WaitingMoves, MoveRegistry
  <1>3. CASE ~LoopAnnounce /\ \A w \in Disc : ~delayedDiscovery(w)
    BY <1>3, TableFrame DEF RegistryInv
  <1> QED BY <1>1, <1>2, <1>3

LEMMA Registered == Spec => [](TypeInv /\ RegistryInv)
  <1>1. Init => RegistryInv
    BY DEF Init, RegistryInv, Waiting
  <1> QED BY <1>1, NextRegistry, Typing, PTL DEF Spec

\* A step after which the same discoveries are live and begun.
LEMMA SameTable ==
    ASSUME \A w \in Disc : /\ pc'[w] \in Waiting <=> pc[w] \in Waiting
                           /\ pc'[w] = "gone" <=> pc[w] = "gone"
                           /\ pc[w] \in Waiting => dev'[w] = dev[w] /\ cancelled'[w] = cancelled[w]
    PROVE  UNCHANGED Latest!vars
  <1>1. \A d \in Device : LiveDiscoveries'[d] = LiveDiscoveries[d]
    BY DEF LiveDiscoveries
  <1>2. LiveDiscoveries' = LiveDiscoveries
    BY <1>1 DEF LiveDiscoveries
  <1>3. BegunDiscoveries' = BegunDiscoveries
    BY DEF BegunDiscoveries
  <1> QED BY <1>2, <1>3 DEF Latest!vars

LEMMA RegisterBegins ==
    ASSUME TypeInv, RegistryInv, NEW w \in Disc, DiscRegister(w)
    PROVE  Latest!Next
  <1>1. /\ dev[w] \in Device /\ pc[w] = "spawned" /\ pc' = [pc EXCEPT ![w] = "wait"] /\ dev' = dev
        /\ ~cancelled'[w]
        /\ \A v \in Disc : pc[v] \in Waiting /\ dev[v] = dev[w] => cancelled'[v]
        /\ \A v \in Disc : pc[v] \in Waiting /\ dev[v] # dev[w] => cancelled'[v] = cancelled[v]
    BY RegisterRegistry
  <1>2. \A v \in Disc : (v # w => pc'[v] = pc[v]) /\ pc'[w] = "wait"
    BY <1>1 DEF TypeInv, DiscTypes
  <1>3. w \notin BegunDiscoveries /\ BegunDiscoveries' = BegunDiscoveries \cup {w}
    BY <1>1, <1>2 DEF BegunDiscoveries, Waiting
  <1>4. \A d \in Device : LiveDiscoveries'[d] = IF d = dev[w] THEN {w} ELSE LiveDiscoveries[d]
    <2>1. ASSUME NEW d \in Device, d = dev[w] PROVE LiveDiscoveries'[d] = {w}
      BY <1>1, <1>2, <2>1 DEF LiveDiscoveries, Waiting
    <2>2. ASSUME NEW d \in Device, d # dev[w] PROVE LiveDiscoveries'[d] = LiveDiscoveries[d]
      BY <1>1, <1>2, <2>2 DEF LiveDiscoveries, Waiting
    <2> QED BY <2>1, <2>2
  <1>5. LiveDiscoveries' = [LiveDiscoveries EXCEPT ![dev[w]] = {w}]
    BY <1>4 DEF LiveDiscoveries
  <1>6. Latest!Begin(dev[w], w)
    BY <1>3, <1>5 DEF Latest!Begin
  <1> QED BY <1>1, <1>6 DEF Latest!Next

LEMMA CleanupEnds ==
    ASSUME TypeInv, RegistryInv, NEW w \in Disc, DiscCleanup(w)
    PROVE  Latest!Next
  <1>1. /\ dev[w] \in Device /\ pc[w] = "exit" /\ pc' = [pc EXCEPT ![w] = "gone"]
        /\ dev' = [dev EXCEPT ![w] = None] /\ cancelled' = [cancelled EXCEPT ![w] = TRUE]
    BY DEF TypeInv, DiscInv, DiscCleanup, DiscGoto
  <1>2. \A v \in Disc : v # w => pc'[v] = pc[v] /\ dev'[v] = dev[v] /\ cancelled'[v] = cancelled[v]
    BY <1>1 DEF TypeInv, DiscTypes
  <1>3. pc'[w] = "gone"
    BY <1>1 DEF TypeInv, DiscTypes
  <1>4. BegunDiscoveries' = BegunDiscoveries
    BY <1>1, <1>2, <1>3 DEF BegunDiscoveries, Waiting
  <1> DEFINE keys == IF cancelled[w] THEN {} ELSE {dev[w]}
  <1>5. \A d \in Device : LiveDiscoveries'[d] = IF d \in keys THEN {} ELSE LiveDiscoveries[d]
    <2>1. ASSUME NEW d \in Device PROVE LiveDiscoveries'[d] = LiveDiscoveries[d] \ {w}
      BY <1>2, <1>3 DEF LiveDiscoveries, Waiting
    <2>2. ASSUME NEW d \in Device, d # dev[w] \/ cancelled[w] PROVE w \notin LiveDiscoveries[d]
      BY <2>2 DEF LiveDiscoveries
    <2>3. ASSUME ~cancelled[w], NEW v \in LiveDiscoveries[dev[w]] PROVE v = w
      BY <1>1, <2>3 DEF LiveDiscoveries, RegistryInv, Waiting
    <2>4. ASSUME NEW d \in Device, d \in keys PROVE LiveDiscoveries'[d] = {}
      BY <2>1, <2>3, <2>4
    <2>5. ASSUME NEW d \in Device, d \notin keys PROVE LiveDiscoveries'[d] = LiveDiscoveries[d]
      BY <2>1, <2>2, <2>5
    <2> QED BY <2>4, <2>5
  <1>6. keys \in SUBSET Device
    BY <1>1
  <1> HIDE DEF keys
  <1>7. LiveDiscoveries' = [d \in Device |-> IF d \in keys THEN {} ELSE LiveDiscoveries[d]]
    BY <1>5 DEF LiveDiscoveries
  <1>8. Latest!End(keys)
    BY <1>4, <1>7 DEF Latest!End
  <1> QED BY <1>6, <1>8 DEF Latest!Next

LEMMA StepRefines == TypeInv /\ RegistryInv /\ [Next]_vars => [Latest!Next]_(Latest!vars)
  <1> SUFFICES ASSUME TypeInv, RegistryInv, [Next]_vars PROVE [Latest!Next]_(Latest!vars)
    OBVIOUS
  <1>1. CASE LoopAnnounce
    <2>1. PICK w \in Disc : /\ pc[w] = "none" /\ Head(eventCh).dev \in Device
                            /\ pc' = [pc EXCEPT ![w] = "spawned"]
                            /\ dev' = [dev EXCEPT ![w] = Head(eventCh).dev]
                            /\ UNCHANGED <<pendingDiscovery, discoveryGen, nextDiscGen, gen,
                                           cancelled, ticks>>
      BY <1>1, AnnounceSpawns
    <2>2. \A v \in Disc : /\ v # w => pc'[v] = pc[v] /\ dev'[v] = dev[v]
                          /\ pc'[w] = "spawned"
      BY <2>1 DEF TypeInv, DiscTypes
    <2>3. cancelled' = cancelled
      BY <2>1
    <2> QED BY <2>1, <2>2, <2>3, SameTable DEF Waiting
  <1>2. ASSUME NEW w \in Disc, delayedDiscovery(w), ~DiscRegister(w), ~DiscCleanup(w)
        PROVE  UNCHANGED Latest!vars
    <2>1. pc[w] \in Waiting /\ UNCHANGED <<dev, cancelled>>
      BY <1>2, WaitingMoves
    <2>2. PICK p \in Waiting : pc' = [pc EXCEPT ![w] = p]
      BY <1>2, WaitingMoves
    <2>3. \A v \in Disc : (v # w => pc'[v] = pc[v]) /\ pc'[w] = p
      BY <2>2 DEF TypeInv, DiscTypes
    <2> QED BY <2>1, <2>2, <2>3, SameTable DEF Waiting
  <1>3. CASE ~LoopAnnounce /\ \A w \in Disc : ~delayedDiscovery(w)
    <2>1. UNCHANGED <<pc, dev, cancelled>>
      BY <1>3, TableFrame
    <2> QED BY <2>1, SameTable
  <1> QED BY <1>1, <1>2, <1>3, RegisterBegins, CleanupEnds

\* However announces, leaves, ticks and Stop interleave, registering a delayed
\* discovery ends the one before it, and none that was ended goes on: the
\* bridge implements LatestWorker.
THEOREM OneDiscoveryHolds == Spec => OneDiscovery
  <1>1. Init => Latest!Init
    BY DEF Init, Latest!Init, LiveDiscoveries, BegunDiscoveries, Waiting
  <1> QED BY <1>1, Registered, StepRefines, PTL DEF Spec, OneDiscovery, Latest!Spec

-----------------------------------------------------------------------------
(* The state that the broker retains.                                      *)

\* Who changes states, payloads and what is retained.
LEMMA StateFrame ==
    ASSUME [Next]_vars, ~eventLoop, ~handleCommand
    PROVE  /\ UNCHANGED <<states, retained, overlap>>
           /\ UNCHANGED <<loop, loopDev, loopPayload, cmd, cmdDev, cmdPayload>>
  <1>1. CASE Coordinator \/ Stop \/ Stopping \/ UNCHANGED vars
    BY <1>1, CoordinatorFrame, StopFrame DEF envRest, stopRest, vars, topicVars, loopVars, cmdVars
  <1>2. ASSUME NEW w \in Disc, delayedDiscovery(w) PROVE UNCHANGED <<retained, overlap>>
    BY <1>2 DEF delayedDiscovery, DiscRegister, DiscTick, DiscCancelled, DiscCache, DiscPublish,
       DiscSubscribe, DiscCleanup, topicVars, cacheTopic, publishDiscovery
  <1>3. CASE ConnectionLost \/ Connect \/ OnConnect
    <2>1. UNCHANGED <<retained, overlap>>
      BY <1>3 DEF ConnectionLost, Connect, OnConnect, ConnList, ConnCache, ConnPublish, ConnRelist,
         ConnSubscribe, topicVars, cacheTopic, publishDiscovery
    <2> QED BY <1>3, <2>1, ConnFrame DEF connRest, loopVars, cmdVars
  <1>4. ASSUME NEW w \in Disc, delayedDiscovery(w)
        PROVE  UNCHANGED <<states, loop, loopDev, loopPayload, cmd, cmdDev, cmdPayload>>
    BY <1>4, DiscFrame DEF discRest, loopVars, cmdVars
  <1> QED BY <1>1, <1>2, <1>3, <1>4 DEF Next

\* An update by one of the two, while the other may hold a payload.
LEMMA UpdateFacts ==
    ASSUME StateTypes, BrokerTypes, NEW d \in Device, NEW new, NEW other \in BOOLEAN,
           updateState(d, new, other)
    PROVE  /\ states'[d] = new /\ (overlap'[d] <=> other) /\ retained' = retained
           /\ \A e \in Device : e # d => states'[e] = states[e] /\ (overlap'[e] <=> overlap[e])
  <1>1. states'[d] = new /\ retained' = retained /\ \A e \in Device : e # d => states'[e] = states[e]
    BY DEF updateState, StateTypes
  <1>2. (overlap'[d] <=> other) /\ \A e \in Device : e # d => (overlap'[e] <=> overlap[e])
    BY DEF updateState, BrokerTypes
  <1> QED BY <1>1, <1>2

\* What replacing or removing a retained state leaves of the others.
LEMMA PutFacts ==
    ASSUME BrokerTypes, NEW d \in Device, NEW t \in Topic, NEW p \in Value, putState(d, t, p)
    PROVE  /\ p # 0 => retained'[t] = [dev |-> d, val |-> p]
           /\ p = 0 => retained'[t] = None
           /\ \A u \in Topic : u # t => retained'[u] = retained[u]
           /\ overlap'[d] <=> overlap[d]
           /\ \A e \in Device : e # d => (overlap'[e] <=> overlap[e] \/ t \in RetainedOf(e))
  <1>1. retained' = [retained EXCEPT ![t] = IF p = 0 THEN None ELSE [dev |-> d, val |-> p]]
    BY DEF putState
  <1>2. \A e \in Device : overlap'[e] <=> overlap[e] \/ (e # d /\ t \in RetainedOf(e))
    BY DEF putState
  <1>3. /\ p # 0 => retained'[t] = [dev |-> d, val |-> p]
        /\ p = 0 => retained'[t] = None
        /\ \A u \in Topic : u # t => retained'[u] = retained[u]
    BY <1>1 DEF BrokerTypes
  <1> QED BY <1>2, <1>3

\* A device that does not share the topic keeps what the broker retains of it;
\* one that does has overlapped.
LEMMA PutKeeps ==
    ASSUME BrokerTypes, NEW d \in Device, NEW t \in Topic, NEW p \in Value, putState(d, t, p),
           NEW e \in Device, e # d, ~overlap'[e], NEW v \in Value,
           \E u \in Topic : retained[u] = [dev |-> e, val |-> v]
    PROVE  ~overlap[e] /\ \E u \in Topic : retained'[u] = [dev |-> e, val |-> v]
  <1>1. PICK u \in Topic : retained[u] = [dev |-> e, val |-> v]
    OBVIOUS
  <1>2. t \notin RetainedOf(e) /\ ~overlap[e]
    <2>1. \A f \in Device : f # d => (overlap'[f] <=> overlap[f] \/ t \in RetainedOf(f))
      BY PutFacts
    <2> QED BY <2>1
  <1>3. retained[u] # None
    BY <1>1, NoneAssumption
  <1>4. u # t
    BY <1>1, <1>2, <1>3 DEF RetainedOf
  <1>5. \A x \in Topic : x # t => retained'[x] = retained[x]
    BY PutFacts
  <1> QED BY <1>1, <1>2, <1>4, <1>5

Current(d) == \E t \in Topic : retained[t] = [dev |-> d, val |-> states[d]]

LEMMA LoopState ==
    ASSUME TypeInv, PayloadInv, RetainedIsCurrent, eventLoop
    PROVE  PayloadInv' /\ RetainedIsCurrent'
  <1>0. UNCHANGED <<cmd, cmdDev, cmdPayload>>
    BY LoopFrame DEF loopRest, cmdVars
  <1> USE DEF TypeInv
  <1>1. CASE LoopReport
    <2> DEFINE d == Head(eventCh).dev
               v == Head(eventCh).value
    <2>1. /\ TakeEvent("report") /\ updateState(d, v, CmdHolds(d)) /\ loop = "select"
          /\ loop' = "topic" /\ loopDev' = d /\ loopPayload' = v
      BY <1>1 DEF LoopReport, TakeEvent
    <2>2. d \in Device
      BY <2>1, TakeType
    <2> HIDE DEF d, v
    <2>3. CmdHolds(d) \in BOOLEAN
      BY DEF CmdHolds
    <2>4. /\ states'[d] = v /\ (overlap'[d] <=> CmdHolds(d)) /\ retained' = retained
          /\ \A e \in Device : e # d => states'[e] = states[e] /\ (overlap'[e] <=> overlap[e])
      BY <2>1, <2>2, <2>3, UpdateFacts
    <2>5. \A e \in Device : (CmdHolds(e)' <=> CmdHolds(e)) /\ (LoopHolds(e)' <=> e = d)
      BY <1>0, <2>1 DEF CmdHolds, LoopHolds, Publishing
    <2>6. PayloadInv'
      BY <1>0, <2>1, <2>2, <2>4, <2>5 DEF PayloadInv
    <2>7. RetainedIsCurrent'
      BY <2>1, <2>2, <2>4, <2>5 DEF RetainedIsCurrent
    <2> QED BY <2>6, <2>7
  <1>2. CASE LoopPublish
    <2>1. /\ loop = "publish" /\ loopPayload # 0 /\ putState(loopDev, loopTopic, loopPayload)
          /\ loop' = "select" /\ loopDev' = None /\ states' = states
      BY <1>2 DEF LoopPublish, publishState
    <2>2. loopDev \in Device /\ loopTopic \in Topic /\ loopPayload \in Value
      BY <2>1 DEF LoopInv, Publishing
    <2>3. \A e \in Device : (CmdHolds(e)' <=> CmdHolds(e)) /\ ~LoopHolds(e)' /\ LoopHolds(loopDev)
      BY <1>0, <2>1 DEF CmdHolds, LoopHolds, Publishing
    <2>4. \A e \in Device : overlap[e] => overlap'[e]
      BY <2>1, <2>2, PutFacts
    <2>5. PayloadInv'
      BY <1>0, <2>1, <2>3, <2>4 DEF PayloadInv
    <2>6. ASSUME NEW e \in Device, states[e] # 0, ~overlap'[e], ~CmdHolds(e)
          PROVE  Current(e)'
      <3>1. CASE e = loopDev
        <4>1. loopPayload = states[e]
          BY <2>1, <2>3, <2>4, <2>6, <3>1 DEF PayloadInv
        <4> QED BY <2>1, <2>2, <3>1, <4>1, PutFacts DEF Current
      <3>2. CASE e # loopDev
        <4>1. Current(e)
          BY <2>4, <2>6, <3>2 DEF RetainedIsCurrent, Current
        <4> QED BY <2>1, <2>2, <2>6, <3>2, <4>1, PutKeeps DEF Current, StateTypes
      <3> QED BY <3>1, <3>2
    <2>7. RetainedIsCurrent'
      BY <2>1, <2>3, <2>6 DEF RetainedIsCurrent, Current
    <2> QED BY <2>5, <2>7
  <1>3. CASE LoopClear
    <2>1. /\ loop = "publish" /\ putState(loopDev, loopTopic, 0)
          /\ loop' = "forget" /\ loopDev' = loopDev /\ states' = states
      BY <1>3 DEF LoopClear
    <2>2. loopDev \in Device /\ loopTopic \in Topic /\ 0 \in Value
      BY <2>1, BoundAssumption DEF LoopInv, Publishing, Value
    <2>3. \A e \in Device : (CmdHolds(e)' <=> CmdHolds(e)) /\ ~LoopHolds(e)'
      BY <1>0, <2>1 DEF CmdHolds, LoopHolds, Publishing
    <2>4. \A e \in Device : overlap[e] => overlap'[e]
      BY <2>1, <2>2, PutFacts
    <2>5. PayloadInv'
      BY <1>0, <2>1, <2>3, <2>4 DEF PayloadInv
    <2>6. ASSUME NEW e \in Device, states[e] # 0, ~overlap'[e], ~CmdHolds(e), e # loopDev
          PROVE  Current(e)'
      <3>1. Current(e)
        BY <2>4, <2>6 DEF RetainedIsCurrent, Current
      <3> QED BY <2>1, <2>2, <2>6, <3>1, PutKeeps DEF Current, StateTypes
    <2>7. RetainedIsCurrent'
      BY <2>1, <2>3, <2>6 DEF RetainedIsCurrent, Current
    <2> QED BY <2>5, <2>7
  <1>4. CASE LoopForget
    <2>1. /\ states' = [states EXCEPT ![loopDev] = 0] /\ loop = "forget" /\ loop' = "select"
          /\ UNCHANGED <<retained, overlap>>
      BY <1>4 DEF LoopForget
    <2>2. \A e \in Device : states'[e] = IF e = loopDev THEN 0 ELSE states[e]
      BY <2>1 DEF StateTypes
    <2>3. \A e \in Device : (CmdHolds(e)' <=> CmdHolds(e)) /\ ~LoopHolds(e)'
      BY <1>0, <2>1 DEF CmdHolds, LoopHolds, Publishing
    <2>4. PayloadInv'
      BY <1>0, <2>1, <2>2, <2>3 DEF PayloadInv
    <2>5. RetainedIsCurrent'
      BY <2>1, <2>2, <2>3 DEF RetainedIsCurrent
    <2> QED BY <2>4, <2>5
  <1>5. CASE LoopTopic \/ LoopFill
    <2>1. /\ UNCHANGED <<states, retained, overlap, loopDev, loopPayload>>
          /\ loop \in {"topic", "fill"}
      BY <1>5 DEF LoopTopic, LoopFill, topicVars, cacheTopic
    <2>2. loop' \in {"fill", "publish"}
      <3>1. CASE LoopTopic
        BY <2>1, <3>1, FoundType DEF LoopTopic, LoopInv, Publishing
      <3> QED BY <1>5, <3>1 DEF LoopFill
    <2>3. \A e \in Device : (CmdHolds(e)' <=> CmdHolds(e)) /\ (LoopHolds(e)' <=> LoopHolds(e))
      BY <1>0, <2>1, <2>2 DEF CmdHolds, LoopHolds, Publishing
    <2>4. PayloadInv'
      BY <1>0, <2>1, <2>3 DEF PayloadInv
    <2>5. RetainedIsCurrent'
      BY <2>1, <2>2, <2>3 DEF RetainedIsCurrent
    <2> QED BY <2>4, <2>5
  <1>6. CASE LoopIgnore \/ LoopLeft \/ LoopAnnounce \/ LoopEnds
    <2>1. /\ UNCHANGED <<states, retained, overlap, loopPayload>> /\ loop = "select"
          /\ loop' \in {"select", "gone", "topic"}
      BY <1>6 DEF LoopIgnore, LoopLeft, LoopAnnounce, LoopEnds, TakeEvent, topicVars, loopVars
    <2>2. loopPayload = 0
      BY <2>1 DEF LoopInv, Publishing
    <2>3. \A e \in Device : CmdHolds(e)' <=> CmdHolds(e)
      BY <1>0 DEF CmdHolds
    <2>4. PayloadInv'
      BY <1>0, <2>1, <2>2, <2>3 DEF PayloadInv
    <2>5. RetainedIsCurrent'
      BY <2>1, <2>3 DEF RetainedIsCurrent
    <2> QED BY <2>4, <2>5
  <1> QED BY <1>1, <1>2, <1>3, <1>4, <1>5, <1>6 DEF eventLoop

LEMMA CmdState ==
    ASSUME TypeInv, PayloadInv, RetainedIsCurrent, handleCommand
    PROVE  PayloadInv' /\ RetainedIsCurrent'
  <1>0. UNCHANGED <<loop, loopDev, loopPayload>> /\ \A e \in Device : LoopHolds(e)' <=> LoopHolds(e)
    BY CmdFrame DEF cmdRest, loopVars, LoopHolds
  <1> USE DEF TypeInv
  <1>1. CASE CommandSent
    <2>1. /\ updateState(cmdDev, happened', LoopHolds(cmdDev)) /\ cmd = "send"
          /\ cmd' = "topic" /\ cmdDev' = cmdDev /\ cmdPayload' = happened'
      BY <1>1 DEF CommandSent
    <2>2. cmdDev \in Device /\ LoopHolds(cmdDev) \in BOOLEAN
      BY <2>1 DEF CmdInv, LoopHolds
    <2>3. /\ states'[cmdDev] = happened' /\ (overlap'[cmdDev] <=> LoopHolds(cmdDev))
          /\ retained' = retained
          /\ \A e \in Device : e # cmdDev => states'[e] = states[e] /\ (overlap'[e] <=> overlap[e])
      BY <2>1, <2>2, UpdateFacts
    <2>4. \A e \in Device : CmdHolds(e)' <=> e = cmdDev
      BY <2>1 DEF CmdHolds, Publishing
    <2>5. PayloadInv'
      BY <1>0, <2>1, <2>2, <2>3, <2>4 DEF PayloadInv
    <2>6. RetainedIsCurrent'
      BY <1>0, <2>1, <2>2, <2>3, <2>4 DEF RetainedIsCurrent, CmdHolds, Publishing
    <2> QED BY <2>5, <2>6
  <1>2. CASE CommandPublish
    <2>1. /\ cmd = "publish" /\ cmd' \in {"idle", "send"} /\ states' = states
          /\ putState(cmdDev, cmdTopic, cmdPayload)
      BY <1>2 DEF CommandPublish, publishState
    <2>2. cmdDev \in Device /\ cmdTopic \in Topic /\ cmdPayload \in Value /\ cmdPayload # 0
      BY <2>1 DEF CmdInv, Publishing
    <2>3. \A e \in Device : ~CmdHolds(e)' /\ (CmdHolds(e) <=> e = cmdDev)
      BY <2>1 DEF CmdHolds, Publishing
    <2>4. \A e \in Device : overlap[e] => overlap'[e]
      BY <2>1, <2>2, PutFacts
    <2>5. PayloadInv'
      BY <1>0, <2>1, <2>3, <2>4 DEF PayloadInv
    <2>6. ASSUME NEW e \in Device, states[e] # 0, ~overlap'[e],
                 loop \in {"select", "gone"} \/ loopDev # e
          PROVE  Current(e)'
      <3>1. CASE e = cmdDev
        <4>1. cmdPayload = states[e]
          BY <2>3, <2>4, <2>6, <3>1 DEF PayloadInv
        <4> QED BY <2>1, <2>2, <3>1, <4>1, PutFacts DEF Current
      <3>2. CASE e # cmdDev
        <4>1. Current(e)
          BY <2>3, <2>4, <2>6, <3>2 DEF RetainedIsCurrent, Current
        <4> QED BY <2>1, <2>2, <2>6, <3>2, <4>1, PutKeeps DEF Current, StateTypes
      <3> QED BY <3>1, <3>2
    <2>7. RetainedIsCurrent'
      BY <1>0, <2>1, <2>6 DEF RetainedIsCurrent, Current
    <2> QED BY <2>5, <2>7
  <1>3. CASE CommandTopic \/ CommandFill
    <2>1. /\ UNCHANGED <<states, retained, overlap, cmdDev, cmdPayload>> /\ cmd \in {"topic", "fill"}
      BY <1>3 DEF CommandTopic, CommandFill, topicVars, cacheTopic
    <2>2. cmd' \in {"fill", "publish"}
      <3>1. CASE CommandTopic
        BY <2>1, <3>1, FoundType DEF CommandTopic, CmdInv, Publishing
      <3> QED BY <1>3, <3>1 DEF CommandFill
    <2>3. \A e \in Device : CmdHolds(e)' <=> CmdHolds(e)
      BY <2>1, <2>2 DEF CmdHolds, Publishing
    <2> QED BY <1>0, <2>1, <2>3 DEF PayloadInv, RetainedIsCurrent
  <1>4. CASE CommandLeavesState \/ \E d \in Device : CommandArrives(d)
    <2>1. UNCHANGED <<states, retained, overlap>>
      BY <1>4 DEF CommandLeavesState, CommandArrives, topicVars
    <2>2. \A e \in Device : ~CmdHolds(e)' /\ ~CmdHolds(e)
      BY <1>4 DEF CommandLeavesState, CommandArrives, CmdHolds, Publishing
    <2> QED BY <1>0, <2>1, <2>2 DEF PayloadInv, RetainedIsCurrent
  <1> QED BY <1>1, <1>2, <1>3, <1>4 DEF handleCommand

\* Two goroutines make payloads under mu, look the topic up and publish after
\* it, while the topic changes: whatever their order, the broker ends up with
\* the state accumulated last unless a report and a command of the device
\* overlapped, or another device took the topic.
THEOREM RetainedIsCurrentHolds == Spec => []RetainedIsCurrent
  <1>1. Init => PayloadInv /\ RetainedIsCurrent
    BY DEF Init, PayloadInv, LoopHolds, CmdHolds, Publishing, RetainedIsCurrent
  <1>2. TypeInv /\ PayloadInv /\ RetainedIsCurrent /\ [Next]_vars => PayloadInv' /\ RetainedIsCurrent'
    <2> SUFFICES ASSUME TypeInv, PayloadInv, RetainedIsCurrent, [Next]_vars
                 PROVE  PayloadInv' /\ RetainedIsCurrent'
      OBVIOUS
    <2>1. CASE ~eventLoop /\ ~handleCommand
      BY <2>1, StateFrame DEF PayloadInv, LoopHolds, CmdHolds, RetainedIsCurrent
    <2> QED BY <2>1, LoopState, CmdState
  <1> QED BY <1>1, <1>2, Typing, PTL DEF Spec

-----------------------------------------------------------------------------
(* What stays on the broker for a device that is gone.                     *)

\* A push and a pop of the queue.
LEMMA PushKeepsLeft ==
    ASSUME QueueInv, NEW type, NEW e \in Device, NEW v, NEW d \in Device, IsEvent(type, v),
           Emit(type, e, v)
    PROVE  /\ (\E i \in DOMAIN eventCh : eventCh[i].type = "left" /\ eventCh[i].dev = d)
              => \E i \in DOMAIN eventCh' : eventCh'[i].type = "left" /\ eventCh'[i].dev = d
           /\ type = "left" /\ e = d /\ Room
              => \E i \in DOMAIN eventCh' : eventCh'[i].type = "left" /\ eventCh'[i].dev = d
  <1> DEFINE x == [type |-> type, dev |-> e, value |-> v]
  <1>1. x \in Event /\ x.type = type /\ x.dev = e
    BY DEF Event, IsEvent
  <1>2. eventCh' = IF Room THEN Append(eventCh, x) ELSE eventCh
    BY DEF Emit
  <1> HIDE DEF x
  <1>3. CASE Room
    <2>1. eventCh \in Seq(Event) /\ Len(eventCh) \in Nat
      BY DEF QueueInv
    <2>2. /\ DOMAIN eventCh = 1 .. Len(eventCh) /\ DOMAIN eventCh' = 1 .. Len(eventCh) + 1
          /\ \A i \in 1 .. Len(eventCh) : eventCh'[i] = eventCh[i]
          /\ eventCh'[Len(eventCh) + 1] = x
      BY <1>1, <1>2, <1>3, <2>1, AppendProperties
    <2>3. Len(eventCh) + 1 \in DOMAIN eventCh' /\ DOMAIN eventCh \subseteq DOMAIN eventCh'
      BY <2>1, <2>2
    <2> QED BY <1>1, <2>2, <2>3
  <1>4. CASE ~Room
    BY <1>2, <1>4
  <1> QED BY <1>3, <1>4

LEMMA PopKeepsLeft ==
    ASSUME QueueInv, NEW type, TakeEvent(type), NEW d \in Device,
           \E i \in DOMAIN eventCh : eventCh[i].type = "left" /\ eventCh[i].dev = d,
           type # "left" \/ Head(eventCh).dev # d
    PROVE  \E i \in DOMAIN eventCh' : eventCh'[i].type = "left" /\ eventCh'[i].dev = d
  <1>1. eventCh # <<>> /\ eventCh' = Tail(eventCh) /\ Head(eventCh).type = type /\ eventCh \in Seq(Event)
    BY DEF TakeEvent, QueueInv
  <1>2. /\ Len(eventCh) \in Nat /\ DOMAIN eventCh = 1 .. Len(eventCh)
        /\ DOMAIN Tail(eventCh) = 1 .. Len(eventCh) - 1
        /\ \A i \in 1 .. Len(eventCh) - 1 : Tail(eventCh)[i] = eventCh[i + 1]
        /\ Head(eventCh) = eventCh[1]
    BY <1>1, HeadTailProperties
  <1>3. PICK i \in DOMAIN eventCh : eventCh[i].type = "left" /\ eventCh[i].dev = d
    OBVIOUS
  <1>4. i # 1
    BY <1>1, <1>2, <1>3
  <1>5. i - 1 \in 1 .. Len(eventCh) - 1 /\ (i - 1) + 1 = i
    BY <1>2, <1>3, <1>4
  <1>6. Tail(eventCh)[i - 1] = eventCh[i]
    BY <1>2, <1>5
  <1> QED BY <1>1, <1>2, <1>3, <1>5, <1>6

\* The three together are inductive.
LeftInv == CoverInv /\ StagedInv /\ LeftoversExplained

\* The loop has looked up the topic of a device that left.
Clearing(d) == LoopHolds(d) /\ loopPayload = 0

\* What a step may leave of a device on the broker: what is excused now, what a
\* device that is there has under its topic, and what was there before without
\* needing an excuse.
Excused(e) ==
    /\ \A t \in RetainedOf(e)' :
          \/ t \in excuse'[e]
          \/ topicNames'[e] = t /\ ~Gone(e)'
          \/ topicNames'[e] = topicNames[e] /\ t \in RetainedOf(e) \ excuse[e]
    /\ discovery'[e] # None => \/ "config" \in excuse'[e]
                               \/ ~Gone(e)'
                               \/ discovery[e] # None /\ "config" \notin excuse[e]

FullyExcused(e) ==
    RetainedOf(e)' \subseteq excuse'[e] /\ (discovery'[e] # None => "config" \in excuse'[e])

\* A step by which the device does not go unless its leave is pending, and no
\* leave is taken back; or one that excuses everything.
Accounted(e) ==
    \/ FullyExcused(e)
    \/ /\ Excused(e)
       /\ Gone(e)' => Gone(e) \/ Leaving(e)'
       /\ Leaving(e) => Leaving(e)'
       /\ Clearing(e) => Clearing(e)'

LEMMA ExcusedTopics ==
    ASSUME NEW e \in Device, Excused(e)
    PROVE  \A t \in RetainedOf(e)' :
              \/ t \in excuse'[e]
              \/ topicNames'[e] = t /\ ~Gone(e)'
              \/ topicNames'[e] = topicNames[e] /\ t \in RetainedOf(e) \ excuse[e]
  BY Zenon DEF Excused

LEMMA ExcusedExplains ==
    ASSUME LeftInv, NEW e \in Device, Accounted(e), Gone(e)', ~LeftPending(e)'
    PROVE  FullyExcused(e)
  <1> SUFFICES ASSUME ~FullyExcused(e) PROVE FALSE
    OBVIOUS
  <1>1. Excused(e) /\ Gone(e) /\ ~Leaving(e) /\ ~Clearing(e)
    BY Zenon DEF Accounted, LeftPending, Leaving, Clearing
  <1>2. RetainedOf(e) \subseteq excuse[e] /\ (discovery[e] # None => "config" \in excuse[e])
    BY <1>1 DEF LeftInv, LeftoversExplained, LeftPending, Leaving, Clearing
  <1>3. RetainedOf(e)' \subseteq excuse'[e]
    <2>1. ASSUME NEW t \in RetainedOf(e)' PROVE t \in excuse'[e]
      <3>1. \/ t \in excuse'[e] \/ (topicNames'[e] = t /\ ~Gone(e)')
            \/ topicNames'[e] = topicNames[e] /\ t \in RetainedOf(e) \ excuse[e]
        BY <1>1, <2>1, ExcusedTopics
      <3> QED BY <1>2, <3>1
    <2> QED BY <2>1
  <1>4. discovery'[e] # None => "config" \in excuse'[e]
    <2>1. discovery'[e] # None => \/ "config" \in excuse'[e] \/ ~Gone(e)'
                                  \/ discovery[e] # None /\ "config" \notin excuse[e]
      BY <1>1, Zenon DEF Excused
    <2> QED BY <1>2, <2>1
  <1> QED BY <1>3, <1>4, Zenon DEF FullyExcused

\* Either way the cover holds on.
LEMMA ExcusedCovers ==
    ASSUME LeftInv, NEW e \in Device, Accounted(e), NEW t \in RetainedOf(e)'
    PROVE  t = topicNames'[e] \/ t \in excuse'[e]
  <1>1. CASE FullyExcused(e)
    <2>1. RetainedOf(e)' \subseteq excuse'[e]
      BY <1>1, Zenon DEF FullyExcused
    <2> QED BY <2>1
  <1>2. CASE Excused(e)
    <2>1. \/ t \in excuse'[e] \/ (topicNames'[e] = t /\ ~Gone(e)')
          \/ topicNames'[e] = topicNames[e] /\ t \in RetainedOf(e) \ excuse[e]
      BY <1>2, ExcusedTopics
    <2> QED BY <2>1 DEF LeftInv, CoverInv
  <1> QED BY <1>1, <1>2, Zenon DEF Accounted

\* A step that accounts for every device, and that leaves the loop where it is
\* or brings it nowhere near a clearing.
LEMMA AccountedStep ==
    ASSUME LeftInv, TypeInv, \A e \in Device : Accounted(e),
           StagedInv' \/ UNCHANGED <<loop, loopDev, loopPayload, loopTopic>>
    PROVE  LeftInv'
  <1>1. CoverInv'
    BY ExcusedCovers DEF CoverInv
  <1>2. LeftoversExplained'
    <2>1. ASSUME NEW e \in Device, Gone(e)', ~LeftPending(e)'
          PROVE  RetainedOf(e)' \subseteq excuse'[e] /\ (discovery'[e] # None => "config" \in excuse'[e])
      BY <2>1, ExcusedExplains, Zenon DEF FullyExcused
    <2> QED BY <2>1 DEF LeftoversExplained
  <1>3. ASSUME NEW e \in Device, loopDev = e, loop = "publish", loopPayload = 0,
               Gone(e)', ~Leaving(e)'
        PROVE  RetainedOf(e)' \subseteq excuse'[e] \cup {loopTopic}
    <2>1. CASE FullyExcused(e)
      <3>1. RetainedOf(e)' \subseteq excuse'[e]
        BY <2>1, Zenon DEF FullyExcused
      <3> QED BY <3>1
    <2>2. CASE ~FullyExcused(e)
      <3>2. Excused(e) /\ Gone(e) /\ ~Leaving(e)
        BY <1>3, <2>2, Zenon DEF Accounted
      <3>3. RetainedOf(e) \subseteq excuse[e] \cup {loopTopic}
        BY <1>3, <3>2 DEF LeftInv, StagedInv
      <3>4. ASSUME NEW t \in RetainedOf(e)' PROVE t \in excuse'[e] \cup {loopTopic}
        <4>1. \/ t \in excuse'[e] \/ (topicNames'[e] = t /\ ~Gone(e)')
              \/ topicNames'[e] = topicNames[e] /\ t \in RetainedOf(e) \ excuse[e]
          BY <3>2, <3>4, ExcusedTopics
        <4> QED BY <1>3, <3>3, <4>1
      <3> QED BY <3>4
    <2> QED BY <2>1, <2>2
  <1>4. StagedInv'
    <2>1. CASE UNCHANGED <<loop, loopDev, loopPayload, loopTopic>> /\ loop = "publish"
      <3>1. PICK e \in Device : loopDev = e
        BY <2>1 DEF TypeInv, LoopInv, Publishing
      <3>2. loopDev' = e
        BY <2>1, <3>1
      <3>3. StagedInv' <=> (loopPayload' = 0 /\ Gone(e)' /\ ~Leaving(e)'
                            => RetainedOf(e)' \subseteq excuse'[e] \cup {loopTopic'})
        BY <2>1, <3>2 DEF StagedInv, Gone, Leaving, RetainedOf
      <3> QED BY <1>3, <2>1, <3>1, <3>3
    <2>2. CASE UNCHANGED <<loop, loopDev, loopPayload, loopTopic>> /\ loop # "publish"
      BY <2>2 DEF StagedInv
    <2> QED BY <2>1, <2>2
  <1> QED BY <1>1, <1>2, <1>4 DEF LeftInv

\* What the broker operations account for.
LEMMA CacheExcused ==
    ASSUME LeftInv, BrokerTypes, NEW d \in Device, NEW t \in Topic, cacheTopic(d, t),
           UNCHANGED <<record, discovery>>, NEW e \in Device
    PROVE  Excused(e)
  <1>1. /\ topicNames' = [topicNames EXCEPT ![d] = t]
        /\ excuse' = [excuse EXCEPT ![d] = excuse[d] \cup (RetainedOf(d) \ {t})]
        /\ retained' = retained
    BY DEF cacheTopic
  <1>2. RetainedOf(e)' = RetainedOf(e)
    BY <1>1 DEF RetainedOf
  <1>3. \A u \in RetainedOf(e) : u = topicNames[e] \/ u \in excuse[e]
    BY DEF LeftInv, CoverInv
  <1>4. CASE e = d
    <2>1. topicNames'[e] = t /\ excuse'[e] = excuse[e] \cup (RetainedOf(e) \ {t})
      BY <1>1, <1>4 DEF BrokerTypes
    <2> QED BY <1>2, <1>3, <2>1 DEF Excused, Gone
  <1>5. CASE e # d
    <2>1. topicNames'[e] = topicNames[e] /\ excuse'[e] = excuse[e]
      BY <1>1, <1>5 DEF BrokerTypes
    <2> QED BY <1>2, <2>1 DEF Excused
  <1> QED BY <1>4, <1>5

\* Of a topic that is replaced or removed nothing is left.
LEMMA PutRetained ==
    ASSUME BrokerTypes, NEW d \in Device, NEW t \in Topic, NEW p \in Value, putState(d, t, p),
           NEW e \in Device
    PROVE  /\ \A u \in Topic : u # t => (u \in RetainedOf(e)' <=> u \in RetainedOf(e))
           /\ t \in RetainedOf(e)' => p # 0 /\ e = d
           /\ topicNames' = topicNames
           /\ RetainedOf(e)' \subseteq Topic
  <1>1. /\ p # 0 => retained'[t] = [dev |-> d, val |-> p]
        /\ p = 0 => retained'[t] = None
        /\ \A u \in Topic : u # t => retained'[u] = retained[u]
    BY PutFacts
  <1>2. topicNames' = topicNames
    BY DEF putState
  <1> QED BY <1>1, <1>2 DEF RetainedOf

LEMMA PublishExcused ==
    ASSUME BrokerTypes, NEW d \in Device, NEW t \in Topic, NEW p \in Value, publishState(d, t, p),
           UNCHANGED <<record, discovery>>, NEW e \in Device
    PROVE  Excused(e)
  <1>1. /\ \A u \in Topic : u # t => (u \in RetainedOf(e)' <=> u \in RetainedOf(e))
        /\ t \in RetainedOf(e)' => e = d
        /\ topicNames' = topicNames /\ RetainedOf(e)' \subseteq Topic
    BY PutRetained DEF publishState
  <1>2. excuse'[e] = IF e = d /\ (Gone(d) \/ topicNames[d] # t) THEN excuse[e] \cup {t}
                     ELSE excuse[e] \ {t}
    BY DEF publishState
  <1>3. t # "config"
    BY NoneAssumption
  <1>4. ASSUME NEW u \in RetainedOf(e)', u # t
        PROVE  u \in excuse'[e] \/ u \in RetainedOf(e) \ excuse[e]
    <2>1. u \in RetainedOf(e)
      BY <1>1, <1>4
    <2>2. u \in excuse[e] => u \in excuse'[e]
      BY <1>2, <1>4
    <2> QED BY <2>1, <2>2
  <1>5. t \in RetainedOf(e)' => t \in excuse'[e] \/ (topicNames'[e] = t /\ ~Gone(e)')
    BY <1>1, <1>2 DEF Gone
  <1>6. "config" \in excuse[e] => "config" \in excuse'[e]
    BY <1>2, <1>3
  <1> QED BY <1>1, <1>4, <1>5, <1>6 DEF Excused

LEMMA PublishDiscoveryExcused ==
    ASSUME BrokerTypes, NEW d \in Device, NEW t \in Topic, publishDiscovery(d, t),
           record' = record, NEW e \in Device
    PROVE  Excused(e)
  <1>1. /\ discovery' = [discovery EXCEPT ![d] = t]
        /\ excuse' = [excuse EXCEPT ![d] = IF Gone(d) THEN excuse[d] \cup {"config"}
                                           ELSE excuse[d] \ {"config"}]
        /\ topicNames' = topicNames /\ retained' = retained
    BY DEF publishDiscovery
  <1>2. RetainedOf(e)' = RetainedOf(e) /\ "config" \notin RetainedOf(e)
    BY <1>1, NoneAssumption DEF RetainedOf
  <1>3. \A u \in RetainedOf(e) : u \in excuse[e] => u \in excuse'[e]
    BY <1>1, <1>2 DEF BrokerTypes
  <1>4. discovery'[e] # None => \/ "config" \in excuse'[e] \/ ~Gone(e)'
                                \/ discovery[e] # None /\ "config" \notin excuse[e]
    BY <1>1 DEF BrokerTypes, Gone
  <1> QED BY <1>1, <1>2, <1>3, <1>4 DEF Excused

\* A step that touches neither the broker nor the history.
LEMMA SameExcused ==
    ASSUME NEW e \in Device, UNCHANGED <<topicNames, retained, discovery>>,
           \A t \in Topic \cup {"config"} : t \in excuse[e] => t \in excuse'[e]
    PROVE  Excused(e)
  <1>1. RetainedOf(e)' = RetainedOf(e) /\ RetainedOf(e) \subseteq Topic
    BY DEF RetainedOf
  <1> QED BY <1>1 DEF Excused

\* A device-left event through a push and a pop.
LEMMA LeavingPush ==
    ASSUME QueueInv, NEW type, NEW d \in Device, NEW v, IsEvent(type, v), Emit(type, d, v),
           leaving' = leaving, NEW e \in Device, Leaving(e)
    PROVE  Leaving(e)'
  <1>1. CASE e \in leaving
    BY <1>1 DEF Leaving
  <1>2. CASE e \notin leaving
    <2>1. \E i \in DOMAIN eventCh' : eventCh'[i].type = "left" /\ eventCh'[i].dev = e
      BY <1>2, PushKeepsLeft DEF Leaving
    <2> QED BY <2>1 DEF Leaving
  <1> QED BY <1>1, <1>2

LEMMA LeavingPop ==
    ASSUME QueueInv, NEW type, TakeEvent(type), leaving' = leaving, NEW e \in Device, Leaving(e),
           type # "left" \/ Head(eventCh).dev # e
    PROVE  Leaving(e)'
  <1>1. CASE e \in leaving
    BY <1>1 DEF Leaving
  <1>2. CASE e \notin leaving
    <2>1. \E i \in DOMAIN eventCh' : eventCh'[i].type = "left" /\ eventCh'[i].dev = e
      BY <1>2, PopKeepsLeft DEF Leaving
    <2> QED BY <2>1 DEF Leaving
  <1> QED BY <1>1, <1>2

\* A step that leaves records, leaves and queue alone accounts for what it
\* excuses, unless it ends a clearing.
LEMMA QuietAccounted ==
    ASSUME NEW e \in Device, Excused(e), UNCHANGED <<record, leaving, eventCh>>,
           Clearing(e) => Clearing(e)'
    PROVE  Accounted(e)
  <1>1. (Gone(e)' => Gone(e)) /\ (Leaving(e) => Leaving(e)')
    BY DEF Gone, Leaving
  <1> QED BY <1>1, Zenon DEF Accounted

LEMMA CoordinatorExplained ==
    ASSUME TypeInv, LeftInv, Coordinator
    PROVE  LeftInv'
  <1>1. UNCHANGED <<topicNames, retained, discovery, loop, loopDev, loopPayload, loopTopic>>
    BY CoordinatorFrame DEF envRest, loopVars
  <1>2. \A e \in Device : Clearing(e) => Clearing(e)'
    BY <1>1 DEF Clearing, LoopHolds
  <1>3. ASSUME \A e \in Device : Accounted(e) PROVE LeftInv'
    BY <1>1, <1>3, AccountedStep
  <1>4. ASSUME NEW e \in Device, excuse' = excuse PROVE Excused(e)
    BY <1>1, <1>4, SameExcused
  <1>5. ASSUME NEW d \in Device, Delete(d), NEW e \in Device PROVE Accounted(e)
    <2>1. /\ \A f \in Device : f # d => record'[f] = record[f]
          /\ leaving' = leaving \cup {d} /\ excuse' = excuse /\ eventCh' = eventCh
      BY <1>5 DEF Delete, TypeInv, EnvInv
    <2>2. (Gone(e)' => Gone(e) \/ Leaving(e)') /\ (Leaving(e) => Leaving(e)')
      BY <2>1 DEF Gone, Leaving
    <2> QED BY <1>2, <1>4, <2>1, <2>2, Zenon DEF Accounted
  <1>6. ASSUME NEW d \in Device, EmitLeft(d), NEW e \in Device PROVE Accounted(e)
    <2>1. record' = record /\ leaving' = leaving \ {d} /\ Emit("left", d, 0) /\ IsEvent("left", 0)
      BY <1>6 DEF EmitLeft, IsEvent
    <2>2. \A f \in Device : excuse'[f] = IF f = d /\ ~Room THEN excuse[f] \cup RetainedOf(f) \cup {"config"}
                                         ELSE excuse[f]
      BY <1>6 DEF EmitLeft, TypeInv, BrokerTypes
    <2>3. CASE e = d /\ ~Room
      <3>1. RetainedOf(e)' = RetainedOf(e)
        BY <1>1 DEF RetainedOf
      <3>2. FullyExcused(e)
        BY <2>2, <2>3, <3>1 DEF FullyExcused
      <3> QED BY <3>2, Zenon DEF Accounted
    <2>4. CASE ~(e = d /\ ~Room)
      <3>1. Excused(e)
        BY <1>1, <2>2, <2>4, SameExcused
      <3>2. Leaving(e) => Leaving(e)'
        <4>1. CASE e = d
          <5>1. \E i \in DOMAIN eventCh' : eventCh'[i].type = "left" /\ eventCh'[i].dev = e
            BY <2>1, <2>4, <4>1, PushKeepsLeft DEF TypeInv
          <5> QED BY <5>1 DEF Leaving
        <4>2. CASE e # d
          <5>1. (\E i \in DOMAIN eventCh : eventCh[i].type = "left" /\ eventCh[i].dev = e)
                => \E i \in DOMAIN eventCh' : eventCh'[i].type = "left" /\ eventCh'[i].dev = e
            BY <2>1, PushKeepsLeft DEF TypeInv
          <5> QED BY <2>1, <4>2, <5>1 DEF Leaving
        <4> QED BY <4>1, <4>2
      <3>3. Gone(e)' => Gone(e)
        BY <2>1 DEF Gone
      <3> QED BY <1>2, <3>1, <3>2, <3>3, Zenon DEF Accounted
    <2> QED BY <2>3, <2>4
  <1>7. ASSUME NEW d \in Device, Report(d), NEW e \in Device PROVE Accounted(e)
    <2>1. record' = record /\ leaving' = leaving /\ excuse' = excuse /\ Emit("report", d, happened')
      BY <1>7 DEF Report
    <2>2. IsEvent("report", happened')
      BY <1>7, HappensType DEF Report, TypeInv, EnvInv, IsEvent
    <2>3. Leaving(e) => Leaving(e)'
      BY <2>1, <2>2, LeavingPush DEF TypeInv
    <2>4. Gone(e)' => Gone(e)
      BY <2>1 DEF Gone
    <2> QED BY <1>2, <1>4, <2>1, <2>3, <2>4, Zenon DEF Accounted
  <1>8. ASSUME HandleSave, NEW e \in Device PROVE Accounted(e)
    <2>1. /\ handler \in Handler /\ record' = [record EXCEPT ![handler.dev] = handler.record]
          /\ Emit(handler.type, handler.dev, 0) /\ UNCHANGED <<leaving, excuse>>
      BY <1>8 DEF HandleSave, TypeInv, EnvInv
    <2>2. /\ handler.dev \in Device /\ IsEvent(handler.type, 0)
          /\ handler.record \in {"joined", "interviewed"}
      BY <2>1 DEF Handler, IsEvent
    <2>3. Leaving(e) => Leaving(e)'
      BY <2>1, <2>2, LeavingPush DEF TypeInv
    <2>4. Gone(e)' => Gone(e)
      BY <2>1, <2>2 DEF Gone, TypeInv, EnvInv
    <2> QED BY <1>2, <1>4, <2>1, <2>3, <2>4, Zenon DEF Accounted
  <1>9. ASSUME NEW d \in Device, InterviewDone(d) \/ Rename(d) \/ \E type \in {"joined", "announce"} :
                                                                     HandleRead(type, d),
               NEW e \in Device
        PROVE  Accounted(e)
    <2>1. UNCHANGED <<leaving, eventCh, excuse>> /\ (record'[e] = record[e] \/ record'[e] = "interviewed")
      BY <1>9 DEF InterviewDone, Rename, HandleRead, TypeInv, EnvInv
    <2>2. (Gone(e)' => Gone(e)) /\ (Leaving(e) => Leaving(e)')
      BY <2>1 DEF Gone, Leaving
    <2> QED BY <1>2, <1>4, <2>1, <2>2, Zenon DEF Accounted
  <1> QED BY <1>3, <1>5, <1>6, <1>7, <1>8, <1>9 DEF Coordinator

LEMMA LoopExplained ==
    ASSUME TypeInv, LeftInv, eventLoop
    PROVE  LeftInv'
  <1>0. UNCHANGED <<record, leaving>>
    BY LoopFrame DEF loopRest, envVars
  <1> USE DEF TypeInv
  <1>1. CASE LoopIgnore \/ LoopReport \/ LoopAnnounce
    <2>1. PICK type \in {"joined", "report", "announce"} : TakeEvent(type)
      BY <1>1 DEF LoopIgnore, LoopReport, LoopAnnounce
    <2>2. /\ UNCHANGED <<topicNames, retained, discovery, excuse>> /\ loop = "select"
          /\ loop' \in {"select", "topic"}
      BY <1>1 DEF LoopIgnore, LoopReport, LoopAnnounce, updateState, topicVars, loopVars, TakeEvent
    <2>3. type # "left"
      BY <2>1
    <2>4. ASSUME NEW e \in Device PROVE Accounted(e)
      <3>1. (Leaving(e) => Leaving(e)') /\ ~Clearing(e) /\ (Gone(e)' => Gone(e))
        BY <1>0, <2>1, <2>2, <2>3, LeavingPop DEF Clearing, LoopHolds, Publishing, Gone
      <3> QED BY <2>2, <3>1, SameExcused, Zenon DEF Accounted
    <2>5. StagedInv'
      BY <2>2 DEF StagedInv
    <2> QED BY <2>4, <2>5, AccountedStep
  <1>2. CASE LoopLeft
    <2>1. /\ TakeEvent("left") /\ loop = "select" /\ loop' = "topic"
          /\ loopDev' = Head(eventCh).dev /\ loopPayload' = loopPayload
          /\ UNCHANGED <<topicNames, retained, discovery, excuse>>
      BY <1>2 DEF LoopLeft, TakeEvent, topicVars
    <2>2. loopPayload = 0
      BY <2>1 DEF LoopInv, Publishing
    <2>3. CoverInv' /\ StagedInv'
      BY <2>1 DEF LeftInv, CoverInv, RetainedOf, StagedInv
    <2>4. ASSUME NEW e \in Device, ~LeftPending(e)' PROVE ~LeftPending(e)
      <3>1. e # Head(eventCh).dev
        BY <2>1, <2>2, <2>4 DEF LeftPending, LoopHolds, Publishing
      <3>2. ~LoopHolds(e)
        BY <2>1 DEF LoopHolds, Publishing
      <3>3. ~Leaving(e)'
        BY <2>4 DEF LeftPending, Leaving
      <3>4. ~Leaving(e)
        BY <1>0, <2>1, <3>1, <3>3, LeavingPop
      <3> QED BY <3>2, <3>4 DEF LeftPending, Leaving
    <2>5. LeftoversExplained'
      BY <1>0, <2>1, <2>4 DEF LeftInv, LeftoversExplained, Gone, RetainedOf
    <2> QED BY <2>3, <2>5 DEF LeftInv
  <1>3. CASE LoopTopic
    <2>1. /\ loop = "topic" /\ UNCHANGED <<loopDev, loopPayload, eventCh>>
          /\ UNCHANGED <<topicNames, retained, discovery, excuse>>
      BY <1>3 DEF LoopTopic, topicVars
    <2>2. PICK found \in cachedTopicName(loopDev) : loop' = found.at /\ loopTopic' = found.topic
      BY <1>3 DEF LoopTopic
    <2>3. loopDev \in Device /\ loop' \in {"fill", "publish"}
      BY <2>1, <2>2, FoundType DEF LoopInv, Publishing
    <2>4. ASSUME NEW e \in Device PROVE Accounted(e)
      <3>1. Clearing(e) => Clearing(e)'
        BY <2>1, <2>3 DEF Clearing, LoopHolds, Publishing
      <3> QED BY <1>0, <2>1, <3>1, SameExcused, QuietAccounted
    <2>5. loop' = "publish" => loopTopic' = topicNames[loopDev] \/ topicNames[loopDev] = None
      BY <2>2 DEF cachedTopicName
    <2>6. \A t \in RetainedOf(loopDev) : t = topicNames[loopDev] \/ t \in excuse[loopDev]
      BY <2>3 DEF LeftInv, CoverInv
    <2>7. \A t \in RetainedOf(loopDev) : t # None
      BY NoneAssumption DEF RetainedOf
    <2>8. RetainedOf(loopDev)' = RetainedOf(loopDev) /\ excuse'[loopDev'] = excuse[loopDev]
      BY <2>1 DEF RetainedOf
    <2>9. StagedInv'
      BY <2>1, <2>5, <2>6, <2>7, <2>8 DEF StagedInv
    <2> QED BY <2>4, <2>9, AccountedStep
  <1>4. CASE LoopFill
    <2>1. /\ loop = "fill" /\ loop' = "publish" /\ cacheTopic(loopDev, loopTopic)
          /\ UNCHANGED <<loopDev, loopPayload, loopTopic, eventCh, discovery>>
      BY <1>4 DEF LoopFill
    <2>2. loopDev \in Device /\ loopTopic \in Topic
      BY <2>1 DEF LoopInv, Publishing
    <2>3. ASSUME NEW e \in Device PROVE Accounted(e)
      <3>1. Clearing(e) => Clearing(e)'
        BY <2>1 DEF Clearing, LoopHolds, Publishing
      <3>2. Excused(e)
        BY <1>0, <2>1, <2>2, CacheExcused
      <3> QED BY <1>0, <2>1, <3>1, <3>2, QuietAccounted
    <2>4. /\ retained' = retained
          /\ excuse'[loopDev] = excuse[loopDev] \cup (RetainedOf(loopDev) \ {loopTopic})
      BY <2>1, <2>2 DEF cacheTopic, BrokerTypes
    <2>5. RetainedOf(loopDev)' = RetainedOf(loopDev)
      BY <2>1, <2>4 DEF RetainedOf
    <2>6. StagedInv'
      BY <2>1, <2>4, <2>5 DEF StagedInv
    <2> QED BY <2>3, <2>6, AccountedStep
  <1>5. CASE LoopPublish
    <2>1. /\ loop = "publish" /\ loopPayload # 0 /\ publishState(loopDev, loopTopic, loopPayload)
          /\ loop' = "select" /\ UNCHANGED <<eventCh, discovery>>
      BY <1>5 DEF LoopPublish
    <2>2. loopDev \in Device /\ loopTopic \in Topic /\ loopPayload \in Value
      BY <2>1 DEF LoopInv, Publishing
    <2>3. ASSUME NEW e \in Device PROVE Accounted(e)
      <3>1. ~Clearing(e)
        BY <2>1 DEF Clearing
      <3>2. Excused(e)
        BY <1>0, <2>1, <2>2, PublishExcused
      <3> QED BY <1>0, <2>1, <3>1, <3>2, QuietAccounted
    <2>4. StagedInv'
      BY <2>1 DEF StagedInv
    <2> QED BY <2>3, <2>4, AccountedStep
  <1>6. CASE LoopClear
    <2>1. /\ loop = "publish" /\ loopPayload = 0 /\ putState(loopDev, loopTopic, 0)
          /\ discovery' = [discovery EXCEPT ![loopDev] = None]
          /\ excuse' = [e \in Device |-> excuse[e] \ (IF e = loopDev THEN {loopTopic, "config"}
                                                      ELSE {loopTopic})]
          /\ loop' = "forget" /\ UNCHANGED <<loopDev, eventCh>>
      BY <1>6 DEF LoopClear
    <2>2. loopDev \in Device /\ loopTopic \in Topic /\ 0 \in Value /\ loopTopic # "config"
      BY <2>1, BoundAssumption, NoneAssumption DEF LoopInv, Publishing, Value
    <2>3. ASSUME NEW e \in Device
          PROVE  /\ RetainedOf(e)' = RetainedOf(e) \ {loopTopic}
                 /\ topicNames' = topicNames
                 /\ \A t \in Topic \ {loopTopic} : t \in excuse[e] => t \in excuse'[e]
                 /\ e = loopDev => discovery'[e] = None
                 /\ e # loopDev => /\ discovery'[e] = discovery[e]
                                   /\ "config" \in excuse[e] => "config" \in excuse'[e]
      <3>1. /\ \A u \in Topic : u # loopTopic => (u \in RetainedOf(e)' <=> u \in RetainedOf(e))
            /\ loopTopic \notin RetainedOf(e)'
            /\ topicNames' = topicNames
            /\ RetainedOf(e)' \subseteq Topic
        BY <2>1, <2>2, PutRetained
      <3>2. RetainedOf(e) \subseteq Topic
        BY DEF RetainedOf
      <3>3. RetainedOf(e)' = RetainedOf(e) \ {loopTopic}
        BY <3>1, <3>2
      <3>4. \A t \in Topic \ {loopTopic} : t \in excuse[e] => t \in excuse'[e]
        BY <2>1, <2>2, NoneAssumption DEF BrokerTypes
      <3>5. /\ e = loopDev => discovery'[e] = None
            /\ e # loopDev => /\ discovery'[e] = discovery[e]
                              /\ "config" \in excuse[e] => "config" \in excuse'[e]
        BY <2>1, <2>2 DEF BrokerTypes
      <3> QED BY <3>1, <3>3, <3>4, <3>5
    <2>4. CoverInv'
      <3>1. ASSUME NEW e \in Device, NEW t \in RetainedOf(e)' PROVE t = topicNames'[e] \/ t \in excuse'[e]
        <4>1. t \in RetainedOf(e) /\ t # loopTopic /\ t \in Topic
          BY <2>3, <3>1 DEF RetainedOf
        <4>2. t = topicNames[e] \/ t \in excuse[e]
          BY <4>1 DEF LeftInv, CoverInv
        <4> QED BY <2>3, <4>1, <4>2
      <3> QED BY <3>1 DEF CoverInv
    <2>5. StagedInv'
      BY <2>1 DEF StagedInv
    <2>6. LeftoversExplained'
      <3>1. ASSUME NEW e \in Device, Gone(e)', ~LeftPending(e)'
            PROVE  RetainedOf(e)' \subseteq excuse'[e] /\ (discovery'[e] # None => "config" \in excuse'[e])
        <4>1. Gone(e) /\ ~Leaving(e)
          BY <1>0, <2>1, <3>1 DEF Gone, LeftPending, Leaving
        <4>2. RetainedOf(e) \subseteq Topic
          BY DEF RetainedOf
        <4>3. CASE e = loopDev
          <5>1. RetainedOf(e) \subseteq excuse[e] \cup {loopTopic}
            BY <2>1, <4>1, <4>3 DEF LeftInv, StagedInv
          <5> QED BY <2>3, <4>2, <4>3, <5>1
        <4>4. CASE e # loopDev
          <5>1. ~LeftPending(e)
            BY <4>1, <4>4 DEF LeftPending, Leaving, LoopHolds
          <5>2. RetainedOf(e) \subseteq excuse[e] /\ (discovery[e] # None => "config" \in excuse[e])
            BY <4>1, <5>1 DEF LeftInv, LeftoversExplained
          <5> QED BY <2>3, <4>2, <4>4, <5>2
        <4> QED BY <4>3, <4>4
      <3> QED BY <3>1 DEF LeftoversExplained
    <2> QED BY <2>4, <2>5, <2>6 DEF LeftInv
  <1>7. CASE LoopForget
    <2>1. /\ loop = "forget" /\ loop' = "select" /\ UNCHANGED <<eventCh, retained, discovery>>
          /\ topicNames' = [topicNames EXCEPT ![loopDev] = None]
          /\ excuse' = [excuse EXCEPT ![loopDev] = excuse[loopDev] \cup RetainedOf(loopDev)]
      BY <1>7 DEF LoopForget
    <2>2. ASSUME NEW e \in Device PROVE Accounted(e)
      <3>1. ~Clearing(e)
        BY <2>1 DEF Clearing, LoopHolds, Publishing
      <3>2. RetainedOf(e)' = RetainedOf(e)
        BY <2>1 DEF RetainedOf
      <3>3. Excused(e)
        <4>1. CASE e = loopDev
          <5>1. excuse'[e] = excuse[e] \cup RetainedOf(e)
            BY <2>1, <4>1 DEF BrokerTypes
          <5> QED BY <2>1, <3>2, <5>1 DEF Excused
        <4>2. CASE e # loopDev
          <5>1. topicNames'[e] = topicNames[e] /\ excuse'[e] = excuse[e]
            BY <2>1, <4>2 DEF BrokerTypes
          <5> QED BY <2>1, <3>2, <5>1 DEF Excused
        <4> QED BY <4>1, <4>2
      <3> QED BY <1>0, <2>1, <3>1, <3>3, QuietAccounted
    <2>3. StagedInv'
      BY <2>1 DEF StagedInv
    <2> QED BY <2>2, <2>3, AccountedStep
  <1>8. CASE LoopEnds
    <2>1. /\ loop = "select" /\ loop' = "gone" /\ UNCHANGED <<eventCh, discovery, topicNames>>
          /\ UNCHANGED <<retained, excuse>>
      BY <1>8 DEF LoopEnds, topicVars
    <2>2. ASSUME NEW e \in Device PROVE Accounted(e)
      <3>1. ~Clearing(e)
        BY <2>1 DEF Clearing, LoopHolds, Publishing
      <3> QED BY <1>0, <2>1, <3>1, SameExcused, QuietAccounted
    <2>3. StagedInv'
      BY <2>1 DEF StagedInv
    <2> QED BY <2>2, <2>3, AccountedStep
  <1> QED BY <1>1, <1>2, <1>3, <1>4, <1>5, <1>6, <1>7, <1>8 DEF eventLoop

\* The steps of the others that publish something, and those that do not.
LEMMA OthersExplained ==
    ASSUME TypeInv, LeftInv, [Next]_vars, ~Coordinator, ~eventLoop
    PROVE  LeftInv'
  <1>1. UNCHANGED <<record, leaving, eventCh, loop, loopDev, loopPayload, loopTopic>>
    BY Actors DEF discRest, cmdRest, connRest, stopRest, vars, envVars, loopVars
  <1>2. ASSUME \A e \in Device : Excused(e) PROVE LeftInv'
    <2>1. \A e \in Device : Clearing(e) => Clearing(e)'
      BY <1>1 DEF Clearing, LoopHolds
    <2>2. \A e \in Device : Accounted(e)
      BY <1>1, <1>2, <2>1, QuietAccounted
    <2> QED BY <1>1, <2>2, AccountedStep
  <1> USE DEF TypeInv
  <1>3. CASE CommandPublish
    <2>1. /\ cmdDev \in Device /\ cmdTopic \in Topic /\ cmdPayload \in Value
          /\ publishState(cmdDev, cmdTopic, cmdPayload) /\ discovery' = discovery
      BY <1>3 DEF CommandPublish, CmdInv, cmdRest
    <2> QED BY <1>1, <1>2, <2>1, PublishExcused
  <1>4. CASE CommandFill
    <2>1. cmdDev \in Device /\ cmdTopic \in Topic /\ cacheTopic(cmdDev, cmdTopic) /\ discovery' = discovery
      BY <1>4 DEF CommandFill, CmdInv, cmdRest
    <2> QED BY <1>1, <1>2, <2>1, CacheExcused
  <1>5. ASSUME NEW w \in Disc, DiscCache(w) \/ DiscPublish(w) PROVE LeftInv'
    <2>1. dev[w] \in Device /\ topic[w] \in Topic
      BY <1>5 DEF DiscCache, DiscPublish, DiscGoto, DiscInv, CopyInv, Announcing
    <2>2. CASE DiscCache(w)
      <3>1. cacheTopic(dev[w], topic[w]) /\ discovery' = discovery
        BY <2>2 DEF DiscCache
      <3> QED BY <1>1, <1>2, <2>1, <3>1, CacheExcused
    <2>3. CASE DiscPublish(w)
      <3>1. publishDiscovery(dev[w], topic[w])
        BY <2>3 DEF DiscPublish
      <3> QED BY <1>1, <1>2, <2>1, <3>1, PublishDiscoveryExcused
    <2> QED BY <1>5, <2>2, <2>3
  <1>6. CASE ConnCache
    <2>1. copy' \in Device \X Topic /\ cacheTopic(copy'[1], copy'[2]) /\ discovery' = discovery
      BY <1>6 DEF ConnCache, ConnInv
    <2>2. copy'[1] \in Device /\ copy'[2] \in Topic
      BY <2>1
    <2>3. PICK d \in Device, t \in Topic : cacheTopic(d, t)
      BY <2>1, <2>2
    <2> QED BY <1>1, <1>2, <2>1, <2>3, CacheExcused
  <1>7. CASE ConnPublish
    <2>1. copy \in Device \X Topic /\ publishDiscovery(copy[1], copy[2])
      BY <1>7 DEF ConnPublish, ConnInv
    <2> QED BY <1>1, <1>2, <2>1, PublishDiscoveryExcused
  <1>8. CASE /\ ~CommandPublish /\ ~CommandFill /\ ~ConnCache /\ ~ConnPublish
             /\ \A w \in Disc : ~DiscCache(w) /\ ~DiscPublish(w)
    <2>1. UNCHANGED <<topicNames, retained, discovery, excuse>>
      <3>1. CASE handleCommand
        BY <1>8, <3>1 DEF handleCommand, CommandArrives, CommandSent, CommandLeavesState, CommandTopic,
           updateState, cmdRest, topicVars
      <3>2. ASSUME NEW w \in Disc, delayedDiscovery(w)
            PROVE  UNCHANGED <<topicNames, retained, discovery, excuse>>
        BY <1>8, <3>2 DEF delayedDiscovery, DiscRegister, DiscTick, DiscCancelled, DiscSubscribe,
           DiscCleanup, topicVars
      <3>3. CASE ConnectionLost \/ Connect \/ OnConnect
        BY <1>8, <3>3 DEF ConnectionLost, Connect, OnConnect, ConnList, ConnRelist, ConnSubscribe,
           topicVars
      <3>4. CASE Stop \/ Stopping \/ UNCHANGED vars
        BY <3>4, StopFrame DEF stopRest, vars, topicVars
      <3> QED BY <3>1, <3>2, <3>3, <3>4 DEF Next
    <2> QED BY <1>2, <2>1, SameExcused
  <1> QED BY <1>3, <1>4, <1>5, <1>6, <1>7, <1>8

\* The order of a leave, its event, the renames and the publishes of the four
\* goroutines is anybody's: what stays on the broker for a deleted device is
\* there for one of the causes that the property names.
THEOREM LeftoversExplainedHolds == Spec => []LeftoversExplained
  <1>1. Init => LeftInv
    <2> SUFFICES ASSUME Init PROVE LeftInv
      OBVIOUS
    <2>1. \A e \in Device : RetainedOf(e) = {}
      BY DEF Init, RetainedOf
    <2>2. LeftoversExplained
      BY <2>1 DEF Init, LeftoversExplained, Gone
    <2> QED BY <2>1, <2>2 DEF Init, LeftInv, CoverInv, StagedInv
  <1>2. TypeInv /\ LeftInv /\ [Next]_vars => LeftInv'
    BY CoordinatorExplained, LoopExplained, OthersExplained
  <1>3. LeftInv => LeftoversExplained
    BY DEF LeftInv
  <1> QED BY <1>1, <1>2, <1>3, Typing, PTL DEF Spec

-----------------------------------------------------------------------------
(* Commands.                                                               *)

\* The two together are inductive.
ToldInv == KnownInv /\ ReachInv

\* A step of the coordinator either keeps what is known of a device or upsets
\* it; whom nobody knows as interviewed nobody announces.
LEMMA CoordinatorKnows ==
    ASSUME TypeInv, ToldInv, Coordinator
    PROVE  ToldInv'
  <1>1. UNCHANGED <<pc, dev, topic, connected, conn, todo, copy, unlisted, subscribed, discovery>>
    BY CoordinatorFrame DEF envRest, discVars, connVars
  <1>2. ASSUME NEW e \in Device, ~upset'[e]
        PROVE  ~upset[e] /\ \A t : Known(e, t) => Known(e, t)'
    <2>1. ASSUME NEW d \in Device, Upset(d),
                 \A f \in Device : f # d => record'[f] = record[f] /\ name'[f] = name[f]
          PROVE  ~upset[e] /\ \A t : Known(e, t) => Known(e, t)'
      <3>1. upset' = [upset EXCEPT ![d] = upset[d] \/ record[d] = "interviewed"]
        BY <2>1 DEF Upset
      <3>2. ~upset[e] /\ (e = d => record[e] # "interviewed")
        BY <1>2, <3>1 DEF TypeInv, UpsetType
      <3> QED BY <2>1, <3>2 DEF Known
    <2>2. ASSUME upset' = upset, record[e] = "interviewed" => record'[e] = record[e] /\ name'[e] = name[e]
          PROVE  ~upset[e] /\ \A t : Known(e, t) => Known(e, t)'
      BY <1>2, <2>2 DEF Known
    <2>3. ASSUME NEW type \in {"joined", "announce"}, NEW d \in Device, HandleRead(type, d)
          PROVE  ~upset[e] /\ \A t : Known(e, t) => Known(e, t)'
      BY <2>2, <2>3 DEF HandleRead
    <2>4. CASE HandleSave
      <3>1. /\ handler \in Handler /\ record' = [record EXCEPT ![handler.dev] = handler.record]
            /\ name' = [name EXCEPT ![handler.dev] = handler.name]
            /\ \/ handler.record = record[handler.dev] /\ handler.name = name[handler.dev]
                  /\ upset' = upset
               \/ Upset(handler.dev)
        BY <2>4 DEF HandleSave, TypeInv, EnvInv
      <3>2. handler.dev \in Device
        BY <3>1 DEF Handler
      <3>3. \A f \in Device : f # handler.dev => record'[f] = record[f] /\ name'[f] = name[f]
        BY <3>1, <3>2 DEF TypeInv, EnvInv
      <3>4. CASE Upset(handler.dev)
        BY <2>1, <3>2, <3>3, <3>4
      <3>5. CASE /\ handler.record = record[handler.dev] /\ handler.name = name[handler.dev]
                 /\ upset' = upset
        <4>1. record'[e] = record[e] /\ name'[e] = name[e]
          BY <3>1, <3>2, <3>3, <3>5 DEF TypeInv, EnvInv
        <4> QED BY <2>2, <3>5, <4>1
      <3> QED BY <3>1, <3>4, <3>5
    <2>5. ASSUME NEW d \in Device, InterviewDone(d)
          PROVE  ~upset[e] /\ \A t : Known(e, t) => Known(e, t)'
      <3>1. upset' = upset /\ (record[e] = "interviewed" => record'[e] = record[e] /\ name'[e] = name[e])
        BY <2>5 DEF InterviewDone, TypeInv, EnvInv
      <3> QED BY <2>2, <3>1
    <2>6. ASSUME NEW d \in Device, Rename(d) \/ Delete(d)
          PROVE  ~upset[e] /\ \A t : Known(e, t) => Known(e, t)'
      <3>1. Upset(d) /\ \A f \in Device : f # d => record'[f] = record[f] /\ name'[f] = name[f]
        BY <2>6 DEF Rename, Delete, TypeInv, EnvInv
      <3> QED BY <2>1, <3>1
    <2>7. ASSUME NEW d \in Device, EmitLeft(d) \/ Report(d)
          PROVE  ~upset[e] /\ \A t : Known(e, t) => Known(e, t)'
      BY <2>2, <2>7 DEF EmitLeft, Report
    <2> QED BY <2>3, <2>4, <2>5, <2>6, <2>7 DEF Coordinator
  <1>3. KnownInv'
    <2>1. \A e \in Device : ~upset'[e] /\ discovery'[e] # None => Known(e, discovery[e])'
      BY <1>1, <1>2 DEF ToldInv, KnownInv
    <2>2. ASSUME NEW p \in todo, ~upset'[p[1]] PROVE Known(p[1], p[2])'
      <3>1. p[1] \in Device
        BY DEF TypeInv, ConnInv
      <3> QED BY <1>2, <2>2, <3>1 DEF ToldInv, KnownInv
    <2>3. ASSUME conn = "publish", ~upset'[copy[1]] PROVE Known(copy[1], copy[2])'
      <3>1. copy[1] \in Device
        BY <2>3 DEF TypeInv, ConnInv
      <3>2. Known(copy[1], copy[2])
        BY <1>2, <2>3, <3>1 DEF ToldInv, KnownInv
      <3> QED BY <1>1, <1>2, <2>3, <3>1, <3>2 DEF Known
    <2>4. ASSUME NEW w \in Disc, pc[w] \in Announcing, ~upset'[dev[w]] PROVE Known(dev[w], topic[w])'
      <3>1. dev[w] \in Device
        BY <2>4 DEF TypeInv, DiscInv, Announcing
      <3>2. Known(dev[w], topic[w])
        BY <1>2, <2>4, <3>1 DEF ToldInv, KnownInv
      <3> QED BY <1>1, <1>2, <2>4, <3>1, <3>2 DEF Known
    <2> QED BY <1>1, <2>1, <2>2, <2>3, <2>4 DEF KnownInv
  <1>4. ReachInv'
    BY <1>1, <1>2 DEF ToldInv, ReachInv
  <1> QED BY <1>3, <1>4 DEF ToldInv

\* What is known does not change when the records do not.
LEMMA KnownFrame ==
    ASSUME UNCHANGED <<record, name>>, NEW d, NEW t
    PROVE  Known(d, t)' <=> Known(d, t)
  BY DEF Known

LEMMA LoopKnows ==
    ASSUME TypeInv, ToldInv, eventLoop
    PROVE  ToldInv'
  <1>1. UNCHANGED <<record, name, upset, connected, conn, todo, copy, unlisted, subscribed>>
    BY LoopFrame DEF loopRest, envVars, connVars
  <1>2. \A d \in Device : discovery'[d] # None => discovery'[d] = discovery[d]
    BY DEF eventLoop, LoopIgnore, LoopReport, LoopLeft, LoopAnnounce, LoopTopic, LoopFill,
           LoopPublish, LoopClear, LoopForget, LoopEnds, TypeInv, BrokerTypes
  <1>3. \A w \in Disc : \/ pc'[w] = pc[w] /\ dev'[w] = dev[w] /\ topic'[w] = topic[w]
                        \/ pc[w] = "none" /\ pc'[w] = "spawned"
    <2>1. CASE LoopAnnounce
      <3>1. topic' = topic
        BY <2>1 DEF LoopAnnounce
      <3> QED BY <2>1, <3>1, AnnounceSpawns DEF TypeInv, DiscTypes
    <2>2. CASE ~LoopAnnounce
      BY <2>2 DEF eventLoop, LoopIgnore, LoopReport, LoopLeft, LoopTopic, LoopFill, LoopPublish,
         LoopClear, LoopForget, LoopEnds, discVars
    <2> QED BY <2>1, <2>2
  <1>4. KnownInv'
    BY <1>1, <1>2, <1>3 DEF ToldInv, KnownInv, Known, Announcing
  <1>5. ReachInv'
    BY <1>1, <1>2, <1>3 DEF ToldInv, ReachInv
  <1> QED BY <1>4, <1>5 DEF ToldInv

LEMMA DiscKnows ==
    ASSUME TypeInv, ToldInv, NEW w \in Disc, delayedDiscovery(w)
    PROVE  ToldInv'
  <1>1. UNCHANGED <<record, name, upset, connected, conn, todo, copy, unlisted>>
    BY DiscFrame DEF discRest, envVars, connVars
  <1>2. \A v \in Disc : v # w => pc'[v] = pc[v] /\ dev'[v] = dev[v] /\ topic'[v] = topic[v]
    BY DEF delayedDiscovery, DiscRegister, DiscTick, DiscCancelled, DiscCache, DiscPublish,
           DiscSubscribe, DiscCleanup, DiscGoto, TypeInv, DiscTypes, CopyInv, tableVars
  <1>3. CASE DiscPublish(w)
    <2>1. /\ pc[w] = "publish" /\ pc'[w] = "subscribe" /\ subscribed' = subscribed
          /\ dev' = dev /\ topic' = topic /\ dev[w] \in Device
      BY <1>3 DEF DiscPublish, DiscGoto, TypeInv, DiscTypes, DiscInv, tableVars
    <2>2. /\ discovery'[dev[w]] = topic[w]
          /\ \A d \in Device : d # dev[w] => discovery'[d] = discovery[d]
      BY <1>3, <2>1 DEF DiscPublish, publishDiscovery, TypeInv, BrokerTypes
    <2>3. KnownInv'
      BY <1>1, <1>2, <2>1, <2>2 DEF ToldInv, KnownInv, Known, Announcing
    <2>4. ReachInv'
      BY <1>1, <1>2, <2>1, <2>2 DEF ToldInv, ReachInv
    <2> QED BY <2>3, <2>4 DEF ToldInv
  <1>4. CASE DiscSubscribe(w)
    <2>1. /\ pc[w] = "subscribe" /\ pc'[w] = "exit" /\ discovery' = discovery /\ dev' = dev
          /\ dev[w] \in Device /\ topic[w] \in Topic
          /\ connected => subscribed' = [subscribed EXCEPT ![topic[w]] = dev[w]]
      BY <1>4 DEF DiscSubscribe, subscribe, DiscGoto, TypeInv, DiscTypes, DiscInv, CopyInv, Announcing,
         tableVars
    <2>2. KnownInv'
      BY <1>1, <1>2, <2>1 DEF ToldInv, KnownInv, Known, Announcing
    <2>3. ReachInv'
      <3>1. ASSUME connected, conn \in {"idle", "subscribe"}, ~unlisted, NEW d \in Device,
                   ~upset[d], discovery[d] # None,
                   \A v \in Disc : ~(pc'[v] = "subscribe" /\ dev'[v] = d)
            PROVE  subscribed'[discovery[d]] # None \/ (conn = "subscribe" /\ <<d, discovery[d]>> \in todo)
        <4>1. subscribed \in [Topic -> Device \cup {None}] /\ dev[w] # None
          BY <2>1, NoneAssumption DEF TypeInv, ConnInv, Topic
        <4>2. discovery[d] \in Topic
          BY <3>1 DEF TypeInv, BrokerTypes
        <4>3. CASE dev[w] = d
          <5>1. topic[w] = discovery[d]
            BY <2>1, <3>1, <4>3 DEF ToldInv, KnownInv, Known, Announcing
          <5> QED BY <2>1, <3>1, <4>1, <4>2, <5>1
        <4>4. CASE dev[w] # d
          <5>1. \A v \in Disc : ~(pc[v] = "subscribe" /\ dev[v] = d)
            BY <1>2, <2>1, <3>1, <4>4
          <5>2. subscribed[discovery[d]] # None \/ (conn = "subscribe" /\ <<d, discovery[d]>> \in todo)
            BY <3>1, <5>1 DEF ToldInv, ReachInv
          <5> QED BY <2>1, <3>1, <4>1, <4>2, <5>2
        <4> QED BY <4>3, <4>4
      <3> QED BY <1>1, <2>1, <3>1 DEF ReachInv
    <2> QED BY <2>2, <2>3 DEF ToldInv
  <1>5. CASE ~DiscPublish(w) /\ ~DiscSubscribe(w)
    <2>1. /\ pc[w] # "subscribe" /\ pc'[w] # "subscribe" /\ UNCHANGED <<subscribed, discovery>>
      BY <1>5 DEF delayedDiscovery, DiscRegister, DiscTick, DiscCancelled, DiscCache, DiscCleanup,
         DiscGoto, TypeInv, DiscTypes
    <2>2. pc'[w] \in Announcing => /\ dev'[w] = dev[w]
                                   /\ \/ Known(dev[w], topic'[w])
                                      \/ pc[w] \in Announcing /\ topic'[w] = topic[w]
      BY <1>5 DEF delayedDiscovery, DiscRegister, DiscTick, DiscCancelled, DiscCache, DiscCleanup,
         DiscGoto, TypeInv, DiscTypes, CopyInv, Announcing, Known, tableVars
    <2>3. KnownInv'
      BY <1>1, <1>2, <2>1, <2>2 DEF ToldInv, KnownInv, Known
    <2>4. ReachInv'
      BY <1>1, <1>2, <2>1, <2>2 DEF ToldInv, ReachInv
    <2> QED BY <2>3, <2>4 DEF ToldInv
  <1> QED BY <1>3, <1>4, <1>5

LEMMA ConnKnows ==
    ASSUME TypeInv, ToldInv, ConnectionLost \/ Connect \/ OnConnect
    PROVE  ToldInv'
  <1>1. UNCHANGED <<record, name, upset, pc, dev, topic>>
    BY ConnFrame DEF connRest, discVars
  <1>2. \A w \in Disc : pc[w] \in Announcing /\ ~upset[dev[w]] => Known(dev[w], topic[w])
    BY DEF ToldInv, KnownInv
  <1>3. ASSUME UNCHANGED discovery, todo' \subseteq todo \cup Interviewed,
               conn' \in {"idle", "subscribe"} => ~connected' \/ unlisted',
               conn' = "publish" => copy' \in todo \/ (conn = "publish" /\ copy' = copy)
        PROVE  ToldInv'
    <2>1. \A p \in todo \cup Interviewed : ~upset[p[1]] => Known(p[1], p[2])
      BY DEF ToldInv, KnownInv, Interviewed, Known
    <2>2. KnownInv'
      BY <1>1, <1>2, <1>3, <2>1 DEF ToldInv, KnownInv, Known
    <2>3. ReachInv'
      BY <1>3 DEF ReachInv
    <2> QED BY <2>2, <2>3 DEF ToldInv
  <1>4. CASE ConnectionLost
    BY <1>3, <1>4 DEF ConnectionLost
  <1>5. CASE Connect
    BY <1>3, <1>5 DEF Connect
  <1>10. CASE ConnList
    <2>1. UNCHANGED discovery /\ conn' = "cache" /\ todo' \subseteq todo \cup Interviewed
      BY <1>10 DEF ConnList
    <2> QED BY <1>3, <2>1
  <1>6. CASE ConnCache
    BY <1>3, <1>6 DEF ConnCache
  <1>7. CASE ConnPublish
    <2>1. /\ conn = "publish" /\ conn' = "cache" /\ publishDiscovery(copy[1], copy[2]) /\ todo' = todo
          /\ copy[1] \in Device
      BY <1>7 DEF ConnPublish, TypeInv, ConnInv
    <2>2. /\ discovery'[copy[1]] = copy[2]
          /\ \A d \in Device : d # copy[1] => discovery'[d] = discovery[d]
      BY <2>1 DEF publishDiscovery, TypeInv, BrokerTypes
    <2>3. KnownInv'
      BY <1>1, <1>2, <2>1, <2>2 DEF ToldInv, KnownInv, Known
    <2>4. ReachInv'
      BY <2>1 DEF ReachInv
    <2> QED BY <2>3, <2>4 DEF ToldInv
  <1>8. CASE ConnRelist
    <2>1. CASE unlisted'
      <3>1. todo' \subseteq Interviewed /\ conn' = "subscribe" /\ discovery' = discovery
        BY <1>8, <2>1 DEF ConnRelist
      <3> QED BY <1>3, <2>1, <3>1
    <2>2. CASE ~unlisted'
      <3>1. /\ conn' = "subscribe" /\ todo' = Interviewed
            /\ UNCHANGED <<connected, copy, subscribed, discovery>>
        BY <1>8, <2>2 DEF ConnRelist
      <3>2. \A p \in Interviewed : Known(p[1], p[2])
        BY DEF Interviewed, Known
      <3>3. KnownInv'
        BY <1>1, <1>2, <3>1, <3>2 DEF ToldInv, KnownInv, Known
      <3>4. \A d \in Device : ~upset[d] /\ discovery[d] # None => <<d, discovery[d]>> \in Interviewed
        BY DEF ToldInv, KnownInv, Known, Interviewed
      <3>5. ReachInv'
        BY <1>1, <3>1, <3>4 DEF ReachInv
      <3> QED BY <3>3, <3>5 DEF ToldInv
    <2> QED BY <2>1, <2>2
  <1>9. CASE ConnSubscribe
    <2>1. conn = "subscribe" /\ UNCHANGED <<connected, copy, unlisted, discovery>>
      BY <1>9 DEF ConnSubscribe
    <2>2. CASE todo = {}
      <3>1. conn' = "idle" /\ UNCHANGED <<todo, subscribed>>
        BY <1>9, <2>2 DEF ConnSubscribe
      <3>2. KnownInv'
        BY <1>1, <2>1, <3>1 DEF ToldInv, KnownInv, Known
      <3>3. ReachInv'
        BY <1>1, <2>1, <2>2, <3>1 DEF ToldInv, ReachInv
      <3> QED BY <3>2, <3>3 DEF ToldInv
    <2>3. CASE todo # {}
      <3>1. PICK p \in todo : subscribe(p[1], p[2]) /\ todo' = todo \ {p} /\ conn' = conn
        BY <1>9, <2>3 DEF ConnSubscribe
      <3>2. p \in Device \X Topic /\ p[1] \in Device /\ p[2] \in Topic /\ p = <<p[1], p[2]>> /\ p[1] # None
        BY <3>1, NoneAssumption DEF TypeInv, ConnInv, Topic
      <3>3. KnownInv'
        BY <1>1, <2>1, <3>1 DEF ToldInv, KnownInv, Known
      <3>4. ASSUME connected
            PROVE  \A t \in Topic : subscribed'[t] = IF t = p[2] THEN p[1] ELSE subscribed[t]
        BY <3>1, <3>2, <3>4 DEF subscribe, TypeInv, ConnInv
      <3>5. ASSUME NEW d \in Device, connected, ~unlisted, ~upset[d], discovery[d] # None,
                   \A w \in Disc : ~(pc[w] = "subscribe" /\ dev[w] = d)
            PROVE  subscribed'[discovery[d]] # None \/ <<d, discovery[d]>> \in todo'
        <4>1. subscribed[discovery[d]] # None \/ <<d, discovery[d]>> \in todo
          BY <2>1, <3>5 DEF ToldInv, ReachInv
        <4>2. discovery[d] \in Topic
          BY <3>5 DEF TypeInv, BrokerTypes
        <4>3. CASE p = <<d, discovery[d]>>
          <5>1. p[2] = discovery[d]
            BY <4>3
          <5> QED BY <3>2, <3>4, <3>5, <4>2, <5>1
        <4>4. CASE p # <<d, discovery[d]>>
          BY <3>1, <3>2, <3>4, <3>5, <4>1, <4>2, <4>4
        <4> QED BY <4>3, <4>4
      <3>6. ReachInv'
        BY <1>1, <2>1, <3>1, <3>5 DEF ReachInv
      <3> QED BY <3>3, <3>6 DEF ToldInv
    <2> QED BY <2>2, <2>3
  <1> QED BY <1>4, <1>5, <1>6, <1>7, <1>8, <1>9, <1>10 DEF OnConnect

\* Whichever of a delayed discovery and the OnConnect handler announces a
\* device, and wherever a lost connection falls between its steps, the topic
\* that Home Assistant was told of is subscribed once both are through, unless
\* the record was changed under them or the OnConnect handler could not list
\* the devices.
THEOREM CommandsReachHolds == Spec => []CommandsReach
  <1>1. Init => ToldInv
    <2> SUFFICES ASSUME Init PROVE ToldInv
      OBVIOUS
    <2>1. KnownInv
      BY DEF Init, KnownInv, Known, Announcing
    <2>2. ReachInv
      BY DEF Init, ReachInv
    <2> QED BY <2>1, <2>2 DEF ToldInv
  <1>2. TypeInv /\ ToldInv /\ [Next]_vars => ToldInv'
    <2> SUFFICES ASSUME TypeInv, ToldInv, [Next]_vars PROVE ToldInv'
      OBVIOUS
    <2>1. CASE handleCommand \/ UNCHANGED vars
      <3>1. /\ UNCHANGED <<record, name, upset, pc, dev, topic>>
            /\ UNCHANGED <<connected, conn, todo, copy, unlisted, subscribed, discovery>>
        BY <2>1, CmdFrame DEF cmdRest, vars, envVars, discVars, connVars
      <3> QED BY <3>1 DEF ToldInv, KnownInv, Known, ReachInv
    <2>2. CASE Stop \/ Stopping
      <3>1. UNCHANGED <<record, name, upset, pc, dev, topic, conn, todo, copy, unlisted, discovery>>
        BY <2>2, StopFrame DEF stopRest, discVars
      <3>2. connected' => connected /\ subscribed' = subscribed
        BY <2>2 DEF Stop, Stopping, StopWaitsLoop, StopReturns
      <3> QED BY <3>1, <3>2 DEF ToldInv, KnownInv, Known, ReachInv
    <2> QED BY <2>1, <2>2, CoordinatorKnows, LoopKnows, DiscKnows, ConnKnows DEF Next
  <1>3. ToldInv => CommandsReach
    BY DEF ToldInv, ReachInv, CommandsReach
  <1> QED BY <1>1, <1>2, <1>3, Typing, PTL DEF Spec
=============================================================================
