----------------------------- MODULE MqttBridge -----------------------------
(***************************************************************************)
(* The MQTT bridge of internal/mqtt/bridge.go: the event queue and its     *)
(* loop, the delayed-discovery goroutines that announces start, the        *)
(* OnConnect handler, the command callbacks of the MQTT library, and Stop. *)
(*                                                                         *)
(* Device records belong to the device manager; here they change as it may *)
(* change them while no write to the store fails; reads may fail.          *)
(*                                                                         *)
(* The broker is what it retains: the states and the Home Assistant        *)
(* discovery.  A publish takes effect where it is called: the library      *)
(* sends in order and resends after a reconnect; the goroutines that wait  *)
(* for its token end within 5 s and touch nothing.  The library runs the   *)
(* command callbacks one at a time and the OnConnect handler in a          *)
(* goroutine of its own.                                                   *)
(*                                                                         *)
(* A device publishes under its IEEE address, or under its friendly name   *)
(* once it has one: the interview or the user gives it, and two devices    *)
(* may have the same.  The accumulated state of a device is the number of  *)
(* the update that made it, 0 if there is none.                            *)
(***************************************************************************)
EXTENDS Naturals, Sequences, FiniteSets

CONSTANTS
    Device,      \* IEEE addresses; as a topic, the one made of the address
    Name,        \* topics made of friendly names
    Disc,        \* delayedDiscovery goroutines; bounds the announces handled
    QueueCap,    \* capacity of eventCh
    MaxTicks,    \* polls of a delayed discovery
    MaxEvents,   \* bound: joins, announces, reports, commands, leaves, renames,
                 \* lost connections and Stop, together
    None

Topic == Device \cup Name
Value == 0 .. MaxEvents
Event == [type : {"joined", "announce", "left"}, dev : Device, value : {0}]
         \cup [type : {"report"}, dev : Device, value : Value \ {0}]

\* HandleJoin or HandleAnnounce with the record it has read.
Handler == [type : {"joined", "announce"}, dev : Device,
            record : {"joined", "interviewed"}, name : Topic]

ASSUME BoundAssumption == {QueueCap, MaxTicks} \subseteq Nat \ {0} /\ MaxEvents \in Nat

ASSUME NoneAssumption == None \notin Topic \cup Disc \cup Handler \cup [dev : Device, val : Value]
                         /\ "config" \notin Topic

VARIABLES
    record, name,                  \* the device store, as the bridge sees it
    handler,                       \* readLoop between GetDevice and SaveDevice
    leaving,                       \* deleted, the device-left event not yet emitted
    happened,                      \* events counted by MaxEvents so far
    eventCh,
    states,                        \* Bridge.states
    topicNames,                    \* Bridge.topicNames
    pendingDiscovery,              \* Device -> the goroutine whose cancel it holds
    discoveryGen, nextDiscGen,
    loop, loopDev, loopPayload, loopTopic,     \* eventLoop
    pc, dev, gen, cancelled, ticks, topic,     \* delayedDiscovery
    cmd, cmdDev, cmdPayload, cmdTopic,         \* the command callback
    connected, conn, todo, copy,   \* the connection and OnConnect
    subscribed,                    \* command topic -> the device whose callback it has
    stop,                          \* Stop
    retained, discovery,           \* the broker: states; the topic in the discovery
    overlap, excuse, upset, unlisted           \* history, see the properties

envVars  == <<record, name, handler, leaving, happened, upset>>
discVars == <<pendingDiscovery, discoveryGen, nextDiscGen, pc, dev, gen, cancelled, ticks, topic>>
loopVars == <<loop, loopDev, loopPayload, loopTopic>>
cmdVars  == <<cmd, cmdDev, cmdPayload, cmdTopic>>
connVars == <<connected, conn, todo, copy, unlisted>>
topicVars == <<topicNames, retained, overlap, excuse>>
vars == <<envVars, eventCh, discVars, loopVars, cmdVars, connVars, topicVars,
          states, subscribed, stop, discovery>>

DiscPc == {"none", "spawned", "wait", "cache", "publish", "subscribe", "exit", "gone"}
\* Program points between registration in pendingDiscovery and the cleanup.
Waiting == {"wait", "cache", "publish", "subscribe", "exit"}

TypeOK ==
    /\ record \in [Device -> {"none", "joined", "interviewed", "left"}]
    /\ name \in [Device -> Topic]
    /\ handler \in Handler \cup {None}
    /\ leaving \subseteq Device /\ happened \in Value
    /\ eventCh \in Seq(Event) /\ Len(eventCh) <= QueueCap
    /\ states \in [Device -> Value]
    /\ topicNames \in [Device -> Topic \cup {None}]
    /\ pendingDiscovery \in [Device -> Disc \cup {None}]
    /\ discoveryGen \in [Device -> Nat] /\ nextDiscGen \in Nat
    /\ loop \in {"select", "topic", "fill", "publish", "forget", "gone"}
    /\ loopDev \in Device \cup {None} /\ loopPayload \in Value
    /\ loopTopic \in Topic \cup {None}
    /\ pc \in [Disc -> DiscPc] /\ dev \in [Disc -> Device \cup {None}]
    /\ gen \in [Disc -> Nat] /\ cancelled \in [Disc -> BOOLEAN]
    /\ ticks \in [Disc -> 0 .. MaxTicks] /\ topic \in [Disc -> Topic \cup {None}]
    /\ cmd \in {"idle", "send", "topic", "fill", "publish"}
    /\ cmdDev \in Device \cup {None} /\ cmdPayload \in Value
    /\ cmdTopic \in Topic \cup {None}
    /\ connected \in BOOLEAN /\ unlisted \in BOOLEAN
    /\ conn \in {"idle", "list", "cache", "publish", "subscribe"}
    /\ todo \subseteq Device \X Topic /\ copy \in (Device \X Topic) \cup {None}
    /\ subscribed \in [Topic -> Device \cup {None}]
    /\ stop \in {"up", "waitLoop", "waitDisc", "stopped"}
    /\ retained \in [Topic -> [dev : Device, val : Value] \cup {None}]
    /\ discovery \in [Device -> Topic \cup {None}]
    /\ overlap \in [Device -> BOOLEAN] /\ upset \in [Device -> BOOLEAN]
    /\ excuse \in [Device -> SUBSET (Topic \cup {"config"})]

\* NewBridge has connected and Start subscribed; the broker still retains the
\* discovery that an earlier run published for the devices in the store.  What
\* else earlier runs left there is not followed.
Init ==
    /\ record \in [Device -> {"none", "joined", "interviewed"}]
    /\ name \in [Device -> Topic] /\ \A d \in Device : record[d] = "none" => name[d] = d
    /\ handler = None /\ leaving = {} /\ happened = 0 /\ eventCh = <<>>
    /\ states = [d \in Device |-> 0] /\ topicNames = [d \in Device |-> None]
    /\ pendingDiscovery = [d \in Device |-> None]
    /\ discoveryGen = [d \in Device |-> 0] /\ nextDiscGen = 0
    /\ loop = "select" /\ loopDev = None /\ loopPayload = 0 /\ loopTopic = None
    /\ pc = [w \in Disc |-> "none"] /\ dev = [w \in Disc |-> None]
    /\ gen = [w \in Disc |-> 0] /\ cancelled = [w \in Disc |-> FALSE]
    /\ ticks = [w \in Disc |-> 0] /\ topic = [w \in Disc |-> None]
    /\ cmd = "idle" /\ cmdDev = None /\ cmdPayload = 0 /\ cmdTopic = None
    /\ connected = TRUE /\ conn = "list" /\ todo = {} /\ copy = None /\ unlisted = FALSE
    /\ subscribed = [t \in Topic |-> None]
    /\ stop = "up"
    /\ retained = [t \in Topic |-> None]
    /\ discovery = [d \in Device |-> IF record[d] = "interviewed" THEN name[d] ELSE None]
    /\ overlap = [d \in Device |-> FALSE] /\ excuse = [d \in Device |-> {}]
    /\ upset = [d \in Device |-> FALSE]

Gone(d) == record[d] \in {"none", "left"}

\* The topics under which a state of the device is retained.
RetainedOf(d) == {t \in Topic : retained[t] # None /\ retained[t].dev = d}

-----------------------------------------------------------------------------
(* The coordinator.  Events().Emit calls the OnAll callback, which drops   *)
(* the event when the queue is full.  Emitting goes on while Stop waits:   *)
(* unsub does not wait for an Emit under way.  Once Stop has returned      *)
(* nothing reads the queue any more and these steps are left out.          *)

Room == Len(eventCh) < QueueCap

\* Mutant of Emit: the event is queued whatever room there is.
EmitAlways(type, d, v) == eventCh' = Append(eventCh, [type |-> type, dev |-> d, value |-> v])

Emit(type, d, v) ==
    eventCh' = IF Room THEN Append(eventCh, [type |-> type, dev |-> d, value |-> v])
               ELSE eventCh

Happens == happened < MaxEvents /\ happened' = happened + 1

\* The record of d was changed under somebody who knows it as interviewed.
Upset(d) == upset' = [upset EXCEPT ![d] = @ \/ record[d] = "interviewed"]

envRest == <<discVars, loopVars, cmdVars, connVars, topicNames, retained, overlap, states,
             subscribed, stop, discovery>>

\* HandleJoin, HandleAnnounce: GetDevice, or a new record.
HandleRead(type, d) ==
    /\ handler = None /\ Happens
    /\ type = "announce" => \E w \in Disc : pc[w] = "none"
    /\ handler' = [type |-> type, dev |-> d,
                   record |-> IF Gone(d) THEN "joined" ELSE record[d],
                   name |-> IF Gone(d) THEN d ELSE name[d]]
    /\ UNCHANGED <<record, name, leaving, upset, eventCh, excuse, envRest>>

\* SaveDevice of the record read before, whatever became of it since; Emit.
HandleSave ==
    /\ handler # None /\ handler' = None
    /\ LET d == handler.dev
       IN  /\ record' = [record EXCEPT ![d] = handler.record]
           /\ name' = [name EXCEPT ![d] = handler.name]
           /\ IF handler.record = record[d] /\ handler.name = name[d] THEN UNCHANGED upset
              ELSE Upset(d)
           /\ Emit(handler.type, d, 0)
    /\ UNCHANGED <<leaving, happened, excuse, envRest>>

\* The interview gives a name, or writes back the one it read.
InterviewDone(d) ==
    /\ record[d] = "joined"
    /\ record' = [record EXCEPT ![d] = "interviewed"]
    /\ \E t \in Topic : name' = [name EXCEPT ![d] = t]
    /\ UNCHANGED <<handler, leaving, happened, upset, eventCh, excuse, envRest>>

\* handleAPIRenameDevice, or a further interview.
Rename(d) ==
    /\ ~Gone(d) /\ Happens
    /\ \E t \in Topic \ {name[d]} : name' = [name EXCEPT ![d] = t]
    /\ Upset(d)
    /\ UNCHANGED <<record, handler, leaving, eventCh, excuse, envRest>>

\* HandleLeave and RemoveDevice delete the record, then emit; HandleLeave also
\* for a device that is not there.
Delete(d) ==
    /\ d \notin leaving /\ Happens
    /\ record' = [record EXCEPT ![d] = IF @ = "none" THEN @ ELSE "left"]
    /\ leaving' = leaving \cup {d}
    /\ Upset(d)
    /\ UNCHANGED <<name, handler, eventCh, excuse, envRest>>

EmitLeft(d) ==
    /\ d \in leaving
    /\ leaving' = leaving \ {d}
    /\ Emit("left", d, 0)
    /\ excuse' = IF Room THEN excuse
                 ELSE [excuse EXCEPT ![d] = @ \cup RetainedOf(d) \cup {"config"}]
    /\ UNCHANGED <<record, name, handler, happened, upset, envRest>>

\* HandleAttributeReport and the property updates it leads to; the short
\* address may still lead to a device that was just deleted.
Report(d) ==
    /\ handler = None /\ record[d] # "none" /\ Happens
    /\ Emit("report", d, happened')
    /\ UNCHANGED <<record, name, handler, leaving, upset, excuse, envRest>>

Coordinator == /\ stop # "stopped"
               /\ \/ HandleSave
                  \/ \E d \in Device : \/ \E type \in {"joined", "announce"} : HandleRead(type, d)
                                        \/ InterviewDone(d) \/ Rename(d) \/ Delete(d)
                                        \/ EmitLeft(d) \/ Report(d)

-----------------------------------------------------------------------------
(* Topics.  cachedTopicName looks in the cache, then in the store; nothing *)
(* that changes the store looks at the cache, so the two are one step.     *)
(* Other goroutines may cache another name, and the topic may change hands,*)
(* before what was read is cached, and again before the publish.           *)

\* Found in the cache; or not there, and read; or not there and GetDevice
\* fails, as it does for a device that is gone.
cachedTopicName(d) ==
    IF topicNames[d] # None THEN {[at |-> "publish", topic |-> topicNames[d]]}
    ELSE {[at |-> "publish", topic |-> d]}
         \cup (IF Gone(d) THEN {} ELSE {[at |-> "fill", topic |-> name[d]]})

\* A state retained under another topic stays there, with nobody to clear it.
cacheTopic(d, t) ==
    /\ topicNames' = [topicNames EXCEPT ![d] = t]
    /\ excuse' = [excuse EXCEPT ![d] = @ \cup (RetainedOf(d) \ {t})]
    /\ UNCHANGED <<retained, overlap>>

\* What the broker retains under t is replaced, or removed, whoever's it was.
putState(d, t, payload) ==
    /\ retained' = [retained EXCEPT ![t] = IF payload = 0 THEN None
                                           ELSE [dev |-> d, val |-> payload]]
    /\ overlap' = [e \in Device |-> overlap[e] \/ (e # d /\ t \in RetainedOf(e))]
    /\ UNCHANGED topicNames

\* b.publish of a payload.  It may stay there if the device is gone or its
\* topic is another one by now.
publishState(d, t, payload) ==
    /\ putState(d, t, payload)
    /\ excuse' = [e \in Device |-> IF e = d /\ (Gone(d) \/ topicNames[d] # t)
                                   THEN excuse[e] \cup {t} ELSE excuse[e] \ {t}]

publishDiscovery(d, t) ==
    /\ discovery' = [discovery EXCEPT ![d] = t]
    /\ excuse' = [excuse EXCEPT ![d] = IF Gone(d) THEN @ \cup {"config"} ELSE @ \ {"config"}]
    /\ UNCHANGED <<topicNames, retained, overlap>>

\* updateAndPublishState: the accumulated state changes and the payload is made
\* under mu, the topic is found and the payload published after the unlock.
\* other: whether another goroutine holds a payload of the device that it has
\* yet to publish.
updateState(d, new, other) ==
    /\ states' = [states EXCEPT ![d] = new]
    /\ overlap' = [overlap EXCEPT ![d] = other]
    /\ UNCHANGED <<topicNames, retained, excuse>>

Publishing == {"topic", "fill", "publish"}
LoopHolds(d) == loop \in Publishing /\ loopDev = d
CmdHolds(d)  == cmd \in Publishing /\ cmdDev = d

-----------------------------------------------------------------------------
(* eventLoop and handleEvent.                                              *)

loopRest == <<envVars, cmdVars, connVars, subscribed, stop>>

TakeEvent(type) == loop = "select" /\ eventCh # <<>> /\ Head(eventCh).type = type
                   /\ eventCh' = Tail(eventCh)

LoopIgnore ==
    /\ TakeEvent("joined")
    /\ UNCHANGED <<discVars, loopVars, topicVars, states, discovery, loopRest>>

\* Mutant of LoopReport: the payload is made before the value is stored.
PayloadFirst ==
    /\ TakeEvent("report")
    /\ LET d == Head(eventCh).dev
       IN  /\ updateState(d, Head(eventCh).value, CmdHolds(d))
           /\ loop' = "topic" /\ loopDev' = d /\ loopPayload' = states[d]
    /\ UNCHANGED <<loopTopic, discVars, discovery, loopRest>>

\* A report, or a property update; a brightness is published after its color
\* mode, as if that had been reported before.
LoopReport ==
    /\ TakeEvent("report")
    /\ LET d == Head(eventCh).dev
       IN  /\ updateState(d, Head(eventCh).value, CmdHolds(d))
           /\ loop' = "topic" /\ loopDev' = d /\ loopPayload' = Head(eventCh).value
    /\ UNCHANGED <<loopTopic, discVars, discovery, loopRest>>

\* handleDeviceLeft; its payload is empty.
LoopLeft ==
    /\ TakeEvent("left")
    /\ loop' = "topic" /\ loopDev' = Head(eventCh).dev
    /\ UNCHANGED <<loopPayload, loopTopic, discVars, topicVars, states, discovery, loopRest>>

LoopTopic ==
    /\ loop = "topic"
    /\ \E found \in cachedTopicName(loopDev) : loop' = found.at /\ loopTopic' = found.topic
    /\ UNCHANGED <<loopDev, loopPayload, eventCh, discVars, topicVars, states, discovery, loopRest>>

LoopFill ==
    /\ loop = "fill" /\ loop' = "publish"
    /\ cacheTopic(loopDev, loopTopic)
    /\ UNCHANGED <<loopDev, loopPayload, loopTopic, eventCh, discVars, states, discovery, loopRest>>

LoopPublish ==
    /\ loop = "publish" /\ loopPayload # 0
    /\ publishState(loopDev, loopTopic, loopPayload)
    /\ loop' = "select" /\ loopDev' = None /\ loopPayload' = 0 /\ loopTopic' = None
    /\ UNCHANGED <<eventCh, discVars, states, discovery, loopRest>>

\* Mutant of LoopClear: the discovery topics are not cleared.
LeaveDiscovery ==
    /\ loop = "publish" /\ loopPayload = 0
    /\ putState(loopDev, loopTopic, 0)
    /\ excuse' = [e \in Device |-> excuse[e] \ {loopTopic}]
    /\ loop' = "forget" /\ loopTopic' = None
    /\ UNCHANGED <<loopDev, loopPayload, eventCh, discVars, states, discovery, loopRest>>

\* The state under the one topic and the discovery are removed.
LoopClear ==
    /\ loop = "publish" /\ loopPayload = 0
    /\ putState(loopDev, loopTopic, 0)
    /\ discovery' = [discovery EXCEPT ![loopDev] = None]
    /\ excuse' = [e \in Device |-> excuse[e] \ (IF e = loopDev THEN {loopTopic, "config"}
                                                ELSE {loopTopic})]
    /\ loop' = "forget" /\ loopTopic' = None
    /\ UNCHANGED <<loopDev, loopPayload, eventCh, discVars, states, loopRest>>

\* With the name, what was published meanwhile is forgotten.
LoopForget ==
    /\ loop = "forget"
    /\ states' = [states EXCEPT ![loopDev] = 0]
    /\ topicNames' = [topicNames EXCEPT ![loopDev] = None]
    /\ excuse' = [excuse EXCEPT ![loopDev] = @ \cup RetainedOf(loopDev)]
    /\ loop' = "select" /\ loopDev' = None
    /\ UNCHANGED <<loopPayload, loopTopic, eventCh, retained, overlap, discVars, discovery,
                   loopRest>>

\* The case of ctx.Done.
LoopEnds ==
    /\ loop = "select" /\ stop # "up"
    /\ loop' = "gone"
    /\ UNCHANGED <<loopDev, loopPayload, loopTopic, eventCh, topicVars, states, discVars,
                   discovery, loopRest>>

\* discWg.Add, and delayedDiscovery in a goroutine.
LoopAnnounce ==
    /\ TakeEvent("announce")
    /\ \E w \in Disc : /\ pc[w] = "none"
                       /\ pc' = [pc EXCEPT ![w] = "spawned"]
                       /\ dev' = [dev EXCEPT ![w] = Head(eventCh).dev]
    /\ UNCHANGED <<pendingDiscovery, discoveryGen, nextDiscGen, gen, cancelled, ticks, topic,
                   loopVars, topicVars, states, discovery, loopRest>>

eventLoop == \/ LoopIgnore \/ LoopReport \/ LoopLeft \/ LoopAnnounce
             \/ LoopTopic \/ LoopFill \/ LoopPublish \/ LoopClear \/ LoopForget \/ LoopEnds

-----------------------------------------------------------------------------
(* delayedDiscovery.                                                       *)

discRest == <<envVars, eventCh, loopVars, cmdVars, connVars, states, stop>>
tableVars == <<pendingDiscovery, discoveryGen, nextDiscGen, dev, gen, cancelled>>

DiscGoto(w, at, to) == pc[w] = at /\ pc' = [pc EXCEPT ![w] = to]

\* Mutant of DiscRegister: the previous one is left running.
RegisterBeside(w) ==
    /\ DiscGoto(w, "spawned", "wait")
    /\ pendingDiscovery' = [pendingDiscovery EXCEPT ![dev[w]] = w]
    /\ discoveryGen' = [discoveryGen EXCEPT ![dev[w]] = nextDiscGen + 1]
    /\ nextDiscGen' = nextDiscGen + 1
    /\ gen' = [gen EXCEPT ![w] = nextDiscGen + 1]
    /\ UNCHANGED <<cancelled, dev, ticks, topic, topicVars, subscribed, discovery, discRest>>

\* Under mu: cancel the previous one, take a generation, register.
DiscRegister(w) ==
    /\ DiscGoto(w, "spawned", "wait")
    /\ LET d == dev[w]
       IN  /\ cancelled' = IF pendingDiscovery[d] = None THEN cancelled
                           ELSE [cancelled EXCEPT ![pendingDiscovery[d]] = TRUE]
           /\ pendingDiscovery' = [pendingDiscovery EXCEPT ![d] = w]
           /\ discoveryGen' = [discoveryGen EXCEPT ![d] = nextDiscGen + 1]
    /\ nextDiscGen' = nextDiscGen + 1
    /\ gen' = [gen EXCEPT ![w] = nextDiscGen + 1]
    /\ UNCHANGED <<dev, ticks, topic, topicVars, subscribed, discovery, discRest>>

\* A tick: select may take it although the context has ended as well.
\* GetDevice fails, for a device that is gone or else; or an interviewed record
\* is read and what follows uses this copy; or there is still time.
DiscTick(w) ==
    /\ pc[w] = "wait"
    /\ LET d == dev[w]
       IN  \/ DiscGoto(w, "wait", "exit") /\ UNCHANGED <<ticks, topic>>
           \/ /\ record[d] = "interviewed" /\ DiscGoto(w, "wait", "cache")
              /\ topic' = [topic EXCEPT ![w] = name[d]] /\ UNCHANGED ticks
           \/ /\ record[d] = "joined"
              /\ ticks' = [ticks EXCEPT ![w] = @ + 1] /\ UNCHANGED topic
              /\ DiscGoto(w, "wait", IF ticks[w] + 1 < MaxTicks THEN "wait" ELSE "exit")
    /\ UNCHANGED <<tableVars, topicVars, subscribed, discovery, discRest>>

DiscCancelled(w) ==
    /\ cancelled[w] \/ stop # "up"
    /\ DiscGoto(w, "wait", "exit")
    /\ UNCHANGED <<tableVars, ticks, topic, topicVars, subscribed, discovery, discRest>>

DiscCache(w) ==
    /\ DiscGoto(w, "cache", "publish")
    /\ cacheTopic(dev[w], topic[w])
    /\ UNCHANGED <<tableVars, ticks, topic, subscribed, discovery, discRest>>

DiscPublish(w) ==
    /\ DiscGoto(w, "publish", "subscribe")
    /\ publishDiscovery(dev[w], topic[w])
    /\ UNCHANGED <<tableVars, ticks, topic, subscribed, discRest>>

\* A subscription without a connection fails, and nobody looks at its token;
\* one more for a topic replaces the callback.
subscribe(d, t) == subscribed' = IF connected THEN [subscribed EXCEPT ![t] = d] ELSE subscribed

DiscSubscribe(w) ==
    /\ DiscGoto(w, "subscribe", "exit")
    /\ subscribe(dev[w], topic[w])
    /\ topic' = [topic EXCEPT ![w] = None]
    /\ UNCHANGED <<tableVars, ticks, topicVars, discovery, discRest>>

\* The deferred cleanup, discCancel and discWg.Done.
DiscCleanup(w) ==
    /\ DiscGoto(w, "exit", "gone")
    /\ LET mine == discoveryGen[dev[w]] = gen[w]
       IN  /\ pendingDiscovery' = [pendingDiscovery EXCEPT ![dev[w]] = IF mine THEN None ELSE @]
           /\ discoveryGen' = [discoveryGen EXCEPT ![dev[w]] = IF mine THEN 0 ELSE @]
    /\ cancelled' = [cancelled EXCEPT ![w] = TRUE]
    /\ dev' = [dev EXCEPT ![w] = None] /\ gen' = [gen EXCEPT ![w] = 0]
    /\ ticks' = [ticks EXCEPT ![w] = 0]
    /\ UNCHANGED <<nextDiscGen, topic, topicVars, subscribed, discovery, discRest>>

delayedDiscovery(w) ==
    \/ DiscRegister(w) \/ DiscTick(w) \/ DiscCancelled(w) \/ DiscCache(w)
    \/ DiscPublish(w) \/ DiscSubscribe(w) \/ DiscCleanup(w)

-----------------------------------------------------------------------------
(* handleCommand, on the library's callback goroutine.                     *)

cmdRest == <<record, name, handler, leaving, upset, eventCh, discVars, loopVars, connVars,
             subscribed, stop, discovery>>

\* A command for a device that is known and has endpoints; others are ignored.
CommandArrives(d) ==
    /\ cmd = "idle" /\ record[d] = "interviewed" /\ happened < MaxEvents
    /\ \E t \in Topic : subscribed[t] = d
    /\ cmd' = "send" /\ cmdDev' = d
    /\ UNCHANGED <<cmdPayload, cmdTopic, happened, topicVars, states, cmdRest>>

CommandSent ==
    /\ cmd = "send" /\ Happens
    /\ updateState(cmdDev, happened', LoopHolds(cmdDev))
    /\ cmd' = "topic" /\ cmdPayload' = happened'
    /\ UNCHANGED <<cmdDev, cmdTopic, cmdRest>>

\* SendClusterCommand fails or times out; or it was a toggle, which leaves the
\* state to the report.
CommandLeavesState ==
    /\ cmd = "send"
    /\ cmd' = "idle" /\ cmdDev' = None
    /\ UNCHANGED <<cmdPayload, cmdTopic, happened, topicVars, states, cmdRest>>

CommandTopic ==
    /\ cmd = "topic"
    /\ \E found \in cachedTopicName(cmdDev) : cmd' = found.at /\ cmdTopic' = found.topic
    /\ UNCHANGED <<cmdDev, cmdPayload, happened, topicVars, states, cmdRest>>

CommandFill ==
    /\ cmd = "fill" /\ cmd' = "publish"
    /\ cacheTopic(cmdDev, cmdTopic)
    /\ UNCHANGED <<cmdDev, cmdPayload, cmdTopic, happened, states, cmdRest>>

\* A command may hold a state and a brightness, and a brightness sets the color
\* mode as well: each is published by itself.
CommandPublish ==
    /\ cmd = "publish"
    /\ publishState(cmdDev, cmdTopic, cmdPayload)
    /\ \/ cmd' = "idle" /\ cmdDev' = None
       \/ cmd' = "send" /\ UNCHANGED cmdDev
    /\ cmdPayload' = 0 /\ cmdTopic' = None
    /\ UNCHANGED <<happened, states, cmdRest>>

handleCommand == \/ \E d \in Device : CommandArrives(d)
                 \/ CommandSent \/ CommandLeavesState
                 \/ CommandTopic \/ CommandFill \/ CommandPublish

-----------------------------------------------------------------------------
(* The connection, and the OnConnect handler: publishAllDiscovery, then    *)
(* subscribeCommands.                                                      *)

connRest == <<record, name, handler, leaving, upset, eventCh, discVars, loopVars, cmdVars,
             states, stop>>

\* The broker forgets the subscriptions of a clean session.
ConnectionLost ==
    /\ connected /\ Happens
    /\ connected' = FALSE /\ subscribed' = [t \in Topic |-> None]
    /\ UNCHANGED <<conn, todo, copy, unlisted, topicVars, discovery, connRest>>

Connect ==
    /\ ~connected /\ conn = "idle" /\ stop # "stopped"
    /\ connected' = TRUE /\ conn' = "list"
    /\ UNCHANGED <<todo, copy, unlisted, subscribed, happened, topicVars, discovery, connRest>>

Interviewed == {<<d, name[d]>> : d \in {e \in Device : record[e] = "interviewed"}}

\* publishAllDiscovery lists the devices, or fails to; then for each it caches
\* the topic and publishes.
ConnList ==
    /\ conn = "list" /\ conn' = "cache"
    /\ todo' \in {Interviewed, {}}
    /\ UNCHANGED <<connected, copy, unlisted, subscribed, happened, topicVars, discovery, connRest>>

ConnCache ==
    /\ conn = "cache" /\ conn' = "publish"
    /\ copy' \in todo /\ todo' = todo \ {copy'}
    /\ cacheTopic(copy'[1], copy'[2])
    /\ UNCHANGED <<connected, unlisted, subscribed, happened, discovery, connRest>>

ConnPublish ==
    /\ conn = "publish" /\ conn' = "cache"
    /\ publishDiscovery(copy[1], copy[2])
    /\ copy' = None
    /\ UNCHANGED <<connected, todo, unlisted, subscribed, happened, connRest>>

\* Mutant of ConnRelist: only the devices not known before are subscribed.
ConnRelistNew ==
    /\ conn = "cache" /\ todo = {} /\ conn' = "subscribe"
    /\ todo' = {p \in Interviewed : discovery[p[1]] = None}
    /\ unlisted' = FALSE
    /\ UNCHANGED <<connected, copy, subscribed, happened, topicVars, discovery, connRest>>

\* subscribeCommands lists again; if that fails it subscribes nothing.
ConnRelist ==
    /\ conn = "cache" /\ todo = {} /\ conn' = "subscribe"
    /\ \/ todo' = Interviewed /\ unlisted' = FALSE
       \/ todo' = {} /\ unlisted' = TRUE
    /\ UNCHANGED <<connected, copy, subscribed, happened, topicVars, discovery, connRest>>

\* A subscription for a device that went in between does nothing:
\* handleCommand looks the device up.
ConnSubscribe ==
    /\ conn = "subscribe"
    /\ IF todo = {} THEN conn' = "idle" /\ UNCHANGED <<todo, subscribed>>
       ELSE \E p \in todo : subscribe(p[1], p[2]) /\ todo' = todo \ {p} /\ UNCHANGED conn
    /\ UNCHANGED <<connected, copy, unlisted, happened, topicVars, discovery, connRest>>

OnConnect == ConnList \/ ConnCache \/ ConnPublish \/ ConnRelist \/ ConnSubscribe

-----------------------------------------------------------------------------
(* Stop: unsub and cancel, then wait for the loop, for the discoveries and *)
(* for the publishes; say offline and disconnect.                          *)

stopRest == <<record, name, handler, leaving, upset, eventCh, discVars, loopVars, cmdVars,
              topicVars, states, conn, todo, copy, unlisted, discovery>>

Stop ==
    /\ stop = "up" /\ stop' = "waitLoop" /\ Happens
    /\ UNCHANGED <<connected, subscribed, stopRest>>

StopWaitsLoop ==
    /\ stop = "waitLoop" /\ loop = "gone"
    /\ stop' = "waitDisc"
    /\ UNCHANGED <<happened, connected, subscribed, stopRest>>

\* discWg.Wait; the publishes end; "offline" is published and the client
\* disconnects.
StopReturns ==
    /\ stop = "waitDisc" /\ \A w \in Disc : pc[w] \in {"none", "gone"}
    /\ stop' = "stopped" /\ connected' = FALSE /\ subscribed' = [t \in Topic |-> None]
    /\ UNCHANGED <<happened, stopRest>>

Stopping == StopWaitsLoop \/ StopReturns

-----------------------------------------------------------------------------
Next ==
    \/ Coordinator \/ eventLoop \/ handleCommand
    \/ \E w \in Disc : delayedDiscovery(w)
    \/ ConnectionLost \/ Connect \/ OnConnect
    \/ Stop \/ Stopping

Spec == Init /\ [][Next]_vars

-----------------------------------------------------------------------------
(* Properties.                                                             *)

LiveDiscoveries ==
    [d \in Device |-> {w \in Disc : pc[w] \in Waiting /\ ~cancelled[w] /\ dev[w] = d}]
BegunDiscoveries == {w \in Disc : pc[w] \in Waiting \cup {"gone"}}

Latest == INSTANCE LatestWorker WITH
    Key <- Device, Worker <- Disc, live <- LiveDiscoveries, begun <- BegunDiscoveries

\* pendingDiscovery keeps the promise of LatestWorker: of all the goroutines
\* that announces of a device started, only the one registered last may go on.
OneDiscovery == Latest!Spec

\* The state accumulated last is what the broker retains of a device, under one
\* of its topics, once nobody holds a payload of it.  Except after a report and
\* a command overlapped: payloads are made under mu and published after it, so
\* the older one may be published last; or after a device of the same name
\* published or left.
RetainedIsCurrent ==
    \A d \in Device :
        states[d] # 0 /\ ~overlap[d] /\ ~CmdHolds(d) /\ (loop \in {"select", "gone"} \/ loopDev # d)
        => \E t \in Topic : retained[t] = [dev |-> d, val |-> states[d]]

\* handleDeviceLeft of the device is yet to come, or to clear its topics.
LeftPending(d) ==
    \/ d \in leaving
    \/ \E i \in DOMAIN eventCh : eventCh[i].type = "left" /\ eventCh[i].dev = d
    \/ LoopHolds(d) /\ loopPayload = 0

\* Nothing stays on the broker for a device that is gone, but for these causes:
\* its device-left event was dropped; somebody who had looked the device or its
\* topic up published after it was gone, or while handleDeviceLeft ran; or the
\* bridge has cached another name since, as it does when the interview names
\* the device: handleDeviceLeft clears one topic only.
LeftoversExplained ==
    \A d \in Device : Gone(d) /\ ~LeftPending(d) =>
        /\ RetainedOf(d) \subseteq excuse[d]
        /\ discovery[d] # None => "config" \in excuse[d]

\* While the bridge is connected there is a subscription for the command topic
\* that the discovery of a device has told Home Assistant: whichever of the
\* delayed discovery and the OnConnect handler came first, and whatever
\* connection was lost in between.  It may be missing when the record of an
\* interviewed device has been deleted, renamed or overwritten by a join or an
\* announce, or when the OnConnect handler could not list the devices.
CommandsReach ==
    connected /\ conn = "idle" /\ ~unlisted =>
        \A d \in Device :
            /\ ~upset[d] /\ discovery[d] # None
            /\ \A w \in Disc : ~(pc[w] = "subscribe" /\ dev[w] = d)
            => subscribed[discovery[d]] # None
=============================================================================
