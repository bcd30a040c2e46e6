-------------------------- MODULE AutomationEngine --------------------------
(***************************************************************************)
(* The Lua automation engine, internal/automation/engine.go, with the      *)
(* script files of manager.go and the HTTP handlers of                     *)
(* internal/web/handlers_automation.go that save, toggle, delete and run   *)
(* scripts, the dispatch of events to the running scripts, the callbacks   *)
(* of zigbee.after, and Engine.Stop.                                       *)
(*                                                                         *)
(* Threads.  Main runs Start and later Stop; every HTTP request is a       *)
(* goroutine; an event is dispatched in the goroutine that emits it; every *)
(* script VM has a command loop; every zigbee.after has a goroutine, and   *)
(* they are counted.  An action ends where the code releases Engine.mu or  *)
(* Manager.mu, sends, receives, or runs Lua.                               *)
(*                                                                         *)
(* The Lua interpreter is external: a script or a handler runs, may call   *)
(* zigbee.after, and returns.  Of a file only the enabled flag is kept and *)
(* of a command only that it is queued.                                    *)
(***************************************************************************)
EXTENDS Naturals, FiniteSets

CONSTANTS
    Script,      \* script IDs
    VM,          \* Lua states; bounds startScript and RunLuaCode
    Main, Http,  \* the main goroutine, the goroutines serving HTTP requests
    QueueCap,    \* commandChanBuffer
    MaxTimers,   \* bound: zigbee.after callbacks of a VM pending at once
    None

ASSUME BoundAssumption == QueueCap \in Nat /\ MaxTimers \in Nat
ASSUME NoneAssumption  == None \notin VM \cup Script
ASSUME MainAssumption  == Main \notin Http

Caller == Http \cup {Main}

VARIABLES
    file,                  \* Manager: "none", "off" or "on" (enabled)
    vms,                   \* Engine.vms: Script -> VM or None
    cancelled,             \* the context of a VM has ended
    commands,              \* how many commands wait in a VM's channel
    timers,                \* zigbee.after goroutines of a VM
    vmPc,                  \* its command loop; "off" before it is started
    cPc, cScript, cVm,     \* the callers
    boot,                  \* the scripts Start still has to start
    subscribed, dPc, dVms, \* the subscription; dispatchEvent and vmsCopy
    stopPc                 \* Engine.Stop

callVars     == <<cPc, cScript, cVm>>
dispatchVars == <<subscribed, dPc, dVms>>
vars == <<file, vms, cancelled, commands, timers, vmPc, callVars, boot, dispatchVars, stopPc>>

CallerPc == {"idle", "reload", "get", "load", "register", "spawn",
             "stop", "deleteStop", "delete", "run"}
VmPc     == {"unused", "off", "loop", "exec", "closed"}

TypeOK ==
    /\ file \in [Script -> {"none", "off", "on"}]
    /\ vms \in [Script -> VM \cup {None}]
    /\ cancelled \in [VM -> BOOLEAN]
    /\ commands \in [VM -> 0 .. QueueCap]
    /\ timers \in [VM -> 0 .. MaxTimers]
    /\ vmPc \in [VM -> VmPc]
    /\ cPc \in [Caller -> CallerPc]
    /\ cScript \in [Caller -> Script \cup {None}]
    /\ cVm \in [Caller -> VM \cup {None}]
    /\ boot \subseteq Script
    /\ subscribed \in BOOLEAN
    /\ dPc \in {"idle", "emit", "send"}
    /\ dVms \subseteq VM
    /\ stopPc \in {"up", "unsubscribed", "waiting", "stopped"}

\* Start has subscribed and listed the scripts.
Init ==
    /\ file \in [Script -> {"none", "off", "on"}]
    /\ vms = [s \in Script |-> None]
    /\ cancelled = [v \in VM |-> FALSE]
    /\ commands = [v \in VM |-> 0]
    /\ timers = [v \in VM |-> 0]
    /\ vmPc = [v \in VM |-> "unused"]
    /\ cPc = [c \in Caller |-> "idle"]
    /\ cScript = [c \in Caller |-> None]
    /\ cVm = [c \in Caller |-> None]
    /\ boot = {s \in Script : file[s] = "on"}
    /\ subscribed = TRUE /\ dPc = "idle" /\ dVms = {}
    /\ stopPc = "up"

-----------------------------------------------------------------------------
(* Start, ReloadScript, StopScript, RunScript and the handlers calling them. *)

Returns(c) ==
    /\ cPc' = [cPc EXCEPT ![c] = "idle"]
    /\ cScript' = [cScript EXCEPT ![c] = None]
    /\ cVm' = [cVm EXCEPT ![c] = None]

Goto(c, from, to) ==
    /\ cPc[c] = from
    /\ cPc' = [cPc EXCEPT ![c] = to]
    /\ UNCHANGED <<cScript, cVm>>

\* Mutant of stopScript: the entry stays.
CancelOnly(s) ==
    /\ cancelled' = IF vms[s] = None THEN cancelled ELSE [cancelled EXCEPT ![vms[s]] = TRUE]
    /\ UNCHANGED vms

\* stopScript, under Engine.mu: cancel and delete.
stopScript(s) ==
    /\ cancelled' = IF vms[s] = None THEN cancelled ELSE [cancelled EXCEPT ![vms[s]] = TRUE]
    /\ vms' = [vms EXCEPT ![s] = None]

\* c executes the script s in a new Lua state.
NewVM(c, s, to) ==
    \E v \in VM :
       /\ vmPc[v] = "unused"
       /\ vmPc' = [vmPc EXCEPT ![v] = "off"]
       /\ cPc' = [cPc EXCEPT ![c] = to]
       /\ cScript' = [cScript EXCEPT ![c] = s]
       /\ cVm' = [cVm EXCEPT ![c] = v]

engineRest == <<commands, dispatchVars, stopPc>>

\* Start goes through the enabled scripts it listed, with startScript.
StartNext(s) ==
    /\ s \in boot /\ cPc[Main] = "idle"
    /\ NewVM(Main, s, "load")
    /\ boot' = boot \ {s}
    /\ UNCHANGED <<file, vms, cancelled, timers, engineRest>>

\* A request comes in once Start is through and until the server is shut
\* down.  VM bounds the Lua states: one is left for each request.
Serving(c) ==
    /\ boot = {} /\ cPc[Main] = "idle" /\ stopPc = "up"
    /\ cPc[c] = "idle"
    /\ Cardinality({v \in VM : vmPc[v] = "unused"}) > Cardinality({h \in Http : cPc[h] # "idle"})

\* POST, PUT and toggle: Save writes the file, and ReloadScript or, when a
\* toggle disabled the script, StopScript follows.  A script created disabled
\* needs neither.
SaveAutomation(c, s) ==
    /\ Serving(c)
    /\ \E f \in {"on", "off"} :
          /\ file' = [file EXCEPT ![s] = f]
          /\ \/ cPc' = [cPc EXCEPT ![c] = "reload"]
             \/ f = "off" /\ cPc' = [cPc EXCEPT ![c] = "stop"]
    /\ cScript' = [cScript EXCEPT ![c] = s]
    /\ UNCHANGED <<vms, cancelled, timers, vmPc, cVm, boot, engineRest>>

\* Only the file changes: a script created disabled, or a write that failed
\* half-way, perhaps after the line with the enabled flag.
SaveOnly(c, s) ==
    /\ Serving(c)
    /\ \E f \in {"on", "off"} : file' = [file EXCEPT ![s] = f]
    /\ UNCHANGED <<vms, cancelled, timers, vmPc, callVars, boot, engineRest>>

ReloadStop(c) ==
    /\ Goto(c, "reload", "get")
    /\ stopScript(cScript[c])
    /\ UNCHANGED <<file, timers, vmPc, boot, engineRest>>

\* manager.Get: an enabled script is started; a disabled or missing one, or
\* a read error, ends the request.
ReloadGet(c) ==
    /\ cPc[c] = "get"
    /\ \/ file[cScript[c]] = "on" /\ NewVM(c, cScript[c], "load")
       \/ Returns(c) /\ UNCHANGED vmPc
    /\ UNCHANGED <<file, vms, cancelled, timers, boot, engineRest>>

\* startScript: DoString has run the script, or failed: cancel and L.Close.
Load(c) ==
    /\ \/ Goto(c, "load", "register") /\ UNCHANGED <<cancelled, vmPc>>
       \/ /\ cPc[c] = "load"
          /\ cancelled' = [cancelled EXCEPT ![cVm[c]] = TRUE]
          /\ vmPc' = [vmPc EXCEPT ![cVm[c]] = "closed"]
          /\ Returns(c)
    /\ UNCHANGED <<file, vms, timers, boot, engineRest>>

\* e.vms[s.ID] = vm, whatever is there.
Register(c) ==
    /\ Goto(c, "register", "spawn")
    /\ vms' = [vms EXCEPT ![cScript[c]] = cVm[c]]
    /\ UNCHANGED <<file, cancelled, timers, vmPc, boot, engineRest>>

\* vmWg.Add(1) and the command loop.
Spawn(c) ==
    /\ cPc[c] = "spawn"
    /\ vmPc' = [vmPc EXCEPT ![cVm[c]] = "loop"]
    /\ Returns(c)
    /\ UNCHANGED <<file, vms, cancelled, timers, boot, engineRest>>

StopScript(c) ==
    /\ cPc[c] = "stop"
    /\ stopScript(cScript[c])
    /\ Returns(c)
    /\ UNCHANGED <<file, timers, vmPc, boot, engineRest>>

\* DELETE stops the script first.
DeleteAutomation(c, s) ==
    /\ Serving(c)
    /\ cPc' = [cPc EXCEPT ![c] = "deleteStop"]
    /\ cScript' = [cScript EXCEPT ![c] = s]
    /\ UNCHANGED <<file, vms, cancelled, timers, vmPc, cVm, boot, engineRest>>

DeleteStop(c) ==
    /\ Goto(c, "deleteStop", "delete")
    /\ stopScript(cScript[c])
    /\ UNCHANGED <<file, timers, vmPc, boot, engineRest>>

Delete(c) ==
    /\ cPc[c] = "delete"
    /\ file' \in {file, [file EXCEPT ![cScript[c]] = "none"]}
    /\ Returns(c)
    /\ UNCHANGED <<vms, cancelled, timers, vmPc, boot, engineRest>>

\* Mutant of RunLuaCode: the script is run in the VM it already has.
RunInPlace(c, s) ==
    /\ Serving(c) /\ vms[s] # None
    /\ cPc' = [cPc EXCEPT ![c] = "run"]
    /\ cScript' = [cScript EXCEPT ![c] = s]
    /\ cVm' = [cVm EXCEPT ![c] = vms[s]]
    /\ UNCHANGED <<file, vms, cancelled, timers, vmPc, boot, engineRest>>

\* RunScript and RunLuaCode: a Lua state of its own, no loop.  The code is
\* that of a file or of the request.
RunLuaCode(c, s) ==
    /\ Serving(c)
    /\ NewVM(c, s, "run")
    /\ UNCHANGED <<file, vms, cancelled, timers, boot, engineRest>>

\* Its context ends after five seconds, whatever the code does.
RunTimeout(c) ==
    /\ cPc[c] = "run" /\ ~cancelled[cVm[c]]
    /\ cancelled' = [cancelled EXCEPT ![cVm[c]] = TRUE]
    /\ UNCHANGED <<file, vms, timers, vmPc, callVars, boot, engineRest>>

\* The deferred cancel and L.Close.
RunEnds(c) ==
    /\ cPc[c] = "run"
    /\ cancelled' = [cancelled EXCEPT ![cVm[c]] = TRUE]
    /\ vmPc' = [vmPc EXCEPT ![cVm[c]] = "closed"]
    /\ Returns(c)
    /\ UNCHANGED <<file, vms, timers, boot, engineRest>>

-----------------------------------------------------------------------------
(* The command loops and zigbee.after.                                     *)

vmRest == <<file, vms, callVars, boot, dispatchVars, stopPc>>

\* select takes a command although the context may have ended.
LoopExec(v) ==
    /\ vmPc[v] = "loop" /\ commands[v] > 0
    /\ vmPc' = [vmPc EXCEPT ![v] = "exec"]
    /\ commands' = [commands EXCEPT ![v] = @ - 1]
    /\ UNCHANGED <<cancelled, timers, vmRest>>

\* The handler returns, with an error or a panic perhaps.
ExecReturns(v) ==
    /\ vmPc[v] = "exec"
    /\ vmPc' = [vmPc EXCEPT ![v] = "loop"]
    /\ UNCHANGED <<cancelled, commands, timers, vmRest>>

LoopExit(v) ==
    /\ vmPc[v] = "loop" /\ cancelled[v]
    /\ vmPc' = [vmPc EXCEPT ![v] = "closed"]
    /\ UNCHANGED <<cancelled, commands, timers, vmRest>>

\* Running Lua code calls zigbee.after: vmWg.Add(1) and a goroutine.
After(v) ==
    /\ vmPc[v] = "exec" \/ \E c \in Caller : cVm[c] = v /\ cPc[c] \in {"load", "run"}
    /\ timers[v] < MaxTimers
    /\ timers' = [timers EXCEPT ![v] = @ + 1]
    /\ UNCHANGED <<cancelled, commands, vmPc, vmRest>>

\* Mutant of Queued: no default case.
QueuedAnyway(v) == [commands EXCEPT ![v] = @ + 1]

Queued(v) == [commands EXCEPT ![v] = IF @ < QueueCap THEN @ + 1 ELSE @]

\* Its callback is queued, or dropped if the channel is full.
AfterFires(v) ==
    /\ timers[v] > 0
    /\ timers' = [timers EXCEPT ![v] = @ - 1]
    /\ commands' = Queued(v)
    /\ UNCHANGED <<cancelled, vmPc, vmRest>>

\* Mutant of AfterCancelled: the goroutine waits for its timer only.
AfterOutlives(v) ==
    /\ timers[v] > 0 /\ cancelled[v]
    /\ UNCHANGED vars

AfterCancelled(v) ==
    /\ timers[v] > 0 /\ cancelled[v]
    /\ timers' = [timers EXCEPT ![v] = @ - 1]
    /\ UNCHANGED <<cancelled, commands, vmPc, vmRest>>

-----------------------------------------------------------------------------
(* dispatchEvent.                                                          *)

dispatchRest == <<file, vms, cancelled, timers, vmPc, callVars, boot, subscribed, stopPc>>

\* Emit copies the subscribers and calls them afterwards.
Emit ==
    /\ subscribed /\ dPc = "idle"
    /\ dPc' = "emit"
    /\ UNCHANGED <<dVms, commands, dispatchRest>>

DispatchCopy ==
    /\ dPc = "emit"
    /\ dPc' = "send" /\ dVms' = {vms[s] : s \in Script} \ {None}
    /\ UNCHANGED <<commands, dispatchRest>>

\* A handler of v matches.  The select may send although the context of v has
\* ended, and drops the command if the channel is full.
DispatchSend(v) ==
    /\ dPc = "send" /\ v \in dVms
    /\ commands' = Queued(v)
    /\ UNCHANGED <<dPc, dVms, dispatchRest>>

\* No handler is left, or v is stopped.
DispatchNext(v) ==
    /\ dPc = "send" /\ v \in dVms
    /\ dVms' = dVms \ {v}
    /\ UNCHANGED <<dPc, commands, dispatchRest>>

DispatchEnds ==
    /\ dPc = "send" /\ dVms = {}
    /\ dPc' = "idle"
    /\ UNCHANGED <<dVms, commands, dispatchRest>>

-----------------------------------------------------------------------------
(* Engine.Stop.  main shuts the HTTP server down first, which waits for the *)
(* requests being served (for ten seconds; a longer one is not modelled).  *)

StopUnsubscribe ==
    /\ stopPc = "up" /\ boot = {} /\ \A c \in Caller : cPc[c] = "idle"
    /\ stopPc' = "unsubscribed" /\ subscribed' = FALSE
    /\ UNCHANGED <<file, vms, cancelled, commands, timers, vmPc, callVars, boot, dPc, dVms>>

\* Under Engine.mu.
StopCancel ==
    /\ stopPc = "unsubscribed"
    /\ stopPc' = "waiting"
    /\ cancelled' = [v \in VM |-> cancelled[v] \/ \E s \in Script : vms[s] = v]
    /\ vms' = [s \in Script |-> None]
    /\ UNCHANGED <<file, commands, timers, vmPc, callVars, boot, dispatchVars>>

\* Mutant of vmWgDone: the goroutines of zigbee.after are not counted.
LoopsDone == \A v \in VM : vmPc[v] \notin {"loop", "exec"}

\* The goroutines vmWg counts are gone.
vmWgDone == \A v \in VM : vmPc[v] \notin {"loop", "exec"} /\ timers[v] = 0

StopReturns ==
    /\ stopPc = "waiting" /\ vmWgDone
    /\ stopPc' = "stopped"
    /\ UNCHANGED <<file, vms, cancelled, commands, timers, vmPc, callVars, boot, dispatchVars>>

-----------------------------------------------------------------------------
CallerStep(c) ==
    \/ ReloadStop(c) \/ ReloadGet(c) \/ Load(c) \/ Register(c) \/ Spawn(c)
    \/ StopScript(c) \/ DeleteStop(c) \/ Delete(c) \/ RunTimeout(c) \/ RunEnds(c)

Request(c, s) ==
    SaveAutomation(c, s) \/ SaveOnly(c, s) \/ DeleteAutomation(c, s) \/ RunLuaCode(c, s)

VmStep(v) ==
    \/ LoopExec(v) \/ ExecReturns(v) \/ LoopExit(v)
    \/ After(v) \/ AfterFires(v) \/ AfterCancelled(v)
    \/ DispatchSend(v) \/ DispatchNext(v)

Next ==
    \/ \E s \in Script : StartNext(s)
    \/ \E c \in Http, s \in Script : Request(c, s)
    \/ \E c \in Caller : CallerStep(c)
    \/ \E v \in VM : VmStep(v)
    \/ Emit \/ DispatchCopy \/ DispatchEnds
    \/ StopUnsubscribe \/ StopCancel \/ StopReturns

Spec == Init /\ [][Next]_vars

\* Stop goes on, Lua handlers return, cancelled zigbee.after goroutines see
\* it, and a command loop whose context has ended does not lose every one of
\* its random selects.  Nothing is assumed of requests, events and timers.
FairSpec ==
    /\ Spec
    /\ WF_vars(StopCancel) /\ WF_vars(StopReturns)
    /\ \A v \in VM : /\ WF_vars(ExecReturns(v)) /\ WF_vars(AfterCancelled(v))
                     /\ SF_vars(LoopExit(v))

-----------------------------------------------------------------------------
(* Properties.                                                             *)

Looping(v) == vmPc[v] \in {"loop", "exec"}

\* A VM that events are dispatched to belongs to one script, has not been
\* stopped, and has a command loop or is about to get one: it is neither
\* closed nor a temporary VM.
RegisteredIsLive ==
    \A s \in Script : vms[s] # None =>
        /\ ~cancelled[vms[s]]
        /\ \/ Looping(vms[s])
           \/ vmPc[vms[s]] = "off" /\ \E c \in Caller : cPc[c] = "spawn" /\ cVm[c] = vms[s]
        /\ \A t \in Script \ {s} : vms[t] # vms[s]

\* gopher-lua states are not safe for concurrent use: while a caller executes
\* a script in a Lua state no loop and no other caller uses it, and it is
\* not closed.
LuaExclusive ==
    \A c \in Caller : cPc[c] \in {"load", "run"} =>
        /\ vmPc[cVm[c]] = "off"
        /\ \A d \in Caller \ {c} : cVm[d] # cVm[c]

\* Once Stop has returned nothing of the engine runs or will run: no loop, no
\* zigbee.after goroutine, and no VM an event in flight could be sent to.
StoppedIsQuiet ==
    stopPc = "stopped" =>
        /\ \A v \in VM : ~Looping(v) /\ timers[v] = 0
        /\ \A s \in Script : vms[s] = None

\* Stop returns, provided that it reached every VM: commands still queued,
\* events still being dispatched and callbacks still pending do not hold it.
StopCompletes ==
    (stopPc = "waiting" /\ \A v \in VM : Looping(v) => cancelled[v]) ~> stopPc = "stopped"

\* "ReloadScript stops the old VM (if any) and starts a new one": a running VM
\* that nobody stopped is registered, so that a later reload or Stop ends it.
ReloadStopsOld ==
    \A v \in VM : Looping(v) /\ ~cancelled[v] => \E s \in Script : vms[s] = v
=============================================================================
