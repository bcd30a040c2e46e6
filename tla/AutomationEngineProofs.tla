----------------------- MODULE AutomationEngineProofs -----------------------
(***************************************************************************)
(* Proofs about AutomationEngine, for any number of scripts, VMs and HTTP  *)
(* requests.                                                               *)
(***************************************************************************)
EXTENDS AutomationEngine, TLAPS

Owning == {"load", "register", "spawn", "run"}

\* A caller owns the Lua state it works on until its command loop starts.
OwnerInv ==
    \A c \in Caller :
        /\ cPc[c] # "idle" => cScript[c] \in Script
        /\ cPc[c] \in Owning => cVm[c] \in VM /\ vmPc[cVm[c]] = "off"
        /\ cPc[c] \notin Owning => cVm[c] = None
        /\ \A d \in Caller : cVm[c] # None /\ cVm[d] = cVm[c] => d = c

\* Before it is registered nobody else can reach, and so cancel, it.
FreshInv ==
    /\ \A c \in Caller : cPc[c] \in Owning \ {"spawn"} =>
          \A s \in Script : vms[s] # cVm[c]
    /\ \A c \in Caller : cPc[c] \in Owning \ {"spawn", "run"} => ~cancelled[cVm[c]]
    /\ \A v \in VM : vmPc[v] = "unused" => ~cancelled[v]

\* Stop begins when no request is left, and none comes after it.
StopInv ==
    /\ stopPc # "up" => boot = {} /\ \A c \in Caller : cPc[c] = "idle"
    /\ stopPc \in {"waiting", "stopped"} => \A s \in Script : vms[s] = None

IInv == TypeOK /\ OwnerInv /\ FreshInv /\ RegisteredIsLive /\ StopInv /\ StoppedIsQuiet

-----------------------------------------------------------------------------
LEMMA InitKeeps == Init => IInv
<1>. SUFFICES ASSUME Init PROVE IInv
  OBVIOUS
<1>1. TypeOK
  BY BoundAssumption DEF Init, TypeOK, CallerPc, VmPc
<1>2. OwnerInv /\ FreshInv /\ StopInv
  BY DEF Init, OwnerInv, FreshInv, StopInv, Owning
<1>3. RegisteredIsLive /\ StoppedIsQuiet
  BY DEF Init, RegisteredIsLive, StoppedIsQuiet
<1>. QED
  BY <1>1, <1>2, <1>3 DEF IInv

\* A step that leaves the VMs, the callers and Stop alone has only its types
\* to show, and that it starts no callback after Stop.
LEMMA Frame ==
  ASSUME IInv, TypeOK', UNCHANGED <<vms, cancelled, vmPc, cPc, cScript, cVm, boot, stopPc>>,
         stopPc = "stopped" => UNCHANGED timers
  PROVE  IInv'
<1>1. OwnerInv' /\ FreshInv' /\ StopInv'
  BY DEF IInv, OwnerInv, FreshInv, StopInv
<1>2. RegisteredIsLive' /\ StoppedIsQuiet'
  BY DEF IInv, RegisteredIsLive, StoppedIsQuiet, Looping
<1>. QED
  BY <1>1, <1>2 DEF IInv

-----------------------------------------------------------------------------
(* Start and the requests.                                                 *)

LEMMA StartNextKeeps == ASSUME IInv, NEW s \in Script, StartNext(s) PROVE IInv'
<1>. USE NoneAssumption DEF IInv, TypeOK, Caller, StartNext, NewVM, engineRest, dispatchVars
<1>1. TypeOK'
  BY BoundAssumption DEF CallerPc, VmPc, OwnerInv, Owning
<1>2. OwnerInv'
  BY DEF OwnerInv, Owning, RegisteredIsLive
<1>3. FreshInv'
  BY DEF FreshInv, OwnerInv, Owning, RegisteredIsLive, Looping, StopInv
<1>4. RegisteredIsLive'
  BY DEF RegisteredIsLive, Looping, OwnerInv, FreshInv, Owning
<1>5. StopInv' /\ StoppedIsQuiet'
  BY DEF StopInv, StoppedIsQuiet, Looping
<1>. QED
  BY <1>1, <1>2, <1>3, <1>4, <1>5 DEF IInv

LEMMA SaveAutomationKeeps == ASSUME IInv, NEW c \in Http, NEW s \in Script, SaveAutomation(c, s) PROVE IInv'
<1>. USE NoneAssumption DEF IInv, TypeOK, Caller, SaveAutomation, Serving, engineRest, dispatchVars
<1>1. TypeOK'
  BY BoundAssumption DEF CallerPc, VmPc, OwnerInv, Owning
<1>2. OwnerInv'
  BY DEF OwnerInv, Owning, RegisteredIsLive
<1>3. FreshInv'
  BY DEF FreshInv, OwnerInv, Owning, RegisteredIsLive, Looping, StopInv
<1>4. RegisteredIsLive'
  BY DEF RegisteredIsLive, Looping, OwnerInv, FreshInv, Owning
<1>5. StopInv' /\ StoppedIsQuiet'
  BY DEF StopInv, StoppedIsQuiet, Looping
<1>. QED
  BY <1>1, <1>2, <1>3, <1>4, <1>5 DEF IInv

LEMMA DeleteAutomationKeeps == ASSUME IInv, NEW c \in Http, NEW s \in Script, DeleteAutomation(c, s) PROVE IInv'
<1>. USE NoneAssumption DEF IInv, TypeOK, Caller, DeleteAutomation, Serving, engineRest, dispatchVars
<1>1. TypeOK'
  BY BoundAssumption DEF CallerPc, VmPc, OwnerInv, Owning
<1>2. OwnerInv'
  BY DEF OwnerInv, Owning, RegisteredIsLive
<1>3. FreshInv'
  BY DEF FreshInv, OwnerInv, Owning, RegisteredIsLive, Looping, StopInv
<1>4. RegisteredIsLive'
  BY DEF RegisteredIsLive, Looping, OwnerInv, FreshInv, Owning
<1>5. StopInv' /\ StoppedIsQuiet'
  BY DEF StopInv, StoppedIsQuiet, Looping
<1>. QED
  BY <1>1, <1>2, <1>3, <1>4, <1>5 DEF IInv

LEMMA RunLuaCodeKeeps == ASSUME IInv, NEW c \in Http, NEW s \in Script, RunLuaCode(c, s) PROVE IInv'
<1>. USE NoneAssumption DEF IInv, TypeOK, Caller, RunLuaCode, Serving, NewVM, engineRest, dispatchVars
<1>1. TypeOK'
  BY BoundAssumption DEF CallerPc, VmPc, OwnerInv, Owning
<1>2. OwnerInv'
  BY DEF OwnerInv, Owning, RegisteredIsLive
<1>3. FreshInv'
  BY DEF FreshInv, OwnerInv, Owning, RegisteredIsLive, Looping, StopInv
<1>4. RegisteredIsLive'
  BY DEF RegisteredIsLive, Looping, OwnerInv, FreshInv, Owning
<1>5. StopInv' /\ StoppedIsQuiet'
  BY DEF StopInv, StoppedIsQuiet, Looping
<1>. QED
  BY <1>1, <1>2, <1>3, <1>4, <1>5 DEF IInv

LEMMA ReloadStopKeeps == ASSUME IInv, NEW c \in Caller, ReloadStop(c) PROVE IInv'
<1>. USE NoneAssumption DEF IInv, TypeOK, Caller, ReloadStop, Goto, stopScript, engineRest, dispatchVars
<1>1. TypeOK'
  BY BoundAssumption DEF CallerPc, VmPc, OwnerInv, Owning
<1>2. OwnerInv'
  BY DEF OwnerInv, Owning, RegisteredIsLive
<1>3. FreshInv'
  BY DEF FreshInv, OwnerInv, Owning, RegisteredIsLive, Looping, StopInv
<1>4. RegisteredIsLive'
  BY DEF RegisteredIsLive, Looping, OwnerInv, FreshInv, Owning
<1>5. StopInv' /\ StoppedIsQuiet'
  BY DEF StopInv, StoppedIsQuiet, Looping
<1>. QED
  BY <1>1, <1>2, <1>3, <1>4, <1>5 DEF IInv

LEMMA ReloadGetKeeps == ASSUME IInv, NEW c \in Caller, ReloadGet(c) PROVE IInv'
<1>. USE NoneAssumption DEF IInv, TypeOK, Caller, ReloadGet, NewVM, Returns, engineRest, dispatchVars
<1>1. TypeOK'
  BY BoundAssumption DEF CallerPc, VmPc, OwnerInv, Owning
<1>2. OwnerInv'
  BY DEF OwnerInv, Owning, RegisteredIsLive
<1>3. FreshInv'
  BY DEF FreshInv, OwnerInv, Owning, RegisteredIsLive, Looping, StopInv
<1>4. RegisteredIsLive'
  BY DEF RegisteredIsLive, Looping, OwnerInv, FreshInv, Owning
<1>5. StopInv' /\ StoppedIsQuiet'
  BY DEF StopInv, StoppedIsQuiet, Looping
<1>. QED
  BY <1>1, <1>2, <1>3, <1>4, <1>5 DEF IInv

LEMMA LoadKeeps == ASSUME IInv, NEW c \in Caller, Load(c) PROVE IInv'
<1>. USE NoneAssumption DEF IInv, TypeOK, Caller, Load, Goto, Returns, engineRest, dispatchVars
<1>1. TypeOK'
  <2>1. CASE cPc[c]' = "register"
    BY <2>1 DEF CallerPc, VmPc, OwnerInv, Owning
  <2>2. CASE cPc[c]' = "idle"
    <3>1. cVm[c] \in VM
      BY <2>2 DEF OwnerInv, Owning, CallerPc
    <3>2. cancelled' \in [VM -> BOOLEAN] /\ vmPc' \in [VM -> VmPc]
      BY <2>2, <3>1 DEF VmPc, CallerPc
    <3>. QED
      BY <2>2, <3>2 DEF CallerPc
  <2>. QED
    BY <2>1, <2>2 DEF CallerPc
<1>2. OwnerInv'
  BY DEF OwnerInv, Owning, RegisteredIsLive
<1>3. FreshInv'
  BY DEF FreshInv, OwnerInv, Owning, RegisteredIsLive, Looping, StopInv
<1>4. RegisteredIsLive'
  BY DEF RegisteredIsLive, Looping, OwnerInv, FreshInv, Owning
<1>5. StopInv' /\ StoppedIsQuiet'
  BY DEF StopInv, StoppedIsQuiet, Looping
<1>. QED
  BY <1>1, <1>2, <1>3, <1>4, <1>5 DEF IInv

LEMMA RegisterKeeps == ASSUME IInv, NEW c \in Caller, Register(c) PROVE IInv'
<1>. USE NoneAssumption DEF IInv, TypeOK, Caller, Register, Goto, engineRest, dispatchVars
<1>1. TypeOK'
  BY BoundAssumption DEF CallerPc, VmPc, OwnerInv, Owning
<1>2. OwnerInv'
  BY DEF OwnerInv, Owning, RegisteredIsLive
<1>3. FreshInv'
  BY DEF FreshInv, OwnerInv, Owning, RegisteredIsLive, Looping, StopInv
<1>4. RegisteredIsLive'
  BY DEF RegisteredIsLive, Looping, OwnerInv, FreshInv, Owning
<1>5. StopInv' /\ StoppedIsQuiet'
  BY DEF StopInv, StoppedIsQuiet, Looping
<1>. QED
  BY <1>1, <1>2, <1>3, <1>4, <1>5 DEF IInv

LEMMA SpawnKeeps == ASSUME IInv, NEW c \in Caller, Spawn(c) PROVE IInv'
<1>. USE NoneAssumption DEF IInv, TypeOK, Caller, Spawn, Returns, engineRest, dispatchVars
<1>1. TypeOK'
  BY BoundAssumption DEF CallerPc, VmPc, OwnerInv, Owning
<1>2. OwnerInv'
  BY DEF OwnerInv, Owning, RegisteredIsLive
<1>3. FreshInv'
  BY DEF FreshInv, OwnerInv, Owning, RegisteredIsLive, Looping, StopInv
<1>4. RegisteredIsLive'
  BY DEF RegisteredIsLive, Looping, OwnerInv, FreshInv, Owning
<1>5. StopInv' /\ StoppedIsQuiet'
  BY DEF StopInv, StoppedIsQuiet, Looping
<1>. QED
  BY <1>1, <1>2, <1>3, <1>4, <1>5 DEF IInv

LEMMA StopScriptKeeps == ASSUME IInv, NEW c \in Caller, StopScript(c) PROVE IInv'
<1>. USE NoneAssumption DEF IInv, TypeOK, Caller, StopScript, Returns, stopScript, engineRest, dispatchVars
<1>1. TypeOK'
  BY BoundAssumption DEF CallerPc, VmPc, OwnerInv, Owning
<1>2. OwnerInv'
  BY DEF OwnerInv, Owning, RegisteredIsLive
<1>3. FreshInv'
  BY DEF FreshInv, OwnerInv, Owning, RegisteredIsLive, Looping, StopInv
<1>4. RegisteredIsLive'
  BY DEF RegisteredIsLive, Looping, OwnerInv, FreshInv, Owning
<1>5. StopInv' /\ StoppedIsQuiet'
  BY DEF StopInv, StoppedIsQuiet, Looping
<1>. QED
  BY <1>1, <1>2, <1>3, <1>4, <1>5 DEF IInv

LEMMA DeleteStopKeeps == ASSUME IInv, NEW c \in Caller, DeleteStop(c) PROVE IInv'
<1>. USE NoneAssumption DEF IInv, TypeOK, Caller, DeleteStop, Goto, stopScript, engineRest, dispatchVars
<1>1. TypeOK'
  BY BoundAssumption DEF CallerPc, VmPc, OwnerInv, Owning
<1>2. OwnerInv'
  BY DEF OwnerInv, Owning, RegisteredIsLive
<1>3. FreshInv'
  BY DEF FreshInv, OwnerInv, Owning, RegisteredIsLive, Looping, StopInv
<1>4. RegisteredIsLive'
  BY DEF RegisteredIsLive, Looping, OwnerInv, FreshInv, Owning
<1>5. StopInv' /\ StoppedIsQuiet'
  BY DEF StopInv, StoppedIsQuiet, Looping
<1>. QED
  BY <1>1, <1>2, <1>3, <1>4, <1>5 DEF IInv

LEMMA DeleteKeeps == ASSUME IInv, NEW c \in Caller, Delete(c) PROVE IInv'
<1>. USE NoneAssumption DEF IInv, TypeOK, Caller, Delete, Returns, engineRest, dispatchVars
<1>1. TypeOK'
  BY BoundAssumption DEF CallerPc, VmPc, OwnerInv, Owning
<1>2. OwnerInv'
  BY DEF OwnerInv, Owning, RegisteredIsLive
<1>3. FreshInv'
  BY DEF FreshInv, OwnerInv, Owning, RegisteredIsLive, Looping, StopInv
<1>4. RegisteredIsLive'
  BY DEF RegisteredIsLive, Looping, OwnerInv, FreshInv, Owning
<1>5. StopInv' /\ StoppedIsQuiet'
  BY DEF StopInv, StoppedIsQuiet, Looping
<1>. QED
  BY <1>1, <1>2, <1>3, <1>4, <1>5 DEF IInv

LEMMA RunTimeoutKeeps == ASSUME IInv, NEW c \in Caller, RunTimeout(c) PROVE IInv'
<1>. USE NoneAssumption DEF IInv, TypeOK, Caller, RunTimeout, callVars, engineRest, dispatchVars
<1>1. TypeOK'
  BY BoundAssumption DEF CallerPc, VmPc, OwnerInv, Owning
<1>2. OwnerInv'
  BY DEF OwnerInv, Owning, RegisteredIsLive
<1>3. FreshInv'
  BY DEF FreshInv, OwnerInv, Owning, RegisteredIsLive, Looping, StopInv
<1>4. RegisteredIsLive'
  BY DEF RegisteredIsLive, Looping, OwnerInv, FreshInv, Owning
<1>5. StopInv' /\ StoppedIsQuiet'
  BY DEF StopInv, StoppedIsQuiet, Looping
<1>. QED
  BY <1>1, <1>2, <1>3, <1>4, <1>5 DEF IInv

LEMMA RunEndsKeeps == ASSUME IInv, NEW c \in Caller, RunEnds(c) PROVE IInv'
<1>. USE NoneAssumption DEF IInv, TypeOK, Caller, RunEnds, Returns, engineRest, dispatchVars
<1>1. TypeOK'
  BY BoundAssumption DEF CallerPc, VmPc, OwnerInv, Owning
<1>2. OwnerInv'
  BY DEF OwnerInv, Owning, RegisteredIsLive
<1>3. FreshInv'
  BY DEF FreshInv, OwnerInv, Owning, RegisteredIsLive, Looping, StopInv
<1>4. RegisteredIsLive'
  BY DEF RegisteredIsLive, Looping, OwnerInv, FreshInv, Owning
<1>5. StopInv' /\ StoppedIsQuiet'
  BY DEF StopInv, StoppedIsQuiet, Looping
<1>. QED
  BY <1>1, <1>2, <1>3, <1>4, <1>5 DEF IInv

LEMMA SaveOnlyKeeps == ASSUME IInv, NEW c \in Http, NEW s \in Script, SaveOnly(c, s) PROVE IInv'
<1>1. TypeOK'
  BY BoundAssumption DEF IInv, TypeOK, SaveOnly, Serving, engineRest, callVars, dispatchVars
<1>. QED
  BY <1>1, Frame DEF IInv, StoppedIsQuiet, StopInv, Looping, SaveOnly, Serving, engineRest, callVars, dispatchVars

-----------------------------------------------------------------------------
(* The command loops, zigbee.after and dispatchEvent.                      *)

LEMMA LoopExecKeeps == ASSUME IInv, NEW v \in VM, LoopExec(v) PROVE IInv'
<1>. USE NoneAssumption DEF IInv, TypeOK, Caller, LoopExec, vmRest, callVars, dispatchVars
<1>1. TypeOK'
  BY BoundAssumption DEF CallerPc, VmPc, OwnerInv, Owning
<1>2. OwnerInv'
  BY DEF OwnerInv, Owning, RegisteredIsLive
<1>3. FreshInv'
  BY DEF FreshInv, OwnerInv, Owning, RegisteredIsLive, Looping, StopInv
<1>4. RegisteredIsLive'
  BY DEF RegisteredIsLive, Looping, OwnerInv, FreshInv, Owning
<1>5. StopInv' /\ StoppedIsQuiet'
  BY DEF StopInv, StoppedIsQuiet, Looping
<1>. QED
  BY <1>1, <1>2, <1>3, <1>4, <1>5 DEF IInv

LEMMA ExecReturnsKeeps == ASSUME IInv, NEW v \in VM, ExecReturns(v) PROVE IInv'
<1>. USE NoneAssumption DEF IInv, TypeOK, Caller, ExecReturns, vmRest, callVars, dispatchVars
<1>1. TypeOK'
  BY BoundAssumption DEF CallerPc, VmPc, OwnerInv, Owning
<1>2. OwnerInv'
  BY DEF OwnerInv, Owning, RegisteredIsLive
<1>3. FreshInv'
  BY DEF FreshInv, OwnerInv, Owning, RegisteredIsLive, Looping, StopInv
<1>4. RegisteredIsLive'
  BY DEF RegisteredIsLive, Looping, OwnerInv, FreshInv, Owning
<1>5. StopInv' /\ StoppedIsQuiet'
  BY DEF StopInv, StoppedIsQuiet, Looping
<1>. QED
  BY <1>1, <1>2, <1>3, <1>4, <1>5 DEF IInv

LEMMA LoopExitKeeps == ASSUME IInv, NEW v \in VM, LoopExit(v) PROVE IInv'
<1>. USE NoneAssumption DEF IInv, TypeOK, Caller, LoopExit, vmRest, callVars, dispatchVars
<1>1. TypeOK'
  BY BoundAssumption DEF CallerPc, VmPc, OwnerInv, Owning
<1>2. OwnerInv'
  BY DEF OwnerInv, Owning, RegisteredIsLive
<1>3. FreshInv'
  BY DEF FreshInv, OwnerInv, Owning, RegisteredIsLive, Looping, StopInv
<1>4. RegisteredIsLive'
  BY DEF RegisteredIsLive, Looping, OwnerInv, FreshInv, Owning
<1>5. StopInv' /\ StoppedIsQuiet'
  BY DEF StopInv, StoppedIsQuiet, Looping
<1>. QED
  BY <1>1, <1>2, <1>3, <1>4, <1>5 DEF IInv

LEMMA AfterKeeps == ASSUME IInv, NEW v \in VM, After(v) PROVE IInv'
<1>1. TypeOK'
  BY BoundAssumption DEF IInv, TypeOK, After, vmRest, callVars, dispatchVars
<1>. QED
  BY <1>1, Frame DEF IInv, StoppedIsQuiet, StopInv, Looping, After, vmRest, callVars, dispatchVars

LEMMA AfterFiresKeeps == ASSUME IInv, NEW v \in VM, AfterFires(v) PROVE IInv'
<1>1. TypeOK'
  BY BoundAssumption DEF IInv, TypeOK, AfterFires, Queued, vmRest, callVars, dispatchVars
<1>. QED
  BY <1>1, Frame DEF IInv, StoppedIsQuiet, StopInv, Looping, AfterFires, Queued, vmRest, callVars, dispatchVars

LEMMA AfterCancelledKeeps == ASSUME IInv, NEW v \in VM, AfterCancelled(v) PROVE IInv'
<1>1. TypeOK'
  BY BoundAssumption DEF IInv, TypeOK, AfterCancelled, vmRest, callVars, dispatchVars
<1>. QED
  BY <1>1, Frame DEF IInv, StoppedIsQuiet, StopInv, Looping, AfterCancelled, vmRest, callVars, dispatchVars

LEMMA DispatchSendKeeps == ASSUME IInv, NEW v \in VM, DispatchSend(v) PROVE IInv'
<1>1. TypeOK'
  BY BoundAssumption DEF IInv, TypeOK, DispatchSend, Queued, dispatchRest, callVars
<1>. QED
  BY <1>1, Frame DEF IInv, StoppedIsQuiet, StopInv, Looping, DispatchSend, Queued, dispatchRest, callVars

LEMMA DispatchNextKeeps == ASSUME IInv, NEW v \in VM, DispatchNext(v) PROVE IInv'
<1>1. TypeOK'
  BY BoundAssumption DEF IInv, TypeOK, DispatchNext, dispatchRest, callVars
<1>. QED
  BY <1>1, Frame DEF IInv, StoppedIsQuiet, StopInv, Looping, DispatchNext, dispatchRest, callVars

LEMMA EmitKeeps == ASSUME IInv, Emit PROVE IInv'
<1>1. TypeOK'
  BY BoundAssumption DEF IInv, TypeOK, Emit, dispatchRest, callVars
<1>. QED
  BY <1>1, Frame DEF IInv, StoppedIsQuiet, StopInv, Looping, Emit, dispatchRest, callVars

LEMMA DispatchCopyKeeps == ASSUME IInv, DispatchCopy PROVE IInv'
<1>1. TypeOK'
  BY BoundAssumption DEF IInv, TypeOK, DispatchCopy, dispatchRest, callVars
<1>. QED
  BY <1>1, Frame DEF IInv, StoppedIsQuiet, StopInv, Looping, DispatchCopy, dispatchRest, callVars

LEMMA DispatchEndsKeeps == ASSUME IInv, DispatchEnds PROVE IInv'
<1>1. TypeOK'
  BY BoundAssumption DEF IInv, TypeOK, DispatchEnds, dispatchRest, callVars
<1>. QED
  BY <1>1, Frame DEF IInv, StoppedIsQuiet, StopInv, Looping, DispatchEnds, dispatchRest, callVars

-----------------------------------------------------------------------------
(* Stop.                                                                   *)

LEMMA StopUnsubscribeKeeps == ASSUME IInv, StopUnsubscribe PROVE IInv'
<1>. USE NoneAssumption DEF IInv, TypeOK, Caller, StopUnsubscribe, callVars
<1>1. TypeOK'
  BY BoundAssumption DEF CallerPc, VmPc, OwnerInv, Owning
<1>2. OwnerInv'
  BY DEF OwnerInv, Owning, RegisteredIsLive
<1>3. FreshInv'
  BY DEF FreshInv, OwnerInv, Owning, RegisteredIsLive, Looping, StopInv
<1>4. RegisteredIsLive'
  BY DEF RegisteredIsLive, Looping, OwnerInv, FreshInv, Owning
<1>5. StopInv' /\ StoppedIsQuiet'
  BY DEF StopInv, StoppedIsQuiet, Looping
<1>. QED
  BY <1>1, <1>2, <1>3, <1>4, <1>5 DEF IInv

LEMMA StopCancelKeeps == ASSUME IInv, StopCancel PROVE IInv'
<1>. USE NoneAssumption DEF IInv, TypeOK, Caller, StopCancel, callVars, dispatchVars
<1>1. TypeOK'
  BY BoundAssumption DEF CallerPc, VmPc, OwnerInv, Owning
<1>2. OwnerInv'
  BY DEF OwnerInv, Owning, RegisteredIsLive
<1>3. FreshInv'
  BY DEF FreshInv, OwnerInv, Owning, RegisteredIsLive, Looping, StopInv
<1>4. RegisteredIsLive'
  BY DEF RegisteredIsLive, Looping, OwnerInv, FreshInv, Owning
<1>5. StopInv' /\ StoppedIsQuiet'
  BY DEF StopInv, StoppedIsQuiet, Looping
<1>. QED
  BY <1>1, <1>2, <1>3, <1>4, <1>5 DEF IInv

LEMMA StopReturnsKeeps == ASSUME IInv, StopReturns PROVE IInv'
<1>. USE NoneAssumption DEF IInv, TypeOK, Caller, StopReturns, vmWgDone, callVars, dispatchVars
<1>1. TypeOK'
  BY BoundAssumption DEF CallerPc, VmPc, OwnerInv, Owning
<1>2. OwnerInv'
  BY DEF OwnerInv, Owning, RegisteredIsLive
<1>3. FreshInv'
  BY DEF FreshInv, OwnerInv, Owning, RegisteredIsLive, Looping, StopInv
<1>4. RegisteredIsLive'
  BY DEF RegisteredIsLive, Looping, OwnerInv, FreshInv, Owning
<1>5. StopInv' /\ StoppedIsQuiet'
  BY DEF StopInv, StoppedIsQuiet, Looping
<1>. QED
  BY <1>1, <1>2, <1>3, <1>4, <1>5 DEF IInv

-----------------------------------------------------------------------------
LEMMA NextKeeps == IInv /\ [Next]_vars => IInv'
<1>. SUFFICES ASSUME IInv, [Next]_vars PROVE IInv'
  OBVIOUS
<1>1. ASSUME NEW s \in Script, StartNext(s) PROVE IInv'
  BY <1>1, StartNextKeeps
<1>2. ASSUME NEW c \in Http, NEW s \in Script, Request(c, s) PROVE IInv'
  BY <1>2, SaveAutomationKeeps, SaveOnlyKeeps, DeleteAutomationKeeps, RunLuaCodeKeeps DEF Request
<1>3. ASSUME NEW c \in Caller, CallerStep(c) PROVE IInv'
  BY <1>3, ReloadStopKeeps, ReloadGetKeeps, LoadKeeps, RegisterKeeps, SpawnKeeps,
     StopScriptKeeps, DeleteStopKeeps, DeleteKeeps, RunTimeoutKeeps, RunEndsKeeps DEF CallerStep
<1>4. ASSUME NEW v \in VM, VmStep(v) PROVE IInv'
  BY <1>4, LoopExecKeeps, ExecReturnsKeeps, LoopExitKeeps, AfterKeeps, AfterFiresKeeps,
     AfterCancelledKeeps, DispatchSendKeeps, DispatchNextKeeps DEF VmStep
<1>5. ASSUME UNCHANGED vars PROVE IInv'
  <2>1. UNCHANGED <<file, vms, cancelled, commands, timers, vmPc, cPc, cScript, cVm, boot,
                    subscribed, dPc, dVms, stopPc>>
    BY <1>5 DEF vars, callVars, dispatchVars
  <2>2. TypeOK'
    BY <2>1 DEF IInv, TypeOK
  <2>. QED
    BY <2>1, <2>2, Frame
<1>. QED
  BY <1>1, <1>2, <1>3, <1>4, <1>5, EmitKeeps, DispatchCopyKeeps, DispatchEndsKeeps,
     StopUnsubscribeKeeps, StopCancelKeeps, StopReturnsKeeps DEF Next

LEMMA Invariant == Spec => []IInv
  BY InitKeeps, NextKeeps, PTL DEF Spec

\* The variables keep their types; in particular a command channel never
\* holds more than commandChanBuffer commands.
THEOREM TypeCorrect == Spec => []TypeOK
<1>1. IInv => TypeOK
  BY DEF IInv
<1>. QED
  BY Invariant, <1>1, PTL

\* A VM in Engine.vms belongs to one script, was not cancelled and has a
\* command loop, or is about to get it.
THEOREM RegistryLive == Spec => []RegisteredIsLive
<1>1. IInv => RegisteredIsLive
  BY DEF IInv
<1>. QED
  BY Invariant, <1>1, PTL

\* No two goroutines use one Lua state: while startScript or RunLuaCode
\* executes in it no command loop runs it and no other request has it.
THEOREM LuaStatesExclusive == Spec => []LuaExclusive
<1>1. IInv => LuaExclusive
  BY NoneAssumption DEF IInv, OwnerInv, Owning, LuaExclusive
<1>. QED
  BY Invariant, <1>1, PTL

\* Once Engine.Stop has returned no command loop and no zigbee.after goroutine
\* runs and no VM is registered.
THEOREM QuietAfterStop == Spec => []StoppedIsQuiet
<1>1. IInv => StoppedIsQuiet
  BY DEF IInv
<1>. QED
  BY Invariant, <1>1, PTL
=============================================================================
