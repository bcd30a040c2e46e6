------------------------ MODULE DeviceManagerProofs ------------------------
(***************************************************************************)
(* Proofs about DeviceManager for every set of devices, addresses,         *)
(* interviews and removals.                                                *)
(***************************************************************************)
EXTENDS DeviceManager, FiniteSetTheorems, TLAPS

-----------------------------------------------------------------------------
(* The inductive invariant: the types, what the local variables of the     *)
(* goroutines hold at each program point, and the two halves of the        *)
(* agreement between interviewCancels and the running interviews, which    *)
(* need the generation numbers to be distinct.                             *)

HandlerInv ==
    /\ hPc \notin {"idle", "rebuild"} => hDev \in Device
    /\ hPc \in {"joinGet", "annGet"} => hAddr \in Addr
    /\ hPc \in {"joinSave", "annSave"} => hRec \in Record
    /\ hPc = "rebuild" => hIndex \in [Addr -> Device \cup {None}]

RemoveInv == \A r \in Http : rPc[r] # "idle" => rDev[r] \in Device

JobInv ==
    \A j \in Job :
        /\ pc[j] # "none" => dev[j] \in Device
        /\ pc[j] = "wait" => attempt[j] < MaxRetries

GenInv ==
    /\ \A j \in Job : gen[j] <= interviewGen
    /\ \A j \in Job : pc[j] \notin {"none", "spawned"} => gen[j] # 0
    /\ \A j, k \in Job : gen[j] = gen[k] /\ gen[j] # 0 => j = k

IInv ==
    /\ TypeOK
    /\ HandlerInv
    /\ RemoveInv
    /\ JobInv
    /\ GenInv
    /\ EntriesAreLive
    /\ UncancelledIsRegistered
    /\ NoSaveAfterStop

-----------------------------------------------------------------------------
(* What the helpers return.                                                *)

\* A rebuilt index maps addresses to devices.
LEMMA RebuiltType == \A f \in Rebuilt : f \in [Addr -> Device \cup {None}]
  BY DEF Rebuilt

\* The record that a join or an announce writes is a record.
LEMMA UpsertedType ==
    ASSUME TypeOK, NEW d \in Device, NEW a \in Addr
    PROVE  Upserted(d, a) \in Record
  BY DEF TypeOK, Upserted, Stored, Record

\* Recording a device keeps lastJoin a table of ages.
LEMMA DebouncedType ==
    ASSUME TypeOK, NEW d \in Device
    PROVE  \A m \in Debounced(d) : m \in [Device -> Age]
  BY DEF TypeOK, Debounced, Age
\* An interviewed record is a record.
LEMMA InterviewedType == \A rec \in Record : Interviewed(rec) \in Record
  BY DEF Record, Interviewed

\* Cancelling and removing an entry, as HandleLeave and RemoveDevice do,
\* keeps interviewCancels and the running interviews in agreement.
LEMMA CancelKeepsRegistry ==
    ASSUME IInv, NEW d \in Device, CancelInterview(d), UNCHANGED <<pc, dev, gen>>
    PROVE  /\ cancels' \in [Device -> Entry \cup {None}]
           /\ cancelled' \in [Job -> BOOLEAN]
           /\ EntriesAreLive'
           /\ UncancelledIsRegistered'
<1>. USE NoneAssumption DEF IInv, TypeOK
<1>1. CASE cancels[d] = None
  BY <1>1 DEF CancelInterview, EntriesAreLive, UncancelledIsRegistered
<1>2. CASE cancels[d] # None
  <2>1. cancels[d] \in Entry /\ cancels[d].job \in Job
    BY <1>2 DEF Entry
  <2>2. /\ cancelled' = [cancelled EXCEPT ![cancels[d].job] = TRUE]
        /\ cancels' = [cancels EXCEPT ![d] = None]
    BY <1>2 DEF CancelInterview
  <2>3. /\ cancels' \in [Device -> Entry \cup {None}]
        /\ cancelled' \in [Job -> BOOLEAN]
    BY <2>2
  <2>4. EntriesAreLive'
    BY <2>2 DEF EntriesAreLive
  <2>5. UncancelledIsRegistered'
    <3>. SUFFICES ASSUME NEW j \in Job, pc[j] \in Running, ~cancelled'[j]
                  PROVE  cancels'[dev[j]] # None /\ cancels'[dev[j]].job = j
      BY DEF UncancelledIsRegistered
    <3>1. ~cancelled[j] /\ j # cancels[d].job
      BY <2>1, <2>2
    <3>2. cancels[dev[j]] # None /\ cancels[dev[j]].job = j
      BY <3>1 DEF UncancelledIsRegistered
    <3>3. dev[j] # d
      BY <3>1, <3>2
    <3>. QED
      BY <2>2, <3>2, <3>3
  <2>. QED
    BY <2>3, <2>4, <2>5
<1>. QED
  BY <1>1, <1>2

-----------------------------------------------------------------------------
(* One lemma for each goroutine, one step for each of its actions.         *)

\* A new indication preserves the invariant.
LEMMA IndicationKeeps ==
    ASSUME IInv, Indication
    PROVE  IInv'
<1>. USE DEF IInv, TypeOK, HandlerInv, RemoveInv, JobInv, GenInv, EntriesAreLive,
            UncancelledIsRegistered, NoSaveAfterStop,
            HandlerPc, Age, handlerRest, handlerVars, jobVars, removeVars
<1>1. ASSUME NEW d \in Device, NEW a \in Addr, JoinIndication(d, a)
      PROVE  IInv'
  BY <1>1 DEF JoinIndication, updateAddrIndex
<1>2. ASSUME NEW d \in Device, NEW a \in Addr, AnnounceIndication(d, a)
      PROVE  IInv'
  BY <1>2 DEF AnnounceIndication, updateAddrIndex
<1>3. ASSUME NEW d \in Device, LeaveIndication(d)
      PROVE  IInv'
  <2>1. /\ cancels' \in [Device -> Entry \cup {None}]
        /\ cancelled' \in [Job -> BOOLEAN]
        /\ EntriesAreLive'
        /\ UncancelledIsRegistered'
    BY CancelKeepsRegistry, <1>3 DEF LeaveIndication
  <2>. HIDE DEF EntriesAreLive, UncancelledIsRegistered
  <2>. QED
    BY <1>3, <2>1 DEF LeaveIndication
<1>4. ASSUME NEW a \in Addr, Report(a)
      PROVE  IInv'
  BY RebuiltType, <1>4 DEF Report
<1>5. CASE NwkAddrUpdate
  BY RebuiltType, <1>5 DEF NwkAddrUpdate
<1>. QED
  BY <1>1, <1>2, <1>3, <1>4, <1>5 DEF Indication

\* The rest of a handler preserves the invariant.
LEMMA HandlerStepKeeps ==
    ASSUME IInv, HandlerStep
    PROVE  IInv'
<1>. USE DEF IInv, TypeOK, HandlerInv, RemoveInv, JobInv, GenInv, EntriesAreLive,
            UncancelledIsRegistered, NoSaveAfterStop,
            HandlerPc, handlerRest, jobVars, removeVars
<1>1. CASE JoinGetDevice
  BY UpsertedType, <1>1 DEF JoinGetDevice, HandlerReturns
<1>2. CASE JoinSaveDevice
  BY <1>2 DEF JoinSaveDevice, HandlerReturns, SaveDevice
<1>3. CASE AnnounceGetDevice
  BY UpsertedType, <1>3 DEF AnnounceGetDevice, HandlerReturns
<1>4. CASE AnnounceSaveDevice
  BY <1>4 DEF AnnounceSaveDevice, SaveDevice
<1>5. CASE AnnounceCheckInterviewing
  BY <1>5 DEF AnnounceCheckInterviewing, HandlerReturns
<1>6. CASE AnnounceDebounce
  BY <1>6 DEF AnnounceDebounce, HandlerReturns
<1>7. CASE AnnounceSpawn
  BY DebouncedType, <1>7 DEF AnnounceSpawn, HandlerReturns, JobPc, Running
<1>8. CASE LeaveIndex
  BY <1>8 DEF LeaveIndex, RemoveOneFromIndex
<1>9. CASE LeaveDeleteDevice
  BY <1>9 DEF LeaveDeleteDevice, DeleteDevice, HandlerReturns
<1>10. CASE RebuildAddrIndex
  BY <1>10 DEF RebuildAddrIndex, HandlerReturns
<1>. QED
  BY <1>1, <1>2, <1>3, <1>4, <1>5, <1>6, <1>7, <1>8, <1>9, <1>10 DEF HandlerStep

\* An interview that only moves on from one program point to another
\* preserves the invariant, if its context was alive before the save and an
\* attempt is left before the wait.
LEMMA GotoKeeps ==
    ASSUME IInv, NEW j \in Job, NEW from \in Running, NEW to \in Running,
           Goto(j, from, to),
           to = "save" => stopPc = "up",
           to = "wait" => attempt[j] < MaxRetries,
           UNCHANGED <<cancels, interviewGen, dev, gen, cancelled, attempt, jobRest>>
    PROVE  IInv'
<1>1. UNCHANGED <<store, addrIndex, cancels, interviewGen, lastJoin, hPc, hDev, hAddr,
                  hRec, hIndex, dev, gen, cancelled, attempt, rPc, rDev, stopPc>>
  BY DEF jobRest, handlerVars, removeVars
<1>2. pc[j] = from /\ pc' = [pc EXCEPT ![j] = to]
  BY DEF Goto
<1>3. TypeOK' /\ HandlerInv' /\ RemoveInv'
  BY <1>1, <1>2 DEF IInv, TypeOK, HandlerInv, RemoveInv, JobPc, Running
<1>4. JobInv' /\ GenInv'
  BY <1>1, <1>2 DEF IInv, TypeOK, JobInv, GenInv, Running
<1>5. EntriesAreLive' /\ UncancelledIsRegistered'
  BY <1>1, <1>2 DEF IInv, TypeOK, EntriesAreLive, UncancelledIsRegistered, Entry
<1>6. NoSaveAfterStop'
  BY <1>1, <1>2 DEF IInv, TypeOK, NoSaveAfterStop
<1>. QED
  BY <1>3, <1>4, <1>5, <1>6 DEF IInv

\* A step of an interview preserves the invariant.
LEMMA InterviewStepKeeps ==
    ASSUME IInv, NEW j \in Job, InterviewStep(j) \/ InterviewTimeout(j)
    PROVE  IInv'
<1>1. CASE InterviewGen(j)
  BY <1>1 DEF InterviewGen, IInv, TypeOK, HandlerInv, RemoveInv, JobInv,
              GenInv, EntriesAreLive, UncancelledIsRegistered, NoSaveAfterStop,
              JobPc, Running, Goto, jobRest, handlerVars, removeVars
<1>2. CASE InterviewRegister(j)
  BY <1>2, BoundAssumption, NoneAssumption
     DEF InterviewRegister, Entry, IInv, TypeOK, HandlerInv, RemoveInv, JobInv,
              GenInv, EntriesAreLive, UncancelledIsRegistered, NoSaveAfterStop,
              JobPc, Running, Goto, jobRest, handlerVars, removeVars
<1>3. CASE InterviewGetDevice(j)
  BY <1>3, GotoKeeps DEF InterviewGetDevice, Running
<1>4. CASE InterviewActiveEndpoints(j)
  <2>1. UNCHANGED <<cancels, interviewGen, dev, gen, cancelled, attempt, jobRest>>
    BY <1>4 DEF InterviewActiveEndpoints
  <2>2. CASE Goto(j, "query", "describe")
    BY <2>1, <2>2, GotoKeeps DEF Running
  <2>3. CASE attempt[j] < MaxRetries /\ Goto(j, "query", "wait")
    BY <2>1, <2>3, GotoKeeps DEF Running
  <2>4. CASE Goto(j, "query", "exit")
    BY <2>1, <2>4, GotoKeeps DEF Running
  <2>. QED
    BY <1>4, <2>2, <2>3, <2>4 DEF InterviewActiveEndpoints
<1>5. CASE InterviewRetry(j)
  <2>1. /\ pc[j] = "wait" /\ pc' = [pc EXCEPT ![j] = "get"]
        /\ attempt' = [attempt EXCEPT ![j] = @ + 1]
    BY <1>5 DEF InterviewRetry, Goto
  <2>2. UNCHANGED <<store, addrIndex, cancels, interviewGen, lastJoin, hPc, hDev, hAddr,
                    hRec, hIndex, dev, gen, cancelled, rPc, rDev, stopPc>>
    BY <1>5 DEF InterviewRetry, jobRest, handlerVars, removeVars
  <2>3. TypeOK'
    BY <2>1, <2>2, BoundAssumption DEF IInv, TypeOK, JobInv, JobPc
  <2>. QED
    BY <2>1, <2>2, <2>3
       DEF IInv, TypeOK, HandlerInv, RemoveInv, JobInv, GenInv, EntriesAreLive,
           UncancelledIsRegistered, NoSaveAfterStop, Running
<1>6. CASE InterviewRetryCancelled(j)
  BY <1>6, GotoKeeps DEF InterviewRetryCancelled, Running
<1>7. CASE InterviewDescribe(j)
  BY <1>7, GotoKeeps DEF InterviewDescribe, Running
<1>8. CASE InterviewCheckContext(j)
  BY <1>8, GotoKeeps DEF InterviewCheckContext, ctxErr, Running
<1>9. CASE InterviewSave(j)
  <2>1. store' \in [Device -> Record \cup {None}]
    BY <1>9, InterviewedType DEF InterviewSave, UpdateDevice, Stored, IInv, TypeOK
  <2>2. pc' = [pc EXCEPT ![j] = "exit"] /\ pc[j] = "save"
    BY <1>9 DEF InterviewSave, Goto
  <2>3. UNCHANGED <<addrIndex, cancels, interviewGen, lastJoin, hPc, hDev, hAddr,
                    hRec, hIndex, dev, gen, cancelled, attempt, rPc, rDev, stopPc>>
    BY <1>9 DEF InterviewSave, handlerVars, removeVars
  <2>. QED
    BY <2>1, <2>2, <2>3
       DEF IInv, TypeOK, HandlerInv, RemoveInv, JobInv, GenInv, EntriesAreLive,
           UncancelledIsRegistered, NoSaveAfterStop, JobPc, Running
<1>10. CASE InterviewCleanup(j)
  <2>1. /\ pc[j] = "exit" /\ pc' = [pc EXCEPT ![j] = "done"]
        /\ cancelled' = [cancelled EXCEPT ![j] = TRUE]
        /\ attempt' = [attempt EXCEPT ![j] = 0]
        /\ cancels' = IF cancels[dev[j]] # None /\ cancels[dev[j]].gen = gen[j]
                      THEN [cancels EXCEPT ![dev[j]] = None] ELSE cancels
    BY <1>10 DEF InterviewCleanup, Goto
  <2>2. UNCHANGED <<store, addrIndex, interviewGen, lastJoin, hPc, hDev, hAddr, hRec,
                    hIndex, dev, gen, rPc, rDev, stopPc>>
    BY <1>10 DEF InterviewCleanup, jobRest, handlerVars, removeVars
  <2>3. dev[j] \in Device /\ gen[j] # 0
    BY <2>1 DEF IInv, TypeOK, JobInv, GenInv
  \* Generation numbers are distinct, so the entry removed is this goroutine's.
  <2>4. ASSUME NEW d \in Device, cancels[d] # None
        PROVE  /\ cancels[d].job \in Job
               /\ cancels[d].job = j => d = dev[j] /\ cancels[d].gen = gen[j]
               /\ cancels[d].gen = gen[j] => cancels[d].job = j
    BY <2>3, <2>4 DEF IInv, TypeOK, Entry, EntriesAreLive, GenInv
  <2>5. TypeOK' /\ HandlerInv' /\ RemoveInv'
    BY <2>1, <2>2, <2>3, BoundAssumption
       DEF IInv, TypeOK, HandlerInv, RemoveInv, JobPc
  <2>6. JobInv' /\ GenInv' /\ NoSaveAfterStop'
    BY <2>1, <2>2 DEF IInv, TypeOK, JobInv, GenInv, NoSaveAfterStop
  <2>7. EntriesAreLive'
    BY <2>1, <2>2, <2>3, <2>4 DEF IInv, TypeOK, EntriesAreLive
  <2>8. UncancelledIsRegistered'
    BY <2>1, <2>2, <2>3, <2>4
       DEF IInv, TypeOK, UncancelledIsRegistered, JobInv, Running
  <2>. QED
    BY <2>5, <2>6, <2>7, <2>8 DEF IInv
<1>11. CASE InterviewTimeout(j)
  BY <1>11 DEF InterviewTimeout, IInv, TypeOK, HandlerInv, RemoveInv, JobInv,
              GenInv, EntriesAreLive, UncancelledIsRegistered, NoSaveAfterStop,
              JobPc, Running, Goto, jobRest, handlerVars, removeVars
<1>. QED
  BY <1>1, <1>2, <1>3, <1>4, <1>5, <1>6, <1>7, <1>8, <1>9, <1>10, <1>11 DEF InterviewStep

\* A step of RemoveDevice preserves the invariant.
LEMMA RemoveDeviceKeeps ==
    ASSUME IInv, NEW r \in Http, RemoveDevice(r)
    PROVE  IInv'
<1>. USE DEF IInv, TypeOK, HandlerInv, RemoveInv, JobInv, GenInv, EntriesAreLive,
            UncancelledIsRegistered, NoSaveAfterStop,
            RemovePc, removeRest, handlerVars
<1>1. ASSUME NEW d \in Device, RemoveGetDevice(r, d)
      PROVE  IInv'
  BY <1>1 DEF RemoveGetDevice
<1>2. CASE RemoveCancel(r)
  <2>1. /\ cancels' \in [Device -> Entry \cup {None}]
        /\ cancelled' \in [Job -> BOOLEAN]
        /\ EntriesAreLive'
        /\ UncancelledIsRegistered'
    BY CancelKeepsRegistry, <1>2 DEF RemoveCancel, RemoveStep
  <2>. HIDE DEF EntriesAreLive, UncancelledIsRegistered
  <2>. QED
    BY <1>2, <2>1 DEF RemoveCancel, RemoveStep
<1>3. CASE RemoveIndex(r)
  BY <1>3 DEF RemoveIndex, RemoveStep, RemoveOneFromIndex
<1>4. CASE RemoveDelete(r)
  BY <1>4 DEF RemoveDelete, DeleteDevice, RemoveReturns
<1>. QED
  BY <1>1, <1>2, <1>3, <1>4 DEF RemoveDevice

\* The passing of time and Stop preserve the invariant.
LEMMA StopKeeps ==
    ASSUME IInv, Stop \/ CancelAllInterviews \/ StopReturns \/ \E d \in Device : TimePasses(d)
    PROVE  IInv'
<1>. USE DEF IInv, TypeOK, HandlerInv, RemoveInv, JobInv, GenInv, EntriesAreLive,
            UncancelledIsRegistered, NoSaveAfterStop,
            StopPc, stopRest, handlerVars, removeVars
<1>1. CASE Stop
  BY <1>1 DEF Stop
<1>2. CASE CancelAllInterviews
  <2>1. cancels' = [d \in Device |-> None] /\ stopPc' = "waiting"
    BY <1>2 DEF CancelAllInterviews
  <2>2. UNCHANGED <<store, addrIndex, interviewGen, lastJoin, hPc, hDev, hAddr, hRec,
                    hIndex, pc, dev, gen, attempt, rPc, rDev>>
    BY <1>2 DEF CancelAllInterviews, stopRest, handlerVars, removeVars
  <2>3. cancelled' \in [Job -> BOOLEAN]
    BY <1>2 DEF CancelAllInterviews
  <2>4. \A j \in Job : pc[j] \in Running => cancelled'[j]
    <3>. SUFFICES ASSUME NEW j \in Job, pc[j] \in Running PROVE cancelled'[j]
      OBVIOUS
    <3>1. cancelled'[j] = (cancelled[j] \/ \E d \in Device :
                               cancels[d] # None /\ cancels[d].job = j)
      BY <1>2 DEF CancelAllInterviews
    <3>2. dev[j] \in Device
      BY DEF Running
    <3>. QED
      BY <3>1, <3>2, Zenon
  <2>. QED
    BY <2>1, <2>2, <2>3, <2>4
<1>3. CASE StopReturns
  BY <1>3 DEF StopReturns
<1>4. ASSUME NEW d \in Device, TimePasses(d)
      PROVE  IInv'
  BY <1>4 DEF TimePasses, Age, jobVars
<1>. QED
  BY <1>1, <1>2, <1>3, <1>4

-----------------------------------------------------------------------------
\* The invariant holds in every reachable state.
THEOREM Invariant == Spec => []IInv
<1>1. Init => IInv
  BY BoundAssumption, RebuiltType
     DEF Init, IInv, TypeOK, HandlerInv, RemoveInv, JobInv, GenInv, EntriesAreLive,
         UncancelledIsRegistered, NoSaveAfterStop, HandlerPc, JobPc, RemovePc,
         StopPc, Age, Running
<1>2. IInv /\ [Next]_vars => IInv'
  <2>. SUFFICES ASSUME IInv, [Next]_vars PROVE IInv'
    OBVIOUS
  <2>1. CASE UNCHANGED vars
    BY <2>1 DEF vars, handlerVars, jobVars, removeVars, IInv, TypeOK, HandlerInv,
                RemoveInv, JobInv, GenInv, EntriesAreLive, UncancelledIsRegistered,
                NoSaveAfterStop
  <2>. QED
    BY <2>1, IndicationKeeps, HandlerStepKeeps, InterviewStepKeeps, RemoveDeviceKeeps,
       StopKeeps DEF Next
<1>. QED
  BY <1>1, <1>2, PTL DEF Spec

\* Every variable keeps its type, the locals of the goroutines included.
THEOREM TypeCorrect == Spec => []TypeOK
<1>1. IInv => TypeOK
  BY DEF IInv
<1>. QED
  BY <1>1, Invariant, PTL

\* interviewCancels and the running interviews agree: an entry is that of a
\* running interview of the device, and an interview whose context is alive
\* is the one registered.
THEOREM RegistryAgrees == Spec => [](EntriesAreLive /\ UncancelledIsRegistered)
<1>1. IInv => EntriesAreLive /\ UncancelledIsRegistered
  BY DEF IInv
<1>. QED
  BY <1>1, Invariant, PTL

\* An interview whose context is alive is the registered one, for any number
\* of interviews, devices and removals at once.
THEOREM LiveIsRegistered == Spec => []UncancelledIsRegistered
<1>1. IInv => UncancelledIsRegistered
  BY DEF IInv
<1>. QED
  BY <1>1, Invariant, PTL

\* No interview writes to the store once Stop has returned.
THEOREM StoreQuietAfterStop == Spec => []NoSaveAfterStop
<1>1. IInv => NoSaveAfterStop
  BY DEF IInv
<1>. QED
  BY <1>1, Invariant, PTL

\* A record appears only while HandleJoin or HandleAnnounce of that device
\* saves it: no interview and no removal resurrects a deleted device.
THEOREM NoResurrection == Spec => OnlyIndicationsCreate
<1>. DEFINE Creation == \A d \in Device : ~Stored(d) /\ Stored(d)' =>
                           hPc \in {"joinSave", "annSave"} /\ hDev = d
<1>1. ASSUME IInv, [Next]_vars PROVE [Creation]_vars
  <2>1. CASE UNCHANGED store
    BY <2>1 DEF Stored
  <2>2. CASE JoinSaveDevice \/ AnnounceSaveDevice
    BY <1>1, <2>2 DEF IInv, TypeOK, JoinSaveDevice, AnnounceSaveDevice, SaveDevice, Stored
  <2>3. CASE LeaveDeleteDevice
    BY <1>1, <2>3 DEF IInv, TypeOK, LeaveDeleteDevice, DeleteDevice, Stored
  <2>4. ASSUME NEW j \in Job, InterviewSave(j) PROVE Creation
    BY <1>1, <2>4 DEF IInv, TypeOK, InterviewSave, UpdateDevice, Stored
  <2>5. ASSUME NEW r \in Http, RemoveDelete(r) PROVE Creation
    BY <1>1, <2>5 DEF IInv, TypeOK, RemoveDelete, DeleteDevice, Stored
  <2>6. \/ UNCHANGED store
        \/ JoinSaveDevice \/ AnnounceSaveDevice \/ LeaveDeleteDevice
        \/ \E j \in Job : InterviewSave(j)
        \/ \E r \in Http : RemoveDelete(r)
    <3>1. CASE UNCHANGED vars
      BY <3>1 DEF vars
    <3>2. CASE Indication
      BY <3>2 DEF Indication, JoinIndication, AnnounceIndication, LeaveIndication,
                  Report, NwkAddrUpdate
    <3>3. CASE HandlerStep
      BY <3>3 DEF HandlerStep, JoinGetDevice, AnnounceGetDevice,
                  AnnounceCheckInterviewing, AnnounceDebounce, AnnounceSpawn,
                  LeaveIndex, RebuildAddrIndex
    <3>4. ASSUME NEW j \in Job, InterviewStep(j) \/ InterviewTimeout(j)
          PROVE  UNCHANGED store \/ InterviewSave(j)
      BY <3>4 DEF InterviewStep, InterviewTimeout, InterviewGen, InterviewRegister,
                  InterviewGetDevice, InterviewActiveEndpoints, InterviewRetry,
                  InterviewRetryCancelled, InterviewDescribe, InterviewCheckContext,
                  InterviewCleanup, jobRest
    <3>5. ASSUME NEW r \in Http, RemoveDevice(r)
          PROVE  UNCHANGED store \/ RemoveDelete(r)
      BY <3>5 DEF RemoveDevice, RemoveGetDevice, RemoveCancel, RemoveIndex
    <3>6. CASE Stop \/ CancelAllInterviews \/ StopReturns \/ \E d \in Device : TimePasses(d)
      BY <3>6 DEF Stop, CancelAllInterviews, StopReturns, TimePasses, stopRest
    <3>. QED
      BY <1>1, <3>1, <3>2, <3>3, <3>4, <3>5, <3>6 DEF Next
  <2>. QED
    BY <2>1, <2>2, <2>3, <2>4, <2>5, <2>6
<1>. QED
  BY <1>1, Invariant, PTL DEF Spec, OnlyIndicationsCreate

-----------------------------------------------------------------------------
(* DeviceManager implements LatestWorker.                                  *)

\* The context of an interview that has not registered yet is alive.
Fresh == \A j \in Job : pc[j] \in {"none", "spawned", "register"} => ~cancelled[j]

\* Only contexts of registered interviews are ended.
LEMMA FreshKeeps ==
    ASSUME IInv, Fresh, [Next]_vars
    PROVE  Fresh'
<1>. USE NoneAssumption DEF IInv, TypeOK, Fresh
<1>1. CASE UNCHANGED vars
  BY <1>1 DEF vars, jobVars
<1>2. ASSUME NEW d \in Device, CancelInterview(d), UNCHANGED pc
      PROVE  Fresh'
  BY <1>2 DEF CancelInterview, EntriesAreLive, Entry, Running
<1>3. CASE Indication
  BY <1>2, <1>3 DEF Indication, JoinIndication, AnnounceIndication, LeaveIndication,
              Report, NwkAddrUpdate, handlerRest, jobVars
<1>4. CASE HandlerStep
  BY <1>4 DEF HandlerStep, JoinGetDevice, JoinSaveDevice, AnnounceGetDevice,
              AnnounceSaveDevice, AnnounceCheckInterviewing, AnnounceDebounce,
              AnnounceSpawn, LeaveIndex, LeaveDeleteDevice, RebuildAddrIndex,
              handlerRest, jobVars
<1>5. ASSUME NEW j \in Job, InterviewStep(j)
      PROVE  Fresh'
  <2>1. CASE InterviewRegister(j)
    BY <1>5, <2>1 DEF InterviewRegister, Goto, EntriesAreLive, Entry, Running, JobInv
  <2>2. CASE InterviewCleanup(j)
    BY <1>5, <2>2 DEF InterviewCleanup, Goto
  <2>3. CASE ~InterviewRegister(j) /\ ~InterviewCleanup(j)
    BY <1>5, <2>3 DEF InterviewStep, Goto, InterviewGen, InterviewGetDevice,
              InterviewActiveEndpoints, InterviewRetry, InterviewRetryCancelled,
              InterviewDescribe, InterviewCheckContext, InterviewSave
  <2>. QED
    BY <2>1, <2>2, <2>3
<1>6. ASSUME NEW j \in Job, InterviewTimeout(j)
      PROVE  Fresh'
  BY <1>6 DEF InterviewTimeout, Running
<1>7. ASSUME NEW r \in Http, RemoveDevice(r)
      PROVE  Fresh'
  <2>1. CASE RemoveCancel(r)
    BY <1>2, <1>7, <2>1 DEF RemoveCancel, RemoveStep, RemoveInv, removeRest
  <2>2. CASE ~RemoveCancel(r)
    BY <1>7, <2>2 DEF RemoveDevice, RemoveGetDevice, RemoveIndex, RemoveDelete, removeRest
  <2>. QED
    BY <2>1, <2>2
<1>8. CASE CancelAllInterviews
  BY <1>8 DEF CancelAllInterviews, EntriesAreLive, Entry, Running, stopRest
<1>9. CASE Stop \/ StopReturns \/ \E d \in Device : TimePasses(d)
  BY <1>9 DEF Stop, StopReturns, TimePasses, stopRest, jobVars
<1>. QED
  BY <1>1, <1>3, <1>4, <1>5, <1>6, <1>7, <1>8, <1>9 DEF Next

\* Nothing changes in the abstract table when no interview starts running,
\* stops running, changes its device or loses its context.
LEMMA SameTable ==
    ASSUME \A j \in Job : /\ (pc[j] \in Running) <=> (pc'[j] \in Running)
                          /\ (pc[j] = "done") <=> (pc'[j] = "done")
                          /\ pc[j] \in Running => dev'[j] = dev[j]
                          /\ cancelled'[j] <=> cancelled[j]
    PROVE  /\ \A d \in Device : LiveInterviews'[d] = LiveInterviews[d]
           /\ BegunInterviews' = BegunInterviews
  BY DEF LiveInterviews, BegunInterviews

\* Registering an interview begins it and ends the one before it.
LEMMA RegisterBegins ==
    ASSUME IInv, Fresh, NEW j \in Job, InterviewRegister(j)
    PROVE  /\ dev[j] \in Device
           /\ j \notin BegunInterviews
           /\ BegunInterviews' = BegunInterviews \cup {j}
           /\ \A d \in Device : LiveInterviews'[d] = IF d = dev[j] THEN {j} ELSE LiveInterviews[d]
<1>. USE NoneAssumption DEF IInv, TypeOK
<1>1. /\ pc[j] = "register" /\ pc' = [pc EXCEPT ![j] = "get"]
      /\ cancelled' = IF cancels[dev[j]] = None THEN cancelled
                      ELSE [cancelled EXCEPT ![cancels[dev[j]].job] = TRUE]
      /\ dev' = dev
  BY DEF InterviewRegister, Goto
<1>2. dev[j] \in Device /\ ~cancelled[j]
  BY <1>1 DEF JobInv, Fresh
<1>3. j \notin BegunInterviews /\ BegunInterviews' = BegunInterviews \cup {j}
  BY <1>1 DEF BegunInterviews, Running
<1>4. cancels[dev[j]] # None =>
         /\ cancels[dev[j]].job \in Job \ {j}
         /\ dev[cancels[dev[j]].job] = dev[j]
  BY <1>1, <1>2 DEF EntriesAreLive, Entry, Running
<1>5. ~cancelled'[j]
  BY <1>1, <1>2, <1>4
<1>6. ASSUME NEW d \in Device, d # dev[j]
      PROVE  LiveInterviews'[d] = LiveInterviews[d]
  <2>1. ASSUME NEW k \in Job
        PROVE  /\ dev'[k] = dev[k]
               /\ dev[k] = d => /\ pc'[k] = pc[k]
                                /\ cancelled'[k] = cancelled[k]
    BY <1>1, <1>4, <1>6
  <2>. QED
    BY <2>1 DEF LiveInterviews
<1>7. LiveInterviews'[dev[j]] \subseteq {j}
  <2>. SUFFICES ASSUME NEW k \in Job, k # j, pc'[k] \in Running, ~cancelled'[k],
                       dev'[k] = dev[j]
                PROVE  FALSE
    BY <1>1, <1>2 DEF LiveInterviews
  <2>1. pc[k] \in Running /\ dev[k] = dev[j] /\ ~cancelled[k]
    BY <1>1, <1>4
  <2>2. cancels[dev[j]] # None /\ cancels[dev[j]].job = k
    BY <2>1 DEF UncancelledIsRegistered
  <2>. QED
    BY <1>1, <2>2
<1>8. j \in LiveInterviews'[dev[j]]
  BY <1>1, <1>2, <1>5 DEF LiveInterviews, Running
<1>9. LiveInterviews'[dev[j]] = {j}
  BY <1>7, <1>8
<1>. QED
  BY <1>2, <1>3, <1>6, <1>9

\* Ending contexts, or returning from the interview, ends the live interviews
\* of whole devices.
LEMMA CancelEnds ==
    ASSUME IInv, dev' = dev,
           \A j \in Job : (pc[j] \in Running \cup {"done"}) <=> (pc'[j] \in Running \cup {"done"}),
           \A j \in Job : pc[j] \in Running /\ pc'[j] \notin Running => cancelled'[j],
           \A j \in Job : pc[j] \notin Running => pc'[j] \notin Running,
           \A j \in Job : cancelled[j] => cancelled'[j]
    PROVE  /\ BegunInterviews' = BegunInterviews
           /\ \A d \in Device : LiveInterviews'[d] = LiveInterviews[d] \/ LiveInterviews'[d] = {}
<1>. USE DEF IInv, TypeOK
<1>1. BegunInterviews' = BegunInterviews
  BY DEF BegunInterviews
<1>2. \A d \in Device : LiveInterviews'[d] \subseteq LiveInterviews[d]
  BY DEF LiveInterviews
<1>3. \A d \in Device : \A j, k \in LiveInterviews[d] : j = k
  BY DEF LiveInterviews, UncancelledIsRegistered
<1>4. ASSUME NEW d \in Device, LiveInterviews'[d] # {}
      PROVE  LiveInterviews'[d] = LiveInterviews[d]
  <2>1. PICK j : j \in LiveInterviews'[d]
    BY <1>4
  <2>2. \A k \in LiveInterviews[d] : k = j
    BY <2>1, <1>2, <1>3
  <2>. QED
    BY <2>1, <2>2, <1>2
<1>. QED
  BY <1>1, <1>4

\* A step of the manager is a step of LatestWorker or changes nothing there.
LEMMA StepRefines ==
    ASSUME IInv, Fresh, [Next]_vars
    PROVE  [Latest!Next]_(Latest!vars)
<1>. LiveInterviews \in [Device -> SUBSET Job] /\ LiveInterviews' \in [Device -> SUBSET Job]
  BY DEF LiveInterviews
<1>0. /\ Latest!vars = <<LiveInterviews, BegunInterviews>>
      /\ Latest!vars' = <<LiveInterviews', BegunInterviews'>>
  BY DEF Latest!vars
<1>1. ASSUME \A d \in Device : LiveInterviews'[d] = LiveInterviews[d], BegunInterviews' = BegunInterviews
      PROVE  UNCHANGED Latest!vars
  BY <1>0, <1>1
<1>2. ASSUME BegunInterviews' = BegunInterviews,
             \A d \in Device : LiveInterviews'[d] = LiveInterviews[d] \/ LiveInterviews'[d] = {}
      PROVE  Latest!Next
  <2>. DEFINE keys == {d \in Device : LiveInterviews'[d] = {}}
  <2>1. LiveInterviews' = [d \in Device |-> IF d \in keys THEN {} ELSE LiveInterviews[d]]
    BY <1>2
  <2>2. Latest!End(keys)
    BY <2>1, <1>2 DEF Latest!End
  <2>. QED
    BY <2>2 DEF Latest!Next
<1>3. ASSUME NEW j \in Job, InterviewRegister(j)
      PROVE  Latest!Next
  <2>1. LiveInterviews' = [LiveInterviews EXCEPT ![dev[j]] = {j}]
    BY <1>3, RegisterBegins
  <2>2. Latest!Begin(dev[j], j)
    BY <1>3, <2>1, RegisterBegins DEF Latest!Begin
  <2>. QED
    BY <1>3, <2>2, RegisterBegins DEF Latest!Next
<1>4. ASSUME NEW d \in Device, CancelInterview(d), UNCHANGED <<pc, dev>>
      PROVE  Latest!Next
  <2>1. \A j \in Job : cancelled[j] => cancelled'[j]
    BY <1>4, NoneAssumption DEF CancelInterview, IInv, TypeOK, Entry
  <2>. QED
    BY <1>2, <1>4, <2>1, CancelEnds
<1>5. ASSUME UNCHANGED <<pc, dev, cancelled>>
      PROVE  UNCHANGED Latest!vars
  BY <1>1, <1>5, SameTable
<1>6. CASE Indication
  BY <1>4, <1>5, <1>6 DEF Indication, JoinIndication, AnnounceIndication, LeaveIndication,
              Report, NwkAddrUpdate, handlerRest, jobVars
<1>7. CASE HandlerStep
  <2>1. CASE AnnounceSpawn
    <3>1. PICK j \in Job : /\ pc[j] = "none"
                           /\ pc' = [pc EXCEPT ![j] = "spawned"]
                           /\ dev' = [dev EXCEPT ![j] = hDev]
      BY <2>1 DEF AnnounceSpawn
    <3>2. cancelled' = cancelled
      BY <2>1 DEF AnnounceSpawn
    <3>3. \A k \in Job : /\ (pc[k] \in Running) <=> (pc'[k] \in Running)
                         /\ (pc[k] = "done") <=> (pc'[k] = "done")
                         /\ pc[k] \in Running => dev'[k] = dev[k]
      BY <3>1 DEF IInv, TypeOK, Running
    <3>. QED
      BY <1>1, <3>2, <3>3, SameTable
  <2>2. CASE ~AnnounceSpawn
    BY <1>5, <1>7, <2>2 DEF HandlerStep, JoinGetDevice, JoinSaveDevice, AnnounceGetDevice,
              AnnounceSaveDevice, AnnounceCheckInterviewing, AnnounceDebounce,
              LeaveIndex, LeaveDeleteDevice, RebuildAddrIndex, handlerRest, jobVars
  <2>. QED
    BY <2>1, <2>2
<1>8. ASSUME NEW j \in Job, InterviewStep(j)
      PROVE  [Latest!Next]_(Latest!vars)
  <2>1. CASE InterviewRegister(j)
    BY <1>3, <2>1
  <2>2. CASE InterviewCleanup(j)
    <3>1. /\ pc[j] = "exit" /\ pc' = [pc EXCEPT ![j] = "done"]
          /\ cancelled' = [cancelled EXCEPT ![j] = TRUE]
          /\ dev' = dev
      BY <2>2 DEF InterviewCleanup, Goto
    <3>2. /\ \A k \in Job : (pc[k] \in Running \cup {"done"}) <=> (pc'[k] \in Running \cup {"done"})
          /\ \A k \in Job : pc[k] \in Running /\ pc'[k] \notin Running => cancelled'[k]
          /\ \A k \in Job : pc[k] \notin Running => pc'[k] \notin Running
          /\ \A k \in Job : cancelled[k] => cancelled'[k]
      BY <3>1 DEF IInv, TypeOK, Running
    <3>. QED
      BY <1>2, <3>1, <3>2, CancelEnds
  <2>3. CASE ~InterviewRegister(j) /\ ~InterviewCleanup(j)
    <3>1. /\ dev' = dev /\ cancelled' = cancelled
          /\ \/ pc[j] = "spawned" /\ pc' = [pc EXCEPT ![j] = "register"]
             \/ pc[j] \in Running /\ pc' = [pc EXCEPT ![j] = "get"]
             \/ pc[j] \in Running /\ pc' = [pc EXCEPT ![j] = "query"]
             \/ pc[j] \in Running /\ pc' = [pc EXCEPT ![j] = "wait"]
             \/ pc[j] \in Running /\ pc' = [pc EXCEPT ![j] = "describe"]
             \/ pc[j] \in Running /\ pc' = [pc EXCEPT ![j] = "check"]
             \/ pc[j] \in Running /\ pc' = [pc EXCEPT ![j] = "save"]
             \/ pc[j] \in Running /\ pc' = [pc EXCEPT ![j] = "exit"]
      BY <1>8, <2>3 DEF InterviewStep, Goto, InterviewGen, InterviewGetDevice,
              InterviewActiveEndpoints, InterviewRetry, InterviewRetryCancelled,
              InterviewDescribe, InterviewCheckContext, InterviewSave, Running
    <3>2. \A k \in Job : /\ (pc[k] \in Running) <=> (pc'[k] \in Running)
                         /\ (pc[k] = "done") <=> (pc'[k] = "done")
      BY <3>1 DEF IInv, TypeOK, Running
    <3>. QED
      BY <1>1, <3>1, <3>2, SameTable
  <2>. QED
    BY <2>1, <2>2, <2>3
<1>9. ASSUME NEW j \in Job, InterviewTimeout(j)
      PROVE  Latest!Next
  <2>1. /\ pc' = pc /\ dev' = dev
        /\ \A k \in Job : cancelled[k] => cancelled'[k]
    BY <1>9 DEF InterviewTimeout, IInv, TypeOK
  <2>. QED
    BY <1>2, <2>1, CancelEnds
<1>10. ASSUME NEW r \in Http, RemoveDevice(r)
       PROVE  [Latest!Next]_(Latest!vars)
  <2>1. CASE RemoveCancel(r)
    BY <1>4, <1>10, <2>1 DEF RemoveCancel, RemoveStep, IInv, RemoveInv, removeRest
  <2>2. CASE ~RemoveCancel(r)
    BY <1>5, <1>10, <2>2 DEF RemoveDevice, RemoveGetDevice, RemoveIndex, RemoveDelete, removeRest
  <2>. QED
    BY <2>1, <2>2
<1>11. CASE CancelAllInterviews
  <2>1. /\ pc' = pc /\ dev' = dev
        /\ \A k \in Job : cancelled[k] => cancelled'[k]
    BY <1>11 DEF CancelAllInterviews, stopRest, IInv, TypeOK
  <2>. QED
    BY <1>2, <2>1, CancelEnds
<1>12. CASE Stop \/ StopReturns \/ (\E d \in Device : TimePasses(d)) \/ UNCHANGED vars
  BY <1>5, <1>12 DEF Stop, StopReturns, TimePasses, stopRest, jobVars, vars
<1>. QED
  BY <1>6, <1>7, <1>8, <1>9, <1>10, <1>11, <1>12 DEF Next

\* The interview registry implements LatestWorker: whatever the indications,
\* removals, timeouts and Stop do, an interview that registers ends the one
\* before it, and no ended interview of a device comes back.
THEOREM OneInterviewHolds == Spec => OneInterview
<1>1. Init => Fresh
  BY DEF Init, Fresh
<1>2. Init => Latest!Init
  BY DEF Init, Latest!Init, LiveInterviews, BegunInterviews, Running
<1>. QED
  BY <1>1, <1>2, Invariant, FreshKeeps, StepRefines, PTL
     DEF Spec, OneInterview, Latest!Spec

-----------------------------------------------------------------------------
(* The debounce table.                                                     *)

Debouncing == {d \in Device : lastJoin[d] # "none"}

\* Recording a device never leaves more entries than the cap.
LEMMA DebouncedBound ==
    ASSUME TypeOK, NEW d \in Device, NEW m \in Debounced(d)
    PROVE  Cardinality({x \in Device : m[x] # "none"}) <= LastJoinCap
<1>. DEFINE added   == [lastJoin EXCEPT ![d] = "recent"]
            Size(f) == Cardinality({x \in Device : f[x] # "none"})
            Evict(E) == [x \in Device |-> IF x \in E THEN "none" ELSE added[x]]
<1>1. \/ Size(m) <= LastJoinCap
      \/ m = Evict(Device \ {d})
  BY DEF Debounced
<1>2. ASSUME m = Evict(Device \ {d})
      PROVE  Size(m) = 1
  <2>1. {x \in Device : m[x] # "none"} = {d}
    BY <1>2 DEF TypeOK
  <2>. QED
    BY <2>1, FS_Singleton
<1>. QED
  BY <1>1, <1>2, BoundAssumption

\* The entries of the debounce table stay within lastJoinCacheCap, whatever
\* devices announce and leave.
THEOREM DebounceBoundedHolds == Spec => []DebounceBounded
<1>. USE DEF DebounceBounded
<1>1. Init => DebounceBounded
  <2>1. Init => {d \in Device : lastJoin[d] # "none"} = {}
    BY DEF Init
  <2>. QED
    BY <2>1, FS_EmptySet, BoundAssumption
<1>2. ASSUME IInv, DebounceBounded, [Next]_vars
      PROVE  DebounceBounded'
  <2>1. CASE AnnounceSpawn
    BY <1>2, <2>1, DebouncedBound DEF AnnounceSpawn, IInv, HandlerInv
  <2>2. ASSUME NEW d \in Device, LeaveIndication(d) \/ TimePasses(d)
        PROVE  DebounceBounded'
    <3>1. Debouncing' \subseteq Debouncing
      BY <1>2, <2>2 DEF LeaveIndication, TimePasses, Debouncing, IInv, TypeOK
    <3>2. IsFiniteSet(Debouncing) /\ Cardinality(Debouncing) \in Nat
      BY DeviceAssumption, FS_Subset, FS_CardinalityType DEF Debouncing
    <3>3. /\ Cardinality(Debouncing') <= Cardinality(Debouncing)
          /\ Cardinality(Debouncing') \in Nat
      BY <3>1, <3>2, FS_Subset, FS_CardinalityType
    <3>. QED
      BY <1>2, <3>2, <3>3, BoundAssumption DEF Debouncing
  <2>3. CASE UNCHANGED lastJoin
    BY <1>2, <2>3
  <2>4. AnnounceSpawn \/ UNCHANGED lastJoin
        \/ \E d \in Device : LeaveIndication(d) \/ TimePasses(d)
    <3>1. CASE UNCHANGED vars
      BY <3>1 DEF vars
    <3>2. CASE Indication
      BY <3>2 DEF Indication, JoinIndication, AnnounceIndication,
                  Report, NwkAddrUpdate, handlerRest
    <3>3. CASE HandlerStep
      BY <3>3 DEF HandlerStep, JoinGetDevice, JoinSaveDevice, AnnounceGetDevice,
                  AnnounceSaveDevice, AnnounceCheckInterviewing, AnnounceDebounce,
                  LeaveIndex, LeaveDeleteDevice, RebuildAddrIndex, handlerRest
    <3>4. ASSUME NEW j \in Job, InterviewStep(j) \/ InterviewTimeout(j)
          PROVE  UNCHANGED lastJoin
      BY <3>4 DEF InterviewStep, InterviewTimeout, InterviewGen, InterviewRegister,
                  InterviewGetDevice, InterviewActiveEndpoints, InterviewRetry,
                  InterviewRetryCancelled, InterviewDescribe, InterviewCheckContext,
                  InterviewSave, InterviewCleanup, jobRest
    <3>5. ASSUME NEW r \in Http, RemoveDevice(r)
          PROVE  UNCHANGED lastJoin
      BY <3>5 DEF RemoveDevice, RemoveGetDevice, RemoveCancel, RemoveIndex,
                  RemoveDelete, removeRest
    <3>6. CASE Stop \/ CancelAllInterviews \/ StopReturns
      BY <3>6 DEF Stop, CancelAllInterviews, StopReturns, stopRest
    <3>. QED
      BY <1>2, <3>1, <3>2, <3>3, <3>4, <3>5, <3>6 DEF Next
  <2>. QED
    BY <2>1, <2>2, <2>3, <2>4
<1>. QED
  BY <1>1, <1>2, Invariant, PTL DEF Spec
=============================================================================
