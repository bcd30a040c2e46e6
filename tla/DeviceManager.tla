--------------------------- MODULE DeviceManager ---------------------------
(***************************************************************************)
(* The device lifecycle of internal/coordinator/device_manager.go: join,   *)
(* announce and leave indications, the interview goroutines they start,    *)
(* removal over HTTP, and Coordinator.Stop, all working on the             *)
(* bbolt device store and on the in-memory short-address index.            *)
(*                                                                         *)
(* Threads.  Indications run one at a time in the NCP's readLoop           *)
(* goroutine (hPc, hDev, ...).  Every interview is a goroutine of its own  *)
(* (a Job), every HTTP removal is a goroutine of its own (an Http), and    *)
(* Stop runs in main.  An action ends where the code releases a mutex,     *)
(* finishes a database transaction or waits.  Events().Emit hands the      *)
(* event to subscribers and touches nothing of this state.                 *)
(*                                                                         *)
(* A device record keeps its short address and the Interviewed flag        *)
(* (which stands for the endpoints too: they are written together).        *)
(* FriendlyName, Manufacturer, Model, LastSeen, LQI, RSSI and Properties   *)
(* are left out: no step of the lifecycle branches on them.                *)
(***************************************************************************)
EXTENDS Naturals, FiniteSets

CONSTANTS
    Device,       \* IEEE addresses; numbers, since the store lists by key
    Addr,         \* 16-bit network (short) addresses
    Job,          \* interview goroutines; bounds the interviews started
    Http,         \* goroutines serving DELETE /api/devices/{ieee}
    MaxRetries,   \* maxRetries in Interview
    LastJoinCap,  \* lastJoinCacheCap
    None          \* no record, no owner, no entry

ASSUME DeviceAssumption == Device \subseteq Nat /\ IsFiniteSet(Device)
ASSUME BoundAssumption  == MaxRetries \in Nat \ {0} /\ LastJoinCap \in Nat \ {0}

Record == [short : Addr, interviewed : BOOLEAN]
Entry  == [job : Job, gen : Nat]

ASSUME NoneAssumption == None \notin Device \cup Addr \cup Record \cup Entry

VARIABLES
    store,         \* the devices bucket: Device -> Record or None
    addrIndex,     \* DeviceManager.addrIndex: Addr -> Device or None
    cancels,       \* DeviceManager.interviewCancels: Device -> Entry or None
    interviewGen,  \* DeviceManager.interviewGen
    lastJoin,      \* DeviceManager.lastJoin, as the age of the entry
    hPc, hDev, hAddr, hRec, hIndex,           \* the readLoop goroutine
    pc, dev, gen, cancelled, attempt,   \* the interview goroutines
    rPc, rDev,                                \* the HTTP removals
    stopPc                                    \* Coordinator.Stop

handlerVars == <<hPc, hDev, hAddr, hRec, hIndex>>
jobVars     == <<pc, dev, gen, cancelled, attempt>>
removeVars  == <<rPc, rDev>>
vars == <<store, addrIndex, cancels, interviewGen, lastJoin,
          handlerVars, jobVars, removeVars, stopPc>>

HandlerPc == {"idle", "joinGet", "joinSave",
              "annGet", "annSave", "annCheck", "annSpawn",
              "leaveIndex", "leaveDelete", "rebuild"}
JobPc     == {"none", "spawned", "register", "get", "query", "wait",
              "describe", "check", "save", "exit", "done"}
\* Program points between registration in interviewCancels and the cleanup.
Running   == {"get", "query", "wait", "describe", "check", "save", "exit"}
RemovePc  == {"idle", "cancel", "index", "delete"}
StopPc    == {"up", "cancelled", "waiting", "stopped"}
Age       == {"none", "recent", "old"}

TypeOK ==
    /\ store \in [Device -> Record \cup {None}]
    /\ addrIndex \in [Addr -> Device \cup {None}]
    /\ cancels \in [Device -> Entry \cup {None}]
    /\ interviewGen \in Nat
    /\ lastJoin \in [Device -> Age]
    /\ hPc \in HandlerPc
    /\ hDev \in Device \cup {None}
    /\ hAddr \in Addr \cup {None}
    /\ hRec \in Record \cup {None}
    /\ hIndex \in [Addr -> Device \cup {None}] \cup {None}
    /\ pc \in [Job -> JobPc]
    /\ dev \in [Job -> Device \cup {None}]
    /\ gen \in [Job -> Nat]
    /\ cancelled \in [Job -> BOOLEAN]
    /\ attempt \in [Job -> 0 .. MaxRetries]
    /\ rPc \in [Http -> RemovePc]
    /\ rDev \in [Http -> Device \cup {None}]
    /\ stopPc \in StopPc

-----------------------------------------------------------------------------
(* The device store (internal/store/bolt.go).  Each call is one            *)
(* transaction; any of them may also fail, which changes nothing.          *)

Stored(d) == store[d] # None

SaveDevice(d, rec) == store' = [store EXCEPT ![d] = rec]

DeleteDevice(d) == store' = [store EXCEPT ![d] = None]

\* A read-modify-write in one transaction, with rec computed from the record
\* read in it; ErrNotFound leaves no record.
UpdateDevice(d, rec) ==
    store' = IF Stored(d) THEN [store EXCEPT ![d] = rec] ELSE store

(* The short-address index.                                                *)

Owners(a) == {d \in Device : Stored(d) /\ store[d].short = a}

\* ListDevices yields the records in key order, so of two devices stored
\* with one address the greater key is written last and stays.
Rebuilt == {index \in [Addr -> Device \cup {None}] :
              \A a \in Addr :
                 IF Owners(a) = {} THEN index[a] = None
                 ELSE /\ index[a] \in Owners(a)
                      /\ \A d \in Owners(a) : d <= index[a]}

updateAddrIndex(d, a) == addrIndex' = [addrIndex EXCEPT ![a] = d]

\* HandleLeave and RemoveDevice scan the index and stop at the first hit.
RemoveOneFromIndex(d) ==
    IF \E a \in Addr : addrIndex[a] = d
    THEN \E a \in Addr :
            addrIndex[a] = d /\ addrIndex' = [addrIndex EXCEPT ![a] = None]
    ELSE addrIndex' = addrIndex

(* The interview registry.                                                 *)

ctxErr(j) == cancelled[j] \/ stopPc # "up"

\* entry.cancel() and delete, under interviewMu.
CancelInterview(d) ==
    IF cancels[d] = None THEN UNCHANGED <<cancels, cancelled>>
    ELSE /\ cancelled' = [cancelled EXCEPT ![cancels[d].job] = TRUE]
         /\ cancels' = [cancels EXCEPT ![d] = None]

-----------------------------------------------------------------------------
\* New(): an empty manager over whatever an earlier run left in the store;
\* the index stays empty if ListDevices fails.
Init ==
    /\ store \in [Device -> Record \cup {None}]
    /\ addrIndex \in Rebuilt \cup {[a \in Addr |-> None]}
    /\ cancels = [d \in Device |-> None]
    /\ interviewGen = 0
    /\ lastJoin = [d \in Device |-> "none"]
    /\ hPc = "idle" /\ hDev = None /\ hAddr = None /\ hRec = None /\ hIndex = None
    /\ pc = [j \in Job |-> "none"]
    /\ dev = [j \in Job |-> None]
    /\ gen = [j \in Job |-> 0]
    /\ cancelled = [j \in Job |-> FALSE]
    /\ attempt = [j \in Job |-> 0]
    /\ rPc = [r \in Http |-> "idle"]
    /\ rDev = [r \in Http |-> None]
    /\ stopPc = "up"

-----------------------------------------------------------------------------
(* The readLoop goroutine: indications, one at a time.                     *)

handlerRest == <<cancels, interviewGen, lastJoin, jobVars, removeVars, stopPc>>

HandlerReturns ==
    /\ hPc' = "idle"
    /\ hDev' = None /\ hAddr' = None /\ hRec' = None /\ hIndex' = None

\* The record a join or an announce writes: the one read, with the new
\* address, or a new one.
Upserted(d, a) ==
    IF Stored(d) THEN [store[d] EXCEPT !.short = a]
    ELSE [short |-> a, interviewed |-> FALSE]

\* HandleJoin
JoinIndication(d, a) ==
    /\ hPc = "idle"
    /\ updateAddrIndex(d, a)
    /\ hPc' = "joinGet" /\ hDev' = d /\ hAddr' = a
    /\ UNCHANGED <<hRec, hIndex, store, handlerRest>>

JoinGetDevice ==
    /\ hPc = "joinGet"
    /\ \/ /\ hRec' = Upserted(hDev, hAddr)
          /\ hPc' = "joinSave" /\ hAddr' = None
          /\ UNCHANGED <<hDev, hIndex>>
       \/ HandlerReturns                          \* database error
    /\ UNCHANGED <<store, addrIndex, handlerRest>>

JoinSaveDevice ==
    /\ hPc = "joinSave"
    /\ SaveDevice(hDev, hRec) \/ UNCHANGED store   \* database error
    /\ HandlerReturns
    /\ UNCHANGED <<addrIndex, handlerRest>>

\* HandleAnnounce.  The announce is taken only while a goroutine is left to
\* run the interview it may start: Job bounds the interviews of a behaviour.
AnnounceIndication(d, a) ==
    /\ hPc = "idle"
    /\ \E j \in Job : pc[j] = "none"
    /\ updateAddrIndex(d, a)
    /\ hPc' = "annGet" /\ hDev' = d /\ hAddr' = a
    /\ UNCHANGED <<hRec, hIndex, store, handlerRest>>

AnnounceGetDevice ==
    /\ hPc = "annGet"
    /\ \/ /\ hRec' = Upserted(hDev, hAddr)
          /\ hPc' = "annSave" /\ hAddr' = None
          /\ UNCHANGED <<hDev, hIndex>>
       \/ HandlerReturns                          \* database error
    /\ UNCHANGED <<store, addrIndex, handlerRest>>

\* Unlike on a join, a failed save is only logged.
AnnounceSaveDevice ==
    /\ hPc = "annSave"
    /\ SaveDevice(hDev, hRec) \/ UNCHANGED store
    /\ hPc' = "annCheck" /\ hRec' = None
    /\ UNCHANGED <<hDev, hAddr, hIndex, addrIndex, handlerRest>>

\* "announce during interview, address updated" returns here.
AnnounceCheckInterviewing ==
    /\ hPc = "annCheck"
    /\ IF cancels[hDev] # None
       THEN HandlerReturns
       ELSE hPc' = "annSpawn" /\ UNCHANGED <<hDev, hAddr, hRec, hIndex>>
    /\ UNCHANGED <<store, addrIndex, handlerRest>>

\* Mutant of Debounced: only the entries that expired are evicted.
DebouncedSoftly(d) ==
    LET added == [lastJoin EXCEPT ![d] = "recent"]
    IN  {[x \in Device |-> IF x \in E THEN "none" ELSE added[x]] :
            E \in SUBSET {x \in Device : added[x] = "old"}}

\* What lastJoin may be after recording d: over the cap, the entries older
\* than a minute go (some of those no longer recent), and everything but d
\* goes if that was not enough.
Debounced(d) ==
    LET added   == [lastJoin EXCEPT ![d] = "recent"]
        Size(m) == Cardinality({x \in Device : m[x] # "none"})
        Evict(expired) == [x \in Device |-> IF x \in expired THEN "none" ELSE added[x]]
        After(m) == IF Size(m) <= LastJoinCap THEN m ELSE Evict(Device \ {d})
    IN  IF Size(added) <= LastJoinCap THEN {added}
        ELSE {After(Evict(E)) : E \in SUBSET {x \in Device : added[x] = "old"}}

AnnounceDebounce ==
    /\ hPc = "annSpawn"
    /\ lastJoin[hDev] = "recent"
    /\ HandlerReturns
    /\ UNCHANGED <<store, addrIndex, handlerRest>>

AnnounceSpawn ==
    /\ hPc = "annSpawn"
    /\ lastJoin[hDev] # "recent"
    /\ lastJoin' \in Debounced(hDev)
    /\ \E j \in Job :
          /\ pc[j] = "none"
          /\ pc' = [pc EXCEPT ![j] = "spawned"]
          /\ dev' = [dev EXCEPT ![j] = hDev]
    /\ HandlerReturns
    /\ UNCHANGED <<store, addrIndex, cancels, interviewGen, gen,
                   cancelled, attempt, removeVars, stopPc>>

\* HandleLeave
LeaveIndication(d) ==
    /\ hPc = "idle"
    /\ CancelInterview(d)
    /\ lastJoin' = [lastJoin EXCEPT ![d] = "none"]
    /\ hPc' = "leaveIndex" /\ hDev' = d
    /\ UNCHANGED <<hAddr, hRec, hIndex, store, addrIndex, interviewGen,
                   pc, dev, gen, attempt, removeVars, stopPc>>

LeaveIndex ==
    /\ hPc = "leaveIndex"
    /\ RemoveOneFromIndex(hDev)
    /\ hPc' = "leaveDelete"
    /\ UNCHANGED <<hDev, hAddr, hRec, hIndex, store, handlerRest>>

\* A failed delete is only logged.
LeaveDeleteDevice ==
    /\ hPc = "leaveDelete"
    /\ DeleteDevice(hDev) \/ UNCHANGED store
    /\ HandlerReturns
    /\ UNCHANGED <<addrIndex, handlerRest>>

\* HandleAttributeReport and HandleClusterCommand: lookupOrRebuild lists the
\* store and replaces the index while it holds addrMu; the updates that
\* follow touch no field kept here.
Report(a) ==
    /\ hPc = "idle"
    /\ addrIndex[a] = None
    /\ addrIndex' \in Rebuilt
    /\ UNCHANGED <<store, handlerVars, handlerRest>>

\* The NwkAddrUpdate indication.  RebuildAddrIndex lists the store first and
\* takes addrMu afterwards.
NwkAddrUpdate ==
    /\ hPc = "idle"
    /\ hIndex' \in Rebuilt
    /\ hPc' = "rebuild"
    /\ UNCHANGED <<hDev, hAddr, hRec, store, addrIndex, handlerRest>>

RebuildAddrIndex ==
    /\ hPc = "rebuild"
    /\ addrIndex' = hIndex
    /\ HandlerReturns
    /\ UNCHANGED <<store, handlerRest>>

\* joinDebounceDuration passes since an entry of lastJoin was made.
TimePasses(d) ==
    /\ lastJoin[d] = "recent"
    /\ lastJoin' = [lastJoin EXCEPT ![d] = "old"]
    /\ UNCHANGED <<store, addrIndex, cancels, interviewGen, handlerVars,
                   jobVars, removeVars, stopPc>>

-----------------------------------------------------------------------------
(* The interview goroutines: Interview(ieee).                              *)

jobRest == <<store, addrIndex, lastJoin, handlerVars, removeVars, stopPc>>

Goto(j, from, to) == pc[j] = from /\ pc' = [pc EXCEPT ![j] = to]

InterviewGen(j) ==
    /\ Goto(j, "spawned", "register")
    /\ interviewGen' = interviewGen + 1
    /\ gen' = [gen EXCEPT ![j] = interviewGen + 1]
    /\ UNCHANGED <<cancels, dev, cancelled, attempt, jobRest>>

\* Mutant of InterviewRegister: the previous interview is left running.
RegisterBeside(j) ==
    /\ Goto(j, "register", "get")
    /\ cancels' = [cancels EXCEPT ![dev[j]] = [job |-> j, gen |-> gen[j]]]
    /\ attempt' = [attempt EXCEPT ![j] = 1]
    /\ UNCHANGED <<cancelled, interviewGen, dev, gen, jobRest>>

\* Under interviewMu: cancel the previous interview, register this one.
InterviewRegister(j) ==
    /\ Goto(j, "register", "get")
    /\ cancelled' = IF cancels[dev[j]] = None THEN cancelled
                    ELSE [cancelled EXCEPT ![cancels[dev[j]].job] = TRUE]
    /\ cancels' = [cancels EXCEPT ![dev[j]] = [job |-> j, gen |-> gen[j]]]
    /\ attempt' = [attempt EXCEPT ![j] = 1]
    /\ UNCHANGED <<interviewGen, dev, gen, jobRest>>

\* Each attempt reads the device afresh; not found or a database error ends it.
InterviewGetDevice(j) ==
    /\ \/ Goto(j, "get", "query") /\ Stored(dev[j])
       \/ Goto(j, "get", "exit")
    /\ UNCHANGED <<cancels, interviewGen, dev, gen, cancelled, attempt, jobRest>>

\* Mutant of InterviewActiveEndpoints: off by one, a retry after the last attempt.
OneRetryTooMany(j) ==
    /\ \/ Goto(j, "query", "describe")
       \/ ~ctxErr(j) /\ attempt[j] <= MaxRetries /\ Goto(j, "query", "wait")
       \/ ctxErr(j) /\ Goto(j, "query", "exit")
    /\ UNCHANGED <<cancels, interviewGen, dev, gen, cancelled, attempt, jobRest>>

\* ActiveEndpoints answers, or fails: then the interview ends if its context
\* ended or this was the last attempt, and waits for the next one otherwise.
InterviewActiveEndpoints(j) ==
    /\ \/ Goto(j, "query", "describe")
       \/ /\ ~ctxErr(j) /\ attempt[j] < MaxRetries
          /\ Goto(j, "query", "wait")
       \/ /\ ctxErr(j) \/ attempt[j] = MaxRetries
          /\ Goto(j, "query", "exit")
    /\ UNCHANGED <<cancels, interviewGen, dev, gen, cancelled, attempt, jobRest>>

\* Mutant of InterviewRetry: the attempt is not counted.
UncountedRetry(j) ==
    /\ Goto(j, "wait", "get")
    /\ UNCHANGED <<cancels, interviewGen, dev, gen, cancelled, attempt, jobRest>>

InterviewRetry(j) ==
    /\ Goto(j, "wait", "get")
    /\ attempt' = [attempt EXCEPT ![j] = @ + 1]
    /\ UNCHANGED <<cancels, interviewGen, dev, gen, cancelled, jobRest>>

InterviewRetryCancelled(j) ==
    /\ ctxErr(j)
    /\ Goto(j, "wait", "exit")
    /\ UNCHANGED <<cancels, interviewGen, dev, gen, cancelled, attempt, jobRest>>

\* readBasicAttributes, the definition lookup, SimpleDescriptor for every
\* endpoint and configureDevice: requests to the device whose failures are
\* logged, and fields that are not kept here.
InterviewDescribe(j) ==
    /\ Goto(j, "describe", "check")
    /\ UNCHANGED <<cancels, interviewGen, dev, gen, cancelled, attempt, jobRest>>

\* Mutant of InterviewCheckContext: no check before saving.
UncheckedContext(j) ==
    /\ Goto(j, "check", "save")
    /\ UNCHANGED <<cancels, interviewGen, dev, gen, cancelled, attempt, jobRest>>

\* "Check if context was cancelled ... before saving"
InterviewCheckContext(j) ==
    /\ IF ctxErr(j) THEN Goto(j, "check", "exit")
                    ELSE Goto(j, "check", "save")
    /\ UNCHANGED <<cancels, interviewGen, dev, gen, cancelled, attempt, jobRest>>

Interviewed(rec) == [rec EXCEPT !.interviewed = TRUE]

\* Mutant of InterviewSave: SaveDevice of the record read at the start in
\* place of UpdateDevice.
BlindSave(j) ==
    /\ Goto(j, "save", "exit")
    /\ \E a \in Addr : SaveDevice(dev[j], [short |-> a, interviewed |-> TRUE])
    /\ UNCHANGED <<cancels, interviewGen, dev, gen, cancelled, attempt,
                   addrIndex, lastJoin, handlerVars, removeVars, stopPc>>

InterviewSave(j) ==
    /\ Goto(j, "save", "exit")
    /\ \/ UpdateDevice(dev[j], Interviewed(store[dev[j]]))
       \/ UNCHANGED store                         \* database error
    /\ UNCHANGED <<cancels, interviewGen, dev, gen, cancelled, attempt,
                   addrIndex, lastJoin, handlerVars, removeVars, stopPc>>

\* Mutants of InterviewCleanup: the entry is left behind; the entry goes even
\* if a later interview owns it; interviewWg.Done is missing.
CleanupKeepsEntry(j) ==
    /\ Goto(j, "exit", "done")
    /\ cancelled' = [cancelled EXCEPT ![j] = TRUE]
    /\ attempt' = [attempt EXCEPT ![j] = 0]
    /\ UNCHANGED <<cancels, interviewGen, dev, gen, jobRest>>

CleanupIgnoresGen(j) ==
    /\ Goto(j, "exit", "done")
    /\ cancelled' = [cancelled EXCEPT ![j] = TRUE]
    /\ cancels' = [cancels EXCEPT ![dev[j]] = None]
    /\ attempt' = [attempt EXCEPT ![j] = 0]
    /\ UNCHANGED <<interviewGen, dev, gen, jobRest>>

CleanupWithoutDone(j) ==
    /\ Goto(j, "exit", "exit")
    /\ cancelled' = [cancelled EXCEPT ![j] = TRUE]
    /\ cancels' = IF cancels[dev[j]] # None /\ cancels[dev[j]].gen = gen[j]
                  THEN [cancels EXCEPT ![dev[j]] = None] ELSE cancels
    /\ UNCHANGED <<interviewGen, dev, gen, attempt, jobRest>>

\* The deferred cancel() and cleanup.
InterviewCleanup(j) ==
    /\ Goto(j, "exit", "done")
    /\ cancelled' = [cancelled EXCEPT ![j] = TRUE]
    /\ cancels' = IF cancels[dev[j]] # None /\ cancels[dev[j]].gen = gen[j]
                  THEN [cancels EXCEPT ![dev[j]] = None] ELSE cancels
    /\ attempt' = [attempt EXCEPT ![j] = 0]
    /\ UNCHANGED <<interviewGen, dev, gen, jobRest>>

\* interviewTimeout elapses.
InterviewTimeout(j) ==
    /\ pc[j] \in Running
    /\ ~cancelled[j]
    /\ cancelled' = [cancelled EXCEPT ![j] = TRUE]
    /\ UNCHANGED <<cancels, interviewGen, pc, dev, gen, attempt, jobRest>>

InterviewStep(j) ==
    \/ InterviewGen(j)
    \/ InterviewRegister(j)
    \/ InterviewGetDevice(j)
    \/ InterviewActiveEndpoints(j)
    \/ InterviewRetry(j)
    \/ InterviewRetryCancelled(j)
    \/ InterviewDescribe(j)
    \/ InterviewCheckContext(j)
    \/ InterviewSave(j)
    \/ InterviewCleanup(j)

-----------------------------------------------------------------------------
(* HTTP: RemoveDevice.                                                     *)

removeRest == <<interviewGen, lastJoin, handlerVars, pc, dev, gen, attempt, stopPc>>

RemoveReturns(r) == /\ rPc' = [rPc EXCEPT ![r] = "idle"]
                    /\ rDev' = [rDev EXCEPT ![r] = None]

RemoveStep(r, from, to) == /\ rPc[r] = from /\ rPc' = [rPc EXCEPT ![r] = to]
                           /\ UNCHANGED rDev

\* The device must exist; otherwise the request ends at once.
RemoveGetDevice(r, d) ==
    /\ rPc[r] = "idle"
    /\ Stored(d)
    /\ rPc' = [rPc EXCEPT ![r] = "cancel"]
    /\ rDev' = [rDev EXCEPT ![r] = d]
    /\ UNCHANGED <<store, addrIndex, cancels, cancelled, removeRest>>

\* MgmtLeave follows; its outcome is only logged.
RemoveCancel(r) ==
    /\ RemoveStep(r, "cancel", "index")
    /\ CancelInterview(rDev[r])
    /\ UNCHANGED <<store, addrIndex, removeRest>>

RemoveIndex(r) ==
    /\ RemoveStep(r, "index", "delete")
    /\ RemoveOneFromIndex(rDev[r])
    /\ UNCHANGED <<store, cancels, cancelled, removeRest>>

RemoveDelete(r) ==
    /\ rPc[r] = "delete"
    /\ DeleteDevice(rDev[r]) \/ UNCHANGED store   \* database error
    /\ RemoveReturns(r)
    /\ UNCHANGED <<addrIndex, cancels, cancelled, removeRest>>

-----------------------------------------------------------------------------
(* Coordinator.Stop: cancel the context, CancelAllInterviews, wait.        *)

stopRest == <<store, addrIndex, interviewGen, lastJoin, handlerVars,
              pc, dev, gen, attempt, removeVars>>

Stop ==
    /\ stopPc = "up"
    /\ stopPc' = "cancelled"
    /\ UNCHANGED <<cancels, cancelled, stopRest>>

CancelAllInterviews ==
    /\ stopPc = "cancelled"
    /\ stopPc' = "waiting"
    /\ cancels' = [d \in Device |-> None]
    /\ cancelled' = [j \in Job |->
          cancelled[j] \/ \E d \in Device : cancels[d] # None /\ cancels[d].job = j]
    /\ UNCHANGED stopRest

\* interviewWg.Wait() returns.
StopReturns ==
    /\ stopPc = "waiting"
    /\ \A j \in Job : pc[j] \in {"none", "done"}
    /\ stopPc' = "stopped"
    /\ UNCHANGED <<cancels, cancelled, stopRest>>

-----------------------------------------------------------------------------
Indication ==
    \/ \E d \in Device, a \in Addr : JoinIndication(d, a) \/ AnnounceIndication(d, a)
    \/ \E d \in Device : LeaveIndication(d)
    \/ \E a \in Addr : Report(a)
    \/ NwkAddrUpdate

HandlerStep ==
    \/ JoinGetDevice \/ JoinSaveDevice
    \/ AnnounceGetDevice \/ AnnounceSaveDevice
    \/ AnnounceCheckInterviewing \/ AnnounceDebounce \/ AnnounceSpawn
    \/ LeaveIndex \/ LeaveDeleteDevice
    \/ RebuildAddrIndex

RemoveDevice(r) ==
    \/ \E d \in Device : RemoveGetDevice(r, d)
    \/ RemoveCancel(r) \/ RemoveIndex(r) \/ RemoveDelete(r)

Next ==
    \/ Indication
    \/ HandlerStep
    \/ \E j \in Job : InterviewStep(j) \/ InterviewTimeout(j)
    \/ \E r \in Http : RemoveDevice(r)
    \/ \E d \in Device : TimePasses(d)
    \/ Stop \/ CancelAllInterviews \/ StopReturns

Spec == Init /\ [][Next]_vars

\* Goroutines get scheduled, ActiveEndpoints and the other requests return
\* (they are bounded by the interview's context) and timers fire; main goes
\* through Stop once it began.  Nothing is assumed of the indications, of
\* HTTP clients or of who calls Stop.
FairSpec ==
    /\ Spec
    /\ \A j \in Job : WF_vars(InterviewStep(j))
    /\ WF_vars(CancelAllInterviews)
    /\ WF_vars(StopReturns)

-----------------------------------------------------------------------------
(* Properties.                                                             *)

\* An entry of interviewCancels belongs to a goroutine that is still running
\* the interview of that device.  A leftover entry would make HandleAnnounce
\* return at "announce during interview" for ever after, so the device would
\* never be interviewed again.
EntriesAreLive ==
    \A d \in Device : cancels[d] # None =>
        /\ dev[cancels[d].job] = d
        /\ pc[cancels[d].job] \in Running
        /\ gen[cancels[d].job] = cancels[d].gen

\* Conversely an interview whose context nobody ended is the registered one:
\* HandleLeave, RemoveDevice and Stop can reach it, and there is at most one
\* for each device.  This is what the generation numbers are for.
UncancelledIsRegistered ==
    \A j \in Job : pc[j] \in Running /\ ~cancelled[j] =>
        cancels[dev[j]] # None /\ cancels[dev[j]].job = j

\* Once Stop has returned main closes the database: no interview is about to
\* write to it, not even one that a late announce started.
NoSaveAfterStop == stopPc = "stopped" => \A j \in Job : pc[j] # "save"

\* Only a join or an announce of a device makes a record for it: neither an
\* interview that outlives the device nor a racing removal brings it back.
OnlyIndicationsCreate ==
    [][\A d \in Device : ~Stored(d) /\ Stored(d)' =>
          hPc \in {"joinSave", "annSave"} /\ hDev = d]_vars

\* The debounce table stays within its cap whatever devices announce.
DebounceBounded == Cardinality({d \in Device : lastJoin[d] # "none"}) <= LastJoinCap

\* The interviews of a device whose context nobody ended, and those that
\* registered at some time.
LiveInterviews ==
    [d \in Device |-> {j \in Job : pc[j] \in Running /\ ~cancelled[j] /\ dev[j] = d}]
BegunInterviews == {j \in Job : pc[j] \in Running \cup {"done"}}

Latest == INSTANCE LatestWorker WITH
    Key <- Device, Worker <- Job, live <- LiveInterviews, begun <- BegunInterviews

\* interviewCancels and the running interviews keep the promise of
\* LatestWorker: HandleAnnounce starts an interview that ends the one before
\* it, whatever cancels, times out or cleans up in between.
OneInterview == Latest!Spec

\* Every interview that was started ends: retries are finite and no wait of
\* it is for something another goroutine may never do.
InterviewsEnd == \A j \in Job : pc[j] = "spawned" ~> pc[j] = "done"

\* Stop returns.
StopCompletes == stopPc = "cancelled" ~> stopPc = "stopped"

\* HandleJoin's "update address and LastSeen only, preserving interview data".
JoinPreservesInterview ==
    [][JoinSaveDevice =>
          \A d \in Device : Stored(d) /\ store[d].interviewed =>
              Stored(d)' /\ store'[d].interviewed]_vars
=============================================================================
