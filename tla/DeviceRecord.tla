---------------------------- MODULE DeviceRecord ----------------------------
(***************************************************************************)
(* The stored record of one device, field by field, and everyone who       *)
(* writes it: the indication handlers in the NCP's readLoop, the           *)
(* interview goroutine, and the HTTP handlers that rename and remove it.   *)
(* Some write the whole record they read earlier (SaveDevice), some merge  *)
(* fields in one transaction (UpdateDevice).  DeviceManager has the other  *)
(* side: who runs when, the index and the registry.                        *)
(*                                                                         *)
(* Manufacturer and Model are one field, Endpoints are written with        *)
(* Interviewed, LQI, RSSI and LastSeen are left out: no other field        *)
(* depends on them.  Every report carries a value of its own, a number;    *)
(* 0 is no value.                                                          *)
(***************************************************************************)
EXTENDS Naturals

CONSTANTS
    Models,          \* what the device may turn out to be
    Defs,            \* models with a definition in the device database
    NamedDefs,       \* of these, the ones whose definition gives a name
    StdDefs,         \* and the ones that decode a standard attribute as xiaomi_tlv
    MaxRetries,      \* maxRetries in Interview
    MaxReports, MaxJoins, MaxRenames, MaxInterviews,   \* bounds of a behaviour
    None             \* no record, no name, no model

\* Standard ZCL attributes, properties of a definition in a report (Xiaomi) and
\* in a cluster command (Tuya).
Prop == {"std", "tlv", "cmd"}
NoProps == [p \in Prop |-> 0]

\* A name is chosen by the user, taken from a definition or made of the model.
Name == {None} \cup ({"user"} \X Nat) \cup ({"definition", "model"} \X Models)

Record == [short : Nat, name : Name, model : Models \cup {None}, interviewed : BOOLEAN,
           props : [Prop -> Nat]]

ASSUME ModelAssumption ==
    /\ NamedDefs \subseteq Defs /\ StdDefs \subseteq Defs /\ Defs \subseteq Models
    /\ None \notin Models \cup Record

VARIABLES
    model0,      \* the device's own model
    rec,         \* the record in the store, or None
    loop,        \* readLoop: pc, the event's kind and value, the record read
    iv,          \* the interview: pc, attempt, the record read, the name in it
    cancelled,   \* its context
    wanted,      \* an announce has started it
    removing,    \* RemoveDevice is past its cancel
    reported,    \* history: what readLoop stored last of the address and properties
    reports, joins, renames, interviews

counters == <<reports, joins, renames, interviews>>
vars == <<model0, rec, loop, iv, cancelled, wanted, removing, reported, counters>>

Fields(short, name, model, interviewed, props) ==
    [short |-> short, name |-> name, model |-> model, interviewed |-> interviewed, props |-> props]

Idle == [pc |-> "idle", kind |-> None, val |-> 0, copy |-> None]
NoInterview == [pc |-> "idle", attempt |-> 0, copy |-> None, seen |-> None]

Init ==
    /\ model0 \in Models
    /\ rec = None /\ loop = Idle /\ iv = NoInterview
    /\ cancelled = FALSE /\ wanted = FALSE /\ removing = FALSE
    /\ reported = [short |-> 0, props |-> NoProps]
    /\ reports = 0 /\ joins = 0 /\ renames = 0 /\ interviews = 0

CancelInterview == cancelled' = (cancelled \/ iv.pc # "idle")

-----------------------------------------------------------------------------
(* HandleJoin and HandleAnnounce: GetDevice, then SaveDevice of all of it. *)

JoinRead(kind) ==
    /\ loop.pc = "idle" /\ joins < MaxJoins
    /\ joins' = joins + 1
    /\ loop' = [pc |-> "save", kind |-> kind, val |-> joins',
                copy |-> IF rec = None THEN Fields(joins', None, None, FALSE, NoProps)
                         ELSE [rec EXCEPT !.short = joins']]
    /\ UNCHANGED <<model0, rec, iv, cancelled, wanted, removing, reported, reports, renames, interviews>>

\* An announce starts an interview unless one is under way or was a moment ago.
JoinSave ==
    /\ loop.pc = "save"
    /\ rec' = loop.copy
    /\ reported' = [short |-> loop.val, props |-> loop.copy.props]
    /\ wanted' \in {wanted, wanted \/ (loop.kind = "announce" /\ iv.pc = "idle")}
    /\ loop' = Idle
    /\ UNCHANGED <<model0, iv, cancelled, removing, counters>>

\* HandleLeave: cancel, then delete.
LeaveCancel ==
    /\ loop.pc = "idle" /\ rec # None
    /\ CancelInterview
    /\ loop' = [Idle EXCEPT !.pc = "leave"]
    /\ UNCHANGED <<model0, rec, iv, wanted, removing, reported, counters>>

LeaveDelete ==
    /\ loop.pc = "leave"
    /\ rec' = None /\ loop' = Idle
    /\ UNCHANGED <<model0, iv, cancelled, wanted, removing, reported, counters>>

(* HandleAttributeReport and HandleClusterCommand.                         *)

\* The first UpdateDevice: a model reported by the device is kept if there is
\* none yet.
ReportUpdate(kind) ==
    /\ loop.pc = "idle" /\ reports < MaxReports
    /\ reports' = reports + 1
    /\ rec' = IF rec # None /\ rec.model = None /\ kind = "model"
              THEN [rec EXCEPT !.model = model0] ELSE rec
    /\ loop' = [pc |-> "readback", kind |-> kind, val |-> reports', copy |-> None]
    /\ UNCHANGED <<model0, iv, cancelled, wanted, removing, reported, joins, renames, interviews>>

\* Read back; emitStandardProperty for an attribute in standardPropertyMap, or
\* processProperties and processClusterCommandProperties for one that the
\* definition of the model names, else nothing.
ReportReadBack ==
    /\ loop.pc = "readback"
    /\ loop' = IF rec = None THEN Idle
               ELSE IF loop.kind = "std" \/ (loop.kind \in {"tlv", "cmd"} /\ rec.model \in Defs)
               THEN [loop EXCEPT !.pc = "props", !.copy = rec]
               ELSE Idle
    /\ UNCHANGED <<model0, rec, iv, cancelled, wanted, removing, reported, counters>>

\* The properties to store: the one, or with it all of the copy's.
Collected ==
    [p \in Prop |-> IF p = loop.kind THEN loop.val
                    ELSE IF loop.kind = "std" THEN 0 ELSE loop.copy.props[p]]

\* After a standard attribute, processProperties decodes the same value if the
\* definition names the attribute and the value is a string: it writes with
\* what it finds all the properties of the copy read before, the old value of
\* the standard one included.
ReportProps ==
    /\ loop.pc = "props"
    /\ IF rec = None THEN UNCHANGED <<rec, reported>>
       ELSE /\ rec' = [rec EXCEPT !.props = [p \in Prop |-> IF Collected[p] # 0 THEN Collected[p]
                                                            ELSE @[p]]]
            /\ reported' = [reported EXCEPT !.props[loop.kind] = loop.val]
    /\ \/ loop' = Idle
       \/ /\ loop.kind = "std" /\ loop.copy.model \in StdDefs
          /\ loop' = [loop EXCEPT !.kind = "tlv"]
    /\ UNCHANGED <<model0, iv, cancelled, wanted, removing, counters>>

-----------------------------------------------------------------------------
(* Interview.                                                              *)

IvGoto(pc) == iv' = [iv EXCEPT !.pc = pc]
IvEnds     == iv' = NoInterview
IvUnchanged == UNCHANGED <<model0, loop, removing, reported, counters>>

IvStart ==
    /\ wanted /\ iv.pc = "idle" /\ interviews < MaxInterviews
    /\ wanted' = FALSE /\ cancelled' = FALSE
    /\ interviews' = interviews + 1
    /\ iv' = [NoInterview EXCEPT !.pc = "get", !.attempt = 1]
    /\ UNCHANGED <<model0, rec, loop, removing, reported, reports, joins, renames>>

IvGet ==
    /\ iv.pc = "get"
    /\ IF rec = None THEN IvEnds
       ELSE iv' = [iv EXCEPT !.pc = "query", !.copy = rec, !.seen = rec.name]
    /\ IvUnchanged /\ UNCHANGED <<rec, cancelled, wanted>>

\* ActiveEndpoints: answered, or failed; the last failure ends the interview.
IvQuery ==
    /\ iv.pc = "query"
    /\ \/ IvGoto("basic")
       \/ IF cancelled \/ iv.attempt = MaxRetries THEN IvEnds ELSE IvGoto("wait")
    /\ IvUnchanged /\ UNCHANGED <<rec, cancelled, wanted>>

IvWait ==
    /\ iv.pc = "wait"
    /\ \/ iv' = [iv EXCEPT !.pc = "get", !.attempt = @ + 1]
       \/ cancelled /\ IvEnds
    /\ IvUnchanged /\ UNCHANGED <<rec, cancelled, wanted>>

\* readBasicAttributes: what the device answers, else what a report has left in
\* the store meanwhile.  Without endpoints it is not called.
IvBasic ==
    /\ iv.pc = "basic"
    /\ \/ iv' = [iv EXCEPT !.pc = "describe", !.copy.model = model0]
       \/ IvGoto(IF iv.copy.model = None THEN "fallback" ELSE "describe")
       \/ IvGoto("describe")
    /\ IvUnchanged /\ UNCHANGED <<rec, cancelled, wanted>>

IvFallback ==
    /\ iv.pc = "fallback"
    /\ iv' = [iv EXCEPT !.pc = "describe", !.copy.model = IF rec = None THEN None ELSE rec.model]
    /\ IvUnchanged /\ UNCHANGED <<rec, cancelled, wanted>>

\* Mutant of friendlyName: the model is the name whatever the user chose.
nameIsModel(r) ==
    IF r.model \in NamedDefs THEN <<"definition", r.model>>
    ELSE IF r.model # None THEN <<"model", r.model>> ELSE r.name

\* The definition's name, else the one there is, else the model.
friendlyName(r) ==
    IF r.model \in NamedDefs THEN <<"definition", r.model>>
    ELSE IF r.name = None /\ r.model # None THEN <<"model", r.model>>
    ELSE r.name

\* The name, the simple descriptors and configureDevice, then the check of the
\* context.  Endpoints that do not answer are left out, failed bindings and
\* reporting configurations are logged.
IvDescribe ==
    /\ iv.pc = "describe"
    /\ IF cancelled THEN IvEnds
       ELSE iv' = [iv EXCEPT !.pc = "save", !.copy.name = friendlyName(iv.copy)]
    /\ IvUnchanged /\ UNCHANGED <<rec, cancelled, wanted>>

\* Mutant of Merged: the address and properties read at the start are saved too.
WholeCopy(r) ==
    [r EXCEPT !.interviewed = TRUE, !.name = iv.copy.name, !.short = iv.copy.short,
              !.props = iv.copy.props,
              !.model = IF iv.copy.model # None THEN iv.copy.model ELSE @]

\* Mutant of Merged: the model is written even when it was not found out.
EmptyModel(r) == [r EXCEPT !.interviewed = TRUE, !.name = iv.copy.name, !.model = iv.copy.model]

\* What the interview changes in record r.
Merged(r) ==
    [r EXCEPT !.interviewed = TRUE, !.name = iv.copy.name,
              !.model = IF iv.copy.model # None THEN iv.copy.model ELSE @]

IvSave ==
    /\ iv.pc = "save"
    /\ rec' = IF rec = None THEN None ELSE Merged(rec)
    /\ IvEnds
    /\ IvUnchanged /\ UNCHANGED <<cancelled, wanted>>

\* interviewTimeout, or Stop.
IvTimeout ==
    /\ iv.pc # "idle" /\ ~cancelled
    /\ cancelled' = TRUE
    /\ IvUnchanged /\ UNCHANGED <<rec, iv, wanted>>

-----------------------------------------------------------------------------
(* HTTP.                                                                   *)

\* handleAPIRenameDevice: one UpdateDevice.
RenameDevice ==
    /\ rec # None /\ renames < MaxRenames
    /\ renames' = renames + 1
    /\ rec' = [rec EXCEPT !.name = <<"user", renames'>>]
    /\ UNCHANGED <<model0, loop, iv, cancelled, wanted, removing, reported, reports, joins, interviews>>

\* RemoveDevice: the interview is cancelled, the device told to leave, the
\* record deleted.
RemoveCancel ==
    /\ ~removing /\ rec # None
    /\ CancelInterview /\ removing' = TRUE
    /\ UNCHANGED <<model0, rec, loop, iv, wanted, reported, counters>>

RemoveDelete ==
    /\ removing
    /\ rec' = None /\ removing' = FALSE
    /\ UNCHANGED <<model0, loop, iv, cancelled, wanted, reported, counters>>

-----------------------------------------------------------------------------
ReadLoop ==
    \/ \E kind \in {"join", "announce"} : JoinRead(kind)
    \/ JoinSave \/ LeaveCancel \/ LeaveDelete
    \/ \E kind \in Prop \cup {"model"} : ReportUpdate(kind)
    \/ ReportReadBack \/ ReportProps

Interview ==
    \/ IvStart \/ IvGet \/ IvQuery \/ IvWait \/ IvBasic \/ IvFallback \/ IvDescribe \/ IvSave
    \/ IvTimeout

Next == ReadLoop \/ Interview \/ RenameDevice \/ RemoveCancel \/ RemoveDelete

Spec == Init /\ [][Next]_vars

-----------------------------------------------------------------------------
(* Properties.                                                             *)

\* The address and the properties that readLoop stored last are still there
\* when it next looks: an interview that read the record before, and a rename,
\* do not bring back older ones ("to avoid overwriting concurrent updates from
\* HandleAttributeReport", device_manager.go:594).  Only a definition that decodes
\* a standard attribute a second time undoes it, and only that property.
ReportsSurvive ==
    loop.pc = "idle" /\ rec # None =>
        /\ rec.short = reported.short
        /\ \A p \in Prop : \/ rec.props[p] = reported.props[p]
                           \/ p = "std" /\ model0 \in StdDefs

StaysStored == rec # None /\ rec' # None

\* What was found out about a stored device is lost only when HandleJoin or
\* HandleAnnounce saves a record it read before: an interview in which the
\* device did not tell its model keeps the one a report has brought meanwhile.
OnlyJoinForgets ==
    [][StaysStored /\ (\/ rec.model # None /\ rec'.model # rec.model
                       \/ rec.interviewed /\ ~rec'.interviewed)
       => loop.pc = "save" /\ loop'.pc = "idle"]_vars

\* A name is replaced by another rename, by the name in the device's
\* definition, or by someone who read the record before it was given: the
\* interview and HandleJoin or HandleAnnounce write back the name they read.
NameIsReplacedBy ==
    [][StaysStored /\ rec.name # None /\ rec'.name # rec.name
       => \/ renames' # renames
          \/ iv.pc = "save" /\ (iv.copy.model \in NamedDefs \/ iv.seen # rec.name)
          \/ loop.pc = "save" /\ rec' = loop.copy]_vars
=============================================================================
