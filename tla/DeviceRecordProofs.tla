------------------------- MODULE DeviceRecordProofs -------------------------
(***************************************************************************)
(* Proofs about DeviceRecord, for any set of models and definitions and    *)
(* any number of reports, joins, renames and interviews.                   *)
(***************************************************************************)
EXTENDS DeviceRecord, TLAPS

LoopPc == {"idle", "save", "leave", "readback", "props"}
IvPc   == {"idle", "get", "query", "wait", "basic", "fallback", "describe", "save"}
Kind   == Prop \cup {"join", "announce", "model", None}

TypeInv ==
    /\ model0 \in Models
    /\ rec \in Record \cup {None}
    /\ loop \in [pc : LoopPc, kind : Kind, val : Nat, copy : Record \cup {None}]
    /\ iv \in [pc : IvPc, attempt : Nat, copy : Record \cup {None}, seen : Name]
    /\ reported \in [short : Nat, props : [Prop -> Nat]]
    /\ reports \in Nat /\ joins \in Nat /\ renames \in Nat

\* A record or a copy of one says of the model what the device is, or nothing.
ModelInv ==
    /\ rec # None => rec.model \in {None, model0}
    /\ loop.copy # None => loop.copy.model \in {None, model0}
    /\ iv.copy # None => iv.copy.model \in {None, model0}

\* The properties are the same, but for a standard one that the definition of
\* the device decodes too.
SameProps(a, b) == \A p \in Prop : a[p] = b[p] \/ (p = "std" /\ model0 \in StdDefs)

\* What readLoop holds between the steps of a handler: the properties it read
\* are those in the store for as long as the device is there.
LoopInv ==
    /\ loop.pc = "save" => loop.copy # None /\ loop.copy.short = loop.val
    /\ loop.pc = "readback" => loop.val # 0
    /\ loop.pc = "props" => /\ loop.copy # None /\ loop.kind \in Prop /\ loop.val # 0
                            /\ rec # None => SameProps(loop.copy.props, rec.props)

\* At every step of readLoop, not only between handlers.
StoreInv == rec # None => rec.short = reported.short /\ SameProps(rec.props, reported.props)

\* The name in the interview's copy is the one it read, until it chooses one.
IvInv ==
    /\ iv.pc \in {"query", "wait", "basic", "fallback", "describe"} =>
           iv.copy # None /\ iv.copy.name = iv.seen
    /\ iv.pc = "save" =>
           /\ iv.copy # None
           /\ iv.copy.model \in NamedDefs \/ iv.copy.name = iv.seen \/ iv.seen = None

IInv == TypeInv /\ ModelInv /\ LoopInv /\ StoreInv /\ IvInv

-----------------------------------------------------------------------------
(* What the operators on records yield.                                    *)

LEMMA FieldsType ==
    ASSUME NEW n \in Nat
    PROVE  /\ Fields(n, None, None, FALSE, NoProps) \in Record
           /\ Fields(n, None, None, FALSE, NoProps).model = None
           /\ Fields(n, None, None, FALSE, NoProps).short = n
  BY DEF Fields, Record, NoProps, Name

LEMMA FriendlyName ==
    ASSUME NEW r \in Record
    PROVE  /\ friendlyName(r) \in Name
           /\ r.model \in NamedDefs \/ friendlyName(r) = r.name \/ r.name = None
  <1>1. r.model \in Models \cup {None} /\ r.name \in Name
    BY DEF Record
  <1>2. ASSUME NEW m \in Models PROVE <<"definition", m>> \in Name /\ <<"model", m>> \in Name
    BY DEF Name
  <1> QED BY <1>1, <1>2, ModelAssumption DEF friendlyName

LEMMA MergedType ==
    ASSUME NEW r \in Record, iv.copy \in Record
    PROVE  /\ Merged(r) \in Record
           /\ Merged(r).short = r.short /\ Merged(r).props = r.props
           /\ Merged(r).name = iv.copy.name /\ Merged(r).interviewed
           /\ Merged(r).model = IF iv.copy.model # None THEN iv.copy.model ELSE r.model
  BY DEF Merged, Record

LEMMA InitInv == Init => IInv
  <1> SUFFICES ASSUME Init PROVE IInv
    OBVIOUS
  <1>1. NoProps \in [Prop -> Nat] /\ None \in Name
    BY DEF NoProps, Name
  <1> QED BY <1>1 DEF Init, IInv, TypeInv, ModelInv, LoopInv, StoreInv, SameProps, IvInv, Idle, NoInterview,
               LoopPc, IvPc, Kind

-----------------------------------------------------------------------------
(* readLoop.                                                               *)

LEMMA JoinReadInv == ASSUME NEW k \in {"join", "announce"}, IInv, JoinRead(k) PROVE IInv'
  <1> USE DEF IInv
  <1>1. UNCHANGED <<model0, rec, iv, reported, reports, renames>> /\ joins' = joins + 1
    BY DEF JoinRead
  <1> DEFINE c == IF rec = None THEN Fields(joins', None, None, FALSE, NoProps)
                  ELSE [rec EXCEPT !.short = joins']
  <1>2. loop' = [pc |-> "save", kind |-> k, val |-> joins', copy |-> c]
    BY DEF JoinRead
  <1>3. joins' \in Nat
    BY <1>1 DEF TypeInv
  <1>4. c \in Record /\ c.short = joins' /\ c.model \in {None, model0}
    <2>1. CASE rec = None
      BY <2>1, <1>3, FieldsType
    <2>2. CASE rec # None
      BY <2>2, <1>3 DEF TypeInv, ModelInv, Record
    <2> QED BY <2>1, <2>2
  <1>5. c # None
    BY <1>4, ModelAssumption
  <1> HIDE DEF c
  <1>6. TypeInv'
    BY <1>1, <1>2, <1>3, <1>4 DEF TypeInv, LoopPc, Kind
  <1> QED BY <1>1, <1>2, <1>4, <1>5, <1>6 DEF ModelInv, LoopInv, StoreInv, SameProps, IvInv

LEMMA JoinSaveInv == ASSUME IInv, JoinSave PROVE IInv'
  <1> USE DEF IInv
  <1>1. /\ rec' = loop.copy /\ loop' = Idle /\ loop.pc = "save"
        /\ reported' = [short |-> loop.val, props |-> loop.copy.props]
    BY DEF JoinSave
  <1>2. UNCHANGED <<model0, iv, reports, joins, renames>>
    BY DEF JoinSave, counters
  <1>3. loop.copy \in Record /\ loop.copy.props \in [Prop -> Nat] /\ loop.val \in Nat
    BY <1>1 DEF TypeInv, LoopInv, Record
  <1>4. TypeInv'
    BY <1>1, <1>2, <1>3 DEF TypeInv, Idle, LoopPc, Kind
  <1> QED BY <1>1, <1>2, <1>3, <1>4 DEF ModelInv, LoopInv, StoreInv, SameProps, IvInv, Idle

\* The steps of readLoop that change nothing but its own place.
LEMMA LoopMoves ==
    ASSUME IInv, UNCHANGED <<model0, iv, reported, reports, joins, renames>>,
           rec' = rec \/ rec' = None,
           loop' = Idle \/ loop' = [Idle EXCEPT !.pc = "leave"]
    PROVE  IInv'
  BY DEF IInv, TypeInv, ModelInv, LoopInv, StoreInv, SameProps, IvInv, Idle, LoopPc, Kind

LEMMA ReportUpdateInv == ASSUME NEW k \in Prop \cup {"model"}, IInv, ReportUpdate(k) PROVE IInv'
  <1> USE DEF IInv
  <1>1. /\ UNCHANGED <<model0, iv, reported, joins, renames>> /\ reports' = reports + 1
        /\ loop' = [pc |-> "readback", kind |-> k, val |-> reports', copy |-> None]
    BY DEF ReportUpdate
  <1>2. reports' \in Nat /\ reports' # 0
    BY <1>1 DEF TypeInv
  <1>3. /\ rec' \in Record \cup {None} /\ (rec' = None <=> rec = None)
        /\ rec # None => /\ rec'.short = rec.short /\ rec'.props = rec.props
                         /\ rec'.model \in {None, model0}
    <2>1. CASE rec' = rec
      BY <2>1 DEF TypeInv, ModelInv
    <2>2. CASE rec # None /\ rec' = [rec EXCEPT !.model = model0]
      <3>1. rec' \in Record
        BY <2>2 DEF TypeInv, Record
      <3> QED BY <3>1, <2>2, ModelAssumption DEF TypeInv, Record
    <2> QED BY <2>1, <2>2 DEF ReportUpdate
  <1>4. TypeInv'
    <2>1. loop' \in [pc : LoopPc, kind : Kind, val : Nat, copy : Record \cup {None}]
      BY <1>1, <1>2 DEF LoopPc, Kind
    <2>2. rec' \in Record \cup {None}
      BY <1>3
    <2> QED BY <1>1, <1>2, <2>1, <2>2 DEF TypeInv
  <1> QED BY <1>1, <1>2, <1>3, <1>4 DEF ModelInv, LoopInv, StoreInv, SameProps, IvInv

LEMMA ReportReadBackInv == ASSUME IInv, ReportReadBack PROVE IInv'
  <1> USE DEF IInv
  <1>1. UNCHANGED <<model0, rec, iv, reported, reports, joins, renames>> /\ loop.pc = "readback"
    BY DEF ReportReadBack, counters
  <1>2. CASE loop' = Idle
    BY <1>1, <1>2, LoopMoves
  <1>3. CASE /\ loop' = [loop EXCEPT !.pc = "props", !.copy = rec]
             /\ rec # None /\ loop.kind \in Prop
    <2>1. /\ loop'.pc = "props" /\ loop'.copy = rec /\ loop'.kind = loop.kind
          /\ loop'.val = loop.val
          /\ loop' \in [pc : LoopPc, kind : Kind, val : Nat, copy : Record \cup {None}]
      BY <1>3 DEF TypeInv, LoopPc
    <2>2. TypeInv'
      BY <1>1, <2>1 DEF TypeInv
    <2> QED BY <1>1, <1>3, <2>1, <2>2 DEF ModelInv, LoopInv, StoreInv, SameProps, IvInv
  <1> QED BY <1>2, <1>3 DEF ReportReadBack, Prop

LEMMA ReportPropsInv == ASSUME IInv, ReportProps PROVE IInv'
  <1> USE DEF IInv
  <1>1. UNCHANGED <<model0, iv, reports, joins, renames>> /\ loop.pc = "props"
    BY DEF ReportProps, counters
  <1>2. /\ loop \in [pc : LoopPc, kind : Kind, val : Nat, copy : Record \cup {None}]
        /\ loop.kind \in Prop /\ loop.val \in Nat \ {0}
        /\ loop.copy # None /\ loop.copy \in Record
        /\ rec # None => SameProps(loop.copy.props, rec.props)
    BY <1>1 DEF LoopInv, TypeInv
  \* Where readLoop is afterwards.
  <1>3. /\ loop' \in [pc : LoopPc, kind : Kind, val : Nat, copy : Record \cup {None}]
        /\ loop'.copy # None => loop'.copy.model \in {None, model0}
        /\ loop'.pc \in {"idle", "props"}
        /\ loop'.pc = "props" =>
              /\ loop'.copy = loop.copy /\ loop'.kind = "tlv" /\ loop'.val = loop.val
              /\ loop.kind = "std" /\ model0 \in StdDefs
    <2>1. CASE loop' = Idle
      BY <2>1 DEF Idle, LoopPc, Kind
    <2>2. CASE /\ loop.kind = "std" /\ loop.copy.model \in StdDefs
               /\ loop' = [loop EXCEPT !.kind = "tlv"]
      <3>1. loop.copy.model = model0
        BY <1>2, <2>2, ModelAssumption DEF ModelInv
      <3>2. /\ loop' \in [pc : LoopPc, kind : Kind, val : Nat, copy : Record \cup {None}]
            /\ loop'.copy = loop.copy /\ loop'.kind = "tlv" /\ loop'.val = loop.val
            /\ loop'.pc = "props"
        BY <1>1, <1>2, <2>2 DEF Kind, Prop
      <3> QED BY <2>2, <3>1, <3>2
    <2> QED BY <2>1, <2>2 DEF ReportProps
  <1>4. CASE rec = None
    <2>1. rec' = None /\ reported' = reported
      BY <1>4 DEF ReportProps
    <2>2. TypeInv'
      BY <1>1, <1>3, <2>1 DEF TypeInv
    <2> QED BY <1>1, <1>2, <1>3, <2>1, <2>2 DEF ModelInv, LoopInv, StoreInv, IvInv, Prop
  <1>5. CASE rec # None
    <2> DEFINE new == [p \in Prop |-> IF Collected[p] # 0 THEN Collected[p] ELSE rec.props[p]]
    <2>1. /\ rec' = [rec EXCEPT !.props = new]
          /\ reported' = [reported EXCEPT !.props[loop.kind] = loop.val]
      BY <1>5 DEF ReportProps
    <2>2. /\ rec \in Record /\ rec.props \in [Prop -> Nat] /\ rec.short = reported.short
          /\ SameProps(rec.props, reported.props) /\ SameProps(loop.copy.props, rec.props)
          /\ loop.copy.props \in [Prop -> Nat] /\ reported.props \in [Prop -> Nat]
      BY <1>2, <1>5 DEF StoreInv, TypeInv, Record
    <2>3. new[loop.kind] = loop.val
      BY <1>2 DEF Collected
    <2>4. \A p \in Prop : new[p] = rec.props[p] \/ new[p] = loop.copy.props[p] \/ p = loop.kind
      BY <1>2 DEF Collected
    \* While the standard attribute is stored nothing else is.
    <2>5. loop.kind = "std" => \A p \in Prop : new[p] = rec.props[p] \/ p = "std"
      BY DEF Collected
    <2>6. new \in [Prop -> Nat]
      BY <1>2, <2>2 DEF Collected
    <2> HIDE DEF new
    <2>7. /\ rec' \in Record /\ rec'.props = new /\ rec'.short = rec.short
          /\ rec'.model = rec.model
      BY <2>1, <2>2, <2>6 DEF Record
    <2>8. /\ reported' \in [short : Nat, props : [Prop -> Nat]]
          /\ reported'.short = reported.short
          /\ reported'.props = [reported.props EXCEPT ![loop.kind] = loop.val]
      BY <1>2, <2>1, <2>2 DEF TypeInv
    <2>9. TypeInv'
      BY <1>1, <1>3, <2>7, <2>8 DEF TypeInv
    <2>10. SameProps(new, reported'.props)
      BY <1>2, <2>2, <2>3, <2>4, <2>8 DEF SameProps
    <2>11. loop'.pc = "props" => SameProps(loop.copy.props, new)
      BY <1>2, <1>3, <2>2, <2>4 DEF SameProps
    <2>12. StoreInv' /\ LoopInv'
      BY <1>1, <1>2, <1>3, <2>2, <2>7, <2>8, <2>10, <2>11
         DEF StoreInv, LoopInv, SameProps, Prop
    <2> QED BY <1>1, <1>3, <1>5, <2>7, <2>9, <2>12 DEF ModelInv, IvInv
  <1> QED BY <1>4, <1>5

-----------------------------------------------------------------------------
(* The interview and HTTP.                                                 *)

\* The steps of the interview that leave the record alone.
LEMMA IvMoves ==
    ASSUME IInv, UNCHANGED <<model0, rec, loop, reported, reports, joins, renames>>,
           iv' \in [pc : IvPc, attempt : Nat, copy : Record \cup {None}, seen : Name],
           iv'.copy # None => iv'.copy.model \in {None, model0}, IvInv'
    PROVE  IInv'
  <1>1. TypeInv'
    BY DEF IInv, TypeInv
  <1> QED BY <1>1 DEF IInv, ModelInv, LoopInv, StoreInv, SameProps

LEMMA IvEndsInv ==
    ASSUME IInv, UNCHANGED <<model0, rec, loop, reported, reports, joins, renames>>, IvEnds
    PROVE  IInv'
  <1>1. /\ iv' \in [pc : IvPc, attempt : Nat, copy : Record \cup {None}, seen : Name]
        /\ iv'.copy = None /\ iv'.pc = "idle"
    BY DEF IvEnds, NoInterview, IvPc, Name
  <1> QED BY <1>1, IvMoves DEF IvInv

LEMMA IvGotoInv ==
    ASSUME IInv, UNCHANGED <<model0, rec, loop, reported, reports, joins, renames>>,
           iv.pc \in {"query", "wait", "basic", "fallback", "describe"},
           NEW p \in {"wait", "basic", "fallback", "describe"}, IvGoto(p)
    PROVE  IInv'
  <1>1. /\ iv' \in [pc : IvPc, attempt : Nat, copy : Record \cup {None}, seen : Name]
        /\ iv'.copy = iv.copy /\ iv'.seen = iv.seen /\ iv'.pc = p
    BY DEF IInv, TypeInv, IvGoto, IvPc
  <1> QED BY <1>1, IvMoves DEF IInv, ModelInv, IvInv

\* The interview has learned the model.
LEMMA IvLearns ==
    ASSUME IInv, UNCHANGED <<model0, rec, loop, reported, reports, joins, renames>>,
           iv.pc \in {"basic", "fallback"}, NEW m \in {None, model0},
           iv' = [iv EXCEPT !.pc = "describe", !.copy.model = m]
    PROVE  IInv'
  <1>1. iv.copy \in Record /\ iv.copy # None /\ iv.copy.name = iv.seen
    BY DEF IInv, IvInv, TypeInv
  <1>2. iv' = [iv EXCEPT !.pc = "describe", !.copy = [iv.copy EXCEPT !.model = m]]
    BY DEF IInv, TypeInv
  <1>3. /\ [iv.copy EXCEPT !.model = m] \in Record
        /\ [iv.copy EXCEPT !.model = m].name = iv.copy.name
        /\ [iv.copy EXCEPT !.model = m].model = m
    BY <1>1 DEF Record, IInv, TypeInv
  <1>4. [iv.copy EXCEPT !.model = m] # None
    BY <1>3, ModelAssumption
  <1>5. /\ iv' \in [pc : IvPc, attempt : Nat, copy : Record \cup {None}, seen : Name]
        /\ iv'.copy = [iv.copy EXCEPT !.model = m] /\ iv'.seen = iv.seen /\ iv'.pc = "describe"
    BY <1>2, <1>3 DEF IInv, TypeInv, IvPc
  <1> QED BY <1>1, <1>3, <1>4, <1>5, IvMoves DEF IvInv

LEMMA IvStepInv ==
    ASSUME IInv, IvStart \/ IvGet \/ IvQuery \/ IvWait \/ IvBasic \/ IvFallback \/ IvDescribe
    PROVE  IInv'
  <1>0. UNCHANGED <<model0, rec, loop, reported, reports, joins, renames>>
    BY DEF IvStart, IvGet, IvQuery, IvWait, IvBasic, IvFallback, IvDescribe, IvUnchanged, counters
  <1>1. CASE IvStart
    <2>1. /\ iv' \in [pc : IvPc, attempt : Nat, copy : Record \cup {None}, seen : Name]
          /\ iv'.copy = None /\ iv'.pc = "get"
      BY <1>1 DEF IvStart, NoInterview, IvPc, Name
    <2> QED BY <1>0, <2>1, IvMoves DEF IvInv
  <1>2. CASE IvGet
    <2>1. CASE rec = None
      BY <1>0, <1>2, <2>1, IvEndsInv DEF IvGet
    <2>2. CASE rec # None
      <3>1. rec \in Record /\ rec.name \in Name
        BY <2>2 DEF IInv, TypeInv, Record
      <3>2. /\ iv' \in [pc : IvPc, attempt : Nat, copy : Record \cup {None}, seen : Name]
            /\ iv'.copy = rec /\ iv'.pc = "query" /\ iv'.seen = rec.name
        BY <1>2, <2>2, <3>1 DEF IvGet, IInv, TypeInv, IvPc
      <3> QED BY <1>0, <2>2, <3>2, IvMoves DEF IvInv, IInv, ModelInv
    <2> QED BY <2>1, <2>2
  <1>3. CASE IvQuery
    BY <1>0, <1>3, IvGotoInv, IvEndsInv DEF IvQuery
  <1>4. CASE IvWait
    <2>1. CASE iv' = [iv EXCEPT !.pc = "get", !.attempt = @ + 1]
      <3>0. iv.attempt + 1 \in Nat /\ iv' = [iv EXCEPT !.pc = "get", !.attempt = iv.attempt + 1]
        BY <2>1 DEF IInv, TypeInv
      <3>1. /\ iv' \in [pc : IvPc, attempt : Nat, copy : Record \cup {None}, seen : Name]
            /\ iv'.copy = iv.copy /\ iv'.pc = "get"
        BY <3>0 DEF IInv, TypeInv, IvPc
      <3> QED BY <1>0, <3>1, IvMoves DEF IvInv, IInv, ModelInv
    <2> QED BY <1>0, <1>4, <2>1, IvEndsInv DEF IvWait
  <1>5. CASE IvBasic
    <2>1. CASE iv' = [iv EXCEPT !.pc = "describe", !.copy.model = model0]
      BY <1>0, <1>5, <2>1, IvLearns DEF IvBasic
    <2>2. CASE IvGoto("fallback") \/ IvGoto("describe")
      BY <1>0, <1>5, <2>2, IvGotoInv DEF IvBasic
    <2> QED BY <1>5, <2>1, <2>2 DEF IvBasic
  <1>6. CASE IvFallback
    <2> DEFINE m == IF rec = None THEN None ELSE rec.model
    <2>1. m \in {None, model0}
      BY DEF IInv, ModelInv
    <2>2. iv.pc = "fallback" /\ iv' = [iv EXCEPT !.pc = "describe", !.copy.model = m]
      BY <1>6 DEF IvFallback
    <2> HIDE DEF m
    <2> QED BY <1>0, <2>1, <2>2, IvLearns
  <1>7. CASE IvDescribe
    <2>1. CASE IvEnds
      BY <1>0, <2>1, IvEndsInv
    <2>2. CASE iv' = [iv EXCEPT !.pc = "save", !.copy.name = friendlyName(iv.copy)]
      <3> DEFINE c == [iv.copy EXCEPT !.name = friendlyName(iv.copy)]
      <3>1. iv.copy \in Record /\ iv.copy # None /\ iv.copy.name = iv.seen
        BY <1>7 DEF IvDescribe, IInv, IvInv, TypeInv
      <3>2. /\ friendlyName(iv.copy) \in Name
            /\ iv.copy.model \in NamedDefs \/ friendlyName(iv.copy) = iv.seen \/ iv.seen = None
        BY <3>1, FriendlyName
      <3>3. c \in Record /\ c.name = friendlyName(iv.copy) /\ c.model = iv.copy.model
        BY <3>1, <3>2 DEF Record
      <3>4. c # None
        BY <3>3, ModelAssumption
      <3>5. iv' = [iv EXCEPT !.pc = "save", !.copy = c]
        BY <2>2 DEF IInv, TypeInv
      <3> HIDE DEF c
      <3>6. /\ iv' \in [pc : IvPc, attempt : Nat, copy : Record \cup {None}, seen : Name]
            /\ iv'.copy = c /\ iv'.seen = iv.seen /\ iv'.pc = "save"
        BY <3>3, <3>5 DEF IInv, TypeInv, IvPc
      <3>7. IvInv'
        BY <3>2, <3>3, <3>4, <3>6 DEF IvInv
      <3>8. iv'.copy.model \in {None, model0}
        BY <3>1, <3>3, <3>6 DEF IInv, ModelInv
      <3> QED BY <1>0, <3>6, <3>7, <3>8, IvMoves
    <2> QED BY <1>7, <2>1, <2>2 DEF IvDescribe
  <1> QED BY <1>1, <1>2, <1>3, <1>4, <1>5, <1>6, <1>7

LEMMA IvSaveInv == ASSUME IInv, IvSave PROVE IInv'
  <1>0. UNCHANGED <<model0, loop, reported, reports, joins, renames>> /\ IvEnds /\ iv.pc = "save"
    BY DEF IvSave, IvUnchanged, counters
  <1>1. CASE rec = None
    BY <1>0, <1>1, IvEndsInv DEF IvSave
  <1>2. CASE rec # None
    <2>1. rec \in Record /\ iv.copy \in Record /\ iv.copy # None
      BY <1>0, <1>2 DEF IInv, TypeInv, IvInv
    <2>2. rec' = Merged(rec)
      BY <1>2 DEF IvSave
    <2>3. rec' \in Record /\ rec'.short = rec.short /\ rec'.props = rec.props
      BY <2>1, <2>2, MergedType
    <2>4. rec'.model \in {None, model0}
      BY <1>2, <2>1, <2>2, MergedType DEF IInv, ModelInv
    <2>5. /\ iv' \in [pc : IvPc, attempt : Nat, copy : Record \cup {None}, seen : Name]
          /\ iv'.copy = None /\ iv'.pc = "idle"
      BY <1>0 DEF IvEnds, NoInterview, IvPc, Name
    <2>6. TypeInv'
      BY <1>0, <2>3, <2>5 DEF IInv, TypeInv
    <2> QED BY <1>0, <1>2, <2>3, <2>4, <2>5, <2>6 DEF IInv, ModelInv, LoopInv, StoreInv, SameProps, IvInv
  <1> QED BY <1>1, <1>2

LEMMA RenameInv == ASSUME IInv, RenameDevice PROVE IInv'
  <1>1. /\ UNCHANGED <<model0, loop, iv, reported, reports, joins>> /\ renames' = renames + 1
        /\ rec # None /\ rec' = [rec EXCEPT !.name = <<"user", renames'>>]
    BY DEF RenameDevice
  <1>2. renames' \in Nat
    BY <1>1 DEF IInv, TypeInv
  <1>3. <<"user", renames'>> \in Name
    BY <1>2 DEF Name
  <1>4. /\ rec' \in Record /\ rec'.short = rec.short /\ rec'.props = rec.props
        /\ rec'.model = rec.model
    BY <1>1, <1>3 DEF IInv, TypeInv, Record
  <1>5. TypeInv'
    BY <1>1, <1>2, <1>4 DEF IInv, TypeInv
  <1> QED BY <1>1, <1>4, <1>5 DEF IInv, ModelInv, LoopInv, StoreInv, SameProps, IvInv

\* The other steps leave all of this alone, or delete the record.
LEMMA OtherInv ==
    ASSUME IInv, IvTimeout \/ RemoveCancel \/ RemoveDelete \/ UNCHANGED vars
    PROVE  IInv'
  <1>1. /\ UNCHANGED <<model0, loop, iv, reported, reports, joins, renames>>
        /\ rec' = rec \/ rec' = None
    BY DEF IvTimeout, IvUnchanged, RemoveCancel, RemoveDelete, vars, counters
  <1> QED BY <1>1 DEF IInv, TypeInv, ModelInv, LoopInv, StoreInv, SameProps, IvInv

LEMMA NextInv == IInv /\ [Next]_vars => IInv'
  <1> SUFFICES ASSUME IInv, [Next]_vars PROVE IInv'
    OBVIOUS
  <1>1. CASE ReadLoop
    <2>1. CASE LeaveCancel \/ LeaveDelete
      <3>1. /\ UNCHANGED <<model0, iv, reported, reports, joins, renames>>
            /\ rec' = rec \/ rec' = None
            /\ loop' = Idle \/ loop' = [Idle EXCEPT !.pc = "leave"]
        BY <2>1 DEF LeaveCancel, LeaveDelete, counters
      <3> QED BY <3>1, LoopMoves
    <2> QED BY <1>1, <2>1, JoinReadInv, JoinSaveInv, ReportUpdateInv, ReportReadBackInv,
                 ReportPropsInv DEF ReadLoop
  <1>2. CASE Interview
    BY <1>2, IvStepInv, IvSaveInv, OtherInv DEF Interview
  <1>3. CASE RenameDevice \/ RemoveCancel \/ RemoveDelete \/ UNCHANGED vars
    BY <1>3, RenameInv, OtherInv
  <1> QED BY <1>1, <1>2, <1>3 DEF Next

LEMMA Invariance == Spec => []IInv
  BY InitInv, NextInv, PTL DEF Spec

-----------------------------------------------------------------------------
(* Theorems.                                                               *)

\* Whatever an interview, a rename or a removal does between the steps of
\* readLoop, the address and the properties it stored last are what the record
\* holds when it next looks; but for a standard property under a definition that
\* decodes its attribute a second time.
THEOREM ReportsAreKept == Spec => []ReportsSurvive
  <1>1. IInv => ReportsSurvive
    BY DEF IInv, StoreInv, SameProps, ReportsSurvive
  <1> QED BY <1>1, Invariance, PTL

\* Who writes the record of a device that stays stored, and what becomes of the
\* fields the two action properties are about.
LEMMA Writers ==
    ASSUME IInv, [Next]_vars, StaysStored, rec' # rec
    PROVE  \/ JoinSave
           \/ IvSave /\ rec' = Merged(rec)
           \/ RenameDevice
           \/ \E k \in Prop \cup {"model"} : ReportUpdate(k)
           \/ ReportProps
  BY DEF Next, ReadLoop, Interview, StaysStored, vars, JoinRead, LeaveCancel, LeaveDelete,
         ReportReadBack, IvStart, IvGet, IvQuery, IvWait, IvBasic, IvFallback, IvDescribe, IvSave,
         IvTimeout, IvUnchanged, RemoveCancel, RemoveDelete

\* A report changes neither the name nor that the device was interviewed, and
\* the model only where there was none.
LEMMA ReportKeeps ==
    ASSUME IInv, rec # None, ReportProps \/ \E k \in Prop \cup {"model"} : ReportUpdate(k)
    PROVE  /\ rec'.name = rec.name /\ rec'.interviewed = rec.interviewed
           /\ rec.model # None => rec'.model = rec.model
  BY DEF IInv, TypeInv, Record, ReportProps, ReportUpdate

LEMMA RenameKeeps ==
    ASSUME IInv, RenameDevice
    PROVE  rec'.model = rec.model /\ rec'.interviewed = rec.interviewed /\ renames' # renames
  BY DEF IInv, TypeInv, Record, RenameDevice

LEMMA IvSaveKeeps ==
    ASSUME IInv, IvSave, rec # None
    PROVE  /\ rec.model # None => rec'.model = rec.model
           /\ rec'.interviewed
           /\ \/ rec.name = None \/ rec'.name = rec.name
              \/ iv.copy.model \in NamedDefs \/ iv.seen # rec.name
  <1>1. rec \in Record /\ iv.copy \in Record /\ iv.copy # None
    BY DEF IInv, TypeInv, IvInv, IvSave
  <1>2. rec' = Merged(rec)
    BY DEF IvSave
  <1>3. model0 # None
    BY ModelAssumption DEF IInv, TypeInv
  <1>4. /\ rec'.name = iv.copy.name /\ rec'.interviewed
        /\ rec'.model = IF iv.copy.model # None THEN iv.copy.model ELSE rec.model
    BY <1>1, <1>2, MergedType
  <1>5. rec.model # None => rec'.model = rec.model
    BY <1>1, <1>4 DEF IInv, ModelInv
  <1>6. \/ rec.name = None \/ rec'.name = rec.name
        \/ iv.copy.model \in NamedDefs \/ iv.seen # rec.name
    BY <1>4 DEF IInv, IvInv, IvSave
  <1> QED BY <1>4, <1>5, <1>6

\* The model and the interviewed mark of a stored device are lost to a stale
\* join or announce only.
THEOREM OnlyJoinForgetsHolds == Spec => OnlyJoinForgets
  <1>1. ASSUME IInv, [Next]_vars, StaysStored,
               \/ rec.model # None /\ rec'.model # rec.model
               \/ rec.interviewed /\ ~rec'.interviewed
        PROVE  loop.pc = "save" /\ loop'.pc = "idle"
    <2>1. rec' # rec /\ rec # None
      BY <1>1 DEF StaysStored
    <2>2. JoinSave
      BY <1>1, <2>1, Writers, ReportKeeps, RenameKeeps, IvSaveKeeps
    <2> QED BY <2>2 DEF JoinSave, Idle
  <1> QED BY <1>1, Invariance, PTL DEF Spec, OnlyJoinForgets

\* A name is replaced by a rename, by a definition's name, or by one who read
\* the record before.
THEOREM NameIsReplacedByHolds == Spec => NameIsReplacedBy
  <1>1. ASSUME IInv, [Next]_vars, StaysStored, rec.name # None, rec'.name # rec.name
        PROVE  \/ renames' # renames
               \/ iv.pc = "save" /\ (iv.copy.model \in NamedDefs \/ iv.seen # rec.name)
               \/ loop.pc = "save" /\ rec' = loop.copy
    <2>1. rec' # rec /\ rec # None
      BY <1>1 DEF StaysStored
    <2>2. CASE JoinSave
      BY <2>2 DEF JoinSave
    <2>3. CASE IvSave
      <3>1. iv.pc = "save"
        BY <2>3 DEF IvSave
      <3> QED BY <1>1, <2>1, <2>3, <3>1, IvSaveKeeps
    <2>4. CASE RenameDevice
      BY <1>1, <2>4, RenameKeeps
    <2> QED BY <1>1, <2>1, <2>2, <2>3, <2>4, Writers, ReportKeeps
  <1> QED BY <1>1, Invariance, PTL DEF Spec, NameIsReplacedBy
=============================================================================
