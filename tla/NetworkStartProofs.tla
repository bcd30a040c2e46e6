------------------------- MODULE NetworkStartProofs -------------------------
(***************************************************************************)
(* Proofs about NetworkStart for every set of parameters and any number of *)
(* runs of the process.                                                    *)
(***************************************************************************)
EXTENDS NetworkStart, TLAPS

Formed   == {"pan", "start", "save"}  \* FormNetwork's formation succeeded
Resuming == {"rReset", "rInit", "rStart"}

\* What Start knows at each program point.
ProgressInv ==
    /\ pc # "down" => cfg \in Param
    /\ pc \in Resuming => disk # None /\ disk.param = cfg
    /\ pc \in Formed \cup {"form"} => info \in Key
    /\ pc \in Formed => nv # None /\ nv.param = cfg /\ nv.key = info
    /\ pc \in {"start", "save"} => nv.pan
    /\ pc = "save" => run

\* Keys are generated once: the key being formed with is not yet on disk.
FreshInv ==
    /\ disk # None => disk.key <= keys
    /\ pc \in Formed \cup {"form"} => info <= keys
    /\ pc \in Formed \cup {"form"} /\ disk # None => disk.key < info

IInv == TypeOK /\ ProgressInv /\ FreshInv /\ SavedKeyNamesNetwork

\* A step of Start, a boot or the end of the process preserves the invariant.
LEMMA StepKeeps ==
    ASSUME IInv, Next
    PROVE  IInv'
<1>. USE NoneAssumption
     DEF IInv, TypeOK, ProgressInv, FreshInv, SavedKeyNamesNetwork, Network, SavedNet,
         StartPc, Formed, Resuming, Goto, Exits
<1>1. ASSUME NEW p \in Param, Boot(p) PROVE IInv'
  BY <1>1 DEF Boot
<1>2. CASE Killed
  BY <1>2 DEF Killed
<1>3. CASE canResumeNetwork
  BY <1>3 DEF canResumeNetwork
<1>4. CASE ResumeReset \/ ResumeInit
  BY <1>4 DEF ResumeReset, ResumeInit
<1>5. CASE ResumeStart
  BY <1>5 DEF ResumeStart
<1>6. CASE Reset \/ InitNCP
  BY <1>6 DEF Reset, InitNCP
<1>7. CASE SetKey
  <2>1. /\ pc = "key" /\ keys' = keys + 1 /\ UNCHANGED <<disk, nv, run>>
        /\ keys \in Nat /\ keys + 1 \in Key
    BY <1>7 DEF SetKey, Key
  <2>2. disk # None => disk.key \in Nat /\ disk.key < keys + 1
    BY <2>1 DEF Key
  <2>3. CASE pc' = "form" /\ info' = keys + 1 /\ UNCHANGED <<cfg, factory>>
    BY <2>1, <2>2, <2>3
  <2>4. CASE FormFails
    <3>1. FreshInv'
      BY <2>1, <2>2, <2>4 DEF FormFails
    <3>2. TypeOK'
      <4>1. keys' \in Nat
        BY <2>1
      <4>2. pc' \in StartPc /\ cfg' \in Param \cup {None} /\ info' \in Key \cup {None}
        BY <2>1, <2>4 DEF FormFails
      <4>3. factory' \in BOOLEAN /\ run' \in BOOLEAN
        BY <2>1, <2>4 DEF FormFails
      <4>. QED
        BY <2>1, <4>1, <4>2, <4>3
    <3>3. ProgressInv' /\ SavedKeyNamesNetwork'
      BY <2>1, <2>4 DEF FormFails
    <3>. QED
      BY <3>1, <3>2, <3>3
  <2>. QED
    BY <1>7, <2>3, <2>4 DEF SetKey
<1>8. CASE Formation
  <2>. DEFINE formed == [param |-> cfg, key |-> info, pan |-> FALSE]
  <2>1. formed \in Network /\ formed.param = cfg /\ formed.key = info /\ ~formed.pan
    BY <1>8 DEF Formation
  <2>2. nv' \in {nv, formed} /\ UNCHANGED <<disk, run, keys>>
    BY <1>8 DEF Formation
  <2>3. disk # None => disk.key # formed.key
    BY <1>8, <2>1 DEF Formation, Key
  <2>. HIDE DEF formed
  <2>4. CASE pc' = "pan" /\ nv' = formed /\ UNCHANGED <<cfg, info, factory>>
    BY <1>8, <2>1, <2>2, <2>3, <2>4 DEF Formation
  <2>5. CASE FormFails
    BY <1>8, <2>1, <2>2, <2>3, <2>5 DEF Formation, FormFails
  <2>. QED
    BY <1>8, <2>4, <2>5 DEF Formation, formed
<1>9. CASE SetPanID
  <2>. DEFINE complete == [nv EXCEPT !.pan = TRUE]
  <2>1. nv # None /\ complete \in Network
        /\ complete.param = nv.param /\ complete.key = nv.key /\ complete.pan
    BY <1>9 DEF SetPanID
  <2>2. nv' \in {nv, complete} /\ UNCHANGED <<disk, run, keys>>
    BY <1>9 DEF SetPanID
  <2>3. disk # None => disk.key # nv.key
    BY <1>9 DEF SetPanID, Key
  <2>. HIDE DEF complete
  <2>4. CASE pc' = "start" /\ nv' = complete /\ UNCHANGED <<cfg, info, factory>>
    BY <1>9, <2>1, <2>2, <2>3, <2>4 DEF SetPanID
  <2>5. CASE FormFails
    BY <1>9, <2>1, <2>2, <2>3, <2>5 DEF SetPanID, FormFails
  <2>. QED
    BY <1>9, <2>4, <2>5 DEF SetPanID, complete
<1>10. CASE StartNetwork
  BY <1>10 DEF StartNetwork
<1>11. CASE saveNetworkState
  BY <1>11 DEF saveNetworkState
<1>. QED
  BY <1>1, <1>2, <1>3, <1>4, <1>5, <1>6, <1>7, <1>8, <1>9, <1>10, <1>11 DEF Next

\* The invariant holds in every reachable state.
THEOREM Invariant == Spec => []IInv
<1>1. Init => IInv
  <2>1. Init => TypeOK
    <3>1. Init => keys \in Nat
      BY DEF Init
    <3>2. Init => run \in BOOLEAN /\ factory \in BOOLEAN
      BY DEF Init
    <3>. QED
      BY <3>1, <3>2, Zenon DEF Init, TypeOK, StartPc
  <2>2. Init => ProgressInv /\ FreshInv /\ SavedKeyNamesNetwork
    BY DEF Init, ProgressInv, FreshInv, SavedKeyNamesNetwork, Formed, Resuming
  <2>. QED
    BY <2>1, <2>2 DEF IInv
<1>2. IInv /\ [Next]_vars => IInv'
  <2>1. ASSUME IInv, UNCHANGED vars PROVE IInv'
    BY <2>1 DEF vars, IInv, TypeOK, ProgressInv, FreshInv, SavedKeyNamesNetwork
  <2>. QED
    BY <2>1, StepKeeps
<1>. QED
  BY <1>1, <1>2, PTL DEF Spec

\* Every variable keeps its type, whatever step of Start is cut short.
THEOREM TypeCorrect == Spec => []TypeOK
<1>1. IInv => TypeOK
  BY DEF IInv
<1>. QED
  BY <1>1, Invariant, PTL

\* A saved record names the key and the parameters of one network, and when
\* the coprocessor still has that network a successful Start runs it as
\* configured, whatever runs of Start were cut short before.
THEOREM SavedKeyIsSound == Spec => []SavedKeyNamesNetwork
<1>1. IInv => SavedKeyNamesNetwork
  BY DEF IInv
<1>. QED
  BY <1>1, Invariant, PTL
=============================================================================
