---------------------------- MODULE NetworkStart ----------------------------
(***************************************************************************)
(* Bringing the network up: Coordinator.Start (internal/coordinator/       *)
(* coordinator.go) with the NCP calls it makes (FormNetwork, StartNetwork, *)
(* Init of internal/ncp/nrf52840.go) and the network state in the          *)
(* database, over many runs of the process, which may be killed at any     *)
(* step and whose configuration may be edited in between.                  *)
(*                                                                         *)
(* Channel, PAN ID and extended PAN ID are one parameter.  Network keys    *)
(* come from crypto/rand and never repeat: they are numbers.  The          *)
(* coprocessor is external: it keeps the formed network in NVRAM through   *)
(* Reset and loses it in FactoryReset, and a command that returned an      *)
(* error may have been carried out.                                        *)
(***************************************************************************)
EXTENDS Naturals

CONSTANTS
    Param,      \* (channel, PAN ID, extended PAN ID)
    MaxKeys,    \* bound: keys generated in a behaviour
    None

Key      == Nat \ {0}
Network  == [param : Param, key : Key, pan : BOOLEAN]  \* pan: its PAN ID was set
SavedNet == [param : Param, key : Key]

ASSUME KeyAssumption  == MaxKeys \in Nat
ASSUME NoneAssumption == None \notin Network \cup SavedNet \cup Param \cup Key

VARIABLES
    disk,      \* the network bucket: what saveNetworkState wrote
    nv, run,   \* the coprocessor: NVRAM, and whether the network is started
    pc, cfg,   \* Start, and the configuration of this run of the process
    info,      \* NRF52840NCP.ncpInfo.NetworkKey
    factory,   \* Start is in its second try, after FactoryReset
    keys       \* the keys generated so far

vars == <<disk, nv, run, pc, cfg, info, factory, keys>>

StartPc == {"down", "check", "rReset", "rInit", "rStart",
            "reset", "init", "key", "form", "pan", "start", "save", "up"}

TypeOK ==
    /\ disk \in SavedNet \cup {None}
    /\ nv \in Network \cup {None}
    /\ run \in BOOLEAN
    /\ pc \in StartPc
    /\ cfg \in Param \cup {None}
    /\ info \in Key \cup {None}
    /\ factory \in BOOLEAN
    /\ keys \in Nat

Init ==
    /\ disk = None
    /\ nv = None /\ run = FALSE
    /\ pc = "down" /\ cfg = None /\ info = None /\ factory = FALSE
    /\ keys = 0

-----------------------------------------------------------------------------
Goto(from, to) == pc = from /\ pc' = to

\* The process ends: killed or stopped at any step, or by os.Exit(1) when
\* Start returns an error.  The coprocessor stays as it is.
Exits == pc' = "down" /\ cfg' = None /\ info' = None /\ factory' = FALSE

Boot(p) ==
    /\ Goto("down", "check")
    /\ cfg' = p
    /\ UNCHANGED <<disk, nv, run, info, factory, keys>>

Killed ==
    /\ pc # "down"
    /\ Exits
    /\ UNCHANGED <<disk, nv, run, keys>>

\* An error of GetNetworkState counts as "cannot resume", too.
canResumeNetwork ==
    /\ \/ disk # None /\ disk.param = cfg /\ Goto("check", "rReset")
       \/ Goto("check", "reset")       \* no match, or a database error
    /\ UNCHANGED <<disk, nv, run, cfg, info, factory, keys>>

(* Resuming.  An error of Reset or Init ends the process: Killed.          *)

ResumeReset ==
    /\ Goto("rReset", "rInit")
    /\ run' = FALSE
    /\ UNCHANGED <<disk, nv, cfg, info, factory, keys>>

ResumeInit ==
    /\ Goto("rInit", "rStart")
    /\ info' \in {None, info}
    /\ UNCHANGED <<disk, nv, run, cfg, factory, keys>>

\* StartNetwork succeeds, or fails before or after the network is started.
ResumeStart ==
    /\ \/ Goto("rStart", "up") /\ nv # None /\ run' = TRUE
       \/ Goto("rStart", "reset") /\ run' \in {run, nv # None}
    /\ UNCHANGED <<disk, nv, cfg, info, factory, keys>>

(* Forming.                                                                *)

\* Reset, or FactoryReset in the second try.
Reset ==
    /\ Goto("reset", "init")
    /\ run' = FALSE
    /\ nv' = IF factory THEN None ELSE nv
    /\ UNCHANGED <<disk, cfg, info, factory, keys>>

\* n.ncpInfo = NCPInfo{...} forgets the key of a failed formation, unless the
\* version response is too short.
InitNCP ==
    /\ Goto("init", "key")
    /\ info' \in {None, info}
    /\ UNCHANGED <<disk, nv, run, cfg, factory, keys>>

\* FormNetwork returns an error: once more after FactoryReset, then no more.
FormFails ==
    IF factory THEN Exits
    ELSE pc' = "reset" /\ factory' = TRUE /\ UNCHANGED <<cfg, info>>

\* Mutant of SetKey: ncpInfo does not get the key.
SetKeyUnrecorded ==
    /\ pc = "key" /\ keys < MaxKeys
    /\ keys' = keys + 1
    /\ \/ pc' = "form" /\ UNCHANGED <<cfg, info, factory>>
       \/ FormFails
    /\ UNCHANGED <<disk, nv, run>>

\* FormNetwork up to step 4, a new random key.
SetKey ==
    /\ pc = "key" /\ keys < MaxKeys
    /\ keys' = keys + 1
    /\ \/ pc' = "form" /\ info' = keys + 1 /\ UNCHANGED <<cfg, factory>>
       \/ FormFails
    /\ UNCHANGED <<disk, nv, run>>

\* NwkFormation, with its retries.
Formation ==
    /\ pc = "form"
    /\ LET formed == [param |-> cfg, key |-> info, pan |-> FALSE]
       IN  \/ pc' = "pan" /\ nv' = formed /\ UNCHANGED <<cfg, info, factory>>
           \/ FormFails /\ nv' \in {nv, formed}
    /\ UNCHANGED <<disk, run, keys>>

\* Mutant of SetPanID: its error is only logged, like those of steps 8 and 9.
SetPanIDLogged ==
    /\ Goto("pan", "start")
    /\ nv' \in {nv, [nv EXCEPT !.pan = TRUE]}
    /\ UNCHANGED <<disk, run, cfg, info, factory, keys>>

\* The PAN ID is set after the formation, then the rest of FormNetwork.
SetPanID ==
    /\ pc = "pan"
    /\ \/ pc' = "start" /\ nv' = [nv EXCEPT !.pan = TRUE] /\ UNCHANGED <<cfg, info, factory>>
       \/ FormFails /\ nv' \in {nv, [nv EXCEPT !.pan = TRUE]}
    /\ UNCHANGED <<disk, run, keys>>

\* An error ends the process, perhaps with the network started.
StartNetwork ==
    /\ pc = "start"
    /\ \/ pc' = "save" /\ run' = TRUE /\ UNCHANGED <<cfg, info, factory>>
       \/ Exits /\ run' \in {run, TRUE}
    /\ UNCHANGED <<disk, nv, keys>>

\* An error is only logged.
saveNetworkState ==
    /\ Goto("save", "up")
    /\ disk' \in {disk, [param |-> cfg, key |-> info]}
    /\ UNCHANGED <<nv, run, cfg, info, factory, keys>>

Next ==
    \/ \E p \in Param : Boot(p)
    \/ Killed
    \/ canResumeNetwork
    \/ ResumeReset \/ ResumeInit \/ ResumeStart
    \/ Reset \/ InitNCP \/ SetKey \/ Formation \/ SetPanID
    \/ StartNetwork \/ saveNetworkState

Spec == Init /\ [][Next]_vars

-----------------------------------------------------------------------------
(* Properties.                                                             *)

\* The saved key is enough to tell which network is saved: if the network in
\* NVRAM has it, that network is the saved one, completely set up, and once
\* Start has succeeded it is the configured one.  However many runs of Start
\* fail or are killed half-way, a record never names the key of one network
\* and the parameters of another.
SavedKeyNamesNetwork ==
    /\ disk # None /\ nv # None /\ disk.key = nv.key =>
          /\ nv.param = disk.param /\ nv.pan
          /\ pc = "up" => nv.param = cfg
    /\ pc = "up" => run /\ nv # None
=============================================================================
