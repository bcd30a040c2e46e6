---------------------------- MODULE LatestWorker ----------------------------
(***************************************************************************)
(* What a table of cancellable workers promises: for every key at most one *)
(* worker is live, the one begun last; beginning one ends the others of    *)
(* its key in the same step; and a worker that was ended never lives       *)
(* again.  DeviceManager.interviewCancels and Bridge.pendingDiscovery are  *)
(* two such tables, each built from a mutex, a map of cancel functions and *)
(* a generation counter.                                                   *)
(***************************************************************************)
CONSTANTS Key, Worker

VARIABLES
    live,   \* Key -> the workers of the key that nobody has ended
    begun   \* the workers that ever began

vars == <<live, begun>>

Init == live = [k \in Key |-> {}] /\ begun = {}

Begin(k, w) ==
    /\ w \notin begun
    /\ begun' = begun \cup {w}
    /\ live' = [live EXCEPT ![k] = {w}]

\* The worker finished, timed out or was cancelled; Stop ends all at once.
End(keys) ==
    /\ live' = [k \in Key |-> IF k \in keys THEN {} ELSE live[k]]
    /\ UNCHANGED begun

Next ==
    \/ \E k \in Key, w \in Worker : Begin(k, w)
    \/ \E keys \in SUBSET Key : End(keys)

Spec == Init /\ [][Next]_vars
=============================================================================
