--------------------------- MODULE ModelLifecycle ---------------------------
(***************************************************************************)
(* The lifecycle of the served model as a client sees it: the table of     *)
(* stable states and transitions of docs/PLAN-offload-gpu-and-kv.md, 2.2,  *)
(* with its promise that every transition settles. ServeWorker implements  *)
(* it.                                                                     *)
(***************************************************************************)
VARIABLE state

Stable == {"Loaded", "Parked", "Unloaded"}
Transient == {"Loading", "Unloading", "Parking", "Resuming"}

Init == state = "Loaded"

(* A request reserves a transition.                                        *)
Reserve ==
    \/ state = "Loaded"   /\ state' \in {"Unloading", "Parking"}
    \/ state = "Parked"   /\ state' \in {"Unloading", "Parking", "Resuming"}
    \/ state = "Unloaded" /\ state' = "Loading"

(* The worker completes it or takes it back. A park that fails leaves the  *)
(* model loaded, a resume that fails leaves it parked, a load that fails   *)
(* leaves it unloaded; an unload does not fail.                            *)
Settle ==
    \/ state = "Loading"   /\ state' \in {"Loaded", "Unloaded"}
    \/ state = "Resuming"  /\ state' \in {"Loaded", "Parked"}
    \/ state = "Parking"   /\ state' \in {"Parked", "Loaded"}
    \/ state = "Unloading" /\ state' = "Unloaded"

(* The worker is gone, for good.                                           *)
Die == state # "Dead" /\ state' = "Dead"

Next == Reserve \/ Settle \/ Die

Spec == Init /\ [][Next]_state /\ WF_state(Settle)
=============================================================================
