--------------------------- MODULE MC_SyncEngine ---------------------------
(* Small instances of SyncEngine for TLC. *)
EXTENDS SyncEngineHistory, TLC

\* Devices that play the same part are interchangeable in every safety
\* property of the module.
Symmetry ==
    {f \in Permutations(Device) :
        \A d \in Device : /\ d \in Editors <=> f[d] \in Editors
                          /\ d \in Joined <=> f[d] \in Joined}
=============================================================================
