------------------------- MODULE MC_VersionHistory -------------------------
(* Small instances of VersionHistory for TLC. *)
EXTENDS VersionHistory, FiniteSets, TLC

CONSTANT MaxSent    \* bound: distinct copies on their way

\* The protocol with so many copies at a time.
BoundedSpec == Init /\ [][Next /\ Cardinality(sent') <= MaxSent]_vars

\* Devices are interchangeable in every safety property of the module.
Symmetry == Permutations(Device)
=============================================================================
