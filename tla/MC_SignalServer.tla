-------------------------- MODULE MC_SignalServer --------------------------
(* Small instances of SignalServer for TLC. *)
EXTENDS SignalServerMailbox, TLC

\* Devices and connections are interchangeable in every safety property.
Symmetry == Permutations(Device) \cup Permutations(Conn)
=============================================================================
