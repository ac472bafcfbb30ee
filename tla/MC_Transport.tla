---------------------------- MODULE MC_Transport ----------------------------
(* A small instance of Transport for TLC. *)
EXTENDS TransportOffers

CONSTANTS d1, d2

\* Two programs on one machine, with a port each.
Hosts == [d \in Device |-> 1]
Ports == [d \in Device |-> IF d = d1 THEN 1 ELSE 2]
=============================================================================
