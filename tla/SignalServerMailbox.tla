------------------------ MODULE SignalServerMailbox ------------------------
(***************************************************************************)
(* SignalServer implements Mailbox.                                        *)
(*                                                                         *)
(* A message waits for a connection in one of the channels DeviceOnline    *)
(* made on it, the registered one or an earlier one, whose task still      *)
(* carries its messages to the socket.                                     *)
(***************************************************************************)
EXTENDS SignalServer

\* Message n is the i-th in channel ch.
Holds(ch, i, n) == pipe[ch][i].kind = "signal" /\ pipe[ch][i].n = n

\* The messages on their way to the client of c.
WaitingFor(c) ==
    {n \in 1 .. forwards :
        alive[c] /\ \E k \in 1 .. MaxAnnounce :
            /\ carried[<<c, k>>]
            /\ \E i \in DOMAIN pipe[<<c, k>>] : Holds(<<c, k>>, i, n)}

Post ==
    INSTANCE Mailbox WITH
        entry <- [d \in Device |->
                    IF registry[d] = NoChannel THEN {} ELSE {registry[d][1]}],
        owner <- [c \in Conn |-> IF dev[c] = NoDevice THEN {} ELSE {dev[c]}],
        live <- alive,
        posted <- forwards,
        waiting <- [c \in Conn |-> WaitingFor(c)],
        delivered <- [c \in Conn |-> {n \in 1 .. forwards : <<n, c>> \in got}]

\* Whatever channels a device goes through and whoever removes its entry, a
\* message forward_to_target accepted is delivered once, to the connection it
\* was accepted for, or goes with it.
ImplementsMailbox == Post!Spec
=============================================================================
