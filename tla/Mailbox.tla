------------------------------ MODULE Mailbox ------------------------------
(***************************************************************************)
(* What the signal server promises a message it forwards: once accepted    *)
(* for a device it waits for the connection that was registered then, and  *)
(* is delivered there at most once, and nowhere else; only the end of that *)
(* connection takes it away.  Channels, tasks, presence messages and rows  *)
(* are not seen here.  SignalServer implements it (SignalServerMailbox).   *)
(***************************************************************************)
EXTENDS Naturals

CONSTANTS Device, Conn

VARIABLES
    entry,      \* entry[d]: {} or {the connection registered for d}
    owner,      \* owner[c]: {} or {the device whose client opened c}
    live,       \* live[c]: the client of c is there
    posted,     \* messages accepted so far; they are numbered
    waiting,    \* waiting[c]: the messages accepted for c and not delivered
    delivered   \* delivered[c]: those its client has

vars == <<entry, owner, live, posted, waiting, delivered>>

Init ==
    /\ entry = [d \in Device |-> {}]
    /\ owner = [c \in Conn |-> {}]
    /\ live = [c \in Conn |-> FALSE]
    /\ posted = 0
    /\ waiting = [c \in Conn |-> {}]
    /\ delivered = [c \in Conn |-> {}]

Connects(c, d) ==
    /\ owner[c] = {}
    /\ \A b \in Conn : owner[b] = {d} => ~ live[b]
    /\ owner' = [owner EXCEPT ![c] = {d}]
    /\ live' = [live EXCEPT ![c] = TRUE]
    /\ UNCHANGED <<entry, posted, waiting, delivered>>

\* Under the device it names, its own or not.
Registers(c, d) ==
    /\ owner[c] # {}
    /\ entry' = [entry EXCEPT ![d] = {c}]
    /\ UNCHANGED <<owner, live, posted, waiting, delivered>>

\* By any connection, its own entry or another's.
Unregisters(d) ==
    /\ entry' = [entry EXCEPT ![d] = {}]
    /\ UNCHANGED <<owner, live, posted, waiting, delivered>>

\* For a client that is gone already nothing is kept.
Accepts(d, c) ==
    /\ entry[d] = {c}
    /\ posted' = posted + 1
    /\ waiting' = IF live[c]
                  THEN [waiting EXCEPT ![c] = waiting[c] \cup {posted + 1}]
                  ELSE waiting
    /\ UNCHANGED <<entry, owner, live, delivered>>

Delivers(c, n) ==
    /\ n \in waiting[c]
    /\ waiting' = [waiting EXCEPT ![c] = waiting[c] \ {n}]
    /\ delivered' = [delivered EXCEPT ![c] = delivered[c] \cup {n}]
    /\ UNCHANGED <<entry, owner, live, posted>>

Leaves(c) ==
    /\ live[c]
    /\ live' = [live EXCEPT ![c] = FALSE]
    /\ waiting' = [waiting EXCEPT ![c] = {}]
    /\ delivered' = [delivered EXCEPT ![c] = {}]
    /\ UNCHANGED <<entry, owner, posted>>

Restarts ==
    /\ entry' = [d \in Device |-> {}]
    /\ live' = [c \in Conn |-> FALSE]
    /\ waiting' = [c \in Conn |-> {}]
    /\ delivered' = [c \in Conn |-> {}]
    /\ UNCHANGED <<owner, posted>>

Next ==
    \/ \E c \in Conn :
          \/ Leaves(c) \/ \E n \in waiting[c] : Delivers(c, n)
          \/ \E d \in Device : Connects(c, d) \/ Registers(c, d) \/ Accepts(d, c)
    \/ \E d \in Device : Unregisters(d)
    \/ Restarts

Spec == Init /\ [][Next]_vars
=============================================================================
