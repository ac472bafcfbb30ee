--------------------------- MODULE OfferExchange ---------------------------
(***************************************************************************)
(* What an SDP server promises the calls that post offers to it: it has    *)
(* one offer open at a time, answers that very offer, and refuses another  *)
(* one meanwhile; only a failure does more.  An offer whose handler failed *)
(* or was dropped stays open, and no other is answered until the server    *)
(* comes back.  Descriptions, tables and discovery are not seen here.      *)
(* Transport implements it (TransportOffers).                              *)
(***************************************************************************)
EXTENDS Naturals

CONSTANTS
    Device, Id, None,   \* Id: the calls, None is not one
    MaxFaults           \* bound: failures

VARIABLES
    caller,     \* caller[k]: "new", "asking", "connected" or "over"
    request,    \* request[k]: Nothing, or where it is and what became of it
    open,       \* open[s]: {} or {the call whose offer s has open}
    faults

vars == <<caller, request, open, faults>>

Nothing == <<>>
Request(s, state, offer) == [at |-> s, state |-> state, offer |-> offer]
Waits(k) == request[k] # Nothing /\ request[k].state = "waiting"

Init ==
    /\ caller = [k \in Id |-> "new"]
    /\ request = [k \in Id |-> Nothing]
    /\ open = [s \in Device |-> {}]
    /\ faults = 0

Turns(k, state) == caller' = [caller EXCEPT ![k] = state]
Fault == faults < MaxFaults /\ faults' = faults + 1

Asks(k, s) ==
    /\ caller[k] = "new" /\ Turns(k, "asking")
    /\ request' = [request EXCEPT ![k] = Request(s, "waiting", None)]
    /\ UNCHANGED <<open, faults>>

\* The device is connected already, nobody listens, or making the offer fails.
Skips(k) ==
    /\ caller[k] = "new" /\ Turns(k, "over")
    /\ Fault \/ UNCHANGED faults
    /\ UNCHANGED <<request, open>>

Takes(k) ==
    /\ Waits(k)
    /\ LET s == request[k].at IN
         open[s] = {} /\ open' = [open EXCEPT ![s] = {k}]
    /\ UNCHANGED <<caller, request, faults>>

Answers(k) ==
    /\ Waits(k)
    /\ LET s == request[k].at IN
         /\ open[s] = {k}
         /\ open' = [open EXCEPT ![s] = {}]
         /\ request' = [request EXCEPT ![k] = Request(s, "answered", k)]
    /\ UNCHANGED <<caller, faults>>

Refuses(k) ==
    /\ Waits(k)
    /\ LET s == request[k].at IN
         /\ open[s] \notin {{}, {k}}
         /\ request' = [request EXCEPT ![k] = Request(s, "refused", None)]
    /\ UNCHANGED <<caller, open, faults>>

\* The offer may just have been opened, and none that is open is closed.
Fails(k) ==
    /\ Waits(k) /\ Fault
    /\ LET s == request[k].at IN
         /\ \/ open[s] = {} /\ open' = [open EXCEPT ![s] = {k}]
            \/ UNCHANGED open
         /\ request' = [request EXCEPT ![k] = Request(s, "refused", None)]
    /\ UNCHANGED caller

Drops(k) ==
    /\ Waits(k) /\ caller[k] # "asking"
    /\ request' = [request EXCEPT ![k] = Nothing]
    /\ UNCHANGED <<caller, open, faults>>

Connects(k) ==
    /\ caller[k] = "asking" /\ Turns(k, "connected")
    /\ request[k] # Nothing /\ request[k].state = "answered"
    /\ UNCHANGED <<request, open, faults>>

\* It was refused, its server vanished, or it failed by itself.
GivesUp(k) ==
    /\ caller[k] = "asking" /\ Turns(k, "over")
    /\ \/ Fault
       \/ /\ request[k] = Nothing \/ request[k].state = "refused"
          /\ UNCHANGED faults
    /\ UNCHANGED <<request, open>>

Ends(k) ==
    /\ caller[k] = "connected" /\ Turns(k, "over")
    /\ UNCHANGED <<request, open, faults>>

\* A device vanishes, as server and with the calls it has made.
Vanishes(s) ==
    /\ Fault
    /\ \E K \in SUBSET Id :
          caller' = [k \in Id |-> IF k \in K THEN "over" ELSE caller[k]]
    /\ request' = [k \in Id |->
                     IF request[k] # Nothing /\ request[k].at = s THEN Nothing
                     ELSE request[k]]
    /\ open' = [open EXCEPT ![s] = {}]

Next ==
    \/ \E k \in Id :
          \/ \E s \in Device : Asks(k, s)
          \/ Skips(k) \/ Takes(k) \/ Answers(k) \/ Refuses(k) \/ Fails(k)
          \/ Drops(k) \/ Connects(k) \/ GivesUp(k) \/ Ends(k)
    \/ \E s \in Device : Vanishes(s)

Spec == Init /\ [][Next]_vars
=============================================================================
