-------------------------- MODULE TransportOffers --------------------------
(***************************************************************************)
(* Transport implements OfferExchange: the three awaits of handle_offer on *)
(* a connection all handlers share, with no lock between them, are a       *)
(* critical section that is entered by set_remote_description.             *)
(***************************************************************************)
EXTENDS Transport

\* A call at pc, as those see it that talk to its server only.
Stage(pc) ==
    CASE pc \in {"idle", "check", "post"} -> "new"
      [] pc = "wait" -> "asking"
      [] pc \in {"peers", "channels"} -> "connected"
      [] pc \in {"done", "failed"} -> "over"

StateOf(h) ==
    IF h.pc # "reply" THEN "waiting"
    ELSE IF h.ans = None THEN "refused" ELSE "answered"

RequestOf(k) ==
    IF handler[k].pc = "none" THEN <<>>
    ELSE [at |-> handler[k].at, state |-> StateOf(handler[k]),
          offer |-> IF StateOf(handler[k]) = "answered" THEN handler[k].ans ELSE None]

\* The offer set_remote_description has taken and nothing has answered.
OpenAt(s) == IF shared[s].sig = "have_remote" THEN {shared[s].remote} ELSE {}

Exchange ==
    INSTANCE OfferExchange WITH
        caller <- [k \in Id |-> Stage(call[k].pc)],
        request <- [k \in Id |-> RequestOf(k)],
        open <- [s \in Device |-> OpenAt(s)]

\* However the handlers of a server meet, it has one offer open at a time,
\* answers that one to the call it came from, and refuses others only then.
ImplementsExchange == Exchange!Spec
=============================================================================
