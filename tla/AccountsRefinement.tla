------------------------- MODULE AccountsRefinement -------------------------
(***************************************************************************)
(* Accounts implements AccountService.                                     *)
(*                                                                         *)
(* A registration takes effect with its INSERT, a login when its row is    *)
(* read, and what is refused on the spot with the statement that refuses   *)
(* it: the handler's place says which requests are decided, and how.  An   *)
(* id stands for the name in its row.                                      *)
(***************************************************************************)
EXTENDS Accounts

Decision(c) ==
    IF At(c, "sign") THEN "ok"
    ELSE IF At(c, "verify")
    THEN IF Verifies(c) THEN "ok" ELSE "unauthorized"
    ELSE "open"

RequestOf(c) ==
    IF At(c, "idle") THEN [op |-> "none"]
    ELSE [op |-> Op(call[c].pc), name |-> call[c].name, pw |-> call[c].pw,
          code |-> Decision(c)]

\* The name in the row with this id, if there is one.
NameOf(i) == IF i \in DOMAIN users THEN {users[i].name} ELSE {}

AnswerOf(r) ==
    IF r.op \in {"register", "login"}
    THEN [op |-> r.op, code |-> r.code, name |-> r.name, pw |-> r.pw,
          token |-> NameOf(r.id)]
    ELSE IF r.op = "list"
    THEN [op |-> "list", user |-> IF r.devices = {} THEN {} ELSE NameOf(r.id),
          devices |-> r.devices]
    ELSE r

Service ==
    INSTANCE AccountService WITH
        accounts <- Range(users),
        owner <- [d \in Device |-> NameOf(owner[d])],
        request <- [c \in Conn |-> RequestOf(c)],
        answer <- [c \in Conn |-> AnswerOf(reply[c])]

\* However the statements of concurrent requests interleave, fail or are
\* abandoned, the endpoints behave as if each request were served at one
\* instant between its call and its answer.
ImplementsService == Service!Spec
=============================================================================
