--------------------------- MODULE AccountService ---------------------------
(***************************************************************************)
(* What the account endpoints of the signal server promise: they behave as *)
(* one indivisible service.  Whatever requests overlap, each takes effect  *)
(* at one instant between the call and its answer, and the answer is what  *)
(* the accounts said at that instant.  Rows, ids and statements are not    *)
(* seen here: a token is made out to a user, and a device belongs to one.  *)
(* Accounts implements it (AccountsRefinement).                            *)
(***************************************************************************)
EXTENDS Naturals

CONSTANTS Conn, Name, Password, Device

VARIABLES
    accounts,   \* the accounts there are: [name, pw]
    owner,      \* owner[d]: {} or {the user d belongs to}
    request,    \* request[c]: what c asked, and the code once it is decided
    answer,     \* answer[c]: what c was told last
    faults      \* failures so far

vars == <<accounts, owner, request, answer, faults>>

Nothing == [op |-> "none"]

Account(r) == [name |-> r.name, pw |-> r.pw]
Known(n) == \E a \in accounts : a.name = n

\* Whom a user id can stand for: nobody, or somebody with an account.
Holders == {{}} \cup {{a.name} : a \in accounts}

Verdict(r) ==
    IF r.op = "register" THEN IF Known(r.name) THEN "conflict" ELSE "ok"
    ELSE IF Account(r) \in accounts THEN "ok" ELSE "unauthorized"

Applied(r) ==
    IF r.op = "register" /\ Verdict(r) = "ok" THEN accounts \cup {Account(r)}
    ELSE accounts

Open(c) == request[c] # Nothing /\ request[c].code = "open"

Init ==
    /\ accounts = {}
    /\ owner = [d \in Device |-> {}]
    /\ request = [c \in Conn |-> Nothing]
    /\ answer = [c \in Conn |-> Nothing]
    /\ faults = 0

Asked ==
    [op : {"register", "login"}, name : Name, pw : Password, code : {"open"}]

Ask(c) ==
    /\ UNCHANGED <<accounts, owner, faults>>
    /\ request[c] = Nothing
    /\ answer' = [answer EXCEPT ![c] = Nothing]
    /\ \E r \in Asked : request' = [request EXCEPT ![c] = r]

TakesEffect(c) ==
    /\ Open(c)
    /\ accounts' = Applied(request[c])
    /\ request' = [request EXCEPT ![c] =
          [op |-> request[c].op, name |-> request[c].name, pw |-> request[c].pw,
           code |-> Verdict(request[c])]]
    /\ UNCHANGED <<owner, answer, faults>>

Tells(c, code) ==
    /\ UNCHANGED <<accounts, owner>>
    /\ request[c] # Nothing
    /\ request' = [request EXCEPT ![c] = Nothing]
    /\ answer' = [answer EXCEPT ![c] =
          [op |-> request[c].op, code |-> code, name |-> request[c].name,
           pw |-> request[c].pw,
           token |-> IF code = "ok" THEN {request[c].name} ELSE {}]]

\* What was decided, or a refusal that is decided now.
Responds(c) ==
    /\ \E code \in {"ok", "conflict", "unauthorized"} :
          /\ Tells(c, code)
          /\ IF Open(c) THEN code = Verdict(request[c]) /\ code # "ok"
             ELSE code = request[c].code
    /\ UNCHANGED faults

\* "error" is told for a failure, before or after the effect, or instead of
\* the "conflict" of a registration.
Fails(c) ==
    /\ Tells(c, "error")
    /\ \/ faults' = faults + 1
       \/ Open(c) /\ Verdict(request[c]) = "conflict" /\ UNCHANGED faults

\* Nobody waits for the answer; the effect may have come all the same.
Leaves(c) ==
    /\ request[c] # Nothing
    /\ request' = [request EXCEPT ![c] = Nothing]
    /\ accounts' = accounts \/ (Open(c) /\ accounts' = Applied(request[c]))
    /\ UNCHANGED <<owner, answer, faults>>

\* Whose device it is, is settled by the first registration; another one is
\* taken whomever it names, also nobody, and leaves the device where it is.
RegisterDevice(c, d, u) ==
    \/ /\ u # {} \/ owner[d] # {}
       /\ answer' = [answer EXCEPT ![c] = [op |-> "device", code |-> "created"]]
       /\ owner' = [owner EXCEPT ![d] = IF owner[d] = {} THEN u ELSE owner[d]]
       /\ UNCHANGED faults
    \/ /\ (u = {} /\ owner[d] = {} /\ UNCHANGED faults) \/ faults' = faults + 1
       /\ answer' = [answer EXCEPT ![c] = [op |-> "device", code |-> "error"]]
       /\ UNCHANGED owner

\* An empty list does not say whose it is.
ListDevices(c, u) ==
    LET D == {d \in Device : owner[d] # {} /\ owner[d] = u} IN
        /\ answer' = [answer EXCEPT ![c] =
              [op |-> "list", user |-> IF D = {} THEN {} ELSE u, devices |-> D]]
        /\ UNCHANGED <<owner, faults>>

\* A list that does not say for whom, or that fails.
ListFails(c) ==
    /\ \E code \in {"bad", "error"} :
          /\ answer' = [answer EXCEPT ![c] = [op |-> "device", code |-> code]]
          /\ faults' = IF code = "error" THEN faults + 1 ELSE faults
    /\ UNCHANGED owner

DeviceRequest(c) ==
    /\ UNCHANGED <<accounts, request>>
    /\ request[c] = Nothing
    /\ \/ ListFails(c)
       \/ \E u \in Holders :
             ListDevices(c, u) \/ \E d \in Device : RegisterDevice(c, d, u)

Next ==
    \/ \E c \in Conn : DeviceRequest(c)
    \/ \E c \in Conn :
        Ask(c) \/ TakesEffect(c) \/ Responds(c) \/ Fails(c) \/ Leaves(c)

Spec == Init /\ [][Next]_vars
=============================================================================
