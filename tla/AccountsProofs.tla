--------------------------- MODULE AccountsProofs ---------------------------
(***************************************************************************)
(* Theorems about Accounts, for any number of connections, names, devices  *)
(* and requests.                                                           *)
(*                                                                         *)
(* Everything rests on two facts: the rows of users only grow at the end,  *)
(* and no two have the same name.  What a handler read or inserted before  *)
(* an await is then still there after it, and what was answered stays so.  *)
(* Last, from the same invariant, that Accounts implements AccountService. *)
(***************************************************************************)
EXTENDS AccountsRefinement, TLAPS

\* The columns of users, for the prover.
LEMMA RangeOfUsers ==
    ASSUME TypeOK
    PROVE  /\ \A i \in DOMAIN users : users[i] \in Range(users) /\ users[i] \in User
           /\ \A u \in Range(users) : \E i \in DOMAIN users : users[i] = u
           /\ DOMAIN users = 1 .. Len(users) /\ Len(users) \in Nat
BY DEF TypeOK, Range

\* What an insert leaves behind.
LEMMA InsertAppends ==
    ASSUME TypeOK, NEW c \in Conn, At(c, "insert"), users' = Inserted(c)
    PROVE  /\ users' \in Seq(User)
           /\ DOMAIN users' = 1 .. Len(users) + 1
           /\ Len(users') = Len(users) + 1
           /\ \A i \in DOMAIN users : users'[i] = users[i]
           /\ users'[Len(users) + 1] = [name |-> call[c].name, pw |-> call[c].pw]
<1>1. call[c] \in [pc : {"select", "insert", "look"}, name : Name, pw : Password]
  BY DEF TypeOK, At, CallRecord, Idle
<1>2. [name |-> call[c].name, pw |-> call[c].pw] \in User
  BY <1>1 DEF User
<1> QED  BY <1>2 DEF Inserted, TypeOK

\* users keeps its rows.
Kept ==
    /\ Len(users) <= Len(users')
    /\ \A i \in DOMAIN users : i \in DOMAIN users' /\ users'[i] = users[i]

LEMMA RowsAreKept == TypeOK /\ [Next]_vars => Kept
<1> SUFFICES ASSUME TypeOK, [Next]_vars  PROVE Kept
  OBVIOUS
<1>1. CASE users' = users
  BY <1>1 DEF Kept, TypeOK
<1>2. CASE \E c \in Conn : At(c, "insert") /\ users' = Inserted(c)
  <2>1. PICK c \in Conn : At(c, "insert") /\ users' = Inserted(c)
    BY <1>2
  <2>2. /\ DOMAIN users' = 1 .. Len(users) + 1 /\ Len(users') = Len(users) + 1
        /\ \A i \in DOMAIN users : users'[i] = users[i]
    BY <2>1, InsertAppends
  <2>3. DOMAIN users = 1 .. Len(users) /\ Len(users) \in Nat
    BY RangeOfUsers
  <2> QED  BY <2>2, <2>3 DEF Kept
<1>3. users' = users \/ \E c \in Conn : At(c, "insert") /\ users' = Inserted(c)
  BY DEF Next, vars, Call, CallFails, ClientLeaves, RegisterSelect, RegisterInsert,
         RegisterSign, LoginSelect, LoginVerify, ListDevices, ListFails,
         RegisterDevice
<1> QED  BY <1>1, <1>2, <1>3

-----------------------------------------------------------------------------
(* Types *)

LEMMA TypeInit == Init => TypeOK
<1> SUFFICES ASSUME Init  PROVE TypeOK
  OBVIOUS
<1>1. users \in Seq(User) /\ Len(users) = 0
  BY DEF Init
<1> QED
  BY <1>1, AccountsAssumption DEF Init, TypeOK, CallRecord, Reply, Idle, NoReply

\* The fields of a call.
LEMMA CallFields ==
    ASSUME TypeOK, NEW c \in Conn
    PROVE  /\ ~ At(c, "idle") => call[c].name \in Name /\ call[c].pw \in Password
           /\ At(c, "sign") => call[c].id \in Nat
           /\ At(c, "verify") => call[c].id \in Nat /\ call[c].hash \in Password
           /\ call[c].pc \in {"idle", "select", "insert", "look", "sign", "verify"}
<1> call[c] \in CallRecord
  BY DEF TypeOK
<1> QED  BY DEF At, CallRecord, Idle

\* The answer is well formed, and so are the calls left.
LEMMA AnswerTypes ==
    ASSUME TypeOK, NEW c \in Conn, ~ At(c, "idle"),
           NEW op \in {"register", "login"},
           NEW code \in {"ok", "conflict", "unauthorized", "error"},
           NEW i \in Nat, Answer(c, op, code, i)
    PROVE  call' \in [Conn -> CallRecord] /\ reply' \in [Conn -> Reply]
<1>1. [op |-> op, code |-> code, name |-> call[c].name, pw |-> call[c].pw,
       id |-> i] \in Reply
  BY CallFields DEF Reply
<1>2. Idle \in CallRecord
  BY DEF CallRecord
<1> QED  BY <1>1, <1>2 DEF Answer, TypeOK

LEMMA TypeNext == TypeOK /\ [Next]_vars => TypeOK'
<1> SUFFICES ASSUME TypeOK, [Next]_vars  PROVE TypeOK'
  OBVIOUS
<1> USE AccountsAssumption
<1>1. CASE UNCHANGED vars
  BY <1>1 DEF vars, TypeOK
<1>2. ASSUME NEW c \in Conn, NEW n \in Name, NEW w \in Password,
             NEW pc \in {"select", "look"}, Call(c, pc, n, w)
      PROVE TypeOK'
  <2>1. [pc |-> pc, name |-> n, pw |-> w] \in CallRecord /\ NoReply \in Reply
    BY DEF CallRecord, Reply
  <2>2. Range(users) \in SUBSET User
    BY RangeOfUsers
  <2> QED  BY <1>2, <2>1, <2>2 DEF Call, TypeOK
<1>3. ASSUME NEW c \in Conn, CallFails(c)
      PROVE TypeOK'
  <2>1. ~ At(c, "idle") /\ Op(call[c].pc) \in {"register", "login"}
    BY <1>3 DEF CallFails, Op
  <2>2. call' \in [Conn -> CallRecord] /\ reply' \in [Conn -> Reply]
    BY <1>3, <2>1, AnswerTypes DEF CallFails
  <2> QED  BY <1>3, <2>2 DEF CallFails, TypeOK
<1>4. ASSUME NEW c \in Conn, ClientLeaves(c)
      PROVE TypeOK'
  <2>1. Idle \in CallRecord
    BY DEF CallRecord
  <2>2. users' \in Seq(User) /\ Len(users) <= Len(users')
    <3>1. CASE users' = users
      BY <3>1 DEF TypeOK
    <3>2. CASE At(c, "insert") /\ users' = Inserted(c)
      <4>1. users' \in Seq(User) /\ Len(users') = Len(users) + 1
        BY <3>2, InsertAppends
      <4>2. Len(users) \in Nat
        BY RangeOfUsers
      <4> QED  BY <4>1, <4>2
    <3> QED  BY <1>4, <3>1, <3>2 DEF ClientLeaves
  <2>3. owner' \in [Device -> 0 .. Len(users')]
    BY <1>4, <2>2, RangeOfUsers DEF ClientLeaves, TypeOK
  <2> QED  BY <1>4, <2>1, <2>2, <2>3 DEF ClientLeaves, TypeOK
<1>5. ASSUME NEW c \in Conn, RegisterSelect(c)
      PROVE TypeOK'
  <2>1. call' \in [Conn -> CallRecord] /\ reply' \in [Conn -> Reply]
    <3>1. CASE Answer(c, "register", "conflict", 0)
      BY <1>5, <3>1, AnswerTypes DEF RegisterSelect, At
    <3>2. CASE /\ UNCHANGED reply
               /\ call' = [call EXCEPT ![c] =
                     [pc |-> "insert", name |-> call[c].name, pw |-> call[c].pw]]
      <4>1. [pc |-> "insert", name |-> call[c].name, pw |-> call[c].pw] \in CallRecord
        BY <1>5, CallFields DEF RegisterSelect, At, CallRecord
      <4> QED  BY <3>2, <4>1 DEF TypeOK
    <3> QED  BY <1>5, <3>1, <3>2 DEF RegisterSelect
  <2> QED  BY <1>5, <2>1 DEF RegisterSelect, TypeOK
<1>6. ASSUME NEW c \in Conn, RegisterInsert(c)
      PROVE TypeOK'
  <2>1. CASE Answer(c, "register", "error", 0) /\ UNCHANGED users
    <3>1. call' \in [Conn -> CallRecord] /\ reply' \in [Conn -> Reply]
      BY <1>6, <2>1, AnswerTypes DEF RegisterInsert, At
    <3> QED  BY <1>6, <2>1, <3>1 DEF RegisterInsert, TypeOK
  <2>2. CASE /\ users' = Inserted(c) /\ UNCHANGED reply
             /\ call' = [call EXCEPT ![c] =
                   [pc |-> "sign", name |-> call[c].name, pw |-> call[c].pw,
                    id |-> Len(users) + 1]]
    <3>1. [pc |-> "sign", name |-> call[c].name, pw |-> call[c].pw,
           id |-> Len(users) + 1] \in CallRecord
      BY <1>6, CallFields, RangeOfUsers DEF RegisterInsert, At, CallRecord
    <3>2. users' \in Seq(User) /\ Len(users') = Len(users) + 1 /\ Len(users) \in Nat
      BY <1>6, <2>2, InsertAppends, RangeOfUsers DEF RegisterInsert
    <3> QED  BY <1>6, <2>2, <3>1, <3>2 DEF RegisterInsert, TypeOK
  <2> QED  BY <1>6, <2>1, <2>2 DEF RegisterInsert
<1>7. ASSUME NEW c \in Conn, RegisterSign(c)
      PROVE TypeOK'
  <2>1. OwnId(c) \in Nat /\ ~ At(c, "idle")
    BY <1>7, CallFields DEF RegisterSign, OwnId, At
  <2>2. call' \in [Conn -> CallRecord] /\ reply' \in [Conn -> Reply]
    BY <1>7, <2>1, AnswerTypes DEF RegisterSign
  <2> QED  BY <1>7, <2>2 DEF RegisterSign, TypeOK
<1>8. ASSUME NEW c \in Conn, LoginSelect(c)
      PROVE TypeOK'
  <2>1. call' \in [Conn -> CallRecord] /\ reply' \in [Conn -> Reply]
    <3>1. CASE Answer(c, "login", "unauthorized", 0)
      BY <1>8, <3>1, AnswerTypes DEF LoginSelect, At
    <3>2. ASSUME NEW i \in DOMAIN users, UNCHANGED reply,
                 call' = [call EXCEPT ![c] =
                     [pc |-> "verify", name |-> call[c].name, pw |-> call[c].pw,
                      id |-> i, hash |-> users[i].pw]]
          PROVE call' \in [Conn -> CallRecord] /\ reply' \in [Conn -> Reply]
      <4>1. [pc |-> "verify", name |-> call[c].name, pw |-> call[c].pw,
             id |-> i, hash |-> users[i].pw] \in CallRecord
        BY <1>8, CallFields, RangeOfUsers DEF LoginSelect, At, CallRecord, User
      <4> QED  BY <3>2, <4>1 DEF TypeOK
    <3> QED  BY <1>8, <3>1, <3>2 DEF LoginSelect
  <2> QED  BY <1>8, <2>1 DEF LoginSelect, TypeOK
<1>9. ASSUME NEW c \in Conn, LoginVerify(c)
      PROVE TypeOK'
  <2>1. call' \in [Conn -> CallRecord] /\ reply' \in [Conn -> Reply]
    BY <1>9, AnswerTypes, CallFields DEF LoginVerify, Verifies, At
  <2> QED  BY <1>9, <2>1 DEF LoginVerify, Verifies, TypeOK
<1>10. ASSUME NEW c \in Conn, NEW i \in 1 .. MaxCalls, ListDevices(c, i)
       PROVE TypeOK'
  <2>1. [op |-> "list", id |-> i, devices |-> {d \in Device : owner[d] = i}] \in Reply
    BY DEF Reply
  <2> QED  BY <1>10, <2>1 DEF ListDevices, DeviceCall, TypeOK
<1>11. ASSUME NEW c \in Conn, NEW i \in 1 .. MaxCalls, NEW d \in Device,
              RegisterDevice(c, d, i)
       PROVE TypeOK'
  <2>1. reply' \in [Conn -> Reply]
    <3>1. \A code \in {"created", "error"} : [op |-> "device", code |-> code] \in Reply
      BY DEF Reply
    <3> QED  BY <1>11, <3>1 DEF RegisterDevice, TypeOK
  <2>2. owner' \in [Device -> 0 .. Len(users)]
    <3>1. CASE Admitted(d, i) /\ owner' = [owner EXCEPT ![d] = OwnerAfter(d, i)]
      <4>1. OwnerAfter(d, i) \in 0 .. Len(users)
        BY <3>1, RangeOfUsers DEF OwnerAfter, Admitted, Exists, TypeOK
      <4> QED  BY <3>1, <4>1 DEF TypeOK
    <3> QED  BY <1>11, <3>1 DEF RegisterDevice, TypeOK
  <2> QED  BY <1>11, <2>1, <2>2 DEF RegisterDevice, DeviceCall, TypeOK
<1>12. ASSUME NEW c \in Conn, ListFails(c)
       PROVE TypeOK'
  <2>1. \A code \in {"bad", "error"} : [op |-> "device", code |-> code] \in Reply
    BY DEF Reply
  <2>2. faults' \in 0 .. MaxFaults
    BY <1>12, AccountsAssumption DEF ListFails, TypeOK
  <2> QED  BY <1>12, <2>1, <2>2 DEF ListFails, DeviceCall, TypeOK
<1> QED
  BY <1>1, <1>2, <1>3, <1>4, <1>5, <1>6, <1>7, <1>8, <1>9, <1>10, <1>11, <1>12 DEF Next

\* Every variable keeps its type, and a device belongs to a row of users.
THEOREM TypeCorrect == Spec => []TypeOK
BY TypeInit, TypeNext, PTL DEF Spec

-----------------------------------------------------------------------------
(* Rows and requests *)

\* The UNIQUE of users.username, as an invariant of the table.
UniqueNames ==
    \A i, j \in DOMAIN users : users[i].name = users[j].name => i = j

\* What a handler holds over an await is still in the table.
HeldIsThere ==
    \A c \in Conn :
        /\ At(c, "sign") =>
              /\ call[c].id \in DOMAIN users
              /\ users[call[c].id] = [name |-> call[c].name, pw |-> call[c].pw]
        /\ At(c, "verify") =>
              /\ call[c].id \in DOMAIN users
              /\ users[call[c].id] = [name |-> call[c].name, pw |-> call[c].hash]

\* The row a registration made, as long as its request or answer stands.
Winner(c, i) ==
    \/ At(c, "sign") /\ call[c].id = i
    \/ Answered(c, "register", "ok") /\ reply[c].id = i

\* No two registrations hold one row, and only rows are held.
OneWinnerPerRow ==
    \A c, e \in Conn, i \in Nat :
        Winner(c, i) /\ Winner(e, i) => c = e /\ i \in DOMAIN users

\* What was in the table when a request began is still in it.
AsOfIsThere == \A c \in Conn : asOf[c] \subseteq Range(users)

\* A registration refused without a failure met a row with its name.
RefusedIsTaken ==
    \A c \in Conn : reply[c].op = "register" =>
        /\ reply[c].code = "error" => faults > 0 \/ Taken(reply[c].name)
        /\ reply[c].code = "conflict" => Taken(reply[c].name)

AccountsInv ==
    /\ TypeOK /\ UniqueNames /\ HeldIsThere /\ OneWinnerPerRow
    /\ TokensAreOwn /\ AsOfIsThere /\ RefusedIsTaken /\ AccountsLetIn

\* A row that is there stays there.
LEMMA StaysThere ==
    ASSUME TypeOK, Kept
    PROVE  /\ \A u \in Range(users) : u \in Range(users')
           /\ \A n \in Name : Taken(n) => \E i \in DOMAIN users' : users'[i].name = n
BY DEF Kept, Range, Taken

LEMMA AccountsInit == Init => AccountsInv
<1> SUFFICES ASSUME Init  PROVE AccountsInv
  OBVIOUS
<1>1. /\ DOMAIN users = {} /\ \A c \in Conn : call[c].pc = "idle" /\ asOf[c] = {}
      /\ \A c \in Conn : reply[c] = NoReply
  BY DEF Init, Idle
<1>2. NoReply.op = "none"
  BY DEF NoReply
<1> QED
  BY <1>1, <1>2, TypeInit
  DEF AccountsInv, UniqueNames, HeldIsThere, OneWinnerPerRow, Winner, TokensAreOwn,
      AsOfIsThere, RefusedIsTaken, AccountsLetIn, Answered, At

LEMMA UniqueNext == AccountsInv /\ [Next]_vars => UniqueNames'
<1> SUFFICES ASSUME AccountsInv, [Next]_vars  PROVE UniqueNames'
  OBVIOUS
<1>0. TypeOK /\ UniqueNames
  BY DEF AccountsInv
<1>1. CASE users' = users
  BY <1>0, <1>1 DEF UniqueNames
<1>2. CASE \E c \in Conn : /\ At(c, "insert") /\ Insertable(call[c].name)
                           /\ users' = Inserted(c)
  <2>1. PICK c \in Conn : /\ At(c, "insert") /\ Insertable(call[c].name)
                          /\ users' = Inserted(c)
    BY <1>2
  <2>2. /\ DOMAIN users' = 1 .. Len(users) + 1
        /\ \A i \in DOMAIN users : users'[i] = users[i]
        /\ users'[Len(users) + 1] = [name |-> call[c].name, pw |-> call[c].pw]
    BY <1>0, <2>1, InsertAppends
  <2>3. DOMAIN users = 1 .. Len(users) /\ Len(users) \in Nat
    BY <1>0, RangeOfUsers
  <2>4. \A i \in DOMAIN users : users[i].name # call[c].name
    BY <2>1 DEF Insertable, Taken
  <2> QED  BY <1>0, <2>2, <2>3, <2>4 DEF UniqueNames
<1>3. \/ users' = users
      \/ \E c \in Conn : /\ At(c, "insert") /\ Insertable(call[c].name)
                         /\ users' = Inserted(c)
  BY DEF Next, vars, Call, CallFails, ClientLeaves, RegisterSelect, RegisterInsert,
         RegisterSign, LoginSelect, LoginVerify, ListDevices, ListFails,
         RegisterDevice
<1> QED  BY <1>1, <1>2, <1>3

\* How one connection's request moves: it stays, or begins, or goes on, or is
\* answered, or is left.
Begins(c) ==
    /\ call'[c].pc \in {"select", "look"} /\ reply'[c] = NoReply
    /\ asOf'[c] = Range(users)

ToInsert(c) ==
    /\ call'[c].pc = "insert" /\ reply'[c] = reply[c] /\ asOf'[c] = asOf[c]

ToSign(c) ==
    /\ At(c, "insert") /\ users' = Inserted(c)
    /\ call'[c] = [pc |-> "sign", name |-> call[c].name, pw |-> call[c].pw,
                   id |-> Len(users) + 1]
    /\ reply'[c] = reply[c] /\ asOf'[c] = asOf[c]

ToVerify(c) ==
    /\ At(c, "look")
    /\ \E i \in DOMAIN users :
          /\ users[i].name = call[c].name
          /\ call'[c] = [pc |-> "verify", name |-> call[c].name, pw |-> call[c].pw,
                         id |-> i, hash |-> users[i].pw]
    /\ reply'[c] = reply[c] /\ asOf'[c] = asOf[c]

Told(c, op, code, i) ==
    /\ call'[c].pc = "idle" /\ asOf'[c] = asOf[c]
    /\ reply'[c] = [op |-> op, code |-> code, name |-> call[c].name,
                    pw |-> call[c].pw, id |-> i]

IsAnswered(c) ==
    \/ /\ Told(c, "register", "conflict", 0)
       /\ At(c, "select") /\ Taken(call[c].name)
    \/ /\ Told(c, "register", "error", 0)
       /\ At(c, "insert") /\ Taken(call[c].name)
    \/ At(c, "sign") /\ Told(c, "register", "ok", call[c].id)
    \/ /\ Told(c, "login", "unauthorized", 0)
       /\ At(c, "look") /\ ~ Taken(call[c].name)
    \/ /\ Told(c, "login", "unauthorized", 0)
       /\ At(c, "verify") /\ call[c].pw # call[c].hash
    \/ /\ Told(c, "login", "ok", call[c].id)
       /\ At(c, "verify") /\ call[c].pw = call[c].hash
    \/ /\ Told(c, "register", "error", 0) \/ Told(c, "login", "error", 0)
       /\ ~ At(c, "idle") /\ faults' > 0

IsLeft(c) == call'[c].pc = "idle" /\ reply'[c] = reply[c] /\ asOf'[c] = asOf[c]

AboutDevices(c) ==
    /\ call'[c] = call[c] /\ asOf'[c] = asOf[c]
    /\ reply'[c].op \in {"device", "list"}

Stays(c) == call'[c] = call[c] /\ reply'[c] = reply[c] /\ asOf'[c] = asOf[c]

Moves(c) ==
    \/ Begins(c) \/ ToInsert(c) \/ ToSign(c) \/ ToVerify(c) \/ IsAnswered(c)
    \/ IsLeft(c) \/ AboutDevices(c)

\* At most one connection's request moves.
LEMMA OneMoves ==
    ASSUME TypeOK, [Next]_vars
    PROVE  /\ faults <= faults'
           /\ \/ \A c \in Conn : Stays(c)
              \/ \E c \in Conn : Moves(c) /\ \A e \in Conn \ {c} : Stays(e)
<1> USE DEF Stays
<1>0. faults \in Nat
  BY AccountsAssumption DEF TypeOK
<1>1. CASE UNCHANGED vars
  BY <1>0, <1>1 DEF vars
<1>2. ASSUME NEW c \in Conn, NEW n \in Name, NEW w \in Password,
             NEW pc \in {"select", "look"}, Call(c, pc, n, w)
      PROVE faults' = faults /\ Moves(c) /\ \A e \in Conn \ {c} : Stays(e)
  BY <1>2 DEF Call, TypeOK, Moves, Begins
<1>3. ASSUME NEW c \in Conn, CallFails(c)
      PROVE faults <= faults' /\ Moves(c) /\ \A e \in Conn \ {c} : Stays(e)
  <2>1. Told(c, Op(call[c].pc), "error", 0) /\ faults' = faults + 1 /\ ~ At(c, "idle")
    BY <1>3 DEF CallFails, Answer, Told, TypeOK, Idle
  <2>2. Op(call[c].pc) \in {"register", "login"}
    BY DEF Op
  <2>3. IsAnswered(c)
    BY <1>0, <2>1, <2>2 DEF IsAnswered
  <2> QED  BY <1>0, <1>3, <2>1, <2>3 DEF CallFails, Answer, TypeOK, Moves
<1>4. ASSUME NEW c \in Conn, ClientLeaves(c)
      PROVE faults' = faults /\ Moves(c) /\ \A e \in Conn \ {c} : Stays(e)
  BY <1>4 DEF ClientLeaves, TypeOK, Moves, IsLeft, Idle
<1>5. ASSUME NEW c \in Conn, RegisterSelect(c)
      PROVE faults' = faults /\ Moves(c) /\ \A e \in Conn \ {c} : Stays(e)
  <2>1. CASE Taken(call[c].name) /\ Answer(c, "register", "conflict", 0)
    BY <1>5, <2>1 DEF RegisterSelect, TypeOK, Moves, IsAnswered, Told, Answer, Idle
  <2>2. CASE /\ UNCHANGED reply
             /\ call' = [call EXCEPT ![c] =
                   [pc |-> "insert", name |-> call[c].name, pw |-> call[c].pw]]
    BY <1>5, <2>2 DEF RegisterSelect, TypeOK, Moves, ToInsert
  <2> QED  BY <1>5, <2>1, <2>2 DEF RegisterSelect
<1>6. ASSUME NEW c \in Conn, RegisterInsert(c)
      PROVE faults' = faults /\ Moves(c) /\ \A e \in Conn \ {c} : Stays(e)
  <2>1. CASE ~ Insertable(call[c].name) /\ Answer(c, "register", "error", 0)
    BY <1>6, <2>1
    DEF RegisterInsert, Insertable, TypeOK, Moves, IsAnswered, Told, Answer, Idle
  <2>2. CASE /\ users' = Inserted(c) /\ UNCHANGED reply
             /\ call' = [call EXCEPT ![c] =
                   [pc |-> "sign", name |-> call[c].name, pw |-> call[c].pw,
                    id |-> Len(users) + 1]]
    BY <1>6, <2>2 DEF RegisterInsert, TypeOK, Moves, ToSign
  <2> QED  BY <1>6, <2>1, <2>2 DEF RegisterInsert
<1>7. ASSUME NEW c \in Conn, RegisterSign(c)
      PROVE faults' = faults /\ Moves(c) /\ \A e \in Conn \ {c} : Stays(e)
  BY <1>7 DEF RegisterSign, OwnId, TypeOK, Moves, IsAnswered, Told, Answer, Idle
<1>8. ASSUME NEW c \in Conn, LoginSelect(c)
      PROVE faults' = faults /\ Moves(c) /\ \A e \in Conn \ {c} : Stays(e)
  <2>1. CASE ~ Taken(call[c].name) /\ Answer(c, "login", "unauthorized", 0)
    BY <1>8, <2>1 DEF LoginSelect, TypeOK, Moves, IsAnswered, Told, Answer, Idle
  <2>2. ASSUME NEW i \in DOMAIN users, UNCHANGED reply, users[i].name = call[c].name,
               call' = [call EXCEPT ![c] =
                   [pc |-> "verify", name |-> call[c].name, pw |-> call[c].pw,
                    id |-> i, hash |-> users[i].pw]]
        PROVE faults' = faults /\ Moves(c) /\ \A e \in Conn \ {c} : Stays(e)
    BY <1>8, <2>2 DEF LoginSelect, TypeOK, Moves, ToVerify
  <2> QED  BY <1>8, <2>1, <2>2 DEF LoginSelect
<1>9. ASSUME NEW c \in Conn, LoginVerify(c)
      PROVE faults' = faults /\ Moves(c) /\ \A e \in Conn \ {c} : Stays(e)
  BY <1>9 DEF LoginVerify, Verifies, TypeOK, Moves, IsAnswered, Told, Answer, Idle
<1>10. ASSUME NEW c \in Conn, NEW i \in 1 .. MaxCalls, ListDevices(c, i)
       PROVE faults' = faults /\ Moves(c) /\ \A e \in Conn \ {c} : Stays(e)
  BY <1>10 DEF ListDevices, TypeOK, Moves, AboutDevices
<1>11. ASSUME NEW c \in Conn, NEW i \in 1 .. MaxCalls, NEW d \in Device,
              RegisterDevice(c, d, i)
       PROVE faults <= faults' /\ Moves(c) /\ \A e \in Conn \ {c} : Stays(e)
  <2>1. faults <= faults'
    BY <1>0, <1>11 DEF RegisterDevice
  <2> QED  BY <1>11, <2>1 DEF RegisterDevice, TypeOK, Moves, AboutDevices
<1>12. ASSUME NEW c \in Conn, ListFails(c)
       PROVE faults <= faults' /\ Moves(c) /\ \A e \in Conn \ {c} : Stays(e)
  <2>1. faults <= faults'
    BY <1>0, <1>12 DEF ListFails
  <2> QED  BY <1>12, <2>1 DEF ListFails, TypeOK, Moves, AboutDevices
<1> QED
  BY <1>0, <1>1, <1>2, <1>3, <1>4, <1>5, <1>6, <1>7, <1>8, <1>9, <1>10, <1>11, <1>12
  DEF Next

\* Facts of the table that the steps below need.
LEMMA TableSteps ==
    ASSUME AccountsInv, [Next]_vars
    PROVE  /\ TypeOK /\ TypeOK' /\ Kept /\ UniqueNames /\ UniqueNames'
           /\ \A u \in Range(users) : u \in Range(users')
           /\ \A n \in Name : Taken(n) => \E i \in DOMAIN users' : users'[i].name = n
           /\ faults \in Nat /\ faults' \in Nat /\ faults <= faults'
<1>1. TypeOK /\ TypeOK' /\ UniqueNames
  BY TypeNext DEF AccountsInv
<1>2. Kept /\ UniqueNames'
  BY <1>1, RowsAreKept, UniqueNext
<1>3. faults \in Nat /\ faults' \in Nat
  BY <1>1, AccountsAssumption DEF TypeOK
<1> QED  BY <1>1, <1>2, <1>3, StaysThere, OneMoves

LEMMA HeldNext == AccountsInv /\ [Next]_vars => HeldIsThere'
<1> SUFFICES ASSUME AccountsInv, [Next]_vars, NEW c \in Conn
             PROVE  /\ call'[c].pc = "sign" =>
                          /\ call'[c].id \in DOMAIN users'
                          /\ users'[call'[c].id] =
                                [name |-> call'[c].name, pw |-> call'[c].pw]
                    /\ call'[c].pc = "verify" =>
                          /\ call'[c].id \in DOMAIN users'
                          /\ users'[call'[c].id] =
                                [name |-> call'[c].name, pw |-> call'[c].hash]
  BY DEF HeldIsThere, At
<1>1. TypeOK /\ Kept /\ HeldIsThere
  BY TableSteps DEF AccountsInv
<1>2. CASE Stays(c) \/ AboutDevices(c)
  BY <1>1, <1>2 DEF Stays, AboutDevices, HeldIsThere, At, Kept
<1>3. CASE Begins(c) \/ ToInsert(c) \/ IsAnswered(c) \/ IsLeft(c)
  BY <1>3 DEF Begins, ToInsert, IsAnswered, IsLeft, Told
<1>4. CASE ToSign(c)
  <2>1. /\ DOMAIN users' = 1 .. Len(users) + 1 /\ Len(users) \in Nat
        /\ users'[Len(users) + 1] = [name |-> call[c].name, pw |-> call[c].pw]
    BY <1>1, <1>4, InsertAppends, RangeOfUsers DEF ToSign
  <2> QED  BY <1>4, <2>1 DEF ToSign
<1>5. CASE ToVerify(c)
  <2>1. PICK i \in DOMAIN users :
          /\ users[i].name = call[c].name
          /\ call'[c] = [pc |-> "verify", name |-> call[c].name, pw |-> call[c].pw,
                         id |-> i, hash |-> users[i].pw]
    BY <1>5 DEF ToVerify
  <2>2. users[i] = [name |-> users[i].name, pw |-> users[i].pw]
    BY <1>1, RangeOfUsers DEF User
  <2> QED  BY <1>1, <2>1, <2>2 DEF Kept
<1> QED
  BY <1>1, <1>2, <1>3, <1>4, <1>5, OneMoves DEF Moves

\* Who holds a row after a step held it before, or inserted it.
LEMMA WinnersOfNext ==
    ASSUME AccountsInv, [Next]_vars, NEW c \in Conn, NEW i \in Nat,
           \/ call'[c].pc = "sign" /\ call'[c].id = i
           \/ reply'[c].op = "register" /\ reply'[c].code = "ok" /\ reply'[c].id = i
    PROVE  Winner(c, i) \/ (ToSign(c) /\ i = Len(users) + 1)
<1>1. CASE Stays(c) \/ AboutDevices(c)
  BY <1>1 DEF Stays, AboutDevices, Winner, Answered, At
<1>5. CASE ToInsert(c) \/ ToVerify(c) \/ IsLeft(c)
  <2>1. call'[c].pc # "sign" /\ reply'[c] = reply[c]
    <3>1. CASE ToInsert(c) \/ IsLeft(c)
      BY <3>1 DEF ToInsert, IsLeft
    <3>2. CASE ToVerify(c)
      BY <3>2 DEF ToVerify
    <3> QED  BY <1>5, <3>1, <3>2
  <2> QED  BY <2>1 DEF Winner, Answered
<1>2. CASE Begins(c)
  BY <1>2 DEF Begins, NoReply
<1>3. CASE ToSign(c)
  BY <1>3 DEF ToSign, Winner, Answered
<1>4. CASE IsAnswered(c)
  BY <1>4 DEF IsAnswered, Told, Winner
<1> QED
  BY <1>1, <1>2, <1>3, <1>4, <1>5, TableSteps, OneMoves DEF Moves

LEMMA WinnersNext == AccountsInv /\ [Next]_vars => OneWinnerPerRow'
<1> SUFFICES ASSUME AccountsInv, [Next]_vars, NEW c \in Conn, NEW e \in Conn,
                    NEW i \in Nat,
                    \/ call'[c].pc = "sign" /\ call'[c].id = i
                    \/ /\ reply'[c].op = "register" /\ reply'[c].code = "ok"
                       /\ reply'[c].id = i,
                    \/ call'[e].pc = "sign" /\ call'[e].id = i
                    \/ /\ reply'[e].op = "register" /\ reply'[e].code = "ok"
                       /\ reply'[e].id = i
             PROVE  c = e /\ i \in DOMAIN users'
  BY DEF OneWinnerPerRow, Winner, Answered, At
<1>1. TypeOK /\ Kept /\ OneWinnerPerRow
  BY TableSteps DEF AccountsInv
<1>2. /\ Winner(c, i) \/ (ToSign(c) /\ i = Len(users) + 1)
      /\ Winner(e, i) \/ (ToSign(e) /\ i = Len(users) + 1)
  BY WinnersOfNext
<1>3. DOMAIN users = 1 .. Len(users) /\ Len(users) \in Nat
  BY <1>1, RangeOfUsers
<1>4. CASE Winner(c, i) /\ Winner(e, i)
  BY <1>1, <1>4 DEF OneWinnerPerRow, Kept
<1>5. CASE ToSign(c) /\ ToSign(e) /\ i = Len(users) + 1
  <2>1. c = e
    <3>1. \A x \in Conn : ToSign(x) => ~ Stays(x)
      BY DEF ToSign, Stays, At
    <3> QED  BY <1>1, <1>5, <3>1, OneMoves
  <2>2. DOMAIN users' = 1 .. Len(users) + 1
    BY <1>1, <1>5, InsertAppends DEF ToSign
  <2> QED  BY <1>3, <1>5, <2>1, <2>2
<1>6. \A x \in Conn : ~ (Winner(x, i) /\ i = Len(users) + 1)
  BY <1>1, <1>3 DEF OneWinnerPerRow
<1> QED  BY <1>2, <1>4, <1>5, <1>6

LEMMA TokensNext == AccountsInv /\ [Next]_vars => TokensAreOwn'
<1> SUFFICES ASSUME AccountsInv, [Next]_vars, NEW c \in Conn,
                    reply'[c].op \in {"register", "login"}, reply'[c].code = "ok"
             PROVE  /\ reply'[c].id \in DOMAIN users'
                    /\ users'[reply'[c].id] =
                          [name |-> reply'[c].name, pw |-> reply'[c].pw]
  BY DEF TokensAreOwn, Answered
<1>1. TypeOK /\ Kept /\ TokensAreOwn /\ HeldIsThere
  BY TableSteps DEF AccountsInv
<1>2. CASE reply'[c] = reply[c]
  BY <1>1, <1>2 DEF TokensAreOwn, Answered, Kept
<1>3. CASE Begins(c) \/ AboutDevices(c)
  BY <1>3 DEF Begins, AboutDevices, NoReply
<1>4. CASE IsAnswered(c)
  <2>1. /\ reply'[c].id = call[c].id /\ reply'[c].name = call[c].name
        /\ reply'[c].pw = call[c].pw
        /\ \/ At(c, "sign")
           \/ At(c, "verify") /\ call[c].pw = call[c].hash
    BY <1>4 DEF IsAnswered, Told
  <2>2. /\ call[c].id \in DOMAIN users
        /\ users[call[c].id] = [name |-> call[c].name, pw |-> call[c].pw]
    BY <1>1, <2>1 DEF HeldIsThere
  <2> QED  BY <1>1, <2>1, <2>2 DEF Kept
<1> QED
  BY <1>1, <1>2, <1>3, <1>4, OneMoves
  DEF Moves, Stays, ToInsert, ToSign, ToVerify, IsLeft

LEMMA AsOfNext == AccountsInv /\ [Next]_vars => AsOfIsThere'
<1> SUFFICES ASSUME AccountsInv, [Next]_vars, NEW c \in Conn
             PROVE  asOf'[c] \subseteq Range(users')
  BY DEF AsOfIsThere
<1>1. TypeOK /\ AsOfIsThere /\ \A u \in Range(users) : u \in Range(users')
  BY TableSteps DEF AccountsInv
<1>2. asOf'[c] = asOf[c] \/ asOf'[c] = Range(users)
  BY <1>1, OneMoves
  DEF Moves, Stays, Begins, ToInsert, ToSign, ToVerify, IsAnswered, Told, IsLeft,
      AboutDevices
<1> QED  BY <1>1, <1>2 DEF AsOfIsThere

LEMMA RefusedNext == AccountsInv /\ [Next]_vars => RefusedIsTaken'
<1> SUFFICES ASSUME AccountsInv, [Next]_vars, NEW c \in Conn,
                    reply'[c].op = "register", reply'[c].code \in {"error", "conflict"}
             PROVE  \/ reply'[c].code = "error" /\ faults' > 0
                    \/ \E i \in DOMAIN users' : users'[i].name = reply'[c].name
  BY DEF RefusedIsTaken, Taken
<1>1. /\ TypeOK /\ TypeOK' /\ RefusedIsTaken
      /\ \A n \in Name : Taken(n) => \E i \in DOMAIN users' : users'[i].name = n
      /\ faults \in Nat /\ faults' \in Nat /\ faults <= faults'
  BY TableSteps DEF AccountsInv
<1>2. reply'[c].name \in Name
  <2>1. reply'[c] \in Reply
    BY <1>1 DEF TypeOK
  <2> QED  BY <2>1 DEF Reply, NoReply
<1>3. CASE reply'[c] = reply[c]
  BY <1>1, <1>2, <1>3 DEF RefusedIsTaken
<1>4. CASE Begins(c) \/ AboutDevices(c)
  BY <1>4 DEF Begins, AboutDevices, NoReply
<1>5. CASE IsAnswered(c)
  <2>1. /\ reply'[c].name = call[c].name
        /\ Taken(call[c].name) \/ (reply'[c].code = "error" /\ faults' > 0)
    BY <1>5 DEF IsAnswered, Told
  <2> QED  BY <1>1, <1>2, <2>1
<1> QED
  BY <1>1, <1>3, <1>4, <1>5, OneMoves
  DEF Moves, Stays, ToInsert, ToSign, ToVerify, IsLeft

LEMMA LetInNext == AccountsInv /\ [Next]_vars => AccountsLetIn'
<1> SUFFICES ASSUME AccountsInv, [Next]_vars, NEW c \in Conn,
                    reply'[c].op = "login", reply'[c].code = "unauthorized"
             PROVE  [name |-> reply'[c].name, pw |-> reply'[c].pw] \notin asOf'[c]
  BY DEF AccountsLetIn, Answered
<1>1. TypeOK /\ AccountsLetIn /\ UniqueNames /\ AsOfIsThere /\ HeldIsThere
  BY DEF AccountsInv
<1>2. CASE reply'[c] = reply[c] /\ asOf'[c] = asOf[c]
  BY <1>1, <1>2 DEF AccountsLetIn, Answered
<1>3. CASE Begins(c) \/ AboutDevices(c)
  BY <1>3 DEF Begins, AboutDevices, NoReply
<1>4. CASE IsAnswered(c)
  <2> DEFINE u == [name |-> call[c].name, pw |-> call[c].pw]
  <2>1. /\ reply'[c].name = call[c].name /\ reply'[c].pw = call[c].pw
        /\ asOf'[c] = asOf[c]
        /\ \/ At(c, "look") /\ ~ Taken(call[c].name)
           \/ At(c, "verify") /\ call[c].pw # call[c].hash
    BY <1>4 DEF IsAnswered, Told
  <2>2. SUFFICES ASSUME u \in asOf[c]  PROVE FALSE
    BY <2>1
  <2>3. PICK j \in DOMAIN users : users[j] = u
    BY <1>1, <2>2, RangeOfUsers DEF AsOfIsThere
  <2>4. users[j].name = call[c].name /\ users[j].pw = call[c].pw
    BY <2>3
  <2>5. CASE At(c, "look") /\ ~ Taken(call[c].name)
    BY <2>4, <2>5 DEF Taken
  <2>6. CASE At(c, "verify") /\ call[c].pw # call[c].hash
    <3>1. /\ call[c].id \in DOMAIN users /\ users[call[c].id].name = call[c].name
          /\ users[call[c].id].pw = call[c].hash
      <4>1. /\ call[c].id \in DOMAIN users
            /\ users[call[c].id] = [name |-> call[c].name, pw |-> call[c].hash]
        BY <1>1, <2>6 DEF HeldIsThere
      <4> QED  BY <4>1
    <3>2. j = call[c].id
      BY <1>1, <2>4, <3>1 DEF UniqueNames
    <3> QED  BY <2>4, <2>6, <3>1, <3>2
  <2> QED  BY <2>1, <2>5, <2>6
<1> QED
  BY <1>1, <1>2, <1>3, <1>4, OneMoves
  DEF Moves, Stays, ToInsert, ToSign, ToVerify, IsLeft

LEMMA AccountsNext == AccountsInv /\ [Next]_vars => AccountsInv'
  BY TableSteps, HeldNext, WinnersNext, TokensNext, AsOfNext, RefusedNext, LetInNext
  DEF AccountsInv

LEMMA AccountsInvariant == Spec => []AccountsInv
  BY AccountsInit, AccountsNext, PTL DEF Spec

\* A token is made for the row the request gave name and password of.
THEOREM TokensMatch == Spec => []TokensAreOwn
<1>1. AccountsInv => TokensAreOwn
  BY DEF AccountsInv
<1> QED  BY <1>1, AccountsInvariant, PTL

\* Of any number of racing registrations of one name exactly one wins.
THEOREM RacesAreWon == Spec => []OneRegistrationWins
<1>1. AccountsInv => OneRegistrationWins
  <2> SUFFICES ASSUME AccountsInv, NEW c \in Conn, reply[c].op = "register"
               PROVE  /\ reply[c].code = "error" => faults > 0 \/ Taken(reply[c].name)
                      /\ reply[c].code = "conflict" => Taken(reply[c].name)
                      /\ \A e \in Conn \ {c} :
                            ~ (/\ Answered(c, "register", "ok")
                               /\ Answered(e, "register", "ok")
                               /\ reply[c].name = reply[e].name)
    BY DEF OneRegistrationWins
  <2>1. ASSUME NEW e \in Conn \ {c}, Answered(c, "register", "ok"),
               Answered(e, "register", "ok"), reply[c].name = reply[e].name
        PROVE FALSE
    <3>1. ASSUME NEW x \in Conn, Answered(x, "register", "ok")
          PROVE  /\ reply[x].id \in DOMAIN users
                 /\ users[reply[x].id].name = reply[x].name
      <4>1. /\ reply[x].id \in DOMAIN users
            /\ users[reply[x].id] = [name |-> reply[x].name, pw |-> reply[x].pw]
        BY <3>1 DEF AccountsInv, TokensAreOwn
      <4> QED  BY <4>1
    <3>2. reply[c].id = reply[e].id
      BY <2>1, <3>1 DEF AccountsInv, UniqueNames
    <3>3. reply[c].id \in Nat
      BY <2>1, <3>1, RangeOfUsers DEF AccountsInv
    <3> QED  BY <2>1, <3>2, <3>3 DEF AccountsInv, OneWinnerPerRow, Winner
  <2> QED  BY <2>1 DEF AccountsInv, RefusedIsTaken
<1> QED  BY <1>1, AccountsInvariant, PTL

\* No login is refused for an account that was there when it was called.
THEOREM OwnersGetIn == Spec => []AccountsLetIn
<1>1. AccountsInv => AccountsLetIn
  BY DEF AccountsInv
<1> QED  BY <1>1, AccountsInvariant, PTL

-----------------------------------------------------------------------------
(* Devices *)

\* A device, once registered, keeps its user; so what was listed stays true.
ListsStayTrue ==
    \A c \in Conn : reply[c].op = "list" =>
        reply[c].id # 0 /\ \A d \in reply[c].devices : owner[d] = reply[c].id

LEMMA ListsNext == TypeOK /\ ListsStayTrue /\ [Next]_vars => ListsStayTrue'
<1> SUFFICES ASSUME TypeOK, ListsStayTrue, [Next]_vars, NEW c \in Conn,
                    reply'[c].op = "list"
             PROVE  /\ reply'[c].id # 0
                    /\ \A d \in reply'[c].devices : owner'[d] = reply'[c].id
  BY DEF ListsStayTrue
<1>1. \A d \in Device : owner[d] # 0 => owner'[d] = owner[d]
  <2>1. \/ owner' = owner
        \/ \E d \in Device, i \in 1 .. MaxCalls :
              owner' = [owner EXCEPT ![d] = OwnerAfter(d, i)]
    BY DEF Next, vars, Call, CallFails, ClientLeaves, RegisterSelect, RegisterInsert,
           RegisterSign, LoginSelect, LoginVerify, ListDevices, ListFails,
           RegisterDevice
  <2> QED  BY <2>1 DEF OwnerAfter, TypeOK
<1>2. CASE reply'[c] = reply[c]
  <2>1. reply[c].devices \subseteq Device
    <3>1. reply[c] \in Reply
      BY DEF TypeOK
    <3> QED  BY <1>2, <3>1 DEF Reply, NoReply
  <2> QED  BY <1>1, <1>2, <2>1 DEF ListsStayTrue
<1>3. CASE \E i \in 1 .. MaxCalls :
             /\ owner' = owner
             /\ reply'[c] = [op |-> "list", id |-> i,
                             devices |-> {d \in Device : owner[d] = i}]
  BY <1>3
<1>4. \/ reply'[c] = reply[c]
      \/ \E i \in 1 .. MaxCalls :
             /\ owner' = owner
             /\ reply'[c] = [op |-> "list", id |-> i,
                             devices |-> {d \in Device : owner[d] = i}]
  <2>1. ASSUME NEW e \in Conn, NEW i \in 1 .. MaxCalls, ListDevices(e, i)
        PROVE \/ reply'[c] = reply[c]
              \/ /\ owner' = owner
                 /\ reply'[c] = [op |-> "list", id |-> i,
                                 devices |-> {d \in Device : owner[d] = i}]
    BY <2>1 DEF ListDevices, TypeOK
  <2>2. \/ \E e \in Conn, i \in 1 .. MaxCalls : ListDevices(e, i)
        \/ reply' = reply
        \/ \E e \in Conn : \/ reply' = [reply EXCEPT ![e] = NoReply]
                           \/ ListFails(e)
                           \/ \E i \in 1 .. MaxCalls, d \in Device : RegisterDevice(e, d, i)
                           \/ \E op \in {"register", "login"},
                                 code \in {"ok", "conflict", "unauthorized", "error"} :
                                 \E i : Answer(e, op, code, i)
    BY DEF Next, vars, Call, CallFails, Op, ClientLeaves, RegisterSelect,
           RegisterInsert, RegisterSign, LoginSelect, LoginVerify
  <2>3. ASSUME NEW e \in Conn, reply' = [reply EXCEPT ![e] = NoReply]
        PROVE reply'[c] = reply[c]
    BY <2>3 DEF NoReply, TypeOK
  <2>4. ASSUME NEW e \in Conn, NEW i \in 1 .. MaxCalls, NEW d \in Device,
               RegisterDevice(e, d, i)
        PROVE reply'[c] = reply[c]
    BY <2>4 DEF RegisterDevice, TypeOK
  <2>5. ASSUME NEW e \in Conn, NEW op \in {"register", "login"},
               NEW code \in {"ok", "conflict", "unauthorized", "error"}, NEW i,
               Answer(e, op, code, i)
        PROVE reply'[c] = reply[c]
    BY <2>5 DEF Answer, TypeOK
  <2>6. ASSUME NEW e \in Conn, ListFails(e)
        PROVE reply'[c] = reply[c]
    BY <2>6 DEF ListFails, TypeOK
  <2> QED  BY <2>1, <2>2, <2>3, <2>4, <2>5, <2>6
<1> QED  BY <1>2, <1>3, <1>4

\* No device is ever listed for two users.
THEOREM DevicesHaveOneUser == Spec => []ListedForOneUser
<1>1. Init => ListsStayTrue
  BY DEF Init, ListsStayTrue, NoReply
<1>2. TypeOK /\ ListsStayTrue => ListedForOneUser
  BY DEF ListsStayTrue, ListedForOneUser
<1> QED  BY <1>1, <1>2, ListsNext, TypeCorrect, PTL DEF Spec

-----------------------------------------------------------------------------
(* Accounts implements AccountService *)

\* No id goes with a refusal.
RefusalsHaveNoId ==
    \A c \in Conn : reply[c].op \in {"register", "login"} /\ reply[c].code # "ok"
        => reply[c].id = 0

ServiceInv == AccountsInv /\ ListsStayTrue /\ RefusalsHaveNoId

LEMMA RefusalsInit == Init => RefusalsHaveNoId
BY DEF Init, RefusalsHaveNoId, NoReply

LEMMA RefusalsNext == TypeOK /\ RefusalsHaveNoId /\ [Next]_vars => RefusalsHaveNoId'
<1> SUFFICES ASSUME TypeOK, RefusalsHaveNoId, [Next]_vars, NEW c \in Conn,
                    reply'[c].op \in {"register", "login"}, reply'[c].code # "ok"
             PROVE  reply'[c].id = 0
  BY DEF RefusalsHaveNoId
<1>1. CASE reply'[c] = reply[c]
  BY <1>1 DEF RefusalsHaveNoId
<1>2. CASE Begins(c)
  BY <1>2 DEF Begins, NoReply
<1>3. CASE IsAnswered(c)
  BY <1>3 DEF IsAnswered, Told
<1>4. CASE AboutDevices(c)
  BY <1>4 DEF AboutDevices
<1>5. \/ reply'[c] = reply[c] \/ Begins(c) \/ IsAnswered(c) \/ AboutDevices(c)
  BY OneMoves DEF Stays, Moves, ToInsert, ToSign, ToVerify, IsLeft
<1> QED  BY <1>1, <1>2, <1>3, <1>4, <1>5

LEMMA ServiceInvariant == Spec => []ServiceInv
<1>1. Init => ListsStayTrue
  BY DEF Init, ListsStayTrue, NoReply
<1>2. AccountsInv => TypeOK
  BY DEF AccountsInv
<1> QED
  BY <1>1, <1>2, AccountsInit, AccountsNext, ListsNext, RefusalsInit, RefusalsNext, PTL
  DEF Spec, ServiceInv

\* A row keeps its name, and an id its user.
LEMMA NamesStay ==
    ASSUME TypeOK, TypeOK', Kept, NEW i, i \in DOMAIN users \/ i = 0
    PROVE  NameOf(i)' = NameOf(i)
<1>1. CASE i \in DOMAIN users
  BY <1>1 DEF Kept, NameOf
<1>2. CASE i = 0
  <2>1. 0 \notin DOMAIN users /\ 0 \notin DOMAIN users'
    BY DEF TypeOK
  <2> QED  BY <1>2, <2>1 DEF NameOf
<1> QED  BY <1>1, <1>2

\* What the service shows of the tables.
Owners == [d \in Device |-> NameOf(owner[d])]
Requests == [c \in Conn |-> RequestOf(c)]
Answers == [c \in Conn |-> AnswerOf(reply[c])]

LEMMA OwnersStay ==
    ASSUME TypeOK, TypeOK', Kept, owner' = owner
    PROVE  Owners' = Owners
<1>1. \A d \in Device : owner[d] \in DOMAIN users \/ owner[d] = 0
  BY DEF TypeOK
<1>2. ASSUME NEW d \in Device
      PROVE  NameOf(owner[d])' = NameOf(owner[d])
  <2>1. PICK i : i = owner[d]
    OBVIOUS
  <2>2. i = owner'[d] /\ NameOf(i)' = NameOf(i)
    BY <1>1, <2>1, NamesStay
  <2> QED  BY <2>1, <2>2 DEF NameOf
<1> QED  BY <1>2 DEF Owners

LEMMA RequestStays ==
    ASSUME NEW c \in Conn, call'[c] = call[c]
    PROVE  RequestOf(c)' = RequestOf(c)
BY DEF RequestOf, Decision, Verifies, At, Op

LEMMA RequestsStay ==
    ASSUME call' = call
    PROVE  Requests' = Requests
BY RequestStays DEF Requests

\* One request moves.
LEMMA RequestMoves ==
    ASSUME NEW c \in Conn, NEW r, RequestOf(c)' = r,
           \A e \in Conn \ {c} : call'[e] = call[e]
    PROVE  Requests' = [Requests EXCEPT ![c] = r]
<1>1. \A e \in Conn \ {c} : RequestOf(e)' = RequestOf(e)
  BY RequestStays
<1> QED  BY <1>1 DEF Requests

\* What was answered keeps its meaning while rows are added.
LEMMA AnswerStays ==
    ASSUME ServiceInv, TypeOK', Kept, NEW c \in Conn, reply'[c] = reply[c]
    PROVE  AnswerOf(reply[c])' = AnswerOf(reply[c])
<1>1. TypeOK /\ TokensAreOwn /\ ListsStayTrue /\ RefusalsHaveNoId
  BY DEF ServiceInv, AccountsInv
<1>2. reply[c] \in Reply /\ \A d \in Device : owner[d] \in DOMAIN users \/ owner[d] = 0
  BY <1>1 DEF TypeOK
<1> DEFINE r == reply[c]
           i == reply[c].id
<1>3. AnswerOf(reply[c])' = AnswerOf(r)'
  OBVIOUS
<1>4. CASE r.op \in {"register", "login"}
  <2>1. i \in DOMAIN users \/ i = 0
    <3>1. CASE r.code = "ok"
      BY <1>1, <1>4, <3>1 DEF TokensAreOwn, Answered
    <3>2. CASE r.code # "ok"
      BY <1>1, <1>4, <3>2 DEF RefusalsHaveNoId
    <3> QED  BY <3>1, <3>2
  <2>2. (\E x : x = i /\ NameOf(x)' = NameOf(x)) /\ reply'[c].id = i
    BY <1>1, <2>1, NamesStay
  <2> QED  BY <1>4, <2>2 DEF AnswerOf, NameOf
<1>5. CASE r.op = "list"
  <2>1. CASE r.devices = {}
    BY <1>5, <2>1 DEF AnswerOf
  <2>2. CASE r.devices # {}
    <3>1. r.devices \subseteq Device
      BY <1>2, <1>5 DEF Reply, NoReply
    <3>2. i \in DOMAIN users
      BY <1>1, <1>2, <1>5, <2>2, <3>1 DEF ListsStayTrue
    <3>3. (\E x : x = i /\ NameOf(x)' = NameOf(x)) /\ reply'[c].id = i
      BY <1>1, <3>2, NamesStay
    <3> QED  BY <1>5, <2>2, <3>3 DEF AnswerOf, NameOf
  <2> QED  BY <2>1, <2>2
<1>6. CASE r.op \notin {"register", "login", "list"}
  BY <1>6 DEF AnswerOf
<1> QED  BY <1>4, <1>5, <1>6

LEMMA AnswersStay ==
    ASSUME ServiceInv, TypeOK', Kept, reply' = reply
    PROVE  Answers' = Answers
<1>1. ASSUME NEW c \in Conn
      PROVE  AnswerOf(reply[c])' = AnswerOf(reply[c])
  BY AnswerStays
<1> QED  BY <1>1 DEF Answers

LEMMA AnswerMoves ==
    ASSUME ServiceInv, TypeOK', Kept, NEW c \in Conn, NEW r,
           AnswerOf(reply[c])' = r,
           \A e \in Conn \ {c} : reply'[e] = reply[e]
    PROVE  Answers' = [Answers EXCEPT ![c] = r]
<1>1. ASSUME NEW e \in Conn \ {c}
      PROVE  AnswerOf(reply[e])' = AnswerOf(reply[e])
  BY AnswerStays
<1> QED  BY <1>1 DEF Answers

\* The columns of users, as the service's accounts.
LEMMA AccountsAre ==
    ASSUME TypeOK, NEW n, NEW w
    PROVE  /\ Service!Known(n) <=> Taken(n)
           /\ [name |-> n, pw |-> w] \in Range(users) <=>
                 \E i \in DOMAIN users : users[i].name = n /\ users[i].pw = w
<1>1. /\ \A i \in DOMAIN users : users[i] \in Range(users) /\ users[i] \in User
      /\ \A u \in Range(users) : \E i \in DOMAIN users : users[i] = u
  BY RangeOfUsers
<1>2. Service!Known(n) <=> Taken(n)
  BY <1>1 DEF Service!Known, Taken
<1>3. \A i \in DOMAIN users : users[i] = [name |-> users[i].name, pw |-> users[i].pw]
  BY <1>1 DEF User
<1> QED  BY <1>1, <1>2, <1>3

LEMMA InsertAdds ==
    ASSUME TypeOK, NEW c \in Conn, At(c, "insert"), users' = Inserted(c)
    PROVE  Range(users') = Range(users) \cup {[name |-> call[c].name, pw |-> call[c].pw]}
<1>1. /\ DOMAIN users' = 1 .. Len(users) + 1
      /\ \A i \in DOMAIN users : users'[i] = users[i]
      /\ users'[Len(users) + 1] = [name |-> call[c].name, pw |-> call[c].pw]
  BY InsertAppends
<1>2. DOMAIN users = 1 .. Len(users) /\ Len(users) \in Nat
  BY RangeOfUsers
<1>3. DOMAIN users' = DOMAIN users \cup {Len(users) + 1}
  BY <1>1, <1>2
<1>4. \A u : u \in Range(users') <=> \E i \in DOMAIN users' : users'[i] = u
  BY DEF Range
<1>5. \A u : u \in Range(users) <=> \E i \in DOMAIN users : users[i] = u
  BY DEF Range
<1>6. \A u : u \in Range(users') <=>
          u \in Range(users) \/ u = [name |-> call[c].name, pw |-> call[c].pw]
  BY <1>1, <1>3, <1>4, <1>5
<1> QED  BY <1>6

-----------------------------------------------------------------------------

\* What every step brings along.
LEMMA ServiceStep ==
    ASSUME ServiceInv, [Next]_vars
    PROVE  TypeOK /\ TypeOK' /\ Kept
<1>1. TypeOK
  BY DEF ServiceInv, AccountsInv
<1> QED  BY <1>1, TypeNext, RowsAreKept

\* The request c has at a place of its handler.
LEMMA RequestAt ==
    ASSUME NEW c \in Conn, ~ At(c, "idle")
    PROVE  /\ Requests[c] = [op |-> Op(call[c].pc), name |-> call[c].name,
                             pw |-> call[c].pw, code |-> Decision(c)]
           /\ Requests[c].op = Op(call[c].pc) /\ Requests[c].name = call[c].name
           /\ Requests[c].pw = call[c].pw /\ Requests[c].code = Decision(c)
           /\ Requests[c] # Service!Nothing
           /\ Service!Open(c) <=> Decision(c) = "open"
<1>1. Requests[c] = [op |-> Op(call[c].pc), name |-> call[c].name,
                    pw |-> call[c].pw, code |-> Decision(c)]
  BY DEF Requests, RequestOf
<1>2. Op(call[c].pc) # "none"
  BY DEF Op
<1>3. Requests[c] # Service!Nothing
  BY <1>1, <1>2 DEF Service!Nothing
<1>4. /\ Requests[c].op = Op(call[c].pc) /\ Requests[c].name = call[c].name
      /\ Requests[c].pw = call[c].pw /\ Requests[c].code = Decision(c)
  BY <1>1
<1> QED  BY <1>1, <1>3, <1>4 DEF Service!Open, Requests

\* An answer is told to the client, and its request is over.
LEMMA AnswerIsTold ==
    ASSUME ServiceInv, TypeOK', Kept, NEW c \in Conn, ~ At(c, "idle"),
           NEW code \in {"ok", "conflict", "unauthorized", "error"}, NEW i \in Nat,
           Answer(c, Op(call[c].pc), code, i), UNCHANGED <<users, owner>>,
           NameOf(i) = IF code = "ok" THEN {call[c].name} ELSE {}
    PROVE  Service!Tells(c, code)
<1>0. TypeOK
  BY DEF ServiceInv, AccountsInv
<1>1. Op(call[c].pc) \in {"register", "login"}
  BY DEF Op
<1>2. /\ call'[c] = Idle /\ \A e \in Conn \ {c} : call'[e] = call[e]
      /\ reply'[c] = [op |-> Op(call[c].pc), code |-> code, name |-> call[c].name,
                      pw |-> call[c].pw, id |-> i]
      /\ \A e \in Conn \ {c} : reply'[e] = reply[e]
  BY <1>0 DEF Answer, TypeOK
<1>3. RequestOf(c)' = Service!Nothing
  BY <1>2 DEF RequestOf, At, Idle, Service!Nothing
<1>4. Requests' = [Requests EXCEPT ![c] = Service!Nothing]
  <2>1. PICK r : r = Service!Nothing
    OBVIOUS
  <2> QED  BY <1>2, <1>3, <2>1, RequestMoves
<1>5. PICK r : r = [op |-> Op(call[c].pc), code |-> code, name |-> call[c].name,
                    pw |-> call[c].pw,
                    token |-> IF code = "ok" THEN {call[c].name} ELSE {}]
  OBVIOUS
<1>6. AnswerOf(reply[c])' = r
  <2>1. NameOf(i)' = NameOf(i)
    BY DEF NameOf
  <2> QED  BY <1>1, <1>2, <1>5, <2>1 DEF AnswerOf, NameOf
<1>7. Answers' = [Answers EXCEPT ![c] = r]
  BY <1>2, <1>6, AnswerMoves
<1>8. Owners' = Owners /\ Range(users)' = Range(users)
  BY <1>0, OwnersStay
<1>9. r = [op |-> Requests[c].op, code |-> code, name |-> Requests[c].name,
           pw |-> Requests[c].pw,
           token |-> IF code = "ok" THEN {Requests[c].name} ELSE {}]
  <2>1. /\ Requests[c].op = Op(call[c].pc) /\ Requests[c].name = call[c].name
        /\ Requests[c].pw = call[c].pw
    BY RequestAt
  <2> QED  BY <1>5, <2>1
<1> QED  BY <1>4, <1>7, <1>8, <1>9, RequestAt DEF Service!Tells, Requests, Answers, Owners

\* The statements, one by one.
LEMMA CallAsks ==
    ASSUME ServiceInv, [Next]_vars, NEW c \in Conn, NEW n \in Name, NEW w \in Password,
           NEW pc \in {"select", "look"}, Call(c, pc, n, w)
    PROVE  Service!Ask(c)
<1>0. TypeOK /\ TypeOK' /\ Kept
  BY ServiceStep
<1>1. /\ call'[c] = [pc |-> pc, name |-> n, pw |-> w] /\ reply'[c] = NoReply
      /\ \A e \in Conn \ {c} : call'[e] = call[e] /\ reply'[e] = reply[e]
      /\ users' = users /\ owner' = owner /\ faults' = faults /\ At(c, "idle")
  BY <1>0 DEF Call, TypeOK
<1>2. PICK r \in Service!Asked : r = [op |-> Op(pc), name |-> n, pw |-> w, code |-> "open"]
  <2>1. Op(pc) \in {"register", "login"}
    BY DEF Op
  <2>2. [op |-> Op(pc), name |-> n, pw |-> w, code |-> "open"] \in Service!Asked
    BY <2>1 DEF Service!Asked
  <2> QED  BY <2>2
<1>3. RequestOf(c)' = r
  BY <1>1, <1>2 DEF RequestOf, Decision, At
<1>4. Requests' = [Requests EXCEPT ![c] = r]
  BY <1>1, <1>3, RequestMoves
<1>5. PICK a : a = Service!Nothing
  OBVIOUS
<1>6. AnswerOf(reply[c])' = a
  BY <1>1, <1>5 DEF AnswerOf, NoReply, Service!Nothing
<1>7. Answers' = [Answers EXCEPT ![c] = a]
  BY <1>0, <1>1, <1>6, AnswerMoves
<1>8. Requests[c] = Service!Nothing
  BY <1>1 DEF Requests, RequestOf, Service!Nothing
<1>9. Owners' = Owners /\ Range(users)' = Range(users)
  BY <1>0, <1>1, OwnersStay
<1> QED
  BY <1>1, <1>4, <1>5, <1>7, <1>8, <1>9 DEF Service!Ask, Requests, Answers, Owners

LEMMA FailureFails ==
    ASSUME ServiceInv, [Next]_vars, NEW c \in Conn, CallFails(c)
    PROVE  Service!Fails(c)
<1>0. TypeOK /\ TypeOK' /\ Kept
  BY ServiceStep
<1>1. NameOf(0) = {}
  BY <1>0 DEF NameOf, TypeOK
<1>2. Service!Tells(c, "error")
  BY <1>0, <1>1, AnswerIsTold DEF CallFails
<1> QED  BY <1>2 DEF Service!Fails, CallFails

\* A row is inserted: the registration takes effect.
LEMMA InsertApplies ==
    ASSUME TypeOK, NEW c \in Conn, At(c, "insert"), Insertable(call[c].name),
           users' = Inserted(c)
    PROVE  /\ Service!Open(c)
           /\ Service!Verdict(Requests[c]) = "ok"
           /\ Range(users)' = Service!Applied(Requests[c])
<1>1. Decision(c) = "open" /\ Op(call[c].pc) = "register" /\ ~ At(c, "idle")
  BY DEF Decision, At, Op
<1>2. ~ Service!Known(call[c].name)
  BY AccountsAre DEF Insertable
<1>3. /\ Requests[c].op = "register" /\ Requests[c].name = call[c].name
      /\ Requests[c].pw = call[c].pw /\ Service!Open(c)
  BY <1>1, RequestAt
<1>4. Service!Verdict(Requests[c]) = "ok"
  BY <1>2, <1>3 DEF Service!Verdict
<1>5. Service!Applied(Requests[c])
        = Range(users) \cup {[name |-> call[c].name, pw |-> call[c].pw]}
  BY <1>3, <1>4 DEF Service!Applied, Service!Account
<1> QED  BY <1>3, <1>4, <1>5, InsertAdds

LEMMA ClientLeavesLeaves ==
    ASSUME ServiceInv, [Next]_vars, NEW c \in Conn, ClientLeaves(c)
    PROVE  Service!Leaves(c)
<1>0. TypeOK /\ TypeOK' /\ Kept
  BY ServiceStep
<1>1. /\ call'[c] = Idle /\ \A e \in Conn \ {c} : call'[e] = call[e]
      /\ reply' = reply /\ owner' = owner /\ faults' = faults /\ ~ At(c, "idle")
  BY <1>0 DEF ClientLeaves, TypeOK
<1>2. PICK r : r = Service!Nothing
  OBVIOUS
<1>3. RequestOf(c)' = r
  BY <1>1, <1>2 DEF RequestOf, At, Idle, Service!Nothing
<1>4. Requests' = [Requests EXCEPT ![c] = r] /\ Answers' = Answers /\ Owners' = Owners
  BY <1>0, <1>1, <1>3, RequestMoves, AnswersStay, OwnersStay
<1>5. \/ Range(users)' = Range(users)
      \/ Service!Open(c) /\ Range(users)' = Service!Applied(Requests[c])
  BY <1>0, InsertApplies DEF ClientLeaves
<1>6. Requests[c] # Service!Nothing
  BY <1>1, RequestAt
<1> QED
  BY <1>1, <1>2, <1>4, <1>5, <1>6 DEF Service!Leaves, Requests, Answers, Owners

\* The handler goes on: its request is as decided as before.
LEMMA HandlerGoesOn ==
    ASSUME ServiceInv, [Next]_vars, NEW c \in Conn, UNCHANGED <<users, owner, reply, faults>>,
           RequestOf(c)' = RequestOf(c), \A e \in Conn \ {c} : call'[e] = call[e]
    PROVE  UNCHANGED Service!vars
<1>0. TypeOK /\ TypeOK' /\ Kept
  BY ServiceStep
<1>1. Requests' = Requests
  BY RequestStays DEF Requests
<1>2. Answers' = Answers /\ Owners' = Owners /\ Range(users)' = Range(users)
  BY <1>0, AnswersStay, OwnersStay
<1> QED
  BY <1>1, <1>2 DEF Service!vars, Requests, Answers, Owners

LEMMA SelectAnswersOrGoesOn ==
    ASSUME ServiceInv, [Next]_vars, NEW c \in Conn, RegisterSelect(c)
    PROVE  Service!Responds(c) \/ UNCHANGED Service!vars
<1>0. TypeOK /\ TypeOK' /\ Kept
  BY ServiceStep
<1>1. /\ Decision(c) = "open" /\ Op(call[c].pc) = "register" /\ ~ At(c, "idle")
      /\ users' = users /\ owner' = owner /\ faults' = faults
  BY DEF RegisterSelect, Decision, At, Op
<1>2. CASE Taken(call[c].name) /\ Answer(c, "register", "conflict", 0)
  <2>1. NameOf(0) = {}
    BY <1>0 DEF NameOf, TypeOK
  <2>2. Service!Tells(c, "conflict")
    BY <1>0, <1>1, <1>2, <2>1, AnswerIsTold
  <2>3. Service!Known(call[c].name)
    BY <1>0, <1>2, AccountsAre
  <2>4. /\ Requests[c].op = "register" /\ Requests[c].name = call[c].name
        /\ Service!Open(c)
    BY <1>1, RequestAt
  <2>5. Service!Verdict(Requests[c]) = "conflict"
    BY <2>3, <2>4 DEF Service!Verdict
  <2> QED  BY <1>1, <2>2, <2>4, <2>5 DEF Service!Responds, Requests
<1>3. CASE /\ UNCHANGED reply
           /\ call' = [call EXCEPT ![c] =
                 [pc |-> "insert", name |-> call[c].name, pw |-> call[c].pw]]
  <2>1. /\ call'[c] = [pc |-> "insert", name |-> call[c].name, pw |-> call[c].pw]
        /\ \A e \in Conn \ {c} : call'[e] = call[e]
    BY <1>0, <1>3 DEF TypeOK
  <2>2. RequestOf(c)' = RequestOf(c)
    BY <1>1, <2>1 DEF RequestOf, Decision, At, Op
  <2> QED  BY <1>1, <1>3, <2>1, <2>2, HandlerGoesOn
<1> QED  BY <1>2, <1>3 DEF RegisterSelect

LEMMA InsertTakesEffectOrFails ==
    ASSUME ServiceInv, [Next]_vars, NEW c \in Conn, RegisterInsert(c)
    PROVE  Service!TakesEffect(c) \/ Service!Fails(c)
<1>0. TypeOK /\ TypeOK' /\ Kept
  BY ServiceStep
<1>1. /\ Decision(c) = "open" /\ Op(call[c].pc) = "register" /\ ~ At(c, "idle")
      /\ At(c, "insert") /\ owner' = owner /\ faults' = faults
  BY DEF RegisterInsert, Decision, At, Op
<1>2. /\ Requests[c].op = "register" /\ Requests[c].name = call[c].name
      /\ Requests[c].pw = call[c].pw /\ Service!Open(c)
  BY <1>1, RequestAt
<1>3. CASE /\ ~ Insertable(call[c].name) /\ Answer(c, "register", "error", 0)
           /\ UNCHANGED users
  <2>1. NameOf(0) = {}
    BY <1>0 DEF NameOf, TypeOK
  <2>2. Service!Tells(c, "error")
    BY <1>0, <1>1, <1>3, <2>1, AnswerIsTold
  <2>3. Service!Known(call[c].name)
    BY <1>0, <1>3, AccountsAre DEF Insertable
  <2>4. Service!Verdict(Requests[c]) = "conflict"
    BY <1>2, <2>3 DEF Service!Verdict
  <2> QED  BY <1>1, <1>2, <2>2, <2>4 DEF Service!Fails, Requests
<1>4. CASE /\ Insertable(call[c].name) /\ users' = Inserted(c) /\ UNCHANGED reply
           /\ call' = [call EXCEPT ![c] =
                 [pc |-> "sign", name |-> call[c].name, pw |-> call[c].pw,
                  id |-> Len(users) + 1]]
  <2>1. /\ Service!Verdict(Requests[c]) = "ok"
        /\ Range(users)' = Service!Applied(Requests[c])
    BY <1>0, <1>1, <1>4, InsertApplies
  <2>2. /\ call'[c] = [pc |-> "sign", name |-> call[c].name, pw |-> call[c].pw,
                       id |-> Len(users) + 1]
        /\ \A e \in Conn \ {c} : call'[e] = call[e]
    BY <1>0, <1>4 DEF TypeOK
  <2>3. PICK r : r = [op |-> Requests[c].op, name |-> Requests[c].name,
                      pw |-> Requests[c].pw, code |-> "ok"]
    OBVIOUS
  <2>4. RequestOf(c)' = r
    BY <1>2, <2>2, <2>3 DEF RequestOf, Decision, At, Op
  <2>5. Requests' = [Requests EXCEPT ![c] = r] /\ Answers' = Answers /\ Owners' = Owners
    BY <1>0, <1>1, <1>4, <2>2, <2>4, RequestMoves, AnswersStay, OwnersStay
  <2> QED
    BY <1>1, <1>2, <2>1, <2>3, <2>5 DEF Service!TakesEffect, Requests, Answers, Owners
<1> QED  BY <1>3, <1>4 DEF RegisterInsert

LEMMA SignResponds ==
    ASSUME ServiceInv, [Next]_vars, NEW c \in Conn, RegisterSign(c)
    PROVE  Service!Responds(c)
<1>0. TypeOK /\ TypeOK' /\ Kept /\ HeldIsThere
  BY ServiceStep DEF ServiceInv, AccountsInv
<1>1. /\ Decision(c) = "ok" /\ Op(call[c].pc) = "register" /\ ~ At(c, "idle")
      /\ At(c, "sign") /\ UNCHANGED <<users, owner, faults>>
  BY DEF RegisterSign, Decision, At, Op
<1>2. call[c].id \in Nat /\ NameOf(call[c].id) = {call[c].name}
  <2>1. /\ call[c].id \in DOMAIN users
        /\ users[call[c].id] = [name |-> call[c].name, pw |-> call[c].pw]
    BY <1>0, <1>1 DEF HeldIsThere
  <2> QED  BY <1>0, <1>1, <2>1, CallFields DEF NameOf
<1>3. Service!Tells(c, "ok")
  BY <1>0, <1>1, <1>2, AnswerIsTold DEF RegisterSign, OwnId
<1>4. Requests[c].code = "ok" /\ ~ Service!Open(c)
  BY <1>1, RequestAt
<1> QED  BY <1>1, <1>3, <1>4 DEF Service!Responds, Requests

LEMMA LookupTakesEffectOrResponds ==
    ASSUME ServiceInv, [Next]_vars, NEW c \in Conn, LoginSelect(c)
    PROVE  Service!TakesEffect(c) \/ Service!Responds(c)
<1>0. TypeOK /\ TypeOK' /\ Kept /\ UniqueNames
  BY ServiceStep DEF ServiceInv, AccountsInv
<1>1. /\ Decision(c) = "open" /\ Op(call[c].pc) = "login" /\ ~ At(c, "idle")
      /\ UNCHANGED <<users, owner, faults>>
  BY DEF LoginSelect, Decision, At, Op
<1>2. /\ Requests[c].op = "login" /\ Requests[c].name = call[c].name
      /\ Requests[c].pw = call[c].pw /\ Service!Open(c)
  BY <1>1, RequestAt
<1>3. Service!Account(Requests[c]) = [name |-> call[c].name, pw |-> call[c].pw]
  BY <1>2 DEF Service!Account
<1>4. CASE ~ Taken(call[c].name) /\ Answer(c, "login", "unauthorized", 0)
  <2>1. NameOf(0) = {}
    BY <1>0 DEF NameOf, TypeOK
  <2>2. Service!Tells(c, "unauthorized")
    BY <1>0, <1>1, <1>4, <2>1, AnswerIsTold
  <2>3. [name |-> call[c].name, pw |-> call[c].pw] \notin Range(users)
    BY <1>0, <1>4, AccountsAre DEF Taken
  <2>4. Service!Verdict(Requests[c]) = "unauthorized"
    BY <1>2, <1>3, <2>3 DEF Service!Verdict
  <2> QED  BY <1>1, <1>2, <2>2, <2>4 DEF Service!Responds, Requests
<1>5. ASSUME NEW i \in DOMAIN users, users[i].name = call[c].name, UNCHANGED reply,
             call' = [call EXCEPT ![c] =
                [pc |-> "verify", name |-> call[c].name, pw |-> call[c].pw,
                 id |-> i, hash |-> users[i].pw]]
      PROVE  Service!TakesEffect(c)
  <2>1. /\ call'[c] = [pc |-> "verify", name |-> call[c].name, pw |-> call[c].pw,
                       id |-> i, hash |-> users[i].pw]
        /\ \A e \in Conn \ {c} : call'[e] = call[e]
    BY <1>0, <1>5 DEF TypeOK
  <2>2. [name |-> call[c].name, pw |-> call[c].pw] \in Range(users)
          <=> call[c].pw = users[i].pw
    BY <1>0, <1>5, AccountsAre DEF UniqueNames
  <2>3. PICK v : v = IF call[c].pw = users[i].pw THEN "ok" ELSE "unauthorized"
    OBVIOUS
  <2>4. Service!Verdict(Requests[c]) = v
    BY <1>2, <1>3, <2>2, <2>3 DEF Service!Verdict
  <2>5. Service!Applied(Requests[c]) = Range(users)
    BY <1>2 DEF Service!Applied
  <2>6. PICK r : r = [op |-> Requests[c].op, name |-> Requests[c].name,
                      pw |-> Requests[c].pw, code |-> v]
    OBVIOUS
  <2>7. Decision(c)' = v
    BY <2>1, <2>3 DEF Decision, Verifies, At
  <2>8. RequestOf(c)' = r
    BY <1>2, <2>1, <2>6, <2>7 DEF RequestOf, At, Op
  <2>9. Requests' = [Requests EXCEPT ![c] = r] /\ Answers' = Answers /\ Owners' = Owners
    BY <1>0, <1>1, <1>5, <2>1, <2>8, RequestMoves, AnswersStay, OwnersStay
  <2> QED
    BY <1>1, <1>2, <2>4, <2>5, <2>6, <2>9
    DEF Service!TakesEffect, Requests, Answers, Owners
<1> QED  BY <1>4, <1>5 DEF LoginSelect

LEMMA VerifyResponds ==
    ASSUME ServiceInv, [Next]_vars, NEW c \in Conn, LoginVerify(c)
    PROVE  Service!Responds(c)
<1>0. TypeOK /\ TypeOK' /\ Kept /\ HeldIsThere
  BY ServiceStep DEF ServiceInv, AccountsInv
<1>1. /\ Op(call[c].pc) = "login" /\ ~ At(c, "idle") /\ At(c, "verify")
      /\ Decision(c) = (IF Verifies(c) THEN "ok" ELSE "unauthorized")
      /\ UNCHANGED <<users, owner, faults>>
  BY DEF LoginVerify, Decision, At, Op
<1>2. Requests[c].code = Decision(c) /\ ~ Service!Open(c)
  BY <1>1, RequestAt
<1>3. CASE Verifies(c) /\ Answer(c, "login", "ok", call[c].id)
  <2>1. call[c].id \in Nat /\ NameOf(call[c].id) = {call[c].name}
    <3>1. /\ call[c].id \in DOMAIN users
          /\ users[call[c].id] = [name |-> call[c].name, pw |-> call[c].hash]
      BY <1>0, <1>1 DEF HeldIsThere
    <3> QED  BY <1>0, <1>1, <3>1, CallFields DEF NameOf
  <2>2. Service!Tells(c, "ok")
    BY <1>0, <1>1, <1>3, <2>1, AnswerIsTold
  <2> QED  BY <1>1, <1>2, <1>3, <2>2 DEF Service!Responds, Requests
<1>4. CASE ~ Verifies(c) /\ Answer(c, "login", "unauthorized", 0)
  <2>1. NameOf(0) = {}
    BY <1>0 DEF NameOf, TypeOK
  <2>2. Service!Tells(c, "unauthorized")
    BY <1>0, <1>1, <1>4, <2>1, AnswerIsTold
  <2> QED  BY <1>1, <1>2, <1>4, <2>2 DEF Service!Responds, Requests
<1> QED  BY <1>3, <1>4 DEF LoginVerify

\* An id stands for a user of the service, and a device's owner for its user.
LEMMA IdsAreHolders ==
    ASSUME TypeOK, UniqueNames, NEW i \in Nat, i # 0
    PROVE  /\ NameOf(i) \in Service!Holders
           /\ NameOf(i) = {} <=> ~ Exists(i)
           /\ \A d \in Device : owner[d] = i <=>
                 Owners[d] # {} /\ Owners[d] = NameOf(i)
           /\ \A d \in Device : owner[d] = 0 <=> Owners[d] = {}
<1>1. /\ \A d \in Device : owner[d] \in Nat /\ owner[d] <= Len(users)
      /\ DOMAIN users = 1 .. Len(users) /\ Len(users) \in Nat
  BY RangeOfUsers DEF TypeOK
<1>2. NameOf(i) = {} <=> ~ Exists(i)
  BY DEF NameOf, Exists
<1>3. NameOf(i) \in Service!Holders
  <2>1. CASE i \in DOMAIN users
    BY <2>1, RangeOfUsers DEF NameOf, Service!Holders
  <2>2. CASE i \notin DOMAIN users
    BY <2>2 DEF NameOf, Service!Holders
  <2> QED  BY <2>1, <2>2
<1>4. ASSUME NEW d \in Device
      PROVE  /\ owner[d] = 0 <=> Owners[d] = {}
             /\ owner[d] = i <=> Owners[d] # {} /\ Owners[d] = NameOf(i)
  <2>1. Owners[d] = NameOf(owner[d])
    BY DEF Owners
  <2>0. owner[d] = 0 <=> owner[d] \notin DOMAIN users
    BY <1>1
  <2>2. owner[d] = 0 <=> Owners[d] = {}
    BY <2>0, <2>1 DEF NameOf
  <2>3. owner[d] # 0 => owner[d] \in DOMAIN users /\ Owners[d] = {users[owner[d]].name}
    BY <2>0, <2>1 DEF NameOf
  <2>4. NameOf(i) # {} => i \in DOMAIN users /\ NameOf(i) = {users[i].name}
    BY DEF NameOf
  <2>5. Owners[d] # {} /\ Owners[d] = NameOf(i) => owner[d] = i
    BY <2>2, <2>3, <2>4 DEF UniqueNames
  <2> QED  BY <2>1, <2>2, <2>5
<1> QED  BY <1>2, <1>3, <1>4

LEMMA ListIsListed ==
    ASSUME ServiceInv, [Next]_vars, NEW c \in Conn, NEW i \in 1 .. MaxCalls,
           ListDevices(c, i)
    PROVE  Service!DeviceRequest(c)
<1>0. TypeOK /\ TypeOK' /\ Kept /\ UniqueNames
  BY ServiceStep DEF ServiceInv, AccountsInv
<1>1. /\ reply'[c] = [op |-> "list", id |-> i, devices |-> {d \in Device : owner[d] = i}]
      /\ \A e \in Conn \ {c} : reply'[e] = reply[e]
      /\ UNCHANGED <<users, owner, call, faults>> /\ At(c, "idle")
      /\ i \in Nat /\ i # 0
  BY <1>0, AccountsAssumption DEF ListDevices, DeviceCall, TypeOK
<1> DEFINE D == {d \in Device : Owners[d] # {} /\ Owners[d] = NameOf(i)}
<1>2. NameOf(i) \in Service!Holders /\ D = {d \in Device : owner[d] = i}
  BY <1>0, <1>1, IdsAreHolders
<1>3. NameOf(i)' = NameOf(i)
  BY <1>1 DEF NameOf
<1>4. PICK r : r = [op |-> "list", user |-> IF D = {} THEN {} ELSE NameOf(i), devices |-> D]
  OBVIOUS
<1>5. AnswerOf(reply[c])' = r
  <2>1. PICK E : E = D
    OBVIOUS
  <2>2. reply'[c].op = "list" /\ reply'[c].id = i /\ reply'[c].devices = E
    BY <1>1, <1>2, <2>1
  <2>3. AnswerOf(reply[c])' =
          [op |-> "list", user |-> IF E = {} THEN {} ELSE NameOf(i)', devices |-> E]
    BY <2>2 DEF AnswerOf, NameOf
  <2> QED  BY <1>3, <1>4, <2>1, <2>3
<1>6. Answers' = [Answers EXCEPT ![c] = r]
  BY <1>0, <1>1, <1>5, AnswerMoves
<1>7. Requests' = Requests /\ Owners' = Owners /\ Range(users)' = Range(users)
  BY <1>0, <1>1, RequestsStay, OwnersStay
<1>8. Requests[c] = Service!Nothing
  BY <1>1 DEF Requests, RequestOf, Service!Nothing
<1>9. Service!ListDevices(c, NameOf(i))
  BY <1>1, <1>4, <1>6, <1>7 DEF Service!ListDevices, Answers, Owners
<1> QED
  BY <1>2, <1>7, <1>8, <1>9 DEF Service!DeviceRequest, Requests

LEMMA DeviceIsRegistered ==
    ASSUME ServiceInv, [Next]_vars, NEW c \in Conn, NEW i \in 1 .. MaxCalls,
           NEW d \in Device, RegisterDevice(c, d, i)
    PROVE  Service!DeviceRequest(c)
<1>0. TypeOK /\ TypeOK' /\ Kept /\ UniqueNames
  BY ServiceStep DEF ServiceInv, AccountsInv
<1>1. /\ \A e \in Conn \ {c} : reply'[e] = reply[e]
      /\ UNCHANGED <<users, call>> /\ At(c, "idle") /\ i \in Nat /\ i # 0
  BY <1>0, AccountsAssumption DEF RegisterDevice, DeviceCall, TypeOK
<1>2. /\ NameOf(i) \in Service!Holders
      /\ NameOf(i) = {} <=> ~ Exists(i)
      /\ owner[d] = 0 <=> Owners[d] = {}
  BY <1>0, <1>1, IdsAreHolders
<1>3. Requests' = Requests /\ Range(users)' = Range(users)
  BY <1>1, RequestsStay
<1>4. Requests[c] = Service!Nothing
  BY <1>1 DEF Requests, RequestOf, Service!Nothing
<1>5. ASSUME NEW r, r.op = "device", reply'[c] = r
      PROVE  Answers' = [Answers EXCEPT ![c] = r]
  <2>1. AnswerOf(reply[c])' = r
    BY <1>5 DEF AnswerOf
  <2> QED  BY <1>0, <1>1, <2>1, AnswerMoves
<1>6. PICK u : u = NameOf(i)
  OBVIOUS
<1>7. ASSUME Service!RegisterDevice(c, d, u)
      PROVE  Service!DeviceRequest(c)
  <2>1. u \in Service!Holders
    BY <1>2, <1>6
  <2> QED
    BY <1>3, <1>4, <1>7, <2>1 DEF Service!DeviceRequest, Requests
<1>8. CASE /\ Admitted(d, i) /\ UNCHANGED faults
           /\ owner' = [owner EXCEPT ![d] = OwnerAfter(d, i)]
           /\ reply' = [reply EXCEPT ![c] = [op |-> "device", code |-> "created"]]
  <2>1. Answers' = [Answers EXCEPT ![c] = [op |-> "device", code |-> "created"]]
    BY <1>0, <1>5, <1>8 DEF TypeOK
  <2>2. /\ owner'[d] = OwnerAfter(d, i)
        /\ \A x \in Device \ {d} : owner'[x] = owner[x]
    BY <1>0, <1>8 DEF TypeOK
  <2>3. Owners' = [Owners EXCEPT ![d] =
                     IF Owners[d] = {} THEN NameOf(i) ELSE Owners[d]]
    <3>1. NameOf(owner[d])' = IF Owners[d] = {} THEN NameOf(i) ELSE Owners[d]
      BY <1>1, <1>2, <2>2 DEF OwnerAfter, Owners, NameOf
    <3>2. \A x \in Device \ {d} : NameOf(owner[x])' = NameOf(owner[x])
      BY <1>1, <2>2 DEF NameOf
    <3> QED  BY <3>1, <3>2 DEF Owners
  <2>4. Owners' = [Owners EXCEPT ![d] = IF Owners[d] = {} THEN u ELSE Owners[d]]
    BY <1>6, <2>3
  <2>5. (u # {} \/ Owners[d] # {}) /\ UNCHANGED faults
    BY <1>2, <1>8, <1>6 DEF Admitted
  <2>6. Service!RegisterDevice(c, d, u)
    BY <2>1, <2>4, <2>5 DEF Service!RegisterDevice, Answers, Owners
  <2> QED  BY <1>7, <2>6
<1>9. CASE /\ (~ Admitted(d, i) /\ UNCHANGED faults) \/ faults' = faults + 1
           /\ reply' = [reply EXCEPT ![c] = [op |-> "device", code |-> "error"]]
           /\ UNCHANGED owner
  <2>1. Answers' = [Answers EXCEPT ![c] = [op |-> "device", code |-> "error"]]
    BY <1>0, <1>5, <1>9 DEF TypeOK
  <2>2. Owners' = Owners
    BY <1>0, <1>9, OwnersStay
  <2>3. (u = {} /\ Owners[d] = {} /\ UNCHANGED faults) \/ faults' = faults + 1
    BY <1>2, <1>9, <1>6 DEF Admitted
  <2>4. Service!RegisterDevice(c, d, u)
    BY <2>1, <2>2, <2>3 DEF Service!RegisterDevice, Answers, Owners
  <2> QED  BY <1>7, <2>4
<1> QED  BY <1>8, <1>9 DEF RegisterDevice

LEMMA ListFailureIsTold ==
    ASSUME ServiceInv, [Next]_vars, NEW c \in Conn, ListFails(c)
    PROVE  Service!DeviceRequest(c)
<1>0. TypeOK /\ TypeOK' /\ Kept /\ UniqueNames
  BY ServiceStep DEF ServiceInv, AccountsInv
<1>1. UNCHANGED <<users, owner, call>> /\ At(c, "idle")
  BY DEF ListFails, DeviceCall
<1>2. PICK code \in {"bad", "error"} :
          /\ reply' = [reply EXCEPT ![c] = [op |-> "device", code |-> code]]
          /\ faults' = IF code = "error" THEN faults + 1 ELSE faults
  BY DEF ListFails
<1>3. PICK r : r = [op |-> "device", code |-> code]
  OBVIOUS
<1>4. reply'[c] = r /\ \A e \in Conn \ {c} : reply'[e] = reply[e]
  BY <1>0, <1>2, <1>3 DEF TypeOK
<1>5. AnswerOf(reply[c])' = r
  BY <1>3, <1>4 DEF AnswerOf
<1>6. Answers' = [Answers EXCEPT ![c] = r]
  BY <1>0, <1>1, <1>4, <1>5, AnswerMoves
<1>7. Requests' = Requests /\ Owners' = Owners /\ Range(users)' = Range(users)
  BY <1>0, <1>1, RequestsStay, OwnersStay
<1>8. Requests[c] = Service!Nothing
  BY <1>1 DEF Requests, RequestOf, Service!Nothing
<1>9. Service!ListFails(c)
  BY <1>2, <1>3, <1>6, <1>7 DEF Service!ListFails, Answers, Owners
<1> QED
  BY <1>7, <1>8, <1>9 DEF Service!DeviceRequest, Requests

LEMMA ServiceInit == Init => Service!Init
<1> SUFFICES ASSUME Init  PROVE Service!Init
  OBVIOUS
<1>1. DOMAIN users = {} /\ Range(users) = {}
  BY DEF Init, Range
<1>2. /\ \A d \in Device : NameOf(owner[d]) = {}
      /\ \A c \in Conn : RequestOf(c) = Service!Nothing
      /\ \A c \in Conn : AnswerOf(reply[c]) = Service!Nothing
  BY <1>1 DEF Init, NameOf, RequestOf, AnswerOf, At, Idle, NoReply, Service!Nothing
<1> QED  BY <1>1, <1>2 DEF Init, Service!Init

LEMMA ServiceNext == ServiceInv /\ [Next]_vars => [Service!Next]_(Service!vars)
<1> SUFFICES ASSUME ServiceInv, [Next]_vars
             PROVE  Service!Next \/ UNCHANGED Service!vars
  OBVIOUS
<1>1. CASE UNCHANGED vars
  <2>1. UNCHANGED <<users, owner, reply, faults, call>>
    BY <1>1 DEF vars
  <2>2. Requests' = Requests /\ Owners' = Owners /\ Answers' = Answers
    BY <2>1, ServiceStep, RequestsStay, OwnersStay, AnswersStay
  <2> QED  BY <2>1, <2>2 DEF Service!vars, Requests, Owners, Answers
<1>2. ASSUME NEW c \in Conn, NEW n \in Name, NEW w \in Password,
             Call(c, "select", n, w) \/ Call(c, "look", n, w)
      PROVE  Service!Next
  BY <1>2, CallAsks DEF Service!Next
<1>3. ASSUME NEW c \in Conn, CallFails(c) \/ ClientLeaves(c)
      PROVE  Service!Next
  BY <1>3, FailureFails, ClientLeavesLeaves DEF Service!Next
<1>4. ASSUME NEW c \in Conn, RegisterSelect(c) \/ RegisterInsert(c) \/ RegisterSign(c)
      PROVE  Service!Next \/ UNCHANGED Service!vars
  BY <1>4, SelectAnswersOrGoesOn, InsertTakesEffectOrFails, SignResponds
  DEF Service!Next
<1>5. ASSUME NEW c \in Conn, LoginSelect(c) \/ LoginVerify(c)
      PROVE  Service!Next
  BY <1>5, LookupTakesEffectOrResponds, VerifyResponds DEF Service!Next
<1>6. ASSUME NEW c \in Conn, NEW i \in 1 .. MaxCalls,
             ListDevices(c, i) \/ \E d \in Device : RegisterDevice(c, d, i)
      PROVE  Service!Next
  BY <1>6, ListIsListed, DeviceIsRegistered DEF Service!Next
<1>7. ASSUME NEW c \in Conn, ListFails(c)
      PROVE  Service!Next
  BY <1>7, ListFailureIsTold DEF Service!Next
<1> QED  BY <1>1, <1>2, <1>3, <1>4, <1>5, <1>6, <1>7 DEF Next

\* The account endpoints are one indivisible service: whatever statements of
\* register, login and the device requests interleave, fail or are abandoned,
\* every request is decided at one instant, and told so.
THEOREM AccountsImplementService == Spec => ImplementsService
<1>1. Spec => Service!Init /\ [][Service!Next]_(Service!vars)
  BY ServiceInit, ServiceNext, ServiceInvariant, PTL DEF Spec
<1> QED  BY <1>1 DEF ImplementsService, Service!Spec
=============================================================================
