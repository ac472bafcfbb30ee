------------------------------ MODULE Accounts ------------------------------
(***************************************************************************)
(* The signal server's accounts (server/src/auth.rs) and whose devices it  *)
(* lists (server/src/device.rs), over the tables users and server_devices. *)
(*                                                                         *)
(* Requests of different connections run concurrently; one connection has  *)
(* one request at a time.  The statements of a request run one by one on   *)
(* the store, each is atomic, and every await of one separates two         *)
(* actions.  call[c] is where the handler stands, with the locals still    *)
(* needed.  An Argon2 hash stands for the one password that verifies       *)
(* against it, a token for the user id it is made for; expiry, public keys *)
(* and the names of devices are left out.  Nothing under src/ deletes a    *)
(* row of users, whose ids AUTOINCREMENT hands out: users[i] is the row    *)
(* with id i.  A restart of the server is every client leaving.            *)
(***************************************************************************)
EXTENDS Integers, Sequences, Functions

CONSTANTS
    Conn,           \* connections of clients
    Name,           \* usernames
    Password,
    Device,
    MaxCalls,       \* bound: calls of register and login
    MaxDeviceCalls, \* bound: devices registered and lists asked for
    MaxFaults       \* bound: failures of the store, of hashing or signing

ASSUME AccountsAssumption == {MaxCalls, MaxDeviceCalls, MaxFaults} \subseteq Nat

VARIABLES
    users,      \* users[i]: username and password_hash of the row with id i
    owner,      \* owner[d]: server_devices.user_id, 0 without a row
    call,       \* call[c]: the register or login handler working for c
    reply,      \* reply[c]: the answer to the last request of c
    asOf,       \* ghost, asOf[c]: the users when c last called register or login
    calls, deviceCalls, faults    \* counters of the bounds

vars == <<users, owner, call, reply, asOf, calls, deviceCalls, faults>>

Idle == [pc |-> "idle"]
NoReply == [op |-> "none"]

Taken(n) == \E i \in DOMAIN users : users[i].name = n

At(c, pc) == call[c].pc = pc

\* Mutant: the newest row is looked up once more when the token is made.
NewestId(c) == Len(users)

\* result.last_insert_rowid(): of the statement that inserted, not of the table.
OwnId(c) == call[c].id

\* Mutant: users.username without its UNIQUE.
NoConstraint(n) == TRUE

\* The UNIQUE constraint, asked again by the INSERT itself.
Insertable(n) == ~ Taken(n)

Inserted(c) == Append(users, [name |-> call[c].name, pw |-> call[c].pw])

Answer(c, op, code, i) ==
    /\ call' = [call EXCEPT ![c] = Idle]
    /\ reply' = [reply EXCEPT ![c] =
          [op |-> op, code |-> code, name |-> call[c].name, pw |-> call[c].pw,
           id |-> i]]

Init ==
    /\ users = <<>>
    /\ owner = [d \in Device |-> 0]
    /\ call = [c \in Conn |-> Idle]
    /\ reply = [c \in Conn |-> NoReply]
    /\ asOf = [c \in Conn |-> {}]
    /\ calls = 0 /\ deviceCalls = 0 /\ faults = 0

-----------------------------------------------------------------------------
(* Requests and failures *)

\* POST /api/auth/register ("select") or /api/auth/login ("look").
Call(c, pc, n, w) ==
    /\ At(c, "idle")
    /\ calls < MaxCalls /\ calls' = calls + 1
    /\ call' = [call EXCEPT ![c] = [pc |-> pc, name |-> n, pw |-> w]]
    /\ reply' = [reply EXCEPT ![c] = NoReply]
    /\ asOf' = [asOf EXCEPT ![c] = Range(users)]
    /\ UNCHANGED <<users, owner, deviceCalls, faults>>

Op(pc) == IF pc \in {"select", "insert", "sign"} THEN "register" ELSE "login"

\* A statement, hash_password or generate_token fails: 500, and the rows stay
\* as they are, also the one the request inserted before.
CallFails(c) ==
    /\ ~ At(c, "idle")
    /\ faults < MaxFaults /\ faults' = faults + 1
    /\ Answer(c, Op(call[c].pc), "error", 0)
    /\ UNCHANGED <<users, owner, asOf, calls, deviceCalls>>

\* The client goes away and the handler is dropped at its await; an INSERT
\* that reached the store is executed all the same.
ClientLeaves(c) ==
    /\ ~ At(c, "idle")
    /\ call' = [call EXCEPT ![c] = Idle]
    /\ \/ UNCHANGED users
       \/ At(c, "insert") /\ Insertable(call[c].name) /\ users' = Inserted(c)
    /\ UNCHANGED <<owner, reply, asOf, calls, deviceCalls, faults>>

-----------------------------------------------------------------------------
(* register *)

\* SELECT id FROM users WHERE username = ..., then hash_password.
RegisterSelect(c) ==
    /\ At(c, "select")
    /\ \/ /\ Taken(call[c].name)
          /\ Answer(c, "register", "conflict", 0)
       \/ /\ ~ Taken(call[c].name)
          /\ call' = [call EXCEPT ![c] =
                [pc |-> "insert", name |-> call[c].name, pw |-> call[c].pw]]
          /\ UNCHANGED reply
    /\ UNCHANGED <<users, owner, asOf, calls, deviceCalls, faults>>

\* Mutant: INSERT OR REPLACE takes the row that has the name away.
RegisterReplaces(c) ==
    /\ At(c, "insert")
    /\ users' = Append([i \in DOMAIN users |->
                  IF users[i].name = call[c].name THEN [name |-> "none"]
                  ELSE users[i]], [name |-> call[c].name, pw |-> call[c].pw])
    /\ call' = [call EXCEPT ![c] =
          [pc |-> "sign", name |-> call[c].name, pw |-> call[c].pw,
           id |-> Len(users) + 1]]
    /\ UNCHANGED <<owner, reply, asOf, calls, deviceCalls, faults>>

\* INSERT INTO users; any error of it is a 500.
RegisterInsert(c) ==
    /\ At(c, "insert")
    /\ \/ /\ ~ Insertable(call[c].name)
          /\ Answer(c, "register", "error", 0)
          /\ UNCHANGED users
       \/ /\ Insertable(call[c].name)
          /\ users' = Inserted(c)
          /\ call' = [call EXCEPT ![c] =
                [pc |-> "sign", name |-> call[c].name, pw |-> call[c].pw,
                 id |-> Len(users) + 1]]
          /\ UNCHANGED reply
    /\ UNCHANGED <<owner, asOf, calls, deviceCalls, faults>>

\* generate_token, for the row's id.
RegisterSign(c) ==
    /\ At(c, "sign")
    /\ Answer(c, "register", "ok", OwnId(c))
    /\ UNCHANGED <<users, owner, asOf, calls, deviceCalls, faults>>

-----------------------------------------------------------------------------
(* login *)

\* SELECT id, password_hash FROM users WHERE username = ...
LoginSelect(c) ==
    /\ At(c, "look")
    /\ \/ /\ ~ Taken(call[c].name)
          /\ Answer(c, "login", "unauthorized", 0)
       \/ \E i \in DOMAIN users :
             /\ users[i].name = call[c].name
             /\ call' = [call EXCEPT ![c] =
                   [pc |-> "verify", name |-> call[c].name, pw |-> call[c].pw,
                    id |-> i, hash |-> users[i].pw]]
             /\ UNCHANGED reply
    /\ UNCHANGED <<users, owner, asOf, calls, deviceCalls, faults>>

\* verify_password; a hash that cannot be parsed would not verify either.
Verifies(c) == call[c].pw = call[c].hash

\* What the password decides, and generate_token for the id that was read.
LoginVerify(c) ==
    /\ At(c, "verify")
    /\ IF Verifies(c)
       THEN Answer(c, "login", "ok", call[c].id)
       ELSE Answer(c, "login", "unauthorized", 0)
    /\ UNCHANGED <<users, owner, asOf, calls, deviceCalls, faults>>

-----------------------------------------------------------------------------
(* Devices: one statement per request, so each is one step. *)

\* Mutant: no foreign key.
AnyId(i) == TRUE

\* REFERENCES users(id)
Exists(i) == i \in DOMAIN users

\* The foreign key is asked of a row that is inserted; an update that leaves
\* user_id alone does not ask whom the refused row was for.
Admitted(d, i) == owner[d] # 0 \/ Exists(i)

DeviceCall(c) ==
    /\ At(c, "idle")
    /\ deviceCalls < MaxDeviceCalls /\ deviceCalls' = deviceCalls + 1

\* Mutant: user_id = excluded.user_id among the columns that are updated.
Moved(d, i) == i

\* ON CONFLICT(device_id) DO UPDATE leaves user_id alone.
OwnerAfter(d, i) == IF owner[d] = 0 THEN i ELSE owner[d]

\* POST /api/device/register with a user_id; any error is a 500 that changes
\* nothing.
RegisterDevice(c, d, i) ==
    /\ DeviceCall(c)
    /\ \/ /\ Admitted(d, i)
          /\ owner' = [owner EXCEPT ![d] = OwnerAfter(d, i)]
          /\ reply' = [reply EXCEPT ![c] = [op |-> "device", code |-> "created"]]
          /\ UNCHANGED faults
       \/ /\ \/ ~ Admitted(d, i) /\ UNCHANGED faults
             \/ faults < MaxFaults /\ faults' = faults + 1
          /\ reply' = [reply EXCEPT ![c] = [op |-> "device", code |-> "error"]]
          /\ UNCHANGED owner
    /\ UNCHANGED <<users, call, asOf, calls>>

\* GET /api/device/list?user_id=...
ListDevices(c, i) ==
    /\ DeviceCall(c)
    /\ reply' = [reply EXCEPT ![c] =
          [op |-> "list", id |-> i, devices |-> {d \in Device : owner[d] = i}]]
    /\ UNCHANGED <<users, owner, call, asOf, calls, faults>>

\* A list without user_id is a 400, a store that fails a 500.
ListFails(c) ==
    /\ DeviceCall(c)
    /\ \E code \in {"bad", "error"} :
          /\ reply' = [reply EXCEPT ![c] = [op |-> "device", code |-> code]]
          /\ \/ code = "bad" /\ UNCHANGED faults
             \/ code = "error" /\ faults < MaxFaults /\ faults' = faults + 1
    /\ UNCHANGED <<users, owner, call, asOf, calls>>

Next ==
    \E c \in Conn :
        \/ \E n \in Name, w \in Password :
              Call(c, "select", n, w) \/ Call(c, "look", n, w)
        \/ CallFails(c) \/ ClientLeaves(c)
        \/ RegisterSelect(c) \/ RegisterInsert(c) \/ RegisterSign(c)
        \/ LoginSelect(c) \/ LoginVerify(c) \/ ListFails(c)
        \/ \E i \in 1 .. MaxCalls :
              ListDevices(c, i) \/ \E d \in Device : RegisterDevice(c, d, i)

Spec == Init /\ [][Next]_vars

-----------------------------------------------------------------------------

User == [name : Name, pw : Password]

CallRecord ==
    {Idle}
    \cup [pc : {"select", "insert", "look"}, name : Name, pw : Password]
    \cup [pc : {"sign"}, name : Name, pw : Password, id : Nat]
    \cup [pc : {"verify"}, name : Name, pw : Password, id : Nat, hash : Password]

Reply ==
    {NoReply}
    \cup [op : {"register", "login"},
          code : {"ok", "conflict", "unauthorized", "error"},
          name : Name, pw : Password, id : Nat]
    \cup [op : {"device"}, code : {"created", "bad", "error"}]
    \cup [op : {"list"}, id : Nat, devices : SUBSET Device]

\* Type invariant; a device belongs to an existing user.
TypeOK ==
    /\ users \in Seq(User)
    /\ owner \in [Device -> 0 .. Len(users)]
    /\ call \in [Conn -> CallRecord]
    /\ reply \in [Conn -> Reply]
    /\ asOf \in [Conn -> SUBSET User]
    /\ calls \in 0 .. MaxCalls /\ deviceCalls \in 0 .. MaxDeviceCalls
    /\ faults \in 0 .. MaxFaults

Answered(c, op, code) == reply[c].op = op /\ reply[c].code = code

\* Whoever got a token got it for the row with the username and the password
\* of the request, however many rows others inserted meanwhile.  (register's
\* last_insert_rowid, login's id read before the password is verified.)
TokensAreOwn ==
    \A c \in Conn :
        Answered(c, "register", "ok") \/ Answered(c, "login", "ok") =>
            /\ reply[c].id \in DOMAIN users
            /\ users[reply[c].id] = [name |-> reply[c].name, pw |-> reply[c].pw]

\* Of racing registrations of one username exactly one wins: no two are told
\* "ok", and none is refused, not by the INSERT's 500 either, unless there is
\* a winner or a failure.  (The check of register and the UNIQUE behind it.)
OneRegistrationWins ==
    \A c \in Conn : reply[c].op = "register" =>
        /\ reply[c].code = "error" => faults > 0 \/ Taken(reply[c].name)
        /\ reply[c].code = "conflict" => Taken(reply[c].name)
        /\ \A e \in Conn \ {c} :
              ~ (/\ Answered(c, "register", "ok") /\ Answered(e, "register", "ok")
                 /\ reply[c].name = reply[e].name)

\* No login is refused that gives the username and the password of an account
\* which existed when it was called, whoever made it and whatever became of
\* that request: a registration answered 500 or left by its client may have
\* its row.
AccountsLetIn ==
    \A c \in Conn : Answered(c, "login", "unauthorized") =>
        [name |-> reply[c].name, pw |-> reply[c].pw] \notin asOf[c]

\* No device is listed for two users, however often and for whomever it is
\* registered between the two requests.
ListedForOneUser ==
    \A c, e \in Conn :
        reply[c].op = "list" /\ reply[e].op = "list" /\ reply[c].id # reply[e].id =>
            reply[c].devices \cap reply[e].devices = {}
=============================================================================
