------------------------------- MODULE Accounts -------------------------------
(***************************************************************************)
(* Accounts and access tokens: the handlers Registration and Authentication *)
(* (internal/grpc_handler/user.go), the tables "users" and "access_token"  *)
(* (internal/repository/user.go, token.go), the storage directory a        *)
(* registration makes for its user, and the token check every other handler *)
(* starts with.  Registration is four steps that nothing undoes when a     *)
(* later one fails.                                                        *)
(***************************************************************************)
EXTENDS Integers

CONSTANTS
    Callers,        \* calls the server can be handling at once
    Usernames,
    Passwords,      \* password hashes
    Tokens,         \* the random values generateToken can return
    NoUser, NoToken,
    Second,         \* time.Second, in the clock's unit
    TokenExpired,   \* Config.TokenExpired
    ZoneOffset,     \* local time minus UTC at the server
    LastMoment,     \* bound on the clock, for TLC
    Faults          \* which of "db", "disk" and "crash" may happen

VARIABLES
    users,      \* table users: the password of every name, or NoUser
    dirs,       \* users whose storage directory exists
    tokens,     \* table access_token: who and from when to when, or NoToken
    now,
    pc, req, reply,
    given,      \* the token a call has created
    winners     \* history: how often a registration of a name was answered

vars == <<users, dirs, tokens, now, pc, req, reply, given, winners>>

(* A call that uses a token also says what user it is for, in a field of its own. *)
Requests ==
    [op : {"register", "login"}, user : Usernames, password : Passwords,
     token : {NoToken}]
        \cup [op : {"use"}, user : Usernames, password : {NoUser}, token : Tokens]
Steps == {"idle", "exists", "insert", "auth", "token", "dir", "check"}
Replies == {"none", "ok", "exists", "denied", "err"}
TokenRows == [user : Usernames, iat : Int, exp : Int, by : {"register", "login"}]

ASSUME AccountsAssumption ==
    /\ NoUser \notin Passwords /\ NoUser \notin Usernames
    /\ NoToken \notin Tokens /\ NoToken \notin TokenRows
    /\ Second \in Nat \ {0} /\ TokenExpired \in Nat /\ ZoneOffset \in Int
    /\ LastMoment \in Nat
    /\ Faults \subseteq {"db", "disk", "crash"}

Active(c) == pc[c] # "idle"
Op(c) == req[c].op
User(c) == req[c].user

Goto(c, step) == pc' = [pc EXCEPT ![c] = step]

Finish(c, r) ==
    /\ pc' = [pc EXCEPT ![c] = "idle"]
    /\ reply' = [reply EXCEPT ![c] = r]

SkipsPassword(op) ==                                                \* mutant
    CASE op = "register" -> "exists" [] op = "login" -> "token" [] op = "use" -> "check"
FirstStep(op) ==
    CASE op = "register" -> "exists" [] op = "login" -> "auth" [] op = "use" -> "check"

Init ==
    /\ users = [u \in Usernames |-> NoUser]
    /\ dirs = {}
    /\ tokens = [t \in Tokens |-> NoToken]
    /\ now = 0
    /\ pc = [c \in Callers |-> "idle"]
    /\ \E r \in Requests : req = [c \in Callers |-> r]
    /\ reply = [c \in Callers |-> "none"]
    /\ given = [c \in Callers |-> NoToken]
    /\ winners = [u \in Usernames |-> 0]

(* A request arrives; a token that is used was handed out by a call. *)
Request(c) ==
    /\ ~Active(c)
    /\ \E r \in Requests :
        /\ r.op = "use" => \E d \in Callers : given[d] = r.token /\ reply[d] = "ok"
        /\ req' = [req EXCEPT ![c] = r]
        /\ Goto(c, FirstStep(r.op))
    /\ reply' = [reply EXCEPT ![c] = "none"]
    /\ given' = [given EXCEPT ![c] = NoToken]
    /\ UNCHANGED <<users, dirs, tokens, now, winners>>

(* UserExists, the first step of Registration. *)
UserExists(c) ==
    /\ pc[c] = "exists"
    /\ IF users[User(c)] # NoUser THEN Finish(c, "exists")
                                  ELSE Goto(c, "insert") /\ UNCHANGED reply
    /\ UNCHANGED <<users, dirs, tokens, now, req, given, winners>>

(* UserRepo.Registration: INSERT, which the unique index on username refuses
   when another registration came first. *)
NameFreeUnchecked(u) == TRUE                                        \* mutant
NameFree(u) == users[u] = NoUser

InsertUser(c) ==
    /\ pc[c] = "insert"
    /\ IF NameFree(User(c))
         THEN /\ users' = [users EXCEPT ![User(c)] = req[c].password]
              /\ Goto(c, "token")
              /\ UNCHANGED reply
         ELSE Finish(c, "err") /\ UNCHANGED users
    /\ UNCHANGED <<dirs, tokens, now, req, given, winners>>

(* UserRepo.Authentication: a user with this name and this password. *)
Authenticate(c) ==
    /\ pc[c] = "auth"
    /\ IF users[User(c)] = req[c].password THEN Goto(c, "token") /\ UNCHANGED reply
                                           ELSE Finish(c, "denied")
    /\ UNCHANGED <<users, dirs, tokens, now, req, given, winners>>

(* TokenRepo.Create, called by Authentication with seconds and by Registration
   with the bare number. *)
Lifetime(op) ==
    IF op = "register" THEN TokenExpired ELSE Second * TokenExpired

(* exp is written as local time into a TIMESTAMP without time zone and read
   back as UTC. *)
StoredExp(op) == now + Lifetime(op) + ZoneOffset

NewToken(c, t) ==
    /\ tokens[t] = NoToken
    /\ tokens' = [tokens EXCEPT ![t] =
        [user |-> User(c), iat |-> now, exp |-> StoredExp(Op(c)), by |-> Op(c)]]

(* After the token a login is answered; a registration still has to make the
   directory. *)
AnswersEarly(op) == "done"                                          \* mutant
AfterToken(op) == IF op = "register" THEN "dir" ELSE "done"

CreateToken(c) ==
    /\ pc[c] = "token"
    /\ \E t \in Tokens :
        NewToken(c, t) /\ given' = [given EXCEPT ![c] = t]
    /\ IF AfterToken(Op(c)) = "done" THEN Finish(c, "ok")
                                     ELSE Goto(c, "dir") /\ UNCHANGED reply
    /\ UNCHANGED <<users, dirs, now, req, winners>>

(* FileManager.CreateStorageUser: MkdirAll. *)
CreateStorageUser(c) ==
    /\ pc[c] = "dir"
    /\ dirs' = dirs \cup {User(c)}
    /\ winners' = [winners EXCEPT ![User(c)] = @ + 1]
    /\ Finish(c, "ok")
    /\ UNCHANGED <<users, tokens, now, req, given>>

CreateStorageFails(c) ==
    /\ pc[c] = "dir"
    /\ "disk" \in Faults
    /\ Finish(c, "err")
    /\ UNCHANGED <<users, dirs, tokens, now, req, given, winners>>

(* TokenRepo.GetExpToken and Validate, the start of every other handler, which look
   at the token alone. *)
ExpiresLate(t) == now <= tokens[t].exp                              \* mutant
Validate(t) == now < tokens[t].exp

CheckToken(c) ==
    /\ pc[c] = "check"
    /\ Finish(c, IF Validate(req[c].token) THEN "ok" ELSE "denied")
    /\ UNCHANGED <<users, dirs, tokens, now, req, given, winners>>

(* A database call fails: not executed, or executed and the answer lost. *)
DbFails(c) ==
    /\ "db" \in Faults
    /\ pc[c] \in {"exists", "insert", "auth", "token", "check"}
    /\ \/ UNCHANGED <<users, tokens>>
       \/ /\ pc[c] = "insert" /\ NameFree(User(c))
          /\ users' = [users EXCEPT ![User(c)] = req[c].password]
          /\ UNCHANGED tokens
       \/ /\ pc[c] = "token"
          /\ \E t \in Tokens : NewToken(c, t)
          /\ UNCHANGED users
    /\ Finish(c, "err")
    /\ UNCHANGED <<dirs, now, req, given, winners>>

(* The server process dies and is started again. *)
Crash ==
    /\ "crash" \in Faults
    /\ pc' = [c \in Callers |-> "idle"]
    /\ reply' = [c \in Callers |-> IF Active(c) THEN "err" ELSE reply[c]]
    /\ UNCHANGED <<users, dirs, tokens, now, req, given, winners>>

Tick ==
    /\ now < LastMoment
    /\ now' = now + 1
    /\ UNCHANGED <<users, dirs, tokens, pc, req, reply, given, winners>>

Next ==
    \/ \E c \in Callers :
        \/ Request(c) \/ UserExists(c) \/ InsertUser(c) \/ Authenticate(c)
        \/ CreateToken(c) \/ CreateStorageUser(c) \/ CreateStorageFails(c)
        \/ CheckToken(c) \/ DbFails(c)
    \/ Crash
    \/ Tick

Spec == Init /\ [][Next]_vars

(***************************************************************************)
(* Properties.                                                             *)
(***************************************************************************)

(* A registration past its INSERT. *)
Inserted(c) == Op(c) = "register" /\ pc[c] \in {"token", "dir"}

(* The type of every variable, and the foreign key of access_token: a token has
   a user. *)
TypeOK ==
    /\ users \in [Usernames -> Passwords \cup {NoUser}]
    /\ dirs \subseteq Usernames
    /\ tokens \in [Tokens -> TokenRows \cup {NoToken}]
    /\ \A t \in Tokens : tokens[t] # NoToken => users[tokens[t].user] # NoUser
    /\ now \in Nat
    /\ pc \in [Callers -> Steps]
    /\ req \in [Callers -> Requests]
    /\ reply \in [Callers -> Replies]
    /\ given \in [Callers -> Tokens \cup {NoToken}]
    /\ winners \in [Usernames -> Nat]

(* A registration that was answered has everything a client needs: the account
   with the password it sent and not that of a rival for the name, the token it
   was given and the directory its files go to. *)
RegisteredFully ==
    \A c \in Callers : Op(c) = "register" /\ reply[c] = "ok" =>
        /\ users[User(c)] = req[c].password
        /\ User(c) \in dirs
        /\ given[c] \in Tokens /\ tokens[given[c]] # NoToken
        /\ tokens[given[c]].user = User(c)

(* However many clients register one name at once, with retries and crashes in
   between, one of them at most is told that it got it. *)
OneWinner == \A u \in Usernames : winners[u] <= 1

(* To its clients the service is a map in which a name is written once: nobody gets a
   session of a name without its password, and no call that fails, races or is cut
   off by a crash changes one. *)
Promise == INSTANCE Registry WITH
    accounts <- users,
    sessions <- [t \in Tokens |-> IF tokens[t] = NoToken THEN NoUser ELSE tokens[t].user],
    busy <- {c \in Callers : Active(c)},
    claimed <- {c \in Callers : Inserted(c)}

ImplementsRegistry == Promise!Spec

(* A token that Authentication has given is good for TokenExpired seconds and
   not a moment longer: the check refuses it from then on and never before. *)
Honoured(by) ==
    \A c \in Callers : pc[c] = "check" /\ pc'[c] = "idle" /\ reply'[c] # "err" =>
        LET t == tokens[req[c].token] IN
        t.by \in by =>
            (reply'[c] = "ok" <=> now < t.iat + Second * TokenExpired)

LoginTokenHonoured == [][Honoured({"login"})]_vars

(* What the comment of Config.TokenExpired says of every token. *)
EveryTokenHonoured == [][Honoured({"login", "register"})]_vars
=============================================================================
