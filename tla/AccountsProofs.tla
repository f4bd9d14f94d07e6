---------------------------- MODULE AccountsProofs ----------------------------
(***************************************************************************)
(* Theorems about Accounts, for every set of callers, names, passwords and *)
(* tokens, every clock and every combination of faults.                    *)
(***************************************************************************)
EXTENDS Accounts, TLAPS

USE DEF Active, Op, User, Goto, Finish, NameFree

LEMMA RequestFacts ==
    ASSUME NEW r \in Requests
    PROVE  /\ r.op \in {"register", "login", "use"}
           /\ r.op \in {"register", "login"} =>
                r.user \in Usernames /\ r.password \in Passwords
           /\ r.op = "use" => r.token \in Tokens
  BY DEF Requests

(* What each step of a call is about. *)
StepOfOp ==
    \A c \in Callers :
        /\ pc[c] \in {"exists", "insert", "dir"} => Op(c) = "register"
        /\ pc[c] = "auth" => Op(c) = "login"
        /\ pc[c] = "token" =>
            /\ Op(c) \in {"register", "login"}
            /\ users[User(c)] # NoUser /\ users[User(c)] = req[c].password
        /\ pc[c] = "check" => Op(c) = "use"

(* A registration past its INSERT is the only one that can win the name, and no
   other has won it. *)
OwnsName ==
    \A c \in Callers : Inserted(c) =>
        /\ users[User(c)] = req[c].password
        /\ winners[User(c)] = 0
        /\ \A d \in Callers : Inserted(d) /\ User(d) = User(c) => d = c

HasToken ==
    \A c \in Callers : pc[c] = "dir" =>
        given[c] \in Tokens /\ tokens[given[c]] # NoToken
        /\ tokens[given[c]].user = User(c)

Won == \A u \in Usernames : winners[u] <= 1 /\ (winners[u] > 0 => users[u] # NoUser)

(* reply is set only while the call is idle. *)
NoEarlyReply == \A c \in Callers : Active(c) => reply[c] = "none"

Inv == TypeOK /\ StepOfOp /\ OwnsName /\ HasToken /\ Won /\ NoEarlyReply /\ RegisteredFully

LEMMA LifetimeType ==
    ASSUME NEW op, now \in Nat
    PROVE  StoredExp(op) \in Int
<1>1. Second \in Nat /\ TokenExpired \in Nat /\ ZoneOffset \in Int
  BY AccountsAssumption
<1>2. Second * TokenExpired \in Nat
  BY <1>1
<1>3. Lifetime(op) \in Nat
  BY <1>1, <1>2 DEF Lifetime
<1>4. QED
  BY <1>1, <1>3 DEF StoredExp

(* A new token is a row of the right type and leaves the others alone. *)
LEMMA NewTokenFacts ==
    ASSUME Inv, NEW c \in Callers, pc[c] = "token", NEW t \in Tokens, NewToken(c, t)
    PROVE  /\ tokens' \in [Tokens -> TokenRows \cup {NoToken}]
           /\ tokens[t] = NoToken
           /\ tokens'[t] # NoToken /\ tokens'[t].user = User(c)
           /\ \A s \in Tokens : s # t => tokens'[s] = tokens[s]
           /\ users[User(c)] # NoUser
<1> DEFINE row == [user |-> User(c), iat |-> now, exp |-> StoredExp(Op(c)), by |-> Op(c)]
<1>1. /\ req[c] \in Requests /\ Op(c) \in {"register", "login"}
      /\ User(c) \in Usernames /\ now \in Nat /\ users[User(c)] # NoUser
  BY RequestFacts DEF Inv, TypeOK, StepOfOp
<1>2. row \in TokenRows
  BY <1>1, LifetimeType DEF TokenRows
<1>3. tokens[t] = NoToken /\ tokens' = [tokens EXCEPT ![t] = row]
  BY DEF NewToken
<1>4. row # NoToken
  BY <1>2, AccountsAssumption
<1>5. QED
  BY <1>1, <1>2, <1>3, <1>4 DEF Inv, TypeOK

LEMMA Step == Inv /\ [Next]_vars => Inv'
<1> SUFFICES ASSUME Inv, [Next]_vars PROVE Inv'
  OBVIOUS
<1> USE AccountsAssumption, RequestFacts
    DEF Inv, TypeOK, StepOfOp, OwnsName, HasToken, Won, NoEarlyReply,
        RegisteredFully, Inserted, Steps, Replies
<1>1. ASSUME NEW c \in Callers, Request(c) PROVE Inv'
  BY <1>1 DEF Request, FirstStep
<1>2. ASSUME NEW c \in Callers, UserExists(c) PROVE Inv'
  BY <1>2 DEF UserExists
<1>3. ASSUME NEW c \in Callers, InsertUser(c) PROVE Inv'
  <2>1. CASE users[User(c)] = NoUser
    <3>1. TypeOK'
      <4>1. /\ req[c] \in Requests /\ req[c].user \in Usernames
            /\ req[c].password \in Passwords
        BY <1>3 DEF InsertUser
      <4>2. /\ users' = [users EXCEPT ![req[c].user] = req[c].password]
            /\ pc' = [pc EXCEPT ![c] = "token"]
            /\ UNCHANGED <<dirs, tokens, now, req, reply, given, winners>>
        BY <1>3, <2>1 DEF InsertUser
      <4>3. \A u \in Usernames : users[u] # NoUser => users'[u] # NoUser
        BY <4>1, <4>2
      <4>4. \A t \in Tokens : tokens[t] # NoToken => tokens[t].user \in Usernames
        BY DEF TokenRows
      <4>5. QED
        BY <4>1, <4>2, <4>3, <4>4
    <3> USE <1>3, <2>1 DEF InsertUser
    <3>2. StepOfOp'
      OBVIOUS
    <3>3. OwnsName'
      OBVIOUS
    <3>4. HasToken'
      OBVIOUS
    <3>5. Won'
      OBVIOUS
    <3>6. NoEarlyReply'
      OBVIOUS
    <3>7. RegisteredFully'
      OBVIOUS
    <3>8. QED
      BY <3>1, <3>2, <3>3, <3>4, <3>5, <3>6, <3>7
  <2>2. CASE users[User(c)] # NoUser
    BY <1>3, <2>2 DEF InsertUser
  <2>3. QED
    BY <2>1, <2>2
<1>4. ASSUME NEW c \in Callers, Authenticate(c) PROVE Inv'
  BY <1>4 DEF Authenticate
<1>5. ASSUME NEW c \in Callers, CreateToken(c) PROVE Inv'
  <2>1. PICK t \in Tokens : NewToken(c, t) /\ given' = [given EXCEPT ![c] = t]
    BY <1>5 DEF CreateToken
  <2>2. /\ pc[c] = "token"
        /\ UNCHANGED <<users, dirs, now, req, winners>>
    BY <1>5 DEF CreateToken
  <2>3. \/ Op(c) = "register" /\ pc' = [pc EXCEPT ![c] = "dir"] /\ UNCHANGED reply
        \/ /\ Op(c) = "login" /\ pc' = [pc EXCEPT ![c] = "idle"]
           /\ reply' = [reply EXCEPT ![c] = "ok"]
    BY <1>5, <2>2 DEF CreateToken, AfterToken
  <2>4. /\ tokens' \in [Tokens -> TokenRows \cup {NoToken}]
        /\ tokens[t] = NoToken
        /\ tokens'[t] # NoToken /\ tokens'[t].user = User(c)
        /\ \A s \in Tokens : s # t => tokens'[s] = tokens[s]
        /\ users[User(c)] # NoUser
    BY <2>1, <2>2, NewTokenFacts
  <2>5. TypeOK'
    BY <2>1, <2>2, <2>3, <2>4
  <2>6. StepOfOp'
    BY <2>1, <2>2, <2>3, <2>4
  <2>7. OwnsName'
    BY <2>1, <2>2, <2>3, <2>4
  <2>8. HasToken'
    BY <2>1, <2>2, <2>3, <2>4
  <2>9. Won'
    BY <2>1, <2>2, <2>3, <2>4
  <2>10. NoEarlyReply'
    BY <2>1, <2>2, <2>3, <2>4
  <2>11. RegisteredFully'
    BY <2>1, <2>2, <2>3, <2>4
  <2>12. QED
    BY <2>5, <2>6, <2>7, <2>8, <2>9, <2>10, <2>11
<1>6. ASSUME NEW c \in Callers, CreateStorageUser(c) PROVE Inv'
  BY <1>6 DEF CreateStorageUser
<1>7. ASSUME NEW c \in Callers, CreateStorageFails(c) PROVE Inv'
  BY <1>7 DEF CreateStorageFails
<1>8. ASSUME NEW c \in Callers, CheckToken(c) PROVE Inv'
  BY <1>8 DEF CheckToken
<1>9. ASSUME NEW c \in Callers, DbFails(c) PROVE Inv'
  <2>1. CASE UNCHANGED <<users, tokens>>
    BY <1>9, <2>1 DEF DbFails
  <2>2. CASE pc[c] = "insert" /\ users[User(c)] = NoUser
             /\ users' = [users EXCEPT ![User(c)] = req[c].password] /\ UNCHANGED tokens
    BY <1>9, <2>2 DEF DbFails
  <2>3. CASE pc[c] = "token" /\ (\E t \in Tokens : NewToken(c, t)) /\ UNCHANGED users
    <3>1. PICK t \in Tokens : NewToken(c, t)
      BY <2>3
    <3>2. /\ tokens' \in [Tokens -> TokenRows \cup {NoToken}]
          /\ tokens[t] = NoToken /\ tokens'[t].user = User(c)
          /\ \A s \in Tokens : s # t => tokens'[s] = tokens[s]
          /\ users[User(c)] # NoUser
      BY <2>3, <3>1, NewTokenFacts
    <3>3. /\ pc' = [pc EXCEPT ![c] = "idle"] /\ reply' = [reply EXCEPT ![c] = "err"]
          /\ UNCHANGED <<users, dirs, now, req, given, winners>>
      BY <1>9, <2>3 DEF DbFails
    <3>4. QED
      BY <3>2, <3>3
  <2>4. QED
    BY <1>9, <2>1, <2>2, <2>3 DEF DbFails
<1>10. ASSUME Crash PROVE Inv'
  BY <1>10 DEF Crash
<1>11. ASSUME Tick PROVE Inv'
  BY <1>11 DEF Tick
<1>12. CASE UNCHANGED vars
  BY <1>12 DEF vars
<1>13. QED
  BY <1>1, <1>2, <1>3, <1>4, <1>5, <1>6, <1>7, <1>8, <1>9, <1>10, <1>11, <1>12
  DEF Next

LEMMA Invariant == Spec => []Inv
<1>1. Init => Inv
  BY RequestFacts
  DEF Init, Inv, TypeOK, StepOfOp, OwnsName, HasToken, Won, NoEarlyReply,
      RegisteredFully, Inserted, Steps, Replies
<1>2. QED
  BY <1>1, Step, PTL DEF Spec

(* Every variable keeps its type and every token has a user. *)
THEOREM TypeCorrect == Spec => []TypeOK
<1>1. Inv => TypeOK
  BY DEF Inv
<1>2. QED
  BY <1>1, Invariant, PTL

(* An answered registration owns the account, its token and its directory, and
   goes on owning them. *)
THEOREM RegistrationsComplete == Spec => []RegisteredFully
<1>1. Inv => RegisteredFully
  BY DEF Inv
<1>2. QED
  BY <1>1, Invariant, PTL

(* No two registrations of one name are ever answered. *)
THEOREM NamesWonOnce == Spec => []OneWinner
<1>1. Inv => OneWinner
  BY DEF Inv, Won, OneWinner
<1>2. QED
  BY <1>1, Invariant, PTL

(***************************************************************************)
(* LoginTokenHonoured.  What the check compares with the clock was written   *)
(* when the token was made, in another call: the stored expiry is bound to   *)
(* the issue and to who issued it, and a token that is used is there.       *)
(***************************************************************************)
ExpiryStored ==
    \A t \in Tokens : tokens[t] # NoToken =>
        tokens[t].exp = tokens[t].iat + Lifetime(tokens[t].by) + ZoneOffset

GivenThere == \A c \in Callers : given[c] # NoToken => tokens[given[c]] # NoToken

UsedThere == \A c \in Callers : pc[c] = "check" => tokens[req[c].token] # NoToken

ExpiryInv == ExpiryStored /\ GivenThere /\ UsedThere

(* The table of tokens only grows, by tokens with the expiry of their issuer. *)
TokensGrow ==
    /\ \A t \in Tokens : tokens[t] # NoToken => tokens'[t] = tokens[t]
    /\ ExpiryStored'

LEMMA NewTokenGrows ==
    ASSUME Inv, ExpiryStored, NEW c \in Callers, pc[c] = "token",
           NEW t \in Tokens, NewToken(c, t)
    PROVE  TokensGrow /\ tokens'[t] # NoToken
<1>1. /\ tokens[t] = NoToken /\ tokens'[t] # NoToken
      /\ \A s \in Tokens : s # t => tokens'[s] = tokens[s]
  BY NewTokenFacts
<1>2. tokens'[t] = [user |-> User(c), iat |-> now, exp |-> StoredExp(Op(c)), by |-> Op(c)]
  BY DEF NewToken, Inv, TypeOK
<1>3. tokens'[t].exp = tokens'[t].iat + Lifetime(tokens'[t].by) + ZoneOffset
  BY <1>2 DEF StoredExp
<1>4. \A s \in Tokens : tokens'[s] # NoToken =>
         tokens'[s].exp = tokens'[s].iat + Lifetime(tokens'[s].by) + ZoneOffset
  BY <1>1, <1>3 DEF ExpiryStored
<1>5. ExpiryStored'
  BY <1>4 DEF ExpiryStored, Lifetime
<1>6. QED
  BY <1>1, <1>5 DEF TokensGrow

LEMMA SameTokens == ASSUME ExpiryStored, UNCHANGED tokens PROVE TokensGrow
  BY DEF ExpiryStored, TokensGrow, Lifetime

LEMMA ExpiryStep ==
    ASSUME Inv, ExpiryInv, [Next]_vars
    PROVE  ExpiryInv'
<1> USE RequestFacts, AccountsAssumption
    DEF Inv, TypeOK, ExpiryInv, GivenThere, UsedThere, TokensGrow
<1>1. ASSUME NEW c \in Callers, Request(c) PROVE ExpiryInv'
  BY <1>1, SameTokens DEF Request, FirstStep
<1>2. ASSUME NEW c \in Callers,
             \/ UserExists(c) \/ InsertUser(c) \/ Authenticate(c)
             \/ CreateStorageUser(c) \/ CreateStorageFails(c) \/ CheckToken(c)
      PROVE  ExpiryInv'
  BY <1>2, SameTokens DEF UserExists, InsertUser, Authenticate, CreateStorageUser,
     CreateStorageFails, CheckToken
<1>3. ASSUME NEW c \in Callers, CreateToken(c) PROVE ExpiryInv'
  <2>1. PICK t \in Tokens : NewToken(c, t) /\ given' = [given EXCEPT ![c] = t]
    BY <1>3 DEF CreateToken
  <2>2. TokensGrow /\ tokens'[t] # NoToken
    BY <1>3, <2>1, NewTokenGrows DEF CreateToken
  <2>3. GivenThere'
    BY <2>1, <2>2
  <2>4. UsedThere'
    <3>1. UNCHANGED req /\ \A d \in Callers : pc'[d] = "check" => pc[d] = "check"
      BY <1>3 DEF CreateToken, AfterToken
    <3>2. \A d \in Callers : pc[d] = "check" => req[d].token \in Tokens
      BY DEF StepOfOp
    <3>3. QED
      BY <2>2, <3>1, <3>2
  <2>5. QED
    BY <2>2, <2>3, <2>4
<1>4. ASSUME NEW c \in Callers, DbFails(c) PROVE ExpiryInv'
  <2>1. TokensGrow
    <3>1. CASE UNCHANGED tokens
      BY <3>1, SameTokens
    <3>2. CASE pc[c] = "token" /\ \E t \in Tokens : NewToken(c, t)
      BY <3>2, NewTokenGrows
    <3>3. QED
      BY <1>4, <3>1, <3>2 DEF DbFails
  <2>2. UNCHANGED <<req, given>> /\ \A d \in Callers : pc'[d] = "check" => pc[d] = "check"
    BY <1>4 DEF DbFails
  <2>3. \A d \in Callers : pc[d] = "check" => req[d].token \in Tokens
    BY DEF StepOfOp
  <2>4. QED
    BY <2>1, <2>2, <2>3
<1>5. ASSUME Crash \/ Tick \/ UNCHANGED vars PROVE ExpiryInv'
  BY <1>5, SameTokens DEF Crash, Tick, vars
<1>6. QED
  BY <1>1, <1>2, <1>3, <1>4, <1>5 DEF Next

LEMMA Expiries == Spec => []ExpiryInv
<1>1. Init => ExpiryInv
  BY DEF Init, ExpiryInv, ExpiryStored, GivenThere, UsedThere
<1>2. Inv /\ ExpiryInv /\ [Next]_vars => ExpiryInv'
  BY ExpiryStep
<1>3. QED
  BY <1>1, <1>2, Invariant, PTL DEF Spec

(* What the check answers depends on the issue, the issuer and the zone only. *)
Accepted(c) ==
    LET t == tokens[req[c].token] IN now < t.iat + Lifetime(t.by) + ZoneOffset

LEMMA CheckAnswers ==
    ASSUME Inv, ExpiryInv, [Next]_vars, NEW c \in Callers,
           pc[c] = "check", pc'[c] = "idle", reply'[c] # "err"
    PROVE  /\ reply'[c] = "ok" <=> Accepted(c)
           /\ tokens[req[c].token] \in TokenRows
<1>1. CheckToken(c)
  BY DEF Next, vars, Request, UserExists, InsertUser, Authenticate, CreateToken,
     CreateStorageUser, CreateStorageFails, CheckToken, DbFails, Crash, Tick, Inv, TypeOK
<1>2. reply'[c] = "ok" <=> now < tokens[req[c].token].exp
  BY <1>1 DEF CheckToken, Validate, Inv, TypeOK
<1>3. req[c].token \in Tokens /\ tokens[req[c].token] # NoToken
  BY RequestFacts DEF Inv, TypeOK, StepOfOp, ExpiryInv, UsedThere
<1>4. tokens[req[c].token].exp
        = tokens[req[c].token].iat + Lifetime(tokens[req[c].token].by) + ZoneOffset
  BY <1>3 DEF ExpiryInv, ExpiryStored
<1>5. QED
  BY <1>2, <1>3, <1>4 DEF Accepted, Inv, TypeOK

(* For every zone and both issuers: a token is accepted until its lifetime, shifted by
   the server's distance from UTC, is over, and not any more then. *)
THEOREM TokensExpire ==
    Spec => [][\A c \in Callers : pc[c] = "check" /\ pc'[c] = "idle" /\ reply'[c] # "err"
                 => (reply'[c] = "ok" <=> Accepted(c))]_vars
<1>1. Inv /\ ExpiryInv /\ [Next]_vars =>
        [\A c \in Callers : pc[c] = "check" /\ pc'[c] = "idle" /\ reply'[c] # "err"
           => (reply'[c] = "ok" <=> Accepted(c))]_vars
  BY CheckAnswers
<1>2. QED
  BY <1>1, Expiries, Invariant, PTL DEF Spec

(* At a server in UTC a token of a login is accepted exactly during its lifetime,
   whatever the clock and whichever calls come between issue and use. *)
THEOREM LoginTokensHonoured ==
    ASSUME ZoneOffset = 0
    PROVE  Spec => LoginTokenHonoured
<1>1. ASSUME Inv, ExpiryInv, [Next]_vars PROVE [Honoured({"login"})]_vars
  <2> SUFFICES ASSUME NEW c \in Callers, pc[c] = "check", pc'[c] = "idle",
                      reply'[c] # "err", tokens[req[c].token].by = "login"
               PROVE  reply'[c] = "ok"
                        <=> now < tokens[req[c].token].iat + Second * TokenExpired
    BY DEF Honoured
  <2>1. /\ reply'[c] = "ok" <=> Accepted(c)
        /\ tokens[req[c].token].iat \in Int
    BY <1>1, CheckAnswers DEF TokenRows
  <2>2. Second * TokenExpired \in Int
    BY AccountsAssumption
  <2>3. QED
    BY <2>1, <2>2 DEF Accepted, Lifetime
<1>2. QED
  BY <1>1, Expiries, Invariant, PTL DEF Spec, LoginTokenHonoured

(* What the run with seconds refutes holds if the unit of the clock is the one that
   Registration passes: the missing time.Second and the zone are all that is wrong. *)
THEOREM OnlyTheUnitIsWrong ==
    ASSUME ZoneOffset = 0, Second = 1
    PROVE  Spec => EveryTokenHonoured
<1>1. ASSUME Inv, ExpiryInv, [Next]_vars PROVE [Honoured({"login", "register"})]_vars
  <2> SUFFICES ASSUME NEW c \in Callers, pc[c] = "check", pc'[c] = "idle",
                      reply'[c] # "err"
               PROVE  reply'[c] = "ok"
                        <=> now < tokens[req[c].token].iat + Second * TokenExpired
    BY DEF Honoured
  <2>1. /\ reply'[c] = "ok" <=> Accepted(c)
        /\ tokens[req[c].token].iat \in Int
    BY <1>1, CheckAnswers DEF TokenRows
  <2>2. TokenExpired \in Int /\ Second * TokenExpired = TokenExpired
    BY AccountsAssumption
  <2>3. QED
    BY <2>1, <2>2 DEF Accepted, Lifetime
<1>2. QED
  BY <1>1, Expiries, Invariant, PTL DEF Spec, EveryTokenHonoured

(***************************************************************************)
(* ImplementsRegistry.  The INSERT is the claim of the name, the row of a    *)
(* token its session; everything else a call does is an answer or a stutter. *)
(***************************************************************************)
AbstractStep == [Promise!Next]_(Promise!vars)

Busy == {c \in Callers : Active(c)}
Claimed == {c \in Callers : Inserted(c)}
Sessions == [t \in Tokens |-> IF tokens[t] = NoToken THEN NoUser ELSE tokens[t].user]

LEMMA SessionOfToken ==
    ASSUME Inv, NEW t \in Tokens
    PROVE  /\ tokens[t] = NoToken => Sessions[t] = NoUser
           /\ tokens[t] # NoToken => Sessions[t] = tokens[t].user /\ Sessions[t] # NoUser
  BY AccountsAssumption DEF Inv, TypeOK, TokenRows, Sessions

LEMMA Quiet ==
    ASSUME UNCHANGED <<users, tokens, req, reply, given>>, Busy' = Busy, Claimed' = Claimed
    PROVE  AbstractStep
  BY DEF AbstractStep, Promise!vars, Busy, Claimed, Sessions

LEMMA Answering ==
    ASSUME Inv, NEW c \in Callers, Active(c), NEW r, Finish(c, r), UNCHANGED req
    PROVE  Promise!Answer(c, r)
<1>1. c \in Busy /\ Busy' = Busy \ {c} /\ Claimed' = Claimed \ {c}
  BY DEF Inv, TypeOK, Busy, Claimed, Inserted
<1>2. QED
  BY <1>1 DEF Promise!Answer, Busy, Claimed

LEMMA Opening ==
    ASSUME Inv, NEW c \in Callers, pc[c] = "token", NEW t \in Tokens, NewToken(c, t)
    PROVE  Promise!Open(c, t)
<1>1. /\ tokens[t] = NoToken /\ tokens'[t] # NoToken /\ tokens'[t].user = User(c)
      /\ \A s \in Tokens : s # t => tokens'[s] = tokens[s]
  BY NewTokenFacts
<1>2. Sessions' = [Sessions EXCEPT ![t] = req[c].user]
  BY <1>1 DEF Sessions
<1>3. Sessions[t] = NoUser
  BY <1>1, SessionOfToken
<1>4. \/ req[c].op = "register" /\ c \in Claimed
      \/ req[c].op = "login"
  BY DEF Inv, StepOfOp, Claimed, Inserted
<1>5. users[req[c].user] = req[c].password
  BY DEF Inv, StepOfOp
<1>6. QED
  BY <1>2, <1>3, <1>4, <1>5 DEF Promise!Open, Sessions, Claimed

LEMMA RegistryStep ==
    ASSUME Inv, ExpiryInv, [Next]_vars
    PROVE  AbstractStep
<1> USE DEF Inv, TypeOK, StepOfOp
<1>1. ASSUME NEW c \in Callers, Request(c) PROVE AbstractStep
  <2>1. PICK r \in Requests :
          /\ r.op = "use" => \E d \in Callers : given[d] = r.token /\ reply[d] = "ok"
          /\ req' = [req EXCEPT ![c] = r]
          /\ pc' = [pc EXCEPT ![c] = FirstStep(r.op)]
    BY <1>1 DEF Request
  <2>2. r.op = "use" => Sessions[r.token] # NoUser
    <3>1. CASE r.op = "use"
      <4>1. r.token \in Tokens
        BY <3>1, RequestFacts
      <4>2. tokens[r.token] # NoToken
        BY <2>1, <3>1, <4>1, AccountsAssumption DEF ExpiryInv, GivenThere
      <4>3. QED
        BY <4>1, <4>2, SessionOfToken
    <3>2. QED
      BY <3>1
  <2>3. FirstStep(r.op) \in {"exists", "auth", "check"}
    BY RequestFacts DEF FirstStep
  <2>4. c \notin Busy /\ Busy' = Busy \cup {c}
    BY <1>1, <2>1, <2>3 DEF Request, Busy
  <2>5. Claimed' = Claimed
    BY <1>1, <2>1, <2>3 DEF Request, Claimed, Inserted
  <2>6. Sessions' = Sessions
    BY <1>1 DEF Request, Sessions
  <2>7. Promise!Accept(c)
    BY <1>1, <2>1, <2>2, <2>4, <2>5, <2>6
    DEF Request, Promise!Accept, Busy, Claimed, Sessions
  <2>8. QED
    BY <2>7 DEF AbstractStep, Promise!Next
<1>2. ASSUME NEW c \in Callers, UserExists(c) PROVE AbstractStep
  <2>1. CASE users[User(c)] # NoUser
    <3>1. Promise!Answer(c, "exists") /\ Op(c) = "register"
      BY <1>2, <2>1, Answering DEF UserExists
    <3>2. Promise!Refuse(c)
      BY <1>2, <2>1, <3>1 DEF UserExists, Promise!Refuse
    <3>3. QED
      BY <3>2 DEF AbstractStep, Promise!Next
  <2>2. CASE users[User(c)] = NoUser
    BY <1>2, <2>2, Quiet DEF UserExists, Busy, Claimed, Inserted
  <2>3. QED
    BY <2>1, <2>2
<1>3. ASSUME NEW c \in Callers, InsertUser(c) PROVE AbstractStep
  <2>1. CASE NameFree(User(c))
    <3>1. /\ users' = [users EXCEPT ![req[c].user] = req[c].password]
          /\ pc[c] = "insert" /\ pc' = [pc EXCEPT ![c] = "token"]
          /\ req[c].op = "register" /\ users[req[c].user] = NoUser
          /\ UNCHANGED <<tokens, req, reply, given>>
      BY <1>3, <2>1 DEF InsertUser
    <3>2. Busy' = Busy /\ c \in Busy
      BY <3>1 DEF Busy
    <3>3. Claimed' = Claimed \cup {c} /\ c \notin Claimed
      BY <3>1 DEF Claimed, Inserted
    <3>4. Sessions' = Sessions
      BY <3>1 DEF Sessions
    <3>5. Promise!Claim(c)
      BY <3>1, <3>2, <3>3, <3>4 DEF Promise!Claim, Promise!Enter, Busy, Claimed, Sessions
    <3>6. QED
      BY <3>5 DEF AbstractStep, Promise!Next
  <2>2. CASE ~NameFree(User(c))
    <3>1. Promise!Answer(c, "err")
      BY <1>3, <2>2, Answering DEF InsertUser
    <3>2. Promise!Fail(c)
      BY <1>3, <2>2, <3>1 DEF InsertUser, Promise!Fail
    <3>3. QED
      BY <3>2 DEF AbstractStep, Promise!Next
  <2>3. QED
    BY <2>1, <2>2
<1>4. ASSUME NEW c \in Callers, Authenticate(c) PROVE AbstractStep
  <2>1. CASE users[User(c)] = req[c].password
    BY <1>4, <2>1, Quiet DEF Authenticate, Busy, Claimed, Inserted
  <2>2. CASE users[User(c)] # req[c].password
    <3>1. Promise!Answer(c, "denied") /\ Op(c) = "login"
      BY <1>4, <2>2, Answering DEF Authenticate
    <3>2. Promise!Refuse(c)
      BY <1>4, <2>2, <3>1 DEF Authenticate, Promise!Refuse
    <3>3. QED
      BY <3>2 DEF AbstractStep, Promise!Next
  <2>3. QED
    BY <2>1, <2>2
<1>5. ASSUME NEW c \in Callers, CreateToken(c) PROVE AbstractStep
  <2>1. PICK t \in Tokens : NewToken(c, t) /\ given' = [given EXCEPT ![c] = t]
    BY <1>5 DEF CreateToken
  <2>2. Promise!Open(c, t)
    BY <1>5, <2>1, Opening DEF CreateToken
  <2>3. CASE Op(c) = "login"
    <3>1. Promise!Answer(c, "ok")
      BY <1>5, <2>3, Answering DEF CreateToken, AfterToken
    <3>2. Promise!Login(c)
      BY <1>5, <2>1, <2>2, <2>3, <3>1 DEF CreateToken, Promise!Login
    <3>3. QED
      BY <3>2 DEF AbstractStep, Promise!Next
  <2>4. CASE Op(c) = "register"
    <3>1. pc' = [pc EXCEPT ![c] = "dir"] /\ UNCHANGED <<users, req, reply>>
      BY <1>5, <2>4 DEF CreateToken, AfterToken
    <3>2. Busy' = Busy /\ Claimed' = Claimed
      BY <1>5, <2>4, <3>1 DEF CreateToken, Busy, Claimed, Inserted
    <3>3. Promise!Begin(c)
      BY <2>1, <2>2, <2>4, <3>1, <3>2 DEF Promise!Begin, Busy, Claimed
    <3>4. QED
      BY <3>3 DEF AbstractStep, Promise!Next
  <2>5. QED
    BY <1>5, <2>3, <2>4 DEF CreateToken
<1>6. ASSUME NEW c \in Callers, CreateStorageUser(c) PROVE AbstractStep
  <2>1. Promise!Answer(c, "ok")
    BY <1>6, Answering DEF CreateStorageUser
  <2>2. given[c] # NoToken /\ Sessions[given[c]] = req[c].user
    BY <1>6, SessionOfToken, AccountsAssumption DEF CreateStorageUser, HasToken
  <2>3. c \in Claimed /\ req[c].op = "register"
    BY <1>6 DEF CreateStorageUser, Claimed, Inserted
  <2>4. Promise!Register(c)
    BY <1>6, <2>1, <2>2, <2>3 DEF CreateStorageUser, Promise!Register, Claimed, Sessions
  <2>5. QED
    BY <2>4 DEF AbstractStep, Promise!Next
<1>7. ASSUME NEW c \in Callers, CreateStorageFails(c) PROVE AbstractStep
  <2>1. Promise!Answer(c, "err")
    BY <1>7, Answering DEF CreateStorageFails
  <2>2. Promise!Fail(c)
    BY <1>7, <2>1 DEF CreateStorageFails, Promise!Fail
  <2>3. QED
    BY <2>2 DEF AbstractStep, Promise!Next
<1>8. ASSUME NEW c \in Callers, CheckToken(c) PROVE AbstractStep
  <2>1. Promise!Answer(c, "ok") \/ Promise!Answer(c, "denied")
    BY <1>8, Answering DEF CheckToken
  <2>2. req[c].op = "use" /\ Sessions[req[c].token] # NoUser
    BY <1>8, SessionOfToken, RequestFacts DEF CheckToken, ExpiryInv, UsedThere
  <2>3. Promise!Use(c)
    BY <1>8, <2>1, <2>2 DEF CheckToken, Promise!Use, Sessions
  <2>4. QED
    BY <2>3 DEF AbstractStep, Promise!Next
<1>9. ASSUME NEW c \in Callers, DbFails(c) PROVE AbstractStep
  <2>1. Promise!Answer(c, "err")
    BY <1>9, Answering DEF DbFails
  <2>2. ASSUME UNCHANGED <<users, tokens>> PROVE Promise!Fail(c)
    BY <1>9, <2>1, <2>2 DEF DbFails, Promise!Fail
  <2>3. ASSUME pc[c] = "insert", NameFree(User(c)),
               users' = [users EXCEPT ![User(c)] = req[c].password], UNCHANGED tokens
        PROVE  Promise!Fail(c)
    <3>1. c \notin Claimed /\ req[c].op = "register"
      BY <2>3 DEF Claimed, Inserted
    <3>2. Promise!Enter(c)
      BY <2>3, <3>1 DEF Promise!Enter, Claimed
    <3>3. QED
      BY <1>9, <2>1, <2>3, <3>2 DEF DbFails, Promise!Fail
  <2>4. ASSUME pc[c] = "token", \E t \in Tokens : NewToken(c, t), UNCHANGED users
        PROVE  Promise!Fail(c)
    <3>1. \E t \in Tokens : Promise!Open(c, t)
      BY <2>4, Opening
    <3>2. QED
      BY <1>9, <2>1, <2>4, <3>1 DEF DbFails, Promise!Fail
  <2>5. Promise!Fail(c)
    BY <1>9, <2>2, <2>3, <2>4 DEF DbFails
  <2>6. QED
    BY <2>5 DEF AbstractStep, Promise!Next
<1>10. ASSUME Crash PROVE AbstractStep
  <2>1. Busy' = {} /\ Claimed' = {}
    BY <1>10 DEF Crash, Busy, Claimed, Inserted
  <2>2. reply' = [c \in Callers |-> IF c \in Busy THEN "err" ELSE reply[c]]
    BY <1>10 DEF Crash, Busy
  <2>3. Promise!Restart
    BY <1>10, <2>1, <2>2 DEF Crash, Promise!Restart, Busy, Claimed
  <2>4. QED
    BY <2>3 DEF AbstractStep, Promise!Next
<1>11. ASSUME Tick \/ UNCHANGED vars PROVE AbstractStep
  BY <1>11, Quiet DEF Tick, vars, Busy, Claimed, Inserted
<1>12. QED
  BY <1>1, <1>2, <1>3, <1>4, <1>5, <1>6, <1>7, <1>8, <1>9, <1>10, <1>11 DEF Next

(* For any number of clients, names and tokens, every order of their calls, every
   failure and every crash, the service is the registry of its promise. *)
THEOREM RegistryImplemented == Spec => ImplementsRegistry
<1>1. Init => Promise!Init
  BY DEF Init, Inserted, Promise!Init
<1>2. Inv /\ ExpiryInv /\ [Next]_vars => [Promise!Next]_(Promise!vars)
  BY RegistryStep DEF AbstractStep
<1>3. QED
  BY <1>1, <1>2, Expiries, Invariant, PTL DEF Spec, ImplementsRegistry, Promise!Spec
=============================================================================
