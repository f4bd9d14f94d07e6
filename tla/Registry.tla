------------------------------ MODULE Registry ------------------------------
(***************************************************************************)
(* What the account service promises its clients: a map from names to      *)
(* passwords in which a name is written once, and sessions, each of a name *)
(* whose password its client has shown.  A registration claims its name in *)
(* one step; what fails after that leaves the name claimed for good.       *)
(***************************************************************************)
CONSTANTS Callers, Usernames, Tokens, Requests, NoUser, NoToken

VARIABLES
    accounts,   \* the password of every name
    sessions,   \* the user of every token
    busy,
    claimed,    \* registrations under way that have their name
    req, reply,
    given       \* the token of a call

vars == <<accounts, sessions, busy, claimed, req, reply, given>>

Init ==
    /\ accounts = [u \in Usernames |-> NoUser]
    /\ sessions = [t \in Tokens |-> NoUser]
    /\ busy = {}
    /\ claimed = {}
    /\ req \in [Callers -> Requests]
    /\ reply = [c \in Callers |-> "none"]
    /\ given = [c \in Callers |-> NoToken]

Accept(c) ==
    /\ c \notin busy
    /\ busy' = busy \cup {c}
    /\ \E r \in Requests :
        /\ r.op = "use" => sessions[r.token] # NoUser
        /\ req' = [req EXCEPT ![c] = r]
    /\ reply' = [reply EXCEPT ![c] = "none"]
    /\ given' = [given EXCEPT ![c] = NoToken]
    /\ UNCHANGED <<accounts, sessions, claimed>>

Answer(c, r) ==
    /\ c \in busy
    /\ busy' = busy \ {c}
    /\ claimed' = claimed \ {c}
    /\ reply' = [reply EXCEPT ![c] = r]
    /\ UNCHANGED req

(* The password is written where there was none. *)
Enter(c) ==
    /\ req[c].op = "register" /\ c \notin claimed
    /\ accounts[req[c].user] = NoUser
    /\ accounts' = [accounts EXCEPT ![req[c].user] = req[c].password]

Claim(c) ==
    /\ c \in busy
    /\ Enter(c)
    /\ claimed' = claimed \cup {c}
    /\ UNCHANGED <<sessions, busy, req, reply, given>>

(* A session for the client that has claimed the name or knows its password. *)
Open(c, t) ==
    /\ \/ req[c].op = "register" /\ c \in claimed
       \/ req[c].op = "login"
    /\ accounts[req[c].user] = req[c].password
    /\ sessions[t] = NoUser
    /\ sessions' = [sessions EXCEPT ![t] = req[c].user]

Login(c) ==
    /\ req[c].op = "login"
    /\ Answer(c, "ok")
    /\ \E t \in Tokens : Open(c, t) /\ given' = [given EXCEPT ![c] = t]
    /\ UNCHANGED accounts

Begin(c) ==
    /\ req[c].op = "register"
    /\ \E t \in Tokens : Open(c, t) /\ given' = [given EXCEPT ![c] = t]
    /\ UNCHANGED <<accounts, busy, claimed, req, reply>>

Register(c) ==
    /\ req[c].op = "register" /\ c \in claimed
    /\ given[c] # NoToken /\ sessions[given[c]] = req[c].user
    /\ Answer(c, "ok")
    /\ UNCHANGED <<accounts, sessions, given>>

Refuse(c) ==
    /\ \/ /\ req[c].op = "register" /\ accounts[req[c].user] # NoUser
          /\ Answer(c, "exists")
       \/ /\ req[c].op = "login" /\ accounts[req[c].user] # req[c].password
          /\ Answer(c, "denied")
    /\ UNCHANGED <<accounts, sessions, given>>

(* How long a session lasts is not told here. *)
Use(c) ==
    /\ req[c].op = "use" /\ sessions[req[c].token] # NoUser
    /\ Answer(c, "ok") \/ Answer(c, "denied")
    /\ UNCHANGED <<accounts, sessions, given>>

Fail(c) ==
    /\ Answer(c, "err")
    /\ \/ UNCHANGED <<accounts, sessions>>
       \/ Enter(c) /\ UNCHANGED sessions
       \/ (\E t \in Tokens : Open(c, t)) /\ UNCHANGED accounts
    /\ UNCHANGED given

Restart ==
    /\ busy' = {}
    /\ claimed' = {}
    /\ reply' = [c \in Callers |-> IF c \in busy THEN "err" ELSE reply[c]]
    /\ UNCHANGED <<accounts, sessions, req, given>>

Next ==
    \/ \E c \in Callers :
        \/ Accept(c) \/ Claim(c) \/ Login(c) \/ Begin(c) \/ Register(c)
        \/ Refuse(c) \/ Use(c) \/ Fail(c)
    \/ Restart

Spec == Init /\ [][Next]_vars
=============================================================================
