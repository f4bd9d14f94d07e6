------------------------------ MODULE EntityMap ------------------------------
(***************************************************************************)
(* What the entity service promises its client: a map from keys to data    *)
(* with atomic create, update and remove.  A call that fails has taken     *)
(* effect or not, and never in part.  A list has everything that is there  *)
(* when it is answered and may have, besides, what was there at an earlier  *)
(* moment of the same call.  A request about anything but Keys is outside   *)
(* the promise: any answer will do, and the map is left alone.             *)
(***************************************************************************)
CONSTANTS Callers, Keys, Requests, Replies, None,
          InList(_, _)      \* is a key among those a list request asks for

VARIABLES
    store, busy, req, reply, got,
    slice       \* what a list call that has not been answered has found

vars == <<store, busy, req, reply, got, slice>>

Init ==
    /\ store = [k \in Keys |-> None]
    /\ busy = {}
    /\ req \in [Callers -> Requests]
    /\ reply = [c \in Callers |-> "none"]
    /\ got = [c \in Callers |-> {}]
    /\ slice = [c \in Callers |-> {}]

Request(c) ==
    /\ c \notin busy
    /\ busy' = busy \cup {c}
    /\ \E r \in Requests : req' = [req EXCEPT ![c] = r]
    /\ reply' = [reply EXCEPT ![c] = "none"]
    /\ got' = [got EXCEPT ![c] = {}]
    /\ UNCHANGED <<store, slice>>

Answer(c, r) ==
    /\ c \in busy
    /\ busy' = busy \ {c}
    /\ reply' = [reply EXCEPT ![c] = r]
    /\ slice' = [slice EXCEPT ![c] = {}]
    /\ UNCHANGED req

Refuse(c) == (Answer(c, "denied") \/ Answer(c, "invalid")) /\ UNCHANGED <<store, got>>

(* The store after a request that is carried out, and whether it can be. *)
Possible(r) ==
    \/ r.op = "create" /\ store[r.key] = None
    \/ r.op \in {"update", "remove"} /\ store[r.key] # None

Effect(r) ==
    [store EXCEPT ![r.key] = IF r.op = "remove" THEN None ELSE r.data]

Change(c) ==
    /\ req[c].key \in Keys
    /\ Possible(req[c])
    /\ Answer(c, "ok")
    /\ store' = Effect(req[c])
    /\ UNCHANGED got

Refusal(r) == IF r.op = "create" THEN "exists" ELSE "absent"

CannotChange(c) ==
    /\ req[c].key \in Keys
    /\ req[c].op # "list" /\ ~Possible(req[c])
    /\ Answer(c, Refusal(req[c]))
    /\ UNCHANGED <<store, got>>

Listed(r) ==
    {[key |-> k, data |-> store[k]] : k \in {j \in Keys : store[j] # None /\ InList(j, r.key)}}

Listing(c) == c \in busy /\ req[c].op = "list" /\ req[c].key \in Keys

Collect(c) ==
    /\ Listing(c)
    /\ \E found \in SUBSET Listed(req[c]) : slice' = [slice EXCEPT ![c] = @ \cup found]
    /\ UNCHANGED <<store, busy, req, reply, got>>

List(c) ==
    /\ Listing(c)
    /\ Answer(c, "ok")
    /\ got' = [got EXCEPT ![c] = slice[c] \cup Listed(req[c])]
    /\ UNCHANGED store

Fail(c) ==
    /\ Answer(c, "err")
    /\ \/ UNCHANGED store
       \/ /\ req[c].key \in Keys
          /\ Possible(req[c])
          /\ store' = Effect(req[c])
    /\ UNCHANGED got

Elsewhere(c) ==
    /\ req[c].key \notin Keys
    /\ \E r \in Replies : Answer(c, r)
    /\ got' = [got EXCEPT ![c] = got'[c]]
    /\ UNCHANGED store

Restart ==
    /\ busy' = {}
    /\ reply' = [c \in Callers |-> IF c \in busy THEN "err" ELSE reply[c]]
    /\ slice' = [c \in Callers |-> {}]
    /\ UNCHANGED <<store, req, got>>

Next ==
    \/ \E c \in Callers :
        \/ Request(c) \/ Refuse(c) \/ Change(c) \/ CannotChange(c)
        \/ Collect(c) \/ List(c) \/ Fail(c) \/ Elsewhere(c)
    \/ Restart

Spec == Init /\ [][Next]_vars
=============================================================================
