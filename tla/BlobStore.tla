------------------------------ MODULE BlobStore ------------------------------
(***************************************************************************)
(* What the file service promises its client: a map from file keys to      *)
(* contents on which upload, download and remove are atomic.  A call that  *)
(* fails can leave its own file damaged, and nothing else: the name is     *)
(* taken then, and only a remove frees it.  A request about anything but   *)
(* Keys is outside the promise: it may be answered in any way, and leaves  *)
(* the map alone.                                                          *)
(***************************************************************************)
CONSTANTS
    Callers, Keys, Contents, Requests, Replies,
    Bytes,      \* what a download can return, the contents among them
    None,       \* no such file
    Damaged     \* the name is taken and no upload's bytes are behind it

VARIABLES
    store,      \* what is kept under every key
    busy,       \* calls that have not been answered
    req, reply, got

vars == <<store, busy, req, reply, got>>

Kept == Contents \cup {None, Damaged}

Init ==
    /\ store = [k \in Keys |-> None]
    /\ busy = {}
    /\ req \in [Callers -> Requests]
    /\ reply = [c \in Callers |-> "none"]
    /\ got = [c \in Callers |-> None]

Request(c) ==
    /\ c \notin busy
    /\ busy' = busy \cup {c}
    /\ \E r \in Requests : req' = [req EXCEPT ![c] = r]
    /\ reply' = [reply EXCEPT ![c] = "none"]
    /\ got' = [got EXCEPT ![c] = None]
    /\ UNCHANGED store

Answer(c, r) ==
    /\ c \in busy
    /\ busy' = busy \ {c}
    /\ reply' = [reply EXCEPT ![c] = r]
    /\ UNCHANGED req

Deny(c) == Answer(c, "denied") /\ UNCHANGED <<store, got>>

Upload(c) ==
    LET k == req[c].key IN
    /\ req[c].op = "upload" /\ k \in Keys
    /\ \/ store[k] = None /\ Answer(c, "ok")
          /\ store' = [store EXCEPT ![k] = req[c].data]
       \/ store[k] # None /\ Answer(c, "exists") /\ UNCHANGED store
    /\ UNCHANGED got

Download(c) ==
    LET k == req[c].key IN
    /\ req[c].op = "download" /\ k \in Keys
    /\ \/ store[k] = None /\ Answer(c, "absent") /\ UNCHANGED got
       \/ store[k] # None /\ Answer(c, "ok")
          /\ \E b \in Bytes :
                /\ store[k] \in Contents => b = store[k]
                /\ got' = [got EXCEPT ![c] = b]
    /\ UNCHANGED store

Remove(c) ==
    LET k == req[c].key IN
    /\ req[c].op = "remove" /\ k \in Keys
    /\ \/ store[k] = None /\ Answer(c, "absent") /\ UNCHANGED store
       \/ store[k] # None /\ Answer(c, "ok") /\ store' = [store EXCEPT ![k] = None]
    /\ UNCHANGED got

(* What a failed request leaves of the file it was about: an upload of a name
   that was free can leave anything there, a remove nothing or what there was. *)
Leftover(r) ==
    IF r.op = "upload" /\ store[r.key] = None THEN Kept
    ELSE IF r.op = "remove" THEN {store[r.key], None}
    ELSE {store[r.key]}

Fail(c) ==
    /\ req[c].key \in Keys
    /\ Answer(c, "err")
    /\ \E x \in Leftover(req[c]) : store' = [store EXCEPT ![req[c].key] = x]
    /\ UNCHANGED got

Elsewhere(c) ==
    /\ req[c].key \notin Keys
    /\ \E r \in Replies : Answer(c, r)
    /\ \E b \in Bytes : got' = [got EXCEPT ![c] = b]
    /\ UNCHANGED store

(* All calls fail together. *)
Restart ==
    /\ store' \in [Keys -> Kept]
    /\ \A k \in Keys :
        \/ store'[k] = store[k]
        \/ \E c \in busy : req[c].key = k /\ store'[k] \in Leftover(req[c])
    /\ busy' = {}
    /\ reply' = [c \in Callers |-> IF c \in busy THEN "err" ELSE reply[c]]
    /\ UNCHANGED <<req, got>>

Next ==
    \/ \E c \in Callers :
        \/ Request(c) \/ Deny(c) \/ Upload(c) \/ Download(c) \/ Remove(c)
        \/ Fail(c) \/ Elsewhere(c)
    \/ Restart

Spec == Init /\ [][Next]_vars
=============================================================================
