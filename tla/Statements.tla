----------------------------- MODULE Statements -----------------------------
(***************************************************************************)
(* What DataBase.retry promises the handlers of the server: a statement is *)
(* carried out once or not at all, was carried out if it is answered       *)
(* without an error, and was not if it found no row.  A handler makes its  *)
(* statements one after the other until one fails, where a row that is not *)
(* there may be what it wants; a server that is stopping makes no new      *)
(* handler and waits for the others.                                       *)
(***************************************************************************)
EXTENDS Naturals

CONSTANTS Callers, MaxCalls

VARIABLES
    running,    \* handlers with a statement under way
    left,       \* statements a handler has yet to make after this one
    applied,    \* how often the statement was carried out
    reply,
    server

vars == <<running, left, applied, reply, server>>

Handling(c) == c \in running \/ left[c] > 0

Init ==
    /\ running = {}
    /\ left = [c \in Callers |-> 0]
    /\ applied = [c \in Callers |-> 0]
    /\ reply = [c \in Callers |-> "none"]
    /\ server = "serving"

Make(c) ==
    /\ c \notin running
    /\ running' = running \cup {c}
    /\ applied' = [applied EXCEPT ![c] = 0]
    /\ reply' = [reply EXCEPT ![c] = "none"]
    /\ UNCHANGED server

First(c) ==
    /\ server = "serving"
    /\ ~Handling(c)
    /\ Make(c)
    /\ \E n \in 0 .. MaxCalls - 1 : left' = [left EXCEPT ![c] = n]

Following(c) ==
    /\ left[c] > 0 /\ reply[c] \in {"ok", "norows"}
    /\ Make(c)
    /\ left' = [left EXCEPT ![c] = @ - 1]

Succeed(c) ==
    /\ c \in running
    /\ running' = running \ {c}
    /\ applied' = [applied EXCEPT ![c] = 1]
    /\ reply' = [reply EXCEPT ![c] = "ok"]
    /\ UNCHANGED <<left, server>>

(* No row is there: nothing is carried out, and the handler goes on or ends. *)
FindNothing(c) ==
    /\ c \in running
    /\ running' = running \ {c}
    /\ reply' = [reply EXCEPT ![c] = "norows"]
    /\ \E n \in {0, left[c]} : left' = [left EXCEPT ![c] = n]
    /\ UNCHANGED <<applied, server>>

(* An error leaves open whether the statement was carried out; the handler makes no
   other. *)
Fail(c) ==
    /\ c \in running
    /\ running' = running \ {c}
    /\ \E n \in {0, 1} : applied' = [applied EXCEPT ![c] = n]
    /\ reply' = [reply EXCEPT ![c] = "err"]
    /\ left' = [left EXCEPT ![c] = 0]
    /\ UNCHANGED server

(* The process ends with every handler in it; a statement under way was not carried
   out. *)
Die ==
    /\ running # {}
    /\ running' = {}
    /\ reply' = [c \in Callers |-> IF Handling(c) THEN "lost" ELSE reply[c]]
    /\ left' = [c \in Callers |-> 0]
    /\ server' = "stopped"
    /\ UNCHANGED applied

Switch(from, to) ==
    /\ server = from
    /\ server' = to
    /\ UNCHANGED <<running, left, applied, reply>>

Next ==
    \/ \E c \in Callers :
        First(c) \/ Following(c) \/ Succeed(c) \/ FindNothing(c) \/ Fail(c)
    \/ Die
    \/ Switch("serving", "stopping")
    \/ (\A c \in Callers : ~Handling(c)) /\ Switch("stopping", "stopped")
    \/ Switch("stopped", "serving")

Spec == Init /\ [][Next]_vars
=============================================================================
