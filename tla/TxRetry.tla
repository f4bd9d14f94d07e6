------------------------------- MODULE TxRetry -------------------------------
(***************************************************************************)
(* DataBase.retry (internal/repository/database_storage.go): every          *)
(* statement of the server runs in a transaction that is tried up to three *)
(* times, on connections of one pool.  The deferred tx.Rollback of an      *)
(* attempt runs when retry returns, so a call keeps the connections of its *)
(* failed attempts while it waits for the next one.                        *)
(*                                                                         *)
(* A handler calls retry once for each of its statements, one after the     *)
(* other, until one fails (internal/grpc_handler).  A query for one row     *)
(* that finds none is an error to retry, which rolls it back; whether it is *)
(* one to the handler is up to the repository: Exists and UserExists answer *)
(* false and the handler goes on, the others report a record not found.     *)
(* A signal makes the server (internal/service/grpc/server/server.go) stop: *)
(* no request is accepted any more, and GracefulStop waits for the handlers.*)
(***************************************************************************)
EXTENDS Naturals, FiniteSets

CONSTANTS
    Callers,        \* handler goroutines
    MaxCalls,       \* bounds the statements of a handler
    PoolSize,       \* MaxConns of the pool
    TableRows,      \* rows a list query has to return
    Faults          \* which of "query", "commit", "connect", "deadline" occur

ASSUME TxRetryAssumption ==
    /\ IsFiniteSet(Callers)
    /\ PoolSize \in Nat \ {0}
    /\ MaxCalls \in Nat \ {0}
    /\ TableRows \in Nat
    /\ Faults \subseteq {"query", "commit", "connect", "deadline"}

VARIABLES
    pc,         \* "idle", or the next step of the call
    left,       \* statements its handler has yet to make after this one
    op,         \* "row", or "list" whose function appends to a slice
    attempt,    \* the loop variable
    held,       \* connections the call has not given back
    seen,       \* length of the slice: it is made outside retry
    applied,    \* history: how often the statement was committed
    reply,
    server      \* the process

vars == <<pc, left, op, attempt, held, seen, applied, reply, server>>

Steps == {"idle", "begin", "fn", "commit", "sleep"}
Replies == {"none", "ok", "norows", "err", "lost"}

maxRetries == 3

Active(c) == pc[c] # "idle"
Handling(c) == Active(c) \/ left[c] > 0

(* Connections that are handed out, numbered for each caller. *)
InUse == Cardinality({x \in Callers \X (1..PoolSize) : x[2] <= held[x[1]]})

(* What can go wrong, as far as the code tells it apart: the server aborted the
   transaction and says so with a code worth a retry, or with another one; or
   the connection broke, which says nothing about a COMMIT under way. *)
Errors == {"aborted", "refused", "broken"}

(* helpers.Classify: a broken connection is not a PgError. *)
RetriesBroken(e) == e \in {"aborted", "broken"}                     \* mutant
Retriable(e) == e = "aborted"

(* What a call still holds once retry has returned: nothing, the deferred
   rollbacks have run. *)
NoRollback(h) == h                                                  \* mutant
HeldAfterReturn(h) == 0

(* tx.Commit gives the connection back whether it succeeds or not. *)
ReleasedTwice(h) == h - 2                                           \* mutant
HeldAfterCommit(h) == h - 1

(* A handler ends with the first error, except that "no row" is the answer some of
   them hope for. *)
StillToDo(c, r) ==
    CASE r = "ok" -> {left[c]}
      [] r = "norows" -> {0, left[c]}
      [] OTHER -> {0}

Return(c, r) ==
    /\ pc' = [pc EXCEPT ![c] = "idle"]
    /\ reply' = [reply EXCEPT ![c] = r]
    /\ held' = [held EXCEPT ![c] = HeldAfterReturn(@)]
    /\ attempt' = [attempt EXCEPT ![c] = 0]
    /\ \E n \in StillToDo(c, r) : left' = [left EXCEPT ![c] = n]

Init ==
    /\ pc = [c \in Callers |-> "idle"]
    /\ left = [c \in Callers |-> 0]
    /\ op = [c \in Callers |-> "row"]
    /\ attempt = [c \in Callers |-> 0]
    /\ held = [c \in Callers |-> 0]
    /\ seen = [c \in Callers |-> 0]
    /\ applied = [c \in Callers |-> 0]
    /\ reply = [c \in Callers |-> "none"]
    /\ server = "serving"

(* A repository method calls retry with a fresh slice or id. *)
Enter(c) ==
    /\ \E o \in {"row", "list"} : op' = [op EXCEPT ![c] = o]
    /\ pc' = [pc EXCEPT ![c] = "begin"]
    /\ seen' = [seen EXCEPT ![c] = 0]
    /\ applied' = [applied EXCEPT ![c] = 0]
    /\ reply' = [reply EXCEPT ![c] = "none"]
    /\ UNCHANGED <<attempt, held, server>>

(* A request arrives: its handler makes its first statement. *)
Call(c) ==
    /\ server = "serving"
    /\ ~Handling(c)
    /\ Enter(c)
    /\ \E n \in 0 .. MaxCalls - 1 : left' = [left EXCEPT ![c] = n]

(* The handler goes on to its next statement. *)
NextCall(c) ==
    /\ ~Active(c) /\ left[c] > 0 /\ reply[c] \in {"ok", "norows"}
    /\ Enter(c)
    /\ left' = [left EXCEPT ![c] = @ - 1]

(* BeginTx waits for a connection of the pool. *)
Begin(c) ==
    /\ pc[c] = "begin"
    /\ InUse < PoolSize
    /\ pc' = [pc EXCEPT ![c] = "fn"]
    /\ held' = [held EXCEPT ![c] = @ + 1]
    /\ UNCHANGED <<left, op, attempt, seen, applied, reply, server>>

(* BeginTx fails: no connection can be made, or the context ended first.  The
   pool returns a nil Tx then, and "defer tx.Rollback(ctx)" stands before the
   check of the error: the method of a nil interface panics, no interceptor
   recovers, and the process goes down with every call in it. *)
BeginFails(c) ==
    /\ pc[c] = "begin"
    /\ Faults \cap {"connect", "deadline"} # {}
    /\ pc' = [d \in Callers |-> "idle"]
    /\ reply' = [d \in Callers |-> IF Handling(d) THEN "lost" ELSE reply[d]]
    /\ held' = [d \in Callers |-> 0]
    /\ attempt' = [d \in Callers |-> 0]
    /\ left' = [d \in Callers |-> 0]
    /\ server' = "stopped"
    /\ UNCHANGED <<op, seen, applied>>

(* An attempt has failed with error e and leaves h connections to the call. *)
Failed(c, e, h) ==
    \/ /\ ~Retriable(e)
       /\ Return(c, "err")
    \/ /\ Retriable(e)
       /\ pc' = [pc EXCEPT ![c] = "sleep"]
       /\ held' = [held EXCEPT ![c] = h]
       /\ UNCHANGED <<reply, attempt, left>>

(* What the function makes of an error in the middle of a list: rows.Err(). *)
IgnoresRowsErr(e) == "nil"                                          \* mutant
RowsErr(e) == e

(* fn(tx): a list appends what it has read before it knows whether the query
   succeeds. *)
RunFn(c) ==
    /\ pc[c] = "fn"
    /\ \E e \in (IF "query" \in Faults THEN Errors ELSE {}) \cup {"nil"},
          n \in 0..TableRows :
        /\ e = "nil" => n = TableRows
        /\ seen' = IF op[c] = "list" THEN [seen EXCEPT ![c] = @ + n] ELSE seen
        /\ \/ /\ RowsErr(e) = "nil"
              /\ pc' = [pc EXCEPT ![c] = "commit"]
              /\ UNCHANGED <<reply, held, attempt, left>>
           \/ RowsErr(e) # "nil" /\ Failed(c, e, held[c])
    /\ UNCHANGED <<op, applied, server>>

(* QueryRow finds no row: Scan returns ErrNoRows, which no attempt follows. *)
FindNothing(c) ==
    /\ pc[c] = "fn" /\ op[c] = "row"
    /\ Return(c, "norows")
    /\ UNCHANGED <<op, seen, applied, server>>

CommitOk(c) ==
    /\ pc[c] = "commit"
    /\ applied' = [applied EXCEPT ![c] = @ + 1]
    /\ Return(c, "ok")
    /\ UNCHANGED <<op, seen, server>>

(* Only when the connection broke can a failed COMMIT have been carried out. *)
CommitFails(c) ==
    /\ pc[c] = "commit"
    /\ "commit" \in Faults
    /\ \E e \in Errors :
        /\ \/ UNCHANGED applied
           \/ e = "broken" /\ applied' = [applied EXCEPT ![c] = @ + 1]
        /\ Failed(c, e, HeldAfterCommit(held[c]))
    /\ UNCHANGED <<op, seen, server>>

(* The pause is over: the next attempt, or there is none left. *)
NotCounted(n) == n                                                  \* mutant
NextAttempt(n) == n + 1

WakeUp(c) ==
    /\ pc[c] = "sleep"
    /\ \/ /\ attempt[c] + 1 < maxRetries
          /\ attempt' = [attempt EXCEPT ![c] = NextAttempt(@)]
          /\ pc' = [pc EXCEPT ![c] = "begin"]
          /\ UNCHANGED <<reply, held, left>>
       \/ attempt[c] + 1 >= maxRetries /\ Return(c, "err")
    /\ UNCHANGED <<op, seen, applied, server>>

(* The other arm of the select, ctx.Done(): the client's timeout, or its
   cancellation, has reached the handler.  It can at any moment. *)
GiveUp(c) ==
    /\ pc[c] = "sleep"
    /\ "deadline" \in Faults
    /\ Return(c, "err")
    /\ UNCHANGED <<op, seen, applied, server>>

(* Run: a signal ends ctx, and GracefulStop begins. *)
Signal ==
    /\ server = "serving"
    /\ server' = "stopping"
    /\ UNCHANGED <<pc, left, op, attempt, held, seen, applied, reply>>

(* GracefulStop returns, and the process ends. *)
Stop ==
    /\ server = "stopping"
    /\ \A c \in Callers : ~Handling(c)
    /\ server' = "stopped"
    /\ UNCHANGED <<pc, left, op, attempt, held, seen, applied, reply>>

Start ==
    /\ server = "stopped"
    /\ server' = "serving"
    /\ UNCHANGED <<pc, left, op, attempt, held, seen, applied, reply>>

Next ==
    \/ \E c \in Callers :
        \/ Call(c) \/ NextCall(c) \/ Begin(c) \/ BeginFails(c) \/ RunFn(c)
        \/ FindNothing(c) \/ CommitOk(c) \/ CommitFails(c) \/ WakeUp(c) \/ GiveUp(c)
    \/ Signal \/ Stop \/ Start

(* PostgreSQL answers, the timer fires, the pool serves those who wait in their
   order, and a goroutine that can go on does; nothing makes a request, a deadline,
   a failure or a signal happen. *)
Fairness ==
    /\ \A c \in Callers :
        /\ SF_vars(Begin(c))
        /\ WF_vars(RunFn(c) \/ FindNothing(c))
        /\ WF_vars(CommitOk(c) \/ CommitFails(c))
        /\ WF_vars(WakeUp(c))
        /\ WF_vars(NextCall(c))
    /\ WF_vars(Stop)

Spec == Init /\ [][Next]_vars
FairSpec == Spec /\ Fairness

(***************************************************************************)
(* Properties.                                                             *)
(***************************************************************************)

(* The type of every variable. *)
TypeOK ==
    /\ pc \in [Callers -> Steps]
    /\ left \in [Callers -> Nat]
    /\ op \in [Callers -> {"row", "list"}]
    /\ attempt \in [Callers -> 0..maxRetries]
    /\ held \in [Callers -> Nat]
    /\ seen \in [Callers -> Nat]
    /\ applied \in [Callers -> Nat]
    /\ reply \in [Callers -> Replies]
    /\ server \in {"serving", "stopping", "stopped"}

(* A statement is never applied twice, however often it is tried and whatever
   breaks at whichever moment; one that is answered without an error has been
   applied, and one that found no row has not, in none of its attempts. *)
ExactlyOnce ==
    \A c \in Callers :
        /\ applied[c] <= 1
        /\ reply[c] = "ok" => applied[c] = 1
        /\ reply[c] = "norows" => applied[c] = 0

(* A call inside retry holds one connection per attempt at most and a call that
   has returned none. *)
PoolAccounted ==
    \A c \in Callers :
        /\ Active(c) => held[c] <= attempt[c] + 1
        /\ ~Active(c) => held[c] = 0

(* A list that is answered lacks no row. *)
ListCovers ==
    \A c \in Callers : op[c] = "list" /\ reply[c] = "ok" => seen[c] >= TableRows

(* The pool never locks its callers out: when each of those inside retry waits for
   a connection, so that none of them can give one back, there is a free one.  It
   takes a pool of more than two connections per caller, for two are what each
   can be sitting on while it waits for its third. *)
PoolServes ==
    /\ PoolSize > 2 * Cardinality(Callers)
    /\ \A c \in Callers : Active(c) => pc[c] = "begin"
    => InUse < PoolSize

(* An upper bound on the steps a handler has yet to make: four for each attempt of
   its statement, and thirteen for each of those that follow. *)
StepsLeft(c) ==
    13 * left[c] +
        (IF Active(c)
           THEN 4 * (maxRetries - 1 - attempt[c])
                  + CASE pc[c] = "begin" -> 4 [] pc[c] = "fn" -> 3
                      [] pc[c] = "commit" -> 2 [] pc[c] = "sleep" -> 1
           ELSE 0)

Handler(c) == <<pc[c], left[c], attempt[c], held[c], reply[c]>>

(* A handler comes nearer to its end with each of its steps, whatever fails, and
   no step of another one sets it back: no order of failures keeps it trying. *)
HandlerBounded ==
    [][\A c \in Callers : Handling(c) =>
        \/ UNCHANGED Handler(c)
        \/ StepsLeft(c)' < StepsLeft(c)]_vars

(* To the handlers, retry and the pool are one attempt that succeeds, finds nothing
   or fails. *)
Interface == INSTANCE Statements WITH running <- {c \in Callers : Active(c)}

ImplementsStatements == Interface!Spec

(* Every handler returns, without the help of a deadline, from a pool as large as
   PoolServes asks for. *)
EveryCallEnds == \A c \in Callers : Handling(c) ~> ~Handling(c)

(* A server that has been told to stop does so, whatever its handlers were doing
   and however many statements they still have to make: GracefulStop has no
   timeout, and a second signal is ignored. *)
ShutdownEnds == server = "stopping" ~> server = "stopped"

(* GetList and GetListFile return the list of the user's rows. *)
ListComplete ==
    \A c \in Callers : op[c] = "list" /\ reply[c] = "ok" => seen[c] = TableRows

(* TestDataBaseRetry: retry returns the error of BeginTx. *)
BeginErrorReturned ==
    [][\A c \in Callers : pc[c] = "begin" /\ pc'[c] = "idle" => reply'[c] = "err"]_vars
=============================================================================
