---------------------------- MODULE TxRetryProofs ----------------------------
(***************************************************************************)
(* Theorems about TxRetry, for every set of callers, every size of pool    *)
(* and every combination of faults.                                        *)
(***************************************************************************)
EXTENDS TxRetry, FiniteSetTheorems, TLAPS

USE DEF Active, Handling, StillToDo, Return, HeldAfterReturn, HeldAfterCommit,
        Retriable, NextAttempt, maxRetries

(* Until its commit a call has applied nothing, and a call that is between two
   attempts has applied nothing either: only an error that rules the effect out
   leads to another attempt. *)
NotYetApplied == \A c \in Callers : Active(c) => applied[c] = 0 /\ reply[c] = "none"

(* The connections a call holds at each of its steps; the loop starts at zero. *)
HeldAtStep ==
    \A c \in Callers :
        /\ pc[c] = "idle" => held[c] = 0 /\ attempt[c] = 0
        /\ pc[c] = "begin" => held[c] <= attempt[c] /\ attempt[c] < maxRetries
        /\ pc[c] \in {"fn", "commit"} =>
            1 <= held[c] /\ held[c] <= attempt[c] + 1 /\ attempt[c] < maxRetries
        /\ pc[c] = "sleep" => held[c] <= attempt[c] + 1 /\ attempt[c] < maxRetries

(* A list that has run its function has read every row. *)
ListRead ==
    \A c \in Callers : op[c] = "list" /\ pc[c] = "commit" => seen[c] >= TableRows

Inv == TypeOK /\ ExactlyOnce /\ NotYetApplied /\ HeldAtStep /\ ListRead /\ ListCovers

LEMMA Step == Inv /\ [Next]_vars => Inv'
<1> SUFFICES ASSUME Inv, [Next]_vars PROVE Inv'
  OBVIOUS
<1> USE TxRetryAssumption
    DEF Inv, TypeOK, ExactlyOnce, NotYetApplied, HeldAtStep, ListRead, ListCovers,
        Steps, Replies
<1>1. ASSUME NEW c \in Callers, Call(c) PROVE Inv'
  BY <1>1 DEF Call, Enter
<1>2. ASSUME NEW c \in Callers, NextCall(c) PROVE Inv'
  BY <1>2 DEF NextCall, Enter
<1>3. ASSUME NEW c \in Callers, Begin(c) PROVE Inv'
  BY <1>3 DEF Begin
<1>4. ASSUME NEW c \in Callers, BeginFails(c) PROVE Inv'
  BY <1>4 DEF BeginFails
<1>5. ASSUME NEW c \in Callers, RunFn(c) PROVE Inv'
  <2>1. PICK e \in Errors \cup {"nil"}, n \in 0..TableRows :
          /\ e = "nil" => n = TableRows
          /\ seen' = IF op[c] = "list" THEN [seen EXCEPT ![c] = @ + n] ELSE seen
          /\ \/ /\ e = "nil" /\ pc' = [pc EXCEPT ![c] = "commit"]
                /\ UNCHANGED <<reply, held, attempt, left>>
             \/ e # "nil" /\ Failed(c, e, held[c])
    BY <1>5 DEF RunFn, RowsErr
  <2>2. pc[c] = "fn" /\ UNCHANGED <<op, applied, server>>
    BY <1>5 DEF RunFn
  <2>3. seen' \in [Callers -> Nat] /\ \A d \in Callers : seen'[d] >= seen[d]
    BY <2>1
  <2>4. op[c] = "list" /\ e = "nil" => seen'[c] >= TableRows
    BY <2>1
  <2>5. CASE e = "nil"
    BY <2>1, <2>2, <2>3, <2>4, <2>5
  <2>6. CASE e # "nil"
    BY <2>1, <2>2, <2>3, <2>6 DEF Failed
  <2>7. QED
    BY <2>5, <2>6
<1>6. ASSUME NEW c \in Callers, CommitOk(c) \/ FindNothing(c) PROVE Inv'
  <2>1. /\ pc' = [pc EXCEPT ![c] = "idle"] /\ held' = [held EXCEPT ![c] = 0]
        /\ attempt' = [attempt EXCEPT ![c] = 0] /\ UNCHANGED <<op, seen, server>>
        /\ \E n \in Nat : left' = [left EXCEPT ![c] = n]
    BY <1>6 DEF CommitOk, FindNothing
  <2>2. CASE CommitOk(c)
    BY <2>1, <2>2 DEF CommitOk
  <2>3. CASE FindNothing(c)
    BY <2>1, <2>3 DEF FindNothing
  <2>4. QED
    BY <1>6, <2>2, <2>3
<1>7. ASSUME NEW c \in Callers, CommitFails(c) PROVE Inv'
  BY <1>7 DEF CommitFails, Failed
<1>8. ASSUME NEW c \in Callers, WakeUp(c) PROVE Inv'
  BY <1>8 DEF WakeUp
<1>9. ASSUME NEW c \in Callers, GiveUp(c) PROVE Inv'
  BY <1>9 DEF GiveUp
<1>10. CASE Signal \/ Stop \/ Start
  BY <1>10 DEF Signal, Stop, Start
<1>11. CASE UNCHANGED vars
  BY <1>11 DEF vars
<1>12. QED
  BY <1>1, <1>2, <1>3, <1>4, <1>5, <1>6, <1>7, <1>8, <1>9, <1>10, <1>11 DEF Next

LEMMA Invariant == Spec => []Inv
<1>1. Init => Inv
  BY DEF Init, Inv, TypeOK, ExactlyOnce, NotYetApplied, HeldAtStep, ListRead,
         ListCovers, Steps, Replies
<1>2. QED
  BY <1>1, Step, PTL DEF Spec

(* Every variable keeps its type. *)
THEOREM TypeCorrect == Spec => []TypeOK
<1>1. Inv => TypeOK
  BY DEF Inv
<1>2. QED
  BY <1>1, Invariant, PTL

(* No number of retries and no failure applies a statement twice, and "no
   error" means applied. *)
THEOREM AppliedExactlyOnce == Spec => []ExactlyOnce
<1>1. Inv => ExactlyOnce
  BY DEF Inv
<1>2. QED
  BY <1>1, Invariant, PTL

(* A call holds a connection per attempt at most, and none once it returned. *)
THEOREM ConnectionsReturned == Spec => []PoolAccounted
<1>1. Inv => PoolAccounted
  BY DEF Inv, TypeOK, HeldAtStep, PoolAccounted, Steps
<1>2. QED
  BY <1>1, Invariant, PTL

(* A list that is answered lacks no row, after any number of attempts. *)
THEOREM ListsCoverTheTable == Spec => []ListCovers
<1>1. Inv => ListCovers
  BY DEF Inv
<1>2. QED
  BY <1>1, Invariant, PTL

(***************************************************************************)
(* PoolServes: callers who wait to begin hold two connections at most.      *)
(***************************************************************************)
Waiting == \A c \in Callers : Active(c) => pc[c] = "begin"

LEMMA UpTo ==
    ASSUME NEW n \in Nat
    PROVE  IsFiniteSet(1..n) /\ Cardinality(1..n) = n
<1>1. 1 \in Int /\ n \in Int
  OBVIOUS
<1>2. IsFiniteSet(1..n) /\ Cardinality(1..n) = IF 1 > n THEN 0 ELSE n - 1 + 1
  BY <1>1, FS_Interval, Zenon
<1>3. QED
  BY <1>2

LEMMA TwoEach ==
    ASSUME Inv, Waiting
    PROVE  InUse <= 2 * Cardinality(Callers)
<1> DEFINE out == {x \in Callers \X (1..PoolSize) : x[2] <= held[x[1]]}
<1>1. \A c \in Callers : held[c] <= 2 /\ held[c] \in Nat
  BY DEF Waiting, Inv, TypeOK, HeldAtStep
<1>2. out \subseteq Callers \X (1..2)
  <2>1. ASSUME NEW c \in Callers, NEW i \in 1..PoolSize, i <= held[c] PROVE i \in 1..2
    BY <1>1, <2>1, TxRetryAssumption
  <2>2. QED
    BY <2>1
<1>3. /\ IsFiniteSet(Callers \X (1..2))
      /\ Cardinality(Callers \X (1..2)) = Cardinality(Callers) * 2
  <2>1. IsFiniteSet(1..2) /\ Cardinality(1..2) = 2
    BY UpTo
  <2>2. QED
    BY <2>1, TxRetryAssumption, FS_Product
<1>4. Cardinality(out) <= Cardinality(Callers \X (1..2))
  BY <1>2, <1>3, FS_Subset
<1>5. Cardinality(Callers) \in Nat
  BY TxRetryAssumption, FS_CardinalityType
<1> HIDE DEF out
<1>6. QED
  BY <1>3, <1>4, <1>5 DEF InUse, out

(* For every number of callers, a pool of more than two connections for each never
   leaves them all waiting. *)
THEOREM PoolNeverLocks == Spec => []PoolServes
<1>1. ASSUME Inv, PoolSize > 2 * Cardinality(Callers), Waiting PROVE InUse < PoolSize
  <2>1. InUse <= 2 * Cardinality(Callers)
    BY <1>1, TwoEach
  <2>2. Cardinality(Callers) \in Nat /\ PoolSize \in Nat
    BY TxRetryAssumption, FS_CardinalityType
  <2>3. InUse \in Nat
    <3>1. IsFiniteSet(Callers \X (1..PoolSize))
      BY TxRetryAssumption, UpTo, FS_Product
    <3>2. IsFiniteSet({x \in Callers \X (1..PoolSize) : x[2] <= held[x[1]]})
      BY <3>1, FS_Subset
    <3>3. QED
      BY <3>2, FS_CardinalityType DEF InUse
  <2>4. QED
    BY <1>1, <2>1, <2>2, <2>3
<1>2. Inv => PoolServes
  BY <1>1 DEF PoolServes, Waiting
<1>3. QED
  BY <1>2, Invariant, PTL

(***************************************************************************)
(* HandlerBounded.  One action at a time: the handler whose step it is       *)
(* comes nearer to its end, and the others are where they were.              *)
(***************************************************************************)
Nearer(c) ==
    Handling(c) => UNCHANGED Handler(c) \/ StepsLeft(c)' < StepsLeft(c)

LEMMA ReturnEnds ==
    ASSUME Inv, NEW c \in Callers, Active(c), Return(c, "err"), NEW d \in Callers
    PROVE  Nearer(d)
<1>1. /\ pc' = [pc EXCEPT ![c] = "idle"] /\ left' = [left EXCEPT ![c] = 0]
      /\ reply' = [reply EXCEPT ![c] = "err"] /\ held' = [held EXCEPT ![c] = 0]
      /\ attempt' = [attempt EXCEPT ![c] = 0]
  OBVIOUS
<1>2. CASE d = c
  <2>1. StepsLeft(c)' = 0
    BY <1>1 DEF StepsLeft, Inv, TypeOK
  <2>2. StepsLeft(c) > 0
    BY DEF StepsLeft, Inv, TypeOK, HeldAtStep, Steps
  <2>3. QED
    BY <1>2, <2>1, <2>2 DEF Nearer
<1>3. CASE d # c
  BY <1>1, <1>3 DEF Nearer, Handler, Inv, TypeOK
<1>4. QED
  BY <1>2, <1>3

LEMMA Progress ==
    ASSUME Inv, [Next]_vars, NEW d \in Callers
    PROVE  Nearer(d)
<1> USE DEF Inv, TypeOK, HeldAtStep, Steps, Nearer, StepsLeft, Handler
<1>1. ASSUME NEW c \in Callers, Call(c) PROVE Nearer(d)
  BY <1>1 DEF Call, Enter
<1>2. ASSUME NEW c \in Callers, NextCall(c) PROVE Nearer(d)
  BY <1>2 DEF NextCall, Enter
<1>3. ASSUME NEW c \in Callers, Begin(c) PROVE Nearer(d)
  BY <1>3 DEF Begin
<1>4. ASSUME NEW c \in Callers, BeginFails(c) PROVE Nearer(d)
  BY <1>4 DEF BeginFails
<1>5. ASSUME NEW c \in Callers, RunFn(c) PROVE Nearer(d)
  <2>1. pc[c] = "fn"
    BY <1>5 DEF RunFn
  <2>2. CASE pc' = [pc EXCEPT ![c] = "commit"] /\ UNCHANGED <<reply, held, attempt, left>>
    BY <2>1, <2>2
  <2>3. CASE \E e \in Errors : Failed(c, e, held[c])
    <3>1. PICK e \in Errors : Failed(c, e, held[c])
      BY <2>3
    <3>2. CASE Return(c, "err")
      BY <2>1, <3>2, ReturnEnds
    <3>3. CASE pc' = [pc EXCEPT ![c] = "sleep"] /\ UNCHANGED <<reply, attempt, left>>
               /\ held' = [held EXCEPT ![c] = held[c]]
      BY <2>1, <3>3
    <3>4. QED
      BY <3>1, <3>2, <3>3 DEF Failed
  <2>4. PICK e \in Errors \cup {"nil"} :
          \/ e = "nil" /\ pc' = [pc EXCEPT ![c] = "commit"]
             /\ UNCHANGED <<reply, held, attempt, left>>
          \/ e # "nil" /\ Failed(c, e, held[c])
    BY <1>5 DEF RunFn, RowsErr
  <2>5. QED
    BY <2>2, <2>3, <2>4
<1>6. ASSUME NEW c \in Callers, CommitOk(c) \/ FindNothing(c) PROVE Nearer(d)
  <2>1. PICK n \in {0, left[c]} : left' = [left EXCEPT ![c] = n]
    BY <1>6 DEF CommitOk, FindNothing
  <2>2. /\ pc[c] \in {"fn", "commit"} /\ pc' = [pc EXCEPT ![c] = "idle"]
        /\ held' = [held EXCEPT ![c] = 0] /\ attempt' = [attempt EXCEPT ![c] = 0]
        /\ \A b \in Callers : b # c => reply'[b] = reply[b]
    BY <1>6 DEF CommitOk, FindNothing
  <2>3. QED
    BY <2>1, <2>2
<1>7. ASSUME NEW c \in Callers, CommitFails(c) PROVE Nearer(d)
  BY <1>7 DEF CommitFails, Failed
<1>8. ASSUME NEW c \in Callers, WakeUp(c) PROVE Nearer(d)
  <2>1. pc[c] = "sleep"
    BY <1>8 DEF WakeUp
  <2>2. CASE /\ attempt' = [attempt EXCEPT ![c] = @ + 1]
             /\ pc' = [pc EXCEPT ![c] = "begin"] /\ UNCHANGED <<reply, held, left>>
    BY <2>1, <2>2
  <2>3. CASE Return(c, "err")
    BY <2>1, <2>3, ReturnEnds
  <2>4. QED
    BY <1>8, <2>2, <2>3 DEF WakeUp
<1>9. ASSUME NEW c \in Callers, GiveUp(c) PROVE Nearer(d)
  BY <1>9 DEF GiveUp
<1>10. CASE Signal \/ Stop \/ Start \/ UNCHANGED vars
  BY <1>10 DEF Signal, Stop, Start, vars
<1>11. QED
  BY <1>1, <1>2, <1>3, <1>4, <1>5, <1>6, <1>7, <1>8, <1>9, <1>10 DEF Next

(* A handler of n statements is through after thirteen steps for each, and neither
   failures nor other handlers make it longer. *)
THEOREM HandlersAreBounded == Spec => HandlerBounded
<1>1. ASSUME Inv, [Next]_vars
      PROVE  [\A c \in Callers : Handling(c) =>
                \/ UNCHANGED Handler(c)
                \/ StepsLeft(c)' < StepsLeft(c)]_vars
  <2>1. \A c \in Callers : Nearer(c)
    BY <1>1, Progress
  <2>2. QED
    BY <2>1 DEF Nearer
<1>2. QED
  BY <1>1, Invariant, PTL DEF Spec, HandlerBounded

(***************************************************************************)
(* ImplementsStatements.  Attempts, connections and lists are hidden: a step *)
(* inside retry is a stutter, a COMMIT that worked is the statement, and an  *)
(* error that ends the call is its failure.                                 *)
(***************************************************************************)
AbstractStep == [Interface!Next]_(Interface!vars)

Running == {c \in Callers : Active(c)}

LEMMA SameHandlers ==
    \A c \in Callers : Interface!Handling(c) <=> Handling(c)
  BY DEF Interface!Handling

LEMMA Inside ==
    ASSUME UNCHANGED <<left, applied, reply, server>>, Running' = Running
    PROVE  AbstractStep
  BY DEF AbstractStep, Interface!vars, Running

(* A call that returns with an error fails its statement, carried out or not. *)
LEMMA ErrorIsFailure ==
    ASSUME Inv, NEW c \in Callers, Active(c), Return(c, "err"), UNCHANGED server,
           \/ UNCHANGED applied
           \/ applied' = [applied EXCEPT ![c] = @ + 1]
    PROVE  AbstractStep
<1>1. Running' = Running \ {c} /\ c \in Running
  BY DEF Running, Inv, TypeOK
<1>2. \E n \in {0, 1} : applied' = [applied EXCEPT ![c] = n]
  BY DEF Inv, TypeOK, NotYetApplied
<1>3. Interface!Fail(c)
  BY <1>1, <1>2 DEF Interface!Fail, Running
<1>4. QED
  BY <1>3 DEF AbstractStep, Interface!Next

(* The same of an attempt that is repeated: nothing has happened. *)
LEMMA FailedAttempt ==
    ASSUME Inv, NEW c \in Callers, Active(c), NEW e, NEW h, Failed(c, e, h),
           UNCHANGED server,
           \/ UNCHANGED applied
           \/ e = "broken" /\ applied' = [applied EXCEPT ![c] = @ + 1]
    PROVE  AbstractStep
<1>1. CASE ~Retriable(e)
  BY <1>1, ErrorIsFailure DEF Failed
<1>2. CASE Retriable(e)
  <2>1. UNCHANGED <<left, applied, reply, server>>
    BY <1>2 DEF Failed
  <2>2. Running' = Running
    BY <1>2 DEF Failed, Running, Inv, TypeOK
  <2>3. QED
    BY <2>1, <2>2, Inside
<1>3. QED
  BY <1>1, <1>2

LEMMA StatementStep ==
    ASSUME Inv, [Next]_vars
    PROVE  AbstractStep
<1> USE DEF Inv, TypeOK
<1>1. ASSUME NEW c \in Callers, Call(c) PROVE AbstractStep
  <2>1. Running' = Running \cup {c} /\ c \notin Running
    BY <1>1 DEF Call, Enter, Running
  <2>2. Interface!First(c)
    BY <1>1, <2>1, SameHandlers DEF Call, Enter, Interface!First, Interface!Make, Running
  <2>3. QED
    BY <2>2 DEF AbstractStep, Interface!Next
<1>2. ASSUME NEW c \in Callers, NextCall(c) PROVE AbstractStep
  <2>1. Running' = Running \cup {c} /\ c \notin Running
    BY <1>2 DEF NextCall, Enter, Running
  <2>2. Interface!Following(c)
    BY <1>2, <2>1 DEF NextCall, Enter, Interface!Following, Interface!Make, Running
  <2>3. QED
    BY <2>2 DEF AbstractStep, Interface!Next
<1>3. ASSUME NEW c \in Callers, Begin(c) PROVE AbstractStep
  BY <1>3, Inside DEF Begin, Running
<1>4. ASSUME NEW c \in Callers, BeginFails(c) PROVE AbstractStep
  <2>1. Running' = {} /\ Running # {}
    BY <1>4 DEF BeginFails, Running
  <2>2. reply' = [d \in Callers |-> IF Interface!Handling(d) THEN "lost" ELSE reply[d]]
    BY <1>4, SameHandlers DEF BeginFails
  <2>3. Interface!Die
    BY <1>4, <2>1, <2>2 DEF BeginFails, Interface!Die, Running
  <2>4. QED
    BY <2>3 DEF AbstractStep, Interface!Next
<1>5. ASSUME NEW c \in Callers, RunFn(c) PROVE AbstractStep
  <2>1. Active(c) /\ UNCHANGED <<applied, server>>
    BY <1>5 DEF RunFn
  <2>2. CASE pc' = [pc EXCEPT ![c] = "commit"] /\ UNCHANGED <<reply, held, attempt, left>>
    BY <2>1, <2>2, Inside DEF Running
  <2>3. ASSUME NEW e, Failed(c, e, held[c]) PROVE AbstractStep
    BY <2>1, <2>3, FailedAttempt
  <2>4. QED
    BY <1>5, <2>2, <2>3 DEF RunFn
<1>6. ASSUME NEW c \in Callers, CommitOk(c) PROVE AbstractStep
  <2>1. Running' = Running \ {c} /\ c \in Running
    BY <1>6 DEF CommitOk, Running
  <2>2. applied' = [applied EXCEPT ![c] = 1]
    <3>1. applied[c] = 0
      BY <1>6 DEF CommitOk, NotYetApplied
    <3>2. applied' = [applied EXCEPT ![c] = applied[c] + 1]
      BY <1>6 DEF CommitOk
    <3>3. QED
      BY <3>1, <3>2
  <2>3. left' = left
    BY <1>6 DEF CommitOk
  <2>4. Interface!Succeed(c)
    BY <1>6, <2>1, <2>2, <2>3 DEF CommitOk, Interface!Succeed, Running
  <2>5. QED
    BY <2>4 DEF AbstractStep, Interface!Next
<1>7. ASSUME NEW c \in Callers, CommitFails(c) PROVE AbstractStep
  <2>1. PICK e \in Errors :
          /\ \/ UNCHANGED applied
             \/ e = "broken" /\ applied' = [applied EXCEPT ![c] = @ + 1]
          /\ Failed(c, e, HeldAfterCommit(held[c]))
    BY <1>7 DEF CommitFails
  <2>2. Active(c) /\ UNCHANGED server
    BY <1>7 DEF CommitFails
  <2>3. QED
    BY <2>1, <2>2, FailedAttempt
<1>8. ASSUME NEW c \in Callers, WakeUp(c) PROVE AbstractStep
  <2>1. Active(c) /\ UNCHANGED <<applied, server>>
    BY <1>8 DEF WakeUp
  <2>2. CASE pc' = [pc EXCEPT ![c] = "begin"] /\ UNCHANGED <<reply, held, left>>
    BY <2>1, <2>2, Inside DEF Running
  <2>3. CASE Return(c, "err")
    BY <2>1, <2>3, ErrorIsFailure
  <2>4. QED
    BY <1>8, <2>2, <2>3 DEF WakeUp
<1>9. ASSUME NEW c \in Callers, GiveUp(c) PROVE AbstractStep
  BY <1>9, ErrorIsFailure DEF GiveUp
<1>10. ASSUME NEW c \in Callers, FindNothing(c) PROVE AbstractStep
  <2>1. Running' = Running \ {c} /\ c \in Running
    BY <1>10 DEF FindNothing, Running
  <2>2. Interface!FindNothing(c)
    BY <1>10, <2>1 DEF FindNothing, Interface!FindNothing, Running
  <2>3. QED
    BY <2>2 DEF AbstractStep, Interface!Next
<1>11. ASSUME Signal \/ Stop \/ Start PROVE AbstractStep
  <2>1. Running' = Running
    BY <1>11 DEF Signal, Stop, Start, Running
  <2>2. Interface!Next
    BY <1>11, <2>1, SameHandlers
    DEF Signal, Stop, Start, Running, Interface!Next, Interface!Switch
  <2>3. QED
    BY <2>2 DEF AbstractStep
<1>12. CASE UNCHANGED vars
  BY <1>12, Inside DEF vars, Running
<1>13. QED
  BY <1>1, <1>2, <1>3, <1>4, <1>5, <1>6, <1>7, <1>8, <1>9, <1>10, <1>11, <1>12 DEF Next

(* Whatever is retried, for every number of handlers and statements, every pool and
   every combination of faults, a handler sees statements that are carried out once
   or fail. *)
THEOREM StatementsImplemented == Spec => ImplementsStatements
<1>1. Init => Interface!Init
  BY DEF Init, Interface!Init
<1>2. Inv /\ [Next]_vars => [Interface!Next]_(Interface!vars)
  BY StatementStep DEF AbstractStep
<1>3. QED
  BY <1>1, <1>2, Invariant, PTL DEF Spec, ImplementsStatements, Interface!Spec

(***************************************************************************)
(* The cause of a list with rows twice: the attempts before the one that     *)
(* succeeded.                                                              *)
(***************************************************************************)
FreshSlice ==
    \A c \in Callers : op[c] = "list" /\ attempt[c] = 0 =>
        /\ pc[c] \in {"begin", "fn"} => seen[c] = 0
        /\ pc[c] = "commit" => seen[c] = TableRows

LEMMA FreshStep == Inv /\ FreshSlice /\ [Next]_vars => FreshSlice'
<1> SUFFICES ASSUME Inv, FreshSlice, [Next]_vars PROVE FreshSlice'
  OBVIOUS
<1> USE TxRetryAssumption DEF FreshSlice, Inv, TypeOK, HeldAtStep
<1>1. ASSUME NEW c \in Callers, Call(c) \/ NextCall(c) PROVE FreshSlice'
  BY <1>1 DEF Call, NextCall, Enter
<1>2. ASSUME NEW c \in Callers, Begin(c) \/ BeginFails(c) PROVE FreshSlice'
  BY <1>2 DEF Begin, BeginFails
<1>3. ASSUME NEW c \in Callers, RunFn(c) PROVE FreshSlice'
  <2>1. pc[c] = "fn" /\ UNCHANGED op
    BY <1>3 DEF RunFn
  <2>2. PICK e \in Errors \cup {"nil"}, n \in 0..TableRows :
          /\ e = "nil" => n = TableRows
          /\ seen' = IF op[c] = "list" THEN [seen EXCEPT ![c] = @ + n] ELSE seen
          /\ \/ /\ e = "nil" /\ pc' = [pc EXCEPT ![c] = "commit"]
                /\ UNCHANGED <<reply, held, attempt, left>>
             \/ e # "nil" /\ Failed(c, e, held[c])
    BY <1>3 DEF RunFn, RowsErr
  <2>3. \A d \in Callers : d # c => seen'[d] = seen[d]
    BY <2>2
  <2>4. op[c] = "list" => seen'[c] = seen[c] + n
    BY <2>2
  <2>5. CASE e = "nil"
    BY <2>1, <2>2, <2>3, <2>4, <2>5
  <2>6. CASE e # "nil"
    <3>1. pc'[c] \in {"idle", "sleep"}
      BY <2>2, <2>6 DEF Failed
    <3>2. \A d \in Callers : d # c => pc'[d] = pc[d] /\ attempt'[d] = attempt[d]
      BY <2>2, <2>6 DEF Failed
    <3>3. QED
      BY <2>1, <2>3, <3>1, <3>2
  <2>7. QED
    BY <2>5, <2>6
<1>4. ASSUME NEW c \in Callers, CommitOk(c) \/ FindNothing(c) PROVE FreshSlice'
  BY <1>4 DEF CommitOk, FindNothing
<1>5. ASSUME NEW c \in Callers, CommitFails(c) PROVE FreshSlice'
  BY <1>5 DEF CommitFails, Failed
<1>6. ASSUME NEW c \in Callers, WakeUp(c) \/ GiveUp(c) PROVE FreshSlice'
  BY <1>6 DEF WakeUp, GiveUp
<1>7. ASSUME Signal \/ Stop \/ Start \/ UNCHANGED vars PROVE FreshSlice'
  BY <1>7 DEF Signal, Stop, Start, vars
<1>8. QED
  BY <1>1, <1>2, <1>3, <1>4, <1>5, <1>6, <1>7 DEF Next

LEMMA Fresh == Spec => []FreshSlice
<1>1. Init => FreshSlice
  BY DEF Init, FreshSlice
<1>2. QED
  BY <1>1, FreshStep, Invariant, PTL DEF Spec

(* A list that the first attempt answers is the table's rows, each once, under all
   faults and whatever its caller and the others did before. *)
THEOREM FirstAttemptExact ==
    Spec => [][\A c \in Callers :
                 pc[c] = "commit" /\ op[c] = "list" /\ attempt[c] = 0 /\ reply'[c] = "ok"
                   => seen'[c] = TableRows]_vars
<1>1. ASSUME Inv, FreshSlice, [Next]_vars, NEW c \in Callers,
             pc[c] = "commit", op[c] = "list", attempt[c] = 0, reply'[c] = "ok"
      PROVE  seen'[c] = TableRows
  <2>1. seen[c] = TableRows
    BY <1>1 DEF FreshSlice
  <2>2. seen'[c] = seen[c]
    BY <1>1 DEF Inv, TypeOK, NotYetApplied, Next, vars, Call, NextCall, Enter, Begin,
       BeginFails, RunFn, FindNothing, CommitOk, CommitFails, WakeUp, GiveUp, Signal, Stop, Start
  <2>3. QED
    BY <2>1, <2>2
<1>2. Inv /\ FreshSlice /\ [Next]_vars =>
        [\A c \in Callers :
            pc[c] = "commit" /\ op[c] = "list" /\ attempt[c] = 0 /\ reply'[c] = "ok"
              => seen'[c] = TableRows]_vars
  BY <1>1
<1>3. QED
  BY <1>2, Fresh, Invariant, PTL DEF Spec

(* Where no attempt fails before its answer is there, lists are complete: ListComplete,
   which the run of all faults violates, fails for no other reason. *)
NeverRetried ==
    \A c \in Callers :
        /\ attempt[c] = 0 /\ pc[c] # "sleep"
        /\ op[c] = "list" /\ reply[c] = "ok" => seen[c] = TableRows

THEOREM ListsCompleteUnlessRetried ==
    ASSUME Faults \cap {"query", "commit"} = {}
    PROVE  Spec => []ListComplete
<1>1. Init => NeverRetried
  BY DEF Init, NeverRetried
<1>2. ASSUME Inv, FreshSlice, NeverRetried, [Next]_vars PROVE NeverRetried'
  <2> USE <1>2 DEF Inv, TypeOK, FreshSlice, NotYetApplied, NeverRetried
  <2>1. ASSUME NEW c \in Callers, Call(c) \/ NextCall(c) PROVE NeverRetried'
    BY <2>1 DEF Call, NextCall, Enter
  <2>2. ASSUME NEW c \in Callers, Begin(c) \/ BeginFails(c) PROVE NeverRetried'
    BY <2>2 DEF Begin, BeginFails
  <2>3. ASSUME NEW c \in Callers, RunFn(c) PROVE NeverRetried'
    <3>1. pc[c] = "fn" /\ pc' = [pc EXCEPT ![c] = "commit"] /\ reply[c] = "none"
          /\ UNCHANGED <<op, reply, attempt>>
      BY <2>3 DEF RunFn, RowsErr, Failed, Errors
    <3>2. \A d \in Callers : d # c => seen'[d] = seen[d]
      BY <2>3 DEF RunFn
    <3>3. QED
      BY <3>1, <3>2
  <2>4. ASSUME NEW c \in Callers, CommitOk(c) \/ CommitFails(c) \/ FindNothing(c)
        PROVE  NeverRetried'
    BY <2>4 DEF CommitOk, CommitFails, FindNothing
  <2>5. ASSUME NEW c \in Callers, WakeUp(c) \/ GiveUp(c) PROVE NeverRetried'
    BY <2>5 DEF WakeUp, GiveUp
  <2>6. ASSUME Signal \/ Stop \/ Start \/ UNCHANGED vars PROVE NeverRetried'
    BY <2>6 DEF Signal, Stop, Start, vars
  <2>7. QED
    BY <2>1, <2>2, <2>3, <2>4, <2>5, <2>6 DEF Next
<1>3. NeverRetried => ListComplete
  BY DEF NeverRetried, ListComplete
<1>4. QED
  BY <1>1, <1>2, <1>3, Fresh, Invariant, PTL DEF Spec
=============================================================================
