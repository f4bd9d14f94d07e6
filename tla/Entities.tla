------------------------------- MODULE Entities -------------------------------
(***************************************************************************)
(* The entity service of the server: cards, texts and credentials, kept as *)
(* encrypted bytes in the table "entity" (internal/repository/entity.go)   *)
(* and reached through EntityCreate, EntityUpdate, EntityDelete and         *)
(* EntityGetList (internal/grpc_handler/entity.go).  An entity is looked up *)
(* by its user, name and type; no index makes the three unique, EntityCreate *)
(* asks whether they are taken and inserts in a second transaction.        *)
(***************************************************************************)
EXTENDS Naturals, FiniteSets

CONSTANTS
    Callers,        \* calls the server can be handling at once
    Users, Names, Types, Data,
    Ids,            \* values of entity_id
    Unnamed,        \* the empty name
    NoRow, NoData,
    Faults,         \* which of "db" and "crash" may happen
    Careful         \* users and types: calls about one entity of such a user
                    \* and type never overlap

Keys == Users \X Names \X Types
CarefulKeys == {k \in Keys : <<k[1], k[3]>> \in Careful}
Rows == [key : Keys, data : Data]

ASSUME EntitiesAssumption ==
    /\ NoRow \notin Rows /\ NoData \notin Data
    /\ Faults \subseteq {"db", "crash"}
    /\ Careful \subseteq Users \X Types
    /\ IsFiniteSet(Callers) /\ IsFiniteSet(Ids)

VARIABLES
    rows,       \* the table: the row of every id, or NoRow
    pc, req, reply,
    got,        \* the list a call returned, as the set of its entities
    slice,      \* what the attempts of a list call have appended so far
    tries       \* attempts of a list call that have failed

vars == <<rows, pc, req, reply, got, slice, tries>>

Requests ==
    [op : {"create", "update"}, key : Keys, data : Data]
        \cup [op : {"remove", "list"}, key : Keys, data : {NoData}]
Steps == {"idle", "token", "exists", "insert", "change"}
Replies == {"none", "ok", "denied", "invalid", "exists", "absent", "err"}

Active(c) == pc[c] # "idle"
Key(c) == req[c].key
Op(c) == req[c].op

(* WHERE user_id = $1 AND metadata->>'Name' = $2 AND metadata->>'Type' = $3,
   the selection of Exists, RemoveEntity and UpdateEntity; GetList takes every
   name. *)
SelectsAnyType(i, k) ==                                             \* mutant
    rows[i] # NoRow /\ rows[i].key[1] = k[1] /\ rows[i].key[2] = k[2]
Selects(i, k) == rows[i] # NoRow /\ rows[i].key = k

Selected(k) == {i \in Ids : Selects(i, k)}

InList(j, k) == j[1] = k[1] /\ j[3] = k[3]

Goto(c, step) == pc' = [pc EXCEPT ![c] = step]

Finish(c, r) ==
    /\ pc' = [pc EXCEPT ![c] = "idle"]
    /\ reply' = [reply EXCEPT ![c] = r]
    /\ slice' = [slice EXCEPT ![c] = {}]
    /\ tries' = [tries EXCEPT ![c] = 0]

Init ==
    /\ rows = [i \in Ids |-> NoRow]
    /\ pc = [c \in Callers |-> "idle"]
    /\ \E r \in Requests : req = [c \in Callers |-> r]
    /\ reply = [c \in Callers |-> "none"]
    /\ got = [c \in Callers |-> {}]
    /\ slice = [c \in Callers |-> {}]
    /\ tries = [c \in Callers |-> 0]

(* A request arrives.  The calls about one entity do not overlap where its user
   is careful; the others may. *)
Request(c) ==
    /\ ~Active(c)
    /\ \E r \in Requests :
        /\ r.key \in CarefulKeys => \A d \in Callers : Active(d) => Key(d) # r.key
        /\ req' = [req EXCEPT ![c] = r]
    /\ Goto(c, "token")
    /\ reply' = [reply EXCEPT ![c] = "none"]
    /\ got' = [got EXCEPT ![c] = {}]
    /\ UNCHANGED <<rows, slice, tries>>

(* GetExpToken and Validate. *)
TokenAccepted(c) ==
    /\ pc[c] = "token"
    /\ Goto(c, IF Op(c) = "create" THEN "exists" ELSE "change")
    /\ UNCHANGED <<rows, req, reply, got, slice, tries>>

TokenRejected(c) ==
    /\ pc[c] = "token"
    /\ Finish(c, "denied")
    /\ UNCHANGED <<rows, req, got>>

(* EntityCreate: an entity has a name, and one that nobody has taken. *)
ChecksNoName(c) == Key(c)[2] = Unnamed /\ Selected(Key(c)) # {}     \* mutant
NameMissing(c) == Key(c)[2] = Unnamed

NeverTaken(c) == FALSE                                              \* mutant
NameTaken(c) == Selected(Key(c)) # {}

EntityExists(c) ==
    /\ pc[c] = "exists"
    /\ IF NameMissing(c) THEN Finish(c, "invalid")
       ELSE IF NameTaken(c) THEN Finish(c, "exists")
       ELSE Goto(c, "insert") /\ UNCHANGED <<reply, slice, tries>>
    /\ UNCHANGED <<rows, req, got>>

(* EntityRepo.CreateEntity: INSERT with a fresh entity_id. *)
Insert(c) ==
    \E i \in Ids :
        /\ rows[i] = NoRow
        /\ rows' = [rows EXCEPT ![i] = [key |-> Key(c), data |-> req[c].data]]

CreateEntity(c) ==
    /\ pc[c] = "insert"
    /\ Insert(c)
    /\ Finish(c, "ok")
    /\ UNCHANGED <<req, got>>

(* EntityRepo.UpdateEntity and RemoveEntity: one statement over every row it
   selects; none is ErrRecordNotFound. *)
Updated(i, c) == [rows[i] EXCEPT !.data = req[c].data]
Removed(i, c) == NoRow

Change(c) ==
    LET new(i) == IF Op(c) = "update" THEN Updated(i, c) ELSE Removed(i, c) IN
    /\ Op(c) \in {"update", "remove"}
    /\ rows' = [i \in Ids |-> IF i \in Selected(Key(c)) THEN new(i) ELSE rows[i]]

ChangeEntity(c) ==
    /\ pc[c] = "change"
    /\ Change(c)
    /\ Finish(c, IF Selected(Key(c)) = {} THEN "absent" ELSE "ok")
    /\ UNCHANGED <<req, got>>

(* EntityRepo.GetList.  The slice is made outside the function that retry calls,
   and the rows are appended to it as they are read: an attempt that fails worth a
   retry leaves there what it has read, and the next one appends to that.  How
   often a row is in the slice is not kept (TxRetry counts). *)
maxRetries == 3

InTable(k) ==
    {rows[i] : i \in {j \in Ids : rows[j] # NoRow /\ InList(rows[j].key, k)}}

ListRetried(c) ==
    /\ pc[c] = "change" /\ Op(c) = "list"
    /\ "db" \in Faults
    /\ tries[c] + 1 < maxRetries
    /\ tries' = [tries EXCEPT ![c] = @ + 1]
    /\ \E read \in SUBSET InTable(Key(c)) : slice' = [slice EXCEPT ![c] = @ \cup read]
    /\ UNCHANGED <<rows, pc, req, reply, got>>

GetList(c) ==
    /\ pc[c] = "change" /\ Op(c) = "list"
    /\ got' = [got EXCEPT ![c] = slice[c] \cup InTable(Key(c))]
    /\ Finish(c, "ok")
    /\ UNCHANGED <<rows, req>>

(* A database call fails for good: its statement was not executed, or it was and
   the answer got lost. *)
DbFails(c) ==
    /\ "db" \in Faults
    /\ Active(c)
    /\ \/ UNCHANGED rows
       \/ pc[c] = "insert" /\ Insert(c)
       \/ pc[c] = "change" /\ Change(c)
    /\ Finish(c, "err")
    /\ UNCHANGED <<req, got>>

(* The server process dies and is started again. *)
Crash ==
    /\ "crash" \in Faults
    /\ pc' = [c \in Callers |-> "idle"]
    /\ reply' = [c \in Callers |-> IF Active(c) THEN "err" ELSE reply[c]]
    /\ slice' = [c \in Callers |-> {}]
    /\ tries' = [c \in Callers |-> 0]
    /\ UNCHANGED <<rows, req, got>>

Next ==
    \/ \E c \in Callers :
        \/ Request(c) \/ TokenAccepted(c) \/ TokenRejected(c) \/ EntityExists(c)
        \/ CreateEntity(c) \/ ChangeEntity(c) \/ ListRetried(c) \/ GetList(c)
        \/ DbFails(c)
    \/ Crash

Spec == Init /\ [][Next]_vars

(***************************************************************************)
(* Properties.                                                             *)
(***************************************************************************)

(* The type of every variable; no stored entity is without a name. *)
TypeOK ==
    /\ rows \in [Ids -> Rows \cup {NoRow}]
    /\ \A i \in Ids : rows[i] # NoRow => rows[i].key[2] # Unnamed
    /\ pc \in [Callers -> Steps]
    /\ req \in [Callers -> Requests]
    /\ reply \in [Callers -> Replies]
    /\ got \in [Callers -> SUBSET Rows]
    /\ slice \in [Callers -> SUBSET Rows]
    /\ tries \in [Callers -> 0 .. maxRetries - 1]

(* EntityCreate can let several creates of one name through, but no more than
   were in flight together when the name was free: the rows of a name and the
   creates past the check never outnumber the calls the server handles at
   once, however many requests follow. *)
Creating(k) == {c \in Callers : pc[c] = "insert" /\ Key(c) = k}

DuplicatesBounded ==
    \A k \in Keys :
        Cardinality(Selected(k)) + Cardinality(Creating(k)) <= Cardinality(Callers)

(* A name a careful user has taken is not given again: ErrNameAlreadyExists.
   The check and the insert are two transactions, and other calls, those of
   careless users among them, may come between any two steps. *)
UniqueNames ==
    \A i, j \in Ids :
        /\ rows[i] # NoRow /\ rows[j] # NoRow
        /\ rows[i].key = rows[j].key /\ rows[i].key \in CarefulKeys
        => i = j

(* For a careful user the service is an atomic map, whatever the others do
   meanwhile: each statement touches the entity its request names and no other,
   a refused call touches nothing, and a call that fails or is lost in a crash
   leaves no half-made entity.  A list has all there is when it is answered, and
   besides that only what an earlier attempt of the same call has found: entities
   that have been changed or removed since, when another call came in between. *)
DataOf(k) ==
    IF Selected(k) = {} THEN NoData ELSE rows[CHOOSE i \in Selected(k) : TRUE].data

Map == INSTANCE EntityMap WITH
    Keys <- CarefulKeys, None <- NoData,
    store <- [k \in CarefulKeys |-> DataOf(k)],
    busy <- {c \in Callers : Active(c)},
    slice <- [c \in Callers |-> IF Key(c) \in CarefulKeys THEN slice[c] ELSE {}]

ImplementsMap == Map!Spec
=============================================================================
