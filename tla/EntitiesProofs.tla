---------------------------- MODULE EntitiesProofs ----------------------------
(***************************************************************************)
(* Theorems about Entities, for every set of callers, users, names, types  *)
(* and data and every combination of faults.                               *)
(***************************************************************************)
EXTENDS Entities, FiniteSetTheorems, TLAPS

USE DEF Active, Key, Op, Goto, Finish, NameTaken

(* What the proofs need to know of a request and of a row. *)
LEMMA RequestFacts ==
    ASSUME NEW r \in Requests
    PROVE  /\ r.op \in {"create", "update", "remove", "list"}
           /\ r.key \in Keys
           /\ r.data \in Data \cup {NoData}
           /\ r.op \in {"create", "update"} => r.data \in Data
  BY DEF Requests

(* The row of a request belongs to the entity it names, and an update leaves
   the key of a row alone. *)
LEMMA RowFacts ==
    ASSUME NEW k \in Keys, NEW d \in Data
    PROVE  /\ [key |-> k, data |-> d] \in Rows
           /\ \A r \in Rows : /\ [r EXCEPT !.data = d] \in Rows
                              /\ [r EXCEPT !.data = d].key = r.key
  BY DEF Rows

LEMMA KeyOfRow == ASSUME NEW r \in Rows PROVE r.key \in Keys
  BY DEF Rows

(* Every variable keeps its type, and only an entity with a name is created. *)
NamedCreate ==
    \A c \in Callers : pc[c] = "insert" => Op(c) = "create" /\ Key(c)[2] # Unnamed

CreateStep ==
    \A c \in Callers : pc[c] = "exists" => Op(c) = "create"

(* A list call alone has a slice, and only while it is reading. *)
SliceStep ==
    \A c \in Callers : slice[c] # {} => pc[c] = "change" /\ Op(c) = "list"

TypeInv == TypeOK /\ NamedCreate /\ CreateStep /\ SliceStep

LEMMA InsertType ==
    ASSUME TypeInv, NEW c \in Callers, pc[c] = "insert", Insert(c)
    PROVE  /\ rows' \in [Ids -> Rows \cup {NoRow}]
           /\ \A i \in Ids : rows'[i] # NoRow => rows'[i].key[2] # Unnamed
<1>1. req[c] \in Requests /\ req[c].data \in Data /\ req[c].key \in Keys
  BY RequestFacts DEF TypeInv, TypeOK, NamedCreate
<1>2. [key |-> Key(c), data |-> req[c].data] \in Rows
  BY <1>1, RowFacts
<1>3. QED
  BY <1>2 DEF Insert, TypeInv, TypeOK, NamedCreate

LEMMA ChangeType ==
    ASSUME TypeInv, NEW c \in Callers, Change(c)
    PROVE  /\ rows' \in [Ids -> Rows \cup {NoRow}]
           /\ \A i \in Ids : rows'[i] # NoRow =>
                rows[i] # NoRow /\ rows'[i].key = rows[i].key
           /\ \A i \in Ids : rows'[i] # NoRow => rows'[i].key[2] # Unnamed
<1>1. CASE Op(c) = "update"
  <2>1. req[c] \in Requests /\ req[c].data \in Data
    BY <1>1, RequestFacts DEF TypeInv, TypeOK
  <2>2. \A i \in Selected(Key(c)) :
            rows[i] \in Rows /\ rows[i] # NoRow
            /\ Updated(i, c) \in Rows /\ Updated(i, c).key = rows[i].key
    BY <2>1, RowFacts, KeyOfRow DEF Selected, Selects, Updated, TypeInv, TypeOK
  <2>3. rows' = [i \in Ids |-> IF i \in Selected(Key(c)) THEN Updated(i, c) ELSE rows[i]]
    BY <1>1 DEF Change
  <2>4. QED
    BY <2>2, <2>3 DEF TypeInv, TypeOK
<1>2. CASE Op(c) # "update"
  BY <1>2 DEF Change, Removed, TypeInv, TypeOK
<1>3. QED
  BY <1>1, <1>2

LEMMA InTableRows == ASSUME TypeInv, NEW k PROVE InTable(k) \subseteq Rows
  BY DEF InTable, TypeInv, TypeOK

LEMMA TypeStep == TypeInv /\ [Next]_vars => TypeInv'
<1> SUFFICES ASSUME TypeInv, [Next]_vars PROVE TypeInv'
  OBVIOUS
<1> USE RequestFacts DEF TypeInv, TypeOK, NamedCreate, CreateStep, SliceStep, Steps, Replies, maxRetries
<1>1. ASSUME NEW c \in Callers, Request(c) PROVE TypeInv'
  BY <1>1 DEF Request
<1>2. ASSUME NEW c \in Callers, TokenAccepted(c) \/ TokenRejected(c) PROVE TypeInv'
  BY <1>2 DEF TokenAccepted, TokenRejected
<1>3. ASSUME NEW c \in Callers, EntityExists(c) PROVE TypeInv'
  BY <1>3 DEF EntityExists, NameMissing
<1>4. ASSUME NEW c \in Callers, CreateEntity(c) PROVE TypeInv'
  BY <1>4, InsertType DEF CreateEntity
<1>5. ASSUME NEW c \in Callers, ChangeEntity(c) PROVE TypeInv'
  BY <1>5, ChangeType DEF ChangeEntity
<1>6. ASSUME NEW c \in Callers, GetList(c) PROVE TypeInv'
  BY <1>6, InTableRows DEF GetList
<1>7. ASSUME NEW c \in Callers, DbFails(c) PROVE TypeInv'
  BY <1>7, InsertType, ChangeType DEF DbFails
<1>8. ASSUME Crash PROVE TypeInv'
  BY <1>8 DEF Crash
<1>9. ASSUME NEW c \in Callers, ListRetried(c) PROVE TypeInv'
  BY <1>9, InTableRows DEF ListRetried
<1>10. CASE UNCHANGED vars
  BY <1>10 DEF vars
<1>11. QED
  BY <1>1, <1>2, <1>3, <1>4, <1>5, <1>6, <1>7, <1>8, <1>9, <1>10 DEF Next

LEMMA TypeInvariant == Spec => []TypeInv
<1>1. Init => TypeInv
  BY DEF Init, TypeInv, TypeOK, NamedCreate, CreateStep, SliceStep, Steps, Replies, maxRetries
<1>2. QED
  BY <1>1, TypeStep, PTL DEF Spec

(* Every variable keeps its type and no entity without a name is stored. *)
THEOREM TypeCorrect == Spec => []TypeOK
<1>1. TypeInv => TypeOK
  BY DEF TypeInv
<1>2. QED
  BY <1>1, TypeInvariant, PTL

(***************************************************************************)
(* DuplicatesBounded.  For one key, a step either takes rows and creates   *)
(* away, or turns one create into one row, or lets a create past the check  *)
(* while the key has no row at all.                                        *)
(***************************************************************************)
Fewer(k) == Selected(k)' \subseteq Selected(k) /\ Creating(k)' \subseteq Creating(k)

Traded(k) ==
    \E i \in Ids \ Selected(k), c \in Creating(k) :
        Selected(k)' = Selected(k) \cup {i} /\ Creating(k)' = Creating(k) \ {c}

Entered(k) == Selected(k)' = {}

LEMMA InsertTrades ==
    ASSUME TypeInv, NEW k \in Keys, NEW c \in Callers, pc[c] = "insert",
           Insert(c), pc' = [pc EXCEPT ![c] = "idle"], UNCHANGED req
    PROVE  Fewer(k) \/ Traded(k)
<1> USE DEF TypeInv, TypeOK, Selected, Selects, Creating
<1>1. PICK i \in Ids : /\ rows[i] = NoRow
                       /\ rows' = [rows EXCEPT ![i] = [key |-> Key(c), data |-> req[c].data]]
  BY DEF Insert
<1>2. rows'[i] # NoRow /\ rows'[i].key = Key(c)
  <2>1. req[c] \in Requests /\ req[c].data \in Data /\ req[c].key \in Keys
    BY RequestFacts DEF NamedCreate
  <2>2. [key |-> Key(c), data |-> req[c].data] \in Rows
    BY <2>1, RowFacts
  <2>3. QED
    BY <1>1, <2>2, EntitiesAssumption
<1>3. \A j \in Ids \ {i} : rows'[j] = rows[j]
  BY <1>1
<1>4. CASE Key(c) = k
  <2>1. Selected(k)' = Selected(k) \cup {i} /\ i \notin Selected(k)
    BY <1>1, <1>2, <1>3, <1>4
  <2>2. Creating(k)' = Creating(k) \ {c} /\ c \in Creating(k)
    BY <1>4
  <2>3. QED
    BY <2>1, <2>2 DEF Traded
<1>5. CASE Key(c) # k
  <2>1. Selected(k)' = Selected(k)
    BY <1>1, <1>2, <1>3, <1>5
  <2>2. Creating(k)' \subseteq Creating(k)
    OBVIOUS
  <2>3. QED
    BY <2>1, <2>2 DEF Fewer
<1>6. QED
  BY <1>4, <1>5

LEMMA StepOfKey ==
    ASSUME TypeInv, [Next]_vars, NEW k \in Keys
    PROVE  Fewer(k) \/ Traded(k) \/ Entered(k)
<1> USE DEF TypeInv, TypeOK, Steps, Creating
<1>1. ASSUME UNCHANGED rows PROVE Selected(k)' = Selected(k)
  BY <1>1 DEF Selected, Selects
<1>2. ASSUME NEW c \in Callers, Request(c) PROVE Fewer(k)
  BY <1>1, <1>2 DEF Request, Fewer
<1>3. ASSUME NEW c \in Callers, TokenAccepted(c) \/ TokenRejected(c) PROVE Fewer(k)
  BY <1>1, <1>3 DEF TokenAccepted, TokenRejected, Fewer
<1>4. ASSUME NEW c \in Callers, EntityExists(c) PROVE Fewer(k) \/ Entered(k)
  <2>1. UNCHANGED <<rows, req>>
    BY <1>4 DEF EntityExists
  <2>2. CASE Key(c) = k /\ Selected(k) = {}
    BY <1>1, <2>1, <2>2 DEF Entered
  <2>3. CASE ~(Key(c) = k /\ Selected(k) = {})
    <3>1. Creating(k)' \subseteq Creating(k)
      BY <1>4, <2>1, <2>3 DEF EntityExists
    <3>2. QED
      BY <1>1, <2>1, <3>1 DEF Fewer
  <2>4. QED
    BY <2>2, <2>3
<1>5. ASSUME NEW c \in Callers, CreateEntity(c) PROVE Fewer(k) \/ Traded(k)
  BY <1>5, InsertTrades DEF CreateEntity
<1>6. ASSUME NEW c \in Callers, Change(c) PROVE Selected(k)' \subseteq Selected(k)
  BY <1>6, ChangeType DEF Selected, Selects
<1>7. ASSUME NEW c \in Callers, ChangeEntity(c) PROVE Fewer(k)
  BY <1>6, <1>7 DEF ChangeEntity, Fewer
<1>8. ASSUME NEW c \in Callers, GetList(c) \/ ListRetried(c) PROVE Fewer(k)
  BY <1>1, <1>8 DEF GetList, ListRetried, Fewer
<1>9. ASSUME NEW c \in Callers, DbFails(c) PROVE Fewer(k) \/ Traded(k)
  <2>1. pc' = [pc EXCEPT ![c] = "idle"] /\ UNCHANGED req
    BY <1>9 DEF DbFails
  <2>2. Creating(k)' \subseteq Creating(k)
    BY <2>1
  <2>3. CASE UNCHANGED rows
    BY <1>1, <2>2, <2>3 DEF Fewer
  <2>4. CASE pc[c] = "insert" /\ Insert(c)
    BY <2>1, <2>4, InsertTrades
  <2>5. CASE pc[c] = "change" /\ Change(c)
    BY <1>6, <2>2, <2>5 DEF Fewer
  <2>6. QED
    BY <1>9, <2>3, <2>4, <2>5 DEF DbFails
<1>10. ASSUME Crash PROVE Fewer(k)
  BY <1>1, <1>10 DEF Crash, Fewer
<1>11. CASE UNCHANGED vars
  BY <1>1, <1>11 DEF vars, Fewer
<1>12. QED
  BY <1>2, <1>3, <1>4, <1>5, <1>7, <1>8, <1>9, <1>10, <1>11 DEF Next

LEMMA BoundedStep ==
    ASSUME TypeInv, TypeInv', DuplicatesBounded, [Next]_vars
    PROVE  DuplicatesBounded'
<1> SUFFICES ASSUME NEW k \in Keys
             PROVE  Cardinality(Selected(k)') + Cardinality(Creating(k)')
                        <= Cardinality(Callers)
  BY DEF DuplicatesBounded
<1> DEFINE S == Selected(k)
           P == Creating(k)
<1>1. /\ S \in SUBSET Ids /\ S' \in SUBSET Ids
      /\ P \in SUBSET Callers /\ P' \in SUBSET Callers
  BY DEF Selected, Creating
<1>2. /\ IsFiniteSet(S) /\ IsFiniteSet(P) /\ IsFiniteSet(S') /\ IsFiniteSet(P')
      /\ Cardinality(P') <= Cardinality(Callers)
  BY <1>1, FS_Subset, EntitiesAssumption
<1>3. /\ Cardinality(S) \in Nat /\ Cardinality(P) \in Nat /\ Cardinality(Callers) \in Nat
      /\ Cardinality(S') \in Nat /\ Cardinality(P') \in Nat
  BY <1>2, FS_CardinalityType, EntitiesAssumption
<1>4. Cardinality(S) + Cardinality(P) <= Cardinality(Callers)
  BY DEF DuplicatesBounded
<1>5. CASE Fewer(k)
  <2>1. S' \in SUBSET S /\ P' \in SUBSET P
    BY <1>5 DEF Fewer
  <2>2. Cardinality(S') <= Cardinality(S) /\ Cardinality(P') <= Cardinality(P)
    BY <1>2, <2>1, FS_Subset
  <2>3. QED
    BY <1>3, <1>4, <2>2
<1>6. CASE Traded(k)
  <2>1. PICK i \in Ids \ S, c \in P : S' = S \cup {i} /\ P' = P \ {c}
    BY <1>6 DEF Traded
  <2>2. Cardinality(S') = Cardinality(S) + 1
    BY <1>2, <2>1, FS_AddElement
  <2>3. Cardinality(P') = Cardinality(P) - 1
    BY <1>2, <2>1, FS_RemoveElement
  <2>4. QED
    BY <1>3, <1>4, <2>2, <2>3
<1>7. CASE Entered(k)
  <2>1. Cardinality(S') = 0
    BY <1>7, FS_EmptySet DEF Entered
  <2>2. QED
    BY <1>2, <1>3, <2>1
<1>8. QED
  BY <1>5, <1>6, <1>7, StepOfKey

(* However creates race and whatever fails, a name never gets more entities
   than the server handles calls at once. *)
THEOREM DuplicatesAreBounded == Spec => []DuplicatesBounded
<1>1. ASSUME Init PROVE DuplicatesBounded
  <2>1. ASSUME NEW k \in Keys PROVE Selected(k) = {} /\ Creating(k) = {}
    BY <1>1 DEF Init, Selected, Selects, Creating
  <2>2. Cardinality(Callers) \in Nat
    BY FS_CardinalityType, EntitiesAssumption
  <2>3. QED
    BY <2>1, <2>2, FS_EmptySet DEF DuplicatesBounded
<1>2. TypeInv /\ TypeInv' /\ DuplicatesBounded /\ [Next]_vars => DuplicatesBounded'
  BY BoundedStep
<1>3. QED
  BY <1>1, <1>2, TypeInvariant, PTL DEF Spec

(***************************************************************************)
(* UniqueNames.  Where the calls about one entity do not overlap, a create  *)
(* that is past its check is alone with its key and the key has no row.    *)
(***************************************************************************)
Exclusive ==
    \A c, d \in Callers :
        c # d /\ Active(c) /\ Active(d) /\ Key(c) \in CarefulKeys => Key(c) # Key(d)

CreatingFree ==
    \A c \in Callers, i \in Ids :
        pc[c] = "insert" /\ Key(c) \in CarefulKeys => ~Selects(i, Key(c))

AtMostOne ==
    \A i, j \in Ids :
        /\ rows[i] # NoRow /\ rows[j] # NoRow
        /\ rows[i].key = rows[j].key /\ rows[i].key \in CarefulKeys
        => i = j

UniqueInv == Exclusive /\ CreatingFree /\ AtMostOne

LEMMA InsertUnique ==
    ASSUME TypeInv, UniqueInv, NEW c \in Callers, pc[c] = "insert", Insert(c),
           pc' = [pc EXCEPT ![c] = "idle"], UNCHANGED req
    PROVE  UniqueInv'
<1> USE DEF TypeInv, TypeOK, UniqueInv
<1>1. PICK i \in Ids : /\ rows[i] = NoRow
                       /\ rows' = [rows EXCEPT ![i] = [key |-> Key(c), data |-> req[c].data]]
  BY DEF Insert
<1>2. rows'[i].key = Key(c) /\ \A j \in Ids \ {i} : rows'[j] = rows[j]
  BY <1>1
<1>3. AtMostOne'
  BY <1>2 DEF AtMostOne, CreatingFree, Selects
<1>4. CreatingFree'
  <2> SUFFICES ASSUME NEW d \in Callers, NEW j \in Ids, pc'[d] = "insert",
                      Key(d) \in CarefulKeys
               PROVE  ~(rows'[j] # NoRow /\ rows'[j].key = Key(d))
    BY DEF CreatingFree, Selects
  <2>1. d # c /\ Key(d) # Key(c)
    BY DEF Exclusive
  <2>2. QED
    BY <1>2, <2>1 DEF CreatingFree, Selects
<1>5. Exclusive'
  BY DEF Exclusive
<1>6. QED
  BY <1>3, <1>4, <1>5

LEMMA ChangeUnique ==
    ASSUME TypeInv, UniqueInv, NEW c \in Callers, Change(c),
           pc' = [pc EXCEPT ![c] = "idle"], UNCHANGED req
    PROVE  UniqueInv'
  BY ChangeType DEF TypeInv, TypeOK, UniqueInv, AtMostOne, CreatingFree, Selects, Exclusive

LEMMA UniqueStep ==
    ASSUME TypeInv, UniqueInv, [Next]_vars
    PROVE  UniqueInv'
<1> USE DEF TypeInv, TypeOK, UniqueInv, Exclusive, CreatingFree, AtMostOne, Selects
<1>1. ASSUME NEW c \in Callers, Request(c) PROVE UniqueInv'
  BY <1>1 DEF Request
<1>2. ASSUME NEW c \in Callers, TokenAccepted(c) \/ TokenRejected(c) PROVE UniqueInv'
  BY <1>2 DEF TokenAccepted, TokenRejected
<1>3. ASSUME NEW c \in Callers, EntityExists(c) PROVE UniqueInv'
  BY <1>3 DEF EntityExists, Selected
<1>4. ASSUME NEW c \in Callers, CreateEntity(c) PROVE UniqueInv'
  BY <1>4, InsertUnique DEF CreateEntity
<1>5. ASSUME NEW c \in Callers, ChangeEntity(c) PROVE UniqueInv'
  BY <1>5, ChangeUnique DEF ChangeEntity
<1>6. ASSUME NEW c \in Callers, GetList(c) \/ ListRetried(c) PROVE UniqueInv'
  BY <1>6 DEF GetList, ListRetried
<1>7. ASSUME NEW c \in Callers, DbFails(c) PROVE UniqueInv'
  <2>1. pc' = [pc EXCEPT ![c] = "idle"] /\ UNCHANGED req
    BY <1>7 DEF DbFails
  <2>2. CASE UNCHANGED rows
    BY <2>1, <2>2
  <2>3. QED
    BY <1>7, <2>1, <2>2, InsertUnique, ChangeUnique DEF DbFails
<1>8. ASSUME Crash PROVE UniqueInv'
  BY <1>8 DEF Crash
<1>9. CASE UNCHANGED vars
  BY <1>9 DEF vars
<1>10. QED
  BY <1>1, <1>2, <1>3, <1>4, <1>5, <1>6, <1>7, <1>8, <1>9 DEF Next

(* No name of a careful user is given twice, although nothing in the database
   forbids it and the calls of others overlap as they like. *)
THEOREM NamesUnique == Spec => []UniqueNames
<1>1. Init => UniqueInv
  BY DEF Init, UniqueInv, Exclusive, CreatingFree, AtMostOne, Active
<1>2. TypeInv /\ UniqueInv /\ [Next]_vars => UniqueInv'
  BY UniqueStep
<1>3. UniqueInv => UniqueNames
  BY DEF UniqueInv, AtMostOne, UniqueNames
<1>4. QED
  BY <1>1, <1>2, <1>3, TypeInvariant, PTL DEF Spec

(***************************************************************************)
(* ImplementsMap.  The store of EntityMap follows from the table: a careful *)
(* key has one row at most, an insert makes one where there was none, and   *)
(* every other statement changes or removes the row it selects.            *)
(***************************************************************************)
MapStore == [k \in CarefulKeys |-> DataOf(k)]
Busy == {c \in Callers : Active(c)}
SliceOf == [c \in Callers |-> IF Key(c) \in CarefulKeys THEN slice[c] ELSE {}]

MapInv == TypeInv /\ UniqueInv

(* The rows of a key tell its data. *)
LEMMA DataFacts ==
    ASSUME MapInv, NEW k \in CarefulKeys
    PROVE  /\ Selected(k) = {} <=> DataOf(k) = NoData
           /\ \A i \in Selected(k) : rows[i] \in Rows /\ rows[i].data = DataOf(k)
<1> USE DEF MapInv, TypeInv, TypeOK, UniqueInv, AtMostOne
<1>1. \A i \in Selected(k) : rows[i] \in Rows /\ rows[i].data \in Data
  BY DEF Selected, Selects, Rows
<1>2. \A i, j \in Selected(k) : i = j
  BY DEF Selected, Selects
<1>3. \A i \in Selected(k) : DataOf(k) = rows[i].data
  BY <1>2 DEF DataOf
<1>4. QED
  BY <1>1, <1>3, EntitiesAssumption DEF DataOf

(* Where no row of a key comes, goes or changes, its data stay. *)
LEMMA SameData ==
    ASSUME NEW k \in CarefulKeys, Selected(k)' = Selected(k),
           \A i \in Selected(k) : rows'[i] = rows[i]
    PROVE  DataOf(k)' = DataOf(k)
  BY DEF DataOf

LEMMA SameStore == ASSUME UNCHANGED rows PROVE MapStore' = MapStore
  BY DEF MapStore, DataOf, Selected, Selects

(* An insert gives its key the data of the request, and no other key any. *)
LEMMA InsertStores ==
    ASSUME MapInv, MapInv', NEW c \in Callers, pc[c] = "insert", Insert(c), UNCHANGED req
    PROVE  /\ Key(c) \in CarefulKeys =>
                /\ MapStore[Key(c)] = NoData
                /\ MapStore' = [MapStore EXCEPT ![Key(c)] = req[c].data]
           /\ Key(c) \notin CarefulKeys => MapStore' = MapStore
<1> USE DEF Selected, Selects
<1>1. PICK i \in Ids : /\ rows[i] = NoRow
                       /\ rows' = [rows EXCEPT ![i] = [key |-> Key(c), data |-> req[c].data]]
  BY DEF Insert
<1>2. rows \in [Ids -> Rows \cup {NoRow}] /\ req[c] \in Requests
  BY DEF MapInv, TypeInv, TypeOK
<1>3. req[c].data \in Data /\ Key(c) \in Keys
  BY <1>2, RequestFacts DEF MapInv, TypeInv, NamedCreate
<1>4. rows'[i] # NoRow /\ rows'[i].key = Key(c) /\ rows'[i].data = req[c].data
  BY <1>1, <1>2, <1>3, RowFacts, EntitiesAssumption
<1>5. \A j \in Ids \ {i} : rows'[j] = rows[j]
  BY <1>1, <1>2
<1>6. ASSUME NEW k \in CarefulKeys, k # Key(c) PROVE DataOf(k)' = DataOf(k)
  <2>1. Selected(k)' = Selected(k) /\ i \notin Selected(k)
    BY <1>1, <1>4, <1>5, <1>6
  <2>2. QED
    BY <1>5, <2>1, SameData
<1>7. ASSUME Key(c) \in CarefulKeys PROVE DataOf(Key(c)) = NoData /\ DataOf(Key(c))' = req[c].data
  <2>1. Selected(Key(c)) = {}
    BY <1>7 DEF MapInv, UniqueInv, CreatingFree
  <2>2. Selected(Key(c))' = {i}
    BY <1>4, <1>5, <2>1
  <2>3. QED
    BY <1>4, <2>1, <2>2 DEF DataOf
<1>8. QED
  BY <1>6, <1>7 DEF MapStore

(* A change gives its key the data of the request, or none, if it has a row. *)
LEMMA ChangeStores ==
    ASSUME MapInv, MapInv', NEW c \in Callers, Change(c), UNCHANGED req
    PROVE  /\ Key(c) \in CarefulKeys /\ Selected(Key(c)) # {} =>
                /\ MapStore[Key(c)] # NoData
                /\ MapStore' = [MapStore EXCEPT ![Key(c)] =
                                   IF Op(c) = "remove" THEN NoData ELSE req[c].data]
           /\ Key(c) \notin CarefulKeys \/ Selected(Key(c)) = {} => MapStore' = MapStore
<1>1. rows \in [Ids -> Rows \cup {NoRow}] /\ req[c] \in Requests /\ Key(c) \in Keys
  BY RequestFacts DEF MapInv, TypeInv, TypeOK
<1>2. ASSUME NEW k \in CarefulKeys, k # Key(c) PROVE DataOf(k)' = DataOf(k)
  <2>1. \A j \in Selected(k) : j \notin Selected(Key(c)) /\ rows'[j] = rows[j]
    BY <1>2 DEF Change, Selected, Selects
  <2>2. Selected(k)' = Selected(k)
    BY <1>1, <1>2, <2>1, ChangeType DEF MapInv, Selected, Selects
  <2>3. QED
    BY <2>1, <2>2, SameData
<1>3. ASSUME Selected(Key(c)) = {} PROVE rows' = rows
  BY <1>1, <1>3 DEF Change
<1>4. ASSUME Key(c) \in CarefulKeys, Selected(Key(c)) # {}
      PROVE  /\ DataOf(Key(c)) # NoData
             /\ DataOf(Key(c))' = IF Op(c) = "remove" THEN NoData ELSE req[c].data
  <2>1. DataOf(Key(c)) # NoData
    BY <1>4, DataFacts
  <2>2. CASE Op(c) = "remove"
    <3>1. \A j \in Ids : rows'[j] = IF j \in Selected(Key(c)) THEN NoRow ELSE rows[j]
      BY <2>2 DEF Change, Removed
    <3>2. Selected(Key(c))' = {}
      BY <3>1 DEF Selected, Selects
    <3>3. QED
      BY <2>1, <2>2, <3>2 DEF DataOf
  <2>3. CASE Op(c) = "update"
    <3>1. req[c].data \in Data
      BY <1>1, <2>3, RequestFacts
    <3>2. \A j \in Selected(Key(c)) : rows[j] \in Rows /\ rows[j].key = Key(c)
      BY <1>1 DEF Selected, Selects
    <3>3. \A j \in Ids : rows'[j] =
              IF j \in Selected(Key(c)) THEN [rows[j] EXCEPT !.data = req[c].data] ELSE rows[j]
      BY <2>3 DEF Change, Updated
    <3>4. ASSUME NEW j \in Selected(Key(c))
          PROVE  rows'[j] \in Rows /\ rows'[j].key = Key(c) /\ rows'[j].data = req[c].data
      <4>1. j \in Ids /\ rows'[j] = [rows[j] EXCEPT !.data = req[c].data]
        BY <3>3 DEF Selected
      <4>2. QED
        BY <3>1, <3>2, <4>1 DEF Rows
    <3>5. Selected(Key(c))' = Selected(Key(c))
      <4>1. \A j \in Selected(Key(c)) : rows'[j] # NoRow
        BY <3>4, EntitiesAssumption
      <4>2. \A j \in Ids \ Selected(Key(c)) : rows'[j] = rows[j]
        BY <3>3
      <4>3. QED
        BY <3>4, <4>1, <4>2 DEF Selected, Selects
    <3>6. QED
      BY <1>4, <2>1, <2>3, <3>4, <3>5 DEF DataOf
  <2>4. QED
    BY <2>2, <2>3 DEF Change
<1>5. CASE Selected(Key(c)) = {}
  BY <1>3, <1>5, SameStore
<1>6. CASE Selected(Key(c)) # {}
  BY <1>2, <1>4, <1>6 DEF MapStore
<1>7. QED
  BY <1>5, <1>6

LEMMA MapInvariant == Spec => []MapInv
<1>1. Init => UniqueInv
  BY DEF Init, UniqueInv, Exclusive, CreatingFree, AtMostOne, Active
<1>2. TypeInv /\ UniqueInv /\ [Next]_vars => UniqueInv'
  BY UniqueStep
<1>3. QED
  BY <1>1, <1>2, TypeInvariant, PTL DEF Spec, MapInv

LEMMA MapInit == ASSUME Init PROVE Map!Init
<1>1. MapStore = [k \in CarefulKeys |-> NoData]
  BY DEF Init, MapStore, DataOf, Selected, Selects
<1>2. Busy = {}
  BY DEF Init, Busy
<1>3. req \in [Callers -> Requests]
  BY DEF Init
<1>4. SliceOf = [c \in Callers |-> {}]
  BY DEF Init, SliceOf
<1>5. QED
  BY <1>1, <1>2, <1>3, <1>4 DEF Init, Map!Init, MapStore, Busy, SliceOf

(* What of the abstract state the end of a call changes. *)
LEMMA FinishAnswers ==
    ASSUME MapInv, NEW c \in Callers, NEW r, Active(c), Finish(c, r), UNCHANGED req
    PROVE  Map!Answer(c, r)
<1>1. Busy' = Busy \ {c} /\ c \in Busy
  BY DEF Busy, MapInv, TypeInv, TypeOK
<1>2. SliceOf' = [SliceOf EXCEPT ![c] = {}]
  BY DEF SliceOf, MapInv, TypeInv, TypeOK
<1>3. QED
  BY <1>1, <1>2 DEF Map!Answer, Busy, SliceOf

LEMMA ListedTrue ==
    ASSUME MapInv, NEW k \in CarefulKeys
    PROVE  InTable(k) =
             {[key |-> l, data |-> MapStore[l]] :
                  l \in {j \in CarefulKeys : MapStore[j] # NoData /\ InList(j, k)}}
<1> DEFINE L == {rows[i] : i \in {j \in Ids : rows[j] # NoRow /\ InList(rows[j].key, k)}}
           M == {[key |-> l, data |-> MapStore[l]] :
                  l \in {j \in CarefulKeys : MapStore[j] # NoData /\ InList(j, k)}}
<1>1. \A l \in CarefulKeys : MapStore[l] = DataOf(l)
  BY DEF MapStore
<1>2. ASSUME NEW i \in Ids, rows[i] # NoRow
      PROVE  rows[i] \in Rows /\ rows[i] = [key |-> rows[i].key, data |-> rows[i].data]
  BY <1>2 DEF MapInv, TypeInv, TypeOK, Rows
<1>3. ASSUME NEW i \in Ids, rows[i] # NoRow, InList(rows[i].key, k) PROVE rows[i] \in M
  <2>1. rows[i].key \in CarefulKeys
    BY <1>2, <1>3, KeyOfRow DEF InList, CarefulKeys
  <2>2. i \in Selected(rows[i].key)
    BY <1>3 DEF Selected, Selects
  <2>3. rows[i].data = DataOf(rows[i].key) /\ DataOf(rows[i].key) # NoData
    BY <2>1, <2>2, DataFacts
  <2>4. QED
    BY <1>1, <1>2, <1>3, <2>1, <2>3
<1>4. ASSUME NEW l \in CarefulKeys, MapStore[l] # NoData, InList(l, k)
      PROVE  [key |-> l, data |-> MapStore[l]] \in L
  <2>1. PICK i \in Selected(l) : TRUE
    BY <1>1, <1>4, DataFacts
  <2>2. i \in Ids /\ rows[i] # NoRow /\ rows[i].key = l /\ rows[i].data = MapStore[l]
    BY <1>1, <2>1, DataFacts DEF Selected, Selects
  <2>3. QED
    BY <1>2, <1>4, <2>2
<1>5. QED
  BY <1>3, <1>4 DEF InTable

LEMMA ChangeMaps ==
    ASSUME MapInv, MapInv', NEW c \in Callers, ChangeEntity(c)
    PROVE  Map!Next
<1>1. /\ pc[c] = "change" /\ Change(c) /\ Op(c) \in {"update", "remove"}
      /\ UNCHANGED <<req, got>>
      /\ Finish(c, IF Selected(Key(c)) = {} THEN "absent" ELSE "ok")
  BY DEF ChangeEntity, Change
<1>2. CASE Key(c) \notin CarefulKeys
  <2>1. PICK r \in Replies : Map!Answer(c, r)
    BY <1>1, FinishAnswers DEF Replies
  <2>2. MapStore' = MapStore
    BY <1>1, <1>2, ChangeStores
  <2>3. got \in [Callers -> SUBSET Rows]
    BY DEF MapInv, TypeInv, TypeOK
  <2>4. Map!Elsewhere(c)
    BY <1>1, <1>2, <2>1, <2>2, <2>3 DEF Map!Elsewhere, MapStore
  <2>5. QED
    BY <2>4 DEF Map!Next
<1>3. CASE Key(c) \in CarefulKeys /\ Selected(Key(c)) = {}
  <2>1. Map!Answer(c, "absent")
    BY <1>1, <1>3, FinishAnswers
  <2>2. MapStore' = MapStore /\ MapStore[Key(c)] = NoData
    BY <1>1, <1>3, ChangeStores, DataFacts DEF MapStore
  <2>3. Map!Refusal(req[c]) = "absent" /\ ~Map!Possible(req[c])
    BY <1>1, <2>2 DEF Map!Possible, Map!Refusal, MapStore
  <2>4. Map!CannotChange(c)
    BY <1>1, <1>3, <2>1, <2>2, <2>3 DEF Map!CannotChange, Map!Answer, MapStore
  <2>5. QED
    BY <2>4 DEF Map!Next
<1>4. CASE Key(c) \in CarefulKeys /\ Selected(Key(c)) # {}
  <2>1. Map!Answer(c, "ok")
    BY <1>1, <1>4, FinishAnswers
  <2>2. /\ MapStore[Key(c)] # NoData
        /\ MapStore' = [MapStore EXCEPT ![Key(c)] =
                          IF Op(c) = "remove" THEN NoData ELSE req[c].data]
    BY <1>1, <1>4, ChangeStores
  <2>3. Map!Change(c)
    BY <1>1, <1>4, <2>1, <2>2 DEF Map!Change, Map!Possible, Map!Effect, MapStore
  <2>4. QED
    BY <2>3 DEF Map!Next
<1>5. QED
  BY <1>2, <1>3, <1>4

LEMMA CreateMaps ==
    ASSUME MapInv, MapInv', NEW c \in Callers, CreateEntity(c)
    PROVE  Map!Next
<1>1. /\ pc[c] = "insert" /\ Insert(c) /\ Op(c) = "create"
      /\ UNCHANGED <<req, got>> /\ Finish(c, "ok")
  BY DEF CreateEntity, MapInv, TypeInv, NamedCreate
<1>2. Map!Answer(c, "ok")
  BY <1>1, FinishAnswers
<1>3. CASE Key(c) \notin CarefulKeys
  <2>1. MapStore' = MapStore
    BY <1>1, <1>3, InsertStores
  <2>2. got \in [Callers -> SUBSET Rows]
    BY DEF MapInv, TypeInv, TypeOK
  <2>3. Map!Elsewhere(c)
    BY <1>1, <1>2, <1>3, <2>1, <2>2 DEF Map!Elsewhere, MapStore, Replies
  <2>4. QED
    BY <2>3 DEF Map!Next
<1>4. CASE Key(c) \in CarefulKeys
  <2>1. /\ MapStore[Key(c)] = NoData
        /\ MapStore' = [MapStore EXCEPT ![Key(c)] = req[c].data]
    BY <1>1, <1>4, InsertStores
  <2>2. Map!Change(c)
    BY <1>1, <1>2, <1>4, <2>1 DEF Map!Change, Map!Possible, Map!Effect, MapStore
  <2>3. QED
    BY <2>2 DEF Map!Next
<1>5. QED
  BY <1>3, <1>4

LEMMA FailMaps ==
    ASSUME MapInv, MapInv', NEW c \in Callers, DbFails(c)
    PROVE  Map!Next
<1>1. Active(c) /\ Finish(c, "err") /\ UNCHANGED <<req, got>>
  BY DEF DbFails
<1>2. Map!Answer(c, "err")
  BY <1>1, FinishAnswers
<1>3. MapStore' = MapStore \/ /\ Key(c) \in CarefulKeys /\ Map!Possible(req[c])
                              /\ MapStore' = Map!Effect(req[c])
  <2>1. CASE UNCHANGED rows
    BY <2>1, SameStore
  <2>2. CASE pc[c] = "insert" /\ Insert(c)
    BY <1>1, <2>2, InsertStores
       DEF MapInv, TypeInv, NamedCreate, Map!Possible, Map!Effect, MapStore
  <2>3. CASE pc[c] = "change" /\ Change(c)
    <3>1. Op(c) \in {"update", "remove"}
      BY <2>3 DEF Change
    <3>2. QED
      BY <1>1, <2>3, <3>1, ChangeStores DEF Map!Possible, Map!Effect, MapStore
  <2>4. QED
    BY <2>1, <2>2, <2>3 DEF DbFails
<1>4. Map!Fail(c)
  BY <1>1, <1>2, <1>3 DEF Map!Fail, MapStore
<1>5. QED
  BY <1>4 DEF Map!Next

LEMMA ListMaps ==
    ASSUME MapInv, NEW c \in Callers, GetList(c)
    PROVE  Map!Next
<1>1. /\ pc[c] = "change" /\ Op(c) = "list" /\ UNCHANGED <<rows, req>> /\ Finish(c, "ok")
      /\ got' = [got EXCEPT ![c] = slice[c] \cup InTable(Key(c))]
  BY DEF GetList
<1>2. Map!Answer(c, "ok") /\ MapStore' = MapStore
  BY <1>1, FinishAnswers, SameStore
<1>3. CASE Key(c) \notin CarefulKeys
  <2>1. got' = [got EXCEPT ![c] = got'[c]]
    BY <1>1 DEF MapInv, TypeInv, TypeOK
  <2>2. Map!Elsewhere(c)
    BY <1>2, <1>3, <2>1 DEF Map!Elsewhere, MapStore, Replies
  <2>3. QED
    BY <2>2 DEF Map!Next
<1>4. CASE Key(c) \in CarefulKeys
  <2>1. InTable(Key(c)) = Map!Listed(req[c])
    BY <1>4, ListedTrue DEF Map!Listed, MapStore
  <2>2. SliceOf[c] = slice[c]
    BY <1>4 DEF SliceOf
  <2>3. Map!Listing(c)
    BY <1>1, <1>4 DEF Map!Listing
  <2>4. Map!List(c)
    BY <1>1, <1>2, <2>1, <2>2, <2>3 DEF Map!List, MapStore, SliceOf
  <2>5. QED
    BY <2>4 DEF Map!Next
<1>5. QED
  BY <1>3, <1>4

(* An attempt of a list that will be retried collects, and is not seen. *)
LEMMA RetryMaps ==
    ASSUME MapInv, NEW c \in Callers, ListRetried(c)
    PROVE  [Map!Next]_(Map!vars)
<1>1. /\ pc[c] = "change" /\ Op(c) = "list" /\ UNCHANGED <<rows, pc, req, reply, got>>
      /\ slice \in [Callers -> SUBSET Rows]
  BY DEF ListRetried, MapInv, TypeInv, TypeOK
<1>2. MapStore' = MapStore /\ Busy' = Busy
  BY <1>1, SameStore DEF Busy
<1>3. PICK read \in SUBSET InTable(Key(c)) : slice' = [slice EXCEPT ![c] = @ \cup read]
  BY DEF ListRetried
<1>4. CASE Key(c) \notin CarefulKeys
  <2>1. SliceOf' = SliceOf
    BY <1>1, <1>3, <1>4 DEF SliceOf
  <2>2. QED
    BY <1>1, <1>2, <2>1 DEF Map!vars, MapStore, Busy, SliceOf
<1>5. CASE Key(c) \in CarefulKeys
  <2>1. InTable(Key(c)) = Map!Listed(req[c])
    BY <1>5, ListedTrue DEF Map!Listed, MapStore
  <2>2. SliceOf' = [SliceOf EXCEPT ![c] = @ \cup read]
    BY <1>1, <1>3, <1>5 DEF SliceOf
  <2>3. Map!Listing(c)
    BY <1>1, <1>5 DEF Map!Listing
  <2>4. Map!Collect(c)
    BY <1>1, <1>2, <1>3, <2>1, <2>2, <2>3 DEF Map!Collect, MapStore, Busy, SliceOf
  <2>5. QED
    BY <2>4 DEF Map!Next
<1>6. QED
  BY <1>4, <1>5

LEMMA MapStep ==
    ASSUME MapInv, MapInv', [Next]_vars
    PROVE  [Map!Next]_(Map!vars)
<1>1. ASSUME NEW c \in Callers, Request(c) PROVE Map!Next
  <2>1. MapStore' = MapStore /\ c \notin Busy /\ Busy' = Busy \cup {c}
    BY <1>1, SameStore DEF Request, Busy, MapInv, TypeInv, TypeOK
  <2>2. SliceOf' = SliceOf
    BY <1>1 DEF Request, SliceOf, MapInv, TypeInv, TypeOK, SliceStep
  <2>3. Map!Request(c)
    BY <1>1, <2>1, <2>2 DEF Request, Map!Request, MapStore, Busy, SliceOf
  <2>4. QED
    BY <2>3 DEF Map!Next
<1>2. ASSUME NEW c \in Callers, TokenAccepted(c) PROVE UNCHANGED Map!vars
  <2>1. MapStore' = MapStore /\ Busy' = Busy /\ UNCHANGED <<req, reply, got>>
    BY <1>2, SameStore DEF TokenAccepted, Busy, MapInv, TypeInv, TypeOK
  <2>2. SliceOf' = SliceOf
    BY <1>2 DEF TokenAccepted, SliceOf
  <2>3. QED
    BY <2>1, <2>2 DEF Map!vars, MapStore, Busy, SliceOf
<1>3. ASSUME NEW c \in Callers, TokenRejected(c) PROVE Map!Next
  <2>1. MapStore' = MapStore /\ UNCHANGED got /\ Map!Answer(c, "denied")
    BY <1>3, SameStore, FinishAnswers DEF TokenRejected
  <2>2. Map!Refuse(c)
    BY <2>1 DEF Map!Refuse, MapStore
  <2>3. QED
    BY <2>2 DEF Map!Next
<1>4. ASSUME NEW c \in Callers, EntityExists(c) PROVE [Map!Next]_(Map!vars)
  <2>1. MapStore' = MapStore /\ UNCHANGED <<req, got>> /\ pc[c] = "exists"
    BY <1>4, SameStore DEF EntityExists
  <2>2. CASE NameMissing(c)
    <3>1. Map!Answer(c, "invalid")
      BY <1>4, <2>1, <2>2, FinishAnswers DEF EntityExists
    <3>2. Map!Refuse(c)
      BY <2>1, <3>1 DEF Map!Refuse, MapStore
    <3>3. QED
      BY <3>2 DEF Map!Next
  <2>3. CASE ~NameMissing(c) /\ NameTaken(c)
    <3>1. Map!Answer(c, "exists") /\ Op(c) = "create"
      BY <1>4, <2>1, <2>3, FinishAnswers DEF EntityExists, MapInv, TypeInv, CreateStep
    <3>2. CASE Key(c) \in CarefulKeys
      <4>1. MapStore[Key(c)] # NoData
        BY <2>3, <3>2, DataFacts DEF MapStore
      <4>2. Map!Refusal(req[c]) = "exists" /\ ~Map!Possible(req[c])
        BY <3>1, <4>1 DEF Map!Possible, Map!Refusal, MapStore
      <4>3. Map!CannotChange(c)
        BY <2>1, <3>1, <3>2, <4>2 DEF Map!CannotChange, Map!Answer, MapStore
      <4>4. QED
        BY <4>3 DEF Map!Next
    <3>3. CASE Key(c) \notin CarefulKeys
      <4>1. got' = [got EXCEPT ![c] = got'[c]]
        BY <2>1 DEF MapInv, TypeInv, TypeOK
      <4>2. Map!Elsewhere(c)
        BY <2>1, <3>1, <3>3, <4>1 DEF Map!Elsewhere, MapStore, Replies
      <4>3. QED
        BY <4>2 DEF Map!Next
    <3>4. QED
      BY <3>2, <3>3
  <2>4. CASE ~NameMissing(c) /\ ~NameTaken(c)
    <3>1. Busy' = Busy /\ UNCHANGED reply
      BY <1>4, <2>4 DEF EntityExists, Busy, MapInv, TypeInv, TypeOK
    <3>2. SliceOf' = SliceOf
      BY <1>4, <2>1, <2>4 DEF EntityExists, SliceOf
    <3>3. QED
      BY <2>1, <3>1, <3>2 DEF Map!vars, MapStore, Busy, SliceOf
  <2>5. QED
    BY <2>2, <2>3, <2>4
<1>5. ASSUME Crash PROVE Map!Next
  <2>1. MapStore' = MapStore /\ Busy' = {} /\ UNCHANGED <<req, got>>
    BY <1>5, SameStore DEF Crash, Busy
  <2>2. reply' = [c \in Callers |-> IF c \in Busy THEN "err" ELSE reply[c]]
    BY <1>5 DEF Crash, Busy
  <2>3. SliceOf' = [c \in Callers |-> {}]
    BY <1>5 DEF Crash, SliceOf
  <2>4. Map!Restart
    BY <2>1, <2>2, <2>3 DEF Map!Restart, MapStore, Busy, SliceOf
  <2>5. QED
    BY <2>4 DEF Map!Next
<1>6. CASE UNCHANGED vars
  <2>1. MapStore' = MapStore /\ Busy' = Busy /\ UNCHANGED <<req, reply, got>>
    BY <1>6, SameStore DEF vars, Busy
  <2>2. SliceOf' = SliceOf
    BY <1>6 DEF vars, SliceOf
  <2>3. QED
    BY <2>1, <2>2 DEF Map!vars, MapStore, Busy, SliceOf
<1>7. QED
  BY <1>1, <1>2, <1>3, <1>4, <1>5, <1>6, CreateMaps, ChangeMaps, ListMaps, RetryMaps,
     FailMaps DEF Next

(* The service is an atomic map of the careful users' entities: every step of a
   handler is a step of that map or leaves it alone, for any number of calls and
   whatever the other users' calls do in between. *)
THEOREM MapImplemented == Spec => ImplementsMap
<1>1. Init => Map!Init
  BY MapInit
<1>2. MapInv /\ MapInv' /\ [Next]_vars => [Map!Next]_(Map!vars)
  BY MapStep
<1>3. QED
  BY <1>1, <1>2, MapInvariant, PTL DEF Spec, ImplementsMap, Map!Spec
=============================================================================
