---------------------------- MODULE SessionProofs ----------------------------
(***************************************************************************)
(* Theorems about Session, for any number of commands under way, any list  *)
(* of kinds and any finite set of names.                                   *)
(***************************************************************************)
EXTENDS Session, FiniteSetTheorems, TLAPS

USE SessionAssumption DEF model, command, credentials

(* What the first n lists of a Synchronize hold of the server's entities. *)
Listed(n) == {i \in server : \E k \in 1..n : i.kind = Kinds[k]}

(* A command whose Sync has looked at the credentials and found them. *)
Admitted(c) ==
    \/ step[c] = "load" /\ read[c] > 0
    \/ step[c] = "msg" /\ result[c] # "err"

(* How far a command is and what it has gathered belong together. *)
Gathered ==
    \A c \in Cmds :
        /\ step[c] \notin {"load", "msg"} => read[c] = 0
        /\ read[c] = 0 => loaded[c] = <<>>
        /\ step[c] = "load" => read[c] < Len(Kinds)
        /\ step[c] = "msg" /\ result[c] # "err" => read[c] = Len(Kinds)
        /\ result[c] = "err" => step[c] = "msg" /\ read[c] = 0
        /\ step[c] = "msg" => result[c] # "none"
        /\ step[c] \in {"op", "load"} => result[c] # "none"
        /\ step[c] \in {"token", "password"} =>
              \/ op[c] = "logout"
              \/ op[c] = "login" /\ result[c] # "none"

(* As long as a command runs alone, what it has gathered is what the server
   holds now, and the client is still logged in. *)
Single == \A c, d \in Cmds : step[c] # "idle" /\ step[d] # "idle" => c = d
UpToDate == \A c \in Cmds : Range(loaded[c]) = Listed(read[c])
LoggedIn == \A c \in Cmds : Admitted(c) => Authorised
Visible ==
    \A c \in Cmds :
        step[c] # "idle" /\ result[c] = "synced" => screen \notin {"auth", "quit"}

AloneInv == alone => Single /\ UpToDate /\ LoggedIn /\ Visible

(***************************************************************************)
(* Lists and sets of entities.                                             *)
(***************************************************************************)

LEMMA RangeOfSeq ==
    ASSUME NEW S, NEW s \in Seq(S)
    PROVE  \A x : x \in Range(s) <=> \E k \in 1..Len(s) : x = s[k]
<1>1. DOMAIN s = 1..Len(s)
  OBVIOUS
<1>2. \A x : x \in Range(s) <=> \E k \in DOMAIN s : x = s[k]
  BY Zenon DEF Range
<1>3. QED
  BY <1>1, <1>2

(* An ordering of a finite set is a sequence that holds all of it. *)
LEMMA OrderingFacts ==
    ASSUME NEW S \in SUBSET Items, NEW s \in Orderings(S)
    PROVE  s \in Seq(Items) /\ Range(s) = S
<1>1. Cardinality(S) \in Nat
  BY FS_Subset, FS_CardinalityType
<1>2. s \in [1..Cardinality(S) -> S] /\ S \subseteq Range(s)
  BY Zenon DEF Orderings
<1>3. s \in Seq(S)
  BY <1>1, <1>2
<1>4. \A k \in 1..Len(s) : s[k] \in S
  BY <1>3
<1>5. s \in Seq(Items)
  BY <1>3
<1>6. \A x : x \in Range(s) <=> \E k \in 1..Len(s) : x = s[k]
  BY <1>3, RangeOfSeq
<1>7. Range(s) \subseteq S
  BY <1>4, <1>6
<1>8. QED
  BY <1>2, <1>5, <1>7

LEMMA RangeOfConcat ==
    ASSUME NEW s \in Seq(Items), NEW t \in Seq(Items)
    PROVE  s \o t \in Seq(Items) /\ Range(s \o t) = Range(s) \cup Range(t)
<1>1. s \o t \in Seq(Items) /\ Len(s \o t) = Len(s) + Len(t)
  OBVIOUS
<1>2. \A k \in 1..Len(s) : s[k] = (s \o t)[k] /\ k \in 1..Len(s \o t)
  OBVIOUS
<1>3. \A k \in 1..Len(t) : /\ t[k] = (s \o t)[Len(s) + k]
                          /\ Len(s) + k \in 1..Len(s \o t)
  OBVIOUS
<1>4. \A k \in 1..Len(s \o t) :
        \/ k \in 1..Len(s) /\ (s \o t)[k] = s[k]
        \/ k - Len(s) \in 1..Len(t) /\ (s \o t)[k] = t[k - Len(s)]
  OBVIOUS
<1>5. \A x : x \in Range(s \o t) <=> x \in Range(s) \/ x \in Range(t)
  <2>1. /\ \A x : x \in Range(s) <=> \E k \in 1..Len(s) : x = s[k]
        /\ \A x : x \in Range(t) <=> \E k \in 1..Len(t) : x = t[k]
        /\ \A x : x \in Range(s \o t) <=> \E k \in 1..Len(s \o t) : x = (s \o t)[k]
    BY <1>1, RangeOfSeq
  <2>2. \A x : x \in Range(s \o t) => x \in Range(s) \/ x \in Range(t)
    BY <2>1, <1>4
  <2>3. \A x : x \in Range(s) \/ x \in Range(t) => x \in Range(s \o t)
    BY <2>1, <1>2, <1>3
  <2>4. QED
    BY <2>2, <2>3
<1>6. QED
  BY <1>1, <1>5

(* The line selected is an item of the list. *)
LEMMA CurrentIsItem == ASSUME TypeOK, HasCurrent PROVE Current \in Items
  BY DEF TypeOK, HasCurrent, Current

(***************************************************************************)
(* Type correctness.                                                       *)
(***************************************************************************)

(* A key that starts a command starts one of the calls, with the message that
   belongs to it. *)
LEMMA KeyLaunches ==
    ASSUME TypeOK, NEW c \in Cmds, Key(c)
    PROVE  \E o \in Ops, i \in Items \cup {NoItem}, r \in Results :
             Launch(c, o, i, r) /\ (r = "none" <=> o = "logout") /\ r # "err"
  BY CurrentIsItem DEF Key, SubmitAuth, Refresh, FileCommand, SubmitEditor, ConfirmDelete,
     LogOut, Ops, Changes, Results, TypeOK

LEMMA LaunchType ==
    ASSUME TypeOK, NEW c \in Cmds, NEW o \in Ops, NEW i \in Items \cup {NoItem},
           NEW r \in Results, Launch(c, o, i, r),
           o \in {"create", "update", "delete"} => i \in Items,
           screen' \in Screens, items' \in Seq(Items), selected' \in Nat,
           selected' = 0 \/ selected' < Len(items'), editorID' \in Items \cup {NoItem}
    PROVE  TypeOK'
<1>1. loading' \in BOOLEAN /\ fresh' \in BOOLEAN
  BY DEF Launch, TypeOK, SetsLoading
<1>2. alone' \in BOOLEAN
  BY Zenon DEF Launch, Idle
<1>3. step' \in [Cmds -> {"idle", "op", "token", "password", "load", "msg"}]
  BY DEF Launch, TypeOK
<1>4. /\ op' \in [Cmds -> Ops]
      /\ target' \in [Cmds -> Items \cup {NoItem}]
      /\ \A d \in Cmds : op'[d] \in {"create", "update", "delete"} => target'[d] \in Items
  BY DEF Launch, TypeOK
<1>5. /\ result' \in [Cmds -> Results]
      /\ UNCHANGED <<read, loaded, credentials, server>>
  BY DEF Launch, TypeOK
<1>6. QED
  BY <1>1, <1>2, <1>3, <1>4, <1>5 DEF TypeOK

LEMMA KeyType == ASSUME TypeOK, NEW c \in Cmds, Key(c) PROVE TypeOK'
<1>1. CASE SubmitAuth(c) \/ Refresh(c) \/ FileCommand(c)
  BY <1>1, LaunchType
     DEF SubmitAuth, Refresh, FileCommand, TypeOK, Ops, Changes, Results
<1>2. CASE SubmitEditor(c)
  BY <1>2, LaunchType DEF SubmitEditor, TypeOK, Ops, Changes, Results
<1>3. CASE ConfirmDelete(c)
  BY <1>3, LaunchType, CurrentIsItem DEF ConfirmDelete, TypeOK, Ops, Changes, Results
<1>4. CASE LogOut(c)
  <2>1. /\ Launch(c, "logout", NoItem, "none")
        /\ screen' \in Screens /\ items' \in Seq(Items)
        /\ selected' \in Nat /\ selected' = 0
        /\ editorID' \in Items \cup {NoItem}
    BY <1>4 DEF LogOut, TypeOK, Screens
  <2>2. "logout" \in Ops /\ "none" \in Results
    BY DEF Ops, Results
  <2>3. QED
    BY <2>1, <2>2, LaunchType
<1>5. QED
  BY <1>1, <1>2, <1>3, <1>4 DEF Key

LEMMA NavigateType == ASSUME TypeOK, Navigate PROVE TypeOK'
<1>1. CASE Move
  BY <1>1 DEF Move, Clamp, TypeOK
<1>2. CASE OpenEditEditor
  BY <1>2, CurrentIsItem DEF OpenEditEditor, Goes, TypeOK, Screens
<1>3. CASE ~Move /\ ~OpenEditEditor
  BY <1>3 DEF Navigate, OpenDetails, OpenCreateEditor, OpenConfirm, NothingToDelete,
              Back, OpenFiles, OpenUpload, CloseUpload, Goes, TypeOK, Screens
<1>4. QED
  BY <1>1, <1>2, <1>3

LEMMA ServerType ==
    ASSUME TypeOK, NEW o \in Changes, NEW i \in Items \cup {NoItem},
           o = "file" \/ i \in Items
    PROVE  ServerAfter(o, i) \subseteq Items
  BY DEF TypeOK, ServerAfter, Changes

LEMMA RunType == ASSUME TypeOK, Gathered, NEW c \in Cmds, Run(c) PROVE TypeOK'
<1>1. CASE Authenticate(c)
  BY <1>1 DEF Authenticate, GoesOn, TypeOK
<1>2. CASE WriteToken(c)
  BY <1>2 DEF WriteToken, GoesOn, TypeOK
<1>3. CASE WritePassword(c)
  BY <1>3 DEF WritePassword, GoesOn, TypeOK, Ops
<1>4. CASE Change(c)
  <2>1. server' \subseteq Items
    BY <1>4, ServerType DEF Change, TypeOK, Changes
  <2>2. QED
    BY <1>4, <2>1 DEF Change, GoesOn, TypeOK, Ops
<1>5. CASE Load(c)
  <2>1. Len(Kinds) \in Nat
    BY DEF SessionAssumption
  <2>2. read'[c] \in 0..Len(Kinds)
    BY <1>5, <2>1 DEF Load, TypeOK, Gathered
  <2>3. loaded' \in [Cmds -> Seq(Items)]
    <3>1. PICK s \in Orderings({i \in server : i.kind = KindOf(read[c] + 1)}) :
             loaded' = [loaded EXCEPT ![c] = @ \o s]
      BY <1>5 DEF Load
    <3>2. s \in Seq(Items)
      BY OrderingFacts DEF TypeOK
    <3>3. loaded[c] \o s \in Seq(Items)
      BY <3>2 DEF TypeOK
    <3>4. QED
      BY <3>1, <3>3 DEF TypeOK
  <2>4. QED
    BY <1>5, <2>2, <2>3 DEF Load, TypeOK
<1>6. CASE Fails(c)
  <2>1. server' \subseteq Items
    BY <1>6, ServerType DEF Fails, TypeOK, Changes
  <2>2. QED
    BY <1>6, <2>1 DEF Fails, TypeOK, Ops, Results
<1>7. QED
  BY <1>1, <1>2, <1>3, <1>4, <1>5, <1>6 DEF Run

LEMMA DeliverType == ASSUME TypeOK, NEW c \in Cmds, Deliver(c) PROVE TypeOK'
<1>1. loading' \in BOOLEAN /\ fresh' \in BOOLEAN
  BY DEF Deliver, LoadingAfter, TypeOK
<1>2. /\ screen' \in Screens /\ items' \in Seq(Items)
      /\ selected' \in Nat /\ (selected' = 0 \/ selected' < Len(items'))
      /\ editorID' \in Items \cup {NoItem}
  BY DEF Deliver, ScreenAfter, Clamp, TypeOK, Screens
<1>3. /\ step' \in [Cmds -> {"idle", "op", "token", "password", "load", "msg"}]
      /\ read' \in [Cmds -> 0..Len(Kinds)]
      /\ loaded' \in [Cmds -> Seq(Items)]
      /\ result' \in [Cmds -> Results]
  BY DEF Deliver, TypeOK, Results
<1>4. QED
  BY <1>1, <1>2, <1>3 DEF Deliver, TypeOK

LEMMA QuitType == ASSUME TypeOK, Quit PROVE TypeOK'
<1>1. 0 \in 0..Len(Kinds)
  BY DEF SessionAssumption
<1>2. /\ read' \in [Cmds -> 0..Len(Kinds)]
      /\ loaded' \in [Cmds -> Seq(Items)]
  BY <1>1 DEF Quit
<1>3. /\ op' \in [Cmds -> Ops] /\ result' \in [Cmds -> Results]
      /\ target' \in [Cmds -> Items \cup {NoItem}]
      /\ \A c \in Cmds : op'[c] \in {"create", "update", "delete"} => target'[c] \in Items
  BY DEF Quit, Ops, Results
<1>4. QED
  BY <1>2, <1>3 DEF Quit, TypeOK, Screens

LEMMA ElsewhereType == ASSUME TypeOK, Elsewhere PROVE TypeOK'
  BY DEF Elsewhere, TypeOK

LEMMA NextType == ASSUME TypeOK, Gathered, [Next]_vars PROVE TypeOK'
<1>1. CASE UNCHANGED vars
  BY <1>1 DEF vars, TypeOK
<1>2. QED
  BY <1>1, KeyType, RunType, DeliverType, NavigateType, QuitType, ElsewhereType DEF Next

(***************************************************************************)
(* How far each command is.                                                *)
(***************************************************************************)

LEMMA LaunchGathered ==
    ASSUME TypeOK, Gathered, NEW c \in Cmds, NEW o \in Ops, NEW i, NEW r \in Results,
           Launch(c, o, i, r), r = "none" <=> o = "logout", r # "err"
    PROVE  Gathered'
<1>1. Len(Kinds) > 0
  BY DEF SessionAssumption
<1>2. QED
  BY <1>1 DEF Launch, TypeOK, Gathered

LEMMA KeyGathered == ASSUME TypeOK, Gathered, NEW c \in Cmds, Key(c) PROVE Gathered'
  BY KeyLaunches, LaunchGathered

LEMMA NextGathered == ASSUME TypeOK, Gathered, [Next]_vars PROVE Gathered'
<1> USE DEF Gathered
<1>1. ASSUME NEW c \in Cmds, Authenticate(c) \/ WriteToken(c) \/ WritePassword(c)
      PROVE  Gathered'
  BY <1>1 DEF Authenticate, WriteToken, WritePassword, GoesOn, TypeOK, SessionAssumption
<1>2. ASSUME NEW c \in Cmds, Change(c) PROVE Gathered'
  BY <1>2 DEF Change, GoesOn, TypeOK, SessionAssumption
<1>3. ASSUME NEW c \in Cmds, Load(c) PROVE Gathered'
  BY <1>3 DEF Load, TypeOK, SessionAssumption
<1>4. ASSUME NEW c \in Cmds, Fails(c) PROVE Gathered'
  BY <1>4 DEF Fails, TypeOK
<1>5. ASSUME NEW c \in Cmds, Deliver(c) PROVE Gathered'
  BY <1>5 DEF Deliver, TypeOK
<1>6. CASE Quit
  BY <1>6 DEF Quit
<1>7. CASE Navigate \/ Elsewhere \/ UNCHANGED vars
  BY <1>7 DEF Navigate, Elsewhere, OpenDetails, OpenCreateEditor, OpenEditEditor,
     OpenConfirm, NothingToDelete, Back, OpenFiles, OpenUpload, CloseUpload, Goes, Move, vars
<1>8. QED
  BY <1>1, <1>2, <1>3, <1>4, <1>5, <1>6, <1>7, KeyGathered DEF Next, Run

LEMMA InitInv == Init => TypeOK /\ Gathered
<1>1. 0 \in 0..Len(Kinds)
  BY DEF SessionAssumption
<1> SUFFICES ASSUME Init PROVE TypeOK /\ Gathered
  OBVIOUS
<1>3. Gathered
  BY DEF Init, Gathered
<1>4. /\ read \in [Cmds -> 0..Len(Kinds)]
      /\ loaded \in [Cmds -> Seq(Items)]
  BY <1>1 DEF Init
<1>5. /\ op \in [Cmds -> Ops] /\ result \in [Cmds -> Results]
      /\ target \in [Cmds -> Items \cup {NoItem}]
      /\ \A c \in Cmds : op[c] \in {"create", "update", "delete"} => target[c] \in Items
  BY DEF Init, Ops, Results
<1>6. /\ screen \in Screens /\ items \in Seq(Items) /\ selected \in Nat /\ selected = 0
      /\ server \subseteq Items /\ editorID \in Items \cup {NoItem}
      /\ step \in [Cmds -> {"idle", "op", "token", "password", "load", "msg"}]
  BY DEF Init, Screens
<1>7. /\ loading \in BOOLEAN /\ alone \in BOOLEAN /\ fresh \in BOOLEAN
      /\ token \in BOOLEAN /\ masterPassword \in BOOLEAN
  BY DEF Init
<1>8. QED
  BY <1>3, <1>4, <1>5, <1>6, <1>7 DEF TypeOK

LEMMA Reached == Spec => [](TypeOK /\ Gathered)
<1>1. TypeOK /\ Gathered /\ [Next]_vars => (TypeOK /\ Gathered)'
  BY NextType, NextGathered
<1>2. QED
  BY InitInv, <1>1, PTL DEF Spec

(* Every variable keeps its type, the selection stays within the list, and a
   call on an entity names one. *)
THEOREM TypeCorrect == Spec => []TypeOK
  BY Reached, PTL

(***************************************************************************)
(* A screen that waits has something to wait for.                          *)
(***************************************************************************)

LEMMA NextBacked == ASSUME TypeOK, Gathered, LoadingBacked, [Next]_vars PROVE LoadingBacked'
<1> USE DEF LoadingBacked
<1>1. ASSUME NEW c \in Cmds, NEW o \in Ops, NEW i, NEW r, Launch(c, o, i, r)
      PROVE  LoadingBacked'
  <2>1. CASE o = "logout"
    BY <1>1, <2>1 DEF Launch, TypeOK, SetsLoading
  <2>2. CASE o # "logout"
    <3>1. step'[c] # "idle" /\ op'[c] # "logout"
      BY <1>1, <2>2 DEF Launch, TypeOK
    <3>2. QED
      BY <3>1
  <2>3. QED
    BY <2>1, <2>2
<1>2. ASSUME NEW c \in Cmds, Key(c) PROVE LoadingBacked'
  <2>1. \E o \in Ops, i \in Items \cup {NoItem}, r \in Results : Launch(c, o, i, r)
    BY <1>2, KeyLaunches
  <2>2. QED
    BY <1>1, <2>1
<1>3. ASSUME NEW c \in Cmds, Run(c) PROVE LoadingBacked'
  <2>1. loading' = loading
    BY <1>3 DEF Run, Authenticate, WriteToken, WritePassword, Change, Load, Fails, GoesOn
  <2>2. SUFFICES ASSUME NEW d \in Cmds, step[d] # "idle", op[d] # "logout"
                 PROVE  step'[d] # "idle" /\ op'[d] # "logout"
    BY <2>1
  <2>3. CASE Authenticate(c) \/ WriteToken(c) \/ WritePassword(c)
    BY <2>2, <2>3 DEF Authenticate, WriteToken, WritePassword, GoesOn, TypeOK, Gathered
  <2>4. CASE Change(c) \/ Load(c) \/ Fails(c)
    BY <2>2, <2>4 DEF Change, Load, Fails, GoesOn, TypeOK
  <2>5. QED
    BY <1>3, <2>3, <2>4 DEF Run
<1>4. CASE Quit \/ \E c \in Cmds : Deliver(c)
  BY <1>4 DEF Quit, Deliver, LoadingAfter
<1>5. CASE Navigate \/ Elsewhere \/ UNCHANGED vars
  BY <1>5 DEF Navigate, Elsewhere, OpenDetails, OpenCreateEditor, OpenEditEditor,
     OpenConfirm, NothingToDelete, Back, OpenFiles, OpenUpload, CloseUpload, Goes, Move, vars
<1>6. QED
  BY <1>2, <1>3, <1>4, <1>5 DEF Next

(* Whenever the screen waits, a command that will be answered is under way. *)
THEOREM WaitsForSomething == Spec => []LoadingBacked
<1>1. Init => LoadingBacked
  BY DEF Init, LoadingBacked
<1>2. TypeOK /\ Gathered /\ LoadingBacked /\ [Next]_vars => LoadingBacked'
  BY NextBacked
<1>3. QED
  BY <1>1, <1>2, Reached, PTL DEF Spec

(***************************************************************************)
(* What is shown after a command that ran alone.                           *)
(***************************************************************************)

LEMMA ListedNothing == Listed(0) = {}
  BY DEF Listed

LEMMA ListedAll == ASSUME TypeOK PROVE Listed(Len(Kinds)) = server
<1>1. \A i \in Items : i.kind \in Range(Kinds)
  BY DEF Items
<1>2. Kinds \in Seq(Range(Kinds))
  BY DEF SessionAssumption
<1>3. \A x : x \in Range(Kinds) <=> \E k \in 1..Len(Kinds) : x = Kinds[k]
  BY <1>2, RangeOfSeq
<1>4. QED
  BY <1>1, <1>3 DEF Listed, TypeOK

LEMMA EmptyRange == Range(<<>>) = {}
  BY DEF Range

(* A list that is read adds its kind to what has been gathered. *)
LEMMA LoadRange ==
    ASSUME TypeOK, Gathered, NEW c \in Cmds, Load(c),
           Range(loaded[c]) = Listed(read[c])
    PROVE  Range(loaded'[c]) = Listed(read'[c])
<1>1. PICK s \in Orderings({i \in server : i.kind = Kinds[read[c] + 1]}) :
         loaded' = [loaded EXCEPT ![c] = @ \o s]
  BY DEF Load, KindOf
<1>2. s \in Seq(Items) /\ Range(s) = {i \in server : i.kind = Kinds[read[c] + 1]}
  BY OrderingFacts DEF TypeOK
<1>3. Range(loaded'[c]) = Listed(read[c]) \cup {i \in server : i.kind = Kinds[read[c] + 1]}
  BY <1>1, <1>2, RangeOfConcat DEF TypeOK
<1>4. read[c] \in Nat /\ read'[c] = read[c] + 1
  BY DEF Load, TypeOK, SessionAssumption
<1>5. \A k : k \in 1..read'[c] <=> k \in 1..read[c] \/ k = read[c] + 1
  BY <1>4
<1>6. QED
  BY <1>3, <1>5 DEF Listed

LEMMA KeyAlone == ASSUME TypeOK, Gathered, AloneInv, NEW c \in Cmds, Key(c) PROVE AloneInv'
<1>1. PICK o \in Ops, i \in Items \cup {NoItem}, r \in Results : Launch(c, o, i, r)
  BY KeyLaunches
<1>2. r = "synced" => screen \in {"list", "files"} /\ screen' = screen
  BY <1>1 DEF Key, SubmitAuth, Refresh, FileCommand, SubmitEditor, ConfirmDelete, LogOut,
     Launch, TypeOK
<1>3. SUFFICES ASSUME alone' PROVE (Single /\ UpToDate /\ LoggedIn /\ Visible)'
  BY DEF AloneInv
<1>4. \A d \in Cmds : step[d] = "idle" /\ read[d] = 0 /\ loaded[d] = <<>>
  BY <1>1, <1>3 DEF Launch, Idle, Gathered
<1>5. \A d \in Cmds : d # c => step'[d] = "idle"
  BY <1>1, <1>4 DEF Launch, TypeOK
<1>6. step'[c] \in {"op", "load", "token"} /\ result'[c] = r
  BY <1>1 DEF Launch, TypeOK
<1>7. Single'
  BY <1>5 DEF Single
<1>8. UpToDate'
  <2>1. \A d \in Cmds : read'[d] = 0 /\ loaded'[d] = <<>>
    BY <1>1, <1>4 DEF Launch
  <2>2. Listed(0)' = {}
    BY DEF Listed
  <2>3. QED
    BY <2>1, <2>2, EmptyRange DEF UpToDate, Listed
<1>9. LoggedIn'
  BY <1>1, <1>4, <1>5, <1>6 DEF LoggedIn, Admitted, Launch
<1>10. Visible'
  BY <1>2, <1>5, <1>6 DEF Visible
<1>11. QED
  BY <1>7, <1>8, <1>9, <1>10

(* A command that is answered changes nothing but itself and the screen. *)
LEMMA RunAlone == ASSUME TypeOK, Gathered, AloneInv, NEW c \in Cmds, Run(c) PROVE AloneInv'
<1>1. step[c] # "idle" /\ alone' = alone /\ screen' = screen
  BY DEF Run, Authenticate, WriteToken, WritePassword, Change, Load, Fails, GoesOn
<1>2. \A d \in Cmds : d # c => /\ step'[d] = step[d] /\ read'[d] = read[d]
                             /\ loaded'[d] = loaded[d] /\ result'[d] = result[d]
  BY DEF Run, Authenticate, WriteToken, WritePassword, Change, Load, Fails, GoesOn, TypeOK
<1>3. SUFFICES ASSUME alone PROVE (Single /\ UpToDate /\ LoggedIn /\ Visible)'
  BY <1>1 DEF AloneInv
<1>4. Single /\ UpToDate /\ LoggedIn /\ Visible
  BY <1>3 DEF AloneInv
<1>5. \A d \in Cmds : d # c => step[d] = "idle" /\ read[d] = 0 /\ loaded[d] = <<>>
  BY <1>1, <1>4 DEF Single, Gathered
<1>6. Single'
  BY <1>2, <1>5 DEF Single
<1>7. UpToDate'
  <2>1. Listed(0)' = {}
    BY DEF Listed
  <2>2. \A d \in Cmds : d # c => (Range(loaded[d]) = Listed(read[d]))'
    BY <1>2, <1>5, <2>1, EmptyRange DEF Listed
  <2>3. (Range(loaded[c]) = Listed(read[c]))'
    <3>1. CASE Authenticate(c) \/ WriteToken(c) \/ WritePassword(c)
      <4>1. server' = server /\ read' = read /\ loaded' = loaded
        BY <3>1 DEF Authenticate, WriteToken, WritePassword, GoesOn
      <4>2. QED
        BY <4>1, <1>4 DEF UpToDate, Listed
    <3>2. CASE Change(c)
      BY <3>2, <2>1, EmptyRange DEF Change, GoesOn, Gathered, Listed
    <3>3. CASE Load(c)
      <4>1. server' = server
        BY <3>3 DEF Load
      <4>2. QED
        BY <3>3, <4>1, <1>4, LoadRange DEF UpToDate, Listed
    <3>4. CASE Fails(c)
      <4>1. read'[c] = 0 /\ loaded'[c] = <<>>
        BY <3>4 DEF Fails, TypeOK
      <4>2. QED
        BY <4>1, <2>1, EmptyRange DEF Listed
    <3>5. QED
      BY <3>1, <3>2, <3>3, <3>4 DEF Run
  <2>4. QED
    BY <2>2, <2>3, <1>2 DEF UpToDate, Listed
<1>8. LoggedIn'
  <2>1. \A d \in Cmds : d # c => ~Admitted(d)'
    BY <1>2, <1>5 DEF Admitted
  <2>2. Admitted(c)' => Authorised'
    <3>1. CASE Authenticate(c) \/ WriteToken(c) \/ WritePassword(c)
      BY <3>1 DEF Authenticate, WriteToken, WritePassword, GoesOn, TypeOK, Gathered, Admitted
    <3>2. CASE Change(c) \/ Fails(c)
      BY <3>2 DEF Change, Fails, GoesOn, TypeOK, Gathered, Admitted
    <3>3. CASE Load(c)
      <4>1. Authorised
        BY <3>3, <1>4 DEF Load, LoggedIn, Admitted, TypeOK, SessionAssumption
      <4>2. Authorised' <=> Authorised
        BY <3>3 DEF Load, Authorised
      <4>3. QED
        BY <4>1, <4>2
    <3>4. QED
      BY <3>1, <3>2, <3>3 DEF Run
  <2>3. QED
    BY <2>1, <2>2 DEF LoggedIn
<1>9. Visible'
  BY <1>1, <1>2, <1>4, <1>5 DEF Visible, Run, Authenticate, WriteToken, WritePassword,
     Change, Load, Fails, GoesOn, TypeOK
<1>10. QED
  BY <1>6, <1>7, <1>8, <1>9

LEMMA DeliverAlone == ASSUME TypeOK, Gathered, AloneInv, NEW c \in Cmds, Deliver(c)
                      PROVE  AloneInv'
<1>1. step[c] # "idle" /\ alone' = alone /\ server' = server
  BY DEF Deliver
<1>2. \A d \in Cmds : d # c => step'[d] = step[d] /\ read'[d] = read[d] /\ loaded'[d] = loaded[d]
  BY DEF Deliver, TypeOK
<1>3. step'[c] = "idle" /\ read'[c] = 0 /\ loaded'[c] = <<>>
  BY DEF Deliver, TypeOK
<1>4. SUFFICES ASSUME alone PROVE (Single /\ UpToDate /\ LoggedIn /\ Visible)'
  BY <1>1 DEF AloneInv
<1>5. \A d \in Cmds : d # c => step[d] = "idle" /\ read[d] = 0 /\ loaded[d] = <<>>
  BY <1>1, <1>4 DEF AloneInv, Single, Gathered
<1>6. \A d \in Cmds : step'[d] = "idle" /\ read'[d] = 0 /\ loaded'[d] = <<>>
  BY <1>2, <1>3, <1>5
<1>7. Listed(0)' = {}
  BY DEF Listed
<1>8. UpToDate'
  BY <1>6, <1>7, EmptyRange DEF UpToDate, Listed
<1>9. QED
  BY <1>6, <1>8 DEF Single, LoggedIn, Admitted, Visible

LEMMA QuitAlone == ASSUME Quit PROVE AloneInv'
<1>1. \A d \in Cmds : step'[d] = "idle" /\ read'[d] = 0 /\ loaded'[d] = <<>>
  BY DEF Quit
<1>2. Listed(0)' = {}
  BY DEF Listed
<1>3. UpToDate'
  BY <1>1, <1>2, EmptyRange DEF UpToDate, Listed
<1>4. QED
  BY <1>1, <1>3 DEF AloneInv, Single, LoggedIn, Admitted, Visible

LEMMA NavigateAlone == ASSUME AloneInv, Navigate \/ UNCHANGED vars PROVE AloneInv'
<1>1. UNCHANGED <<command, credentials, server, alone>>
  BY DEF Navigate, OpenDetails, OpenCreateEditor, OpenEditEditor, OpenConfirm,
     NothingToDelete, Back, OpenFiles, OpenUpload, CloseUpload, Goes, Move, vars
<1>2. screen \notin {"auth", "quit"} => screen' \notin {"auth", "quit"}
  BY DEF Navigate, OpenDetails, OpenCreateEditor, OpenEditEditor, OpenConfirm,
     NothingToDelete, Back, OpenFiles, OpenUpload, CloseUpload, Goes, Move, vars
<1>3. QED
  BY <1>1, <1>2
     DEF AloneInv, Single, UpToDate, Listed, LoggedIn, Admitted, Authorised, Visible

LEMMA NextAlone == ASSUME TypeOK, Gathered, AloneInv, [Next]_vars PROVE AloneInv'
<1>1. CASE Elsewhere
  BY <1>1 DEF Elsewhere, AloneInv
<1>2. QED
  BY <1>1, KeyAlone, RunAlone, DeliverAlone, QuitAlone, NavigateAlone DEF Next

(* Nothing is under way when the screen is fresh. *)
FreshInv == fresh => Idle

LEMMA NextShown ==
    ASSUME TypeOK, Gathered, AloneInv, FreshInv, ShownIsServers, [Next]_vars
    PROVE  FreshInv' /\ ShownIsServers'
<1>1. ASSUME NEW c \in Cmds, Key(c) PROVE ~fresh'
  BY <1>1 DEF Key, SubmitAuth, Refresh, FileCommand, SubmitEditor, ConfirmDelete, LogOut,
     Launch
<1>2. ASSUME NEW c \in Cmds, Run(c) PROVE ~fresh'
  BY <1>2 DEF Run, Authenticate, WriteToken, WritePassword, Change, Load, Fails, GoesOn,
     FreshInv, Idle
<1>3. ASSUME NEW c \in Cmds, Deliver(c), fresh' PROVE FreshInv' /\ ShownIsServers'
  <2>1. alone /\ step[c] = "msg" /\ result[c] # "err" /\ result[c] # "none"
    BY <1>3 DEF Deliver, Gathered
  <2>2. Single /\ UpToDate /\ LoggedIn /\ Visible
    BY <2>1 DEF AloneInv
  <2>3. Idle'
    BY <1>3, <2>1, <2>2 DEF Deliver, Single, Idle, TypeOK
  <2>4. Range(items') = server'
    <3>1. Range(loaded[c]) = server
      BY <2>1, <2>2, ListedAll DEF Gathered, UpToDate
    <3>2. items' = loaded[c] /\ server' = server
      BY <1>3, <2>1 DEF Deliver
    <3>3. QED
      BY <3>1, <3>2
  <2>5. Authorised'
    BY <1>3, <2>1, <2>2 DEF Deliver, LoggedIn, Admitted, Authorised
  <2>6. screen' \notin {"auth", "quit"}
    BY <1>3, <2>1, <2>2 DEF Deliver, ScreenAfter, Visible, TypeOK, Results
  <2>7. QED
    BY <2>3, <2>4, <2>5, <2>6 DEF FreshInv, ShownIsServers
<1>4. CASE Quit \/ Elsewhere
  BY <1>4 DEF Quit, Elsewhere, FreshInv, ShownIsServers
<1>5. CASE Navigate \/ UNCHANGED vars
  <2>1. UNCHANGED <<items, command, credentials, server, fresh>>
    BY <1>5 DEF Navigate, OpenDetails, OpenCreateEditor, OpenEditEditor, OpenConfirm,
       NothingToDelete, Back, OpenFiles, OpenUpload, CloseUpload, Goes, Move, vars
  <2>2. screen \notin {"auth", "quit"} => screen' \notin {"auth", "quit"}
    BY <1>5 DEF Navigate, OpenDetails, OpenCreateEditor, OpenEditEditor, OpenConfirm,
       NothingToDelete, Back, OpenFiles, OpenUpload, CloseUpload, Goes, Move, vars
  <2>3. QED
    BY <2>1, <2>2 DEF FreshInv, Idle, ShownIsServers, Authorised
<1>6. QED
  BY <1>1, <1>2, <1>3, <1>4, <1>5 DEF Next, FreshInv, ShownIsServers

(* The answer to a command that ran alone puts on the screen what the server
   holds, and the client is logged in, whatever went wrong before. *)
THEOREM RefreshIsTrue == Spec => []ShownIsServers
<1>1. Init => AloneInv /\ FreshInv /\ ShownIsServers
  <2> SUFFICES ASSUME Init PROVE AloneInv /\ FreshInv /\ ShownIsServers
    OBVIOUS
  <2>1. \A d \in Cmds : step[d] = "idle" /\ read[d] = 0 /\ loaded[d] = <<>>
    BY DEF Init
  <2>2. UpToDate
    BY <2>1, ListedNothing, EmptyRange DEF UpToDate
  <2>3. ~fresh
    BY DEF Init
  <2>4. QED
    BY <2>1, <2>2, <2>3
       DEF AloneInv, Single, LoggedIn, Admitted, Visible, FreshInv, ShownIsServers
<1>2. /\ TypeOK /\ Gathered /\ AloneInv /\ FreshInv /\ ShownIsServers /\ [Next]_vars
      => (AloneInv /\ FreshInv /\ ShownIsServers)'
  BY NextAlone, NextShown
<1>3. QED
  BY <1>1, <1>2, Reached, PTL DEF Spec

(***************************************************************************)
(* What makes LogoutHolds fail.  Its run finds a command that was under way *)
(* when the user logged out.  Where a command must have ended before the   *)
(* next key starts one, all that is ever under way on the login screen is  *)
(* the logout, which has no message, and a login or its error.             *)
(***************************************************************************)
OnlyLogins ==
    \A c \in Cmds : screen = "auth" /\ step[c] # "idle"
        => result[c] \in {"authOK", "err", "none"}

LEMMA OnlyLoginsStep ==
    ASSUME \A c, d \in Cmds : c = d,
           TypeOK, Gathered, OnlyLogins, [Next]_vars
    PROVE  OnlyLogins'
<1> USE DEF OnlyLogins
<1>1. ASSUME NEW c \in Cmds, Key(c) PROVE OnlyLogins'
  <2>1. screen' = "auth" => result'[c] \in {"authOK", "none"}
    BY <1>1 DEF Key, SubmitAuth, Refresh, FileCommand, SubmitEditor, ConfirmDelete, LogOut,
       Launch, TypeOK
  <2>2. QED
    BY <2>1
<1>2. ASSUME NEW c \in Cmds, Run(c) PROVE OnlyLogins'
  <2>1. screen' = screen /\ step[c] # "idle" /\ result'[c] \in {result[c], "err"}
    BY <1>2 DEF Run, Authenticate, WriteToken, WritePassword, Change, Load, Fails, GoesOn,
       TypeOK
  <2>2. QED
    BY <2>1
<1>3. ASSUME NEW c \in Cmds, Deliver(c) PROVE OnlyLogins'
  BY <1>3 DEF Deliver, TypeOK
<1>4. CASE Quit
  BY <1>4 DEF Quit
<1>5. CASE Navigate \/ Elsewhere \/ UNCHANGED vars
  BY <1>5 DEF Navigate, Elsewhere, OpenDetails, OpenCreateEditor, OpenEditEditor,
     OpenConfirm, NothingToDelete, Back, OpenFiles, OpenUpload, CloseUpload, Goes, Move, vars
<1>6. QED
  BY <1>1, <1>2, <1>3, <1>4, <1>5 DEF Next

(* Were the keys blocked while a command runs, the only way back in from the
   login screen would be a login: overlapping commands are the whole cause. *)
THEOREM OnlyOverlapsUndoLogout ==
    ASSUME \A c, d \in Cmds : c = d
    PROVE  Spec => LogoutHolds
<1>1. Init => OnlyLogins
  BY DEF Init, OnlyLogins
<1>2. TypeOK /\ Gathered /\ OnlyLogins /\ [Next]_vars => OnlyLogins'
  BY OnlyLoginsStep
<1>3. ASSUME TypeOK, Gathered, OnlyLogins, [Next]_vars,
             screen = "auth", screen' \notin {"auth", "quit"}
      PROVE  \E c \in Cmds : result[c] = "authOK" /\ result'[c] = "none"
  <2>1. ASSUME NEW c \in Cmds, Deliver(c)
        PROVE  result[c] = "authOK" /\ result'[c] = "none"
    <3>1. result[c] \in {"authOK", "err"} /\ result'[c] = "none"
      BY <1>3, <2>1 DEF Deliver, OnlyLogins, Gathered, TypeOK
    <3>2. result[c] # "err"
      BY <1>3, <2>1 DEF Deliver
    <3>3. QED
      BY <3>1, <3>2
  <2>2. ASSUME NEW c \in Cmds, Key(c) \/ Run(c) PROVE FALSE
    BY <1>3, <2>2 DEF Key, SubmitAuth, Refresh, FileCommand, SubmitEditor, ConfirmDelete,
       LogOut, Run, Authenticate, WriteToken, WritePassword, Change, Load, Fails, GoesOn
  <2>3. ~(Navigate \/ Quit \/ Elsewhere \/ UNCHANGED vars)
    BY <1>3 DEF Navigate, Quit, Elsewhere, OpenDetails, OpenCreateEditor, OpenEditEditor,
       OpenConfirm, NothingToDelete, Back, OpenFiles, OpenUpload, CloseUpload, Goes, Move, vars
  <2>4. QED
    BY <1>3, <2>1, <2>2, <2>3 DEF Next
<1>4. TypeOK /\ Gathered /\ OnlyLogins /\ [Next]_vars
        => [screen = "auth" /\ screen' \notin {"auth", "quit"} =>
              \E c \in Cmds : result[c] = "authOK" /\ result'[c] = "none"]_vars
  BY <1>3
<1>5. QED
  BY <1>1, <1>2, <1>4, Reached, PTL DEF Spec, LogoutHolds
=============================================================================
