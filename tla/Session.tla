------------------------------- MODULE Session -------------------------------
(***************************************************************************)
(* The terminal client (internal/tui): Update handles one key or one       *)
(* message at a time, while the commands it has returned run in goroutines *)
(* of their own and share the credentials of one GRPCAdapter.  No key is   *)
(* blocked while a command runs, so several can be under way.              *)
(*                                                                         *)
(* One account.  Another client of the same account may change the server. *)
(* The list of files is not part of this module: a command on files is one *)
(* that leaves the items alone.  editorID counts only while the editor is   *)
(* open, for both ways into it set it: elsewhere it is NoItem.             *)
(***************************************************************************)
EXTENDS Naturals, Sequences, FiniteSets, Functions

CONSTANTS
    Cmds,       \* bounds the commands under way
    Kinds,      \* the kinds of entities, in the order Synchronize lists them
    Names,
    NoItem

Items == [kind : Range(Kinds), name : Names]

ASSUME SessionAssumption ==
    /\ Kinds \in Seq(Range(Kinds)) /\ Kinds # <<>>
    /\ IsFiniteSet(Items) /\ NoItem \notin Items

VARIABLES
    screen, items, selected, editorID, loading,     \* tuiModel
    token, masterPassword,      \* GRPCAdapter: whether the field is set
    server,                     \* the entities of the account
    step,       \* where the goroutine of a command is
    op,         \* the call it has yet to make before Sync
    target,     \* the argument of that call
    read,       \* how many kinds its Sync has listed
    loaded,     \* what these lists held
    result,     \* the message it ends with
    alone,      \* history: nothing has run beside the latest command
    fresh       \* history: such a command has just been answered

model == <<screen, items, selected, editorID>>
command == <<step, op, target, read, loaded, result>>
credentials == <<token, masterPassword>>
vars == <<model, loading, credentials, server, command, alone, fresh>>

Screens == {"auth", "list", "details", "editor", "confirm", "files", "upload", "quit"}
Changes == {"create", "update", "delete", "file"}
Ops == Changes \cup {"login", "logout", "none"}
Results == {"authOK", "synced", "saved", "files", "err", "none"}

(* The sequences that hold every element of S once. *)
Orderings(S) == {s \in [1..Cardinality(S) -> S] : S \subseteq Range(s)}

(* helpers.go: clampIndex, and minIndex, which is the same function. *)
Unclamped(i, n) == i                                                \* mutant
Clamp(i, n) == IF n = 0 THEN 0 ELSE IF i < n THEN i ELSE n - 1

HasCurrent == selected < Len(items)
Current == items[selected + 1]

Idle == \A c \in Cmds : step[c] = "idle"

(* setLoading goes with every command that will be answered by a message. *)
LogoutLoads(o) == TRUE                                              \* mutant
SetsLoading(o) == o # "logout"

Init ==
    /\ screen = "auth" /\ items = <<>> /\ selected = 0
    /\ editorID = NoItem /\ loading = FALSE
    /\ token = FALSE /\ masterPassword = FALSE
    /\ server \in SUBSET Items
    /\ step = [c \in Cmds |-> "idle"]
    /\ op = [c \in Cmds |-> "none"]
    /\ target = [c \in Cmds |-> NoItem]
    /\ read = [c \in Cmds |-> 0]
    /\ loaded = [c \in Cmds |-> <<>>]
    /\ result = [c \in Cmds |-> "none"]
    /\ alone = TRUE /\ fresh = FALSE

(***************************************************************************)
(* Keys.                                                                   *)
(***************************************************************************)

(* Update returns command c: it makes call o on i, lists the account and ends
   with message r. *)
Launch(c, o, i, r) ==
    /\ step[c] = "idle"
    /\ step' = [step EXCEPT ![c] =
         CASE o = "none" -> "load" [] o = "logout" -> "token" [] OTHER -> "op"]
    /\ op' = [op EXCEPT ![c] = o]
    /\ target' = [target EXCEPT ![c] = i]
    /\ result' = [result EXCEPT ![c] = r]
    /\ loading' = (loading \/ SetsLoading(o))
    /\ alone' = Idle
    /\ fresh' = FALSE
    /\ UNCHANGED <<read, loaded, credentials, server>>

(* enter on the form; registering is one more call before the same three. *)
SubmitAuth(c) ==
    /\ screen = "auth"
    /\ Launch(c, "login", NoItem, "authOK")
    /\ UNCHANGED model

Refresh(c) ==
    /\ screen \in {"list", "files"}
    /\ Launch(c, "none", NoItem, "synced")
    /\ UNCHANGED model

(* Synchronise, upload, download, remove, delete the local copy. *)
FileCommand(c) ==
    /\ screen \in {"files", "upload"}
    /\ Launch(c, "file", NoItem, "files")
    /\ UNCHANGED model

(* ctrl+s: an empty id means Create, of any kind or of a file, and any other
   is updated, whatever ctrl+t has made of the draft's kind. *)
SubmitEditor(c) ==
    /\ screen = "editor"
    /\ \/ editorID = NoItem /\ \E i \in Items : Launch(c, "create", i, "saved")
       \/ editorID = NoItem /\ Launch(c, "file", NoItem, "saved")
       \/ editorID # NoItem /\ Launch(c, "update", editorID, "saved")
    /\ UNCHANGED model

(* y: the item is the one selected now. *)
ConfirmDelete(c) ==
    /\ screen = "confirm"
    /\ HasCurrent
    /\ Launch(c, "delete", Current, "saved")
    /\ UNCHANGED model

LogOut(c) ==
    /\ screen = "list"
    /\ screen' = "auth" /\ items' = <<>> /\ selected' = 0
    /\ Launch(c, "logout", NoItem, "none")
    /\ UNCHANGED editorID

(* The keys that move between the screens. *)
Goes(from, to) ==
    /\ screen \in from
    /\ screen' = to
    /\ UNCHANGED <<items, selected, loading, credentials, server, command, alone, fresh>>

OpenDetails == items # <<>> /\ Goes({"list"}, "details") /\ UNCHANGED editorID
OpenCreateEditor == Goes({"list"}, "editor") /\ editorID' = NoItem
OpenEditEditor == HasCurrent /\ Goes({"list", "details"}, "editor") /\ editorID' = Current
OpenConfirm ==
    /\ screen = "list" => items # <<>>
    /\ Goes({"list", "details"}, "confirm")
    /\ UNCHANGED editorID
NothingToDelete == ~HasCurrent /\ Goes({"confirm"}, "list") /\ UNCHANGED editorID
Back == Goes({"details", "editor", "confirm", "files"}, "list") /\ editorID' = NoItem
OpenFiles == Goes({"list"}, "files") /\ UNCHANGED editorID
OpenUpload == Goes({"files"}, "upload") /\ UNCHANGED editorID
CloseUpload == Goes({"upload"}, "files") /\ UNCHANGED editorID

Move ==
    /\ screen = "list"
    /\ \/ selected' = Clamp(selected + 1, Len(items))
       \/ selected' = IF selected = 0 THEN 0 ELSE selected - 1
    /\ UNCHANGED <<screen, items, editorID, loading, credentials, server, command,
                   alone, fresh>>

(* ctrl+c anywhere, q and esc on some screens: the process ends.  So it does
   when a goroutine reads credentials that another one is writing, torn. *)
Quit ==
    /\ screen # "quit"
    /\ screen' = "quit" /\ editorID' = NoItem
    /\ loading' = FALSE /\ fresh' = FALSE
    /\ step' = [c \in Cmds |-> "idle"]
    /\ op' = [c \in Cmds |-> "none"]
    /\ target' = [c \in Cmds |-> NoItem]
    /\ read' = [c \in Cmds |-> 0]
    /\ loaded' = [c \in Cmds |-> <<>>]
    /\ result' = [c \in Cmds |-> "none"]
    /\ UNCHANGED <<items, selected, credentials, server, alone>>

(***************************************************************************)
(* The goroutine of a command.                                             *)
(***************************************************************************)

(* adapter.checkAuth. *)
Authorised == token /\ masterPassword

(* What the handlers of the server make of a call on an entity. *)
Accepted(o, i) ==
    CASE o = "create" -> i \notin server
      [] o \in {"update", "delete"} -> i \in server
      [] o = "file" -> TRUE

ServerAfter(o, i) ==
    CASE o = "create" -> server \cup {i}
      [] o = "delete" -> server \ {i}
      [] OTHER -> server

(* The call before Sync has succeeded. *)
GoesOn(c, s) ==
    /\ step' = [step EXCEPT ![c] = s]
    /\ UNCHANGED <<model, loading, read, loaded, result, alone, fresh>>

Authenticate(c) ==
    /\ step[c] = "op" /\ op[c] = "login"
    /\ GoesOn(c, "token")
    /\ UNCHANGED <<op, target, credentials, server>>

(* Login and Logout write the two fields one after the other, unguarded. *)
WriteToken(c) ==
    /\ step[c] = "token"
    /\ token' = (op[c] = "login")
    /\ GoesOn(c, "password")
    /\ UNCHANGED <<op, target, masterPassword, server>>

WritePassword(c) ==
    /\ step[c] = "password"
    /\ masterPassword' = (op[c] = "login")
    /\ op' = [op EXCEPT ![c] = "none"]
    /\ GoesOn(c, IF op[c] = "login" THEN "load" ELSE "idle")
    /\ UNCHANGED <<target, token, server>>

Change(c) ==
    /\ step[c] = "op" /\ op[c] \in Changes
    /\ Authorised /\ Accepted(op[c], target[c])
    /\ server' = ServerAfter(op[c], target[c])
    /\ op' = [op EXCEPT ![c] = "none"]
    /\ target' = [target EXCEPT ![c] = NoItem]
    /\ GoesOn(c, "load")
    /\ UNCHANGED credentials

(* The kind that the n-th list of Synchronize asks for. *)
AlwaysFirst(n) == Kinds[1]                                          \* mutant
KindOf(n) == Kinds[n]

(* Synchronize: one list per kind, then the files.  The credentials are looked
   at once, before the first. *)
Load(c) ==
    /\ step[c] = "load"
    /\ read[c] = 0 => Authorised
    /\ read' = [read EXCEPT ![c] = @ + 1]
    /\ \E s \in Orderings({i \in server : i.kind = KindOf(read[c] + 1)}) :
          loaded' = [loaded EXCEPT ![c] = @ \o s]
    /\ step' = [step EXCEPT ![c] = IF read'[c] = Len(Kinds) THEN "msg" ELSE "load"]
    /\ UNCHANGED <<model, loading, op, target, result, credentials, server, alone, fresh>>

(* Any call can fail: it is refused, the command's time is up, the file system
   or the decryption fails.  When the answer is lost the server has done it; and
   when the time is up it may still do it later (Elsewhere). *)
Fails(c) ==
    /\ step[c] \in {"op", "load"}
    /\ \/ UNCHANGED server
       \/ /\ step[c] = "op" /\ op[c] \in Changes
          /\ Authorised /\ Accepted(op[c], target[c])
          /\ server' = ServerAfter(op[c], target[c])
    /\ step' = [step EXCEPT ![c] = "msg"]
    /\ op' = [op EXCEPT ![c] = "none"]
    /\ target' = [target EXCEPT ![c] = NoItem]
    /\ read' = [read EXCEPT ![c] = 0]
    /\ loaded' = [loaded EXCEPT ![c] = <<>>]
    /\ result' = [result EXCEPT ![c] = "err"]
    /\ UNCHANGED <<model, loading, credentials, alone, fresh>>

(***************************************************************************)
(* Messages: updateResultMsg, on whatever screen.                          *)
(***************************************************************************)

ScreenAfter(r) ==
    CASE r \in {"authOK", "saved"} -> "list"
      [] r = "files" -> "files"
      [] OTHER -> screen

KeepsLoading(r) == r = "err" /\ loading                             \* mutant
LoadingAfter(r) == FALSE

Deliver(c) ==
    /\ step[c] = "msg"
    /\ loading' = LoadingAfter(result[c])
    /\ fresh' = (alone /\ result[c] # "err")
    /\ IF result[c] = "err"
         THEN UNCHANGED model
         ELSE /\ items' = loaded[c]
              /\ screen' = ScreenAfter(result[c])
              /\ selected' = IF result[c] = "authOK" THEN 0
                             ELSE Clamp(selected, Len(loaded[c]))
              /\ editorID' = IF screen' = "editor" THEN editorID ELSE NoItem
    /\ step' = [step EXCEPT ![c] = "idle"]
    /\ read' = [read EXCEPT ![c] = 0]
    /\ loaded' = [loaded EXCEPT ![c] = <<>>]
    /\ result' = [result EXCEPT ![c] = "none"]
    /\ UNCHANGED <<op, target, credentials, server, alone>>

(* An entity is added or removed by another client of the account, or by a call
   that a command of this one has given up on: the timeout ends the command, and the
   handler on the server goes on. *)
Elsewhere ==
    /\ \E i \in Items : server' \in {server \cup {i}, server \ {i}}
    /\ alone' = FALSE /\ fresh' = FALSE
    /\ UNCHANGED <<model, loading, credentials, command>>

Key(c) ==
    \/ SubmitAuth(c) \/ Refresh(c) \/ FileCommand(c) \/ SubmitEditor(c)
    \/ ConfirmDelete(c) \/ LogOut(c)

Navigate ==
    \/ OpenDetails \/ OpenCreateEditor \/ OpenEditEditor \/ OpenConfirm
    \/ NothingToDelete \/ Back \/ OpenFiles \/ OpenUpload \/ CloseUpload \/ Move

Run(c) ==
    \/ Authenticate(c) \/ WriteToken(c) \/ WritePassword(c)
    \/ Change(c) \/ Load(c) \/ Fails(c)

Next ==
    \/ \E c \in Cmds : Key(c) \/ Run(c) \/ Deliver(c)
    \/ Navigate \/ Quit \/ Elsewhere

Spec == Init /\ [][Next]_vars

(* Every command runs under a timeout and the program reads its messages. *)
Fairness == \A c \in Cmds : WF_vars(Run(c)) /\ WF_vars(Deliver(c))

FairSpec == Spec /\ Fairness

(***************************************************************************)
(* Properties.                                                             *)
(***************************************************************************)

(* The type of every variable; the selection is always a line of the list, and
   a call that changes an entity names one. *)
TypeOK ==
    /\ screen \in Screens
    /\ items \in Seq(Items)
    /\ selected \in Nat /\ (selected = 0 \/ selected < Len(items))
    /\ editorID \in Items \cup {NoItem}
    /\ loading \in BOOLEAN /\ alone \in BOOLEAN /\ fresh \in BOOLEAN
    /\ token \in BOOLEAN /\ masterPassword \in BOOLEAN
    /\ server \subseteq Items
    /\ step \in [Cmds -> {"idle", "op", "token", "password", "load", "msg"}]
    /\ op \in [Cmds -> Ops]
    /\ target \in [Cmds -> Items \cup {NoItem}]
    /\ \A c \in Cmds : op[c] \in {"create", "update", "delete"} => target[c] \in Items
    /\ read \in [Cmds -> 0..Len(Kinds)]
    /\ loaded \in [Cmds -> Seq(Items)]
    /\ result \in [Cmds -> Results]

(* The screen says it is waiting only while a command is under way that will
   be answered: a logout is not. *)
LoadingBacked == loading => \E c \in Cmds : step[c] # "idle" /\ op[c] # "logout"

(* After a command that nothing ran beside, no other client and no call that was
   given up on earlier, the screen shows what the server holds and the client can go
   on working, whatever happened before. *)
ShownIsServers ==
    fresh => /\ Range(items) = server
             /\ Authorised
             /\ screen \notin {"auth", "quit"}

(* The screen never waits for ever. *)
LoadingEnds == loading ~> ~loading

(* logout reports "Вы вышли из клиента": the only way back in is a login. *)
LogoutHolds ==
    [][screen = "auth" /\ screen' \notin {"auth", "quit"} =>
          \E c \in Cmds : result[c] = "authOK" /\ result'[c] = "none"]_vars
=============================================================================
