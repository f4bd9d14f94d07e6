------------------------------- MODULE FileSync -------------------------------
(***************************************************************************)
(* The files of one client: its directory of local copies and the files    *)
(* the server keeps for the account (internal/tui/adapter.go, commands.go, *)
(* files.go).  SyncFiles lists the server, then reads the directory, and    *)
(* carries every file that only one side has to the other, one call or     *)
(* write after the other; the commands of the files screen do so for one    *)
(* file.  Every command ends with a listing of its own.  No key is blocked  *)
(* meanwhile: commands overlap, and the user and other clients of the      *)
(* account change both sides at any time.                                  *)
(*                                                                         *)
(* The server is the map of BlobStore.  Names are those safeFileName leaves *)
(* as they are.                                                            *)
(***************************************************************************)
EXTENDS Naturals, FiniteSets

CONSTANTS
    Cmds,           \* bounds the commands under way
    Names,          \* file names
    Versions,       \* contents
    None,           \* no file of that name
    Torn,           \* a part of a content, or nothing of it; a file like any other
    Damaged,        \* listed by the server, which fails to return it
    Disturbed,      \* history: somebody else has changed the file
    Faults,         \* which of "fail" and "crash" may happen
    Others          \* which of "client" and "user" interfere

Contents == Versions \cup {Torn}
LocalStates == Contents \cup {None}
RemoteStates == Contents \cup {None, Damaged}
Pairs == [local : LocalStates, remote : RemoteStates]

ASSUME FileSyncAssumption ==
    /\ IsFiniteSet(Names)
    /\ Faults \subseteq {"fail", "crash"}
    /\ Others \subseteq {"client", "user"}
    /\ None \notin Contents /\ Damaged \notin Contents /\ None # Damaged
    /\ None \notin Names
    /\ Disturbed \notin Pairs

VARIABLES
    local,      \* the directory
    remote,     \* the files on the server
    cmd,        \* the goroutine of every command
    linked,     \* commands writing to a local file that still has its name
    was         \* history: both sides of every file when a command began

vars == <<local, remote, cmd, linked, was>>

Statuses == {"absent", "synced", "local_only", "remote_only"}

(* The path of a file to upload: the file of the directory, as the program spells
   it; the same file by another spelling; a file elsewhere. *)
Paths == {"same", "other", "outside"}

Command ==
    [step : {"idle", "list", "scan", "files", "send", "open", "fill", "remove",
             "delete", "msg"},
     op : {"refresh", "sync", "upload", "download", "remove", "delete"},
     final : BOOLEAN,           \* is the next listing the last
     seen : SUBSET Names,       \* what the server has listed
     ups : SUBSET Names,        \* the files it has yet to upload
     downs : SUBSET Names,      \* and to download
     path : Paths,              \* how the path of an upload leads to the file
    cur : Names \cup {None},   \* the file in hand
     data : LocalStates,        \* and its bytes
     files : [Names -> Statuses],       \* the list it ends with
     result : {"ok", "err", "none"}]    \* the message it ends with

Nothing == [n \in Names |-> "absent"]

Idle == [step |-> "idle", op |-> "refresh", final |-> FALSE, seen |-> {},
         ups |-> {}, downs |-> {}, path |-> "same", cur |-> None, data |-> None,
         files |-> Nothing, result |-> "none"]

Active(c) == cmd[c].step # "idle"
At(c, s) == cmd[c].step = s
SourceIsTarget(c) == cmd[c].path = "other"
Both(n) == [local |-> local[n], remote |-> remote[n]]
Untouched(c) == {n \in Names : was[c][n] # Disturbed}

Unknown == [n \in Names |-> Disturbed]

Init ==
    /\ local \in [Names -> LocalStates]
    /\ remote \in [Names -> RemoteStates]
    /\ cmd = [c \in Cmds |-> Idle]
    /\ linked = {}
    /\ was = [c \in Cmds |-> Unknown]

(* A step of command c: what becomes of it, as a function of what it is. *)
Becomes(c, r) == cmd' = [cmd EXCEPT ![c] = r]

(* File n is changed, and not by the commands outside D. *)
Disturb(n, D) ==
    was' = [d \in Cmds |->
              IF d \in D THEN [was[d] EXCEPT ![n] = Disturbed] ELSE was[d]]

(***************************************************************************)
(* Keys of the files screen.  Sync alone also follows every login and every *)
(* change of an entity.                                                     *)
(***************************************************************************)
Launch(c, r) ==
    /\ ~Active(c)
    /\ Becomes(c, r)
    /\ was' = [was EXCEPT ![c] = [n \in Names |-> Both(n)]]
    /\ UNCHANGED <<local, remote, linked>>

Refresh(c) == Launch(c, [Idle EXCEPT !.step = "list", !.final = TRUE])
SyncFiles(c) == Launch(c, [Idle EXCEPT !.step = "list", !.op = "sync"])

OneFile(o) == [Idle EXCEPT !.step = "files", !.op = o, !.final = TRUE]

(* u: the path leads to a file in the directory, or to one elsewhere whose bytes
   are read at once. *)
Upload(c, n) ==
    \/ \E p \in {"same", "other"} :
         Launch(c, [OneFile("upload") EXCEPT !.ups = {n}, !.path = p])
    \/ \E v \in Versions :
         Launch(c, [OneFile("upload") EXCEPT !.step = "send", !.cur = n, !.data = v,
                                             !.path = "outside"])

(* enter, x and d act on a file of the list on the screen.  The list is as old as
   its last refresh, so that any name can be on it with any status, and that d
   refuses the status "remote_only" excludes no name. *)
Download(c, n) == Launch(c, [OneFile("download") EXCEPT !.downs = {n}])
Remove(c, n) == Launch(c, [OneFile("remove") EXCEPT !.step = "remove", !.cur = n])
Delete(c, n) == Launch(c, [OneFile("delete") EXCEPT !.step = "delete", !.cur = n])

(***************************************************************************)
(* The goroutine of a command.                                             *)
(***************************************************************************)
Ended(r, res) == [r EXCEPT !.step = "msg", !.result = res]
Fail(c) == Becomes(c, Ended(cmd[c], "err"))

(* The loop of SyncFiles over the files that are left, and then the listing
   every command ends with. *)
WithLeft(r, up, down) ==
    [r EXCEPT !.ups = up, !.downs = down,
              !.step = IF up \cup down = {} THEN "list" ELSE "files"]

KeepsAll(S, n) == S                                                 \* mutant
Rest(S, n) == S \ {n}

AfterFile(r) == WithLeft(r, Rest(r.ups, r.cur), Rest(r.downs, r.cur))

(* Synchronize, its call FileGetList in particular. *)
List(c) ==
    /\ At(c, "list")
    /\ Becomes(c, [cmd[c] EXCEPT !.step = "scan",
                                 !.seen = {n \in Names : remote[n] # None}])
    /\ UNCHANGED <<local, remote, linked, was>>

(* fileStatuses: what the server has listed against what scanLocalFiles finds in
   the directory a moment later. *)
Scanned == {n \in Names : local[n] # None}

ForgetsRemote(n, listed) ==                                         \* mutant
    IF n \in Scanned THEN "local_only"
    ELSE IF n \in listed THEN "remote_only" ELSE "absent"
StatusOf(n, listed) ==
    IF n \in Scanned /\ n \in listed THEN "synced"
    ELSE IF n \in Scanned THEN "local_only"
    ELSE IF n \in listed THEN "remote_only"
    ELSE "absent"

OverwritesLocal(listed) == listed                                   \* mutant
RemoteOnly(listed) == listed \ Scanned
LocalOnly(listed) == Scanned \ listed

Scan(c) ==
    LET listed == cmd[c].seen
        r == [cmd[c] EXCEPT !.seen = {}, !.final = TRUE] IN
    /\ At(c, "scan")
    /\ \/ /\ cmd[c].final
          /\ Becomes(c, [Ended(r, "ok") EXCEPT
                            !.files = [n \in Names |-> StatusOf(n, listed)]])
       \/ /\ ~cmd[c].final
          /\ Becomes(c, WithLeft(r, LocalOnly(listed), RemoteOnly(listed)))
    /\ UNCHANGED <<local, remote, linked, was>>

(* UploadFile: os.ReadFile of the local path.  The list is sorted by status:
   "local_only" comes before "remote_only". *)
NeverMissing(n) == FALSE                                            \* mutant
Missing(n) == local[n] = None

ReadFile(c) ==
    /\ At(c, "files")
    /\ \E n \in cmd[c].ups :
        LET r == [cmd[c] EXCEPT !.cur = n, !.data = local[n]] IN
        Becomes(c, IF Missing(n) THEN Ended(r, "err") ELSE [r EXCEPT !.step = "send"])
    /\ UNCHANGED <<local, remote, linked, was>>

(* The call FileUpload, refused when the name is taken.  The file has yet to be
   copied into the directory unless it is there: saveLocalFileCopy compares the
   spellings of the paths. *)
NeverElsewhere(r) == TRUE                                           \* mutant
InDirectory(r) == r.path = "same"

Sent(r) == IF InDirectory(r)
             THEN AfterFile(r)
             ELSE [r EXCEPT !.step = "open", !.ups = Rest(@, r.cur)]

SendFile(c) ==
    LET r == cmd[c] IN
    /\ At(c, "send")
    /\ \/ /\ remote[r.cur] # None
          /\ Fail(c)
          /\ UNCHANGED <<remote, was>>
       \/ /\ remote[r.cur] = None
          /\ remote' = [remote EXCEPT ![r.cur] = r.data]
          /\ Becomes(c, Sent(r))
          /\ Disturb(r.cur, Cmds \ {c})
    /\ UNCHANGED <<local, linked>>

(* DownloadFile: the call FileDownload.  The first error ends SyncFiles. *)
SkipsFailure(r) == AfterFile(r)                                         \* mutant
FetchFailed(r) == Ended(r, "err")

Fetch(c) ==
    /\ At(c, "files") /\ cmd[c].ups = {}
    /\ \E n \in cmd[c].downs :
        LET r == [cmd[c] EXCEPT !.cur = n] IN
        Becomes(c, IF remote[n] \in Contents
                     THEN [r EXCEPT !.step = "open", !.data = remote[n]]
                     ELSE FetchFailed(r))
    /\ UNCHANGED <<local, remote, linked, was>>

(* os.WriteFile and copyFile alike: the local file is opened with O_CREATE and
   O_TRUNC, and then filled.  copyFile has opened its source just before, which
   fails when that is the file itself and the file is gone. *)
OpenLocal(c) ==
    LET n == cmd[c].cur IN
    /\ At(c, "open")
    /\ \/ /\ SourceIsTarget(c) /\ Missing(n)
          /\ Fail(c)
          /\ UNCHANGED <<local, linked, was>>
       \/ /\ SourceIsTarget(c) => ~Missing(n)
          /\ local' = [local EXCEPT ![n] = Torn]
          /\ linked' = linked \cup {c}
          /\ Becomes(c, [cmd[c] EXCEPT !.step = "fill"])
          /\ Disturb(n, Cmds \ {c})
    /\ UNCHANGED remote

(* Two writers of one file can mix; a file removed meanwhile has lost its name,
   and the bytes with it; one that is its own source has been truncated before it
   is read, and is left as it is. *)
FilledShort(c) == {cmd[c].data, Torn}                               \* mutant
Filled(c) ==
    LET now == local[cmd[c].cur] IN
    IF c \notin linked \/ SourceIsTarget(c) THEN {now}
    ELSE IF now \in {Torn, cmd[c].data} THEN {cmd[c].data}
    ELSE {cmd[c].data, Torn}

FillLocal(c) ==
    LET n == cmd[c].cur IN
    /\ At(c, "fill")
    /\ \E w \in Filled(c) : local' = [local EXCEPT ![n] = w]
    /\ linked' = linked \ {c}
    /\ Becomes(c, AfterFile(cmd[c]))
    /\ Disturb(n, IF c \in linked THEN Cmds \ {c} ELSE {})
    /\ UNCHANGED remote

(* RemoveFile: the server's file only. *)
RemoveRemote(c) ==
    LET n == cmd[c].cur IN
    /\ At(c, "remove")
    /\ \/ remote[n] = None /\ Fail(c) /\ UNCHANGED <<remote, was>>
       \/ /\ remote[n] # None
          /\ remote' = [remote EXCEPT ![n] = None]
          /\ Becomes(c, [cmd[c] EXCEPT !.step = "list"])
          /\ Disturb(n, Cmds \ {c})
    /\ UNCHANGED <<local, linked>>

Unlink(n) ==
    /\ local' = [local EXCEPT ![n] = None]
    /\ linked' = linked \ {c \in Cmds : cmd[c].cur = n}

(* DeleteLocalFile: the local one only. *)
DeleteLocal(c) ==
    LET n == cmd[c].cur IN
    /\ At(c, "delete")
    /\ \/ local[n] = None /\ Fail(c) /\ UNCHANGED <<local, linked, was>>
       \/ /\ local[n] # None
          /\ Unlink(n)
          /\ Becomes(c, [cmd[c] EXCEPT !.step = "list"])
          /\ Disturb(n, Cmds \ {c})
    /\ UNCHANGED remote

(* Any call, read or write can fail, or the time of the command is up.  A call
   that changes the server may have done so, in part when it is an upload; a
   local file that is being written stays as it is. *)
LeftRemote(r) ==
    IF r.step = "send" /\ remote[r.cur] = None THEN {Damaged, r.data}
    ELSE IF r.step = "remove" /\ remote[r.cur] # None THEN {None}
    ELSE {}

Fails(c) ==
    LET n == cmd[c].cur IN
    /\ "fail" \in Faults
    /\ cmd[c].step \notin {"idle", "msg"}
    /\ \/ UNCHANGED <<remote, was>>
       \/ /\ \E w \in LeftRemote(cmd[c]) : remote' = [remote EXCEPT ![n] = w]
          /\ Disturb(n, Cmds \ {c})
    /\ linked' = linked \ {c}
    /\ Fail(c)
    /\ UNCHANGED local

(* updateResultMsg: the list of files reaches the screen, or the error does. *)
Deliver(c) ==
    /\ At(c, "msg")
    /\ Becomes(c, Idle)
    /\ was' = [was EXCEPT ![c] = Unknown]
    /\ UNCHANGED <<local, remote, linked>>

(***************************************************************************)
(* Everybody else.                                                         *)
(***************************************************************************)

(* Another client of the account uploads a file, perhaps in part, or removes
   one. *)
OtherClient(n) ==
    /\ "client" \in Others
    /\ \E w \in IF remote[n] = None THEN Versions \cup {Damaged} ELSE {None} :
          remote' = [remote EXCEPT ![n] = w]
    /\ Disturb(n, Cmds)
    /\ UNCHANGED <<local, cmd, linked>>

(* The user saves a file of the directory or deletes it; a program that does so
   can be half way. *)
UserSaves(n) ==
    /\ "user" \in Others
    /\ \E v \in Contents : local' = [local EXCEPT ![n] = v]
    /\ Disturb(n, Cmds)
    /\ UNCHANGED <<remote, cmd, linked>>

UserDeletes(n) ==
    /\ "user" \in Others
    /\ local[n] # None
    /\ Unlink(n)
    /\ Disturb(n, Cmds)
    /\ UNCHANGED <<remote, cmd>>

(* The user saves the file that is being uploaded from elsewhere, after it has
   been sent and before it is copied. *)
UserSavesSource(c) ==
    /\ "user" \in Others
    /\ cmd[c].path = "outside" /\ At(c, "open")
    /\ \E v \in Versions : Becomes(c, [cmd[c] EXCEPT !.data = v])
    /\ Disturb(cmd[c].cur, Cmds)
    /\ UNCHANGED <<local, remote, linked>>

(* The client process dies and is started again: every command is lost, and a
   file that was being written stays torn. *)
Crash ==
    /\ "crash" \in Faults
    /\ cmd' = [c \in Cmds |-> Idle]
    /\ linked' = {}
    /\ was' = [c \in Cmds |-> Unknown]
    /\ UNCHANGED <<local, remote>>

Key(c) ==
    \/ Refresh(c) \/ SyncFiles(c)
    \/ \E n \in Names : Upload(c, n) \/ Download(c, n) \/ Remove(c, n) \/ Delete(c, n)

Run(c) ==
    \/ List(c) \/ Scan(c) \/ ReadFile(c) \/ SendFile(c) \/ Fetch(c)
    \/ OpenLocal(c) \/ FillLocal(c) \/ RemoveRemote(c) \/ DeleteLocal(c)
    \/ Fails(c)

Next ==
    \/ \E c \in Cmds : Key(c) \/ Run(c) \/ Deliver(c) \/ UserSavesSource(c)
    \/ \E n \in Names : OtherClient(n) \/ UserSaves(n) \/ UserDeletes(n)
    \/ Crash

Spec == Init /\ [][Next]_vars

(* Every command runs under a timeout and the program reads its messages. *)
Fairness == \A c \in Cmds : WF_vars(Run(c) \/ Deliver(c))

FairSpec == Spec /\ Fairness

(***************************************************************************)
(* Properties.                                                             *)
(***************************************************************************)

(* The type of every variable; a file is in hand, and its bytes have been read,
   whenever a step needs them. *)
TypeOK ==
    /\ local \in [Names -> LocalStates]
    /\ remote \in [Names -> RemoteStates]
    /\ cmd \in [Cmds -> Command]
    /\ linked \subseteq {c \in Cmds : At(c, "fill")}
    /\ was \in [Cmds -> [Names -> Pairs \cup {Disturbed}]]
    /\ \A c \in Cmds :
        /\ cmd[c].step \in {"send", "open", "fill", "remove", "delete"}
             => cmd[c].cur \in Names
        /\ cmd[c].step \in {"send", "open", "fill"} => cmd[c].data \in Contents

Syncing(c) == Active(c) /\ cmd[c].op = "sync"
Answered(c) == At(c, "msg") /\ cmd[c].result = "ok"

(* Both sides of a file after one has been given what only the other had. *)
Merged(f) == [local |-> IF f.local = None THEN f.remote ELSE f.local,
              remote |-> IF f.remote = None THEN f.local ELSE f.remote]

(* When SyncFiles has answered, both sides hold every file that either had, with
   the bytes it had there: what has changed meanwhile are files that somebody
   else has changed as well, whatever happened to these and however many
   commands overlapped. *)
SyncConverges ==
    \A c \in Cmds : Syncing(c) /\ Answered(c) =>
        \A n \in Untouched(c) : Both(n) = Merged(was[c][n])

(* SyncFiles adds files and never changes one, at no moment and however it
   ends: what a side held under a name when the command began is there. *)
SyncPreserves ==
    \A c \in Cmds : Syncing(c) =>
        \A n \in Untouched(c) :
            /\ was[c][n].local # None => local[n] = was[c][n].local
            /\ was[c][n].remote # None => remote[n] = was[c][n].remote

(* Wherever SyncFiles stops, each file is as it was or on both sides, except the
   one that was in hand. *)
SyncStopsClean ==
    \A c \in Cmds : Syncing(c) =>
        \A n \in Untouched(c) \ {cmd[c].cur} :
            Both(n) \in {was[c][n], Merged(was[c][n])}

(* What the command for one file has done when it is answered: an upload has given
   the server the file's bytes under a name that was free, and the directory holds
   them too, except that the file of the directory is empty now if its path was
   spelled in another way; a download has given the directory the server's content,
   a removal has emptied its own side; and the other files are as they were. *)
Done(r, n, f) ==
    CASE r.op = "upload" ->
            /\ f.remote = None /\ remote[n] # None
            /\ r.path # "outside" => remote[n] = f.local
            /\ local[n] = IF r.path = "other" THEN Torn ELSE remote[n]
      [] r.op = "download" -> remote[n] = f.remote /\ local[n] = f.remote
      [] r.op = "remove" -> remote[n] = None /\ local[n] = f.local
      [] r.op = "delete" -> local[n] = None /\ remote[n] = f.remote

CommandDone ==
    \A c \in Cmds : Answered(c) /\ ~Syncing(c) =>
        \A n \in Untouched(c) :
            IF n = cmd[c].cur THEN Done(cmd[c], n, was[c][n])
                              ELSE Both(n) = was[c][n]

(* The list a command ends with is true of every file that nobody else has
   changed since it began. *)
ShownIsTrue ==
    \A c \in Cmds : Answered(c) =>
        \A n \in Untouched(c) :
            /\ cmd[c].files[n] \in {"synced", "local_only"} <=> local[n] # None
            /\ cmd[c].files[n] \in {"synced", "remote_only"} <=> remote[n] # None

(* An upper bound on the steps of a command until its message is read. *)
StepsLeft(r) ==
    LET all == 4 * Cardinality(Names) IN
    4 * Cardinality(r.ups \cup r.downs) +
        CASE r.step = "list" -> IF r.final THEN 3 ELSE all + 9
          [] r.step = "scan" -> IF r.final THEN 2 ELSE all + 8
          [] r.step = "files" -> 7
          [] r.step = "send" -> 6
          [] r.step = "open" -> 5
          [] r.step \in {"fill", "remove", "delete"} -> 4
          [] r.step = "msg" -> 1
          [] r.step = "idle" -> 0

(* A command comes nearer to its end with each of its steps, and what others do to
   its files, or to the bytes it is about to copy, sets it back by none: the
   files it has to carry are fixed when it has read the directory, and every one
   is taken in hand once. *)
CommandBounded ==
    [][\A c \in Cmds : Active(c) =>
        \/ cmd'[c] = [cmd[c] EXCEPT !.data = cmd'[c].data]
        \/ StepsLeft(cmd'[c]) < StepsLeft(cmd[c])]_vars

(* Every command ends, whatever the others do to its files. *)
CommandsEnd == \A c \in Cmds : Active(c) ~> ~Active(c)
=============================================================================
