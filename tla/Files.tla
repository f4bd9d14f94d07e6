-------------------------------- MODULE Files --------------------------------
(***************************************************************************)
(* The file service of the GophKeeper server.  A stored file is two things *)
(* kept apart: a row of the table "file" (internal/repository/file.go) and *)
(* a blob on disk (internal/repository/file_manager.go).  The handlers     *)
(* FileUpload, FileDownload and FileRemove of internal/grpc_handler/file.go *)
(* change them one after the other, in a goroutine per call and without a  *)
(* lock; each step of a handler that another call or a crash can separate  *)
(* from the next one is an action here.                                    *)
(*                                                                         *)
(* A database call is one atomic step that may be executed and yet fail;   *)
(* how DataBase.retry gets there is the subject of TxRetry.                *)
(***************************************************************************)
EXTENDS Naturals, FiniteSets

CONSTANTS
    Callers,        \* calls the server can be handling at once
    Users,
    Names,          \* file names as a request spells them: "a", "./a"
    Cleaned,        \* the path each of them stands for: "./a" is "a"
    Versions,       \* tells the contents a user uploads under one name apart
    Provisioned,    \* users whose directory Registration has created
    NoFile,         \* nothing on disk under that name
    Empty,          \* created or truncated, nothing written yet
    Torn,           \* partly written, or written by two uploads at once
    Faults,         \* which of "db", "disk" and "crash" may happen
    Careful         \* users whose calls about one file never overlap and
                    \* whose client sends each name in its cleaned spelling

(* A key is what a row has: user_id and the name as the request spells it,
   which no handler cleans.  The client of this repository sends the last
   element of a path and nothing else (normalizedFileName). *)
Keys == {k \in Users \X Names : k[1] \in Careful => Cleaned[k[2]] = k[2]}
CarefulKeys == {k \in Keys : k[1] \in Careful}

(* A content carries the key it was uploaded for. *)
Contents == UNION {{k} \X Versions[k[1]] : k \in Keys}
Remains == Contents \cup {NoFile, Empty, Torn}

(* openUserRoot and root.WriteFile/ReadFile/Remove: the blob of a key is a file
   in the directory of that user, and os.Root walks the path it is given, so
   that every spelling of a path leads to one file: two rows can share a blob. *)
SharedDir(k) == <<CHOOSE u \in Users : TRUE, Cleaned[k[2]]>>     \* mutant
BlobOf(k) == <<k[1], Cleaned[k[2]]>>
Blobs == {BlobOf(k) : k \in Keys}

ASSUME FilesAssumption ==
    /\ Cleaned \in [Names -> Names]
    /\ Provisioned \subseteq Users
    /\ Careful \subseteq Users
    /\ Faults \subseteq {"db", "disk", "crash"}
    /\ {NoFile, Empty, Torn} \cap Contents = {}
    /\ NoFile # Empty /\ NoFile # Torn /\ Empty # Torn

VARIABLES
    rows,       \* number of rows of table file per key
    disk,       \* what each blob holds
    pc,         \* the next step of each call, "idle" when it has replied
    req,        \* the request of each call
    reply,      \* its reply, "none" until there is one
    got,        \* the bytes a download returned
    linked,     \* calls holding an open blob that still has its name
    acked       \* history: the content last acknowledged under a careful key,
                \* until a remove of it

vars == <<rows, disk, pc, req, reply, got, linked, acked>>

Requests ==
    {[op |-> "upload", key |-> d[1], data |-> d] : d \in Contents}
        \cup [op : {"download", "remove"}, key : Keys, data : {NoFile}]
Steps == {"idle", "token", "exists", "insert", "open", "write", "read",
          "delete", "unlink"}
Replies == {"none", "ok", "denied", "exists", "absent", "err"}

Active(c) == pc[c] # "idle"
Key(c) == req[c].key
Op(c) == req[c].op

(* openUserRoot fails when Registration has not made the directory. *)
HasDir(k) == k[1] \in Provisioned

(* The answer of SELECT EXISTS. *)
NeverExists(k) == FALSE                                 \* mutant
RowExists(k) == rows[k] > 0

(* The step after the token check. *)
UnlinkFirst(op) == IF op = "remove" THEN "unlink" ELSE "exists"     \* mutant
FirstStep(op) == IF op = "remove" THEN "delete" ELSE "exists"

Goto(c, step) == pc' = [pc EXCEPT ![c] = step]

Acked(k, d) == [j \in CarefulKeys |-> IF j = k THEN d ELSE acked[j]]

Finish(c, r) ==
    /\ pc' = [pc EXCEPT ![c] = "idle"]
    /\ reply' = [reply EXCEPT ![c] = r]

Init ==
    /\ rows = [k \in Keys |-> 0]
    /\ disk = [b \in Blobs |-> NoFile]
    /\ pc = [c \in Callers |-> "idle"]
    /\ \E r \in Requests : req = [c \in Callers |-> r]
    /\ reply = [c \in Callers |-> "none"]
    /\ got = [c \in Callers |-> NoFile]
    /\ linked = {}
    /\ acked = [k \in CarefulKeys |-> NoFile]

(***************************************************************************)
(* A request arrives.  The calls of a careful user about one file do not   *)
(* overlap; nothing on the server sees to it, so the calls of the others   *)
(* may.  From the moment a remove of a file is asked for, nothing is       *)
(* promised about what was acknowledged before.                            *)
(***************************************************************************)
Request(c) ==
    /\ ~Active(c)
    /\ \E r \in Requests :
        /\ r.key \in CarefulKeys => \A d \in Callers : Active(d) => Key(d) # r.key
        /\ req' = [req EXCEPT ![c] = r]
        /\ acked' = IF r.op = "remove" THEN Acked(r.key, NoFile) ELSE acked
    /\ Goto(c, "token")
    /\ reply' = [reply EXCEPT ![c] = "none"]
    /\ got' = [got EXCEPT ![c] = NoFile]
    /\ UNCHANGED <<rows, disk, linked>>

(* GetExpToken and Validate: the token is known and has not expired, or the
   call ends there. *)
TokenAccepted(c) ==
    /\ pc[c] = "token"
    /\ Goto(c, FirstStep(Op(c)))
    /\ UNCHANGED <<rows, disk, req, reply, got, linked, acked>>

TokenRejected(c) ==
    /\ pc[c] = "token"
    /\ Finish(c, "denied")
    /\ UNCHANGED <<rows, disk, req, got, linked, acked>>

(* FileExists: an upload needs the name to be free, a download needs it
   taken. *)
FileExists(c) ==
    /\ pc[c] = "exists"
    /\ \/ /\ Op(c) = "upload"
          /\ IF RowExists(Key(c)) THEN Finish(c, "exists")
                                  ELSE Goto(c, "insert") /\ UNCHANGED reply
       \/ /\ Op(c) = "download"
          /\ IF RowExists(Key(c)) THEN Goto(c, "read") /\ UNCHANGED reply
                                  ELSE Finish(c, "absent")
    /\ UNCHANGED <<rows, disk, req, got, linked, acked>>

(* FilesRepo.UploadFile: the INSERT.  Table file has no unique index. *)
InsertRow(c) ==
    /\ pc[c] = "insert"
    /\ rows' = [rows EXCEPT ![Key(c)] = @ + 1]
    /\ Goto(c, "open")
    /\ UNCHANGED <<disk, req, reply, got, linked, acked>>

(* FileManager.UploadFile, first half: root.WriteFile opens the file with
   O_CREATE and O_TRUNC. *)
OpenFile(c) ==
    /\ pc[c] = "open"
    /\ HasDir(Key(c))
    /\ disk' = [disk EXCEPT ![BlobOf(Key(c))] = Empty]
    /\ linked' = linked \cup {c}
    /\ Goto(c, "write")
    /\ UNCHANGED <<rows, req, reply, got, acked>>

OpenFails(c) ==
    /\ pc[c] = "open"
    /\ ~HasDir(Key(c)) \/ "disk" \in Faults
    /\ Finish(c, "err")
    /\ UNCHANGED <<rows, disk, req, got, linked, acked>>

(* Second half: the bytes go to the opened file.  Two uploads that hold it at
   once can mix; a file removed meanwhile has lost its name and the bytes with
   it, and WriteFile still succeeds. *)
Shared(c) ==
    \E d \in linked \ {c} : BlobOf(Key(d)) = BlobOf(Key(c))

Written(c) ==
    IF disk[BlobOf(Key(c))] = Empty /\ ~Shared(c)
        THEN {req[c].data}
        ELSE {req[c].data, Torn}

WriteData(c) ==
    /\ pc[c] = "write"
    /\ IF c \in linked
         THEN \E w \in Written(c) : disk' = [disk EXCEPT ![BlobOf(Key(c))] = w]
         ELSE UNCHANGED disk
    /\ linked' = linked \ {c}
    /\ acked' = Acked(Key(c), req[c].data)
    /\ Finish(c, "ok")
    /\ UNCHANGED <<rows, req, got>>

WriteFails(c) ==
    /\ pc[c] = "write"
    /\ "disk" \in Faults
    /\ \/ UNCHANGED disk
       \/ c \in linked /\ disk' = [disk EXCEPT ![BlobOf(Key(c))] = Torn]
    /\ linked' = linked \ {c}
    /\ Finish(c, "err")
    /\ UNCHANGED <<rows, req, got, acked>>

(* FileManager.DownloadFile. *)
ReadFile(c) ==
    /\ pc[c] = "read"
    /\ \/ /\ HasDir(Key(c)) /\ disk[BlobOf(Key(c))] # NoFile
          /\ got' = [got EXCEPT ![c] = disk[BlobOf(Key(c))]]
          /\ Finish(c, "ok")
       \/ /\ ~HasDir(Key(c)) \/ disk[BlobOf(Key(c))] = NoFile \/ "disk" \in Faults
          /\ Finish(c, "err")
          /\ UNCHANGED got
    /\ UNCHANGED <<rows, disk, req, linked, acked>>

(* FilesRepo.DeleteFile: DELETE removes every row of the key; none is
   ErrRecordNotFound. *)
OneRowLess(k) == [rows EXCEPT ![k] = @ - 1]             \* mutant
RowsAfterDelete(k) == [rows EXCEPT ![k] = 0]

DeleteRow(c) ==
    /\ pc[c] = "delete"
    /\ rows' = RowsAfterDelete(Key(c))
    /\ IF RowExists(Key(c)) THEN Goto(c, "unlink") /\ UNCHANGED reply
                            ELSE Finish(c, "absent")
    /\ UNCHANGED <<disk, req, got, linked, acked>>

(* FileManager.RemoveFile. *)
Unlink(c) ==
    /\ pc[c] = "unlink"
    /\ HasDir(Key(c)) /\ disk[BlobOf(Key(c))] # NoFile
    /\ disk' = [disk EXCEPT ![BlobOf(Key(c))] = NoFile]
    /\ linked' = {d \in linked : BlobOf(Key(d)) # BlobOf(Key(c))}
    /\ Finish(c, "ok")
    /\ UNCHANGED <<rows, req, got, acked>>

UnlinkFails(c) ==
    /\ pc[c] = "unlink"
    /\ ~HasDir(Key(c)) \/ disk[BlobOf(Key(c))] = NoFile \/ "disk" \in Faults
    /\ Finish(c, "err")
    /\ UNCHANGED <<rows, disk, req, got, linked, acked>>

(* A database call fails: the statement was not executed, or it was and the
   answer got lost. *)
DbFails(c) ==
    /\ "db" \in Faults
    /\ \/ pc[c] \in {"token", "exists", "insert", "delete"} /\ UNCHANGED rows
       \/ pc[c] = "insert" /\ rows' = [rows EXCEPT ![Key(c)] = @ + 1]
       \/ pc[c] = "delete" /\ rows' = RowsAfterDelete(Key(c))
    /\ Finish(c, "err")
    /\ UNCHANGED <<disk, req, got, linked, acked>>

(* The server process dies and is started again: every call is lost, a write
   in progress may have left a part of the bytes. *)
Crash ==
    /\ "crash" \in Faults
    /\ \E part \in SUBSET {BlobOf(Key(c)) : c \in linked} :
         disk' = [b \in Blobs |-> IF b \in part THEN Torn ELSE disk[b]]
    /\ pc' = [c \in Callers |-> "idle"]
    /\ reply' = [c \in Callers |-> IF Active(c) THEN "err" ELSE reply[c]]
    /\ linked' = {}
    /\ UNCHANGED <<rows, req, got, acked>>

Upload(c) == InsertRow(c) \/ OpenFile(c) \/ OpenFails(c) \/ WriteData(c)
                \/ WriteFails(c)
Remove(c) == DeleteRow(c) \/ Unlink(c) \/ UnlinkFails(c)

Next ==
    \/ \E c \in Callers :
        \/ Request(c) \/ TokenAccepted(c) \/ TokenRejected(c)
        \/ FileExists(c) \/ Upload(c) \/ ReadFile(c) \/ Remove(c) \/ DbFails(c)
    \/ Crash

Spec == Init /\ [][Next]_vars

(***************************************************************************)
(* Properties.                                                             *)
(***************************************************************************)

(* The type of every variable, and that only an upload that has opened its
   blob and not closed it counts as a writer. *)
TypeOK ==
    /\ rows \in [Keys -> Nat]
    /\ disk \in [Blobs -> Remains]
    /\ pc \in [Callers -> Steps]
    /\ req \in [Callers -> Requests]
    /\ reply \in [Callers -> Replies]
    /\ got \in [Callers -> Remains]
    /\ linked \subseteq {c \in Callers : pc[c] = "write"}
    /\ acked \in [CarefulKeys -> Contents \cup {NoFile}]

(* FileDownload never answers with the bytes of another user or of another path,
   whatever calls race and whatever fails.  The bytes may have been uploaded
   under another spelling of the path: the row a download finds is one of several
   and none of them says whose bytes the blob has.  Where the client cleans every
   name before it sends it, as a careful user's does, the bytes are of the very
   name that was asked for. *)
DownloadAuthentic ==
    \A c \in Callers : got[c] \in Contents =>
        /\ BlobOf(got[c][1]) = BlobOf(Key(c))
        /\ Key(c) \in CarefulKeys => got[c][1] = Key(c)

(* Once FileUpload has answered a careful user, the row is there and the blob
   holds exactly the acknowledged bytes until a remove of that file is
   requested: no failed or refused call about this file, no call about another
   file, however the calls of other users overlap and spell their names, and no
   crash of the server takes that back. *)
AckedDurable ==
    \A k \in CarefulKeys : acked[k] # NoFile =>
        rows[k] > 0 /\ disk[BlobOf(k)] = acked[k]

(* What the comment of FileExists says of its answer: the file is on the
   server.  Stated for the moments when no call about the file is running. *)
RowHasBlob ==
    \A k \in Keys :
        rows[k] > 0 /\ (\A c \in Callers : Active(c) => BlobOf(Key(c)) # BlobOf(k))
            => disk[BlobOf(k)] # NoFile

(* What a client can find under a key.  An upload that has its row and not yet
   its bytes does not count, a remove that still has to unlink does not
   either. *)
Under(k) ==
    LET at(steps) == \E c \in Callers : Key(c) = k /\ pc[c] \in steps IN
    IF at({"open", "write"}) \/ (rows[k] = 0 /\ ~at({"unlink"})) THEN NoFile
    ELSE IF disk[BlobOf(k)] \in Contents THEN disk[BlobOf(k)]
    ELSE Torn

(* The files of careful users are the map of BlobStore, whatever the others do
   meanwhile: an upload takes effect when its bytes are written, a remove when
   the blob is unlinked, and a call that fails, or the crash of the server in
   the middle of one, damages no file but its own. *)
Store == INSTANCE BlobStore WITH
    Keys <- CarefulKeys, None <- NoFile, Damaged <- Torn, Bytes <- Remains,
    store <- [k \in CarefulKeys |-> Under(k)],
    busy <- {c \in Callers : Active(c)}

ImplementsStore == Store!Spec
=============================================================================
