----------------------------- MODULE FilesProofs -----------------------------
(***************************************************************************)
(* Theorems about Files, for every set of callers, users, names and        *)
(* contents and every combination of faults.                               *)
(***************************************************************************)
EXTENDS Files, TLAPS

USE DEF Active, Key, Op, RowExists, Finish, Goto

(* A careful user's key is its own blob, and no other key of anyone shares it. *)
LEMMA OwnBlob ==
    /\ CarefulKeys \subseteq Keys
    /\ \A k \in Keys : BlobOf(k) \in Blobs
    /\ \A k \in CarefulKeys : BlobOf(k) = k
    /\ \A k \in CarefulKeys, j \in Keys : BlobOf(j) = k => j = k
  BY DEF CarefulKeys, Keys, BlobOf, Blobs

(* What the proofs need to know of a request. *)
LEMMA RequestFacts ==
    ASSUME NEW r \in Requests
    PROVE  /\ r.op \in {"upload", "download", "remove"}
           /\ r.key \in Keys
           /\ r.data \in Contents \cup {NoFile}
           /\ r.op = "upload" => r.data \in Contents
           /\ r.data \in Contents => r.data[1] = r.key
<1>1. CASE r \in {[op |-> "upload", key |-> d[1], data |-> d] : d \in Contents}
  BY <1>1 DEF Contents
<1>2. CASE r \in [op : {"download", "remove"}, key : Keys, data : {NoFile}]
  BY <1>2, FilesAssumption
<1>3. QED
  BY <1>1, <1>2 DEF Requests

LEMMA SomeRequest == ASSUME Init PROVE req \in [Callers -> Requests]
  BY DEF Init

(* Every variable keeps its type, and only an upload between the opening of its
   blob and its answer counts as a writer. *)
THEOREM TypeCorrect == Spec => []TypeOK
<1>1. Init => TypeOK
  BY SomeRequest DEF Init, TypeOK, Steps, Replies, Remains
<1>2. ASSUME TypeOK, [Next]_vars PROVE TypeOK'
  <2> USE <1>2, RequestFacts, OwnBlob DEF TypeOK, Steps, Replies, Remains, Acked
  <2>1. ASSUME NEW c \in Callers, Request(c) PROVE TypeOK'
    BY <2>1 DEF Request
  <2>2. ASSUME NEW c \in Callers, TokenAccepted(c) PROVE TypeOK'
    BY <2>2 DEF TokenAccepted, FirstStep
  <2>3. ASSUME NEW c \in Callers, TokenRejected(c) PROVE TypeOK'
    BY <2>3 DEF TokenRejected
  <2>4. ASSUME NEW c \in Callers, FileExists(c) PROVE TypeOK'
    BY <2>4 DEF FileExists
  <2>5. ASSUME NEW c \in Callers, InsertRow(c) PROVE TypeOK'
    BY <2>5 DEF InsertRow
  <2>6. ASSUME NEW c \in Callers, OpenFile(c) PROVE TypeOK'
    BY <2>6 DEF OpenFile
  <2>7. ASSUME NEW c \in Callers, OpenFails(c) PROVE TypeOK'
    BY <2>7 DEF OpenFails
  <2>8. ASSUME NEW c \in Callers, WriteData(c) PROVE TypeOK'
    <3>1. Written(c) \subseteq Remains
      BY DEF Written
    <3>2. disk' \in [Blobs -> Remains]
      BY <2>8, <3>1 DEF WriteData
    <3>3. QED
      BY <2>8, <3>2 DEF WriteData
  <2>9. ASSUME NEW c \in Callers, WriteFails(c) PROVE TypeOK'
    BY <2>9 DEF WriteFails
  <2>10. ASSUME NEW c \in Callers, ReadFile(c) PROVE TypeOK'
    BY <2>10 DEF ReadFile
  <2>11. ASSUME NEW c \in Callers, DeleteRow(c) PROVE TypeOK'
    BY <2>11 DEF DeleteRow, RowsAfterDelete
  <2>12. ASSUME NEW c \in Callers, Unlink(c) PROVE TypeOK'
    BY <2>12 DEF Unlink
  <2>13. ASSUME NEW c \in Callers, UnlinkFails(c) PROVE TypeOK'
    BY <2>13 DEF UnlinkFails
  <2>14. ASSUME NEW c \in Callers, DbFails(c) PROVE TypeOK'
    BY <2>14 DEF DbFails, RowsAfterDelete
  <2>15. ASSUME Crash PROVE TypeOK'
    BY <2>15 DEF Crash
  <2>16. CASE UNCHANGED vars
    BY <2>16 DEF vars
  <2>17. QED
    BY <2>1, <2>2, <2>3, <2>4, <2>5, <2>6, <2>7, <2>8, <2>9, <2>10, <2>11,
       <2>12, <2>13, <2>14, <2>15, <2>16 DEF Next, Upload, Remove
<1>3. QED
  BY <1>1, <1>2, PTL DEF Spec

(* DownloadAuthentic holds because every blob carries the label of a key it
   belongs to: that is the part that is inductive. *)
BlobsAuthentic ==
    \A b \in Blobs : disk[b] \in Contents =>
        disk[b][1] \in Keys /\ BlobOf(disk[b][1]) = b

LEMMA AuthenticStep ==
    ASSUME TypeOK, BlobsAuthentic, DownloadAuthentic, [Next]_vars
    PROVE  BlobsAuthentic' /\ DownloadAuthentic'
<1> USE FilesAssumption, RequestFacts, OwnBlob DEF TypeOK, BlobsAuthentic, DownloadAuthentic
<1>1. ASSUME NEW c \in Callers, Request(c) PROVE BlobsAuthentic' /\ DownloadAuthentic'
  BY <1>1 DEF Request
<1>2. ASSUME NEW c \in Callers, WriteData(c) PROVE BlobsAuthentic' /\ DownloadAuthentic'
  <2>1. \A w \in Written(c) : w \in Contents => w[1] = Key(c)
    BY DEF Written
  <2>2. QED
    BY <1>2, <2>1 DEF WriteData
<1>3. ASSUME NEW c \in Callers, ReadFile(c) PROVE BlobsAuthentic' /\ DownloadAuthentic'
  BY <1>3 DEF ReadFile
<1>4. ASSUME NEW c \in Callers, OpenFile(c) \/ WriteFails(c) \/ Unlink(c)
      PROVE  BlobsAuthentic' /\ DownloadAuthentic'
  BY <1>4 DEF OpenFile, WriteFails, Unlink
<1>5. ASSUME NEW c \in Callers,
             \/ TokenAccepted(c) \/ TokenRejected(c) \/ FileExists(c)
             \/ InsertRow(c) \/ OpenFails(c) \/ DeleteRow(c)
             \/ UnlinkFails(c) \/ DbFails(c)
      PROVE  BlobsAuthentic' /\ DownloadAuthentic'
  BY <1>5 DEF TokenAccepted, TokenRejected, FileExists, InsertRow, OpenFails,
              DeleteRow, UnlinkFails, DbFails
<1>6. ASSUME Crash PROVE BlobsAuthentic' /\ DownloadAuthentic'
  BY <1>6 DEF Crash
<1>7. CASE UNCHANGED vars
  BY <1>7 DEF vars
<1>8. QED
  BY <1>1, <1>2, <1>3, <1>4, <1>5, <1>6, <1>7 DEF Next, Upload, Remove

(* No interleaving and no fault makes a download answer with the bytes of
   another path or another user, and none makes a careful user's answer with
   bytes that were uploaded under another spelling.  The blob says so, not the
   row: what is read must be an upload to that very path, whichever row the
   check before it has found. *)
THEOREM DownloadsAuthentic == Spec => []DownloadAuthentic
<1>1. Init => BlobsAuthentic /\ DownloadAuthentic
  BY FilesAssumption DEF Init, BlobsAuthentic, DownloadAuthentic
<1>2. TypeOK /\ BlobsAuthentic /\ DownloadAuthentic /\ [Next]_vars
        => BlobsAuthentic' /\ DownloadAuthentic'
  BY AuthenticStep
<1>3. QED
  BY <1>1, <1>2, TypeCorrect, PTL DEF Spec

(***************************************************************************)
(* AckedDurable.  Where the calls about one file do not overlap, an         *)
(* acknowledged upload can only be undone by a call that is past its        *)
(* checks; the invariant says that no such call is about an acknowledged    *)
(* file, and what an upload has done so far at each of its steps.           *)
(***************************************************************************)
Exclusive ==
    \A c, d \in Callers :
        c # d /\ Active(c) /\ Active(d) /\ Key(c) \in CarefulKeys => Key(c) # Key(d)

StepOfOp ==
    \A c \in Callers :
        /\ pc[c] \in {"insert", "open", "write"} => Op(c) = "upload"
        /\ pc[c] \in {"delete", "unlink"} => Op(c) = "remove"

UploadProgress ==
    \A c \in Callers : Key(c) \in CarefulKeys =>
        /\ pc[c] \in {"open", "write"} => rows[Key(c)] > 0
        /\ pc[c] = "write" => c \in linked /\ disk[BlobOf(Key(c))] = Empty

AckedUndisturbed ==
    \A c \in Callers :
        Active(c) /\ Key(c) \in CarefulKeys /\ acked[Key(c)] # NoFile
            => pc[c] \in {"token", "exists", "read"} /\ Op(c) # "remove"

AckedKept ==
    \A k \in CarefulKeys : acked[k] # NoFile => rows[k] > 0 /\ disk[BlobOf(k)] = acked[k]

CarefulInv ==
    Exclusive /\ StepOfOp /\ UploadProgress /\ AckedUndisturbed /\ AckedKept

LEMMA CarefulStep ==
    ASSUME TypeOK, CarefulInv, [Next]_vars
    PROVE  CarefulInv'
<1> USE FilesAssumption, RequestFacts, OwnBlob
    DEF TypeOK, CarefulInv, Exclusive, StepOfOp, UploadProgress,
        AckedUndisturbed, AckedKept, Acked
<1>1. ASSUME NEW c \in Callers, Request(c) PROVE CarefulInv'
  BY <1>1 DEF Request
<1>2. ASSUME NEW c \in Callers, TokenAccepted(c) PROVE CarefulInv'
  BY <1>2 DEF TokenAccepted, FirstStep
<1>3. ASSUME NEW c \in Callers, TokenRejected(c) PROVE CarefulInv'
  BY <1>3 DEF TokenRejected
<1>4. ASSUME NEW c \in Callers, FileExists(c) PROVE CarefulInv'
  BY <1>4 DEF FileExists
<1>5. ASSUME NEW c \in Callers, InsertRow(c) PROVE CarefulInv'
  BY <1>5 DEF InsertRow
<1>6. ASSUME NEW c \in Callers, OpenFile(c) PROVE CarefulInv'
  BY <1>6 DEF OpenFile
<1>7. ASSUME NEW c \in Callers, OpenFails(c) PROVE CarefulInv'
  BY <1>7 DEF OpenFails
<1>8. ASSUME NEW c \in Callers, WriteData(c) PROVE CarefulInv'
  <2>1. CASE Key(c) \in CarefulKeys
    <3>1. Written(c) = {req[c].data}
      BY <1>8, <2>1 DEF Written, Shared, WriteData
    <3>2. disk' = [disk EXCEPT ![BlobOf(Key(c))] = req[c].data]
      BY <1>8, <2>1, <3>1 DEF WriteData
    <3>3. QED
      BY <1>8, <2>1, <3>2 DEF WriteData
  <2>2. CASE Key(c) \notin CarefulKeys
    <3>1. \A k \in CarefulKeys : disk'[BlobOf(k)] = disk[BlobOf(k)] /\ acked'[k] = acked[k]
      BY <1>8, <2>2 DEF WriteData
    <3>2. \A d \in Callers : Key(d) \in CarefulKeys => (d \in linked <=> d \in linked')
      BY <1>8, <2>2 DEF WriteData
    <3>3. QED
      BY <1>8, <2>2, <3>1, <3>2 DEF WriteData
  <2>3. QED
    BY <2>1, <2>2
<1>9. ASSUME NEW c \in Callers, WriteFails(c) PROVE CarefulInv'
  BY <1>9 DEF WriteFails
<1>10. ASSUME NEW c \in Callers, ReadFile(c) PROVE CarefulInv'
  BY <1>10 DEF ReadFile
<1>11. ASSUME NEW c \in Callers, DeleteRow(c) PROVE CarefulInv'
  BY <1>11 DEF DeleteRow, RowsAfterDelete
<1>12. ASSUME NEW c \in Callers, Unlink(c) PROVE CarefulInv'
  BY <1>12 DEF Unlink
<1>13. ASSUME NEW c \in Callers, UnlinkFails(c) PROVE CarefulInv'
  BY <1>13 DEF UnlinkFails
<1>14. ASSUME NEW c \in Callers, DbFails(c) PROVE CarefulInv'
  BY <1>14 DEF DbFails, RowsAfterDelete
<1>15. ASSUME Crash PROVE CarefulInv'
  BY <1>15 DEF Crash
<1>16. CASE UNCHANGED vars
  BY <1>16 DEF vars
<1>17. QED
  BY <1>1, <1>2, <1>3, <1>4, <1>5, <1>6, <1>7, <1>8, <1>9, <1>10, <1>11, <1>12,
     <1>13, <1>14, <1>15, <1>16 DEF Next, Upload, Remove

(* An acknowledged upload of a careful user survives everything but a remove of
   that file, whatever calls of others overlap and whatever fails. *)
THEOREM AckedSurvives == Spec => []AckedDurable
<1>1. Init => CarefulInv
  BY FilesAssumption DEF Init, CarefulInv, Exclusive, StepOfOp, UploadProgress,
         AckedUndisturbed, AckedKept, CarefulKeys, Keys, Active
<1>2. TypeOK /\ CarefulInv /\ [Next]_vars => CarefulInv'
  BY CarefulStep
<1>3. CarefulInv => AckedDurable
  BY DEF CarefulInv, AckedKept, AckedDurable
<1>4. QED
  BY <1>1, <1>2, <1>3, TypeCorrect, PTL DEF Spec

(***************************************************************************)
(* ImplementsStore.  A careful key has one call at a time, whose step tells  *)
(* what a client finds under it before and after.                          *)
(***************************************************************************)
Progress ==
    \A c \in Callers :
        /\ pc[c] = "exists" => Op(c) \in {"upload", "download"}
        /\ pc[c] = "read" => Op(c) = "download"
        /\ Key(c) \in CarefulKeys =>
            /\ pc[c] = "read" => rows[Key(c)] > 0
            /\ pc[c] \in {"insert", "unlink"} => rows[Key(c)] = 0

StoreInv == TypeOK /\ CarefulInv /\ Progress

LEMMA CarefulAreKeys == CarefulKeys \subseteq Keys
  BY OwnBlob

LEMMA ProgressStep ==
    ASSUME TypeOK, CarefulInv, Progress, [Next]_vars
    PROVE  Progress'
<1> USE CarefulAreKeys, RequestFacts DEF TypeOK, CarefulInv, Exclusive, StepOfOp, Progress
<1>1. ASSUME NEW c \in Callers, Request(c) PROVE Progress'
  BY <1>1 DEF Request
<1>2. ASSUME NEW c \in Callers, TokenAccepted(c) \/ TokenRejected(c) PROVE Progress'
  BY <1>2 DEF TokenAccepted, TokenRejected, FirstStep
<1>3. ASSUME NEW c \in Callers, FileExists(c) PROVE Progress'
  BY <1>3 DEF FileExists
<1>4. ASSUME NEW c \in Callers, InsertRow(c) PROVE Progress'
  BY <1>4 DEF InsertRow
<1>5. ASSUME NEW c \in Callers,
             \/ OpenFile(c) \/ OpenFails(c) \/ WriteData(c) \/ WriteFails(c)
             \/ ReadFile(c) \/ Unlink(c) \/ UnlinkFails(c)
      PROVE  Progress'
  BY <1>5 DEF OpenFile, OpenFails, WriteData, WriteFails, ReadFile, Unlink, UnlinkFails
<1>6. ASSUME NEW c \in Callers, DeleteRow(c) PROVE Progress'
  BY <1>6 DEF DeleteRow, RowsAfterDelete
<1>7. ASSUME NEW c \in Callers, DbFails(c) PROVE Progress'
  BY <1>7 DEF DbFails, RowsAfterDelete
<1>8. ASSUME Crash PROVE Progress'
  BY <1>8 DEF Crash
<1>9. CASE UNCHANGED vars
  BY <1>9 DEF vars
<1>10. QED
  BY <1>1, <1>2, <1>3, <1>4, <1>5, <1>6, <1>7, <1>8, <1>9 DEF Next, Upload, Remove

LEMMA StoreInvariant == Spec => []StoreInv
<1>1. Init => CarefulInv /\ Progress
  BY CarefulAreKeys, FilesAssumption
     DEF Init, CarefulInv, Exclusive, StepOfOp, UploadProgress, AckedUndisturbed,
         AckedKept, Progress
<1>2. TypeOK /\ CarefulInv /\ Progress /\ [Next]_vars => CarefulInv' /\ Progress'
  BY CarefulStep, ProgressStep
<1>3. QED
  BY <1>1, <1>2, TypeCorrect, PTL DEF Spec, StoreInv

(* The map, and the two kinds of calls Under looks for. *)
StoreOf == [k \in CarefulKeys |-> Under(k)]
Busy == {c \in Callers : Active(c)}
Uploading(k) == \E c \in Callers : Key(c) = k /\ pc[c] \in {"open", "write"}
Unlinking(k) == \E c \in Callers : Key(c) = k /\ pc[c] = "unlink"

OnDisk(k) == IF disk[BlobOf(k)] \in Contents THEN disk[BlobOf(k)] ELSE Torn

LEMMA UnderFacts ==
    ASSUME NEW k
    PROVE  /\ Under(k) = IF Uploading(k) \/ (rows[k] = 0 /\ ~Unlinking(k))
                           THEN NoFile ELSE OnDisk(k)
           /\ Under(k) \in Contents \cup {NoFile, Torn}
  BY DEF Under, Uploading, Unlinking, OnDisk

LEMMA OnDiskFacts ==
    ASSUME NEW k
    PROVE  OnDisk(k) \in Contents \cup {Torn} /\ OnDisk(k) # NoFile
  BY FilesAssumption DEF OnDisk

(* A key no step of a call is about, and whose row and blob stay. *)
LEMMA SameUnder ==
    ASSUME NEW k, rows'[k] = rows[k], disk'[BlobOf(k)] = disk[BlobOf(k)],
           Uploading(k)' <=> Uploading(k), Unlinking(k)' <=> Unlinking(k)
    PROVE  Under(k)' = Under(k)
  BY DEF Under, Uploading, Unlinking, OnDisk

(* The call that is about a careful key tells what is under it. *)
LEMMA BeforeStep ==
    ASSUME StoreInv, NEW c \in Callers, Active(c), Key(c) \in CarefulKeys
    PROVE  Under(Key(c)) =
             IF pc[c] \in {"open", "write", "insert"}
                  \/ (rows[Key(c)] = 0 /\ pc[c] # "unlink")
               THEN NoFile ELSE OnDisk(Key(c))
<1>1. Uploading(Key(c)) <=> pc[c] \in {"open", "write"}
  BY DEF StoreInv, CarefulInv, Exclusive, Uploading
<1>2. Unlinking(Key(c)) <=> pc[c] = "unlink"
  BY DEF StoreInv, CarefulInv, Exclusive, Unlinking
<1>3. pc[c] = "insert" => rows[Key(c)] = 0
  BY DEF StoreInv, Progress
<1>4. QED
  BY <1>1, <1>2, <1>3, UnderFacts

(* A step of a call that changes no row and no blob but its own. *)
OwnKeyOnly(c) ==
    /\ \A k \in Keys \ {Key(c)} : rows'[k] = rows[k]
    /\ \A b \in Blobs \ {BlobOf(Key(c))} : disk'[b] = disk[b]
    /\ \A d \in Callers \ {c} : pc'[d] = pc[d]
    /\ UNCHANGED req

LEMMA OthersStay ==
    ASSUME StoreInv, NEW c \in Callers, OwnKeyOnly(c)
    PROVE  \A k \in CarefulKeys \ {Key(c)} : Under(k)' = Under(k)
<1> SUFFICES ASSUME NEW k \in CarefulKeys \ {Key(c)} PROVE Under(k)' = Under(k)
  OBVIOUS
<1>1. (Uploading(k)' <=> Uploading(k)) /\ (Unlinking(k)' <=> Unlinking(k))
  BY DEF Uploading, Unlinking, OwnKeyOnly
<1>2. Key(c) \in Keys
  BY RequestFacts DEF StoreInv, TypeOK
<1>3. rows'[k] = rows[k] /\ disk'[BlobOf(k)] = disk[BlobOf(k)]
  BY <1>2, OwnBlob DEF OwnKeyOnly
<1>4. QED
  BY <1>1, <1>3, SameUnder

(* When a call ends, its own key holds what its row and blob say. *)
LEMMA AfterStep ==
    ASSUME StoreInv, NEW c \in Callers, Active(c), pc'[c] = "idle", OwnKeyOnly(c),
           Key(c) \in CarefulKeys
    PROVE  /\ Under(Key(c))' = IF rows'[Key(c)] = 0 THEN NoFile ELSE OnDisk(Key(c))'
           /\ StoreOf' = [StoreOf EXCEPT ![Key(c)] = Under(Key(c))']
<1>1. ~Uploading(Key(c))' /\ ~Unlinking(Key(c))'
  BY DEF StoreInv, CarefulInv, Exclusive, Uploading, Unlinking, OwnKeyOnly
<1>2. Under(Key(c))' = IF rows'[Key(c)] = 0 THEN NoFile ELSE OnDisk(Key(c))'
  BY <1>1 DEF Under, Uploading, Unlinking, OnDisk, OwnKeyOnly
<1>3. StoreOf' = [StoreOf EXCEPT ![Key(c)] = Under(Key(c))']
  BY OthersStay DEF StoreOf, OwnKeyOnly
<1>4. QED
  BY <1>2, <1>3

LEMMA CarelessStep ==
    ASSUME StoreInv, NEW c \in Callers, OwnKeyOnly(c), Key(c) \notin CarefulKeys
    PROVE  StoreOf' = StoreOf
  BY OthersStay DEF StoreOf, OwnKeyOnly

LEMMA FinishAnswers ==
    ASSUME StoreInv, NEW c \in Callers, NEW r, Active(c), Finish(c, r), UNCHANGED req
    PROVE  Store!Answer(c, r)
<1>1. Busy' = Busy \ {c} /\ c \in Busy
  BY DEF Busy, StoreInv, TypeOK
<1>2. QED
  BY <1>1 DEF Store!Answer, Busy

(* A step that a client cannot see: no call begins or ends, and under every
   careful key is what was there. *)
LEMMA Hidden ==
    ASSUME StoreInv, NEW c \in Callers, OwnKeyOnly(c), Active(c), pc'[c] # "idle",
           pc' \in [Callers -> Steps],
           Key(c) \in CarefulKeys => Under(Key(c))' = Under(Key(c)),
           UNCHANGED <<reply, got>>
    PROVE  UNCHANGED Store!vars
<1>1. StoreOf' = StoreOf
  BY OthersStay DEF StoreOf, OwnKeyOnly
<1>2. Busy' = Busy
  BY DEF Busy, OwnKeyOnly
<1>3. QED
  BY <1>1, <1>2 DEF Store!vars, StoreOf, Busy, OwnKeyOnly

(* What is under the key of a call that is going on after a step of it. *)
LEMMA UnderDuring ==
    ASSUME StoreInv, StoreInv', NEW c \in Callers, OwnKeyOnly(c), pc'[c] # "idle",
           Key(c) \in CarefulKeys
    PROVE  Under(Key(c))' =
             IF pc'[c] \in {"open", "write", "insert"}
                  \/ (rows'[Key(c)] = 0 /\ pc'[c] # "unlink")
               THEN NoFile ELSE OnDisk(Key(c))'
<1>1. Uploading(Key(c))' <=> pc'[c] \in {"open", "write"}
  BY DEF StoreInv, CarefulInv, Exclusive, Uploading, OwnKeyOnly
<1>2. Unlinking(Key(c))' <=> pc'[c] = "unlink"
  BY DEF StoreInv, CarefulInv, Exclusive, Unlinking, OwnKeyOnly
<1>3. pc'[c] = "insert" => rows'[Key(c)] = 0
  BY DEF StoreInv, Progress, OwnKeyOnly
<1>4. Under(Key(c))' = IF Uploading(Key(c))' \/ (rows'[Key(c)] = 0 /\ ~Unlinking(Key(c))')
                         THEN NoFile ELSE OnDisk(Key(c))'
  BY DEF Under, Uploading, Unlinking, OnDisk, OwnKeyOnly
<1>5. QED
  BY <1>1, <1>2, <1>3, <1>4

(* A call outside the promise may be answered in any way. *)
LEMMA CarelessAnswer ==
    ASSUME StoreInv, StoreInv', NEW c \in Callers, NEW r \in Replies, Active(c),
           Finish(c, r), OwnKeyOnly(c), Key(c) \notin CarefulKeys,
           \E b \in Remains : got' = [got EXCEPT ![c] = b]
    PROVE  Store!Next
<1>1. Store!Answer(c, r)
  BY FinishAnswers DEF OwnKeyOnly
<1>2. StoreOf' = StoreOf
  BY CarelessStep
<1>3. Store!Elsewhere(c)
  BY <1>1, <1>2 DEF Store!Elsewhere, StoreOf
<1>4. QED
  BY <1>3 DEF Store!Next

LEMMA GotKept ==
    ASSUME StoreInv, NEW c \in Callers, UNCHANGED got
    PROVE  \E b \in Remains : got' = [got EXCEPT ![c] = b]
<1>1. got \in [Callers -> Remains]
  BY DEF StoreInv, TypeOK
<1>2. got' = [got EXCEPT ![c] = got[c]] /\ got[c] \in Remains
  BY <1>1
<1>3. QED
  BY <1>2

(* A call fails, and what it leaves under its key is what a failing call may
   leave. *)
LEMMA FailMaps ==
    ASSUME StoreInv, StoreInv', NEW c \in Callers, Active(c), Finish(c, "err"),
           OwnKeyOnly(c), UNCHANGED got,
           Key(c) \in CarefulKeys =>
             \/ Under(Key(c))' = Under(Key(c))
             \/ Op(c) = "upload" /\ Under(Key(c)) = NoFile
             \/ Op(c) = "remove" /\ Under(Key(c))' = NoFile
    PROVE  Store!Next
<1>1. CASE Key(c) \notin CarefulKeys
  BY <1>1, CarelessAnswer, GotKept DEF Replies
<1>2. CASE Key(c) \in CarefulKeys
  <2>1. Store!Answer(c, "err")
    BY FinishAnswers DEF OwnKeyOnly
  <2>2. StoreOf' = [StoreOf EXCEPT ![Key(c)] = Under(Key(c))']
    <3>1. pc'[c] = "idle"
      BY DEF StoreInv, TypeOK
    <3>2. QED
      BY <1>2, <3>1, AfterStep
  <2>3. StoreOf[Key(c)] = Under(Key(c))
    BY <1>2 DEF StoreOf
  <2>4. Under(Key(c))' \in Contents \cup {NoFile, Torn}
    BY DEF Under
  <2>5. Under(Key(c))' \in Store!Leftover(req[c])
    BY <1>2, <2>3, <2>4 DEF Store!Leftover, Store!Kept, StoreOf
  <2>6. Store!Fail(c)
    BY <1>2, <2>1, <2>2, <2>5 DEF Store!Fail, StoreOf
  <2>7. QED
    BY <2>6 DEF Store!Next
<1>3. QED
  BY <1>1, <1>2

LEMMA StoreInitial == ASSUME Init PROVE Store!Init
<1>1. StoreOf = [k \in CarefulKeys |-> NoFile]
  BY CarefulAreKeys DEF Init, StoreOf, Under
<1>2. Busy = {}
  BY DEF Init, Busy
<1>3. req \in [Callers -> Requests]
  BY SomeRequest
<1>4. QED
  BY <1>1, <1>2, <1>3 DEF Init, Store!Init, StoreOf, Busy

LEMMA RequestMaps ==
    ASSUME StoreInv, NEW c \in Callers, Request(c)
    PROVE  Store!Next
<1>1. Busy' = Busy \cup {c} /\ c \notin Busy
  BY DEF Request, Busy, StoreInv, TypeOK
<1>2. ASSUME NEW k \in CarefulKeys PROVE Under(k)' = Under(k)
  <2>1. (Uploading(k)' <=> Uploading(k)) /\ (Unlinking(k)' <=> Unlinking(k))
    BY DEF Request, Uploading, Unlinking, StoreInv, TypeOK
  <2>2. QED
    BY <2>1, SameUnder DEF Request
<1>3. StoreOf' = StoreOf
  BY <1>2 DEF StoreOf
<1>4. Store!Request(c)
  BY <1>1, <1>3 DEF Request, Store!Request, StoreOf, Busy
<1>5. QED
  BY <1>4 DEF Store!Next

LEMMA TokenMaps ==
    ASSUME StoreInv, StoreInv', NEW c \in Callers, TokenAccepted(c) \/ TokenRejected(c)
    PROVE  [Store!Next]_(Store!vars)
<1>1. OwnKeyOnly(c) /\ Active(c) /\ UNCHANGED <<rows, disk, got>> /\ pc[c] = "token"
  BY DEF TokenAccepted, TokenRejected, OwnKeyOnly, StoreInv, TypeOK
<1>2. OnDisk(Key(c))' = OnDisk(Key(c))
  BY <1>1 DEF OnDisk, OwnKeyOnly
<1>3. CASE TokenAccepted(c)
  <2>1. pc' \in [Callers -> Steps] /\ pc'[c] \in {"delete", "exists"} /\ UNCHANGED reply
    BY <1>3 DEF TokenAccepted, FirstStep, StoreInv, TypeOK
  <2>2. Key(c) \in CarefulKeys => Under(Key(c))' = Under(Key(c))
    BY <1>1, <1>2, <2>1, BeforeStep, UnderDuring
  <2>3. QED
    BY <1>1, <2>1, <2>2, Hidden
<1>4. CASE TokenRejected(c)
  <2>1. Store!Answer(c, "denied")
    BY <1>1, <1>4, FinishAnswers DEF TokenRejected
  <2>2. StoreOf' = StoreOf
    <3>1. CASE Key(c) \notin CarefulKeys
      BY <1>1, <3>1, CarelessStep
    <3>2. CASE Key(c) \in CarefulKeys
      <4>1. pc'[c] = "idle"
        BY <1>4 DEF TokenRejected, StoreInv, TypeOK
      <4>2. Under(Key(c))' = Under(Key(c))
        BY <1>1, <1>2, <3>2, <4>1, BeforeStep, AfterStep
      <4>3. QED
        BY <1>1, <4>2, OthersStay DEF StoreOf, OwnKeyOnly
    <3>3. QED
      BY <3>1, <3>2
  <2>3. Store!Deny(c)
    BY <1>1, <2>1, <2>2 DEF Store!Deny, StoreOf
  <2>4. QED
    BY <2>3 DEF Store!Next
<1>5. QED
  BY <1>3, <1>4

(* A call that ends without a step on the table or the disk leaves what was
   under its key, unless it was in the middle of something. *)
LEMMA EndsUnchanged ==
    ASSUME StoreInv, NEW c \in Callers, Active(c), pc'[c] = "idle", OwnKeyOnly(c),
           Key(c) \in CarefulKeys, UNCHANGED <<rows, disk>>,
           pc[c] \notin {"open", "write", "unlink"}
    PROVE  Under(Key(c))' = Under(Key(c)) /\ StoreOf' = StoreOf
<1>1. OnDisk(Key(c))' = OnDisk(Key(c))
  BY DEF OnDisk, OwnKeyOnly
<1>2. pc[c] = "insert" => rows[Key(c)] = 0
  BY DEF StoreInv, Progress
<1>3. Under(Key(c))' = Under(Key(c))
  BY <1>1, <1>2, BeforeStep, AfterStep
<1>4. QED
  BY <1>3, OthersStay DEF StoreOf, OwnKeyOnly

LEMMA ExistsMaps ==
    ASSUME StoreInv, StoreInv', NEW c \in Callers, FileExists(c)
    PROVE  [Store!Next]_(Store!vars)
<1>1. /\ OwnKeyOnly(c) /\ Active(c) /\ UNCHANGED <<rows, disk, got, req>>
      /\ pc[c] = "exists" /\ Op(c) \in {"upload", "download"}
  BY DEF FileExists, OwnKeyOnly, StoreInv, TypeOK
<1>2. OnDisk(Key(c))' = OnDisk(Key(c))
  BY <1>1 DEF OnDisk
<1>3. CASE \/ Op(c) = "upload" /\ ~RowExists(Key(c))
           \/ Op(c) = "download" /\ RowExists(Key(c))
  <2>1. /\ pc' \in [Callers -> Steps] /\ UNCHANGED reply
        /\ pc'[c] = IF Op(c) = "upload" THEN "insert" ELSE "read"
    BY <1>1, <1>3 DEF FileExists, StoreInv, TypeOK, Steps
  <2>2. rows \in [Keys -> Nat]
    BY DEF StoreInv, TypeOK
  <2>3. Key(c) \in CarefulKeys => Under(Key(c))' = Under(Key(c))
    BY <1>1, <1>2, <1>3, <2>1, <2>2, BeforeStep, UnderDuring, CarefulAreKeys
  <2>4. QED
    BY <1>1, <2>1, <2>3, Hidden
<1>4. CASE Op(c) = "upload" /\ RowExists(Key(c))
  <2>1. Finish(c, "exists")
    BY <1>1, <1>4 DEF FileExists
  <2>2. pc'[c] = "idle"
    BY <2>1 DEF StoreInv, TypeOK
  <2>3. CASE Key(c) \notin CarefulKeys
    BY <1>1, <2>1, <2>3, CarelessAnswer, GotKept DEF Replies
  <2>4. CASE Key(c) \in CarefulKeys
    <3>1. StoreOf' = StoreOf
      BY <1>1, <2>2, <2>4, EndsUnchanged
    <3>2. StoreOf[Key(c)] # NoFile
      BY <1>1, <1>4, <2>4, BeforeStep, OnDiskFacts DEF StoreOf
    <3>3. Store!Upload(c)
      BY <1>1, <1>4, <2>1, <2>4, <3>1, <3>2, FinishAnswers DEF Store!Upload, StoreOf
    <3>4. QED
      BY <3>3 DEF Store!Next
  <2>5. QED
    BY <2>3, <2>4
<1>5. CASE Op(c) = "download" /\ ~RowExists(Key(c))
  <2>1. Finish(c, "absent")
    BY <1>1, <1>5 DEF FileExists
  <2>2. pc'[c] = "idle"
    BY <2>1 DEF StoreInv, TypeOK
  <2>3. CASE Key(c) \notin CarefulKeys
    BY <1>1, <2>1, <2>3, CarelessAnswer, GotKept DEF Replies
  <2>4. CASE Key(c) \in CarefulKeys
    <3>1. StoreOf' = StoreOf
      BY <1>1, <2>2, <2>4, EndsUnchanged
    <3>2. rows[Key(c)] = 0
      BY <1>5, <2>4, CarefulAreKeys DEF StoreInv, TypeOK
    <3>3. StoreOf[Key(c)] = NoFile
      BY <1>1, <2>4, <3>2, BeforeStep DEF StoreOf
    <3>4. Store!Download(c)
      BY <1>1, <1>5, <2>1, <2>4, <3>1, <3>3, FinishAnswers DEF Store!Download, StoreOf
    <3>5. QED
      BY <3>4 DEF Store!Next
  <2>5. QED
    BY <2>3, <2>4
<1>6. QED
  BY <1>1, <1>3, <1>4, <1>5

LEMMA InsertMaps ==
    ASSUME StoreInv, StoreInv', NEW c \in Callers, InsertRow(c)
    PROVE  UNCHANGED Store!vars
<1>1. /\ OwnKeyOnly(c) /\ Active(c) /\ pc[c] = "insert" /\ pc'[c] = "open"
      /\ pc' \in [Callers -> Steps] /\ UNCHANGED <<reply, got>>
  BY DEF InsertRow, OwnKeyOnly, StoreInv, TypeOK, Steps
<1>2. Key(c) \in CarefulKeys => Under(Key(c))' = Under(Key(c))
  BY <1>1, BeforeStep, UnderDuring
<1>3. QED
  BY <1>1, <1>2, Hidden

LEMMA OpenMaps ==
    ASSUME StoreInv, StoreInv', NEW c \in Callers, OpenFile(c)
    PROVE  UNCHANGED Store!vars
<1>1. /\ OwnKeyOnly(c) /\ Active(c) /\ pc[c] = "open" /\ pc'[c] = "write"
      /\ pc' \in [Callers -> Steps] /\ UNCHANGED <<reply, got>>
  BY DEF OpenFile, OwnKeyOnly, StoreInv, TypeOK, Steps
<1>2. Key(c) \in CarefulKeys => Under(Key(c))' = Under(Key(c))
  BY <1>1, BeforeStep, UnderDuring
<1>3. QED
  BY <1>1, <1>2, Hidden

LEMMA UploadFailsMaps ==
    ASSUME StoreInv, StoreInv', NEW c \in Callers, OpenFails(c) \/ WriteFails(c)
    PROVE  Store!Next
<1>1. /\ OwnKeyOnly(c) /\ Active(c) /\ pc[c] \in {"open", "write"} /\ Op(c) = "upload"
      /\ Finish(c, "err") /\ UNCHANGED got
  BY DEF OpenFails, WriteFails, OwnKeyOnly, StoreInv, TypeOK, CarefulInv, StepOfOp
<1>2. Key(c) \in CarefulKeys => Under(Key(c)) = NoFile
  BY <1>1, BeforeStep
<1>3. QED
  BY <1>1, <1>2, FailMaps

LEMMA WriteMaps ==
    ASSUME StoreInv, StoreInv', NEW c \in Callers, WriteData(c)
    PROVE  Store!Next
<1>1. /\ OwnKeyOnly(c) /\ Active(c) /\ pc[c] = "write" /\ Op(c) = "upload"
      /\ Finish(c, "ok") /\ UNCHANGED <<got, req, rows>>
  BY DEF WriteData, OwnKeyOnly, StoreInv, TypeOK, CarefulInv, StepOfOp
<1>2. CASE Key(c) \notin CarefulKeys
  BY <1>1, <1>2, CarelessAnswer, GotKept DEF Replies
<1>3. CASE Key(c) \in CarefulKeys
  <2>1. rows[Key(c)] > 0 /\ disk[BlobOf(Key(c))] = Empty /\ c \in linked /\ rows \in [Keys -> Nat]
        /\ Key(c) \in Keys
    BY <1>1, <1>3, CarefulAreKeys DEF StoreInv, CarefulInv, UploadProgress, TypeOK
  <2>2. Written(c) = {req[c].data}
    BY <1>1, <1>3, <2>1, OwnBlob, RequestFacts
       DEF Written, Shared, StoreInv, CarefulInv, Exclusive, TypeOK
  <2>3. req[c].data \in Contents /\ disk'[BlobOf(Key(c))] = req[c].data
    BY <1>1, <2>1, <2>2, OwnBlob, RequestFacts DEF WriteData, StoreInv, TypeOK
  <2>4. pc'[c] = "idle"
    BY <1>1 DEF StoreInv, TypeOK
  <2>5. rows'[Key(c)] # 0 /\ OnDisk(Key(c))' = req[c].data
    BY <1>1, <2>1, <2>3 DEF OnDisk
  <2>6. Under(Key(c))' = req[c].data /\ StoreOf' = [StoreOf EXCEPT ![Key(c)] = req[c].data]
    BY <1>1, <1>3, <2>4, <2>5, AfterStep
  <2>7. StoreOf[Key(c)] = NoFile
    BY <1>1, <1>3, BeforeStep DEF StoreOf
  <2>8. Store!Upload(c)
    BY <1>1, <1>3, <2>6, <2>7, FinishAnswers DEF Store!Upload, StoreOf
  <2>9. QED
    BY <2>8 DEF Store!Next
<1>4. QED
  BY <1>2, <1>3

LEMMA ReadMaps ==
    ASSUME StoreInv, StoreInv', NEW c \in Callers, ReadFile(c)
    PROVE  Store!Next
<1>1. /\ OwnKeyOnly(c) /\ Active(c) /\ pc[c] = "read" /\ Op(c) = "download"
      /\ UNCHANGED <<req, rows, disk>>
  BY DEF ReadFile, OwnKeyOnly, StoreInv, TypeOK, Progress
<1>2. CASE Finish(c, "err") /\ UNCHANGED got
  <2>1. pc'[c] = "idle"
    BY <1>2 DEF StoreInv, TypeOK
  <2>2. Key(c) \in CarefulKeys => Under(Key(c))' = Under(Key(c))
    BY <1>1, <2>1, EndsUnchanged
  <2>3. QED
    BY <1>1, <1>2, <2>2, FailMaps
<1>3. CASE Finish(c, "ok") /\ got' = [got EXCEPT ![c] = disk[BlobOf(Key(c))]]
  <2>1. disk[BlobOf(Key(c))] \in Remains /\ pc'[c] = "idle"
    BY <1>3, RequestFacts DEF StoreInv, TypeOK
  <2>2. CASE Key(c) \notin CarefulKeys
    BY <1>1, <1>3, <2>1, <2>2, CarelessAnswer DEF Replies
  <2>3. CASE Key(c) \in CarefulKeys
    <3>1. StoreOf' = StoreOf
      BY <1>1, <2>1, <2>3, EndsUnchanged
    <3>2. rows[Key(c)] > 0 /\ rows[Key(c)] \in Nat
      BY <1>1, <2>3, CarefulAreKeys DEF StoreInv, Progress, TypeOK
    <3>3. StoreOf[Key(c)] = OnDisk(Key(c))
      BY <1>1, <2>3, <3>2, BeforeStep DEF StoreOf
    <3>4. StoreOf[Key(c)] # NoFile
      BY <3>3, OnDiskFacts
    <3>5. StoreOf[Key(c)] \in Contents => disk[BlobOf(Key(c))] = StoreOf[Key(c)]
      BY <3>3, FilesAssumption DEF OnDisk
    <3>6. Store!Download(c)
      BY <1>1, <1>3, <2>1, <2>3, <3>1, <3>4, <3>5, FinishAnswers DEF Store!Download, StoreOf
    <3>7. QED
      BY <3>6 DEF Store!Next
  <2>4. QED
    BY <2>2, <2>3
<1>4. QED
  BY <1>2, <1>3 DEF ReadFile

LEMMA DeleteMaps ==
    ASSUME StoreInv, StoreInv', NEW c \in Callers, DeleteRow(c)
    PROVE  [Store!Next]_(Store!vars)
<1>1. /\ OwnKeyOnly(c) /\ Active(c) /\ pc[c] = "delete" /\ Op(c) = "remove"
      /\ UNCHANGED <<req, disk, got>> /\ rows \in [Keys -> Nat] /\ Key(c) \in Keys
  BY RequestFacts
     DEF DeleteRow, RowsAfterDelete, OwnKeyOnly, StoreInv, TypeOK, CarefulInv, StepOfOp
<1>2. rows'[Key(c)] = 0 /\ OnDisk(Key(c))' = OnDisk(Key(c))
  BY <1>1 DEF DeleteRow, RowsAfterDelete, OnDisk
<1>3. CASE RowExists(Key(c))
  <2>1. pc'[c] = "unlink" /\ pc' \in [Callers -> Steps] /\ UNCHANGED reply
    BY <1>3 DEF DeleteRow, StoreInv, TypeOK, Steps
  <2>2. Key(c) \in CarefulKeys => Under(Key(c))' = Under(Key(c))
    BY <1>1, <1>2, <1>3, <2>1, BeforeStep, UnderDuring
  <2>3. QED
    BY <1>1, <2>1, <2>2, Hidden
<1>4. CASE ~RowExists(Key(c))
  <2>1. Finish(c, "absent") /\ rows[Key(c)] = 0
    BY <1>1, <1>4 DEF DeleteRow
  <2>2. pc'[c] = "idle" /\ rows' = rows
    BY <1>1, <2>1 DEF DeleteRow, RowsAfterDelete, StoreInv, TypeOK
  <2>3. CASE Key(c) \notin CarefulKeys
    BY <1>1, <2>1, <2>3, CarelessAnswer, GotKept DEF Replies
  <2>4. CASE Key(c) \in CarefulKeys
    <3>1. StoreOf' = StoreOf
      BY <1>1, <2>2, <2>4, EndsUnchanged
    <3>2. StoreOf[Key(c)] = NoFile
      BY <1>1, <2>1, <2>4, BeforeStep DEF StoreOf
    <3>3. Store!Remove(c)
      BY <1>1, <2>1, <2>4, <3>1, <3>2, FinishAnswers DEF Store!Remove, StoreOf
    <3>4. QED
      BY <3>3 DEF Store!Next
  <2>5. QED
    BY <2>3, <2>4
<1>5. QED
  BY <1>3, <1>4

LEMMA UnlinkMaps ==
    ASSUME StoreInv, StoreInv', NEW c \in Callers, Unlink(c) \/ UnlinkFails(c)
    PROVE  Store!Next
<1>1. /\ OwnKeyOnly(c) /\ Active(c) /\ pc[c] = "unlink" /\ Op(c) = "remove"
      /\ UNCHANGED <<req, rows, got>> /\ pc'[c] = "idle"
  BY DEF Unlink, UnlinkFails, OwnKeyOnly, StoreInv, TypeOK, CarefulInv, StepOfOp
<1>2. Key(c) \in CarefulKeys =>
        Under(Key(c))' = NoFile /\ StoreOf' = [StoreOf EXCEPT ![Key(c)] = NoFile]
  <2>1. Key(c) \in CarefulKeys => rows'[Key(c)] = 0
    BY <1>1 DEF StoreInv, Progress
  <2>2. QED
    BY <1>1, <2>1, AfterStep
<1>3. CASE UnlinkFails(c)
  <2>1. Finish(c, "err")
    BY <1>3 DEF UnlinkFails
  <2>2. QED
    BY <1>1, <1>2, <2>1, FailMaps
<1>4. CASE Unlink(c)
  <2>1. Finish(c, "ok")
    BY <1>4 DEF Unlink
  <2>2. CASE Key(c) \notin CarefulKeys
    BY <1>1, <2>1, <2>2, CarelessAnswer, GotKept DEF Replies
  <2>3. CASE Key(c) \in CarefulKeys
    <3>1. StoreOf[Key(c)] # NoFile
      BY <1>1, <2>3, BeforeStep, OnDiskFacts DEF StoreOf
    <3>2. Store!Remove(c)
      BY <1>1, <1>2, <2>1, <2>3, <3>1, FinishAnswers DEF Store!Remove, StoreOf
    <3>3. QED
      BY <3>2 DEF Store!Next
  <2>4. QED
    BY <2>2, <2>3
<1>5. QED
  BY <1>3, <1>4

LEMMA DbFailsMaps ==
    ASSUME StoreInv, StoreInv', NEW c \in Callers, DbFails(c)
    PROVE  Store!Next
<1>1. /\ OwnKeyOnly(c) /\ Active(c) /\ UNCHANGED <<req, disk, got>> /\ Finish(c, "err")
      /\ pc[c] \in {"token", "exists", "insert", "delete"} /\ pc'[c] = "idle"
      /\ Key(c) \in Keys /\ rows \in [Keys -> Nat]
  BY RequestFacts DEF DbFails, RowsAfterDelete, OwnKeyOnly, StoreInv, TypeOK
<1>2. CASE UNCHANGED rows
  <2>1. Key(c) \in CarefulKeys => Under(Key(c))' = Under(Key(c))
    BY <1>1, <1>2, EndsUnchanged
  <2>2. QED
    BY <1>1, <2>1, FailMaps
<1>3. CASE pc[c] = "insert"
  <2>1. Op(c) = "upload"
    BY <1>3 DEF StoreInv, CarefulInv, StepOfOp
  <2>2. Key(c) \in CarefulKeys => Under(Key(c)) = NoFile
    BY <1>1, <1>3, BeforeStep
  <2>3. QED
    BY <1>1, <2>1, <2>2, FailMaps
<1>4. CASE pc[c] = "delete" /\ rows' = RowsAfterDelete(Key(c))
  <2>1. Op(c) = "remove" /\ rows'[Key(c)] = 0
    BY <1>1, <1>4 DEF StoreInv, CarefulInv, StepOfOp, RowsAfterDelete
  <2>2. Key(c) \in CarefulKeys => Under(Key(c))' = NoFile
    BY <1>1, <2>1, AfterStep
  <2>3. QED
    BY <1>1, <2>1, <2>2, FailMaps
<1>5. QED
  BY <1>2, <1>3, <1>4 DEF DbFails

(* A crash fails every call at once, each of which leaves what a failing call
   may leave. *)
LEMMA CrashMaps ==
    ASSUME StoreInv, StoreInv', Crash
    PROVE  Store!Next
<1>1. /\ UNCHANGED <<rows, req, got>> /\ pc' = [c \in Callers |-> "idle"]
      /\ reply' = [c \in Callers |-> IF c \in Busy THEN "err" ELSE reply[c]]
      /\ disk' \in [Blobs -> Remains] /\ rows \in [Keys -> Nat]
  BY DEF Crash, Busy, StoreInv, TypeOK
<1>2. Busy' = {}
  BY <1>1 DEF Busy
<1>3. \A k : ~Uploading(k)' /\ ~Unlinking(k)'
  BY <1>1 DEF Uploading, Unlinking
<1>4. \A k : Under(k)' = IF rows[k] = 0 THEN NoFile ELSE OnDisk(k)'
  BY <1>1, <1>3 DEF Under, Uploading, Unlinking, OnDisk
<1>5. \A k \in CarefulKeys :
        (\A c \in linked : Key(c) # k) => disk'[BlobOf(k)] = disk[BlobOf(k)]
  BY OwnBlob, RequestFacts DEF Crash, StoreInv, TypeOK
<1>6. ASSUME NEW k \in CarefulKeys, \A c \in Callers : Active(c) => Key(c) # k
      PROVE  Under(k)' = Under(k)
  <2>1. disk'[BlobOf(k)] = disk[BlobOf(k)]
    BY <1>5, <1>6, CarefulAreKeys DEF StoreInv, TypeOK
  <2>2. ~Uploading(k) /\ ~Unlinking(k)
    BY <1>6 DEF Uploading, Unlinking
  <2>3. QED
    BY <1>1, <1>3, <2>1, <2>2, SameUnder
<1>7. ASSUME NEW k \in CarefulKeys, NEW c \in Callers, Active(c), Key(c) = k
      PROVE  \/ Under(k)' = Under(k)
             \/ Op(c) = "upload" /\ Under(k) = NoFile
             \/ Op(c) = "remove" /\ Under(k)' = NoFile
  <2>1. CASE pc[c] \in {"open", "write"}
    BY <1>7, <2>1, BeforeStep DEF StoreInv, CarefulInv, StepOfOp
  <2>2. CASE pc[c] = "unlink"
    BY <1>4, <1>7, <2>2 DEF StoreInv, CarefulInv, StepOfOp, Progress
  <2>3. CASE pc[c] \notin {"open", "write", "unlink"}
    <3>1. \A d \in linked : Key(d) # k
      BY <1>7, <2>3 DEF StoreInv, TypeOK, CarefulInv, Exclusive
    <3>2. disk'[BlobOf(k)] = disk[BlobOf(k)]
      BY <1>5, <3>1, CarefulAreKeys
    <3>3. ~Uploading(k) /\ ~Unlinking(k)
      BY <1>7, <2>3 DEF Uploading, Unlinking, StoreInv, CarefulInv, Exclusive
    <3>4. QED
      BY <1>1, <1>3, <3>2, <3>3, SameUnder
  <2>4. QED
    BY <2>1, <2>2, <2>3
<1>8. StoreOf' \in [CarefulKeys -> Store!Kept]
  BY DEF StoreOf, Store!Kept, Under
<1>9. ASSUME NEW k \in CarefulKeys
      PROVE  \/ StoreOf'[k] = StoreOf[k]
             \/ \E c \in Busy : req[c].key = k /\ StoreOf'[k] \in Store!Leftover(req[c])
  <2>1. StoreOf'[k] = Under(k)' /\ StoreOf[k] = Under(k)
        /\ Under(k)' \in Contents \cup {NoFile, Torn}
    BY DEF StoreOf, Under
  <2>2. CASE \A c \in Callers : Active(c) => Key(c) # k
    BY <1>6, <2>1, <2>2
  <2>3. ASSUME NEW c \in Callers, Active(c), Key(c) = k
        PROVE  /\ StoreOf'[k] = StoreOf[k] \/ StoreOf'[k] \in Store!Leftover(req[c])
               /\ c \in Busy
    BY <1>7, <2>1, <2>3 DEF Store!Leftover, Store!Kept, StoreOf, Busy
  <2>4. QED
    BY <2>2, <2>3
<1>10. Store!Restart
  BY <1>1, <1>2, <1>8, <1>9 DEF Store!Restart, StoreOf, Busy
<1>11. QED
  BY <1>10 DEF Store!Next

LEMMA StoreStep ==
    ASSUME StoreInv, StoreInv', [Next]_vars
    PROVE  [Store!Next]_(Store!vars)
<1>1. CASE UNCHANGED vars
  BY <1>1 DEF vars, Store!vars, Under
<1>2. CASE Next
  BY <1>2, RequestMaps, TokenMaps, ExistsMaps, InsertMaps, OpenMaps, UploadFailsMaps,
     WriteMaps, ReadMaps, DeleteMaps, UnlinkMaps, DbFailsMaps, CrashMaps
     DEF Next, Upload, Remove
<1>3. QED
  BY <1>1, <1>2

(* Row and blob together are an atomic map of the careful users' files: every
   step of a handler, of a failure and of a crash is a step of that map or cannot
   be seen, for any number of calls and whatever the others do. *)
THEOREM StoreImplemented == Spec => ImplementsStore
<1>1. Init => Store!Init
  BY StoreInitial
<1>2. StoreInv /\ StoreInv' /\ [Next]_vars => [Store!Next]_(Store!vars)
  BY StoreStep
<1>3. QED
  BY <1>1, <1>2, StoreInvariant, PTL DEF Spec, ImplementsStore, Store!Spec

(***************************************************************************)
(* What makes RowHasBlob fail.  Its run finds an upload and a remove of one *)
(* file that overlap; a fault between two steps and a missing directory    *)
(* break it too, and with none of the three it holds: a row without a blob *)
(* is then the row of an upload that is about to create the blob.          *)
(***************************************************************************)
RowBacked ==
    \A k \in CarefulKeys : rows[k] > 0 =>
        disk[BlobOf(k)] # NoFile \/ \E c \in Callers : Key(c) = k /\ pc[c] = "open"

LEMMA BackedStep ==
    ASSUME Faults = {}, Provisioned = Users,
           StoreInv, RowBacked, [Next]_vars
    PROVE  RowBacked'
<1> USE OwnBlob, FilesAssumption, RequestFacts DEF StoreInv, TypeOK, RowBacked
<1>1. ASSUME NEW c \in Callers, Request(c) PROVE RowBacked'
  BY <1>1 DEF Request
<1>2. ASSUME NEW c \in Callers,
             TokenAccepted(c) \/ TokenRejected(c) \/ FileExists(c) \/ ReadFile(c)
      PROVE  RowBacked'
  BY <1>2 DEF TokenAccepted, TokenRejected, FileExists, ReadFile
<1>3. ASSUME NEW c \in Callers, InsertRow(c) PROVE RowBacked'
  <2>1. pc'[c] = "open" /\ UNCHANGED <<disk, req>>
        /\ \A k \in Keys \ {Key(c)} : rows'[k] = rows[k]
        /\ \A d \in Callers \ {c} : pc'[d] = pc[d]
    BY <1>3 DEF InsertRow, Steps
  <2>2. QED
    BY <1>3, <2>1 DEF InsertRow
<1>4. ASSUME NEW c \in Callers, OpenFile(c) PROVE RowBacked'
  BY <1>4 DEF OpenFile
<1>5. ASSUME NEW c \in Callers, OpenFails(c) \/ WriteFails(c) \/ DbFails(c) PROVE RowBacked'
  BY <1>5 DEF OpenFails, WriteFails, DbFails, HasDir, Keys
<1>6. ASSUME NEW c \in Callers, WriteData(c) PROVE RowBacked'
  <2>1. \A w \in Written(c) : w # NoFile
    BY <1>6 DEF Written, WriteData, CarefulInv, StepOfOp
  <2>2. \A b \in Blobs : disk[b] # NoFile => disk'[b] # NoFile
    BY <1>6, <2>1 DEF WriteData
  <2>3. QED
    BY <1>6, <2>2 DEF WriteData
<1>7. ASSUME NEW c \in Callers, DeleteRow(c) PROVE RowBacked'
  BY <1>7 DEF DeleteRow, RowsAfterDelete
<1>8. ASSUME NEW c \in Callers, Unlink(c) \/ UnlinkFails(c) PROVE RowBacked'
  BY <1>8 DEF Unlink, UnlinkFails, Progress
<1>9. ASSUME Crash PROVE RowBacked'
  BY <1>9 DEF Crash
<1>10. CASE UNCHANGED vars
  BY <1>10 DEF vars
<1>11. QED
  BY <1>1, <1>2, <1>3, <1>4, <1>5, <1>6, <1>7, <1>8, <1>9, <1>10 DEF Next, Upload, Remove

(* Where the calls about one file never overlap, nothing fails and every user
   has the directory of his registration, a file FileExists finds has its blob:
   these are the three ways to lose it, and there is no fourth. *)
THEOREM OnlyOverlapsLoseBlobs ==
    ASSUME Faults = {}, Careful = Users, Provisioned = Users
    PROVE  Spec => []RowHasBlob
<1>1. Init => RowBacked
  BY CarefulAreKeys DEF Init, RowBacked
<1>2. StoreInv /\ RowBacked /\ [Next]_vars => RowBacked'
  BY BackedStep
<1>3. RowBacked => RowHasBlob
  BY DEF RowBacked, RowHasBlob, CarefulKeys, Keys
<1>4. QED
  BY <1>1, <1>2, <1>3, StoreInvariant, PTL DEF Spec
=============================================================================
