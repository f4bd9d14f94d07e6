---------------------------- MODULE FileSyncProofs ----------------------------
(***************************************************************************)
(* Proofs about FileSync, for any number of commands, names and versions   *)
(* and whatever the others may do.                                         *)
(***************************************************************************)
EXTENDS FileSync, FiniteSetTheorems, TLAPS

LEMMA Constants ==
    /\ None \in LocalStates /\ None \in RemoteStates /\ Damaged \in RemoteStates
    /\ Torn \in Contents /\ None \notin Contents /\ None \notin Names
    /\ Contents \subseteq LocalStates /\ Contents \subseteq RemoteStates
    /\ LocalStates = Contents \cup {None}
    /\ \A n \in Names : n # None
  BY FileSyncAssumption DEF Contents, LocalStates, RemoteStates

LEMMA IdleType == Idle \in Command
  BY Constants DEF Idle, Nothing, Statuses, Command, Paths

(* What the steps make of the record of a command. *)
LEMMA EndedType ==
    ASSUME NEW r \in Command, NEW res \in {"ok", "err"}
    PROVE  Ended(r, res) \in Command /\ Ended(r, res).step = "msg"
  BY DEF Command, Ended

LEMMA WithLeftType ==
    ASSUME NEW r \in Command, NEW up \in SUBSET Names, NEW down \in SUBSET Names
    PROVE  /\ WithLeft(r, up, down) \in Command
           /\ WithLeft(r, up, down).step \in {"list", "files"}
  BY DEF Command, WithLeft

LEMMA AfterFileType ==
    ASSUME NEW r \in Command
    PROVE  AfterFile(r) \in Command /\ AfterFile(r).step \in {"list", "files"}
<1>1. Rest(r.ups, r.cur) \in SUBSET Names /\ Rest(r.downs, r.cur) \in SUBSET Names
  BY DEF Command, Rest
<1>2. QED
  BY <1>1, WithLeftType DEF AfterFile

LEMMA SentType ==
    ASSUME NEW r \in Command
    PROVE  \/ Sent(r) = AfterFile(r)
           \/ /\ Sent(r) \in Command /\ Sent(r).step = "open"
              /\ Sent(r).cur = r.cur /\ Sent(r).data = r.data
<1>1. Rest(r.ups, r.cur) \in SUBSET Names
  BY DEF Command, Rest
<1>2. QED
  BY <1>1 DEF Sent, Command

LEMMA FieldType ==
    ASSUME NEW r \in Command
    PROVE  /\ \A n \in Names : [r EXCEPT !.cur = n] \in Command
           /\ \A d \in LocalStates : [r EXCEPT !.data = d] \in Command
           /\ \A s \in {"list", "send", "open", "fill"} : [r EXCEPT !.step = s] \in Command
           /\ \A S \in SUBSET Names : [r EXCEPT !.seen = S] \in Command
           /\ [r EXCEPT !.final = TRUE] \in Command
           /\ \A f \in [Names -> Statuses] : [r EXCEPT !.files = f] \in Command
           /\ r.ups \subseteq Names /\ r.downs \subseteq Names /\ r.seen \subseteq Names
           /\ r.data \in LocalStates
  BY DEF Command

LEMMA DisturbType ==
    ASSUME was \in [Cmds -> [Names -> Pairs \cup {Disturbed}]],
           NEW n, NEW D, Disturb(n, D)
    PROVE  was' \in [Cmds -> [Names -> Pairs \cup {Disturbed}]]
  BY DEF Disturb

LEMMA StepType ==
    ASSUME TypeOK, NEW c \in Cmds, NEW r \in Command, Becomes(c, r),
           local' \in [Names -> LocalStates], remote' \in [Names -> RemoteStates],
           was' \in [Cmds -> [Names -> Pairs \cup {Disturbed}]],
           linked' \subseteq linked \cup {c}, c \in linked' => r.step = "fill",
           r.step \in {"send", "open", "fill", "remove", "delete"} => r.cur \in Names,
           r.step \in {"send", "open", "fill"} => r.data \in Contents
    PROVE  TypeOK'
  BY DEF TypeOK, Becomes, At

LEMMA LaunchType ==
    ASSUME TypeOK, NEW c \in Cmds, NEW r \in Command, Launch(c, r),
           r.step \in {"send", "remove", "delete"} => r.cur \in Names,
           r.step = "send" => r.data \in Contents,
           r.step \notin {"open", "fill"}
    PROVE  TypeOK'
  <1>1. \A n \in Names : Both(n) \in Pairs
    BY DEF TypeOK, Both, Pairs
  <1>2. was' \in [Cmds -> [Names -> Pairs \cup {Disturbed}]]
    BY <1>1 DEF TypeOK, Launch
  <1>3. c \notin linked
    BY DEF TypeOK, Launch, At, Active
  <1>4. QED
    BY <1>2, <1>3, StepType DEF TypeOK, Launch

LEMMA KeyType ==
    ASSUME TypeOK, NEW c \in Cmds, Key(c)
    PROVE  TypeOK'
<1>1. CASE Refresh(c) \/ SyncFiles(c)
  <2>1. /\ [Idle EXCEPT !.step = "list", !.final = TRUE] \in Command
        /\ [Idle EXCEPT !.step = "list", !.op = "sync"] \in Command
    BY IdleType DEF Command
  <2>2. CASE Refresh(c)
    BY <2>1, <2>2, LaunchType DEF Refresh, Idle
  <2>3. CASE SyncFiles(c)
    BY <2>1, <2>3, LaunchType DEF SyncFiles, Idle
  <2>4. QED
    BY <1>1, <2>2, <2>3
<1>2. \A o \in {"upload", "download", "remove", "delete"} : OneFile(o) \in Command
  BY IdleType DEF Command, OneFile
<1>3. ASSUME NEW n \in Names, Upload(c, n) PROVE TypeOK'
  <2>1. ASSUME NEW p \in {"same", "other"},
               Launch(c, [OneFile("upload") EXCEPT !.ups = {n}, !.path = p])
        PROVE  TypeOK'
    <3>1. [OneFile("upload") EXCEPT !.ups = {n}, !.path = p] \in Command
      BY <1>2 DEF Command, Paths
    <3>2. QED
      BY <2>1, <3>1, LaunchType DEF OneFile, Idle
  <2>2. ASSUME NEW v \in Versions,
               Launch(c, [OneFile("upload") EXCEPT !.step = "send", !.cur = n, !.data = v,
                                                   !.path = "outside"])
        PROVE  TypeOK'
    <3>1. v \in Contents /\ v \in LocalStates
      BY DEF Contents, LocalStates
    <3>2. [OneFile("upload") EXCEPT !.step = "send", !.cur = n, !.data = v,
                                    !.path = "outside"] \in Command
      BY <1>2, <3>1 DEF Command, Paths
    <3>3. QED
      BY <2>2, <3>1, <3>2, LaunchType DEF OneFile, Idle
  <2>3. QED
    BY <1>3, <2>1, <2>2 DEF Upload
<1>4. ASSUME NEW n \in Names, Download(c, n) PROVE TypeOK'
  <2>1. [OneFile("download") EXCEPT !.downs = {n}] \in Command
    BY <1>2 DEF Command
  <2>2. QED
    BY <1>4, <2>1, LaunchType DEF Download, OneFile, Idle
<1>5. ASSUME NEW n \in Names, Remove(c, n) PROVE TypeOK'
  <2>1. [OneFile("remove") EXCEPT !.step = "remove", !.cur = n] \in Command
    BY <1>2 DEF Command
  <2>2. QED
    BY <1>5, <2>1, LaunchType DEF Remove, OneFile, Idle
<1>6. ASSUME NEW n \in Names, Delete(c, n) PROVE TypeOK'
  <2>1. [OneFile("delete") EXCEPT !.step = "delete", !.cur = n] \in Command
    BY <1>2 DEF Command
  <2>2. QED
    BY <1>6, <2>1, LaunchType DEF Delete, OneFile, Idle
<1>7. QED
  BY <1>1, <1>3, <1>4, <1>5, <1>6 DEF Key

LEMMA RunType ==
    ASSUME TypeOK, NEW c \in Cmds, Run(c)
    PROVE  TypeOK'
<1> DEFINE r == cmd[c]
           n == cmd[c].cur
<1>a. r \in Command /\ (c \in linked => r.step = "fill")
  BY DEF TypeOK, At
<1>b. /\ r.step \in {"send", "open", "fill", "remove", "delete"} => n \in Names
      /\ r.step \in {"send", "open", "fill"} => r.data \in Contents
  BY DEF TypeOK
<1>c. Ended(r, "err") \in Command /\ Ended(r, "err").step = "msg"
  BY <1>a, EndedType
<1>d. AfterFile(r) \in Command /\ AfterFile(r).step \in {"list", "files"}
  BY <1>a, AfterFileType
<1>e. ASSUME NEW s \in {"list", "send", "open", "fill"}
      PROVE  /\ [r EXCEPT !.step = s] \in Command
             /\ [r EXCEPT !.step = s].step = s
             /\ [r EXCEPT !.step = s].cur = r.cur
             /\ [r EXCEPT !.step = s].data = r.data
  BY <1>a DEF Command
<1> HIDE DEF r, n
<1>1. ASSUME List(c) PROVE TypeOK'
  <2> DEFINE q == [cmd[c] EXCEPT !.step = "scan",
                                 !.seen = {m \in Names : remote[m] # None}]
  <2>1. q \in Command /\ q.step = "scan"
    BY <1>a DEF Command, r
  <2>2. Becomes(c, q) /\ c \notin linked
    BY <1>1, <1>a DEF List, At, r
  <2> HIDE DEF q
  <2>3. QED
    BY <1>1, <2>1, <2>2, StepType DEF List, TypeOK
<1>2. ASSUME Scan(c) PROVE TypeOK'
  <2> DEFINE listed == cmd[c].seen
             q == [cmd[c] EXCEPT !.seen = {}, !.final = TRUE]
  <2>1. q \in Command /\ listed \subseteq Names
    BY <1>a DEF Command, r
  <2>2. [m \in Names |-> StatusOf(m, listed)] \in [Names -> Statuses]
    BY DEF StatusOf, Statuses
  <2>3. [Ended(q, "ok") EXCEPT !.files = [m \in Names |-> StatusOf(m, listed)]] \in Command
    BY <2>1, <2>2, EndedType, FieldType
  <2>4. [Ended(q, "ok") EXCEPT !.files = [m \in Names |-> StatusOf(m, listed)]].step = "msg"
    BY <2>1, EndedType DEF Command
  <2>5. LocalOnly(listed) \in SUBSET Names /\ RemoteOnly(listed) \in SUBSET Names
    BY <2>1 DEF LocalOnly, RemoteOnly, Scanned
  <2>6. /\ WithLeft(q, LocalOnly(listed), RemoteOnly(listed)) \in Command
        /\ WithLeft(q, LocalOnly(listed), RemoteOnly(listed)).step \in {"list", "files"}
    BY <2>1, <2>5, WithLeftType
  <2>7. c \notin linked
    BY <1>2, <1>a DEF Scan, At, r
  <2> HIDE DEF q, listed
  <2>8. CASE Becomes(c, [Ended(q, "ok") EXCEPT !.files = [m \in Names |-> StatusOf(m, listed)]])
    BY <1>2, <2>3, <2>4, <2>7, <2>8, StepType DEF Scan, TypeOK
  <2>9. CASE Becomes(c, WithLeft(q, LocalOnly(listed), RemoteOnly(listed)))
    BY <1>2, <2>6, <2>7, <2>9, StepType DEF Scan, TypeOK
  <2>10. QED
    BY <1>2, <2>8, <2>9 DEF Scan, q, listed
<1>3. ASSUME ReadFile(c) PROVE TypeOK'
  <2>1. PICK m \in r.ups :
          Becomes(c, LET q == [cmd[c] EXCEPT !.cur = m, !.data = local[m]] IN
                     IF Missing(m) THEN Ended(q, "err") ELSE [q EXCEPT !.step = "send"])
    BY <1>3 DEF ReadFile, r
  <2> DEFINE q == [cmd[c] EXCEPT !.cur = m, !.data = local[m]]
  <2>2. m \in Names /\ local[m] \in LocalStates
    BY <1>a, <2>1, FieldType DEF TypeOK
  <2>3. q \in Command /\ q.cur = m /\ q.data = local[m]
    BY <1>a, <2>2 DEF Command, r
  <2>4. /\ [q EXCEPT !.step = "send"] \in Command
        /\ [q EXCEPT !.step = "send"].step = "send"
        /\ [q EXCEPT !.step = "send"].cur = m
        /\ [q EXCEPT !.step = "send"].data = local[m]
    BY <2>3 DEF Command
  <2>5. Ended(q, "err") \in Command /\ Ended(q, "err").step = "msg"
    BY <2>3, EndedType
  <2>6. ~Missing(m) => local[m] \in Contents
    BY <2>2, Constants DEF Missing
  <2>7. c \notin linked
    BY <1>3, <1>a DEF ReadFile, At, r
  <2>8. Becomes(c, IF Missing(m) THEN Ended(q, "err") ELSE [q EXCEPT !.step = "send"])
    BY <2>1
  <2> HIDE DEF q
  <2>9. CASE Missing(m)
    BY <1>3, <2>5, <2>7, <2>8, <2>9, StepType DEF ReadFile, TypeOK
  <2>10. CASE ~Missing(m)
    <3>1. Becomes(c, [q EXCEPT !.step = "send"])
      BY <2>8, <2>10
    <3>2. QED
      BY <1>3, <2>2, <2>4, <2>6, <2>7, <2>10, <3>1, StepType DEF ReadFile, TypeOK
  <2>11. QED
    BY <2>9, <2>10
<1>4. ASSUME SendFile(c) PROVE TypeOK'
  <2>1. c \notin linked /\ n \in Names /\ r.data \in Contents
    BY <1>4, <1>a, <1>b DEF SendFile, At, r
  <2>2. local' \in [Names -> LocalStates] /\ linked' = linked
    BY <1>4 DEF SendFile, TypeOK
  <2>3. CASE remote[n] # None
    BY <1>4, <1>c, <2>1, <2>2, <2>3, StepType DEF SendFile, TypeOK, Fail, r, n
  <2>4. CASE remote[n] = None
    <3>1. remote' \in [Names -> RemoteStates]
      BY <1>4, <2>1, <2>4, Constants DEF SendFile, TypeOK, r, n
    <3>2. was' \in [Cmds -> [Names -> Pairs \cup {Disturbed}]]
      BY <1>4, <2>4, DisturbType DEF SendFile, TypeOK, n
    <3>3. Becomes(c, Sent(r))
      BY <1>4, <2>4 DEF SendFile, r, n
    <3>4. CASE Sent(r) = AfterFile(r)
      BY <1>d, <2>1, <2>2, <3>1, <3>2, <3>3, <3>4, StepType
    <3>5. CASE /\ Sent(r) \in Command /\ Sent(r).step = "open"
               /\ Sent(r).cur = r.cur /\ Sent(r).data = r.data
      BY <2>1, <2>2, <3>1, <3>2, <3>3, <3>5, StepType DEF n, r
    <3>6. QED
      BY <1>a, <3>4, <3>5, SentType
  <2>5. QED
    BY <2>3, <2>4
<1>5. ASSUME Fetch(c) PROVE TypeOK'
  <2>1. PICK m \in r.downs :
          Becomes(c, LET q == [cmd[c] EXCEPT !.cur = m] IN
                     IF remote[m] \in Contents
                       THEN [q EXCEPT !.step = "open", !.data = remote[m]]
                       ELSE FetchFailed(q))
    BY <1>5 DEF Fetch, r
  <2> DEFINE q == [cmd[c] EXCEPT !.cur = m]
             p == [q EXCEPT !.step = "open", !.data = remote[m]]
  <2>2. m \in Names
    BY <1>a, <2>1, FieldType
  <2>3. q \in Command /\ q.cur = m
    BY <1>a, <2>2 DEF Command, r
  <2>4. FetchFailed(q) \in Command /\ FetchFailed(q).step = "msg"
    BY <2>3, EndedType DEF FetchFailed
  <2>5. c \notin linked
    BY <1>5, <1>a DEF Fetch, At, r
  <2>6. Becomes(c, IF remote[m] \in Contents THEN p ELSE FetchFailed(q))
    BY <2>1
  <2>7. CASE remote[m] \in Contents
    <3>1. remote[m] \in LocalStates
      BY <2>7, Constants
    <3>2. p \in Command /\ p.step = "open" /\ p.cur = m /\ p.data = remote[m]
      BY <2>3, <3>1 DEF Command
    <3>3. Becomes(c, p)
      BY <2>6, <2>7
    <3> HIDE DEF p, q
    <3>4. QED
      BY <1>5, <2>2, <2>5, <2>7, <3>2, <3>3, StepType DEF Fetch, TypeOK
  <2>8. CASE remote[m] \notin Contents
    <3>1. Becomes(c, FetchFailed(q))
      BY <2>6, <2>8
    <3> HIDE DEF q
    <3>2. QED
      BY <1>5, <2>4, <2>5, <3>1, StepType DEF Fetch, TypeOK
  <2>9. QED
    BY <2>7, <2>8
<1>6. ASSUME OpenLocal(c) PROVE TypeOK'
  <2>1. n \in Names /\ r.data \in Contents
    BY <1>6, <1>b DEF OpenLocal, At, r
  <2>2. local' \in [Names -> LocalStates]
    BY <1>6, <2>1, Constants DEF OpenLocal, TypeOK, n
  <2>3. was' \in [Cmds -> [Names -> Pairs \cup {Disturbed}]]
    BY <1>6, DisturbType DEF OpenLocal, TypeOK
  <2>4. CASE Fail(c)
    <3>1. c \notin linked
      BY <1>6, <1>a DEF OpenLocal, At, r
    <3>2. linked' = linked \/ linked' = linked \cup {c}
      BY <1>6 DEF OpenLocal
    <3>3. cmd' = [cmd EXCEPT ![c] = Ended(cmd[c], "err")]
      BY <2>4 DEF Fail, Becomes
    <3>4. linked' = linked
      <4>1. Becomes(c, [cmd[c] EXCEPT !.step = "fill"]) => cmd'[c].step = "fill"
        BY <1>e DEF Becomes, TypeOK, r
      <4>2. cmd'[c].step = "msg"
        BY <1>c, <3>3 DEF TypeOK, r
      <4>3. QED
        BY <1>6, <4>1, <4>2 DEF OpenLocal
    <3>5. QED
      BY <1>6, <1>c, <2>2, <2>3, <2>4, <3>1, <3>4, StepType DEF OpenLocal, TypeOK, Fail, r
  <2>5. CASE ~Fail(c)
    BY <1>6, <1>e, <2>1, <2>2, <2>3, <2>5, StepType DEF OpenLocal, TypeOK, r, n
  <2>6. QED
    BY <2>4, <2>5
<1>7. ASSUME FillLocal(c) PROVE TypeOK'
  <2>1. n \in Names /\ r.data \in Contents
    BY <1>7, <1>b DEF FillLocal, At, r
  <2>2. Filled(c) \subseteq LocalStates
    BY <2>1, Constants DEF Filled, TypeOK, r, n
  <2>3. local' \in [Names -> LocalStates]
    BY <1>7, <2>1, <2>2 DEF FillLocal, TypeOK, n
  <2>4. was' \in [Cmds -> [Names -> Pairs \cup {Disturbed}]]
    BY <1>7, DisturbType DEF FillLocal, TypeOK
  <2>5. QED
    BY <1>7, <1>d, <2>1, <2>3, <2>4, StepType DEF FillLocal, TypeOK, r, n
<1>8. ASSUME RemoveRemote(c) PROVE TypeOK'
  <2>1. c \notin linked /\ n \in Names
    BY <1>8, <1>a, <1>b DEF RemoveRemote, At, r
  <2>2. CASE remote[n] = None
    BY <1>8, <1>c, <2>1, <2>2, StepType DEF RemoveRemote, TypeOK, Fail, r, n
  <2>3. CASE remote[n] # None
    <3>1. remote' \in [Names -> RemoteStates]
      BY <1>8, <2>1, <2>3, Constants DEF RemoveRemote, TypeOK, n
    <3>2. was' \in [Cmds -> [Names -> Pairs \cup {Disturbed}]]
      BY <1>8, <2>3, DisturbType DEF RemoveRemote, TypeOK, n
    <3>3. QED
      BY <1>8, <1>e, <2>1, <2>3, <3>1, <3>2, StepType DEF RemoveRemote, TypeOK, r, n
  <2>4. QED
    BY <2>2, <2>3
<1>9. ASSUME DeleteLocal(c) PROVE TypeOK'
  <2>1. c \notin linked /\ n \in Names
    BY <1>9, <1>a, <1>b DEF DeleteLocal, At, r
  <2>2. CASE local[n] = None
    BY <1>9, <1>c, <2>1, <2>2, StepType DEF DeleteLocal, TypeOK, Fail, r, n
  <2>3. CASE local[n] # None
    <3>1. local' \in [Names -> LocalStates] /\ linked' \subseteq linked
      BY <1>9, <2>1, <2>3, Constants DEF DeleteLocal, Unlink, TypeOK, n
    <3>2. was' \in [Cmds -> [Names -> Pairs \cup {Disturbed}]]
      BY <1>9, <2>3, DisturbType DEF DeleteLocal, TypeOK, n
    <3>3. QED
      BY <1>9, <1>e, <2>1, <2>3, <3>1, <3>2, StepType DEF DeleteLocal, TypeOK, r, n
  <2>4. QED
    BY <2>2, <2>3
<1>10. ASSUME Fails(c) PROVE TypeOK'
  <2>1. linked' = linked \ {c} /\ local' \in [Names -> LocalStates]
    BY <1>10 DEF Fails, TypeOK
  <2>2. was' \in [Cmds -> [Names -> Pairs \cup {Disturbed}]]
    BY <1>10, DisturbType DEF Fails, TypeOK
  <2>3. LeftRemote(r) \subseteq RemoteStates
    BY <1>b, Constants DEF LeftRemote
  <2>4. remote' \in [Names -> RemoteStates]
    BY <1>10, <2>3 DEF Fails, TypeOK, r, n
  <2>5. QED
    BY <1>10, <1>c, <2>1, <2>2, <2>4, StepType DEF Fails, Fail, r
<1>11. QED
  BY <1>1, <1>2, <1>3, <1>4, <1>5, <1>6, <1>7, <1>8, <1>9, <1>10 DEF Run

LEMMA TypeStep == TypeOK /\ [Next]_vars => TypeOK'
<1> SUFFICES ASSUME TypeOK, [Next]_vars PROVE TypeOK'
  OBVIOUS
<1>1. ASSUME NEW c \in Cmds, Deliver(c) PROVE TypeOK'
  <2>1. was' \in [Cmds -> [Names -> Pairs \cup {Disturbed}]]
    BY <1>1 DEF Deliver, Unknown, TypeOK
  <2>2. c \notin linked /\ Idle.step = "idle"
    BY <1>1 DEF Deliver, TypeOK, At, Idle
  <2>3. QED
    BY <1>1, <2>1, <2>2, IdleType, StepType DEF Deliver, TypeOK
<1>2. ASSUME NEW c \in Cmds, UserSavesSource(c) PROVE TypeOK'
  <2>1. PICK v \in Versions : Becomes(c, [cmd[c] EXCEPT !.data = v])
    BY <1>2 DEF UserSavesSource
  <2>2. v \in Contents /\ v \in LocalStates /\ cmd[c] \in Command
    BY DEF Contents, LocalStates, TypeOK
  <2>3. /\ [cmd[c] EXCEPT !.data = v] \in Command
        /\ [cmd[c] EXCEPT !.data = v].step = "open"
        /\ [cmd[c] EXCEPT !.data = v].cur = cmd[c].cur
        /\ [cmd[c] EXCEPT !.data = v].data = v
    BY <1>2, <2>2 DEF UserSavesSource, At, Command
  <2>4. c \notin linked /\ cmd[c].cur \in Names
    BY <1>2 DEF UserSavesSource, TypeOK, At
  <2>5. was' \in [Cmds -> [Names -> Pairs \cup {Disturbed}]]
    BY <1>2, DisturbType DEF UserSavesSource, TypeOK
  <2>6. QED
    BY <1>2, <2>1, <2>2, <2>3, <2>4, <2>5, StepType DEF UserSavesSource, TypeOK
<1>3. ASSUME NEW n \in Names, OtherClient(n) PROVE TypeOK'
  BY <1>3, DisturbType, Constants DEF OtherClient, TypeOK, Contents, At
<1>4. ASSUME NEW n \in Names, UserSaves(n) PROVE TypeOK'
  BY <1>4, DisturbType, Constants DEF UserSaves, TypeOK, At
<1>5. ASSUME NEW n \in Names, UserDeletes(n) PROVE TypeOK'
  BY <1>5, DisturbType, Constants DEF UserDeletes, Unlink, TypeOK, At
<1>6. CASE Crash
  BY <1>6, IdleType DEF Crash, Unknown, TypeOK, At, Idle
<1>7. CASE UNCHANGED vars
  BY <1>7 DEF vars, TypeOK, At
<1>8. QED
  BY <1>1, <1>2, <1>3, <1>4, <1>5, <1>6, <1>7, KeyType, RunType DEF Next

(* Every variable keeps its type, and a step that needs a file or its bytes has
   them. *)
THEOREM TypeCorrect == Spec => []TypeOK
<1>1. Init => TypeOK
  BY Constants, IdleType DEF Init, TypeOK, Unknown, At, Idle
<1>2. QED
  BY <1>1, TypeStep, PTL DEF Spec

(***************************************************************************)
(* What a command has done so far to a file that nobody else has changed.  *)
(* SyncFiles: nothing before its first listing; after it, a file it does   *)
(* not have to carry any more is on both sides, one it still has to carry   *)
(* is on one side only, and the one in hand is on its way.                 *)
(***************************************************************************)
OnTheWay(c, n) ==
    LET r == cmd[c] f == was[c][n] IN
    /\ n \in r.ups =>
        /\ f.local # None /\ f.remote = None /\ local[n] = f.local
        /\ n # r.cur \/ r.step # "msg" => remote[n] = None
        /\ n = r.cur /\ r.step = "send" => r.data = f.local
    /\ n \in r.downs =>
        /\ f.local = None /\ f.remote # None /\ remote[n] = f.remote
        /\ n # r.cur \/ r.step \notin {"fill", "msg"} => local[n] = None
        /\ n = r.cur /\ r.step \in {"open", "fill"} => r.data = f.remote
        /\ n = r.cur /\ r.step = "fill" => c \in linked /\ local[n] = Torn

SyncProgress(c, n) ==
    LET r == cmd[c] f == was[c][n] IN
    r.op = "sync" =>
        /\ ~r.final => Both(n) = f
        /\ r.final => /\ OnTheWay(c, n)
                      /\ n \notin r.ups \cup r.downs => Both(n) = Merged(f)

(* The commands for one file: the others are as they were, and the one in hand
   is on its way. *)
FileProgress(c, n) ==
    LET r == cmd[c] f == was[c][n] IN
    r.op # "sync" =>
        /\ n # r.cur => Both(n) = f
        /\ n = r.cur =>
            /\ r.step \in {"send", "remove", "delete"} => Both(n) = f
            /\ r.step = "send" /\ r.path # "outside" => r.data = f.local
            /\ r.step \in {"open", "fill"} =>
                /\ r.op = "upload" => f.remote = None /\ remote[n] = r.data
                /\ r.op = "upload" /\ r.path # "outside" => r.data = f.local
                /\ r.op = "download" => remote[n] = f.remote /\ r.data = f.remote
            /\ r.step = "fill" => c \in linked /\ local[n] = Torn
            /\ r.step \in {"list", "scan"} \/ Answered(c) => Done(r, n, f)

(* What the server has listed is still so, and so is what is shown. *)
SeenTrue(c, n) ==
    LET r == cmd[c] IN
    /\ r.step = "scan" => (n \in r.seen <=> remote[n] # None)
    /\ Answered(c) =>
        /\ r.files[n] \in {"synced", "local_only"} <=> local[n] # None
        /\ r.files[n] \in {"synced", "remote_only"} <=> remote[n] # None

(* Where a command can be with the files it has yet to carry. *)
Shape(r) ==
    /\ r.ups \cap r.downs = {}
    /\ r.step \in {"list", "scan"} \/ (r.step = "msg" /\ r.result = "ok")
         => r.ups = {} /\ r.downs = {}
    /\ ~r.final => r.op = "sync" /\ r.step \in {"idle", "list", "scan", "msg"}
                             /\ r.ups = {} /\ r.downs = {} /\ r.cur = None
    /\ r.step = "msg" /\ r.result = "ok" => r.final
    /\ r.op # "upload" => r.path = "same"
    /\ r.step = "files" => r.path # "outside"
    /\ r.step = "files" => r.op \in {"sync", "upload", "download"}
    /\ r.step = "files" /\ r.op # "sync" => r.cur = None
    /\ r.step = "send" => r.op \in {"sync", "upload"}
    /\ r.step = "send" /\ r.op = "sync" => r.cur \in r.ups
    /\ r.step \in {"open", "fill"} => r.op \in {"sync", "upload", "download"}
    /\ r.step \in {"open", "fill"} /\ r.op = "sync" => r.cur \in r.downs
    /\ r.step \in {"remove"} => r.op = "remove"
    /\ r.step \in {"delete"} => r.op = "delete"
    /\ r.op \notin {"sync"} /\ r.step \in {"open", "fill"} => r.ups = {}
    /\ r.op = "upload" => r.downs = {}
    /\ r.op = "download" => r.ups = {}
    /\ r.op \in {"refresh", "remove", "delete"} => r.ups = {} /\ r.downs = {}
    /\ r.op \in {"upload", "download"} => \A a, b \in r.ups \cup r.downs : a = b
    /\ r.op \in {"upload", "download"} /\ r.step \in {"send", "open", "fill"}
         => r.ups \cup r.downs \subseteq {r.cur}
    /\ r.op = "refresh" => r.cur = None

Good(c) ==
    Active(c) =>
        /\ Shape(cmd[c])
        /\ \A n \in Untouched(c) :
            SyncProgress(c, n) /\ FileProgress(c, n) /\ SeenTrue(c, n)

Inv == \A c \in Cmds : Good(c)

(***************************************************************************)
(* A step that is not the command's own leaves what it has done to the     *)
(* files that nobody else has changed.                                     *)
(***************************************************************************)
Stays(c, n) ==
    /\ cmd'[c] = cmd[c] /\ was'[c][n] = was[c][n]
    /\ local'[n] = local[n] /\ remote'[n] = remote[n]
    /\ c \in linked /\ cmd[c].cur = n => c \in linked'

LEMMA StaysGood ==
    ASSUME NEW c \in Cmds, Good(c), cmd'[c] = cmd[c],
           \A n \in Names : was'[c][n] # Disturbed => Stays(c, n)
    PROVE  Good(c)'
<1> SUFFICES ASSUME Active(c)' PROVE (Shape(cmd[c]) /\ \A n \in Untouched(c) :
                SyncProgress(c, n) /\ FileProgress(c, n) /\ SeenTrue(c, n))'
  BY DEF Good
<1>1. Active(c) /\ Shape(cmd[c])
  BY DEF Active, Good
<1>2. Shape(cmd[c])'
  BY <1>1 DEF Shape
<1>3. ASSUME NEW n \in Untouched(c)'
      PROVE  SyncProgress(c, n)' /\ FileProgress(c, n)' /\ SeenTrue(c, n)'
  <2>1. n \in Names /\ Stays(c, n)
    BY <1>3 DEF Untouched
  <2>2. n \in Untouched(c)
    BY <1>3, <2>1 DEF Untouched, Stays
  <2>3. SyncProgress(c, n) /\ FileProgress(c, n) /\ SeenTrue(c, n)
    BY <1>1, <2>2 DEF Good
  <2>4. Both(n)' = Both(n)
    BY <2>1 DEF Both, Stays
  <2>5. Answered(c)' <=> Answered(c)
    BY <2>1 DEF Stays, Answered, At
  <2>6. SyncProgress(c, n)'
    BY <2>1, <2>3, <2>4 DEF SyncProgress, OnTheWay, Stays
  <2>7. Done(cmd[c], n, was[c][n])' <=> Done(cmd[c], n, was[c][n])
    BY <2>1 DEF Done, Stays
  <2>8. FileProgress(c, n)'
    BY <2>1, <2>3, <2>4, <2>5, <2>7 DEF FileProgress, Stays
  <2>9. SeenTrue(c, n)'
    BY <2>1, <2>3, <2>5 DEF SeenTrue, Stays
  <2>10. QED
    BY <2>6, <2>8, <2>9
<1>4. QED
  BY <1>2, <1>3

LEMMA QuietGood ==
    ASSUME NEW c \in Cmds, Good(c), cmd'[c] = cmd[c], was'[c] = was[c],
           UNCHANGED <<local, remote>>, c \in linked => c \in linked'
    PROVE  Good(c)'
  BY StaysGood DEF Stays

LEMMA DisturbedGood ==
    ASSUME TypeOK, NEW n \in Names, NEW D, NEW c \in Cmds \cap D, Good(c),
           Disturb(n, D), cmd'[c] = cmd[c],
           \A m \in Names \ {n} : local'[m] = local[m] /\ remote'[m] = remote[m],
           c \in linked /\ cmd[c].cur # n => c \in linked'
    PROVE  Good(c)'
<1>1. \A m \in Names : was'[c][m] = IF m = n THEN Disturbed ELSE was[c][m]
  BY DEF Disturb, TypeOK
<1>2. \A m \in Names : was'[c][m] # Disturbed => Stays(c, m)
  BY <1>1 DEF Stays
<1>3. QED
  BY <1>2, StaysGood

(***************************************************************************)
(* The steps of the command itself.                                        *)
(***************************************************************************)
LEMMA ListGood ==
    ASSUME TypeOK, NEW c \in Cmds, Good(c), List(c)
    PROVE  Good(c)'
<1> DEFINE r == cmd[c]
           q == [cmd[c] EXCEPT !.step = "scan", !.seen = {n \in Names : remote[n] # None}]
<1>1. /\ q.step = "scan" /\ q.seen = {n \in Names : remote[n] # None}
      /\ q.op = r.op /\ q.path = r.path /\ q.final = r.final /\ q.ups = r.ups /\ q.downs = r.downs
      /\ q.cur = r.cur /\ q.data = r.data
  BY DEF TypeOK, Command
<1>2. cmd'[c] = q /\ r.step = "list"
  BY DEF List, Becomes, TypeOK, At
<1> HIDE DEF r, q
<1>3. Shape(r) /\ Active(c)
  BY <1>2 DEF Good, Active, r
<1>4. Shape(q)
  BY <1>1, <1>2, <1>3 DEF Shape
<1>5. ASSUME NEW n \in Untouched(c)'
      PROVE  SyncProgress(c, n)' /\ FileProgress(c, n)' /\ SeenTrue(c, n)'
  <2>1. n \in Untouched(c) /\ n \in Names
    BY DEF Untouched, List
  <2>2. SyncProgress(c, n) /\ FileProgress(c, n)
    BY <1>3, <2>1 DEF Good
  <2>3. Both(n)' = Both(n) /\ was' = was /\ local' = local /\ remote' = remote
    BY DEF List, Both
  <2>4. r.ups = {} /\ r.downs = {}
    BY <1>2, <1>3 DEF Shape
  <2>5. SyncProgress(c, n)'
    BY <1>1, <1>2, <2>2, <2>3, <2>4 DEF SyncProgress, OnTheWay, r
  <2>6. Done(cmd[c], n, was[c][n])' <=> Done(cmd[c], n, was[c][n])
    BY <1>1, <1>2, <2>3 DEF Done, r
  <2>7. FileProgress(c, n)'
    BY <1>1, <1>2, <2>2, <2>3, <2>6 DEF FileProgress, Answered, At, r
  <2>8. SeenTrue(c, n)'
    BY <1>1, <1>2, <2>1, <2>3 DEF SeenTrue, Answered, At
  <2>9. QED
    BY <2>5, <2>7, <2>8
<1>6. QED
  BY <1>2, <1>4, <1>5 DEF Good

LEMMA ScanGood ==
    ASSUME TypeOK, NEW c \in Cmds, Good(c), Scan(c)
    PROVE  Good(c)'
<1> DEFINE r == cmd[c]
           listed == cmd[c].seen
           q == [cmd[c] EXCEPT !.seen = {}, !.final = TRUE]
           shown == [n \in Names |-> StatusOf(n, listed)]
           p == [Ended(q, "ok") EXCEPT !.files = shown]
           w == WithLeft(q, LocalOnly(listed), RemoteOnly(listed))
<1>1. r \in Command /\ r.step = "scan" /\ Active(c) /\ c \in Cmds
  BY DEF TypeOK, Scan, At, Active
<1>2. Shape(r)
  BY <1>1 DEF Good
<1>3. /\ p.step = "msg" /\ p.result = "ok" /\ p.files = shown /\ p.final = TRUE
      /\ p.op = r.op /\ p.path = r.path /\ p.ups = r.ups /\ p.downs = r.downs /\ p.cur = r.cur
  BY <1>1 DEF Command, Ended
<1>4. /\ w.ups = LocalOnly(listed) /\ w.downs = RemoteOnly(listed) /\ w.final = TRUE
      /\ w.op = r.op /\ w.path = r.path /\ w.cur = r.cur /\ w.step \in {"list", "files"}
      /\ w.step = "list" => w.ups = {} /\ w.downs = {}
  BY <1>1 DEF Command, WithLeft
<1>5. cmd'[c] = p \/ (cmd'[c] = w /\ ~r.final)
  BY DEF Scan, Becomes, TypeOK
<1>6. r.final \/ cmd'[c] = w
  BY DEF Scan, Becomes, TypeOK
<1>7. UNCHANGED <<local, remote, linked, was>> /\ r.ups = {} /\ r.downs = {}
  BY <1>1, <1>2 DEF Scan, Shape
<1> HIDE DEF q, p, w, shown
<1>8. ASSUME NEW n \in Untouched(c)'
      PROVE  /\ n \in Names /\ Both(n)' = Both(n)
             /\ SyncProgress(c, n) /\ FileProgress(c, n)
             /\ n \in listed <=> remote[n] # None
  <2>1. n \in Untouched(c) /\ n \in Names
    BY <1>7 DEF Untouched
  <2>2. SyncProgress(c, n) /\ FileProgress(c, n) /\ SeenTrue(c, n)
    BY <1>1, <2>1 DEF Good
  <2>3. QED
    BY <1>1, <1>7, <2>1, <2>2 DEF SeenTrue, Both
<1>9. CASE cmd'[c] = p /\ r.final
  <2>1. Shape(p)
    BY <1>1, <1>2, <1>3, <1>7, <1>9 DEF Shape
  <2>2. ASSUME NEW n \in Untouched(c)'
        PROVE  SyncProgress(c, n)' /\ FileProgress(c, n)' /\ SeenTrue(c, n)'
    <3>1. SyncProgress(c, n)'
      BY <1>1, <1>3, <1>7, <1>8, <1>9 DEF SyncProgress, OnTheWay
    <3>2. Done(cmd[c], n, was[c][n]) => Done(cmd[c], n, was[c][n])'
      BY <1>3, <1>7, <1>9 DEF Done
    <3>3. FileProgress(c, n)'
      BY <1>1, <1>3, <1>7, <1>8, <1>9, <3>2 DEF FileProgress, Answered, At
    <3>4. p.files[n] = StatusOf(n, listed)
      BY <1>3, <1>8 DEF shown
    <3>5. SeenTrue(c, n)'
      BY <1>3, <1>7, <1>8, <1>9, <3>4 DEF SeenTrue, StatusOf, Scanned
    <3>6. QED
      BY <3>1, <3>3, <3>5
  <2>3. QED
    BY <1>9, <2>1, <2>2 DEF Good
<1>10. CASE cmd'[c] = w /\ ~r.final
  <2>1. r.op = "sync" /\ r.cur = None
    BY <1>2, <1>10 DEF Shape
  <2>2. Shape(w)
    BY <1>2, <1>4, <2>1 DEF Shape, LocalOnly, RemoteOnly
  <2>3. ASSUME NEW n \in Untouched(c)'
        PROVE  SyncProgress(c, n)' /\ FileProgress(c, n)' /\ SeenTrue(c, n)'
    <3>1. Both(n) = was[c][n] /\ n # None
      BY <1>8, <1>10, <2>1, Constants DEF SyncProgress
    <3>2. /\ local[n] = was[c][n].local /\ remote[n] = was[c][n].remote
      BY <3>1 DEF Both
    <3>3. /\ n \in w.ups <=> local[n] # None /\ remote[n] = None
          /\ n \in w.downs <=> local[n] = None /\ remote[n] # None
      BY <1>4, <1>8 DEF LocalOnly, RemoteOnly, Scanned
    <3>4. n \notin w.ups \cup w.downs => Both(n) = Merged(was[c][n])
      BY <3>2, <3>3 DEF Both, Merged
    <3>5. SyncProgress(c, n)'
      BY <1>4, <1>7, <1>8, <1>10, <2>1, <3>1, <3>2, <3>3, <3>4 DEF SyncProgress, OnTheWay
    <3>6. FileProgress(c, n)' /\ SeenTrue(c, n)'
      BY <1>4, <1>10, <2>1 DEF FileProgress, SeenTrue, Answered, At
    <3>7. QED
      BY <3>5, <3>6
  <2>4. QED
    BY <1>10, <2>2, <2>3 DEF Good
<1>11. QED
  BY <1>5, <1>6, <1>9, <1>10

(* A command that ends with an error, at whatever step. *)
LEMMA ErrGood ==
    ASSUME TypeOK, NEW c \in Cmds, Good(c), NEW q,
           cmd[c].step \notin {"idle", "msg"}, cmd'[c] = q,
           q.step = "msg", q.result = "err", q.op = cmd[c].op, q.path = cmd[c].path, q.final = cmd[c].final,
           q.ups = cmd[c].ups, q.downs = cmd[c].downs,
           q.cur = cmd[c].cur \/ cmd[c].step = "files",
           local' = local, was'[c] = was[c],
           \A m \in Names : \/ remote'[m] = remote[m]
                            \/ /\ cmd[c].step \in {"send", "remove"}
                               /\ m = cmd[c].cur
    PROVE  Good(c)'
<1> DEFINE r == cmd[c]
<1>1. Shape(r) /\ Active(c)
  BY DEF Good, Active
<1>2. Shape(q)
  BY <1>1 DEF Shape
<1>3. ASSUME NEW n \in Untouched(c)'
      PROVE  SyncProgress(c, n)' /\ FileProgress(c, n)' /\ SeenTrue(c, n)'
  <2>1. n \in Untouched(c) /\ n \in Names
    BY DEF Untouched
  <2>2. SyncProgress(c, n) /\ FileProgress(c, n)
    BY <1>1, <2>1 DEF Good
  <2>3. n # r.cur => Both(n)' = Both(n)
    BY <2>1 DEF Both
  <2>4. r.step \notin {"send", "remove"} => Both(n)' = Both(n)
    BY <2>1 DEF Both
  <2>5. SyncProgress(c, n)'
    <3>1. CASE r.op # "sync"
      BY <3>1 DEF SyncProgress
    <3>2. CASE r.op = "sync" /\ ~r.final
      BY <1>1, <2>2, <2>4, <3>2 DEF SyncProgress, Shape
    <3>3. CASE r.op = "sync" /\ r.final
      <4>1. OnTheWay(c, n) /\ (n \notin r.ups \cup r.downs => Both(n) = Merged(was[c][n]))
        BY <2>2, <3>3 DEF SyncProgress
      <4>2. r.step \in {"send", "remove"} /\ n = r.cur => n \in r.ups /\ n \notin r.downs
        BY <1>1, <3>3 DEF Shape
      <4>3. OnTheWay(c, n)'
        BY <2>1, <4>1, <4>2 DEF OnTheWay
      <4>4. n \notin q.ups \cup q.downs => Both(n)' = Merged(was[c][n])
        BY <2>3, <2>4, <4>1, <4>2
      <4>5. QED
        BY <3>3, <4>3, <4>4 DEF SyncProgress
    <3>4. QED
      BY <3>1, <3>2, <3>3
  <2>6. FileProgress(c, n)'
    <3>1. r.op # "sync" /\ n # q.cur => n # r.cur
      BY <1>1, <2>1, Constants DEF Shape
    <3>2. QED
      BY <2>2, <2>3, <3>1 DEF FileProgress, Answered, At
  <2>7. SeenTrue(c, n)'
    BY DEF SeenTrue, Answered, At
  <2>8. QED
    BY <2>5, <2>6, <2>7
<1>4. QED
  BY <1>2, <1>3 DEF Good

LEMMA EndedFields ==
    ASSUME NEW r \in Command, NEW q, q = Ended(r, "err")
    PROVE  /\ q.step = "msg" /\ q.result = "err" /\ q.op = r.op /\ q.path = r.path /\ q.final = r.final
           /\ q.ups = r.ups /\ q.downs = r.downs /\ q.cur = r.cur
  BY DEF Ended, Command

LEMMA FailsGood ==
    ASSUME TypeOK, NEW c \in Cmds, Good(c), Fails(c)
    PROVE  Good(c)'
<1>1. cmd[c] \in Command /\ cmd[c].step \notin {"idle", "msg"}
  BY DEF TypeOK, Fails
<1>2. cmd'[c] = Ended(cmd[c], "err") /\ local' = local
  BY DEF Fails, Fail, Becomes, TypeOK
<1>3. was'[c] = was[c]
  BY DEF Fails, Disturb, TypeOK
<1>4. \A m \in Names : remote'[m] = remote[m]
         \/ (cmd[c].step \in {"send", "remove"} /\ m = cmd[c].cur)
  BY DEF Fails, LeftRemote, TypeOK
<1>5. QED
  BY <1>1, <1>2, <1>3, <1>4, EndedFields, ErrGood

LEMMA ReadFileGood ==
    ASSUME TypeOK, NEW c \in Cmds, Good(c), ReadFile(c)
    PROVE  Good(c)'
<1> DEFINE r == cmd[c]
<1>1. PICK m \in r.ups :
        Becomes(c, LET q == [cmd[c] EXCEPT !.cur = m, !.data = local[m]] IN
                   IF Missing(m) THEN Ended(q, "err") ELSE [q EXCEPT !.step = "send"])
  BY DEF ReadFile
<1> DEFINE q == [cmd[c] EXCEPT !.cur = m, !.data = local[m]]
           p == [q EXCEPT !.step = "send"]
<1>2. r \in Command /\ r.step = "files" /\ m \in Names /\ Active(c)
  BY <1>1, FieldType DEF TypeOK, ReadFile, At, Active
<1>3. Shape(r)
  BY <1>2 DEF Good
<1>4. /\ q \in Command /\ q.cur = m /\ q.op = r.op /\ q.path = r.path /\ q.final = r.final
      /\ q.ups = r.ups /\ q.downs = r.downs
  <2>1. local[m] \in LocalStates
    BY <1>2 DEF TypeOK
  <2>2. QED
    BY <1>2, <2>1 DEF Command
<1>5. /\ p.step = "send" /\ p.data = local[m] /\ p.cur = m /\ p.op = r.op /\ p.path = r.path
      /\ p.final = r.final /\ p.ups = r.ups /\ p.downs = r.downs
  BY <1>2 DEF Command
<1>6. cmd'[c] = IF Missing(m) THEN Ended(q, "err") ELSE p
  BY <1>1 DEF Becomes, TypeOK
<1> HIDE DEF q, p
<1>7. UNCHANGED <<local, remote, linked, was>>
  BY DEF ReadFile
<1>8. CASE Missing(m)
  BY <1>2, <1>4, <1>6, <1>7, <1>8, EndedFields, ErrGood
<1>9. CASE ~Missing(m)
  <2>1. cmd'[c] = p
    BY <1>6, <1>9
  <2>2. Shape(p)
    BY <1>2, <1>3, <1>5 DEF Shape
  <2>3. ASSUME NEW n \in Untouched(c)'
        PROVE  SyncProgress(c, n)' /\ FileProgress(c, n)' /\ SeenTrue(c, n)'
    <3>1. n \in Untouched(c) /\ n \in Names /\ Both(n)' = Both(n)
      BY <1>7 DEF Untouched, Both
    <3>2. SyncProgress(c, n) /\ FileProgress(c, n)
      BY <1>2, <3>1 DEF Good
    <3>3. SyncProgress(c, n)'
      BY <1>2, <1>5, <1>7, <2>1, <3>1, <3>2 DEF SyncProgress, OnTheWay
    <3>4. r.op # "sync" => Both(n) = was[c][n]
      BY <1>2, <1>3, <3>1, <3>2, Constants DEF FileProgress, Shape
    <3>5. r.op # "sync" => local[n] = was[c][n].local
      BY <3>4 DEF Both
    <3>6. FileProgress(c, n)' /\ SeenTrue(c, n)'
      BY <1>5, <1>7, <2>1, <3>1, <3>4, <3>5 DEF FileProgress, SeenTrue, Answered, At
    <3>7. QED
      BY <3>3, <3>6
  <2>4. QED
    BY <2>1, <2>2, <2>3 DEF Good
<1>10. QED
  BY <1>8, <1>9

(* A file has been carried: the loop goes on. *)
LEMMA AfterFileFields ==
    ASSUME NEW r \in Command, NEW q, q = AfterFile(r)
    PROVE  /\ q.ups = r.ups \ {r.cur} /\ q.downs = r.downs \ {r.cur}
           /\ q.op = r.op /\ q.path = r.path /\ q.final = r.final /\ q.cur = r.cur
           /\ q.step = IF q.ups \cup q.downs = {} THEN "list" ELSE "files"
  BY DEF AfterFile, Rest, WithLeft, Command

LEMMA AfterFileGood ==
    ASSUME TypeOK, NEW c \in Cmds, Good(c), cmd[c].step \in {"send", "fill"},
           cmd'[c] = AfterFile(cmd[c]), was'[c] = was[c],
           NEW i \in Names, NEW o, NEW f,
           i = cmd[c].cur, o = cmd[c].op, f = was[c][i],
           \A m \in Names \ {i} : Both(m)' = Both(m),
           i \in Untouched(c) =>
               IF o = "sync" THEN Both(i)' = Merged(f) ELSE Done(cmd[c], i, f)'
    PROVE  Good(c)'
<1> DEFINE r == cmd[c]
           q == AfterFile(r)
<1>1. r \in Command /\ Active(c) /\ r.cur = i
  BY DEF TypeOK, Active
<1>2. Shape(r)
  BY <1>1 DEF Good
<1>3. /\ q.ups = r.ups \ {r.cur} /\ q.downs = r.downs \ {r.cur}
      /\ q.op = r.op /\ q.path = r.path /\ q.final = r.final /\ q.cur = r.cur
      /\ q.step = IF q.ups \cup q.downs = {} THEN "list" ELSE "files"
  BY <1>1, AfterFileFields
<1> HIDE DEF q
<1>4. r.final = TRUE
  BY <1>1, <1>2 DEF Shape, Command
<1>5. Shape(q)
  BY <1>2, <1>3, <1>4 DEF Shape
<1>6. ASSUME NEW n \in Untouched(c)'
      PROVE  SyncProgress(c, n)' /\ FileProgress(c, n)' /\ SeenTrue(c, n)'
  <2>1. n \in Untouched(c) /\ n \in Names
    BY DEF Untouched
  <2>2. SyncProgress(c, n) /\ FileProgress(c, n)
    BY <1>1, <2>1 DEF Good
  <2>3. SeenTrue(c, n)'
    BY <1>3 DEF SeenTrue, Answered, At, q
  <2>4. CASE n = r.cur
    <3>1. n \notin q.ups /\ n \notin q.downs
      BY <1>3, <2>4
    <3>2. SyncProgress(c, n)'
      BY <1>3, <1>4, <2>1, <2>4, <3>1 DEF SyncProgress, OnTheWay, q
    <3>3. o # "sync" => Done(cmd[c], n, f)'
      BY <1>1, <2>1, <2>4
    <3>4. cmd'[c].op = o /\ was'[c][n] = f
      BY <1>1, <1>3, <2>4 DEF q
    <3>5. o # "sync" => Done(cmd[c], n, was[c][n])'
      BY <3>3, <3>4 DEF Done
    <3>6. FileProgress(c, n)'
      BY <1>1, <1>3, <2>1, <2>4, <3>4, <3>5 DEF FileProgress, Answered, At, q
    <3>7. QED
      BY <2>3, <3>2, <3>6
  <2>5. CASE n # r.cur
    <3>1. Both(n)' = Both(n)
      BY <1>1, <2>1, <2>5
    <3>2. local'[n] = local[n] /\ remote'[n] = remote[n]
      BY <3>1 DEF Both
    <3>3. SyncProgress(c, n)'
      BY <1>3, <1>4, <2>2, <2>5, <3>1, <3>2 DEF SyncProgress, OnTheWay, q
    <3>4. FileProgress(c, n)'
      BY <1>3, <2>2, <2>5, <3>1 DEF FileProgress, q
    <3>5. QED
      BY <2>3, <3>3, <3>4
  <2>6. QED
    BY <2>4, <2>5
<1>7. QED
  BY <1>5, <1>6 DEF Good, q

(* The file in hand is sent, and stays as it is on this side. *)
LEMMA SendFileGood ==
    ASSUME TypeOK, NEW c \in Cmds, Good(c), SendFile(c),
           NEW n, NEW o, NEW f, n = cmd[c].cur, o = cmd[c].op, f = was[c][n]
    PROVE  Good(c)'
<1> DEFINE r == cmd[c]
           q == Sent(r)
<1>1. /\ r \in Command /\ r.step = "send" /\ Active(c) /\ n \in Names
      /\ r.data \in Contents /\ r.op = o /\ r.cur = n
  BY DEF TypeOK, SendFile, At, Active
<1>2. Shape(r)
  BY <1>1 DEF Good
<1>3. CASE remote[n] # None
  <2>1. cmd'[c] = Ended(r, "err") /\ UNCHANGED <<local, remote, was>>
    BY <1>3 DEF SendFile, Fail, Becomes, TypeOK
  <2>2. QED
    BY <1>1, <2>1, EndedFields, ErrGood
<1>4. CASE remote[n] = None
  <2>1. /\ remote' = [remote EXCEPT ![n] = r.data] /\ local' = local
        /\ Becomes(c, q)
        /\ Disturb(n, Cmds \ {c})
    BY <1>4 DEF SendFile
  <2>2. was'[c] = was[c] /\ remote'[n] = r.data
    BY <1>1, <2>1 DEF Disturb, TypeOK
  <2>3. \A m \in Names \ {n} : Both(m)' = Both(m)
    BY <2>1 DEF Both, TypeOK
  <2>4. cmd'[c] = q
    BY <2>1 DEF Becomes, TypeOK
  <2>5. n \in Untouched(c) => SyncProgress(c, n) /\ FileProgress(c, n)
    BY <1>1 DEF Good
  <2>6. n \in Untouched(c) /\ o = "sync" => Both(n)' = Merged(f)
    <3>1. SUFFICES ASSUME n \in Untouched(c), o = "sync"
                   PROVE  Both(n)' = Merged(f)
      OBVIOUS
    <3>2. r.final /\ n \in r.ups
      BY <1>1, <1>2, <3>1 DEF Shape
    <3>3. /\ f.local # None /\ local[n] = f.local
          /\ r.data = f.local /\ f.remote = None
      BY <1>1, <2>5, <3>1, <3>2 DEF SyncProgress, OnTheWay
    <3>4. QED
      BY <2>1, <2>2, <3>3 DEF Both, Merged
  <2>7. n \in Untouched(c) /\ o # "sync"
          => o = "upload" /\ Both(n) = f /\ (r.path # "outside" => r.data = f.local)
    BY <1>1, <1>2, <2>5 DEF FileProgress, Shape
  <2>8. CASE InDirectory(r)
    <3>0. cmd'[c] = AfterFile(r)
      BY <2>4, <2>8 DEF Sent
    <3>1. n \in Untouched(c) /\ o # "sync" => Done(cmd[c], n, f)'
      <4>1. SUFFICES ASSUME n \in Untouched(c), o # "sync"
                     PROVE  Done(cmd[c], n, f)'
        OBVIOUS
      <4>2. /\ f.remote = None /\ local[n] = f.local
            /\ r.data = f.local /\ o = "upload"
        BY <1>4, <2>7, <2>8, <4>1 DEF Both, InDirectory
      <4>3. cmd'[c].op = "upload" /\ cmd'[c].path = "same"
        BY <1>1, <2>8, <3>0, <4>2, AfterFileFields DEF InDirectory
      <4>4. QED
        BY <1>1, <2>1, <2>2, <4>2, <4>3, Constants DEF Done
    <3>2. QED
      BY <1>1, <2>2, <2>3, <2>6, <3>0, <3>1, AfterFileGood
  <2>9. CASE ~InDirectory(r)
    <3>1. cmd'[c] = q
      BY <2>4
    <3>2. /\ q.step = "open" /\ q.op = r.op /\ q.path = r.path /\ q.final = r.final
          /\ q.ups = r.ups \ {n} /\ q.downs = r.downs /\ q.cur = n /\ q.data = r.data
      BY <1>1, <2>9 DEF Command, Sent, Rest
    <3> HIDE DEF q
    <3>3. o = "upload" /\ q.ups = {}
      BY <1>1, <1>2, <2>9, <3>2 DEF Shape, InDirectory
    <3>4. Shape(q)
      BY <1>1, <1>2, <3>2, <3>3 DEF Shape
    <3>5. ASSUME NEW m \in Untouched(c)'
          PROVE  SyncProgress(c, m)' /\ FileProgress(c, m)' /\ SeenTrue(c, m)'
      <4>1. m \in Untouched(c) /\ m \in Names
        BY <2>2 DEF Untouched
      <4>2. FileProgress(c, m)
        BY <1>1, <4>1 DEF Good
      <4>3. m # n => Both(m)' = was[c][m]
        BY <2>3, <3>3, <4>1, <4>2 DEF FileProgress
      <4>4. m = n => was[c][m].remote = None
        BY <1>4, <2>7, <3>3, <4>1 DEF Both
      <4>5. m = n => remote'[m] = r.data
        BY <2>2
      <4>6. m = n /\ r.path # "outside" => r.data = was[c][m].local
        BY <2>7, <3>3, <4>1
      <4>7. FileProgress(c, m)'
        BY <1>1, <2>2, <3>1, <3>2, <3>3, <4>3, <4>4, <4>5, <4>6
        DEF FileProgress, Answered, At
      <4>8. QED
        BY <3>1, <3>2, <3>3, <4>7 DEF SyncProgress, SeenTrue, Answered, At
    <3>6. QED
      BY <3>1, <3>4, <3>5 DEF Good
  <2>10. QED
    BY <2>8, <2>9
<1>5. QED
  BY <1>3, <1>4

LEMMA FetchGood ==
    ASSUME TypeOK, NEW c \in Cmds, Good(c), Fetch(c)
    PROVE  Good(c)'
<1> DEFINE r == cmd[c]
<1>1. PICK m \in r.downs :
        Becomes(c, LET q == [cmd[c] EXCEPT !.cur = m] IN
                   IF remote[m] \in Contents
                     THEN [q EXCEPT !.step = "open", !.data = remote[m]]
                     ELSE FetchFailed(q))
  BY DEF Fetch
<1> DEFINE q == [cmd[c] EXCEPT !.cur = m]
           p == [q EXCEPT !.step = "open", !.data = remote[m]]
<1>2. r \in Command /\ r.step = "files" /\ m \in Names /\ Active(c) /\ r.ups = {}
  BY <1>1, FieldType DEF TypeOK, Fetch, At, Active
<1>3. Shape(r)
  BY <1>2 DEF Good
<1>4. /\ q \in Command /\ q.cur = m /\ q.op = r.op /\ q.path = r.path /\ q.final = r.final
      /\ q.ups = r.ups /\ q.downs = r.downs
  BY <1>2 DEF Command
<1>5. /\ p.step = "open" /\ p.data = remote[m] /\ p.cur = m /\ p.op = r.op /\ p.path = r.path
      /\ p.final = r.final /\ p.ups = r.ups /\ p.downs = r.downs
  BY <1>2 DEF Command
<1>6. cmd'[c] = IF remote[m] \in Contents THEN p ELSE Ended(q, "err")
  BY <1>1 DEF Becomes, TypeOK, FetchFailed
<1> HIDE DEF q, p
<1>7. UNCHANGED <<local, remote, linked, was>>
  BY DEF Fetch
<1>8. CASE remote[m] \notin Contents
  <2>1. cmd'[c] = Ended(q, "err")
    BY <1>6, <1>8
  <2>2. /\ cmd'[c].step = "msg" /\ cmd'[c].result = "err" /\ cmd'[c].op = r.op
        /\ cmd'[c].path = r.path /\ cmd'[c].final = r.final /\ cmd'[c].ups = r.ups /\ cmd'[c].downs = r.downs
    BY <1>4, <2>1, EndedFields
  <2>3. QED
    BY <1>2, <1>7, <2>2, ErrGood
<1>9. CASE remote[m] \in Contents
  <2>1. cmd'[c] = p
    BY <1>6, <1>9
  <2>2. r.op \in {"sync", "download"}
    BY <1>1, <1>2, <1>3 DEF Shape
  <2>3. Shape(p)
    BY <1>1, <1>2, <1>3, <1>5, <2>2 DEF Shape
  <2>4. ASSUME NEW n \in Untouched(c)'
        PROVE  SyncProgress(c, n)' /\ FileProgress(c, n)' /\ SeenTrue(c, n)'
    <3>1. n \in Untouched(c) /\ n \in Names /\ Both(n)' = Both(n)
      BY <1>7 DEF Untouched, Both
    <3>2. SyncProgress(c, n) /\ FileProgress(c, n)
      BY <1>2, <3>1 DEF Good
    <3>3. SyncProgress(c, n)'
      BY <1>2, <1>5, <1>7, <2>1, <3>1, <3>2 DEF SyncProgress, OnTheWay
    <3>4. r.op # "sync" => Both(n) = was[c][n]
      BY <1>2, <1>3, <3>1, <3>2, Constants DEF FileProgress, Shape
    <3>5. r.op # "sync" => remote[n] = was[c][n].remote
      BY <3>4 DEF Both
    <3>6. FileProgress(c, n)' /\ SeenTrue(c, n)'
      BY <1>5, <1>7, <2>1, <2>2, <3>1, <3>4, <3>5 DEF FileProgress, SeenTrue, Answered, At
    <3>7. QED
      BY <3>3, <3>6
  <2>5. QED
    BY <2>1, <2>3, <2>4 DEF Good
<1>10. QED
  BY <1>8, <1>9

LEMMA OpenLocalGood ==
    ASSUME TypeOK, NEW c \in Cmds, Good(c), OpenLocal(c)
    PROVE  Good(c)'
<1> DEFINE r == cmd[c]
           q == [cmd[c] EXCEPT !.step = "fill"]
<1>1. r \in Command /\ r.step = "open" /\ Active(c) /\ r.cur \in Names
  BY DEF TypeOK, OpenLocal, At, Active
<1>2. Shape(r)
  BY <1>1 DEF Good
<1>3. /\ q.step = "fill" /\ q.op = r.op /\ q.path = r.path /\ q.final = r.final /\ q.ups = r.ups
      /\ q.downs = r.downs /\ q.cur = r.cur /\ q.data = r.data
  BY <1>1 DEF Command
<1>0. CASE Fail(c) /\ UNCHANGED <<local, linked, was>>
  <2>1. cmd'[c] = Ended(r, "err") /\ remote' = remote
    BY <1>0 DEF OpenLocal, Fail, Becomes, TypeOK
  <2>2. QED
    BY <1>0, <1>1, <2>1, EndedFields, ErrGood
<1> SUFFICES ASSUME ~(Fail(c) /\ UNCHANGED <<local, linked, was>>) PROVE Good(c)'
  BY <1>0
<1>4. /\ cmd'[c] = q /\ local' = [local EXCEPT ![r.cur] = Torn] /\ remote' = remote
      /\ c \in linked' /\ was'[c] = was[c]
  BY DEF OpenLocal, Becomes, Disturb, TypeOK
<1> HIDE DEF q
<1>5. Shape(q)
  BY <1>1, <1>2, <1>3 DEF Shape
<1>6. ASSUME NEW n \in Untouched(c)'
      PROVE  SyncProgress(c, n)' /\ FileProgress(c, n)' /\ SeenTrue(c, n)'
  <2>1. n \in Untouched(c) /\ n \in Names
    BY <1>4 DEF Untouched
  <2>2. SyncProgress(c, n) /\ FileProgress(c, n)
    BY <1>1, <2>1 DEF Good
  <2>3. local'[n] = (IF n = r.cur THEN Torn ELSE local[n]) /\ remote'[n] = remote[n]
    BY <1>4, <2>1 DEF TypeOK
  <2>4. n # r.cur => Both(n)' = Both(n)
    BY <2>3 DEF Both
  <2>5. SyncProgress(c, n)'
    <3>1. r.op = "sync" => r.final /\ r.cur \in r.downs /\ r.cur \notin r.ups
      BY <1>1, <1>2 DEF Shape
    <3>2. QED
      BY <1>1, <1>3, <1>4, <2>1, <2>2, <2>3, <2>4, <3>1 DEF SyncProgress, OnTheWay
  <2>6. FileProgress(c, n)'
    BY <1>1, <1>3, <1>4, <2>1, <2>2, <2>3, <2>4 DEF FileProgress, Answered, At
  <2>7. QED
    BY <1>3, <1>4, <2>5, <2>6 DEF SeenTrue, Answered, At
<1>7. QED
  BY <1>4, <1>5, <1>6 DEF Good

LEMMA FillLocalGood ==
    ASSUME TypeOK, NEW c \in Cmds, Good(c), FillLocal(c),
           NEW n, NEW o, NEW f, n = cmd[c].cur, o = cmd[c].op, f = was[c][n]
    PROVE  Good(c)'
<1> DEFINE r == cmd[c]
<1>1. /\ r \in Command /\ r.step = "fill" /\ Active(c) /\ n \in Names
      /\ r.op = o /\ r.cur = n /\ r.data \in Contents
  BY DEF TypeOK, FillLocal, At, Active
<1>2. Shape(r)
  BY <1>1 DEF Good
<1>3. PICK w \in Filled(c) : local' = [local EXCEPT ![n] = w]
  BY DEF FillLocal
<1>4. /\ cmd'[c] = AfterFile(r) /\ remote' = remote /\ local'[n] = w
      /\ was'[c] = was[c]
  BY <1>1, <1>3 DEF FillLocal, Becomes, Disturb, TypeOK
<1>5. \A m \in Names \ {n} : Both(m)' = Both(m)
  BY <1>3, <1>4 DEF Both, TypeOK
<1>6. ASSUME n \in Untouched(c)
      PROVE  IF o = "sync" THEN Both(n)' = Merged(f) ELSE Done(cmd[c], n, f)'
  <2>1. SyncProgress(c, n) /\ FileProgress(c, n)
    BY <1>1, <1>6 DEF Good
  <2>2. CASE o = "sync"
    <3>1. r.final /\ n \in r.downs
      BY <1>1, <1>2, <2>2 DEF Shape
    <3>2. /\ f.local = None /\ f.remote # None /\ remote[n] = f.remote
          /\ r.data = f.remote /\ c \in linked /\ local[n] = Torn
      BY <1>1, <2>1, <2>2, <3>1 DEF SyncProgress, OnTheWay
    <3>3. w = r.data
      BY <1>1, <1>2, <1>3, <2>2, <3>2 DEF Filled, SourceIsTarget, Shape
    <3>4. QED
      BY <1>4, <2>2, <3>2, <3>3 DEF Both, Merged
  <2>3. CASE o # "sync"
    <3>1. o \in {"upload", "download"}
      BY <1>1, <1>2, <2>3 DEF Shape
    <3>2. /\ c \in linked /\ local[n] = Torn
          /\ o = "upload" => f.remote = None /\ remote[n] = r.data
          /\ o = "upload" /\ r.path # "outside" => r.data = f.local
          /\ o = "download" => remote[n] = f.remote /\ r.data = f.remote
          /\ o # "upload" => r.path = "same"
      BY <1>1, <1>2, <2>1, <2>3 DEF FileProgress, Shape
    <3>3. w = IF r.path = "other" THEN Torn ELSE r.data
      BY <1>1, <1>3, <3>2 DEF Filled, SourceIsTarget
    <3>4. cmd'[c].op = o /\ cmd'[c].path = r.path
      BY <1>1, <1>4, AfterFileFields
    <3>5. QED
      BY <1>1, <1>4, <2>3, <3>1, <3>2, <3>3, <3>4, Constants DEF Done
  <2>4. QED
    BY <2>2, <2>3
<1>7. QED
  BY <1>1, <1>4, <1>5, <1>6, AfterFileGood

(* A removal on one side. *)
LEMMA RemovedGood ==
    ASSUME TypeOK, NEW c \in Cmds, Good(c), cmd[c].step \in {"remove", "delete"},
           NEW q, q = [cmd[c] EXCEPT !.step = "list"], cmd'[c] = q, was'[c] = was[c],
           \A m \in Names : Both(m)' =
               IF m # cmd[c].cur THEN Both(m)
               ELSE IF cmd[c].step = "remove" THEN [Both(m) EXCEPT !.remote = None]
               ELSE [Both(m) EXCEPT !.local = None]
    PROVE  Good(c)'
<1> DEFINE r == cmd[c]
<1>1. r \in Command /\ Active(c)
  BY DEF TypeOK, Active
<1>2. Shape(r)
  BY <1>1 DEF Good
<1>3. /\ q.step = "list" /\ q.op = r.op /\ q.path = r.path /\ q.final = r.final /\ q.ups = r.ups
      /\ q.downs = r.downs /\ q.cur = r.cur
  BY <1>1 DEF Command
<1>4. r.op = r.step /\ r.ups = {} /\ r.downs = {}
  BY <1>2 DEF Shape
<1>5. Shape(q)
  BY <1>2, <1>3, <1>4 DEF Shape
<1>6. ASSUME NEW n \in Untouched(c)'
      PROVE  SyncProgress(c, n)' /\ FileProgress(c, n)' /\ SeenTrue(c, n)'
  <2>1. n \in Untouched(c) /\ n \in Names
    BY DEF Untouched
  <2>2. FileProgress(c, n)
    BY <1>1, <2>1 DEF Good
  <2>3. n # r.cur => Both(n)' = was[c][n]
    BY <1>4, <2>1, <2>2 DEF FileProgress
  <2>4. n = r.cur => Done(cmd[c], n, was[c][n])'
    <3>1. SUFFICES ASSUME n = r.cur PROVE Done(cmd[c], n, was[c][n])'
      OBVIOUS
    <3>2. Both(n) = was[c][n]
      BY <1>4, <2>2, <3>1 DEF FileProgress
    <3>3. was[c][n] = [local |-> local[n], remote |-> remote[n]] /\ n \in Names
      BY <2>1, <3>2 DEF Both
    <3>4. CASE r.step = "remove"
      <4>1. Both(n)' = [Both(n) EXCEPT !.remote = None]
        BY <2>1, <3>1, <3>4
      <4>2. remote'[n] = None /\ local'[n] = local[n]
        BY <4>1 DEF Both
      <4>3. cmd'[c].op = "remove" /\ was'[c][n].local = local[n]
        BY <1>3, <1>4, <3>3, <3>4
      <4>4. QED
        BY <4>2, <4>3 DEF Done
    <3>5. CASE r.step = "delete"
      <4>1. Both(n)' = [Both(n) EXCEPT !.local = None]
        BY <2>1, <3>1, <3>5
      <4>2. local'[n] = None /\ remote'[n] = remote[n]
        BY <4>1 DEF Both
      <4>3. cmd'[c].op = "delete" /\ was'[c][n].remote = remote[n]
        BY <1>3, <1>4, <3>3, <3>5
      <4>4. QED
        BY <4>2, <4>3 DEF Done
    <3>6. QED
      BY <3>4, <3>5
  <2>5. QED
    BY <1>3, <1>4, <2>3, <2>4 DEF SyncProgress, FileProgress, SeenTrue, Answered, At
<1>7. QED
  BY <1>5, <1>6 DEF Good

LEMMA RemoveRemoteGood ==
    ASSUME TypeOK, NEW c \in Cmds, Good(c), RemoveRemote(c)
    PROVE  Good(c)'
<1>1. /\ cmd[c] \in Command /\ cmd[c].step = "remove" /\ local' = local
      /\ cmd[c].cur \in Names
  BY DEF TypeOK, RemoveRemote, At
<1>2. CASE remote[cmd[c].cur] = None
  <2>1. cmd'[c] = Ended(cmd[c], "err") /\ UNCHANGED <<local, remote, was>>
    BY <1>2 DEF RemoveRemote, Fail, Becomes, TypeOK
  <2>2. QED
    BY <1>1, <2>1, EndedFields, ErrGood
<1>3. CASE remote[cmd[c].cur] # None
  <2>1. cmd'[c] = [cmd[c] EXCEPT !.step = "list"]
    BY <1>3 DEF RemoveRemote, Becomes, TypeOK
  <2>2. was'[c] = was[c]
    BY <1>3 DEF RemoveRemote, Disturb, TypeOK
  <2>3. \A m \in Names : Both(m)' = IF m # cmd[c].cur THEN Both(m)
                                    ELSE [Both(m) EXCEPT !.remote = None]
    BY <1>1, <1>3 DEF RemoveRemote, Both, TypeOK
  <2>4. QED
    BY <1>1, <2>1, <2>2, <2>3, RemovedGood
<1>4. QED
  BY <1>2, <1>3

LEMMA DeleteLocalGood ==
    ASSUME TypeOK, NEW c \in Cmds, Good(c), DeleteLocal(c)
    PROVE  Good(c)'
<1>1. /\ cmd[c] \in Command /\ cmd[c].step = "delete" /\ remote' = remote
      /\ cmd[c].cur \in Names
  BY DEF TypeOK, DeleteLocal, At
<1>2. CASE local[cmd[c].cur] = None
  <2>1. cmd'[c] = Ended(cmd[c], "err") /\ UNCHANGED <<local, remote, was>>
    BY <1>2 DEF DeleteLocal, Fail, Becomes, TypeOK
  <2>2. QED
    BY <1>1, <2>1, EndedFields, ErrGood
<1>3. CASE local[cmd[c].cur] # None
  <2>1. cmd'[c] = [cmd[c] EXCEPT !.step = "list"]
    BY <1>3 DEF DeleteLocal, Becomes, TypeOK
  <2>2. was'[c] = was[c]
    BY <1>3 DEF DeleteLocal, Disturb, TypeOK
  <2>3. \A m \in Names : Both(m)' = IF m # cmd[c].cur THEN Both(m)
                                    ELSE [Both(m) EXCEPT !.local = None]
    BY <1>1, <1>3 DEF DeleteLocal, Unlink, Both, TypeOK
  <2>4. QED
    BY <1>1, <2>1, <2>2, <2>3, RemovedGood
<1>4. QED
  BY <1>2, <1>3

LEMMA DeliverGood ==
    ASSUME TypeOK, NEW c \in Cmds, Deliver(c)
    PROVE  Good(c)'
<1>1. cmd'[c] = Idle
  BY DEF Deliver, Becomes, TypeOK
<1>2. QED
  BY <1>1 DEF Good, Active, Idle

(* The bytes of an upload from elsewhere change on the way: that file is no
   longer the command's own. *)
LEMMA SourceGood ==
    ASSUME TypeOK, NEW c \in Cmds, Good(c), UserSavesSource(c)
    PROVE  Good(c)'
<1> DEFINE r == cmd[c]
<1>1. PICK v : cmd'[c] = [r EXCEPT !.data = v]
  BY DEF UserSavesSource, Becomes, TypeOK
<1> DEFINE q == [r EXCEPT !.data = v]
<1>2. r \in Command /\ r.step = "open" /\ r.op = "upload" /\ Active(c)
  BY DEF TypeOK, UserSavesSource, At, Active, Good, Shape
<1>3. /\ q.step = "open" /\ q.op = "upload" /\ q.path = r.path /\ q.final = r.final /\ q.ups = r.ups
      /\ q.downs = r.downs /\ q.cur = r.cur
  BY <1>2 DEF Command
<1>4. cmd'[c] = q
  BY <1>1
<1> HIDE DEF q
<1>5. Shape(q)
  BY <1>2, <1>3 DEF Good, Shape
<1>6. ASSUME NEW n \in Untouched(c)'
      PROVE  SyncProgress(c, n)' /\ FileProgress(c, n)' /\ SeenTrue(c, n)'
  <2>1. /\ n \in Untouched(c) /\ n \in Names /\ n # r.cur /\ was'[c][n] = was[c][n]
        /\ local' = local /\ remote' = remote
    BY DEF Untouched, UserSavesSource, Disturb, TypeOK
  <2>2. FileProgress(c, n)
    BY <1>2, <2>1 DEF Good
  <2>3. Both(n)' = was'[c][n]
    BY <1>2, <2>1, <2>2 DEF FileProgress, Both
  <2>4. QED
    BY <1>3, <1>4, <2>1, <2>3 DEF SyncProgress, FileProgress, SeenTrue, Answered, At
<1>7. QED
  BY <1>4, <1>5, <1>6 DEF Good

(* A command begins with nothing done. *)
Fresh(r) ==
    /\ r.step \in {"list", "files", "send", "remove", "delete"}
    /\ Shape(r)
    /\ r.step \in {"list", "files"} => r.cur = None
    /\ r.step = "send" => r.path = "outside"
    /\ r.op = "sync" => ~r.final

LEMMA LaunchGood ==
    ASSUME TypeOK, NEW c \in Cmds, NEW r, Fresh(r), Launch(c, r)
    PROVE  Good(c)'
<1>1. /\ cmd'[c] = r /\ local' = local /\ remote' = remote
      /\ \A n \in Names : was'[c][n] = Both(n)
  BY DEF Launch, Becomes, TypeOK
<1>2. Shape(cmd[c])'
  BY <1>1 DEF Fresh
<1>3. ASSUME NEW n \in Untouched(c)'
      PROVE  SyncProgress(c, n)' /\ FileProgress(c, n)' /\ SeenTrue(c, n)'
  <2>1. n \in Names /\ n # None
    BY Constants DEF Untouched
  <2>2. was'[c][n] = Both(n) /\ Both(n)' = Both(n)
    BY <1>1, <2>1 DEF Both
  <2>3. SyncProgress(c, n)'
    BY <1>1, <2>2 DEF SyncProgress, Fresh
  <2>4. FileProgress(c, n)'
    BY <1>1, <2>1, <2>2 DEF FileProgress, Fresh, Answered, At
  <2>5. SeenTrue(c, n)'
    BY <1>1 DEF SeenTrue, Fresh, Answered, At
  <2>6. QED
    BY <2>3, <2>4, <2>5
<1>4. QED
  BY <1>2, <1>3 DEF Good

LEMMA KeyGood ==
    ASSUME TypeOK, NEW c \in Cmds, Key(c)
    PROVE  Good(c)'
<1>1. CASE Refresh(c)
  <2>1. Fresh([Idle EXCEPT !.step = "list", !.final = TRUE])
    BY DEF Fresh, Shape, Idle
  <2>2. QED
    BY <1>1, <2>1, LaunchGood DEF Refresh
<1>2. CASE SyncFiles(c)
  <2>1. Fresh([Idle EXCEPT !.step = "list", !.op = "sync"])
    BY DEF Fresh, Shape, Idle
  <2>2. QED
    BY <1>2, <2>1, LaunchGood DEF SyncFiles
<1>3. ASSUME NEW n \in Names, Upload(c, n) PROVE Good(c)'
  <2>1. \A p \in {"same", "other"} :
          Fresh([OneFile("upload") EXCEPT !.ups = {n}, !.path = p])
    BY DEF Fresh, Shape, OneFile, Idle
  <2>2. \A v : Fresh([OneFile("upload") EXCEPT !.step = "send", !.cur = n, !.data = v,
                                               !.path = "outside"])
    BY DEF Fresh, Shape, OneFile, Idle
  <2>3. QED
    BY <1>3, <2>1, <2>2, LaunchGood DEF Upload
<1>4. ASSUME NEW n \in Names, Download(c, n) PROVE Good(c)'
  <2>1. Fresh([OneFile("download") EXCEPT !.downs = {n}])
    BY DEF Fresh, Shape, OneFile, Idle
  <2>2. QED
    BY <1>4, <2>1, LaunchGood DEF Download
<1>5. ASSUME NEW n \in Names, Remove(c, n) PROVE Good(c)'
  <2>1. Fresh([OneFile("remove") EXCEPT !.step = "remove", !.cur = n])
    BY DEF Fresh, Shape, OneFile, Idle
  <2>2. QED
    BY <1>5, <2>1, LaunchGood DEF Remove
<1>6. ASSUME NEW n \in Names, Delete(c, n) PROVE Good(c)'
  <2>1. Fresh([OneFile("delete") EXCEPT !.step = "delete", !.cur = n])
    BY DEF Fresh, Shape, OneFile, Idle
  <2>2. QED
    BY <1>6, <2>1, LaunchGood DEF Delete
<1>7. QED
  BY <1>1, <1>2, <1>3, <1>4, <1>5, <1>6 DEF Key

LEMMA OwnGood ==
    ASSUME TypeOK, NEW c \in Cmds, Good(c),
           Key(c) \/ Run(c) \/ Deliver(c) \/ UserSavesSource(c)
    PROVE  Good(c)'
<1>1. CASE Run(c)
  BY <1>1, ListGood, ScanGood, ReadFileGood, SendFileGood, FetchGood, OpenLocalGood,
     FillLocalGood, RemoveRemoteGood, DeleteLocalGood, FailsGood DEF Run
<1>2. QED
  BY <1>1, KeyGood, DeliverGood, SourceGood

(***************************************************************************)
(* A step of one command, seen by another.                                 *)
(***************************************************************************)
LEMMA OtherRunGood ==
    ASSUME TypeOK, NEW c \in Cmds, NEW d \in Cmds \ {c}, Good(d), Run(c)
    PROVE  Good(d)'
<1> DEFINE n == cmd[c].cur
           Quiet == /\ was'[d] = was[d] /\ UNCHANGED <<local, remote>>
                    /\ d \in linked => d \in linked'
<1>1. \A q : Becomes(c, q) => cmd'[d] = cmd[d]
  BY DEF Becomes, TypeOK
<1>2. ASSUME NEW q, Becomes(c, q), Quiet PROVE Good(d)'
  BY <1>1, <1>2, QuietGood
<1>3. CASE List(c) \/ Scan(c) \/ ReadFile(c) \/ Fetch(c)
  <2>1. (\E q : Becomes(c, q)) /\ Quiet
    BY <1>3 DEF List, Scan, ReadFile, Fetch
  <2>2. QED
    BY <1>2, <2>1
<1>4. ASSUME NEW q, Becomes(c, q), n \in Names, Disturb(n, Cmds \ {c}),
             \A m \in Names \ {n} : local'[m] = local[m] /\ remote'[m] = remote[m],
             d \in linked /\ cmd[d].cur # n => d \in linked'
      PROVE  Good(d)'
  BY <1>1, <1>4, DisturbedGood
<1>5. CASE SendFile(c)
  <2>1. n \in Names
    BY <1>5 DEF SendFile, TypeOK, At
  <2>2. CASE remote[n] # None
    BY <1>2, <1>5, <2>2 DEF SendFile, Fail
  <2>3. CASE remote[n] = None
    <3>1. \A m \in Names \ {n} : local'[m] = local[m] /\ remote'[m] = remote[m]
      BY <1>5, <2>3 DEF SendFile, TypeOK
    <3>2. (\E q : Becomes(c, q)) /\ Disturb(n, Cmds \ {c}) /\ linked' = linked
      BY <1>5, <2>3 DEF SendFile
    <3>3. QED
      BY <1>4, <2>1, <3>1, <3>2
  <2>4. QED
    BY <2>2, <2>3
<1>6. CASE OpenLocal(c)
  <2>1. n \in Names
    BY <1>6 DEF OpenLocal, TypeOK, At
  <2>2. \A m \in Names \ {n} : local'[m] = local[m] /\ remote'[m] = remote[m]
    BY <1>6 DEF OpenLocal, TypeOK
  <2>3. /\ (\E q : Becomes(c, q)) /\ linked \subseteq linked' /\ remote' = remote
        /\ Disturb(n, Cmds \ {c}) \/ UNCHANGED <<local, was>>
    BY <1>6 DEF OpenLocal, Fail
  <2>4. CASE Disturb(n, Cmds \ {c})
    BY <1>4, <2>1, <2>2, <2>3, <2>4
  <2>5. CASE UNCHANGED <<local, was>>
    BY <1>2, <2>3, <2>5
  <2>6. QED
    BY <2>3, <2>4, <2>5
<1>7. CASE FillLocal(c)
  <2>1. n \in Names /\ (\E q : Becomes(c, q)) /\ (d \in linked => d \in linked')
    BY <1>7 DEF FillLocal, TypeOK, At
  <2>2. PICK w \in Filled(c) : local' = [local EXCEPT ![n] = w]
    BY <1>7 DEF FillLocal
  <2>3. remote' = remote
    BY <1>7 DEF FillLocal
  <2>4. CASE c \in linked
    <3>1. Disturb(n, Cmds \ {c})
      BY <1>7, <2>4 DEF FillLocal
    <3>2. \A m \in Names \ {n} : local'[m] = local[m]
      BY <2>2 DEF TypeOK
    <3>3. QED
      BY <1>4, <2>1, <2>3, <3>1, <3>2
  <2>5. CASE c \notin linked
    <3>1. Disturb(n, {}) /\ w = local[n]
      BY <1>7, <2>2, <2>5 DEF FillLocal, Filled
    <3>2. local' = local /\ was'[d] = was[d]
      BY <2>1, <2>2, <3>1 DEF Disturb, TypeOK
    <3>3. QED
      BY <1>2, <2>1, <2>3, <3>2
  <2>6. QED
    BY <2>4, <2>5
<1>8. CASE RemoveRemote(c)
  <2>1. n \in Names
    BY <1>8 DEF RemoveRemote, TypeOK, At
  <2>2. CASE remote[n] = None
    BY <1>2, <1>8, <2>2 DEF RemoveRemote, Fail
  <2>3. CASE remote[n] # None
    <3>1. \A m \in Names \ {n} : local'[m] = local[m] /\ remote'[m] = remote[m]
      BY <1>8, <2>3 DEF RemoveRemote, TypeOK
    <3>2. (\E q : Becomes(c, q)) /\ Disturb(n, Cmds \ {c}) /\ linked' = linked
      BY <1>8, <2>3 DEF RemoveRemote
    <3>3. QED
      BY <1>4, <2>1, <3>1, <3>2
  <2>4. QED
    BY <2>2, <2>3
<1>9. CASE DeleteLocal(c)
  <2>1. n \in Names
    BY <1>9 DEF DeleteLocal, TypeOK, At
  <2>2. CASE local[n] = None
    BY <1>2, <1>9, <2>2 DEF DeleteLocal, Fail
  <2>3. CASE local[n] # None
    <3>1. \A m \in Names \ {n} : local'[m] = local[m] /\ remote'[m] = remote[m]
      BY <1>9, <2>3 DEF DeleteLocal, Unlink, TypeOK
    <3>2. (\E q : Becomes(c, q)) /\ Disturb(n, Cmds \ {c})
      BY <1>9, <2>3 DEF DeleteLocal
    <3>3. d \in linked /\ cmd[d].cur # n => d \in linked'
      BY <1>9, <2>3 DEF DeleteLocal, Unlink
    <3>4. QED
      BY <1>4, <2>1, <3>1, <3>2, <3>3
  <2>4. QED
    BY <2>2, <2>3
<1>10. CASE Fails(c)
  <2>1. (\E q : Becomes(c, q)) /\ (d \in linked => d \in linked') /\ local' = local
    BY <1>10 DEF Fails, Fail
  <2>2. CASE UNCHANGED <<remote, was>>
    BY <1>2, <2>1, <2>2
  <2>3. CASE \E w \in LeftRemote(cmd[c]) : remote' = [remote EXCEPT ![n] = w]
    <3>1. Disturb(n, Cmds \ {c}) \/ UNCHANGED <<remote, was>>
      BY <1>10 DEF Fails
    <3>2. n \in Names
      BY <2>3 DEF LeftRemote, TypeOK
    <3>3. \A m \in Names \ {n} : remote'[m] = remote[m]
      BY <2>3 DEF TypeOK
    <3>4. QED
      BY <1>4, <2>1, <2>2, <3>1, <3>2, <3>3
  <2>4. QED
    BY <1>10, <2>2, <2>3 DEF Fails
<1>11. QED
  BY <1>3, <1>5, <1>6, <1>7, <1>8, <1>9, <1>10 DEF Run

LEMMA OtherGood ==
    ASSUME TypeOK, NEW c \in Cmds, NEW d \in Cmds \ {c}, Good(d),
           Key(c) \/ Run(c) \/ Deliver(c) \/ UserSavesSource(c)
    PROVE  Good(d)'
<1>1. ASSUME Key(c) PROVE Good(d)'
  <2>1. \E r : Launch(c, r)
    BY <1>1 DEF Key, Refresh, SyncFiles, Upload, Download, Remove, Delete
  <2>2. /\ cmd'[d] = cmd[d] /\ was'[d] = was[d] /\ UNCHANGED <<local, remote, linked>>
    BY <2>1 DEF Launch, Becomes, TypeOK
  <2>3. QED
    BY <2>2, QuietGood
<1>2. ASSUME Deliver(c) PROVE Good(d)'
  <2>1. /\ cmd'[d] = cmd[d] /\ was'[d] = was[d] /\ UNCHANGED <<local, remote, linked>>
    BY <1>2 DEF Deliver, Becomes, TypeOK
  <2>2. QED
    BY <2>1, QuietGood
<1>3. ASSUME UserSavesSource(c) PROVE Good(d)'
  <2>1. cmd'[d] = cmd[d] /\ cmd[c].cur \in Names
    BY <1>3 DEF UserSavesSource, Becomes, TypeOK, At
  <2>2. Disturb(cmd[c].cur, Cmds) /\ UNCHANGED <<local, remote, linked>>
    BY <1>3 DEF UserSavesSource
  <2>3. QED
    BY <2>1, <2>2, DisturbedGood
<1>4. QED
  BY <1>1, <1>2, <1>3, OtherRunGood

(***************************************************************************)
(* The invariant.                                                          *)
(***************************************************************************)
LEMMA InvInit == Init => Inv
  BY DEF Init, Inv, Good, Active, Idle

LEMMA InvStep == TypeOK /\ Inv /\ [Next]_vars => Inv'
<1> SUFFICES ASSUME TypeOK, Inv, [Next]_vars PROVE Inv'
  OBVIOUS
<1>1. ASSUME NEW c \in Cmds, Key(c) \/ Run(c) \/ Deliver(c) \/ UserSavesSource(c)
      PROVE  Inv'
  BY <1>1, OwnGood, OtherGood DEF Inv
<1>2. ASSUME NEW n \in Names, OtherClient(n) PROVE Inv'
  <2>1. /\ Disturb(n, Cmds) /\ UNCHANGED <<local, cmd, linked>>
        /\ \A m \in Names \ {n} : remote'[m] = remote[m]
    BY <1>2 DEF OtherClient, TypeOK
  <2>2. QED
    BY <2>1, DisturbedGood DEF Inv
<1>3. ASSUME NEW n \in Names, UserSaves(n) PROVE Inv'
  <2>1. /\ Disturb(n, Cmds) /\ UNCHANGED <<remote, cmd, linked>>
        /\ \A m \in Names \ {n} : local'[m] = local[m]
    BY <1>3 DEF UserSaves, TypeOK
  <2>2. QED
    BY <2>1, DisturbedGood DEF Inv
<1>4. ASSUME NEW n \in Names, UserDeletes(n) PROVE Inv'
  <2>1. /\ Disturb(n, Cmds) /\ UNCHANGED <<remote, cmd>>
        /\ \A m \in Names \ {n} : local'[m] = local[m]
        /\ \A d \in Cmds : d \in linked /\ cmd[d].cur # n => d \in linked'
    BY <1>4 DEF UserDeletes, Unlink, TypeOK
  <2>2. QED
    BY <2>1, DisturbedGood DEF Inv
<1>5. CASE Crash
  BY <1>5 DEF Crash, Inv, Good, Active, Idle
<1>6. CASE UNCHANGED vars
  BY <1>6, QuietGood DEF vars, Inv
<1>7. QED
  BY <1>1, <1>2, <1>3, <1>4, <1>5, <1>6 DEF Next

LEMMA Invariance == Spec => [](TypeOK /\ Inv)
<1>1. Init /\ TypeOK => TypeOK /\ Inv
  BY InvInit
<1>2. TypeOK /\ Inv /\ [Next]_vars => (TypeOK /\ Inv)'
  BY TypeStep, InvStep
<1>3. QED
  BY <1>1, <1>2, TypeCorrect, PTL DEF Spec

LEMMA Converges == TypeOK /\ Inv => SyncConverges
<1> SUFFICES ASSUME TypeOK, Inv, NEW c \in Cmds, Syncing(c), Answered(c), NEW n \in Untouched(c)
             PROVE  Both(n) = Merged(was[c][n])
  BY DEF SyncConverges
<1>1. Shape(cmd[c]) /\ SyncProgress(c, n)
  BY DEF Inv, Good, Syncing
<1>2. cmd[c].final /\ cmd[c].ups = {} /\ cmd[c].downs = {}
  BY <1>1 DEF Shape, Answered, At
<1>3. QED
  BY <1>1, <1>2 DEF SyncProgress, Syncing

LEMMA Preserves == TypeOK /\ Inv => SyncPreserves
<1> SUFFICES ASSUME TypeOK, Inv, NEW c \in Cmds, Syncing(c), NEW n \in Untouched(c)
             PROVE  /\ was[c][n].local # None => local[n] = was[c][n].local
                    /\ was[c][n].remote # None => remote[n] = was[c][n].remote
  BY DEF SyncPreserves
<1>1. SyncProgress(c, n) /\ cmd[c].op = "sync"
  BY DEF Inv, Good, Syncing
<1>2. CASE ~cmd[c].final
  BY <1>1, <1>2 DEF SyncProgress, Both
<1>3. CASE cmd[c].final /\ n \in cmd[c].ups \cup cmd[c].downs
  BY <1>1, <1>3 DEF SyncProgress, OnTheWay
<1>4. CASE cmd[c].final /\ n \notin cmd[c].ups \cup cmd[c].downs
  <2>1. Both(n) = Merged(was[c][n])
    BY <1>1, <1>4 DEF SyncProgress
  <2>2. /\ local[n] = Merged(was[c][n]).local
        /\ remote[n] = Merged(was[c][n]).remote
    BY <2>1 DEF Both
  <2>3. QED
    BY <2>2 DEF Merged
<1>5. QED
  BY <1>2, <1>3, <1>4

LEMMA StopsClean == TypeOK /\ Inv => SyncStopsClean
<1> SUFFICES ASSUME TypeOK, Inv, NEW c \in Cmds, Syncing(c),
                    NEW n \in Untouched(c) \ {cmd[c].cur}
             PROVE  Both(n) \in {was[c][n], Merged(was[c][n])}
  BY DEF SyncStopsClean
<1>1. SyncProgress(c, n) /\ cmd[c].op = "sync"
  BY DEF Inv, Good, Syncing
<1>2. was[c][n] \in Pairs
  BY DEF TypeOK, Untouched
<1>3. was[c][n] = [local |-> was[c][n].local, remote |-> was[c][n].remote]
  BY <1>2 DEF Pairs
<1>4. CASE ~cmd[c].final
  BY <1>1, <1>4 DEF SyncProgress
<1>5. CASE cmd[c].final /\ n \in cmd[c].ups \cup cmd[c].downs
  <2>1. local[n] = was[c][n].local /\ remote[n] = was[c][n].remote
    BY <1>1, <1>5 DEF SyncProgress, OnTheWay
  <2>2. QED
    BY <1>3, <2>1 DEF Both
<1>6. CASE cmd[c].final /\ n \notin cmd[c].ups \cup cmd[c].downs
  BY <1>1, <1>6 DEF SyncProgress
<1>7. QED
  BY <1>4, <1>5, <1>6

LEMMA FileDone == TypeOK /\ Inv => CommandDone
<1> SUFFICES ASSUME TypeOK, Inv, NEW c \in Cmds, Answered(c), ~Syncing(c), NEW n \in Untouched(c)
             PROVE  IF n = cmd[c].cur THEN Done(cmd[c], n, was[c][n])
                                      ELSE Both(n) = was[c][n]
  BY DEF CommandDone
<1>1. Active(c) /\ cmd[c].op # "sync"
  BY DEF Syncing, Answered, At, Active
<1>2. FileProgress(c, n)
  BY <1>1 DEF Inv, Good
<1>3. QED
  BY <1>1, <1>2 DEF FileProgress

LEMMA Shown == TypeOK /\ Inv => ShownIsTrue
<1> SUFFICES ASSUME TypeOK, Inv, NEW c \in Cmds, Answered(c), NEW n \in Untouched(c)
             PROVE  /\ cmd[c].files[n] \in {"synced", "local_only"} <=> local[n] # None
                    /\ cmd[c].files[n] \in {"synced", "remote_only"} <=> remote[n] # None
  BY DEF ShownIsTrue
<1>1. Active(c)
  BY DEF Answered, At, Active
<1>2. SeenTrue(c, n)
  BY <1>1 DEF Inv, Good
<1>3. QED
  BY <1>2 DEF SeenTrue

(***************************************************************************)
(* The theorems.                                                           *)
(***************************************************************************)

(* A SyncFiles that has answered has given each side what only the other had,
   of every file that nobody else has changed. *)
THEOREM SyncConvergent == Spec => []SyncConverges
  BY Converges, Invariance, PTL

(* SyncFiles replaces and removes nothing on either side, at any moment, whether
   it succeeds, fails or is still under way. *)
THEOREM SyncPreserving == Spec => []SyncPreserves
  BY Preserves, Invariance, PTL

(* Wherever SyncFiles stops, only the file in hand is neither as it was nor on
   both sides. *)
THEOREM SyncCleanStop == Spec => []SyncStopsClean
  BY StopsClean, Invariance, PTL

(* A command for one file has done to it what it says, and nothing to the other
   files, when it is answered. *)
THEOREM CommandCorrect == Spec => []CommandDone
  BY FileDone, Invariance, PTL

(* The list a command shows is true of the files that nobody else has changed
   since it began. *)
THEOREM ListTrue == Spec => []ShownIsTrue
  BY Shown, Invariance, PTL

(***************************************************************************)
(* CommandBounded.  The files a command has yet to carry are a subset of     *)
(* Names that only gets smaller; Shape says that the file in hand is one of   *)
(* them, so that carrying it makes them fewer.                              *)
(***************************************************************************)
LEMMA CarriedBound ==
    ASSUME NEW r \in Command
    PROVE  /\ IsFiniteSet(r.ups \cup r.downs)
           /\ Cardinality(r.ups \cup r.downs) \in Nat
           /\ Cardinality(Names) \in Nat
           /\ Cardinality(r.ups \cup r.downs) <= Cardinality(Names)
<1>1. r.ups \cup r.downs \subseteq Names /\ IsFiniteSet(Names)
  BY FieldType, FileSyncAssumption
<1>2. QED
  BY <1>1, FS_Subset, FS_CardinalityType

LEMMA StepsOf ==
    ASSUME NEW r, NEW k, NEW a, k = Cardinality(r.ups \cup r.downs),
           a = Cardinality(Names)
    PROVE  /\ r.step = "list" => StepsLeft(r) = 4 * k + IF r.final THEN 3 ELSE 4 * a + 9
           /\ r.step = "scan" => StepsLeft(r) = 4 * k + IF r.final THEN 2 ELSE 4 * a + 8
           /\ r.step = "files" => StepsLeft(r) = 4 * k + 7
           /\ r.step = "send" => StepsLeft(r) = 4 * k + 6
           /\ r.step = "open" => StepsLeft(r) = 4 * k + 5
           /\ r.step \in {"fill", "remove", "delete"} => StepsLeft(r) = 4 * k + 4
           /\ r.step = "msg" => StepsLeft(r) = 4 * k + 1
           /\ r.step = "idle" => StepsLeft(r) = 4 * k + 0
  BY DEF StepsLeft

(* The records of two states that carry the same files. *)
LEMMA SameFiles ==
    ASSUME NEW r \in Command, NEW q, q.ups = r.ups, q.downs = r.downs,
           \/ r.step = "files" /\ q.step \in {"send", "open", "msg"}
           \/ r.step = "send" /\ q.step \in {"open", "msg"}
           \/ r.step = "open" /\ q.step \in {"fill", "msg"}
           \/ r.step \in {"fill", "remove", "delete", "list", "scan"} /\ q.step = "msg"
           \/ r.step \in {"remove", "delete"} /\ q.step = "list" /\ q.final
           \/ r.step = "list" /\ q.step = "scan" /\ q.final = r.final
    PROVE  StepsLeft(q) < StepsLeft(r)
<1> DEFINE k == Cardinality(r.ups \cup r.downs)
           a == Cardinality(Names)
<1>1. k \in Nat /\ a \in Nat
  BY CarriedBound
<1>2. k = Cardinality(q.ups \cup q.downs)
  OBVIOUS
<1> HIDE DEF k, a
<1>3. /\ r.step = "list" => StepsLeft(r) = 4 * k + IF r.final THEN 3 ELSE 4 * a + 9
      /\ r.step = "scan" => StepsLeft(r) = 4 * k + IF r.final THEN 2 ELSE 4 * a + 8
      /\ r.step = "files" => StepsLeft(r) = 4 * k + 7
      /\ r.step = "send" => StepsLeft(r) = 4 * k + 6
      /\ r.step = "open" => StepsLeft(r) = 4 * k + 5
      /\ r.step \in {"fill", "remove", "delete"} => StepsLeft(r) = 4 * k + 4
  BY StepsOf DEF k, a
<1>4. /\ q.step = "list" => StepsLeft(q) = 4 * k + IF q.final THEN 3 ELSE 4 * a + 9
      /\ q.step = "scan" => StepsLeft(q) = 4 * k + IF q.final THEN 2 ELSE 4 * a + 8
      /\ q.step = "send" => StepsLeft(q) = 4 * k + 6
      /\ q.step = "open" => StepsLeft(q) = 4 * k + 5
      /\ q.step \in {"fill", "remove", "delete"} => StepsLeft(q) = 4 * k + 4
      /\ q.step = "msg" => StepsLeft(q) = 4 * k + 1
  BY <1>2, StepsOf DEF a
<1>5. QED
  BY <1>1, <1>3, <1>4

LEMMA CarriedFewer ==
    ASSUME NEW r \in Command, Shape(r), r.step \in {"send", "fill"}
    PROVE  StepsLeft(AfterFile(r)) < StepsLeft(r)
<1> DEFINE q == AfterFile(r)
           S == r.ups \cup r.downs
           k == Cardinality(S)
           a == Cardinality(Names)
<1>1. /\ q.ups \cup q.downs = S \ {r.cur} /\ q.final = r.final
      /\ q.step = IF q.ups \cup q.downs = {} THEN "list" ELSE "files"
  BY AfterFileFields
<1>2. r.final = TRUE
  BY DEF Shape, Command
<1>3. S = {} \/ r.cur \in S
  BY DEF Shape, Command
<1>4. k \in Nat /\ a \in Nat /\ IsFiniteSet(S)
  BY CarriedBound
<1>5. StepsLeft(r) = 4 * k + 6 \/ StepsLeft(r) = 4 * k + 4
  BY StepsOf
<1>6. /\ q.step = "list" => StepsLeft(q) = 4 * Cardinality(S \ {r.cur}) + 3
      /\ q.step = "files" => StepsLeft(q) = 4 * Cardinality(S \ {r.cur}) + 7
  <2> HIDE DEF q, S
  <2>1. Cardinality(S \ {r.cur}) = Cardinality(q.ups \cup q.downs) /\ q.final
    BY <1>1, <1>2
  <2>2. QED
    BY <2>1, StepsOf
<1>7. CASE S = {}
  <2>1. S \ {r.cur} = S /\ q.step = "list"
    BY <1>1, <1>7
  <2>2. StepsLeft(q) = 4 * k + 3
    BY <1>6, <2>1
  <2> HIDE DEF q, k
  <2>3. StepsLeft(q) < StepsLeft(r)
    BY <1>4, <1>5, <2>2
  <2>4. QED
    BY <2>3 DEF q
<1>8. CASE r.cur \in S
  <2>1. Cardinality(S \ {r.cur}) = k - 1
    BY <1>4, <1>8, FS_RemoveElement
  <2>2. q.step \in {"list", "files"}
    BY <1>1
  <2>3. StepsLeft(q) = 4 * (k - 1) + 3 \/ StepsLeft(q) = 4 * (k - 1) + 7
    BY <1>6, <2>1, <2>2
  <2> HIDE DEF q, k
  <2>4. StepsLeft(q) < StepsLeft(r)
    BY <1>4, <1>5, <2>3
  <2>5. QED
    BY <2>4 DEF q
<1>9. QED
  BY <1>3, <1>7, <1>8

LEMMA SentFewer ==
    ASSUME NEW r \in Command, r.step = "send",
           NEW q, q = [r EXCEPT !.step = "open", !.ups = Rest(@, r.cur)]
    PROVE  StepsLeft(q) < StepsLeft(r)
<1> DEFINE k == Cardinality(r.ups \cup r.downs)
           j == Cardinality(q.ups \cup q.downs)
<1>1. q.ups \cup q.downs \subseteq r.ups \cup r.downs /\ q.step = "open"
  BY DEF Command, Rest
<1>2. IsFiniteSet(r.ups \cup r.downs) /\ k \in Nat
  BY CarriedBound
<1>3. j \in Nat /\ j <= k
  BY <1>1, <1>2, FS_Subset, FS_CardinalityType
<1>4. StepsLeft(r) = 4 * k + 6 /\ StepsLeft(q) = 4 * j + 5
  BY <1>1, StepsOf
<1> HIDE DEF k, j
<1>5. QED
  BY <1>2, <1>3, <1>4

LEMMA RunNearer ==
    ASSUME TypeOK, NEW c \in Cmds, Good(c), Run(c)
    PROVE  StepsLeft(cmd'[c]) < StepsLeft(cmd[c])
<1> DEFINE r == cmd[c]
<1>1. r \in Command /\ r.step # "idle"
  <2>1. r.step # "idle"
    <3>1. CASE List(c) \/ Scan(c) \/ ReadFile(c) \/ SendFile(c) \/ Fetch(c)
      BY <3>1 DEF List, Scan, ReadFile, SendFile, Fetch, At
    <3>2. CASE OpenLocal(c) \/ FillLocal(c) \/ RemoveRemote(c) \/ DeleteLocal(c)
      BY <3>2 DEF OpenLocal, FillLocal, RemoveRemote, DeleteLocal, At
    <3>3. CASE Fails(c)
      BY <3>3 DEF Fails
    <3>4. QED
      BY <3>1, <3>2, <3>3 DEF Run
  <2>2. QED
    BY <2>1 DEF TypeOK
<1>2. Shape(r)
  BY <1>1 DEF Good, Active
<1>3. ASSUME NEW q, Becomes(c, q) PROVE cmd'[c] = q
  BY <1>3 DEF Becomes, TypeOK
<1>4. ASSUME NEW s \in {"list", "open", "fill"}
      PROVE  LET q == [r EXCEPT !.step = s] IN
             q.step = s /\ q.ups = r.ups /\ q.downs = r.downs /\ q.final = r.final
  BY <1>1 DEF Command
<1>5. ASSUME NEW q \in Command, q.ups = r.ups, q.downs = r.downs,
             r.step \notin {"idle", "msg"}
      PROVE  StepsLeft(Ended(q, "err")) < StepsLeft(r)
  <2>1. /\ Ended(q, "err").step = "msg" /\ Ended(q, "err").ups = r.ups
        /\ Ended(q, "err").downs = r.downs
    BY <1>5, EndedFields
  <2>2. r.step \in {"list", "scan", "files", "send", "open", "fill", "remove", "delete"}
    BY <1>1, <1>5 DEF Command
  <2> HIDE DEF r
  <2>3. QED
    BY <1>1, <2>1, <2>2, SameFiles
<1>6. ASSUME List(c) PROVE StepsLeft(cmd'[c]) < StepsLeft(r)
  <2> DEFINE q == [r EXCEPT !.step = "scan", !.seen = {n \in Names : remote[n] # None}]
  <2>1. cmd'[c] = q /\ r.step = "list"
    BY <1>6, <1>3 DEF List, At
  <2>2. q.step = "scan" /\ q.ups = r.ups /\ q.downs = r.downs /\ q.final = r.final
    BY <1>1 DEF Command
  <2> HIDE DEF q, r
  <2>3. QED
    BY <1>1, <2>1, <2>2, SameFiles
<1>7. ASSUME Scan(c) PROVE StepsLeft(cmd'[c]) < StepsLeft(r)
  <2> DEFINE q == [r EXCEPT !.seen = {}, !.final = TRUE]
             e == [Ended(q, "ok") EXCEPT !.files = [n \in Names |-> StatusOf(n, r.seen)]]
             w == WithLeft(q, LocalOnly(r.seen), RemoteOnly(r.seen))
  <2>1. r.step = "scan"
    BY <1>7 DEF Scan, At
  <2>2. CASE cmd'[c] = e
    <3>1. e.step = "msg" /\ e.ups = r.ups /\ e.downs = r.downs
      BY <1>1 DEF Command, Ended
    <3> HIDE DEF e, r
    <3>2. QED
      BY <1>1, <2>1, <2>2, <3>1, SameFiles
  <2>3. CASE cmd'[c] = w /\ ~r.final
    <3>1. q \in Command /\ r.seen \subseteq Names
      BY <1>1 DEF Command
    <3>2. LocalOnly(r.seen) \in SUBSET Names /\ RemoteOnly(r.seen) \in SUBSET Names
      BY <3>1 DEF LocalOnly, RemoteOnly, Scanned
    <3>3. w \in Command /\ w.step \in {"list", "files"}
      BY <3>1, <3>2, WithLeftType
    <3>4. w.final = TRUE
      BY <3>1 DEF WithLeft, Command
    <3> DEFINE k == Cardinality(w.ups \cup w.downs)
               j == Cardinality(r.ups \cup r.downs)
               a == Cardinality(Names)
    <3>5. k \in Nat /\ a \in Nat /\ k <= a
      BY <3>3, CarriedBound
    <3>6. j \in Nat
      BY <1>1, CarriedBound
    <3> HIDE DEF w, r
    <3>7. StepsLeft(w) = 4 * k + 3 \/ StepsLeft(w) = 4 * k + 7
      BY <3>3, <3>4, StepsOf
    <3>8. StepsLeft(r) = 4 * j + (4 * a + 8)
      BY <2>1, <2>3, StepsOf
    <3> HIDE DEF k, j, a
    <3>9. QED
      BY <2>3, <3>5, <3>6, <3>7, <3>8
  <2>4. QED
    BY <1>7, <1>3, <2>2, <2>3 DEF Scan
<1>8. ASSUME ReadFile(c) PROVE StepsLeft(cmd'[c]) < StepsLeft(r)
  <2>1. PICK m \in r.ups :
          Becomes(c, LET q == [cmd[c] EXCEPT !.cur = m, !.data = local[m]] IN
                     IF Missing(m) THEN Ended(q, "err") ELSE [q EXCEPT !.step = "send"])
    BY <1>8 DEF ReadFile
  <2> DEFINE q == [r EXCEPT !.cur = m, !.data = local[m]]
             p == [q EXCEPT !.step = "send"]
  <2>2. m \in Names /\ local[m] \in LocalStates /\ r.step = "files"
    BY <1>1, <1>8, <2>1, FieldType DEF TypeOK, ReadFile, At
  <2>3. q \in Command /\ q.ups = r.ups /\ q.downs = r.downs
    BY <1>1, <2>2 DEF Command
  <2>4. p.step = "send" /\ p.ups = r.ups /\ p.downs = r.downs
    BY <2>3 DEF Command
  <2>5. cmd'[c] = IF Missing(m) THEN Ended(q, "err") ELSE p
    BY <2>1, <1>3
  <2> HIDE DEF q, p, r
  <2>6. CASE Missing(m)
    BY <1>5, <2>2, <2>3, <2>5, <2>6
  <2>7. CASE ~Missing(m)
    BY <1>1, <2>2, <2>4, <2>5, <2>7, SameFiles
  <2>8. QED
    BY <2>6, <2>7
<1>9. ASSUME SendFile(c) PROVE StepsLeft(cmd'[c]) < StepsLeft(r)
  <2>1. r.step = "send"
    BY <1>9 DEF SendFile, At
  <2>2. \/ cmd'[c] = Ended(r, "err")
        \/ cmd'[c] = AfterFile(r)
        \/ cmd'[c] = [r EXCEPT !.step = "open", !.ups = Rest(@, r.cur)]
    BY <1>9, <1>3 DEF SendFile, Fail, Sent
  <2>3. CASE cmd'[c] = Ended(r, "err")
    BY <1>1, <1>5, <2>1, <2>3
  <2>4. CASE cmd'[c] = AfterFile(r)
    BY <1>1, <1>2, <2>1, <2>4, CarriedFewer
  <2>5. CASE cmd'[c] = [r EXCEPT !.step = "open", !.ups = Rest(@, r.cur)]
    BY <1>1, <1>2, <2>1, <2>5, SentFewer
  <2>6. QED
    BY <2>2, <2>3, <2>4, <2>5
<1>10. ASSUME Fetch(c) PROVE StepsLeft(cmd'[c]) < StepsLeft(r)
  <2>1. PICK m \in r.downs :
          Becomes(c, LET q == [cmd[c] EXCEPT !.cur = m] IN
                     IF remote[m] \in Contents
                       THEN [q EXCEPT !.step = "open", !.data = remote[m]]
                       ELSE FetchFailed(q))
    BY <1>10 DEF Fetch
  <2> DEFINE q == [r EXCEPT !.cur = m]
             p == [q EXCEPT !.step = "open", !.data = remote[m]]
  <2>2. m \in Names /\ r.step = "files"
    BY <1>1, <1>10, <2>1, FieldType DEF Fetch, At
  <2>3. q \in Command /\ q.ups = r.ups /\ q.downs = r.downs
    BY <1>1, <2>2 DEF Command
  <2>4. p.step = "open" /\ p.ups = r.ups /\ p.downs = r.downs
    BY <2>3 DEF Command
  <2>5. cmd'[c] = IF remote[m] \in Contents THEN p ELSE Ended(q, "err")
    BY <2>1, <1>3 DEF FetchFailed
  <2> HIDE DEF q, p, r
  <2>6. CASE remote[m] \notin Contents
    BY <1>5, <2>2, <2>3, <2>5, <2>6
  <2>7. CASE remote[m] \in Contents
    BY <1>1, <2>2, <2>4, <2>5, <2>7, SameFiles
  <2>8. QED
    BY <2>6, <2>7
<1>11. ASSUME OpenLocal(c) PROVE StepsLeft(cmd'[c]) < StepsLeft(r)
  <2>1. /\ r.step = "open"
        /\ cmd'[c] = [r EXCEPT !.step = "fill"] \/ cmd'[c] = Ended(r, "err")
    BY <1>11, <1>3 DEF OpenLocal, At, Fail
  <2>2. QED
    BY <1>1, <1>4, <1>5, <2>1, SameFiles
<1>12. ASSUME FillLocal(c) PROVE StepsLeft(cmd'[c]) < StepsLeft(r)
  <2>1. r.step = "fill" /\ cmd'[c] = AfterFile(r)
    BY <1>12, <1>3 DEF FillLocal, At
  <2>2. QED
    BY <1>1, <1>2, <2>1, CarriedFewer
<1>13. ASSUME RemoveRemote(c) \/ DeleteLocal(c) PROVE StepsLeft(cmd'[c]) < StepsLeft(r)
  <2>1. r.step \in {"remove", "delete"}
    BY <1>13 DEF RemoveRemote, DeleteLocal, At
  <2>2. cmd'[c] = Ended(r, "err") \/ cmd'[c] = [r EXCEPT !.step = "list"]
    BY <1>13, <1>3 DEF RemoveRemote, DeleteLocal, Fail
  <2>3. r.final = TRUE
    BY <1>1, <1>2, <2>1 DEF Shape, Command
  <2>4. CASE cmd'[c] = Ended(r, "err")
    BY <1>1, <1>5, <2>1, <2>4
  <2>5. CASE cmd'[c] = [r EXCEPT !.step = "list"]
    BY <1>1, <1>4, <2>1, <2>3, <2>5, SameFiles
  <2>6. QED
    BY <2>2, <2>4, <2>5
<1>14. ASSUME Fails(c) PROVE StepsLeft(cmd'[c]) < StepsLeft(r)
  <2>1. r.step \notin {"idle", "msg"} /\ cmd'[c] = Ended(r, "err")
    BY <1>14, <1>3 DEF Fails, Fail
  <2>2. QED
    BY <1>1, <1>5, <2>1
<1>15. QED
  BY <1>6, <1>7, <1>8, <1>9, <1>10, <1>11, <1>12, <1>13, <1>14 DEF Run

Nearer(c) ==
    Active(c) =>
        \/ cmd'[c] = [cmd[c] EXCEPT !.data = cmd'[c].data]
        \/ StepsLeft(cmd'[c]) < StepsLeft(cmd[c])

(* The message is read, or the process dies: nothing is left. *)
LEMMA IdleIsLeast ==
    ASSUME NEW r \in Command, r.step # "idle"
    PROVE  StepsLeft(Idle) < StepsLeft(r)
<1> DEFINE k == Cardinality(r.ups \cup r.downs)
           a == Cardinality(Names)
<1>1. k \in Nat /\ a \in Nat
  BY CarriedBound
<1>2. StepsLeft(Idle) = 0
  <2>1. Idle.ups \cup Idle.downs = {} /\ Idle.step = "idle"
    BY DEF Idle
  <2>2. Cardinality({}) = 0
    BY FS_EmptySet
  <2>3. QED
    BY <2>1, <2>2, StepsOf
<1> HIDE DEF k, a
<1>3. StepsLeft(r) > 0
  <2>1. /\ r.step = "list" => StepsLeft(r) = 4 * k + IF r.final THEN 3 ELSE 4 * a + 9
        /\ r.step = "scan" => StepsLeft(r) = 4 * k + IF r.final THEN 2 ELSE 4 * a + 8
        /\ r.step = "files" => StepsLeft(r) = 4 * k + 7
        /\ r.step = "send" => StepsLeft(r) = 4 * k + 6
        /\ r.step = "open" => StepsLeft(r) = 4 * k + 5
        /\ r.step \in {"fill", "remove", "delete"} => StepsLeft(r) = 4 * k + 4
        /\ r.step = "msg" => StepsLeft(r) = 4 * k + 1
    BY StepsOf DEF k, a
  <2>2. r.step \in {"list", "scan", "files", "send", "open", "fill", "remove",
                    "delete", "msg"}
    BY DEF Command
  <2>3. QED
    BY <1>1, <2>1, <2>2
<1>4. QED
  BY <1>2, <1>3

LEMMA NearerStep ==
    ASSUME TypeOK, Inv, [Next]_vars, NEW d \in Cmds
    PROVE  Nearer(d)
<1>1. cmd[d] \in Command
  BY DEF TypeOK
<1>2. ASSUME cmd'[d] = cmd[d] PROVE Nearer(d)
  BY <1>1, <1>2 DEF Nearer, Command
<1>3. ASSUME cmd'[d] = Idle PROVE Nearer(d)
  BY <1>1, <1>3, IdleIsLeast DEF Nearer, Active
<1>4. ASSUME NEW c \in Cmds, Key(c) PROVE Nearer(d)
  <2>1. ASSUME NEW r, Launch(c, r) PROVE Nearer(d)
    <3>1. CASE d = c
      BY <2>1, <3>1 DEF Launch, Nearer
    <3>2. CASE d # c
      BY <1>2, <2>1, <3>2 DEF Launch, Becomes, TypeOK
    <3>3. QED
      BY <3>1, <3>2
  <2>2. CASE Refresh(c) \/ SyncFiles(c)
    BY <2>1, <2>2 DEF Refresh, SyncFiles
  <2>3. ASSUME NEW n \in Names, Upload(c, n) PROVE Nearer(d)
    BY <2>1, <2>3 DEF Upload
  <2>4. ASSUME NEW n \in Names, Download(c, n) \/ Remove(c, n) \/ Delete(c, n)
        PROVE  Nearer(d)
    BY <2>1, <2>4 DEF Download, Remove, Delete
  <2>5. QED
    BY <1>4, <2>2, <2>3, <2>4 DEF Key
<1>5. ASSUME NEW c \in Cmds, Run(c) PROVE Nearer(d)
  <2>1. CASE d = c
    BY <1>5, <2>1, RunNearer DEF Nearer, Inv
  <2>2. CASE d # c
    <3>1. ASSUME NEW q, Becomes(c, q) PROVE Nearer(d)
      BY <1>2, <2>2, <3>1 DEF Becomes, TypeOK
    <3>2. CASE List(c) \/ Scan(c)
      BY <3>1, <3>2 DEF List, Scan
    <3>3. CASE ReadFile(c) \/ Fetch(c)
      BY <3>1, <3>3 DEF ReadFile, Fetch
    <3>4. CASE SendFile(c) \/ OpenLocal(c) \/ FillLocal(c)
      BY <3>1, <3>4 DEF SendFile, OpenLocal, FillLocal, Fail
    <3>5. CASE RemoveRemote(c) \/ DeleteLocal(c) \/ Fails(c)
      BY <3>1, <3>5 DEF RemoveRemote, DeleteLocal, Fails, Fail
    <3>6. QED
      BY <1>5, <3>2, <3>3, <3>4, <3>5 DEF Run
  <2>3. QED
    BY <2>1, <2>2
<1>6. ASSUME NEW c \in Cmds, Deliver(c) PROVE Nearer(d)
  BY <1>2, <1>3, <1>6 DEF Deliver, Becomes, TypeOK
<1>7. ASSUME NEW c \in Cmds, UserSavesSource(c) PROVE Nearer(d)
  <2>1. PICK v \in Versions : Becomes(c, [cmd[c] EXCEPT !.data = v])
    BY <1>7 DEF UserSavesSource
  <2>2. CASE d = c
    <3>1. cmd'[d] = [cmd[d] EXCEPT !.data = v] /\ cmd'[d].data = v
      BY <1>1, <2>1, <2>2 DEF Becomes, TypeOK, Command
    <3>2. QED
      BY <3>1 DEF Nearer
  <2>3. CASE d # c
    BY <1>2, <2>1, <2>3 DEF Becomes, TypeOK
  <2>4. QED
    BY <2>2, <2>3
<1>8. ASSUME NEW n \in Names, OtherClient(n) \/ UserSaves(n) \/ UserDeletes(n)
      PROVE  Nearer(d)
  BY <1>2, <1>8 DEF OtherClient, UserSaves, UserDeletes
<1>9. ASSUME Crash PROVE Nearer(d)
  BY <1>3, <1>9 DEF Crash
<1>10. CASE UNCHANGED vars
  BY <1>2, <1>10 DEF vars
<1>11. QED
  BY <1>4, <1>5, <1>6, <1>7, <1>8, <1>9, <1>10 DEF Next

(* For any number of files and commands: a synchronisation of n names is over after
   4n + 9 steps of its own, whatever everybody else does to the files. *)
THEOREM CommandsAreBounded == Spec => CommandBounded
<1>1. ASSUME TypeOK, Inv, [Next]_vars
      PROVE  [\A c \in Cmds : Active(c) =>
                \/ cmd'[c] = [cmd[c] EXCEPT !.data = cmd'[c].data]
                \/ StepsLeft(cmd'[c]) < StepsLeft(cmd[c])]_vars
  <2>1. \A c \in Cmds : Nearer(c)
    BY <1>1, NearerStep
  <2>2. QED
    BY <2>1 DEF Nearer
<1>2. QED
  BY <1>1, Invariance, PTL DEF Spec, CommandBounded
=============================================================================
