# GophKeeper in TLA+

GophKeeper keeps cards, texts, credentials and files of its users. A terminal client
(`internal/tui`, `internal/service/grpc/client`) encrypts them and calls a gRPC server
(`internal/grpc_handler`), which stores them in PostgreSQL and in a directory per user
(`internal/repository`). This directory models the program, checks the models with TLC and
proves what matters most about them with TLAPS.

## 1. Inventory

| component | state | operations | module |
|---|---|---|---|
| file service: `grpc_handler/file.go`, `repository/file.go`, `file_manager.go` | rows of table `file`; a blob per user and name on disk | FileUpload, FileDownload, FileRemove, FileGetList | `Files` |
| entity service: `grpc_handler/entity.go`, `repository/entity.go` | rows of table `entity` | EntityCreate, EntityUpdate, EntityDelete, EntityGetList | `Entities` |
| accounts and tokens: `grpc_handler/user.go`, `repository/user.go`, `token.go` | tables `users` and `access_token`, the users' directories | Registration, Authentication, UserExist, the token check | `Accounts` |
| transactions: `repository/database_storage.go`, `helpers/pg_errors.go` | pool connections, the attempt, the caller's slice | DataBase.retry, Classify | `TxRetry` |
| server process: `service/grpc/server/server.go`, `cmd/gophkeeper_server` | serving, stopping, stopped | signal, GracefulStop, crash, restart | `TxRetry` (shutdown), crashes in the three services |
| terminal client: `tui/model.go`, `commands.go`, screens, `adapter.go` | tuiModel; token and masterPassword; commands under way | keys, commands, result messages | `Session` |
| files on the client: `tui/adapter.go`, `files.go`, `commands.go` | the local directory, the list of files | SyncFiles, upload, download, remove, delete the local copy | `FileSync` |
| editor and cards: `tui/editor.go`, `rows.go` | a form | keys of the form, draft, validation, conversion, dates | `Editor` |
| client RPC layer: `client.go`, `decode.go`, `builders.go` | none | one call per operation, Synchronize | calls of `Session` and `FileSync`, conversions in `Editor` |
| encryption, configuration, logging, generated code, wiring | | | not modelled, see 8 |

How they interact. A key makes `Update` return a command; bubbletea runs it in a goroutine
of its own and feeds its message back to `Update`. A command calls the adapter, the adapter
one or several RPCs, and gRPC runs a handler per call in a goroutine. A handler checks the token,
then makes one to three database calls and touches the disk; every database call is a transaction
inside `DataBase.retry`, on a connection of one pool. There is no lock anywhere: handlers share the
tables and the disk, commands share the adapter's credentials and the local directory.

What is hard. Handlers check in one transaction and act in another; a file is a row and
a blob without a transaction over both; registration is three writes that nothing undoes;
answers get lost and clients give up while the server goes on; a retry meets state of the failed
attempt; a shutdown waits for handlers that wait for connections; results reach the client's model
in any order and on any screen; commands about files overlap with each other, with the user's
own programs and with other clients; a form changes its kind under the item it edits.
`PROJECT.json` lists each of these hazards at its line with the properties about it.

What makes each component correct: an acknowledged upload is durable and a file is a row *and* a
blob (`Files`); a name is one entity (`Entities`); a name is one account, complete when
answered, and a token is good for exactly its lifetime (`Accounts`); a statement is applied once,
a list is the list, connections come back, handlers return and shutdowns end (`TxRetry`); the screen
shows what the server holds and never waits for nothing or for ever (`Session`); a
synchronisation gives each side what the other had and harms neither (`FileSync`); what is typed is
what is stored and shown, of the item it was typed for (`Editor`).

## 2. Modules

| module | what it is |
|---|---|
| `Files` | the file service, a step per statement or system call that others can come between |
| `BlobStore` | abstract: a map from user and name to content, each call atomic or failed |
| `Entities` | the entity service |
| `EntityMap` | abstract: a map from user, name and type to data, each call atomic or failed |
| `Accounts` | registration, login, use of a token, with a clock |
| `Registry` | abstract: a map from names to passwords in which a name is written once, and the sessions of its users |
| `TxRetry` | the retry loop, the pool, handlers of several statements and the shutdown |
| `Statements` | abstract: handlers whose statements are applied once or fail |
| `Session` | the client: model, commands, credentials, and the account's entities on the server |
| `FileSync` | the client's files: its directory against the server's files |
| `Editor` | the form, its drafts, and the items they become |
| `MC*` | the instances TLC checks |
| `*Proofs` | theorems and their proofs |

The layers meet at three interfaces. `Files`, `Entities` and `Accounts` take a database call as one
atomic step that may fail before or after its effect; `TxRetry` implements `Statements`, which is
that interface: attempts, pauses and connections cannot be seen, and the death of the process in
BeginTx is the crash of every call that those three have too.
`Session` and `Editor` take a change of an entity as one atomic step that may fail before or after
its effect; `Entities` implements `EntityMap`, which is that interface. `FileSync` takes the
server as a map from names to contents whose calls are atomic, fail, or leave a damaged file;
`Files` implements `BlobStore`, which is that interface. The last two hold for the *careful*: users whose
calls about one file, or one entity, do not overlap, whatever all others do.

### Files

A key is a user and a name as the request spells it: no handler cleans it, and it is what the table
has. On disk `os.Root` walks the path, so that "a" and "./a" are one file: `Cleaned` is the path a
spelling stands for, and `BlobOf` maps keys to blobs, not one to one. `rows[k]` counts the rows of a key
(no index makes them unique), `disk[b]` is what a blob holds: nothing, empty after O_TRUNC, torn, or a
content, which carries the key it was uploaded under.
`pc[c]` is the next step of call `c`. An upload is token, exists, insert (its row), open, write; a
download is token, exists, read; a remove is token, delete (its rows), unlink. These are the
statements of the handlers in their order; each leaves by its early returns. `linked` tells the
uploads that hold an open blob whose name still exists: an unlink takes a blob away from under its
writer, and the write succeeds all the same. `DbFails`, `OpenFails`, `WriteFails`, `UnlinkFails`
and `Crash` are the faults, chosen by `Faults`. `Provisioned` are the users whose directory exists:
`Accounts` shows how a user comes to have none. `Careful` restricts the environment, not the code: the
calls of a careful user about one file do not overlap, and its names are clean already, as those of
the client here are (`normalizedFileName`); users of other clients may spell as they like.
`acked` is a history variable.

### Entities

`rows[i]` is the row with `entity_id` `i`. A create is token, the check for an empty and for a taken
name, insert; the others are token and one statement over every row it selects. The update
of the code rewrites `data` (encrypted, so a single value) and `updated_at`. `Careful` is a set of
users with a type each: a client may be careful with its cards and not with its texts. A list is
read in up to three attempts into one `slice` (`ListRetried`, `GetList`): what an attempt has read before
it failed stays in the answer, and the table may have changed meanwhile. So `EntityMap` has a list collect
at any moments of its call and promises only that all there is at the last is in it. Repeated rows are
counted in `TxRetry`.

### Accounts

`users` is unique by the index of the migration, `tokens` has issue and expiry, `dirs` the
directories. The handlers are followed step by step; `now` only moves by `Tick`.
`Second` and `TokenExpired` are numbers in the clock's unit, so `Lifetime` can have the code's two
readings of the same setting. A call that uses a token stands for the start of every other handler; it
carries a user as well, and the check looks at the token alone.

`Registry` is what the steps of a registration amount to: the name is claimed by one call, with its
password and for good, whether or not that call is ever answered; a session is opened only by who has
claimed the name or knows its password. No failure and no crash takes back either. It is about how tokens
are issued; what a call with a token may then do is no part of it.

### TxRetry

A caller is the goroutine of a handler. `Call` is a request with its first statement, `NextCall` the
statement after one that was answered without an error, `left[c]` what the handler has yet to do.
A handler ends with its first error, but a row that is not found (`FindNothing`: retry rolls back and
returns ErrNoRows) is one to some repository methods and the answer "no" to `Exists` and `UserExists`,
after which the handler goes on: `StillToDo` has both. How many statements a handler makes is left open up to
`MaxCalls`, for each handler also ends early (a token that has expired, a name that is taken).
`held[c]` counts the connections of a call: `defer tx.Rollback` runs when `retry` returns, so failed
attempts keep theirs unless COMMIT has given it back. `seen[c]` is the length of the slice a list
appends to. An error is one the server reports with a code worth a retry, one it reports with
another code, or a broken connection, which is not a PgError and so is not retried. A context
that ends shows in two places, the select between two attempts (`GiveUp`) and BeginTx (`BeginFails`);
it may at any time.

`InUse` is the number of connections the pool has handed out, `StepsLeft` a bound on what a handler
has yet to do. `Statements` keeps of a handler whether its statement runs and is applied, its reply
(carried out, no row, an error), and how many statements follow.

`server` is the process. `Signal` ends the context of `Run`: no request is accepted any more, and
GracefulStop waits for the handlers, without a timeout, while they go on to their next
statements. `Stop` is its return, `Start` the next start. `BeginFails` is the other way down.

### Session

`screen`, `items`, `selected`, `editorID` and `loading` are fields of `tuiModel`, `token` and
`masterPassword` of the adapter (whether they are set: there is one account). A command is `step`,
`op` (the call before Sync), `target`, `read` and `loaded` (what its Sync has listed) and `result` (its
message). Keys are actions of the screens that have them; `Deliver` is `updateResultMsg`.
`Fails` covers every way a call ends without an answer; its effect on the server happens then, not
at all, or later, when the command has ended with its timeout and the handler goes on. That late
effect is `Elsewhere`, which is also another client of the account: either adds an entity or removes one
at any moment, and `ShownIsServers` claims nothing of a command it comes between. The lists are
those a first attempt answers (what retries add is in `Entities` and `TxRetry`). A command on files
leaves the items alone. Reading credentials that another goroutine is writing is a race in the Go sense: the
command fails (`Fails`) or the process dies (`Quit`). The delete message and the save
message do the same and share the name `saved`; so do the four messages about files. `editorID`
is `NoItem` outside the editor: both ways into the editor set it.

### FileSync

`local` is the client's directory, `remote` the files of the account, `cmd[c]` the goroutine of a
command: its next step, the names the server has listed, the files yet to be carried in each
direction, the one in hand and its bytes. A synchronisation is the call FileGetList (`List`), the
scan of the directory a moment later (`Scan`), and then for each file that one side lacks a read and
a call (`ReadFile`, `SendFile`), or a call and a local write (`Fetch`, `OpenLocal`, `FillLocal`);
the list is sorted by status, so the uploads come first. The keys of the files screen start the same
steps for one file, and every command ends with a listing of its own, `final`. A local write is
two steps, since `os.WriteFile` and `copyFile` truncate before they write: two writers mix, a
reader sees a torn file, a crash leaves one. A file to upload has one of three `Paths`. One
from outside the directory is copied into it after it was sent; the copy reads the source again, which
the user may have saved meanwhile (`UserSavesSource`). The file of the directory itself is not copied if
its path is spelled as the program spells it. By any other spelling (a relative path, a link) it is
taken for a file from outside: `copyFile` truncates its own source, finds nothing to copy and reports no
error (`SourceIsTarget`).

`Fails` is every call, read or write that fails or whose time is up, with or without its effect;
`Crash` loses all commands. `OtherClient`, `UserSaves` and `UserDeletes` change either side at any
step. `was` is history: for each command both sides of every file when it began, or `Disturbed` once
somebody else has changed that file. `Init` is any pair of directories, torn and damaged files
among them. Names are those that `safeFileName` leaves as they are; sizes and dates are left out.

### Editor

`form` is the item it edits (none for a new one), the kind of the draft and the fields; `stored` the
items of the account. `Type` puts a string into a field, `CtrlT` is `nextEditorType`: the fields
become a draft (`DraftOf`), and the draft the fields of the next kind (`InputsFor`). A text and
credentials take the secret as it is, a card and a file trim it: `secret` and `stripped` are history,
the secret as it was put in and whether a kind that trims has had it since. `CtrlS`
validates the draft, converts it, and carries out the call. It is one step because the id and the draft
are passed to the command by value: nothing the user does to the form afterwards reaches it.
`OtherClient` changes or deletes items under the form.

Strings are members of a set with `Trimmed`, `BaseName` and `Numeral` as functions on it, so that what
trimming and `Atoi`/`Itoa` do to them is there and their characters are not. A date is the
sequence of the numbers typed, and the last day of a month is computed as the code does, as the day
before the first of the next. `meta` is the JSON of a card, whose fields the code carries
through drafts of other kinds, or a description.

## 3. Runs

| run | what it checks | what it shows |
|---|---|---|
| `files` | `TypeOK`, `DownloadAuthentic`, `AckedDurable`, `ImplementsStore` | two calls of two users, one of them careful, the other with two spellings of one name, all faults: the careful user's files are an atomic map and stay, and no bytes of another user or path are ever returned |
| `files_row_blob` | `RowHasBlob` is violated | a remove racing an upload leaves a row without a blob, without any fault |
| `entities` | `TypeOK`, `DuplicatesBounded`, `UniqueNames`, `ImplementsMap` | one user, careful with one type and not with the other, all faults: an atomic map beside a type with duplicates, which are bounded by the calls in flight; lists that are retried |
| `accounts` | `TypeOK`, `RegisteredFully`, `OneWinner`, `LoginTokenHonoured`, `ImplementsRegistry` | two clients race for one name with different passwords, and the name is taken once and for good; tokens expire on time |
| `accounts_token` | `EveryTokenHonoured` is violated | a registration's token is dead on arrival |
| `txretry` | `TypeOK`, `ExactlyOnce`, `PoolAccounted`, `ListCovers`, `PoolServes`, `HandlerBounded`, `ImplementsStatements`, `EveryCallEnds`, `ShutdownEnds` | all faults, signals and restarts on a pool of five: statements are applied once, find nothing or fail, the pool never locks, every step brings a handler nearer to its end |
| `txretry_list` | `ListComplete` is violated | a retried list has rows twice |
| `txretry_begin` | `BeginErrorReturned` is violated | a failing BeginTx ends the process |
| `session` | `TypeOK`, `LoadingBacked`, `ShownIsServers`, `LoadingEnds` | two commands at once, two kinds |
| `session_logout` | `LogoutHolds` is violated | a late result shows the list after logout |
| `filesync` | `TypeOK`, `SyncConverges`, `SyncPreserves`, `SyncStopsClean`, `CommandDone`, `ShownIsTrue`, `CommandBounded`, `CommandsEnd` | one command after the other on two files, while both sides are changed at any step, with failures and crashes; uploads by all three kinds of path |
| `editor` | `TypeOK`, `SwitchKeepsSecret`, `EditsOwnItem`, `ResaveKeeps`, `SavedIsShown`, `SavedIsComplete` | every order of keys through every kind of form, refused and failing saves, another client |

Why the bounds are enough. Races of handlers are between two calls about one key, and a crash or a
failure is one more actor. In `files` both users have a directory (a user without one only ever
fails to open a blob, which "disk" gives as well), two versions tell an old content of the careful user
from a new one, and one content for each spelling tells those of the other apart.
In `entities` three ids are one more than the calls, so that the bound and not the supply of ids stops
the duplicates. In `accounts` the clock runs past the expiry of a token issued at moment 1, with
a second of two ticks so that seconds and nanoseconds differ. In `txretry` a call can use all three
attempts, a handler goes on from one statement to another (the code's make up to three; a third
adds no new kind of step), and five connections are the least for two callers (see below). In
`session` two commands and two kinds are the least for overlapping commands and for a snapshot torn
between two lists. In `filesync` the run has one command: what a second one does to the files of the
first, a call, a truncation, a write, an unlink, is a step of the other client or of the user as far as
the first can tell, at any moment; two names are the least for a loop that stops in the middle, two
versions for sides that differ. The theorems hold for any number of commands, and two commands on one name
(`Cmds = {c1, c2}`, `Names = {a}` in `filesync.cfg`) pass as well. In `editor` the
strings are chosen so that trimming, a secret with blanks, a leading zero and a path matter (" 07", "07", "7", "d/f"), the dates
are a month that ends the year, a leap February and a date that does not exist; two items can
differ in kind under one name.

`CHECK_DEADLOCK FALSE` stands in the two configurations of `Session` only: the user may end the
program, and nothing happens after that.

## 4. Fairness

`TxRetry`: PostgreSQL answers (weak fairness of the function and of COMMIT), the timer fires (of the
pause), a handler that can make its next statement does, GracefulStop returns when the handlers have,
and the pool serves waiting callers in their order (strong fairness of Begin, since a
connection may come and go between two looks). No deadline, failure, request or signal is assumed to
happen. Under this every handler returns and every shutdown ends, if the pool has more than two
connections per caller (`PoolServes`): two failed attempts are what each can be sitting on while it
waits for its third. With four connections, which is the pool's default on a small machine (pgxpool: the larger of 4
and the number of CPUs), two callers starve one another until a deadline frees them, and then
`BeginTx` fails and the server dies of it (`txretry_begin`, with that pool).

`Session`: a command goes on (its context has a timeout, `commands.go:10-15`) and bubbletea reads its
messages: weak fairness of each command's steps and of the delivery of its result. No key
is assumed to be pressed.

`FileSync`: the same, as weak fairness of whatever step the command or its delivery has next. `Fails`
is among the steps, but nothing forces it.

The other modules state no fairness and no liveness: a handler is a bounded sequence of steps.

## 5. Findings

Each is a run of its own, a disagreement between the code and what its own words say.

1. `grpc_handler/file.go:110`, run `files_row_blob`: FileRemove unlinks after it has deleted the row.
2. `grpc_handler/user.go:95`, run `accounts_token`: the lifetime lacks `time.Second`.
3. `repository/entity.go:116` (and `file.go`), run `txretry_list`: the slice outlives the attempt.
4. `repository/database_storage.go:90`, run `txretry_begin`: the defer before the check of the error.
5. `tui/model.go:191`, run `session_logout`: results are applied after logout.

Four of them are isolated by a theorem: with the cause gone the property holds, so there is no second
cause. `RowHasBlob` holds where calls about one file do not overlap, nothing fails and every user has a
directory (`OnlyOverlapsLoseBlobs`). `EveryTokenHonoured` holds in UTC when the unit that
Registration passes is the second (`OnlyTheUnitIsWrong`). A list that its first attempt answers is exact
(`FirstAttemptExact`), and so `ListComplete` holds where no query and no commit fails
(`ListsCompleteUnlessRetried`). `LogoutHolds` holds where one command is under way at a time
(`OnlyOverlapsUndoLogout`). The fifth needs none: `BeginFails` is the only step that can lose a call.

More is visible in how the properties had to be stated:

* `UniqueNames` speaks of careful users: overlapping creates of one name both succeed.
* `LoginTokenHonoured` is checked and proved with `ZoneOffset = 0`: a stored `exp` is shifted by the
  server's distance from UTC. `TokensExpire` says when a token is refused in any zone.
* `SavedIsComplete` excepts credentials that are saved as a text or a file: their login is lost.
* `EditsOwnItem` and `SavedIsShown`: an edit drops the title and the description of the form, and
  the user reads that the item was saved.
* `DownloadAuthentic` speaks of paths, not names: two spellings of a name share their bytes.
* `ImplementsMap` lets a list hold what an earlier attempt has read, entities removed since among it.
* `CommandDone` has an answered upload leave the local copy empty, when it named the file of the
  directory by another spelling of its path.
* `SwitchKeepsSecret`: passing card or binary trims a secret whose blanks text and creds keep, and loses
  one of blanks only; the title and, past binary, login and description are not kept at all.
* `ShownIsServers`, `SyncPreserves` and their like speak of commands, and of files, that nobody else
  has come between: an older snapshot over a newer one, an indicator cleared while another command still
  runs, another item under the selection than the one asked about, a local file saved during a
  synchronisation and overwritten are behaviours of the models, as of the code, that no property forbids.
* `SyncConverges` speaks of names: a file that differs on the two sides stays so, one that was removed
  from one side comes back from the other, and a torn local copy counts as a copy.

## 6. Proofs

All theorems hold for every value of the constants that satisfies the named assumptions, and every
proof is checked to the last leaf. They are `Spec => []P` for an inductive invariant that implies `P`,
except where said.

* `FilesProofs`. `DownloadsAuthentic`: the invariant adds that what a blob or a reply holds was
  uploaded under a key of that blob, and that a request's data belongs to its key; for the bytes of
  the path nobody needs to be careful. That a careful user gets those of the very name follows from its
  keys being the only ones over their blobs.
  `AckedSurvives`: at most one call is active per key of a careful user; the invariant says what row
  and blob are at every step of that call. `StoreImplemented` is the refinement: `Under` is computed
  before and after each step, and a step is a step of `BlobStore` or a stutter.
  `OnlyOverlapsLoseBlobs` adds `RowBacked` to that invariant: a row without a blob has an upload about
  to create it.
* `EntitiesProofs`. `DuplicatesAreBounded` counts: a create passes the check only when no row is
  there, so that the rows and the creates past the check together are the creates past the check,
  which are calls; every later step trades one for the other. The proof is about cardinalities of
  finite sets. `NamesUnique`: a careful user's create past its check has no row of its name.
  `MapImplemented` is the refinement, on top of that.
* `AccountsProofs`. `RegistrationsComplete`: at the step that makes the directory, account and
  token are there and belong to the request; it uses that users and tokens are never overwritten.
  `NamesWonOnce`: winners and registrations past the INSERT together are at most one, because only
  one INSERT finds the name free. `LoginTokensHonoured` is about steps and assumes `ZoneOffset = 0`: the
  invariant says that the expiry stored with a token is its issue plus the lifetime of who issued it
  (`ExpiryStored`), and that a token in a request or a reply has been stored (`UsedThere`, `GivenThere`).
  `TokensExpire` is the same without the assumption, for the expiry as the zone shifts it, and
  `OnlyTheUnitIsWrong` follows the same way. `RegistryImplemented` is the refinement: it needs that at
  the token step the password of the request is the account's.
* `TxRetryProofs`. `AppliedExactlyOnce`: before its COMMIT a call has applied nothing, and after an
  error worth a retry or a row not found neither. `ConnectionsReturned` bounds `held` by the attempt.
  `ListsCoverTheTable`: at COMMIT the slice has at least one whole answer. All three for any number of
  statements per handler, and across signals, deaths and restarts of the server. `PoolNeverLocks` counts:
  when all wait in BeginTx each has used two attempts at most, so that the connections handed out are
  numbered one and two for each caller, and those are fewer than the pool has. `HandlersAreBounded`
  is the measure of termination: a step of a handler lowers `StepsLeft`, and a step of another
  leaves its step, attempt, connections and reply alone, but for a death of the process, which ends it.
  `StatementsImplemented` is the refinement: attempts and pauses stutter, and the step that returns is the
  one that succeeds or fails. `FirstAttemptExact` needs that the slice is empty until the first
  attempt reads (`FreshSlice`).
* `SessionProofs`. `WaitsForSomething` is nearly inductive. `RefreshIsTrue` is not: the
  invariant follows the command that runs alone. `Gathered` says that what it has listed are
  exactly the server's entities of the kinds read so far; that needs `Single` (nothing else
  runs), `LoggedIn` (it has passed the check of the credentials, or will, and no logout can be
  between the two writes), and `Visible` (it cannot be on the login screen when its result arrives).
  `OnlyOverlapsUndoLogout`: with one command at a time what is under way on the login screen is the
  logout, a login, or its error (`OnlyLogins`).
* `FileSyncProofs`. The invariant is about one command at a time and is kept by every step of
  every other, for a step that changes a file disturbs it for all the others. `Shape` ties step,
  file in hand and queues together; `SyncProgress` says of each undisturbed file where it is on the
  way from its state at the beginning to the merged one (`OnTheWay` for the one in hand), `FileProgress`
  the same for the commands about one file, `SeenTrue` that a listing is true of undisturbed files.
  `CommandsAreBounded` is the measure of termination: four steps for each file yet to be carried and
  nine besides, and a file leaves its queue when it is taken in hand.
* `EditorProofs`. The invariant has the types, that a stored card is complete with a date of the
  calendar, that a form that is as it was opened shows what was opened (`OpenedAsIs`), that a form of a
  kind that trims counts as one (`FormOK`), and `SwitchKeepsSecret`; the theorems about steps follow from it by the laws of `Trimmed`, `Numeral` and
  `Itoa` in `EditorAssumption`, and by a lemma about the last day of a month.

Assumptions, each named in its module: the special values differ from the data
(`FilesAssumption`, `EntitiesAssumption`, `AccountsAssumption`, `FileSyncAssumption`), calls and ids are
finitely many (`EntitiesAssumption`), callers are finitely many and the pool is not empty
(`TxRetryAssumption`), file names are finitely many (`FileSyncAssumption`), the kinds are a
non-empty list (`SessionAssumption`), trimming is idempotent and a number is read back from its
text (`EditorAssumption`).

Only model-checked: `EveryCallEnds`, `ShutdownEnds`, `LoadingEnds` and `CommandsEnd`, which are liveness
under fairness and out of the prover's reach. What is proved of the first and the last is that nothing
goes on without end and that the pool never locks (`HandlerBounded`, `CommandBounded`, `PoolServes`);
left to fairness is that a step that can be taken is. Every invariant, step property and refinement of a
passing run is proved. `BeginErrorReturned` has no theorem: with its fault excluded nothing is left to
prove.

## 7. What the models assume of the libraries

* An error of COMMIT that carries a code of the retriable classes means that the transaction was
  aborted; a broken connection is not reported as a PgError.
* `Tx.Commit` gives the connection back, whatever its result; `BeginTx` returns a nil Tx with an error.
* GracefulStop accepts no request any more and returns when every handler has returned.
* `root.WriteFile`, `os.WriteFile` and `os.Create` create or truncate, then write; an unlink of an open
  file leaves the writer its descriptor only.
* bubbletea calls `Update` for one message at a time, and runs every command in a goroutine of its own.

That a user is careful is an assumption about users, and a strong one: a handler outlives the client's
timeout, so that even one user who waits for an error before trying again can have two calls about one
file. `DownloadAuthentic` and `DuplicatesBounded` say what is left for everybody else.

## 8. Not modelled

Encryption and the conversion of time stamps: pure functions over a library. Configuration, logging, TLS,
migrations, a listener that fails, Ping: read once or without state. Generated code and mocks. On the
client: rendering, cursor and focus inside forms, the mode of the login form, status texts but for
the one of a save, the selection in the list of files, sizes and dates of files.

The composition of all layers in one module is not modelled either: the interfaces of section 2
take its place, since the product of the layers is beyond TLC.
