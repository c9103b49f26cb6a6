# A formal model of GiraffeMail

GiraffeMail archives IMAP mailboxes: it indexes the metadata of every message,
stores every body in a content-addressed blob store, and then lets users delete
or move messages on the mail server. Its golden rule is that *a message leaves
the server only when the archive holds it*. Around the archive there is a
service: users, sessions, accounts, cleanup jobs, lists and searches, and a
database that is migrated at every start. This directory holds a TLA+ model of
both, TLC runs over small instances of it, and TLAPS proofs of all its invariants,
action properties and refinements for every instance.

Paths below are relative to `src/internal/` unless they start with `src/`.

## Inventory

| Component | State | Operations | Hard behaviour |
|---|---|---|---|
| Mail server (external), driven by `mailconn/client.go` | mailboxes: UIDVALIDITY, messages by UID, `\Deleted` flags | SELECT, FETCH, SEARCH, STORE, EXPUNGE, MOVE, COPY, APPEND | other clients, lost replies, a mailbox recreated under a new UIDVALIDITY |
| Rows: `db/migrations/000001_initial_schema.sql`, `repository/sqlite` | `messages` by (mailbox, uid), cursor and UIDVALIDITY in `mailboxes` | upsert, archive transaction, marks | statements of three components on the same rows |
| Blob store: `store/blob.go` | one file per checksum and account, a lock per path, the key | `Write` (check, lock, check again, temporary file, rename, verify), `Read` | two writers of one path, crashes, power failures, decay, another key |
| Consistency check: `store/fsck.go` | a walk, a query, a report | `Fsck` | it runs beside the server and matches by checksum only |
| Synchronisation: `archive/engine.go`, `indexer.go`, `archiver.go` | position in two loops, batch in work | `IndexMailbox`, `reconcileDeletions`, `ArchiveMailbox`, `archiveOne` | every call may fail; restart from the stored cursor |
| Cleanup: `cleanup/gate.go`, `service/cleanup` | jobs, runs, the goroutine of each run | `Run`, `Execute`, `UpdateRun` | no lock against the synchronisation or other runs |
| Restore: `service/export/service.go` | the request | `Restore` | APPEND and the mark are two steps |
| Engine: `archive/engine.go` | worker semaphore of each `RunAll`, lock per account | `RunAll`, `RunAccount`, `withAccountLock` | hanging calls, waiting, accounts deleted meanwhile |
| Progress: `archive/progress.go` | counters and status per account | setters, event stream | readers see the status of an earlier sync; a sync that ends unreported |
| Authentication: `service/auth`, `repository/sqlite/user_repo.go` | `users`, `user_tokens`, `user_otps` | register, confirm, log in and out, change and reset a password, administer | several statements per request, each committed by itself; codes read and used in two steps |
| Accounts and jobs: `service/account`, `service/cleanup` | `mail_accounts`, `cleanup_jobs`, `cleanup_job_runs` | create, change, delete, run | check in one statement, write in another; foreign keys on one connection of the pool |
| Lists and searches: `message_repo.go`, `search_repo.go`, `cursor.go` | none | a page by cursor | rows inserted and changed while pages are read; missing dates |
| Start: `db/db.go`, `src/cmd/giraffemail`, `src/scripts/docker-entrypoint.sh` | `schema_migrations` | migrate, seed, serve | crash between a statement and its record; databases of earlier releases |

Export, insights, MIME parsing, credentials, the configuration and the frontend keep
no state or only decode and forward; they are listed in `PROJECT.json` with the reason
they are not modelled.

The parts interact through the database, the blob directory and the mail server,
never by messages. `runServe` starts `RunAll` at once and every five minutes; the
API starts `RunAccount`, a cleanup run or a restore in goroutines of their own.
One mutex per account keeps two synchronisations of the account apart. Cleanup
runs and restores take no lock.

What must be true of them:

- *synchronisation*: the cursor never passes a message without a row; a row
  marked archived has a checksum and the blob of the message it describes; what
  stays on the server is archived in the end; a row marked deleted belongs to a
  message that is gone;
- *cleanup*: the golden rule; a move loses nothing; a run ends;
- *restore*: it appends the message of its row;
- *all of these*: the archive is write-once;
- *blob store*: a committed row names a readable blob, whatever writers interleave,
  fail or crash; only damage to the disk, a power failure or another key takes a blob
  away; *fsck* tells the truth about it although it does not stop the server;
- *engine*: an account has one synchronisation at a time, the status is that one's, and
  no account is left out while calls return;
- *service*: a new password ends the old sessions; nobody is registered without a code;
  a row of a run tells of its run; references hold where they are enforced;
- *pages*: no message twice, none forgotten;
- *migrations*: what is recorded was run, and the server serves a migrated database.

`PROJECT.json` lists the hazards, each with its line and the properties that
would catch it.

## Modules

`ImapServer` is the mail server as `mailconn/client.go` uses it: one operator per
command and one action per thing other clients or the provider do. A message *is*
its text, a member of `Body`; a UID names at most one message under one
UIDVALIDITY. Messages without text, which `FetchBodies` skips, are left out.

`ArchiveStore` is the database and the blobs. A NULL column is a UID that is not in
a set: `archivedAt[mb]` holds the UIDs of the rows of `mb` with `archived_at` set,
and so on. `envelope` is the message whose metadata the row holds, `flagsJson` the
rows that list `\Deleted`. A checksum is identified with the text it is the checksum
of. The transactions are operators that the components use as conjuncts.

`Sync` is `runAccount`. `syncPc` says which call is next: `index` (SELECT, UIDVALIDITY
check, reset, empty-mailbox shortcut), `fetch` (`FETCH highest+1:*`), `upsert` (one
batch, one transaction), `advance` (cursor), `search` and `mark` (`reconcileDeletions`),
`archive` (SELECT and query), `bodies`, `blob`, `row` (`FetchBodies` with `archiveOne`
as its callback). An error of one call is the same call's failing action:
`SelectFails`, `IndexFails`, `FetchBodiesFails`, `ArchiveOneFails`. They leave what
the earlier transactions committed.

`Cleanup` is `Service.Run` and `Executor.Execute`, one record per run: `list`,
`mailbox`, `chunk`, `store`, `expunge`, `move`, `copy`, `mark`. `Client.Move` is
expanded to MOVE message by message and, when it reports an error, at any point, to
the COPY, STORE and EXPUNGE of the fallback on the whole chunk. The user's filter
selects any part of what `SafetyCandidateSQL` admits.

`Restore` is `Service.Restore`: one request at a time.

`GiraffeMail` composes them, adds `Crash` (all goroutines of the process are gone, the
database and the blobs stay) and states the properties. `MCGiraffeMail` adds the
symmetry sets for TLC.

`GoldenVault` is what the program promises of the texts of an account, in two variables:
which texts the server has, which the archive keeps. Texts arrive, a text of the server
is kept, and `Free` takes kept texts off the server. `GiraffeMail!ImplementsGoldenVault`
maps the server to the texts of all mailboxes and the archive to the texts of rows that
are marked, have their checksum and whose blob is there.

`BlobStore` opens the step that `Sync` takes for one, `Write`, into its file operations:
the check without the lock, `lockPath` and the second check, the temporary file, the
rename, the verification, and every error return. A path is an account and a text. What
a file holds is what `decode` and the checksum tell apart: nothing, the text under one
key, bytes that do not decode, bytes that decode to another text (without encryption
only, AES-GCM notices). `synced` is what a power failure leaves: `atomicWrite` syncs the
file but not the directory. Decay, power failures, changes of the key and a read back
that fails on a good file are *mishaps*; `spoiled` remembers what they took.

`BlobVault` is what the rest of the program takes the store for: a blob is there from
one step to the next, rows name what `Write` returned, and only a mishap takes a blob away.

`Fsck` is `giraffemail fsck` beside that store: it walks the files in any order, then
reads the rows in one query, and meets them by checksum whatever the account.
`MCFsck` adds the symmetries.

`Engine` is which goroutine synchronises which account when: the two `RunAll`s of
`runServe`, the loop that takes a slot of the semaphore before it starts a goroutine, the
lock of the account, `RunAccount` for a request, and the status each sync reports. What
happens between the reports is `Sync`. A sync may hang for ever, an account may be deleted
at any time.

`Pages` is `MessageRepo.List` and `SearchRepo.Search` as a client reads them, one query
per page, while rows are inserted, removed, and begin or cease to pass the filter. Ids
are version 7 UUIDs and grow with time; NULL dates sort lowest. A page is the set of its
messages. `CutPage` takes the rows up to one that has `limit - 1` rows of the answer
before it and keeps that row as the cursor; `LastPage` takes the answer as it is. The
order inside a page is `ORDER BY`'s alone, and no property is about it.

`ServiceData`, `Migrations`, `Auth`, `Jobs` and `Service` are the service around the
archive. `ServiceData` has the tables and the requests: a request is a record with a
program counter, and every statement it makes is an action that commits by itself.
`Migrations` is the start of the process: the files in the order of their names, statement
by statement, the record of each number, the seed, and a crash anywhere. `Auth` is
registration, codes, sessions, passwords and administration; `Jobs` is accounts, jobs and
the rows of runs, where each statement goes over a connection that enforces foreign keys
or over one that does not. `Service` composes them: requests are served while the process
is up, from a new database, one of the first release or one of this release. `MCService`
adds the symmetry of requests.

Some variables are histories that the code does not have and that only properties read:
`spoiled` and the `rows...`/`spoiledSince` of `Fsck`, `stuck` of `Engine`, and `served`,
`steady` and `undated` of `Pages`; in `Auth` the `epoch` of a token says whether it is
older than the last change of the password, and in `Jobs` `loose` whether a statement went
without foreign keys.

Operators that begin with a comment "Variant for testing the checks" are not part
of the model; each is what a plausible mistake in the code would make of the action
below it, and the run listed with it in `PROJECT.json` refutes a property with it.

## Properties and runs

| Run | Specification | Instance | Shows |
|---|---|---|---|
| `archive` | `FairSpec` | 1 mailbox, 2 UIDs, 2 texts, batches of 1, 1 delete run, another client deletes, 1 fault or crash in the sync, 1 in the run | `TypeOK`, `ArchivedIsIndexedMessage`, `CursorCovers`, `GoldenRule`, `EventuallyArchived`, `RunsEnd` |
| `cleanup` | `Spec` | 2 mailboxes, 2 UIDs each, delete or move, 1 failed or lost command | `DeletedIsGone`, `GoldenRule`, `MoveKeepsMessage`, `ImplementsGoldenVault` |
| `clients` | `Spec` | 2 delete runs, 1 restore, another client flags and unflags | `RestoreExact`, `FlagsOnlyArchived` |
| `validity` | `Spec` | 2 UIDVALIDITY values, 1 delete run, 1 fault or crash | `ArchivedHasBlob`, `ArchiveIsImmutable` |
| `blobs` | `Spec` of `Fsck` | 1 text of 2 accounts, 2 writers, fsck, encrypted or not, 1 mishap, 1 crash | `TypeOK`, `RowsAreReadable`, `CleanReportIsTrue`, `OldRowsAreNotMissing`, `LocksAreOwned`, `ImplementsVault` |
| `pages` | `Spec` of `Pages` | up to 4 rows, 2 dates or none, pages of 1 and 2, 2 changes | `TypeOK`, `PagesAreSorted`, `PagesAreComplete`, `TotalIsListed` |
| `engine` | `FairSpec` of `Engine` | 2 accounts, 1 worker, requests, 1 sync that hangs, 1 account deleted | `TypeOK`, `StatusIsTrue`, `RoundsAreBounded`, `EveryAccountIsServed`, `OthersAreServed` |
| `service` | `Spec` of `Service` | 3 requests, 2 users, 1 failed statement, 1 crash | `TypeOK`, `MigrationsHold`, `OldSessionsEnd`, `PendingHasCode`, `RunStatusIsTrue`, `ReferencesHold` |
| `foreign_flag` | `Spec` | another client flags | violates `GoldenRule` |
| `stale_uid` | `Spec` | UIDVALIDITY changes | violates `GoldenRule` |
| `reindex` | `FairSpec` | UIDVALIDITY changes | violates `ReindexedAfterChange` |
| `emptied` | `FairSpec` | another client deletes the last message | violates `GoneIsMarked` |

The golden rule is stated by *text*, not by UID: when a step of a run takes a message
off the server, a row marked archived has its checksum and its blob exists. Stated
about UIDs it would be true by the gate alone and would miss both violations.

The runs that end with a violation are disagreements between the code and its
documentation. `foreign_flag`: `Expunge` is not restricted to the chunk's UIDs.
`stale_uid`: `Execute` never compares UIDVALIDITY. `reindex`: the reset after a change
of UIDVALIDITY sets a NOT NULL column to NULL and always fails. `emptied`: an empty
mailbox is never reconciled. `PROJECT.json` quotes the documents.

What the properties of the new parts say, and what they except by name, because the code
leaves it so:

- `RowsAreReadable`: a row of the database has a blob that `Read` decodes to its text,
  except what a mishap spoiled since it was last written. The two checks, the lock and the
  rename make it so for two writers of one path, a crash between any two steps, and a
  `Write` that fails after another one's row was committed.
- `CleanReportIsTrue` and `OldRowsAreNotMissing` are the two directions in which a report
  of fsck can mislead. Excepted are a blob that is gone while fsck met one of the same text
  of another account, and alarms about messages archived during the walk.
- `StatusIsTrue`: excepted is a sync whose `ensureMailboxes` failed, which returns without
  `setError` and leaves "indexing" behind until the next sync.
- `EveryAccountIsServed` and `OthersAreServed`: a call that hangs ends the ticker for good
  and takes one worker and one account; the others are still served on request.
- `PagesAreComplete`: excepted is an ascending list with messages without a date. NULL
  sorts first there, and a page that ends on such a message is followed by pages of such
  messages only (`cursorWhereAsc`): the dated ones are never shown.
- `OldSessionsEnd`: a session older than the last change of the password has its
  revocation ahead. Excepted are a revocation that fails (`SetUserActive` ignores the
  error), one lost in a crash, and a login that had read the old password already.
- `RunStatusIsTrue`: a row that says "running" belongs to a run at work, unless its
  `UpdateRun` was lost; nothing resets it afterwards.
- `ReferencesHold`: as long as every statement went over the connection on which
  `PRAGMA foreign_keys` was run.

*Refinements.* `ImplementsVault` (run `blobs`) shows that the file operations of
`BlobStore` implement the vault in which a `Write` is one step, which is how `Sync` uses
it. `ImplementsGoldenVault` (run `cleanup`) shows that server, rows and blobs together, with
the fallback of MOVE and a failing command, implement the two variables of `GoldenVault`.

*Bounds.* Two messages per mailbox are what the orderings need: one in the index and
one new, one batch failing before the other, one message the run handles and one it
must not touch. Two texts tell the messages apart; the same text may also come
twice, which shares a blob. `ChunkSize` 1 and 2 stand for 1000 and `IndexBatch` 1 and 2
for 17: with two messages both "several batches" and "all in one" occur. `MaxUid`
bounds arrivals for good, `MaxFaults` and `RunFaults` failures, `MaxRestores` requests,
`MaxValidity` the times a mailbox is recreated; all of them are guards of the actions
they bound. MOVE may report an error without a fault being counted, because a server
without MOVE always does. A crash of `Crash` is one of the process, not of the disk.
The connection of a sync or a run that dies is a sequence of failing calls, and the
bounds allow one of them; the proofs allow any number.

In `blobs` one text under two accounts is what `fsck` can confuse and two writers are
what a lock is for; one mishap and one crash meet every step of both writers and of the
walk. In `pages` four rows and pages of one or two make lists of up to four pages, with
rows of the same date on both sides of a cut. In `engine` one worker is the smallest
semaphore that can be exhausted, by a sync that hangs or waits for a lock; a round and
requests compete for both accounts. In `service` three requests are a check, the change
that makes it stale, and a third between the two; a request is used once, so a run of the
model ends (`CHECK_DEADLOCK FALSE`), as it does when a migration is refused. `Fails` and
its kin are counted by `MaxFailures`, ends of the process by `MaxCrashes`, and so are
`MaxMishaps`, `MaxHangs`, `MaxDeletes` and `MaxChanges` guards of what they bound.

*Fairness.* The `FairSpec` of `Engine` assumes that the two goroutines of `runServe` run and
the timer fires (weak fairness of `RunAll`, the start of workers and the return), that a
mutex serves those who wait for it in turn (strong fairness of `SyncStarts`, as `sync.Mutex`
does in its starvation mode), and that a sync that does not hang comes to one of its ends.
It assumes nothing of requests. The `FairSpec` of `GiraffeMail` assumes weak fairness of the synchronisation and of each run,
nothing of users, other clients or the server's arrivals. The ticker of `runServe`
(`src/cmd/giraffemail/main.go:142-153`) starts the synchronisation again whenever it has
ended, and the Go scheduler runs a goroutine that can run. It also assumes that a call
returns: the IMAP client sets no deadline, which is listed as a hazard.

*Where a property is not checked.* `DeletedIsGone` is not checked with clients that
unflag: a client that takes the flag back between STORE and EXPUNGE keeps its message
while the row is marked. `ArchivedIsIndexedMessage`, `CursorCovers` and the golden rule
are stated for an unchanged UIDVALIDITY; after a change the code works on rows of the
old one (see `reindex`, `stale_uid`).

## Proofs

Every theorem below holds for any sets of mailboxes, texts, runs, writers, accounts and
requests and any bounds. It rests on the assumptions about the constants that the modules
name (`ServerAssumption`, `SyncAssumption`, ..., `BlobConstants`, `EngineConstants`,
`ServiceConstants`, `PageConstants`), which TLC evaluates in the runs, and on the further assumptions in the
last column. Those of the service and the blob store say that a name stands for one thing:
that a key is not the mark of a damaged file, and a row's id not that of another table's
first row.

| Module | Theorem | Statement | Further assumptions |
|---|---|---|---|
| `GiraffeMailProofs` | `TypeCorrect` | `Spec => []TypeOK` | |
| | `ArchiveIsComplete` | `Spec => []ArchivedHasBlob` | |
| | `ArchiveIsWriteOnce` | `Spec => ArchiveIsImmutable` | |
| `GoldenRuleProofs` | `GoldenRuleHolds` | `Spec => GoldenRule` | `MaxValidity = 1`, `"flag" \notin ClientActs` |
| | `FlagsOnlyArchivedHolds` | `Spec => FlagsOnlyArchived` | `MaxValidity = 1` |
| `IndexProofs` | `BodiesMatchRows` | `Spec => []ArchivedIsIndexedMessage` | `MaxValidity = 1` |
| | `RestoresAreExact` | `Spec => []RestoreExact` | `MaxValidity = 1` |
| | `CursorPassesNothing` | `Spec => []CursorCovers` | `MaxValidity = 1` |
| | `MarkedIsGone` | `Spec => []DeletedIsGone` | `MaxValidity = 1`, `"flag" \notin ClientActs` |
| `GoldenVaultProofs` | `CompositionIsGoldenVault` | `Spec => ImplementsGoldenVault` | `MaxValidity = 1`, `ClientActs = {}` |
| | `MoveLosesNothing` | `Spec => MoveKeepsMessage` | `MaxValidity = 1`, `ClientActs = {}`, no run deletes or there is one run only |
| `FsckProofs` | `FsckTypeCorrect` | `Spec => []TypeOK` | |
| | `OneWriterAtATime` | `Spec => []LocksAreOwned` | |
| | `CommittedIsReadable` | `Spec => []RowsAreReadable` | |
| | `CleanReportHolds` | `Spec => []CleanReportIsTrue` | |
| | `MissingIsLost` | `Spec => []OldRowsAreNotMissing` | |
| | `StoreIsVault` | `Spec => ImplementsVault` | |
| `EngineProofs` | `EngineTypeCorrect` | `Spec => []TypeOK` | |
| | `OneSyncPerAccount` | `Spec => []StatusIsTrue` | |
| | `WorkersAreBounded` | `Spec => []RoundsAreBounded` | |
| `ServiceProofs` | `ServiceTypeCorrect` | `Spec => []TypeOK` | |
| | `MigrationsAreRun` | `Spec => []MigrationsHold` | |
| | `SessionsAreEnded` | `Spec => []OldSessionsEnd` | |
| | `NobodyWithoutCode` | `Spec => []PendingHasCode` | |
| | `RunsTellTheTruth` | `Spec => []RunStatusIsTrue` | |
| | `NoDanglingReferences` | `Spec => []ReferencesHold` | |
| `PagesProofs` | `PagesTypeCorrect` | `Spec => []TypeOK` | |
| | `PagesFollowInOrder` | `Spec => []PagesAreSorted` | |
| | `PagesLeaveNothingOut` | `Spec => []PagesAreComplete` | |
| | `SearchKeepsItsCount` | `Spec => []TotalIsListed` | |
| | `PageAlwaysExists` | until the last page was read, there is one for each limit | |

`MaxValidity = 1` says that no mailbox is recreated, `"flag" \notin ClientActs` that no
other client flags or unflags, `ClientActs = {}` that none deletes either (a text it
expunges is no concern of the archive's). They are what `stale_uid` and `foreign_flag` show to
be needed of the golden rule; why the properties of the index need them is said above.

*The archive.* `ArchivedHasBlob` is not inductive: at `row` the transaction marks a row
whose blob was written a step earlier, and nothing but the history says so. `IInv`, which
is `TypeOK` and `ArchiveInv`, adds that the blob of the body in work is in the store at
`row`, that the body belongs to a row not yet archived (the reason that archiving never
overwrites a checksum), and that a restore holds the text of a blob. `ArchiveIsWriteOnce`
follows from `IInv` and the fact that only `ArchiveOne` writes the two columns.

*The golden rule* needs `GoldenInv` on top: UIDs of archived rows were handed out
(`UidsAreFresh`), so the message under such a UID, if any, is the archived one
(`UidsNameOneMessage`), because a step only hands out new UIDs and never puts another
message under an old one (`OnlyGrows`, proved once for each IMAP command). What a run picked
stays archived (`PickedIsArchived`), and what carries `\Deleted` is in the archive by its
text (`FlaggedIsArchived`): a run flags archived messages, COPY and MOVE carry the flag
of such a message along, and a restore brings back what a blob holds. EXPUNGE therefore
removes archived texts only, and MOVE takes what was picked.

*The index.* `IndexInv` follows a message from FETCH to its row and from its row to its
checksum: fetched metadata, rows, the pending query and the body in work all name the
message their UID was given to, and a restore holds the text of its row.
`CursorCovers` alone is not inductive, because the cursor is written after the batches:
`CursorInv` adds that while batches remain everything on the server is in the index, in the
batches to come, or newer than all of them, and that before the cursor is written all of it
up to the new value is in the index. `DeletedInv` does the same for the marks: between
SEARCH and the mark, what SEARCH did not find is gone; between STORE and EXPUNGE, what is
left of a chunk is flagged (`FlagsStay`, where other clients' flags must be excluded);
during MOVE, what is left of it is what MOVE has still to take.

*GoldenVault.* Every step of the composition is mapped: a client's delivery, APPEND and COPY
bring one text at most, EXPUNGE and MOVE take only texts in the archive, `ArchiveOne` keeps
one. The last needs that the text in work is still on the server or was archived under
another UID before a run took it (`FetchedIsSomewhere`).

*Moves.* That what a step takes is elsewhere does not follow from what the step reads: by
the time of EXPUNGE the copy is steps old, and another run may have flagged the copy in its
turn. `MoveInv` therefore looks ahead: a text is `Safe` when one of its messages carries no
flag and no run is going to flag it, being at STORE with it or having copied it already, and
every text that is on the server, in a blob or in work is safe. MOVE and COPY put the text
under a fresh UID, which is in nobody's chunk, *before* the old one goes or is endangered;
STORE flags only what was endangered; EXPUNGE takes only what is flagged. Failed calls and
crashes only end the danger. A restore appends a text that is safe already. The theorem covers any
number of moves of the same messages, where the run `cleanup` has one. A delete run or
another client may take the copy, which is why they are assumed away; a single run either
deletes or moves, hence the alternative.

*The blob store.* `RowsAreReadable` is not inductive because a writer verifies first, gives
the lock back and commits its row later. `BlobInv` says what each writer knows of its file
at each place (`WritersKnow`): at `commit` it is readable or a mishap is on record, and at
`remove` it is unreadable or on record, so that the file another writer's row relies on is never
removed. That stays true because the lock is held by exactly one writer (`LocksAreOwned`).
`FsckKnows` and `ReportKnows` are what the walk has established about files that go on
changing behind it. `StoreIsVault` maps each file operation: the rename keeps the
blob, the commit names it, and only mishaps lose it.

*The engine.* From "a busy task holds the lock of its account" (`SyncHoldsLock`) follows
that there is one sync, whose status it is. `RoundsAreBounded` counts sets of goroutines, so
`EngineInv` says that they are finite, and that an account still to be started has no
goroutine in the round (`ListedWait`), so that a slot taken is a goroutine more.

*The service.* `SInv` adds to the invariants what a request holds between two statements
(`ReqTypeOK` with `Prepared`: the user it found, the code it consumed, the result it has
still to write), where the start of the process is (`StartIsInOrder`: the statements before
it were run, the files before it are recorded, until 000003 is recorded every user is an admin,
and from its last statement on every account of the first release has an owner), and that a registration stores its code before
its row (`CodesComeFirst`). Deletions are the heart of `NoDanglingReferences`: a row goes
together with the references to it, or the statement counts as loose.

*Pages.* `PagesAreSorted` speaks of all pages and the next one is cut by the cursor only, so
`PagesInv` ties the two: the cursor names a row, with the date that row has, and all that
was shown comes up to it (`CursorIsLast`). `WhereIsBehind` shows that the conditions of
`cursorWhereDesc` and `cursorWhereAsc`, with their cases for NULL, admit what comes after that row in
the order of the listing, and all of it unless the list ascends past a row without a date.
With it what was there all the time, and as many rows as were counted, are shown or ahead
(`SteadyIsAhead`, `CountedIsAhead`), and the last page has what was ahead. That a page of
each length exists needs no induction over the number of rows: among the beginnings of the
answer with at least `limit` rows a smallest one exists because the subsets of a finite set
are well-founded, its last row is the cursor, and without that row it has fewer than `limit`.

*Only model-checked* is liveness (`EventuallyArchived`, `RunsEnd`, `EveryAccountIsServed`,
`OthersAreServed`): fairness and ENABLED are out of the prover's reach. The four runs that
end with a violation show where an assumption of a theorem, or a claim of the
documentation, is needed or fails; there is nothing to prove of them.

## Observations without a run

Seen while modelling, and part of the models unless it says otherwise:

- `docs/API.md:224` says that an admin cannot deactivate their own account;
  `AdminUpdateUser` (`service/auth/service.go:271`) refuses only a change of one's own role.
- A database that crashed between `ADD COLUMN owner_id` and the record of migration 3
  never starts again (`ApplyRefused`): the statement fails the second time.
- `000002` has a down file, which sorts before the up file, is applied and recorded under
  the same number; the up file is never applied and its index does not exist.
- A job whose account was deleted has a NULL `account_id`, which `GetJob` cannot scan: it can
  neither be run nor deleted, only be dropped from the lists.
- An older code that was never used becomes the newest again when a newer one is used.
- `seed --force` resets the password of the admin and leaves the open sessions.
- An ascending list never gets past messages without a date once a page ends on one.
- With `sort=size` the rows are ordered by size while the cursor holds the date, so the
  pages do not follow one another; `Pages` leaves this order out.

## Not modelled

- *Data*: MIME parsing, the sanitising of HTML, previews, attachments, counters,
  percentages of progress, insights: no property tells their values apart, and no step
  depends on them.
- *Export* reads rows and blobs and writes a file; it changes no state.
- *Credentials and encryption*: pure functions of libraries. Only which key a blob can be
  decoded with is modelled.
- *Rate limiter* of `service/auth`: a request it refuses changes nothing.
- *Passwords, expiry*: a check that fails changes nothing; a session that expires is one
  that is not there. A code may expire at any time.
- *Configuration, SMTP, frontend, embedded files*: read once, or clients of what is modelled.

## Plan

1. *Done:* `ImapServer`, `ArchiveStore`, `Sync`, `Cleanup`, `Restore`, `GiraffeMail`,
   `GoldenVault`; `BlobStore`, `BlobVault`, `Fsck`; `Engine`; `Pages`; `ServiceData`,
   `Migrations`, `Auth`, `Jobs`, `Service`; the runs above; the proof modules
   `GiraffeMailProofs`, `GoldenRuleProofs`, `IndexProofs`, `GoldenVaultProofs`, `FsckProofs`,
   `EngineProofs`, `ServiceProofs`, `PagesProofs`.
2. The order by size and the scope of lists in `Pages`; the export as a reader of blobs
   beside the writers.

## Running

    tlc -config archive.cfg MCGiraffeMail.tla      (cleanup, clients, validity, foreign_flag,
                                                    stale_uid, reindex, emptied)
    tlc -config blobs.cfg MCFsck.tla
    tlc -config pages.cfg Pages.tla
    tlc -config engine.cfg Engine.tla
    tlc -config service.cfg MCService.tla
    tlapm GiraffeMailProofs.tla    (GoldenRuleProofs, IndexProofs, GoldenVaultProofs,
                                    FsckProofs, EngineProofs, ServiceProofs, PagesProofs)
