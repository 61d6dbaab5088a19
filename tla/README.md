# Foldex in TLA+

Foldex is a self-hosted bookmark and note keeper: a Go back end over PostgreSQL,
an object store and, optionally, RabbitMQ, with a React client and a backup agent
of its own. This directory models the parts of the back end whose correctness
rests on interleavings, failures and the order of statements, checks the models
with TLC on small instances, and proves nearly all of their safety properties with TLAPS
for every size.

Paths below are relative to `src/backend/internal/` unless they start with `src/`.

## 1. The system

### Components, their state and what they do

| Component | State | Operations | Talks to |
|---|---|---|---|
| Mail outbox and relay (`mailoutbox`) | table `mail_outbox`; per relay a batch and deliveries in flight | enqueue in the caller's transaction; claim, settle, requeue stuck, purge | callers' transactions, a sink (SMTP in process, or AMQP) |
| AMQP pipeline (`mailoutbox`, `mailworker`) | broker queues: send, retry ladder, dead; unacked deliveries | publish with confirms, consume, send, republish, dead-letter, report back | outbox row, mail server |
| Sessions (`auth/rotate.go`, `auth/repository.go`) | `app_user`, `session`, `session_used_token` | login, refresh, logout, revoke, password change, sweep | every authenticated request |
| Accounts (`auth/repository*.go`, `auth/*_handler.go`) | roles, the owner's seat, invites, identities, redirect states, conversions, address changes, API tokens | setup, edit, delete, transfer, invite, sign in with Google, link, convert, unlink, move an address | sessions (revoked on promotion), the provider |
| Second factors and recovery (`auth/repository_2fa.go`, ...) | challenges, TOTP secret and counter, recovery codes, mailed codes, reset tokens | create, guess, mail, complete, enroll, remove, step up, reset, sweep | sessions, outbox |
| Folders (`folders`) | `folder`, `link.folder_id`, `note.folder_id`, signed unlock tokens | create, PATCH, delete, cascade, unlock, reset by master, the content gate | links, notes, note media |
| Note media (`notemedia`) | `note_media` leases, `note_media_ref`, objects | upload, claim, release, delete, sweep | notes, folders, object store |
| Preview worker (`preview`) | a bounded channel, the schedule, `preview_status` | enqueue, rerun, recover, publish | links, screenshots, object store |
| Change checks (`changecheck`) | `last_checked_at` as a claim, a bounded channel | claim, release, record, announce | links, push |
| Push (`push`) | `push_subscription` | subscribe, fan out, delete what is gone | browsers' push service |
| Screenshot pool and proxy (`screenshot`) | the slot, browsers with references and a start-up; tunnels with two semaphores | acquire, launch, retire, stop, close; admit, track, cut | preview worker, Chromium |
| Backup agent (`backupjobs`, `backupagent`, `backupstatus`) | `backup_run`, an advisory lock, the schedule, dumps, mirror, user archives, download grants | request, claim, run, prune, record, expire; store an agenda, sync, sleep; mirror, archive; grant, stream | object stores, PostgreSQL tools |
| Backup archive and restore (`backup`) | an archive, the restore ledger, download tickets | export, restore (skip, duplicate, wipe), resume; issue, consume | all content tables, object store |
| Limiters (`pkg/attemptlimit`, `pkg/quota`, `pkg/semaphore`) | bounded maps of counters | begin, commit, release, evict | login, unlock, API |
| Policies, audit, import, tags, stats, mail templates, HTTP, configuration, web client | rows, caches | single statements, parsing, rendering | |

`PROJECT.json` lists them all with what is modelled and why the rest is not.

### What is hard, and what makes each component correct

* **Outbox.** Several relays race over the rows; a relay can stall past its claim,
  die with a claim, or lose a statement. Correct: a verdict is what really happened
  to the latest claim, a committed message is decided in the end, a settled row
  stays settled.
* **Pipeline.** Confirms get lost, connections drop between a republish and its ack,
  deliveries come twice. Correct: no message leaves the broker unsent and unreported.
* **Sessions.** Tabs refresh at once with one cookie jar while a logout, a password
  change or the reuse detector runs. Correct: revocation is final, a replay ends the
  family, the absolute ceiling and the cap hold, no tab is logged out by losing a race.
* **Accounts.** A handler is admitted on what it read, and commits later. Correct: the owner's
  seat is never empty, double or held by somebody inactive; no old session gains privilege;
  an account keeps a credential, and gets a new one only on a proof that still holds.
* **Second factors.** Guesses come in parallel and across repeated sign-ins. Correct: a window's
  guesses and mails are bounded, a proof works once, a mandatory factor stays.
* **Folders.** Moves race towards a cycle; passwords change while a cascade or an edit
  waits for a lock; an attempt is retried on a new snapshot. Correct: the tree stays a
  tree, protected content needs the password in force, a hint gives nothing away.
* **Note media.** The store is in no transaction. Correct: an object that a note shows is never
  deleted; an orphan is, in the end.
* **Workers.** A queued job must not be lost, a stale result must not win, a stop or a
  retirement must end, at whatever point of a job it comes.
* **Backup.** Agents crash with the slot taken, lock connections die, restores fail between rows
  and objects. Correct: one worker per job, a final verdict, the freshest dump is kept, a restore
  resumes where it stopped, a wipe takes no live object.
* **Limiters.** Reservations balance; the bound holds at the limit of memory. Not modelled.

The hazards in `PROJECT.json` give the line where each of these bites.

## 2. Modules

| Module | Models | Instance |
|---|---|---|
| `MailOutbox` | outbox table and relays | `MCMailOutbox` |
| `MailPipeline` | broker, send worker, dead-letter watcher; extends `MailOutbox` (the relay's sink is the broker) | `MCMailPipeline` |
| `AuthSessions` | accounts, sessions, consumed tokens | `MCAuthSessions` |
| `Accounts` | accounts, the owner's seat, invites, identities, addresses | `MCIdentity` |
| `OwnerSeat` | abstract specification of the owner's seat, which `Accounts` implements | |
| `AuthFactors` | second factors, challenges and recovery of one account | `MCIdentity` |
| `FolderTree` | folders, what is filed in them, the gate | `MCFolderTree` |
| `NoteMedia` | leases, claims, objects | `MCWorkers` |
| `ChangeCheck`, `PushDelivery` | claims on links, notifications | `MCWorkers` |
| `BrowserPool`, `CaptureProxy` | the browser process, a capture's tunnels | `MCWorkers` |
| `Captures` | what a capture works with: the two together | `MCWorkers` |
| `PreviewWorker` | the preview queue and all that writes a link's picture | `MCPreviewWorker` |
| `BackupRuns` | ledger, lock, loops, dumps, drills | `MCBackup` |
| `BackupAgenda` | schedule documents, slots, the sleeping loop | `MCBackup` |
| `BackupCopies`, `BackupDownloads` | mirror and user archives; budget and bridge | `MCBackup` |
| `BackupRestore`, `BackupTickets` | export and restore; the tickets of an export | `MCBackup` |
| `AuthSessionsProofs`, `AccountsProofs`, `AuthFactorsProofs`, `FolderTreeProofs` | theorems about the module each extends | |
| `MailProofs` | theorems about `MailOutbox` and `MailPipeline` | |
| `MediaProofs` | theorems about `NoteMedia` and `PreviewWorker` | |
| `BackupProofs` | theorems about `BackupRuns`, `BackupAgenda`, `BackupCopies`, `BackupDownloads`, `BackupRestore`, `BackupTickets` | |
| `WorkersProofs` | theorems about `ChangeCheck`, `PushDelivery` and `Captures` | |

**Scenarios.** Most modules take a constant set of scenarios: which operations an instance
exercises, on what rows, and how many edits, faults, crashes or stops it allows. `Init` chooses
one; no action changes it. One run so covers several small configurations of a component,
where one large configuration would be out of reach.

**One part at a time.** `MCIdentity`, `MCBackup` and `MCWorkers` extend several modules and let
one of them work while the others stand still. The parts share no state that their properties tell
apart, so that letting them interleave would multiply states and show nothing. Where parts do interact they
are composed in one module: relay, broker and watcher (`MailPipeline`), folders and what is
filed in them (`FolderTree`), notes, folders, cleanup and sweeper (`NoteMedia`), worker, handlers
and captures (`PreviewWorker`), agents, janitor and requests (`BackupRuns`), scan, worker, gates and push queue
(`ChangeCheck`), restores, exports and the user's edits (`BackupRestore`).

Definitions that begin with a comment `Mutant:` are broken variants of the definition
that follows; no specification uses them. Apart from type invariants, each part of a conjoined property has
one; `PROJECT.json` lists one for each property.

### MailOutbox

The variables `status, attempts, token, claimAge, wait, age` are the columns of
`mail_outbox`; `mode, batch, inflight` are a relay's loop, the claims not yet handed
to a worker and the deliveries its workers hold. `handed` and `refused` are history:
for which claims the sink took the message, or refused it for good.

`EnqueueTx` is a committed enqueue. `Drain` is `Repository.Claim` with the start of a
batch, `Dispatch` a worker taking a claim, `SinkReturns` and `SinkPanics` the end of
`Sink.Deliver` (where "took it and reported an error" is possible), `RecoverClaim` the
settle statement with its check of `claim_token`, `SettleLost` that statement failing.
`Boot` and `Maintain` run the sweep and the purge; `Stop`, `AbandonBatch`, `Stopped`
are the shutdown and `Crash` a kill. Time is relative: `Tick` ages rows and claims, which
saturate at the TTLs they are compared with. A claim's uuid is its ordinal on the row,
because one statement draws the uuid and increments `attempts`.

`Spec` lets a relay stall for any time between any two steps; `PromptSpec` cuts sends
at their timeout, for the properties that need it.

### MailPipeline

Adds bags for the send queue, the retry ladder and the dead queue, the deliveries the
worker holds (`buf`, `cur`), those left unacked by a failed republish (`stranded`), and
the watcher's delivery (`held`). A relay's step is taken together with `Deliver`, which
puts one copy per message the sink took on the send queue. A republish whose confirm is
lost may have been accepted (`RouteFails`). The broker is external: it redelivers what was
unacked when a connection drops, and closes a channel whose delivery stays unacked past
its timeout (`ConsumerTimeout`), which is the only thing that frees a stranded delivery.

### AuthSessions

`acct`, `sess` and `used` are the tables. A triple of access, refresh and CSRF token is
one number. `logins`, `rotations` and `revocations` are transactions in flight;
`famOf`, `ended` and `burned` are history, as are the columns `proof` and `late`.

* A **rotation** runs SERIALIZABLE: `RotateLive` and `RotateGrace` read and lock the row,
  `RotateCommit` writes. A commit rolls back the other rotations of the same family in
  flight (`Conflicting`), as the serializable commit does for the rows they read and
  write in common. `RotateExpires` and `RotateReuse` are the rotations that end the family.
* A **revocation** runs READ COMMITTED: `Logout`, `LogoutAll` and `ChangePassword` take the
  statement's snapshot, `RevocationCommit` writes once no rotation holds one of its rows.
  A row inserted in between is not in the snapshot: this is PostgreSQL's rule, and the
  reason for the exception in `RevocationHolds`.
* `now()` is the start of the transaction, so a rotation writes the time it began.
* The middleware's check of the access token and the handler's first statement are one step.
  A deadlock between transactions shows as one of the aborts.

### Accounts and OwnerSeat

`users, sess, invites, idents, states, convs, changes, tokens` are the tables; `req` holds the
requests in flight with what they read. A handler is two steps: the read that admits it
(`AdminUpdateUser`, `OAuthLinkStart`, `OAuthConvert`, ...) and the repository's transaction
(`UpdateUser`, `LinkIdentity`, `ConvertToProvider`, ...), which locks the account rows and is one step.
An OAuth callback is three: `ConsumeOAuthState`, the exchange with the provider (time passes), the
commit. Passwords are numbers, a new one each time; `grants` is history: what was attached, and
which proof paid for it. A viewer is an editor here, and a profile has no fields but its address.

`OwnerSeat` says what the administration promises: the seat is empty only before the first
account is active, is then held by one active account, and moves only to an active one. `SeatSpec` is
`Accounts` under the mapping that takes the active owner for the seat.

### AuthFactors

One account. `totp, mailf, recov, otps, chals, signed, resets` are its tables; `task` holds the
requests in flight. Every handler is taken apart at its repository calls: verifying is a read
(`VerifyBegin`, then the reserved guess `VerifyBump`, then `VerifyProof`), `Complete2FA` the
transaction that checks everything again. Enrollment, step-up, removal, reset and first password
are built the same way. A TOTP code is its counter, other codes are numbered as they are minted;
`spent` and `window` are history.

### FolderTree

`folder` holds rows (parent, password, hash, hint), `filed` the folder of each link or note,
`tokens` the unlock tokens ever issued. A bcrypt hash is salted, so each hash is a fresh
number and a token names the hash it was issued for. An expired token is a token nobody
presents, so expiry is not modelled.

* **PATCH** runs SERIALIZABLE with retries. An attempt reads a snapshot (`Attempts`), and
  commits unless its row changed or a dangerous structure of read-write conflicts exists
  (`Serializable`, following PostgreSQL: two consecutive conflicts, the last transaction
  first to commit). `UpdateRetry` starts the next attempt with the request's state, `loaded`
  included: `Repository.Update` passes the same `*folderUpdate` to each attempt.
* **Cascade** runs READ COMMITTED in the code's four statements: lock all folders row by row
  in id order, authorize the root and read the subtree, lock and check the subtree, delete.
* **Edits of links** follow `CheckEntityFolderTx`: read the folder, lock and check it, lock
  the link and check that it is still there, write.
* Other operations are one statement. Creating a link is not modelled (the gate checks its
  folder in the same way), nor is proving the master password.

### NoteMedia

`lease` and `refs` are `note_media` and `note_media_ref`, `store` the objects, `upload` and the
transactions of each session the work in flight. A statement that locks takes its snapshot in one step
and its row locks in a later one, where only the row itself is rechecked; a transaction's writes are
seen at `Commit`; `Rollback` can come at any statement. `DeleteObjects` may fail after some of a batch.
`ReleaseFolderSubtreeRefs` is the cascade's part, `release_deleted_note_media_refs` the trigger's.

### PreviewWorker

`rows` are the columns of a link that concern its picture, `jobs, scheduled, recovery` the worker's
state behind its mutex, `worker` and `sweep` its goroutines. A job reads the row (`startJob`,
`loadPendingPreview`), fetches (an outcome of the scenario), writes if the row is unchanged
(`SystemUpdatePreviewIfUnchanged`), may read again and capture (`lookAgain`, `capture`), writes again, and
cleans up. `refreshPreview`, `editLink`, `UploadImage`, `admitCapture` and `healMissingObject` are the
handlers beside it. `asked` and `ans` are history: the latest request, and the one a write answered.

### ChangeCheck and PushDelivery

A scan claims due links by stamping them (`SystemClaimDueForCheck`), in whatever order the statement
returns them, and hands them over; a worker fetches, and records while the stamp is still its own (`Applies`). A scan that is
told to stop and `Stop` itself release what no worker took (`releaseClaims`), `crash` does not. Each statement may fail: a claim
whose call breaks, or is cancelled by `Stop`, after the server ran it leaves stamps that nobody knows of (`claimLost`), a release
that fails is only logged, and a result whose answer is lost is recorded and not announced. `begun` is history: the links whose
present claim a worker took or such a failure lost. A page is a version, and may or may not declare a feed.
`PushDelivery` lists an owner's channels, sends, and deletes by endpoint and row id the ones found gone;
`Save` is its two statements under the account's lock.

### BrowserPool and CaptureProxy

`bro` are the fields of `pooledBrowser` and `browserStartup` with what exists outside the program
(process, profile, proxy); `cap` is where each capture is, `closer` where Close is. Critical sections
of the pool's mutex are steps; launching, closing gently, killing and removing a profile run outside
it. `dirty` is history: the process holds a browser context of unknown state, or its proxy refused an address to anyone but
the capture that uses it now; `checkBlocked`, which looks before the page is opened, is what keeps the second kind out.
`CaptureProxy` follows CONNECT requests from admission over dial and flush to tracking, copying and
the two ways their connections are closed. `dialContext` takes the connection's slot, or blocks; `strictDialContext` is the
step that ends the dial: with a connection, or with a failure that gives the slot back and, where the policy refused the address
or the peer, blocks. A connection's slot is therefore held (`HoldsConn`) by a dial under way and by an open connection.

### Backup

* `BackupRuns`: `runs` is the ledger, `lock` the advisory lock, `dumps` the store, `loop` each job's
  loop. `Begin` or `ClaimRequested` takes the job's slot, `acquireJobLock` the lock, the work ends in
  `Finish`, which may be lost or retried; `ExpireStale` is the janitor. Keys are dated, so that `newestDumpPerDay`,
  `claimGFSSlots` and `prunable` are the code's retention.
* `BackupAgenda`: `ValidateJobConfig`, `EffectiveTiming`, `Next`, `PreviousSlot`, `MaxGap` and `Due` are
  operators compared with their definition on a grid; `syncSchedule`, `readAgenda`, `waitForSlot` are the agent's loop.
  A week has `WeekDays` days of `DayTicks` ticks; time zones are left out.
* `BackupCopies`: a mirror pass lists, compares, copies and records its start on a clock that may be off;
  `shipOne` and `pruneShippedUser` are the archives of each user.
* `BackupDownloads`: the grant is counted and inserted by two statements under a lock; the agent's bridge
  has its own slots.
* `BackupRestore`: `restoreFromLedger`, `applyRestoreTransaction` and `applyRestoreMode` are a restore's
  transaction, `wipeRestoreFiles`, `buildRestoreFilePlan`, `applyRestoreObject` and `completeRestoreLedger` what follows it.
  An export is a snapshot of rows and a listing of objects. Folder rows go through `normalizeRestoreFolderParents` with its two
  drains and its cut. Tags, entries and settings are rows like links and are left out.
* `BackupTickets`: the table with its pruning and eviction, and the handlers that hold a ticket.

## 3. What is checked

Every passing run finishes with all reachable states explored; each property has a mutant
of the code under which TLC finds it violated.

| Run | Instance | States | Properties |
|---|---|---|---|
| `identity` | up to 3 accounts, 2 requests in flight, 10 scenarios of accounts and 5 of factors | 676 k | `PrivilegeIsFresh`, `CredentialsSound`, `GuessesBounded`, `SeatSpec`, `FactorsSound` |
| `sessions_revoke` | 1 account, 2 passwords, 3 sessions, 1 rotation, 1 revocation and 1 login in flight | 195 k | `RevocationSound`, `IssuedFromCurrentProof` |
| `sessions_rotate` | 2 rotations in flight; 3 sessions, 4 triples and 4 ticks of the clock; 3 triples and 5 ticks; 4 sessions under a cap of 3 | 549 k | `RotationSound`, `FamilyCap`, `ReuseEndsFamily` |
| `folders` | 3 folders with 2 or 3 moves in flight; 1 folder with 2 edits and a retry each; 2 folders with a link, a cascade, an edit and a PATCH | 697 k | `TreeSound`, `CascadeBounded`, `EditAuthorized` |
| `folders_hint` | 1 folder, 2 edits, 3 texts | violation | `HintIsNotPassword` |
| `outbox_race` | 2 rows, 2 relays, batches of 2, 1 fault | 2.0 M | `OutboxSound`, `NoSilentDrop`, `SettledIsFinal` |
| `outbox_live` | 1 row, 2 prompt relays, 2 faults, fairness | 56 k | `RowsSettle` |
| `pipe` | 1 message, 1 relay, prefetch 2, 2 attempts, 1 fault, fairness | 358 k | `MessagesAccountedFor`, `MessagesSettle` |
| `backup` | 2 agents and 3 runs; 5 agendas; 2 objects and 2 users; 3 requests for downloads; 2 backends and an archive; all folder tables of 3 rows; 3 tickets; fairness | 323 k | `RunsSound`, `AgendaSound`, `CopiesSound`, `RestoreSound`, `BytesBudget`, `TicketsSound`, `VerdictsReached`, `AgendaServed`, `SlotsReturn`, `RestoreFollowsArchive` |
| `preview` | 1 or 2 links, 1 or 2 workers, up to 2 refreshes, edits, uploads, a lost object, a fault, fairness | 275 k | `RequestsAnswered`, `ShownObjectExists`, `HealSparesNewer`, `PreviewSettles` |
| `workers` | 2 notes and 2 keys; 2 instances of checks; 3 browsers that subscribe; 3 captures and 2 browsers; 3 tunnels; fairness | 493 k | `MediaSound`, `ChecksSound`, `CapturesSound`, `BaselineAdvances`, `ChannelsKept`, `CapturesEnd`, `Swept` |
| `media_shared` | 2 notes outside any folder that share an image | violation | `ClaimedObjectExists` |

The parts of the properties, each with its comment in its module:

| Property | Its parts |
|---|---|
| `CredentialsSound` | `CredentialKept`, `IdentityPaid` |
| `GuessesBounded` | `LoginBudget`, `ProofsSpentOnce`, `MailboxNotTwice` |
| `FactorsSound` | `NoOrphanRecovery`, `SessionBornInEpoch`, `MandatoryFactorStays` |
| `RotationSound` | `CeilingHolds`, `NoClientStranded` |
| `TreeSound`, `CascadeBounded` | `TypeOK`, `Acyclic`, `HintHasPassword`; `CascadeAuthorized`, `CascadeStaysInside` |
| `RevocationSound`, `OutboxSound` | the types with `RevocationHolds`; with `PublishedMeansHanded` |
| `RowsSettle` | `EventuallySettled`, `RetryBudget`, `OrphansNeedFault` |
| `MessagesAccountedFor` | `PipeTypeOK`, `RetriesWithinBudget`, `AccountedFor` |
| `MessagesSettle` | `EventuallyResolved`, the prefetch window, `SendBudget` |
| `RequestsAnswered` | `RefreshCovered`, `AnswersCurrent` |
| `RunsSound`, `VerdictsReached` | `SameJobAlone`, `FreshestKept`; `VerdictFinal`, `RequestsEnd` |
| `AgendaSound`, `AgendaServed` | `SlotsBracketNow`, `CatchUpIsMissed`, `ProtectionFloor`; `SlotOnce`, `AgendaFollowed` |
| `CopiesSound`, `TicketsSound` | `MirrorCaughtUp`, `ArchiveKept`; `DownloadOnce`, `RunningHasHandler` |
| `RestoreSound`, `RestoreFollowsArchive` | `SkipRestoresOnce`, `CompleteMeansFiles`, `ExportFits`; `SkipConverges`, `NoLiveObjectWiped`, `FoldersCutAtCycles` |
| `MediaSound` | `ClaimedObjectExists`, `StoredIsOwned` |
| `ChecksSound`, `BaselineAdvances` | `BaselineCurrent`, `NotifiedOnce`, `ClaimHasHolder`; `BaselineForward`, `CheckCatchesUp` |
| `ChannelsKept` | `SubscriptionCap`, `MovedChannelKept` |
| `CapturesSound`, `CapturesEnd` | `HeldStaysUp`, `StateNeverCrosses`, `ClosedMeansGone`, `EnforcedMeansCut`, `SlotsMatchConnections`; `NoneHandedAfterClose`, `RetiredStops`, `SlotsReturn` |

**Why the bounds are enough.** The races need two relays, two rotations, two requests of one
account, or one transaction of each kind; a cycle that no pairwise conflict would prevent needs
three moves; the cap needs two sessions that refresh beside the one that fills it, which happens at time 0;
the clock of the sessions needs to pass ceiling, grace and retention (5 ticks), and moves in the rotation run only
while there are no more than 3 sessions and 4 triples, 3 of them at the tick of the first sweep (`Narrow`); a lost place in the preview queue needs a queue
of one and a second link; a single weekday needs the day after a full week. Each mutant is found at these sizes.
Counters that grow without limit in the code (claims, triples, ids, hashes) stop at
constants whose comment says "bound" or at a scenario's numbers, and the guards name them.
`CHECK_DEADLOCK FALSE` is set where these bounds, not the system, end a
behaviour; the mail runs check for deadlock. Apart from the run, three racing moves with two serializable
commits in between were explored too (500 k states).

**Fairness.** Nothing is assumed about faults, users, or which outcome an operation has.

* Outbox: a relay that is down is started again (the container's restart policy), its timers fire
  (strong fairness on `Maintain`, because `select` chooses among ready cases at random), a send
  returns by its timeout, faults are finite.
* Pipeline: consumers reconnect and work on, the broker's TTLs and its ack timeout fire, and (strong
  fairness on `Settle`) a database that fails the watcher comes back.
* Note media: a transaction that has begun ends, by its next statement or by a rollback; leases run out;
  the sweeper's ticker fires. `Swept` speaks of behaviours in which requests come to rest and the
  sweeper is in the end no longer refused.
* Preview, checks, captures, proxy: goroutines are scheduled, tickers fire, handlers return. `CheckCatchesUp`
  speaks of a link that stays watched.
* Backup: an agent executes (a crashed one is restarted), the janitor comes by, the agenda's ticker
  fires, a bridge's stream ends. For `SkipConverges` the user sends the same archive again while its
  objects are missing (strong fairness on that request), since nothing else resumes a restore.

### What the violations show

* `folders_hint`: the second attempt of a password change compares the new password with the
  hint that the first attempt read (`folders/repository.go:442`), so that a hint written in
  between can equal the password, against INV-067 (`src/docs/INVARIANTS.md:369`).
* `media_shared`: the save of one note releases a key while the save of another note claims it. The
  NOT EXISTS of the release (`notemedia/repository.go:292`) reads a snapshot without that claim, waits for
  the row's lock, and then gives the claimed key a lease that has run out. A sweep whose SELECT saw the key before
  both, and that waited for the same lock, rechecks the lease only and deletes the object that the second note shows, against
  the comment at `notemedia/repository.go:206`. Saves in one folder are ordered by its lock, so that it takes
  two notes outside any folder, or a create, which does not take the lock; `MediaSound` is
  checked, and its theorem proved, for the rest.

### Statements that do not hold

Each is a definition in its module, outside every run. Added as INVARIANT or PROPERTY to the
module's configuration (with the scenario named here, where there is one) TLC refutes it.

* `LogoutEndsFamily` (`AuthSessions`, `sessions_revoke`): a sibling inserted by a refresh in flight survives the
  logout, against the comment at `auth/repository.go:1471`. The other revocations select their rows in the same way.
  `RevocationHolds` states, and its theorem proves, that such a sibling is the only survivor.
* `RowTellsTheTruth` (`MailPipeline`, `pipe`): the worker can give a message up before the relay has run
  `MarkPublished`. `MarkDead` (`mailoutbox/repository.go:157`) then matches no row and the report is acked;
  `MarkPublished` later settles the row as published, which the comment at `mailoutbox/repository.go:135` says
  the watcher prevents.
* `UnclaimedHasLease` (`NoteMedia`; two notes outside any folder that share an image): each of two saves that drop the last two claims
  of a key still sees the other's claim (`notemedia/repository.go:292`), so the row keeps no lease and no sweep finds the
  object; `src/docs/INVARIANTS.md:572` says that released media is removed. Notes of one folder are ordered by
  its lock, and the run's scenarios share images only there.
* `ExportRestores` (`BackupRestore`, `backup`): an export made while a restored note waits for its media lists the note and not the
  object (`backup/service.go:246`), and the preflight of a restore refuses that archive, against the round trip of
  `src/docs/SDD-BACKUP-RESTORE.md:101`.
* `CompleteMeansFiles` (`BackupRestore`, `backup`; two backends with skip restores and one wipe of an archive of one note):
  `completeRestoreLedger` (`backup/restore_ledger.go:224`) completes whatever row stands under the archive's digest. While one
  backend still writes the objects of a skip restore, another wipes the account, which deletes that row, and restores the same
  archive again under fresh keys. The first then completes the second's row, against INV-104 (`src/docs/INVARIANTS.md:560`): if the
  second now fails or stops, a repeated restore does nothing and the objects never come. `RestoreSound`
  is checked, and proved, where accounts that are restored in skip mode are wiped by no other backend (`WipesAlone`).
* `CloseLeavesNothing` (`BrowserPool`, `workers`): a Close that stops a start-up before its process exists uses up the only
  hard stop of that start-up (`screenshot/pool.go:337`); the launch that fails afterwards leaves its profile, against
  `src/docs/INVARIANTS.md:456`. `ClosedMeansGone` states what is left.
* `PictureOfItsPage` (`PreviewWorker`, `preview`): `maybeScreenshot` renews the version it compares with and not the address it
  captures (`preview/worker.go:395`), so that a link edited in between keeps the picture of its old page; the comment at
  `links/repository_system.go:127` says conditional writes prevent this.

### Seen while modelling, not kept as definitions or runs

* The sweep at boot uses the full claim TTL (`mailoutbox/relay.go:124`), so a quick restart
  reclaims nothing, although the comment above it says that it spares waiting a full claim TTL.
* With the default options `Batch / Workers * SendTimeout` exceeds `ClaimTTL`
  (`mailoutbox/relay.go:22`): a claim can expire while it queues behind a live relay's workers, and
  is then sent twice. `RetryBudget` is checked where each claim has a worker.
* Only `MarkFailed` compares attempts with the budget, so a row whose relay dies each time
  is claimed for ever (`mailoutbox/repository.go:178`); `RetryBudget` counts these as faults.
* A report in the dead queue is requeued without delay while the database is down
  (`mailoutbox/amqp_topology.go:149`); a broker with a default delivery limit would drop it.
* A folder created after the snapshot of `lockAllUserFolders` is not locked by it: it can be moved out
  of the subtree, with whatever was moved into it, and still be deleted (`folders/repository.go:721`,
  INV-064). `CascadeStaysInside` speaks of subtrees in which nothing was created after the cascade began.
* A link's move takes an implicit key lock on its destination, outside the order that
  `folders/content_gate.go:75` describes; it can deadlock with a cascade, and PostgreSQL aborts one.
* A change of address binds to the epoch read under its lock, not to the one the password was proved in
  (`auth/repository_email_change.go:79`; the comment is at line 55): the same session can change the password in between.
* A refresh that finds the preview channel full may have to wait for the 45-second ticker, although
  `preview/worker.go:180` says that it is recovered as capacity returns. `RefreshCovered` leaves such links out (`dropped`),
  `PreviewSettles` includes them.
* The repair of a lost picture restarts a preview without a new generation (`links/repository.go:500`),
  against `src/docs/ARCHITECTURE.md:442`. An ambiguous commit of `SystemUpdateOGImage` can make the job remove a picture that is shown.
* A feed that is unreachable for a while flips a baseline's kind and hides a change.
* A stop can postpone a check by a full interval, which the comments at `changecheck/worker.go:143` and `changecheck/worker.go:258`
  set out to prevent: `Stop` cancels the claim's call as well, and a call that fails after its statement ran leaves stamps
  that `scan` cannot release (`changecheck/worker.go:239`); a release that fails is only logged (`changecheck/worker.go:271`);
  a job cancelled in flight keeps its claim. `ClaimHasHolder` excepts exactly these and crashes; `CheckCatchesUp` shows that
  such a link is checked again once its interval has passed.
* With `BACKUP_RETAIN_DAILY=0` even the fresh upload is pruned; the model takes at least one. A dump that pruned its
  predecessor of the same day and failed to record its success makes the drill pick an object that is gone.
* When the timer and a new agenda are ready together, `select` may take the agenda and skip the slot.
* A resumed restore does not know which links the first one inserted.

## 4. What is proved

A theorem holds for any number of requests, rows, keys or codes, any bounds and any scenarios that
satisfy the named assumption of the module. Of the bounds these say that they are naturals and that limits
are at least one; what else they say is this.

* `OutboxAssumption`: published rows are kept no longer than failed ones.
* `AccountsAssumption`: the first rows are those of an installation: a pending owner or an active one, sessions and
  identities of accounts that are there, no account without a way in; and new accounts are provisioned only on an
  instance that has an owner.
* `RunsAssumption`: retention keeps at least one dump a day.
* `CopiesAssumption`: the overlap covers the difference of the clocks.
* `SubscriptionsAssumption`: an account starts within its limit of channels, and its browsers are its own.
* `FolderAssumption`, `FactorsAssumption`, `MediaAssumption`, `PreviewAssumption`, `ChecksAssumption`,
  `ProxyAssumption`, `PoolAssumption`: what a scenario is made of.
* `AgendaAssumption`: what a scenario is made of, where a schedule document may say anything its JSON can; an interval is
  at least one tick.
* `RestoreAssumption`: an archive and the account it is restored to are finite, and an archive has one link of each id and
  url, as the tables have that Export reads.

Two theorems have a hypothesis, without which TLC refutes them. `MediaIsSound` has `SharingOrdered`:
notes that may share an image are in one folder, and none is being created (`media_shared`; `ObjectsAreOwned` needs no such
thing). `RestoreIsSound` has `WipesAlone`: where accounts are both wiped and restored in skip mode, one backend does so
(section 3; `RestoresOnce` needs no such thing).

**`MailProofs`**, the outbox: `OutboxIsSound`, `NothingDropped`, `SettledStays`.
The inductive invariant adds two facts: a row in flight carries the token of its latest claim
(`TokenIsLatest`), and a worker about to report success or a permanent failure got that answer for the
very claim it holds (`OutcomesAreReal`). Together they make the check of `claim_token` in the settle
statements a check that the claim is the latest one; without `TokenIsLatest` a straggler's token could
equal the row's. `SettledStays` is an action property and needs only types.

**`MailProofs`**, the pipeline: `MessagesAccounted`. `AccountedFor` speaks of copies in the broker's queues; its invariant
follows a message also through the hands of the worker and the watcher (`Alive`): while one of them has a delivery that
it has not acknowledged, the copy it came from is there, or the one it was routed to is (`StagesTrue`). Queues are bags; a
lemma for each bag operation says what the union, and one copy less, still hold. `BudgetKept` bounds the attempts on the copies that may be
routed back.

**`AuthSessionsProofs`**: `RevocationIsFinal`, `ReplayIsFinal`,
`LoginProofIsCurrent`. The invariant joins:

* `Numbered`: rows are numbered by insertion and a family belongs to one account, so a new
  login's family is unknown to any revocation;
* `RotationsLocked`: a rotation in flight holds a live row that still stores its triple, so no
  rotation revives a dead row;
* `OverlapSeen`, `RevocationsCover`: a revocation in flight has every live session of its
  families in its snapshot but late siblings, and a rotation in such a family knows that it overlaps:
  when the revocation commits, what is left alive is late;
* `TriplesNamed`: a remembered triple names its family through `session` or
  `session_used_token`, or the family was burned; this is why a logout with replaced tokens finds its family;
* `LoginsDated`: a verified password is the account's as long as its version is;
* `AccountsLocked`: a revocation that bumps the version is alone on its account.

Most actions only let rows die and others shrink, and one lemma (`DyingIsSafe`) covers them; the actions
that insert a row or draw a triple have a lemma each.

`RotationIsSound` and `FamilyIsCapped` rest on a second invariant, `DInv`, that adds times and counts: rows and
consumed triples are no later than their login's ceiling and one grace window, a rotation in flight began in time
(`Dated`), and a rotation that will add a sibling leaves room for it (`Capped`). That room stays because a commit
on a family rolls back the other rotations of it; a race that only counted before inserting would lose it.

**`AuthFactorsProofs`**: `GuessesAreBounded`, `FactorsAreSound`. A handler reads, decides and commits later, so `FInv` says
what a request in flight may still rely on (`Knows`): a challenge keeps its epoch and its mailbox mark, a confirmed factor
and an answer of the policy hold while the epoch does, and the commit compares the epoch. Beside it:

* `ChallengesApart`, `WindowMatches`: one challenge at most can be answered, and it has the count, the deadline and the
  mark of the sign-in window, which is why `CreateChallenge` may hand all three on to the next;
* `CodesApart`: a code for signing in belongs to a challenge that the mailbox did not open;
* `ProofsBurn`: a proof on record is a counter not above its secret's last one, a used code, or a recovery code
  that is gone, and no secret and no set of codes comes back.

The theorems hold under either instance policy. An administrator under the stricter one may drop the e-mail factor and
keep no second factor if that was the only one, because it never counted: `MandatoryFactorStays` therefore speaks of
`HasConfirmedSecondFactor`, the factor the policy counts.

**`AccountsProofs`**: `PrivilegeTheorem`, `CredentialsTheorem` and the refinement `SeatTheorem`: every step of `Accounts` is a step
of `OwnerSeat` or leaves the seat alone. The invariant says of the tables what `AccountsAssumption` says of the first ones; before
setup no request, invitation or link is open that could make an account active (`SeatHeld`), and the
password behind a link in progress is the account's as long as the epoch read with it is (`LinksDated`).

**`FolderTreeProofs`**: `HintsHavePasswords`, `CascadesAreAuthorized`, `EditsAreAuthorized`. What a cascade or an edit has
learnt stays true because of the locks it has held since (`CascadeChecked`, `EditChecked`), which no two of them share
(`LocksHold`). A hint has its password because an edit commits to the row it read (`UpdateChecked`).

**`FolderTreeProofs`**, the tree: `TreeIsSound`, `CascadesAreBounded`. A circle is a set of folders that holds the parents of all
its members (`NoCircle`), so that no proof walks along a path. Edits that commit without a dangerous structure have a
serial order (`SerialOrder`), and `History` says what a move knows: the parent of a folder it has read is another one that it
read, or the root, or was written since by a move that it could not see. In a smallest circle the last move of the serial
order would have seen all the others, and `checkParentCycle` refused it (`CommitForest`). A cascade that has seen all of its
subtree holds it, up to the root (`SubtreeHeld`), and without circles the way up from each of its members ends at
the root, whatever was moved elsewhere (`InsideStep`).

**`MediaProofs`**, note media: `ObjectsAreOwned`, `MediaIsSound`. Every upload has its row from before the put and an
object goes before its row (`UploadsOwned`, `RowsGoLast`). For claims: a claimed key has no lease, since whoever ends or starts a
lease sees every claim there is (`ClaimsKeep`, `Proper`), and what is locked for deletion had one and cannot be
claimed (`WipedUnclaimed`).

**`MediaProofs`**, previews: `RequestsAreAnswered`, `ShownObjectsExist`, `HealingSparesNewer`. Neither
invariant is inductive; `PvInv` joins them to what the code relies on without saying so:

* `WorkKnown`: a row that the queue, the sweep or a job holds is a version of the row, today's if `updated_at` says so;
  so a write that compares versions writes to what the job read, and answers its request;
* `SlotsMatch`: the schedule names the jobs in the channel and at the workers, each link once, and `running` and
  `recovery` say what they say; so a refresh that finds its link scheduled knows whether the job will still read the row;
* `ImagesOwned`: a key is on one row, or about to be published by one job, or waiting to be deleted, and keys
  are never used twice; with `ObjectsKept`, what a row shows or will show is not what is deleted;
* `AllCovered`: a pending link without a slot has a sweep to come, and the sweep under way did not read an older row of it;
  one with a slot has a job that will read it, or a rerun.

Left out of `RefreshCovered` are the links whose only way back is the ticker: `stalled` (an edit or an error during the job)
and `dropped` (the channel was full, section 3).

**`BackupProofs`**, runs: `RunsSafety`, `VerdictsStand`. A loop at work holds the advisory lock or has lost it (`LockHeld`)
and owns its row (`RowsOwned`), of which one per job is running (`OneRunning`). For retention: keys are used once (`KeysFresh`),
so that the youngest dump is on nobody's list of victims, however old the list (`YoungestSpared`), and whatever
is or will be recorded as succeeded is covered by a dump that is not older (`DumpsCovered`).

**`BackupProofs`**, the schedule: `AgendaIsSound`, `SlotsFireOnce`. Any time is one cell of one week (`CellOf`), and a grid
that is not empty has a cell within each seven days (`WeekdaysCome`), so that `Next` finds the first slot after now and
`PreviousSlot` the last one not after it (`NextIsFirst`, `PreviousIsLast`) within the days they search; from each cell the next
lies within `MaxGap` (`GapsAreBounded`), and so do the two around now. A document that passes the floor keeps it, whatever it says
(`TimingsKeepTheFloor`). For the loop: the slot that is waited for lies after the last that was served (`SlotsAhead`), since a
firing is dated before the slot that follows it is computed.

**`BackupProofs`**, copies and exports: `CopiesSafety`, `BytesAreBounded`, `TicketsAreSound`. For the mirror: what was there when a
pass began is in its listing under the store's stamp, and then is copied as it is or was in the mirror before, because the
watermark lies the overlap before the last pass and the clocks differ by no more (`PassMarked`, `ListedInTime`,
`CopiedInTime`). For downloads: one reservation of an account at a time is between its count and its commit
(`OneReserves`), a request that gave bytes away keeps its charge (`ChargeStays`), and so what was counted is still so when the
row is inserted (`ChargesBounded`). For tickets: tidying the table touches no ticket that runs (`TidiedIsSound`), and a
ticket runs exactly while its handler does (`TableSound`).

**`BackupProofs`**, restores: `RestoresOnce`, `RestoreIsSound`. For the rows (`ROnce`): where no ledger stands there is no row
of a skip restore, because the ledger commits with them and a wipe takes both, and the transaction that inserts them holds the
advisory lock since it read that there is no ledger (`OpKnown`); what it inserts is then an image of the archive's notes, and
no larger. For the objects (`RFiles`): an operation that writes objects for a skip restore writes those of the
ledger that stands (`WritesLedger`), what it has yet to write and what is stored make up all that the ledger names
(`Planned`), and a wipe deletes while no ledger stands (`WipesForget`), so that a ledger is completed over objects that are
there (`CompleteIsPut`). `WipesAlone` is needed for the first of these.

**`BackupProofs`**, wipes: `WipesSpareLiveRows`, the action property `NoLiveObjectWiped` for any number of backends in any modes.
A reserved id is one that nobody uses, the lists of wipes under way included (`FreshIds`, by counting: there are enough to choose
from). So the keys an operation has reserved are on no list and no other operation's (`KeysAhead`), its commit brings in new ids
only (`CommitIds`), and what a committed wipe is about to delete no row names (`WipedRows`).

**`WorkersProofs`**, change checks: `ChecksAreSound`, `BaselineMovesForward`. No two jobs carry the same stamp for a link, waiting
or in work (`JobsApart`, `InstancesApart`), and a job whose stamp is still its link's read the address and the
baseline the link has (`WaitOk`, `HandOk`): so a result that is recorded is of the page that is watched and
not older than what it replaces. A version that was announced is `Past`: at most the baseline, and no job
about to record is below it, which is why no second job can announce it.
`ClaimHasHolder` is kept beside them: a step that takes a claim off its way either gives it to a worker, releases it, or is one
of the failures that `begun` records (`Released`, `LostStep`).

**`WorkersProofs`**, push channels: `ChannelsAreKept`. A browser between the two statements of `Save` is the only one of its account
there, and the account's other channels leave room for its own, however many of them others take over (`RoomKept`).

**`WorkersProofs`**, captures: `CapturesAreSound`, `ClosedPoolHandsNothingOut`, and their parts `TunnelsAreSound` and
`BrowsersAreSound`. The slot belongs to one capture, and with it the only startup and the only hold (`CapOk`).
Every browser that was made has left nothing behind, or Close spent its one hard stop before it had a
process (section 3), or is a generation that somebody still stops, or is the startup that a capture still runs (`BrowserOk`); Close waits for the last two
(`CloserOk`). Whatever is wrong with a process that is not retired shows at its proxy (`Shows`), so the look before a capture
finds it. For the proxy, the slots in use are the dials under way and the connections that are open, each counted once
and given back once, also by a dial that fails, and once the tunnels were closed no connection joins them.

Each invariant was model-checked before it was proved, on the instance of its component's run.

**Only model-checked**:

* liveness, and anything with ENABLED, which is beyond the prover;
* `FoldersCutAtCycles`, which compares two walks over an archive's folders, each a fold: induction over data;
* `RetryBudget`, `OrphansNeedFault`, and the prefetch window and `SendBudget` of `MessagesSettle`, whose proofs would add up
  counters or count elements of bags.

## 5. Not modelled

Parsing, rendering, formatting, HTTP routing, encryption and password hashing, object storage and
SMTP as protocols, the schema migrations, and the web client: pure functions or I/O with no
state of their own to interleave. PostgreSQL, RabbitMQ, Chromium and the stores are modelled from how the code uses
them. The limiters and the quotas keep their counters under one mutex each. Import of bookmarks, tags, entries,
statistics, settings and the audit trail are single transactions or statements.

Inside modelled components: the capability matrix of roles, profile fields and listings; search, slugs, tags and clicks of
links and notes; media claimed again between a wipe's commit and its deletion of objects; a second Close of the
browser pool, which only waits; plain HTTP through the capture proxy; time zones and daylight saving in
the schedule; the tools that dump and restore a database.

## 6. Plan

Done: every component whose correctness rests on interleaving or failure, but the limiters.

Next, in order of weight:

1. An abstract outbox (a message is queued, then sent or given up) that `MailOutbox` implements.
2. `AttemptLimit`: balanced reservations and eviction at the limit of tracked keys.
