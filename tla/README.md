# Verification of Standard Red Notes

TLA+ models of the synchronisation core of this repository, the instances TLC checks, and
proofs for the TLA+ proof system. Paths below are relative to the repository; `syncing/`
stands for `server/packages/syncing-server/src/`, `gateway/` for
`server/packages/websocket-gateway/src/`, `web/` for
`app/packages/web/src/javascripts/Services/SyncTransport/`, `auth/` for
`server/packages/auth/src/`.

`PROJECT.json` gives for each definition the source lines it models (`map`), for each run
its properties, for each property a change of a definition that breaks it (`mutants`), the
hazards of the code, and the theorems.

    tlc -workers 2 -config SyncCommandJournal.cfg MCSyncCommandJournal.tla
    tlapm SyncCommandDeliveryProofs.tla

1. [The system](#1-the-system)
2. [The modules](#2-the-modules)
3. [The runs](#3-the-runs)
4. [What the runs found](#4-what-the-runs-found)
5. [Fairness](#5-fairness)
6. [Proofs](#6-proofs)
7. [What is left out](#7-what-is-left-out)
8. [Plan](#8-plan)


## 1. The system

An end-to-end encrypted notes application. Clients keep decrypted notes and a local
database; servers store encrypted items, order the changes, and never read them. Items are
opaque to everything modelled here: the properties are about which version is stored, who
has been shown it, and what has happened exactly once.

    client (snjs SyncService)
      |   worker transport: durable command outbox in IndexedDB, one owning tab
      v
    websocket gateway ------------ rooms, editor leases (memory or Redis) ---- other editors
      |   COMMAND / STATUS             |  claim, renew, release (RPC)
      v                                v
    syncing server:  command journal -> SyncItems = GetItems + SaveItems -> save fence
      |   same database transaction
      v
    outbox -> dispatcher -> broker -> revisions, notifications, websockets, other services

### Syncing server (modelled)

| Component | State | Operations | Must hold |
|---|---|---|---|
| Command journal (`syncing/Domain/SyncCommand`) | one row per (user, session, command id): uuid, request digest, accepted or committed, claim token, response, expiry | accept; claim, execute, store in one transaction; replay; retry after a database abort; abandon; status query; retention | a command takes effect at most once and as a whole; an id names one request; `unknown` is final; nothing stays undecided |
| Outbox and dispatcher | one row per event: pending, dispatching under a token and lease, published, dead; attempts | enqueue in the command's transaction; claim; publish; settle; release for retry; take over; retention | events are neither invented nor lost; only the claimant settles; everything settles |
| Item retrieval (`GetItems`, `SyncToken`) | none of its own: rows ordered by (stamp, uuid) and the token or cursor a device presents | read the horizon, choose a page, fetch its rows, count the rest; answer with a token and a cursor | a position or cursor never passes a row its device was not shown |
| Item saving (`SaveItems`, `UpdateExistingItem`, `SaveNewItem`) | item rows with `updated_at_timestamp` and the session that wrote them | compare the client's stamp, draw a later one, guarded UPDATE or INSERT | no version is overwritten unseen; stamps increase |
| Save fence (`SQLCollaborationSaveFence`) | one row per note: lease, device, token, expiry | claim, renew, release; saves lock the rows of their notes in order and check them | only the holder saves; a granted revision is exact; saves do not deadlock |
| Database transactions (`InSyncingTransaction`, `SharedSqliteTransactionCoordinator`) | the open transaction, and on SQLite a queue of them | run, commit, roll back | SQLite: one transaction at a time; MariaDB: READ COMMITTED with row locks |
| Shared vaults, invites, survivors (not modelled) | vault, members with permissions, invites, designated survivor | create, invite, accept, cancel, remove, change permission, rotate, transfer, delete | a vault has an owner; an invite is used once; removal takes the items and the access with it |
| Messaging, notifications (not modelled) | message rows, one per (recipient, replaceability) | send, replace, fetch, delete | single-row operations |

The hard part is concurrency between requests that share rows but not a transaction: several
processes, two databases with different isolation, transactions the database aborts under
their owner, acknowledgements lost on the way out, and predicates (stamp, status, token,
expiry) read in one statement and relied on in another.

### Clients

| Component | State | Operations | Must hold |
|---|---|---|---|
| `SyncService` and the payload deltas (`app/packages/snjs/lib/Services/Sync`, `app/packages/models`; modelled for one item) | payloads in memory with dirty indices, the local database, the round in progress, the persisted token | edit, delete; freeze the index, pre-sync save, upload, recover, resolve, emit, persist, roll back, checkpoint; push; reload | no write disappears; what is clean is uploaded; what was saved survives a reload; the token claims only what is stored |
| Worker transport (`web/`; modelled) | IndexedDB: a record per command, a lease per transport scope; per tab a request slot, a socket, the records it adopted | mint, store, mark, send, ask STATUS, retry, replay over HTTP, deliver, drop; renew, adopt, surrender; revoke | a command that was applied is never forgotten; one dropped as refused is never applied; every record is resolved |
| Encryption, user interface, shells, command-line tools (not modelled) | keys, views | | |

The page and the worker talk by messages, and share the outcome of a command only through
`CHECKPOINT_DURABLE`. Tabs share IndexedDB and nothing else. `SyncService` never sees whether an
answer came by socket, STATUS or HTTP; its only contract with the transport is that recovery
comes before the dirty set is read.

### Gateway

* Sync commands (`gateway/syncCommandHandler.ts`): modelled as far as its answers to COMMAND and
  STATUS go, as the peer of the transport. Not modelled: per-socket lanes, leases across the
  fleet, quotas, bounded queues.
* Collaboration rooms (`gateway/rooms.ts`, `collaborationRedisBridge.ts`, the end of a connection in
  `gateway.ts`; modelled for one room). State: in Redis the room's epoch, a set of leases and the
  leases; in each replica what it holds, parks and waits to release of them, reserved slots and members, and the
  health of its relay. Operations: reserve, activate, refresh, detach, release, deny, clean up. Must hold: one lineage of a
  document at a time, seeded by one editor; revocation is final; no lease is forgotten; a relay that
  was closed opens again.
* Invite events (`gateway/inviteEvent*.ts`): a second outbox with acknowledgements by the
  client. Not modelled.

### Auth

`auth/Domain`: sessions in a table or, ephemeral ones, in a cache; a generation per user; an
activity row per session; a cooldown of replaced token pairs. Sign-in, refresh, revocation,
inactivity and resets are modelled; they touch four stores without a common transaction. Settings, MFA,
emergency access and the dead man's switch are not modelled.

### Other services

Files (chunked uploads, moves, quota), revisions, scheduler, API gateway, websockets, analytics, home server: not modelled,
each with its reason in `PROJECT.json`. Revisions and the others are consumers of events;
what they may rely on is `EffectAnnounced`, delivery at least once.


## 2. The modules

    CommandLedger              what the journal promises
       ^ refined by SyncCommandJournal, INSTANCEd by CommandTransport
    SyncCommandJournal  <----- SyncCommandDelivery -----> SyncCommandOutbox
                         EXTENDS      ^           INSTANCE
                    SyncCommandDeliveryProofs

    CommandTransport <--- CommandTransportProofs    ClientSync <--- ClientSyncProofs

    SessionTokens <--- SessionTokensProofs

    ItemSync <--- ItemSyncProofs            CollaborationSaveFence <--- CollaborationSaveFenceProofs

    RoomLeases <----- CollaborationRooms <--- CollaborationRoomsProofs <--- LeaseTrackingProofs
              EXTENDS

    MC*.tla                    bounded instances for TLC where constants need definitions

`CommandTransport` takes the server from the client's side: its journal is `CommandLedger`, which
`SyncCommandJournal` is proved to implement.

### SyncCommandJournal

`ExecuteSyncCommand.execute` is split where it yields to others: between its two
transactions, at each statement that waits for or takes a row lock, at COMMIT, and after it.

| State | Code |
|---|---|
| `row[c]` | the committed row of the key; `age` is all that the predicates on `created_at` and `expires_at` tell apart: within the grace period, past it, expired |
| `lock[c]` | the open transaction whose claim (`execution_token`) locks the row. A token is never committed as such: the transaction that sets it ends by storing the result, which clears it, or by rolling back |
| `pc`, `seen`, `attempt` | where a call is, the row uuid its attempt read, the loop counter of `execute` |
| `aborted` | `abortedBy` of the transaction context: the database has rolled the transaction back although the code runs on |
| `left`, `buffer` | the row changes the execution has still to make, and those in its open transaction; `Part` are the changes one command makes |
| `qpc`, `qseen` | a `GetSyncCommandStatus` call between its SELECT, its DELETE and its second SELECT |
| `durable`, `retired`, `denied` | history: committed changes by run, runs whose record retention dropped, the last acceptance at the time of an `unknown` |

`Accept` is the first transaction. `FindMissing`, `FindAnswered`, `FindAccepted` are the outcomes
of the read in an attempt; `Claim` and `ClaimRefused` of the guarded UPDATE; `Write`, `Store` and
`Commit` are the body. `Aborted` is an abort whose error reaches the attempt, `AbortSwallowed`
one that an item's save swallows: the execution goes on with the rest of its changes. What becomes of a statement is the database's
affair: in an open transaction `Write` puts it into `buffer`, and after the database has rolled that back it is a
statement of its own, `durable` at once. `Sends` is the guarded query runner (`SyncCommandTransactionContext.ts:78-90`), which then sends
nothing more; its mutant is the runner without the guard. `StoreRefused` finds the abort out. `Commit` has two outcomes, acknowledged and lost; both are durable.
`Abandon` is `abandonAcceptance`, `StatusStale`/`StatusDelete`/`StatusReported`/`StatusUnknown` the
status query, `DeleteExpired` retention. A call that ended may be made again by the same caller.

`CommandLedger` is the promise: each acceptance is open until it is done, once, or void, for
good. The refinement mapping takes `fate` from the committed runs and rows; a uuid that ran
twice maps to a value the ledger does not have.

### SyncCommandOutbox and SyncCommandDelivery

One dispatcher per process (`activeDrain`). `Choose`, `Take`, `Confirm` are the SELECT, UPDATE and
SELECT of `claimNext`; `Publish` has an answer and an effect, which may differ; `MarkPublished`,
`MarkDead` and `ReleaseForRetry` are guarded by the claim token, `Owns`. `LeaseExpires`,
`RetryDue` and `DeletePublishedBefore` are time. `SyncCommandDelivery` joins the journal's commit
and the outbox's insert into one step, as the shared transaction does.

### ItemSync

One account. A request reads its horizon (`Request`), chooses a page (`ReadDescriptors`),
fetches it and counts the rest (`FetchPage`), then saves item by item (`Refuse`; `Stamp`, then
`Write`, `WriteConflict` or `WriteFailed`), commits, is answered (`Apply`), and the device persists
the checkpoint (`Checkpoint`), or fails anywhere on the way (`Fail`, `DeviceDies`). A version of an
item is identified with its stamp: one save writes one version, and every reading of the
server's timer is a later one.

`deployment` is chosen at first among `Deployments`. Its `closed` says which windows are: `"save"` is the one between the
drawing of a stamp and its commit, `"page"` the one between the two reads of a page; into a closed one no other request falls.
SQLite, whose transactions are queued, closes both for sync commands. MariaDB closes neither. Its `sessions` says which session
each `Device` syncs under: a device is a copy of the account's items with a request at a time, and the tabs of one browser are several that
share a session (`SyncItems.ts:165-168`). A row keeps the session that wrote it, as the code's rows do, and, for the
properties alone, in `by`, the device. The properties that need closed windows say so (`Serialised`), and those that a shared session
weakens say by what (`FromPeerTab`).

### CollaborationSaveFence

`fence[r]` is the row of a note, `live` whether it has not expired, `lock` the row lock a save
holds to its end. `Claim`, `Release` are `request`, one transaction on one row each; renewing a
live claim leaves it live and is no step. `LockRoom`, `FenceLost` and `Commit` are `run`: lock the
rows in the order of their uuids, check each, save what is not in conflict. `grant` and `knows`
are what clients hold: the last answer to a claim, and the revision they have.

### CommandTransport

| State | Code |
|---|---|
| `holder`, `fate`, `count` | the journal, as the ledger it implements |
| `calls` | COMMAND, STATUS and HTTP requests on their way or executing; `w = None` when nobody hears the answer any more |
| `stored`, `minted`, `quarantined` | a command's record: absent, stored, dispatched; the order of creation; `revoked` |
| `lease`, `claims` | the owner rows of the transport scopes, as far as they have not expired; the scopes a worker leased for records it adopted |
| `link`, `tab` | the socket; `active`, `outboxRecord`, `commandSent`, `commandFrameRequestId` and where the request is |
| `settled`, `refused`, `unknown`, `overrun` | history: results made durable, records dropped on a refusal, on UNKNOWN, leases that ran out under their users |

A sync is `SyncStarts`, then `recoverJournal` (`RecoverEmpty`, `RecoverDeferred`, `RecoverAdopts`, `RecoverOverHttp`),
then `executeAfterJournal` (`ExecuteBlocked`, `ExecuteStarts`). `prepareCommandOnSocket` is `Prepare...`, `Store` and
`MarkAndSend`: two journal writes, and the frame only after the second. Each ERROR of the gateway is an action of
its own, because what may be concluded from it differs: `Refused` and `FenceRefused` prove the command
unapplied, `Busy` lets the frame be repeated, `BackendTimeout` leaves only STATUS, `Voided` and `ServerKill`
go through `fallback`, `LiveSyncDisabled` goes over to HTTP and keeps the socket, or ends a request that may not. `SessionStale` parks the
request until the credential is repaired in place (`Refreshed` asks STATUS), or, if that is not possible or fails, `Reticket`: the socket
and all leases go, those of adopted records too, and the request goes on, once, with a fresh ticket. Dialling looks at the worker's own
scope only. `Lapse` is the expiry of a lease nobody renews, `Freeze` of one that is still in use.

### ClientSync

One item of one device. Its content is the set of the writes it incorporates, so that a lost
write is a set that nobody holds; `owed` are the writes that no deletion and no reload before the
pre-sync save has taken away legitimately. `op` is the round: `Prepare` (the dirty
items and the frozen index), `Presave`, `Send`, `Snapshot` (`handleSuccessServerResponse` begins), `Emit`,
`Persist`, `NoteToken`, `Finish`. Between any two of them the user edits, other devices save, pushes
arrive and the page is reloaded. `RetrievedEmits`, `SavedEmits`, `ConflictEmits` and `Strategies` are the deltas, on a base
payload that may no longer be what memory holds; `Emit` sets the result whatever is there.

Five windows in which the code does lose track of a write are named by `Closed`; the passing run
closes them, and `ClientSyncProofs` shows that there is no sixth. Section 4 tells what each lets in.

### SessionTokens

A handler (`pc`) refreshes a session: look it up, compare generations, check activity, match the
pair against the row or the cooldown, check again, rotate, recheck, observe, forget and save the
cooldown, answer. Each is a call to a store and may have anything between it and the next.
`copy` is the session object the handler read at the start, which the cooldown is later saved from.
`minted` numbers the pairs of a session, `device` is the pair its device holds. A durable session is inserted and rotated under a lock on
the user's generation, an ephemeral one is checked before and after. `Reset`, `Revoke`,
`GoIdle` and `CleanUp` come at any moment.

`Closed` names three windows: `"overlap"` (two refreshes of a session at once), `"crash"` (a handler dies
between rotation and cooldown), `"twice"` (two answers in a row are lost).


### RoomLeases and CollaborationRooms

`RoomLeases` is Redis: every Lua script of `collaborationRedisBridge.ts` is an operator whose last argument is its answer.

| State | Code |
|---|---|
| `room`, `members`, `key` | the room-state hash, the room set, a lease key each; the members of the set whose key is gone are those the scripts prune |
| `used`, `seeds` | history: epochs drawn, each for its security epoch; elected reservations that were activated |

`CollaborationRooms` is the replicas.

| State | Code |
|---|---|
| `lease`, `parked`, `queued` | `leases`, `detachedLeases`, `pendingLeaseReleases` |
| `slot`, `member` | pending reservations and members in the room registry |
| `busy`, `conn` | whether a connection's frame waits for Redis; whether it is open, lost, ended, and swept by `releaseAll` |
| `sent` | a replica's commands in the order they were sent, each with its answer once it was executed, and `for`, who waits for it: `"call"` a frame, `"beat"` the heartbeat, `"nobody"` after `bounded()` gave up |
| `relay`, `cleanup` | `healthy`, the connections and the ready event; `startPendingLeaseCleanup` with its batch and retry timer |

A frame is `Reserve` or `Join`, which send a command, and one action for each answer (`Reserved`, `ReserveDenied`,
`ReserveRevoked`, `Joined`, `LeaseRefused`, ...), which looks at the slot, the connection and the lease as they are by then.
`Execute` runs a script; `GiveUp` is the timeout of a command that may still be executed; `ConnectionDrops` makes ioredis send
again what was not answered, executed or not. A failure goes through `CommandsUnavailable`: deny the room, forget the
leases, queue their release, and reopen (`Reopens`) only when the batch is done.


## 3. The runs

The last column is the number of distinct states; every run ends within four minutes on two
workers.

| Run | Instance | Properties | States |
|---|---|---|---|
| `journal` | 1 command, 2 callers that present the same digest, 1 query with that digest or another, 2 parts, 2 attempts, 2 rows | `AtMostOnce`, `JournalInv`, `UnknownIsFinal`, `ImplementsLedger`, `CallsEnd`, `AcceptedResolves` | 161 000 |
| `delivery` | 1 caller, 2 dispatchers, 2 rows, 1 attempt, 2 dispatches, 1 mishap | `EventIffEffect`, `NoEventLost`, `SettledOnceByOwner`, `EffectAnnounced` | 424 000 |
| `items` | 2 devices, one of them new, 2 items, one not yet created, pages of 1, 1 save a request, 7 readings; 3 deployments: two devices with both windows open, two with both closed, two tabs of one session with both closed | `TypeOK`, `PositionHonest`, `CursorHonest`, `SkipHonest`, `NoLostUpdate` | 1 141 000 |
| `fence` | 2 notes, 1 lease, 1 client without a proof, 2 tokens, 1 revision | `GrantExact`, `OnlyHolderSaves`, `SavesEnd` | 490 000 |
| `transport` | 1 command, 2 tabs, 3 acceptances, any 2 of 16 kinds of mishap | `TypeOK`, `AppliedIsRemembered`, `RefusedNeverApplies`, `QuarantineHolds`, `RecordResolves` | 263 000 |
| `transport_tabs` | 2 commands of 2 tabs, 1 acceptance, any 2 mishaps out of stale session, frozen tab, crash and server kill; states up to exchanging the tabs with their commands | `OneTabAsks` | 902 000 |
| `client_sync` | 2 edits, 1 write of another device, 1 deletion by either, 1 mishap | `TypeOK`, `NothingLost`, `CleanMeansUploaded`, `SavedSurvivesReload`, `TokenHonest`, `Converges` | 637 000 |
| `sessions` | a durable and an ephemeral session, 1 handler, 4 pairs, 1 reset, 1 mishap | `NoneOutlivesReset`, `NeverLockedOut`, `EndedStaysEnded`, `RetiredStaysRetired`, `LostAnswerRecovers` | 497 000 |
| `rooms` | 2 editors, each on a replica of its own, 2 security epochs, any 3 of reservations and events of 15 kinds | `OneLineage`, `ElectedOnce`, `ActiveLeaseTracked`, `RevokedForGood`, `RelayReopens` | 162 000 |
| `items_position`, `client_sync_snapshot`, `transport_oversized` | see the next section | one each, violated | |

What the properties say:

* `AtMostOnce`, and `AtomicEffect` in `JournalInv`: while its record is retained a command has at most one run, the
  record is committed, and the changes of a run are durable together. Retention bounds the
  promise: a command presented again after its time to live is a new one, and the model has
  that behaviour.
  That the parts are durable together is not for want of actions that would part them: a transaction the database has rolled back leaves the
  execution running, and each of its later statements would be kept at once.
* `OneRequestPerId` in `JournalInv`: what took effect under an id is what the record's digest names. The callers of the run have one
  digest; that it also holds when an expired record was replaced by one with another digest between two steps of a call is what the
  theorem adds.
* `UnknownIsFinal`, `AcceptedResolves`: a client may resend after `unknown`, because nothing
  accepted before can take effect any more; and it does get such an answer, or a result.
* `NoEventLost`, `SettledOnceByOwner`: lease take-over among dispatchers that are
  slow rather than dead.
* `EventIffEffect`, `EffectAnnounced`: the transactional outbox, end to end.
* `PositionHonest`, `CursorHonest`, `SkipHonest`: the three things a device's checkpoint claims
  about rows it will not be sent again. Each is about the interleaving of two requests; none
  can be seen in a single one. They do not hold as the comments state them: where tabs share a session a skip withholds from one what the
  other saved (section 4). They say that it withholds nothing else: nothing of another session, nothing the device wrote
  itself, whichever answers it lost, and nothing of a peer tab above the ceiling.
* `NoLostUpdate`: optimistic concurrency control, with reads outside locks.
* `GrantExact`, `OnlyHolderSaves`, `SavesEnd`: the fence against claims that run out during a save,
  late releases and lost answers; and its lock order.
* `AppliedIsRemembered`: the record outlives every way in which an answer can be lost,
  and goes only for a result that is real and durable. With `UnknownIsFinal` and `AtMostOnce` of the journal:
  a user's command is executed once, and its device learns of it.
* `RefusedNeverApplies`, `QuarantineHolds`: what may be concluded from a refusal and a revocation, while a frame of an earlier
  moment is still on its way.
* `OneTabAsks`: who holds a record's lease is the only one to resolve it, but for two ways in which a request goes on without its
  lease: the lease ran out under it (`overrun`), or it was released with the socket for a fresh ticket (`Unleased`; section 4). Each
  of the two is needed: without the exception TLC finds two tabs that ask about one record.
* `RecordResolves`: no record stays for ever, also when the tab that made it is gone.
* `NothingLost`, `CleanMeansUploaded`, `SavedSurvivesReload`, `Converges`: what a user believes of an editor that syncs.
  `TokenHonest`: the persisted token never claims a row the local database does not have.
* `NoneOutlivesReset`, `EndedStaysEnded`: no handler brings a session back that has ended meanwhile.
* `NeverLockedOut`, `LostAnswerRecovers`, `RetiredStaysRetired`: what the cooldown is for, and that it is not
  a second key for good.
* `OneLineage`, `ElectedOnce`, `RevokedForGood`: two documents that were initialised apart never meet under one epoch,
  whatever expires, is released late or is activated by someone who was given up.
* `ActiveLeaseTracked`, `RelayReopens`: a lost, late or given-up answer leaves no editor's place taken by nobody, and no
  replica closed to its editors when its connections are back.

Type invariants are conditions of the proofs (section 6) where a component has proofs, and run where it has none.

### Bounds

| Bound | Meaning | Why it is enough |
|---|---|---|
| `MaxRows` | acceptances the journal records | one and its successor under the same key; in `transport` a third, after two replays; in `transport_tabs` one, for whichever command, since who may ask about a record does not depend on what the journal accepted |
| `MaxAttempts` = 2 | the code's limit | the first attempt, a retry, and the end of the retries |
| `MaxDispatch` = 2 | the code's limit on attempts | a dispatch, a take-over or retry, and the dead letter |
| `MaxMishaps` | crashes, lost answers, failed writes, frozen tabs, refusals | `transport`: every pair of kinds, in any order; the others: one at any point. `transport_tabs`: the kinds that part a request from its lease, or a record from its tab, two at any point: both tabs may have to lose their leases before they meet at one record |
| `MaxSaves`, `MaxClock` | saves of one request; timer readings | two requests that save and race, and a third |
| `Limit` = 1 | page size | with two items a chain of two pages |
| `MaxTokens`, `MaxRevision` | tokens drawn; saves of a note | a claim and its successor |
| `Edit`, `PeerWrite`, `Deletions` | writes of the user, of others | an edit before and one after each step of a round, against one write elsewhere |
| `MaxTurns`, `Events` | reservations drawn and events, together; the kinds of events | three of them: two editors and one thing that goes wrong, or one editor and two, between any two steps of anything else. Four of them were run for the safety properties with fewer kinds at a time |
| `MaxSent` | commands of a replica under way when an editor begins another one | a release that is late and what follows it |
| `MaxPair`, `MaxResets` | token pairs of a session; resets | sign-in, two refreshes and one more |

Executors, dispatchers, devices, leases, workers and handlers stand for calls in progress, so
one or two of them are one or two at once, and any number one after the other. The theorems of
section 6 are for every value of the constants.

`CHECK_DEADLOCK FALSE` is set where the instance really comes to rest: all turns taken in `rooms`, all inserts used up in
`delivery`, the clock at its bound in `items`, all pairs minted in `sessions`, all writes made and agreed on, with nothing left to send, in
`client_sync`.


## 4. What the runs found

Three statements of the code's own comments do not hold of the code. Each is a run of its own
that TLC ends with the counterexample.

1. `items_position`: *"you have been shown every row at or below this microsecond"*
   (`syncing/Domain/UseCase/Syncing/SyncToken.ts:7`). A stamp is drawn before its row is
   committed. On MariaDB a request that reads its horizon and its rows in between is
   answered with a position above the stamp, and the row that appears below it is not sent to
   that device until it is changed again.
2. `client_sync_snapshot`: *"an item dirtied at any point after this date is marked as needing another
   sync"* (`SyncService.ts:1661`). The collection an answer is resolved against is read
   before notifications, decryption and emission are awaited; an edit that lands in between is
   overwritten by the resolved payload and not dirty any more.
3. `transport_oversized`: *"the server journal serves the same committed result idempotently over the
   unbounded transport"* (`SyncTransportWorkerRuntime.ts:2878`). Live-collaboration commands never go over
   HTTP: for them a result larger than a frame is still asked about without end.

Two more statements hold with an exception. Passing runs check them with it, and TLC violates them when it is dropped:

* *"because the response that issued this token already handed them back as `savedItems`"* (`SyncToken.ts:46`), and *"Above the ceiling
  nothing is ever skipped"* as the reason why a peer tab's saves are not withheld (`SyncItems.ts:165-168`). A skip names a
  session, and two tabs share it. What one tab saved between the other's retrieval horizon and its save position was not in the other's
  response and is withheld from it, in `items`, from the next retrieval on: the position moves past it, so the tab does not get that version
  until the item changes again. The ceiling itself is the last own stamp plus one, so that a peer's save in the next microsecond is at
  the ceiling and not above it. `FromPeerTab` in `SkipHonest` and `PositionHonest` (in `CursorHonest` the case needs a third item).
* *"Only a pending command, rather than the account's entire connection, needs an exclusive recovery owner"*
  (`SyncTransportOutbox.ts:454-455`). `reticket` releases every lease of the
  worker and keeps its request (`SyncTransportWorkerRuntime.ts:2892-2900`), and `requestTicket` (1297-1303) looks at the worker's own scope
  only. A worker that had adopted a record dials again and asks STATUS about it without its lease, while a sibling may have adopted it.
  With two stale sessions both ask at once. `Unleased` in `OneTabAsks`. The other transport properties hold in these states too: STATUS
  executes nothing, a replay carries the command's id, and a record is marked or deleted only with its lease.

Windows that the passing runs close, and what TLC shows when they are opened in the same
instance:

* `CursorHonest` without `Serialised`: the last row of a page that is rewritten between the two reads of the page
  takes the cursor past the rows in between. `GetItems.ts:117` calls that *"over-delivery"*.
* `delivery` with more mishaps: a dispatcher that dies after each claim claims beyond the limit of
  attempts, which is compared only where publishing fails.
* `ClientSync`, `"zero"`: the dirty counter begins at 0, which the comparison of indices takes for
  undefined; an edit in the first round of a page is finalized as clean (`CleanMeansUploaded`). The window lasts until
  the upload is answered: a first round that fails and leaves its record is answered by a later one, and an edit made meanwhile is
  taken for clean all the same. The proof asked for that; TLC shows it with a second mishap.
  `"removal"`: an item deleted before its creation was answered can come back by retrieval
  in the round that removes it, and what is added to it goes with it (`NothingLost`). `"recovery"`: after a reload the
  answer to an earlier upload makes a newer edit clean (`CleanMeansUploaded`). `"rollback"`: a failed write
  takes back the conflict copy but not the payload that was edited on top of it (`NothingLost`).
* `SessionTokens`, `"overlap"` and `"crash"`: a device may hold a pair that nobody accepts (`NeverLockedOut`); the other
  safety properties hold with all windows open.
* `transport` with a second command: two tabs that adopt each other's records hold each other's lanes; both give up and may meet again.
  Only timing ends that, so `RecordResolves` is checked with one command.
* `rooms`: a reservation that an active editor repeats takes a slot in the registry before the bridge answers it from the active
  lease. If the editor does not join again, the slot expires and the heartbeat releases the active lease for it
  (`gateway.ts:2233`), against *"a provisional 15s deadline must never shorten or extend the already-authorized active lease"*
  (`collaborationRedisBridge.ts:757`). The editor stays a member of the room without a place in its lineage.


## 5. Fairness

* Journal (`Fairness`): a call that is not cut off takes its next step (weak); the process that
  crashed is the `Crash` action, which is not fair. A client that wonders, because a call
  of it is over while the command is still undecided, asks sooner or later (strong on
  `StatusStale` with `Wondering`: nobody has to ask while calls are running, so that `CallsEnd`
  does not rest on the query's DELETE), and its DELETE waits in the row lock's queue, so it is
  served although the lock is taken again and again (strong on `StatusDelete`). The grace period
  passes. Commits, aborts, accepts and retention are not required to happen.
* Outbox (`OutboxFairness`): the maintenance interval wakes every drain, a publication ends one
  way or the other, a retry delay passes, the lease of a claim nobody works on runs out. Weak
  throughout. That processes do not die or outlive leases without end is `MaxMishaps`, a real
  assumption.
* Fence (`FairSpec`): a waiting lock is granted if it is free again and again (strong): the
  database queues lock waits. Releasing, claiming and expiring are not required.
* Transport (`Fairness`): the server makes progress; a page that is not closed syncs again (timer,
  focus, backoff); its worker's request goes on (timers: ack deadline, dial, renewal). A lease
  nobody renews runs out: strong, because it may be renewed and dropped any number of times
  before. Mishaps are bounded and never required; whether new commands are minted is left open.
* Client sync (`FairSpec`): a round goes on, an idle device starts the next one, the server executes what it
  got. Edits, pushes and mishaps are not required. `Converges` is about the time after the last
  of them.
* Sessions (`Fairness`): a handler that was not killed goes on, and a device whose pair was replaced
  calls again. The latter is strong because one handler slot stands for the whole server.
* Rooms (`FairSpec`): Redis serves a connection that stands and its answers arrive (`Serve`); ioredis connects again without
  end (`CommandsReady`) and the subscription is then accepted (`Resubscribed`); the cleanup's timer fires (`RetryCleanup`). Weak
  throughout. Frames, events and answers that `bounded()` gives up on are not required. `RelayReopens` leaves out the one state from
  which no timer leads: a command given up while the connection stands closes the relay, and only a later ready event
  opens it.


## 6. Proofs

tlapm checks the proofs of eight modules, for all values of the constants that satisfy
`JournalAssumption`, `DeliveryAssumption`, `ItemSyncAssumption`, `TransportAssumption`, `ClientSyncAssumption`, `FenceAssumption`, `SessionAssumption`, `LeaseAssumption` and
`RoomsAssumption` (the types of the constants, at least one attempt, at least one part to a command, disjoint names, bounds on the
clock and the counters). Nothing else is assumed: that a uuid, token or stamp
is fresh is in the model as a counter.

**SyncCommandDeliveryProofs.** First the journal. `JournalInv` is inductive: `TypeOK` with

* `ClaimsHold`: a lock belongs to an open transaction of its command, which holds the row it read,
  still accepted and under its digest. This is what makes `Commit` write the row it claimed. Unless the database has rolled it back, the
  transaction of an execution is open and holds exactly the changes made so far, so that every statement that is sent is part of it; with
  `Sends` this is why `AtomicEffect` holds.
* `ReadsMatch`: what an attempt has read outside a lock is its own digest's row, or gone for good.
* `RecordsUnique`: uuids are not used twice, so "gone" is recognised by the uuid in the claim.
* `AtomicEffect`, and `RunsRecorded`: runs and the committed rows tell the same story.
* `DenialsPast`: a row that may still take effect is later than the last `unknown`.

None of the properties is inductive alone: that a run is unique depends on the row being
committed by it, which depends on the claim, which depends on every DELETE waiting for the
claim's lock. `TableStep` first reduces a step to one of five changes of the table (insert,
drop, commit, age, none); the lemmas on rows and runs are then by five cases and not by twenty actions. The
theorems are `JournalInvariant`, `TypeCorrect`, `EffectsAtomic`, `CommandsAtMostOnce`,
`IdsNameOneRequest`, `UnknownsFinal`, and `JournalImplementsLedger`: every step is a step of the
ledger or a stutter (`LedgerStep`).

Then the delivery. Every step of it is one of the journal's or leaves the
journal alone (`JournalStep`), so `JournalInv` holds there too (`JournalWithin`); a commit enqueues the event of the row it
claimed, which `ClaimsHold` makes an event that exists (`OutboxStep`). On the outbox's side the invariant is `OutboxTypeOK` with
`Remembered`: the attempts a dispatcher has read back are not more than the row's, and what it believes sent the broker has.
That is needed for `NoEventLost`, because a row is declared dead on the number the dispatcher remembers, which the row may have
left behind. Theorems: `OutboxTyped`, `EventsNotLost`, `EventsAreEffects`, `SettledOnce`.

**CommandTransportProofs.** `TransportTyped`, that every field of a worker's request, of the store and of a call has its type
(`TypeInv`: it needs of the ledger only the types of what it accepts, and of the constants that `MaxMishaps` is a number). Then `AnswersRemembered`, `RevocationsHold`, `OneTabAsksForEach` and `RefusalsFinal`, for any tabs, commands and mishaps, with the journal
as the ledger it is proved to implement. `TransportInv` follows a command from its record to its answer: what is under way at the server, and so
what the journal has accepted, was recorded first (`LedgerOK`, `CallOK`); a request that may send has its record, and one
that acknowledges has made the answer durable (`TabOK`); a record disappears only when it is known why (`Kept`). The acceptance
a call carries is the one on record or void, which is what makes `COMMITTED` about the command that was asked for. A write in progress is about the worker's
own command, and there is none once a revocation is acknowledged (`Revoked`). The steps of the workers are reduced to what they do to
one request, the calls and the store (`WorkerStep`), those of the server to the ledger's three (`ServerStep`). That oldest() returns a record
that is there (`OldestAdoptable`) needs the least index of a set, from the library's well-founded induction. On top of it `LeaseInv`: a request on its way to the
socket has its record's scope leased, unless the lease ran out under its user or the request gave it up for a fresh ticket (`Leased`); and it
has the slot, so that whatever else makes its worker give up the lane ends the request first.
On top of both `RefusalInv`: as long as a request may conclude from an ERROR that its command was not applied, its frame is all
there is of the command (`First`): no sibling has taken up the record, no other call is under way, and what the journal has accepted, if
anything, is the awaited call. That is what makes it safe to forget a refused command, after which nothing is left that could apply it (`Over`).

**ItemSyncProofs.** `NoUpdateLost`. The code compares the client's stamp with the row's outside the row lock and once more in the
UPDATE, while the row changes at the commit only. `SaveInv` says why that is enough: what a transaction has
written still replaces a version its device holds (`StagedOnHeld`), because no other transaction has written the same row
(`RowsLocked`), and because a device takes up nothing new while its transaction is open (`OpenWhileSaving`). It needs of the
types only the domains of the variables, and neither that stamps are later than all others nor any assumption on the constants: the
theorem holds with every window open.

`ItemsTyped`, `SkipsHonest`, `PositionsHonest` and `CursorsHonest` are about what a response claims, and rest on three invariants, each on the one before:

* `TimeInv`: what a device presents is no later than the horizon of its request, the horizon no later than the start of its saves, and
  that earlier than every stamp drawn for them. So the position a response claims is always the horizon (`ClaimedToken`).
* `OwnInv`: a committed row the device itself wrote is past its request's horizon only if that request has just committed it, and
  the device then takes it up before it persists the token that withholds it; and a row bears its writer's session (`Signed`), so
  that what else a skip names is a peer tab's.
* `SerialInv`, where saves and pages are serialised: nobody claims a row that another has stamped and not yet committed; a page is
  still what it was when it was chosen; and a request has fetched all that its response will claim, but for what the device had already
  and what is a peer tab's (`Fetches`). `UnaskedHeld` is the reason for the last: what a request does not ask for is below its position or its cursor, or
  withheld by the skip.

The lemmas these go through are about the operators: a bounded set of numbers has a greatest (`MaxOfBounded`), a page a last
row (`LastOfPage`), and a page leaves out no row before one of its rows, nothing if all fits, and is empty only if nothing is asked for
(`PageInOrder`). The theorems are for any sharing of sessions; for a device that shares its session with no other
they say that it lacks nothing.

**ClientSyncProofs.** `ClientTyped` needs nothing but the shape of the deltas. The other theorems, `NothingIsLost`,
`SyncedIsUploaded`, `AcknowledgedSurvives`, `TokenSkipsNothing` and `DirtiedSyncsAgain`, assume `Orderly`, that all five windows are closed (the
instance of `client_sync`), and nothing of the number of edits, devices' writes, deletions and mishaps. They follow from one
invariant, `SyncInv`, whose parts need each other:

* `Phases`: which request and which answer a round at each step is about; an answer is resolved against memory as it is, since the
  window `"snapshot"` is closed.
* `SoundInv`, `RowsInv`, `AnswerOK`: indices and stamps are not ahead of their counters, every row under way was the server's, and an
  answer's stamps are later than the token its request was sent with, or it brings nothing.
* `SentInv`: what is in the item and not in what was sent leaves it dirty by the comparison of indices that the answer will make.
* `DiskInv`: the disk's payload is of memory's version; while a result is written memory is that result or was edited on top of it.
* `DoomInv`: where an item was deleted that was never synced, nothing lives that could bring it back.
* `VersionInv`: a payload, an upload or a pending write with the server's stamp holds all that the server's row holds, so that the
  server, which looks at the stamp alone, replaces the row by something that is built on it.
* `WritesInv`: where each write is, by whether it has been uploaded, and whether its pre-sync save was acknowledged; and a dirty
  item at or below the watermark of the pre-sync save is on disk (`OnDisk`), which is why the save may pass it over.
* `TokenInv`: no payload of the device is older than the token, unless an answer with a record is still to be applied.

What an emission may do is reduced first to four outcomes (`Outcomes`: nothing, the server's row taken, the own version kept on top
of it, the save acknowledged), whatever strategies the deltas chose; each part of the invariant is then by the actions, and under
`Emission` by these four.

**CollaborationSaveFenceProofs.** `FenceInv` is `TypeOK` with `TokensDrawn` (what is on record or
granted was drawn), `LocksAdmitted` (what a locked row said when it was locked it still says,
except that its claim may have run out) and `GrantExact`. Theorems: `GrantsExact`, `HoldersSave`.

**SessionTokensProofs.** `SessionInv` says what a handler's `copy` and a row have in common: the generation a
row carries is the one its sign-in loaded, which no step changes, and a handler that is about to
write has read a row of that generation. From it `NothingOutlivesReset`; and `EndsForGood`, since the only steps that write a
row need it to exist. `RetiredForGood`: a row changes only by its sign-in, a refresh or its deletion (`RowWrites`), and a cooldown
gains only what a refresh's copy carries (`CooldownWrites`), so that a pair older than the newest returns from no other place. `DevicesStaySignedIn` assumes `Orderly`, that the three windows are closed: then the
pairs of a session are minted in sequence, a handler's `copy` is the row until it rotates, and the pair it
replaced is the device's or the cooled one (`DeviceInv`).

**CollaborationRoomsProofs.** First `StoreSpec`: any script, sent by anyone with any value and any epoch that was ever drawn,
in any order, with keys that expire and state that is lost. `StoreInv` adds to `OneLineage` and `ElectedOnce` what carries them: a
lineage that was seeded is marked as initialised (so that its empty room is not given away again), at most one of the leases
that count is elected, and if the lineage was seeded that one has seeded it. Theorems: `StoreTyped`, `LeasesOfOneLineage`,
`SeededOnce`, `GenerationsOnlyGrow`. Then the replicas: `RoomsImplementStore`, they change Redis only as `StoreSpec` allows. What that needs is
`RequestsInv`: every lease in a replica's maps, and every command on its way, waited for or not, names a reservation and an epoch
that was drawn; a command that is sent again or executed after its sender gave up on it is then one of the scripts the
store's theorems are about. `RoomsOneLineage`, `RoomsSeededOnce` and `RoomsRevokeForGood` carry these over to the replicas, for
any number of editors and replicas and no bound on turns, commands or events other than the constants' own.

**LeaseTrackingProofs.** `LeasesTracked`: `ActiveLeaseTracked` for any editors and replicas. The property is not inductive, for
it does not say which commands under way will end a lease, nor that the others do no harm. `TrackInv` says of each editor that a
lease Redis counts, active or about to be (an activation is under way), is held, is queued for release, or is named by a
release or a detach whose answer the replica waits for (`Tracking`); a parked lease is never that one, since Redis has detached
it. What keeps this so: the phase of a lease in the replica's hands tells of its key, so that a release by that value is not
refused while the lease lives (`Told`); a lease held is the newest of its editor, so that no later one is forgotten with it
(`Holding`); each command, and its answer, may assume that the replica holds nothing else of the editor (`About`); what may
follow it excludes, for one, an activation sent after a release of the same reservation (`Before`); and a reservation's answer
is received in the order the commands were executed, so that an answer "revoked" tells the replica to forget only what is gone
from the room (`InOrder`, `Revoking`).

Model-checked only: liveness (that events are announced is liveness too).


## 7. What is left out

In the modelled parts:

* Timestamps are ages (journal, outbox, fence) or readings of one increasing timer (items). A
  server clock that runs backwards, and replicas whose clocks differ, are not modelled; the
  code stamps `max(now, stored + 1)`, of which the model has the second half in the formula
  but never needs it.
* `INSERT IGNORE` waits for a competing uncommitted insert of the same key; the first
  transaction is one step here.
* Unparsable event rows, the batch limit of a drain, and a publication that never ends.
* Retrieval restricted to shared vaults, legacy cursors, clients without microsecond tokens,
  transfer limits in bytes, content-type filters.
* The items a first sync puts in front of the page because the client shows them first.
* A save that is not a sync command commits each item as it is written, not all in one
  transaction; with one item in a request, as `items` has it, the two are the same.
* Save rules other than the staleness check, quotas, metrics, revisions.
* Which of the items of a save are notes, and signatures of proofs, in the fence; the order of
  the lock and the staleness check of other items.
* Transport: file transfers, RPCs and invite subscriptions over the same socket, credential refreshes that those ask for, item pushes, reconnect
  delays and budgets (a dial that fails is one mishap), digests (the identity is id and digest), the
  in-memory fallback where IndexedDB is missing, and several commands of one tab at once, which the
  slot excludes.
* Client sync: several items and pages, items keys and decryption errors, rejections and UUID
  conflicts, references merged when the local version is kept, item types with strategies of their own, the conflict policy of
  live collaboration, local-only items and signed-out use.
* Sessions: what credentials are checked, refresh-token expiry, cookies against headers, the policy on unconfirmed
  addresses, and requests that use a session without refreshing it.
* Rooms: one room and one protocol version; presence, Yjs claims and the relay of encrypted updates and what peers are told;
  limits and rates; the lifecycle of a gateway that runs without Redis; the calls to the save fence that a lease makes; the orderly
  end of a process, and the eviction of a room on backlog. A policy that fails while leases are refreshed is handled with
  each answer, not once for all of them, and a handler that ends by releasing a lease sends the release in that step.

Components that are not modelled are in section 1 and `PROJECT.json`: user interface, wiring,
encryption and generated code because they keep no protocol state; the others because they
come later in the plan.


## 8. Plan

Done: the journal and its ledger, the outbox, their composition, items, the fence, the client's
transport on top of the ledger, client sync, session tokens, collaboration rooms; proofs of the journal, its delivery, the
fence, the items (lost updates, tokens, cursors and skips), the transport's memory, leases and refusals, client sync, the sessions and the rooms.

Next, in this order:

1. `SharedVault`: membership, invites, transfer to a survivor, with events deferred to the commit.
2. `FileUpload`: sessions, finishing, moves and the quota counter under at-least-once events.
3. The rooms' leases composed with the save fence.

The number of runs is kept at a dozen: a new component takes the place of runs that answer
related questions.
