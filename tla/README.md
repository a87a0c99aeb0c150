# A TLA+ model of ICEQ

ICEQ is an end-to-end encrypted messenger: Go services (auth, message, key,
file, presence, a WebSocket/long-poll gateway) over Postgres, ScyllaDB, Redis
and NATS JetStream, and a web client. The servers never see plaintext, so what
they must get right is the rest: a message that was acknowledged is not lost
and not doubled, a recipient's queue gives up an envelope only when the client
has it, and an account that asked for a panic wipe is locked out at once and
erased completely in the end. This directory models that part, checks it on
small instances with TLC and proves the central results with TLAPS.

## Inventory

| Component | State | Operations | What makes it correct |
|---|---|---|---|
| Durable ingest (`backend/message-service/store`, `durable_ingest.go`) | Scylla tables `message_ingest`, `messages`/`group_messages`, the outbox tables, deletion and erasure indexes | `Claim`, `WriteDirect`/`WriteGroup`, `MarkStored`, `MarkDelivered`, `deleteOutbox`, expiry | one stored message per `client_id`; acknowledged means stored; stored and not delivered means still in the outbox |
| Outbox recovery (`store/durable_outbox.go`, `durable_ingest.go`) | outbox rows, page cursors of each bucket | fetch a page, publish to JetStream | every pending row gets its turn |
| Delivery consumer and recipient queue (`backend/ws-gateway/delivery_consumer.go`, `router/recipient_acceptance.go`) | JetStream entries, per recipient an index, a sequence counter and seen markers in Redis | fetch, `Accept`, live push, report `delivery.accepted`, ack, `NakWithDelay` | each envelope is queued once per recipient, confirmed only after all accepted it |
| Long poll (`router/poll.go`, `web/src/hooks/useMessageTransport.ts`, `web/src/features/transport`) | poll cursors in Redis, the client's cursor and local store | poll, acknowledge by cursor, issue a cursor, store a page | nothing is removed that the client has not stored |
| Scylla erasure (`backend/auth-service/handlers/scyllastore.go`) | the Scylla tables of ingest | walk an index, delete or sanitize what it names | the wiped account disappears, everybody else keeps the message |
| Panic wipe and workers (`handlers/panicwipe.go`, `wipejob.go`) | `users`, `wiped_accounts`, `wipe_jobs`, a blocklist key in Redis | `PanicWipe`, claim, renew, storage phases, final erasure, retry | locked out until erased; what is left at the erasure is named by another job; nothing left after the last job |
| Contacts (`handlers/contacts.go`) | `contacts` rows | add, accept, block, remove | both sides agree; does not obstruct erasure |
| Sessions (`handlers/login.go`, `refresh.go`, `logout.go`, `shared/jwt`) | refresh tokens, `session_epoch`, blocklist | login, rotation, reuse detection, logout | a revoked session never works again |
| Panic-wipe challenge and PIN (`panicwipe_challenge.go`, `panicpin.go`) | `user_security_settings` row, challenges in Redis | issue, enroll, rotate, set PIN, authorize a wipe | a stored key is replaced only by who proved it; a challenge counts once |
| Groups and crypto epochs (`message-service/handlers`) | `groups`, `group_members`, `sender_key_distributions` | create, add, remove, leave, wipe, delete, list, put and read sender keys, admit a group message | the roster never changes inside an epoch; keys and messages stay within it |
| Message history (`handlers/history.go`, `store/messagestore.go`) | `messages`, `group_messages` | read a page, mark read | no row lost between pages (the cursor's own `created_at` and expired rows excepted); nothing of a wiped account shown |
| Hub and WebSocket client (`ws-gateway/hub`, `client`) | registered sockets, send channels, an undelivered list | register, send, drain, close, tear down | no session of a wiped account survives; a frame of `hub.Send` reaches a connection once; the list stays bounded |
| Router (`ws-gateway/router`) | none of its own | forward, typing, receipts, transport ack | part of the components it acts on |
| Keys (`key-service`) | `prekey_bundles`, `one_time_prekeys`, a fetch counter | upload, replenish, fetch a bundle | a one-time prekey is handed out once, and burnt for nobody only when the reply to its commit is lost |
| Files (`file-service`) | objects, metadata, grants, pre-signed URLs | upload, grant, revoke, download, delete | wiped with the account, and only with it |
| Presence (`presence-service`) | status keys with a time to live | set, expire, notify contacts | offline once every session ended |
| Web client | IndexedDB: sessions, transport inbox, attachment grants | bootstrap, recovery, claim/commit of envelopes | an envelope is decrypted once, recoverable after a reload |
| Rate limits, CSRF, edge identity, bus and database adapters, smoke tests | counters or none | | stateless, or their guarantees are the atomic steps below |

A message takes this way: the gateway's router forwards an envelope to
message-service, which claims `(sender, client_id)`, writes row and outbox in
one logged batch, marks the receipt *stored* and answers; the delivery (the
handler's own publish, or outbox recovery later) goes through JetStream to some
gateway, which puts it into the Redis queue of every recipient, pushes it to
live sockets and reports `delivery.accepted` back to message-service, which
marks the receipt *delivered* and deletes the outbox row. The client fetches
the queue by long poll, or acknowledges a live push. Auth-service's wipe
workers later walk the indexes that ingest wrote.

What is hard here: nothing holds a lock across two database statements, so any
two handlers interleave between statements; a handler may stop after any
statement; leases are judged by clock readings taken earlier; JetStream
redelivers; HTTP answers get lost; rows expire under a running handler; queues
and cursor lists are bounded. `PROJECT.json` lists these hazards at their
lines, with the properties that guard against them.

## Modules

| Module | Models | Composes |
|---|---|---|
| `StoreAndForward` | abstract: what durable ingest promises | |
| `DurableIngest` | message-service's durable ingest and delivery receipts | implements `StoreAndForward` |
| `OutboxFetch` | the outbox worker: rotation, cursors and shares of a fetch | |
| `DurableIngestProofs` | theorems about `DurableIngest`, the refinement included, and `OutboxFetch` | extends both |
| `IngestErasure` | the Scylla phase of wipes running against ingest | extends `DurableIngest` |
| `IngestErasureProofs` | theorems about it | extends `IngestErasure` |
| `RecipientMailbox` | abstract: what the recipient queue promises | |
| `RecipientDelivery` | JetStream consumer, Redis queue, poll, client | implements `RecipientMailbox` |
| `RecipientDeliveryProofs` | theorems about it, the refinement included | extends `RecipientDelivery` |
| `AccountWipe` | panic wipe, jobs, workers, final erasure, contact requests | |
| `AccountWipeProofs` | theorems about it | extends `AccountWipe` |
| `SessionTokens` | login, refresh rotation, logout, revocation by a wipe | |
| `SessionTokensProofs` | theorems about it | extends `SessionTokens` |
| `GroupEpochs` | a group's roster, epochs and sender-key inbox | |
| `GroupEpochsProofs` | theorems about it | extends `GroupEpochs` |
| `GatewaySessions` | WebSocket sessions, close on wipe, presence | |
| `OfflineQueue` | `hub.Send`, `hub.SendLive`, the undelivered list and its drain | |
| `GatewayProofs` | theorems about both | extends `GatewaySessions`, `OfflineQueue` |
| `MessageHistory` | history pages against expiry, read receipts and a wipe | |
| `PrekeyBundles` | prekey upload and consumption | |
| `FileObjects` | files, grants, avatars and their erasure | |
| `WipeCredentials` | wipe key, panic PIN and challenges | |
| `AccountDataProofs` | theorems about these four | extends `MessageHistory`, `PrekeyBundles`, `FileObjects`, `WipeCredentials` |
| `MC*` | small instances for TLC; `MCServices` extends `GroupEpochs` and the six service modules after it, `MCAuth` extends `AccountWipe` (by `MCAccountWipe`) and `SessionTokens`, `MCWorkers` extends `AccountWipe` and `OutboxFetch` | |

A definition whose comment begins with "Mutant:" is a deliberately wrong
variant of the definition after it. It is used by no specification; each is
substituted once to see that the property it is meant for notices.

### DurableIngest and StoreAndForward

`receipt`, `rows`, `outbox` and the three index variables are the Scylla
tables; `req[q]` is a run of `processDurableIngest`, `conf[d]` one of
`handleDeliveryAccepted`. `pc` is the statement executed next, so an action is
one statement: `ClaimInsert`/`ClaimExists` (INSERT IF NOT EXISTS), `IndexWrite`
(one erasure-index row), `ClaimCommitted`/`ClaimStale`/`ClaimRefused` (the
outcomes of `load` and the comparisons after it), `Takeover`/`TakeoverLost`,
`WriteBatch`/`WriteExpired`, `MarkStoredLoad`/`CAS`/`Lost`, `Publish`, `Reply`;
`ConfirmLoad`, `ConfirmCAS`, `ConfirmDelete`. `Fail` and `ConfirmFail` stop a
handler before its next statement, which also stands for a statement that took
effect although the caller saw an error. `OutboxPublish` is an attempt of outbox
recovery; which rows get one is `OutboxFetch`.
`Evict*` removes a row whose time to live is over, at any time after that.

Abstractions: one clock that all nodes read (no skew); a single time to live;
`env` stands for all columns that `Claim` compares; a group's membership
snapshot is the recipient set of its envelope; a request is its owner token,
which the code draws at random for each request.

`StoreAndForward` has no handlers, leases, owners or indexes. Under each key at
most one `message` lives, *claimed*, *stored* or *delivered*; storing it makes it
`visible` (its row) and `waiting` (its outbox row) in one step; it may be
`answered` (a persisted ACK) and `published` from then on, counts as delivered
only after something was published under its key, leaves the outbox only after
that, and only time takes it away. `Promise` maps the store to it: a receipt that
has not expired is the message, `PhaseOf` says *stored* as soon as the message
row exists, so the logged batch and not `MarkStored` is the commit point, and
`LiveItems` and `Answered` forget what expired. Everything else that handlers
do, takeovers, lost compare-and-sets and eviction included, must be a step that
changes nothing there.

### OutboxFetch

`pending` is what both outbox tables hold; a row is a bucket, a kind and a place
in the order of `(created_at, message_id)`. `fetcher` is the goroutine of
`runOutboxWorker`: `DrainTick` begins a fetch at `nextStart`, each `ReadPage` is
one SELECT with the lines of the loop around it, `LeaveBucket` the `break`,
`ReturnBatch` the end of the loop, `Attempt` one `deliverOutboxEntry`. Rows are
written, deleted and expire between any two of these, also behind the cursor,
since a row bears the time of its claim. `ReadFails` returns the error and drops
what was read, with the cursors moved; `FetcherRestart` forgets the cursors.

`lapsed` are rows past `expires_at` that Scylla still returns: they count
towards the LIMIT and are then left out, so a page of nothing else looks empty
and its cursor goes back to the start. Whether an attempt succeeds is left open:
a row that nobody can deliver is one that stays `pending`. The result, a list in
the code, is a set, as every entry is attempted whatever the others do.

In `DurableIngest`, `OutboxPublish` takes the row from the outbox in the same
step. In the code the row may go between the fetch and the attempt. A row that
was delivered is then published a second time, and one that expired is published
late; `StoreAndForward` allows both (`Publish` of a delivered message,
`PublishLate`), and of what is published handlers use only the key.

### RecipientDelivery and RecipientMailbox

A Lua script is one action; `acceptDelivery` (`gw`), `Poll` (`poll`) and the
client's coordinator (`client`) run script by script. `Fetch` takes any
unacknowledged entry that no gateway is working on: JetStream redelivers to
whichever gateway asks. `ReceiptLost`, `GatewayFail`, `PollAbort`,
`PollStoreFails` and `CursorsExpire` are the failures. Every message is
`absent`, `queued`, `taken` or `expired` for each recipient in
`RecipientMailbox`; `Status` maps `seen` and `index` to these.

`PublishTyping` is the router's typing frame, which the stream captures as it
captures every message on these subjects; `AcceptRejected` is `acceptDelivery`
refusing it. `pending` are the entries handed out and not acknowledged, at most
`MaxAckPending`: an entry that was refused stays in it.

Abstractions: expiry of a message is one event for all its records and markers,
and the seven-day life of markers of non-expiring messages and of the stream's
entries is not reached; `DrainAccepted` has no caller and is present only as a
mutant.

### IngestErasure

Each account in `Wiped` has a worker that walks the five indexes of
`DeleteUserMessages` and `DeleteUserGroupMessages`: `EraseScan` reads the index
partition, then one action per entry and statement, then `EraseDropIndex`.
Shared rows (the receipt, the group outbox row) are edited by a read and a
compare-and-set, `SanitizeReceipt`/`SanitizeReceiptLost` and
`SanitizeOutbox`/`SanitizeOutboxLost`, with at most `CASAttempts` tries.
`EraseFail` restarts the walk, as the job does.

### AccountWipe

One account. `wipe[w]` is a `PanicWipe` call, `job[w]` the row it inserted,
`worker[k]` a run of `processOneJob`. `WipeCommitUnknown` and
`FinalErasureUnknown` are COMMITs that took effect although the caller saw an
error; after the former the deferred removal of the blocklist key runs
(`UndoBlocklist`). `LeaseLost`, `RenewError` and `LeaseLapse` are the ways in
which a worker and its lease part. `contacts` are the rows of other accounts
that reference this one, written by `AddContact` after the separate existence
check `AskContact`.

A storage layer is one bit of `dirty`. The phase `ObjectsPhase`
(`minio_objects`) deletes the objects whose keys are in its own job's row, the
others go by the uin: `Deleted(k)` is what the phase at hand deletes. `owned`
says that `file_objects` still names the account's objects, and `keys[w]` that
the call `w` found them there. A call that captures after another has committed
gets none, and then its job's `minio_objects` phase succeeds without deleting
anything.

Abstractions: leases and backoffs are events, not durations; the bit of a layer
is not set again (uploads that race `captureFileKeys` are in `FileObjects`, where
every object counts); a lost answer to the deletion of the job is the same step
as the deletion.

### SessionTokens

One account. `rows` is `refresh_tokens`, `epoch` is `users.session_epoch`,
`userRow` and `wipedRow` the rows of `users` and `wiped_accounts`, `revokedPairs`
the Redis keys of revoked access tokens; `pair[s]` is the pair of tokens that login
or refresh `s` issued, with the time of signing and the pair it replaced; `op`
are the running requests. `Verify` is taken apart into its three reads
(`VerifyMarker`, `VerifyBlocklist`, `VerifyEpoch`), after any of which others
may act. The transactions of login (`LoginIssue`), refresh (`RefreshRotate`,
`RefreshExpired`, `RefreshReuse`), the bump (`LogoutBump`) and the wipe
(`RevokeByWipe`) first lock the user row, so each is one action; `Begin` before
them fixes the value of `NOW()`, which is older than the lock if the
transaction had to wait. Logout's DELETE takes no such lock: `LogoutScan` is
its snapshot, `LogoutDelete` its effect. `dead` is a history variable: the
pairs ended by a completed deletion. `EraseUserRow` is the final erasure of
`AccountWipe`, possible here whenever the marker stands.

Abstractions: the two tokens of a pair are signed at the same moment; a token
does not expire by its own `exp` (that only takes behaviours away), a row may
at any time; the Postgres and Go clocks agree; the session that registration
opens, password rehashing, cookies and rate limiters are left out.

### GroupEpochs

One group. Every operation is one SQL statement over several CTEs. Under READ
COMMITTED such a statement takes its snapshot, may wait for the lock on the
`groups` row, and then sees the locked row as it is now but the other tables as
they were: `AddBegin`, `RemoveBegin`, `WipeMembershipBegin` and `PutBegin` take
the snapshot, the `Run` actions do the rest. `joined[u]` is the epoch a member's
row was inserted in, which orders members by tenure and tells a row from a later
one of the same account. `RouteGroup` is the gateway's check of a group message
and `IngestGroup` message-service's. `view` is what a client was last told by
`ListRoster`/`ListEpoch`, and it encrypts for that. `rosters` is a history
variable. Abstractions: one group; a deleted group is not created again; names
and limits are left out.

### GatewaySessions and OfflineQueue

`GatewaySessions` has the connections of one account. `conn[c].pc` is where
`ServeHTTP` stands, `teardown` how far `shutdown()` came (the done channel,
then the presence subscription, in whichever goroutine called it), `closer`
the goroutine that `hub.CloseWiped` started. The wipe is seen as the gateway
sees it: blocklist, commit or rollback, notification (sent or lost), final
erasure. `bus`, `service`, `stored` and `seen` are the way of a status from
`presence.update` to a contact. `lost` records that a publish, write or lookup
failed, after which nothing is promised. Abstractions: a client with presence
disabled sends no presence frame; the read deadline is the event `ReadEnds`;
one contact stands for all.

`OfflineQueue` has the Redis list and the send channels. A callback of `hub.Send`
copies the hub's connections (`SendFrame`) and fans out, or runs the pipeline
LLEN, RPUSH and then perhaps LTRIM, each its own step. `Connect` is `Register`
(before the drain), `DrainRead` and `DrainDelete` the two Redis commands of
`drainUndelivered`. `misses` counts trims that failed since the list was last
cut. The same channels hold what `SendLive` puts there: an envelope from the
recipient's queue of accepted envelopes, when the JetStream consumer accepts it,
at connect and every five seconds, as often as it stays in that queue
(`AcceptedCopy`, whichever envelope it is). It takes room in the channel, writes
no list, and may be the same envelope as a frame of `hub.Send`: then the
connection gets it twice and the client, which knows its id, shows it once
(`hub.go:259-261`).

### MessageHistory

The reader of one conversation, direct or group (`kind`), with one peer. Rows
are keys in clustering order, `(created_at, id)`; `CreatedAt` gives their times,
which never decrease and may be equal. `CheckPeer` then `ReadDirect` for the
direct endpoint, `ReadGroup` then `FilterGroup` for the group one: the two ask
Postgres and Scylla in opposite orders. `StoreMessage` is ingest, which looks at
no account when it writes: a request admitted before the peer's wipe writes its
row after the commit, after a job's scan, or after the erasure (`lateRows`, a
history variable). The wipe is the marker (`WipePeer`) and any number of jobs
(`scan[w]`): `ScanPeer` reads the index, `EraseRow` deletes a row it found,
`EraseIndex` drops the index as it is by then, `ScanFails` starts the job again,
and `ErasePeer` takes user and marker away, without another look at the rows and
whatever other jobs have left. `MarkRead` is an unconditional UPDATE and may
create a row with nothing but a status.

### PrekeyBundles

One account's keys. `ConsumeBegin`, `PickKey` and `MarkUsed` take the single
statement of `qConsumeOneTimePrekey` apart into snapshot, row lock (`SKIP
LOCKED`, with the recheck of `used = false`) and commit; the bundle row is read
by a statement before that. `MarkUsed` ends *answered*, or *lost*: the key is
used, but the five-second limit or the connection ended before the reply, and the
caller gets an error. `FetchFails` is an error before the commit. `WipePrekeys` and `EraseHolder` are the two
deletions, with the foreign keys as the schema declares them.

### FileObjects

`slot[o]` is an `upload-url` request and the URL it gave away: signing,
registering the owner and answering are separate. `PutObject` is the client
talking to MinIO, which asks no service. `eraser[w]` is a call of `PanicWipe` and
its job, with the keys that call captured: `CaptureFileKeys`, `CommitWipe`,
`RemoveObject`, `RemoveAvatar`, `EraseAccount`, `DeleteJob`. Several may be under
way; one that captures after another has committed has a job without keys, which
may erase the account before the other job has removed an object. An attempt
that fails starts its pass again with all its keys (`RemovalFails`), also after
the account is gone. `late` is a history variable: what was registered too late
to be captured, or registered or written after the commit, and not removed since.

### WipeCredentials

One `user_security_settings` row. Setting a key first looks at the stored key
(`SetKeyLookup`), which decides whether a password (`EnrollPassword`, `Enroll`)
or a signature over a challenge (`RotateProof`, `Rotate`) is asked for; a wipe
selects its verifier the same way (`SelectVerifier`, `VerifyLookup`,
`VerifyWipeSignature`, `VerifyPin`). `by` and `spent` record which key's
signature was accepted over which challenge. Cryptography is the choice between
accepted and refused; rate limiters only take behaviours away.

## Runs

| Run | Instance | Shows |
|---|---|---|
| `ingest` | 3 requests with one `client_id`, 1 delivery receipt handler, lease 2, TTL 3, clock to 3 | `AckedIsDurable`, `OneStorePerKey`, `StoredAwaitsDelivery`, `LeaseExclusive`, `OutboxOutlivesDelivery`, and the refinement `ImplementsPromise` |
| `delivery` | 2 messages to 1 user, both may expire, queue limit 2, 1 cursor kept, pages of 1, 2 polls | `ScoresDistinct`, `CursorStored`, and the refinement `ImplementsMailbox` |
| `fanout` | a group message, a direct one and a typing frame, 2 users, 2 gateways, queue limit 1, fairness | the refinement, and `EventuallyDelivered` |
| `erasure` | sender and both recipients may be wiped, two at a time; 2 requests with a direct or a group envelope | `OthersKeepMessage`, `ErasedForGood`, `TombstoneOnlyWhenAllWiped`, `ClaimSurvivesWipes` |
| `auth` | one of two: 2 `PanicWipe` calls, 2 workers, 2 storage phases, 1 other account; or 2 logins, 2 refreshes, 1 logout, 1 wipe, seconds of 2 clock units | `WipedStaysWiped`, `LeftoversNamed`, `ZeroFootprint`, `StaleWorkerHarmless`; `OneRotation`, `WipeEndsSessions`, `DeadCannotRotate` |
| `services` | the seven modules of `MCServices`, one at a time | `EpochFixesRoster`, `KeysWithinEpoch`; `WipedIsCut`, `NoStrandedSubscription`, `PresenceSettles`; `UndeliveredBounded`, `OncePerConnection`; `HistoryHidesWiped`, `PagesLeaveNoGap`; `KeyServedOnce`; `FilesErased`, `OthersFilesStay`; `KeyChangesProven` |
| `workers` | one of two: 1 `PanicWipe` call, 2 wipe workers, 1 other account; or an outbox of 2 buckets, 5 rows of which 2 may expire, fetches of 3 rows and so shares of 2, 1 failed read or restart; fairness | `ErasureCompletes`; `SharesKept`, `TurnsComeAgain` |
| `ingest_index`, `delivery_cursor`, `delivery_typing`, `wipe_contacts`, `wipe_files` | as above, smaller | findings, below |

Why these bounds. In `ingest` three requests are the first number at which a
third handler takes over from one that took over itself; the clock reaches the
end of the lease (2) and of the time to live (3), so takeover, eviction and
reuse of the key happen. Different keys share no row, so one key is enough. In
`delivery` two messages suffice for a queue to empty and its counter to
restart, one retained cursor makes the bound on cursors bite, and a page of one
leaves something behind the cursor. In `fanout` the queue of length one is full
for the second message; three entries may be unacknowledged, as many as there
are, so that the typing frame cannot stop the others (that it can is the run
`delivery_typing`). In `erasure` two workers meet
on one receipt. The state constraint `MCBound` keeps the pairs of both
recipients and of the sender with one recipient. Both recipients are wiped
while a request runs, after another one or alone; sender and recipient while a
direct message is ingested, or after a group message was; two requests run side
by side against one wipe. The clock stands still, so nothing expires and no
lease lapses, as in the hypothesis of two of the theorems; what expiry can add is
among the observations, and for `ErasedForGood` and `ClaimSurvivesWipes` the
theorems include it. In `auth`
a behaviour belongs to the wipe or to the sessions, which share no state here.
Two workers are a stale one and its successor, or those of two calls, of which
one may have captured nothing; of the two phases one goes by the uin and one by
the keys in the job; contacts come and go only while a worker is idle and a call
has not begun (`MCBound`). Two refreshes present one token at the same time or one
after the other, or form a chain, while a logout or the wipe passes between
their verification and their transaction; the clock crosses a second. In
`workers` the shares of both buckets together exceed the fetch, as 16 shares of 7
exceed 100, so the bucket visited last may get less; one page holds more than
the share, and its first two rows, as many as a read returns, may expire at
once, which makes a page look empty until Scylla evicts them. A behaviour of
`workers` belongs to the wipe workers or to the outbox worker, which share no
state.

In `services` a behaviour belongs to one of the seven modules, which share no
state; the others rest. Two group requests are a statement that waits for the
lock and the one it waits for, on two accounts, over three epochs: create, a
change and a change on top of it; with `KeysPerSender` 1 every second key
trims. `MCBound` has a second distribution id only while one request runs, one
accepted message, and no distribution beside it: neither is read by what makes
the other, nor by what accepts a second message.
Two connections are an overlapping pair, with a wipe between any two of their
steps; the refusal of a third by `MaxConnections` is a guard only, and presence
failures are followed only while there is no wipe, which does not read what
they change. Two
subscriptions and a cap of one let a push slip between another's length and
trim; two sockets of two slots fill, and accepted copies are followed in one
channel at a time and among the first three frames. Three rows, the second and
third of one `created_at`, and pages of one make a second page and a tie at its
edge; two jobs are one that erases the peer and one that is still at its rows.
`MCBound` lets one row expire, and only while there is no late one; has one late
row, and one read receipt under way, before the wipe; and follows two jobs at once only in the
direct table, with one old row and no late one. Two fetches want the same key of
two, and two uploads repeat it. Two objects are the wiped account's and
another's, granted to it, or both the wiped account's; two calls are one with
keys and one without, or both with; avatar URLs are only the wiped account's.
Three requests,
three keys and two challenges are two rotations racing over one stored key
after an enrollment. No
run checks deadlock: requests, polls and wipes are finite in number and the
system may come to rest when they are over.

### Fairness

`RecipientDelivery!Fairness`: a handler that can go on does (goroutines run);
an entry that can be fetched again and again is fetched (strong fairness: the
consumer has no delivery limit and every refusal is a `NakWithDelay` or a
missed ack, so JetStream offers it again, but a gateway may be busy in
between); a live client is pushed and acknowledges. Crashes and lost receipts
do not go on for ever.

`AccountWipe!Fairness`: the worker's five-second ticker and the scheduler make
`Work` weakly fair; backoffs end and an abandoned lease lapses because time
passes; faults end; from some time on a lease that its worker renews does not
lapse. No fairness is assumed of users, contact requests or `PanicWipe`.

`OutboxFetch!RecoveryFairness`: the outbox goroutine goes on (its ticker does not stop, a read
answers or fails, an attempt ends after three seconds), and Scylla evicts what
has expired. No row need ever be deleted. Failed reads and restarts are counted
by `MaxFaults`, and the rows are `Entries`: what `TurnsComeAgain` says is about
a time in which neither goes on for ever. If every read of one bucket failed, no
fetch would ever return; if new rows of one kind came faster than the share of
their bucket, the other kind would wait.

### Findings

Five runs are expected to be violated. Each states what a comment in the code
says and shows a behaviour of the code that contradicts it.

* `ingest_index`: the erasure index is written only after a fresh insert, so a
  receipt whose first handler stopped there is stored by a takeover and never
  indexed for its recipients.
* `delivery_cursor`: the sequence counter is deleted with an empty queue while
  cursors keep the old numbers, so new records may lie before a client's
  cursor and not be returned until the cursor is lost.
* `delivery_typing`: typing frames go to the subjects of the durable stream, are
  stored there, can never be accepted and are offered again every second, so
  that each holds one of the consumer's unacknowledged entries for seven days
  (256 in the code, one in the run).
* `wipe_contacts`: a contact row written after `PanicWipe` committed references
  the user row without cascade, and `DELETE FROM users` then fails in every
  attempt.
* `wipe_files`: a second `PanicWipe` call that captures after the first has
  committed has a job without file keys, which erases the user row while the
  objects named by the first job are still in MinIO. The first job goes on and
  removes them in the end; that the user row goes only after every layer is clean
  is not so. `LeftoversNamed` and `FilesErased` say what does hold.

### Observations

Met while modelling, visible in the models, and not runs of their own:

* A tombstone has no `envelope_hash`, and `load` rejects it
  (`durable_ingest_scylla.go:204`) before `Claim` can recognise it as
  `durable_ingest.go:35` says.
* Two members who leave at once each see the other remain: the group is left
  without members and with an owner who is gone (`Depart`). An addition retires
  the keys of its snapshot only, so a key stored while it waited stays live.
* `hub.go:21` promises at least once; a frame pushed between LRANGE and DEL, one
  that meets a full channel, or one still in the channel of a closed socket is
  lost. Messages survive in the durable queue.
* The read loop asks `IsAccountWiped`, not `...OrMissing`: after final erasure a
  socket that missed the notification goes on (`ReadFrame`), which is why
  `WipedIsCut` speaks of handled notifications.
* The end of one session publishes *offline* although another is connected;
  after a wipe that also creates the presence key again.
* `MarkRead` on an expired or erased message leaves a row with a status and no
  time to live, where `messagestore.go:537` speaks of a no-op.
* The clustering key is `(created_at, id)`, but the cursor is a `created_at` and
  the next page strictly older (`messagestore.go:426-430`): of rows with equal
  times on both sides of a page's edge the older ones are on no page. The test
  (`history_pagination_test.go:184-204`) has no equal times. `PagesLeaveNoGap`
  excepts the cursor's own time.
* A page that fetched an expired row may report no further page although there
  is one (also excepted); the group endpoint shows a wiped
  sender's rows if final erasure falls between its read and its filter.
* A bundle, PIN or wipe key written by a request that was authenticated before
  the wipe committed stays and, lacking a cascade, blocks final erasure
  (`UpsertBundle`, `SetPin`), as contact rows do in `wipe_contacts`.
* A message of a request that was admitted before the wipe and writes after the
  job's scan is found by no later one: hidden while the marker stands, it is
  shown again once final erasure has taken the marker away, and stays until it
  expires (`HistoryHidesWiped` excepts it by `lateRows`).
* A one-time prekey whose consuming statement committed although `GetBundle`
  saw an error (`keystore.go:229-230`) is used and was handed to nobody. The
  owner's client replenishes by the count of unused keys.
* An envelope that comes by `hub.Send` and from the queue of accepted envelopes
  reaches a connection several times; only the client tells.
* A pre-signed PUT used after the removal leaves an object (`late`).
* `scyllastore.go:319` finds a plain `IF EXISTS` sufficient for a direct
  receipt. If the receipt expires after the worker read it, and its sender uses
  the `client_id` again for a group message, the stalled worker makes a
  tombstone of the new receipt and a live member loses an acknowledged message.
  TLC finds this with `TTL` 1, `MaxClock` 1, one wipe and two requests; in the
  code it takes a worker that stands still for the whole time to live, which is
  why the theorems about others' messages exclude expiry instead.

## Proofs

TLC's instances are small; the theorems hold for all sets of keys, requests,
handlers, wipes, workers and phases, and every lease and TTL. Two theorems about
erasure have a hypothesis, `MaxClock < TTL`: no message is old enough to expire.

`DurableIngestProofs` assumes `KeysAssumption`, `TimeAssumption` and
`NoneAssumption` (types of the constants, positive lease and TTL) and proves
`TypeOK`, `AckedIsDurable`, `OneStorePerKey`, `StoredAwaitsDelivery`,
`LeaseExclusive`, the action property `OutboxOutlivesDelivery` and the refinement
`ImplementsPromise`. None of
these is inductive. The invariant `IInv` adds what a handler knows in the
middle: while the claim lives, the receipt in the store is the one the handler
copied (`HeldIsCurrent`); an owner token identifies one incarnation of the
receipt (`OwnerOnce`), which is what makes a compare-and-set on the token
sound after the row expired and was created again; past the batch the row is
there (`BatchWritten`); a handler about to reply has a committed receipt
(`ReplyCommitted`); the receipt's lease is the live handler's
(`LeaseIsReceipts`); and a confirmation deletes the outbox row only of a
delivered receipt (`ConfirmerInv`). There is one lemma per group of actions,
and one for the passage of time, where everything hangs on `Unexpired` being
only ever lost.

For the refinement, `PromiseInv` adds to `IInv` that an outbox row is the one of
its message row (`OutboxOfRow`), that the batch of a live receipt still has both
rows until a delivery (`RowAwaits`), and that a delivery-receipt handler works
for a key under which something was published (`Heard`). Every action has a
lemma `...Maps` that names the step of `StoreAndForward` it is, or that it is
none (`Stutters`), alone or with the others that do the same: `ClaimInsert` is `Claim`, the first `WriteBatch` is `Store`, a
batch written again by a slow owner is none, or `Forget` when the message was
delivered meanwhile, `MarkStored` and takeovers are none, `Reply` is `Answer`,
both publications are `Publish`, or `PublishLate` for a message that expired
under its handler, the compare-and-set of `MarkDelivered` is `Deliver`. This is
what shows that the interleavings of any number of handlers add nothing to the
promise.

The same module proves `RecoveryTypeOK` and `SharesKept` of `OutboxFetch` from
`FetchAssumption`, for any number of buckets and rows and any limit. `SharesKept`
says nothing of a fetch half-way; `ReadingInv` does: the rows in hand are of
buckets the fetch has come to (`Turn` is the offset at which it comes to one,
and no two buckets have the same), and what the worker has of its present bucket
and what is left of the share add up to no more than the share. That a read
returns no more rows than its limit is the lemma `FirstFew`, by counting the
rows before each.

`AccountWipeProofs` assumes `PhasesAssumption` and `NoneAssumption` and proves
`TypeOK`, `WipedStaysWiped`, `LeftoversNamed`, `ZeroFootprint` and
`StaleWorkerHarmless`, for any number of calls with or without keys. The
strengthening is `JobInv` (only a job being processed has a worker, and a call
has no job before its commit), `WorkerInv` (a worker about to erase passed every
phase without failure, so a layer is still dirty only if it is the objects' and
the job has no keys, `Excused`; one past erasure works on an erased account),
`KeysInv` (the objects are named by `file_objects` until the first commit, which
therefore has their keys, and after it by a job that exists: the job that holds
them is deleted only by a worker that is not excused), `ErasedInv` and
`BlocklistInv` (a blocklist key that outlives the last job belongs to a call that
is still pending).

`SessionTokensProofs` assumes `HandlersAssumption` (different kinds of request
are different), `ClockAssumption` and `NoPairAssumption` and proves
`SessionsTypeOK`, `OneRotation`, `WipeEndsSessions` and the action property `DeadCannotRotate`.
The strengthening: a handler past `Present` names a pair
(`TokensPresented`), a pair exists only once its issuer is done
(`IssuersDone`, so no request issues twice), a pair with a row is issued and
not dead (`RowsInv`), and a pair that was replaced has no row
(`ParentsConsumed`), which is why a second rotation finds nothing to consume.

`RecipientDeliveryProofs` assumes `DeliveryAssumption` and proves `TypeOK`, `ScoresDistinct`, `CursorStored` and `ImplementsMailbox`.
`ScoresDistinct` is inductive with the types: a counter that restarts does so
together with its queue. `CursorStored` is not: the invariant `CursorInv` says
which request carries the page of a stored cursor until the client has stored
it (`Held` is a token in the client's hands or presented by one of its polls),
and `RequestInv` (`Knows`) what a request may remove, read before it removes.
For the refinement, `QueueInv`, `GatewayInv` and `RequestInv` relate `seen`, the
queue and `expired`: a recipient that `acceptDelivery` has dealt with has or had
the message, so nothing a later step deletes can turn `queued` back into
`absent`. The argument is then one lemma per kind of abstract step (`StatusKept`,
`Entered`, `Taken`, `Expired`) and one `...Maps` lemma per action that says
which of them it is.

`GroupEpochsProofs` assumes `GroupsAssumption` and proves `GroupsTypeOK`,
`EpochFixesRoster` and `KeysWithinEpoch`. The strengthening: no row, message or
snapshot names an epoch that has not begun (`PastEpochs`), the members a
snapshot shows are those of the epoch it shows (`SnapshotsTrue`), and a deleted
group has no members (`GroupRowInv`), which is why a statement that waited for
the lock and compares the epoch again works on the roster it read.

`GatewayProofs` proves `GatewayTypeOK`, `WipedIsCut`, `NoStrandedSubscription`
and `PresenceSettles` from `SessionsInv`: a session past its registration is in
the hub's map (`HubInv`), a notification means a committed wipe (`NoticeInv`), a
session subscribes once and leaves after its teardown (`SubInv`), and when
nobody is online the last word on the bus, in the service or in the store is
*offline* (`LastWord`). It proves `OfflineTypeOK`, `UndeliveredBounded` and
`OncePerConnection` from `OfflineInv`: `CountInv` counts the pushes under way,
which the length read earlier no longer sees, and `FrameInv` says that no two
carriers hold a frame, that the list holds none twice, and that a channel which
is still to be drained into shares none with the list. Accepted copies are
in the channels like other frames and take their room; the statement is about
the frames of `hub.Send`, and `Holds` and `Distinct` leave the copies out.

`AccountDataProofs` treats four modules that share nothing. `PrekeyBundles`:
`KeyServedOnce` from the row locks being exclusive (`LocksExclusive`) and a used
key being taken by exactly one fetch, answered or lost (`UsedIsTaken`).
`FileObjects`: `FilesErased` and `OthersFilesStay`, for any number of calls, from
the rows that stand while the account lives (`RowsStand`), from every object
since the first commit being excused or still to be removed by some job
(`ObjectsAccounted`), and the avatar being excused once any pass has removed it
(`AvatarAccounted`); `KeysInv` says that a job's keys are the wiped account's.
`WipeCredentials`: `KeyChangesProven` from what each request has proved at each
statement (`Proven`). `MessageHistory`: `HistoryHidesWiped` from the rows that
were there at the commit (`Old`), which every scan finds and every job that is
done has deleted (`ErasedClean`), and from the order of marker, rows and final
erasure (`PageHides`); `PagesLeaveNoGap` from `Covers`, which a lemma about
`Cardinality` shows of what the `limit + 1` query returns, for every limit, any
number of rows and any ties among their times.

`IngestErasureProofs` assumes `KeysAssumption`, `TimeAssumption`,
`NoneAssumption` and `ErasureAssumption` (a direct envelope has one receiver).
`TypeInv` adds to the types what each process knows at its step: `HandlerOK` and
`ConfirmerOK`, `ReceiptOK` (a tombstone is empty) and `WorkerOK` (what a worker
read before its compare-and-set). It gives `ErasureTypeOK` and the action
property `ErasedForGood` whatever expires. With `MaxClock < TTL`, `SafeInv` gives
`OthersKeepMessage` and `TombstoneOnlyWhenAllWiped`. Its idea is `Survivors`, the
recipients of an envelope nobody is wiping: they are on the list of the receipt
(`ReceiptSafe`), of the copy a request holds (`RequestSafe`), of the outbox row
(`OutboxSafe`) and of what a worker read (`WorkerSafe`), so the list a
compare-and-set writes never lacks one of them and is not empty while there is
one. `ConfirmSafe` says that an outbox row is deleted after a delivery only. Each action is shown to keep the store in the sense of `StoreKept`
(receipts only advance; rows and outbox rows that a survivor needs stay), and
one lemma per process says that `StoreKept` preserves what that process knows.
Without the hypothesis the first of the two is false: see the last observation.
`ClaimSurvivesWipes` needs no such hypothesis. Its invariant `ClaimInv` speaks of
keys whose sender is not being wiped: while the claim lives the receipt is the
one a request holds, it is not pending once the request has committed, and its
owner and lease are those of a request whose lease has not lapsed; every
unexpired row is of the receipt. `ClaimsKept` shows this of a receipt for all
actions that write one (a new claim finds none, a takeover a lapsed lease, a
worker deletes only its own account's and keeps owner and lease of the others),
and time and wipes only go forward (`OnlyForward`).

Only model-checked: `EventuallyDelivered`, `ErasureCompletes` and
`TurnsComeAgain` (TLAPS does not do liveness under fairness). Only proved: the
type invariants of the seven modules of `MCServices`, of `IngestErasure`,
`AccountWipe`, `SessionTokens` and `OutboxFetch`, which no run repeats.

## Plan

Modelled so far: `DurableIngest` with `StoreAndForward`, `OutboxFetch`, `RecipientDelivery` with `RecipientMailbox`,
`IngestErasure`, `AccountWipe`, `SessionTokens`, then `GroupEpochs`,
`GatewaySessions`, `OfflineQueue`, `MessageHistory`, `PrekeyBundles`,
`FileObjects` and `WipeCredentials`. Left:

1. Contacts in full: acceptance, blocking and the notifications.
2. For `SessionTokens`, what a bump of `session_epoch` guarantees about tokens
   signed while it waited for the row lock, and registration's session.
3. Web client: claim/commit/release of the transport inbox, recovery,
   attachment grants.

Every safety property of the passing runs, the two refinements included, is
proved. The properties of these three are the next to prove.

Not modelled: code without a caller (`SaveMessage`, `handleDirectMessage`,
`handleGroupMessage`, `authorizeGroupMessageEpoch`, `RedisMessageDeduper`,
`poll:stream` lists), cryptography, user interface, rate limiting and request
validation, connection handling, header rewriting and test programs: they keep
no protocol state, or only state whose effect is an atomic step of a module
above.
