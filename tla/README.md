# Frame Social API: TLA+ models, checks and proofs

This directory models the concurrent core of the Frame Social API, a Go server
(`src/`, 66 files, about 5,600 lines of implementation) that keeps messages,
events, limits and caches in RAM and everything durable in an external SurrealDB.
TLC checks small instances of the models; TLAPS proves the safety properties of all of
them for every size, and that the message store implements an abstract board.
`PROJECT.json` lists runs, mutants, hazards, and, for each definition, the lines of
code it stands for.

## 1. The system

One process serves HTTP; every request is a goroutine. Shared in RAM are the
`pendingStore` and the `persister` with its single writer goroutine, the
`messageEventBroker`, the `memberCache`, the rate limiters, `deletedAccounts` and the
push queue with its workers. Each has a mutex (or is a channel); what makes the
system hard is what happens *between* the critical sections and the database queries,
none of which holds a lock across the other except where noted.

| Component | State | Operations | What makes it correct |
|---|---|---|---|
| Message store (`persist.go`, `cache.go`, `message_deletion_store.go`) | RAM: channel, `pendingStore`, `total`, `lastCreatedAt`. DB: message, tombstone, `last_message` | `accept`, `loop`/`persistWithRetry`/`doPersist`, `Retract`, `DeleteEverywhere`, `mark` | nothing accepted is dropped, nothing deleted returns, records enter in order, counters are exact |
| Message handlers (`messages.go`, `message_deletion.go`) | admission locks; DB `message_hidden`; `pendingStore.hidden` | `sendMessage`, `listMessages`, three deletions | one message per clientId while its entry lasts, a page shows what it must and no more |
| Receipts (`messages.go`, `persist.go`) | DB: `message_receipt` | creation by the writer, `updateReceipt`, `readConversation`, `deliverConversation` | what was answered as read stays read, every recipient of a record has a receipt |
| Event broker (`events.go`) | per account: version, minimum, changes, waiters; `waiterCount` | `publish`, `wait`, trimming, time out | no wakeup and no change is lost, limits hold |
| Groups and member cache (`groups.go`, `group_members.go`, `group_store.go`, `cache.go`) | DB roles; RAM member list | join, leave, remove, ownership, role; `getMembersCached`, `publishConversation` | one owner, the list that decides follows the database |
| Group requests (`group_requests.go`, `group_store.go`) | DB: invitations, join requests | send, accept, reject, cancel | few pending per account, a request is good for one entry |
| Rate limiters (`rate_limit.go`, `http_rate_limit.go`) | RAM: windows, penalties, dedup entries | `Check`, `Forget`, cleanup, `allowWithInfo` | the limits hold whatever the order of the calls, a penalty is earned and served |
| Sign-in (`auth.go`, `account_deletion.go`) | DB: challenges, sessions, account status | request and verify a code, refresh, logout, delete | codes and tokens are used as often as meant, logout and deletion are final |
| Accounts, devices and push (`accounts.go`, `account_deletion.go`, `push_sender.go`, `push_devices.go`) | DB: `push_device`, account. RAM: `deletedAccounts`, push queue | `Upsert`, `Delete`, enqueue, send, cleanup of dead tokens, `updateMe`, `deleteAccount` | a registered device stays registered, a deleted account leaves no trace |
| Friends and blocks (`friends.go`, `blocking.go`, `conversations.go`) | DB: requests, friendships, blocks, direct conversation | request, answer, unfriend, block, unblock, open | a block separates, a friendship is consented to |
| Users, privacy, reactions, saved messages, routing, config, DB client | none in RAM | queries, parsing, I/O | not modelled, see section 6 |

How they interact: `sendMessage` holds the admission lock of its (account,
clientId), asks the limiter, checks blocks in the database, reserves RAM and
channel in `accept`, publishes the event, queues a push and answers; the writer
stores the message, and the receipts with it, later. Deletions take the persister's
mutex around their query (`withPersistenceLock`) so that they and the writer exclude
each other. `listMessages` queries the database and then merges the RAM copies.
`publishConversation` and `getMembersCached` fill the member cache that group
handlers discard; an accepted invitation is one of these handlers. A push worker
reads the devices of the recipients and, when FCM is through, deletes the tokens it
refused. A restart loses all RAM.

Hard behaviours: the writer moves a message from RAM to the database under a
reader's feet; a transaction commits and its answer is lost; a deletion races the
write it must prevent; a time out races a publication; a list is read before a
change and cached after it; checks and writes are separate queries nearly
everywhere in groups, requests, friends, devices and sign-in; a caller of a limiter
reads the clock before it has the mutex; a worker acts on tokens read long ago; a
restart drops the queues, the dedup entries, the hidden marks, the versions and the
memory of deleted accounts. The list, by line, is under `hazards` in `PROJECT.json`.

## 2. Modules

* **MessageBoard** is the abstract promise: a board on which messages are posted in
  order, fade (retracted, removed) and become durable in the order of posting.
* **MessagePersistence** is the store of one conversation, and implements the
  board. A message is the number of its acceptance. `Accept` is `persister.accept`
  (timestamp bump, both capacities reserved or neither), `Take` is `loop`,
  `PersistCommit`/`PersistDone`/`PersistLost` are `doPersist` split where its query
  commits and where the answer arrives or is lost, `MarkCommit`/`MarkDone`/`MarkLost`
  the same for a shared deletion, `Tick` the clock, `Crash` a restart. Histories:
  `erased` (deletions that were answered), `boot`, `crashes`.
* **MessageService** EXTENDS it with the handlers: `SendBegin` (the reading of the clock
  that `Check` makes before it has its mutex), `SendDuplicate`, `SendLimited`, `SendCheck`,
  `SendBlocked`, `SendAllowed`, `SendAdmit`, `SendRefused` are the stages of
  `sendMessage`; `DropExpired` is the limiter's cleanup; `FetchRead` and `FetchMerge` are the query and the merge of
  `listMessages`; `DeleteLookup`, `DeleteFind`, `Hide*`, `Erase*` the deletions.
  An entry of `dedup` is the time at which it expires. `stranded` records pairs whose
  block check failed after the limiter had recorded them, `asked` the reading by which a
  message was admitted; a listing's `upTo` and `arrived` are the messages accepted before
  its query and the records created since.
* **Receipts** EXTENDS MessagePersistence as well: the write of a record creates the
  receipts of the members of that moment (`PersistWithReceipts`), `SetStart` and
  `SetReceipt` are `updateReceipt`, `AckStart`, `AckFind` and `AckUpdate` the two
  handlers for a whole conversation, which share their code but for the condition.
  `attended` is who has been a member since the message was accepted, `acked` what
  a client was told is read, `lowered` what an `updateReceipt` took back by name.
* **EventBroker** is the broker. `PublishStart`/`PublishTo`/`PublishNoRoom` are
  `publish`, account by account; `WaitNoRoom`, `WaitResync`, `WaitView` and
  `WaitRegister` are the outcomes of an iteration of `wait`; `Timeout` and
  `Disconnect` the end of its context. `owed` is what a client has not been told of,
  `skipped` the clients whose cursor a time out or a restart has made unreliable.
* **RateLimits** is both limiters, of which a behaviour chooses one: the message
  limiter of one account (`Send`, `CheckUncounted`, `CheckRefuse`, `CheckAdmit`, `Keep`,
  `Forget`, the cleanup) and the fixed windows of HTTP. A caller reads the clock in
  one step and is decided in another. The slice of timestamps is a set of admitted
  calls, numbered where several have one reading: nothing in the code looks at their
  order. Histories: `log` of what was admitted in the last window, the keys whose entry
  was `swept`, the end of the last penalty, what was admitted since, when each clientId
  was.
* **GroupMembership** is one group: roles in the database, the cached list, and
  handlers that read (`...Start`, `LeaveCount`, `ReadTarget`), write (`Commit`,
  `CommitLost`), discard the list and publish. `raced` is set when a handler writes
  although the roles it decided by have changed. `outdated` is the handlers that hold a
  list read before the members changed, marked by the step that changes them; `stale` is
  set when such a handler caches its list, or a handler that changed the members ends
  without discarding a cached one.
* **GroupRequests** EXTENDS it, so that members come and go while requests are
  created (found or created in two queries) and answered (read, `addMember`, update,
  cache). `entered` marks an answer that has made a member and not yet discarded the
  list; `admitted`, `late` and `failures` count what each request let in.
* **AuthSessions** is one phone and the accounts it has one after the other: codes with
  their attempts, sessions, rotation of refresh tokens, logout, and deletion, which frees
  phone and username, so that a sign-up, also one whose code was used before, can make
  another account. `cut` is the tokens that an answered logout must
  have ended, `guesses`, `uncounted` and `opened` count what codes were used for,
  `stray` the accounts for which a session was created after their deletion.
* **PushDevices** is the accounts of one conversation with their devices:
  `UpsertFind`, `UpsertUpdate`, `UpsertMiss`, `UpsertCreate`, `UpsertRefind` are the
  queries of `pushStore.Upsert`, with the conflict on the unique index; `Rename` is
  `updateMe`, `CloseCommit` and `CloseStore` are `deleteAccount`, `LetIn` is
  `requireAuth`; `Trigger`, `PushTake`, `PushList`, `PushSend`, `PushClean` the queue and
  its workers. FCM is external: it accepts the last token of each device.
* **Friendship** is one pair, statement by statement: the answer to a request is
  two statements without a transaction, and so is the creation of a direct
  conversation. `overtaken`/`raced` record handlers that wrote after something else
  had been written since they started.
* **MC...** modules give TLC its accounts, handlers and symmetry;
  **MessagePersistenceProofs**, **MessageHandlersProofs** (of MessageService and
  Receipts), **EventBrokerProofs**, **PushDevicesProofs**, **GroupRequestsProofs** (of
  GroupMembership as well), **AuthSessionsProofs**, **FriendshipProofs** and
  **RateLimitsProofs** hold the proofs.

Three modules share the store and two share the group, by EXTENDS. The others are
separate because the components share nothing else: a publication is a call without
result. Composing events with the handlers is in the plan.

### Assumptions about the database

SurrealDB is outside `src/`. From how the code uses it (`database/surreal.go`,
retries, error handling) the models assume: text from `BEGIN` to `COMMIT` and
every single statement is atomic; a query can fail without effect, and can take
effect and lose its answer. Unique indexes are assumed in two places: on the username
(`accounts.go:92` handles its violation), so that the sign-ups of AuthSessions, which
all ask for one username, make no second account beside an active one, and on (account, device) of `push_device`, whose violation `Upsert` handles.
For a second block of the same direction the code expects an error and answers 204
(`blocking.go:25`); `Block` is not enabled then.

### Abstractions

A message has no body: its content is text, retracted or gone. Page limit, cursor
and order, reactions, replies and saved messages are left out. Timestamps are clock
readings with the bump of `accept`; the order they give is a question of
MessagePersistence. In MessageService any message that is no duplicate may be limited
(429), which changes nothing there: when it is, and the entries beside the other state
of the limiter, are in RateLimits. Codes
and tokens are numbers; codes are right or wrong by choice, which is sign-in in
development mode (with any other `OTP_MODE` no code is ever handed out). Access tokens
and `deletedAccounts` are not in AuthSessions but in PushDevices, where an access
token lives on after its account. A batch of notifications is one call. The block
check of an invitation is left out: it refuses one, and no property there is about
blocks. Events and pushes that handlers send are not modelled in the handler modules:
they read nothing back.

## 3. Runs

| Run | Question | Bounds |
|---|---|---|
| `persistence` | Does the store keep, order and forget messages as it must, implement the board, and settle every message? | 3 messages, channel of 1, store of 2, 2 clock readings, 1 restart |
| `service` | Is a clientId admitted once while its entry lasts, can a refused message be sent again, and is a page what it should be beside sends, deletions and the writer? | 2 messages, 2 sends, one account that lists and deletes, 2 clock readings with a TTL of 1, 1 restart |
| `service_ack` (violated) | Is "sent" said only of messages that were accepted? | 1 send, no restart |
| `receipts` | Does what was answered as read stay read, and has every record its receipts? | 2 messages of which 1 may be erased, 1 recipient, 2 requests, 1 restart |
| `events` | Are wakeups, changes and counts kept at the limits? | 2 accounts, 4 connections, 1 change kept, table of 1, versions up to 2, restarts |
| `limits` | Do the windows, the penalty and the dedup hold with overlapping callers and a cleanup? | 2 callers. Messages: limit 2, window 2, penalty 3, TTL 6, lag 1, clock to 11. Requests: 2 keys, limit 3, window 3, lag 3, table of 1, clock to 5 |
| `groups` | Is there one owner, and does the cache follow? | 3 accounts, 2 requests at a time |
| `groups_owner` (violated) | Does a group keep an owner? | as above |
| `group_requests` | How many requests are pending, how often does one let in, does the cache follow? | 2 accounts, 2 handlers, 2 requests created, 1 failed answer |
| `auth` | How far do overlapping requests exceed what one may; are logout and deletion final? | 2 requests, 2 codes, 2 accounts, 3 sessions, 3 tokens, limit 2, 1 failed count |
| `friends` | Does a block separate and a friendship need consent? | 2 requests, 3 friend requests, 2 edges |
| `push` | Does a registered device stay registered, and does a deleted account leave nothing? | 2 accounts on 1 telephone, 2 requests, 1 worker, queue of 1, 2 tokens, 2 records, restarts |

Why these bounds are enough for the cases of interest: a channel of one and a store of
two let each fill before the other; three messages give one before, one at and one
behind the head of the queue; two requests at a time show every race of two handlers; a
table of one account and one kept change make trimming, purging and both waiter limits
happen; a limit of two distinguishes the limit from its neighbours, in the windows as in
the attempts; a TTL of six and a clock to eleven let an entry expire, be swept and be
made again, after a penalty has been earned, served and earned once more; with a lag as
long as the window and a table of one, seven requests of three windows come within one,
one more than twice the limit; one device with two tokens has a dead one, and two
accounts on it take it from each other. Bounds that only cut off counters: `MaxClock`,
`MaxCrashes`, `MaxVersion`, `MaxToken`, `MaxTokens`, `MaxRecords`, `MaxAccounts`,
`MaxUncounted`, `MaxRequests`, `MaxFailures`, `MaxFriendships`, and the sets `Sessions`,
`FriendRequests`, `Erasable`. With a bound reached the other actions go on, so no
behaviour is wrong for it, only shorter. In `service` a second clock reading is enough
for an entry with a TTL of one to expire, be dropped or found expired, and be made again.
That run has one constraint, `MCFewRequests`: two requests run at a time, and after the
restart one, for what a restart has changed shows in one request; once the clock has moved
messages are only sent and listed, since deletions do not look at it; and a restart is
followed on when the first message was accepted before the clock had moved. `MaxLag` is
an assumption, see the proofs. Symmetry is used in runs of safety properties only.
Two runs tell states apart by a `VIEW` that leaves out only what their steps and properties
do not need: in MCGroupRequests the history `raced`, which only GroupMembership's own
properties are about, in MCAuthSessions whether it was consumption or expiry that shut a
code, and revocation or expiry that ended a session (what reads them asks only for either).

Histories such as `raced`, `outdated`, `stale`, `arrived`, `skipped`, `stranded`,
`lowered`, `late` and `stray` occur in properties of the form "unless the code's known gap was taken". They are set
by what happened, not by the property's failure, so each such property says that the
gap is the *only* one. Where a document promises more, and the run of the gap
is a question of its own, that run shows the violation.

### What the violated runs show

1. `service_ack`: the dedup entry is made before the block check; when that check
   refuses or fails, the entry stays, and the client's retry is answered 200
   "sent" although no message exists (README of the program, lines 87 and 88).
2. `groups_owner`: ownership transferred to a member who is leaving ends with no
   owner (README:194).

### Gaps that are exceptions in a property

* `OneMessagePerClientId` holds for the TTL and for one run of the process: the limiter
  forgets a clientId 24 hours after the reading of the call that recorded it, and all of
  them in a restart.
* `PageMissesOnlyMoved` excepts a message whose record was created between the query and
  the merge of a listing and whose RAM copy was removed before the merge: it is on neither
  side, and the page lacks an accepted message (`messages.go:99-101`). A message accepted
  before the query and not moved in this way is on the page, or another with its clientId.
* `CursorComplete` excepts `skipped`: a wait that times out while a change is published
  answers the new version and no conversation, so that the cursor passes the change
  (`events.go:121`, README:238); a restart begins again at version 0.
* `CacheFollows` and `CacheFollowsEntries` except `stale`: a list read before a departure
  (by a handler in `outdated`) is cached after it, and the former member goes on sending (`groups_test.go:971` tests
  the order without the overlap); or a departure commits, its answer is lost and the list
  is not discarded.
* `AckedStaysRead` excepts `lowered`: `updateReceipt` sets the status whatever it was.
* `RegistrationSticks` does not count `UpsertMiss`: the old record goes between the SELECT
  and the UPDATE of `Upsert`, and the 200 registers nothing.
* `DeletedLeavesNoTrace` excepts `late`: requests let in before the deletion was answered,
  or by a process that has forgotten it (`deletedAccounts` is in RAM), or after a deletion
  whose answer was lost on the way back from the database.
* `WindowHolds` allows a key three times its limit once its entry was `swept`: the call of
  another key drops the expired entry, and a late call with a reading before its end opens
  a window that overlaps the dropped one and is over before the next (`http_rate_limit.go`
  lines 33 to 45). Without a sweep it is twice the limit, as fixed windows have it.
* `FewPending`, `AdmissionsBounded`, `GuessesBounded`, `CodeOpensFew` and
  `FewConversations` are bounds by the number of requests that can overlap, since check and
  write are separate queries: one request alone keeps the limit that is meant.
* `CodeOpensFew` allows a sign-up's code one session per account made with it. Its
  transaction looks at no `consumed_at` (`auth.go:166-173`), so when the first account is
  deleted, a second verification that is still under way makes another.

### Fairness

Only `Spec` of MessagePersistence states fairness, for `EveryAcceptedSettles`. The
writer goroutine runs (weak fairness of `Take`). `PersistCommit` and `PersistDone`
get strong fairness: the mutex does not starve a waiter, and a write that
`persistWithRetry` repeats for ever is eventually accepted and answered if the
database is up again and again. `MarkDone \/ MarkLost` is weakly fair because the
query of a deletion runs under a deadline. Clients, clock and crashes are not fair.

## 4. Proofs

The assumptions are the named ASSUMEs of each module: numbers are natural, capacities
that the code needs are at least one, sets whose cardinality matters are finite.

`MessagePersistenceProofs` proves, for every number of messages, both capacities,
and every bound on clock and restarts:

* `Invariance`: `SafetySpec => []IndInv`, the inductive invariant;
* `TypeCorrect`, `DeletionIsFinal`, `NothingDropped`, `CounterExact`,
  `LastMessageCorrect`, `CreationOrder`: the safety invariants of the run;
* `Refinement`: `SafetySpec => ImplementsBoard`.

Why `IndInv` is needed: none of the properties is inductive alone.
`NoResurrection` needs `TombstonesRule` (a record shows what its tombstone allows, and
a running deletion has left one), or else a write could begin from a state with a
deletion and no tombstone. `AcceptedIsKept` and
`LastMessageIsNewest` need `QueueShape`: the channel is exactly the last accepted
messages in order, behind the one being written, with no record yet; so the job
taken is the oldest and the write of a newer one cannot precede it. `OnlyAccepted`
keeps unsent messages without traces, `Chronological` ties timestamps to
`lastCreatedAt` and to the clock across restarts, and `TotalIsExact` is what keeps
`total` in Nat. One lemma per action shows that it preserves every conjunct; the
cardinality facts are the lemmas `CountAdd`, `CountRemove`, `CountKeep` and
`CountPositive`; a step of the store maps to one step of the board or to none
(`BoardStep`). TLC checks `IndInv` in `persistence` as well.

`MessageHandlersProofs` proves of MessageService, for any members, senders and requests:

* `ServiceUsesStore`: `ServiceSpec => SafetySpec`. A step of a handler is a step of the
  store or leaves it alone; `EraseCommit` is one because a deletion under way names a
  message (`DeletionNamesMessage`). So what is proved of the store holds of the service:
  `ServiceDeletionIsFinal` and `ServiceImplementsBoard` state two of them.
* `AcceptedOnce` and `RetryAfterRefusal`, from the invariant `Admission`, which says of each
  pair (`PairInv`): until TTL after the reading by which a message of the pair was admitted,
  its entry is there with that expiry or a later one; a handler gets past the check only
  when every earlier message of its pair is past that time, so a refusal removes no entry
  that is still due; and an entry has been left by a handler past the check, by the accepted
  message whose reading made it, or by a failed block check. The cleanup drops what has
  expired by the clock, which no reading is ahead of. A restart empties `dedup` and moves
  `boot` in the same step, so nothing counts as accepted any more.
* `PagesHideErased`, from `HideInv` and `PageInv`: a deletion for me that was answered is in
  the database, and in RAM as long as the message is, or the message is in RAM no more;
  so what the query left out as deleted (`gone`, `bare`) cannot come back as a RAM copy in
  the merge, whatever the writer does in between, a restart included. For the shared
  deletions that is `NoResurrection` of the store.
* `PagesMissOnlyMoved`, from `FoundInv` and the store: a record that is there now has been
  read by the query of a listing under way, or was created since (`arrived`); records that
  an account may see were selectable then, because no deletion is undone. A message
  without a record that this process accepted is in RAM (`AcceptedIsKept`). The merge
  leaves out a RAM copy only for one of the same clientId on the page or among the copies
  before it; the least of those is left out by none before it (lemma `Least`: a set of
  naturals that is not empty has a least element), so it, or one of its clientId, is on
  the page.

Of Receipts it proves, for any recipients, requests and erasable messages:

* `ReceiptsUseStore`: `ReceiptsSpec => SafetySpec`, as for the service;
* `EveryRecordHasReceipts` and `ReadStaysRead`, from `ReceiptInv`. Who attends to a message
  is a member when its record is created, hence gets a receipt in that transaction and
  in no repetition of it; that a message without a record has none needs the types of the
  store, which `IndInv` provides. What a request will be answered for has its receipt while
  the request runs (`Running`), so that its UPDATE, or finding nothing to raise, leaves
  all of it read.

`EventBrokerProofs` proves, for any accounts, conversations, clients and limits:
`BrokerTypes`, `LimitsAreKept`, `NoWakeupIsLost` and `CursorsSuffice`, from `BrokerInv`.

* `Shape` is the heart: the changes of an account have versions of their own, above
  `minimum`, and `minimum` is 0 or leaves room for as many changes as are kept. Distinct
  versions above the new minimum are no more than `MaxEventChanges`, so the purge, which
  drops what is not above it, brings the table back within its limit.
* `Fine`: a client outside `skipped` has a cursor that is not ahead of the version, and
  what it is owed is above the cursor or the minimum has passed it, in which case it is told
  to resync.
* A state is trimmed only without waiters, so a registered client has one; the publication
  wakes all of them, so who stays registered has heard of the last version.
* `PublishingFits`: a publication in progress has room at the accounts still to come.

`PushDevicesProofs` proves, for any accounts, devices, handlers, workers and sizes:
`PushTypes`, `RegistrationsStick` and `DeletionLeavesNoTrace`, from `PushInv`.

* `TokensAreOld`: every token in the program came from FCM, which gives out new ones, so
  what a worker has found to be dead is dead for ever, however late it is cleaned up.
* `OneAtADevice`: a request that is alone has its device for itself until it is answered,
  and nothing is under way about a registered device; what else writes a record is
  the cleanup, which spares living tokens, and the deletion of the account, which
  ends the registration.
* `LetInEarly`: a handler that writes for an account was let in before its deletion was
  answered, because `deletedAccounts` has every answered one; so after the deletion it
  makes the account `late`.

`GroupRequestsProofs` proves of GroupMembership `OwnerIsKept`, with the types, and
`CacheIsFollowed`, and of GroupRequests `RequestsAreFound`, `RequestsAdmitOnce` and
`EntriesAreFollowed`, for any accounts, handlers and requests.

* `OwnerInv`: what a handler that is about to write has read allowed it, and as long as no
  handler has written by outdated roles (`raced`) there is one owner; so an owner that
  leaves, which takes a second owner, does so only after a race.
* `Fresh`: a list that a handler has read and not yet cached is the database's, or the
  handler is in `outdated`. With it `ListInv`: the cached list is empty, the database's,
  one of the two known gaps, or a handler that will discard it is on its way; for entries by
  request, one that made a member and is about to update its request (`EntryListInv`).
* `FewPending` is inductive: it counts the handlers about to create with the pending
  requests, and whoever begins to create has found none pending.
* `UsedOnce` accounts for everyone a request let in: while it is pending, by handlers about
  to update it and failed updates; afterwards, by handlers that had read it before, which
  the one that ended it is not among.

`AuthSessionsProofs` proves `AuthTypes`, `GuessesAreBounded`, `CodesOpenFew`,
`LogoutsAreFinal` and `DeletionsEndSessions`, from `AuthInv`, for any handlers, codes,
sessions and limits.

* `GuessInv` is an equation: the wrong codes compared are the attempts counted, the
  handlers that have compared and not yet counted, and those whose count failed. A
  handler compares only below the limit, so the excess is at most the other handlers.
* `OpenersInv`: sessions opened with a code, and the handlers that can still open one, are
  together no more than all handlers, because none joins them once the challenge is
  consumed. `SignupInv`: of a sign-up's code, those opened and the handlers about to open
  one are no more than the accounts made, since each of these handlers has made one.
* `TokenInv`: tokens are numbered as they are made, no two sessions have the same, and a
  client has none newer than that of its session (`Given`). So a token cut by a logout is
  that of a revoked session or of none, and no rotation brings it back.

`FriendshipProofs` proves `FriendshipTypes`, `BlockedAreApart`, `BondsByConsent` and
`ConversationsAreFew`, from `FriendshipInv`, for any handlers and bounds.

* `Fresh` is what a handler has found, as long as nothing has overtaken it: it still holds
  when it writes, so a friendship takes an accepted request and finds nothing between the
  two. `BondInv` adds that at most one bond is there, and none beside a block.
* The direct conversations and the handlers about to open one are together no more than all
  handlers: whoever begins to open has found none.

`RateLimitsProofs` proves `WindowsHold`, `PenaltiesAreServed`, `PenaltiesAreEarned` and
`DedupsHold` from `RateInv`, for any limits, windows, penalty, TTL, keys, clientIds and calls
at a time. `LimitsAssumption` relates the constants as the code's do, and says that a call
waits for the mutex no longer than about half a window (30 s or more, where a critical
section is a few map accesses, or the sweep of the table).

* `MessageLog`: what was admitted in the last window is among the timestamps, since a call
  drops only what is older than a window before its own reading, which is not after the
  clock; and the cleanup forgets an account only when its last call, give or take the lag,
  is a TTL ago.
* `PenaltyKnown`: the account knows its last penalty, or it is over for every call that still
  waits. Penalties last a window and the lag, so none of the messages that earned one is
  in the window of a call after it (`EarnedSince`).
* `Windows`: the requests in `log` are of the last three fixed windows of their key, which
  follow each other, or overlap by less than the lag after a sweep; without a sweep, of the
  last two. Opening a window moves each of them up, and the call that opens it comes late
  enough for the oldest to be out of `log`.
* `AdmissionIsNew`: the history and the timestamps tell admitted calls apart (by the
  pigeonhole theorem), so that their cardinalities do count calls.

Only model-checked: `EveryAcceptedSettles`, which is liveness under fairness and beyond the
prover. The two violated runs refute a property, and are TLC's as well.

## 5. Plan

Done: the inventory; all modules of section 2; a theorem for every safety property and
action property that a passing run checks.

Next, in this order:

1. A composition of EventBroker with the handlers: an acknowledged change is
   named, or resynced, to every member. Its proof can rest on `CursorsSuffice`.
2. **Pages**: cursor, limit and order of a page, with the text order of timestamps.
3. The conflict of two accounts over one username, in `updateMe` and sign-up.
4. An abstract specification of the group (who may speak, who owns) that GroupMembership
   and GroupRequests implement outside the known gaps.

A run is given up for a new one where a theorem or another run covers it.

## 6. Not modelled

* `surrealRateLimiter` (`rate_limit.go`), which `New` does not wire.
* Users, privacy and search: single queries over the database, with no state of their own.
* Reactions and saved messages: each one transaction of one account on one message, with
  nothing in RAM and nothing another step relies on.
* The settings and search of groups, lists of friends, mute: single queries that change
  no membership.
* Routing, parsing, configuration, the database client: wiring and I/O. How the process
  stops is `Crash` and `Restart` in the modules; how a query fails is in each of them.

Three hazards have no property; the notes in `PROJECT.json` say why: the text order of
timestamps (`messages.go:123`), a deletion that finds its target in neither place
(`message_deletion.go:72`), and a publication whose members cannot be read
(`events.go:219`).
