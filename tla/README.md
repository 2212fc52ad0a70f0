# A TLA+ verification of gomsg

gomsg (`src/backend`) is a messenger backend in Go: REST handlers over
PostgreSQL, a transactional outbox that is relayed to Kafka, a Kafka consumer per
process that feeds the process's WebSocket hub, and Redis for tickets, presence and
typing events. These modules model the parts of it that keep state and can go wrong
under concurrency and failure; TLC checks them on small instances, and TLAPS proves the
safety properties of all the components, and the refinements, for instances of any size.

Run a check with `tlc -config MCX_y.cfg MCX` and the proofs about a component with
`tlapm XProofs.tla` (those about `RefreshSessions` are in `AccountsProofs`). `PROJECT.json` lists the runs, the source lines of every definition, the hazards, and for every checked property a variant of the code
that breaks it.

Paths below are relative to `src/backend/internal/` unless they start at `README.md`
or `docs/`, which are the repository's.

## 1. The system

| Component | State | Operations | Talks to |
|---|---|---|---|
| Message writes (`service/message_service.go`, `repository/postgres/message_writer.go`) | tables `messages`, `chats.last_message_*`, `chat_members.last_read_*`, `outbox_events` | Create, Patch, Delete, MarkRead: checks in statements of their own, then one transaction that changes a row and inserts the event | PostgreSQL; the relay sees committed rows only |
| Outbox relay (`worker/outbox_relay.go`, `outbox_repository.go`, `kafka/producer.go`) | `published_at`; the batch of the current tick | every 200 ms: fetch up to 100 pending rows by id, publish each one, mark it | Kafka, or the local hub when Kafka is off |
| Kafka fan-out consumer (`worker/kafka_ws_consumer.go`, `app/kafka_fanout_group.go`) | offsets of a consumer group named afresh by every process | read, decode, deliver to the hub | Kafka, hub |
| Hub and connections (`transport/ws`) | registered clients, their channels of 256 frames, the gauge of open connections | handshake, Register, Unregister, SendToUser, CloseAll, read and write pump | tickets, presence, message service |
| WebSocket tickets (`ws_ticket_store.go`) | Redis keys with a lifetime | Issue (SETNX), Consume (GETDEL) | handshake |
| Presence (`presence_service.go`, `presence_repository.go`) | Redis key per user, 45 s | set at connect and with every frame, removed at disconnect | hub |
| Typing and Redis pub/sub (`typing_repository.go`, `pubsub_repository.go`) | Redis keys nothing reads; channels | publish, subscribe | hub |
| Refresh sessions (`auth_service.go`, `session_repository.go`) | `refresh_sessions` | Login, Register, Refresh (rotation), Logout, LogoutAll | PostgreSQL |
| Chats and members (`chat_service.go`, `chat_repository.go`) | `chats`, `chat_members` | CreateDirect, CreateGroup, AddMembers, RemoveMember | PostgreSQL |
| Accounts (`auth_service.go`, `user_service.go`, `user_repository.go`, `pkg/auth`) | `users` | Register, Login, UpdateMe: lookups, then a write, in statements of their own | PostgreSQL, sessions |
| Message queries (`message_service.go`, `chat_service.go`, `message_repository.go`, `chat_repository.go`) | none; the client keeps a cursor or an offset | ListByChat (keyset paging), ListMine (limit and offset) | PostgreSQL |
| Start-up, shutdown, migrations (`cmd/app/main.go`, `app`, `migration/runner.go`) | `schema_migrations` and the tables; per process its workers and how far it has got | Up, New, Run | PostgreSQL, all workers |
| Middleware, rate limiter, configuration | process-wide | see `PROJECT.json` | all |

What is hard here:

- replicas relay the same table without locks; ids become visible out of order because
  transactions commit out of order; publish, mark and process fail independently;
- a message handler checks first and writes later, so handlers of different users and
  replicas interleave between the check and the row lock;
- rotation, logout and logout-all of one login race under READ COMMITTED;
- both users open their direct chat at once, in two statements that are no transaction;
- a connection is touched by its request goroutine, its writer, every sender and the
  shutdown, and can close at any moment of its handshake;
- clients load lists page by page while messages commit out of the order of their
  timestamps and chats change places;
- nicknames are looked up and then written with no index behind the lookup;
- replicas that start together migrate one database, and any of them may die in it.

## 2. Modules

| Module | Models | Kind |
|---|---|---|
| `OutboxContract` | what an outbox promises to writers and readers | abstract specification |
| `OutboxRelay` | the relays of all replicas over one table | component; refines `OutboxContract` |
| `KafkaWSConsumer` | the consumers of all replicas, composed with the relays | composition, EXTENDS `OutboxRelay` |
| `MessageWriter` | message handlers and their transactions | component; refines the inserting half of `OutboxContract`, and `MessageTable` |
| `MessageTable` | what readers notice of the writers | abstract specification |
| `MessageQueries` | clients that page through messages and chats | component over `MessageTable` |
| `RefreshSessions` | refresh sessions under READ COMMITTED | component |
| `Accounts` | registration, login, profile updates, composed with the sessions | composition, EXTENDS `RefreshSessions` |
| `Chats` | direct chats, groups, memberships | component |
| `WSConnections` | tickets, handshake, hub, pumps, presence, delivery | component |
| `AppLifecycle` | start, migrations, workers and shutdown of the replicas' processes | component |
| `OutboxRelayProofs`, `KafkaWSConsumerProofs`, `MessageWriterProofs`, `MessageQueriesProofs`, `AccountsProofs` (with `RefreshSessions`), `ChatsProofs`, `WSConnectionsProofs`, `AppLifecycleProofs` | theorems about the module of that name | proofs |
| `MC...` | instances for TLC | |

`OutboxContract` is what ties writer and relay together: `MessageWriter` implements its
Insert, Commit and Abort with `emitted` and `published` held empty, `OutboxRelay`
implements all of it and leaves the writers as free as the contract does. What is
proved of the relay therefore holds over the rows that the handlers really write.
`MessageTable` does the same between writers and readers: `MessageWriter` implements it
(`ImplementsTable`), and `MessageQueries` reads what it allows, so that the readers'
run need not carry the handlers along.

### State and actions

**OutboxRelay.** `seq`, `tx`, `chat` and `published` are the columns of
`outbox_events` and the state of the transaction that inserts each row; `todo[r]` and
`pc[r]` are the batch and the place of replica `r` in `tick`. `Tick` is the fetch;
`PublishKafka` / `PublishLocal` / `PublishFails` the hand-over; `MarkPublished` /
`MarkPublishedFails` the update and, through `NextRow`, the end of the iteration.
`emitted` records hand-overs in order, and with Kafka is the content of the topic.
`prior[i]` is history: the smaller ids already committed when `i` committed, i.e. what
a reader must be able to rely on having been told before `i`. Rows whose
transactions overlap are not ordered by it. `Crash` is a stop at any point,
including the cancelled context of a shutdown.

**KafkaWSConsumer.** `offset[r][p]` is the position of the reader of replica `r` in
partition `p`. A partition (`Topic`) is the set of places in `emitted` whose key hashes to
it, and the offset of a reader the place of the last message it has passed.
`Fanout` is `FanoutKafkaDomainEvent`; `FanoutFails` its failing member lookup, whose
error the code drops; `ReadFails` a `ReadMessage` that fetched but could not commit.
A restart begins at the first offset under a new group.

**MessageWriter.** A request goes through `pc` values: check of the reply or of
membership, `begin`, `update` (waits for the row lock, tests the WHERE clause again),
`outbox`, `commit`; `Rollback` may end it after `begin`. The write becomes visible in
`Commit`. Messages are named by the number of the transaction that inserts them, which
is also the order of `created_at`, since `now()` is the start of the transaction.

**RefreshSessions.** A request looks a session up and then, in a transaction, locks
its row and replaces it (`RotateSelect`, `RotateCommit`), or revokes it in one UPDATE.
LogoutAll visits the rows of its snapshot one by one, waiting for locks
(`RevokeAllStart`, `RevokeAllRow`, `RevokeAllCommit`), in any order, as the plan of the
UPDATE has it. `Rollback` ends either transaction before its commit. `login`, `parent`, `terminated` and
`escaped` are history; a session escapes when it takes the place of one that a LogoutAll
still has to visit.

**MessageTable, MessageQueries.** `table[m]` is a message, invisible while "open";
`last[c]` is `last_message_id`, whose `created_at` is `last_message_at`. A reader holds
the pages it has got (`got`) and where the next one starts (`before` or `offset`).
`ListMember` and `ListByChat` are the two statements of a page of messages, `ListMine` the
one of a page of chats. `GetChatMessages` and `ListUserChatsSummary` are the queries as
operators. A page is the set of its rows: ORDER BY fixes how they are arranged, and LIMIT
and OFFSET choose a row by the number of rows before it (`Position`). `base`, `list` and
`moved` are history: the messages, or the chats with their last messages, when the reader
began, and whether the user left a chat or a chat fell back in the list since.

**Accounts.** `form[q]` is a request that looks up or writes `users`; `Register`,
`RegisterNickname`, `CreateUser`, `IssueTokensFor` are the statements of a registration,
`LoginWith` the lookup of a login, `UpdateMe` and `UpdateProfile` the two statements of a
rename. The session is inserted by `IssueTokens` of `RefreshSessions`. `since` and
`raced` are history: who wrote a nickname between a request's lookup and its write.

**AppLifecycle.** `pc[r]` follows `main`: the loop of `Up` (`Check`, `Exec`, `Stamp`,
`Commit`), `New`, and from the signal on `Run` (`BgCancel`, `WaitEnds` or
`WaitTimesOut`, `CloseProducer`, `CloseAll`, then `ServerStops` or `ShutdownTimesOut`). When
Shutdown returns in time, `main` returns and its deferred calls run; `pool.Close` waits for
`busy[r]`, the workers given up on and the hijacked WebSocket handlers that have a
connection of the pool (`Release`, `PoolClosed`). When it does not, `os.Exit` skips them.
`ExecFails` is the replica
that lost the race for a migration: the body finds the table, the process exits and is
started again. `Fault` ends a process anywhere; the database rolls its transaction back.

**Chats.** Every statement of a request is a step, since the handlers use no transaction
across statements (except CreateGroup). User ids in requests have a spelling, because
`direct_key` hashes the text and the validation accepts either case.

**WSConnections.** `conn[k].pc` follows `ServeHTTP` and then the read pump;
`conn[k].writer` is the write pump. `Consume`, `Upgrade`, `Connected`, `Register` are
the handshake in the code's order; `Disconnected`, `Unregister` the deferred calls of the
read pump. The socket is "gone" when the peer is, and "closed" after `conn.Close`. The
write pump takes a frame out of the channel (`TakeFrame`) before it writes it
(`WriteMessage`) or fails to and ends (`WritePumpEnds`); `frame[k]` is the frame in its
hand. A frame of the client that is no valid JSON is answered but refreshes no presence
(`HandleEvent`). A sender fetches the members, copies the clients of each user under the
lock and offers the event to each after the unlock. `Stream(k)` is what client `k` was
sent, the frame in the writer's hand and what still waits in the channel; an answer to a frame (`Reply`) comes from no
sender.

## 3. Runs

| Run | Instance | Shows |
|---|---|---|
| `relay_safety` | 2 replicas, 3 rows of a chat, batches of 2, one failure of each kind | `TypeOK`, `AckedWasEmitted`, `NoOvertaking`, and the refinement `ImplementsContract` |
| `relay_local` | 1 replica without Kafka, 3 rows, one failure of each kind | `SingleRelayOrder`; `EventuallyPublished` under fairness |
| `fanout` | 2 replicas with relays and consumers, 2 rows, 2 partitions, one crash, one failed read, one failed fan-out | `HubOrder`, `CaughtUpHubHasAll`; `ReachesEveryHub` under fairness |
| `fanout_lost` (violated) | 1 replica, one failed fan-out | `NothingLost` fails |
| `messages` | 2 requests, 4 transactions, 2 texts | the outbox tells the tables' story: `OutboxTellsMessages`, `LastMessageFollowsOutbox`, `CursorFollowsReceipts`, `DeletedIsFinal`, `ImplementsContract`, `ImplementsTable` |
| `queries` | a reader, a user, 2 chats, 3 transactions, pages of 1 or 2 | `ScrollIsComplete`, `ListIsComplete` |
| `sessions` (module `MCAccounts`) | 2 requests, 2 accounts, 2 emails, 2 nicknames, one of them in two spellings, 3 sessions (2 with two accounts) | `OneActivePerLogin`, `LogoutEndsLogin`, `LogoutAllMissesOnlyRotations`, `OneAccountPerEmail`, `NicknameSharedOnlyByRace` |
| `sessions_logout_all` (violated) | 2 requests, 2 sessions | `LogoutAllTerminates` fails |
| `chats` | 2 requests, 2 users, 2 spellings, 2 chats, one request cut short | `OneDirectPerPair`, `DirectHasBothMembers`, `RetryFinds`, `OwnerLeavesByHimself`, `OwnerlessIsFrozen` |
| `chats_usable` (violated) | 1 request, one cut short | `DirectIsUsable` fails |
| `connections` | 2 connections of a user, 2 tickets, channels of 1, 2 events | `TicketOpensOnce`, `GaugeCountsClients`, `OnlyFullChannelsDrop`, `OnlineIsConnected`; `ClosedIsForgotten` under fairness |
| `lifecycle` | 2 replicas, the 5 migrations of the repository, 2 faults | `MigratedBeforeServing`, `ProducerOutlivesRelay`; `EventuallyServes` and `ShutdownEnds` under fairness |

Why these bounds are enough to be interesting:

- Two replicas and three rows with batches of two give every overlap of batches: equal,
  shifted, and disjoint, with a late commit below and above the batch. One
  failure of each kind can hit any row on any replica, and all of them can meet.
  The proofs remove these bounds, here and in the other components, for all safety
  properties.
- With two rows in one chat and a second partition, losing the key separates the
  two events; a crash at any point gives every replay.
- Three transactions allow a creation and two that race for its row, and three creations
  in a chat. Receipts of two messages need four: two creations and two read marks, which
  then race for the member's row in either order. The constraint `FourToReadTwo` keeps the
  fourth transaction to that case (one text, no reply, edit or deletion in progress).
- Two requests on one login allow a rotation and its rival, a logout, or a logout-all
  that waits for one row while another is added; a third session is needed for
  two rotations of one. Two accounts and two nicknames are the least for a race for a
  name, and for an account that gives a name up while it also asks for it. The
  constraint `TwoSessionsForTwoAccounts` keeps the two questions from multiplying.
- Three transactions and pages of one let a message commit late above, below and at the
  cursor, and be deleted there; with two chats, one falls back behind the other between
  the pages.
- Two replicas race for every migration; two faults hit a replica again after its
  restart, or both of them. The migrations are the real ones: five, the last with IF NOT
  EXISTS.
- Two requests and two chats let every statement of one request fall between any two of
  the other, and let a pair open its chat in each spelling.
- Two connections of one user are the least for which the hub's set per user, the
  presence key and the gauge are shared; a channel of one is full after one event. The
  order of a stream needs two events, with the first in the writer's hand and the second
  in the channel. The constraint `TwoEventsAfterHandshakes` admits the second event when
  both connections are through the handshake and presence and CloseAll are at rest.

All runs but `lifecycle` say `CHECK_DEADLOCK FALSE`: with bounded inputs the system comes to rest
when everything is handled, which is no error.

### Fairness

- A running relay keeps taking steps (`WF(RelayStep)`): `Run`'s ticker fires for as
  long as the process lives, and each call in `tick` returns, `Publish` by its own
  5 s timeout. Failures are bounded by constants, which says that a call that is tried
  again and again succeeds at some point.
- A running consumer keeps reading (`WF(ConsumerStep)`): its loop goes on after
  every error. The fairness is on the step as a whole, so it may fail as often as the
  bounds allow.
- A stopped replica is started again: by its operator, as the code relies on. Writers
  are not fair, transactions may stay open for ever.
- The goroutine of a WebSocket request runs on through the steps that wait for nobody
  (`WF(HandlerStep)`). Peers, writers and senders are not fair.
- A process goes on through its start and its shutdown (`WF(StartStep)`,
  `WF(StopStep)`): the waits of `Run` have timers (12 s for the workers, 15 s for the
  server), `docker-compose.yml` restarts what exits (`restart: unless-stopped`), and the
  configuration is valid. Workers and calls of the database may hang, so `PoolClosed` may
  never come; signals need not come, and faults are bounded.

## 4. Proofs

All theorems hold for every value of the constants: any number of replicas, requests,
users, chats, connections, rows and failures. Assumed of the constants is what the ASSUME
of each module says: bounds are natural numbers, and a value that stands for "none" is not
one of the things it stands against. Every theorem rests on an inductive
invariant, because the property itself does not say what the requests in progress
have read, locked or written. These invariants are defined at the end of the component's
module and were checked with TLC before they were proved.

| Module | Theorems | Inductive invariant |
|---|---|---|
| `OutboxRelayProofs` | `TypeCorrect`, `AckedWasEmittedAlways`, `NoOvertakingAlways`, `SingleRelayOrderAlways`; `RelaysImplementContract` | `TypeOK`, `VisibleInv`, `AckInv`, `OrderInv`; `SingleInv` |
| `KafkaWSConsumerProofs` | `ConsumerTypeCorrect`, `HubOrderAlways`, `CaughtUpHubHasAllAlways` | that of the relay, and `ReaderInv` |
| `MessageWriterProofs` | `WriterTypeCorrect`, `OutboxTellsMessagesAlways`, `LastMessageFollowsOutboxAlways`, `CursorFollowsReceiptsAlways`, `DeletedIsFinalAlways`; `WritersImplementContract`, `WritersImplementTable` | `TypeOK`, `CountInv`, `TableInv`, `RequestInv`, and the three invariants themselves |
| `MessageQueriesProofs` | `QueryTypeCorrect`, `ScrollIsCompleteAlways`, `ListIsCompleteAlways` | `QueryTypeOK`, `LastInv`, `ScrollInv`, `ListInv` |
| `AccountsProofs`, sessions | `SessionTypeCorrect`, `OneActivePerLoginAlways`, `LogoutEndsLoginAlways`; `LogoutAllMissesOnlyRotationsAlways` | `TypeOK`, `LineageInv`; `OwnersInv`, `LogoutAllInv` |
| `AccountsProofs`, accounts | `AccountsImplementSessions`, `AccountSessions`, `OneAccountPerEmailAlways`, `NicknameSharedOnlyByRaceAlways` | `RowsInv`, `LookupInv` |
| `ChatsProofs` | `ChatTypeCorrect`, `OneDirectPerPairAlways`, `DirectHasBothMembersAlways`, `RetryFindsAlways`, `OwnerLeavesByHimselfAlways`, `OwnerlessIsFrozenAlways` | `TypeOK`, `TableInv`, `RequestInv` |
| `WSConnectionsProofs` | `ConnTypeCorrect`, `TicketOpensOnceAlways`, `GaugeCountsClientsAlways`, `OnlyFullChannelsDropAlways`, `OnlineIsConnectedAlways` | `TypeOK`, `HubInv`, `TicketInv`, `StreamInv` |
| `AppLifecycleProofs` | `LifecycleTypeCorrect`, `MigratedBeforeServingAlways`, `ProducerOutlivesRelayAlways` | `TypeOK`, `LifecycleInv` |

### Relay

`AckedWasEmittedAlways`, `NoOvertakingAlways` and `RelaysImplementContract` assume
`UseKafka => HasBrokers`. The code does not enforce it: with `KAFKA_ENABLED` and a broker
list of separators only, `NewProducer` returns a nil pointer, `relay.Kafka` becomes a
non-nil interface around it, `Publish` reports success and the rows are marked
(`app/app.go:111`).

- `VisibleInv`: batches, hand-overs and histories contain committed rows only, and
  `prior[i]` only smaller ids. A committed row never changes, so a fetched batch stays
  meaningful while writers go on.
- `AckInv`: a relay that is about to mark has handed over the least row of its batch.
  `AckedWasEmitted` alone is not inductive: it does not say what a relay between publish
  and mark has done.
- `OrderInv`: until a publish fails, whatever precedes a row of a batch is in the same
  batch or was already handed over. `NoOvertaking` needs it, because the next hand-over
  is decided by a batch fetched long ago. At the fetch it holds because the LIMIT cuts
  from above (`FetchIsPrefix`), a missing predecessor was therefore already published,
  and by `AckInv` handed over. It survives the removal of a row from the batch because
  that row was handed over first, and the loop reaches the predecessors first because
  it goes through the batch in id order (`CurrentIsLeast`).

The refinement needs the same invariant. The mapping is `emitted <- Emitted` (the set of
what was handed over, which forgets copies) and `ordered <- pubErrs = 0`; `ContractStep`
has one case per action: a publish is an Emit, enabled by `OrderInv`, a mark is a
MarkPublished, enabled by `AckInv`, a failed publish a FailToEmit; fetches, failed
marks, crashes and restarts are stutters.

`SingleRelayOrder` rests on `SingleInv`: while neither a publish nor a mark has failed,
what precedes a row of a batch is acknowledged or in the batch, what precedes a row that
was handed over is acknowledged, and, if there is one relay only, nothing in its
batch is acknowledged. So no row it hands over can precede one handed over before. The
last part is what a second replica breaks.

### Pipeline

The theorems assume `UseKafka` and `HasBrokers`: without them there is no consumer.
The relay's invariant is kept by the consumers' steps, so `NoOvertaking` is available. `ReaderInv`
says that a hub holds only what its reader has passed, and, until a read or a delivery
fails, all of that. When a reader passes a message, the events that precede it were handed
over before it, hence lie at earlier places; the key puts them into the same partition,
so the reader has passed them. A crash empties the hub, and the
restarted reader begins again at the first offset.

`CaughtUpHubHasAll` is the safety side of delivery: an acknowledged event was handed over
(`AckInv`), so it lies in the partition of its key, and a reader with nothing left unread
there has passed it. That every row has a chat, hence a partition, is part of `TypeOK`.

### Writers

`CountInv` bounds the ids by the transactions: the requests between Begin and the insert
into the outbox, plus the ids taken, are at most the transactions begun. `TableInv` says
that only numbers of transactions that have begun are messages. `RequestInv` is what the
row locks give: two requests never hold one row, never create one message, never have one
outbox row; a request that holds a row still matches its WHERE clause (`RowMatches`); and
the id it took is above all committed ids about that row (`Told`). The last part is the
heart: since the id is taken under the lock, the event that commits is the last one of its
message, chat or member, and Min and Max in the three invariants move as they should.
`DeletedIsFinal` follows from `RowMatches` at the commit.

Under the mapping to `OutboxContract` the only steps that are not stutters are the insert,
the commit and the rollback behind an insert. Under the mapping to `MessageTable`, Begin is
Start, the commit of a creation CommitCreate, that of a deletion SoftDelete, and the
rollback of a creation RollbackCreate; `OneCreator` says that an open message is shown
for one request, which is why the mapping is well defined.

### Queries

`QueryInv` is proved over `MessageTable`, which the writers implement, so the theorems hold
of the messages that handlers really write. They assume that the set of chats is finite.

- A page. The number of rows before a row is below the number of rows, and grows along
  the order (`RankGrows`): LIMIT therefore cuts a prefix, and a page that is not full is
  all there was (`WindowSize`, `MessagePage`, `ChatPage`). That is what `has_more` rests on.
- `ScrollInv`: the cursor is not above anything got, and what is left of the base
  from the cursor up was got. A message that commits late is not in the base; one that is
  deleted leaves it; the message of the cursor itself may be deleted, since only its place
  counts. When a page is not full, nothing is left below the cursor.
- `ListInv`: the chats of the base before the offset that still have their last message
  were got. `PositionGrows` is the heart: as long as `moved` is false no chat leaves the
  list and none falls back, so a chat that keeps its last message only moves towards
  larger positions, never to one before the offset that was read already. With
  `moved` this fails, and so does the property (section 5, point 7).
- `LastInv`, for both: a chat's last message is a committed one, so that a new last
  message differs from the one in the base.

### Sessions and accounts

`LineageInv`: who has a successor is revoked, and logins are numbers of existing
sessions. With the exclusive row locks of `TypeOK`, the transaction that rotates a session
finds it active and leaves it revoked in one commit, so it has one successor, and a login one
active session; a session that a logout revoked can never be rotated. The order in
which logout-all visits its rows does not matter.

`LogoutAllMissesOnlyRotations` says how far logout-all can be trusted, given that
`LogoutAllTerminates` fails (section 5, point 2). `OwnersInv`: the sessions of a login have one
owner, so the rows of the snapshot contain every active session of the logins in question.
`LogoutAllInv`: while LogoutAll runs, each of these is still to be visited, or updated, or
escaped. A rotation commits under the lock of the row it replaces, which therefore is not
one that LogoutAll has updated; so it is still to be visited, and the successor
escapes (`RotationEscapes`), or LogoutAll does not care about it.

`AccountsImplementSessions` shows that every step of the composition is a step of
`RefreshSessions` or a stutter there, so its theorems carry over (`AccountSessions`).
`LookupInv`: what the lookup of a nickname said still holds of every account but those
that wrote it since, or raced with this one before.

### Chats

`TableInv`: the key of a direct chat is its pair, and keys are unique. `Informed(q)`, per
request, is what stays true of what was read: the chat is there and of its kind, a second
attempt of CreateDirect looks for a key that exists (so the third never comes), and a
DELETE is one of the caller or hits somebody who was no owner and can not have become one.

### Connections

`HubInv`: the hub is the set of connections between Register and Unregister, so the
gauge, which is decremented without looking, is right. `TicketInv`: a ticket that is still
there has opened nothing. `StreamInv` relates what a connection is sent to its senders: what
it has of a sender is older than the sender's event, or is that event and the
connection is behind the sender (`Ahead`). It gives order and accounting at once. The frame in the writer's hand belongs
to the stream: taking it out of the channel leaves the stream as it is, writing it moves it
to what was sent, and after a failed write it stays there as the one frame that was
lost. `OnlyFullChannelsDrop` therefore says that a connection loses, besides what a full
channel dropped, at most that frame and what was waiting behind it when the writer ended.

### Processes

`LifecycleInv` is the invariant behind the theorems of `AppLifecycleProofs`:
`MigratedBeforeServing` does not say what the loop of `Up` has left behind, so the
invariant adds that every file below the one a replica has reached is stamped, that
who is past the loop has reached its end, that workers run only there, and that
a worker outlives the wait only if it was given up. A stamp is never taken back, so what
a replica has seen stays true while others migrate.

### Only model-checked

- Liveness (`EventuallyPublished`, `ReachesEveryHub`, `ClosedIsForgotten`,
  `EventuallyServes`, `ShutdownEnds`): fairness and ENABLED are out of the prover's reach.

Every other property of a passing run is stated by a theorem. The type invariants
`ConsumerTypeOK`, `QueryTypeOK` and the `TypeOK` of `MessageWriter` are proved and need no run;
`QueryTypeOK` also says that only the last page of a list is not full, as `has_more` promises.

## 5. What the checks found

Each of these is a run that is violated:

1. **Events lost by the fan-out** (`fanout_lost`). The error of the delivery is assigned
   to a shadowed variable, the message counts as handled and its offset is committed,
   contrary to `README.md:20`.
2. **logout-all** (`sessions_logout_all`). A refresh whose transaction overlaps it leaves
   a valid session, contrary to `README.md:174`.
3. **Direct chats without members** (`chats_usable`). CreateDirect inserts chat and members
   in two transactions. When the second does not happen the pair can never open its
   chat, contrary to the comment at `service/chat_service.go:38` and to `README.md:176`.

These came up while modelling; the properties of the passing runs are stated around them:

4. **In-chat order with several replicas.** `README.md:32` promises a topic "keyed by
   `chat_id` for in-chat ordering". Two replicas that fetch the same batch put event 1 of
   a chat again behind event 2, without any failure: `InChatOrder` of `OutboxRelay`
   fails with `Replicas = {r1, r2}` and two rows. What does hold is `NoOvertaking`: the
   first copy of an event never overtakes; and `SingleRelayOrder` for one replica.
5. **WebSocket handshake behind `Chain`.** The wrappers of the ResponseWriter at
   `transport/http/middleware/logging.go:11` and `observability/metrics/metrics.go:229`
   implement neither `http.Hijacker` nor `Unwrap`, so the upgrade fails after the ticket
   was consumed, contrary to `README.md:201`. This is the constant `Hijackable` of
   `WSConnections`; the run `connections` takes it to be TRUE and is about the handler
   without these wrappers.
6. **Nicknames.** No index backs the lookup: requests that overlap give two accounts one
   nickname, after which `UpdateMe` may answer 409 to either of them for the
   nickname it has. `NicknameSharedOnlyByRace` says that nothing else leads there.
7. **The list of chats by offset.** A chat that the user leaves, or that falls back when
   a message commits late and takes `last_message_at` back, makes the next page skip
   a chat. `ListIsComplete` says that nothing else does.
8. **The Redis subscriber** ends for good when one delivery fails, although the comment at
   `transport/ws/broadcaster.go:60` says it "blocks until ctx is cancelled".
9. **A shutdown without a limit.** Every wait of `Run` has a timer, but the deferred
   `pool.Close` of `src/backend/cmd/app/main.go:36` has none: a worker the wait was given up for, or a
   WebSocket handler `server.Shutdown` does not know, keeps the process as long as its
   call of the database lasts. `ShutdownEnds` says that nothing else does.
10. **Direct chats by spelling.** `direct_key` hashes ids as they are spelt and the
    validation (`service/chat_service.go:19`) accepts a UUID in either case: with the other
    spelling two users get a second direct chat, contrary to `README.md:29` ("de-duplicated
    by ordered user pair") and `README.md:176`. `OneDirectPerUsers` of `Chats` fails with one
    request and two spellings; `OneDirectPerPair`, about ids as they are spelt, holds.

## 6. Abstractions

- Payloads, timestamps, metrics and logs are left out, except where a property needs
  them. The event of a row is its id, the key of an event its chat: all the writers set
  `chat_id`, and marshalling what was read from the table cannot fail.
- Retries inside kafka-go only add adjacent copies of an event, and the broker keeps what
  it has acknowledged. A failed publish may or may not have stored the event.
- A database error, a cancelled request and a crash of the process are the same to a
  transaction: it is rolled back. A commit whose answer is lost is not modelled.
- Validation of texts and ids, token signing and password hashing are left out: requests
  are those that pass. Requests that a first check turns down do not appear, since they
  change nothing.
- Admins exist in the kick rules but no operation makes one; `TypeOK` of `Chats` says so.
- Calls to Redis for presence do not fail (the code ignores such errors, and the key
  expires). Tickets are distinct because they are random.
- Messages of one chat have different `created_at`, and a timestamp given as the cursor
  is the one of a message.
- The bodies of the migrations are what they create and whether they say IF NOT EXISTS.
  Migrations run at start-up (`RUN_MIGRATIONS_ON_STARTUP`, the default of compose).
- Numbers that only bound a run: `MaxRows`, `MaxTx`, `MaxSessions`, `MaxChats`,
  `MaxEvents`, and the `Max...Errors`, `MaxCrashes`, `MaxFailures`, `MaxFaults`.

## 7. Not modelled

- Reads of single rows (Get, Members, Me, Search), the preview and the unread count of
  the list of chats. An unread count taken over `created_at` misses a message that
  commits late below the reader's mark.
- Typing keys, which nothing reads, and the Redis publisher.
- The rate limiter: library code over a map under one mutex.
- Token signing, hashing, configuration, DTOs, metrics, logging: no state that another
  component depends on, or library code.

## 8. Plan

In this order; all points but the last are done.

1. Outbox: `OutboxContract`, `OutboxRelay`, its safety and its refinement proved.
2. Delivery: `KafkaWSConsumer` on top of the relay.
3. Writers: `MessageWriter`, refining the contract.
4. `RefreshSessions`, `Chats`, `WSConnections`.
5. Reads: `MessageTable`, implemented by the writers, and `MessageQueries` over it.
6. `Accounts` with the sessions; `AppLifecycle` with migrations and shutdown, its safety
   proved.
7. Proofs of the safety properties and the refinements of these components.
8. The paging of `MessageQueries` restated over sets of messages below a cursor, so that
   its completeness is proved as well; `CaughtUpHubHasAll` and
   `LogoutAllMissesOnlyRotations`, checked and proved.
9. Unread counts as operators over the tables of `MessageWriter`, compared with the
   messages committed since the read mark.
