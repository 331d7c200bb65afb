# A TLA+ model of logos-chat

These modules specify the parts of logos-chat whose correctness depends on
the order of events: several threads, several devices, several members of a
conversation, frames that get lost or arrive out of order, processes that end
and start again. TLC checks each specification on small instances; TLAPS
proves its main safety properties for every value of the constants.

`PROJECT.json` relates every definition to the lines it models, and lists
the runs, the theorems, the findings and the hazards.

## The system

An application calls a **client**, which shares a synchronous **core** with
one worker thread behind a mutex.

| Part | State | Operations | Source |
|---|---|---|---|
| Causal history | per conversation: Lamport clock, seen set, bounded frontier, reported gaps, own ids, acknowledgements | `on_send`, `on_receive`, `take_missing`, `take_acks` | `core/conversations/src/causal_history.rs` |
| GroupV1 / DirectV1 | an MLS group (openmls, external), hashes of own frames | create, `add_signer`, `remove_signer`, `send_content`, `handle_payload` | `conversation/group_v1.rs`, `direct_v1.rs` |
| GroupV2 | a de-mls conversation (external), pending invites, member directory | the same, plus `wakeup` and `after_op` | `conversation/group_v2.rs` |
| GroupV3 | an MLS group with a pending commit | the same; `remove_signer` is a `todo!()` | `conversation/group_v3.rs` |
| InboxV2 | key packages of this process | `register`, `handle_frame` | `inbox_v2.rs` |
| Core | cached conversations, conversation records, services | create, add, remove, send, `handle_payload`, `wakeup` | `core.rs` |
| Client | worker thread, inbound, wakeup, shutdown and event channels | API calls, `worker_loop`, `Drop` | `crates/generic-chat/src/client.rs` |
| Wakeup service | heap of deadlines, one thread, a condition variable | `wakeup_in`, `run`, `Drop` | `extensions/components/src/wakeup.rs` |
| Account log | an append-only log of endorsements and tombstones | draft, push, encode, decode, compare | `account/account-log/src` |
| Account, resolver | the account key; the records seen so far | `publish`, `resolve` | `account/account/src` |
| HTTP auth client | none | `fetch`, `publish`, `validate_signer` | `extensions/components/src/http_auth_client.rs` |
| Key package registry | none (client side) | `register` with retries, `retrieve` | `extensions/components/src/contact_registry` |
| Installation, key vault | identity in the store, keys in files | `load_or_create`, `install` | `crates/generic-chat/src/installation.rs`, `extensions/components/src/key_vault` |
| Stores | key-value transactions, records, migrations, messages | CRUD, `begin`, `commit` | `core/conversations/src/storage*`, `extensions/sqlite`, `extensions/message-store` |
| chat-cli | chats, active chat, `is_active` | events, commands, quit | `bin/chat-cli/src` |
| File transport | one file per address and hour, reader offsets, a bounded channel | `publish`, `poll_reader` | `bin/chat-cli/src/transport/file.rs` |

Interactions: the application thread and the worker both call the core under
its mutex; the worker is fed by the transport and the wakeup service and feeds
the application's event channel. Cores of different members meet only in
frames of a delivery service that promises nothing, in the key package
registry, and in account logs kept by a server. Before there is a client there
is its start: an identity from a vault of key files or from the database, its
endorsement in the account log, a subscribed inbox and a registered key
package. Processes of one user, and the application's message store, may share
one SQLite file.

What makes it hard: commits are merged before they are published; the MLS
state and causal histories die with the process while records and identities
live on; acknowledgements and gaps are inferred from histories that arrive
late; account updates are read-modify-write over HTTP; a condition variable
and a flag are used together; the application keeps copies of core state; an
identity is spread over files, a database and two servers, written one after
the other; several connections open, migrate and write one database.
The hazards section of `PROJECT.json` lists each at its line.

What must hold: causal bookkeeping tells the truth exactly once; members of a
group never diverge and the removed read nothing later; one revoke withdraws a
key and a revoked key stays revoked until it is endorsed again; no deadline is overslept;
what the core hands out reaches its chat and its state file; closing gets the
worker back; what is on disk was endorsed and a user who keeps trying gets to
run; the stores on a file behave as one.

## Modules

| Module | Models | Runs | Proofs |
|---|---|---|---|
| `CausalHistory` | the causal-history stores of all signers of one conversation | `causal_history` | `CausalHistoryProofs` |
| `WakeupService` | the wakeup service, step by step around its mutex | `wakeup`, `wakeup_shutdown` | `WakeupServiceProofs` |
| `AccountLog` | the log as a pure data type | through `AccountSync` | used by `AccountSyncProofs` |
| `AccountSync` | devices, provider and resolvers of one account | `account_sync` | `AccountSyncProofs` |
| `GroupV1` | one conversation across its members' cores and inboxes | `group_v1`, `group_v1_ordered` | `GroupV1Proofs` |
| `GroupV2` | one installation's wrapper around a de-mls session | `group_v2` | none |
| `GroupV3` | one conversation across its members' cores, over the in-process bus or a faulty network | `group_v3` | `GroupV3Proofs` |
| `FileTransport` | the shared directory and one reader | `file_transport` | none |
| `ChatClient` | application thread, worker, and the core between them | `chat_client` | `ChatClientProofs` |
| `Startup` | from `main` to a running client: key vault, installation, endorsement, key package | `startup` | `StartupProofs` |
| `ChatStore` | abstract: what the stores promise, written from the in-memory one | through `SharedDatabase` | used by `SharedDatabaseProofs` |
| `SqliteFile` | external: a SQLite file, its write lock, its log and power cuts | through `SharedDatabase` | used by `SharedDatabaseProofs` |
| `SqliteStore` | migrations, records and key-value transactions on that file | through `SharedDatabase` | used by `SharedDatabaseProofs` |
| `MessageStore` | the application's messages in that file | through `SharedDatabase` | used by `SharedDatabaseProofs` |
| `SharedDatabase` | the composition of the last three, and the refinement | `shared_database` | `SharedDatabaseProofs` |

Each `MC` module only gives names and values to constants. Operators whose
comment starts with "Mutant:" are deliberate errors; `PROJECT.json` says which
property each of them must break. They are not part of any specification.

### CausalHistory

One variable per field of `ConvoState` and `Inner`, each a function on
signers. `SendMessage` is `on_send` and a published envelope;
`SendMessageFails` is `on_send` followed by an error, as the code records the
message first. `Receive` may take any envelope published so far, at any time
and again, so loss, delay, reordering and repetition need no actions of their
own. The Blake2b id is taken as injective in sender, timestamp and content.
`Dialect` says how a signer's client writes sender ids, so that the two early
exits of `on_receive` are reached. `missing` and `acks` are vectors whose order
nobody looks at and are bags here. The variables `surfaced`, `notified` and
`delivered` are history variables.

### WakeupService

`thread` is the position of `run()`; between `check` and `peek` it holds the
mutex. Waiting releases the mutex and parks in one step, as a condition
variable does; `NotifyOne` is heard by a parked thread only; spurious wakeups
are allowed. `Drop` takes three steps, none of which takes the mutex. A ticket
tells records with the same deadline and conversation apart.

### AccountLog and AccountSync

Entries are records, positions count from 0 as in the code, a text is known by
its length, and encoding is modelled by its sizes, the 16-bit length field
included. `BeginPublish` is everything `AccountUpdate::publish` does up to the
request, also for an update without entries; other steps may happen before its
answer, which may be lost after the server has stored the log. The server is external
and modelled from `codec.rs` lines 3 and 4: it stores what extends what it has.
`served` holds everything a stale replica may still answer. A loss of the log
empties it. `Resolve` covers an unsigned answer, a stale one, and a second
history. The validity of key encodings is the constant `ValidKeys`. `doubled`, a
history variable, holds the logs in which another implementation endorsed a live
key again; `from_log` accepts them. `ValidateSigner` judges one answer: the auth
service keeps no record and does not use `AccountResolver`, so a stale replica or
a lost log may undo a revocation it has reported, and `RevocationSticks` speaks
of answers that are not older.

### GroupV1

An MLS group is the sequence of commits it has merged, and a frame can be
opened only by a group with the past it was sealed in; this is what openmls
guarantees with epochs and key schedules, and all that the code relies on.
`past`, `convo` and `record` are the MLS state, the entry of `cached_convos`
and the stored `ConversationMeta`. `session` and `package` say which process
made the key package that the registry offers: a welcome for an earlier
process does not open. A joiner's conversation is cached as a direct one
(`core.rs` 460-463), so only its creator may add and remove; the invariant
`OneHistory` rests on this. `invites` and `commitOut` say how far the publishes
of one call got before an error. A joiner whose subscription fails keeps its MLS
group and has no conversation. `Ordered` selects a transport that gives every
member every frame once and in order, or one that gives anything.

### GroupV2

`session` is the de-mls conversation, which is outside the repository and
modelled by what `group_v2.rs` and its tests rely on: a change of membership is
a round with a deadline; what passed is frozen and then merged by one commit;
removals of a commit free their leaves before its additions take the leftmost
blank ones; deadlines are acted on only when the session is polled; an add is
accepted only outside a freeze (lines 508-511). What a call may do is a set of
results, each a session and the events it emitted. `AfterOp` is `after_op`,
called by every action that stands for an operation: welcomes to joiners in
`pending_invites`, then frames, then the alarm, ended by the first publish that
fails. `AddSigner` takes a batch, of which de-mls may refuse any. Times are the
time left, so `Tick` lowers them all and the model needs no clock; two alarms
due at one instant are one, since the second poll of an instant finds nothing
due. A message that comes with a commit and cannot be read ends
`outcome_from_events` with an error (lines 677-694), and nothing is reported.
`ours`, `sent`, `observed`, `garbled` and `lapsed` are history variables.

### GroupV3

As in `GroupV1` an MLS group is its commits. Everyone may add members. A call
of `new` or `add_signer` is one step up to its commit, one to publish and merge
the commit or discard it, and one for each welcome; `call` says where it is, and
a core in the middle of a call handles nothing. `bus` chooses the transport: on
`InProcessDelivery` an envelope reaches those subscribed when it is published,
once and in order (`reach`, `cursor`); otherwise anything published may turn up
at any time, any number of times, or never. `remove_signer` is a `todo!()`.
`left` marks a member whose call returned with its commit staged: the welcome
could not be encoded (`invites?`, line 204), or the publish failed and so did
`clear_pending_commit` (lines 131-136).
`overlapped` marks behaviours in which a commit was published before everyone
on the roster had merged the one before.

### Startup

Each process has a way to start (a vault alias, the database, or ephemeral) and
a program counter through `main`, the vault or `load_or_create`,
`Installation::validate`, `Core::assemble` and `register`. `fs::write` is two
steps, so a crash may leave a torn file. Accounts, keys and key packages are
numbers, fresh when generated. The account server is the set `endorsed`, less
what was `revoked` or `lost`; `AccountSync` says why an acknowledged
endorsement is there. A submission to the registry may be shed, land unanswered
or land late; the registry keeps what reached it last. `Plans` bounds which
processes start and how much goes wrong.

### ChatStore, SqliteFile, SqliteStore, MessageStore, SharedDatabase

`ChatStore` is the contract of `KvStore`, `ConversationStore` and
`IdentityStore`, written from `MemStore`: one transaction at a time on a copy,
committed whole or dropped, an installation stored once. `versions` is the store
now and the versions that a power cut may leave of it. (`MemStore` itself has
`todo!()` for `remove_conversation`; the contract takes its meaning from SQLite.)
`SqliteFile` is external and modelled from the settings in `common.rs`: WAL,
`synchronous = NORMAL`, `IMMEDIATE` transactions. The file is a sequence of
committed versions since the last checkpoint, one connection may be the writer,
and it alone sees what it has written. `SqliteStore` opens and migrates the file
statement by statement, and its rows, keys and prefixes are the tables and
`substr` conditions of `kv.rs`. `MessageStore` adds the application's
connection: its table, `AUTOINCREMENT` numbers, and an application that walks a
chat page by page while messages are recorded and deleted. `SharedDatabase`
composes them; `RefinesContract` maps the versions of the file to those of the
contract and the write lock to its open transaction, so that everything the
message store does is a step of the contract that changes nothing.

### FileTransport

A file is a sequence of lengths and payloads as they were appended. Reading at
a boundary where a payload follows its own length yields the envelope; reading
anywhere else yields `Garbage` and leaves the reader at any later place, since
the length is then whatever bytes are there. `taken`, a history variable, holds
what was cut out of a file and whether the channel had room for it.

### ChatClient

The core is reduced to which conversations are loaded and which can be sent
to; frames do to them what the conversation modules allow. Each call under the
mutex is one step, sending each event is one step, and a call of the
application that returns a value takes another step to store it, so the worker
can run in between. A call may fail after it has changed the core
(`WorkerInboundFails`, `WorkerWakeup`): of a GroupV2 payload whose frames cannot
be sent or whose events cannot be read (`group_v2.rs` 433-434) the application
gets `InboundError` and the acknowledgements, of such a wakeup (450) nothing
(`client.rs` 355-360, 381-384). The content of such a payload is gone;
`ContentReachesChat` is about what the core hands out. `unsynced` marks the three
cases in which `is_active` is not asked of `can_send`: `/delete` of the active
chat assigns `active_chat` directly (`app.rs` 721), the start of a conversation
that has a chat returns early, and a call that merges this client's removal and
then fails says nothing of it. The flag stays as it was until it is next
refreshed. `Join` is the end of the worker; the core is dropped after it, with the
wakeup service, whose drop may hang (`wakeup_shutdown`).
`saved` is the state file, written after a drain that handled an event and by
the commands that change the state, and read once at the start.

## Runs

| Run | Shows | States |
|---|---|---|
| `causal_history` | acknowledgements are true; gaps are never lost and surfaced once; causal pasts have smaller timestamps | 241,956 |
| `wakeup` | no deadline is overslept, a registration is eventually sent, a drop with an armed timer ends | 146,032 |
| `wakeup_shutdown` | violation: a drop with no timer armed may hang | |
| `account_sync` | one revoke withdraws a key, no forks while the log is kept, records only grow, a revocation holds for later answers, drafts are sound | 280,670 |
| `group_v1` | one history of commits, removed members read nothing later; frames in any order, a failure, a restart | 110,842 |
| `group_v1_ordered` | with ordered delivery and no failures, everyone added for good ends up with the creator's group | 106,696 |
| `group_v2` | a session with a deadline has an alarm for it, votes end, invited joiners are sent their welcome when a commit seats them, roster changes are reported unless a message with them is unreadable | 34,999 |
| `group_v3` | only two commits to one epoch fork a conversation, a failed publish leaves no commit pending, and on the bus members that take turns converge | 281,703 |
| `file_transport` | what precedes an overlap of two writes is cut out whole, in order and once, whether or not the channel has room, and the reader gets to the end of untorn files | 101,662 |
| `chat_client` | content and acknowledgements reach their chats, `is_active` follows `can_send` where something asks for it, what is on screen is in the state file, queues drain, closing gets the worker back | 294,723 |
| `startup` | what is on disk was endorsed, one database is one installation, nobody is invited before it listens, an acknowledged key package is the one served, and whoever keeps trying gets to run unless locked out | 171,599 |
| `shared_database` | the stores on one file implement `ChatStore` and read what it reads, migrations run once and in order, a message number is used once, a walk through a chat reads every message that stays | 114,146 |

Every property of a passing run is broken by at least one of the mutants.

### Bounds

- Causal history: three signers and four messages, with frontiers of two, so
  that a frontier overflows and a third party learns of messages it has not
  seen. One signer is ordinary, the entries of the second and the sender id of
  the third do not parse for the others. One content is enough: ids differ by
  author and timestamp.
- Wakeups: three registrations with delays of 0 to 2 over five instants give
  equal deadlines, an earlier one registered later, and one that has expired
  when it is registered.
- Accounts: two devices, two resolvers, logs of three entries: endorse, revoke,
  endorse again; a text too long to encode; an update without entries; an
  unreadable entry; a key live twice; one loss of the log.
- Groups: a creator and two members, four commits, so that a member can be
  added, removed and added again while another one lags behind.
- GroupV2: this installation and two others on three leaves, votes of two
  ticks and freezes of one, two rounds at once and one failed publish: enough
  for a batch that fails half-way, a round opened while another is decided, and
  a commit that removes one member and seats another in its leaf.
- File transport: two files, two processes, three frames, a channel of two
  slots, one failed write.
- Client: one conversation of its own and one restored, two frames or messages
  and one wakeup: an acknowledgement can pass the message it is for, and an event
  can come between any two steps of a command. A third frame takes the state
  space past what a run should cost.
- GroupV3: a creator and two others, three commits, one content, one fault:
  enough for two commits to one epoch, for a commit that overtakes a welcome,
  and for a call that fails or ends at each of its steps.
- Startup: two processes on one database or two aliases of one account with one
  fault, and each kind of client alone with two or three, so that a crash can
  follow a failed publish and be followed by a lost log. `MAX_RETRIES` is one:
  the first, the repeated and the last attempt differ, others do not.
- Shared database: two processes of one user, or one and its application; two
  migrations, so that one may be applied between another's check and its turn;
  the empty key, a key and one below it; three writes, of which a power cut may
  take two back; pages of one message.

Symmetry is used only in runs without liveness properties, over devices and
resolvers, over the members that are not the creator, and over processes,
namespaces, values and installations of the database (a refinement of a
specification without fairness is a safety property).
`CHECK_DEADLOCK FALSE` stands where bounds or a closed process end all
behaviours. `FileTransport` and `SharedDatabase` have no such end and are
checked for deadlock.

### Fairness

- `WakeupService`: the thread runs when it can, `Drop` goes on, time passes.
  These are the operating system's scheduler and clock. Nothing is assumed of
  callers or of spurious wakeups.
- `GroupV1` (`Spec`): each worker keeps taking frames off its transport.
  Sending, committing and restarting are never forced.
- `GroupV2`: a due alarm is delivered and handled, which `wakeup` and
  `chat_client` show of the service and the worker, and time passes. No frame
  and no call is ever forced.
- `GroupV3`: calls return and each worker keeps taking payloads off its
  transport. Nobody is made to add, send or restart.
- `Startup`: a user who wants to chat starts the client again, and a process
  goes on as long as it is answered. Failures are bounded and
  never forced.
- `FileTransport`: the reader thread is an endless loop.
- `ChatClient`: both threads run. Which branch `select!` takes is not
  assumed, nor is anything a user does.

## Proofs

TLAPS checks every theorem to its leaves. The assumptions are those on
constants, which TLC evaluates on each run.

- **CausalHistory.** `CausalInv` is inductive relative to `TypeOK`: own
  messages are seen and no later than one's clock; everything seen was authored
  by the sender it is filed under; frontiers and envelopes name only what their
  holder has seen. Without the last two, `AckImpliesHeld` is not inductive: an
  acknowledgement is inferred from an envelope that may be old. `AcksSound`,
  `GapsReal` and `ClocksGrow` are its conjuncts; `LamportUnique` is inductive
  with it, since no own timestamp exceeds the clock. `NoGapLost` and `SurfacedOnce` are
  inductive with types, using small lemmas on bags.
- **WakeupService.** `WakeupInv` adds that nothing leaves the heap early, that
  the record in hand is no later than any in the heap, and that what is queued
  is no earlier than what was sent. `AtMostOnce` needs that tickets are issued
  in order.
- **AccountSync.** `ServedIsHistory` is the invariant: all that was served since
  the log was last lost is a prefix of the stored log. `NoFork` follows by lemmas
  on prefixes; `RecordGrows` is an action property that needs no server at all.
  The others are about the pass of `filter_mask_removed`, a recursive function:
  over a longer log it begins as over the shorter one (`PassAgrees`) and gives up
  nothing (`PassGrows`). That it exists, and both facts, are shown by taking the
  least position where they would fail. `RevokedStays`: a revoked key can only
  come back by an entry that endorses it again. `RevokingWithdraws` needs more:
  `LogsChecked` says of every log, stored, served or on its way, that each of its
  prefixes passed the check for keys live twice when it was pushed or is in
  `doubled`, so that in any other log two endorsements of one key have a removal
  of the first between them. `SoundDrafts` takes one half from it; the other, that
  a draft is readable, is an invariant by itself.
- **GroupV1.** `HistoryInv`: only the creator's conversation is cached as a
  group, its MLS group is the whole history while its process lives, every
  frame belongs to that history, and content shown was sealed to a roster with
  its reader. The proofs hold for any order of delivery and any failures.
- **GroupV3.** `CallInv` says what a core holds at each point of a call: a commit
  is pending only inside one or after one that left it, which is `NeverWedged`. `ForkInv` says that every
  past held or carried by a frame starts with the group's foundation and is made
  of published commits, each on top of the one before, and that any two are
  comparable unless two commits were published to one past. The first part is
  what makes the second inductive: a commit published to the shorter of two pasts
  must be the one the longer has next, or there is a race. `OnlyRacesFork` holds
  for both transports.
- **Startup.** `Sessions` says for each program counter what the process has in
  memory and has done: it is the type invariant of a sequential program.
  `VaultInv` adds that a key on its way to the disk is endorsed, and, unless two
  first starts raced, that the account in memory is the one on disk and a torn
  account file has one writer. `OneInstallation` is inductive with the types.
  `RegistryInv`: what is settled is served, and what is still on its way for that
  key is the same package, so a late duplicate changes nothing.
- **ChatClient.** `Base` ties the phase of the application to what it holds and
  says that ids are fresh. `QueueInv` speaks of one sequence, the event channel
  followed by what the worker has yet to send: whatever the core has and the
  application has not (a loaded conversation, a content, an acknowledgement, a
  change of `can_send` in a call that did not fail) is in it, and a conversation's
  start stands before its content. Each property is the case where nothing
  is in flight. The lemmas say how a `Drain` of one event and a batch of the
  worker change that sequence.
- **SharedDatabase.** `Shared` has four parts. `History`: each version of the file
  has its keys unique, its migrations a prefix of the list and its message numbers
  at most `sqlite_sequence`, which never falls from one version to the next, and
  every message in a version was remembered with a number that names it alone.
  `Transaction`: the open transaction has changed tables of its own kind only.
  `Opening`: a store past a migration finds it in the file. `Reading`: what a walk
  has read is at or above where it stands, and what it has still to meet is
  below. `SeqsNeverReused` needs the order of the versions,
  since a power cut takes the file back to an earlier one; `WalksReadEverything`
  needs that fewer than `Limit` messages below a position are all of them, a fact
  about cardinalities (`PageFacts`).
  `StoresImplementContract` maps each version of the file to the maps it stands
  for. `PutMap`, `DeletePrefixMap` and their like show that a statement on rows is
  the edit of the map, `ReadsMatch` that each query is the contract's query;
  then every action is a step of the contract (`BeginImplements` to
  `PowerCutImplements`) or leaves what the contract sees unchanged (`Unseen`).

What is assumed of constants, besides that bounds are naturals and that markers
such as `NoLog`, `NoChat`, `Missing` and `Absent` are no values: batches are
logs, an entry that removes names a position and one that endorses a key is
just that (`AccountAssumption`); keys of the database are byte strings and the empty
one is among them; a page holds at least one message; a power cut may find at
least two versions that are not synchronised (`synchronous = NORMAL`).

Only model-checked:

- all liveness properties: TLAPS has no fairness or ENABLED reasoning here;
- `GroupV2` (`NeverDormant`, `AdmittedAreWelcomed`, `RosterChangesObserved`): the
  session is external, and its steps are sets of possible results, over which
  no inductive invariant has been worked out;
- `FileTransport` (`WholeFramesOnly`): an invariant on torn files and offsets is
  yet to be found;
- `PayloadBytes`, whose value for every log no theorem states.

`TypeOK`, `SentInOrder`, `SentOnce`, `GapNamesForeignMessage` and `CausalInv` are
proved and no longer repeated in a run; in modules without proofs `TypeOK`
documents the state. `SharedDatabaseProofs` takes about a quarter of an hour to
check from nothing, the others at most a few minutes.

## Findings

1. Dropping the wakeup service can hang (`wakeup_shutdown`): the flag and the
   notification are not sent under the mutex. In the client this is the drop of
   the core when no timer is armed, after the join at which `QuitEnds` stops.

Five more properties say what a comment says and are violated. Each has its
configuration, which ends in a counterexample:

- `PublishedIsReadable` (`tlc -config AccountLongText.cfg MCAccountSync`): a
  text above 65,535 bytes makes an account log unreadable, since its length is
  cast to 16 bits (`codec.rs` 81).
- `MembershipReflected` (`GroupV1Readd.cfg`, `MCGroupV1`): a member removed and
  added again stays out, since its old group and conversation are still there
  (`core.rs` 521).
- `EjectedIsNotMember` (`GroupV2Ejected.cfg`, `MCGroupV2`): an installation that
  a commit removes while seating another in its leaf goes on to report itself a
  member: `own_signer` (`group_v2.rs` 321) returns the newcomer.
- `EveryFrameForwarded` (`FileTransportFull.cfg`, `MCFileTransport`): "forwards
  every frame to the inbound stream" (`file.rs` 28-29), but `try_send` drops a
  frame when the channel is full (line 117), and its offset has moved on.
- `FlagMirrors` (`ChatClientMirror.cfg`, `MCChatClient`): "Mirrors
  `ChatClient::can_send` for the active chat" (`app.rs` 105-107), but not in the
  three cases that `unsynced` marks.

Further disagreements are known and excepted from the properties they touch:

- A server that lost an account's log answers 404, which `validate_signer`
  (`http_auth_client.rs` 192) makes `Invalid` and `Installation::validate` a
  refusal for ever; the comment at `installation.rs` 185-190 gives exactly this
  as what must not happen. `EventuallyRuns` excepts it (`lost` in `LockedOut`).
- Two first starts of a vault may write `account.key` one over the other
  (`raced`), and a crash inside `fs::write` leaves a key file that no start can
  read.
- A late submission of an earlier session may replace the key package of the
  running one; `RegisteredIsServed` is about the others.
- Two GroupV3 members that commit to one epoch part for good, and a joiner
  misses what is committed before it handles its welcome, also on an ordered
  bus. A signer whose welcome failed stays on the roster and is not invited again.
- `client_with` submits over HTTP and uses its own GroupV2 timing, whatever its
  configuration says (`logos.rs` 222-256).
- After a restart the causal history starts again with clock 0, so a member
  invited again repeats Lamport timestamps; `LamportUnique` is about one session.
- A draft is not "always valid" (`draft.rs` 10): `from_log` takes over a log in
  which another implementation endorsed a live key again, and an update without
  entries signs it as it is. `DraftsAreSound` excepts it (`doubled`).
- A GroupV3 commit that was staged and neither published nor discarded is pending
  until another member's commit arrives; until then `add_signer` is refused.
- Inviting a signer again while its first invite is frozen is refused, and the
  error path takes the pending entry of the first invite with it: the commit
  seats the signer and no welcome is sent. `AdmittedAreWelcomed` speaks of
  signers that were not refused since.

## Not modelled

- openmls, de-mls, hashing and signatures are external and taken as ideal.
- In `ChatClient`: `MessageMissing` (a status line), content whose sender does
  not authenticate (no event), `/add`, `/remove`, `/nickname`, `/members`,
  a state file that tears or cannot be written, and the worker's exits when the
  transport or the wakeup service drops its sender, which chat-cli never does
  while it runs.
- In `GroupV1`: the filter for own frames beyond its 25 entries, and the
  out-of-order window of the sender ratchet; both only turn a frame into an
  error event.
- In `GroupV2`: `member_directory`, which is written and never read, and the
  trace records.
- In `GroupV1` and `GroupV3`: a publish of the delivery service that returns an
  error and has delivered. In `AccountSync` and `Startup` a request over HTTP may
  land without an answer.
- In `GroupV3`: message ids, which are hashes of the plaintext alone, and the
  framing in `payloads.rs`.
- In `Startup`: the display name itself, time stamps of submissions (no client
  compares them), the node of the embedded delivery service, and a key file lost
  to a power cut after `fs::write`, which does not synchronise it, has returned.
- In `SharedDatabase`: encryption and the check of its key, and the order in which
  a scan lists its keys. A message is taken to be recorded once its transaction
  is committed.
- Message types (a total function on message bodies), the embedded delivery node
  (bindings to a library that is not in the repository), the wrappers of
  `core/crypto`, the local broadcaster used by tests, drawing and logging.

## Plan

Modelled: causal history, wakeup service, account log and synchronisation,
GroupV1 with inbox and registry, GroupV3, client and application, start-up,
stores (all with proofs), GroupV2, file transport (model-checked).

1. Proofs: `NeverDormant` of `GroupV2`, `WholeFramesOnly` of `FileTransport`.
2. `GroupV2` composed with `WakeupService`: its alarms as registrations there.
3. Abstract specifications: a grow-only register that `AccountSync` implements;
   a totally ordered commit log that `GroupV1` implements.
