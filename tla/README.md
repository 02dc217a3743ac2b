# Verification of reed

reed is the back end of a collaborative text editor. Documents are yrs (CRDT)
documents; browsers and terminals edit them over websockets through the *message
proxy* (Rust), which stores operations in Postgres, distributes them between the
connections of one instance with a tokio broadcast channel and between instances
with NATS core. Metadata (documents, permissions, guests, users) belongs to two
gRPC services in Go behind an HTTP *api gateway*.

The TLA+ modules here model the message proxy, the document service, the user
service and the gateway's handlers in front of the two, TLC checks them on small
instances, and TLAPS proves the safety properties of all of them for every instance.
`PROJECT.json` is the index: the
components, the runs, the source lines every definition translates, one mutation
per property, the hazards, the findings, the theorems.

    tlc -config Ingest_durable.cfg MCIngest      # a run: PROJECT.json has the pairs
    tlapm IngestProofs.tla                       # proofs: every *Proofs.tla, and Minima.tla

## 1. Inventory

| component | state | operations | talks to |
| --- | --- | --- | --- |
| write path (`handlers/read.rs`, `repository/postgres.rs`) | a reader task per connection; tables `operations` and `deletions` | handshake loop, hot loop, `persist_and_broadcast_update`: lookup, insert, delete, send | client (socket), Postgres, broker |
| broker (`broker.rs`) | maps `topics` (Weak) and `in_flight` (OnceCell), one `TopicScopedState` per live topic | `register`, `get_or_insert_state`, dropping a receiver, `send` | reader and writer tasks, NATS |
| read path (`handlers/write.rs`, `broker.rs`) | a writer task per connection, its receiver, the NATS client's buffer | sync step one and two, hot loop, `Lagged`, end | Postgres, channel, NATS, client |
| session (`handlers.rs`) | the two tasks, a oneshot for the state vector, a cancellation token | `handle_socket` | both tasks |
| clients (`bin/tui.rs`, `bin/mpbench.rs`) | a yrs document, the current connection | edit, connect, answer sync step one, notice that the socket is closed | websocket |
| document service: calls | tables `documents`, `permissions`, `guests` | create, read, update, delete one or several, create guest, upsert, read, regrade and remove a permission | gateway (gRPC), Postgres |
| document service: listings | none (cursors are the client's) | two listings in two orders, filter, page size | the same tables |
| user service | table `users` | create, read, validate a password, change it, deactivate | gateway, Postgres |
| api gateway: handlers | none | one handler per route: checks of the caller's kind, one gRPC call, its status as an HTTP response | both services |
| api gateway: tokens | none (tokens are the client's) | sign at login, authenticate | clients |
| configuration, telemetry, deployment | none the protocol depends on | start-up | third-party software |

What is hard about each, and what makes it correct:

* **Write path.** A client's new connection and the old one that is still
  draining are two readers of the *same* client; each handles a message in four
  awaits. Queries fail, writer tasks end, the process dies. Correct means: the
  rows of a client never have a hole (else a state vector computed from the last
  one hides lost edits), a client that is through with its handshake and has
  nothing in flight has lost nothing, what is broadcast was stored before, and
  what is stored is broadcast.
* **Broker.** The live state of a topic is found through a `Weak`, created by one
  of several racing connections, and dies with the last receiver. Correct means:
  never two live channels of one topic, a live one can be found, no call waits
  for ever, not even after a failed subscription.
* **Read path.** The bulk answer is made of two queries while others write, the
  channel starts somewhere before them, NATS subscriptions are asynchronous, the task
  that serves one may return early, buffers overflow. Correct means: nothing falls between the queries and the
  channel; what is lost nevertheless comes with the next handshake.
* **Document writes.** Three tables change in transactions of two isolation
  levels that wait for each other's rows, see old snapshots and deadlock;
  `guests` and `permissions` are tied together by no foreign key. Correct means:
  no half-deleted document or half-made guest, no guest's permission away from its document, a batch goes as a whole, only its
  creator owns a document, every call returns.
* **Users.** A password change reads a hash, compares it at bcrypt's pace
  and writes; a login compares without a lock; the gateway's deadline passes and the
  service goes on or stops. Correct means: no change is made on the strength of a
  password that has been replaced, an answer is true whatever was cancelled or lost,
  an account is never left locked.
* **Gateway.** Levels are renamed three times in each direction, parameters of one
  type have an order, the kind of a principal is the client's word, the service behind may
  die under a call. Correct means: what
  a response says is true of the tables.
* **Sessions.** Two tasks serve a connection and either may return first. Correct
  means: the other one returns as well.
* **Listings.** The rows change between two pages, several have the same time,
  transactions commit with a time that is past. Correct means: what does not
  change is returned exactly once, and the walk ends.

`PROJECT.json` lists these as hazards, each at its line.

## 2. Modules

| module | models | state |
| --- | --- | --- |
| `Ingest` | write path and client, one topic | client documents, inboxes, reader phases, the two tables, what the broker was given |
| `TopicChannel` | abstract: what `register` promises | who listens on which channel |
| `Broker` | registration, one topic, one instance | mutex, maps, cells, permits, references |
| `Fanout` | read path, several instances | documents, writer tasks, receivers' queues, NATS buffers and subscriptions, the tables |
| `Documents` | calls of the document service and Postgres under them | tables, transactions, calls, whether the process runs |
| `Gateway` | `Documents` behind the routes of `document.go` and `permission.go` | that of `Documents`, each call with the request it serves |
| `Users` | calls of the user service and Postgres under them | table, row locks, calls |
| `Accounts` | `Users` behind the routes of `user.go` and the login | how each call came in, and whether its caller still waits |
| `Listing` | the two listings against changing rows | rows, clock, cursor, what has been returned |
| `IngestProofs`, `BrokerProofs`, `FanoutProofs`, `DocumentsProofs`, `GatewayProofs`, `AccountsProofs`, `ListingProofs` | theorems about the module of that name | |
| `Minima` | least and greatest elements, for `ListingProofs` and `FanoutProofs` | |
| `MC*` | constants, symmetry and bounds for TLC; `MCFanoutInstance` also a second beginning | |

`Gateway` and `Accounts` compose a service with the handlers in front of it: a
handler's checks decide which calls reach the service, and the properties are about
what the HTTP client is told. `Fanout` is stated on top of `Broker` and `Ingest`:
how a registration gets hold of the channel's state is one step there because `Broker`
implements `TopicChannel` (making the receiver is another, since NATS messages may come
in between), and what `Ingest` does with a message is two steps there, persist and hand over, because
`Ingest` shows that the first precedes the second.

### Ingest

An operation is its offset (the yrs clock); a message is the half-open range
`lo..hi-1` of its sender's operations and a set of deleted elements. `phase[k]`
says at which await of `read` the task of connection k is: `handshake` and `hot`
are the two `select!` loops, `lookup`, `write`, `delete`, `send` the awaits of
`persist_and_broadcast_update`. Client actions are edits, connecting, leaving,
answering the server's sync step one and noticing a closed socket. A failing
query ends the task as `?` does; a crash ends all tasks and keeps the tables; a
dying writer cancels the reader only while it selects, as the token does. What the
server tells the client in its sync step one is the conversion of the inclusive,
possibly absent last offset into an exclusive bound.

### Broker and TopicChannel

The steps of `register` are those between which another task runs: look into
`topics` under its mutex, take or make the cell in `in_flight` while that mutex is
held, wait for the cell, become the initialiser, await the NATS subscription,
publish the Weak, remove the cell, set it, make a receiver, drop it. References
are modelled: a state is alive while a task, a receiver or a referenced cell has
it, and identities nobody refers to are reused. The mutex of `in_flight` is not modelled:
what is done under it has no await and is part of one step, and no task waits for `topics`
while it has it. The refinement mapping shows, for
every connection, the channel it has a receiver of.

### Fanout

An item is an insertion or a deleted element. A connection gets hold of its
instance's channel (`Connect`), makes its receiver and spawns its two tasks
(`Register`); the reader passes the client's state vector through the oneshot to the
writer, which reads operations and deletions in two queries,
sends both as sync step two, then forwards from its receiver, whose queue is a ring
of `Capacity` messages that drops the oldest. `natsOut[i]` is the buffer of
instance i's NATS client, in order: a subscription counts from when the server has
processed it, a publication is delivered to the channels subscribed by then and
is given up when the buffer is full. A channel that is dropped takes its subscription with
it, also one that is still in the buffer; there is at most one such, as only the channel
of the step that drops it has just lost its last holder. A channel that has a holder but no
receiver, because nobody is through with `register`, loses the task behind its subscription
when a message comes (broker.rs:241): it stays in use and is deaf to NATS for the rest of its
life (`Deaf`). A query may also fail between the insertion and the deletions of one message, so
that the reader ends with something stored that it has not sent. `Cancelled(k)` is the token: `handle_socket`
cancels it when one task returns, and the other sees it in its `select!` and nowhere
else, so a writer in the middle of the handshake finishes it first. A writer that waits on
the hot path does not notice by itself that the client has gone: only a send can
fail. The receiver, and with the last one the channel, goes with the writer.
Return and cancellation are one step, since the other task may be late to notice
anyway. Close frames are left out. `missed[k]` and `unheard[k]` are history: what the client
lacked when the connection registered, and what readers left over on another channel have
sent since its handshake's first query while its own channel was deaf. On one instance this
is all that a deaf channel makes its clients lose: what is sent on the channel itself needs no
NATS, and what was refused before the receiver was there is in the tables the handshake
reads. `NoGap` and `StableConverges` therefore exempt exactly `unheard[k]`.

### Documents

A call is one of the RPCs that write or read a single row, from argument checks
(service layer) to the reply; each SQL statement of the repository is an action.
Callers may pass any UUID that has been given out where a principal is meant: a guest's for
a user's and the reverse. A permission's row therefore also has its `recipient_type`
(`GuestRows`, `AsGuest`, `LevelOf`), which is set when it is inserted and which only
`UpdatePermissionGuest` looks at.
`tx[r]` is the transaction: its writes, the documents it holds a key share of, the
rows committed since its snapshot, how far a batch is. Postgres is external and
modelled as the code relies on it: deletions run under READ COMMITTED, `CreateGuest`
and `UpsertPermissionUser` under REPEATABLE READ; a statement waits for the
transactions that have written the rows it locks; inserting a row that refers to a
document takes a key share of it, which a deletion of the document waits for and an
update of its other columns does not; the NO ACTION foreign keys are checked at the
end of the DELETE; an upsert of a row committed since the snapshot is a serialization
failure; a circle of waits is broken by aborting one of its members. Two
simplifications: a statement waits for all of its rows at once, and `CreateDocument`
is one step, as no one can name the new document before it commits. A listing without
a cursor dereferences nil (`document_server.go:200`); the server has no recovery
interceptor, so `Panic` ends the process: open transactions are gone, callers are told
that the service is unavailable, and `Restart` is whoever starts the container again.
`overlapped` is history.

### Gateway

Each route's handler is an action: what it refuses itself (a guest where a user is
needed, a level that cannot be given), and the one call it makes otherwise, with its
arguments in the order the code passes them. A level goes through
`netToProtoPermissionLevel`, `pbToServicePermissionLevel` and
`serviceToRepoPermissionLevel` to the table and through their counterparts back. Requests
start at the handlers with the claims of a valid token. PUT of a permission goes by the
`principalType` of the body, whoever the id is of. The two list routes never have a cursor to pass
on the first page, and so end in `Panic`.

### Users and Accounts

Each SQL statement and each bcrypt comparison is a step. Only `ModifyPassword` has a
transaction, with `SELECT ... FOR UPDATE`; the unique indexes on name and email and the
row lock are Postgres' (external). A hash is stored as the password it is of. In
`Accounts` a call comes over HTTP or, for `ChangePassword`, which no RPC reaches
(see 4.), from inside the process as the tests do it. The caller may give up at any time,
by its own deadline or by hanging up; the service is then cancelled before its next statement
or is done before it notices. `effect` and `held` are history.

### Listing

A row is what one listing shows. A walk starts at the beginning cursor and asks for
page after page, of any size, until one is empty, while rows are created, regraded,
removed and deleted. `NOW()` is the time a transaction *began*, so a row may appear
with a time up to `Lag` ticks past. The cursor of a page is made of the last row
as the service layer has it, which for permissions has the creation time in both
fields. A request without a cursor, which the message allows, ends in phase
`panicked`.

## 3. Runs

| run | bounds | shows |
| --- | --- | --- |
| `ingest_durable` | 1 client, 2 connections, 2 operations, 1 deletion, batches up to 2, all faults; 985,418 states | `TypeOK`, `PrefixClosed`, `CaughtUpIsDurable`, `PersistedBeforeBroadcast`, and under fairness `StableConnectionDurable`: a connection that stays up gets every edit into the database |
| `ingest_partial_failure` | 1 connection, failing queries | **violation** of `PersistedIsBroadcast` |
| `broker_register` | 3 connections, 3 states, 3 cells; 35,938 states | `OneLiveState`, `LiveIsReachable`, `CellMeansNoState`; under fairness `RegisterReturns`; `ImplementsTopicChannel` |
| `fanout_instance` | 2 clients of whom 1 edits, 3 connections, 1 instance, buffers with room; from the start with 1 operation (2 connections of the editor, 1 of the other), and from 2 readers of the editor left over on a dead channel with 2 operations and 1 new connection; 113,623 states | `NoGap` at every state, and under fairness `StableConverges` and `SessionEndsWhole` |
| `fanout_repair` | 2 operations or 1 and 1 deletion, channel and NATS buffers of 1, failing queries, crashes; 925,245 states | `HandshakeRepairs`: whatever was lost, the next completed handshake brings it |
| `fanout_two_instances` | 2 instances | **violation** of `NoGap` |
| `documents_sharing` | `Gateway`: 2 documents, 1 user, 1 guest, 2 requests that overlap while 1 document has been created, batches of 2, every id with every kind of principal, failing queries, lost acknowledgements, panics; 163,659 states | `CreatorOwns`, `GuestsInSync`, `DeletedOnce`, `ResponsesAreTrue` |
| `gateway_get_document` | 1 document, 1 user, 1 request | **violation** of `GetFindsDocument` |
| `documents_batches` | `Documents`: 2 documents, batches of up to 2 in any order, 2 concurrent calls, no guests, panics; 191,924 states | `DeletedOnce`, `LoneDeletionIsDefinite` (of permissions; with guests too it is proved), and under fairness `CallsAreAnswered` |
| `accounts_calls` | 2 ids, 2 names of which one is too short, 1 email, 2 passwords of which one is unfit for a new account, 2 concurrent calls, failing queries, lost acknowledgements, deadlines; 227,556 states | `DefiniteAnswers`, `LoginIsCurrent`, `ChangeFromOld`, and under fairness `CallsEnd` |
| `listing_walk` | 3 rows, 2 ticks, lag 1, 2 levels, page sizes 0 to 3 with default 1 and maximum 2, three of the four orders; 478,760 states | `SteadyOnce`, `CursorGoesBack` |
| `listing_modified` | the fourth order: permissions by modification | **violation** of `SteadyOnce` |

Why the bounds are enough for the cases that matter: two connections are what it
takes for a client to race with itself and for a newcomer to race with a sender;
two operations and batches of two make a message that is partly novel; buffers of
one overflow at the second message; two calls are what it takes for a circle of
waits, a lost snapshot, a lost count or a lost password change; one document and one
guest are enough for a guest that races with the deletion of its document, and a second
document for a guest that is given a permission away from its own; one email makes every
second account a conflict, so that there is never more than one (accounts meet in nothing
but the unique indexes, and the proofs are for any number); a third connection is what it
takes for two left-over readers, one whose message makes a new channel deaf and one whose
message that channel then misses: `fanout_instance` begins there as well, as the way there
needs as many connections again; three rows with two times make ties within
and across page borders. What the proofs cover is not bounded at all.
Bounds beyond the values of the constants (`InBounds`) are in the MC modules: action
constraints, or conjuncts of the next-state relation where liveness is checked.
Symmetry is used in safety runs only, over sets whose members the module treats
alike. The listing runs do not check for deadlock (when the walk is over and the
clock is at its bound nothing is left to do), nor does `fanout_instance` (a client that has
used the connections it may have, and hung up, need not come back); in all others a state without a
successor would be an error.

### Fairness

Nobody is obliged to connect, edit, leave or start a call. The rest is what tokio,
Postgres and NATS do:

* `Ingest`: weak fairness of the reader's steps (tokio polls a ready task), of
  sending sync step one, of the client's answer and of its noticing a closed socket.
* `Broker`: weak fairness of each task's steps and of the NATS answer; strong
  fairness of taking the mutex when publishing and of the OnceCell's permit, both
  queues in order of arrival.
* `Fanout`: weak fairness of passing the state vector on (clients begin with it) and
  of the hand-over to the broker, of the writer's steps, of the end of a task that
  has seen the token, and of NATS delivery. That the writer's sends return
  is part of it: a client that neither reads nor closes holds its writer until TCP
  gives up.
* `Accounts`: strong fairness of a call's next step (waiters for a row are queued in
  order of arrival), weak fairness of sending the answer. Nobody has to give up.
* `Documents`: strong fairness of a call's next statement (waiters for a row are
  queued in order of arrival), weak fairness of the deadlock detector.

## 4. Findings

* `ingest_partial_failure` (read.rs:238): a message with an insertion and a deletion
  whose second query fails leaves the insertion stored and never broadcast; the
  client does not send it again because the next handshake covers it. The task spec
  asks for the two to fail together. Connected clients get it when they reconnect.
* `fanout_two_instances` (broker.rs:306): `subscribe` returns before the NATS server
  knows of it; what another instance publishes after the newcomer has read the
  tables and before that reaches neither answer nor channel.
* `gateway_get_document` (document.go:435): `GetDocument` is called with principal and
  document exchanged; every GET of a single document is answered with 404.
* `listing_modified` (document_repository.go:129): the cursor of permissions sorted by
  modification carries a creation time; rows are skipped.

Met while modelling, without a run of their own:

* A receiver that lags is not resynchronised (write.rs:369, with a TODO), so
  `StableConverges` is only claimed for buffers with room.
* The writer's two close frames (write.rs:331, 364) are futures that nobody awaits; the
  comment at write.rs:327 wants the frame sent.
* `parseServiceCursor` (document_server.go:200) dereferences an absent cursor, where
  document_service.go:230 means to replace it by the default and api-gateway.yml:81 calls it
  optional: every first page panics, and docker-compose.yml does not restart the service.
* REPEATABLE READ does not keep a document from being deleted while a permission is
  upserted, which the comment at document_repository.go:813 expects; the data stay sound
  (`documents_sharing`), and the caller is told internal error instead of not found.
* The subscriber task of a channel returns when a message finds no receiver, "this task will
  be dropped soon either way" (broker.rs:238). A registrant that has the state and no receiver
  yet keeps the channel alive, which is then deaf to NATS while it lives: what other instances
  publish, and what left-over readers of its own send, its clients get at their next handshake
  (`fanout_repair`).
* An owner's permission can be removed or overwritten and no call makes an owner again
  (document_service.go:393), where schema.sql:69 speaks of exactly one owner.
* PUT of a permission goes by the body's `principalType` (permission.go:301), unchecked: a guest
  named as a user gets a permission on a document that is not its own, where schema.sql:17
  says "guests should only be associated with one permission on one document" (POST with a
  guest's id as the user's does the same); a user named as a guest is answered with 404,
  permission or not. For a guest the document in the path is not looked at.
* Removing a guest's permission leaves the guest's row, as the TODO at
  document_repository.go:915 says, so the two tables are in sync one way only (`GuestsInSync`).
* The beginning cursor of a listing has the service's `time.Now()` (document_service.go:82),
  rows have Postgres' `NOW()`: with clocks apart the newest rows are not listed. `Listing` has
  one clock.
* DELETE /document with a document named twice is answered with 404 and deletes nothing.
* `PUT /user/{userId}` is answered with 501: the RPC is `ChangeUserPassword`, the server's
  method `ChangePassword` (user_server.go:132).
* The login signs with HS256 (auth.go:81) and the middleware accepts ES256 only
  (auth_middleware.go:68), from a header called Authentication; it also goes on to look for a
  token after it has served the login (auth_middleware.go:44).

## 5. Proofs

Every safety property that a passing run checks, invariant, action property or
refinement, is also a theorem, for any number of clients, connections, instances,
documents, users, calls and rows. Assumptions are those on the constants, named in each
module and evaluated by TLC: bounds are natural numbers (the length of a batch and the
last tick of the clock at least 1), faults are among the listed ones, the "none" values
are not members of the sets (nor is `None` a status code), the rows of the three tables
can be told apart, and there is a largest identifier, as UUIDs have 16 bytes. Five
theorems assume more and say so in their statement: what they claim is false otherwise,
or no longer what the code promises.

| theorem | assumes | because |
| --- | --- | --- |
| `PersistedIsBroadcastWithoutFaults` | no faults | `ingest_partial_failure` |
| `NothingFallsThrough` | one instance; no failing queries; `[]Room`: no receiver a whole ring behind, and a reader that sends on a dead channel finds room in the NATS buffer | `fanout_two_instances`; `ingest_partial_failure`; a receiver that lags loses messages, and is repaired only by its next handshake |
| `LoneDeletions` | no failing queries | a failed query is an internal error |
| `CursorsGoBack`, `SteadyRowsOnce` | `Sound`: not permissions by modification | `listing_modified` |

No property but the simplest type invariants is inductive. Before each proof TLC checked
the inductive invariant itself as an invariant, on the configurations of the runs or
smaller ones.

**IngestProofs**: `TypeCorrect`, `PrefixClosedAlways`, `CaughtUpAlways`,
`PersistedBeforeBroadcastAlways`, all with all faults, and
`PersistedIsBroadcastWithoutFaults`. That an insert leaves no hole depends on every
message still in flight, and on the lookup that was made for the current one. `IInv`
therefore adds `StreamInv`. For each running connection (`ConnInv`): the bound the
server announced is held by the table; at most one sync step two is in the stream; once
it has been read, what the task has looked up and what the current message begins with
is held; and every message begins no later than where the one before it ends. For the
client that uses it (`ClientInv`): the stream ends at the client's clock, and the
client's deletions are in the table or in the stream. `SentHeld` says the same of what
the broker was given. The lemmas `HoldsGrows`, `HoldsLess`, `LastHolds` and `WriteHolds`
say what the tables' operations do to "the table holds everything below n", and then
there is one lemma per action; actions of other connections are dealt with by frame
lemmas, because the table only grows. `PersistedIsBroadcast` is, without faults,
preserved by every step: `HandsOver(k)` says that what connection k holds between
storing and sending it still holds after the step or has sent, `HandsOverKeeps` that
this and a holder for every new row are enough, and the only task that ends does so
while it selects.

**BrokerProofs**: `TypeCorrect`, `OneLiveStateAlways`, `LiveIsReachableAlways`,
`CellMeansNoStateAlways` and `Refinement` (`Spec => ImplementsTopicChannel`). The
inductive invariant says who holds the mutex and what it has seen remains true
(`LockInv`), that an initialiser has the permit of an empty cell that is in the map
until it removes it (`InitialiserInv`), that a new state is the only live one
(`CreatorInv`), and that a waiter's empty cell is in the map or about to be filled
(`WaiterInv`). Every step then maps to a join, a leave or a stutter.

**FanoutProofs**: `FanoutTypeCorrectness`, `HandshakeRepaired`, `NothingFallsThrough`.
`ConnInv` says what a connection has while its tasks run. `SyncInv` follows the
handshake: while the writer waits, the document has everything below the state vector it
sent (`VectorFacts`: the offset a document reports is the end of its first run without a
hole); after the first query, what was missed is in the document, in the answer, or in
the deletions table; after the second, in the document. The tables and documents only
grow, so nothing other connections do disturbs it. `NInv` is about one instance: who
sent a message has applied it (`MsgInv`); the receivers of an instance are on one
channel (`ChanInv`); and every
row is in the document, in the answer under way, in the receiver's queue, with a reader
that has yet to send it, among the commands for NATS *behind* the channel's subscription,
or was sent on another channel while this one was deaf (`GapInv`). The order in the buffer is what the argument turns on: a reader whose
channel has died and been replaced reaches the new channel only by NATS, and does
because the new one's subscription is ahead of the message, or the new one is deaf and has
neither. A delivery ends no subscription of a channel that has a receiver, so a connection past
its first query becomes deaf no more. `AppendCarries`,
`TailCarries` and `RemoveCarries` say that publishing, delivering and unsubscribing keep
this. TLC checked `FInv` on 3.52 million states (`fanout_repair` with
2 operations and 1 deletion) and both on those of
`fanout_instance`.

**DocumentsProofs**: `DocumentsTypeCorrectness`, `OwnedByCreator`,
`PermissionsOfGuests`, `DeletionsOnce`, `LoneDeletions`. `DInv` has three parts besides the types.
`OwnInv`, of each call: what its transaction has written at each statement, which rows
are therefore locked, that what a deletion has finished with has no reference left in
what it reads, and that nobody is about to grant "owner". `Together`, of each two calls:
no row is written by both, and no document is shared by one and deleted by the other, so
what one has found stays true until it commits. `Tables`: every reference leads to a
row, and whoever has a permission is a user or a guest that has been made. `GuestsInSync` is a
part of `DInv` too; it is kept because an upsert leaves a row's `recipient_type` as it is
(`Granting`) and a new guest is known to nobody but its creator. From the second part a
commit changes only rows no other transaction relies on. The
lemmas on steps take calls with any further fields, which is why they serve the gateway
too. `LoneDeletions` adds `LoneInv`: a call nobody has overlapped is the only one, and
once a deletion has executed a statement on permissions or on guests, none refers to the
document any more. TLC checked `DInv` and `LoneInv` on the states of `documents_batches` and,
with a guest, on 109,276 of one document.

**GatewayProofs**: `GatewayTypeCorrectness`, `GatewayOwners`, `GatewayGuests`,
`GatewayDeletionsOnce`, `TruthfulResponses`. `DInv` holds behind the handlers, as what
they call can be called (`Callable`); `HttpInv` says that the call under way is the one
the handler makes of its request, and `StoredIsNamed` and `ShownIsStored` that the three
renamings of a level are the identity in each direction. A response is then true because
the service's answer is. TLC checked `GInv` on the states of `documents_sharing`.

**AccountsProofs**: `TypeCorrectness`, `AnswersDefinite`, `LoginDecidedByCurrent`,
`ChangesFromOld`. A change is right because who is between `SELECT ... FOR UPDATE` and
the commit has the row lock (`LockInv`) and what it has read is what the row has
(`HoldInv`); an answer because a call that still works has had no effect (`WorkInv`) and
one that is answered had what it says (`AnswerInv`); a login because what was read is
among what the account has had since the call began (`LoginInv`).

**ListingProofs**: `ListingTypeCorrectness` (in every order), `CursorsGoBack`,
`SteadyRowsOnce`. A page is the beginning of what is left in the order of the listing,
so its last row divides what is left: what is on the page is no longer before the new
cursor, the rest is. `WInv` says that the steady rows shown so far are exactly those the
cursor has passed. That a page has a last row is the least-element lemma of `Minima`,
which stands in for induction over the length of the page. TLC checked `WInv` on the
478,760 states of `listing_walk`.

Only model-checked: liveness (`StableConnectionDurable`, `RegisterReturns`,
`StableConverges`, `SessionEndsWhole`, `CallsAreAnswered`, `CallsEnd`), since fairness
and ENABLED are out of the prover's reach; and what the four violation runs show.

## 6. Not modelled, and the plan

Not modelled: start-up, configuration and telemetry; generated code (protobuf, sqlc,
the OpenAPI router); tokens and the authentication middleware (at this commit no token the
login issues is accepted, so a composition would leave every other route unreachable); the
deployment and the observability stack; terminal rendering and the load generator's timing;
undecodable frames; `GetUserByEmail`, which nobody calls; the multirange columns that
hold delete sets (a set of elements here); the clocks of service and database being apart.
yrs is external: documents are sets of operations, and that
merging converges is its promise.

Next:

1. `Deletions`: the multirange representation of delete sets (postgres.rs 69-99,
   346-428) against a set of elements, with the bounds at its ends.
2. Several instances: which of `NoGap`'s losses are left once every subscription is known to NATS.
