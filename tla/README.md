# TLA+ verification of wazo-chatd

wazo-chatd keeps the presence of users and their chat rooms, and carries messages
between rooms and external providers (SMS and the like) through *connectors*.
This directory models the parts of it in which threads, an asyncio loop, PostgreSQL
and remote services meet: the modules are checked with TLC on small instances, and
their main properties are proved with TLAPS for every value of the constants.

Paths below are relative to `wazo_chatd/`.

## The system

| Component | State | Operations | What is hard |
|---|---|---|---|
| Outbound delivery: `plugins/connectors/runner.py` (`DeliveryRunner`), `executor.py`, `database/queries/async_/room.py` | rows of `chatd_message_delivery` and their records; `_tasks`, `_scheduled_outbound_timers`, the semaphore, the LISTEN connection | an HTTP request commits a PENDING row and a NOTIFY; the listener schedules a task; the task locks the row, sends, records; a failed send is retried after a delay; status updates and echoes write to the same row; a scan after (re)connection recovers | lost notifications, crash between send and commit, rows locked by others, budgets of retries, two writers of one status |
| Inbound routing: `runner.py`, `executor.py`, `plugin_helpers/async_lock.py` | `_tasks`, `_scheduled_timers`, rooms and messages, the lock per set of participants | `_dispatch` schedules a task per message; the task checks the idempotency key, finds or creates the room, inserts the message, retries | one message delivered several times, a lock that ends before the transaction, roll-backs |
| `AsyncQueue` (`plugin_helpers/queue.py`) | a deque and a future | `append` in any thread, iteration in the loop, `reset` | no lock: every bytecode interleaves |
| Connector store (`plugins/connectors/store.py`) | cache with expiry, fetches under way, epochs | `get`, `populate`, `drop`, `peek`, `items` | several threads fetch and drop one key |
| Cache invalidation (`router.py`, `bus_consume.py`, `_synchronize_pollers`) | bus events, posted callbacks, pollers | events of wazo-auth and changes of identities drop keys and resynchronize the pollers | check-then-act across threads, a stale instance in a poller |
| Router and webhooks (`router.py`, `plugins/connectors/http.py`) | none of its own | tries the backends, instantiates the connector of the recipient's tenant, enqueues what it verified | a webhook brings back a connector that a deletion drops |
| Listener runner (`ListenerRunner`) | listener tasks per key | `resync` from any thread, `_reconcile` in the loop | the snapshot is taken in the calling thread; tasks created while a loop closes |
| Runner life cycle (`Runner`) | thread, loop, back-off | start, shutdown, restart | stop while waiting for the store, one future for two waiters, restart after failure |
| Cadence (`cadence.py`, `helpers.py`) | interval and failure count of a poller | next delay | bounds |
| Rooms and messages over HTTP (`plugins/rooms`, `database/queries/room.py`) | rooms, participants, messages | create, list, send; reachability check | a duplicate check that is not atomic |
| Identities (`plugins/connectors/services.py`, `database/queries/user_identity.py`) | one table | CRUD, then the router's reconciliation, then the commit | the store changes before the transaction ends; refused requests commit |
| Presence initialization (`plugins/presences/initiator.py`, `initiator_thread.py`) | tables of users, lines, sessions... | fetch from four services, apply, retry | events that arrive meanwhile |
| Presence events (`plugins/presences/bus_consume.py`) | delayed callbacks | delay, drop or apply an event | whether an event is covered by a fetch |
| Teams presence (`plugins/teams_presence`) | renewers, subscriptions | create and delete by events, renew | a deletion handled while a creation awaits, two renewers of one subscription, errors that nothing retries |
| Controller, threads (`controller.py`, `thread_manager.py`, `asyncio_.py`) | threads | start and stop in order | none beyond the order |
| Bus, auth client, HTTP server, configuration, status, migrations | none that matters here | wrappers of libraries | none |

How they interact: an HTTP request commits rows, and only PostgreSQL's NOTIFY and the
recovery scan carry them to `DeliveryRunner`; webhooks and pollers reach the runner
through `AsyncQueue`; the executor takes connector instances from the store; bus events
and identity changes go through the router to the store and, by posted callbacks, to the
pollers of the runner's loop. `PROJECT.json` lists every component with its files, and
under `hazards` what can go wrong in each at the line where it bites.

What makes each correct, in a sentence: a pending delivery is never forgotten and an
acknowledged one not sent again; an inbound message is stored once and never dropped for
nothing; the queue loses no item and no wake-up; the store never resurrects what was
dropped; a poller of a dropped key is stopped; a room is unique for its participants;
after an initialization the presence tables equal what the services said, with every
later event applied; a user that is connected to Teams has exactly one live subscription; a
listener runs exactly for the keys that the store has; a connector is instantiated
exactly while somebody has an identity of it.

## The modules

| Module | Models | Extends |
|---|---|---|
| `DeliveryLifecycle` | what the outbound path promises: the states of a delivery, the requests on their way, what the backend has, what a client may list | |
| `OutboundDelivery` | rows, NOTIFY, listener, scan, outbound tasks and timers, reports | instance of `DeliveryLifecycle` |
| `InboundRouting` | inbound tasks, room lock, unique index, retries | |
| `AsyncQueue` | the queue, one shared access at a time | |
| `ConnectorStore` | the store, for one key | |
| `CacheInvalidation` | the store composed with events, identities and the poller | `ConnectorStore` |
| `ConnectorRunners` | both runner threads from start to stop, the wait for the store, the listeners | |
| `IdentityRequests` | requests on identities, rooms, messages and webhooks with their transactions | |
| `TeamsSubscription` | one user's Teams subscription: events, service, renewers, Microsoft | |
| `PresenceInit` | the presence tables, the initialization thread, the bus consumer thread | |
| `MCOutboundDelivery`, `MCInboundRouting`, `MCPresenceInit` | values of the constants for TLC | |
| `...Proofs` | the theorems about all of them: those of `ConnectorStore` are in `CacheInvalidationProofs`, the implementation of `DeliveryLifecycle` is proved in `OutboundDeliveryProofs` | `TLAPS` |

The other modules need no `MC` module: their constants are sets that a `.cfg` can write.

**DeliveryLifecycle.** The abstract specification of a delivery: no tasks, connection or
restart. A change of state may come in any order, because the executor does not look at the
state it replaces; what is promised is which record may be written at all: ACCEPTED, SENT and
FAILED only of a message the backend has, RETRYING only within the budget, nothing for a row that
is gone. A send begins only for a stored row (`Begin`), but its request arrives whenever it does
(`Transmit`), the row still there or not. `Confirm` (an echo) asks nothing of the backend: this is
all that can be promised of DELIVERED. What other participants may list (`visible`) grows only by
a report or an echo and lasts until the row is deleted. `OutboundDelivery` implements it under
`state <- status`, `retries <- retryCount`, `sending <- wire`, `sent <- provider`; all that
changes nothing of these is a stutter.

**OutboundDelivery.** A row is its latest committed record (`status`), its retry count and
whether it has an external id; contents, tenants, backends and delays are left out (a timer
fires at any time after it is armed). Each transaction of `_process_outbound_delivery` is the
sequence claim, send, flush, commit, with the SELECT FOR UPDATE SKIP LOCKED as the predicate
`Locked`; an INSERT of a status record takes its id before its foreign-key check blocks, so
two writers of a row are ordered by `older`, and a record overtaken by a newer one is `stale`.
`connector.send` runs in a thread of its own (`asyncio.to_thread`), which no cancellation,
time-out, roll-back or deletion calls back: `StartSend` puts the request on the `wire`, and
`ProviderAccepts` takes it from there at any time, whatever has become of the task, its lock and
its row. A status update finds its delivery by external id, an echo by room and signature, newest
first (`FoundBySignature`): the echo of an equal text that the sender wrote before may be taken for
the one of this delivery, sent or not, so that an echo comes at any time.
`RunnerFails`, `RunnerStops` and `Crash` are the ways a runner ends. `PreparePendingDelivery`
takes a set because `prepare_pending_delivery` takes a list; the service of today passes one
recipient.

**InboundRouting.** One pair of participants, the arrivals being calls of `enqueue_message`.
A task waits for the semaphore, checks its key (first attempt only, and only if the recipient is
registered with the backend and the type of the message: the resolution of the room asks for
neither, so that a message to a number of another type passes unseen), finds or creates the room
under the lock and inserts. Transactions are READ COMMITTED: `FindRoom` sees `rooms`, the
committed ones, and the INSERT waits for another uncommitted row of the same external id
(`Flushed`). A room exists when the transaction of a message that uses it commits; a failed
INSERT, or a refused one, takes the room with it. Echoes (`find_matching_signature`) belong to
`OutboundDelivery`.

**AsyncQueue.** The deque is its length. A producer's local `wake` is the future that is in
`_wake` now, or an old one nobody awaits any more.

**ConnectorStore.** An instance is the version of the configuration it was built from. The
actions are the sections between lock operations and the request to wazo-auth. `floor`
remembers what wazo-auth held at the last drop.

**CacheInvalidation.** One bus consumer thread and one request thread run the check, the drop
and the posting of a resync as three steps; posted callbacks run in turn in the loop.
History variables (`missed`, `refused`) tell which error path was taken, so that the
invariants can say exactly when a stale instance or poller is possible.

**ConnectorRunners.** One key whose connector listens. `main` is where `ConnectorRouter.start`
and `stop` are, `phase` where each thread is between `_entrypoint`, `_run`, the cancellation of
what is left and the back-off. `populate` is the populate thread and the future `_populated`,
which both runners await: when one is cancelled while it waits, the future is cancelled for the
other. A caller of `resync` evaluates `self.loop`, takes the snapshot and posts it in three
steps; the loop runs posted snapshots in turn, in any phase. `stuck` is a listener task created
while the loop of a crash was being closed.

**IdentityRequests.** One tenant and backend. A request is `stage` and `job`; what it has
written is in the job until `Commit`, so `identity` is what others read (READ COMMITTED).
`RowTaken` is the wait for a row, `Shared` the lock that the foreign key of a message takes,
`Awaits` the wait in the unique index for a value that is `InDoubt`. An UPDATE has two steps:
`UpdateRow` takes the row, `PlaceValue` passes the index, which it may have to wait for with the
row held. `DeadlockDetected` is PostgreSQL's detector: one of the updates that wait in a `Circle`
fails. What a request does to the connector store is not undone by a failed commit.
`teardown_appcontext` commits when an exception has become a response, which is why the UPDATE of
a value refused with 400 is made all the same. A creation's row is a fresh uuid, which is named by
its request (`Uuids`); `Rows` are the rows that there may be at first. `rooms` counts the rooms of each set of
participants. The histories `astray` and `raced` collect what overlapped. A message is here for
its lock on the sender's row; the number it goes to is read once and written to the row, and
nothing promises that it is still its recipient's when it is sent.

**TeamsSubscription.** One user, since users share only a dictionary. Each call of
`create_subscription` is a member of `Calls` and brings one renewer of the same name; `stage`
goes from the await of the configuration to the end of the renewer's task. Requests on the
`wire` belong to pool threads, so the POST of a cancelled renewer still reaches Microsoft.
`transaction` is that of the loop thread's session, which nothing ends. The histories `missed`,
`failed`, `robbed` and `overtaken` say: an error lost a connection, an error ended a renewer,
another renewer deleted its subscription, a deletion was handled while the call awaited.
Microsoft is modelled after the mock of the integration tests.

**PresenceInit.** The tables are a set of facts: that a row exists, that an endpoint is
available, that a user is in do-not-disturb. `truth` is what wazo-auth, wazo-confd and asterisk
hold, `rows` what the committed tables state; `Owners` gives the rows a fact hangs on by foreign
keys. A server changes a fact and publishes its event in one step, answers a listing in one
step, and all events come in one FIFO queue. The initialization thread is `phase` and `step`:
it resets the milestones, raises `_in_progress`, fetches the six listings, marking each, applies
them in one transaction per table, replays the delayed callbacks and lowers the flag; a failure
makes it start over after a delay, and the end of the timeout retries stops the daemon. The
consumer reads `_in_progress`, then the milestone, then appends, drops or applies, with the other
thread running in between. `_callbacks_delayed` is never emptied by the code, nor by the model.
`LeftRows` is what an earlier process left in the tables, so that a crash followed by a start is
an initial state. The history `doubt` collects the facts hit by one of five windows: an event
dropped between the answer of a server and its mark (or dropped after an earlier event about the
same fact was delayed); an event delayed when the replay has already ended; a callback of an
earlier attempt replayed; an event or a listed row whose owner was missing, or whose deletion
took others along; a restart of asterisk ignored because an initialization was running.
`Converged` says that these are all: without any one of the rules that feed `doubt`, TLC finds a
counterexample.

## What the runs check

| Run | Instance | Shows |
|---|---|---|
| `outbound_safety` | one delivery, a status update and an echo, two slots, one retry, each of six faults once | `Custody`: a PENDING or RETRYING row is always in a task, a timer, a NOTIFY or a scan to come, except after a logged error path. `RetryBudget`: a RETRYING row has used between one and all of its retries. `ResendOnlyByRecovery`: an acknowledged message is sent again only if a scan found it. `ToldTruly`: ACCEPTED, SENT and FAILED are told only of a message the backend has, DELIVERED also of one that was taken for an echoed one. `ImplementsLifecycle`: the refinement |
| `outbound_live` | two deliveries, one slot, no retries, one loss of the connection | `Settles`: both leave PENDING and RETRYING |
| `outbound_dropped` | one delivery, one status update, every fault once | `SettlesUnlessDropped`: only logged error paths leave a delivery behind |
| `outbound_delivered` | two status updates | violated: `DeliveredIsFinal` |
| `inbound` | four arrivals (one repeats an external id, one a key), two slots, one retry, two database faults, a crash | `OneMessagePerExternalId`, `DuplicateOfStored`, `KeyRepeatedByOverlap`, `NoEmptyRoom`, `RoomsPerPair`, `LostOnlyByFault`, and `Handled`: every message comes to an end |
| `queue` | three producers of two calls, maxsize 1, one restart | `NoLostWakeup`, `PopHasItem`, `Overshoot` (exact bound), `Drains` |
| `invalidation` | two threads, two configurations, one failure, one identity created and one deleted | `NoStaleAfterDrop`, `OneLeader`, `StaleOnlyIfMissed`, `PollerStops`, `FollowersReturn` |
| `presence` | a tenant, its user, a line and a channel, from empty tables or from all four rows; two changes, a restart of asterisk, one failed or timed-out request | `OwnersPresent`: no step leaves a row without its owner. `ServedWhenReady`: presences are served only while no initialization runs. `Converged`: at rest the tables equal the servers but for the facts in `doubt`. `ExactWhenCalm`: an undisturbed initialization is exact, whatever was in the tables. `Completes`: an initialization ends |
| `teams` | three calls of `create_subscription`, one fault (any error, a lost database connection or a restart) | `OneRenewer`: one renewer works and the registration finds it. `Settled`: at rest the subscription follows the account but for the histories. `NotificationsEnd`: Microsoft stops notifying after a disconnection |
| `runners` | two callers of `resync`, two changes of the store that a resync follows and one that none follows, one fault (a crash, a listener that ends, a failed listing or fetch, a join that times out) | `Listening`: the runner listens for the keys that the store has. `ListenersNeedDelivery`: no listener outlives the delivery runner. `Closes`: a runner told to close ends. `Starts`: once a token is there the runners get to work |
| `identities` | two requests of any kind, two users, two valid numbers and an invalid one, two rows, one failed commit, event, refusal or listing | `ConnectorFollowsIdentities`: between requests the connector is instantiated exactly while there is an identity, but for `astray`. `RoomsRepeatByOverlap`: two rooms of the same participants need two requests creating them at once (a room of an inbound message is not counted). `RequestsEnd`: every request ends, two PUTs that swap their values included |
| `identity_refused` | the same | violated: `ValidIdentities` |

`PROJECT.json` names for each property of a passing run a plausible bug that breaks it: an
operator marked `Mutant:` beside the definition it replaces.

*Bounds.* Deliveries interact only through the semaphore and a shared NOTIFY payload, which
two show; writers of one row are the task, a status update and an echo, which one delivery
has. One fault of each kind gives every order of a pair of faults; one retry has both sides of
the comparison with the budget. In `inbound`, m2 repeats the external id of m1 and m4 the key
of m3, so every pair of arrivals stands in one of the relations the code looks at (same id,
same key, only the same room), and with two slots three rooms would need a slot too many. The
queue needs two producers for a lost wake-up and a third for the bound on the overshoot to be
more than one. Two threads make a leader and a follower. In `presence`, the line shares a listing
with its user and the channel, as a session does, hangs on rows of another listing; two changes
make an event follow or undo another, and one failure is enough to replay the callbacks of an
earlier attempt. `TimeoutRetries` is 0, so that a timeout stops the daemon. In `teams`, three calls are a
connection, a reconnection that overlaps it and one more, or the listing of a restart against
two events. In `runners`, two callers are what it takes to post snapshots in the wrong order,
and two changes with a resync and one without give every order of being dropped and cached
again. In `identities` each hazard lies between two transactions; every request is made once,
from every initial table, so that two PUTs can swap the values of two rows: without
`DeadlockDetected`, `RequestsEnd` is violated. `outbound_live` has no retries, since what could
starve a delivery is the other one in its slot; `outbound_dropped` has them. The theorems remove every bound but
those of the liveness properties. `CHECK_DEADLOCK` is off since each instance may rest when its
bounded inputs are used up.

*Fairness.* The loop runs what is ready; timers fire; the threads are scheduled; PostgreSQL
answers; `connector.send` returns or raises; the client of wazo-auth has a timeout; a stopped
service is started again by its supervisor. No fairness is assumed of the environment: of
requests, events, webhooks, faults, or of a provider that accepts or reports. In
`ConnectorRunners` the threads and loops run, cancelled listeners end and the fetch of the store
has a timeout, but no token need ever come. In `IdentityRequests` a request goes on whenever the
database lets it, and the database ends a deadlock; in `TeamsSubscription` requests to Microsoft are answered and a subscription
that nobody renews expires. In `PresenceInit` the two threads run and requests are answered or fail; the servers may do nothing. In
`OutboundDelivery` the fair action of a task is the disjunction of its steps, so the choice
between sending and failing stays free.

## What the violated runs say

- `DeliveredIsFinal`: `route_status_update` reads the status without a lock
  (`plugins/connectors/executor.py:284`); a concurrent older update can be recorded over DELIVERED.
- `ValidIdentities`: `IdentityItemResource.put` changes the object of the session
  (`plugins/connectors/http.py:198`) before the service validates it. The exception of a refused
  value has become a 400 response when `teardown_appcontext` (`http_server.py:23`) is called, so
  the changed object is committed with the value that was refused.

## Known behaviours that the passing properties bound

The code does what follows by its structure; the property named says exactly how far it goes.

- A recovery scan that fails (`plugins/connectors/runner.py:431`) is not repeated while the
  connection holds, so a lost NOTIFY waits for the next one: `Custody`, `SettlesUnlessDropped`.
- An echo is matched with the newest message of its room that has its text
  (`plugins/connectors/executor.py:200`), so the echo of a first "ok" marks a second one DELIVERED,
  and shows it to the other participants, that may never have been sent: `ToldTruly`.
- A send goes on in its thread (`plugins/connectors/executor.py:549`) when its task has been
  cancelled or timed out and its lock is gone; the message may reach the backend after its row was
  deleted, or twice: `ResendOnlyByRecovery` counts acknowledgements, `ImplementsLifecycle` lets a
  request arrive at any time.
- The idempotency key of a message to a number that is not registered with its backend and type
  is never found (`database/queries/async_/room.py:238`), so it is stored each time it comes:
  `KeyRepeatedByOverlap`.
- Two PUTs that swap the values of two identities deadlock in the database, and one is answered
  500 (`database/queries/user_identity.py:84` catches `IntegrityError` only): `RequestsEnd`.
- `invalidate_backend_cache` (`plugins/connectors/router.py:190`) looks at the cache before it
  drops: an event during the first fetch of a key marks nothing: `StaleOnlyIfMissed`.
- `_synchronize_pollers` (`plugins/connectors/runner.py:586`) compares keys, so a key dropped and
  cached again keeps its poller on the old instance. `PollerStops` is about a key that is gone.
- The lock of `_get_or_create_room` (`plugins/connectors/executor.py:439`) is released before the
  commit; the next message of the pair may create another room, and `find_room` raises from then
  on: `RoomsPerPair`, `LostOnlyByFault`. Two POSTs at once likewise: `RoomsRepeatByOverlap`. That
  the HTTP and the inbound path race for a room is in no model.
- Snapshots of two callers of `resync` may be applied in the wrong order, a fetch that no resync
  follows is not seen, and a listener task created while the loop of a crash is closing is never
  replaced: `Listening`.
- An error while the identities are listed leaves both runners waiting for ever: `Starts`. A stop
  before the store is populated ends both runners at once: `ListenersNeedDelivery`.
- Two deletions of the last two identities of a backend leave the connector instantiated:
  `ConnectorFollowsIdentities`.
- A Teams renewer that failed stays registered, a deletion that overtakes a creation leaves a
  renewer of an account that is gone, the renewer of the connection before deletes the
  subscription of a quick reconnection, and after one lost database connection every later
  creation raises: `Settled`.

## What is proved

| Module | Theorems | Inductive invariant, and why it is needed |
|---|---|---|
| `OutboundDeliveryProofs` | `TypeCorrect`, `CustodyHolds`, `RetryBudgetHolds`, `OneTokenHolds`, `ResendOnlyByRecoveryHolds`, `LifecycleImplemented`, `ToldTrulyHolds` | `Custody` and `OneToken` are inductive with `TypeOK`; that a message is not sent twice needs the exclusion of task, timer and NOTIFY. The budget needs `RetryRoom`: a record that has been flushed as RETRYING still has a retry to use. The refinement goes step by step (`LifecycleStep`) and needs `RowInv`: the row that a task or a report works on is there, a task that has an acknowledgement to record has its message with the backend, and so has a delivery that a status update names. `ToldTruly` follows from the same invariant by an induction of its own |
| `InboundRoutingProofs` | `InboundTypeCorrect`, `IdsStoredOnce`, `DuplicatesAreStored`, `KeysRepeatOnlyByOverlap`, `RoomsHoldMessages`, `RoomsAreBounded`, `LossesHaveACause` | `IndexHolds`: not only stored messages but flushed ones have different ids. `Met`: of two messages with one key that have passed the check, both are noted as overlapping or one as unseen. `RoomKnown`: a transaction's room is its own or committed. `RoomBound`: committed rooms and rooms under creation together fit in the slots, since a room is created only while none is committed |
| `AsyncQueueProofs` | `NoLostWakeupHolds`, `PopHasItemHolds`, `OvershootHolds` | `WakePublished`: only the consumer replaces the future it awaits. `OvershootInv` counts the producers that have passed the check with the items |
| `CacheInvalidationProofs` | `NoStaleAfterDropHolds`, `OneLeaderHolds`, `ImplementsStore`, `StaleOnlyIfMissedHolds`, `PollerStopsHolds` | of the store, `LeaderFresh`: an instance whose epoch has not moved is not older than the last drop. Every step is a step of the store or leaves it alone; `EventsCover`: an instance lags behind wazo-auth by no more versions than there are events to be handled |
| `TeamsSubscriptionProofs` | `TeamsTypeCorrect`, `OneRenewerHolds`, `SettledHolds` | `OneRenewer` is inductive with the type. `SettledInv` has four parts: the last event on its way tells the state of the account (`LastTells`), a renewer that keeps a subscription holds the one there is (`KeepersHold`), the registered renewer works (`RegisteredWorks`), and once all events are handled what is left is allowed (`Handled`); at rest they give `Settled` |
| `ConnectorRunnersProofs` | `RunnersTypeCorrect`, `ListenersNeedDeliveryHolds`, `ListeningHolds` | `Hosted`: a listener that runs has a loop. `Order`: how far the main thread is says how far each runner can be. For `Listening`, `Reconciled`: while `_run` is at work and no two calls of `resync` overlapped, at most one snapshot is on its way; unless a change was `unseen`, it is of the store as it is now, and with none on its way the listener matches the store |
| `IdentityRequestsProofs` | `RequestsTypeCorrect`, `ConnectorFollowsIdentitiesHolds`, `RoomsRepeatByOverlapHolds` | `RowsHeld`: a row that is there has one writer, from the moment its UPDATE holds it, and one that is updated stays there. `RoomsCreated`: a room is being created only where there is none, or two requests race. `StoreFollows`: while nothing has parted the store from the rows, at most one request works on it, and the store is where that request has brought it |
| `PresenceInitProofs` | `PresenceTypeCorrect`, `RowsHaveOwners`, `ServedOnlyWhenReady`, `CalmInitIsExact`, `ConvergedHolds` | `FlagsInPhase` ties the two flags to the phase. `CalmInv`: while nothing disturbs, the answers in hand equal the truth, and each table is right once its transaction has run, since `OwnersFirst` (computed from `ApplyOrder` and `ForeignKeys`) puts owners before what hangs on them. `Leads`: afterwards the events still in the queue lead from the rows to the truth. `FactsInv`, for `Converged`: a fact that is not in `doubt` is followed from the server to the tables, the last word on it being true, wherever it is: the last event in the queue (`EventsRight`), with none the last delayed callback (`DelayedRight`), with none the answer in hand (`AnswersRight`), and with nothing under way the row (`TablesRight`) |

The assumptions are those named in the modules: finite sets of actors, limits that are natural
numbers, at least one slot, and, in `IdentityRequests`, that fresh uuids are none of the rows there
were and that `None` is no identity. Nothing else is assumed.

Every invariant and action property of the passing runs is stated by a theorem. Only
model-checked are the liveness properties (`Settles`, `SettlesUnlessDropped`, `Handled`, `Drains`,
`FollowersReturn`, `Completes`, `NotificationsEnd`, `Closes`, `Starts`, `RequestsEnd`), since
fairness and ENABLED are out of the prover's reach.

## What is not modelled, and what is left to do

1. `PresenceInit`, extended: the values kept in a row (whether a session is mobile, the state of a
   channel), a line given to another user, exceptions that end the thread without resetting
   `_started`, listings in several pages (what is created between two pages shifts the offsets).
2. `KeyedLock`: the asyncio lock with its waiters and cancellation, as a refinement of the
   predicate `Locked` of `InboundRouting`; a waiter that is cancelled after the lock was released
   to it leaves its entry in the dictionary.
3. The restart of a runner with inbound tasks and retry timers in flight: `ConnectorRunners` has
   the restart and `InboundRouting` the tasks.
4. Several keys, backends and tenants in `ConnectorRunners` and `IdentityRequests`: `populate` and
   its batches, the choice of a backend for a webhook.
5. What a caller that joins a fetch gets: the fetch may have read the configuration from before a
   drop (`plugins/connectors/store.py:216`).

Left out for good: the contents of messages and signatures; delays and time windows (a timer may
fire at any time, all arrivals are within the window of the key check, an echo may or may not be
within its window, the cadence of the pollers); logging; bus notifications (nothing in the program
reads them back; that they are published before the commit is listed as a hazard); reads and
listings that change nothing; the validation of requests beyond what the hazards need; migrations,
and the wrappers of libraries.
