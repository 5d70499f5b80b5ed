--------------------------- MODULE InboundRouting ---------------------------
(***************************************************************************)
(* The inbound path of the connectors plugin: messages that webhooks and   *)
(* pollers hand to DeliveryRunner, the asyncio tasks that run              *)
(* DeliveryExecutor.route_inbound, and the transactions in which they find *)
(* or create the room of the two participants and insert the message.      *)
(*                                                                         *)
(* One pair of participants; other pairs share only the semaphore.  The    *)
(* transactions are READ COMMITTED: a query sees the rows committed before *)
(* it.  Echoes of outbound messages are in OutboundDelivery.  All arrivals *)
(* fall within INBOUND_DEDUP_WINDOW_SECONDS, and messages are not deleted. *)
(* Identities are not modelled: what a query says of the recipient's is    *)
(* chosen each time.                                                       *)
(***************************************************************************)
EXTENDS Naturals, FiniteSets

CONSTANTS
    Arrivals,            \* calls of enqueue_message with an InboundMessage
    External,            \* the external_id of each
    Key,                 \* the idempotency key of each, or NoKey
    NoKey,
    NoRoom,
    MaxTasks,            \* delivery.max_concurrent_tasks
    INBOUND_MAX_RETRIES, \* len(INBOUND_RETRY_DELAYS)
    MaxFaults            \* how many faults of each kind a behaviour has

\* "database": it fails under a query, an INSERT or the COMMIT; "process": the
\* process is killed.
FaultKinds == {"database", "process"}

ASSUME InboundAssumption ==
    /\ IsFiniteSet(Arrivals)
    /\ NoRoom \notin Arrivals
    /\ MaxTasks \in Nat \ {0}
    /\ INBOUND_MAX_RETRIES \in Nat
    /\ MaxFaults \in [FaultKinds -> Nat]

VARIABLES
    pc,      \* where the processing of each arrival is
    attempt, \* its attempt number
    target,  \* the room its transaction has found or created
    rooms,   \* committed rooms of the pair, named after their creators
    faults,  \* faults still to come
    overlap, \* history: pairs of one key processed at the same time
    unseen   \* history: arrivals whose key was known when it was looked up, but
             \* not for an identity of the recipient

history == <<overlap, unseen>>
vars == <<pc, attempt, target, rooms, faults, overlap, unseen>>

\* Not taken from the AsyncQueue; waiting for the semaphore; for a timer.
Ahead == {"idle", "waiting", "retry"}
\* Past the duplicate check; in the locked section of _get_or_create_room after
\* find_room; before add_message; waiting in its INSERT for another
\* transaction; flushed and announced.
Working == {"resolve", "create", "insert", "blocked", "flushed"}
\* The message is committed; dropped as a duplicate; dropped because a task with
\* the same key is in flight or for want of a recipient; failed.
Over == {"stored", "duplicate", "ignored", "lost"}

InTask(a) == pc[a] \in Working \cup {"waiting"}
Locked == \E a \in Arrivals : pc[a] = "create"

\* Mutant: one slot too many.
OneSlotMore == Cardinality({a \in Arrivals : pc[a] \in Working}) <= MaxTasks

\* async with self.semaphore
SlotFree == Cardinality({a \in Arrivals : pc[a] \in Working}) < MaxTasks

\* Processed at least once and not over: in a transaction or to be retried.
Open(a) == pc[a] \in Working \cup {"retry"} \/ (pc[a] = "waiting" /\ attempt[a] > 0)

Stored == {a \in Arrivals : pc[a] = "stored"}
Goto(a, s) == pc' = [pc EXCEPT ![a] = s]

SameId(a, b) == a # b /\ External[a] = External[b]
SameKey(a, b) == a # b /\ Key[a] = Key[b] /\ Key[a] # NoKey

Spend(kind) ==
    /\ faults[kind] > 0
    /\ faults' = [faults EXCEPT ![kind] = @ - 1]

InboundTypeOK ==
    /\ pc \in [Arrivals -> Ahead \cup Working \cup Over]
    /\ attempt \in [Arrivals -> 0 .. INBOUND_MAX_RETRIES]
    /\ target \in [Arrivals -> Arrivals \cup {NoRoom}]
    /\ rooms \subseteq Arrivals
    /\ faults \in [FaultKinds -> Nat]
    /\ overlap \subseteq SUBSET Arrivals
    /\ unseen \subseteq Arrivals

Init ==
    /\ pc = [a \in Arrivals |-> "idle"]
    /\ attempt = [a \in Arrivals |-> 0]
    /\ target = [a \in Arrivals |-> NoRoom]
    /\ rooms = {}
    /\ faults = MaxFaults
    /\ overlap = {}
    /\ unseen = {}

-----------------------------------------------------------------------------
\* _schedule_inbound: the key of a task is (backend, external_id, attempt).
Twin(a) == \E b \in Arrivals : SameId(a, b) /\ attempt[b] = attempt[a] /\ InTask(b)
ScheduleInbound(a) == Goto(a, IF Twin(a) THEN "ignored" ELSE "waiting")

\* _dispatch takes the message from the AsyncQueue.
Dispatch(a) ==
    /\ pc[a] = "idle"
    /\ ScheduleInbound(a)
    /\ UNCHANGED <<attempt, target, rooms, faults, history>>

\* The callback of _schedule_inbound_later.
TimerFires(a) ==
    /\ pc[a] = "retry"
    /\ ScheduleInbound(a)
    /\ UNCHANGED <<attempt, target, rooms, faults, history>>

\* check_duplicate_idempotency_key looks for the key among the messages of the
\* tenant that has registered the recipient with the backend and the type of
\* the message.  _resolve_inbound_room asks for neither, so that a message to a
\* number of another type gets that far without being compared.
KnownKey(a, registered) == registered /\ \E b \in Stored : SameKey(a, b)

\* The message goes on; the others of its key that are being processed have
\* not been compared with it, nor the stored ones if the check missed them.
PassCheck(a, missed) ==
    /\ Goto(a, "resolve")
    /\ overlap' = overlap \cup {{a, b} : b \in {c \in Arrivals : Open(c) /\ SameKey(a, c)}}
    /\ unseen' = IF missed THEN unseen \cup {a} ELSE unseen

\* Mutant: the check is made by retries and not by the first attempt.
CheckRetries(a) ==
    /\ pc[a] = "waiting"
    /\ SlotFree
    /\ IF attempt[a] > 0 /\ KnownKey(a, TRUE)
       THEN Goto(a, "duplicate") /\ UNCHANGED history
       ELSE PassCheck(a, FALSE)
    /\ UNCHANGED <<attempt, target, rooms, faults>>

\* The task gets the semaphore and opens its transaction; the check is made
\* on the first attempt only.
CheckDuplicate(a) ==
    /\ pc[a] = "waiting"
    /\ SlotFree
    /\ \E registered \in BOOLEAN :
          IF attempt[a] = 0 /\ KnownKey(a, registered)
          THEN Goto(a, "duplicate") /\ UNCHANGED history
          ELSE PassCheck(a, attempt[a] = 0 /\ KnownKey(a, TRUE))
    /\ UNCHANGED <<attempt, target, rooms, faults>>

\* 'No wazo user found for recipient %s'
DropUnknownRecipient(a) ==
    /\ pc[a] = "resolve"
    /\ Goto(a, "ignored")
    /\ UNCHANGED <<attempt, target, rooms, faults, history>>

\* _get_or_create_room enters the lock of the participants, up to the answer of
\* find_room: scalar_one_or_none raises when there are several rooms.  The lock
\* is kept to create one.
FindRoom(a) ==
    /\ pc[a] = "resolve"
    /\ ~Locked
    /\ \/ /\ rooms = {}
          /\ Goto(a, "create")
          /\ UNCHANGED target
       \/ \E r \in rooms :
            /\ rooms = {r}
            /\ Goto(a, "insert")
            /\ target' = [target EXCEPT ![a] = r]
       \/ /\ Cardinality(rooms) > 1
          /\ Goto(a, "lost")
          /\ UNCHANGED target
    /\ UNCHANGED <<attempt, rooms, faults, history>>

\* Mutant: the room is committed while the lock is held.
CommitRoomEarly(a) ==
    /\ pc[a] = "create"
    /\ Goto(a, "insert")
    /\ target' = [target EXCEPT ![a] = a]
    /\ rooms' = rooms \cup {a}
    /\ UNCHANGED <<attempt, faults, history>>

\* create_room flushes the room; the lock is released before the COMMIT.
CreateRoom(a) ==
    /\ pc[a] = "create"
    /\ Goto(a, "insert")
    /\ target' = [target EXCEPT ![a] = a]
    /\ UNCHANGED <<attempt, rooms, faults, history>>

\* The transactions of the same external id that have passed their INSERT.
Flushed(a) == {b \in Arrivals : SameId(a, b) /\ pc[b] = "flushed"}
Refuse(a, s) == Goto(a, s) /\ target' = [target EXCEPT ![a] = NoRoom]

\* Mutants: an uncommitted insertion is not seen (1) or refuses the message
\* already (2), a duplicate is not recognised (3), a failed transaction keeps
\* its index entry (4).
InsertUnseen(a) ==
    /\ pc[a] \in {"insert", "blocked"}
    /\ IF \E b \in Stored : SameId(a, b) THEN Refuse(a, "duplicate")
       ELSE Goto(a, "flushed") /\ UNCHANGED target
    /\ UNCHANGED <<attempt, rooms, faults, history>>
InsertRefused(a) ==
    /\ pc[a] \in {"insert", "blocked"}
    /\ IF \E b \in Stored \cup Flushed(a) : SameId(a, b) THEN Refuse(a, "duplicate")
       ELSE Goto(a, "flushed") /\ UNCHANGED target
    /\ UNCHANGED <<attempt, rooms, faults, history>>
InsertRaises(a) ==
    /\ pc[a] \in {"insert", "blocked"}
    /\ Flushed(a) = {}
    /\ IF \E b \in Stored : SameId(a, b) THEN Refuse(a, "lost")
       ELSE Goto(a, "flushed") /\ UNCHANGED target
    /\ UNCHANGED <<attempt, rooms, faults, history>>
InsertLeaked(a) ==
    /\ pc[a] \in {"insert", "blocked"}
    /\ Flushed(a) = {}
    /\ ~\E b \in Arrivals : SameId(a, b) /\ pc[b] = "lost"
    /\ IF \E b \in Stored : SameId(a, b) THEN Refuse(a, "duplicate")
       ELSE Goto(a, "flushed") /\ UNCHANGED target
    /\ UNCHANGED <<attempt, rooms, faults, history>>

\* add_message: the unique index on (external_id, backend) refuses what is
\* committed, and waits for what is not.  A refused INSERT rolls back the
\* transaction, with the room it has created.
InsertMessage(a) ==
    /\ pc[a] \in {"insert", "blocked"}
    /\ \/ /\ \E b \in Stored : SameId(a, b)
          /\ Refuse(a, "duplicate")
       \/ /\ Flushed(a) # {}
          /\ pc[a] = "insert"
          /\ Goto(a, "blocked")
          /\ UNCHANGED target
       \/ /\ Flushed(a) = {}
          /\ ~\E b \in Stored : SameId(a, b)
          /\ Goto(a, "flushed")
          /\ UNCHANGED target
    /\ UNCHANGED <<attempt, rooms, faults, history>>

\* async_session_scope commits the message and the room.
CommitMessage(a) ==
    /\ pc[a] = "flushed"
    /\ Goto(a, "stored")
    /\ rooms' = rooms \cup {target[a]}
    /\ UNCHANGED <<attempt, target, faults, history>>

\* Mutant: the number of attempts has no limit.
RetryForever(a) ==
    /\ pc[a] \in {"insert", "blocked"}
    /\ Spend("database")
    /\ Refuse(a, "retry")
    /\ attempt' = [attempt EXCEPT ![a] = @ + 1]
    /\ UNCHANGED <<rooms, history>>

\* _db_persist_or_delay: the INSERT fails and is retried from the start, with
\* nothing left of the transaction.
InsertFails(a) ==
    /\ pc[a] \in {"insert", "blocked"}
    /\ Spend("database")
    /\ IF attempt[a] < INBOUND_MAX_RETRIES
       THEN Refuse(a, "retry") /\ attempt' = [attempt EXCEPT ![a] = @ + 1]
       ELSE Refuse(a, "lost") /\ UNCHANGED attempt
    /\ UNCHANGED <<rooms, history>>

\* 'Failed to process %s': any other failure ends the task.
ProcessFails(a) ==
    /\ \/ pc[a] = "waiting" /\ SlotFree /\ attempt[a] = 0 /\ Key[a] # NoKey
       \/ pc[a] \in {"resolve", "create", "insert", "flushed"}
    /\ Spend("database")
    /\ Refuse(a, "lost")
    /\ UNCHANGED <<attempt, rooms, history>>

\* The process is killed: what it had received and not committed is gone.
Crash ==
    /\ Spend("process")
    /\ pc' = [a \in Arrivals |-> IF pc[a] \in Over \cup {"idle"} THEN pc[a] ELSE "lost"]
    /\ target' = [a \in Arrivals |-> IF pc[a] = "stored" THEN target[a] ELSE NoRoom]
    /\ UNCHANGED <<attempt, rooms, history>>

TaskStep(a) ==
    \/ CheckDuplicate(a)
    \/ DropUnknownRecipient(a)
    \/ FindRoom(a)
    \/ CreateRoom(a)
    \/ InsertMessage(a)
    \/ CommitMessage(a)

Next ==
    \/ \E a \in Arrivals :
          \/ Dispatch(a)
          \/ TimerFires(a)
          \/ TaskStep(a)
          \/ InsertFails(a)
          \/ ProcessFails(a)
    \/ Crash

Spec == Init /\ [][Next]_vars

\* The loop runs what is ready, timers fire and the database answers.
FairSpec ==
    /\ Spec
    /\ \A a \in Arrivals :
         WF_vars(TimerFires(a)) /\ WF_vars(TaskStep(a))

-----------------------------------------------------------------------------
\* At most one message of a backend is stored per external id, however often
\* the backend delivers it and whichever attempts fail in between.
OneMessagePerExternalId ==
    \A a, b \in Stored : a # b => External[a] # External[b]

\* A message is dropped as a duplicate only if its twin is committed: an
\* insertion that is still uncommitted, or was rolled back, drops nothing.
DuplicateOfStored ==
    \A a \in Arrivals : pc[a] = "duplicate" =>
        \E b \in Stored : SameId(a, b) \/ SameKey(a, b)

\* Two messages with one idempotency key are both stored only if they were
\* processed at the same time (the check and the INSERT are not atomic, and
\* a retry does not check again), or if the second one was for a number that
\* was not registered with its backend and type when it was checked.
KeyRepeatedByOverlap ==
    \A a, b \in Stored : SameKey(a, b) => {a, b} \in overlap \/ a \in unseen \/ b \in unseen

\* A room the inbound path has created holds a message: the room of a message
\* that was refused, rolled back or dropped goes with it.
NoEmptyRoom == \A r \in rooms : \E a \in Stored : target[a] = r

\* The inbound path creates at most one room per concurrent task for a pair of
\* participants, however many messages arrive.
RoomsPerPair == Cardinality(rooms) <= MaxTasks

\* A message fails only if the database or the process did, or if its
\* participants have several rooms.
LostOnlyByFault ==
    (\E a \in Arrivals : pc[a] = "lost") => faults # MaxFaults \/ Cardinality(rooms) > 1

\* Every message whose task is scheduled is eventually stored, dropped or given
\* up with a log entry, whoever holds the lock, a slot or the unique index.
Handled == \A a \in Arrivals : pc[a] = "waiting" ~> pc[a] \in Over
=============================================================================
