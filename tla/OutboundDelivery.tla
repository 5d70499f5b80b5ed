-------------------------- MODULE OutboundDelivery --------------------------
(***************************************************************************)
(* The outbound path of the connectors plugin: the delivery rows an HTTP   *)
(* request commits, the PostgreSQL NOTIFY that announces them, the         *)
(* listener of DeliveryRunner with its catch-up scan, the asyncio tasks    *)
(* and timers that carry a delivery to the backend, and the status reports *)
(* and echoes that write to the same rows.                                 *)
(*                                                                         *)
(* A row is abstracted to its latest committed record (status), its        *)
(* retry_count and whether its external_id is set.  Message contents,      *)
(* tenants, backends and delays are left out: a timer may fire at any      *)
(* time after it is armed.                                                 *)
(***************************************************************************)
EXTENDS Naturals, FiniteSets

CONSTANTS
    Deliveries,           \* ids of chatd_message_delivery rows
    Reports,              \* what the backend may tell about them, see Report
    MaxTasks,             \* delivery.max_concurrent_tasks
    OUTBOUND_MAX_RETRIES, \* len(OUTBOUND_RETRY_DELAYS)
    INBOUND_MAX_RETRIES,  \* len(INBOUND_RETRY_DELAYS)
    MaxFaults             \* how many faults of each kind a behaviour has

\* "link": the LISTEN connection breaks; "runner": a critical task of _run
\* raises, or the runner is told to close; "process": the process is killed;
\* "scan", "task", "report": the database fails under _recover,
\* _process_outbound_delivery or the processing of a report.
FaultKinds == {"link", "runner", "process", "scan", "task", "report"}

\* A status update names the status it maps to; an echo (a message the sender
\* wrote coming back as an inbound one) confirms the delivery it matches.
Reported == {"sent", "delivered", "failed"}
Report == [kind : {"status", "echo"}, delivery : Deliveries, status : Reported]

ASSUME OutboundAssumption ==
    /\ IsFiniteSet(Deliveries)
    /\ Reports \subseteq Report
    /\ IsFiniteSet(Reports)
    /\ \A r \in Reports : r.kind = "echo" => r.status = "delivered"
    /\ MaxTasks \in Nat \ {0}
    /\ OUTBOUND_MAX_RETRIES \in Nat
    /\ INBOUND_MAX_RETRIES \in Nat
    /\ MaxFaults \in [FaultKinds -> Nat]

VARIABLES
    status,     \* latest committed DeliveryRecord.status of each row
    retryCount, \* committed MessageDelivery.retry_count
    external,   \* is MessageDelivery.external_id set?
    visible,    \* rows with a committed DELIVERED record, which lets the other
                \* participants list the message
    provider,   \* has the backend got the message at least once?
    wire,       \* deliveries whose request to the backend is on its way
    notes,      \* NOTIFY payloads on their way to the LISTEN connection
    link,       \* the LISTEN connection: "none", "up", "lost" (not noticed)
    runner,     \* where DeliveryRunner is, see RunnerState
    scanned,    \* result of the recovery scan: "none", "now" or "later"
    gathered,   \* the tasks _shutdown waits for
    task,       \* the task under ('outbound_delivery', id) in _tasks
    timer,      \* is there a handle in _scheduled_outbound_timers?
    report,     \* processing of each report
    attempt,    \* its attempt number
    older,      \* uncommitted records inserted before a writer's own
    stale,      \* reports whose uncommitted record has been overtaken
    faults,     \* faults still to come
    dropped,    \* history: deliveries an error path let go of
    recovered,  \* history: deliveries a recovery scan put back in hand
    acks        \* history: sends the backend acknowledged (0, 1, 2 or more)

row == <<status, retryCount, external, visible>>
backend == <<provider, wire>>
loop == <<notes, link, runner, scanned, gathered>>
work == <<task, timer>>
reporting == <<report, attempt>>
uncommitted == <<older, stale>>
history == <<dropped, recovered, acks>>
vars == <<status, retryCount, external, visible, provider, wire, notes, link, runner,
          scanned, gathered, task, timer, report, attempt, older, stale, faults, dropped,
          recovered, acks>>

(***************************************************************************)
(* DeliveryStatus, with the rows not yet inserted and the ones deleted.    *)
(***************************************************************************)
Status == {"absent", "pending", "accepted", "retrying", "dead_letter", "sent",
           "delivered", "failed", "deleted"}

\* What get_recoverable_deliveries selects.
Recoverable(d) == status[d] \in {"pending", "retrying"}

\* "down": not started, in _wait_backoff, or the process is gone; "drain":
\* _shutdown waits for the tasks in flight; then the four places of
\* _listen_for_deliveries.
RunnerState == {"down", "drain", "connect", "scan", "enqueue", "monitor"}
Running == runner \in {"connect", "scan", "enqueue", "monitor"}

\* A task waits for the semaphore ("queued"), holds the row and looks up the
\* connector ("claimed"), is in connector.send ("sending"), has flushed a
\* record it has not committed (one of Outcome), or has committed a RETRYING
\* record and is about to arm the timer ("rearm").  "exhausted" is the
\* DEAD_LETTER record of _record_send_failure, "dead_letter" the others.
Outcome == {"accepted", "retrying", "dead_letter", "exhausted"}
TaskState == {"none", "queued", "claimed", "sending", "rearm"} \cup Outcome

\* A report is unknown, enqueued (or waiting to be retried), has read the
\* row, waits in its INSERT for the row lock, holds it, or is over.
ReportState == {"idle", "waiting", "read", "blocked", "flushed", "done"}

\* Mutant: the row is read without FOR UPDATE.
Unlocked(d) == FALSE /\ d \in Deliveries

\* SELECT ... FOR UPDATE of get_message_delivery, held until the transaction
\* ends; it conflicts with the foreign key check of an INSERT of a record.
Locked(d) == task[d] \in {"claimed", "sending"} \cup Outcome
KeyShared(d) == \E r \in Reports : r.delivery = d /\ report[r] = "flushed"

\* async with self.semaphore
SlotFree ==
    Cardinality({d \in Deliveries : task[d] \notin {"none", "queued"}})
      + Cardinality({r \in Reports : report[r] \in {"read", "blocked", "flushed"}})
    < MaxTasks

Spend(kind) ==
    /\ faults[kind] > 0
    /\ faults' = [faults EXCEPT ![kind] = @ - 1]

Inserted(d) == {r \in Reports : r.delivery = d /\ report[r] \in {"blocked", "flushed"}}

TypeOK ==
    /\ status \in [Deliveries -> Status]
    /\ retryCount \in [Deliveries -> Nat]
    /\ external \in [Deliveries -> BOOLEAN]
    /\ visible \subseteq Deliveries
    /\ provider \in [Deliveries -> BOOLEAN]
    /\ wire \subseteq Deliveries
    /\ notes \subseteq SUBSET Deliveries
    /\ link \in {"none", "up", "lost"}
    /\ runner \in RunnerState
    /\ scanned \in [Deliveries -> {"none", "now", "later"}]
    /\ gathered \subseteq Deliveries
    /\ task \in [Deliveries -> TaskState]
    /\ timer \in [Deliveries -> BOOLEAN]
    /\ report \in [Reports -> ReportState]
    /\ attempt \in [Reports -> 0 .. INBOUND_MAX_RETRIES]
    /\ older \in [Deliveries \cup Reports -> SUBSET Reports]
    /\ stale \subseteq Reports
    /\ faults \in [FaultKinds -> Nat]
    /\ dropped \subseteq Deliveries
    /\ recovered \subseteq Deliveries
    /\ acks \in [Deliveries -> 0 .. 2]

Init ==
    /\ status = [d \in Deliveries |-> "absent"]
    /\ retryCount = [d \in Deliveries |-> 0]
    /\ external = [d \in Deliveries |-> FALSE]
    /\ visible = {}
    /\ provider = [d \in Deliveries |-> FALSE]
    /\ wire = {}
    /\ notes = {}
    /\ link = "none"
    /\ runner = "down"
    /\ scanned = [d \in Deliveries |-> "none"]
    /\ gathered = {}
    /\ task = [d \in Deliveries |-> "none"]
    /\ timer = [d \in Deliveries |-> FALSE]
    /\ report = [r \in Reports |-> "idle"]
    /\ attempt = [r \in Reports |-> 0]
    /\ older = [w \in Deliveries \cup Reports |-> {}]
    /\ stale = {}
    /\ faults = MaxFaults
    /\ dropped = {}
    /\ recovered = {}
    /\ acks = [d \in Deliveries |-> 0]

-----------------------------------------------------------------------------
(***************************************************************************)
(* The database and the HTTP side.                                         *)
(***************************************************************************)

\* RoomDAO.prepare_pending_delivery: one message, the PENDING deliveries of
\* its recipients and pg_notify, in the transaction of the request.  The
\* payload reaches only a connection that listens when it commits.
PreparePendingDelivery(S) ==
    /\ S # {}
    /\ \A d \in S : status[d] = "absent"
    /\ status' = [d \in Deliveries |-> IF d \in S THEN "pending" ELSE status[d]]
    /\ notes' = IF link = "up" THEN notes \cup {S} ELSE notes
    /\ UNCHANGED <<retryCount, external, visible, backend, link, runner, scanned, gathered,
                   work, reporting, uncommitted, faults, history>>

\* The message, its room or its tenant is deleted; DELETE waits for the
\* transactions that lock the row.
DeleteDelivery(d) ==
    /\ status[d] \notin {"absent", "deleted"}
    /\ ~Locked(d)
    /\ ~KeyShared(d)
    /\ status' = [status EXCEPT ![d] = "deleted"]
    /\ visible' = visible \ {d}
    /\ UNCHANGED <<retryCount, external, backend, loop, work, reporting, uncommitted,
                   faults, history>>

-----------------------------------------------------------------------------
(***************************************************************************)
(* The listener: _listen_for_deliveries and what it calls.                 *)
(***************************************************************************)

\* Runner._thread_target enters _run, which resets the loop state.
StartRunner ==
    /\ runner = "down"
    /\ runner' = "connect"
    /\ UNCHANGED <<row, backend, notes, link, scanned, gathered, work, reporting,
                   uncommitted, faults, history>>

\* asyncpg.connect and add_listener; a failure only repeats the attempt.
ConnectAndListen ==
    /\ runner = "connect"
    /\ runner' = "scan"
    /\ link' = "up"
    /\ UNCHANGED <<row, backend, notes, scanned, gathered, work, reporting,
                   uncommitted, faults, history>>

\* Mutant: the scan selects PENDING rows only.
ScanPendingOnly ==
    /\ runner = "scan"
    /\ runner' = "enqueue"
    /\ scanned' = [d \in Deliveries |-> IF status[d] = "pending" THEN "now" ELSE "none"]
    /\ UNCHANGED <<row, backend, notes, link, gathered, work, reporting, uncommitted,
                   faults, history>>

\* _recover up to the end of the session: recover_pending_deliveries gives a
\* RETRYING row its delay and a PENDING one none.
RecoverScan ==
    /\ runner = "scan"
    /\ runner' = "enqueue"
    /\ scanned' = [d \in Deliveries |->
                     CASE status[d] = "pending" -> "now"
                       [] status[d] = "retrying" -> "later"
                       [] OTHER -> "none"]
    /\ UNCHANGED <<row, backend, notes, link, gathered, work, reporting, uncommitted,
                   faults, history>>

\* 'Recovery scan failed, continuing without recovery'
RecoverFails ==
    /\ runner = "scan"
    /\ Spend("scan")
    /\ runner' = "monitor"
    /\ dropped' = dropped \cup {d \in Deliveries : Recoverable(d)}
    /\ UNCHANGED <<row, backend, notes, link, scanned, gathered, work, reporting,
                   uncommitted, recovered, acks>>

\* _schedule_outbound_delivery for every id of S: a key of _tasks is skipped.
Schedule(S) ==
    [d \in Deliveries |-> IF d \in S /\ task[d] = "none" THEN "queued" ELSE task[d]]

\* The loop of _recover over what the scan returned, which does not await.
\* An armed timer is replaced by the new one.
RecoverEnqueue ==
    LET now == {d \in Deliveries : scanned[d] = "now"}
        later == {d \in Deliveries : scanned[d] = "later"}
    IN  /\ runner = "enqueue"
        /\ runner' = "monitor"
        /\ task' = Schedule(now)
        /\ timer' = [d \in Deliveries |-> timer[d] \/ d \in later]
        /\ scanned' = [d \in Deliveries |-> "none"]
        /\ dropped' = dropped \ (now \cup later)
        /\ recovered' = recovered \cup now \cup later
        /\ UNCHANGED <<row, backend, notes, link, gathered, reporting, uncommitted,
                       faults, acks>>

\* Mutant: only the first id of the payload is scheduled.
NotifyFirstOnly(S) ==
    /\ S \in notes
    /\ link = "up"
    /\ notes' = notes \ {S}
    /\ task' = Schedule({CHOOSE d \in S : TRUE})
    /\ dropped' = dropped \ S
    /\ UNCHANGED <<row, backend, link, runner, scanned, gathered, timer, reporting,
                   uncommitted, faults, recovered, acks>>

\* _on_delivery_notify: every id of the payload is scheduled.
OnDeliveryNotify(S) ==
    /\ S \in notes
    /\ link = "up"
    /\ notes' = notes \ {S}
    /\ task' = Schedule(S)
    /\ dropped' = dropped \ S
    /\ UNCHANGED <<row, backend, link, runner, scanned, gathered, timer, reporting,
                   uncommitted, faults, recovered, acks>>

\* The connection breaks: what it had not delivered is lost, and nobody
\* knows before the next ping.
LinkLost ==
    /\ link = "up"
    /\ Spend("link")
    /\ link' = "lost"
    /\ notes' = {}
    /\ UNCHANGED <<row, backend, runner, scanned, gathered, work, reporting,
                   uncommitted, history>>

\* Mutant: the listener reconnects by itself, without the catch-up scan.
ReconnectWithoutScan ==
    /\ runner = "monitor"
    /\ link = "lost"
    /\ link' = "up"
    /\ UNCHANGED <<row, backend, notes, runner, scanned, gathered, work, reporting,
                   uncommitted, faults, history>>

\* The ping of _monitor_listen_connection fails; the loop reconnects.
MonitorFails ==
    /\ runner = "monitor"
    /\ link = "lost"
    /\ runner' = "connect"
    /\ link' = "none"
    /\ UNCHANGED <<row, backend, notes, scanned, gathered, work, reporting,
                   uncommitted, faults, history>>

-----------------------------------------------------------------------------
(***************************************************************************)
(* Outbound tasks and timers.                                              *)
(***************************************************************************)

\* Mutant: the handle stays armed after the callback.
TimerRepeats(d) ==
    /\ timer[d]
    /\ task' = Schedule({d})
    /\ dropped' = dropped \ {d}
    /\ UNCHANGED <<row, backend, loop, timer, reporting, uncommitted, faults,
                   recovered, acks>>

\* The callback of _schedule_outbound_delivery_later.
TimerFires(d) ==
    /\ timer[d]
    /\ timer' = [timer EXCEPT ![d] = FALSE]
    /\ task' = Schedule({d})
    /\ dropped' = dropped \ {d}
    /\ UNCHANGED <<row, backend, loop, reporting, uncommitted, faults, recovered, acks>>

\* _process_outbound_delivery gets the semaphore and locks the row.  The
\* status of the row is not looked at.
ClaimDelivery(d) ==
    /\ task[d] = "queued"
    /\ SlotFree
    /\ status[d] # "deleted"
    /\ ~KeyShared(d)
    /\ task' = [task EXCEPT ![d] = "claimed"]
    /\ UNCHANGED <<row, backend, loop, timer, reporting, uncommitted, faults, history>>

\* 'Delivery %s unavailable (already in flight or removed), skipping': SKIP
\* LOCKED passes over a row that the INSERT of a record shares.
SkipDelivery(d) ==
    /\ task[d] = "queued"
    /\ SlotFree
    /\ status[d] = "deleted" \/ KeyShared(d)
    /\ task' = [task EXCEPT ![d] = "none"]
    /\ dropped' = dropped \cup {d}
    /\ UNCHANGED <<row, backend, loop, timer, reporting, uncommitted, faults,
                   recovered, acks>>

\* _persist_status up to its flush: the new record is the latest one, the
\* reports that inserted theirs before are older.
Flush(d, outcome) ==
    /\ task' = [task EXCEPT ![d] = outcome]
    /\ older' = [older EXCEPT ![d] = Inserted(d)]

\* Mutant: the budget is compared before the increment.
RetryOnceMore(d) ==
    Flush(d, IF retryCount[d] > OUTBOUND_MAX_RETRIES THEN "exhausted" ELSE "retrying")

\* _record_send_failure
RecordSendFailure(d) ==
    Flush(d, IF retryCount[d] + 1 > OUTBOUND_MAX_RETRIES THEN "exhausted" ELSE "retrying")

\* The sender identity is gone or the backend is not available.
DeadLetter(d) ==
    /\ task[d] = "claimed"
    /\ Flush(d, "dead_letter")
    /\ UNCHANGED <<row, backend, loop, timer, reporting, stale, faults, history>>

\* AuthServiceUnavailableException while the connector is looked up.
AuthUnavailable(d) ==
    /\ task[d] = "claimed"
    /\ RecordSendFailure(d)
    /\ UNCHANGED <<row, backend, loop, timer, reporting, stale, faults, history>>

\* Mutant: the send is not awaited, and ACCEPTED recorded at once.
SendInBackground(d) ==
    /\ task[d] = "claimed"
    /\ Flush(d, "accepted")
    /\ wire' = wire \cup {d}
    /\ UNCHANGED <<row, provider, loop, timer, reporting, stale, faults, history>>

\* The connector is found and connector.send is called, in a thread of its
\* own: asyncio.to_thread.
StartSend(d) ==
    /\ task[d] = "claimed"
    /\ task' = [task EXCEPT ![d] = "sending"]
    /\ wire' = wire \cup {d}
    /\ UNCHANGED <<row, provider, loop, timer, reporting, uncommitted, faults, history>>

\* The request reaches the backend, at any time: nothing calls it back when
\* connector.send times out, its task is cancelled or rolled back, the
\* process dies or the row is deleted meanwhile.  It may also never arrive.
ProviderAccepts(d) ==
    /\ d \in wire
    /\ wire' = wire \ {d}
    /\ provider' = [provider EXCEPT ![d] = TRUE]
    /\ UNCHANGED <<row, loop, work, reporting, uncommitted, faults, history>>

\* connector.send returns the external id: its request has arrived.
SendReturns(d) ==
    /\ task[d] = "sending"
    /\ d \notin wire
    /\ Flush(d, "accepted")
    /\ acks' = [acks EXCEPT ![d] = IF @ = 2 THEN 2 ELSE @ + 1]
    /\ UNCHANGED <<row, backend, loop, timer, reporting, stale, faults, dropped,
                   recovered>>

\* connector.send raises, whether or not the backend got the message.
SendFails(d) ==
    /\ task[d] = "sending"
    /\ RecordSendFailure(d)
    /\ UNCHANGED <<row, backend, loop, timer, reporting, stale, faults, history>>

RecordStatus(outcome) == IF outcome = "exhausted" THEN "dead_letter" ELSE outcome

\* async_session_scope commits the record, retry_count and external_id; the
\* row lock is released and a task without a retry to arm is over.
CommitDelivery(d) ==
    /\ task[d] \in Outcome
    /\ status' = [status EXCEPT ![d] = RecordStatus(task[d])]
    /\ retryCount' = [retryCount EXCEPT
                        ![d] = IF task[d] \in {"retrying", "exhausted"} THEN @ + 1 ELSE @]
    /\ external' = [external EXCEPT ![d] = @ \/ task[d] = "accepted"]
    /\ task' = [task EXCEPT ![d] = IF @ = "retrying" THEN "rearm" ELSE "none"]
    /\ stale' = stale \cup older[d]
    /\ older' = [older EXCEPT ![d] = {}]
    /\ UNCHANGED <<visible, backend, loop, timer, reporting, faults, history>>

\* _schedule_outbound_delivery_later after the commit of a RETRYING record.
ArmRetry(d) ==
    /\ task[d] = "rearm"
    /\ task' = [task EXCEPT ![d] = "none"]
    /\ timer' = [timer EXCEPT ![d] = TRUE]
    /\ dropped' = dropped \ {d}
    /\ UNCHANGED <<row, backend, loop, reporting, uncommitted, faults, recovered, acks>>

\* An exception leaves async_session_scope, which rolls back: the task is
\* over and nothing is scheduled.
ProcessFails(d) ==
    /\ Locked(d)
    /\ Spend("task")
    /\ task' = [task EXCEPT ![d] = "none"]
    /\ older' = [older EXCEPT ![d] = {}]
    /\ dropped' = dropped \cup {d}
    /\ UNCHANGED <<row, backend, loop, timer, reporting, stale, recovered, acks>>

-----------------------------------------------------------------------------
(***************************************************************************)
(* Status updates (route_status_update) and echoes (_confirm_delivery).    *)
(***************************************************************************)

\* enqueue_message, by a webhook or a poller.  The backend tells the status
\* of a message it has got; the echo that will be taken for this delivery may
\* be the one of an equal text the sender wrote before, and come at any time.
ReceiveReport(r) ==
    /\ report[r] = "idle"
    /\ r.kind = "status" => provider[r.delivery]
    /\ report' = [report EXCEPT ![r] = "waiting"]
    /\ UNCHANGED <<row, backend, loop, work, attempt, uncommitted, faults, history>>

\* A status update finds its delivery by external id.
FoundByExternalId(r) == r.kind = "status" /\ external[r.delivery]

\* An echo finds the newest message of its room with its signature (the
\* sender's identity and the text), whether or not that message was ever
\* sent: r.delivery is the delivery of the message it is matched with.
FoundBySignature(r) == r.kind = "echo"

Found(r) ==
    /\ status[r.delivery] \notin {"absent", "deleted"}
    /\ FoundByExternalId(r) \/ FoundBySignature(r)

\* A status update may name the id of a send before the last one, an echo may
\* come after ECHO_WINDOW_SECONDS.
MayMiss(r) == r.kind = "echo" \/ acks[r.delivery] > 1

\* The task of a report gets the semaphore, reads the delivery and drops the
\* report or goes on to persist it; _shutdown waits for the ones _dispatch has
\* created.
ReadReport(r) ==
    /\ report[r] = "waiting"
    /\ runner # "down"
    /\ SlotFree
    /\ \/ /\ Found(r)
          /\ status[r.delivery] # "delivered"
          /\ report' = [report EXCEPT ![r] = "read"]
       \/ /\ \/ ~Found(r)
             \/ status[r.delivery] = "delivered"
             \/ MayMiss(r)
          /\ report' = [report EXCEPT ![r] = "done"]
    /\ UNCHANGED <<row, backend, loop, work, attempt, uncommitted, faults, history>>

\* _persist_status: the INSERT takes its record id, then checks the foreign
\* key, which waits for an outbound task that holds the row.
InsertRecord(r) ==
    /\ report[r] = "read"
    /\ status[r.delivery] # "deleted"
    /\ report' = [report EXCEPT ![r] = IF Locked(r.delivery) THEN "blocked" ELSE "flushed"]
    /\ older' = [older EXCEPT ![r] = Inserted(r.delivery)]
    /\ UNCHANGED <<row, backend, loop, work, attempt, stale, faults, history>>

\* The outbound task is over: the INSERT goes on.
UnblockReport(r) ==
    /\ report[r] = "blocked"
    /\ status[r.delivery] # "deleted"
    /\ ~Locked(r.delivery)
    /\ report' = [report EXCEPT ![r] = "flushed"]
    /\ UNCHANGED <<row, backend, loop, work, attempt, uncommitted, faults, history>>

\* _filter_visible_messages: a record that lets the other participants list
\* the message.
Shown(s) == s = "delivered"

\* The record becomes visible; it is the status of the row unless a record
\* inserted after it has been committed before.
CommitReport(r) ==
    /\ report[r] = "flushed"
    /\ report' = [report EXCEPT ![r] = "done"]
    /\ status' = IF r \in stale THEN status ELSE [status EXCEPT ![r.delivery] = r.status]
    /\ visible' = IF Shown(r.status) THEN visible \cup {r.delivery} ELSE visible
    /\ stale' = (stale \cup older[r]) \ {r}
    /\ older' = [w \in Deliveries \cup Reports |-> IF w = r THEN {} ELSE older[w] \ {r}]
    /\ UNCHANGED <<retryCount, external, backend, loop, work, attempt, faults, history>>

\* The transaction of a report is rolled back.  _db_persist_or_delay retries
\* the status update whose INSERT failed; anything else is logged.
RollBackReport(r, again) ==
    /\ report' = [report EXCEPT ![r] = IF again THEN "waiting" ELSE "done"]
    /\ attempt' = [attempt EXCEPT ![r] = IF again THEN @ + 1 ELSE @]
    /\ stale' = stale \ {r}
    /\ older' = [w \in Deliveries \cup Reports |-> IF w = r THEN {} ELSE older[w] \ {r}]

MayRetry(r) == r.kind = "status" /\ attempt[r] < INBOUND_MAX_RETRIES

\* The INSERT fails: the delivery was deleted meanwhile, or the database
\* failed.
InsertFails(r) ==
    /\ report[r] \in {"read", "blocked"}
    /\ \/ status[r.delivery] = "deleted" /\ UNCHANGED faults
       \/ Spend("report")
    /\ RollBackReport(r, MayRetry(r))
    /\ UNCHANGED <<row, backend, loop, work, history>>

\* The COMMIT fails.
CommitReportFails(r) ==
    /\ report[r] = "flushed"
    /\ Spend("report")
    /\ RollBackReport(r, FALSE)
    /\ UNCHANGED <<row, backend, loop, work, history>>

-----------------------------------------------------------------------------
(***************************************************************************)
(* Stops.                                                                  *)
(***************************************************************************)

\* _run leaves its wait: _shutdown cancels the listener and every timer (the
\* ones of reports too), then waits for the tasks in flight.
RunnerFails ==
    /\ Running
    /\ Spend("runner")
    /\ runner' = "drain"
    /\ link' = "none"
    /\ notes' = {}
    /\ scanned' = [d \in Deliveries |-> "none"]
    /\ gathered' = {d \in Deliveries : task[d] # "none"}
    /\ timer' = [d \in Deliveries |-> FALSE]
    /\ report' = [r \in Reports |-> IF report[r] = "waiting" /\ attempt[r] > 0
                                    THEN "done" ELSE report[r]]
    /\ UNCHANGED <<row, backend, task, attempt, uncommitted, history>>

\* The gathered tasks are over: asyncio.run cancels what a timer armed
\* meanwhile has started, the loop goes with its timers, and so do the tasks.
RunnerStops ==
    /\ runner = "drain"
    /\ \A d \in gathered : task[d] = "none"
    /\ \A r \in Reports : report[r] \notin {"read", "blocked", "flushed"}
    /\ runner' = "down"
    /\ gathered' = {}
    /\ task' = [d \in Deliveries |-> "none"]
    /\ timer' = [d \in Deliveries |-> FALSE]
    /\ report' = [r \in Reports |-> IF report[r] = "waiting" /\ attempt[r] > 0
                                    THEN "done" ELSE report[r]]
    /\ older' = [w \in Deliveries \cup Reports |-> {}]
    /\ UNCHANGED <<row, backend, notes, link, scanned, attempt, stale, faults, history>>

\* The process is killed: only the committed rows survive.
Crash ==
    /\ runner # "down"
    /\ Spend("process")
    /\ runner' = "down"
    /\ link' = "none"
    /\ notes' = {}
    /\ scanned' = [d \in Deliveries |-> "none"]
    /\ gathered' = {}
    /\ task' = [d \in Deliveries |-> "none"]
    /\ timer' = [d \in Deliveries |-> FALSE]
    /\ report' = [r \in Reports |-> IF report[r] = "idle" THEN "idle" ELSE "done"]
    /\ older' = [w \in Deliveries \cup Reports |-> {}]
    /\ stale' = {}
    /\ UNCHANGED <<row, backend, attempt, history>>

-----------------------------------------------------------------------------
ListenerStep ==
    \/ StartRunner
    \/ ConnectAndListen
    \/ RecoverScan
    \/ RecoverEnqueue
    \/ MonitorFails
    \/ RunnerStops

TaskStep(d) ==
    \/ ClaimDelivery(d)
    \/ SkipDelivery(d)
    \/ DeadLetter(d)
    \/ AuthUnavailable(d)
    \/ StartSend(d)
    \/ SendReturns(d)
    \/ SendFails(d)
    \/ CommitDelivery(d)
    \/ ArmRetry(d)

ReportStep(r) ==
    \/ ReadReport(r)
    \/ InsertRecord(r)
    \/ UnblockReport(r)
    \/ CommitReport(r)
    \/ InsertFails(r)

Next ==
    \/ \E S \in SUBSET Deliveries : PreparePendingDelivery(S) \/ OnDeliveryNotify(S)
    \/ ListenerStep
    \/ RecoverFails
    \/ LinkLost
    \/ RunnerFails
    \/ Crash
    \/ \E d \in Deliveries :
          \/ DeleteDelivery(d)
          \/ TimerFires(d)
          \/ TaskStep(d)
          \/ ProviderAccepts(d)
          \/ ProcessFails(d)
    \/ \E r \in Reports :
          \/ ReceiveReport(r)
          \/ ReportStep(r)
          \/ CommitReportFails(r)

Spec == Init /\ [][Next]_vars

\* The event loop runs what is ready, timers fire, connector.send returns or
\* raises, the database answers and a stopped service is started again.
Fairness ==
    /\ WF_vars(ListenerStep)
    /\ \A S \in SUBSET Deliveries : WF_vars(OnDeliveryNotify(S))
    /\ \A d \in Deliveries : WF_vars(TimerFires(d)) /\ WF_vars(TaskStep(d))
    /\ \A r \in Reports : WF_vars(ReportStep(r))

FairSpec == Spec /\ Fairness

-----------------------------------------------------------------------------
(***************************************************************************)
(* Properties.                                                             *)
(***************************************************************************)

\* Something will still look at the delivery: a task, a timer, a payload on
\* its way, the result of a scan, or a listener that has a scan ahead of it.
InHand(d) ==
    \/ task[d] # "none"
    \/ timer[d]
    \/ \E S \in notes : d \in S
    \/ scanned[d] # "none"
    \/ runner \in {"down", "drain", "connect", "scan"}
    \/ link # "up"

\* Custody: a committed PENDING or RETRYING delivery is never forgotten.  At
\* every moment a task, a timer, a NOTIFY or a scan still to come holds it,
\* unless a logged error path let go of it (a scan, a transaction that
\* failed, a row skipped because it was locked).  This is what running
\* _recover after LISTEN, and arming the retry before the task ends, are for.
Custody == \A d \in Deliveries : Recoverable(d) => InHand(d) \/ d \in dropped

\* A RETRYING delivery has used between one and OUTBOUND_MAX_RETRIES retries:
\* recovery takes the delay at retry_count - 1, clamped to the last one, so
\* that it gives back the delay of that retry; whatever resends came between.
RetryBudget ==
    \A d \in Deliveries :
        status[d] = "retrying" => retryCount[d] \in 1 .. OUTBOUND_MAX_RETRIES

\* A message whose send was acknowledged is sent again only if a recovery
\* scan has picked the delivery up: notifications, retries and runner
\* restarts by themselves never produce a second acknowledged send.
ResendOnlyByRecovery ==
    \A d \in Deliveries : acks[d] > 1 => d \in recovered

\* The three ways to reach _process_outbound_delivery are exclusive for a
\* delivery that no scan has touched: a payload is delivered once, a timer is
\* armed by the task that ends and is gone when the next one starts, and none
\* is left once the send has been acknowledged.
Noted(d) == \E S \in notes : d \in S
OneToken ==
    \A d \in Deliveries :
        /\ d \notin recovered =>
             /\ ~(task[d] # "none" /\ timer[d])
             /\ ~(task[d] # "none" /\ Noted(d))
             /\ ~(timer[d] /\ Noted(d))
             /\ \A S, T \in notes : d \in S /\ d \in T => S = T
             /\ Noted(d) \/ timer[d] \/ task[d] \notin {"none", "accepted"} => acks[d] = 0
             /\ acks[d] <= 1
        /\ status[d] = "absent" =>
             task[d] = "none" /\ ~timer[d] /\ ~Noted(d) /\ scanned[d] = "none" /\ acks[d] = 0

\* A delivered message stays delivered: route_status_update ignores what
\* comes for a delivery that is already DELIVERED.
DeliveredIsFinal ==
    [][\A d \in Deliveries :
          status[d] = "delivered" => status'[d] \in {"delivered", "deleted"}]_vars

\* Every PENDING or RETRYING delivery is eventually accepted, dead-lettered,
\* reported on or deleted, through lost connections, restarts and crashes.
Settles == \A d \in Deliveries : Recoverable(d) ~> ~Recoverable(d)

\* With a database that may fail and rows that reports lock, the only
\* deliveries left behind are the ones a logged error path let go of.
SettlesUnlessDropped ==
    \A d \in Deliveries : Recoverable(d) ~> ~Recoverable(d) \/ d \in dropped

\* What the rows tell a client of the backend is true, whichever tasks,
\* threads, reports, deletions and crashes interleave: ACCEPTED, SENT and
\* FAILED are told only of a message the backend has got.  DELIVERED, which
\* also shows the message to the other participants, may be told of one it has
\* not got: only when an echo was taken for the one of this message.
Echoed(d) == \E r \in Reports : r.kind = "echo" /\ r.delivery = d /\ report[r] = "done"
ToldTruly ==
    \A d \in Deliveries :
        /\ status[d] \in {"accepted", "sent", "failed"} => provider[d]
        /\ status[d] = "delivered" \/ d \in visible => provider[d] \/ Echoed(d)
        /\ d \in visible => status[d] \notin {"absent", "deleted"}

\* The rows and the backend only ever change the way DeliveryLifecycle
\* allows: no send begins and nothing is recorded for a deleted message,
\* ACCEPTED, SENT and FAILED are recorded only of a message the backend has
\* got, and RETRYING only within the budget; whatever tasks, timers, threads,
\* scans, reports, deletions and crashes interleave.
LC == INSTANCE DeliveryLifecycle
        WITH MaxRetries <- OUTBOUND_MAX_RETRIES, state <- status, retries <- retryCount,
             sending <- wire, sent <- provider
ImplementsLifecycle == LC!Spec
=============================================================================
