-------------------------- MODULE ConnectorRunners --------------------------
(***************************************************************************)
(* The two runner threads of ConnectorRouter from start to stop, and the   *)
(* listeners of ListenerRunner: plugins/connectors/runner.py (Runner,      *)
(* ListenerRunner) and router.py, with the part of store.py they wait for. *)
(*                                                                         *)
(* One (tenant, backend) key whose connector has the listen transport: the *)
(* store and _listeners are keyed and _reconcile treats each key alone.    *)
(* What the delivery runner does while it runs is OutboundDelivery,        *)
(* InboundRouting and CacheInvalidation.                                   *)
(***************************************************************************)
EXTENDS Naturals, Sequences

CONSTANTS
    Callers,    \* threads that call resync: HTTP requests and the bus consumer
    MaxChanges, \* bound: changes of the store that are followed by a resync
    MaxSilent,  \* bound: changes of the store that are not
    MaxFaults   \* bound: failures of runners and listeners, late threads

ASSUME RunnersAssumption ==
    /\ MaxChanges \in Nat
    /\ MaxSilent \in Nat
    /\ MaxFaults \in Nat

Runners == {"delivery", "listener"}

VARIABLES
    main,       \* where ConnectorRouter.start and stop are
    phase,      \* where the thread of each runner is, see Phase
    closing,    \* runners whose _closing is done
    populate,   \* the populate thread and the future _populated, see Populate
    cached,     \* has the store an instance for the key?
    listener,   \* the task _listeners[key]
    leaving,    \* is a cancelled listener that is not in _listeners still ending?
    posted,     \* _reconcile callbacks of the loop: is the key in desired?
    caller,     \* where each caller is
    snapshot,   \* what _build_desired gave it
    changes,    \* changes still to come
    silent,
    faults,
    overlapped, \* history: the last snapshots were taken by overlapping threads
    unseen,     \* history: the store has changed or the listener ended since
                \* the last snapshot
    lateJoin    \* history: a join of the main thread timed out

\* In _entrypoint, with _run before or after wait_populated; leaving _run;
\* asyncio.run cancelling what is left before it returns or raises.
Phase == {"new", "populate", "run", "unwind", "close", "crash", "backoff", "ended"}
Populate == {"waiting", "fetching", "lost", "late", "done", "failed", "cancelled"}
Looping(r) == phase[r] \in {"populate", "run", "unwind", "close", "crash"}

calls == <<posted, caller, snapshot, changes>>
tasks == <<listener, leaving>>
history == <<overlapped, unseen, lateJoin>>
vars == <<main, phase, closing, populate, cached, listener, leaving, posted, caller, snapshot,
          changes, silent, faults, overlapped, unseen, lateJoin>>

TypeOK ==
    /\ main \in {"start", "starting", "serving", "join_listener", "join_delivery", "stopped"}
    /\ phase \in [Runners -> Phase]
    /\ closing \subseteq Runners
    /\ populate \in Populate
    /\ cached \in BOOLEAN
    /\ listener \in {"none", "live", "cancelling", "ended", "stuck"}
    /\ leaving \in BOOLEAN
    /\ posted \in Seq(BOOLEAN)
    /\ caller \in [Callers -> {"idle", "resync", "looped", "taken"}]
    /\ snapshot \in [Callers -> BOOLEAN]
    /\ changes \in Nat
    /\ silent \in Nat
    /\ faults \in Nat
    /\ overlapped \in BOOLEAN
    /\ unseen \in BOOLEAN
    /\ lateJoin \in BOOLEAN

Init ==
    /\ main = "start"
    /\ phase = [r \in Runners |-> "new"]
    /\ closing = {}
    /\ populate = "waiting"
    /\ cached = FALSE
    /\ listener = "none"
    /\ leaving = FALSE
    /\ posted = <<>>
    /\ caller = [c \in Callers |-> "idle"]
    /\ snapshot = [c \in Callers |-> FALSE]
    /\ changes = MaxChanges
    /\ silent = MaxSilent
    /\ faults = MaxFaults
    /\ overlapped = FALSE
    /\ unseen = FALSE
    /\ lateJoin = FALSE

Spend == faults > 0 /\ faults' = faults - 1
Goto(r, p) == phase' = [phase EXCEPT ![r] = p]

\* _closing, which _entrypoint and _wait_backoff wait for: one that was done
\* before the loop ran is seen as well (_observe_future).
Closing(r) == r \in closing

-----------------------------------------------------------------------------
(***************************************************************************)
(* The main thread: ConnectorRouter.start and stop.                        *)
(***************************************************************************)

\* Mutant: both runners are told to close before either is joined.
StopBoth ==
    /\ main = "serving"
    /\ main' = "join_listener"
    /\ closing' = Runners
    /\ UNCHANGED <<phase, populate, cached, tasks, calls, silent, faults, history>>

\* Runner.start of each: the thread runs and _ready is set.
StartRunner(r) ==
    /\ \/ r = "delivery" /\ main = "start" /\ main' = "starting"
       \/ r = "listener" /\ main = "starting" /\ main' = "serving"
    /\ Goto(r, "populate")
    /\ UNCHANGED <<closing, populate, cached, tasks, calls, silent, faults, history>>

\* stop: the listener runner is told to close first.
Stop ==
    /\ main = "serving"
    /\ main' = "join_listener"
    /\ closing' = closing \cup {"listener"}
    /\ UNCHANGED <<phase, populate, cached, tasks, calls, silent, faults, history>>

\* Runner.shutdown of r returns: its thread has ended, or join timed out.
Joined(r) ==
    \/ phase[r] = "ended" /\ UNCHANGED <<faults, lateJoin>>
    \/ phase[r] # "ended" /\ Spend /\ lateJoin' = TRUE

ListenerJoined ==
    /\ main = "join_listener"
    /\ Joined("listener")
    /\ main' = "join_delivery"
    /\ closing' = closing \cup {"delivery"}
    /\ UNCHANGED <<phase, populate, cached, tasks, calls, silent, overlapped, unseen>>

DeliveryJoined ==
    /\ main = "join_delivery"
    /\ Joined("delivery")
    /\ main' = "stopped"
    /\ UNCHANGED <<phase, closing, populate, cached, tasks, calls, silent, overlapped, unseen>>

-----------------------------------------------------------------------------
(***************************************************************************)
(* The store.                                                              *)
(***************************************************************************)

\* on_auth_available, for the first token only, starts the populate thread.
TokenArrives ==
    /\ main = "serving"
    /\ populate = "waiting"
    /\ populate' = "fetching"
    /\ UNCHANGED <<main, phase, closing, cached, tasks, calls, silent, faults, history>>

\* list_tenant_backends raises: _populated is never set.
ListBackendsFails ==
    /\ populate = "fetching"
    /\ Spend
    /\ populate' = "lost"
    /\ UNCHANGED <<main, phase, closing, cached, tasks, calls, silent, history>>

\* The fetch of the key by _fetch_batch finds its configuration or not, after
\* which _populated is set, if it was not before.
PopulateFetch(found) ==
    /\ populate \in {"fetching", "late"}
    /\ cached' = (cached \/ found)
    /\ unseen' = (unseen \/ (found /\ ~cached))
    /\ populate' = "done"
    /\ UNCHANGED <<main, phase, closing, tasks, calls, silent, faults, overlapped, lateJoin>>

\* POPULATE_FETCH_TIMEOUT: _populated is set, the fetch goes on.
PopulateTimesOut ==
    /\ populate = "fetching"
    /\ Spend
    /\ populate' = "late"
    /\ UNCHANGED <<main, phase, closing, cached, tasks, calls, silent, history>>

\* set_exception, for good: the runners start in degraded state.
PopulateFails ==
    /\ populate = "fetching"
    /\ Spend
    /\ populate' = "failed"
    /\ UNCHANGED <<main, phase, closing, cached, tasks, calls, silent, history>>

\* A get by another thread caches an instance, or a refused one removes it.
FetchSilently ==
    /\ main # "stopped"
    /\ silent > 0
    /\ silent' = silent - 1
    /\ cached' = ~cached
    /\ unseen' = TRUE
    /\ UNCHANGED <<main, phase, closing, populate, tasks, calls, faults, overlapped, lateJoin>>

-----------------------------------------------------------------------------
(***************************************************************************)
(* Callers: invalidate_backend_cache, reconcile_after_create and           *)
(* reconcile_after_delete, each a change of the store and then resync.     *)
(***************************************************************************)

Step(c, from, to) ==
    /\ caller[c] = from
    /\ caller' = [caller EXCEPT ![c] = to]

Pending == posted # <<>> \/ \E c \in Callers : caller[c] # "idle"

Change(c) ==
    /\ main = "serving"
    /\ Step(c, "idle", "resync")
    /\ changes > 0
    /\ changes' = changes - 1
    /\ cached' \in BOOLEAN
    /\ overlapped' = Pending
    /\ UNCHANGED <<main, phase, closing, populate, tasks, posted, snapshot, silent, faults,
                   unseen, lateJoin>>

\* resync evaluates self.loop first: RuntimeError when there is none.
ReadLoop(c) ==
    /\ Step(c, "resync", IF Looping("listener") THEN "looped" ELSE "idle")
    /\ UNCHANGED <<main, phase, closing, populate, cached, tasks, posted, snapshot, changes,
                   silent, faults, history>>

\* Then _build_desired, in the thread of the caller.
TakeSnapshot(c) ==
    /\ Step(c, "looped", "taken")
    /\ snapshot' = [snapshot EXCEPT ![c] = cached]
    /\ unseen' = FALSE
    /\ UNCHANGED <<main, phase, closing, populate, cached, tasks, posted, changes, silent,
                   faults, overlapped, lateJoin>>

\* And call_soon_threadsafe; CloseLoop lets go of a caller whose loop has
\* closed, whose call raises RuntimeError.
PostReconcile(c) ==
    /\ Step(c, "taken", "idle")
    /\ posted' = Append(posted, snapshot[c])
    /\ snapshot' = [snapshot EXCEPT ![c] = FALSE]
    /\ UNCHANGED <<main, phase, closing, populate, cached, tasks, changes, silent, faults,
                   history>>

-----------------------------------------------------------------------------
(***************************************************************************)
(* ListenerRunner.                                                         *)
(***************************************************************************)

\* Mutant: listeners that have ended are not removed first.
AfterUnpruned(wanted) ==
    IF ~wanted THEN "none" ELSE IF listener = "none" THEN "live" ELSE listener

\* _reconcile: a task that is done goes; one that is not wanted is popped and
\* cancelled; one is created for a wanted key that has none.
After(wanted) ==
    IF ~wanted THEN "none" ELSE IF listener \in {"none", "ended"} THEN "live" ELSE listener
Leaves(wanted) == leaving \/ (~wanted /\ listener \in {"live", "cancelling"})

Reconcile(wanted) == listener' = After(wanted) /\ leaving' = Leaves(wanted)

\* task.cancel() on the one in _listeners, unless it has ended.
Asked(task) == IF task = "live" THEN "cancelling" ELSE task

\* The loop runs a posted callback, whatever _run is doing.
RunPosted ==
    /\ Looping("listener")
    /\ posted # <<>>
    /\ Reconcile(Head(posted))
    /\ posted' = Tail(posted)
    /\ UNCHANGED <<main, phase, closing, populate, cached, caller, snapshot, changes, silent,
                   faults, history>>

\* A listener that nobody cancelled returns or raises.
ListenerEnds ==
    /\ Looping("listener")
    /\ listener = "live"
    /\ Spend
    /\ listener' = "ended"
    /\ unseen' = TRUE
    /\ UNCHANGED <<main, phase, closing, populate, cached, leaving, calls, silent, overlapped,
                   lateJoin>>

\* A cancelled listener has cleaned up.
ListenerCancelled ==
    /\ \/ listener = "cancelling" /\ listener' = "ended" /\ UNCHANGED leaving
       \/ leaving /\ leaving' = FALSE /\ UNCHANGED listener
    /\ UNCHANGED <<main, phase, closing, populate, cached, calls, silent, faults, history>>

-----------------------------------------------------------------------------
(***************************************************************************)
(* Runner: _entrypoint, _run and _thread_target.                           *)
(***************************************************************************)

Populated == populate \in {"late", "done", "failed"}

\* Mutant: an exception of wait_populated is not caught.
RunDeliveryPopulated ==
    /\ phase["delivery"] = "populate"
    /\ populate \in {"late", "done"}
    /\ Goto("delivery", "run")
    /\ UNCHANGED <<main, closing, populate, cached, tasks, calls, silent, faults, history>>

\* wait_populated returns or raises; the delivery runner starts its tasks.
RunDelivery ==
    /\ phase["delivery"] = "populate"
    /\ Populated
    /\ Goto("delivery", "run")
    /\ UNCHANGED <<main, closing, populate, cached, tasks, calls, silent, faults, history>>

\* The listener runner reconciles with what the store has now.
RunListener ==
    /\ phase["listener"] = "populate"
    /\ Populated
    /\ Goto("listener", "run")
    /\ Reconcile(cached)
    /\ overlapped' = Pending
    /\ unseen' = FALSE
    /\ UNCHANGED <<main, closing, populate, cached, calls, silent, faults, lateJoin>>

\* Its reconciliation raises, with the task of the key created or not: listen
\* of a backend fails at once, or a task of the loop before is cancelled.
RunListenerFails ==
    /\ phase["listener"] = "populate"
    /\ Populated
    /\ \/ listener = "stuck" /\ ~cached /\ UNCHANGED faults
       \/ Spend
    /\ \/ listener # "stuck" /\ listener' = Asked(listener) /\ UNCHANGED leaving
       \/ listener' = Asked(After(cached)) /\ leaving' = Leaves(cached)
    /\ Goto("listener", "crash")
    /\ UNCHANGED <<main, closing, populate, cached, calls, silent, history>>

\* A critical task of the delivery runner raises.
RunDeliveryFails ==
    /\ phase["delivery"] = "run"
    /\ Spend
    /\ Goto("delivery", "crash")
    /\ UNCHANGED <<main, closing, populate, cached, tasks, calls, silent, history>>

\* Mutant: _entrypoint awaits _run only, which looks at _closing when it runs.
CloseRunning(r) ==
    /\ r \in closing
    /\ phase[r] = "run"
    /\ Goto(r, "unwind")
    /\ IF r = "listener" THEN listener' = Asked(listener) ELSE UNCHANGED listener
    /\ UNCHANGED <<main, closing, populate, cached, leaving, calls, silent, faults, history>>

\* _closing is done: _run is cancelled where it is.  Cancelling wait_populated
\* cancels _populated, which both runners share, if it is not set.
CloseRun(r) ==
    /\ Closing(r)
    /\ \/ /\ phase[r] = "run"
          /\ Goto(r, "unwind")
          /\ UNCHANGED populate
       \/ /\ phase[r] = "populate"
          /\ Goto(r, "close")
          /\ populate' = IF Populated THEN populate ELSE "cancelled"
    /\ IF r = "listener" THEN listener' = Asked(listener) ELSE UNCHANGED listener
    /\ UNCHANGED <<main, closing, cached, leaving, calls, silent, faults, history>>

\* The other runner's wait_populated raises CancelledError, which ends _run
\* and _entrypoint without an error.
PopulateCancelled(r) ==
    /\ phase[r] = "populate"
    /\ populate = "cancelled"
    /\ Goto(r, "close")
    /\ IF r = "listener" THEN listener' = Asked(listener) ELSE UNCHANGED listener
    /\ UNCHANGED <<main, closing, populate, cached, leaving, calls, silent, faults, history>>

\* finally of _run: the listeners that were cancelled are done (the second
\* cancellation, by _entrypoint, skips _listeners.clear), the tasks of the
\* delivery runner too; asyncio.run cancels what was created since.
Unwind(r) ==
    /\ phase[r] = "unwind"
    /\ r = "listener" => listener # "cancelling"
    /\ Goto(r, "close")
    /\ IF r = "listener" THEN listener' = Asked(listener) ELSE UNCHANGED listener
    /\ UNCHANGED <<main, closing, populate, cached, leaving, calls, silent, faults, history>>

\* asyncio.run has waited for what it cancelled and closes the loop: what was
\* posted is lost, a task created meanwhile never ends, and _loop is None.
CloseLoop(r) ==
    /\ phase[r] \in {"close", "crash"}
    /\ r = "listener" => listener # "cancelling" /\ ~leaving
    /\ Goto(r, IF phase[r] = "close" THEN "ended" ELSE "backoff")
    /\ IF r = "listener"
       THEN /\ listener' = IF listener = "live" THEN "stuck" ELSE listener
            /\ posted' = <<>>
            /\ caller' = [c \in Callers |-> IF caller[c] \in {"looped", "taken"} THEN "idle"
                                            ELSE caller[c]]
            /\ snapshot' = [c \in Callers |-> FALSE]
       ELSE UNCHANGED <<listener, posted, caller, snapshot>>
    /\ UNCHANGED <<main, closing, populate, cached, leaving, changes, silent, faults, history>>

\* _wait_backoff: closing ends the thread, the end of the delay restarts it.
WaitBackoff(r) ==
    /\ phase[r] = "backoff"
    /\ Goto(r, IF Closing(r) THEN "ended" ELSE "populate")
    /\ UNCHANGED <<main, closing, populate, cached, tasks, calls, silent, faults, history>>

RunnerStep(r) ==
    \/ CloseRun(r)
    \/ PopulateCancelled(r)
    \/ Unwind(r)
    \/ CloseLoop(r)
    \/ WaitBackoff(r)

PopulateThread == \E found \in BOOLEAN : PopulateFetch(found)

CallerStep(c) ==
    \/ ReadLoop(c)
    \/ TakeSnapshot(c)
    \/ PostReconcile(c)

Next ==
    \/ Stop
    \/ ListenerJoined
    \/ DeliveryJoined
    \/ TokenArrives
    \/ PopulateThread
    \/ ListBackendsFails
    \/ PopulateTimesOut
    \/ PopulateFails
    \/ FetchSilently
    \/ \E c \in Callers : Change(c) \/ CallerStep(c)
    \/ RunPosted
    \/ ListenerEnds
    \/ ListenerCancelled
    \/ RunDelivery
    \/ RunListener
    \/ RunListenerFails
    \/ RunDeliveryFails
    \/ \E r \in Runners : StartRunner(r) \/ RunnerStep(r)

Spec == Init /\ [][Next]_vars

\* Threads and loops run; cancelled listeners end; fetches have a timeout.  No
\* token need ever come.
Fairness ==
    /\ WF_vars(PopulateThread)
    /\ WF_vars(ListenerCancelled) /\ WF_vars(RunPosted)
    /\ WF_vars(RunDelivery) /\ WF_vars(RunListener)
    /\ WF_vars(ListenerJoined) /\ WF_vars(DeliveryJoined)
    /\ \A r \in Runners : WF_vars(RunnerStep(r))

FairSpec == Spec /\ Fairness

-----------------------------------------------------------------------------
(***************************************************************************)
(* Properties.                                                             *)
(***************************************************************************)

Quiet == phase["listener"] = "run" /\ ~Pending

\* Once the callbacks have run, the runner listens for exactly the keys of the
\* instances in the store: _reconcile compares keys, so a listener may be one of
\* an instance that was dropped and cached again.  The exceptions: snapshots of callers that overlapped, or of
\* a caller and the start of the runner, can be applied in the wrong order; a
\* fetch, a refusal or the end of a listener that no resync follows is not
\* seen; a task created while the loop of a crash was being closed stays in
\* _listeners and never runs.
Listening ==
    Quiet /\ ~overlapped /\ ~unseen =>
      IF cached THEN listener \in {"live", "stuck"} ELSE listener = "none"

\* A listener hands its messages to the delivery runner, so it must not live
\* longer: the thread of the delivery runner is not over while a listener
\* runs, unless a join timed out or the stop came before the store was
\* populated.
ListenersNeedDelivery ==
    listener \in {"live", "cancelling"} \/ leaving =>
      \/ phase["delivery"] \notin {"new", "ended"}
      \/ lateJoin
      \/ populate = "cancelled"

\* A runner that is told to close ends, also while it waits for the store or
\* for the end of a back-off, although no token need ever arrive.
Closes == \A r \in Runners : r \in closing ~> phase[r] = "ended"

\* Once the first token is there both runners get to work, though the fetches
\* fail or are late and the runners crash; only an error while the identities
\* are listed leaves them waiting for ever.
Starts ==
    \A r \in Runners :
        populate # "waiting" ~> phase[r] = "run" \/ main # "serving" \/ populate = "lost"
=============================================================================
