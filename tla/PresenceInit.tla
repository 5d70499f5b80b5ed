---------------------------- MODULE PresenceInit ----------------------------
(***************************************************************************)
(* The presence tables and the two threads that keep them equal to what    *)
(* wazo-auth, wazo-confd and asterisk know: the initialization thread,     *)
(* which fetches everything and then applies it table by table, and the    *)
(* bus consumer thread, whose handlers apply one event each, unless an     *)
(* initialization is in progress: then the event is dropped or delayed.    *)
(*                                                                         *)
(* The content of the tables is a set of facts: the row of a tenant, user, *)
(* line, session, refresh token or channel, an endpoint that is available, *)
(* a user in do-not-disturb.  Owners gives the rows a fact hangs on by     *)
(* foreign keys, transitively.                                             *)
(*                                                                         *)
(* The servers are external: one of them changes a fact and puts an event  *)
(* in the queue in one step, and answers a listing in one step (the pages  *)
(* of _paginate_proxy are not modelled).  Each session_scope is one step.  *)
(***************************************************************************)
EXTENDS Naturals, Sequences

CONSTANTS
    Facts,
    Table,          \* the table of each fact
    Owners,         \* the facts each fact hangs on
    LeftRows,       \* what earlier runs of the process may have left in the tables
    MaxChanges,     \* how many facts the servers change after the start
    MaxBoots,       \* how many times asterisk restarts
    MaxFailures,    \* failed requests and transactions that are not timeouts
    TimeoutRetries  \* len(_retry_time_failed_timeout)

\* The order of the listings in initiate and that of the transactions.
FetchOrder == <<"tenant", "user", "session", "refresh_token", "endpoint", "channel">>
\* Mutant: the channels before the users and lines they hang on.
ChannelsFirst == <<"endpoint", "tenant", "channel", "user", "line", "dnd", "session", "refresh_token">>
ApplyOrder == <<"endpoint", "tenant", "user", "line", "dnd", "session", "refresh_token", "channel">>

Resources == {FetchOrder[n] : n \in DOMAIN FetchOrder}
Tables == {ApplyOrder[n] : n \in DOMAIN ApplyOrder}

\* The listing of the users has their lines and services.
ResourceOf(i) == IF Table[i] \in {"line", "dnd"} THEN "user" ELSE Table[i]

\* The tenants that the creation of a user creates.
Supplied(i) == IF Table[i] = "user" THEN {j \in Owners[i] : Table[j] = "tenant"} ELSE {}
Dependents(i) == {j \in Facts : i \in Owners[j]}
Rows(t) == {i \in Facts : Table[i] = t}
Listed(r) == {i \in Facts : ResourceOf(i) = r}
\* Asterisk forgets these when it restarts, without an event for each.
OfAsterisk == Rows("endpoint") \cup Rows("channel")

\* The tables whose rows a fact of each table hangs on.
ForeignKeys ==
    [t \in Tables |-> CASE t \in {"tenant", "endpoint"} -> {}
                        [] t = "user" -> {"tenant"}
                        [] t \in {"line", "dnd", "session", "refresh_token"} -> {"tenant", "user"}
                        [] t = "channel" -> {"tenant", "user", "line"}]

\* What the foreign keys allow.
Closed(db) == \A i \in db : Owners[i] \subseteq db

ASSUME PresenceAssumption ==
    /\ Table \in [Facts -> Tables]
    /\ Owners \in [Facts -> SUBSET Facts]
    /\ \A i \in Facts : Closed(Owners[i])
    /\ \A i \in Facts : \A j \in Owners[i] : Table[j] \in ForeignKeys[Table[i]]
    /\ LeftRows \subseteq {db \in SUBSET Facts : Closed(db)}
    /\ MaxChanges \in Nat
    /\ MaxBoots \in Nat
    /\ MaxFailures \in Nat
    /\ TimeoutRetries \in Nat

VARIABLES
    truth,       \* the facts the servers hold
    rows,        \* the facts the committed rows state
    phase,       \* where the initialization thread is
    step,        \* its position in FetchOrder or ApplyOrder, or the callbacks replayed
    snapshot,    \* the answers it has got
    marks,       \* MilestoneTracker._milestones
    inProgress,  \* Initiator._in_progress
    initialized, \* Initiator._is_initialized
    delayed,     \* BusInitiatorHandler._callbacks_delayed
    events,      \* the queue of the bus consumer, the one in hand included
    handler,     \* where the handler of Head(events) is
    timeouts,    \* elements taken from _retry_time_failed_timeout
    budget,      \* changes, boots and failures still to come
    stale,       \* history: callbacks delayed before this attempt
    doubt,       \* history: facts this attempt or a later event may have missed
    calm         \* history: nothing happened during this initialization

initVars == <<phase, step, snapshot, marks, inProgress, initialized, timeouts>>
busVars == <<events, handler, delayed>>
history == <<stale, doubt, calm>>
vars == <<truth, rows, initVars, busVars, budget, history>>

\* _started is set, between start and the end of _run.
Started == phase # "off"
\* initiate is under way, or waits to be called again.
Running == {"reset", "set", "fetch", "mark", "apply", "replay", "wait"}
Phases == Running \cup {"finish", "publish", "done", "off", "stopped"}

Changes == [kind : {"added", "removed"}, fact : Facts]
FullyBooted == [kind |-> "booted"]

Spend(k) ==
    /\ budget[k] > 0
    /\ budget' = [budget EXCEPT ![k] = @ - 1]

PresenceTypeOK ==
    /\ truth \subseteq Facts
    /\ rows \subseteq Facts
    /\ snapshot \subseteq Facts
    /\ phase \in Phases
    /\ step \in Nat
    /\ phase \in {"fetch", "mark"} => step \in DOMAIN FetchOrder
    /\ phase = "apply" => step \in DOMAIN ApplyOrder
    /\ phase = "replay" => step <= Len(delayed)
    /\ marks \subseteq Resources
    /\ inProgress \in BOOLEAN
    /\ initialized \in BOOLEAN
    /\ delayed \in Seq(Changes)
    /\ events \in Seq(Changes \cup {FullyBooted})
    /\ handler \in {"idle", "tracked", "delay", "apply"}
    /\ handler # "idle" => events # <<>> /\ Head(events) \in Changes
    /\ timeouts \in 0 .. TimeoutRetries
    /\ budget \in [{"changes", "boots", "failures"} -> Nat]
    /\ stale \in 0 .. Len(delayed)
    /\ doubt \subseteq Facts
    /\ calm \in BOOLEAN

Init ==
    /\ truth \in {db \in SUBSET Facts : Closed(db)}
    /\ rows \in LeftRows
    /\ phase = "reset"
    /\ step = 0
    /\ snapshot = {}
    /\ marks = {}
    /\ inProgress = FALSE
    /\ initialized = FALSE
    /\ delayed = <<>>
    /\ events = <<>>
    /\ handler = "idle"
    /\ timeouts = 0
    /\ budget = [changes |-> MaxChanges, boots |-> MaxBoots, failures |-> MaxFailures]
    /\ stale = 0
    /\ doubt = {}
    /\ calm = TRUE

-----------------------------------------------------------------------------
(* The servers. *)

Publish(e) == events' = Append(events, e)
Disturb == calm' = (calm /\ ~Started)

FactAdded(i) ==
    /\ i \notin truth
    /\ Owners[i] \subseteq truth
    /\ truth' = truth \cup {i}
    /\ Publish([kind |-> "added", fact |-> i])

FactRemoved(i) ==
    /\ i \in truth
    /\ Dependents(i) \cap truth = {}
    /\ truth' = truth \ {i}
    /\ Publish([kind |-> "removed", fact |-> i])

Change ==
    /\ Spend("changes")
    /\ \E i \in Facts : FactAdded(i) \/ FactRemoved(i)
    /\ Disturb
    /\ UNCHANGED <<rows, initVars, handler, delayed, stale, doubt>>

Boot ==
    /\ Spend("boots")
    /\ truth' = truth \ OfAsterisk
    /\ Publish(FullyBooted)
    /\ Disturb
    /\ UNCHANGED <<rows, initVars, handler, delayed, stale, doubt>>

-----------------------------------------------------------------------------
(* The effect of the handlers of BusEventHandler on the tables. *)

\* Mutant: the user or line is not looked for.
CreatedAlways(i, db) == db \cup {i} \cup Supplied(i)

\* A row is created only if its user or line is found; that of a user comes
\* with its tenant.  What exists is left as it is.
Created(i, db) ==
    IF Owners[i] \ Supplied(i) \subseteq db THEN db \cup {i} \cup Supplied(i) ELSE db

\* The foreign keys delete with the row those that hang on it.
Deleted(i, db) == db \ ({i} \cup Dependents(i))

Handled(e, db) == IF e.kind = "added" THEN Created(e.fact, db) ELSE Deleted(e.fact, db)

\* Facts that go wrong with this event though their own events were right: it
\* comes to nothing for want of an owner, or takes others with it.
Misled(e, db) ==
    IF e.kind = "added" THEN {e.fact} \ Created(e.fact, db)
                        ELSE Dependents(e.fact) \cap db

-----------------------------------------------------------------------------
(* The bus consumer thread: handle_init_process around each handler. *)

Take == events' = Tail(events) /\ handler' = "idle"
Hand == Head(events)

\* self._initiator.in_progress()
CheckInProgress ==
    /\ handler = "idle"
    /\ events # <<>>
    /\ Hand # FullyBooted
    /\ handler' = IF inProgress THEN "tracked" ELSE "apply"
    /\ Disturb
    /\ UNCHANGED <<truth, rows, initVars, events, delayed, budget, stale, doubt>>

Pending(i) == \E n \in DOMAIN delayed : i \in {delayed[n].fact} \cup Supplied(delayed[n].fact)

\* The event says otherwise than the answer that is in but not marked; or an
\* earlier event about the fact waits to be replayed.
DropHurts(e) ==
    \/ /\ phase = "mark"
       /\ e.fact \in Listed(FetchOrder[step])
       /\ (e.fact \in snapshot) # (e.kind = "added")
    \/ Pending(e.fact)

\* self._initiator.has_fetched(func.init_fetched_resource)
HasFetched == ResourceOf(Hand.fact) \in marks

Delay ==
    /\ handler = "tracked"
    /\ HasFetched
    /\ handler' = "delay"
    /\ UNCHANGED <<truth, rows, initVars, events, delayed, budget, history>>

Drop ==
    /\ handler = "tracked"
    /\ ~HasFetched
    /\ Take
    /\ doubt' = IF DropHurts(Hand) THEN doubt \cup {Hand.fact} ELSE doubt
    /\ UNCHANGED <<truth, rows, initVars, delayed, budget, stale, calm>>

\* _callbacks_delayed.append: in time for the loop of on_init_complete, or not.
AppendDelayed ==
    /\ handler = "delay"
    /\ delayed' = Append(delayed, Hand)
    /\ Take
    /\ doubt' = IF phase \in Running THEN doubt ELSE doubt \cup {Hand.fact}
    /\ UNCHANGED <<truth, rows, initVars, budget, stale, calm>>

Apply ==
    /\ handler = "apply"
    /\ rows' = Handled(Hand, rows)
    /\ doubt' = doubt \cup Misled(Hand, rows)
    /\ Take
    /\ UNCHANGED <<truth, initVars, delayed, budget, stale, calm>>

\* _asterisk_fullybooted is not wrapped: InitiatorThread.restart.
RestartIgnored ==
    /\ handler = "idle"
    /\ events # <<>>
    /\ Hand = FullyBooted
    /\ Started
    /\ Take
    /\ doubt' = doubt \cup OfAsterisk
    /\ calm' = FALSE
    /\ UNCHANGED <<truth, rows, initVars, delayed, budget, stale>>

\* Mutant: reset_initialized is not called.
RestartServed ==
    /\ handler = "idle"
    /\ events # <<>>
    /\ Hand = FullyBooted
    /\ ~Started
    /\ Take
    /\ phase' = "reset"
    /\ calm' = (Len(events) = 1)
    /\ UNCHANGED <<truth, rows, step, snapshot, marks, inProgress, initialized, timeouts, delayed, budget, stale, doubt>>

Restart ==
    /\ handler = "idle"
    /\ events # <<>>
    /\ Hand = FullyBooted
    /\ ~Started
    /\ Take
    /\ initialized' = FALSE
    /\ phase' = "reset"
    /\ calm' = (Len(events) = 1)
    /\ UNCHANGED <<truth, rows, step, snapshot, marks, inProgress, timeouts, delayed, budget, stale, doubt>>

-----------------------------------------------------------------------------
(* The initialization thread: Initiator.initiate. *)

ResetMilestones ==
    /\ phase = "reset"
    /\ marks' = {}
    /\ phase' = "set"
    /\ stale' = Len(delayed)
    /\ doubt' = {}
    /\ UNCHANGED <<truth, rows, step, snapshot, inProgress, initialized, timeouts, busVars, budget, calm>>

SetInProgress ==
    /\ phase = "set"
    /\ inProgress' = TRUE
    /\ phase' = "fetch"
    /\ step' = 1
    /\ UNCHANGED <<truth, rows, snapshot, marks, initialized, timeouts, busVars, budget, history>>

Fetch ==
    /\ phase = "fetch"
    /\ LET r == FetchOrder[step] IN snapshot' = (snapshot \ Listed(r)) \cup (truth \cap Listed(r))
    /\ phase' = "mark"
    /\ UNCHANGED <<truth, rows, step, marks, inProgress, initialized, timeouts, busVars, budget, history>>

\* Mutant: one listing too many.
MarkPastTheEnd ==
    /\ phase = "mark"
    /\ marks' = marks \cup {FetchOrder[step]}
    /\ IF step <= Len(FetchOrder) THEN phase' = "fetch" /\ step' = step + 1
                                  ELSE phase' = "apply" /\ step' = 1
    /\ UNCHANGED <<truth, rows, snapshot, inProgress, initialized, timeouts, busVars, budget, history>>

Mark ==
    /\ phase = "mark"
    /\ marks' = marks \cup {FetchOrder[step]}
    /\ IF step < Len(FetchOrder) THEN phase' = "fetch" /\ step' = step + 1
                                 ELSE phase' = "apply" /\ step' = 1
    /\ UNCHANGED <<truth, rows, snapshot, inProgress, initialized, timeouts, busVars, budget, history>>

\* One transaction: rows of t that were not listed go, those that were listed
\* and whose owners are there come.
Expired(t) == LET gone == Rows(t) \ snapshot IN gone \cup UNION {Dependents(i) : i \in gone}
Wanted(t) == Rows(t) \cap snapshot
Kept(t) == (rows \ Expired(t)) \cup UNION {Supplied(i) : i \in Wanted(t)}
Valid(t) == {i \in Wanted(t) : Owners[i] \subseteq Kept(t)}

\* Mutant: _in_progress is cleared before the post hooks run.
ApplyAndLetThrough ==
    /\ phase = "apply"
    /\ LET t == ApplyOrder[step] IN
       /\ rows' = Kept(t) \cup Valid(t)
       /\ doubt' = doubt \cup (Wanted(t) \ Valid(t))
    /\ IF step < Len(ApplyOrder) THEN phase' = "apply" /\ step' = step + 1
                                 ELSE phase' = "replay" /\ step' = 0
    /\ inProgress' = (step < Len(ApplyOrder))
    /\ UNCHANGED <<truth, snapshot, marks, initialized, timeouts, busVars, budget, stale, calm>>

ApplyTable ==
    /\ phase = "apply"
    /\ LET t == ApplyOrder[step] IN
       /\ rows' = Kept(t) \cup Valid(t)
       /\ doubt' = doubt \cup (Wanted(t) \ Valid(t))
    /\ IF step < Len(ApplyOrder) THEN phase' = "apply" /\ step' = step + 1
                                 ELSE phase' = "replay" /\ step' = 0
    /\ UNCHANGED <<truth, snapshot, marks, inProgress, initialized, timeouts, busVars, budget, stale, calm>>

\* on_init_complete; what a callback raises is logged.
Replay ==
    /\ phase = "replay"
    /\ step < Len(delayed)
    /\ LET e == delayed[step + 1] IN
       /\ rows' = Handled(e, rows)
       /\ doubt' = doubt \cup Misled(e, rows)
                         \cup (IF step < stale THEN {e.fact} \cup Supplied(e.fact) ELSE {})
    /\ step' = step + 1
    /\ UNCHANGED <<truth, phase, snapshot, marks, inProgress, initialized, timeouts, busVars, budget, stale, calm>>

ReplayEnds ==
    /\ phase = "replay"
    /\ step = Len(delayed)
    /\ phase' = "finish"
    /\ snapshot' = {}
    /\ UNCHANGED <<truth, rows, step, marks, inProgress, initialized, timeouts, busVars, budget, history>>

ClearInProgress ==
    /\ phase = "finish"
    /\ inProgress' = FALSE
    /\ phase' = "publish"
    /\ UNCHANGED <<truth, rows, step, snapshot, marks, initialized, timeouts, busVars, budget, history>>

SetInitialized ==
    /\ phase = "publish"
    /\ initialized' = TRUE
    /\ phase' = "done"
    /\ UNCHANGED <<truth, rows, step, snapshot, marks, inProgress, timeouts, busVars, budget, history>>

\* InitiatorThread._run finds _stopped set and resets _started.
ThreadEnds ==
    /\ phase = "done"
    /\ phase' = "off"
    /\ UNCHANGED <<truth, rows, step, snapshot, marks, inProgress, initialized, timeouts, busVars, budget, history>>

\* A request or a transaction fails: InitiatorThread._initiate.
CanFail == {"fetch", "apply"}

\* Mutant: _stopped is set whatever initiate did.
InitFailsForGood ==
    /\ phase \in CanFail
    /\ Spend("failures")
    /\ phase' = "done"
    /\ snapshot' = {}
    /\ calm' = FALSE
    /\ UNCHANGED <<truth, rows, step, marks, inProgress, initialized, timeouts, busVars, stale, doubt>>

InitFails ==
    /\ phase \in CanFail
    /\ Spend("failures")
    /\ phase' = "wait"
    /\ snapshot' = {}
    /\ calm' = FALSE
    /\ UNCHANGED <<truth, rows, step, marks, inProgress, initialized, timeouts, busVars, stale, doubt>>

\* requests.ReadTimeout: one try fewer, and SIGTERM when none is left.
InitTimesOut ==
    /\ phase = "fetch"
    /\ Spend("failures")
    /\ IF timeouts < TimeoutRetries
       THEN phase' = "wait" /\ timeouts' = timeouts + 1
       ELSE phase' = "stopped" /\ UNCHANGED timeouts
    /\ snapshot' = {}
    /\ calm' = FALSE
    /\ UNCHANGED <<truth, rows, step, marks, inProgress, initialized, busVars, stale, doubt>>

Retry ==
    /\ phase = "wait"
    /\ phase' = "reset"
    /\ UNCHANGED <<truth, rows, step, snapshot, marks, inProgress, initialized, timeouts, busVars, budget, history>>

-----------------------------------------------------------------------------
Initiate ==
    \/ ResetMilestones \/ SetInProgress \/ Fetch \/ Mark \/ ApplyTable
    \/ Replay \/ ReplayEnds \/ ClearInProgress \/ SetInitialized \/ ThreadEnds \/ Retry
Consume == CheckInProgress \/ Delay \/ Drop \/ AppendDelayed \/ Apply \/ RestartIgnored \/ Restart

Next == Change \/ Boot \/ Consume \/ Initiate \/ InitFails \/ InitTimesOut

Spec == Init /\ [][Next]_vars
\* Both threads run; the servers may do nothing, and requests need not fail.
FairSpec == Spec /\ WF_vars(Initiate) /\ WF_vars(Consume)

-----------------------------------------------------------------------------
(* Properties *)

\* Whatever is inserted has its owner: a session, refresh token, line or
\* channel of a user that is not there is skipped and does not make the
\* transaction fail, and no deletion leaves orphans.
OwnersPresent == Closed(rows)

\* While the API serves presences (is_initialized), no initialization rewrites
\* the tables: it has withdrawn the flag before and gives it back when the
\* events are let through again.
ServedWhenReady == initialized => ~inProgress /\ phase \in {"done", "off"}

\* Nothing is under way and everything published has been handled.
AtRest == phase = "off" /\ initialized /\ events = <<>>

\* The rows are exactly what the servers hold, except for facts of which the
\* initialization or a handler has seen an event out of its order.  These are
\* the known windows: an event between the answer of a server and its mark, an
\* event delayed when on_init_complete has ended, callbacks of an earlier
\* attempt replayed, an event whose owner was not there, an ignored restart.
Converged == AtRest => (rows \ truth) \cup (truth \ rows) \subseteq doubt

\* An initialization during which nothing else happens, and which has no
\* callbacks to replay, makes the tables exact, whatever was in them.
ExactWhenCalm == AtRest /\ calm /\ delayed = <<>> => rows = truth

\* An initialization that has begun ends: the presences are served, or the
\* timeouts are used up and the daemon is told to stop.
Completes == phase = "reset" ~> initialized \/ phase = "stopped"
=============================================================================
