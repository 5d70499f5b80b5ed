----------------------- MODULE ConnectorRunnersProofs -----------------------
(***************************************************************************)
(* Theorems about ConnectorRunners, for any number of callers, changes and *)
(* faults.                                                                 *)
(***************************************************************************)
EXTENDS ConnectorRunners, TLAPS

USE RunnersAssumption

\* Every step of the main thread, the runners, the store and the callers
\* keeps every variable in its type.
LEMMA TypeStep == TypeOK /\ [Next]_vars => TypeOK'
<1> SUFFICES ASSUME TypeOK, [Next]_vars PROVE TypeOK'
  OBVIOUS
<1> USE DEF TypeOK, Runners, Phase, Populate, Goto, calls, tasks, history
<1>1. ASSUME NEW r \in Runners, StartRunner(r) PROVE TypeOK'
  BY <1>1 DEF StartRunner
<1>2. CASE Stop
  BY <1>2 DEF Stop
<1>3. CASE ListenerJoined
  <2>1. lateJoin' \in BOOLEAN /\ faults' \in Nat
    <3>1. CASE UNCHANGED <<faults, lateJoin>>
      BY <3>1
    <3>2. CASE Spend /\ lateJoin' = TRUE
      BY <3>2 DEF Spend
    <3>. QED  BY <1>3, <3>1, <3>2 DEF ListenerJoined, Joined
  <2>2. closing' \subseteq Runners
    BY <1>3 DEF ListenerJoined
  <2>. QED  BY <1>3, <2>1, <2>2 DEF ListenerJoined
<1>4. CASE DeliveryJoined
  <2>1. lateJoin' \in BOOLEAN /\ faults' \in Nat
    <3>1. CASE UNCHANGED <<faults, lateJoin>>
      BY <3>1
    <3>2. CASE Spend /\ lateJoin' = TRUE
      BY <3>2 DEF Spend
    <3>. QED  BY <1>4, <3>1, <3>2 DEF DeliveryJoined, Joined
  <2>. QED  BY <1>4, <2>1 DEF DeliveryJoined
<1>5. CASE TokenArrives
  BY <1>5 DEF TokenArrives
<1>6. ASSUME NEW found \in BOOLEAN, PopulateFetch(found) PROVE TypeOK'
  BY <1>6 DEF PopulateFetch
<1>7. CASE ListBackendsFails
  BY <1>7 DEF ListBackendsFails, Spend
<1>8. CASE PopulateTimesOut
  BY <1>8 DEF PopulateTimesOut, Spend
<1>9. CASE PopulateFails
  BY <1>9 DEF PopulateFails, Spend
<1>10. CASE FetchSilently
  BY <1>10 DEF FetchSilently
<1>11. ASSUME NEW c \in Callers, Change(c) PROVE TypeOK'
  BY <1>11 DEF Change, Step, Pending
<1>12. ASSUME NEW c \in Callers, ReadLoop(c) PROVE TypeOK'
  BY <1>12 DEF ReadLoop, Step
<1>13. ASSUME NEW c \in Callers, TakeSnapshot(c) PROVE TypeOK'
  BY <1>13 DEF TakeSnapshot, Step
<1>14. ASSUME NEW c \in Callers, PostReconcile(c) PROVE TypeOK'
  BY <1>14 DEF PostReconcile, Step
<1>15. CASE RunPosted
  <2>1. posted' \in Seq(BOOLEAN)
    BY <1>15 DEF RunPosted
  <2>2. listener' \in {"none", "live", "cancelling", "ended", "stuck"}
    BY <1>15 DEF RunPosted, Reconcile, After
  <2>3. leaving' \in BOOLEAN
    BY <1>15, Zenon DEF RunPosted, Reconcile, Leaves
  <2>. QED  BY <1>15, <2>1, <2>2, <2>3 DEF RunPosted
<1>16. CASE ListenerEnds
  BY <1>16 DEF ListenerEnds, Spend
<1>17. CASE ListenerCancelled
  <2>1. listener' \in {"none", "live", "cancelling", "ended", "stuck"}
    BY <1>17 DEF ListenerCancelled
  <2>2. leaving' \in BOOLEAN
    <3>1. leaving' = leaving \/ leaving' = FALSE
      BY <1>17, Zenon DEF ListenerCancelled
    <3>. QED  BY <3>1, Zenon
  <2>. QED  BY <1>17, <2>1, <2>2 DEF ListenerCancelled
<1>18. CASE RunDelivery
  BY <1>18 DEF RunDelivery
<1>19. CASE RunListener
  BY <1>19 DEF RunListener, Reconcile, After, Leaves, Pending
<1>20. CASE RunListenerFails
  <2>1. faults' \in Nat
    BY <1>20 DEF RunListenerFails, Spend
  <2>2. listener' \in {"none", "live", "cancelling", "ended", "stuck"}
    BY <1>20 DEF RunListenerFails, Asked, After
  <2>3. leaving' \in BOOLEAN
    <3>1. leaving' = leaving \/ leaving' = Leaves(cached)
      BY <1>20, Zenon DEF RunListenerFails
    <3>. QED  BY <3>1, Zenon DEF Leaves
  <2>. QED  BY <1>20, <2>1, <2>2, <2>3 DEF RunListenerFails
<1>21. CASE RunDeliveryFails
  BY <1>21 DEF RunDeliveryFails, Spend
<1>22. ASSUME NEW r \in Runners, CloseRun(r) PROVE TypeOK'
  BY <1>22 DEF CloseRun, Closing, Asked, Populated
<1>23. ASSUME NEW r \in Runners, PopulateCancelled(r) PROVE TypeOK'
  BY <1>23 DEF PopulateCancelled, Asked
<1>24. ASSUME NEW r \in Runners, Unwind(r) PROVE TypeOK'
  BY <1>24 DEF Unwind, Asked
<1>25. ASSUME NEW r \in Runners, CloseLoop(r) PROVE TypeOK'
  <2>1. phase' \in [Runners -> Phase]
    BY <1>25 DEF CloseLoop
  <2>2. listener' \in {"none", "live", "cancelling", "ended", "stuck"}
    BY <1>25 DEF CloseLoop
  <2>3. posted' \in Seq(BOOLEAN)
    <3>1. posted' = posted \/ posted' = <<>>
      BY <1>25 DEF CloseLoop
    <3>2. posted \in Seq(BOOLEAN) /\ <<>> \in Seq(BOOLEAN)
      OBVIOUS
    <3>. QED  BY <3>1, <3>2, Zenon
  <2>4. caller' \in [Callers -> {"idle", "resync", "looped", "taken"}]
    BY <1>25 DEF CloseLoop
  <2>5. snapshot' \in [Callers -> BOOLEAN]
    BY <1>25 DEF CloseLoop
  <2>. QED  BY <1>25, <2>1, <2>2, <2>3, <2>4, <2>5 DEF CloseLoop
<1>26. ASSUME NEW r \in Runners, WaitBackoff(r) PROVE TypeOK'
  BY <1>26 DEF WaitBackoff, Closing
<1>27. CASE UNCHANGED vars
  BY <1>27 DEF vars
<1>. QED
  BY <1>1, <1>2, <1>3, <1>4, <1>5, <1>6, <1>7, <1>8, <1>9, <1>10, <1>11, <1>12,
     <1>13, <1>14, <1>15, <1>16, <1>17, <1>18, <1>19, <1>20, <1>21, <1>22, <1>23,
     <1>24, <1>25, <1>26, <1>27
  DEF Next, RunnerStep, PopulateThread, CallerStep

\* Type correctness: in every reachable state each variable has its type.
THEOREM RunnersTypeCorrect == Spec => []TypeOK
<1>1. Init => TypeOK
  <2> SUFFICES ASSUME Init PROVE TypeOK
    OBVIOUS
  <2>1. phase \in [Runners -> Phase] /\ populate \in Populate /\ closing \subseteq Runners
    BY DEF Init, Runners, Phase, Populate
  <2>2. posted \in Seq(BOOLEAN)
    BY DEF Init
  <2>3. snapshot \in [Callers -> BOOLEAN]
    BY DEF Init
  <2>. QED  BY <2>1, <2>2, <2>3 DEF Init, TypeOK
<1>. QED  BY <1>1, TypeStep, PTL DEF Spec

-----------------------------------------------------------------------------
\* A cancelled or running listener belongs to a loop of the listener runner.
Hosted ==
    phase["listener"] \in {"new", "backoff", "ended"} =>
        listener \notin {"live", "cancelling"} /\ ~leaving

\* How far the main thread is says how far the runners can be: the delivery
\* runner ends only when it is told to, after the listener runner was joined,
\* or with the future that the listener runner cancelled.
Order ==
    /\ phase["delivery"] = "new" => main = "start"
    /\ main \in {"start", "starting"} => phase["listener"] = "new"
    /\ phase["delivery"] \in {"unwind", "close", "ended"} =>
         "delivery" \in closing \/ populate = "cancelled"
    /\ "delivery" \in closing => main \in {"join_delivery", "stopped"}
    /\ main \in {"join_delivery", "stopped"} => phase["listener"] = "ended" \/ lateJoin

\* No step breaks the order of the stops or leaves a listener without a loop.
LEMMA OrderStep == TypeOK /\ Hosted /\ Order /\ [Next]_vars => (Hosted /\ Order)'
<1> SUFFICES ASSUME TypeOK, Hosted, Order, [Next]_vars PROVE (Hosted /\ Order)'
  OBVIOUS
<1> USE DEF TypeOK, Hosted, Order, Runners, Phase, Populate, Goto, Looping, calls, tasks, history
<1>1. ASSUME NEW r \in Runners, StartRunner(r) PROVE (Hosted /\ Order)'
  BY <1>1 DEF StartRunner
<1>2. CASE Stop
  BY <1>2 DEF Stop
<1>3. CASE ListenerJoined
  BY <1>3 DEF ListenerJoined, Joined, Spend
<1>4. CASE DeliveryJoined
  BY <1>4 DEF DeliveryJoined, Joined, Spend
<1>5. CASE TokenArrives
  BY <1>5 DEF TokenArrives
<1>6. ASSUME NEW found \in BOOLEAN, PopulateFetch(found) PROVE (Hosted /\ Order)'
  BY <1>6 DEF PopulateFetch
<1>7. CASE ListBackendsFails
  BY <1>7 DEF ListBackendsFails, Spend
<1>8. CASE PopulateTimesOut
  BY <1>8 DEF PopulateTimesOut, Spend
<1>9. CASE PopulateFails
  BY <1>9 DEF PopulateFails, Spend
<1>10. CASE FetchSilently
  BY <1>10 DEF FetchSilently
<1>11. ASSUME NEW c \in Callers, Change(c) PROVE (Hosted /\ Order)'
  BY <1>11 DEF Change, Step, Pending
<1>12. ASSUME NEW c \in Callers, ReadLoop(c) PROVE (Hosted /\ Order)'
  BY <1>12 DEF ReadLoop, Step
<1>13. ASSUME NEW c \in Callers, TakeSnapshot(c) PROVE (Hosted /\ Order)'
  BY <1>13 DEF TakeSnapshot, Step
<1>14. ASSUME NEW c \in Callers, PostReconcile(c) PROVE (Hosted /\ Order)'
  BY <1>14 DEF PostReconcile, Step
<1>15. CASE RunPosted
  BY <1>15 DEF RunPosted, Reconcile, After, Leaves
<1>16. CASE ListenerEnds
  BY <1>16 DEF ListenerEnds, Spend
<1>17. CASE ListenerCancelled
  BY <1>17 DEF ListenerCancelled
<1>18. CASE RunDelivery
  BY <1>18 DEF RunDelivery
<1>19. CASE RunListener
  BY <1>19 DEF RunListener, Reconcile, After, Leaves, Pending
<1>20. CASE RunListenerFails
  BY <1>20 DEF RunListenerFails, Spend, Asked, After, Leaves
<1>21. CASE RunDeliveryFails
  BY <1>21 DEF RunDeliveryFails, Spend
<1>22. ASSUME NEW r \in Runners, CloseRun(r) PROVE (Hosted /\ Order)'
  BY <1>22 DEF CloseRun, Closing, Asked, Populated
<1>23. ASSUME NEW r \in Runners, PopulateCancelled(r) PROVE (Hosted /\ Order)'
  BY <1>23 DEF PopulateCancelled, Asked
<1>24. ASSUME NEW r \in Runners, Unwind(r) PROVE (Hosted /\ Order)'
  BY <1>24 DEF Unwind, Asked
<1>25. ASSUME NEW r \in Runners, CloseLoop(r) PROVE (Hosted /\ Order)'
  BY <1>25 DEF CloseLoop
<1>26. ASSUME NEW r \in Runners, WaitBackoff(r) PROVE (Hosted /\ Order)'
  BY <1>26 DEF WaitBackoff, Closing
<1>27. CASE UNCHANGED vars
  BY <1>27 DEF vars
<1>. QED
  BY <1>1, <1>2, <1>3, <1>4, <1>5, <1>6, <1>7, <1>8, <1>9, <1>10, <1>11, <1>12,
     <1>13, <1>14, <1>15, <1>16, <1>17, <1>18, <1>19, <1>20, <1>21, <1>22, <1>23,
     <1>24, <1>25, <1>26, <1>27
  DEF Next, RunnerStep, PopulateThread, CallerStep

\* No listener outlives the thread of the delivery runner it hands its
\* messages to, but for a join that timed out or a stop before the store was
\* populated, in every behaviour.
THEOREM ListenersNeedDeliveryHolds == Spec => []ListenersNeedDelivery
<1>1. Init => Hosted /\ Order
  BY DEF Init, Hosted, Order, Runners
<1>2. TypeOK /\ Hosted /\ Order => ListenersNeedDelivery
  BY DEF TypeOK, Hosted, Order, ListenersNeedDelivery, Runners
<1>. QED  BY <1>1, <1>2, RunnersTypeCorrect, OrderStep, PTL DEF Spec

-----------------------------------------------------------------------------
\* What the listener is when the runner has caught up with the store.
Matches(task, wanted) == IF wanted THEN task \in {"live", "stuck"} ELSE task = "none"

\* While _run is at work, snapshots that did not overlap are under way one at a
\* time, and the one under way shows the store as it is, unless the store has
\* changed unseen; with none under way the listener matches the store.
OneSnapshot ==
    /\ posted # <<>> => Tail(posted) = <<>>
    /\ \A c \in Callers : caller[c] # "idle" => posted = <<>>
    /\ \A c, d \in Callers : caller[c] # "idle" /\ caller[d] # "idle" => c = d

Fresh ==
    /\ posted # <<>> => Head(posted) = cached
    /\ \A c \in Callers : caller[c] = "taken" => snapshot[c] = cached
    /\ ~Pending => Matches(listener, cached)

Reconciled ==
    /\ phase["listener"] \in {"populate", "run"} => listener # "cancelling"
    /\ phase["listener"] = "run" /\ ~overlapped => OneSnapshot /\ (~unseen => Fresh)

\* No step loses the last snapshot, or leaves the listener behind it.
LEMMA ReconciledStep == TypeOK /\ Hosted /\ Order /\ Reconciled /\ [Next]_vars => Reconciled'
<1> SUFFICES ASSUME TypeOK, Hosted, Order, Reconciled, [Next]_vars PROVE Reconciled'
  OBVIOUS
<1> USE DEF TypeOK, Hosted, Reconciled, OneSnapshot, Fresh, Matches, Pending, Runners, Phase, Populate,
            Goto, Looping, calls, tasks, history
<1>1. ASSUME NEW r \in Runners, StartRunner(r) PROVE Reconciled'
  <2>1. phase'["listener"] \in {"populate", "run"} => listener # "cancelling"
    BY <1>1 DEF StartRunner, Order
  <2>2. phase'["listener"] = "run" => phase["listener"] = "run"
    BY <1>1 DEF StartRunner
  <2>. QED  BY <1>1, <2>1, <2>2 DEF StartRunner
<1>2. CASE Stop
  BY <1>2 DEF Stop
<1>3. CASE ListenerJoined
  BY <1>3 DEF ListenerJoined, Joined
<1>4. CASE DeliveryJoined
  BY <1>4 DEF DeliveryJoined, Joined
<1>5. CASE TokenArrives
  BY <1>5 DEF TokenArrives
<1>6. ASSUME NEW found \in BOOLEAN, PopulateFetch(found) PROVE Reconciled'
  BY <1>6 DEF PopulateFetch
<1>7. CASE ListBackendsFails
  BY <1>7 DEF ListBackendsFails
<1>8. CASE PopulateTimesOut
  BY <1>8 DEF PopulateTimesOut
<1>9. CASE PopulateFails
  BY <1>9 DEF PopulateFails
<1>10. CASE FetchSilently
  BY <1>10 DEF FetchSilently
<1>11. ASSUME NEW c \in Callers, Change(c) PROVE Reconciled'
  <2>1. /\ UNCHANGED <<phase, listener, posted, snapshot, unseen>>
        /\ caller[c] = "idle" /\ caller' = [caller EXCEPT ![c] = "resync"]
    BY <1>11 DEF Change, Step
  <2>2. CASE Pending
    <3>1. overlapped'
      BY <1>11, <2>2, Zenon DEF Change
    <3>. QED  BY <2>1, <3>1
  <2>3. CASE ~Pending
    BY <2>1, <2>3
  <2>. QED  BY <2>2, <2>3
<1>12. ASSUME NEW c \in Callers, ReadLoop(c) PROVE Reconciled'
  BY <1>12 DEF ReadLoop, Step
<1>13. ASSUME NEW c \in Callers, TakeSnapshot(c) PROVE Reconciled'
  BY <1>13 DEF TakeSnapshot, Step
<1>14. ASSUME NEW c \in Callers, PostReconcile(c) PROVE Reconciled'
  <2>1. /\ UNCHANGED <<phase, listener, cached, overlapped, unseen>>
        /\ caller[c] = "taken" /\ caller' = [caller EXCEPT ![c] = "idle"]
        /\ posted' = Append(posted, snapshot[c])
        /\ snapshot' = [snapshot EXCEPT ![c] = FALSE]
    BY <1>14 DEF PostReconcile, Step
  <2>2. CASE phase["listener"] = "run" /\ ~overlapped
    <3>1. posted = <<>> /\ \A d \in Callers \ {c} : caller[d] = "idle"
      BY <2>1, <2>2
    <3>2. posted' # <<>> /\ Head(posted') = snapshot[c] /\ Tail(posted') = <<>>
      BY <2>1, <3>1
    <3>3. \A d \in Callers : caller'[d] = "idle"
      BY <2>1, <3>1
    <3>. QED  BY <2>1, <2>2, <3>2, <3>3
  <2>3. CASE phase["listener"] # "run" \/ overlapped
    BY <2>1, <2>3
  <2>. QED  BY <2>2, <2>3
<1>15. CASE RunPosted
  BY <1>15 DEF RunPosted, Reconcile, After
<1>16. CASE ListenerEnds
  BY <1>16 DEF ListenerEnds
<1>17. CASE ListenerCancelled
  BY <1>17 DEF ListenerCancelled
<1>18. CASE RunDelivery
  BY <1>18 DEF RunDelivery
<1>19. CASE RunListener
  BY <1>19 DEF RunListener, Reconcile, After
<1>20. CASE RunListenerFails
  BY <1>20 DEF RunListenerFails
<1>21. CASE RunDeliveryFails
  BY <1>21 DEF RunDeliveryFails
<1>22. ASSUME NEW r \in Runners, CloseRun(r) PROVE Reconciled'
  BY <1>22 DEF CloseRun
<1>23. ASSUME NEW r \in Runners, PopulateCancelled(r) PROVE Reconciled'
  BY <1>23 DEF PopulateCancelled
<1>24. ASSUME NEW r \in Runners, Unwind(r) PROVE Reconciled'
  BY <1>24 DEF Unwind
<1>25. ASSUME NEW r \in Runners, CloseLoop(r) PROVE Reconciled'
  BY <1>25 DEF CloseLoop
<1>26. ASSUME NEW r \in Runners, WaitBackoff(r) PROVE Reconciled'
  BY <1>26 DEF WaitBackoff
<1>27. CASE UNCHANGED vars
  BY <1>27 DEF vars
<1>. QED
  BY <1>1, <1>2, <1>3, <1>4, <1>5, <1>6, <1>7, <1>8, <1>9, <1>10, <1>11, <1>12,
     <1>13, <1>14, <1>15, <1>16, <1>17, <1>18, <1>19, <1>20, <1>21, <1>22, <1>23,
     <1>24, <1>25, <1>26, <1>27
  DEF Next, RunnerStep, PopulateThread, CallerStep

\* Whatever the callers, the callbacks and the crashes of the runner do, once
\* the callbacks have run it listens for exactly the keys in the store,
\* unless snapshots overlapped or a change was followed by none.
THEOREM ListeningHolds == Spec => []Listening
<1>1. Init => Hosted /\ Order /\ Reconciled
  BY DEF Init, Hosted, Order, Reconciled, Runners
<1>2. Reconciled => Listening
  BY DEF Reconciled, Fresh, Matches, Listening, Quiet
<1>. QED  BY <1>1, <1>2, RunnersTypeCorrect, OrderStep, ReconciledStep, PTL DEF Spec
=============================================================================
