----------------------------- MODULE AsyncQueue -----------------------------
(***************************************************************************)
(* plugin_helpers/queue.py: the queue between the threads that receive     *)
(* inbound messages and status updates (webhook requests, pollers) and the *)
(* _dispatch task of the delivery runner.  It has no lock: a producer and  *)
(* the consumer meet in the deque and in the _wake future, one bytecode at *)
(* a time, so every read and every write of them is a step.                *)
(*                                                                         *)
(* The deque is abstracted to its length.  Of the futures the consumer     *)
(* makes, only the one in _wake can still be awaited, so a producer's      *)
(* reference is to that one or to an old one.                              *)
(***************************************************************************)
EXTENDS Integers, FiniteSets

CONSTANTS
    Producers,   \* threads that call append
    MaxSize,     \* maxsize
    MaxAppends,  \* bound: calls of append by each producer
    MaxRestarts  \* bound: restarts of the delivery runner

ASSUME QueueAssumption ==
    /\ IsFiniteSet(Producers) /\ Producers # {}
    /\ MaxSize \in Nat \ {0}
    /\ MaxAppends \in Nat
    /\ MaxRestarts \in Nat

VARIABLES
    items,    \* len(_items)
    wake,     \* _wake: "none", or the state of the future it holds
    producer, \* where each producer is in append
    ref,      \* the future append has read: "none", "current" or "old"
    calls,    \* calls of append still to come
    consumer, \* where the consumer is in __anext__
    restarts  \* restarts still to come

vars == <<items, wake, producer, ref, calls, consumer, restarts>>

\* Before the capacity check; after it; after the append; _wake read and
\* found not done.
ProducerState == {"idle", "checked", "appended", "waking"}

\* At the head of the while, before and after the assignment of _wake,
\* awaiting it, about to popleft; cancelled, or reset and not yet started.
ConsumerState == {"check", "publish", "recheck", "wait", "pop", "down", "reset"}

TypeOK ==
    /\ items \in Nat
    /\ wake \in {"none", "pending", "done"}
    /\ producer \in [Producers -> ProducerState]
    /\ ref \in [Producers -> {"none", "current", "old"}]
    /\ calls \in [Producers -> Nat]
    /\ consumer \in ConsumerState
    /\ restarts \in Nat

Init ==
    /\ items = 0
    /\ wake = "none"
    /\ producer = [p \in Producers |-> "idle"]
    /\ ref = [p \in Producers |-> "none"]
    /\ calls = [p \in Producers |-> MaxAppends]
    /\ consumer = "reset"
    /\ restarts = MaxRestarts

-----------------------------------------------------------------------------
\* Mutant: the capacity check is off by one.
CheckCapacityLate(p) ==
    /\ producer[p] = "idle"
    /\ calls[p] > 0
    /\ calls' = [calls EXCEPT ![p] = @ - 1]
    /\ producer' = [producer EXCEPT ![p] = IF items > MaxSize THEN "idle" ELSE "checked"]
    /\ UNCHANGED <<items, wake, ref, consumer, restarts>>

\* append: len(self._items) >= self._maxsize raises QueueFull, and
\* enqueue_message drops the message.
CheckCapacity(p) ==
    /\ producer[p] = "idle"
    /\ calls[p] > 0
    /\ calls' = [calls EXCEPT ![p] = @ - 1]
    /\ producer' = [producer EXCEPT ![p] = IF items >= MaxSize THEN "idle" ELSE "checked"]
    /\ UNCHANGED <<items, wake, ref, consumer, restarts>>

\* Mutant: append does not look for a consumer to wake.
AppendQuietly(p) ==
    /\ producer[p] = "checked"
    /\ items' = items + 1
    /\ producer' = [producer EXCEPT ![p] = "idle"]
    /\ UNCHANGED <<wake, ref, calls, consumer, restarts>>

\* self._items.append(item)
AppendItem(p) ==
    /\ producer[p] = "checked"
    /\ items' = items + 1
    /\ producer' = [producer EXCEPT ![p] = "appended"]
    /\ UNCHANGED <<wake, ref, calls, consumer, restarts>>

\* (wake := self._wake) is not None and not wake.done()
ReadWake(p) ==
    /\ producer[p] = "appended"
    /\ producer' = [producer EXCEPT ![p] = IF wake = "pending" THEN "waking" ELSE "idle"]
    /\ ref' = [ref EXCEPT ![p] = IF wake = "pending" THEN "current" ELSE "none"]
    /\ UNCHANGED <<items, wake, calls, consumer, restarts>>

\* wake.set_result(None); InvalidStateError (done meanwhile) is ignored.
SetResult(p) ==
    /\ producer[p] = "waking"
    /\ producer' = [producer EXCEPT ![p] = "idle"]
    /\ ref' = [ref EXCEPT ![p] = "none"]
    /\ wake' = IF ref[p] = "current" THEN "done" ELSE wake
    /\ UNCHANGED <<items, calls, consumer, restarts>>

\* while not self._items
CheckItems ==
    /\ consumer = "check"
    /\ consumer' = IF items = 0 THEN "publish" ELSE "pop"
    /\ UNCHANGED <<items, wake, producer, ref, calls, restarts>>

\* self._wake = wake: what the producers hold is an old future now.
PublishWake ==
    /\ consumer = "publish"
    /\ consumer' = "recheck"
    /\ wake' = "pending"
    /\ ref' = [p \in Producers |-> IF ref[p] = "current" THEN "old" ELSE ref[p]]
    /\ UNCHANGED <<items, producer, calls, restarts>>

\* Mutants: no second look at the deque, and no wait after it.
WaitWithoutRecheck ==
    /\ consumer = "recheck"
    /\ consumer' = "wait"
    /\ UNCHANGED <<items, wake, producer, ref, calls, restarts>>

PopWithoutWait ==
    /\ consumer = "recheck"
    /\ consumer' = "pop"
    /\ UNCHANGED <<items, wake, producer, ref, calls, restarts>>

\* if self._items: break, before the await
RecheckItems ==
    /\ consumer = "recheck"
    /\ consumer' = IF items = 0 THEN "wait" ELSE "pop"
    /\ UNCHANGED <<items, wake, producer, ref, calls, restarts>>

\* await asyncio.wrap_future(wake) returns
WakeUp ==
    /\ consumer = "wait"
    /\ wake = "done"
    /\ consumer' = "check"
    /\ UNCHANGED <<items, wake, producer, ref, calls, restarts>>

\* self._items.popleft(); _dispatch schedules the message and iterates.
PopItem ==
    /\ consumer = "pop"
    /\ items' = items - 1
    /\ consumer' = "check"
    /\ UNCHANGED <<wake, producer, ref, calls, restarts>>

\* The runner stops: the dispatch task is cancelled in its await, which
\* cancels the future.
CancelConsumer ==
    /\ consumer = "wait"
    /\ restarts > 0
    /\ restarts' = restarts - 1
    /\ consumer' = "down"
    /\ wake' = "done"
    /\ UNCHANGED <<items, producer, ref, calls>>

\* reset, called by _reset_loop_state when the runner starts again.
ResetQueue ==
    /\ consumer = "down"
    /\ consumer' = "reset"
    /\ wake' = "none"
    /\ ref' = [p \in Producers |-> IF ref[p] = "current" THEN "old" ELSE ref[p]]
    /\ UNCHANGED <<items, producer, calls, restarts>>

\* _run creates the dispatch task once the store is populated.
StartConsumer ==
    /\ consumer = "reset"
    /\ consumer' = "check"
    /\ UNCHANGED <<items, wake, producer, ref, calls, restarts>>

ProducerStep(p) == AppendItem(p) \/ ReadWake(p) \/ SetResult(p)

ConsumerStep ==
    \/ CheckItems
    \/ PublishWake
    \/ RecheckItems
    \/ WakeUp
    \/ PopItem
    \/ ResetQueue
    \/ StartConsumer

Next ==
    \/ \E p \in Producers : CheckCapacity(p) \/ ProducerStep(p)
    \/ ConsumerStep
    \/ CancelConsumer

Spec == Init /\ [][Next]_vars

\* The threads are scheduled; a producer need not call append again.
FairSpec ==
    /\ Spec
    /\ \A p \in Producers : WF_vars(ProducerStep(p))
    /\ WF_vars(ConsumerStep)

-----------------------------------------------------------------------------
\* A producer that is between its append and the wake-up of the future the
\* consumer awaits.
WillWake(p) ==
    \/ producer[p] = "appended"
    \/ producer[p] = "waking" /\ ref[p] = "current"

\* No lost wake-up: the consumer never sleeps on an unresolved future while
\* there are items, unless a producer is about to resolve that very future.
\* This is why __anext__ looks at the deque again after it sets _wake.
NoLostWakeup ==
    consumer = "wait" /\ wake # "done" /\ items > 0 => \E p \in Producers : WillWake(p)

\* popleft is never called on an empty deque, restarts included.
PopHasItem == consumer = "pop" => items > 0

\* The capacity check and the append are two steps: every producer but the
\* first can pass the check before an append is seen, so the queue can exceed
\* maxsize, but by no more than the other producers.
Overshoot == items <= MaxSize + Cardinality(Producers) - 1

\* Every item is handed to the consumer, through restarts of the runner.
Drains == items > 0 ~> items = 0
=============================================================================
