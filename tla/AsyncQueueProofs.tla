-------------------------- MODULE AsyncQueueProofs --------------------------
(***************************************************************************)
(* Theorems about AsyncQueue, for every number of producers, every maxsize *)
(* and every number of calls and restarts.                                 *)
(***************************************************************************)
EXTENDS AsyncQueue, FiniteSetTheorems, TLAPS

USE QueueAssumption

\* The invariant of the wake-up protocol: a consumer that has published a
\* future can only have it replaced by its own next pass, so _wake holds one
\* while it is looked at or awaited.
WakePublished == consumer \in {"recheck", "wait"} => wake # "none"

QueueInv == TypeOK /\ PopHasItem /\ WakePublished /\ NoLostWakeup

\* Every read and write of append, __anext__ and reset keeps the invariant.
LEMMA QueueStep == QueueInv /\ [Next]_vars => QueueInv'
<1> SUFFICES ASSUME QueueInv, [Next]_vars PROVE QueueInv'
  OBVIOUS
<1> USE DEF QueueInv, TypeOK, PopHasItem, WakePublished, NoLostWakeup, WillWake,
            ProducerState, ConsumerState
<1>1. ASSUME NEW p \in Producers, CheckCapacity(p) PROVE QueueInv'
  BY <1>1 DEF CheckCapacity
<1>2. ASSUME NEW p \in Producers, AppendItem(p) PROVE QueueInv'
  <2>1. WillWake(p)'
    BY <1>2 DEF AppendItem
  <2>. QED  BY <1>2, <2>1 DEF AppendItem
<1>3. ASSUME NEW p \in Producers, ReadWake(p) PROVE QueueInv'
  <2>1. consumer' = "wait" /\ wake' # "done" => WillWake(p)'
    BY <1>3 DEF ReadWake
  <2>. QED  BY <1>3, <2>1 DEF ReadWake
<1>4. ASSUME NEW p \in Producers, SetResult(p) PROVE QueueInv'
  BY <1>4 DEF SetResult
<1>5. CASE CheckItems
  BY <1>5 DEF CheckItems
<1>6. CASE PublishWake
  BY <1>6 DEF PublishWake
<1>7. CASE RecheckItems
  BY <1>7 DEF RecheckItems
<1>8. CASE WakeUp
  BY <1>8 DEF WakeUp
<1>9. CASE PopItem
  BY <1>9 DEF PopItem
<1>10. CASE CancelConsumer
  BY <1>10 DEF CancelConsumer
<1>11. CASE ResetQueue
  BY <1>11 DEF ResetQueue
<1>12. CASE StartConsumer
  BY <1>12 DEF StartConsumer
<1>13. CASE UNCHANGED vars
  BY <1>13 DEF vars
<1>. QED
  BY <1>1, <1>2, <1>3, <1>4, <1>5, <1>6, <1>7, <1>8, <1>9, <1>10, <1>11, <1>12, <1>13
  DEF Next, ProducerStep, ConsumerStep

\* In every behaviour the queue keeps its types and the consumer never sleeps
\* on an unresolved future while there are items nobody will wake it for, and
\* popleft always finds an item.
THEOREM NoLostWakeupHolds == Spec => [](TypeOK /\ PopHasItem /\ NoLostWakeup)
<1>1. Init => QueueInv
  BY DEF Init, QueueInv, TypeOK, PopHasItem, WakePublished, NoLostWakeup, ProducerState,
         ConsumerState
<1>2. QueueInv => TypeOK /\ PopHasItem /\ NoLostWakeup
  BY DEF QueueInv
<1>. QED  BY <1>1, <1>2, QueueStep, PTL DEF Spec

\* popleft of the consumer finds an item whenever it is reached, restarts of
\* the runner included.
THEOREM PopHasItemHolds == Spec => []PopHasItem
  BY NoLostWakeupHolds, PTL

-----------------------------------------------------------------------------
\* The producers that have passed the capacity check and not appended yet.
Committed == {p \in Producers : producer[p] = "checked"}

\* The items and the appends already let through are bounded together.
OvershootInv == items + Cardinality(Committed) <= MaxSize + Cardinality(Producers) - 1

\* A set of producers is finite, and leaving one producer out makes it
\* smaller than the whole.
LEMMA CommittedCardinality ==
  ASSUME NEW S \in SUBSET Producers
  PROVE  /\ IsFiniteSet(S)
         /\ Cardinality(S) \in Nat
         /\ Cardinality(Producers) \in Nat
         /\ Cardinality(S) <= Cardinality(Producers)
         /\ \A p \in Producers \ S : Cardinality(S) + 1 <= Cardinality(Producers)
<1>1. IsFiniteSet(S) /\ Cardinality(S) <= Cardinality(Producers)
  BY FS_Subset
<1>2. Cardinality(S) \in Nat /\ Cardinality(Producers) \in Nat
  BY <1>1, FS_CardinalityType
<1>3. ASSUME NEW p \in Producers \ S PROVE Cardinality(S) + 1 <= Cardinality(Producers)
  <2>1. Cardinality(S \cup {p}) = Cardinality(S) + 1
    BY <1>1, FS_AddElement
  <2>2. Cardinality(S \cup {p}) <= Cardinality(Producers)
    BY FS_Subset
  <2>. QED  BY <2>1, <2>2
<1>. QED  BY <1>1, <1>2, <1>3

\* Passing the check and appending keep the bound; the consumer only helps.
LEMMA OvershootStep == QueueInv /\ OvershootInv /\ [Next]_vars => OvershootInv'
<1> SUFFICES ASSUME QueueInv, OvershootInv, [Next]_vars PROVE OvershootInv'
  OBVIOUS
<1> USE DEF QueueInv, TypeOK, OvershootInv
<1>0. /\ Committed \subseteq Producers /\ IsFiniteSet(Committed)
      /\ Cardinality(Committed) \in Nat /\ Cardinality(Producers) \in Nat
  BY CommittedCardinality DEF Committed
<1>1. ASSUME NEW p \in Producers, CheckCapacity(p) PROVE OvershootInv'
  <2>1. CASE items >= MaxSize
    <3>1. Committed' = Committed /\ items' = items
      BY <1>1, <2>1 DEF CheckCapacity, Committed
    <3>. QED  BY <3>1
  <2>2. CASE items < MaxSize
    <3>1. Committed' = Committed \cup {p} /\ p \notin Committed /\ items' = items
      BY <1>1, <2>2 DEF CheckCapacity, Committed
    <3>2. Cardinality(Committed') = Cardinality(Committed) + 1
      BY <1>0, <3>1, FS_AddElement
    <3>3. Cardinality(Committed) + 1 <= Cardinality(Producers)
      BY <1>0, <3>1, CommittedCardinality
    <3>. QED  BY <1>0, <2>2, <3>1, <3>2, <3>3
  <2>. QED  BY <2>1, <2>2
<1>2. ASSUME NEW p \in Producers, AppendItem(p) PROVE OvershootInv'
  <2>1. Committed' = Committed \ {p} /\ p \in Committed /\ items' = items + 1
    BY <1>2 DEF AppendItem, Committed
  <2>2. Cardinality(Committed') = Cardinality(Committed) - 1
    BY <1>0, <2>1, FS_RemoveElement
  <2>. QED  BY <1>0, <2>1, <2>2
<1>3. ASSUME NEW p \in Producers, ReadWake(p) \/ SetResult(p) PROVE OvershootInv'
  <2>1. Committed' = Committed /\ items' = items
    BY <1>3 DEF ReadWake, SetResult, Committed
  <2>. QED  BY <2>1
<1>4. CASE ConsumerStep \/ CancelConsumer \/ UNCHANGED vars
  <2>1. Committed' = Committed /\ items' \in Int /\ items' <= items
    BY <1>4 DEF ConsumerStep, CheckItems, PublishWake, RecheckItems, WakeUp, PopItem,
                CancelConsumer, ResetQueue, StartConsumer, vars, Committed
  <2>. QED  BY <1>0, <2>1
<1>. QED  BY <1>1, <1>2, <1>3, <1>4 DEF Next, ProducerStep

\* However many producers race, the queue never holds more than maxsize items
\* plus one for every other producer.
THEOREM OvershootHolds == Spec => []Overshoot
<1>1. Init => QueueInv /\ OvershootInv
  <2>1. Init => QueueInv
    BY DEF Init, QueueInv, TypeOK, PopHasItem, WakePublished, NoLostWakeup, ProducerState,
           ConsumerState
  <2>2. Init => Committed = {}
    BY DEF Init, Committed
  <2>3. Cardinality({}) = 0 /\ Cardinality(Producers) \in Nat /\ Cardinality(Producers) # 0
    BY QueueAssumption, FS_EmptySet, FS_CardinalityType
  <2>4. Init => items = 0
    BY DEF Init
  <2>. QED  BY <2>1, <2>2, <2>3, <2>4 DEF OvershootInv
<1>2. QueueInv /\ OvershootInv => Overshoot
  <2>1. Cardinality(Committed) \in Nat /\ Cardinality(Producers) \in Nat
    BY CommittedCardinality DEF Committed
  <2>. QED  BY <2>1 DEF QueueInv, TypeOK, OvershootInv, Overshoot
<1>. QED  BY <1>1, <1>2, QueueStep, OvershootStep, PTL DEF Spec
=============================================================================
