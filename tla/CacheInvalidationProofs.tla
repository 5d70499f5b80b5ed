---------------------- MODULE CacheInvalidationProofs ----------------------
(***************************************************************************)
(* What ConnectorStore promises for any number of threads, drops and       *)
(* failures, and that CacheInvalidation implements it, so it keeps what    *)
(* the store promises; an outdated instance is cached only while an event  *)
(* about it is unhandled, unless one came during a fetch and found nothing *)
(* to drop; and the poller of a dropped key is about to be stopped.        *)
(*                                                                         *)
(* The store's argument: _pending_fetches is empty when nobody leads, so   *)
(* one thread leads at a time and the epoch it compares is counted from    *)
(* the first drop that overtakes it; when the count has not moved, the     *)
(* instance it built is as recent as the last drop.  The composition's     *)
(* argument counts events: an instance is behind wazo-auth by no more      *)
(* versions than there are events still to be acted on.                    *)
(***************************************************************************)
EXTENDS CacheInvalidation, TLAPS

\* What the leader has in hand: the epoch it has read is not ahead of the
\* counter, and an instance built with an epoch that has not moved is not
\* older than the configuration of the last drop.
LeaderFresh ==
    /\ \A t \in Threads : pc[t] \in {"ask", "built"} => mark[t] <= epoch
    /\ \A t \in Threads : pc[t] = "built" /\ mark[t] = epoch => have[t] >= floor
    /\ floor <= config

StoreInv == TypeOK /\ OneLeader /\ EpochCleared /\ LeaderFresh /\ NoStaleAfterDrop

\* drop, from whatever thread: an overtaken fetch sees another epoch.
LEMMA DropEntryStep == StoreInv /\ DropEntry => StoreInv'
<1> SUFFICES ASSUME StoreInv, DropEntry PROVE StoreInv'
  OBVIOUS
<1> USE DEF StoreInv, TypeOK, OneLeader, EpochCleared, LeaderFresh, NoStaleAfterDrop,
        Version, ThreadState, Leading, auth, entry, local, DropEntry
<1>1. TypeOK'
  <2>1. live' \in BOOLEAN /\ exists' \in BOOLEAN
    BY Zenon
  <2>2. epoch' \in Nat /\ floor' \in Nat
    OBVIOUS
  <2>. QED  BY <2>1, <2>2
<1>2. OneLeader' /\ EpochCleared' /\ NoStaleAfterDrop'
  OBVIOUS
<1>3. ASSUME NEW t \in Threads, pc[t] \in {"ask", "built"} PROVE mark[t] < epoch'
  BY <1>3
<1>4. LeaderFresh'
  BY <1>3
<1>. QED  BY <1>1, <1>2, <1>4

\* Every step of a thread, of wazo-auth or of a caller of drop keeps it.
LEMMA StoreInvStep == StoreInv /\ [StoreNext]_storeVars => StoreInv'
<1> SUFFICES ASSUME StoreInv, [StoreNext]_storeVars PROVE StoreInv'
  OBVIOUS
<1> USE StoreAssumption DEF StoreInv, TypeOK, OneLeader, EpochCleared, LeaderFresh,
        NoStaleAfterDrop, Version, ThreadState, Leading, auth, entry, fetch, local,
        Goto
<1>1. CASE UpdateConfig
  BY <1>1 DEF UpdateConfig
<1>2. CASE Expire
  BY <1>2 DEF Expire
<1>3. ASSUME NEW t \in Threads, Get(t) PROVE StoreInv'
  BY <1>3 DEF Get
<1>4. ASSUME NEW t \in Threads, Lookup(t) PROVE StoreInv'
  BY <1>4 DEF Lookup
<1>5. ASSUME NEW t \in Threads, ReadEpoch(t) PROVE StoreInv'
  BY <1>5 DEF ReadEpoch
<1>6. ASSUME NEW t \in Threads, AskAuth(t) PROVE StoreInv'
  BY <1>6 DEF AskAuth
<1>7. ASSUME NEW t \in Threads, AuthFails(t) PROVE StoreInv'
  BY <1>7 DEF AuthFails
<1>8. ASSUME NEW t \in Threads, ForgetRefused(t) PROVE StoreInv'
  BY <1>8 DEF ForgetRefused
<1>9. ASSUME NEW t \in Threads, StoreInstance(t) PROVE StoreInv'
  BY <1>9 DEF StoreInstance
<1>10. ASSUME NEW t \in Threads, ResolveFuture(t) PROVE StoreInv'
  <2>1. pc[t] = "publish" /\ pending # "none"
    BY <1>10 DEF ResolveFuture
  <2>2. \A u \in Threads : Leading(u) => u = t
    BY <2>1
  <2>3. /\ pc' \in [Threads -> ThreadState]
        /\ pc'[t] = "cleanup"
        /\ \A u \in Threads : u # t => ~Leading(u)'
    BY <1>10, <2>2 DEF ResolveFuture
  <2>4. /\ pending' = "resolved"
        /\ UNCHANGED <<auth, entry, epoch, local, failures, floor>>
        /\ result' \in Nat
    BY <1>10 DEF ResolveFuture
  <2>5. TypeOK'
    BY <2>3, <2>4
  <2>6. OneLeader'
    BY <2>3, <2>4
  <2>7. EpochCleared' /\ LeaderFresh' /\ NoStaleAfterDrop'
    BY <2>3, <2>4
  <2>. QED  BY <2>5, <2>6, <2>7
<1>11. ASSUME NEW t \in Threads, Cleanup(t) PROVE StoreInv'
  BY <1>11 DEF Cleanup
<1>12. CASE DropEntry
  BY <1>12, DropEntryStep
<1>13. CASE UNCHANGED storeVars
  BY <1>13 DEF storeVars
<1>. QED
  BY <1>1, <1>2, <1>3, <1>4, <1>5, <1>6, <1>7, <1>8, <1>9, <1>10, <1>11, <1>12, <1>13
  DEF StoreNext, StoreStep, ThreadStep

LEMMA StoreInvInit == StoreInit => StoreInv
<1> SUFFICES ASSUME StoreInit PROVE StoreInv
  OBVIOUS
<1> USE StoreAssumption DEF StoreInit
<1>1. exists \in BOOLEAN /\ live \in BOOLEAN
  BY Zenon
<1>2. pc \in [Threads -> ThreadState] /\ mark \in [Threads -> Nat] /\ have \in [Threads -> Nat]
  BY DEF ThreadState
<1>3. TypeOK
  BY <1>1, <1>2 DEF TypeOK, Version
<1>4. OneLeader
  BY DEF OneLeader, Leading
<1>5. EpochCleared /\ LeaderFresh /\ NoStaleAfterDrop
  BY DEF EpochCleared, LeaderFresh, NoStaleAfterDrop
<1>. QED  BY <1>3, <1>4, <1>5 DEF StoreInv

\* Whatever the interleaving of fetches and drops, the cache holds nothing
\* built from a configuration older than the last drop.
THEOREM NoStaleAfterDropHolds == StoreSpec => []NoStaleAfterDrop
<1>1. StoreInv => NoStaleAfterDrop
  BY DEF StoreInv
<1>. QED  BY <1>1, StoreInvInit, StoreInvStep, PTL DEF StoreSpec

\* One thread leads at a time, with its future in _pending_fetches, and the
\* epoch counter is gone when it is done.
THEOREM OneLeaderHolds == StoreSpec => [](TypeOK /\ OneLeader /\ EpochCleared)
<1>1. StoreInv => TypeOK /\ OneLeader /\ EpochCleared
  BY DEF StoreInv
<1>. QED  BY <1>1, StoreInvInit, StoreInvStep, PTL DEF StoreSpec

-----------------------------------------------------------------------------
\* Events whose drop is still to come: the one in "resync" has had its own.
Covered(v) ==
    missed \/ config <= v + events - (IF handler["event"] = "resync" THEN 1 ELSE 0)

EventsCover ==
    /\ handler["event"] # "idle" => events >= 1
    /\ cache # 0 => Covered(cache)
    /\ \A t \in Threads : pc[t] = "built" /\ mark[t] = epoch => Covered(have[t])

InvalidationInv == StoreInv /\ InvalidationTypeOK /\ EventsCover /\ PollerStops

\* A step of the composition is a step of the store or leaves it alone.
LEMMA StepOfStore == [Next]_vars => [StoreNext]_storeVars
<1>1. ChangeConfig \/ StoreRuns => StoreStep
  BY DEF ChangeConfig, StoreRuns, StoreStep
<1>2. \A i \in Invalidators : InvalidateDrop(i) => DropEntry
  BY DEF InvalidateDrop
<1>3. \/ HandleEvent \/ DeleteIdentity \/ CreateIdentity \/ SynchronizePollers \/ UNCHANGED vars
      \/ \E i \in Invalidators : InvalidateResync(i)
      => UNCHANGED storeVars
  BY DEF HandleEvent, DeleteIdentity, CreateIdentity, SynchronizePollers, InvalidateResync, vars
<1>. QED  BY <1>1, <1>2, <1>3 DEF Next, InvalidatorStep, StoreNext

\* The composition implements the store it is built from.
THEOREM ImplementsStore == Spec => StoreSpec
<1>1. Init => StoreInit
  BY DEF Init
<1>. QED  BY <1>1, StepOfStore, PTL DEF Spec, StoreSpec

\* What the steps beside the store do to the types.
LEMMA InvalidationTypeStep ==
    StoreInv' /\ InvalidationInv /\ [Next]_vars => InvalidationTypeOK'
<1> SUFFICES ASSUME StoreInv', InvalidationInv, [Next]_vars PROVE InvalidationTypeOK'
  OBVIOUS
<1> USE DEF InvalidationInv, InvalidationTypeOK, EventsCover, Invalidators, Step
<1>1. TypeOK'
  BY DEF StoreInv
<1>2. cache \in Nat
  BY DEF TypeOK, Version
<1>3. CASE ChangeConfig
  BY <1>1, <1>3 DEF ChangeConfig
<1>4. CASE StoreRuns
  <2>1. refused' \in BOOLEAN
    BY <1>4, Zenon DEF StoreRuns, Beside
  <2>. QED  BY <1>1, <1>4, <2>1 DEF StoreRuns, Beside
<1>5. CASE HandleEvent
  <2>1. missed' \in BOOLEAN
    BY <1>5, Zenon DEF HandleEvent
  <2>. QED  BY <1>1, <1>5, <2>1 DEF HandleEvent
<1>6. CASE DeleteIdentity
  BY <1>1, <1>6 DEF DeleteIdentity
<1>7. ASSUME NEW i \in Invalidators, InvalidateDrop(i) PROVE InvalidationTypeOK'
  BY <1>1, <1>7 DEF InvalidateDrop
<1>8. ASSUME NEW i \in Invalidators, InvalidateResync(i) PROVE InvalidationTypeOK'
  BY <1>1, <1>8 DEF InvalidateResync
<1>9. CASE CreateIdentity
  BY <1>1, <1>9 DEF CreateIdentity
<1>10. CASE SynchronizePollers
  <2>1. refused' \in BOOLEAN
    BY <1>10, Zenon DEF SynchronizePollers
  <2>. QED  BY <1>1, <1>2, <1>10, <2>1 DEF SynchronizePollers, Version
<1>11. CASE UNCHANGED vars
  BY <1>1, <1>11 DEF vars, busVars
<1>. QED
  BY <1>3, <1>4, <1>5, <1>6, <1>7, <1>8, <1>9, <1>10, <1>11 DEF Next, InvalidatorStep

\* No step lets an instance fall behind by more than the events to come.
LEMMA EventsCoverStep ==
    StoreInv' /\ InvalidationTypeOK' /\ InvalidationInv /\ [Next]_vars => EventsCover'
<1> SUFFICES ASSUME StoreInv', InvalidationTypeOK', InvalidationInv, [Next]_vars
             PROVE EventsCover'
  OBVIOUS
<1> USE DEF InvalidationInv, InvalidationTypeOK, EventsCover, Covered, Invalidators, Step,
        StoreInv, TypeOK, OneLeader, Leading, Version
<1>1. CASE ChangeConfig
  BY <1>1 DEF ChangeConfig, UpdateConfig, entry, fetch, local
<1>2. CASE StoreRuns
  <2>1. UNCHANGED <<events, handler, missed>>
    BY <1>2 DEF StoreRuns, Beside
  <2>2. ASSUME Expire PROVE EventsCover'
    BY <2>1, <2>2 DEF Expire, auth, fetch, local
  <2>3. ASSUME NEW t \in Threads,
               Get(t) \/ Lookup(t) \/ ReadEpoch(t) \/ AuthFails(t) \/ ForgetRefused(t)
        PROVE EventsCover'
    BY <2>1, <2>3 DEF Get, Lookup, ReadEpoch, AuthFails, ForgetRefused, Goto, auth, entry,
       fetch, local
  <2>4. ASSUME NEW t \in Threads, AskAuth(t) PROVE EventsCover'
    BY <2>1, <2>4 DEF AskAuth, Goto, auth, entry, fetch
  <2>5. ASSUME NEW t \in Threads, StoreInstance(t) PROVE EventsCover'
    BY <2>1, <2>5 DEF StoreInstance, Goto, auth, fetch, local
  <2>6. ASSUME NEW t \in Threads, ResolveFuture(t) PROVE EventsCover'
    BY <2>1, <2>6 DEF ResolveFuture, auth, entry, local
  <2>7. ASSUME NEW t \in Threads, Cleanup(t) PROVE EventsCover'
    BY <2>1, <2>7 DEF Cleanup, Goto, auth, entry
  <2>. QED  BY <1>2, <2>2, <2>3, <2>4, <2>5, <2>6, <2>7 DEF StoreRuns, ThreadStep
<1>3. CASE HandleEvent
  <2>1. UNCHANGED storeVars
    BY <1>3 DEF HandleEvent
  <2>2. CASE cache = 0 /\ pending = "none"
    BY <1>3, <2>1, <2>2 DEF HandleEvent, storeVars
  <2>3. CASE cache = 0 /\ pending # "none"
    BY <1>3, <2>1, <2>3 DEF HandleEvent, storeVars
  <2>4. CASE cache # 0
    BY <1>3, <2>1, <2>4 DEF HandleEvent, storeVars
  <2>. QED  BY <2>2, <2>3, <2>4
<1>4. CASE DeleteIdentity
  BY <1>4 DEF DeleteIdentity, storeVars
<1>5. ASSUME NEW i \in Invalidators, InvalidateDrop(i) PROVE EventsCover'
  <2>1. \A t \in Threads : pc[t] = "built" => mark[t] # epoch'
    BY <1>5 DEF InvalidateDrop, DropEntry, LeaderFresh
  <2>. QED  BY <1>5, <2>1 DEF InvalidateDrop, DropEntry, auth, local
<1>6. ASSUME NEW i \in Invalidators, InvalidateResync(i) PROVE EventsCover'
  <2>1. CASE i = "event"
    BY <1>6, <2>1 DEF InvalidateResync, storeVars
  <2>2. CASE i = "delete"
    BY <1>6, <2>2 DEF InvalidateResync, storeVars
  <2>. QED  BY <2>1, <2>2
<1>7. CASE CreateIdentity
  BY <1>7 DEF CreateIdentity, storeVars
<1>8. CASE SynchronizePollers
  BY <1>8 DEF SynchronizePollers, storeVars
<1>9. CASE UNCHANGED vars
  BY <1>9 DEF vars, busVars, storeVars
<1>. QED
  BY <1>1, <1>2, <1>3, <1>4, <1>5, <1>6, <1>7, <1>8, <1>9 DEF Next, InvalidatorStep

\* Whoever empties the cache posts a synchronization, or is on its way to.
LEMMA PollerStopsStep ==
    InvalidationTypeOK' /\ InvalidationInv /\ [Next]_vars => PollerStops'
<1> SUFFICES ASSUME InvalidationTypeOK', InvalidationInv, [Next]_vars PROVE PollerStops'
  OBVIOUS
<1> USE DEF InvalidationInv, InvalidationTypeOK, PollerStops, Invalidators, Step
<1>1. CASE ChangeConfig
  BY <1>1 DEF ChangeConfig, UpdateConfig, entry
<1>2. CASE StoreRuns
  BY <1>2 DEF StoreRuns, Beside
<1>3. CASE HandleEvent
  BY <1>3 DEF HandleEvent, storeVars
<1>4. CASE DeleteIdentity
  BY <1>4 DEF DeleteIdentity, storeVars
<1>5. ASSUME NEW i \in Invalidators, InvalidateDrop(i) PROVE PollerStops'
  BY <1>5 DEF InvalidateDrop
<1>6. ASSUME NEW i \in Invalidators, InvalidateResync(i) PROVE PollerStops'
  BY <1>6 DEF InvalidateResync
<1>7. CASE CreateIdentity
  BY <1>7 DEF CreateIdentity
<1>8. CASE SynchronizePollers
  BY <1>8 DEF SynchronizePollers, storeVars
<1>9. CASE UNCHANGED vars
  BY <1>9 DEF vars, busVars, storeVars
<1>. QED
  BY <1>1, <1>2, <1>3, <1>4, <1>5, <1>6, <1>7, <1>8, <1>9 DEF Next, InvalidatorStep

LEMMA InvalidationStep == InvalidationInv /\ [Next]_vars => InvalidationInv'
<1> SUFFICES ASSUME InvalidationInv, [Next]_vars PROVE InvalidationInv'
  OBVIOUS
<1>1. StoreInv'
  BY StepOfStore, StoreInvStep DEF InvalidationInv
<1>. QED
  BY <1>1, InvalidationTypeStep, EventsCoverStep, PollerStopsStep DEF InvalidationInv

LEMMA InvalidationInit == Init => InvalidationInv
<1> SUFFICES ASSUME Init PROVE InvalidationInv
  OBVIOUS
<1>1. StoreInv
  BY StoreInvInit DEF Init
<1>2. missed \in BOOLEAN /\ refused \in BOOLEAN
  BY Zenon DEF Init
<1>3. InvalidationTypeOK
  BY <1>1, <1>2, InvalidationAssumption
  DEF Init, StoreInv, InvalidationTypeOK, Version, Invalidators
<1>4. EventsCover
  BY DEF Init, StoreInit, EventsCover, Invalidators
<1>5. PollerStops
  BY DEF Init, PollerStops
<1>. QED  BY <1>1, <1>3, <1>4, <1>5 DEF InvalidationInv

\* However events, drops and fetches interleave, an instance built from an
\* older configuration is cached only while an event about it is unhandled or
\* after one that found nothing cached during a fetch.
THEOREM StaleOnlyIfMissedHolds == Spec => [](InvalidationTypeOK /\ StaleOnlyIfMissed)
<1>1. InvalidationInv => InvalidationTypeOK /\ StaleOnlyIfMissed
  BY DEF InvalidationInv, InvalidationTypeOK, EventsCover, Covered, StaleOnlyIfMissed, TypeOK,
     Version, Invalidators
<1>. QED  BY <1>1, InvalidationInit, InvalidationStep, PTL DEF Spec

\* The poller of a key that drop removed is always about to be stopped.
THEOREM PollerStopsHolds == Spec => []PollerStops
<1>1. InvalidationInv => PollerStops
  BY DEF InvalidationInv
<1>. QED  BY <1>1, InvalidationInit, InvalidationStep, PTL DEF Spec
=============================================================================
