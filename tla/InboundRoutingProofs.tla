------------------------ MODULE InboundRoutingProofs ------------------------
(***************************************************************************)
(* What InboundRouting promises for any number of arrivals, any external   *)
(* ids and keys, any number of tasks, retries and faults.                  *)
(*                                                                         *)
(* The uniqueness of external ids rests on what the index sees: two rows   *)
(* that have passed their INSERT never have one id, committed or not.  The *)
(* bound on rooms rests on the semaphore: a room is created only while     *)
(* none is committed, and then everybody who creates one holds a slot.     *)
(***************************************************************************)
EXTENDS InboundRouting, FiniteSetTheorems, TLAPS

\* Two transactions past their INSERT have different external ids.
PastInsert(a) == pc[a] \in {"flushed", "stored"}
IndexHolds == \A a, b \in Arrivals : SameId(a, b) => ~(PastInsert(a) /\ PastInsert(b))

\* A transaction that has its room has created it or found it committed.
RoomKnown ==
    \A a \in Arrivals :
        pc[a] \in {"insert", "blocked", "flushed"} => target[a] = a \/ target[a] \in rooms

\* Two arrivals of one key that are open at the same time have met, and so
\* have a stored one and one that is open or stored, unless the look-up of one
\* of them was for an identity that is not there.
Met ==
    \A a, b \in Arrivals :
        SameKey(a, b) /\ (Open(a) \/ pc[a] = "stored") /\ (Open(b) \/ pc[b] = "stored")
          => {a, b} \in overlap \/ a \in unseen \/ b \in unseen

\* A retry is a later attempt, the first task is not.
Attempts ==
    \A a \in Arrivals : /\ pc[a] = "retry" => attempt[a] > 0
                        /\ pc[a] = "idle" => attempt[a] = 0

RoutingInv ==
    /\ InboundTypeOK
    /\ IndexHolds
    /\ DuplicateOfStored
    /\ NoEmptyRoom
    /\ RoomKnown
    /\ Met
    /\ Attempts

\* A fault leaves the budget a function to the naturals.
LEMMA SpendType ==
    ASSUME InboundTypeOK, NEW k \in FaultKinds, Spend(k)
    PROVE  faults' \in [FaultKinds -> Nat]
BY DEF InboundTypeOK, Spend

\* A step of one arrival that opens nothing new keeps Met.
LEMMA MetQuiet ==
    ASSUME Met, NEW a \in Arrivals, UNCHANGED history,
           \A b \in Arrivals \ {a} : pc'[b] = pc[b] /\ attempt'[b] = attempt[b],
           Open(a)' \/ pc'[a] = "stored" => Open(a) \/ pc[a] = "stored"
    PROVE  Met'
BY DEF Met, Open, SameKey, history

\* The two outcomes of the duplicate check: a key that is known drops the
\* message, or the message goes on and the keys it was not compared with are
\* on record.
MetBy(a) == {{a, b} : b \in {c \in Arrivals : Open(c) /\ SameKey(a, c)}}
LEMMA CheckOutcome ==
    ASSUME NEW a \in Arrivals, CheckDuplicate(a)
    PROVE  /\ pc[a] = "waiting" /\ SlotFree
           /\ UNCHANGED <<attempt, target, rooms, faults>>
           /\ \/ /\ pc' = [pc EXCEPT ![a] = "duplicate"]
                 /\ KnownKey(a, TRUE)
                 /\ UNCHANGED <<overlap, unseen>>
              \/ /\ pc' = [pc EXCEPT ![a] = "resolve"]
                 /\ overlap' = overlap \cup MetBy(a)
                 /\ unseen \subseteq unseen'
                 /\ unseen' \subseteq unseen \cup {a}
                 /\ attempt[a] = 0 /\ KnownKey(a, TRUE) => a \in unseen'
<1>1. PICK registered \in BOOLEAN :
         IF attempt[a] = 0 /\ KnownKey(a, registered)
         THEN Goto(a, "duplicate") /\ UNCHANGED history
         ELSE PassCheck(a, attempt[a] = 0 /\ KnownKey(a, TRUE))
  BY DEF CheckDuplicate
<1>2. KnownKey(a, registered) => KnownKey(a, TRUE)
  BY DEF KnownKey
<1>3. CASE attempt[a] = 0 /\ KnownKey(a, registered)
  BY <1>1, <1>2, <1>3 DEF CheckDuplicate, Goto, history
<1>4. CASE ~(attempt[a] = 0 /\ KnownKey(a, registered))
  <2>1. PassCheck(a, attempt[a] = 0 /\ KnownKey(a, TRUE))
    BY <1>1, <1>4
  <2>2. /\ pc' = [pc EXCEPT ![a] = "resolve"]
        /\ overlap' = overlap \cup MetBy(a)
        /\ unseen' = IF attempt[a] = 0 /\ KnownKey(a, TRUE) THEN unseen \cup {a} ELSE unseen
    BY <2>1 DEF PassCheck, Goto, MetBy
  <2>. QED  BY <2>2 DEF CheckDuplicate
<1>. QED  BY <1>3, <1>4

LEMMA RoutingInvInit == Init => RoutingInv
BY InboundAssumption DEF Init, RoutingInv, InboundTypeOK, IndexHolds, PastInsert,
   DuplicateOfStored, NoEmptyRoom, RoomKnown, Met, Attempts, Ahead, Open, Working, Stored

LEMMA RoutingInvStep == RoutingInv /\ [Next]_vars => RoutingInv'
<1> SUFFICES ASSUME RoutingInv, [Next]_vars PROVE RoutingInv'
  OBVIOUS
<1> USE InboundAssumption DEF RoutingInv, InboundTypeOK, Ahead, Working, Over, Goto, history
<1>0. \A a, b \in Arrivals : SameId(a, b) <=> SameId(b, a)
  BY DEF SameId
<1>1. ASSUME NEW a \in Arrivals, Dispatch(a) PROVE RoutingInv'
  <2> USE <1>1 DEF Dispatch, ScheduleInbound
  <2>1. InboundTypeOK'
    OBVIOUS
  <2>2. IndexHolds' /\ DuplicateOfStored'
    BY <1>0 DEF IndexHolds, PastInsert, DuplicateOfStored, Stored, SameId, SameKey
  <2>3. NoEmptyRoom' /\ RoomKnown'
    BY DEF NoEmptyRoom, RoomKnown, Stored
  <2>4. Met'
    BY MetQuiet DEF Open, Attempts
  <2>5. Attempts'
    BY DEF Attempts
  <2>. QED  BY <2>1, <2>2, <2>3, <2>4, <2>5
<1>2. ASSUME NEW a \in Arrivals, TimerFires(a) PROVE RoutingInv'
  <2> USE <1>2 DEF TimerFires, ScheduleInbound
  <2>1. InboundTypeOK'
    OBVIOUS
  <2>2. IndexHolds' /\ DuplicateOfStored'
    BY <1>0 DEF IndexHolds, PastInsert, DuplicateOfStored, Stored, SameId, SameKey
  <2>3. NoEmptyRoom' /\ RoomKnown'
    BY DEF NoEmptyRoom, RoomKnown, Stored
  <2>4. Met'
    BY MetQuiet DEF Open
  <2>5. Attempts'
    BY DEF Attempts
  <2>. QED  BY <2>1, <2>2, <2>3, <2>4, <2>5
<1>3. ASSUME NEW a \in Arrivals, CheckDuplicate(a) PROVE RoutingInv'
  <2>0. /\ pc[a] = "waiting"
        /\ UNCHANGED <<attempt, target, rooms, faults>>
        /\ \/ /\ pc' = [pc EXCEPT ![a] = "duplicate"]
              /\ KnownKey(a, TRUE)
              /\ UNCHANGED <<overlap, unseen>>
           \/ /\ pc' = [pc EXCEPT ![a] = "resolve"]
              /\ overlap' = overlap \cup MetBy(a)
              /\ unseen \subseteq unseen'
              /\ unseen' \subseteq unseen \cup {a}
              /\ attempt[a] = 0 /\ KnownKey(a, TRUE) => a \in unseen'
    BY <1>3, CheckOutcome
  <2>00. /\ pc' = [pc EXCEPT ![a] = "duplicate"] \/ pc' = [pc EXCEPT ![a] = "resolve"]
         /\ pc[a] = "waiting"
         /\ UNCHANGED <<attempt, target, rooms, faults>>
    BY <2>0
  <2> USE <2>00
  <2>1. InboundTypeOK'
    <3>1. MetBy(a) \subseteq SUBSET Arrivals
      BY DEF MetBy
    <3>2. overlap' \subseteq SUBSET Arrivals /\ unseen' \subseteq Arrivals
      BY <2>0, <3>1
    <3>. QED  BY <3>2
  <2>2. IndexHolds' /\ DuplicateOfStored'
    <3>1. IndexHolds'
      BY DEF IndexHolds, PastInsert, SameId
    <3>2. \A b, c \in Arrivals : (SameId(b, c)' <=> SameId(b, c)) /\ (SameKey(b, c)' <=> SameKey(b, c))
      BY DEF SameId, SameKey
    <3>3. Stored' = Stored
      BY DEF Stored
    <3>4. ASSUME NEW b \in Arrivals, pc'[b] = "duplicate"
          PROVE  \E c \in Stored : SameId(b, c) \/ SameKey(b, c)
      <4>1. CASE b = a
        BY <2>0, <3>4, <4>1 DEF KnownKey
      <4>2. CASE b # a
        BY <3>4, <4>2 DEF DuplicateOfStored
      <4>. QED  BY <4>1, <4>2
    <3>. QED  BY <3>1, <3>2, <3>3, <3>4 DEF DuplicateOfStored, Stored
  <2>3. NoEmptyRoom' /\ RoomKnown'
    BY DEF NoEmptyRoom, RoomKnown, Stored
  <2>4. Met'
    <3>1. CASE pc' = [pc EXCEPT ![a] = "duplicate"] /\ UNCHANGED history
      BY <3>1, MetQuiet DEF Open
    <3>2. CASE /\ pc' = [pc EXCEPT ![a] = "resolve"]
               /\ overlap' = overlap \cup MetBy(a)
               /\ unseen \subseteq unseen'
               /\ attempt[a] = 0 /\ KnownKey(a, TRUE) => a \in unseen'
      <4>1. ASSUME NEW b \in Arrivals, SameKey(a, b), Open(b) \/ pc[b] = "stored"
            PROVE  {a, b} \in overlap' \/ a \in unseen' \/ b \in unseen'
        <5>1. CASE Open(b)
          BY <3>2, <4>1, <5>1 DEF MetBy
        <5>2. CASE pc[b] = "stored" /\ attempt[a] # 0
          BY <3>2, <4>1, <5>2 DEF Met, Open
        <5>3. CASE pc[b] = "stored" /\ attempt[a] = 0
          BY <3>2, <4>1, <5>3 DEF KnownKey, Stored
        <5>. QED  BY <4>1, <5>1, <5>2, <5>3
      <4>2. ASSUME NEW b \in Arrivals \ {a}
            PROVE  /\ pc'[b] = pc[b] /\ (Open(b)' <=> Open(b))
                   /\ SameKey(a, b) <=> SameKey(b, a)
                   /\ {a, b} = {b, a}
        <5>1. pc'[b] = pc[b] /\ attempt'[b] = attempt[b]
          BY <3>2, <4>2
        <5>2. Open(b)' <=> Open(b)
          BY <5>1 DEF Open
        <5>. QED  BY <5>1, <5>2 DEF SameKey
      <4>3. /\ \A b, c \in Arrivals : {b, c} \in overlap => {b, c} \in overlap'
            /\ unseen \subseteq unseen'
        BY <3>2
      <4>4. \A b \in Arrivals : ~SameKey(b, b)
        BY DEF SameKey
      <4>. SUFFICES ASSUME NEW b \in Arrivals, NEW c \in Arrivals, SameKey(b, c),
                           Open(b)' \/ pc'[b] = "stored", Open(c)' \/ pc'[c] = "stored"
                    PROVE  {b, c} \in overlap' \/ b \in unseen' \/ c \in unseen'
        BY DEF Met, SameKey
      <4>5. CASE b # a /\ c # a
        BY <4>2, <4>3, <4>5 DEF Met
      <4>6. CASE b = a /\ c # a
        BY <4>1, <4>2, <4>6
      <4>7. CASE c = a /\ b # a
        BY <4>1, <4>2, <4>7
      <4>. QED  BY <4>4, <4>5, <4>6, <4>7
    <3>. QED  BY <2>0, <3>1, <3>2
  <2>5. Attempts'
    BY DEF Attempts
  <2>. QED  BY <2>1, <2>2, <2>3, <2>4, <2>5
<1>4. ASSUME NEW a \in Arrivals, DropUnknownRecipient(a) PROVE RoutingInv'
  <2> USE <1>4 DEF DropUnknownRecipient
  <2>1. InboundTypeOK'
    OBVIOUS
  <2>2. IndexHolds' /\ DuplicateOfStored'
    BY <1>0 DEF IndexHolds, PastInsert, DuplicateOfStored, Stored, SameId, SameKey
  <2>3. NoEmptyRoom' /\ RoomKnown'
    BY DEF NoEmptyRoom, RoomKnown, Stored
  <2>4. Met'
    BY MetQuiet DEF Open
  <2>5. Attempts'
    BY DEF Attempts
  <2>. QED  BY <2>1, <2>2, <2>3, <2>4, <2>5
<1>5. ASSUME NEW a \in Arrivals, FindRoom(a) PROVE RoutingInv'
  <2> USE <1>5 DEF FindRoom
  <2>1. InboundTypeOK'
    OBVIOUS
  <2>2. IndexHolds' /\ DuplicateOfStored'
    BY <1>0 DEF IndexHolds, PastInsert, DuplicateOfStored, Stored, SameId, SameKey
  <2>3. NoEmptyRoom' /\ RoomKnown'
    BY DEF NoEmptyRoom, RoomKnown, Stored
  <2>4. Met'
    BY MetQuiet DEF Open
  <2>5. Attempts'
    BY DEF Attempts
  <2>. QED  BY <2>1, <2>2, <2>3, <2>4, <2>5
<1>6. ASSUME NEW a \in Arrivals, CreateRoom(a) PROVE RoutingInv'
  <2> USE <1>6 DEF CreateRoom
  <2>1. InboundTypeOK'
    OBVIOUS
  <2>2. IndexHolds' /\ DuplicateOfStored'
    BY <1>0 DEF IndexHolds, PastInsert, DuplicateOfStored, Stored, SameId, SameKey
  <2>3. NoEmptyRoom' /\ RoomKnown'
    BY DEF NoEmptyRoom, RoomKnown, Stored
  <2>4. Met'
    BY MetQuiet DEF Open
  <2>5. Attempts'
    BY DEF Attempts
  <2>. QED  BY <2>1, <2>2, <2>3, <2>4, <2>5
<1>7. ASSUME NEW a \in Arrivals, InsertMessage(a) PROVE RoutingInv'
  <2> USE <1>7 DEF InsertMessage, Flushed, Refuse
  <2>1. InboundTypeOK'
    OBVIOUS
  <2>2. IndexHolds' /\ DuplicateOfStored'
    BY <1>0 DEF IndexHolds, PastInsert, DuplicateOfStored, Stored, SameId, SameKey
  <2>3. NoEmptyRoom' /\ RoomKnown'
    BY DEF NoEmptyRoom, RoomKnown, Stored
  <2>4. Met'
    BY MetQuiet DEF Open
  <2>5. Attempts'
    BY DEF Attempts
  <2>. QED  BY <2>1, <2>2, <2>3, <2>4, <2>5
<1>8. ASSUME NEW a \in Arrivals, CommitMessage(a) PROVE RoutingInv'
  <2> USE <1>8 DEF CommitMessage
  <2>1. InboundTypeOK'
    BY DEF RoomKnown
  <2>2. IndexHolds' /\ DuplicateOfStored'
    BY <1>0 DEF IndexHolds, PastInsert, DuplicateOfStored, Stored, SameId, SameKey
  <2>3. NoEmptyRoom' /\ RoomKnown'
    BY DEF NoEmptyRoom, RoomKnown, Stored
  <2>4. Met'
    BY MetQuiet DEF Open
  <2>5. Attempts'
    BY DEF Attempts
  <2>. QED  BY <2>1, <2>2, <2>3, <2>4, <2>5
<1>9. ASSUME NEW a \in Arrivals, InsertFails(a) PROVE RoutingInv'
  <2> USE <1>9 DEF InsertFails, Refuse
  <2>1. InboundTypeOK'
    <3>1. faults' \in [FaultKinds -> Nat]
      BY SpendType DEF FaultKinds
    <3>. QED  BY <3>1
  <2>2. IndexHolds' /\ DuplicateOfStored'
    BY <1>0 DEF IndexHolds, PastInsert, DuplicateOfStored, Stored, SameId, SameKey
  <2>3. NoEmptyRoom' /\ RoomKnown'
    BY DEF NoEmptyRoom, RoomKnown, Stored
  <2>4. Met'
    BY MetQuiet DEF Open
  <2>5. Attempts'
    BY DEF Attempts
  <2>. QED  BY <2>1, <2>2, <2>3, <2>4, <2>5
<1>10. ASSUME NEW a \in Arrivals, ProcessFails(a) PROVE RoutingInv'
  <2> USE <1>10 DEF ProcessFails, Refuse
  <2>1. InboundTypeOK'
    <3>1. faults' \in [FaultKinds -> Nat]
      BY SpendType DEF FaultKinds
    <3>. QED  BY <3>1
  <2>2. IndexHolds' /\ DuplicateOfStored'
    BY <1>0 DEF IndexHolds, PastInsert, DuplicateOfStored, Stored, SameId, SameKey
  <2>3. NoEmptyRoom' /\ RoomKnown'
    BY DEF NoEmptyRoom, RoomKnown, Stored
  <2>4. Met'
    BY MetQuiet DEF Open
  <2>5. Attempts'
    BY DEF Attempts
  <2>. QED  BY <2>1, <2>2, <2>3, <2>4, <2>5
<1>11. CASE Crash
  <2> USE <1>11 DEF Crash
  <2>1. InboundTypeOK'
    <3>1. faults' \in [FaultKinds -> Nat]
      BY SpendType DEF FaultKinds
    <3>. QED  BY <3>1
  <2>2. IndexHolds' /\ DuplicateOfStored'
    BY DEF IndexHolds, PastInsert, DuplicateOfStored, Stored, SameId, SameKey
  <2>3. NoEmptyRoom' /\ RoomKnown'
    BY DEF NoEmptyRoom, RoomKnown, Stored
  <2>4. Met'
    BY DEF Met, Open, SameKey
  <2>5. Attempts'
    BY DEF Attempts
  <2>. QED  BY <2>1, <2>2, <2>3, <2>4, <2>5
<1>12. CASE UNCHANGED vars
  BY <1>12 DEF vars, IndexHolds, PastInsert, DuplicateOfStored, NoEmptyRoom, RoomKnown,
     Met, Attempts, Open, Stored
<1>. QED
  BY <1>1, <1>2, <1>3, <1>4, <1>5, <1>6, <1>7, <1>8, <1>9, <1>10, <1>11, <1>12
     DEF Next, TaskStep

-----------------------------------------------------------------------------
\* The tasks that hold a slot, and those that have created a room, or are about
\* to, in a transaction that is not committed.
Tasks == {a \in Arrivals : pc[a] \in Working}
Creators == {a \in Arrivals : \/ pc[a] = "create"
                              \/ pc[a] \in {"insert", "blocked", "flushed"} /\ target[a] = a}

RoomBound ==
    /\ Cardinality(Tasks) <= MaxTasks
    /\ Cardinality(rooms \cup Creators) <= MaxTasks

\* A set that does not grow keeps its bound.
LEMMA Shrinks ==
    ASSUME NEW S, NEW U, U \subseteq S, IsFiniteSet(S), Cardinality(S) <= MaxTasks
    PROVE  IsFiniteSet(U) /\ Cardinality(U) <= MaxTasks
<1>1. IsFiniteSet(U) /\ Cardinality(U) <= Cardinality(S)
  BY FS_Subset
<1>2. Cardinality(U) \in Nat /\ Cardinality(S) \in Nat
  BY <1>1, FS_CardinalityType
<1>. QED  BY <1>1, <1>2, InboundAssumption

LEMMA RoomBoundInit == Init => RoomBound
<1>1. ASSUME Init PROVE Tasks = {} /\ rooms \cup Creators = {}
  BY <1>1 DEF Init, Tasks, Creators, Working
<1>2. Cardinality({}) = 0
  BY FS_EmptySet
<1>. QED  BY <1>1, <1>2, InboundAssumption DEF RoomBound

\* The steps that neither take a slot nor begin to create a room.
LEMMA NothingNew ==
    ASSUME RoutingInv, RoomBound, Tasks' \subseteq Tasks,
           (rooms \cup Creators)' \subseteq rooms \cup Creators
    PROVE  RoomBound'
<1>1. IsFiniteSet(Tasks) /\ IsFiniteSet(rooms \cup Creators)
  <2>1. Tasks \subseteq Arrivals /\ rooms \cup Creators \subseteq Arrivals
    BY DEF Tasks, Creators, RoutingInv, InboundTypeOK
  <2>. QED  BY <2>1, FS_Subset, InboundAssumption
<1>2. Cardinality(Tasks') <= MaxTasks
  BY <1>1, Shrinks DEF RoomBound
<1>3. Cardinality((rooms \cup Creators)') <= MaxTasks
  BY <1>1, Shrinks DEF RoomBound
<1>. QED  BY <1>2, <1>3 DEF RoomBound

LEMMA RoomBoundStep == RoutingInv /\ RoomBound /\ [Next]_vars => RoomBound'
<1> SUFFICES ASSUME RoutingInv, RoomBound, [Next]_vars PROVE RoomBound'
  OBVIOUS
<1> USE DEF Goto, Working
<1>0. InboundTypeOK /\ RoomKnown
  BY DEF RoutingInv
<1>1. ASSUME NEW a \in Arrivals, CheckDuplicate(a) PROVE RoomBound'
  <2>1. (rooms \cup Creators)' = rooms \cup Creators
    BY <1>0, <1>1, CheckOutcome DEF Creators, InboundTypeOK
  <2>2. Tasks' \subseteq Tasks \cup {a}
    BY <1>0, <1>1, CheckOutcome DEF Tasks, InboundTypeOK
  <2>3. Cardinality(Tasks) < MaxTasks
    BY <1>1 DEF CheckDuplicate, SlotFree, Tasks
  <2>4. IsFiniteSet(Tasks)
    BY FS_Subset, InboundAssumption DEF Tasks
  <2>5. IsFiniteSet(Tasks \cup {a}) /\ Cardinality(Tasks \cup {a}) <= MaxTasks
    <3>1. /\ IsFiniteSet(Tasks \cup {a})
          /\ \/ Cardinality(Tasks \cup {a}) = Cardinality(Tasks)
             \/ Cardinality(Tasks \cup {a}) = Cardinality(Tasks) + 1
      BY <2>4, FS_AddElement
    <3>2. Cardinality(Tasks) \in Nat
      BY <2>4, FS_CardinalityType
    <3>. QED  BY <2>3, <3>1, <3>2, InboundAssumption
  <2>6. Cardinality(Tasks') <= MaxTasks
    BY <2>2, <2>5, Shrinks
  <2>. QED  BY <2>1, <2>6 DEF RoomBound
<1>2. ASSUME NEW a \in Arrivals, FindRoom(a) PROVE RoomBound'
  <2>1. Tasks' \subseteq Tasks
    BY <1>0, <1>2 DEF FindRoom, Tasks, InboundTypeOK
  <2>2. CASE rooms = {}
    <3>1. (rooms \cup Creators)' \subseteq Tasks
      BY <1>0, <1>2, <2>2 DEF FindRoom, Creators, Tasks, InboundTypeOK
    <3>2. IsFiniteSet(Tasks) /\ Cardinality(Tasks) <= MaxTasks
      BY FS_Subset, InboundAssumption DEF Tasks, RoomBound
    <3>. QED  BY <2>1, <3>1, <3>2, Shrinks DEF RoomBound
  <2>3. CASE rooms # {}
    <3>1. (rooms \cup Creators)' \subseteq rooms \cup Creators
      BY <1>0, <1>2, <2>3 DEF FindRoom, Creators, InboundTypeOK
    <3>. QED  BY <2>1, <3>1, NothingNew
  <2>. QED  BY <2>2, <2>3
<1>3. ASSUME NEW a \in Arrivals,
             \/ Dispatch(a) \/ TimerFires(a) \/ DropUnknownRecipient(a) \/ CreateRoom(a)
             \/ InsertMessage(a) \/ CommitMessage(a) \/ InsertFails(a) \/ ProcessFails(a)
      PROVE  RoomBound'
  <2>1. CASE Dispatch(a) \/ TimerFires(a) \/ DropUnknownRecipient(a)
    <3>1. Tasks' \subseteq Tasks /\ Creators' \subseteq Creators /\ rooms' = rooms
      BY <1>0, <2>1 DEF Dispatch, TimerFires, ScheduleInbound, DropUnknownRecipient, Tasks,
         Creators, InboundTypeOK
    <3>. QED  BY <3>1, NothingNew
  <2>2. CASE CreateRoom(a)
    <3>1. Tasks' \subseteq Tasks /\ Creators' \subseteq Creators /\ rooms' = rooms
      BY <1>0, <2>2 DEF CreateRoom, Tasks, Creators, InboundTypeOK
    <3>. QED  BY <3>1, NothingNew
  <2>3. CASE InsertMessage(a)
    <3>1. Tasks' \subseteq Tasks /\ Creators' \subseteq Creators /\ rooms' = rooms
      BY <1>0, <2>3 DEF InsertMessage, Refuse, Tasks, Creators, InboundTypeOK
    <3>. QED  BY <3>1, NothingNew
  <2>4. CASE CommitMessage(a)
    <3>1. Tasks' \subseteq Tasks /\ Creators' \subseteq Creators
      BY <1>0, <2>4 DEF CommitMessage, Tasks, Creators, InboundTypeOK
    <3>2. rooms' \subseteq rooms \cup Creators
      BY <1>0, <2>4 DEF CommitMessage, Creators, RoomKnown
    <3>. QED  BY <3>1, <3>2, NothingNew
  <2>5. CASE InsertFails(a) \/ ProcessFails(a)
    <3>1. Tasks' \subseteq Tasks /\ Creators' \subseteq Creators /\ rooms' = rooms
      BY <1>0, <2>5 DEF InsertFails, ProcessFails, Refuse, Tasks, Creators, InboundTypeOK
    <3>. QED  BY <3>1, NothingNew
  <2>. QED  BY <1>3, <2>1, <2>2, <2>3, <2>4, <2>5
<1>4. CASE Crash
  <2>1. Tasks' \subseteq Tasks /\ Creators' \subseteq Creators /\ rooms' = rooms
    BY <1>0, <1>4 DEF Crash, Over, Tasks, Creators, InboundTypeOK
  <2>. QED  BY <2>1, NothingNew
<1>5. CASE UNCHANGED vars
  <2>1. Tasks' = Tasks /\ Creators' = Creators /\ rooms' = rooms
    BY <1>5 DEF vars, Tasks, Creators
  <2>. QED  BY <2>1, NothingNew
<1>. QED  BY <1>1, <1>2, <1>3, <1>4, <1>5 DEF Next, TaskStep

-----------------------------------------------------------------------------
\* A fault that has happened does not come back.
Budget == \A k \in FaultKinds : faults[k] <= MaxFaults[k]

LossInv == Budget /\ LostOnlyByFault

LEMMA LossInvInit == Init => LossInv
BY InboundAssumption DEF Init, LossInv, Budget, LostOnlyByFault

\* A spent fault can be seen in the budget.
LEMMA SpendSeen ==
    ASSUME InboundTypeOK, Budget, NEW k \in FaultKinds, Spend(k)
    PROVE  Budget' /\ faults' # MaxFaults
<1>1. /\ faults'[k] = faults[k] - 1
      /\ \A j \in FaultKinds \ {k} : faults'[j] = faults[j]
      /\ \A j \in FaultKinds : faults[j] \in Nat /\ MaxFaults[j] \in Nat
  BY InboundAssumption DEF InboundTypeOK, Spend
<1>2. faults'[k] < MaxFaults[k]
  BY <1>1 DEF Budget
<1>3. Budget'
  BY <1>1, <1>2 DEF Budget
<1>4. faults' # MaxFaults
  BY <1>1, <1>2
<1>. QED  BY <1>3, <1>4

\* The steps without a fault lose a message only in FindRoom.
LEMMA NoFaultLoss ==
    ASSUME RoutingInv, LossInv, faults' = faults, rooms \subseteq rooms', rooms' \subseteq Arrivals,
           \A a \in Arrivals : pc'[a] = "lost" => pc[a] = "lost" \/ Cardinality(rooms) > 1
    PROVE  LossInv'
<1>1. IsFiniteSet(rooms') /\ Cardinality(rooms) <= Cardinality(rooms')
  BY FS_Subset, InboundAssumption
<1>2. Cardinality(rooms) \in Nat /\ Cardinality(rooms') \in Nat
  BY <1>1, FS_CardinalityType, FS_Subset
<1>. QED  BY <1>1, <1>2 DEF LossInv, Budget, LostOnlyByFault

LEMMA LossInvStep == RoutingInv /\ LossInv /\ [Next]_vars => LossInv'
<1> SUFFICES ASSUME RoutingInv, LossInv, [Next]_vars PROVE LossInv'
  OBVIOUS
<1> USE DEF Goto
<1>0. /\ InboundTypeOK /\ RoomKnown
      /\ rooms \subseteq Arrivals
  BY DEF RoutingInv, InboundTypeOK
<1>1. ASSUME NEW a \in Arrivals,
             \/ Dispatch(a) \/ TimerFires(a) \/ CheckDuplicate(a)
             \/ DropUnknownRecipient(a) \/ FindRoom(a) \/ CreateRoom(a)
      PROVE  LossInv'
  <2>1. rooms' = rooms /\ faults' = faults
    BY <1>1 DEF Dispatch, TimerFires, CheckDuplicate, DropUnknownRecipient, FindRoom, CreateRoom
  <2>2. \A b \in Arrivals : pc'[b] = "lost" => pc[b] = "lost" \/ Cardinality(rooms) > 1
    <3>1. CASE CheckDuplicate(a)
      BY <1>0, <3>1, CheckOutcome DEF InboundTypeOK
    <3>. QED  BY <1>0, <1>1, <3>1 DEF Dispatch, TimerFires, ScheduleInbound,
              DropUnknownRecipient, FindRoom, CreateRoom, InboundTypeOK
  <2>. QED  BY <1>0, <2>1, <2>2, NoFaultLoss
<1>2. ASSUME NEW a \in Arrivals, InsertMessage(a) \/ CommitMessage(a) PROVE LossInv'
  <2>1. rooms \subseteq rooms' /\ rooms' \subseteq Arrivals /\ faults' = faults
    BY <1>0, <1>2 DEF InsertMessage, CommitMessage, RoomKnown
  <2>2. \A b \in Arrivals : pc'[b] = "lost" => pc[b] = "lost"
    BY <1>0, <1>2 DEF InsertMessage, Refuse, CommitMessage, InboundTypeOK
  <2>. QED  BY <2>1, <2>2, NoFaultLoss
<1>3. ASSUME NEW a \in Arrivals, InsertFails(a) \/ ProcessFails(a) PROVE LossInv'
  <2>1. Spend("database") /\ "database" \in FaultKinds
    BY <1>3 DEF InsertFails, ProcessFails, FaultKinds
  <2>. QED  BY <1>0, <2>1, SpendSeen DEF LossInv, LostOnlyByFault
<1>4. CASE Crash
  <2>1. Spend("process") /\ "process" \in FaultKinds
    BY <1>4 DEF Crash, FaultKinds
  <2>. QED  BY <1>0, <2>1, SpendSeen DEF LossInv, LostOnlyByFault
<1>5. CASE UNCHANGED vars
  BY <1>5 DEF vars, LossInv, Budget, LostOnlyByFault
<1>. QED  BY <1>1, <1>2, <1>3, <1>4, <1>5 DEF Next, TaskStep

-----------------------------------------------------------------------------
LEMMA Inductive == Spec => [](RoutingInv /\ RoomBound /\ LossInv)
BY RoutingInvInit, RoutingInvStep, RoomBoundInit, RoomBoundStep, LossInvInit, LossInvStep, PTL
   DEF Spec

\* The variables keep their types: the attempt number never passes the number
\* of retry delays, of which _db_persist_or_delay takes one by it.
THEOREM InboundTypeCorrect == Spec => []InboundTypeOK
<1>1. RoutingInv => InboundTypeOK
  BY DEF RoutingInv
<1>. QED  BY <1>1, Inductive, PTL

\* However often a backend delivers a message, and whatever fails, one row is
\* stored: route_inbound relies on the unique index alone.
THEOREM IdsStoredOnce == Spec => []OneMessagePerExternalId
<1>1. RoutingInv => OneMessagePerExternalId
  BY DEF RoutingInv, IndexHolds, PastInsert, SameId, OneMessagePerExternalId, Stored
<1>. QED  BY <1>1, Inductive, PTL

\* No message is dropped as a duplicate of one that is not committed.
THEOREM DuplicatesAreStored == Spec => []DuplicateOfStored
<1>1. RoutingInv => DuplicateOfStored
  BY DEF RoutingInv
<1>. QED  BY <1>1, Inductive, PTL

\* The check of the idempotency key lets two messages of one key pass only if
\* their processing overlapped, or if it was made for a number that is not
\* registered with the backend and the type of the message.
THEOREM KeysRepeatOnlyByOverlap == Spec => []KeyRepeatedByOverlap
<1>1. RoutingInv => KeyRepeatedByOverlap
  BY DEF RoutingInv, Met, KeyRepeatedByOverlap, Stored
<1>. QED  BY <1>1, Inductive, PTL

\* _get_or_create_room and the roll-back of a refused INSERT leave no room
\* without a message.
THEOREM RoomsHoldMessages == Spec => []NoEmptyRoom
<1>1. RoutingInv => NoEmptyRoom
  BY DEF RoutingInv
<1>. QED  BY <1>1, Inductive, PTL

\* The lock of _get_or_create_room does not make the room unique, but the
\* semaphore bounds the rooms of a pair.
THEOREM RoomsAreBounded == Spec => []RoomsPerPair
<1>1. ASSUME RoutingInv, RoomBound PROVE RoomsPerPair
  <2>1. rooms \cup Creators \subseteq Arrivals
    BY <1>1 DEF RoutingInv, InboundTypeOK, Creators
  <2>2. IsFiniteSet(rooms \cup Creators)
    BY <2>1, FS_Subset, InboundAssumption
  <2>3. rooms \subseteq rooms \cup Creators
    OBVIOUS
  <2>. QED  BY <1>1, <2>2, <2>3, Shrinks DEF RoomBound, RoomsPerPair
<1>. QED  BY <1>1, Inductive, PTL

\* A message is given up only for a fault of the database or of the process,
\* or because its participants have several rooms.
THEOREM LossesHaveACause == Spec => []LostOnlyByFault
<1>1. LossInv => LostOnlyByFault
  BY DEF LossInv
<1>. QED  BY <1>1, Inductive, PTL
=============================================================================
