----------------------- MODULE IdentityRequestsProofs -----------------------
(***************************************************************************)
(* What IdentityRequests promises for any number of requests, users and    *)
(* numbers: the connector store follows the identities unless something    *)
(* named interferes, and the same participants get two rooms only from two *)
(* requests at once.                                                       *)
(*                                                                         *)
(* The argument starts from the rows: a transaction holds the row it has   *)
(* written until it ends, and the row of a creation is nobody else's       *)
(* before it is committed.  So an update neither adds nor removes a row,   *)
(* a deletion removes its own, and the store is where the one request at   *)
(* work on it has brought it.                                              *)
(***************************************************************************)
EXTENDS IdentityRequests, TLAPS

\* Ops that write a row of chatd_user_identity.
RowOps == {"create", "update", "delete"}
Writing(r) == stage[r] \in {"held", "written", "none_left", "done"} /\ job[r].op \in RowOps

\* The row of a creation is its own, and does not exist before it commits, so
\* the row that another request names is that of a creation that is over.
RowsUnborn ==
    /\ \A r \in Requests : identity[r] # None => stage[r] = "over"
    /\ \A r \in Requests : job[r].op = "create" => job[r].row = r
    /\ \A r \in Requests : job[r].op \in {"update", "delete", "webhook", "message"} =>
          \A q \in Requests : job[r].row = q => stage[q] = "over"

\* An update or deletion that has written its row holds it, alone, to the end;
\* a deletion that found the row gone has nothing to hold.
RowsLocked ==
    \A r \in Requests : Writing(r) /\ job[r].op # "create" =>
       /\ job[r].op = "update" => identity[job[r].row] # None
       /\ identity[job[r].row] # None =>
             \A q \in Requests \ {r} : Writing(q) => job[q].row # job[r].row

\* Only a room is looked for before it is created, only an update enters the
\* index after it has taken its row, and only a deletion goes on after that.
StageOfJob ==
    \A r \in Requests : /\ stage[r] = "absent" => job[r].op = "room"
                        /\ stage[r] = "held" => job[r].op = "update"
                        /\ stage[r] \in {"none_left", "done"} => job[r].op = "delete"

RowsHeld == StageOfJob /\ RowsUnborn /\ RowsLocked

\* A room is being created only where none was found, or two race for it.
RoomsCreated ==
    /\ RoomsRepeatByOverlap
    /\ \A r \in Requests : stage[r] \in {"absent", "written"} /\ job[r].op = "room" =>
          /\ rooms[job[r].users] = 0 \/ job[r].users \in raced
          /\ Rival(r) => job[r].users \in raced

\* While nothing has parted the store from the rows, one request at most is at
\* work on it, and the store is where that request has brought it.
StoreFollows == astray = {} =>
    /\ \A q, r \in OnStore : q = r
    /\ (\A r \in OnStore : job[r].op # "create" /\ stage[r] # "done") =>
          (cached <=> Present(identity) # {})
    /\ \A r \in OnStore :
          /\ job[r].op = "create" => cached
          /\ job[r].op = "webhook" => Present(identity) # {}
          /\ stage[r] = "none_left" => Present(identity) \subseteq {job[r].row}
          /\ stage[r] = "done" => (cached <=> ~(Present(identity) \subseteq {job[r].row}))

-----------------------------------------------------------------------------
\* Every variable keeps its type, whichever request takes a step.
LEMMA TypeStep == TypeOK /\ [Next]_vars => TypeOK'
<1> SUFFICES ASSUME TypeOK, [Next]_vars PROVE TypeOK'
  OBVIOUS
<1> USE RequestsAssumption DEF TypeOK, Stage
<1>1. NoJob \in Job
  BY DEF Job
<1>2. ASSUME NEW r \in Requests, Refused(r) PROVE stage' \in [Requests -> Stage] /\ job' \in [Requests -> Job]
  BY <1>1, <1>2 DEF Refused
<1>3. CASE Invalidate
  <2>1. cached' \in BOOLEAN
    BY <1>3 DEF Invalidate
  <2>2. faults' \in Nat
    BY <1>3 DEF Invalidate, Spend
  <2>. QED  BY <1>3, <2>1, <2>2 DEF Invalidate
<1>4. CASE ListConnectors
  BY <1>4 DEF ListConnectors, Spend
<1>5. ASSUME NEW r \in Requests, NEW v \in Identity, PostIdentity(r, v) PROVE TypeOK'
  <2>1. [op |-> "create", row |-> r, value |-> v] \in Job
    BY DEF Job, Uuids
  <2>. QED  BY <1>5, <2>1 DEF PostIdentity, Begin
<1>6. ASSUME NEW r \in Requests, PostIdentityUnconfigured(r) PROVE TypeOK'
  <2>1. cached' \in BOOLEAN
    BY <1>6 DEF PostIdentityUnconfigured
  <2>2. faults' \in Nat
    BY <1>6 DEF PostIdentityUnconfigured, Spend
  <2>. QED  BY <1>6, <2>1, <2>2 DEF PostIdentityUnconfigured
<1>7. ASSUME NEW r \in Requests, NEW i \in Uuids, NEW n \in Numbers, PutIdentity(r, i, n) PROVE TypeOK'
  <2>1. identity[i] \in Identity
    BY <1>7 DEF PutIdentity
  <2>2. [user |-> identity[i].user, number |-> n] \in Identity
    BY <2>1 DEF Identity
  <2>3. [op |-> "update", row |-> i, value |-> [user |-> identity[i].user, number |-> n]] \in Job
    BY <2>2 DEF Job
  <2>. QED  BY <1>7, <2>3 DEF PutIdentity, Begin
<1>8. ASSUME NEW r \in Requests, NEW i \in Uuids, DeleteIdentity(r, i) PROVE TypeOK'
  <2>1. [op |-> "delete", row |-> i, value |-> identity[i]] \in Job
    BY <1>8 DEF Job, DeleteIdentity
  <2>. QED  BY <1>8, <2>1 DEF DeleteIdentity, Begin
<1>9. ASSUME NEW r \in Requests, NEW i \in Uuids, ReceiveWebhook(r, i) PROVE TypeOK'
  <2>1. [op |-> "webhook", row |-> i] \in Job
    BY DEF Job
  <2>. QED  BY <1>9, <2>1 DEF ReceiveWebhook, Begin
<1>10. ASSUME NEW r \in Requests, NEW u \in Users, NEW x \in Users \cup (Numbers \ Invalid), PostRoom(r, u, x)
       PROVE TypeOK'
  <2>1. [op |-> "room", users |-> {u, ParticipantOf(x)}] \in Job
    BY <1>10 DEF Job, PostRoom
  <2>. QED  BY <1>10, <2>1 DEF PostRoom, Begin
<1>11. ASSUME NEW r \in Requests, NEW users \in Participants, NEW u \in Users, NEW i \in Uuids,
              PostMessage(r, users, u, i)
       PROVE TypeOK'
  <2>1. [op |-> "message", users |-> users, user |-> u, row |-> i] \in Job
    BY DEF Job
  <2>. QED  BY <1>11, <2>1 DEF PostMessage, Begin
<1>12. ASSUME NEW r \in Requests, InsertIdentity(r) PROVE TypeOK'
  BY <1>2, <1>12 DEF InsertIdentity, Move
<1>13. ASSUME NEW r \in Requests, UpdateRow(r) \/ PlaceValue(r) \/ DeadlockDetected(r) PROVE TypeOK'
  BY <1>2, <1>13 DEF UpdateRow, PlaceValue, DeadlockDetected, Move
<1>14. ASSUME NEW r \in Requests, DeleteRow(r) PROVE TypeOK'
  BY <1>14 DEF DeleteRow, Move
<1>15. ASSUME NEW r \in Requests, HasIdentities(r) PROVE TypeOK'
  BY <1>15 DEF HasIdentities, Move
<1>16. ASSUME NEW r \in Requests, DropConnector(r) PROVE TypeOK'
  BY <1>16 DEF DropConnector, Move
<1>17. ASSUME NEW r \in Requests, VerifyWebhook(r) PROVE TypeOK'
  BY <1>2, <1>17 DEF VerifyWebhook
<1>18. ASSUME NEW r \in Requests, ListRooms(r) PROVE TypeOK'
  <2>1. job[r].users \in Participants
    BY <1>18 DEF ListRooms, Job, NoJob
  <2>. QED  BY <1>2, <1>18, <2>1 DEF ListRooms, Move
<1>19. ASSUME NEW r \in Requests, CreateRoom(r) PROVE TypeOK'
  <2>1. Rival(r) => job[r].users \in Participants
    BY DEF Rival, Job, NoJob
  <2>. QED  BY <1>2, <1>19, <2>1 DEF CreateRoom, Move
<1>20. ASSUME NEW r \in Requests, FlushMessage(r) PROVE TypeOK'
  BY <1>2, <1>20 DEF FlushMessage, Move
<1>21. ASSUME NEW r \in Requests, Commit(r) PROVE TypeOK'
  <2>1. identity' \in [Uuids -> Identity \cup {None}]
    <3>1. CASE job[r].op \in {"create", "update", "delete"}
      <4>1. job[r].row \in Uuids /\ job[r].value \in Identity
        BY <3>1 DEF Job, NoJob
      <4>. QED  BY <1>21, <4>1 DEF Commit, Written
    <3>. QED  BY <1>21, <3>1 DEF Commit, Written
  <2>2. rooms' \in [Participants -> Nat]
    <3>1. job[r].op = "room" => job[r].users \in Participants
      BY DEF Job, NoJob
    <3>. QED  BY <1>21, <3>1 DEF Commit
  <2>. QED  BY <1>2, <1>21, <2>1, <2>2 DEF Commit
<1>22. ASSUME NEW r \in Requests, CommitFails(r) PROVE TypeOK'
  BY <1>2, <1>22 DEF CommitFails, Spend
<1>23. CASE UNCHANGED vars
  BY <1>23 DEF vars
<1>. QED
  BY <1>3, <1>4, <1>5, <1>6, <1>7, <1>8, <1>9, <1>10, <1>11, <1>12, <1>13, <1>14, <1>15,
     <1>16, <1>17, <1>18, <1>19, <1>20, <1>21, <1>22, <1>23 DEF Next, Step

\* The state the requests find has the types.
LEMMA TypeInit == Init => TypeOK
<1> SUFFICES ASSUME Init PROVE TypeOK
  OBVIOUS
<1> USE RequestsAssumption DEF Init
<1>1. cached \in BOOLEAN
  BY Zenon
<1>2. job \in [Requests -> Job] /\ stage \in [Requests -> Stage]
  BY DEF Job, Stage
<1>. QED  BY <1>1, <1>2 DEF TypeOK

-----------------------------------------------------------------------------
\* What a commit changes, of what the invariant is about.
Committed(r) ==
    /\ stage[r] \in {"written", "done"}
    /\ stage' = [stage EXCEPT ![r] = "over"]
    /\ job' = [job EXCEPT ![r] = NoJob]
    /\ job[r].op \notin RowOps => UNCHANGED identity
    /\ job[r].op \in RowOps =>
          /\ job[r].row \in Uuids
          /\ job[r].value \in Identity
          /\ identity' = [identity EXCEPT ![job[r].row] =
                            IF job[r].op = "delete" THEN None ELSE job[r].value]

\* A commit writes one row at most, the one the request has named.
LEMMA CommitEffect == TypeOK => \A r \in Requests : Commit(r) => Committed(r)
<1> SUFFICES ASSUME TypeOK, NEW r \in Requests, Commit(r) PROVE Committed(r)
  OBVIOUS
<1> USE DEF TypeOK, RowOps
<1>1. job[r].op \in RowOps => job[r].row \in Uuids /\ job[r].value \in Identity
  BY DEF Job, NoJob
<1>. QED  BY <1>1 DEF Commit, Committed, Written, Refused

\* The locks of the statements keep every row to one transaction at a time.
LEMMA RowsHeldStep == TypeOK /\ RowsHeld /\ [Next]_vars => RowsHeld'
<1> SUFFICES ASSUME TypeOK, RowsHeld, [Next]_vars PROVE RowsHeld'
  OBVIOUS
<1>21. \A r \in Requests : Commit(r) => Committed(r)
  BY CommitEffect
<1>22. /\ Requests \subseteq Uuids
       /\ \A r \in Requests : job[r].op \in RowOps \cup {"webhook", "message"} => job[r].row \in Uuids
  BY DEF Uuids, TypeOK, Job, NoJob, RowOps
<1> USE DEF TypeOK, Stage, RowsHeld, StageOfJob, RowsUnborn, RowsLocked, Writing, RowOps
<1>1. NoJob.op = "none"
  BY DEF NoJob
<1>2. ASSUME NEW r \in Requests, Refused(r), stage[r] # "over", UNCHANGED identity PROVE RowsHeld'
  BY <1>1, <1>2 DEF Refused
<1>3. CASE Invalidate \/ ListConnectors \/ UNCHANGED vars
  BY <1>3 DEF Invalidate, ListConnectors, vars
<1>4. ASSUME NEW r \in Requests, NEW v \in Identity, PostIdentity(r, v) PROVE RowsHeld'
  BY <1>4 DEF PostIdentity, Begin
<1>5. ASSUME NEW r \in Requests, PostIdentityUnconfigured(r) PROVE RowsHeld'
  BY <1>5 DEF PostIdentityUnconfigured
<1>6. ASSUME NEW r \in Requests, NEW i \in Uuids, NEW n \in Numbers, PutIdentity(r, i, n) PROVE RowsHeld'
  BY <1>6 DEF PutIdentity, Begin
<1>7. ASSUME NEW r \in Requests, NEW i \in Uuids, DeleteIdentity(r, i) PROVE RowsHeld'
  BY <1>7 DEF DeleteIdentity, Begin
<1>8. ASSUME NEW r \in Requests, NEW i \in Uuids, ReceiveWebhook(r, i) PROVE RowsHeld'
  BY <1>8 DEF ReceiveWebhook, Begin
<1>9. ASSUME NEW r \in Requests, NEW u \in Users, NEW x \in Users \cup (Numbers \ Invalid), PostRoom(r, u, x)
      PROVE RowsHeld'
  BY <1>9 DEF PostRoom, Begin
<1>10. ASSUME NEW r \in Requests, NEW users \in Participants, NEW u \in Users, NEW i \in Uuids,
              PostMessage(r, users, u, i)
       PROVE RowsHeld'
  BY <1>10 DEF PostMessage, Begin
<1>11. ASSUME NEW r \in Requests, InsertIdentity(r) PROVE RowsHeld'
  BY <1>2, <1>11 DEF InsertIdentity, Move
<1>12. ASSUME NEW r \in Requests, UpdateRow(r) PROVE RowsHeld'
  <2>1. CASE Refused(r)
    BY <1>2, <1>12, <2>1 DEF UpdateRow
  <2>2. CASE ~Refused(r)
    BY <1>12, <2>2 DEF UpdateRow, Move, RowTaken, Writers
  <2>. QED  BY <2>1, <2>2
<1>20. ASSUME NEW r \in Requests, PlaceValue(r) \/ DeadlockDetected(r) PROVE RowsHeld'
  <2>0. stage[r] = "held" /\ UNCHANGED identity
    BY <1>20 DEF PlaceValue, DeadlockDetected, Circle
  <2>1. CASE Refused(r)
    BY <1>2, <2>0, <2>1
  <2>2. CASE ~Refused(r)
    BY <1>20, <2>0, <2>2 DEF PlaceValue, DeadlockDetected, Move
  <2>. QED  BY <2>1, <2>2
<1>13. ASSUME NEW r \in Requests, DeleteRow(r) PROVE RowsHeld'
  BY <1>13 DEF DeleteRow, Move, RowTaken, Writers
<1>14. ASSUME NEW r \in Requests, HasIdentities(r) \/ DropConnector(r) PROVE RowsHeld'
  BY <1>14 DEF HasIdentities, DropConnector, Move
<1>15. ASSUME NEW r \in Requests, VerifyWebhook(r) PROVE RowsHeld'
  BY <1>2, <1>15 DEF VerifyWebhook
<1>16. ASSUME NEW r \in Requests, ListRooms(r) \/ CreateRoom(r) PROVE RowsHeld'
  <2>1. CASE Refused(r)
    BY <1>2, <1>16, <2>1 DEF ListRooms, CreateRoom
  <2>2. CASE ~Refused(r)
    BY <1>16, <2>2 DEF ListRooms, CreateRoom, Move
  <2>. QED  BY <2>1, <2>2
<1>17. ASSUME NEW r \in Requests, FlushMessage(r) PROVE RowsHeld'
  <2>1. CASE Refused(r)
    BY <1>2, <1>17, <2>1 DEF FlushMessage
  <2>2. CASE ~Refused(r)
    BY <1>17, <2>2 DEF FlushMessage, Move
  <2>. QED  BY <2>1, <2>2
<1>18. ASSUME NEW r \in Requests, Commit(r) PROVE RowsHeld'
  <2>0. Committed(r)
    BY <1>18, <1>21
  <2>1. /\ stage'[r] = "over" /\ stage[r] # "over"
        /\ job'[r].op = "none"
        /\ \A q \in Requests \ {r} : stage'[q] = stage[q] /\ job'[q] = job[q]
    BY <1>1, <2>0 DEF Committed
  <2>2. CASE job[r].op \notin RowOps
    BY <2>0, <2>1, <2>2 DEF Committed
  <2>3. CASE job[r].op \in RowOps
    <3>1. Writing(r)
      BY <2>0, <2>3 DEF Committed
    <3>2. \A i \in Uuids : i # job[r].row => identity'[i] = identity[i]
      BY <2>0, <2>3 DEF Committed
    <3>3. identity'[job[r].row] = IF job[r].op = "delete" THEN None ELSE job[r].value
      BY <2>0, <2>3 DEF Committed
    <3>4. StageOfJob' /\ RowsUnborn'
      BY <1>22, <2>1, <3>1, <3>2, <3>3
    <3>6. RowsLocked'
      BY <1>22, <2>1, <3>1, <3>2, <3>3
    <3>. QED  BY <3>4, <3>6
  <2>. QED  BY <2>2, <2>3
<1>19. ASSUME NEW r \in Requests, CommitFails(r) PROVE RowsHeld'
  BY <1>2, <1>19 DEF CommitFails
<1>. QED
  BY <1>3, <1>4, <1>5, <1>6, <1>7, <1>8, <1>9, <1>10, <1>11, <1>12, <1>13, <1>14, <1>15,
     <1>16, <1>17, <1>18, <1>19, <1>20 DEF Next, Step

-----------------------------------------------------------------------------
\* Looking for a room, creating and committing one keep count of the races.
LEMMA RoomsCreatedStep == TypeOK /\ StageOfJob /\ RoomsCreated /\ [Next]_vars => RoomsCreated'
<1> SUFFICES ASSUME TypeOK, StageOfJob, RoomsCreated, [Next]_vars PROVE RoomsCreated'
  OBVIOUS
<1>2. \A r \in Requests : Commit(r) => Committed(r)
  BY CommitEffect
<1>3. \A r \in Requests : job[r].op = "room" => job[r].users \in Participants
  BY DEF TypeOK, Job, NoJob
<1> USE DEF TypeOK, Stage, StageOfJob, RoomsCreated, RoomsRepeatByOverlap, Rival
<1>4. NoJob.op = "none"
  BY DEF NoJob
<1>5. ASSUME NEW r \in Requests, Refused(r), UNCHANGED <<rooms, raced>> PROVE RoomsCreated'
  BY <1>4, <1>5 DEF Refused
<1>6. CASE Invalidate \/ ListConnectors \/ UNCHANGED vars
  BY <1>6 DEF Invalidate, ListConnectors, vars
<1>7. ASSUME NEW r \in Requests, NEW j, Begin(r, j), UNCHANGED <<rooms, raced>> PROVE RoomsCreated'
  BY <1>7 DEF Begin
<1>8. ASSUME NEW r \in Requests, PostIdentityUnconfigured(r) PROVE RoomsCreated'
  BY <1>8 DEF PostIdentityUnconfigured
<1>9. ASSUME NEW r \in Requests, job[r].op \in RowOps \cup {"message"}, UNCHANGED <<job, rooms, raced>>,
             NEW t \in Stage, stage' = [stage EXCEPT ![r] = t]
      PROVE RoomsCreated'
  BY <1>9 DEF RowOps
<1>10. ASSUME NEW r \in Requests,
              \/ InsertIdentity(r) \/ UpdateRow(r) \/ PlaceValue(r) \/ DeadlockDetected(r)
              \/ DeleteRow(r) \/ HasIdentities(r) \/ DropConnector(r) \/ FlushMessage(r)
       PROVE RoomsCreated'
  BY <1>5, <1>9, <1>10
     DEF RowOps, InsertIdentity, UpdateRow, PlaceValue, DeadlockDetected, Circle, DeleteRow,
         HasIdentities, DropConnector, FlushMessage, Move
<1>11. ASSUME NEW r \in Requests, VerifyWebhook(r) PROVE RoomsCreated'
  BY <1>5, <1>11 DEF VerifyWebhook
<1>12. ASSUME NEW r \in Requests, ListRooms(r) \/ CreateRoom(r) PROVE RoomsCreated'
  <2>1. /\ stage[r] \in {"read", "absent"} /\ job[r].op = "room"
        /\ raced' = raced \cup (IF Rival(r) THEN {job[r].users} ELSE {})
        /\ UNCHANGED rooms
        /\ stage[r] = "read" /\ ~Refused(r) => rooms[job[r].users] = 0
    BY <1>3, <1>12 DEF ListRooms, CreateRoom, Move
  <2>2. CASE Refused(r)
    BY <1>4, <2>1, <2>2 DEF Refused
  <2>3. CASE ~Refused(r)
    <3>1. /\ UNCHANGED job
          /\ stage' = [stage EXCEPT ![r] = IF stage[r] = "read" THEN "absent" ELSE "written"]
      BY <1>12, <2>3 DEF ListRooms, CreateRoom, Move
    <3>. QED  BY <2>1, <2>3, <3>1
  <2>. QED  BY <2>2, <2>3
<1>14. ASSUME NEW r \in Requests, Commit(r) PROVE RoomsCreated'
  <2>1. /\ UNCHANGED raced
        /\ rooms' = IF job[r].op = "room" THEN [rooms EXCEPT ![job[r].users] = @ + 1] ELSE rooms
    BY <1>14 DEF Commit
  <2>2. /\ stage' = [stage EXCEPT ![r] = "over"]
        /\ job' = [job EXCEPT ![r] = NoJob]
    BY <1>2, <1>14 DEF Committed
  <2>3. CASE job[r].op # "room"
    BY <1>4, <2>1, <2>2, <2>3
  <2>4. CASE job[r].op = "room"
    <3>1. stage[r] = "written" /\ job[r].users \in Participants
      BY <1>3, <1>14, <2>4 DEF Commit
    <3>2. RoomsRepeatByOverlap'
      BY <2>1, <2>4, <3>1
    <3>3. ASSUME NEW q \in Requests, q # r, stage[q] \in {"absent", "written"}, job[q].op = "room"
          PROVE job[q].users = job[r].users => job[q].users \in raced
      BY <2>4, <3>1, <3>3
    <3>. QED  BY <1>3, <1>4, <2>1, <2>2, <2>4, <3>1, <3>2, <3>3
  <2>. QED  BY <2>3, <2>4
<1>15. ASSUME NEW r \in Requests, CommitFails(r) PROVE RoomsCreated'
  BY <1>5, <1>15 DEF CommitFails
<1>. QED
  BY <1>6, <1>7, <1>8, <1>10, <1>11, <1>12, <1>14, <1>15
     DEF Next, Step, PostIdentity, PutIdentity, DeleteIdentity, ReceiveWebhook, PostRoom, PostMessage

-----------------------------------------------------------------------------
\* The request that is at work on the store brings it along with the rows.
LEMMA StoreFollowsStep == TypeOK /\ RowsHeld /\ StoreFollows /\ [Next]_vars => StoreFollows'
<1> SUFFICES ASSUME TypeOK, RowsHeld, StoreFollows, [Next]_vars, astray' = {} PROVE StoreFollows'
  BY DEF StoreFollows
<1>2. \A r \in Requests : Commit(r) => Committed(r)
  BY CommitEffect
<1>3. Requests \subseteq Uuids
  BY DEF Uuids
<1> USE DEF TypeOK, Stage, StoreFollows, OnStore, Active
<1>4. NoJob.op = "none"
  BY DEF NoJob
\* A request that is not at work on the store, before or after, changes nothing.
<1>5. ASSUME NEW r \in Requests, UNCHANGED <<cached, astray>>, Present(identity)' = Present(identity),
             r \notin OnStore, r \notin OnStore',
             \A q \in Requests \ {r} : stage'[q] = stage[q] /\ job'[q] = job[q]
      PROVE StoreFollows'
  BY <1>5
\* The end of a request that has left the store as the rows are.
<1>6. ASSUME NEW r \in Requests, Refused(r), job[r].op # "create", stage[r] \notin {"done", "idle", "over"},
             UNCHANGED <<identity, cached>>, astray = {}
      PROVE StoreFollows'
  BY <1>4, <1>6 DEF Refused, Present
<1>7. CASE Invalidate \/ ListConnectors
  BY <1>7 DEF Invalidate, ListConnectors
<1>8. CASE UNCHANGED vars
  BY <1>8 DEF vars, Present
<1>9. ASSUME NEW r \in Requests, NEW v \in Identity, PostIdentity(r, v) PROVE StoreFollows'
  BY <1>9 DEF PostIdentity, Begin
<1>10. ASSUME NEW r \in Requests, PostIdentityUnconfigured(r) PROVE StoreFollows'
  BY <1>10 DEF PostIdentityUnconfigured
<1>11. ASSUME NEW r \in Requests, NEW i \in Uuids, NEW n \in Numbers, PutIdentity(r, i, n) PROVE StoreFollows'
  BY <1>5, <1>11 DEF PutIdentity, Begin, Present
<1>12. ASSUME NEW r \in Requests, NEW i \in Uuids, DeleteIdentity(r, i) PROVE StoreFollows'
  BY <1>12 DEF DeleteIdentity, Begin, Present
<1>13. ASSUME NEW r \in Requests, NEW i \in Uuids, ReceiveWebhook(r, i) PROVE StoreFollows'
  BY <1>13 DEF ReceiveWebhook, Begin, Present
<1>14. ASSUME NEW r \in Requests, NEW u \in Users, NEW x \in Users \cup (Numbers \ Invalid), PostRoom(r, u, x)
       PROVE StoreFollows'
  BY <1>5, <1>14 DEF PostRoom, Begin, Present
<1>15. ASSUME NEW r \in Requests, NEW users \in Participants, NEW u \in Users, NEW i \in Uuids,
              PostMessage(r, users, u, i)
       PROVE StoreFollows'
  BY <1>5, <1>15 DEF PostMessage, Begin, Present
<1>16. ASSUME NEW r \in Requests, InsertIdentity(r) PROVE StoreFollows'
  BY <1>16 DEF InsertIdentity, Move, Present
<1>17. ASSUME NEW r \in Requests, UpdateRow(r) \/ PlaceValue(r) \/ DeadlockDetected(r)
       PROVE StoreFollows'
  <2>1. job[r].op = "update" /\ UNCHANGED <<identity, cached, astray>>
    BY <1>17 DEF UpdateRow, PlaceValue, DeadlockDetected, Circle, RowsHeld, StageOfJob
  <2>2. \A q \in Requests \ {r} : stage'[q] = stage[q] /\ job'[q] = job[q]
    BY <1>17 DEF UpdateRow, PlaceValue, DeadlockDetected, Refused, Move
  <2>3. job'[r].op \in {"update", "none"}
    BY <1>4, <1>17, <2>1 DEF UpdateRow, PlaceValue, DeadlockDetected, Refused
  <2>. QED  BY <1>5, <2>1, <2>2, <2>3 DEF Present
<1>18. ASSUME NEW r \in Requests, DeleteRow(r) PROVE StoreFollows'
  BY <1>18 DEF DeleteRow, Move, Present
<1>19. ASSUME NEW r \in Requests, HasIdentities(r) PROVE StoreFollows'
  BY <1>19 DEF HasIdentities, Move, Present
<1>20. ASSUME NEW r \in Requests, DropConnector(r) PROVE StoreFollows'
  BY <1>20 DEF DropConnector, Move, Present, RowsHeld, StageOfJob
<1>21. ASSUME NEW r \in Requests, VerifyWebhook(r) PROVE StoreFollows'
  BY <1>4, <1>21 DEF VerifyWebhook, Refused, Present
<1>22. ASSUME NEW r \in Requests, ListRooms(r) \/ CreateRoom(r) PROVE StoreFollows'
  BY <1>4, <1>5, <1>22 DEF ListRooms, CreateRoom, Refused, Move, Present, RowsHeld, StageOfJob
<1>23. ASSUME NEW r \in Requests, FlushMessage(r) PROVE StoreFollows'
  BY <1>4, <1>5, <1>23 DEF FlushMessage, Refused, Move, Present
<1>24. ASSUME NEW r \in Requests, Commit(r) PROVE StoreFollows'
  <2>1. UNCHANGED <<cached, astray>>
    BY <1>24 DEF Commit
  <2>2. /\ stage[r] \in {"written", "done"} /\ stage' = [stage EXCEPT ![r] = "over"]
        /\ job' = [job EXCEPT ![r] = NoJob]
        /\ stage[r] = "done" <=> job[r].op = "delete"
    BY <1>2, <1>24 DEF Commit, Committed
  <2>3. CASE job[r].op \notin RowOps
    <3>1. UNCHANGED identity
      BY <1>2, <1>24, <2>3 DEF Committed
    <3>. QED  BY <1>4, <2>1, <2>2, <2>3, <3>1 DEF Present, RowOps
  <2>4. CASE job[r].op \in RowOps
    <3>1. /\ job[r].row \in Uuids /\ job[r].value \in Identity /\ Writing(r)
          /\ identity' = [identity EXCEPT ![job[r].row] =
                            IF job[r].op = "delete" THEN None ELSE job[r].value]
      BY <1>2, <1>24, <2>4 DEF Committed, Writing
    <3>2. None \notin Identity
      BY RequestsAssumption DEF Identity
    <3>3. CASE job[r].op = "update"
      <4>1. Present(identity)' = Present(identity)
        BY <3>1, <3>2, <3>3 DEF Present, RowsHeld, RowsLocked
      <4>. QED  BY <1>4, <1>5, <2>1, <2>2, <3>3, <4>1
    <3>4. CASE job[r].op = "create"
      <4>1. Present(identity)' # {}
        BY <3>1, <3>2, <3>4 DEF Present
      <4>. QED  BY <1>4, <2>1, <2>2, <3>4, <4>1
    <3>5. CASE job[r].op = "delete"
      <4>1. Present(identity)' = Present(identity) \ {job[r].row}
        BY <3>1, <3>5 DEF Present
      <4>. QED  BY <1>4, <2>1, <2>2, <3>5, <4>1
    <3>. QED  BY <2>4, <3>3, <3>4, <3>5 DEF RowOps
  <2>. QED  BY <2>3, <2>4
<1>25. ASSUME NEW r \in Requests, CommitFails(r) PROVE StoreFollows'
  BY <1>6, <1>25 DEF CommitFails, RowsHeld, StageOfJob
<1>. QED
  BY <1>7, <1>8, <1>9, <1>10, <1>11, <1>12, <1>13, <1>14, <1>15, <1>16, <1>17, <1>18, <1>19,
     <1>20, <1>21, <1>22, <1>23, <1>24, <1>25 DEF Next, Step

-----------------------------------------------------------------------------
RequestsInv == TypeOK /\ RowsHeld /\ RoomsCreated /\ StoreFollows

\* Before the first request all of it holds.
LEMMA RequestsInit == Init => RequestsInv
<1> SUFFICES ASSUME Init PROVE RequestsInv
  OBVIOUS
<1> USE DEF Init
<1>1. NoJob.op = "none"
  BY DEF NoJob
<1>2. TypeOK
  BY TypeInit
<1>3. RowsHeld
  BY <1>1 DEF RowsHeld, StageOfJob, RowsUnborn, RowsLocked, Writing
<1>4. RoomsCreated
  BY <1>1 DEF RoomsCreated, RoomsRepeatByOverlap
<1>6. StoreFollows
  BY DEF StoreFollows, OnStore, Active
<1>. QED  BY <1>2, <1>3, <1>4, <1>6 DEF RequestsInv

\* Every step of a request, of a failure or of wazo-auth keeps it.
LEMMA RequestsStep == RequestsInv /\ [Next]_vars => RequestsInv'
BY TypeStep, RowsHeldStep, RoomsCreatedStep, StoreFollowsStep DEF RequestsInv, RowsHeld

\* Every variable has its type in every state.
THEOREM RequestsTypeCorrect == Spec => []TypeOK
<1>1. RequestsInv => TypeOK
  BY DEF RequestsInv
<1>. QED  BY <1>1, RequestsInit, RequestsStep, PTL DEF Spec

\* Unless requests on the store overlap, a commit fails, a creation is refused,
\* or wazo-auth or a listing interferes, the connector is instantiated between
\* requests exactly while the tenant has an identity of the backend.
THEOREM ConnectorFollowsIdentitiesHolds == Spec => []ConnectorFollowsIdentities
<1>1. RequestsInv => ConnectorFollowsIdentities
  BY DEF RequestsInv, StoreFollows, OnStore, ConnectorFollowsIdentities
<1>. QED  BY <1>1, RequestsInit, RequestsStep, PTL DEF Spec

\* A second room of the same participants takes two requests that looked for
\* one before either committed.
THEOREM RoomsRepeatByOverlapHolds == Spec => []RoomsRepeatByOverlap
<1>1. RequestsInv => RoomsRepeatByOverlap
  BY DEF RequestsInv, RoomsCreated
<1>. QED  BY <1>1, RequestsInit, RequestsStep, PTL DEF Spec
=============================================================================
