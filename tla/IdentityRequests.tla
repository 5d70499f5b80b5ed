-------------------------- MODULE IdentityRequests --------------------------
(***************************************************************************)
(* The HTTP requests on user identities, rooms and outbound messages, with *)
(* their transactions: plugins/connectors/http.py and services.py,         *)
(* plugins/rooms/http.py and services.py, database/queries/user_identity.py*)
(* and room.py, and ConnectorRouter.reconcile_after_delete.                *)
(*                                                                         *)
(* One tenant, one backend that supports one type.  A request runs in a    *)
(* thread of the server, with a session that is committed when the         *)
(* application context is torn down, after the response is built and after *)
(* whatever the request did to the connector store.  The database is READ  *)
(* COMMITTED: a request sees the committed rows and its own.               *)
(***************************************************************************)
EXTENDS Naturals, FiniteSets

CONSTANTS
    Requests,  \* requests, each of which is made once
    Users,     \* users of the tenant
    Numbers,   \* values of identities
    Invalid,   \* those normalize_identity refuses
    Rows,      \* uuids of the identities that there may be at first
    None,      \* no row; no number
    MaxFaults  \* bound: failed commits, events and refusals of wazo-auth and
               \* listings of the connectors

ASSUME RequestsAssumption ==
    /\ Invalid \subseteq Numbers
    /\ Users \cap Numbers = {}
    /\ Rows \cap Requests = {}
    /\ None \notin [user : Users, number : Numbers]
    /\ MaxFaults \in Nat

VARIABLES
    identity, \* chatd_user_identity
    rooms,    \* how many rooms of these participants there are
    cached,   \* has the connector store an instance of the backend?
    stage,    \* where each request is
    job,      \* what it does
    faults,
    astray,   \* history: what can have parted the store from the rows
    raced     \* history: participants whose room two requests created at once

vars == <<identity, rooms, cached, stage, job, faults, astray, raced>>

Identity == [user : Users, number : Numbers]
\* A request that creates an identity gives it a uuid that was never used.
Uuids == Rows \cup Requests
\* A user and another one, or a number nobody has: an external participant.
Participants == {{u, x} : u \in Users, x \in Users \cup (Numbers \ Invalid)}
                    \ {{u} : u \in Users}

NoJob == [op |-> "none"]
Job == {NoJob}
    \cup [op : {"create", "update", "delete"}, row : Uuids, value : Identity]
    \cup [op : {"webhook"}, row : Uuids]
    \cup [op : {"room"}, users : Participants]
    \cup [op : {"message"}, users : Participants, user : Users, row : Uuids]

\* Before anything is written; an update that holds its row and is not yet in
\* the unique index; written, not committed; a deletion that has found no other
\* identity of the backend; ready to commit.
Stage == {"idle", "read", "absent", "held", "written", "none_left", "done", "over"}

TypeOK ==
    /\ identity \in [Uuids -> Identity \cup {None}]
    /\ rooms \in [Participants -> Nat]
    /\ cached \in BOOLEAN
    /\ stage \in [Requests -> Stage]
    /\ job \in [Requests -> Job]
    /\ faults \in Nat
    /\ astray \subseteq {"overlap", "rollback", "refused", "event", "listing"}
    /\ raced \subseteq Participants

Present(table) == {i \in Uuids : table[i] # None}
Bound(table) == {table[i].number : i \in Present(table)}
NumbersOf(u) == {identity[i].number : i \in {j \in Present(identity) : identity[j].user = u}}

\* The connectors of the identities have been populated; either every
\* participants have a room or none have.
Init ==
    /\ identity \in [Uuids -> Identity \cup {None}]
    /\ \A r \in Requests : identity[r] = None
    /\ \A i \in Present(identity) : identity[i].number \notin Invalid
    /\ Cardinality(Bound(identity)) = Cardinality(Present(identity))
    /\ \E n \in {0, 1} : rooms = [p \in Participants |-> n]
    /\ cached = (Present(identity) # {})
    /\ stage = [r \in Requests |-> "idle"]
    /\ job = [r \in Requests |-> NoJob]
    /\ faults = MaxFaults
    /\ astray = {}
    /\ raced = {}

Active(r) == stage[r] \notin {"idle", "over"}

\* Requests other than r that hold the row they have written and not committed.
\* A deletion that found its row gone holds nothing.
Writers(r) ==
    {q \in Requests \ {r} :
        /\ stage[q] \in {"held", "written", "none_left", "done"}
        /\ job[q].op \in {"create", "update", "delete"}
        /\ job[q].op = "delete" => identity[job[q].row] # None}
OnStore == {q \in Requests : Active(q) /\ job[q].op \in {"create", "delete", "webhook"}}

Spend == faults > 0 /\ faults' = faults - 1

Begin(r, j) ==
    /\ stage[r] = "idle"
    /\ stage' = [stage EXCEPT ![r] = "read"]
    /\ job' = [job EXCEPT ![r] = j]

Move(r, from, to) ==
    /\ stage[r] = from
    /\ stage' = [stage EXCEPT ![r] = to]

\* The end of a request that commits nothing.
Refused(r) ==
    /\ stage' = [stage EXCEPT ![r] = "over"]
    /\ job' = [job EXCEPT ![r] = NoJob]

-----------------------------------------------------------------------------
(***************************************************************************)
(* Identities.                                                             *)
(***************************************************************************)

\* POST identities: validate_tenant_backend caches the connector first.
PostIdentity(r, v) ==
    /\ Begin(r, [op |-> "create", row |-> r, value |-> v])
    /\ cached' = TRUE
    /\ astray' = astray \cup (IF OnStore # {} THEN {"overlap"} ELSE {})
    /\ UNCHANGED <<identity, rooms, faults, raced>>

\* The same when wazo-auth answers with an error, which removes the instance.
PostIdentityUnconfigured(r) ==
    /\ stage[r] = "idle"
    /\ Spend
    /\ stage' = [stage EXCEPT ![r] = "over"]
    /\ cached' = FALSE
    /\ astray' = astray \cup {"event"}
    /\ UNCHANGED <<identity, rooms, job, raced>>

\* Whether n is bound is up to q: it is a value that q has put into the unique
\* index, or that of the row that q is changing or deleting.
InDoubt(q, n) ==
    \/ /\ job[q].op \in {"create", "update"} /\ stage[q] = "written"
       /\ job[q].value.number = n
    \/ /\ job[q].op \in {"update", "delete"} /\ identity[job[q].row] # None
       /\ identity[job[q].row].number = n

\* A transaction whose row r would write, whose end it waits for.
RowTaken(r) == \E q \in Writers(r) : job[q].row = job[r].row
\* A transaction whose end r waits for in the unique index.
Awaits(r, q) == q \in Writers(r) /\ InDoubt(q, job[r].value.number)

\* A message that is not committed shares the row of its sender.
Shared(i) == \E q \in Requests : stage[q] = "written" /\ job[q].op = "message" /\ job[q].row = i

\* UserIdentityDAO.create: 400 before the INSERT; 409 from the unique index,
\* where the INSERT waits for whoever has the value in doubt.
InsertIdentity(r) ==
    /\ stage[r] = "read"
    /\ job[r].op = "create"
    /\ \/ /\ job[r].value.number \notin Invalid \cup Bound(identity)
          /\ \A q \in Requests : ~Awaits(r, q)
          /\ Move(r, "read", "written")
          /\ UNCHANGED <<job, astray>>
       \/ /\ \/ job[r].value.number \in Invalid
             \/ /\ job[r].value.number \in Bound(identity)
                /\ \A q \in Requests : ~Awaits(r, q)
          /\ Refused(r)
          /\ astray' = astray \cup {"refused"}
    /\ UNCHANGED <<identity, rooms, cached, faults, raced>>

\* PUT identities: reads the row and changes the object of the session.  A PUT
\* of the value the row has changes nothing and emits no UPDATE.
PutIdentity(r, i, n) ==
    /\ identity[i] # None
    /\ n # identity[i].number
    /\ Begin(r, [op |-> "update", row |-> i, value |-> [user |-> identity[i].user, number |-> n]])
    /\ UNCHANGED <<identity, rooms, cached, faults, astray, raced>>

\* The UPDATE takes its row, and then enters the unique index.  It is flushed by
\* the DAO, or by the commit when the value is refused with 400: the exception
\* has been turned into a response by then and the object is still dirty.  500
\* when the row is gone.
UpdateRow(r) ==
    /\ stage[r] = "read"
    /\ job[r].op = "update"
    /\ ~RowTaken(r)
    /\ ~Shared(job[r].row)
    /\ IF identity[job[r].row] # None THEN Move(r, "read", "held") /\ UNCHANGED job
       ELSE Refused(r)
    /\ UNCHANGED <<identity, rooms, cached, faults, astray, raced>>

\* 409 when another row has the value, once nobody has it in doubt.
PlaceValue(r) ==
    /\ stage[r] = "held"
    /\ \A q \in Requests : ~Awaits(r, q)
    /\ IF \A i \in Present(identity) \ {job[r].row} : identity[i].number # job[r].value.number
       THEN Move(r, "held", "written") /\ UNCHANGED job
       ELSE Refused(r)
    /\ UNCHANGED <<identity, rooms, cached, faults, astray, raced>>

\* Updates that hold their rows and wait for one another in the index, like two
\* that swap values.  The database makes one of them fail: 500, this is not the
\* IntegrityError that the DAO looks for.
Circle(C) ==
    \A r \in C : /\ stage[r] = "held"
                 /\ \E q \in C : Awaits(r, q)
                 /\ \E q \in C : Awaits(q, r)
DeadlockDetected(r) ==
    /\ \E C \in SUBSET Requests : r \in C /\ Circle(C)
    /\ Refused(r)
    /\ UNCHANGED <<identity, rooms, cached, faults, astray, raced>>

DeleteIdentity(r, i) ==
    /\ identity[i] # None
    /\ Begin(r, [op |-> "delete", row |-> i, value |-> identity[i]])
    /\ astray' = astray \cup (IF OnStore # {} THEN {"overlap"} ELSE {})
    /\ UNCHANGED <<identity, rooms, cached, faults, raced>>

\* UserIdentityDAO.delete waits for the row.  A DELETE that finds it gone warns
\* and the request goes on.
DeleteRow(r) ==
    /\ job[r].op = "delete"
    /\ ~RowTaken(r)
    /\ ~Shared(job[r].row)
    /\ Move(r, "read", "written")
    /\ UNCHANGED <<identity, rooms, cached, job, faults, astray, raced>>

\* Mutant: the row that is being deleted is counted.
HasIdentitiesBefore(r) ==
    /\ job[r].op = "delete"
    /\ Move(r, "written", IF Present(identity) = {} THEN "none_left" ELSE "done")
    /\ UNCHANGED <<identity, rooms, cached, job, faults, astray, raced>>

\* has_identities_for_backend in the transaction that deleted the row.
HasIdentities(r) ==
    /\ job[r].op = "delete"
    /\ Move(r, "written", IF Present(identity) \subseteq {job[r].row} THEN "none_left" ELSE "done")
    /\ UNCHANGED <<identity, rooms, cached, job, faults, astray, raced>>

\* Mutant: the connector is dropped when no other request is using the store.
DropWhenUnused(r) ==
    /\ OnStore \subseteq {r}
    /\ Move(r, "none_left", "done")
    /\ cached' = FALSE
    /\ UNCHANGED <<identity, rooms, job, faults, astray, raced>>

\* reconcile_after_delete drops the connector.
DropConnector(r) ==
    /\ Move(r, "none_left", "done")
    /\ cached' = FALSE
    /\ UNCHANGED <<identity, rooms, job, faults, astray, raced>>

\* dispatch_webhook, _resolve_tenant: the row tells the tenant of a number; an
\* event for a number nobody has is refused.
ReceiveWebhook(r, i) ==
    /\ identity[i] # None
    /\ Begin(r, [op |-> "webhook", row |-> i])
    /\ astray' = astray \cup (IF OnStore # {} THEN {"overlap"} ELSE {})
    /\ UNCHANGED <<identity, rooms, cached, faults, raced>>

\* _verify_and_enqueue caches the connector, whatever became of the row, and
\* checks the signature.
VerifyWebhook(r) ==
    /\ stage[r] = "read"
    /\ job[r].op = "webhook"
    /\ cached' = TRUE
    /\ Refused(r)
    /\ UNCHANGED <<identity, rooms, faults, astray, raced>>

\* invalidate_backend_cache drops it on an event of wazo-auth.
Invalidate ==
    /\ cached
    /\ Spend
    /\ cached' = FALSE
    /\ astray' = astray \cup {"event"}
    /\ UNCHANGED <<identity, rooms, stage, job, raced>>

\* GET connectors caches the connectors of the tenant, used or not.
ListConnectors ==
    /\ ~cached
    /\ Spend
    /\ cached' = TRUE
    /\ astray' = astray \cup {"listing"}
    /\ UNCHANGED <<identity, rooms, stage, job, raced>>

-----------------------------------------------------------------------------
(***************************************************************************)
(* Rooms.                                                                  *)
(***************************************************************************)

\* resolve_room_participants: a number is the user who has it, or external.
Resolved(x) ==
    IF x \in Bound(identity)
    THEN (CHOOSE i \in Present(identity) : identity[i].number = x) ELSE None
ParticipantOf(x) == IF x \in Users \/ Resolved(x) = None THEN x ELSE identity[Resolved(x)].user

\* POST rooms of u with a user or a number.  A room of one participant, or of
\* a number no connector can reach, is refused and not modelled.
PostRoom(r, u, x) ==
    /\ {u, ParticipantOf(x)} \in Participants
    /\ Begin(r, [op |-> "room", users |-> {u, ParticipantOf(x)}])
    /\ UNCHANGED <<identity, rooms, cached, faults, astray, raced>>

\* Another request is creating a room of these participants.
Rival(r) == \E q \in Requests \ {r} : /\ stage[q] \in {"absent", "written"}
                                      /\ job[q].op = "room"
                                      /\ job[q].users = job[r].users

\* Mutant: rooms that contain the participants and others only are found.
ListOtherRooms(r) ==
    /\ stage[r] = "read"
    /\ job[r].op = "room"
    /\ Move(r, "read", "absent")
    /\ raced' = raced \cup (IF Rival(r) THEN {job[r].users} ELSE {})
    /\ UNCHANGED <<identity, rooms, cached, job, faults, astray>>

\* list_ with exact_user_uuids: an existing room is returned.
ListRooms(r) ==
    /\ stage[r] = "read"
    /\ job[r].op = "room"
    /\ IF rooms[job[r].users] > 0 THEN Refused(r) ELSE Move(r, "read", "absent") /\ UNCHANGED job
    /\ raced' = raced \cup (IF Rival(r) THEN {job[r].users} ELSE {})
    /\ UNCHANGED <<identity, rooms, cached, faults, astray>>

External(users) == users \cap Numbers
\* validate_room_reachability: with an external participant, which must not
\* have been bound meanwhile, the others need an identity.
Reachable(users) ==
    External(users) # {} =>
      /\ External(users) \cap Bound(identity) = {}
      /\ \A u \in users \cap Users : NumbersOf(u) # {}

CreateRoom(r) ==
    /\ stage[r] = "absent"
    /\ IF Reachable(job[r].users) THEN Move(r, "absent", "written") /\ UNCHANGED job
       ELSE Refused(r)
    /\ raced' = raced \cup (IF Rival(r) THEN {job[r].users} ELSE {})
    /\ UNCHANGED <<identity, rooms, cached, faults, astray>>

-----------------------------------------------------------------------------
(***************************************************************************)
(* Outbound messages.                                                      *)
(***************************************************************************)

\* POST messages of u with its identity i: validate_identity_reachability.
PostMessage(r, users, u, i) ==
    /\ u \in users
    /\ rooms[users] > 0
    /\ identity[i] # None
    /\ identity[i].user = u
    /\ \A v \in (users \cap Users) \ {u} : NumbersOf(v) # {}
    /\ Begin(r, [op |-> "message", users |-> users, user |-> u, row |-> i])
    /\ UNCHANGED <<identity, rooms, cached, faults, astray, raced>>

\* _resolve_outbound_recipients: the external participant, or an identity of
\* the other user.
Recipients(users, u) ==
    External(users) \cup UNION {NumbersOf(v) : v \in (users \cap Users) \ {u}}

\* prepare_outbound_delivery and the INSERT, whose foreign key waits for a
\* transaction that has written the row of the sender, and then shares it.
FlushMessage(r) ==
    /\ stage[r] = "read"
    /\ job[r].op = "message"
    /\ ~RowTaken(r)
    /\ IF Recipients(job[r].users, job[r].user) # {} /\ identity[job[r].row] # None
       THEN Move(r, "read", "written") /\ UNCHANGED job
       ELSE Refused(r)
    /\ UNCHANGED <<identity, rooms, cached, faults, astray, raced>>

-----------------------------------------------------------------------------
\* The rows of a request when it is committed.
Written(r) ==
    IF job[r].op \notin {"create", "update", "delete"} THEN identity
    ELSE [identity EXCEPT ![job[r].row] = IF job[r].op = "delete" THEN None ELSE job[r].value]

\* teardown_appcontext: a handled exception does not prevent the commit.
Commit(r) ==
    /\ stage[r] = (IF job[r].op = "delete" THEN "done" ELSE "written")
    /\ identity' = Written(r)
    /\ rooms' = IF job[r].op = "room" THEN [rooms EXCEPT ![job[r].users] = @ + 1] ELSE rooms
    /\ Refused(r)
    /\ UNCHANGED <<cached, faults, astray, raced>>

\* The COMMIT fails: what the request did to the store stays.
CommitFails(r) ==
    /\ stage[r] \in {"written", "done"}
    /\ Spend
    /\ Refused(r)
    /\ astray' = astray \cup (IF job[r].op \in {"create", "delete"} THEN {"rollback"} ELSE {})
    /\ UNCHANGED <<identity, rooms, cached, raced>>

Step(r) ==
    \/ InsertIdentity(r)
    \/ UpdateRow(r)
    \/ PlaceValue(r)
    \/ DeadlockDetected(r)
    \/ DeleteRow(r)
    \/ HasIdentities(r)
    \/ DropConnector(r)
    \/ VerifyWebhook(r)
    \/ ListRooms(r)
    \/ CreateRoom(r)
    \/ FlushMessage(r)
    \/ Commit(r)

Next ==
    \/ Invalidate
    \/ ListConnectors
    \/ \E r \in Requests :
          \/ \E v \in Identity : PostIdentity(r, v)
          \/ PostIdentityUnconfigured(r)
          \/ \E i \in Uuids, n \in Numbers : PutIdentity(r, i, n)
          \/ \E i \in Uuids : DeleteIdentity(r, i) \/ ReceiveWebhook(r, i)
          \/ \E u \in Users, x \in Users \cup (Numbers \ Invalid) : PostRoom(r, u, x)
          \/ \E users \in Participants, u \in Users, i \in Uuids : PostMessage(r, users, u, i)
          \/ Step(r)
          \/ CommitFails(r)

Spec == Init /\ [][Next]_vars

FairSpec == Spec /\ \A r \in Requests : WF_vars(Step(r))

-----------------------------------------------------------------------------
(***************************************************************************)
(* Properties.                                                             *)
(***************************************************************************)

\* Between requests the connector is instantiated exactly while the tenant
\* has an identity of the backend, although every request changes the store
\* before it commits.  What can part them: creations, deletions and webhooks
\* that overlap (two deletions of the last two rows each see the other's; a
\* webhook brings back what a deletion dropped), a commit that fails, a
\* creation that is refused, an event of wazo-auth and a listing of the
\* connectors.
ConnectorFollowsIdentities ==
    (\A r \in Requests : ~Active(r)) /\ astray = {} =>
      (cached <=> Present(identity) # {})

\* The requests give the same participants two rooms only if two of them were
\* creating one at once.  A room that an inbound message makes is not theirs.
RoomsRepeatByOverlap == \A p \in Participants : rooms[p] > 1 => p \in raced

\* No identity has a value its connector refuses (InvalidIdentityFormat).
ValidIdentities == \A i \in Present(identity) : identity[i].number \notin Invalid

\* Every request comes to an end, although updates that hold their rows can
\* wait for one another in the unique index: the database refuses one of those.
\* No wait in the database is for a request that waits in the process.
RequestsEnd == \A r \in Requests : Active(r) ~> ~Active(r)
=============================================================================
