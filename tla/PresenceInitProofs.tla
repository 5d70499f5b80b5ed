------------------------- MODULE PresenceInitProofs -------------------------
(***************************************************************************)
(* What PresenceInit promises for any facts and owners, any rows left by   *)
(* earlier runs and any number of changes, boots and failures.             *)
(*                                                                         *)
(* That no row is without its owners rests on two lemmas, one on what the  *)
(* handlers do with one event and one on what the initialization does with *)
(* one table; both need Owners to be transitive.  That the flags tell the  *)
(* truth to the API is an invariant on the phase of the thread.  That the  *)
(* rows converge follows a fact along events, delayed callbacks, answers   *)
(* and tables: FactsInv.                                                   *)
(***************************************************************************)
EXTENDS PresenceInit, SequenceTheorems, TLAPS

\* The flags at each phase: initialized is given last and taken first.
FlagsInPhase ==
    /\ phase \in {"publish", "done", "off"} => ~inProgress
    /\ initialized => phase \in {"done", "off"}

PresenceInv ==
    /\ PresenceTypeOK
    /\ OwnersPresent
    /\ FlagsInPhase

-----------------------------------------------------------------------------
(* Operators. *)

\* No fact hangs on itself, and a tenant on none.
LEMMA OwnersOrder ==
    \A i \in Facts : /\ Owners[i] \subseteq Facts
                     /\ i \notin Owners[i]
                     /\ \A j \in Owners[i] : Owners[j] \subseteq Owners[i]
                     /\ Table[i] = "tenant" => Owners[i] = {}
<1> SUFFICES ASSUME NEW i \in Facts
             PROVE  /\ Owners[i] \subseteq Facts
                    /\ i \notin Owners[i]
                    /\ \A j \in Owners[i] : Owners[j] \subseteq Owners[i]
                    /\ Table[i] = "tenant" => Owners[i] = {}
  OBVIOUS
<1>1. Owners[i] \subseteq Facts /\ Closed(Owners[i]) /\ Table[i] \in Tables
      /\ \A j \in Owners[i] : Table[j] \in ForeignKeys[Table[i]]
  BY PresenceAssumption
<1>2. \A t \in Tables : t \notin ForeignKeys[t] /\ (t = "tenant" => ForeignKeys[t] = {})
  BY DEF ForeignKeys, Tables, ApplyOrder
<1> QED BY <1>1, <1>2 DEF Closed

\* A row and those that hang on it can be deleted together.
LEMMA DeletedCloses ==
    ASSUME NEW db \in SUBSET Facts, Closed(db), NEW i \in Facts
    PROVE  Deleted(i, db) \in SUBSET Facts /\ Closed(Deleted(i, db))
BY OwnersOrder DEF Deleted, Dependents, Closed

\* A row is created when its owners are there, or with its tenant.
LEMMA CreatedCloses ==
    ASSUME NEW db \in SUBSET Facts, Closed(db), NEW i \in Facts
    PROVE  Created(i, db) \in SUBSET Facts /\ Closed(Created(i, db))
<1>1. Supplied(i) \subseteq Facts /\ \A j \in Supplied(i) : Owners[j] = {}
  BY OwnersOrder DEF Supplied
<1>2. CASE Owners[i] \ Supplied(i) \subseteq db
  BY <1>1, <1>2, OwnersOrder DEF Created, Closed
<1>3. CASE ~(Owners[i] \ Supplied(i) \subseteq db)
  BY <1>3 DEF Created
<1> QED BY <1>2, <1>3

LEMMA HandledCloses ==
    ASSUME NEW db \in SUBSET Facts, Closed(db), NEW e \in Changes
    PROVE  Handled(e, db) \in SUBSET Facts /\ Closed(Handled(e, db))
<1>1. e.fact \in Facts BY DEF Changes
<1> QED BY <1>1, DeletedCloses, CreatedCloses DEF Handled

LEMMA MisledType ==
    ASSUME NEW db \in SUBSET Facts, NEW e \in Changes
    PROVE  Misled(e, db) \subseteq Facts
BY DEF Misled, Changes

\* The transaction of one table leaves no row without its owners, whatever was
\* listed.
LEMMA TableCloses ==
    ASSUME rows \in SUBSET Facts, Closed(rows), NEW t
    PROVE  Kept(t) \cup Valid(t) \in SUBSET Facts /\ Closed(Kept(t) \cup Valid(t))
<1>1. /\ \A i \in Wanted(t) : Supplied(i) \subseteq Facts
      /\ \A i \in Wanted(t) : \A j \in Supplied(i) : Owners[j] = {}
  BY OwnersOrder DEF Supplied, Wanted, Rows
<1>2. Closed(rows \ Expired(t))
  <2>1. \A j \in Facts : j \in Expired(t) <=> \E i \in Rows(t) \ snapshot : j = i \/ i \in Owners[j]
    BY DEF Expired, Dependents, Rows
  <2>2. \A j \in rows : \A k \in Owners[j] : k \in rows /\ Owners[k] \subseteq Owners[j]
    BY OwnersOrder DEF Closed
  <2> QED BY <2>1, <2>2 DEF Closed
<1>3. Closed(Kept(t))
  BY <1>1, <1>2 DEF Closed, Kept
<1>4. Valid(t) \subseteq Facts /\ \A i \in Valid(t) : Owners[i] \subseteq Kept(t)
  BY DEF Valid, Wanted, Rows
<1>5. Kept(t) \subseteq Facts
  BY <1>1 DEF Kept
<1> QED BY <1>3, <1>4, <1>5 DEF Closed

\* The positions of FetchOrder and ApplyOrder, for the steps that advance.
LEMMA Orders ==
    /\ Len(FetchOrder) = 6 /\ DOMAIN FetchOrder = 1 .. 6
    /\ \A n \in 1 .. 6 : FetchOrder[n] \in Resources
    /\ Len(ApplyOrder) = 8 /\ DOMAIN ApplyOrder = 1 .. 8
BY DEF FetchOrder, ApplyOrder, Resources

\* Another event at the end of a queue leaves its head.
LEMMA PublishType ==
    ASSUME PresenceTypeOK, NEW e \in Changes \cup {FullyBooted}, Publish(e)
    PROVE  /\ events' \in Seq(Changes \cup {FullyBooted})
           /\ events' # <<>>
           /\ events # <<>> => Head(events') = Head(events)
BY DEF PresenceTypeOK, Publish

\* The handler gives up the event in hand.
LEMMA TakeType ==
    ASSUME PresenceTypeOK, events # <<>>, Take
    PROVE  events' \in Seq(Changes \cup {FullyBooted}) /\ handler' = "idle"
BY DEF PresenceTypeOK, Take

LEMMA SpendType ==
    ASSUME PresenceTypeOK, NEW k \in {"changes", "boots", "failures"}, Spend(k)
    PROVE  budget' \in [{"changes", "boots", "failures"} -> Nat]
BY DEF PresenceTypeOK, Spend

-----------------------------------------------------------------------------
(* The invariant. *)

LEMMA PresenceInvInit == Init => PresenceInv
<1> SUFFICES ASSUME Init PROVE PresenceInv
  OBVIOUS
<1>1. truth \subseteq Facts /\ rows \subseteq Facts /\ Closed(rows)
  BY PresenceAssumption DEF Init
<1>2. budget \in [{"changes", "boots", "failures"} -> Nat] /\ timeouts \in 0 .. TimeoutRetries
  BY PresenceAssumption DEF Init
<1>3. /\ delayed \in Seq(Changes) /\ Len(delayed) = 0
      /\ events \in Seq(Changes \cup {FullyBooted})
  BY EmptySeq DEF Init
<1>4. stale \in 0 .. Len(delayed) /\ events = <<>> /\ handler = "idle"
  BY <1>3 DEF Init
<1>5. /\ phase \in Phases /\ step \in Nat /\ snapshot \subseteq Facts
      /\ marks \subseteq Resources /\ doubt \subseteq Facts
      /\ inProgress \in BOOLEAN /\ initialized \in BOOLEAN /\ calm \in BOOLEAN
      /\ phase \notin {"fetch", "mark", "apply", "replay", "publish", "done", "off"}
      /\ ~initialized
  BY DEF Init, Phases, Running
<1>6. PresenceTypeOK
  BY <1>1, <1>2, <1>3, <1>4, <1>5 DEF PresenceTypeOK
<1> QED BY <1>1, <1>5, <1>6 DEF PresenceInv, OwnersPresent, FlagsInPhase

\* A change or a boot touches the servers and the queue.
LEMMA ServersKeep == PresenceInv /\ (Change \/ Boot) => PresenceInv'
<1> SUFFICES ASSUME PresenceInv, Change \/ Boot PROVE PresenceInv'
  OBVIOUS
<1>1. /\ truth' \subseteq Facts
      /\ \E e \in Changes \cup {FullyBooted} : Publish(e)
      /\ \E k \in {"changes", "boots", "failures"} : Spend(k)
      /\ calm' \in BOOLEAN
      /\ UNCHANGED <<rows, initVars, handler, delayed, stale, doubt>>
  <2>1. CASE Change
    BY <2>1 DEF Change, FactAdded, FactRemoved, Changes, Disturb, PresenceInv, PresenceTypeOK
  <2>2. CASE Boot
    BY <2>2 DEF Boot, Disturb, PresenceInv, PresenceTypeOK
  <2> QED BY <2>1, <2>2
<1>2. budget' \in [{"changes", "boots", "failures"} -> Nat]
  BY <1>1, SpendType DEF PresenceInv
<1>3. /\ events' \in Seq(Changes \cup {FullyBooted})
      /\ events' # <<>>
      /\ events # <<>> => Head(events') = Head(events)
  BY <1>1, PublishType DEF PresenceInv
<1> QED
  BY <1>1, <1>2, <1>3
  DEF PresenceInv, PresenceTypeOK, OwnersPresent, FlagsInPhase, Closed, initVars

\* The handler, event by event.
LEMMA ConsumeKeeps == PresenceInv /\ Consume => PresenceInv'
<1> SUFFICES ASSUME PresenceInv, Consume PROVE PresenceInv'
  OBVIOUS
<1> USE DEF PresenceInv, initVars, history
<1>1. CASE CheckInProgress
  <2>1. Hand \in Changes
    BY <1>1 DEF CheckInProgress, Hand, PresenceTypeOK
  <2> QED BY <1>1, <2>1
    DEF CheckInProgress, Disturb, Hand, PresenceTypeOK, OwnersPresent, Closed, FlagsInPhase
<1>2. CASE Delay
  BY <1>2 DEF Delay, PresenceTypeOK, OwnersPresent, Closed, FlagsInPhase
<1>3. CASE Drop
  <2>1. events # <<>> /\ Hand.fact \in Facts
    BY <1>3 DEF Drop, Hand, PresenceTypeOK, Changes
  <2>2. events' \in Seq(Changes \cup {FullyBooted}) /\ handler' = "idle"
    BY <1>3, <2>1, TakeType DEF Drop
  <2> QED BY <1>3, <2>1, <2>2
    DEF Drop, PresenceTypeOK, OwnersPresent, Closed, FlagsInPhase
<1>4. CASE AppendDelayed
  <2>1. events # <<>> /\ Hand \in Changes /\ Hand.fact \in Facts
    BY <1>4 DEF AppendDelayed, Hand, PresenceTypeOK, Changes
  <2>2. events' \in Seq(Changes \cup {FullyBooted}) /\ handler' = "idle"
    BY <1>4, <2>1, TakeType DEF AppendDelayed
  <2>3. delayed' \in Seq(Changes) /\ Len(delayed') = Len(delayed) + 1 /\ Len(delayed) \in Nat
    BY <1>4, <2>1 DEF AppendDelayed, PresenceTypeOK
  <2> QED BY <1>4, <2>1, <2>2, <2>3
    DEF AppendDelayed, PresenceTypeOK, OwnersPresent, Closed, FlagsInPhase
<1>5. CASE Apply
  <2>1. events # <<>> /\ Hand \in Changes
    BY <1>5 DEF Apply, Hand, PresenceTypeOK
  <2>2. events' \in Seq(Changes \cup {FullyBooted}) /\ handler' = "idle"
    BY <1>5, <2>1, TakeType DEF Apply
  <2>3. rows' \in SUBSET Facts /\ Closed(rows')
    BY <1>5, <2>1, HandledCloses DEF Apply, PresenceTypeOK, OwnersPresent
  <2>4. doubt' \subseteq Facts
    BY <1>5, <2>1, MisledType DEF Apply, PresenceTypeOK
  <2> QED BY <1>5, <2>2, <2>3, <2>4
    DEF Apply, PresenceTypeOK, OwnersPresent, Closed, FlagsInPhase
<1>6. CASE RestartIgnored
  <2>1. events' \in Seq(Changes \cup {FullyBooted}) /\ handler' = "idle"
    BY <1>6, TakeType DEF RestartIgnored
  <2> QED BY <1>6, <2>1
    DEF RestartIgnored, OfAsterisk, Rows, PresenceTypeOK, OwnersPresent, Closed, FlagsInPhase
<1>7. CASE Restart
  <2>1. events' \in Seq(Changes \cup {FullyBooted}) /\ handler' = "idle"
    BY <1>7, TakeType DEF Restart
  <2> QED BY <1>7, <2>1
    DEF Restart, Phases, Running, PresenceTypeOK, OwnersPresent, Closed, FlagsInPhase
<1> QED BY <1>1, <1>2, <1>3, <1>4, <1>5, <1>6, <1>7 DEF Consume

\* The initialization, step by step.
LEMMA InitiateKeeps == PresenceInv /\ (Initiate \/ InitFails \/ InitTimesOut) => PresenceInv'
<1> SUFFICES ASSUME PresenceInv, Initiate \/ InitFails \/ InitTimesOut PROVE PresenceInv'
  OBVIOUS
<1> USE DEF PresenceInv, busVars, history, Phases, Running
<1>1. CASE ResetMilestones
  <2>1. stale' \in 0 .. Len(delayed') /\ marks' \subseteq Resources /\ doubt' \subseteq Facts
    BY <1>1 DEF ResetMilestones, PresenceTypeOK
  <2>2. /\ phase' = "set" /\ ~initialized
        /\ UNCHANGED <<truth, rows, step, snapshot, inProgress, initialized, timeouts, busVars, budget, calm>>
    BY <1>1 DEF ResetMilestones, FlagsInPhase
  <2> QED BY <2>1, <2>2 DEF PresenceTypeOK, OwnersPresent, Closed, FlagsInPhase
<1>2. CASE SetInProgress
  BY <1>2, Orders DEF SetInProgress, PresenceTypeOK, OwnersPresent, Closed, FlagsInPhase
<1>3. CASE Fetch
  <2>1. snapshot' \subseteq Facts
    BY <1>3 DEF Fetch, PresenceTypeOK
  <2> QED BY <1>3, <2>1 DEF Fetch, PresenceTypeOK, OwnersPresent, Closed, FlagsInPhase
<1>4. CASE Mark
  BY <1>4, Orders DEF Mark, PresenceTypeOK, OwnersPresent, Closed, FlagsInPhase
<1>5. CASE ApplyTable
  <2>1. rows' \in SUBSET Facts /\ Closed(rows')
    BY <1>5, TableCloses DEF ApplyTable, PresenceTypeOK, OwnersPresent
  <2>2. doubt' \subseteq Facts
    BY <1>5 DEF ApplyTable, Wanted, Rows, PresenceTypeOK
  <2>3. /\ phase' \in {"apply", "replay"} /\ step' \in Nat
        /\ phase' = "apply" => step' \in DOMAIN ApplyOrder
        /\ phase' = "replay" => step' <= Len(delayed)
    <3>1. step \in 1 .. 8 /\ Len(delayed) \in Nat
      BY <1>5, Orders DEF ApplyTable, PresenceTypeOK
    <3> QED BY <1>5, <3>1, Orders DEF ApplyTable
  <2>4. UNCHANGED <<truth, snapshot, marks, inProgress, initialized, timeouts, busVars, budget, stale, calm>>
        /\ ~initialized
    BY <1>5 DEF ApplyTable, FlagsInPhase
  <2>5. PresenceTypeOK'
    BY <2>1, <2>2, <2>3, <2>4 DEF PresenceTypeOK
  <2> QED BY <2>1, <2>3, <2>4, <2>5 DEF OwnersPresent, FlagsInPhase
<1>6. CASE Replay
  <2>1. delayed[step + 1] \in Changes /\ step + 1 <= Len(delayed)
    BY <1>6 DEF Replay, PresenceTypeOK
  <2>2. rows' \in SUBSET Facts /\ Closed(rows')
    BY <1>6, <2>1, HandledCloses DEF Replay, PresenceTypeOK, OwnersPresent
  <2>3. Misled(delayed[step + 1], rows) \subseteq Facts
    BY <2>1, MisledType DEF PresenceTypeOK
  <2>4. delayed[step + 1].fact \in Facts
    BY <2>1 DEF Changes
  <2>5. Supplied(delayed[step + 1].fact) \subseteq Facts
    BY <2>4, OwnersOrder DEF Supplied
  <2>6. doubt' \subseteq Facts
    BY <1>6, <2>3, <2>4, <2>5 DEF Replay, PresenceTypeOK
  <2> QED BY <1>6, <2>1, <2>2, <2>6
    DEF Replay, PresenceTypeOK, OwnersPresent, Closed, FlagsInPhase
<1>7. CASE ReplayEnds
  BY <1>7 DEF ReplayEnds, PresenceTypeOK, OwnersPresent, Closed, FlagsInPhase
<1>8. CASE ClearInProgress
  BY <1>8 DEF ClearInProgress, PresenceTypeOK, OwnersPresent, Closed, FlagsInPhase
<1>9. CASE SetInitialized
  BY <1>9 DEF SetInitialized, PresenceTypeOK, OwnersPresent, Closed, FlagsInPhase
<1>10. CASE ThreadEnds
  BY <1>10 DEF ThreadEnds, PresenceTypeOK, OwnersPresent, Closed, FlagsInPhase
<1>11. CASE Retry
  BY <1>11 DEF Retry, PresenceTypeOK, OwnersPresent, Closed, FlagsInPhase
<1>12. CASE InitFails
  <2>1. budget' \in [{"changes", "boots", "failures"} -> Nat]
    BY <1>12, SpendType DEF InitFails
  <2> QED BY <1>12, <2>1
    DEF InitFails, CanFail, PresenceTypeOK, OwnersPresent, Closed, FlagsInPhase
<1>13. CASE InitTimesOut
  <2>1. budget' \in [{"changes", "boots", "failures"} -> Nat]
    BY <1>13, SpendType DEF InitTimesOut
  <2>2. phase' \in {"wait", "stopped"} /\ timeouts' \in 0 .. TimeoutRetries
    BY <1>13, PresenceAssumption DEF InitTimesOut, PresenceTypeOK
  <2>3. /\ UNCHANGED <<truth, rows, step, marks, inProgress, initialized, busVars, stale, doubt>>
        /\ calm' = FALSE /\ snapshot' = {} /\ ~initialized
    BY <1>13 DEF InitTimesOut, FlagsInPhase
  <2> QED BY <2>1, <2>2, <2>3 DEF PresenceTypeOK, OwnersPresent, Closed, FlagsInPhase
<1> QED
  BY <1>1, <1>2, <1>3, <1>4, <1>5, <1>6, <1>7, <1>8, <1>9, <1>10, <1>11, <1>12, <1>13
  DEF Initiate

LEMMA PresenceInvStep == PresenceInv /\ [Next]_vars => PresenceInv'
<1> SUFFICES ASSUME PresenceInv, [Next]_vars PROVE PresenceInv'
  OBVIOUS
<1>1. CASE Next
  BY <1>1, ServersKeep, ConsumeKeeps, InitiateKeeps DEF Next
<1>2. CASE UNCHANGED vars
  BY <1>2 DEF vars, initVars, busVars, history, PresenceInv, PresenceTypeOK, OwnersPresent,
     Closed, FlagsInPhase
<1> QED BY <1>1, <1>2

-----------------------------------------------------------------------------
\* The variables of the two threads keep their types: positions within the
\* listings and tables, a handler only with an event of the servers in hand.
THEOREM PresenceTypeCorrect == Spec => []PresenceTypeOK
<1>1. PresenceInv => PresenceTypeOK BY DEF PresenceInv
<1> QED BY <1>1, PresenceInvInit, PresenceInvStep, PTL DEF Spec

\* Neither the handlers nor the initialization insert a row without its owners
\* or leave one behind, in whatever order events and listings arrive.
THEOREM RowsHaveOwners == Spec => []OwnersPresent
<1>1. PresenceInv => OwnersPresent BY DEF PresenceInv
<1> QED BY <1>1, PresenceInvInit, PresenceInvStep, PTL DEF Spec

\* Presences are served only while no initialization rewrites the tables.
THEOREM ServedOnlyWhenReady == Spec => []ServedWhenReady
<1>1. PresenceInv => ServedWhenReady
  BY DEF PresenceInv, FlagsInPhase, ServedWhenReady
<1> QED BY <1>1, PresenceInvInit, PresenceInvStep, PTL DEF Spec

-----------------------------------------------------------------------------
(* Exactness: with the listings complete and right, the tables become right  *)
(* one by one in ApplyOrder, because the owners of a fact are in tables that *)
(* come before its own; afterwards the events lead from the rows to what the *)
(* servers hold.                                                             *)

Fetched(n) == {FetchOrder[m] : m \in 1 .. n - 1}
Applied(n) == {ApplyOrder[m] : m \in 1 .. n - 1}
SnapshotRight(R) == \A i \in Facts : ResourceOf(i) \in R => (i \in snapshot <=> i \in truth)
RowsRight(T) == \A i \in Facts : Table[i] \in T => (i \in rows <=> i \in truth)

\* The states of the tables while the events in the queue are applied.
Leads(h) ==
    /\ h[0] = rows
    /\ h[Len(events)] = truth
    /\ \A n \in 1 .. Len(events) : h[n] = Handled(events[n], h[n - 1])

Calm == calm /\ delayed = <<>>

CalmInv ==
    /\ Closed(truth)
    /\ calm => handler \in {"idle", "apply"}
    /\ calm /\ Started => events = <<>> /\ handler = "idle"
    /\ Calm /\ phase = "fetch" => SnapshotRight(Fetched(step))
    /\ Calm /\ phase = "mark" => SnapshotRight(Fetched(step + 1))
    /\ Calm /\ phase = "apply" => SnapshotRight(Resources) /\ RowsRight(Applied(step))
    /\ Calm /\ phase \in {"replay", "finish", "publish", "done"} => rows = truth
    /\ Calm /\ phase = "off" /\ (\A n \in DOMAIN events : events[n] \in Changes)
         => \E h \in [0 .. Len(events) -> SUBSET Facts] : Leads(h)

\* Each listing and each table adds one resource or table; those a table hangs
\* on come before it.
LEMMA OrderSteps ==
    /\ Fetched(1) = {} /\ Fetched(7) = Resources
    /\ Applied(1) = {} /\ Applied(9) = Tables
    /\ \A n \in 1 .. 6 : Fetched(n + 1) = Fetched(n) \cup {FetchOrder[n]}
    /\ \A n \in 1 .. 8 : Applied(n + 1) = Applied(n) \cup {ApplyOrder[n]}
<1>1. Fetched(1) = {} /\ Applied(1) = {}
  BY DEF Fetched, Applied
<1>2. Fetched(7) = Resources /\ Applied(9) = Tables
  BY Orders DEF Fetched, Applied, Resources, Tables
<1>3. \A n \in 1 .. 6 : Fetched(n + 1) = Fetched(n) \cup {FetchOrder[n]}
  <2> SUFFICES ASSUME NEW n \in 1 .. 6
               PROVE  Fetched(n + 1) = Fetched(n) \cup {FetchOrder[n]}
    OBVIOUS
  <2>1. 1 .. (n + 1) - 1 = (1 .. n - 1) \cup {n} OBVIOUS
  <2> QED BY <2>1 DEF Fetched
<1>4. \A n \in 1 .. 8 : Applied(n + 1) = Applied(n) \cup {ApplyOrder[n]}
  <2> SUFFICES ASSUME NEW n \in 1 .. 8
               PROVE  Applied(n + 1) = Applied(n) \cup {ApplyOrder[n]}
    OBVIOUS
  <2>1. 1 .. (n + 1) - 1 = (1 .. n - 1) \cup {n} OBVIOUS
  <2> QED BY <2>1 DEF Applied
<1> QED BY <1>1, <1>2, <1>3, <1>4

LEMMA OwnersFirst == \A n \in 1 .. 8 : ForeignKeys[ApplyOrder[n]] \subseteq Applied(n)
<1> DEFINE A(n) == ApplyOrder[n]
<1>1. /\ A(1) = "endpoint" /\ A(2) = "tenant" /\ A(3) = "user" /\ A(4) = "line"
      /\ A(5) = "dnd" /\ A(6) = "session" /\ A(7) = "refresh_token" /\ A(8) = "channel"
  BY DEF ApplyOrder
<1>2. \A n \in 1 .. 8 : A(n) \in Tables
  BY Orders DEF Tables
<1>3. \A n \in 1 .. 8 : \A m \in 1 .. n - 1 : A(m) \in Applied(n)
  BY DEF Applied
<1>4. \A n \in 1 .. 8 : /\ n > 2 => "tenant" \in Applied(n)
                        /\ n > 3 => "user" \in Applied(n)
                        /\ n > 4 => "line" \in Applied(n)
  <2> SUFFICES ASSUME NEW n \in 1 .. 8
               PROVE  /\ n > 2 => A(2) \in Applied(n)
                      /\ n > 3 => A(3) \in Applied(n)
                      /\ n > 4 => A(4) \in Applied(n)
    BY <1>1
  <2> HIDE DEF A
  <2> QED BY <1>3
<1>5. /\ ForeignKeys["endpoint"] = {} /\ ForeignKeys["tenant"] = {}
      /\ ForeignKeys["user"] = {"tenant"}
      /\ \A t \in {"line", "dnd", "session", "refresh_token"} : ForeignKeys[t] = {"tenant", "user"}
      /\ ForeignKeys["channel"] = {"tenant", "user", "line"}
  BY DEF ForeignKeys, Tables, ApplyOrder
<1> SUFFICES ASSUME NEW n \in 1 .. 8 PROVE ForeignKeys[A(n)] \subseteq Applied(n)
  OBVIOUS
<1> HIDE DEF A
<1>6. n = 1 \/ n = 2 \/ n = 3 \/ n = 4 \/ n = 5 \/ n = 6 \/ n = 7 \/ n = 8
  OBVIOUS
<1> QED BY <1>1, <1>4, <1>5, <1>6

LEMMA Resourced == \A i \in Facts : ResourceOf(i) \in Resources
<1>1. Tables = {"endpoint", "tenant", "user", "line", "dnd", "session", "refresh_token", "channel"}
  BY Orders DEF Tables, ApplyOrder
<1>2. /\ "tenant" \in Resources /\ "user" \in Resources /\ "session" \in Resources
      /\ "refresh_token" \in Resources /\ "endpoint" \in Resources /\ "channel" \in Resources
  BY Orders DEF FetchOrder
<1>3. \A i \in Facts : Table[i] \in Tables
  BY PresenceAssumption
<1> QED BY <1>1, <1>2, <1>3 DEF ResourceOf

\* Applying the next table to right earlier ones makes it right and leaves them so.
LEMMA TableExact ==
    ASSUME truth \subseteq Facts, snapshot \subseteq Facts, rows \subseteq Facts,
           Closed(truth), SnapshotRight(Resources),
           NEW n \in 1 .. 8, RowsRight(Applied(n))
    PROVE  \A i \in Facts : Table[i] \in Applied(n + 1) =>
             (i \in Kept(ApplyOrder[n]) \cup Valid(ApplyOrder[n]) <=> i \in truth)
<1> DEFINE t == ApplyOrder[n]
<1>1. snapshot = truth
  BY Resourced DEF SnapshotRight
<1>2. \A i \in Expired(t) : i \notin truth
  <2>1. \A i \in Expired(t) : \E g \in Facts \ truth : i = g \/ g \in Owners[i]
    BY <1>1 DEF Expired, Dependents, Rows
  <2> QED BY <2>1 DEF Closed
<1>3. \A w \in Wanted(t) : w \in truth /\ Supplied(w) \subseteq truth
  BY <1>1 DEF Wanted, Closed, Supplied
<1>4. \A i \in Kept(t) : (i \in rows /\ i \notin Expired(t)) \/ i \in truth
  BY <1>3 DEF Kept
<1> SUFFICES ASSUME NEW i \in Facts, Table[i] \in Applied(n + 1)
             PROVE  i \in Kept(t) \cup Valid(t) <=> i \in truth
  OBVIOUS
<1>5. Table[i] = t \/ Table[i] \in Applied(n)
  BY OrderSteps
<1>6. CASE Table[i] = t
  <2>1. CASE i \in truth
    <3>1. \A j \in Owners[i] : j \in Facts /\ j \in truth /\ Table[j] \in Applied(n)
      BY <1>6, <2>1, OwnersFirst, OwnersOrder, PresenceAssumption DEF Closed
    <3>2. Owners[i] \subseteq Kept(t)
      BY <3>1, <1>2 DEF RowsRight, Kept
    <3> QED BY <1>1, <1>6, <2>1, <3>2 DEF Valid, Wanted, Rows
  <2>2. CASE i \notin truth
    <3>1. i \in Expired(t)
      BY <1>1, <1>6, <2>2 DEF Expired, Rows
    <3> QED BY <2>2, <3>1, <1>3, <1>4 DEF Valid
  <2> QED BY <2>1, <2>2
<1>7. CASE Table[i] \in Applied(n)
  <2>1. i \in rows <=> i \in truth
    BY <1>7 DEF RowsRight
  <2> QED BY <2>1, <1>2, <1>3, <1>4 DEF Kept, Valid
<1> QED BY <1>5, <1>6, <1>7

\* What a server publishes is what it does to the facts.
LEMMA ChangeIsHandled ==
    ASSUME truth \subseteq Facts, Closed(truth), NEW i \in Facts
    PROVE  /\ FactAdded(i) => /\ Closed(truth') /\ truth' \subseteq Facts
                              /\ truth' = Handled([kind |-> "added", fact |-> i], truth)
           /\ FactRemoved(i) => /\ Closed(truth') /\ truth' \subseteq Facts
                                /\ truth' = Handled([kind |-> "removed", fact |-> i], truth)
<1>1. ASSUME FactAdded(i)
      PROVE  Closed(truth') /\ truth' \subseteq Facts
             /\ truth' = Handled([kind |-> "added", fact |-> i], truth)
  <2>1. Owners[i] \subseteq truth /\ truth' = truth \cup {i}
    BY <1>1 DEF FactAdded
  <2>2. Supplied(i) \subseteq truth
    BY <2>1 DEF Supplied
  <2> QED BY <2>1, <2>2 DEF Handled, Created, Closed
<1>2. ASSUME FactRemoved(i)
      PROVE  Closed(truth') /\ truth' \subseteq Facts
             /\ truth' = Handled([kind |-> "removed", fact |-> i], truth)
  <2>1. Dependents(i) \cap truth = {} /\ truth' = truth \ {i}
    BY <1>2 DEF FactRemoved
  <2> QED BY <2>1 DEF Handled, Deleted, Closed, Dependents
<1> QED BY <1>1, <1>2

\* One more event at the end of the queue leads one state further.
LEMMA LeadsPublished ==
    ASSUME PresenceTypeOK, NEW e \in Changes, Publish(e), UNCHANGED rows,
           truth' \subseteq Facts, truth' = Handled(e, truth),
           NEW h \in [0 .. Len(events) -> SUBSET Facts], Leads(h)
    PROVE  \E g \in [0 .. Len(events') -> SUBSET Facts] : Leads(g)'
<1> DEFINE k == Len(events)
           g == [n \in 0 .. k + 1 |-> IF n <= k THEN h[n] ELSE truth']
<1>1. /\ k \in Nat /\ Len(events') = k + 1 /\ events'[k + 1] = e
      /\ \A n \in 1 .. k : events'[n] = events[n]
  BY DEF PresenceTypeOK, Publish
<1>2. g \in [0 .. k + 1 -> SUBSET Facts] /\ g[0] = rows' /\ g[k + 1] = truth'
  BY <1>1 DEF Leads
<1>3. ASSUME NEW n \in 1 .. k + 1 PROVE g[n] = Handled(events'[n], g[n - 1])
  <2>1. CASE n \in 1 .. k
    <3>1. g[n] = h[n] /\ g[n - 1] = h[n - 1] BY <1>1, <2>1
    <3> QED BY <1>1, <2>1, <3>1 DEF Leads
  <2>2. CASE n = k + 1
    <3>1. g[n] = truth' /\ g[n - 1] = truth BY <1>1, <2>2 DEF Leads
    <3> QED BY <1>1, <2>2, <3>1
  <2> QED BY <1>1, <2>1, <2>2
<1> HIDE DEF g
<1>4. \E f \in [0 .. Len(events') -> SUBSET Facts] :
        /\ f[0] = rows' /\ f[Len(events')] = truth'
        /\ \A n \in 1 .. Len(events') : f[n] = Handled(events'[n], f[n - 1])
  BY <1>1, <1>2, <1>3
<1> QED BY <1>4 DEF Leads

\* Applying the first event leaves the rest of the way.
LEMMA LeadsTaken ==
    ASSUME PresenceTypeOK, events # <<>>, events' = Tail(events),
           UNCHANGED truth, rows' = Handled(Head(events), rows),
           NEW h \in [0 .. Len(events) -> SUBSET Facts], Leads(h)
    PROVE  \E g \in [0 .. Len(events') -> SUBSET Facts] : Leads(g)'
<1> DEFINE k == Len(events)
           g == [n \in 0 .. k - 1 |-> h[n + 1]]
<1>1. /\ k \in Nat \ {0} /\ Len(events') = k - 1 /\ Head(events) = events[1]
      /\ \A n \in 1 .. k - 1 : events'[n] = events[n + 1]
  BY DEF PresenceTypeOK
<1>2. h[1] = Handled(events[1], h[0]) /\ h[0] = rows /\ h[k] = truth
  BY <1>1 DEF Leads
<1>3. g \in [0 .. k - 1 -> SUBSET Facts] /\ g[0] = rows' /\ g[k - 1] = truth'
  BY <1>1, <1>2
<1>4. ASSUME NEW n \in 1 .. k - 1 PROVE g[n] = Handled(events'[n], g[n - 1])
  <2>1. g[n] = h[n + 1] /\ g[n - 1] = h[n] BY <1>1
  <2>2. h[n + 1] = Handled(events[n + 1], h[n]) BY <1>1 DEF Leads
  <2> QED BY <1>1, <2>1, <2>2
<1> HIDE DEF g
<1>5. \E f \in [0 .. Len(events') -> SUBSET Facts] :
        /\ f[0] = rows' /\ f[Len(events')] = truth'
        /\ \A n \in 1 .. Len(events') : f[n] = Handled(events'[n], f[n - 1])
  BY <1>1, <1>3, <1>4
<1> QED BY <1>5 DEF Leads

LEMMA CalmInvInit == Init => CalmInv
BY DEF Init, CalmInv, Started

LEMMA CalmInvServers == PresenceInv /\ CalmInv /\ (Change \/ Boot) => CalmInv'
<1> SUFFICES ASSUME PresenceInv, CalmInv, Change \/ Boot PROVE CalmInv'
  OBVIOUS
<1> USE DEF PresenceInv, initVars
<1>1. CASE Change
  <2>1. PICK i \in Facts : FactAdded(i) \/ FactRemoved(i)
    BY <1>1 DEF Change
  <2>2. PICK e \in Changes : /\ Publish(e) /\ truth' = Handled(e, truth)
                             /\ Closed(truth') /\ truth' \subseteq Facts
    <3>1. CASE FactAdded(i)
      <4>1. [kind |-> "added", fact |-> i] \in Changes BY DEF Changes
      <4> QED BY <3>1, <4>1, ChangeIsHandled DEF FactAdded, PresenceTypeOK, CalmInv
    <3>2. CASE FactRemoved(i)
      <4>1. [kind |-> "removed", fact |-> i] \in Changes BY DEF Changes
      <4> QED BY <3>2, <4>1, ChangeIsHandled DEF FactRemoved, PresenceTypeOK, CalmInv
    <3> QED BY <2>1, <3>1, <3>2
  <2>3. CASE ~(calm /\ ~Started)
    BY <1>1, <2>2, <2>3 DEF Change, Disturb, CalmInv, Calm, Closed
  <2>4. CASE calm /\ ~Started
    <3>1. /\ phase = "off" /\ phase' = "off" /\ Calm' = Calm
          /\ handler' = handler /\ UNCHANGED rows
      BY <1>1, <2>4 DEF Change, Disturb, Started, Calm
    <3>2. ASSUME Calm, \A n \in DOMAIN events' : events'[n] \in Changes
          PROVE  \E g \in [0 .. Len(events') -> SUBSET Facts] : Leads(g)'
      <4>1. \A n \in DOMAIN events : events[n] \in Changes
        BY <2>2, <3>2 DEF Publish, PresenceTypeOK
      <4>2. PICK h \in [0 .. Len(events) -> SUBSET Facts] : Leads(h)
        BY <3>1, <3>2, <4>1 DEF CalmInv
      <4> QED BY <2>2, <3>1, <4>2, LeadsPublished
    <3> QED BY <2>2, <2>4, <3>1, <3>2 DEF CalmInv, Started
  <2> QED BY <2>3, <2>4
<1>2. CASE Boot
  <2>1. Closed(truth')
    <3>1. \A t \in Tables : "endpoint" \notin ForeignKeys[t] /\ "channel" \notin ForeignKeys[t]
      BY DEF ForeignKeys, Tables, ApplyOrder
    <3>2. \A i \in truth : \A j \in Owners[i] : j \in truth /\ j \notin OfAsterisk
      BY <3>1, PresenceAssumption DEF CalmInv, Closed, OfAsterisk, Rows, PresenceTypeOK
    <3> QED BY <1>2, <3>2 DEF Boot, Closed
  <2>2. CASE ~(calm /\ ~Started)
    BY <1>2, <2>1, <2>2 DEF Boot, Disturb, CalmInv, Calm
  <2>3. CASE calm /\ ~Started
    <3>1. phase' = "off" /\ handler' = handler
      BY <1>2, <2>3 DEF Boot, Started
    <3>2. ~\A n \in DOMAIN events' : events'[n] \in Changes
      <4>1. FullyBooted \notin Changes BY DEF FullyBooted, Changes
      <4>2. Len(events) + 1 \in DOMAIN events' /\ events'[Len(events) + 1] = FullyBooted
        BY <1>2 DEF Boot, Publish, PresenceTypeOK
      <4> QED BY <4>1, <4>2
    <3> QED BY <2>1, <2>3, <3>1, <3>2 DEF CalmInv, Started
  <2> QED BY <2>2, <2>3
<1> QED BY <1>1, <1>2

LEMMA CalmInvConsume == PresenceInv /\ CalmInv /\ Consume => CalmInv'
<1> SUFFICES ASSUME PresenceInv, CalmInv, Consume PROVE CalmInv'
  OBVIOUS
<1> USE DEF PresenceInv, initVars, history
<1>1. CASE CheckInProgress
  <2>1. CASE ~(calm /\ ~Started)
    BY <1>1, <2>1 DEF CheckInProgress, Disturb, CalmInv, Calm
  <2>2. CASE calm /\ ~Started
    <3>1. ~inProgress BY <2>2 DEF Started, FlagsInPhase
    <3> QED BY <1>1, <2>2, <3>1 DEF CheckInProgress, Disturb, CalmInv, Calm, Started, Leads
  <2> QED BY <2>1, <2>2
<1>2. CASE Delay \/ Drop \/ AppendDelayed
  <2>1. ~calm BY <1>2 DEF Delay, Drop, AppendDelayed, CalmInv
  <2>2. ~calm' /\ truth' = truth BY <1>2, <2>1 DEF Delay, Drop, AppendDelayed
  <2> QED BY <2>2 DEF CalmInv, Calm
<1>3. CASE Apply
  <2>1. CASE ~calm
    BY <1>3, <2>1 DEF Apply, CalmInv, Calm
  <2>2. CASE calm
    <3>1. /\ events # <<>> /\ Head(events) \in Changes /\ phase = "off" /\ phase' = "off"
      BY <1>3, <2>2 DEF Apply, CalmInv, Started, PresenceTypeOK
    <3>2. /\ events' = Tail(events) /\ rows' = Handled(Head(events), rows)
          /\ handler' = "idle" /\ truth' = truth /\ Calm' = Calm
      BY <1>3 DEF Apply, Take, Hand, Calm
    <3>3. ASSUME Calm, \A n \in DOMAIN events' : events'[n] \in Changes
          PROVE  \E g \in [0 .. Len(events') -> SUBSET Facts] : Leads(g)'
      <4>1. /\ Len(events) \in Nat \ {0} /\ Head(events) = events[1]
            /\ DOMAIN events = 1 .. Len(events)
            /\ DOMAIN Tail(events) = 1 .. Len(events) - 1
            /\ \A n \in 1 .. Len(events) - 1 : Tail(events)[n] = events[n + 1]
        BY <3>1 DEF PresenceTypeOK
      <4>2. \A n \in 2 .. Len(events) : n - 1 \in DOMAIN Tail(events) /\ events[n] = Tail(events)[n - 1]
        BY <4>1
      <4>3. \A n \in DOMAIN events : n = 1 \/ n \in 2 .. Len(events)
        BY <4>1
      <4>4. \A n \in DOMAIN events : events[n] \in Changes
        BY <3>1, <3>2, <3>3, <4>1, <4>2, <4>3
      <4>5. PICK h \in [0 .. Len(events) -> SUBSET Facts] : Leads(h)
        BY <3>1, <3>3, <4>4 DEF CalmInv
      <4> QED BY <3>1, <3>2, <4>5, LeadsTaken
    <3> QED BY <3>1, <3>2, <3>3 DEF CalmInv, Started
  <2> QED BY <2>1, <2>2
<1>4. CASE RestartIgnored
  BY <1>4 DEF RestartIgnored, CalmInv, Calm
<1>5. CASE Restart
  <2>1. handler' = "idle" /\ phase' = "reset" /\ truth' = truth
    BY <1>5 DEF Restart, Take
  <2>2. calm' => events' = <<>>
    <3>1. events' = Tail(events) /\ (calm' => Len(events) = 1)
      BY <1>5 DEF Restart, Take
    <3>2. Tail(events) \in Seq(Changes \cup {FullyBooted}) /\ (Len(events) = 1 => Len(Tail(events)) = 0)
      <4>1. events # <<>> /\ events \in Seq(Changes \cup {FullyBooted})
        BY <1>5 DEF Restart, PresenceTypeOK
      <4> QED BY <4>1, HeadTailProperties
    <3> QED BY <3>1, <3>2, EmptySeq
  <2> QED BY <2>1, <2>2 DEF CalmInv, Started
<1> QED BY <1>1, <1>2, <1>3, <1>4, <1>5 DEF Consume

LEMMA CalmInvInitiate ==
    PresenceInv /\ CalmInv /\ (Initiate \/ InitFails \/ InitTimesOut) => CalmInv'
<1> SUFFICES ASSUME PresenceInv, CalmInv, Initiate \/ InitFails \/ InitTimesOut PROVE CalmInv'
  OBVIOUS
<1> USE DEF PresenceInv, busVars, history
<1>1. CASE ResetMilestones
  BY <1>1 DEF ResetMilestones, CalmInv, Calm, Started
<1>2. CASE SetInProgress
  <2>1. phase' = "fetch" /\ step' = 1 /\ Fetched(1) = {}
    BY <1>2, OrderSteps DEF SetInProgress
  <2> QED BY <1>2, <2>1 DEF SetInProgress, CalmInv, Calm, Started, SnapshotRight
<1>3. CASE Fetch
  <2>1. step \in 1 .. 6 /\ phase' = "mark" /\ step' = step
    BY <1>3, Orders DEF Fetch, PresenceTypeOK
  <2>2. Calm => SnapshotRight(Fetched(step + 1))'
    <3>1. \A i \in Facts : i \in snapshot' <=>
             IF ResourceOf(i) = FetchOrder[step] THEN i \in truth ELSE i \in snapshot
      BY <1>3 DEF Fetch, Listed
    <3>2. Fetched(step + 1) = Fetched(step) \cup {FetchOrder[step]}
      BY <2>1, OrderSteps
    <3>3. Calm => SnapshotRight(Fetched(step)) /\ truth' = truth
      BY <1>3 DEF Fetch, CalmInv
    <3>4. Calm => \A i \in Facts : ResourceOf(i) \in Fetched(step + 1) => (i \in snapshot' <=> i \in truth')
      BY <3>1, <3>2, <3>3 DEF SnapshotRight
    <3> QED BY <2>1, <3>4 DEF SnapshotRight, Fetched
  <2> QED BY <1>3, <2>1, <2>2 DEF Fetch, CalmInv, Calm, Started
<1>4. CASE Mark
  <2>1. step \in 1 .. 6 /\ Len(FetchOrder) = 6
    BY <1>4, Orders DEF Mark, PresenceTypeOK
  <2>2. Calm => SnapshotRight(Fetched(step + 1))
    BY <1>4 DEF Mark, CalmInv
  <2>3. UNCHANGED <<truth, rows, snapshot, busVars, calm>>
    BY <1>4 DEF Mark
  <2>4. CASE step < 6
    <3>1. phase' = "fetch" /\ step' = step + 1
      BY <1>4, <2>1, <2>4 DEF Mark
    <3> QED BY <1>4, <2>2, <2>3, <3>1 DEF Mark, CalmInv, Calm, Started, SnapshotRight, Fetched
  <2>5. CASE step = 6
    <3>1. phase' = "apply" /\ step' = 1
      BY <1>4, <2>1, <2>5 DEF Mark
    <3>2. Fetched(step + 1) = Resources /\ Applied(1) = {}
      BY <2>5, OrderSteps
    <3> QED BY <1>4, <2>2, <2>3, <3>1, <3>2
      DEF Mark, CalmInv, Calm, Started, SnapshotRight, RowsRight
  <2> QED BY <2>1, <2>4, <2>5
<1>5. CASE ApplyTable
  <2>1. step \in 1 .. 8 /\ Len(ApplyOrder) = 8
    BY <1>5, Orders DEF ApplyTable, PresenceTypeOK
  <2>2. UNCHANGED <<truth, snapshot, busVars, calm>>
    BY <1>5 DEF ApplyTable
  <2>3. Calm => SnapshotRight(Resources) /\ RowsRight(Applied(step)) /\ Closed(truth)
    BY <1>5 DEF ApplyTable, CalmInv
  <2>4. rows' = Kept(ApplyOrder[step]) \cup Valid(ApplyOrder[step])
    BY <1>5 DEF ApplyTable
  <2>5. Calm => \A i \in Facts : Table[i] \in Applied(step + 1) => (i \in rows' <=> i \in truth')
    BY <2>1, <2>2, <2>3, <2>4, TableExact DEF PresenceTypeOK
  <2>6. CASE step < 8
    <3>1. phase' = "apply" /\ step' = step + 1
      BY <1>5, <2>1, <2>6 DEF ApplyTable
    <3>2. Calm => RowsRight(Applied(step))'
      BY <2>5, <3>1 DEF RowsRight, Applied
    <3> QED BY <1>5, <2>2, <2>3, <3>1, <3>2
      DEF ApplyTable, CalmInv, Calm, Started, SnapshotRight
  <2>7. CASE step = 8
    <3>1. phase' = "replay"
      BY <1>5, <2>1, <2>7 DEF ApplyTable
    <3>2. Calm => \A i \in Facts : i \in rows' <=> i \in truth'
      BY <2>5, <2>7, OrderSteps, PresenceAssumption
    <3>3. rows' \subseteq Facts /\ truth' \subseteq Facts
      BY <2>2, <2>4, TableCloses DEF PresenceTypeOK, OwnersPresent
    <3>4. Calm => rows' = truth'
      BY <3>2, <3>3
    <3> QED BY <1>5, <2>2, <3>1, <3>4 DEF ApplyTable, CalmInv, Calm, Started
  <2> QED BY <2>1, <2>6, <2>7
<1>6. CASE Replay
  <2>1. delayed # <<>> /\ delayed' = delayed
    BY <1>6 DEF Replay, PresenceTypeOK
  <2> QED BY <1>6, <2>1 DEF Replay, CalmInv, Calm, Started
<1>7. CASE ReplayEnds \/ ClearInProgress \/ SetInitialized
  BY <1>7 DEF ReplayEnds, ClearInProgress, SetInitialized, CalmInv, Calm, Started
<1>8. CASE ThreadEnds
  <2>1. UNCHANGED <<truth, rows, busVars, calm>> /\ phase' = "off"
    BY <1>8 DEF ThreadEnds
  <2>2. Calm => rows = truth /\ events = <<>> /\ handler = "idle"
    BY <1>8 DEF ThreadEnds, CalmInv, Calm, Started
  <2>3. Calm => \E g \in [0 .. Len(events') -> SUBSET Facts] : Leads(g)'
    <3> SUFFICES ASSUME Calm PROVE \E g \in [0 .. Len(events') -> SUBSET Facts] : Leads(g)'
      OBVIOUS
    <3>1. events' = <<>> /\ Len(events') = 0 /\ rows' = truth'
      BY <2>1, <2>2, EmptySeq
    <3>2. \E f \in [0 .. Len(events') -> SUBSET Facts] :
            f[0] = rows' /\ f[Len(events')] = truth'
      <4>1. [n \in 0 .. 0 |-> rows'] \in [0 .. Len(events') -> SUBSET Facts]
        BY <2>1, <3>1 DEF PresenceTypeOK
      <4>2. [n \in 0 .. 0 |-> rows'][0] = rows'
        OBVIOUS
      <4> QED BY <3>1, <4>1, <4>2
    <3> QED BY <3>1, <3>2 DEF Leads
  <2> QED BY <2>1, <2>2, <2>3 DEF CalmInv, Calm, Started
<1>9. CASE Retry
  BY <1>9 DEF Retry, CalmInv, Calm, Started
<1>10. CASE InitFails \/ InitTimesOut
  BY <1>10 DEF InitFails, InitTimesOut, CalmInv, Calm
<1> QED BY <1>1, <1>2, <1>3, <1>4, <1>5, <1>6, <1>7, <1>8, <1>9, <1>10 DEF Initiate

LEMMA CalmInvStep == PresenceInv /\ CalmInv /\ [Next]_vars => CalmInv'
<1>1. PresenceInv /\ CalmInv /\ UNCHANGED vars => CalmInv'
  BY DEF vars, initVars, busVars, history, CalmInv, Calm, Started, Closed,
     SnapshotRight, RowsRight, Leads, Fetched, Applied
<1> QED BY <1>1, CalmInvServers, CalmInvConsume, CalmInvInitiate DEF Next

\* An initialization in peace makes the tables exact, whatever rows it found
\* and whatever tables and owners the facts have; later events keep them so.
THEOREM CalmInitIsExact == Spec => []ExactWhenCalm
<1>1. CalmInv => ExactWhenCalm
  <2> SUFFICES ASSUME CalmInv, AtRest, calm, delayed = <<>> PROVE rows = truth
    BY DEF ExactWhenCalm
  <2>1. Len(events) = 0 /\ \A n \in DOMAIN events : events[n] \in Changes
    BY EmptySeq DEF AtRest
  <2>2. PICK h \in [0 .. Len(events) -> SUBSET Facts] : Leads(h)
    BY <2>1 DEF CalmInv, Calm, AtRest
  <2> QED BY <2>1, <2>2 DEF Leads
<1> QED BY <1>1, PresenceInvInit, PresenceInvStep, CalmInvInit, CalmInvStep, PTL DEF Spec
-----------------------------------------------------------------------------
(* Convergence.  What is known of a fact passes from the servers to the rows *)
(* in one of two ways: by the last event about it, which is in the queue, or *)
(* delayed, and then applied; or, when no event about it is under way, by    *)
(* the answer that is in and then by the table that is applied.  Along both  *)
(* the word is right, unless the fact is in doubt or about to be.            *)

Active == {"set", "fetch", "mark", "apply", "replay"}

\* The facts an event is about: asterisk forgets several at once.
Touches(e, i) == IF e = FullyBooted THEN i \in OfAsterisk ELSE e.fact = i
Says(e) == e.kind = "added"

\* The events after the first n say nothing about the fact.
Untouched(i, n) == \A m \in DOMAIN events : m > n => ~Touches(events[m], i)
\* Nothing about the fact is in the queue, but for what is let through.
Unsaid(i) == Untouched(i, IF handler = "apply" THEN 1 ELSE 0)

\* A delayed event of this attempt that is still to be replayed.
Fresh(n) ==
    /\ phase \in Active
    /\ n \in DOMAIN delayed
    /\ n > stale
    /\ phase = "replay" => n > step
\* No such word on the fact after the first n.
Silent(i, n) == \A m \in DOMAIN delayed : m > n /\ Fresh(m) => ~Touches(delayed[m], i)

\* The exceptions, those that the replay is going to make included.
StaleWord(i) ==
    /\ phase \in Active
    /\ \E n \in 1 .. stale : /\ phase = "replay" => n > step
                             /\ i \in {delayed[n].fact} \cup Supplied(delayed[n].fact)
Spoiled(i) == i \in doubt \/ StaleWord(i)
Sure(i) == Unsaid(i) /\ ~Spoiled(i)

\* The answer with the fact is in; its table was applied in this attempt.
FetchedIn(i) == \/ phase = "fetch" /\ ResourceOf(i) \in Fetched(step)
                \/ phase = "mark" /\ ResourceOf(i) \in Fetched(step + 1)
                \/ phase = "apply"
AppliedIn(i) == \/ phase = "apply" /\ Table[i] \in Applied(step)
                \/ phase \in {"replay", "finish", "publish", "done", "off"}

\* The marks and flags of each phase.  A handler that saw the flag set is done
\* before the next initialization begins; before the flag is set nothing is
\* delayed.
Modes ==
    /\ phase \in {"fetch", "mark", "apply", "replay", "finish"} => inProgress
    /\ handler \in {"tracked", "delay"} => inProgress \/ phase \in {"publish", "done", "off"}
    /\ phase = "set" => marks = {} /\ (~inProgress => stale = Len(delayed))
    /\ phase \in {"fetch", "mark"} => marks = Fetched(step)
    /\ phase \in {"apply", "replay", "finish", "publish", "done", "off"} => marks = Resources

\* What the event says of the fact holds; the creation of a user says that
\* there is its tenant.
Right(e, i) ==
    /\ Touches(e, i) => (Says(e) <=> i \in truth)
    /\ Says(e) /\ i \in Supplied(e.fact) => i \in truth

\* The last event of the queue about a fact tells what the servers hold.
EventsRight == \A n \in DOMAIN events : \A i \in Facts : Untouched(i, n) => Right(events[n], i)

\* So does the last fresh word on a fact about which no event is to come.
DelayedRight ==
    \A n \in DOMAIN delayed : \A i \in Facts :
      Fresh(n) /\ Silent(i, n) /\ Sure(i) => Right(delayed[n], i)

\* With no such word either, so does the answer that is in.
AnswersRight ==
    \A i \in Facts : Silent(i, 0) /\ Sure(i) =>
      /\ FetchedIn(i) => (i \in snapshot <=> i \in truth)
      /\ \A u \in snapshot : FetchedIn(u) /\ i \in Supplied(u) => i \in truth

\* With no event at all under way, so do the rows of an applied table.
TablesRight ==
    \A i \in Facts : AppliedIn(i) /\ Silent(i, 0) /\ Untouched(i, 0) /\ ~Spoiled(i)
      => (i \in rows <=> i \in truth)

FactsInv == Modes /\ EventsRight /\ DelayedRight /\ AnswersRight /\ TablesRight

-----------------------------------------------------------------------------
\* What a step leaves of what is sure and of the delayed events.
SureKept == \A i \in Facts : Sure(i)' => Sure(i) /\ (i \in truth' <=> i \in truth)
FreshKept == delayed' = delayed /\ \A n \in DOMAIN delayed : Fresh(n)' <=> Fresh(n)

\* The event of a change is about one fact.
LEMMA ChangeTouches == \A e \in Changes : \A i : Touches(e, i) <=> e.fact = i
<1>1. FullyBooted \notin Changes BY DEF FullyBooted, Changes
<1> QED BY <1>1 DEF Touches

\* A user is not its tenant.
LEMMA SuppliedFacts == \A i \in Facts : Supplied(i) \subseteq Facts /\ i \notin Supplied(i)
BY OwnersOrder DEF Supplied

\* One more event at the end of the queue.
LEMMA UntouchedPublished ==
    ASSUME PresenceTypeOK, NEW e \in Changes \cup {FullyBooted}, Publish(e)
    PROVE  /\ Len(events) \in Nat /\ DOMAIN events = 1 .. Len(events)
           /\ DOMAIN events' = 1 .. Len(events) + 1 /\ events'[Len(events) + 1] = e
           /\ \A n \in DOMAIN events : events'[n] = events[n]
           /\ \A i \in Facts : \A n \in 0 .. Len(events) :
                Untouched(i, n)' <=> Untouched(i, n) /\ ~Touches(e, i)
<1>1. /\ Len(events) \in Nat /\ DOMAIN events = 1 .. Len(events)
      /\ DOMAIN events' = 1 .. Len(events) + 1 /\ events'[Len(events) + 1] = e
      /\ \A n \in DOMAIN events : events'[n] = events[n]
  BY DEF PresenceTypeOK, Publish
<1> SUFFICES ASSUME NEW i \in Facts, NEW n \in 0 .. Len(events)
             PROVE  Untouched(i, n)' <=> Untouched(i, n) /\ ~Touches(e, i)
  BY <1>1
<1>2. Untouched(i, n)' => Untouched(i, n) /\ ~Touches(e, i)
  BY <1>1 DEF Untouched
<1>3. Untouched(i, n) /\ ~Touches(e, i) => Untouched(i, n)'
  <2> SUFFICES ASSUME Untouched(i, n), ~Touches(e, i), NEW m \in DOMAIN events', m > n
               PROVE  ~Touches(events'[m], i)
    BY DEF Untouched
  <2>1. CASE m \in DOMAIN events BY <1>1, <2>1 DEF Untouched
  <2>2. CASE m = Len(events) + 1 BY <1>1, <2>2
  <2> QED BY <1>1, <2>1, <2>2
<1> QED BY <1>2, <1>3

\* The first event leaves the queue.
LEMMA UntouchedTaken ==
    ASSUME PresenceTypeOK, events # <<>>, events' = Tail(events)
    PROVE  /\ Head(events) = events[1] /\ 1 \in DOMAIN events
           /\ \A n \in DOMAIN events' : n + 1 \in DOMAIN events /\ events'[n] = events[n + 1]
           /\ \A i \in Facts : \A n \in Nat : Untouched(i, n)' <=> Untouched(i, n + 1)
           /\ \A i \in Facts : Untouched(i, 0) <=> Untouched(i, 1) /\ ~Touches(Head(events), i)
<1>1. /\ Len(events) \in Nat \ {0} /\ DOMAIN events = 1 .. Len(events) /\ Head(events) = events[1]
      /\ DOMAIN events' = 1 .. Len(events) - 1
      /\ \A n \in 1 .. Len(events) - 1 : events'[n] = events[n + 1]
  BY DEF PresenceTypeOK
<1>2. ASSUME NEW i \in Facts, NEW n \in Nat PROVE Untouched(i, n)' <=> Untouched(i, n + 1)
  <2>1. Untouched(i, n + 1) => Untouched(i, n)'
    BY <1>1 DEF Untouched
  <2>2. ASSUME Untouched(i, n)', NEW m \in DOMAIN events, m > n + 1 PROVE ~Touches(events[m], i)
    <3>1. m - 1 \in DOMAIN events' /\ m - 1 > n /\ events'[m - 1] = events[m]
      BY <1>1, <2>2
    <3> QED BY <2>2, <3>1 DEF Untouched
  <2> QED BY <2>1, <2>2 DEF Untouched
<1>3. ASSUME NEW i \in Facts PROVE Untouched(i, 0) <=> Untouched(i, 1) /\ ~Touches(Head(events), i)
  <2>1. \A m \in DOMAIN events : m > 0 /\ (m = 1 \/ m > 1) /\ (m > 1 => m > 0)
    BY <1>1
  <2> QED BY <1>1, <2>1 DEF Untouched
<1> QED BY <1>1, <1>2, <1>3

\* A change or a restart puts an event in the queue that says what it does.
LEMMA ServersSay ==
    ASSUME PresenceInv, Closed(truth), Change \/ Boot
    PROVE  /\ UNCHANGED <<rows, initVars, handler, delayed, stale, doubt>>
           /\ \E e \in Changes \cup {FullyBooted} :
                /\ Publish(e)
                /\ \A i \in Facts : /\ Right(e, i)'
                                    /\ ~Touches(e, i) => (i \in truth' <=> i \in truth)
<1>1. CASE Change
  <2>1. PICK i \in Facts : FactAdded(i) \/ FactRemoved(i)
    BY <1>1 DEF Change
  <2>2. CASE FactAdded(i)
    <3> DEFINE e == [kind |-> "added", fact |-> i]
    <3>1. e \in Changes /\ e.fact = i /\ Says(e)
      BY DEF Changes, Says
    <3>2. \A j \in Facts : Touches(e, j) <=> j = i
      BY <3>1, ChangeTouches
    <3>3. Publish(e) /\ truth' = truth \cup {i} /\ Supplied(i) \subseteq truth'
      BY <2>2 DEF FactAdded, Supplied
    <3> HIDE DEF e
    <3>4. \A j \in Facts : Right(e, j)' /\ (~Touches(e, j) => (j \in truth' <=> j \in truth))
      BY <3>1, <3>2, <3>3 DEF Right
    <3> QED BY <1>1, <3>1, <3>3, <3>4 DEF Change
  <2>3. CASE FactRemoved(i)
    <3> DEFINE e == [kind |-> "removed", fact |-> i]
    <3>1. e \in Changes /\ e.fact = i /\ ~Says(e)
      BY DEF Changes, Says
    <3>2. \A j \in Facts : Touches(e, j) <=> j = i
      BY <3>1, ChangeTouches
    <3>3. Publish(e) /\ truth' = truth \ {i}
      BY <2>3 DEF FactRemoved
    <3> HIDE DEF e
    <3>4. \A j \in Facts : Right(e, j)' /\ (~Touches(e, j) => (j \in truth' <=> j \in truth))
      BY <3>1, <3>2, <3>3 DEF Right
    <3> QED BY <1>1, <3>1, <3>3, <3>4 DEF Change
  <2> QED BY <2>1, <2>2, <2>3
<1>2. CASE Boot
  <2>1. ~Says(FullyBooted) /\ \A i \in Facts : Touches(FullyBooted, i) <=> i \in OfAsterisk
    BY DEF Says, FullyBooted, Touches
  <2>2. Publish(FullyBooted) /\ truth' = truth \ OfAsterisk
    BY <1>2 DEF Boot
  <2>3. \A i \in Facts : /\ Right(FullyBooted, i)'
                         /\ ~Touches(FullyBooted, i) => (i \in truth' <=> i \in truth)
    BY <2>1, <2>2 DEF Right
  <2> QED BY <1>2, <2>2, <2>3 DEF Boot
<1> QED BY <1>1, <1>2

-----------------------------------------------------------------------------
(* The flags of the two threads. *)

LEMMA ModesStep == PresenceInv /\ Modes /\ [Next]_vars => Modes'
<1> SUFFICES ASSUME PresenceInv, Modes, [Next]_vars PROVE Modes'
  OBVIOUS
<1> USE DEF PresenceInv, initVars, busVars, history
<1>1. CASE Change \/ Boot \/ UNCHANGED vars
  <2>1. UNCHANGED <<phase, step, marks, inProgress, handler, delayed, stale>>
    BY <1>1 DEF Change, Boot, vars
  <2> QED BY <2>1 DEF Modes, Fetched
<1>2. CASE CheckInProgress \/ Delay \/ Drop \/ Apply \/ RestartIgnored \/ Restart
  <2>1. /\ UNCHANGED <<step, marks, inProgress, delayed, stale>>
        /\ phase' = phase \/ phase' = "reset"
        /\ \/ handler' \in {"idle", "apply"}
           \/ handler' = "tracked" /\ inProgress /\ phase' = phase
           \/ handler' = "delay" /\ handler = "tracked" /\ phase' = phase
    BY <1>2 DEF CheckInProgress, Delay, Drop, Take, Apply, RestartIgnored, Restart
  <2> QED BY <2>1 DEF Modes, Fetched
<1>3. CASE AppendDelayed
  <2>1. /\ UNCHANGED <<phase, step, marks, inProgress, stale>> /\ handler' = "idle"
        /\ phase = "set" => inProgress
    BY <1>3 DEF AppendDelayed, Take, Modes
  <2> QED BY <2>1 DEF Modes, Fetched
<1>4. CASE ResetMilestones
  <2>1. handler' = handler /\ inProgress' = inProgress /\ phase = "reset" /\ phase' = "set"
        /\ marks' = {} /\ stale' = Len(delayed') /\ delayed' = delayed
    BY <1>4 DEF ResetMilestones
  <2> QED BY <2>1 DEF Modes
<1>5. CASE SetInProgress
  BY <1>5, OrderSteps DEF SetInProgress, Modes, Fetched
<1>6. CASE Fetch
  BY <1>6 DEF Fetch, Modes, Fetched
<1>7. CASE Mark
  <2>1. step \in 1 .. 6 /\ Len(FetchOrder) = 6
    BY <1>7, Orders DEF Mark, PresenceTypeOK
  <2>2. marks' = Fetched(step + 1) /\ inProgress' /\ handler' = handler
    BY <1>7, <2>1, OrderSteps DEF Mark, Modes
  <2>3. CASE step < 6
    <3>1. phase' = "fetch" /\ step' = step + 1
      BY <1>7, <2>1, <2>3 DEF Mark
    <3> QED BY <2>2, <3>1 DEF Modes, Fetched
  <2>4. CASE step = 6
    <3>1. phase' = "apply" /\ Fetched(step + 1) = Resources
      BY <1>7, <2>1, <2>4, OrderSteps DEF Mark
    <3> QED BY <2>2, <3>1 DEF Modes
  <2> QED BY <2>1, <2>3, <2>4
<1>8. CASE ApplyTable \/ Replay \/ ReplayEnds
  <2>1. /\ UNCHANGED <<marks, inProgress, handler>>
        /\ phase \in {"apply", "replay"} /\ phase' \in {"apply", "replay", "finish"}
    BY <1>8 DEF ApplyTable, Replay, ReplayEnds
  <2> QED BY <2>1 DEF Modes
<1>9. CASE ClearInProgress \/ SetInitialized \/ ThreadEnds
  <2>1. /\ UNCHANGED <<marks, handler>>
        /\ phase \in {"finish", "publish", "done"} /\ phase' \in {"publish", "done", "off"}
    BY <1>9 DEF ClearInProgress, SetInitialized, ThreadEnds
  <2> QED BY <2>1 DEF Modes
<1>10. CASE Retry \/ InitFails \/ InitTimesOut
  <2>1. /\ UNCHANGED <<inProgress, handler>>
        /\ phase \in {"wait", "fetch", "apply"} /\ phase' \in {"reset", "wait", "stopped"}
    BY <1>10 DEF Retry, InitFails, CanFail, InitTimesOut
  <2> QED BY <2>1 DEF Modes
<1> QED
  BY <1>1, <1>2, <1>3, <1>4, <1>5, <1>6, <1>7, <1>8, <1>9, <1>10 DEF Next, Consume, Initiate

-----------------------------------------------------------------------------
(* The last event of the queue about a fact says what the servers hold. *)

LEMMA EventsStep ==
    PresenceInv /\ Closed(truth) /\ EventsRight /\ [Next]_vars => EventsRight'
<1> SUFFICES ASSUME PresenceInv, Closed(truth), EventsRight, [Next]_vars PROVE EventsRight'
  OBVIOUS
<1>1. CASE Change \/ Boot
  <2>1. PICK e \in Changes \cup {FullyBooted} :
          /\ Publish(e)
          /\ \A i \in Facts : /\ Right(e, i)'
                              /\ ~Touches(e, i) => (i \in truth' <=> i \in truth)
    BY <1>1, ServersSay
  <2>2. /\ Len(events) \in Nat /\ DOMAIN events = 1 .. Len(events)
        /\ DOMAIN events' = 1 .. Len(events) + 1 /\ events'[Len(events) + 1] = e
        /\ \A n \in DOMAIN events : events'[n] = events[n]
        /\ \A i \in Facts : \A n \in 0 .. Len(events) :
             Untouched(i, n)' <=> Untouched(i, n) /\ ~Touches(e, i)
    BY <2>1, UntouchedPublished DEF PresenceInv
  <2> SUFFICES ASSUME NEW n \in DOMAIN events', NEW i \in Facts, Untouched(i, n)'
               PROVE  Right(events[n], i)'
    BY DEF EventsRight
  <2>3. CASE n = Len(events) + 1
    BY <2>1, <2>2, <2>3 DEF Right
  <2>4. CASE n \in 1 .. Len(events)
    <3>1. events'[n] = events[n] /\ Untouched(i, n) /\ (i \in truth' <=> i \in truth)
      BY <2>1, <2>2, <2>4
    <3>2. Right(events[n], i)
      BY <2>2, <2>4, <3>1 DEF EventsRight
    <3> QED BY <3>1, <3>2 DEF Right
  <2> QED BY <2>2, <2>3, <2>4
<1>2. CASE Drop \/ AppendDelayed \/ Apply \/ RestartIgnored \/ Restart
  <2>1. truth' = truth /\ events # <<>> /\ events' = Tail(events)
    BY <1>2 DEF Drop, AppendDelayed, Apply, RestartIgnored, Restart, Take, PresenceInv, PresenceTypeOK
  <2>2. /\ \A n \in DOMAIN events' : n + 1 \in DOMAIN events /\ events'[n] = events[n + 1] /\ n \in Nat
        /\ \A i \in Facts : \A n \in Nat : Untouched(i, n)' <=> Untouched(i, n + 1)
    <3>1. \A n \in DOMAIN events' : n \in Nat
      BY <2>1 DEF PresenceInv, PresenceTypeOK
    <3> QED BY <2>1, <3>1, UntouchedTaken DEF PresenceInv
  <2> QED BY <2>1, <2>2 DEF EventsRight, Right
<1>3. CASE UNCHANGED <<truth, events>>
  BY <1>3 DEF EventsRight, Right, Untouched
<1>4. UNCHANGED <<truth, events>> \/ Change \/ Boot \/ Drop \/ AppendDelayed \/ Apply
      \/ RestartIgnored \/ Restart
  <2> USE DEF initVars, busVars, history
  <2>1. CASE CheckInProgress \/ Delay
    BY <2>1 DEF CheckInProgress, Delay
  <2>2. CASE Initiate \/ InitFails \/ InitTimesOut
    BY <2>2 DEF Initiate, InitFails, InitTimesOut, ResetMilestones, SetInProgress, Fetch, Mark,
       ApplyTable, Replay, ReplayEnds, ClearInProgress, SetInitialized, ThreadEnds, Retry
  <2>3. CASE UNCHANGED vars
    BY <2>3 DEF vars
  <2> QED BY <2>1, <2>2, <2>3 DEF Next, Consume
<1> QED BY <1>1, <1>2, <1>3, <1>4

-----------------------------------------------------------------------------
(* What is sure: what each step leaves of it. *)

\* The events of the servers make nothing sure.
LEMMA ServersQuiet ==
    ASSUME PresenceInv, Closed(truth), Change \/ Boot
    PROVE  /\ SureKept /\ FreshKept
           /\ \A i \in Facts : Untouched(i, 0)' => Untouched(i, 0) /\ (i \in truth' <=> i \in truth)
           /\ \A i \in Facts : Spoiled(i)' <=> Spoiled(i)
<1>1. PICK e \in Changes \cup {FullyBooted} :
        /\ Publish(e)
        /\ \A i \in Facts : ~Touches(e, i) => (i \in truth' <=> i \in truth)
  BY ServersSay
<1>2. UNCHANGED <<phase, step, handler, delayed, stale, doubt>>
  BY ServersSay DEF initVars
<1>3. \A n \in DOMAIN delayed : Fresh(n)' <=> Fresh(n)
  BY <1>2 DEF Fresh
<1>4. \A i \in Facts : Spoiled(i)' <=> Spoiled(i)
  BY <1>2 DEF Spoiled, StaleWord
<1>5. /\ Len(events) \in Nat
      /\ \A i \in Facts : \A n \in 0 .. Len(events) :
           Untouched(i, n)' <=> Untouched(i, n) /\ ~Touches(e, i)
  BY <1>1, UntouchedPublished DEF PresenceInv
<1>6. \A i \in Facts : Untouched(i, 0)' => Untouched(i, 0) /\ (i \in truth' <=> i \in truth)
  BY <1>1, <1>5
<1>7. ASSUME NEW i \in Facts, Unsaid(i)' PROVE Unsaid(i) /\ (i \in truth' <=> i \in truth)
  <2>1. handler = "apply" => 1 \in 0 .. Len(events)
    BY <1>5 DEF PresenceInv, PresenceTypeOK
  <2> QED BY <1>1, <1>2, <1>5, <1>7, <2>1 DEF Unsaid
<1> QED BY <1>2, <1>3, <1>4, <1>6, <1>7 DEF SureKept, FreshKept, Sure

\* A handler that gives up the event in hand makes sure what only that event
\* was about; what is applied has been let through before.
LEMMA TakenQuiet ==
    ASSUME PresenceInv, events # <<>>, Take, UNCHANGED truth,
           doubt \subseteq doubt', UNCHANGED <<phase, step, stale>>,
           \A n \in 1 .. stale : delayed'[n] = delayed[n]
    PROVE  /\ \A i \in Facts : Untouched(i, 0)' <=> Untouched(i, 1)
           /\ \A i \in Facts : Untouched(i, 0) <=> Untouched(i, 1) /\ ~Touches(Hand, i)
           /\ \A i \in Facts : Sure(i)' => Untouched(i, 1) /\ ~Spoiled(i)
           /\ \A i \in Facts : Spoiled(i) => Spoiled(i)'
           /\ \A i \in Facts : Sure(i)' /\ ~Touches(Hand, i) => Sure(i)
           /\ handler = "apply" => SureKept
<1>1. events' = Tail(events) /\ handler' = "idle"
  BY DEF Take
<1>2. \A i \in Facts : Untouched(i, 0) <=> Untouched(i, 1) /\ ~Touches(Hand, i)
  BY <1>1, UntouchedTaken DEF PresenceInv, Hand
<1>3. \A i \in Facts : Untouched(i, 0)' <=> Untouched(i, 1)
  <2>1. \A i \in Facts : Untouched(i, 0)' <=> Untouched(i, 0 + 1)
    BY <1>1, UntouchedTaken DEF PresenceInv
  <2> QED BY <2>1
<1>4. \A i \in Facts : StaleWord(i)' <=> StaleWord(i)
  BY DEF StaleWord
<1>5. \A i \in Facts : Spoiled(i) => Spoiled(i)'
  BY <1>4 DEF Spoiled
<1>6. \A i \in Facts : Sure(i)' => Untouched(i, 1) /\ ~Spoiled(i)
  BY <1>1, <1>3, <1>5 DEF Sure, Unsaid
<1>7. \A i \in Facts : Sure(i)' /\ ~Touches(Hand, i) => Sure(i)
  BY <1>2, <1>6 DEF Sure, Unsaid
<1>8. handler = "apply" => SureKept
  BY <1>6 DEF SureKept, Sure, Unsaid
<1> QED BY <1>2, <1>3, <1>5, <1>6, <1>7, <1>8

\* The types of what is delayed.
LEMMA DelayedFacts ==
    ASSUME PresenceInv
    PROVE  /\ Len(delayed) \in Nat /\ DOMAIN delayed = 1 .. Len(delayed) /\ stale \in 0 .. Len(delayed)
           /\ \A n \in DOMAIN delayed : /\ delayed[n] \in Changes /\ delayed[n].fact \in Facts
                                        /\ Supplied(delayed[n].fact) \subseteq Facts
<1>1. /\ Len(delayed) \in Nat /\ DOMAIN delayed = 1 .. Len(delayed) /\ stale \in 0 .. Len(delayed)
      /\ \A n \in DOMAIN delayed : delayed[n] \in Changes
  BY DEF PresenceInv, PresenceTypeOK
<1>2. \A e \in Changes : e.fact \in Facts
  BY DEF Changes
<1> QED BY <1>1, <1>2, SuppliedFacts

\* Words and answers stay right while nothing becomes sure.
LEMMA DelayedKept ==
    ASSUME PresenceInv, DelayedRight, SureKept, FreshKept
    PROVE  DelayedRight'
<1>1. delayed' = delayed /\ \A n \in DOMAIN delayed : Fresh(n)' <=> Fresh(n)
  BY DEF FreshKept
<1>2. \A i, n : Silent(i, n)' <=> Silent(i, n)
  BY <1>1 DEF Silent
<1> QED BY <1>1, <1>2 DEF DelayedRight, SureKept, Right

LEMMA AnswersKept ==
    ASSUME PresenceInv, AnswersRight, SureKept, FreshKept, UNCHANGED snapshot,
           \A i \in Facts : FetchedIn(i)' => FetchedIn(i)
    PROVE  AnswersRight'
<1>1. \A i, n : Silent(i, n)' <=> Silent(i, n)
  BY DEF Silent, FreshKept
<1> QED BY <1>1 DEF AnswersRight, SureKept, PresenceInv, PresenceTypeOK


\* The steps that make nothing sure.
LEMMA QuietSteps ==
    ASSUME PresenceInv, Closed(truth),
           \/ Change \/ Boot \/ UNCHANGED vars
           \/ CheckInProgress /\ inProgress
           \/ Delay \/ Apply \/ RestartIgnored
           \/ SetInProgress \/ Fetch \/ Mark \/ ApplyTable
    PROVE  SureKept /\ FreshKept
<1> USE DEF initVars, busVars, history
<1>1. CASE Change \/ Boot
  BY <1>1, ServersQuiet
<1>2. ASSUME UNCHANGED <<truth, phase, step, delayed, events, stale, doubt>>,
             handler' = "apply" <=> handler = "apply"
      PROVE  SureKept /\ FreshKept
  BY <1>2 DEF SureKept, FreshKept, Sure, Unsaid, Untouched, Spoiled, StaleWord, Fresh
<1>3. CASE UNCHANGED vars
  BY <1>2, <1>3 DEF vars
<1>4. CASE Delay
  BY <1>2, <1>4 DEF Delay
<1>5. CASE CheckInProgress /\ inProgress
  BY <1>2, <1>5 DEF CheckInProgress
<1>6. CASE Apply \/ RestartIgnored
  <2>1. /\ events # <<>> /\ Take /\ UNCHANGED <<truth, phase, step, stale, delayed>>
        /\ doubt \subseteq doubt'
    BY <1>6 DEF Apply, RestartIgnored, PresenceInv, PresenceTypeOK
  <2>2. FreshKept
    BY <2>1 DEF FreshKept, Fresh
  <2>3. CASE Apply
    BY <2>1, <2>2, <2>3, TakenQuiet DEF Apply
  <2>4. CASE RestartIgnored
    <3>1. \A i \in Facts : Touches(Hand, i) => i \in doubt'
      BY <2>4 DEF RestartIgnored, Touches
    <3>2. \A i \in Facts : Sure(i)' => i \notin doubt'
      BY DEF Sure, Spoiled
    <3>3. \A i \in Facts : Sure(i)' => Sure(i)
      BY <2>1, <3>1, <3>2, TakenQuiet
    <3> QED BY <2>1, <2>2, <3>3 DEF SureKept
  <2> QED BY <1>6, <2>3, <2>4
<1>7. CASE SetInProgress \/ Fetch \/ Mark \/ ApplyTable
  <2>1. UNCHANGED <<truth, events, handler, delayed, stale>> /\ doubt \subseteq doubt'
        /\ phase \in Active \ {"replay"} /\ phase' \in Active /\ (phase' = "replay" => step' = 0)
    BY <1>7 DEF SetInProgress, Fetch, Mark, ApplyTable, Active
  <2>2. FreshKept
    BY <2>1, DelayedFacts DEF FreshKept, Fresh
  <2>3. \A i \in Facts : StaleWord(i) => StaleWord(i)'
    BY <2>1 DEF StaleWord
  <2> QED BY <2>1, <2>2, <2>3 DEF SureKept, Sure, Unsaid, Untouched, Spoiled
<1> QED BY <1>1, <1>3, <1>4, <1>5, <1>6, <1>7

\* What is dropped was not fetched; it makes sure what it says of its fact,
\* unless that hurts.
LEMMA DropQuiet ==
    ASSUME PresenceInv, EventsRight, Drop
    PROVE  /\ FreshKept
           /\ \A i \in Facts : Sure(i)' /\ ~Sure(i) =>
                /\ i = Hand.fact /\ ~DropHurts(Hand) /\ Right(Hand, i)
                /\ Touches(Hand, i)
<1> USE DEF initVars, busVars, history
<1>1. /\ handler = "tracked" /\ Take /\ UNCHANGED <<truth, phase, step, stale, delayed>>
      /\ doubt' = IF DropHurts(Hand) THEN doubt \cup {Hand.fact} ELSE doubt
  BY DEF Drop
<1>2. events # <<>> /\ Hand \in Changes /\ Hand = events[1] /\ 1 \in DOMAIN events
  BY <1>1, UntouchedTaken DEF Take, Hand, PresenceInv, PresenceTypeOK
<1>3. FreshKept
  BY <1>1 DEF FreshKept, Fresh
<1>4. ASSUME NEW i \in Facts, Sure(i)', ~Sure(i)
      PROVE  i = Hand.fact /\ ~DropHurts(Hand) /\ Right(Hand, i) /\ Touches(Hand, i)
  <2>1. i \notin doubt'
    BY <1>4 DEF Sure, Spoiled
  <2>2. Touches(Hand, i) /\ Untouched(i, 1)
    BY <1>1, <1>2, <1>4, TakenQuiet
  <2>3. i = Hand.fact
    BY <1>2, <2>2, ChangeTouches
  <2> QED BY <1>1, <1>2, <2>1, <2>2, <2>3 DEF EventsRight
<1> QED BY <1>3, <1>4

\* What is delayed becomes a fresh word on its fact.
LEMMA AppendQuiet ==
    ASSUME PresenceInv, EventsRight, AppendDelayed
    PROVE  \E k :
             /\ k = Len(delayed) + 1 /\ k \in Nat /\ k > stale
             /\ DOMAIN delayed = 1 .. k - 1 /\ DOMAIN delayed' = 1 .. k
             /\ delayed'[k] = Hand /\ \A n \in DOMAIN delayed : delayed'[n] = delayed[n]
             /\ \A n \in DOMAIN delayed : Fresh(n)' <=> Fresh(n)
             /\ \A i \in Facts : Sure(i)' => Right(Hand, i)
             /\ phase \in Active => \A i \in Facts : \A n \in 0 .. k - 1 :
                  Silent(i, n)' /\ Sure(i)' => Silent(i, n) /\ Sure(i)
<1> USE DEF initVars, busVars, history
<1>0. PICK k : k = Len(delayed) + 1
  OBVIOUS
<1>1. /\ handler = "delay" /\ Take /\ UNCHANGED <<truth, phase, step, stale>>
      /\ doubt \subseteq doubt' /\ delayed' = Append(delayed, Hand)
  BY DEF AppendDelayed
<1>2. events # <<>> /\ Hand \in Changes /\ Hand = events[1] /\ 1 \in DOMAIN events
  BY <1>1, UntouchedTaken DEF Take, Hand, PresenceInv, PresenceTypeOK
<1>3. /\ k \in Nat /\ k > stale /\ DOMAIN delayed = 1 .. k - 1 /\ DOMAIN delayed' = 1 .. k
      /\ delayed'[k] = Hand /\ \A n \in DOMAIN delayed : delayed'[n] = delayed[n]
      /\ \A n \in 1 .. stale : delayed'[n] = delayed[n]
      /\ phase = "replay" => step < k
  BY <1>0, <1>1, <1>2, DelayedFacts DEF PresenceInv, PresenceTypeOK
<1>4. /\ \A i \in Facts : Sure(i)' => Untouched(i, 1)
      /\ \A i \in Facts : Sure(i)' /\ ~Touches(Hand, i) => Sure(i)
  BY <1>1, <1>2, <1>3, TakenQuiet
<1>5. \A n \in DOMAIN delayed : Fresh(n)' <=> Fresh(n)
  BY <1>1, <1>3 DEF Fresh
<1>6. phase \in Active => Fresh(k)'
  BY <1>1, <1>3 DEF Fresh
<1>7. \A i \in Facts : Sure(i)' => Right(Hand, i)
  BY <1>2, <1>4 DEF EventsRight
<1>8. ASSUME phase \in Active, NEW i \in Facts, NEW n \in 0 .. k - 1, Silent(i, n)', Sure(i)'
      PROVE  Silent(i, n) /\ Sure(i)
  <2>1. k \in DOMAIN delayed' /\ k > n
    BY <1>3, <1>8
  <2>2. ~Touches(Hand, i)
    BY <1>3, <1>6, <1>8, <2>1 DEF Silent
  <2>3. \A m \in DOMAIN delayed : m \in DOMAIN delayed' /\ delayed'[m] = delayed[m]
    BY <1>3
  <2>4. Silent(i, n)
    BY <1>5, <1>8, <2>3 DEF Silent
  <2> QED BY <1>4, <1>8, <2>2, <2>4
<1> QED BY <1>0, <1>3, <1>5, <1>7, <1>8

-----------------------------------------------------------------------------
(* What the replay is going to apply is right. *)

LEMMA DelayedStep ==
    /\ PresenceInv /\ Closed(truth) /\ Modes /\ EventsRight /\ DelayedRight
    /\ [Next]_vars
    => DelayedRight'
<1> SUFFICES ASSUME PresenceInv, Closed(truth), Modes, EventsRight, DelayedRight, [Next]_vars
             PROVE  DelayedRight'
  OBVIOUS
<1>1. CASE \/ Change \/ Boot \/ UNCHANGED vars
           \/ CheckInProgress /\ inProgress
           \/ Delay \/ Apply \/ RestartIgnored
           \/ SetInProgress \/ Fetch \/ Mark \/ ApplyTable
  BY <1>1, QuietSteps, DelayedKept
<1>2. CASE Drop
  <2>1. FreshKept /\ truth' = truth
    BY <1>2, DropQuiet DEF Drop
  <2>2. \A i, n : Silent(i, n)' <=> Silent(i, n)
    BY <2>1 DEF Silent, FreshKept
  <2>3. ASSUME NEW n \in DOMAIN delayed, NEW i \in Facts, Fresh(n), Silent(i, n), Sure(i)'
        PROVE  Right(delayed[n], i)
    <3>1. CASE Sure(i)
      BY <2>3, <3>1 DEF DelayedRight
    <3>2. CASE ~Sure(i)
      <4>1. i = Hand.fact /\ ~DropHurts(Hand)
        BY <1>2, <2>3, <3>2, DropQuiet
      <4>2. i \notin {delayed[n].fact} \cup Supplied(delayed[n].fact)
        BY <2>3, <4>1 DEF DropHurts, Pending
      <4> QED BY <4>2, DelayedFacts, ChangeTouches DEF Right
    <3> QED BY <3>1, <3>2
  <2> QED BY <2>1, <2>2, <2>3 DEF DelayedRight, Right, FreshKept
<1>3. CASE AppendDelayed
  <2>1. PICK k :
          /\ k \in Nat /\ DOMAIN delayed = 1 .. k - 1 /\ DOMAIN delayed' = 1 .. k
          /\ delayed'[k] = Hand /\ \A n \in DOMAIN delayed : delayed'[n] = delayed[n]
          /\ \A n \in DOMAIN delayed : Fresh(n)' <=> Fresh(n)
          /\ \A i \in Facts : Sure(i)' => Right(Hand, i)
          /\ phase \in Active => \A i \in Facts : \A n \in 0 .. k - 1 :
               Silent(i, n)' /\ Sure(i)' => Silent(i, n) /\ Sure(i)
    BY <1>3, AppendQuiet
  <2>2. truth' = truth
    BY <1>3 DEF AppendDelayed
  <2> SUFFICES ASSUME NEW n \in DOMAIN delayed', NEW i \in Facts, Fresh(n)', Silent(i, n)', Sure(i)'
               PROVE  Right(delayed[n], i)'
    BY DEF DelayedRight
  <2>3. CASE n = k
    BY <2>1, <2>2, <2>3 DEF Right
  <2>4. CASE n \in DOMAIN delayed
    <3>1. Fresh(n) /\ phase \in Active /\ n \in 0 .. k - 1
      BY <2>1, <2>4 DEF Fresh
    <3>2. Right(delayed[n], i)
      BY <2>1, <2>4, <3>1 DEF DelayedRight
    <3> QED BY <2>1, <2>2, <2>4, <3>2 DEF Right
  <2> QED BY <2>1, <2>3, <2>4
<1>4. CASE Replay
  <2> DEFINE e == delayed[step + 1]
  <2>1. /\ UNCHANGED <<truth, events, handler, delayed, stale>> /\ doubt \subseteq doubt'
        /\ phase = "replay" /\ phase' = "replay" /\ step' = step + 1 /\ step \in Nat
        /\ step < stale => {e.fact} \cup Supplied(e.fact) \subseteq doubt'
    BY <1>4 DEF Replay, busVars, PresenceInv, PresenceTypeOK
  <2>2. \A n \in DOMAIN delayed : Fresh(n)' <=> Fresh(n) /\ n # step + 1
    BY <2>1, DelayedFacts DEF Fresh
  <2>3. \A i \in Facts : Sure(i)' => Sure(i)
    BY <2>1, DelayedFacts DEF Sure, Unsaid, Untouched, Spoiled, StaleWord
  <2>4. ASSUME NEW n \in DOMAIN delayed, Fresh(n)', NEW i, Silent(i, n)' PROVE Silent(i, n)
    <3>1. n > step + 1
      BY <2>1, <2>4, DelayedFacts DEF Fresh
    <3> QED BY <2>1, <2>2, <2>4, <3>1, DelayedFacts DEF Silent
  <2> QED BY <2>1, <2>2, <2>3, <2>4 DEF DelayedRight, Right
<1>5. CASE CheckInProgress /\ ~inProgress
  <2>1. UNCHANGED <<phase, step, delayed, stale>>
    BY <1>5 DEF CheckInProgress, initVars
  <2>2. \A n \in DOMAIN delayed : ~Fresh(n)
    BY <1>5, DelayedFacts DEF Fresh, Active, Modes
  <2>3. \A n \in DOMAIN delayed' : ~Fresh(n)'
    BY <2>1, <2>2 DEF Fresh
  <2> QED BY <2>3 DEF DelayedRight
<1>6. CASE Restart \/ ResetMilestones \/ ReplayEnds \/ ClearInProgress \/ SetInitialized
           \/ ThreadEnds \/ Retry \/ InitFails \/ InitTimesOut
  <2>1. \/ phase' \notin Active
        \/ delayed' = delayed /\ stale' = Len(delayed)
    BY <1>6 DEF Restart, ResetMilestones, ReplayEnds, ClearInProgress, SetInitialized,
       ThreadEnds, Retry, InitFails, InitTimesOut, Active, busVars
  <2>2. \A n \in DOMAIN delayed' : ~Fresh(n)'
    BY <2>1, DelayedFacts DEF Fresh
  <2> QED BY <2>2 DEF DelayedRight
<1> QED
  BY <1>1, <1>2, <1>3, <1>4, <1>5, <1>6 DEF Next, Consume, Initiate

-----------------------------------------------------------------------------
(* The answers that are in are right. *)

\* Tenants are fetched and marked before users.
LEMMA TenantsFirst ==
    \A n \in 1 .. 7 : "user" \in Fetched(n) => "tenant" \in Fetched(n) /\ n > 2
<1> DEFINE F(n) == FetchOrder[n]
<1>1. F(1) = "tenant" /\ F(2) = "user"
  BY DEF FetchOrder
<1>2. \A n \in 1 .. 7 : \A m \in 1 .. n - 1 : F(m) \in Fetched(n)
  BY DEF Fetched
<1>3. Fetched(1) = {} /\ Fetched(2) = {"tenant"}
  BY <1>1, OrderSteps
<1> HIDE DEF F
<1> SUFFICES ASSUME NEW n \in 1 .. 7, "user" \in Fetched(n) PROVE "tenant" \in Fetched(n) /\ n > 2
  OBVIOUS
<1>4. n > 2
  BY <1>3
<1> QED BY <1>1, <1>2, <1>4

LEMMA SuppliedTables ==
    \A i \in Facts : \A j \in Supplied(i) : Table[i] = "user" /\ Table[j] = "tenant"
                                             /\ ResourceOf(i) = "user" /\ ResourceOf(j) = "tenant"
BY DEF Supplied, ResourceOf

LEMMA AnswersStep ==
    /\ PresenceInv /\ Closed(truth) /\ Modes /\ EventsRight /\ AnswersRight
    /\ [Next]_vars
    => AnswersRight'
<1> SUFFICES ASSUME PresenceInv, Closed(truth), Modes, EventsRight, AnswersRight, [Next]_vars
             PROVE  AnswersRight'
  OBVIOUS
<1>1. CASE \/ Change \/ Boot \/ UNCHANGED vars
           \/ CheckInProgress /\ inProgress
           \/ Delay \/ Apply \/ RestartIgnored
  <2>1. UNCHANGED <<phase, step, snapshot>>
    BY <1>1 DEF Change, Boot, vars, CheckInProgress, Delay, Apply, RestartIgnored, initVars
  <2>2. \A i \in Facts : FetchedIn(i)' => FetchedIn(i)
    BY <2>1 DEF FetchedIn, Fetched
  <2>3. SureKept /\ FreshKept
    BY <1>1, QuietSteps
  <2> QED BY <2>1, <2>2, <2>3, AnswersKept
<1>2. CASE Mark
  <2>1. SureKept /\ FreshKept
    BY <1>2, QuietSteps
  <2>2. step \in 1 .. 6 /\ Len(FetchOrder) = 6 /\ phase = "mark" /\ snapshot' = snapshot
    BY <1>2, Orders DEF Mark, PresenceInv, PresenceTypeOK
  <2>3. \A i \in Facts : FetchedIn(i)' => FetchedIn(i)
    <3>1. CASE step < 6
      <4>1. phase' = "fetch" /\ step' = step + 1
        BY <1>2, <2>2, <3>1 DEF Mark
      <4> QED BY <2>2, <4>1 DEF FetchedIn, Fetched
    <3>2. CASE step = 6
      <4>1. Fetched(step + 1) = Resources
        BY <3>2, OrderSteps
      <4> QED BY <2>2, <4>1, Resourced DEF FetchedIn
    <3> QED BY <2>2, <3>1, <3>2
  <2> QED BY <2>1, <2>2, <2>3, AnswersKept
<1>3. CASE ApplyTable
  <2>1. SureKept /\ FreshKept
    BY <1>3, QuietSteps
  <2>2. phase = "apply" /\ snapshot' = snapshot
    BY <1>3 DEF ApplyTable
  <2> QED BY <2>1, <2>2, AnswersKept DEF FetchedIn
<1>4. CASE Fetch
  <2> DEFINE r == FetchOrder[step]
  <2>1. /\ step \in 1 .. 6 /\ phase = "fetch" /\ phase' = "mark" /\ step' = step /\ truth' = truth
        /\ snapshot' = (snapshot \ Listed(r)) \cup (truth \cap Listed(r))
    BY <1>4, Orders DEF Fetch, PresenceInv, PresenceTypeOK
  <2>2. \A i, n : Silent(i, n)' <=> Silent(i, n)
    BY <1>4, QuietSteps DEF Silent, FreshKept
  <2>3. \A i \in Facts : Sure(i)' => Sure(i)
    BY <1>4, QuietSteps DEF SureKept
  <2>4. \A i \in Facts : i \in snapshot' <=> IF ResourceOf(i) = r THEN i \in truth ELSE i \in snapshot
    BY <2>1 DEF Listed
  <2>5. \A i \in Facts : FetchedIn(i)' /\ ResourceOf(i) # r => FetchedIn(i)
    BY <2>1, OrderSteps DEF FetchedIn, Fetched
  <2>6. snapshot' \subseteq Facts
    BY <2>1 DEF PresenceInv, PresenceTypeOK
  <2>7. \A u \in truth : Supplied(u) \subseteq truth
    BY DEF Closed, Supplied
  <2> HIDE DEF r
  <2> QED BY <2>1, <2>2, <2>3, <2>4, <2>5, <2>6, <2>7 DEF AnswersRight
<1>5. CASE Drop
  <2>1. FreshKept /\ UNCHANGED <<truth, phase, step, snapshot, marks>>
    BY <1>5, DropQuiet DEF Drop, initVars
  <2>2. \A i, n : Silent(i, n)' <=> Silent(i, n)
    BY <2>1 DEF Silent, FreshKept
  <2>3. \A i : FetchedIn(i)' <=> FetchedIn(i)
    BY <2>1 DEF FetchedIn, Fetched
  <2> SUFFICES ASSUME NEW i \in Facts, Silent(i, 0), Sure(i)'
               PROVE  /\ FetchedIn(i) => (i \in snapshot <=> i \in truth)
                      /\ \A u \in snapshot : FetchedIn(u) /\ i \in Supplied(u) => i \in truth
    BY <2>1, <2>2, <2>3 DEF AnswersRight
  <2>4. CASE Sure(i)
    BY <2>4 DEF AnswersRight
  <2>5. CASE ~Sure(i)
    <3>1. /\ i = Hand.fact /\ ~DropHurts(Hand) /\ Right(Hand, i) /\ Touches(Hand, i)
          /\ ResourceOf(i) \notin marks
      BY <1>5, <2>5, DropQuiet DEF Drop, HasFetched
    <3>2. phase \in {"fetch", "mark"} => marks = Fetched(step) /\ step \in 1 .. 6
      BY Orders DEF Modes, PresenceInv, PresenceTypeOK
    <3>3. phase = "apply" => marks = Resources
      BY DEF Modes
    <3>4. ASSUME FetchedIn(i) PROVE i \in snapshot <=> i \in truth
      <4>1. phase = "mark" /\ ResourceOf(i) = FetchOrder[step]
        BY <3>1, <3>2, <3>3, <3>4, Resourced, OrderSteps DEF FetchedIn
      <4>2. (i \in snapshot) = (Hand.kind = "added")
        BY <3>1, <4>1 DEF DropHurts, Listed
      <4> QED BY <3>1, <4>2 DEF Right, Says
    <3>5. ASSUME NEW u \in snapshot, FetchedIn(u), i \in Supplied(u) PROVE FALSE
      <4>1. ResourceOf(u) = "user" /\ ResourceOf(i) = "tenant"
        BY <3>5, SuppliedTables DEF PresenceInv, PresenceTypeOK
      <4>2. phase = "apply" => FALSE
        BY <3>1, <3>3, Resourced
      <4>3. phase = "fetch" => FALSE
        BY <3>1, <3>2, <3>5, <4>1, TenantsFirst DEF FetchedIn
      <4>4. phase = "mark" => "tenant" \in Fetched(step)
        <5> SUFFICES ASSUME phase = "mark" PROVE "tenant" \in Fetched(step)
          OBVIOUS
        <5>1. "user" \in Fetched(step + 1) /\ step \in 1 .. 6
          BY <3>2, <3>5, <4>1 DEF FetchedIn
        <5>2. step > 1
          BY <5>1, TenantsFirst
        <5>3. FetchOrder[1] = "tenant"
          BY DEF FetchOrder
        <5> QED BY <5>1, <5>2, <5>3 DEF Fetched
      <4> QED BY <3>1, <3>2, <3>5, <4>1, <4>2, <4>3, <4>4 DEF FetchedIn
    <3> QED BY <3>4, <3>5
  <2> QED BY <2>4, <2>5
<1>6. CASE AppendDelayed
  <2>1. UNCHANGED <<truth, phase, step, snapshot>>
    BY <1>6 DEF AppendDelayed, initVars
  <2>2. \A i : FetchedIn(i)' <=> FetchedIn(i)
    BY <2>1 DEF FetchedIn, Fetched
  <2>3. \A i : FetchedIn(i) => phase \in Active
    BY DEF FetchedIn, Active
  <2>4. phase \in Active => \A i \in Facts : Silent(i, 0)' /\ Sure(i)' => Silent(i, 0) /\ Sure(i)
    <3>1. PICK k : k \in Nat /\ k > stale
                   /\ (phase \in Active => \A i \in Facts : \A n \in 0 .. k - 1 :
                         Silent(i, n)' /\ Sure(i)' => Silent(i, n) /\ Sure(i))
      BY <1>6, AppendQuiet
    <3>2. 0 \in 0 .. k - 1
      BY <3>1, DelayedFacts
    <3> QED BY <3>1, <3>2
  <2> QED BY <2>1, <2>2, <2>3, <2>4 DEF AnswersRight
<1>7. CASE CheckInProgress /\ ~inProgress
  <2>1. UNCHANGED <<phase, step>> /\ phase \notin {"fetch", "mark", "apply"}
    BY <1>7 DEF CheckInProgress, initVars, Modes
  <2> QED BY <2>1 DEF AnswersRight, FetchedIn
<1>8. CASE SetInProgress
  <2>1. phase' = "fetch" /\ step' = 1
    BY <1>8 DEF SetInProgress
  <2>2. \A i : ~FetchedIn(i)'
    BY <2>1, OrderSteps DEF FetchedIn, Fetched
  <2> QED BY <2>2 DEF AnswersRight
<1>9. CASE Restart \/ ResetMilestones \/ Replay \/ ReplayEnds \/ ClearInProgress
           \/ SetInitialized \/ ThreadEnds \/ Retry \/ InitFails \/ InitTimesOut
  <2>1. phase' \notin {"fetch", "mark", "apply"}
    BY <1>9 DEF Restart, ResetMilestones, Replay, ReplayEnds, ClearInProgress, SetInitialized,
       ThreadEnds, Retry, InitFails, InitTimesOut
  <2> QED BY <2>1 DEF AnswersRight, FetchedIn
<1> QED
  BY <1>1, <1>2, <1>3, <1>4, <1>5, <1>6, <1>7, <1>8, <1>9 DEF Next, Consume, Initiate

-----------------------------------------------------------------------------
(* The tables that were applied are right. *)

\* No table is applied twice or after one whose rows hang on its own.
LEMMA AppliedOnce == \A n \in 1 .. 8 : \A t \in Applied(n) : ApplyOrder[n] \notin ForeignKeys[t] \cup {t}
<1>1. \A n \in 1 .. 8 : \A m \in 1 .. n - 1 : ApplyOrder[n] # ApplyOrder[m]
  BY DEF ApplyOrder
<1>2. ASSUME NEW n \in 1 .. 8, NEW m \in 1 .. n - 1
      PROVE  ApplyOrder[n] \notin ForeignKeys[ApplyOrder[m]]
  <2>1. m \in 1 .. 8 /\ \A k \in 1 .. m - 1 : k \in 1 .. n - 1
    BY <1>2
  <2>2. ApplyOrder[n] \notin Applied(m)
    BY <1>1, <2>1 DEF Applied
  <2> QED BY <2>1, <2>2, OwnersFirst
<1> QED BY <1>1, <1>2 DEF Applied

LEMMA UntouchedSure ==
    ASSUME PresenceInv, NEW i \in Facts, Untouched(i, 0), ~Spoiled(i)
    PROVE  Sure(i)
<1>1. Untouched(i, 1)
  BY DEF Untouched, PresenceInv, PresenceTypeOK
<1> QED BY <1>1 DEF Sure, Unsaid

\* A handler makes its fact right, and keeps the others so.
LEMMA HandledRight ==
    ASSUME NEW e \in Changes, NEW i \in Facts, i \notin Misled(e, rows), Right(e, i),
           ~Touches(e, i) => (i \in rows <=> i \in truth)
    PROVE  i \in Handled(e, rows) <=> i \in truth
<1>1. Touches(e, i) <=> e.fact = i
  BY ChangeTouches
<1>2. CASE Says(e)
  <2>1. Handled(e, rows) = Created(e.fact, rows) /\ (e.fact = i => i \in Created(e.fact, rows))
    BY <1>2 DEF Handled, Misled, Says
  <2>2. i \in Created(e.fact, rows) => i = e.fact \/ i \in rows \/ i \in Supplied(e.fact)
    BY DEF Created
  <2>3. i \in rows => i \in Created(e.fact, rows)
    BY DEF Created
  <2>4. i \in Supplied(e.fact) \/ i = e.fact => i \in truth
    BY <1>1, <1>2 DEF Right
  <2> QED BY <1>1, <2>1, <2>2, <2>3, <2>4
<1>3. CASE ~Says(e)
  <2>1. Handled(e, rows) = rows \ ({e.fact} \cup Dependents(e.fact))
        /\ i \notin Dependents(e.fact) \cap rows
    BY <1>3 DEF Handled, Deleted, Misled, Says
  <2>2. i = e.fact => i \notin truth
    BY <1>1, <1>3 DEF Right
  <2> QED BY <1>1, <2>1, <2>2
<1> QED BY <1>2, <1>3

\* The transaction of one table makes its facts right and keeps those of the
\* tables before it so.
LEMMA TableMadeRight ==
    ASSUME PresenceInv, AnswersRight, TablesRight, phase = "apply", step \in 1 .. 8,
           NEW i \in Facts, Silent(i, 0), Untouched(i, 0), ~Spoiled(i),
           Table[i] \in Applied(step + 1),
           i \notin Wanted(ApplyOrder[step]) \ Valid(ApplyOrder[step])
    PROVE  i \in Kept(ApplyOrder[step]) \cup Valid(ApplyOrder[step]) <=> i \in truth
<1> DEFINE t == ApplyOrder[step]
<1> SUFFICES i \in Kept(t) \cup Valid(t) <=> i \in truth
  OBVIOUS
<1>1. Sure(i)
  BY UntouchedSure
<1>2. i \in snapshot <=> i \in truth
  BY <1>1 DEF AnswersRight, FetchedIn
<1>3. ASSUME NEW w \in Wanted(t), i \in Supplied(w) PROVE i \in truth
  BY <1>1, <1>3 DEF AnswersRight, FetchedIn, Wanted
<1>4. i \in Kept(t) => i \in truth \/ (i \in rows /\ i \notin Expired(t))
  BY <1>3 DEF Kept
<1>5. i \in rows /\ i \notin Expired(t) => i \in Kept(t)
  BY DEF Kept
<1>6. Valid(t) \subseteq Wanted(t) /\ \A w \in Wanted(t) : Table[w] = t /\ w \in snapshot
  BY DEF Valid, Wanted, Rows
<1>7. Table[i] = t \/ Table[i] \in Applied(step)
  BY OrderSteps
<1>8. CASE Table[i] = t
  <2>1. i \in snapshot => i \in Valid(t)
    BY <1>8 DEF Wanted, Rows
  <2>2. i \notin snapshot => i \in Expired(t)
    BY <1>8 DEF Expired, Rows
  <2> HIDE DEF t
  <2> QED BY <1>2, <1>4, <1>6, <2>1, <2>2
<1>9. CASE Table[i] \in Applied(step)
  <2>1. i \in rows <=> i \in truth
    BY <1>9 DEF TablesRight, AppliedIn
  <2>2. Table[i] # t /\ t \notin ForeignKeys[Table[i]]
    BY <1>9, AppliedOnce
  <2>3. i \notin Expired(t)
    BY <2>2, PresenceAssumption DEF Expired, Dependents, Rows
  <2> HIDE DEF t
  <2> QED BY <1>4, <1>5, <1>6, <2>1, <2>2, <2>3
<1> QED BY <1>7, <1>8, <1>9

LEMMA TablesStep ==
    /\ PresenceInv /\ Closed(truth)
    /\ Modes /\ EventsRight /\ DelayedRight /\ AnswersRight /\ TablesRight
    /\ [Next]_vars
    => TablesRight'
<1> SUFFICES ASSUME PresenceInv, Closed(truth),
                    Modes, EventsRight, DelayedRight, AnswersRight, TablesRight, [Next]_vars
             PROVE  TablesRight'
  OBVIOUS
<1>1. CASE Change \/ Boot
  <2>1. UNCHANGED <<phase, step, rows>>
    BY <1>1 DEF Change, Boot, initVars
  <2>2. \A i, n : Silent(i, n)' <=> Silent(i, n)
    BY <1>1, ServersQuiet DEF Silent, FreshKept
  <2>3. \A i : AppliedIn(i)' <=> AppliedIn(i)
    BY <2>1 DEF AppliedIn, Applied
  <2> QED BY <1>1, <2>1, <2>2, <2>3, ServersQuiet DEF TablesRight
<1>2. CASE UNCHANGED vars \/ CheckInProgress \/ Delay
  <2>1. UNCHANGED <<phase, step, rows, truth, events, delayed, stale, doubt>>
    BY <1>2 DEF CheckInProgress, Delay, vars, initVars, busVars, history
  <2> QED BY <2>1 DEF TablesRight, AppliedIn, Applied, Silent, Fresh, Untouched, Spoiled, StaleWord
<1>3. CASE Drop
  <2>1. marks # Resources
    BY <1>3, Resourced DEF Drop, HasFetched, Hand, PresenceInv, PresenceTypeOK, Changes
  <2>2. phase' = phase /\ phase \notin {"apply", "replay", "finish", "publish", "done", "off"}
    BY <1>3, <2>1 DEF Drop, Modes, initVars
  <2> QED BY <2>2 DEF TablesRight, AppliedIn
<1>4. CASE AppendDelayed
  <2>1. /\ handler = "delay" /\ Take /\ UNCHANGED <<truth, rows, phase, step, stale>>
        /\ doubt \subseteq doubt' /\ (phase \notin Running => Hand.fact \in doubt')
    BY <1>4 DEF AppendDelayed, initVars
  <2>2. events # <<>> /\ Hand \in Changes
    BY <2>1 DEF Hand, PresenceInv, PresenceTypeOK
  <2>3. \A i : AppliedIn(i)' <=> AppliedIn(i)
    BY <2>1 DEF AppliedIn, Applied
  <2>4. PICK k : /\ k \in Nat /\ k > stale
                 /\ DOMAIN delayed = 1 .. k - 1 /\ DOMAIN delayed' = 1 .. k
                 /\ delayed'[k] = Hand /\ \A n \in DOMAIN delayed : delayed'[n] = delayed[n]
                 /\ \A n \in DOMAIN delayed : Fresh(n)' <=> Fresh(n)
                 /\ phase \in Active => \A i \in Facts : \A n \in 0 .. k - 1 :
                      Silent(i, n)' /\ Sure(i)' => Silent(i, n) /\ Sure(i)
    BY <1>4, AppendQuiet
  <2> SUFFICES ASSUME NEW i \in Facts,
                      AppliedIn(i), Silent(i, 0)', Untouched(i, 0)', ~Spoiled(i)'
               PROVE  i \in rows <=> i \in truth
    BY <2>1, <2>3 DEF TablesRight
  <2>5. Untouched(i, 1) /\ ~Spoiled(i) /\ Sure(i)'
    <3>1. \A n \in 1 .. stale : delayed'[n] = delayed[n]
      BY <2>4, DelayedFacts
    <3>2. Sure(i)'
      BY <2>1 DEF Sure, Unsaid, Take
    <3> QED BY <2>1, <2>2, <3>1, <3>2, TakenQuiet
  <2>6. Silent(i, 0) /\ Untouched(i, 0)
    <3>1. CASE phase \in Active
      <4>1. 0 \in 0 .. k - 1 /\ handler # "apply"
        BY <2>1, <2>4, DelayedFacts
      <4> QED BY <2>4, <2>5, <3>1, <4>1 DEF Sure, Unsaid
    <3>2. CASE phase \notin Active
      <4>1. phase \notin Running
        BY <3>2 DEF AppliedIn, Active, Running
      <4>2. Hand.fact # i
        BY <2>1, <4>1 DEF Spoiled
      <4>3. Untouched(i, 0)
        BY <2>1, <2>2, <2>5, <4>2, UntouchedTaken, ChangeTouches DEF Take, Hand, PresenceInv
      <4> QED BY <3>2, <4>3 DEF Silent, Fresh
    <3> QED BY <3>1, <3>2
  <2> QED BY <2>5, <2>6 DEF TablesRight
<1>5. CASE Apply
  <2>1. /\ handler = "apply" /\ Take /\ UNCHANGED <<truth, phase, step, delayed, stale>>
        /\ rows' = Handled(Hand, rows) /\ doubt' = doubt \cup Misled(Hand, rows)
    BY <1>5 DEF Apply, initVars
  <2>2. events # <<>> /\ Hand \in Changes /\ Hand = events[1] /\ 1 \in DOMAIN events
    BY <2>1, UntouchedTaken DEF Take, Hand, PresenceInv, PresenceTypeOK
  <2>3. \A i, n : (Silent(i, n)' <=> Silent(i, n)) /\ (AppliedIn(i)' <=> AppliedIn(i))
    BY <2>1 DEF Silent, Fresh, AppliedIn, Applied
  <2> SUFFICES ASSUME NEW i \in Facts,
                      AppliedIn(i), Silent(i, 0), Untouched(i, 0)', ~Spoiled(i)'
               PROVE  i \in Handled(Hand, rows) <=> i \in truth
    BY <2>1, <2>3 DEF TablesRight
  <2>4. Untouched(i, 1) /\ ~Spoiled(i) /\ (Untouched(i, 0) <=> ~Touches(Hand, i))
    BY <2>1, <2>2, TakenQuiet
  <2>5. i \notin Misled(Hand, rows)
    BY <2>1 DEF Spoiled
  <2>6. Right(Hand, i)
    BY <2>2, <2>4 DEF EventsRight
  <2>7. ~Touches(Hand, i) => (i \in rows <=> i \in truth)
    BY <2>4 DEF TablesRight
  <2> QED BY <2>2, <2>5, <2>6, <2>7, HandledRight
<1>6. CASE RestartIgnored
  <2>1. /\ events # <<>> /\ Take /\ UNCHANGED <<truth, rows, phase, step, delayed, stale>>
        /\ doubt' = doubt \cup OfAsterisk /\ Hand = FullyBooted
    BY <1>6 DEF RestartIgnored, initVars
  <2>2. \A i, n : (Silent(i, n)' <=> Silent(i, n)) /\ (AppliedIn(i)' <=> AppliedIn(i))
    BY <2>1 DEF Silent, Fresh, AppliedIn, Applied
  <2>3. ASSUME NEW i \in Facts, Untouched(i, 0)', ~Spoiled(i)'
        PROVE  Untouched(i, 0) /\ ~Spoiled(i)
    <3>1. ~Touches(Hand, i)
      BY <2>1, <2>3 DEF Touches, Spoiled
    <3> QED BY <2>1, <2>3, <3>1, TakenQuiet
  <2> QED BY <2>1, <2>2, <2>3 DEF TablesRight
<1>7. CASE ApplyTable
  <2> DEFINE t == ApplyOrder[step]
  <2>1. /\ step \in 1 .. 8 /\ Len(ApplyOrder) = 8 /\ phase = "apply"
        /\ UNCHANGED <<truth, events, delayed, stale>>
        /\ rows' = Kept(t) \cup Valid(t) /\ doubt' = doubt \cup (Wanted(t) \ Valid(t))
        /\ \/ phase' = "apply" /\ step' = step + 1
           \/ phase' = "replay" /\ step' = 0 /\ step = 8
    BY <1>7, Orders DEF ApplyTable, busVars, PresenceInv, PresenceTypeOK
  <2>2. \A i, n : Silent(i, n)' <=> Silent(i, n)
    BY <1>7, QuietSteps DEF Silent, FreshKept
  <2>3. \A i \in Facts : StaleWord(i) => StaleWord(i)'
    BY <2>1 DEF StaleWord, Active
  <2>4. \A i \in Facts : AppliedIn(i)' => Table[i] \in Applied(step + 1)
    <3>1. CASE phase' = "apply" /\ step' = step + 1
      BY <3>1 DEF AppliedIn, Applied
    <3>2. CASE step = 8
      BY <3>2, OrderSteps, PresenceAssumption
    <3> QED BY <2>1, <3>1, <3>2
  <2> HIDE DEF t
  <2> SUFFICES ASSUME NEW i \in Facts,
                      AppliedIn(i)', Silent(i, 0), Untouched(i, 0)', ~Spoiled(i)'
               PROVE  i \in Kept(t) \cup Valid(t) <=> i \in truth
    BY <2>1, <2>2 DEF TablesRight
  <2>5. Untouched(i, 0) /\ ~Spoiled(i) /\ i \notin Wanted(t) \ Valid(t)
    BY <2>1, <2>3 DEF Untouched, Spoiled
  <2>6. Table[i] \in Applied(step + 1)
    BY <2>4
  <2> QED BY <2>1, <2>5, <2>6, TableMadeRight DEF t
<1>8. CASE Replay
  <2>0. PICK e : e = delayed[step + 1]
    OBVIOUS
  <2>1. /\ UNCHANGED <<truth, events, delayed, stale>> /\ rows' = Handled(e, rows)
        /\ doubt' = doubt \cup Misled(e, rows) \cup (IF step < stale THEN {e.fact} \cup Supplied(e.fact) ELSE {})
        /\ phase = "replay" /\ phase' = "replay" /\ step' = step + 1 /\ step \in Nat
        /\ step + 1 \in DOMAIN delayed /\ e \in Changes
    BY <1>8, <2>0, DelayedFacts DEF Replay, busVars, PresenceInv, PresenceTypeOK
  <2>2. \A n \in DOMAIN delayed : Fresh(n)' <=> Fresh(n) /\ n # step + 1
    BY <2>1, DelayedFacts DEF Fresh
  <2> SUFFICES ASSUME NEW i \in Facts, Silent(i, 0)', Untouched(i, 0)', ~Spoiled(i)'
               PROVE  i \in Handled(e, rows) <=> i \in truth
    BY <2>1 DEF TablesRight
  <2>3. Untouched(i, 0) /\ ~Spoiled(i) /\ i \notin Misled(e, rows)
        /\ (step < stale => i \notin {e.fact} \cup Supplied(e.fact))
    BY <2>0, <2>1, DelayedFacts DEF Untouched, Spoiled, StaleWord
  <2>4. Silent(i, step + 1)
    BY <2>1, <2>2, DelayedFacts DEF Silent
  <2>5. Right(e, i)
    <3>1. CASE step < stale
      BY <2>1, <2>3, <3>1, ChangeTouches DEF Right
    <3>2. CASE ~(step < stale)
      <4>1. Fresh(step + 1)
        BY <2>1, <3>2, DelayedFacts DEF Fresh, Active
      <4> QED BY <2>0, <2>1, <2>3, <2>4, <4>1, UntouchedSure DEF DelayedRight
    <3> QED BY <3>1, <3>2
  <2>6. ~Touches(e, i) => (i \in rows <=> i \in truth)
    <3> SUFFICES ASSUME ~Touches(e, i) PROVE i \in rows <=> i \in truth
      OBVIOUS
    <3>1. Silent(i, 0)
      BY <2>0, <2>1, <2>2 DEF Silent
    <3> QED BY <2>1, <2>3, <3>1 DEF TablesRight, AppliedIn
  <2> QED BY <2>1, <2>3, <2>5, <2>6, HandledRight
<1>9. CASE ReplayEnds \/ ClearInProgress \/ SetInitialized \/ ThreadEnds
  <2>1. /\ UNCHANGED <<truth, rows, events, delayed, stale, doubt>>
        /\ phase \in {"replay", "finish", "publish", "done"} /\ phase' \notin Active
        /\ phase = "replay" => step = Len(delayed)
    BY <1>9 DEF ReplayEnds, ClearInProgress, SetInitialized, ThreadEnds, Active, busVars, history
  <2>2. \A i : Silent(i, 0) /\ ~StaleWord(i)
    BY <2>1, DelayedFacts DEF Silent, Fresh, StaleWord, Active
  <2>3. \A i : AppliedIn(i)
    BY <2>1 DEF AppliedIn
  <2> QED BY <2>1, <2>2, <2>3 DEF TablesRight, Untouched, Spoiled
<1>10. CASE Mark
  <2>1. phase' = "fetch" \/ (phase' = "apply" /\ step' = 1)
    BY <1>10 DEF Mark
  <2>2. \A i : ~AppliedIn(i)'
    BY <2>1, OrderSteps DEF AppliedIn, Applied
  <2> QED BY <2>2 DEF TablesRight
<1>11. CASE Restart \/ ResetMilestones \/ SetInProgress \/ Fetch \/ Retry \/ InitFails \/ InitTimesOut
  <2>1. phase' \notin {"apply", "replay", "finish", "publish", "done", "off"}
    BY <1>11 DEF Restart, ResetMilestones, SetInProgress, Fetch, Retry, InitFails, InitTimesOut
  <2> QED BY <2>1 DEF TablesRight, AppliedIn
<1> QED
  BY <1>1, <1>2, <1>3, <1>4, <1>5, <1>6, <1>7, <1>8, <1>9, <1>10, <1>11 DEF Next, Consume, Initiate

-----------------------------------------------------------------------------
LEMMA FactsInvInit == Init => FactsInv
<1> SUFFICES ASSUME Init PROVE FactsInv
  OBVIOUS
<1>1. phase = "reset" /\ handler = "idle" /\ events = <<>> /\ delayed = <<>>
  BY DEF Init
<1>2. DOMAIN events = {} /\ DOMAIN delayed = {}
  BY <1>1
<1> QED
  BY <1>1, <1>2 DEF FactsInv, Modes, EventsRight, DelayedRight, AnswersRight, TablesRight,
     FetchedIn, AppliedIn

\* At rest the rows are what the servers hold but for the facts in doubt,
\* whatever changes, restarts, failures and attempts there were, in whatever
\* order the two threads took their steps.
THEOREM ConvergedHolds == Spec => []Converged
<1>1. FactsInv /\ PresenceInv /\ CalmInv /\ [Next]_vars => FactsInv'
  BY ModesStep, EventsStep, DelayedStep, AnswersStep, TablesStep DEF FactsInv, CalmInv
<1>2. FactsInv /\ PresenceInv => Converged
  <2> SUFFICES ASSUME FactsInv, PresenceInv, AtRest
               PROVE  (rows \ truth) \cup (truth \ rows) \subseteq doubt
    BY DEF Converged
  <2>1. phase = "off" /\ DOMAIN events = {}
    BY DEF AtRest
  <2>2. \A i : AppliedIn(i) /\ Silent(i, 0) /\ Untouched(i, 0) /\ ~StaleWord(i)
    BY <2>1 DEF AppliedIn, Silent, Fresh, Untouched, StaleWord, Active
  <2>3. \A i \in Facts : i \notin doubt => (i \in rows <=> i \in truth)
    BY <2>2 DEF FactsInv, TablesRight, Spoiled
  <2> QED BY <2>3 DEF PresenceInv, PresenceTypeOK
<1> QED BY <1>1, <1>2, FactsInvInit, PresenceInvInit, PresenceInvStep, CalmInvInit, CalmInvStep, PTL DEF Spec
=============================================================================
