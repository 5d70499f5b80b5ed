---------------------- MODULE TeamsSubscriptionProofs ----------------------
(***************************************************************************)
(* Theorems about TeamsSubscription, for any number of calls and faults.   *)
(***************************************************************************)
EXTENDS TeamsSubscription, SequenceTheorems, TLAPS

USE TeamsAssumption

\* Every step of the bus, the service, the renewers and Microsoft keeps every
\* variable in its type.
LEMMA TypeStep == TypeOK /\ [Next]_vars => TypeOK'
<1> SUFFICES ASSUME TypeOK, [Next]_vars PROVE TypeOK'
  OBVIOUS
<1> USE DEF TypeOK, Stage, Request, Post, Delete, Idle, loop, renewers, microsoft, history
<1>1. CASE Connect
  BY <1>1 DEF Connect
<1>2. CASE Disconnect
  <2>1. inbox' \in Seq({"added", "deleted"})
    BY <1>2 DEF Disconnect
  <2>. QED  BY <1>2, <2>1 DEF Disconnect
<1>3. CASE ListConnected
  BY <1>3 DEF ListConnected
<1>4. CASE ListFails
  BY <1>4 DEF ListFails, Spend
<1>5. CASE OnExternalAuthDeleted
  <2>1. inbox' \in Seq({"added", "deleted"})
    BY <1>5 DEF OnExternalAuthDeleted
  <2>. QED  BY <1>5, <2>1 DEF OnExternalAuthDeleted
<1>6. CASE Expire
  BY <1>6 DEF Expire
<1>7. CASE LoseDatabase
  BY <1>7 DEF LoseDatabase, Spend
<1>8. CASE Restart
  <2>1. inbox' \in Seq({"added", "deleted"})
    BY <1>8 DEF Restart
  <2>2. stage' \in [Calls -> Stage]
    BY <1>8 DEF Restart
  <2>3. faults' \in Nat
    BY <1>8 DEF Restart, Spend
  <2>. QED  BY <1>8, <2>1, <2>2, <2>3 DEF Restart
<1>9. ASSUME NEW c \in Calls, CreateListed(c) PROVE TypeOK'
  BY <1>9 DEF CreateListed, Begin
<1>10. ASSUME NEW c \in Calls, OnExternalAuthAdded(c) PROVE TypeOK'
  <2>1. inbox' \in Seq({"added", "deleted"})
    BY <1>10 DEF OnExternalAuthAdded
  <2>. QED  BY <1>10, <2>1 DEF OnExternalAuthAdded, Begin
<1>11. ASSUME NEW c \in Calls, FetchConfiguration(c) PROVE TypeOK'
  BY <1>11 DEF FetchConfiguration
<1>12. ASSUME NEW c \in Calls, FetchRefused(c) PROVE TypeOK'
  BY <1>12 DEF FetchRefused
<1>13. ASSUME NEW c \in Calls, Register(c) PROVE TypeOK'
  BY <1>13 DEF Register
<1>14. ASSUME NEW c \in Calls, StartRun(c) PROVE TypeOK'
  BY <1>14 DEF StartRun, Move
<1>15. ASSUME NEW c \in Calls, FindSubscription(c) PROVE TypeOK'
  BY <1>15 DEF FindSubscription, Move
<1>16. ASSUME NEW c \in Calls, FindNothing(c) PROVE TypeOK'
  BY <1>16 DEF FindNothing, Move
<1>17. ASSUME NEW c \in Calls, CreateReturns(c) PROVE TypeOK'
  BY <1>17 DEF CreateReturns, Move
<1>18. ASSUME NEW c \in Calls, Subscribed(c) PROVE TypeOK'
  BY <1>18 DEF Subscribed, Move
<1>19. ASSUME NEW c \in Calls, CancelDelivered(c) PROVE TypeOK'
  <2>0. Delete(c) \in Request
    BY DEF Delete, Request
  <2>1. stage' \in [Calls -> Stage] /\ wire' \subseteq Request /\ cancelled' \subseteq Calls
    <3>1. stage' \in [Calls -> Stage]
      BY <1>19 DEF CancelDelivered
    <3>2. wire' = wire \/ wire' = wire \cup {Delete(c)}
      BY <1>19 DEF CancelDelivered
    <3>3. cancelled' \subseteq Calls
      BY <1>19 DEF CancelDelivered
    <3>. QED  BY <2>0, <3>1, <3>2, <3>3
  <2>. QED  BY <1>19, <2>1 DEF CancelDelivered
<1>20. ASSUME NEW c \in Calls, FetchFails(c) PROVE TypeOK'
  BY <1>20 DEF FetchFails, Spend
<1>21. ASSUME NEW c \in Calls, CreateFails(c) PROVE TypeOK'
  BY <1>21 DEF CreateFails, Move, Spend
<1>22. ASSUME NEW c \in Calls, RenewFails(c) PROVE TypeOK'
  BY <1>22 DEF RenewFails, Move, Spend
<1>23. ASSUME NEW c \in Calls, RenewCrashes(c) PROVE TypeOK'
  BY <1>23 DEF RenewCrashes, Move, Spend
<1>24. ASSUME NEW c \in Calls, AnswerPost(c) PROVE TypeOK'
  BY <1>24 DEF AnswerPost, Answer
<1>25. ASSUME NEW c \in Calls, AnswerDelete(c) PROVE TypeOK'
  BY <1>25 DEF AnswerDelete, Answer, Keepers
<1>26. ASSUME NEW c \in Calls, DeleteFails(c) PROVE TypeOK'
  BY <1>26 DEF DeleteFails, Answer, Spend
<1>27. CASE UNCHANGED vars
  BY <1>27 DEF vars
<1>. QED
  BY <1>1, <1>2, <1>3, <1>4, <1>5, <1>6, <1>7, <1>8, <1>9, <1>10, <1>11, <1>12,
     <1>13, <1>14, <1>15, <1>16, <1>17, <1>18, <1>19, <1>20, <1>21, <1>22, <1>23,
     <1>24, <1>25, <1>26, <1>27
  DEF Next, ServiceStep, RenewerStep

\* Type correctness: in every reachable state each variable has its type.
THEOREM TeamsTypeCorrect == Spec => []TypeOK
<1>1. Init => TypeOK
  <2> SUFFICES ASSUME Init PROVE TypeOK
    OBVIOUS
  <2>1. inbox \in Seq({"added", "deleted"})
    BY DEF Init
  <2>. QED  BY <2>1 DEF Init, TypeOK, Stage
<1>. QED  BY <1>1, TypeStep, PTL DEF Spec

-----------------------------------------------------------------------------
\* No step lets two renewers work for the user at once.
LEMMA RenewerOnce == TypeOK /\ OneRenewer /\ [Next]_vars => OneRenewer'
<1> SUFFICES ASSUME TypeOK, OneRenewer, [Next]_vars PROVE OneRenewer'
  OBVIOUS
<1> USE DEF TypeOK, OneRenewer, Live, Idle, Post, Delete, loop, renewers, microsoft, history
<1>1. CASE Connect
  BY <1>1 DEF Connect
<1>2. CASE Disconnect
  BY <1>2 DEF Disconnect
<1>3. CASE ListConnected
  BY <1>3 DEF ListConnected
<1>4. CASE ListFails
  BY <1>4 DEF ListFails, Spend
<1>5. CASE OnExternalAuthDeleted
  BY <1>5 DEF OnExternalAuthDeleted
<1>6. CASE Expire
  BY <1>6 DEF Expire
<1>7. CASE LoseDatabase
  BY <1>7 DEF LoseDatabase, Spend
<1>8. CASE Restart
  BY <1>8 DEF Restart, Spend
<1>9. ASSUME NEW c \in Calls, CreateListed(c) PROVE OneRenewer'
  BY <1>9 DEF CreateListed, Begin
<1>10. ASSUME NEW c \in Calls, OnExternalAuthAdded(c) PROVE OneRenewer'
  BY <1>10 DEF OnExternalAuthAdded, Begin
<1>11. ASSUME NEW c \in Calls, FetchConfiguration(c) PROVE OneRenewer'
  BY <1>11 DEF FetchConfiguration
<1>12. ASSUME NEW c \in Calls, FetchRefused(c) PROVE OneRenewer'
  BY <1>12 DEF FetchRefused
<1>13. ASSUME NEW c \in Calls, Register(c) PROVE OneRenewer'
  BY <1>13 DEF Register
<1>14. ASSUME NEW c \in Calls, StartRun(c) PROVE OneRenewer'
  BY <1>14 DEF StartRun, Move
<1>15. ASSUME NEW c \in Calls, FindSubscription(c) PROVE OneRenewer'
  BY <1>15 DEF FindSubscription, Move
<1>16. ASSUME NEW c \in Calls, FindNothing(c) PROVE OneRenewer'
  BY <1>16 DEF FindNothing, Move
<1>17. ASSUME NEW c \in Calls, CreateReturns(c) PROVE OneRenewer'
  BY <1>17 DEF CreateReturns, Move
<1>18. ASSUME NEW c \in Calls, Subscribed(c) PROVE OneRenewer'
  BY <1>18 DEF Subscribed, Move
<1>19. ASSUME NEW c \in Calls, CancelDelivered(c) PROVE OneRenewer'
  BY <1>19 DEF CancelDelivered
<1>20. ASSUME NEW c \in Calls, FetchFails(c) PROVE OneRenewer'
  BY <1>20 DEF FetchFails, Spend
<1>21. ASSUME NEW c \in Calls, CreateFails(c) PROVE OneRenewer'
  BY <1>21 DEF CreateFails, Move, Spend
<1>22. ASSUME NEW c \in Calls, RenewFails(c) PROVE OneRenewer'
  BY <1>22 DEF RenewFails, Move, Spend
<1>23. ASSUME NEW c \in Calls, RenewCrashes(c) PROVE OneRenewer'
  BY <1>23 DEF RenewCrashes, Move, Spend
<1>24. ASSUME NEW c \in Calls, AnswerPost(c) PROVE OneRenewer'
  BY <1>24 DEF AnswerPost, Answer
<1>25. ASSUME NEW c \in Calls, AnswerDelete(c) PROVE OneRenewer'
  BY <1>25 DEF AnswerDelete, Answer, Keepers
<1>26. ASSUME NEW c \in Calls, DeleteFails(c) PROVE OneRenewer'
  BY <1>26 DEF DeleteFails, Answer, Spend
<1>27. CASE UNCHANGED vars
  BY <1>27 DEF vars
<1>. QED
  BY <1>1, <1>2, <1>3, <1>4, <1>5, <1>6, <1>7, <1>8, <1>9, <1>10, <1>11, <1>12,
     <1>13, <1>14, <1>15, <1>16, <1>17, <1>18, <1>19, <1>20, <1>21, <1>22, <1>23,
     <1>24, <1>25, <1>26, <1>27
  DEF Next, ServiceStep, RenewerStep

\* However many calls of create_subscription are awaiting their configuration
\* at once, the renewers that work are the registered one and cancelled ones.
THEOREM OneRenewerHolds == Spec => []OneRenewer
<1>1. Init => OneRenewer
  BY DEF Init, OneRenewer, Live
<1>. QED  BY <1>1, TeamsTypeCorrect, RenewerOnce, PTL DEF Spec

-----------------------------------------------------------------------------
\* Sequences of events: the last one stays last while others are handled.
LEMMA LastStays ==
    ASSUME NEW S, NEW q \in Seq(S), q # <<>>
    PROVE  /\ Tail(q) # <<>> => Tail(q)[Len(Tail(q))] = q[Len(q)]
           /\ Tail(q) = <<>> => Head(q) = q[Len(q)]
<1>1. Len(q) \in Nat /\ Len(q) # 0 /\ Tail(q) \in Seq(S)
  OBVIOUS
<1>2. Len(Tail(q)) = Len(q) - 1
  BY <1>1
<1>3. CASE Len(q) = 1
  <2>1. Len(Tail(q)) = 0
    BY <1>2, <1>3
  <2>2. Tail(q) = <<>>
    BY <1>1, <2>1, EmptySeq
  <2>3. Head(q) = q[1]
    OBVIOUS
  <2>. QED  BY <1>3, <2>2, <2>3
<1>4. CASE Len(q) # 1
  <2>0. \A n \in Nat : n # 0 /\ n # 1 => n - 1 \in Nat /\ n - 1 \in 1 .. n - 1 /\ n - 1 + 1 = n
    OBVIOUS
  <2>1. Len(q) - 1 \in Nat /\ Len(q) - 1 \in 1 .. Len(q) - 1 /\ Len(q) - 1 + 1 = Len(q)
    BY <1>1, <1>4, <2>0
  <2>2. Tail(q)[Len(q) - 1] = q[Len(q) - 1 + 1]
    BY <1>1, <1>2, <2>1
  <2>3. Tail(q) # <<>>
    <3>1. Len(q) - 1 # 0
      BY <1>1, <1>4
    <3>. QED  BY <1>2, <3>1, EmptySeq
  <2>. QED  BY <1>2, <2>1, <2>2, <2>3
<1>. QED  BY <1>3, <1>4

\* The last event on its way says whether the account is connected.
LastTells == inbox # <<>> => (inbox[Len(inbox)] = "added" <=> connected)

\* A renewer that keeps a subscription is registered under it, unless the
\* subscription was deleted by another renewer.
KeepersHold ==
    \A c \in Calls :
        stage[c] \in {"created", "found", "notify", "renew"} =>
          (subscription # None /\ held[c] = subscription) \/ c \in robbed

\* The registered renewer has not been cancelled, and works unless it failed.
RegisteredWorks ==
    /\ synchronizer # None =>
         /\ synchronizer \notin cancelled
         /\ Live(synchronizer) \/ synchronizer \in failed
         /\ stage[synchronizer] \notin {"idle", "fetch", "fetched"}
    /\ \A c \in cancelled : stage[c] \notin {"idle", "fetch", "fetched"}

\* When every event has been handled: an account that is gone keeps only what
\* an overtaken creation left, and one that is connected is being followed.
Handled ==
    inbox = <<>> =>
      IF connected
      THEN \/ synchronizer # None
           \/ missed
           \/ listing # "over"
           \/ \E c \in Calls : stage[c] \in {"fetch", "fetched"}
      ELSE /\ synchronizer \in overtaken \cup {None}
           /\ \A c \in Calls : stage[c] = "fetched" => c \in overtaken

SettledInv == LastTells /\ KeepersHold /\ RegisteredWorks /\ Handled

\* What Settled rests on, in four lemmas, one per part: no step breaks it.
LEMMA LastTellsStep == TypeOK /\ LastTells /\ [Next]_vars => LastTells'
<1> SUFFICES ASSUME TypeOK, LastTells, [Next]_vars PROVE LastTells'
  OBVIOUS
<1>0. inbox # <<>> =>
        /\ (Tail(inbox) # <<>> => Tail(inbox)[Len(Tail(inbox))] = inbox[Len(inbox)])
        /\ (Tail(inbox) = <<>> => Head(inbox) = inbox[Len(inbox)])
  BY LastStays DEF TypeOK
<1> USE DEF TypeOK, LastTells, loop, renewers, microsoft, history
<1>1. CASE Connect
  BY <1>1 DEF Connect
<1>2. CASE Disconnect
  BY <1>2 DEF Disconnect
<1>3. CASE ListConnected
  BY <1>3 DEF ListConnected
<1>4. CASE ListFails
  BY <1>4 DEF ListFails, Spend
<1>5. CASE OnExternalAuthDeleted
  BY <1>5, <1>0 DEF OnExternalAuthDeleted
<1>6. CASE Expire
  BY <1>6 DEF Expire
<1>7. CASE LoseDatabase
  BY <1>7 DEF LoseDatabase, Spend
<1>8. CASE Restart
  BY <1>8 DEF Restart, Spend
<1>9. ASSUME NEW c \in Calls, CreateListed(c) PROVE LastTells'
  BY <1>9 DEF CreateListed, Begin
<1>10. ASSUME NEW c \in Calls, OnExternalAuthAdded(c) PROVE LastTells'
  BY <1>10, <1>0 DEF OnExternalAuthAdded
<1>11. ASSUME NEW c \in Calls, FetchConfiguration(c) PROVE LastTells'
  BY <1>11 DEF FetchConfiguration
<1>12. ASSUME NEW c \in Calls, FetchRefused(c) PROVE LastTells'
  BY <1>12 DEF FetchRefused
<1>13. ASSUME NEW c \in Calls, Register(c) PROVE LastTells'
  BY <1>13 DEF Register
<1>14. ASSUME NEW c \in Calls, StartRun(c) PROVE LastTells'
  BY <1>14 DEF StartRun, Move
<1>15. ASSUME NEW c \in Calls, FindSubscription(c) PROVE LastTells'
  BY <1>15 DEF FindSubscription, Move
<1>16. ASSUME NEW c \in Calls, FindNothing(c) PROVE LastTells'
  BY <1>16 DEF FindNothing, Move
<1>17. ASSUME NEW c \in Calls, CreateReturns(c) PROVE LastTells'
  BY <1>17 DEF CreateReturns, Move
<1>18. ASSUME NEW c \in Calls, Subscribed(c) PROVE LastTells'
  BY <1>18 DEF Subscribed, Move
<1>19. ASSUME NEW c \in Calls, CancelDelivered(c) PROVE LastTells'
  BY <1>19 DEF CancelDelivered
<1>20. ASSUME NEW c \in Calls, FetchFails(c) PROVE LastTells'
  BY <1>20 DEF FetchFails, Spend
<1>21. ASSUME NEW c \in Calls, CreateFails(c) PROVE LastTells'
  BY <1>21 DEF CreateFails, Move, Spend
<1>22. ASSUME NEW c \in Calls, RenewFails(c) PROVE LastTells'
  BY <1>22 DEF RenewFails, Move, Spend
<1>23. ASSUME NEW c \in Calls, RenewCrashes(c) PROVE LastTells'
  BY <1>23 DEF RenewCrashes, Move, Spend
<1>24. ASSUME NEW c \in Calls, AnswerPost(c) PROVE LastTells'
  BY <1>24 DEF AnswerPost, Answer
<1>25. ASSUME NEW c \in Calls, AnswerDelete(c) PROVE LastTells'
  BY <1>25 DEF AnswerDelete, Answer, Keepers
<1>26. ASSUME NEW c \in Calls, DeleteFails(c) PROVE LastTells'
  BY <1>26 DEF DeleteFails, Answer, Spend
<1>27. CASE UNCHANGED vars
  BY <1>27 DEF vars
<1>. QED
  BY <1>1, <1>2, <1>3, <1>4, <1>5, <1>6, <1>7, <1>8, <1>9, <1>10, <1>11, <1>12,
     <1>13, <1>14, <1>15, <1>16, <1>17, <1>18, <1>19, <1>20, <1>21, <1>22, <1>23,
     <1>24, <1>25, <1>26, <1>27
  DEF Next, ServiceStep, RenewerStep

\* No step leaves a renewer with a subscription that is not there, unless
\* another renewer deleted it.
LEMMA KeepersStep == TypeOK /\ KeepersHold /\ [Next]_vars => KeepersHold'
<1> SUFFICES ASSUME TypeOK, KeepersHold, [Next]_vars PROVE KeepersHold'
  OBVIOUS
<1> USE DEF TypeOK, KeepersHold, Keepers, Idle, Post, Delete, loop, renewers, microsoft, history
<1>1. CASE Connect
  BY <1>1 DEF Connect
<1>2. CASE Disconnect
  BY <1>2 DEF Disconnect
<1>3. CASE ListConnected
  BY <1>3 DEF ListConnected
<1>4. CASE ListFails
  BY <1>4 DEF ListFails, Spend
<1>5. CASE OnExternalAuthDeleted
  BY <1>5 DEF OnExternalAuthDeleted
<1>6. CASE Expire
  BY <1>6 DEF Expire
<1>7. CASE LoseDatabase
  BY <1>7 DEF LoseDatabase, Spend
<1>8. CASE Restart
  BY <1>8 DEF Restart, Spend
<1>9. ASSUME NEW c \in Calls, CreateListed(c) PROVE KeepersHold'
  BY <1>9 DEF CreateListed, Begin
<1>10. ASSUME NEW c \in Calls, OnExternalAuthAdded(c) PROVE KeepersHold'
  BY <1>10 DEF OnExternalAuthAdded, Begin
<1>11. ASSUME NEW c \in Calls, FetchConfiguration(c) PROVE KeepersHold'
  BY <1>11 DEF FetchConfiguration
<1>12. ASSUME NEW c \in Calls, FetchRefused(c) PROVE KeepersHold'
  BY <1>12 DEF FetchRefused
<1>13. ASSUME NEW c \in Calls, Register(c) PROVE KeepersHold'
  BY <1>13 DEF Register
<1>14. ASSUME NEW c \in Calls, StartRun(c) PROVE KeepersHold'
  BY <1>14 DEF StartRun, Move
<1>15. ASSUME NEW c \in Calls, FindSubscription(c) PROVE KeepersHold'
  BY <1>15 DEF FindSubscription, Move
<1>16. ASSUME NEW c \in Calls, FindNothing(c) PROVE KeepersHold'
  BY <1>16 DEF FindNothing, Move
<1>17. ASSUME NEW c \in Calls, CreateReturns(c) PROVE KeepersHold'
  BY <1>17 DEF CreateReturns, Move
<1>18. ASSUME NEW c \in Calls, Subscribed(c) PROVE KeepersHold'
  BY <1>18 DEF Subscribed, Move
<1>19. ASSUME NEW c \in Calls, CancelDelivered(c) PROVE KeepersHold'
  BY <1>19 DEF CancelDelivered
<1>20. ASSUME NEW c \in Calls, FetchFails(c) PROVE KeepersHold'
  BY <1>20 DEF FetchFails, Spend
<1>21. ASSUME NEW c \in Calls, CreateFails(c) PROVE KeepersHold'
  BY <1>21 DEF CreateFails, Move, Spend
<1>22. ASSUME NEW c \in Calls, RenewFails(c) PROVE KeepersHold'
  BY <1>22 DEF RenewFails, Move, Spend
<1>23. ASSUME NEW c \in Calls, RenewCrashes(c) PROVE KeepersHold'
  BY <1>23 DEF RenewCrashes, Move, Spend
<1>24. ASSUME NEW c \in Calls, AnswerPost(c) PROVE KeepersHold'
  BY <1>24 DEF AnswerPost, Answer
<1>25. ASSUME NEW c \in Calls, AnswerDelete(c) PROVE KeepersHold'
  BY <1>25 DEF AnswerDelete, Answer, Keepers
<1>26. ASSUME NEW c \in Calls, DeleteFails(c) PROVE KeepersHold'
  BY <1>26 DEF DeleteFails, Answer, Spend
<1>27. CASE UNCHANGED vars
  BY <1>27 DEF vars
<1>. QED
  BY <1>1, <1>2, <1>3, <1>4, <1>5, <1>6, <1>7, <1>8, <1>9, <1>10, <1>11, <1>12,
     <1>13, <1>14, <1>15, <1>16, <1>17, <1>18, <1>19, <1>20, <1>21, <1>22, <1>23,
     <1>24, <1>25, <1>26, <1>27
  DEF Next, ServiceStep, RenewerStep

\* No step ends the registered renewer but an error or its cancellation, which
\* takes the registration away.
LEMMA RegisteredStep == TypeOK /\ RegisteredWorks /\ [Next]_vars => RegisteredWorks'
<1> SUFFICES ASSUME TypeOK, RegisteredWorks, [Next]_vars PROVE RegisteredWorks'
  OBVIOUS
<1> USE DEF TypeOK, RegisteredWorks, Live, Idle, Post, Delete, loop, renewers, microsoft, history
<1>1. CASE Connect
  BY <1>1 DEF Connect
<1>2. CASE Disconnect
  BY <1>2 DEF Disconnect
<1>3. CASE ListConnected
  BY <1>3 DEF ListConnected
<1>4. CASE ListFails
  BY <1>4 DEF ListFails, Spend
<1>5. CASE OnExternalAuthDeleted
  BY <1>5 DEF OnExternalAuthDeleted
<1>6. CASE Expire
  BY <1>6 DEF Expire
<1>7. CASE LoseDatabase
  BY <1>7 DEF LoseDatabase, Spend
<1>8. CASE Restart
  BY <1>8 DEF Restart, Spend
<1>9. ASSUME NEW c \in Calls, CreateListed(c) PROVE RegisteredWorks'
  BY <1>9 DEF CreateListed, Begin
<1>10. ASSUME NEW c \in Calls, OnExternalAuthAdded(c) PROVE RegisteredWorks'
  BY <1>10 DEF OnExternalAuthAdded, Begin
<1>11. ASSUME NEW c \in Calls, FetchConfiguration(c) PROVE RegisteredWorks'
  BY <1>11 DEF FetchConfiguration
<1>12. ASSUME NEW c \in Calls, FetchRefused(c) PROVE RegisteredWorks'
  BY <1>12 DEF FetchRefused
<1>13. ASSUME NEW c \in Calls, Register(c) PROVE RegisteredWorks'
  BY <1>13 DEF Register
<1>14. ASSUME NEW c \in Calls, StartRun(c) PROVE RegisteredWorks'
  BY <1>14 DEF StartRun, Move
<1>15. ASSUME NEW c \in Calls, FindSubscription(c) PROVE RegisteredWorks'
  BY <1>15 DEF FindSubscription, Move
<1>16. ASSUME NEW c \in Calls, FindNothing(c) PROVE RegisteredWorks'
  BY <1>16 DEF FindNothing, Move
<1>17. ASSUME NEW c \in Calls, CreateReturns(c) PROVE RegisteredWorks'
  BY <1>17 DEF CreateReturns, Move
<1>18. ASSUME NEW c \in Calls, Subscribed(c) PROVE RegisteredWorks'
  BY <1>18 DEF Subscribed, Move
<1>19. ASSUME NEW c \in Calls, CancelDelivered(c) PROVE RegisteredWorks'
  BY <1>19 DEF CancelDelivered
<1>20. ASSUME NEW c \in Calls, FetchFails(c) PROVE RegisteredWorks'
  BY <1>20 DEF FetchFails, Spend
<1>21. ASSUME NEW c \in Calls, CreateFails(c) PROVE RegisteredWorks'
  BY <1>21 DEF CreateFails, Move, Spend
<1>22. ASSUME NEW c \in Calls, RenewFails(c) PROVE RegisteredWorks'
  BY <1>22 DEF RenewFails, Move, Spend
<1>23. ASSUME NEW c \in Calls, RenewCrashes(c) PROVE RegisteredWorks'
  BY <1>23 DEF RenewCrashes, Move, Spend
<1>24. ASSUME NEW c \in Calls, AnswerPost(c) PROVE RegisteredWorks'
  BY <1>24 DEF AnswerPost, Answer
<1>25. ASSUME NEW c \in Calls, AnswerDelete(c) PROVE RegisteredWorks'
  BY <1>25 DEF AnswerDelete, Answer, Keepers
<1>26. ASSUME NEW c \in Calls, DeleteFails(c) PROVE RegisteredWorks'
  BY <1>26 DEF DeleteFails, Answer, Spend
<1>27. CASE UNCHANGED vars
  BY <1>27 DEF vars
<1>. QED
  BY <1>1, <1>2, <1>3, <1>4, <1>5, <1>6, <1>7, <1>8, <1>9, <1>10, <1>11, <1>12,
     <1>13, <1>14, <1>15, <1>16, <1>17, <1>18, <1>19, <1>20, <1>21, <1>22, <1>23,
     <1>24, <1>25, <1>26, <1>27
  DEF Next, ServiceStep, RenewerStep

\* No step handles the last event and leaves nothing behind it.
LEMMA HandledStep == TypeOK /\ LastTells /\ Handled /\ [Next]_vars => Handled'
<1> SUFFICES ASSUME TypeOK, LastTells, Handled, [Next]_vars PROVE Handled'
  OBVIOUS
<1>0. inbox # <<>> => (Tail(inbox) = <<>> => Head(inbox) = inbox[Len(inbox)])
  BY LastStays DEF TypeOK
<1> USE DEF TypeOK, LastTells, Handled, Idle, Post, Delete, loop, renewers, microsoft, history
<1>1. CASE Connect
  BY <1>1 DEF Connect
<1>2. CASE Disconnect
  BY <1>2 DEF Disconnect
<1>3. CASE ListConnected
  BY <1>3 DEF ListConnected
<1>4. CASE ListFails
  BY <1>4 DEF ListFails, Spend
<1>5. CASE OnExternalAuthDeleted
  BY <1>5, <1>0 DEF OnExternalAuthDeleted
<1>6. CASE Expire
  BY <1>6 DEF Expire
<1>7. CASE LoseDatabase
  BY <1>7 DEF LoseDatabase, Spend
<1>8. CASE Restart
  BY <1>8 DEF Restart, Spend
<1>9. ASSUME NEW c \in Calls, CreateListed(c) PROVE Handled'
  BY <1>9 DEF CreateListed, Begin
<1>10. ASSUME NEW c \in Calls, OnExternalAuthAdded(c) PROVE Handled'
  BY <1>10, <1>0 DEF OnExternalAuthAdded, Begin
<1>11. ASSUME NEW c \in Calls, FetchConfiguration(c) PROVE Handled'
  BY <1>11 DEF FetchConfiguration
<1>12. ASSUME NEW c \in Calls, FetchRefused(c) PROVE Handled'
  BY <1>12 DEF FetchRefused
<1>13. ASSUME NEW c \in Calls, Register(c) PROVE Handled'
  BY <1>13 DEF Register
<1>14. ASSUME NEW c \in Calls, StartRun(c) PROVE Handled'
  BY <1>14 DEF StartRun, Move
<1>15. ASSUME NEW c \in Calls, FindSubscription(c) PROVE Handled'
  BY <1>15 DEF FindSubscription, Move
<1>16. ASSUME NEW c \in Calls, FindNothing(c) PROVE Handled'
  BY <1>16 DEF FindNothing, Move
<1>17. ASSUME NEW c \in Calls, CreateReturns(c) PROVE Handled'
  BY <1>17 DEF CreateReturns, Move
<1>18. ASSUME NEW c \in Calls, Subscribed(c) PROVE Handled'
  BY <1>18 DEF Subscribed, Move
<1>19. ASSUME NEW c \in Calls, CancelDelivered(c) PROVE Handled'
  <2>1. UNCHANGED <<connected, inbox, synchronizer, missed, listing, overtaken>>
    BY <1>19 DEF CancelDelivered
  <2>2. stage[c] \notin {"fetch", "fetched"} /\ stage'[c] \notin {"fetch", "fetched"}
    BY <1>19 DEF CancelDelivered, Live
  <2>3. \A d \in Calls : d # c => stage'[d] = stage[d]
    BY <1>19 DEF CancelDelivered
  <2>. QED  BY <2>1, <2>2, <2>3
<1>20. ASSUME NEW c \in Calls, FetchFails(c) PROVE Handled'
  BY <1>20 DEF FetchFails, Spend
<1>21. ASSUME NEW c \in Calls, CreateFails(c) PROVE Handled'
  BY <1>21 DEF CreateFails, Move, Spend
<1>22. ASSUME NEW c \in Calls, RenewFails(c) PROVE Handled'
  BY <1>22 DEF RenewFails, Move, Spend
<1>23. ASSUME NEW c \in Calls, RenewCrashes(c) PROVE Handled'
  BY <1>23 DEF RenewCrashes, Move, Spend
<1>24. ASSUME NEW c \in Calls, AnswerPost(c) PROVE Handled'
  BY <1>24 DEF AnswerPost, Answer
<1>25. ASSUME NEW c \in Calls, AnswerDelete(c) PROVE Handled'
  BY <1>25 DEF AnswerDelete, Answer, Keepers
<1>26. ASSUME NEW c \in Calls, DeleteFails(c) PROVE Handled'
  BY <1>26 DEF DeleteFails, Answer, Spend
<1>27. CASE UNCHANGED vars
  BY <1>27 DEF vars
<1>. QED
  BY <1>1, <1>2, <1>3, <1>4, <1>5, <1>6, <1>7, <1>8, <1>9, <1>10, <1>11, <1>12,
     <1>13, <1>14, <1>15, <1>16, <1>17, <1>18, <1>19, <1>20, <1>21, <1>22, <1>23,
     <1>24, <1>25, <1>26, <1>27
  DEF Next, ServiceStep, RenewerStep

\* Once everything has settled the presence of the user is followed exactly
\* while the account is connected, but for the failures Settled names, for any
\* number of connections, calls and faults.
THEOREM SettledHolds == Spec => []Settled
<1>1. Init => SettledInv
  BY DEF Init, SettledInv, LastTells, KeepersHold, RegisteredWorks, Handled
<1>2. TypeOK /\ SettledInv /\ [Next]_vars => SettledInv'
  BY LastTellsStep, KeepersStep, RegisteredStep, HandledStep DEF SettledInv
<1>3. TypeOK /\ SettledInv /\ OneRenewer => Settled
  BY DEF TypeOK, SettledInv, KeepersHold, RegisteredWorks, Handled, OneRenewer, Settled, Quiet,
         Followed, Live
<1>. QED  BY <1>1, <1>2, <1>3, TeamsTypeCorrect, OneRenewerHolds, PTL DEF Spec
=============================================================================
