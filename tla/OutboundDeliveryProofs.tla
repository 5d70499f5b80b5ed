---------------------- MODULE OutboundDeliveryProofs ----------------------
(***************************************************************************)
(* Theorems about OutboundDelivery, for every set of deliveries and        *)
(* reports, every limit and every number of faults.                        *)
(***************************************************************************)
EXTENDS OutboundDelivery, TLAPS

USE OutboundAssumption

\* Every step of the runner, its tasks and the reports keeps every variable
\* in its type.
LEMMA TypeStep == TypeOK /\ [Next]_vars => TypeOK'
<1> SUFFICES ASSUME TypeOK, [Next]_vars PROVE TypeOK'
  OBVIOUS
<1> USE DEF TypeOK, Report, Reported, Status, RunnerState, Outcome, TaskState,
            ReportState, FaultKinds, row, backend, loop, work, reporting, uncommitted, history
<1>1. TypeOK'
  <2>1. CASE StartRunner
    BY <2>1 DEF StartRunner
  <2>2. CASE ConnectAndListen
    BY <2>2 DEF ConnectAndListen
  <2>3. CASE RecoverScan
    BY <2>3 DEF RecoverScan
  <2>4. CASE RecoverFails
    BY <2>4 DEF RecoverFails, Spend, Recoverable
  <2>5. CASE RecoverEnqueue
    BY <2>5 DEF RecoverEnqueue, Schedule
  <2>6. CASE LinkLost
    BY <2>6 DEF LinkLost, Spend
  <2>7. CASE MonitorFails
    BY <2>7 DEF MonitorFails
  <2>8. CASE RunnerFails
    BY <2>8 DEF RunnerFails, Spend, Running
  <2>9. CASE RunnerStops
    BY <2>9 DEF RunnerStops
  <2>10. CASE Crash
    BY <2>10 DEF Crash, Spend
  <2>11. ASSUME NEW S \in SUBSET Deliveries, PreparePendingDelivery(S) PROVE TypeOK'
    BY <2>11 DEF PreparePendingDelivery
  <2>12. ASSUME NEW S \in SUBSET Deliveries, OnDeliveryNotify(S) PROVE TypeOK'
    BY <2>12 DEF OnDeliveryNotify, Schedule
  <2>13. ASSUME NEW d \in Deliveries, DeleteDelivery(d) PROVE TypeOK'
    BY <2>13 DEF DeleteDelivery
  <2>14. ASSUME NEW d \in Deliveries, TimerFires(d) PROVE TypeOK'
    BY <2>14 DEF TimerFires, Schedule
  <2>15. ASSUME NEW d \in Deliveries, ClaimDelivery(d) PROVE TypeOK'
    BY <2>15 DEF ClaimDelivery
  <2>16. ASSUME NEW d \in Deliveries, SkipDelivery(d) PROVE TypeOK'
    BY <2>16 DEF SkipDelivery
  <2>17. ASSUME NEW d \in Deliveries, DeadLetter(d) PROVE TypeOK'
    BY <2>17 DEF DeadLetter, Flush, Inserted
  <2>18. ASSUME NEW d \in Deliveries, AuthUnavailable(d) PROVE TypeOK'
    BY <2>18 DEF AuthUnavailable, RecordSendFailure, Flush, Inserted
  <2>19. ASSUME NEW d \in Deliveries, StartSend(d) PROVE TypeOK'
    BY <2>19 DEF StartSend
  <2>20. ASSUME NEW d \in Deliveries, ProviderAccepts(d) PROVE TypeOK'
    BY <2>20 DEF ProviderAccepts
  <2>21. ASSUME NEW d \in Deliveries, SendReturns(d) PROVE TypeOK'
    <3>1. acks' \in [Deliveries -> 0 .. 2]
      <4>1. acks[d] \in 0 .. 2 /\ (acks[d] # 2 => acks[d] + 1 \in 0 .. 2)
        OBVIOUS
      <4>. QED  BY <2>21, <4>1 DEF SendReturns
    <3>2. task' \in [Deliveries -> TaskState]
      BY <2>21 DEF SendReturns, Flush
    <3>3. older' \in [Deliveries \cup Reports -> SUBSET Reports]
      BY <2>21 DEF SendReturns, Flush, Inserted
    <3>. QED  BY <2>21, <3>1, <3>2, <3>3 DEF SendReturns
  <2>22. ASSUME NEW d \in Deliveries, SendFails(d) PROVE TypeOK'
    BY <2>22 DEF SendFails, RecordSendFailure, Flush, Inserted
  <2>23. ASSUME NEW d \in Deliveries, CommitDelivery(d) PROVE TypeOK'
    BY <2>23 DEF CommitDelivery, RecordStatus
  <2>24. ASSUME NEW d \in Deliveries, ArmRetry(d) PROVE TypeOK'
    BY <2>24 DEF ArmRetry
  <2>25. ASSUME NEW d \in Deliveries, ProcessFails(d) PROVE TypeOK'
    BY <2>25 DEF ProcessFails, Spend, Locked
  <2>26. ASSUME NEW r \in Reports, ReceiveReport(r) PROVE TypeOK'
    BY <2>26 DEF ReceiveReport
  <2>27. ASSUME NEW r \in Reports, ReadReport(r) PROVE TypeOK'
    BY <2>27 DEF ReadReport
  <2>28. ASSUME NEW r \in Reports, InsertRecord(r) PROVE TypeOK'
    BY <2>28 DEF InsertRecord, Inserted
  <2>29. ASSUME NEW r \in Reports, UnblockReport(r) PROVE TypeOK'
    BY <2>29 DEF UnblockReport
  <2>30. ASSUME NEW r \in Reports, CommitReport(r) PROVE TypeOK'
    BY <2>30 DEF CommitReport
  <2>31. ASSUME NEW r \in Reports, InsertFails(r) PROVE TypeOK'
    <3>1. attempt' \in [Reports -> 0 .. INBOUND_MAX_RETRIES]
      <4>1. attempt[r] \in 0 .. INBOUND_MAX_RETRIES
        OBVIOUS
      <4>2. MayRetry(r) => attempt[r] + 1 \in 0 .. INBOUND_MAX_RETRIES
        BY <4>1 DEF MayRetry
      <4>. QED  BY <2>31, <4>1, <4>2 DEF InsertFails, RollBackReport
    <3>2. faults' \in [FaultKinds -> Nat]
      <4>1. UNCHANGED faults \/ Spend("report")
        BY <2>31 DEF InsertFails
      <4>2. ASSUME Spend("report") PROVE faults' \in [FaultKinds -> Nat]
        BY <4>2 DEF Spend
      <4>. QED  BY <4>1, <4>2
    <3>3. report' \in [Reports -> ReportState]
      <4>1. \/ report' = [report EXCEPT ![r] = "waiting"]
            \/ report' = [report EXCEPT ![r] = "done"]
        BY <2>31 DEF InsertFails, RollBackReport
      <4>. QED  BY <4>1
    <3>4. /\ older' \in [Deliveries \cup Reports -> SUBSET Reports]
          /\ stale' \subseteq Reports
      BY <2>31 DEF InsertFails, RollBackReport
    <3>. QED  BY <2>31, <3>1, <3>2, <3>3, <3>4 DEF InsertFails
  <2>32. ASSUME NEW r \in Reports, CommitReportFails(r) PROVE TypeOK'
    BY <2>32 DEF CommitReportFails, RollBackReport, Spend
  <2>33. CASE UNCHANGED vars
    BY <2>33 DEF vars
  <2>. QED
    BY <2>1, <2>2, <2>3, <2>4, <2>5, <2>6, <2>7, <2>8, <2>9, <2>10, <2>11,
       <2>12, <2>13, <2>14, <2>15, <2>16, <2>17, <2>18, <2>19, <2>20, <2>21, <2>22,
       <2>23, <2>24, <2>25, <2>26, <2>27, <2>28, <2>29, <2>30, <2>31, <2>32, <2>33
    DEF Next, ListenerStep, TaskStep, ReportStep
<1>. QED  BY <1>1

\* Type correctness: in every reachable state each variable has its type; in
\* particular no path of _record_send_failure and no commit invents a status.
THEOREM TypeCorrect == Spec => []TypeOK
<1>1. Init => TypeOK
  BY DEF Init, TypeOK, Status, RunnerState, TaskState, ReportState
<1>. QED  BY <1>1, TypeStep, PTL DEF Spec

-----------------------------------------------------------------------------
\* Every step keeps each PENDING or RETRYING delivery in hand, or records
\* that an error path let go of it.
LEMMA CustodyStep == TypeOK /\ Custody /\ [Next]_vars => Custody'
<1> SUFFICES ASSUME TypeOK, Custody, [Next]_vars PROVE Custody'
  OBVIOUS
<1> USE DEF TypeOK, Custody, InHand, Recoverable, Outcome, row, backend, loop, work, reporting,
            uncommitted, history
<1>1. Custody'
  <2>1. CASE StartRunner
    BY <2>1 DEF StartRunner
  <2>2. CASE ConnectAndListen
    BY <2>2 DEF ConnectAndListen
  <2>3. CASE RecoverScan
    BY <2>3 DEF RecoverScan
  <2>4. CASE RecoverFails
    BY <2>4 DEF RecoverFails, Spend, Recoverable
  <2>5. CASE RecoverEnqueue
    BY <2>5 DEF RecoverEnqueue, Schedule
  <2>6. CASE LinkLost
    BY <2>6 DEF LinkLost, Spend
  <2>7. CASE MonitorFails
    BY <2>7 DEF MonitorFails
  <2>8. CASE RunnerFails
    BY <2>8 DEF RunnerFails, Spend, Running
  <2>9. CASE RunnerStops
    BY <2>9 DEF RunnerStops
  <2>10. CASE Crash
    BY <2>10 DEF Crash, Spend
  <2>11. ASSUME NEW S \in SUBSET Deliveries, PreparePendingDelivery(S) PROVE Custody'
    BY <2>11 DEF PreparePendingDelivery
  <2>12. ASSUME NEW S \in SUBSET Deliveries, OnDeliveryNotify(S) PROVE Custody'
    BY <2>12 DEF OnDeliveryNotify, Schedule
  <2>13. ASSUME NEW d \in Deliveries, DeleteDelivery(d) PROVE Custody'
    BY <2>13 DEF DeleteDelivery
  <2>14. ASSUME NEW d \in Deliveries, TimerFires(d) PROVE Custody'
    BY <2>14 DEF TimerFires, Schedule
  <2>15. ASSUME NEW d \in Deliveries, ClaimDelivery(d) PROVE Custody'
    BY <2>15 DEF ClaimDelivery
  <2>16. ASSUME NEW d \in Deliveries, SkipDelivery(d) PROVE Custody'
    BY <2>16 DEF SkipDelivery
  <2>17. ASSUME NEW d \in Deliveries, DeadLetter(d) PROVE Custody'
    BY <2>17 DEF DeadLetter, Flush, Inserted
  <2>18. ASSUME NEW d \in Deliveries, AuthUnavailable(d) PROVE Custody'
    BY <2>18 DEF AuthUnavailable, RecordSendFailure, Flush, Inserted
  <2>19. ASSUME NEW d \in Deliveries, StartSend(d) PROVE Custody'
    BY <2>19 DEF StartSend
  <2>20. ASSUME NEW d \in Deliveries, ProviderAccepts(d) PROVE Custody'
    BY <2>20 DEF ProviderAccepts
  <2>21. ASSUME NEW d \in Deliveries, SendReturns(d) PROVE Custody'
    BY <2>21 DEF SendReturns, Flush, Inserted
  <2>22. ASSUME NEW d \in Deliveries, SendFails(d) PROVE Custody'
    BY <2>22 DEF SendFails, RecordSendFailure, Flush, Inserted
  <2>23. ASSUME NEW d \in Deliveries, CommitDelivery(d) PROVE Custody'
    BY <2>23 DEF CommitDelivery, RecordStatus
  <2>24. ASSUME NEW d \in Deliveries, ArmRetry(d) PROVE Custody'
    BY <2>24 DEF ArmRetry
  <2>25. ASSUME NEW d \in Deliveries, ProcessFails(d) PROVE Custody'
    BY <2>25 DEF ProcessFails, Spend, Locked
  <2>26. ASSUME NEW r \in Reports, ReceiveReport(r) PROVE Custody'
    BY <2>26 DEF ReceiveReport
  <2>27. ASSUME NEW r \in Reports, ReadReport(r) PROVE Custody'
    BY <2>27 DEF ReadReport
  <2>28. ASSUME NEW r \in Reports, InsertRecord(r) PROVE Custody'
    BY <2>28 DEF InsertRecord, Inserted
  <2>29. ASSUME NEW r \in Reports, UnblockReport(r) PROVE Custody'
    BY <2>29 DEF UnblockReport
  <2>30. ASSUME NEW r \in Reports, CommitReport(r) PROVE Custody'
    <3>1. r.delivery \in Deliveries /\ r.status \in {"sent", "delivered", "failed"}
      BY DEF Report, Reported
    <3>. QED  BY <2>30, <3>1 DEF CommitReport
  <2>31. ASSUME NEW r \in Reports, InsertFails(r) PROVE Custody'
    BY <2>31 DEF InsertFails, RollBackReport, MayRetry, Spend
  <2>32. ASSUME NEW r \in Reports, CommitReportFails(r) PROVE Custody'
    BY <2>32 DEF CommitReportFails, RollBackReport, Spend
  <2>33. CASE UNCHANGED vars
    BY <2>33 DEF vars
  <2>. QED
    BY <2>1, <2>2, <2>3, <2>4, <2>5, <2>6, <2>7, <2>8, <2>9, <2>10, <2>11,
       <2>12, <2>13, <2>14, <2>15, <2>16, <2>17, <2>18, <2>19, <2>20, <2>21, <2>22,
       <2>23, <2>24, <2>25, <2>26, <2>27, <2>28, <2>29, <2>30, <2>31, <2>32, <2>33
    DEF Next, ListenerStep, TaskStep, ReportStep
<1>. QED  BY <1>1

\* Custody holds in every behaviour: whatever the interleaving of commits,
\* NOTIFYs, connection losses, scans, restarts and crashes, a PENDING or
\* RETRYING delivery is held by a task, a timer, a payload or a scan to come,
\* or has been let go of by a logged error path.
THEOREM CustodyHolds == Spec => []Custody
<1>1. Init => Custody
  BY DEF Init, Custody, InHand, Recoverable
<1>. QED  BY <1>1, TypeCorrect, CustodyStep, PTL DEF Spec

-----------------------------------------------------------------------------
\* No step leaves a RETRYING delivery outside its retry budget: a task that
\* has flushed a RETRYING record has room for one retry more.
RetryRoom ==
    /\ RetryBudget
    /\ \A d \in Deliveries : task[d] = "retrying" => retryCount[d] + 1 <= OUTBOUND_MAX_RETRIES

LEMMA RetryStep == TypeOK /\ RetryRoom /\ [Next]_vars => RetryRoom'
<1> SUFFICES ASSUME TypeOK, RetryRoom, [Next]_vars PROVE RetryRoom'
  OBVIOUS
<1> USE DEF TypeOK, RetryRoom, RetryBudget, Outcome, Report, Reported, row, backend, loop, work,
            reporting, uncommitted, history
<1>1. RetryRoom'
  <2>1. CASE StartRunner
    BY <2>1 DEF StartRunner
  <2>2. CASE ConnectAndListen
    BY <2>2 DEF ConnectAndListen
  <2>3. CASE RecoverScan
    BY <2>3 DEF RecoverScan
  <2>4. CASE RecoverFails
    BY <2>4 DEF RecoverFails, Spend, Recoverable
  <2>5. CASE RecoverEnqueue
    BY <2>5 DEF RecoverEnqueue, Schedule
  <2>6. CASE LinkLost
    BY <2>6 DEF LinkLost, Spend
  <2>7. CASE MonitorFails
    BY <2>7 DEF MonitorFails
  <2>8. CASE RunnerFails
    BY <2>8 DEF RunnerFails, Spend, Running
  <2>9. CASE RunnerStops
    BY <2>9 DEF RunnerStops
  <2>10. CASE Crash
    BY <2>10 DEF Crash, Spend
  <2>11. ASSUME NEW S \in SUBSET Deliveries, PreparePendingDelivery(S) PROVE RetryRoom'
    BY <2>11 DEF PreparePendingDelivery
  <2>12. ASSUME NEW S \in SUBSET Deliveries, OnDeliveryNotify(S) PROVE RetryRoom'
    BY <2>12 DEF OnDeliveryNotify, Schedule
  <2>13. ASSUME NEW d \in Deliveries, DeleteDelivery(d) PROVE RetryRoom'
    BY <2>13 DEF DeleteDelivery
  <2>14. ASSUME NEW d \in Deliveries, TimerFires(d) PROVE RetryRoom'
    BY <2>14 DEF TimerFires, Schedule
  <2>15. ASSUME NEW d \in Deliveries, ClaimDelivery(d) PROVE RetryRoom'
    BY <2>15 DEF ClaimDelivery
  <2>16. ASSUME NEW d \in Deliveries, SkipDelivery(d) PROVE RetryRoom'
    BY <2>16 DEF SkipDelivery
  <2>17. ASSUME NEW d \in Deliveries, DeadLetter(d) PROVE RetryRoom'
    BY <2>17 DEF DeadLetter, Flush
  <2>18. ASSUME NEW d \in Deliveries, AuthUnavailable(d) PROVE RetryRoom'
    BY <2>18 DEF AuthUnavailable, RecordSendFailure, Flush
  <2>19. ASSUME NEW d \in Deliveries, StartSend(d) PROVE RetryRoom'
    BY <2>19 DEF StartSend
  <2>20. ASSUME NEW d \in Deliveries, ProviderAccepts(d) PROVE RetryRoom'
    BY <2>20 DEF ProviderAccepts
  <2>21. ASSUME NEW d \in Deliveries, SendReturns(d) PROVE RetryRoom'
    BY <2>21 DEF SendReturns, Flush
  <2>22. ASSUME NEW d \in Deliveries, SendFails(d) PROVE RetryRoom'
    BY <2>22 DEF SendFails, RecordSendFailure, Flush
  <2>23. ASSUME NEW d \in Deliveries, CommitDelivery(d) PROVE RetryRoom'
    BY <2>23 DEF CommitDelivery, RecordStatus
  <2>24. ASSUME NEW d \in Deliveries, ArmRetry(d) PROVE RetryRoom'
    BY <2>24 DEF ArmRetry
  <2>25. ASSUME NEW d \in Deliveries, ProcessFails(d) PROVE RetryRoom'
    BY <2>25 DEF ProcessFails, Spend, Locked
  <2>26. ASSUME NEW r \in Reports, ReceiveReport(r) PROVE RetryRoom'
    BY <2>26 DEF ReceiveReport
  <2>27. ASSUME NEW r \in Reports, ReadReport(r) PROVE RetryRoom'
    BY <2>27 DEF ReadReport
  <2>28. ASSUME NEW r \in Reports, InsertRecord(r) PROVE RetryRoom'
    BY <2>28 DEF InsertRecord
  <2>29. ASSUME NEW r \in Reports, UnblockReport(r) PROVE RetryRoom'
    BY <2>29 DEF UnblockReport
  <2>30. ASSUME NEW r \in Reports, CommitReport(r) PROVE RetryRoom'
    BY <2>30 DEF CommitReport
  <2>31. ASSUME NEW r \in Reports, InsertFails(r) PROVE RetryRoom'
    BY <2>31 DEF InsertFails, RollBackReport, Spend
  <2>32. ASSUME NEW r \in Reports, CommitReportFails(r) PROVE RetryRoom'
    BY <2>32 DEF CommitReportFails, RollBackReport, Spend
  <2>33. CASE UNCHANGED vars
    BY <2>33 DEF vars
  <2>. QED
    BY <2>1, <2>2, <2>3, <2>4, <2>5, <2>6, <2>7, <2>8, <2>9, <2>10, <2>11,
       <2>12, <2>13, <2>14, <2>15, <2>16, <2>17, <2>18, <2>19, <2>20, <2>21, <2>22,
       <2>23, <2>24, <2>25, <2>26, <2>27, <2>28, <2>29, <2>30, <2>31, <2>32, <2>33
    DEF Next, ListenerStep, TaskStep, ReportStep
<1>. QED  BY <1>1

\* A RETRYING delivery has used between 1 and OUTBOUND_MAX_RETRIES retries, in
\* every behaviour.
THEOREM RetryBudgetHolds == Spec => []RetryBudget
<1>1. Init => RetryRoom
  BY DEF Init, RetryRoom, RetryBudget
<1>2. RetryRoom => RetryBudget
  BY DEF RetryRoom
<1>. QED  BY <1>1, <1>2, TypeCorrect, RetryStep, PTL DEF Spec

-----------------------------------------------------------------------------
\* No step gives a delivery that no scan has touched a second token.
LEMMA TokenStep == TypeOK /\ OneToken /\ [Next]_vars => OneToken'
<1> SUFFICES ASSUME TypeOK, OneToken, [Next]_vars PROVE OneToken'
  OBVIOUS
<1> USE DEF TypeOK, OneToken, Noted, Outcome, row, backend, loop, work, reporting, uncommitted,
            history
<1>1. OneToken'
  <2>1. CASE StartRunner
    BY <2>1 DEF StartRunner
  <2>2. CASE ConnectAndListen
    BY <2>2 DEF ConnectAndListen
  <2>3. CASE RecoverScan
    BY <2>3 DEF RecoverScan
  <2>4. CASE RecoverFails
    BY <2>4 DEF RecoverFails, Spend, Recoverable
  <2>5. CASE RecoverEnqueue
    BY <2>5 DEF RecoverEnqueue, Schedule
  <2>6. CASE LinkLost
    BY <2>6 DEF LinkLost, Spend
  <2>7. CASE MonitorFails
    BY <2>7 DEF MonitorFails
  <2>8. CASE RunnerFails
    BY <2>8 DEF RunnerFails, Spend, Running
  <2>9. CASE RunnerStops
    BY <2>9 DEF RunnerStops
  <2>10. CASE Crash
    BY <2>10 DEF Crash, Spend
  <2>11. ASSUME NEW S \in SUBSET Deliveries, PreparePendingDelivery(S) PROVE OneToken'
    BY <2>11 DEF PreparePendingDelivery
  <2>12. ASSUME NEW S \in SUBSET Deliveries, OnDeliveryNotify(S) PROVE OneToken'
    BY <2>12 DEF OnDeliveryNotify, Schedule
  <2>13. ASSUME NEW d \in Deliveries, DeleteDelivery(d) PROVE OneToken'
    BY <2>13 DEF DeleteDelivery
  <2>14. ASSUME NEW d \in Deliveries, TimerFires(d) PROVE OneToken'
    BY <2>14 DEF TimerFires, Schedule
  <2>15. ASSUME NEW d \in Deliveries, ClaimDelivery(d) PROVE OneToken'
    BY <2>15 DEF ClaimDelivery
  <2>16. ASSUME NEW d \in Deliveries, SkipDelivery(d) PROVE OneToken'
    BY <2>16 DEF SkipDelivery
  <2>17. ASSUME NEW d \in Deliveries, DeadLetter(d) PROVE OneToken'
    BY <2>17 DEF DeadLetter, Flush
  <2>18. ASSUME NEW d \in Deliveries, AuthUnavailable(d) PROVE OneToken'
    BY <2>18 DEF AuthUnavailable, RecordSendFailure, Flush
  <2>19. ASSUME NEW d \in Deliveries, StartSend(d) PROVE OneToken'
    BY <2>19 DEF StartSend
  <2>20. ASSUME NEW d \in Deliveries, ProviderAccepts(d) PROVE OneToken'
    BY <2>20 DEF ProviderAccepts
  <2>21. ASSUME NEW d \in Deliveries, SendReturns(d) PROVE OneToken'
    BY <2>21 DEF SendReturns, Flush
  <2>22. ASSUME NEW d \in Deliveries, SendFails(d) PROVE OneToken'
    BY <2>22 DEF SendFails, RecordSendFailure, Flush
  <2>23. ASSUME NEW d \in Deliveries, CommitDelivery(d) PROVE OneToken'
    BY <2>23 DEF CommitDelivery, RecordStatus
  <2>24. ASSUME NEW d \in Deliveries, ArmRetry(d) PROVE OneToken'
    BY <2>24 DEF ArmRetry
  <2>25. ASSUME NEW d \in Deliveries, ProcessFails(d) PROVE OneToken'
    BY <2>25 DEF ProcessFails, Spend, Locked
  <2>26. ASSUME NEW r \in Reports, ReceiveReport(r) PROVE OneToken'
    BY <2>26 DEF ReceiveReport
  <2>27. ASSUME NEW r \in Reports, ReadReport(r) PROVE OneToken'
    BY <2>27 DEF ReadReport
  <2>28. ASSUME NEW r \in Reports, InsertRecord(r) PROVE OneToken'
    BY <2>28 DEF InsertRecord
  <2>29. ASSUME NEW r \in Reports, UnblockReport(r) PROVE OneToken'
    BY <2>29 DEF UnblockReport
  <2>30. ASSUME NEW r \in Reports, CommitReport(r) PROVE OneToken'
    <3>1. r.delivery \in Deliveries /\ r.status \in {"sent", "delivered", "failed"}
      BY DEF Report, Reported
    <3>. QED  BY <2>30, <3>1 DEF CommitReport
  <2>31. ASSUME NEW r \in Reports, InsertFails(r) PROVE OneToken'
    BY <2>31 DEF InsertFails, RollBackReport, Spend
  <2>32. ASSUME NEW r \in Reports, CommitReportFails(r) PROVE OneToken'
    BY <2>32 DEF CommitReportFails, RollBackReport, Spend
  <2>33. CASE UNCHANGED vars
    BY <2>33 DEF vars
  <2>. QED
    BY <2>1, <2>2, <2>3, <2>4, <2>5, <2>6, <2>7, <2>8, <2>9, <2>10, <2>11,
       <2>12, <2>13, <2>14, <2>15, <2>16, <2>17, <2>18, <2>19, <2>20, <2>21, <2>22,
       <2>23, <2>24, <2>25, <2>26, <2>27, <2>28, <2>29, <2>30, <2>31, <2>32, <2>33
    DEF Next, ListenerStep, TaskStep, ReportStep
<1>. QED  BY <1>1

\* A delivery that no scan has touched is in one hand at a time, in every
\* behaviour: the NOTIFY, the task or the timer of its retry.
THEOREM OneTokenHolds == Spec => []OneToken
<1>1. Init => OneToken
  BY DEF Init, OneToken, Noted
<1>. QED  BY <1>1, TypeCorrect, TokenStep, PTL DEF Spec

\* An acknowledged message is sent again only when a recovery scan has picked
\* its delivery up, in every behaviour.
THEOREM ResendOnlyByRecoveryHolds == Spec => []ResendOnlyByRecovery
<1>1. TypeOK /\ OneToken => ResendOnlyByRecovery
  BY DEF TypeOK, OneToken, ResendOnlyByRecovery
<1>. QED  BY <1>1, TypeCorrect, OneTokenHolds, PTL

-----------------------------------------------------------------------------
\* What the row of a delivery is while a task or a report works on it: a row
\* that is locked, or shared by the INSERT of a record, is there, and a
\* record says what has happened.
RowInv ==
    /\ \A d \in Deliveries :
          /\ Locked(d) => status[d] \notin {"absent", "deleted"}
          /\ provider[d] \/ d \in wire => status[d] # "absent"
          /\ task[d] = "sending" => d \in wire \/ provider[d]
          /\ task[d] = "accepted" => provider[d]
          /\ task[d] = "exhausted" => retryCount[d] + 1 > OUTBOUND_MAX_RETRIES
    /\ \A r \in Reports :
          /\ r.kind = "status" /\ report[r] # "idle" => provider[r.delivery]
          /\ report[r] \in {"read", "blocked", "flushed"} => status[r.delivery] # "absent"
          /\ report[r] = "flushed" => status[r.delivery] # "deleted"

\* No step takes the row away from the task or the report that holds it.
LEMMA RowStep == TypeOK /\ OneToken /\ RowInv /\ [Next]_vars => RowInv'
<1> SUFFICES ASSUME TypeOK, OneToken, RowInv, [Next]_vars PROVE RowInv'
  OBVIOUS
<1>0. \A d \in Deliveries : status[d] = "absent" => task[d] = "none"
  BY DEF OneToken
<1>00. \A r \in Reports : r.delivery \in Deliveries /\ r.status \in Reported
  BY DEF Report
<1> HIDE DEF OneToken
<1> USE <1>0, <1>00 DEF TypeOK, RowInv, Locked, KeyShared, Outcome, Reported, row, backend, loop, work,
                        reporting, uncommitted, history
<1>1. RowInv'
  <2>1. CASE StartRunner
    BY <2>1 DEF StartRunner
  <2>2. CASE ConnectAndListen
    BY <2>2 DEF ConnectAndListen
  <2>3. CASE RecoverScan
    BY <2>3 DEF RecoverScan
  <2>4. CASE RecoverFails
    BY <2>4 DEF RecoverFails
  <2>5. CASE RecoverEnqueue
    BY <2>5 DEF RecoverEnqueue, Schedule
  <2>6. CASE LinkLost
    BY <2>6 DEF LinkLost
  <2>7. CASE MonitorFails
    BY <2>7 DEF MonitorFails
  <2>8. CASE RunnerFails
    BY <2>8 DEF RunnerFails
  <2>9. CASE RunnerStops
    BY <2>9 DEF RunnerStops
  <2>10. CASE Crash
    BY <2>10 DEF Crash
  <2>11. ASSUME NEW S \in SUBSET Deliveries, PreparePendingDelivery(S) PROVE RowInv'
    BY <2>11 DEF PreparePendingDelivery
  <2>12. ASSUME NEW S \in SUBSET Deliveries, OnDeliveryNotify(S) PROVE RowInv'
    BY <2>12 DEF OnDeliveryNotify, Schedule
  <2>13. ASSUME NEW d \in Deliveries, DeleteDelivery(d) PROVE RowInv'
    BY <2>13 DEF DeleteDelivery
  <2>14. ASSUME NEW d \in Deliveries, TimerFires(d) PROVE RowInv'
    BY <2>14 DEF TimerFires, Schedule
  <2>15. ASSUME NEW d \in Deliveries, ClaimDelivery(d) PROVE RowInv'
    BY <2>15 DEF ClaimDelivery
  <2>16. ASSUME NEW d \in Deliveries, SkipDelivery(d) PROVE RowInv'
    BY <2>16 DEF SkipDelivery
  <2>17. ASSUME NEW d \in Deliveries, DeadLetter(d) PROVE RowInv'
    BY <2>17 DEF DeadLetter, Flush
  <2>18. ASSUME NEW d \in Deliveries, AuthUnavailable(d) PROVE RowInv'
    BY <2>18 DEF AuthUnavailable, RecordSendFailure, Flush
  <2>19. ASSUME NEW d \in Deliveries, StartSend(d) PROVE RowInv'
    BY <2>19 DEF StartSend
  <2>20. ASSUME NEW d \in Deliveries, ProviderAccepts(d) PROVE RowInv'
    BY <2>20 DEF ProviderAccepts
  <2>21. ASSUME NEW d \in Deliveries, SendReturns(d) PROVE RowInv'
    BY <2>21 DEF SendReturns, Flush
  <2>22. ASSUME NEW d \in Deliveries, SendFails(d) PROVE RowInv'
    BY <2>22 DEF SendFails, RecordSendFailure, Flush
  <2>23. ASSUME NEW d \in Deliveries, CommitDelivery(d) PROVE RowInv'
    BY <2>23 DEF CommitDelivery, RecordStatus
  <2>24. ASSUME NEW d \in Deliveries, ArmRetry(d) PROVE RowInv'
    BY <2>24 DEF ArmRetry
  <2>25. ASSUME NEW d \in Deliveries, ProcessFails(d) PROVE RowInv'
    BY <2>25 DEF ProcessFails
  <2>26. ASSUME NEW r \in Reports, ReceiveReport(r) PROVE RowInv'
    BY <2>26 DEF ReceiveReport
  <2>27. ASSUME NEW r \in Reports, ReadReport(r) PROVE RowInv'
    BY <2>27 DEF ReadReport, Found
  <2>28. ASSUME NEW r \in Reports, InsertRecord(r) PROVE RowInv'
    BY <2>28 DEF InsertRecord
  <2>29. ASSUME NEW r \in Reports, UnblockReport(r) PROVE RowInv'
    BY <2>29 DEF UnblockReport
  <2>30. ASSUME NEW r \in Reports, CommitReport(r) PROVE RowInv'
    BY <2>30 DEF CommitReport
  <2>31. ASSUME NEW r \in Reports, InsertFails(r) PROVE RowInv'
    BY <2>31 DEF InsertFails, RollBackReport
  <2>32. ASSUME NEW r \in Reports, CommitReportFails(r) PROVE RowInv'
    BY <2>32 DEF CommitReportFails, RollBackReport
  <2>33. CASE UNCHANGED vars
    BY <2>33 DEF vars
  <2>. QED
    BY <2>1, <2>2, <2>3, <2>4, <2>5, <2>6, <2>7, <2>8, <2>9, <2>10, <2>11, <2>12,
       <2>13, <2>14, <2>15, <2>16, <2>17, <2>18, <2>19, <2>20, <2>21, <2>22, <2>23,
       <2>24, <2>25, <2>26, <2>27, <2>28, <2>29, <2>30, <2>31, <2>32, <2>33
    DEF Next, ListenerStep, TaskStep, ReportStep
<1>. QED  BY <1>1

\* Every step of the runner is a step of the lifecycle or changes nothing it
\* speaks of.
LEMMA LifecycleStep ==
    TypeOK /\ RetryRoom /\ RowInv /\ [Next]_vars => [LC!Next]_(LC!vars)
<1> SUFFICES ASSUME TypeOK, RetryRoom, RowInv, [Next]_vars PROVE [LC!Next]_(LC!vars)
  OBVIOUS
<1>0. \A r \in Reports : r.delivery \in Deliveries /\ r.status \in Reported
  BY DEF TypeOK, Report
<1> DEFINE Same == UNCHANGED <<status, retryCount, backend, visible>>
<1>1. Same => [LC!Next]_(LC!vars)
  BY DEF LC!vars, backend
<1> USE DEF row, backend, loop, work, reporting, uncommitted, history
<1>2. [LC!Next]_(LC!vars)
  <2>1. CASE StartRunner
    BY <2>1, <1>1 DEF StartRunner
  <2>2. CASE ConnectAndListen
    BY <2>2, <1>1 DEF ConnectAndListen
  <2>3. CASE RecoverScan
    BY <2>3, <1>1 DEF RecoverScan
  <2>4. CASE RecoverFails
    BY <2>4, <1>1 DEF RecoverFails
  <2>5. CASE RecoverEnqueue
    BY <2>5, <1>1 DEF RecoverEnqueue
  <2>6. CASE LinkLost
    BY <2>6, <1>1 DEF LinkLost
  <2>7. CASE MonitorFails
    BY <2>7, <1>1 DEF MonitorFails
  <2>8. CASE RunnerFails
    BY <2>8, <1>1 DEF RunnerFails
  <2>9. CASE RunnerStops
    BY <2>9, <1>1 DEF RunnerStops
  <2>10. CASE Crash
    BY <2>10, <1>1 DEF Crash
  <2>11. ASSUME NEW S \in SUBSET Deliveries, PreparePendingDelivery(S) PROVE [LC!Next]_(LC!vars)
    <3>1. LC!Create(S)
      BY <2>11 DEF PreparePendingDelivery, LC!Create
    <3>. QED  BY <3>1 DEF LC!Next
  <2>12. ASSUME NEW S \in SUBSET Deliveries, OnDeliveryNotify(S) PROVE [LC!Next]_(LC!vars)
    BY <2>12, <1>1 DEF OnDeliveryNotify
  <2>13. ASSUME NEW d \in Deliveries, DeleteDelivery(d) PROVE [LC!Next]_(LC!vars)
    <3>1. LC!Delete(d)
      BY <2>13 DEF DeleteDelivery, LC!Delete, LC!Become, LC!Stored
    <3>. QED  BY <3>1 DEF LC!Next
  <2>14. ASSUME NEW d \in Deliveries, TimerFires(d) PROVE [LC!Next]_(LC!vars)
    BY <2>14, <1>1 DEF TimerFires
  <2>15. ASSUME NEW d \in Deliveries, ClaimDelivery(d) PROVE [LC!Next]_(LC!vars)
    BY <2>15, <1>1 DEF ClaimDelivery
  <2>16. ASSUME NEW d \in Deliveries, SkipDelivery(d) PROVE [LC!Next]_(LC!vars)
    BY <2>16, <1>1 DEF SkipDelivery
  <2>17. ASSUME NEW d \in Deliveries, DeadLetter(d) PROVE [LC!Next]_(LC!vars)
    BY <2>17, <1>1 DEF DeadLetter
  <2>18. ASSUME NEW d \in Deliveries, AuthUnavailable(d) PROVE [LC!Next]_(LC!vars)
    BY <2>18, <1>1 DEF AuthUnavailable
  <2>19. ASSUME NEW d \in Deliveries, StartSend(d) PROVE [LC!Next]_(LC!vars)
    <3>1. LC!Begin(d)
      BY <2>19 DEF StartSend, LC!Begin, LC!Stored, RowInv, Locked
    <3>. QED  BY <3>1 DEF LC!Next
  <2>20. ASSUME NEW d \in Deliveries, ProviderAccepts(d) PROVE [LC!Next]_(LC!vars)
    <3>1. LC!Transmit(d)
      BY <2>20 DEF ProviderAccepts, LC!Transmit
    <3>. QED  BY <3>1 DEF LC!Next
  <2>21. ASSUME NEW d \in Deliveries, SendReturns(d) PROVE [LC!Next]_(LC!vars)
    BY <2>21, <1>1 DEF SendReturns
  <2>22. ASSUME NEW d \in Deliveries, SendFails(d) PROVE [LC!Next]_(LC!vars)
    BY <2>22, <1>1 DEF SendFails
  <2>23. ASSUME NEW d \in Deliveries, CommitDelivery(d) PROVE [LC!Next]_(LC!vars)
    <3>1. status[d] \notin {"absent", "deleted"} /\ retryCount[d] \in Nat
      BY <2>23 DEF CommitDelivery, RowInv, Locked, TypeOK
    <3>2. CASE task[d] = "accepted"
      <4>1. provider[d]
        BY <3>2 DEF RowInv
      <4>2. UNCHANGED <<retryCount, backend, visible>>
        BY <2>23, <3>2 DEF CommitDelivery, TypeOK
      <4>3. LC!Accept(d)
        BY <2>23, <3>1, <3>2, <4>1, <4>2 DEF CommitDelivery, RecordStatus, LC!Accept, LC!Become, LC!Stored
      <4>. QED  BY <4>3 DEF LC!Next
    <3>3. CASE task[d] = "retrying"
      <4>1. retryCount[d] < OUTBOUND_MAX_RETRIES
        BY <3>1, <3>3 DEF RetryRoom
      <4>2. LC!Retry(d)
        BY <2>23, <3>1, <3>3, <4>1 DEF CommitDelivery, RecordStatus, LC!Retry, LC!Become, LC!Stored
      <4>. QED  BY <4>2 DEF LC!Next
    <3>4. CASE task[d] = "exhausted"
      <4>1. retryCount[d] >= OUTBOUND_MAX_RETRIES
        BY <3>1, <3>4 DEF RowInv
      <4>2. LC!GiveUp(d)
        BY <2>23, <3>1, <3>4, <4>1 DEF CommitDelivery, RecordStatus, LC!GiveUp, LC!Become, LC!Stored
      <4>. QED  BY <4>2 DEF LC!Next
    <3>5. CASE task[d] = "dead_letter"
      <4>1. UNCHANGED <<retryCount, backend, visible>>
        BY <2>23, <3>5 DEF CommitDelivery, TypeOK
      <4>2. LC!GiveUp(d)
        BY <2>23, <3>1, <3>5, <4>1 DEF CommitDelivery, RecordStatus, LC!GiveUp, LC!Become, LC!Stored
      <4>. QED  BY <4>2 DEF LC!Next
    <3>. QED  BY <2>23, <3>2, <3>3, <3>4, <3>5 DEF CommitDelivery, Outcome
  <2>24. ASSUME NEW d \in Deliveries, ArmRetry(d) PROVE [LC!Next]_(LC!vars)
    BY <2>24, <1>1 DEF ArmRetry
  <2>25. ASSUME NEW d \in Deliveries, ProcessFails(d) PROVE [LC!Next]_(LC!vars)
    BY <2>25, <1>1 DEF ProcessFails
  <2>26. ASSUME NEW r \in Reports, ReceiveReport(r) PROVE [LC!Next]_(LC!vars)
    BY <2>26, <1>1 DEF ReceiveReport
  <2>27. ASSUME NEW r \in Reports, ReadReport(r) PROVE [LC!Next]_(LC!vars)
    BY <2>27, <1>1 DEF ReadReport
  <2>28. ASSUME NEW r \in Reports, InsertRecord(r) PROVE [LC!Next]_(LC!vars)
    BY <2>28, <1>1 DEF InsertRecord
  <2>29. ASSUME NEW r \in Reports, UnblockReport(r) PROVE [LC!Next]_(LC!vars)
    BY <2>29, <1>1 DEF UnblockReport
  <2>30. ASSUME NEW r \in Reports, CommitReport(r) PROVE [LC!Next]_(LC!vars)
    <3> DEFINE x == r.delivery
    <3>1. x \in Deliveries /\ r.status \in {"sent", "delivered", "failed"}
      BY <1>0 DEF Reported
    <3>2. status[x] \notin {"absent", "deleted"}
      BY <2>30, <3>1 DEF CommitReport, RowInv
    <3>3. LC!Record(x, r.status)
      BY <2>30, <3>2 DEF CommitReport, LC!Record, LC!Become, LC!Stored
    <3>4. CASE r.status = "delivered"
      <4>1. LC!Confirm(x)
        BY <2>30, <3>3, <3>4 DEF CommitReport, Shown, LC!Confirm
      <4>. QED  BY <3>1, <4>1 DEF LC!Next
    <3>5. CASE r.status \in {"sent", "failed"}
      <4>1. provider[x]
        BY <2>30, <3>5, <1>0, OutboundAssumption DEF CommitReport, RowInv, Report, TypeOK
      <4>2. LC!Report(x, r.status)
        BY <2>30, <3>3, <3>5, <4>1 DEF CommitReport, Shown, LC!Report
      <4>. QED  BY <3>1, <3>5, <4>2 DEF LC!Next
    <3>. QED  BY <3>1, <3>4, <3>5
  <2>31. ASSUME NEW r \in Reports, InsertFails(r) PROVE [LC!Next]_(LC!vars)
    BY <2>31, <1>1 DEF InsertFails
  <2>32. ASSUME NEW r \in Reports, CommitReportFails(r) PROVE [LC!Next]_(LC!vars)
    BY <2>32, <1>1 DEF CommitReportFails
  <2>33. CASE UNCHANGED vars
    BY <2>33, <1>1 DEF vars
  <2>. QED
    BY <2>1, <2>2, <2>3, <2>4, <2>5, <2>6, <2>7, <2>8, <2>9, <2>10, <2>11, <2>12,
       <2>13, <2>14, <2>15, <2>16, <2>17, <2>18, <2>19, <2>20, <2>21, <2>22, <2>23,
       <2>24, <2>25, <2>26, <2>27, <2>28, <2>29, <2>30, <2>31, <2>32, <2>33
    DEF Next, ListenerStep, TaskStep, ReportStep
<1>. QED  BY <1>2

\* The outbound path implements DeliveryLifecycle, for any deliveries, reports,
\* retries, slots and faults: no send begins and nothing is recorded for a row
\* that is gone, whatever tasks, scans, reports, deletions and crashes interleave.
THEOREM LifecycleImplemented == Spec => ImplementsLifecycle
<1>1. Init => LC!Init
  BY DEF Init, LC!Init
<1>2. Init => RetryRoom /\ RowInv
  BY OutboundAssumption DEF Init, RetryRoom, RetryBudget, RowInv, Locked, Outcome, Report
<1>3. TypeOK /\ OneToken /\ RetryRoom /\ RowInv /\ [Next]_vars => (RetryRoom /\ RowInv)'
  BY RetryStep, RowStep
<1>. QED  BY <1>1, <1>2, <1>3, LifecycleStep, TypeCorrect, OneTokenHolds, PTL
           DEF Spec, ImplementsLifecycle, LC!Spec

-----------------------------------------------------------------------------
\* Every step keeps what the rows tell of the backend: a record is committed
\* after the answer of the backend or a report, and an echo taken stays taken.
LEMMA ToldStep == TypeOK /\ RowInv /\ ToldTruly /\ [Next]_vars => ToldTruly'
<1> SUFFICES ASSUME TypeOK, RowInv, ToldTruly, [Next]_vars PROVE ToldTruly'
  OBVIOUS
<1>0. \A r \in Reports : r.delivery \in Deliveries /\ r.status \in Reported
                         /\ r.kind \in {"status", "echo"}
                         /\ (r.kind = "echo" => r.status = "delivered")
  BY DEF Report
<1> DEFINE
      Kept == /\ \A d \in Deliveries : provider[d] => provider'[d]
              /\ \A r \in Reports : report[r] = "done" => report'[r] = "done"
<1>1. Kept => \A d \in Deliveries : Echoed(d) => Echoed(d)'
  BY DEF Echoed
<1>2. Kept /\ UNCHANGED <<status, visible>> => ToldTruly'
  BY <1>1 DEF ToldTruly
<1> USE DEF TypeOK, row, backend, loop, work, reporting, uncommitted, history
<1>3. ToldTruly'
  <2>1. CASE StartRunner
    BY <2>1, <1>2 DEF StartRunner
  <2>2. CASE ConnectAndListen
    BY <2>2, <1>2 DEF ConnectAndListen
  <2>3. CASE RecoverScan
    BY <2>3, <1>2 DEF RecoverScan
  <2>4. CASE RecoverFails
    BY <2>4, <1>2 DEF RecoverFails
  <2>5. CASE RecoverEnqueue
    BY <2>5, <1>2 DEF RecoverEnqueue
  <2>6. CASE LinkLost
    BY <2>6, <1>2 DEF LinkLost
  <2>7. CASE MonitorFails
    BY <2>7, <1>2 DEF MonitorFails
  <2>8. CASE RunnerFails
    BY <2>8, <1>2 DEF RunnerFails
  <2>9. CASE RunnerStops
    BY <2>9, <1>2 DEF RunnerStops
  <2>10. CASE Crash
    BY <2>10, <1>2 DEF Crash
  <2>11. ASSUME NEW S \in SUBSET Deliveries, PreparePendingDelivery(S) PROVE ToldTruly'
    <3>1. Kept /\ UNCHANGED visible
      BY <2>11 DEF PreparePendingDelivery
    <3>2. \A d \in Deliveries : status'[d] = status[d]
                                \/ (status[d] = "absent" /\ status'[d] = "pending")
      BY <2>11 DEF PreparePendingDelivery
    <3>. QED  BY <1>1, <3>1, <3>2 DEF ToldTruly
  <2>12. ASSUME NEW S \in SUBSET Deliveries, OnDeliveryNotify(S) PROVE ToldTruly'
    BY <2>12, <1>2 DEF OnDeliveryNotify
  <2>13. ASSUME NEW d \in Deliveries, DeleteDelivery(d) PROVE ToldTruly'
    <3>1. Kept
      BY <2>13 DEF DeleteDelivery
    <3>. QED  BY <2>13, <1>1, <3>1 DEF DeleteDelivery, ToldTruly
  <2>14. ASSUME NEW d \in Deliveries, TimerFires(d) PROVE ToldTruly'
    BY <2>14, <1>2 DEF TimerFires
  <2>15. ASSUME NEW d \in Deliveries, ClaimDelivery(d) PROVE ToldTruly'
    BY <2>15, <1>2 DEF ClaimDelivery
  <2>16. ASSUME NEW d \in Deliveries, SkipDelivery(d) PROVE ToldTruly'
    BY <2>16, <1>2 DEF SkipDelivery
  <2>17. ASSUME NEW d \in Deliveries, DeadLetter(d) PROVE ToldTruly'
    BY <2>17, <1>2 DEF DeadLetter
  <2>18. ASSUME NEW d \in Deliveries, AuthUnavailable(d) PROVE ToldTruly'
    BY <2>18, <1>2 DEF AuthUnavailable
  <2>19. ASSUME NEW d \in Deliveries, StartSend(d) PROVE ToldTruly'
    BY <2>19, <1>2 DEF StartSend
  <2>20. ASSUME NEW d \in Deliveries, ProviderAccepts(d) PROVE ToldTruly'
    BY <2>20, <1>2 DEF ProviderAccepts
  <2>21. ASSUME NEW d \in Deliveries, SendReturns(d) PROVE ToldTruly'
    BY <2>21, <1>2 DEF SendReturns
  <2>22. ASSUME NEW d \in Deliveries, SendFails(d) PROVE ToldTruly'
    BY <2>22, <1>2 DEF SendFails
  <2>23. ASSUME NEW d \in Deliveries, CommitDelivery(d) PROVE ToldTruly'
    <3>1. Kept /\ UNCHANGED <<visible, provider>>
      BY <2>23 DEF CommitDelivery
    <3>2. status'[d] \in {"accepted", "retrying", "dead_letter"}
      BY <2>23 DEF CommitDelivery, RecordStatus, Outcome
    <3>3. status'[d] = "accepted" => provider[d]
      BY <2>23 DEF CommitDelivery, RecordStatus, Outcome, RowInv
    <3>4. \A e \in Deliveries : e # d => status'[e] = status[e]
      BY <2>23 DEF CommitDelivery
    <3>. QED  BY <1>1, <3>1, <3>2, <3>3, <3>4 DEF ToldTruly
  <2>24. ASSUME NEW d \in Deliveries, ArmRetry(d) PROVE ToldTruly'
    BY <2>24, <1>2 DEF ArmRetry
  <2>25. ASSUME NEW d \in Deliveries, ProcessFails(d) PROVE ToldTruly'
    BY <2>25, <1>2 DEF ProcessFails
  <2>26. ASSUME NEW r \in Reports, ReceiveReport(r) PROVE ToldTruly'
    BY <2>26, <1>2 DEF ReceiveReport
  <2>27. ASSUME NEW r \in Reports, ReadReport(r) PROVE ToldTruly'
    BY <2>27, <1>2 DEF ReadReport
  <2>28. ASSUME NEW r \in Reports, InsertRecord(r) PROVE ToldTruly'
    BY <2>28, <1>2 DEF InsertRecord
  <2>29. ASSUME NEW r \in Reports, UnblockReport(r) PROVE ToldTruly'
    BY <2>29, <1>2 DEF UnblockReport
  <2>30. ASSUME NEW r \in Reports, CommitReport(r) PROVE ToldTruly'
    <3> DEFINE x == r.delivery
    <3>1. Kept /\ UNCHANGED provider
      BY <2>30 DEF CommitReport
    <3>2. x \in Deliveries /\ status[x] \notin {"absent", "deleted"}
      BY <2>30, <1>0 DEF CommitReport, RowInv
    <3>3. r.kind = "status" => provider[x]
      BY <2>30 DEF CommitReport, RowInv
    <3>4. r.kind = "echo" => r.status = "delivered" /\ Echoed(x)'
      BY <2>30, <1>0 DEF CommitReport, Echoed
    <3>5. \A d \in Deliveries : d # x => status'[d] = status[d] /\ (d \in visible' => d \in visible)
      BY <2>30 DEF CommitReport
    <3>6. status'[x] \in {status[x], r.status}
      BY <2>30, <3>2 DEF CommitReport
    <3>7. x \in visible' => x \in visible \/ r.status = "delivered"
      BY <2>30 DEF CommitReport, Shown
    <3>. QED  BY <1>0, <1>1, <3>1, <3>2, <3>3, <3>4, <3>5, <3>6, <3>7 DEF ToldTruly, Reported
  <2>31. ASSUME NEW r \in Reports, InsertFails(r) PROVE ToldTruly'
    BY <2>31, <1>2 DEF InsertFails, RollBackReport
  <2>32. ASSUME NEW r \in Reports, CommitReportFails(r) PROVE ToldTruly'
    BY <2>32, <1>2 DEF CommitReportFails, RollBackReport
  <2>33. CASE UNCHANGED vars
    BY <2>33, <1>2 DEF vars
  <2>. QED
    BY <2>1, <2>2, <2>3, <2>4, <2>5, <2>6, <2>7, <2>8, <2>9, <2>10, <2>11, <2>12,
       <2>13, <2>14, <2>15, <2>16, <2>17, <2>18, <2>19, <2>20, <2>21, <2>22, <2>23,
       <2>24, <2>25, <2>26, <2>27, <2>28, <2>29, <2>30, <2>31, <2>32, <2>33
    DEF Next, ListenerStep, TaskStep, ReportStep
<1>. QED  BY <1>3

\* What the rows tell of the backend is true in every behaviour: ACCEPTED, SENT
\* and FAILED follow a hand-over, DELIVERED follows one or an echo.
THEOREM ToldTrulyHolds == Spec => []ToldTruly
<1>1. Init => RowInv /\ ToldTruly
  BY DEF Init, RowInv, Locked, Outcome, ToldTruly
<1>2. TypeOK /\ OneToken /\ RowInv /\ ToldTruly /\ [Next]_vars => (RowInv /\ ToldTruly)'
  BY RowStep, ToldStep
<1>. QED  BY <1>1, <1>2, TypeCorrect, OneTokenHolds, PTL DEF Spec
=============================================================================
