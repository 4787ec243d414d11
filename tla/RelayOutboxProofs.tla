--------------------------- MODULE RelayOutboxProofs ---------------------------
(***************************************************************************)
(* What is proved of the outbox, for any finite set of jobs and any bounds: *)
(* its type, that no undelivered result is left unwatched, that every      *)
(* message on its way is on record, and, for a relay that only             *)
(* acknowledges what it received, the refinement of ResultDelivery.        *)
(***************************************************************************)
EXTENDS RelayOutbox, FiniteSetTheorems, TLAPS

RowStatus == {"None", "Pending", "Delivering", "Delivered", "AckFailed"}

RowType ==
  /\ row \in [Jobs -> RowStatus]
  /\ retryCount \in [Jobs -> Nat]
  /\ due \in [Jobs -> BOOLEAN]

\* The ids of a job's messages have a last one, from which the next is counted.
Numbered(ids) == ids \subseteq Nat /\ (ids = {} \/ \E n \in ids : \A m \in ids : n >= m)

AttemptType ==
  /\ attempts \in [Jobs -> SUBSET Nat]
  /\ \A j \in Jobs : Numbered(attempts[j])

LifeType ==
  /\ life \in {"running", "stopping", "off"}
  /\ conn \in {"down", "open", "closing"}

TimerType == timers \subseteq Jobs /\ missed \subseteq Jobs

NetType ==
  /\ wire \subseteq Jobs \X Nat /\ acks \subseteq Jobs \X Nat
  /\ sent \subseteq Jobs /\ received \subseteq Jobs

RecoveryType == recovery \in BOOLEAN
ReplayType == replays \subseteq Replay
FaultType == faults \in 0..MaxFaults

Types ==
  /\ RowType /\ AttemptType /\ LifeType /\ TimerType /\ NetType
  /\ RecoveryType /\ ReplayType /\ FaultType

\* A daemon that is off has no connection.
OffIsDown == life = "off" => conn = "down"

LEMMA TypesMeanTypeOK == ASSUME Types PROVE TypeOK
BY DEF Types, RowType, AttemptType, LifeType, TimerType, NetType, RecoveryType, ReplayType,
       FaultType, RowStatus, TypeOK

LEMMA InitIsGood ==
  ASSUME Init
  PROVE  Types /\ OffIsDown /\ HistoryResolves /\ UndeliveredIsWatched
<1>1. MaxFaults \in Nat
  BY OutboxAssumption
<1>2. RowType /\ LifeType /\ TimerType
  BY DEF Init, RowType, LifeType, TimerType, RowStatus
<1>6. NetType /\ RecoveryType /\ ReplayType
  BY DEF Init, NetType, RecoveryType, ReplayType
<1>7. FaultType
  BY <1>1 DEF Init, FaultType
<1>3. AttemptType
  BY DEF Init, AttemptType, Numbered
<1>4. OffIsDown /\ HistoryResolves
  BY DEF Init, OffIsDown, HistoryResolves
<1>5. UndeliveredIsWatched
  BY DEF Init, UndeliveredIsWatched, DeliveringIsWatched, BackoffIsWatched, Connected
<1> QED  BY <1>2, <1>3, <1>4, <1>5, <1>6, <1>7 DEF Types

-----------------------------------------------------------------------------
(* A delivery.                                                             *)

LEMMA NextIdIsNew ==
  ASSUME AttemptType, NEW j \in Jobs
  PROVE  /\ NextId(j) \in Nat
         /\ Numbered(attempts[j] \cup {NextId(j)})
<1>1. attempts[j] \subseteq Nat
  BY DEF AttemptType
<1>2. CASE attempts[j] = {}
  BY <1>2 DEF NextId, Numbered
<1>3. CASE attempts[j] # {}
  <2>1. \E n \in attempts[j] : \A m \in attempts[j] : n >= m
    BY <1>3 DEF AttemptType, Numbered
  <2>2. /\ Max(attempts[j]) \in attempts[j]
        /\ \A m \in attempts[j] : Max(attempts[j]) >= m
    BY <2>1 DEF Max
  <2>3. NextId(j) = Max(attempts[j]) + 1
    BY <1>3 DEF NextId
  <2> QED  BY <1>1, <2>2, <2>3 DEF Numbered
<1> QED  BY <1>2, <1>3

LEMMA CountIsNat ==
  ASSUME RowType, NEW j \in Jobs, NEW retry \in BOOLEAN
  PROVE  /\ CountOf(j, retry) \in Nat
         /\ UncountRetry(CountOf(j, retry), retry) \in Nat
<1>1. retryCount[j] \in Nat
  BY DEF RowType
<1>2. CountOf(j, retry) \in Nat
  BY <1>1 DEF CountOf
<1> QED  BY <1>2 DEF UncountRetry

LEMMA StartedType ==
  ASSUME RowType, AttemptType, NEW j \in Jobs, NEW retry \in BOOLEAN, Started(j, retry)
  PROVE  RowType' /\ AttemptType'
<1>1. CountOf(j, retry) \in Nat
  BY CountIsNat
<1>2. RowType'
  BY <1>1 DEF RowType, RowStatus, Started
<1>3. /\ NextId(j) \in Nat
      /\ Numbered(attempts[j] \cup {NextId(j)})
  BY NextIdIsNew
<1>4. attempts' \in [Jobs -> SUBSET Nat]
  BY <1>3 DEF AttemptType, Started
<1>5. \A k \in Jobs : Numbered(attempts'[k])
  BY <1>3 DEF AttemptType, Started
<1> QED  BY <1>2, <1>4, <1>5 DEF AttemptType

LEMMA FaultIsCounted == ASSUME FaultType, Fault \/ UNCHANGED faults PROVE FaultType'
BY OutboxAssumption DEF FaultType, Fault

LEMMA SendType ==
  ASSUME Types, NEW j \in Jobs, NEW retry \in BOOLEAN, NEW ts \in SUBSET Jobs,
         Send(j, retry, ts)
  PROVE  /\ RowType' /\ AttemptType' /\ NetType'
         /\ conn' = conn /\ timers' \subseteq Jobs
<1>1. RowType' /\ AttemptType'
  BY StartedType DEF Types, Send
<1>2. NextId(j) \in Nat
  BY NextIdIsNew DEF Types
<1>3. NetType'
  BY <1>2 DEF Types, NetType, Send
<1> QED  BY <1>1, <1>3 DEF Send

LEMMA SendFailsType ==
  ASSUME Types, NEW j \in Jobs, NEW retry \in BOOLEAN, NEW ts \in SUBSET Jobs,
         SendFails(j, retry, ts)
  PROVE  /\ RowType' /\ AttemptType' /\ NetType' /\ FaultType'
         /\ conn' = "closing" /\ timers' \subseteq Jobs
<1>1. UncountRetry(CountOf(j, retry), retry) \in Nat
  BY CountIsNat DEF Types
<1>2. RowType'
  BY <1>1 DEF Types, RowType, RowStatus, SendFails
<1>3. AttemptType' /\ NetType'
  BY DEF Types, AttemptType, NetType, SendFails, ForgetAttempt, network
<1>4. FaultType'
  BY FaultIsCounted DEF Types, SendFails
<1> QED  BY <1>2, <1>3, <1>4 DEF SendFails

-----------------------------------------------------------------------------
(* The types are kept.                                                     *)

LEMMA ScheduledIsBoolean == ASSUME ScheduleRecovery PROVE RecoveryType'
BY DEF ScheduleRecovery, RecoveryType

LEMMA NewReplayIsReplay == NewReplay \in Replay
BY DEF NewReplay, Replay

LEMMA TableRests == ASSUME RowType, AttemptType, UNCHANGED table PROVE RowType' /\ AttemptType'
BY DEF RowType, AttemptType, table

LEMMA ReplayKeepsTypes ==
  ASSUME Types, NEW r \in Replay, ReplayStep(r)
  PROVE  Types'
<1>1. /\ r \in replays /\ life' = life /\ missed' \subseteq Jobs
      /\ recovery' = recovery \/ ScheduleRecovery
  BY DEF ReplayStep, ReplayDeliver, ReplayList, ReplayEnd, ReplayRefused, Types, TimerType
<1>2. RecoveryType'
  BY <1>1, ScheduledIsBoolean DEF Types, RecoveryType
<1>3. ASSUME NEW j \in Jobs, ReplayDeliver(r, j)
      PROVE  Types'
  <2> DEFINE rest == [r EXCEPT !.todo = @ \ {j}]
  <2>1. rest \in Replay
    BY DEF Replay
  <2>2. replays' \subseteq replays \cup {rest}
    BY <1>3 DEF ReplayDeliver, Continue
  <2>3. ReplayType'
    BY <2>1, <2>2 DEF Types, ReplayType
  <2>4. CASE Send(j, FALSE, timers) /\ UNCHANGED faults
    BY <2>4, <2>3, <1>1, <1>2, SendType, FaultIsCounted DEF Types, LifeType, TimerType
  <2>5. CASE SendFails(j, FALSE, timers)
    BY <2>5, <2>3, <1>1, <1>2, SendFailsType DEF Types, LifeType, TimerType
  <2>6. CASE UNCHANGED <<table, conn, timers, network, sent, faults>>
    <3>1. RowType' /\ AttemptType'
      BY <2>6, TableRests DEF Types
    <3>2. LifeType' /\ TimerType'
      BY <2>6, <1>1 DEF Types, LifeType, TimerType
    <3>3. NetType' /\ FaultType'
      BY <2>6 DEF Types, NetType, FaultType, network
    <3> QED  BY <3>1, <3>2, <3>3, <2>3, <1>2 DEF Types
  <2> QED  BY <1>3, <2>4, <2>5, <2>6 DEF ReplayDeliver
<1>4. CASE ReplayList(r) \/ ReplayEnd(r) \/ ReplayRefused(r)
  <2>1. UNCHANGED <<table, timers, network, sent>> /\ (Fault \/ UNCHANGED faults)
    BY <1>4 DEF ReplayList, ReplayEnd, ReplayRefused
  <2>2. RowType' /\ AttemptType'
    BY <2>1, TableRests DEF Types
  <2>3. conn' \in {conn, "closing"}
    BY <1>4 DEF ReplayList, ReplayEnd, ReplayRefused
  <2>4. LifeType' /\ TimerType'
    BY <2>1, <2>3, <1>1 DEF Types, LifeType, TimerType
  <2>5. NetType' /\ FaultType'
    BY <2>1, FaultIsCounted DEF Types, NetType, network
  <2>6. ReplayType'
    <3>1. CASE ReplayEnd(r) \/ ReplayRefused(r)
      BY <3>1 DEF Types, ReplayType, ReplayEnd, ReplayRefused
    <3>2. CASE ReplayList(r)
      <4>1. PICK b \in Batches :
              replays' = (replays \ {r}) \cup {[todo |-> b, full |-> Cardinality(b) >= BatchSize]}
        BY <3>2 DEF ReplayList, Continue
      <4>2. b \in SUBSET Jobs
        BY DEF Batches, Listed
      <4>3. (Cardinality(b) >= BatchSize) \in BOOLEAN
        OBVIOUS
      <4>4. [todo |-> b, full |-> Cardinality(b) >= BatchSize] \in Replay
        BY <4>2, <4>3 DEF Replay
      <4> QED  BY <4>1, <4>4 DEF Types, ReplayType
    <3> QED  BY <1>4, <3>1, <3>2
  <2> QED  BY <2>2, <2>4, <2>5, <2>6, <1>2 DEF Types
<1> QED  BY <1>3, <1>4 DEF ReplayStep

LEMMA TimerKeepsTypes ==
  ASSUME Types, NEW j \in Jobs, TimerFires(j)
  PROVE  Types'
<1>1. /\ life' = life /\ missed' \subseteq Jobs /\ UNCHANGED replays
      /\ recovery' = recovery \/ ScheduleRecovery
  BY DEF TimerFires, TimerRetries, TimerGivesUp, TimerFindsNoConnection, TimerRefused, Types,
         TimerType
<1>2. RecoveryType' /\ ReplayType'
  BY <1>1, ScheduledIsBoolean DEF Types, RecoveryType, ReplayType
<1>3. timers \ {j} \in SUBSET Jobs
  BY DEF Types, TimerType
<1>4. CASE Send(j, TRUE, timers \ {j}) /\ (Fault \/ UNCHANGED faults)
  BY <1>1, <1>2, <1>3, <1>4, SendType, FaultIsCounted DEF Types, LifeType, TimerType
<1>5. CASE SendFails(j, TRUE, timers \ {j})
  BY <1>1, <1>2, <1>3, <1>5, SendFailsType DEF Types, LifeType, TimerType
<1>6. CASE TimerGivesUp(j) \/ TimerFindsNoConnection(j) \/ TimerRefused(j)
  <2>1. /\ timers' = timers \ {j} /\ UNCHANGED <<network, sent>>
        /\ Fault \/ UNCHANGED faults
        /\ conn' \in {conn, "closing"}
    BY <1>6 DEF TimerGivesUp, TimerFindsNoConnection, TimerRefused
  <2>2. RowType' /\ AttemptType'
    BY <1>6 DEF TimerGivesUp, TimerFindsNoConnection, TimerRefused, Types, RowType, RowStatus,
                AttemptType, table
  <2>3. LifeType' /\ TimerType'
    BY <2>1, <1>1 DEF Types, LifeType, TimerType
  <2>4. NetType' /\ FaultType'
    BY <2>1, FaultIsCounted DEF Types, NetType, network
  <2> QED  BY <2>2, <2>3, <2>4, <1>2 DEF Types
<1> QED  BY <1>4, <1>5, <1>6 DEF TimerFires, TimerRetries

LEMMA CutKeepsTypes == ASSUME NetType, Cut, UNCHANGED sent PROVE NetType'
<1>1. PICK late \in SUBSET wire : received' = received \cup {x[1] : x \in late}
  BY DEF Cut
<1>2. {x[1] : x \in late} \subseteq Jobs
  BY DEF NetType
<1> QED  BY <1>1, <1>2 DEF Cut, NetType

LEMMA ClearedTypes ==
  ASSUME Types, ClearTimers
  PROVE  RowType' /\ AttemptType' /\ timers' = {}
<1>1. row' \in [Jobs -> RowStatus]
  BY DEF Types, RowType, RowStatus, ClearTimers
<1>2. due' \in [Jobs -> BOOLEAN]
  BY DEF ClearTimers
<1>3. UNCHANGED <<retryCount, attempts>> /\ timers' = {}
  BY DEF ClearTimers
<1> QED  BY <1>1, <1>2, <1>3 DEF Types, RowType, AttemptType

LEMMA DieKeepsTypes ==
  ASSUME Types, Die, RowType', AttemptType', Fault
  PROVE  Types'
<1>1. LifeType' /\ TimerType' /\ RecoveryType' /\ ReplayType'
  BY DEF Die, LifeType, TimerType, RecoveryType, ReplayType
<1>2. NetType' /\ FaultType'
  BY CutKeepsTypes, FaultIsCounted DEF Die, Types
<1> QED  BY <1>1, <1>2 DEF Types

LEMMA AckKeepsTypes ==
  ASSUME Types, NEW j \in Jobs, HandleAck(j)
  PROVE  /\ RowType' /\ AttemptType' /\ LifeType' /\ TimerType' /\ RecoveryType'
         /\ ReplayType' /\ UNCHANGED <<wire, received, sent>>
<1>1. RowType' /\ TimerType'
  BY DEF HandleAck, Types, RowType, RowStatus, TimerType
<1>2. /\ AttemptType' /\ LifeType' /\ ReplayType' /\ UNCHANGED <<wire, received, sent>>
      /\ ScheduleRecovery
  BY DEF HandleAck, Types, AttemptType, LifeType, ReplayType
<1> QED  BY <1>1, <1>2, ScheduledIsBoolean

LEMMA TypesAreKept == ASSUME Types, [Next]_vars PROVE Types'
<1>1. /\ RowType /\ AttemptType /\ LifeType /\ TimerType /\ NetType
      /\ RecoveryType /\ ReplayType /\ FaultType
  BY DEF Types
<1>2. ASSUME NEW j \in Jobs, Answer(j)
      PROVE  Types'
  <2>1. RowType' /\ AttemptType' /\ LifeType' /\ RecoveryType' /\ FaultType'
    BY <1>1, <1>2 DEF Answer, RowType, RowStatus, AttemptType, LifeType, RecoveryType, FaultType
  <2>2. TimerType' /\ NetType'
    BY <1>1, <1>2 DEF Answer, StillMissed, TimerType, NetType, network
  <2>3. ReplayType'
    BY <1>1, <1>2, NewReplayIsReplay DEF Answer, ReplayType
  <2> QED  BY <2>1, <2>2, <2>3 DEF Types
<1>3. ASSUME NEW j \in Jobs, BecomeDue(j) \/ RelayReceives(j)
      PROVE  Types'
  <2>1. RowType' /\ AttemptType' /\ FaultType'
    BY <1>1, <1>3 DEF BecomeDue, RelayReceives, RowType, AttemptType, FaultType, table
  <2>2. LifeType' /\ TimerType' /\ RecoveryType' /\ ReplayType'
    BY <1>1, <1>3 DEF BecomeDue, RelayReceives, client, LifeType, TimerType, RecoveryType,
                      ReplayType
  <2>3. NetType'
    BY <1>1, <1>3 DEF BecomeDue, RelayReceives, NetType, AttemptType, network
  <2> QED  BY <2>1, <2>2, <2>3 DEF Types
<1>4. ASSUME NEW j \in Jobs, ReceiveAck(j) \/ ReceiveStrayAck(j)
      PROVE  Types'
  <2>1. acks' \subseteq acks /\ (Fault \/ UNCHANGED faults)
    BY <1>4 DEF ReceiveAck, ReceiveStrayAck
  <2>2. CASE HandleAck(j)
    <3>1. NetType' /\ FaultType'
      BY <1>1, <2>1, <2>2, AckKeepsTypes, FaultIsCounted DEF NetType
    <3> QED  BY <3>1, <2>2, AckKeepsTypes DEF Types
  <2>3. CASE UNCHANGED <<table, client, wire, received, sent, missed>>
    <3>1. RowType' /\ AttemptType'
      BY <1>1, <2>3, TableRests
    <3>2. LifeType' /\ TimerType' /\ RecoveryType' /\ ReplayType'
      BY <1>1, <2>3 DEF client, LifeType, TimerType, RecoveryType, ReplayType
    <3>3. NetType' /\ FaultType'
      BY <1>1, <2>1, <2>3, FaultIsCounted DEF NetType
    <3> QED  BY <3>1, <3>2, <3>3 DEF Types
  <2> QED  BY <1>4, <2>2, <2>3 DEF ReceiveAck, ReceiveStrayAck
<1>5. ASSUME NEW j \in Jobs, CrashBeforeSend(j)
      PROVE  Types'
  <2>1. RowType' /\ AttemptType'
    BY <1>1, <1>5, StartedType DEF CrashBeforeSend
  <2> QED  BY <1>5, <2>1, DieKeepsTypes DEF CrashBeforeSend
<1>6. CASE Crash
  <2>1. RowType' /\ AttemptType'
    BY <1>1, <1>6, TableRests DEF Crash
  <2> QED  BY <1>6, <2>1, DieKeepsTypes DEF Crash
<1>7. CASE RecoveryFires \/ Connect
  <2>1. RowType' /\ AttemptType'
    BY <1>1, <1>7, TableRests DEF RecoveryFires, Connect
  <2>2. LifeType' /\ TimerType' /\ RecoveryType'
    BY <1>1, <1>7 DEF RecoveryFires, Connect, StillMissed, LifeType, TimerType, RecoveryType
  <2>3. NetType' /\ FaultType'
    BY <1>1, <1>7 DEF RecoveryFires, Connect, NetType, FaultType, network
  <2>4. ReplayType'
    BY <1>1, <1>7, NewReplayIsReplay DEF RecoveryFires, Connect, ReplayType
  <2> QED  BY <2>1, <2>2, <2>3, <2>4 DEF Types
<1>8. CASE Lose \/ Disconnect
  <2>1. RowType' /\ AttemptType' /\ FaultType'
    BY <1>1, <1>8, TableRests, FaultIsCounted DEF Lose, Disconnect
  <2>2. LifeType' /\ TimerType' /\ RecoveryType' /\ ReplayType'
    BY <1>1, <1>8 DEF Lose, Disconnect, client, LifeType, TimerType, RecoveryType, ReplayType
  <2>3. NetType'
    BY <1>1, <1>8 DEF Lose, Disconnect, NetType, network
  <2> QED  BY <2>1, <2>2, <2>3 DEF Types
<1>9. CASE FinishClose \/ Stop
  <2>1. RowType' /\ AttemptType' /\ TimerType'
    BY <1>1, <1>9, ClearedTypes DEF FinishClose, Stop, TimerType
  <2>2. LifeType' /\ RecoveryType' /\ ReplayType'
    BY <1>1, <1>9 DEF FinishClose, Stop, LifeType, RecoveryType, ReplayType
  <2>3. FaultType'
    BY <1>1, <1>9, FaultIsCounted DEF FinishClose, Stop
  <2>4. NetType'
    BY <1>1, <1>9, CutKeepsTypes DEF FinishClose, Stop, NetType, network
  <2> QED  BY <2>1, <2>2, <2>3, <2>4 DEF Types
<1>10. CASE Stopped \/ Start
  <2>1. RowType' /\ AttemptType'
    BY <1>1, <1>10 DEF Stopped, Start, RowType, RowStatus, AttemptType, table
  <2>2. LifeType' /\ TimerType' /\ RecoveryType' /\ ReplayType'
    BY <1>1, <1>10 DEF Stopped, Start, LifeType, TimerType, RecoveryType, ReplayType
  <2>3. NetType' /\ FaultType'
    BY <1>1, <1>10 DEF Stopped, Start, NetType, FaultType, network
  <2> QED  BY <2>1, <2>2, <2>3 DEF Types
<1>11. CASE UNCHANGED vars
  <2>1. RowType' /\ AttemptType'
    BY <1>1, <1>11, TableRests DEF vars
  <2>2. LifeType' /\ TimerType' /\ RecoveryType' /\ ReplayType'
    BY <1>1, <1>11 DEF vars, client, LifeType, TimerType, RecoveryType, ReplayType
  <2>3. NetType' /\ FaultType'
    BY <1>1, <1>11 DEF vars, network, NetType, FaultType
  <2> QED  BY <2>1, <2>2, <2>3 DEF Types
<1> QED
  BY <1>2, <1>3, <1>4, <1>5, <1>6, <1>7, <1>8, <1>9, <1>10, <1>11, TimerKeepsTypes,
     ReplayKeepsTypes DEF Next

-----------------------------------------------------------------------------
(* Every message on its way is on record.                                  *)

\* No attempt is forgotten, and what is on its way now was so before or has
\* just been recorded.
Recorded ==
  /\ \A j \in Jobs : attempts[j] \subseteq attempts'[j]
  /\ \A x \in wire' \cup acks' : x \in wire \cup acks \/ x[2] \in attempts'[x[1]]

NothingNew == UNCHANGED attempts /\ wire' \cup acks' \subseteq wire \cup acks

LEMMA SendRecords ==
  ASSUME Types, NEW j \in Jobs, NEW retry \in BOOLEAN, NEW ts, Send(j, retry, ts)
  PROVE  Recorded
<1>1. attempts' = [attempts EXCEPT ![j] = attempts[j] \cup {NextId(j)}]
  BY DEF Send, Started
<1>2. attempts \in [Jobs -> SUBSET Nat]
  BY DEF Types, AttemptType
<1>3. NextId(j) \in attempts'[j] /\ \A k \in Jobs : attempts[k] \subseteq attempts'[k]
  BY <1>1, <1>2
<1>4. wire' \cup acks' = wire \cup acks \cup {<<j, NextId(j)>>}
  BY DEF Send
<1> QED  BY <1>3, <1>4 DEF Recorded

LEMMA CrashRecords ==
  ASSUME Types, NEW j \in Jobs, CrashBeforeSend(j)
  PROVE  Recorded
<1>1. wire' \cup acks' \subseteq wire \cup acks
  BY DEF CrashBeforeSend, Die, Cut
<1>2. attempts' = [attempts EXCEPT ![j] = attempts[j] \cup {NextId(j)}]
  BY DEF CrashBeforeSend, Started
<1> QED  BY <1>1, <1>2 DEF Recorded, Types, AttemptType

LEMMA StepsRecord ==
  ASSUME Types, [Next]_vars
  PROVE  Recorded \/ NothingNew
<1>1. ASSUME NEW j \in Jobs, Answer(j) \/ BecomeDue(j)
      PROVE  NothingNew
  BY <1>1 DEF Answer, BecomeDue, network, NothingNew
<1>2. ASSUME NEW j \in Jobs, TimerFires(j)
      PROVE  Recorded \/ NothingNew
  <2>1. CASE Send(j, TRUE, timers \ {j})
    BY <2>1, SendRecords
  <2>2. CASE SendFails(j, TRUE, timers \ {j})
    BY <2>2 DEF SendFails, ForgetAttempt, network, NothingNew
  <2>3. CASE TimerGivesUp(j) \/ TimerFindsNoConnection(j) \/ TimerRefused(j)
    BY <2>3 DEF TimerGivesUp, TimerFindsNoConnection, TimerRefused, network, table, NothingNew
  <2> QED  BY <1>2, <2>1, <2>2, <2>3 DEF TimerFires, TimerRetries
<1>3. ASSUME NEW j \in Jobs, RelayReceives(j)
      PROVE  NothingNew
  BY <1>3 DEF RelayReceives, table, NothingNew
<1>4. ASSUME NEW j \in Jobs, ReceiveAck(j) \/ ReceiveStrayAck(j)
      PROVE  NothingNew
  BY <1>4 DEF ReceiveAck, ReceiveStrayAck, HandleAck, table, NothingNew
<1>5. ASSUME NEW j \in Jobs, CrashBeforeSend(j)
      PROVE  Recorded
  BY <1>5, CrashRecords
<1>6. ASSUME NEW r \in Replay, ReplayStep(r)
      PROVE  Recorded \/ NothingNew
  <2>1. ASSUME NEW j \in Jobs, ReplayDeliver(r, j)
        PROVE  Recorded \/ NothingNew
    <3>1. CASE Send(j, FALSE, timers)
      BY <3>1, SendRecords
    <3>2. CASE SendFails(j, FALSE, timers)
      BY <3>2 DEF SendFails, ForgetAttempt, network, NothingNew
    <3>3. CASE UNCHANGED <<table, conn, timers, network, sent, faults>>
      BY <3>3 DEF table, network, NothingNew
    <3> QED  BY <2>1, <3>1, <3>2, <3>3 DEF ReplayDeliver
  <2>2. CASE ReplayList(r) \/ ReplayEnd(r) \/ ReplayRefused(r)
    BY <2>2 DEF ReplayList, ReplayEnd, ReplayRefused, table, network, NothingNew
  <2> QED  BY <1>6, <2>1, <2>2 DEF ReplayStep
<1>7. CASE RecoveryFires \/ Lose \/ Connect \/ Disconnect
  BY <1>7 DEF RecoveryFires, Lose, Connect, Disconnect, table, network, NothingNew
<1>8. CASE FinishClose \/ Stop \/ Stopped \/ Crash \/ Start
  BY <1>8 DEF FinishClose, Stop, Stopped, Crash, Start, Die, Cut, ClearTimers, table, network,
              NothingNew
<1>9. CASE UNCHANGED vars
  BY <1>9 DEF vars, table, network, NothingNew
<1> QED
  BY <1>1, <1>2, <1>3, <1>4, <1>5, <1>6, <1>7, <1>8, <1>9 DEF Next

LEMMA HistoryIsKept ==
  ASSUME Types, HistoryResolves, [Next]_vars
  PROVE  HistoryResolves'
<1>1. wire \subseteq Jobs \X Nat /\ acks \subseteq Jobs \X Nat
  BY DEF Types, NetType
<1>2. CASE Recorded
  BY <1>1, <1>2 DEF Recorded, HistoryResolves
<1>3. CASE NothingNew
  BY <1>3 DEF NothingNew, HistoryResolves
<1> QED  BY <1>2, <1>3, StepsRecord

-----------------------------------------------------------------------------
(* No undelivered result is left unwatched.                                *)

\* While the process lives the timers are those of the rows in Delivering, but
\* for what a refused statement left.
LEMMA DeliveringIsKept ==
  ASSUME Types, OffIsDown, DeliveringIsWatched, [Next]_vars
  PROVE  OffIsDown' /\ DeliveringIsWatched'
<1>1. row \in [Jobs -> RowStatus] /\ timers \subseteq Jobs /\ LifeType
  BY DEF Types, RowType, TimerType
<1>2. ASSUME NEW j \in Jobs, Answer(j)
      PROVE  OffIsDown' /\ DeliveringIsWatched'
  BY <1>1, <1>2 DEF Answer, StillMissed, OffIsDown, DeliveringIsWatched
<1>3. ASSUME NEW j \in Jobs, TimerFires(j)
      PROVE  OffIsDown' /\ DeliveringIsWatched'
  <2>1. j \in timers /\ conn # "down" /\ life # "off" /\ life' = life
    BY <1>3 DEF TimerFires, DeliveringIsWatched, OffIsDown
  <2>2. CASE Send(j, TRUE, timers \ {j}) /\ UNCHANGED missed
    BY <1>1, <2>1, <2>2 DEF Send, Started, OffIsDown, DeliveringIsWatched
  <2>3. CASE SendFails(j, TRUE, timers \ {j}) /\ UNCHANGED missed
    BY <1>1, <2>1, <2>3 DEF SendFails, OffIsDown, DeliveringIsWatched
  <2>4. CASE (TimerGivesUp(j) \/ TimerFindsNoConnection(j)) /\ UNCHANGED missed
    BY <1>1, <2>1, <2>4 DEF TimerGivesUp, TimerFindsNoConnection, OffIsDown, DeliveringIsWatched
  <2>5. CASE TimerRefused(j)
    BY <1>1, <2>1, <2>5 DEF TimerRefused, table, OffIsDown, DeliveringIsWatched
  <2> QED  BY <1>3, <2>2, <2>3, <2>4, <2>5 DEF TimerFires, TimerRetries
<1>4. ASSUME NEW j \in Jobs, BecomeDue(j) \/ RelayReceives(j)
      PROVE  OffIsDown' /\ DeliveringIsWatched'
  BY <1>1, <1>4 DEF BecomeDue, RelayReceives, client, table, OffIsDown, DeliveringIsWatched
<1>5. ASSUME NEW j \in Jobs, ReceiveAck(j) \/ ReceiveStrayAck(j)
      PROVE  OffIsDown' /\ DeliveringIsWatched'
  <2>1. CASE HandleAck(j)
    BY <1>1, <2>1 DEF HandleAck, Settles, OffIsDown, DeliveringIsWatched
  <2>2. CASE UNCHANGED <<table, client, wire, received, sent, missed>>
    BY <2>2 DEF table, client, OffIsDown, DeliveringIsWatched
  <2> QED  BY <1>5, <2>1, <2>2 DEF ReceiveAck, ReceiveStrayAck
<1>6. ASSUME NEW r \in Replay, ReplayStep(r)
      PROVE  OffIsDown' /\ DeliveringIsWatched'
  <2>1. ASSUME NEW j \in Jobs, ReplayDeliver(r, j), UNCHANGED missed
        PROVE  OffIsDown' /\ DeliveringIsWatched'
    <3>1. life' = life
      BY <2>1 DEF ReplayDeliver
    <3>2. CASE Connected /\ CanStart(j, FALSE) /\ Send(j, FALSE, timers)
      BY <1>1, <2>1, <3>1, <3>2 DEF Send, Started, Connected, OffIsDown, DeliveringIsWatched
    <3>3. CASE Connected /\ CanStart(j, FALSE) /\ SendFails(j, FALSE, timers)
      <4>1. row[j] # "Delivering"
        BY <3>3 DEF CanStart, Listed
      <4> QED
        BY <1>1, <2>1, <3>1, <3>3, <4>1 DEF SendFails, Connected, OffIsDown, DeliveringIsWatched
    <3>4. CASE UNCHANGED <<table, conn, timers, network, sent, faults>>
      BY <2>1, <3>1, <3>4 DEF table, OffIsDown, DeliveringIsWatched
    <3> QED  BY <2>1, <3>2, <3>3, <3>4 DEF ReplayDeliver
  <2>2. CASE (ReplayList(r) \/ ReplayEnd(r)) /\ UNCHANGED missed
    BY <2>2 DEF ReplayList, ReplayEnd, table, OffIsDown, DeliveringIsWatched
  <2>3. CASE ReplayRefused(r)
    BY <2>3, <1>1 DEF ReplayRefused, Connected, table, OffIsDown, DeliveringIsWatched
  <2> QED  BY <1>6, <2>1, <2>2, <2>3 DEF ReplayStep
<1>7. CASE RecoveryFires \/ Lose \/ Connect \/ Disconnect
  BY <1>1, <1>7 DEF RecoveryFires, Lose, Connect, Disconnect, StillMissed, Connected, table,
                    client, OffIsDown, DeliveringIsWatched
<1>8. CASE FinishClose \/ Stop
  BY <1>1, <1>8 DEF FinishClose, Stop, ClearTimers, Connected, LifeType, OffIsDown,
                    DeliveringIsWatched
<1>9. CASE Stopped \/ Start
  BY <1>1, <1>9 DEF Stopped, Start, table, RowType, OffIsDown, DeliveringIsWatched
<1>10. CASE Die
  BY <1>10 DEF Die, OffIsDown, DeliveringIsWatched
<1>11. CASE UNCHANGED vars
  BY <1>11 DEF vars, table, client, OffIsDown, DeliveringIsWatched
<1> QED
  BY <1>2, <1>3, <1>4, <1>5, <1>6, <1>7, <1>8, <1>9, <1>10, <1>11
  DEF Next, Crash, CrashBeforeSend

\* A replay will still look at j, in its batch or in one to come.
Covered(j) == \E r \in replays : j \in r.todo \/ r.full

\* BackoffIsWatched without its condition.
Watched ==
  /\ \A j \in Jobs \ missed : row[j] = "AckFailed" => recovery \/ replays # {}
  /\ \A j \in Jobs \ missed : row[j] = "Pending" => Covered(j)

LEMMA BackoffMeansWatched == BackoffIsWatched <=> (Connected => Watched)
BY DEF BackoffIsWatched, Watched, Covered

\* The watchers stay, and no row comes into their care.
Quieter ==
  /\ conn' = conn /\ recovery' = recovery /\ replays' = replays
  /\ missed \subseteq missed'
  /\ \A j \in Jobs : row'[j] \in {row[j], "Delivering"}

LEMMA QuieterStaysWatched ==
  ASSUME BackoffIsWatched, Quieter
  PROVE  BackoffIsWatched'
BY DEF BackoffIsWatched, Quieter, Connected

\* A batch that is not full holds every row that is listed.
LEMMA BatchIsAll ==
  ASSUME IsFiniteSet(Jobs), NEW b \in Batches, Cardinality(b) < BatchSize
  PROVE  b = Listed
<1>1. IsFiniteSet(Listed)
  BY FS_Subset DEF Listed
<1>2. Cardinality(Listed) \in Nat /\ BatchSize \in Nat
  BY <1>1, FS_CardinalityType, OutboxAssumption
<1>3. b \in SUBSET Listed /\ Cardinality(b) = Cardinality(Listed)
  BY <1>2 DEF Batches
<1> QED  BY <1>1, <1>3, FS_Subset

LEMMA ReplayStaysWatched ==
  ASSUME IsFiniteSet(Jobs), Types, BackoffIsWatched, NEW r \in Replay, ReplayStep(r)
  PROVE  BackoffIsWatched'
<1>1. r \in replays /\ row \in [Jobs -> RowStatus]
  BY DEF ReplayStep, Types, RowType
<1>2. SUFFICES ASSUME Connected' PROVE Watched'
  BY DEF BackoffIsWatched, Watched, Covered
<1>3. ASSUME NEW j \in Jobs, ReplayDeliver(r, j), UNCHANGED missed
      PROVE  Watched'
  <2> DEFINE rest == [r EXCEPT !.todo = @ \ {j}]
  <2>1. rest.todo = r.todo \ {j} /\ rest.full = r.full
    BY DEF Replay
  <2>2. Connected /\ replays' = (replays \ {r}) \cup {rest}
    BY <1>2, <1>3 DEF ReplayDeliver, SendFails, Send, Continue, Connected
  <2>3. \A k \in Jobs : row'[k] = row[k] \/ row'[k] = "Delivering"
    BY <1>1, <1>2, <1>3 DEF ReplayDeliver, SendFails, Send, Started, Connected, table
  <2>4. row'[j] # "Pending"
    BY <1>1, <1>2, <1>3, <2>2 DEF ReplayDeliver, CanStart, Listed, SendFails, Send, Started,
                                  Connected, table
  <2>5. recovery' = recovery
    BY <1>3 DEF ReplayDeliver
  <2>6. Watched
    BY <2>2, BackoffMeansWatched
  <2>7. ASSUME NEW k \in Jobs, k # j, Covered(k)
        PROVE  Covered(k)'
    BY <2>1, <2>2, <2>7 DEF Covered
  <2> QED
    BY <1>3, <2>2, <2>3, <2>4, <2>5, <2>6, <2>7 DEF Watched
<1>4. CASE ReplayList(r) /\ UNCHANGED missed
  <2>1. PICK b \in Batches :
          replays' = (replays \ {r}) \cup {[todo |-> b, full |-> Cardinality(b) >= BatchSize]}
    BY <1>4 DEF ReplayList, Continue
  <2>2. ASSUME NEW j \in Jobs, row[j] = "Pending", Covered(j)
        PROVE  Covered(j)'
    <3>1. j \in Listed
      BY <2>2 DEF Listed
    <3>2. CASE Cardinality(b) >= BatchSize
      <4>1. [todo |-> b, full |-> TRUE] \in replays'
        <5>1. (Cardinality(b) >= BatchSize) = TRUE
          BY <3>2
        <5> QED  BY <2>1, <5>1, Zenon
      <4> QED  BY <4>1 DEF Covered
    <3>3. CASE ~(Cardinality(b) >= BatchSize)
      <4>1. IsFiniteSet(b)
        BY FS_Subset DEF Batches, Listed
      <4>2. Cardinality(b) < BatchSize
        BY <3>3, <4>1, FS_CardinalityType, OutboxAssumption
      <4>3. j \in b
        BY <3>1, <4>2, BatchIsAll
      <4>4. [todo |-> b, full |-> Cardinality(b) >= BatchSize] \in replays'
        BY <2>1
      <4> QED  BY <4>3, <4>4 DEF Covered
    <3> QED  BY <3>2, <3>3
  <2>3. Connected /\ UNCHANGED <<row, recovery>>
    BY <1>4 DEF ReplayList, table
  <2>4. replays' # {}
    BY <2>1
  <2> QED  BY <1>4, <2>2, <2>3, <2>4, BackoffMeansWatched DEF Watched
<1>5. CASE ReplayEnd(r) /\ UNCHANGED missed
  <2>1. /\ Connected /\ UNCHANGED row /\ replays' = replays \ {r}
        /\ recovery' = (\E j \in Jobs : row'[j] = "AckFailed")
    BY <1>2, <1>5 DEF ReplayEnd, ScheduleRecovery, Connected, table
  <2>2. ASSUME NEW j \in Jobs, row[j] = "Pending", Covered(j)
        PROVE  Covered(j)'
    <3>1. j \in Listed
      BY <2>2 DEF Listed
    <3>2. ~(j \in r.todo \/ r.full)
      BY <1>5, <2>1, <3>1 DEF ReplayEnd
    <3> QED  BY <2>1, <2>2, <3>2 DEF Covered
  <2>3. \A j \in Jobs : row'[j] = "AckFailed" => recovery'
    BY <2>1
  <2> QED  BY <1>5, <2>1, <2>2, <2>3, BackoffMeansWatched DEF Watched
<1>6. CASE ReplayRefused(r)
  <2>1. /\ UNCHANGED row
        /\ missed' = missed \cup {j \in Jobs : row[j] \in {"Pending", "AckFailed"}}
    BY <1>2, <1>6 DEF ReplayRefused, Connected, table
  <2> QED  BY <2>1 DEF Watched
<1> QED  BY <1>3, <1>4, <1>5, <1>6 DEF ReplayStep

LEMMA BackoffIsKept ==
  ASSUME IsFiniteSet(Jobs), Types, OffIsDown, BackoffIsWatched, [Next]_vars
  PROVE  BackoffIsWatched'
<1>1. row \in [Jobs -> RowStatus]
  BY DEF Types, RowType
<1>2. SUFFICES ASSUME Connected' PROVE Watched' \/ Quieter
  BY QuieterStaysWatched DEF BackoffIsWatched, Watched, Covered
<1>3. ASSUME NewReplay \in replays'
      PROVE  Watched'
  BY <1>3 DEF NewReplay, Watched, Covered
<1>4. ASSUME NEW j \in Jobs, Answer(j)
      PROVE  Watched'
  BY <1>2, <1>3, <1>4 DEF Answer, Connected
<1>5. ASSUME NEW j \in Jobs, TimerFires(j)
      PROVE  Watched' \/ Quieter
  <2>1. CASE Send(j, TRUE, timers \ {j}) /\ UNCHANGED <<recovery, missed>>
    BY <1>1, <1>5, <2>1 DEF TimerFires, Send, Started, Quieter
  <2>2. CASE TimerGivesUp(j) /\ UNCHANGED missed
    <3>1. /\ Connected /\ \A k \in Jobs : row'[k] = "AckFailed" => recovery'
          /\ \A k \in Jobs : row'[k] \in {row[k], "AckFailed"}
          /\ UNCHANGED replays
      BY <1>1, <1>2, <1>5, <2>2 DEF TimerFires, TimerGivesUp, ScheduleRecovery, Connected
    <3> QED  BY <2>2, <3>1 DEF BackoffIsWatched, Watched, Covered
  <2>3. CASE TimerRefused(j)
    BY <1>2, <1>5, <2>3 DEF TimerFires, TimerRefused, Connected, table, Quieter
  <2>4. ~SendFails(j, TRUE, timers \ {j}) /\ ~TimerFindsNoConnection(j)
    BY <1>2 DEF SendFails, TimerFindsNoConnection, Connected
  <2> QED  BY <1>5, <2>1, <2>2, <2>3, <2>4 DEF TimerFires, TimerRetries
<1>6. ASSUME NEW j \in Jobs, BecomeDue(j) \/ RelayReceives(j)
      PROVE  Quieter
  BY <1>6 DEF BecomeDue, RelayReceives, client, table, Quieter
<1>7. ASSUME NEW j \in Jobs, ReceiveAck(j) \/ ReceiveStrayAck(j)
      PROVE  Watched' \/ Quieter
  <2>1. CASE HandleAck(j)
    <3>1. /\ Connected /\ \A k \in Jobs : row'[k] = "AckFailed" => recovery'
          /\ UNCHANGED replays
      BY <1>2, <2>1 DEF HandleAck, ScheduleRecovery, Connected
    <3>2. \A k \in Jobs : row'[k] = "Pending" =>
          row[k] = "Pending" /\ (k \in missed => k \in missed')
      BY <1>1, <2>1 DEF HandleAck
    <3> QED  BY <3>1, <3>2 DEF BackoffIsWatched, Watched, Covered
  <2>2. CASE UNCHANGED <<table, client, wire, received, sent, missed>>
    BY <2>2 DEF table, client, Quieter
  <2> QED  BY <1>7, <2>1, <2>2 DEF ReceiveAck, ReceiveStrayAck
<1>8. ASSUME NEW r \in Replay, ReplayStep(r)
      PROVE  Watched'
  BY <1>2, <1>8, ReplayStaysWatched DEF BackoffIsWatched, Watched, Covered
<1>9. CASE RecoveryFires \/ Connect
  BY <1>3, <1>9 DEF RecoveryFires, Connect
<1>10. CASE Lose \/ UNCHANGED vars
  BY <1>10 DEF Lose, vars, table, client, Quieter
<1>11. ~(Disconnect \/ FinishClose \/ Stop \/ Stopped)
  BY <1>2 DEF Disconnect, FinishClose, Stop, Stopped, Connected
<1>12. ~Start /\ ~Die
  BY <1>2 DEF Start, Die, OffIsDown, Connected
<1> QED
  BY <1>4, <1>5, <1>6, <1>7, <1>8, <1>9, <1>10, <1>11, <1>12 DEF Next, Crash, CrashBeforeSend

-----------------------------------------------------------------------------
(* The theorems.                                                           *)

\* The state of the outbox and its client stays within its types, the ids of a
\* job's messages among them.
THEOREM TypeCorrect == Spec => []TypeOK
<1>1. Init => Types
  BY InitIsGood
<1>2. Types /\ [Next]_vars => Types'
  BY TypesAreKept
<1>3. Types => TypeOK
  BY TypesMeanTypeOK
<1> QED  BY <1>1, <1>2, <1>3, PTL DEF Spec

\* Every message and every acknowledgement on its way names an attempt that
\* outbox_delivery_attempts still holds.
THEOREM HistoryIsComplete == Spec => []HistoryResolves
<1>1. Init => Types /\ HistoryResolves
  BY InitIsGood
<1>2. Types /\ HistoryResolves /\ [Next]_vars => Types' /\ HistoryResolves'
  BY TypesAreKept, HistoryIsKept
<1> QED  BY <1>1, <1>2, PTL DEF Spec

\* No undelivered result is left without a timer or a replay that will look at
\* it, but those whose own statement the disk refused: for any finite set of
\* jobs, which is what the size of a batch can be counted in.
THEOREM NothingIsForgotten ==
  ASSUME IsFiniteSet(Jobs)
  PROVE  Spec => []UndeliveredIsWatched
<1> DEFINE Inv == Types /\ OffIsDown /\ UndeliveredIsWatched
<1>1. Init => Inv
  BY InitIsGood
<1>2. Inv /\ [Next]_vars => Inv'
  BY TypesAreKept, DeliveringIsKept, BackoffIsKept DEF UndeliveredIsWatched
<1> HIDE DEF Inv
<1>3. Inv => UndeliveredIsWatched
  BY DEF Inv
<1> QED  BY <1>1, <1>2, <1>3, PTL DEF Spec

-----------------------------------------------------------------------------
(* The outbox implements ResultDelivery.                                   *)

\* What the relay has, and what it says it has, was sent and had a result.
SettledIsReceived ==
  /\ \A j \in Jobs : row[j] = "Delivered" => j \in received
  /\ \A j \in received : row[j] # "None"
  /\ \A x \in wire : row[x[1]] # "None"
  /\ \A x \in acks : x[1] \in received

\* A step of the daemon, the network or the relay that neither brings a result
\* nor settles one.
Carries ==
  /\ \A j \in Jobs : /\ row'[j] = "None" <=> row[j] = "None"
                     /\ row'[j] = "Delivered" <=> row[j] = "Delivered"
  /\ received \subseteq received'
  /\ \A j \in received' : j \in received \/ \E x \in wire : x[1] = j
  /\ \A x \in wire' : x \in wire \/ row[x[1]] # "None"
  /\ \A x \in acks' : x \in acks \/ x[1] \in received'

LEMMA CarryingIsReceiving ==
  ASSUME Types, SettledIsReceived, Carries, Types'
  PROVE  SettledIsReceived' /\ Abstract!Receive
<1>1. /\ wire \subseteq Jobs \X Nat /\ acks \subseteq Jobs \X Nat /\ received' \subseteq Jobs
      /\ wire' \subseteq Jobs \X Nat
  BY DEF Types, NetType
<1>2. SettledIsReceived'
  BY <1>1 DEF SettledIsReceived, Carries
<1>3. Abstract!Receive
  BY <1>1 DEF SettledIsReceived, Carries, Abstract!Receive
<1> QED  BY <1>2, <1>3

LEMMA CutReceives ==
  ASSUME Types, SettledIsReceived, Cut
  PROVE  /\ wire' = {} /\ acks' \subseteq acks /\ received \subseteq received'
         /\ \A j \in received' : j \in received \/ \E x \in wire : x[1] = j
<1>1. PICK late \in SUBSET wire : received' = received \cup {x[1] : x \in late}
  BY DEF Cut
<1> QED  BY <1>1 DEF Cut

UnderWay == {"Pending", "Delivering", "AckFailed"}

\* No result comes, and none is settled.
RowsStayOwed == \A j \in Jobs : row'[j] = row[j] \/ {row[j], row'[j]} \subseteq UnderWay

\* Rows as they were, or sent again, and no message but of a row with a result.
Resends ==
  /\ RowsStayOwed
  /\ UNCHANGED received /\ acks' \subseteq acks
  /\ \A x \in wire' : x \in wire \/ row[x[1]] # "None"

LEMMA ResendingIsCarrying == ASSUME Resends PROVE Carries
BY DEF Resends, RowsStayOwed, UnderWay, Carries

LEMMA DeliveryResends ==
  ASSUME Types, NEW j \in Jobs, NEW retry \in BOOLEAN, NEW ts \in SUBSET Jobs,
         row[j] \in {"Pending", "Delivering", "AckFailed"},
         Send(j, retry, ts) \/ SendFails(j, retry, ts)
  PROVE  Resends
BY DEF Types, RowType, Send, Started, SendFails, network, RowsStayOwed, UnderWay, Resends

LEMMA ReplayResends ==
  ASSUME Types, NEW r \in Replay, ReplayStep(r)
  PROVE  Resends
<1>1. ASSUME NEW j \in Jobs, ReplayDeliver(r, j)
      PROVE  Resends
  <2>1. CASE CanStart(j, FALSE) /\ (Send(j, FALSE, timers) \/ SendFails(j, FALSE, timers))
    <3>1. row[j] \in {"Pending", "Delivering", "AckFailed"}
      BY <2>1 DEF CanStart, Listed
    <3> QED  BY <2>1, <3>1, DeliveryResends DEF Types, TimerType
  <2>2. CASE UNCHANGED <<table, conn, timers, network, sent, faults>>
    BY <2>2 DEF table, network, RowsStayOwed, UnderWay, Resends
  <2> QED  BY <1>1, <2>1, <2>2 DEF ReplayDeliver
<1>2. CASE ReplayList(r) \/ ReplayEnd(r) \/ ReplayRefused(r)
  BY <1>2 DEF ReplayList, ReplayEnd, ReplayRefused, table, network, RowsStayOwed, UnderWay,
              Resends
<1> QED  BY <1>1, <1>2 DEF ReplayStep

LEMMA TimerResends ==
  ASSUME Types, NEW j \in Jobs, TimerFires(j)
  PROVE  Resends
<1>1. CASE TimerRetries(j)
  BY <1>1, DeliveryResends DEF TimerRetries, Types, TimerType
<1>2. CASE TimerGivesUp(j) \/ TimerFindsNoConnection(j)
  BY <1>2 DEF TimerGivesUp, TimerFindsNoConnection, network, Types, RowType, RowsStayOwed,
              UnderWay, Resends
<1>3. CASE TimerRefused(j)
  BY <1>3 DEF TimerRefused, table, network, RowsStayOwed, UnderWay, Resends
<1> QED  BY <1>1, <1>2, <1>3 DEF TimerFires

AbstractStep == [Abstract!Next]_(Abstract!vars)

LEMMA AckRefines ==
  ASSUME Types, SettledIsReceived, NEW j \in Jobs, j \in received, HandleAck(j),
         acks' \subseteq acks
  PROVE  SettledIsReceived' /\ AbstractStep
<1>1. row \in [Jobs -> RowStatus] /\ UNCHANGED <<wire, received>>
  BY DEF Types, RowType, HandleAck
<1>2. CASE Settles(j)
  <2>1. row' = [row EXCEPT ![j] = "Delivered"]
    BY <1>2 DEF HandleAck
  <2>2. Abstract!Settle(j)
    BY <1>1, <1>2, <2>1 DEF Settles, Abstract!Settle
  <2>3. SettledIsReceived'
    BY <1>1, <2>1 DEF SettledIsReceived, Types, NetType
  <2> QED  BY <2>2, <2>3 DEF AbstractStep, Abstract!Next
<1>3. CASE ~Settles(j)
  BY <1>1, <1>3 DEF HandleAck, SettledIsReceived, AbstractStep, Abstract!vars
<1> QED  BY <1>2, <1>3

LEMMA AnswerRefines ==
  ASSUME Types, SettledIsReceived, NEW j \in Jobs, Answer(j)
  PROVE  SettledIsReceived' /\ AbstractStep
<1>1. /\ row \in [Jobs -> RowStatus] /\ row[j] = "None"
      /\ row' = [row EXCEPT ![j] = "Pending"] /\ UNCHANGED <<wire, acks, received>>
  BY DEF Types, RowType, Answer, network
<1>2. Abstract!Owe(j)
  BY <1>1 DEF Abstract!Owe
<1>3. SettledIsReceived'
  BY <1>1 DEF SettledIsReceived, Types, NetType
<1> QED  BY <1>2, <1>3 DEF AbstractStep, Abstract!Next

LEMMA StepsCarry ==
  ASSUME ~StrayAcks, Types, SettledIsReceived, [Next]_vars
  PROVE  \/ Carries
         \/ SettledIsReceived' /\ AbstractStep
<1>1. ASSUME NEW j \in Jobs, BecomeDue(j) \/ RelayReceives(j)
      PROVE  Carries
  <2>1. CASE BecomeDue(j)
    BY <2>1 DEF BecomeDue, network, Carries
  <2>2. CASE RelayReceives(j)
    <3>1. PICK m \in attempts[j] :
            <<j, m>> \in wire /\ wire' = wire \ {<<j, m>>} /\ acks' = acks \cup {<<j, m>>}
      BY <2>2 DEF RelayReceives
    <3>2. received' = received \cup {j} /\ UNCHANGED row
      BY <2>2 DEF RelayReceives, table
    <3>3. <<j, m>>[1] = j
      OBVIOUS
    <3> QED  BY <3>1, <3>2, <3>3 DEF Carries
  <2> QED  BY <1>1, <2>1, <2>2
<1>2. ASSUME NEW j \in Jobs, ReceiveAck(j) \/ ReceiveStrayAck(j)
      PROVE  Carries \/ (SettledIsReceived' /\ AbstractStep)
  <2>1. j \in received /\ acks' \subseteq acks
    BY <1>2 DEF ReceiveAck, ReceiveStrayAck, SettledIsReceived
  <2>2. CASE UNCHANGED <<table, client, wire, received, sent, missed>>
    BY <2>1, <2>2 DEF table, Carries
  <2> QED  BY <1>2, <2>1, <2>2, AckRefines DEF ReceiveAck, ReceiveStrayAck
<1>3. ASSUME Die, RowsStayOwed
      PROVE  Carries
  BY <1>3, CutReceives DEF Die, RowsStayOwed, UnderWay, Carries
<1>4. ASSUME NEW j \in Jobs, CrashBeforeSend(j)
      PROVE  Carries
  <2>1. /\ row[j] \in {"Pending", "Delivering", "AckFailed"}
        /\ row' = [row EXCEPT ![j] = "Delivering"]
    BY <1>4 DEF CrashBeforeSend, CanStart, Listed, Started
  <2> QED  BY <1>3, <1>4, <2>1 DEF CrashBeforeSend, Types, RowType, RowsStayOwed, UnderWay
<1>5. CASE Crash
  BY <1>3, <1>5 DEF Crash, table, RowsStayOwed
<1>6. CASE RecoveryFires \/ Lose \/ Connect \/ Disconnect \/ Stopped \/ UNCHANGED vars
  BY <1>6 DEF RecoveryFires, Lose, Connect, Disconnect, Stopped, vars, table, network, Carries
<1>7. ASSUME ClearTimers
      PROVE  RowsStayOwed
  BY <1>7 DEF ClearTimers, RowsStayOwed, UnderWay
<1>8. CASE FinishClose
  BY <1>7, <1>8, CutReceives DEF FinishClose, RowsStayOwed, UnderWay, Carries
<1>9. CASE Stop
  BY <1>7, <1>9 DEF Stop, network, RowsStayOwed, UnderWay, Carries
<1>10. CASE Start
  BY <1>10 DEF Start, network, Carries
<1> QED
  BY <1>1, <1>2, <1>4, <1>5, <1>6, <1>8, <1>9, <1>10, AnswerRefines, ReplayResends, TimerResends,
     ResendingIsCarrying DEF Next

\* Against a relay that acknowledges only what it received, every behaviour of
\* the outbox is one that ResultDelivery allows: a result is settled only after
\* the relay received it, and stays settled, through every loss, disconnect,
\* refused statement and crash.
THEOREM OutboxKeepsThePromise ==
  ASSUME ~StrayAcks
  PROVE  Spec => ImplementsResultDelivery
<1> DEFINE Inv == Types /\ SettledIsReceived
<1>1. Init => Inv /\ Abstract!Init
  <2>1. Init => Types
    BY InitIsGood
  <2>2. Init => SettledIsReceived /\ Abstract!Init
    BY DEF Init, SettledIsReceived, Abstract!Init
  <2> QED  BY <2>1, <2>2
<1>2. Inv /\ [Next]_vars => Inv' /\ [Abstract!Next]_(Abstract!vars)
  <2> SUFFICES ASSUME Inv, [Next]_vars PROVE Inv' /\ [Abstract!Next]_(Abstract!vars)
    OBVIOUS
  <2>1. Types'
    BY TypesAreKept
  <2>2. CASE Carries
    BY <2>1, <2>2, CarryingIsReceiving DEF Abstract!Next
  <2> QED  BY <2>1, <2>2, StepsCarry DEF AbstractStep
<1> HIDE DEF Inv
<1> QED  BY <1>1, <1>2, PTL DEF Spec, ImplementsResultDelivery, Abstract!Spec
=============================================================================
