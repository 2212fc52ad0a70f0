----------------------- MODULE KafkaWSConsumerProofs ------------------------
(***************************************************************************)
(* Proofs about the delivery pipeline, for every number of replicas,       *)
(* chats, rows, partitions and failures.  They rest on the invariants of   *)
(* the relays, which the consumers do not disturb.                         *)
(***************************************************************************)
EXTENDS KafkaWSConsumer, OutboxRelayProofs

RelayInv == TypeOK /\ VisibleInv /\ AckInv /\ OrderInv

PipelineInv == RelayInv /\ ConsumerTypeOK /\ ReaderInv

-----------------------------------------------------------------------------
(* The next message of a partition is the first one the reader has not     *)
(* passed.                                                                 *)
LEMMA NextIsFirst ==
  ASSUME NEW r, NEW p, Unread(r, p) # {}, emitted \in Seq(Rows)
  PROVE  /\ NextMessage(r, p) \in Topic(p) /\ NextMessage(r, p) \in Nat
         /\ offset[r][p] < NextMessage(r, p)
         /\ \A m \in Topic(p) : offset[r][p] < m => NextMessage(r, p) <= m
<1>1. Unread(r, p) \in SUBSET Nat
  BY DEF Unread, Topic
<1>2. \E i \in Unread(r, p) : \A k \in Unread(r, p) : i <= k
  BY <1>1, HasLeast
<1>3. /\ NextMessage(r, p) \in Unread(r, p)
      /\ \A k \in Unread(r, p) : NextMessage(r, p) <= k
  BY <1>2 DEF NextMessage
<1> QED
  BY <1>1, <1>3 DEF Unread

(* Partitions only grow, at their ends.                                    *)
LEMMA TopicGrows ==
  ASSUME TypeOK, emitted' \in Seq(Rows), Len(emitted) <= Len(emitted'),
         \A m \in 1..Len(emitted) : emitted'[m] = emitted[m],
         \A m \in 1..Len(emitted) : chat'[emitted[m]] = chat[emitted[m]]
  PROVE  \A p \in Partitions :
           /\ Topic(p) \subseteq Topic(p)' /\ Topic(p) \subseteq 1..Len(emitted)
           /\ \A m \in Topic(p)' : m \in Topic(p) \/ Len(emitted) < m
           /\ Topic(p)' \subseteq Nat
<1>1. Len(emitted) \in Nat /\ Len(emitted') \in Nat
  BY DEF TypeOK
<1>2. 1..Len(emitted) \subseteq 1..Len(emitted')
  BY <1>1
<1> QED
  BY <1>1, <1>2 DEF Topic

(* Steps of the writers and the relays: the readers stand still while      *)
(* their partitions grow.                                                  *)
LEMMA ReadersStandStill ==
  ASSUME PipelineInv, TypeOK', UNCHANGED consumerVars, UNCHANGED <<hub, up>>,
         Len(emitted) <= Len(emitted'),
         \A m \in 1..Len(emitted) : emitted'[m] = emitted[m],
         \A m \in 1..Len(emitted) : chat'[emitted[m]] = chat[emitted[m]]
  PROVE  ConsumerTypeOK' /\ ReaderInv'
<1>0. /\ TypeOK /\ ConsumerTypeOK /\ ReaderInv /\ UNCHANGED <<offset, readErrs, fanoutErrs>>
      /\ emitted' \in Seq(Rows) /\ Len(emitted) \in Nat
  BY DEF PipelineInv, RelayInv, consumerVars, TypeOK
<1>1. \A p \in Partitions :
        /\ Topic(p) \subseteq Topic(p)' /\ Topic(p) \subseteq 1..Len(emitted)
        /\ \A m \in Topic(p)' : m \in Topic(p) \/ Len(emitted) < m
        /\ Topic(p)' \subseteq Nat
  BY <1>0, TopicGrows
<1>2. \A r \in Replicas, p \in Partitions : offset[r][p] \in Nat /\ offset[r][p] <= Len(emitted)
  BY <1>0, <1>1 DEF ConsumerTypeOK
<1>3. ConsumerTypeOK'
  BY <1>0, <1>1 DEF ConsumerTypeOK
<1>4. ASSUME NEW r \in Replicas, NEW j \in hub[r]
      PROVE  /\ r \in up
             /\ \E p \in Partitions : \E m \in Topic(p)' : emitted'[m] = j /\ m <= offset[r][p]
  <2>1. r \in up
    BY <1>0 DEF ReaderInv
  <2>2. PICK p \in Partitions : \E m \in Topic(p) : emitted[m] = j /\ m <= offset[r][p]
    BY <1>0 DEF ReaderInv
  <2>3. PICK m \in Topic(p) : emitted[m] = j /\ m <= offset[r][p]
    BY <2>2
  <2>4. m \in Topic(p)' /\ emitted'[m] = emitted[m]
    BY <1>1
  <2> QED
    BY <2>1, <2>3, <2>4
<1>5. NothingLost => NothingLost'
  <2>1. SUFFICES ASSUME NothingLost, NEW r \in up, NEW p \in Partitions, NEW m \in Topic(p)',
                        m <= offset[r][p]
                 PROVE  emitted'[m] \in hub[r]
    BY <1>0 DEF NothingLost
  <2>2. r \in Replicas
    BY <1>0 DEF TypeOK
  <2>3. m \in Topic(p)
    BY <1>1, <1>2, <2>1, <2>2
  <2>4. emitted'[m] = emitted[m]
    BY <1>1, <2>3
  <2> QED
    BY <2>1, <2>3, <2>4 DEF NothingLost
<1>6. ReaderInv'
  BY <1>0, <1>4, <1>5 DEF ReaderInv
<1> QED
  BY <1>3, <1>6

(* What the steps of the writers and the relays do to the topic.           *)
LEMMA TopicStep ==
  ASSUME UseKafka, RelayInv,
         WriterStep \/ \E r \in Replicas : RelayStep(r)
  PROVE  /\ UNCHANGED <<hub, up>> /\ Len(emitted) <= Len(emitted')
         /\ \A m \in 1..Len(emitted) : emitted'[m] = emitted[m]
         /\ \A m \in 1..Len(emitted) : chat'[emitted[m]] = chat[emitted[m]]
<1>0. /\ TypeOK /\ emitted \in Seq(Rows) /\ Len(emitted) \in Nat
      /\ \A m \in 1..Len(emitted) : emitted[m] \in Rows /\ tx[emitted[m]] = "committed"
  BY DEF RelayInv, TypeOK, VisibleInv
<1>1. CASE WriterStep
  <2>1. UNCHANGED <<hub, up, emitted>>
    BY <1>1, WriterLeavesRelays
  <2>2. \A i \in Rows : tx[i] = "committed" => chat'[i] = chat[i]
    <3>1. ASSUME NEW c \in Chats, InsertOutbox(c), NEW i \in Rows, tx[i] = "committed"
          PROVE  chat'[i] = chat[i]
      <4>1. seq + 1 # i
        BY <1>0, <3>1, ConstantsAssumption DEF InsertOutbox, TypeOK, Rows
      <4> QED
        BY <1>0, <3>1, <4>1 DEF InsertOutbox, TypeOK
    <3>2. ASSUME NEW k \in Rows, CommitOutbox(k) \/ RollbackOutbox(k) PROVE chat' = chat
      BY <3>2 DEF CommitOutbox, RollbackOutbox
    <3> QED
      BY <1>1, <3>1, <3>2 DEF WriterStep
  <2> QED
    BY <1>0, <2>1, <2>2
<1>2. ASSUME NEW r \in Replicas, RelayStep(r)
      PROVE  /\ UNCHANGED <<hub, up, chat>> /\ Len(emitted) <= Len(emitted')
             /\ \A m \in 1..Len(emitted) : emitted'[m] = emitted[m]
  <2>1. UNCHANGED <<hub, up, chat>>
    BY <1>2 DEF RelayStep, Tick, PublishKafka, PublishLocal, PublishFails, MarkPublished,
                MarkPublishedFails, logVars
  <2>2. \/ emitted' = emitted
        \/ pc[r] # "idle" /\ emitted' = Append(emitted, Current(r))
    BY <1>2 DEF RelayStep, Tick, PublishKafka, PublishLocal, PublishFails, MarkPublished,
                MarkPublishedFails, AfterPublish
  <2>3. CASE emitted' = emitted
    BY <1>0, <2>1, <2>3
  <2>4. CASE pc[r] # "idle" /\ emitted' = Append(emitted, Current(r))
    <3>1. Current(r) \in Rows
      BY <1>0, <2>4, BusyRelay
    <3> QED
      BY <1>0, <2>1, <2>4, <3>1, EmittedAppend
  <2> QED
    BY <2>2, <2>3, <2>4
<1> QED
  BY <1>1, <1>2

(* The reader of r passes a message of p, and hands it to the hub or not.  *)
LEMMA ReaderMoves ==
  ASSUME PipelineInv, NEW r \in Replicas, NEW p \in Partitions, CanRead(r, p), PassMessage(r, p),
         UNCHANGED <<logVars, published, emitted, up, relayVars, faultVars>>,
         readErrs' \in 0..MaxReadErrors, fanoutErrs' \in 0..MaxFanoutErrors,
         \/ /\ hub' = [hub EXCEPT ![r] = @ \union {emitted[NextMessage(r, p)]}]
            /\ UNCHANGED <<readErrs, fanoutErrs>>
         \/ hub' = hub /\ ~(readErrs' = 0 /\ fanoutErrs' = 0)
  PROVE  PipelineInv'
<1> DEFINE n == NextMessage(r, p)
<1>0. /\ TypeOK /\ ConsumerTypeOK /\ ReaderInv /\ r \in up
      /\ UNCHANGED <<seq, tx, chat, prior, published, emitted, up, pc, todo,
                     pubErrs, markErrs, crashes>>
  BY DEF PipelineInv, RelayInv, CanRead, logVars, relayVars, faultVars
<1>1. /\ n \in Topic(p) /\ n \in Nat /\ offset[r][p] < n
      /\ \A m \in Topic(p) : offset[r][p] < m => n <= m
  BY <1>0, NextIsFirst DEF CanRead, TypeOK
<1>2. offset' = [offset EXCEPT ![r] = [offset[r] EXCEPT ![p] = n]]
  BY DEF PassMessage
<1>3. emitted[n] \in Rows
  BY <1>0, <1>1 DEF TypeOK, Topic
<1>4. /\ hub' \in [Replicas -> SUBSET Rows]
      /\ \A q \in Replicas : hub[q] \subseteq hub'[q]
      /\ \A q \in Replicas : \A j \in hub'[q] : j \in hub[q] \/ (q = r /\ j = emitted[n])
      /\ readErrs' = 0 /\ fanoutErrs' = 0 =>
           readErrs = 0 /\ fanoutErrs = 0 /\ emitted[n] \in hub'[r]
  <2> HIDE DEF n
  <2>0. hub \in [Replicas -> SUBSET Rows]
    BY <1>0 DEF TypeOK
  <2>1. CASE hub' = hub /\ ~(readErrs' = 0 /\ fanoutErrs' = 0)
    BY <2>0, <2>1
  <2>2. CASE /\ hub' = [hub EXCEPT ![r] = @ \union {emitted[n]}]
             /\ UNCHANGED <<readErrs, fanoutErrs>>
    BY <2>0, <1>3, <2>2
  <2> QED
    BY <2>1, <2>2 DEF n
<1> HIDE DEF n
<1>5. /\ offset' \in [Replicas -> [Partitions -> Nat]] /\ offset'[r][p] = n
      /\ \A q \in Replicas, o \in Partitions : q # r \/ o # p => offset'[q][o] = offset[q][o]
  BY <1>0, <1>1, <1>2 DEF ConsumerTypeOK
<1>6. \A o \in Partitions : Topic(o)' = Topic(o) /\ Topic(o) \subseteq Nat
  BY <1>0 DEF Topic
<1>7. \A q \in Replicas, o \in Partitions : /\ offset[q][o] \in Nat /\ offset'[q][o] \in Nat
                                          /\ offset[q][o] <= offset'[q][o]
  BY <1>0, <1>1, <1>5 DEF ConsumerTypeOK
<1>8. RelayInv'
  <2>1. TypeOK'
    BY <1>0, <1>4 DEF TypeOK
  <2>2. VisibleInv' /\ AckInv' /\ OrderInv'
    <3>1. VisibleInv /\ AckInv /\ OrderInv /\ Committed' = Committed /\ Emitted' = Emitted
      BY <1>0 DEF PipelineInv, RelayInv, Committed, Emitted
    <3>2. VisibleInv'
      BY <1>0, <3>1 DEF VisibleInv
    <3>3. AckInv'
      BY <1>0, <3>1 DEF AckInv
    <3>4. OrderInv'
      BY <1>0, <3>1 DEF OrderInv
    <3> QED
      BY <3>2, <3>3, <3>4
  <2> QED
    BY <2>1, <2>2 DEF RelayInv
<1>9. ConsumerTypeOK'
  <2>1. \A q \in Replicas, o \in Partitions : offset'[q][o] \in {0} \union Topic(o)'
    BY <1>0, <1>1, <1>5, <1>6 DEF ConsumerTypeOK
  <2> QED
    BY <1>5, <1>8, <2>1 DEF ConsumerTypeOK, RelayInv
<1>10. ASSUME NEW q \in Replicas, NEW j \in hub'[q]
       PROVE  /\ q \in up
              /\ \E o \in Partitions : \E m \in Topic(o) : emitted[m] = j /\ m <= offset'[q][o]
  <2>1. CASE j \in hub[q]
    <3>1. PICK o \in Partitions : \E m \in Topic(o) : emitted[m] = j /\ m <= offset[q][o]
      BY <1>0, <2>1 DEF ReaderInv
    <3>2. PICK m \in Topic(o) : emitted[m] = j /\ m <= offset[q][o]
      BY <3>1
    <3>3. m <= offset'[q][o]
      BY <1>6, <1>7, <3>2
    <3> QED
      BY <1>0, <2>1, <3>2, <3>3 DEF ReaderInv
  <2>2. CASE j \notin hub[q]
    <3>1. q = r /\ j = emitted[n]
      BY <1>4, <2>2
    <3> QED
      BY <1>0, <1>1, <1>5, <3>1
  <2> QED
    BY <2>1, <2>2
<1>11. readErrs' = 0 /\ fanoutErrs' = 0 => NothingLost'
  <2>1. SUFFICES ASSUME readErrs' = 0, fanoutErrs' = 0, NEW q \in up, NEW o \in Partitions,
                        NEW m \in Topic(o), m <= offset'[q][o]
                 PROVE  emitted[m] \in hub'[q]
    BY <1>0, <1>6 DEF NothingLost
  <2>2. NothingLost /\ emitted[n] \in hub'[r] /\ q \in Replicas
    BY <1>0, <1>4, <2>1 DEF ReaderInv, TypeOK
  <2>3. CASE m <= offset[q][o]
    BY <1>4, <2>2, <2>3 DEF NothingLost
  <2>4. CASE ~(m <= offset[q][o])
    <3>1. q = r /\ o = p
      BY <1>5, <2>1, <2>2, <2>4
    <3>2. offset[r][p] < m /\ m <= n /\ m \in Nat
      BY <1>5, <1>6, <1>7, <2>1, <2>4, <3>1
    <3>3. m = n
      BY <1>1, <3>1, <3>2
    <3> QED
      BY <2>2, <3>1, <3>3
  <2> QED
    BY <2>3, <2>4
<1>12. ReaderInv'
  BY <1>0, <1>6, <1>10, <1>11 DEF ReaderInv
<1> QED
  BY <1>8, <1>9, <1>12 DEF PipelineInv

-----------------------------------------------------------------------------
(* Every step of relays and consumers keeps the invariant.                 *)
LEMMA PipelineStep ==
  ASSUME UseKafka, HasBrokers, PipelineInv, [PipelineNext]_pipelineVars
  PROVE  PipelineInv'
<1>0. RelayInv /\ TypeOK /\ ConsumerTypeOK /\ ReaderInv
  BY DEF PipelineInv, RelayInv
<1>1. ASSUME [Next]_vars PROVE RelayInv'
  BY <1>0, <1>1, TypeStep, VisibleStep, AckStep, OrderStep DEF RelayInv
<1>2. CASE (WriterStep \/ \E r \in Replicas : RelayStep(r)) /\ UNCHANGED consumerVars
  <2>1. RelayInv' /\ TypeOK'
    BY <1>1, <1>2 DEF Next, RelayInv
  <2>2. ConsumerTypeOK' /\ ReaderInv'
    BY <1>0, <1>2, <2>1, TopicStep, ReadersStandStill
  <2> QED
    BY <2>1, <2>2 DEF PipelineInv
<1>3. CASE UNCHANGED pipelineVars
  <2>1. UNCHANGED vars /\ UNCHANGED consumerVars /\ UNCHANGED <<hub, up, emitted, chat>>
    BY <1>3 DEF pipelineVars, vars, logVars
  <2>2. RelayInv' /\ TypeOK'
    BY <1>1, <2>1 DEF RelayInv
  <2>3. emitted' = emitted /\ chat' = chat /\ Len(emitted) <= Len(emitted')
    BY <1>0, <2>1 DEF TypeOK
  <2>4. ConsumerTypeOK' /\ ReaderInv'
    BY <2>1, <2>2, <2>3, ReadersStandStill
  <2> QED
    BY <2>2, <2>4 DEF PipelineInv
<1>4. ASSUME NEW r \in Replicas, Crash(r), UNCHANGED consumerVars PROVE PipelineInv'
  <2>1. RelayInv' /\ TypeOK'
    BY <1>1, <1>4 DEF Next, RelayInv
  <2>2. /\ UNCHANGED <<emitted, chat, offset, readErrs, fanoutErrs>> /\ up' = up \ {r}
        /\ hub' = [hub EXCEPT ![r] = {}]
    BY <1>4 DEF Crash, consumerVars, logVars
  <2>3. /\ hub'[r] = {} /\ \A q \in Replicas : q # r => hub'[q] = hub[q]
    BY <1>0, <2>2 DEF TypeOK
  <2>4. \A p \in Partitions : Topic(p)' = Topic(p)
    BY <2>2 DEF Topic
  <2>5. ConsumerTypeOK'
    BY <1>0, <2>1, <2>2, <2>4 DEF ConsumerTypeOK
  <2>6. NothingLost => NothingLost'
    <3>1. \A q \in up' : q \in up /\ q # r /\ q \in Replicas
      BY <1>0, <2>2 DEF TypeOK
    <3> QED
      BY <2>2, <2>3, <2>4, <3>1 DEF NothingLost
  <2>7. ReaderInv'
    BY <1>0, <2>2, <2>3, <2>4, <2>6 DEF ReaderInv
  <2> QED
    BY <2>1, <2>5, <2>7 DEF PipelineInv
<1>5. ASSUME NEW r \in Replicas, RestartConsumer(r) PROVE PipelineInv'
  <2>1. RelayInv' /\ TypeOK'
    BY <1>1, <1>5 DEF Next, RelayInv, RestartConsumer
  <2>2. /\ UNCHANGED <<emitted, chat, hub, readErrs, fanoutErrs>> /\ up' = up \union {r}
        /\ r \notin up /\ offset' = [offset EXCEPT ![r] = [p \in Partitions |-> 0]]
    BY <1>5 DEF RestartConsumer, Restart, logVars
  <2>3. /\ offset' \in [Replicas -> [Partitions -> Nat]]
        /\ \A p \in Partitions : offset'[r][p] = 0
        /\ \A q \in Replicas : q # r => offset'[q] = offset[q]
    BY <1>0, <2>2 DEF ConsumerTypeOK
  <2>4. \A p \in Partitions : Topic(p)' = Topic(p) /\ \A m \in Topic(p) : m \in Nat /\ ~(m <= 0)
    BY <1>0, <2>2 DEF Topic, TypeOK
  <2>5. ConsumerTypeOK'
    BY <1>0, <2>1, <2>2, <2>3, <2>4 DEF ConsumerTypeOK
  <2>6. hub[r] = {}
    BY <1>0, <2>2 DEF ReaderInv
  <2>7. NothingLost => NothingLost'
    <3>1. \A q \in up' : q = r \/ (q \in up /\ q # r /\ q \in Replicas)
      <4>1. up \in SUBSET Replicas
        BY <1>0 DEF TypeOK
      <4> QED
        BY <2>2, <4>1
    <3> QED
      BY <2>2, <2>3, <2>4, <3>1 DEF NothingLost
  <2>8. ASSUME NEW q \in Replicas, NEW j \in hub[q]
        PROVE  /\ q \in up'
               /\ \E p \in Partitions : \E m \in Topic(p)' : emitted'[m] = j /\ m <= offset'[q][p]
    <3>1. q # r
      BY <2>6
    <3> QED
      BY <1>0, <2>2, <2>3, <2>4, <3>1 DEF ReaderInv
  <2>9. ReaderInv'
    BY <1>0, <2>2, <2>7, <2>8 DEF ReaderInv
  <2> QED
    BY <2>1, <2>5, <2>9 DEF PipelineInv
<1>6. ASSUME NEW r \in Replicas, NEW p \in Partitions,
             Fanout(r, p) \/ FanoutFails(r, p) \/ ReadFails(r, p)
      PROVE  PipelineInv'
  <2>0. readErrs \in 0..MaxReadErrors /\ fanoutErrs \in 0..MaxFanoutErrors
    BY <1>0 DEF ConsumerTypeOK
  <2>1. CASE Fanout(r, p)
    <3>1. /\ CanRead(r, p) /\ PassMessage(r, p)
          /\ hub' = [hub EXCEPT ![r] = @ \union {emitted[NextMessage(r, p)]}]
          /\ UNCHANGED <<logVars, published, emitted, up, relayVars, faultVars, readErrs, fanoutErrs>>
      BY <2>1 DEF Fanout
    <3> QED
      BY <2>0, <3>1, ReaderMoves
  <2>2. CASE FanoutFails(r, p)
    <3>1. /\ CanRead(r, p) /\ PassMessage(r, p)
          /\ UNCHANGED <<logVars, published, emitted, hub, up, relayVars, faultVars, readErrs>>
          /\ fanoutErrs < MaxFanoutErrors /\ fanoutErrs' = fanoutErrs + 1
      BY <2>2 DEF FanoutFails, vars
    <3>2. fanoutErrs' \in 0..MaxFanoutErrors /\ fanoutErrs' # 0
      BY <2>0, <3>1, ConsumerAssumption
    <3> QED
      BY <2>0, <3>1, <3>2, ReaderMoves
  <2>3. CASE ReadFails(r, p)
    <3>1. /\ CanRead(r, p) /\ PassMessage(r, p)
          /\ UNCHANGED <<logVars, published, emitted, hub, up, relayVars, faultVars, fanoutErrs>>
          /\ readErrs < MaxReadErrors /\ readErrs' = readErrs + 1
      BY <2>3 DEF ReadFails, vars
    <3>2. readErrs' \in 0..MaxReadErrors /\ readErrs' # 0
      BY <2>0, <3>1, ConsumerAssumption
    <3> QED
      BY <2>0, <3>1, <3>2, ReaderMoves
  <2> QED
    BY <1>6, <2>1, <2>2, <2>3
<1> QED
  BY <1>2, <1>3, <1>4, <1>5, <1>6 DEF PipelineNext, ConsumerStep

(* The invariant holds of the pipeline in all its states.                  *)
LEMMA PipelineInvAlways ==
  ASSUME UseKafka, HasBrokers
  PROVE  PipelineSpec => []PipelineInv
<1>1. PipelineInit => PipelineInv
  <2> SUFFICES ASSUME PipelineInit PROVE PipelineInv
    OBVIOUS
  <2> USE DEF PipelineInit, Init
  <2>1. RelayInv
    BY ConstantsAssumption
    DEF RelayInv, TypeOK, VisibleInv, AckInv, OrderInv, Emitted, Committed, Rows
  <2>2. ConsumerTypeOK
    BY <2>1, ConsumerAssumption DEF ConsumerTypeOK, RelayInv
  <2>3. \A p \in Partitions : Topic(p) = {}
    BY DEF Topic
  <2>4. ReaderInv
    BY <2>3 DEF ReaderInv, NothingLost
  <2> QED
    BY <2>1, <2>2, <2>4 DEF PipelineInv
<1>2. PipelineInv /\ [PipelineNext]_pipelineVars => PipelineInv'
  BY PipelineStep
<1> QED
  BY <1>1, <1>2, PTL DEF PipelineSpec

(* Type correctness of the pipeline: relays keep their invariants next to  *)
(* the consumers, and a reader stands at a message of its partition.       *)
THEOREM ConsumerTypeCorrect ==
  ASSUME UseKafka, HasBrokers
  PROVE  PipelineSpec => []ConsumerTypeOK
<1>1. PipelineInv => ConsumerTypeOK
  BY DEF PipelineInv
<1> QED
  BY <1>1, PipelineInvAlways, PTL

(* From the transaction that writes an event to the hubs: until a publish, *)
(* a read or a delivery fails, no hub is given an event before the events  *)
(* of its chat that precede it, with any number of replicas and            *)
(* partitions, and whatever crashes and is started again.                  *)
THEOREM HubOrderAlways ==
  ASSUME UseKafka, HasBrokers
  PROVE  PipelineSpec => []HubOrder
<1>1. PipelineInv => HubOrder
  <2>1. SUFFICES ASSUME PipelineInv, pubErrs = 0, readErrs = 0, fanoutErrs = 0,
                        NEW r \in Replicas, NEW j \in hub[r], NEW i \in prior[j], chat[i] = chat[j]
                 PROVE  i \in hub[r]
    BY DEF HubOrder
  <2>2. TypeOK /\ OrderInv /\ ReaderInv /\ NothingLost /\ ConsumerTypeOK
    BY <2>1 DEF PipelineInv, RelayInv, ReaderInv
  <2>3. PICK p \in Partitions : \E n \in Topic(p) : emitted[n] = j /\ n <= offset[r][p]
    BY <2>2 DEF ReaderInv
  <2>4. PICK n \in Topic(p) : emitted[n] = j /\ n <= offset[r][p]
    BY <2>3
  <2>5. n \in 1..Len(emitted) /\ Len(emitted) \in Nat /\ Balancer[chat[j]] = p
    BY <2>2, <2>4 DEF Topic, TypeOK
  <2>6. PICK m \in 1..(n - 1) : emitted[m] = i
    BY <2>1, <2>2, <2>4, <2>5 DEF OrderInv
  <2>7. m \in Topic(p) /\ m < n
    BY <2>1, <2>5, <2>6 DEF Topic
  <2>8. m <= offset[r][p]
    BY <2>2, <2>4, <2>5, <2>7 DEF ConsumerTypeOK
  <2>9. r \in up
    BY <2>2 DEF ReaderInv
  <2> QED
    BY <2>2, <2>6, <2>7, <2>8, <2>9 DEF NothingLost
<1> QED
  BY <1>1, PipelineInvAlways, PTL

(* No acknowledged event is missing from a hub whose reader has read all   *)
(* there is, whichever replica acknowledged it and however often either    *)
(* was started again, until a read or a delivery fails.                    *)
THEOREM CaughtUpHubHasAllAlways ==
  ASSUME UseKafka, HasBrokers
  PROVE  PipelineSpec => []CaughtUpHubHasAll
<1>1. PipelineInv => CaughtUpHubHasAll
  <2>1. SUFFICES ASSUME PipelineInv, readErrs = 0, fanoutErrs = 0,
                        NEW r \in up, \A p \in Partitions : Unread(r, p) = {},
                        NEW i \in published
                 PROVE  i \in hub[r]
    BY DEF CaughtUpHubHasAll
  <2>2. TypeOK /\ VisibleInv /\ AckInv /\ NothingLost /\ ConsumerTypeOK /\ r \in Replicas
    BY <2>1 DEF PipelineInv, RelayInv, ReaderInv, TypeOK
  <2>3. PICK m \in 1..Len(emitted) : emitted[m] = i
    BY <2>2 DEF AckInv, AckedWasEmitted, Emitted
  <2>4. chat[i] \in Chats
    BY <2>2, <2>3 DEF VisibleInv, TypeOK
  <2> DEFINE p == Balancer[chat[i]]
  <2>5. p \in Partitions /\ m \in Topic(p)
    BY <2>3, <2>4, ConsumerAssumption DEF Topic
  <2> HIDE DEF p
  <2>6. offset[r][p] \in Nat /\ m \in Nat
    BY <2>2, <2>5 DEF ConsumerTypeOK
  <2>7. m <= offset[r][p]
    BY <2>1, <2>5, <2>6 DEF Unread
  <2> QED
    BY <2>2, <2>3, <2>5, <2>7 DEF NothingLost
<1> QED
  BY <1>1, PipelineInvAlways, PTL
=============================================================================
