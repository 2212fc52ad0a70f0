-------------------------- MODULE KafkaWSConsumer ---------------------------
(***************************************************************************)
(* The delivery pipeline: the relays of OutboxRelay together with the      *)
(* consumer that every replica runs over the Kafka topic                   *)
(* (worker/kafka_ws_consumer.go, app/kafka_fanout_group.go).               *)
(*                                                                         *)
(* Each process reads the whole topic under a consumer group of its own,   *)
(* from the first offset, and hands every event to its own hub             *)
(* (Broadcaster.DeliverEnvelopeBytes).  What the hub then does with its    *)
(* connections is outside this module.                                     *)
(***************************************************************************)
EXTENDS OutboxRelay

CONSTANTS
  Partitions,       \* partitions of the topic
  Balancer,         \* kafka.Hash: the partition of a key (chat id)
  MaxReadErrors,    \* bound: reads whose offset commit fails
  MaxFanoutErrors   \* bound: deliveries whose member lookup fails

ASSUME ConsumerAssumption ==
  /\ Balancer \in [Chats -> Partitions]
  /\ MaxReadErrors \in Nat
  /\ MaxFanoutErrors \in Nat

VARIABLES
  offset,      \* per replica and partition: the place of the last message
               \* its reader has passed, 0 before the first
  readErrs,    \* read failures so far
  fanoutErrs   \* fan-out failures so far

consumerVars == <<offset, readErrs, fanoutErrs>>
pipelineVars == <<vars, consumerVars>>

(* Variant: messages written without a key go to the partitions in turn. *)
TopicRoundRobin(p) ==
  LET n == Cardinality(Partitions)
      pos == CHOOSE f \in [Partitions -> 0..(n - 1)] : \A a, b \in Partitions : f[a] = f[b] => a = b
  IN  {m \in 1..Len(emitted) : m % n = pos[p]}

(* Partition p of the topic: the key of an event is its chat id.  Messages *)
(* are named by their places in the order of all hand-overs; the ones of a *)
(* partition are stored, and read, in that order.                          *)
Topic(p) == {m \in 1..Len(emitted) : Balancer[chat[emitted[m]]] = p}

PipelineInit ==
  /\ Init
  /\ offset = [r \in Replicas |-> [p \in Partitions |-> 0]]
  /\ readErrs = 0 /\ fanoutErrs = 0

-----------------------------------------------------------------------------
(* ReadMessage hands out the next message of partition p.  The consumer    *)
(* only runs when there is a producer.                                     *)
Unread(r, p) == {m \in Topic(p) : offset[r][p] < m}

CanRead(r, p) ==
  /\ UseKafka /\ HasBrokers
  /\ r \in up
  /\ Unread(r, p) # {}

NextMessage(r, p) == CHOOSE m \in Unread(r, p) : \A k \in Unread(r, p) : m <= k

PassMessage(r, p) == offset' = [offset EXCEPT ![r][p] = NextMessage(r, p)]

Fanout(r, p) ==
  /\ CanRead(r, p)
  /\ PassMessage(r, p)
  /\ hub' = [hub EXCEPT ![r] = @ \union {emitted[NextMessage(r, p)]}]
  /\ UNCHANGED <<logVars, published, emitted, up, relayVars, faultVars,
                 readErrs, fanoutErrs>>

(* GetChatMembers failed.  FanoutKafkaDomainEvent assigns the error to a   *)
(* variable of an inner scope and returns the outer one, nil: Run counts   *)
(* the message as handled.  Its offset is committed, nothing retries it.   *)
FanoutFails(r, p) ==
  /\ fanoutErrs < MaxFanoutErrors
  /\ CanRead(r, p)
  /\ PassMessage(r, p)
  /\ fanoutErrs' = fanoutErrs + 1
  /\ UNCHANGED <<vars, readErrs>>

(* ReadMessage fetched the message but could not commit its offset: it     *)
(* returns an error, Run sleeps and reads on behind the message.           *)
ReadFails(r, p) ==
  /\ readErrs < MaxReadErrors
  /\ CanRead(r, p)
  /\ PassMessage(r, p)
  /\ readErrs' = readErrs + 1
  /\ UNCHANGED <<vars, fanoutErrs>>

(* Variant: one fixed consumer group per replica, whose offsets survive. *)
RestartSameGroup(r) ==
  /\ Restart(r)
  /\ UNCHANGED <<offset, readErrs, fanoutErrs>>

(* A new process: a new consumer group, which starts at FirstOffset. *)
RestartConsumer(r) ==
  /\ Restart(r)
  /\ offset' = [offset EXCEPT ![r] = [p \in Partitions |-> 0]]
  /\ UNCHANGED <<readErrs, fanoutErrs>>

-----------------------------------------------------------------------------
ConsumerStep(r) ==
  \E p \in Partitions : Fanout(r, p) \/ FanoutFails(r, p) \/ ReadFails(r, p)

PipelineNext ==
  \/ (WriterStep \/ \E r \in Replicas : RelayStep(r) \/ Crash(r)) /\ UNCHANGED consumerVars
  \/ \E r \in Replicas : RestartConsumer(r) \/ ConsumerStep(r)

PipelineSpec == PipelineInit /\ [][PipelineNext]_pipelineVars

(* As in OutboxRelay; a running consumer also keeps reading: Run's loop    *)
(* goes on after every error.                                              *)
PipelineFairness ==
  \A r \in Replicas :
    /\ WF_pipelineVars(RelayStep(r) /\ UNCHANGED consumerVars)
    /\ WF_pipelineVars(RestartConsumer(r))
    /\ WF_pipelineVars(ConsumerStep(r))

FairPipelineSpec == PipelineSpec /\ PipelineFairness

-----------------------------------------------------------------------------
(***************************************************************************)
(* Properties                                                              *)
(***************************************************************************)

(* The state of the relays, and readers that stand at a message of their   *)
(* partition.                                                              *)
ConsumerTypeOK ==
  /\ TypeOK
  /\ offset \in [Replicas -> [Partitions -> Nat]]
  /\ \A r \in Replicas, p \in Partitions : offset[r][p] \in {0} \union Topic(p)
  /\ readErrs \in 0..MaxReadErrors
  /\ fanoutErrs \in 0..MaxFanoutErrors

(* While nothing fails, no hub is given an event before the events of its  *)
(* chat that precede it, also during the replay after a restart: relays    *)
(* keep the order, the key keeps a chat in one partition, and a reader     *)
(* goes through a partition in order.                                      *)
HubOrder ==
  (pubErrs = 0 /\ readErrs = 0 /\ fanoutErrs = 0) =>
    \A r \in Replicas : \A j \in hub[r] : \A i \in prior[j] :
      chat[i] = chat[j] => i \in hub[r]

(* A running replica whose reader has come to the end of the topic has     *)
(* handed everything that is marked as published to its hub, since its     *)
(* latest start, unless a read or a delivery failed: whichever replica     *)
(* published an event, and whether before a crash or after it.             *)
CaughtUpHubHasAll ==
  readErrs = 0 /\ fanoutErrs = 0 =>
    \A r \in up : (\A p \in Partitions : Unread(r, p) = {}) => published \subseteq hub[r]

(* Every committed event ends up, for good, in the hub of every replica,   *)
(* whatever crashes and retries happen on the way: unless some read or     *)
(* fan-out failed.  (Rows are finitely many and stay committed.)           *)
ReachesEveryHub ==
  <>[](\A i \in Committed, r \in Replicas :
         i \in hub[r] \/ readErrs > 0 \/ fanoutErrs > 0)

(* README.md: "Nothing is lost between row written and WebSocket emitted": *)
(* what a running consumer has read, it has handed to its hub.             *)
NothingLost ==
  \A r \in up, p \in Partitions :
    \A m \in Topic(p) : m <= offset[r][p] => emitted[m] \in hub[r]

(***************************************************************************)
(* The inductive invariant behind HubOrder (see KafkaWSConsumerProofs): a  *)
(* hub has nothing that its reader has not passed, and, until a read or a  *)
(* delivery fails, everything that it has passed.                          *)
(***************************************************************************)
ReaderInv ==
  /\ \A r \in Replicas : \A j \in hub[r] :
       /\ r \in up
       /\ \E p \in Partitions : \E m \in Topic(p) : emitted[m] = j /\ m <= offset[r][p]
  /\ readErrs = 0 /\ fanoutErrs = 0 => NothingLost
=============================================================================
