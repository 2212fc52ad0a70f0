------------------------- MODULE OutboxRelayProofs --------------------------
(***************************************************************************)
(* What OutboxRelay guarantees for every number of replicas, chats and     *)
(* rows, every batch limit and every bound on failures.                    *)
(***************************************************************************)
EXTENDS OutboxRelay, FiniteSetTheorems, WellFoundedInduction, TLAPS

-----------------------------------------------------------------------------
(* A set of numbers has a least one.                                       *)
LEMMA HasLeast ==
  ASSUME NEW S \in SUBSET Nat, S # {}
  PROVE  \E i \in S : \A k \in S : i <= k
<1>1. \E i \in S : \A k \in S : ~(<<k, i>> \in OpToRel(<, Nat))
  BY NatLessThanWellFounded, WFMin
<1>2. OpToRel(<, Nat) = {ss \in Nat \X Nat : ss[1] < ss[2]}
  BY Zenon DEF OpToRel
<1>3. \A x, y \in Nat : x < y => <<x, y>> \in OpToRel(<, Nat)
  <2>1. \A x, y \in Nat : x < y => <<x, y>> \in {ss \in Nat \X Nat : ss[1] < ss[2]}
    OBVIOUS
  <2> QED
    BY <1>2, <2>1, Zenon
<1>4. \E i \in S : \A k \in S : ~(k < i)
  BY <1>1, <1>3, Zenon
<1> QED
  BY <1>4

(* The row at which tick's loop stands is the least one of its batch.      *)
LEMMA CurrentIsLeast ==
  ASSUME NEW r, todo[r] \subseteq Rows, todo[r] # {}
  PROVE  /\ Current(r) \in todo[r]
         /\ \A k \in todo[r] : Current(r) <= k
<1>1. todo[r] \in SUBSET Nat
  BY ConstantsAssumption DEF Rows
<1>2. \E i \in todo[r] : \A k \in todo[r] : i <= k
  BY <1>1, HasLeast
<1> QED
  BY <1>2 DEF Current

(* The LIMIT of the query cuts the pending rows from above: with a row it  *)
(* fetches every pending row of smaller id.                                *)
LEMMA FetchIsPrefix ==
  ASSUME NEW j \in FetchPending, NEW i \in Committed, i \notin published, i < j
  PROVE  i \in FetchPending
<1> DEFINE P == Committed \ published
           upTo(x) == {k \in P : k <= x}
<1>1. P \subseteq 1..MaxRows /\ IsFiniteSet(1..MaxRows)
  BY FS_Interval, ConstantsAssumption DEF Committed, Rows
<1>2. IsFiniteSet(P)
  BY <1>1, FS_Subset
<1>3. i \in P /\ j \in P /\ i \in Nat /\ j \in Nat /\ P \subseteq Nat
  BY <1>1, ConstantsAssumption DEF FetchPending
<1>4. IsFiniteSet(upTo(j))
  BY <1>2, FS_Subset
<1>5. upTo(i) \in SUBSET upTo(j)
  BY <1>3
<1>6. Cardinality(upTo(i)) <= Cardinality(upTo(j))
  BY <1>4, <1>5, FS_Subset
<1>7. Cardinality(upTo(i)) \in Nat /\ Cardinality(upTo(j)) \in Nat
  BY <1>4, <1>5, FS_Subset, FS_CardinalityType
<1>8. Cardinality(upTo(j)) <= Limit
  BY DEF FetchPending
<1>9. Cardinality(upTo(i)) <= Limit
  BY <1>6, <1>7, <1>8, ConstantsAssumption
<1> QED
  BY <1>3, <1>9 DEF FetchPending

(* What one more hand-over adds to the rows handed over.                   *)
LEMMA EmittedAppend ==
  ASSUME emitted \in Seq(Rows), NEW i \in Rows, emitted' = Append(emitted, i)
  PROVE  /\ emitted' \in Seq(Rows)
         /\ Len(emitted') = Len(emitted) + 1
         /\ \A n \in 1..Len(emitted) : emitted'[n] = emitted[n]
         /\ emitted'[Len(emitted) + 1] = i
         /\ Emitted' = Emitted \union {i}
<1>1. /\ emitted' \in Seq(Rows)
      /\ Len(emitted') = Len(emitted) + 1
      /\ \A n \in 1..Len(emitted) : emitted'[n] = emitted[n]
      /\ emitted'[Len(emitted) + 1] = i
      /\ Len(emitted) \in Nat
  OBVIOUS
<1>2. 1..Len(emitted') = 1..Len(emitted) \union {Len(emitted) + 1}
  BY <1>1
<1>3. Emitted' = Emitted \union {i}
  BY <1>1, <1>2 DEF Emitted
<1> QED
  BY <1>1, <1>3

-----------------------------------------------------------------------------
(* A relay in the middle of a tick has a current row.                      *)
LEMMA BusyRelay ==
  ASSUME TypeOK, NEW r \in Replicas, pc[r] # "idle"
  PROVE  /\ todo[r] # {} /\ todo[r] \subseteq Rows
         /\ Current(r) \in todo[r] /\ Current(r) \in Rows
         /\ \A k \in todo[r] : Current(r) <= k
<1>1. todo[r] # {} /\ todo[r] \subseteq Rows
  BY DEF TypeOK
<1> QED
  BY <1>1, CurrentIsLeast

(* A relay that is about to mark has handed over its current row.          *)
LEMMA MarkingWasEmitted ==
  ASSUME TypeOK, AckInv, NEW r \in Replicas, pc[r] = "mark"
  PROVE  Current(r) \in Emitted
<1>1. /\ Current(r) \in todo[r] /\ todo[r] \subseteq Rows
      /\ \A k \in todo[r] : Current(r) <= k
  BY BusyRelay
<1>2. PICK i \in todo[r] : i \in Emitted /\ \A k \in todo[r] : i <= k
  BY DEF AckInv
<1>3. Current(r) = i
  BY <1>1, <1>2, ConstantsAssumption DEF Rows
<1> QED
  BY <1>2, <1>3

(* No step leaves the shape TypeOK describes.                              *)
LEMMA TypeStep ==
  ASSUME TypeOK, [Next]_vars
  PROVE  TypeOK'
<1> USE ConstantsAssumption
<1>1. ASSUME NEW c \in Chats, InsertOutbox(c) PROVE TypeOK'
  <2>1. seq + 1 \in Rows
    BY <1>1 DEF InsertOutbox, TypeOK, Rows
  <2> QED
    BY <1>1, <2>1 DEF InsertOutbox, TypeOK, Rows, relayVars, faultVars
<1>2. ASSUME NEW i \in Rows, CommitOutbox(i) PROVE TypeOK'
  BY <1>2 DEF CommitOutbox, TypeOK, Committed, relayVars, faultVars
<1>3. ASSUME NEW i \in Rows, RollbackOutbox(i) PROVE TypeOK'
  BY <1>3 DEF RollbackOutbox, TypeOK, relayVars, faultVars
<1>5. ASSUME NEW r \in Replicas, pc[r] # "idle", NextRow(r)
      PROVE  /\ pc' \in [Replicas -> {"idle", "publish", "mark"}]
             /\ todo' \in [Replicas -> SUBSET Rows]
             /\ \A q \in Replicas : pc'[q] = "idle" <=> todo'[q] = {}
  BY BusyRelay, <1>5 DEF NextRow, TypeOK
<1>6. ASSUME NEW r \in Replicas, Tick(r) PROVE TypeOK'
  <2>1. FetchPending \in SUBSET Rows /\ FetchPending # {}
    BY <1>6 DEF FetchPending, Committed, Tick
  <2> QED
    BY <1>6, <2>1 DEF Tick, TypeOK, logVars, faultVars
<1>7. ASSUME NEW r \in Replicas, PublishKafka(r) PROVE TypeOK'
  <2>1. Current(r) \in Rows
    BY BusyRelay, <1>7 DEF PublishKafka
  <2>2. emitted' \in Seq(Rows)
    BY <1>7, <2>1 DEF PublishKafka, AfterPublish, TypeOK
  <2> QED
    BY <1>7, <2>2 DEF PublishKafka, TypeOK, logVars, faultVars
<1>8. ASSUME NEW r \in Replicas, PublishLocal(r) PROVE TypeOK'
  <2>1. Current(r) \in Rows
    BY BusyRelay, <1>8 DEF PublishLocal
  <2>2. emitted' \in Seq(Rows)
    BY <1>8, <2>1 DEF PublishLocal, TypeOK
  <2> QED
    BY <1>8, <2>1, <2>2 DEF PublishLocal, TypeOK, logVars, faultVars
<1>9. ASSUME NEW r \in Replicas, NEW stored \in BOOLEAN, PublishFails(r, stored)
      PROVE  TypeOK'
  <2>1. Current(r) \in Rows
    BY BusyRelay, <1>9 DEF PublishFails
  <2>2. emitted' \in Seq(Rows)
    BY <1>9, <2>1 DEF PublishFails, TypeOK
  <2>3. pc[r] # "idle" /\ NextRow(r)
    BY <1>9 DEF PublishFails
  <2> QED
    BY <1>5, <1>9, <2>2, <2>3 DEF PublishFails, TypeOK, logVars
<1>10. ASSUME NEW r \in Replicas, MarkPublished(r) PROVE TypeOK'
  <2>1. pc[r] # "idle" /\ NextRow(r)
    BY <1>10 DEF MarkPublished
  <2> QED
    BY BusyRelay, <1>5, <1>10, <2>1 DEF MarkPublished, TypeOK, logVars, faultVars
<1>11. ASSUME NEW r \in Replicas, MarkPublishedFails(r) PROVE TypeOK'
  <2>1. pc[r] # "idle" /\ NextRow(r)
    BY <1>11 DEF MarkPublishedFails
  <2> QED
    BY <1>5, <1>11, <2>1 DEF MarkPublishedFails, TypeOK, logVars
<1>12. ASSUME NEW r \in Replicas, Crash(r) PROVE TypeOK'
  BY <1>12 DEF Crash, TypeOK, logVars
<1>13. ASSUME NEW r \in Replicas, Restart(r) PROVE TypeOK'
  BY <1>13 DEF Restart, TypeOK, logVars, relayVars, faultVars
<1>14. CASE UNCHANGED vars
  BY <1>14 DEF vars, logVars, relayVars, faultVars, TypeOK
<1> QED
  BY <1>1, <1>2, <1>3, <1>6, <1>7, <1>8, <1>9, <1>10, <1>11, <1>12, <1>13, <1>14
  DEF Next, WriterStep, RelayStep

(* Every reachable state of the relay has the shape TypeOK describes, for  *)
(* all the values of the constants.                                        *)
THEOREM TypeCorrect == Spec => []TypeOK
<1>1. Init => TypeOK
  BY ConstantsAssumption DEF Init, TypeOK, Rows
<1>2. TypeOK /\ [Next]_vars => TypeOK'
  BY TypeStep
<1> QED
  BY <1>1, <1>2, PTL DEF Spec

-----------------------------------------------------------------------------
(* What the relays work on and hand over is committed, and a row's history *)
(* names only committed rows of smaller id.                                *)
LEMMA VisibleStep ==
  ASSUME TypeOK, VisibleInv, [Next]_vars
  PROVE  VisibleInv'
<1> USE ConstantsAssumption
<1>0. emitted \in Seq(Rows) /\ Len(emitted) \in Nat
      /\ \A n \in 1..Len(emitted) : emitted[n] \in Rows
  BY DEF TypeOK
<1>1. ASSUME NEW c \in Chats, InsertOutbox(c) PROVE VisibleInv'
  <2>1. seq + 1 \in Rows /\ tx[seq + 1] = "free"
    BY <1>1 DEF InsertOutbox, TypeOK, Rows
  <2>2. \A i \in Rows : tx[i] = "committed" => tx'[i] = "committed"
    BY <1>1, <2>1 DEF InsertOutbox, TypeOK
  <2>3. prior' = prior /\ todo' = todo /\ emitted' = emitted
    BY <1>1 DEF InsertOutbox, relayVars
  <2> QED
    BY <1>0, <2>2, <2>3 DEF VisibleInv, TypeOK, Committed
<1>2. ASSUME NEW i \in Rows, CommitOutbox(i) PROVE VisibleInv'
  <2>1. \A k \in Rows : tx[k] = "committed" => tx'[k] = "committed"
    BY <1>2 DEF CommitOutbox, TypeOK
  <2>2. todo' = todo /\ emitted' = emitted /\ tx'[i] = "committed"
    BY <1>2 DEF CommitOutbox, relayVars, TypeOK
  <2>3. \A j \in Rows : \A k \in prior'[j] :
          k < j /\ tx'[j] = "committed" /\ tx'[k] = "committed"
    BY <1>2, <2>1, <2>2 DEF CommitOutbox, VisibleInv, TypeOK, Committed
  <2> QED
    BY <1>0, <2>1, <2>2, <2>3 DEF VisibleInv, TypeOK, Committed
<1>3. ASSUME NEW i \in Rows, RollbackOutbox(i) PROVE VisibleInv'
  <2>1. \A k \in Rows : tx[k] = "committed" => tx'[k] = "committed"
    BY <1>3 DEF RollbackOutbox, TypeOK
  <2>2. prior' = prior /\ todo' = todo /\ emitted' = emitted
    BY <1>3 DEF RollbackOutbox, relayVars
  <2> QED
    BY <1>0, <2>1, <2>2 DEF VisibleInv, TypeOK, Committed
<1>4. ASSUME NEW r \in Replicas, Tick(r) PROVE VisibleInv'
  <2>1. FetchPending \subseteq Committed
    BY DEF FetchPending
  <2> QED
    BY <1>4, <2>1 DEF Tick, VisibleInv, TypeOK, Committed, logVars
<1>5. ASSUME NEW r \in Replicas, pc[r] # "idle", emitted' = Append(emitted, Current(r)),
             UNCHANGED logVars, \A q \in Replicas : todo'[q] \subseteq todo[q]
      PROVE  VisibleInv'
  <2>1. Current(r) \in Rows /\ tx[Current(r)] = "committed"
    BY <1>5, BusyRelay DEF VisibleInv, Committed
  <2>2. \A n \in 1..Len(emitted') : tx[emitted'[n]] = "committed"
    BY <1>0, <1>5, <2>1, EmittedAppend DEF VisibleInv
  <2> QED
    BY <1>5, <2>2 DEF VisibleInv, Committed, logVars
<1>6. ASSUME UNCHANGED <<logVars, emitted>>, \A q \in Replicas : todo'[q] \subseteq todo[q]
      PROVE  VisibleInv'
  BY <1>6 DEF VisibleInv, Committed, logVars
<1>7. ASSUME NEW r \in Replicas, NextRow(r)
      PROVE  \A q \in Replicas : todo'[q] \subseteq todo[q]
  BY <1>7 DEF NextRow, TypeOK
<1>8. ASSUME NEW r \in Replicas, PublishKafka(r) PROVE VisibleInv'
  BY <1>5, <1>6, <1>8 DEF PublishKafka, AfterPublish
<1>9. ASSUME NEW r \in Replicas, PublishLocal(r) PROVE VisibleInv'
  BY <1>5, <1>9 DEF PublishLocal
<1>10. ASSUME NEW r \in Replicas, NEW stored \in BOOLEAN, PublishFails(r, stored)
       PROVE  VisibleInv'
  BY <1>5, <1>6, <1>7, <1>10 DEF PublishFails
<1>11. ASSUME NEW r \in Replicas, MarkPublished(r) \/ MarkPublishedFails(r)
       PROVE  VisibleInv'
  BY <1>6, <1>7, <1>11 DEF MarkPublished, MarkPublishedFails
<1>12. ASSUME NEW r \in Replicas, Crash(r) PROVE VisibleInv'
  BY <1>6, <1>12 DEF Crash, TypeOK
<1>13. ASSUME NEW r \in Replicas, Restart(r) PROVE VisibleInv'
  BY <1>6, <1>13 DEF Restart, relayVars
<1>14. CASE UNCHANGED vars
  BY <1>6, <1>14 DEF vars, relayVars
<1> QED
  BY <1>1, <1>2, <1>3, <1>4, <1>8, <1>9, <1>10, <1>11, <1>12, <1>13, <1>14
  DEF Next, WriterStep, RelayStep

(* A row is marked after it was handed over: provided that a producer      *)
(* exists when Kafka is on.                                                *)
LEMMA AckStep ==
  ASSUME UseKafka => HasBrokers, TypeOK, AckInv, [Next]_vars
  PROVE  AckInv'
<1> USE ConstantsAssumption
<1>0. emitted \in Seq(Rows)
  BY DEF TypeOK
<1>1. ASSUME UNCHANGED <<published, emitted, pc, todo>> PROVE AckInv'
  BY <1>1 DEF AckInv, Emitted
<1>2. ASSUME NEW r \in Replicas, Tick(r) PROVE AckInv'
  <2>1. Emitted' = Emitted
    BY <1>2 DEF Tick, Emitted
  <2> QED
    BY <1>2, <2>1 DEF Tick, AckInv, TypeOK
<1>3. ASSUME NEW r \in Replicas, PublishKafka(r) \/ PublishLocal(r) PROVE AckInv'
  <2>1. emitted' = Append(emitted, Current(r))
    BY <1>3 DEF PublishKafka, PublishLocal, AfterPublish
  <2>2. pc[r] # "idle"
    BY <1>3 DEF PublishKafka, PublishLocal
  <2>3. Emitted' = Emitted \union {Current(r)}
    BY <1>0, <2>1, <2>2, BusyRelay, EmittedAppend
  <2>4. /\ todo' = todo /\ published' = published
        /\ \A q \in Replicas : q # r => pc'[q] = pc[q]
    BY <1>3 DEF PublishKafka, PublishLocal, TypeOK
  <2>5. Current(r) \in todo[r] /\ \A k \in todo[r] : Current(r) <= k
    BY <2>2, BusyRelay
  <2> QED
    BY <2>3, <2>4, <2>5 DEF AckInv
<1>4. ASSUME NEW r \in Replicas, NextRow(r)
      PROVE  \A q \in Replicas : pc'[q] = "mark" => q # r /\ pc[q] = "mark" /\ todo'[q] = todo[q]
  BY <1>4 DEF NextRow, TypeOK
<1>5. ASSUME NEW r \in Replicas, NEW stored \in BOOLEAN, PublishFails(r, stored)
      PROVE  AckInv'
  <2>1. Emitted \subseteq Emitted'
    <3>1. CASE stored
      BY <1>0, <1>5, <3>1, BusyRelay, EmittedAppend DEF PublishFails
    <3>2. CASE ~stored
      BY <1>5, <3>2 DEF PublishFails, Emitted
    <3> QED
      BY <3>1, <3>2
  <2> QED
    BY <1>4, <1>5, <2>1 DEF PublishFails, AckInv
<1>6. ASSUME NEW r \in Replicas, MarkPublished(r) PROVE AckInv'
  <2>1. Emitted' = Emitted
    BY <1>6 DEF MarkPublished, Emitted
  <2>2. Current(r) \in Emitted
    BY <1>6, MarkingWasEmitted DEF MarkPublished
  <2> QED
    BY <1>4, <1>6, <2>1, <2>2 DEF MarkPublished, AckInv
<1>7. ASSUME NEW r \in Replicas, MarkPublishedFails(r) PROVE AckInv'
  <2>1. Emitted' = Emitted
    BY <1>7 DEF MarkPublishedFails, Emitted
  <2> QED
    BY <1>4, <1>7, <2>1 DEF MarkPublishedFails, AckInv
<1>8. ASSUME NEW r \in Replicas, Crash(r) PROVE AckInv'
  <2>1. Emitted' = Emitted
    BY <1>8 DEF Crash, Emitted
  <2> QED
    BY <1>8, <2>1 DEF Crash, AckInv, TypeOK
<1> QED
  BY <1>1, <1>2, <1>3, <1>5, <1>6, <1>7, <1>8
  DEF Next, WriterStep, RelayStep, InsertOutbox, CommitOutbox, RollbackOutbox,
      Restart, vars, relayVars

(* No row is acknowledged unless it was committed and handed over first,   *)
(* for any number of replicas: provided that a producer exists when Kafka  *)
(* is on (Publish of a nil producer reports success and sends nothing).    *)
THEOREM AckedWasEmittedAlways ==
  ASSUME UseKafka => HasBrokers
  PROVE  Spec => []AckedWasEmitted
<1>1. Init => TypeOK /\ VisibleInv /\ AckInv
  BY ConstantsAssumption DEF Init, TypeOK, VisibleInv, AckInv, Emitted, Committed, Rows
<1>2. TypeOK /\ VisibleInv /\ AckInv /\ [Next]_vars => (TypeOK /\ VisibleInv /\ AckInv)'
  BY TypeStep, VisibleStep, AckStep
<1>3. TypeOK /\ VisibleInv /\ AckInv => AckedWasEmitted
  <2>1. SUFFICES ASSUME TypeOK, VisibleInv, AckInv PROVE AckedWasEmitted
    OBVIOUS
  <2>2. emitted \in Seq(Rows) /\ \A n \in 1..Len(emitted) : tx[emitted[n]] = "committed"
    BY <2>1 DEF TypeOK, VisibleInv
  <2>3. Emitted \subseteq Committed
    BY <2>2 DEF Emitted, Committed
  <2> QED
    BY <2>1, <2>3 DEF AckInv, AckedWasEmitted
<1> QED
  BY <1>1, <1>2, <1>3, PTL DEF Spec

-----------------------------------------------------------------------------
(* A row is never touched by a writer again once it is committed.          *)
LEMMA WriterKeepsHistory ==
  ASSUME TypeOK, WriterStep, NEW j \in Rows, tx[j] = "committed"
  PROVE  prior'[j] = prior[j] /\ tx'[j] = "committed"
<1>1. ASSUME NEW c \in Chats, InsertOutbox(c)
      PROVE  prior'[j] = prior[j] /\ tx'[j] = "committed"
  <2>1. seq + 1 # j
    BY <1>1, ConstantsAssumption DEF InsertOutbox, TypeOK, Rows
  <2> QED
    BY <1>1, <2>1 DEF InsertOutbox, TypeOK
<1>2. ASSUME NEW i \in Rows, CommitOutbox(i) \/ RollbackOutbox(i)
      PROVE  prior'[j] = prior[j] /\ tx'[j] = "committed"
  BY <1>2 DEF CommitOutbox, RollbackOutbox, TypeOK
<1> QED
  BY <1>1, <1>2 DEF WriterStep

(* The writers change nothing the relays keep.                             *)
LEMMA WriterLeavesRelays ==
  ASSUME WriterStep
  PROVE  UNCHANGED <<published, emitted, hub, up, pc, todo, pubErrs, markErrs, crashes>>
BY DEF WriterStep, InsertOutbox, CommitOutbox, RollbackOutbox, relayVars, faultVars

(* Until a publish fails, a relay has reached a row only after everything  *)
(* that precedes it was handed over, by itself or by another one.          *)
LEMMA PriorWasEmitted ==
  ASSUME TypeOK, VisibleInv, OrderInv, pubErrs = 0, NEW r \in Replicas, pc[r] # "idle",
         NEW i \in prior[Current(r)]
  PROVE  i \in Emitted
<1>1. /\ Current(r) \in todo[r] /\ Current(r) \in Rows
      /\ \A k \in todo[r] : Current(r) <= k
  BY BusyRelay
<1>2. i < Current(r) /\ i \in Rows
  BY <1>1 DEF VisibleInv, TypeOK
<1>3. i \notin todo[r]
  BY <1>1, <1>2, ConstantsAssumption DEF Rows
<1> QED
  BY <1>1, <1>3 DEF OrderInv

(* Until a publish fails: in a batch, what precedes a row is in the batch  *)
(* too or was handed over; so a relay that has reached a row has handed    *)
(* over, or found handed over, everything that precedes it.                *)
LEMMA OrderStep ==
  ASSUME TypeOK, VisibleInv, AckInv, OrderInv, [Next]_vars
  PROVE  OrderInv'
<1> USE ConstantsAssumption
<1>0. /\ emitted \in Seq(Rows) /\ Len(emitted) \in Nat
      /\ \A n \in 1..Len(emitted) : emitted[n] \in Rows /\ tx[emitted[n]] = "committed"
      /\ \A r \in Replicas : \A j \in todo[r] : j \in Rows /\ tx[j] = "committed"
  BY DEF TypeOK, VisibleInv, Committed
<1>1. CASE WriterStep
  <2>1. UNCHANGED <<emitted, todo, pubErrs>>
    BY <1>1, WriterLeavesRelays
  <2>2. \A j \in Rows : tx[j] = "committed" => prior'[j] = prior[j]
    BY <1>1, WriterKeepsHistory
  <2>3. Emitted' = Emitted
    BY <2>1 DEF Emitted
  <2> SUFFICES ASSUME pubErrs = 0 PROVE OrderInv'
    BY <2>1 DEF OrderInv
  <2>4. \A r \in Replicas : \A j \in todo'[r] : \A i \in prior'[j] :
          i \in Emitted' \/ i \in todo'[r]
    BY <1>0, <2>1, <2>2, <2>3 DEF OrderInv
  <2>5. \A n \in 1..Len(emitted') : \A i \in prior'[emitted'[n]] :
          \E m \in 1..(n - 1) : emitted'[m] = i
    <3>1. \A n \in 1..Len(emitted) : prior'[emitted[n]] = prior[emitted[n]]
      BY <1>0, <2>2
    <3> QED
      BY <2>1, <3>1 DEF OrderInv
  <2> QED
    BY <2>4, <2>5 DEF OrderInv
<1>2. ASSUME NEW r \in Replicas, Tick(r) PROVE OrderInv'
  <2>1. UNCHANGED <<prior, emitted, pubErrs>> /\ Emitted' = Emitted
    BY <1>2 DEF Tick, logVars, faultVars, Emitted
  <2>2. ASSUME NEW j \in FetchPending, NEW i \in prior[j]
        PROVE  i \in Emitted \/ i \in FetchPending
    <3>1. j \in Rows
      BY DEF FetchPending, Committed
    <3>2. i \in Committed /\ i < j
      BY <3>1 DEF VisibleInv, TypeOK, Committed
    <3>3. CASE i \in published
      BY <3>3 DEF AckInv
    <3>4. CASE i \notin published
      BY <3>2, <3>4, FetchIsPrefix
    <3> QED
      BY <3>3, <3>4
  <2>3. \A q \in Replicas : todo'[q] = IF q = r THEN FetchPending ELSE todo[q]
    BY <1>2 DEF Tick, TypeOK
  <2> QED
    BY <2>1, <2>2, <2>3 DEF OrderInv
<1>3. ASSUME NEW r \in Replicas, pc[r] # "idle", emitted' = Append(emitted, Current(r)),
             UNCHANGED <<prior, todo, pubErrs>>
      PROVE  OrderInv'
  <2> SUFFICES ASSUME pubErrs = 0 PROVE OrderInv'
    BY <1>3 DEF OrderInv
  <2>1. /\ Current(r) \in todo[r] /\ Current(r) \in Rows
        /\ \A k \in todo[r] : Current(r) <= k
    BY <1>3, BusyRelay
  <2>2. /\ Len(emitted') = Len(emitted) + 1
        /\ \A n \in 1..Len(emitted) : emitted'[n] = emitted[n]
        /\ emitted'[Len(emitted) + 1] = Current(r)
        /\ Emitted' = Emitted \union {Current(r)}
    BY <1>0, <1>3, <2>1, EmittedAppend
  <2>3. \A q \in Replicas : \A j \in todo'[q] : \A i \in prior'[j] :
          i \in Emitted' \/ i \in todo'[q]
    BY <1>3, <2>2 DEF OrderInv
  <2>4. \A i \in prior[Current(r)] : i \in Emitted
    BY <1>3, PriorWasEmitted
  <2>5. ASSUME NEW n \in 1..Len(emitted'), NEW i \in prior'[emitted'[n]]
        PROVE  \E m \in 1..(n - 1) : emitted'[m] = i
    <3>1. CASE n \in 1..Len(emitted)
      <4>1. \E m \in 1..(n - 1) : emitted[m] = i
        BY <1>3, <2>2, <2>5, <3>1 DEF OrderInv
      <4> QED
        BY <1>0, <2>2, <3>1, <4>1
    <3>2. CASE n = Len(emitted) + 1
      <4>1. i \in Emitted
        BY <1>3, <2>2, <2>4, <2>5, <3>2
      <4>2. \E m \in 1..Len(emitted) : emitted[m] = i
        BY <4>1 DEF Emitted
      <4> QED
        BY <1>0, <2>2, <3>2, <4>2
    <3> QED
      BY <1>0, <2>2, <3>1, <3>2
  <2> QED
    BY <2>3, <2>5 DEF OrderInv
<1>4. ASSUME NEW r \in Replicas, PublishKafka(r) PROVE OrderInv'
  <2>1. CASE HasBrokers
    BY <1>3, <1>4, <2>1 DEF PublishKafka, AfterPublish, logVars, faultVars
  <2>2. CASE ~HasBrokers
    BY <1>4, <2>2 DEF PublishKafka, AfterPublish, logVars, faultVars, OrderInv, Emitted
  <2> QED
    BY <2>1, <2>2
<1>5. ASSUME NEW r \in Replicas, PublishLocal(r) PROVE OrderInv'
  BY <1>3, <1>5 DEF PublishLocal, logVars, faultVars
<1>6. ASSUME NEW r \in Replicas, NEW stored \in BOOLEAN, PublishFails(r, stored)
      PROVE  OrderInv'
  BY <1>6 DEF PublishFails, OrderInv, TypeOK
<1>7. ASSUME NEW r \in Replicas, MarkPublished(r) \/ MarkPublishedFails(r)
      PROVE  OrderInv'
  <2>1. UNCHANGED <<prior, emitted, pubErrs>> /\ Emitted' = Emitted
    BY <1>7 DEF MarkPublished, MarkPublishedFails, logVars, faultVars, Emitted
  <2>2. pc[r] = "mark" /\ NextRow(r)
    BY <1>7 DEF MarkPublished, MarkPublishedFails
  <2>3. Current(r) \in Emitted
    BY <2>2, MarkingWasEmitted
  <2>4. \A q \in Replicas : todo'[q] = IF q = r THEN todo[q] \ {Current(r)} ELSE todo[q]
    BY <2>2 DEF NextRow, TypeOK
  <2> SUFFICES ASSUME pubErrs = 0 PROVE OrderInv'
    BY <2>1 DEF OrderInv
  <2>5. ASSUME NEW q \in Replicas, NEW j \in todo'[q], NEW i \in prior'[j]
        PROVE  i \in Emitted' \/ i \in todo'[q]
    <3>1. j \in todo[q] /\ i \in prior[j]
      BY <2>1, <2>4, <2>5
    <3>2. i \in Emitted \/ i \in todo[q]
      BY <3>1 DEF OrderInv
    <3> QED
      BY <2>1, <2>3, <2>4, <3>2
  <2>6. \A n \in 1..Len(emitted') : \A i \in prior'[emitted'[n]] :
          \E m \in 1..(n - 1) : emitted'[m] = i
    <3>1. \A n \in 1..Len(emitted) : \A i \in prior[emitted[n]] :
            \E m \in 1..(n - 1) : emitted[m] = i
      BY DEF OrderInv
    <3> QED
      BY <2>1, <3>1
  <2> QED
    BY <2>5, <2>6 DEF OrderInv
<1>8. ASSUME NEW r \in Replicas, Crash(r) PROVE OrderInv'
  <2>1. UNCHANGED <<prior, emitted, pubErrs>> /\ Emitted' = Emitted
    BY <1>8 DEF Crash, logVars, Emitted
  <2>2. \A q \in Replicas : todo'[q] = IF q = r THEN {} ELSE todo[q]
    BY <1>8 DEF Crash, TypeOK
  <2> QED
    BY <2>1, <2>2 DEF OrderInv
<1>9. ASSUME UNCHANGED <<prior, emitted, todo, pubErrs>> PROVE OrderInv'
  BY <1>9 DEF OrderInv, Emitted
<1>10. ASSUME NEW r \in Replicas, Restart(r) PROVE OrderInv'
  BY <1>9, <1>10 DEF Restart, logVars, relayVars, faultVars
<1>11. CASE UNCHANGED vars
  BY <1>9, <1>11 DEF vars, logVars, relayVars, faultVars
<1> QED
  BY <1>1, <1>2, <1>4, <1>5, <1>6, <1>7, <1>8, <1>10, <1>11 DEF Next, RelayStep

(* In-chat order of first deliveries, for any number of replicas, rows and *)
(* chats, any batch limit, any crashes and any failed marks: an event is   *)
(* first handed over after all the events of its chat that precede it,     *)
(* for as long as no publish has failed.                                   *)
THEOREM NoOvertakingAlways ==
  ASSUME UseKafka => HasBrokers
  PROVE  Spec => []NoOvertaking
<1> DEFINE IInv == TypeOK /\ VisibleInv /\ AckInv /\ OrderInv
<1>1. Init => IInv
  BY ConstantsAssumption
  DEF Init, TypeOK, VisibleInv, AckInv, OrderInv, Emitted, Committed, Rows
<1>2. IInv /\ [Next]_vars => IInv'
  BY TypeStep, VisibleStep, AckStep, OrderStep
<1>3. IInv => NoOvertaking
  BY DEF OrderInv, NoOvertaking
<1> QED
  BY <1>1, <1>2, <1>3, PTL DEF Spec

-----------------------------------------------------------------------------
(* Every step of the relays and the writers is a step of the contract, or  *)
(* changes nothing that the contract speaks of.                            *)
LEMMA ContractStep ==
  ASSUME UseKafka => HasBrokers, TypeOK, VisibleInv, AckInv, OrderInv, [Next]_vars
  PROVE  [Contract!Next]_(Contract!vars)
<1> USE ConstantsAssumption
<1>0. /\ emitted \in Seq(Rows) /\ pubErrs \in Nat
      /\ emitted' = emitted => Emitted' = Emitted
      /\ Contract!Rows = Rows
  BY DEF TypeOK, Emitted, Rows, Contract!Rows
<1>1. ASSUME NEW c \in Chats, InsertOutbox(c) PROVE Contract!Next
  <2>1. Contract!Insert(c)
    BY <1>0, <1>1 DEF InsertOutbox, Contract!Insert, relayVars, faultVars
  <2> QED
    BY <2>1 DEF Contract!Next
<1>2. ASSUME NEW i \in Rows, CommitOutbox(i) PROVE Contract!Next
  <2>1. {k \in Committed : k < i} = {k \in Rows : k < i /\ tx[k] = "committed"}
    BY DEF Committed
  <2>2. Contract!Commit(i)
    BY <1>0, <1>2, <2>1 DEF CommitOutbox, Contract!Commit, relayVars, faultVars
  <2> QED
    BY <1>0, <2>2 DEF Contract!Next
<1>3. ASSUME NEW i \in Rows, RollbackOutbox(i) PROVE Contract!Next
  <2>1. Contract!Abort(i)
    BY <1>0, <1>3 DEF RollbackOutbox, Contract!Abort, relayVars, faultVars
  <2> QED
    BY <1>0, <2>1 DEF Contract!Next
<1>4. ASSUME NEW r \in Replicas, PublishKafka(r) \/ PublishLocal(r) PROVE Contract!Next
  <2> DEFINE i == Current(r)
  <2>1. pc[r] # "idle" /\ emitted' = Append(emitted, i)
    BY <1>4 DEF PublishKafka, PublishLocal, AfterPublish
  <2>2. i \in Rows /\ tx[i] = "committed"
    BY <2>1, BusyRelay DEF VisibleInv, Committed
  <2>3. Emitted' = Emitted \union {i}
    BY <1>0, <2>1, <2>2, EmittedAppend
  <2>4. pubErrs = 0 => \A k \in prior[i] : k \in Emitted
    BY <2>1, PriorWasEmitted
  <2>5. UNCHANGED <<seq, tx, chat, prior, published, pubErrs>>
    BY <1>4 DEF PublishKafka, PublishLocal, logVars, faultVars
  <2>6. Contract!Emit(i)
    BY <2>2, <2>3, <2>4, <2>5 DEF Contract!Emit
  <2> QED
    BY <1>0, <2>2, <2>6 DEF Contract!Next
<1>5. ASSUME NEW r \in Replicas, NEW stored \in BOOLEAN, PublishFails(r, stored)
      PROVE  Contract!Next
  <2> DEFINE i == Current(r)
  <2>1. pc[r] # "idle" /\ emitted' = IF stored THEN Append(emitted, i) ELSE emitted
    BY <1>5 DEF PublishFails
  <2>2. i \in Rows /\ tx[i] = "committed"
    BY <2>1, BusyRelay DEF VisibleInv, Committed
  <2>3. Emitted' \in {Emitted, Emitted \union {i}}
    BY <1>0, <2>1, <2>2, EmittedAppend
  <2>4. UNCHANGED <<seq, tx, chat, prior, published>> /\ pubErrs' # 0
    BY <1>0, <1>5 DEF PublishFails, logVars
  <2>5. Contract!FailToEmit(i)
    BY <2>2, <2>3, <2>4 DEF Contract!FailToEmit
  <2> QED
    BY <1>0, <2>2, <2>5 DEF Contract!Next
<1>6. ASSUME NEW r \in Replicas, MarkPublished(r) PROVE Contract!Next
  <2>1. Current(r) \in Emitted /\ Current(r) \in Rows
    BY <1>6, MarkingWasEmitted, BusyRelay DEF MarkPublished
  <2>2. Contract!MarkPublished(Current(r))
    BY <1>0, <1>6, <2>1 DEF MarkPublished, Contract!MarkPublished, logVars, faultVars
  <2> QED
    BY <1>0, <2>1, <2>2 DEF Contract!Next
<1>7. ASSUME UNCHANGED <<seq, tx, chat, prior, emitted, published, pubErrs>>
      PROVE  UNCHANGED Contract!vars
  BY <1>0, <1>7 DEF Contract!vars
<1>8. ASSUME NEW r \in Replicas,
             Tick(r) \/ MarkPublishedFails(r) \/ Crash(r) \/ Restart(r)
      PROVE  UNCHANGED Contract!vars
  BY <1>7, <1>8 DEF Tick, MarkPublishedFails, Crash, Restart, logVars, faultVars
<1>9. CASE UNCHANGED vars
  BY <1>7, <1>9 DEF vars, logVars, faultVars
<1> QED
  BY <1>1, <1>2, <1>3, <1>4, <1>5, <1>6, <1>8, <1>9 DEF Next, WriterStep, RelayStep

(* The relays of any number of replicas, whatever they fetch twice, lose   *)
(* in a crash or fail to publish or mark, implement the outbox contract.   *)
THEOREM RelaysImplementContract ==
  ASSUME UseKafka => HasBrokers
  PROVE  Spec => ImplementsContract
<1> DEFINE IInv == TypeOK /\ VisibleInv /\ AckInv /\ OrderInv
<1>1. Init => IInv
  BY ConstantsAssumption
  DEF Init, TypeOK, VisibleInv, AckInv, OrderInv, Emitted, Committed, Rows
<1>2. IInv /\ [Next]_vars => IInv'
  BY TypeStep, VisibleStep, AckStep, OrderStep
<1>3. Init => Contract!Init
  BY DEF Init, Contract!Init, Emitted, Rows, Contract!Rows
<1>4. IInv /\ [Next]_vars => [Contract!Next]_(Contract!vars)
  BY ContractStep
<1> QED
  BY <1>1, <1>2, <1>3, <1>4, PTL DEF Spec, ImplementsContract, Contract!Spec

-----------------------------------------------------------------------------
(* One relay, without failed publishes and marks: what precedes a row it   *)
(* has handed over is acknowledged, and what it works on is not.           *)
LEMMA SingleStep ==
  ASSUME TypeOK, VisibleInv, SingleInv, [Next]_vars
  PROVE  SingleInv'
<1> USE ConstantsAssumption
<1>0. /\ emitted \in Seq(Rows) /\ Len(emitted) \in Nat
      /\ pubErrs \in Nat /\ markErrs \in Nat
      /\ \A n \in 1..Len(emitted) : emitted[n] \in Rows /\ tx[emitted[n]] = "committed"
      /\ \A r \in Replicas : \A j \in todo[r] : j \in Rows /\ tx[j] = "committed"
  BY DEF TypeOK, VisibleInv, Committed
<1>1. CASE WriterStep
  <2>1. UNCHANGED <<published, emitted, todo, pubErrs, markErrs>>
    BY <1>1, WriterLeavesRelays
  <2>2. \A j \in Rows : tx[j] = "committed" => prior'[j] = prior[j]
    BY <1>1, WriterKeepsHistory
  <2>3. /\ \A n \in 1..Len(emitted) : prior'[emitted[n]] = prior[emitted[n]]
        /\ \A r \in Replicas : \A j \in todo[r] : prior'[j] = prior[j]
    BY <1>0, <2>2
  <2>4. \A n \in 1..Len(emitted) : \A m \in 1..(n - 1) : m \in 1..Len(emitted)
    BY <1>0
  <2> QED
    BY <2>1, <2>3, <2>4 DEF SingleInv
<1>2. ASSUME NEW r \in Replicas, Tick(r) PROVE SingleInv'
  <2>1. UNCHANGED <<prior, emitted, published, pubErrs, markErrs>>
    BY <1>2 DEF Tick, logVars, faultVars
  <2>2. ASSUME NEW j \in FetchPending, NEW i \in prior[j]
        PROVE  i \in published \/ i \in FetchPending
    <3>1. j \in Rows
      BY DEF FetchPending, Committed
    <3>2. i \in Committed /\ i < j
      BY <3>1 DEF VisibleInv, TypeOK, Committed
    <3> QED
      BY <3>2, FetchIsPrefix
  <2>3. FetchPending \intersect published = {}
    BY DEF FetchPending
  <2>4. \A q \in Replicas : todo'[q] = IF q = r THEN FetchPending ELSE todo[q]
    BY <1>2 DEF Tick, TypeOK
  <2> QED
    BY <2>1, <2>2, <2>3, <2>4 DEF SingleInv
<1>3. ASSUME NEW r \in Replicas, pc[r] # "idle", emitted' = Append(emitted, Current(r)),
             UNCHANGED <<prior, published, todo, pubErrs, markErrs>>
      PROVE  SingleInv'
  <2> SUFFICES ASSUME pubErrs = 0, markErrs = 0 PROVE SingleInv'
    BY <1>3 DEF SingleInv
  <2>1. /\ Current(r) \in todo[r] /\ Current(r) \in Rows
        /\ \A k \in todo[r] : Current(r) <= k
    BY <1>3, BusyRelay
  <2>2. /\ Len(emitted') = Len(emitted) + 1
        /\ \A n \in 1..Len(emitted) : emitted'[n] = emitted[n]
        /\ emitted'[Len(emitted) + 1] = Current(r)
    BY <1>0, <1>3, <2>1, EmittedAppend
  <2>3. prior[Current(r)] \subseteq published
    <3> SUFFICES ASSUME NEW i \in prior[Current(r)] PROVE i \in published
      OBVIOUS
    <3>1. i < Current(r) /\ i \in Rows
      BY <2>1 DEF VisibleInv, TypeOK
    <3>2. i \notin todo[r]
      BY <2>1, <3>1 DEF Rows
    <3> QED
      BY <2>1, <3>2 DEF SingleInv
  <2>4. \A n \in 1..Len(emitted) : prior[emitted[n]] \subseteq published
    BY DEF SingleInv
  <2>5. \A n \in 1..Len(emitted') : prior'[emitted'[n]] \subseteq published'
    BY <1>0, <1>3, <2>2, <2>3, <2>4
  <2>6. ASSUME \A q, p \in Replicas : q = p,
               NEW n \in 1..Len(emitted'), NEW m \in 1..(n - 1)
        PROVE  emitted'[n] \notin prior'[emitted'[m]]
    <3>1. m \in 1..Len(emitted) /\ emitted'[m] = emitted[m]
      BY <1>0, <2>2
    <3>2. CASE n \in 1..Len(emitted)
      BY <1>3, <2>2, <2>6, <3>1, <3>2 DEF SingleInv
    <3>3. CASE n = Len(emitted) + 1
      <4>1. Current(r) \notin published
        BY <2>1, <2>6 DEF SingleInv
      <4> QED
        BY <1>3, <2>2, <2>4, <3>1, <3>3, <4>1
    <3> QED
      BY <1>0, <2>2, <3>2, <3>3
  <2> QED
    BY <1>3, <2>5, <2>6 DEF SingleInv
<1>4. ASSUME UNCHANGED <<prior, emitted, published, pubErrs, markErrs, todo>>
      PROVE  SingleInv'
  BY <1>4 DEF SingleInv
<1>5. ASSUME NEW r \in Replicas, PublishKafka(r) PROVE SingleInv'
  BY <1>3, <1>4, <1>5 DEF PublishKafka, AfterPublish, logVars, faultVars
<1>6. ASSUME NEW r \in Replicas, PublishLocal(r) PROVE SingleInv'
  BY <1>3, <1>6 DEF PublishLocal, logVars, faultVars
<1>7. ASSUME NEW r \in Replicas, NEW stored \in BOOLEAN,
             PublishFails(r, stored) \/ MarkPublishedFails(r)
      PROVE  SingleInv'
  BY <1>0, <1>7 DEF PublishFails, MarkPublishedFails, SingleInv
<1>8. ASSUME NEW r \in Replicas, MarkPublished(r) PROVE SingleInv'
  <2>1. /\ UNCHANGED <<prior, emitted, pubErrs, markErrs>>
        /\ published' = published \union {Current(r)}
    BY <1>8 DEF MarkPublished, logVars, faultVars
  <2>2. \A q \in Replicas : todo'[q] = IF q = r THEN todo[q] \ {Current(r)} ELSE todo[q]
    BY <1>8 DEF MarkPublished, NextRow, TypeOK
  <2> SUFFICES ASSUME pubErrs = 0, markErrs = 0 PROVE SingleInv'
    BY <2>1 DEF SingleInv
  <2>3. \A q \in Replicas : \A j \in todo'[q] : \A i \in prior'[j] :
          i \in published' \/ i \in todo'[q]
    <3>1. \A q \in Replicas : \A j \in todo[q] : \A i \in prior[j] :
            i \in published \/ i \in todo[q]
      BY DEF SingleInv
    <3> QED
      BY <2>1, <2>2, <3>1
  <2>4. \A n \in 1..Len(emitted') : prior'[emitted'[n]] \subseteq published'
    BY <2>1 DEF SingleInv
  <2>5. ASSUME \A q, p \in Replicas : q = p
        PROVE  /\ \A q \in Replicas : todo'[q] \intersect published' = {}
               /\ \A n \in 1..Len(emitted') : \A m \in 1..(n - 1) :
                    emitted'[n] \notin prior'[emitted'[m]]
    <3>1. todo[r] \intersect published = {}
      BY <2>5 DEF SingleInv
    <3>2. \A q \in Replicas : todo'[q] \intersect published' = {}
      BY <2>1, <2>2, <2>5, <3>1
    <3>3. \A n \in 1..Len(emitted) : \A m \in 1..(n - 1) :
            emitted[n] \notin prior[emitted[m]]
      BY <2>5 DEF SingleInv
    <3> QED
      BY <2>1, <3>2, <3>3
  <2> QED
    BY <2>3, <2>4, <2>5 DEF SingleInv
<1>9. ASSUME NEW r \in Replicas, Crash(r) PROVE SingleInv'
  <2>1. UNCHANGED <<prior, emitted, published, pubErrs, markErrs>>
    BY <1>9 DEF Crash, logVars
  <2>2. \A q \in Replicas : todo'[q] = IF q = r THEN {} ELSE todo[q]
    BY <1>9 DEF Crash, TypeOK
  <2> QED
    BY <2>1, <2>2 DEF SingleInv
<1>10. ASSUME NEW r \in Replicas, Restart(r) PROVE SingleInv'
  BY <1>4, <1>10 DEF Restart, logVars, relayVars, faultVars
<1>11. CASE UNCHANGED vars
  BY <1>4, <1>11 DEF vars, logVars, relayVars, faultVars
<1> QED
  BY <1>1, <1>2, <1>5, <1>6, <1>7, <1>8, <1>9, <1>10, <1>11 DEF Next, RelayStep

(* In-chat order for a single replica, over any number of rows, chats and  *)
(* crashes and for any batch limit: as long as no publish and no mark      *)
(* fails, no older event of a chat is handed over behind a newer one.      *)
THEOREM SingleRelayOrderAlways == Spec => []SingleRelayOrder
<1> DEFINE IInv == TypeOK /\ VisibleInv /\ SingleInv
<1>1. Init => IInv
  BY ConstantsAssumption
  DEF Init, TypeOK, VisibleInv, SingleInv, Emitted, Committed, Rows
<1>2. IInv /\ [Next]_vars => IInv'
  BY TypeStep, VisibleStep, SingleStep
<1>3. IInv => SingleRelayOrder
  <2>1. Cardinality(Replicas) = 1 => \A r, q \in Replicas : r = q
    <3>1. Cardinality(Replicas) = 1 => \E x : Replicas = {x}
      BY ConstantsAssumption, FS_Singleton
    <3> QED
      BY <3>1
  <2> QED
    BY <2>1 DEF SingleInv, SingleRelayOrder, InChatOrder
<1> QED
  BY <1>1, <1>2, <1>3, PTL DEF Spec
=============================================================================
