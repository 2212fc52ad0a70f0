------------------------- MODULE AppLifecycleProofs -------------------------
(***************************************************************************)
(* Proofs about AppLifecycle, for every set of replicas, every number of   *)
(* migrations and every number of faults.                                  *)
(***************************************************************************)
EXTENDS AppLifecycle, TLAPS

USE LifecycleAssumption DEF Migrations, Workers, Handlers

(* The shape of the state, in particular that at most one replica has an   *)
(* uncommitted transaction that has executed a given migration (Up).       *)
THEOREM LifecycleTypeCorrect == Spec => []TypeOK
<1>1. Init => TypeOK
  BY DEF Init, TypeOK, Applying
<1>2. TypeOK /\ [Next]_vars => TypeOK'
  <2> SUFFICES ASSUME TypeOK, [Next]_vars PROVE TypeOK'
    OBVIOUS
  <2> USE DEF TypeOK, Applying, GoTo, Exit, NextFile, dbVars
  <2>1. ASSUME NEW r \in Replicas, Start(r) PROVE TypeOK'
    BY <2>1 DEF Start
  <2>2. ASSUME NEW r \in Replicas, Check(r) PROVE TypeOK'
    <3>1. CASE file[r] > Last
      BY <2>2, <3>1 DEF Check
    <3>2. CASE file[r] <= Last /\ file[r] \in stamped
      BY <2>2, <3>2 DEF Check
    <3>3. CASE file[r] <= Last /\ file[r] \notin stamped
      BY <2>2, <3>3 DEF Check
    <3> QED
      BY <3>1, <3>2, <3>3
  <2>3. ASSUME NEW r \in Replicas, Exec(r) PROVE TypeOK'
    BY <2>3 DEF Exec
  <2>4. ASSUME NEW r \in Replicas, ExecFails(r) PROVE TypeOK'
    BY <2>4 DEF ExecFails
  <2>5. ASSUME NEW r \in Replicas, Stamp(r) PROVE TypeOK'
    <3>1. CASE file[r] \in stamped
      <4>1. Exit(r) /\ UNCHANGED <<schema, stamped, faults>>
        BY <2>5, <3>1 DEF Stamp
      <4> QED
        BY <4>1
    <3>2. CASE file[r] \notin stamped
      BY <2>5, <3>2 DEF Stamp
    <3> QED
      BY <3>1, <3>2
  <2>6. ASSUME NEW r \in Replicas, Commit(r) PROVE TypeOK'
    <3>1. /\ file[r] \in Migrations /\ r \in Applying(file[r])
          /\ file' = [file EXCEPT ![r] = file[r] + 1] /\ pc' = [pc EXCEPT ![r] = "check"]
          /\ schema' = schema \union {file[r]} /\ stamped' = stamped \union {file[r]}
          /\ UNCHANGED <<running, timedOut, busy, faults>>
      BY <2>6 DEF Commit
    <3>2. file' \in [Replicas -> 1..(Last + 1)]
      BY <3>1
    <3>3. schema' \subseteq Migrations /\ stamped' \subseteq Migrations
      BY <3>1
    <3>4. \A p, q \in Replicas :
            (p \in Applying(file[p]))' /\ (q \in Applying(file[p]))' => p = q
      BY <3>1
    <3> QED
      BY <3>1, <3>2, <3>3, <3>4
  <2>7. ASSUME NEW r \in Replicas, New(r) PROVE TypeOK'
    BY <2>7 DEF New
  <2>8. ASSUME NEW r \in Replicas, WaitEnds(r) PROVE TypeOK'
    BY <2>8 DEF WaitEnds
  <2>9. ASSUME NEW r \in Replicas, WaitTimesOut(r) PROVE TypeOK'
    BY <2>9 DEF WaitTimesOut
  <2>10. ASSUME NEW r \in Replicas, CloseProducer(r) \/ CloseAll(r) PROVE TypeOK'
    <3>1. CASE CloseProducer(r)
      BY <3>1 DEF CloseProducer
    <3>2. CASE CloseAll(r)
      BY <3>2 DEF CloseAll
    <3> QED
      BY <2>10, <3>1, <3>2
  <2>11. ASSUME NEW r \in Replicas, ServerStops(r) PROVE TypeOK'
    <3>1. PICK B \in SUBSET (running[r] \union Handlers) : busy' = [busy EXCEPT ![r] = B]
      BY <2>11 DEF ServerStops
    <3>2. /\ pc[r] = "stopping" /\ pc' = [pc EXCEPT ![r] = "exiting"]
         /\ UNCHANGED <<schema, stamped, file, running, timedOut, faults>>
      BY <2>11 DEF ServerStops
    <3> QED
      BY <3>1, <3>2
  <2>12. ASSUME NEW r \in Replicas, ShutdownTimesOut(r) \/ PoolClosed(r) PROVE TypeOK'
    <3>1. Exit(r) /\ UNCHANGED <<schema, stamped, faults>>
      BY <2>12 DEF ShutdownTimesOut, PoolClosed
    <3> QED
      BY <3>1
  <2>13. ASSUME NEW r \in Replicas, NEW x \in Workers \union Handlers, Release(r, x) PROVE TypeOK'
    BY <2>13 DEF Release
  <2>14. ASSUME NEW r \in Replicas, BgCancel(r) PROVE TypeOK'
    BY <2>14 DEF BgCancel
  <2>15. ASSUME NEW r \in Replicas, NEW w \in Workers, WorkerEnds(r, w) PROVE TypeOK'
    BY <2>15 DEF WorkerEnds
  <2>16. ASSUME NEW r \in Replicas, SubscriberEnds(r) PROVE TypeOK'
    BY <2>16 DEF SubscriberEnds
  <2>17. ASSUME NEW r \in Replicas, Fault(r) PROVE TypeOK'
    BY <2>17 DEF Fault
  <2>18. CASE UNCHANGED vars
    BY <2>18 DEF vars, procVars
  <2> QED
    BY <2>1, <2>2, <2>3, <2>4, <2>5, <2>6, <2>7, <2>8, <2>9, <2>10, <2>11, <2>12, <2>13,
       <2>14, <2>15, <2>16, <2>17, <2>18 DEF Next, StartStep, StopStep
<1> QED
  BY <1>1, <1>2, PTL DEF Spec

-----------------------------------------------------------------------------
(* The inductive invariant: the loop of Up leaves stamped migrations       *)
(* behind, and nobody serves, or runs workers, before its end.             *)
LEMMA LifecycleInvInductive ==
  ASSUME TypeOK, LifecycleInv, [Next]_vars
  PROVE  LifecycleInv'
<1> USE DEF TypeOK, LifecycleInv, Early, GoTo, Exit, NextFile, dbVars
<1>1. ASSUME NEW r \in Replicas, Start(r) PROVE LifecycleInv'
  BY <1>1 DEF Start
<1>2. ASSUME NEW r \in Replicas, Check(r) PROVE LifecycleInv'
  BY <1>2 DEF Check
<1>3. ASSUME NEW r \in Replicas, Exec(r) PROVE LifecycleInv'
  BY <1>3 DEF Exec
<1>4. ASSUME NEW r \in Replicas, ExecFails(r) PROVE LifecycleInv'
  BY <1>4 DEF ExecFails
<1>5. ASSUME NEW r \in Replicas, Stamp(r) PROVE LifecycleInv'
  BY <1>5 DEF Stamp
<1>6. ASSUME NEW r \in Replicas, Commit(r) PROVE LifecycleInv'
  BY <1>6 DEF Commit
<1>7. ASSUME NEW r \in Replicas, New(r) PROVE LifecycleInv'
  BY <1>7 DEF New
<1>8. ASSUME NEW r \in Replicas, WaitEnds(r) PROVE LifecycleInv'
  BY <1>8 DEF WaitEnds
<1>9. ASSUME NEW r \in Replicas, WaitTimesOut(r) PROVE LifecycleInv'
  BY <1>9 DEF WaitTimesOut
<1>10. ASSUME NEW r \in Replicas, CloseProducer(r) \/ CloseAll(r) PROVE LifecycleInv'
  <2>1. CASE CloseProducer(r)
    BY <2>1 DEF CloseProducer
  <2>2. CASE CloseAll(r)
    BY <2>2 DEF CloseAll
  <2> QED
    BY <1>10, <2>1, <2>2
<1>11. ASSUME NEW r \in Replicas, ServerStops(r) PROVE LifecycleInv'
  <2>1. PICK B \in SUBSET (running[r] \union Handlers) : busy' = [busy EXCEPT ![r] = B]
    BY <1>11 DEF ServerStops
  <2>2. /\ pc[r] = "stopping" /\ pc' = [pc EXCEPT ![r] = "exiting"]
       /\ UNCHANGED <<schema, stamped, file, running, timedOut, faults>>
    BY <1>11 DEF ServerStops
  <2> QED
    BY <2>1, <2>2
<1>12. ASSUME NEW r \in Replicas, ShutdownTimesOut(r) \/ PoolClosed(r) PROVE LifecycleInv'
  <2>1. Exit(r) /\ UNCHANGED <<schema, stamped, faults>>
    BY <1>12 DEF ShutdownTimesOut, PoolClosed
  <2> QED
    BY <2>1
<1>13. ASSUME NEW r \in Replicas, NEW x \in Workers \union Handlers, Release(r, x) PROVE LifecycleInv'
  BY <1>13 DEF Release
<1>14. ASSUME NEW r \in Replicas, BgCancel(r) PROVE LifecycleInv'
  BY <1>14 DEF BgCancel
<1>15. ASSUME NEW r \in Replicas, NEW w \in Workers, WorkerEnds(r, w) PROVE LifecycleInv'
  BY <1>15 DEF WorkerEnds
<1>16. ASSUME NEW r \in Replicas, SubscriberEnds(r) PROVE LifecycleInv'
  BY <1>16 DEF SubscriberEnds
<1>17. ASSUME NEW r \in Replicas, Fault(r) PROVE LifecycleInv'
  BY <1>17 DEF Fault
<1>18. CASE UNCHANGED vars
  BY <1>18 DEF vars, procVars
<1> QED
  BY <1>1, <1>2, <1>3, <1>4, <1>5, <1>6, <1>7, <1>8, <1>9, <1>10, <1>11, <1>12, <1>13,
     <1>14, <1>15, <1>16, <1>17, <1>18 DEF Next, StartStep, StopStep

(* The inductive invariant holds in every state of the processes' lives.   *)
LEMMA LifecycleInvAlways == Spec => [](TypeOK /\ LifecycleInv)
<1>1. Init => LifecycleInv
  BY DEF Init, LifecycleInv, Early
<1> QED
  BY <1>1, LifecycleTypeCorrect, LifecycleInvInductive, PTL DEF Spec

(* Up, for any number of replicas that start together and die anywhere:    *)
(* the migrations applied are the first ones and the stamped ones, and     *)
(* nothing serves or works before the last one is committed.               *)
THEOREM MigratedBeforeServingAlways == Spec => []MigratedBeforeServing
<1>1. TypeOK /\ LifecycleInv => MigratedBeforeServing
  <2> SUFFICES ASSUME TypeOK, LifecycleInv PROVE MigratedBeforeServing
    OBVIOUS
  <2>1. ASSUME NEW r \in Replicas, pc[r] \notin Early PROVE schema = Migrations
    <3>1. file[r] = Last + 1 /\ \A k \in 1..(file[r] - 1) : k \in schema
      BY <2>1 DEF LifecycleInv
    <3>2. \A k \in 1..Last : k \in schema
      BY <3>1
    <3>3. schema \subseteq 1..Last
      BY DEF TypeOK
    <3> QED
      BY <3>2, <3>3
  <2> QED
    BY <2>1 DEF LifecycleInv, MigratedBeforeServing, Early
<1> QED
  BY <1>1, LifecycleInvAlways, PTL

(* Run closes the Kafka producer under a running relay only if the wait    *)
(* for the workers ran out.                                                *)
THEOREM ProducerOutlivesRelayAlways == Spec => []ProducerOutlivesRelay
<1>1. LifecycleInv => ProducerOutlivesRelay
  BY DEF LifecycleInv, ProducerOutlivesRelay
<1> QED
  BY <1>1, LifecycleInvAlways, PTL
=============================================================================
