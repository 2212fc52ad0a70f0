---------------------------- MODULE AppLifecycle ----------------------------
(***************************************************************************)
(* The life of the replicas' processes: main (cmd/app/main.go) runs the    *)
(* migrations (migration/runner.go) against the one database, builds the   *)
(* container, starts the workers (app.go, New) and serves until a signal   *)
(* (app.go, Run) ends it in a fixed order with two time limits, and main's *)
(* deferred calls, one of them without a limit, come last.                 *)
(*                                                                         *)
(* Every error before the server runs ends the process (os.Exit), and its  *)
(* supervisor starts it again.  Replicas start together: nothing but the   *)
(* database keeps two of them from applying one migration.                 *)
(***************************************************************************)
EXTENDS Integers

CONSTANTS
  Replicas,    \* backend processes
  Last,        \* the number of migrations: files 1..Last in lexical order
  Idempotent,  \* the ones with IF NOT EXISTS throughout
  UseKafka,    \* KAFKA_ENABLED
  Hijackable,  \* the handshake of WebSocket connections works (see WSConnections)
  MaxFaults    \* bound: crashes, kills and failed calls

ASSUME LifecycleAssumption ==
  /\ Last \in Nat
  /\ Idempotent \subseteq 1..Last
  /\ UseKafka \in BOOLEAN /\ Hijackable \in BOOLEAN
  /\ MaxFaults \in Nat

VARIABLES
  schema,    \* migrations whose tables exist
  stamped,   \* table schema_migrations
  pc,        \* per replica: where its process stands
  file,      \* per replica: the migration its loop has reached
  running,   \* per replica: its workers
  timedOut,  \* per replica: the wait for the workers was given up
  busy,      \* per replica: who holds a connection that pool.Close waits for
  faults     \* faults so far

dbVars == <<schema, stamped>>
procVars == <<pc, file, running, timedOut, busy>>
vars == <<dbVars, procVars, faults>>

Migrations == 1..Last
Workers == {"relay", "redis"} \union (IF UseKafka THEN {"consumer"} ELSE {})

(* Who uses the pool besides the requests that server.Shutdown waits for:  *)
(* the handlers of WebSocket connections are hijacked, it does not know    *)
(* them.                                                                   *)
Handlers == IF Hijackable THEN {"ws"} ELSE {}

Init ==
  /\ schema = {} /\ stamped = {}
  /\ pc = [r \in Replicas |-> "down"]
  /\ file = [r \in Replicas |-> 1]
  /\ running = [r \in Replicas |-> {}]
  /\ timedOut = [r \in Replicas |-> FALSE]
  /\ busy = [r \in Replicas |-> {}]
  /\ faults = 0

GoTo(r, next) == pc' = [pc EXCEPT ![r] = next]

(* The process ends, its workers with it; an open transaction is rolled    *)
(* back by the database.                                                   *)
Exit(r) ==
  /\ GoTo(r, "down")
  /\ file' = [file EXCEPT ![r] = 1]
  /\ running' = [running EXCEPT ![r] = {}]
  /\ timedOut' = [timedOut EXCEPT ![r] = FALSE]
  /\ busy' = [busy EXCEPT ![r] = {}]

(* The replicas with an uncommitted transaction that has executed m. *)
Applying(m) == {r \in Replicas : pc[r] \in {"stamp", "commit"} /\ file[r] = m}

-----------------------------------------------------------------------------
(***************************************************************************)
(* Up                                                                      *)
(***************************************************************************)

(* Variant: New before Up. *)
StartWithWorkers(r) ==
  /\ pc[r] = "down"
  /\ GoTo(r, "check")
  /\ running' = [running EXCEPT ![r] = Workers]
  /\ UNCHANGED <<dbVars, file, timedOut, busy, faults>>

(* main, up to the loop of Up: schema_migrations exists afterwards. *)
Start(r) ==
  /\ pc[r] = "down"
  /\ GoTo(r, "check")
  /\ UNCHANGED <<dbVars, file, running, timedOut, busy, faults>>

NextFile(r) == file' = [file EXCEPT ![r] = @ + 1]

(* Variant: a migration that another replica is applying counts as done. *)
CheckSkipsBusy(r) ==
  /\ pc[r] = "check"
  /\ IF file[r] > Last THEN GoTo(r, "migrated") /\ UNCHANGED file
     ELSE IF file[r] \in stamped \/ Applying(file[r]) # {} THEN NextFile(r) /\ UNCHANGED pc
     ELSE GoTo(r, "exec") /\ UNCHANGED file
  /\ UNCHANGED <<dbVars, running, timedOut, busy, faults>>

(* SELECT 1 FROM schema_migrations, outside of any transaction. *)
Check(r) ==
  /\ pc[r] = "check"
  /\ IF file[r] > Last THEN GoTo(r, "migrated") /\ UNCHANGED file
     ELSE IF file[r] \in stamped THEN NextFile(r) /\ UNCHANGED pc
     ELSE GoTo(r, "exec") /\ UNCHANGED file
  /\ UNCHANGED <<dbVars, running, timedOut, busy, faults>>

(* Variant: the body runs on the pool, not in the transaction. *)
ExecOnPool(r) ==
  /\ pc[r] = "exec"
  /\ file[r] \in schema => file[r] \in Idempotent
  /\ schema' = schema \union {file[r]}
  /\ GoTo(r, "stamp")
  /\ UNCHANGED <<stamped, file, running, timedOut, busy, faults>>

(* Variant: a body that does not wait for the one of another transaction. *)
ExecAtOnce(r) ==
  /\ pc[r] = "exec"
  /\ file[r] \in schema => file[r] \in Idempotent
  /\ GoTo(r, "stamp")
  /\ UNCHANGED <<dbVars, file, running, timedOut, busy, faults>>

(* Begin and the body.  A CREATE TABLE waits for the end of a transaction  *)
(* that has created a table of that name.                                  *)
Exec(r) ==
  /\ pc[r] = "exec"
  /\ Applying(file[r]) = {}
  /\ file[r] \in schema => file[r] \in Idempotent
  /\ GoTo(r, "stamp")
  /\ UNCHANGED <<dbVars, file, running, timedOut, busy, faults>>

(* The table exists.  With IF NOT EXISTS the statement fails all the same  *)
(* if it had to wait for the one that created it.                          *)
ExecFails(r) ==
  /\ pc[r] = "exec"
  /\ Applying(file[r]) = {}
  /\ file[r] \in schema
  /\ Exit(r)
  /\ UNCHANGED <<dbVars, faults>>

(* INSERT INTO schema_migrations: its primary key refuses a second stamp. *)
Stamp(r) ==
  /\ pc[r] = "stamp"
  /\ IF file[r] \in stamped
     THEN Exit(r)
     ELSE GoTo(r, "commit") /\ UNCHANGED <<file, running, timedOut, busy>>
  /\ UNCHANGED <<dbVars, faults>>

Commit(r) ==
  /\ pc[r] = "commit"
  /\ schema' = schema \union {file[r]}
  /\ stamped' = stamped \union {file[r]}
  /\ NextFile(r)
  /\ GoTo(r, "check")
  /\ UNCHANGED <<running, timedOut, busy, faults>>

-----------------------------------------------------------------------------
(* NewContainer, New and the start of ListenAndServe. *)
New(r) ==
  /\ pc[r] = "migrated"
  /\ running' = [running EXCEPT ![r] = Workers]
  /\ GoTo(r, "serving")
  /\ UNCHANGED <<dbVars, file, timedOut, busy, faults>>

(* SubscribeChatEvents returns when one delivery fails; nobody starts it   *)
(* again.  The relay and the consumer only log their errors.               *)
SubscriberEnds(r) ==
  /\ pc[r] = "serving"
  /\ "redis" \in running[r]
  /\ running' = [running EXCEPT ![r] = @ \ {"redis"}]
  /\ UNCHANGED <<dbVars, pc, file, timedOut, busy, faults>>

(***************************************************************************)
(* Run, from the signal on.                                                *)
(***************************************************************************)
BgCancel(r) ==
  /\ pc[r] = "serving"
  /\ GoTo(r, "draining")
  /\ UNCHANGED <<dbVars, file, running, timedOut, busy, faults>>

(* A worker notices that its context is cancelled, in time or not. *)
WorkerEnds(r, w) ==
  /\ pc[r] \in {"draining", "drained", "closing", "stopping", "exiting"}
  /\ w \in running[r]
  /\ running' = [running EXCEPT ![r] = @ \ {w}]
  /\ busy' = [busy EXCEPT ![r] = @ \ {w}]
  /\ UNCHANGED <<dbVars, pc, file, timedOut, faults>>

(* Variant: no bgWG.Add for the relay. *)
WaitEndsWithoutRelay(r) ==
  /\ pc[r] = "draining"
  /\ running[r] \subseteq {"relay"}
  /\ GoTo(r, "drained")
  /\ UNCHANGED <<dbVars, file, running, timedOut, busy, faults>>

WaitEnds(r) ==
  /\ pc[r] = "draining"
  /\ running[r] = {}
  /\ GoTo(r, "drained")
  /\ UNCHANGED <<dbVars, file, running, timedOut, busy, faults>>

(* Variant: <-done alone. *)
WaitForever(r) == FALSE

(* time.After(12 * time.Second) *)
WaitTimesOut(r) ==
  /\ pc[r] = "draining"
  /\ running[r] # {}
  /\ timedOut' = [timedOut EXCEPT ![r] = TRUE]
  /\ GoTo(r, "drained")
  /\ UNCHANGED <<dbVars, file, running, busy, faults>>

CloseProducer(r) ==
  /\ pc[r] = "drained"
  /\ GoTo(r, "closing")
  /\ UNCHANGED <<dbVars, file, running, timedOut, busy, faults>>

(* hub.CloseAll, with the listener still open (see WSConnections). *)
CloseAll(r) ==
  /\ pc[r] = "closing"
  /\ GoTo(r, "stopping")
  /\ UNCHANGED <<dbVars, file, running, timedOut, busy, faults>>

(* server.Shutdown returns in time, and Run without an error.  The         *)
(* deferred calls close Redis and then the pool: from here on nobody gets  *)
(* a connection of the pool, but a worker the wait was given up for, or a  *)
(* WebSocket handler in a call of the database, may have one.              *)
ServerStops(r) ==
  /\ pc[r] = "stopping"
  /\ GoTo(r, "exiting")
  /\ \E B \in SUBSET (running[r] \union Handlers) : busy' = [busy EXCEPT ![r] = B]
  /\ UNCHANGED <<dbVars, file, running, timedOut, faults>>

(* Requests still run after 15 seconds: main ends with os.Exit, which      *)
(* skips the deferred calls.                                               *)
ShutdownTimesOut(r) ==
  /\ pc[r] = "stopping"
  /\ Exit(r)
  /\ UNCHANGED <<dbVars, faults>>

(* A call of the database returns. *)
Release(r, x) ==
  /\ x \in busy[r]
  /\ busy' = [busy EXCEPT ![r] = @ \ {x}]
  /\ UNCHANGED <<dbVars, pc, file, running, timedOut, faults>>

(* pool.Close has no time limit: it returns with the last connection given *)
(* back; main ends.                                                        *)
PoolClosed(r) ==
  /\ pc[r] = "exiting"
  /\ busy[r] = {}
  /\ Exit(r)
  /\ UNCHANGED <<dbVars, faults>>

(* A call of the database or of Redis fails during the start, the port is  *)
(* taken, the process is killed, or a signal comes before main listens to  *)
(* it: the process ends where it stands.                                   *)
Fault(r) ==
  /\ faults < MaxFaults
  /\ pc[r] # "down"
  /\ Exit(r)
  /\ faults' = faults + 1
  /\ UNCHANGED dbVars

-----------------------------------------------------------------------------
StartStep(r) ==
  \/ Start(r) \/ Check(r) \/ Exec(r) \/ ExecFails(r) \/ Stamp(r) \/ Commit(r) \/ New(r)

StopStep(r) ==
  \/ WaitEnds(r) \/ WaitTimesOut(r) \/ CloseProducer(r) \/ CloseAll(r)
  \/ ServerStops(r) \/ ShutdownTimesOut(r) \/ PoolClosed(r)

Next ==
  \E r \in Replicas :
    \/ StartStep(r) \/ StopStep(r) \/ BgCancel(r)
    \/ \E w \in Workers : WorkerEnds(r, w)
    \/ \E x \in Workers \union Handlers : Release(r, x)
    \/ SubscriberEnds(r) \/ Fault(r)

Spec == Init /\ [][Next]_vars

(***************************************************************************)
(* A running main goes on, a stopped process is started again (compose:    *)
(* restart: unless-stopped), and the calls of Run return: the waits have   *)
(* their timers, Writer.Close and CloseAll their deadlines.  Workers and   *)
(* calls of the database may hang, and nobody has to send a signal.        *)
(***************************************************************************)
FairSpec == Spec /\ \A r \in Replicas : WF_vars(StartStep(r)) /\ WF_vars(StopStep(r))

-----------------------------------------------------------------------------
(***************************************************************************)
(* Properties                                                              *)
(***************************************************************************)

(* The shape of the state; at most one transaction has executed a          *)
(* migration, and only a wait that was given up is marked as such.         *)
TypeOK ==
  /\ schema \subseteq Migrations /\ stamped \subseteq Migrations
  /\ pc \in [Replicas -> {"down", "check", "exec", "stamp", "commit", "migrated", "serving",
                          "draining", "drained", "closing", "stopping", "exiting"}]
  /\ file \in [Replicas -> 1..(Last + 1)]
  /\ running \in [Replicas -> SUBSET Workers]
  /\ timedOut \in [Replicas -> BOOLEAN]
  /\ busy \in [Replicas -> SUBSET (Workers \union Handlers)]
  /\ faults \in 0..MaxFaults
  /\ \A r \in Replicas :
       /\ pc[r] \in {"exec", "stamp", "commit"} => file[r] \in Migrations
       /\ busy[r] # {} => pc[r] = "exiting"
       /\ busy[r] \subseteq running[r] \union Handlers
  /\ \A r, q \in Replicas : r \in Applying(file[r]) /\ q \in Applying(file[r]) => r = q

(* Up: "in lexical order once each".  Whichever replicas start together    *)
(* and wherever they die, the migrations applied are the first ones, they  *)
(* are the ones schema_migrations lists, and no server, worker or relay    *)
(* runs before the last one is committed.                                  *)
MigratedBeforeServing ==
  /\ schema = stamped
  /\ \A m \in schema : \A k \in 1..m : k \in schema
  /\ \A r \in Replicas :
       pc[r] \notin {"down", "check", "exec", "stamp", "commit"} \/ running[r] # {}
         => schema = Migrations

(***************************************************************************)
(* The inductive invariant behind MigratedBeforeServing and                *)
(* ProducerOutlivesRelay (see AppLifecycleProofs): the loop of Up has left *)
(* only stamped migrations behind, nobody is past it before its end, and   *)
(* what runs after the wait for the workers does so because it ran out.    *)
(***************************************************************************)
Early == {"down", "check", "exec", "stamp", "commit"}

LifecycleInv ==
  /\ schema = stamped
  /\ \A m \in stamped : \A k \in 1..m : k \in stamped
  /\ \A r \in Replicas :
       /\ \A k \in 1..(file[r] - 1) : k \in stamped
       /\ pc[r] \notin Early => file[r] = Last + 1
       /\ running[r] # {} => pc[r] \notin Early
       /\ pc[r] \in {"drained", "closing", "stopping", "exiting"} /\ running[r] # {} => timedOut[r]

(* A replica that is down comes to serve, also when it loses the race for  *)
(* a migration and exits, or dies in the middle of one: no sequence of     *)
(* faults leaves the database in a state that every start refuses.         *)
EventuallyServes == \A r \in Replicas : pc[r] = "down" ~> pc[r] = "serving"

(* The Kafka producer is closed under a relay that may still publish only  *)
(* if the wait of 12 seconds ran out.                                      *)
ProducerOutlivesRelay ==
  \A r \in Replicas :
    pc[r] \in {"closing", "stopping", "exiting"} /\ "relay" \in running[r] => timedOut[r]

(* A signal ends the process, although workers may hang and connections    *)
(* stay open, unless somebody keeps a connection of the pool for ever:     *)
(* every other wait of the shutdown has a time limit, pool.Close has none. *)
ShutdownEnds ==
  \A r \in Replicas :
    pc[r] = "draining" ~> (pc[r] = "down" \/ [](pc[r] = "exiting" /\ busy[r] # {}))
=============================================================================
