---------------------------- MODULE OutboxRelay -----------------------------
(***************************************************************************)
(* The relay that every replica of the backend runs over the one           *)
(* outbox_events table (worker/outbox_relay.go, with the queries of        *)
(* repository/postgres/outbox_repository.go and kafka/producer.go).        *)
(*                                                                         *)
(* Writers' transactions insert rows; they appear here only as the three   *)
(* things a relay can notice of them (the module MessageWriter has the     *)
(* rest).  Every replica polls the table, hands the rows it fetched to     *)
(* Kafka or to its own hub in ascending id order, and marks each one       *)
(* published after the hand-over.  Nothing locks the rows: two replicas    *)
(* may work on the same ones.                                              *)
(***************************************************************************)
EXTENDS Integers, Sequences, FiniteSets

CONSTANTS
  Replicas,          \* backend processes
  Chats,             \* chat ids
  NoChat,            \* the chat of an id that no insert has taken yet
  UseKafka,          \* KAFKA_ENABLED
  HasBrokers,        \* splitBrokers(KAFKA_BROKERS) is not empty
  Limit,             \* rows fetched per tick (100 in the code)
  MaxRows,           \* bound: ids given out
  MaxPublishErrors,  \* bound: Publish / publishLocal calls that fail
  MaxMarkErrors,     \* bound: MarkPublished updates that fail
  MaxCrashes         \* bound: replica crashes

ASSUME ConstantsAssumption ==
  /\ IsFiniteSet(Replicas)
  /\ UseKafka \in BOOLEAN
  /\ HasBrokers \in BOOLEAN
  /\ NoChat \notin Chats
  /\ Limit \in Nat \ {0}
  /\ MaxRows \in Nat
  /\ MaxPublishErrors \in Nat
  /\ MaxMarkErrors \in Nat
  /\ MaxCrashes \in Nat

VARIABLES
  seq,        \* last value of the sequence behind outbox_events.id
  tx,         \* per row: "free", "open" (uncommitted), "committed", "aborted"
  chat,       \* per row: chat_id
  prior,      \* history, per row: smaller ids committed when it committed
  published,  \* rows with published_at set
  emitted,    \* history: every hand-over, in order, of any replica; with
              \* UseKafka this is what the topic holds
  hub,        \* per replica: rows handed to its hub since the process started
  up,         \* running replicas
  pc,         \* per replica: where tick stands
  todo,       \* per replica: rows of the fetched batch still to be handled
  pubErrs,    \* publish failures so far
  markErrs,   \* mark failures so far
  crashes     \* crashes so far

logVars   == <<seq, tx, chat, prior>>
relayVars == <<pc, todo>>
faultVars == <<pubErrs, markErrs, crashes>>
vars == <<logVars, published, emitted, hub, up, relayVars, faultVars>>

Rows == 1..MaxRows

Committed == {i \in Rows : tx[i] = "committed"}

(* The rows handed over at least once. *)
Emitted == {emitted[n] : n \in 1..Len(emitted)}

Init ==
  /\ seq = 0
  /\ tx = [i \in Rows |-> "free"]
  /\ chat = [i \in Rows |-> NoChat]
  /\ prior = [i \in Rows |-> {}]
  /\ published = {}
  /\ emitted = <<>>
  /\ hub = [r \in Replicas |-> {}]
  /\ up = Replicas
  /\ pc = [r \in Replicas |-> "idle"]
  /\ todo = [r \in Replicas |-> {}]
  /\ pubErrs = 0 /\ markErrs = 0 /\ crashes = 0

-----------------------------------------------------------------------------
(***************************************************************************)
(* The writers.  insertOutboxTx takes the next id inside a transaction     *)
(* that commits or rolls back later: ids become visible out of order, and  *)
(* a rolled-back id is never used again.                                   *)
(***************************************************************************)
InsertOutbox(c) ==
  /\ seq < MaxRows
  /\ seq' = seq + 1
  /\ tx' = [tx EXCEPT ![seq + 1] = "open"]
  /\ chat' = [chat EXCEPT ![seq + 1] = c]
  /\ UNCHANGED <<prior, published, emitted, hub, up, relayVars, faultVars>>

CommitOutbox(i) ==
  /\ tx[i] = "open"
  /\ tx' = [tx EXCEPT ![i] = "committed"]
  /\ prior' = [prior EXCEPT ![i] = {k \in Committed : k < i}]
  /\ UNCHANGED <<seq, chat, published, emitted, hub, up, relayVars, faultVars>>

RollbackOutbox(i) ==
  /\ tx[i] = "open"
  /\ tx' = [tx EXCEPT ![i] = "aborted"]
  /\ UNCHANGED <<seq, chat, prior, published, emitted, hub, up, relayVars,
                 faultVars>>

-----------------------------------------------------------------------------
(***************************************************************************)
(* One tick of replica r.                                                  *)
(***************************************************************************)

(* Variants of FetchPending that the checks reject: one that forgets the   *)
(* filter on published_at, and one that keeps a cursor on the largest id   *)
(* acknowledged so far instead of that filter.                             *)
FetchPendingUnfiltered ==
  {i \in Committed : Cardinality({k \in Committed : k <= i}) <= Limit}

FetchPendingByCursor ==
  LET pending == {i \in Committed : \A k \in published : k < i}
  IN  {i \in pending : Cardinality({k \in pending : k <= i}) <= Limit}

(* WHERE published_at IS NULL ORDER BY id LIMIT Limit, on what is committed. *)
FetchPending ==
  LET pending == Committed \ published
  IN  {i \in pending : Cardinality({k \in pending : k <= i}) <= Limit}

(* A variant: ORDER BY id DESC. *)
CurrentDescending(r) == CHOOSE i \in todo[r] : \A k \in todo[r] : k <= i

(* The row of the batch the loop has reached: batches are in id order. *)
Current(r) == CHOOSE i \in todo[r] : \A k \in todo[r] : i <= k

(* A variant: the loop forgets where the batch ends. *)
NextRowPastEnd(r) ==
  /\ todo' = [todo EXCEPT ![r] = @ \ {Current(r)}]
  /\ pc' = [pc EXCEPT ![r] = "publish"]

(* The loop goes on with the rest of the batch, or the tick ends. *)
NextRow(r) ==
  /\ todo' = [todo EXCEPT ![r] = @ \ {Current(r)}]
  /\ pc' = [pc EXCEPT ![r] = IF todo[r] = {Current(r)} THEN "idle" ELSE "publish"]

(* A tick that fetches nothing, or whose query fails, changes nothing. *)
Tick(r) ==
  /\ r \in up
  /\ pc[r] = "idle"
  /\ FetchPending # {}
  /\ todo' = [todo EXCEPT ![r] = FetchPending]
  /\ pc' = [pc EXCEPT ![r] = "publish"]
  /\ UNCHANGED <<logVars, published, emitted, hub, up, faultVars>>

(* Producer.Publish on a nil *Producer returns nil and sends nothing. *)
AfterPublish(i) == IF HasBrokers THEN Append(emitted, i) ELSE emitted

PublishKafka(r) ==
  /\ UseKafka
  /\ r \in up
  /\ pc[r] = "publish"
  /\ emitted' = AfterPublish(Current(r))
  /\ pc' = [pc EXCEPT ![r] = "mark"]
  /\ UNCHANGED <<logVars, published, hub, up, todo, faultVars>>

(* publishLocal: the envelope goes to the hub of this replica only. *)
PublishLocal(r) ==
  /\ ~UseKafka
  /\ r \in up
  /\ pc[r] = "publish"
  /\ emitted' = Append(emitted, Current(r))
  /\ hub' = [hub EXCEPT ![r] = @ \union {Current(r)}]
  /\ pc' = [pc EXCEPT ![r] = "mark"]
  /\ UNCHANGED <<logVars, published, up, todo, faultVars>>

(* A variant without the "continue" of the error branch. *)
PublishFailsFallsThrough(r, stored) ==
  /\ pubErrs < MaxPublishErrors
  /\ r \in up
  /\ pc[r] = "publish"
  /\ UseKafka => HasBrokers
  /\ stored => UseKafka
  /\ emitted' = IF stored THEN Append(emitted, Current(r)) ELSE emitted
  /\ pc' = [pc EXCEPT ![r] = "mark"]
  /\ pubErrs' = pubErrs + 1
  /\ UNCHANGED <<logVars, published, hub, up, todo, markErrs, crashes>>

(* An error (or the 5s timeout) leaves the row for a later tick and goes on *)
(* with the next one.  The broker may have stored the event all the same.   *)
PublishFails(r, stored) ==
  /\ pubErrs < MaxPublishErrors
  /\ r \in up
  /\ pc[r] = "publish"
  /\ UseKafka => HasBrokers
  /\ stored => UseKafka
  /\ emitted' = IF stored THEN Append(emitted, Current(r)) ELSE emitted
  /\ NextRow(r)
  /\ pubErrs' = pubErrs + 1
  /\ UNCHANGED <<logVars, published, hub, up, markErrs, crashes>>

(* UPDATE ... WHERE published_at IS NULL: for a row another replica marked *)
(* first it matches nothing, which tick only logs.                         *)
MarkPublished(r) ==
  /\ r \in up
  /\ pc[r] = "mark"
  /\ published' = published \union {Current(r)}
  /\ NextRow(r)
  /\ UNCHANGED <<logVars, emitted, hub, up, faultVars>>

MarkPublishedFails(r) ==
  /\ markErrs < MaxMarkErrors
  /\ r \in up
  /\ pc[r] = "mark"
  /\ NextRow(r)
  /\ markErrs' = markErrs + 1
  /\ UNCHANGED <<logVars, published, emitted, hub, up, pubErrs, crashes>>

(* A replica stops at any point: by a crash, or by App.Run cancelling the  *)
(* context of its workers.  Its batch, its hub and its clients are gone.   *)
Crash(r) ==
  /\ crashes < MaxCrashes
  /\ r \in up
  /\ up' = up \ {r}
  /\ pc' = [pc EXCEPT ![r] = "idle"]
  /\ todo' = [todo EXCEPT ![r] = {}]
  /\ hub' = [hub EXCEPT ![r] = {}]
  /\ crashes' = crashes + 1
  /\ UNCHANGED <<logVars, published, emitted, pubErrs, markErrs>>

Restart(r) ==
  /\ r \notin up
  /\ up' = up \union {r}
  /\ UNCHANGED <<logVars, published, emitted, hub, relayVars, faultVars>>

-----------------------------------------------------------------------------
WriterStep ==
  \/ \E c \in Chats : InsertOutbox(c)
  \/ \E i \in Rows : CommitOutbox(i) \/ RollbackOutbox(i)

RelayStep(r) ==
  \/ Tick(r)
  \/ PublishKafka(r)
  \/ PublishLocal(r)
  \/ \E stored \in BOOLEAN : PublishFails(r, stored)
  \/ MarkPublished(r)
  \/ MarkPublishedFails(r)

Next ==
  \/ WriterStep
  \/ \E r \in Replicas : RelayStep(r) \/ Crash(r) \/ Restart(r)

Spec == Init /\ [][Next]_vars

(***************************************************************************)
(* Run's ticker keeps calling tick for as long as the process lives, and   *)
(* every call inside tick returns (Publish has its own 5s timeout): a      *)
(* running relay keeps taking steps.  A stopped replica is started again   *)
(* by whoever operates it.  Writers need not do anything.                  *)
(***************************************************************************)
Fairness == \A r \in Replicas : WF_vars(RelayStep(r)) /\ WF_vars(Restart(r))

FairSpec == Spec /\ Fairness

-----------------------------------------------------------------------------
(***************************************************************************)
(* Properties                                                              *)
(***************************************************************************)

(* The shape of the state: rows beyond the sequence are untouched, the     *)
(* others have a chat as their key, a busy relay has a current row, a      *)
(* stopped one has none (tick's loop).                                     *)
TypeOK ==
  /\ seq \in 0..MaxRows
  /\ tx \in [Rows -> {"free", "open", "committed", "aborted"}]
  /\ chat \in [Rows -> Chats \union {NoChat}]
  /\ prior \in [Rows -> SUBSET Rows]
  /\ published \in SUBSET Rows
  /\ emitted \in Seq(Rows)
  /\ hub \in [Replicas -> SUBSET Rows]
  /\ up \in SUBSET Replicas
  /\ pc \in [Replicas -> {"idle", "publish", "mark"}]
  /\ todo \in [Replicas -> SUBSET Rows]
  /\ pubErrs \in 0..MaxPublishErrors
  /\ markErrs \in 0..MaxMarkErrors
  /\ crashes \in 0..MaxCrashes
  /\ \A r \in Replicas : pc[r] = "idle" <=> todo[r] = {}
  /\ \A i \in Rows : /\ tx[i] = "free" <=> seq < i
                     /\ tx[i] = "free" \/ chat[i] \in Chats

(* Only committed rows are handed over, and a row is acknowledged only     *)
(* after a hand-over that did not fail, whichever replica does either      *)
(* (tick publishes before it marks; README: "only then marks them").       *)
AckedWasEmitted ==
  /\ Emitted \subseteq Committed
  /\ published \subseteq Emitted

(* Until a publish fails, an event reaches the topic for the first time    *)
(* only after every event of its chat that was committed with a smaller id *)
(* when it committed: whatever the number of replicas, their crashes and   *)
(* failed marks, and however the transactions of the writers overlap.      *)
NoOvertaking ==
  pubErrs = 0 =>
    \A n \in 1..Len(emitted) : \A i \in prior[emitted[n]] :
      chat[i] = chat[emitted[n]] => \E m \in 1..(n - 1) : emitted[m] = i

(* The in-chat ordering of the topic: once an event is in, no event that   *)
(* precedes it in its chat is put in (again) behind it.                    *)
InChatOrder ==
  \A n \in 1..Len(emitted) : \A m \in 1..(n - 1) :
    chat[emitted[m]] = chat[emitted[n]] => emitted[n] \notin prior[emitted[m]]

(* With a single replica and no failed publish or mark, a crash between    *)
(* publish and mark repeats the last event but never replays an older one. *)
SingleRelayOrder ==
  (pubErrs = 0 /\ markErrs = 0 /\ Cardinality(Replicas) = 1) => InChatOrder

(* Every committed row is eventually acknowledged, also one that became    *)
(* visible after rows with larger ids were already acknowledged, one whose *)
(* publish or mark failed, and one whose relay crashed.                    *)
EventuallyPublished ==
  \A i \in Rows : tx[i] = "committed" ~> i \in published

(***************************************************************************)
(* The inductive invariants behind AckedWasEmitted, NoOvertaking and       *)
(* SingleRelayOrder (see OutboxRelayProofs).                               *)
(***************************************************************************)
VisibleInv ==
  /\ \A i \in Rows : \A k \in prior[i] :
       k < i /\ tx[i] = "committed" /\ tx[k] = "committed"
  /\ \A r \in Replicas : todo[r] \subseteq Committed
  /\ \A n \in 1..Len(emitted) : tx[emitted[n]] = "committed"

AckInv ==
  /\ published \subseteq Emitted
  /\ \A r \in Replicas : pc[r] = "mark" =>
       \E i \in todo[r] : i \in Emitted /\ \A k \in todo[r] : i <= k

OrderInv ==
  pubErrs = 0 =>
    /\ \A r \in Replicas : \A j \in todo[r] : \A i \in prior[j] :
         i \in Emitted \/ i \in todo[r]
    /\ \A n \in 1..Len(emitted) : \A i \in prior[emitted[n]] :
         \E m \in 1..(n - 1) : emitted[m] = i

SingleInv ==
  (pubErrs = 0 /\ markErrs = 0) =>
    /\ \A r \in Replicas : \A j \in todo[r] : \A i \in prior[j] :
         i \in published \/ i \in todo[r]
    /\ \A n \in 1..Len(emitted) : prior[emitted[n]] \subseteq published
    /\ (\A r, q \in Replicas : r = q) =>
         /\ \A r \in Replicas : todo[r] \intersect published = {}
         /\ \A n \in 1..Len(emitted) : \A m \in 1..(n - 1) :
              emitted[n] \notin prior[emitted[m]]

(* The relays, taken together, implement the outbox contract: they never   *)
(* hand over what is not committed, acknowledge only what they handed      *)
(* over, and keep the order until a publish fails.                         *)
Contract == INSTANCE OutboxContract WITH
  emitted <- Emitted, ordered <- pubErrs = 0

ImplementsContract == Contract!Spec
=============================================================================
