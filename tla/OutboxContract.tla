--------------------------- MODULE OutboxContract ---------------------------
(***************************************************************************)
(* What the transactional outbox promises, whoever writes the rows and     *)
(* whoever relays them.  A row gets its id when it is inserted, becomes    *)
(* visible when its transaction commits, is handed on (emitted) at least   *)
(* once, and is acknowledged (published_at set) only after that.  Until    *)
(* an emission fails, an event is never emitted for the first time before  *)
(* an event of its chat that was already committed, with a smaller id,     *)
(* when it committed itself.                                               *)
(*                                                                         *)
(* MessageWriter implements the inserting half of this contract and        *)
(* OutboxRelay the emitting half.                                          *)
(***************************************************************************)
EXTENDS Integers

CONSTANTS
  Chats,     \* chat ids
  NoChat,    \* the chat of an id that no insert has taken yet
  MaxRows    \* bound on the ids the sequence of outbox_events gives out

VARIABLES
  seq,       \* last value of the sequence outbox_events_id_seq
  tx,        \* state of the transaction that inserted each row
  chat,      \* column chat_id
  prior,     \* history: smaller ids already committed when the row committed
  emitted,   \* rows handed on at least once
  published, \* rows with published_at set
  ordered    \* no emission has failed so far

vars == <<seq, tx, chat, prior, emitted, published, ordered>>

Rows == 1..MaxRows

Init ==
  /\ seq = 0
  /\ tx = [i \in Rows |-> "free"]
  /\ chat = [i \in Rows |-> NoChat]
  /\ prior = [i \in Rows |-> {}]
  /\ emitted = {}
  /\ published = {}
  /\ ordered = TRUE

Insert(c) ==
  /\ seq < MaxRows
  /\ seq' = seq + 1
  /\ tx' = [tx EXCEPT ![seq + 1] = "open"]
  /\ chat' = [chat EXCEPT ![seq + 1] = c]
  /\ UNCHANGED <<prior, emitted, published, ordered>>

Commit(i) ==
  /\ tx[i] = "open"
  /\ tx' = [tx EXCEPT ![i] = "committed"]
  /\ prior' = [prior EXCEPT ![i] = {k \in Rows : k < i /\ tx[k] = "committed"}]
  /\ UNCHANGED <<seq, chat, emitted, published, ordered>>

Abort(i) ==
  /\ tx[i] = "open"
  /\ tx' = [tx EXCEPT ![i] = "aborted"]
  /\ UNCHANGED <<seq, chat, prior, emitted, published, ordered>>

Emit(i) ==
  /\ tx[i] = "committed"
  /\ ordered => \A k \in prior[i] : chat[k] = chat[i] => k \in emitted
  /\ emitted' = emitted \union {i}
  /\ UNCHANGED <<seq, tx, chat, prior, published, ordered>>

(* The row may have been handed on all the same; it is not acknowledged,   *)
(* and what comes after it may overtake it.                                *)
FailToEmit(i) ==
  /\ tx[i] = "committed"
  /\ emitted' \in {emitted, emitted \union {i}}
  /\ ordered' = FALSE
  /\ UNCHANGED <<seq, tx, chat, prior, published>>

MarkPublished(i) ==
  /\ i \in emitted
  /\ published' = published \union {i}
  /\ UNCHANGED <<seq, tx, chat, prior, emitted, ordered>>

Next ==
  \/ \E c \in Chats : Insert(c)
  \/ \E i \in Rows :
       Commit(i) \/ Abort(i) \/ Emit(i) \/ FailToEmit(i) \/ MarkPublished(i)

Spec == Init /\ [][Next]_vars
=============================================================================
