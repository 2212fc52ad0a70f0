---------------------------- MODULE MessageTable ----------------------------
(***************************************************************************)
(* What a reader of the tables messages, chats and chat_members can notice *)
(* of the writers: the abstract specification that MessageWriter           *)
(* implements and MessageQueries builds on.                                *)
(*                                                                         *)
(* Transactions are numbered in the order they start.  One that creates a  *)
(* message makes it visible, and the last message of its chat, when it     *)
(* commits, in any order; the others only use up a number.  A message can  *)
(* be deleted once, and members come and go.                               *)
(***************************************************************************)
EXTENDS Integers

CONSTANTS
  Users,   \* user ids
  Chats,   \* chat ids
  NoChat,  \* the chat of a number that is not a message
  MaxTx    \* bound: transactions started

ASSUME TableAssumption == NoChat \notin Chats /\ MaxTx \in Nat

Msgs == 1..MaxTx

VARIABLES
  clock,   \* transactions started so far
  table,   \* per number: the message, "open" before its commit
  member,  \* table chat_members: the pairs <<chat, user>>
  last     \* column chats.last_message_id, 0 for NULL

tableVars == <<clock, table, member, last>>

NoRow == [state |-> "free", chat |-> NoChat]

Init ==
  /\ clock = 0
  /\ table = [m \in Msgs |-> NoRow]
  /\ member \in SUBSET (Chats \X Users)
  /\ last = [c \in Chats |-> 0]

(* A transaction starts: of a creation in c, or of anything else. *)
Start(c) ==
  /\ clock < MaxTx
  /\ clock' = clock + 1
  /\ table' = IF c = NoChat THEN table
              ELSE [table EXCEPT ![clock + 1] = [state |-> "open", chat |-> c]]
  /\ UNCHANGED <<member, last>>

CommitCreate(m) ==
  /\ table[m].state = "open"
  /\ table' = [table EXCEPT ![m].state = "live"]
  /\ last' = [last EXCEPT ![table[m].chat] = m]
  /\ UNCHANGED <<clock, member>>

RollbackCreate(m) ==
  /\ table[m].state = "open"
  /\ table' = [table EXCEPT ![m] = NoRow]
  /\ UNCHANGED <<clock, member, last>>

SoftDelete(m) ==
  /\ table[m].state = "live"
  /\ table' = [table EXCEPT ![m].state = "deleted"]
  /\ UNCHANGED <<clock, member, last>>

AddMember(c, u) ==
  /\ <<c, u>> \notin member
  /\ member' = member \union {<<c, u>>}
  /\ UNCHANGED <<clock, table, last>>

RemoveMember(c, u) ==
  /\ <<c, u>> \in member
  /\ member' = member \ {<<c, u>>}
  /\ UNCHANGED <<clock, table, last>>

Next ==
  \/ \E c \in Chats \union {NoChat} : Start(c)
  \/ \E m \in Msgs : CommitCreate(m) \/ RollbackCreate(m) \/ SoftDelete(m)
  \/ \E c \in Chats, u \in Users : AddMember(c, u) \/ RemoveMember(c, u)

Spec == Init /\ [][Next]_tableVars
=============================================================================
