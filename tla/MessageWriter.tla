--------------------------- MODULE MessageWriter ----------------------------
(***************************************************************************)
(* The write side of messages: the handlers Create, Patch, Delete and      *)
(* MarkRead of service/message_service.go and the transactions of          *)
(* repository/postgres/message_writer.go that they run.                    *)
(*                                                                         *)
(* A handler reads (membership, message) in statements of their own, then  *)
(* runs one transaction: it changes a row, inserts the event into          *)
(* outbox_events and commits.  Under READ COMMITTED an UPDATE waits for    *)
(* the row lock and tests its WHERE clause on the last committed row.      *)
(* Requests run concurrently, on any replica; a transaction may fail at    *)
(* any point.  Memberships come and go (chat_repository.go).               *)
(*                                                                         *)
(* now() is the start of the transaction.  Transactions are numbered in    *)
(* the order they start, and a message is named by the transaction that    *)
(* inserts it: its number is also its created_at.                          *)
(***************************************************************************)
EXTENDS Integers, FiniteSets, FiniteSetsExt

CONSTANTS
  Requests,  \* concurrent HTTP requests
  Users,     \* user ids
  Chats,     \* chat ids
  NoChat,    \* the chat of an id that no insert has taken yet
  Texts,     \* message texts that pass validation
  None,      \* no user, no text
  MaxTx      \* bound: transactions started

ASSUME ConstantsAssumption ==
  /\ NoChat \notin Chats
  /\ None \notin Users \union Texts
  /\ MaxTx \in Nat

Msgs == 1..MaxTx
Rows == 1..MaxTx

VARIABLES
  clock,   \* transactions started so far
  msg,     \* table messages
  member,  \* table chat_members: the pairs <<chat, user>>
  cursor,  \* column last_read_message_id, 0 for NULL
  last,    \* column chats.last_message_id, 0 for NULL
  seq,     \* last value of the sequence behind outbox_events.id
  tx,      \* per outbox row: "free", "open", "committed", "aborted"
  chat,    \* per outbox row: chat_id
  event,   \* per outbox row: event_type, the message, the user and the text
  prior,   \* history, per outbox row: smaller ids committed when it committed
  req      \* per request: what it is doing

tableVars == <<msg, member, cursor, last>>
logVars == <<seq, tx, chat, event, prior>>
vars == <<clock, tableVars, logVars, req>>

NoMessage == [state |-> "free", chat |-> NoChat, sender |-> None, text |-> None]
NoEvent == [type |-> "none", msg |-> 0, user |-> None, text |-> None]
Idle == [pc |-> "idle", op |-> "none", user |-> None, chat |-> NoChat,
         msg |-> 0, text |-> None, reply |-> 0, row |-> 0]

Init ==
  /\ clock = 0
  /\ msg = [m \in Msgs |-> NoMessage]
  /\ member \in SUBSET (Chats \X Users)
  /\ cursor = [k \in Chats \X Users |-> 0]
  /\ last = [c \in Chats |-> 0]
  /\ seq = 0
  /\ tx = [i \in Rows |-> "free"]
  /\ chat = [i \in Rows |-> NoChat]
  /\ event = [i \in Rows |-> NoEvent]
  /\ prior = [i \in Rows |-> {}]
  /\ req = [q \in Requests |-> Idle]

Committed == {i \in Rows : tx[i] = "committed"}

Goto(q, p) == req' = [req EXCEPT ![q].pc = p]
Finish(q) == req' = [req EXCEPT ![q] = Idle]

-----------------------------------------------------------------------------
(***************************************************************************)
(* The checks before the transaction.  A handler that a check turns down   *)
(* returns an error and changes nothing: on its first check it does not    *)
(* even start here.                                                        *)
(***************************************************************************)

(* Create, up to requireChatMember. *)
Create(q, u, c, t, m) ==
  /\ req[q].pc = "idle"
  /\ <<c, u>> \in member
  /\ req' = [req EXCEPT ![q] = [Idle EXCEPT
       !.pc = IF m = 0 THEN "begin" ELSE "reply",
       !.op = "create", !.user = u, !.chat = c, !.text = t, !.reply = m]]
  /\ UNCHANGED <<clock, tableVars, logVars>>

(* The message replied to: it exists, in this chat, and is not deleted. *)
CheckReply(q) ==
  /\ req[q].pc = "reply"
  /\ LET m == msg[req[q].reply]
     IN  IF m.state = "live" /\ m.chat = req[q].chat
         THEN Goto(q, "begin") ELSE Finish(q)
  /\ UNCHANGED <<clock, tableVars, logVars>>

(* Patch, Delete and MarkRead, up to the checks on the message they load. *)
LoadMessage(q, op, u, m, t) ==
  /\ req[q].pc = "idle"
  /\ msg[m].state = "live"
  /\ op \in {"patch", "delete"} => msg[m].sender = u
  /\ op = "patch" <=> t # None
  /\ req' = [req EXCEPT ![q] = [Idle EXCEPT
       !.pc = "member", !.op = op, !.user = u, !.chat = msg[m].chat,
       !.msg = m, !.text = t]]
  /\ UNCHANGED <<clock, tableVars, logVars>>

RequireChatMember(q) ==
  /\ req[q].pc = "member"
  /\ IF <<req[q].chat, req[q].user>> \in member
     THEN Goto(q, "begin") ELSE Finish(q)
  /\ UNCHANGED <<clock, tableVars, logVars>>

-----------------------------------------------------------------------------
(***************************************************************************)
(* The transaction.                                                        *)
(***************************************************************************)

(* The row whose lock the UPDATE of the transaction takes and holds. *)
Resource(q) ==
  CASE req[q].op = "create" -> <<"chat", req[q].chat>>
    [] req[q].op = "read"   -> <<"member", req[q].chat, req[q].user>>
    [] OTHER                -> <<"message", req[q].msg>>

Locked == {Resource(q) : q \in {p \in Requests : req[p].pc \in {"outbox", "commit"}}}

(* Begin, and for Create the INSERT of the message, which nobody sees yet. *)
Begin(q) ==
  /\ clock < MaxTx
  /\ req[q].pc = "begin"
  /\ clock' = clock + 1
  /\ req' = [req EXCEPT ![q].pc = "update",
                        ![q].msg = IF req[q].op = "create" THEN clock + 1 ELSE @]
  /\ UNCHANGED <<tableVars, logVars>>

(* Variant: the UPDATE of messages without "deleted_at IS NULL". *)
RowMatchesDeletedToo(q) ==
  req[q].op = "read" => <<req[q].chat, req[q].user>> \in member

(* The WHERE clause of the UPDATE. *)
RowMatches(q) ==
  /\ req[q].op \in {"patch", "delete"} => msg[req[q].msg].state = "live"
  /\ req[q].op = "read" => <<req[q].chat, req[q].user>> \in member

(* Variant: the WHERE clause is tested without waiting for the lock. *)
UpdateRowWithoutLock(q) ==
  /\ req[q].pc = "update"
  /\ IF RowMatches(q) THEN Goto(q, "outbox") ELSE Finish(q)
  /\ UNCHANGED <<clock, tableVars, logVars>>

(* Variant: UPDATE chats goes to the pool, not to the transaction. *)
UpdateRowAutocommit(q) ==
  /\ req[q].pc = "update"
  /\ Resource(q) \notin Locked
  /\ IF RowMatches(q) THEN Goto(q, "outbox") ELSE Finish(q)
  /\ last' = IF req[q].op = "create"
             THEN [last EXCEPT ![req[q].chat] = req[q].msg] ELSE last
  /\ UNCHANGED <<clock, msg, member, cursor, logVars>>

(* UPDATE chats / messages / chat_members: no row means ErrNotFound, and   *)
(* the deferred Rollback.                                                  *)
UpdateRow(q) ==
  /\ req[q].pc = "update"
  /\ Resource(q) \notin Locked
  /\ IF RowMatches(q) THEN Goto(q, "outbox") ELSE Finish(q)
  /\ UNCHANGED <<clock, tableVars, logVars>>

EventType(op) ==
  CASE op = "create" -> "created"
    [] op = "patch"  -> "updated"
    [] op = "delete" -> "deleted"
    [] op = "read"   -> "read_receipt"

(* Variant: the INSERT goes to the pool, not to the transaction. *)
InsertOutboxAutocommit(q) ==
  /\ req[q].pc = "outbox"
  /\ seq' = seq + 1
  /\ tx' = [tx EXCEPT ![seq + 1] = "committed"]
  /\ chat' = [chat EXCEPT ![seq + 1] = req[q].chat]
  /\ event' = [event EXCEPT ![seq + 1] =
       [type |-> EventType(req[q].op), msg |-> req[q].msg,
        user |-> req[q].user, text |-> req[q].text]]
  /\ req' = [req EXCEPT ![q].pc = "commit", ![q].row = seq + 1]
  /\ UNCHANGED <<clock, tableVars, prior>>

InsertOutboxTx(q) ==
  /\ req[q].pc = "outbox"
  /\ seq' = seq + 1
  /\ tx' = [tx EXCEPT ![seq + 1] = "open"]
  /\ chat' = [chat EXCEPT ![seq + 1] = req[q].chat]
  /\ event' = [event EXCEPT ![seq + 1] =
       [type |-> EventType(req[q].op), msg |-> req[q].msg,
        user |-> req[q].user, text |-> req[q].text]]
  /\ req' = [req EXCEPT ![q].pc = "commit", ![q].row = seq + 1]
  /\ UNCHANGED <<clock, tableVars, prior>>

(* What the transaction wrote becomes visible. *)
ApplyWrite(q) ==
  LET r == req[q]
  IN  /\ msg' = CASE r.op = "create" ->
                       [msg EXCEPT ![r.msg] = [state |-> "live", chat |-> r.chat,
                                               sender |-> r.user, text |-> r.text]]
                  [] r.op = "patch"  -> [msg EXCEPT ![r.msg].text = r.text]
                  [] r.op = "delete" -> [msg EXCEPT ![r.msg].state = "deleted"]
                  [] OTHER           -> msg
      /\ last' = IF r.op = "create" THEN [last EXCEPT ![r.chat] = r.msg] ELSE last
      /\ cursor' = IF r.op = "read"
                   THEN [cursor EXCEPT ![<<r.chat, r.user>>] = r.msg] ELSE cursor

Commit(q) ==
  /\ req[q].pc = "commit"
  /\ ApplyWrite(q)
  /\ tx' = [tx EXCEPT ![req[q].row] = "committed"]
  /\ prior' = [prior EXCEPT ![req[q].row] = {k \in Committed : k < req[q].row}]
  /\ Finish(q)
  /\ UNCHANGED <<clock, member, seq, chat, event>>

(* An error of a statement, a cancelled request or a crash: the database   *)
(* forgets the transaction, but not the id it took from the sequence.      *)
Rollback(q) ==
  /\ req[q].pc \in {"update", "outbox", "commit"}
  /\ tx' = IF req[q].pc = "commit" THEN [tx EXCEPT ![req[q].row] = "aborted"] ELSE tx
  /\ Finish(q)
  /\ UNCHANGED <<clock, tableVars, seq, chat, event, prior>>

-----------------------------------------------------------------------------
(* Memberships, as ChatService changes them. *)
AddMember(c, u) ==
  /\ <<c, u>> \notin member
  /\ member' = member \union {<<c, u>>}
  /\ UNCHANGED <<clock, msg, cursor, last, logVars, req>>

(* Variant: the row is deleted although a transaction has it locked. *)
RemoveMemberLocked(c, u) ==
  /\ <<c, u>> \in member
  /\ member' = member \ {<<c, u>>}
  /\ cursor' = [cursor EXCEPT ![<<c, u>>] = 0]
  /\ UNCHANGED <<clock, msg, last, logVars, req>>

(* DELETE FROM chat_members: the read cursor goes with the row. *)
RemoveMember(c, u) ==
  /\ <<c, u>> \in member
  /\ <<"member", c, u>> \notin Locked
  /\ member' = member \ {<<c, u>>}
  /\ cursor' = [cursor EXCEPT ![<<c, u>>] = 0]
  /\ UNCHANGED <<clock, msg, last, logVars, req>>

-----------------------------------------------------------------------------
(* Nobody can name a message that is not committed yet: its id is random.  *)
Arrive(q) ==
  \/ \E u \in Users, c \in Chats, t \in Texts,
        m \in {0} \union {k \in Msgs : msg[k].state # "free"} : Create(q, u, c, t, m)
  \/ \E op \in {"patch", "delete", "read"}, u \in Users, m \in Msgs, t \in Texts \union {None} :
       LoadMessage(q, op, u, m, t)

HandlerStep(q) ==
  CheckReply(q) \/ RequireChatMember(q) \/ Begin(q) \/ UpdateRow(q)
    \/ InsertOutboxTx(q) \/ Commit(q)

MembershipStep ==
  \E c \in Chats, u \in Users : AddMember(c, u) \/ RemoveMember(c, u)

Next ==
  \/ \E q \in Requests : Arrive(q) \/ HandlerStep(q) \/ Rollback(q)
  \/ MembershipStep

Spec == Init /\ [][Next]_vars

-----------------------------------------------------------------------------
(***************************************************************************)
(* Properties                                                              *)
(***************************************************************************)

RequestType ==
  [pc : {"idle", "reply", "member", "begin", "update", "outbox", "commit"},
   op : {"none", "create", "patch", "delete", "read"}, user : Users \union {None},
   chat : Chats \union {NoChat}, msg : {0} \union Msgs, text : Texts \union {None},
   reply : {0} \union Msgs, row : {0} \union Rows]

(* The shape of the tables, the outbox and the requests.                   *)
TypeOK ==
  /\ clock \in 0..MaxTx
  /\ msg \in [Msgs -> [state : {"free", "live", "deleted"}, chat : Chats \union {NoChat},
                       sender : Users \union {None}, text : Texts \union {None}]]
  /\ member \subseteq Chats \X Users
  /\ cursor \in [Chats \X Users -> {0} \union Msgs]
  /\ last \in [Chats -> {0} \union Msgs]
  /\ seq \in 0..MaxTx
  /\ tx \in [Rows -> {"free", "open", "committed", "aborted"}]
  /\ chat \in [Rows -> Chats \union {NoChat}]
  /\ event \in [Rows -> [type : {"none", "created", "updated", "deleted", "read_receipt"},
                         msg : {0} \union Msgs, user : Users \union {None},
                         text : Texts \union {None}]]
  /\ prior \in [Rows -> SUBSET Rows]
  /\ req \in [Requests -> RequestType]
  /\ \A q \in Requests :
       /\ req[q].pc = "commit" <=> req[q].row # 0
       /\ req[q].pc = "commit" => tx[req[q].row] = "open"

(* The committed events of a message, of the creations in a chat, and of   *)
(* the read marks of a member.                                             *)
MessageEvents(m) ==
  {i \in Committed : event[i].msg = m /\ event[i].type # "read_receipt"}

Creations(c) == {i \in Committed : chat[i] = c /\ event[i].type = "created"}

Receipts(c, u) ==
  {i \in Committed : chat[i] = c /\ event[i].user = u /\ event[i].type = "read_receipt"}

(* The committed events of a message, in id order, tell its whole story:   *)
(* one "created" comes first, at most one "deleted" comes last, and the    *)
(* row holds the text of the last event that carries one.  Nothing is      *)
(* changed without its event and no event stands for a change that was     *)
(* not made, whatever edits and deletes race.                              *)
Tells(m) ==
  LET E == MessageEvents(m)
      carrying == {i \in E : event[i].type # "deleted"}
  IN  /\ msg[m].state = "free" <=> E = {}
      /\ E # {} =>
           /\ \A i \in E : event[i].type = "created" <=> i = Min(E)
           /\ \A i \in E : event[i].type = "deleted" =>
                i = Max(E) /\ msg[m].state = "deleted"
           /\ msg[m].state = "deleted" => event[Max(E)].type = "deleted"
           /\ msg[m].text = event[Max(carrying)].text

OutboxTellsMessages == \A m \in Msgs : Tells(m)

(* chats.last_message_id names the message of the last "created" event of  *)
(* the chat: creations of a chat queue for its row before they take an id. *)
LastMessageFollowsOutbox ==
  \A c \in Chats :
    last[c] = IF Creations(c) = {} THEN 0 ELSE event[Max(Creations(c))].msg

(* A read cursor is the one of the last read receipt of its member: the    *)
(* receipts that clients get, in id order, end where the table ends.       *)
CursorFollowsReceipts ==
  \A c \in Chats, u \in Users : cursor[<<c, u>>] # 0 =>
    /\ Receipts(c, u) # {} /\ cursor[<<c, u>>] = event[Max(Receipts(c, u))].msg
    /\ <<c, u>> \in member

(* A deleted message stays as it is: an edit that was checked before the   *)
(* delete committed does not get through.                                  *)
DeletedStay == \A m \in Msgs : msg[m].state = "deleted" => msg'[m] = msg[m]

DeletedIsFinal == [][DeletedStay]_vars

(* The writer implements the inserting half of the outbox contract.        *)
Contract == INSTANCE OutboxContract WITH
  MaxRows <- MaxTx, emitted <- {}, published <- {}, ordered <- TRUE

ImplementsContract == Contract!Spec

(* The transaction that inserts message m, before it ends. *)
Creating(m) ==
  {q \in Requests : /\ req[q].op = "create" /\ req[q].msg = m
                    /\ req[q].pc \in {"update", "outbox", "commit"}}

(* What a reader notices of message m. *)
Shown(m) ==
  IF Creating(m) # {}
  THEN [state |-> "open", chat |-> req[CHOOSE q \in Creating(m) : TRUE].chat]
  ELSE [state |-> msg[m].state, chat |-> msg[m].chat]

(* For readers the writer is the table that MessageQueries reads: edits,   *)
(* read marks and what is not committed show in none of its columns.       *)
Table == INSTANCE MessageTable WITH table <- [m \in Msgs |-> Shown(m)]

ImplementsTable == Table!Spec

(***************************************************************************)
(* The inductive invariants behind these properties (see                   *)
(* MessageWriterProofs).  CountInv: an id of the outbox is taken by a      *)
(* transaction that was counted when it began.  TableInv: only started     *)
(* transactions have inserted messages, and taken ids.  Informed(q): what  *)
(* a request has found stays true, the row it holds the lock of still      *)
(* matches, and its event comes after all those about that row.            *)
(* Apart(p, q): row locks, messages and ids are exclusive.                 *)
(***************************************************************************)
Running == {q \in Requests : req[q].pc \in {"update", "outbox"}}

CountInv == IsFiniteSet(Running) /\ seq + Cardinality(Running) <= clock

TableInv ==
  /\ \A m \in Msgs : IF msg[m].state = "free" THEN msg[m] = NoMessage
                                               ELSE m <= clock /\ msg[m].chat \in Chats
  /\ \A i \in Rows : tx[i] = "free" <=> seq < i

(* The committed events that change the row which q updates. *)
Told(q) ==
  CASE req[q].op = "create" -> Creations(req[q].chat)
    [] req[q].op = "read"   -> Receipts(req[q].chat, req[q].user)
    [] OTHER                -> MessageEvents(req[q].msg)

InTx(q) == req[q].pc \in {"update", "outbox", "commit"}
Holds(q) == req[q].pc \in {"outbox", "commit"}

Informed(q) ==
  LET r == req[q]
  IN  /\ r.pc # "idle" => r.op # "none" /\ r.user \in Users /\ r.chat \in Chats
      /\ r.pc = "reply" => r.op = "create" /\ r.reply \in Msgs
      /\ r.pc = "member" => r.op # "create"
      /\ r.op \in {"patch", "delete", "read"} => r.msg \in Msgs /\ msg[r.msg].state # "free"
      /\ r.op = "create" /\ InTx(q) => r.msg \in 1..clock /\ msg[r.msg].state = "free"
      /\ Holds(q) => RowMatches(q)
      /\ r.pc = "commit" =>
           /\ chat[r.row] = r.chat
           /\ event[r.row] = [type |-> EventType(r.op), msg |-> r.msg,
                              user |-> r.user, text |-> r.text]
           /\ \A i \in Told(q) : i < r.row

Apart(p, q) ==
  /\ Holds(p) /\ Holds(q) => Resource(p) # Resource(q)
  /\ InTx(p) /\ InTx(q) /\ req[p].op = "create" /\ req[q].op = "create" =>
       req[p].msg # req[q].msg
  /\ req[p].pc = "commit" /\ req[q].pc = "commit" => req[p].row # req[q].row

RequestInv ==
  /\ \A q \in Requests : Informed(q)
  /\ \A p, q \in Requests : p # q => Apart(p, q)
=============================================================================
