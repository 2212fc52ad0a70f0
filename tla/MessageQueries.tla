--------------------------- MODULE MessageQueries ---------------------------
(***************************************************************************)
(* The read side: ListByChat of service/message_service.go and ListMine of *)
(* service/chat_service.go, over GetChatMessages and ListUserChatsSummary  *)
(* of repository/postgres, while the writers go on (as MessageTable has    *)
(* it, which MessageWriter implements).                                    *)
(*                                                                         *)
(* A reader is a client that loads a list page by page: the messages of a  *)
(* chat, each page before the oldest message of the one it has, or the     *)
(* chats of a user, each page at the offset behind the one it has.  Every  *)
(* page is a request of its own, and every statement in it sees what is    *)
(* committed when it runs.  The client goes on until a page is not full,   *)
(* which for messages is what the answer's has_more says.                  *)
(*                                                                         *)
(* The order (created_at, id) of messages is the order of their numbers; a *)
(* timestamp given as the cursor stands for the message it was taken from. *)
(* Chats are numbered in the order of updated_at before the first message, *)
(* which is the order they were created in.  A page is the set of its      *)
(* rows, which ORDER BY leaves no choice to arrange: a row is on it by the *)
(* number of rows that come before it.                                     *)
(***************************************************************************)
EXTENDS MessageTable, Sequences, FiniteSets, FiniteSetsExt

CONSTANTS
  Readers,  \* clients that load a list
  None,     \* no user
  Limits    \* rows per page (up to 200 messages or 100 chats)

ASSUME QueriesAssumption ==
  /\ Chats \subseteq Nat /\ IsFiniteSet(Chats)
  /\ None \notin Users
  /\ Limits \subseteq Nat \ {0}

VARIABLE view  \* per reader: the list it loads, and what it has got so far

vars == <<tableVars, view>>

(* before: the message the next page starts below, 0 for none.  offset:    *)
(* where the next page of chats starts.  got: the pages loaded so far.     *)
(* base: history, the messages there were when the reader began, or the    *)
(* chats (list) with their last messages.  moved: history, chats may have  *)
(* moved up in the list since.                                             *)
NoView == [pc |-> "idle", user |-> None, limit |-> 0, chat |-> 0, before |-> 0,
           offset |-> 0, got |-> <<>>, base |-> {}, list |-> {}, moved |-> FALSE]

QueryInit == Init /\ view = [r \in Readers |-> NoView]

-----------------------------------------------------------------------------
(***************************************************************************)
(* The queries.                                                            *)
(***************************************************************************)
MessagesOf(c) == {m \in Msgs : table[m].state = "live" /\ table[m].chat = c}

(* Variant: <= instead of <. *)
GetChatMessagesFrom(c, before, limit) ==
  LET older == {m \in MessagesOf(c) : before = 0 \/ m <= before}
  IN  {m \in older : Cardinality({k \in older : k > m}) < limit}

(* WHERE chat_id = c AND deleted_at IS NULL AND (created_at, id) < anchor  *)
(* ORDER BY created_at DESC, id DESC LIMIT limit.  The anchor is found     *)
(* also when it has been deleted meanwhile.                                *)
GetChatMessages(c, before, limit) ==
  LET older == {m \in MessagesOf(c) : before = 0 \/ m < before}
  IN  {m \in older : Cardinality({k \in older : k > m}) < limit}

ChatsOf(u) == {c \in Chats : <<c, u>> \in member}

(* Variant: the oldest first. *)
MoreRecentAscending(c, d) == last[c] < last[d] \/ (last[c] = last[d] /\ c < d)

(* last_message_at DESC NULLS LAST, updated_at DESC; last_message_at is    *)
(* the created_at of the last message.                                     *)
MoreRecent(c, d) == last[c] > last[d] \/ (last[c] = last[d] /\ c > d)

(* How many chats of u come before c in this order. *)
Position(u, c) == Cardinality({d \in ChatsOf(u) : MoreRecent(d, c)})

(* LIMIT limit OFFSET offset *)
ListUserChatsSummary(u, offset, limit) ==
  {c \in ChatsOf(u) : Position(u, c) \in offset..(offset + limit - 1)}

-----------------------------------------------------------------------------
(***************************************************************************)
(* A client scrolls back through a chat.                                   *)
(***************************************************************************)
Scroll(r, u, c, n) ==
  /\ view[r].pc = "idle"
  /\ view' = [view EXCEPT ![r] = [NoView EXCEPT
       !.pc = "listMember", !.user = u, !.limit = n, !.chat = c,
       !.base = MessagesOf(c)]]

(* requireChatMember, for each page anew: a 403 ends the scrolling. *)
ListMember(r) ==
  /\ view[r].pc = "listMember"
  /\ view' = [view EXCEPT ![r] =
       IF <<view[r].chat, view[r].user>> \in member THEN [@ EXCEPT !.pc = "list"] ELSE NoView]

(* HasMore is len(out) == limit. *)
ListByChat(r) ==
  LET page == GetChatMessages(view[r].chat, view[r].before, view[r].limit)
  IN  /\ view[r].pc = "list"
      /\ view' = [view EXCEPT
           ![r].pc = IF Cardinality(page) = view[r].limit THEN "listMember" ELSE "scrolled",
           ![r].before = IF page = {} THEN @ ELSE Min(page),
           ![r].got = Append(@, page)]

(***************************************************************************)
(* A client loads its list of chats.                                       *)
(***************************************************************************)
OpenList(r, u, n) ==
  /\ view[r].pc = "idle"
  /\ view' = [view EXCEPT ![r] = [NoView EXCEPT
       !.pc = "chats", !.user = u, !.limit = n,
       !.list = {<<c, last[c]>> : c \in ChatsOf(u)}]]

ListMine(r) ==
  LET page == ListUserChatsSummary(view[r].user, view[r].offset, view[r].limit)
  IN  /\ view[r].pc = "chats"
      /\ view' = [view EXCEPT
           ![r].pc = IF Cardinality(page) = view[r].limit THEN "chats" ELSE "listed",
           ![r].offset = @ + view[r].limit,
           ![r].got = Append(@, page)]

(* The client is through, or gives up. *)
Leave(r) ==
  /\ view[r].pc # "idle"
  /\ view' = [view EXCEPT ![r] = NoView]

ReaderStep(r) ==
  \/ \E u \in Users, n \in Limits : OpenList(r, u, n) \/ \E c \in Chats : Scroll(r, u, c, n)
  \/ ListMember(r) \/ ListByChat(r) \/ ListMine(r) \/ Leave(r)

(* History: the user lost a chat, or a message that became visible late    *)
(* took the last_message_at of its chat back.                              *)
ListMovesUp(u) ==
  \/ \E c \in Chats : <<c, u>> \in member \ member'
  \/ \E c \in Chats : last'[c] < last[c]

WritersStep ==
  /\ Next
  /\ view' = [r \in Readers |->
       IF view[r].pc = "chats" /\ ListMovesUp(view[r].user)
       THEN [view[r] EXCEPT !.moved = TRUE] ELSE view[r]]

QueryNext ==
  \/ WritersStep
  \/ \E r \in Readers : ReaderStep(r) /\ UNCHANGED tableVars

QuerySpec == QueryInit /\ [][QueryNext]_vars

-----------------------------------------------------------------------------
(***************************************************************************)
(* Properties                                                              *)
(***************************************************************************)
Scrolling == {"listMember", "list", "scrolled"}
Listing == {"chats", "listed"}

(* Everything on the pages that reader r has got. *)
Got(r) == UNION {view[r].got[i] : i \in 1..Len(view[r].got)}

TableTypeOK ==
  /\ clock \in 0..MaxTx
  /\ table \in [Msgs -> [state : {"free", "open", "live", "deleted"}, chat : Chats \union {NoChat}]]
  /\ \A m \in Msgs : /\ table[m].state = "free" <=> table[m].chat = NoChat
                     /\ clock < m => table[m].state = "free"
  /\ member \subseteq Chats \X Users
  /\ last \in [Chats -> 0..MaxTx]

ViewType ==
  [pc : {"idle"} \union Scrolling \union Listing, user : Users \union {None},
   limit : {0} \union Limits, chat : {0} \union Chats, before : 0..MaxTx, offset : Nat,
   got : Seq(SUBSET (Msgs \union Chats)), base : SUBSET Msgs,
   list : SUBSET (Chats \X (0..MaxTx)), moved : BOOLEAN]

PagesOK(r) ==
  LET v == view[r]
  IN  /\ v.pc # "idle" => v.user \in Users /\ v.limit \in Limits
      /\ v.pc \in Scrolling => v.chat \in Chats
      /\ \A i \in 1..Len(v.got) :
           /\ Cardinality(v.got[i]) <= v.limit
           /\ i < Len(v.got) \/ v.pc \notin {"scrolled", "listed"} =>
                Cardinality(v.got[i]) = v.limit

(* The shape of the tables and of what the readers have got: a page has no *)
(* more rows than were asked for, and only the last one of a list that was *)
(* loaded to its end has less, as HasMore promises.                        *)
QueryTypeOK ==
  /\ TableTypeOK
  /\ view \in [Readers -> ViewType]
  /\ \A r \in Readers : PagesOK(r)

NewestFirst(pages) ==
  \A i, j \in 1..Len(pages) : i < j => \A m \in pages[i], n \in pages[j] : m > n

(* Scrolling through GetChatMessages returns every message that was there  *)
(* when it began and still is, newest first, none twice, whatever is       *)
(* created and deleted between the pages, the cursor's message included:   *)
(* what it does not return was committed later, and its event tells.       *)
ScrollIsComplete ==
  \A r \in Readers :
    /\ view[r].pc \in Scrolling => NewestFirst(view[r].got)
    /\ view[r].pc = "scrolled" =>
         view[r].base \intersect MessagesOf(view[r].chat) \subseteq Got(r)

(* Loading the chats with ListMine returns every chat the user was in when *)
(* it began and still is, unless a message made it move (its event tells); *)
(* the offsets are good only as long as no chat leaves the list and none   *)
(* falls back in it, which a message that commits late can bring about.    *)
ListIsComplete ==
  \A r \in Readers :
    view[r].pc = "listed" /\ ~view[r].moved =>
      \A b \in view[r].list : b[1] \in Got(r) \/ last[b[1]] # b[2]

(***************************************************************************)
(* The inductive invariant behind ScrollIsComplete and ListIsComplete (see *)
(* MessageQueriesProofs).                                                  *)
(***************************************************************************)
Committed(m) == table[m].state \in {"live", "deleted"}

LastInv == \A c \in Chats : last[c] # 0 => Committed(last[c])

(* The cursor is not above the messages got, and what is left of the base  *)
(* from there up was got.                                                  *)
ScrollInv(r) ==
  LET v == view[r]
  IN  v.pc \in Scrolling =>
        /\ \A m \in v.base : Committed(m)
        /\ NewestFirst(v.got)
        /\ \A m \in Got(r) : v.before # 0 /\ m \in Msgs /\ v.before <= m
        /\ \A m \in v.base \intersect MessagesOf(v.chat) :
             v.pc = "scrolled" \/ (v.before # 0 /\ v.before <= m) => m \in Got(r)

(* While no chat has moved up in the list, the chats of the base before    *)
(* the offset were got, unless they have a new message; so they were all   *)
(* when the list ended.                                                    *)
ListInv(r) ==
  LET v == view[r]
  IN  v.pc \in Listing =>
        /\ \A b \in v.list : b[2] # 0 => Committed(b[2])
        /\ v.pc = "chats" /\ ~v.moved =>
             \A b \in v.list :
               /\ <<b[1], v.user>> \in member
               /\ last[b[1]] = b[2] /\ Position(v.user, b[1]) < v.offset => b[1] \in Got(r)
        /\ v.pc = "listed" /\ ~v.moved =>
             \A b \in v.list : last[b[1]] = b[2] => b[1] \in Got(r)

QueryInv ==
  /\ QueryTypeOK /\ LastInv
  /\ \A r \in Readers : ScrollInv(r) /\ ListInv(r)
=============================================================================
