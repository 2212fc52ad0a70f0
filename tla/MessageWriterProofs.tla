------------------------ MODULE MessageWriterProofs -------------------------
(***************************************************************************)
(* Proofs about MessageWriter, for any number of requests, users, chats,   *)
(* texts and transactions.                                                 *)
(***************************************************************************)
EXTENDS MessageWriter, FiniteSetTheorems, TLAPS

(* The inductive invariant.                                                *)
StoryInv == OutboxTellsMessages /\ LastMessageFollowsOutbox /\ CursorFollowsReceipts

WriterInv == TypeOK /\ CountInv /\ TableInv /\ RequestInv /\ StoryInv

-----------------------------------------------------------------------------
(***************************************************************************)
(* Least and greatest ids.                                                 *)
(***************************************************************************)

(* A set of numbers has a least one.                                       *)
LEMMA HasLeast ==
  ASSUME NEW S \in SUBSET Nat, S # {}
  PROVE  \E i \in S : \A k \in S : i <= k
<1>1. \E i \in S : \A k \in S : ~(<<k, i>> \in OpToRel(<, Nat))
  BY NatLessThanWellFounded, WFMin
<1>2. OpToRel(<, Nat) = {ss \in Nat \X Nat : ss[1] < ss[2]}
  BY Zenon DEF OpToRel
<1>3. \A x, y \in Nat : x < y => <<x, y>> \in OpToRel(<, Nat)
  <2>1. \A x, y \in Nat : x < y => <<x, y>> \in {ss \in Nat \X Nat : ss[1] < ss[2]}
    OBVIOUS
  <2> QED
    BY <1>2, <2>1, Zenon
<1>4. \E i \in S : \A k \in S : ~(k < i)
  BY <1>1, <1>3, Zenon
<1> QED
  BY <1>4

(* An id above all those of S is the greatest when it joins them.          *)
LEMMA MaxOfNew ==
  ASSUME NEW S \in SUBSET Nat, NEW x \in Nat, \A y \in S : y < x
  PROVE  Max(S \union {x}) = x
<1>1. x \in S \union {x} /\ \A y \in S \union {x} : x >= y
  OBVIOUS
<1>2. \A z \in S \union {x} : (\A y \in S \union {x} : z >= y) => z = x
  OBVIOUS
<1> QED
  BY <1>1, <1>2 DEF Max

(* It leaves the least one as it is.                                       *)
LEMMA MinOfNew ==
  ASSUME NEW S \in SUBSET Nat, NEW x \in Nat, \A y \in S : y < x
  PROVE  Min(S \union {x}) = IF S = {} THEN x ELSE Min(S)
<1>1. CASE S = {}
  <2>1. \A z \in S \union {x} : z = x
    BY <1>1
  <2> QED
    BY <1>1, <2>1 DEF Min
<1>2. CASE S # {}
  <2>1. PICK m \in S : \A k \in S : m <= k
    BY <1>2, HasLeast
  <2>2. \A z \in S : (\A k \in S : z =< k) => z = m
    BY <2>1
  <2>3. Min(S) = m
    BY <2>1, <2>2 DEF Min
  <2>4. m \in S \union {x} /\ \A k \in S \union {x} : m =< k
    BY <2>1
  <2>5. \A z \in S \union {x} : (\A k \in S \union {x} : z =< k) => z = m
    BY <2>1
  <2>6. Min(S \union {x}) = m
    BY <2>4, <2>5 DEF Min
  <2> QED
    BY <1>2, <2>3, <2>6
<1> QED
  BY <1>1, <1>2

(* A non-empty set of ids has a least and a greatest element.              *)
LEMMA MinMaxInSet ==
  ASSUME NEW S \in SUBSET Rows, S # {}
  PROVE  Min(S) \in S /\ Max(S) \in S
<1>1. S \in SUBSET Nat /\ MaxTx \in Nat /\ \A x \in S : MaxTx - x \in Nat
  BY ConstantsAssumption DEF Rows
<1>2. PICK m \in S : \A k \in S : m =< k
  BY <1>1, HasLeast
<1> DEFINE D == {MaxTx - x : x \in S}
<1>3. D \in SUBSET Nat /\ D # {}
  BY <1>1
<1>4. PICK d \in D : \A e \in D : d <= e
  BY <1>3, HasLeast
<1>5. PICK g \in S : d = MaxTx - g
  BY <1>4
<1>6. \A k \in S : g >= k
  <2> SUFFICES ASSUME NEW k \in S PROVE g >= k
    OBVIOUS
  <2>1. MaxTx - k \in D
    OBVIOUS
  <2>2. MaxTx - g <= MaxTx - k
    BY <1>4, <1>5, <2>1
  <2> QED
    BY <1>1, <2>2
<1> QED
  BY <1>2, <1>6 DEF Min, Max

-----------------------------------------------------------------------------
(***************************************************************************)
(* Requests, and the rows they lock.                                       *)
(***************************************************************************)

(* What Idle says of a request that runs nothing.                          *)
LEMMA IdleType ==
  /\ Idle \in RequestType
  /\ Idle.pc = "idle" /\ Idle.op = "none" /\ Idle.row = 0 /\ Idle.msg = 0
BY ConstantsAssumption DEF Idle, RequestType

(* A request moves to r.                                                   *)
LEMMA RequestMoves ==
  ASSUME TypeOK, NEW q \in Requests, NEW r \in RequestType, req' = [req EXCEPT ![q] = r]
  PROVE  /\ req' \in [Requests -> RequestType] /\ req'[q] = r
         /\ \A p \in Requests : p # q => req'[p] = req[p]
BY DEF TypeOK

(* A request that holds a lock, and the row it holds. *)
LEMMA HoldsLocked ==
  ASSUME NEW q \in Requests, Holds(q)
  PROVE  Resource(q) \in Locked
BY DEF Holds, Locked

-----------------------------------------------------------------------------
(***************************************************************************)
(* What a step leaves alone stays true.                                    *)
(***************************************************************************)

(* The sets of events that the story is told with depend on the committed  *)
(* rows only.                                                              *)
LEMMA EventsKept ==
  ASSUME Committed' = Committed,
         \A i \in Committed : chat'[i] = chat[i] /\ event'[i] = event[i]
  PROVE  /\ \A m : MessageEvents(m)' = MessageEvents(m)
         /\ \A c : Creations(c)' = Creations(c)
         /\ \A c, u : Receipts(c, u)' = Receipts(c, u)
BY DEF MessageEvents, Creations, Receipts

(* A step that commits no event and changes no message leaves the story as *)
(* it is; a read mark may be lost with its membership.                     *)
LEMMA StoryKept ==
  ASSUME TypeOK, StoryInv, UNCHANGED <<msg, last>>, Committed' = Committed,
         \A i \in Committed : chat'[i] = chat[i] /\ event'[i] = event[i],
         \A c \in Chats, u \in Users : cursor'[<<c, u>>] # 0 =>
           cursor'[<<c, u>>] = cursor[<<c, u>>] /\ (<<c, u>> \in member => <<c, u>> \in member')
  PROVE  StoryInv'
<1>1. /\ \A m : MessageEvents(m)' = MessageEvents(m)
      /\ \A c : Creations(c)' = Creations(c)
      /\ \A c, u : Receipts(c, u)' = Receipts(c, u)
  BY EventsKept
<1>2. /\ \A m : MessageEvents(m) \in SUBSET Committed
      /\ \A c : Creations(c) \in SUBSET Committed
      /\ \A c, u : Receipts(c, u) \in SUBSET Committed
  BY DEF MessageEvents, Creations, Receipts
<1>3. \A S \in SUBSET Committed : S # {} => event'[Max(S)] = event[Max(S)]
  <2>1. Committed \in SUBSET Rows
    BY DEF Committed
  <2> QED
    BY <2>1, MinMaxInSet
<1>4. ASSUME NEW m \in Msgs PROVE Tells(m)'
  <2> DEFINE E == MessageEvents(m)
             carrying == {i \in E : event[i].type # "deleted"}
  <2>1. Tells(m)
    BY DEF StoryInv, OutboxTellsMessages
  <2>2. CASE E = {}
    BY <1>1, <2>1, <2>2 DEF Tells
  <2>3. CASE E # {}
    <3>1. E \in SUBSET Committed /\ E' = E /\ carrying \in SUBSET Committed
      BY <1>1, <1>2
    <3>2. carrying' = carrying
      BY <3>1
    <3>3. Min(E) \in E /\ event[Min(E)].type = "created"
      <4>1. E \in SUBSET Rows
        BY <3>1 DEF Committed
      <4> QED
        BY <2>1, <2>3, <4>1, MinMaxInSet DEF Tells
    <3>4. carrying # {}
      BY <3>3
    <3>5. event'[Max(E)] = event[Max(E)] /\ event'[Max(carrying)] = event[Max(carrying)]
      BY <1>3, <2>3, <3>1, <3>4
    <3> HIDE DEF E
    <3>6. /\ \A i \in E : event[i].type = "created" <=> i = Min(E)
          /\ \A i \in E : event[i].type = "deleted" => i = Max(E) /\ msg[m].state = "deleted"
          /\ msg[m].state = "deleted" => event[Max(E)].type = "deleted"
          /\ msg[m].text = event[Max(carrying)].text
          /\ msg[m].state # "free"
      BY <2>1, <2>3 DEF Tells, E
    <3>7. \A i \in E : event'[i] = event[i]
      BY <3>1
    <3>8. /\ msg'[m].state = "free" <=> E' = {}
          /\ \A i \in E' : event'[i].type = "created" <=> i = Min(E')
          /\ \A i \in E' : event'[i].type = "deleted" => i = Max(E') /\ msg'[m].state = "deleted"
          /\ msg'[m].state = "deleted" => event'[Max(E')].type = "deleted"
          /\ msg'[m].text = event'[Max(carrying')].text
      BY <2>3, <3>1, <3>2, <3>5, <3>6, <3>7
    <3> QED
      BY <3>8 DEF Tells, E
  <2> QED
    BY <2>2, <2>3
<1>5. LastMessageFollowsOutbox'
  BY <1>1, <1>2, <1>3 DEF StoryInv, LastMessageFollowsOutbox
<1>6. CursorFollowsReceipts'
  BY <1>1, <1>2, <1>3 DEF StoryInv, CursorFollowsReceipts
<1> QED
  BY <1>4, <1>5, <1>6 DEF StoryInv, OutboxTellsMessages

(* A request that does not move knows what it knew, if the step leaves its *)
(* message and its row as they are and commits nothing behind its event.   *)
LEMMA InformedKept ==
  ASSUME TypeOK, NEW p \in Requests, Informed(p), req'[p] = req[p],
         clock' \in Nat, clock <= clock',
         req[p].op \in {"patch", "delete", "read"} => msg'[req[p].msg].state # "free",
         req[p].op = "create" /\ InTx(p) => msg'[req[p].msg].state = "free",
         Holds(p) => RowMatches(p)',
         req[p].pc = "commit" => /\ chat'[req[p].row] = chat[req[p].row]
                                 /\ event'[req[p].row] = event[req[p].row]
                                 /\ \A i \in Told(p)' : i < req[p].row
  PROVE  Informed(p)'
<1>1. (InTx(p)' <=> InTx(p)) /\ (Holds(p)' <=> Holds(p))
  BY DEF InTx, Holds
<1>2. clock \in Nat
  BY DEF TypeOK
<1>3. \A m \in 1..clock : m \in 1..clock'
  BY <1>2
<1> QED
  BY <1>1, <1>3 DEF Informed

(* Requests that do not move stay apart.                                   *)
LEMMA ApartUntouched ==
  ASSUME NEW o, NEW p, Apart(o, p), req'[o] = req[o], req'[p] = req[p]
  PROVE  Apart(o, p)'
<1>1. \A z \in {o, p} : /\ Resource(z)' = Resource(z)
                        /\ InTx(z)' <=> InTx(z)
                        /\ Holds(z)' <=> Holds(z)
  BY DEF Resource, InTx, Holds
<1> QED
  BY <1>1 DEF Apart

(* A step that changes only the request q, and the clock.                  *)
LEMMA RequestStep ==
  ASSUME WriterInv, NEW q \in Requests, NEW r \in RequestType, req' = [req EXCEPT ![q] = r],
         UNCHANGED <<tableVars, logVars>>, clock' \in 0..MaxTx, clock <= clock',
         r.pc # "commit", r.row = 0, CountInv', Informed(q)',
         \A p \in Requests : p # q => Apart(p, q)'
  PROVE  WriterInv'
<1>1. UNCHANGED <<msg, member, cursor, last, seq, tx, chat, event, prior>>
  BY DEF tableVars, logVars
<1>2. /\ req' \in [Requests -> RequestType] /\ req'[q] = r
      /\ \A p \in Requests : p # q => req'[p] = req[p]
  BY RequestMoves DEF WriterInv
<1>3. TypeOK'
  <2>1. \A p \in Requests : /\ req'[p].pc = "commit" <=> req'[p].row # 0
                            /\ req'[p].pc = "commit" => tx'[req'[p].row] = "open"
    BY <1>1, <1>2 DEF WriterInv, TypeOK
  <2> QED
    BY <1>1, <1>2, <2>1 DEF WriterInv, TypeOK
<1>4. TableInv'
  <2>1. clock \in Nat /\ clock' \in Nat /\ \A m \in Msgs : m <= clock => m <= clock'
    BY ConstantsAssumption DEF WriterInv, TypeOK, Msgs
  <2> QED
    BY <1>1, <2>1 DEF WriterInv, TableInv
<1>5. RequestInv'
  <2>1. clock' \in Nat
    BY ConstantsAssumption
  <2>2. \A p \in Requests : Informed(p)'
    <3> SUFFICES ASSUME NEW p \in Requests, p # q PROVE Informed(p)'
      OBVIOUS
    <3>1. req'[p] = req[p] /\ Informed(p) /\ TypeOK
      BY <1>2 DEF WriterInv, RequestInv
    <3>2. Told(p)' = Told(p) /\ (RowMatches(p)' <=> RowMatches(p))
      BY <1>1, <3>1 DEF Told, MessageEvents, Creations, Receipts, Committed, RowMatches
    <3> QED
      BY <1>1, <2>1, <3>1, <3>2, InformedKept DEF Informed
  <2>3. ASSUME NEW o \in Requests, NEW p \in Requests, o # p PROVE Apart(o, p)'
    <3>1. CASE o # q /\ p # q
      BY <1>2, <2>3, <3>1, ApartUntouched DEF WriterInv, RequestInv
    <3>2. CASE p = q
      BY <2>3, <3>2
    <3>3. CASE o = q
      <4>1. Apart(p, q)'
        BY <2>3, <3>3
      <4> QED
        BY <3>3, <4>1 DEF Apart
    <3> QED
      BY <3>1, <3>2, <3>3
  <2> QED
    BY <2>2, <2>3 DEF RequestInv
<1>6. StoryInv'
  <2>1. Committed' = Committed
    BY <1>1 DEF Committed
  <2> QED
    BY <1>1, <2>1, StoryKept DEF WriterInv
<1> QED
  BY <1>3, <1>4, <1>5, <1>6 DEF WriterInv

(* The transactions that are not yet in the outbox, when only q moves.     *)
LEMMA RunningMoves ==
  ASSUME WriterInv, NEW q \in Requests, NEW r \in RequestType, req' = [req EXCEPT ![q] = r]
  PROVE  /\ Running' = IF r.pc \in {"update", "outbox"} THEN Running \union {q}
                                                        ELSE Running \ {q}
         /\ IsFiniteSet(Running) /\ IsFiniteSet(Running')
         /\ Cardinality(Running) \in Nat
         /\ Cardinality(Running') = IF r.pc \in {"update", "outbox"}
                                    THEN Cardinality(Running) + IF q \in Running THEN 0 ELSE 1
                                    ELSE Cardinality(Running) - IF q \in Running THEN 1 ELSE 0
<1>1. /\ req' \in [Requests -> RequestType] /\ req'[q] = r
      /\ \A p \in Requests : p # q => req'[p] = req[p]
  BY RequestMoves DEF WriterInv
<1>2. Running' = IF r.pc \in {"update", "outbox"} THEN Running \union {q} ELSE Running \ {q}
  BY <1>1 DEF Running
<1>3. IsFiniteSet(Running)
  BY DEF WriterInv, CountInv
<1>4. /\ IsFiniteSet(Running \union {q})
      /\ Cardinality(Running \union {q}) =
           IF q \in Running THEN Cardinality(Running) ELSE Cardinality(Running) + 1
  BY <1>3, FS_AddElement
<1>5. /\ IsFiniteSet(Running \ {q})
      /\ Cardinality(Running \ {q}) =
           IF q \in Running THEN Cardinality(Running) - 1 ELSE Cardinality(Running)
  BY <1>3, FS_RemoveElement
<1>6. Cardinality(Running) \in Nat
  BY <1>3, FS_CardinalityType
<1> QED
  BY <1>2, <1>3, <1>4, <1>5, <1>6

(* A step that begins no transaction and takes no id keeps the count.      *)
LEMMA CountKept ==
  ASSUME WriterInv, NEW q \in Requests, NEW r \in RequestType, req' = [req EXCEPT ![q] = r],
         UNCHANGED <<clock, seq>>, r.pc \in {"update", "outbox"} => q \in Running
  PROVE  CountInv'
<1>1. clock \in Nat /\ seq \in Nat /\ seq + Cardinality(Running) <= clock
  BY DEF WriterInv, TypeOK, CountInv
<1>2. /\ IsFiniteSet(Running') /\ Cardinality(Running) \in Nat
      /\ Cardinality(Running') = IF r.pc \in {"update", "outbox"}
                                 THEN Cardinality(Running) + IF q \in Running THEN 0 ELSE 1
                                 ELSE Cardinality(Running) - IF q \in Running THEN 1 ELSE 0
  BY RunningMoves
<1>3. Cardinality(Running') <= Cardinality(Running) /\ Cardinality(Running') \in Int
  BY <1>2
<1>4. seq' + Cardinality(Running') <= clock'
  BY <1>1, <1>2, <1>3
<1> QED
  BY <1>2, <1>4 DEF CountInv

(* A request ends and leaves everything as it is.                          *)
LEMMA FinishStep ==
  ASSUME WriterInv, NEW q \in Requests, Finish(q), UNCHANGED <<clock, tableVars, logVars>>
  PROVE  WriterInv'
<1>1. req' = [req EXCEPT ![q] = Idle] /\ Idle \in RequestType
  BY IdleType DEF Finish
<1>2. req'[q] = Idle
  BY <1>1, RequestMoves DEF WriterInv
<1>3. clock \in 0..MaxTx /\ clock <= clock'
  BY DEF WriterInv, TypeOK
<1>4. CountInv'
  BY <1>1, CountKept, IdleType DEF logVars
<1>5. Informed(q)'
  BY <1>2, IdleType DEF Informed, InTx, Holds
<1>6. \A p \in Requests : p # q => Apart(p, q)'
  BY <1>2, IdleType DEF Apart, InTx, Holds
<1> QED
  BY <1>1, <1>3, <1>4, <1>5, <1>6, IdleType, RequestStep

(* Create comes in, from a member of the chat.                             *)
LEMMA CreateStep ==
  ASSUME WriterInv, NEW q \in Requests, NEW u \in Users, NEW c \in Chats, NEW t \in Texts,
         NEW m \in {0} \union Msgs, Create(q, u, c, t, m)
  PROVE  WriterInv'
<1> DEFINE r == [Idle EXCEPT !.pc = IF m = 0 THEN "begin" ELSE "reply", !.op = "create",
                             !.user = u, !.chat = c, !.text = t, !.reply = m]
<1>1. req' = [req EXCEPT ![q] = r] /\ UNCHANGED <<clock, tableVars, logVars>>
  BY DEF Create
<1>2. /\ r \in RequestType /\ r.pc = IF m = 0 THEN "begin" ELSE "reply"
      /\ r.op = "create" /\ r.user = u /\ r.chat = c /\ r.reply = m /\ r.row = 0
  BY ConstantsAssumption DEF RequestType, Idle
<1> HIDE DEF r
<1>3. req'[q] = r
  BY <1>1, <1>2, RequestMoves DEF WriterInv
<1>4. clock \in 0..MaxTx /\ clock <= clock'
  BY <1>1 DEF WriterInv, TypeOK
<1>5. CountInv'
  BY <1>1, <1>2, CountKept DEF logVars
<1>6. Informed(q)'
  BY <1>2, <1>3 DEF Informed, InTx, Holds
<1>7. \A p \in Requests : p # q => Apart(p, q)'
  BY <1>2, <1>3 DEF Apart, InTx, Holds
<1> QED
  BY <1>1, <1>2, <1>4, <1>5, <1>6, <1>7, RequestStep

(* Patch, Delete or MarkRead comes in and loads its message.               *)
LEMMA LoadMessageStep ==
  ASSUME WriterInv, NEW q \in Requests, NEW op \in {"patch", "delete", "read"},
         NEW u \in Users, NEW m \in Msgs, NEW t \in Texts \union {None},
         LoadMessage(q, op, u, m, t)
  PROVE  WriterInv'
<1> DEFINE r == [Idle EXCEPT !.pc = "member", !.op = op, !.user = u, !.chat = msg[m].chat,
                             !.msg = m, !.text = t]
<1>1. req' = [req EXCEPT ![q] = r] /\ UNCHANGED <<clock, tableVars, logVars>>
  BY DEF LoadMessage
<1>2. msg[m].state # "free" /\ msg[m].chat \in Chats
  BY DEF LoadMessage, WriterInv, TableInv
<1>3. /\ r \in RequestType /\ r.pc = "member" /\ r.op = op /\ r.user = u
      /\ r.chat = msg[m].chat /\ r.msg = m /\ r.row = 0
  BY <1>2, ConstantsAssumption DEF RequestType, Idle
<1> HIDE DEF r
<1>4. req'[q] = r
  BY <1>1, <1>3, RequestMoves DEF WriterInv
<1>5. clock \in 0..MaxTx /\ clock <= clock'
  BY <1>1 DEF WriterInv, TypeOK
<1>6. CountInv'
  BY <1>1, <1>3, CountKept DEF logVars
<1>7. Informed(q)'
  BY <1>1, <1>2, <1>3, <1>4 DEF Informed, InTx, Holds, tableVars
<1>8. \A p \in Requests : p # q => Apart(p, q)'
  BY <1>3, <1>4 DEF Apart, InTx, Holds
<1> QED
  BY <1>1, <1>3, <1>5, <1>6, <1>7, <1>8, RequestStep

(* A check lets the request pass, to the Begin of its transaction.         *)
LEMMA PassStep ==
  ASSUME WriterInv, NEW q \in Requests, req[q].pc \in {"reply", "member"},
         Goto(q, "begin"), UNCHANGED <<clock, tableVars, logVars>>
  PROVE  WriterInv'
<1> DEFINE r == [req[q] EXCEPT !.pc = "begin"]
<1>1. req' = [req EXCEPT ![q] = r]
  BY DEF Goto
<1>2. req[q] \in RequestType /\ req[q].row = 0
  BY DEF WriterInv, TypeOK
<1>3. /\ r \in RequestType /\ r.pc = "begin" /\ r.op = req[q].op /\ r.user = req[q].user
      /\ r.chat = req[q].chat /\ r.msg = req[q].msg /\ r.row = 0
  BY <1>2 DEF RequestType
<1> HIDE DEF r
<1>4. req'[q] = r
  BY <1>1, <1>3, RequestMoves DEF WriterInv
<1>5. clock \in 0..MaxTx /\ clock <= clock'
  BY DEF WriterInv, TypeOK
<1>6. CountInv'
  BY <1>1, <1>3, CountKept DEF logVars
<1>7. Informed(q)
  BY DEF WriterInv, RequestInv
<1>8. Informed(q)'
  BY <1>3, <1>4, <1>7 DEF Informed, InTx, Holds, tableVars
<1>9. \A p \in Requests : p # q => Apart(p, q)'
  BY <1>3, <1>4 DEF Apart, InTx, Holds
<1> QED
  BY <1>1, <1>3, <1>5, <1>6, <1>8, <1>9, RequestStep

(* A transaction begins; its number is one that no message has.            *)
LEMMA BeginStep ==
  ASSUME WriterInv, NEW q \in Requests, Begin(q)
  PROVE  WriterInv'
<1> DEFINE n == IF req[q].op = "create" THEN clock + 1 ELSE req[q].msg
           r == [req[q] EXCEPT !.pc = "update", !.msg = n]
<1>1. /\ req' = [req EXCEPT ![q] = r] /\ req[q].pc = "begin"
      /\ clock < MaxTx /\ clock' = clock + 1 /\ UNCHANGED <<tableVars, logVars>>
  BY DEF Begin
<1>2. clock \in Nat /\ clock + 1 \in Msgs /\ clock + 1 \in 0..MaxTx /\ clock <= clock'
  BY <1>1, ConstantsAssumption DEF WriterInv, TypeOK, Msgs
<1>3. req[q] \in RequestType /\ req[q].row = 0
  BY <1>1 DEF WriterInv, TypeOK
<1>4. /\ r \in RequestType /\ r.pc = "update" /\ r.op = req[q].op /\ r.user = req[q].user
      /\ r.chat = req[q].chat /\ r.row = 0
      /\ r.msg = n
  <2>1. n \in {0} \union Msgs
    BY <1>2, <1>3 DEF RequestType
  <2> HIDE DEF n
  <2> QED
    BY <1>3, <2>1 DEF RequestType
<1> HIDE DEF r
<1>5. /\ req'[q] = r
      /\ \A p \in Requests : p # q => req'[p] = req[p]
  BY <1>1, <1>4, RequestMoves DEF WriterInv
<1>6. CountInv'
  <2>1. q \notin Running
    BY <1>1 DEF Running
  <2>2. seq \in Nat /\ seq + Cardinality(Running) <= clock /\ seq' = seq
    BY <1>1 DEF WriterInv, TypeOK, CountInv, logVars
  <2>3. /\ IsFiniteSet(Running') /\ Cardinality(Running) \in Nat
        /\ Cardinality(Running') = Cardinality(Running) + 1
    BY <1>1, <1>4, <2>1, RunningMoves
  <2>4. seq' + Cardinality(Running') <= clock'
    BY <1>1, <1>2, <2>2, <2>3
  <2> QED
    BY <2>3, <2>4 DEF CountInv
<1>7. Informed(q)
  BY DEF WriterInv, RequestInv
<1>8. Informed(q)'
  <2>1. msg[clock + 1].state = "free"
    BY <1>2 DEF WriterInv, TableInv
  <2>2. msg' = msg /\ ~Holds(q)' /\ clock + 1 \in 1..clock'
    BY <1>1, <1>2, <1>4, <1>5 DEF tableVars, Holds
  <2> QED
    BY <1>1, <1>4, <1>5, <1>7, <2>1, <2>2 DEF Informed
<1>9. \A p \in Requests : p # q => Apart(p, q)'
  <2> SUFFICES ASSUME NEW p \in Requests, p # q PROVE Apart(p, q)'
    OBVIOUS
  <2>1. req'[p] = req[p] /\ Informed(p)
    BY <1>5 DEF WriterInv, RequestInv
  <2>2. InTx(p)' /\ req'[p].op = "create" => req'[p].msg \in 1..clock
    BY <2>1 DEF Informed, InTx
  <2> QED
    BY <1>2, <1>4, <1>5, <2>2 DEF Apart, Holds
<1> QED
  BY <1>1, <1>2, <1>4, <1>6, <1>8, <1>9, RequestStep

(* UPDATE: the row is free, and matches, so q holds its lock.              *)
LEMMA UpdateRowStep ==
  ASSUME WriterInv, NEW q \in Requests, UpdateRow(q)
  PROVE  WriterInv'
<1>1. CASE ~RowMatches(q)
  BY <1>1, FinishStep DEF UpdateRow
<1>2. CASE RowMatches(q)
  <2> DEFINE r == [req[q] EXCEPT !.pc = "outbox"]
  <2>1. /\ req' = [req EXCEPT ![q] = r] /\ req[q].pc = "update"
        /\ Resource(q) \notin Locked /\ UNCHANGED <<clock, tableVars, logVars>>
    BY <1>2 DEF UpdateRow, Goto
  <2>2. req[q] \in RequestType /\ req[q].row = 0
    BY <2>1 DEF WriterInv, TypeOK
  <2>3. /\ r \in RequestType /\ r.pc = "outbox" /\ r.op = req[q].op /\ r.user = req[q].user
        /\ r.chat = req[q].chat /\ r.msg = req[q].msg /\ r.row = 0
    BY <2>2 DEF RequestType
  <2> HIDE DEF r
  <2>4. /\ req'[q] = r
        /\ \A p \in Requests : p # q => req'[p] = req[p]
    BY <2>1, <2>3, RequestMoves DEF WriterInv
  <2>5. clock \in 0..MaxTx /\ clock <= clock'
    BY <2>1 DEF WriterInv, TypeOK
  <2>6. CountInv'
    <3>1. q \in Running
      BY <2>1 DEF Running
    <3> QED
      BY <2>1, <2>3, <3>1, CountKept DEF logVars
  <2>7. Informed(q) /\ InTx(q)
    BY <2>1 DEF WriterInv, RequestInv, InTx
  <2>8. Informed(q)'
    <3>1. RowMatches(q)'
      BY <1>2, <2>1, <2>3, <2>4 DEF RowMatches, tableVars
    <3> QED
      BY <2>1, <2>3, <2>4, <2>7, <3>1 DEF Informed, tableVars
  <2>9. \A p \in Requests : p # q => Apart(p, q)'
    <3> SUFFICES ASSUME NEW p \in Requests, p # q PROVE Apart(p, q)'
      OBVIOUS
    <3>1. req'[p] = req[p] /\ Apart(p, q)
      BY <2>4 DEF WriterInv, RequestInv
    <3>2. Resource(q)' = Resource(q) /\ Resource(p)' = Resource(p)
      BY <2>3, <2>4, <3>1 DEF Resource
    <3>3. Holds(p)' => Resource(p)' # Resource(q)'
      BY <2>1, <3>1, <3>2, HoldsLocked DEF Holds
    <3> QED
      BY <2>3, <2>4, <2>7, <3>1, <3>3 DEF Apart, InTx
  <2> QED
    BY <2>1, <2>3, <2>5, <2>6, <2>8, <2>9, RequestStep
<1> QED
  BY <1>1, <1>2

-----------------------------------------------------------------------------
(***************************************************************************)
(* Steps on the log and on the memberships.                                *)
(***************************************************************************)

(* The outbox has room for the event of every transaction that has begun.  *)
LEMMA RoomForEvent ==
  ASSUME WriterInv, NEW q \in Requests, req[q].pc = "outbox"
  PROVE  /\ seq + 1 \in Rows /\ tx[seq + 1] = "free" /\ seq \in Nat
         /\ \A i \in Rows : tx[i] # "free" => i < seq + 1
<1>1. q \in Running /\ IsFiniteSet(Running)
  BY DEF WriterInv, Running, CountInv
<1>2. Cardinality(Running) \in Nat /\ Cardinality(Running) # 0
  BY <1>1, FS_CardinalityType, FS_EmptySet
<1>3. seq \in Nat /\ clock \in 0..MaxTx /\ seq + Cardinality(Running) <= clock
  BY ConstantsAssumption DEF WriterInv, TypeOK, CountInv
<1>4. seq + 1 \in Rows
  BY <1>2, <1>3, ConstantsAssumption DEF Rows
<1>5. \A i \in Rows : tx[i] = "free" <=> seq < i
  BY DEF WriterInv, TableInv
<1>6. tx[seq + 1] = "free"
  BY <1>3, <1>4, <1>5
<1>7. \A i \in Rows : i \in Nat /\ (~(seq < i) => i < seq + 1)
  BY <1>3 DEF Rows
<1> QED
  BY <1>3, <1>4, <1>5, <1>6, <1>7

(* The event takes an id above all those that are committed.               *)
LEMMA InsertOutboxStep ==
  ASSUME WriterInv, NEW q \in Requests, InsertOutboxTx(q)
  PROVE  WriterInv'
<1> DEFINE i == seq + 1
           e == [type |-> EventType(req[q].op), msg |-> req[q].msg,
                 user |-> req[q].user, text |-> req[q].text]
           r == [req[q] EXCEPT !.pc = "commit", !.row = i]
<1>1. /\ req[q].pc = "outbox" /\ seq' = i /\ tx' = [tx EXCEPT ![i] = "open"]
      /\ chat' = [chat EXCEPT ![i] = req[q].chat] /\ event' = [event EXCEPT ![i] = e]
      /\ req' = [req EXCEPT ![q] = r]
      /\ UNCHANGED <<clock, msg, member, cursor, last, prior>>
  BY DEF InsertOutboxTx, tableVars
<1>2. /\ i \in Rows /\ tx[i] = "free" /\ seq \in Nat /\ i \in Nat
      /\ \A k \in Rows : tx[k] # "free" => k < i
  BY <1>1, RoomForEvent
<1>3. req[q] \in RequestType /\ Informed(q) /\ Holds(q) /\ InTx(q) /\ TypeOK
  BY <1>1 DEF WriterInv, TypeOK, RequestInv, Holds, InTx
<1>4. /\ r \in RequestType /\ r.pc = "commit" /\ r.op = req[q].op /\ r.user = req[q].user
      /\ r.chat = req[q].chat /\ r.msg = req[q].msg /\ r.row = i /\ r.text = req[q].text
  <2> HIDE DEF i
  <2> QED
    BY <1>2, <1>3 DEF RequestType
<1>5. req[q].op \in {"create", "patch", "delete", "read"} /\ req[q].chat \in Chats
  BY <1>1, <1>3 DEF Informed, RequestType
<1>6. /\ req' \in [Requests -> RequestType] /\ req'[q] = r
      /\ \A p \in Requests : p # q => req'[p] = req[p]
  <2> HIDE DEF r
  <2> QED
    BY <1>1, <1>3, <1>4, RequestMoves
<1>7. e \in [type : {"none", "created", "updated", "deleted", "read_receipt"},
             msg : {0} \union Msgs, user : Users \union {None}, text : Texts \union {None}]
  BY <1>3, <1>5 DEF EventType, RequestType
<1> HIDE DEF r, e
<1>8. tx \in [Rows -> {"free", "open", "committed", "aborted"}]
  BY <1>3 DEF TypeOK
<1>9. /\ tx'[i] = "open" /\ \A k \in Rows : k # i => tx'[k] = tx[k]
      /\ chat'[i] = req[q].chat /\ \A k \in Rows : k # i => chat'[k] = chat[k]
      /\ event'[i] = e /\ \A k \in Rows : k # i => event'[k] = event[k]
  <2> HIDE DEF i
  <2> QED
    BY <1>1, <1>2, <1>3 DEF TypeOK
<1> HIDE DEF i
<1>10. \A p \in Requests : p # q /\ req[p].pc = "commit" =>
         req[p].row \in Rows /\ req[p].row # i /\ tx[req[p].row] = "open"
  <2> SUFFICES ASSUME NEW p \in Requests, req[p].pc = "commit"
               PROVE  req[p].row \in Rows /\ req[p].row # i /\ tx[req[p].row] = "open"
    OBVIOUS
  <2>1. req[p].row \in Rows /\ tx[req[p].row] = "open"
    BY <1>3 DEF TypeOK, RequestType
  <2> QED
    BY <1>2, <2>1
<1>11. TypeOK'
  <2>1. /\ i \in 0..MaxTx
        /\ tx' \in [Rows -> {"free", "open", "committed", "aborted"}]
        /\ chat' \in [Rows -> Chats \union {NoChat}]
        /\ event' \in [Rows -> [type : {"none", "created", "updated", "deleted", "read_receipt"},
                                msg : {0} \union Msgs, user : Users \union {None},
                                text : Texts \union {None}]]
    BY <1>1, <1>2, <1>3, <1>5, <1>7, ConstantsAssumption DEF TypeOK, Rows
  <2>2. i # 0
    BY <1>2 DEF Rows
  <2>3. \A p \in Requests : /\ req'[p].pc = "commit" <=> req'[p].row # 0
                            /\ req'[p].pc = "commit" => tx'[req'[p].row] = "open"
    <3> SUFFICES ASSUME NEW p \in Requests
                 PROVE  /\ req'[p].pc = "commit" <=> req'[p].row # 0
                        /\ req'[p].pc = "commit" => tx'[req'[p].row] = "open"
      OBVIOUS
    <3>1. CASE p = q
      BY <1>4, <1>6, <1>9, <2>2, <3>1
    <3>2. CASE p # q
      BY <1>3, <1>6, <1>9, <1>10, <3>2 DEF TypeOK
    <3> QED
      BY <3>1, <3>2
  <2> QED
    BY <1>1, <1>3, <1>6, <2>1, <2>3 DEF TypeOK
<1>12. CountInv'
  <2>1. q \in Running /\ clock \in Nat /\ seq + Cardinality(Running) <= clock
    BY <1>1, <1>3 DEF Running, WriterInv, CountInv, TypeOK
  <2>2. /\ IsFiniteSet(Running') /\ Cardinality(Running) \in Nat
        /\ Cardinality(Running') = Cardinality(Running) - 1
    BY <1>1, <1>4, <2>1, RunningMoves
  <2>3. seq' + Cardinality(Running') <= clock'
    BY <1>1, <1>2, <2>1, <2>2 DEF i
  <2> QED
    BY <2>2, <2>3 DEF CountInv
<1>13. TableInv'
  <2>1. \A k \in Rows : tx'[k] = "free" <=> seq' < k
    <3> SUFFICES ASSUME NEW k \in Rows PROVE tx'[k] = "free" <=> seq' < k
      OBVIOUS
    <3>1. k \in Nat /\ (tx[k] = "free" <=> seq < k)
      BY DEF WriterInv, TableInv, Rows
    <3> QED
      BY <1>1, <1>2, <1>9, <3>1 DEF i
  <2> QED
    BY <1>1, <2>1 DEF WriterInv, TableInv
<1>14. Committed' = Committed /\ i \notin Committed
  BY <1>2, <1>9 DEF Committed
<1>15. \A k \in Committed : chat'[k] = chat[k] /\ event'[k] = event[k] /\ k < i
  BY <1>2, <1>9, <1>14 DEF Committed
<1>16. /\ \A m : MessageEvents(m)' = MessageEvents(m)
       /\ \A c : Creations(c)' = Creations(c)
       /\ \A c, u : Receipts(c, u)' = Receipts(c, u)
  BY <1>14, <1>15, EventsKept
<1>17. ASSUME NEW p \in Requests PROVE Informed(p)'
  <2>1. Told(p)' = Told(p) /\ (RowMatches(p)' <=> RowMatches(p))
    <3>1. /\ req'[p].op = req[p].op /\ req'[p].chat = req[p].chat
          /\ req'[p].user = req[p].user /\ req'[p].msg = req[p].msg
      BY <1>4, <1>6
    <3> QED
      BY <1>1, <1>16, <3>1 DEF Told, RowMatches
  <2>2. CASE p # q
    <3>1. Informed(p) /\ req'[p] = req[p] /\ clock \in Nat
      BY <1>3, <1>6, <2>2 DEF WriterInv, RequestInv, TypeOK
    <3> QED
      BY <1>1, <1>3, <1>9, <1>10, <2>1, <2>2, <3>1, InformedKept DEF Informed
  <2>3. CASE p = q
    <3>1. \A k \in Told(q)' : k < i
      BY <1>15, <2>1, <2>3 DEF Told, MessageEvents, Creations, Receipts
    <3>2. e = [type |-> EventType(r.op), msg |-> r.msg, user |-> r.user, text |-> r.text]
      BY <1>4 DEF e
    <3> QED
      BY <1>1, <1>3, <1>4, <1>6, <1>9, <2>1, <2>3, <3>1, <3>2 DEF Informed
  <2> QED
    BY <2>2, <2>3
<1>18. ASSUME NEW o \in Requests, NEW p \in Requests, o # p PROVE Apart(o, p)'
  <2>1. Apart(o, p)
    BY <1>18 DEF WriterInv, RequestInv
  <2>2. \A z \in {o, p} : /\ Resource(z)' = Resource(z)
                          /\ InTx(z)' <=> InTx(z)
                          /\ Holds(z)' <=> Holds(z)
                          /\ req'[z].op = req[z].op /\ req'[z].msg = req[z].msg
    BY <1>3, <1>4, <1>6 DEF Resource, InTx, Holds
  <2>3. req'[o].pc = "commit" /\ req'[p].pc = "commit" => req'[o].row # req'[p].row
    BY <1>4, <1>6, <1>10, <1>18, <2>1 DEF Apart
  <2> QED
    BY <2>1, <2>2, <2>3 DEF Apart
<1>19. StoryInv'
  BY <1>1, <1>3, <1>14, <1>15, StoryKept DEF WriterInv
<1> QED
  BY <1>11, <1>12, <1>13, <1>17, <1>18, <1>19 DEF WriterInv, RequestInv

(* The transaction is undone, except for the id it took.                   *)
LEMMA RollbackStep ==
  ASSUME WriterInv, NEW q \in Requests, Rollback(q)
  PROVE  WriterInv'
<1>1. CASE req[q].pc # "commit"
  BY <1>1, FinishStep DEF Rollback, logVars
<1>2. CASE req[q].pc = "commit"
  <2> DEFINE i == req[q].row
  <2>1. /\ req' = [req EXCEPT ![q] = Idle] /\ tx' = [tx EXCEPT ![i] = "aborted"]
        /\ UNCHANGED <<clock, msg, member, cursor, last, seq, chat, event, prior>>
    BY <1>2 DEF Rollback, Finish, tableVars
  <2>2. TypeOK /\ i \in Rows /\ tx[i] = "open"
    BY <1>2 DEF WriterInv, TypeOK, RequestType
  <2>3. /\ req' \in [Requests -> RequestType] /\ req'[q] = Idle
        /\ \A p \in Requests : p # q => req'[p] = req[p]
    BY <2>1, <2>2, IdleType, RequestMoves
  <2> HIDE DEF i
  <2>4. tx'[i] = "aborted" /\ \A k \in Rows : k # i => tx'[k] = tx[k]
    BY <2>1, <2>2 DEF TypeOK
  <2>5. \A p \in Requests : p # q /\ req[p].pc = "commit" => req[p].row # i /\ req[p].row \in Rows
    BY <1>2, <2>2 DEF WriterInv, RequestInv, Apart, TypeOK, RequestType, i
  <2>6. TypeOK'
    <3>1. tx' \in [Rows -> {"free", "open", "committed", "aborted"}]
      BY <2>1, <2>2 DEF TypeOK
    <3>2. \A p \in Requests : /\ req'[p].pc = "commit" <=> req'[p].row # 0
                              /\ req'[p].pc = "commit" => tx'[req'[p].row] = "open"
      BY <2>2, <2>3, <2>4, <2>5, IdleType DEF TypeOK
    <3> QED
      BY <2>1, <2>2, <2>3, <3>1, <3>2 DEF TypeOK
  <2>7. CountInv'
    BY <2>1, IdleType, CountKept
  <2>8. TableInv'
    BY <2>1, <2>2, <2>4 DEF WriterInv, TableInv
  <2>9. Committed' = Committed
    BY <2>2, <2>4 DEF Committed
  <2>10. ASSUME NEW p \in Requests PROVE Informed(p)'
    <3>1. CASE p = q
      BY <2>3, <3>1, IdleType DEF Informed, InTx, Holds
    <3>2. CASE p # q
      <4>1. Informed(p) /\ req'[p] = req[p] /\ clock \in Nat
        BY <2>2, <2>3, <3>2 DEF WriterInv, RequestInv, TypeOK
      <4>2. Told(p)' = Told(p) /\ (RowMatches(p)' <=> RowMatches(p))
        <5>1. /\ \A m : MessageEvents(m)' = MessageEvents(m)
              /\ \A c : Creations(c)' = Creations(c)
              /\ \A c, u : Receipts(c, u)' = Receipts(c, u)
          BY <2>1, <2>9, EventsKept
        <5> QED
          BY <2>1, <4>1, <5>1 DEF Told, RowMatches
      <4> QED
        BY <2>1, <2>2, <4>1, <4>2, InformedKept DEF Informed
    <3> QED
      BY <3>1, <3>2
  <2>11. ASSUME NEW o \in Requests, NEW p \in Requests, o # p PROVE Apart(o, p)'
    <3>1. CASE o # q /\ p # q
      BY <2>3, <2>11, <3>1, ApartUntouched DEF WriterInv, RequestInv
    <3>2. CASE o = q \/ p = q
      BY <2>3, <3>2, IdleType DEF Apart, InTx, Holds
    <3> QED
      BY <3>1, <3>2
  <2>12. StoryInv'
    BY <2>1, <2>2, <2>9, StoryKept DEF WriterInv
  <2> QED
    BY <2>6, <2>7, <2>8, <2>10, <2>11, <2>12 DEF WriterInv, RequestInv
<1> QED
  BY <1>1, <1>2

(* A membership comes or goes; one that goes is not locked by a MarkRead.  *)
LEMMA MembershipLemma ==
  ASSUME WriterInv, NEW c \in Chats, NEW u \in Users, AddMember(c, u) \/ RemoveMember(c, u)
  PROVE  WriterInv'
<1>1. UNCHANGED <<clock, msg, last, seq, tx, chat, event, prior, req>>
  BY DEF AddMember, RemoveMember, logVars
<1>2. TypeOK
  BY DEF WriterInv
<1>3. /\ member' \subseteq Chats \X Users
      /\ cursor' \in [Chats \X Users -> {0} \union Msgs]
      /\ \A d \in Chats, v \in Users : <<d, v>> # <<c, u>> =>
           cursor'[<<d, v>>] = cursor[<<d, v>>] /\ (<<d, v>> \in member' <=> <<d, v>> \in member)
      /\ RemoveMember(c, u) => cursor'[<<c, u>>] = 0
      /\ AddMember(c, u) => cursor' = cursor /\ <<c, u>> \in member'
  BY <1>2 DEF TypeOK, AddMember, RemoveMember
<1>4. TypeOK'
  BY <1>1, <1>2, <1>3 DEF TypeOK
<1>5. CountInv' /\ TableInv'
  BY <1>1 DEF WriterInv, CountInv, TableInv, Running
<1>6. Committed' = Committed
  BY <1>1 DEF Committed
<1>7. ASSUME NEW p \in Requests PROVE Informed(p)'
  <2>1. Informed(p) /\ clock \in Nat
    BY <1>2 DEF WriterInv, RequestInv, TypeOK
  <2>2. Told(p)' = Told(p)
    BY <1>1, <1>6 DEF Told, MessageEvents, Creations, Receipts
  <2>3. Holds(p) => RowMatches(p)'
    <3> SUFFICES ASSUME Holds(p), req[p].op = "read"
                 PROVE  <<req[p].chat, req[p].user>> \in member'
      BY <1>1, <2>1 DEF RowMatches, Informed
    <3>1. <<req[p].chat, req[p].user>> \in member /\ req[p].chat \in Chats /\ req[p].user \in Users
      BY <2>1 DEF Informed, RowMatches, Holds
    <3>2. <<"member", req[p].chat, req[p].user>> \in Locked
      <4>1. Resource(p) = <<"member", req[p].chat, req[p].user>>
        BY DEF Resource
      <4> QED
        BY <4>1, HoldsLocked
    <3>3. CASE <<req[p].chat, req[p].user>> # <<c, u>>
      BY <1>3, <3>1, <3>3
    <3>4. CASE <<req[p].chat, req[p].user>> = <<c, u>>
      <4>1. req[p].chat = c /\ req[p].user = u
        BY <3>4
      <4>2. ~RemoveMember(c, u)
        BY <3>2, <4>1 DEF RemoveMember
      <4> QED
        BY <1>3, <3>4, <4>2
    <3> QED
      BY <3>3, <3>4
  <2> QED
    BY <1>1, <1>2, <2>1, <2>2, <2>3, InformedKept DEF Informed
<1>8. \A o, p \in Requests : o # p => Apart(o, p)'
  BY <1>1, ApartUntouched DEF WriterInv, RequestInv
<1>9. StoryInv'
  <2>1. ASSUME NEW d \in Chats, NEW v \in Users, cursor'[<<d, v>>] # 0
        PROVE  cursor'[<<d, v>>] = cursor[<<d, v>>] /\ (<<d, v>> \in member => <<d, v>> \in member')
    <3>1. CASE <<d, v>> # <<c, u>>
      BY <1>3, <3>1
    <3>2. CASE <<d, v>> = <<c, u>>
      BY <1>3, <2>1, <3>2
    <3> QED
      BY <3>1, <3>2
  <2> QED
    BY <1>1, <1>2, <1>6, <2>1, StoryKept DEF WriterInv
<1> QED
  BY <1>4, <1>5, <1>7, <1>8, <1>9 DEF WriterInv, RequestInv

-----------------------------------------------------------------------------
(***************************************************************************)
(* Commit: one event and the change it stands for become visible.          *)
(***************************************************************************)

(* The event that q commits.                                               *)
LEMMA CommittedEvent ==
  ASSUME WriterInv, NEW q \in Requests, Commit(q)
  PROVE  /\ req[q].row \in Rows /\ req[q].row \notin Committed
         /\ Committed' = Committed \union {req[q].row}
         /\ UNCHANGED <<chat, event>>
         /\ chat[req[q].row] = req[q].chat
         /\ event[req[q].row].type = EventType(req[q].op)
         /\ event[req[q].row].msg = req[q].msg
         /\ event[req[q].row].user = req[q].user
         /\ event[req[q].row].text = req[q].text
         /\ \A i \in Told(q) : i < req[q].row
         /\ req[q].op \in {"create", "patch", "delete", "read"}
         /\ req[q].msg \in Msgs /\ req[q].chat \in Chats /\ req[q].user \in Users
<1>1. req[q].pc = "commit" /\ tx' = [tx EXCEPT ![req[q].row] = "committed"]
      /\ UNCHANGED <<chat, event>>
  BY DEF Commit
<1>2. /\ req[q].row \in Rows /\ tx[req[q].row] = "open" /\ req[q] \in RequestType
      /\ tx \in [Rows -> {"free", "open", "committed", "aborted"}] /\ clock \in 0..MaxTx
  BY <1>1 DEF WriterInv, TypeOK, RequestType
<1>3. Committed' = Committed \union {req[q].row} /\ req[q].row \notin Committed
  BY <1>1, <1>2 DEF Committed
<1>4. Informed(q)
  BY DEF WriterInv, RequestInv
<1>5. event[req[q].row] = [type |-> EventType(req[q].op), msg |-> req[q].msg,
                           user |-> req[q].user, text |-> req[q].text]
  BY <1>1, <1>4 DEF Informed
<1>6. /\ chat[req[q].row] = req[q].chat /\ \A i \in Told(q) : i < req[q].row
      /\ req[q].op \in {"create", "patch", "delete", "read"}
      /\ req[q].chat \in Chats /\ req[q].user \in Users
  BY <1>1, <1>2, <1>4 DEF Informed, RequestType
<1>7. req[q].msg \in Msgs
  <2>1. \A m \in 1..clock : m \in Msgs
    BY <1>2, ConstantsAssumption DEF Msgs
  <2> QED
    BY <1>1, <1>4, <1>6, <2>1 DEF Informed, InTx
<1> QED
  BY <1>1, <1>2, <1>3, <1>5, <1>6, <1>7

(* It joins the events about its message, its chat or its member.          *)
LEMMA CommittedSets ==
  ASSUME WriterInv, NEW q \in Requests, Commit(q)
  PROVE  /\ \A m : MessageEvents(m)' = IF req[q].op # "read" /\ m = req[q].msg
                                       THEN MessageEvents(m) \union {req[q].row}
                                       ELSE MessageEvents(m)
         /\ \A c : Creations(c)' = IF req[q].op = "create" /\ c = req[q].chat
                                   THEN Creations(c) \union {req[q].row} ELSE Creations(c)
         /\ \A c, u : Receipts(c, u)' =
              IF req[q].op = "read" /\ c = req[q].chat /\ u = req[q].user
              THEN Receipts(c, u) \union {req[q].row} ELSE Receipts(c, u)
<1> DEFINE i == req[q].row
<1>1. /\ i \notin Committed /\ Committed' = Committed \union {i}
      /\ chat' = chat /\ event' = event
      /\ chat[i] = req[q].chat /\ event[i].msg = req[q].msg /\ event[i].user = req[q].user
      /\ event[i].type = EventType(req[q].op)
      /\ req[q].op \in {"create", "patch", "delete", "read"}
  BY CommittedEvent
<1>2. /\ event[i].type = "read_receipt" <=> req[q].op = "read"
      /\ event[i].type = "created" <=> req[q].op = "create"
  BY <1>1 DEF EventType
<1> HIDE DEF i
<1>3. ASSUME NEW m PROVE MessageEvents(m)' = IF req[q].op # "read" /\ m = req[q].msg
                                             THEN MessageEvents(m) \union {i}
                                             ELSE MessageEvents(m)
  BY <1>1, <1>2 DEF MessageEvents
<1>4. ASSUME NEW c PROVE Creations(c)' = IF req[q].op = "create" /\ c = req[q].chat
                                         THEN Creations(c) \union {i} ELSE Creations(c)
  BY <1>1, <1>2 DEF Creations
<1>5. ASSUME NEW c, NEW u
      PROVE  Receipts(c, u)' = IF req[q].op = "read" /\ c = req[q].chat /\ u = req[q].user
                               THEN Receipts(c, u) \union {i} ELSE Receipts(c, u)
  BY <1>1, <1>2 DEF Receipts
<1> QED
  BY <1>3, <1>4, <1>5 DEF i

(* The change of the message.  A creation takes a number that is free, an  *)
(* edit and a deletion a message that is live.                             *)
LEMMA CommittedMessage ==
  ASSUME WriterInv, NEW q \in Requests, Commit(q)
  PROVE  /\ msg' \in [Msgs -> [state : {"free", "live", "deleted"}, chat : Chats \union {NoChat},
                               sender : Users \union {None}, text : Texts \union {None}]]
         /\ \A m \in Msgs : m # req[q].msg \/ req[q].op = "read" => msg'[m] = msg[m]
         /\ req[q].op = "create" =>
              /\ msg[req[q].msg].state = "free" /\ msg'[req[q].msg].state = "live"
              /\ msg'[req[q].msg].chat = req[q].chat /\ msg'[req[q].msg].text = req[q].text
              /\ req[q].msg <= clock
         /\ req[q].op \in {"patch", "delete"} =>
              msg[req[q].msg].state = "live" /\ msg'[req[q].msg].chat = msg[req[q].msg].chat
         /\ req[q].op = "patch" =>
              msg'[req[q].msg].state = "live" /\ msg'[req[q].msg].text = req[q].text
         /\ req[q].op = "delete" =>
              /\ msg'[req[q].msg].state = "deleted"
              /\ msg'[req[q].msg].text = msg[req[q].msg].text
<1> DEFINE Msg == [state : {"free", "live", "deleted"}, chat : Chats \union {NoChat},
                   sender : Users \union {None}, text : Texts \union {None}]
           r == req[q]
<1>1. /\ msg \in [Msgs -> Msg] /\ r \in RequestType /\ r.pc = "commit" /\ clock \in Nat
      /\ r.msg \in Msgs /\ r.op \in {"create", "patch", "delete", "read"}
  <2>1. msg \in [Msgs -> Msg] /\ r \in RequestType /\ clock \in Nat
    BY DEF WriterInv, TypeOK
  <2>2. r.pc = "commit"
    BY DEF Commit
  <2>3. r.msg \in Msgs /\ r.op \in {"create", "patch", "delete", "read"}
    BY CommittedEvent
  <2> QED
    BY <2>1, <2>2, <2>3
<1>2. Informed(q) /\ InTx(q) /\ Holds(q)
  BY <1>1 DEF WriterInv, RequestInv, InTx, Holds
<1>3. /\ r.op = "create" => msg[r.msg].state = "free" /\ r.msg <= clock
      /\ r.op \in {"patch", "delete"} => msg[r.msg].state = "live"
  <2>1. r.op = "create" => msg[r.msg].state = "free" /\ r.msg \in 1..clock
    BY <1>2 DEF Informed
  <2>2. RowMatches(q)
    BY <1>2 DEF Informed
  <2> QED
    BY <1>1, <2>1, <2>2 DEF RowMatches
<1>4. r.user \in Users \union {None} /\ r.chat \in Chats \union {NoChat}
      /\ r.text \in Texts \union {None}
  BY <1>1 DEF RequestType
<1>5. CASE r.op = "create"
  <2> DEFINE n == [state |-> "live", chat |-> r.chat, sender |-> r.user, text |-> r.text]
  <2>1. msg' = [msg EXCEPT ![r.msg] = n]
    BY <1>5 DEF Commit, ApplyWrite
  <2>2. n \in Msg /\ n.state = "live" /\ n.chat = r.chat /\ n.text = r.text
    BY <1>4
  <2> HIDE DEF n, Msg, r
  <2>3. msg' \in [Msgs -> Msg] /\ msg'[r.msg] = n /\ \A m \in Msgs : m # r.msg => msg'[m] = msg[m]
    BY <1>1, <2>1, <2>2
  <2> QED
    BY <1>3, <1>5, <2>2, <2>3 DEF r, Msg
<1>6. CASE r.op = "patch"
  <2> DEFINE n == [msg[r.msg] EXCEPT !.text = r.text]
  <2>1. msg' = [msg EXCEPT ![r.msg] = n]
    BY <1>6 DEF Commit, ApplyWrite
  <2>2. /\ n \in Msg /\ n.state = msg[r.msg].state /\ n.chat = msg[r.msg].chat
        /\ n.text = r.text
    BY <1>1, <1>4
  <2> HIDE DEF n, Msg, r
  <2>3. msg' \in [Msgs -> Msg] /\ msg'[r.msg] = n /\ \A m \in Msgs : m # r.msg => msg'[m] = msg[m]
    BY <1>1, <2>1, <2>2
  <2> QED
    BY <1>3, <1>6, <2>2, <2>3 DEF r, Msg
<1>7. CASE r.op = "delete"
  <2> DEFINE n == [msg[r.msg] EXCEPT !.state = "deleted"]
  <2>1. msg' = [msg EXCEPT ![r.msg] = n]
    BY <1>7 DEF Commit, ApplyWrite
  <2>2. /\ n \in Msg /\ n.state = "deleted" /\ n.chat = msg[r.msg].chat
        /\ n.text = msg[r.msg].text
    BY <1>1, <1>4
  <2> HIDE DEF n, Msg, r
  <2>3. msg' \in [Msgs -> Msg] /\ msg'[r.msg] = n /\ \A m \in Msgs : m # r.msg => msg'[m] = msg[m]
    BY <1>1, <2>1, <2>2
  <2> QED
    BY <1>3, <1>7, <2>2, <2>3 DEF r, Msg
<1>8. CASE r.op = "read"
  <2>1. msg' = msg
    BY <1>8 DEF Commit, ApplyWrite
  <2> QED
    BY <1>1, <1>8, <2>1
<1> QED
  BY <1>1, <1>5, <1>6, <1>7, <1>8

(* The events of a message still tell its story.                           *)
LEMMA CommitTells ==
  ASSUME WriterInv, NEW q \in Requests, Commit(q), NEW m \in Msgs
  PROVE  Tells(m)'
<1> DEFINE E == MessageEvents(m)
           carrying == {k \in E : event[k].type # "deleted"}
           i == req[q].row
           op == req[q].op
<1>1. Tells(m)
  BY DEF WriterInv, StoryInv, OutboxTellsMessages
<1>2. event' = event /\ op \in {"create", "patch", "delete", "read"} /\ i \in Rows
  BY CommittedEvent
<1>3. CASE m # req[q].msg \/ op = "read"
  <2>1. msg'[m] = msg[m]
    BY <1>3, CommittedMessage
  <2>2. E' = E
    BY <1>3, CommittedSets
  <2> QED
    BY <1>1, <1>2, <2>1, <2>2 DEF Tells
<1>4. CASE m = req[q].msg /\ op # "read"
  <2>1. E' = E \union {i}
    BY <1>4, CommittedSets
  <2>2. event[i].type = EventType(op) /\ event[i].text = req[q].text
    BY CommittedEvent
  <2>3. E \in SUBSET Nat /\ i \in Nat /\ i \notin E
    <3>1. i \notin Committed
      BY CommittedEvent
    <3> QED
      BY <1>2, <3>1, ConstantsAssumption DEF MessageEvents, Committed, Rows
  <2>4. \A k \in E : k < i
    <3>1. CASE op = "create"
      <4>1. msg[m].state = "free"
        BY <1>4, <3>1, CommittedMessage
      <4> QED
        BY <1>1, <4>1 DEF Tells
    <3>2. CASE op # "create"
      <4>1. Told(q) = E
        BY <1>2, <1>4, <3>2 DEF Told
      <4> QED
        BY <4>1, CommittedEvent
    <3> QED
      BY <3>1, <3>2
  <2>5. Max(E') = i /\ Min(E') = IF E = {} THEN i ELSE Min(E)
    BY <2>1, <2>3, <2>4, MaxOfNew, MinOfNew
  <2>6. /\ carrying \in SUBSET Nat /\ \A k \in carrying : k < i
        /\ carrying' = IF event[i].type # "deleted" THEN carrying \union {i} ELSE carrying
    BY <1>2, <2>1, <2>3, <2>4
  <2>7. event[i].type # "deleted" => Max(carrying') = i
    BY <2>3, <2>6, MaxOfNew
  <2> HIDE DEF E, i, op
  <2>8. CASE op = "create"
    <3>1. msg[m].state = "free" /\ msg'[m].state = "live" /\ msg'[m].text = req[q].text
      BY <1>4, <2>8, CommittedMessage DEF op
    <3>2. E = {} /\ event[i].type = "created"
      BY <1>1, <2>2, <2>8, <3>1 DEF Tells, E, EventType
    <3>3. /\ msg'[m].state # "free" /\ E' # {}
          /\ \A k \in E' : event'[k].type = "created" <=> k = Min(E')
          /\ \A k \in E' : event'[k].type # "deleted"
          /\ msg'[m].state # "deleted"
          /\ msg'[m].text = event'[Max(carrying')].text
      BY <1>2, <2>1, <2>2, <2>5, <2>7, <3>1, <3>2
    <3> QED
      BY <3>3 DEF Tells, E
  <2>9. ASSUME op # "create" PROVE
          /\ E # {} /\ msg[m].state = "live"
          /\ \A k \in E : event[k].type = "created" <=> k = Min(E)
          /\ \A k \in E : event[k].type # "deleted"
          /\ Min(E') = Min(E) /\ Min(E) # i
          /\ msg[m].text = event[Max(carrying)].text
    <3>1. msg[m].state = "live"
      BY <1>2, <1>4, <2>9, CommittedMessage DEF op
    <3>2. E # {}
      BY <1>1, <3>1 DEF Tells, E
    <3>3. Min(E) \in E
      <4>1. E \in SUBSET Rows
        BY DEF E, MessageEvents, Committed
      <4> QED
        BY <3>2, <4>1, MinMaxInSet
    <3>4. /\ \A k \in E : event[k].type = "created" <=> k = Min(E)
          /\ \A k \in E : event[k].type = "deleted" => msg[m].state = "deleted"
          /\ msg[m].text = event[Max(carrying)].text
      BY <1>1, <3>2 DEF Tells, E
    <3> QED
      BY <2>3, <2>5, <3>1, <3>2, <3>3, <3>4
  <2>10. CASE op = "patch"
    <3>1. msg'[m].state = "live" /\ msg'[m].text = req[q].text
      BY <1>4, <2>10, CommittedMessage DEF op
    <3>2. event[i].type = "updated"
      BY <2>2, <2>10 DEF EventType
    <3>3. /\ msg'[m].state # "free" /\ E' # {}
          /\ \A k \in E' : event'[k].type = "created" <=> k = Min(E')
          /\ \A k \in E' : event'[k].type # "deleted"
          /\ msg'[m].state # "deleted"
          /\ msg'[m].text = event'[Max(carrying')].text
      BY <1>2, <2>1, <2>2, <2>7, <2>9, <2>10, <3>1, <3>2
    <3> QED
      BY <3>3 DEF Tells, E
  <2>11. CASE op = "delete"
    <3>1. msg'[m].state = "deleted" /\ msg'[m].text = msg[m].text
      BY <1>4, <2>11, CommittedMessage DEF op
    <3>2. event[i].type = "deleted"
      BY <2>2, <2>11 DEF EventType
    <3>3. /\ msg'[m].state # "free" /\ E' # {}
          /\ \A k \in E' : event'[k].type = "created" <=> k = Min(E')
          /\ \A k \in E' : event'[k].type = "deleted" => k = Max(E')
          /\ event'[Max(E')].type = "deleted"
      BY <1>2, <2>1, <2>5, <2>9, <2>11, <3>1, <3>2
    <3>4. msg'[m].text = event'[Max(carrying')].text
      BY <1>2, <2>6, <2>9, <2>11, <3>1, <3>2
    <3> QED
      BY <3>1, <3>3, <3>4 DEF Tells, E
  <2> QED
    BY <1>2, <1>4, <2>8, <2>10, <2>11 DEF op
<1> QED
  BY <1>3, <1>4

(* The last message of a chat and the read marks follow their events.      *)
LEMMA CommitLast ==
  ASSUME WriterInv, NEW q \in Requests, Commit(q)
  PROVE  LastMessageFollowsOutbox' /\ last' \in [Chats -> {0} \union Msgs]
<1> DEFINE i == req[q].row
<1>1. /\ req[q].op = "create" => last' = [last EXCEPT ![req[q].chat] = req[q].msg]
      /\ req[q].op # "create" => last' = last
  BY DEF Commit, ApplyWrite
<1>2. /\ event' = event /\ i \in Rows /\ event[i].msg = req[q].msg
      /\ req[q].chat \in Chats /\ req[q].msg \in Msgs
  BY CommittedEvent
<1>3. last \in [Chats -> {0} \union Msgs]
  BY DEF WriterInv, TypeOK
<1>4. ASSUME NEW c \in Chats
      PROVE  last'[c] = IF Creations(c)' = {} THEN 0 ELSE event'[Max(Creations(c)')].msg
  <2>1. last[c] = IF Creations(c) = {} THEN 0 ELSE event[Max(Creations(c))].msg
    BY DEF WriterInv, StoryInv, LastMessageFollowsOutbox
  <2>2. CASE req[q].op # "create" \/ c # req[q].chat
    <3>1. Creations(c)' = Creations(c)
      BY <2>2, CommittedSets
    <3>2. last'[c] = last[c]
      BY <1>1, <1>2, <1>3, <2>2
    <3> QED
      BY <1>2, <2>1, <3>1, <3>2
  <2>3. CASE req[q].op = "create" /\ c = req[q].chat
    <3>1. Creations(c)' = Creations(c) \union {i}
      BY <2>3, CommittedSets
    <3>2. \A k \in Creations(c) : k < i
      <4>1. Told(q) = Creations(c)
        BY <2>3 DEF Told
      <4> QED
        BY <4>1, CommittedEvent
    <3>3. Creations(c) \in SUBSET Nat /\ i \in Nat
      BY <1>2, ConstantsAssumption DEF Creations, Committed, Rows
    <3>4. Max(Creations(c)') = i /\ Creations(c)' # {}
      BY <3>1, <3>2, <3>3, MaxOfNew
    <3>5. last'[c] = req[q].msg
      BY <1>1, <1>2, <1>3, <2>3
    <3> QED
      BY <1>2, <3>4, <3>5
  <2> QED
    BY <2>2, <2>3
<1>5. last' \in [Chats -> {0} \union Msgs]
  BY <1>1, <1>2, <1>3
<1> QED
  BY <1>4, <1>5 DEF LastMessageFollowsOutbox

(* MarkRead holds the row of the member, so the membership is still there. *)
LEMMA CommitCursor ==
  ASSUME WriterInv, NEW q \in Requests, Commit(q)
  PROVE  CursorFollowsReceipts' /\ cursor' \in [Chats \X Users -> {0} \union Msgs]
<1> DEFINE i == req[q].row
           key == <<req[q].chat, req[q].user>>
<1>1. /\ req[q].op = "read" => cursor' = [cursor EXCEPT ![key] = req[q].msg]
      /\ req[q].op # "read" => cursor' = cursor
      /\ member' = member /\ req[q].pc = "commit"
  BY DEF Commit, ApplyWrite
<1>2. /\ event' = event /\ i \in Rows /\ event[i].msg = req[q].msg
      /\ req[q].chat \in Chats /\ req[q].user \in Users /\ req[q].msg \in Msgs
  BY CommittedEvent
<1>3. cursor \in [Chats \X Users -> {0} \union Msgs]
  BY DEF WriterInv, TypeOK
<1>4. ASSUME NEW c \in Chats, NEW u \in Users, cursor'[<<c, u>>] # 0
      PROVE  /\ Receipts(c, u)' # {} /\ cursor'[<<c, u>>] = event'[Max(Receipts(c, u)')].msg
             /\ <<c, u>> \in member'
  <2>1. CASE req[q].op # "read" \/ c # req[q].chat \/ u # req[q].user
    <3>1. Receipts(c, u)' = Receipts(c, u)
      BY <2>1, CommittedSets
    <3>2. cursor'[<<c, u>>] = cursor[<<c, u>>]
      BY <1>1, <1>2, <1>3, <2>1
    <3>3. /\ Receipts(c, u) # {} /\ cursor[<<c, u>>] = event[Max(Receipts(c, u))].msg
          /\ <<c, u>> \in member
      BY <1>4, <3>2 DEF WriterInv, StoryInv, CursorFollowsReceipts
    <3> QED
      BY <1>1, <1>2, <3>1, <3>2, <3>3
  <2>2. CASE req[q].op = "read" /\ c = req[q].chat /\ u = req[q].user
    <3>1. Receipts(c, u)' = Receipts(c, u) \union {i}
      BY <2>2, CommittedSets
    <3>2. \A k \in Receipts(c, u) : k < i
      <4>1. Told(q) = Receipts(c, u)
        BY <2>2 DEF Told
      <4> QED
        BY <4>1, CommittedEvent
    <3>3. Receipts(c, u) \in SUBSET Nat /\ i \in Nat
      BY <1>2, ConstantsAssumption DEF Receipts, Committed, Rows
    <3>4. Max(Receipts(c, u)') = i /\ Receipts(c, u)' # {}
      BY <3>1, <3>2, <3>3, MaxOfNew
    <3>5. cursor'[<<c, u>>] = req[q].msg
      BY <1>1, <1>2, <1>3, <2>2
    <3>6. <<c, u>> \in member
      <4>1. Informed(q) /\ Holds(q)
        BY <1>1 DEF WriterInv, RequestInv, Holds
      <4> QED
        BY <2>2, <4>1 DEF Informed, RowMatches
    <3> QED
      BY <1>1, <1>2, <3>4, <3>5, <3>6
  <2> QED
    BY <2>1, <2>2
<1>5. cursor' \in [Chats \X Users -> {0} \union Msgs]
  BY <1>1, <1>2, <1>3
<1> QED
  BY <1>4, <1>5 DEF CursorFollowsReceipts

(* What another request knows stays true: had q changed its row, the two   *)
(* would have held one lock.                                               *)
LEMMA CommitInformed ==
  ASSUME WriterInv, NEW q \in Requests, Commit(q), NEW p \in Requests, p # q, req'[p] = req[p]
  PROVE  Informed(p)'
<1>1. /\ TypeOK /\ Informed(p) /\ Apart(p, q) /\ Holds(q) /\ InTx(q)
      /\ clock' = clock /\ member' = member
  BY DEF WriterInv, RequestInv, Commit, Holds, InTx
<1>2. /\ chat' = chat /\ event' = event
      /\ req[q].op \in {"create", "patch", "delete", "read"} /\ req[q].msg \in Msgs
  BY CommittedEvent
<1>3. /\ req[q].op = "create" => msg[req[q].msg].state = "free"
      /\ req[q].op \in {"patch", "delete"} =>
           msg[req[q].msg].state = "live" /\ msg'[req[q].msg].state # "free"
      /\ \A m \in Msgs : m # req[q].msg \/ req[q].op = "read" => msg'[m] = msg[m]
  <2>1. /\ req[q].op = "create" => msg[req[q].msg].state = "free"
        /\ req[q].op \in {"patch", "delete"} => msg[req[q].msg].state = "live"
        /\ req[q].op = "patch" => msg'[req[q].msg].state = "live"
        /\ req[q].op = "delete" => msg'[req[q].msg].state = "deleted"
        /\ \A m \in Msgs : m # req[q].msg \/ req[q].op = "read" => msg'[m] = msg[m]
    BY CommittedMessage
  <2> QED
    BY <2>1
<1>4. Holds(p) => Resource(p) # Resource(q)
  BY <1>1 DEF Apart
<1>5. /\ req[p].op \in {"none", "create", "patch", "delete", "read"} /\ clock \in 0..MaxTx
      /\ req[p].op \in {"patch", "delete", "read"} =>
           req[p].msg \in Msgs /\ msg[req[p].msg].state # "free"
      /\ req[p].op = "create" /\ InTx(p) => req[p].msg \in Msgs /\ msg[req[p].msg].state = "free"
  <2>1. clock \in 0..MaxTx /\ req[p].op \in {"none", "create", "patch", "delete", "read"}
    BY <1>1 DEF TypeOK, RequestType
  <2>2. \A m \in 1..clock : m \in Msgs
    BY <2>1, ConstantsAssumption DEF Msgs
  <2> QED
    BY <1>1, <2>1, <2>2 DEF Informed
<1>6. req[p].op \in {"patch", "delete", "read"} => msg'[req[p].msg].state # "free"
  BY <1>2, <1>3, <1>5
<1>7. req[p].op = "create" /\ InTx(p) => msg'[req[p].msg].state = "free"
  <2>1. req[p].op = "create" /\ InTx(p) /\ req[q].op = "create" => req[p].msg # req[q].msg
    BY <1>1 DEF Apart
  <2> QED
    BY <1>2, <1>3, <1>5, <2>1
(* A message that p holds the lock of is not the one that q changes.       *)
<1>8. Holds(p) /\ req[p].op \in {"patch", "delete"} => req[p].msg # req[q].msg \/ req[q].op = "read"
  <2> SUFFICES ASSUME Holds(p), req[p].op \in {"patch", "delete"}, req[p].msg = req[q].msg,
                      req[q].op # "read"
               PROVE  FALSE
    OBVIOUS
  <2>1. req[q].op \in {"patch", "delete"}
    BY <1>2, <1>3, <1>5
  <2>2. Resource(p) = <<"message", req[p].msg>> /\ Resource(q) = <<"message", req[q].msg>>
    BY <2>1 DEF Resource
  <2> QED
    BY <1>4, <2>2
<1>9. Holds(p) => RowMatches(p)'
  <2> SUFFICES ASSUME Holds(p) PROVE RowMatches(p)'
    OBVIOUS
  <2>1. RowMatches(p)
    BY <1>1 DEF Informed
  <2>2. req[p].op \in {"patch", "delete"} => msg'[req[p].msg] = msg[req[p].msg]
    BY <1>3, <1>5, <1>8
  <2> QED
    BY <1>1, <2>1, <2>2 DEF RowMatches
<1>10. Holds(p) => Told(p)' = Told(p)
  <2> SUFFICES ASSUME Holds(p) PROVE Told(p)' = Told(p)
    OBVIOUS
  <2>1. req[p].op # "none"
    BY <1>1 DEF Informed, Holds
  <2>2. CASE req[p].op = "create"
    <3>1. req[q].op = "create" => req[p].chat # req[q].chat
      BY <1>4, <2>2 DEF Resource
    <3>2. Creations(req[p].chat)' = Creations(req[p].chat)
      BY <3>1, CommittedSets
    <3> QED
      BY <2>2, <3>2 DEF Told
  <2>3. CASE req[p].op = "read"
    <3>1. req[q].op = "read" => req[p].chat # req[q].chat \/ req[p].user # req[q].user
      BY <1>4, <2>3 DEF Resource
    <3>2. Receipts(req[p].chat, req[p].user)' = Receipts(req[p].chat, req[p].user)
      BY <3>1, CommittedSets
    <3> QED
      BY <2>3, <3>2 DEF Told
  <2>4. CASE req[p].op \in {"patch", "delete"}
    <3>1. MessageEvents(req[p].msg)' = MessageEvents(req[p].msg)
      BY <1>8, <2>4, CommittedSets
    <3> QED
      BY <2>4, <3>1 DEF Told
  <2> QED
    BY <1>5, <2>1, <2>2, <2>3, <2>4
<1>11. req[p].pc = "commit" => \A k \in Told(p)' : k < req[p].row
  BY <1>1, <1>10 DEF Informed, Holds
<1>12. clock' \in Nat /\ clock <= clock'
  BY <1>1, <1>5
<1> QED
  BY <1>1, <1>2, <1>6, <1>7, <1>9, <1>11, <1>12, InformedKept

(* A commit keeps the invariant, and changes no deleted message.           *)
LEMMA CommitStep ==
  ASSUME WriterInv, NEW q \in Requests, Commit(q)
  PROVE  WriterInv' /\ DeletedStay
<1> DEFINE i == req[q].row
<1>1. /\ req' = [req EXCEPT ![q] = Idle] /\ tx' = [tx EXCEPT ![i] = "committed"]
      /\ prior' = [prior EXCEPT ![i] = {k \in Committed : k < i}]
      /\ UNCHANGED <<clock, member, seq, chat, event>> /\ req[q].pc = "commit"
  BY DEF Commit, Finish
<1>2. TypeOK /\ i \in Rows /\ tx[i] = "open"
  BY <1>1 DEF WriterInv, TypeOK, RequestType
<1>3. /\ req' \in [Requests -> RequestType] /\ req'[q] = Idle
      /\ \A p \in Requests : p # q => req'[p] = req[p]
  BY <1>1, <1>2, IdleType, RequestMoves
<1> HIDE DEF i
<1>4. tx'[i] = "committed" /\ \A k \in Rows : k # i => tx'[k] = tx[k]
  BY <1>1, <1>2 DEF TypeOK
<1>5. \A p \in Requests : p # q /\ req[p].pc = "commit" => req[p].row # i /\ req[p].row \in Rows
  BY <1>1, <1>2 DEF WriterInv, RequestInv, Apart, TypeOK, RequestType, i
<1>6. TypeOK'
  <2>1. tx' \in [Rows -> {"free", "open", "committed", "aborted"}]
    BY <1>1, <1>2 DEF TypeOK
  <2>2. prior' \in [Rows -> SUBSET Rows]
    <3>1. {k \in Committed : k < i} \in SUBSET Rows
      BY DEF Committed
    <3> QED
      BY <1>1, <1>2, <3>1 DEF TypeOK
  <2>3. \A p \in Requests : /\ req'[p].pc = "commit" <=> req'[p].row # 0
                            /\ req'[p].pc = "commit" => tx'[req'[p].row] = "open"
    BY <1>2, <1>3, <1>4, <1>5, IdleType DEF TypeOK
  <2>4. /\ msg' \in [Msgs -> [state : {"free", "live", "deleted"}, chat : Chats \union {NoChat},
                              sender : Users \union {None}, text : Texts \union {None}]]
        /\ last' \in [Chats -> {0} \union Msgs]
        /\ cursor' \in [Chats \X Users -> {0} \union Msgs]
    BY CommittedMessage, CommitLast, CommitCursor
  <2> QED
    BY <1>1, <1>2, <1>3, <2>1, <2>2, <2>3, <2>4 DEF TypeOK
<1>7. CountInv'
  BY <1>1, IdleType, CountKept
<1>8. ASSUME NEW m \in Msgs
      PROVE  /\ IF msg'[m].state = "free" THEN msg'[m] = NoMessage
                                          ELSE m <= clock' /\ msg'[m].chat \in Chats
             /\ msg[m].state = "deleted" => msg'[m] = msg[m]
  <2>1. IF msg[m].state = "free" THEN msg[m] = NoMessage ELSE m <= clock /\ msg[m].chat \in Chats
    BY DEF WriterInv, TableInv
  <2>2. CASE m # req[q].msg \/ req[q].op = "read"
    <3>1. msg'[m] = msg[m]
      BY <2>2, CommittedMessage
    <3> QED
      BY <1>1, <2>1, <3>1
  <2>3. CASE m = req[q].msg /\ req[q].op = "create"
    <3>1. /\ msg[m].state = "free" /\ msg'[m].state = "live"
          /\ msg'[m].chat = req[q].chat /\ m <= clock
      BY <2>3, CommittedMessage
    <3>2. req[q].chat \in Chats
      BY CommittedEvent
    <3> QED
      BY <1>1, <3>1, <3>2
  <2>4. CASE m = req[q].msg /\ req[q].op \in {"patch", "delete"}
    <3>1. /\ msg[m].state = "live" /\ msg'[m].chat = msg[m].chat
          /\ req[q].op = "patch" => msg'[m].state = "live"
          /\ req[q].op = "delete" => msg'[m].state = "deleted"
      BY <2>4, CommittedMessage
    <3> QED
      BY <1>1, <2>1, <2>4, <3>1
  <2>5. req[q].op \in {"create", "patch", "delete", "read"}
    BY CommittedEvent
  <2> QED
    BY <2>2, <2>3, <2>4, <2>5
<1>9. TableInv'
  <2>1. \A k \in Rows : tx'[k] = "free" <=> seq' < k
    BY <1>1, <1>2, <1>4 DEF WriterInv, TableInv
  <2> QED
    BY <1>8, <2>1 DEF TableInv
<1>10. ASSUME NEW p \in Requests PROVE Informed(p)'
  <2>1. CASE p = q
    BY <1>3, <2>1, IdleType DEF Informed, InTx, Holds
  <2>2. CASE p # q
    BY <1>3, <2>2, CommitInformed
  <2> QED
    BY <2>1, <2>2
<1>11. ASSUME NEW o \in Requests, NEW p \in Requests, o # p PROVE Apart(o, p)'
  <2>1. CASE o # q /\ p # q
    BY <1>3, <1>11, <2>1, ApartUntouched DEF WriterInv, RequestInv
  <2>2. CASE o = q \/ p = q
    BY <1>3, <2>2, IdleType DEF Apart, InTx, Holds
  <2> QED
    BY <2>1, <2>2
<1>12. StoryInv'
  BY CommitTells, CommitLast, CommitCursor DEF StoryInv, OutboxTellsMessages
<1>13. DeletedStay
  BY <1>8 DEF DeletedStay
<1> QED
  BY <1>6, <1>7, <1>9, <1>10, <1>11, <1>12, <1>13 DEF WriterInv, RequestInv

-----------------------------------------------------------------------------
(***************************************************************************)
(* The theorems.                                                           *)
(***************************************************************************)

(* Every step keeps the invariant, and changes no deleted message.         *)
LEMMA WriterStep ==
  ASSUME WriterInv, [Next]_vars
  PROVE  WriterInv' /\ (DeletedStay \/ UNCHANGED vars)
<1>1. ASSUME NEW q \in Requests, Arrive(q) PROVE WriterInv' /\ msg' = msg
  <2>1. ASSUME NEW u \in Users, NEW c \in Chats, NEW t \in Texts,
               NEW m \in {0} \union {k \in Msgs : msg[k].state # "free"}, Create(q, u, c, t, m)
        PROVE  WriterInv' /\ msg' = msg
    <3>1. m \in {0} \union Msgs
      OBVIOUS
    <3> QED
      BY <2>1, <3>1, CreateStep DEF Create, tableVars
  <2>2. ASSUME NEW op \in {"patch", "delete", "read"}, NEW u \in Users, NEW m \in Msgs,
               NEW t \in Texts \union {None}, LoadMessage(q, op, u, m, t)
        PROVE  WriterInv' /\ msg' = msg
    BY <2>2, LoadMessageStep DEF LoadMessage, tableVars
  <2> QED
    BY <1>1, <2>1, <2>2 DEF Arrive
<1>2. ASSUME NEW q \in Requests, CheckReply(q) PROVE WriterInv' /\ msg' = msg
  <2>1. Goto(q, "begin") \/ Finish(q)
    BY <1>2 DEF CheckReply
  <2>2. req[q].pc = "reply" /\ UNCHANGED <<clock, tableVars, logVars>>
    BY <1>2 DEF CheckReply
  <2> QED
    BY <2>1, <2>2, PassStep, FinishStep DEF tableVars
<1>3. ASSUME NEW q \in Requests, RequireChatMember(q) PROVE WriterInv' /\ msg' = msg
  <2>1. Goto(q, "begin") \/ Finish(q)
    BY <1>3 DEF RequireChatMember
  <2>2. req[q].pc = "member" /\ UNCHANGED <<clock, tableVars, logVars>>
    BY <1>3 DEF RequireChatMember
  <2> QED
    BY <2>1, <2>2, PassStep, FinishStep DEF tableVars
<1>4. ASSUME NEW q \in Requests, Begin(q) PROVE WriterInv' /\ msg' = msg
  BY <1>4, BeginStep DEF Begin, tableVars
<1>5. ASSUME NEW q \in Requests, UpdateRow(q) PROVE WriterInv' /\ msg' = msg
  BY <1>5, UpdateRowStep DEF UpdateRow, tableVars
<1>6. ASSUME NEW q \in Requests, InsertOutboxTx(q) PROVE WriterInv' /\ msg' = msg
  BY <1>6, InsertOutboxStep DEF InsertOutboxTx, tableVars
<1>7. ASSUME NEW q \in Requests, Commit(q) PROVE WriterInv' /\ DeletedStay
  BY <1>7, CommitStep
<1>8. ASSUME NEW q \in Requests, Rollback(q) PROVE WriterInv' /\ msg' = msg
  BY <1>8, RollbackStep DEF Rollback, tableVars
<1>9. ASSUME NEW c \in Chats, NEW u \in Users, AddMember(c, u) \/ RemoveMember(c, u)
      PROVE  WriterInv' /\ msg' = msg
  BY <1>9, MembershipLemma DEF AddMember, RemoveMember
<1>10. CASE UNCHANGED vars
  <2>1. UNCHANGED <<clock, msg, member, cursor, last, seq, tx, chat, event, prior, req>>
    BY <1>10 DEF vars, tableVars, logVars
  <2>2. TypeOK' /\ CountInv' /\ TableInv'
    BY <2>1 DEF WriterInv, TypeOK, CountInv, TableInv, Running
  <2>3. \A p \in Requests : Informed(p)'
    BY <2>1 DEF WriterInv, RequestInv, Informed, InTx, Holds, RowMatches, Told, MessageEvents,
                Creations, Receipts, Committed
  <2>4. \A o, p \in Requests : o # p => Apart(o, p)'
    BY <2>1, ApartUntouched DEF WriterInv, RequestInv
  <2>5. StoryInv'
    BY <2>1, StoryKept DEF WriterInv, Committed
  <2> QED
    BY <1>10, <2>2, <2>3, <2>4, <2>5 DEF WriterInv, RequestInv
<1>11. msg' = msg => DeletedStay
  BY DEF DeletedStay
<1> QED
  BY <1>1, <1>2, <1>3, <1>4, <1>5, <1>6, <1>7, <1>8, <1>9, <1>10, <1>11
  DEF Next, HandlerStep, MembershipStep

(* The invariant holds of the writers in all their states.                 *)
LEMMA WriterInvAlways == Spec => []WriterInv
<1>1. Init => WriterInv
  <2> SUFFICES ASSUME Init PROVE WriterInv
    OBVIOUS
  <2>1. TypeOK
    BY IdleType, ConstantsAssumption DEF Init, TypeOK, NoMessage, NoEvent
  <2>2. Committed = {} /\ Running = {}
    BY IdleType DEF Init, Committed, Running
  <2>3. CountInv
    BY <2>2, FS_EmptySet DEF Init, CountInv
  <2>4. TableInv
    BY ConstantsAssumption DEF Init, TableInv, NoMessage, Rows
  <2>5. RequestInv
    BY IdleType DEF Init, RequestInv, Informed, Apart, InTx, Holds
  <2>6. StoryInv
    <3>1. /\ \A m : MessageEvents(m) = {}
          /\ \A c : Creations(c) = {}
          /\ \A c, u : Receipts(c, u) = {}
      BY <2>2 DEF MessageEvents, Creations, Receipts
    <3>2. OutboxTellsMessages
      BY <3>1 DEF Init, OutboxTellsMessages, Tells, NoMessage
    <3>3. LastMessageFollowsOutbox /\ CursorFollowsReceipts
      BY <3>1 DEF Init, LastMessageFollowsOutbox, CursorFollowsReceipts
    <3> QED
      BY <3>2, <3>3 DEF StoryInv
  <2> QED
    BY <2>1, <2>3, <2>4, <2>5, <2>6 DEF WriterInv
<1>2. WriterInv /\ [Next]_vars => WriterInv'
  BY WriterStep
<1> QED
  BY <1>1, <1>2, PTL DEF Spec

(* Tables, outbox and requests keep their shape: in particular the outbox  *)
(* never takes more ids than transactions have begun, and a transaction    *)
(* about to commit has a row of its own.                                   *)
THEOREM WriterTypeCorrect == Spec => []TypeOK
<1>1. WriterInv => TypeOK
  BY DEF WriterInv
<1> QED
  BY <1>1, WriterInvAlways, PTL

(* The transactional outbox: the committed events of a message tell, in id *)
(* order, exactly what happened to its row, however Create, Patch and      *)
(* Delete of any number of requests race, fail and are rolled back.        *)
THEOREM OutboxTellsMessagesAlways == Spec => []OutboxTellsMessages
<1>1. WriterInv => OutboxTellsMessages
  BY DEF WriterInv, StoryInv
<1> QED
  BY <1>1, WriterInvAlways, PTL

(* chats.last_message_id is the message of the last "created" event of the *)
(* chat, although the events commit out of the order of their ids.         *)
THEOREM LastMessageFollowsOutboxAlways == Spec => []LastMessageFollowsOutbox
<1>1. WriterInv => LastMessageFollowsOutbox
  BY DEF WriterInv, StoryInv
<1> QED
  BY <1>1, WriterInvAlways, PTL

(* A read cursor is where the last read receipt of its member says, also   *)
(* when the member is removed, or added again, next to a MarkRead.         *)
THEOREM CursorFollowsReceiptsAlways == Spec => []CursorFollowsReceipts
<1>1. WriterInv => CursorFollowsReceipts
  BY DEF WriterInv, StoryInv
<1> QED
  BY <1>1, WriterInvAlways, PTL

(* No step changes a deleted message: the UPDATEs test deleted_at again    *)
(* under the row lock.                                                     *)
THEOREM DeletedIsFinalAlways == Spec => DeletedIsFinal
<1>1. WriterInv /\ [Next]_vars => [DeletedStay]_vars
  BY WriterStep
<1> QED
  BY <1>1, WriterInvAlways, PTL DEF Spec, DeletedIsFinal

-----------------------------------------------------------------------------
(***************************************************************************)
(* The refinements.                                                        *)
(***************************************************************************)

(* Every step is an Insert, a Commit or an Abort of the contract, or       *)
(* leaves the log as it is.                                                *)
LEMMA ContractStep ==
  ASSUME WriterInv, [Next]_vars
  PROVE  [Contract!Next]_(Contract!vars)
<1> USE DEF Contract!Next, Contract!vars
<1>1. TypeOK
  BY DEF WriterInv
<1>2. ASSUME NEW q \in Requests, InsertOutboxTx(q) PROVE \E c \in Chats : Contract!Insert(c)
  <2>1. req[q].pc = "outbox" /\ Informed(q)
    BY <1>2 DEF InsertOutboxTx, WriterInv, RequestInv
  <2>2. req[q].chat \in Chats
    BY <2>1 DEF Informed
  <2>3. seq < MaxTx
    <3>1. seq + 1 \in 1..MaxTx /\ seq \in Nat
      BY <2>1, RoomForEvent DEF Rows
    <3> QED
      BY <3>1, ConstantsAssumption
  <2>4. Contract!Insert(req[q].chat)
    BY <1>2, <2>3 DEF InsertOutboxTx, Contract!Insert
  <2> QED
    BY <2>2, <2>4
<1>3. ASSUME NEW q \in Requests, Commit(q) PROVE \E i \in Contract!Rows : Contract!Commit(i)
  <2>1. req[q].row \in Rows /\ tx[req[q].row] = "open"
    BY <1>1, <1>3 DEF Commit, TypeOK, RequestType
  <2>2. {k \in Committed : k < req[q].row} = {k \in Contract!Rows : k < req[q].row /\ tx[k] = "committed"}
    BY DEF Committed, Rows, Contract!Rows
  <2>3. Contract!Commit(req[q].row)
    BY <1>3, <2>1, <2>2 DEF Commit, Contract!Commit
  <2> QED
    BY <2>1, <2>3 DEF Rows, Contract!Rows
<1>4. ASSUME NEW q \in Requests, Rollback(q), req[q].pc = "commit"
      PROVE  \E i \in Contract!Rows : Contract!Abort(i)
  <2>1. req[q].row \in Rows /\ tx[req[q].row] = "open"
    BY <1>1, <1>4 DEF TypeOK, RequestType
  <2>2. Contract!Abort(req[q].row)
    BY <1>4, <2>1 DEF Rollback, Contract!Abort
  <2> QED
    BY <2>1, <2>2 DEF Rows, Contract!Rows
<1>5. ASSUME NEW q \in Requests, Rollback(q), req[q].pc # "commit" PROVE UNCHANGED Contract!vars
  BY <1>5 DEF Rollback
<1>6. ASSUME NEW q \in Requests,
             \/ Arrive(q) \/ CheckReply(q) \/ RequireChatMember(q) \/ Begin(q) \/ UpdateRow(q)
      PROVE  UNCHANGED Contract!vars
  BY <1>6 DEF Arrive, Create, LoadMessage, CheckReply, RequireChatMember, Begin, UpdateRow, logVars
<1>7. ASSUME NEW c \in Chats, NEW u \in Users, AddMember(c, u) \/ RemoveMember(c, u)
      PROVE  UNCHANGED Contract!vars
  BY <1>7 DEF AddMember, RemoveMember, logVars
<1>8. CASE UNCHANGED vars
  BY <1>8 DEF vars, logVars
<1> QED
  BY <1>2, <1>3, <1>4, <1>5, <1>6, <1>7, <1>8 DEF Next, HandlerStep, MembershipStep

(* The writers implement the inserting half of OutboxContract: what is     *)
(* proved of the relay holds of the rows that the handlers write.          *)
THEOREM WritersImplementContract == Spec => ImplementsContract
<1>1. Init => Contract!Init
  BY DEF Init, Contract!Init, Rows, Contract!Rows
<1>2. WriterInv /\ [Next]_vars => [Contract!Next]_(Contract!vars)
  BY ContractStep
<1> QED
  BY <1>1, <1>2, WriterInvAlways, PTL DEF Spec, ImplementsContract, Contract!Spec

(* A message that is being created is created by one request; one that     *)
(* exists by none.                                                         *)
LEMMA OneCreator ==
  ASSUME WriterInv
  PROVE  /\ \A q \in Requests : req[q].op = "create" /\ InTx(q) =>
              /\ Creating(req[q].msg) = {q} /\ req[q].msg \in Msgs
              /\ Shown(req[q].msg) = [state |-> "open", chat |-> req[q].chat]
         /\ \A m \in Msgs : msg[m].state # "free" => Creating(m) = {}
         /\ \A m \in Msgs : Creating(m) = {} =>
              Shown(m) = [state |-> msg[m].state, chat |-> msg[m].chat]
<1>1. ASSUME NEW q \in Requests, req[q].op = "create", InTx(q)
      PROVE  Creating(req[q].msg) = {q} /\ req[q].msg \in Msgs /\ msg[req[q].msg].state = "free"
  <2>1. \A p \in Requests : p # q => Apart(p, q)
    BY DEF WriterInv, RequestInv
  <2>2. Creating(req[q].msg) = {q}
    BY <1>1, <2>1 DEF Creating, Apart, InTx
  <2>3. req[q].msg \in 1..clock /\ msg[req[q].msg].state = "free"
    BY <1>1 DEF WriterInv, RequestInv, Informed
  <2>4. clock \in 0..MaxTx
    BY DEF WriterInv, TypeOK
  <2> QED
    BY <2>2, <2>3, <2>4, ConstantsAssumption DEF Msgs
<1>2. ASSUME NEW q \in Requests, req[q].op = "create", InTx(q)
      PROVE  Shown(req[q].msg) = [state |-> "open", chat |-> req[q].chat]
  <2>1. Creating(req[q].msg) = {q}
    BY <1>1, <1>2
  <2>2. (CHOOSE p \in Creating(req[q].msg) : TRUE) = q
    BY <2>1
  <2> QED
    BY <2>1, <2>2 DEF Shown
<1>3. ASSUME NEW m \in Msgs, msg[m].state # "free" PROVE Creating(m) = {}
  <2>1. \A q \in Creating(m) : q \in Requests /\ req[q].op = "create" /\ InTx(q) /\ req[q].msg = m
    BY DEF Creating, InTx
  <2> QED
    BY <1>1, <1>3, <2>1
<1> QED
  BY <1>1, <1>2, <1>3 DEF Shown

(* A message looks as before if its creation and its row are as before.    *)
LEMMA ShownKept ==
  ASSUME NEW m, Creating(m)' = Creating(m),
         \A q \in Creating(m) : req'[q].chat = req[q].chat,
         msg'[m].state = msg[m].state, msg'[m].chat = msg[m].chat
  PROVE  Shown(m)' = Shown(m)
<1>1. CASE Creating(m) = {}
  BY <1>1 DEF Shown
<1>2. CASE Creating(m) # {}
  <2> DEFINE p == CHOOSE q \in Creating(m) : TRUE
  <2>1. p \in Creating(m) /\ p' = p
    BY <1>2
  <2> QED
    BY <1>2, <2>1 DEF Shown
<1> QED
  BY <1>1, <1>2

(* A request moves, and neither begins nor ends a creation.                *)
LEMMA CreatingKept ==
  ASSUME TypeOK, NEW q \in Requests, NEW r \in RequestType, req' = [req EXCEPT ![q] = r],
         \/ /\ req[q].op # "create" \/ ~InTx(q)
            /\ r.op # "create" \/ r.pc \notin {"update", "outbox", "commit"}
         \/ /\ InTx(q) /\ r.pc \in {"update", "outbox", "commit"}
            /\ r.op = req[q].op /\ r.msg = req[q].msg /\ r.chat = req[q].chat
  PROVE  \A m : Creating(m)' = Creating(m) /\ \A p \in Creating(m) : req'[p].chat = req[p].chat
<1>1. /\ req'[q] = r
      /\ \A p \in Requests : p # q => req'[p] = req[p]
  BY RequestMoves
<1>2. ASSUME NEW m PROVE Creating(m)' = Creating(m)
  <2>1. \A p \in Requests : p \in Creating(m)' <=> p \in Creating(m)
    BY <1>1 DEF Creating, InTx
  <2> QED
    BY <2>1 DEF Creating
<1>3. ASSUME NEW m, NEW p \in Creating(m) PROVE req'[p].chat = req[p].chat
  BY <1>1 DEF Creating, InTx
<1> QED
  BY <1>2, <1>3

(* The writer's view of the table does not change.                         *)
Still == UNCHANGED <<clock, member, last>> /\ \A m \in Msgs : Shown(m)' = Shown(m)

(* Then the abstract table makes no step.                                  *)
LEMMA StillIsStutter == Still => UNCHANGED Table!tableVars
BY DEF Still, Table!tableVars

(* Checks, lock waits, the outbox insert, and the end of what creates      *)
(* nothing.                                                                *)
LEMMA QuietRequests ==
  ASSUME WriterInv, NEW q \in Requests,
         \/ Arrive(q) \/ CheckReply(q) \/ RequireChatMember(q) \/ UpdateRow(q)
         \/ InsertOutboxTx(q) \/ (Rollback(q) /\ req[q].op # "create")
  PROVE  Still
<1>1. TypeOK /\ req[q] \in RequestType
  BY DEF WriterInv, TypeOK
<1>2. UNCHANGED <<clock, msg, member, last>>
  BY DEF Arrive, Create, LoadMessage, CheckReply, RequireChatMember, UpdateRow, InsertOutboxTx,
         Rollback, tableVars
<1> DEFINE Kept == \A m : Creating(m)' = Creating(m) /\ \A p \in Creating(m) : req'[p].chat = req[p].chat
<1>3. ASSUME Finish(q), req[q].op # "create" \/ ~InTx(q) PROVE Kept
  BY <1>1, <1>3, IdleType, CreatingKept DEF Finish
<1>4. ASSUME NEW p \in RequestType, req[q].op # "create" \/ ~InTx(q),
             p.pc \notin {"update", "outbox", "commit"}, req' = [req EXCEPT ![q] = p]
      PROVE  Kept
  BY <1>1, <1>4, CreatingKept
<1>5. CASE Arrive(q)
  <2>1. ~InTx(q)
    BY <1>5 DEF Arrive, Create, LoadMessage, InTx
  <2>2. ASSUME NEW u \in Users, NEW c \in Chats, NEW t \in Texts,
               NEW m \in {0} \union {k \in Msgs : msg[k].state # "free"}, Create(q, u, c, t, m)
        PROVE  Kept
    <3> DEFINE r == [Idle EXCEPT !.pc = IF m = 0 THEN "begin" ELSE "reply", !.op = "create",
                                 !.user = u, !.chat = c, !.text = t, !.reply = m]
    <3>1. req' = [req EXCEPT ![q] = r] /\ r \in RequestType /\ r.pc \in {"begin", "reply"}
      BY <2>2, ConstantsAssumption DEF Create, RequestType, Idle
    <3> HIDE DEF r
    <3> QED
      BY <1>4, <2>1, <3>1
  <2>3. ASSUME NEW op \in {"patch", "delete", "read"}, NEW u \in Users, NEW m \in Msgs,
               NEW t \in Texts \union {None}, LoadMessage(q, op, u, m, t)
        PROVE  Kept
    <3> DEFINE r == [Idle EXCEPT !.pc = "member", !.op = op, !.user = u, !.chat = msg[m].chat,
                                 !.msg = m, !.text = t]
    <3>1. msg[m].chat \in Chats
      BY <2>3 DEF LoadMessage, WriterInv, TableInv
    <3>2. req' = [req EXCEPT ![q] = r] /\ r \in RequestType /\ r.pc = "member"
      BY <2>3, <3>1, ConstantsAssumption DEF LoadMessage, RequestType, Idle
    <3> HIDE DEF r
    <3> QED
      BY <1>4, <2>1, <3>2
  <2>4. Kept
    BY <1>5, <2>2, <2>3 DEF Arrive
  <2> QED
    BY <1>2, <2>4, ShownKept DEF Still
<1>6. CASE CheckReply(q) \/ RequireChatMember(q)
  <2>1. ~InTx(q)
    BY <1>6 DEF CheckReply, RequireChatMember, InTx
  <2>2. Goto(q, "begin") \/ Finish(q)
    BY <1>6 DEF CheckReply, RequireChatMember
  <2>3. ASSUME Goto(q, "begin") PROVE Kept
    <3> DEFINE r == [req[q] EXCEPT !.pc = "begin"]
    <3>1. req' = [req EXCEPT ![q] = r] /\ r \in RequestType /\ r.pc = "begin"
      BY <1>1, <2>3 DEF Goto, RequestType
    <3> HIDE DEF r
    <3> QED
      BY <1>4, <2>1, <3>1
  <2>4. Kept
    BY <1>3, <2>1, <2>2, <2>3
  <2> QED
    BY <1>2, <2>4, ShownKept DEF Still
<1>7. CASE UpdateRow(q)
  <2>1. req[q].pc = "update" /\ InTx(q)
    BY <1>7 DEF UpdateRow, InTx
  <2>2. CASE RowMatches(q)
    <3> DEFINE r == [req[q] EXCEPT !.pc = "outbox"]
    <3>1. /\ req' = [req EXCEPT ![q] = r] /\ r \in RequestType /\ r.pc = "outbox"
          /\ r.op = req[q].op /\ r.msg = req[q].msg /\ r.chat = req[q].chat
      BY <1>1, <1>7, <2>2 DEF UpdateRow, Goto, RequestType
    <3> HIDE DEF r
    <3>2. Kept
      BY <1>1, <2>1, <3>1, CreatingKept
    <3> QED
      BY <1>2, <3>2, ShownKept DEF Still
  <2>3. CASE ~RowMatches(q)
    <3>1. Finish(q) /\ req[q].op # "create"
      BY <1>7, <2>3 DEF UpdateRow, RowMatches
    <3>2. Kept
      BY <1>3, <3>1
    <3> QED
      BY <1>2, <3>2, ShownKept DEF Still
  <2> QED
    BY <2>2, <2>3
<1>8. CASE InsertOutboxTx(q)
  <2> DEFINE r == [req[q] EXCEPT !.pc = "commit", !.row = seq + 1]
  <2>1. req[q].pc = "outbox" /\ InTx(q) /\ req' = [req EXCEPT ![q] = r]
    BY <1>8 DEF InsertOutboxTx, InTx
  <2>2. seq + 1 \in Rows
    BY <2>1, RoomForEvent
  <2>3. /\ r \in RequestType /\ r.pc = "commit"
        /\ r.op = req[q].op /\ r.msg = req[q].msg /\ r.chat = req[q].chat
    BY <1>1, <2>2 DEF RequestType
  <2> HIDE DEF r
  <2>4. Kept
    BY <1>1, <2>1, <2>3, CreatingKept
  <2> QED
    BY <1>2, <2>4, ShownKept DEF Still
<1>9. CASE Rollback(q) /\ req[q].op # "create"
  <2>1. Kept
    BY <1>3, <1>9 DEF Rollback
  <2> QED
    BY <1>2, <2>1, ShownKept DEF Still
<1> QED
  BY <1>5, <1>6, <1>7, <1>8, <1>9

(* A transaction starts.                                                   *)
LEMMA TableBegin ==
  ASSUME WriterInv, NEW q \in Requests, Begin(q)
  PROVE  \E c \in Chats \union {NoChat} : Table!Start(c)
<1> DEFINE n == IF req[q].op = "create" THEN clock + 1 ELSE req[q].msg
           r == [req[q] EXCEPT !.pc = "update", !.msg = n]
<1>1. /\ req' = [req EXCEPT ![q] = r] /\ req[q].pc = "begin"
      /\ clock < MaxTx /\ clock' = clock + 1 /\ UNCHANGED <<msg, member, last>>
  BY DEF Begin, tableVars
<1>2. clock \in Nat /\ clock + 1 \in Msgs /\ TypeOK
  BY <1>1, ConstantsAssumption DEF WriterInv, TypeOK, Msgs
<1>3. req[q] \in RequestType /\ ~InTx(q) /\ req[q].chat \in Chats
  BY <1>1 DEF WriterInv, TypeOK, InTx, RequestInv, Informed
<1>4. r \in RequestType /\ r.pc = "update" /\ r.op = req[q].op /\ r.msg = n /\ r.chat = req[q].chat
  <2>1. n \in {0} \union Msgs
    BY <1>2, <1>3 DEF RequestType
  <2> HIDE DEF n
  <2> QED
    BY <1>3, <2>1 DEF RequestType
<1> HIDE DEF r
<1>5. /\ req'[q] = r
      /\ \A p \in Requests : p # q => req'[p] = req[p]
  BY <1>1, <1>2, <1>4, RequestMoves
<1>6. CASE req[q].op # "create"
  <2>1. \A m : Creating(m)' = Creating(m) /\ \A p \in Creating(m) : req'[p].chat = req[p].chat
    BY <1>1, <1>2, <1>4, <1>6, CreatingKept
  <2>2. \A m \in Msgs : Shown(m)' = Shown(m)
    BY <1>1, <2>1, ShownKept
  <2>3. Table!Start(NoChat)
    BY <1>1, <2>2 DEF Table!Start
  <2> QED
    BY <2>3
<1>7. CASE req[q].op = "create"
  <2>1. PICK k \in Msgs : k = clock + 1
    BY <1>2
  <2>2. Creating(k)' = {q}
    <3>1. \A p \in Requests : p # q /\ InTx(p) /\ req[p].op = "create" => req[p].msg \in 1..clock
      BY DEF WriterInv, RequestInv, Informed
    <3>2. \A p \in Requests : p # q => p \notin Creating(k)'
      BY <1>2, <1>5, <2>1, <3>1 DEF Creating, InTx
    <3>3. q \in Creating(k)'
      BY <1>4, <1>5, <1>7, <2>1 DEF Creating
    <3> QED
      BY <3>2, <3>3 DEF Creating
  <2>3. Shown(k)' = [state |-> "open", chat |-> req[q].chat]
    <3>1. (CHOOSE p \in Creating(k)' : TRUE) = q
      BY <2>2
    <3>2. Shown(k)' = [state |-> "open", chat |-> req'[q].chat]
      BY <2>2, <3>1 DEF Shown
    <3> QED
      BY <1>4, <1>5, <3>2
  <2>4. ASSUME NEW m \in Msgs, m # k PROVE Shown(m)' = Shown(m)
    <3>1. \A p \in Requests : p \in Creating(m)' <=> p \in Creating(m)
      <4>1. q \notin Creating(m)'
        BY <1>4, <1>5, <1>7, <2>1, <2>4 DEF Creating
      <4>2. q \notin Creating(m)
        BY <1>3 DEF Creating, InTx
      <4> QED
        BY <1>5, <4>1, <4>2 DEF Creating
    <3>2. Creating(m)' = Creating(m)
      BY <3>1 DEF Creating
    <3>3. \A p \in Creating(m) : req'[p].chat = req[p].chat
      BY <1>3, <1>5 DEF Creating, InTx
    <3> QED
      BY <1>1, <3>2, <3>3, ShownKept
  <2>5. [m \in Msgs |-> Shown(m)'] =
          [[m \in Msgs |-> Shown(m)] EXCEPT ![k] = [state |-> "open", chat |-> req[q].chat]]
    BY <2>3, <2>4
  <2>6. req[q].chat # NoChat
    BY <1>3, ConstantsAssumption
  <2>7. Table!Start(req[q].chat)
    BY <1>1, <2>1, <2>5, <2>6 DEF Table!Start
  <2> QED
    BY <1>3, <2>7
<1> QED
  BY <1>6, <1>7

(* A creation ends: its message becomes visible, or vanishes.              *)
LEMMA CreationEnds ==
  ASSUME WriterInv, NEW q \in Requests, req[q].op = "create", InTx(q), Finish(q),
         NEW k \in Msgs, k = req[q].msg,
         \A m \in Msgs : m # k => msg'[m] = msg[m]
  PROVE  /\ Shown(k) = [state |-> "open", chat |-> req[q].chat]
         /\ Shown(k)' = [state |-> msg'[k].state, chat |-> msg'[k].chat]
         /\ \A m \in Msgs : m # k => Shown(m)' = Shown(m)
<1>1. TypeOK /\ req' = [req EXCEPT ![q] = Idle]
  BY DEF WriterInv, Finish
<1>2. /\ req'[q] = Idle
      /\ \A p \in Requests : p # q => req'[p] = req[p]
  BY <1>1, IdleType, RequestMoves
<1>3. Creating(k) = {q} /\ Shown(k) = [state |-> "open", chat |-> req[q].chat]
  BY OneCreator
<1>4. q \notin Creating(k)'
  BY <1>2, IdleType DEF Creating
<1>5. Creating(k)' = {}
  BY <1>2, <1>3, <1>4 DEF Creating
<1>6. Shown(k)' = [state |-> msg'[k].state, chat |-> msg'[k].chat]
  BY <1>5 DEF Shown
<1>7. ASSUME NEW m \in Msgs, m # k PROVE Shown(m)' = Shown(m)
  <2>1. q \notin Creating(m) /\ q \notin Creating(m)'
    BY <1>2, <1>7, IdleType DEF Creating
  <2>2. Creating(m)' = Creating(m)
    BY <1>2, <2>1 DEF Creating
  <2>3. \A p \in Creating(m) : req'[p].chat = req[p].chat
    BY <1>2, <2>1 DEF Creating
  <2> QED
    BY <1>7, <2>2, <2>3, ShownKept
<1> QED
  BY <1>3, <1>6, <1>7

(* The row that was inserted was never visible.                            *)
LEMMA TableRollback ==
  ASSUME WriterInv, NEW q \in Requests, Rollback(q), req[q].op = "create"
  PROVE  \E m \in Msgs : Table!RollbackCreate(m)
<1>1. Finish(q) /\ InTx(q) /\ UNCHANGED <<clock, msg, member, last>>
  BY DEF Rollback, InTx, tableVars
<1>2. PICK k \in Msgs : k = req[q].msg
  BY <1>1, OneCreator
<1>3. /\ Shown(k) = [state |-> "open", chat |-> req[q].chat]
      /\ Shown(k)' = [state |-> msg'[k].state, chat |-> msg'[k].chat]
      /\ \A m \in Msgs : m # k => Shown(m)' = Shown(m)
  BY <1>1, <1>2, CreationEnds
<1>4. msg[k] = NoMessage
  <2>1. msg[k].state = "free"
    BY <1>1, <1>2 DEF WriterInv, RequestInv, Informed
  <2> QED
    BY <2>1 DEF WriterInv, TableInv
<1>5. Shown(k)' = Table!NoRow
  BY <1>1, <1>3, <1>4 DEF NoMessage, Table!NoRow
<1>6. [m \in Msgs |-> Shown(m)'] = [[m \in Msgs |-> Shown(m)] EXCEPT ![k] = Table!NoRow]
  BY <1>3, <1>5
<1>7. Table!RollbackCreate(k)
  BY <1>1, <1>3, <1>6 DEF Table!RollbackCreate
<1> QED
  BY <1>7

(* Commit is a CommitCreate, a SoftDelete, or nothing that readers see.    *)
LEMMA TableCommit ==
  ASSUME WriterInv, NEW q \in Requests, Commit(q)
  PROVE  \/ Still
         \/ \E m \in Msgs : Table!CommitCreate(m) \/ Table!SoftDelete(m)
<1>1. /\ Finish(q) /\ req' = [req EXCEPT ![q] = Idle] /\ UNCHANGED <<clock, member>>
      /\ InTx(q) /\ TypeOK
      /\ last' = IF req[q].op = "create" THEN [last EXCEPT ![req[q].chat] = req[q].msg] ELSE last
  BY DEF Commit, Finish, ApplyWrite, InTx, WriterInv
<1>2. req[q].op \in {"create", "patch", "delete", "read"} /\ req[q].msg \in Msgs
  BY CommittedEvent
<1>3. PICK k \in Msgs : k = req[q].msg
  BY <1>2
<1>4. CASE req[q].op = "create"
  <2>1. /\ \A m \in Msgs : m # k => msg'[m] = msg[m]
        /\ msg'[k].state = "live" /\ msg'[k].chat = req[q].chat
    BY <1>3, <1>4, CommittedMessage
  <2>2. /\ Shown(k) = [state |-> "open", chat |-> req[q].chat]
        /\ Shown(k)' = [state |-> msg'[k].state, chat |-> msg'[k].chat]
        /\ \A m \in Msgs : m # k => Shown(m)' = Shown(m)
    BY <1>1, <1>3, <1>4, <2>1, CreationEnds
  <2>3. Shown(k)' = [Shown(k) EXCEPT !.state = "live"]
    BY <2>1, <2>2
  <2>4. [m \in Msgs |-> Shown(m)'] = [[m \in Msgs |-> Shown(m)] EXCEPT ![k].state = "live"]
    BY <2>2, <2>3
  <2>5. [m \in Msgs |-> Shown(m)][k].state = "open" /\ [m \in Msgs |-> Shown(m)][k].chat = req[q].chat
    BY <2>2
  <2>6. last' = [last EXCEPT ![req[q].chat] = k]
    BY <1>1, <1>3, <1>4
  <2>7. Table!CommitCreate(k)
    BY <1>1, <2>4, <2>5, <2>6 DEF Table!CommitCreate
  <2> QED
    BY <2>7
<1>5. ASSUME req[q].op # "create"
      PROVE  /\ last' = last
             /\ \A m : Creating(m)' = Creating(m) /\ \A p \in Creating(m) : req'[p].chat = req[p].chat
             /\ \A m \in Msgs : m # k \/ req[q].op = "read" => Shown(m)' = Shown(m)
  <2>1. \A m : Creating(m)' = Creating(m) /\ \A p \in Creating(m) : req'[p].chat = req[p].chat
    BY <1>1, <1>5, IdleType, CreatingKept
  <2>2. \A m \in Msgs : m # k \/ req[q].op = "read" => msg'[m] = msg[m]
    BY <1>3, CommittedMessage
  <2> QED
    BY <1>1, <1>5, <2>1, <2>2, ShownKept
<1>6. CASE req[q].op = "read"
  BY <1>1, <1>5, <1>6 DEF Still
<1>7. CASE req[q].op = "patch"
  <2>1. msg[k].state = "live" /\ msg'[k].state = "live" /\ msg'[k].chat = msg[k].chat
    BY <1>3, <1>7, CommittedMessage
  <2>2. Shown(k)' = Shown(k)
    BY <1>5, <1>7, <2>1, ShownKept
  <2> QED
    BY <1>1, <1>5, <1>7, <2>2 DEF Still
<1>8. CASE req[q].op = "delete"
  <2>1. msg[k].state = "live" /\ msg'[k].state = "deleted" /\ msg'[k].chat = msg[k].chat
    BY <1>3, <1>8, CommittedMessage
  <2>2. Creating(k) = {} /\ Creating(k)' = {}
    BY <1>5, <1>8, <2>1, OneCreator
  <2>3. /\ Shown(k) = [state |-> "live", chat |-> msg[k].chat]
        /\ Shown(k)' = [Shown(k) EXCEPT !.state = "deleted"]
    BY <2>1, <2>2 DEF Shown
  <2>4. [m \in Msgs |-> Shown(m)'] = [[m \in Msgs |-> Shown(m)] EXCEPT ![k].state = "deleted"]
    BY <1>5, <1>8, <2>3
  <2>5. [m \in Msgs |-> Shown(m)][k].state = "live"
    BY <2>3
  <2>6. Table!SoftDelete(k)
    BY <1>1, <1>5, <1>8, <2>4, <2>5 DEF Table!SoftDelete
  <2> QED
    BY <2>6
<1> QED
  BY <1>2, <1>4, <1>6, <1>7, <1>8

(* Every step is a step of the abstract table, or is not noticed.          *)
LEMMA TableStep ==
  ASSUME WriterInv, [Next]_vars
  PROVE  [Table!Next]_(Table!tableVars)
<1>1. ASSUME NEW c \in Chats, NEW u \in Users, AddMember(c, u) \/ RemoveMember(c, u)
      PROVE  Table!AddMember(c, u) \/ Table!RemoveMember(c, u)
  <2>1. UNCHANGED <<clock, msg, last, req>>
    BY <1>1 DEF AddMember, RemoveMember
  <2>2. \A m \in Msgs : Shown(m)' = Shown(m)
    <3>1. \A m : Creating(m)' = Creating(m)
      BY <2>1 DEF Creating
    <3> QED
      BY <2>1, <3>1, ShownKept
  <2> QED
    BY <1>1, <2>1, <2>2 DEF AddMember, RemoveMember, Table!AddMember, Table!RemoveMember
<1>2. CASE UNCHANGED vars
  <2>1. UNCHANGED <<clock, member, last, msg, req>>
    BY <1>2 DEF vars, tableVars
  <2>2. \A m : Creating(m)' = Creating(m)
    BY <2>1 DEF Creating
  <2>3. Still
    BY <2>1, <2>2, ShownKept DEF Still
  <2> QED
    BY <2>3, StillIsStutter
<1>3. ASSUME NEW q \in Requests, Arrive(q) \/ HandlerStep(q) \/ Rollback(q)
      PROVE  [Table!Next]_(Table!tableVars)
  <2>1. CASE \/ Arrive(q) \/ CheckReply(q) \/ RequireChatMember(q) \/ UpdateRow(q)
             \/ InsertOutboxTx(q) \/ (Rollback(q) /\ req[q].op # "create")
    BY <2>1, QuietRequests, StillIsStutter
  <2>2. CASE Begin(q)
    BY <2>2, TableBegin DEF Table!Next
  <2>3. CASE Rollback(q) /\ req[q].op = "create"
    BY <2>3, TableRollback DEF Table!Next, Table!Msgs, Msgs
  <2>4. CASE Commit(q)
    BY <2>4, TableCommit, StillIsStutter DEF Table!Next, Table!Msgs, Msgs
  <2> QED
    BY <1>3, <2>1, <2>2, <2>3, <2>4 DEF HandlerStep
<1> QED
  BY <1>1, <1>2, <1>3 DEF Next, MembershipStep, Table!Next

(* For readers the writers are MessageTable: a message shows up with its   *)
(* commit and not before, is deleted once, and nothing else that handlers  *)
(* do can be noticed.  MessageQueries reads what this allows.              *)
THEOREM WritersImplementTable == Spec => ImplementsTable
<1>1. Init => Table!Init
  <2> SUFFICES ASSUME Init PROVE Table!Init
    OBVIOUS
  <2>1. \A m \in Msgs : Shown(m) = Table!NoRow
    BY IdleType DEF Init, Shown, Creating, NoMessage, Table!NoRow
  <2>2. [m \in Msgs |-> Shown(m)] = [m \in Table!Msgs |-> Table!NoRow]
    BY <2>1 DEF Msgs, Table!Msgs
  <2> QED
    BY <2>2 DEF Init, Table!Init
<1>2. WriterInv /\ [Next]_vars => [Table!Next]_(Table!tableVars)
  BY TableStep
<1> QED
  BY <1>1, <1>2, WriterInvAlways, PTL DEF Spec, ImplementsTable, Table!Spec
=============================================================================
