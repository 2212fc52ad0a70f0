------------------------ MODULE MessageQueriesProofs ------------------------
(***************************************************************************)
(* Proofs about MessageQueries, for every set of readers, users, chats and *)
(* page sizes and every number of messages.                                *)
(***************************************************************************)
EXTENDS MessageQueries, FiniteSetTheorems, FunctionTheorems, WellFoundedInduction, TLAPS

-----------------------------------------------------------------------------
(***************************************************************************)
(* Rows in an order.  R is a strict total order on the rows S, and a row   *)
(* is named by the number of rows before it.                               *)
(***************************************************************************)
Before(S, R, x) == {y \in S : <<y, x>> \in R}

IsOrder(S, R) ==
  /\ \A x \in S : <<x, x>> \notin R
  /\ \A x, y, z \in S : <<x, y>> \in R /\ <<y, z>> \in R => <<x, z>> \in R
  /\ \A x, y \in S : x = y \/ <<x, y>> \in R \/ <<y, x>> \in R

(* The number of rows before a row is below the number of rows, and grows  *)
(* along the order.                                                        *)
LEMMA RankGrows ==
  ASSUME NEW S, NEW R, IsFiniteSet(S), IsOrder(S, R)
  PROVE  /\ \A x \in S : Cardinality(Before(S, R, x)) \in 0..(Cardinality(S) - 1)
         /\ \A x, y \in S : <<x, y>> \in R =>
              Cardinality(Before(S, R, x)) < Cardinality(Before(S, R, y))
<1>1. \A x : IsFiniteSet(Before(S, R, x)) /\ Cardinality(Before(S, R, x)) \in Nat
  BY FS_Subset, FS_CardinalityType DEF Before
<1>2. Cardinality(S) \in Nat
  BY FS_CardinalityType
<1>3. ASSUME NEW x \in S PROVE Cardinality(Before(S, R, x)) <= Cardinality(S) - 1
  <2>1. Before(S, R, x) \in SUBSET (S \ {x})
    BY DEF Before, IsOrder
  <2>2. IsFiniteSet(S \ {x}) /\ Cardinality(S \ {x}) = Cardinality(S) - 1
    BY FS_RemoveElement
  <2> QED
    BY <2>1, <2>2, FS_Subset
<1>4. ASSUME NEW x \in S, NEW y \in S, <<x, y>> \in R
      PROVE  Cardinality(Before(S, R, x)) < Cardinality(Before(S, R, y))
  <2> DEFINE B == Before(S, R, x)
  <2>1. x \notin B /\ B \union {x} \in SUBSET Before(S, R, y)
    BY <1>4 DEF Before, IsOrder
  <2>2. Cardinality(B \union {x}) = Cardinality(B) + 1
    BY <1>1, <2>1, FS_AddElement
  <2>3. Cardinality(B \union {x}) <= Cardinality(Before(S, R, y))
    BY <1>1, <2>1, FS_Subset
  <2> QED
    BY <1>1, <2>2, <2>3
<1> QED
  BY <1>1, <1>2, <1>3, <1>4

(* LIMIT n OFFSET a returns at most n rows, and n if a row comes behind.   *)
LEMMA WindowSize ==
  ASSUME NEW S, NEW R, IsFiniteSet(S), IsOrder(S, R), NEW a \in Nat, NEW n \in Nat,
         NEW W, W = {x \in S : Cardinality(Before(S, R, x)) \in a..(a + n - 1)}
  PROVE  /\ IsFiniteSet(W) /\ Cardinality(W) \in Nat /\ Cardinality(W) <= n
         /\ (\E x \in S : a + n <= Cardinality(Before(S, R, x))) => Cardinality(W) = n
<1> DEFINE rank(x) == Cardinality(Before(S, R, x))
           T == 0..(Cardinality(S) - 1)
           I == a..(a + n - 1)
           f == [x \in S |-> rank(x)]
           g == [x \in W |-> rank(x)]
<1>1. /\ \A x \in S : rank(x) \in T
      /\ \A x, y \in S : <<x, y>> \in R => rank(x) < rank(y)
  BY RankGrows
<1>2. ASSUME NEW x \in S, NEW y \in S, rank(x) = rank(y) PROVE x = y
  <2>1. ~(<<x, y>> \in R) /\ ~(<<y, x>> \in R)
    <3>1. \A i, j \in T : i < j => i # j
      BY FS_CardinalityType
    <3> QED
      BY <1>1, <1>2, <3>1, Zenon
  <2> QED
    BY <2>1 DEF IsOrder
<1>3. f \in Injection(S, T) /\ g \in Injection(W, I)
  <2> HIDE DEF rank
  <2>1. f \in [S -> T] /\ \A x, y \in S : f[x] = f[y] => x = y
    BY <1>1, <1>2
  <2>2. g \in [W -> I] /\ \A x, y \in W : g[x] = g[y] => x = y
    BY <1>2 DEF rank
  <2> QED
    BY <2>1, <2>2, Fun_IsInj
<1>4. Cardinality(S) \in Nat
  BY FS_CardinalityType
<1>5. IsFiniteSet(T) /\ Cardinality(T) = Cardinality(S)
  BY <1>4, FS_Interval
<1>6. IsFiniteSet(I) /\ Cardinality(I) = n
  BY FS_Interval
<1>7. IsFiniteSet(W) /\ Cardinality(W) <= n
  BY <1>3, <1>6, FS_Injection
<1>8. ASSUME NEW x \in S, a + n <= rank(x) PROVE Cardinality(W) = n
  <2>1. f \in Surjection(S, T)
    BY <1>3, <1>5, FS_Injection
  <2>2. \A i \in T : \E y \in S : rank(y) = i
    <3>1. \A i \in T : \E y \in S : f[y] = i
      <4> HIDE DEF f, T
      <4> QED
        BY <2>1, Fun_SurjectionProperties
    <3>2. \A y \in S : f[y] = rank(y)
      BY DEF f
    <3> HIDE DEF f, rank, T
    <3> QED
      BY <3>1, <3>2, Zenon
  <2>3. I \subseteq T
    BY <1>1, <1>4, <1>8
  <2>4. \A i \in I : \E y \in W : rank(y) = i
    BY <2>2, <2>3
  <2>5. g \in Surjection(W, I)
    <3>1. \A i \in I : \E y \in W : g[y] = i
      BY <2>4
    <3>2. g \in [W -> I]
      BY <1>3, Fun_InjectionProperties
    <3> QED
      BY <3>1, <3>2, Fun_IsSurj
  <2> QED
    BY <1>3, <1>6, <2>5, FS_Injection
<1> QED
  BY <1>7, <1>8, FS_CardinalityType

-----------------------------------------------------------------------------
(***************************************************************************)
(* The pages.                                                              *)
(***************************************************************************)

(* Sets of numbers have a least one.                                       *)
LEMMA MinIsLeast ==
  ASSUME NEW S \in SUBSET Nat, S # {}
  PROVE  Min(S) \in S /\ \A k \in S : Min(S) <= k
<1>1. \E i \in S : \A k \in S : ~(<<k, i>> \in OpToRel(<, Nat))
  BY NatLessThanWellFounded, WFMin
<1>2. OpToRel(<, Nat) = {ss \in Nat \X Nat : ss[1] < ss[2]}
  BY Zenon DEF OpToRel
<1>3. \A x, y \in Nat : x < y => <<x, y>> \in OpToRel(<, Nat)
  <2>1. \A x, y \in Nat : x < y => <<x, y>> \in {ss \in Nat \X Nat : ss[1] < ss[2]}
    OBVIOUS
  <2> QED
    BY <1>2, <2>1, Zenon
<1>4. \E i \in S : \A k \in S : ~(k < i)
  BY <1>1, <1>3, Zenon
<1>5. \E i \in S : \A k \in S : i <= k
  BY <1>4
<1> QED
  BY <1>5 DEF Min

(* What a page of messages is cut from.                                    *)
Older(c, before) == {m \in MessagesOf(c) : before = 0 \/ m < before}

(* A page of messages is cut from the newest end of what is older than the *)
(* cursor, and is all of it when it is not full.                           *)
LEMMA MessagePage ==
  ASSUME NEW c, NEW before, NEW n \in Nat, n > 0,
         NEW P, P = GetChatMessages(c, before, n)
  PROVE  /\ P \subseteq Older(c, before) /\ P \subseteq Msgs
         /\ Cardinality(P) <= n
         /\ Cardinality(P) # n => P = Older(c, before)
         /\ \A m \in P, k \in Older(c, before) : m <= k => k \in P
         /\ P # {} => Min(P) \in P /\ \A m \in P : Min(P) <= m
<1> DEFINE S == Older(c, before)
           R == {p \in S \X S : p[1] > p[2]}
<1>1. S \subseteq Msgs /\ Msgs \subseteq Nat /\ IsFiniteSet(Msgs)
  BY FS_Interval, TableAssumption DEF Older, MessagesOf, Msgs
<1>2. IsFiniteSet(S)
  BY <1>1, FS_Subset
<1>3. IsOrder(S, R)
  <2>1. \A x, y \in S : <<x, y>> \in R <=> x > y
    OBVIOUS
  <2>2. S \subseteq Nat
    BY <1>1
  <2> HIDE DEF S, R
  <2> QED
    BY <2>1, <2>2 DEF IsOrder
<1>4. \A m \in S : Before(S, R, m) = {k \in S : k > m}
  BY DEF Before
<1>5. P = {m \in S : Cardinality({k \in S : k > m}) < n}
  BY DEF GetChatMessages, Older
<1>6. \A m \in S : Cardinality(Before(S, R, m)) \in Nat
  BY <1>2, FS_Subset, FS_CardinalityType DEF Before
<1> HIDE DEF S, R
<1>7. P = {m \in S : Cardinality(Before(S, R, m)) \in 0..(0 + n - 1)}
  <2>1. \A m \in S : Cardinality({k \in S : k > m}) < n <=>
                     Cardinality(Before(S, R, m)) \in 0..(0 + n - 1)
    BY <1>4, <1>6
  <2> QED
    BY <1>5, <2>1
<1>8. /\ Cardinality(P) <= n
      /\ (\E m \in S : 0 + n <= Cardinality(Before(S, R, m))) => Cardinality(P) = n
  BY <1>2, <1>3, <1>7, WindowSize
<1>9. Cardinality(P) # n => P = S
  BY <1>6, <1>7, <1>8
<1>10. ASSUME NEW m \in P, NEW k \in S, m <= k PROVE k \in P
  <2>1. CASE m = k
    BY <2>1
  <2>2. CASE m # k
    <3>1. <<k, m>> \in R
      BY <1>1, <1>5, <1>10, <2>2 DEF R
    <3>2. Cardinality(Before(S, R, k)) < Cardinality(Before(S, R, m))
      BY <1>2, <1>3, <1>5, <3>1, RankGrows
    <3> QED
      BY <1>6, <1>7, <3>2
  <2> QED
    BY <2>1, <2>2
<1>11. P \subseteq S
  BY <1>5
<1>12. P # {} => Min(P) \in P /\ \A m \in P : Min(P) <= m
  <2>1. P \in SUBSET Nat
    BY <1>1, <1>11
  <2> QED
    BY <2>1, MinIsLeast
<1> QED
  BY <1>1, <1>8, <1>9, <1>10, <1>11, <1>12 DEF S

(* A page of chats holds the positions from its offset on, and when it is  *)
(* not full no chat comes behind it.                                       *)
LEMMA ChatPage ==
  ASSUME last \in [Chats -> 0..MaxTx], NEW u, NEW a \in Nat, NEW n \in Nat,
         NEW P, P = ListUserChatsSummary(u, a, n)
  PROVE  /\ \A c \in ChatsOf(u) : Position(u, c) \in Nat
         /\ P = {c \in ChatsOf(u) : a <= Position(u, c) /\ Position(u, c) < a + n}
         /\ Cardinality(P) <= n
         /\ Cardinality(P) # n => \A c \in ChatsOf(u) : Position(u, c) < a + n
<1> DEFINE S == ChatsOf(u)
           R == {p \in S \X S : MoreRecent(p[1], p[2])}
<1>1. S \subseteq Chats /\ IsFiniteSet(S)
  BY FS_Subset, QueriesAssumption DEF ChatsOf
<1>2. \A x, y \in S : <<x, y>> \in R <=> MoreRecent(x, y)
  OBVIOUS
<1>3. IsOrder(S, R)
  <2> HIDE DEF S, R
  <2>1. \A x \in S : x \in Nat /\ last[x] \in Nat
    BY <1>1, QueriesAssumption, TableAssumption
  <2> QED
    BY <1>2, <2>1 DEF IsOrder, MoreRecent
<1>4. \A c \in S : Before(S, R, c) = {d \in S : MoreRecent(d, c)}
  <2> HIDE DEF R
  <2> QED
    BY <1>2 DEF Before
<1>5. \A c \in S : Position(u, c) = Cardinality(Before(S, R, c))
  BY <1>4 DEF Position
<1>6. \A c \in S : Position(u, c) \in Nat
  <2>1. \A c \in S : Before(S, R, c) \in SUBSET S
    BY DEF Before
  <2> HIDE DEF S, R
  <2>2. \A c \in S : IsFiniteSet(Before(S, R, c))
    BY <1>1, <2>1, FS_Subset
  <2> QED
    BY <1>5, <2>2, FS_CardinalityType
<1>7. P = {c \in S : Position(u, c) \in a..(a + n - 1)}
  BY DEF ListUserChatsSummary
<1> HIDE DEF S, R
<1>8. P = {c \in S : Cardinality(Before(S, R, c)) \in a..(a + n - 1)}
  BY <1>5, <1>7
<1>9. /\ Cardinality(P) <= n
      /\ (\E c \in S : a + n <= Cardinality(Before(S, R, c))) => Cardinality(P) = n
  BY <1>1, <1>3, <1>8, WindowSize
<1>10. Cardinality(P) # n => \A c \in S : Position(u, c) < a + n
  BY <1>5, <1>6, <1>9
<1>11. P = {c \in S : a <= Position(u, c) /\ Position(u, c) < a + n}
  BY <1>6, <1>7
<1> QED
  BY <1>6, <1>9, <1>10, <1>11 DEF S

-----------------------------------------------------------------------------
(***************************************************************************)
(* The writers' steps.                                                     *)
(***************************************************************************)

(* What a step of the writers leaves alone: a message is committed once,   *)
(* in its chat, and shown only until it is deleted; what becomes the last  *)
(* message of a chat was not committed before.                             *)
LEMMA WriterEffect ==
  ASSUME TableTypeOK, LastInv, Next
  PROVE  /\ TableTypeOK' /\ LastInv'
         /\ \A m \in Msgs : Committed(m) =>
              /\ Committed(m)' /\ table'[m].chat = table[m].chat
              /\ table'[m].state = "live" => table[m].state = "live"
         /\ \A c \in Chats : last'[c] # last[c] => last'[c] \in Msgs /\ ~Committed(last'[c])
<1> USE TableAssumption DEF Msgs
<1>1. ASSUME NEW c \in Chats \union {NoChat}, Start(c)
      PROVE  /\ TableTypeOK' /\ UNCHANGED last
             /\ \A m \in Msgs : Committed(m) => table'[m] = table[m]
  <2>1. clock + 1 \in Msgs /\ table[clock + 1].state = "free"
    BY <1>1 DEF Start, TableTypeOK
  <2>2. CASE c = NoChat
    BY <1>1, <2>2 DEF Start, TableTypeOK, Committed
  <2>3. CASE c # NoChat
    <3>1. table' = [table EXCEPT ![clock + 1] = [state |-> "open", chat |-> c]]
      BY <1>1, <2>3 DEF Start
    <3> QED
      BY <1>1, <2>1, <2>3, <3>1 DEF Start, TableTypeOK, Committed
  <2> QED
    BY <2>2, <2>3
<1>2. ASSUME NEW m \in Msgs, CommitCreate(m)
      PROVE  /\ TableTypeOK' /\ ~Committed(m) /\ Committed(m)'
             /\ \A k \in Msgs : k # m => table'[k] = table[k]
             /\ \A c \in Chats : last'[c] # last[c] => last'[c] = m
             /\ table'[m].state = "live"
  <2>1. table[m].chat \in Chats /\ ~Committed(m)
    BY <1>2 DEF CommitCreate, TableTypeOK, Committed
  <2>2. table' = [table EXCEPT ![m] = [state |-> "live", chat |-> table[m].chat]]
    <3>1. table[m] \in [state : {"free", "open", "live", "deleted"}, chat : Chats \union {NoChat}]
      BY DEF TableTypeOK
    <3>2. [table[m] EXCEPT !.state = "live"] = [state |-> "live", chat |-> table[m].chat]
      BY <3>1
    <3>3. table' = [table EXCEPT ![m] = [table[m] EXCEPT !.state = "live"]]
      BY <1>2 DEF CommitCreate
    <3> QED
      BY <3>2, <3>3, Zenon
  <2>3. last' \in [Chats -> 0..MaxTx] /\ \A c \in Chats : last'[c] # last[c] => last'[c] = m
    BY <1>2, <2>1 DEF CommitCreate, TableTypeOK
  <2>4. /\ table' \in [Msgs -> [state : {"free", "open", "live", "deleted"},
                                chat : Chats \union {NoChat}]]
        /\ table'[m] = [state |-> "live", chat |-> table[m].chat]
        /\ \A k \in Msgs : k # m => table'[k] = table[k]
    BY <2>1, <2>2 DEF TableTypeOK
  <2>5. m <= clock
    BY <1>2 DEF CommitCreate, TableTypeOK
  <2>6. TableTypeOK'
    BY <1>2, <2>1, <2>3, <2>4, <2>5 DEF CommitCreate, TableTypeOK
  <2> QED
    BY <2>1, <2>3, <2>4, <2>6 DEF Committed
<1>3. ASSUME NEW m \in Msgs, RollbackCreate(m)
      PROVE  /\ TableTypeOK' /\ UNCHANGED last
             /\ \A k \in Msgs : Committed(k) => table'[k] = table[k]
  BY <1>3 DEF RollbackCreate, TableTypeOK, Committed, NoRow
<1>4. ASSUME NEW m \in Msgs, SoftDelete(m)
      PROVE  /\ TableTypeOK' /\ UNCHANGED last
             /\ table[m].state = "live" /\ table'[m].state = "deleted"
             /\ table'[m].chat = table[m].chat
             /\ \A k \in Msgs : k # m => table'[k] = table[k]
  BY <1>4 DEF SoftDelete, TableTypeOK
<1>5. ASSUME NEW c \in Chats, NEW u \in Users, AddMember(c, u) \/ RemoveMember(c, u)
      PROVE  TableTypeOK' /\ UNCHANGED <<table, last>>
  BY <1>5 DEF AddMember, RemoveMember, TableTypeOK
<1>6. \A c \in Chats : last[c] # 0 => last[c] \in Msgs
  BY DEF TableTypeOK
<1>7. ASSUME TableTypeOK',
             \A m \in Msgs : Committed(m) =>
               /\ Committed(m)' /\ table'[m].chat = table[m].chat
               /\ table'[m].state = "live" => table[m].state = "live",
             \A c \in Chats : last'[c] = last[c] \/ (last'[c] \in Msgs /\ table'[last'[c]].state = "live")
      PROVE  LastInv'
  <2> SUFFICES ASSUME NEW c \in Chats, last'[c] # 0
               PROVE  table'[last'[c]].state \in {"live", "deleted"}
    BY DEF LastInv, Committed
  <2>1. CASE last'[c] = last[c]
    BY <1>6, <1>7, <2>1 DEF LastInv, Committed
  <2>2. CASE last'[c] # last[c]
    BY <1>7, <2>2
  <2> QED
    BY <2>1, <2>2
<1>8. CASE \E c \in Chats \union {NoChat} : Start(c)
  BY <1>1, <1>7, <1>8 DEF Committed
<1>9. CASE \E m \in Msgs : CommitCreate(m)
  BY <1>2, <1>7, <1>9 DEF Committed
<1>10. CASE \E m \in Msgs : RollbackCreate(m)
  BY <1>3, <1>7, <1>10 DEF Committed
<1>11. CASE \E m \in Msgs : SoftDelete(m)
  BY <1>4, <1>7, <1>11 DEF Committed
<1>12. CASE \E c \in Chats, u \in Users : AddMember(c, u) \/ RemoveMember(c, u)
  BY <1>5, <1>7, <1>12 DEF Committed
<1> QED
  BY <1>8, <1>9, <1>10, <1>11, <1>12 DEF Next

(* A chat of the list keeps its place or falls back, as long as it has no  *)
(* new message and none has moved up.                                      *)
LEMMA PositionGrows ==
  ASSUME TableTypeOK, TableTypeOK', NEW u \in Users, NEW c \in Chats, ~ListMovesUp(u),
         last'[c] = last[c]
  PROVE  /\ Position(u, c) \in Nat /\ Position(u, c)' \in Nat
         /\ Position(u, c) <= Position(u, c)'
<1> DEFINE D == {d \in ChatsOf(u) : MoreRecent(d, c)}
           E == {d \in ChatsOf(u)' : MoreRecent(d, c)'}
<1>1. D \in SUBSET Chats /\ E \in SUBSET Chats
  BY DEF ChatsOf
<1>2. \A d \in Chats : d \in Nat /\ last[d] \in Nat /\ last'[d] \in Nat /\ last[d] <= last'[d]
  BY QueriesAssumption, TableAssumption DEF ListMovesUp, TableTypeOK
<1>3. \A d \in ChatsOf(u) : d \in ChatsOf(u)'
  BY DEF ChatsOf, ListMovesUp
<1>4. \A d \in Chats : MoreRecent(d, c) => MoreRecent(d, c)'
  BY <1>2 DEF MoreRecent
<1>5. D \in SUBSET E
  BY <1>3, <1>4 DEF ChatsOf
<1>6. IsFiniteSet(D) /\ IsFiniteSet(E)
  BY <1>1, FS_Subset, QueriesAssumption
<1>7. Cardinality(D) \in Nat /\ Cardinality(E) \in Nat /\ Cardinality(D) <= Cardinality(E)
  BY <1>5, <1>6, FS_Subset, FS_CardinalityType
<1> QED
  BY <1>7 DEF Position

(* What the writers leave to a reader.                                     *)
LEMMA WritersKeepReader ==
  ASSUME QueryInv, WritersStep, NEW r \in Readers
  PROVE  view'[r] \in ViewType /\ PagesOK(r)' /\ ScrollInv(r)' /\ ListInv(r)'
<1> DEFINE v == view[r]
           w == view'[r]
<1>1. /\ TableTypeOK' /\ TableTypeOK
      /\ \A m \in Msgs : Committed(m) =>
           /\ Committed(m)' /\ table'[m].chat = table[m].chat
           /\ table'[m].state = "live" => table[m].state = "live"
      /\ \A c \in Chats : last'[c] # last[c] => last'[c] \in Msgs /\ ~Committed(last'[c])
  BY WriterEffect DEF QueryInv, QueryTypeOK, WritersStep
<1>2. v \in ViewType /\ PagesOK(r) /\ ScrollInv(r) /\ ListInv(r)
  BY DEF QueryInv, QueryTypeOK
<1>3. w = IF v.pc = "chats" /\ ListMovesUp(v.user) THEN [v EXCEPT !.moved = TRUE] ELSE v
  BY DEF WritersStep
<1>4. /\ w \in ViewType
      /\ w.pc = v.pc /\ w.user = v.user /\ w.limit = v.limit /\ w.chat = v.chat
      /\ w.before = v.before /\ w.offset = v.offset /\ w.got = v.got /\ w.base = v.base
      /\ w.list = v.list
      /\ ~w.moved => ~v.moved /\ (v.pc = "chats" => ~ListMovesUp(v.user))
  <2>1. CASE v.pc = "chats" /\ ListMovesUp(v.user)
    <3>1. w = [v EXCEPT !.moved = TRUE]
      BY <1>3, <2>1
    <3> HIDE DEF v, w
    <3> QED
      BY <1>2, <3>1 DEF ViewType
  <2>2. CASE ~(v.pc = "chats" /\ ListMovesUp(v.user))
    <3>1. w = v
      BY <1>3, <2>2
    <3> QED
      BY <1>2, <2>2, <3>1
  <2> QED
    BY <2>1, <2>2
<1>5. Got(r)' = Got(r)
  BY <1>4 DEF Got
<1>6. PagesOK(r)'
  BY <1>2, <1>4 DEF PagesOK
<1>7. ScrollInv(r)'
  <2> SUFFICES ASSUME v.pc \in Scrolling PROVE ScrollInv(r)'
    BY <1>4 DEF ScrollInv
  <2>1. \A m \in v.base : m \in Msgs /\ Committed(m) /\ Committed(m)'
    BY <1>1, <1>2 DEF ScrollInv, ViewType
  <2>2. \A m \in v.base : m \in MessagesOf(v.chat)' => m \in MessagesOf(v.chat)
    BY <1>1, <2>1, <1>4 DEF MessagesOf
  <2> QED
    BY <1>2, <1>4, <1>5, <2>1, <2>2 DEF ScrollInv, MessagesOf
<1>8. ListInv(r)'
  <2> SUFFICES ASSUME v.pc \in Listing PROVE ListInv(r)'
    BY <1>4 DEF ListInv
  <2>1. \A b \in v.list : b[1] \in Chats /\ b[2] \in 0..MaxTx
    BY <1>2 DEF ViewType
  <2>2. \A b \in v.list : b[2] # 0 => Committed(b[2]) /\ Committed(b[2])'
    BY <1>1, <1>2, <2>1, TableAssumption DEF ListInv, Msgs
  <2>3. \A b \in v.list : last'[b[1]] = b[2] => last[b[1]] = b[2]
    BY <1>1, <2>1, <2>2, TableAssumption DEF Msgs
  <2>4. ASSUME v.pc = "chats", ~w.moved, NEW b \in v.list, NEW u, u = v.user
        PROVE  /\ <<b[1], u>> \in member'
               /\ last'[b[1]] = b[2] /\ Position(u, b[1])' < w.offset => b[1] \in Got(r)
    <3>1. ~v.moved /\ ~ListMovesUp(u) /\ u \in Users
      BY <1>2, <1>4, <2>4 DEF PagesOK
    <3>2. <<b[1], u>> \in member
      BY <1>2, <2>4, <3>1 DEF ListInv
    <3>3. <<b[1], u>> \in member'
      BY <2>1, <2>4, <3>1, <3>2 DEF ListMovesUp
    <3>4. ASSUME last'[b[1]] = b[2], Position(u, b[1])' < w.offset
          PROVE  b[1] \in Got(r)
      <4>1. last[b[1]] = b[2]
        BY <2>3, <2>4, <3>4
      <4>2. /\ Position(u, b[1]) \in Nat /\ Position(u, b[1])' \in Nat
            /\ Position(u, b[1]) <= Position(u, b[1])'
        BY <1>1, <2>1, <2>4, <3>1, <3>4, <4>1, PositionGrows
      <4>3. Position(u, b[1]) < v.offset
        BY <1>2, <1>4, <3>4, <4>2 DEF ViewType
      <4> QED
        BY <1>2, <2>4, <3>1, <4>1, <4>3 DEF ListInv
    <3> QED
      BY <1>4, <3>3, <3>4
  <2>5. ASSUME v.pc = "listed", ~w.moved, NEW b \in v.list, last'[b[1]] = b[2]
        PROVE  b[1] \in Got(r)
    BY <1>2, <1>4, <2>3, <2>5 DEF ListInv
  <2> QED
    BY <1>4, <1>5, <2>2, <2>4, <2>5 DEF ListInv
<1> QED
  BY <1>4, <1>6, <1>7, <1>8

-----------------------------------------------------------------------------
(***************************************************************************)
(* The readers' steps.                                                     *)
(***************************************************************************)

(* All that the invariant says of one reader.                              *)
ReaderOK(r) == view[r] \in ViewType /\ PagesOK(r) /\ ScrollInv(r) /\ ListInv(r)

(* A reader that does not move keeps its part of the invariant.            *)
LEMMA OtherReader ==
  ASSUME NEW q \in Readers, ReaderOK(q), UNCHANGED tableVars, view'[q] = view[q]
  PROVE  ReaderOK(q)'
<1>1. UNCHANGED <<table, member, last>>
  BY DEF tableVars
<1>2. Got(q)' = Got(q)
  BY DEF Got
<1>3. PagesOK(q)'
  BY DEF ReaderOK, PagesOK
<1>4. ScrollInv(q)'
  BY <1>1, <1>2 DEF ReaderOK, ScrollInv, MessagesOf, Committed
<1>5. ListInv(q)'
  BY <1>1, <1>2 DEF ReaderOK, ListInv, Position, ChatsOf, MoreRecent, Committed
<1> QED
  BY <1>3, <1>4, <1>5 DEF ReaderOK

(* A reader that has got nothing yet.                                      *)
LEMMA FreshReader ==
  ASSUME NEW r \in Readers, view'[r].got = <<>>
  PROVE  Got(r)' = {}
BY DEF Got

(* A reader that leaves has nothing to account for.                        *)
LEMMA IdleReader ==
  ASSUME NEW r \in Readers, view'[r] = NoView
  PROVE  ReaderOK(r)'
<1>1. NoView \in ViewType /\ NoView.pc = "idle" /\ NoView.got = <<>>
  BY TableAssumption DEF NoView, ViewType
<1>2. PagesOK(r)' /\ ScrollInv(r)' /\ ListInv(r)'
  BY <1>1 DEF PagesOK, ScrollInv, ListInv, Scrolling, Listing
<1> QED
  BY <1>1, <1>2 DEF ReaderOK

(* One more page.                                                          *)
LEMMA AppendPage ==
  ASSUME NEW r \in Readers, view[r] \in ViewType, NEW P \in SUBSET (Msgs \union Chats),
         view'[r].got = Append(view[r].got, P)
  PROVE  /\ view'[r].got \in Seq(SUBSET (Msgs \union Chats))
         /\ Len(view'[r].got) = Len(view[r].got) + 1
         /\ \A i \in 1..Len(view[r].got) : view'[r].got[i] = view[r].got[i]
         /\ view'[r].got[Len(view[r].got) + 1] = P
         /\ Got(r)' = Got(r) \union P
<1>1. view[r].got \in Seq(SUBSET (Msgs \union Chats))
  BY DEF ViewType
<1>2. /\ view'[r].got \in Seq(SUBSET (Msgs \union Chats))
      /\ Len(view[r].got) \in Nat /\ Len(view'[r].got) = Len(view[r].got) + 1
      /\ \A i \in 1..Len(view[r].got) : view'[r].got[i] = view[r].got[i]
      /\ view'[r].got[Len(view[r].got) + 1] = P
  BY <1>1
<1>3. \A i : i \in 1..(Len(view[r].got) + 1) <=> i \in 1..Len(view[r].got) \/ i = Len(view[r].got) + 1
  BY <1>2
<1>4. \A x : x \in Got(r)' <=> \E i \in 1..Len(view'[r].got) : x \in view'[r].got[i]
  BY DEF Got
<1>5. \A x : x \in Got(r) <=> \E i \in 1..Len(view[r].got) : x \in view[r].got[i]
  BY DEF Got
<1>6. \A x : x \in Got(r)' <=> x \in Got(r) \/ x \in P
  BY <1>2, <1>3, <1>4, <1>5
<1> QED
  BY <1>2, <1>6

(* Who begins to scroll has got nothing, and nothing is above the cursor.  *)
LEMMA ScrollKeeps ==
  ASSUME QueryInv, NEW r \in Readers, NEW u \in Users, NEW c \in Chats, NEW n \in Limits,
         Scroll(r, u, c, n), UNCHANGED tableVars
  PROVE  ReaderOK(r)'
<1> DEFINE w == view'[r]
<1>1. w = [NoView EXCEPT !.pc = "listMember", !.user = u, !.limit = n, !.chat = c,
                         !.base = MessagesOf(c)]
  BY DEF Scroll, QueryInv, QueryTypeOK
<1>2. /\ w.pc = "listMember" /\ w.user = u /\ w.limit = n /\ w.chat = c /\ w.before = 0
      /\ w.got = <<>> /\ w.base = MessagesOf(c) /\ w \in ViewType
  <2>1. w = [pc |-> "listMember", user |-> u, limit |-> n, chat |-> c, before |-> 0, offset |-> 0,
             got |-> <<>>, base |-> MessagesOf(c), list |-> {}, moved |-> FALSE]
    BY <1>1 DEF NoView
  <2>2. MessagesOf(c) \in SUBSET Msgs /\ 0 \in 0..MaxTx
    BY TableAssumption DEF MessagesOf
  <2> HIDE DEF w
  <2> QED
    BY <2>1, <2>2 DEF ViewType, Scrolling
<1>3. Got(r)' = {}
  BY <1>2, FreshReader
<1> HIDE DEF w
<1>4. PagesOK(r)'
  BY <1>2 DEF PagesOK, w
<1>5. UNCHANGED table
  BY DEF tableVars
<1>6. ScrollInv(r)'
  BY <1>2, <1>3, <1>5 DEF ScrollInv, MessagesOf, Committed, NewestFirst, w
<1>7. ListInv(r)'
  BY <1>2 DEF ListInv, Listing, w
<1> QED
  BY <1>2, <1>4, <1>6, <1>7 DEF ReaderOK, w

(* The membership check of a page moves neither the cursor nor the list.   *)
LEMMA ListMemberKeeps ==
  ASSUME QueryInv, NEW r \in Readers, ListMember(r), UNCHANGED tableVars
  PROVE  ReaderOK(r)'
<1> DEFINE v == view[r]
           w == view'[r]
<1>1. CASE <<view[r].chat, view[r].user>> \notin member
  BY <1>1, IdleReader DEF ListMember, QueryInv, QueryTypeOK
<1>2. CASE <<view[r].chat, view[r].user>> \in member
  <2>1. v \in ViewType /\ PagesOK(r) /\ ScrollInv(r) /\ v.pc = "listMember"
    BY DEF QueryInv, QueryTypeOK, ListMember
  <2>2. w = [v EXCEPT !.pc = "list"]
    BY <1>2 DEF ListMember, QueryInv, QueryTypeOK
  <2>3. /\ w \in ViewType /\ w.pc = "list" /\ w.user = v.user /\ w.limit = v.limit
        /\ w.chat = v.chat /\ w.before = v.before /\ w.got = v.got /\ w.base = v.base
    <3> HIDE DEF v, w
    <3> QED
      BY <2>1, <2>2 DEF ViewType, Scrolling
  <2>4. Got(r)' = Got(r)
    BY <2>3 DEF Got
  <2>5. PagesOK(r)'
    BY <2>1, <2>3 DEF PagesOK, Scrolling
  <2>6. UNCHANGED table
    BY DEF tableVars
  <2>7. ScrollInv(r)'
    BY <2>1, <2>3, <2>4, <2>6 DEF ScrollInv, MessagesOf, Committed, Scrolling
  <2>8. ListInv(r)'
    BY <2>3 DEF ListInv, Listing
  <2> QED
    BY <2>3, <2>5, <2>7, <2>8 DEF ReaderOK
<1> QED
  BY <1>1, <1>2

(* The next page of messages starts below the oldest one of this page, and *)
(* the page leaves out nothing between the cursors.                        *)
LEMMA ListByChatKeeps ==
  ASSUME QueryInv, NEW r \in Readers, ListByChat(r), UNCHANGED tableVars
  PROVE  ReaderOK(r)'
<1> DEFINE v == view[r]
           w == view'[r]
           P == GetChatMessages(v.chat, v.before, v.limit)
           L == Len(v.got)
<1>1. v \in ViewType /\ PagesOK(r) /\ ScrollInv(r) /\ v.pc = "list"
  BY DEF QueryInv, QueryTypeOK, ListByChat
<1>2. w = [v EXCEPT !.pc = IF Cardinality(P) = v.limit THEN "listMember" ELSE "scrolled",
                    !.before = IF P = {} THEN @ ELSE Min(P),
                    !.got = Append(@, P)]
  BY DEF ListByChat, QueryInv, QueryTypeOK
<1>3. v.limit \in Limits /\ v.limit \in Nat /\ v.limit > 0 /\ v.chat \in Chats
  <2>1. v.limit \in Limits /\ v.chat \in Chats
    BY <1>1 DEF PagesOK, Scrolling
  <2> HIDE DEF v
  <2>2. \A n \in Limits : n \in Nat /\ n > 0
    BY QueriesAssumption
  <2> QED
    BY <2>1, <2>2
<1>4. /\ P \subseteq Older(v.chat, v.before) /\ P \subseteq Msgs
      /\ Cardinality(P) <= v.limit
      /\ Cardinality(P) # v.limit => P = Older(v.chat, v.before)
      /\ \A m \in P, k \in Older(v.chat, v.before) : m <= k => k \in P
      /\ P # {} => Min(P) \in P /\ \A m \in P : Min(P) <= m
  <2> HIDE DEF v
  <2>1. \A Q : Q = P =>
          /\ Q \subseteq Older(v.chat, v.before) /\ Q \subseteq Msgs
          /\ Cardinality(Q) <= v.limit
          /\ Cardinality(Q) # v.limit => Q = Older(v.chat, v.before)
          /\ \A m \in Q, k \in Older(v.chat, v.before) : m <= k => k \in Q
          /\ Q # {} => Min(Q) \in Q /\ \A m \in Q : Min(Q) <= m
    BY <1>3, MessagePage
  <2> QED
    BY <2>1
<1>5. \A m \in Older(v.chat, v.before) :
        m \in MessagesOf(v.chat) /\ (v.before = 0 \/ m < v.before)
  BY DEF Older
<1>6. \A m \in MessagesOf(v.chat) :
        m \in Msgs /\ (v.before = 0 \/ m < v.before => m \in Older(v.chat, v.before))
  BY DEF Older, MessagesOf
<1>7. \A m \in Msgs : m \in Nat /\ m > 0 /\ m \in 0..MaxTx
  BY TableAssumption DEF Msgs
<1>8. v.before \in Nat /\ v.before \in 0..MaxTx /\ L \in Nat
  BY <1>1, TableAssumption DEF ViewType
<1> HIDE DEF P
<1>9. /\ w.pc = IF Cardinality(P) = v.limit THEN "listMember" ELSE "scrolled"
      /\ w.before = IF P = {} THEN v.before ELSE Min(P)
      /\ w.got = Append(v.got, P)
      /\ w.user = v.user /\ w.limit = v.limit /\ w.chat = v.chat /\ w.base = v.base
      /\ w.list = v.list /\ w.offset = v.offset /\ w.moved = v.moved
      /\ w = [pc |-> w.pc, user |-> w.user, limit |-> w.limit, chat |-> w.chat,
              before |-> w.before, offset |-> w.offset, got |-> w.got, base |-> w.base,
              list |-> w.list, moved |-> w.moved]
  <2> HIDE DEF v, w
  <2> QED
    BY <1>1, <1>2 DEF ViewType
<1>10. /\ w.got \in Seq(SUBSET (Msgs \union Chats))
       /\ Len(w.got) = L + 1
       /\ \A i \in 1..L : w.got[i] = v.got[i]
       /\ w.got[L + 1] = P
       /\ Got(r)' = Got(r) \union P
  BY <1>1, <1>4, <1>9, AppendPage
<1>11. w \in ViewType
  <2>1. w.before \in 0..MaxTx
    BY <1>4, <1>7, <1>8, <1>9
  <2> HIDE DEF v, w
  <2> QED
    BY <1>1, <1>9, <1>10, <2>1 DEF ViewType, Scrolling
<1>12. PagesOK(r)'
  <2>1. \A i \in 1..L : Cardinality(v.got[i]) = v.limit
    BY <1>1 DEF PagesOK
  <2>2. \A i \in 1..(L + 1) : i \in 1..L \/ i = L + 1
    BY <1>8
  <2>3. ASSUME NEW i \in 1..Len(w.got)
        PROVE  /\ Cardinality(w.got[i]) <= w.limit
               /\ i < Len(w.got) \/ w.pc \notin {"scrolled", "listed"} =>
                    Cardinality(w.got[i]) = w.limit
    <3>1. CASE i \in 1..L
      BY <1>3, <1>9, <1>10, <2>1, <3>1
    <3>2. CASE i = L + 1
      BY <1>4, <1>8, <1>9, <1>10, <3>2
    <3> QED
      BY <1>10, <2>2, <2>3, <3>1, <3>2
  <2>4. w.user \in Users /\ w.limit \in Limits /\ w.chat \in Chats
    BY <1>1, <1>3, <1>9 DEF PagesOK
  <2> QED
    BY <2>3, <2>4 DEF PagesOK
<1>13. UNCHANGED table
  BY DEF tableVars
<1>14. MessagesOf(view[r].chat)' = MessagesOf(v.chat)
  BY <1>9, <1>13 DEF MessagesOf
<1>15. /\ \A m \in v.base : Committed(m)
       /\ NewestFirst(v.got)
       /\ \A m \in Got(r) : v.before # 0 /\ m \in Msgs /\ v.before <= m
       /\ \A m \in v.base \intersect MessagesOf(v.chat) :
            v.before # 0 /\ v.before <= m => m \in Got(r)
  BY <1>1 DEF ScrollInv, Scrolling
<1>16. NewestFirst(w.got)
  <2> SUFFICES ASSUME NEW i \in 1..(L + 1), NEW j \in 1..(L + 1), i < j,
                      NEW m \in w.got[i], NEW k \in w.got[j]
               PROVE  m > k
    BY <1>10 DEF NewestFirst
  <2>1. i \in 1..L /\ (j \in 1..L \/ j = L + 1)
    BY <1>8
  <2>2. CASE j \in 1..L
    BY <1>10, <1>15, <2>1, <2>2 DEF NewestFirst
  <2>3. CASE j = L + 1
    <3>1. k \in P /\ m \in v.got[i]
      BY <1>10, <2>1, <2>3
    <3>2. m \in Got(r)
      BY <2>1, <3>1 DEF Got
    <3>3. v.before # 0 /\ m \in Msgs /\ v.before <= m
      BY <1>15, <3>2
    <3>4. k < v.before /\ k \in Msgs
      BY <1>4, <1>5, <3>1, <3>3
    <3> QED
      BY <1>7, <1>8, <3>3, <3>4
  <2> QED
    BY <2>1, <2>2, <2>3
<1>17. ASSUME NEW m \in Got(r) \union P
       PROVE  w.before # 0 /\ m \in Msgs /\ w.before <= m
  <2>1. CASE P = {}
    BY <1>9, <1>15, <1>17, <2>1
  <2>2. CASE P # {}
    <3>1. w.before = Min(P) /\ Min(P) \in P /\ Min(P) \in Msgs
      BY <1>4, <1>9, <2>2
    <3>2. CASE m \in P
      BY <1>4, <1>7, <3>1, <3>2
    <3>3. CASE m \in Got(r)
      <4>1. v.before # 0 /\ m \in Msgs /\ v.before <= m
        BY <1>15, <3>3
      <4>2. Min(P) < v.before
        BY <1>4, <1>5, <3>1, <4>1
      <4> QED
        BY <1>7, <1>8, <3>1, <4>1, <4>2
    <3> QED
      BY <1>17, <3>2, <3>3
  <2> QED
    BY <2>1, <2>2
<1>18. ASSUME NEW m \in v.base \intersect MessagesOf(v.chat),
              w.pc = "scrolled" \/ (w.before # 0 /\ w.before <= m)
       PROVE  m \in Got(r) \union P
  <2>1. CASE v.before # 0 /\ v.before <= m
    BY <1>15, <2>1
  <2>2. CASE ~(v.before # 0 /\ v.before <= m)
    <3>1. m \in Older(v.chat, v.before)
      BY <1>6, <1>7, <1>8, <2>2
    <3>2. CASE w.pc = "scrolled"
      BY <1>4, <1>9, <3>1, <3>2
    <3>3. CASE w.before # 0 /\ w.before <= m
      <4>1. P # {}
        BY <1>9, <2>2, <3>3
      <4> QED
        BY <1>4, <1>9, <3>1, <3>3, <4>1
    <3> QED
      BY <1>18, <3>2, <3>3
  <2> QED
    BY <2>1, <2>2
<1>19. ScrollInv(r)'
  <2>1. \A m \in w.base : Committed(m)'
    BY <1>9, <1>13, <1>15 DEF Committed
  <2> QED
    BY <1>9, <1>10, <1>14, <1>16, <1>17, <1>18, <2>1 DEF ScrollInv
<1>20. ListInv(r)'
  BY <1>9 DEF ListInv, Listing
<1> QED
  BY <1>11, <1>12, <1>19, <1>20 DEF ReaderOK

(* Who opens the list of chats has got nothing, and no chat is before the  *)
(* offset 0.                                                               *)
LEMMA OpenListKeeps ==
  ASSUME QueryInv, NEW r \in Readers, NEW u \in Users, NEW n \in Limits,
         OpenList(r, u, n), UNCHANGED tableVars
  PROVE  ReaderOK(r)'
<1> DEFINE w == view'[r]
           B == {<<c, last[c]>> : c \in ChatsOf(u)}
<1>1. w = [pc |-> "chats", user |-> u, limit |-> n, chat |-> 0, before |-> 0, offset |-> 0,
           got |-> <<>>, base |-> {}, list |-> B, moved |-> FALSE]
  BY DEF OpenList, NoView, QueryInv, QueryTypeOK
<1>2. \A b \in B : \E c \in Chats : <<c, u>> \in member /\ b = <<c, last[c]>>
  BY DEF ChatsOf
<1>3. \A c \in Chats : last[c] \in 0..MaxTx /\ (last[c] # 0 => Committed(last[c]))
  BY DEF QueryInv, QueryTypeOK, TableTypeOK, LastInv
<1> HIDE DEF w, B
<1>4. B \in SUBSET (Chats \X (0..MaxTx))
  <2> SUFFICES ASSUME NEW b \in B PROVE b \in Chats \X (0..MaxTx)
    OBVIOUS
  <2>1. PICK c \in Chats : b = <<c, last[c]>>
    BY <1>2
  <2> QED
    BY <1>3, <2>1
<1>5. w \in ViewType
  BY <1>1, <1>4, TableAssumption DEF ViewType, Listing
<1>6. PagesOK(r)'
  BY <1>1 DEF PagesOK, Scrolling, w
<1>7. ScrollInv(r)'
  BY <1>1 DEF ScrollInv, Scrolling, w
<1>8. UNCHANGED <<table, member, last>>
  BY DEF tableVars
<1>9. ASSUME NEW b \in B
      PROVE  /\ b[2] # 0 => table[b[2]].state \in {"live", "deleted"}
             /\ <<b[1], u>> \in member
  <2>1. PICK c \in Chats : <<c, u>> \in member /\ b = <<c, last[c]>>
    BY <1>2, <1>9
  <2>2. b[1] = c /\ b[2] = last[c]
    BY <2>1
  <2> QED
    BY <1>3, <2>1, <2>2 DEF Committed
<1>10. ASSUME NEW b \in B PROVE ~(Position(u, b[1])' < 0)
  <2>1. PICK c \in Chats : b = <<c, last[c]>>
    BY <1>2, <1>10
  <2>2. Position(u, c) \in Nat
    <3>1. {d \in ChatsOf(u) : MoreRecent(d, c)} \in SUBSET Chats
      BY DEF ChatsOf
    <3> QED
      BY <3>1, FS_Subset, FS_CardinalityType, QueriesAssumption DEF Position
  <2>3. Position(u, c)' = Position(u, c)
    BY <1>8 DEF Position, ChatsOf, MoreRecent
  <2>4. b[1] = c
    BY <2>1
  <2> QED
    BY <2>2, <2>3, <2>4
<1>11. ListInv(r)'
  <2>1. w.pc = "chats" /\ w.user = u /\ w.offset = 0 /\ w.list = B
    BY <1>1
  <2>2. \A b \in B : /\ b[2] # 0 => Committed(b[2])'
                     /\ <<b[1], u>> \in member'
    BY <1>8, <1>9 DEF Committed
  <2> QED
    BY <2>1, <2>2, <1>10 DEF ListInv, w
<1> QED
  BY <1>5, <1>6, <1>7, <1>11 DEF ReaderOK, w

(* A page of chats brings what lies between the offsets; the last one      *)
(* brings the rest.                                                        *)
LEMMA ListMineKeeps ==
  ASSUME QueryInv, NEW r \in Readers, ListMine(r), UNCHANGED tableVars
  PROVE  ReaderOK(r)'
<1> DEFINE v == view[r]
           w == view'[r]
           P == ListUserChatsSummary(v.user, v.offset, v.limit)
           L == Len(v.got)
<1>1. v \in ViewType /\ PagesOK(r) /\ ListInv(r) /\ v.pc = "chats"
  BY DEF QueryInv, QueryTypeOK, ListMine
<1>2. w = [v EXCEPT !.pc = IF Cardinality(P) = v.limit THEN "chats" ELSE "listed",
                    !.offset = @ + v.limit,
                    !.got = Append(@, P)]
  BY DEF ListMine, QueryInv, QueryTypeOK
<1>3. v.user \in Users /\ v.limit \in Limits /\ v.limit \in Nat /\ v.offset \in Nat /\ L \in Nat
  <2>1. v.user \in Users /\ v.limit \in Limits
    BY <1>1 DEF PagesOK
  <2>2. v.offset \in Nat /\ L \in Nat
    BY <1>1 DEF ViewType
  <2> HIDE DEF v
  <2> QED
    BY <2>1, <2>2, QueriesAssumption
<1>4. /\ \A c \in ChatsOf(v.user) : Position(v.user, c) \in Nat
      /\ P = {c \in ChatsOf(v.user) :
                v.offset <= Position(v.user, c) /\ Position(v.user, c) < v.offset + v.limit}
      /\ Cardinality(P) <= v.limit
      /\ Cardinality(P) # v.limit =>
           \A c \in ChatsOf(v.user) : Position(v.user, c) < v.offset + v.limit
  <2>1. last \in [Chats -> 0..MaxTx]
    BY DEF QueryInv, QueryTypeOK, TableTypeOK
  <2> HIDE DEF v
  <2>2. \A Q : Q = P =>
          /\ \A c \in ChatsOf(v.user) : Position(v.user, c) \in Nat
          /\ Q = {c \in ChatsOf(v.user) :
                    v.offset <= Position(v.user, c) /\ Position(v.user, c) < v.offset + v.limit}
          /\ Cardinality(Q) <= v.limit
          /\ Cardinality(Q) # v.limit =>
               \A c \in ChatsOf(v.user) : Position(v.user, c) < v.offset + v.limit
    BY <1>3, <2>1, ChatPage
  <2> QED
    BY <2>2
<1>5. P \subseteq Chats
  BY DEF ListUserChatsSummary, ChatsOf
<1> HIDE DEF P
<1>6. /\ w.pc = IF Cardinality(P) = v.limit THEN "chats" ELSE "listed"
      /\ w.offset = v.offset + v.limit
      /\ w.got = Append(v.got, P)
      /\ w.user = v.user /\ w.limit = v.limit /\ w.chat = v.chat /\ w.base = v.base
      /\ w.list = v.list /\ w.before = v.before /\ w.moved = v.moved
      /\ w = [pc |-> w.pc, user |-> w.user, limit |-> w.limit, chat |-> w.chat,
              before |-> w.before, offset |-> w.offset, got |-> w.got, base |-> w.base,
              list |-> w.list, moved |-> w.moved]
  <2> HIDE DEF v, w
  <2> QED
    BY <1>1, <1>2 DEF ViewType
<1>7. /\ w.got \in Seq(SUBSET (Msgs \union Chats))
      /\ Len(w.got) = L + 1
      /\ \A i \in 1..L : w.got[i] = v.got[i]
      /\ w.got[L + 1] = P
      /\ Got(r)' = Got(r) \union P
  BY <1>1, <1>5, <1>6, AppendPage
<1>8. w \in ViewType
  <2>1. w.offset \in Nat
    BY <1>3, <1>6
  <2> HIDE DEF v, w
  <2> QED
    BY <1>1, <1>6, <1>7, <2>1 DEF ViewType, Listing
<1>9. PagesOK(r)'
  <2>1. \A i \in 1..L : Cardinality(v.got[i]) = v.limit
    BY <1>1 DEF PagesOK
  <2>2. \A i \in 1..(L + 1) : i \in 1..L \/ i = L + 1
    BY <1>3
  <2>3. ASSUME NEW i \in 1..Len(w.got)
        PROVE  /\ Cardinality(w.got[i]) <= w.limit
               /\ i < Len(w.got) \/ w.pc \notin {"scrolled", "listed"} =>
                    Cardinality(w.got[i]) = w.limit
    <3>1. CASE i \in 1..L
      BY <1>3, <1>6, <1>7, <2>1, <3>1
    <3>2. CASE i = L + 1
      BY <1>3, <1>4, <1>6, <1>7, <3>2
    <3> QED
      BY <1>7, <2>2, <2>3, <3>1, <3>2
  <2>4. w.user \in Users /\ w.limit \in Limits /\ w.pc \notin Scrolling
    BY <1>3, <1>6 DEF Scrolling
  <2> QED
    BY <2>3, <2>4 DEF PagesOK
<1>10. ScrollInv(r)'
  BY <1>6 DEF ScrollInv, Scrolling
<1>11. UNCHANGED <<table, member, last>>
  BY DEF tableVars
<1>12. ASSUME NEW u, u = v.user, NEW c
       PROVE  Position(u, c)' = Position(u, c)
  BY <1>11 DEF Position, ChatsOf, MoreRecent
<1>13. ASSUME NEW b \in v.list, ~v.moved
       PROVE  /\ <<b[1], v.user>> \in member
              /\ last[b[1]] = b[2] /\ (w.pc = "listed" \/ Position(v.user, b[1]) < w.offset) =>
                   b[1] \in Got(r) \union P
  <2>1. /\ <<b[1], v.user>> \in member
        /\ last[b[1]] = b[2] /\ Position(v.user, b[1]) < v.offset => b[1] \in Got(r)
    BY <1>1, <1>13 DEF ListInv, Listing
  <2>2. b[1] \in ChatsOf(v.user)
    BY <1>1, <1>13, <2>1 DEF ChatsOf, ViewType
  <2>3. Position(v.user, b[1]) \in Nat
    BY <1>4, <2>2
  <2>4. ASSUME last[b[1]] = b[2], w.pc = "listed" \/ Position(v.user, b[1]) < w.offset
        PROVE  b[1] \in Got(r) \union P
    <3>1. Position(v.user, b[1]) < v.offset + v.limit
      BY <1>4, <1>6, <2>2, <2>4
    <3>2. CASE Position(v.user, b[1]) < v.offset
      BY <2>1, <2>4, <3>2
    <3>3. CASE ~(Position(v.user, b[1]) < v.offset)
      <4>1. v.offset <= Position(v.user, b[1])
        BY <1>3, <2>3, <3>3
      <4> QED
        BY <1>4, <2>2, <3>1, <4>1
    <3> QED
      BY <3>2, <3>3
  <2> QED
    BY <2>1, <2>4
<1>14. ListInv(r)'
  <2>1. \A b \in w.list : b[2] # 0 => Committed(b[2])'
    BY <1>1, <1>6, <1>11 DEF ListInv, Listing, Committed
  <2>2. ASSUME NEW u, u = v.user, NEW b \in v.list, ~v.moved
        PROVE  /\ <<b[1], u>> \in member'
               /\ last'[b[1]] = b[2] /\ (w.pc = "listed" \/ Position(u, b[1])' < w.offset) =>
                    b[1] \in Got(r)'
    BY <1>7, <1>11, <1>12, <1>13, <2>2
  <2> QED
    BY <1>6, <2>1, <2>2 DEF ListInv
<1> QED
  BY <1>8, <1>9, <1>10, <1>14 DEF ReaderOK

-----------------------------------------------------------------------------
(* The invariant holds before the first request.                           *)
LEMMA QueryInvInit == QueryInit => QueryInv
<1> SUFFICES ASSUME QueryInit PROVE QueryInv
  OBVIOUS
<1>1. TableTypeOK /\ LastInv
  BY TableAssumption DEF QueryInit, Init, TableTypeOK, LastInv, NoRow, Msgs
<1>2. NoView \in ViewType /\ NoView.pc = "idle" /\ NoView.got = <<>>
  BY TableAssumption DEF NoView, ViewType
<1>3. view \in [Readers -> ViewType] /\ \A r \in Readers : view[r] = NoView
  BY <1>2 DEF QueryInit
<1>4. \A r \in Readers : PagesOK(r) /\ ScrollInv(r) /\ ListInv(r)
  BY <1>2, <1>3 DEF PagesOK, ScrollInv, ListInv, Scrolling, Listing
<1> QED
  BY <1>1, <1>3, <1>4 DEF QueryInv, QueryTypeOK

(* Every step of the writers and of the readers keeps it.                  *)
LEMMA QueryInvStep ==
  ASSUME QueryInv, [QueryNext]_vars
  PROVE  QueryInv'
<1>1. CASE WritersStep
  <2>1. TableTypeOK' /\ LastInv'
    BY <1>1, WriterEffect DEF QueryInv, QueryTypeOK, WritersStep
  <2>2. \A r \in Readers : view'[r] \in ViewType /\ PagesOK(r)' /\ ScrollInv(r)' /\ ListInv(r)'
    BY <1>1, WritersKeepReader
  <2>3. view' = [r \in Readers |-> view'[r]]
    BY <1>1 DEF WritersStep
  <2>4. view' \in [Readers -> ViewType]
    BY <2>2, <2>3
  <2> QED
    BY <2>1, <2>2, <2>4 DEF QueryInv, QueryTypeOK
<1>2. ASSUME NEW r \in Readers, ReaderStep(r), UNCHANGED tableVars
      PROVE  QueryInv'
  <2>1. TableTypeOK' /\ LastInv'
    BY <1>2 DEF QueryInv, QueryTypeOK, TableTypeOK, LastInv, Committed, tableVars
  <2>2. view \in [Readers -> ViewType]
    BY DEF QueryInv, QueryTypeOK
  <2>3. \E w : view' = [view EXCEPT ![r] = w]
    <3>1. ASSUME NEW u \in Users, NEW n \in Limits,
                 OpenList(r, u, n) \/ \E c \in Chats : Scroll(r, u, c, n)
          PROVE  \E w : view' = [view EXCEPT ![r] = w]
      BY <3>1 DEF OpenList, Scroll
    <3>2. CASE ListMember(r) \/ Leave(r)
      BY <3>2 DEF ListMember, Leave
    <3>3. CASE ListByChat(r)
      <4> DEFINE P == GetChatMessages(view[r].chat, view[r].before, view[r].limit)
      <4>1. view' = [view EXCEPT ![r] = [view[r] EXCEPT
              !.pc = IF Cardinality(P) = view[r].limit THEN "listMember" ELSE "scrolled",
              !.before = IF P = {} THEN @ ELSE Min(P),
              !.got = Append(@, P)]]
        BY <2>2, <3>3 DEF ListByChat
      <4> QED
        BY <4>1
    <3>4. CASE ListMine(r)
      <4> DEFINE P == ListUserChatsSummary(view[r].user, view[r].offset, view[r].limit)
      <4>1. view' = [view EXCEPT ![r] = [view[r] EXCEPT
              !.pc = IF Cardinality(P) = view[r].limit THEN "chats" ELSE "listed",
              !.offset = @ + view[r].limit,
              !.got = Append(@, P)]]
        BY <2>2, <3>4 DEF ListMine
      <4> QED
        BY <4>1
    <3> QED
      BY <1>2, <3>1, <3>2, <3>3, <3>4 DEF ReaderStep
  <2>4. \A q \in Readers : ReaderOK(q)
    BY DEF QueryInv, QueryTypeOK, ReaderOK
  <2>5. \A q \in Readers : q # r => ReaderOK(q)'
    BY <1>2, <2>2, <2>3, <2>4, OtherReader
  <2>6. ReaderOK(r)'
    <3>1. ASSUME NEW u \in Users, NEW n \in Limits, OpenList(r, u, n) PROVE ReaderOK(r)'
      BY <1>2, <3>1, OpenListKeeps
    <3>2. ASSUME NEW u \in Users, NEW n \in Limits, NEW c \in Chats, Scroll(r, u, c, n)
          PROVE  ReaderOK(r)'
      BY <1>2, <3>2, ScrollKeeps
    <3>3. CASE ListMember(r)
      BY <1>2, <3>3, ListMemberKeeps
    <3>4. CASE ListByChat(r)
      BY <1>2, <3>4, ListByChatKeeps
    <3>5. CASE ListMine(r)
      BY <1>2, <3>5, ListMineKeeps
    <3>6. CASE Leave(r)
      BY <2>2, <3>6, IdleReader DEF Leave
    <3> QED
      BY <1>2, <3>1, <3>2, <3>3, <3>4, <3>5, <3>6 DEF ReaderStep
  <2>7. \A q \in Readers : ReaderOK(q)'
    BY <2>5, <2>6
  <2>8. view' \in [Readers -> ViewType]
    <3>1. \A q \in Readers : view'[q] \in ViewType
      BY <2>7 DEF ReaderOK
    <3> QED
      BY <2>2, <2>3, <3>1
  <2> QED
    BY <2>1, <2>7, <2>8 DEF QueryInv, QueryTypeOK, ReaderOK
<1>3. CASE UNCHANGED vars
  <2>1. UNCHANGED <<tableVars, view>>
    BY <1>3 DEF vars
  <2>2. TableTypeOK' /\ LastInv'
    BY <2>1 DEF QueryInv, QueryTypeOK, TableTypeOK, LastInv, Committed, tableVars
  <2>3. \A q \in Readers : ReaderOK(q)'
    BY <2>1, OtherReader DEF QueryInv, QueryTypeOK, ReaderOK
  <2> QED
    BY <2>1, <2>2, <2>3 DEF QueryInv, QueryTypeOK, ReaderOK
<1> QED
  BY <1>1, <1>2, <1>3 DEF QueryNext

(* The invariant holds in every state.                                     *)
LEMMA QueryInvAlways == QuerySpec => []QueryInv
<1>1. QueryInit => QueryInv
  BY QueryInvInit
<1>2. QueryInv /\ [QueryNext]_vars => QueryInv'
  BY QueryInvStep
<1> QED
  BY <1>1, <1>2, PTL DEF QuerySpec

(* Pages are never longer than was asked for, and has_more is told rightly *)
(* for every page but the last.                                            *)
THEOREM QueryTypeCorrect == QuerySpec => []QueryTypeOK
<1>1. QueryInv => QueryTypeOK
  BY DEF QueryInv
<1> QED
  BY <1>1, QueryInvAlways, PTL

(* Scrolling through a chat of any size, with pages of any size, neither   *)
(* leaves out nor repeats a message, whatever the writers do meanwhile.    *)
THEOREM ScrollIsCompleteAlways == QuerySpec => []ScrollIsComplete
<1>1. QueryInv => ScrollIsComplete
  BY DEF QueryInv, ScrollInv, ScrollIsComplete, Scrolling
<1> QED
  BY <1>1, QueryInvAlways, PTL

(* The list of chats is complete unless one of them leaves it or falls     *)
(* back while it is loaded.                                                *)
THEOREM ListIsCompleteAlways == QuerySpec => []ListIsComplete
<1>1. QueryInv => ListIsComplete
  BY DEF QueryInv, ListInv, ListIsComplete, Listing
<1> QED
  BY <1>1, QueryInvAlways, PTL
=============================================================================
