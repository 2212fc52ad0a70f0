---------------------------- MODULE ChatsProofs -----------------------------
(***************************************************************************)
(* Proofs about Chats, for every set of requests, users and spellings and  *)
(* every number of chats and failures.                                     *)
(***************************************************************************)
EXTENDS Chats, TLAPS

(* The inductive invariant.                                                *)
ChatInv == TypeOK /\ TableInv /\ RequestInv /\ DirectHasBothMembers

(* What every step does to the tables: no chat goes away or changes its    *)
(* users, and nobody becomes the owner of a chat that is there.            *)
TablesGrow ==
  /\ created' \in Nat /\ created =< created'
  /\ \A c \in ChatIds : kind[c] # "free" =>
       /\ kind'[c] = kind[c] /\ key'[c] = key[c] /\ pair'[c] = pair[c]
       /\ \A u \in Users : role[c][u] # "owner" => role'[c][u] # "owner"

(* What is shown of every step.                                            *)
Kept == ChatInv' /\ OwnersLeave /\ StaysFrozen

-----------------------------------------------------------------------------
(* What Idle says of a request that runs nothing.                          *)
LEMMA IdleType ==
  /\ Idle \in RequestType /\ Idle.pc = "idle" /\ Idle.as = "none" /\ Idle.attempt = 0
  /\ Idle.chat = 0
<1>1. Stored(None) \in (Users \union {None}) \X Spellings
  BY ChatsAssumption DEF Stored
<1>2. Idle \in RequestType
  BY <1>1 DEF Idle, RequestType, Roles, MaxAttempts
<1> QED
  BY <1>2 DEF Idle

(* A request moves to r, the others stay where they are.                   *)
LEMMA RequestMoves ==
  ASSUME TypeOK, NEW q \in Requests, NEW r \in RequestType, req' = [req EXCEPT ![q] = r]
  PROVE  /\ req' \in [Requests -> RequestType]
         /\ req'[q] = r
         /\ \A p \in Requests : p # q => req'[p] = req[p]
BY DEF TypeOK

(* A stored id is an id.                                                   *)
LEMMA StoredIsId == \A u \in Users : Stored(u) \in Ids /\ Stored(u)[1] = u
BY ChatsAssumption DEF Stored, Ids

(* A request that has finished knows nothing.                              *)
LEMMA IdleInformed ==
  ASSUME NEW q \in Requests, req'[q] = Idle
  PROVE  Informed(q)'
BY IdleType DEF Informed, MaxAttempts

(* What a request knows stays true while the others go on.                 *)
LEMMA StillInformed ==
  ASSUME TypeOK, TablesGrow, kind' \in [ChatIds -> {"free", "direct", "group"}],
         created' =< MaxChats,
         NEW q \in Requests, Informed(q), req'[q] = req[q]
  PROVE  Informed(q)'
<1> DEFINE r == req[q]
<1>0. r \in RequestType /\ req'[q] = r
  BY DEF TypeOK
<1>1. Direct \subseteq Direct'
  BY DEF Direct, TablesGrow
<1>2. \A c \in Direct : key'[c] = key[c] /\ pair'[c] = pair[c]
  BY DEF Direct, TablesGrow
<1>3. 1..created \subseteq 1..created' /\ 1..created \subseteq ChatIds
  BY ChatsAssumption DEF TablesGrow, TypeOK, ChatIds
<1>4. \A c \in 1..created : kind[c] # "free" /\ kind'[c] = kind[c]
  <2>1. \A c \in 1..created : kind[c] # "free"
    BY <1>3, ChatsAssumption DEF TypeOK, ChatIds
  <2> QED
    BY <2>1, <1>3 DEF TablesGrow
<1>5. KeyOf(q)' = KeyOf(q)
  BY DEF KeyOf
<1>6. \A c \in 1..created, u \in Users : role[c][u] # "owner" => role'[c][u] # "owner"
  BY <1>3, <1>4 DEF TablesGrow
<1>7. r.pc = "delete" => r.chat \in 1..created /\ r.target \in Ids
  BY DEF Informed
<1>8. r.pc = "delete" => r.target[1] \in Users
  BY <1>7 DEF Ids
<1>9. r.pc = "members" => pair'[r.chat] = pair[r.chat]
  BY <1>2 DEF Informed
<1>10. r.pc = "add" => kind'[r.chat] = "group"
  BY <1>4 DEF Informed
<1>11. r.pc = "lookup" /\ r.attempt # 1 => \E c \in Direct' : key'[c] = KeyOf(q)'
  BY <1>1, <1>2, <1>5 DEF Informed
<1>12. r.pc = "delete" => \/ r.target = Stored(r.actor)
                          \/ r.as = "owner" /\ role'[r.chat][r.target[1]] # "owner"
  BY <1>6, <1>7, <1>8 DEF Informed
<1> QED
  BY <1>0, <1>1, <1>3, <1>9, <1>10, <1>11, <1>12 DEF Informed

-----------------------------------------------------------------------------
(***************************************************************************)
(* Steps that leave the tables alone.  Request q goes on as r.             *)
(***************************************************************************)
LEMMA QuietStep ==
  ASSUME ChatInv, NEW q \in Requests, NEW r \in RequestType, req' = [req EXCEPT ![q] = r],
         UNCHANGED <<tableVars, left>>, broken \subseteq broken',
         r.pc # "members", req[q].pc = "members" => req[q].chat \in broken',
         Informed(q)',
         \A c \in Ownerless : r.chat = c /\ (r.pc = "add" \/ r.as = "owner") => LetThrough(c)
  PROVE  Kept
<1> USE DEF tableVars
<1>1. /\ req' \in [Requests -> RequestType] /\ req'[q] = r
      /\ \A p \in Requests : p # q => req'[p] = req[p]
  BY RequestMoves DEF ChatInv
<1>2. TypeOK'
  BY <1>1 DEF TypeOK, ChatInv
<1>3. TableInv' /\ Direct' = Direct /\ Ownerless' = Ownerless
  BY DEF TableInv, ChatInv, Direct, Ownerless
<1>4. TablesGrow
  BY ChatsAssumption DEF TablesGrow, ChatInv, TypeOK
<1>5. RequestInv'
  <2>1. ASSUME NEW p \in Requests, p # q PROVE Informed(p)'
    <3>1. TypeOK /\ Informed(p) /\ req'[p] = req[p]
      BY <2>1, <1>1 DEF ChatInv, RequestInv
    <3>2. kind' \in [ChatIds -> {"free", "direct", "group"}] /\ created' =< MaxChats
      BY ChatsAssumption DEF ChatInv, TypeOK
    <3> QED
      BY <3>1, <3>2, <1>4, StillInformed
  <2> QED
    BY <2>1 DEF RequestInv
<1>6. BeingFilled \subseteq BeingFilled' \union broken'
  BY <1>1 DEF BeingFilled
<1>7. DirectHasBothMembers'
  BY <1>3, <1>6 DEF DirectHasBothMembers, ChatInv
<1>8. OwnersLeave
  BY DEF OwnersLeave
<1>9. StaysFrozen
  <2>1. ASSUME NEW c \in Ownerless, ~LetThrough(c) PROVE ~LetThrough(c)'
    BY <2>1, <1>1 DEF LetThrough
  <2> QED
    BY <2>1, <1>3 DEF StaysFrozen
<1> QED
  BY <1>2, <1>3, <1>5, <1>7, <1>8, <1>9 DEF Kept, ChatInv

(* A request ends without having written.                                  *)
LEMMA EndQuietly ==
  ASSUME ChatInv, NEW q \in Requests, Finish(q), UNCHANGED <<tableVars, left>>,
         broken \subseteq broken', req[q].pc = "members" => req[q].chat \in broken'
  PROVE  Kept
<1>1. req' = [req EXCEPT ![q] = Idle] /\ Idle \in RequestType
  BY IdleType DEF Finish
<1>2. req'[q] = Idle
  BY <1>1, RequestMoves DEF ChatInv
<1>3. Informed(q)'
  BY <1>2, IdleInformed
<1>4. Idle.pc # "members" /\ Idle.pc # "add" /\ Idle.as # "owner"
  BY IdleType
<1> QED
  BY <1>1, <1>3, <1>4, QuietStep

(* Arrive: CreateDirect checks the two ids only; AddMembers and            *)
(* RemoveMember remember the role they have read, and an ownerless group   *)
(* has no role to offer that lets one through.                             *)
LEMMA ArriveStep ==
  ASSUME ChatInv, NEW q \in Requests, Arrive(q)
  PROVE  Kept
<1> DEFINE NoNews == UNCHANGED <<tableVars, left>> /\ broken \subseteq broken'
<1>0. TypeOK /\ TableInv
  BY DEF ChatInv
<1>1. ASSUME NEW a \in Users, NEW peer \in Ids, CreateDirect(q, a, peer)
      PROVE  Kept
  <2> DEFINE r == [Idle EXCEPT !.pc = "lookup", !.actor = a, !.target = peer, !.attempt = 1]
  <2>1. /\ r \in RequestType /\ r.pc = "lookup" /\ r.as = "none" /\ r.actor = a
        /\ r.target = peer /\ r.attempt = 1
    <3>1. peer \in (Users \union {None}) \X Spellings
      BY DEF Ids
    <3>2. 1 \in 0..MaxAttempts
      BY DEF MaxAttempts
    <3> QED
      BY <3>1, <3>2, IdleType DEF RequestType
  <2>2. NoNews /\ req' = [req EXCEPT ![q] = r] /\ req[q].pc = "idle"
    BY <1>1 DEF CreateDirect, histVars
  <2> HIDE DEF r
  <2>3. req'[q] = r
    BY <1>0, <2>1, <2>2, RequestMoves
  <2>4. Informed(q)'
    BY <2>1, <2>3 DEF Informed, MaxAttempts
  <2> QED
    BY <2>1, <2>2, <2>4, QuietStep
<1>2. ASSUME NEW a \in Users, NEW c \in ChatIds, NEW S \in SUBSET Users, AddMembers(q, a, c, S)
      PROVE  Kept
  <2> DEFINE r == [Idle EXCEPT !.pc = "add", !.actor = a, !.chat = c, !.users = S]
  <2>1. /\ r \in RequestType /\ r.pc = "add" /\ r.as = "none" /\ r.actor = a
        /\ r.chat = c /\ r.attempt = 0
    BY IdleType DEF RequestType
  <2>2. /\ NoNews /\ req' = [req EXCEPT ![q] = r] /\ req[q].pc = "idle"
        /\ kind[c] = "group" /\ role[c][a] \in {"owner", "admin"}
    BY <1>2 DEF AddMembers, histVars
  <2> HIDE DEF r
  <2>3. req'[q] = r
    BY <1>0, <2>1, <2>2, RequestMoves
  <2>4. c \in 1..created'
    BY <1>0, <2>2, ChatsAssumption DEF TypeOK, ChatIds, tableVars
  <2>5. Informed(q)'
    BY <2>1, <2>2, <2>3, <2>4 DEF Informed, MaxAttempts, tableVars
  <2>6. role[c][a] = "owner"
    BY <1>0, <2>2 DEF TypeOK
  <2>7. c \notin Ownerless
    BY <2>6 DEF Ownerless
  <2> QED
    BY <2>1, <2>2, <2>5, <2>7, QuietStep
<1>3. ASSUME NEW a \in Users, NEW c \in ChatIds, NEW id \in Ids, RemoveMember(q, a, c, id)
      PROVE  Kept
  <2> DEFINE r == [Idle EXCEPT !.pc = "target", !.actor = a, !.chat = c, !.target = id,
                               !.as = role[c][a]]
  <2>0. role[c][a] \in Roles \ {"admin"}
    BY <1>0 DEF TypeOK
  <2>1. /\ r \in RequestType /\ r.pc = "target" /\ r.as = role[c][a] /\ r.actor = a
        /\ r.chat = c /\ r.attempt = 0 /\ r.target = id
    BY IdleType, <2>0 DEF RequestType, Ids
  <2>2. /\ NoNews /\ req' = [req EXCEPT ![q] = r] /\ req[q].pc = "idle"
        /\ kind[c] # "free"
    BY <1>3 DEF RemoveMember, histVars
  <2> HIDE DEF r
  <2>3. req'[q] = r
    BY <1>0, <2>1, <2>2, RequestMoves
  <2>4. c \in 1..created'
    BY <1>0, <2>2, ChatsAssumption DEF TypeOK, ChatIds, tableVars
  <2>5. Informed(q)'
    BY <2>1, <2>2, <2>3, <2>4 DEF Informed, MaxAttempts, tableVars
  <2>6. role[c][a] = "owner" => c \notin Ownerless
    BY DEF Ownerless
  <2> QED
    BY <2>1, <2>2, <2>5, <2>6, QuietStep
<1> QED
  BY <1>1, <1>2, <1>3 DEF Arrive

(* GetDirectByKey: it finds the chat or goes on to the INSERT; in a second *)
(* attempt it always finds it.                                             *)
LEMMA LookupStep ==
  ASSUME ChatInv, NEW q \in Requests, GetDirectByKey(q)
  PROVE  Kept
<1> DEFINE found == {c \in ChatIds : kind[c] = "direct" /\ key[c] = KeyOf(q)}
<1>0. /\ TypeOK /\ req[q] \in RequestType /\ req[q].pc = "lookup" /\ Informed(q)
      /\ UNCHANGED <<tableVars, left>> /\ broken \subseteq broken'
  BY DEF ChatInv, TypeOK, RequestInv, GetDirectByKey, histVars
<1>1. CASE found = {}
  <2> DEFINE r == [req[q] EXCEPT !.pc = "insert"]
  <2>1. /\ r \in RequestType /\ r.pc = "insert" /\ r.as = req[q].as /\ r.actor = req[q].actor
        /\ r.chat = req[q].chat /\ r.attempt = req[q].attempt /\ r.target = req[q].target
    BY <1>0 DEF RequestType
  <2>2. req' = [req EXCEPT ![q] = r]
    BY <1>1 DEF GetDirectByKey, Goto
  <2> HIDE DEF r
  <2>3. req'[q] = r
    BY <1>0, <2>1, <2>2, RequestMoves
  <2>4. req[q].attempt = 1
    BY <1>0, <1>1 DEF Informed, Direct
  <2>5. Informed(q)'
    BY <1>0, <2>1, <2>3, <2>4 DEF Informed
  <2>6. \A c \in Ownerless : r.chat = c /\ (r.pc = "add" \/ r.as = "owner") => LetThrough(c)
    BY <2>1 DEF LetThrough
  <2> QED
    BY <1>0, <2>1, <2>2, <2>5, <2>6, QuietStep
<1>2. CASE found # {}
  <2>1. PICK c \in found : req' = [req EXCEPT ![q].pc = "opened", ![q].chat = c]
    BY <1>2 DEF GetDirectByKey
  <2> DEFINE r == [req[q] EXCEPT !.pc = "opened", !.chat = c]
  <2>2. /\ r \in RequestType /\ r.pc = "opened" /\ r.actor = req[q].actor
        /\ r.chat = c /\ r.attempt = req[q].attempt /\ r.target = req[q].target
    BY <1>0 DEF RequestType
  <2>3. req' = [req EXCEPT ![q] = r]
    BY <1>0, <2>1 DEF TypeOK
  <2> HIDE DEF r
  <2>4. req'[q] = r
    BY <1>0, <2>2, <2>3, RequestMoves
  <2>5. c \in Direct' /\ c \notin Ownerless
    BY <1>0 DEF Direct, Ownerless, tableVars
  <2>6. Informed(q)'
    BY <1>0, <2>2, <2>4, <2>5 DEF Informed
  <2> QED
    BY <1>0, <2>2, <2>3, <2>5, <2>6, QuietStep
<1> QED
  BY <1>1, <1>2

(* RequireMember.                                                          *)
LEMMA RequireMemberStep ==
  ASSUME ChatInv, NEW q \in Requests, RequireMember(q)
  PROVE  Kept
<1>0. /\ TypeOK /\ req[q] \in RequestType /\ req[q].pc = "opened" /\ Informed(q)
      /\ UNCHANGED <<tableVars, left>> /\ broken \subseteq broken'
  BY DEF ChatInv, TypeOK, RequestInv, RequireMember, histVars
<1>1. CASE Finish(q)
  BY <1>0, <1>1, EndQuietly
<1>2. CASE Goto(q, "readd")
  <2> DEFINE r == [req[q] EXCEPT !.pc = "readd"]
  <2>1. /\ r \in RequestType /\ r.pc = "readd" /\ r.as = req[q].as /\ r.actor = req[q].actor
        /\ r.chat = req[q].chat /\ r.attempt = req[q].attempt /\ r.target = req[q].target
    BY <1>0 DEF RequestType
  <2>2. req' = [req EXCEPT ![q] = r]
    BY <1>2 DEF Goto
  <2> HIDE DEF r
  <2>3. req'[q] = r
    BY <1>0, <2>1, <2>2, RequestMoves
  <2>4. req[q].chat \in Direct'
    BY <1>0 DEF Informed, Direct, tableVars
  <2>5. Informed(q)'
    BY <1>0, <2>1, <2>3, <2>4 DEF Informed
  <2>6. \A c \in Ownerless : r.chat = c /\ (r.pc = "add" \/ r.as = "owner") => LetThrough(c)
    BY <2>1 DEF LetThrough
  <2> QED
    BY <1>0, <2>1, <2>2, <2>5, <2>6, QuietStep
<1> QED
  BY <1>1, <1>2 DEF RequireMember

(* FindTarget: what it lets through is the caller himself or, for an       *)
(* owner, a user who is not one.                                           *)
LEMMA FindTargetStep ==
  ASSUME ChatInv, NEW q \in Requests, FindTarget(q)
  PROVE  Kept
<1>0. /\ TypeOK /\ req[q] \in RequestType /\ req[q].pc = "target" /\ Informed(q)
      /\ UNCHANGED <<tableVars, left>> /\ broken \subseteq broken'
  BY DEF ChatInv, TypeOK, RequestInv, FindTarget, histVars
<1>1. CASE Finish(q)
  BY <1>0, <1>1, EndQuietly
<1>2. CASE ~Finish(q)
  <2> DEFINE r == [req[q] EXCEPT !.pc = "delete"]
  <2>1. /\ r \in RequestType /\ r.pc = "delete" /\ r.as = req[q].as /\ r.actor = req[q].actor
        /\ r.chat = req[q].chat /\ r.attempt = req[q].attempt /\ r.target = req[q].target
    BY <1>0 DEF RequestType
  <2>2. /\ req' = [req EXCEPT ![q] = r]
        /\ \/ req[q].target = Stored(req[q].actor)
           \/ KickAllowed(req[q].as, role[req[q].chat][req[q].target[1]])
    BY <1>2 DEF FindTarget, Goto
  <2>3. req[q].as # "admin"
    BY <1>0 DEF RequestType
  <2> HIDE DEF r
  <2>4. req'[q] = r
    BY <1>0, <2>1, <2>2, RequestMoves
  <2>5. Informed(q)'
    BY <1>0, <2>1, <2>2, <2>3, <2>4 DEF Informed, KickAllowed, tableVars
  <2>6. \A c \in Ownerless : r.chat = c /\ (r.pc = "add" \/ r.as = "owner") => LetThrough(c)
    BY <2>1 DEF LetThrough
  <2> QED
    BY <1>0, <2>1, <2>2, <2>5, <2>6, QuietStep
<1> QED
  BY <1>1, <1>2

(* Fail: a CreateDirect cut short between its two statements is recorded.  *)
LEMMA FailStep ==
  ASSUME ChatInv, NEW q \in Requests, Fail(q)
  PROVE  Kept
<1>1. /\ Finish(q) /\ UNCHANGED <<tableVars, left>> /\ broken \subseteq broken'
      /\ req[q].pc = "members" => req[q].chat \in broken'
  BY DEF Fail
<1> QED
  BY <1>1, EndQuietly

-----------------------------------------------------------------------------
(***************************************************************************)
(* Steps that write chat_members and end the request.                      *)
(***************************************************************************)
LEMMA WriteAndFinish ==
  ASSUME ChatInv, NEW q \in Requests, Finish(q), UNCHANGED <<created, kind, key, pair>>,
         \A c \in ChatIds, u \in Users : role[c][u] # "owner" => role'[c][u] # "owner"
  PROVE  /\ req' \in [Requests -> RequestType] /\ RequestInv'
         /\ Direct' = Direct /\ Ownerless \subseteq Ownerless'
         /\ req'[q].pc = "idle"
         /\ \A p \in Requests : p # q => req'[p] = req[p]
         /\ \A c \in ChatIds : LetThrough(c)' => LetThrough(c)
<1>1. /\ req' \in [Requests -> RequestType] /\ req'[q] = Idle
      /\ \A p \in Requests : p # q => req'[p] = req[p]
  BY IdleType, RequestMoves DEF Finish, ChatInv
<1>2. TablesGrow
  BY ChatsAssumption DEF TablesGrow, ChatInv, TypeOK
<1>3. RequestInv'
  <2>1. ASSUME NEW p \in Requests, p # q PROVE Informed(p)'
    <3>1. TypeOK /\ Informed(p) /\ req'[p] = req[p]
      BY <2>1, <1>1 DEF ChatInv, RequestInv
    <3>2. kind' \in [ChatIds -> {"free", "direct", "group"}] /\ created' =< MaxChats
      BY ChatsAssumption DEF ChatInv, TypeOK
    <3> QED
      BY <3>1, <3>2, <1>2, StillInformed
  <2>2. Informed(q)'
    BY <1>1, IdleInformed
  <2> QED
    BY <2>1, <2>2 DEF RequestInv
<1>4. Direct' = Direct /\ Ownerless \subseteq Ownerless'
  BY DEF Direct, Ownerless
<1>5. \A c \in ChatIds : LetThrough(c)' => LetThrough(c)
  BY <1>1, IdleType DEF LetThrough
<1> QED
  BY <1>1, <1>3, <1>4, <1>5, IdleType

(* The INSERT of members, of whichever handler: nobody loses a role, and   *)
(* a request that was to fill its chat has filled it.                      *)
LEMMA MembersAdded ==
  ASSUME ChatInv, NEW q \in Requests, NEW c \in ChatIds, NEW S \in SUBSET Users,
         role' = WithMembers(c, S), Finish(q), UNCHANGED <<created, kind, key, pair, histVars>>,
         kind[c] # "free", c \in Ownerless => LetThrough(c),
         req[q].pc = "members" => /\ c = req[q].chat /\ kind[c] = "direct"
                                  /\ \A id \in pair[c] : id[1] \in S
  PROVE  Kept
<1> USE DEF histVars
<1>0. /\ TypeOK /\ TableInv /\ role \in [ChatIds -> [Users -> Roles \ {"admin"}]]
  BY DEF ChatInv, TypeOK
<1>1. /\ \A d \in ChatIds, u \in Users :
            d # c \/ u \notin S \/ role[d][u] # "none" => role'[d][u] = role[d][u]
      /\ \A u \in S : role[c][u] = "none" => role'[c][u] = "member"
      /\ role' \in [ChatIds -> [Users -> Roles \ {"admin"}]]
  <2> DEFINE new == [u \in Users |->
                      IF u \in S /\ role[c][u] = "none" THEN "member" ELSE role[c][u]]
  <2>1. role' = [role EXCEPT ![c] = new]
    BY DEF WithMembers
  <2>2. new \in [Users -> Roles \ {"admin"}]
    BY <1>0 DEF Roles
  <2>3. /\ \A u \in S : role[c][u] = "none" => new[u] = "member"
        /\ \A u \in Users : u \notin S \/ role[c][u] # "none" => new[u] = role[c][u]
    OBVIOUS
  <2> HIDE DEF new
  <2> QED
    BY <1>0, <2>1, <2>2, <2>3
<1>2. \A d \in ChatIds, u \in Users : /\ role[d][u] # "owner" => role'[d][u] # "owner"
                                      /\ role[d][u] # "none" => role'[d][u] = role[d][u]
  BY <1>1
<1>3. /\ req' \in [Requests -> RequestType] /\ RequestInv'
      /\ Direct' = Direct /\ Ownerless \subseteq Ownerless'
      /\ req'[q].pc = "idle"
      /\ \A p \in Requests : p # q => req'[p] = req[p]
      /\ \A d \in ChatIds : LetThrough(d)' => LetThrough(d)
  BY <1>2, WriteAndFinish
<1>4. TypeOK'
  BY <1>0, <1>1, <1>3 DEF TypeOK
<1>5. TableInv'
  BY <1>0, <1>1, <1>2, <1>3 DEF TableInv
<1>6. DirectHasBothMembers'
  <2>1. SUFFICES ASSUME NEW d \in Direct, d \notin BeingFilled' \union left \union broken,
                        NEW id \in pair[d]
                 PROVE  role'[d][id[1]] = "member"
    BY <1>3 DEF DirectHasBothMembers
  <2>2. id[1] \in Users /\ d \in ChatIds
    BY <1>0 DEF TypeOK, Ids, Direct
  <2>3. CASE d \in BeingFilled
    <3>1. PICK p \in Requests : req[p].pc = "members" /\ req[p].chat = d
      BY <2>3 DEF BeingFilled
    <3>2. p = q
      BY <2>1, <3>1, <1>3 DEF BeingFilled
    <3>3. d = c /\ id[1] \in S
      BY <3>1, <3>2
    <3>4. role[d][id[1]] \in {"none", "member"}
      BY <1>0, <2>2 DEF TableInv, Roles, Direct
    <3> QED
      BY <1>1, <1>2, <2>2, <3>3, <3>4
  <2>4. CASE d \notin BeingFilled
    <3>1. role[d][id[1]] = "member"
      BY <2>1, <2>4 DEF ChatInv, DirectHasBothMembers
    <3> QED
      BY <1>2, <2>2, <3>1
  <2> QED
    BY <2>3, <2>4
<1>7. OwnersLeave
  BY <1>2 DEF OwnersLeave
<1>8. StaysFrozen
  <2>1. \A d \in Ownerless : d \in ChatIds
    BY DEF Ownerless
  <2> QED
    BY <2>1, <1>1, <1>3 DEF StaysFrozen
<1> QED
  BY <1>3, <1>4, <1>5, <1>6, <1>7, <1>8 DEF Kept, ChatInv

(* ReAddMembers, AddDirectMembers and InsertMembers.                       *)
LEMMA AddStep ==
  ASSUME ChatInv, NEW q \in Requests,
         ReAddMembers(q) \/ AddDirectMembers(q) \/ InsertMembers(q)
  PROVE  Kept
<1>0. TypeOK /\ Informed(q) /\ req[q] \in RequestType
  BY DEF ChatInv, TypeOK, RequestInv
<1>1. ASSUME req[q].pc \in {"readd", "members"}
      PROVE  /\ {req[q].actor, req[q].target[1]} \in SUBSET Users
             /\ req[q].chat \in ChatIds /\ kind[req[q].chat] = "direct"
             /\ req[q].chat \notin Ownerless
  BY <1>0, <1>1 DEF Informed, Ids, Direct, Ownerless
<1>2. CASE ReAddMembers(q)
  <2>1. /\ role' = WithMembers(req[q].chat, {req[q].actor, req[q].target[1]})
        /\ Finish(q) /\ UNCHANGED <<created, kind, key, pair, histVars>>
        /\ req[q].pc = "readd"
    BY <1>2 DEF ReAddMembers
  <2> QED
    BY <1>1, <2>1, MembersAdded
<1>3. CASE AddDirectMembers(q)
  <2>1. /\ role' = WithMembers(req[q].chat, {req[q].actor, req[q].target[1]})
        /\ Finish(q) /\ UNCHANGED <<created, kind, key, pair, histVars>>
        /\ req[q].pc = "members"
    BY <1>3 DEF AddDirectMembers
  <2>2. pair[req[q].chat] = {Stored(req[q].actor), req[q].target}
    BY <1>0, <2>1 DEF Informed
  <2>3. \A id \in pair[req[q].chat] : id[1] \in {req[q].actor, req[q].target[1]}
    BY <2>2 DEF Stored
  <2> QED
    BY <1>1, <2>1, <2>3, MembersAdded
<1>4. CASE InsertMembers(q)
  <2>1. /\ role' = WithMembers(req[q].chat, req[q].users)
        /\ Finish(q) /\ UNCHANGED <<created, kind, key, pair, histVars>>
        /\ req[q].pc = "add"
    BY <1>4 DEF InsertMembers
  <2>2. req[q].chat \in 1..created /\ kind[req[q].chat] # "free" /\ req[q].users \in SUBSET Users
    BY <1>0, <2>1 DEF Informed, RequestType
  <2>3. req[q].chat \in ChatIds
    BY <1>0, <2>2, ChatsAssumption DEF TypeOK, ChatIds
  <2>4. LetThrough(req[q].chat)
    BY <2>1 DEF LetThrough
  <2> QED
    BY <2>1, <2>2, <2>3, <2>4, MembersAdded
<1> QED
  BY <1>2, <1>3, <1>4

(* DeleteMember: the roles it relies on were read earlier, but an owner's  *)
(* row goes only when the owner himself asked for it.                      *)
LEMMA DeleteStep ==
  ASSUME ChatInv, NEW q \in Requests, DeleteMember(q)
  PROVE  Kept
<1> DEFINE c == req[q].chat
           u == req[q].target[1]
<1>0. /\ TypeOK /\ TableInv /\ Informed(q) /\ req[q].pc = "delete"
      /\ role \in [ChatIds -> [Users -> Roles \ {"admin"}]]
      /\ Finish(q) /\ UNCHANGED <<created, kind, key, pair, failures, broken>>
      /\ left' = left \union {c}
  BY DEF ChatInv, TypeOK, RequestInv, DeleteMember
<1>1. c \in ChatIds /\ u \in Users /\ c \in 1..created
  <2>1. c \in 1..created /\ u \in Users
    BY <1>0 DEF Informed, Ids
  <2> QED
    BY <1>0, <2>1, ChatsAssumption DEF TypeOK, ChatIds
<1>2. /\ role' \in [ChatIds -> [Users -> Roles \ {"admin"}]] /\ role'[c][u] = "none"
      /\ \A d \in ChatIds, v \in Users : d # c \/ v # u => role'[d][v] = role[d][v]
  <2>1. role' = [role EXCEPT ![c] = [role[c] EXCEPT ![u] = "none"]]
    BY DEF DeleteMember
  <2> HIDE DEF c, u
  <2> QED
    BY <2>1, <1>0, <1>1 DEF Roles
<1>3. \/ u = req[q].actor
      \/ req[q].as = "owner" /\ role[c][u] # "owner"
  BY <1>0 DEF Informed, Stored
<1>4. \A d \in ChatIds, v \in Users : role[d][v] # "owner" => role'[d][v] # "owner"
  <2> HIDE DEF c, u
  <2> QED
    BY <1>1, <1>2
<1>5. /\ req' \in [Requests -> RequestType] /\ RequestInv'
      /\ Direct' = Direct /\ Ownerless \subseteq Ownerless'
      /\ req'[q].pc = "idle"
      /\ \A p \in Requests : p # q => req'[p] = req[p]
      /\ \A d \in ChatIds : LetThrough(d)' => LetThrough(d)
  BY <1>0, <1>4, WriteAndFinish
<1>6. u = req[q].actor => Leaves(c, u)
  BY <1>0, <1>5 DEF Leaves
<1>7. req[q].as = "owner" => LetThrough(c)
  BY DEF LetThrough
<1>8. TypeOK'
  <2> HIDE DEF c, u
  <2>1. \A p \in Requests : req'[p].pc = "members" => req'[p] = req[p]
    BY <1>5
  <2> QED
    BY <2>1, <1>0, <1>2, <1>5 DEF TypeOK
<1>9. BeingFilled \subseteq BeingFilled'
  BY <1>0, <1>5 DEF BeingFilled
<1> HIDE DEF c, u
<1>10. TableInv'
  <2>1. \A d \in ChatIds, v \in Users : role[d][v] = "none" => role'[d][v] = "none"
    BY <1>1, <1>2
  <2> QED
    BY <1>0, <1>4, <1>5, <2>1 DEF TableInv
<1>11. DirectHasBothMembers'
  <2>1. SUFFICES ASSUME NEW d \in Direct, d \notin BeingFilled' \union left' \union broken,
                        NEW id \in pair[d]
                 PROVE  role'[d][id[1]] = "member"
    BY <1>0, <1>5 DEF DirectHasBothMembers
  <2>2. id[1] \in Users /\ d \in ChatIds
    BY <1>0 DEF TypeOK, Ids, Direct
  <2>3. role[d][id[1]] = "member"
    BY <1>0, <1>9, <2>1 DEF ChatInv, DirectHasBothMembers
  <2>4. d # c
    BY <1>0, <2>1
  <2> QED
    BY <1>2, <2>2, <2>3, <2>4
<1>12. OwnersLeave
  BY <1>2, <1>3, <1>6 DEF OwnersLeave
<1>13. StaysFrozen
  <2>1. SUFFICES ASSUME NEW d \in Ownerless, ~LetThrough(d)
                 PROVE  \A v \in Users : role'[d][v] # role[d][v] => Leaves(d, v)
    BY <1>5 DEF StaysFrozen, Ownerless
  <2>2. d \in ChatIds
    BY DEF Ownerless
  <2> QED
    BY <2>1, <2>2, <1>2, <1>3, <1>6, <1>7
<1> QED
  BY <1>5, <1>8, <1>10, <1>11, <1>12, <1>13 DEF Kept, ChatInv

-----------------------------------------------------------------------------
(***************************************************************************)
(* Steps that create a chat.  The row is a free one until then.            *)
(***************************************************************************)
LEMMA FreshChat ==
  ASSUME ChatInv, created < MaxChats
  PROVE  /\ created + 1 \in ChatIds /\ kind[created + 1] = "free"
         /\ created + 1 \notin Direct /\ created + 1 \notin Ownerless
         /\ \A u \in Users : role[created + 1][u] = "none"
         /\ \A q \in Requests : req[q].pc = "members" => req[q].chat # created + 1
<1>1. TypeOK /\ TableInv /\ RequestInv
  BY DEF ChatInv
<1>2. created + 1 \in ChatIds /\ kind[created + 1] = "free"
  BY <1>1, ChatsAssumption DEF TypeOK, ChatIds
<1>3. created + 1 \notin Direct /\ created + 1 \notin Ownerless
  BY <1>2 DEF Direct, Ownerless
<1>4. \A u \in Users : role[created + 1][u] = "none"
  BY <1>1, <1>2 DEF TableInv
<1>5. \A q \in Requests : req[q].pc = "members" => req[q].chat \in Direct
  BY <1>1 DEF RequestInv, Informed
<1> QED
  BY <1>2, <1>3, <1>4, <1>5

(* CreateChat when the key is taken.  This was the first attempt, and the  *)
(* next lookup will find the chat.                                         *)
LEMMA KeyTakenStep ==
  ASSUME ChatInv, NEW q \in Requests, CreateChat(q),
         \E c \in ChatIds : kind[c] = "direct" /\ key[c] = KeyOf(q)
  PROVE  Kept
<1>0. /\ TypeOK /\ req[q] \in RequestType /\ req[q].pc = "insert" /\ Informed(q)
      /\ UNCHANGED <<tableVars, left>> /\ broken \subseteq broken'
  BY DEF ChatInv, TypeOK, RequestInv, CreateChat, histVars
<1>1. req[q].attempt = 1
  BY <1>0 DEF Informed
<1> DEFINE r == [req[q] EXCEPT !.pc = "lookup", !.attempt = 2]
<1>2. /\ r \in RequestType /\ r.pc = "lookup" /\ r.as = req[q].as /\ r.actor = req[q].actor
      /\ r.chat = req[q].chat /\ r.attempt = 2 /\ r.target = req[q].target
  <2>1. 2 \in 0..MaxAttempts
    BY DEF MaxAttempts
  <2> QED
    BY <1>0, <2>1 DEF RequestType
<1>3. req' = [req EXCEPT ![q] = r]
  <2>1. 1 < MaxAttempts /\ 1 + 1 = 2
    BY DEF MaxAttempts
  <2>2. req' = [req EXCEPT ![q].pc = "lookup", ![q].attempt = @ + 1]
    BY <1>1, <2>1 DEF CreateChat
  <2> QED
    BY <1>0, <1>1, <2>1, <2>2 DEF TypeOK
<1> HIDE DEF r
<1>4. req'[q] = r
  BY <1>0, <1>2, <1>3, RequestMoves
<1>5. KeyOf(q)' = KeyOf(q)
  BY <1>2, <1>4 DEF KeyOf
<1>6. \E c \in Direct' : key'[c] = KeyOf(q)'
  BY <1>0, <1>5 DEF Direct, tableVars
<1>7. Informed(q)'
  BY <1>0, <1>2, <1>4, <1>6 DEF Informed, MaxAttempts
<1>8. \A c \in Ownerless : r.chat = c /\ (r.pc = "add" \/ r.as = "owner") => LetThrough(c)
  BY <1>2 DEF LetThrough
<1> QED
  BY <1>0, <1>2, <1>3, <1>7, <1>8, QuietStep

(* CreateChat when it is not.                                              *)
LEMMA CreateChatStep ==
  ASSUME ChatInv, NEW q \in Requests, CreateChat(q),
         ~\E c \in ChatIds : kind[c] = "direct" /\ key[c] = KeyOf(q)
  PROVE  Kept
<1> DEFINE n == created + 1
           r == [req[q] EXCEPT !.pc = "members", !.chat = n]
           k == {Stored(req[q].actor), req[q].target}
<1>0. /\ TypeOK /\ TableInv /\ req[q] \in RequestType /\ req[q].pc = "insert" /\ Informed(q)
      /\ created < MaxChats /\ created' = n /\ kind' = [kind EXCEPT ![n] = "direct"]
      /\ key' = [key EXCEPT ![n] = k] /\ pair' = [pair EXCEPT ![n] = k]
      /\ UNCHANGED <<role, left, broken>>
  BY DEF ChatInv, TypeOK, RequestInv, CreateChat, histVars, KeyOf, DirectKey
<1>1. /\ n \in ChatIds /\ kind[n] = "free" /\ n \notin Direct /\ n \notin Ownerless
      /\ \A u \in Users : role[n][u] = "none"
      /\ \A p \in Requests : req[p].pc = "members" => req[p].chat # n
  BY <1>0, FreshChat
<1>2. /\ r \in RequestType /\ r.pc = "members" /\ r.chat = n /\ r.actor = req[q].actor
      /\ r.attempt = req[q].attempt /\ r.target = req[q].target
  <2> HIDE DEF n
  <2> QED
    BY <1>0, <1>1 DEF RequestType
<1>3. req' = [req EXCEPT ![q] = r]
  <2>1. req' = [req EXCEPT ![q].pc = "members", ![q].chat = n]
    BY DEF CreateChat
  <2> QED
    BY <2>1, <1>0 DEF TypeOK
<1>4. k \in SUBSET Ids
  <2>1. req[q].actor \in Users /\ req[q].target \in Ids
    BY <1>0 DEF Informed
  <2> QED
    BY <2>1, StoredIsId
<1>5. \A d \in ChatIds : kind[d] = "direct" => key[d] # k
  BY DEF KeyOf, DirectKey
<1>6. created' \in 0..MaxChats /\ \A c \in ChatIds : c # n => (created' < c <=> created < c)
  BY <1>0, ChatsAssumption DEF TypeOK, ChatIds
<1>7. ~(created' < n) /\ created =< created' /\ created' \in Nat /\ created' =< MaxChats
  BY <1>0, ChatsAssumption DEF TypeOK
<1> HIDE DEF r, n, k
<1>8. /\ req' \in [Requests -> RequestType] /\ req'[q] = r
      /\ \A p \in Requests : p # q => req'[p] = req[p]
  BY <1>0, <1>2, <1>3, RequestMoves
<1>9. /\ kind' \in [ChatIds -> {"free", "direct", "group"}]
      /\ key' \in [ChatIds -> SUBSET Ids] /\ pair' \in [ChatIds -> SUBSET Ids]
      /\ kind'[n] = "direct" /\ key'[n] = k /\ pair'[n] = k
      /\ \A c \in ChatIds : c # n =>
           kind'[c] = kind[c] /\ key'[c] = key[c] /\ pair'[c] = pair[c]
  BY <1>0, <1>1, <1>4 DEF TypeOK
<1>10. TypeOK'
  <2>1. \A c \in ChatIds : kind'[c] = "free" <=> created' < c
    BY <1>0, <1>6, <1>7, <1>9 DEF TypeOK
  <2>2. \A p, o \in Requests :
          req'[p].pc = "members" /\ req'[o].pc = "members" /\ req'[p].chat = req'[o].chat => p = o
    BY <1>0, <1>1, <1>2, <1>8 DEF TypeOK
  <2> QED
    BY <2>1, <2>2, <1>0, <1>6, <1>8, <1>9 DEF TypeOK
<1>11. Direct' = Direct \union {n}
  BY <1>1, <1>9 DEF Direct
<1>12. TableInv'
  BY <1>0, <1>1, <1>5, <1>9, <1>11 DEF TableInv, Direct
<1>13. TablesGrow
  BY <1>0, <1>1, <1>7, <1>9 DEF TablesGrow
<1>14. RequestInv'
  <2>1. ASSUME NEW p \in Requests, p # q PROVE Informed(p)'
    <3>1. TypeOK /\ Informed(p) /\ req'[p] = req[p]
      BY <2>1, <1>8 DEF ChatInv, RequestInv
    <3> QED
      BY <3>1, <1>7, <1>9, <1>13, StillInformed
  <2>2. Informed(q)'
    <3>1. pair'[n] = {Stored(r.actor), r.target}
      BY <1>2, <1>9 DEF k
    <3> QED
      BY <3>1, <1>0, <1>2, <1>8, <1>11 DEF Informed
  <2> QED
    BY <2>1, <2>2 DEF RequestInv
<1>15. BeingFilled' = BeingFilled \union {n}
  BY <1>0, <1>2, <1>8 DEF BeingFilled
<1>16. DirectHasBothMembers'
  <2>1. SUFFICES ASSUME NEW d \in Direct', d \notin BeingFilled' \union left \union broken,
                        NEW id \in pair'[d]
                 PROVE  role[d][id[1]] = "member"
    BY <1>0 DEF DirectHasBothMembers
  <2>2. d \in Direct \ (BeingFilled \union left \union broken) /\ d # n
    BY <2>1, <1>11, <1>15
  <2>3. pair'[d] = pair[d]
    BY <2>2, <1>9 DEF Direct
  <2> QED
    BY <2>2, <2>3 DEF ChatInv, DirectHasBothMembers
<1>17. OwnersLeave
  BY <1>0 DEF OwnersLeave
<1>18. StaysFrozen
  <2>1. SUFFICES ASSUME NEW c \in Ownerless, ~LetThrough(c)
                 PROVE  c \in Ownerless' /\ ~LetThrough(c)'
    BY <1>0 DEF StaysFrozen
  <2>2. c \in ChatIds /\ c # n
    BY <1>1 DEF Ownerless
  <2>3. c \in Ownerless'
    BY <2>2, <1>0, <1>9 DEF Ownerless
  <2>4. ~LetThrough(c)'
    BY <2>1, <2>2, <1>2, <1>8 DEF LetThrough
  <2> QED
    BY <2>3, <2>4
<1> QED
  BY <1>10, <1>12, <1>14, <1>16, <1>17, <1>18 DEF Kept, ChatInv

(* CreateGroup.                                                            *)
LEMMA CreateGroupStep ==
  ASSUME ChatInv, NEW a \in Users, NEW S \in SUBSET Users, CreateGroup(a, S)
  PROVE  Kept
<1> DEFINE n == created + 1
           new == [u \in Users |->
                    IF u = a THEN "owner" ELSE IF u \in S THEN "member" ELSE "none"]
<1>0. /\ TypeOK /\ TableInv
      /\ created < MaxChats /\ created' = n /\ kind' = [kind EXCEPT ![n] = "group"]
      /\ role' = [role EXCEPT ![n] = new]
      /\ UNCHANGED <<key, pair, req, left, broken>>
  BY DEF ChatInv, CreateGroup, histVars
<1>1. /\ n \in ChatIds /\ kind[n] = "free" /\ n \notin Direct /\ n \notin Ownerless
      /\ \A u \in Users : role[n][u] = "none"
  BY <1>0, FreshChat
<1>2. new \in [Users -> Roles \ {"admin"}]
  BY DEF Roles
<1>3. created' \in 0..MaxChats /\ \A c \in ChatIds : c # n => (created' < c <=> created < c)
  BY <1>0, ChatsAssumption DEF TypeOK, ChatIds
<1>4. ~(created' < n) /\ created =< created' /\ created' \in Nat /\ created' =< MaxChats
  BY <1>0, ChatsAssumption DEF TypeOK
<1> HIDE DEF n, new
<1>5. /\ kind' \in [ChatIds -> {"free", "direct", "group"}]
      /\ role' \in [ChatIds -> [Users -> Roles \ {"admin"}]]
      /\ kind'[n] = "group"
      /\ \A c \in ChatIds : c # n => kind'[c] = kind[c] /\ role'[c] = role[c]
  BY <1>0, <1>1, <1>2 DEF TypeOK
<1>6. TypeOK'
  <2>1. \A c \in ChatIds : kind'[c] = "free" <=> created' < c
    BY <1>0, <1>3, <1>4, <1>5 DEF TypeOK
  <2> QED
    BY <2>1, <1>0, <1>3, <1>5 DEF TypeOK
<1>7. Direct' = Direct
  BY <1>1, <1>5 DEF Direct
<1>8. TableInv'
  BY <1>0, <1>5, <1>7 DEF TableInv
<1>9. TablesGrow
  BY <1>0, <1>1, <1>4, <1>5 DEF TablesGrow
<1>10. RequestInv'
  <2>1. ASSUME NEW p \in Requests PROVE Informed(p)'
    <3>1. TypeOK /\ Informed(p) /\ req'[p] = req[p]
      BY <1>0 DEF ChatInv, RequestInv
    <3> QED
      BY <3>1, <1>4, <1>5, <1>9, StillInformed
  <2> QED
    BY <2>1 DEF RequestInv
<1>11. DirectHasBothMembers'
  <2>1. SUFFICES ASSUME NEW d \in Direct \ (BeingFilled \union left \union broken),
                        NEW id \in pair[d]
                 PROVE  role'[d][id[1]] = "member"
    BY <1>0, <1>7 DEF DirectHasBothMembers, BeingFilled
  <2>2. d \in ChatIds /\ d # n
    BY <1>1 DEF Direct
  <2> QED
    BY <2>2, <1>5 DEF ChatInv, DirectHasBothMembers
<1>12. OwnersLeave
  BY <1>1, <1>5 DEF OwnersLeave
<1>13. StaysFrozen
  <2>1. SUFFICES ASSUME NEW c \in Ownerless, ~LetThrough(c)
                 PROVE  /\ c \in Ownerless' /\ ~LetThrough(c)'
                        /\ role'[c] = role[c]
    BY DEF StaysFrozen
  <2>2. c \in ChatIds /\ c # n
    BY <1>1 DEF Ownerless
  <2>3. c \in Ownerless'
    BY <2>2, <1>5 DEF Ownerless
  <2>4. ~LetThrough(c)'
    BY <2>1, <1>0 DEF LetThrough
  <2> QED
    BY <2>2, <2>3, <2>4, <1>5
<1> QED
  BY <1>6, <1>8, <1>10, <1>11, <1>12, <1>13 DEF Kept, ChatInv

-----------------------------------------------------------------------------
(***************************************************************************)
(* The theorems.                                                           *)
(***************************************************************************)
LEMMA ChatInit == Init => ChatInv
<1> SUFFICES ASSUME Init PROVE ChatInv
  OBVIOUS
<1> USE DEF Init
<1>0. \A q \in Requests : req[q] = Idle
  OBVIOUS
<1>1. TypeOK
  <2>1. created \in 0..MaxChats /\ \A c \in ChatIds : kind[c] = "free" <=> created < c
    BY ChatsAssumption DEF ChatIds
  <2>2. req \in [Requests -> RequestType]
    BY IdleType
  <2>3. \A q \in Requests : req[q].pc # "members"
    BY <1>0, IdleType
  <2>4. role \in [ChatIds -> [Users -> Roles \ {"admin"}]]
    BY DEF Roles
  <2> QED
    BY <2>1, <2>2, <2>3, <2>4 DEF TypeOK
<1>2. Direct = {}
  BY DEF Direct
<1>3. TableInv
  BY <1>2 DEF TableInv
<1>4. RequestInv
  BY <1>0, IdleType DEF RequestInv, Informed, MaxAttempts
<1>5. DirectHasBothMembers
  BY <1>2 DEF DirectHasBothMembers
<1> QED
  BY <1>1, <1>3, <1>4, <1>5 DEF ChatInv

(* Every step keeps the invariant and obeys both action properties.        *)
LEMMA ChatStep ==
  ASSUME ChatInv, [Next]_vars
  PROVE  Kept
<1>1. CASE UNCHANGED vars
  <2> USE DEF vars, tableVars, histVars
  <2>1. /\ UNCHANGED <<created, kind, key, pair, role, req, failures, broken, left>>
    BY <1>1
  <2>2. ChatInv'
    <3>1. TypeOK' /\ Direct' = Direct /\ BeingFilled' = BeingFilled
      BY <2>1 DEF ChatInv, TypeOK, Direct, BeingFilled
    <3>2. TableInv' /\ DirectHasBothMembers'
      BY <2>1, <3>1 DEF ChatInv, TableInv, DirectHasBothMembers
    <3>3. RequestInv'
      BY <2>1, <3>1 DEF ChatInv, RequestInv, Informed, KeyOf
    <3> QED
      BY <3>1, <3>2, <3>3 DEF ChatInv
  <2>3. OwnersLeave /\ StaysFrozen
    BY <2>1 DEF OwnersLeave, StaysFrozen, Ownerless, LetThrough
  <2> QED
    BY <2>2, <2>3 DEF Kept
<1>2. ASSUME NEW q \in Requests, HandlerStep(q) PROVE Kept
  <2>1. CASE CreateChat(q)
    BY <2>1, KeyTakenStep, CreateChatStep
  <2> QED
    BY <1>2, <2>1, LookupStep, RequireMemberStep, AddStep, FindTargetStep, DeleteStep
       DEF HandlerStep
<1> QED
  BY <1>1, <1>2, ArriveStep, FailStep, CreateGroupStep DEF Next

(* Every reachable state satisfies the inductive invariant, and every step *)
(* the two action properties.                                              *)
LEMMA ChatInvAlways == Spec => []ChatInv
<1>1. Init => ChatInv
  BY ChatInit
<1>2. ChatInv /\ [Next]_vars => ChatInv'
  BY ChatStep DEF Kept
<1> QED
  BY <1>1, <1>2, PTL DEF Spec

(* Type correctness of the chats: no two requests fill one chat, and no    *)
(* operation of the service makes an admin.                                *)
THEOREM ChatTypeCorrect == Spec => []TypeOK
<1>1. ChatInv => TypeOK
  BY DEF ChatInv
<1> QED
  BY <1>1, ChatInvAlways, PTL

(* However many CreateDirect requests race, two ids have one direct chat.  *)
THEOREM OneDirectPerPairAlways == Spec => []OneDirectPerPair
<1>1. ChatInv => OneDirectPerPair
  BY DEF ChatInv, TableInv, OneDirectPerPair
<1> QED
  BY <1>1, ChatInvAlways, PTL

(* A direct chat has both users once its CreateDirect is through, unless   *)
(* somebody left it or that request was cut short between the statements.  *)
THEOREM DirectHasBothMembersAlways == Spec => []DirectHasBothMembers
<1>1. ChatInv => DirectHasBothMembers
  BY DEF ChatInv
<1> QED
  BY <1>1, ChatInvAlways, PTL

(* The loop of CreateDirect never gets to its third attempt, whatever the  *)
(* number of concurrent requests.                                          *)
THEOREM RetryFindsAlways == Spec => []RetryFinds
<1>1. ChatInv => RetryFinds
  BY DEF ChatInv, RequestInv, Informed, RetryFinds
<1> QED
  BY <1>1, ChatInvAlways, PTL

(* An owner's row is deleted only by a RemoveMember of the owner, although *)
(* assertKickRules looks at roles that were read before.                   *)
THEOREM OwnerLeavesByHimselfAlways == Spec => OwnerLeavesByHimself
<1>1. ChatInv /\ [Next]_vars => [OwnersLeave]_vars
  BY ChatStep DEF Kept
<1> QED
  BY <1>1, ChatInvAlways, PTL DEF Spec, OwnerLeavesByHimself

(* Once the owner has left and what he let through is done, a group only   *)
(* shrinks, by members who leave.                                          *)
THEOREM OwnerlessIsFrozenAlways == Spec => OwnerlessIsFrozen
<1>1. ChatInv /\ [Next]_vars => [StaysFrozen]_vars
  BY ChatStep DEF Kept
<1> QED
  BY <1>1, ChatInvAlways, PTL DEF Spec, OwnerlessIsFrozen

=============================================================================
