------------------------------- MODULE Chats --------------------------------
(***************************************************************************)
(* Chats and their members: CreateDirect, CreateGroup, AddMembers and      *)
(* RemoveMember of service/chat_service.go over the statements of          *)
(* repository/postgres/chat_repository.go.                                 *)
(*                                                                         *)
(* Requests run concurrently; every statement is a transaction of its own, *)
(* except in CreateGroup, which has one transaction.  A request may end    *)
(* after any of its statements, by an error of the database or a crash.    *)
(*                                                                         *)
(* Handlers get user ids as text.  A UUID has more than one spelling (the  *)
(* validation accepts either case), the database writes only one of them,  *)
(* and a token carries that one.                                           *)
(***************************************************************************)
EXTENDS Integers, FiniteSets

CONSTANTS
  Requests,     \* concurrent HTTP requests
  Users,        \* users, as the database knows them
  None,         \* no user
  Spellings,    \* ways to write a UUID
  AsStored,     \* the one the database writes
  MaxChats,     \* bound: chats created
  MaxFailures   \* bound: requests cut short

ASSUME ChatsAssumption ==
  /\ AsStored \in Spellings
  /\ MaxChats \in Nat
  /\ MaxFailures \in Nat

MaxAttempts == 3
ChatIds == 1..MaxChats

(* A user id as it stands in a request. *)
Ids == Users \X Spellings
Stored(u) == <<u, AsStored>>

VARIABLES
  created,   \* rows of chats so far
  kind,      \* per chat: "free", "direct", "group"
  key,       \* per chat: direct_key
  pair,      \* history, per direct chat: the two ids it was opened for
  role,      \* table chat_members: per chat and user, "none" without a row
  req,       \* per request: what it is doing
  failures,  \* requests cut short so far
  broken,    \* history: chats whose CreateDirect was cut short
  left       \* history: chats that a member has left

tableVars == <<created, kind, key, pair, role>>
histVars == <<failures, broken, left>>
vars == <<tableVars, req, histVars>>

Roles == {"none", "owner", "admin", "member"}

(* actor: the caller.  target: the other user of CreateDirect or           *)
(* RemoveMember.  users: the ones AddMembers adds.  as: the caller's role  *)
(* as RemoveMember has read it.                                            *)
Idle == [pc |-> "idle", actor |-> None, target |-> Stored(None), chat |-> 0, users |-> {},
         as |-> "none", attempt |-> 0]

Init ==
  /\ created = 0
  /\ kind = [c \in ChatIds |-> "free"]
  /\ key = [c \in ChatIds |-> {}]
  /\ pair = [c \in ChatIds |-> {}]
  /\ role = [c \in ChatIds |-> [u \in Users |-> "none"]]
  /\ req = [q \in Requests |-> Idle]
  /\ failures = 0
  /\ broken = {}
  /\ left = {}

Goto(q, p) == req' = [req EXCEPT ![q].pc = p]
Finish(q) == req' = [req EXCEPT ![q] = Idle]

(* Variant: the wrong role constant. *)
WithAdmins(c, S) ==
  [role EXCEPT ![c] = [u \in Users |->
     IF u \in S /\ role[c][u] = "none" THEN "admin" ELSE role[c][u]]]

(* INSERT INTO chat_members ... 'member' ... ON CONFLICT DO NOTHING *)
WithMembers(c, S) ==
  [role EXCEPT ![c] = [u \in Users |->
     IF u \in S /\ role[c][u] = "none" THEN "member" ELSE role[c][u]]]

-----------------------------------------------------------------------------
(***************************************************************************)
(* CreateDirect.                                                           *)
(***************************************************************************)

(* Variant: the two ids are not put in order before they are hashed. *)
DirectKeyUnordered(a, b) == {<<1, a>>, <<2, b>>}

(* The hash of the two ids in order: it depends on which two texts they    *)
(* are, not on which comes first.                                          *)
DirectKey(a, b) == {a, b}

KeyOf(q) == DirectKey(Stored(req[q].actor), req[q].target)

(* The texts are compared: a caller's own id in another spelling passes. *)
CreateDirect(q, a, peer) ==
  /\ req[q].pc = "idle"
  /\ peer # Stored(a)
  /\ req' = [req EXCEPT ![q] = [Idle EXCEPT
       !.pc = "lookup", !.actor = a, !.target = peer, !.attempt = 1]]
  /\ UNCHANGED <<tableVars, histVars>>

(* Variant: the lookup joins chat_members on the caller. *)
GetDirectByKeyOfMember(q) ==
  /\ req[q].pc = "lookup"
  /\ LET found == {c \in ChatIds : kind[c] = "direct" /\ key[c] = KeyOf(q)
                                   /\ role[c][req[q].actor] # "none"}
     IN  IF found = {}
         THEN Goto(q, "insert")
         ELSE \E c \in found : req' = [req EXCEPT ![q].pc = "opened", ![q].chat = c]
  /\ UNCHANGED <<tableVars, histVars>>

GetDirectByKey(q) ==
  /\ req[q].pc = "lookup"
  /\ LET found == {c \in ChatIds : kind[c] = "direct" /\ key[c] = KeyOf(q)}
     IN  IF found = {}
         THEN Goto(q, "insert")
         ELSE \E c \in found : req' = [req EXCEPT ![q].pc = "opened", ![q].chat = c]
  /\ UNCHANGED <<tableVars, histVars>>

(* requireMember: 403 for a caller who is not in the chat. *)
RequireMember(q) ==
  /\ req[q].pc = "opened"
  /\ IF role[req[q].chat][req[q].actor] # "none" THEN Goto(q, "readd") ELSE Finish(q)
  /\ UNCHANGED <<tableVars, histVars>>

(* Both users are added again; the error, if any, is dropped. *)
ReAddMembers(q) ==
  /\ req[q].pc = "readd"
  /\ role' = WithMembers(req[q].chat, {req[q].actor, req[q].target[1]})
  /\ Finish(q)
  /\ UNCHANGED <<created, kind, key, pair, histVars>>

(* The INSERT.  uq_chats_direct_key makes the second of two equal keys     *)
(* fail; the request then looks again, three times in all, before a 409.   *)
CreateChat(q) ==
  /\ req[q].pc = "insert"
  /\ IF \E c \in ChatIds : kind[c] = "direct" /\ key[c] = KeyOf(q)
     THEN /\ IF req[q].attempt < MaxAttempts
             THEN req' = [req EXCEPT ![q].pc = "lookup", ![q].attempt = @ + 1]
             ELSE Finish(q)
          /\ UNCHANGED tableVars
     ELSE /\ created < MaxChats
          /\ created' = created + 1
          /\ kind' = [kind EXCEPT ![created + 1] = "direct"]
          /\ key' = [key EXCEPT ![created + 1] = KeyOf(q)]
          /\ pair' = [pair EXCEPT ![created + 1] = {Stored(req[q].actor), req[q].target}]
          /\ req' = [req EXCEPT ![q].pc = "members", ![q].chat = created + 1]
          /\ UNCHANGED role
  /\ UNCHANGED histVars

(* Variant: only the caller becomes a member. *)
AddCallerOnly(q) ==
  /\ req[q].pc = "members"
  /\ role' = WithMembers(req[q].chat, {req[q].actor})
  /\ Finish(q)
  /\ UNCHANGED <<created, kind, key, pair, histVars>>

AddDirectMembers(q) ==
  /\ req[q].pc = "members"
  /\ role' = WithMembers(req[q].chat, {req[q].actor, req[q].target[1]})
  /\ Finish(q)
  /\ UNCHANGED <<created, kind, key, pair, histVars>>

-----------------------------------------------------------------------------
(***************************************************************************)
(* Groups.                                                                 *)
(***************************************************************************)

(* CreateGroupWithMembers: the chat, its owner and its members at once. *)
CreateGroup(a, S) ==
  /\ created < MaxChats
  /\ created' = created + 1
  /\ kind' = [kind EXCEPT ![created + 1] = "group"]
  /\ role' = [role EXCEPT ![created + 1] = [u \in Users |->
       IF u = a THEN "owner" ELSE IF u \in S THEN "member" ELSE "none"]]
  /\ UNCHANGED <<key, pair, req, histVars>>

(* Variant: every member may add. *)
AddMembersByMember(q, a, c, S) ==
  /\ req[q].pc = "idle"
  /\ kind[c] = "group"
  /\ role[c][a] # "none"
  /\ S # {}
  /\ req' = [req EXCEPT ![q] = [Idle EXCEPT
       !.pc = "add", !.actor = a, !.chat = c, !.users = S]]
  /\ UNCHANGED <<tableVars, histVars>>

(* AddMembers, up to the check of the caller's role. *)
AddMembers(q, a, c, S) ==
  /\ req[q].pc = "idle"
  /\ kind[c] = "group"
  /\ role[c][a] \in {"owner", "admin"}
  /\ S # {}
  /\ req' = [req EXCEPT ![q] = [Idle EXCEPT
       !.pc = "add", !.actor = a, !.chat = c, !.users = S]]
  /\ UNCHANGED <<tableVars, histVars>>

InsertMembers(q) ==
  /\ req[q].pc = "add"
  /\ role' = WithMembers(req[q].chat, req[q].users)
  /\ Finish(q)
  /\ UNCHANGED <<created, kind, key, pair, histVars>>

(* RemoveMember, up to the lookup of the caller's membership. *)
RemoveMember(q, a, c, target) ==
  /\ req[q].pc = "idle"
  /\ kind[c] # "free"
  /\ role[c][a] # "none"
  /\ req' = [req EXCEPT ![q] = [Idle EXCEPT
       !.pc = "target", !.actor = a, !.chat = c, !.target = target, !.as = role[c][a]]]
  /\ UNCHANGED <<tableVars, histVars>>

(* Variant: the default branch of the switch lets the request through. *)
KickAllowedByDefault(actor, target) ==
  /\ actor = "owner" => target # "owner"
  /\ actor = "admin" => target = "member"

(* assertKickRules *)
KickAllowed(actor, target) ==
  \/ actor = "owner" /\ target # "owner"
  \/ actor = "admin" /\ target = "member"

(* The target's membership, then the rules: everybody may leave, nobody    *)
(* removes somebody else from a direct chat.                               *)
FindTarget(q) ==
  LET r == req[q]
      targetRole == role[r.chat][r.target[1]]
  IN  /\ r.pc = "target"
      /\ IF /\ targetRole # "none"
            /\ \/ r.target = Stored(r.actor)
               \/ kind[r.chat] = "group" /\ KickAllowed(r.as, targetRole)
         THEN Goto(q, "delete") ELSE Finish(q)
      /\ UNCHANGED <<tableVars, histVars>>

(* The DELETE tests nothing but that the row is there. *)
DeleteMember(q) ==
  /\ req[q].pc = "delete"
  /\ role' = [role EXCEPT ![req[q].chat][req[q].target[1]] = "none"]
  /\ left' = left \union {req[q].chat}
  /\ Finish(q)
  /\ UNCHANGED <<created, kind, key, pair, failures, broken>>

(* A statement fails, the client goes away or the process dies. *)
Fail(q) ==
  /\ failures < MaxFailures
  /\ req[q].pc # "idle"
  /\ failures' = failures + 1
  /\ broken' = IF req[q].pc = "members" THEN broken \union {req[q].chat} ELSE broken
  /\ Finish(q)
  /\ UNCHANGED <<tableVars, left>>

-----------------------------------------------------------------------------
Arrive(q) ==
  \E a \in Users :
    \/ \E peer \in Ids : CreateDirect(q, a, peer)
    \/ \E c \in ChatIds : \/ \E S \in SUBSET Users : AddMembers(q, a, c, S)
                          \/ \E id \in Ids : RemoveMember(q, a, c, id)

HandlerStep(q) ==
  \/ GetDirectByKey(q) \/ RequireMember(q) \/ ReAddMembers(q)
  \/ CreateChat(q) \/ AddDirectMembers(q)
  \/ InsertMembers(q) \/ FindTarget(q) \/ DeleteMember(q)

Next ==
  \/ \E q \in Requests : Arrive(q) \/ HandlerStep(q) \/ Fail(q)
  \/ \E a \in Users, S \in SUBSET Users : CreateGroup(a, S)

Spec == Init /\ [][Next]_vars

-----------------------------------------------------------------------------
(***************************************************************************)
(* Properties                                                              *)
(***************************************************************************)

Direct == {c \in ChatIds : kind[c] = "direct"}
BeingFilled == {req[q].chat : q \in {p \in Requests : req[p].pc = "members"}}

RequestType ==
  [pc : {"idle", "lookup", "opened", "readd", "insert", "members", "add", "target", "delete"},
   actor : Users \union {None}, target : (Users \union {None}) \X Spellings,
   chat : {0} \union ChatIds, users : SUBSET Users, as : Roles \ {"admin"},
   attempt : 0..MaxAttempts]

(* The shape of the tables and the requests.  A chat is filled by one      *)
(* request only, and admins are never made.                                *)
TypeOK ==
  /\ created \in 0..MaxChats
  /\ kind \in [ChatIds -> {"free", "direct", "group"}]
  /\ \A c \in ChatIds : kind[c] = "free" <=> created < c
  /\ key \in [ChatIds -> SUBSET Ids]
  /\ pair \in [ChatIds -> SUBSET Ids]
  /\ role \in [ChatIds -> [Users -> Roles \ {"admin"}]]
  /\ req \in [Requests -> RequestType]
  /\ \A p, q \in Requests :
       req[p].pc = "members" /\ req[q].pc = "members" /\ req[p].chat = req[q].chat => p = q

(* Two ids lead to one direct chat, whoever of the two users opens it and  *)
(* however many requests race.  Two spellings are two ids here, see        *)
(* OneDirectPerUsers.                                                      *)
OneDirectPerPair ==
  \A c, d \in Direct : pair[c] = pair[d] => c = d

(* A direct chat has both of its users, once the request that creates it   *)
(* is through, unless one of them left or that request was cut short.      *)
DirectHasBothMembers ==
  \A c \in Direct \ (BeingFilled \union left \union broken) :
    \A id \in pair[c] : role[c][id[1]] = "member"

(* The retry loop of CreateDirect finds the chat that beat it to the key:  *)
(* the third attempt, and the 409 after it, are never needed.              *)
RetryFinds ==
  \A q \in Requests : req[q].attempt < MaxAttempts

(* An owner leaves a group only by a request of his own, although the      *)
(* DELETE trusts roles that were read before it.                           *)
Leaves(c, u) ==
  \E q \in Requests : /\ req[q].pc = "delete" /\ req'[q].pc = "idle"
                      /\ req[q].chat = c /\ req[q].actor = u

OwnersLeave ==
  \A c \in ChatIds, u \in Users :
    role[c][u] = "owner" /\ role'[c][u] # "owner" => Leaves(c, u)

OwnerLeavesByHimself == [][OwnersLeave]_vars

(* A group whose owner has left is frozen: requests that were let through  *)
(* while he was there may still be carried out, and after them nobody is   *)
(* added, promoted or removed; members can only leave by themselves.       *)
Ownerless == {c \in ChatIds : kind[c] = "group" /\ \A u \in Users : role[c][u] # "owner"}

LetThrough(c) ==
  \E q \in Requests : req[q].chat = c /\ (req[q].pc = "add" \/ req[q].as = "owner")

StaysFrozen ==
  \A c \in Ownerless : ~LetThrough(c) =>
    /\ c \in Ownerless' /\ ~LetThrough(c)'
    /\ \A u \in Users : role'[c][u] # role[c][u] => Leaves(c, u)

OwnerlessIsFrozen == [][StaysFrozen]_vars

(***************************************************************************)
(* The inductive invariants behind these properties (see ChatsProofs).     *)
(* TableInv: the key of a direct chat is its pair, and the index keeps     *)
(* keys apart; a direct chat has no owner.  RequestInv: what a request has *)
(* learned about its chat and its users stays true while others go on: a   *)
(* chat is never deleted, and nobody becomes an owner after its creation.  *)
(***************************************************************************)
TableInv ==
  /\ \A c \in Direct : key[c] = pair[c]
  /\ \A c, d \in Direct : key[c] = key[d] => c = d
  /\ \A c \in ChatIds, u \in Users :
       /\ kind[c] = "direct" => role[c][u] # "owner"
       /\ kind[c] = "free" => role[c][u] = "none"

Informed(q) ==
  LET r == req[q]
  IN  /\ r.pc # "idle" => r.actor \in Users
      /\ r.pc \notin {"idle", "add"} => r.target \in Ids
      /\ r.pc \in {"opened", "readd", "members"} => r.chat \in Direct
      /\ r.pc \in {"add", "target", "delete"} => r.chat \in 1..created
      /\ r.pc = "add" => kind[r.chat] = "group"
      /\ r.pc = "members" => pair[r.chat] = {Stored(r.actor), r.target}
      /\ r.attempt < MaxAttempts
      /\ r.pc = "lookup" /\ r.attempt # 1 => \E c \in Direct : key[c] = KeyOf(q)
      /\ r.pc = "insert" => r.attempt = 1
      /\ r.pc = "delete" =>
           \/ r.target = Stored(r.actor)
           \/ r.as = "owner" /\ role[r.chat][r.target[1]] # "owner"

RequestInv == \A q \in Requests : Informed(q)

(* service/chat_service.go: CreateDirect opens the existing chat "or       *)
(* creates one with both members": a chat nobody left has somebody in it.  *)
DirectIsUsable ==
  \A c \in Direct \ (BeingFilled \union left) : \E u \in Users : role[c][u] # "none"

(* README.md: direct chats are "de-duplicated by ordered user pair", and   *)
(* POST /chats/direct is "idempotent by ordered user pair": two users have *)
(* one direct chat, however the requests spell their ids.                  *)
UsersOf(c) == {id[1] : id \in pair[c]}

OneDirectPerUsers == \A c, d \in Direct : UsersOf(c) = UsersOf(d) => c = d
=============================================================================
