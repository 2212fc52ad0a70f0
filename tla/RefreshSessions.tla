-------------------------- MODULE RefreshSessions ---------------------------
(***************************************************************************)
(* Refresh sessions: Login, Refresh, Logout and LogoutAll of               *)
(* service/auth_service.go over the statements of                          *)
(* repository/postgres/session_repository.go.                              *)
(*                                                                         *)
(* A session is named by its number; only who holds its token can name it. *)
(* Refresh looks the session up, then rotates it in a transaction that     *)
(* locks the row; Logout looks it up, then revokes it; LogoutAll is one    *)
(* UPDATE over the rows of a user.  Under READ COMMITTED that UPDATE       *)
(* visits the rows that were visible when it started, waits for the ones   *)
(* that are locked, and tests its WHERE clause again on each of them.      *)
(***************************************************************************)
EXTENDS Integers, FiniteSets

CONSTANTS
  Requests,     \* concurrent HTTP requests
  Users,        \* user ids
  None,         \* no user
  MaxSessions   \* bound: sessions created

ASSUME SessionsAssumption ==
  /\ None \notin Users
  /\ MaxSessions \in Nat

Sessions == 1..MaxSessions

VARIABLES
  created,     \* rows of refresh_sessions so far
  state,       \* per session: "free", "active", "revoked"
  owner,       \* per session: user_id
  login,       \* history, per session: the session of the login it stems from
  parent,      \* history, per session: the one it replaced, 0 after a login
  expired,     \* sessions whose expires_at has passed
  req,         \* per request: what it is doing
  loggedOut,   \* history: sessions that a Logout revoked
  terminated,  \* history: logins of a user whose LogoutAll has returned
  escaped      \* history: sessions that replaced one a LogoutAll had yet to
               \* visit, and their successors

rowVars == <<created, state, owner, login, parent, expired>>
histVars == <<loggedOut, terminated, escaped>>
vars == <<rowVars, req, histVars>>

(* sess: the session looked up.  todo and got: the rows LogoutAll has to   *)
(* visit and the ones it has updated.  logins: those it has to terminate.  *)
Idle == [pc |-> "idle", sess |-> 0, todo |-> {}, got |-> {}, logins |-> {}]

Init ==
  /\ created = 0
  /\ state = [s \in Sessions |-> "free"]
  /\ owner = [s \in Sessions |-> None]
  /\ login = [s \in Sessions |-> 0]
  /\ parent = [s \in Sessions |-> 0]
  /\ expired = {}
  /\ req = [q \in Requests |-> Idle]
  /\ loggedOut = {}
  /\ terminated = {}
  /\ escaped = {}

Finish(q) == req' = [req EXCEPT ![q] = Idle]

(* revoked_at IS NULL AND expires_at > now *)
Valid(s) == state[s] = "active" /\ s \notin expired

(* The rows that the unfinished transaction of a request has locked. *)
Held(q) == IF req[q].pc = "locked" THEN {req[q].sess} ELSE req[q].got

LockedRows(q) == UNION {Held(p) : p \in Requests \ {q}}

-----------------------------------------------------------------------------
(* issueTokens: one INSERT. *)
IssueTokens(u) ==
  /\ created < MaxSessions
  /\ created' = created + 1
  /\ state' = [state EXCEPT ![created + 1] = "active"]
  /\ owner' = [owner EXCEPT ![created + 1] = u]
  /\ login' = [login EXCEPT ![created + 1] = created + 1]
  /\ UNCHANGED <<parent, expired, req, histVars>>

(* Login, and Register for a new user: what they check before changes no   *)
(* session.                                                                *)
Login(u) == IssueTokens(u)

Expire(s) ==
  /\ s \in 1..created /\ s \notin expired
  /\ expired' = expired \union {s}
  /\ UNCHANGED <<created, state, owner, login, parent, req, histVars>>

(* GetByTokenHash, for Refresh (next = "rotate") and Logout ("revoke"). *)
GetByTokenHash(q, s, next) ==
  /\ req[q].pc = "idle"
  /\ Valid(s)
  /\ req' = [req EXCEPT ![q] = [Idle EXCEPT !.pc = next, !.sess = s]]
  /\ UNCHANGED <<rowVars, histVars>>

(* Variant: SELECT without FOR UPDATE. *)
RotateSelectUnlocked(q) ==
  /\ req[q].pc = "rotate"
  /\ IF Valid(req[q].sess)
     THEN req' = [req EXCEPT ![q].pc = "locked"]
     ELSE Finish(q)
  /\ UNCHANGED <<rowVars, histVars>>

(* SELECT ... FOR UPDATE: no valid row means ErrNotFound, 401. *)
RotateSelect(q) ==
  /\ req[q].pc = "rotate"
  /\ req[q].sess \notin LockedRows(q)
  /\ IF Valid(req[q].sess)
     THEN req' = [req EXCEPT ![q].pc = "locked"]
     ELSE Finish(q)
  /\ UNCHANGED <<rowVars, histVars>>

(* The UPDATE of the old row and the INSERT of the new one, committed.     *)
(* escaped is history.                                                     *)
RotateCommit(q) ==
  /\ created < MaxSessions
  /\ req[q].pc = "locked"
  /\ LET s == req[q].sess
         n == created + 1
     IN  /\ created' = n
         /\ state' = [state EXCEPT ![s] = "revoked", ![n] = "active"]
         /\ owner' = [owner EXCEPT ![n] = owner[s]]
         /\ login' = [login EXCEPT ![n] = login[s]]
         /\ parent' = [parent EXCEPT ![n] = s]
         /\ escaped' = IF s \in escaped \/ \E p \in Requests : s \in req[p].todo
                       THEN escaped \union {n} ELSE escaped
  /\ Finish(q)
  /\ UNCHANGED <<expired, loggedOut, terminated>>

(* Variant: UPDATE ... WHERE id = $1 alone, which waits for no test. *)
RevokeUnconditionally(q) ==
  /\ req[q].pc = "revoke"
  /\ LET s == req[q].sess
     IN  /\ s \notin LockedRows(q)
         /\ state' = [state EXCEPT ![s] = "revoked"]
         /\ loggedOut' = loggedOut \union {s}
  /\ Finish(q)
  /\ UNCHANGED <<created, owner, login, parent, expired, terminated, escaped>>

(* UPDATE ... WHERE id = $1 AND revoked_at IS NULL: no row means 401. *)
Revoke(q) ==
  /\ req[q].pc = "revoke"
  /\ LET s == req[q].sess
     IN  /\ s \notin LockedRows(q)
         /\ IF state[s] = "active"
            THEN /\ state' = [state EXCEPT ![s] = "revoked"]
                 /\ loggedOut' = loggedOut \union {s}
            ELSE UNCHANGED <<state, loggedOut>>
  /\ Finish(q)
  /\ UNCHANGED <<created, owner, login, parent, expired, terminated, escaped>>

(* RevokeAllByUser starts: its snapshot decides which rows it visits. *)
RevokeAllStart(q, u) ==
  LET rows == {s \in Sessions : owner[s] = u /\ state[s] = "active"}
  IN  /\ req[q].pc = "idle"
      /\ req' = [req EXCEPT ![q] = [Idle EXCEPT
           !.pc = "revokeAll", !.todo = rows,
           !.logins = {login[s] : s \in {t \in Sessions : owner[t] = u}}]]
      /\ UNCHANGED <<rowVars, histVars>>

(* It visits them in some order, and waits for the ones that are locked. *)
RevokeAllRow(q) ==
  /\ req[q].pc = "revokeAll"
  /\ \E s \in req[q].todo \ LockedRows(q) :
       req' = [req EXCEPT ![q].todo = @ \ {s},
                          ![q].got = IF state[s] = "active" THEN @ \union {s} ELSE @]
  /\ UNCHANGED <<rowVars, histVars>>

RevokeAllCommit(q) ==
  /\ req[q].pc = "revokeAll"
  /\ req[q].todo = {}
  /\ state' = [s \in Sessions |-> IF s \in req[q].got THEN "revoked" ELSE state[s]]
  /\ terminated' = terminated \union req[q].logins
  /\ Finish(q)
  /\ UNCHANGED <<created, owner, login, parent, expired, loggedOut, escaped>>

(* An error, a cancelled request, or two logouts that wait for each other: *)
(* Rotate or RevokeAllByUser is rolled back.                               *)
Rollback(q) ==
  /\ req[q].pc \in {"locked", "revokeAll"}
  /\ Finish(q)
  /\ UNCHANGED <<rowVars, histVars>>

-----------------------------------------------------------------------------
SessionStep ==
  \/ \E s \in Sessions : Expire(s)
  \/ \E q \in Requests :
       \/ \E s \in Sessions : GetByTokenHash(q, s, "rotate") \/ GetByTokenHash(q, s, "revoke")
       \/ RotateSelect(q) \/ RotateCommit(q)
       \/ Revoke(q)
       \/ \E u \in Users : RevokeAllStart(q, u)
       \/ RevokeAllRow(q) \/ RevokeAllCommit(q) \/ Rollback(q)

Next == (\E u \in Users : Login(u)) \/ SessionStep

Spec == Init /\ [][Next]_vars

-----------------------------------------------------------------------------
(***************************************************************************)
(* Properties                                                              *)
(***************************************************************************)

RequestType ==
  [pc : {"idle", "rotate", "locked", "revoke", "revokeAll"}, sess : {0} \union Sessions,
   todo : SUBSET Sessions, got : SUBSET Sessions, logins : SUBSET ({0} \union Sessions)]

(* The shape of the rows and the requests: what a request has locked is    *)
(* an active row, and no row is locked twice.                              *)
TypeOK ==
  /\ created \in 0..MaxSessions
  /\ state \in [Sessions -> {"free", "active", "revoked"}]
  /\ owner \in [Sessions -> Users \union {None}]
  /\ login \in [Sessions -> {0} \union Sessions]
  /\ parent \in [Sessions -> {0} \union Sessions]
  /\ expired \subseteq 1..created
  /\ \A s \in Sessions : state[s] = "free" <=> created < s
  /\ req \in [Requests -> RequestType]
  /\ \A q \in Requests :
       /\ req[q].pc \in {"rotate", "locked", "revoke"} => req[q].sess \in 1..created
       /\ \A s \in Held(q) :
            state[s] = "active" /\ \A p \in Requests \ {q} : s \notin Held(p)

(* A refresh token is good for one rotation: however many Refresh, Logout  *)
(* and LogoutAll calls race with it, a session has at most one successor,  *)
(* and only one session of a login is active at any time.                  *)
OneActivePerLogin ==
  /\ \A s, t \in Sessions : parent[s] # 0 /\ parent[s] = parent[t] => s = t
  /\ \A s, t \in Sessions :
       state[s] = "active" /\ state[t] = "active" /\ login[s] = login[t] => s = t

(* A Logout that reported success ended its login: the session it revoked  *)
(* has no successor, also when a Refresh of the same token was under way,  *)
(* and never gets one.                                                     *)
LogoutEndsLogin ==
  \A s \in loggedOut :
    /\ state[s] = "revoked"
    /\ \A t \in Sessions : login[t] = login[s] => state[t] # "active"

(* What survives a LogoutAll that has returned was rotated while it ran:   *)
(* the session that Refresh replaced was still to be visited, and the      *)
(* snapshot does not contain the new one.  A rotation that commits before  *)
(* LogoutAll starts, that waits for a row it has updated, or that comes    *)
(* after it, leaves no session behind.                                     *)
LogoutAllMissesOnlyRotations ==
  \A s \in Sessions : login[s] \in terminated /\ state[s] = "active" => s \in escaped

(***************************************************************************)
(* The inductive invariant behind OneActivePerLogin and LogoutEndsLogin    *)
(* (see AccountsProofs): a session is replaced only by the                 *)
(* transaction that revokes it, and a login is the number of a session     *)
(* that exists.                                                            *)
(***************************************************************************)
LineageInv ==
  /\ \A s \in Sessions : parent[s] # 0 => state[parent[s]] = "revoked" /\ s <= created
  /\ \A s \in 1..created : login[s] \in 1..created
  /\ loggedOut \subseteq 1..created

(***************************************************************************)
(* With LogoutAllMissesOnlyRotations: the sessions of a login have one     *)
(* owner, and an active session of a login that LogoutAll has to terminate *)
(* is one it will visit or has updated, unless it has escaped.             *)
(***************************************************************************)
OwnersInv ==
  /\ \A s \in Sessions : created < s => owner[s] = None
  /\ \A s, t \in 1..created : login[s] = login[t] => owner[s] = owner[t]
  /\ terminated \subseteq 1..created

LogoutAllInv ==
  \A q \in Requests : req[q].pc = "revokeAll" =>
    /\ req[q].logins \subseteq 1..created
    /\ \A s \in Sessions : login[s] \in req[q].logins /\ state[s] = "active" =>
         s \in req[q].todo \union req[q].got \union escaped

(* README.md, logout-all: "Terminate all active sessions for the current   *)
(* user": no session of a login made before it is valid once it returned.  *)
LogoutAllTerminates ==
  \A s \in Sessions : login[s] \in terminated => ~Valid(s)
=============================================================================
