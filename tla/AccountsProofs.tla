--------------------------- MODULE AccountsProofs ---------------------------
(***************************************************************************)
(* Proofs about RefreshSessions and about its composition with Accounts,   *)
(* for every set of requests, users, emails and nicknames, every           *)
(* lower-casing and every number of sessions.                              *)
(***************************************************************************)
EXTENDS Accounts, TLAPS

-----------------------------------------------------------------------------
(***************************************************************************)
(* RefreshSessions                                                         *)
(***************************************************************************)

(* A row is locked against a request iff another request holds it.         *)
LEMMA LockedByOther ==
  ASSUME NEW q, NEW s
  PROVE  s \in LockedRows(q) <=> \E p \in Requests : p # q /\ s \in Held(p)
BY DEF LockedRows

(* A step of one request that takes it to r, and what the others hold.     *)
LEMMA RequestMoves ==
  ASSUME TypeOK, NEW q \in Requests, NEW r \in RequestType, req' = [req EXCEPT ![q] = r]
  PROVE  /\ req' \in [Requests -> RequestType]
         /\ req'[q] = r
         /\ Held(q)' = IF r.pc = "locked" THEN {r.sess} ELSE r.got
         /\ \A p \in Requests \ {q} : req'[p] = req[p] /\ Held(p)' = Held(p)
BY DEF TypeOK, Held

(* An idle request has the type of a request.                              *)
LEMMA IdleType == Idle \in RequestType /\ Idle.pc = "idle" /\ Idle.got = {}
BY DEF Idle, RequestType

(* A step that leaves the table alone keeps the shape if the request comes *)
(* to hold only rows that are active and that nobody else holds.           *)
LEMMA LookOnly ==
  ASSUME TypeOK, UNCHANGED rowVars,
         NEW q \in Requests, NEW r \in RequestType, req' = [req EXCEPT ![q] = r],
         r.pc \in {"rotate", "locked", "revoke"} => r.sess \in 1..created,
         \A s \in (IF r.pc = "locked" THEN {r.sess} ELSE r.got) :
           state[s] = "active" /\ s \notin LockedRows(q)
  PROVE  TypeOK'
<1>1. /\ req' \in [Requests -> RequestType]
      /\ req'[q] = r
      /\ Held(q)' = IF r.pc = "locked" THEN {r.sess} ELSE r.got
      /\ \A p \in Requests \ {q} : req'[p] = req[p] /\ Held(p)' = Held(p)
  BY RequestMoves
<1>2. \A s : \A p \in Requests \ {q} : s \in Held(p) => s \in LockedRows(q)
  BY DEF LockedRows
<1>3. \A p \in Requests : \A s \in Held(p)' :
        state[s] = "active" /\ \A o \in Requests \ {p} : s \notin Held(o)'
  BY <1>1, <1>2 DEF TypeOK
<1>4. \A p \in Requests :
        req'[p].pc \in {"rotate", "locked", "revoke"} => req'[p].sess \in 1..created
  BY <1>1 DEF TypeOK
<1> QED
  BY <1>1, <1>3, <1>4 DEF TypeOK, rowVars

(* A request whose rows become "revoked" as it ends: the others hold none  *)
(* of them.                                                                *)
LEMMA RevokeAndFinish ==
  ASSUME TypeOK, NEW q \in Requests, Finish(q),
         NEW R \in SUBSET (1..created), \A s \in R : s \notin LockedRows(q),
         state' = [s \in Sessions |-> IF s \in R THEN "revoked" ELSE state[s]],
         UNCHANGED <<created, owner, login, parent, expired>>
  PROVE  TypeOK'
<1>1. /\ req' \in [Requests -> RequestType]
      /\ req'[q] = Idle /\ Held(q)' = {}
      /\ \A p \in Requests \ {q} : req'[p] = req[p] /\ Held(p)' = Held(p)
  BY RequestMoves, IdleType DEF Finish
<1>2. \A s : \A p \in Requests \ {q} : s \in Held(p) => s \in LockedRows(q)
  BY DEF LockedRows
<1>3. \A p \in Requests : Held(p) \subseteq Sessions
  <2>1. \A p \in Requests : req[p] \in RequestType /\ 1..created \subseteq Sessions
    BY SessionsAssumption DEF TypeOK, Sessions
  <2> QED
    BY <2>1 DEF TypeOK, Held, RequestType
<1>4. \A p \in Requests : \A s \in Held(p)' :
        state'[s] = "active" /\ \A o \in Requests \ {p} : s \notin Held(o)'
  <2>1. ASSUME NEW p \in Requests, NEW s \in Held(p)'
        PROVE  p # q /\ s \in Held(p) /\ s \in Sessions /\ s \notin R
    BY <1>1, <1>2, <1>3, <2>1
  <2>2. ASSUME NEW p \in Requests, NEW s \in Held(p)' PROVE state'[s] = "active"
    BY <2>1, <2>2 DEF TypeOK
  <2>3. ASSUME NEW p \in Requests, NEW s \in Held(p)', NEW o \in Requests \ {p}
        PROVE  s \notin Held(o)'
    BY <1>1, <2>1, <2>3 DEF TypeOK
  <2> QED
    BY <2>2, <2>3
<1>5. \A p \in Requests :
        req'[p].pc \in {"rotate", "locked", "revoke"} => req'[p].sess \in 1..created
  BY <1>1, IdleType DEF TypeOK
<1>6. /\ state' \in [Sessions -> {"free", "active", "revoked"}]
      /\ \A s \in Sessions : state'[s] = "free" <=> created < s
  BY SessionsAssumption DEF TypeOK, Sessions
<1> QED
  BY <1>1, <1>4, <1>5, <1>6 DEF TypeOK

(* No step leaves the shape TypeOK describes: a row is locked only while   *)
(* it is active, and by one request.                                       *)
LEMMA SessionTypeStep ==
  ASSUME TypeOK, [Next]_vars
  PROVE  TypeOK'
<1> USE SessionsAssumption
<1>0. /\ \A q \in Requests : req[q] \in RequestType /\ Held(q) \subseteq 1..created
      /\ 1..created \subseteq Sessions /\ created \in Nat
  BY DEF TypeOK, Held, RequestType, Sessions
<1>1. ASSUME NEW u \in Users, Login(u) PROVE TypeOK'
  <2>1. \A q \in Requests : Held(q)' = Held(q)
    BY <1>1 DEF Login, IssueTokens, Held
  <2> QED
    BY <1>0, <1>1, <2>1 DEF TypeOK, Sessions, Login, IssueTokens
<1>2. ASSUME NEW s \in Sessions, Expire(s) PROVE TypeOK'
  BY <1>2 DEF TypeOK, Expire, Held
<1>3. ASSUME NEW q \in Requests, NEW s \in Sessions, NEW next \in {"rotate", "revoke"},
             GetByTokenHash(q, s, next)
      PROVE  TypeOK'
  <2> DEFINE r == [Idle EXCEPT !.pc = next, !.sess = s]
  <2>1. r \in RequestType /\ r.pc = next /\ r.sess = s /\ r.got = {}
    BY DEF Idle, RequestType
  <2>2. s \in 1..created
    BY <1>3 DEF GetByTokenHash, Valid, TypeOK, Sessions
  <2>3. req' = [req EXCEPT ![q] = r] /\ UNCHANGED rowVars
    BY <1>3 DEF GetByTokenHash
  <2> HIDE DEF r
  <2> QED
    BY <2>1, <2>2, <2>3, LookOnly
<1>4. ASSUME NEW q \in Requests, Finish(q), UNCHANGED rowVars PROVE TypeOK'
  BY <1>4, LookOnly, IdleType DEF Finish
<1>5. ASSUME NEW q \in Requests, RotateSelect(q) PROVE TypeOK'
  <2>1. CASE Valid(req[q].sess)
    <3> DEFINE r == [req[q] EXCEPT !.pc = "locked"]
    <3>1. r \in RequestType /\ r.pc = "locked" /\ r.sess = req[q].sess
      BY <1>0 DEF RequestType
    <3>2. req' = [req EXCEPT ![q] = r] /\ UNCHANGED rowVars
      BY <1>5, <2>1 DEF RotateSelect
    <3>3. r.sess \in 1..created /\ state[r.sess] = "active" /\ r.sess \notin LockedRows(q)
      BY <1>5, <2>1, <3>1 DEF RotateSelect, Valid, TypeOK
    <3> HIDE DEF r
    <3> QED
      BY <3>1, <3>2, <3>3, LookOnly
  <2>2. CASE ~Valid(req[q].sess)
    BY <1>4, <1>5, <2>2 DEF RotateSelect
  <2> QED
    BY <2>1, <2>2
<1>6. ASSUME NEW q \in Requests, RotateCommit(q) PROVE TypeOK'
  <2>1. /\ req' \in [Requests -> RequestType]
        /\ req'[q] = Idle /\ Held(q)' = {}
        /\ \A p \in Requests \ {q} : req'[p] = req[p] /\ Held(p)' = Held(p)
    BY <1>6, RequestMoves, IdleType DEF RotateCommit, Finish
  <2>2. Held(q) = {req[q].sess} /\ req[q].sess \in 1..created
    BY <1>0, <1>6 DEF RotateCommit, Held
  <2>3. \A p \in Requests \ {q} : req[q].sess \notin Held(p)
    BY <2>2 DEF TypeOK
  <2>4. /\ created + 1 \in Sessions /\ created' = created + 1
        /\ state' = [state EXCEPT ![req[q].sess] = "revoked", ![created + 1] = "active"]
    BY <1>6, <1>0 DEF RotateCommit, Sessions
  <2>5. \A p \in Requests : \A s \in Held(p)' :
          state'[s] = "active" /\ \A o \in Requests \ {p} : s \notin Held(o)'
    BY <1>0, <2>1, <2>2, <2>3, <2>4 DEF TypeOK
  <2>6. \A p \in Requests :
          req'[p].pc \in {"rotate", "locked", "revoke"} => req'[p].sess \in 1..created'
    BY <1>0, <2>1, <2>4, IdleType DEF TypeOK
  <2>7. /\ state' \in [Sessions -> {"free", "active", "revoked"}]
        /\ \A s \in Sessions : state'[s] = "free" <=> created' < s
    BY <1>0, <2>2, <2>4 DEF TypeOK, Sessions
  <2>8. /\ owner' \in [Sessions -> Users \union {None}]
        /\ login' \in [Sessions -> {0} \union Sessions]
        /\ parent' \in [Sessions -> {0} \union Sessions]
        /\ expired' \subseteq 1..created' /\ created' \in 0..MaxSessions
    BY <1>0, <1>6, <2>2, <2>4 DEF TypeOK, RotateCommit, Sessions
  <2> QED
    BY <2>1, <2>5, <2>6, <2>7, <2>8 DEF TypeOK
<1>7. ASSUME NEW q \in Requests, Rollback(q) PROVE TypeOK'
  BY <1>4, <1>7 DEF Rollback
<1>8. ASSUME NEW q \in Requests, Revoke(q) PROVE TypeOK'
  <2>1. CASE state[req[q].sess] = "active"
    <3>1. req[q].sess \in 1..created /\ req[q].sess \notin LockedRows(q)
      BY <1>8 DEF Revoke, TypeOK
    <3>2. state' = [s \in Sessions |-> IF s \in {req[q].sess} THEN "revoked" ELSE state[s]]
      BY <1>8, <2>1 DEF Revoke, TypeOK
    <3> QED
      BY <1>8, <3>1, <3>2, RevokeAndFinish DEF Revoke
  <2>2. CASE state[req[q].sess] # "active"
    BY <1>4, <1>8, <2>2 DEF Revoke, rowVars
  <2> QED
    BY <2>1, <2>2
<1>9. ASSUME NEW q \in Requests, NEW u \in Users, RevokeAllStart(q, u) PROVE TypeOK'
  <2> DEFINE rows == {s \in Sessions : owner[s] = u /\ state[s] = "active"}
             ls == {login[s] : s \in {t \in Sessions : owner[t] = u}}
             r == [Idle EXCEPT !.pc = "revokeAll", !.todo = rows, !.logins = ls]
  <2>1. rows \in SUBSET Sessions /\ ls \in SUBSET ({0} \union Sessions)
    BY DEF TypeOK
  <2>2. req' = [req EXCEPT ![q] = r] /\ UNCHANGED rowVars
    BY <1>9 DEF RevokeAllStart
  <2> HIDE DEF rows, ls
  <2>3. r \in RequestType /\ r.pc = "revokeAll" /\ r.got = {}
    BY <2>1 DEF Idle, RequestType
  <2> HIDE DEF r
  <2> QED
    BY <2>2, <2>3, LookOnly
<1>10. ASSUME NEW q \in Requests, RevokeAllRow(q) PROVE TypeOK'
  <2>0. PICK s \in req[q].todo \ LockedRows(q) :
          req' = [req EXCEPT ![q].todo = @ \ {s},
                             ![q].got = IF state[s] = "active" THEN @ \union {s} ELSE @]
    BY <1>10 DEF RevokeAllRow
  <2> DEFINE g == IF state[s] = "active" THEN req[q].got \union {s} ELSE req[q].got
             r == [req[q] EXCEPT !.todo = @ \ {s}, !.got = g]
  <2>1. s \in req[q].todo /\ req[q].todo \subseteq Sessions
    BY <1>0, <2>0 DEF RequestType
  <2>2. req' = [req EXCEPT ![q] = r] /\ UNCHANGED rowVars /\ s \notin LockedRows(q)
    BY <1>10, <2>0 DEF RevokeAllRow
  <2>3. req[q].pc = "revokeAll"
    BY <1>10 DEF RevokeAllRow
  <2>4. \A x \in g : state[x] = "active" /\ x \notin LockedRows(q)
    <3>1. Held(q) = req[q].got
      BY <2>3 DEF Held
    <3>2. \A x \in req[q].got : state[x] = "active" /\ x \notin LockedRows(q)
      BY <3>1, LockedByOther DEF TypeOK
    <3> QED
      BY <2>2, <3>2
  <2>5. g \in SUBSET Sessions
    BY <1>0, <2>1 DEF RequestType
  <2> HIDE DEF g
  <2>6. r \in RequestType /\ r.pc = "revokeAll" /\ r.got = g
    BY <1>0, <2>3, <2>5 DEF RequestType
  <2> HIDE DEF r
  <2> QED
    BY <2>2, <2>4, <2>6, LookOnly
<1>11. ASSUME NEW q \in Requests, RevokeAllCommit(q) PROVE TypeOK'
  <2>1. Held(q) = req[q].got
    BY <1>11 DEF RevokeAllCommit, Held
  <2>2. req[q].got \subseteq 1..created /\ \A s \in req[q].got : s \notin LockedRows(q)
    BY <1>0, <2>1 DEF TypeOK, LockedRows
  <2> QED
    BY <1>11, <2>2, RevokeAndFinish DEF RevokeAllCommit
<1>12. CASE UNCHANGED vars
  BY <1>12 DEF vars, rowVars, Held, TypeOK
<1> QED
  BY <1>1, <1>2, <1>3, <1>5, <1>6, <1>7, <1>8, <1>9, <1>10, <1>11, <1>12
  DEF Next, SessionStep

(* Rows and requests keep their shape; in particular rows are locked       *)
(* exclusively, however the statements of the requests interleave.         *)
THEOREM SessionTypeCorrect == Spec => []TypeOK
<1>1. Init => TypeOK
  BY SessionsAssumption, IdleType DEF Init, TypeOK, Held, Sessions
<1> QED
  BY <1>1, SessionTypeStep, PTL DEF Spec

-----------------------------------------------------------------------------
(* A step that revokes rows, and creates none, gives no session a          *)
(* successor and makes none active.                                        *)
LEMMA LineageUntouched ==
  ASSUME TypeOK, LineageInv, OneActivePerLogin, LogoutEndsLogin,
         UNCHANGED <<created, parent, login>>,
         \A s \in 1..created : state'[s] \in {state[s], "revoked"},
         \A s \in Sessions : s > created => state'[s] = state[s],
         \A s \in loggedOut' : \/ s \in loggedOut
                               \/ s \in 1..created /\ state[s] = "active" /\ state'[s] = "revoked"
  PROVE  LineageInv' /\ OneActivePerLogin' /\ LogoutEndsLogin'
<1>0. 1..created \subseteq Sessions
  BY SessionsAssumption DEF Sessions, TypeOK
<1>1. \A s \in Sessions : state'[s] = "active" => state[s] = "active"
  BY SessionsAssumption DEF Sessions, TypeOK
<1>2. \A s \in Sessions : state[s] = "revoked" => state'[s] = "revoked"
  BY SessionsAssumption DEF Sessions, TypeOK
<1>3. LineageInv'
  BY <1>0, <1>2 DEF LineageInv, TypeOK, Sessions
<1>4. OneActivePerLogin'
  BY <1>1 DEF OneActivePerLogin
<1>5. LogoutEndsLogin'
  <2>1. \A s \in loggedOut : s \in Sessions
    BY <1>0 DEF LineageInv
  <2>2. ASSUME NEW s \in loggedOut, NEW t \in Sessions, login[t] = login[s]
        PROVE  state'[s] = "revoked" /\ state'[t] # "active"
    BY <1>1, <1>2, <2>1, <2>2 DEF LogoutEndsLogin
  <2>3. ASSUME NEW s \in Sessions, state[s] = "active", state'[s] = "revoked",
               NEW t \in Sessions, login[t] = login[s]
        PROVE  state'[t] # "active"
    BY <1>1, <2>3 DEF OneActivePerLogin
  <2>4. ASSUME NEW s \in loggedOut'
        PROVE  state'[s] = "revoked" /\ \A t \in Sessions : login[t] = login[s] => state'[t] # "active"
    <3>1. CASE s \in loggedOut
      BY <2>1, <2>2, <3>1
    <3>2. CASE s \in 1..created /\ state[s] = "active" /\ state'[s] = "revoked"
      BY <1>0, <2>3, <3>2
    <3> QED
      BY <2>4, <3>1, <3>2
  <2> QED
    BY <2>4 DEF LogoutEndsLogin
<1> QED
  BY <1>3, <1>4, <1>5

(* The three together are kept by every step.                              *)
LEMMA LineageStep ==
  ASSUME TypeOK, LineageInv, OneActivePerLogin, LogoutEndsLogin, [Next]_vars
  PROVE  LineageInv' /\ OneActivePerLogin' /\ LogoutEndsLogin'
<1> USE SessionsAssumption
<1>0. 1..created \subseteq Sessions /\ created \in Nat
  BY DEF Sessions, TypeOK
<1>1. ASSUME NEW u \in Users, Login(u)
      PROVE  LineageInv' /\ OneActivePerLogin' /\ LogoutEndsLogin'
  BY <1>1 DEF Login, IssueTokens, histVars, TypeOK, LineageInv, OneActivePerLogin,
              LogoutEndsLogin, Sessions
<1>2. ASSUME NEW q \in Requests, RotateCommit(q)
      PROVE  LineageInv' /\ OneActivePerLogin' /\ LogoutEndsLogin'
  <2> DEFINE s == req[q].sess
             n == created + 1
  <2>1. s \in 1..created /\ state[s] = "active" /\ n \in Sessions
    BY <1>2 DEF RotateCommit, TypeOK, Held, Sessions
  <2>2. /\ created' = n
        /\ state' = [state EXCEPT ![s] = "revoked", ![n] = "active"]
        /\ login' = [login EXCEPT ![n] = login[s]]
        /\ parent' = [parent EXCEPT ![n] = s]
        /\ loggedOut' = loggedOut
    BY <1>2 DEF RotateCommit, histVars
  <2>3. /\ \A t \in Sessions : parent[t] # s /\ (t # n => parent'[t] = parent[t])
        /\ parent'[n] = s
    BY <1>0, <2>1, <2>2 DEF TypeOK, LineageInv, Sessions
  <2>4. /\ \A t \in Sessions : t # n => login'[t] = login[t]
        /\ login'[n] = login[s]
    BY <1>0, <2>1, <2>2 DEF TypeOK
  <2>5. /\ \A t \in Sessions : t # n /\ t # s => state'[t] = state[t]
        /\ state'[s] = "revoked" /\ state'[n] = "active" /\ s # n
    BY <1>0, <2>1, <2>2 DEF TypeOK
  <2> HIDE DEF s, n
  <2>6. LineageInv'
    <3>1. \A t \in 1..n : t # n => t \in 1..created
      BY DEF n, TypeOK
    <3> QED
      BY <2>1, <2>2, <2>3, <2>4, <2>5, <3>1 DEF TypeOK, LineageInv, n, Sessions
  <2>7. OneActivePerLogin'
    <3>1. s \in Sessions /\ \A t \in Sessions : t # s /\ login[t] = login[s] => state[t] # "active"
      BY <1>0, <2>1 DEF OneActivePerLogin
    <3>2. ASSUME NEW a \in Sessions, NEW b \in Sessions, parent'[a] # 0, parent'[a] = parent'[b]
          PROVE  a = b
      BY <2>1, <2>3, <3>2 DEF OneActivePerLogin
    <3>3. ASSUME NEW a \in Sessions, NEW b \in Sessions,
                 state'[a] = "active", state'[b] = "active", login'[a] = login'[b]
          PROVE  a = b
      BY <2>1, <2>4, <2>5, <3>1, <3>3 DEF OneActivePerLogin
    <3> QED
      BY <3>2, <3>3 DEF OneActivePerLogin
  <2>8. LogoutEndsLogin'
    <3>1. \A t \in loggedOut : t \in Sessions /\ t # n /\ t # s /\ login[t] # login[s]
      BY <1>0, <2>1 DEF LogoutEndsLogin, LineageInv, TypeOK, n
    <3>2. ASSUME NEW t \in loggedOut
          PROVE  /\ state'[t] = "revoked"
                 /\ \A u \in Sessions : login'[u] = login'[t] => state'[u] # "active"
      <4>1. state[t] = "revoked" /\ state'[t] = "revoked" /\ login'[t] = login[t]
        BY <2>4, <2>5, <3>1 DEF LogoutEndsLogin
      <4>2. ASSUME NEW u \in Sessions, login'[u] = login'[t] PROVE state'[u] # "active"
        BY <2>4, <2>5, <3>1, <4>1, <4>2 DEF LogoutEndsLogin
      <4> QED
        BY <4>1, <4>2
    <3> QED
      BY <2>2, <3>2 DEF LogoutEndsLogin
  <2> QED
    BY <2>6, <2>7, <2>8
<1>3. ASSUME NEW q \in Requests, Revoke(q)
      PROVE  LineageInv' /\ OneActivePerLogin' /\ LogoutEndsLogin'
  <2>1. req[q].sess \in 1..created
    BY <1>3 DEF Revoke, TypeOK
  <2>2. CASE state[req[q].sess] = "active"
    <3>1. /\ state' = [state EXCEPT ![req[q].sess] = "revoked"]
          /\ loggedOut' = loggedOut \union {req[q].sess}
          /\ UNCHANGED <<created, parent, login>>
      BY <1>3, <2>2 DEF Revoke
    <3> QED
      BY <1>0, <2>1, <2>2, <3>1, LineageUntouched DEF TypeOK
  <2>3. CASE state[req[q].sess] # "active"
    <3>1. UNCHANGED <<created, parent, login, state, loggedOut>>
      BY <1>3, <2>3 DEF Revoke
    <3> QED
      BY <3>1, LineageUntouched
  <2> QED
    BY <2>2, <2>3
<1>4. ASSUME NEW q \in Requests, RevokeAllCommit(q)
      PROVE  LineageInv' /\ OneActivePerLogin' /\ LogoutEndsLogin'
  <2>1. /\ UNCHANGED <<created, parent, login, loggedOut>>
        /\ state' = [s \in Sessions |-> IF s \in Held(q) THEN "revoked" ELSE state[s]]
    BY <1>4 DEF RevokeAllCommit, Held
  <2>2. Held(q) \subseteq 1..created
    <3>1. Held(q) \subseteq Sessions
      BY <1>4 DEF TypeOK, Held, RequestType, RevokeAllCommit
    <3> QED
      BY <1>0, <3>1 DEF TypeOK, Sessions
  <2> QED
    BY <1>0, <2>1, <2>2, LineageUntouched DEF TypeOK
<1>5. ASSUME UNCHANGED <<created, parent, login, state, loggedOut>>
      PROVE  LineageInv' /\ OneActivePerLogin' /\ LogoutEndsLogin'
  BY <1>5, LineageUntouched
<1> QED
  BY <1>1, <1>2, <1>3, <1>4, <1>5
  DEF Next, SessionStep, Expire, GetByTokenHash, RotateSelect, Rollback,
      RevokeAllStart, RevokeAllRow, vars, rowVars, histVars

(* The inductive invariant holds in every state.                           *)
LEMMA LineageAlways == Spec => [](TypeOK /\ LineageInv /\ OneActivePerLogin /\ LogoutEndsLogin)
<1>1. Init => LineageInv /\ OneActivePerLogin /\ LogoutEndsLogin
  BY SessionsAssumption DEF Init, LineageInv, OneActivePerLogin, LogoutEndsLogin, Sessions
<1> QED
  BY <1>1, SessionTypeCorrect, LineageStep, PTL DEF Spec

(* Refresh tokens rotate once: however many Refresh, Logout and LogoutAll  *)
(* calls race, a session has one successor at most, and a login one active *)
(* session.                                                                *)
THEOREM OneActivePerLoginAlways == Spec => []OneActivePerLogin
BY LineageAlways, PTL

(* A Logout that reported success ended its login, also when it raced with *)
(* a Refresh of the same token.                                            *)
THEOREM LogoutEndsLoginAlways == Spec => []LogoutEndsLogin
BY LineageAlways, PTL

-----------------------------------------------------------------------------
(* The sessions of a login keep their one owner.                           *)
LEMMA OwnersOfLogins ==
  ASSUME TypeOK, LineageInv, OwnersInv, LogoutAllInv, [Next]_vars
  PROVE  OwnersInv'
<1> USE SessionsAssumption
<1>0. /\ 1..created \subseteq Sessions /\ created \in Nat
      /\ \A s \in Sessions : created < s => owner[s] = None
      /\ \A s, t \in 1..created : login[s] = login[t] => owner[s] = owner[t]
      /\ \A s \in 1..created : login[s] \in 1..created
      /\ terminated \subseteq 1..created
  BY DEF Sessions, TypeOK, OwnersInv, LineageInv
<1>1. ASSUME NEW o, NEW l, created < MaxSessions, created' = created + 1,
             owner' = [owner EXCEPT ![created + 1] = o],
             login' = [login EXCEPT ![created + 1] = l], terminated' = terminated,
             \A s \in 1..created : login[s] = l => owner[s] = o
      PROVE  OwnersInv'
  <2>1. /\ created + 1 \in Sessions /\ 1..created' = 1..created \union {created + 1}
        /\ created + 1 \notin 1..created
    BY <1>0, <1>1 DEF Sessions
  <2>2. /\ owner'[created + 1] = o /\ login'[created + 1] = l
        /\ \A s \in Sessions : s # created + 1 => owner'[s] = owner[s] /\ login'[s] = login[s]
    BY <1>1, <2>1 DEF TypeOK
  <2>3. \A s \in Sessions : created' < s => owner'[s] = None
    BY <1>0, <1>1, <2>2 DEF Sessions
  <2>4. \A s, t \in 1..created' : login'[s] = login'[t] => owner'[s] = owner'[t]
    BY <1>0, <1>1, <2>1, <2>2
  <2> QED
    BY <1>0, <1>1, <2>1, <2>3, <2>4 DEF OwnersInv
<1>2. ASSUME NEW u \in Users, Login(u) PROVE OwnersInv'
  <2>1. \A s \in 1..created : login[s] # created + 1
    BY <1>0
  <2> QED
    BY <1>1, <1>2, <2>1 DEF Login, IssueTokens, histVars
<1>3. ASSUME NEW q \in Requests, RotateCommit(q) PROVE OwnersInv'
  <2>1. req[q].sess \in 1..created
    BY <1>3 DEF RotateCommit, TypeOK
  <2>2. \A s \in 1..created : login[s] = login[req[q].sess] => owner[s] = owner[req[q].sess]
    BY <1>0, <2>1
  <2>3. /\ created < MaxSessions /\ created' = created + 1 /\ terminated' = terminated
        /\ owner' = [owner EXCEPT ![created + 1] = owner[req[q].sess]]
        /\ login' = [login EXCEPT ![created + 1] = login[req[q].sess]]
    BY <1>3 DEF RotateCommit
  <2> QED
    BY <1>1, <2>2, <2>3
<1>4. ASSUME NEW q \in Requests, RevokeAllCommit(q) PROVE OwnersInv'
  <2>1. req[q].logins \subseteq 1..created
    BY <1>4 DEF RevokeAllCommit, LogoutAllInv
  <2> QED
    BY <1>0, <1>4, <2>1 DEF RevokeAllCommit, OwnersInv
<1>5. ASSUME UNCHANGED <<created, owner, login, terminated>> PROVE OwnersInv'
  BY <1>5 DEF OwnersInv
<1> QED
  BY <1>2, <1>3, <1>4, <1>5
  DEF Next, SessionStep, Expire, GetByTokenHash, RotateSelect, Rollback, Revoke,
      RevokeAllStart, RevokeAllRow, vars, rowVars, histVars

(* A step of a request that is not in LogoutAll, or leaves it, and that    *)
(* creates no session.                                                     *)
LEMMA LogoutAllUntouched ==
  ASSUME TypeOK, LogoutAllInv, UNCHANGED <<created, login, escaped>>,
         \A s \in Sessions : state'[s] = "active" => state[s] = "active",
         NEW q, \A p \in Requests : p # q => req'[p] = req[p],
         q \in Requests => req'[q].pc # "revokeAll"
  PROVE  /\ LogoutAllInv'
         /\ LogoutAllMissesOnlyRotations /\ terminated' = terminated =>
              LogoutAllMissesOnlyRotations'
<1>1. LogoutAllInv'
  <2>1. SUFFICES ASSUME NEW p \in Requests, req'[p].pc = "revokeAll"
                 PROVE  /\ req'[p].logins \subseteq 1..created
                        /\ \A s \in Sessions : login[s] \in req'[p].logins /\ state'[s] = "active" =>
                             s \in req'[p].todo \union req'[p].got \union escaped
    BY DEF LogoutAllInv
  <2>2. req'[p] = req[p]
    BY <2>1
  <2> QED
    BY <2>1, <2>2 DEF LogoutAllInv
<1> QED
  BY <1>1 DEF LogoutAllMissesOnlyRotations

(* A rotation of s into n while LogoutAll calls run: either one of them    *)
(* still has s to visit and n escapes, or none of them cares about s.      *)
LEMMA RotationEscapes ==
  ASSUME TypeOK, LineageInv, OwnersInv, LogoutAllInv, LogoutAllMissesOnlyRotations,
         NEW q \in Requests, RotateCommit(q)
  PROVE  LogoutAllInv' /\ LogoutAllMissesOnlyRotations'
<1> USE SessionsAssumption
<1> DEFINE s == req[q].sess
           n == created + 1
<1>1. /\ s \in 1..created /\ s \in Sessions /\ state[s] = "active" /\ s \in Held(q)
      /\ n \in Sessions /\ created \in Nat /\ s # n
  BY DEF RotateCommit, TypeOK, Held, Sessions
<1>2. /\ created' = n /\ terminated' = terminated
      /\ state' = [state EXCEPT ![s] = "revoked", ![n] = "active"]
      /\ login' = [login EXCEPT ![n] = login[s]]
      /\ escaped' = IF s \in escaped \/ \E p \in Requests : s \in req[p].todo
                    THEN escaped \union {n} ELSE escaped
      /\ req' = [req EXCEPT ![q] = Idle]
  BY DEF RotateCommit, Finish
<1> HIDE DEF s, n
<1>3. /\ login'[n] = login[s] /\ state'[s] = "revoked" /\ escaped \subseteq escaped'
      /\ \A t \in Sessions : t # n => login'[t] = login[t]
      /\ \A t \in Sessions : t # n /\ t # s => state'[t] = state[t]
  BY <1>1, <1>2 DEF TypeOK
<1>4. LogoutAllInv'
  <2>1. SUFFICES ASSUME NEW p \in Requests, req'[p].pc = "revokeAll"
                 PROVE  /\ req'[p].logins \subseteq 1..created'
                        /\ \A t \in Sessions : login'[t] \in req'[p].logins /\ state'[t] = "active" =>
                             t \in req'[p].todo \union req'[p].got \union escaped'
    BY DEF LogoutAllInv
  <2>2. p # q /\ req'[p] = req[p]
    BY <1>2, <2>1, IdleType DEF TypeOK
  <2>3. /\ req[p].logins \subseteq 1..created
        /\ \A t \in Sessions : login[t] \in req[p].logins /\ state[t] = "active" =>
             t \in req[p].todo \union req[p].got \union escaped
    BY <2>1, <2>2 DEF LogoutAllInv
  <2>4. req[p].logins \subseteq 1..created'
    BY <1>1, <1>2, <2>3 DEF n
  <2>5. ASSUME login[s] \in req[p].logins PROVE n \in escaped'
    <3>1. s \notin req[p].got
      <4>1. Held(p) = req[p].got
        BY <2>1, <2>2 DEF Held
      <4> QED
        BY <1>1, <2>2, <4>1 DEF TypeOK
    <3>2. s \in req[p].todo \/ s \in escaped
      BY <1>1, <2>3, <2>5, <3>1
    <3> QED
      BY <1>2, <3>2
  <2>6. ASSUME NEW t \in Sessions, login'[t] \in req[p].logins, state'[t] = "active"
        PROVE  t \in req[p].todo \union req[p].got \union escaped'
    <3>1. CASE t = n
      BY <1>3, <2>5, <2>6, <3>1
    <3>2. CASE t # n
      <4>1. t # s /\ state[t] = "active" /\ login[t] \in req[p].logins
        BY <1>3, <2>6, <3>2
      <4> QED
        BY <1>3, <2>3, <4>1
    <3> QED
      BY <3>1, <3>2
  <2> QED
    BY <2>2, <2>4, <2>6
<1>5. LogoutAllMissesOnlyRotations'
  <2>1. ASSUME login[s] \in terminated PROVE n \in escaped'
    BY <1>1, <1>2, <2>1 DEF LogoutAllMissesOnlyRotations
  <2>2. ASSUME NEW t \in Sessions, login'[t] \in terminated, state'[t] = "active"
        PROVE  t \in escaped'
    BY <1>3, <2>1, <2>2 DEF LogoutAllMissesOnlyRotations
  <2> QED
    BY <1>2, <2>2 DEF LogoutAllMissesOnlyRotations
<1> QED
  BY <1>4, <1>5

(* LogoutAll keeps an eye on every active session of the logins it has to  *)
(* terminate that does not escape it.                                      *)
LEMMA LogoutAllStep ==
  ASSUME TypeOK, LineageInv, OwnersInv, LogoutAllInv, LogoutAllMissesOnlyRotations, [Next]_vars
  PROVE  LogoutAllInv' /\ LogoutAllMissesOnlyRotations'
<1> USE SessionsAssumption
<1>0. 1..created \subseteq Sessions /\ created \in Nat
  BY DEF Sessions, TypeOK
<1>1. ASSUME NEW u \in Users, Login(u) PROVE LogoutAllInv' /\ LogoutAllMissesOnlyRotations'
  <2>1. /\ created + 1 \in Sessions /\ created' = created + 1
        /\ login' = [login EXCEPT ![created + 1] = created + 1]
        /\ state' = [state EXCEPT ![created + 1] = "active"]
        /\ UNCHANGED <<req, terminated, escaped>>
    BY <1>0, <1>1 DEF Login, IssueTokens, histVars, Sessions
  <2>2. /\ login'[created + 1] = created + 1
        /\ \A s \in Sessions : s # created + 1 => login'[s] = login[s] /\ state'[s] = state[s]
        /\ created + 1 \notin 1..created /\ 1..created \subseteq 1..created'
    BY <1>0, <2>1 DEF TypeOK
  <2>3. LogoutAllInv'
    BY <2>1, <2>2 DEF LogoutAllInv
  <2>4. LogoutAllMissesOnlyRotations'
    BY <2>1, <2>2 DEF LogoutAllMissesOnlyRotations, OwnersInv
  <2> QED
    BY <2>3, <2>4
<1>2. ASSUME NEW q \in Requests, UNCHANGED <<created, login, escaped, terminated>>,
             \A s \in Sessions : state'[s] = "active" => state[s] = "active",
             \A p \in Requests : p # q => req'[p] = req[p], req'[q].pc # "revokeAll"
      PROVE  LogoutAllInv' /\ LogoutAllMissesOnlyRotations'
  BY <1>2, LogoutAllUntouched
<1>3. ASSUME NEW q \in Requests, NEW r, r.pc # "revokeAll", req' = [req EXCEPT ![q] = r]
      PROVE  req'[q].pc # "revokeAll" /\ \A p \in Requests : p # q => req'[p] = req[p]
  BY <1>3 DEF TypeOK
<1>4. ASSUME NEW q \in Requests, Finish(q)
      PROVE  req'[q].pc # "revokeAll" /\ \A p \in Requests : p # q => req'[p] = req[p]
  BY <1>3, <1>4, IdleType DEF Finish
<1>5. ASSUME NEW q \in Requests, NEW s \in Sessions, NEW next \in {"rotate", "revoke"},
             GetByTokenHash(q, s, next)
      PROVE  LogoutAllInv' /\ LogoutAllMissesOnlyRotations'
  <2>1. [Idle EXCEPT !.pc = next, !.sess = s].pc # "revokeAll"
    BY DEF Idle
  <2> QED
    BY <1>2, <1>3, <1>5, <2>1 DEF GetByTokenHash, rowVars, histVars
<1>6. ASSUME NEW q \in Requests, RotateSelect(q)
      PROVE  LogoutAllInv' /\ LogoutAllMissesOnlyRotations'
  <2>1. CASE Valid(req[q].sess)
    <3>1. [req[q] EXCEPT !.pc = "locked"].pc # "revokeAll"
      BY DEF TypeOK, RequestType
    <3> QED
      BY <1>2, <1>3, <1>6, <2>1, <3>1 DEF RotateSelect, rowVars, histVars
  <2>2. CASE ~Valid(req[q].sess)
    BY <1>2, <1>4, <1>6, <2>2 DEF RotateSelect, rowVars, histVars
  <2> QED
    BY <2>1, <2>2
<1>7. ASSUME NEW q \in Requests, Rollback(q)
      PROVE  LogoutAllInv' /\ LogoutAllMissesOnlyRotations'
  BY <1>2, <1>4, <1>7 DEF Rollback, rowVars, histVars
<1>8. ASSUME NEW q \in Requests, Revoke(q)
      PROVE  LogoutAllInv' /\ LogoutAllMissesOnlyRotations'
  <2>1. \A s \in Sessions : state'[s] = "active" => state[s] = "active"
    BY <1>8 DEF Revoke, TypeOK
  <2> QED
    BY <1>2, <1>4, <1>8, <2>1 DEF Revoke
<1>9. ASSUME NEW q \in Requests, NEW u \in Users, RevokeAllStart(q, u)
      PROVE  LogoutAllInv' /\ LogoutAllMissesOnlyRotations'
  <2> DEFINE rows == {s \in Sessions : owner[s] = u /\ state[s] = "active"}
             ls == {login[s] : s \in {t \in Sessions : owner[t] = u}}
             r == [Idle EXCEPT !.pc = "revokeAll", !.todo = rows, !.logins = ls]
  <2>1. /\ req' = [req EXCEPT ![q] = r]
        /\ UNCHANGED <<created, state, login, escaped, terminated>>
    BY <1>9 DEF RevokeAllStart, rowVars, histVars
  <2>2. \A t \in Sessions : owner[t] = u => t \in 1..created
    BY <1>0 DEF OwnersInv, Sessions
  <2>3. ls \subseteq 1..created
    BY <2>2 DEF LineageInv
  <2>4. ASSUME NEW s \in Sessions, login[s] \in ls, state[s] = "active" PROVE s \in rows
    <3>1. PICK t \in Sessions : owner[t] = u /\ login[s] = login[t]
      BY <2>4
    <3>2. s \in 1..created /\ t \in 1..created
      BY <1>0, <2>2, <2>4, <3>1 DEF TypeOK, Sessions
    <3> QED
      BY <2>4, <3>1, <3>2 DEF OwnersInv
  <2> HIDE DEF rows, ls
  <2>5. r.todo = rows /\ r.logins = ls
    BY DEF Idle
  <2> HIDE DEF r
  <2>6. req'[q] = r /\ \A p \in Requests : p # q => req'[p] = req[p]
    BY <2>1 DEF TypeOK
  <2>7. LogoutAllInv'
    <3>1. SUFFICES ASSUME NEW p \in Requests, req'[p].pc = "revokeAll"
                   PROVE  /\ req'[p].logins \subseteq 1..created
                          /\ \A s \in Sessions : login[s] \in req'[p].logins /\ state[s] = "active" =>
                               s \in req'[p].todo \union req'[p].got \union escaped
      BY <2>1 DEF LogoutAllInv
    <3>2. CASE p = q
      BY <2>3, <2>4, <2>5, <2>6, <3>2
    <3>3. CASE p # q
      BY <2>6, <3>1, <3>3 DEF LogoutAllInv
    <3> QED
      BY <3>2, <3>3
  <2> QED
    BY <2>1, <2>7 DEF LogoutAllMissesOnlyRotations
<1>10. ASSUME NEW q \in Requests, RevokeAllRow(q)
       PROVE  LogoutAllInv' /\ LogoutAllMissesOnlyRotations'
  <2>0. PICK m \in req[q].todo \ LockedRows(q) :
          req' = [req EXCEPT ![q].todo = @ \ {m},
                             ![q].got = IF state[m] = "active" THEN @ \union {m} ELSE @]
    BY <1>10 DEF RevokeAllRow
  <2> DEFINE g == IF state[m] = "active" THEN req[q].got \union {m} ELSE req[q].got
             r == [req[q] EXCEPT !.todo = @ \ {m}, !.got = g]
  <2>1. /\ req' = [req EXCEPT ![q] = r] /\ req[q].pc = "revokeAll"
        /\ UNCHANGED <<created, state, login, escaped, terminated>>
    BY <1>10, <2>0 DEF RevokeAllRow, rowVars, histVars
  <2>2. \A s : /\ s \in g => s \in req[q].got \union {m}
               /\ s \in req[q].got => s \in g
               /\ s = m /\ state[s] = "active" => s \in g
    OBVIOUS
  <2> HIDE DEF g
  <2>3. r.todo = req[q].todo \ {m} /\ r.got = g /\ r.logins = req[q].logins
    BY DEF TypeOK, RequestType
  <2> HIDE DEF r
  <2>4. req'[q] = r /\ \A p \in Requests : p # q => req'[p] = req[p]
    BY <2>1 DEF TypeOK
  <2>5. LogoutAllInv'
    <3>1. SUFFICES ASSUME NEW p \in Requests, req'[p].pc = "revokeAll"
                   PROVE  /\ req'[p].logins \subseteq 1..created
                          /\ \A s \in Sessions : login[s] \in req'[p].logins /\ state[s] = "active" =>
                               s \in req'[p].todo \union req'[p].got \union escaped
      BY <2>1 DEF LogoutAllInv
    <3>2. CASE p = q
      <4>1. /\ req[q].logins \subseteq 1..created
            /\ \A s \in Sessions : login[s] \in req[q].logins /\ state[s] = "active" =>
                 s \in req[q].todo \union req[q].got \union escaped
        BY <2>1 DEF LogoutAllInv
      <4> QED
        BY <2>2, <2>3, <2>4, <3>2, <4>1
    <3>3. CASE p # q
      BY <2>4, <3>1, <3>3 DEF LogoutAllInv
    <3> QED
      BY <3>2, <3>3
  <2> QED
    BY <2>1, <2>5 DEF LogoutAllMissesOnlyRotations
<1>11. ASSUME NEW q \in Requests, RevokeAllCommit(q)
       PROVE  LogoutAllInv' /\ LogoutAllMissesOnlyRotations'
  <2>1. /\ req[q].pc = "revokeAll" /\ req[q].todo = {}
        /\ UNCHANGED <<created, login, escaped>>
        /\ terminated' = terminated \union req[q].logins
        /\ state' = [s \in Sessions |-> IF s \in req[q].got THEN "revoked" ELSE state[s]]
    BY <1>11 DEF RevokeAllCommit
  <2>2. \A s \in Sessions : state'[s] = "active" => state[s] = "active" /\ s \notin req[q].got
    BY <2>1
  <2>3. LogoutAllInv'
    BY <1>4, <1>11, <2>1, <2>2, LogoutAllUntouched DEF RevokeAllCommit
  <2>4. LogoutAllMissesOnlyRotations'
    <3>1. SUFFICES ASSUME NEW s \in Sessions, state'[s] = "active",
                          login[s] \in terminated \/ login[s] \in req[q].logins
                   PROVE  s \in escaped
      BY <2>1 DEF LogoutAllMissesOnlyRotations
    <3>2. state[s] = "active" /\ s \notin req[q].got
      BY <2>2, <3>1
    <3>3. CASE login[s] \in terminated
      BY <3>2, <3>3 DEF LogoutAllMissesOnlyRotations
    <3>4. CASE login[s] \in req[q].logins
      BY <2>1, <3>2, <3>4 DEF LogoutAllInv
    <3> QED
      BY <3>1, <3>3, <3>4
  <2> QED
    BY <2>3, <2>4
<1>12. ASSUME UNCHANGED <<created, state, login, req, escaped, terminated>>
       PROVE  LogoutAllInv' /\ LogoutAllMissesOnlyRotations'
  BY <1>12 DEF LogoutAllInv, LogoutAllMissesOnlyRotations
<1>13. ASSUME NEW q \in Requests, RotateCommit(q)
       PROVE  LogoutAllInv' /\ LogoutAllMissesOnlyRotations'
  BY <1>13, RotationEscapes
<1> QED
  BY <1>1, <1>5, <1>6, <1>7, <1>8, <1>9, <1>10, <1>11, <1>12, <1>13
  DEF Next, SessionStep, Expire, vars, rowVars, histVars

(* A LogoutAll that has returned left no session of the logins it had to   *)
(* terminate, but those that a Refresh put in the place of a row it had    *)
(* not yet come to, for any number of requests and users.                  *)
THEOREM LogoutAllMissesOnlyRotationsAlways == Spec => []LogoutAllMissesOnlyRotations
<1>1. Init => OwnersInv /\ LogoutAllInv /\ LogoutAllMissesOnlyRotations
  BY SessionsAssumption, IdleType
  DEF Init, OwnersInv, LogoutAllInv, LogoutAllMissesOnlyRotations, Sessions
<1>2. /\ TypeOK /\ LineageInv /\ OwnersInv /\ LogoutAllInv /\ LogoutAllMissesOnlyRotations
      /\ [Next]_vars
      => (OwnersInv /\ LogoutAllInv /\ LogoutAllMissesOnlyRotations)'
  BY OwnersOfLogins, LogoutAllStep
<1> QED
  BY <1>1, <1>2, LineageAlways, PTL DEF Spec

-----------------------------------------------------------------------------
(***************************************************************************)
(* Accounts                                                                *)
(***************************************************************************)

(* The form of a request without one.                                      *)
LEMMA NoFormType == NoForm \in FormType /\ NoForm.pc = "idle"
BY DEF NoForm, FormType

(* A row with an email is not the missing row.                             *)
LEMMA RowIsAccount ==
  ASSUME NEW e \in Emails, NEW n \in Nicks
  PROVE  /\ [email |-> e, nick |-> n] # NoAccount
         /\ [email |-> e, nick |-> n] \in [email : Emails, nick : Nicks]
<1>1. e # None
  BY AccountsAssumption
<1>2. [email |-> e, nick |-> n].email # NoAccount.email
  BY <1>1 DEF NoAccount
<1> QED
  BY <1>2

(* What the accounts hold.                                                 *)
LEMMA RegisteredRow ==
  ASSUME RowsInv, NEW u \in Users
  PROVE  u \in Registered <=> account[u] \in [email : Emails, nick : Nicks]
<1>1. ASSUME account[u] \in [email : Emails, nick : Nicks] PROVE account[u] # NoAccount
  BY <1>1, AccountsAssumption DEF NoAccount
<1> QED
  BY <1>1 DEF RowsInv, Registered

(* A request that only changes its own form.                               *)
LEMMA SubmitRows ==
  ASSUME RowsInv, account' = account, NEW q \in Requests, NEW f \in FormType, Submit(q, f),
         f.pc \in {"nickname", "create"} => f.email # None,
         f.pc \in {"nickname", "create", "update"} => f.nick # None,
         f.pc \in {"issue", "update"} => f.user \in Registered
  PROVE  /\ RowsInv' /\ Registered' = Registered
         /\ form'[q] = f /\ \A p \in Requests \ {q} : form'[p] = form[p]
<1>1. form' \in [Requests -> FormType] /\ form'[q] = f
      /\ \A p \in Requests \ {q} : form'[p] = form[p]
  BY DEF RowsInv, Submit
<1>2. Registered' = Registered
  BY DEF Registered
<1> QED
  BY <1>1, <1>2 DEF RowsInv

(* A request that writes a row of u and goes on with form f.               *)
LEMMA WriteRows ==
  ASSUME RowsInv, NEW q \in Requests, NEW u \in Users, NEW r \in [email : Emails, nick : Nicks],
         NEW f \in FormType, Write(q, u, r, f), f.pc \in {"idle", "issue"},
         f.pc = "issue" => f.user = u
  PROVE  /\ RowsInv' /\ Registered' = Registered \union {u}
         /\ account' = [account EXCEPT ![u] = r] /\ form'[q] = f
         /\ \A p \in Requests \ {q} :
              /\ form'[p].pc = form[p].pc /\ form'[p].nick = form[p].nick
              /\ form'[p].user = form[p].user /\ form[p].since \subseteq form'[p].since
              /\ form[p].pc \in {"create", "update"} /\ Lower(form[p].nick) = Lower(r.nick)
                   => u \in form'[p].since
<1>1. account' = [account EXCEPT ![u] = r]
  BY DEF Write
<1>2. account' \in [Users -> {NoAccount} \union [email : Emails, nick : Nicks]]
  BY <1>1 DEF RowsInv
<1>3. r # NoAccount
  BY AccountsAssumption DEF NoAccount
<1>4. Registered' = Registered \union {u}
  BY <1>1, <1>3 DEF Registered, RowsInv
<1>5. form'[q] = f
  BY DEF Write
<1>6. ASSUME NEW p \in Requests \ {q}
      PROVE  /\ form'[p] \in FormType
             /\ form'[p].pc = form[p].pc /\ form'[p].nick = form[p].nick
             /\ form'[p].user = form[p].user /\ form[p].since \subseteq form'[p].since
             /\ form'[p].email = form[p].email
             /\ form[p].pc \in {"create", "update"} /\ Lower(form[p].nick) = Lower(r.nick)
                  => u \in form'[p].since
  <2>1. form[p] \in FormType
    BY DEF RowsInv
  <2>2. CASE form[p].pc \in {"create", "update"} /\ Lower(form[p].nick) = Lower(r.nick)
    <3>1. form'[p] = [form[p] EXCEPT !.since = @ \union {u}]
      BY <2>2 DEF Write
    <3> QED
      BY <2>1, <3>1 DEF FormType
  <2>3. CASE ~(form[p].pc \in {"create", "update"} /\ Lower(form[p].nick) = Lower(r.nick))
    <3>1. form'[p] = form[p]
      BY <2>3 DEF Write
    <3> QED
      BY <2>1, <2>3, <3>1
  <2> QED
    BY <2>2, <2>3
<1>7. form' \in [Requests -> FormType]
  <2>1. form' = [p \in Requests |-> form'[p]]
    BY DEF Write
  <2>2. \A p \in Requests : form'[p] \in FormType
    BY <1>5, <1>6
  <2> QED
    BY <2>1, <2>2
<1>8. RowsInv'
  <2>1. ASSUME NEW p \in Requests
        PROVE /\ form'[p].pc \in {"nickname", "create"} => form'[p].email # None
              /\ form'[p].pc \in {"nickname", "create", "update"} => form'[p].nick # None
              /\ form'[p].pc \in {"issue", "update"} => form'[p].user \in Registered'
    <3>1. CASE p = q
      BY <1>4, <1>5, <3>1
    <3>2. CASE p # q
      BY <1>4, <1>6, <3>2 DEF RowsInv
    <3> QED
      BY <3>1, <3>2
  <2> QED
    BY <1>2, <1>7, <2>1 DEF RowsInv
<1> QED
  BY <1>1, <1>4, <1>5, <1>6, <1>8

-----------------------------------------------------------------------------
(***************************************************************************)
(* The steps of a request, by what they do to the tables: they submit a    *)
(* form, write a row, or issue tokens.                                     *)
(***************************************************************************)

(* Register and LoginWith, the failed lookups and Abandon: the form that   *)
(* is submitted asks for no nickname whose lookup is over.                 *)
LEMMA PlainForms ==
  ASSUME RowsInv, NEW q \in Requests,
         \/ \E e \in Emails : LoginWith(q, e) \/ \E n \in Nicks : Register(q, e, n)
         \/ Abandon(q)
  PROVE  /\ UNCHANGED <<vars, account, raced>>
         /\ RowsInv' /\ Registered' = Registered
         /\ form'[q].pc \in {"idle", "nickname", "issue"}
         /\ \A p \in Requests \ {q} : form'[p] = form[p]
<1>1. ASSUME NEW e \in Emails, NEW n \in Nicks, Register(q, e, n)
      PROVE  /\ UNCHANGED <<vars, account, raced>>
             /\ RowsInv' /\ Registered' = Registered
             /\ form'[q].pc \in {"idle", "nickname", "issue"}
             /\ \A p \in Requests \ {q} : form'[p] = form[p]
  <2> DEFINE f == [NoForm EXCEPT !.pc = "nickname", !.email = e, !.nick = n]
  <2>1. f \in FormType /\ f.pc = "nickname" /\ f.email # None /\ f.nick # None
    BY AccountsAssumption DEF NoForm, FormType
  <2>2. Submit(q, f) /\ UNCHANGED <<vars, account, raced>>
    BY <1>1 DEF Register
  <2> HIDE DEF f
  <2> QED
    BY <2>1, <2>2, SubmitRows
<1>2. ASSUME NEW e \in Emails, LoginWith(q, e)
      PROVE  /\ UNCHANGED <<vars, account, raced>>
             /\ RowsInv' /\ Registered' = Registered
             /\ form'[q].pc \in {"idle", "nickname", "issue"}
             /\ \A p \in Requests \ {q} : form'[p] = form[p]
  <2>1. PICK u \in Registered : Submit(q, [NoForm EXCEPT !.pc = "issue", !.user = u])
    BY <1>2 DEF LoginWith, GetByEmail
  <2> DEFINE f == [NoForm EXCEPT !.pc = "issue", !.user = u]
  <2>2. f \in FormType /\ f.pc = "issue" /\ f.user = u
    BY DEF NoForm, FormType, Registered
  <2>3. Submit(q, f) /\ UNCHANGED <<vars, account, raced>>
    BY <1>2, <2>1 DEF LoginWith
  <2> HIDE DEF f
  <2> QED
    BY <2>2, <2>3, SubmitRows
<1>3. ASSUME Abandon(q)
      PROVE  /\ UNCHANGED <<vars, account, raced>>
             /\ RowsInv' /\ Registered' = Registered
             /\ form'[q].pc \in {"idle", "nickname", "issue"}
             /\ \A p \in Requests \ {q} : form'[p] = form[p]
  BY <1>3, NoFormType, SubmitRows DEF Abandon, Done
<1> QED
  BY <1>1, <1>2, <1>3

(* RegisterNickname: a form that goes on has found nobody.                 *)
LEMMA NicknameForms ==
  ASSUME RowsInv, NEW q \in Requests, RegisterNickname(q)
  PROVE  /\ UNCHANGED <<vars, account, raced>>
         /\ RowsInv' /\ Registered' = Registered
         /\ form'[q].pc \in {"idle", "create"}
         /\ form'[q].pc = "create" => GetByNickname(form'[q].nick) = {}
         /\ \A p \in Requests \ {q} : form'[p] = form[p]
<1>1. CASE GetByNickname(form[q].nick) = {}
  <2> DEFINE f == [form[q] EXCEPT !.pc = "create"]
  <2>1. form[q] \in FormType /\ form[q].pc = "nickname"
    BY DEF RowsInv, RegisterNickname
  <2>2. f \in FormType /\ f.pc = "create" /\ f.email = form[q].email /\ f.nick = form[q].nick
    BY <2>1 DEF FormType
  <2>3. f.email # None /\ f.nick # None
    BY <2>1, <2>2 DEF RowsInv
  <2>4. Submit(q, f) /\ UNCHANGED <<vars, account, raced>>
    BY <1>1 DEF RegisterNickname
  <2> HIDE DEF f
  <2> QED
    BY <1>1, <2>2, <2>3, <2>4, SubmitRows
<1>2. CASE GetByNickname(form[q].nick) # {}
  <2>1. Submit(q, NoForm) /\ UNCHANGED <<vars, account, raced>>
    BY <1>2 DEF RegisterNickname, Done
  <2> QED
    BY <2>1, NoFormType, SubmitRows
<1> QED
  BY <1>1, <1>2

(* UpdateMe: a form that goes on has found nobody, or its own user.        *)
LEMMA UpdateForms ==
  ASSUME RowsInv, NEW q \in Requests, NEW u \in Users, NEW n \in Nicks, UpdateMe(q, u, n)
  PROVE  /\ UNCHANGED <<vars, account, raced>>
         /\ RowsInv' /\ Registered' = Registered
         /\ form'[q].pc = "update" /\ form'[q].nick = n /\ form'[q].user = u
         /\ GetByNickname(n) = {} \/ u \in GetByNickname(n)
         /\ \A p \in Requests \ {q} : form'[p] = form[p]
<1> DEFINE f == [NoForm EXCEPT !.pc = "update", !.nick = n, !.user = u]
<1>1. f \in FormType /\ f.pc = "update" /\ f.nick = n /\ f.user = u /\ n # None
  BY AccountsAssumption DEF NoForm, FormType
<1>2. Submit(q, f) /\ UNCHANGED <<vars, account, raced>>
  BY DEF UpdateMe
<1>3. u \in Registered /\ (GetByNickname(n) = {} \/ u \in GetByNickname(n))
  BY DEF UpdateMe
<1> HIDE DEF f
<1> QED
  BY <1>1, <1>2, <1>3, SubmitRows

(* CreateUser, when the index lets it through: it writes the row of a user *)
(* who had none, with an email nobody has.                                 *)
LEMMA CreateWrites ==
  ASSUME RowsInv, NEW q \in Requests, CreateUser(q), GetByEmail(form[q].email) = {}
  PROVE  \E u \in Users \ Registered, f \in FormType :
           /\ [email |-> form[q].email, nick |-> form[q].nick] \in [email : Emails, nick : Nicks]
           /\ Write(q, u, [email |-> form[q].email, nick |-> form[q].nick], f)
           /\ f.pc = "issue" /\ f.user = u
<1>1. form[q].pc = "create" /\ form[q] \in FormType
  BY DEF CreateUser, RowsInv
<1>2. form[q].email \in Emails /\ form[q].nick \in Nicks
  BY <1>1 DEF RowsInv, FormType
<1>3. PICK u \in Users \ Registered :
        Write(q, u, [email |-> form[q].email, nick |-> form[q].nick],
              [NoForm EXCEPT !.pc = "issue", !.user = u])
  BY DEF CreateUser
<1> DEFINE f == [NoForm EXCEPT !.pc = "issue", !.user = u]
<1>4. f \in FormType /\ f.pc = "issue" /\ f.user = u
  BY DEF NoForm, FormType
<1>5. Write(q, u, [email |-> form[q].email, nick |-> form[q].nick], f)
  BY <1>3
<1> HIDE DEF f
<1> QED
  BY <1>2, <1>4, <1>5, RowIsAccount

(* UpdateProfile writes the row of a user who has one, and keeps the email. *)
LEMMA UpdateWrites ==
  ASSUME RowsInv, NEW q \in Requests, UpdateProfile(q)
  PROVE  /\ form[q].user \in Registered
         /\ [email |-> account[form[q].user].email, nick |-> form[q].nick]
              \in [email : Emails, nick : Nicks]
         /\ Write(q, form[q].user,
                  [email |-> account[form[q].user].email, nick |-> form[q].nick], NoForm)
<1>1. form[q].pc = "update" /\ form[q] \in FormType
  BY DEF UpdateProfile, RowsInv
<1>2. form[q].user \in Registered /\ form[q].nick \in Nicks
  BY <1>1 DEF RowsInv, FormType
<1>3. account[form[q].user] \in [email : Emails, nick : Nicks]
  BY <1>2, RegisteredRow DEF Registered
<1>4. [account[form[q].user] EXCEPT !.nick = form[q].nick]
        = [email |-> account[form[q].user].email, nick |-> form[q].nick]
  BY <1>3
<1>5. Write(q, form[q].user, [account[form[q].user] EXCEPT !.nick = form[q].nick], NoForm)
  BY DEF UpdateProfile
<1>6. account[form[q].user].email \in Emails
  BY <1>3
<1> QED
  BY <1>2, <1>4, <1>5, <1>6, RowIsAccount

(* IssueTokensFor creates a session of an account.                         *)
LEMMA IssueForms ==
  ASSUME RowsInv, NEW q \in Requests, IssueTokensFor(q)
  PROVE  /\ UNCHANGED <<account, raced>>
         /\ RowsInv' /\ Registered' = Registered
         /\ form'[q].pc = "idle" /\ \A p \in Requests \ {q} : form'[p] = form[p]
         /\ form[q].user \in Registered /\ IssueTokens(form[q].user)
<1>1. form[q].user \in Registered /\ IssueTokens(form[q].user)
  BY DEF IssueTokensFor, RowsInv
<1>2. Submit(q, NoForm) /\ UNCHANGED <<account, raced>>
  BY DEF IssueTokensFor, Done
<1> QED
  BY <1>1, <1>2, NoFormType, SubmitRows

-----------------------------------------------------------------------------
(* Rows and forms keep their shape, and accounts stay.                     *)
LEMMA RowsStep ==
  ASSUME RowsInv, [AuthNext]_authVars
  PROVE  RowsInv' /\ Registered \subseteq Registered'
<1>1. ASSUME NEW q \in Requests, AccountStep(q) PROVE RowsInv' /\ Registered \subseteq Registered'
  <2>1. CASE CreateUser(q)
    <3>1. CASE GetByEmail(form[q].email) = {}
      <4> DEFINE r == [email |-> form[q].email, nick |-> form[q].nick]
      <4>1. PICK u \in Users \ Registered, f \in FormType :
              /\ r \in [email : Emails, nick : Nicks]
              /\ Write(q, u, r, f) /\ f.pc = "issue" /\ f.user = u
        BY <2>1, <3>1, CreateWrites
      <4> HIDE DEF r
      <4> QED
        BY <4>1, WriteRows
    <3>2. CASE GetByEmail(form[q].email) # {}
      BY <2>1, <3>2, NoFormType, SubmitRows DEF CreateUser, Done
    <3> QED
      BY <3>1, <3>2
  <2>2. CASE UpdateProfile(q)
    <3> DEFINE w == form[q].user
               r == [email |-> account[w].email, nick |-> form[q].nick]
    <3>1. w \in Users /\ r \in [email : Emails, nick : Nicks] /\ Write(q, w, r, NoForm)
      BY <2>2, UpdateWrites DEF Registered
    <3> HIDE DEF r, w
    <3> QED
      BY <3>1, WriteRows, NoFormType
  <2>3. CASE \/ \E e \in Emails : LoginWith(q, e) \/ \E n \in Nicks : Register(q, e, n)
             \/ Abandon(q)
    BY <2>3, PlainForms
  <2> QED
    BY <1>1, <2>1, <2>2, <2>3, NicknameForms, UpdateForms, IssueForms DEF AccountStep
<1>2. CASE UNCHANGED accountVars
  BY <1>2 DEF accountVars, RowsInv, Registered
<1> QED
  BY <1>1, <1>2 DEF AuthNext, authVars

(* To the sessions, an account step is a login or nothing.                 *)
LEMMA SessionsStep ==
  ASSUME RowsInv, [AuthNext]_authVars
  PROVE  [Next]_vars
<1>1. ASSUME NEW q \in Requests, AccountStep(q) PROVE [Next]_vars
  <2>1. CASE IssueTokensFor(q)
    <3>1. form[q].user \in Users /\ IssueTokens(form[q].user)
      BY <2>1, IssueForms DEF Registered
    <3> QED
      BY <3>1 DEF Next, Login
  <2>2. CASE ~IssueTokensFor(q)
    BY <1>1, <2>2 DEF AccountStep, LoginWith, Register, UpdateMe, RegisterNickname, CreateUser,
                      UpdateProfile, Abandon
  <2> QED
    BY <2>1, <2>2
<1> QED
  BY <1>1 DEF AuthNext, authVars, Next

(* The shape of rows and forms, always.                                    *)
LEMMA RowsAlways == AuthSpec => []RowsInv
<1>1. AuthInit => RowsInv
  BY NoFormType DEF AuthInit, RowsInv
<1> QED
  BY <1>1, RowsStep, PTL DEF AuthSpec

(* Accounts and sessions together implement the sessions alone, with one   *)
(* login for each issueTokens: what is proved of RefreshSessions holds     *)
(* also when sessions are opened by Register and Login of racing requests. *)
THEOREM AccountsImplementSessions == AuthSpec => Spec
<1>1. AuthInit => Init
  BY DEF AuthInit
<1> QED
  BY <1>1, SessionsStep, RowsAlways, PTL DEF AuthSpec, Spec

(* The properties of the sessions in the system with accounts.             *)
THEOREM AccountSessions ==
  AuthSpec => [](TypeOK /\ OneActivePerLogin /\ LogoutEndsLogin /\ LogoutAllMissesOnlyRotations)
BY AccountsImplementSessions, LineageAlways, LogoutAllMissesOnlyRotationsAlways, PTL

-----------------------------------------------------------------------------
(* No session changes hands: it belongs to a user who had one before, or   *)
(* to the user it was issued to.                                           *)
LEMMA OwnersStep ==
  ASSUME TypeOK, SessionStep
  PROVE  \A s \in 1..created' : \E t \in 1..created : owner'[s] = owner[t]
<1>1. ASSUME NEW q \in Requests, RotateCommit(q)
      PROVE  \A s \in 1..created' : \E t \in 1..created : owner'[s] = owner[t]
  <2>1. /\ req[q].sess \in 1..created /\ created' = created + 1 /\ created \in Nat
        /\ created + 1 \in Sessions /\ owner' = [owner EXCEPT ![created + 1] = owner[req[q].sess]]
    BY <1>1, SessionsAssumption DEF RotateCommit, TypeOK, Sessions
  <2>2. owner'[created + 1] = owner[req[q].sess]
    BY <2>1 DEF TypeOK
  <2>3. \A s \in 1..created : owner'[s] = owner[s]
    BY <2>1, SessionsAssumption DEF TypeOK, Sessions
  <2> QED
    BY <2>1, <2>2, <2>3
<1>2. CASE UNCHANGED <<created, owner>>
  BY <1>2
<1> QED
  BY <1>1, <1>2
  DEF SessionStep, Expire, GetByTokenHash, RotateSelect, Rollback, Revoke,
      RevokeAllStart, RevokeAllRow, RevokeAllCommit, rowVars

(* Emails stay unique and sessions keep leading to accounts.               *)
LEMMA EmailStep ==
  ASSUME TypeOK, RowsInv, OneAccountPerEmail, [AuthNext]_authVars
  PROVE  OneAccountPerEmail'
<1>0. RowsInv' /\ Registered \subseteq Registered'
  BY RowsStep
<1>1. ASSUME Registered' = Registered, \A u \in Registered : account'[u].email = account[u].email
      PROVE  \A u, v \in Registered' : account'[u].email = account'[v].email => u = v
  BY <1>1 DEF OneAccountPerEmail
<1>2. \A u, v \in Registered' : account'[u].email = account'[v].email => u = v
  <2>1. ASSUME NEW q \in Requests, CreateUser(q), GetByEmail(form[q].email) = {}
        PROVE  \A u, v \in Registered' : account'[u].email = account'[v].email => u = v
    <3> DEFINE r == [email |-> form[q].email, nick |-> form[q].nick]
    <3>1. PICK u \in Users \ Registered, f \in FormType :
            /\ r \in [email : Emails, nick : Nicks]
            /\ Write(q, u, r, f) /\ f.pc = "issue" /\ f.user = u
      BY <2>1, CreateWrites
    <3>2. Registered' = Registered \union {u} /\ account' = [account EXCEPT ![u] = r]
      BY <3>1, WriteRows
    <3>3. account'[u].email = form[q].email
      BY <3>1, <3>2 DEF RowsInv
    <3>4. \A v \in Registered : account'[v] = account[v] /\ account[v].email # form[q].email
      BY <2>1, <3>1, <3>2 DEF RowsInv, GetByEmail, Registered
    <3> QED
      BY <3>2, <3>3, <3>4 DEF OneAccountPerEmail
  <2>2. ASSUME NEW q \in Requests, UpdateProfile(q)
        PROVE  \A u, v \in Registered' : account'[u].email = account'[v].email => u = v
    <3> DEFINE w == form[q].user
               r == [email |-> account[w].email, nick |-> form[q].nick]
    <3>1. w \in Registered /\ r \in [email : Emails, nick : Nicks] /\ Write(q, w, r, NoForm)
      BY <2>2, UpdateWrites
    <3>2. Registered' = Registered \union {w} /\ account' = [account EXCEPT ![w] = r]
      BY <3>1, WriteRows, NoFormType DEF Registered
    <3>3. \A u \in Registered : account'[u].email = account[u].email
      BY <3>1, <3>2 DEF RowsInv, Registered
    <3> QED
      BY <1>1, <3>1, <3>2, <3>3
  <2>3. CASE account' = account
    BY <1>1, <2>3 DEF Registered
  <2> QED
    BY <2>1, <2>2, <2>3
    DEF AuthNext, authVars, accountVars, AccountStep, LoginWith, Register, UpdateMe,
        RegisterNickname, CreateUser, IssueTokensFor, Abandon
<1>3. \A s \in 1..created' : owner'[s] \in Registered'
  <2>1. ASSUME NEW q \in Requests, IssueTokensFor(q)
        PROVE  \A s \in 1..created' : owner'[s] \in Registered'
    <3>1. form[q].user \in Registered /\ IssueTokens(form[q].user) /\ Registered' = Registered
      BY <2>1, IssueForms
    <3> QED
      BY <3>1, SessionsAssumption DEF IssueTokens, TypeOK, Sessions, OneAccountPerEmail
  <2>2. CASE SessionStep
    BY <1>0, <2>2, OwnersStep DEF OneAccountPerEmail
  <2>3. CASE UNCHANGED vars
    BY <1>0, <2>3 DEF vars, rowVars, OneAccountPerEmail
  <2> QED
    BY <2>1, <2>2, <2>3
    DEF AuthNext, authVars, AccountStep, LoginWith, Register, UpdateMe,
        RegisterNickname, CreateUser, UpdateProfile, Abandon
<1> QED
  BY <1>2, <1>3 DEF OneAccountPerEmail

(* Register leaves one account per email, and every session leads to an    *)
(* account, for any number of racing and interrupted requests.             *)
THEOREM OneAccountPerEmailAlways == AuthSpec => []OneAccountPerEmail
<1>1. AuthInit => OneAccountPerEmail
  BY DEF AuthInit, Init, OneAccountPerEmail, Registered
<1> QED
  BY <1>1, EmailStep, RowsAlways, AccountSessions, PTL DEF AuthSpec

-----------------------------------------------------------------------------
(* Two lookups and a race are the only way to a shared nickname.           *)
LEMMA NicknameStep ==
  ASSUME RowsInv, LookupInv, NicknameSharedOnlyByRace, [AuthNext]_authVars
  PROVE  LookupInv' /\ NicknameSharedOnlyByRace'
<1>1. ASSUME UNCHANGED <<account, raced>>, Registered' = Registered, NEW q \in Requests,
             \A p \in Requests \ {q} : form'[p] = form[p],
             \A v \in Registered :
               form'[q].pc \in {"create", "update"}
                 /\ Lower(account[v].nick) = Lower(form'[q].nick) =>
                   \/ v \in form'[q].since
                   \/ form'[q].pc = "update" /\ (v = form'[q].user \/ {form'[q].user, v} \in raced)
      PROVE  LookupInv' /\ NicknameSharedOnlyByRace'
  <2>1. LookupInv'
    <3>1. ASSUME NEW p \in Requests, NEW v \in Registered,
                 form'[p].pc \in {"create", "update"},
                 Lower(account'[v].nick) = Lower(form'[p].nick)
          PROVE  \/ v \in form'[p].since
                 \/ form'[p].pc = "update" /\ (v = form'[p].user \/ {form'[p].user, v} \in raced')
      <4>1. CASE p = q
        BY <1>1, <3>1, <4>1
      <4>2. CASE p # q
        BY <1>1, <3>1, <4>2 DEF LookupInv
      <4> QED
        BY <4>1, <4>2
    <3> QED
      BY <1>1, <3>1 DEF LookupInv
  <2>2. NicknameSharedOnlyByRace'
    BY <1>1 DEF NicknameSharedOnlyByRace
  <2> QED
    BY <2>1, <2>2
<1>2. ASSUME NEW q \in Requests, NEW u \in Users, NEW r \in [email : Emails, nick : Nicks],
             NEW f \in FormType, Write(q, u, r, f), f.pc \in {"idle", "issue"},
             f.pc = "issue" => f.user = u,
             \A v \in Registered \ {u} : Lower(account[v].nick) = Lower(r.nick) =>
               v \in form[q].since \/ {u, v} \in raced
      PROVE  LookupInv' /\ NicknameSharedOnlyByRace'
  <2>1. /\ Registered' = Registered \union {u}
        /\ account' = [account EXCEPT ![u] = r] /\ form'[q] = f
        /\ \A p \in Requests \ {q} :
             /\ form'[p].pc = form[p].pc /\ form'[p].nick = form[p].nick
             /\ form'[p].user = form[p].user /\ form[p].since \subseteq form'[p].since
             /\ form[p].pc \in {"create", "update"} /\ Lower(form[p].nick) = Lower(r.nick)
                  => u \in form'[p].since
    BY <1>2, WriteRows
  <2>2. /\ account'[u] = r /\ \A v \in Users \ {u} : account'[v] = account[v]
        /\ Registered \subseteq Users
    BY <2>1 DEF RowsInv, Registered
  <2>3. raced' = raced \union {{u, v} : v \in form[q].since \ {u}}
    BY <1>2 DEF Write
  <2>4. LookupInv'
    <3>1. ASSUME NEW p \in Requests, NEW v \in Registered',
                 form'[p].pc \in {"create", "update"},
                 Lower(account'[v].nick) = Lower(form'[p].nick)
          PROVE  \/ v \in form'[p].since
                 \/ form'[p].pc = "update" /\ (v = form'[p].user \/ {form'[p].user, v} \in raced')
      <4>1. p # q
        BY <1>2, <2>1, <3>1
      <4>2. CASE v = u
        BY <2>1, <2>2, <3>1, <4>1, <4>2
      <4>3. CASE v # u
        <5>1. v \in Registered /\ Lower(account[v].nick) = Lower(form[p].nick)
          BY <2>1, <2>2, <3>1, <4>1, <4>3
        <5>2. \/ v \in form[p].since
              \/ form[p].pc = "update" /\ (v = form[p].user \/ {form[p].user, v} \in raced)
          BY <2>1, <3>1, <4>1, <5>1 DEF LookupInv
        <5> QED
          BY <2>1, <2>3, <4>1, <5>2
      <4> QED
        BY <4>2, <4>3
    <3> QED
      BY <3>1 DEF LookupInv
  <2>5. NicknameSharedOnlyByRace'
    <3>1. ASSUME NEW v \in Registered \ {u}, Lower(account[v].nick) = Lower(r.nick)
          PROVE  {u, v} \in raced'
      BY <1>2, <2>3, <3>1
    <3>2. ASSUME NEW v \in Registered', NEW w \in Registered', v # w,
                 Lower(account'[v].nick) = Lower(account'[w].nick)
          PROVE  {v, w} \in raced'
      <4>1. CASE v = u
        BY <2>1, <2>2, <3>1, <3>2, <4>1
      <4>2. CASE w = u
        <5>1. {u, v} \in raced'
          BY <2>1, <2>2, <3>1, <3>2, <4>2
        <5>2. {u, v} = {v, w}
          BY <4>2
        <5> QED
          BY <5>1, <5>2
      <4>3. CASE v # u /\ w # u
        BY <2>1, <2>2, <2>3, <3>2, <4>3 DEF NicknameSharedOnlyByRace
      <4> QED
        BY <4>1, <4>2, <4>3
    <3> QED
      BY <3>2 DEF NicknameSharedOnlyByRace
  <2> QED
    BY <2>4, <2>5
<1>3. ASSUME NEW q \in Requests, AccountStep(q) PROVE LookupInv' /\ NicknameSharedOnlyByRace'
  <2>1. CASE CreateUser(q)
    <3>1. CASE GetByEmail(form[q].email) = {}
      <4> DEFINE r == [email |-> form[q].email, nick |-> form[q].nick]
      <4>1. PICK u \in Users \ Registered, f \in FormType :
              /\ r \in [email : Emails, nick : Nicks]
              /\ Write(q, u, r, f) /\ f.pc = "issue" /\ f.user = u
        BY <2>1, <3>1, CreateWrites
      <4>2. form[q].pc = "create" /\ r.nick = form[q].nick
        BY <2>1 DEF CreateUser
      <4>3. \A v \in Registered \ {u} : Lower(account[v].nick) = Lower(r.nick) =>
              v \in form[q].since \/ {u, v} \in raced
        BY <4>2 DEF LookupInv
      <4> HIDE DEF r
      <4> QED
        BY <1>2, <4>1, <4>3
    <3>2. CASE GetByEmail(form[q].email) # {}
      <4>1. Submit(q, NoForm) /\ UNCHANGED <<account, raced>>
        BY <2>1, <3>2 DEF CreateUser, Done
      <4> QED
        BY <1>1, <4>1, NoFormType, SubmitRows
    <3> QED
      BY <3>1, <3>2
  <2>2. CASE UpdateProfile(q)
    <3> DEFINE w == form[q].user
               r == [email |-> account[w].email, nick |-> form[q].nick]
    <3>1. w \in Registered /\ r \in [email : Emails, nick : Nicks] /\ Write(q, w, r, NoForm)
      BY <2>2, UpdateWrites
    <3>2. form[q].pc = "update" /\ r.nick = form[q].nick
      BY <2>2 DEF UpdateProfile
    <3>3. \A v \in Registered \ {w} : Lower(account[v].nick) = Lower(r.nick) =>
            v \in form[q].since \/ {w, v} \in raced
      BY <3>2 DEF LookupInv
    <3>4. w \in Users
      BY <3>1 DEF Registered
    <3> HIDE DEF r, w
    <3> QED
      BY <1>2, <3>1, <3>3, <3>4, NoFormType
  <2>3. CASE \/ \E e \in Emails : LoginWith(q, e) \/ \E n \in Nicks : Register(q, e, n)
             \/ Abandon(q)
    BY <1>1, <2>3, PlainForms
  <2>4. CASE RegisterNickname(q)
    BY <1>1, <2>4, NicknameForms DEF GetByNickname
  <2>5. ASSUME NEW u \in Users, NEW n \in Nicks, UpdateMe(q, u, n)
        PROVE  LookupInv' /\ NicknameSharedOnlyByRace'
    <3>1. /\ UNCHANGED <<account, raced>> /\ Registered' = Registered
          /\ form'[q].pc = "update" /\ form'[q].nick = n /\ form'[q].user = u
          /\ GetByNickname(n) = {} \/ u \in GetByNickname(n)
          /\ \A p \in Requests \ {q} : form'[p] = form[p]
      BY <2>5, UpdateForms
    <3>2. ASSUME NEW v \in Registered, Lower(account[v].nick) = Lower(n)
          PROVE  v = u \/ {u, v} \in raced
      <4>1. u \in Registered /\ Lower(account[u].nick) = Lower(n)
        BY <3>1, <3>2 DEF GetByNickname
      <4> QED
        BY <3>2, <4>1 DEF NicknameSharedOnlyByRace
    <3> QED
      BY <1>1, <3>1, <3>2
  <2>6. CASE IssueTokensFor(q)
    BY <1>1, <2>6, IssueForms
  <2> QED
    BY <1>3, <2>1, <2>2, <2>3, <2>4, <2>5, <2>6 DEF AccountStep
<1>4. CASE UNCHANGED accountVars
  BY <1>4 DEF accountVars, LookupInv, NicknameSharedOnlyByRace, Registered
<1> QED
  BY <1>3, <1>4 DEF AuthNext, authVars

(* Without a race for it, no two accounts get one nickname, in whatever    *)
(* spelling: the lookups of Register and UpdateMe miss only what is        *)
(* written between them and the write.                                     *)
THEOREM NicknameSharedOnlyByRaceAlways == AuthSpec => []NicknameSharedOnlyByRace
<1>1. AuthInit => LookupInv /\ NicknameSharedOnlyByRace
  BY DEF AuthInit, LookupInv, NicknameSharedOnlyByRace, Registered
<1>2. AuthSpec => [](RowsInv /\ LookupInv /\ NicknameSharedOnlyByRace)
  BY <1>1, NicknameStep, RowsAlways, PTL DEF AuthSpec
<1> QED
  BY <1>2, PTL
=============================================================================
