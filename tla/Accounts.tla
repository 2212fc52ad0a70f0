------------------------------ MODULE Accounts ------------------------------
(***************************************************************************)
(* Accounts: Register and Login of service/auth_service.go, UpdateMe of    *)
(* service/user_service.go, over repository/postgres/user_repository.go,   *)
(* in one system with the refresh sessions they open.                      *)
(*                                                                         *)
(* Every statement is a transaction of its own.  users has a unique index  *)
(* on lower(email) and none on the nickname, which the handlers look up    *)
(* before they write it.  Emails are stored in lower case, nicknames as    *)
(* typed; both are looked up in lower case.  Passwords and the columns     *)
(* nobody looks up (names, avatar, is_active, which no code writes) are    *)
(* left out: a login that does not match changes nothing.                  *)
(***************************************************************************)
EXTENDS RefreshSessions

CONSTANTS
  Emails,    \* email addresses, in lower case
  Nicks,     \* nicknames, as typed
  Lower(_)   \* a nickname in lower case

ASSUME AccountsAssumption == None \notin Emails \union Nicks

VARIABLES
  account,  \* table users: per user id, NoAccount without a row
  form,     \* per request: what it does to accounts
  raced     \* history: pairs of accounts that wrote one nickname in a race

accountVars == <<account, form, raced>>
authVars == <<vars, accountVars>>

NoAccount == [email |-> None, nick |-> None]

(* since: history, the accounts that wrote the nickname since its lookup. *)
NoForm == [pc |-> "idle", email |-> None, nick |-> None, user |-> None, since |-> {}]

AuthInit ==
  /\ Init
  /\ account = [u \in Users |-> NoAccount]
  /\ form = [q \in Requests |-> NoForm]
  /\ raced = {}

Registered == {u \in Users : account[u] # NoAccount}
GetByEmail(e) == {u \in Registered : account[u].email = e}

(* Variant: WHERE nickname = $1. *)
GetByNicknameAsTyped(n) == {u \in Registered : account[u].nick = n}

(* WHERE lower(nickname) = lower($1).  QueryRow takes one row of them. *)
GetByNickname(n) == {u \in Registered : Lower(account[u].nick) = Lower(n)}

Free(q) == form[q].pc = "idle" /\ req[q].pc = "idle"
Submit(q, f) == form' = [form EXCEPT ![q] = f]
Done(q) == Submit(q, NoForm)

(* Request q writes row r of user u and goes on with f. *)
Write(q, u, r, f) ==
  /\ account' = [account EXCEPT ![u] = r]
  /\ form' = [p \in Requests |->
       IF p = q THEN f
       ELSE IF form[p].pc \in {"create", "update"} /\ Lower(form[p].nick) = Lower(r.nick)
         THEN [form[p] EXCEPT !.since = @ \union {u}] ELSE form[p]]
  /\ raced' = raced \union {{u, v} : v \in form[q].since \ {u}}

-----------------------------------------------------------------------------
(* Register, up to the lookup of the email. *)
Register(q, e, n) ==
  /\ Free(q)
  /\ GetByEmail(e) = {}
  /\ Submit(q, [NoForm EXCEPT !.pc = "nickname", !.email = e, !.nick = n])
  /\ UNCHANGED <<vars, account, raced>>

RegisterNickname(q) ==
  /\ form[q].pc = "nickname"
  /\ IF GetByNickname(form[q].nick) = {}
     THEN Submit(q, [form[q] EXCEPT !.pc = "create"]) ELSE Done(q)
  /\ UNCHANGED <<vars, account, raced>>

(* Variant: the unique index is missing. *)
CreateUserTwice(q) ==
  /\ form[q].pc = "create"
  /\ \E u \in Users \ Registered :
       Write(q, u, [email |-> form[q].email, nick |-> form[q].nick],
             [NoForm EXCEPT !.pc = "issue", !.user = u])
  /\ UNCHANGED vars

(* INSERT INTO users: uq_users_email_lower turns a second one into a 500. *)
CreateUser(q) ==
  /\ form[q].pc = "create"
  /\ IF GetByEmail(form[q].email) # {}
     THEN Done(q) /\ UNCHANGED <<account, raced>>
     ELSE \E u \in Users \ Registered :
            Write(q, u, [email |-> form[q].email, nick |-> form[q].nick],
                  [NoForm EXCEPT !.pc = "issue", !.user = u])
  /\ UNCHANGED vars

(* Login, with the right password, up to issueTokens. *)
LoginWith(q, e) ==
  /\ Free(q)
  /\ \E u \in GetByEmail(e) :
       Submit(q, [NoForm EXCEPT !.pc = "issue", !.user = u])
  /\ UNCHANGED <<vars, account, raced>>

IssueTokensFor(q) ==
  /\ form[q].pc = "issue"
  /\ IssueTokens(form[q].user)
  /\ Done(q)
  /\ UNCHANGED <<account, raced>>

-----------------------------------------------------------------------------
(* UpdateMe with a nickname, up to its lookup: 409 if the row it got is    *)
(* somebody else's.                                                        *)
UpdateMe(q, u, n) ==
  LET holders == GetByNickname(n)
  IN  /\ Free(q)
      /\ u \in Registered
      /\ holders = {} \/ u \in holders
      /\ Submit(q, [NoForm EXCEPT !.pc = "update", !.nick = n, !.user = u])
      /\ UNCHANGED <<vars, account, raced>>

UpdateProfile(q) ==
  /\ form[q].pc = "update"
  /\ LET u == form[q].user
     IN  Write(q, u, [account[u] EXCEPT !.nick = form[q].nick], NoForm)
  /\ UNCHANGED vars

(* A statement fails, the client goes away or the process dies. *)
Abandon(q) ==
  /\ form[q].pc # "idle"
  /\ Done(q)
  /\ UNCHANGED <<vars, account, raced>>

-----------------------------------------------------------------------------
AccountStep(q) ==
  \/ \E e \in Emails : LoginWith(q, e) \/ \E n \in Nicks : Register(q, e, n)
  \/ \E u \in Users, n \in Nicks : UpdateMe(q, u, n)
  \/ RegisterNickname(q) \/ CreateUser(q) \/ IssueTokensFor(q)
  \/ UpdateProfile(q) \/ Abandon(q)

(* A request that is busy with an account starts nothing else. *)
AuthNext ==
  \/ \E q \in Requests : AccountStep(q)
  \/ SessionStep /\ UNCHANGED accountVars
     /\ \A q \in Requests : form[q].pc # "idle" => req'[q] = req[q]

AuthSpec == AuthInit /\ [][AuthNext]_authVars

-----------------------------------------------------------------------------
(***************************************************************************)
(* Properties                                                              *)
(***************************************************************************)

(* An email leads to one account, and every session to an account, however *)
(* many registrations race past the lookups of Register and wherever they  *)
(* are cut short: Login is never ambiguous.                                *)
OneAccountPerEmail ==
  /\ \A u, v \in Registered : account[u].email = account[v].email => u = v
  /\ \A s \in 1..created : owner[s] \in Registered

(* Two accounts share a nickname, in any spelling, only if they once wrote *)
(* one in a race: each looked it up, in Register or in UpdateMe, before    *)
(* the other had written it.  Requests one after the other never lead      *)
(* there, however often the accounts are renamed.                          *)
NicknameSharedOnlyByRace ==
  \A u, v \in Registered :
    u # v /\ Lower(account[u].nick) = Lower(account[v].nick) => {u, v} \in raced

(***************************************************************************)
(* The inductive invariants behind them (see AccountsProofs).  RowsInv:    *)
(* the shape of the rows and the forms; accounts are never deleted, so who *)
(* was found stays there.  LookupInv: what the lookup of a nickname said   *)
(* still holds of every account but those that wrote it since.             *)
(***************************************************************************)
FormType ==
  [pc : {"idle", "nickname", "create", "issue", "update"}, email : Emails \union {None},
   nick : Nicks \union {None}, user : Users \union {None}, since : SUBSET Users]

RowsInv ==
  /\ account \in [Users -> {NoAccount} \union [email : Emails, nick : Nicks]]
  /\ form \in [Requests -> FormType]
  /\ \A q \in Requests :
       /\ form[q].pc \in {"nickname", "create"} => form[q].email # None
       /\ form[q].pc \in {"nickname", "create", "update"} => form[q].nick # None
       /\ form[q].pc \in {"issue", "update"} => form[q].user \in Registered

LookupInv ==
  \A q \in Requests, v \in Registered :
    form[q].pc \in {"create", "update"} /\ Lower(account[v].nick) = Lower(form[q].nick) =>
      \/ v \in form[q].since
      \/ form[q].pc = "update" /\ (v = form[q].user \/ {form[q].user, v} \in raced)
=============================================================================
