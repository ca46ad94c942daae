------------------------------ MODULE Accounts ------------------------------
(***************************************************************************)
(* Users of a tenant: the bootstrap that creates the tenant and its admin  *)
(* when a replica starts, registration and login, the users API and the    *)
(* links from messenger identities to users.  Every call is an HTTP        *)
(* request that the RateLimit middleware has admitted.  Tokens are not     *)
(* stored: one is good until it expires, whatever becomes of its user, and *)
(* a refresh token buys another pair with the claims it carries.           *)
(* Handlers check first and write after, so two of them on the same e-mail *)
(* address or identity are decided by the unique constraints.              *)
(***************************************************************************)
EXTENDS RateLimit

CONSTANTS
  Emails,       \* e-mail addresses, in every spelling used
  Fold(_),      \* the address in lower case, without blanks
  AdminEmail,   \* the address of the bootstrap configuration
  Identities,   \* messenger identities (a platform and an external id)
  Replicas,
  ServedBy,     \* the replica whose goroutine a caller is
  FirstUsers,   \* what the table of users may be to begin with
  MaxRestarts   \* bound: restarts of replicas

Roles == {"admin", "member"}
Tokens == [user : Users, role : Roles]
ASSUME AccountsAssumption ==
  /\ IsFiniteSet(Callers) /\ ServedBy \in [Callers -> Replicas]
  /\ RequestsPerMinute \in Nat \ {0} /\ MaxRequests \in Nat /\ MaxMinute \in Nat
  /\ \A e \in Emails : Fold(e) \in Emails /\ Fold(Fold(e)) = Fold(e)
  /\ AdminEmail \in Emails /\ Fold(AdminEmail) = AdminEmail
  /\ MaxRestarts \in Nat
  /\ \A f \in FirstUsers :
       /\ DOMAIN f \subseteq Users
       /\ \A u \in DOMAIN f : f[u] \in [email : Emails, role : Roles]
       /\ \A u, v \in DOMAIN f : f[u].email = f[v].email => u = v

VARIABLES
  tenant,    \* the default tenant exists
  users,     \* id -> [email, role]
  links,     \* identity -> user id
  tokens,    \* claims that some client holds a token for that has not expired
  replica,   \* per replica, how far its start is
  restarts,
  told       \* history: what handlers reported as done and nobody has undone

vars == <<limiterVars, tenant, users, links, tokens, replica, restarts, told>>
rows == <<tenant, users, links>>

Init ==
  /\ LimiterInit
  /\ users \in FirstUsers /\ links = <<>>
  /\ tenant = (users # <<>>)
  /\ tokens = {[user |-> u, role |-> users[u].role] : u \in DOMAIN users}
  /\ replica = [r \in Replicas |-> "start"] /\ restarts = 0
  /\ told = {}

With(f, k, v) == [x \in DOMAIN f \cup {k} |-> IF x = k THEN v ELSE f[x]]
Without(f, S) == [x \in DOMAIN f \ S |-> f[x]]

ByEmail(e) == {u \in DOMAIN users : users[u].email = e}
Fresh == Users \ DOMAIN users

(* INSERT INTO users, under UNIQUE (tenant_id, email).                     *)
Insert(u, email, role) == users' = With(users, u, [email |-> email, role |-> role])

-----------------------------------------------------------------------------
(* bootstrap.Run of a replica that starts.                                 *)

Boot(r, new) == replica' = [replica EXCEPT ![r] = new]
ByRole(e) == IF \A u \in ByEmail(e) : users[u].role = "admin" THEN "ready" ELSE "refused"

LookUpTenant(r) ==
  /\ replica[r] = "start"
  /\ Boot(r, IF tenant THEN "admin" ELSE "newTenant")
  /\ UNCHANGED <<limiterVars, rows, tokens, restarts, told>>

(* A replica that comes second reads the tenant the first has created.     *)
CreateTenant(r) ==
  /\ replica[r] = "newTenant"
  /\ tenant' = TRUE /\ Boot(r, "admin")
  /\ UNCHANGED <<limiterVars, users, links, tokens, restarts, told>>

LookUpAdmin(r) ==
  /\ replica[r] = "admin"
  /\ Boot(r, IF ByEmail(AdminEmail) = {} THEN "newAdmin" ELSE ByRole(AdminEmail))
  /\ UNCHANGED <<limiterVars, rows, tokens, restarts, told>>

CreateAdmin(r) ==
  /\ replica[r] = "newAdmin"
  /\ IF ByEmail(AdminEmail) = {}
     THEN \E u \in Fresh : Insert(u, AdminEmail, "admin") /\ Boot(r, "ready")
     ELSE Boot(r, "reload") /\ UNCHANGED users
  /\ UNCHANGED <<limiterVars, tenant, links, tokens, restarts, told>>

ReloadedAny == IF ByEmail(AdminEmail) = {} THEN "refused" ELSE "ready"  \* mutant: no second look at the role
Reloaded == IF ByEmail(AdminEmail) = {} THEN "refused" ELSE ByRole(AdminEmail)
ReloadAdmin(r) ==
  /\ replica[r] = "reload"
  /\ Boot(r, Reloaded)
  /\ UNCHANGED <<limiterVars, rows, tokens, restarts, told>>

(* The process ends, in the middle of its requests, and is started anew.   *)
Restart(r) ==
  /\ restarts < MaxRestarts /\ restarts' = restarts + 1
  /\ Boot(r, "start")
  /\ Lose({c \in Callers : ServedBy[c] = r})
  /\ UNCHANGED <<rows, tokens, told>>

Bootstrap(r) ==
  \/ LookUpTenant(r) \/ CreateTenant(r) \/ LookUpAdmin(r) \/ CreateAdmin(r) \/ ReloadAdmin(r)
  \/ Restart(r)

-----------------------------------------------------------------------------
(* Requests that need no token.                                            *)

Receive(c) ==
  /\ replica[ServedBy[c]] = "ready"
  /\ \E t \in tokens \cup {None} : Arrive(c, t)
  /\ UNCHANGED <<rows, tokens, replica, restarts, told>>

Admitted(c) == InPhase(c, "admitted")
(* The phases of a handler after its first statement.                      *)
Then(c, phase, user, arg) ==
  Continue(c, [phase |-> phase, credential |-> request[c].credential, user |-> user, arg |-> arg])
Answer(t) == told' = told \cup {t}

(* Service.Register: look the address up, hash, insert.                    *)
Register(c) ==
  \E e \in Emails :
    /\ Admitted(c)
    /\ IF ByEmail(Fold(e)) = {} THEN Then(c, "creating", None, e) ELSE Finish(c)
    /\ UNCHANGED <<rows, tokens, replica, restarts, told>>

CreateUserAsTyped(c) ==  \* mutant: the address is stored in the spelling of the request
  /\ InPhase(c, "creating")
  /\ LET e == request[c].arg IN
     IF ByEmail(e) = {}
     THEN \E u \in Fresh : Insert(u, e, "member") /\ Answer(<<"registered", u, e>>)
     ELSE UNCHANGED <<users, told>>
  /\ Finish(c)
  /\ UNCHANGED <<tenant, links, tokens, replica, restarts>>
CreateUser(c) ==
  /\ InPhase(c, "creating")
  /\ LET e == request[c].arg IN
     IF ByEmail(Fold(e)) = {}
     THEN \E u \in Fresh : Insert(u, Fold(e), "member") /\ Answer(<<"registered", u, e>>)
     ELSE UNCHANGED <<users, told>>
  /\ Finish(c)
  /\ UNCHANGED <<tenant, links, tokens, replica, restarts>>

(* Service.Login, with the right password; the session's registration      *)
(* handler calls it too, right after Register.                             *)
Login(c) ==
  \E e \in Emails :
    /\ Admitted(c)
    /\ tokens' = tokens \cup {[user |-> u, role |-> users[u].role] : u \in ByEmail(Fold(e))}
    /\ Finish(c)
    /\ UNCHANGED <<rows, replica, restarts, told>>

(* The last refresh token with these claims expires, its access token has. *)
Expire ==
  /\ \E t \in tokens : tokens' = tokens \ {t}
  /\ UNCHANGED <<limiterVars, rows, replica, restarts, told>>

-----------------------------------------------------------------------------
(* Requests with a token, which the Auth middleware has found to be good.  *)

Token(c) == request[c].credential
Authenticated(c) == Admitted(c) /\ Token(c) \in tokens
IsAdmin(c) == Token(c).role = "admin"

(* PATCH /api/v1/users/{id}: an admin, or the user; a role by admins only. *)
EditUser(c) ==
  \E u \in DOMAIN users, e \in Emails, role \in Roles :
    /\ Authenticated(c)
    /\ IsAdmin(c) \/ (Token(c).user = u /\ role = users[u].role)
    /\ Then(c, "saving", u, [email |-> e, role |-> role])
    /\ UNCHANGED <<rows, tokens, replica, restarts, told>>

(* UPDATE users SET email, password_hash, name, role: the whole entity.    *)
Updatable(u, row) == u \in DOMAIN users /\ ByEmail(row.email) \subseteq {u}
Update(u, row) == users' = [users EXCEPT ![u] = row]

SaveUser(c) ==
  /\ InPhase(c, "saving")
  /\ LET u == request[c].user
         row == request[c].arg
     IN  IF Updatable(u, row)
         THEN /\ Update(u, row)
              /\ told' = IF row.email = users[u].email THEN told
                         ELSE told \ {<<"registered", u, e>> : e \in Emails}
         ELSE UNCHANGED <<users, told>>
  /\ Finish(c)
  /\ UNCHANGED <<tenant, links, tokens, replica, restarts>>

(* The foreign key deletes the links with their user.                      *)
LinksOf(u) == {x \in DOMAIN links : links[x] = u}
Delete(u) == users' = Without(users, {u}) /\ links' = Without(links, LinksOf(u))

DeleteUser(c) ==
  \E u \in DOMAIN users :
    /\ Authenticated(c) /\ IsAdmin(c)
    /\ Delete(u)
    /\ told' = {t \in told : t[2] # u /\ t[3] # u}
    /\ Finish(c)
    /\ UNCHANGED <<tenant, tokens, replica, restarts>>

FoundAny(c, x) ==  \* mutant: a link that is there is taken for one's own
  Answer(<<"linked", x, Token(c).user>>) /\ Finish(c)
(* POST /api/v1/auth/link/complete: look, insert, look again.              *)
Linked(x) == x \in DOMAIN links

Found(c, x) ==
  /\ told' = IF links[x] = Token(c).user THEN told \cup {<<"linked", x, Token(c).user>>} ELSE told
  /\ Finish(c)

CompleteLink(c) ==
  \E x \in Identities :
    /\ Authenticated(c)
    /\ IF Linked(x) THEN Found(c, x)
       ELSE Then(c, "linking", Token(c).user, x) /\ UNCHANGED told
    /\ UNCHANGED <<rows, tokens, replica, restarts>>

CreateLink(c) ==
  /\ InPhase(c, "linking")
  /\ LET x == request[c].arg
         u == request[c].user
     IN  IF ~Linked(x) /\ u \in DOMAIN users
         THEN links' = With(links, x, u) /\ Answer(<<"linked", x, u>>) /\ Finish(c)
         ELSE Then(c, "looking", u, x) /\ UNCHANGED <<links, told>>
  /\ UNCHANGED <<tenant, users, tokens, replica, restarts>>

LookAgain(c) ==
  /\ InPhase(c, "looking")
  /\ IF Linked(request[c].arg) THEN Found(c, request[c].arg)
     ELSE Finish(c) /\ UNCHANGED told
  /\ UNCHANGED <<rows, tokens, replica, restarts>>

Unlink(x) == links' = Without(links, {x})

DeleteLink(c) ==
  \E x \in DOMAIN links :
    /\ Authenticated(c) /\ links[x] = Token(c).user
    /\ Unlink(x) /\ told' = told \ {<<"linked", x, links[x]>>}
    /\ Finish(c)
    /\ UNCHANGED <<tenant, users, tokens, replica, restarts>>

(* RefreshToken takes a refresh token, wherever its user is by now, and    *)
(* issues the claims it carries again; the user's row is not read.         *)
Issued(t) == [user |-> t.user, role |-> t.role]

RefreshToken(c) ==
  \E t \in tokens :
    /\ Admitted(c)
    /\ tokens' = tokens \cup {Issued(t)}
    /\ Finish(c)
    /\ UNCHANGED <<rows, replica, restarts, told>>

(* Reads and refusals.                                                     *)
OtherRequest(c) ==
  Admitted(c) /\ Finish(c) /\ UNCHANGED <<rows, tokens, replica, restarts, told>>

Handler(c) ==
  \/ Register(c) \/ CreateUser(c) \/ Login(c)
  \/ EditUser(c) \/ SaveUser(c) \/ DeleteUser(c)
  \/ CompleteLink(c) \/ CreateLink(c) \/ LookAgain(c) \/ DeleteLink(c)
  \/ RefreshToken(c) \/ OtherRequest(c)

Middleware == Limiter /\ UNCHANGED <<rows, tokens, replica, restarts, told>>

Next ==
  \/ \E r \in Replicas : Bootstrap(r)
  \/ \E c \in Callers : Receive(c) \/ Handler(c)
  \/ Middleware \/ Expire

Spec == Init /\ [][Next]_vars

-----------------------------------------------------------------------------
Phases == {"idle", "counting", "dating", "admitted", "creating", "saving", "linking", "looking"}

(* Types; rows refer to rows that are there, whatever was deleted          *)
(* meanwhile, and no two users share an address.                           *)
TypeOK ==
  /\ tenant \in BOOLEAN /\ tokens \subseteq Tokens
  /\ DOMAIN users \subseteq Users
  /\ \A u \in DOMAIN users : /\ users[u] \in [email : Emails, role : Roles]
                             /\ ByEmail(users[u].email) = {u}
  /\ DOMAIN links \subseteq Identities /\ \A x \in DOMAIN links : links[x] \in DOMAIN users
  /\ replica \in [Replicas -> {"start", "newTenant", "admin", "newAdmin", "reload", "ready", "refused"}]
  /\ \A c \in Callers : request[c].phase \in Phases
  /\ requests \in 0..MaxRequests /\ restarts \in 0..MaxRestarts

(* What a user was told about a link is so: the identity is the user's     *)
(* until one of them is deleted, although two users may complete the link  *)
(* of one identity, or one user twice, at the same time.                   *)
ToldLinked == \A t \in told : t[1] = "linked" => t[2] \in DOMAIN links /\ links[t[2]] = t[3]

(* Who registered can log in with the address typed, in that spelling, as  *)
(* the user that was created, until the address is changed.                *)
RegisteredLogsIn == \A t \in told : t[1] = "registered" => ByEmail(Fold(t[3])) = {t[2]}

(* A replica serves only when the bootstrap address is an admin's, however *)
(* its start is interleaved with another's and with requests the other     *)
(* serves already.                                                         *)
ReadyHasAdmin ==
  [][\A r \in Replicas :
       replica[r] # "ready" /\ replica'[r] = "ready" =>
         \E u \in DOMAIN users' : users'[u] = [email |-> AdminEmail, role |-> "admin"]]_vars
=============================================================================
