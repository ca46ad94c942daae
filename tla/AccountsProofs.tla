--------------------------- MODULE AccountsProofs ---------------------------
(***************************************************************************)
(* Proofs about Accounts for every number of users, addresses, requests,   *)
(* replicas and restarts: what users were told stays true, a replica that  *)
(* serves has an admin, no counter outlives its minute for good, and no    *)
(* caller is granted more than the limit in one of its windows.            *)
(*                                                                         *)
(* The limit rests on Quota: the grants of a minute and the requests that  *)
(* are still to be judged in it are no more than its counter allows.       *)
(*                                                                         *)
(* Handlers check first and write after.  What holds between the two is    *)
(* only that the arguments have their types; everything else rests on the  *)
(* unique constraints, which the statements look at again.                 *)
(***************************************************************************)
EXTENDS Accounts, FiniteSetTheorems, TLAPS

Row == [email : Emails, role : Roles]

(* The table of users, with UNIQUE (tenant_id, email).                     *)
UsersOK ==
  /\ DOMAIN users \subseteq Users
  /\ \A u \in DOMAIN users : users[u] \in Row
  /\ \A u, v \in DOMAIN users : users[u].email = users[v].email => u = v

LinksOK ==
  DOMAIN links \subseteq Identities /\ \A x \in DOMAIN links : links[x] \in DOMAIN users

(* What a handler carries from its check to its write.                     *)
Credentials == Tokens \cup {None}
Limited == [phase : {"counting", "dating", "admitted"}, credential : Credentials, key : Keys,
            minute : 0..MaxMinute, count : Nat, punctual : BOOLEAN]
Creating == [phase : {"creating"}, credential : Credentials, user : {None}, arg : Emails]
Saving == [phase : {"saving"}, credential : Credentials, user : Users, arg : Row]
Linking == [phase : {"linking", "looking"}, credential : Credentials, user : Users,
            arg : Identities]
Requests == {NoRequest} \cup Limited \cup Creating \cup Saving \cup Linking

RequestsOK == request \in [Callers -> Requests] /\ requests \in 0..MaxRequests

TokensOK == tokens \subseteq Tokens

ToldOK ==
  told \subseteq ({"registered"} \X Users \X Emails) \cup ({"linked"} \X Identities \X Users)

ReplicasOK ==
  /\ replica \in [Replicas -> {"start", "newTenant", "admin", "newAdmin", "reload", "ready",
                               "refused"}]
  /\ restarts \in 0..MaxRestarts /\ tenant \in BOOLEAN

(* Counters, and who is about to see to it that one expires.               *)
CountersOK ==
  /\ minute \in 0..MaxMinute
  /\ DOMAIN counters \subseteq Counters
  /\ \A k \in DOMAIN counters : counters[k] \in [n : Nat, dated : BOOLEAN]
  /\ failed \in BOOLEAN
  /\ ~failed => \A k \in DOMAIN counters :
       ~counters[k].dated \/ Expired(k) =>
         \E c \in Callers : InPhase(c, "dating") /\ Counting(c) = k

(* Requests that are counted in their minute, within the limit, and will   *)
(* be admitted when the counter is dated; a counter of this minute or a    *)
(* later one has counted all of them and all that were admitted.           *)
Pending(k) ==
  {c \in Callers : /\ InPhase(c, "dating") /\ Counting(c) = k
                   /\ request[c].punctual /\ request[c].count <= RequestsPerMinute}

Quota ==
  /\ granted \in [Counters -> Nat]
  /\ \A k \in Counters :
       /\ granted[k] + Cardinality(Pending(k)) <= RequestsPerMinute
       /\ k[2] >= minute => granted[k] + Cardinality(Pending(k)) <= Stored(k).n

TablesOK == UsersOK /\ LinksOK /\ ToldOK /\ ToldLinked /\ RegisteredLogsIn
LimiterOK == RequestsOK /\ CountersOK /\ Quota
RestOK == TokensOK /\ ReplicasOK /\ LimiterOK
IInv == TablesOK /\ RestOK

-----------------------------------------------------------------------------
(* The statements on the tables.                                           *)

(* INSERT INTO users of an address that nobody has.                        *)
LEMMA InsertStep ==
  ASSUME TablesOK, NEW u \in Fresh, NEW e \in Emails, NEW role \in Roles, ByEmail(e) = {},
         Insert(u, e, role), links' = links
  PROVE  /\ UsersOK' /\ LinksOK' /\ ByEmail(e)' = {u} /\ users'[u] = [email |-> e, role |-> role]
         /\ \A d : d # e => ByEmail(d)' = ByEmail(d)
<1>1. u \in Users /\ u \notin DOMAIN users
  BY DEF Fresh
<1>2. /\ DOMAIN users' = DOMAIN users \cup {u} /\ users'[u] = [email |-> e, role |-> role]
      /\ \A v \in DOMAIN users : users'[v] = users[v]
  BY <1>1 DEF Insert, With
<1>3. \A v \in DOMAIN users : users[v].email # e
  BY DEF ByEmail
<1>4. UsersOK'
  BY <1>1, <1>2, <1>3 DEF TablesOK, UsersOK, Row
<1>5. LinksOK'
  BY <1>2 DEF TablesOK, LinksOK
<1>6. ByEmail(e)' = {u}
  BY <1>1, <1>2, <1>3 DEF ByEmail
<1>7. ASSUME NEW d, d # e PROVE ByEmail(d)' = ByEmail(d)
  BY <1>1, <1>2, <1>7 DEF ByEmail
<1>8. QED
  BY <1>2, <1>4, <1>5, <1>6, <1>7

(* It leaves what anybody was told as it is.                               *)
LEMMA InsertKeepsTold ==
  ASSUME TablesOK, NEW u \in Fresh, NEW e \in Emails, NEW role \in Roles, ByEmail(e) = {},
         Insert(u, e, role), links' = links,
         told' = told \/ \E d \in Emails : e = Fold(d) /\ told' = told \cup {<<"registered", u, d>>}
  PROVE  TablesOK'
<1>1. /\ UsersOK' /\ LinksOK' /\ ByEmail(e)' = {u}
      /\ \A d : d # e => ByEmail(d)' = ByEmail(d)
  BY InsertStep
<1>2. u \in Users
  BY DEF Fresh
<1>3. ToldOK'
  BY <1>2 DEF TablesOK, ToldOK
<1>4. ToldLinked'
  BY DEF TablesOK, ToldLinked
<1>5. RegisteredLogsIn'
  <2>1. \A t \in told : t[1] = "registered" => ByEmail(Fold(t[3]))' = {t[2]}
    BY <1>1 DEF TablesOK, RegisteredLogsIn
  <2>2. \A d \in Emails : e = Fold(d) => ByEmail(Fold(d))' = {u}
    BY <1>1
  <2>3. QED
    BY <2>1, <2>2 DEF RegisteredLogsIn
<1>6. QED
  BY <1>1, <1>3, <1>4, <1>5 DEF TablesOK

(* UPDATE users to an address that is one's own or free.                   *)
LEMMA UpdateStep ==
  ASSUME TablesOK, NEW u, NEW row \in Row, Updatable(u, row), Update(u, row), links' = links,
         told' = IF row.email = users[u].email THEN told
                 ELSE told \ {<<"registered", u, e>> : e \in Emails}
  PROVE  TablesOK'
<1>1. u \in DOMAIN users /\ \A v \in DOMAIN users : users[v].email = row.email => v = u
  BY DEF Updatable, ByEmail
<1>2. /\ DOMAIN users' = DOMAIN users /\ users'[u] = row
      /\ \A v \in DOMAIN users : v # u => users'[v] = users[v]
  BY <1>1 DEF Update
<1>3. UsersOK' /\ LinksOK'
  BY <1>1, <1>2 DEF TablesOK, UsersOK, LinksOK
<1>4. ToldOK' /\ ToldLinked'
  BY DEF TablesOK, ToldOK, ToldLinked
<1>5. RegisteredLogsIn'
  <2>1. SUFFICES ASSUME NEW t \in told', t[1] = "registered"
                 PROVE  ByEmail(Fold(t[3]))' = {t[2]}
    BY DEF RegisteredLogsIn
  <2>2. t \in told /\ ByEmail(Fold(t[3])) = {t[2]} /\ t[2] \in Users /\ t[3] \in Emails
        /\ t = <<"registered", t[2], t[3]>>
    BY <2>1 DEF TablesOK, RegisteredLogsIn, ToldOK
  <2>3. CASE row.email = users[u].email
    <3>1. \A v \in DOMAIN users : users'[v].email = users[v].email
      BY <1>2, <2>3
    <3>2. QED
      BY <1>2, <2>2, <3>1 DEF ByEmail
  <2>4. CASE row.email # users[u].email
    <3>1. t[2] # u
      BY <2>1, <2>2, <2>4
    <3>2. row.email # Fold(t[3]) /\ users[u].email # Fold(t[3])
      BY <1>1, <2>2, <3>1 DEF ByEmail
    <3>3. QED
      BY <1>2, <2>2, <3>2 DEF ByEmail
  <2>5. QED
    BY <2>3, <2>4
<1>6. QED
  BY <1>3, <1>4, <1>5 DEF TablesOK

(* DELETE FROM users, with the user's links.                               *)
LEMMA DeleteStep ==
  ASSUME TablesOK, NEW u \in DOMAIN users, Delete(u),
         told' = {t \in told : t[2] # u /\ t[3] # u}
  PROVE  TablesOK'
<1>1. /\ DOMAIN users' = DOMAIN users \ {u} /\ \A v \in DOMAIN users' : users'[v] = users[v]
      /\ DOMAIN links' = DOMAIN links \ LinksOf(u)
      /\ \A x \in DOMAIN links' : links'[x] = links[x]
  BY DEF Delete, Without
<1>2. UsersOK' /\ LinksOK' /\ ToldOK'
  BY <1>1 DEF TablesOK, UsersOK, LinksOK, ToldOK, LinksOf
<1>3. ToldLinked'
  BY <1>1 DEF TablesOK, ToldLinked, LinksOf
<1>4. RegisteredLogsIn'
  <2>1. SUFFICES ASSUME NEW t \in told, t[1] = "registered", t[2] # u
                 PROVE  ByEmail(Fold(t[3]))' = {t[2]}
    BY DEF RegisteredLogsIn
  <2>2. ByEmail(Fold(t[3])) = {t[2]}
    BY <2>1 DEF TablesOK, RegisteredLogsIn
  <2>3. QED
    BY <1>1, <2>1, <2>2 DEF ByEmail
<1>5. QED
  BY <1>2, <1>3, <1>4 DEF TablesOK

(* The link of an identity that has none, or the end of one.               *)
LEMMA LinkStep ==
  ASSUME TablesOK, NEW x \in Identities, NEW u \in DOMAIN users, ~Linked(x),
         links' = With(links, x, u), users' = users, told' = told \cup {<<"linked", x, u>>}
  PROVE  TablesOK'
<1>1. /\ DOMAIN links' = DOMAIN links \cup {x} /\ links'[x] = u
      /\ \A y \in DOMAIN links : links'[y] = links[y]
  BY DEF With, Linked
<1>2. UsersOK' /\ LinksOK' /\ ToldOK'
  BY <1>1 DEF TablesOK, UsersOK, LinksOK, ToldOK
<1>3. ToldLinked'
  BY <1>1 DEF TablesOK, ToldLinked
<1>4. RegisteredLogsIn'
  BY DEF TablesOK, RegisteredLogsIn, ByEmail
<1>5. QED
  BY <1>2, <1>3, <1>4 DEF TablesOK

LEMMA UnlinkStep ==
  ASSUME TablesOK, NEW x \in DOMAIN links, Unlink(x), users' = users,
         told' = told \ {<<"linked", x, links[x]>>}
  PROVE  TablesOK'
<1>1. /\ DOMAIN links' = DOMAIN links \ {x} /\ \A y \in DOMAIN links' : links'[y] = links[y]
  BY DEF Unlink, Without
<1>2. UsersOK' /\ LinksOK' /\ ToldOK'
  BY <1>1 DEF TablesOK, UsersOK, LinksOK, ToldOK
<1>3. ToldLinked'
  <2>1. SUFFICES ASSUME NEW t \in told', t[1] = "linked"
                 PROVE  t[2] \in DOMAIN links' /\ links'[t[2]] = t[3]
    BY DEF ToldLinked
  <2>2. t \in told /\ t[2] \in DOMAIN links /\ links[t[2]] = t[3] /\ t = <<"linked", t[2], t[3]>>
    BY <2>1 DEF TablesOK, ToldLinked, ToldOK
  <2>3. t[2] # x
    BY <2>1, <2>2
  <2>4. QED
    BY <1>1, <2>2, <2>3
<1>4. RegisteredLogsIn'
  BY DEF TablesOK, RegisteredLogsIn, ByEmail
<1>5. QED
  BY <1>2, <1>3, <1>4 DEF TablesOK

(* Steps that write no table but may tell of a link that is there.         *)
LEMMA NoRowStep ==
  ASSUME TablesOK, users' = users, links' = links,
         told' = told \/ \E x \in DOMAIN links : told' = told \cup {<<"linked", x, links[x]>>}
  PROVE  TablesOK'
<1>1. UsersOK' /\ LinksOK' /\ ToldOK'
  BY DEF TablesOK, UsersOK, LinksOK, ToldOK
<1>2. ToldLinked'
  BY DEF TablesOK, ToldLinked
<1>3. RegisteredLogsIn'
  BY DEF TablesOK, RegisteredLogsIn, ByEmail
<1>4. QED
  BY <1>1, <1>2, <1>3 DEF TablesOK

-----------------------------------------------------------------------------
(* Requests and the limiter.                                               *)

(* The phase of a request tells what it carries.                           *)
LEMMA Carried ==
  ASSUME RequestsOK, NEW c \in Callers
  PROVE  /\ request[c].phase \in {"counting", "dating", "admitted"} => request[c] \in Limited
         /\ InPhase(c, "creating") => request[c] \in Creating
         /\ InPhase(c, "saving") => request[c] \in Saving
         /\ request[c].phase \in {"linking", "looking"} => request[c] \in Linking
<1>1. request[c] \in Requests
  BY DEF RequestsOK
<1>2. QED
  BY <1>1 DEF Requests, NoRequest, Limited, Creating, Saving, Linking, InPhase

LEMMA CountedIn ==
  ASSUME RequestsOK, NEW c \in Callers, request[c].phase \in {"counting", "dating", "admitted"}
  PROVE  Counting(c) \in Counters
BY Carried DEF Limited, Counting, Counters

LEMMA PendingIsFinite ==
  ASSUME NEW k
  PROVE  IsFiniteSet(Pending(k)) /\ Cardinality(Pending(k)) \in Nat
<1>1. Pending(k) \in SUBSET Callers
  BY DEF Pending
<1>2. IsFiniteSet(Pending(k))
  BY <1>1, FS_Subset, AccountsAssumption
<1>3. QED
  BY <1>2, FS_CardinalityType

(* No more requests than before are about to be admitted.                  *)
LEMMA QuotaStays ==
  ASSUME CountersOK, CountersOK', Quota, granted' = granted, minute' = minute,
         \A k : Pending(k)' \subseteq Pending(k),
         \A k \in Counters : k[2] >= minute => Stored(k).n <= Stored(k)'.n
  PROVE  Quota'
<1>1. SUFFICES ASSUME NEW k \in Counters
               PROVE  /\ granted[k] + Cardinality(Pending(k))' <= RequestsPerMinute
                      /\ k[2] >= minute =>
                           granted[k] + Cardinality(Pending(k))' <= Stored(k)'.n
  BY DEF Quota
<1>2. IsFiniteSet(Pending(k)) /\ Cardinality(Pending(k)) \in Nat /\ Pending(k)' \in SUBSET Pending(k)
  BY PendingIsFinite
<1>3. Cardinality(Pending(k)') \in Nat /\ Cardinality(Pending(k)') <= Cardinality(Pending(k))
  BY <1>2, FS_Subset, FS_CardinalityType
<1>4. Stored(k).n \in Nat /\ Stored(k)'.n \in Nat
  BY DEF CountersOK, Stored
<1>5. granted[k] \in Nat /\ RequestsPerMinute \in Nat
  BY AccountsAssumption DEF Quota
<1>6. QED
  BY <1>2, <1>3, <1>4, <1>5 DEF Quota

(* A handler's step: nobody waits for it to date a counter.                *)
LEMMA ContinueStep ==
  ASSUME RequestsOK, CountersOK, NEW c \in Callers, ~InPhase(c, "dating"),
         NEW new \in Requests, new.phase # "dating", Continue(c, new), Quota
  PROVE  LimiterOK'
<1>1. /\ request' = [request EXCEPT ![c] = new]
      /\ UNCHANGED <<minute, counters, requests, granted, failed>>
  BY DEF Continue
<1>2. \A d \in Callers : d # c => request'[d] = request[d]
  BY <1>1 DEF RequestsOK
<1>3. RequestsOK'
  BY <1>1 DEF RequestsOK
<1>4. CountersOK'
  BY <1>1, <1>2 DEF CountersOK, Expired, InPhase, Counting
<1>5. request'[c] = new
  BY <1>1 DEF RequestsOK
<1>6. \A k : Pending(k)' \subseteq Pending(k)
  BY <1>2, <1>5 DEF Pending, InPhase, Counting
<1>7. \A k \in Counters : k[2] >= minute => Stored(k).n <= Stored(k)'.n
  BY <1>1 DEF CountersOK, Stored
<1>8. QED
  BY <1>1, <1>3, <1>4, <1>6, <1>7, QuotaStays DEF LimiterOK

LEMMA FinishStep ==
  ASSUME LimiterOK, NEW c \in Callers, ~InPhase(c, "dating"), Finish(c)
  PROVE  LimiterOK'
BY ContinueStep DEF Finish, Requests, NoRequest, LimiterOK

LEMMA ArriveStep ==
  ASSUME LimiterOK, NEW c \in Callers, NEW t \in Credentials, Arrive(c, t)
  PROVE  LimiterOK'
<1> USE DEF LimiterOK
<1> DEFINE new == [phase |-> "counting", credential |-> t, key |-> KeyOf(t),
                   minute |-> minute, count |-> 0, punctual |-> TRUE]
<1>1. new \in Requests
  <2>1. KeyOf(t) \in Keys
    BY DEF KeyOf, Keys, Credentials, Tokens
  <2>2. QED
    BY <2>1 DEF CountersOK, Requests, Limited
<1>2. RequestsOK'
  BY <1>1, AccountsAssumption DEF Arrive, RequestsOK
<1>3. \A d \in Callers : d # c => request'[d] = request[d]
  BY DEF Arrive, RequestsOK
<1>4. CountersOK'
  BY <1>3 DEF Arrive, CountersOK, Expired, InPhase, Counting
<1>5. request'[c] = new
  BY DEF Arrive, RequestsOK
<1>6. \A k : Pending(k)' \subseteq Pending(k)
  BY <1>3, <1>5 DEF Pending, InPhase, Counting
<1>7. \A k \in Counters : k[2] >= minute => Stored(k).n <= Stored(k)'.n
  BY DEF Arrive, CountersOK, Stored
<1>8. QED
  BY <1>2, <1>4, <1>6, <1>7, QuotaStays DEF Arrive

LEMMA StoredType ==
  ASSUME CountersOK, NEW k
  PROVE  Stored(k) \in [n : Nat, dated : BOOLEAN]
BY DEF CountersOK, Stored

LEMMA IncrementedType ==
  ASSUME CountersOK, NEW k \in Counters
  PROVE  /\ DOMAIN Incremented(k) \subseteq Counters
         /\ DOMAIN Incremented(k) = DOMAIN counters \cup {k}
         /\ \A j \in DOMAIN Incremented(k) : Incremented(k)[j] \in [n : Nat, dated : BOOLEAN]
         /\ \A j \in DOMAIN counters : j # k => Incremented(k)[j] = counters[j]
         /\ Incremented(k)[k].n = Stored(k).n + 1
BY StoredType DEF CountersOK, Incremented

LEMMA IncrementedOnce ==
  ASSUME CountersOK, NEW k \in Counters, counters' = Incremented(k)
  PROVE  \A j \in Counters :
           IF j = k THEN Stored(j)'.n = Stored(j).n + 1 ELSE Stored(j)' = Stored(j)
<1>1. /\ DOMAIN counters' = DOMAIN counters \cup {k} /\ counters'[k].n = Stored(k).n + 1
      /\ \A j \in DOMAIN counters : j # k => counters'[j] = counters[j]
  BY IncrementedType
<1>2. Stored(k)' = counters'[k]
  BY <1>1 DEF Stored
<1>3. ASSUME NEW j, j # k PROVE Stored(j)' = Stored(j)
  <2>1. CASE j \in DOMAIN counters
    BY <1>1, <1>3, <2>1 DEF Stored
  <2>2. CASE j \notin DOMAIN counters
    BY <1>1, <1>3, <2>2 DEF Stored
  <2>3. QED
    BY <2>1, <2>2
<1>4. QED
  BY <1>1, <1>2, <1>3

LEMMA DateType ==
  ASSUME CountersOK, NEW k
  PROVE  /\ DOMAIN Date(k) \subseteq DOMAIN counters
         /\ \A j \in DOMAIN Date(k) : Date(k)[j] \in [n : Nat, dated : BOOLEAN]
         /\ \A j \in DOMAIN Date(k) : j # k => Date(k)[j] = counters[j]
         /\ k \in DOMAIN Date(k) => /\ ~Expired(k) /\ Date(k)[k].dated
                                    /\ Date(k)[k].n = counters[k].n
         /\ \A j \in DOMAIN counters : (j = k /\ Expired(k)) \/ j \in DOMAIN Date(k)
<1>1. CASE k \notin DOMAIN counters
  BY <1>1 DEF CountersOK, Date
<1>2. CASE k \in DOMAIN counters /\ Expired(k)
  BY <1>2 DEF CountersOK, Date, Remaining
<1>3. CASE k \in DOMAIN counters /\ ~Expired(k)
  <2>1. Date(k) = [counters EXCEPT ![k].dated = TRUE]
    BY <1>3 DEF Date
  <2>2. QED
    BY <1>3, <2>1 DEF CountersOK
<1>4. QED
  BY <1>1, <1>2, <1>3

(* Whoever counts will date, who dates leaves nothing to expire, and what  *)
(* a tick leaves behind the time was not dated before.                     *)
LEMMA LimiterStep ==
  ASSUME LimiterOK, Limiter
  PROVE  LimiterOK'
<1> USE DEF LimiterOK
<1>1. CASE Tick
  <2>1. RequestsOK'
    BY <1>1 DEF Tick, RequestsOK
  <2>2. minute' \in 0..MaxMinute /\ minute' = minute + 1 /\ failed' = failed /\ request' = request
    BY <1>1, AccountsAssumption DEF Tick, CountersOK
  <2>3. /\ DOMAIN counters' = {k \in DOMAIN counters : ~(counters[k].dated /\ k[2] < minute + 1)}
        /\ \A k \in DOMAIN counters' : counters'[k] = counters[k]
    BY <1>1 DEF Tick, Remaining
  <2>4. ASSUME ~failed', NEW k \in DOMAIN counters', ~counters'[k].dated \/ Expired(k)'
        PROVE  \E c \in Callers : InPhase(c, "dating")' /\ Counting(c)' = k
    <3>1. k \in DOMAIN counters /\ ~counters[k].dated
      BY <2>2, <2>3, <2>4 DEF Expired
    <3>2. PICK c \in Callers : InPhase(c, "dating") /\ Counting(c) = k
      BY <2>2, <2>4, <3>1 DEF CountersOK
    <3>3. QED
      BY <2>2, <3>2 DEF InPhase, Counting
  <2>5. CountersOK'
    BY <2>2, <2>3, <2>4 DEF CountersOK
  <2>6. \A k \in Counters : k[2] >= minute + 1 => Stored(k)' = Stored(k)
    <3>1. \A k \in Counters : k[2] \in Int /\ minute \in Int
      BY AccountsAssumption DEF Counters, CountersOK
    <3>2. \A k \in Counters : k[2] >= minute + 1 => (k \in DOMAIN counters' <=> k \in DOMAIN counters)
      BY <2>3, <3>1
    <3>3. QED
      BY <2>3, <3>2 DEF Stored
  <2>7. \A k : Pending(k)' = Pending(k)
    BY <2>2 DEF Pending, InPhase, Counting
  <2>8. Quota'
    <3>1. \A k \in Counters : k[2] >= minute + 1 => k[2] >= minute
      BY AccountsAssumption DEF Counters, CountersOK
    <3>2. granted' = granted
      BY <1>1 DEF Tick
    <3>3. QED
      BY <2>2, <2>6, <2>7, <3>1, <3>2 DEF Quota
  <2>9. QED
    BY <2>1, <2>5, <2>8
<1>2. ASSUME NEW c \in Callers, Increment(c) PROVE LimiterOK'
  <2>0. PICK k : k = Counting(c)
    OBVIOUS
  <2>1. request[c] \in Limited /\ k \in Counters
    BY <1>2, <2>0, Carried, CountedIn DEF Increment, InPhase
  <2>2. /\ request' = [request EXCEPT ![c].phase = "dating", ![c].count = Stored(k).n + 1,
                                      ![c].punctual = (minute = request[c].minute)]
        /\ counters' = Incremented(k) /\ UNCHANGED <<minute, requests, granted, failed>>
    BY <1>2, <2>0 DEF Increment
  <2>3. Stored(k).n + 1 \in Nat /\ (minute = request[c].minute) \in BOOLEAN
    BY StoredType
  <2>4. /\ request'[c] \in Limited /\ request'[c].phase = "dating"
        /\ request'[c].key = request[c].key /\ request'[c].minute = request[c].minute
        /\ \A d \in Callers : d # c => request'[d] = request[d]
        /\ request' \in [Callers -> Requests]
    <3>1. request \in [Callers -> Requests]
      BY DEF RequestsOK
    <3>2. request'[c] = [request[c] EXCEPT !.phase = "dating", !.count = Stored(k).n + 1,
                                           !.punctual = (minute = request[c].minute)]
      BY <2>2, <3>1
    <3>3. request'[c] \in Limited /\ request'[c].phase = "dating"
          /\ request'[c].key = request[c].key /\ request'[c].minute = request[c].minute
      BY <2>1, <2>3, <3>2 DEF Limited
    <3>4. \A d \in Callers : d # c => request'[d] = request[d]
      BY <2>2, <3>1
    <3>5. request' \in [Callers -> Requests]
      <4>1. DOMAIN request' = Callers /\ request' = [d \in Callers |-> request'[d]]
        BY <2>2, <3>1
      <4>2. \A d \in Callers : request'[d] \in Requests
        BY <3>1, <3>3, <3>4 DEF Requests
      <4>3. QED
        BY <4>1, <4>2
    <3>6. QED
      BY <3>3, <3>4, <3>5
  <2>5. ASSUME ~failed', NEW j \in DOMAIN counters', ~counters'[j].dated \/ Expired(j)'
        PROVE  \E d \in Callers : InPhase(d, "dating")' /\ Counting(d)' = j
    <3>1. CASE j = k
      BY <2>0, <2>4, <3>1 DEF InPhase, Counting
    <3>2. CASE j # k
      <4>1. j \in DOMAIN counters /\ counters'[j] = counters[j]
        BY <2>1, <2>2, <3>2, IncrementedType
      <4>2. PICK d \in Callers : InPhase(d, "dating") /\ Counting(d) = j
        BY <2>2, <2>5, <4>1 DEF CountersOK, Expired
      <4>3. d # c
        BY <1>2, <4>2 DEF Increment, InPhase
      <4>4. QED
        BY <2>4, <4>2, <4>3 DEF InPhase, Counting
    <3>3. QED
      BY <3>1, <3>2
  <2>6. CountersOK'
    BY <2>1, <2>2, <2>5, IncrementedType DEF CountersOK
  <2>7. Quota'
    <3>1. c \notin Pending(k) /\ \A j : j # k => Pending(j)' = Pending(j)
      BY <1>2, <2>0, <2>4 DEF Increment, Pending, InPhase, Counting
    <3>2. /\ \A j \in Counters : j # k => Stored(j)' = Stored(j)
          /\ Stored(k).n \in Nat /\ Stored(k)'.n = Stored(k).n + 1
      BY <2>1, <2>2, IncrementedOnce, StoredType
    <3>3. /\ granted \in [Counters -> Nat] /\ granted' = granted /\ minute' = minute
          /\ RequestsPerMinute \in Nat /\ minute \in Int /\ k[2] = request[c].minute
          /\ IsFiniteSet(Pending(k)) /\ Cardinality(Pending(k)) \in Nat
      BY <2>0, <2>2, AccountsAssumption, PendingIsFinite DEF Quota, CountersOK, Counting
    <3>4. request'[c].count = Stored(k).n + 1 /\ request'[c].punctual = (minute = k[2])
      BY <2>1, <2>2, <2>3, <3>3 DEF RequestsOK, Limited
    <3>5. CASE minute = k[2] /\ Stored(k).n + 1 <= RequestsPerMinute
      <4>1. Pending(k)' \subseteq Pending(k) \cup {c} /\ Pending(k) \cup {c} \subseteq Pending(k)'
        BY <2>0, <2>4, <3>4, <3>5 DEF Pending, InPhase, Counting
      <4>2. Pending(k)' = Pending(k) \cup {c}
        BY <4>1
      <4>3. Cardinality(Pending(k)') = Cardinality(Pending(k)) + 1
        BY <3>1, <3>3, <4>2, FS_AddElement
      <4>4. granted[k] + Cardinality(Pending(k)) <= Stored(k).n
        BY <2>1, <3>3, <3>5 DEF Quota
      <4>5. granted[k] \in Nat
        BY <2>1, <3>3
      <4>6. /\ granted[k] + Cardinality(Pending(k)') <= RequestsPerMinute
            /\ granted[k] + Cardinality(Pending(k)') <= Stored(k)'.n
        BY <3>2, <3>3, <3>5, <4>3, <4>4, <4>5
      <4>7. QED
        BY <3>1, <3>2, <3>3, <4>6 DEF Quota
    <3>6. CASE ~(minute = k[2] /\ Stored(k).n + 1 <= RequestsPerMinute)
      <4>1. \A j : Pending(j)' \subseteq Pending(j)
        <5>1. c \notin Pending(k)'
          BY <3>4, <3>6 DEF Pending
        <5>2. Pending(k)' \subseteq Pending(k)
          BY <2>4, <5>1 DEF Pending, InPhase, Counting
        <5>3. QED
          BY <3>1, <5>2
      <4>2. \A j \in Counters : Stored(j).n <= Stored(j)'.n
        <5>1. \A j \in Counters : Stored(j).n \in Nat
          BY StoredType
        <5>2. QED
          BY <3>2, <5>1
      <4>3. QED
        BY <2>6, <3>3, <4>1, <4>2, QuotaStays
    <3>7. QED
      BY <3>5, <3>6
  <2>8. QED
    BY <2>2, <2>4, <2>6, <2>7 DEF RequestsOK
<1>3. ASSUME NEW c \in Callers, ExpireAt(c) PROVE LimiterOK'
  <2>0. PICK k : k = Counting(c)
    OBVIOUS
  <2>1. request[c] \in Limited
    BY <1>3, Carried DEF ExpireAt, InPhase
  <2>2. /\ request' = [request EXCEPT ![c] = IF request[c].count <= RequestsPerMinute
                                            THEN [request[c] EXCEPT !.phase = "admitted"]
                                            ELSE NoRequest]
        /\ counters' = Date(k) /\ UNCHANGED <<minute, requests, failed>>
    BY <1>3, <2>0 DEF ExpireAt
  <2>3. [request[c] EXCEPT !.phase = "admitted"] \in Requests /\ NoRequest \in Requests
    BY <2>1 DEF Limited, Requests
  <2>4. RequestsOK' /\ \A d \in Callers : d # c => request'[d] = request[d]
    BY <2>2, <2>3 DEF RequestsOK
  <2>5. ASSUME ~failed', NEW j \in DOMAIN counters', ~counters'[j].dated \/ Expired(j)'
        PROVE  \E d \in Callers : InPhase(d, "dating")' /\ Counting(d)' = j
    <3>1. j # k /\ j \in DOMAIN counters /\ counters'[j] = counters[j]
      BY <2>2, <2>5, DateType DEF Expired
    <3>2. PICK d \in Callers : InPhase(d, "dating") /\ Counting(d) = j
      BY <2>2, <2>5, <3>1 DEF CountersOK, Expired
    <3>3. QED
      BY <2>0, <2>4, <3>1, <3>2 DEF InPhase, Counting
  <2>6. CountersOK'
    BY <2>2, <2>5, DateType DEF CountersOK
  <2>7. Quota'
    <3> DEFINE admitted == request[c].count <= RequestsPerMinute
    <3>1. /\ k \in Counters /\ InPhase(c, "dating") /\ granted \in [Counters -> Nat]
          /\ RequestsPerMinute \in Nat /\ minute \in Int /\ \A j \in Counters : j[2] \in Int
      BY <1>3, <2>0, CountedIn, AccountsAssumption DEF ExpireAt, InPhase, Quota, CountersOK, Counters
    <3>2. \A j \in Counters : j[2] >= minute => Stored(j)'.n = Stored(j).n
      <4>1. \A j \in Counters : j[2] >= minute => ~Expired(j)
        BY <3>1 DEF Expired
      <4>2. \A j \in Counters : j[2] >= minute =>
              /\ j \in DOMAIN Date(k) <=> j \in DOMAIN counters
              /\ j \in DOMAIN counters => Date(k)[j].n = counters[j].n
        BY <4>1, DateType
      <4>3. QED
        BY <2>2, <4>2 DEF Stored
    <3>3. request'[c].phase # "dating"
      BY <2>1, <2>2 DEF RequestsOK, Limited, NoRequest
    <3>4. Pending(k)' = Pending(k) \ {c} /\ \A j : j # k => Pending(j)' = Pending(j)
      BY <2>0, <2>4, <3>3 DEF Pending, InPhase, Counting
    <3>5. CASE admitted /\ request[c].punctual
      <4>1. granted' = [granted EXCEPT ![k] = @ + 1]
        BY <1>3, <2>0, <3>5 DEF ExpireAt
      <4>2. c \in Pending(k)
        BY <2>0, <3>1, <3>5 DEF Pending
      <4>3. Cardinality(Pending(k)') = Cardinality(Pending(k)) - 1 /\ Cardinality(Pending(k)) \in Nat
        BY <3>4, <4>2, PendingIsFinite, FS_RemoveElement
      <4>4. granted'[k] + Cardinality(Pending(k)') = granted[k] + Cardinality(Pending(k))
        BY <3>1, <4>1, <4>3
      <4>5. granted' \in [Counters -> Nat] /\ \A j \in Counters : j # k => granted'[j] = granted[j]
        BY <3>1, <4>1
      <4>6. ASSUME NEW j \in Counters
            PROVE  granted'[j] + Cardinality(Pending(j)') = granted[j] + Cardinality(Pending(j))
        BY <3>4, <4>4, <4>5
      <4>7. QED
        BY <2>2, <3>2, <4>5, <4>6 DEF Quota
    <3>6. CASE ~(admitted /\ request[c].punctual)
      <4>1. granted' = granted
        BY <1>3, <2>0, <3>1, <3>6 DEF ExpireAt
      <4>2. \A j : Pending(j)' \subseteq Pending(j)
        BY <3>4
      <4>3. \A j \in Counters : j[2] >= minute => Stored(j).n <= Stored(j)'.n
        <5>1. \A j \in Counters : Stored(j).n \in Nat
          BY StoredType
        <5>2. QED
          BY <3>2, <5>1
      <4>4. QED
        BY <2>2, <2>6, <4>1, <4>2, <4>3, QuotaStays
    <3>7. QED
      BY <3>5, <3>6
  <2>8. QED
    BY <2>4, <2>6, <2>7
<1>4. ASSUME NEW c \in Callers, FailOpen(c) PROVE LimiterOK'
  <2>1. request[c] \in Limited /\ Counting(c) \in Counters
    BY <1>4, Carried, CountedIn DEF FailOpen, InPhase
  <2>2. [request[c] EXCEPT !.phase = "admitted"] \in Requests
    BY <2>1 DEF Limited, Requests
  <2>3. RequestsOK'
    BY <1>4, <2>2 DEF FailOpen, RequestsOK
  <2>4. counters' \in {counters, Incremented(Counting(c)), Date(Counting(c))}
        /\ failed' = TRUE /\ minute' = minute
    BY <1>4 DEF FailOpen
  <2>5. CountersOK'
    BY <2>1, <2>4, IncrementedType, DateType DEF CountersOK
  <2>6. /\ \A d \in Callers : d # c => request'[d] = request[d]
        /\ request'[c].phase = "admitted" /\ granted' = granted
    BY <1>4, <2>1 DEF FailOpen, RequestsOK, Limited
  <2>7. \A k : Pending(k)' \subseteq Pending(k)
    BY <2>6 DEF Pending, InPhase, Counting
  <2>8. \A k \in Counters : k[2] >= minute => Stored(k).n <= Stored(k)'.n
    <3>1. \A k \in Counters : Stored(k).n \in Nat /\ k[2] \in Int /\ minute \in Int
      BY StoredType, AccountsAssumption DEF CountersOK, Counters
    <3>2. CASE counters' = counters
      BY <3>1, <3>2 DEF Stored
    <3>3. CASE counters' = Incremented(Counting(c))
      <4>1. \A k \in Counters :
              IF k = Counting(c) THEN Stored(k)'.n = Stored(k).n + 1 ELSE Stored(k)' = Stored(k)
        BY <2>1, <3>3, IncrementedOnce
      <4>2. QED
        BY <3>1, <4>1
    <3>4. CASE counters' = Date(Counting(c))
      <4>1. \A k \in Counters : k[2] >= minute =>
              /\ k \in DOMAIN counters' <=> k \in DOMAIN counters
              /\ k \in DOMAIN counters => counters'[k].n = counters[k].n
        BY <3>1, <3>4, DateType DEF Expired
      <4>2. QED
        BY <3>1, <4>1 DEF Stored
    <3>5. QED
      BY <2>4, <3>2, <3>3, <3>4
  <2>9. QED
    BY <2>3, <2>4, <2>5, <2>6, <2>7, <2>8, QuotaStays
<1>5. QED
  BY <1>1, <1>2, <1>3, <1>4 DEF Limiter

LEMMA LoseStep ==
  ASSUME LimiterOK, NEW S \in SUBSET Callers, Lose(S)
  PROVE  LimiterOK'
<1> USE DEF LimiterOK
<1>1. RequestsOK'
  BY DEF Lose, RequestsOK, Requests
<1>2. ASSUME ~failed', NEW k \in DOMAIN counters', ~counters'[k].dated \/ Expired(k)'
      PROVE  \E c \in Callers : InPhase(c, "dating")' /\ Counting(c)' = k
  <2>1. PICK c \in Callers : InPhase(c, "dating") /\ Counting(c) = k
    BY <1>2 DEF Lose, CountersOK, Expired
  <2>2. c \notin S
    BY <1>2, <2>1 DEF Lose
  <2>3. QED
    BY <2>1, <2>2 DEF Lose, InPhase, Counting
<1>3. CountersOK'
  BY <1>2 DEF Lose, CountersOK
<1>4. \A k : Pending(k)' \subseteq Pending(k)
  BY DEF Lose, NoRequest, Pending, InPhase, Counting
<1>5. \A k \in Counters : k[2] >= minute => Stored(k).n <= Stored(k)'.n
  BY StoredType DEF Lose, Stored
<1>6. QED
  BY <1>1, <1>3, <1>4, <1>5, QuotaStays DEF Lose

-----------------------------------------------------------------------------
(* The steps of replicas and requests.                                     *)

LEMMA InitInv == Init => IInv
<1>1. SUFFICES ASSUME Init PROVE IInv
  OBVIOUS
<1>2. UsersOK
  BY <1>1, AccountsAssumption DEF Init, UsersOK, Row
<1>3. LinksOK /\ ToldOK /\ ToldLinked /\ RegisteredLogsIn
  BY <1>1 DEF Init, LinksOK, ToldOK, ToldLinked, RegisteredLogsIn
<1>4. TokensOK
  BY <1>1, <1>2 DEF Init, UsersOK, Row, TokensOK, Tokens
<1>5. ReplicasOK
  <2>1. tenant \in BOOLEAN
    BY <1>1 DEF Init
  <2>2. restarts \in 0..MaxRestarts
    BY <1>1, AccountsAssumption DEF Init
  <2>3. QED
    BY <1>1, <2>1, <2>2 DEF Init, ReplicasOK
<1>6. RequestsOK
  BY <1>1, AccountsAssumption DEF Init, LimiterInit, RequestsOK, Requests
<1>7. CountersOK
  <2>1. DOMAIN counters = {} /\ minute = 0
    BY <1>1 DEF Init, LimiterInit
  <2>2. failed \in BOOLEAN
    BY <1>1 DEF Init, LimiterInit
  <2>3. minute \in 0..MaxMinute /\ DOMAIN counters \subseteq Counters
    BY <2>1, AccountsAssumption
  <2>4. QED
    BY <2>1, <2>2, <2>3 DEF CountersOK
<1>8. Quota
  <2>1. \A k \in Counters : granted[k] = 0 /\ Pending(k) = {} /\ Stored(k).n = 0
    BY <1>1 DEF Init, LimiterInit, Pending, InPhase, NoRequest, Stored
  <2>2. granted \in [Counters -> Nat]
    BY <1>1 DEF Init, LimiterInit
  <2>3. ASSUME NEW k \in Counters
        PROVE  /\ granted[k] + Cardinality(Pending(k)) <= RequestsPerMinute
               /\ k[2] >= minute => granted[k] + Cardinality(Pending(k)) <= Stored(k).n
    <3>1. Cardinality(Pending(k)) = 0
      BY <2>1, FS_EmptySet
    <3>2. QED
      BY <2>1, <3>1, AccountsAssumption
  <2>4. QED
    BY <2>2, <2>3 DEF Quota
<1>9. QED
  BY <1>2, <1>3, <1>4, <1>5, <1>6, <1>7, <1>8 DEF IInv, TablesOK, RestOK, LimiterOK

LEMMA BootTypeOK ==
  ASSUME ReplicasOK, NEW r \in Replicas,
         NEW new \in {"start", "newTenant", "admin", "newAdmin", "reload", "ready", "refused"},
         Boot(r, new)
  PROVE  replica' \in [Replicas -> {"start", "newTenant", "admin", "newAdmin", "reload", "ready",
                                    "refused"}]
BY DEF Boot, ReplicasOK

LEMMA LimiterStays ==
  ASSUME LimiterOK, UNCHANGED limiterVars
  PROVE  LimiterOK'
<1>1. RequestsOK' /\ CountersOK'
  BY DEF LimiterOK, limiterVars, RequestsOK, CountersOK, Expired, InPhase, Counting
<1>2. \A k : Pending(k)' = Pending(k) /\ Stored(k)' = Stored(k)
  BY DEF limiterVars, Pending, InPhase, Counting, Stored
<1>3. Quota'
  BY <1>2 DEF LimiterOK, limiterVars, Quota
<1>4. QED
  BY <1>1, <1>3 DEF LimiterOK

LEMMA BootstrapStep ==
  ASSUME IInv, NEW r \in Replicas, Bootstrap(r)
  PROVE  IInv'
<1> USE DEF IInv, RestOK
<1>0. AdminEmail \in Emails /\ "admin" \in Roles
  BY AccountsAssumption DEF Roles
<1>1. CASE LookUpTenant(r) \/ LookUpAdmin(r) \/ ReloadAdmin(r)
  <2>1. PICK new \in {"start", "newTenant", "admin", "newAdmin", "reload", "ready", "refused"} :
          Boot(r, new)
    BY <1>1 DEF LookUpTenant, LookUpAdmin, ReloadAdmin, Reloaded, ByRole
  <2>2. UNCHANGED <<limiterVars, rows, tokens, restarts, told>>
    BY <1>1 DEF LookUpTenant, LookUpAdmin, ReloadAdmin
  <2>3. ReplicasOK'
    BY <2>1, <2>2, BootTypeOK DEF ReplicasOK, rows
  <2>4. TablesOK' /\ TokensOK'
    BY <2>2, NoRowStep DEF rows, TokensOK
  <2>5. QED
    BY <2>2, <2>3, <2>4, LimiterStays
<1>2. CASE CreateTenant(r)
  <2>1. ReplicasOK'
    BY <1>2, BootTypeOK DEF CreateTenant, ReplicasOK
  <2>2. TablesOK' /\ TokensOK'
    BY <1>2, NoRowStep DEF CreateTenant, TokensOK
  <2>3. QED
    BY <1>2, <2>1, <2>2, LimiterStays DEF CreateTenant
<1>3. CASE CreateAdmin(r)
  <2>1. replica' \in [Replicas -> {"start", "newTenant", "admin", "newAdmin", "reload", "ready",
                                   "refused"}]
    BY <1>3, BootTypeOK DEF CreateAdmin
  <2>2. ReplicasOK' /\ TokensOK'
    BY <1>3, <2>1 DEF CreateAdmin, ReplicasOK, TokensOK
  <2>3. TablesOK'
    <3>1. CASE ByEmail(AdminEmail) = {}
      <4>1. PICK u \in Fresh : Insert(u, AdminEmail, "admin")
        BY <1>3, <3>1 DEF CreateAdmin
      <4>2. QED
        BY <1>0, <1>3, <3>1, <4>1, InsertKeepsTold DEF CreateAdmin
    <3>2. CASE ByEmail(AdminEmail) # {}
      BY <1>3, <3>2, NoRowStep DEF CreateAdmin
    <3>3. QED
      BY <3>1, <3>2
  <2>4. QED
    BY <1>3, <2>2, <2>3, LimiterStays DEF CreateAdmin
<1>4. CASE Restart(r)
  <2>1. LimiterOK'
    BY <1>4, LoseStep DEF Restart
  <2>2. ReplicasOK'
    BY <1>4, BootTypeOK, AccountsAssumption DEF Restart, ReplicasOK, rows
  <2>3. TablesOK' /\ TokensOK'
    BY <1>4, NoRowStep DEF Restart, rows, TokensOK
  <2>4. QED
    BY <2>1, <2>2, <2>3
<1>5. QED
  BY <1>1, <1>2, <1>3, <1>4 DEF Bootstrap

(* A token names a user and a role, whoever they are by now.               *)
LEMMA TokenType ==
  ASSUME TokensOK, NEW c \in Callers, Authenticated(c)
  PROVE  Token(c) \in Credentials /\ Token(c).user \in Users /\ ~InPhase(c, "dating")
BY DEF TokensOK, Tokens, Authenticated, Admitted, InPhase, Credentials

(* What a handler leaves its write, if it carries what it may.             *)
LEMMA ThenStep ==
  ASSUME LimiterOK, NEW c \in Callers, ~InPhase(c, "dating"),
         NEW phase, NEW user, NEW arg, Then(c, phase, user, arg),
         request[c].credential \in Credentials,
         \/ phase = "creating" /\ user = None /\ arg \in Emails
         \/ phase = "saving" /\ user \in Users /\ arg \in Row
         \/ phase \in {"linking", "looking"} /\ user \in Users /\ arg \in Identities
  PROVE  LimiterOK'
<1> DEFINE new == [phase |-> phase, credential |-> request[c].credential, user |-> user, arg |-> arg]
<1>1. new \in Requests
  BY DEF Requests, Creating, Saving, Linking
<1>2. QED
  BY <1>1, ContinueStep DEF Then, LimiterOK

(* A link that is found: one's own is reported as done.                    *)
LEMMA FoundStep ==
  ASSUME IInv, NEW c \in Callers, NEW x, Linked(x), Found(c, x), ~InPhase(c, "dating"),
         UNCHANGED <<rows, tokens, replica, restarts>>
  PROVE  IInv'
<1>1. LimiterOK'
  BY FinishStep DEF IInv, RestOK, Found
<1>2. TablesOK'
  BY NoRowStep DEF IInv, Found, Linked, rows
<1>3. TokensOK' /\ ReplicasOK'
  BY DEF IInv, RestOK, TokensOK, ReplicasOK, rows
<1>4. QED
  BY <1>1, <1>2, <1>3 DEF IInv, RestOK

LEMMA HandlerStep ==
  ASSUME IInv, NEW c \in Callers, Handler(c)
  PROVE  IInv'
<1> USE DEF IInv, RestOK, LimiterOK
<1>0. Admitted(c) => ~InPhase(c, "dating") /\ request[c].credential \in Credentials
  BY Carried DEF Admitted, InPhase, Limited
<1>1. ASSUME UNCHANGED <<rows, tokens, replica, restarts, told>>
      PROVE  TablesOK' /\ TokensOK' /\ ReplicasOK'
  BY <1>1, NoRowStep DEF rows, TokensOK, ReplicasOK
<1>2. ASSUME UNCHANGED <<tenant, tokens, replica, restarts>> PROVE TokensOK' /\ ReplicasOK'
  BY <1>2 DEF TokensOK, ReplicasOK
<1>3. CASE Register(c)
  BY <1>0, <1>1, <1>3, ThenStep, FinishStep DEF Register
<1>4. CASE CreateUser(c)
  <2> DEFINE e == request[c].arg
  <2>1. e \in Emails /\ Fold(e) \in Emails /\ "member" \in Roles
    BY <1>4, Carried, AccountsAssumption DEF CreateUser, InPhase, Creating, Roles
  <2>2. LimiterOK'
    BY <1>4, FinishStep DEF CreateUser, InPhase
  <2>3. TablesOK'
    <3>1. CASE ByEmail(Fold(e)) = {}
      <4>1. PICK u \in Fresh : Insert(u, Fold(e), "member") /\ Answer(<<"registered", u, e>>)
        BY <1>4, <3>1 DEF CreateUser
      <4>2. QED
        BY <1>4, <2>1, <3>1, <4>1, InsertKeepsTold DEF CreateUser, Answer
    <3>2. CASE ByEmail(Fold(e)) # {}
      BY <1>4, <3>2, NoRowStep DEF CreateUser
    <3>3. QED
      BY <3>1, <3>2
  <2>4. QED
    BY <1>2, <1>4, <2>2, <2>3 DEF CreateUser
<1>5. CASE Login(c)
  <2>1. TablesOK' /\ ReplicasOK'
    BY <1>5, NoRowStep DEF Login, rows, ReplicasOK
  <2>2. TokensOK'
    BY <1>5 DEF Login, TokensOK, Tokens, ByEmail, TablesOK, UsersOK, Row
  <2>3. QED
    BY <1>0, <1>5, <2>1, <2>2, FinishStep DEF Login
<1>6. CASE EditUser(c)
  <2>1. PICK u \in DOMAIN users, e \in Emails, role \in Roles :
          Then(c, "saving", u, [email |-> e, role |-> role])
    BY <1>6 DEF EditUser
  <2>2. u \in Users /\ [email |-> e, role |-> role] \in Row
    BY DEF TablesOK, UsersOK, Row
  <2>3. Admitted(c) /\ UNCHANGED <<rows, tokens, replica, restarts, told>>
    BY <1>6 DEF EditUser, Authenticated
  <2>4. LimiterOK'
    BY <1>0, <2>1, <2>2, <2>3, ThenStep
  <2>5. QED
    BY <1>1, <2>3, <2>4
<1>7. CASE SaveUser(c)
  <2>1. request[c].user \in Users /\ request[c].arg \in Row /\ ~InPhase(c, "dating")
    BY <1>7, Carried DEF SaveUser, InPhase, Saving
  <2>2. TablesOK'
    <3>1. CASE Updatable(request[c].user, request[c].arg)
      BY <1>7, <2>1, <3>1, UpdateStep DEF SaveUser
    <3>2. CASE ~Updatable(request[c].user, request[c].arg)
      BY <1>7, <3>2, NoRowStep DEF SaveUser
    <3>3. QED
      BY <3>1, <3>2
  <2>3. QED
    BY <1>2, <1>7, <2>1, <2>2, FinishStep DEF SaveUser
<1>8. CASE DeleteUser(c)
  <2>1. TablesOK'
    BY <1>8, DeleteStep DEF DeleteUser
  <2>2. LimiterOK'
    BY <1>0, <1>8, FinishStep DEF DeleteUser, Authenticated
  <2>3. QED
    BY <1>2, <1>8, <2>1, <2>2 DEF DeleteUser
<1>9. CASE CompleteLink(c)
  <2>1. PICK x \in Identities :
          /\ IF Linked(x) THEN Found(c, x)
             ELSE Then(c, "linking", Token(c).user, x) /\ UNCHANGED told
          /\ UNCHANGED <<rows, tokens, replica, restarts>>
    BY <1>9 DEF CompleteLink
  <2>2. Admitted(c) /\ Token(c).user \in Users
    BY <1>9, TokenType DEF CompleteLink, Authenticated
  <2>3. CASE Linked(x)
    BY <1>0, <2>1, <2>2, <2>3, FoundStep
  <2>4. CASE ~Linked(x)
    <3>1. LimiterOK'
      BY <1>0, <2>1, <2>2, <2>4, ThenStep
    <3>2. QED
      BY <1>1, <2>1, <2>4, <3>1
  <2>5. QED
    BY <2>3, <2>4
<1>10. CASE CreateLink(c)
  <2> DEFINE x == request[c].arg
             u == request[c].user
  <2>1. x \in Identities /\ u \in Users /\ request[c].credential \in Credentials
        /\ ~InPhase(c, "dating")
    BY <1>10, Carried DEF CreateLink, InPhase, Linking
  <2>2. CASE ~Linked(x) /\ u \in DOMAIN users
    <3>1. TablesOK'
      BY <1>10, <2>1, <2>2, LinkStep DEF CreateLink, Answer
    <3>2. LimiterOK'
      BY <1>10, <2>1, <2>2, FinishStep DEF CreateLink
    <3>3. QED
      BY <1>2, <1>10, <3>1, <3>2 DEF CreateLink
  <2>3. CASE ~(~Linked(x) /\ u \in DOMAIN users)
    <3>1. TablesOK'
      BY <1>10, <2>3, NoRowStep DEF CreateLink
    <3>2. LimiterOK'
      BY <1>10, <2>1, <2>3, ThenStep DEF CreateLink
    <3>3. QED
      BY <1>2, <1>10, <3>1, <3>2 DEF CreateLink
  <2>4. QED
    BY <2>2, <2>3
<1>11. CASE LookAgain(c)
  <2>1. ~InPhase(c, "dating")
    BY <1>11 DEF LookAgain, InPhase
  <2>2. CASE Linked(request[c].arg)
    BY <1>11, <2>1, <2>2, FoundStep DEF LookAgain
  <2>3. CASE ~Linked(request[c].arg)
    BY <1>1, <1>11, <2>1, <2>3, FinishStep DEF LookAgain
  <2>4. QED
    BY <2>2, <2>3
<1>12. CASE DeleteLink(c)
  <2>1. TablesOK'
    BY <1>12, UnlinkStep DEF DeleteLink
  <2>2. LimiterOK'
    BY <1>0, <1>12, FinishStep DEF DeleteLink, Authenticated
  <2>3. QED
    BY <1>2, <1>12, <2>1, <2>2 DEF DeleteLink
<1>13. CASE RefreshToken(c)
  <2>1. TablesOK' /\ ReplicasOK'
    BY <1>13, NoRowStep DEF RefreshToken, rows, ReplicasOK
  <2>2. TokensOK'
    BY <1>13 DEF RefreshToken, TokensOK, Tokens, Issued
  <2>3. QED
    BY <1>0, <1>13, <2>1, <2>2, FinishStep DEF RefreshToken
<1>14. CASE OtherRequest(c)
  BY <1>0, <1>1, <1>14, FinishStep DEF OtherRequest
<1>15. QED
  BY <1>3, <1>4, <1>5, <1>6, <1>7, <1>8, <1>9, <1>10, <1>11, <1>12, <1>13, <1>14 DEF Handler

LEMMA StepInv == IInv /\ [Next]_vars => IInv'
<1>1. SUFFICES ASSUME IInv, [Next]_vars PROVE IInv'
  OBVIOUS
<1>2. ASSUME UNCHANGED <<rows, replica, restarts, told>>
      PROVE  TablesOK' /\ ReplicasOK'
  BY <1>1, <1>2, NoRowStep DEF IInv, RestOK, rows, ReplicasOK
<1>3. ASSUME NEW c \in Callers, Receive(c) PROVE IInv'
  <2>1. PICK t \in tokens \cup {None} : Arrive(c, t)
    BY <1>3 DEF Receive
  <2>2. LimiterOK'
    BY <1>1, <2>1, ArriveStep DEF IInv, RestOK, TokensOK, Credentials
  <2>3. QED
    BY <1>1, <1>2, <1>3, <2>2 DEF Receive, IInv, RestOK, TokensOK
<1>4. CASE Middleware
  BY <1>1, <1>2, <1>4, LimiterStep DEF Middleware, IInv, RestOK, TokensOK
<1>5. CASE Expire
  BY <1>1, <1>2, <1>5, LimiterStays DEF Expire, IInv, RestOK, TokensOK
<1>6. CASE UNCHANGED vars
  BY <1>1, <1>2, <1>6, LimiterStays DEF vars, rows, IInv, RestOK, TokensOK
<1>7. QED
  BY <1>1, <1>3, <1>4, <1>5, <1>6, BootstrapStep, HandlerStep DEF Next

LEMMA Inductive == Spec => []IInv
BY InitInv, StepInv, PTL DEF Spec

-----------------------------------------------------------------------------
(* Users, links, tokens and requests have their types, no two users share  *)
(* an address and no link outlives its user.                               *)
THEOREM TypeCorrect == Spec => []TypeOK
<1>1. IInv => TypeOK
  <2>1. SUFFICES ASSUME IInv PROVE TypeOK
    OBVIOUS
  <2>2. \A u \in DOMAIN users : ByEmail(users[u].email) = {u}
    BY <2>1 DEF IInv, TablesOK, UsersOK, ByEmail
  <2>3. \A c \in Callers : request[c].phase \in Phases
    <3>1. \A c \in Callers : request[c] \in Requests
      BY <2>1 DEF IInv, RestOK, LimiterOK, RequestsOK
    <3>2. QED
      BY <3>1 DEF Requests, NoRequest, Limited, Creating, Saving, Linking, Phases
  <2>4. QED
    BY <2>1, <2>2, <2>3
       DEF IInv, TablesOK, RestOK, LimiterOK, UsersOK, LinksOK, TokensOK, RequestsOK, ReplicasOK, TypeOK, Row
<1>2. QED
  BY <1>1, Inductive, PTL

(* handleLinkComplete: who is told that an identity is linked owns it.     *)
THEOREM LinkedToTheTold == Spec => []ToldLinked
<1>1. IInv => ToldLinked
  BY DEF IInv, TablesOK
<1>2. QED
  BY <1>1, Inductive, PTL

(* Service.Register and Login: an address can log in as it was typed.      *)
THEOREM RegistrationsStand == Spec => []RegisteredLogsIn
<1>1. IInv => RegisteredLogsIn
  BY DEF IInv, TablesOK
<1>2. QED
  BY <1>1, Inductive, PTL

(* RateLimit: every counter that outlives its minute is about to go.       *)
THEOREM CountersGo == Spec => []CountersExpire
<1>1. IInv => CountersExpire
  BY DEF IInv, RestOK, LimiterOK, CountersOK, CountersExpire
<1>2. QED
  BY <1>1, Inductive, PTL

(* RateLimit: at most the limit of the requests that are counted in their  *)
(* minute is admitted, however the requests' calls to Redis and the clock  *)
(* interleave.                                                             *)
THEOREM LimitIsKept == Spec => []LimitHolds
<1>1. IInv => LimitHolds
  <2>1. SUFFICES ASSUME IInv, NEW k \in Counters PROVE granted[k] <= RequestsPerMinute
    BY DEF LimitHolds
  <2>2. /\ granted[k] \in Nat /\ RequestsPerMinute \in Nat
        /\ granted[k] + Cardinality(Pending(k)) <= RequestsPerMinute
    BY <2>1, AccountsAssumption DEF IInv, RestOK, LimiterOK, Quota
  <2>3. Cardinality(Pending(k)) \in Nat
    BY PendingIsFinite
  <2>4. QED
    BY <2>2, <2>3
<1>2. QED
  BY <1>1, Inductive, PTL

(* bootstrap.Run: a replica comes up only over an admin.                   *)
LEMMA ComesUpOverAdmin ==
  ASSUME IInv, [Next]_vars, NEW r \in Replicas, replica[r] # "ready", replica'[r] = "ready"
  PROVE  \E u \in DOMAIN users' : users'[u] = [email |-> AdminEmail, role |-> "admin"]
<1>1. PICK s \in Replicas : Bootstrap(s)
  BY DEF Next, vars, Receive, Handler, Register, CreateUser, Login, EditUser, SaveUser, DeleteUser,
         CompleteLink, CreateLink, LookAgain, DeleteLink, RefreshToken, OtherRequest, Middleware,
         Expire
<1>2. \A new : Boot(s, new) => s = r /\ new = "ready"
  BY DEF Boot, IInv, RestOK, ReplicasOK
<1>3. ASSUME ByRole(AdminEmail) = "ready", ByEmail(AdminEmail) # {}, users' = users
      PROVE  \E u \in DOMAIN users' : users'[u] = [email |-> AdminEmail, role |-> "admin"]
  <2>1. PICK u \in DOMAIN users : users[u].email = AdminEmail /\ users[u].role = "admin"
    BY <1>3 DEF ByRole, ByEmail
  <2>2. users[u] = [email |-> AdminEmail, role |-> "admin"]
    BY <2>1 DEF IInv, TablesOK, UsersOK, Row
  <2>3. QED
    BY <1>3, <2>2
<1>4. ~LookUpTenant(s) /\ ~CreateTenant(s) /\ ~Restart(s)
  BY <1>2 DEF LookUpTenant, CreateTenant, Restart
<1>5. CASE LookUpAdmin(s)
  BY <1>2, <1>3, <1>5 DEF LookUpAdmin, rows
<1>6. CASE CreateAdmin(s)
  <2>1. PICK u \in Fresh : Insert(u, AdminEmail, "admin")
    BY <1>2, <1>6 DEF CreateAdmin
  <2>2. QED
    BY <2>1 DEF Insert, With
<1>7. CASE ReloadAdmin(s)
  BY <1>2, <1>3, <1>7 DEF ReloadAdmin, Reloaded, rows
<1>8. QED
  BY <1>1, <1>4, <1>5, <1>6, <1>7 DEF Bootstrap

(* Two replicas that start together against one database, in any order of  *)
(* their statements and of the requests either serves.                     *)
THEOREM AdminBeforeService == Spec => ReadyHasAdmin
<1>1. IInv /\ [Next]_vars =>
        [\A r \in Replicas :
           replica[r] # "ready" /\ replica'[r] = "ready" =>
             \E u \in DOMAIN users' : users'[u] = [email |-> AdminEmail, role |-> "admin"]]_vars
  BY ComesUpOverAdmin
<1>2. QED
  BY <1>1, Inductive, PTL DEF Spec, ReadyHasAdmin
=============================================================================
