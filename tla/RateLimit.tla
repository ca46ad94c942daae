----------------------------- MODULE RateLimit -----------------------------
(***************************************************************************)
(* The middleware that every HTTP request passes first                     *)
(* (internal/server/middleware/ratelimit.go).  A request reads the clock,  *)
(* which gives the minute it is counted in, increments that minute's       *)
(* counter in Redis and sets the counter to expire when the minute ends.   *)
(* The three steps of different requests, and the minute passing, come in  *)
(* any order; when a call to Redis fails the request is let through.       *)
(* Who composes the module ends a request by Finish.                       *)
(***************************************************************************)
EXTENDS Naturals, FiniteSets

CONSTANTS
  Callers,            \* goroutines that serve requests
  Users,              \* who requests may come from
  None,               \* no credentials
  RequestsPerMinute,  \* the limit
  MaxRequests, MaxMinute  \* bounds: requests in a behaviour, minutes it lasts

VARIABLES
  minute,    \* the clock, which the servers and Redis share
  counters,  \* Redis: <<key, minute>> -> [n, dated], dated when it will expire
  request,   \* per caller, the request it serves
  requests,  \* requests so far
  granted,   \* history: per counter, requests it admitted in its minute
  failed     \* history: a call to Redis has failed

limiterVars == <<minute, counters, request, requests, granted, failed>>

NoRequest == [phase |-> "idle"]

(* The identity of a request that authenticates, or else its address, of   *)
(* which there is one.                                                     *)
KeyOf(credential) == IF credential = None THEN None ELSE credential.user
Keys == Users \cup {None}
Counters == Keys \X (0..MaxMinute)

LimiterInit ==
  /\ minute = 0 /\ counters = <<>> /\ requests = 0
  /\ request = [c \in Callers |-> NoRequest]
  /\ granted = [k \in Counters |-> 0] /\ failed = FALSE

Counting(c) == <<request[c].key, request[c].minute>>
InPhase(c, phase) == request[c].phase = phase

(* The request's key and window are fixed before it is counted.            *)
Arrive(c, credential) ==
  /\ InPhase(c, "idle") /\ requests < MaxRequests
  /\ requests' = requests + 1
  /\ request' = [request EXCEPT ![c] =
       [phase |-> "counting", credential |-> credential, key |-> KeyOf(credential),
        minute |-> minute, count |-> 0, punctual |-> TRUE]]
  /\ UNCHANGED <<minute, counters, granted, failed>>

(* INCR creates a counter that is not there.                               *)
Stored(k) == IF k \in DOMAIN counters THEN counters[k] ELSE [n |-> 0, dated |-> FALSE]
Incremented(k) == [j \in DOMAIN counters \cup {k} |->
                     IF j = k THEN [Stored(k) EXCEPT !.n = @ + 1] ELSE counters[j]]
Increment(c) ==
  /\ InPhase(c, "counting")
  /\ counters' = Incremented(Counting(c))
  /\ request' = [request EXCEPT ![c].phase = "dating", ![c].count = Stored(Counting(c)).n + 1,
                                ![c].punctual = (minute = request[c].minute)]
  /\ UNCHANGED <<minute, requests, granted, failed>>

Expired(k) == k[2] < minute
Remaining(S) == [k \in S |-> counters[k]]

DateFirst(k) ==  \* mutant: only a counter that counts one request is dated
  IF k \in DOMAIN counters /\ counters[k].n = 1
  THEN IF Expired(k) THEN Remaining(DOMAIN counters \ {k}) ELSE [counters EXCEPT ![k].dated = TRUE]
  ELSE counters
DateStart(k) ==  \* mutant: the counter expires when its minute begins
  IF k \in DOMAIN counters THEN Remaining(DOMAIN counters \ {k}) ELSE counters

(* What EXPIREAT makes of the counter: in the past, it deletes it.         *)
Date(k) ==
  IF k \notin DOMAIN counters THEN counters
  ELSE IF Expired(k) THEN Remaining(DOMAIN counters \ {k})
  ELSE [counters EXCEPT ![k].dated = TRUE]
ExpireAt(c) ==
  /\ InPhase(c, "dating")
  /\ counters' = Date(Counting(c))
  /\ LET admitted == request[c].count <= RequestsPerMinute IN
     /\ request' = [request EXCEPT ![c] = IF admitted THEN [@ EXCEPT !.phase = "admitted"] ELSE NoRequest]
     /\ granted' = [granted EXCEPT ![Counting(c)] =
                      @ + (IF admitted /\ request[c].punctual THEN 1 ELSE 0)]
  /\ UNCHANGED <<minute, requests, failed>>

(* Either call to Redis reports an error, its work done or not, and the    *)
(* request goes on.                                                        *)
FailOpen(c) ==
  /\ \/ InPhase(c, "counting") /\ counters' \in {counters, Incremented(Counting(c))}
     \/ InPhase(c, "dating") /\ counters' \in {counters, Date(Counting(c))}
  /\ request' = [request EXCEPT ![c].phase = "admitted"]
  /\ failed' = TRUE
  /\ UNCHANGED <<minute, requests, granted>>

(* A process that dies takes its requests with it.                         *)
Lose(S) ==
  /\ request' = [c \in Callers |-> IF c \in S THEN NoRequest ELSE request[c]]
  /\ failed' = (failed \/ \E c \in S : InPhase(c, "dating"))
  /\ UNCHANGED <<minute, counters, requests, granted>>

Tick ==
  /\ minute < MaxMinute
  /\ minute' = minute + 1
  /\ counters' = Remaining({k \in DOMAIN counters : ~(counters[k].dated /\ k[2] < minute + 1)})
  /\ UNCHANGED <<request, requests, granted, failed>>

Limiter ==
  \/ Tick
  \/ \E c \in Callers : Increment(c) \/ ExpireAt(c) \/ FailOpen(c)

(* The handler's part: a request goes on to another phase, or ends.        *)
Continue(c, new) ==
  request' = [request EXCEPT ![c] = new] /\ UNCHANGED <<minute, counters, requests, granted, failed>>
Finish(c) == Continue(c, NoRequest)

-----------------------------------------------------------------------------
(* Whatever the order of the calls, at most the limit passes by a counter  *)
(* among the requests that are counted within its minute.  (A request that *)
(* was slow to be counted finds a fresh counter, and one whose call failed *)
(* is not counted.)                                                        *)
LimitHolds == \A k \in Counters : granted[k] <= RequestsPerMinute

(* Redis does not fill up: unless a call failed, a counter that outlives   *)
(* its minute has a request on the way that is about to delete it.         *)
CountersExpire ==
  ~failed => \A k \in DOMAIN counters :
    Expired(k) => \E c \in Callers : InPhase(c, "dating") /\ Counting(c) = k
=============================================================================
