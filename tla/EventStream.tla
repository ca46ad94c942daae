---------------------------- MODULE EventStream ----------------------------
(***************************************************************************)
(* The events of one session: publishEvent stores an event for replay and  *)
(* publishes it through Redis (internal/store/redis/pubsub.go); the router *)
(* of the agent's questions publishes and stores nothing.  The hub of a    *)
(* replica (internal/api/ws/hub.go) holds one Redis subscription per topic *)
(* that has clients and copies what it delivers into the buffer of every   *)
(* client.  The agent topic carries the events; the board topic has the    *)
(* same hub and no publisher.  A viewer reads the stored events page by    *)
(* page (internal/store/postgres/agent_event_repo.go), in the order of     *)
(* their dates, which they get before they are stored.                     *)
(***************************************************************************)
EXTENDS Naturals, FiniteSets, Sequences, SequencesExt

CONSTANTS
  Publishers,  \* goroutines that publish events of the session
  Script,      \* Script[p], the events p publishes, in p's order
  Unstored,    \* the events among them that the router of questions publishes
  Clients,     \* WebSocket connections
  BufferSize,  \* capacity of a client's Send channel
  PageSize,    \* events on a page of the replay
  MaxSubs,     \* bound: Redis subscriptions over a behaviour
  MaxBreaks    \* bound: broken Redis connections

Events == UNION {{Script[p][i] : i \in DOMAIN Script[p]} : p \in Publishers}
Topics == {"agent", "board"}

(* Every event has an id of its own.                                       *)
ASSUME StreamAssumption ==
  /\ \A p \in Publishers : Script[p] \in Seq(Events)
  /\ \A p, q \in Publishers : \A i \in DOMAIN Script[p], j \in DOMAIN Script[q] :
       Script[p][i] = Script[q][j] => p = q /\ i = j
  /\ Unstored \subseteq Events
  /\ BufferSize \in Nat \ {0} /\ PageSize \in Nat \ {0}
  /\ MaxSubs \in Nat /\ MaxBreaks \in Nat

VARIABLES
  next,     \* per publisher, the index of the event it publishes next
  stage,    \* per publisher: "idle", "dated" or "stored"
  dated,    \* the events that have a date, in its order
  log,      \* agent_session_events, the set of stored events
  clients,  \* hub: per topic, the registered clients
  sub,      \* hub: per topic, its Redis subscription, 0 for none
  subs,     \* every Redis subscription so far: [topic, state, queue]
  conn,     \* per client: "new", "open", "gone"
  clean,    \* history: per client, no old fan-out was draining when it joined
  send,     \* per client, its Send channel
  seen,     \* per client, what was written to its socket
  replay,   \* the replay: [at, got, steady], steady what was stored at its start
  breaks    \* connections broken so far

hub == <<clients, sub, conn, clean, seen>>
table == <<dated, log>>
vars == <<next, stage, table, subs, send, hub, replay, breaks>>

(* Clients and the viewer may never come.                                  *)
Init ==
  /\ next = [p \in Publishers |-> 1]
  /\ stage = [p \in Publishers |-> "idle"]
  /\ dated = <<>> /\ log = {}
  /\ replay \in [at : {"idle", "done"}, got : {<<>>}, steady : {{}}]
  /\ clients = [t \in Topics |-> {}]
  /\ sub = [t \in Topics |-> 0]
  /\ subs = <<>>
  /\ conn \in [Clients -> {"new", "gone"}]
  /\ clean = [c \in Clients |-> FALSE]
  /\ send = [c \in Clients |-> <<>>]
  /\ seen = [c \in Clients |-> <<>>]
  /\ breaks = 0

-----------------------------------------------------------------------------
(* publishEvent, called one event at a time by each publisher.             *)

Event(p) == Script[p][next[p]]

Finish(p) ==
  /\ stage' = [stage EXCEPT ![p] = "idle"]
  /\ next' = [next EXCEPT ![p] = @ + 1]

(* The message handler, a cancellation or the end of the session reaches   *)
(* its next event and dates it.                                            *)
Date(p) ==
  /\ stage[p] = "idle" /\ next[p] <= Len(Script[p]) /\ Event(p) \notin Unstored
  /\ dated' = Append(dated, Event(p))
  /\ stage' = [stage EXCEPT ![p] = "dated"]
  /\ UNCHANGED <<next, log, subs, send, hub, replay, breaks>>

(* Mutant: the event is published whether or not it was appended.          *)
StoreUnchecked(p) ==
  /\ stage[p] = "dated"
  /\ log' \in {log, log \cup {Event(p)}}
  /\ stage' = [stage EXCEPT ![p] = "stored"]
  /\ UNCHANGED <<next, dated, subs, send, hub, replay, breaks>>

(* It is appended; when the append reports an error, after or before the   *)
(* row was written, publishEvent returns without publishing.               *)
Store(p) ==
  /\ stage[p] = "dated"
  /\ \/ /\ log' = log \cup {Event(p)}
        /\ stage' = [stage EXCEPT ![p] = "stored"]
        /\ UNCHANGED next
     \/ /\ log' \in {log, log \cup {Event(p)}}
        /\ Finish(p)
  /\ UNCHANGED <<dated, subs, send, hub, replay, breaks>>

(* Redis hands the message to every subscription of the channel that is    *)
(* on; no one else will ever get it.                                       *)
Deliver(e) ==
  subs' = [s \in DOMAIN subs |->
             IF subs[s].topic = "agent" /\ subs[s].state = "on"
             THEN [subs[s] EXCEPT !.queue = Append(@, e)] ELSE subs[s]]

(* PublishAgentEvent, or its failure: best effort.                         *)
Publish(p) ==
  /\ stage[p] = "stored"
  /\ Deliver(Event(p)) \/ UNCHANGED subs
  /\ Finish(p)
  /\ UNCHANGED <<table, send, hub, replay, breaks>>

(* The router has recorded the agent's question and tells the session's    *)
(* viewers "waiting_hitl" through the Redis client it was given: nothing   *)
(* is appended, and a failure is logged.                                   *)
PublishUnstored(p) ==
  /\ stage[p] = "idle" /\ next[p] <= Len(Script[p]) /\ Event(p) \in Unstored
  /\ Deliver(Event(p)) \/ UNCHANGED subs
  /\ Finish(p)
  /\ UNCHANGED <<table, send, hub, replay, breaks>>

-----------------------------------------------------------------------------
(* The hub.  Each operation holds its mutex.                               *)

Draining(t) == \E s \in DOMAIN subs :
  subs[s].topic = t /\ s # sub[t] /\ subs[s].queue # <<>>

(* Mutant: every client opens a subscription of its own.                   *)
SubscribeEach(t, c) ==
  /\ Len(subs) < MaxSubs
  /\ subs' = Append(subs, [topic |-> t, state |-> "asked", queue |-> <<>>])
  /\ sub' = [sub EXCEPT ![t] = Len(subs) + 1]
  /\ clients' = [clients EXCEPT ![t] = @ \cup {c}]

(* SubscribeAgent, SubscribeBoard: the first client of a topic opens a     *)
(* Redis subscription and starts its fan-out.                              *)
Subscribe(t, c) ==
  /\ IF clients[t] = {}
     THEN /\ Len(subs) < MaxSubs
          /\ subs' = Append(subs, [topic |-> t, state |-> "asked", queue |-> <<>>])
          /\ sub' = [sub EXCEPT ![t] = Len(subs) + 1]
     ELSE UNCHANGED <<subs, sub>>
  /\ clients' = [clients EXCEPT ![t] = @ \cup {c}]

(* Mutant: the last client drops the subscription without closing it.      *)
UnsubscribeLeaks(t, c) ==
  /\ clients' = [clients EXCEPT ![t] = @ \ {c}]
  /\ sub' = IF clients[t] = {c} THEN [sub EXCEPT ![t] = 0] ELSE sub
  /\ UNCHANGED subs

(* UnsubscribeAgent, UnsubscribeBoard: the last client closes it.  What    *)
(* the subscription had already received stays in its channels.            *)
Unsubscribe(t, c) ==
  /\ clients' = [clients EXCEPT ![t] = @ \ {c}]
  /\ IF clients[t] = {c}
     THEN /\ subs' = [subs EXCEPT ![sub[t]].state = "closed"]
          /\ sub' = [sub EXCEPT ![t] = 0]
     ELSE UNCHANGED <<subs, sub>>

(* HandleAgentStream, HandleBoardStream: the request may be refused (no    *)
(* user, no tenant, malformed id, session or project of another tenant,    *)
(* failed upgrade); otherwise the client gets an empty buffer and is       *)
(* subscribed.                                                             *)
Connect(c, t) ==
  /\ conn[c] = "new"
  /\ \/ /\ conn' = [conn EXCEPT ![c] = "gone"]
        /\ UNCHANGED <<subs, sub, clients, clean>>
     \/ /\ conn' = [conn EXCEPT ![c] = "open"]
        /\ clean' = [clean EXCEPT ![c] = ~Draining(t)]
        /\ Subscribe(t, c)
  /\ UNCHANGED <<next, stage, table, send, seen, replay, breaks>>

(* The write loop: one event from the buffer to the socket.                *)
Write(c) ==
  /\ conn[c] = "open" /\ send[c] # <<>>
  /\ seen' = [seen EXCEPT ![c] = Append(@, Head(send[c]))]
  /\ send' = [send EXCEPT ![c] = Tail(@)]
  /\ UNCHANGED <<next, stage, table, clients, sub, subs, conn, clean, replay, breaks>>

(* The peer disconnects or a write fails: the handler returns.             *)
Disconnect(c, t) ==
  /\ conn[c] = "open" /\ c \in clients[t]
  /\ conn' = [conn EXCEPT ![c] = "gone"]
  /\ Unsubscribe(t, c)
  /\ UNCHANGED <<next, stage, table, send, seen, clean, replay, breaks>>

(* Redis confirms the SUBSCRIBE, the first time or after a reconnect.      *)
RedisSubscribes(s) ==
  /\ s \in DOMAIN subs /\ subs[s].state = "asked"
  /\ subs' = [subs EXCEPT ![s].state = "on"]
  /\ UNCHANGED <<next, stage, table, send, hub, replay, breaks>>

(* The connection breaks; the Redis client reconnects on its own.          *)
RedisBreaks(s) ==
  /\ s \in DOMAIN subs /\ subs[s].state = "on" /\ breaks < MaxBreaks
  /\ subs' = [subs EXCEPT ![s].state = "asked"]
  /\ breaks' = breaks + 1
  /\ UNCHANGED <<next, stage, table, send, hub, replay>>

(* Mutant: the buffer has no limit.                                        *)
NeverFull(c) == FALSE

Full(c) == Len(send[c]) = BufferSize

(* Mutant: the send blocks until the client has room.                      *)
FanoutBlocks(s) ==
  /\ s \in DOMAIN subs /\ subs[s].queue # <<>>
  /\ \A c \in clients[subs[s].topic] : ~Full(c)
  /\ LET e == Head(subs[s].queue)
     IN send' = [c \in Clients |-> IF c \in clients[subs[s].topic]
                                   THEN Append(send[c], e) ELSE send[c]]
  /\ subs' = [subs EXCEPT ![s].queue = Tail(@)]
  /\ UNCHANGED <<next, stage, table, hub, replay, breaks>>

(* runAgentFanout, runBoardFanout: the next event of subscription s goes   *)
(* to whoever is registered for the topic now, even when s is an old       *)
(* subscription; a client whose buffer is full loses it.                   *)
Fanout(s) ==
  /\ s \in DOMAIN subs /\ subs[s].queue # <<>>
  /\ LET e == Head(subs[s].queue)
     IN send' = [c \in Clients |-> IF c \in clients[subs[s].topic] /\ ~Full(c)
                                   THEN Append(send[c], e) ELSE send[c]]
  /\ subs' = [subs EXCEPT ![s].queue = Tail(@)]
  /\ UNCHANGED <<next, stage, table, hub, replay, breaks>>

-----------------------------------------------------------------------------
(* agent-session-events: a viewer replays the session page by page.        *)

DateOf(e) == CHOOSE i \in DOMAIN dated : dated[i] = e

(* ORDER BY the date LIMIT the page size: the earliest rows, in order.     *)
Pages(rows) ==
  {page \in UNION {[1..n -> rows] : n \in 0..PageSize} :
     /\ \A i, j \in DOMAIN page : i < j => DateOf(page[i]) < DateOf(page[j])
     /\ \A e \in rows \ Range(page) :
          Len(page) = PageSize /\ \A i \in DOMAIN page : DateOf(page[i]) < DateOf(e)}

(* Mutant: the cursor is the number of rows read so far.                   *)
RowsFrom(got) == {e \in log : Cardinality({x \in log : DateOf(x) < DateOf(e)}) >= Len(got)}

(* The rows whose date is after that of the cursor, the last row read.     *)
RowsAfter(got) == {e \in log : DateOf(e) > DateOf(Last(got))}

(* A page with fewer rows than the limit carries no cursor: it is the last.*)
Read(rows, got, steady) ==
  \E page \in Pages(rows) :
    replay' = [at |-> IF Len(page) < PageSize THEN "done" ELSE "paging",
               got |-> got \o page, steady |-> steady]

FirstPage ==
  /\ replay.at = "idle"
  /\ Read(log, <<>>, log)
  /\ UNCHANGED <<next, stage, table, subs, send, hub, breaks>>

NextPage ==
  /\ replay.at = "paging"
  /\ Read(RowsAfter(replay.got), replay.got, replay.steady)
  /\ UNCHANGED <<next, stage, table, subs, send, hub, breaks>>

-----------------------------------------------------------------------------
Next ==
  \/ \E p \in Publishers : Date(p) \/ Store(p) \/ Publish(p) \/ PublishUnstored(p)
  \/ \E c \in Clients : Write(c) \/ \E t \in Topics : Connect(c, t) \/ Disconnect(c, t)
  \/ FirstPage \/ NextPage
  \/ \E s \in 1..MaxSubs : RedisSubscribes(s) \/ RedisBreaks(s) \/ Fanout(s)

(* A fan-out is a goroutine with nothing to wait for but the hub's mutex,  *)
(* which no one keeps.  Nothing is assumed of the clients or of Redis.     *)
Fairness == \A s \in 1..MaxSubs : WF_vars(Fanout(s))

Spec == Init /\ [][Next]_vars /\ Fairness

-----------------------------------------------------------------------------
Received(c) == seen[c] \o send[c]

TypeOK ==
  /\ next \in [Publishers -> Nat]
  /\ stage \in [Publishers -> {"idle", "dated", "stored"}]
  /\ dated \in Seq(Events) /\ log \subseteq Range(dated)
  /\ replay \in [at : {"idle", "paging", "done"}, got : Seq(log), steady : SUBSET log]
  /\ clients \in [Topics -> SUBSET Clients]
  /\ sub \in [Topics -> 0..Len(subs)]
  /\ subs \in Seq([topic : Topics, state : {"asked", "on", "closed"}, queue : Seq(Events)])
  /\ conn \in [Clients -> {"new", "open", "gone"}]
  /\ clean \in [Clients -> BOOLEAN]
  /\ send \in [Clients -> Seq(Events)] /\ \A c \in Clients : Len(send[c]) <= BufferSize
  /\ seen \in [Clients -> Seq(Events)]
  /\ breaks \in 0..MaxBreaks

(* Whatever is on its way to a client, or was ever shown to one, is in the *)
(* table, so that the replay of the session holds all that was seen live   *)
(* but the router's announcements that the agent waits for an answer.      *)
LiveIsStored ==
  /\ \A s \in DOMAIN subs : Range(subs[s].queue) \subseteq log \cup Unstored
  /\ \A c \in Clients : Range(Received(c)) \subseteq log \cup Unstored

(* The hub listens to Redis for exactly the topics that have clients, on   *)
(* one subscription each, and its clients are the open connections.        *)
OneSubscriptionPerTopic ==
  /\ \A t \in Topics : sub[t] # 0 <=> clients[t] # {}
  /\ \A s \in DOMAIN subs : subs[s].state # "closed" => sub[subs[s].topic] = s
  /\ \A c \in Clients : conn[c] = "open" <=> \E t \in Topics : c \in clients[t]

(* No connection shows an event twice, although an old subscription's      *)
(* fan-out may still be draining beside that of its successor.             *)
NoDuplicates ==
  \A c \in Clients : \A i, j \in DOMAIN Received(c) :
    Received(c)[i] = Received(c)[j] => i = j

(* A connection that was opened while no old fan-out was draining gets     *)
(* each publisher's events in the order they were published.  (Behind a    *)
(* draining fan-out older events can arrive after newer ones.)             *)
PublisherOrder ==
  \A c \in Clients : clean[c] =>
    \A p \in Publishers : \A i, j \in DOMAIN Received(c) : \A k, l \in DOMAIN Script[p] :
      (i < j /\ Received(c)[i] = Script[p][k] /\ Received(c)[j] = Script[p][l]) => k <= l

(* A replay shows every event that was stored when it began exactly once,  *)
(* and no publisher's events out of their order, although events are dated *)
(* before they are stored and so appear between those already read.        *)
ReplayIsComplete ==
  /\ replay.at = "done" => replay.steady \subseteq Range(replay.got)
  /\ IsInjective(replay.got)
  /\ \A p \in Publishers : \A i, j \in DOMAIN replay.got : \A k, l \in DOMAIN Script[p] :
       (i < j /\ replay.got[i] = Script[p][k] /\ replay.got[j] = Script[p][l]) => k <= l

(* A slow client is its own problem: an event that has reached the hub's   *)
(* subscription gets into the buffer of each registered client that has    *)
(* room, however long other clients leave theirs full.                     *)
SlowClientsHarmNoOther ==
  \A c \in Clients, e \in Events :
    (c \in clients["agent"] /\ e \in Range(subs[sub["agent"]].queue))
      ~> (e \in Range(Received(c)) \/ conn[c] = "gone" \/ Full(c))
=============================================================================
