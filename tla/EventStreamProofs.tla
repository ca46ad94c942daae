------------------------- MODULE EventStreamProofs -------------------------
(***************************************************************************)
(* Proofs about EventStream for every number of publishers, clients,       *)
(* subscriptions and broken connections, every script, buffer and page     *)
(* size: what is seen live is stored, the hub has one subscription per     *)
(* topic with clients, no event is shown twice, publishers' events come in *)
(* order, and a replay is complete.                                        *)
(***************************************************************************)
EXTENDS EventStream, SequenceTheorems, TLAPS

-----------------------------------------------------------------------------
(* Order.  A publisher's events come one after the other in what is        *)
(* InOrder, and so none comes twice.  Before: A has nothing of a publisher *)
(* that is not earlier than what B has of it.                              *)
InOrder(s) ==
  \A p \in Publishers : \A i, j \in DOMAIN s : \A k, l \in DOMAIN Script[p] :
    (i < j /\ s[i] = Script[p][k] /\ s[j] = Script[p][l]) => k < l

Before(A, B) ==
  \A p \in Publishers : \A k, l \in DOMAIN Script[p] :
    (Script[p][k] \in A /\ Script[p][l] \in B) => k < l

-----------------------------------------------------------------------------
(* The invariant.                                                          *)

(* The parts of TypeOK.                                                    *)
Subscriptions == [topic : Topics, state : {"asked", "on", "closed"}, queue : Seq(Events)]

TableTypes ==
  /\ next \in [Publishers -> Nat]
  /\ stage \in [Publishers -> {"idle", "dated", "stored"}]
  /\ dated \in Seq(Events) /\ log \subseteq Range(dated)

HubTypes ==
  /\ clients \in [Topics -> SUBSET Clients]
  /\ sub \in [Topics -> 0..Len(subs)]
  /\ subs \in Seq(Subscriptions)
  /\ conn \in [Clients -> {"new", "open", "gone"}]
  /\ clean \in [Clients -> BOOLEAN]
  /\ send \in [Clients -> Seq(Events)] /\ \A c \in Clients : Len(send[c]) <= BufferSize
  /\ seen \in [Clients -> Seq(Events)]
  /\ breaks \in 0..MaxBreaks

ReplayTypes ==
  replay \in [at : {"idle", "paging", "done"}, got : Seq(log), steady : SUBSET log]

LEMMA TypeParts == TypeOK <=> TableTypes /\ HubTypes /\ ReplayTypes
BY DEF TypeOK, TableTypes, HubTypes, ReplayTypes, Subscriptions

(* A subscription in use is of its topic, nobody watches two topics, and   *)
(* who has not come yet has received nothing.                              *)
Hub ==
  /\ \A t \in Topics : sub[t] # 0 => subs[sub[t]].topic = t
  /\ \A c \in Clients : \A t, u \in Topics : c \in clients[t] /\ c \in clients[u] => t = u
  /\ \A c \in Clients : conn[c] = "new" => send[c] = <<>> /\ seen[c] = <<>>

(* What is about to be published is stored.                                *)
ToPublish ==
  \A p \in Publishers :
    /\ next[p] # 0
    /\ stage[p] # "idle" => next[p] \in DOMAIN Script[p] /\ Event(p) \notin Unstored
    /\ stage[p] = "stored" => Event(p) \in log

Published == UNION {{Script[p][k] : k \in {k \in DOMAIN Script[p] : k < next[p]}} : p \in Publishers}

(* An event is in one queue, or has been received, or is yet to come.      *)
Queues ==
  /\ \A s \in DOMAIN subs :
       /\ InOrder(subs[s].queue) /\ Range(subs[s].queue) \subseteq Published
       /\ subs[s].topic = "board" => subs[s].queue = <<>>
  /\ \A s, r \in DOMAIN subs : s # r => Range(subs[s].queue) \cap Range(subs[r].queue) = {}

Inboxes ==
  \A c \in Clients :
    /\ IsInjective(Received(c)) /\ Range(Received(c)) \subseteq Published
    /\ \A s \in DOMAIN subs : Range(subs[s].queue) \cap Range(Received(c)) = {}

(* A clean client has one source, in order, from its connection to its end.*)
Clean ==
  \A c \in Clients : clean[c] =>
    /\ InOrder(Received(c))
    /\ \A t \in Topics : c \in clients[t] =>
         ~Draining(t) /\ Before(Range(Received(c)), Range(subs[sub[t]].queue))

StreamInv == HubTypes /\ OneSubscriptionPerTopic /\ Hub /\ LiveIsStored /\ Queues /\ Inboxes /\ Clean

(* Events are dated in their publishers' order, those to come are not, nor *)
(* are those that the router of questions publishes.                       *)
Dates ==
  /\ InOrder(dated)
  /\ \A p \in Publishers : \A k \in DOMAIN Script[p] :
       Script[p][k] \in Range(dated) <=>
         Script[p][k] \notin Unstored /\ (k < next[p] \/ (k = next[p] /\ stage[p] # "idle"))

(* What is read is in the order of the dates, and while pages follow it    *)
(* holds whatever was stored at the start and has a date up to its last.   *)
Replay ==
  /\ \A i, j \in DOMAIN replay.got : i < j => DateOf(replay.got[i]) < DateOf(replay.got[j])
  /\ replay.at = "paging" =>
       /\ replay.got # <<>>
       /\ \A e \in replay.steady : DateOf(e) <= DateOf(Last(replay.got)) => e \in Range(replay.got)
  /\ replay.at = "done" => replay.steady \subseteq Range(replay.got)

Table == TableTypes /\ ToPublish /\ Dates

IInv == Table /\ StreamInv /\ ReplayTypes /\ Replay

-----------------------------------------------------------------------------
(* Lemmas about sequences.                                                 *)

LEMMA EventsAre ==
  /\ \A e \in Events : \E p \in Publishers : \E k \in DOMAIN Script[p] : e = Script[p][k]
  /\ \A p \in Publishers : \A k \in DOMAIN Script[p] : Script[p][k] \in Events
BY DEF Events

LEMMA AppendRange ==
  ASSUME NEW S, NEW s \in Seq(S), NEW e \in S
  PROVE  /\ Append(s, e) \in Seq(S) /\ Range(Append(s, e)) = Range(s) \cup {e}
         /\ IsInjective(s) /\ e \notin Range(s) => IsInjective(Append(s, e))
<1>1. /\ Append(s, e) \in Seq(S) /\ DOMAIN Append(s, e) = 1..Len(s) + 1 /\ DOMAIN s = 1..Len(s)
      /\ \A i \in 1..Len(s) : Append(s, e)[i] = s[i]
      /\ Append(s, e)[Len(s) + 1] = e /\ Len(s) \in Nat
  BY AppendProperties, LenProperties
<1>2. Range(Append(s, e)) = Range(s) \cup {e}
  BY <1>1 DEF Range
<1>3. ASSUME IsInjective(s), e \notin Range(s) PROVE IsInjective(Append(s, e))
  BY <1>1, <1>3 DEF IsInjective, Range
<1>4. QED
  BY <1>1, <1>2, <1>3

LEMMA TailRange ==
  ASSUME NEW S, NEW s \in Seq(S), s # <<>>
  PROVE  /\ Head(s) \in S /\ Tail(s) \in Seq(S) /\ Len(Tail(s)) = Len(s) - 1
         /\ Range(s) = {Head(s)} \cup Range(Tail(s))
         /\ \A i \in DOMAIN Tail(s) : i + 1 \in DOMAIN s /\ Tail(s)[i] = s[i + 1]
         /\ Head(s) = s[1] /\ 1 \in DOMAIN s
<1>1. /\ Head(s) \in S /\ Tail(s) \in Seq(S) /\ Len(Tail(s)) = Len(s) - 1
      /\ \A i \in 1..Len(Tail(s)) : Tail(s)[i] = s[i + 1]
  BY HeadTailProperties
<1>2. DOMAIN s = 1..Len(s) /\ DOMAIN Tail(s) = 1..Len(s) - 1 /\ Len(s) \in Nat \ {0}
  BY <1>1, LenProperties, EmptySeq
<1>3. Head(s) = s[1]
  OBVIOUS
<1>4. \A i \in DOMAIN s : i = 1 \/ (i - 1 \in DOMAIN Tail(s) /\ s[i] = Tail(s)[i - 1])
  BY <1>1, <1>2
<1>5. Range(s) = {Head(s)} \cup Range(Tail(s))
  <2>1. \A i \in DOMAIN s : s[i] = Head(s) \/ s[i] \in Range(Tail(s))
    BY <1>3, <1>4 DEF Range
  <2>2. \A i \in DOMAIN Tail(s) : i + 1 \in DOMAIN s /\ Tail(s)[i] = s[i + 1]
    BY <1>1, <1>2
  <2>3. Head(s) \in Range(s) /\ Range(Tail(s)) \subseteq Range(s)
    BY <1>2, <1>3, <2>2 DEF Range
  <2>4. QED
    BY <2>1, <2>3 DEF Range
<1>6. QED
  BY <1>1, <1>2, <1>3, <1>5

LEMMA InOrderAppend ==
  ASSUME NEW s \in Seq(Events), NEW e \in Events, InOrder(s), Before(Range(s), {e})
  PROVE  InOrder(Append(s, e))
<1>1. /\ DOMAIN Append(s, e) = 1..Len(s) + 1 /\ DOMAIN s = 1..Len(s)
      /\ \A i \in 1..Len(s) : Append(s, e)[i] = s[i]
      /\ Append(s, e)[Len(s) + 1] = e /\ Len(s) \in Nat
  BY AppendProperties, LenProperties
<1>2. SUFFICES ASSUME NEW p \in Publishers, NEW i \in 1..Len(s) + 1, NEW j \in 1..Len(s) + 1,
                      NEW k \in DOMAIN Script[p], NEW l \in DOMAIN Script[p],
                      i < j, Append(s, e)[i] = Script[p][k], Append(s, e)[j] = Script[p][l]
               PROVE  k < l
  BY <1>1 DEF InOrder
<1>3. i \in 1..Len(s) /\ s[i] = Script[p][k] /\ s[i] \in Range(s)
  BY <1>1, <1>2 DEF Range
<1>4. CASE j \in 1..Len(s)
  BY <1>1, <1>2, <1>3, <1>4 DEF InOrder
<1>5. CASE j = Len(s) + 1
  BY <1>1, <1>2, <1>3, <1>5 DEF Before
<1>6. QED
  BY <1>1, <1>4, <1>5

LEMMA InOrderTail ==
  ASSUME NEW s \in Seq(Events), s # <<>>, InOrder(s)
  PROVE  /\ InOrder(Tail(s)) /\ Before({Head(s)}, Range(Tail(s)))
         /\ Head(s) \notin Range(Tail(s))
<1>1. /\ \A i \in DOMAIN Tail(s) : i + 1 \in DOMAIN s /\ Tail(s)[i] = s[i + 1]
      /\ Head(s) = s[1] /\ 1 \in DOMAIN s /\ Head(s) \in Events /\ Tail(s) \in Seq(Events)
  BY TailRange
<1>2. DOMAIN Tail(s) \subseteq Nat \ {0}
  BY <1>1, LenProperties
<1>3. InOrder(Tail(s))
  BY <1>1, <1>2 DEF InOrder
<1>4. Before({Head(s)}, Range(Tail(s)))
  BY <1>1, <1>2 DEF InOrder, Before, Range
<1>5. PICK p \in Publishers : \E k \in DOMAIN Script[p] : Head(s) = Script[p][k]
  BY <1>1, EventsAre
<1>6. DOMAIN Script[p] \subseteq Int
  BY StreamAssumption, LenProperties
<1>7. Head(s) \notin Range(Tail(s))
  BY <1>4, <1>5, <1>6 DEF Before
<1>8. QED
  BY <1>3, <1>4, <1>7

(* What one step makes of a client's Received.                             *)
LEMMA WriteKeeps ==
  ASSUME NEW S, NEW s \in Seq(S), NEW r \in Seq(S), r # <<>>
  PROVE  Append(s, Head(r)) \o Tail(r) = s \o r
<1>1. Head(r) \in S /\ Tail(r) \in Seq(S)
  BY HeadTailProperties
<1>2. Append(s, Head(r)) = s \o <<Head(r)>> /\ <<Head(r)>> \in Seq(S)
  BY <1>1, AppendIsConcat
<1>3. r = <<Head(r)>> \o Tail(r)
  <2>1. Len(r) \in Nat \ {0} /\ Len(Tail(r)) = Len(r) - 1
    BY HeadTailProperties, EmptySeq
  <2> DEFINE q == <<Head(r)>> \o Tail(r)
  <2>2. q \in Seq(S) /\ Len(q) = Len(r) /\ q[1] = Head(r)
        /\ \A i \in 2..Len(r) : q[i] = Tail(r)[i - 1]
    BY <1>1, <1>2, <2>1, ConcatProperties
  <2>3. \A i \in 2..Len(r) : Tail(r)[i - 1] = r[i]
    BY <2>1, HeadTailProperties
  <2>4. r[1] = Head(r)
    OBVIOUS
  <2>5. \A i \in 1..Len(r) : q[i] = r[i]
    BY <2>1, <2>2, <2>3, <2>4
  <2> HIDE DEF q
  <2>6. q = r
    BY <2>2, <2>5, SeqEqual
  <2>7. QED
    BY <2>6 DEF q
<1>4. QED
  BY <1>1, <1>2, <1>3, ConcatAssociative

LEMMA ConcatAppend ==
  ASSUME NEW S, NEW s \in Seq(S), NEW r \in Seq(S), NEW e \in S
  PROVE  s \o Append(r, e) = Append(s \o r, e)
<1>1. s \o r \in Seq(S) /\ <<e>> \in Seq(S)
  BY ConcatProperties
<1>2. Append(r, e) = r \o <<e>> /\ Append(s \o r, e) = (s \o r) \o <<e>>
  BY <1>1, AppendIsConcat
<1>3. QED
  BY <1>1, <1>2, ConcatAssociative

-----------------------------------------------------------------------------
(* The table: next, stage, dated and log.                                  *)

(* The steps of a publisher are the only ones that change it.              *)
LEMMA TableStep ==
  ASSUME [Next]_vars
  PROVE  \/ \E p \in Publishers : Date(p) \/ Store(p) \/ Publish(p) \/ PublishUnstored(p)
         \/ UNCHANGED <<next, stage, dated, log>>
BY DEF Next, vars, table, Write, Connect, Disconnect, FirstPage, NextPage, RedisSubscribes,
       RedisBreaks, Fanout

LEMMA EventTypes ==
  ASSUME Table, NEW p \in Publishers, stage[p] # "idle" \/ next[p] <= Len(Script[p])
  PROVE  next[p] \in DOMAIN Script[p] /\ Event(p) \in Events
<1>1. next[p] \in Nat \ {0} /\ DOMAIN Script[p] = 1..Len(Script[p]) /\ Len(Script[p]) \in Nat
  BY StreamAssumption, LenProperties DEF Table, TableTypes, ToPublish
<1>2. next[p] \in DOMAIN Script[p]
  BY <1>1 DEF Table, ToPublish
<1>3. QED
  BY <1>2, EventsAre DEF Event

LEMMA DateTable ==
  ASSUME Table, NEW p \in Publishers, Date(p)
  PROVE  Table'
<1>1. /\ stage[p] = "idle" /\ dated' = Append(dated, Event(p))
      /\ stage' = [stage EXCEPT ![p] = "dated"] /\ UNCHANGED <<next, log>>
      /\ next[p] \in DOMAIN Script[p] /\ Event(p) \in Events /\ Event(p) \notin Unstored
  BY EventTypes DEF Date
<1>2. TableTypes /\ ToPublish /\ Dates
  BY DEF Table
<1>3. Range(dated') = Range(dated) \cup {Event(p)} /\ dated' \in Seq(Events)
  BY <1>1, <1>2, AppendRange DEF TableTypes
<1>4. \A q \in Publishers : DOMAIN Script[q] \subseteq Int /\ next[q] \in Int
  BY <1>2, StreamAssumption, LenProperties DEF TableTypes
<1>5. TableTypes' /\ ToPublish'
  BY <1>1, <1>2, <1>3 DEF TableTypes, ToPublish, Event
<1>6. InOrder(dated')
  <2>1. Before(Range(dated), {Event(p)})
    BY <1>1, <1>2, <1>4, StreamAssumption DEF Before, Dates, Event
  <2>2. QED
    BY <1>1, <1>2, <2>1, InOrderAppend DEF Dates, TableTypes
<1>7. ASSUME NEW q \in Publishers, NEW k \in DOMAIN Script[q]
      PROVE  Script[q][k] \in Range(dated') <=>
               Script[q][k] \notin Unstored /\ (k < next[q] \/ (k = next[q] /\ stage'[q] # "idle"))
  <2>1. Script[q][k] = Event(p) <=> q = p /\ k = next[p]
    BY <1>1, StreamAssumption DEF Event
  <2>2. Script[q][k] \in Range(dated) <=>
          Script[q][k] \notin Unstored /\ (k < next[q] \/ (k = next[q] /\ stage[q] # "idle"))
    BY <1>2 DEF Dates
  <2>3. stage'[q] = IF q = p THEN "dated" ELSE stage[q]
    BY <1>1, <1>2 DEF TableTypes
  <2>4. QED
    BY <1>1, <1>3, <2>1, <2>2, <2>3
<1>8. QED
  BY <1>1, <1>5, <1>6, <1>7 DEF Table, Dates

LEMMA FinishTable ==
  ASSUME Table, NEW p \in Publishers, Finish(p), dated' = dated,
         \/ stage[p] # "idle" /\ log' \in {log, log \cup {Event(p)}}
         \/ stage[p] = "idle" /\ next[p] <= Len(Script[p]) /\ Event(p) \in Unstored /\ log' = log
  PROVE  Table'
<1>1. /\ stage' = [stage EXCEPT ![p] = "idle"] /\ next' = [next EXCEPT ![p] = next[p] + 1]
      /\ next[p] \in DOMAIN Script[p] /\ Event(p) \in Events
  BY EventTypes DEF Finish
<1>2. TableTypes /\ ToPublish /\ Dates
  BY DEF Table
<1>3. \A q \in Publishers : DOMAIN Script[q] \subseteq Int /\ next[q] \in Nat
  BY <1>2, StreamAssumption, LenProperties DEF TableTypes
<1>4. /\ next'[p] = next[p] + 1 /\ stage'[p] = "idle"
      /\ \A q \in Publishers \ {p} : next'[q] = next[q] /\ stage'[q] = stage[q] /\ Event(q)' = Event(q)
  BY <1>1, <1>2 DEF TableTypes, Event
<1>5. stage[p] # "idle" => Event(p) \in Range(dated)
  BY <1>1, <1>2, <1>3 DEF Dates, Event, ToPublish
<1>6. TableTypes'
  <2>1. next' \in [Publishers -> Nat] /\ stage' \in [Publishers -> {"idle", "dated", "stored"}]
    BY <1>1, <1>2, <1>3 DEF TableTypes
  <2>2. QED
    BY <1>2, <1>5, <2>1 DEF TableTypes
<1>7. ToPublish'
  <2>1. \A q \in Publishers : next'[q] # 0
    BY <1>2, <1>3, <1>4 DEF ToPublish
  <2>2. QED
    BY <1>2, <1>4, <2>1 DEF ToPublish
<1>8. Dates'
  <2>1. ASSUME NEW q \in Publishers, NEW k \in DOMAIN Script[q]
        PROVE  Script[q][k] \in Range(dated) <=>
                 Script[q][k] \notin Unstored /\ (k < next'[q] \/ (k = next'[q] /\ stage'[q] # "idle"))
    <3>1. Script[q][k] \in Range(dated) <=>
            Script[q][k] \notin Unstored /\ (k < next[q] \/ (k = next[q] /\ stage[q] # "idle"))
      BY <1>2 DEF Dates
    <3>2. k \in Int /\ next[q] \in Int
      BY <1>3
    <3>3. CASE q = p
      <4>1. k = next[p] => Script[q][k] = Event(p)
        BY <3>3 DEF Event
      <4>2. QED
        BY <1>4, <3>1, <3>2, <3>3, <4>1
    <3>4. CASE q # p
      BY <1>4, <3>1, <3>4
    <3>5. QED
      BY <3>3, <3>4
  <2>2. QED
    BY <1>2, <2>1 DEF Dates, InOrder
<1>9. QED
  BY <1>6, <1>7, <1>8 DEF Table

LEMMA StoreTable ==
  ASSUME Table, NEW p \in Publishers, Store(p)
  PROVE  Table'
<1>1. stage[p] = "dated" /\ dated' = dated
  BY DEF Store
<1>2. CASE log' \in {log, log \cup {Event(p)}} /\ Finish(p)
  BY <1>1, <1>2, FinishTable
<1>3. CASE log' = log \cup {Event(p)} /\ stage' = [stage EXCEPT ![p] = "stored"] /\ next' = next
  <2>1. TableTypes /\ ToPublish /\ Dates /\ next[p] \in DOMAIN Script[p]
    BY <1>1, EventTypes DEF Table
  <2>2. stage'[p] = "stored" /\ \A q \in Publishers \ {p} : stage'[q] = stage[q]
    BY <1>3, <2>1 DEF TableTypes
  <2>3. Event(p) \in Range(dated)
    BY <1>1, <2>1 DEF Dates, Event, ToPublish
  <2>4. TableTypes'
    BY <1>1, <1>3, <2>1, <2>3 DEF TableTypes
  <2>5. ToPublish'
    BY <1>1, <1>3, <2>1, <2>2 DEF ToPublish, Event
  <2>6. Dates'
    BY <1>1, <1>3, <2>1, <2>2 DEF Dates, InOrder
  <2>7. QED
    BY <2>4, <2>5, <2>6 DEF Table
<1>4. QED
  BY <1>2, <1>3 DEF Store

LEMMA NextTable ==
  ASSUME Table, [Next]_vars
  PROVE  Table' /\ log \subseteq log'
<1>1. CASE UNCHANGED <<next, stage, dated, log>>
  BY <1>1 DEF Table, TableTypes, ToPublish, Dates, InOrder, Event
<1>2. ASSUME NEW p \in Publishers, Date(p) PROVE Table' /\ log \subseteq log'
  BY <1>2, DateTable DEF Date
<1>3. ASSUME NEW p \in Publishers, Store(p) PROVE Table' /\ log \subseteq log'
  BY <1>3, StoreTable DEF Store
<1>4. ASSUME NEW p \in Publishers, Publish(p) PROVE Table' /\ log \subseteq log'
  BY <1>4, FinishTable DEF Publish, table
<1>5. ASSUME NEW p \in Publishers, PublishUnstored(p) PROVE Table' /\ log \subseteq log'
  BY <1>5, FinishTable DEF PublishUnstored, table
<1>6. QED
  BY <1>1, <1>2, <1>3, <1>4, <1>5, TableStep

-----------------------------------------------------------------------------
(* What has been published only grows, by the event whose turn it is.      *)

LEMMA PublishedIs ==
  ASSUME NEW p \in Publishers, NEW k \in DOMAIN Script[p]
  PROVE  Script[p][k] \in Published <=> k < next[p]
BY StreamAssumption DEF Published

LEMMA PublishedIsNext ==
  ASSUME NEW p \in Publishers, NEW k \in DOMAIN Script[p]
  PROVE  (Script[p][k] \in Published)' <=> k < next'[p]
BY StreamAssumption DEF Published

LEMMA PublishedGrows ==
  ASSUME Table, [Next]_vars
  PROVE  Published \subseteq Published'
<1>1. \A p \in Publishers : next'[p] \in Int /\ next[p] \in Int /\ next'[p] >= next[p]
  <2>1. CASE UNCHANGED next
    BY <2>1 DEF Table, TableTypes
  <2>2. ASSUME NEW p \in Publishers, Finish(p)
        PROVE  \A q \in Publishers : next'[q] \in Int /\ next[q] \in Int /\ next'[q] >= next[q]
    BY <2>2 DEF Table, TableTypes, Finish
  <2>3. QED
    BY <2>1, <2>2, TableStep DEF Date, Store, Publish, PublishUnstored
<1>2. \A p \in Publishers : DOMAIN Script[p] \subseteq Int
  BY StreamAssumption, LenProperties
<1>3. QED
  BY <1>1, <1>2 DEF Published

LEMMA PublishesNext ==
  ASSUME Table, NEW p \in Publishers, Publish(p) \/ PublishUnstored(p)
  PROVE  /\ Event(p) \in Events /\ Event(p) \in log \cup Unstored /\ Event(p) \notin Published
         /\ Event(p) \in Published' /\ Before(Published, {Event(p)})
<1>1. /\ next[p] \in DOMAIN Script[p] /\ Event(p) \in Events /\ Event(p) \in log \cup Unstored
      /\ next'[p] = next[p] + 1
  BY EventTypes DEF Table, ToPublish, TableTypes, Publish, PublishUnstored, Finish
<1>2. \A q \in Publishers : DOMAIN Script[q] \subseteq Int /\ next[q] \in Int
  BY StreamAssumption, LenProperties DEF Table, TableTypes
<1>3. Event(p) \notin Published /\ Event(p) \in Published'
  BY <1>1, <1>2, PublishedIs, PublishedIsNext DEF Event
<1>4. ASSUME NEW q \in Publishers, NEW k \in DOMAIN Script[q], NEW l \in DOMAIN Script[q],
             Script[q][k] \in Published, Script[q][l] = Event(p)
      PROVE  k < l
  <2>1. k < next[q]
    BY <1>4, PublishedIs
  <2>2. q = p /\ l = next[p]
    BY <1>1, <1>4, StreamAssumption DEF Event
  <2>3. QED
    BY <2>1, <2>2
<1>5. QED
  BY <1>1, <1>3, <1>4 DEF Before

-----------------------------------------------------------------------------
(* What each step makes of the subscriptions.                              *)

LEMMA SeqOfFunction ==
  ASSUME NEW S, NEW n \in Nat, NEW f \in [1..n -> S]
  PROVE  f \in Seq(S) /\ Len(f) = n
BY SeqDef

LEMMA SubscriptionTypes ==
  ASSUME HubTypes, NEW s \in DOMAIN subs
  PROVE  /\ subs[s] \in Subscriptions /\ subs[s].queue \in Seq(Events)
         /\ DOMAIN subs = 1..Len(subs) /\ Len(subs) \in Nat
<1>1. subs \in Seq(Subscriptions)
  BY DEF HubTypes
<1>2. DOMAIN subs = 1..Len(subs) /\ Len(subs) \in Nat
  BY <1>1, LenProperties
<1>3. subs[s] \in Subscriptions
  BY <1>1, <1>2, ElementOfSeq
<1>4. QED
  BY <1>2, <1>3 DEF Subscriptions

(* The same subscriptions, of the same topics.                             *)
SameSubs ==
  /\ subs' \in Seq(Subscriptions) /\ Len(subs') = Len(subs) /\ DOMAIN subs' = DOMAIN subs
  /\ \A s \in DOMAIN subs : subs'[s].topic = subs[s].topic

LEMMA DeliverSubs ==
  ASSUME HubTypes, NEW e \in Events, Deliver(e)
  PROVE  /\ SameSubs
         /\ \A s \in DOMAIN subs :
              /\ subs'[s].state = subs[s].state
              /\ subs'[s].queue = IF subs[s].topic = "agent" /\ subs[s].state = "on"
                                  THEN Append(subs[s].queue, e) ELSE subs[s].queue
<1>1. DOMAIN subs = 1..Len(subs) /\ Len(subs) \in Nat
  BY LenProperties DEF HubTypes
<1>2. ASSUME NEW s \in DOMAIN subs
      PROVE  /\ subs'[s] \in Subscriptions /\ subs'[s].topic = subs[s].topic
             /\ subs'[s].state = subs[s].state
             /\ subs'[s].queue = IF subs[s].topic = "agent" /\ subs[s].state = "on"
                                 THEN Append(subs[s].queue, e) ELSE subs[s].queue
  <2>1. subs[s] \in Subscriptions /\ Append(subs[s].queue, e) \in Seq(Events)
    BY SubscriptionTypes, AppendProperties
  <2>2. subs'[s] = IF subs[s].topic = "agent" /\ subs[s].state = "on"
                   THEN [subs[s] EXCEPT !.queue = Append(subs[s].queue, e)] ELSE subs[s]
    BY DEF Deliver
  <2>3. QED
    BY <2>1, <2>2 DEF Subscriptions
<1>3. subs' \in [1..Len(subs) -> Subscriptions]
  BY <1>1, <1>2 DEF Deliver
<1>4. subs' \in Seq(Subscriptions) /\ Len(subs') = Len(subs) /\ DOMAIN subs' = DOMAIN subs
  BY <1>1, <1>3, SeqOfFunction
<1>5. QED
  BY <1>2, <1>4 DEF SameSubs

LEMMA StateSubs ==
  ASSUME HubTypes, NEW s \in DOMAIN subs, NEW state \in {"asked", "on", "closed"},
         subs' = [subs EXCEPT ![s].state = state]
  PROVE  /\ SameSubs
         /\ \A r \in DOMAIN subs : /\ subs'[r].queue = subs[r].queue
                                   /\ subs'[r].state = IF r = s THEN state ELSE subs[r].state
<1>1. DOMAIN subs = 1..Len(subs) /\ Len(subs) \in Nat /\ \A r \in DOMAIN subs : subs[r] \in Subscriptions
  BY LenProperties, SubscriptionTypes DEF HubTypes
<1>2. [subs[s] EXCEPT !.state = state] \in Subscriptions
  BY <1>1 DEF Subscriptions
<1>3. subs' = [subs EXCEPT ![s] = [subs[s] EXCEPT !.state = state]]
  OBVIOUS
<1>4. subs' \in Seq(Subscriptions) /\ Len(subs') = Len(subs) /\ DOMAIN subs' = DOMAIN subs
  BY <1>1, <1>2, <1>3, ExceptSeq, LenProperties DEF HubTypes
<1>5. \A r \in DOMAIN subs : /\ subs'[r].queue = subs[r].queue /\ subs'[r].topic = subs[r].topic
                             /\ subs'[r].state = IF r = s THEN state ELSE subs[r].state
  BY <1>1, <1>3 DEF Subscriptions
<1>6. QED
  BY <1>4, <1>5 DEF SameSubs

LEMMA FanoutSubs ==
  ASSUME HubTypes, NEW s \in DOMAIN subs, subs[s].queue # <<>>,
         subs' = [subs EXCEPT ![s].queue = Tail(@)]
  PROVE  /\ SameSubs
         /\ \A r \in DOMAIN subs :
              /\ subs'[r].state = subs[r].state
              /\ subs'[r].queue = IF r = s THEN Tail(subs[s].queue) ELSE subs[r].queue
<1>1. /\ DOMAIN subs = 1..Len(subs) /\ Len(subs) \in Nat
      /\ \A r \in DOMAIN subs : subs[r] \in Subscriptions
  BY LenProperties, SubscriptionTypes DEF HubTypes
<1>2. Tail(subs[s].queue) \in Seq(Events)
  BY <1>1, HeadTailProperties DEF Subscriptions
<1>3. [subs[s] EXCEPT !.queue = Tail(subs[s].queue)] \in Subscriptions
  BY <1>1, <1>2 DEF Subscriptions
<1>4. subs' = [subs EXCEPT ![s] = [subs[s] EXCEPT !.queue = Tail(subs[s].queue)]]
  OBVIOUS
<1>5. subs' \in Seq(Subscriptions) /\ Len(subs') = Len(subs) /\ DOMAIN subs' = DOMAIN subs
  BY <1>1, <1>3, <1>4, ExceptSeq, LenProperties DEF HubTypes
<1>6. \A r \in DOMAIN subs : /\ subs'[r].state = subs[r].state /\ subs'[r].topic = subs[r].topic
                             /\ subs'[r].queue = IF r = s THEN Tail(subs[s].queue) ELSE subs[r].queue
  BY <1>1, <1>4 DEF Subscriptions
<1>7. QED
  BY <1>5, <1>6 DEF SameSubs

LEMMA NewSub ==
  ASSUME HubTypes, NEW t \in Topics,
         subs' = Append(subs, [topic |-> t, state |-> "asked", queue |-> <<>>])
  PROVE  /\ subs' \in Seq(Subscriptions) /\ Len(subs') = Len(subs) + 1
         /\ DOMAIN subs' = DOMAIN subs \cup {Len(subs) + 1} /\ Len(subs) + 1 \notin DOMAIN subs
         /\ DOMAIN subs = 1..Len(subs) /\ Len(subs) \in Nat
         /\ \A s \in DOMAIN subs : subs'[s] = subs[s]
         /\ subs'[Len(subs) + 1] = [topic |-> t, state |-> "asked", queue |-> <<>>]
<1>1. [topic |-> t, state |-> "asked", queue |-> <<>>] \in Subscriptions
  BY EmptySeq DEF Subscriptions
<1>2. /\ subs' \in Seq(Subscriptions) /\ Len(subs') = Len(subs) + 1
      /\ \A i \in 1..Len(subs) : subs'[i] = subs[i]
      /\ subs'[Len(subs) + 1] = [topic |-> t, state |-> "asked", queue |-> <<>>]
      /\ DOMAIN subs = 1..Len(subs) /\ Len(subs) \in Nat
  BY <1>1, AppendProperties, LenProperties DEF HubTypes
<1>3. DOMAIN subs' = 1..Len(subs) + 1
  BY <1>2, LenProperties
<1>4. QED
  BY <1>2, <1>3

LEMMA ReceivedTypes ==
  ASSUME HubTypes, NEW c \in Clients
  PROVE  /\ send[c] \in Seq(Events) /\ seen[c] \in Seq(Events) /\ Received(c) \in Seq(Events)
         /\ Len(send[c]) \in Nat /\ Len(send[c]) <= BufferSize
<1>1. send[c] \in Seq(Events) /\ seen[c] \in Seq(Events) /\ Len(send[c]) <= BufferSize
  BY DEF HubTypes
<1>2. Received(c) \in Seq(Events) /\ Len(send[c]) \in Nat
  BY <1>1, ConcatProperties, LenProperties DEF Received
<1>3. QED
  BY <1>1, <1>2

LEMMA SubOfTopic ==
  ASSUME HubTypes, NEW t \in Topics
  PROVE  sub[t] = 0 \/ sub[t] \in DOMAIN subs
BY LenProperties DEF HubTypes

LEMMA EmptyRange == Range(<<>>) = {} /\ InOrder(<<>>) /\ IsInjective(<<>>)
BY DEF Range, InOrder, IsInjective

-----------------------------------------------------------------------------
(* The subscriptions and the clients: one lemma for each kind of step.     *)

(* Steps that only store, date or read.                                    *)
LEMMA QuietStep ==
  ASSUME StreamInv, UNCHANGED <<subs, send, hub, breaks>>, log \subseteq log',
         Published \subseteq Published'
  PROVE  StreamInv'
<1>1. UNCHANGED <<subs, send, clients, sub, conn, clean, seen, breaks>>
  BY DEF hub
<1>2. HubTypes' /\ OneSubscriptionPerTopic' /\ Hub'
  BY <1>1 DEF StreamInv, HubTypes, OneSubscriptionPerTopic, Hub
<1>3. LiveIsStored' /\ Queues' /\ Inboxes'
  <2>1. \A c \in Clients : Received(c)' = Received(c)
    BY <1>1 DEF Received
  <2>2. LiveIsStored'
    BY <1>1, <2>1 DEF StreamInv, LiveIsStored
  <2>3. Queues'
    BY <1>1 DEF StreamInv, Queues, InOrder
  <2>4. Inboxes'
    BY <1>1, <2>1 DEF StreamInv, Inboxes
  <2>5. QED
    BY <2>2, <2>3, <2>4
<1>4. Clean'
  <2>1. \A t \in Topics : Draining(t)' <=> Draining(t)
    BY <1>1 DEF Draining
  <2>2. \A c \in Clients : Received(c)' = Received(c)
    BY <1>1 DEF Received
  <2>3. QED
    BY <1>1, <2>1, <2>2 DEF StreamInv, Clean, InOrder, Before
<1>5. QED
  BY <1>2, <1>3, <1>4 DEF StreamInv

(* Redis hands the event to the one subscription in use.                   *)
LEMMA PublishStep ==
  ASSUME Table, StreamInv, NEW p \in Publishers, Publish(p) \/ PublishUnstored(p),
         Deliver(Event(p)), Published \subseteq Published'
  PROVE  StreamInv'
<1> DEFINE e == Event(p)
<1>1. /\ HubTypes /\ OneSubscriptionPerTopic /\ Hub /\ LiveIsStored /\ Queues /\ Inboxes /\ Clean
      /\ UNCHANGED <<log, send, clients, sub, conn, clean, seen, breaks>>
  BY DEF StreamInv, Publish, PublishUnstored, hub, table
<1>2. /\ e \in Events /\ e \in log \cup Unstored /\ e \notin Published /\ e \in Published'
      /\ Before(Published, {e})
  BY PublishesNext
<1> HIDE DEF e
<1>3. /\ SameSubs
      /\ \A s \in DOMAIN subs :
           /\ subs'[s].state = subs[s].state
           /\ subs'[s].queue = IF subs[s].topic = "agent" /\ subs[s].state = "on"
                               THEN Append(subs[s].queue, e) ELSE subs[s].queue
  BY <1>1, <1>2, DeliverSubs DEF e
<1>4. \A s \in DOMAIN subs : subs'[s].queue # subs[s].queue =>
        s = sub["agent"] /\ subs[s].topic = "agent" /\ subs'[s].queue = Append(subs[s].queue, e)
  BY <1>1, <1>3 DEF OneSubscriptionPerTopic
<1>5. \A s \in DOMAIN subs : subs[s].queue \in Seq(Events)
  BY <1>1, SubscriptionTypes
<1>6. \A s \in DOMAIN subs : subs'[s].queue # subs[s].queue =>
        Range(subs'[s].queue) = Range(subs[s].queue) \cup {e}
  <2>1. \A s \in DOMAIN subs : Range(Append(subs[s].queue, e)) = Range(subs[s].queue) \cup {e}
    BY <1>2, <1>5, AppendRange
  <2>2. QED
    BY <1>4, <2>1
<1>7. \A c \in Clients : Received(c)' = Received(c)
  BY <1>1 DEF Received
<1>8. HubTypes' /\ OneSubscriptionPerTopic' /\ Hub'
  <2>1. HubTypes'
    BY <1>1, <1>3 DEF HubTypes, SameSubs
  <2>2. OneSubscriptionPerTopic'
    BY <1>1, <1>3 DEF OneSubscriptionPerTopic, SameSubs
  <2>3. Hub'
    BY <1>1, <1>3, SubOfTopic DEF Hub, SameSubs
  <2>4. QED
    BY <2>1, <2>2, <2>3
<1>9. LiveIsStored'
  BY <1>1, <1>2, <1>3, <1>6, <1>7 DEF LiveIsStored, SameSubs
<1>10. Queues'
  <2>1. ASSUME NEW s \in DOMAIN subs
        PROVE  /\ InOrder(subs'[s].queue) /\ Range(subs'[s].queue) \subseteq Published'
               /\ subs'[s].topic = "board" => subs'[s].queue = <<>>
    <3>1. /\ InOrder(subs[s].queue) /\ Range(subs[s].queue) \subseteq Published
          /\ subs[s].topic = "board" => subs[s].queue = <<>>
      BY <1>1 DEF Queues
    <3>2. CASE subs'[s].queue = subs[s].queue
      BY <1>3, <3>1, <3>2 DEF SameSubs
    <3>3. CASE subs'[s].queue # subs[s].queue
      <4>1. Before(Range(subs[s].queue), {e})
        BY <1>2, <3>1 DEF Before
      <4>2. InOrder(subs'[s].queue)
        BY <1>2, <1>4, <1>5, <3>1, <3>3, <4>1, InOrderAppend
      <4>3. QED
        BY <1>2, <1>3, <1>4, <1>6, <3>1, <3>3, <4>2 DEF SameSubs
    <3>4. QED
      BY <3>2, <3>3
  <2>2. ASSUME NEW s \in DOMAIN subs, NEW r \in DOMAIN subs, s # r
        PROVE  Range(subs'[s].queue) \cap Range(subs'[r].queue) = {}
    <3>1. /\ Range(subs[s].queue) \cap Range(subs[r].queue) = {}
          /\ e \notin Range(subs[s].queue) /\ e \notin Range(subs[r].queue)
      BY <1>1, <1>2, <2>2 DEF Queues
    <3>2. subs'[s].queue = subs[s].queue \/ subs'[r].queue = subs[r].queue
      BY <1>4, <2>2
    <3>3. QED
      BY <1>6, <3>1, <3>2
  <2>3. QED
    BY <1>3, <2>1, <2>2 DEF Queues, SameSubs, InOrder
<1>11. Inboxes'
  <2>1. ASSUME NEW c \in Clients, NEW s \in DOMAIN subs
        PROVE  Range(subs'[s].queue) \cap Range(Received(c)) = {}
    BY <1>1, <1>2, <1>6 DEF Inboxes
  <2>2. QED
    BY <1>1, <1>3, <1>7, <2>1 DEF Inboxes, SameSubs
<1>12. Clean'
  <2>1. SUFFICES ASSUME NEW c \in Clients, clean[c], NEW t \in Topics, c \in clients[t]
                 PROVE  ~Draining(t)' /\ Before(Range(Received(c)), Range(subs'[sub[t]].queue))
    BY <1>1, <1>7 DEF Clean, Before, InOrder
  <2>2. ~Draining(t) /\ Before(Range(Received(c)), Range(subs[sub[t]].queue))
    BY <1>1, <2>1 DEF Clean
  <2>3. ~Draining(t)'
    BY <1>1, <1>3, <1>4, <2>2 DEF Draining, SameSubs
  <2>4. sub[t] \in DOMAIN subs
    BY <1>1, <2>1, SubOfTopic DEF OneSubscriptionPerTopic
  <2>5. Before(Range(Received(c)), {e})
    BY <1>1, <1>2 DEF Inboxes, Before
  <2>6. Before(Range(Received(c)), Range(subs'[sub[t]].queue))
    BY <1>6, <2>2, <2>4, <2>5 DEF Before
  <2>7. QED
    BY <2>3, <2>6
<1>13. QED
  BY <1>8, <1>9, <1>10, <1>11, <1>12 DEF StreamInv

(* A subscription goes on or is asked for again: nothing is closed.        *)
LEMMA RedisStep ==
  ASSUME StreamInv, NEW s \in 1..MaxSubs, RedisSubscribes(s) \/ RedisBreaks(s)
  PROVE  StreamInv' /\ UNCHANGED <<next, stage, dated, log, replay>>
<1>1. /\ HubTypes /\ OneSubscriptionPerTopic /\ Hub /\ LiveIsStored /\ Queues /\ Inboxes /\ Clean
      /\ s \in DOMAIN subs /\ subs[s].state # "closed"
      /\ UNCHANGED <<next, stage, dated, log, send, clients, sub, conn, clean, seen, replay>>
      /\ breaks' \in 0..MaxBreaks
  BY StreamAssumption DEF StreamInv, RedisSubscribes, RedisBreaks, hub, table, HubTypes
<1>2. PICK state \in {"asked", "on"} : subs' = [subs EXCEPT ![s].state = state]
  BY DEF RedisSubscribes, RedisBreaks
<1>3. /\ SameSubs
      /\ \A r \in DOMAIN subs : /\ subs'[r].queue = subs[r].queue
                                /\ subs'[r].state = IF r = s THEN state ELSE subs[r].state
  BY <1>1, <1>2, StateSubs
<1>4. \A c \in Clients : Received(c)' = Received(c)
  BY <1>1 DEF Received
<1>5. HubTypes'
  BY <1>1, <1>3 DEF HubTypes, SameSubs
<1>6. OneSubscriptionPerTopic'
  BY <1>1, <1>3 DEF OneSubscriptionPerTopic, SameSubs
<1>7. Hub'
  BY <1>1, <1>3, SubOfTopic DEF Hub, SameSubs
<1>8. LiveIsStored'
  BY <1>1, <1>3, <1>4 DEF LiveIsStored, SameSubs
<1>9. Published' = Published
  BY <1>1 DEF Published
<1>10. Queues'
  <2>1. \A r \in DOMAIN subs :
          /\ InOrder(subs'[r].queue) /\ Range(subs'[r].queue) = Range(subs[r].queue)
          /\ subs'[r].topic = "board" => subs'[r].queue = <<>>
    BY <1>1, <1>3 DEF Queues, SameSubs
  <2>2. QED
    BY <1>1, <1>3, <1>9, <2>1 DEF Queues, SameSubs, InOrder
<1>11. Inboxes'
  BY <1>1, <1>3, <1>4, <1>9 DEF Inboxes, SameSubs
<1>12. Clean'
  <2>1. \A t \in Topics : Draining(t)' <=> Draining(t)
    BY <1>1, <1>3 DEF Draining, SameSubs
  <2>2. \A c \in Clients, t \in Topics : c \in clients[t] => sub[t] \in DOMAIN subs
    BY <1>1, SubOfTopic DEF OneSubscriptionPerTopic
  <2>3. QED
    BY <1>1, <1>3, <1>4, <2>1, <2>2 DEF Clean, InOrder, Before
<1>13. QED
  BY <1>1, <1>5, <1>6, <1>7, <1>8, <1>10, <1>11, <1>12 DEF StreamInv

(* Received stays as it was.                                               *)
LEMMA WriteStep ==
  ASSUME StreamInv, NEW c \in Clients, Write(c)
  PROVE  StreamInv' /\ UNCHANGED <<next, stage, dated, log, replay>>
<1>1. /\ HubTypes /\ OneSubscriptionPerTopic /\ Hub /\ LiveIsStored /\ Queues /\ Inboxes /\ Clean
      /\ UNCHANGED <<next, stage, dated, log, clients, sub, subs, conn, clean, replay, breaks>>
      /\ conn[c] = "open" /\ send[c] # <<>>
      /\ seen' = [seen EXCEPT ![c] = Append(seen[c], Head(send[c]))]
      /\ send' = [send EXCEPT ![c] = Tail(send[c])]
  BY DEF StreamInv, Write, table
<1>2. \A d \in Clients : /\ send'[d] = IF d = c THEN Tail(send[c]) ELSE send[d]
                         /\ seen'[d] = IF d = c THEN Append(seen[c], Head(send[c])) ELSE seen[d]
  BY <1>1 DEF HubTypes
<1>3. \A d \in Clients : Received(d)' = Received(d)
  <2>1. send[c] \in Seq(Events) /\ seen[c] \in Seq(Events)
    BY <1>1 DEF HubTypes
  <2>2. Append(seen[c], Head(send[c])) \o Tail(send[c]) = seen[c] \o send[c]
    BY <1>1, <2>1, WriteKeeps
  <2>3. QED
    BY <1>2, <2>2 DEF Received
<1>4. HubTypes'
  <2>1. /\ send[c] \in Seq(Events) /\ seen[c] \in Seq(Events) /\ Len(send[c]) <= BufferSize
        /\ Len(send[c]) \in Nat
    BY <1>1, ReceivedTypes
  <2>2. /\ Tail(send[c]) \in Seq(Events) /\ Head(send[c]) \in Events
        /\ Len(Tail(send[c])) = Len(send[c]) - 1
    BY <1>1, <2>1, TailRange
  <2>3. Append(seen[c], Head(send[c])) \in Seq(Events)
    BY <2>1, <2>2, AppendProperties
  <2>4. /\ send' \in [Clients -> Seq(Events)] /\ seen' \in [Clients -> Seq(Events)]
        /\ \A d \in Clients : Len(send'[d]) <= BufferSize
    BY <1>1, <1>2, <2>1, <2>2, <2>3, StreamAssumption DEF HubTypes
  <2>5. QED
    BY <1>1, <2>4 DEF HubTypes
<1>5. Hub' /\ OneSubscriptionPerTopic'
  BY <1>1, <1>2 DEF Hub, OneSubscriptionPerTopic
<1>6. LiveIsStored'
  BY <1>1, <1>3 DEF LiveIsStored
<1>7. Published' = Published
  BY <1>1 DEF Published
<1>8. Queues'
  <2>1. /\ \A r \in DOMAIN subs :
             /\ InOrder(subs'[r].queue) /\ Range(subs'[r].queue) \subseteq Published'
             /\ subs'[r].topic = "board" => subs'[r].queue = <<>>
        /\ \A r, u \in DOMAIN subs : r # u => Range(subs'[r].queue) \cap Range(subs'[u].queue) = {}
    BY <1>1, <1>7 DEF Queues
  <2>2. QED
    BY <1>1, <2>1 DEF Queues, InOrder
<1>9. Inboxes'
  BY <1>1, <1>3, <1>7 DEF Inboxes
<1>10. Clean'
  <2>1. \A t \in Topics : Draining(t)' <=> Draining(t)
    BY <1>1 DEF Draining
  <2>2. QED
    BY <1>1, <1>3, <2>1 DEF Clean, InOrder, Before
<1>11. QED
  BY <1>1, <1>4, <1>5, <1>6, <1>8, <1>9, <1>10 DEF StreamInv

(* The event moves from the head of a queue to clients of its topic.       *)
LEMMA FanoutStep ==
  ASSUME StreamInv, NEW s \in 1..MaxSubs, Fanout(s)
  PROVE  StreamInv' /\ UNCHANGED <<next, stage, dated, log, replay>>
<1> DEFINE queue == subs[s].queue
           e == Head(queue)
           gets(c) == c \in clients[subs[s].topic] /\ ~Full(c)
<1>1. /\ HubTypes /\ OneSubscriptionPerTopic /\ Hub /\ LiveIsStored /\ Queues /\ Inboxes /\ Clean
      /\ UNCHANGED <<next, stage, dated, log, clients, sub, conn, clean, seen, replay, breaks>>
      /\ s \in DOMAIN subs /\ queue # <<>>
      /\ send' = [c \in Clients |-> IF gets(c) THEN Append(send[c], e) ELSE send[c]]
      /\ subs' = [subs EXCEPT ![s].queue = Tail(@)]
  BY DEF StreamInv, Fanout, hub, table
<1>2. queue \in Seq(Events) /\ subs[s].topic \in Topics
  BY <1>1, SubscriptionTypes DEF Subscriptions
<1>3. /\ e \in Events /\ Tail(queue) \in Seq(Events) /\ Range(queue) = {e} \cup Range(Tail(queue))
      /\ InOrder(Tail(queue)) /\ Before({e}, Range(Tail(queue))) /\ e \notin Range(Tail(queue))
  BY <1>1, <1>2, TailRange, InOrderTail DEF Queues
<1>4. /\ SameSubs
      /\ \A r \in DOMAIN subs : /\ subs'[r].state = subs[r].state
                                /\ subs'[r].queue = IF r = s THEN Tail(queue) ELSE subs[r].queue
  BY <1>1, FanoutSubs
<1>5. \A c \in Clients : send'[c] = IF gets(c) THEN Append(send[c], e) ELSE send[c]
  BY <1>1
<1> HIDE DEF gets, e, queue
<1>6. \A c \in Clients : /\ gets(c) => Received(c)' = Append(Received(c), e)
                         /\ ~gets(c) => Received(c)' = Received(c)
  <2>1. ASSUME NEW c \in Clients PROVE seen[c] \o Append(send[c], e) = Append(seen[c] \o send[c], e)
    <3>1. seen[c] \in Seq(Events) /\ send[c] \in Seq(Events)
      BY <1>1, ReceivedTypes
    <3>2. \A a, b \in Seq(Events) : a \o Append(b, e) = Append(a \o b, e)
      BY <1>3, ConcatAppend
    <3>3. QED
      BY <3>1, <3>2
  <2>2. QED
    BY <1>1, <1>5, <2>1 DEF Received
<1>7. \A c \in Clients : /\ gets(c) => Range(Received(c)') = Range(Received(c)) \cup {e}
                         /\ ~gets(c) => Range(Received(c)') = Range(Received(c))
  <2>1. \A c \in Clients : Range(Append(Received(c), e)) = Range(Received(c)) \cup {e}
    BY <1>1, <1>3, ReceivedTypes, AppendRange
  <2>2. QED
    BY <1>6, <2>1
<1>8. \A r \in DOMAIN subs : Range(subs'[r].queue) \subseteq Range(subs[r].queue)
  BY <1>3, <1>4 DEF queue
<1>9. HubTypes'
  <2>1. ASSUME NEW c \in Clients
        PROVE  send'[c] \in Seq(Events) /\ Len(send'[c]) <= BufferSize
    <3>1. send[c] \in Seq(Events) /\ Len(send[c]) \in Nat /\ Len(send[c]) <= BufferSize
      BY <1>1, ReceivedTypes
    <3>2. Append(send[c], e) \in Seq(Events) /\ Len(Append(send[c], e)) = Len(send[c]) + 1
      BY <1>3, <3>1, AppendProperties
    <3>3. gets(c) => Len(send[c]) # BufferSize
      BY DEF gets, Full
    <3>4. BufferSize \in Nat
      BY StreamAssumption
    <3>5. CASE gets(c)
      <4>1. send'[c] = Append(send[c], e)
        BY <1>5, <3>5
      <4>2. Len(send[c]) + 1 <= BufferSize
        BY <3>1, <3>3, <3>4, <3>5
      <4>3. QED
        BY <3>2, <4>1, <4>2
    <3>6. CASE ~gets(c)
      BY <1>5, <3>1, <3>6
    <3>7. QED
      BY <3>5, <3>6
  <2>2. send' \in [Clients -> Seq(Events)]
    BY <1>1, <2>1
  <2>3. QED
    BY <1>1, <1>4, <2>1, <2>2 DEF HubTypes, SameSubs
<1>10. OneSubscriptionPerTopic'
  BY <1>1, <1>4 DEF OneSubscriptionPerTopic, SameSubs
<1>11. Hub'
  <2>1. \A c \in Clients : gets(c) => conn[c] = "open"
    BY <1>1, <1>2 DEF OneSubscriptionPerTopic, gets
  <2>2. \A c \in Clients : conn'[c] = "new" => send'[c] = <<>> /\ seen'[c] = <<>>
    BY <1>1, <1>5, <2>1 DEF Hub
  <2>3. QED
    BY <1>1, <1>4, <2>2, SubOfTopic DEF Hub, SameSubs
<1>12. LiveIsStored'
  <2>1. e \in log \cup Unstored
    BY <1>1, <1>3 DEF LiveIsStored, queue
  <2>2. \A c \in Clients : Range(Received(c)') \subseteq log \cup Unstored
    BY <1>1, <1>7, <2>1 DEF LiveIsStored
  <2>3. \A r \in DOMAIN subs' : Range(subs'[r].queue) \subseteq log \cup Unstored
    BY <1>1, <1>4, <1>8 DEF LiveIsStored, SameSubs
  <2>4. QED
    BY <1>1, <2>2, <2>3 DEF LiveIsStored
<1>13. Published' = Published
  BY <1>1 DEF Published
<1>14. Queues'
  <2>1. ASSUME NEW r \in DOMAIN subs
        PROVE  /\ InOrder(subs'[r].queue) /\ Range(subs'[r].queue) \subseteq Published
               /\ subs'[r].topic = "board" => subs'[r].queue = <<>>
    <3>1. /\ InOrder(subs[r].queue) /\ Range(subs[r].queue) \subseteq Published
          /\ subs[r].topic = "board" => subs[r].queue = <<>>
      BY <1>1 DEF Queues
    <3>2. r = s => subs[r].queue # <<>>
      BY <1>1 DEF queue
    <3>3. QED
      BY <1>3, <1>4, <1>8, <3>1, <3>2 DEF SameSubs
  <2>2. \A r, u \in DOMAIN subs : r # u => Range(subs'[r].queue) \cap Range(subs'[u].queue) = {}
    BY <1>1, <1>8 DEF Queues
  <2>3. QED
    BY <1>4, <1>13, <2>1, <2>2 DEF Queues, SameSubs, InOrder
<1>15. Inboxes'
  <2>1. ASSUME NEW c \in Clients
        PROVE  /\ IsInjective(Received(c)') /\ Range(Received(c)') \subseteq Published
               /\ \A r \in DOMAIN subs : Range(subs'[r].queue) \cap Range(Received(c)') = {}
    <3>1. /\ IsInjective(Received(c)) /\ Range(Received(c)) \subseteq Published
          /\ \A r \in DOMAIN subs : Range(subs[r].queue) \cap Range(Received(c)) = {}
      BY <1>1 DEF Inboxes
    <3>2. e \in Published /\ e \notin Range(Received(c))
      BY <1>1, <1>3, <3>1 DEF Queues, queue
    <3>3. \A r \in DOMAIN subs : e \notin Range(subs'[r].queue)
      <4>1. \A r \in DOMAIN subs \ {s} : Range(subs[r].queue) \cap Range(subs[s].queue) = {}
        BY <1>1 DEF Queues
      <4>2. QED
        BY <1>3, <1>4, <4>1 DEF queue
    <3>4. Range(Received(c)') \subseteq Published
      BY <1>7, <3>1, <3>2
    <3>5. \A r \in DOMAIN subs : Range(subs'[r].queue) \cap Range(Received(c)') = {}
      BY <1>7, <1>8, <3>1, <3>3
    <3>6. IsInjective(Received(c)')
      <4>1. Received(c) \in Seq(Events)
        BY <1>1, ReceivedTypes
      <4>2. IsInjective(Append(Received(c), e))
        BY <1>3, <3>1, <3>2, <4>1, AppendRange
      <4>3. QED
        BY <1>6, <3>1, <4>2
    <3>7. QED
      BY <3>4, <3>5, <3>6
  <2>2. QED
    BY <1>4, <1>13, <2>1 DEF Inboxes, SameSubs
<1>16. Clean'
  <2>1. ASSUME NEW c \in Clients, clean[c] PROVE InOrder(Received(c)')
    <3>1. InOrder(Received(c)) /\ Received(c) \in Seq(Events)
      BY <1>1, <2>1, ReceivedTypes DEF Clean
    <3>2. CASE gets(c)
      <4>1. /\ ~Draining(subs[s].topic)
            /\ Before(Range(Received(c)), Range(subs[sub[subs[s].topic]].queue))
        BY <1>1, <1>2, <2>1, <3>2 DEF Clean, gets
      <4>2. s = sub[subs[s].topic]
        BY <1>1, <4>1 DEF Draining, queue
      <4>3. Before(Range(Received(c)), {e})
        BY <1>3, <4>1, <4>2 DEF Before, queue
      <4>4. InOrder(Append(Received(c), e))
        BY <1>3, <3>1, <4>3, InOrderAppend
      <4>5. QED
        BY <1>6, <3>2, <4>4
    <3>3. CASE ~gets(c)
      BY <1>6, <3>1, <3>3
    <3>4. QED
      BY <3>2, <3>3
  <2>2. ASSUME NEW c \in Clients, clean[c], NEW t \in Topics, c \in clients[t]
        PROVE  ~Draining(t)' /\ Before(Range(Received(c)'), Range(subs'[sub[t]].queue))
    <3>1. ~Draining(t) /\ Before(Range(Received(c)), Range(subs[sub[t]].queue))
      BY <1>1, <2>2 DEF Clean
    <3>2. sub[t] \in DOMAIN subs
      BY <1>1, <2>2, SubOfTopic DEF OneSubscriptionPerTopic
    <3>3. ~Draining(t)'
      BY <1>1, <1>4, <3>1 DEF Draining, SameSubs, queue
    <3>4. Before(Range(Received(c)), Range(subs'[sub[t]].queue))
      BY <1>8, <3>1, <3>2 DEF Before
    <3>5. CASE gets(c)
      <4>1. t = subs[s].topic
        BY <1>1, <1>2, <2>2, <3>5 DEF Hub, gets
      <4>2. s = sub[t]
        BY <1>1, <3>1, <4>1 DEF Draining, queue
      <4>3. Before({e}, Range(subs'[sub[t]].queue))
        BY <1>1, <1>3, <1>4, <4>2
      <4>4. Before(Range(Received(c)) \cup {e}, Range(subs'[sub[t]].queue))
        BY <3>4, <4>3 DEF Before
      <4>5. QED
        BY <1>7, <3>3, <3>5, <4>4
    <3>6. CASE ~gets(c)
      BY <1>7, <3>3, <3>4, <3>6
    <3>7. QED
      BY <3>5, <3>6
  <2>3. QED
    BY <1>1, <2>1, <2>2 DEF Clean, InOrder, Before
<1>17. QED
  BY <1>1, <1>9, <1>10, <1>11, <1>12, <1>14, <1>15, <1>16 DEF StreamInv

(* What a connection does with the subscriptions: the first client of a    *)
(* topic opens one, with nothing queued.                                   *)
LEMMA SubscribeSubs ==
  ASSUME StreamInv, NEW c \in Clients, NEW t \in Topics, Subscribe(t, c)
  PROVE  /\ subs' \in Seq(Subscriptions) /\ DOMAIN subs \subseteq DOMAIN subs'
         /\ \A s \in DOMAIN subs : subs'[s] = subs[s]
         /\ \A s \in DOMAIN subs' \ DOMAIN subs :
              /\ subs'[s].queue = <<>> /\ subs'[s].topic = t
              /\ sub'[t] = s /\ sub[t] = 0 /\ clients[t] = {}
         /\ sub' \in [Topics -> 0..Len(subs')] /\ sub'[t] \in DOMAIN subs' /\ sub'[t] # 0
         /\ subs'[sub'[t]].topic = t
         /\ clients[t] # {} => sub'[t] = sub[t]
         /\ clients[t] = {} => sub[t] = 0
         /\ \A u \in Topics \ {t} : sub'[u] = sub[u]
<1>1. HubTypes /\ OneSubscriptionPerTopic /\ Hub
  BY DEF StreamInv
<1>2. DOMAIN subs = 1..Len(subs) /\ Len(subs) \in Nat
  BY <1>1, LenProperties DEF HubTypes
<1>3. CASE clients[t] = {}
  <2>1. /\ subs' = Append(subs, [topic |-> t, state |-> "asked", queue |-> <<>>])
        /\ sub' = [sub EXCEPT ![t] = Len(subs) + 1]
    BY <1>3 DEF Subscribe
  <2>2. sub[t] = 0
    BY <1>1, <1>3 DEF OneSubscriptionPerTopic
  <2>3. /\ subs' \in Seq(Subscriptions) /\ Len(subs') = Len(subs) + 1
        /\ DOMAIN subs' = DOMAIN subs \cup {Len(subs) + 1} /\ Len(subs) + 1 \notin DOMAIN subs
        /\ \A s \in DOMAIN subs : subs'[s] = subs[s]
        /\ subs'[Len(subs) + 1] = [topic |-> t, state |-> "asked", queue |-> <<>>]
    BY <1>1, <2>1, NewSub
  <2>4. sub' \in [Topics -> 0..Len(subs')] /\ sub'[t] = Len(subs) + 1
        /\ \A u \in Topics \ {t} : sub'[u] = sub[u]
    BY <1>1, <1>2, <2>1, <2>3 DEF HubTypes
  <2>5. QED
    BY <1>2, <1>3, <2>2, <2>3, <2>4
<1>4. CASE clients[t] # {}
  <2>1. subs' = subs /\ sub' = sub /\ sub[t] # 0
    BY <1>1, <1>4 DEF Subscribe, OneSubscriptionPerTopic
  <2>2. sub[t] \in DOMAIN subs /\ subs[sub[t]].topic = t
    BY <1>1, <2>1, SubOfTopic DEF Hub
  <2>3. QED
    BY <1>1, <1>4, <2>1, <2>2 DEF HubTypes
<1>5. QED
  BY <1>3, <1>4

LEMMA SubscribeStep ==
  ASSUME StreamInv, NEW c \in Clients, NEW t \in Topics, Subscribe(t, c), conn[c] = "new",
         conn' = [conn EXCEPT ![c] = "open"], clean' = [clean EXCEPT ![c] = ~Draining(t)],
         UNCHANGED <<next, log, send, seen, breaks>>
  PROVE  StreamInv'
<1>1. /\ HubTypes /\ OneSubscriptionPerTopic /\ Hub /\ LiveIsStored /\ Queues /\ Inboxes /\ Clean
      /\ clients' = [clients EXCEPT ![t] = clients[t] \cup {c}]
  BY DEF StreamInv, Subscribe
<1>2. /\ subs' \in Seq(Subscriptions) /\ DOMAIN subs \subseteq DOMAIN subs'
      /\ \A s \in DOMAIN subs : subs'[s] = subs[s]
      /\ \A s \in DOMAIN subs' \ DOMAIN subs :
           /\ subs'[s].queue = <<>> /\ subs'[s].topic = t
           /\ sub'[t] = s /\ sub[t] = 0 /\ clients[t] = {}
      /\ sub' \in [Topics -> 0..Len(subs')] /\ sub'[t] \in DOMAIN subs' /\ sub'[t] # 0
      /\ subs'[sub'[t]].topic = t
      /\ clients[t] # {} => sub'[t] = sub[t]
      /\ clients[t] = {} => sub[t] = 0
      /\ \A u \in Topics \ {t} : sub'[u] = sub[u]
  BY SubscribeSubs
<1>3. /\ \A d \in Clients : conn'[d] = IF d = c THEN "open" ELSE conn[d]
      /\ \A d \in Clients : clean'[d] = IF d = c THEN ~Draining(t) ELSE clean[d]
      /\ \A u \in Topics : clients'[u] = IF u = t THEN clients[t] \cup {c} ELSE clients[u]
  BY <1>1 DEF HubTypes
<1>4. \A u \in Topics : c \notin clients[u]
  BY <1>1 DEF OneSubscriptionPerTopic
<1>5. \A d \in Clients : Received(d)' = Received(d)
  BY DEF Received
<1>6. \A u \in Topics : sub[u] = 0 \/ sub[u] \in DOMAIN subs
  BY <1>1, SubOfTopic
<1>7. \A s \in DOMAIN subs : subs[s] \in Subscriptions
  BY <1>1, SubscriptionTypes
<1>8. HubTypes'
  <2>1. clients' \in [Topics -> SUBSET Clients] /\ conn' \in [Clients -> {"new", "open", "gone"}]
    BY <1>1 DEF HubTypes
  <2>2. clean' \in [Clients -> BOOLEAN]
    BY <1>1 DEF HubTypes, Draining
  <2>3. QED
    BY <1>1, <1>2, <2>1, <2>2 DEF HubTypes
<1>9. OneSubscriptionPerTopic'
  <2>1. \A u \in Topics : sub'[u] # 0 <=> clients'[u] # {}
    BY <1>1, <1>2, <1>3 DEF OneSubscriptionPerTopic
  <2>2. \A s \in DOMAIN subs' : subs'[s].state # "closed" => sub'[subs'[s].topic] = s
    <3>1. ASSUME NEW s \in DOMAIN subs, subs[s].state # "closed" PROVE sub'[subs[s].topic] = s
      <4>1. sub[subs[s].topic] = s /\ subs[s].topic \in Topics /\ s # 0
        BY <1>1, <1>7, <3>1, SubscriptionTypes DEF OneSubscriptionPerTopic, Subscriptions
      <4>2. QED
        BY <1>2, <4>1
    <3>2. QED
      BY <1>2, <3>1
  <2>3. \A d \in Clients : conn'[d] = "open" <=> \E u \in Topics : d \in clients'[u]
    BY <1>1, <1>3 DEF OneSubscriptionPerTopic
  <2>4. QED
    BY <2>1, <2>2, <2>3 DEF OneSubscriptionPerTopic
<1>10. Hub'
  <2>1. \A u \in Topics : sub'[u] # 0 => subs'[sub'[u]].topic = u
    BY <1>1, <1>2, <1>6 DEF Hub
  <2>2. QED
    BY <1>1, <1>3, <1>4, <2>1 DEF Hub
<1>11. LiveIsStored'
  BY <1>1, <1>2, <1>5, EmptyRange DEF LiveIsStored
<1>12. Published' = Published
  BY DEF Published
<1>13. Queues'
  <2>1. \A s \in DOMAIN subs' :
          /\ InOrder(subs'[s].queue) /\ Range(subs'[s].queue) \subseteq Published'
          /\ subs'[s].topic = "board" => subs'[s].queue = <<>>
    BY <1>1, <1>2, <1>12, EmptyRange DEF Queues
  <2>2. \A s, r \in DOMAIN subs' : s # r => Range(subs'[s].queue) \cap Range(subs'[r].queue) = {}
    BY <1>1, <1>2, EmptyRange DEF Queues
  <2>3. QED
    BY <2>1, <2>2 DEF Queues, InOrder
<1>14. Inboxes'
  BY <1>1, <1>2, <1>5, <1>12, EmptyRange DEF Inboxes
<1>15. Clean'
  <2>1. \A u \in Topics : (u = t => clients[t] # {}) /\ ~Draining(u) => ~Draining(u)'
    BY <1>2 DEF Draining
  <2>2. ASSUME ~Draining(t) PROVE ~Draining(t)'
    <3>1. CASE clients[t] # {}
      BY <2>1, <2>2, <3>1
    <3>2. CASE clients[t] = {}
      <4>1. \A s \in DOMAIN subs : s # 0
        BY <1>1, SubscriptionTypes
      <4>2. QED
        BY <1>2, <2>2, <3>2, <4>1 DEF Draining
    <3>3. QED
      BY <3>1, <3>2
  <2>3. ASSUME NEW d \in Clients, clean'[d]
        PROVE  InOrder(Received(d))
    <3>1. CASE d = c
      <4>1. send[c] = <<>> /\ seen[c] = <<>>
        BY <1>1 DEF Hub
      <4>2. Received(c) = <<>>
        BY <4>1, EmptySeq, ConcatEmptySeq DEF Received
      <4>3. QED
        BY <3>1, <4>2, EmptyRange
    <3>2. CASE d # c
      BY <1>1, <1>3, <2>3, <3>2 DEF Clean
    <3>3. QED
      BY <3>1, <3>2
  <2>4. ASSUME NEW d \in Clients, clean'[d], NEW u \in Topics, d \in clients'[u]
        PROVE  ~Draining(u)' /\ Before(Range(Received(d)), Range(subs'[sub'[u]].queue))
    <3>1. CASE d = c
      <4>1. send[c] = <<>> /\ seen[c] = <<>> /\ u = t /\ ~Draining(t)
        BY <1>1, <1>3, <1>4, <2>4, <3>1 DEF Hub
      <4>2. Received(c) = <<>>
        BY <4>1, EmptySeq, ConcatEmptySeq DEF Received
      <4>3. QED
        BY <2>2, <3>1, <4>1, <4>2, EmptyRange DEF Before
    <3>2. CASE d # c
      <4>1. d \in clients[u] /\ clean[d]
        BY <1>3, <2>4, <3>2
      <4>2. ~Draining(u) /\ Before(Range(Received(d)), Range(subs[sub[u]].queue))
        BY <1>1, <4>1 DEF Clean
      <4>3. sub[u] # 0 /\ sub'[u] = sub[u]
        BY <1>1, <1>2, <4>1 DEF OneSubscriptionPerTopic
      <4>4. QED
        BY <1>2, <1>6, <2>1, <4>1, <4>2, <4>3
    <3>3. QED
      BY <3>1, <3>2
  <2>5. QED
    BY <1>5, <2>3, <2>4 DEF Clean, InOrder, Before
<1>16. QED
  BY <1>8, <1>9, <1>10, <1>11, <1>13, <1>14, <1>15 DEF StreamInv

LEMMA ConnectStep ==
  ASSUME StreamInv, NEW c \in Clients, NEW t \in Topics, Connect(c, t)
  PROVE  StreamInv' /\ UNCHANGED <<next, stage, dated, log, replay>>
<1>1. /\ conn[c] = "new"
      /\ UNCHANGED <<next, stage, dated, log, send, seen, replay, breaks>>
  BY DEF Connect, table
<1>2. CASE conn' = [conn EXCEPT ![c] = "gone"] /\ UNCHANGED <<subs, sub, clients, clean>>
  <2>1. \A d \in Clients : conn'[d] = IF d = c THEN "gone" ELSE conn[d]
    BY <1>2 DEF StreamInv, HubTypes
  <2>2. HubTypes' /\ OneSubscriptionPerTopic' /\ Hub'
    BY <1>1, <1>2, <2>1 DEF StreamInv, HubTypes, OneSubscriptionPerTopic, Hub
  <2>3. \A d \in Clients : Received(d)' = Received(d)
    BY <1>1 DEF Received
  <2>4. LiveIsStored' /\ Inboxes'
    BY <1>1, <1>2, <2>3 DEF StreamInv, LiveIsStored, Inboxes, Published
  <2>5. Queues'
    <3>1. Published' = Published
      BY <1>1 DEF Published
    <3>2. QED
      BY <1>2, <3>1 DEF StreamInv, Queues, InOrder
  <2>6. Clean'
    <3>1. \A u \in Topics : Draining(u)' <=> Draining(u)
      BY <1>2 DEF Draining
    <3>2. QED
      BY <1>1, <1>2, <2>3, <3>1 DEF StreamInv, Clean, InOrder, Before
  <2>7. QED
    BY <1>1, <2>2, <2>4, <2>5, <2>6 DEF StreamInv
<1>3. CASE /\ conn' = [conn EXCEPT ![c] = "open"]
           /\ clean' = [clean EXCEPT ![c] = ~Draining(t)]
           /\ Subscribe(t, c)
  BY <1>1, <1>3, SubscribeStep
<1>4. QED
  BY <1>2, <1>3 DEF Connect

(* The last client of a topic closes its subscription.                     *)
LEMMA UnsubscribeSubs ==
  ASSUME StreamInv, NEW c \in Clients, NEW t \in Topics, c \in clients[t], Unsubscribe(t, c)
  PROVE  /\ SameSubs
         /\ \A s \in DOMAIN subs :
              /\ subs'[s].queue = subs[s].queue
              /\ subs'[s].state # "closed" =>
                   subs[s].state # "closed" /\ ~(s = sub[t] /\ clients[t] = {c})
         /\ sub' \in [Topics -> 0..Len(subs')]
         /\ sub'[t] = IF clients[t] = {c} THEN 0 ELSE sub[t]
         /\ \A u \in Topics \ {t} : sub'[u] = sub[u]
<1>1. HubTypes /\ OneSubscriptionPerTopic /\ Hub
  BY DEF StreamInv
<1>2. DOMAIN subs = 1..Len(subs) /\ Len(subs) \in Nat
  BY <1>1, LenProperties DEF HubTypes
<1>3. CASE clients[t] = {c}
  <2>1. subs' = [subs EXCEPT ![sub[t]].state = "closed"] /\ sub' = [sub EXCEPT ![t] = 0]
    BY <1>3 DEF Unsubscribe
  <2>2. sub[t] \in DOMAIN subs
    BY <1>1, SubOfTopic DEF OneSubscriptionPerTopic
  <2>3. /\ SameSubs
        /\ \A s \in DOMAIN subs : /\ subs'[s].queue = subs[s].queue
                                  /\ subs'[s].state = IF s = sub[t] THEN "closed" ELSE subs[s].state
    BY <1>1, <2>1, <2>2, StateSubs
  <2>4. sub' \in [Topics -> 0..Len(subs')] /\ sub'[t] = 0 /\ \A u \in Topics \ {t} : sub'[u] = sub[u]
    BY <1>1, <1>2, <2>1, <2>3 DEF HubTypes, SameSubs
  <2>5. QED
    BY <1>3, <2>3, <2>4
<1>4. CASE clients[t] # {c}
  <2>1. subs' = subs /\ sub' = sub
    BY <1>4 DEF Unsubscribe
  <2>2. QED
    BY <1>1, <1>4, <2>1 DEF HubTypes, SameSubs
<1>5. QED
  BY <1>3, <1>4

LEMMA DisconnectStep ==
  ASSUME StreamInv, NEW c \in Clients, NEW t \in Topics, Disconnect(c, t)
  PROVE  StreamInv' /\ UNCHANGED <<next, stage, dated, log, replay>>
<1>1. /\ HubTypes /\ OneSubscriptionPerTopic /\ Hub /\ LiveIsStored /\ Queues /\ Inboxes /\ Clean
      /\ UNCHANGED <<next, stage, dated, log, send, clean, seen, replay, breaks>>
      /\ c \in clients[t] /\ Unsubscribe(t, c)
      /\ conn' = [conn EXCEPT ![c] = "gone"]
      /\ clients' = [clients EXCEPT ![t] = clients[t] \ {c}]
  BY DEF StreamInv, Disconnect, Unsubscribe, table
<1>2. /\ SameSubs
      /\ \A s \in DOMAIN subs :
           /\ subs'[s].queue = subs[s].queue
           /\ subs'[s].state # "closed" =>
                subs[s].state # "closed" /\ ~(s = sub[t] /\ clients[t] = {c})
      /\ sub' \in [Topics -> 0..Len(subs')]
      /\ sub'[t] = IF clients[t] = {c} THEN 0 ELSE sub[t]
      /\ \A u \in Topics \ {t} : sub'[u] = sub[u]
  BY <1>1, UnsubscribeSubs
<1>3. /\ \A d \in Clients : conn'[d] = IF d = c THEN "gone" ELSE conn[d]
      /\ \A u \in Topics : clients'[u] = IF u = t THEN clients[t] \ {c} ELSE clients[u]
  BY <1>1 DEF HubTypes
<1>4. \A u \in Topics : c \notin clients'[u]
  BY <1>1, <1>3 DEF Hub
<1>5. \A d \in Clients : Received(d)' = Received(d)
  BY <1>1 DEF Received
<1>6. \A u \in Topics : sub[u] = 0 \/ sub[u] \in DOMAIN subs
  BY <1>1, SubOfTopic
<1>7. \A s \in DOMAIN subs : subs[s] \in Subscriptions
  BY <1>1, SubscriptionTypes
<1>8. HubTypes'
  <2>1. clients' \in [Topics -> SUBSET Clients] /\ conn' \in [Clients -> {"new", "open", "gone"}]
    BY <1>1 DEF HubTypes
  <2>2. QED
    BY <1>1, <1>2, <2>1 DEF HubTypes, SameSubs
<1>9. OneSubscriptionPerTopic'
  <2>1. \A u \in Topics : sub'[u] # 0 <=> clients'[u] # {}
    <3>1. sub'[t] # 0 <=> clients'[t] # {}
      BY <1>1, <1>2, <1>3 DEF OneSubscriptionPerTopic
    <3>2. QED
      BY <1>1, <1>2, <1>3, <3>1 DEF OneSubscriptionPerTopic
  <2>2. \A s \in DOMAIN subs : subs'[s].state # "closed" => sub'[subs'[s].topic] = s
    <3>1. ASSUME NEW s \in DOMAIN subs, subs'[s].state # "closed" PROVE sub'[subs[s].topic] = s
      <4>1. sub[subs[s].topic] = s /\ subs[s].topic \in Topics /\ ~(s = sub[t] /\ clients[t] = {c})
        BY <1>1, <1>2, <1>7, <3>1 DEF OneSubscriptionPerTopic, Subscriptions
      <4>2. QED
        BY <1>2, <4>1
    <3>2. QED
      BY <1>2, <3>1 DEF SameSubs
  <2>3. \A d \in Clients : conn'[d] = "open" <=> \E u \in Topics : d \in clients'[u]
    BY <1>1, <1>3, <1>4 DEF OneSubscriptionPerTopic
  <2>4. QED
    BY <1>2, <2>1, <2>2, <2>3 DEF OneSubscriptionPerTopic, SameSubs
<1>10. Hub'
  <2>1. \A u \in Topics : sub'[u] # 0 => subs'[sub'[u]].topic = u
    BY <1>1, <1>2, <1>6 DEF Hub, SameSubs
  <2>2. \A u \in Topics : clients'[u] \subseteq clients[u]
    BY <1>2, <1>3
  <2>3. QED
    BY <1>1, <1>3, <2>1, <2>2 DEF Hub
<1>11. LiveIsStored'
  BY <1>1, <1>2, <1>5 DEF LiveIsStored, SameSubs
<1>12. Published' = Published
  BY <1>1 DEF Published
<1>13. Queues'
  <2>1. \A s \in DOMAIN subs :
          /\ InOrder(subs'[s].queue) /\ Range(subs'[s].queue) \subseteq Published'
          /\ subs'[s].topic = "board" => subs'[s].queue = <<>>
    BY <1>1, <1>2, <1>12 DEF Queues, SameSubs
  <2>2. \A s, r \in DOMAIN subs : s # r => Range(subs'[s].queue) \cap Range(subs'[r].queue) = {}
    BY <1>1, <1>2 DEF Queues
  <2>3. QED
    BY <1>2, <2>1, <2>2 DEF Queues, SameSubs, InOrder
<1>14. Inboxes'
  BY <1>1, <1>2, <1>5, <1>12 DEF Inboxes, SameSubs
<1>15. Clean'
  <2>1. ASSUME NEW d \in Clients, clean[d], NEW u \in Topics, d \in clients'[u]
        PROVE  ~Draining(u)' /\ Before(Range(Received(d)), Range(subs'[sub'[u]].queue))
    <3>1. d \in clients[u]
      BY <1>3, <2>1
    <3>2. ~Draining(u) /\ Before(Range(Received(d)), Range(subs[sub[u]].queue)) /\ sub[u] # 0
      BY <1>1, <2>1, <3>1 DEF Clean, OneSubscriptionPerTopic
    <3>3. sub'[u] = sub[u]
      BY <1>2, <1>3, <2>1
    <3>4. ~Draining(u)'
      BY <1>2, <3>2, <3>3 DEF Draining, SameSubs
    <3>5. QED
      BY <1>2, <1>6, <3>2, <3>3, <3>4
  <2>2. QED
    BY <1>1, <1>5, <2>1 DEF Clean, InOrder, Before
<1>16. QED
  BY <1>1, <1>8, <1>9, <1>10, <1>11, <1>13, <1>14, <1>15 DEF StreamInv

LEMMA NextStream ==
  ASSUME Table, StreamInv, [Next]_vars
  PROVE  StreamInv'
<1>1. log \subseteq log' /\ Published \subseteq Published'
  BY NextTable, PublishedGrows
<1>2. CASE UNCHANGED <<subs, send, hub, breaks>>
  BY <1>1, <1>2, QuietStep
<1>3. ASSUME NEW p \in Publishers, Publish(p) \/ PublishUnstored(p) PROVE StreamInv'
  <2>1. CASE Deliver(Event(p))
    BY <1>1, <1>3, <2>1, PublishStep
  <2>2. CASE UNCHANGED subs
    BY <1>2, <1>3, <2>2 DEF Publish, PublishUnstored
  <2>3. QED
    BY <1>3, <2>1, <2>2 DEF Publish, PublishUnstored
<1>4. ASSUME NEW c \in Clients, Write(c) PROVE StreamInv'
  BY <1>4, WriteStep
<1>5. ASSUME NEW c \in Clients, NEW t \in Topics, Connect(c, t) \/ Disconnect(c, t) PROVE StreamInv'
  BY <1>5, ConnectStep, DisconnectStep
<1>6. ASSUME NEW s \in 1..MaxSubs, RedisSubscribes(s) \/ RedisBreaks(s) \/ Fanout(s) PROVE StreamInv'
  BY <1>6, RedisStep, FanoutStep
<1>7. QED
  BY <1>2, <1>3, <1>4, <1>5, <1>6 DEF Next, vars, Date, Store, FirstPage, NextPage

-----------------------------------------------------------------------------
(* The replay.                                                             *)

(* In what is in order every event has one place.                          *)
LEMMA PlaceOf ==
  ASSUME NEW d \in Seq(Events), InOrder(d)
  PROVE  /\ \A i, j \in DOMAIN d : d[i] = d[j] => i = j
         /\ \A e \in Range(d) : LET i == CHOOSE i \in DOMAIN d : d[i] = e
                                IN i \in DOMAIN d /\ i \in Nat /\ d[i] = e
<1>1. DOMAIN d \subseteq Nat /\ \A i \in DOMAIN d : d[i] \in Events
  BY LenProperties, ElementOfSeq
<1>2. ASSUME NEW i \in DOMAIN d, NEW j \in DOMAIN d, i < j PROVE d[i] # d[j]
  <2>1. PICK p \in Publishers : \E k \in DOMAIN Script[p] : d[i] = Script[p][k]
    BY <1>1, EventsAre
  <2>2. PICK k \in DOMAIN Script[p] : d[i] = Script[p][k]
    BY <2>1
  <2>3. DOMAIN Script[p] \subseteq Int
    BY StreamAssumption, LenProperties
  <2>4. QED
    BY <1>2, <2>2, <2>3 DEF InOrder
<1>3. \A i, j \in DOMAIN d : d[i] = d[j] => i = j
  BY <1>1, <1>2
<1>4. \A e \in Range(d) : \E i \in DOMAIN d : d[i] = e
  BY DEF Range
<1>5. QED
  BY <1>1, <1>3, <1>4

LEMMA DateIs ==
  ASSUME Table
  PROVE  \A e \in log : DateOf(e) \in DOMAIN dated /\ DateOf(e) \in Nat /\ dated[DateOf(e)] = e
BY PlaceOf DEF Table, TableTypes, Dates, DateOf

(* An event keeps its date.                                                *)
LEMMA DateKept ==
  ASSUME Table, [Next]_vars
  PROVE  \A e \in log : DateOf(e)' = DateOf(e)
<1>1. /\ dated \in Seq(Events) /\ InOrder(dated) /\ log \subseteq Range(dated)
      /\ dated' \in Seq(Events) /\ InOrder(dated')
  <2>1. TableTypes /\ Dates /\ TableTypes' /\ Dates'
    BY NextTable DEF Table
  <2>2. InOrder(dated')
    BY <2>1 DEF Dates, InOrder
  <2>3. QED
    BY <2>1, <2>2 DEF TableTypes, Dates
<1>2. \A i \in DOMAIN dated : i \in DOMAIN dated' /\ dated'[i] = dated[i]
  <2>1. ASSUME NEW p \in Publishers, Date(p)
        PROVE  \A i \in DOMAIN dated : i \in DOMAIN dated' /\ dated'[i] = dated[i]
    <3>1. dated' = Append(dated, Event(p)) /\ Event(p) \in Events
      BY <2>1, EventTypes DEF Date
    <3>2. DOMAIN dated = 1..Len(dated) /\ DOMAIN dated' = 1..Len(dated) + 1 /\ Len(dated) \in Nat
      BY <1>1, <3>1, AppendProperties, LenProperties
    <3>3. \A i \in 1..Len(dated) : dated'[i] = dated[i]
      BY <1>1, <3>1, AppendProperties
    <3>4. QED
      BY <3>2, <3>3
  <2>2. QED
    BY <2>1, TableStep DEF Store, Publish, PublishUnstored, table
<1>3. QED
  <2>1. SUFFICES ASSUME NEW e \in log PROVE DateOf(e)' = DateOf(e)
    OBVIOUS
  <2>2. DateOf(e) \in DOMAIN dated /\ dated[DateOf(e)] = e
    BY DateIs
  <2>3. e \in Range(dated')
    BY <1>2, <2>2 DEF Range
  <2>4. DateOf(e)' \in DOMAIN dated' /\ dated'[DateOf(e)'] = e
    BY <1>1, <2>3, PlaceOf DEF DateOf
  <2>5. QED
    BY <1>1, <1>2, <2>2, <2>4, PlaceOf

LEMMA PageIs ==
  ASSUME NEW rows, NEW page \in Pages(rows)
  PROVE  /\ page \in Seq(rows) /\ Len(page) \in Nat /\ DOMAIN page = 1..Len(page)
         /\ Len(page) <= PageSize
         /\ \A i, j \in 1..Len(page) : i < j => DateOf(page[i]) < DateOf(page[j])
         /\ \A e \in rows \ Range(page) :
              Len(page) = PageSize /\ \A i \in 1..Len(page) : DateOf(page[i]) < DateOf(e)
<1>1. PICK n \in 0..PageSize : page \in [1..n -> rows]
  BY DEF Pages
<1>2. n \in Nat /\ n <= PageSize
  BY StreamAssumption
<1>3. page \in Seq(rows) /\ Len(page) = n
  BY <1>1, <1>2, SeqOfFunction
<1>4. DOMAIN page = 1..Len(page)
  BY <1>1, <1>3
<1>5. QED
  BY <1>2, <1>3, <1>4 DEF Pages

(* A page begins after the last row read and ends where the next begins.   *)
LEMMA ReadReplay ==
  ASSUME Table, NEW got \in Seq(log), NEW steady \in SUBSET log, NEW rows \in SUBSET log,
         \A i, j \in DOMAIN got : i < j => DateOf(got[i]) < DateOf(got[j]),
         \A i \in DOMAIN got : \A e \in rows : DateOf(got[i]) < DateOf(e),
         \A e \in steady : e \in Range(got) \/ e \in rows,
         log' = log, dated' = dated, Read(rows, got, steady)
  PROVE  ReplayTypes' /\ Replay'
<1>1. PICK page \in Pages(rows) :
        replay' = [at |-> IF Len(page) < PageSize THEN "done" ELSE "paging",
                   got |-> got \o page, steady |-> steady]
  BY DEF Read
<1>2. /\ page \in Seq(rows) /\ Len(page) \in Nat /\ DOMAIN page = 1..Len(page)
      /\ Len(page) <= PageSize
      /\ \A i, j \in 1..Len(page) : i < j => DateOf(page[i]) < DateOf(page[j])
      /\ \A e \in rows \ Range(page) :
           Len(page) = PageSize /\ \A i \in 1..Len(page) : DateOf(page[i]) < DateOf(e)
  BY PageIs
<1> DEFINE all == got \o page
<1>3. page \in Seq(log) /\ \A i \in 1..Len(page) : page[i] \in rows
  BY <1>2, ElementOfSeq, SeqMonotonic
<1>4. /\ all \in Seq(log) /\ Len(all) = Len(got) + Len(page) /\ DOMAIN all = 1..Len(all)
      /\ Len(got) \in Nat /\ DOMAIN got = 1..Len(got) /\ Len(all) \in Nat
      /\ \A i \in 1..Len(all) : all[i] = IF i <= Len(got) THEN got[i] ELSE page[i - Len(got)]
  BY <1>3, ConcatProperties, LenProperties
<1> HIDE DEF all
<1>5. /\ replay'.got = all /\ replay'.steady = steady /\ replay'.at \in {"paging", "done"}
      /\ replay'.at = "paging" => Len(page) = PageSize /\ Len(page) \in 1..Len(page)
      /\ replay'.at = "done" => Len(page) # PageSize
  <2>1. PageSize \in Nat \ {0} /\ Len(page) \in Nat /\ Len(page) <= PageSize
    BY <1>2, StreamAssumption
  <2>2. /\ replay'.got = all /\ replay'.steady = steady
        /\ replay'.at = IF Len(page) < PageSize THEN "done" ELSE "paging"
    BY <1>1 DEF all
  <2>3. CASE Len(page) < PageSize
    BY <2>1, <2>2, <2>3
  <2>4. CASE ~(Len(page) < PageSize)
    <3>1. Len(page) = PageSize /\ Len(page) \in 1..Len(page)
      BY <2>1, <2>4
    <3>2. QED
      BY <2>2, <2>4, <3>1
  <2>5. QED
    BY <2>3, <2>4
<1>6. \A e \in log : DateOf(e)' = DateOf(e) /\ DateOf(e) \in Nat
  BY DateIs DEF DateOf
<1>7. \A i \in 1..Len(all) : all[i] \in log
  BY <1>4, ElementOfSeq
<1>8. \A i, j \in 1..Len(all) : i < j => DateOf(all[i]) < DateOf(all[j])
  <2>1. SUFFICES ASSUME NEW i \in 1..Len(all), NEW j \in 1..Len(all), i < j
                 PROVE  DateOf(all[i]) < DateOf(all[j])
    OBVIOUS
  <2>2. CASE j <= Len(got)
    BY <1>4, <2>1, <2>2
  <2>3. CASE i <= Len(got) /\ j > Len(got)
    <3>1. all[i] = got[i] /\ i \in DOMAIN got /\ all[j] = page[j - Len(got)]
          /\ j - Len(got) \in 1..Len(page)
      BY <1>4, <2>3
    <3>2. QED
      BY <1>3, <3>1
  <2>4. CASE i > Len(got)
    <3>1. /\ all[i] = page[i - Len(got)] /\ i - Len(got) \in 1..Len(page)
          /\ all[j] = page[j - Len(got)] /\ j - Len(got) \in 1..Len(page)
          /\ i - Len(got) < j - Len(got)
      BY <1>4, <2>1, <2>4
    <3>2. QED
      BY <1>2, <3>1
  <2>5. QED
    BY <1>4, <2>2, <2>3, <2>4
<1>9. Range(all) = Range(got) \cup Range(page)
  <2>1. \A i \in DOMAIN got : i \in DOMAIN all /\ all[i] = got[i]
    BY <1>2, <1>4
  <2>2. \A i \in DOMAIN page : i + Len(got) \in DOMAIN all /\ all[i + Len(got)] = page[i]
    BY <1>2, <1>4
  <2>3. \A i \in DOMAIN all : \/ i \in DOMAIN got /\ all[i] = got[i]
                              \/ i - Len(got) \in DOMAIN page /\ all[i] = page[i - Len(got)]
    BY <1>2, <1>4
  <2>4. QED
    BY <2>1, <2>2, <2>3 DEF Range
<1>10. ASSUME replay'.at = "paging"
       PROVE  /\ all # <<>>
              /\ \A e \in steady : DateOf(e) <= DateOf(Last(all)) => e \in Range(all)
  <2>1. Len(page) = PageSize /\ Len(page) \in 1..Len(page) /\ Len(all) # 0
    BY <1>2, <1>4, <1>5, <1>10
  <2>2. Last(all) = page[Len(page)]
    BY <1>2, <1>4, <2>1 DEF Last
  <2>3. all # <<>>
    BY <1>4, <2>1, EmptySeq
  <2>4. ASSUME NEW e \in steady, e \notin Range(all) PROVE DateOf(Last(all)) < DateOf(e)
    BY <1>2, <1>9, <2>1, <2>2, <2>4
  <2>5. DateOf(Last(all)) \in Int /\ \A e \in steady : DateOf(e) \in Int
    BY <1>3, <1>6, <2>1, <2>2
  <2>6. QED
    BY <2>3, <2>4, <2>5
<1>11. ASSUME replay'.at = "done" PROVE steady \subseteq Range(all)
  BY <1>2, <1>5, <1>9, <1>11
<1>12. ReplayTypes'
  BY <1>1, <1>4, <1>5 DEF ReplayTypes, all
<1>13. Replay'
  <2>1. \A i \in 1..Len(all) : DateOf(replay.got[i])' = DateOf(all[i])
    BY <1>5 DEF DateOf
  <2>2. \A i, j \in DOMAIN replay'.got : i < j => DateOf(replay.got[i])' < DateOf(replay.got[j])'
    BY <1>4, <1>5, <1>8, <2>1
  <2>3. DateOf(Last(replay.got))' = DateOf(Last(all)) /\ \A e \in steady : DateOf(e)' = DateOf(e)
    BY <1>5 DEF DateOf
  <2>4. replay'.at = "paging" =>
          /\ replay'.got # <<>>
          /\ \A e \in replay'.steady : DateOf(e)' <= DateOf(Last(replay.got))' => e \in Range(replay'.got)
    BY <1>5, <1>10, <2>3
  <2>5. replay'.at = "done" => replay'.steady \subseteq Range(replay'.got)
    BY <1>5, <1>11
  <2>6. QED
    BY <2>2, <2>4, <2>5 DEF Replay
<1>14. QED
  BY <1>12, <1>13

LEMMA FirstPageReplay ==
  ASSUME Table, ReplayTypes, Replay, FirstPage
  PROVE  ReplayTypes' /\ Replay'
<1>1. log' = log /\ dated' = dated /\ Read(log, <<>>, log)
  BY DEF FirstPage, table
<1>2. <<>> \in Seq(log) /\ DOMAIN <<>> = {}
  BY EmptySeq
<1>3. QED
  BY <1>1, <1>2, ReadReplay

LEMMA NextPageReplay ==
  ASSUME Table, ReplayTypes, Replay, NextPage
  PROVE  ReplayTypes' /\ Replay'
<1> DEFINE got == replay.got
           last == Last(replay.got)
<1>1. /\ log' = log /\ dated' = dated /\ replay.at = "paging"
      /\ Read(RowsAfter(got), got, replay.steady)
  BY DEF NextPage, table
<1>2. got \in Seq(log) /\ replay.steady \in SUBSET log
  BY DEF ReplayTypes
<1>3. /\ \A i, j \in DOMAIN got : i < j => DateOf(got[i]) < DateOf(got[j])
      /\ got # <<>>
      /\ \A e \in replay.steady : DateOf(e) <= DateOf(last) => e \in Range(got)
  BY <1>1 DEF Replay
<1>4. DOMAIN got = 1..Len(got) /\ Len(got) \in DOMAIN got /\ last = got[Len(got)]
  BY <1>2, <1>3, LenProperties, EmptySeq DEF Last
<1>5. \A i \in DOMAIN got : got[i] \in log
  BY <1>2, <1>4, ElementOfSeq
<1>6. RowsAfter(got) \subseteq log /\ \A e \in RowsAfter(got) : DateOf(last) < DateOf(e)
  BY DEF RowsAfter
<1>7. \A e \in log : DateOf(e) \in Nat
  BY DateIs
<1>8. \A e \in replay.steady : e \in Range(got) \/ e \in RowsAfter(got)
  BY <1>2, <1>3, <1>4, <1>5, <1>7 DEF RowsAfter
<1> HIDE DEF got, last
<1>9. ASSUME NEW i \in DOMAIN got, NEW e \in RowsAfter(got) PROVE DateOf(got[i]) < DateOf(e)
  <2>1. DateOf(got[i]) \in Nat /\ DateOf(last) \in Nat /\ DateOf(e) \in Nat
    BY <1>4, <1>5, <1>6, <1>7
  <2>2. i = Len(got) \/ i < Len(got)
    BY <1>4
  <2>3. DateOf(got[i]) <= DateOf(last)
    BY <1>3, <1>4, <2>1, <2>2
  <2>4. DateOf(last) < DateOf(e)
    BY <1>6
  <2>5. QED
    BY <2>1, <2>3, <2>4
<1>10. QED
  <2>1. \A i \in DOMAIN got : \A e \in RowsAfter(got) : DateOf(got[i]) < DateOf(e)
    BY <1>9
  <2>2. QED
    BY <1>1, <1>2, <1>3, <1>6, <1>8, <2>1, ReadReplay

LEMMA NextReplay ==
  ASSUME Table, ReplayTypes, Replay, [Next]_vars
  PROVE  ReplayTypes' /\ Replay'
<1>1. CASE FirstPage
  BY <1>1, FirstPageReplay
<1>2. CASE NextPage
  BY <1>2, NextPageReplay
<1>3. CASE UNCHANGED replay
  <2>1. log \subseteq log' /\ \A e \in log : DateOf(e)' = DateOf(e)
    BY NextTable, DateKept
  <2>2. /\ replay \in [at : {"idle", "paging", "done"}, got : Seq(log), steady : SUBSET log]
        /\ replay.got \in Seq(log) /\ replay.steady \subseteq log
    BY DEF ReplayTypes
  <2>3. replay.got \in Seq(log')
    BY <2>1, <2>2, SeqMonotonic
  <2>4. ReplayTypes'
    BY <1>3, <2>1, <2>2, <2>3 DEF ReplayTypes
  <2>5. \A i \in DOMAIN replay.got : replay.got[i] \in log
    BY <2>2, ElementOfSeq, LenProperties
  <2>6. \A i \in DOMAIN replay.got : DateOf(replay.got[i])' = DateOf(replay.got[i])
    <3>1. \A i \in DOMAIN replay.got : DateOf(replay.got[i])' = (CHOOSE d \in DOMAIN dated' : dated'[d] = replay.got[i])
      BY <1>3 DEF DateOf
    <3>2. \A e \in log : (CHOOSE d \in DOMAIN dated' : dated'[d] = e) = DateOf(e)
      BY <2>1 DEF DateOf
    <3>3. QED
      BY <2>5, <3>1, <3>2
  <2>7. replay.got # <<>> => DateOf(Last(replay.got))' = DateOf(Last(replay.got))
    <3>1. replay.got # <<>> => Len(replay.got) \in DOMAIN replay.got
      BY <2>2, LenProperties, EmptySeq
    <3>2. QED
      BY <1>3, <2>6, <3>1 DEF Last
  <2>8. \A e \in replay.steady : DateOf(e)' = DateOf(e)
    BY <2>1, <2>2
  <2>9. Replay'
    BY <1>3, <2>6, <2>7, <2>8 DEF Replay
  <2>10. QED
    BY <2>4, <2>9
<1>4. QED
  BY <1>1, <1>2, <1>3 DEF Next, vars, Date, Store, Publish, PublishUnstored, Write, Connect,
     Disconnect, RedisSubscribes, RedisBreaks, Fanout

-----------------------------------------------------------------------------
(* The invariant is inductive.                                             *)

LEMMA InitInv == Init => IInv
<1>1. SUFFICES ASSUME Init PROVE IInv
  OBVIOUS
<1>2. <<>> \in Seq(Events) /\ <<>> \in Seq(Subscriptions) /\ <<>> \in Seq({}) /\ Len(<<>>) = 0
      /\ DOMAIN <<>> = {}
  BY EmptySeq
<1>3. /\ subs = <<>> /\ dated = <<>> /\ log = {} /\ DOMAIN subs = {} /\ Len(subs) = 0
      /\ \A c \in Clients : send[c] = <<>> /\ seen[c] = <<>> /\ ~clean[c] /\ conn[c] \in {"new", "gone"}
      /\ \A t \in Topics : sub[t] = 0 /\ clients[t] = {}
      /\ \A p \in Publishers : next[p] = 1 /\ stage[p] = "idle"
  BY <1>1, <1>2 DEF Init
<1>4. \A c \in Clients : Received(c) = <<>>
  BY <1>2, <1>3, ConcatEmptySeq DEF Received
<1>5. Table
  <2>1. TableTypes
    BY <1>1, <1>2, <1>3 DEF Init, TableTypes
  <2>2. ToPublish
    BY <1>3 DEF ToPublish
  <2>3. \A p \in Publishers : \A k \in DOMAIN Script[p] : ~(k < 1)
    BY StreamAssumption, LenProperties
  <2>4. InOrder(dated) /\ Range(dated) = {}
    BY <1>3, EmptyRange
  <2>5. Dates
    BY <1>3, <2>3, <2>4 DEF Dates
  <2>6. QED
    BY <2>1, <2>2, <2>5 DEF Table
<1>6. HubTypes
  BY <1>1, <1>2, <1>3, StreamAssumption DEF Init, HubTypes
<1>7. OneSubscriptionPerTopic /\ Hub
  BY <1>3 DEF OneSubscriptionPerTopic, Hub
<1>8. LiveIsStored /\ Queues /\ Inboxes /\ Clean
  <2>1. LiveIsStored
    BY <1>3, <1>4, EmptyRange DEF LiveIsStored
  <2>2. Queues
    BY <1>3 DEF Queues
  <2>3. Inboxes
    BY <1>3, <1>4, EmptyRange DEF Inboxes
  <2>4. Clean
    BY <1>3 DEF Clean
  <2>5. QED
    BY <2>1, <2>2, <2>3, <2>4
<1>9. ReplayTypes /\ Replay
  BY <1>1, <1>2, <1>3 DEF Init, ReplayTypes, Replay
<1>10. QED
  BY <1>5, <1>6, <1>7, <1>8, <1>9 DEF IInv, StreamInv

LEMMA NextInv == IInv /\ [Next]_vars => IInv'
<1>1. SUFFICES ASSUME IInv, [Next]_vars PROVE IInv'
  OBVIOUS
<1>2. Table /\ StreamInv /\ ReplayTypes /\ Replay
  BY <1>1 DEF IInv
<1>3. Table'
  BY <1>1, <1>2, NextTable
<1>4. StreamInv'
  BY <1>1, <1>2, NextStream
<1>5. ReplayTypes' /\ Replay'
  BY <1>1, <1>2, NextReplay
<1>6. QED
  BY <1>3, <1>4, <1>5 DEF IInv

THEOREM Inductive == Spec => []IInv
BY InitInv, NextInv, PTL DEF Spec

-----------------------------------------------------------------------------
(* Every variable keeps its type; no client's buffer outgrows its channel, *)
(* and what a viewer has read or waits for is among the stored events.     *)
THEOREM TypeCorrect == Spec => []TypeOK
<1>1. IInv => TypeOK
  BY TypeParts DEF IInv, Table, StreamInv
<1>2. QED
  BY <1>1, Inductive, PTL

(* publishEvent appends before it publishes, and what subscriptions and    *)
(* clients hold came from a publication: all that was seen live is in the  *)
(* table but the router's announcements, which nobody appends.             *)
THEOREM LiveStored == Spec => []LiveIsStored
<1>1. IInv => LiveIsStored
  BY DEF IInv, StreamInv
<1>2. QED
  BY <1>1, Inductive, PTL

(* The hub's first client of a topic subscribes and its last one closes:   *)
(* no subscription is left behind and none is doubled.                     *)
THEOREM SubscriptionPerTopic == Spec => []OneSubscriptionPerTopic
<1>1. IInv => OneSubscriptionPerTopic
  BY DEF IInv, StreamInv
<1>2. QED
  BY <1>1, Inductive, PTL

(* An event is in one queue at most, and who has received it is no more    *)
(* served from there: no connection shows an event twice.                  *)
THEOREM ShownOnce == Spec => []NoDuplicates
<1>1. IInv => NoDuplicates
  BY DEF IInv, StreamInv, Inboxes, NoDuplicates, IsInjective
<1>2. QED
  BY <1>1, Inductive, PTL

(* A client that joined when no old fan-out of its topic was draining has  *)
(* one source for as long as it is connected, and that one is in order.    *)
THEOREM InPublisherOrder == Spec => []PublisherOrder
<1>1. IInv => PublisherOrder
  <2>1. \A p \in Publishers : DOMAIN Script[p] \subseteq Int
    BY StreamAssumption, LenProperties
  <2>2. QED
    BY <2>1 DEF IInv, StreamInv, Clean, InOrder, PublisherOrder
<1>2. QED
  BY <1>1, Inductive, PTL

(* A finished replay holds what was stored when it began, once each, and   *)
(* in the order of the dates, which is the publishers'.                    *)
THEOREM ReplayComplete == Spec => []ReplayIsComplete
<1>1. IInv => ReplayIsComplete
  <2>1. SUFFICES ASSUME IInv PROVE ReplayIsComplete
    OBVIOUS
  <2>2. Table /\ ReplayTypes /\ Replay /\ dated \in Seq(Events) /\ InOrder(dated)
    BY <2>1 DEF IInv, Table, TableTypes, Dates
  <2>3. \A i \in DOMAIN replay.got : i \in Nat /\ replay.got[i] \in log
    BY <2>2, ElementOfSeq, LenProperties DEF ReplayTypes
  <2>4. \A i \in DOMAIN replay.got :
          LET d == DateOf(replay.got[i]) IN d \in DOMAIN dated /\ d \in Nat /\ dated[d] = replay.got[i]
    BY <2>2, <2>3, DateIs
  <2>5. \A i, j \in DOMAIN replay.got : i < j => DateOf(replay.got[i]) < DateOf(replay.got[j])
    BY <2>2 DEF Replay
  <2>6. IsInjective(replay.got)
    BY <2>3, <2>4, <2>5 DEF IsInjective
  <2>7. ASSUME NEW p \in Publishers, NEW i \in DOMAIN replay.got, NEW j \in DOMAIN replay.got,
               NEW k \in DOMAIN Script[p], NEW l \in DOMAIN Script[p],
               i < j, replay.got[i] = Script[p][k], replay.got[j] = Script[p][l]
        PROVE  k <= l
    <3>1. k \in Int /\ l \in Int
      BY StreamAssumption, LenProperties
    <3>2. k < l
      BY <2>2, <2>4, <2>5, <2>7 DEF InOrder
    <3>3. QED
      BY <3>1, <3>2
  <2>8. replay.at = "done" => replay.steady \subseteq Range(replay.got)
    BY <2>2 DEF Replay
  <2>9. QED
    BY <2>6, <2>7, <2>8 DEF ReplayIsComplete
<1>2. QED
  BY <1>1, Inductive, PTL
=============================================================================
