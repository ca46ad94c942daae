----------------------------- MODULE ChatProofs -----------------------------
(***************************************************************************)
(* Proofs about Chat for any number of threads on each platform, sessions, *)
(* questions, webhook handlers, posts, redeliveries and restarts.          *)
(***************************************************************************)
EXTENDS Chat, TLAPS

Platforms == {"slack", "discord", "telegram"}

(* The shapes of messages, rows and goroutines.                            *)
Mentions == [kind : {"mention"}, on : Platforms, thread : Threads \cup {None}]
Replies == [kind : {"reply"}, on : Platforms, thread : Threads, seen : SUBSET Questions]
Presses == [kind : {"press"}, on : Platforms, question : Questions]
Messages == Mentions \cup Replies \cup Presses

Phases == {"received", "starting", "acknowledging", "loading", "recording", "resuming", "resetting"}
Handling == [phase : Phases, message : Messages, session : Sessions \cup {None},
             question : Questions \cup {None}]
Asking == [phase : {"waiting", "attaching", "persisting"}, question : Questions]
SessionRows == [status : {"pending", "running", "waiting_hitl", "ended"}, on : Platforms]
Rows == [status : {"pending", "answered", "cancelled"}, session : Sessions,
         thread : Threads \cup {None}]

Exists(q) == question[q] # NoRow
At(g, phases) == delivery[g].phase \in phases

Shapes ==
  /\ posted \subseteq Messages /\ headed \subseteq Threads
  /\ delivery \in [Goroutines -> {Idle} \cup Handling]
  /\ session \in [Sessions -> {NoRow} \cup SessionRows]
  /\ tracked \subseteq Sessions
  /\ DOMAIN contexts \subseteq Sessions
  /\ asking \in [Sessions -> {Idle} \cup Asking]
  /\ question \in [Questions -> {NoRow} \cup Rows]
  /\ shown \in [Questions -> Threads \cup {None}]
  /\ told \in [Questions -> Nat]

(* What a message says of the place it was written in.                     *)
Placed(m) ==
  /\ m.kind = "mention" /\ m.on = "slack" => m.thread \in headed /\ Platform[m.thread] = "slack"
  /\ m.kind = "press" => shown[m.question] # None /\ Platform[shown[m.question]] = m.on
  /\ m.kind = "reply" =>
       /\ m.thread \in headed /\ Platform[m.thread] = m.on
       /\ \A q \in m.seen : Exists(q) /\ question[q].thread = m.thread

(* The contexts are of sessions that exist, in threads of their platform;  *)
(* a session dispatched from Slack has one while it is in the map.         *)
Registry ==
  /\ \A s \in DOMAIN contexts :
       /\ contexts[s] \in headed
       /\ session[s] # NoRow /\ session[s].on = Platform[contexts[s]]
  /\ \A s \in tracked :
       /\ session[s].status \in {"running", "waiting_hitl"}
       /\ session[s].on = "slack" => s \in DOMAIN contexts

(* A question is of a session that was started; its message, and the       *)
(* thread on its row, are where the session's conversation is.             *)
Asked(q) ==
  /\ ~Exists(q) => shown[q] = None
  /\ shown[q] = None => told[q] = 0
  /\ Exists(q) =>
       /\ session[question[q].session].status \in {"running", "waiting_hitl", "ended"}
       /\ question[q].thread # None => question[q].thread = shown[q]
       /\ shown[q] # None => session[question[q].session].on = Platform[shown[q]]

(* What ask_human has done so far; nobody can answer before it is shown.   *)
AskingIs(s) ==
  asking[s] # Idle =>
    LET q == asking[s].question IN
    /\ Exists(q) /\ question[q].session = s
    /\ asking[s].phase \in {"waiting", "attaching"} => shown[q] = None
    /\ asking[s].phase = "persisting" => shown[q] # None

(* What a webhook call has found out.                                      *)
DeliveryIs(g) ==
  delivery[g] # Idle =>
    LET d == delivery[g] IN
    /\ Placed(d.message)
    /\ At(g, {"starting"}) =>
         /\ d.session \in Sessions /\ session[d.session] = [status |-> "pending", on |-> d.message.on]
         /\ d.message.on = "slack" => d.session \in DOMAIN contexts
    /\ At(g, {"starting", "acknowledging"}) => d.message.kind = "mention"
    /\ At(g, {"acknowledging"}) /\ d.session # None =>
         session[d.session] # NoRow /\ session[d.session].on = d.message.on
    /\ At(g, {"loading", "recording", "resuming", "resetting"}) =>
         /\ d.question \in Questions /\ shown[d.question] # None
         /\ d.message.kind = "press" => d.message.question = d.question
    /\ At(g, {"loading", "recording"}) /\ d.message.kind = "reply" =>
         \A q \in d.message.seen \ {d.question} : Pending(q) => q \in reopened

(* Each session is started by one handler.                                 *)
StartedOnce ==
  \A g, h \in Goroutines :
    g # h /\ At(g, {"starting"}) /\ At(h, {"starting"}) => delivery[g].session # delivery[h].session

(* One handler at most is between recording an answer of q and giving it   *)
(* or reopening q, while q is answered and its agent not told.             *)
Answers(g, q) == At(g, {"resuming", "resetting"}) /\ delivery[g].question = q
Exclusive(q) ==
  /\ told[q] <= 1 /\ (told[q] = 1 => question[q].status = "answered")
  /\ \A g \in Goroutines : Answers(g, q) =>
       /\ question[q].status = "answered" /\ told[q] = 0
       /\ \A h \in Goroutines \ {g} : ~Answers(h, q)

(* An answer that its agent was not told is on its way, on Slack.          *)
OnItsWay(q) ==
  Exists(q) /\ question[q].status = "answered" /\ told[q] = 0 /\ question[q].session \in tracked
    /\ session[question[q].session].on = "slack"
  => q \in reopened \cup unheard \/ \E g \in Goroutines : Answers(g, q)

Inv ==
  /\ Shapes /\ Registry /\ StartedOnce
  /\ \A m \in posted : Placed(m)
  /\ \A q \in Questions : Asked(q) /\ Exclusive(q) /\ OnItsWay(q)
  /\ \A s \in Sessions : AskingIs(s)
  /\ \A g \in Goroutines : DeliveryIs(g)

-----------------------------------------------------------------------------
(* Rows, messages and deliveries have one of a few shapes.                 *)

LEMMA RowIs ==
  ASSUME Shapes, NEW q \in Questions
  PROVE  /\ question[q] \in {NoRow} \cup Rows
         /\ Exists(q) <=> question[q] \in Rows
         /\ Exists(q) <=> question[q].status # "none"
         /\ Pending(q) => Exists(q)
         /\ Exists(q) => /\ question[q].status \in {"pending", "answered", "cancelled"}
                         /\ question[q].session \in Sessions
                         /\ question[q].thread \in Threads \cup {None}
BY DEF Shapes, NoRow, Rows, Exists, Pending

LEMMA SessionIs ==
  ASSUME Shapes, NEW s \in Sessions
  PROVE  /\ session[s] \in {NoRow} \cup SessionRows
         /\ session[s] # NoRow <=> session[s] \in SessionRows
         /\ session[s] # NoRow <=> session[s].status # "none"
         /\ session[s] # NoRow => /\ session[s].status \in {"pending", "running", "waiting_hitl", "ended"}
                                  /\ session[s].on \in Platforms
BY DEF Shapes, NoRow, SessionRows

LEMMA AskingShape ==
  ASSUME Shapes, NEW s \in Sessions
  PROVE  /\ asking[s] # Idle <=> asking[s] \in Asking
         /\ asking[s] # Idle <=> asking[s].phase # "idle"
         /\ asking[s] # Idle => /\ asking[s].question \in Questions
                                /\ asking[s].phase \in {"waiting", "attaching", "persisting"}
BY DEF Shapes, Asking, Idle

LEMMA DeliveryShape ==
  ASSUME Shapes, NEW g \in Goroutines
  PROVE  /\ delivery[g] # Idle <=> delivery[g] \in Handling
         /\ delivery[g] # Idle <=> delivery[g].phase # "idle"
         /\ delivery[g] # Idle => /\ delivery[g].phase \in Phases
                                  /\ delivery[g].message \in Messages
                                  /\ delivery[g].session \in Sessions \cup {None}
                                  /\ delivery[g].question \in Questions \cup {None}
BY DEF Shapes, Handling, Idle, Phases

LEMMA MessageIs ==
  ASSUME NEW m \in Messages
  PROVE  /\ m.kind \in {"mention", "reply", "press"} /\ m.on \in Platforms
         /\ m.kind = "mention" => m \in Mentions /\ m.thread \in Threads \cup {None}
         /\ m.kind = "reply" => m \in Replies /\ m.thread \in Threads /\ m.seen \subseteq Questions
         /\ m.kind = "press" => m \in Presses /\ m.question \in Questions
BY DEF Messages, Mentions, Replies, Presses

(* What changing some of its fields makes of a delivery.                   *)
LEMMA NewPhase ==
  ASSUME NEW d \in Handling, NEW p \in Phases
  PROVE  LET e == [d EXCEPT !.phase = p] IN
         /\ e \in Handling /\ e # Idle /\ e.phase = p
         /\ e.message = d.message /\ e.session = d.session /\ e.question = d.question
BY DEF Handling, Phases, Idle

LEMMA Received ==
  ASSUME NEW m \in Messages
  PROVE  LET e == [phase |-> "received", message |-> m, session |-> None, question |-> None] IN
         /\ e \in Handling /\ e # Idle /\ e.phase = "received" /\ e.message = m
BY DEF Handling, Phases, Idle

LEMMA NewQuestionStatus ==
  ASSUME NEW r \in Rows, NEW v \in {"pending", "answered", "cancelled"}
  PROVE  LET e == [r EXCEPT !.status = v] IN
         /\ e \in Rows /\ e # NoRow /\ e.status = v /\ e.session = r.session /\ e.thread = r.thread
BY DEF Rows, NoRow

(* An UPDATE that cancels the questions of s.                              *)
LEMMA Closing ==
  ASSUME Shapes, NEW s, CloseQuestions(s)
  PROVE  /\ question' \in [Questions -> {NoRow} \cup Rows]
         /\ \A q \in Questions :
              /\ Exists(q)' <=> Exists(q)
              /\ Exists(q) => /\ question'[q].session = question[q].session
                              /\ question'[q].thread = question[q].thread
              /\ question'[q].status = question[q].status
                   \/ (question[q].status = "pending" /\ question'[q].status = "cancelled")
              /\ question[q].session # s => question'[q] = question[q]
<1>1. \A q \in Questions :
        \/ question'[q] = question[q]
        \/ /\ Pending(q) /\ question[q].session = s
           /\ question'[q] = [question[q] EXCEPT !.status = "cancelled"]
  BY DEF CloseQuestions
<1>2. \A q \in Questions : Pending(q) =>
        /\ question[q] \in Rows
        /\ LET e == [question[q] EXCEPT !.status = "cancelled"] IN
           /\ e \in Rows /\ e # NoRow /\ e.status = "cancelled" /\ e.session = question[q].session
           /\ e.thread = question[q].thread
  BY RowIs, NewQuestionStatus
<1>3. question' \in [Questions -> {NoRow} \cup Rows]
  <2>1. \A q \in Questions : question'[q] \in {NoRow} \cup Rows
    BY <1>1, <1>2, RowIs
  <2>2. question' = [q \in Questions |-> question'[q]]
    BY DEF CloseQuestions
  <2>3. QED
    BY <2>1, <2>2
<1>4. QED
  BY <1>1, <1>2, <1>3, RowIs DEF Exists, Pending

-----------------------------------------------------------------------------
(* What no step takes back, and what therefore stays as it is.             *)

Started == {"running", "waiting_hitl", "ended"}

(* Threads, and the place of a question that was shown, are for ever; a    *)
(* question that is not pending becomes so only by a reset.                *)
Growth ==
  /\ headed \subseteq headed' /\ reopened \subseteq reopened' /\ unheard \subseteq unheard'
  /\ \A q \in Questions :
       /\ shown[q] # None => shown'[q] = shown[q]
       /\ Exists(q) /\ question[q].thread # None =>
            Exists(q)' /\ question'[q].thread = question[q].thread
       /\ Exists(q) /\ Pending(q)' => Pending(q) \/ q \in reopened'
  /\ \A s \in Sessions : session[s] # NoRow =>
       /\ session'[s] # NoRow /\ session'[s].on = session[s].on
       /\ session[s].status \in Started => session'[s].status \in Started

LEMMA PlacedStays ==
  ASSUME Growth, NEW m \in Messages, Placed(m)
  PROVE  Placed(m)'
<1>1. None \notin Threads
  BY ChatAssumption
<1>2. CASE m.kind = "mention"
  BY <1>2, MessageIs DEF Growth, Placed
<1>3. CASE m.kind = "press"
  <2>1. m.question \in Questions
    BY <1>3, MessageIs
  <2>2. QED
    BY <1>3, <2>1 DEF Growth, Placed
<1>4. CASE m.kind = "reply"
  <2>1. m.thread \in Threads /\ m.seen \subseteq Questions
    BY <1>4, MessageIs
  <2>2. \A q \in m.seen : Exists(q)' /\ question'[q].thread = m.thread
    BY <1>1, <1>4, <2>1 DEF Growth, Placed
  <2>3. QED
    BY <1>4, <2>1, <2>2 DEF Growth, Placed
<1>5. QED
  BY <1>2, <1>3, <1>4, MessageIs

(* q keeps its row but for the status.                                     *)
SameRow(q) ==
  /\ Exists(q)' <=> Exists(q)
  /\ Exists(q) => question'[q].session = question[q].session /\ question'[q].thread = question[q].thread
  /\ shown'[q] = shown[q]

LEMMA AskedStays ==
  ASSUME Shapes, Growth, NEW q \in Questions, Asked(q), SameRow(q), told'[q] = told[q] \/ shown[q] # None
  PROVE  Asked(q)'
<1>1. CASE ~Exists(q)
  BY <1>1 DEF Asked, SameRow, Exists
<1>2. CASE Exists(q)
  <2>1. question[q].session \in Sessions
    BY <1>2, RowIs
  <2>2. session[question[q].session] # NoRow /\ session[question[q].session].status \in Started
    BY <1>2, <2>1, SessionIs DEF Asked, Started
  <2>3. /\ session'[question[q].session].on = session[question[q].session].on
        /\ session'[question[q].session].status \in Started
    BY <2>1, <2>2 DEF Growth
  <2>4. QED
    BY <1>2, <2>3 DEF Asked, SameRow, Exists, Started
<1>3. QED
  BY <1>1, <1>2

LEMMA AskingStays ==
  ASSUME Shapes, NEW s \in Sessions, AskingIs(s), asking'[s] = asking[s],
         asking[s] # Idle => SameRow(asking[s].question)
  PROVE  AskingIs(s)'
<1>1. SUFFICES ASSUME asking[s] # Idle PROVE AskingIs(s)'
  BY DEF AskingIs
<1>2. QED
  BY <1>1 DEF AskingIs, SameRow, Exists

LEMMA RegistryStays ==
  ASSUME Registry, Growth, session' = session, tracked' = tracked, contexts' = contexts
  PROVE  Registry'
BY DEF Registry, Growth

LEMMA StartedStays ==
  ASSUME StartedOnce, \A g \in Goroutines : At(g, {"starting"})' => delivery'[g] = delivery[g]
  PROVE  StartedOnce'
BY DEF StartedOnce, At

LEMMA ExclusiveStays ==
  ASSUME NEW q \in Questions, Exclusive(q), told'[q] = told[q],
         question[q].status = "answered" => question'[q].status = "answered",
         \A g \in Goroutines : Answers(g, q)' => Answers(g, q)
  PROVE  Exclusive(q)'
BY DEF Exclusive

LEMMA OnItsWayStays ==
  ASSUME Shapes, Growth, NEW q \in Questions, Asked(q), OnItsWay(q),
         told'[q] = 0 => told[q] = 0,
         Exists(q) /\ question[q].session \in tracked' => question[q].session \in tracked,
         Exists(q)' /\ question'[q].status = "answered" =>
           /\ Exists(q) /\ question[q].status = "answered"
           /\ question'[q].session = question[q].session,
         \A g \in Goroutines : Answers(g, q) => Answers(g, q)' \/ q \in reopened'
  PROVE  OnItsWay(q)'
<1>1. SUFFICES ASSUME Exists(q)', question'[q].status = "answered", told'[q] = 0,
                      question'[q].session \in tracked', session'[question'[q].session].on = "slack"
               PROVE  q \in reopened' \cup unheard' \/ \E g \in Goroutines : Answers(g, q)'
  BY DEF OnItsWay
<1>2. /\ Exists(q) /\ question[q].status = "answered" /\ question'[q].session = question[q].session
      /\ question[q].session \in Sessions
  BY <1>1, RowIs
<1>3. session[question[q].session] # NoRow
  BY <1>2, SessionIs DEF Asked
<1>4. session'[question[q].session].on = session[question[q].session].on
  BY <1>2, <1>3 DEF Growth
<1>5. q \in reopened \cup unheard \/ \E g \in Goroutines : Answers(g, q)
  BY <1>1, <1>2, <1>4 DEF OnItsWay
<1>6. QED
  BY <1>5 DEF Growth

(* A webhook call that another step leaves alone.                          *)
LEMMA DeliveryStays ==
  ASSUME Shapes, Growth, NEW g \in Goroutines, DeliveryIs(g), delivery'[g] = delivery[g],
         At(g, {"starting"}) =>
           LET s == delivery[g].session IN
           session'[s] = session[s] /\ (s \in DOMAIN contexts => s \in DOMAIN contexts')
  PROVE  DeliveryIs(g)'
<1> DEFINE d == delivery[g]
<1>1. SUFFICES ASSUME d # Idle PROVE DeliveryIs(g)'
  BY DEF DeliveryIs
<1>2. /\ d.message \in Messages /\ d.session \in Sessions \cup {None}
      /\ d.question \in Questions \cup {None}
  BY <1>1, DeliveryShape
<1>3. Placed(d.message) /\ Placed(d.message)'
  BY <1>1, <1>2, PlacedStays DEF DeliveryIs
<1>4. At(g, {"starting"}) =>
        /\ d.session \in Sessions /\ session'[d.session] = [status |-> "pending", on |-> d.message.on]
        /\ d.message.on = "slack" => d.session \in DOMAIN contexts'
  BY <1>1 DEF DeliveryIs
<1>5. At(g, {"acknowledging"}) /\ d.session # None =>
        session'[d.session] # NoRow /\ session'[d.session].on = d.message.on
  BY <1>1, <1>2 DEF DeliveryIs, Growth
<1>6. At(g, {"loading", "recording", "resuming", "resetting"}) =>
        /\ d.question \in Questions /\ shown'[d.question] # None
        /\ d.message.kind = "press" => d.message.question = d.question
  BY <1>1 DEF DeliveryIs, Growth
<1>7. At(g, {"loading", "recording"}) /\ d.message.kind = "reply" =>
        \A q \in d.message.seen \ {d.question} : Pending(q)' => q \in reopened'
  <2>1. SUFFICES ASSUME At(g, {"loading", "recording"}), d.message.kind = "reply",
                        NEW q \in d.message.seen \ {d.question}, Pending(q)'
                 PROVE  q \in reopened'
    OBVIOUS
  <2>2. q \in Questions /\ Exists(q)
    BY <1>2, <1>3, <2>1, MessageIs DEF Placed
  <2>3. Pending(q) => q \in reopened
    BY <1>1, <2>1 DEF DeliveryIs
  <2>4. QED
    BY <2>1, <2>2, <2>3 DEF Growth
<1>8. At(g, {"starting", "acknowledging"}) => d.message.kind = "mention"
  BY <1>1 DEF DeliveryIs
<1>9. QED
  BY <1>3, <1>4, <1>5, <1>6, <1>7, <1>8 DEF DeliveryIs, At

-----------------------------------------------------------------------------
(* Steps that leave sessions, questions and their agents alone.            *)

LEMMA RowsStay ==
  ASSUME UNCHANGED <<question, shown, told, reopened, unheard, session>>, headed \subseteq headed'
  PROVE  Growth /\ \A q \in Questions : SameRow(q)
BY DEF Growth, SameRow, Exists, Pending

(* People write where they can: a reply in a thread that is there, a press *)
(* on a question that is shown.                                            *)
LEMMA PeopleWrite ==
  ASSUME Shapes, People
  PROVE  /\ UNCHANGED <<delivery, session, tracked, contexts, asking, question, shown, told, reopened, unheard>>
         /\ headed \subseteq headed' /\ headed' \subseteq Threads
         /\ \E m \in Messages : posted' = posted \cup {m} /\ Placed(m)'
<1>1. Platform \in [Threads -> Platforms]
  BY ChatAssumption DEF Platforms
<1>2. ASSUME NEW t \in Threads, Mention(t), Platform[t] = "slack"
      PROVE  /\ UNCHANGED <<delivery, session, tracked, contexts, asking, question, shown, told, reopened, unheard>>
             /\ headed' = headed \cup {t}
             /\ \E m \in Messages : posted' = posted \cup {m} /\ Placed(m)'
  <2> DEFINE m == [kind |-> "mention", on |-> "slack", thread |-> t]
  <2>1. m \in Messages
    BY DEF Messages, Mentions, Platforms
  <2>2. Post(m) /\ headed' = headed \cup {t}
    BY <1>2 DEF Mention
  <2>3. Placed(m)'
    BY <1>2, <2>2 DEF Placed
  <2>4. QED
    BY <2>1, <2>2, <2>3 DEF Post, agents, answers
<1>3. ASSUME NEW t \in Threads, Mention(t), Platform[t] # "slack"
      PROVE  /\ UNCHANGED <<delivery, session, tracked, contexts, asking, question, shown, told, reopened, unheard>>
             /\ headed' = headed
             /\ \E m \in Messages : posted' = posted \cup {m} /\ Placed(m)'
  <2> DEFINE m == [kind |-> "mention", on |-> Platform[t], thread |-> None]
  <2>1. m \in Messages
    BY <1>1 DEF Messages, Mentions
  <2>2. Post(m) /\ headed' = headed
    BY <1>3 DEF Mention
  <2>3. Placed(m)'
    BY <1>3 DEF Placed
  <2>4. QED
    BY <2>1, <2>2, <2>3 DEF Post, agents, answers
<1>4. ASSUME NEW t \in Threads, Reply(t)
      PROVE  /\ UNCHANGED <<delivery, session, tracked, contexts, asking, question, shown, told, reopened, unheard>>
             /\ headed' = headed
             /\ \E m \in Messages : posted' = posted \cup {m} /\ Placed(m)'
  <2>1. PICK m \in Messages : m = [kind |-> "reply", on |-> Platform[t], thread |-> t, seen |-> OpenIn(t)]
    BY <1>1 DEF Messages, Replies, OpenIn
  <2>2. Post(m) /\ headed' = headed /\ t \in headed
    BY <1>4, <2>1 DEF Reply
  <2>3. UNCHANGED <<delivery, session, tracked, contexts, asking, question, shown, told, reopened, unheard>>
    BY <2>2 DEF Post, agents, answers
  <2>4. \A q \in OpenIn(t) : Exists(q)' /\ question'[q].thread = t
    BY <2>3, RowIs DEF OpenIn, Exists
  <2>5. Placed(m)'
    BY <2>1, <2>2, <2>4 DEF Placed
  <2>6. QED
    BY <2>1, <2>2, <2>3, <2>5 DEF Post
<1>5. ASSUME NEW q \in Questions, Press(q)
      PROVE  /\ UNCHANGED <<delivery, session, tracked, contexts, asking, question, shown, told, reopened, unheard>>
             /\ headed' = headed
             /\ \E m \in Messages : posted' = posted \cup {m} /\ Placed(m)'
  <2> DEFINE m == [kind |-> "press", on |-> Platform[shown[q]], question |-> q]
  <2>1. m \in Messages
    BY <1>1, <1>5 DEF Messages, Presses, Press, Shapes
  <2>2. Post(m) /\ headed' = headed /\ shown[q] # None
    BY <1>5 DEF Press
  <2>3. UNCHANGED <<delivery, session, tracked, contexts, asking, question, shown, told, reopened, unheard>>
    BY <2>2 DEF Post, agents, answers
  <2>4. Placed(m)'
    BY <2>2, <2>3 DEF Placed
  <2>5. QED
    BY <2>1, <2>2, <2>3, <2>4 DEF Post
<1>6. headed \subseteq Threads
  BY DEF Shapes
<1>7. QED
  BY <1>2, <1>3, <1>4, <1>5, <1>6 DEF People

LEMMA PeopleKeep ==
  ASSUME Inv, People
  PROVE  Inv'
<1>1. /\ Shapes /\ Registry /\ StartedOnce
      /\ \A m \in posted : Placed(m)
      /\ \A q \in Questions : Asked(q) /\ Exclusive(q) /\ OnItsWay(q)
      /\ \A s \in Sessions : AskingIs(s)
      /\ \A g \in Goroutines : DeliveryIs(g)
  BY DEF Inv
<1>2. /\ UNCHANGED <<delivery, session, tracked, contexts, asking, question, shown, told, reopened, unheard>>
      /\ headed \subseteq headed' /\ headed' \subseteq Threads
      /\ \E m \in Messages : posted' = posted \cup {m} /\ Placed(m)'
  BY <1>1, PeopleWrite
<1>3. Growth /\ \A q \in Questions : SameRow(q)
  BY <1>2, RowsStay
<1>4. Shapes'
  BY <1>1, <1>2 DEF Shapes
<1>5. \A m \in posted' : Placed(m)'
  BY <1>1, <1>2, <1>3, PlacedStays DEF Shapes
<1>6. Registry' /\ StartedOnce'
  BY <1>1, <1>2, <1>3, RegistryStays, StartedStays
<1>7. ASSUME NEW q \in Questions PROVE Asked(q)' /\ Exclusive(q)' /\ OnItsWay(q)'
  <2>1. Asked(q)'
    BY <1>1, <1>2, <1>3, AskedStays
  <2>2. \A g \in Goroutines : Answers(g, q)' <=> Answers(g, q)
    BY <1>2 DEF Answers, At
  <2>3. Exclusive(q)'
    BY <1>1, <1>2, <2>2, ExclusiveStays
  <2>4. OnItsWay(q)'
    BY <1>1, <1>2, <1>3, <2>2, OnItsWayStays DEF Exists
  <2>5. QED
    BY <2>1, <2>3, <2>4
<1>8. ASSUME NEW s \in Sessions PROVE AskingIs(s)'
  <2>1. asking'[s] = asking[s]
    BY <1>2
  <2>2. QED
    BY <1>1, <1>3, <2>1, AskingStays, AskingShape
<1>9. ASSUME NEW g \in Goroutines PROVE DeliveryIs(g)'
  <2>1. /\ delivery'[g] = delivery[g] /\ session' = session /\ contexts' = contexts
    BY <1>2
  <2>2. QED
    BY <1>1, <1>3, <2>1, DeliveryStays
<1>10. QED
  BY <1>4, <1>5, <1>6, <1>7, <1>8, <1>9 DEF Inv

(* Steps of a webhook call that only find something out.                   *)
QuietStep(g) ==
  \/ Deliver(g) \/ GiveUp(g) \/ LookUp(g) \/ ParseAction(g) \/ Load(g)
  \/ ReadBackFails(g) \/ SendFails(g)

(* What they find: e is what becomes of the delivery.                      *)
Finds(g, e) ==
  LET d == delivery[g] IN
  \/ /\ e = Idle /\ d # Idle
     /\ At(g, {"resuming", "resetting"}) => d.message.kind = "press" /\ d.message.on # "slack"
  \/ /\ e \in Handling /\ e.phase = "received" /\ e.message \in posted /\ d = Idle
  \/ /\ e \in Handling /\ d # Idle /\ e.message = d.message
     /\ \/ /\ At(g, {"received"}) /\ e.phase = "loading"
           /\ \/ d.message.kind = "reply" /\ e.question \in Match(g)
              \/ d.message.kind = "press" /\ e.question = d.message.question
        \/ /\ At(g, {"loading"}) /\ e.phase = "recording" /\ e.question = d.question
        \/ /\ At(g, {"resuming"}) /\ e.phase = "resetting" /\ e.question = d.question

LEMMA QuietFinds ==
  ASSUME Shapes, NEW g \in Goroutines, QuietStep(g)
  PROVE  /\ UNCHANGED <<posted, headed, session, tracked, contexts, asking, question, shown, told, reopened, unheard>>
         /\ \E e \in {Idle} \cup Handling : Finds(g, e) /\ delivery' = [delivery EXCEPT ![g] = e]
<1> DEFINE d == delivery[g]
<1>0. "loading" \in Phases
  BY DEF Phases
<1>1. /\ d # Idle <=> d \in Handling
      /\ d # Idle <=> d.phase # "idle"
      /\ d # Idle => d.message \in Messages
  BY DeliveryShape
<1>2. CASE Deliver(g)
  <2>1. PICK m \in posted :
          Goes(g, [phase |-> "received", message |-> m, session |-> None, question |-> None])
    BY <1>2 DEF Deliver
  <2>2. m \in Messages
    BY DEF Shapes
  <2>3. PICK e \in Handling : e = [phase |-> "received", message |-> m, session |-> None, question |-> None]
                                /\ e.phase = "received" /\ e.message = m
    BY <2>2, Received
  <2>4. d = Idle
    BY <1>1, <1>2 DEF Deliver, In
  <2>5. QED
    BY <1>2, <2>1, <2>3, <2>4 DEF Deliver, Goes, Finds, agents, answers
<1>3. CASE GiveUp(g)
  <2>1. d # Idle /\ ~At(g, {"resuming", "resetting"})
    BY <1>1, <1>3 DEF GiveUp, At
  <2>2. QED
    BY <1>3, <2>1 DEF GiveUp, Goes, Finds, people, agents, answers
<1>4. CASE LookUp(g)
  <2>1. d # Idle /\ At(g, {"received"}) /\ d.message.kind = "reply" /\ ~At(g, {"resuming", "resetting"})
    BY <1>1, <1>4 DEF LookUp, In, IsA, Message, At
  <2>2. CASE Goes(g, Idle)
    BY <1>4, <2>1, <2>2 DEF LookUp, Goes, Finds, people, agents, answers
  <2>3. ASSUME NEW q \in Match(g), Answering(g, q)
        PROVE  \E e \in {Idle} \cup Handling : Finds(g, e) /\ delivery' = [delivery EXCEPT ![g] = e]
    <3>1. q \in Questions
      BY DEF Match, OpenIn
    <3> DEFINE e == [d EXCEPT !.phase = "loading", !.question = q]
    <3>2. /\ e \in Handling /\ e.phase = "loading" /\ e.message = d.message /\ e.question = q
      BY <1>0, <1>1, <2>1, <3>1 DEF Handling, Idle
    <3>3. delivery' = [delivery EXCEPT ![g] = e]
      BY <2>3 DEF Answering, Goes
    <3> HIDE DEF e
    <3>4. Finds(g, e)
      BY <2>1, <2>3, <3>2 DEF Finds
    <3>5. QED
      BY <3>2, <3>3, <3>4
  <2>4. Goes(g, Idle) \/ \E q \in Match(g) : Answering(g, q)
    BY <1>4 DEF LookUp
  <2>5. UNCHANGED <<posted, headed, session, tracked, contexts, asking, question, shown, told, reopened, unheard>>
    BY <1>4 DEF LookUp, people, agents, answers
  <2>6. QED
    BY <2>2, <2>3, <2>4, <2>5
<1>5. CASE ParseAction(g)
  <2>1. d # Idle /\ At(g, {"received"}) /\ d.message.kind = "press"
    BY <1>1, <1>5 DEF ParseAction, In, IsA, Message, At
  <2>2. d.message.question \in Questions
    BY <1>1, <2>1, MessageIs
  <2> DEFINE e == [d EXCEPT !.phase = "loading", !.question = d.message.question]
  <2>3. /\ e \in Handling /\ e.phase = "loading" /\ e.message = d.message
        /\ e.question = d.message.question
    BY <1>0, <1>1, <2>1, <2>2 DEF Handling, Idle
  <2>4. delivery' = [delivery EXCEPT ![g] = e]
    BY <1>5 DEF ParseAction, Answering, Message, Goes
  <2> HIDE DEF e
  <2>5. Finds(g, e)
    BY <2>1, <2>3 DEF Finds
  <2>6. QED
    BY <1>5, <2>3, <2>4, <2>5 DEF ParseAction, people, agents, answers
<1>6. CASE Load(g)
  <2>1. d # Idle /\ At(g, {"loading"}) /\ ~At(g, {"resuming", "resetting"})
    BY <1>1, <1>6 DEF Load, In, At
  <2>2. PICK e \in Handling : /\ e = [d EXCEPT !.phase = "recording"]
                              /\ e.phase = "recording" /\ e.message = d.message
                              /\ e.question = d.question
    BY <1>1, <2>1, NewPhase DEF Phases
  <2>3. QED
    BY <1>6, <2>1, <2>2 DEF Load, To, Goes, Finds, people, agents, answers
<1>7. CASE ReadBackFails(g)
  <2>1. d # Idle /\ At(g, {"resuming"}) /\ d.message.kind = "press"
    BY <1>1, <1>7 DEF ReadBackFails, In, IsA, Message, At
  <2>2. PICK e \in Handling : /\ e = [d EXCEPT !.phase = "resetting"]
                              /\ e.phase = "resetting" /\ e.message = d.message
                              /\ e.question = d.question
    BY <1>1, <2>1, NewPhase DEF Phases
  <2>3. IF d.message.on = "slack" THEN delivery' = [delivery EXCEPT ![g] = e]
        ELSE delivery' = [delivery EXCEPT ![g] = Idle]
    BY <1>7, <2>2 DEF ReadBackFails, AfterFailedRead, OnSlack, Message, Goes
  <2>4. QED
    BY <1>7, <2>1, <2>2, <2>3 DEF ReadBackFails, Finds, people, agents, answers
<1>8. CASE SendFails(g)
  <2>1. d # Idle /\ At(g, {"resuming"})
    BY <1>1, <1>8 DEF SendFails, In, At
  <2>2. PICK e \in Handling : /\ e = [d EXCEPT !.phase = "resetting"]
                              /\ e.phase = "resetting" /\ e.message = d.message
                              /\ e.question = d.question
    BY <1>1, <2>1, NewPhase DEF Phases
  <2>3. QED
    BY <1>8, <2>1, <2>2 DEF SendFails, To, Goes, Finds, people, agents, answers
<1>9. QED
  BY <1>2, <1>3, <1>4, <1>5, <1>6, <1>7, <1>8 DEF QuietStep

LEMMA FindingKeeps ==
  ASSUME Inv, NEW g \in Goroutines, NEW e \in {Idle} \cup Handling, Finds(g, e),
         delivery' = [delivery EXCEPT ![g] = e],
         UNCHANGED <<posted, headed, session, tracked, contexts, asking, question, shown, told, reopened, unheard>>
  PROVE  Inv'
<1>1. /\ Shapes /\ Registry /\ StartedOnce
      /\ \A m \in posted : Placed(m)
      /\ \A q \in Questions : Asked(q) /\ Exclusive(q) /\ OnItsWay(q)
      /\ \A s \in Sessions : AskingIs(s)
      /\ \A h \in Goroutines : DeliveryIs(h)
  BY DEF Inv
<1>2. UNCHANGED <<posted, headed, session, tracked, contexts, asking, question, shown, told, reopened, unheard>>
  OBVIOUS
<1>3. Finds(g, e) /\ delivery' = [delivery EXCEPT ![g] = e]
  OBVIOUS
<1>4. delivery'[g] = e /\ \A h \in Goroutines \ {g} : delivery'[h] = delivery[h]
  BY <1>1, <1>3 DEF Shapes
<1>5. Growth /\ \A q \in Questions : SameRow(q)
  BY <1>2, RowsStay
<1>6. Shapes'
  BY <1>1, <1>2, <1>3 DEF Shapes
<1>7. \A m \in posted' : Placed(m)'
  BY <1>1, <1>2, <1>5, PlacedStays DEF Shapes
<1>8. Registry'
  BY <1>1, <1>2, <1>5, RegistryStays
<1>9. ~At(g, {"starting"})'
  BY <1>3, <1>4 DEF Finds, At, Idle
<1>10. StartedOnce'
  BY <1>1, <1>4, <1>9, StartedStays
<1>11. ASSUME NEW s \in Sessions PROVE AskingIs(s)'
  BY <1>1, <1>2, <1>5, AskingStays, AskingShape
<1>12. ASSUME NEW q \in Questions PROVE Asked(q)' /\ Exclusive(q)'
  <2>1. Asked(q)'
    BY <1>1, <1>2, <1>5, AskedStays
  <2>2. \A h \in Goroutines : Answers(h, q)' => Answers(h, q)
    BY <1>3, <1>4 DEF Answers, At, Finds, Idle
  <2>3. QED
    BY <1>1, <1>2, <2>1, <2>2, ExclusiveStays
<1>13. ASSUME NEW q \in Questions PROVE OnItsWay(q)'
  <2>1. CASE \A h \in Goroutines : Answers(h, q) => Answers(h, q)'
    BY <1>1, <1>2, <1>5, <2>1, OnItsWayStays DEF Exists
  <2>2. CASE Answers(g, q) /\ ~Answers(g, q)'
    <3>1. /\ delivery[g] # Idle /\ delivery[g].question = q
          /\ delivery[g].message.kind = "press" /\ delivery[g].message.on # "slack"
      BY <1>3, <1>4, <2>2 DEF Answers, At, Finds, Idle
    <3>2. Placed(delivery[g].message) /\ shown[q] # None /\ delivery[g].message.question = q
      BY <1>1, <2>2, <3>1 DEF DeliveryIs, Answers, At
    <3>3. Platform[shown[q]] # "slack"
      BY <3>1, <3>2 DEF Placed
    <3>4. Exists(q) => session[question[q].session].on # "slack"
      BY <1>1, <3>2, <3>3 DEF Asked
    <3>5. QED
      BY <1>2, <3>4 DEF OnItsWay, Exists
  <2>3. QED
    BY <1>4, <2>1, <2>2 DEF Answers, At
<1>14. ASSUME NEW h \in Goroutines \ {g} PROVE DeliveryIs(h)'
  BY <1>1, <1>2, <1>4, <1>5, DeliveryStays
<1>15. DeliveryIs(g)'
  <2>1. CASE e = Idle
    BY <1>4, <2>1 DEF DeliveryIs
  <2>2. CASE e.phase = "received" /\ e.message \in posted
    BY <1>2, <1>4, <1>7, <2>2 DEF DeliveryIs, At
  <2>3. CASE /\ e \in Handling /\ delivery[g] # Idle /\ e.message = delivery[g].message
             /\ e.phase \in {"loading", "recording", "resetting"}
    <3>1. delivery[g].message \in Messages /\ Placed(delivery[g].message)
      BY <1>1, <2>3, DeliveryShape DEF DeliveryIs
    <3>2. Placed(e.message)'
      <4>1. PICK m \in Messages : m = delivery[g].message /\ m = e.message
        BY <2>3, <3>1
      <4>2. Placed(m)'
        BY <1>5, <3>1, <4>1, PlacedStays
      <4>3. QED
        BY <4>1, <4>2
    <3>3. e.question \in Questions /\ shown[e.question] # None
          /\ (e.message.kind = "press" => e.message.question = e.question)
      <4>1. CASE At(g, {"loading", "resuming"})
        <5>1. e.question = delivery[g].question
          BY <1>3, <2>3, <4>1 DEF Finds, At, Idle
        <5>2. QED
          BY <1>1, <2>3, <4>1, <5>1 DEF DeliveryIs, At
      <4>2. CASE At(g, {"received"}) /\ e.message.kind = "press"
        <5>1. e.question = e.message.question /\ e.question \in Questions
          BY <1>3, <2>3, <3>1, <4>2, MessageIs DEF Finds, At, Idle
        <5>2. QED
          BY <2>3, <3>1, <4>2, <5>1 DEF Placed
      <4>3. CASE At(g, {"received"}) /\ e.message.kind = "reply"
        <5>1. e.question \in OpenIn(e.message.thread) /\ e.message.thread \in Threads
          BY <1>3, <2>3, <3>1, <4>3, MessageIs DEF Finds, At, Idle, Match, Message
        <5>2. e.question \in Questions /\ Exists(e.question) /\ question[e.question].thread \in Threads
          BY <1>1, <5>1, RowIs DEF OpenIn
        <5>3. shown[e.question] # None
          BY <1>1, <5>2, ChatAssumption DEF Asked
        <5>4. QED
          BY <4>3, <5>2, <5>3
      <4>4. QED
        BY <1>3, <2>3, <4>1, <4>2, <4>3 DEF Finds, At, Idle
    <3>4. e.phase \in {"loading", "recording"} /\ e.message.kind = "reply" =>
            \A q \in e.message.seen \ {e.question} : Pending(q) => q \in reopened
      <4>1. CASE At(g, {"loading"})
        <5>1. e.question = delivery[g].question
          BY <1>3, <2>3, <4>1 DEF Finds, At, Idle
        <5>2. QED
          BY <1>1, <2>3, <4>1, <5>1 DEF DeliveryIs, At
      <4>2. CASE At(g, {"received"})
        <5>1. SUFFICES ASSUME e.message.kind = "reply",
                              NEW q \in e.message.seen \ {e.question}, Pending(q)
                       PROVE  FALSE
          OBVIOUS
        <5>2. OpenIn(e.message.thread) = {e.question}
          BY <1>3, <2>3, <4>2, <5>1 DEF Finds, At, Idle, Match, Message
        <5>3. q \in OpenIn(e.message.thread)
          BY <2>3, <3>1, <5>1, MessageIs DEF Placed, OpenIn
        <5>4. QED
          BY <5>1, <5>2, <5>3
      <4>3. CASE e.phase = "resetting"
        BY <4>3
      <4>4. QED
        BY <1>3, <2>3, <4>1, <4>2, <4>3 DEF Finds, At, Idle
    <3>5. QED
      BY <1>2, <1>4, <2>3, <3>2, <3>3, <3>4 DEF DeliveryIs, At, Pending
  <2>4. QED
    BY <1>3, <2>1, <2>2, <2>3 DEF Finds
<1>16. QED
  BY <1>6, <1>7, <1>8, <1>10, <1>11, <1>12, <1>13, <1>14, <1>15 DEF Inv

LEMMA QuietKeeps ==
  ASSUME Inv, NEW g \in Goroutines, QuietStep(g)
  PROVE  Inv'
<1>1. PICK e \in {Idle} \cup Handling : Finds(g, e) /\ delivery' = [delivery EXCEPT ![g] = e]
  BY QuietFinds DEF Inv
<1>2. UNCHANGED <<posted, headed, session, tracked, contexts, asking, question, shown, told, reopened, unheard>>
  BY QuietFinds DEF Inv
<1>3. QED
  BY <1>1, <1>2, FindingKeeps

-----------------------------------------------------------------------------
(* The steps of a mention.                                                 *)

(* They leave questions, and who answers them, as they are.                *)
LEMMA MentionLeaves ==
  ASSUME Inv, Growth, NEW g \in Goroutines,
         UNCHANGED <<posted, asking, question, shown, told, reopened, unheard>>,
         \A h \in Goroutines \ {g} : delivery'[h] = delivery[h],
         ~At(g, {"resuming", "resetting"}), ~At(g, {"resuming", "resetting"})',
         \A q \in Questions :
           Exists(q) /\ question[q].session \in tracked' => question[q].session \in tracked
  PROVE  /\ \A m \in posted' : Placed(m)'
         /\ \A q \in Questions : Asked(q)' /\ Exclusive(q)' /\ OnItsWay(q)'
         /\ \A s \in Sessions : AskingIs(s)'
<1>1. Shapes /\ \A q \in Questions : SameRow(q)
  BY DEF Inv, SameRow, Exists
<1>2. \A m \in posted' : Placed(m)'
  BY <1>1, PlacedStays DEF Inv, Shapes
<1>3. ASSUME NEW q \in Questions PROVE Asked(q)' /\ Exclusive(q)' /\ OnItsWay(q)'
  <2>1. Asked(q) /\ Exclusive(q) /\ OnItsWay(q)
    BY DEF Inv
  <2>2. \A h \in Goroutines : Answers(h, q)' <=> Answers(h, q)
    BY DEF Answers, At
  <2>3. Asked(q)'
    BY <1>1, <2>1, AskedStays
  <2>4. Exclusive(q)'
    BY <2>1, <2>2, ExclusiveStays
  <2>5. OnItsWay(q)'
    BY <1>1, <2>1, <2>2, OnItsWayStays DEF Exists
  <2>6. QED
    BY <2>3, <2>4, <2>5
<1>4. ASSUME NEW s \in Sessions PROVE AskingIs(s)'
  BY <1>1, AskingStays, AskingShape DEF Inv
<1>5. QED
  BY <1>2, <1>3, <1>4

LEMMA StartingIs ==
  ASSUME Inv, NEW g \in Goroutines, At(g, {"starting"})
  PROVE  LET s == delivery[g].session IN
         /\ s \in Sessions /\ session[s] # NoRow /\ session[s].status = "pending"
         /\ session[s].on = delivery[g].message.on
<1>1. delivery[g] # Idle /\ DeliveryIs(g)
  BY DEF Inv, At, Idle
<1>2. /\ delivery[g].session \in Sessions
      /\ session[delivery[g].session] = [status |-> "pending", on |-> delivery[g].message.on]
  BY <1>1 DEF DeliveryIs
<1>3. QED
  BY <1>2 DEF NoRow

LEMMA CreateTaskKeeps ==
  ASSUME Inv, NEW g \in Goroutines, CreateTask(g)
  PROVE  Inv'
<1> DEFINE d == delivery[g]
<1>1. Shapes /\ Registry /\ StartedOnce /\ DeliveryIs(g)
  BY DEF Inv
<1>2. PICK s \in Sessions :
        /\ d.phase = "received" /\ d.message.kind = "mention" /\ session[s] = NoRow
        /\ session' = [session EXCEPT ![s] = [status |-> "pending", on |-> d.message.on]]
        /\ contexts' = Registered(g, s)
        /\ delivery' = [delivery EXCEPT ![g] = [d EXCEPT !.phase = "starting", !.session = s]]
  BY DEF CreateTask, In, IsA, Message, Goes
<1>3. UNCHANGED <<posted, headed, tracked, asking, question, shown, told, reopened, unheard>>
  BY DEF CreateTask, people, answers
<1>4. d \in Handling /\ d.message \in Messages /\ d.message.on \in Platforms /\ Placed(d.message)
  <2>1. d # Idle
    BY <1>2 DEF Idle
  <2>2. QED
    BY <1>1, <2>1, DeliveryShape, MessageIs DEF DeliveryIs
<1> DEFINE e == [d EXCEPT !.phase = "starting", !.session = s]
<1>5. /\ e \in Handling /\ e # Idle /\ e.phase = "starting" /\ e.message = d.message /\ e.session = s
  <2>1. "starting" \in Phases
    BY DEF Phases
  <2>2. QED
    BY <1>4, <2>1 DEF Handling, Idle
<1> DEFINE r == [status |-> "pending", on |-> d.message.on]
<1>6. r \in SessionRows /\ r # NoRow /\ r.status = "pending" /\ r.on = d.message.on
  BY <1>4 DEF SessionRows, NoRow
<1>7. /\ delivery' \in [Goroutines -> {Idle} \cup Handling] /\ delivery'[g] = e
      /\ \A h \in Goroutines \ {g} : delivery'[h] = delivery[h]
  BY <1>1, <1>2, <1>5 DEF Shapes
<1>8. /\ session' \in [Sessions -> {NoRow} \cup SessionRows] /\ session'[s] = r
      /\ \A x \in Sessions \ {s} : session'[x] = session[x]
  BY <1>1, <1>2, <1>6 DEF Shapes
<1> HIDE DEF e, r
<1>9. /\ DOMAIN contexts \subseteq DOMAIN contexts' /\ DOMAIN contexts' \subseteq DOMAIN contexts \cup {s}
      /\ \A x \in DOMAIN contexts \ {s} : contexts'[x] = contexts[x]
      /\ IF d.message.on = "slack" THEN s \in DOMAIN contexts' /\ contexts'[s] = d.message.thread
         ELSE contexts' = contexts
  <2>1. contexts' = IF d.message.on = "slack" THEN With(contexts, s, d.message.thread) ELSE contexts
    BY <1>2 DEF Registered, OnSlack, Message
  <2>2. CASE d.message.on = "slack"
    BY <2>1, <2>2 DEF With
  <2>3. CASE d.message.on # "slack"
    BY <2>1, <2>3
  <2>4. QED
    BY <2>2, <2>3
<1>10. s \notin DOMAIN contexts /\ s \notin tracked
  BY <1>1, <1>2 DEF Registry, NoRow
<1>11. Growth
  BY <1>2, <1>3, <1>8 DEF Growth, Exists, Pending
<1>12. Shapes'
  BY <1>1, <1>3, <1>7, <1>8, <1>9 DEF Shapes
<1>13. Registry'
  <2>1. ASSUME NEW x \in DOMAIN contexts', x # s
        PROVE  contexts'[x] \in headed' /\ session'[x] # NoRow /\ session'[x].on = Platform[contexts'[x]]
    BY <1>1, <1>3, <1>8, <1>9, <2>1 DEF Registry, Shapes
  <2>2. ASSUME s \in DOMAIN contexts'
        PROVE  contexts'[s] \in headed' /\ session'[s] # NoRow /\ session'[s].on = Platform[contexts'[s]]
    BY <1>2, <1>3, <1>4, <1>6, <1>8, <1>9, <1>10, <2>2 DEF Placed
  <2>3. \A x \in tracked' : x \in tracked /\ x # s /\ session'[x] = session[x]
                              /\ (x \in DOMAIN contexts => x \in DOMAIN contexts')
    BY <1>1, <1>3, <1>8, <1>9, <1>10 DEF Shapes
  <2>4. QED
    BY <1>1, <2>1, <2>2, <2>3 DEF Registry
<1>14. \A h \in Goroutines : At(h, {"starting"}) => delivery[h].session # s /\ h # g
  <2>1. ASSUME NEW h \in Goroutines, At(h, {"starting"}) PROVE delivery[h].session # s /\ h # g
    <3>1. session[delivery[h].session] # NoRow
      BY <2>1, StartingIs
    <3>2. QED
      BY <1>2, <2>1, <3>1 DEF At
  <2>2. QED
    BY <2>1
<1>15. StartedOnce'
  BY <1>1, <1>5, <1>7, <1>14 DEF StartedOnce, At
<1>16. ~At(g, {"resuming", "resetting"}) /\ ~At(g, {"resuming", "resetting"})'
  BY <1>2, <1>5, <1>7 DEF At
<1>17. /\ \A m \in posted' : Placed(m)'
       /\ \A q \in Questions : Asked(q)' /\ Exclusive(q)' /\ OnItsWay(q)'
       /\ \A x \in Sessions : AskingIs(x)'
  BY <1>3, <1>7, <1>11, <1>16, MentionLeaves
<1>18. ASSUME NEW h \in Goroutines \ {g} PROVE DeliveryIs(h)'
  <2>1. At(h, {"starting"}) =>
          /\ delivery[h].session \in Sessions
          /\ session'[delivery[h].session] = session[delivery[h].session]
    <3>1. ASSUME At(h, {"starting"}) PROVE delivery[h].session \in Sessions
      BY <3>1, StartingIs
    <3>2. QED
      BY <1>8, <1>14, <3>1
  <2>2. DeliveryIs(h)
    BY DEF Inv
  <2>3. QED
    BY <1>1, <1>7, <1>9, <1>11, <2>1, <2>2, DeliveryStays
<1>19. DeliveryIs(g)'
  <2>1. PICK m \in Messages : m = d.message /\ m = e.message /\ Placed(m)
    BY <1>4, <1>5
  <2>2. Placed(m)'
    BY <1>11, <2>1, PlacedStays
  <2>3. /\ session'[s] = [status |-> "pending", on |-> m.on]
        /\ m.on = "slack" => s \in DOMAIN contexts'
    BY <1>8, <1>9, <2>1 DEF r
  <2>4. QED
    BY <1>2, <1>5, <1>7, <2>1, <2>2, <2>3 DEF DeliveryIs, At
<1>20. QED
  BY <1>7, <1>12, <1>13, <1>15, <1>17, <1>18, <1>19 DEF Inv

LEMMA StartSessionKeeps ==
  ASSUME Inv, NEW g \in Goroutines, StartSession(g)
  PROVE  Inv'
<1> DEFINE d == delivery[g]
           s == delivery[g].session
<1>1. Shapes /\ Registry /\ StartedOnce /\ DeliveryIs(g) /\ At(g, {"starting"})
  BY DEF Inv, StartSession, In, At
<1>2. UNCHANGED <<posted, headed, asking, question, shown, told, reopened, unheard>>
  BY DEF StartSession, people, answers
<1>3. /\ s \in Sessions /\ session[s] # NoRow /\ session[s].status = "pending"
      /\ session[s].on = d.message.on /\ session[s] \in SessionRows
  BY <1>1, StartingIs, SessionIs
<1>4. /\ d \in Handling /\ d.message \in Messages /\ d.message.kind = "mention" /\ Placed(d.message)
      /\ d.message.on = "slack" => s \in DOMAIN contexts
  <2>1. d # Idle
    BY <1>1 DEF At, Idle
  <2>2. QED
    BY <1>1, <2>1, DeliveryShape DEF DeliveryIs, At
(* Success and failure have this in common.                                *)
<1>5. ASSUME NEW e \in Handling, e.phase = "acknowledging", e.message = d.message,
             e.session = s \/ e.session = None,
             delivery' = [delivery EXCEPT ![g] = e],
             NEW v \in {"running", "ended"}, session' = [session EXCEPT ![s].status = v],
             tracked' = tracked \cup (IF v = "running" THEN {s} ELSE {}),
             contexts' = (IF v = "running" THEN contexts ELSE Without(contexts, s))
      PROVE  Inv'
  <2>1. delivery'[g] = e /\ \A h \in Goroutines \ {g} : delivery'[h] = delivery[h]
    BY <1>1, <1>5 DEF Shapes
  <2>2. /\ session'[s] # NoRow /\ session'[s].status = v /\ session'[s].on = session[s].on
        /\ session'[s] \in SessionRows /\ \A x \in Sessions \ {s} : session'[x] = session[x]
    <3>1. session'[s] = [session[s] EXCEPT !.status = v] /\ \A x \in Sessions \ {s} : session'[x] = session[x]
      BY <1>1, <1>3, <1>5 DEF Shapes
    <3>2. QED
      BY <1>3, <3>1 DEF SessionRows, NoRow
  <2>3. /\ DOMAIN contexts' \subseteq DOMAIN contexts /\ DOMAIN contexts \ {s} \subseteq DOMAIN contexts'
        /\ v = "running" => contexts' = contexts
        /\ v = "ended" => s \notin DOMAIN contexts'
        /\ \A x \in DOMAIN contexts' : contexts'[x] = contexts[x]
    <3>1. CASE v = "running"
      BY <1>5, <3>1
    <3>2. CASE v = "ended"
      BY <1>5, <3>2 DEF Without
    <3>3. QED
      BY <1>5, <3>1, <3>2
  <2>4. Growth
    BY <1>2, <1>3, <1>5, <2>2 DEF Growth, Exists, Pending, Started
  <2>5. Shapes'
    <3>1. delivery' \in [Goroutines -> {Idle} \cup Handling]
      BY <1>1, <1>5 DEF Shapes
    <3>2. session' \in [Sessions -> {NoRow} \cup SessionRows]
      <4>1. session' = [x \in Sessions |-> session'[x]]
        BY <1>1, <1>5 DEF Shapes
      <4>2. \A x \in Sessions : session'[x] \in {NoRow} \cup SessionRows
        BY <1>1, <2>2 DEF Shapes
      <4>3. QED
        BY <4>1, <4>2
    <3>3. QED
      BY <1>1, <1>2, <1>3, <1>5, <2>3, <3>1, <3>2 DEF Shapes
  <2>6. Registry'
    <3>1. ASSUME NEW x \in DOMAIN contexts'
          PROVE  contexts'[x] \in headed' /\ session'[x] # NoRow /\ session'[x].on = Platform[contexts'[x]]
      BY <1>1, <1>2, <2>2, <2>3 DEF Registry, Shapes
    <3>2. ASSUME NEW x \in tracked', x # s
          PROVE  /\ session'[x].status \in {"running", "waiting_hitl"}
                 /\ session'[x].on = "slack" => x \in DOMAIN contexts'
      BY <1>1, <1>5, <2>2, <2>3, <3>2 DEF Registry, Shapes
    <3>3. ASSUME s \in tracked'
          PROVE  /\ session'[s].status \in {"running", "waiting_hitl"}
                 /\ session'[s].on = "slack" => s \in DOMAIN contexts'
      BY <1>1, <1>3, <1>4, <1>5, <2>2, <2>3, <3>3 DEF Registry
    <3>4. QED
      BY <3>1, <3>2, <3>3 DEF Registry
  <2>7. ~At(g, {"starting"})' /\ ~At(g, {"resuming", "resetting"}) /\ ~At(g, {"resuming", "resetting"})'
    BY <1>1, <1>5, <2>1 DEF At
  <2>8. StartedOnce'
    BY <1>1, <2>1, <2>7, StartedStays
  <2>9. ASSUME NEW q \in Questions, Exists(q), question[q].session \in tracked'
        PROVE  question[q].session \in tracked
    <3>1. Asked(q)
      BY DEF Inv
    <3>2. question[q].session # s
      BY <1>3, <2>9, <3>1 DEF Asked
    <3>3. QED
      BY <1>5, <2>9, <3>2
  <2>10. /\ \A m \in posted' : Placed(m)'
         /\ \A q \in Questions : Asked(q)' /\ Exclusive(q)' /\ OnItsWay(q)'
         /\ \A x \in Sessions : AskingIs(x)'
    BY <1>2, <2>1, <2>4, <2>7, <2>9, MentionLeaves
  <2>11. ASSUME NEW h \in Goroutines \ {g} PROVE DeliveryIs(h)'
    <3>1. At(h, {"starting"}) => delivery[h].session # s /\ delivery[h].session \in Sessions
      BY <1>1, StartingIs DEF StartedOnce
    <3>2. At(h, {"starting"}) =>
            /\ session'[delivery[h].session] = session[delivery[h].session]
            /\ delivery[h].session \in DOMAIN contexts => delivery[h].session \in DOMAIN contexts'
      BY <2>2, <2>3, <3>1
    <3>3. DeliveryIs(h)
      BY DEF Inv
    <3>4. QED
      BY <1>1, <2>1, <2>4, <3>2, <3>3, DeliveryStays
  <2>12. DeliveryIs(g)'
    <3>1. PICK m \in Messages : m = d.message /\ m = e.message /\ Placed(m) /\ m.kind = "mention"
      BY <1>4, <1>5
    <3>2. Placed(m)'
      BY <2>4, <3>1, PlacedStays
    <3>3. e.session # None => session'[e.session] # NoRow /\ session'[e.session].on = m.on
      BY <1>3, <1>5, <2>2, <3>1
    <3>4. QED
      BY <1>5, <2>1, <3>1, <3>2, <3>3 DEF DeliveryIs, At
  <2>13. QED
    BY <2>5, <2>6, <2>8, <2>10, <2>11, <2>12 DEF Inv
<1>6. CASE session' = [session EXCEPT ![s].status = "running"] /\ tracked' = tracked \cup {s}
           /\ To(g, "acknowledging") /\ UNCHANGED contexts
  <2>1. "acknowledging" \in Phases
    BY DEF Phases
  <2> DEFINE e == [d EXCEPT !.phase = "acknowledging"]
  <2>2. /\ e \in Handling /\ e.phase = "acknowledging" /\ e.message = d.message /\ e.session = s
    BY <1>4, <2>1, NewPhase
  <2>3. delivery' = [delivery EXCEPT ![g] = e]
    BY <1>6 DEF To, Goes
  <2> HIDE DEF e
  <2>4. QED
    BY <1>5, <1>6, <2>2, <2>3
<1>7. CASE session' = [session EXCEPT ![s].status = "ended"] /\ contexts' = Without(contexts, s)
           /\ Goes(g, [d EXCEPT !.phase = "acknowledging", !.session = None]) /\ UNCHANGED tracked
  <2>1. "acknowledging" \in Phases
    BY DEF Phases
  <2> DEFINE e == [d EXCEPT !.phase = "acknowledging", !.session = None]
  <2>2. /\ e \in Handling /\ e.phase = "acknowledging" /\ e.message = d.message /\ e.session = None
    BY <1>4, <2>1 DEF Handling
  <2>3. delivery' = [delivery EXCEPT ![g] = e]
    BY <1>7 DEF Goes
  <2> HIDE DEF e
  <2>4. QED
    BY <1>5, <1>7, <2>2, <2>3
<1>8. QED
  BY <1>6, <1>7 DEF StartSession

(* Slack puts the context of a session that may have ended, the others the *)
(* message of the acknowledgement, which heads a thread of its own.        *)
LEMMA AcknowledgeKeeps ==
  ASSUME Inv, NEW g \in Goroutines, SlackAcknowledges(g) \/ BotAcknowledges(g)
  PROVE  Inv'
<1> DEFINE d == delivery[g]
           s == delivery[g].session
<1>1. Shapes /\ Registry /\ StartedOnce /\ DeliveryIs(g) /\ At(g, {"acknowledging"})
  BY DEF Inv, SlackAcknowledges, BotAcknowledges, In, At
<1>2. /\ UNCHANGED <<posted, session, tracked, asking, question, shown, told, reopened, unheard>>
      /\ delivery' = [delivery EXCEPT ![g] = Idle]
  BY DEF SlackAcknowledges, BotAcknowledges, Goes, people, answers
<1>3. d \in Handling /\ d.message \in Messages /\ d.message.kind = "mention" /\ Placed(d.message)
      /\ (s # None => s \in Sessions /\ session[s] # NoRow /\ session[s].on = d.message.on)
  <2>1. d # Idle
    BY <1>1 DEF At, Idle
  <2>2. QED
    BY <1>1, <2>1, DeliveryShape DEF DeliveryIs, At
<1>4. \/ headed' = headed /\ contexts' = contexts
      \/ \E t \in Threads : /\ headed' = headed \cup {t} /\ Platform[t] = d.message.on
                            /\ contexts' = IF s = None THEN contexts ELSE With(contexts, s, t)
  <2>1. CASE SlackAcknowledges(g)
    <3>1. d.message.on = "slack" /\ headed' = headed
          /\ contexts' = IF s = None THEN contexts ELSE With(contexts, s, d.message.thread)
      BY <2>1 DEF SlackAcknowledges, OnSlack, Message, Put, people
    <3>2. d.message.thread \in headed /\ Platform[d.message.thread] = "slack"
      BY <1>3, <3>1 DEF Placed
    <3>3. d.message.thread \in Threads
      BY <1>1, <3>2 DEF Shapes
    <3>4. headed' = headed \cup {d.message.thread}
      BY <3>1, <3>2
    <3>5. QED
      BY <3>1, <3>2, <3>3, <3>4
  <2>2. CASE BotAcknowledges(g)
    BY <2>2 DEF BotAcknowledges, Message, Put
  <2>3. QED
    BY <2>1, <2>2
<1>5. /\ headed \subseteq headed' /\ headed' \subseteq Threads
      /\ DOMAIN contexts \subseteq DOMAIN contexts' /\ DOMAIN contexts' \subseteq Sessions
      /\ \A x \in DOMAIN contexts' :
           \/ x \in DOMAIN contexts /\ contexts'[x] = contexts[x]
           \/ /\ x \in Sessions /\ session[x] # NoRow /\ session[x].on = Platform[contexts'[x]]
              /\ contexts'[x] \in headed'
  <2>1. CASE headed' = headed /\ contexts' = contexts
    BY <1>1, <2>1 DEF Shapes
  <2>2. ASSUME NEW t \in Threads, headed' = headed \cup {t}, Platform[t] = d.message.on,
               contexts' = IF s = None THEN contexts ELSE With(contexts, s, t)
        PROVE  /\ headed \subseteq headed' /\ headed' \subseteq Threads
               /\ DOMAIN contexts \subseteq DOMAIN contexts' /\ DOMAIN contexts' \subseteq Sessions
               /\ \A x \in DOMAIN contexts' :
                    \/ x \in DOMAIN contexts /\ contexts'[x] = contexts[x]
                    \/ /\ x \in Sessions /\ session[x] # NoRow /\ session[x].on = Platform[contexts'[x]]
                       /\ contexts'[x] \in headed'
    <3>1. CASE s = None
      BY <1>1, <2>2, <3>1 DEF Shapes
    <3>2. CASE s # None
      <4>1. contexts' = [x \in DOMAIN contexts \cup {s} |-> IF x = s THEN t ELSE contexts[x]]
        BY <2>2, <3>2 DEF With
      <4>2. s \in Sessions /\ session[s] # NoRow /\ session[s].on = Platform[t]
        BY <1>3, <2>2, <3>2
      <4>3. QED
        BY <1>1, <2>2, <4>1, <4>2 DEF Shapes
    <3>3. QED
      BY <3>1, <3>2
  <2>3. QED
    BY <1>4, <2>1, <2>2
<1>6. delivery'[g] = Idle /\ \A h \in Goroutines \ {g} : delivery'[h] = delivery[h]
  BY <1>1, <1>2 DEF Shapes
<1>7. Growth
  BY <1>2, <1>5 DEF Growth, Exists, Pending
<1>8. Shapes'
  BY <1>1, <1>2, <1>5 DEF Shapes
<1>9. Registry'
  BY <1>1, <1>2, <1>5 DEF Registry
<1>10. ~At(g, {"starting"})' /\ ~At(g, {"resuming", "resetting"}) /\ ~At(g, {"resuming", "resetting"})'
  BY <1>1, <1>6 DEF At, Idle
<1>11. StartedOnce'
  BY <1>1, <1>6, <1>10, StartedStays
<1>12. /\ \A m \in posted' : Placed(m)'
       /\ \A q \in Questions : Asked(q)' /\ Exclusive(q)' /\ OnItsWay(q)'
       /\ \A x \in Sessions : AskingIs(x)'
  BY <1>2, <1>6, <1>7, <1>10, MentionLeaves
<1>13. ASSUME NEW h \in Goroutines \ {g} PROVE DeliveryIs(h)'
  <2>1. DeliveryIs(h)
    BY DEF Inv
  <2>2. QED
    BY <1>1, <1>2, <1>5, <1>6, <1>7, <2>1, DeliveryStays
<1>14. DeliveryIs(g)'
  BY <1>6 DEF DeliveryIs
<1>15. QED
  BY <1>8, <1>9, <1>11, <1>12, <1>13, <1>14 DEF Inv

-----------------------------------------------------------------------------
(* The steps of an answer.                                                 *)

(* A handler with an answer knows the question, which was shown.           *)
LEMMA AnsweringIs ==
  ASSUME Inv, NEW g \in Goroutines, At(g, {"recording", "resuming", "resetting"})
  PROVE  LET q == delivery[g].question IN
         /\ delivery[g] \in Handling /\ delivery[g].message \in Messages /\ Placed(delivery[g].message)
         /\ q \in Questions /\ shown[q] # None /\ question[q] \in Rows /\ Exists(q)
         /\ question[q].session \in Sessions
         /\ session[question[q].session] \in SessionRows
         /\ session[question[q].session].status \in Started
         /\ delivery[g].message.kind = "press" => delivery[g].message.question = q
         /\ At(g, {"resuming", "resetting"}) => question[q].status = "answered" /\ told[q] = 0
<1>1. Shapes /\ delivery[g] # Idle /\ DeliveryIs(g)
  BY DEF Inv, At, Idle
<1>2. delivery[g] \in Handling /\ delivery[g].message \in Messages /\ Placed(delivery[g].message)
  BY <1>1, DeliveryShape DEF DeliveryIs
<1>3. /\ delivery[g].question \in Questions /\ shown[delivery[g].question] # None
      /\ delivery[g].message.kind = "press" => delivery[g].message.question = delivery[g].question
  BY <1>1 DEF DeliveryIs, At
<1>4. PICK q \in Questions : q = delivery[g].question /\ shown[q] # None
  BY <1>3
<1>5. Asked(q) /\ Exclusive(q)
  BY DEF Inv
<1>6. Exists(q)
  BY <1>4, <1>5 DEF Asked
<1>7. question[q] \in Rows /\ question[q].session \in Sessions
  BY <1>1, <1>6, RowIs
<1>8. session[question[q].session].status \in Started
  BY <1>5, <1>6 DEF Asked, Started
<1>9. session[question[q].session] \in SessionRows
  BY <1>1, <1>7, <1>8, SessionIs DEF Started
<1>10. At(g, {"resuming", "resetting"}) => question[q].status = "answered" /\ told[q] = 0
  BY <1>4, <1>5 DEF Exclusive, Answers
<1>11. QED
  BY <1>2, <1>3, <1>4, <1>6, <1>7, <1>8, <1>9, <1>10

(* Rows, threads and other handlers, when statuses only change.            *)
LEMMA StatusesLeave ==
  ASSUME Inv, Growth, UNCHANGED <<posted, asking, shown>>, NEW g \in Goroutines,
         \A h \in Goroutines \ {g} : delivery'[h] = delivery[h],
         ~At(g, {"starting"})',
         \A q \in Questions : SameRow(q) /\ (told'[q] = told[q] \/ shown[q] # None),
         \A s \in Sessions : session[s].status = "pending" =>
           session'[s] = session[s] /\ (s \in DOMAIN contexts => s \in DOMAIN contexts')
  PROVE  /\ \A m \in posted' : Placed(m)'
         /\ \A q \in Questions : Asked(q)'
         /\ \A s \in Sessions : AskingIs(s)'
         /\ \A h \in Goroutines \ {g} : DeliveryIs(h)'
         /\ StartedOnce'
<1>1. Shapes /\ StartedOnce
  BY DEF Inv
<1>2. \A m \in posted' : Placed(m)'
  BY <1>1, PlacedStays DEF Inv, Shapes
<1>3. ASSUME NEW q \in Questions PROVE Asked(q)'
  BY <1>1, AskedStays DEF Inv
<1>4. ASSUME NEW s \in Sessions PROVE AskingIs(s)'
  BY <1>1, AskingStays, AskingShape DEF Inv
<1>5. ASSUME NEW h \in Goroutines \ {g} PROVE DeliveryIs(h)'
  <2>1. DeliveryIs(h) /\ delivery'[h] = delivery[h]
    BY DEF Inv
  <2>2. At(h, {"starting"}) =>
          /\ session'[delivery[h].session] = session[delivery[h].session]
          /\ delivery[h].session \in DOMAIN contexts => delivery[h].session \in DOMAIN contexts'
    BY StartingIs
  <2>3. QED
    BY <1>1, <2>1, <2>2, DeliveryStays
<1>6. StartedOnce'
  BY <1>1, StartedStays
<1>7. QED
  BY <1>2, <1>3, <1>4, <1>5, <1>6

LEMMA RecordKeeps ==
  ASSUME Inv, NEW g \in Goroutines, Record(g)
  PROVE  Inv'
<1> DEFINE d == delivery[g]
<1>1. Shapes /\ Registry /\ At(g, {"recording"}) /\ d # Idle
  BY DEF Inv, Record, In, At, Idle
<1>2. PICK q \in Questions :
        /\ q = d.question /\ shown[q] # None /\ question[q] \in Rows /\ Exists(q)
        /\ d \in Handling /\ d.message \in Messages /\ Placed(d.message)
        /\ d.message.kind = "press" => d.message.question = q
  BY <1>1, AnsweringIs DEF At
<1>3. UNCHANGED <<posted, headed, session, tracked, contexts, asking, shown, told, reopened>>
  BY DEF Record, people, agents
<1>4. CASE ~Pending(q)
  <2>1. delivery' = [delivery EXCEPT ![g] = Idle] /\ UNCHANGED <<question, unheard>>
    BY <1>2, <1>4 DEF Record, Goes
  <2>2. Finds(g, Idle)
    BY <1>1 DEF Finds, At
  <2>3. QED
    BY <1>3, <2>1, <2>2, FindingKeeps
<1>5. CASE Pending(q)
  <2>1. PICK e \in {Idle, [d EXCEPT !.phase = "resuming"]} :
          /\ delivery' = [delivery EXCEPT ![g] = e]
          /\ question' = [question EXCEPT ![q].status = "answered"]
          /\ unheard' = IF e = Idle THEN unheard \cup {q} ELSE unheard
    <3>1. [d EXCEPT !.phase = "resuming"] # Idle
      <4>1. "resuming" \in Phases
        BY DEF Phases
      <4>2. QED
        BY <1>2, <4>1, NewPhase
    <3>2. QED
      BY <1>2, <1>5, <3>1 DEF Record, To, Goes
  <2>2. /\ e \in {Idle} \cup Handling
        /\ e # Idle => e.phase = "resuming" /\ e.message = d.message /\ e.question = q
    <3>1. CASE e = Idle
      BY <3>1
    <3>2. CASE e = [d EXCEPT !.phase = "resuming"]
      <4>1. "resuming" \in Phases
        BY DEF Phases
      <4>2. QED
        BY <1>2, <3>2, <4>1, NewPhase
    <3>3. QED
      BY <2>1, <3>1, <3>2
  <2>3. delivery'[g] = e /\ \A h \in Goroutines \ {g} : delivery'[h] = delivery[h]
    BY <1>1, <2>1 DEF Shapes
  <2>4. /\ question'[q] = [question[q] EXCEPT !.status = "answered"]
        /\ \A x \in Questions \ {q} : question'[x] = question[x]
    BY <1>1, <1>2, <2>1 DEF Shapes
  <2>5. /\ question'[q] \in Rows /\ question'[q] # NoRow /\ question'[q].status = "answered"
        /\ question'[q].session = question[q].session /\ question'[q].thread = question[q].thread
    BY <1>2, <2>4 DEF Rows, NoRow
  <2>6. \A x \in Questions : SameRow(x)
    BY <1>2, <1>3, <2>4, <2>5 DEF SameRow, Exists
  <2>7. Growth
    BY <1>2, <1>3, <2>1, <2>4, <2>5 DEF Growth, Exists, Pending
  <2>8. Shapes'
    <3>1. question' \in [Questions -> {NoRow} \cup Rows]
      <4>1. question' = [x \in Questions |-> question'[x]]
        BY <1>1, <2>1 DEF Shapes
      <4>2. \A x \in Questions : question'[x] \in {NoRow} \cup Rows
        BY <1>1, <2>4, <2>5 DEF Shapes
      <4>3. QED
        BY <4>1, <4>2
    <3>2. delivery' \in [Goroutines -> {Idle} \cup Handling]
      BY <1>1, <2>1, <2>2 DEF Shapes
    <3>3. QED
      BY <1>1, <1>3, <3>1, <3>2 DEF Shapes
  <2>9. Registry'
    BY <1>1, <1>3, <2>7, RegistryStays
  <2>10. /\ \A m \in posted' : Placed(m)'
         /\ \A x \in Questions : Asked(x)'
         /\ \A s \in Sessions : AskingIs(s)'
         /\ \A h \in Goroutines \ {g} : DeliveryIs(h)'
         /\ StartedOnce'
    <3>1. ~At(g, {"starting"})'
      BY <2>2, <2>3 DEF At, Idle
    <3>2. QED
      BY <1>3, <2>3, <2>6, <2>7, <3>1, StatusesLeave
  <2>11. DeliveryIs(g)'
    <3>1. SUFFICES ASSUME e # Idle PROVE DeliveryIs(g)'
      BY <2>3 DEF DeliveryIs
    <3>2. PICK m \in Messages : m = d.message /\ m = e.message /\ Placed(m)
      BY <1>2, <2>2, <3>1
    <3>3. Placed(m)'
      BY <2>7, <3>2, PlacedStays
    <3>4. QED
      BY <1>2, <1>3, <2>2, <2>3, <3>1, <3>2, <3>3 DEF DeliveryIs, At
  <2>12. ASSUME NEW x \in Questions, x # q PROVE Exclusive(x)' /\ OnItsWay(x)'
    <3>1. \A h \in Goroutines : Answers(h, x)' <=> Answers(h, x)
      <4>1. ~Answers(g, x)
        BY <1>1 DEF Answers, At
      <4>2. ~Answers(g, x)'
        BY <2>2, <2>3, <2>12 DEF Answers, At, Idle
      <4>3. QED
        BY <2>3, <4>1, <4>2 DEF Answers, At
    <3>2. Asked(x) /\ Exclusive(x) /\ OnItsWay(x)
      BY DEF Inv
    <3>3. Exclusive(x)'
      BY <1>3, <2>4, <2>12, <3>1, <3>2, ExclusiveStays
    <3>4. OnItsWay(x)'
      BY <1>1, <1>3, <2>4, <2>7, <2>12, <3>1, <3>2, OnItsWayStays DEF Exists
    <3>5. QED
      BY <3>3, <3>4
  <2>13. Exclusive(q)' /\ OnItsWay(q)'
    <3>1. Exclusive(q)
      BY <1>2 DEF Inv
    <3>2. told[q] = 0 /\ \A h \in Goroutines : ~Answers(h, q)
      <4>1. question[q].status # "answered"
        BY <1>5 DEF Pending
      <4>2. told[q] \in Nat
        BY <1>1, <1>2 DEF Shapes
      <4>3. QED
        BY <3>1, <4>1, <4>2 DEF Exclusive
    <3>3. \A h \in Goroutines \ {g} : ~Answers(h, q)'
      BY <1>3, <2>3, <2>4, <3>2 DEF Answers, At
    <3>4. q \in unheard' \/ Answers(g, q)'
      BY <2>1, <2>2, <2>3 DEF Answers, At
    <3>5. Exclusive(q)'
      BY <1>3, <2>5, <3>2, <3>3 DEF Exclusive
    <3>6. OnItsWay(q)'
      BY <3>4 DEF OnItsWay
    <3>7. QED
      BY <3>5, <3>6
  <2>14. QED
    BY <2>8, <2>9, <2>10, <2>11, <2>12, <2>13 DEF Inv
<1>6. QED
  BY <1>4, <1>5

LEMMA SendPromptKeeps ==
  ASSUME Inv, NEW g \in Goroutines, SendPrompt(g)
  PROVE  Inv'
<1> DEFINE d == delivery[g]
<1>1. Shapes /\ Registry /\ At(g, {"resuming"}) /\ Answers(g, d.question)
  BY DEF Inv, SendPrompt, In, At, Answers
<1>2. PICK q \in Questions :
        /\ q = d.question /\ shown[q] # None /\ question[q] \in Rows /\ Exists(q)
        /\ question[q].session \in Sessions
        /\ session[question[q].session] \in SessionRows
        /\ question[q].status = "answered" /\ told[q] = 0
  BY <1>1, AnsweringIs DEF At
<1>3. PICK s \in Sessions : s = question[q].session
  BY <1>2
<1>4. /\ s \in tracked /\ session[s].status = "waiting_hitl" /\ session[s] \in SessionRows
      /\ session' = [session EXCEPT ![s].status = "running"]
      /\ told' = [told EXCEPT ![q] = @ + 1]
      /\ delivery' = [delivery EXCEPT ![g] = Idle]
  BY <1>2, <1>3 DEF SendPrompt, Asker, Goes, In
<1>5. UNCHANGED <<posted, headed, tracked, contexts, asking, question, shown, reopened, unheard>>
  BY DEF SendPrompt, people
<1>6. /\ session'[s] = [session[s] EXCEPT !.status = "running"]
      /\ \A x \in Sessions \ {s} : session'[x] = session[x]
      /\ delivery'[g] = Idle /\ \A h \in Goroutines \ {g} : delivery'[h] = delivery[h]
      /\ told'[q] = 1 /\ \A x \in Questions \ {q} : told'[x] = told[x]
  BY <1>1, <1>2, <1>4 DEF Shapes
<1>7. /\ session'[s] \in SessionRows /\ session'[s] # NoRow /\ session'[s].status = "running"
      /\ session'[s].on = session[s].on
  BY <1>4, <1>6 DEF SessionRows, NoRow
<1>8. Growth
  BY <1>2, <1>5, <1>6, <1>7 DEF Growth, Exists, Pending, Started
<1>9. Shapes'
  <2>1. session' \in [Sessions -> {NoRow} \cup SessionRows]
    <3>1. session' = [x \in Sessions |-> session'[x]]
      BY <1>1, <1>4 DEF Shapes
    <3>2. \A x \in Sessions : session'[x] \in {NoRow} \cup SessionRows
      BY <1>1, <1>6, <1>7 DEF Shapes
    <3>3. QED
      BY <3>1, <3>2
  <2>2. told' \in [Questions -> Nat] /\ delivery' \in [Goroutines -> {Idle} \cup Handling]
    BY <1>1, <1>4 DEF Shapes
  <2>3. QED
    BY <1>1, <1>5, <2>1, <2>2 DEF Shapes
<1>10. Registry'
  <2>1. ASSUME NEW x \in DOMAIN contexts'
        PROVE  contexts'[x] \in headed' /\ session'[x] # NoRow /\ session'[x].on = Platform[contexts'[x]]
    <3>1. /\ x \in DOMAIN contexts /\ x \in Sessions /\ contexts' = contexts /\ headed' = headed
          /\ contexts[x] \in headed /\ session[x] # NoRow /\ session[x].on = Platform[contexts[x]]
      BY <1>1, <1>5 DEF Registry, Shapes
    <3>2. session'[x] # NoRow /\ session'[x].on = session[x].on
      BY <1>6, <1>7, <3>1
    <3>3. QED
      BY <3>1, <3>2
  <2>2. \A x \in tracked' : /\ session'[x].status \in {"running", "waiting_hitl"}
                            /\ session'[x].on = "slack" => x \in DOMAIN contexts'
    BY <1>1, <1>5, <1>6, <1>7 DEF Registry, Shapes
  <2>3. QED
    BY <2>1, <2>2 DEF Registry
<1>11. \A x \in Questions : SameRow(x)
  BY <1>5 DEF SameRow, Exists
<1>12. /\ \A m \in posted' : Placed(m)'
       /\ \A x \in Questions : Asked(x)'
       /\ \A x \in Sessions : AskingIs(x)'
       /\ \A h \in Goroutines \ {g} : DeliveryIs(h)'
       /\ StartedOnce'
  <2>1. ~At(g, {"starting"})'
    BY <1>6 DEF At, Idle
  <2>2. \A x \in Questions : told'[x] = told[x] \/ shown[x] # None
    BY <1>2, <1>6
  <2>3. \A x \in Sessions : session[x].status = "pending" =>
           session'[x] = session[x] /\ (x \in DOMAIN contexts => x \in DOMAIN contexts')
    BY <1>4, <1>5, <1>6
  <2>4. QED
    BY <1>5, <1>6, <1>8, <1>11, <2>1, <2>2, <2>3, StatusesLeave
<1>13. DeliveryIs(g)'
  BY <1>6 DEF DeliveryIs
<1>14. \A h \in Goroutines : ~Answers(h, q)'
  <2>1. Exclusive(q) /\ Answers(g, q)
    BY <1>1, <1>2 DEF Inv
  <2>2. \A h \in Goroutines \ {g} : ~Answers(h, q)
    BY <2>1 DEF Exclusive
  <2>3. QED
    BY <1>6, <2>2 DEF Answers, At, Idle
<1>15. Exclusive(q)' /\ OnItsWay(q)'
  BY <1>2, <1>5, <1>6, <1>14 DEF Exclusive, OnItsWay
<1>16. ASSUME NEW x \in Questions, x # q PROVE Exclusive(x)' /\ OnItsWay(x)'
  <2>1. \A h \in Goroutines : Answers(h, x)' <=> Answers(h, x)
    BY <1>2, <1>6, <1>16 DEF Answers, At, Idle
  <2>2. Asked(x) /\ Exclusive(x) /\ OnItsWay(x)
    BY DEF Inv
  <2>3. Exclusive(x)'
    BY <1>5, <1>6, <1>16, <2>1, <2>2, ExclusiveStays
  <2>4. OnItsWay(x)'
    BY <1>1, <1>5, <1>6, <1>8, <1>16, <2>1, <2>2, OnItsWayStays DEF Exists
  <2>5. QED
    BY <2>3, <2>4
<1>17. QED
  BY <1>9, <1>10, <1>12, <1>13, <1>15, <1>16 DEF Inv

LEMMA ResetKeeps ==
  ASSUME Inv, NEW g \in Goroutines, ResetQuestion(g)
  PROVE  Inv'
<1> DEFINE d == delivery[g]
<1>1. Shapes /\ Registry /\ At(g, {"resetting"}) /\ Answers(g, d.question)
  BY DEF Inv, ResetQuestion, In, At, Answers
<1>2. PICK q \in Questions :
        /\ q = d.question /\ shown[q] # None /\ question[q] \in Rows /\ Exists(q)
        /\ question[q].status = "answered" /\ told[q] = 0
  BY <1>1, AnsweringIs DEF At
<1>3. /\ delivery' = [delivery EXCEPT ![g] = Idle] /\ reopened' = reopened \cup {q}
      /\ question' = question \/ question' = [question EXCEPT ![q].status = "pending"]
      /\ UNCHANGED <<posted, headed, session, tracked, contexts, asking, shown, told, unheard>>
  BY <1>2 DEF ResetQuestion, Goes, people, agents
<1>4. /\ delivery'[g] = Idle /\ \A h \in Goroutines \ {g} : delivery'[h] = delivery[h]
      /\ \A x \in Questions \ {q} : question'[x] = question[x]
      /\ question'[q] = question[q] \/ question'[q] = [question[q] EXCEPT !.status = "pending"]
  BY <1>1, <1>2, <1>3 DEF Shapes
<1>5. /\ question'[q] \in Rows /\ question'[q] # NoRow
      /\ question'[q].session = question[q].session /\ question'[q].thread = question[q].thread
  BY <1>2, <1>4 DEF Rows, NoRow
<1>6. \A x \in Questions : SameRow(x)
  BY <1>2, <1>3, <1>4, <1>5 DEF SameRow, Exists
<1>7. Growth
  BY <1>2, <1>3, <1>4, <1>5 DEF Growth, Exists, Pending
<1>8. Shapes'
  <2>1. question' \in [Questions -> {NoRow} \cup Rows]
    <3>1. question' = [x \in Questions |-> question'[x]]
      BY <1>1, <1>3 DEF Shapes
    <3>2. \A x \in Questions : question'[x] \in {NoRow} \cup Rows
      BY <1>1, <1>4, <1>5 DEF Shapes
    <3>3. QED
      BY <3>1, <3>2
  <2>2. delivery' \in [Goroutines -> {Idle} \cup Handling]
    BY <1>1, <1>3 DEF Shapes
  <2>3. QED
    BY <1>1, <1>3, <2>1, <2>2 DEF Shapes
<1>9. Registry'
  BY <1>1, <1>3, <1>7, RegistryStays
<1>10. /\ \A m \in posted' : Placed(m)'
       /\ \A x \in Questions : Asked(x)'
       /\ \A x \in Sessions : AskingIs(x)'
       /\ \A h \in Goroutines \ {g} : DeliveryIs(h)'
       /\ StartedOnce'
  <2>1. ~At(g, {"starting"})'
    BY <1>4 DEF At, Idle
  <2>2. QED
    BY <1>3, <1>4, <1>6, <1>7, <2>1, StatusesLeave
<1>11. DeliveryIs(g)'
  BY <1>4 DEF DeliveryIs
<1>12. \A h \in Goroutines : ~Answers(h, q)'
  <2>1. Exclusive(q) /\ Answers(g, q)
    BY <1>1, <1>2 DEF Inv
  <2>2. \A h \in Goroutines \ {g} : ~Answers(h, q)
    BY <2>1 DEF Exclusive
  <2>3. QED
    BY <1>4, <2>2 DEF Answers, At, Idle
<1>13. Exclusive(q)' /\ OnItsWay(q)'
  BY <1>2, <1>3, <1>12 DEF Exclusive, OnItsWay
<1>14. ASSUME NEW x \in Questions, x # q PROVE Exclusive(x)' /\ OnItsWay(x)'
  <2>1. \A h \in Goroutines : Answers(h, x)' <=> Answers(h, x)
    BY <1>2, <1>4, <1>14 DEF Answers, At, Idle
  <2>2. Asked(x) /\ Exclusive(x) /\ OnItsWay(x)
    BY DEF Inv
  <2>3. Exclusive(x)'
    BY <1>3, <1>4, <1>14, <2>1, <2>2, ExclusiveStays
  <2>4. OnItsWay(x)'
    BY <1>1, <1>3, <1>4, <1>7, <1>14, <2>1, <2>2, OnItsWayStays DEF Exists
  <2>5. QED
    BY <2>3, <2>4
<1>15. QED
  BY <1>8, <1>9, <1>10, <1>11, <1>13, <1>14 DEF Inv

LEMMA UnavailableKeeps ==
  ASSUME Inv, NEW g \in Goroutines, Unavailable(g)
  PROVE  Inv'
<1> DEFINE d == delivery[g]
<1>1. Shapes /\ Registry /\ At(g, {"resuming"})
  BY DEF Inv, Unavailable, In, At
<1>2. PICK q \in Questions :
        /\ q = d.question /\ shown[q] # None /\ question[q] \in Rows /\ Exists(q)
        /\ question[q].session \in Sessions
        /\ session[question[q].session] \in SessionRows
        /\ session[question[q].session].status \in Started
        /\ d \in Handling /\ d.message \in Messages /\ Placed(d.message)
        /\ d.message.kind = "press" => d.message.question = q
  BY <1>1, AnsweringIs DEF At
<1>3. PICK s \in Sessions : s = question[q].session
  BY <1>2
<1> DEFINE e == IF d.message.on = "slack" THEN Idle ELSE [d EXCEPT !.phase = "resetting"]
<1>4. /\ s \notin tracked /\ session[s] \in SessionRows /\ session[s].status \in Started
      /\ delivery' = [delivery EXCEPT ![g] = e]
      /\ UNCHANGED <<posted, headed, tracked, asking, shown, told, reopened, unheard>>
  BY <1>2, <1>3 DEF Unavailable, Asker, Goes, To, OnSlack, Message, people
<1>5. \/ session' = session /\ contexts' = contexts /\ question' = question
      \/ /\ session' = [session EXCEPT ![s].status = "ended"]
         /\ contexts' = Without(contexts, s) /\ CloseQuestions(s)
  BY <1>2, <1>3 DEF Unavailable, Asker
<1>6. /\ e = Idle \/ (e \in Handling /\ e.phase = "resetting" /\ e.message = d.message /\ e.question = q)
  <2>1. "resetting" \in Phases
    BY DEF Phases
  <2>2. QED
    BY <1>2, <2>1, NewPhase
<1> HIDE DEF e
<1>7. delivery'[g] = e /\ \A h \in Goroutines \ {g} : delivery'[h] = delivery[h]
  BY <1>1, <1>4 DEF Shapes
<1>8. /\ session' \in [Sessions -> {NoRow} \cup SessionRows]
      /\ \A x \in Sessions \ {s} : session'[x] = session[x]
      /\ session'[s] # NoRow /\ session'[s].status \in Started /\ session'[s].on = session[s].on
  <2>1. CASE session' = session
    BY <1>1, <1>4, <2>1, SessionIs DEF Shapes
  <2>2. CASE session' = [session EXCEPT ![s].status = "ended"]
    <3>1. /\ session'[s] = [session[s] EXCEPT !.status = "ended"]
          /\ \A x \in Sessions \ {s} : session'[x] = session[x]
      BY <1>1, <2>2 DEF Shapes
    <3>2. /\ session'[s] \in SessionRows /\ session'[s] # NoRow /\ session'[s].status = "ended"
          /\ session'[s].on = session[s].on
      BY <1>4, <3>1 DEF SessionRows, NoRow
    <3>3. session' = [x \in Sessions |-> session'[x]]
      BY <1>1, <2>2 DEF Shapes
    <3>4. \A x \in Sessions : session'[x] \in {NoRow} \cup SessionRows
      BY <1>1, <3>1, <3>2 DEF Shapes
    <3>5. QED
      BY <3>1, <3>2, <3>3, <3>4 DEF Started
  <2>3. QED
    BY <1>5, <2>1, <2>2
<1>9. /\ DOMAIN contexts' \subseteq DOMAIN contexts /\ DOMAIN contexts \ {s} \subseteq DOMAIN contexts'
      /\ \A x \in DOMAIN contexts' : contexts'[x] = contexts[x]
  BY <1>5 DEF Without
<1>10. /\ question' \in [Questions -> {NoRow} \cup Rows]
       /\ \A x \in Questions :
            /\ Exists(x)' <=> Exists(x)
            /\ Exists(x) => /\ question'[x].session = question[x].session
                            /\ question'[x].thread = question[x].thread
            /\ question'[x].status = question[x].status
                 \/ (question[x].status = "pending" /\ question'[x].status = "cancelled")
  <2>1. CASE question' = question
    BY <1>1, <2>1 DEF Shapes, Exists
  <2>2. CASE CloseQuestions(s)
    BY <1>1, <2>2, Closing
  <2>3. QED
    BY <1>5, <2>1, <2>2
<1>11. \A x \in Questions : SameRow(x)
  BY <1>4, <1>10 DEF SameRow
<1>12. Growth
  BY <1>4, <1>8, <1>10 DEF Growth, Pending
<1>13. Shapes'
  <2>1. delivery' \in [Goroutines -> {Idle} \cup Handling]
    BY <1>1, <1>4, <1>6 DEF Shapes
  <2>2. QED
    BY <1>1, <1>4, <1>8, <1>9, <1>10, <2>1 DEF Shapes
<1>14. Registry'
  <2>1. \A x \in DOMAIN contexts' :
          contexts'[x] \in headed' /\ session'[x] # NoRow /\ session'[x].on = Platform[contexts'[x]]
    BY <1>1, <1>4, <1>8, <1>9 DEF Registry, Shapes
  <2>2. \A x \in tracked' : /\ session'[x].status \in {"running", "waiting_hitl"}
                            /\ session'[x].on = "slack" => x \in DOMAIN contexts'
    BY <1>1, <1>4, <1>8, <1>9 DEF Registry, Shapes
  <2>3. QED
    BY <2>1, <2>2 DEF Registry
<1>15. /\ \A m \in posted' : Placed(m)'
       /\ \A x \in Questions : Asked(x)'
       /\ \A x \in Sessions : AskingIs(x)'
       /\ \A h \in Goroutines \ {g} : DeliveryIs(h)'
       /\ StartedOnce'
  <2>1. ~At(g, {"starting"})'
    BY <1>6, <1>7 DEF At, Idle
  <2>2. \A x \in Sessions : session[x].status = "pending" =>
           session'[x] = session[x] /\ (x \in DOMAIN contexts => x \in DOMAIN contexts')
    BY <1>4, <1>8, <1>9 DEF Started
  <2>3. QED
    BY <1>4, <1>7, <1>11, <1>12, <2>1, <2>2, StatusesLeave
<1>16. DeliveryIs(g)'
  <2>1. CASE e = Idle
    BY <1>7, <2>1 DEF DeliveryIs
  <2>2. CASE e # Idle
    <3>1. PICK m \in Messages : m = d.message /\ m = e.message /\ Placed(m)
      BY <1>2, <1>6, <2>2
    <3>2. Placed(m)'
      BY <1>12, <3>1, PlacedStays
    <3>3. QED
      BY <1>2, <1>4, <1>6, <1>7, <2>2, <3>1, <3>2 DEF DeliveryIs, At
  <2>3. QED
    BY <2>1, <2>2
<1>17. ASSUME NEW x \in Questions PROVE Exclusive(x)'
  <2>1. \A h \in Goroutines : Answers(h, x)' => Answers(h, x)
    BY <1>1, <1>2, <1>6, <1>7 DEF Answers, At, Idle
  <2>2. Exclusive(x)
    BY DEF Inv
  <2>3. QED
    BY <1>4, <1>10, <2>1, <2>2, ExclusiveStays
<1>18. OnItsWay(q)'
  BY <1>2, <1>3, <1>4, <1>10 DEF OnItsWay
<1>19. ASSUME NEW x \in Questions, x # q PROVE OnItsWay(x)'
  <2>1. \A h \in Goroutines : Answers(h, x)' <=> Answers(h, x)
    BY <1>2, <1>6, <1>7, <1>19 DEF Answers, At, Idle
  <2>2. Asked(x) /\ OnItsWay(x)
    BY DEF Inv
  <2>3. /\ told'[x] = 0 => told[x] = 0
        /\ Exists(x) /\ question[x].session \in tracked' => question[x].session \in tracked
        /\ Exists(x)' /\ question'[x].status = "answered" =>
             /\ Exists(x) /\ question[x].status = "answered"
             /\ question'[x].session = question[x].session
    BY <1>4, <1>10
  <2>4. QED
    BY <1>1, <1>12, <2>1, <2>2, <2>3, OnItsWayStays
<1>20. QED
  BY <1>13, <1>14, <1>15, <1>16, <1>17, <1>18, <1>19 DEF Inv

-----------------------------------------------------------------------------
(* The steps of ask_human, and the end of a session.                       *)

(* They leave messages and webhook calls alone.                            *)
LEMMA AgentLeaves ==
  ASSUME Inv, Growth, UNCHANGED <<posted, delivery>>,
         \A x \in Sessions : session[x].status = "pending" =>
           session'[x] = session[x] /\ (x \in DOMAIN contexts => x \in DOMAIN contexts')
  PROVE  /\ \A m \in posted' : Placed(m)'
         /\ \A g \in Goroutines : DeliveryIs(g)'
         /\ StartedOnce'
<1>1. Shapes /\ StartedOnce
  BY DEF Inv
<1>2. \A m \in posted' : Placed(m)'
  BY <1>1, PlacedStays DEF Inv, Shapes
<1>3. ASSUME NEW g \in Goroutines PROVE DeliveryIs(g)'
  <2>1. DeliveryIs(g)
    BY DEF Inv
  <2>2. At(g, {"starting"}) =>
          /\ session'[delivery[g].session] = session[delivery[g].session]
          /\ delivery[g].session \in DOMAIN contexts => delivery[g].session \in DOMAIN contexts'
    BY StartingIs
  <2>3. QED
    BY <1>1, <2>1, <2>2, DeliveryStays
<1>4. StartedOnce'
  BY <1>1, StartedStays
<1>5. QED
  BY <1>2, <1>3, <1>4

(* Nobody answers a question that was not shown.                           *)
LEMMA Unanswered ==
  ASSUME Inv, NEW q \in Questions, shown[q] = None
  PROVE  told[q] = 0 /\ \A g \in Goroutines : ~Answers(g, q)
<1>1. told[q] = 0
  BY DEF Inv, Asked
<1>2. ASSUME NEW g \in Goroutines, Answers(g, q) PROVE FALSE
  <2>1. At(g, {"recording", "resuming", "resetting"}) /\ delivery[g].question = q
    BY <1>2 DEF Answers, At
  <2>2. QED
    BY <2>1, AnsweringIs
<1>3. QED
  BY <1>1, <1>2

(* The question an agent is about to ask.                                  *)
LEMMA AskingFacts ==
  ASSUME Inv, NEW s \in Sessions, asking[s] # Idle
  PROVE  LET q == asking[s].question IN
         /\ asking[s] \in Asking /\ q \in Questions /\ question[q] \in Rows /\ Exists(q)
         /\ question[q].session = s
         /\ asking[s].phase \in {"waiting", "attaching"} => shown[q] = None /\ question[q].thread = None
         /\ asking[s].phase = "persisting" => shown[q] # None
         /\ \A x \in Sessions \ {s} : asking[x] # Idle => asking[x].question # q
<1>1. Shapes /\ \A x \in Sessions : AskingIs(x)
  BY DEF Inv
<1>2. PICK q \in Questions : q = asking[s].question /\ asking[s] \in Asking
  BY <1>1, AskingShape
<1>3. Exists(q) /\ question[q].session = s
  BY <1>1, <1>2 DEF AskingIs
<1>4. question[q] \in Rows
  BY <1>1, <1>3, RowIs
<1>5. asking[s].phase \in {"waiting", "attaching"} => shown[q] = None
  BY <1>1, <1>2 DEF AskingIs
<1>6. shown[q] = None => question[q].thread = None
  BY <1>3 DEF Inv, Asked
<1>7. asking[s].phase = "persisting" => shown[q] # None
  BY <1>1, <1>2 DEF AskingIs
<1>8. \A x \in Sessions \ {s} : asking[x] # Idle => asking[x].question # q
  BY <1>1, <1>3 DEF AskingIs
<1>9. QED
  BY <1>2, <1>3, <1>4, <1>5, <1>6, <1>7, <1>8

LEMMA HandleAskKeeps ==
  ASSUME Inv, NEW s \in Sessions, HandleAskHuman(s)
  PROVE  Inv'
<1>1. Shapes /\ Registry /\ s \in tracked /\ session[s].status \in {"running", "waiting_hitl"}
  BY DEF Inv, Registry, HandleAskHuman
<1>2. PICK q \in Questions :
        /\ question[q] = NoRow /\ question' = [question EXCEPT ![q] = PendingRow(s)]
        /\ \/ asking' = [asking EXCEPT ![s] = [phase |-> "waiting", question |-> q]]
           \/ asking' = asking
        /\ asking[s] = Idle
  BY DEF HandleAskHuman, Asks
<1>3. UNCHANGED <<posted, headed, delivery, session, tracked, contexts, shown, told, reopened, unheard>>
  BY DEF HandleAskHuman, people
<1>4. /\ question'[q] = PendingRow(s) /\ \A x \in Questions \ {q} : question'[x] = question[x]
      /\ asking'[s] \in {Idle, [phase |-> "waiting", question |-> q]}
      /\ \A x \in Sessions \ {s} : asking'[x] = asking[x]
  BY <1>1, <1>2 DEF Shapes
<1>5. /\ PendingRow(s) \in Rows /\ PendingRow(s) # NoRow /\ PendingRow(s).status = "pending"
      /\ PendingRow(s).session = s /\ PendingRow(s).thread = None
  BY DEF PendingRow, Rows, NoRow
<1>6. ~Exists(q) /\ shown[q] = None /\ told[q] = 0 /\ \A g \in Goroutines : ~Answers(g, q)
  <2>1. ~Exists(q) /\ Asked(q)
    BY <1>2 DEF Inv, Exists
  <2>2. shown[q] = None
    BY <2>1 DEF Asked
  <2>3. QED
    BY <2>1, <2>2, Unanswered
<1>7. \A x \in Questions \ {q} : SameRow(x)
  BY <1>3, <1>4 DEF SameRow, Exists
<1>8. Growth
  BY <1>3, <1>4, <1>6 DEF Growth, Exists, Pending
<1>9. Shapes'
  <2>1. question' \in [Questions -> {NoRow} \cup Rows]
    BY <1>1, <1>2, <1>5 DEF Shapes
  <2>2. [phase |-> "waiting", question |-> q] \in Asking
    BY DEF Asking
  <2>3. asking' \in [Sessions -> {Idle} \cup Asking]
    BY <1>1, <1>2, <2>2 DEF Shapes
  <2>4. QED
    BY <1>1, <1>3, <2>1, <2>3 DEF Shapes
<1>10. Registry'
  BY <1>1, <1>3, <1>8, RegistryStays
<1>11. /\ \A m \in posted' : Placed(m)'
       /\ \A g \in Goroutines : DeliveryIs(g)'
       /\ StartedOnce'
  BY <1>3, <1>8, AgentLeaves
<1>12. ASSUME NEW x \in Questions, x # q PROVE Asked(x)' /\ Exclusive(x)' /\ OnItsWay(x)'
  <2>1. Asked(x) /\ Exclusive(x) /\ OnItsWay(x) /\ SameRow(x) /\ question'[x] = question[x]
    BY <1>4, <1>7, <1>12 DEF Inv
  <2>2. \A g \in Goroutines : Answers(g, x)' <=> Answers(g, x)
    BY <1>3 DEF Answers, At
  <2>3. Asked(x)'
    BY <1>1, <1>3, <1>8, <2>1, AskedStays
  <2>4. Exclusive(x)'
    BY <1>3, <2>1, <2>2, ExclusiveStays
  <2>5. OnItsWay(x)'
    BY <1>1, <1>3, <1>8, <2>1, <2>2, OnItsWayStays DEF Exists
  <2>6. QED
    BY <2>3, <2>4, <2>5
<1>13. Asked(q)' /\ Exclusive(q)' /\ OnItsWay(q)'
  <2>1. \A g \in Goroutines : ~Answers(g, q)'
    BY <1>3, <1>6 DEF Answers, At
  <2>2. Asked(q)'
    BY <1>1, <1>3, <1>4, <1>5, <1>6 DEF Asked, Exists
  <2>3. QED
    BY <1>3, <1>4, <1>5, <1>6, <2>1, <2>2 DEF Exclusive, OnItsWay
<1>14. ASSUME NEW x \in Sessions, x # s PROVE AskingIs(x)'
  <2>1. AskingIs(x) /\ asking'[x] = asking[x]
    BY <1>4, <1>14 DEF Inv
  <2>2. asking[x] # Idle => SameRow(asking[x].question)
    BY <1>1, <1>6, <1>7, <2>1, AskingShape DEF AskingIs
  <2>3. QED
    BY <1>1, <2>1, <2>2, AskingStays
<1>15. AskingIs(s)'
  BY <1>3, <1>4, <1>5, <1>6 DEF AskingIs, Exists
<1>16. QED
  BY <1>9, <1>10, <1>11, <1>12, <1>13, <1>14, <1>15 DEF Inv

(* The session waits, or the question is withdrawn.                        *)
LEMMA WaitKeeps ==
  ASSUME Inv, NEW s \in Sessions, WaitForHuman(s)
  PROVE  Inv'
<1>1. Shapes /\ Registry /\ asking[s].phase = "waiting" /\ asking[s] # Idle
  BY DEF Inv, WaitForHuman, Idle
<1>2. PICK q \in Questions :
        /\ q = asking[s].question /\ asking[s] \in Asking /\ question[q] \in Rows /\ Exists(q)
        /\ question[q].session = s /\ shown[q] = None /\ question[q].thread = None
        /\ \A x \in Sessions \ {s} : asking[x] # Idle => asking[x].question # q
  BY <1>1, AskingFacts
<1>3. UNCHANGED <<posted, headed, delivery, tracked, contexts, shown, told, reopened, unheard>>
  BY DEF WaitForHuman, people
<1>4. told[q] = 0 /\ \A g \in Goroutines : ~Answers(g, q) /\ ~Answers(g, q)'
  BY <1>2, <1>3, Unanswered DEF Answers, At
<1>5. \A g \in Goroutines, x \in Questions : Answers(g, x)' <=> Answers(g, x)
  BY <1>3 DEF Answers, At
<1>6. \/ session' = session
      \/ session[s].status = "running" /\ session' = [session EXCEPT ![s].status = "waiting_hitl"]
  BY DEF WaitForHuman
<1>7. /\ session' \in [Sessions -> {NoRow} \cup SessionRows]
      /\ \A x \in Sessions \ {s} : session'[x] = session[x]
      /\ session[s] \in SessionRows /\ session'[s] \in SessionRows
      /\ session'[s].on = session[s].on
      /\ session'[s].status = session[s].status
           \/ (session[s].status = "running" /\ session'[s].status = "waiting_hitl")
  <2>1. session[s] \in SessionRows
    BY <1>1, <1>2, SessionIs DEF Inv, Asked
  <2>2. CASE session' = session
    BY <1>1, <2>1, <2>2 DEF Shapes
  <2>3. CASE session[s].status = "running" /\ session' = [session EXCEPT ![s].status = "waiting_hitl"]
    <3>1. /\ session'[s] = [session[s] EXCEPT !.status = "waiting_hitl"]
          /\ \A x \in Sessions \ {s} : session'[x] = session[x]
          /\ session' = [x \in Sessions |-> session'[x]]
      BY <1>1, <2>3 DEF Shapes
    <3>2. /\ session'[s] \in SessionRows /\ session'[s].status = "waiting_hitl"
          /\ session'[s].on = session[s].on
      BY <2>1, <3>1 DEF SessionRows
    <3>3. \A x \in Sessions : session'[x] \in {NoRow} \cup SessionRows
      BY <1>1, <3>1, <3>2 DEF Shapes
    <3>4. QED
      BY <2>1, <2>3, <3>1, <3>2, <3>3
  <2>4. QED
    BY <1>6, <2>2, <2>3
<1>8. /\ session[s] # NoRow /\ session'[s] # NoRow
      /\ \A x \in Sessions : session[x] # NoRow =>
           session'[x] # NoRow /\ session'[x].on = session[x].on
      /\ \A x \in Sessions : session[x].status \in Started => session'[x].status \in Started
      /\ \A x \in Sessions : session[x].status \in {"running", "waiting_hitl"} =>
           session'[x].status \in {"running", "waiting_hitl"}
  BY <1>7 DEF SessionRows, NoRow, Started
<1>9. Registry'
  <2>1. ASSUME NEW x \in DOMAIN contexts'
        PROVE  contexts'[x] \in headed' /\ session'[x] # NoRow /\ session'[x].on = Platform[contexts'[x]]
    <3>1. /\ x \in DOMAIN contexts /\ x \in Sessions /\ contexts' = contexts /\ headed' = headed
          /\ contexts[x] \in headed /\ session[x] # NoRow /\ session[x].on = Platform[contexts[x]]
      BY <1>1, <1>3 DEF Registry, Shapes
    <3>2. QED
      BY <1>8, <3>1
  <2>2. ASSUME NEW x \in tracked'
        PROVE  /\ session'[x].status \in {"running", "waiting_hitl"}
               /\ session'[x].on = "slack" => x \in DOMAIN contexts'
    <3>1. /\ x \in Sessions /\ contexts' = contexts /\ session[x].status \in {"running", "waiting_hitl"}
          /\ session[x].on = "slack" => x \in DOMAIN contexts
      BY <1>1, <1>3 DEF Registry, Shapes
    <3>2. session'[x].on = session[x].on
      BY <1>7, <3>1
    <3>3. QED
      BY <1>8, <3>1, <3>2
  <2>3. QED
    BY <2>1, <2>2 DEF Registry
<1>10. \A x \in Sessions : session[x].status = "pending" =>
         session'[x] = session[x] /\ (x \in DOMAIN contexts => x \in DOMAIN contexts')
  <2>1. session[s].status # "pending"
    BY <1>1, <1>2 DEF Inv, Asked
  <2>2. QED
    BY <1>3, <1>7, <2>1
<1>11. CASE /\ asking' = [asking EXCEPT ![s] = [asking[s] EXCEPT !.phase = "attaching"]]
            /\ question' = question
  <2>1. /\ \A x \in Sessions \ {s} : asking'[x] = asking[x]
        /\ asking'[s] = [asking[s] EXCEPT !.phase = "attaching"]
    BY <1>1, <1>11 DEF Shapes
  <2>2. asking'[s] \in Asking /\ asking'[s].phase = "attaching" /\ asking'[s].question = q
    BY <1>2, <2>1 DEF Asking
  <2>3. Growth
    BY <1>3, <1>8, <1>11 DEF Growth, Exists, Pending
  <2>4. Shapes'
    <3>1. asking' \in [Sessions -> {Idle} \cup Asking]
      <4>1. asking' = [x \in Sessions |-> asking'[x]]
        BY <1>1, <1>11 DEF Shapes
      <4>2. \A x \in Sessions : asking'[x] \in {Idle} \cup Asking
        BY <1>1, <2>1, <2>2 DEF Shapes
      <4>3. QED
        BY <4>1, <4>2
    <3>2. QED
      BY <1>1, <1>3, <1>7, <1>11, <3>1 DEF Shapes
  <2>5. /\ \A m \in posted' : Placed(m)'
        /\ \A g \in Goroutines : DeliveryIs(g)'
        /\ StartedOnce'
    BY <1>3, <1>10, <2>3, AgentLeaves
  <2>6. ASSUME NEW x \in Questions PROVE Asked(x)' /\ Exclusive(x)' /\ OnItsWay(x)'
    <3>1. Asked(x) /\ Exclusive(x) /\ OnItsWay(x) /\ SameRow(x) /\ question'[x] = question[x]
      BY <1>3, <1>11 DEF Inv, SameRow, Exists
    <3>2. Asked(x)'
      BY <1>1, <1>3, <2>3, <3>1, AskedStays
    <3>3. Exclusive(x)'
      BY <1>3, <1>5, <3>1, ExclusiveStays
    <3>4. OnItsWay(x)'
      BY <1>1, <1>3, <1>5, <2>3, <3>1, OnItsWayStays DEF Exists
    <3>5. QED
      BY <3>2, <3>3, <3>4
  <2>7. ASSUME NEW x \in Sessions, x # s PROVE AskingIs(x)'
    <3>1. AskingIs(x) /\ asking'[x] = asking[x]
      BY <2>1, <2>7 DEF Inv
    <3>2. asking[x] # Idle => SameRow(asking[x].question)
      BY <1>3, <1>11 DEF SameRow, Exists
    <3>3. QED
      BY <1>1, <3>1, <3>2, AskingStays
  <2>8. AskingIs(s)'
    BY <1>2, <1>3, <1>11, <2>2 DEF AskingIs, Exists
  <2>9. QED
    BY <1>9, <2>4, <2>5, <2>6, <2>7, <2>8 DEF Inv
<1>12. CASE /\ question' = [question EXCEPT ![q] = NoRow] \/ question' = question
            /\ asking' = [asking EXCEPT ![s] = Idle]
  <2>1. /\ \A x \in Questions \ {q} : question'[x] = question[x]
        /\ question'[q] \in {NoRow, question[q]}
        /\ asking'[s] = Idle /\ \A x \in Sessions \ {s} : asking'[x] = asking[x]
    BY <1>1, <1>12 DEF Shapes
  <2>2. \A x \in Questions \ {q} : SameRow(x)
    BY <1>3, <2>1 DEF SameRow, Exists
  <2>3. Growth
    BY <1>2, <1>3, <1>8, <1>12, <2>1 DEF Growth, Exists, Pending, NoRow
  <2>4. Shapes'
    <3>1. question' \in [Questions -> {NoRow} \cup Rows]
      BY <1>1, <1>12 DEF Shapes
    <3>2. asking' \in [Sessions -> {Idle} \cup Asking]
      BY <1>1, <1>12 DEF Shapes
    <3>3. QED
      BY <1>1, <1>3, <1>7, <1>12, <3>1, <3>2 DEF Shapes
  <2>5. Registry'
    BY <1>9
  <2>6. /\ \A m \in posted' : Placed(m)'
        /\ \A g \in Goroutines : DeliveryIs(g)'
        /\ StartedOnce'
    BY <1>3, <1>10, <2>3, AgentLeaves
  <2>7. ASSUME NEW x \in Questions, x # q PROVE Asked(x)' /\ Exclusive(x)' /\ OnItsWay(x)'
    <3>1. Asked(x) /\ Exclusive(x) /\ OnItsWay(x) /\ SameRow(x) /\ question'[x] = question[x]
      BY <2>1, <2>2, <2>7 DEF Inv
    <3>2. Asked(x)'
      BY <1>1, <1>3, <2>3, <3>1, AskedStays
    <3>3. Exclusive(x)'
      BY <1>3, <1>5, <3>1, ExclusiveStays
    <3>4. OnItsWay(x)'
      BY <1>1, <1>3, <1>5, <2>3, <3>1, OnItsWayStays DEF Exists
    <3>5. QED
      BY <3>2, <3>3, <3>4
  <2>8. Asked(q)' /\ Exclusive(q)'
    <3>1. Asked(q)
      BY DEF Inv
    <3>2. Asked(q)'
      <4>1. shown'[q] = None
        BY <1>2, <1>3
      <4>2. told'[q] = 0
        BY <1>3, <1>4
      <4>3. CASE question'[q] = NoRow
        BY <4>1, <4>2, <4>3 DEF Asked, Exists
      <4>4. CASE question'[q] = question[q]
        BY <1>2, <1>8, <3>1, <4>1, <4>2, <4>4 DEF Asked, Exists, Started
      <4>5. QED
        BY <2>1, <4>3, <4>4
    <3>3. QED
      BY <1>3, <1>4, <3>2 DEF Exclusive
  <2>9. OnItsWay(q)'
    <3>1. OnItsWay(q)
      BY DEF Inv
    <3>2. CASE question'[q] = NoRow
      BY <3>2 DEF OnItsWay, Exists
    <3>3. CASE question'[q] = question[q]
      BY <1>2, <1>3, <1>4, <1>7, <3>1, <3>3 DEF OnItsWay, Exists
    <3>4. QED
      BY <2>1, <3>2, <3>3
  <2>10. ASSUME NEW x \in Sessions, x # s PROVE AskingIs(x)'
    <3>1. AskingIs(x) /\ asking'[x] = asking[x]
      BY <2>1, <2>10 DEF Inv
    <3>2. asking[x] # Idle => SameRow(asking[x].question)
      BY <1>1, <1>2, <2>2, <2>10, AskingShape
    <3>3. QED
      BY <1>1, <3>1, <3>2, AskingStays
  <2>11. AskingIs(s)'
    BY <2>1 DEF AskingIs
  <2>12. QED
    BY <2>4, <2>5, <2>6, <2>7, <2>8, <2>9, <2>10, <2>11 DEF Inv
<1>13. QED
  BY <1>2, <1>11, <1>12 DEF WaitForHuman, Asks, DeleteQuestion

(* The question is posted where the session's conversation is.             *)
LEMMA CreateThreadKeeps ==
  ASSUME Inv, NEW s \in Sessions, CreateThread(s)
  PROVE  Inv'
<1>1. Shapes /\ Registry /\ asking[s].phase = "attaching" /\ asking[s] # Idle
  BY DEF Inv, CreateThread, Idle
<1>2. PICK q \in Questions :
        /\ q = asking[s].question /\ asking[s] \in Asking /\ question[q] \in Rows /\ Exists(q)
        /\ question[q].session = s /\ shown[q] = None /\ question[q].thread = None
        /\ \A x \in Sessions \ {s} : asking[x] # Idle => asking[x].question # q
  BY <1>1, AskingFacts
<1>3. UNCHANGED <<posted, headed, delivery, session, tracked, contexts, question, told, reopened, unheard>>
  BY DEF CreateThread, people
<1>4. told[q] = 0 /\ \A g \in Goroutines : ~Answers(g, q) /\ ~Answers(g, q)'
  BY <1>2, <1>3, Unanswered DEF Answers, At
<1>5. \A g \in Goroutines, x \in Questions : Answers(g, x)' <=> Answers(g, x)
  BY <1>3 DEF Answers, At
<1>6. PICK a \in {Idle} \cup Asking :
        /\ asking' = [asking EXCEPT ![s] = a]
        /\ \/ a = Idle /\ shown' = shown
           \/ /\ a.phase = "persisting" /\ a.question = q /\ s \in DOMAIN contexts
              /\ shown' = [shown EXCEPT ![q] = contexts[s]]
  <2> DEFINE e == [asking[s] EXCEPT !.phase = "persisting"]
  <2>1. e \in Asking /\ e.phase = "persisting" /\ e.question = q
    BY <1>2 DEF Asking
  <2>2. \/ asking' = [asking EXCEPT ![s] = Idle] /\ shown' = shown
        \/ /\ asking' = [asking EXCEPT ![s] = e] /\ s \in DOMAIN contexts
           /\ shown' = [shown EXCEPT ![q] = contexts[s]]
    BY <1>2 DEF CreateThread, Asks, ThreadID
  <2> HIDE DEF e
  <2>3. QED
    BY <2>1, <2>2
<1>7. s \in DOMAIN contexts => /\ contexts[s] \in Threads /\ contexts[s] # None
                               /\ session[s].on = Platform[contexts[s]]
  BY <1>1, ChatAssumption DEF Registry, Shapes
<1>8. /\ \A x \in Questions \ {q} : shown'[x] = shown[x]
      /\ asking'[s] = a /\ \A x \in Sessions \ {s} : asking'[x] = asking[x]
      /\ a # Idle => shown'[q] = contexts[s] /\ s \in DOMAIN contexts
      /\ a = Idle => shown'[q] = None
  BY <1>1, <1>2, <1>6 DEF Shapes, Idle
<1>9. \A x \in Questions \ {q} : SameRow(x)
  BY <1>3, <1>8 DEF SameRow, Exists
<1>10. Growth
  BY <1>2, <1>3, <1>8 DEF Growth, Exists, Pending
<1>11. Shapes'
  <2>1. shown' \in [Questions -> Threads \cup {None}]
    BY <1>1, <1>6, <1>7 DEF Shapes
  <2>2. asking' \in [Sessions -> {Idle} \cup Asking]
    BY <1>1, <1>6 DEF Shapes
  <2>3. QED
    BY <1>1, <1>3, <2>1, <2>2 DEF Shapes
<1>12. Registry'
  BY <1>1, <1>3, <1>10, RegistryStays
<1>13. /\ \A m \in posted' : Placed(m)'
       /\ \A g \in Goroutines : DeliveryIs(g)'
       /\ StartedOnce'
  BY <1>3, <1>10, AgentLeaves
<1>14. ASSUME NEW x \in Questions, x # q PROVE Asked(x)'
  <2>1. Asked(x) /\ SameRow(x) /\ told'[x] = told[x]
    BY <1>3, <1>9, <1>14 DEF Inv
  <2>2. QED
    BY <1>1, <1>10, <2>1, AskedStays
<1>15. Asked(q)'
  <2>1. Asked(q)
    BY DEF Inv
  <2>2. shown'[q] # None => session[s].on = Platform[shown'[q]]
    BY <1>6, <1>7, <1>8
  <2>3. QED
    BY <1>2, <1>3, <1>4, <2>1, <2>2 DEF Asked, Exists
<1>16. ASSUME NEW x \in Questions PROVE Exclusive(x)' /\ OnItsWay(x)'
  <2>1. Asked(x) /\ Exclusive(x) /\ OnItsWay(x)
    BY DEF Inv
  <2>2. Exclusive(x)'
    BY <1>3, <1>5, <2>1, ExclusiveStays
  <2>3. OnItsWay(x)'
    BY <1>1, <1>3, <1>5, <1>10, <2>1, OnItsWayStays DEF Exists
  <2>4. QED
    BY <2>2, <2>3
<1>17. ASSUME NEW x \in Sessions, x # s PROVE AskingIs(x)'
  <2>1. AskingIs(x) /\ asking'[x] = asking[x]
    BY <1>8, <1>17 DEF Inv
  <2>2. asking[x] # Idle => SameRow(asking[x].question)
    BY <1>1, <1>2, <1>9, <1>17, AskingShape
  <2>3. QED
    BY <1>1, <2>1, <2>2, AskingStays
<1>18. AskingIs(s)'
  BY <1>2, <1>3, <1>6, <1>7, <1>8 DEF AskingIs, Exists, Idle
<1>19. QED
  BY <1>11, <1>12, <1>13, <1>14, <1>15, <1>16, <1>17, <1>18 DEF Inv

(* The row remembers the thread, whatever its status is by now.            *)
LEMMA UpdateThreadKeeps ==
  ASSUME Inv, NEW s \in Sessions, UpdateMessengerThread(s)
  PROVE  Inv'
<1>1. Shapes /\ Registry /\ asking[s].phase = "persisting" /\ asking[s] # Idle
  BY DEF Inv, UpdateMessengerThread, Idle
<1>2. PICK q \in Questions :
        /\ q = asking[s].question /\ question[q] \in Rows /\ Exists(q) /\ shown[q] # None
        /\ \A x \in Sessions \ {s} : asking[x] # Idle => asking[x].question # q
  BY <1>1, AskingFacts
<1>3. /\ UNCHANGED <<posted, headed, delivery, session, tracked, contexts, shown, told, reopened, unheard>>
      /\ asking' = [asking EXCEPT ![s] = Idle]
      /\ question' = question \/ question' = [question EXCEPT ![q].thread = shown[q]]
  BY <1>2 DEF UpdateMessengerThread, Asks, SetThread, people
<1>4. Asked(q) /\ shown[q] \in Threads \cup {None}
  BY <1>1 DEF Inv, Shapes
<1>5. /\ \A x \in Questions \ {q} : question'[x] = question[x]
      /\ question'[q] = question[q] \/ question'[q] = [question[q] EXCEPT !.thread = shown[q]]
      /\ asking'[s] = Idle /\ \A x \in Sessions \ {s} : asking'[x] = asking[x]
  BY <1>1, <1>2, <1>3 DEF Shapes
<1>6. /\ question'[q] \in Rows /\ question'[q] # NoRow /\ question'[q].status = question[q].status
      /\ question'[q].session = question[q].session
      /\ question'[q].thread \in {question[q].thread, shown[q]}
  BY <1>2, <1>4, <1>5 DEF Rows, NoRow
<1>7. \A x \in Questions \ {q} : SameRow(x)
  BY <1>3, <1>5 DEF SameRow, Exists
<1>8. Growth
  BY <1>2, <1>3, <1>4, <1>5, <1>6 DEF Growth, Exists, Pending, Asked
<1>9. Shapes'
  <2>1. question' \in [Questions -> {NoRow} \cup Rows]
    <3>1. question' = [x \in Questions |-> question'[x]]
      BY <1>1, <1>3 DEF Shapes
    <3>2. \A x \in Questions : question'[x] \in {NoRow} \cup Rows
      BY <1>1, <1>5, <1>6 DEF Shapes
    <3>3. QED
      BY <3>1, <3>2
  <2>2. asking' \in [Sessions -> {Idle} \cup Asking]
    BY <1>1, <1>3 DEF Shapes
  <2>3. QED
    BY <1>1, <1>3, <2>1, <2>2 DEF Shapes
<1>10. Registry'
  BY <1>1, <1>3, <1>8, RegistryStays
<1>11. /\ \A m \in posted' : Placed(m)'
       /\ \A g \in Goroutines : DeliveryIs(g)'
       /\ StartedOnce'
  BY <1>3, <1>8, AgentLeaves
<1>12. ASSUME NEW x \in Questions, x # q PROVE Asked(x)'
  <2>1. Asked(x) /\ SameRow(x) /\ told'[x] = told[x]
    BY <1>3, <1>7, <1>12 DEF Inv
  <2>2. QED
    BY <1>1, <1>8, <2>1, AskedStays
<1>13. Asked(q)'
  BY <1>2, <1>3, <1>4, <1>6 DEF Asked, Exists
<1>14. ASSUME NEW x \in Questions PROVE Exclusive(x)' /\ OnItsWay(x)'
  <2>1. Asked(x) /\ Exclusive(x) /\ OnItsWay(x)
    BY DEF Inv
  <2>2. /\ question'[x].status = question[x].status
        /\ Exists(x)' <=> Exists(x)
        /\ Exists(x) => question'[x].session = question[x].session
    BY <1>2, <1>5, <1>6 DEF Exists
  <2>3. \A g \in Goroutines : Answers(g, x)' <=> Answers(g, x)
    BY <1>3 DEF Answers, At
  <2>4. Exclusive(x)'
    BY <1>3, <2>1, <2>2, <2>3, ExclusiveStays
  <2>5. OnItsWay(x)'
    BY <1>1, <1>3, <1>8, <2>1, <2>2, <2>3, OnItsWayStays
  <2>6. QED
    BY <2>4, <2>5
<1>15. ASSUME NEW x \in Sessions, x # s PROVE AskingIs(x)'
  <2>1. AskingIs(x) /\ asking'[x] = asking[x]
    BY <1>5, <1>15 DEF Inv
  <2>2. asking[x] # Idle => SameRow(asking[x].question)
    BY <1>1, <1>2, <1>7, <1>15, AskingShape
  <2>3. QED
    BY <1>1, <2>1, <2>2, AskingStays
<1>16. AskingIs(s)'
  BY <1>5 DEF AskingIs
<1>17. QED
  BY <1>9, <1>10, <1>11, <1>12, <1>13, <1>14, <1>15, <1>16 DEF Inv

LEMMA EndSessionKeeps ==
  ASSUME Inv, NEW s \in Sessions, EndSession(s)
  PROVE  Inv'
<1>1. /\ Shapes /\ Registry /\ s \in tracked /\ session[s].status \in {"running", "waiting_hitl"}
      /\ session[s] \in SessionRows
  BY SessionIs DEF Inv, Registry, EndSession
<1>2. /\ UNCHANGED <<posted, headed, delivery, asking, shown, told, reopened, unheard>>
      /\ tracked' = tracked \ {s} /\ session' = [session EXCEPT ![s].status = "ended"]
      /\ contexts' = Without(contexts, s)
      /\ question' = question \/ CloseQuestions(s)
  BY DEF EndSession, people
<1>3. /\ session'[s] = [session[s] EXCEPT !.status = "ended"]
      /\ \A x \in Sessions \ {s} : session'[x] = session[x]
  BY <1>1, <1>2 DEF Shapes
<1>4. /\ session'[s] \in SessionRows /\ session'[s] # NoRow /\ session'[s].status = "ended"
      /\ session'[s].on = session[s].on
  BY <1>1, <1>3 DEF SessionRows, NoRow
<1>5. /\ DOMAIN contexts' = DOMAIN contexts \ {s}
      /\ \A x \in DOMAIN contexts' : contexts'[x] = contexts[x]
  BY <1>2 DEF Without
<1>6. /\ question' \in [Questions -> {NoRow} \cup Rows]
      /\ \A x \in Questions :
           /\ Exists(x)' <=> Exists(x)
           /\ Exists(x) => /\ question'[x].session = question[x].session
                           /\ question'[x].thread = question[x].thread
           /\ question'[x].status = question[x].status
                \/ (question[x].status = "pending" /\ question'[x].status = "cancelled")
  <2>1. CASE question' = question
    BY <1>1, <2>1 DEF Shapes, Exists
  <2>2. CASE CloseQuestions(s)
    BY <1>1, <2>2, Closing
  <2>3. QED
    BY <1>2, <2>1, <2>2
<1>7. \A x \in Questions : SameRow(x)
  BY <1>2, <1>6 DEF SameRow
<1>8. Growth
  BY <1>2, <1>3, <1>4, <1>6 DEF Growth, Pending, Started
<1>9. Shapes'
  <2>1. session' \in [Sessions -> {NoRow} \cup SessionRows]
    <3>1. session' = [x \in Sessions |-> session'[x]]
      BY <1>1, <1>2 DEF Shapes
    <3>2. \A x \in Sessions : session'[x] \in {NoRow} \cup SessionRows
      BY <1>1, <1>3, <1>4 DEF Shapes
    <3>3. QED
      BY <3>1, <3>2
  <2>2. QED
    BY <1>1, <1>2, <1>5, <1>6, <2>1 DEF Shapes
<1>10. Registry'
  <2>1. \A x \in DOMAIN contexts' :
          contexts'[x] \in headed' /\ session'[x] # NoRow /\ session'[x].on = Platform[contexts'[x]]
    BY <1>1, <1>2, <1>3, <1>5 DEF Registry, Shapes
  <2>2. \A x \in tracked' : /\ session'[x].status \in {"running", "waiting_hitl"}
                            /\ session'[x].on = "slack" => x \in DOMAIN contexts'
    BY <1>1, <1>2, <1>3, <1>5 DEF Registry, Shapes
  <2>3. QED
    BY <2>1, <2>2 DEF Registry
<1>11. /\ \A m \in posted' : Placed(m)'
       /\ \A g \in Goroutines : DeliveryIs(g)'
       /\ StartedOnce'
  <2>1. \A x \in Sessions : session[x].status = "pending" =>
           session'[x] = session[x] /\ (x \in DOMAIN contexts => x \in DOMAIN contexts')
    BY <1>1, <1>3, <1>5
  <2>2. QED
    BY <1>2, <1>8, <2>1, AgentLeaves
<1>12. ASSUME NEW x \in Questions PROVE Asked(x)' /\ Exclusive(x)' /\ OnItsWay(x)'
  <2>1. Asked(x) /\ Exclusive(x) /\ OnItsWay(x) /\ SameRow(x)
    BY <1>7 DEF Inv
  <2>2. \A g \in Goroutines : Answers(g, x)' <=> Answers(g, x)
    BY <1>2 DEF Answers, At
  <2>3. Asked(x)'
    BY <1>1, <1>2, <1>8, <2>1, AskedStays
  <2>4. Exclusive(x)'
    BY <1>2, <1>6, <2>1, <2>2, ExclusiveStays
  <2>5. /\ told'[x] = 0 => told[x] = 0
        /\ Exists(x) /\ question[x].session \in tracked' => question[x].session \in tracked
        /\ Exists(x)' /\ question'[x].status = "answered" =>
             /\ Exists(x) /\ question[x].status = "answered"
             /\ question'[x].session = question[x].session
    BY <1>2, <1>6
  <2>6. OnItsWay(x)'
    BY <1>1, <1>8, <2>1, <2>2, <2>5, OnItsWayStays
  <2>7. QED
    BY <2>3, <2>4, <2>6
<1>13. ASSUME NEW x \in Sessions PROVE AskingIs(x)'
  <2>1. AskingIs(x) /\ asking'[x] = asking[x]
    BY <1>2 DEF Inv
  <2>2. asking[x] # Idle => SameRow(asking[x].question)
    BY <1>1, <1>7, AskingShape
  <2>3. QED
    BY <1>1, <2>1, <2>2, AskingStays
<1>14. QED
  BY <1>9, <1>10, <1>11, <1>12, <1>13 DEF Inv

LEMMA RestartKeeps ==
  ASSUME Inv, Restart
  PROVE  Inv'
<1>1. Shapes /\ Registry
  BY DEF Inv
<1>2. /\ UNCHANGED <<posted, headed, session, question, shown, told, reopened, unheard>>
      /\ tracked' = {} /\ contexts' = <<>>
      /\ delivery' = [g \in Goroutines |-> Idle] /\ asking' = [s \in Sessions |-> Idle]
  BY DEF Restart, answers
<1>3. Growth /\ \A q \in Questions : SameRow(q)
  BY <1>2, RowsStay
<1>4. DOMAIN contexts' = {}
  BY <1>2
<1>5. Shapes'
  BY <1>1, <1>2, <1>4 DEF Shapes
<1>6. Registry'
  BY <1>2, <1>4 DEF Registry
<1>7. \A m \in posted' : Placed(m)'
  BY <1>1, <1>2, <1>3, PlacedStays DEF Inv, Shapes
<1>8. \A g \in Goroutines : delivery'[g] = Idle /\ DeliveryIs(g)'
  BY <1>2 DEF DeliveryIs
<1>9. \A g \in Goroutines, q \in Questions : ~Answers(g, q)'
  BY <1>8 DEF Answers, At, Idle
<1>10. StartedOnce'
  BY <1>8 DEF StartedOnce, At, Idle
<1>11. \A s \in Sessions : AskingIs(s)'
  BY <1>2 DEF AskingIs
<1>12. ASSUME NEW q \in Questions PROVE Asked(q)' /\ Exclusive(q)' /\ OnItsWay(q)'
  <2>1. Asked(q) /\ Exclusive(q) /\ SameRow(q)
    BY <1>3 DEF Inv
  <2>2. Asked(q)'
    BY <1>1, <1>2, <1>3, <2>1, AskedStays
  <2>3. Exclusive(q)'
    BY <1>2, <1>9, <2>1, ExclusiveStays
  <2>4. OnItsWay(q)'
    BY <1>2 DEF OnItsWay
  <2>5. QED
    BY <2>2, <2>3, <2>4
<1>13. QED
  BY <1>5, <1>6, <1>7, <1>8, <1>10, <1>11, <1>12 DEF Inv

-----------------------------------------------------------------------------
(* The invariant holds from the start and in every step.                   *)
LEMMA InitInv == Init => Inv
<1>1. SUFFICES ASSUME Init PROVE Inv
  OBVIOUS
<1>2. DOMAIN contexts = {}
  BY <1>1 DEF Init
<1>3. Shapes
  BY <1>1, <1>2 DEF Init, Shapes
<1>4. \A g \in Goroutines : delivery[g] = Idle
  BY <1>1 DEF Init
<1>5. Registry /\ StartedOnce
  BY <1>1, <1>2, <1>4 DEF Init, Registry, StartedOnce, At, Idle
<1>6. \A g \in Goroutines, q \in Questions : ~Answers(g, q)
  BY <1>4 DEF Answers, At, Idle
<1>7. \A q \in Questions : Asked(q) /\ Exclusive(q) /\ OnItsWay(q)
  BY <1>1, <1>6 DEF Init, Asked, Exclusive, OnItsWay, Exists
<1>8. (\A s \in Sessions : AskingIs(s)) /\ (\A g \in Goroutines : DeliveryIs(g))
  BY <1>1, <1>4 DEF Init, AskingIs, DeliveryIs
<1>9. \A m \in posted : Placed(m)
  BY <1>1 DEF Init
<1>10. QED
  BY <1>3, <1>5, <1>7, <1>8, <1>9 DEF Inv

LEMMA NextInv ==
  ASSUME Inv, [Next]_vars
  PROVE  Inv'
<1>1. CASE UNCHANGED vars
  BY <1>1 DEF vars, Inv, Shapes, Registry, StartedOnce, Placed, Asked, Exclusive, OnItsWay, AskingIs,
     DeliveryIs, Exists, At, Answers, Pending
<1>2. CASE People
  BY <1>2, PeopleKeep
<1>3. ASSUME NEW g \in Goroutines, Webhook(g) PROVE Inv'
  BY <1>3, QuietKeeps, CreateTaskKeeps, StartSessionKeeps, AcknowledgeKeeps, RecordKeeps,
     SendPromptKeeps, UnavailableKeeps, ResetKeeps DEF Webhook, QuietStep
<1>4. ASSUME NEW s \in Sessions, Agent(s) PROVE Inv'
  BY <1>4, HandleAskKeeps, WaitKeeps, CreateThreadKeeps, UpdateThreadKeeps, EndSessionKeeps DEF Agent
<1>5. CASE Restart
  BY <1>5, RestartKeeps
<1>6. QED
  BY <1>1, <1>2, <1>3, <1>4, <1>5 DEF Next

LEMMA Invariance == Spec => []Inv
<1>1. Inv /\ [Next]_vars => Inv'
  BY NextInv
<1>2. QED
  BY InitInv, <1>1, PTL DEF Spec

(* Rows, messages and contexts are well formed, and the thread on a        *)
(* question's row is the one its message was posted in, on the platform    *)
(* its session came from.                                                  *)
THEOREM TypeCorrect == Spec => []TypeOK
<1>1. Inv => TypeOK
  <2>1. SUFFICES ASSUME Inv PROVE TypeOK
    OBVIOUS
  <2>2. Shapes /\ Registry
    BY <2>1 DEF Inv
  <2>3. \A s \in Sessions : session[s].status \in {"none", "pending", "running", "waiting_hitl", "ended"}
    BY <2>2, SessionIs
  <2>4. ASSUME NEW q \in Questions
        PROVE  /\ question[q].status \in {"none", "pending", "answered", "cancelled"}
               /\ question[q].status # "none" /\ question[q].thread # None =>
                    /\ question[q].thread = shown[q]
                    /\ Platform[shown[q]] = session[question[q].session].on
    BY <2>1, <2>2, RowIs DEF Inv, Asked
  <2>5. QED
    BY <2>2, <2>3, <2>4 DEF TypeOK, Shapes, Registry
<1>2. QED
  BY <1>1, Invariance, PTL

(* DispatchTaskWithContext registers the context before the backend can    *)
(* ask, and only the end of the session removes it.                        *)
THEOREM ContextBeforeQuestion == Spec => []AskedInThread
<1>1. Inv => AskedInThread
  BY DEF Inv, Registry, AskedInThread
<1>2. QED
  BY <1>1, Invariance, PTL

(* However often replies and presses are delivered, and to how many        *)
(* handlers at once: one of them gives the answer, and it stays on record. *)
THEOREM AnswersGivenOnce == Spec => []AnswersStand
<1>1. Inv => AnswersStand
  BY DEF Inv, Exclusive, AnswersStand
<1>2. QED
  BY <1>1, Invariance, PTL

(* On Slack, whatever fails after an answer was recorded, the question of  *)
(* an agent at work is given or reopened; the exceptions are a question    *)
(* with a reset behind it and an UPDATE that reported an error.            *)
THEOREM AnswersReachAgents == Spec => []AnswerNotLost
<1>1. Inv => AnswerNotLost
  <2>1. SUFFICES ASSUME Inv, NEW q \in Questions, question[q].status = "answered", told[q] = 0,
                        question[q].session \in tracked, session[question[q].session].on = "slack"
                 PROVE  q \in reopened \cup unheard \/ \E g \in Goroutines :
                          delivery[g].phase \in {"resuming", "resetting"} /\ delivery[g].question = q
    BY DEF AnswerNotLost
  <2>2. Exists(q) /\ OnItsWay(q)
    BY <2>1, RowIs DEF Inv
  <2>3. QED
    BY <2>1, <2>2 DEF OnItsWay, Answers, At
<1>2. QED
  BY <1>1, Invariance, PTL

(* GetPendingByThread insists on one pending question: a reply written     *)
(* under two answers neither while both are open, however late it comes.   *)
THEOREM AmbiguousRepliesIgnored == Spec => AmbiguousIgnored
<1>1. ASSUME Inv, [Next]_vars
      PROVE  [\A x \in recorded' \ recorded :
                x[2].kind = "reply" =>
                  \A q \in x[2].seen \ {x[1]} : question[q].status = "pending" => q \in reopened]_vars
  <2>1. SUFFICES ASSUME NEW x \in recorded' \ recorded, x[2].kind = "reply",
                        NEW q \in x[2].seen \ {x[1]}, question[q].status = "pending"
                 PROVE  q \in reopened
    OBVIOUS
  <2>2. PICK g \in Goroutines : Record(g)
    <3>1. recorded' # recorded
      BY <2>1
    <3>2. CASE People
      BY <3>1, <3>2 DEF People, Mention, Reply, Press, Post, answers
    <3>3. ASSUME NEW g \in Goroutines, Webhook(g) PROVE Record(g)
      BY <3>1, <3>3 DEF Webhook, Deliver, GiveUp, CreateTask, StartSession, SlackAcknowledges,
         BotAcknowledges, LookUp, ParseAction, Load, ReadBackFails, SendPrompt, Unavailable,
         SendFails, ResetQuestion, answers
    <3>4. ASSUME NEW s \in Sessions, Agent(s) PROVE FALSE
      BY <3>1, <3>4 DEF Agent, HandleAskHuman, WaitForHuman, CreateThread, UpdateMessengerThread,
         EndSession
    <3>5. CASE Restart
      BY <3>1, <3>5 DEF Restart, answers
    <3>6. CASE UNCHANGED vars
      BY <3>1, <3>6 DEF vars
    <3>7. QED
      BY <1>1, <3>2, <3>3, <3>4, <3>5, <3>6 DEF Next
  <2>3. x = <<delivery[g].question, delivery[g].message>>
    BY <2>1, <2>2 DEF Record, Message
  <2>4. At(g, {"recording"}) /\ delivery[g] # Idle /\ DeliveryIs(g)
    BY <1>1, <2>2 DEF Inv, Record, In, At, Idle
  <2>5. QED
    BY <2>1, <2>3, <2>4 DEF DeliveryIs, At, Pending
<1>2. QED
  BY <1>1, Invariance, PTL DEF Spec, AmbiguousIgnored

-----------------------------------------------------------------------------
(* The questions keep what QuestionLife promises.                          *)

(* The phases in which a webhook call has an answer in hand.               *)
AtHand == {"resuming", "resetting"}

(* What happens to the rows alone.                                         *)
LEMMA SameRows ==
  ASSUME UNCHANGED question
  PROVE  RowStatus' = RowStatus /\ RowAsker' = RowAsker
BY DEF RowStatus, RowAsker

(* What an UPDATE of its status makes of a row.                            *)
LEMMA RowMoves ==
  ASSUME Shapes, NEW q \in Questions, question[q] \in Rows,
         NEW v \in {"pending", "answered", "cancelled"},
         question' = [question EXCEPT ![q].status = v]
  PROVE  /\ RowStatus[q] = question[q].status
         /\ RowStatus' = [RowStatus EXCEPT ![q] = v]
         /\ RowAsker' = RowAsker
<1>1. /\ question'[q] = [question[q] EXCEPT !.status = v]
      /\ \A x \in Questions : x # q => question'[x] = question[x]
  BY DEF Shapes
<1>2. question'[q].status = v /\ question'[q].session = question[q].session
      /\ question'[q] # NoRow /\ question[q] # NoRow
  BY <1>1 DEF Rows, NoRow
<1>3. RowStatus[q] = question[q].status /\ RowStatus' = [RowStatus EXCEPT ![q] = v]
  <2>1. \A x \in Questions : question'[x].status = IF x = q THEN v ELSE question[x].status
    BY <1>1, <1>2
  <2>2. QED
    BY <2>1 DEF RowStatus
<1>4. \A x \in Questions : (question'[x] = NoRow <=> question[x] = NoRow)
                              /\ question'[x].session = question[x].session
  <2>1. ASSUME NEW x \in Questions, x # q
        PROVE  (question'[x] = NoRow <=> question[x] = NoRow)
               /\ question'[x].session = question[x].session
    <3>1. question'[x] = question[x]
      BY <1>1, <2>1
    <3>2. QED
      BY <3>1
  <2>2. QED
    BY <1>2, <2>1
<1>5. RowAsker' = RowAsker
  BY <1>4 DEF RowAsker
<1>6. QED
  BY <1>3, <1>5

(* The end of a session is CancelOpen, whatever is let go of with it.      *)
LEMMA ClosingMoves ==
  ASSUME Shapes, NEW s \in Sessions, CloseQuestions(s), UNCHANGED told, Held' \subseteq Held
  PROVE  Life!CancelOpen(s)
<1>1. ASSUME NEW q \in Questions
      PROVE  /\ question'[q].status = IF RowAsker[q] = s /\ question[q].status = "pending"
                                      THEN "cancelled" ELSE question[q].status
             /\ question[q] = NoRow <=> question'[q] = NoRow
             /\ question[q] # NoRow => question'[q].session = question[q].session
  <2>1. question'[q] = IF Pending(q) /\ question[q].session = s
                       THEN [question[q] EXCEPT !.status = "cancelled"] ELSE question[q]
    BY DEF CloseQuestions
  <2>2. Pending(q) => question[q] \in Rows
    BY RowIs
  <2>3. Pending(q) =>
          LET e == [question[q] EXCEPT !.status = "cancelled"] IN
          e # NoRow /\ e.status = "cancelled" /\ e.session = question[q].session
    BY <2>2, NewQuestionStatus
  <2>4. Pending(q) => question[q] # NoRow
    BY DEF Pending, NoRow
  <2>5. CASE Pending(q) /\ question[q].session = s
    BY <2>1, <2>3, <2>4, <2>5 DEF RowAsker, Pending
  <2>6. CASE ~(Pending(q) /\ question[q].session = s)
    BY <2>1, <2>4, <2>6 DEF RowAsker, Pending
  <2> QED
    BY <2>5, <2>6
<1>2. \A q \in Questions : question[q].status # "escalated"
  BY RowIs DEF Rows, NoRow
<1>3. RowStatus' = [q \in Questions |-> IF RowAsker[q] = s /\ RowStatus[q] \in Life!Open
                                        THEN "cancelled" ELSE RowStatus[q]]
  BY <1>1, <1>2 DEF RowStatus, Life!Open
<1>4. RowAsker' = RowAsker
  BY <1>1 DEF RowAsker
<1>5. Given' = Given
  BY DEF Given
<1> QED
  BY <1>3, <1>4, <1>5 DEF Life!CancelOpen

(* Webhook calls that take no answer in hand.                              *)
LEMMA HeldAfter ==
  ASSUME Shapes, NEW g \in Goroutines, NEW e, delivery' = [delivery EXCEPT ![g] = e],
         e.phase \in AtHand => delivery[g].phase \in AtHand /\ e.question = delivery[g].question
  PROVE  Held' \subseteq Held
<1>1. delivery'[g] = e /\ \A h \in Goroutines \ {g} : delivery'[h] = delivery[h]
  BY DEF Shapes
<1>2. \A h \in Goroutines : delivery'[h].phase \in AtHand =>
        delivery[h].phase \in AtHand /\ delivery'[h].question = delivery[h].question
  BY <1>1
<1>3. QED
  BY <1>2 DEF Held, AtHand

(* The call that has an answer in hand ends.                               *)
LEMMA HeldLeft ==
  ASSUME Inv, NEW g \in Goroutines, NEW q \in Questions, Answers(g, q), Goes(g, Idle)
  PROVE  q \in Held /\ Held' = Held \ {q}
<1>1. delivery'[g] = Idle /\ \A h \in Goroutines \ {g} : delivery'[h] = delivery[h]
  BY DEF Inv, Shapes, Goes
<1>2. \A h \in Goroutines \ {g} : ~Answers(h, q)
  BY DEF Inv, Exclusive
<1>3. \A x \in Questions : Answers(g, x) <=> x = q
  BY DEF Answers
<1>4. \A x \in Questions : ~Answers(g, x)'
  BY <1>1 DEF Answers, At, Idle
<1>5. \A h \in Goroutines \ {g}, x \in Questions : Answers(h, x)' <=> Answers(h, x)
  BY <1>1 DEF Answers, At
<1>6. \A x \in Questions, h \in Goroutines : Answers(h, x)' <=> (Answers(h, x) /\ x # q)
  BY <1>2, <1>3, <1>4, <1>5
<1>7. Held = {x \in Questions : \E h \in Goroutines : Answers(h, x)}
  BY DEF Held, Answers, At
<1>8. Held' = {x \in Questions : \E h \in Goroutines : Answers(h, x)'}
  BY DEF Held, Answers, At
<1>9. QED
  BY <1>6, <1>7, <1>8

(* Steps that leave the rows alone.                                        *)
LEMMA Unmoved ==
  ASSUME UNCHANGED <<question, told>>, Held' \subseteq Held
  PROVE  Life!LetGo
<1>1. question' = question /\ told' = told
  OBVIOUS
<1>2. Given' = Given
  BY <1>1 DEF Given
<1>3. QED
  BY <1>1, <1>2, SameRows DEF Life!LetGo

(* A webhook call records an answer, the first, to give it or, when it is  *)
(* told of an error, to forget it; or it gives up.                         *)
LEMMA RecordMoves ==
  ASSUME Inv, NEW g \in Goroutines, Record(g)
  PROVE  Life!Next
<1>1. Shapes /\ At(g, {"recording"}) /\ delivery[g] # Idle /\ told' = told
  BY DEF Inv, Record, In, At, Idle
<1>2. PICK q \in Questions : q = delivery[g].question /\ question[q] \in Rows /\ delivery[g] \in Handling
  BY <1>1, AnsweringIs DEF At
<1>3. CASE ~Pending(q)
  <2>1. delivery' = [delivery EXCEPT ![g] = Idle] /\ question' = question
    BY <1>2, <1>3 DEF Record, Goes
  <2>2. Held' \subseteq Held
    BY <1>1, <2>1, HeldAfter DEF AtHand, Idle
  <2>3. QED
    BY <1>1, <2>1, <2>2, Unmoved DEF Life!Next
<1>4. CASE Pending(q) /\ delivery' # [delivery EXCEPT ![g] = Idle]
  <2>1. /\ delivery' = [delivery EXCEPT ![g] = [delivery[g] EXCEPT !.phase = "resuming"]]
        /\ question' = [question EXCEPT ![q].status = "answered"]
    BY <1>2, <1>4 DEF Record, Goes, To
  <2>2. /\ delivery'[g].phase = "resuming" /\ delivery'[g].question = q
        /\ \A h \in Goroutines \ {g} : delivery'[h] = delivery[h]
    BY <1>1, <1>2, <2>1, NewPhase DEF Shapes, Phases
  <2>3. question[q].status = "pending" /\ Exclusive(q)
    BY <1>4 DEF Inv, Pending
  <2>4. told[q] = 0 /\ \A h \in Goroutines : ~Answers(h, q)
    BY <1>1, <2>3 DEF Exclusive, Shapes
  <2>5. \A x \in Questions : ~Answers(g, x)
    BY <1>1 DEF Answers, At
  <2>6. \A x \in Questions : Answers(g, x)' <=> x = q
    BY <2>2 DEF Answers, At
  <2>7. \A h \in Goroutines \ {g}, x \in Questions : Answers(h, x)' <=> Answers(h, x)
    BY <2>2 DEF Answers, At
  <2>8. \A x \in Questions, h \in Goroutines : Answers(h, x)' <=> Answers(h, x) \/ (x = q /\ h = g)
    BY <2>5, <2>6, <2>7
  <2>9. Held = {x \in Questions : \E h \in Goroutines : Answers(h, x)}
    BY DEF Held, Answers, At
  <2>10. Held' = {x \in Questions : \E h \in Goroutines : Answers(h, x)'}
    BY DEF Held, Answers, At
  <2>11. Held' = Held \cup {q}
    BY <2>8, <2>9, <2>10
  <2>12. q \notin Held \cup Given
    BY <2>4, <2>9 DEF Given
  <2>13. Given' = Given
    BY <1>1 DEF Given
  <2>14. /\ RowStatus[q] = "pending" /\ RowStatus' = [RowStatus EXCEPT ![q] = "answered"]
         /\ RowAsker' = RowAsker
    BY <1>1, <1>2, <2>1, <2>3, RowMoves
  <2>15. Life!Answer(q)
    BY <2>11, <2>12, <2>13, <2>14 DEF Life!Answer, Life!Moves, Life!Open
  <2>16. QED
    BY <2>15 DEF Life!Next
<1>5. CASE Pending(q) /\ delivery' = [delivery EXCEPT ![g] = Idle]
  <2>1. question' = [question EXCEPT ![q].status = "answered"]
    BY <1>2, <1>5 DEF Record
  <2>2. /\ delivery'[g] = Idle /\ \A h \in Goroutines \ {g} : delivery'[h] = delivery[h]
        /\ delivery[g].phase = "recording"
    BY <1>1, <1>5 DEF Shapes, At
  <2>3. question[q].status = "pending" /\ Exclusive(q)
    BY <1>5 DEF Inv, Pending
  <2>4. told[q] = 0 /\ \A h \in Goroutines : ~Answers(h, q)
    BY <1>1, <2>3 DEF Exclusive, Shapes
  <2>5. Held' = Held
    BY <2>2 DEF Held, Idle
  <2>6. q \notin Held \cup Given
    BY <2>4 DEF Given, Held, Answers, At
  <2>7. Given' = Given
    BY <1>1 DEF Given
  <2>8. /\ RowStatus[q] = "pending" /\ RowStatus' = [RowStatus EXCEPT ![q] = "answered"]
        /\ RowAsker' = RowAsker
    BY <1>1, <1>2, <2>1, <2>3, RowMoves
  <2>9. Life!Answer(q)
    BY <2>5, <2>6, <2>7, <2>8 DEF Life!Answer, Life!Moves, Life!Open
  <2>10. QED
    BY <2>9 DEF Life!Next
<1>6. QED
  BY <1>3, <1>4, <1>5

(* It gives the answer to the agent.                                       *)
LEMMA SendMoves ==
  ASSUME Inv, NEW g \in Goroutines, SendPrompt(g)
  PROVE  Life!Next
<1>1. /\ Shapes /\ At(g, {"resuming"}) /\ delivery[g] # Idle /\ question' = question
      /\ Goes(g, Idle)
  BY DEF Inv, SendPrompt, In, At, Idle
<1>2. PICK q \in Questions : q = delivery[g].question /\ question[q] \in Rows
  BY <1>1, AnsweringIs DEF At
<1>3. Answers(g, q)
  BY <1>1, <1>2 DEF Answers, At
<1>4. q \in Held /\ Held' = Held \ {q}
  BY <1>1, <1>3, HeldLeft
<1>5. told[q] = 0 /\ told' = [told EXCEPT ![q] = @ + 1]
  BY <1>2, <1>3 DEF Inv, Exclusive, SendPrompt
<1>6. told'[q] = 1 /\ \A x \in Questions \ {q} : told'[x] = told[x]
  BY <1>1, <1>5 DEF Shapes
<1>7. Given' = Given \cup {q}
  BY <1>6 DEF Given
<1>8. Life!Give(q)
  BY <1>1, <1>4, <1>7, SameRows DEF Life!Give
<1>9. QED
  BY <1>8 DEF Life!Next

(* The question is reopened, unless that fails.                            *)
LEMMA ResetMoves ==
  ASSUME Inv, NEW g \in Goroutines, ResetQuestion(g)
  PROVE  Life!Next
<1>1. /\ Shapes /\ At(g, {"resetting"}) /\ delivery[g] # Idle /\ told' = told
      /\ Goes(g, Idle)
  BY DEF Inv, ResetQuestion, In, At, Idle
<1>2. PICK q \in Questions : q = delivery[g].question /\ question[q] \in Rows
  BY <1>1, AnsweringIs DEF At
<1>3. Answers(g, q)
  BY <1>1, <1>2 DEF Answers, At
<1>4. q \in Held /\ Held' = Held \ {q}
  BY <1>1, <1>3, HeldLeft
<1>5. CASE question' = question
  BY <1>1, <1>4, <1>5, Unmoved DEF Life!Next
<1>6. CASE /\ question[q].status = "answered"
           /\ question' = [question EXCEPT ![q].status = "pending"]
  <2>1. /\ RowStatus[q] = "answered" /\ RowStatus' = [RowStatus EXCEPT ![q] = "pending"]
        /\ RowAsker' = RowAsker
    BY <1>1, <1>2, <1>6, RowMoves
  <2>2. Given' = Given
    BY <1>1 DEF Given
  <2>3. Life!Reopen(q)
    BY <1>4, <2>1, <2>2 DEF Life!Reopen, Life!Moves
  <2>4. QED
    BY <2>3 DEF Life!Next
<1>7. QED
  BY <1>2, <1>5, <1>6 DEF ResetQuestion

(* The agent is gone: its session ends, or has.                            *)
LEMMA UnavailableMoves ==
  ASSUME Inv, NEW g \in Goroutines, Unavailable(g)
  PROVE  Life!Next
<1>1. Shapes /\ At(g, {"resuming"}) /\ delivery[g] # Idle /\ told' = told
  BY DEF Inv, Unavailable, In, At, Idle
<1>2. PICK q \in Questions : /\ q = delivery[g].question /\ question[q].session \in Sessions
                             /\ delivery[g] \in Handling
  BY <1>1, AnsweringIs DEF At
<1>3. Held' \subseteq Held
  <2>1. CASE OnSlack(g)
    <3>1. delivery' = [delivery EXCEPT ![g] = Idle]
      BY <2>1 DEF Unavailable, Goes
    <3>2. QED
      BY <1>1, <3>1, HeldAfter DEF AtHand, Idle
  <2>2. CASE ~OnSlack(g)
    <3>1. delivery' = [delivery EXCEPT ![g] = [delivery[g] EXCEPT !.phase = "resetting"]]
      BY <2>2 DEF Unavailable, Goes, To
    <3>2. [delivery[g] EXCEPT !.phase = "resetting"].question = delivery[g].question
      BY <1>2, NewPhase DEF Phases
    <3>3. QED
      BY <1>1, <3>1, <3>2, HeldAfter DEF AtHand, At
  <2>3. QED
    BY <2>1, <2>2
<1>4. CASE CloseQuestions(Asker(g))
  <2>1. Asker(g) \in Sessions
    BY <1>2 DEF Asker
  <2>2. Life!CancelOpen(Asker(g))
    BY <1>1, <1>3, <1>4, <2>1, ClosingMoves
  <2>3. QED
    BY <2>1, <2>2 DEF Life!Next
<1>5. CASE question' = question
  BY <1>1, <1>3, <1>5, Unmoved DEF Life!Next
<1>6. QED
  BY <1>4, <1>5 DEF Unavailable

(* The other steps of a webhook call.                                      *)
LEMMA WebhookMoves ==
  ASSUME Inv, NEW g \in Goroutines, Webhook(g)
  PROVE  Life!Next
<1>1. Shapes
  BY DEF Inv
<1>2. CASE QuietStep(g)
  <2>1. question' = question /\ told' = told
    BY <1>1, <1>2, QuietFinds
  <2>2. PICK e \in {Idle} \cup Handling : Finds(g, e) /\ delivery' = [delivery EXCEPT ![g] = e]
    BY <1>1, <1>2, QuietFinds
  <2>3. e.phase \in AtHand => delivery[g].phase \in AtHand /\ e.question = delivery[g].question
    BY <2>2 DEF Finds, AtHand, At, Idle
  <2>4. QED
    BY <1>1, <2>1, <2>2, <2>3, HeldAfter, Unmoved DEF Life!Next
<1>3. CASE CreateTask(g)
  <2>1. delivery[g] # Idle /\ delivery[g] \in Handling /\ UNCHANGED <<question, told>>
    BY <1>1, <1>3, DeliveryShape DEF CreateTask, In, Idle, answers
  <2>2. PICK s \in Sessions : Goes(g, [delivery[g] EXCEPT !.phase = "starting", !.session = s])
    BY <1>3 DEF CreateTask
  <2> DEFINE e == [delivery[g] EXCEPT !.phase = "starting", !.session = s]
  <2>3. e.phase = "starting"
    BY <2>1 DEF Handling
  <2>4. Held' \subseteq Held
    BY <1>1, <2>2, <2>3, HeldAfter DEF Goes, AtHand
  <2>5. QED
    BY <2>1, <2>4, Unmoved DEF Life!Next
<1>4. CASE StartSession(g)
  <2>1. delivery[g] # Idle /\ delivery[g] \in Handling /\ UNCHANGED <<question, told>>
    BY <1>1, <1>4, DeliveryShape DEF StartSession, In, Idle, answers
  <2>2. PICK e : e \in {[delivery[g] EXCEPT !.phase = "acknowledging"],
                        [delivery[g] EXCEPT !.phase = "acknowledging", !.session = None]} /\ Goes(g, e)
    BY <1>4 DEF StartSession, To
  <2>3. e.phase = "acknowledging"
    BY <2>1, <2>2 DEF Handling
  <2>4. Held' \subseteq Held
    BY <1>1, <2>2, <2>3, HeldAfter DEF Goes, AtHand
  <2>5. QED
    BY <2>1, <2>4, Unmoved DEF Life!Next
<1>5. CASE SlackAcknowledges(g) \/ BotAcknowledges(g)
  <2>1. Goes(g, Idle) /\ UNCHANGED <<question, told>>
    BY <1>5 DEF SlackAcknowledges, BotAcknowledges, answers
  <2>2. Held' \subseteq Held
    BY <1>1, <2>1, HeldAfter DEF Goes, AtHand, Idle
  <2>3. QED
    BY <2>1, <2>2, Unmoved DEF Life!Next
<1>6. QED
  BY <1>2, <1>3, <1>4, <1>5, RecordMoves, SendMoves, UnavailableMoves, ResetMoves DEF Webhook, QuietStep

(* An agent asks under a new id.                                           *)
LEMMA AskMoves ==
  ASSUME Inv, NEW s \in Sessions, HandleAskHuman(s)
  PROVE  Life!Next
<1>1. Shapes /\ told' = told /\ delivery' = delivery
  BY DEF Inv, HandleAskHuman
<1>2. PICK q \in Questions : question[q] = NoRow /\ question' = [question EXCEPT ![q] = PendingRow(s)]
  BY DEF HandleAskHuman
<1>3. /\ question'[q] = PendingRow(s)
      /\ \A x \in Questions \ {q} : question'[x] = question[x]
  BY <1>1, <1>2 DEF Shapes
<1>4. PendingRow(s) # NoRow /\ PendingRow(s).status = "pending" /\ PendingRow(s).session = s
  BY DEF PendingRow, NoRow
<1>5. shown[q] = None /\ told[q] = 0
  BY <1>2 DEF Inv, Asked, Exists
<1>6. q \notin Given
  BY <1>5 DEF Given
<1>7. q \notin Held
  <2>1. SUFFICES ASSUME NEW g \in Goroutines, delivery[g].phase \in {"resuming", "resetting"},
                        delivery[g].question = q
                 PROVE  FALSE
    BY DEF Held
  <2>2. delivery[g] # Idle /\ At(g, {"loading", "recording", "resuming", "resetting"})
    BY <2>1 DEF At, Idle
  <2>3. shown[q] # None
    BY <2>1, <2>2 DEF Inv, DeliveryIs
  <2>4. QED
    BY <1>5, <2>3
<1>8. Held' = Held /\ Given' = Given
  BY <1>1 DEF Held, Given
<1>9. RowStatus[q] = "none" /\ RowStatus' = [RowStatus EXCEPT ![q] = "pending"]
  <2>1. question[q].status = "none"
    BY <1>2 DEF NoRow
  <2>2. question'[q].status = "pending"
    BY <1>3, <1>4
  <2>3. \A x \in Questions : question'[x].status = IF x = q THEN "pending" ELSE question[x].status
    BY <1>3, <2>2
  <2>4. QED
    BY <2>1, <2>3 DEF RowStatus
<1>10. RowAsker' = [RowAsker EXCEPT ![q] = s]
  BY <1>3, <1>4 DEF RowAsker
<1>11. Life!Ask(q, s)
  BY <1>6, <1>7, <1>8, <1>9, <1>10 DEF Life!Ask, Life!Moves
<1>12. QED
  BY <1>11 DEF Life!Next

(* ask_human has its question deleted when the session cannot wait, and    *)
(* remembers the thread it was posted in.                                  *)
LEMMA AgentMoves ==
  ASSUME Inv, NEW s \in Sessions, Agent(s)
  PROVE  Life!Next
<1>1. Shapes
  BY DEF Inv
<1>2. ASSUME UNCHANGED <<delivery, told>> PROVE Held' = Held /\ Given' = Given
  BY <1>2 DEF Held, Given
<1>3. CASE WaitForHuman(s)
  <2>1. asking[s] # Idle /\ UNCHANGED <<delivery, told>>
    BY <1>3 DEF WaitForHuman, Idle
  <2>2. PICK q \in Questions : q = asking[s].question
    BY <2>1, AskingFacts
  <2>3. CASE question' = question
    BY <1>2, <2>1, <2>3, Unmoved DEF Life!Next
  <2>4. CASE question' = [question EXCEPT ![q] = NoRow]
    <3>1. question'[q] = NoRow /\ \A x \in Questions \ {q} : question'[x] = question[x]
      BY <1>1, <2>4 DEF Shapes
    <3>2. RowStatus' = [RowStatus EXCEPT ![q] = "none"]
      <4>1. question'[q].status = "none"
        BY <3>1 DEF NoRow
      <4>2. \A x \in Questions : question'[x].status = IF x = q THEN "none" ELSE question[x].status
        BY <3>1, <4>1
      <4>3. QED
        BY <4>2 DEF RowStatus
    <3>3. RowAsker' = [RowAsker EXCEPT ![q] = None]
      BY <3>1 DEF RowAsker
    <3>4. Life!Delete(q)
      BY <1>2, <2>1, <3>2, <3>3 DEF Life!Delete
    <3>5. QED
      BY <3>4 DEF Life!Next
  <2>5. QED
    BY <1>3, <2>2, <2>3, <2>4 DEF WaitForHuman, DeleteQuestion
<1>4. CASE CreateThread(s)
  BY <1>2, <1>4, Unmoved DEF CreateThread, Life!Next
<1>5. CASE UpdateMessengerThread(s)
  <2>1. asking[s] # Idle /\ UNCHANGED <<delivery, told>>
    BY <1>5 DEF UpdateMessengerThread, Idle
  <2>2. PICK q \in Questions : q = asking[s].question /\ question[q] \in Rows
    BY <2>1, AskingFacts
  <2>3. CASE question' = question
    BY <1>2, <2>1, <2>3, Unmoved DEF Life!Next
  <2>4. CASE question' = [question EXCEPT ![q].thread = shown[q]]
    <3>1. /\ question'[q] = [question[q] EXCEPT !.thread = shown[q]]
          /\ \A x \in Questions \ {q} : question'[x] = question[x]
      BY <1>1, <2>4 DEF Shapes
    <3>2. \A x \in Questions :
            /\ question'[x].status = question[x].status
            /\ question'[x] = NoRow <=> question[x] = NoRow
            /\ question'[x].session = question[x].session
      BY <2>2, <3>1 DEF Rows, NoRow
    <3>3. RowStatus' = RowStatus /\ RowAsker' = RowAsker
      BY <3>2 DEF RowStatus, RowAsker
    <3>4. QED
      BY <1>2, <2>1, <3>3 DEF Life!LetGo, Life!Next
  <2>5. QED
    BY <1>5, <2>2, <2>3, <2>4 DEF UpdateMessengerThread, SetThread
<1>6. CASE EndSession(s)
  <2>1. UNCHANGED <<delivery, told>>
    BY <1>6 DEF EndSession
  <2>2. CASE CloseQuestions(s)
    BY <1>1, <1>2, <2>1, <2>2, ClosingMoves DEF Life!Next
  <2>3. CASE question' = question
    BY <1>2, <2>1, <2>3, Unmoved DEF Life!Next
  <2>4. QED
    BY <1>6, <2>2, <2>3 DEF EndSession
<1>7. QED
  BY <1>3, <1>4, <1>5, <1>6, AskMoves DEF Agent

(* Late and repeated webhooks of three platforms, agents that ask and end, *)
(* and restarts: in the eyes of QuestionLife each of their steps is one of *)
(* its own, or none.                                                       *)
THEOREM QuestionsKeepTheirLife == Spec => ImplementsLife
<1>1. Init => Life!Init
  <2> SUFFICES ASSUME Init PROVE Life!Init
    OBVIOUS
  <2>1. \A g \in Goroutines : delivery[g].phase = "idle"
    BY DEF Init, Idle
  <2>2. Held = {} /\ Given = {}
    BY <2>1 DEF Init, Held, Given
  <2>3. RowStatus = [q \in Questions |-> "none"] /\ RowAsker = [q \in Questions |-> None]
    BY DEF Init, RowStatus, RowAsker, NoRow
  <2> QED
    BY <2>2, <2>3 DEF Life!Init
<1>2. Inv /\ [Next]_vars => [Life!Next]_<<RowStatus, RowAsker, Held, Given>>
  <2> SUFFICES ASSUME Inv, [Next]_vars PROVE Life!Next
    OBVIOUS
  <2>1. CASE People
    <3>1. UNCHANGED <<delivery, question, told>>
      BY <2>1, PeopleWrite DEF Inv
    <3>2. Held' = Held
      BY <3>1 DEF Held
    <3>3. QED
      BY <3>1, <3>2, Unmoved DEF Life!Next
  <2>2. CASE Restart
    <3>1. UNCHANGED <<question, told>> /\ \A g \in Goroutines : delivery'[g].phase = "idle"
      BY <2>2 DEF Restart, answers, Idle
    <3>2. Held' \subseteq Held
      BY <3>1 DEF Held
    <3>3. QED
      BY <3>1, <3>2, Unmoved DEF Life!Next
  <2>3. CASE UNCHANGED vars
    <3>1. Held' = Held
      BY <2>3 DEF vars, Held
    <3>2. QED
      BY <2>3, <3>1, Unmoved DEF vars, Life!Next
  <2> QED
    BY <2>1, <2>2, <2>3, WebhookMoves, AgentMoves DEF Next
<1> QED
  BY <1>1, <1>2, Invariance, PTL DEF Spec, ImplementsLife, Life!Spec
=============================================================================
