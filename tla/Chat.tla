-------------------------------- MODULE Chat --------------------------------
(***************************************************************************)
(* Conversations in Slack, Discord and Telegram (internal/messenger) and   *)
(* what HITL questions have to do with them (internal/hitlrouter).  A      *)
(* mention creates a task and dispatches a session; the registry of        *)
(* session contexts remembers its conversation, in memory; a question the  *)
(* agent asks is posted there, and the row remembers the thread; a reply   *)
(* in the thread, or a press of the question's button, answers it.         *)
(* The handlers send their 200 only when they return, so a platform        *)
(* delivers a message again while it is being handled, late and in any     *)
(* order.  Sessions are those of Orchestrator, in coarser steps.           *)
(***************************************************************************)
EXTENDS Naturals, FiniteSets

CONSTANTS
  Sessions, Questions,
  Threads,      \* messages that head a conversation
  Platform,     \* Platform[t], where t is: "slack", "discord" or "telegram"
  Goroutines,   \* handlers of webhooks
  None,
  MaxPosts, MaxDeliveries, MaxRestarts  \* bounds on what people and platforms do

ASSUME ChatAssumption ==
  /\ Platform \in [Threads -> {"slack", "discord", "telegram"}]
  /\ None \notin Sessions \cup Questions \cup Threads
  /\ {MaxPosts, MaxDeliveries, MaxRestarts} \subseteq Nat

VARIABLES
  posted,      \* messages people have posted
  headed,      \* threads that exist
  delivery,    \* per goroutine, the webhook call it serves
  deliveries, restarts,
  session,     \* the sessions' rows
  tracked,     \* sessions in the orchestrator's map
  contexts,    \* the registry: session -> thread
  asking,      \* per session, the ask_human call of its agent
  question,    \* the questions' rows
  shown,       \* per question, the thread its message was posted in
  told,        \* history: per question, answers its agent was given
  recorded,    \* history: <<question, message>> for each answer recorded
  reopened,    \* history: questions with a reset, tried or done
  unheard      \* history: questions answered by an UPDATE that reported an error

vars == <<posted, headed, delivery, deliveries, restarts, session, tracked, contexts, asking,
          question, shown, told, recorded, reopened, unheard>>
people == <<posted, headed, deliveries, restarts>>
agents == <<session, tracked, contexts, asking>>
answers == <<question, shown, told, recorded, reopened, unheard>>

Idle == [phase |-> "idle"]
NoRow == [status |-> "none"]

Init ==
  /\ posted = {} /\ headed = {} /\ deliveries = 0 /\ restarts = 0
  /\ delivery = [g \in Goroutines |-> Idle]
  /\ session = [s \in Sessions |-> NoRow] /\ tracked = {} /\ contexts = <<>>
  /\ asking = [s \in Sessions |-> Idle]
  /\ question = [q \in Questions |-> NoRow] /\ shown = [q \in Questions |-> None]
  /\ told = [q \in Questions |-> 0] /\ recorded = {} /\ reopened = {} /\ unheard = {}

Pending(q) == question[q].status = "pending"
OpenIn(t) == {q \in Questions : Pending(q) /\ question[q].thread = t}
Without(f, s) == [x \in DOMAIN f \ {s} |-> f[x]]
With(f, s, t) == [x \in DOMAIN f \cup {s} |-> IF x = s THEN t ELSE f[x]]

-----------------------------------------------------------------------------
(* People.  A mention in Slack is in a thread or becomes the head of one;  *)
(* elsewhere the bot's acknowledgement will be the head.                   *)

Post(message) ==
  /\ message \notin posted /\ Cardinality(posted) < MaxPosts
  /\ posted' = posted \cup {message}
  /\ UNCHANGED <<delivery, deliveries, restarts, agents, answers>>

Mention(t) ==
  IF Platform[t] = "slack"
  THEN Post([kind |-> "mention", on |-> "slack", thread |-> t]) /\ headed' = headed \cup {t}
  ELSE Post([kind |-> "mention", on |-> Platform[t], thread |-> None]) /\ UNCHANGED headed

Reply(t) ==
  /\ t \in headed /\ UNCHANGED headed
  /\ Post([kind |-> "reply", on |-> Platform[t], thread |-> t, seen |-> OpenIn(t)])

Press(q) ==
  /\ shown[q] # None /\ UNCHANGED headed
  /\ Post([kind |-> "press", on |-> Platform[shown[q]], question |-> q])

People ==
  \/ \E t \in Threads : Mention(t) \/ Reply(t)
  \/ \E q \in Questions : Press(q)

-----------------------------------------------------------------------------
(* Webhooks.                                                               *)

Goes(g, new) == delivery' = [delivery EXCEPT ![g] = new]
To(g, phase) == Goes(g, [delivery[g] EXCEPT !.phase = phase])
In(g, phase) == delivery[g].phase = phase
Message(g) == delivery[g].message
IsA(g, kind) == Message(g).kind = kind
OnSlack(g) == Message(g).on = "slack"

(* The platform delivers a message, for the first time or again.           *)
Deliver(g) ==
  /\ In(g, "idle") /\ deliveries < MaxDeliveries /\ deliveries' = deliveries + 1
  /\ \E m \in posted :
       Goes(g, [phase |-> "received", message |-> m, session |-> None, question |-> None])
  /\ UNCHANGED <<posted, headed, restarts, agents, answers>>

(* Unreadable, not linked to a user (who is sent a link), or a call fails  *)
(* without effect.                                                         *)
GiveUp(g) ==
  /\ delivery[g].phase \in {"received", "loading", "recording"}
  /\ Goes(g, Idle)
  /\ UNCHANGED <<people, agents, answers>>

RegisteredLate(g, s) == contexts  \* mutant: not before the backend starts
(* DispatchTaskWithContext puts the context before the backend starts;     *)
(* Discord and Telegram call DispatchTask.                                 *)
Registered(g, s) == IF OnSlack(g) THEN With(contexts, s, Message(g).thread) ELSE contexts

CreateTask(g) ==
  \E s \in Sessions :
    /\ In(g, "received") /\ IsA(g, "mention") /\ session[s] = NoRow
    /\ session' = [session EXCEPT ![s] = [status |-> "pending", on |-> Message(g).on]]
    /\ contexts' = Registered(g, s)
    /\ Goes(g, [delivery[g] EXCEPT !.phase = "starting", !.session = s])
    /\ UNCHANGED <<people, tracked, asking, answers>>

StartSession(g) ==
  /\ In(g, "starting")
  /\ LET s == delivery[g].session IN
     \/ /\ session' = [session EXCEPT ![s].status = "running"] /\ tracked' = tracked \cup {s}
        /\ To(g, "acknowledging")
        /\ UNCHANGED contexts
     \/ /\ session' = [session EXCEPT ![s].status = "ended"] /\ contexts' = Without(contexts, s)
        /\ Goes(g, [delivery[g] EXCEPT !.phase = "acknowledging", !.session = None])
        /\ UNCHANGED tracked
  /\ UNCHANGED <<people, asking, answers>>

Put(g, t) ==
  contexts' = IF delivery[g].session = None THEN contexts ELSE With(contexts, delivery[g].session, t)

(* Slack puts the context, once more, and sends.                           *)
SlackAcknowledges(g) ==
  /\ In(g, "acknowledging") /\ OnSlack(g) /\ Put(g, Message(g).thread)
  /\ Goes(g, Idle)
  /\ UNCHANGED <<people, session, tracked, asking, answers>>

(* The others send and, if that worked, put the message's id.              *)
BotAcknowledges(g) ==
  /\ In(g, "acknowledging") /\ ~OnSlack(g)
  /\ \/ \E t \in Threads \ headed :
          Platform[t] = Message(g).on /\ headed' = headed \cup {t} /\ Put(g, t)
     \/ UNCHANGED <<contexts, headed>>
  /\ Goes(g, Idle)
  /\ UNCHANGED <<posted, deliveries, restarts, session, tracked, asking, answers>>

-----------------------------------------------------------------------------
(* Answers.  Replies are found by their thread; Discord has only buttons.  *)

Answering(g, q) == Goes(g, [delivery[g] EXCEPT !.phase = "loading", !.question = q])

FirstMatch(g) == OpenIn(Message(g).thread)  \* mutant: LIMIT 1
(* GetPendingByThread reads two rows at most and insists on one.           *)
Match(g) == {q \in OpenIn(Message(g).thread) : OpenIn(Message(g).thread) = {q}}
LookUp(g) ==
  /\ In(g, "received") /\ IsA(g, "reply") /\ Message(g).on # "discord"
  /\ IF Match(g) = {} THEN Goes(g, Idle) ELSE \E q \in Match(g) : Answering(g, q)
  /\ UNCHANGED <<people, agents, answers>>

ParseAction(g) ==
  /\ In(g, "received") /\ IsA(g, "press") /\ Answering(g, Message(g).question)
  /\ UNCHANGED <<people, agents, answers>>

(* AnswerQuestion: the row must be pending when it is read ...             *)
Load(g) ==
  /\ In(g, "loading")
  /\ IF Pending(delivery[g].question) THEN To(g, "recording") ELSE Goes(g, Idle)
  /\ UNCHANGED <<people, agents, answers>>

RecordRead(g) ==  \* mutant: UPDATE ... WHERE id = $1
  /\ In(g, "recording") /\ To(g, "resuming")
  /\ LET q == delivery[g].question IN
     question' = [question EXCEPT ![q].status = "answered"] /\ recorded' = recorded \cup {<<q, Message(g)>>}
  /\ UNCHANGED <<people, agents, shown, told, reopened, unheard>>

(* ... and when it is written.  The reply to the UPDATE may be lost, as    *)
(* when Slack hangs up and the request's context ends: the handler returns *)
(* and neither gives the answer nor resets it.                             *)
Record(g) ==
  /\ In(g, "recording")
  /\ LET q == delivery[g].question IN
     IF Pending(q)
     THEN /\ \/ To(g, "resuming") /\ UNCHANGED unheard
             \/ Goes(g, Idle) /\ unheard' = unheard \cup {q}
          /\ question' = [question EXCEPT ![q].status = "answered"]
          /\ recorded' = recorded \cup {<<q, Message(g)>>}
     ELSE Goes(g, Idle) /\ UNCHANGED <<question, recorded, unheard>>
  /\ UNCHANGED <<people, agents, shown, told, reopened>>

NeverReset(g) == Idle  \* mutant: what Discord and Telegram do
(* A press reads the question back; when that fails only Slack undoes.     *)
AfterFailedRead(g) == IF OnSlack(g) THEN [delivery[g] EXCEPT !.phase = "resetting"] ELSE Idle
ReadBackFails(g) ==
  /\ In(g, "resuming") /\ IsA(g, "press") /\ Goes(g, AfterFailedRead(g))
  /\ UNCHANGED <<people, agents, answers>>

Asker(g) == question[delivery[g].question].session

CloseAsClosed(s) ==  \* mutant: a status that the column does not have
  question' = [q \in Questions |-> IF Pending(q) /\ question[q].session = s
                                   THEN [question[q] EXCEPT !.status = "closed"] ELSE question[q]]
CloseQuestions(s) ==
  question' = [q \in Questions |-> IF Pending(q) /\ question[q].session = s
                                   THEN [question[q] EXCEPT !.status = "cancelled"] ELSE question[q]]

(* SendHITLAnswer to an agent that is there ...                            *)
SendPrompt(g) ==
  /\ In(g, "resuming") /\ Asker(g) \in tracked /\ session[Asker(g)].status = "waiting_hitl"
  /\ session' = [session EXCEPT ![Asker(g)].status = "running"]
  /\ told' = [told EXCEPT ![delivery[g].question] = @ + 1]
  /\ Goes(g, Idle)
  /\ UNCHANGED <<people, tracked, contexts, asking, question, shown, recorded, reopened, unheard>>

(* ... to one that a restart has orphaned or whose session has ended; this *)
(* is no failure for Slack, where the task goes back to the backlog ...    *)
Unavailable(g) ==
  /\ In(g, "resuming") /\ Asker(g) \notin tracked
  /\ IF session[Asker(g)].status = "waiting_hitl"
     THEN /\ session' = [session EXCEPT ![Asker(g)].status = "ended"]
          /\ contexts' = Without(contexts, Asker(g)) /\ CloseQuestions(Asker(g))
     ELSE UNCHANGED <<session, contexts, question>>
  /\ IF OnSlack(g) THEN Goes(g, Idle) ELSE To(g, "resetting")
  /\ UNCHANGED <<people, tracked, asking, shown, told, recorded, reopened, unheard>>

(* ... and one of its calls fails.                                         *)
SendFails(g) ==
  /\ In(g, "resuming") /\ To(g, "resetting")
  /\ UNCHANGED <<people, agents, answers>>

ResetQuestion(g) ==
  /\ In(g, "resetting") /\ Goes(g, Idle)
  /\ reopened' = reopened \cup {delivery[g].question}
  /\ \/ UNCHANGED question
     \/ /\ question[delivery[g].question].status = "answered"
        /\ question' = [question EXCEPT ![delivery[g].question].status = "pending"]
  /\ UNCHANGED <<people, agents, shown, told, recorded, unheard>>

Webhook(g) ==
  \/ Deliver(g) \/ GiveUp(g)
  \/ CreateTask(g) \/ StartSession(g) \/ SlackAcknowledges(g) \/ BotAcknowledges(g)
  \/ LookUp(g) \/ ParseAction(g) \/ Load(g) \/ Record(g) \/ ReadBackFails(g)
  \/ SendPrompt(g) \/ Unavailable(g) \/ SendFails(g) \/ ResetQuestion(g)

-----------------------------------------------------------------------------
(* ask_human, in the goroutine that reads the agent's output.              *)

Asks(s, new) == asking' = [asking EXCEPT ![s] = new]

PendingRow(s) == [status |-> "pending", session |-> s, thread |-> None]

(* The row may be written and the call fail.                               *)
HandleAskHuman(s) ==
  /\ s \in tracked /\ asking[s] = Idle
  /\ \E q \in Questions :
       /\ question[q] = NoRow
       /\ question' = [question EXCEPT ![q] = PendingRow(s)]
       /\ Asks(s, [phase |-> "waiting", question |-> q]) \/ UNCHANGED asking
  /\ UNCHANGED <<people, delivery, session, tracked, contexts, shown, told, recorded, reopened, unheard>>

DeleteQuestion(q) == question' = [question EXCEPT ![q] = NoRow]

(* A status that could not be written, or seems so, takes the question     *)
(* with it, unless that fails too.                                         *)
WaitForHuman(s) ==
  /\ asking[s].phase = "waiting"
  /\ \/ /\ session[s].status = "running"
        /\ session' = [session EXCEPT ![s].status = "waiting_hitl"]
        /\ Asks(s, [asking[s] EXCEPT !.phase = "attaching"])
        /\ UNCHANGED question
     \/ /\ DeleteQuestion(asking[s].question) \/ UNCHANGED question
        /\ Asks(s, Idle)
        /\ \/ UNCHANGED session
           \/ /\ session[s].status = "running"
              /\ session' = [session EXCEPT ![s].status = "waiting_hitl"]
  /\ UNCHANGED <<people, delivery, tracked, contexts, shown, told, recorded, reopened, unheard>>

(* Every platform's CreateThread answers with the parent message's id.     *)
ThreadID(s) == contexts[s]
CreateThread(s) ==
  /\ asking[s].phase = "attaching"
  /\ \/ /\ s \in DOMAIN contexts
        /\ shown' = [shown EXCEPT ![asking[s].question] = ThreadID(s)]
        /\ Asks(s, [asking[s] EXCEPT !.phase = "persisting"])
     \/ Asks(s, Idle) /\ UNCHANGED shown
  /\ UNCHANGED <<people, delivery, session, tracked, contexts, question, told, recorded, reopened, unheard>>

(* UPDATE ... WHERE id = $1, whatever the status has become meanwhile.     *)
SetThread(q) == question' = [question EXCEPT ![q].thread = shown[q]]

UpdateMessengerThread(s) ==
  /\ asking[s].phase = "persisting" /\ Asks(s, Idle)
  /\ SetThread(asking[s].question) \/ UNCHANGED question
  /\ UNCHANGED <<people, delivery, session, tracked, contexts, shown, told, recorded, reopened, unheard>>

(* Completion, cancellation or the stall sweep; its questions may stay     *)
(* open when the call fails.                                               *)
EndSession(s) ==
  /\ s \in tracked /\ tracked' = tracked \ {s}
  /\ session' = [session EXCEPT ![s].status = "ended"] /\ contexts' = Without(contexts, s)
  /\ CloseQuestions(s) \/ UNCHANGED question
  /\ UNCHANGED <<people, delivery, asking, shown, told, recorded, reopened, unheard>>

Agent(s) ==
  \/ HandleAskHuman(s) \/ WaitForHuman(s) \/ CreateThread(s) \/ UpdateMessengerThread(s)
  \/ EndSession(s)

Restart ==
  /\ restarts < MaxRestarts /\ restarts' = restarts + 1
  /\ delivery' = [g \in Goroutines |-> Idle] /\ asking' = [s \in Sessions |-> Idle]
  /\ tracked' = {} /\ contexts' = <<>>
  /\ UNCHANGED <<posted, headed, deliveries, session, answers>>

Next ==
  \/ People
  \/ \E g \in Goroutines : Webhook(g)
  \/ \E s \in Sessions : Agent(s)
  \/ Restart

Spec == Init /\ [][Next]_vars

-----------------------------------------------------------------------------
(* Types; a question remembers the thread it was posted in, which is one   *)
(* of the platform its session came from.                                  *)
TypeOK ==
  /\ tracked \subseteq Sessions /\ headed \subseteq Threads
  /\ \A s \in DOMAIN contexts : s \in Sessions /\ contexts[s] \in headed
  /\ \A s \in Sessions : session[s].status \in {"none", "pending", "running", "waiting_hitl", "ended"}
  /\ \A q \in Questions :
       /\ question[q].status \in {"none", "pending", "answered", "cancelled"}
       /\ question[q].status # "none" /\ question[q].thread # None =>
            question[q].thread = shown[q] /\ Platform[shown[q]] = session[question[q].session].on

(* A question of a session that was dispatched from Slack finds the        *)
(* context of its session, however soon the agent asks; elsewhere an agent *)
(* may be quicker than the acknowledgement.                                *)
AskedInThread ==
  \A s \in tracked :
    asking[s].phase = "attaching" /\ session[s].on = "slack" => s \in DOMAIN contexts

(* When two questions were open in a thread as somebody wrote a reply, and *)
(* one of them has been open ever since, the reply answers no other.       *)
AmbiguousIgnored ==
  [][\A x \in recorded' \ recorded :
       x[2].kind = "reply" =>
         \A q \in x[2].seen \ {x[1]} : question[q].status = "pending" => q \in reopened]_vars

(* The answer an agent was given is the one on record: it is given once    *)
(* and no other handler, late delivery or end of a session takes it back.  *)
AnswersStand == \A q \in Questions : told[q] <= 1 /\ (told[q] = 1 => question[q].status = "answered")

(* On Slack, an agent at work does not wait for an answer that was         *)
(* recorded but will never come: a handler is about to deliver it or to    *)
(* reopen the question, unless the question had a reset before or the      *)
(* UPDATE that recorded the answer reported an error.                      *)
AnswerNotLost ==
  \A q \in Questions :
    question[q].status = "answered" /\ told[q] = 0 =>
      LET s == question[q].session IN
      s \in tracked /\ session[s].status = "waiting_hitl" /\ session[s].on = "slack" =>
        q \in reopened \cup unheard \/ \E g \in Goroutines :
                             delivery[g].phase \in {"resuming", "resetting"} /\ delivery[g].question = q

(* The questions as QuestionLife sees them; an answer is at hand while a   *)
(* webhook call is about to give it or to reopen its question.             *)
RowStatus == [q \in Questions |-> question[q].status]
RowAsker == [q \in Questions |-> IF question[q] = NoRow THEN None ELSE question[q].session]
Held ==
  {q \in Questions : \E g \in Goroutines :
     delivery[g].phase \in {"resuming", "resetting"} /\ delivery[g].question = q}
Given == {q \in Questions : told[q] > 0}
Life == INSTANCE QuestionLife WITH
  status <- RowStatus, asker <- RowAsker, inHand <- Held, given <- Given

(* Late and repeated webhooks of three platforms, agents that ask and end, *)
(* and restarts keep what the repository promises of questions.            *)
ImplementsLife == Life!Spec
=============================================================================
