---------------------------- MODULE HitlTimeouts ----------------------------
(***************************************************************************)
(* The timeouts of HITL questions: runHITLTimeoutSweepLoop of              *)
(* cmd/steerlane, with the dispatcher and the repository it calls.  Every  *)
(* replica of the server sweeps once a minute:                             *)
(*                                                                         *)
(*   tier1     a pending question whose timeout expired is escalated;      *)
(*   tier2     an escalated one times out, and its session is cancelled;   *)
(*   renotify  timeouts whose notification is still owed are announced;    *)
(*   finalise  sessions that live on after a timeout are cancelled.        *)
(*                                                                         *)
(* A notification is claimed, sent and recorded by three calls.  Whoever   *)
(* moves a session, the sweep, an agent that asks, a human's answer or an  *)
(* ending, reads and validates its row first and then writes without a     *)
(* guard, so a status that is written may be another one's by then.  An    *)
(* UPDATE that fails may have taken effect, with only its reply lost.      *)
(***************************************************************************)
EXTENDS Lifecycle, Naturals

CONSTANTS
  Questions, Sessions, Replicas,
  None,            \* no question, no session
  SessionOf,       \* the session that asks the question
  StoredStatuses,  \* what the CHECK of hitl_questions.status admits
  Endings,         \* bound: how other calls end a session
  MaxCrashes       \* bound: how often replicas are killed

ASSUME TimeoutsAssumption ==
  /\ SessionOf \in [Questions -> Sessions]
  /\ None \notin Questions \cup Sessions
  /\ StoredStatuses \subseteq QuestionStatuses
  /\ Endings \subseteq SessionEnded
  /\ MaxCrashes \in Nat

VARIABLES
  question,  \* hitl_questions.status, "absent" before the row exists
  expired,   \* timeout_at has passed
  claim,     \* timeout_notification_claimed_at: none, fresh, or stale (5 min)
  notified,  \* timeout_notified_at is set
  session,   \* agent_sessions.status
  ask,       \* where the call that asks the question is
  answer,    \* where the call that answers the question is
  ending,    \* where a call is that ends the session, and how
  sweep,     \* per replica, where its sweep is
  ended,     \* history: sessions whose end has been written
  stalled,   \* history: questions with a claim that lapsed during a send
  crashes    \* bound: crashes so far

notice == <<claim, notified>>
calls == <<ask, answer, ending>>
history == <<ended, stalled>>
vars == <<question, expired, notice, session, calls, sweep, history, crashes>>

Open == {"pending", "escalated"}
Live == {"pending", "running", "waiting_hitl"}

Asker(q) == session[SessionOf[q]]

(* Which rows each listing of the sweep takes: its WHERE clause and join.  *)
ExpiredPending(q) ==
  question[q] = "pending" /\ expired[q] /\ Asker(q) \in Live \cup {"cancelled"}

(* Mutant: escalated questions are listed before they expire.              *)
EscalatedEarly(q) == question[q] = "escalated" /\ Asker(q) \in Live

EscalatedExpired(q) == question[q] = "escalated" /\ expired[q] /\ Asker(q) \in Live

(* Mutant: only sessions that wait for their human are cancelled again.    *)
TimedOutWaiting(q) == question[q] = "timeout" /\ Asker(q) = "waiting_hitl"

TimedOut(q) == question[q] = "timeout" /\ Asker(q) \in Live

UnnotifiedTimedOut(q) ==
  /\ question[q] = "timeout" /\ ~notified[q]
  /\ claim[q] # "fresh" /\ Asker(q) \in SessionEnded

(* Which rows each UPDATE changes: its WHERE clause.                       *)
(* Mutant: UPDATE ... WHERE id = $1.                                       *)
AnswerableAnyway(q) == TRUE

Answerable(q) == question[q] \in Open
Resettable(q) == question[q] = "answered"
Escalatable(q) == question[q] = "pending" /\ "escalated" \in StoredStatuses
Markable(q) == question[q] = "escalated"

(* Mutant: a claim is not respected.                                       *)
ClaimableAnyway(q) == question[q] = "timeout" /\ ~notified[q]

(* Mutant: a stale claim is respected like a fresh one.                    *)
ClaimableUnclaimed(q) == question[q] = "timeout" /\ ~notified[q] /\ claim[q] = "none"

Claimable(q) == question[q] = "timeout" /\ ~notified[q] /\ claim[q] # "fresh"
Recordable(q) == question[q] = "timeout" /\ ~notified[q]
Clearable(q) == question[q] = "timeout"

Phases == {"tier1", "tier2", "renotify", "finalise"}
After == [tier1 |-> "tier2", tier2 |-> "renotify", renotify |-> "finalise",
          finalise |-> "tier1"]

(* todo are listed questions, notify those to be announced; s is the       *)
(* session and q the question the replica is about.                        *)
SweepStates ==
  [ at : {"list", "work", "cancel", "write", "close", "claim", "send", "record", "clear"},
    phase : Phases, todo : SUBSET Questions, notify : SUBSET Questions,
    s : Sessions \cup {None}, q : Questions \cup {None} ]

(* Between two sweeps.                                                     *)
Resting ==
  [ at |-> "list", phase |-> "tier1", todo |-> {}, notify |-> {}, s |-> None, q |-> None ]

Init ==
  /\ question = [q \in Questions |-> "absent"]
  /\ expired = [q \in Questions |-> FALSE]
  /\ claim = [q \in Questions |-> "none"]
  /\ notified = [q \in Questions |-> FALSE]
  /\ session = [s \in Sessions |-> "running"]
  /\ ask = [q \in Questions |-> "none"]
  /\ answer = [q \in Questions |-> "none"]
  /\ ending = [s \in Sessions |-> "none"]
  /\ ended = {} /\ stalled = {}
  /\ sweep = [r \in Replicas |-> Resting]
  /\ crashes = 0

-----------------------------------------------------------------------------
(* Agents, humans and time.                                                *)

(* Of a session's row: the UPDATE of UpdateStatus, and one that fails.     *)
Write(s, status) ==
  /\ session' = [session EXCEPT ![s] = status]
  /\ ended' = IF status \in SessionEnded THEN ended \cup {s} ELSE ended
  /\ UNCHANGED stalled

WriteFails(s, status) == Write(s, status) \/ UNCHANGED <<session, history>>

(* HandleAskHuman: the question is created, then its session is to wait.   *)
AskHuman(q) ==
  /\ question[q] = "absent"
  /\ question' = [question EXCEPT ![q] = "pending"]
  /\ \E next \in {"read", "none"} : ask' = [ask EXCEPT ![q] = next]
  /\ UNCHANGED <<expired, notice, session, answer, ending, sweep, history, crashes>>

AskRead(q) ==
  /\ ask[q] = "read"
  /\ \/ session[SessionOf[q]] = "running" /\ ask' = [ask EXCEPT ![q] = "write"]
     \/ ask' = [ask EXCEPT ![q] = "drop"]
  /\ UNCHANGED <<question, expired, notice, session, answer, ending, sweep, history, crashes>>

AskWrite(q) ==
  /\ ask[q] = "write"
  /\ \/ Write(SessionOf[q], "waiting_hitl") /\ ask' = [ask EXCEPT ![q] = "none"]
     \/ WriteFails(SessionOf[q], "waiting_hitl") /\ ask' = [ask EXCEPT ![q] = "drop"]
  /\ UNCHANGED <<question, expired, notice, answer, ending, sweep, crashes>>

(* The session could not wait: Delete the question.  If that fails too,    *)
(* the question stays.                                                     *)
DropQuestion(q) ==
  /\ ask[q] = "drop"
  /\ ask' = [ask EXCEPT ![q] = "none"]
  /\ question' = [question EXCEPT ![q] = "deleted"] \/ UNCHANGED question
  /\ UNCHANGED <<expired, notice, session, answer, ending, sweep, history, crashes>>

(* AnswerQuestion takes an answer to a pending question only.              *)
AnswerQuestion(q) ==
  /\ answer[q] = "none" /\ question[q] = "pending"
  /\ answer' = [answer EXCEPT ![q] = "admitted"]
  /\ UNCHANGED <<question, expired, notice, session, ask, ending, sweep, history, crashes>>

(* The UPDATE; the handler returns when it fails, whether or not the       *)
(* answer is on record then.                                               *)
RecordAnswer(q) ==
  /\ answer[q] = "admitted"
  /\ \/ /\ Answerable(q)
        /\ question' = [question EXCEPT ![q] = "answered"]
        /\ \E next \in {"recorded", "none"} : answer' = [answer EXCEPT ![q] = next]
     \/ /\ answer' = [answer EXCEPT ![q] = "none"]
        /\ UNCHANGED question
  /\ UNCHANGED <<expired, notice, session, ask, ending, sweep, history, crashes>>

(* SendHITLAnswer: the session is to run again before its agent is told.   *)
(* An agent out of reach has the answer reset, or left where it is.        *)
ResumeRead(q) ==
  /\ answer[q] = "recorded"
  /\ \/ session[SessionOf[q]] = "waiting_hitl" /\ answer' = [answer EXCEPT ![q] = "resuming"]
     \/ \E next \in {"undelivered", "none"} : answer' = [answer EXCEPT ![q] = next]
  /\ UNCHANGED <<question, expired, notice, session, ask, ending, sweep, history, crashes>>

(* Then the agent takes the answer, or the session is to wait again: what  *)
(* the UPDATE wrote may be read back as it is, or replaced by then.        *)
ResumeWrite(q) ==
  /\ answer[q] = "resuming"
  /\ \/ /\ Write(SessionOf[q], "running")
        /\ \E next \in {"none", "rollback", "undelivered"} : answer' = [answer EXCEPT ![q] = next]
     \/ /\ WriteFails(SessionOf[q], "running")
        /\ answer' = [answer EXCEPT ![q] = "undelivered"]
  /\ UNCHANGED <<question, expired, notice, ask, ending, sweep, crashes>>

RollbackWrite(q) ==
  /\ answer[q] = "rollback"
  /\ WriteFails(SessionOf[q], "waiting_hitl")
  /\ answer' = [answer EXCEPT ![q] = "undelivered"]
  /\ UNCHANGED <<question, expired, notice, ask, ending, sweep, crashes>>

(* ResetAnswer: the answer that was not delivered is withdrawn, unless the *)
(* call fails.  timeout_at stays as it is.                                 *)
ResetAnswer(q) ==
  /\ answer[q] = "undelivered"
  /\ answer' = [answer EXCEPT ![q] = "none"]
  /\ \/ question' = [question EXCEPT ![q] = IF Resettable(q) THEN "pending" ELSE @]
     \/ UNCHANGED question
  /\ UNCHANGED <<expired, notice, session, ask, ending, sweep, history, crashes>>

(* CancelPendingBySession: UPDATE ... WHERE status IN ('pending',          *)
(* 'escalated').  An error is only logged.                                 *)
CloseQuestions(s) ==
  \/ question' = [q \in Questions |->
                    IF SessionOf[q] = s /\ question[q] \in Open THEN "cancelled" ELSE question[q]]
  \/ UNCHANGED question

(* The session completes, fails, or is cancelled by a user; a cancellation *)
(* of one that has ended only closes its questions.                        *)
EndSession(s) ==
  /\ ending[s] = "none"
  /\ \/ \E end \in Endings :
          /\ CanTransition(SessionEdges, session[s], end)
          /\ ending' = [ending EXCEPT ![s] = end]
     \/ session[s] \in SessionEnded /\ ending' = [ending EXCEPT ![s] = "close"]
  /\ UNCHANGED <<question, expired, notice, session, ask, answer, sweep, history, crashes>>

(* Some endings return when the write fails, others go on.                 *)
EndWrite(s) ==
  /\ ending[s] \in SessionEnded
  /\ \/ Write(s, ending[s]) /\ ending' = [ending EXCEPT ![s] = "close"]
     \/ /\ WriteFails(s, ending[s])
        /\ \E next \in {"close", "none"} : ending' = [ending EXCEPT ![s] = next]
  /\ UNCHANGED <<question, expired, notice, ask, answer, sweep, crashes>>

EndClose(s) ==
  /\ ending[s] = "close"
  /\ CloseQuestions(s)
  /\ ending' = [ending EXCEPT ![s] = "none"]
  /\ UNCHANGED <<expired, notice, session, ask, answer, sweep, history, crashes>>

(* timeout_at passes.  The call that asks does not last for a whole        *)
(* timeout, nor the answering one, which took the question when it was     *)
(* pending, for the whole extended one.                                    *)
Expire(q) ==
  /\ ~expired[q]
  /\ \/ question[q] = "pending" /\ ask[q] = "none"
     \/ question[q] = "escalated" /\ answer[q] # "admitted"
  /\ expired' = [expired EXCEPT ![q] = TRUE]
  /\ UNCHANGED <<question, notice, session, calls, sweep, history, crashes>>

(* timeoutNotificationClaimTTL, 5 minutes, passes.  The calls made under a *)
(* claim end after 15 seconds each, but smtp.SendMail knows no deadline.   *)
Lapse(q) ==
  /\ claim[q] = "fresh"
  /\ \A r \in Replicas : sweep[r].q = q => sweep[r].at = "send"
  /\ claim' = [claim EXCEPT ![q] = "stale"]
  /\ stalled' = IF \E r \in Replicas : sweep[r].q = q THEN stalled \cup {q} ELSE stalled
  /\ UNCHANGED <<question, expired, notified, session, calls, sweep, ended, crashes>>

-----------------------------------------------------------------------------
(* The sweep.                                                              *)

At(r, label) == sweep[r].at = label

Continue(r, l) == sweep' = [sweep EXCEPT ![r] = l]

(* What is next: to announce, then the other listed ones, then the phase   *)
(* that follows.                                                           *)
Proceed(l) ==
  IF l.notify # {} THEN [l EXCEPT !.at = "claim", !.q = None]
  ELSE IF l.todo # {} THEN [l EXCEPT !.at = "work", !.s = None, !.q = None]
  ELSE [Resting EXCEPT !.phase = After[l.phase]]

(* The query of each phase.                                                *)
Listed(phase) ==
  { q \in Questions :
      CASE phase = "tier1" -> ExpiredPending(q)
        [] phase = "tier2" -> EscalatedExpired(q)
        [] phase = "renotify" -> UnnotifiedTimedOut(q)
        [] phase = "finalise" -> TimedOut(q) }

(* A listing that fails lists nothing.                                     *)
List(r, ok) ==
  /\ At(r, "list")
  /\ LET l == sweep[r]
         found == IF ok THEN Listed(l.phase) ELSE {}
     IN Continue(r, Proceed(IF l.phase = "renotify" THEN [l EXCEPT !.notify = found]
                            ELSE [l EXCEPT !.todo = found]))
  /\ UNCHANGED <<question, expired, notice, session, calls, history, crashes>>

(* Escalate, within the CHECK of the column; timeout_at moves on.  Its     *)
(* notification is best effort.                                            *)
EscalateQuestion(r, q, ok) ==
  /\ At(r, "work") /\ sweep[r].phase = "tier1" /\ q \in sweep[r].todo
  /\ Continue(r, Proceed([sweep[r] EXCEPT !.todo = @ \ {q}]))
  /\ \/ /\ ok /\ Escalatable(q)
        /\ question' = [question EXCEPT ![q] = "escalated"]
        /\ expired' = [expired EXCEPT ![q] = FALSE]
     \/ /\ ~(ok /\ Escalatable(q))
        /\ UNCHANGED <<question, expired>>
  /\ UNCHANGED <<notice, session, calls, history, crashes>>

(* Mutant: a question counts as marked whatever its UPDATE found.          *)
MarkAllTimedOut(r, q, ok) ==
  /\ At(r, "work") /\ sweep[r].phase = "tier2" /\ q \in sweep[r].todo
  /\ sweep[r].s \in {None, SessionOf[q]}
  /\ LET l == [sweep[r] EXCEPT !.s = SessionOf[q], !.todo = @ \ {q}, !.notify = @ \cup {q}]
         more == \E other \in l.todo : SessionOf[other] = l.s
     IN /\ question' = [question EXCEPT ![q] = IF ok /\ @ = "escalated" THEN "timeout" ELSE @]
        /\ Continue(r, IF more THEN l ELSE [l EXCEPT !.at = "cancel"])
  /\ UNCHANGED <<expired, notice, session, calls, history, crashes>>

(* MarkTimedOutEscalated.  Listed questions are marked session by session, *)
(* and the session is cancelled when one of its questions was marked.      *)
MarkEscalatedTimedOut(r, q, ok) ==
  /\ At(r, "work") /\ sweep[r].phase = "tier2" /\ q \in sweep[r].todo
  /\ sweep[r].s \in {None, SessionOf[q]}
  /\ LET l == [sweep[r] EXCEPT !.s = SessionOf[q], !.todo = @ \ {q},
                               !.notify = IF ok /\ Markable(q) THEN @ \cup {q} ELSE @]
         more == \E other \in l.todo : SessionOf[other] = l.s
     IN /\ \/ question' = [question EXCEPT ![q] = IF Markable(q) THEN "timeout" ELSE @]
           \/ ~ok /\ UNCHANGED question
        /\ Continue(r, IF more THEN l
                       ELSE IF l.notify # {} THEN [l EXCEPT !.at = "cancel"]
                       ELSE Proceed(l))
  /\ UNCHANGED <<expired, notice, session, calls, history, crashes>>

(* Who is to cancel a session: tier2 for those it marked, finalise for     *)
(* each of its questions.                                                  *)
ToCancel(r) ==
  LET l == sweep[r]
  IN  IF l.at = "cancel" THEN {l}
      ELSE IF l.at = "work" /\ l.phase = "finalise"
      THEN { [l EXCEPT !.at = "cancel", !.s = SessionOf[q], !.todo = @ \ {q}, !.notify = {q}] :
               q \in l.todo }
      ELSE {}

(* Mutant: announced although the session could not be cancelled.          *)
CancelOrAnnounce(r, ok) ==
  /\ \E l \in ToCancel(r) :
       Continue(r, IF ~ok THEN Proceed(l)
                   ELSE IF session[l.s] \in SessionEnded THEN [l EXCEPT !.at = "close"]
                   ELSE [l EXCEPT !.at = "write"])
  /\ UNCHANGED <<question, expired, notice, session, calls, history, crashes>>

(* CancelSession reads the row: a session that ended already is none the   *)
(* worse.  After an error nothing is announced.                            *)
CancelSession(r, ok) ==
  /\ \E l \in ToCancel(r) :
       \/ /\ ok /\ CanTransition(SessionEdges, session[l.s], "cancelled")
          /\ Continue(r, [l EXCEPT !.at = "write"])
       \/ /\ ok /\ session[l.s] \in SessionEnded
          /\ Continue(r, [l EXCEPT !.at = "close"])
       \/ /\ ~ok
          /\ Continue(r, Proceed([l EXCEPT !.notify = {}]))
  /\ UNCHANGED <<question, expired, notice, session, calls, history, crashes>>

CancelWrite(r, ok) ==
  /\ At(r, "write")
  /\ LET l == sweep[r]
     IN \/ ok /\ Write(l.s, "cancelled") /\ Continue(r, [l EXCEPT !.at = "close"])
        \/ /\ ~ok /\ WriteFails(l.s, "cancelled")
           /\ Continue(r, Proceed([l EXCEPT !.notify = {}]))
  /\ UNCHANGED <<question, expired, notice, calls, crashes>>

(* cancelPendingHITL, at the end of CancelSession.                         *)
CancelPendingHITL(r) ==
  /\ At(r, "close")
  /\ CloseQuestions(sweep[r].s)
  /\ Continue(r, Proceed(sweep[r]))
  /\ UNCHANGED <<expired, notice, session, calls, history, crashes>>

(* ClaimTimeoutNotification: a guarded UPDATE.  A question that cannot be  *)
(* claimed is left to whoever holds it, or to a later sweep.               *)
ClaimTimeoutNotification(r, q, ok) ==
  /\ At(r, "claim") /\ q \in sweep[r].notify
  /\ LET l == [sweep[r] EXCEPT !.notify = @ \ {q}]
     IN /\ \/ claim' = [claim EXCEPT ![q] = IF Claimable(q) THEN "fresh" ELSE @]
           \/ ~ok /\ UNCHANGED claim
        /\ Continue(r, IF ok /\ Claimable(q) THEN [l EXCEPT !.at = "send", !.q = q] ELSE Proceed(l))
  /\ UNCHANGED <<question, expired, notified, session, calls, history, crashes>>

NotifyQuestionTimedOut(r, ok) ==
  /\ At(r, "send")
  /\ Continue(r, [sweep[r] EXCEPT !.at = IF ok THEN "record" ELSE "clear"])
  /\ UNCHANGED <<question, expired, notice, session, calls, history, crashes>>

MarkTimeoutNotificationSent(r, ok) ==
  /\ At(r, "record")
  /\ LET q == sweep[r].q
         marked == ok /\ Recordable(q)
     IN /\ claim' = [claim EXCEPT ![q] = IF marked THEN "none" ELSE @]
        /\ notified' = [notified EXCEPT ![q] = marked \/ @]
  /\ Continue(r, Proceed(sweep[r]))
  /\ UNCHANGED <<question, expired, session, calls, history, crashes>>

(* The claim is cleared, whoever holds it.                                 *)
ClearTimeoutNotificationClaim(r, ok) ==
  /\ At(r, "clear")
  /\ LET q == sweep[r].q
     IN claim' = [claim EXCEPT ![q] = IF ok /\ Clearable(q) THEN "none" ELSE @]
  /\ Continue(r, Proceed(sweep[r]))
  /\ UNCHANGED <<question, expired, notified, session, calls, history, crashes>>

(* The replica is killed and started again.                                *)
Crash(r) ==
  /\ sweep[r] # Resting
  /\ crashes < MaxCrashes
  /\ crashes' = crashes + 1
  /\ Continue(r, Resting)
  /\ UNCHANGED <<question, expired, notice, session, calls, history>>

-----------------------------------------------------------------------------
(* The calls that go on once they were made.                               *)
Asking(q) == AskRead(q) \/ AskWrite(q) \/ DropQuestion(q)

Answering(q) ==
  \/ RecordAnswer(q) \/ ResumeRead(q) \/ ResumeWrite(q)
  \/ RollbackWrite(q) \/ ResetAnswer(q)

Ending(s) == EndWrite(s) \/ EndClose(s)

Environment ==
  \/ \E q \in Questions :
       AskHuman(q) \/ AnswerQuestion(q) \/ Asking(q) \/ Answering(q) \/ Expire(q) \/ Lapse(q)
  \/ \E s \in Sessions : EndSession(s) \/ Ending(s)

Sweep(r) ==
  \/ \E ok \in BOOLEAN :
       \/ List(r, ok) \/ CancelSession(r, ok) \/ CancelWrite(r, ok)
       \/ NotifyQuestionTimedOut(r, ok)
       \/ MarkTimeoutNotificationSent(r, ok) \/ ClearTimeoutNotificationClaim(r, ok)
       \/ \E q \in Questions :
            EscalateQuestion(r, q, ok) \/ MarkEscalatedTimedOut(r, q, ok)
              \/ ClaimTimeoutNotification(r, q, ok)
  \/ CancelPendingHITL(r)

Next == Environment \/ \E r \in Replicas : Sweep(r) \/ Crash(r)

Spec == Init /\ [][Next]_vars

(* The loop ticks on, time passes, calls under way return, and a call that *)
(* is repeated succeeds in the end: no error of the database or of a       *)
(* messenger is permanent.                                                 *)
Fairness ==
  /\ \A q \in Questions :
       WF_vars(Expire(q)) /\ WF_vars(Lapse(q)) /\ WF_vars(Asking(q)) /\ WF_vars(Answering(q))
  /\ \A s \in Sessions : WF_vars(Ending(s))
  /\ \A r \in Replicas :
       /\ WF_vars(Sweep(r))
       /\ \A phase \in Phases : SF_vars(sweep[r].phase = phase /\ List(r, TRUE))
       /\ SF_vars(CancelSession(r, TRUE)) /\ SF_vars(CancelWrite(r, TRUE))
       /\ SF_vars(NotifyQuestionTimedOut(r, TRUE))
       /\ SF_vars(MarkTimeoutNotificationSent(r, TRUE))
       /\ \A q \in Questions :
            /\ SF_vars(EscalateQuestion(r, q, TRUE))
            /\ SF_vars(MarkEscalatedTimedOut(r, q, TRUE))
            /\ SF_vars(ClaimTimeoutNotification(r, q, TRUE))

FairSpec == Spec /\ Fairness

-----------------------------------------------------------------------------
(* Properties.                                                             *)

(* Where a call is that has recorded its answer.                           *)
InHand == {"recorded", "resuming", "rollback", "undelivered"}

TypeOK ==
  /\ question \in [Questions -> {"absent", "deleted"} \cup QuestionStatuses]
  /\ expired \in [Questions -> BOOLEAN]
  /\ claim \in [Questions -> {"none", "fresh", "stale"}]
  /\ notified \in [Questions -> BOOLEAN]
  /\ session \in [Sessions -> SessionStatuses]
  /\ ask \in [Questions -> {"none", "read", "write", "drop"}]
  /\ answer \in [Questions -> {"none", "admitted"} \cup InHand]
  /\ ending \in [Sessions -> {"none", "close"} \cup SessionEnded]
  /\ ended \subseteq Sessions /\ stalled \subseteq Questions
  /\ sweep \in [Replicas -> SweepStates]
  /\ crashes \in 0 .. MaxCrashes

(* A sweep cancels a session because a question of the session timed out,  *)
(* not because of one that was answered, or whose session ended, after it  *)
(* was listed.                                                             *)
CancelsForATimeout ==
  \A r \in Replicas :
    \A l \in ToCancel(r) : \E q \in l.notify : SessionOf[q] = l.s /\ question[q] = "timeout"

(* A timeout is announced only once it is final: the question has timed    *)
(* out, and an end of its session is on record or was until another call   *)
(* overwrote it.  (Whether the agent is stopped depends on the replica     *)
(* that runs it: another one cancels only the row.)                        *)
AnnouncedAfterTheEnd ==
  \A r \in Replicas :
    At(r, "send") => question[sweep[r].q] = "timeout" /\ SessionOf[sweep[r].q] \in ended

(* "ClaimTimeoutNotification atomically reserves a timed-out question for  *)
(* notification delivery": two replicas never announce the same timeout at *)
(* once, and nobody announces one that is recorded as announced, unless a  *)
(* send of this announcement has outlasted its claim.                      *)
OneNotifier ==
  \A r \in Replicas :
    At(r, "send") /\ sweep[r].q \notin stalled =>
      /\ ~notified[sweep[r].q]
      /\ \A other \in Replicas \ {r} : sweep[other].q # sweep[r].q

(* A timeout is never taken back, and neither is the record that it was    *)
(* announced, whatever answers, cancellations and other sweeps do.         *)
TimeoutIsFinal ==
  [][\A q \in Questions :
       question[q] = "timeout" => question'[q] = "timeout" /\ (notified[q] => notified'[q])]_vars

(* A human gets the extended timeout in full: a question times out only    *)
(* when it was escalated and the timeout it then got has passed too.       *)
ExtensionIsGranted ==
  [][\A q \in Questions :
       question'[q] = "timeout" /\ question[q] # "timeout" =>
         question[q] = "escalated" /\ expired[q]]_vars

(* "Tier 2: escalated questions whose extended timeout expired -> cancel   *)
(* session": silence ends a session.  A question does not stay open for    *)
(* ever while its session lives on; it is answered, cancelled or deleted,  *)
(* or its session ends.  Not so within the CHECK of the migrations, where  *)
(* no question is ever escalated.                                          *)
SilenceEndsSession ==
  \A q \in Questions :
    question[q] \in Open /\ Asker(q) \in Live ~>
      question[q] \notin Open \cup {"timeout"} \/ Asker(q) \in SessionEnded

(* A timeout ends its session: when the first cancellation failed, or the  *)
(* server was killed before it, a later sweep cancels the session,         *)
(* whatever answers wrote to its row meanwhile.                            *)
TimeoutEndsSession ==
  \A q \in Questions : question[q] = "timeout" /\ Asker(q) \in Live ~> Asker(q) \in SessionEnded

(* Every timeout is announced in the end, even when whoever had claimed it *)
(* was killed, and is recorded as announced.                               *)
TimeoutIsAnnounced ==
  \A q \in Questions : question[q] = "timeout" ~> notified[q]

(* The questions as QuestionLife sees them.  Whether the agent got the     *)
(* answer is no state of this module: the call lets go of it.              *)
NoRow == {"absent", "deleted"}
RowStatus == [q \in Questions |-> IF question[q] \in NoRow THEN "none" ELSE question[q]]
RowAsker == [q \in Questions |-> IF question[q] \in NoRow THEN None ELSE SessionOf[q]]
Held == {q \in Questions : answer[q] \in InHand}
Life == INSTANCE QuestionLife WITH
  status <- RowStatus, asker <- RowAsker, inHand <- Held, given <- {}

(* Sweeps of several replicas, beside answers and endings of sessions,     *)
(* keep what the repository promises of questions.                         *)
ImplementsLife == Life!Spec
=============================================================================
