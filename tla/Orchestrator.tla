---------------------------- MODULE Orchestrator ----------------------------
(***************************************************************************)
(* internal/orchestrator together with the handlers that call it: the life *)
(* of agent sessions from dispatch to their end.                           *)
(*                                                                         *)
(* What is persisted (task, session and question rows) survives a crash;   *)
(* the sessions map, the backends and the goroutines do not.  Each         *)
(* goroutine executes one handler at a time.  A handler is the sequence of *)
(* its repository and backend calls, and every call is a step of its own,  *)
(* so calls of different goroutines interleave.  Status changes take two   *)
(* steps, a read that validates and an unguarded write (see StatusStore).  *)
(***************************************************************************)
EXTENDS Lifecycle, Naturals

CONSTANTS
  Tasks, Sessions, Questions,  \* identities (UUIDs in the code)
  None,                        \* the nil pointer
  Requests,      \* goroutines of API requests, chat events and agent output
  Background,    \* which of the two background loops are running
  MaxAttempts,   \* maxAttempts of the RetryScheduler
  UserTargets,   \* statuses users move tasks to by hand on the board
  CallsMayFail,  \* whether database and Cancel/SendPrompt calls may fail
  StoreKeepsID,  \* whether Sessions.Create stores the id it is given
  MaxCrashes     \* bound: how often the process is killed and restarted

Procs == Requests \cup Background

ASSUME ConstantsAssumption ==
  /\ Background \subseteq {"staller", "retrier"}
  /\ Requests \cap {"staller", "retrier"} = {}
  /\ None \notin Tasks \cup Sessions \cup Questions
  /\ MaxAttempts \in Nat
  /\ MaxCrashes \in Nat
  /\ UserTargets \subseteq TaskStatuses
  /\ CallsMayFail \in BOOLEAN
  /\ StoreKeepsID \in BOOLEAN

VARIABLES
  taskStatus,  \* tasks.status
  status,      \* agent_sessions.status, "absent" while there is no row
  taskOf,      \* agent_sessions.task_id
  retries,     \* agent_sessions.retry_count
  retryDue,    \* agent_sessions.retry_at is set (its time is abstracted)
  question,    \* hitl_questions.status, "absent" or "deleted" without a row
  asker,       \* hitl_questions.agent_session_id
  tracked,     \* the keys of Orchestrator.sessions
  backend,     \* per session, its agent backend
  local,       \* per goroutine, where it is in its handler
  delivered,   \* history: how often an answer of the question reached its agent
  stranded,    \* history: tasks nobody may be at work on though in progress
  crashes      \* bound: crashes so far

rows == <<taskStatus, status, taskOf, retries, retryDue>>
hitl == <<question, asker>>
memory == <<tracked, backend>>
history == <<delivered, stranded>>
vars == <<rows, hitl, memory, local, history, crashes>>

BackendStates == {"none", "active", "stopped", "disposed"}

(* The handlers.  "cleanup" and "revert" are the error exits of a dispatch *)
(* before and after its claim of the task; "rollback" undoes an answer     *)
(* that the agent did not take.                                            *)
Kinds ==
  { "none", "dispatch", "cleanup", "revert", "cancel", "cancelUntracked",
    "cancelAgain", "cancelEnded", "complete", "fail", "failRetry", "stall",
    "ask", "answer", "rollback", "unavailable", "move" }

(* The call a goroutine executes next.                                     *)
Calls ==
  { "idle", "claimRetry", "load", "create", "taskRead", "taskWrite", "prepare",
    "sessionRead", "sessionWrite", "start", "register", "stop", "schedule",
    "cancelQuestions", "dispose", "reschedule", "open", "drop", "record",
    "resume", "prompt", "reopen" }

Idle ==
  [ at |-> "idle", kind |-> "none", s |-> None, task |-> None, q |-> None,
    n |-> 0, old |-> None, to |-> "backlog" ]

Init ==
  /\ taskStatus = [t \in Tasks |-> "backlog"]
  /\ status = [s \in Sessions |-> "absent"]
  /\ taskOf = [s \in Sessions |-> None]
  /\ retries = [s \in Sessions |-> 0]
  /\ retryDue = [s \in Sessions |-> FALSE]
  /\ question = [q \in Questions |-> "absent"]
  /\ asker = [q \in Questions |-> None]
  /\ tracked = {}
  /\ backend = [s \in Sessions |-> "none"]
  /\ local = [p \in Procs |-> Idle]
  /\ delivered = [q \in Questions |-> 0]
  /\ stranded = {}
  /\ crashes = 0

(* domain.NewID(): an id no row and no goroutine uses.                     *)
FreshSession(s) == status[s] = "absent" /\ \A p \in Procs : local[p].s # s
FreshQuestion(q) == question[q] = "absent" /\ \A p \in Procs : local[p].q # q

-----------------------------------------------------------------------------
(* Control flow of the handlers: the call that follows a call.             *)

GoTo(l, call) == [l EXCEPT !.at = call]
Turn(l, kind, call) == [l EXCEPT !.at = call, !.kind = kind]

(* The error return of dispatchTaskAttempt: the retry scheduler puts the   *)
(* session it wanted to retry back on its schedule.                        *)
DispatchFailed(l) == IF l.old = None THEN Idle ELSE GoTo(l, "reschedule")

SessionTarget(l) ==
  CASE l.kind \in {"dispatch", "answer"}                          -> "running"
    [] l.kind \in {"ask", "rollback"}                             -> "waiting_hitl"
    [] l.kind \in {"cancel", "cancelUntracked", "unavailable"}    -> "cancelled"
    [] l.kind = "complete"                                        -> "completed"
    [] OTHER                                                      -> "failed"

TaskTarget(l) ==
  CASE l.kind = "dispatch" -> "in_progress"
    [] l.kind = "complete" -> "review"
    [] l.kind = "move"     -> l.to
    [] OTHER               -> "backlog"

AfterSession(l) ==
  CASE l.kind = "dispatch"  -> GoTo(l, "start")
    [] l.kind = "cleanup"   -> DispatchFailed(l)
    [] l.kind = "failRetry" -> GoTo(l, "schedule")
    [] l.kind = "ask"       -> Idle
    [] l.kind = "answer"    -> GoTo(l, "prompt")
    [] l.kind = "rollback"  -> GoTo(l, "reopen")
    [] OTHER                -> GoTo(l, "taskRead")

(* Mutant: the error of UpdateStatus ends every handler.                   *)
SessionRefusedStrict(l) == Idle

(* UpdateStatus returned an error: failSession ignores it, the dispatch    *)
(* cleans up, the other handlers return.                                   *)
SessionRefused(l) ==
  CASE l.kind = "dispatch"                              -> Turn(l, "revert", "sessionRead")
    [] l.kind = "ask"                                   -> GoTo(l, "drop")
    [] l.kind \in {"answer", "rollback", "unavailable"} -> GoTo(l, "reopen")
    [] l.kind \in {"cleanup", "revert", "stall"}        -> AfterSession(l)
    [] OTHER                                            -> Idle

AfterTask(l) ==
  CASE l.kind = "dispatch" -> GoTo(l, "prepare")
    [] l.kind = "revert"   -> GoTo(l, "dispose")
    [] l.kind = "move"     -> Idle
    [] OTHER               -> GoTo(l, "cancelQuestions")

(* Tasks.Transition returned an error: only a dispatch minds.              *)
TaskRefused(l) ==
  IF l.kind = "dispatch" THEN Turn(l, "cleanup", "sessionRead") ELSE AfterTask(l)

AfterQuestions(l) ==
  IF l.kind \in {"cancel", "complete", "fail", "failRetry", "stall"}
  THEN GoTo(l, "dispose") ELSE Idle

AfterDispose(l) == IF l.kind = "revert" THEN DispatchFailed(l) ELSE Idle

At(p, call) == local[p].at = call
Continue(p, l) == local' = [local EXCEPT ![p] = l]
Start(p, l) == At(p, "idle") /\ Continue(p, l)

(* The outcomes of a database call; one that fails may have taken effect,  *)
(* with only its reply lost.  The agent's output is handled under the      *)
(* session's runtime context, which disposing of the session cancels.      *)
Outcomes(p) ==
  IF local[p].kind = "ask" /\ backend[local[p].s] = "disposed" THEN {FALSE}
  ELSE IF CallsMayFail THEN BOOLEAN
  ELSE {TRUE}

-----------------------------------------------------------------------------
(* Repository calls shared by the handlers.                                *)

(* agentRepository.UpdateStatus: GetByID and the entity's validation.      *)
SessionRead(p) ==
  /\ At(p, "sessionRead")
  /\ LET l == local[p] IN \E ok \in Outcomes(p) :
       Continue(p, IF ok /\ CanTransition(SessionEdges, status[l.s], SessionTarget(l))
                   THEN GoTo(l, "sessionWrite") ELSE SessionRefused(l))
  /\ UNCHANGED <<rows, hitl, memory, history, crashes>>

(* agentRepository.UpdateStatus: UPDATE ... WHERE id = $1.                 *)
SessionWrite(p) ==
  /\ At(p, "sessionWrite")
  /\ LET l == local[p]
         written == [status EXCEPT ![l.s] = SessionTarget(l)]
     IN \/ /\ TRUE \in Outcomes(p)
           /\ status' = written
           /\ Continue(p, AfterSession(l))
        \/ /\ FALSE \in Outcomes(p)
           /\ status' \in {status, written}
           /\ Continue(p, SessionRefused(l))
  /\ UNCHANGED <<taskStatus, taskOf, retries, retryDue, hitl, memory, history, crashes>>

(* taskRepository.Transition: GetByID and the entity's validation.  An     *)
(* ending that cannot read its task does not move it.                      *)
TaskRead(p) ==
  /\ At(p, "taskRead")
  /\ LET l == local[p] IN \E ok \in Outcomes(p) :
       /\ Continue(p, IF ok /\ CanTransition(TaskEdges, taskStatus[l.task], TaskTarget(l))
                      THEN GoTo(l, "taskWrite") ELSE TaskRefused(l))
       /\ stranded' = IF ~ok /\ l.kind \notin {"dispatch", "move"}
                         /\ taskStatus[l.task] = "in_progress"
                      THEN stranded \cup {l.task} ELSE stranded
  /\ UNCHANGED <<rows, hitl, memory, delivered, crashes>>

(* taskRepository.Transition: UPDATE ... WHERE id = $1.  A user who moves  *)
(* a task to in progress puts nobody to work on it.                        *)
TaskWrite(p) ==
  /\ At(p, "taskWrite")
  /\ LET l == local[p]
         written == [taskStatus EXCEPT ![l.task] = TaskTarget(l)]
     IN \/ /\ TRUE \in Outcomes(p)
           /\ taskStatus' = written
           /\ stranded' = IF l.kind = "move" /\ l.to = "in_progress"
                          THEN stranded \cup {l.task} ELSE stranded \ {l.task}
           /\ Continue(p, AfterTask(l))
        \/ /\ FALSE \in Outcomes(p)
           /\ taskStatus' \in {taskStatus, written}
           /\ stranded' = IF taskStatus'[l.task] = "in_progress"
                          THEN stranded \cup {l.task} ELSE stranded \ {l.task}
           /\ Continue(p, TaskRefused(l))
  /\ UNCHANGED <<status, taskOf, retries, retryDue, hitl, memory, delivered, crashes>>

(* Mutant: without the guard of the UPDATE.                                *)
CancelAllQuestions(p) ==
  /\ At(p, "cancelQuestions")
  /\ question' = [q \in Questions |->
                    IF asker[q] = local[p].s THEN "cancelled" ELSE question[q]]
  /\ Continue(p, AfterQuestions(local[p]))
  /\ UNCHANGED <<rows, asker, memory, history, crashes>>

(* CancelPendingBySession, one guarded UPDATE; its error is only logged.   *)
CancelQuestions(p) ==
  /\ At(p, "cancelQuestions")
  /\ LET l == local[p]
         open == {q \in Questions : asker[q] = l.s /\ question[q] \in {"pending", "escalated"}}
     IN /\ \E ok \in Outcomes(p) :
             question' = [q \in Questions |->
                            IF ok /\ q \in open THEN "cancelled" ELSE question[q]]
        /\ Continue(p, AfterQuestions(l))
  /\ UNCHANGED <<rows, asker, memory, history, crashes>>

-----------------------------------------------------------------------------
(* dispatchTaskAttempt.                                                    *)

DispatchTask(p, t, s) ==
  /\ p \in Requests
  /\ FreshSession(s)
  /\ Start(p, [Idle EXCEPT !.at = "load", !.kind = "dispatch", !.s = s, !.task = t])
  /\ UNCHANGED <<rows, hitl, memory, history, crashes>>

(* Steps 1 and 2: the task must be in the backlog, the project must load.  *)
LoadTask(p) ==
  /\ At(p, "load")
  /\ LET l == local[p] IN \E ok \in Outcomes(p) :
       Continue(p, IF ok /\ taskStatus[l.task] = "backlog"
                   THEN GoTo(l, "create") ELSE DispatchFailed(l))
  /\ UNCHANGED <<rows, hitl, memory, history, crashes>>

(* Step 3.  A repository that generates the id stores the row under        *)
(* another one than the orchestrator goes on with.                         *)
Insert(l, row) ==
  /\ IF StoreKeepsID THEN row = l.s ELSE FreshSession(row)
  /\ status' = [status EXCEPT ![row] = "pending"]
  /\ taskOf' = [taskOf EXCEPT ![row] = l.task]
  /\ retries' = [retries EXCEPT ![row] = l.n]

CreateSession(p) ==
  /\ At(p, "create")
  /\ LET l == local[p] IN
       \/ /\ TRUE \in Outcomes(p)
          /\ \E row \in Sessions : Insert(l, row)
          /\ Continue(p, GoTo(l, "taskRead"))
       \/ /\ FALSE \in Outcomes(p)
          /\ (\E row \in Sessions : Insert(l, row)) \/ UNCHANGED <<status, taskOf, retries>>
          /\ Continue(p, DispatchFailed(l))
  /\ UNCHANGED <<taskStatus, retryDue, hitl, memory, history, crashes>>

(* Mutant: an error after the claim of the task does not revert the task.  *)
PrepareWithoutRevert(p) ==
  /\ At(p, "prepare")
  /\ \E next \in {GoTo(local[p], "sessionRead"), Turn(local[p], "cleanup", "sessionRead")} :
       Continue(p, next)
  /\ UNCHANGED <<rows, hitl, memory, history, crashes>>

(* Steps 5 to 9: the row update of the link, the volume, the git branch    *)
(* and the backend's factory change no state kept here and may each fail.  *)
Prepare(p) ==
  /\ At(p, "prepare")
  /\ \E next \in {GoTo(local[p], "sessionRead"), Turn(local[p], "revert", "sessionRead")} :
       Continue(p, next)
  /\ UNCHANGED <<rows, hitl, memory, history, crashes>>

(* Step 11: StartSession, after which the agent is at work.                *)
StartBackend(p) ==
  /\ At(p, "start")
  /\ LET l == local[p] IN
       \/ /\ backend' = [backend EXCEPT ![l.s] = "active"]
          /\ Continue(p, GoTo(l, "register"))
       \/ /\ Continue(p, Turn(l, "revert", "sessionRead"))
          /\ UNCHANGED backend
  /\ UNCHANGED <<rows, hitl, tracked, history, crashes>>

(* Step 13: the session enters the map.                                    *)
Register(p) ==
  /\ At(p, "register")
  /\ tracked' = tracked \cup {local[p].s}
  /\ Continue(p, Idle)
  /\ UNCHANGED <<rows, hitl, backend, history, crashes>>

-----------------------------------------------------------------------------
(* The ways a session ends.                                                *)

(* CancelSession of a tracked session, or of what the row says otherwise.  *)
CancelSession(p, s) ==
  /\ p \in Requests
  /\ status[s] # "absent"
  /\ LET l == [Idle EXCEPT !.s = s, !.task = taskOf[s]] IN
       Start(p, CASE s \in tracked                         -> Turn(l, "cancel", "stop")
                  [] s \notin tracked /\ status[s] = "cancelled"
                                                           -> Turn(l, "cancelAgain", "taskRead")
                  [] s \notin tracked /\ status[s] \in {"completed", "failed"}
                                                           -> Turn(l, "cancelEnded", "cancelQuestions")
                  [] OTHER                                 -> Turn(l, "cancelUntracked", "sessionRead"))
  /\ UNCHANGED <<rows, hitl, memory, history, crashes>>

(* Mutant: one retry too many.                                             *)
HandleSessionCompleteOnceMore(p, s, exitCode) ==
  /\ p \in Requests
  /\ s \in tracked
  /\ LET l == [Idle EXCEPT !.at = "sessionRead", !.s = s, !.task = taskOf[s], !.n = retries[s]]
         kind == IF exitCode = 0 THEN "complete"
                 ELSE IF retries[s] <= MaxAttempts THEN "failRetry" ELSE "fail"
     IN Start(p, [l EXCEPT !.kind = kind])
  /\ UNCHANGED <<rows, hitl, memory, history, crashes>>

(* HandleSessionComplete, when the session's container has exited: the     *)
(* lookup, GetByID and the decision to retry.                              *)
HandleSessionComplete(p, s, exitCode) ==
  /\ p \in Requests
  /\ s \in tracked
  /\ LET l == [Idle EXCEPT !.at = "sessionRead", !.s = s, !.task = taskOf[s], !.n = retries[s]]
         kind == IF exitCode = 0 THEN "complete"
                 ELSE IF retries[s] < MaxAttempts THEN "failRetry" ELSE "fail"
     IN Start(p, [l EXCEPT !.kind = kind])
  /\ UNCHANGED <<rows, hitl, memory, history, crashes>>

(* One session of a sweep of the StallDetector.  How long the agent has    *)
(* been silent is not modelled: any tracked session may be found stalled.  *)
HandleStall(s) ==
  /\ "staller" \in Background
  /\ s \in tracked
  /\ Start("staller", [Idle EXCEPT !.at = "stop", !.kind = "stall", !.s = s, !.task = taskOf[s]])
  /\ UNCHANGED <<rows, hitl, memory, history, crashes>>

(* backend.Cancel; its error is only logged.                               *)
StopBackend(p) ==
  /\ At(p, "stop")
  /\ LET l == local[p] IN
       /\ \E ok \in Outcomes(p) :
            backend' = [backend EXCEPT ![l.s] = IF ok /\ @ = "active" THEN "stopped" ELSE @]
       /\ Continue(p, GoTo(l, "sessionRead"))
  /\ UNCHANGED <<rows, hitl, tracked, history, crashes>>

(* agentRepository.ScheduleRetry, which checks nothing of the row.         *)
SetRetryOf(s, n, due) ==
  retries' = [retries EXCEPT ![s] = n] /\ retryDue' = [retryDue EXCEPT ![s] = due]

(* HandleSessionComplete schedules the retry of a failed session.          *)
ScheduleRetry(p) ==
  /\ At(p, "schedule")
  /\ LET l == local[p] IN
       \/ /\ SetRetryOf(l.s, l.n + 1, TRUE)
          /\ \/ TRUE \in Outcomes(p) /\ Continue(p, GoTo(l, "taskRead"))
             \/ FALSE \in Outcomes(p) /\ Continue(p, Idle)
       \/ /\ FALSE \in Outcomes(p)
          /\ Continue(p, Idle)
          /\ UNCHANGED <<retries, retryDue>>
  /\ UNCHANGED <<taskStatus, status, taskOf, hitl, memory, history, crashes>>

(* Mutant: a backend that was already cancelled is not disposed of.        *)
DisposeActiveOnly(p) ==
  /\ At(p, "dispose")
  /\ LET l == local[p] IN
       /\ backend' = [backend EXCEPT ![l.s] = IF @ = "active" THEN "disposed" ELSE @]
       /\ tracked' = IF l.kind = "revert" THEN tracked ELSE tracked \ {l.s}
       /\ Continue(p, AfterDispose(l))
  /\ UNCHANGED <<rows, hitl, history, crashes>>

(* disposeSession; a dispatch that gives up disposes of its backend only.  *)
Dispose(p) ==
  /\ At(p, "dispose")
  /\ LET l == local[p] IN
       /\ backend' = [backend EXCEPT ![l.s] = IF @ = "none" THEN @ ELSE "disposed"]
       /\ tracked' = IF l.kind = "revert" THEN tracked ELSE tracked \ {l.s}
       /\ Continue(p, AfterDispose(l))
  /\ UNCHANGED <<rows, hitl, history, crashes>>

-----------------------------------------------------------------------------
(* RetryScheduler: one session of a sweep at a time.                       *)

RetrySession(old, s) ==
  /\ "retrier" \in Background
  /\ retryDue[old]
  /\ FreshSession(s)
  /\ Start("retrier", [Idle EXCEPT !.at = "claimRetry", !.kind = "dispatch", !.s = s,
                                   !.task = taskOf[old], !.n = retries[old], !.old = old])
  /\ UNCHANGED <<rows, hitl, memory, history, crashes>>

(* ScheduleRetry(count, nil) claims the session, ScheduleRetry(count, at)  *)
(* gives it back after a failed dispatch.                                  *)
SetRetry(p, due, next) ==
  LET l == local[p] IN
    \/ /\ SetRetryOf(l.old, l.n, due)
       /\ \/ TRUE \in Outcomes(p) /\ Continue(p, next)
          \/ FALSE \in Outcomes(p) /\ Continue(p, Idle)
    \/ /\ FALSE \in Outcomes(p)
       /\ Continue(p, Idle)
       /\ UNCHANGED <<retries, retryDue>>

ClaimRetry(p) ==
  /\ At(p, "claimRetry")
  /\ SetRetry(p, FALSE, GoTo(local[p], "load"))
  /\ UNCHANGED <<taskStatus, status, taskOf, hitl, memory, history, crashes>>

Reschedule(p) ==
  /\ At(p, "reschedule")
  /\ SetRetry(p, TRUE, Idle)
  /\ UNCHANGED <<taskStatus, status, taskOf, hitl, memory, history, crashes>>

-----------------------------------------------------------------------------
(* Questions: HandleAskHuman, and answerQuestion with SendHITLAnswer.      *)

(* The agent calls its ask_human tool.                                     *)
HandleAskHuman(p, s, q) ==
  /\ p \in Requests
  /\ backend[s] = "active"
  /\ FreshQuestion(q)
  /\ Start(p, [Idle EXCEPT !.at = "open", !.kind = "ask", !.s = s, !.q = q])
  /\ UNCHANGED <<rows, hitl, memory, history, crashes>>

OpenQuestion(p) ==
  /\ At(p, "open")
  /\ LET l == local[p] IN
       \/ /\ question' = [question EXCEPT ![l.q] = "pending"]
          /\ asker' = [asker EXCEPT ![l.q] = l.s]
          /\ \/ TRUE \in Outcomes(p) /\ Continue(p, GoTo(l, "sessionRead"))
             \/ FALSE \in Outcomes(p) /\ Continue(p, Idle)
       \/ /\ FALSE \in Outcomes(p)
          /\ Continue(p, Idle)
          /\ UNCHANGED hitl
  /\ UNCHANGED <<rows, memory, history, crashes>>

(* The session could not wait for an answer: Delete the question.          *)
DropQuestion(p) ==
  /\ At(p, "drop")
  /\ \E ok \in Outcomes(p) :
       question' = [question EXCEPT ![local[p].q] = IF ok THEN "deleted" ELSE @]
  /\ Continue(p, Idle)
  /\ UNCHANGED <<rows, asker, memory, history, crashes>>

(* AnswerQuestion looks the question up: only a pending one is answered.   *)
AnswerQuestion(p, q) ==
  /\ p \in Requests
  /\ question[q] = "pending"
  /\ Start(p, [Idle EXCEPT !.at = "record", !.kind = "answer", !.q = q, !.s = asker[q],
                           !.task = taskOf[asker[q]]])
  /\ UNCHANGED <<rows, hitl, memory, history, crashes>>

(* Mutant: without the guard of the UPDATE.                                *)
RecordAnyAnswer(p) ==
  /\ At(p, "record")
  /\ question' = [question EXCEPT ![local[p].q] = "answered"]
  /\ Continue(p, GoTo(local[p], "resume"))
  /\ UNCHANGED <<rows, asker, memory, history, crashes>>

(* Answer: UPDATE ... WHERE status IN ('pending', 'escalated').  When it   *)
(* fails the handler returns, even if the answer is on record by then.     *)
RecordAnswer(p) ==
  /\ At(p, "record")
  /\ LET l == local[p] IN
       \/ /\ question[l.q] \in {"pending", "escalated"}
          /\ question' = [question EXCEPT ![l.q] = "answered"]
          /\ \/ TRUE \in Outcomes(p) /\ Continue(p, GoTo(l, "resume"))
             \/ FALSE \in Outcomes(p) /\ Continue(p, Idle)
       \/ /\ FALSE \in Outcomes(p) \/ question[l.q] \notin {"pending", "escalated"}
          /\ Continue(p, Idle)
          /\ UNCHANGED question
  /\ UNCHANGED <<rows, asker, memory, history, crashes>>

(* GetQuestion and the lookup of SendHITLAnswer.  The API takes a session  *)
(* that is no longer available for an answered question.                   *)
ResumeSession(p) ==
  /\ At(p, "resume")
  /\ LET l == local[p] IN \E ok \in Outcomes(p) :
       Continue(p, IF ~ok \/ question[l.q] = "deleted" THEN GoTo(l, "reopen")
                   ELSE IF l.s \in tracked THEN GoTo(l, "sessionRead")
                   ELSE IF status[l.s] = "waiting_hitl" THEN Turn(l, "unavailable", "sessionRead")
                   ELSE Idle)
  /\ UNCHANGED <<rows, hitl, memory, history, crashes>>

(* backend.SendPrompt: an agent that was stopped refuses it.               *)
SendPrompt(p) ==
  /\ At(p, "prompt")
  /\ LET l == local[p] IN
       \/ /\ backend[l.s] = "active"
          /\ delivered' = [delivered EXCEPT ![l.q] = @ + 1]
          /\ Continue(p, Idle)
       \/ /\ backend[l.s] # "active" \/ FALSE \in Outcomes(p)
          /\ Continue(p, Turn(l, "rollback", "sessionRead"))
          /\ UNCHANGED delivered
  /\ UNCHANGED <<rows, hitl, memory, stranded, crashes>>

(* ResetQuestion: UPDATE ... WHERE status = 'answered'.                    *)
ReopenQuestion(p) ==
  /\ At(p, "reopen")
  /\ \E ok \in Outcomes(p) :
       question' = [question EXCEPT ![local[p].q] =
                      IF ok /\ @ = "answered" THEN "pending" ELSE @]
  /\ Continue(p, Idle)
  /\ UNCHANGED <<rows, asker, memory, history, crashes>>

-----------------------------------------------------------------------------
(* A user drags a task to another column of the board.                     *)
MoveTask(p, t, to) ==
  /\ p \in Requests
  /\ Start(p, [Idle EXCEPT !.at = "taskRead", !.kind = "move", !.task = t, !.to = to])
  /\ UNCHANGED <<rows, hitl, memory, history, crashes>>

(* The process is killed and started again: main() loads no session.       *)
Crash ==
  /\ crashes < MaxCrashes
  /\ crashes' = crashes + 1
  /\ stranded' = stranded \cup {t \in Tasks : taskStatus[t] = "in_progress"}
  /\ tracked' = {}
  /\ backend' = [s \in Sessions |-> "none"]
  /\ local' = [p \in Procs |-> Idle]
  /\ UNCHANGED <<rows, hitl, delivered>>

(* A new handler.                                                          *)
Arrive ==
  \/ \E p \in Requests :
       \/ \E t \in Tasks, s \in Sessions : DispatchTask(p, t, s)
       \/ \E s \in Sessions : CancelSession(p, s)
       \/ \E s \in Sessions, exitCode \in {0, 1} : HandleSessionComplete(p, s, exitCode)
       \/ \E s \in Sessions, q \in Questions : HandleAskHuman(p, s, q)
       \/ \E q \in Questions : AnswerQuestion(p, q)
       \/ \E t \in Tasks, to \in UserTargets : MoveTask(p, t, to)
  \/ \E s \in Sessions : HandleStall(s)
  \/ \E old, s \in Sessions : RetrySession(old, s)

(* The next call of a handler under way.                                   *)
Step(p) ==
  \/ SessionRead(p) \/ SessionWrite(p) \/ TaskRead(p) \/ TaskWrite(p)
  \/ LoadTask(p) \/ CreateSession(p) \/ Prepare(p) \/ StartBackend(p) \/ Register(p)
  \/ StopBackend(p) \/ ScheduleRetry(p) \/ CancelQuestions(p) \/ Dispose(p)
  \/ ClaimRetry(p) \/ Reschedule(p)
  \/ OpenQuestion(p) \/ DropQuestion(p)
  \/ RecordAnswer(p) \/ ResumeSession(p) \/ SendPrompt(p) \/ ReopenQuestion(p)

Next == Arrive \/ (\E p \in Procs : Step(p)) \/ Crash

Spec == Init /\ [][Next]_vars

(* Goroutines go on with their handlers, and a sweep of the StallDetector  *)
(* visits every session whose agent, once stopped, sends nothing any more. *)
Fairness ==
  /\ \A p \in Procs : WF_vars(Step(p))
  /\ \A s \in Sessions : SF_vars(backend[s] # "active" /\ HandleStall(s))

FairSpec == Spec /\ Fairness

-----------------------------------------------------------------------------
Locals ==
  [ at : Calls, kind : Kinds, s : Sessions \cup {None}, task : Tasks \cup {None},
    q : Questions \cup {None}, n : Nat, old : Sessions \cup {None}, to : TaskStatuses ]

(* Which handlers make which calls.                                        *)
Makes(kind, call) ==
  /\ call = "idle" <=> kind = "none"
  /\ call \in {"claimRetry", "load", "create", "prepare", "start", "register"}
       => kind = "dispatch"
  /\ call \in {"sessionRead", "sessionWrite"}
       => kind \notin {"move", "cancelAgain", "cancelEnded"}
  /\ call \in {"taskRead", "taskWrite"}
       => kind \notin {"cleanup", "cancelEnded", "ask", "answer", "rollback"}
  /\ call = "stop" => kind \in {"cancel", "stall"}
  /\ call = "schedule" => kind = "failRetry"
  /\ call = "cancelQuestions"
       => kind \notin {"dispatch", "cleanup", "revert", "ask", "answer", "rollback", "move"}
  /\ call = "dispose"
       => kind \in {"revert", "cancel", "complete", "fail", "failRetry", "stall"}
  /\ call = "reschedule" => kind \in {"dispatch", "cleanup", "revert"}
  /\ call \in {"open", "drop"} => kind = "ask"
  /\ call \in {"record", "resume", "prompt"} => kind = "answer"
  /\ call = "reopen" => kind \in {"answer", "rollback", "unavailable"}

(* The columns, the map, the backends and the goroutines' variables keep   *)
(* their types, every question row has a session, every goroutine is at a  *)
(* call its handler makes, and all handlers but a move have a session.     *)
TypeOK ==
  /\ taskStatus \in [Tasks -> TaskStatuses]
  /\ status \in [Sessions -> SessionStatuses \cup {"absent"}]
  /\ taskOf \in [Sessions -> Tasks \cup {None}]
  /\ retries \in [Sessions -> Nat]
  /\ retryDue \in [Sessions -> BOOLEAN]
  /\ question \in [Questions -> QuestionStatuses \cup {"absent", "deleted"}]
  /\ asker \in [Questions -> Sessions \cup {None}]
  /\ \A q \in Questions : question[q] \notin {"absent", "deleted"} => asker[q] \in Sessions
  /\ tracked \in SUBSET Sessions
  /\ backend \in [Sessions -> BackendStates]
  /\ local \in [Procs -> Locals]
  /\ delivered \in [Questions -> Nat]
  /\ stranded \subseteq Tasks \cup {None}
  /\ crashes \in 0..MaxCrashes
  /\ \A p \in Procs :
       /\ Makes(local[p].kind, local[p].at)
       /\ local[p].kind \notin {"none", "move"} => local[p].s \in Sessions

(* No agent is left behind: a backend that was started and not disposed of *)
(* is reachable through the sessions map, or its dispatch is about to put  *)
(* it there.  The map is the only way to a backend, so Cancel, the stall   *)
(* detector and Dispose depend on it.                                      *)
NoOrphanBackend ==
  \A s \in Sessions :
    backend[s] \in {"active", "stopped"} =>
      s \in tracked \/ \E p \in Procs : At(p, "register") /\ local[p].s = s

(* The goroutine's dispatch has claimed the task and has neither handed it *)
(* to a tracked session nor put it back.                                   *)
Claims(p, t) ==
  /\ local[p].task = t
  /\ \/ local[p].kind = "dispatch"
        /\ local[p].at \in {"prepare", "sessionRead", "sessionWrite", "start", "register"}
     \/ local[p].kind = "revert"
        /\ local[p].at \in {"sessionRead", "sessionWrite", "taskRead", "taskWrite"}

(* No task is stuck in progress: somebody is at work on it, a tracked      *)
(* session of that task or a dispatch that has claimed it, unless, since   *)
(* its last claim, the very call that moves it failed, the process was     *)
(* killed or a user moved it there.  All other errors of a dispatch or of  *)
(* an ending leave no task behind.                                         *)
InProgressIsOwned ==
  \A t \in Tasks \ stranded :
    taskStatus[t] = "in_progress" =>
      \/ \E s \in tracked : taskOf[s] = t
      \/ \E p \in Procs : Claims(p, t)

(* An answer reaches the agent at most once, however many humans answer    *)
(* the question at the same time and however often a failed delivery       *)
(* reopens it.                                                             *)
AnswerOnce == \A q \in Questions : delivered[q] <= 1

(* Once the agent has its answer nobody is asked again.                    *)
AnsweredForGood ==
  [][\A q \in Questions :
       delivered[q] > 0 => question'[q] \in {"answered", "deleted"}]_vars

(* The handlers that have an answer at hand, and where they do: goroutine  *)
(* p has recorded an answer of q and will deliver it or take it back.      *)
Answers == {"answer", "rollback", "unavailable"}
Holds(p, q) == local[p].q = q /\ local[p].kind \in Answers /\ local[p].at # "record"

(* The questions as QuestionLife sees them.                                *)
NoRow == {"absent", "deleted"}
RowStatus == [q \in Questions |-> IF question[q] \in NoRow THEN "none" ELSE question[q]]
RowAsker == [q \in Questions |-> IF question[q] \in NoRow THEN None ELSE asker[q]]
Held == {q \in Questions : \E p \in Procs : Holds(p, q)}
Given == {q \in Questions : delivered[q] > 0}
Life == INSTANCE QuestionLife WITH
  status <- RowStatus, asker <- RowAsker, inHand <- Held, given <- Given

(* The handlers of concurrent humans, agents and endings, with the calls   *)
(* that fail between them, keep what the repository promises of questions. *)
ImplementsLife == Life!Spec

(* A chain of retries never exceeds maxAttempts, though the claim of a     *)
(* retry and its reschedule write back counts read earlier.                *)
RetryBudget ==
  /\ \A s \in Sessions : retries[s] <= MaxAttempts
  /\ \A p \in Procs : local[p].kind = "failRetry" => local[p].n < MaxAttempts

(* A session whose backend was stopped but whose handler returned early    *)
(* (CancelSession returns when the row cannot be updated) leaves the map   *)
(* in the end: the stall detector collects it even if every call fails.    *)
StoppedIsCollected ==
  \A s \in Sessions : s \in tracked /\ backend[s] = "stopped" ~> s \notin tracked

-----------------------------------------------------------------------------
(* "Create a pending agent session": past this step of a dispatch, the     *)
(* session it goes on with has a row.                                      *)
DispatchedHasRow ==
  \A p \in Procs :
    local[p].kind = "dispatch" /\ local[p].at \in {"prepare", "sessionRead", "start"}
      => status[local[p].s] # "absent"
=============================================================================
