------------------------- MODULE OrchestratorProofs -------------------------
(***************************************************************************)
(* Proofs about Orchestrator for every number of tasks, sessions,          *)
(* questions and goroutines, every retry budget and any number of crashes. *)
(***************************************************************************)
EXTENDS Orchestrator, TLAPS

(* The variables of goroutine p are well formed, and it is at a call that  *)
(* its handler makes.                                                      *)
WellFormed(l) ==
  /\ l \in Locals
  /\ Makes(l.kind, l.at)
  /\ l.kind \notin {"none", "move"} => l.s \in Sessions

(* The parts of TypeOK that concern the database and the memory.           *)
StoreTypeOK ==
  /\ taskStatus \in [Tasks -> TaskStatuses]
  /\ status \in [Sessions -> SessionStatuses \cup {"absent"}]
  /\ taskOf \in [Sessions -> Tasks \cup {None}]
  /\ retries \in [Sessions -> Nat]
  /\ retryDue \in [Sessions -> BOOLEAN]
  /\ question \in [Questions -> QuestionStatuses \cup {"absent", "deleted"}]
  /\ asker \in [Questions -> Sessions \cup {None}]
  /\ \A q \in Questions : question[q] \notin {"absent", "deleted"} => asker[q] \in Sessions
  /\ tracked \in SUBSET Sessions
  /\ backend \in [Sessions -> BackendStates]
  /\ delivered \in [Questions -> Nat]
  /\ stranded \subseteq Tasks \cup {None}
  /\ crashes \in 0..MaxCrashes

LocalTypeOK == local \in [Procs -> Locals] /\ \A p \in Procs : WellFormed(local[p])

LEMMA TypeParts == TypeOK <=> StoreTypeOK /\ LocalTypeOK
BY DEF TypeOK, StoreTypeOK, LocalTypeOK, WellFormed

LEMMA TypePartsNext == TypeOK' <=> StoreTypeOK' /\ LocalTypeOK'
BY DEF TypeOK, StoreTypeOK, LocalTypeOK, WellFormed

LEMMA IdleWellFormed == WellFormed(Idle)
BY DEF WellFormed, Idle, Locals, Makes, Calls, Kinds, TaskStatuses

(* GoTo and Turn change nothing but the call and the handler.              *)
LEMMA GoToFields ==
  ASSUME NEW l \in Locals, NEW call \in Calls
  PROVE  /\ GoTo(l, call) \in Locals
         /\ GoTo(l, call).at = call
         /\ GoTo(l, call).kind = l.kind
         /\ GoTo(l, call).s = l.s
         /\ GoTo(l, call).n = l.n
         /\ GoTo(l, call).q = l.q
BY DEF GoTo, Locals

LEMMA TurnFields ==
  ASSUME NEW l \in Locals, NEW call \in Calls, NEW kind \in Kinds
  PROVE  /\ Turn(l, kind, call) \in Locals
         /\ Turn(l, kind, call).at = call
         /\ Turn(l, kind, call).kind = kind
         /\ Turn(l, kind, call).s = l.s
         /\ Turn(l, kind, call).n = l.n
         /\ Turn(l, kind, call).q = l.q
BY DEF Turn, Locals

LEMMA ContinueType ==
  ASSUME LocalTypeOK, NEW p \in Procs, NEW l, WellFormed(l), Continue(p, l)
  PROVE  LocalTypeOK'
BY DEF LocalTypeOK, Continue, WellFormed

-----------------------------------------------------------------------------
(* The control flow operators lead from a call of a handler to the next    *)
(* call of the same handler, or of one it turns into.                      *)

(* The calls that a call can lead to, but for the one to Register.         *)
NextCalls == Calls \ {"register", "open", "record"}

(* m is what l may have become after one call: a handler keeps its session *)
(* and its retry count until it returns, no handler turns into a retry or  *)
(* into an answer, only StartBackend leads to Register, and the first call *)
(* of a question's handlers is not reached again.                          *)
Follows(l, m) ==
  /\ WellFormed(m)
  /\ m # Idle => m.s = l.s /\ m.n = l.n /\ m.q = l.q
  /\ m.kind = "failRetry" => l.kind = "failRetry"
  /\ m.kind \in Answers => l.kind \in Answers
  /\ m.at = "register" => l.at = "start"
  /\ m.at \notin {"open", "record"}

LEMMA GoToFollows ==
  ASSUME NEW l, WellFormed(l), NEW call \in NextCalls, Makes(l.kind, call)
  PROVE  Follows(l, GoTo(l, call))
<1>1. l \in Locals /\ call \in Calls
  BY DEF WellFormed, NextCalls
<1> DEFINE m == GoTo(l, call)
<1>2. /\ m \in Locals
      /\ m.at = call /\ m.kind = l.kind /\ m.s = l.s /\ m.n = l.n /\ m.q = l.q
  BY <1>1, GoToFields
<1>3. QED
  BY <1>2 DEF Follows, WellFormed, NextCalls

LEMMA TurnFollows ==
  ASSUME NEW l, WellFormed(l), NEW call \in NextCalls,
         NEW kind \in Kinds \ {"failRetry"}, Makes(kind, call),
         l.kind \notin {"none", "move"}, kind \in Answers => l.kind \in Answers
  PROVE  Follows(l, Turn(l, kind, call))
<1>1. l \in Locals /\ call \in Calls /\ kind \in Kinds
  BY DEF WellFormed, NextCalls
<1> DEFINE m == Turn(l, kind, call)
<1>2. /\ m \in Locals
      /\ m.at = call /\ m.kind = kind /\ m.s = l.s /\ m.n = l.n /\ m.q = l.q
  BY <1>1, TurnFields
<1>3. QED
  BY <1>2 DEF Follows, WellFormed, NextCalls

LEMMA IdleFollows == ASSUME NEW l, WellFormed(l) PROVE Follows(l, Idle)
<1>1. Idle.kind = "none" /\ Idle.at = "idle"
  BY DEF Idle
<1>2. QED
  BY <1>1, IdleWellFormed DEF Follows, Answers

LEMMA DispatchFailedFollows ==
  ASSUME NEW l, WellFormed(l), l.kind \in {"dispatch", "cleanup", "revert"}
  PROVE  Follows(l, DispatchFailed(l))
<1>1. "reschedule" \in NextCalls /\ Makes(l.kind, "reschedule")
  BY DEF Calls, NextCalls, Makes
<1>2. QED
  BY <1>1, GoToFollows, IdleFollows DEF DispatchFailed

LEMMA AfterSessionFollows ==
  ASSUME NEW l, WellFormed(l), l.at \in {"sessionRead", "sessionWrite"}
  PROVE  Follows(l, AfterSession(l))
<1>1. {"start", "schedule", "prompt", "reopen", "taskRead"} \subseteq NextCalls
  BY DEF Calls, NextCalls
<1>2. l.kind \notin {"none", "move", "cancelAgain", "cancelEnded"}
  BY DEF WellFormed, Makes
<1>3. CASE l.kind = "dispatch"
  BY <1>1, <1>3, GoToFollows DEF AfterSession, Makes
<1>4. CASE l.kind = "cleanup"
  BY <1>4, DispatchFailedFollows DEF AfterSession
<1>5. CASE l.kind = "failRetry"
  BY <1>1, <1>5, GoToFollows DEF AfterSession, Makes
<1>6. CASE l.kind = "ask"
  BY <1>6, IdleFollows DEF AfterSession
<1>7. CASE l.kind = "answer"
  BY <1>1, <1>7, GoToFollows DEF AfterSession, Makes
<1>8. CASE l.kind = "rollback"
  BY <1>1, <1>8, GoToFollows DEF AfterSession, Makes
<1>9. CASE l.kind \notin {"dispatch", "cleanup", "failRetry", "ask", "answer", "rollback"}
  <2>1. AfterSession(l) = GoTo(l, "taskRead")
    BY <1>9 DEF AfterSession
  <2>2. Makes(l.kind, "taskRead")
    BY <1>2, <1>9 DEF Makes
  <2>3. QED
    BY <1>1, <2>1, <2>2, GoToFollows
<1>10. QED
  BY <1>3, <1>4, <1>5, <1>6, <1>7, <1>8, <1>9

LEMMA SessionRefusedFollows ==
  ASSUME NEW l, WellFormed(l), l.at \in {"sessionRead", "sessionWrite"}
  PROVE  Follows(l, SessionRefused(l))
<1>1. {"sessionRead", "drop", "reopen"} \subseteq NextCalls
  BY DEF Calls, NextCalls
<1>2. CASE l.kind = "dispatch"
  <2>1. Makes("revert", "sessionRead") /\ "revert" \in Kinds \ {"failRetry"}
    BY DEF Makes, Kinds
  <2>2. QED
    BY <1>1, <1>2, <2>1, TurnFollows DEF SessionRefused, WellFormed, Answers
<1>3. CASE l.kind = "ask"
  BY <1>1, <1>3, GoToFollows DEF SessionRefused, Makes
<1>4. CASE l.kind \in {"answer", "rollback", "unavailable"}
  <2>1. SessionRefused(l) = GoTo(l, "reopen") /\ Makes(l.kind, "reopen")
    BY <1>4 DEF SessionRefused, Makes
  <2>2. QED
    BY <1>1, <2>1, GoToFollows
<1>5. CASE l.kind \in {"cleanup", "revert", "stall"}
  BY <1>5, AfterSessionFollows DEF SessionRefused
<1>6. CASE l.kind \notin {"dispatch", "ask", "answer", "rollback", "unavailable",
                         "cleanup", "revert", "stall"}
  BY <1>6, IdleFollows DEF SessionRefused
<1>7. QED
  BY <1>2, <1>3, <1>4, <1>5, <1>6

LEMMA AfterTaskFollows ==
  ASSUME NEW l, WellFormed(l), l.at \in {"taskRead", "taskWrite"}
  PROVE  Follows(l, AfterTask(l))
<1>1. {"prepare", "dispose", "cancelQuestions"} \subseteq NextCalls
  BY DEF Calls, NextCalls
<1>2. l.kind \notin {"none", "cleanup", "cancelEnded", "ask", "answer", "rollback"}
  BY DEF WellFormed, Makes
<1>3. CASE l.kind = "dispatch"
  BY <1>1, <1>3, GoToFollows DEF AfterTask, Makes
<1>4. CASE l.kind = "revert"
  BY <1>1, <1>4, GoToFollows DEF AfterTask, Makes
<1>5. CASE l.kind = "move"
  BY <1>5, IdleFollows DEF AfterTask
<1>6. CASE l.kind \notin {"dispatch", "revert", "move"}
  <2>1. AfterTask(l) = GoTo(l, "cancelQuestions")
    BY <1>6 DEF AfterTask
  <2>2. Makes(l.kind, "cancelQuestions")
    BY <1>2, <1>6 DEF Makes
  <2>3. QED
    BY <1>1, <2>1, <2>2, GoToFollows
<1>7. QED
  BY <1>3, <1>4, <1>5, <1>6

LEMMA TaskRefusedFollows ==
  ASSUME NEW l, WellFormed(l), l.at \in {"taskRead", "taskWrite"}
  PROVE  Follows(l, TaskRefused(l))
<1>1. CASE l.kind = "dispatch"
  <2>1. /\ "sessionRead" \in NextCalls /\ "cleanup" \in Kinds \ {"failRetry"}
        /\ Makes("cleanup", "sessionRead")
    BY DEF Calls, NextCalls, Kinds, Makes
  <2>2. QED
    BY <1>1, <2>1, TurnFollows DEF TaskRefused, WellFormed, Answers
<1>2. QED
  BY <1>1, AfterTaskFollows DEF TaskRefused

LEMMA AfterQuestionsFollows ==
  ASSUME NEW l, WellFormed(l), l.at = "cancelQuestions"
  PROVE  Follows(l, AfterQuestions(l))
<1>1. CASE l.kind \in {"cancel", "complete", "fail", "failRetry", "stall"}
  <2>1. "dispose" \in NextCalls /\ Makes(l.kind, "dispose")
    BY <1>1 DEF Calls, NextCalls, Makes
  <2>2. QED
    BY <1>1, <2>1, GoToFollows DEF AfterQuestions
<1>2. QED
  BY <1>1, IdleFollows DEF AfterQuestions

LEMMA AfterDisposeFollows ==
  ASSUME NEW l, WellFormed(l), l.at = "dispose"
  PROVE  Follows(l, AfterDispose(l))
BY DispatchFailedFollows, IdleFollows DEF AfterDispose

(* Every call of a handler under way moves its goroutine on as the control *)
(* flow says.                                                              *)
LEMMA StepFollows ==
  ASSUME TypeOK, NEW p \in Procs, Step(p)
  PROVE  \E m : Follows(local[p], m) /\ Continue(p, m)
<1> DEFINE l == local[p]
<1>1. WellFormed(l)
  BY TypeParts DEF LocalTypeOK
<1>2. ASSUME NEW call \in NextCalls, Makes(l.kind, call)
      PROVE  Follows(l, GoTo(l, call))
  BY <1>1, <1>2, GoToFollows
<1>3. Follows(l, Idle)
  BY <1>1, IdleFollows
<1>4. l.kind \notin {"none", "move"} => l.s \in Sessions
  BY <1>1 DEF WellFormed
<1>5. Makes(l.kind, l.at)
  BY <1>1 DEF WellFormed
<1>6. l.kind \in {"dispatch", "cleanup", "revert"} => Follows(l, DispatchFailed(l))
  BY <1>1, DispatchFailedFollows
<1>7. ASSUME NEW call \in NextCalls, NEW kind \in Kinds \ {"failRetry"},
             Makes(kind, call), l.kind \in {"dispatch", "answer"},
             kind \in Answers => l.kind = "answer"
      PROVE  Follows(l, Turn(l, kind, call))
  BY <1>1, <1>7, TurnFollows DEF Answers
<1> HIDE DEF l
<1> USE DEF At
<1>10. CASE SessionRead(p)
  <2>1. l.at = "sessionRead"
    BY <1>10 DEF SessionRead, l
  <2>2. "sessionWrite" \in NextCalls /\ Makes(l.kind, "sessionWrite")
    BY <1>5, <2>1 DEF Makes, Calls, NextCalls
  <2>3. Follows(l, GoTo(l, "sessionWrite")) /\ Follows(l, SessionRefused(l))
    BY <1>1, <1>2, <2>1, <2>2, SessionRefusedFollows
  <2>4. QED
    BY <1>10, <2>3 DEF SessionRead, l
<1>11. CASE SessionWrite(p)
  <2>1. l.at = "sessionWrite"
    BY <1>11 DEF SessionWrite, l
  <2>2. Follows(l, AfterSession(l)) /\ Follows(l, SessionRefused(l))
    BY <1>1, <2>1, AfterSessionFollows, SessionRefusedFollows
  <2>3. QED
    BY <1>11, <2>2 DEF SessionWrite, l
<1>12. CASE TaskRead(p)
  <2>1. l.at = "taskRead"
    BY <1>12 DEF TaskRead, l
  <2>2. "taskWrite" \in NextCalls /\ Makes(l.kind, "taskWrite")
    BY <1>5, <2>1 DEF Makes, Calls, NextCalls
  <2>3. Follows(l, GoTo(l, "taskWrite")) /\ Follows(l, TaskRefused(l))
    BY <1>1, <1>2, <2>1, <2>2, TaskRefusedFollows
  <2>4. QED
    BY <1>12, <2>3 DEF TaskRead, l
<1>13. CASE TaskWrite(p)
  <2>1. l.at = "taskWrite"
    BY <1>13 DEF TaskWrite, l
  <2>2. Follows(l, AfterTask(l)) /\ Follows(l, TaskRefused(l))
    BY <1>1, <2>1, AfterTaskFollows, TaskRefusedFollows
  <2>3. QED
    BY <1>13, <2>2 DEF TaskWrite, l
<1>14. CASE LoadTask(p)
  <2>1. l.kind = "dispatch"
    BY <1>5, <1>14 DEF LoadTask, Makes, l
  <2>2. "create" \in NextCalls /\ Makes(l.kind, "create")
    BY <2>1 DEF Makes, Calls, NextCalls
  <2>3. Follows(l, GoTo(l, "create")) /\ Follows(l, DispatchFailed(l))
    BY <1>2, <1>6, <2>1, <2>2
  <2>4. QED
    BY <1>14, <2>3 DEF LoadTask, l
<1>15. CASE CreateSession(p)
  <2>1. l.kind = "dispatch"
    BY <1>5, <1>15 DEF CreateSession, Makes, l
  <2>2. "taskRead" \in NextCalls /\ Makes(l.kind, "taskRead")
    BY <2>1 DEF Makes, Calls, NextCalls
  <2>3. Follows(l, GoTo(l, "taskRead")) /\ Follows(l, DispatchFailed(l))
    BY <1>2, <1>6, <2>1, <2>2
  <2>4. QED
    BY <1>15, <2>3 DEF CreateSession, l
<1>16. CASE Prepare(p)
  <2>1. l.kind = "dispatch"
    BY <1>5, <1>16 DEF Prepare, Makes, l
  <2>2. /\ "sessionRead" \in NextCalls /\ Makes(l.kind, "sessionRead")
        /\ "revert" \in Kinds \ {"failRetry"} /\ Makes("revert", "sessionRead")
    BY <2>1 DEF Makes, Calls, NextCalls, Kinds
  <2>3. Follows(l, GoTo(l, "sessionRead")) /\ Follows(l, Turn(l, "revert", "sessionRead"))
    BY <1>2, <1>7, <2>1, <2>2 DEF Answers
  <2>4. QED
    BY <1>16, <2>3 DEF Prepare, l
<1>17. CASE StartBackend(p)
  <2>1. l.kind = "dispatch" /\ l.at = "start"
    BY <1>5, <1>17 DEF StartBackend, Makes, l
  <2>2. /\ "sessionRead" \in NextCalls
        /\ "revert" \in Kinds \ {"failRetry"} /\ Makes("revert", "sessionRead")
    BY <2>1 DEF Makes, Calls, NextCalls, Kinds
  <2>3. Follows(l, Turn(l, "revert", "sessionRead"))
    BY <1>7, <2>1, <2>2 DEF Answers
  <2>4. Follows(l, GoTo(l, "register"))
    <3> DEFINE m == GoTo(l, "register")
    <3>1. l \in Locals /\ "register" \in Calls
      BY <1>1 DEF WellFormed, Calls
    <3>2. /\ m \in Locals
          /\ m.at = "register" /\ m.kind = l.kind /\ m.s = l.s /\ m.n = l.n /\ m.q = l.q
      BY <3>1, GoToFields
    <3>3. Makes(m.kind, m.at)
      BY <2>1, <3>2 DEF Makes
    <3>4. QED
      BY <1>4, <2>1, <3>2, <3>3 DEF Follows, WellFormed, Answers
  <2>5. QED
    BY <1>17, <2>3, <2>4 DEF StartBackend, l
<1>18. CASE Register(p) \/ OpenQuestion(p) \/ DropQuestion(p) \/ ReopenQuestion(p) \/ Reschedule(p)
  <2>1. CASE Register(p) \/ DropQuestion(p) \/ ReopenQuestion(p) \/ Reschedule(p)
    BY <1>3, <2>1 DEF Register, DropQuestion, ReopenQuestion, Reschedule, SetRetry, l
  <2>2. CASE OpenQuestion(p)
    <3>1. l.kind = "ask"
      BY <1>5, <2>2 DEF OpenQuestion, Makes, l
    <3>2. "sessionRead" \in NextCalls /\ Makes(l.kind, "sessionRead")
      BY <3>1 DEF Makes, Calls, NextCalls
    <3>3. QED
      BY <1>2, <1>3, <2>2, <3>2 DEF OpenQuestion, l
  <2>3. QED
    BY <1>18, <2>1, <2>2
<1>19. CASE StopBackend(p)
  <2>1. l.kind \in {"cancel", "stall"}
    BY <1>5, <1>19 DEF StopBackend, Makes, l
  <2>2. "sessionRead" \in NextCalls /\ Makes(l.kind, "sessionRead")
    BY <2>1 DEF Makes, Calls, NextCalls
  <2>3. QED
    BY <1>2, <1>19, <2>2 DEF StopBackend, l
<1>20. CASE ScheduleRetry(p)
  <2>1. l.kind = "failRetry"
    BY <1>5, <1>20 DEF ScheduleRetry, Makes, l
  <2>2. "taskRead" \in NextCalls /\ Makes(l.kind, "taskRead")
    BY <2>1 DEF Makes, Calls, NextCalls
  <2>3. QED
    BY <1>2, <1>3, <1>20, <2>2 DEF ScheduleRetry, l
<1>21. CASE CancelQuestions(p)
  <2>1. Follows(l, AfterQuestions(l))
    BY <1>1, <1>21, AfterQuestionsFollows DEF CancelQuestions, l
  <2>2. QED
    BY <1>21, <2>1 DEF CancelQuestions, l
<1>22. CASE Dispose(p)
  <2>1. Follows(l, AfterDispose(l))
    BY <1>1, <1>22, AfterDisposeFollows DEF Dispose, l
  <2>2. QED
    BY <1>22, <2>1 DEF Dispose, l
<1>23. CASE ClaimRetry(p)
  <2>1. l.kind = "dispatch"
    BY <1>5, <1>23 DEF ClaimRetry, Makes, l
  <2>2. "load" \in NextCalls /\ Makes(l.kind, "load")
    BY <2>1 DEF Makes, Calls, NextCalls
  <2>3. QED
    BY <1>2, <1>3, <1>23, <2>2 DEF ClaimRetry, SetRetry, SetRetryOf, l
<1>24. CASE RecordAnswer(p)
  <2>1. l.kind = "answer"
    BY <1>5, <1>24 DEF RecordAnswer, Makes, l
  <2>2. "resume" \in NextCalls /\ Makes(l.kind, "resume")
    BY <2>1 DEF Makes, Calls, NextCalls
  <2>3. QED
    BY <1>2, <1>3, <1>24, <2>2 DEF RecordAnswer, l
<1>25. CASE ResumeSession(p)
  <2>1. l.kind = "answer"
    BY <1>5, <1>25 DEF ResumeSession, Makes, l
  <2>2. /\ {"reopen", "sessionRead"} \subseteq NextCalls
        /\ Makes(l.kind, "reopen") /\ Makes(l.kind, "sessionRead")
        /\ "unavailable" \in Kinds \ {"failRetry"} /\ Makes("unavailable", "sessionRead")
    BY <2>1 DEF Makes, Calls, NextCalls, Kinds
  <2>3. /\ Follows(l, GoTo(l, "reopen")) /\ Follows(l, GoTo(l, "sessionRead"))
        /\ Follows(l, Turn(l, "unavailable", "sessionRead"))
    BY <1>2, <1>7, <2>1, <2>2 DEF Answers
  <2>4. QED
    BY <1>3, <1>25, <2>3 DEF ResumeSession, l
<1>26. CASE SendPrompt(p)
  <2>1. /\ "sessionRead" \in NextCalls /\ l.kind = "answer"
        /\ "rollback" \in Kinds \ {"failRetry"} /\ Makes("rollback", "sessionRead")
    <3>1. l.at = "prompt"
      BY <1>26 DEF SendPrompt, l
    <3>2. QED
      BY <1>5, <3>1 DEF Makes, Calls, NextCalls, Kinds
  <2>2. Follows(l, Turn(l, "rollback", "sessionRead"))
    BY <1>7, <2>1
  <2>3. QED
    BY <1>3, <1>26, <2>2 DEF SendPrompt, l
<1>30. QED
  BY <1>10, <1>11, <1>12, <1>13, <1>14, <1>15, <1>16, <1>17, <1>18, <1>19, <1>20, <1>21,
     <1>22, <1>23, <1>24, <1>25, <1>26 DEF Step, l

(* What a goroutine starts with: a handler that has not registered a       *)
(* backend, with no more retries than its row counts and fewer than the    *)
(* budget if it is going to schedule another one; it concerns a question   *)
(* only to answer it while it is pending or to ask it for the first time.  *)
Starts(m) ==
  /\ WellFormed(m)
  /\ m.at # "register"
  /\ m.n = 0 \/ (\E s \in Sessions : m.n = retries[s])
  /\ m.kind = "failRetry" => m.n < MaxAttempts
  /\ m.kind \in Answers => m.at = "record" /\ question[m.q] = "pending"
  /\ m.at = "open" => FreshQuestion(m.q)
  /\ m.q \in Questions => m.kind \in Answers \/ m.at = "open"

LEMMA StartsWith ==
  ASSUME NEW m \in Locals, Makes(m.kind, m.at), m.at # "register",
         m.kind # "move" => m.s \in Sessions,
         m.n = 0 \/ (\E s \in Sessions : m.n = retries[s]),
         m.kind = "failRetry" => m.n < MaxAttempts,
         m.kind \in Answers => m.at = "record" /\ question[m.q] = "pending",
         m.at = "open" => FreshQuestion(m.q),
         m.q \in Questions => m.kind \in Answers \/ m.at = "open"
  PROVE  Starts(m)
BY DEF Starts, WellFormed, Makes

(* Every new handler starts on an idle goroutine and changes nothing else. *)
LEMMA ArriveStarts ==
  ASSUME TypeOK, Arrive
  PROVE  /\ \E p \in Procs : \E m : Starts(m) /\ At(p, "idle") /\ Continue(p, m)
         /\ UNCHANGED <<rows, hitl, memory, history, crashes>>
<1> DEFINE Goal == /\ \E p \in Procs : \E m : Starts(m) /\ At(p, "idle") /\ Continue(p, m)
                   /\ UNCHANGED <<rows, hitl, memory, history, crashes>>
<1>a. /\ status \in [Sessions -> SessionStatuses \cup {"absent"}]
      /\ taskOf \in [Sessions -> Tasks \cup {None}]
      /\ retries \in [Sessions -> Nat]
      /\ \A q \in Questions : question[q] = "pending" => asker[q] \in Sessions
      /\ tracked \subseteq Sessions
  BY DEF TypeOK
<1>1. ASSUME NEW p \in Requests, NEW t \in Tasks, NEW s \in Sessions, DispatchTask(p, t, s)
      PROVE  Goal
  <2> DEFINE m == [Idle EXCEPT !.at = "load", !.kind = "dispatch", !.s = s, !.task = t]
  <2>1. Start(p, m) /\ UNCHANGED <<rows, hitl, memory, history, crashes>>
    BY <1>1 DEF DispatchTask
  <2>2. m \in Locals
    BY <1>a DEF Idle, Locals, Calls, Kinds, TaskStatuses
  <2>3. m.at = "load" /\ m.kind = "dispatch" /\ m.s = s /\ m.n = 0 /\ m.q = None
    BY DEF Idle
  <2> HIDE DEF m
  <2>4. Starts(m)
    BY <2>2, <2>3, StartsWith, ConstantsAssumption DEF Makes, Answers
  <2>5. QED
    BY <2>1, <2>4 DEF Start, Procs
<1>2. ASSUME NEW p \in Requests, NEW s \in Sessions, CancelSession(p, s)
      PROVE  Goal
  <2> DEFINE l == [Idle EXCEPT !.s = s, !.task = taskOf[s]]
  <2>1. l \in Locals
    BY <1>a DEF Idle, Locals, Calls, Kinds, TaskStatuses
  <2>2. l.s = s /\ l.n = 0 /\ l.q = None
    BY DEF Idle
  <2>3. UNCHANGED <<rows, hitl, memory, history, crashes>>
    BY <1>2 DEF CancelSession
  <2> HIDE DEF l
  <2>4. \/ Start(p, Turn(l, "cancel", "stop"))
        \/ Start(p, Turn(l, "cancelAgain", "taskRead"))
        \/ Start(p, Turn(l, "cancelEnded", "cancelQuestions"))
        \/ Start(p, Turn(l, "cancelUntracked", "sessionRead"))
    BY <1>2 DEF CancelSession, l
  <2>5. ASSUME NEW call \in NextCalls, NEW kind \in Kinds \ {"failRetry"},
               Makes(kind, call), kind \notin Answers
        PROVE  Starts(Turn(l, kind, call))
    <3> DEFINE m == Turn(l, kind, call)
    <3>1. /\ m \in Locals
          /\ m.at = call /\ m.kind = kind /\ m.s = l.s /\ m.n = l.n /\ m.q = l.q
      BY <2>1, TurnFields DEF NextCalls
    <3> HIDE DEF m
    <3>2. Starts(m)
      BY <2>2, <2>5, <3>1, StartsWith, ConstantsAssumption DEF NextCalls
    <3>3. QED
      BY <3>2 DEF m
  <2>6. /\ Makes("cancel", "stop") /\ Makes("cancelAgain", "taskRead")
        /\ Makes("cancelEnded", "cancelQuestions") /\ Makes("cancelUntracked", "sessionRead")
        /\ {"stop", "taskRead", "cancelQuestions", "sessionRead"} \subseteq NextCalls
        /\ {"cancel", "cancelAgain", "cancelEnded", "cancelUntracked"}
             \subseteq Kinds \ ({"failRetry"} \cup Answers)
    BY DEF Makes, Calls, NextCalls, Kinds, Answers
  <2>7. QED
    BY <2>3, <2>4, <2>5, <2>6 DEF Start, Procs
<1>3. ASSUME NEW p \in Requests, NEW s \in Sessions, NEW exitCode \in {0, 1},
             HandleSessionComplete(p, s, exitCode)
      PROVE  Goal
  <2> DEFINE kind == IF exitCode = 0 THEN "complete"
                     ELSE IF retries[s] < MaxAttempts THEN "failRetry" ELSE "fail"
             l == [Idle EXCEPT !.at = "sessionRead", !.s = s, !.task = taskOf[s], !.n = retries[s]]
             m == [l EXCEPT !.kind = kind]
  <2>1. Start(p, m) /\ UNCHANGED <<rows, hitl, memory, history, crashes>>
    BY <1>3 DEF HandleSessionComplete
  <2>2. kind \in {"complete", "fail", "failRetry"} /\ (kind = "failRetry" => retries[s] < MaxAttempts)
    OBVIOUS
  <2> HIDE DEF kind
  <2>3. m \in Locals
    BY <1>a, <2>2 DEF Idle, Locals, Calls, Kinds, TaskStatuses
  <2>4. m.at = "sessionRead" /\ m.kind = kind /\ m.s = s /\ m.n = retries[s] /\ m.q = None
    BY DEF Idle
  <2> HIDE DEF m
  <2>5. Starts(m)
    BY <2>2, <2>3, <2>4, StartsWith, ConstantsAssumption DEF Makes, Answers
  <2>6. QED
    BY <2>1, <2>5 DEF Start, Procs
<1>4. ASSUME NEW p \in Requests, NEW s \in Sessions, NEW q \in Questions, HandleAskHuman(p, s, q)
      PROVE  Goal
  <2> DEFINE m == [Idle EXCEPT !.at = "open", !.kind = "ask", !.s = s, !.q = q]
  <2>1. Start(p, m) /\ UNCHANGED <<rows, hitl, memory, history, crashes>>
    BY <1>4 DEF HandleAskHuman
  <2>2. m \in Locals
    BY <1>a DEF Idle, Locals, Calls, Kinds, TaskStatuses
  <2>3. m.at = "open" /\ m.kind = "ask" /\ m.s = s /\ m.n = 0 /\ m.q = q
    BY DEF Idle
  <2> HIDE DEF m
  <2>4. FreshQuestion(q)
    BY <1>4 DEF HandleAskHuman
  <2>5. Starts(m)
    BY <2>2, <2>3, <2>4, StartsWith DEF Makes, Answers
  <2>6. QED
    BY <2>1, <2>5 DEF Start, Procs
<1>5. ASSUME NEW p \in Requests, NEW q \in Questions, AnswerQuestion(p, q)
      PROVE  Goal
  <2> DEFINE m == [Idle EXCEPT !.at = "record", !.kind = "answer", !.q = q, !.s = asker[q],
                               !.task = taskOf[asker[q]]]
  <2>1. Start(p, m) /\ UNCHANGED <<rows, hitl, memory, history, crashes>>
    BY <1>5 DEF AnswerQuestion
  <2>2. question[q] = "pending" /\ asker[q] \in Sessions /\ taskOf[asker[q]] \in Tasks \cup {None}
    BY <1>a, <1>5 DEF AnswerQuestion
  <2>3. m \in Locals
    BY <2>2 DEF Idle, Locals, Calls, Kinds, TaskStatuses
  <2>4. m.at = "record" /\ m.kind = "answer" /\ m.s = asker[q] /\ m.n = 0 /\ m.q = q
    BY DEF Idle
  <2> HIDE DEF m
  <2>5. Starts(m)
    BY <2>2, <2>3, <2>4, StartsWith DEF Makes, Answers
  <2>6. QED
    BY <2>1, <2>5 DEF Start, Procs
<1>6. ASSUME NEW p \in Requests, NEW t \in Tasks, NEW to \in UserTargets, MoveTask(p, t, to)
      PROVE  Goal
  <2> DEFINE m == [Idle EXCEPT !.at = "taskRead", !.kind = "move", !.task = t, !.to = to]
  <2>1. Start(p, m) /\ UNCHANGED <<rows, hitl, memory, history, crashes>>
    BY <1>6 DEF MoveTask
  <2>2. m \in Locals
    BY ConstantsAssumption DEF Idle, Locals, Calls, Kinds, TaskStatuses
  <2>3. m.at = "taskRead" /\ m.kind = "move" /\ m.s = None /\ m.n = 0 /\ m.q = None
    BY DEF Idle
  <2> HIDE DEF m
  <2>4. Starts(m)
    BY <2>2, <2>3, StartsWith, ConstantsAssumption DEF Makes, Answers
  <2>5. QED
    BY <2>1, <2>4 DEF Start, Procs
<1>7. ASSUME NEW s \in Sessions, HandleStall(s)
      PROVE  Goal
  <2> DEFINE m == [Idle EXCEPT !.at = "stop", !.kind = "stall", !.s = s, !.task = taskOf[s]]
  <2>1. /\ Start("staller", m) /\ UNCHANGED <<rows, hitl, memory, history, crashes>>
        /\ "staller" \in Background
    BY <1>7 DEF HandleStall
  <2>2. m \in Locals
    BY <1>a DEF Idle, Locals, Calls, Kinds, TaskStatuses
  <2>3. m.at = "stop" /\ m.kind = "stall" /\ m.s = s /\ m.n = 0 /\ m.q = None
    BY DEF Idle
  <2> HIDE DEF m
  <2>4. Starts(m)
    BY <2>2, <2>3, StartsWith, ConstantsAssumption DEF Makes, Answers
  <2>5. QED
    BY <2>1, <2>4 DEF Start, Procs
<1>8. ASSUME NEW old \in Sessions, NEW s \in Sessions, RetrySession(old, s)
      PROVE  Goal
  <2> DEFINE m == [Idle EXCEPT !.at = "claimRetry", !.kind = "dispatch", !.s = s,
                               !.task = taskOf[old], !.n = retries[old], !.old = old]
  <2>1. /\ Start("retrier", m) /\ UNCHANGED <<rows, hitl, memory, history, crashes>>
        /\ "retrier" \in Background
    BY <1>8 DEF RetrySession
  <2>2. m \in Locals
    BY <1>a DEF Idle, Locals, Calls, Kinds, TaskStatuses
  <2>3. m.at = "claimRetry" /\ m.kind = "dispatch" /\ m.s = s /\ m.n = retries[old] /\ m.q = None
    BY DEF Idle
  <2> HIDE DEF m
  <2>4. Starts(m)
    BY <2>2, <2>3, StartsWith, ConstantsAssumption DEF Makes, Answers
  <2>5. QED
    BY <2>1, <2>4 DEF Start, Procs
<1> HIDE DEF Goal
<1>9. Goal
  BY <1>1, <1>2, <1>3, <1>4, <1>5, <1>6, <1>7, <1>8 DEF Arrive
<1>10. QED
  BY <1>9 DEF Goal

-----------------------------------------------------------------------------
(* Type correctness.                                                       *)

LEMMA InitTypeOK == Init => TypeOK
<1> SUFFICES ASSUME Init PROVE TypeOK
  OBVIOUS
<1>1. LocalTypeOK
  BY IdleWellFormed DEF Init, LocalTypeOK, WellFormed
<1>2. StoreTypeOK
  BY ConstantsAssumption
     DEF Init, StoreTypeOK, TaskStatuses, SessionStatuses, QuestionStatuses, BackendStates
<1>3. QED
  BY <1>1, <1>2, TypeParts

(* The database and the memory keep their types in every call.             *)
LEMMA StepStoreTypeOK ==
  ASSUME TypeOK, NEW p \in Procs, Step(p)
  PROVE  StoreTypeOK'
<1> DEFINE l == local[p]
<1>1. /\ l \in Locals /\ Makes(l.kind, l.at) /\ (l.kind \notin {"none", "move"} => l.s \in Sessions)
      /\ StoreTypeOK
  BY TypeParts DEF LocalTypeOK, WellFormed
<1>2. /\ l.s \in Sessions \cup {None} /\ l.task \in Tasks \cup {None} /\ l.n \in Nat
      /\ l.old \in Sessions \cup {None} /\ l.to \in TaskStatuses
  BY <1>1 DEF Locals
<1>3. SessionTarget(l) \in SessionStatuses
  BY DEF SessionTarget, SessionStatuses
<1>4. TaskTarget(l) \in TaskStatuses
  BY <1>2 DEF TaskTarget, TaskStatuses
<1> HIDE DEF l
<1> USE DEF At, StoreTypeOK, rows, hitl, memory, history
<1>10. CASE SessionRead(p)
  BY <1>1, <1>10 DEF SessionRead
<1>11. CASE SessionWrite(p)
  BY <1>1, <1>3, <1>11 DEF SessionWrite, l
<1>12. CASE TaskRead(p)
  BY <1>1, <1>2, <1>12 DEF TaskRead, l
<1>13. CASE TaskWrite(p)
  <2>1. taskStatus' \in {taskStatus, [taskStatus EXCEPT ![l.task] = TaskTarget(l)]}
    BY <1>13 DEF TaskWrite, l
  <2>2. taskStatus' \in [Tasks -> TaskStatuses]
    BY <1>1, <1>4, <2>1
  <2>3. stranded' \subseteq stranded \cup {l.task}
    BY <1>13 DEF TaskWrite, l
  <2>4. QED
    BY <1>1, <1>2, <1>13, <2>2, <2>3 DEF TaskWrite
<1>14. CASE LoadTask(p)
  BY <1>1, <1>14 DEF LoadTask
<1>15. CASE CreateSession(p)
  BY <1>1, <1>2, <1>15 DEF CreateSession, Insert, SessionStatuses, l
<1>16. CASE Prepare(p)
  BY <1>1, <1>16 DEF Prepare
<1>17. CASE StartBackend(p)
  BY <1>1, <1>17 DEF StartBackend, BackendStates, l
<1>18. CASE Register(p)
  <2>1. l.s \in Sessions
    BY <1>1, <1>18 DEF Register, Makes, l
  <2>2. QED
    BY <1>1, <1>18, <2>1 DEF Register, l
<1>19. CASE StopBackend(p)
  BY <1>1, <1>19 DEF StopBackend, BackendStates, l
<1>20. CASE ScheduleRetry(p)
  <2>1. l.n + 1 \in Nat
    BY <1>2
  <2>2. \/ retries' = [retries EXCEPT ![l.s] = l.n + 1] /\ retryDue' = [retryDue EXCEPT ![l.s] = TRUE]
        \/ UNCHANGED <<retries, retryDue>>
    BY <1>20 DEF ScheduleRetry, SetRetryOf, l
  <2>3. retries' \in [Sessions -> Nat] /\ retryDue' \in [Sessions -> BOOLEAN]
    BY <1>1, <2>1, <2>2
  <2>4. QED
    BY <1>1, <1>20, <2>3 DEF ScheduleRetry
<1>21. CASE CancelQuestions(p)
  BY <1>1, <1>21 DEF CancelQuestions, QuestionStatuses, l
<1>22. CASE Dispose(p)
  BY <1>1, <1>22 DEF Dispose, BackendStates, l
<1>23. CASE ClaimRetry(p)
  BY <1>1, <1>2, <1>23 DEF ClaimRetry, SetRetry, SetRetryOf, l
<1>24. CASE Reschedule(p)
  BY <1>1, <1>2, <1>24 DEF Reschedule, SetRetry, SetRetryOf, l
<1>25. CASE OpenQuestion(p)
  <2>1. l.s \in Sessions
    BY <1>1, <1>25 DEF OpenQuestion, Makes, l
  <2>2. QED
    BY <1>1, <1>25, <2>1 DEF OpenQuestion, QuestionStatuses, l
<1>26. CASE DropQuestion(p)
  BY <1>1, <1>26 DEF DropQuestion
<1>27. CASE RecordAnswer(p)
  BY <1>1, <1>27 DEF RecordAnswer, QuestionStatuses, l
<1>28. CASE ResumeSession(p)
  BY <1>1, <1>28 DEF ResumeSession
<1>29. CASE SendPrompt(p)
  <2>1. delivered' = [delivered EXCEPT ![l.q] = @ + 1] \/ UNCHANGED delivered
    BY <1>29 DEF SendPrompt, l
  <2>2. delivered' \in [Questions -> Nat]
    BY <1>1, <2>1
  <2>3. QED
    BY <1>1, <1>29, <2>2 DEF SendPrompt
<1>30. CASE ReopenQuestion(p)
  BY <1>1, <1>30 DEF ReopenQuestion, QuestionStatuses
<1>31. QED
  BY <1>10, <1>11, <1>12, <1>13, <1>14, <1>15, <1>16, <1>17, <1>18, <1>19, <1>20, <1>21, <1>22,
     <1>23, <1>24, <1>25, <1>26, <1>27, <1>28, <1>29, <1>30 DEF Step

LEMMA NextTypeOK == TypeOK /\ [Next]_vars => TypeOK'
<1> SUFFICES ASSUME TypeOK, [Next]_vars PROVE TypeOK'
  OBVIOUS
<1>1. StoreTypeOK /\ LocalTypeOK
  BY TypeParts
<1>2. CASE Arrive
  <2>1. LocalTypeOK'
    BY <1>1, <1>2, ArriveStarts, ContinueType DEF Starts
  <2>2. StoreTypeOK'
    BY <1>1, <1>2, ArriveStarts DEF StoreTypeOK, rows, hitl, memory, history
  <2>3. QED
    BY <2>1, <2>2, TypePartsNext
<1>3. ASSUME NEW p \in Procs, Step(p) PROVE TypeOK'
  <2>1. LocalTypeOK'
    BY <1>1, <1>3, StepFollows, ContinueType DEF Follows
  <2>2. QED
    BY <1>3, <2>1, StepStoreTypeOK, TypePartsNext
<1>4. CASE Crash
  <2>1. StoreTypeOK'
    BY <1>1, <1>4, ConstantsAssumption DEF Crash, StoreTypeOK, BackendStates, rows, hitl
  <2>2. LocalTypeOK'
    BY <1>4, IdleWellFormed DEF Crash, LocalTypeOK, WellFormed
  <2>3. QED
    BY <2>1, <2>2, TypePartsNext
<1>5. CASE UNCHANGED vars
  BY <1>5 DEF vars, rows, hitl, memory, history, TypeOK
<1>6. QED
  BY <1>2, <1>3, <1>4, <1>5 DEF Next

(* Rows, map, backends and goroutines keep their types, and no goroutine   *)
(* ever makes a call that is not one of its handler's.                     *)
THEOREM TypeCorrect == Spec => []TypeOK
<1>1. QED
  BY InitTypeOK, NextTypeOK, PTL DEF Spec

-----------------------------------------------------------------------------
(* No backend is ever out of reach.                                        *)

(* The goroutines that a step leaves alone.                                *)
LEMMA OthersKeep ==
  ASSUME TypeOK, NEW p \in Procs, NEW m, Continue(p, m)
  PROVE  /\ local'[p] = m
         /\ \A r \in Procs : r # p => local'[r] = local[r]
BY DEF TypeOK, Continue

LEMMA NoOrphanStep ==
  ASSUME TypeOK, NoOrphanBackend, NEW p \in Procs, Step(p)
  PROVE  NoOrphanBackend'
<1> SUFFICES ASSUME NEW s \in Sessions, backend'[s] \in {"active", "stopped"}
             PROVE  s \in tracked' \/ \E r \in Procs : At(r, "register")' /\ local'[r].s = s
  BY DEF NoOrphanBackend
<1> DEFINE l == local[p]
<1>1. l \in Locals /\ Makes(l.kind, l.at) /\ backend \in [Sessions -> BackendStates]
      /\ (l.kind \notin {"none", "move"} => l.s \in Sessions)
  BY DEF TypeOK
<1>2. backend[s] \in {"active", "stopped"}
        => s \in tracked \/ \E r \in Procs : At(r, "register") /\ local[r].s = s
  BY DEF NoOrphanBackend
<1>3. \A r \in Procs : r # p => local'[r] = local[r]
  BY StepFollows, OthersKeep
<1>4. CASE StartBackend(p)
  <2>1. CASE backend' = [backend EXCEPT ![l.s] = "active"] /\ Continue(p, GoTo(l, "register"))
    <3>1. local'[p].at = "register" /\ local'[p].s = l.s
      BY <1>1, <2>1, OthersKeep, GoToFields DEF Calls
    <3>2. tracked' = tracked /\ l.at # "register" /\ (s # l.s => backend[s] = backend'[s])
      BY <1>1, <1>4, <2>1 DEF StartBackend, At
    <3>3. QED
      BY <1>2, <1>3, <3>1, <3>2 DEF At
  <2>2. CASE UNCHANGED backend
    <3>1. tracked' = tracked /\ l.at # "register"
      BY <1>4 DEF StartBackend, At
    <3>2. QED
      BY <1>2, <1>3, <2>2, <3>1 DEF At
  <2>3. QED
    BY <1>4, <2>1, <2>2 DEF StartBackend
<1>5. CASE Register(p)
  BY <1>2, <1>3, <1>5 DEF Register, At
<1>6. CASE Dispose(p)
  <2>1. l.at # "register"
    BY <1>6 DEF Dispose, At
  <2>2. l.s \in Sessions => backend'[l.s] \in {"none", "disposed"}
    BY <1>1, <1>6 DEF Dispose
  <2>3. s # l.s
    BY <2>2
  <2>4. backend'[s] = backend[s] /\ (s \in tracked => s \in tracked')
    BY <1>1, <1>6, <2>3 DEF Dispose
  <2>5. QED
    BY <1>2, <1>3, <2>1, <2>4 DEF At
<1>7. CASE StopBackend(p)
  <2>1. backend[s] \in {"active", "stopped"} /\ tracked' = tracked /\ l.at # "register"
    BY <1>1, <1>7 DEF StopBackend, At
  <2>2. QED
    BY <1>2, <1>3, <2>1 DEF At
<1>8. CASE UNCHANGED memory /\ l.at # "register"
  BY <1>2, <1>3, <1>8 DEF At, memory
<1>9. QED
  <2>1. \/ StartBackend(p) \/ Register(p) \/ Dispose(p) \/ StopBackend(p)
        \/ UNCHANGED memory /\ l.at # "register"
    BY DEF Step, SessionRead, SessionWrite, TaskRead, TaskWrite, LoadTask, CreateSession,
           Prepare, ScheduleRetry, CancelQuestions, ClaimRetry, Reschedule, OpenQuestion,
           DropQuestion, RecordAnswer, ResumeSession, SendPrompt, ReopenQuestion, At, memory
  <2>2. QED
    BY <1>4, <1>5, <1>6, <1>7, <1>8, <2>1

(* Every backend that was started and not disposed of is in the sessions   *)
(* map or about to enter it, whatever fails and whoever cancels, stalls,   *)
(* completes or crashes in between.                                        *)
THEOREM NoBackendIsOrphaned == Spec => []NoOrphanBackend
<1>1. Init => NoOrphanBackend
  BY DEF Init, NoOrphanBackend
<1>2. TypeOK /\ NoOrphanBackend /\ [Next]_vars => NoOrphanBackend'
  <2> SUFFICES ASSUME TypeOK, NoOrphanBackend, [Next]_vars PROVE NoOrphanBackend'
    OBVIOUS
  <2>1. CASE Arrive
    <3>1. PICK p \in Procs : \E m : At(p, "idle") /\ Continue(p, m)
      BY <2>1, ArriveStarts
    <3>2. local[p].at # "register" /\ \A r \in Procs : r # p => local'[r] = local[r]
      BY <3>1, OthersKeep DEF At
    <3>3. UNCHANGED memory
      BY <2>1, ArriveStarts
    <3>4. QED
      BY <3>2, <3>3 DEF NoOrphanBackend, At, memory
  <2>2. ASSUME NEW p \in Procs, Step(p) PROVE NoOrphanBackend'
    BY <2>2, NoOrphanStep
  <2>3. CASE Crash
    BY <2>3 DEF Crash, NoOrphanBackend
  <2>4. CASE UNCHANGED vars
    BY <2>4 DEF vars, memory, history, NoOrphanBackend, At
  <2>5. QED
    BY <2>1, <2>2, <2>3, <2>4 DEF Next
<1>3. QED
  BY <1>1, <1>2, TypeCorrect, PTL DEF Spec

-----------------------------------------------------------------------------
(* The retry budget.                                                       *)

(* RetryBudget with what makes it inductive: the counts that goroutines    *)
(* carry from their read of the row to their write are within the budget.  *)
Budget ==
  /\ RetryBudget
  /\ \A p \in Procs : local[p].n <= MaxAttempts

LEMMA BudgetStep ==
  ASSUME TypeOK, Budget, NEW p \in Procs, Step(p)
  PROVE  Budget'
<1> DEFINE l == local[p]
<1>1. l \in Locals /\ Makes(l.kind, l.at) /\ retries \in [Sessions -> Nat]
  BY DEF TypeOK
<1>2. l.n \in Nat /\ l.n <= MaxAttempts /\ (l.kind = "failRetry" => l.n < MaxAttempts)
  BY <1>1 DEF Budget, RetryBudget, Locals
<1>3. ASSUME NEW r \in Procs
      PROVE  local'[r].n <= MaxAttempts /\ (local'[r].kind = "failRetry" => local'[r].n < MaxAttempts)
  <2>1. PICK m : Follows(l, m) /\ Continue(p, m)
    BY StepFollows
  <2>2. CASE r # p
    BY <2>1, <2>2, OthersKeep DEF Budget, RetryBudget
  <2>3. CASE r = p /\ m = Idle
    BY <2>1, <2>3, OthersKeep, ConstantsAssumption DEF Idle
  <2>4. CASE r = p /\ m # Idle
    BY <1>2, <2>1, <2>4, OthersKeep DEF Follows
  <2>5. QED
    BY <2>2, <2>3, <2>4
<1>4. ASSUME NEW s \in Sessions PROVE retries'[s] <= MaxAttempts
  <2>0. retries[s] <= MaxAttempts
    BY DEF Budget, RetryBudget
  <2>1. CASE ScheduleRetry(p)
    <3>1. l.n + 1 <= MaxAttempts
      BY <1>1, <1>2, <2>1, ConstantsAssumption DEF ScheduleRetry, Makes, At
    <3>2. retries' = [retries EXCEPT ![l.s] = l.n + 1] \/ retries' = retries
      BY <2>1 DEF ScheduleRetry, SetRetryOf
    <3>3. QED
      BY <1>1, <2>0, <3>1, <3>2
  <2>2. CASE \E row \in Sessions \cup {None} : retries' = [retries EXCEPT ![row] = l.n]
    BY <1>1, <1>2, <2>0, <2>2
  <2>3. CASE retries' = retries
    BY <2>0, <2>3
  <2>4. QED
    <3>1. l.old \in Sessions \cup {None}
      BY <1>1 DEF Locals
    <3>2. CASE ClaimRetry(p) \/ Reschedule(p)
      BY <2>2, <2>3, <3>1, <3>2 DEF ClaimRetry, Reschedule, SetRetry, SetRetryOf
    <3>3. CASE CreateSession(p)
      BY <2>2, <2>3, <3>3 DEF CreateSession, Insert
    <3>4. CASE ~(ScheduleRetry(p) \/ ClaimRetry(p) \/ Reschedule(p) \/ CreateSession(p))
      BY <2>3, <3>4
         DEF Step, SessionRead, SessionWrite, TaskRead, TaskWrite, LoadTask, Prepare,
             StartBackend, Register, StopBackend, CancelQuestions, Dispose, OpenQuestion,
             DropQuestion, RecordAnswer, ResumeSession, SendPrompt, ReopenQuestion, rows
    <3>5. QED
      BY <2>1, <3>2, <3>3, <3>4
<1>5. QED
  BY <1>3, <1>4 DEF Budget, RetryBudget

(* A task is never retried more than maxAttempts times in a chain: the     *)
(* counts that the retry scheduler and HandleSessionComplete write back    *)
(* were read earlier, but none of them can be over the budget.             *)
THEOREM RetriesStayInBudget == Spec => []RetryBudget
<1>1. Init => Budget
  BY ConstantsAssumption DEF Init, Budget, RetryBudget, Idle
<1>2. TypeOK /\ Budget /\ [Next]_vars => Budget'
  <2> SUFFICES ASSUME TypeOK, Budget, [Next]_vars PROVE Budget'
    OBVIOUS
  <2>1. CASE Arrive
    <3>1. PICK p \in Procs : \E m : Starts(m) /\ Continue(p, m)
      BY <2>1, ArriveStarts
    <3>2. PICK m : Starts(m) /\ Continue(p, m)
      BY <3>1
    <3>3. m.n <= MaxAttempts /\ (m.kind = "failRetry" => m.n < MaxAttempts)
      BY <3>2, ConstantsAssumption DEF Starts, Budget, RetryBudget
    <3>4. UNCHANGED retries
      BY <2>1, ArriveStarts DEF rows
    <3>5. QED
      BY <3>2, <3>3, <3>4, OthersKeep DEF Budget, RetryBudget
  <2>2. ASSUME NEW p \in Procs, Step(p) PROVE Budget'
    BY <2>2, BudgetStep
  <2>3. CASE Crash
    BY <2>3, ConstantsAssumption DEF Crash, Budget, RetryBudget, Idle, rows
  <2>4. CASE UNCHANGED vars
    BY <2>4 DEF vars, rows, Budget, RetryBudget
  <2>5. QED
    BY <2>1, <2>2, <2>3, <2>4 DEF Next
<1>3. QED
  BY <1>1, <1>2, TypeCorrect, PTL DEF Spec, Budget

-----------------------------------------------------------------------------
(* One answer reaches the agent.                                           *)

(* AnswerOnce with what makes it inductive: the guarded UPDATE of Answer   *)
(* lets one goroutine in, which keeps the question answered until it has   *)
(* delivered the answer or opened the question again; and a question that  *)
(* an agent is about to ask is known to nobody else.                       *)
Exclusive(q) ==
  /\ delivered[q] <= 1
  /\ delivered[q] > 0 => question[q] \in {"answered", "deleted"}
  /\ \A p \in Procs :
       Holds(p, q) => /\ question[q] \in {"answered", "deleted"}
                      /\ delivered[q] = 0
                      /\ \A r \in Procs : Holds(r, q) => r = p
  /\ \A p \in Procs :
       At(p, "open") /\ local[p].q = q => /\ question[q] = "absent"
                                          /\ \A r \in Procs : local[r].q = q => r = p

(* A step that neither changes the question nor makes a new holder.        *)
LEMMA QuietStep ==
  ASSUME NEW p \in Procs, NEW q \in Questions, Exclusive(q),
         question'[q] = question[q], delivered'[q] = delivered[q],
         \A r \in Procs : r # p => local'[r] = local[r],
         Holds(p, q)' => Holds(p, q),
         local'[p].q = q => local[p].q = q,
         At(p, "open")' => local'[p].q # q
  PROVE  Exclusive(q)'
<1>1. \A r \in Procs : Holds(r, q)' => Holds(r, q)
  BY DEF Holds
<1>2. \A r \in Procs : local'[r].q = q => local[r].q = q
  OBVIOUS
<1>3. \A r \in Procs : At(r, "open")' /\ local'[r].q = q => At(r, "open")
  BY DEF At
<1>4. QED
  BY <1>1, <1>2, <1>3 DEF Exclusive

LEMMA ExclusiveStep ==
  ASSUME TypeOK, NEW q \in Questions, Exclusive(q), NEW p \in Procs, Step(p)
  PROVE  Exclusive(q)' /\ delivered'[q] >= delivered[q]
<1> DEFINE l == local[p]
<1>1. /\ l \in Locals /\ Makes(l.kind, l.at)
      /\ question \in [Questions -> QuestionStatuses \cup {"absent", "deleted"}]
      /\ delivered \in [Questions -> Nat]
  BY DEF TypeOK
<1>2. PICK m : Follows(l, m) /\ Continue(p, m)
  BY StepFollows
<1>3. local'[p] = m /\ \A r \in Procs : r # p => local'[r] = local[r]
  BY <1>2, OthersKeep
<1>4. Idle.q = None /\ Idle.kind = "none" /\ q # None
  BY ConstantsAssumption DEF Idle
<1>5. /\ m.q = q => l.q = q
      /\ m.at # "open"
      /\ Holds(p, q)' => l.q = q /\ l.kind \in Answers
  BY <1>2, <1>3, <1>4 DEF Follows, Holds
<1>6. ASSUME question'[q] = question[q], delivered'[q] = delivered[q], Holds(p, q)' => Holds(p, q)
      PROVE  Exclusive(q)' /\ delivered'[q] >= delivered[q]
  BY <1>1, <1>3, <1>5, <1>6, QuietStep DEF At
<1>7. l.at # "record" => (Holds(p, q)' => Holds(p, q))
  BY <1>5 DEF Holds
<1>8. CASE RecordAnswer(p)
  <2>1. l.at = "record" /\ l.kind = "answer" /\ delivered' = delivered
    BY <1>1, <1>8 DEF RecordAnswer, At, Makes, history
  <2>2. CASE /\ l.q = q /\ question[q] \in {"pending", "escalated"}
             /\ question' = [question EXCEPT ![q] = "answered"]
    <3>1. question'[q] = "answered" /\ delivered[q] = 0
      BY <1>1, <2>2 DEF Exclusive
    <3>2. \A r \in Procs : ~Holds(r, q) /\ ~(At(r, "open") /\ local[r].q = q)
      BY <2>2 DEF Exclusive
    <3>3. \A r \in Procs : Holds(r, q)' => r = p
      BY <1>3, <3>2 DEF Holds
    <3>4. \A r \in Procs : ~(At(r, "open")' /\ local'[r].q = q)
      BY <1>3, <1>5, <3>2 DEF At
    <3>5. QED
      BY <1>1, <2>1, <3>1, <3>3, <3>4 DEF Exclusive
  <2>3. CASE l.q # q
    <3>1. question'[q] = question[q]
      BY <1>1, <1>8, <2>3 DEF RecordAnswer
    <3>2. ~Holds(p, q)'
      BY <1>5, <2>3
    <3>3. QED
      BY <1>6, <2>1, <3>1, <3>2
  <2>4. CASE UNCHANGED question /\ Continue(p, Idle)
    <3>1. ~Holds(p, q)'
      BY <1>4, <2>4, OthersKeep DEF Holds
    <3>2. QED
      BY <1>6, <2>1, <2>4, <3>1
  <2>5. QED
    BY <1>8, <2>2, <2>3, <2>4 DEF RecordAnswer
<1>9. CASE SendPrompt(p)
  <2>1. l.at = "prompt" /\ l.kind = "answer" /\ question' = question
    BY <1>1, <1>9 DEF SendPrompt, At, Makes, hitl
  <2>2. CASE l.q = q /\ delivered' = [delivered EXCEPT ![q] = @ + 1] /\ Continue(p, Idle)
    <3>1. Holds(p, q)
      BY <2>1, <2>2 DEF Holds, Answers
    <3>2. /\ delivered[q] = 0 /\ question[q] \in {"answered", "deleted"}
          /\ \A r \in Procs : Holds(r, q) => r = p
      BY <3>1 DEF Exclusive
    <3>3. delivered'[q] = 1
      BY <1>1, <2>2, <3>2
    <3>4. ~Holds(p, q)'
      BY <1>4, <2>2, OthersKeep DEF Holds
    <3>5. \A r \in Procs : ~Holds(r, q)'
      BY <1>3, <3>2, <3>4 DEF Holds
    <3>6. \A r \in Procs : ~(At(r, "open") /\ local[r].q = q)
      BY <3>2 DEF Exclusive
    <3>7. \A r \in Procs : ~(At(r, "open")' /\ local'[r].q = q)
      BY <1>3, <1>5, <3>6 DEF At
    <3>8. QED
      BY <2>1, <3>2, <3>3, <3>5, <3>7 DEF Exclusive
  <2>3. CASE l.q # q \/ delivered' = delivered
    <3>1. delivered'[q] = delivered[q]
      BY <1>1, <1>9, <2>3 DEF SendPrompt
    <3>2. QED
      BY <1>6, <1>7, <2>1, <3>1
  <2>4. QED
    BY <1>9, <2>2, <2>3 DEF SendPrompt
<1>10. CASE ReopenQuestion(p)
  <2>1. /\ l.at = "reopen" /\ l.kind \in Answers /\ delivered' = delivered
        /\ Continue(p, Idle)
        /\ l.q # q => question'[q] = question[q]
        /\ question'[q] \in {question[q], "pending"}
    BY <1>1, <1>10 DEF ReopenQuestion, At, Makes, Answers, history
  <2>2. ~Holds(p, q)'
    BY <1>4, <2>1, OthersKeep DEF Holds
  <2>3. CASE l.q = q
    <3>1. Holds(p, q)
      BY <2>1, <2>3 DEF Holds
    <3>2. /\ delivered[q] = 0 /\ question[q] \in {"answered", "deleted"}
          /\ \A r \in Procs : Holds(r, q) => r = p
      BY <3>1 DEF Exclusive
    <3>3. \A r \in Procs : ~Holds(r, q)'
      BY <1>3, <2>2, <3>2 DEF Holds
    <3>4. \A r \in Procs : ~(At(r, "open") /\ local[r].q = q)
      BY <3>2 DEF Exclusive
    <3>5. \A r \in Procs : ~(At(r, "open")' /\ local'[r].q = q)
      BY <1>3, <1>5, <3>4 DEF At
    <3>6. QED
      BY <2>1, <3>2, <3>3, <3>5 DEF Exclusive
  <2>4. CASE l.q # q
    BY <1>6, <2>1, <2>2, <2>4
  <2>5. QED
    BY <2>3, <2>4
<1>11. CASE CancelQuestions(p)
  <2>1. /\ l.at = "cancelQuestions" /\ delivered' = delivered
        /\ question'[q] = question[q] \/ question[q] \in {"pending", "escalated"}
    BY <1>11 DEF CancelQuestions, At, history
  <2>2. CASE question[q] \in {"pending", "escalated"}
    <3>1. /\ delivered[q] = 0
          /\ \A r \in Procs : ~Holds(r, q) /\ ~(At(r, "open") /\ local[r].q = q)
      BY <1>1, <2>2 DEF Exclusive
    <3>2. \A r \in Procs : ~Holds(r, q)' /\ ~(At(r, "open")' /\ local'[r].q = q)
      BY <1>3, <1>5, <1>7, <2>1, <3>1 DEF Holds, At
    <3>3. QED
      BY <2>1, <3>1, <3>2 DEF Exclusive
  <2>3. CASE question'[q] = question[q]
    BY <1>6, <1>7, <2>1, <2>3
  <2>4. QED
    BY <2>1, <2>2, <2>3
<1>12. CASE OpenQuestion(p)
  <2>1. /\ l.at = "open" /\ delivered' = delivered
        /\ l.q # q => question'[q] = question[q]
    BY <1>1, <1>12 DEF OpenQuestion, At, hitl, history
  <2>2. CASE l.q = q
    <3>1. /\ question[q] = "absent" /\ \A r \in Procs : local[r].q = q => r = p
      BY <2>1, <2>2 DEF Exclusive, At
    <3>2. delivered[q] = 0 /\ \A r \in Procs : ~Holds(r, q)
      BY <1>1, <3>1 DEF Exclusive
    <3>3. \A r \in Procs : ~Holds(r, q)'
      BY <1>3, <1>7, <2>1, <3>2 DEF Holds
    <3>4. \A r \in Procs : ~(At(r, "open")' /\ local'[r].q = q)
      BY <1>3, <1>5, <3>1 DEF At
    <3>5. QED
      BY <2>1, <3>2, <3>3, <3>4 DEF Exclusive
  <2>3. CASE l.q # q
    BY <1>6, <1>7, <2>1, <2>3
  <2>4. QED
    BY <2>2, <2>3
<1>13. CASE DropQuestion(p)
  <2>1. /\ l.at = "drop" /\ delivered' = delivered
        /\ l.q # q => question'[q] = question[q]
        /\ question'[q] \in {question[q], "deleted"}
    BY <1>1, <1>13 DEF DropQuestion, At, history
  <2>2. CASE l.q = q
    <3>1. \A r \in Procs : ~(At(r, "open") /\ local[r].q = q)
      BY <2>1, <2>2 DEF Exclusive, At
    <3>2. \A r \in Procs : ~(At(r, "open")' /\ local'[r].q = q)
      BY <1>3, <1>5, <3>1 DEF At
    <3>3. \A r \in Procs : Holds(r, q)' => Holds(r, q)
      BY <1>3, <1>7, <2>1 DEF Holds
    <3>4. QED
      BY <1>1, <2>1, <3>2, <3>3 DEF Exclusive
  <2>3. CASE l.q # q
    BY <1>6, <1>7, <2>1, <2>3
  <2>4. QED
    BY <2>2, <2>3
<1>14. CASE UNCHANGED <<question, delivered>> /\ l.at # "record"
  BY <1>6, <1>7, <1>14
<1>15. QED
  <2>1. \/ RecordAnswer(p) \/ SendPrompt(p) \/ ReopenQuestion(p) \/ CancelQuestions(p)
        \/ OpenQuestion(p) \/ DropQuestion(p)
        \/ UNCHANGED <<question, delivered>> /\ l.at # "record"
    BY DEF Step, SessionRead, SessionWrite, TaskRead, TaskWrite, LoadTask, CreateSession,
           Prepare, StartBackend, Register, StopBackend, ScheduleRetry, Dispose, ClaimRetry,
           Reschedule, ResumeSession, At, hitl, history
  <2>2. QED
    BY <1>8, <1>9, <1>10, <1>11, <1>12, <1>13, <1>14, <2>1

LEMMA ExclusiveNext ==
  ASSUME TypeOK, NEW q \in Questions, Exclusive(q), [Next]_vars
  PROVE  Exclusive(q)' /\ delivered'[q] >= delivered[q]
<1>1. delivered[q] \in Nat
  BY DEF TypeOK
<1>2. CASE Arrive
  <2>1. PICK p \in Procs : \E m : Starts(m) /\ At(p, "idle") /\ Continue(p, m)
    BY <1>2, ArriveStarts
  <2>2. PICK m : Starts(m) /\ Continue(p, m)
    BY <2>1
  <2>3. local'[p] = m /\ (\A r \in Procs : r # p => local'[r] = local[r]) /\ local[p].at = "idle"
    BY <2>1, <2>2, OthersKeep DEF At
  <2>4. question' = question /\ delivered' = delivered
    BY <1>2, ArriveStarts DEF hitl, history
  <2>5. ~Holds(p, q)'
    BY <2>2, <2>3 DEF Starts, Holds
  <2>6. CASE m.q = q /\ m.at = "open"
    <3>1. question[q] = "absent" /\ \A r \in Procs : local[r].q # q
      BY <2>2, <2>6 DEF Starts, FreshQuestion
    <3>2. \A r \in Procs : ~Holds(r, q)' /\ (local'[r].q = q => r = p)
      BY <2>3, <2>5, <3>1 DEF Holds
    <3>3. QED
      BY <1>1, <2>4, <3>1, <3>2 DEF Exclusive
  <2>7. CASE m.q = q /\ m.at # "open"
    <3>1. question[q] = "pending"
      BY <2>2, <2>7 DEF Starts
    <3>2. \A r \in Procs : ~Holds(r, q)' /\ ~(At(r, "open")' /\ local'[r].q = q)
      BY <2>3, <2>5, <2>7, <3>1 DEF Exclusive, Holds, At
    <3>3. QED
      BY <1>1, <2>4, <3>2 DEF Exclusive
  <2>8. CASE m.q # q
    BY <1>1, <2>3, <2>4, <2>5, <2>8, QuietStep
  <2>9. QED
    BY <2>6, <2>7, <2>8
<1>3. ASSUME NEW p \in Procs, Step(p) PROVE Exclusive(q)' /\ delivered'[q] >= delivered[q]
  BY <1>3, ExclusiveStep
<1>4. CASE Crash
  <2>1. \A r \in Procs : local'[r].kind = "none" /\ local'[r].at = "idle"
    BY <1>4 DEF Crash, Idle
  <2>2. question' = question /\ delivered' = delivered
    BY <1>4 DEF Crash, hitl
  <2>3. \A r \in Procs : ~Holds(r, q)' /\ ~At(r, "open")'
    BY <2>1 DEF Holds, At, Answers
  <2>4. QED
    BY <1>1, <2>2, <2>3 DEF Exclusive
<1>5. CASE UNCHANGED vars
  BY <1>1, <1>5 DEF vars, hitl, history, Exclusive, Holds, At
<1>6. QED
  BY <1>2, <1>3, <1>4, <1>5 DEF Next

AllExclusive == \A q \in Questions : Exclusive(q)

LEMMA AllExclusiveHolds == Spec => []AllExclusive
<1>1. Init => AllExclusive
  BY DEF Init, AllExclusive, Exclusive, Holds, At, Idle, Answers
<1>2. TypeOK /\ AllExclusive /\ [Next]_vars => AllExclusive'
  BY ExclusiveNext DEF AllExclusive
<1>3. QED
  BY <1>1, <1>2, TypeCorrect, PTL DEF Spec

(* However many humans answer a question at the same time, through the API *)
(* or the chat, and however often a failed delivery opens it again, its    *)
(* agent is prompted with one answer at most.                              *)
THEOREM AnswersArriveOnce == Spec => []AnswerOnce
<1>1. AllExclusive => AnswerOnce
  BY DEF AllExclusive, Exclusive, AnswerOnce
<1>2. QED
  BY <1>1, AllExclusiveHolds, PTL

(* Once an answer was delivered nothing reopens or cancels its question.   *)
THEOREM DeliveredAnswersStand == Spec => AnsweredForGood
<1>1. TypeOK /\ AllExclusive /\ [Next]_vars
        => [\A q \in Questions :
              delivered[q] > 0 => question'[q] \in {"answered", "deleted"}]_vars
  <2> SUFFICES ASSUME TypeOK, AllExclusive, [Next]_vars, NEW q \in Questions, delivered[q] > 0
               PROVE  question'[q] \in {"answered", "deleted"}
    OBVIOUS
  <2>1. Exclusive(q)' /\ delivered'[q] >= delivered[q] /\ delivered[q] \in Nat
    BY ExclusiveNext DEF AllExclusive, TypeOK
  <2>2. delivered'[q] <= 1 /\ (delivered'[q] > 0 => question'[q] \in {"answered", "deleted"})
    BY <2>1 DEF Exclusive
  <2>3. TypeOK'
    BY NextTypeOK
  <2>4. delivered'[q] \in Nat
    BY <2>3 DEF TypeOK
  <2>5. delivered'[q] > 0
    BY <2>1, <2>4
  <2>6. QED
    BY <2>2, <2>5
<1>2. QED
  BY <1>1, TypeCorrect, AllExclusiveHolds, PTL DEF Spec, AnsweredForGood

-----------------------------------------------------------------------------
(* No task is left in progress with nobody at work on it.  A tracked       *)
(* session does not own its task to the end: whoever ends it takes the     *)
(* task out of progress first and the session from the map later, and the  *)
(* task may be dispatched anew in between.  So a session counts as owner   *)
(* only while no goroutine is past that point with it.                     *)

Ending == {"cancel", "complete", "fail", "failRetry", "stall"}

(* The calls of an ending handler after its move of the task, and those of *)
(* a dispatch after its INSERT, and while it has claimed the task.         *)
Past == {"cancelQuestions", "dispose"}
Claiming == {"prepare", "sessionRead", "sessionWrite", "start", "register"}
Created == Claiming \cup {"taskRead", "taskWrite"}
Reverting == {"sessionRead", "sessionWrite", "taskRead", "taskWrite"}

Leaving(l) == l.kind \in Ending /\ l.at \in Past

Owner(s, t) ==
  /\ s \in tracked /\ taskOf[s] = t
  /\ \A p \in Procs : Leaving(local[p]) => local[p].s # s

Owned ==
  \A t \in Tasks \ stranded :
    taskStatus[t] = "in_progress" =>
      (\E s \in Sessions : Owner(s, t)) \/ (\E p \in Procs : Claims(p, t))

(* Until a dispatch registers its session, nobody else has the session.    *)
Apart ==
  \A p \in Procs : local[p].kind = "dispatch" =>
    /\ local[p].s \notin tracked
    /\ \A o \in Procs \ {p} :
         local[o].kind \in Ending \cup {"dispatch"} => local[o].s # local[p].s

(* Sessions in the map, and those of dispatches past the INSERT, have rows.*)
HasRow ==
  /\ \A s \in tracked : status[s] # "absent"
  /\ \A p \in Procs : local[p].kind = "dispatch" /\ local[p].at \in Created =>
       status[local[p].s] # "absent" /\ taskOf[local[p].s] = local[p].task

(* When the repository stores the row under an id of its own, a dispatch   *)
(* never finds the row of its session, so no agent is ever started.        *)
Rowless ==
  /\ tracked = {}
  /\ \A p \in Procs :
       /\ local[p].kind \notin Ending
       /\ local[p].kind = "dispatch" =>
            status[local[p].s] = "absent" /\ local[p].at \notin {"sessionWrite", "start", "register"}

Rows == IF StoreKeepsID THEN HasRow ELSE Rowless

(* The row of a status change was read before: there is one.               *)
Written == \A p \in Procs : At(p, "sessionWrite") => status[local[p].s] # "absent"

OfTask == \A p \in Procs : local[p].kind \in Ending => local[p].task = taskOf[local[p].s]

IInv == TypeOK /\ Apart /\ Rows /\ Written /\ OfTask /\ Owned

-----------------------------------------------------------------------------
(* What one call makes of a goroutine's variables, as far as ownership is  *)
(* concerned: no handler turns into a dispatch or an ending, each keeps    *)
(* its session and its task, it comes past its points in order, and a      *)
(* claim is handed on until it is registered or reverted.                  *)
Kept(l, m) == m.s = l.s /\ m.task = l.task

Onward(l, m) ==
  /\ m.kind \in Ending \cup {"dispatch"} => m.kind = l.kind /\ Kept(l, m)
  /\ m.kind = "dispatch" /\ m.at \in Created =>
       l.at \in Created \/ (l.at = "create" /\ m.at = "taskRead")
  /\ Leaving(m) => l.at \in Past \cup {"taskRead", "taskWrite"}
  /\ l.kind = "dispatch" /\ l.at \in Claiming \ {"register"} =>
       /\ m.task = l.task
       /\ \/ m.kind = "dispatch" /\ m.at \in Claiming
          \/ m.kind = "revert" /\ m.at = "sessionRead"
  /\ l.kind = "revert" /\ l.at \in Reverting =>
       /\ m.kind = "revert" /\ m.task = l.task
       /\ l.at \in {"sessionRead", "sessionWrite"} => m.at \in Reverting

LEMMA GoToKeeps ==
  ASSUME NEW l \in Locals, NEW call
  PROVE  GoTo(l, call).at = call /\ GoTo(l, call).kind = l.kind /\ Kept(l, GoTo(l, call))
BY DEF GoTo, Locals, Kept

LEMMA TurnKeeps ==
  ASSUME NEW l \in Locals, NEW call, NEW kind
  PROVE  /\ Turn(l, kind, call).at = call /\ Turn(l, kind, call).kind = kind
         /\ Kept(l, Turn(l, kind, call))
BY DEF Turn, Locals, Kept

LEMMA IdleOnward ==
  ASSUME NEW l, l.kind \notin {"dispatch", "revert"} \/ l.at \notin Claiming \cup Reverting
  PROVE  Onward(l, Idle)
BY DEF Onward, Idle, Ending, Claiming, Reverting, Leaving

LEMMA DispatchFailedOnward ==
  ASSUME NEW l \in Locals, l.at \notin Claiming \cup Reverting \/ l.kind = "cleanup"
  PROVE  Onward(l, DispatchFailed(l))
<1>1. GoTo(l, "reschedule").at = "reschedule" /\ GoTo(l, "reschedule").kind = l.kind
      /\ Kept(l, GoTo(l, "reschedule"))
  BY GoToKeeps
<1>2. CASE l.old = None
  BY <1>2, IdleOnward DEF DispatchFailed
<1>3. CASE l.old # None
  BY <1>1, <1>3 DEF DispatchFailed, Onward, Ending, Claiming, Created, Reverting, Past, Leaving
<1>4. QED
  BY <1>2, <1>3

(* UpdateStatus has returned; a dispatch or its revert goes on.            *)
LEMMA AfterSessionOnward ==
  ASSUME NEW l \in Locals, Makes(l.kind, l.at), l.at \in {"sessionRead", "sessionWrite"}
  PROVE  Onward(l, AfterSession(l))
<1>1. ASSUME NEW call \in Calls \ Past, l.kind = "revert" => call \in Reverting,
             l.kind = "dispatch" => call \in Claiming
      PROVE  Onward(l, GoTo(l, call))
  <2>1. GoTo(l, call).at = call /\ GoTo(l, call).kind = l.kind /\ Kept(l, GoTo(l, call))
    BY GoToKeeps
  <2>2. QED
    BY <1>1, <2>1 DEF Onward, Ending, Claiming, Created, Reverting, Past, Leaving, Kept
<1>2. {"start", "schedule", "prompt", "reopen", "taskRead"} \subseteq Calls \ Past
  BY DEF Calls, Past
<1>3. CASE l.kind = "dispatch"
  BY <1>1, <1>2, <1>3 DEF AfterSession, Claiming
<1>4. CASE l.kind = "cleanup"
  BY <1>4, DispatchFailedOnward DEF AfterSession
<1>5. CASE l.kind = "ask"
  BY <1>5, IdleOnward DEF AfterSession
<1>6. CASE l.kind \in {"failRetry", "answer", "rollback"}
  <2>1. \E call \in {"schedule", "prompt", "reopen"} : AfterSession(l) = GoTo(l, call)
    BY <1>6 DEF AfterSession
  <2>2. QED
    BY <1>1, <1>2, <1>6, <2>1
<1>7. CASE l.kind \notin {"dispatch", "cleanup", "ask", "failRetry", "answer", "rollback"}
  <2>1. AfterSession(l) = GoTo(l, "taskRead")
    BY <1>7 DEF AfterSession
  <2>2. QED
    BY <1>1, <1>2, <1>7, <2>1 DEF Reverting
<1>8. QED
  BY <1>3, <1>4, <1>5, <1>6, <1>7

LEMMA SessionRefusedOnward ==
  ASSUME NEW l \in Locals, Makes(l.kind, l.at), l.at \in {"sessionRead", "sessionWrite"}
  PROVE  Onward(l, SessionRefused(l))
<1>1. CASE l.kind = "dispatch"
  <2>1. SessionRefused(l) = Turn(l, "revert", "sessionRead")
    BY <1>1 DEF SessionRefused
  <2>2. QED
    BY <1>1, <2>1, TurnKeeps DEF Onward, Ending, Claiming, Reverting, Past, Leaving, Kept
<1>2. CASE l.kind \in {"ask", "answer", "rollback", "unavailable"}
  <2>1. PICK call \in {"drop", "reopen"} : SessionRefused(l) = GoTo(l, call)
    BY <1>2 DEF SessionRefused
  <2>2. QED
    BY <1>2, <2>1, GoToKeeps DEF Onward, Ending, Claiming, Reverting, Past, Leaving, Kept
<1>3. CASE l.kind \in {"cleanup", "revert", "stall"}
  BY <1>3, AfterSessionOnward DEF SessionRefused
<1>4. CASE l.kind \notin {"dispatch", "ask", "answer", "rollback", "unavailable",
                         "cleanup", "revert", "stall"}
  BY <1>4, IdleOnward DEF SessionRefused
<1>5. QED
  BY <1>1, <1>2, <1>3, <1>4

(* Every call moves its goroutine on in this way.                          *)
LEMMA StepOnward ==
  ASSUME TypeOK, NEW p \in Procs, Step(p)
  PROVE  \E m : Continue(p, m) /\ Onward(local[p], m)
<1> DEFINE l == local[p]
<1>1. l \in Locals /\ Makes(l.kind, l.at)
  BY TypeParts DEF LocalTypeOK, WellFormed
<1>2. ASSUME NEW call PROVE /\ GoTo(l, call).at = call /\ GoTo(l, call).kind = l.kind
                            /\ Kept(l, GoTo(l, call))
  BY <1>1, GoToKeeps
<1>3. ASSUME NEW call, NEW kind
      PROVE  /\ Turn(l, kind, call).at = call /\ Turn(l, kind, call).kind = kind
             /\ Kept(l, Turn(l, kind, call))
  BY <1>1, TurnKeeps
<1>4. ASSUME l.kind \notin {"dispatch", "revert"} \/ l.at \notin Claiming \cup Reverting
      PROVE  Onward(l, Idle)
  BY <1>4, IdleOnward
<1>5. ASSUME l.at \notin Claiming \cup Reverting \/ l.kind = "cleanup"
      PROVE  Onward(l, DispatchFailed(l))
  BY <1>1, <1>5, DispatchFailedOnward
<1> HIDE DEF l
<1> USE DEF At, Ending, Past, Claiming, Created, Reverting, Leaving
<1>10. CASE SessionRead(p)
  <2>1. l.at = "sessionRead" /\ Makes(l.kind, "sessionRead")
    BY <1>1, <1>10 DEF SessionRead, l
  <2>2. Onward(l, GoTo(l, "sessionWrite"))
    BY <1>2, <2>1 DEF Onward, Kept
  <2>3. Onward(l, SessionRefused(l))
    BY <1>1, <2>1, SessionRefusedOnward
  <2>4. QED
    BY <1>10, <2>2, <2>3 DEF SessionRead, l
<1>11. CASE SessionWrite(p)
  <2>1. l.at = "sessionWrite" /\ Makes(l.kind, "sessionWrite")
    BY <1>1, <1>11 DEF SessionWrite, l
  <2>2. Onward(l, AfterSession(l))
    BY <1>1, <2>1, AfterSessionOnward
  <2>3. Onward(l, SessionRefused(l))
    BY <1>1, <2>1, SessionRefusedOnward
  <2>4. QED
    BY <1>11, <2>2, <2>3 DEF SessionWrite, l
<1>12. CASE TaskRead(p)
  <2>1. l.at = "taskRead" /\ Makes(l.kind, "taskRead")
    BY <1>1, <1>12 DEF TaskRead, l
  <2>2. Onward(l, GoTo(l, "taskWrite"))
    BY <1>2, <2>1 DEF Onward, Kept
  <2>3. Onward(l, TaskRefused(l))
    BY <1>2, <1>3, <1>4, <2>1 DEF Onward, Kept, TaskRefused, AfterTask, Makes
  <2>4. QED
    BY <1>12, <2>2, <2>3 DEF TaskRead, l
<1>13. CASE TaskWrite(p)
  <2>1. l.at = "taskWrite" /\ Makes(l.kind, "taskWrite")
    BY <1>1, <1>13 DEF TaskWrite, l
  <2>2. Onward(l, AfterTask(l)) /\ Onward(l, TaskRefused(l))
    BY <1>2, <1>3, <1>4, <2>1 DEF Onward, Kept, TaskRefused, AfterTask, Makes
  <2>3. QED
    BY <1>13, <2>2 DEF TaskWrite, l
<1>14. CASE LoadTask(p) \/ CreateSession(p)
  <2>1. l.at \in {"load", "create"}
    BY <1>14 DEF LoadTask, CreateSession, l
  <2>2. Onward(l, DispatchFailed(l))
    BY <1>5, <2>1
  <2>3. CASE LoadTask(p)
    <3>1. Onward(l, GoTo(l, "create"))
      BY <1>2, <2>1 DEF Onward, Kept
    <3>2. QED
      BY <2>2, <2>3, <3>1 DEF LoadTask, l
  <2>4. CASE CreateSession(p)
    <3>1. l.at = "create" /\ Onward(l, GoTo(l, "taskRead"))
      BY <1>2, <2>1, <2>4 DEF Onward, Kept, CreateSession, l
    <3>2. QED
      BY <2>2, <2>4, <3>1 DEF CreateSession, l
  <2>5. QED
    BY <1>14, <2>3, <2>4
<1>15. CASE Prepare(p)
  <2>1. l.at = "prepare" /\ l.kind = "dispatch"
    BY <1>1, <1>15 DEF Prepare, Makes, l
  <2>2. Onward(l, GoTo(l, "sessionRead")) /\ Onward(l, Turn(l, "revert", "sessionRead"))
    BY <1>2, <1>3, <2>1 DEF Onward, Kept
  <2>3. QED
    BY <1>15, <2>2 DEF Prepare, l
<1>16. CASE StartBackend(p)
  <2>1. l.at = "start" /\ l.kind = "dispatch"
    BY <1>1, <1>16 DEF StartBackend, Makes, l
  <2>2. Onward(l, GoTo(l, "register")) /\ Onward(l, Turn(l, "revert", "sessionRead"))
    BY <1>2, <1>3, <2>1 DEF Onward, Kept
  <2>3. QED
    BY <1>16, <2>2 DEF StartBackend, l
<1>17. CASE Register(p)
  <2>1. Onward(l, Idle)
    BY <1>17 DEF Register, Onward, Idle, l
  <2>2. QED
    BY <1>17, <2>1 DEF Register, l
<1>18. CASE StopBackend(p) \/ ScheduleRetry(p) \/ ClaimRetry(p) \/ Reschedule(p)
  <2>1. l.at \in {"stop", "schedule", "claimRetry", "reschedule"}
    BY <1>18 DEF StopBackend, ScheduleRetry, ClaimRetry, Reschedule, l
  <2>2. Onward(l, Idle)
    BY <1>4, <2>1
  <2>3. l.at \in {"stop", "schedule"} => l.kind \in {"cancel", "stall", "failRetry"}
    BY <1>1, <2>1 DEF Makes
  <2>4. ASSUME l.at \in {"stop", "schedule"}, NEW call \in {"sessionRead", "taskRead"}
        PROVE  Onward(l, GoTo(l, call))
    BY <1>2, <2>3, <2>4 DEF Onward, Kept
  <2>5. Onward(l, GoTo(l, "load"))
    BY <1>2, <2>1 DEF Onward, Kept
  <2>6. CASE StopBackend(p)
    BY <2>4, <2>6 DEF StopBackend, l
  <2>7. CASE ScheduleRetry(p)
    BY <2>2, <2>4, <2>7 DEF ScheduleRetry, l
  <2>8. CASE ClaimRetry(p) \/ Reschedule(p)
    BY <2>2, <2>5, <2>8 DEF ClaimRetry, Reschedule, SetRetry, l
  <2>9. QED
    BY <1>18, <2>6, <2>7, <2>8
<1>19. CASE CancelQuestions(p)
  <2>1. l.at = "cancelQuestions"
    BY <1>19 DEF CancelQuestions, l
  <2>2. Onward(l, Idle) /\ Onward(l, GoTo(l, "dispose"))
    BY <1>2, <1>4, <2>1 DEF Onward, Kept
  <2>3. QED
    BY <1>19, <2>2 DEF CancelQuestions, AfterQuestions, l
<1>20. CASE Dispose(p)
  <2>1. l.at = "dispose"
    BY <1>20 DEF Dispose, l
  <2>2. Onward(l, Idle) /\ Onward(l, DispatchFailed(l))
    BY <1>4, <1>5, <2>1
  <2>3. QED
    BY <1>20, <2>2 DEF Dispose, AfterDispose, l
<1>21. CASE \/ OpenQuestion(p) \/ DropQuestion(p) \/ RecordAnswer(p) \/ ResumeSession(p)
            \/ SendPrompt(p) \/ ReopenQuestion(p)
  <2>1. l.at \in {"open", "drop", "record", "resume", "prompt", "reopen"}
    BY <1>21 DEF OpenQuestion, DropQuestion, RecordAnswer, ResumeSession, SendPrompt,
                 ReopenQuestion, l
  <2>2. l.kind \in {"ask", "answer", "rollback", "unavailable"}
    BY <1>1, <2>1 DEF Makes
  <2>3. Onward(l, Idle)
    BY <1>4, <2>2
  <2>4. ASSUME NEW call PROVE Onward(l, GoTo(l, call))
    BY <1>2, <2>2 DEF Onward, Kept
  <2>5. ASSUME NEW call, NEW kind \in {"unavailable", "rollback"}
        PROVE  Onward(l, Turn(l, kind, call))
    BY <1>3, <2>2 DEF Onward, Kept
  <2>6. CASE OpenQuestion(p)
    BY <2>3, <2>4, <2>6 DEF OpenQuestion, l
  <2>7. CASE DropQuestion(p) \/ ReopenQuestion(p)
    BY <2>3, <2>7 DEF DropQuestion, ReopenQuestion, l
  <2>8. CASE RecordAnswer(p)
    BY <2>3, <2>4, <2>8 DEF RecordAnswer, l
  <2>9. CASE ResumeSession(p)
    BY <2>3, <2>4, <2>5, <2>9 DEF ResumeSession, l
  <2>10. CASE SendPrompt(p)
    BY <2>3, <2>5, <2>10 DEF SendPrompt, l
  <2>11. QED
    BY <1>21, <2>6, <2>7, <2>8, <2>9, <2>10
<1>30. QED
  BY <1>10, <1>11, <1>12, <1>13, <1>14, <1>15, <1>16, <1>17, <1>18, <1>19, <1>20, <1>21
     DEF Step, l

(* Other goroutines are where they were.                                   *)
LEMMA StepMoves ==
  ASSUME TypeOK, NEW p \in Procs, Step(p)
  PROVE  /\ Onward(local[p], local'[p])
         /\ \A o \in Procs \ {p} : local'[o] = local[o]
<1>1. PICK m : Continue(p, m) /\ Onward(local[p], m)
  BY StepOnward
<1>2. local' = [local EXCEPT ![p] = m] /\ DOMAIN local = Procs
  BY <1>1, TypeParts DEF Continue, LocalTypeOK
<1>3. QED
  BY <1>1, <1>2

-----------------------------------------------------------------------------
(* What one call makes of the sessions' rows and of the map: rows stay, an *)
(* INSERT is of the dispatch's own session or of one that nobody knows,    *)
(* and what enters the map is the dispatch's own.                          *)
LEMMA StoreStep ==
  ASSUME TypeOK, NEW p \in Procs, Step(p)
  PROVE  /\ \A s \in Sessions : status[s] # "absent" => status'[s] # "absent"
         /\ \A s \in Sessions : status'[s] # status[s] =>
              \/ At(p, "sessionWrite") /\ s = local[p].s
              \/ At(p, "create") /\ (StoreKeepsID \/ FreshSession(s))
         /\ StoreKeepsID =>
              /\ \A s \in Sessions : ~At(p, "create") \/ s # local[p].s => taskOf'[s] = taskOf[s]
              /\ At(p, "create") /\ local'[p].at = "taskRead" =>
                   status'[local[p].s] # "absent" /\ taskOf'[local[p].s] = local[p].task
         /\ \A s \in tracked' : s \in tracked \/ (At(p, "register") /\ s = local[p].s)
         /\ \A s \in tracked : s \in tracked' \/ (Leaving(local[p]) /\ s = local[p].s)
         /\ At(p, "register") => local'[p] = Idle /\ local[p].s \in tracked'
<1> DEFINE l == local[p]
<1>1. /\ l \in Locals /\ Makes(l.kind, l.at) /\ (l.kind \notin {"none", "move"} => l.s \in Sessions)
      /\ local \in [Procs -> Locals]
  BY TypeParts DEF LocalTypeOK, WellFormed
<1>2. /\ status \in [Sessions -> SessionStatuses \cup {"absent"}]
      /\ taskOf \in [Sessions -> Tasks \cup {None}]
  BY TypeParts DEF StoreTypeOK
<1>3. CASE SessionWrite(p)
  <2>1. SessionTarget(l) \in SessionStatuses /\ l.at = "sessionWrite"
    BY <1>3 DEF SessionWrite, At, SessionTarget, SessionStatuses
  <2>2. UNCHANGED <<taskOf, tracked>>
    BY <1>3 DEF SessionWrite, memory
  <2>3. \A s \in Sessions : status'[s] = status[s] \/ (s = l.s /\ status'[s] = SessionTarget(l))
    BY <1>2, <1>3 DEF SessionWrite
  <2>4. QED
    BY <2>1, <2>2, <2>3 DEF At, SessionStatuses
<1>4. CASE CreateSession(p)
  <2>1. l.at = "create" /\ l.kind = "dispatch" /\ l.s \in Sessions
    BY <1>1, <1>4 DEF CreateSession, At, Makes
  <2>2. tracked' = tracked
    BY <1>4 DEF CreateSession, memory
  <2>3. DispatchFailed(l).at # "taskRead"
    BY <1>1, GoToKeeps DEF DispatchFailed, Idle
  <2>4. \/ \E row \in Sessions : Insert(l, row)
        \/ local'[p].at # "taskRead" /\ UNCHANGED <<status, taskOf>>
    BY <1>1, <1>4, <2>3 DEF CreateSession, Continue
  <2>5. ASSUME NEW row \in Sessions, Insert(l, row)
        PROVE  /\ \A s \in Sessions : IF s = row THEN status'[s] = "pending" ELSE status'[s] = status[s]
               /\ \A s \in Sessions : taskOf'[s] = IF s = row THEN l.task ELSE taskOf[s]
               /\ IF StoreKeepsID THEN row = l.s ELSE FreshSession(row)
    BY <1>2, <2>5 DEF Insert
  <2>6. QED
    BY <2>1, <2>2, <2>4, <2>5 DEF At
<1>5. CASE Register(p)
  <2>1. /\ l.at = "register" /\ tracked' = tracked \cup {l.s} /\ UNCHANGED <<status, taskOf>>
        /\ local'[p] = Idle
    BY <1>1, <1>5 DEF Register, At, Continue, rows
  <2>2. QED
    BY <2>1 DEF At
<1>6. CASE Dispose(p)
  <2>1. l.at = "dispose" /\ UNCHANGED <<status, taskOf>>
    BY <1>6 DEF Dispose, At, rows
  <2>2. tracked' = IF l.kind = "revert" THEN tracked ELSE tracked \ {l.s}
    BY <1>6 DEF Dispose
  <2>3. l.kind # "revert" => Leaving(l)
    BY <1>1, <2>1 DEF Makes, Leaving, Ending, Past
  <2>4. QED
    BY <2>1, <2>2, <2>3 DEF At
<1>7. CASE ~(SessionWrite(p) \/ CreateSession(p) \/ Register(p) \/ Dispose(p))
  <2>1. UNCHANGED <<status, taskOf, tracked>> /\ l.at \notin {"create", "register"}
    BY <1>7 DEF Step, SessionRead, TaskRead, TaskWrite, LoadTask, Prepare, StartBackend, StopBackend,
      ScheduleRetry, CancelQuestions, ClaimRetry, Reschedule, OpenQuestion, DropQuestion,
      RecordAnswer, ResumeSession, SendPrompt, ReopenQuestion, SetRetry, rows, memory, At
  <2>2. QED
    BY <2>1 DEF At
<1>8. QED
  BY <1>3, <1>4, <1>5, <1>6, <1>7

(* What one call makes of a task that is in progress after it and not      *)
(* stranded: only a dispatch puts one there, and an ending or a revert     *)
(* that is done with its move has taken it out of progress.                *)
LEMMA TaskStep ==
  ASSUME TypeOK, NEW p \in Procs, Step(p), NEW t \in Tasks,
         taskStatus'[t] = "in_progress", t \notin stranded'
  PROVE  /\ (taskStatus[t] = "in_progress" /\ t \notin stranded) \/ Claims(p, t)'
         /\ local[p].kind \in Ending \cup {"revert"} /\ local[p].task = t =>
              (At(p, "taskRead") => At(p, "taskWrite")') /\ ~At(p, "taskWrite")
<1> DEFINE l == local[p]
<1>1. l \in Locals /\ Makes(l.kind, l.at) /\ local \in [Procs -> Locals]
  BY TypeParts DEF LocalTypeOK, WellFormed
<1>2. taskStatus \in [Tasks -> TaskStatuses]
  BY TypeParts DEF StoreTypeOK
<1>3. l.kind \in Ending \cup {"revert"} => TaskTarget(l) \in {"backlog", "review"}
  BY DEF TaskTarget, Ending
<1>4. CASE TaskWrite(p)
  <2>1. \/ /\ taskStatus' = [taskStatus EXCEPT ![l.task] = TaskTarget(l)]
           /\ stranded' = IF l.kind = "move" /\ l.to = "in_progress"
                          THEN stranded \cup {l.task} ELSE stranded \ {l.task}
           /\ Continue(p, AfterTask(l))
        \/ /\ taskStatus' \in {taskStatus, [taskStatus EXCEPT ![l.task] = TaskTarget(l)]}
           /\ stranded' = IF taskStatus'[l.task] = "in_progress"
                          THEN stranded \cup {l.task} ELSE stranded \ {l.task}
    BY <1>4 DEF TaskWrite
  <2>2. CASE t # l.task
    <3>1. taskStatus'[t] = taskStatus[t] /\ (t \in stranded => t \in stranded')
      BY <1>2, <2>1, <2>2
    <3>2. QED
      BY <2>2, <3>1
  <2>3. CASE t = l.task
    <3>1. /\ taskStatus' = [taskStatus EXCEPT ![t] = TaskTarget(l)]
          /\ ~(l.kind = "move" /\ l.to = "in_progress")
          /\ Continue(p, AfterTask(l))
      BY <2>1, <2>3
    <3>2. TaskTarget(l) = "in_progress"
      BY <1>2, <3>1
    <3>3. l.kind = "dispatch"
      BY <3>1, <3>2 DEF TaskTarget
    <3>4. local'[p] = GoTo(l, "prepare")
      BY <1>1, <3>1, <3>3 DEF AfterTask, Continue
    <3>5. local'[p].at = "prepare" /\ local'[p].kind = "dispatch" /\ local'[p].task = t
      BY <1>1, <2>3, <3>3, <3>4, GoToKeeps DEF Kept
    <3>6. Claims(p, t)'
      BY <3>5 DEF Claims
    <3>7. QED
      BY <3>3, <3>6 DEF Ending
  <2>4. QED
    BY <2>2, <2>3
<1>5. CASE TaskRead(p)
  <2>1. l.at = "taskRead" /\ taskStatus' = taskStatus
    BY <1>5 DEF TaskRead, At, rows
  <2>2. PICK ok \in Outcomes(p) :
          /\ Continue(p, IF ok /\ CanTransition(TaskEdges, taskStatus[l.task], TaskTarget(l))
                         THEN GoTo(l, "taskWrite") ELSE TaskRefused(l))
          /\ stranded' = IF ~ok /\ l.kind \notin {"dispatch", "move"}
                            /\ taskStatus[l.task] = "in_progress"
                         THEN stranded \cup {l.task} ELSE stranded
    BY <1>5 DEF TaskRead
  <2>3. ASSUME l.kind \in Ending \cup {"revert"}, l.task = t PROVE local'[p].at = "taskWrite"
    <3>1. CanTransition(TaskEdges, taskStatus[t], TaskTarget(l))
      BY <1>3, <2>1, <2>3 DEF CanTransition, TaskEdges
    <3>2. ok
      BY <2>1, <2>2, <2>3 DEF Ending
    <3>3. Continue(p, GoTo(l, "taskWrite"))
      BY <2>2, <2>3, <3>1, <3>2
    <3>4. QED
      BY <1>1, <3>3, GoToKeeps DEF Continue
  <2>4. t \notin stranded
    BY <2>2
  <2>5. QED
    BY <2>1, <2>3, <2>4 DEF At
<1>6. CASE ~(TaskWrite(p) \/ TaskRead(p))
  <2>1. taskStatus' = taskStatus /\ stranded' = stranded /\ l.at \notin {"taskRead", "taskWrite"}
    BY <1>6 DEF Step, SessionRead, SessionWrite, LoadTask, CreateSession, Prepare, StartBackend,
      Register, StopBackend, ScheduleRetry, CancelQuestions, Dispose, ClaimRetry, Reschedule,
      OpenQuestion, DropQuestion, RecordAnswer, ResumeSession, SendPrompt, ReopenQuestion, SetRetry,
      rows, history, At
  <2>2. QED
    BY <2>1 DEF At
<1>7. QED
  BY <1>4, <1>5, <1>6

-----------------------------------------------------------------------------
(* A status is only written after the row was read.                        *)
LEMMA WriteAfterRead ==
  ASSUME TypeOK, NEW p \in Procs, Step(p), local'[p].at = "sessionWrite"
  PROVE  local'[p].s = local[p].s /\ status[local[p].s] # "absent" /\ status' = status
<1> DEFINE l == local[p]
<1>1. l \in Locals /\ local \in [Procs -> Locals]
  BY TypeParts DEF LocalTypeOK, WellFormed
<1>2. \A m : Continue(p, m) => local'[p] = m
  BY <1>1 DEF Continue
<1>3. \A call : GoTo(l, call).at = call /\ GoTo(l, call).s = l.s
  BY <1>1, GoToKeeps DEF Kept
<1>4. \A call, kind : Turn(l, kind, call).at = call
  BY <1>1, TurnKeeps
<1>5. Idle.at = "idle"
  BY DEF Idle
<1> HIDE DEF l
<1>6. DispatchFailed(l).at # "sessionWrite"
  BY <1>3, <1>5 DEF DispatchFailed
<1>7. AfterSession(l).at # "sessionWrite"
  BY <1>3, <1>5, <1>6 DEF AfterSession
<1>8. SessionRefused(l).at # "sessionWrite"
  BY <1>3, <1>4, <1>5, <1>7 DEF SessionRefused
<1>9. AfterTask(l).at # "sessionWrite" /\ TaskRefused(l).at # "sessionWrite"
  BY <1>3, <1>4, <1>5 DEF AfterTask, TaskRefused
<1>10. CASE SessionRead(p)
  <2>1. PICK ok \in Outcomes(p) :
          Continue(p, IF ok /\ CanTransition(SessionEdges, status[l.s], SessionTarget(l))
                      THEN GoTo(l, "sessionWrite") ELSE SessionRefused(l))
    BY <1>10 DEF SessionRead, l
  <2>2. CanTransition(SessionEdges, status[l.s], SessionTarget(l)) /\ local'[p] = GoTo(l, "sessionWrite")
    BY <1>2, <1>8, <2>1
  <2>3. status[l.s] # "absent"
    BY <2>2 DEF CanTransition, SessionEdges
  <2>4. QED
    BY <1>3, <1>10, <2>2, <2>3 DEF SessionRead, rows, l
<1>11. CASE SessionWrite(p)
  BY <1>2, <1>7, <1>8, <1>11 DEF SessionWrite, l
<1>12. CASE TaskRead(p) \/ TaskWrite(p)
  BY <1>2, <1>3, <1>9, <1>12 DEF TaskRead, TaskWrite, l
<1>13. CASE LoadTask(p) \/ CreateSession(p) \/ Prepare(p) \/ StartBackend(p) \/ Register(p)
  BY <1>2, <1>3, <1>4, <1>5, <1>6, <1>13
     DEF LoadTask, CreateSession, Prepare, StartBackend, Register, l
<1>14. CASE StopBackend(p) \/ ScheduleRetry(p) \/ CancelQuestions(p) \/ Dispose(p)
  BY <1>2, <1>3, <1>5, <1>6, <1>14
     DEF StopBackend, ScheduleRetry, CancelQuestions, AfterQuestions, Dispose, AfterDispose, l
<1>15. CASE ClaimRetry(p) \/ Reschedule(p) \/ OpenQuestion(p) \/ DropQuestion(p) \/ RecordAnswer(p)
  BY <1>2, <1>3, <1>5, <1>15
     DEF ClaimRetry, Reschedule, SetRetry, OpenQuestion, DropQuestion, RecordAnswer, l
<1>16. CASE ResumeSession(p) \/ SendPrompt(p) \/ ReopenQuestion(p)
  <2>1. CASE ResumeSession(p)
    BY <1>2, <1>3, <1>4, <1>5, <2>1 DEF ResumeSession, l
  <2>2. CASE SendPrompt(p)
    <3>1. Continue(p, Idle) \/ Continue(p, Turn(l, "rollback", "sessionRead"))
      BY <2>2 DEF SendPrompt, l
    <3>2. QED
      BY <1>2, <1>4, <1>5, <3>1
  <2>3. CASE ReopenQuestion(p)
    BY <1>2, <1>5, <2>3 DEF ReopenQuestion
  <2>4. QED
    BY <1>16, <2>1, <2>2, <2>3
<1>17. QED
  BY <1>10, <1>11, <1>12, <1>13, <1>14, <1>15, <1>16 DEF Step

(* A dispatch that finds no row of its session gives up before it starts   *)
(* an agent.                                                               *)
LEMMA NoRowNoAgent ==
  ASSUME TypeOK, NEW p \in Procs, Step(p),
         local[p].kind = "dispatch", status[local[p].s] = "absent",
         local[p].at \notin {"sessionWrite", "start", "register"},
         local'[p].kind = "dispatch"
  PROVE  local'[p].at \notin {"sessionWrite", "start", "register"}
<1> DEFINE l == local[p]
<1>1. l \in Locals /\ Makes(l.kind, l.at) /\ local \in [Procs -> Locals]
  BY TypeParts DEF LocalTypeOK, WellFormed
<1>2. \A m : Continue(p, m) => local'[p] = m
  BY <1>1 DEF Continue
<1>3. \A call : GoTo(l, call).at = call
  BY <1>1, GoToKeeps
<1>4. \A call, kind : Turn(l, kind, call).kind = kind
  BY <1>1, TurnKeeps
<1>5. Idle.at = "idle"
  BY DEF Idle
<1>6. DispatchFailed(l).at \notin {"sessionWrite", "start", "register"}
  BY <1>3, <1>5 DEF DispatchFailed
<1>7. local'[p].at # "sessionWrite"
  BY WriteAfterRead
<1>8. l.at \in {"claimRetry", "load", "create", "taskRead", "taskWrite", "prepare", "sessionRead",
                "reschedule"}
  BY <1>1 DEF Makes, Locals, Calls
<1> HIDE DEF l
<1>9. CASE SessionRead(p)
  <2>1. Continue(p, SessionRefused(l))
    BY <1>9 DEF SessionRead, CanTransition, SessionEdges, l
  <2>2. local'[p].kind = "revert"
    BY <1>2, <1>4, <2>1 DEF SessionRefused, l
  <2>3. QED
    BY <2>2
<1>10. CASE TaskRead(p) \/ TaskWrite(p)
  <2>1. TaskRefused(l) = Turn(l, "cleanup", "sessionRead") /\ AfterTask(l) = GoTo(l, "prepare")
    BY DEF TaskRefused, AfterTask, l
  <2>2. \/ Continue(p, GoTo(l, "taskWrite")) \/ Continue(p, TaskRefused(l))
        \/ Continue(p, AfterTask(l))
    BY <1>10 DEF TaskRead, TaskWrite, l
  <2>3. local'[p].at \in {"taskWrite", "prepare"} \/ local'[p].kind = "cleanup"
    BY <1>2, <1>3, <1>4, <2>1, <2>2
  <2>4. QED
    BY <2>3
<1>11. CASE LoadTask(p) \/ CreateSession(p) \/ Prepare(p)
  <2>1. \/ \E call \in {"create", "taskRead", "sessionRead"} : Continue(p, GoTo(l, call))
        \/ Continue(p, DispatchFailed(l)) \/ Continue(p, Turn(l, "revert", "sessionRead"))
    BY <1>11 DEF LoadTask, CreateSession, Prepare, l
  <2>2. QED
    BY <1>2, <1>3, <1>4, <1>6, <2>1
<1>12. CASE ClaimRetry(p) \/ Reschedule(p)
  BY <1>2, <1>3, <1>5, <1>12 DEF ClaimRetry, Reschedule, SetRetry, l
<1>13. QED
  BY <1>8, <1>9, <1>10, <1>11, <1>12
     DEF Step, At, SessionWrite, StartBackend, Register, StopBackend, ScheduleRetry,
         CancelQuestions, Dispose, OpenQuestion, DropQuestion, RecordAnswer, ResumeSession,
         SendPrompt, ReopenQuestion, l

(* Preservation by the calls of handlers under way.                        *)
LEMMA StepApart ==
  ASSUME IInv, NEW p \in Procs, Step(p)
  PROVE  Apart' /\ Rows' /\ Written' /\ OfTask'
<1> DEFINE l == local[p]  m == local'[p]
<1>1. Onward(l, m) /\ \A o \in Procs \ {p} : local'[o] = local[o]
  BY StepMoves DEF IInv
<1>2. /\ \A s \in Sessions : status[s] # "absent" => status'[s] # "absent"
      /\ \A s \in Sessions : status'[s] # status[s] =>
           \/ At(p, "sessionWrite") /\ s = l.s
           \/ At(p, "create") /\ (StoreKeepsID \/ FreshSession(s))
      /\ StoreKeepsID =>
           /\ \A s \in Sessions : ~At(p, "create") \/ s # l.s => taskOf'[s] = taskOf[s]
           /\ At(p, "create") /\ m.at = "taskRead" =>
                status'[l.s] # "absent" /\ taskOf'[l.s] = l.task
      /\ \A s \in tracked' : s \in tracked \/ (At(p, "register") /\ s = l.s)
      /\ At(p, "register") => m = Idle
  BY StoreStep DEF IInv
<1>3. \A o \in Procs : /\ Makes(local[o].kind, local[o].at)
                       /\ local[o].kind \notin {"none", "move"} => local[o].s \in Sessions
  BY TypeParts DEF IInv, LocalTypeOK, WellFormed
<1>4. At(p, "register") \/ At(p, "create") => l.kind = "dispatch"
  BY <1>3 DEF At, Makes
<1>5. m.kind \in Ending \cup {"dispatch"} =>
        m.kind = l.kind /\ m.s = l.s /\ m.task = l.task /\ ~At(p, "register")
  <2>1. m = Idle => m.kind \notin Ending \cup {"dispatch"}
    BY DEF Idle, Ending
  <2>2. QED
    BY <1>1, <1>2, <2>1 DEF Onward, Kept
<1>6. Apart /\ Rows /\ Written /\ OfTask /\ tracked \subseteq Sessions
  BY TypeParts DEF IInv, StoreTypeOK
<1> HIDE DEF l, m
<1>7. Apart'
  <2>1. SUFFICES ASSUME NEW q \in Procs, local'[q].kind = "dispatch"
                 PROVE  /\ local'[q].s \notin tracked'
                        /\ \A o \in Procs \ {q} : local'[o].kind \in Ending \cup {"dispatch"} =>
                             local'[o].s # local'[q].s
    BY DEF Apart
  <2>2. local[q].kind = "dispatch" /\ local'[q].s = local[q].s
    BY <1>1, <1>5, <2>1 DEF l, m
  <2>3. \A o \in Procs : local'[o].kind \in Ending \cup {"dispatch"} =>
          local[o].kind \in Ending \cup {"dispatch"} /\ local'[o].s = local[o].s
    BY <1>1, <1>5 DEF l, m
  <2>4. local[q].s \notin tracked'
    <3>1. CASE q = p
      BY <1>2, <1>5, <1>6, <2>1, <2>2, <3>1 DEF Apart, l, m
    <3>2. CASE q # p
      BY <1>2, <1>4, <1>6, <2>2, <3>2 DEF Apart, l
    <3>3. QED
      BY <3>1, <3>2
  <2>5. QED
    BY <1>6, <2>2, <2>3, <2>4 DEF Apart
<1>8. ASSUME StoreKeepsID PROVE HasRow'
  <2>0. HasRow
    BY <1>6, <1>8 DEF Rows
  <2>1. ASSUME NEW s \in tracked' PROVE status'[s] # "absent"
    <3>1. CASE s \in tracked
      BY <1>2, <1>6, <2>0, <3>1 DEF HasRow
    <3>2. CASE At(p, "register") /\ s = l.s
      BY <1>2, <1>3, <1>4, <2>0, <3>2 DEF HasRow, Created, Claiming, At, l
    <3>3. QED
      BY <1>2, <2>1, <3>1, <3>2
  <2>2. ASSUME NEW q \in Procs, local'[q].kind = "dispatch", local'[q].at \in Created
        PROVE  status'[local'[q].s] # "absent" /\ taskOf'[local'[q].s] = local'[q].task
    <3>1. CASE q # p
      <4>1. local'[q] = local[q] /\ local[q].s \in Sessions
        BY <1>1, <1>3, <2>2, <3>1
      <4>2. status[local[q].s] # "absent" /\ taskOf[local[q].s] = local[q].task
        BY <2>0, <2>2, <4>1 DEF HasRow
      <4>3. ~At(p, "create") \/ local[q].s # l.s
        BY <1>4, <1>6, <2>2, <3>1, <4>1 DEF Apart, l
      <4>4. QED
        BY <1>2, <1>8, <4>1, <4>2, <4>3
    <3>2. CASE q = p
      <4>1. l.kind = "dispatch" /\ m.s = l.s /\ m.task = l.task /\ l.s \in Sessions
        BY <1>3, <1>5, <2>2, <3>2 DEF l, m
      <4>2. l.at \in Created \/ (l.at = "create" /\ m.at = "taskRead")
        BY <1>1, <2>2, <3>2 DEF Onward, m
      <4>3. CASE l.at = "create"
        <5>1. m.at = "taskRead"
          BY <4>2, <4>3 DEF Created, Claiming
        <5>2. QED
          BY <1>2, <1>8, <3>2, <4>1, <4>3, <5>1 DEF At, l, m
      <4>4. CASE l.at \in Created
        BY <1>2, <1>8, <2>0, <3>2, <4>1, <4>4 DEF HasRow, At, Created, Claiming, l, m
      <4>5. QED
        BY <4>2, <4>3, <4>4
    <3>3. QED
      BY <3>1, <3>2
  <2>3. QED
    BY <2>1, <2>2 DEF HasRow
<1>9. ASSUME ~StoreKeepsID PROVE Rowless'
  <2>1. Rowless
    BY <1>6, <1>9 DEF Rows
  <2>2. ~At(p, "register")
    BY <1>4, <2>1 DEF Rowless, At, l
  <2>3. tracked' = {}
    BY <1>2, <2>1, <2>2 DEF Rowless
  <2>4. ASSUME NEW q \in Procs, local'[q].kind \in Ending \cup {"dispatch"}
        PROVE  local'[q].kind = local[q].kind /\ local'[q].s = local[q].s
    BY <1>1, <1>5, <2>4 DEF l, m
  <2>5. ASSUME NEW q \in Procs, local'[q].kind = "dispatch"
        PROVE  status'[local'[q].s] = "absent"
    <3>1. local[q].kind = "dispatch" /\ local'[q].s = local[q].s /\ local[q].s \in Sessions
      BY <1>3, <2>4, <2>5
    <3>2. status[local[q].s] = "absent" /\ ~FreshSession(local[q].s)
      BY <2>1, <3>1 DEF Rowless, FreshSession
    <3>3. At(p, "sessionWrite") => local[q].s # l.s
      BY <1>6, <3>2 DEF Written, l
    <3>4. QED
      BY <1>2, <1>9, <3>1, <3>2, <3>3
  <2>6. ASSUME NEW q \in Procs, local'[q].kind = "dispatch"
        PROVE  local'[q].at \notin {"sessionWrite", "start", "register"}
    <3>1. CASE q # p
      BY <1>1, <2>1, <2>6, <3>1 DEF Rowless
    <3>2. CASE q = p
      <4>1. /\ l.kind = "dispatch" /\ status[l.s] = "absent"
            /\ l.at \notin {"sessionWrite", "start", "register"}
        BY <2>1, <2>4, <2>6, <3>2 DEF Rowless, l
      <4>2. m.kind = "dispatch"
        BY <2>6, <3>2 DEF m
      <4>3. QED
        BY <1>9, <3>2, <4>1, <4>2, NoRowNoAgent DEF IInv, l, m
    <3>3. QED
      BY <3>1, <3>2
  <2>7. QED
    BY <2>1, <2>3, <2>4, <2>5, <2>6 DEF Rowless
<1>10. Written'
  <2>1. SUFFICES ASSUME NEW q \in Procs, At(q, "sessionWrite")' PROVE status'[local'[q].s] # "absent"
    BY DEF Written
  <2>2. CASE q # p
    <3>1. local'[q] = local[q] /\ At(q, "sessionWrite")
      BY <1>1, <2>1, <2>2 DEF At
    <3>2. local[q].s \in Sessions
      BY <1>3, <3>1 DEF At, Makes
    <3>3. QED
      BY <1>2, <1>6, <3>1, <3>2 DEF Written
  <2>3. CASE q = p
    BY <2>1, <2>3, WriteAfterRead DEF IInv, At
  <2>4. QED
    BY <2>2, <2>3
<1>11. OfTask'
  <2>1. SUFFICES ASSUME NEW q \in Procs, local'[q].kind \in Ending
                 PROVE  local'[q].task = taskOf'[local'[q].s]
    BY DEF OfTask
  <2>2. local[q].kind \in Ending /\ local'[q].s = local[q].s /\ local'[q].task = local[q].task
    BY <1>1, <1>5, <2>1 DEF l, m
  <2>0. StoreKeepsID
    BY <1>6, <2>2 DEF Rows, Rowless
  <2>3. local[q].s \in Sessions /\ (At(p, "create") => local[q].s # l.s)
    <3>1. At(p, "create") => q # p
      BY <1>4, <2>2 DEF Ending, l
    <3>2. QED
      BY <1>3, <1>4, <1>6, <2>2, <3>1 DEF Apart, Ending, l
  <2>4. QED
    BY <1>2, <1>6, <2>0, <2>2, <2>3 DEF OfTask
<1>12. QED
  BY <1>7, <1>8, <1>9, <1>10, <1>11 DEF Rows

LEMMA StepOwned ==
  ASSUME IInv, NEW p \in Procs, Step(p)
  PROVE  Owned'
<1> DEFINE l == local[p]  m == local'[p]
<1>1. Onward(l, m) /\ \A o \in Procs \ {p} : local'[o] = local[o]
  BY StepMoves DEF IInv
<1>2. /\ StoreKeepsID =>
           \A s \in Sessions : ~At(p, "create") \/ s # l.s => taskOf'[s] = taskOf[s]
      /\ \A s \in tracked : s \in tracked' \/ (Leaving(l) /\ s = l.s)
      /\ At(p, "register") => m = Idle /\ l.s \in tracked'
  BY StoreStep DEF IInv
<1>3. Makes(l.kind, l.at) /\ (l.kind \notin {"none", "move"} => l.s \in Sessions)
  BY TypeParts DEF IInv, LocalTypeOK, WellFormed
<1>4. Apart /\ Rows /\ OfTask /\ Owned
  BY DEF IInv
<1>5. SUFFICES ASSUME NEW t \in Tasks, t \notin stranded', taskStatus'[t] = "in_progress"
               PROVE  (\E s \in Sessions : Owner(s, t)') \/ (\E q \in Procs : Claims(q, t)')
  BY DEF Owned
<1>6. /\ (taskStatus[t] = "in_progress" /\ t \notin stranded) \/ Claims(p, t)'
      /\ l.kind \in Ending \cup {"revert"} /\ l.task = t =>
           (At(p, "taskRead") => At(p, "taskWrite")') /\ ~At(p, "taskWrite")
  BY <1>5, TaskStep DEF IInv
<1> HIDE DEF l, m
<1>7. ASSUME NEW s \in Sessions, Owner(s, t) PROVE Owner(s, t)'
  <2>1. s \in tracked /\ taskOf[s] = t /\ \A o \in Procs : Leaving(local[o]) => local[o].s # s
    BY <1>7 DEF Owner
  <2>2. s \in tracked' /\ StoreKeepsID
    BY <1>2, <1>4, <2>1 DEF Rows, Rowless, l
  <2>3. taskOf'[s] = t
    <3>1. At(p, "create") => l.kind = "dispatch"
      BY <1>3 DEF At, Makes, l
    <3>2. QED
      BY <1>2, <1>4, <2>1, <2>2, <3>1 DEF Apart, l
  <2>4. ~(Leaving(m) /\ m.s = s)
    <3>1. SUFFICES ASSUME Leaving(m), m.s = s PROVE FALSE
      OBVIOUS
    <3>2. m.kind \in Ending /\ m.at \in Past
      BY <3>1 DEF Leaving
    <3>3. l.kind \in Ending /\ l.s = s /\ l.at \in Past \cup {"taskRead", "taskWrite"}
      BY <1>1, <3>1, <3>2 DEF Onward, Kept
    <3>4. l.at \in {"taskRead", "taskWrite"}
      BY <2>1, <3>3 DEF Leaving, l
    <3>5. l.task = t
      BY <1>4, <2>1, <3>3 DEF OfTask, l
    <3>6. m.at = "taskWrite"
      BY <1>6, <3>3, <3>4, <3>5 DEF At, l, m
    <3>7. QED
      BY <3>2, <3>6 DEF Past
  <2>5. \A o \in Procs : Leaving(local'[o]) => local'[o].s # s
    BY <1>1, <2>1, <2>4 DEF m
  <2>6. QED
    BY <2>2, <2>3, <2>5 DEF Owner, Leaving
<1>8. ASSUME NEW q \in Procs, Claims(q, t), taskStatus[t] = "in_progress", q # p PROVE Claims(q, t)'
  <2>1. local'[q] = local[q]
    BY <1>1, <1>8
  <2>2. QED
    BY <1>8, <2>1 DEF Claims
<1>9. ASSUME Claims(p, t) PROVE (\E s \in Sessions : Owner(s, t)') \/ Claims(p, t)'
  <2>1. l.task = t
    BY <1>9 DEF Claims, l
  <2>2. CASE l.kind = "dispatch" /\ l.at \in Claiming \ {"register"}
    <3>1. /\ m.task = t
          /\ (m.kind = "dispatch" /\ m.at \in Claiming) \/ (m.kind = "revert" /\ m.at = "sessionRead")
      BY <1>1, <2>1, <2>2 DEF Onward
    <3>2. QED
      BY <3>1 DEF Claims, Claiming, m
  <2>3. CASE l.kind = "dispatch" /\ l.at = "register"
    <3>1. l.s \in Sessions /\ l.s \in tracked' /\ m = Idle
      BY <1>2, <1>3, <2>3 DEF At, l
    <3>2. taskOf'[l.s] = t
      BY <1>2, <1>4, <2>1, <2>3, <3>1 DEF Rows, Rowless, HasRow, Created, Claiming, At, l
    <3>3. ~Leaving(m)
      BY <3>1 DEF Leaving, Idle, Ending
    <3>4. \A o \in Procs : Leaving(local'[o]) => local'[o].s # l.s
      BY <1>1, <1>4, <2>3, <3>3 DEF Apart, Leaving, l, m
    <3>5. PICK s \in Sessions : s = l.s
      BY <3>1
    <3>6. Owner(s, t)'
      BY <3>1, <3>2, <3>4, <3>5 DEF Owner, Leaving
    <3>7. QED
      BY <3>6
  <2>4. CASE l.kind = "revert" /\ l.at \in Reverting
    <3>1. m.kind = "revert" /\ m.task = t
      BY <1>1, <2>1, <2>4 DEF Onward
    <3>2. m.at \in Reverting
      <4>1. CASE l.at \in {"sessionRead", "sessionWrite"}
        BY <1>1, <2>4, <4>1 DEF Onward
      <4>2. CASE l.at \in {"taskRead", "taskWrite"}
        BY <1>6, <2>1, <2>4, <4>2 DEF At, Reverting, l, m
      <4>3. QED
        BY <2>4, <4>1, <4>2 DEF Reverting
    <3>3. QED
      BY <3>1, <3>2 DEF Claims, Reverting, m
  <2>5. QED
    BY <1>9, <2>2, <2>3, <2>4 DEF Claims, Claiming, Reverting, l
<1>10. CASE taskStatus[t] = "in_progress" /\ t \notin stranded
  BY <1>4, <1>7, <1>8, <1>9, <1>10 DEF Owned
<1>11. QED
  BY <1>6, <1>10

-----------------------------------------------------------------------------
(* Preservation by new handlers: a dispatch comes with a session of its    *)
(* own, an ending with a tracked session and that session's task.          *)
Arrival(l) ==
  /\ ~Leaving(l)
  /\ l.kind = "dispatch" => l.at \in {"load", "claimRetry"} /\ FreshSession(l.s)
  /\ l.kind \in Ending => l.s \in tracked /\ l.task = taskOf[l.s]
  /\ l.at # "sessionWrite"

LEMMA ArrivesAs ==
  ASSUME Arrive
  PROVE  /\ \E p \in Procs : \E l : Arrival(l) /\ At(p, "idle") /\ Continue(p, l)
         /\ UNCHANGED <<rows, memory, history>>
<1> DEFINE Goal == /\ \E p \in Procs : \E l : Arrival(l) /\ At(p, "idle") /\ Continue(p, l)
                   /\ UNCHANGED <<rows, memory, history>>
<1>1. ASSUME NEW p \in Procs, NEW l, Start(p, l), Arrival(l), UNCHANGED <<rows, memory, history>> PROVE Goal
  BY <1>1 DEF Start
<1> USE DEF Procs, Idle, Ending, Past, Leaving
<1>2. ASSUME NEW p \in Requests, NEW t \in Tasks, NEW s \in Sessions, DispatchTask(p, t, s)
      PROVE  Goal
  <2> DEFINE l == [Idle EXCEPT !.at = "load", !.kind = "dispatch", !.s = s, !.task = t]
  <2>1. Start(p, l) /\ UNCHANGED <<rows, memory, history>> /\ FreshSession(s)
    BY <1>2 DEF DispatchTask
  <2>2. Arrival(l)
    BY <2>1 DEF Arrival
  <2>3. QED
    BY <1>1, <2>1, <2>2
<1>3. ASSUME NEW p \in Requests, NEW s \in Sessions, CancelSession(p, s) PROVE Goal
  <2> DEFINE l == [Idle EXCEPT !.s = s, !.task = taskOf[s]]
  <2>1. \/ s \in tracked /\ Start(p, Turn(l, "cancel", "stop"))
        \/ \E kind \in {"cancelAgain", "cancelEnded", "cancelUntracked"},
              call \in Calls \ {"sessionWrite"} :
             Start(p, Turn(l, kind, call))
    BY <1>3 DEF CancelSession, Calls
  <2>2. UNCHANGED <<rows, memory, history>>
    BY <1>3 DEF CancelSession
  <2>3. s \in tracked => Arrival(Turn(l, "cancel", "stop"))
    BY DEF Arrival, Turn
  <2>4. ASSUME NEW kind \in {"cancelAgain", "cancelEnded", "cancelUntracked"},
               NEW call \in Calls \ {"sessionWrite"}
        PROVE  Arrival(Turn(l, kind, call))
    BY DEF Arrival, Turn
  <2>5. QED
    BY <1>1, <2>1, <2>2, <2>3, <2>4
<1>4. ASSUME NEW p \in Requests, NEW s \in Sessions, NEW exitCode \in {0, 1},
             HandleSessionComplete(p, s, exitCode)
      PROVE  Goal
  <2> DEFINE kind == IF exitCode = 0 THEN "complete"
                     ELSE IF retries[s] < MaxAttempts THEN "failRetry" ELSE "fail"
             k == [Idle EXCEPT !.at = "sessionRead", !.s = s, !.task = taskOf[s], !.n = retries[s]]
             l == [k EXCEPT !.kind = kind]
  <2>1. Start(p, l) /\ UNCHANGED <<rows, memory, history>> /\ s \in tracked
    BY <1>4 DEF HandleSessionComplete
  <2>2. kind \in {"complete", "fail", "failRetry"}
    OBVIOUS
  <2> HIDE DEF kind
  <2>3. l.at = "sessionRead" /\ l.kind = kind /\ l.s = s /\ l.task = taskOf[s]
    OBVIOUS
  <2> HIDE DEF l
  <2>4. Arrival(l)
    BY <2>1, <2>2, <2>3 DEF Arrival
  <2>5. QED
    BY <1>1, <2>1, <2>4
<1>5. ASSUME NEW p \in Requests, NEW s \in Sessions, NEW q \in Questions, HandleAskHuman(p, s, q)
      PROVE  Goal
  <2> DEFINE l == [Idle EXCEPT !.at = "open", !.kind = "ask", !.s = s, !.q = q]
  <2>1. Start(p, l) /\ UNCHANGED <<rows, memory, history>>
    BY <1>5 DEF HandleAskHuman
  <2>2. Arrival(l)
    BY DEF Arrival
  <2>3. QED
    BY <1>1, <2>1, <2>2
<1>6. ASSUME NEW p \in Requests, NEW q \in Questions, AnswerQuestion(p, q) PROVE Goal
  <2> DEFINE l == [Idle EXCEPT !.at = "record", !.kind = "answer", !.q = q, !.s = asker[q],
                               !.task = taskOf[asker[q]]]
  <2>1. Start(p, l) /\ UNCHANGED <<rows, memory, history>>
    BY <1>6 DEF AnswerQuestion
  <2>2. Arrival(l)
    BY DEF Arrival
  <2>3. QED
    BY <1>1, <2>1, <2>2
<1>7. ASSUME NEW p \in Requests, NEW t \in Tasks, NEW to \in UserTargets, MoveTask(p, t, to)
      PROVE  Goal
  <2> DEFINE l == [Idle EXCEPT !.at = "taskRead", !.kind = "move", !.task = t, !.to = to]
  <2>1. Start(p, l) /\ UNCHANGED <<rows, memory, history>>
    BY <1>7 DEF MoveTask
  <2>2. Arrival(l)
    BY DEF Arrival
  <2>3. QED
    BY <1>1, <2>1, <2>2
<1>8. ASSUME NEW s \in Sessions, HandleStall(s) PROVE Goal
  <2> DEFINE l == [Idle EXCEPT !.at = "stop", !.kind = "stall", !.s = s, !.task = taskOf[s]]
  <2>1. /\ Start("staller", l) /\ UNCHANGED <<rows, memory, history>>
        /\ "staller" \in Background /\ s \in tracked
    BY <1>8 DEF HandleStall
  <2>2. Arrival(l)
    BY <2>1 DEF Arrival
  <2>3. QED
    BY <1>1, <2>1, <2>2
<1>9. ASSUME NEW old \in Sessions, NEW s \in Sessions, RetrySession(old, s) PROVE Goal
  <2> DEFINE l == [Idle EXCEPT !.at = "claimRetry", !.kind = "dispatch", !.s = s,
                               !.task = taskOf[old], !.n = retries[old], !.old = old]
  <2>1. /\ Start("retrier", l) /\ UNCHANGED <<rows, memory, history>>
        /\ "retrier" \in Background /\ FreshSession(s)
    BY <1>9 DEF RetrySession
  <2>2. Arrival(l)
    BY <2>1 DEF Arrival
  <2>3. QED
    BY <1>1, <2>1, <2>2
<1> HIDE DEF Goal
<1>10. Goal
  BY <1>2, <1>3, <1>4, <1>5, <1>6, <1>7, <1>8, <1>9 DEF Arrive
<1>11. QED
  BY <1>10 DEF Goal

LEMMA ArriveOwned ==
  ASSUME IInv, Arrive
  PROVE  Apart' /\ Rows' /\ Written' /\ OfTask' /\ Owned'
<1>1. PICK p \in Procs : \E l : Arrival(l) /\ At(p, "idle") /\ Continue(p, l)
  BY ArrivesAs
<1>2. PICK l : Arrival(l) /\ At(p, "idle") /\ Continue(p, l)
  BY <1>1
<1>3. UNCHANGED <<taskStatus, status, taskOf, tracked, stranded>>
  BY ArrivesAs DEF rows, memory, history
<1>4. local'[p] = l /\ \A o \in Procs \ {p} : local'[o] = local[o]
  BY <1>2, TypeParts DEF Continue, IInv, LocalTypeOK
<1>5. local[p].kind = "none"
  BY <1>2, TypeParts DEF At, IInv, LocalTypeOK, WellFormed, Makes
<1>6. Apart /\ Rows /\ Written /\ OfTask /\ Owned
  BY DEF IInv
<1>7. Apart'
  <2>1. l.kind = "dispatch" => l.s \notin tracked /\ \A o \in Procs : local[o].s # l.s
    BY <1>2, <1>6 DEF Arrival, FreshSession, Rows, HasRow, Rowless
  <2>2. l.kind \in Ending => l.s \in tracked
    BY <1>2 DEF Arrival
  <2>3. SUFFICES ASSUME NEW q \in Procs, local'[q].kind = "dispatch"
                 PROVE  /\ local'[q].s \notin tracked
                        /\ \A o \in Procs \ {q} : local'[o].kind \in Ending \cup {"dispatch"} =>
                             local'[o].s # local'[q].s
    BY <1>3 DEF Apart
  <2>4. CASE q = p
    BY <1>4, <2>1, <2>3, <2>4
  <2>5. CASE q # p
    <3>1. local'[q] = local[q] /\ local[q].s \notin tracked
      BY <1>4, <1>6, <2>3, <2>5 DEF Apart
    <3>2. l.kind \in Ending \cup {"dispatch"} => l.s # local[q].s
      BY <2>1, <2>2, <3>1
    <3>3. QED
      BY <1>4, <1>6, <2>3, <3>1, <3>2 DEF Apart
  <2>6. QED
    BY <2>4, <2>5
<1>8. Rows' /\ Written'
  <2>1. l.kind = "dispatch" => l.at \notin Created /\ status[l.s] = "absent"
    BY <1>2 DEF Arrival, Created, Claiming, FreshSession
  <2>2. HasRow => HasRow'
    BY <1>3, <1>4, <2>1 DEF HasRow
  <2>3. Rowless => Rowless'
    BY <1>2, <1>3, <1>4, <2>1 DEF Rowless, Arrival, Created, Claiming
  <2>4. Written'
    BY <1>2, <1>3, <1>4, <1>6 DEF Written, Arrival, At
  <2>5. QED
    BY <1>6, <2>2, <2>3, <2>4 DEF Rows
<1>9. OfTask'
  BY <1>2, <1>3, <1>4, <1>6 DEF OfTask, Arrival
<1>10. Owned'
  <2>1. SUFFICES ASSUME NEW t \in Tasks, t \notin stranded, taskStatus[t] = "in_progress"
                 PROVE  (\E s \in Sessions : Owner(s, t)') \/ (\E q \in Procs : Claims(q, t)')
    BY <1>3 DEF Owned
  <2>2. ASSUME NEW s \in Sessions, Owner(s, t) PROVE Owner(s, t)'
    <3>1. ~Leaving(l)
      BY <1>2 DEF Arrival
    <3>2. \A o \in Procs : Leaving(local'[o]) => local'[o].s # s
      BY <1>4, <2>2, <3>1 DEF Owner
    <3>3. QED
      BY <1>3, <2>2, <3>2 DEF Owner, Leaving
  <2>3. ASSUME NEW q \in Procs, Claims(q, t) PROVE Claims(q, t)'
    <3>1. local'[q] = local[q]
      BY <1>4, <1>5, <2>3 DEF Claims
    <3>2. QED
      BY <2>3, <3>1 DEF Claims
  <2>4. QED
    BY <1>6, <2>1, <2>2, <2>3 DEF Owned
<1>11. QED
  BY <1>7, <1>8, <1>9, <1>10

-----------------------------------------------------------------------------
(* A task in progress has a tracked session or a dispatch that has claimed *)
(* it, whatever fails and whatever cancels, completions, stalls, retries   *)
(* and crashes come in between; the only exceptions are those that         *)
(* stranded records: the very call that moves the task failed, or the      *)
(* process was killed, or a user moved it there.                           *)
THEOREM TasksInProgressAreOwned == Spec => []InProgressIsOwned
<1>1. Init => IInv
  <2> SUFFICES ASSUME Init PROVE IInv
    OBVIOUS
  <2>1. TypeOK
    BY InitTypeOK
  <2>2. \A p \in Procs : local[p].kind = "none" /\ local[p].at = "idle"
    BY DEF Init, Idle
  <2>3. tracked = {} /\ \A t \in Tasks : taskStatus[t] = "backlog"
    BY DEF Init
  <2>4. QED
    BY <2>1, <2>2, <2>3 DEF IInv, Apart, Rows, HasRow, Rowless, Written, OfTask, Owned, Ending, At
<1>2. IInv /\ [Next]_vars => IInv'
  <2> SUFFICES ASSUME IInv, [Next]_vars PROVE IInv'
    OBVIOUS
  <2>1. TypeOK'
    BY NextTypeOK DEF IInv
  <2>2. CASE Arrive
    BY <2>1, <2>2, ArriveOwned DEF IInv
  <2>3. ASSUME NEW p \in Procs, Step(p) PROVE IInv'
    BY <2>1, <2>3, StepApart, StepOwned DEF IInv
  <2>4. CASE Crash
    <3>1. \A p \in Procs : local'[p].kind = "none" /\ local'[p].at = "idle"
      BY <2>4 DEF Crash, Idle
    <3>2. tracked' = {} /\ \A t \in Tasks : taskStatus'[t] = "in_progress" => t \in stranded'
      BY <2>4 DEF Crash, rows
    <3>3. QED
      BY <2>1, <3>1, <3>2
         DEF IInv, Apart, Rows, HasRow, Rowless, Written, OfTask, Owned, Ending, At
  <2>5. CASE UNCHANGED vars
    <3>1. UNCHANGED <<taskStatus, status, taskOf, tracked, local, stranded>>
      BY <2>5 DEF vars, rows, memory, history
    <3>2. QED
      BY <2>1, <3>1
         DEF IInv, Apart, Rows, HasRow, Rowless, Written, OfTask, Owned, Owner, Leaving, Claims, At
  <2>6. QED
    BY <2>2, <2>3, <2>4, <2>5 DEF Next
<1>3. IInv => InProgressIsOwned
  BY DEF IInv, Owned, Owner, InProgressIsOwned
<1>4. QED
  BY <1>1, <1>2, <1>3, PTL DEF Spec

-----------------------------------------------------------------------------
(* The questions keep what QuestionLife promises.                          *)

(* Who may have an answer at hand after a call: whoever had, unless the    *)
(* call records one.                                                       *)
LEMMA HoldersAfter ==
  ASSUME TypeOK, NEW p \in Procs, Step(p)
  PROVE  /\ \A r \in Procs \ {p} : local'[r] = local[r]
         /\ \A x : Holds(p, x)' => local[p].q = x /\ local[p].kind \in Answers
         /\ local[p].at # "record" => Held' \subseteq Held
<1>1. PICK m : Follows(local[p], m) /\ Continue(p, m)
  BY StepFollows
<1>2. local'[p] = m /\ \A r \in Procs \ {p} : local'[r] = local[r]
  BY <1>1, OthersKeep
<1>3. Idle.kind = "none" /\ "none" \notin Answers
  BY DEF Idle, Answers
<1>4. ASSUME NEW x, Holds(p, x)' PROVE local[p].q = x /\ local[p].kind \in Answers
  BY <1>1, <1>2, <1>3, <1>4 DEF Follows, Holds
<1>5. ASSUME local[p].at # "record", NEW x \in Questions, NEW r \in Procs, Holds(r, x)'
      PROVE  Holds(r, x)
  BY <1>2, <1>4, <1>5 DEF Holds
<1>6. local[p].at # "record" => Held' \subseteq Held
  BY <1>5 DEF Held
<1>7. QED
  BY <1>2, <1>4, <1>6

(* Nobody who is not about an answer can have one at hand next.            *)
LEMMA HeldStays ==
  ASSUME TypeOK, NEW p \in Procs, Step(p), local[p].kind \notin Answers
  PROVE  Held' = Held
<1>1. \A x \in Questions : ~Holds(p, x) /\ ~Holds(p, x)'
  BY HoldersAfter DEF Holds
<1>2. \A x \in Questions, r \in Procs : Holds(r, x)' <=> Holds(r, x)
  BY <1>1, HoldersAfter DEF Holds
<1>3. QED
  BY <1>2 DEF Held

(* The one who had the answer of q at hand has not any more.               *)
LEMMA HeldLeft ==
  ASSUME TypeOK, NEW p \in Procs, Step(p), NEW q \in Questions, Exclusive(q), Holds(p, q),
         Continue(p, Idle)
  PROVE  q \in Held /\ Held' = Held \ {q}
<1>1. q \in Held
  BY DEF Held
<1>2. \A r \in Procs : Holds(r, q) => r = p
  BY DEF Exclusive
<1>3. local'[p] = Idle
  BY OthersKeep
<1>4. \A x \in Questions : ~Holds(p, x)'
  BY <1>3 DEF Idle, Holds, Answers
<1>5. \A x \in Questions \ {q} : ~Holds(p, x)
  BY DEF Holds
<1>6. \A x \in Questions, r \in Procs : Holds(r, x)' <=> (Holds(r, x) /\ x # q)
  <2> SUFFICES ASSUME NEW x \in Questions, NEW r \in Procs
               PROVE  Holds(r, x)' <=> (Holds(r, x) /\ x # q)
    OBVIOUS
  <2>1. CASE r = p
    BY <1>4, <1>5, <2>1
  <2>2. CASE r # p
    BY <1>2, <2>2, HoldersAfter DEF Holds
  <2> QED
    BY <2>1, <2>2
<1>7. QED
  BY <1>1, <1>6 DEF Held

(* An UPDATE of one row, in the eyes of QuestionLife.                      *)
LEMMA RowMoves ==
  ASSUME TypeOK, NEW q \in Questions, NEW to \in QuestionStatuses, question[q] \notin NoRow,
         question' = [question EXCEPT ![q] = to], UNCHANGED asker
  PROVE  /\ RowStatus[q] = question[q]
         /\ RowStatus' = [RowStatus EXCEPT ![q] = to]
         /\ RowAsker' = RowAsker
<1>1. to \notin {"absent", "deleted"}
  BY DEF QuestionStatuses
<1>2. question'[q] = to /\ \A x \in Questions \ {q} : question'[x] = question[x]
  BY DEF TypeOK
<1>3. RowStatus[q] = question[q] /\ RowStatus' = [RowStatus EXCEPT ![q] = to]
  BY <1>1, <1>2 DEF RowStatus, NoRow
<1>4. RowAsker' = RowAsker
  BY <1>1, <1>2 DEF RowAsker, NoRow
<1>5. QED
  BY <1>3, <1>4

(* A call that neither changes a question nor records an answer may let go *)
(* of the one it has.                                                      *)
LEMMA Unmoved ==
  ASSUME UNCHANGED <<question, asker, delivered>>, Held' \subseteq Held
  PROVE  Life!LetGo
<1>1. question' = question /\ asker' = asker /\ delivered' = delivered
  OBVIOUS
<1>2. RowStatus' = RowStatus /\ RowAsker' = RowAsker /\ Given' = Given
  BY <1>1 DEF RowStatus, RowAsker, Given, NoRow
<1>3. QED
  BY <1>2 DEF Life!LetGo

(* Every call a handler makes.                                             *)
LEMMA CallsMove ==
  ASSUME TypeOK, AllExclusive, NEW p \in Procs, Step(p)
  PROVE  Life!Next
<1> DEFINE l == local[p]
<1>0. PICK q : q = l.q
  OBVIOUS
<1> USE <1>0
<1>1. /\ l \in Locals /\ Makes(l.kind, l.at) /\ (l.kind \notin {"none", "move"} => l.s \in Sessions)
      /\ question \in [Questions -> QuestionStatuses \cup {"absent", "deleted"}]
      /\ asker \in [Questions -> Sessions \cup {None}]
      /\ delivered \in [Questions -> Nat]
  BY DEF TypeOK
<1>2. q \in Questions => Exclusive(q)
  BY DEF AllExclusive
<1>3. CASE q \notin Questions /\ (RecordAnswer(p) \/ SendPrompt(p) \/ ReopenQuestion(p)
                                     \/ OpenQuestion(p) \/ DropQuestion(p))
  <2>1. UNCHANGED <<question, asker, delivered>>
    <3>1. ASSUME NEW x PROVE [question EXCEPT ![q] = x] = question
      BY <1>1, <1>3
    <3>2. [asker EXCEPT ![q] = l.s] = asker /\ [delivered EXCEPT ![q] = delivered[q] + 1] = delivered
      BY <1>1, <1>3
    <3>3. CASE RecordAnswer(p) \/ OpenQuestion(p)
      BY <3>1, <3>2, <3>3 DEF RecordAnswer, OpenQuestion, hitl, history
    <3>4. CASE SendPrompt(p)
      BY <3>2, <3>4 DEF SendPrompt, hitl
    <3>5. CASE ReopenQuestion(p) \/ DropQuestion(p)
      BY <3>1, <3>5 DEF ReopenQuestion, DropQuestion, history
    <3> QED
      BY <1>3, <3>3, <3>4, <3>5
  <2>2. \A x \in Questions : ~Holds(p, x)'
    BY <1>3, HoldersAfter
  <2>3. Held' \subseteq Held
    BY <2>2, HoldersAfter DEF Held, Holds
  <2> QED
    BY <2>1, <2>3, Unmoved DEF Life!Next
<1>4. CASE q \in Questions /\ RecordAnswer(p)
  <2>1. l.at = "record" /\ l.kind = "answer" /\ delivered' = delivered /\ asker' = asker
    BY <1>1, <1>4 DEF RecordAnswer, At, Makes, history
  <2>2. CASE UNCHANGED question /\ Continue(p, Idle)
    <3>1. local'[p] = Idle
      BY <2>2, OthersKeep
    <3>2. \A x \in Questions : ~Holds(p, x)'
      BY <3>1 DEF Holds, Idle, Answers
    <3>3. Held' \subseteq Held
      BY <3>2, HoldersAfter DEF Held, Holds
    <3> QED
      BY <2>1, <2>2, <3>3, Unmoved DEF Life!Next
  <2>3. CASE /\ question[q] \in {"pending", "escalated"}
             /\ question' = [question EXCEPT ![q] = "answered"]
             /\ Continue(p, GoTo(l, "resume")) \/ Continue(p, Idle)
    <3>1. delivered[q] = 0 /\ \A r \in Procs : ~Holds(r, q)
      BY <1>1, <1>2, <1>4, <2>3 DEF Exclusive
    <3>2. q \notin Held \cup Given
      BY <3>1 DEF Held, Given
    <3>3. \A x \in Questions \ {q} : ~Holds(p, x) /\ ~Holds(p, x)'
      BY HoldersAfter DEF Holds
    <3>4. ASSUME Continue(p, GoTo(l, "resume")) PROVE Held' = Held \cup {q}
      <4>1. local'[p] = GoTo(l, "resume")
        BY <3>4, OthersKeep
      <4>2. local'[p].at = "resume" /\ local'[p].kind = l.kind /\ local'[p].q = q
        BY <1>1, <4>1 DEF GoTo, Locals
      <4>3. Holds(p, q)'
        BY <2>1, <4>2 DEF Holds, Answers
      <4>4. \A x \in Questions, r \in Procs : Holds(r, x)' <=> Holds(r, x) \/ (x = q /\ r = p)
        BY <3>1, <3>3, <4>3, HoldersAfter DEF Holds
      <4> QED
        BY <1>4, <4>4 DEF Held
    <3>5. ASSUME Continue(p, Idle) PROVE Held' = Held
      <4>1. local'[p] = Idle
        BY <3>5, OthersKeep
      <4>2. \A x \in Questions : ~Holds(p, x)'
        BY <4>1 DEF Holds, Idle, Answers
      <4>3. \A x \in Questions, r \in Procs : Holds(r, x)' <=> Holds(r, x)
        BY <3>1, <3>3, <4>2, HoldersAfter DEF Holds
      <4> QED
        BY <4>3 DEF Held
    <3>8. Held' \in {Held, Held \cup {q}}
      BY <1>4, <2>3, <3>4, <3>5
    <3>9. Given' = Given
      BY <2>1 DEF Given
    <3>10. RowStatus[q] = question[q] /\ RowStatus' = [RowStatus EXCEPT ![q] = "answered"]
           /\ RowAsker' = RowAsker
      BY <1>4, <2>1, <2>3, RowMoves DEF NoRow, QuestionStatuses
    <3>11. Life!Answer(q)
      BY <2>3, <3>2, <3>8, <3>9, <3>10 DEF Life!Answer, Life!Moves, Life!Open
    <3> QED
      BY <1>4, <3>11 DEF Life!Next
  <2> QED
    BY <1>4, <2>2, <2>3 DEF RecordAnswer
<1>5. CASE q \in Questions /\ SendPrompt(p)
  <2>1. l.at = "prompt" /\ l.kind = "answer" /\ question' = question /\ asker' = asker
    BY <1>1, <1>5 DEF SendPrompt, At, Makes, hitl
  <2>2. Holds(p, q)
    BY <2>1 DEF Holds, Answers
  <2>3. CASE delivered' = [delivered EXCEPT ![q] = @ + 1] /\ Continue(p, Idle)
    <3>1. q \in Held /\ Held' = Held \ {q}
      BY <1>2, <1>5, <2>2, <2>3, HeldLeft
    <3>2. delivered[q] = 0
      BY <1>2, <1>5, <2>2 DEF Exclusive
    <3>3. delivered'[q] = 1 /\ \A x \in Questions \ {q} : delivered'[x] = delivered[x]
      BY <1>1, <1>5, <2>3, <3>2
    <3>4. Given' = Given \cup {q}
      BY <1>5, <3>3 DEF Given
    <3>5. RowStatus' = RowStatus /\ RowAsker' = RowAsker
      BY <2>1 DEF RowStatus, RowAsker, NoRow
    <3> QED
      BY <1>5, <3>1, <3>4, <3>5 DEF Life!Give, Life!Next
  <2>4. CASE UNCHANGED delivered
    BY <2>1, <2>4, HoldersAfter, Unmoved DEF Life!Next
  <2> QED
    BY <1>5, <2>3, <2>4 DEF SendPrompt
<1>6. CASE q \in Questions /\ ReopenQuestion(p)
  <2>1. /\ l.at = "reopen" /\ l.kind \in Answers /\ delivered' = delivered /\ asker' = asker
        /\ Continue(p, Idle)
    BY <1>1, <1>6 DEF ReopenQuestion, At, Makes, Answers, history
  <2>2. Holds(p, q)
    BY <2>1 DEF Holds
  <2>3. CASE question[q] = "answered" /\ question' = [question EXCEPT ![q] = "pending"]
    <3>1. q \in Held /\ Held' = Held \ {q}
      BY <1>2, <1>6, <2>1, <2>2, HeldLeft
    <3>2. Given' = Given
      BY <2>1 DEF Given
    <3>3. RowStatus[q] = question[q] /\ RowStatus' = [RowStatus EXCEPT ![q] = "pending"]
          /\ RowAsker' = RowAsker
      BY <1>6, <2>1, <2>3, RowMoves DEF NoRow, QuestionStatuses
    <3>4. Life!Reopen(q)
      BY <2>3, <3>1, <3>2, <3>3 DEF Life!Reopen, Life!Moves
    <3> QED
      BY <1>6, <3>4 DEF Life!Next
  <2>4. CASE UNCHANGED question
    BY <2>1, <2>4, HoldersAfter, Unmoved DEF Life!Next
  <2>5. PICK ok \in Outcomes(p) :
          question' = [question EXCEPT ![q] = IF ok /\ question[q] = "answered" THEN "pending"
                                              ELSE question[q]]
    BY <1>6 DEF ReopenQuestion
  <2>6. CASE ok /\ question[q] = "answered"
    BY <2>3, <2>5, <2>6
  <2>7. CASE ~(ok /\ question[q] = "answered")
    BY <1>1, <2>4, <2>5, <2>7
  <2> QED
    BY <2>6, <2>7
<1>7. CASE CancelQuestions(p)
  <2>1. /\ l.at = "cancelQuestions" /\ delivered' = delivered /\ asker' = asker
        /\ l.s \in Sessions
    BY <1>1, <1>7 DEF CancelQuestions, At, Makes, history
  <2>2. Held' \subseteq Held
    BY <2>1, HoldersAfter
  <2>3. CASE UNCHANGED question
    BY <2>1, <2>2, <2>3, Unmoved DEF Life!Next
  <2>4. CASE \A x \in Questions :
               question'[x] = IF asker[x] = l.s /\ question[x] \in {"pending", "escalated"}
                              THEN "cancelled" ELSE question[x]
    <3>1. RowAsker' = RowAsker /\ Given' = Given
      BY <2>1, <2>4 DEF RowAsker, Given, NoRow
    <3>2. RowStatus' = [x \in Questions |->
                          IF RowAsker[x] = l.s /\ RowStatus[x] \in {"pending", "escalated"}
                          THEN "cancelled" ELSE RowStatus[x]]
      BY <2>4 DEF RowStatus, RowAsker, NoRow
    <3>3. Life!CancelOpen(l.s)
      BY <2>2, <3>1, <3>2 DEF Life!CancelOpen, Life!Open
    <3> QED
      BY <2>1, <3>3 DEF Life!Next
  <2>5. PICK ok \in Outcomes(p) :
          question' = [x \in Questions |->
                         IF ok /\ x \in {y \in Questions : /\ asker[y] = l.s
                                                           /\ question[y] \in {"pending", "escalated"}}
                         THEN "cancelled" ELSE question[x]]
    BY <1>7 DEF CancelQuestions
  <2>6. CASE ok
    BY <2>4, <2>5, <2>6
  <2>7. CASE ~ok
    <3>1. \A x \in Questions : question'[x] = question[x]
      BY <2>5, <2>7
    <3> QED
      BY <1>1, <2>3, <2>5, <3>1
  <2> QED
    BY <2>6, <2>7
<1>8. CASE q \in Questions /\ OpenQuestion(p)
  <2>1. l.at = "open" /\ l.kind = "ask" /\ delivered' = delivered /\ l.s \in Sessions
    BY <1>1, <1>8 DEF OpenQuestion, At, Makes, history
  <2>2. Held' = Held /\ Given' = Given
    BY <2>1, HeldStays DEF Given, Answers
  <2>3. CASE UNCHANGED hitl
    BY <2>1, <2>2, <2>3, Unmoved DEF Life!Next, hitl
  <2>4. CASE question' = [question EXCEPT ![q] = "pending"] /\ asker' = [asker EXCEPT ![q] = l.s]
    <3>1. question[q] = "absent" /\ delivered[q] = 0 /\ \A r \in Procs : ~Holds(r, q)
      BY <1>1, <1>2, <1>8, <2>1 DEF Exclusive, At
    <3>2. q \notin Held \cup Given
      BY <3>1 DEF Held, Given
    <3>3. /\ question'[q] = "pending" /\ asker'[q] = l.s
          /\ \A x \in Questions \ {q} : question'[x] = question[x] /\ asker'[x] = asker[x]
      BY <1>1, <1>8, <2>4
    <3>4. RowStatus[q] = "none" /\ RowStatus' = [RowStatus EXCEPT ![q] = "pending"]
      BY <1>8, <3>1, <3>3 DEF RowStatus, NoRow
    <3>5. RowAsker' = [RowAsker EXCEPT ![q] = l.s]
      BY <3>3 DEF RowAsker, NoRow
    <3>6. Life!Ask(q, l.s)
      BY <2>2, <3>2, <3>4, <3>5 DEF Life!Ask, Life!Moves
    <3> QED
      BY <1>8, <2>1, <3>6 DEF Life!Next
  <2> QED
    BY <1>8, <2>3, <2>4 DEF OpenQuestion
<1>9. CASE q \in Questions /\ DropQuestion(p)
  <2>1. l.at = "drop" /\ l.kind = "ask" /\ delivered' = delivered /\ asker' = asker
    BY <1>1, <1>9 DEF DropQuestion, At, Makes, history
  <2>2. Held' = Held /\ Given' = Given
    BY <2>1, HeldStays DEF Given, Answers
  <2>3. CASE UNCHANGED question
    BY <2>1, <2>2, <2>3, Unmoved DEF Life!Next
  <2>4. CASE question' = [question EXCEPT ![q] = "deleted"]
    <3>1. question'[q] = "deleted" /\ \A x \in Questions \ {q} : question'[x] = question[x]
      BY <1>1, <1>9, <2>4
    <3>2. RowStatus' = [RowStatus EXCEPT ![q] = "none"]
      BY <3>1 DEF RowStatus, NoRow
    <3>3. RowAsker' = [RowAsker EXCEPT ![q] = None]
      BY <2>1, <3>1 DEF RowAsker, NoRow
    <3>4. Life!Delete(q)
      BY <2>2, <3>2, <3>3 DEF Life!Delete
    <3> QED
      BY <1>9, <3>4 DEF Life!Next
  <2>5. PICK ok \in Outcomes(p) :
          question' = [question EXCEPT ![q] = IF ok THEN "deleted" ELSE question[q]]
    BY <1>9 DEF DropQuestion
  <2>6. CASE ok
    BY <2>4, <2>5, <2>6
  <2>7. CASE ~ok
    BY <1>1, <2>3, <2>5, <2>7
  <2> QED
    BY <2>6, <2>7
<1>10. CASE UNCHANGED <<question, asker, delivered>> /\ l.at # "record"
  BY <1>10, HoldersAfter, Unmoved DEF Life!Next
<1>11. \/ RecordAnswer(p) \/ SendPrompt(p) \/ ReopenQuestion(p) \/ CancelQuestions(p)
       \/ OpenQuestion(p) \/ DropQuestion(p)
       \/ UNCHANGED <<question, asker, delivered>> /\ l.at # "record"
  BY DEF Step, SessionRead, SessionWrite, TaskRead, TaskWrite, LoadTask, CreateSession,
         Prepare, StartBackend, Register, StopBackend, ScheduleRetry, Dispose, ClaimRetry,
         Reschedule, ResumeSession, At, hitl, history
<1> QED
  BY <1>3, <1>4, <1>5, <1>6, <1>7, <1>8, <1>9, <1>10, <1>11

(* Humans who answer at once, agents that ask and cannot wait, calls that  *)
(* fail, sessions that end and processes that are killed: in the eyes of   *)
(* QuestionLife each of their steps is one of its own, or none.            *)
THEOREM QuestionsKeepTheirLife == Spec => ImplementsLife
<1>1. Init => Life!Init
  <2> SUFFICES ASSUME Init PROVE Life!Init
    OBVIOUS
  <2>1. \A p \in Procs : local[p].kind = "none"
    BY DEF Init, Idle
  <2>2. Held = {} /\ Given = {}
    BY <2>1 DEF Init, Held, Given, Holds, Answers
  <2>3. RowStatus = [q \in Questions |-> "none"] /\ RowAsker = [q \in Questions |-> None]
    BY DEF Init, RowStatus, RowAsker, NoRow
  <2> QED
    BY <2>2, <2>3 DEF Life!Init
<1>2. TypeOK /\ AllExclusive /\ [Next]_vars
        => [Life!Next]_<<RowStatus, RowAsker, Held, Given>>
  <2> SUFFICES ASSUME TypeOK, AllExclusive, [Next]_vars
               PROVE  Life!Next
    OBVIOUS
  <2>1. CASE Arrive
    <3>1. PICK p \in Procs : \E m : Starts(m) /\ At(p, "idle") /\ Continue(p, m)
      BY <2>1, ArriveStarts
    <3>2. PICK m : Starts(m) /\ Continue(p, m)
      BY <3>1
    <3>3. local'[p] = m /\ \A r \in Procs : r # p => local'[r] = local[r]
      BY <3>2, OthersKeep
    <3>4. \A x \in Questions : ~Holds(p, x)'
      BY <3>2, <3>3 DEF Starts, Holds
    <3>5. Held' \subseteq Held
      BY <3>3, <3>4 DEF Held, Holds
    <3> QED
      BY <2>1, <3>5, ArriveStarts, Unmoved DEF Life!Next, hitl, history
  <2>2. ASSUME NEW p \in Procs, Step(p) PROVE Life!Next
    BY <2>2, CallsMove
  <2>3. CASE Crash
    <3>1. \A p \in Procs : local'[p].kind = "none"
      BY <2>3 DEF Crash, Idle
    <3>2. Held' \subseteq Held
      BY <3>1 DEF Held, Holds, Answers
    <3> QED
      BY <2>3, <3>2, Unmoved DEF Crash, hitl, Life!Next
  <2>4. CASE UNCHANGED vars
    <3>1. Held' = Held
      BY <2>4 DEF vars, Held, Holds
    <3> QED
      BY <2>4, <3>1, Unmoved DEF vars, hitl, history, Life!Next
  <2> QED
    BY <2>1, <2>2, <2>3, <2>4 DEF Next
<1> QED
  BY <1>1, <1>2, TypeCorrect, AllExclusiveHolds, PTL DEF Spec, ImplementsLife, Life!Spec
=============================================================================
