------------------------- MODULE HitlTimeoutsProofs -------------------------
(***************************************************************************)
(* Proofs about HitlTimeouts for every number of questions, sessions and   *)
(* replicas and any number of crashes.                                     *)
(***************************************************************************)
EXTENDS HitlTimeouts, TLAPS

Announcing == {"send", "record", "clear"}

LEMMA GroupInStates ==
  ASSUME NEW l \in SweepStates, NEW todo \in SUBSET Questions,
         NEW notify \in SUBSET Questions, NEW s \in Sessions
  PROVE  /\ [l EXCEPT !.s = s, !.todo = todo, !.notify = notify] \in SweepStates
         /\ [l EXCEPT !.at = "cancel", !.s = s, !.todo = todo, !.notify = notify] \in SweepStates
BY DEF SweepStates

LEMMA Relabelled ==
  ASSUME NEW l \in SweepStates, NEW at \in {"cancel", "write", "close"}
  PROVE  \E p \in SweepStates :
           /\ p = [l EXCEPT !.at = at]
           /\ p.at = at /\ p.phase = l.phase /\ p.todo = l.todo /\ p.notify = l.notify
           /\ p.s = l.s /\ p.q = l.q
<1>1. [l EXCEPT !.at = at] \in SweepStates
  BY DEF SweepStates
<1>2. /\ [l EXCEPT !.at = at].at = at /\ [l EXCEPT !.at = at].phase = l.phase
      /\ [l EXCEPT !.at = at].todo = l.todo /\ [l EXCEPT !.at = at].notify = l.notify
      /\ [l EXCEPT !.at = at].s = l.s /\ [l EXCEPT !.at = at].q = l.q
  BY DEF SweepStates
<1> QED
  BY <1>1, <1>2

LEMMA Renotifying ==
  ASSUME NEW l \in SweepStates, NEW notify \in SUBSET Questions
  PROVE  \E p \in SweepStates :
           /\ p = [l EXCEPT !.notify = notify]
           /\ p.at = l.at /\ p.phase = l.phase /\ p.todo = l.todo /\ p.notify = notify
           /\ p.s = l.s /\ p.q = l.q
<1>1. [l EXCEPT !.notify = notify] \in SweepStates
  BY DEF SweepStates
<1>2. /\ [l EXCEPT !.notify = notify].at = l.at /\ [l EXCEPT !.notify = notify].phase = l.phase
      /\ [l EXCEPT !.notify = notify].todo = l.todo
      /\ [l EXCEPT !.notify = notify].notify = notify
      /\ [l EXCEPT !.notify = notify].s = l.s /\ [l EXCEPT !.notify = notify].q = l.q
  BY DEF SweepStates
<1> QED
  BY <1>1, <1>2

LEMMA Claiming ==
  ASSUME NEW l \in SweepStates, NEW q \in Questions
  PROVE  \E p \in SweepStates :
           /\ p = [l EXCEPT !.at = "send", !.q = q]
           /\ p.at = "send" /\ p.phase = l.phase /\ p.todo = l.todo /\ p.notify = l.notify
           /\ p.s = l.s /\ p.q = q
<1> DEFINE p == [l EXCEPT !.at = "send", !.q = q]
<1>1. p \in SweepStates
  BY DEF SweepStates
<1>2. /\ p.at = "send" /\ p.phase = l.phase /\ p.todo = l.todo /\ p.notify = l.notify
      /\ p.s = l.s /\ p.q = q
  BY DEF SweepStates
<1> QED
  BY <1>1, <1>2

(* What Proceed does: it keeps what is to be announced, and what is listed *)
(* as long as the phase lasts.                                             *)
LEMMA ProceedFacts ==
  ASSUME NEW l \in SweepStates
  PROVE  /\ Proceed(l) \in SweepStates
         /\ Proceed(l).q = None
         /\ Proceed(l).notify = l.notify
         /\ Proceed(l).at \in {"claim", "work", "list"}
         /\ Proceed(l).at = "claim" => l.notify # {}
         /\ Proceed(l).at # "claim" => l.notify = {}
         /\ Proceed(l).at = "list" => Proceed(l).todo = {}
         /\ Proceed(l).todo # {} => Proceed(l).todo = l.todo /\ Proceed(l).phase = l.phase
<1>1. CASE l.notify # {}
  BY <1>1 DEF Proceed, SweepStates
<1>2. CASE l.notify = {} /\ l.todo # {}
  BY <1>2 DEF Proceed, SweepStates
<1>3. CASE l.notify = {} /\ l.todo = {}
  <2>1. Proceed(l) = [Resting EXCEPT !.phase = After[l.phase]]
    BY <1>3 DEF Proceed
  <2>2. After[l.phase] \in Phases
    BY DEF After, Phases, SweepStates
  <2> QED
    BY <1>3, <2>1, <2>2 DEF Resting, SweepStates, Phases
<1> QED
  BY <1>1, <1>2, <1>3

(* A question exists and the call that asked it has returned: nobody       *)
(* deletes it any more.                                                    *)
Asked(q) == question[q] # "absent" /\ ask[q] = "none"

(* What a replica knows wherever it is.  A listed question of tier2 can    *)
(* only time out or be cancelled any more.                                 *)
Settled(q) ==
  /\ Asked(q)
  /\ \/ question[q] \in {"timeout", "cancelled"}
     \/ question[q] = "escalated" /\ expired[q]

Consistent(l) ==
  /\ \A q \in l.notify : question[q] = "timeout"
  /\ l.phase = "tier1" => \A q \in l.todo : Asked(q)
  /\ l.phase = "tier2" => \A q \in l.todo : Settled(q)
  /\ l.phase = "finalise" => \A q \in l.todo : question[q] = "timeout"
  /\ l.at \in {"work", "cancel", "write", "close"} => \A q \in l.notify : SessionOf[q] = l.s
  /\ l.at \in {"cancel", "write", "close"} => l.notify # {}
  /\ l.at = "list" => l.notify = {} /\ l.todo = {}
  /\ l.at = "work" /\ l.phase # "tier2" => l.notify = {}
  /\ l.at \notin {"list", "work", "cancel", "write"} => \A q \in l.notify : SessionOf[q] \in ended
  /\ l.at \in Announcing =>
       l.q \in Questions /\ question[l.q] = "timeout" /\ SessionOf[l.q] \in ended
  /\ l.at \notin Announcing => l.q = None

(* The claim excludes other replicas, as long as no send has outlasted it. *)
Exclusive(r) ==
  sweep[r].at \in Announcing /\ sweep[r].q \notin stalled =>
    /\ claim[sweep[r].q] = "fresh"
    /\ ~notified[sweep[r].q]
    /\ \A other \in Replicas \ {r} : sweep[other].q # sweep[r].q

(* A question is asked before it is answered, and before it expires.       *)
CallsInOrder ==
  \A q \in Questions :
    /\ question[q] = "absent" => answer[q] = "none"
    /\ expired[q] \/ question[q] \in {"escalated", "timeout"} => Asked(q)
    /\ question[q] = "escalated" /\ expired[q] => answer[q] # "admitted"

EndsAreKnown == \A s \in Sessions : session[s] \in SessionEnded => s \in ended

IInv ==
  /\ TypeOK /\ CallsInOrder /\ EndsAreKnown
  /\ \A r \in Replicas : Consistent(sweep[r])
  /\ \A r \in Replicas : Exclusive(r)

(* What every step keeps, whoever takes it.                                *)
Kept ==
  /\ \A q \in Questions : question[q] = "timeout" => question'[q] = "timeout"
  /\ \A q \in Questions : Asked(q) => Asked(q)'
  /\ \A q \in Questions : Settled(q) => Settled(q)'
  /\ ended \subseteq ended'

(* Whoever is to cancel a session knows which.                             *)
Targets(l) == l.at \in {"cancel", "write"} => l.s \in Sessions

Typed == TypeOK /\ \A r \in Replicas : Targets(sweep[r])

(* What the UPDATE of a session's row does, whether or not it fails.       *)
LEMMA WriteFacts ==
  ASSUME session \in [Sessions -> SessionStatuses], ended \subseteq Sessions,
         NEW s \in Sessions, NEW status \in SessionStatuses,
         Write(s, status) \/ WriteFails(s, status)
  PROVE  /\ session' \in [Sessions -> SessionStatuses]
         /\ ended \subseteq ended' /\ ended' \subseteq Sessions /\ stalled' = stalled
         /\ EndsAreKnown => EndsAreKnown'
         /\ Write(s, status) /\ status \in SessionEnded => s \in ended'
<1>1. CASE Write(s, status)
  BY <1>1 DEF Write, EndsAreKnown
<1>2. CASE UNCHANGED <<session, history>>
  BY <1>2 DEF history, Write, EndsAreKnown
<1> QED
  BY <1>1, <1>2 DEF WriteFails

(* A replica moves on to a state with its target known.                    *)
LEMMA MovesOn ==
  ASSUME Typed, NEW r \in Replicas, NEW l \in SweepStates, Targets(l), Continue(r, l)
  PROVE  sweep' \in [Replicas -> SweepStates] /\ \A x \in Replicas : Targets(sweep[x])'
<1>1. \A x \in Replicas : sweep'[x] = IF x = r THEN l ELSE sweep[x]
  BY DEF Continue, Typed, TypeOK
<1> QED
  BY <1>1 DEF Continue, Typed, TypeOK, Targets

LEMMA ProceedMovesOn ==
  ASSUME Typed, NEW r \in Replicas, NEW l \in SweepStates, Continue(r, Proceed(l))
  PROVE  sweep' \in [Replicas -> SweepStates] /\ \A x \in Replicas : Targets(sweep[x])'
<1>1. PICK p \in SweepStates : p = Proceed(l)
  BY ProceedFacts
<1>2. Targets(p)
  BY <1>1, ProceedFacts DEF Targets
<1> QED
  BY <1>1, <1>2, MovesOn

(* Who is to cancel a session knows which.                                 *)
LEMMA CancelTargets ==
  ASSUME Typed, NEW r \in Replicas, NEW l \in ToCancel(r)
  PROVE  l \in SweepStates /\ l.s \in Sessions
<1>1. sweep[r] \in SweepStates /\ Targets(sweep[r])
  BY DEF Typed, TypeOK
<1>2. CASE sweep[r].at = "cancel"
  BY <1>1, <1>2 DEF ToCancel, Targets
<1>3. CASE sweep[r].at # "cancel"
  <2>1. PICK q \in sweep[r].todo :
          l = [sweep[r] EXCEPT !.at = "cancel", !.s = SessionOf[q], !.todo = @ \ {q},
                               !.notify = {q}]
    BY <1>3 DEF ToCancel
  <2>2. /\ q \in Questions /\ SessionOf[q] \in Sessions
        /\ sweep[r].todo \ {q} \in SUBSET Questions /\ {q} \in SUBSET Questions
    BY <1>1, TimeoutsAssumption DEF SweepStates, TimeoutsAssumption
  <2>3. l \in SweepStates
    BY <1>1, <2>1, <2>2, GroupInStates
  <2>4. l.s = SessionOf[q]
    BY <1>1, <2>1 DEF SweepStates
  <2> QED
    BY <2>2, <2>3, <2>4
<1> QED
  BY <1>2, <1>3

(* Types, and the targets of cancellations.                                *)
LEMMA Typing == Spec => []Typed
<1> USE TimeoutsAssumption
<1>1. Init => Typed
  <2>1. Init => TypeOK
    BY DEF Init, TypeOK, Resting, SweepStates, Phases, QuestionStatuses, SessionStatuses
  <2>2. Init => \A r \in Replicas : sweep[r] = Resting
    BY DEF Init
  <2> QED
    BY <2>1, <2>2 DEF Typed, Targets, Resting
<1>2. Typed /\ [Next]_vars => Typed'
  <2> SUFFICES ASSUME Typed, [Next]_vars PROVE Typed'
    OBVIOUS
  <2> USE DEF TypeOK, notice, calls, history
  <2>a. TypeOK /\ \A q \in Questions : SessionOf[q] \in Sessions
    BY DEF Typed
  <2>s. UNCHANGED sweep => \A r \in Replicas : Targets(sweep[r])'
    BY DEF Typed, Targets
  <2>b. UNCHANGED sweep /\ TypeOK' => Typed'
    BY <2>s DEF Typed
  <2>e. {"running", "waiting_hitl", "cancelled"} \cup SessionEnded \subseteq SessionStatuses
    BY DEF SessionStatuses, SessionEnded
  <2>1. ASSUME NEW q \in Questions, AskHuman(q) PROVE Typed'
    BY <2>1, <2>a, <2>b DEF AskHuman, QuestionStatuses
  <2>2. ASSUME NEW q \in Questions, AnswerQuestion(q) PROVE Typed'
    BY <2>2, <2>a, <2>b DEF AnswerQuestion
  <2>3. ASSUME NEW q \in Questions, RecordAnswer(q) PROVE Typed'
    BY <2>3, <2>a, <2>b DEF RecordAnswer, Answerable, QuestionStatuses, InHand
  <2>4. ASSUME NEW q \in Questions, ResetAnswer(q) PROVE Typed'
    BY <2>4, <2>a, <2>b DEF ResetAnswer, Resettable, QuestionStatuses
  <2>5. ASSUME NEW q \in Questions, Expire(q) PROVE Typed'
    BY <2>5, <2>a, <2>b DEF Expire
  <2>6. ASSUME NEW q \in Questions, Lapse(q) PROVE Typed'
    BY <2>6, <2>a, <2>b DEF Lapse
  <2>7. ASSUME NEW s \in Sessions, EndSession(s) PROVE Typed'
    BY <2>7, <2>a, <2>b DEF EndSession, SessionEnded
  <2>8. ASSUME NEW r \in Replicas, NEW ok \in BOOLEAN, List(r, ok) PROVE Typed'
    <3>1. sweep[r] \in SweepStates
      BY <2>a
    <3>2. (IF ok THEN Listed(sweep[r].phase) ELSE {}) \in SUBSET Questions
      BY DEF Listed, ExpiredPending, EscalatedExpired, UnnotifiedTimedOut, TimedOut
    <3> DEFINE found == IF ok THEN Listed(sweep[r].phase) ELSE {}
    <3>3. [sweep[r] EXCEPT !.notify = found] \in SweepStates
      BY <3>1, <3>2 DEF SweepStates
    <3>4. [sweep[r] EXCEPT !.todo = found] \in SweepStates
      BY <3>1, <3>2 DEF SweepStates
    <3> HIDE DEF found
    <3>5. PICK l \in SweepStates : Continue(r, Proceed(l))
      BY <2>8, <3>3, <3>4 DEF List, found
    <3> QED
      BY <2>8, <2>a, <3>5, ProceedMovesOn DEF List, Typed
  <2>9. ASSUME NEW r \in Replicas, NEW q \in Questions, NEW ok \in BOOLEAN,
               EscalateQuestion(r, q, ok)
        PROVE Typed'
    <3>1. [sweep[r] EXCEPT !.todo = @ \ {q}] \in SweepStates
      BY <2>a DEF SweepStates
    <3> QED
      BY <2>9, <2>a, <3>1, ProceedMovesOn DEF EscalateQuestion, Escalatable, QuestionStatuses, Typed
  <2>10. ASSUME NEW r \in Replicas, NEW q \in Questions, NEW ok \in BOOLEAN,
                MarkEscalatedTimedOut(r, q, ok)
         PROVE Typed'
    <3> DEFINE marked == ok /\ question[q] = "escalated"
               l == [sweep[r] EXCEPT !.s = SessionOf[q], !.todo = @ \ {q},
                                     !.notify = IF marked THEN @ \cup {q} ELSE @]
    <3>1. l \in SweepStates
      <4>1. /\ (IF marked THEN sweep[r].notify \cup {q} ELSE sweep[r].notify) \in SUBSET Questions
            /\ sweep[r].todo \ {q} \in SUBSET Questions
            /\ sweep[r] \in SweepStates
        BY <2>a DEF SweepStates
      <4> HIDE DEF marked
      <4> QED
        BY <2>a, <4>1, GroupInStates
    <3>2. l.s = SessionOf[q]
      <4> HIDE DEF marked
      <4> QED
        BY <2>a DEF SweepStates
    <3>3. [l EXCEPT !.at = "cancel"] \in SweepStates /\ [l EXCEPT !.at = "cancel"].s = l.s
      <4> HIDE DEF l
      <4> QED
        BY <3>1 DEF SweepStates
    <3>4. Targets(l) /\ Targets([l EXCEPT !.at = "cancel"])
      BY <2>a, <3>2, <3>3 DEF Targets
    <3>5. Continue(r, l) \/ Continue(r, [l EXCEPT !.at = "cancel"]) \/ Continue(r, Proceed(l))
      BY <2>10 DEF MarkEscalatedTimedOut, Markable
    <3>6. sweep' \in [Replicas -> SweepStates] /\ \A x \in Replicas : Targets(sweep[x])'
      <4> HIDE DEF l
      <4> QED
        BY <3>1, <3>3, <3>4, <3>5, MovesOn, ProceedMovesOn
    <3>7. question' \in [Questions -> {"absent", "deleted"} \cup QuestionStatuses]
      BY <2>10, <2>a DEF MarkEscalatedTimedOut, QuestionStatuses
    <3> QED
      BY <2>10, <2>a, <3>6, <3>7 DEF MarkEscalatedTimedOut, Typed
  <2>11. ASSUME NEW r \in Replicas, NEW ok \in BOOLEAN, CancelSession(r, ok) PROVE Typed'
    <3>1. PICK l \in ToCancel(r) :
            \/ Continue(r, [l EXCEPT !.at = "write"]) \/ Continue(r, [l EXCEPT !.at = "close"])
            \/ Continue(r, Proceed([l EXCEPT !.notify = {}]))
      BY <2>11 DEF CancelSession
    <3>2. l \in SweepStates /\ l.s \in Sessions
      BY CancelTargets
    <3>3. /\ \A at \in {"write", "close"} : /\ [l EXCEPT !.at = at] \in SweepStates
                                           /\ Targets([l EXCEPT !.at = at])
          /\ [l EXCEPT !.notify = {}] \in SweepStates
      BY <3>2 DEF SweepStates, Targets
    <3>4. sweep' \in [Replicas -> SweepStates] /\ \A x \in Replicas : Targets(sweep[x])'
      BY <3>1, <3>3, MovesOn, ProceedMovesOn
    <3> QED
      BY <2>11, <2>a, <3>4 DEF CancelSession, Typed
  <2>12. ASSUME NEW r \in Replicas, CancelPendingHITL(r) PROVE Typed'
    <3>1. question' \in [Questions -> {"absent", "deleted"} \cup QuestionStatuses]
      BY <2>12, <2>a DEF CancelPendingHITL, CloseQuestions, QuestionStatuses
    <3> QED
      BY <2>12, <2>a, <3>1, ProceedMovesOn DEF CancelPendingHITL, Typed
  <2>13. ASSUME NEW r \in Replicas, NEW q \in Questions, NEW ok \in BOOLEAN,
                ClaimTimeoutNotification(r, q, ok)
         PROVE Typed'
    <3> DEFINE l == [sweep[r] EXCEPT !.notify = @ \ {q}]
    <3>1. l \in SweepStates
      BY <2>a DEF SweepStates
    <3>2. [l EXCEPT !.at = "send", !.q = q] \in SweepStates /\ Targets([l EXCEPT !.at = "send", !.q = q])
      <4> HIDE DEF l
      <4> QED
        BY <3>1 DEF SweepStates, Targets
    <3>3. Continue(r, [l EXCEPT !.at = "send", !.q = q]) \/ Continue(r, Proceed(l))
      BY <2>13 DEF ClaimTimeoutNotification
    <3>4. sweep' \in [Replicas -> SweepStates] /\ \A x \in Replicas : Targets(sweep[x])'
      <4> HIDE DEF l
      <4> QED
        BY <3>1, <3>2, <3>3, MovesOn, ProceedMovesOn
    <3>5. claim' \in [Questions -> {"none", "fresh", "stale"}]
      BY <2>13, <2>a DEF ClaimTimeoutNotification
    <3> QED
      BY <2>13, <2>a, <3>4, <3>5 DEF ClaimTimeoutNotification, Typed
  <2>14. ASSUME NEW r \in Replicas, NEW ok \in BOOLEAN, NotifyQuestionTimedOut(r, ok)
         PROVE Typed'
    <3>1. \A at \in {"record", "clear"} :
            [sweep[r] EXCEPT !.at = at] \in SweepStates /\ Targets([sweep[r] EXCEPT !.at = at])
      BY <2>a DEF SweepStates, Targets
    <3>2. sweep' \in [Replicas -> SweepStates] /\ \A x \in Replicas : Targets(sweep[x])'
      BY <2>14, <3>1, MovesOn DEF NotifyQuestionTimedOut
    <3> QED
      BY <2>14, <2>a, <3>2 DEF NotifyQuestionTimedOut, Typed
  <2>15. ASSUME NEW r \in Replicas, NEW ok \in BOOLEAN, MarkTimeoutNotificationSent(r, ok)
         PROVE Typed'
    <3>1. sweep[r] \in SweepStates /\ Continue(r, Proceed(sweep[r]))
      BY <2>15, <2>a DEF MarkTimeoutNotificationSent
    <3>2. sweep' \in [Replicas -> SweepStates] /\ \A x \in Replicas : Targets(sweep[x])'
      BY <3>1, ProceedMovesOn
    <3>3. /\ claim' \in [Questions -> {"none", "fresh", "stale"}]
          /\ notified' \in [Questions -> BOOLEAN]
      BY <2>15, <2>a DEF MarkTimeoutNotificationSent, Recordable
    <3> QED
      BY <2>15, <2>a, <3>2, <3>3 DEF MarkTimeoutNotificationSent, Typed
  <2>16. ASSUME NEW r \in Replicas, NEW ok \in BOOLEAN, ClearTimeoutNotificationClaim(r, ok)
         PROVE Typed'
    <3>1. sweep[r] \in SweepStates /\ Continue(r, Proceed(sweep[r]))
      BY <2>16, <2>a DEF ClearTimeoutNotificationClaim
    <3>2. sweep' \in [Replicas -> SweepStates] /\ \A x \in Replicas : Targets(sweep[x])'
      BY <3>1, ProceedMovesOn
    <3>3. claim' \in [Questions -> {"none", "fresh", "stale"}]
      BY <2>16, <2>a DEF ClearTimeoutNotificationClaim, Clearable
    <3> QED
      BY <2>16, <2>a, <3>2, <3>3 DEF ClearTimeoutNotificationClaim, Typed
  <2>17. ASSUME NEW r \in Replicas, Crash(r) PROVE Typed'
    <3>1. Resting \in SweepStates /\ Targets(Resting)
      BY DEF Resting, SweepStates, Phases, Targets
    <3>2. sweep' \in [Replicas -> SweepStates] /\ \A x \in Replicas : Targets(sweep[x])'
      BY <2>17, <3>1, MovesOn DEF Crash
    <3> QED
      BY <2>17, <2>a, <3>2 DEF Crash, Typed
  <2>18. CASE UNCHANGED vars
    BY <2>18, <2>a, <2>b DEF vars
  <2>19. ASSUME NEW q \in Questions, AskRead(q) \/ DropQuestion(q) PROVE Typed'
    BY <2>19, <2>a, <2>b DEF AskRead, DropQuestion
  <2>20. ASSUME NEW q \in Questions, AskWrite(q) PROVE Typed'
    <3>1. session' \in [Sessions -> SessionStatuses] /\ ended' \subseteq Sessions /\ stalled' = stalled
      BY <2>20, <2>a, <2>e, WriteFacts DEF AskWrite
    <3> QED
      BY <2>20, <2>a, <2>b, <3>1 DEF AskWrite
  <2>21. ASSUME NEW q \in Questions, ResumeRead(q) PROVE Typed'
    BY <2>21, <2>a, <2>b DEF ResumeRead, InHand
  <2>22. ASSUME NEW q \in Questions, ResumeWrite(q) \/ RollbackWrite(q) PROVE Typed'
    <3>1. session' \in [Sessions -> SessionStatuses] /\ ended' \subseteq Sessions /\ stalled' = stalled
      BY <2>22, <2>a, <2>e, WriteFacts DEF ResumeWrite, RollbackWrite
    <3> QED
      BY <2>22, <2>a, <2>b, <3>1 DEF ResumeWrite, RollbackWrite, InHand
  <2>23. ASSUME NEW s \in Sessions, EndWrite(s) PROVE Typed'
    <3>1. session' \in [Sessions -> SessionStatuses] /\ ended' \subseteq Sessions /\ stalled' = stalled
      BY <2>23, <2>a, <2>e, WriteFacts DEF EndWrite
    <3> QED
      BY <2>23, <2>a, <2>b, <3>1 DEF EndWrite
  <2>24. ASSUME NEW s \in Sessions, EndClose(s) PROVE Typed'
    BY <2>24, <2>a, <2>b DEF EndClose, CloseQuestions, QuestionStatuses
  <2>25. ASSUME NEW r \in Replicas, NEW ok \in BOOLEAN, CancelWrite(r, ok) PROVE Typed'
    <3>1. sweep[r] \in SweepStates /\ sweep[r].s \in Sessions
      BY <2>25, <2>a DEF CancelWrite, At, Typed, Targets
    <3>2. session' \in [Sessions -> SessionStatuses] /\ ended' \subseteq Sessions /\ stalled' = stalled
      BY <2>25, <2>a, <2>e, <3>1, WriteFacts DEF CancelWrite
    <3>3. /\ [sweep[r] EXCEPT !.at = "close"] \in SweepStates
          /\ Targets([sweep[r] EXCEPT !.at = "close"])
          /\ [sweep[r] EXCEPT !.notify = {}] \in SweepStates
      BY <3>1 DEF SweepStates, Targets
    <3>4. sweep' \in [Replicas -> SweepStates] /\ \A x \in Replicas : Targets(sweep[x])'
      BY <2>25, <3>3, MovesOn, ProceedMovesOn DEF CancelWrite
    <3> QED
      BY <2>25, <2>a, <3>2, <3>4 DEF CancelWrite, Typed
  <2> QED
    BY <2>1, <2>2, <2>3, <2>4, <2>5, <2>6, <2>7, <2>8, <2>9, <2>10, <2>11, <2>12, <2>13, <2>14,
       <2>15, <2>16, <2>17, <2>18, <2>19, <2>20, <2>21, <2>22, <2>23, <2>24, <2>25
    DEF Next, Environment, Sweep, Asking, Answering, Ending
<1> QED
  BY <1>1, <1>2, PTL DEF Spec

(* Every variable keeps its type, whoever writes it and whatever fails.    *)
THEOREM TypeCorrect == Spec => []TypeOK
<1>1. Typed => TypeOK
  BY DEF Typed
<1> QED
  BY <1>1, Typing, PTL

-----------------------------------------------------------------------------
(* The calls of agents and humans, and the endings of sessions.            *)
LEMMA EnvironmentKeeps ==
  ASSUME IInv, Environment PROVE Kept /\ CallsInOrder' /\ EndsAreKnown'
<1> DEFINE Goal == Kept /\ CallsInOrder' /\ EndsAreKnown'
<1>a. /\ TypeOK /\ CallsInOrder /\ EndsAreKnown
      /\ \A q \in Questions : SessionOf[q] \in Sessions
  BY TimeoutsAssumption DEF IInv
<1>e. {"running", "waiting_hitl", "cancelled"} \cup SessionEnded \subseteq SessionStatuses
  BY DEF SessionStatuses, SessionEnded
<1>w. ASSUME NEW s \in Sessions, NEW status \in SessionStatuses,
             Write(s, status) \/ WriteFails(s, status)
      PROVE  ended \subseteq ended' /\ EndsAreKnown'
  BY <1>a, <1>w, WriteFacts DEF TypeOK
<1> USE DEF TypeOK, notice, calls, history
<1> DEFINE Rows == /\ \A q \in Questions : question[q] = "timeout" => question'[q] = "timeout"
                   /\ \A q \in Questions : Asked(q) => Asked(q)'
                   /\ \A q \in Questions : Settled(q) => Settled(q)'
                   /\ CallsInOrder'
<1>k. Rows /\ ended \subseteq ended' /\ EndsAreKnown' => Goal
  BY DEF Kept
<1>h. UNCHANGED <<session, history>> => ended \subseteq ended' /\ EndsAreKnown'
  BY <1>a DEF EndsAreKnown
<1> HIDE DEF Goal
<1>1. ASSUME NEW q \in Questions, AskHuman(q) PROVE Goal
  <2>1. Rows
    BY <1>1, <1>a DEF AskHuman, Asked, Settled, CallsInOrder
  <2> QED
    BY <1>1, <1>h, <1>k, <2>1 DEF AskHuman
<1>2. ASSUME NEW q \in Questions, AskRead(q) PROVE Goal
  <2>1. Rows
    BY <1>2, <1>a DEF AskRead, Asked, Settled, CallsInOrder
  <2> QED
    BY <1>2, <1>h, <1>k, <2>1 DEF AskRead
<1>3. ASSUME NEW q \in Questions, AskWrite(q) PROVE Goal
  <2>1. Rows
    BY <1>3, <1>a DEF AskWrite, Asked, Settled, CallsInOrder
  <2> QED
    BY <1>3, <1>a, <1>e, <1>w, <1>k, <2>1 DEF AskWrite
<1>4. ASSUME NEW q \in Questions, DropQuestion(q) PROVE Goal
  <2>1. Rows
    BY <1>4, <1>a DEF DropQuestion, Asked, Settled, CallsInOrder
  <2> QED
    BY <1>4, <1>h, <1>k, <2>1 DEF DropQuestion
<1>5. ASSUME NEW q \in Questions, AnswerQuestion(q) PROVE Goal
  <2>1. Rows
    BY <1>5, <1>a DEF AnswerQuestion, Asked, Settled, CallsInOrder
  <2> QED
    BY <1>5, <1>h, <1>k, <2>1 DEF AnswerQuestion
<1>6. ASSUME NEW q \in Questions, RecordAnswer(q) PROVE Goal
  <2>1. Rows
    BY <1>6, <1>a DEF RecordAnswer, Answerable, Open, Asked, Settled, CallsInOrder
  <2> QED
    BY <1>6, <1>h, <1>k, <2>1 DEF RecordAnswer
<1>7. ASSUME NEW q \in Questions, ResumeRead(q) PROVE Goal
  <2>1. Rows
    BY <1>7, <1>a DEF ResumeRead, Asked, Settled, CallsInOrder
  <2> QED
    BY <1>7, <1>h, <1>k, <2>1 DEF ResumeRead
<1>8. ASSUME NEW q \in Questions, ResumeWrite(q) \/ RollbackWrite(q) PROVE Goal
  <2>1. Rows
    BY <1>8, <1>a DEF ResumeWrite, RollbackWrite, Asked, Settled, CallsInOrder
  <2> QED
    BY <1>8, <1>a, <1>e, <1>w, <1>k, <2>1 DEF ResumeWrite, RollbackWrite
<1>9. ASSUME NEW q \in Questions, ResetAnswer(q) PROVE Goal
  <2>1. Rows
    BY <1>9, <1>a DEF ResetAnswer, Resettable, Asked, Settled, CallsInOrder
  <2> QED
    BY <1>9, <1>h, <1>k, <2>1 DEF ResetAnswer
<1>10. ASSUME NEW q \in Questions, Expire(q) \/ Lapse(q) PROVE Goal
  <2>1. Rows
    BY <1>10, <1>a DEF Expire, Lapse, Asked, Settled, CallsInOrder
  <2>2. UNCHANGED <<session, ended>>
    BY <1>10 DEF Expire, Lapse
  <2> QED
    BY <1>a, <1>k, <2>1, <2>2 DEF EndsAreKnown
<1>11. ASSUME NEW s \in Sessions, EndSession(s) PROVE Goal
  <2>1. Rows
    BY <1>11, <1>a DEF EndSession, Asked, Settled, CallsInOrder
  <2> QED
    BY <1>11, <1>h, <1>k, <2>1 DEF EndSession
<1>12. ASSUME NEW s \in Sessions, EndWrite(s) PROVE Goal
  <2>1. Rows
    BY <1>12, <1>a DEF EndWrite, Asked, Settled, CallsInOrder
  <2> QED
    BY <1>12, <1>a, <1>e, <1>w, <1>k, <2>1 DEF EndWrite
<1>13. ASSUME NEW s \in Sessions, EndClose(s) PROVE Goal
  <2>1. Rows
    BY <1>13, <1>a DEF EndClose, CloseQuestions, Open, Asked, Settled, CallsInOrder
  <2> QED
    BY <1>13, <1>h, <1>k, <2>1 DEF EndClose
<1> QED
  BY <1>1, <1>2, <1>3, <1>4, <1>5, <1>6, <1>7, <1>8, <1>9, <1>10, <1>11, <1>12, <1>13
  DEF Goal, Environment, Asking, Answering, Ending

(* Every step keeps timeouts, ends of sessions and settled questions.  A   *)
(* question that is escalated and expired is not taken back by an answer:  *)
(* no answering call holds it.  It is not deleted: the call that asked it  *)
(* has returned.                                                           *)
LEMMA StepKeeps == IInv /\ [Next]_vars => Kept /\ CallsInOrder' /\ EndsAreKnown'
<1> SUFFICES ASSUME IInv, [Next]_vars PROVE Kept /\ CallsInOrder' /\ EndsAreKnown'
  OBVIOUS
<1> DEFINE Goal == Kept /\ CallsInOrder' /\ EndsAreKnown'
<1>a. /\ TypeOK /\ CallsInOrder /\ EndsAreKnown
      /\ \A r \in Replicas : sweep[r] \in SweepStates /\ Consistent(sweep[r])
  BY DEF IInv, TypeOK
<1> USE DEF TypeOK, Kept, Settled, Asked, CallsInOrder, notice, calls, history
<1>1. ASSUME UNCHANGED <<question, expired, ask, answer, session, ended>> PROVE Goal
  BY <1>1, <1>a DEF EndsAreKnown
<1>2. CASE UNCHANGED vars
  BY <1>1, <1>2 DEF vars
<1>3. CASE Environment
  BY <1>3, EnvironmentKeeps
<1>4. ASSUME NEW r \in Replicas, NEW ok \in BOOLEAN,
             List(r, ok) \/ CancelSession(r, ok) \/ NotifyQuestionTimedOut(r, ok)
               \/ MarkTimeoutNotificationSent(r, ok) \/ ClearTimeoutNotificationClaim(r, ok)
               \/ Crash(r)
      PROVE Goal
  BY <1>1, <1>4 DEF List, CancelSession, NotifyQuestionTimedOut, MarkTimeoutNotificationSent,
                    ClearTimeoutNotificationClaim, Crash
<1>5. ASSUME NEW r \in Replicas, NEW q \in Questions, NEW ok \in BOOLEAN,
             ClaimTimeoutNotification(r, q, ok)
      PROVE Goal
  BY <1>1, <1>5 DEF ClaimTimeoutNotification
<1>6. ASSUME NEW r \in Replicas, NEW q \in Questions, NEW ok \in BOOLEAN,
             EscalateQuestion(r, q, ok)
      PROVE Goal
  <2>1. Asked(q)
    BY <1>6, <1>a DEF EscalateQuestion, Consistent, SweepStates
  <2>2. \A x \in Questions : question[x] = "timeout" => question'[x] = "timeout"
    BY <1>6, <1>a DEF EscalateQuestion, Escalatable
  <2>3. \A x \in Questions : Asked(x) => Asked(x)'
    BY <1>6, <1>a DEF EscalateQuestion, Escalatable
  <2>4. \A x \in Questions : Settled(x) => Settled(x)'
    BY <1>6, <1>a DEF EscalateQuestion, Escalatable
  <2>5. CallsInOrder'
    BY <1>6, <1>a, <2>1 DEF EscalateQuestion, Escalatable
  <2>6. UNCHANGED <<session, ended>>
    BY <1>6 DEF EscalateQuestion
  <2> QED
    BY <1>a, <2>2, <2>3, <2>4, <2>5, <2>6 DEF EndsAreKnown
<1>7. ASSUME NEW r \in Replicas, NEW q \in Questions, NEW ok \in BOOLEAN,
             MarkEscalatedTimedOut(r, q, ok)
      PROVE Goal
  <2>1. UNCHANGED question \/ (question[q] = "escalated" /\ question' = [question EXCEPT ![q] = "timeout"])
    BY <1>7, <1>a DEF MarkEscalatedTimedOut, Markable
  <2>2. UNCHANGED <<expired, session, ask, answer, ended>>
    BY <1>7 DEF MarkEscalatedTimedOut
  <2> QED
    BY <1>a, <2>1, <2>2 DEF EndsAreKnown
<1>8. ASSUME NEW r \in Replicas, CancelPendingHITL(r) PROVE Goal
  <2>1. \A q \in Questions : question'[q] = question[q]
                             \/ (question[q] \in Open /\ question'[q] = "cancelled")
    BY <1>8, <1>a DEF CancelPendingHITL, CloseQuestions
  <2>2. UNCHANGED <<expired, session, ask, answer, ended>>
    BY <1>8 DEF CancelPendingHITL
  <2> QED
    BY <1>a, <2>1, <2>2 DEF EndsAreKnown, Open
<1>9. ASSUME NEW r \in Replicas, NEW ok \in BOOLEAN, CancelWrite(r, ok) PROVE Goal
  <2>1. sweep[r].s \in Sessions
    <3>1. PICK q \in sweep[r].notify : SessionOf[q] = sweep[r].s
      BY <1>9, <1>a DEF CancelWrite, At, Consistent
    <3> QED
      BY <1>a, <3>1, TimeoutsAssumption DEF SweepStates
  <2>2. Write(sweep[r].s, "cancelled") \/ WriteFails(sweep[r].s, "cancelled")
    BY <1>9 DEF CancelWrite
  <2>3. "cancelled" \in SessionStatuses
    BY DEF SessionStatuses
  <2>4. ended \subseteq ended' /\ EndsAreKnown'
    BY <1>a, <2>1, <2>2, <2>3, WriteFacts
  <2>5. UNCHANGED <<question, expired, ask, answer>>
    BY <1>9 DEF CancelWrite
  <2> QED
    BY <1>a, <2>4, <2>5
<1> QED
  BY <1>2, <1>3, <1>4, <1>5, <1>6, <1>7, <1>8, <1>9 DEF Next, Sweep

-----------------------------------------------------------------------------
(* Consistency.  What a replica knows stays true while others take steps,  *)
(* and Proceed adds nothing that it would have to know.                    *)
LEMMA StaysConsistent ==
  ASSUME Kept, NEW l \in SweepStates, Consistent(l)
  PROVE  Consistent(l)'
<1>1. l.notify \subseteq Questions /\ l.todo \subseteq Questions
  BY DEF SweepStates
<1> QED
  BY <1>1 DEF Kept, Consistent

LEMMA ProceedsConsistently ==
  ASSUME NEW l \in SweepStates,
         \A q \in l.notify : question'[q] = "timeout" /\ SessionOf[q] \in ended',
         l.phase = "tier1" => \A q \in l.todo : Asked(q)',
         l.phase = "tier2" => \A q \in l.todo : Settled(q)',
         l.phase = "finalise" => \A q \in l.todo : question'[q] = "timeout"
  PROVE  \E p \in SweepStates : p = Proceed(l) /\ Consistent(p)'
<1>1. PICK p \in SweepStates : p = Proceed(l)
  BY ProceedFacts
<1>2. /\ p.q = None
      /\ p.notify = l.notify
      /\ p.at \in {"claim", "work", "list"}
      /\ p.at # "claim" => l.notify = {}
      /\ p.at = "list" => p.todo = {}
      /\ p.todo # {} => p.todo = l.todo /\ p.phase = l.phase
  BY <1>1, ProceedFacts
<1>3. Consistent(p)'
  BY <1>2 DEF Consistent, Announcing
<1> QED
  BY <1>1, <1>3

(* One replica moves on to a consistent state: then all are consistent.    *)
LEMMA AllConsistent ==
  ASSUME TypeOK, Kept, \A r \in Replicas : Consistent(sweep[r]),
         NEW r \in Replicas, NEW p \in SweepStates, Continue(r, p), Consistent(p)'
  PROVE  \A x \in Replicas : Consistent(sweep[x])'
<1> SUFFICES ASSUME NEW x \in Replicas PROVE Consistent(sweep[x])'
  OBVIOUS
<1>1. PICK l \in SweepStates : l = sweep'[x] /\ Consistent(l)'
  <2>1. CASE x = r
    BY <2>1 DEF Continue, TypeOK
  <2>2. CASE x # r
    <3>1. PICK l \in SweepStates : l = sweep[x]
      BY DEF TypeOK
    <3>2. sweep'[x] = l
      BY <2>2, <3>1 DEF Continue, TypeOK
    <3> QED
      BY <3>1, <3>2, StaysConsistent
  <2> QED
    BY <2>1, <2>2
<1> QED
  BY <1>1 DEF Consistent

LEMMA NobodyMoves ==
  ASSUME TypeOK, Kept, \A r \in Replicas : Consistent(sweep[r]), UNCHANGED sweep
  PROVE  \A x \in Replicas : Consistent(sweep[x])'
<1> SUFFICES ASSUME NEW x \in Replicas PROVE Consistent(sweep[x])'
  OBVIOUS
<1>1. PICK l \in SweepStates : l = sweep[x] /\ Consistent(l)'
  BY StaysConsistent DEF TypeOK
<1> QED
  BY <1>1 DEF Consistent

LEMMA StepsConsistently ==
  IInv /\ Kept /\ [Next]_vars => \A x \in Replicas : Consistent(sweep[x])'
<1> SUFFICES ASSUME IInv, Kept, [Next]_vars
             PROVE \A x \in Replicas : Consistent(sweep[x])'
  OBVIOUS
<1> DEFINE Goal == \A x \in Replicas : Consistent(sweep[x])'
<1>a. TypeOK /\ \A x \in Replicas : Consistent(sweep[x])
  BY DEF IInv
<1>s. \A q \in Questions : SessionOf[q] \in Sessions
  BY TimeoutsAssumption DEF TimeoutsAssumption
<1>f. ASSUME NEW r \in Replicas
      PROVE sweep[r] \in SweepStates /\ sweep[r].notify \subseteq Questions
              /\ sweep[r].todo \subseteq Questions /\ Consistent(sweep[r])
  BY <1>a DEF TypeOK, SweepStates
<1>1. ASSUME UNCHANGED sweep PROVE Goal
  BY <1>1, <1>a, NobodyMoves
<1>2. ASSUME NEW r \in Replicas, NEW ok \in BOOLEAN, List(r, ok) PROVE Goal
  <2>1. PICK l \in SweepStates :
          /\ Continue(r, Proceed(l))
          /\ l.phase = sweep[r].phase
          /\ \/ l.phase = "renotify" /\ l.notify \subseteq Listed("renotify") /\ l.todo = {}
             \/ l.phase # "renotify" /\ l.notify = {} /\ l.todo \subseteq Listed(l.phase)
    <3> DEFINE found == IF ok THEN Listed(sweep[r].phase) ELSE {}
    <3>1. found \subseteq Listed(sweep[r].phase) /\ found \subseteq Questions
      BY DEF Listed, ExpiredPending, EscalatedExpired, UnnotifiedTimedOut, TimedOut
    <3>2. sweep[r].at = "list" /\ sweep[r].notify = {} /\ sweep[r].todo = {}
      BY <1>2, <1>f DEF List, At, Consistent
    <3>3. Continue(r, Proceed(IF sweep[r].phase = "renotify"
                              THEN [sweep[r] EXCEPT !.notify = found]
                              ELSE [sweep[r] EXCEPT !.todo = found]))
      BY <1>2 DEF List
    <3> HIDE DEF found
    <3>4. /\ [sweep[r] EXCEPT !.notify = found] \in SweepStates
          /\ [sweep[r] EXCEPT !.todo = found] \in SweepStates
      BY <1>f, <3>1 DEF SweepStates
    <3>5. CASE sweep[r].phase = "renotify"
      BY <1>f, <3>1, <3>2, <3>3, <3>4, <3>5 DEF SweepStates
    <3>6. CASE sweep[r].phase # "renotify"
      BY <1>f, <3>1, <3>2, <3>3, <3>4, <3>6 DEF SweepStates
    <3> QED
      BY <3>5, <3>6
  <2>2. l.phase \in Phases
    BY DEF SweepStates
  <2>3. \A q \in l.notify : question'[q] = "timeout" /\ SessionOf[q] \in ended'
    <3>1. \A q \in l.notify : question[q] = "timeout" /\ Asker(q) \in SessionEnded /\ q \in Questions
      BY <2>1 DEF Listed, ExpiredPending, EscalatedExpired, UnnotifiedTimedOut, TimedOut
    <3>2. \A q \in l.notify : SessionOf[q] \in ended
      BY <3>1, <1>s DEF IInv, EndsAreKnown, Asker
    <3> QED
      BY <3>1, <3>2 DEF Kept
  <2>a. l.phase = "tier1" => \A q \in l.todo : Asked(q)'
    <3>1. l.phase = "tier1" => \A q \in l.todo : expired[q] /\ q \in Questions
      BY <2>1 DEF Listed, ExpiredPending, EscalatedExpired, UnnotifiedTimedOut, TimedOut
    <3> QED
      BY <3>1 DEF IInv, CallsInOrder, Kept
  <2>4. l.phase = "tier2" => \A q \in l.todo : Settled(q)'
    <3>1. l.phase = "tier2" => \A q \in l.todo : Settled(q) /\ q \in Questions
      BY <2>1 DEF Listed, ExpiredPending, EscalatedExpired, UnnotifiedTimedOut, TimedOut, Settled,
                  IInv, CallsInOrder
    <3> QED
      BY <3>1 DEF Kept
  <2>5. l.phase = "finalise" => \A q \in l.todo : question'[q] = "timeout"
    <3>1. l.phase = "finalise" => \A q \in l.todo : question[q] = "timeout" /\ q \in Questions
      BY <2>1 DEF Listed, ExpiredPending, EscalatedExpired, UnnotifiedTimedOut, TimedOut
    <3> QED
      BY <3>1 DEF Kept
  <2> QED
    BY <1>a, <2>1, <2>3, <2>a, <2>4, <2>5, ProceedsConsistently, AllConsistent
<1>3. ASSUME NEW r \in Replicas, NEW q \in Questions, NEW ok \in BOOLEAN,
             EscalateQuestion(r, q, ok)
      PROVE Goal
  <2>1. PICK l \in SweepStates : l = [sweep[r] EXCEPT !.todo = @ \ {q}] /\ Continue(r, Proceed(l))
    BY <1>3, <1>f DEF EscalateQuestion, Escalatable, SweepStates
  <2>2. sweep[r].at = "work" /\ sweep[r].phase = "tier1"
    BY <1>3 DEF EscalateQuestion, Escalatable, At
  <2>3. l.notify = sweep[r].notify /\ l.phase = "tier1" /\ l.todo = sweep[r].todo \ {q}
    BY <1>f, <2>1, <2>2 DEF SweepStates
  <2>4. l.notify = {} /\ \A x \in l.todo : Asked(x)'
    BY <1>f, <2>2, <2>3 DEF Consistent, Kept
  <2> QED
    BY <1>a, <2>1, <2>3, <2>4, ProceedsConsistently, AllConsistent
<1>4. ASSUME NEW r \in Replicas, NEW q \in Questions, NEW ok \in BOOLEAN,
             MarkEscalatedTimedOut(r, q, ok)
      PROVE Goal
  <2> DEFINE marked == ok /\ question[q] = "escalated"
             new == IF marked THEN sweep[r].notify \cup {q} ELSE sweep[r].notify
  <2>1. PICK l \in SweepStates :
          /\ l = [sweep[r] EXCEPT !.s = SessionOf[q], !.todo = @ \ {q}, !.notify = new]
          /\ \/ Continue(r, l)
             \/ l.notify # {} /\ Continue(r, [l EXCEPT !.at = "cancel"])
             \/ l.notify = {} /\ Continue(r, Proceed(l))
    <3>1. new \subseteq Questions /\ sweep[r].todo \ {q} \subseteq Questions
      BY <1>f
    <3>2. [sweep[r] EXCEPT !.s = SessionOf[q], !.todo = @ \ {q}, !.notify = new] \in SweepStates
      <4> HIDE DEF new
      <4> QED
        BY <3>1, <1>f, <1>s, GroupInStates
    <3> QED
      BY <1>4, <3>2 DEF MarkEscalatedTimedOut, Markable
  <2>2. /\ sweep[r].at = "work" /\ sweep[r].phase = "tier2" /\ sweep[r].q = None
        /\ sweep[r].s \in {None, SessionOf[q]}
    BY <1>4, <1>f DEF MarkEscalatedTimedOut, Markable, At, Consistent, Announcing
  <2>3. /\ l.at = "work" /\ l.phase = "tier2" /\ l.q = None /\ l.s = SessionOf[q]
        /\ l.todo \subseteq sweep[r].todo /\ l.notify = new
    <3> HIDE DEF new
    <3> QED
      BY <1>f, <2>1, <2>2 DEF SweepStates
  <2>4. \A x \in new : question'[x] = "timeout" /\ SessionOf[x] = SessionOf[q]
    <3>1. ASSUME NEW x \in sweep[r].notify
          PROVE question'[x] = "timeout" /\ SessionOf[x] = SessionOf[q]
      <4>1. x \in Questions /\ question[x] = "timeout" /\ SessionOf[x] = sweep[r].s
        BY <1>f, <2>2, <3>1 DEF Consistent
      <4>2. sweep[r].s # None
        BY <1>s, <4>1, TimeoutsAssumption DEF TimeoutsAssumption
      <4> QED
        BY <2>2, <4>1, <4>2 DEF Kept
    <3>2. marked => question'[q] = "timeout"
      BY <1>4, <1>a DEF MarkEscalatedTimedOut, Markable, TypeOK
    <3> QED
      BY <3>1, <3>2
  <2>5. \A x \in l.todo : Settled(x)'
    BY <1>f, <2>2, <2>3 DEF Consistent, Kept
  <2>6. CASE Continue(r, l)
    <3>1. Consistent(l)'
      <4> HIDE DEF new
      <4> QED
        BY <2>3, <2>4, <2>5 DEF Consistent, Announcing
    <3> QED
      BY <1>a, <2>6, <3>1, AllConsistent
  <2>7. CASE l.notify # {} /\ Continue(r, [l EXCEPT !.at = "cancel"])
    <3>1. PICK p \in SweepStates :
            /\ p = [l EXCEPT !.at = "cancel"]
            /\ p.at = "cancel" /\ p.phase = "tier2" /\ p.q = None /\ p.s = SessionOf[q]
            /\ p.todo = l.todo /\ p.notify = l.notify
      <4>1. \E p \in SweepStates :
              /\ p = [l EXCEPT !.at = "cancel"]
              /\ p.at = "cancel" /\ p.phase = l.phase /\ p.todo = l.todo /\ p.notify = l.notify
              /\ p.s = l.s /\ p.q = l.q
        BY Relabelled
      <4> HIDE DEF new
      <4> QED
        BY <2>3, <4>1
    <3>2. Consistent(p)'
      <4> HIDE DEF new
      <4> QED
        BY <2>3, <2>4, <2>5, <2>7, <3>1 DEF Consistent, Announcing
    <3> QED
      BY <1>a, <2>7, <3>1, <3>2, AllConsistent
  <2>8. CASE l.notify = {} /\ Continue(r, Proceed(l))
    BY <1>a, <2>3, <2>5, <2>8, ProceedsConsistently, AllConsistent
  <2> QED
    BY <2>1, <2>6, <2>7, <2>8
<1>5. ASSUME NEW r \in Replicas, NEW ok \in BOOLEAN, CancelSession(r, ok) PROVE Goal
  <2>1. PICK l \in ToCancel(r) :
          \/ Continue(r, [l EXCEPT !.at = "write"])
          \/ l.s \in ended' /\ Continue(r, [l EXCEPT !.at = "close"])
          \/ Continue(r, Proceed([l EXCEPT !.notify = {}]))
    <3>1. \A l \in ToCancel(r) : l.s \in Sessions
      <4> SUFFICES ASSUME NEW l \in ToCancel(r) PROVE l.s \in Sessions
        OBVIOUS
      <4>1. CASE sweep[r].at = "cancel"
        <5>1. l = sweep[r] /\ l.notify # {} /\ \A q \in l.notify : SessionOf[q] = l.s
          BY <1>f, <4>1 DEF ToCancel, Consistent
        <5> QED
          BY <1>f, <1>s, <5>1
      <4>2. CASE sweep[r].at # "cancel"
        <5>1. PICK q \in sweep[r].todo :
                l = [sweep[r] EXCEPT !.at = "cancel", !.s = SessionOf[q], !.todo = @ \ {q},
                                     !.notify = {q}]
          BY <4>2 DEF ToCancel
        <5>2. l.s = SessionOf[q]
          BY <1>f, <5>1 DEF SweepStates
        <5> QED
          BY <1>f, <1>s, <5>2
      <4> QED
        BY <4>1, <4>2
    <3> QED
      BY <1>5, <3>1 DEF CancelSession, IInv, EndsAreKnown, Kept
  <2>2. /\ l \in SweepStates
        /\ l.notify # {} /\ \A q \in l.notify : SessionOf[q] = l.s
        /\ \A q \in l.notify : question[q] = "timeout"
        /\ l.phase = sweep[r].phase /\ l.todo \subseteq sweep[r].todo
        /\ l.q = None
    <3>1. CASE sweep[r].at = "cancel"
      <4>1. l = sweep[r]
        BY <3>1 DEF ToCancel
      <4> QED
        BY <1>f, <3>1, <4>1 DEF Consistent, Announcing
    <3>2. CASE sweep[r].at # "cancel"
      <4>1. /\ sweep[r].at = "work" /\ sweep[r].phase = "finalise"
            /\ \E q \in sweep[r].todo :
                 l = [sweep[r] EXCEPT !.at = "cancel", !.s = SessionOf[q], !.todo = @ \ {q},
                                      !.notify = {q}]
        BY <3>2 DEF ToCancel
      <4>2. PICK q \in sweep[r].todo :
              l = [sweep[r] EXCEPT !.at = "cancel", !.s = SessionOf[q], !.todo = @ \ {q},
                                   !.notify = {q}]
        BY <4>1
      <4>3. q \in Questions /\ SessionOf[q] \in Sessions /\ question[q] = "timeout"
        BY <1>f, <1>s, <4>1 DEF Consistent
      <4>4. l \in SweepStates
        BY <1>f, <4>2, <4>3, GroupInStates
      <4>5. /\ l.notify = {q} /\ l.s = SessionOf[q] /\ l.phase = sweep[r].phase
            /\ l.todo = sweep[r].todo \ {q} /\ l.q = sweep[r].q
        BY <1>f, <4>2 DEF SweepStates
      <4>6. sweep[r].q = None
        BY <1>f, <4>1 DEF Consistent, Announcing
      <4> QED
        BY <4>3, <4>4, <4>5, <4>6
    <3> QED
      BY <3>1, <3>2
  <2>3. /\ l.phase = "tier1" => \A q \in l.todo : Asked(q)'
        /\ l.phase = "tier2" => \A q \in l.todo : Settled(q)'
        /\ l.phase = "finalise" => \A q \in l.todo : question'[q] = "timeout"
    BY <1>f, <2>2 DEF Consistent, Kept
  <2>4. \A q \in l.notify : question'[q] = "timeout" /\ q \in Questions
    BY <2>2 DEF Kept, SweepStates
  <2>w. CASE Continue(r, [l EXCEPT !.at = "write"])
    <3>1. PICK p \in SweepStates :
            /\ p = [l EXCEPT !.at = "write"]
            /\ p.at = "write" /\ p.phase = l.phase /\ p.q = None /\ p.s = l.s
            /\ p.todo = l.todo /\ p.notify = l.notify
      BY <2>2, Relabelled
    <3>2. Consistent(p)'
      BY <2>2, <2>3, <2>4, <3>1 DEF Consistent, Announcing
    <3> QED
      BY <1>a, <2>w, <3>1, <3>2, AllConsistent
  <2>5. CASE l.s \in ended' /\ Continue(r, [l EXCEPT !.at = "close"])
    <3>1. PICK p \in SweepStates :
            /\ p = [l EXCEPT !.at = "close"]
            /\ p.at = "close" /\ p.phase = l.phase /\ p.q = None /\ p.s = l.s
            /\ p.todo = l.todo /\ p.notify = l.notify
      BY <2>2, Relabelled
    <3>2. Consistent(p)'
      BY <2>2, <2>3, <2>4, <2>5, <3>1 DEF Consistent, Announcing
    <3> QED
      BY <1>a, <2>5, <3>1, <3>2, AllConsistent
  <2>6. CASE Continue(r, Proceed([l EXCEPT !.notify = {}]))
    <3>1. PICK k \in SweepStates :
            /\ k = [l EXCEPT !.notify = {}]
            /\ k.notify = {} /\ k.phase = l.phase /\ k.todo = l.todo
      <4>1. {} \in SUBSET Questions
        OBVIOUS
      <4>2. \E k \in SweepStates :
              /\ k = [l EXCEPT !.notify = {}]
              /\ k.at = l.at /\ k.phase = l.phase /\ k.todo = l.todo /\ k.notify = {}
              /\ k.s = l.s /\ k.q = l.q
        BY <2>2, <4>1, Renotifying
      <4> QED
        BY <4>2
    <3> QED
      BY <1>a, <2>3, <2>6, <3>1, ProceedsConsistently, AllConsistent
  <2> QED
    BY <2>1, <2>w, <2>5, <2>6
<1>14. ASSUME NEW r \in Replicas, NEW ok \in BOOLEAN, CancelWrite(r, ok) PROVE Goal
  <2>1. PICK l \in SweepStates : l = sweep[r] /\ Consistent(l)' /\ l.at = "write"
    BY <1>14, <1>f, StaysConsistent DEF CancelWrite, At
  <2>2. CASE Continue(r, [l EXCEPT !.at = "close"]) /\ Write(l.s, "cancelled")
    <3>1. PICK p \in SweepStates :
            /\ p = [l EXCEPT !.at = "close"]
            /\ p.at = "close" /\ p.phase = l.phase /\ p.q = l.q /\ p.s = l.s
            /\ p.todo = l.todo /\ p.notify = l.notify
      <4>1. \E p \in SweepStates :
              /\ p = [l EXCEPT !.at = "close"]
              /\ p.at = "close" /\ p.phase = l.phase /\ p.todo = l.todo /\ p.notify = l.notify
              /\ p.s = l.s /\ p.q = l.q
        BY Relabelled
      <4> QED
        BY <4>1
    <3>2. l.s \in ended'
      BY <2>2 DEF Write, SessionEnded
    <3>3. Consistent(p)'
      BY <2>1, <3>1, <3>2 DEF Consistent, Announcing
    <3> QED
      BY <1>a, <2>2, <3>1, <3>3, AllConsistent
  <2>3. CASE Continue(r, Proceed([l EXCEPT !.notify = {}]))
    <3>1. PICK k \in SweepStates :
            /\ k = [l EXCEPT !.notify = {}]
            /\ k.notify = {} /\ k.phase = l.phase /\ k.todo = l.todo
      <4>1. {} \in SUBSET Questions
        OBVIOUS
      <4>2. \E k \in SweepStates :
              /\ k = [l EXCEPT !.notify = {}]
              /\ k.at = l.at /\ k.phase = l.phase /\ k.todo = l.todo /\ k.notify = {}
              /\ k.s = l.s /\ k.q = l.q
        BY <4>1, Renotifying
      <4> QED
        BY <4>2
    <3>2. /\ k.phase = "tier1" => \A q \in k.todo : Asked(q)'
          /\ k.phase = "tier2" => \A q \in k.todo : Settled(q)'
          /\ k.phase = "finalise" => \A q \in k.todo : question'[q] = "timeout"
      BY <2>1, <3>1 DEF Consistent
    <3> QED
      BY <1>a, <2>3, <3>1, <3>2, ProceedsConsistently, AllConsistent
  <2> QED
    BY <1>14, <2>1, <2>2, <2>3 DEF CancelWrite
<1>6. ASSUME NEW r \in Replicas, Continue(r, Proceed(sweep[r])),
             sweep[r].at \in {"close", "record", "clear"}
      PROVE Goal
  <2>1. PICK l \in SweepStates : l = sweep[r] /\ Consistent(l)'
    BY <1>f, StaysConsistent
  <2>2. /\ \A q \in l.notify : question'[q] = "timeout" /\ SessionOf[q] \in ended'
        /\ l.phase = "tier1" => \A q \in l.todo : Asked(q)'
        /\ l.phase = "tier2" => \A q \in l.todo : Settled(q)'
        /\ l.phase = "finalise" => \A q \in l.todo : question'[q] = "timeout"
    BY <1>6, <2>1 DEF Consistent
  <2> QED
    BY <1>6, <1>a, <2>1, <2>2, ProceedsConsistently, AllConsistent
<1>7. ASSUME NEW r \in Replicas, NEW q \in Questions, NEW ok \in BOOLEAN,
             ClaimTimeoutNotification(r, q, ok)
      PROVE Goal
  <2>1. PICK k \in SweepStates : k = sweep[r] /\ Consistent(k)' /\ k.at = "claim" /\ q \in k.notify
    BY <1>7, <1>f, StaysConsistent DEF ClaimTimeoutNotification, Claimable, At
  <2>2. PICK l \in SweepStates :
          /\ l = [k EXCEPT !.notify = @ \ {q}]
          /\ l.notify = k.notify \ {q} /\ l.phase = k.phase /\ l.todo = k.todo /\ l.at = "claim"
    <3>1. k.notify \ {q} \in SUBSET Questions
      BY DEF SweepStates
    <3>2. \E l \in SweepStates :
            /\ l = [k EXCEPT !.notify = k.notify \ {q}]
            /\ l.at = k.at /\ l.phase = k.phase /\ l.todo = k.todo /\ l.notify = k.notify \ {q}
            /\ l.s = k.s /\ l.q = k.q
      BY <2>1, <3>1, Renotifying
    <3> QED
      BY <2>1, <3>2
  <2>3. /\ \A x \in k.notify : question'[x] = "timeout" /\ SessionOf[x] \in ended'
        /\ l.phase = "tier1" => \A x \in l.todo : Asked(x)'
        /\ l.phase = "tier2" => \A x \in l.todo : Settled(x)'
        /\ l.phase = "finalise" => \A x \in l.todo : question'[x] = "timeout"
    BY <2>1, <2>2 DEF Consistent
  <2>4. CASE Continue(r, Proceed(l))
    BY <1>a, <2>2, <2>3, <2>4, ProceedsConsistently, AllConsistent
  <2>5. CASE Continue(r, [l EXCEPT !.at = "send", !.q = q])
    <3>1. PICK p \in SweepStates :
            /\ p = [l EXCEPT !.at = "send", !.q = q]
            /\ p.at = "send" /\ p.phase = l.phase /\ p.q = q
            /\ p.todo = l.todo /\ p.notify = l.notify
      <4>1. \E p \in SweepStates :
              /\ p = [l EXCEPT !.at = "send", !.q = q]
              /\ p.at = "send" /\ p.phase = l.phase /\ p.todo = l.todo /\ p.notify = l.notify
              /\ p.s = l.s /\ p.q = q
        BY Claiming
      <4> QED
        BY <4>1
    <3>2. Consistent(p)'
      BY <2>1, <2>2, <2>3, <3>1 DEF Consistent, Announcing
    <3> QED
      BY <1>a, <2>5, <3>1, <3>2, AllConsistent
  <2> QED
    BY <1>7, <2>1, <2>2, <2>4, <2>5 DEF ClaimTimeoutNotification, Claimable
<1>8. ASSUME NEW r \in Replicas, NEW ok \in BOOLEAN, NotifyQuestionTimedOut(r, ok) PROVE Goal
  <2>1. PICK k \in SweepStates : k = sweep[r] /\ Consistent(k)' /\ k.at = "send"
    BY <1>8, <1>f, StaysConsistent DEF NotifyQuestionTimedOut, At
  <2>2. PICK p \in SweepStates :
          /\ Continue(r, p)
          /\ p.at \in {"record", "clear"} /\ p.phase = k.phase /\ p.q = k.q
          /\ p.todo = k.todo /\ p.notify = k.notify
    BY <1>8, <2>1 DEF NotifyQuestionTimedOut, SweepStates
  <2>3. Consistent(p)'
    BY <2>1, <2>2 DEF Consistent, Announcing
  <2> QED
    BY <1>a, <2>2, <2>3, AllConsistent
<1>9. ASSUME NEW r \in Replicas, Crash(r) PROVE Goal
  <2>1. PICK p \in SweepStates : p = Resting
    BY DEF Resting, SweepStates, Phases
  <2>2. Consistent(p)'
    BY <2>1 DEF Consistent, Resting, Announcing
  <2> QED
    BY <1>9, <1>a, <2>1, <2>2, AllConsistent DEF Crash
<1>10. CASE UNCHANGED vars
  BY <1>1, <1>10 DEF vars
<1>11. CASE Environment
  BY <1>1, <1>11 DEF Environment, Asking, Answering, Ending, AskHuman, AskRead, AskWrite,
     DropQuestion, AnswerQuestion, RecordAnswer, ResumeRead, ResumeWrite, RollbackWrite,
     ResetAnswer, Expire, Lapse, EndSession, EndWrite, EndClose
<1>12. ASSUME NEW r \in Replicas, CancelPendingHITL(r) PROVE Goal
  BY <1>6, <1>12 DEF CancelPendingHITL, At
<1>13. ASSUME NEW r \in Replicas, NEW ok \in BOOLEAN,
              MarkTimeoutNotificationSent(r, ok) \/ ClearTimeoutNotificationClaim(r, ok)
       PROVE Goal
  BY <1>6, <1>13 DEF MarkTimeoutNotificationSent, Recordable, ClearTimeoutNotificationClaim,
     Clearable, At
<1> QED
  BY <1>2, <1>3, <1>4, <1>5, <1>7, <1>8, <1>9, <1>10, <1>11, <1>12, <1>13, <1>14 DEF Next, Sweep

-----------------------------------------------------------------------------
(* Exclusion.  A replica that announces nothing afterwards, and that       *)
(* touched no question but the one it was about, except to claim one,      *)
(* disturbs nobody: the others are about other questions.                  *)
Others(r) ==
  /\ UNCHANGED stalled
  /\ \A q \in Questions :
       q # sweep[r].q => claim'[q] \in {claim[q], "fresh"} /\ notified'[q] = notified[q]

LEMMA LeavesAlone ==
  ASSUME IInv, NEW r \in Replicas, NEW p \in SweepStates, Continue(r, p),
         p.at \notin Announcing, p.q = None, Others(r)
  PROVE  \A x \in Replicas : Exclusive(x)'
<1> SUFFICES ASSUME NEW x \in Replicas PROVE Exclusive(x)'
  OBVIOUS
<1>1. \A y \in Replicas : sweep'[y] = IF y = r THEN p ELSE sweep[y]
  BY DEF Continue, IInv, TypeOK
<1>2. CASE x = r
  BY <1>1, <1>2 DEF Exclusive
<1>3. CASE x # r /\ sweep[x].at \in Announcing /\ sweep[x].q \notin stalled
  <2>1. sweep[x].q \in Questions /\ Exclusive(x)
    BY <1>3 DEF IInv, Consistent
  <2>2. sweep[x].q # None /\ sweep[r].q # sweep[x].q
    BY <1>3, <2>1, TimeoutsAssumption DEF Exclusive, TimeoutsAssumption
  <2> QED
    BY <1>1, <1>3, <2>1, <2>2 DEF Exclusive, Others
<1>4. CASE x # r /\ ~(sweep[x].at \in Announcing /\ sweep[x].q \notin stalled)
  BY <1>1, <1>4 DEF Exclusive, Others
<1> QED
  BY <1>2, <1>3, <1>4

LEMMA ProceedLeavesAlone ==
  ASSUME IInv, NEW r \in Replicas, NEW l \in SweepStates, Continue(r, Proceed(l)), Others(r)
  PROVE  \A x \in Replicas : Exclusive(x)'
BY ProceedFacts, LeavesAlone DEF Announcing

LEMMA StepsExclusively == IInv /\ [Next]_vars => \A x \in Replicas : Exclusive(x)'
<1> SUFFICES ASSUME IInv, [Next]_vars PROVE \A x \in Replicas : Exclusive(x)'
  OBVIOUS
<1> DEFINE Goal == \A x \in Replicas : Exclusive(x)'
<1>f. ASSUME NEW r \in Replicas
      PROVE sweep[r] \in SweepStates /\ Exclusive(r) /\ Consistent(sweep[r])
  BY DEF IInv, TypeOK
<1>o. ASSUME NEW r \in Replicas, UNCHANGED <<claim, notified, stalled>> PROVE Others(r)
  BY <1>o DEF Others
<1>1. ASSUME UNCHANGED <<sweep, claim, notified, stalled>> PROVE Goal
  BY <1>1, <1>f DEF Exclusive
<1>2. ASSUME NEW q \in Questions, Lapse(q) PROVE Goal
  BY <1>2, <1>f DEF Lapse, Exclusive, Announcing, IInv, TypeOK
<1>3. ASSUME NEW r \in Replicas, NEW ok \in BOOLEAN, List(r, ok) PROVE Goal
  <2>1. PICK l \in SweepStates : Continue(r, Proceed(l))
    <3> DEFINE found == IF ok THEN Listed(sweep[r].phase) ELSE {}
    <3>1. found \in SUBSET Questions
      BY DEF Listed, ExpiredPending, EscalatedExpired, UnnotifiedTimedOut, TimedOut
    <3> HIDE DEF found
    <3>2. /\ [sweep[r] EXCEPT !.notify = found] \in SweepStates
          /\ [sweep[r] EXCEPT !.todo = found] \in SweepStates
      BY <1>f, <3>1 DEF SweepStates
    <3> QED
      BY <1>3, <3>2 DEF List, found
  <2> QED
    BY <1>3, <1>o, <2>1, ProceedLeavesAlone DEF List, notice, history
<1>4. ASSUME NEW r \in Replicas, NEW q \in Questions, NEW ok \in BOOLEAN,
             EscalateQuestion(r, q, ok)
      PROVE Goal
  <2>1. [sweep[r] EXCEPT !.todo = @ \ {q}] \in SweepStates
    BY <1>f DEF SweepStates
  <2> QED
    BY <1>4, <1>o, <2>1, ProceedLeavesAlone DEF EscalateQuestion, notice, history
<1>5. ASSUME NEW r \in Replicas, NEW q \in Questions, NEW ok \in BOOLEAN,
             MarkEscalatedTimedOut(r, q, ok)
      PROVE Goal
  <2> DEFINE new == IF ok /\ question[q] = "escalated" THEN sweep[r].notify \cup {q}
                    ELSE sweep[r].notify
             l == [sweep[r] EXCEPT !.s = SessionOf[q], !.todo = @ \ {q}, !.notify = new]
  <2>1. l \in SweepStates
    <3>1. new \in SUBSET Questions /\ sweep[r].todo \ {q} \in SUBSET Questions
      BY <1>f DEF SweepStates
    <3>2. SessionOf[q] \in Sessions
      BY TimeoutsAssumption DEF TimeoutsAssumption
    <3> HIDE DEF new
    <3> QED
      BY <1>f, <3>1, <3>2, GroupInStates
  <2>2. sweep[r].at = "work" /\ sweep[r].q = None
    BY <1>5, <1>f DEF MarkEscalatedTimedOut, Markable, At, Consistent, Announcing
  <2>3. l.at = "work" /\ l.q = None
    <3> HIDE DEF new
    <3> QED
      BY <1>f, <2>2 DEF SweepStates
  <2>4. Others(r)
    BY <1>5, <1>o DEF MarkEscalatedTimedOut, notice, history
  <2>5. Continue(r, l) \/ Continue(r, [l EXCEPT !.at = "cancel"]) \/ Continue(r, Proceed(l))
    BY <1>5 DEF MarkEscalatedTimedOut, Markable
  <2> HIDE DEF l
  <2>6. CASE Continue(r, l)
    BY <2>1, <2>3, <2>4, <2>6, LeavesAlone DEF Announcing
  <2>7. CASE Continue(r, [l EXCEPT !.at = "cancel"])
    <3>1. \E p \in SweepStates :
            /\ p = [l EXCEPT !.at = "cancel"]
            /\ p.at = "cancel" /\ p.phase = l.phase /\ p.todo = l.todo /\ p.notify = l.notify
            /\ p.s = l.s /\ p.q = l.q
      BY <2>1, Relabelled
    <3> QED
      BY <2>3, <2>4, <2>7, <3>1, LeavesAlone DEF Announcing
  <2>8. CASE Continue(r, Proceed(l))
    BY <2>1, <2>4, <2>8, ProceedLeavesAlone
  <2> QED
    BY <2>5, <2>6, <2>7, <2>8
<1>6. ASSUME NEW r \in Replicas, NEW ok \in BOOLEAN, CancelSession(r, ok) PROVE Goal
  <2>1. PICK l \in ToCancel(r) :
          \/ \E at \in {"write", "close"} : Continue(r, [l EXCEPT !.at = at])
          \/ Continue(r, Proceed([l EXCEPT !.notify = {}]))
    BY <1>6 DEF CancelSession
  <2>2. l \in SweepStates /\ l.q = None
    <3>1. CASE sweep[r].at = "cancel"
      BY <1>f, <3>1 DEF ToCancel, Consistent, Announcing
    <3>2. CASE sweep[r].at # "cancel"
      <4>1. sweep[r].at = "work" /\ sweep[r].q = None
        BY <1>f, <3>2 DEF ToCancel, Consistent, Announcing
      <4>2. PICK q \in sweep[r].todo :
              l = [sweep[r] EXCEPT !.at = "cancel", !.s = SessionOf[q], !.todo = @ \ {q},
                                   !.notify = {q}]
        BY <3>2 DEF ToCancel
      <4>3. /\ q \in Questions /\ {q} \in SUBSET Questions
            /\ sweep[r].todo \ {q} \in SUBSET Questions /\ SessionOf[q] \in Sessions
        BY <1>f, TimeoutsAssumption DEF SweepStates, TimeoutsAssumption
      <4>4. l \in SweepStates
        BY <1>f, <4>2, <4>3, GroupInStates
      <4>5. l.q = sweep[r].q
        BY <1>f, <4>2 DEF SweepStates
      <4> QED
        BY <4>1, <4>4, <4>5
    <3> QED
      BY <3>1, <3>2
  <2>3. Others(r)
    BY <1>6, <1>o DEF CancelSession, notice, history
  <2>4. ASSUME NEW at \in {"write", "close"}, Continue(r, [l EXCEPT !.at = at]) PROVE Goal
    <3>1. at \in {"cancel", "write", "close"}
      OBVIOUS
    <3>2. PICK p \in SweepStates :
            /\ p = [l EXCEPT !.at = at]
            /\ p.at = at /\ p.phase = l.phase /\ p.todo = l.todo /\ p.notify = l.notify
            /\ p.s = l.s /\ p.q = l.q
      BY <2>2, <3>1, Relabelled
    <3>3. Continue(r, p) /\ p.at \notin Announcing /\ p.q = None
      BY <2>2, <2>4, <3>2 DEF Announcing
    <3> QED
      BY <2>3, <3>3, LeavesAlone
  <2>5. CASE Continue(r, Proceed([l EXCEPT !.notify = {}]))
    <3>1. [l EXCEPT !.notify = {}] \in SweepStates
      BY <2>2 DEF SweepStates
    <3> QED
      BY <2>3, <2>5, <3>1, ProceedLeavesAlone
  <2> QED
    BY <2>1, <2>4, <2>5
<1>7. ASSUME NEW r \in Replicas, CancelPendingHITL(r) PROVE Goal
  BY <1>7, <1>f, <1>o, ProceedLeavesAlone DEF CancelPendingHITL, notice, history
<1>14. ASSUME NEW r \in Replicas, NEW ok \in BOOLEAN, CancelWrite(r, ok) PROVE Goal
  <2>1. PICK l \in SweepStates : l = sweep[r] /\ l.q = None
    BY <1>14, <1>f DEF CancelWrite, At, Consistent, Announcing
  <2>2. Others(r)
    BY <1>14, <1>o DEF CancelWrite, Write, WriteFails, notice, history
  <2>3. CASE Continue(r, [l EXCEPT !.at = "close"])
    <3>1. \E p \in SweepStates :
            /\ p = [l EXCEPT !.at = "close"]
            /\ p.at = "close" /\ p.phase = l.phase /\ p.todo = l.todo /\ p.notify = l.notify
            /\ p.s = l.s /\ p.q = l.q
      BY Relabelled
    <3> QED
      BY <2>1, <2>2, <2>3, <3>1, LeavesAlone DEF Announcing
  <2>4. CASE Continue(r, Proceed([l EXCEPT !.notify = {}]))
    <3>1. [l EXCEPT !.notify = {}] \in SweepStates
      BY DEF SweepStates
    <3> QED
      BY <2>2, <2>4, <3>1, ProceedLeavesAlone
  <2> QED
    BY <1>14, <2>1, <2>3, <2>4 DEF CancelWrite
<1>8. ASSUME NEW r \in Replicas, NEW ok \in BOOLEAN,
             MarkTimeoutNotificationSent(r, ok) \/ ClearTimeoutNotificationClaim(r, ok)
      PROVE Goal
  <2>1. Continue(r, Proceed(sweep[r]))
    BY <1>8 DEF MarkTimeoutNotificationSent, Recordable, ClearTimeoutNotificationClaim, Clearable
  <2>2. Others(r)
    BY <1>8 DEF MarkTimeoutNotificationSent, Recordable, ClearTimeoutNotificationClaim,
       Clearable, IInv, TypeOK, Others, history
  <2> QED
    BY <1>f, <2>1, <2>2, ProceedLeavesAlone
<1>9. ASSUME NEW r \in Replicas, NEW q \in Questions, NEW ok \in BOOLEAN,
             ClaimTimeoutNotification(r, q, ok)
      PROVE Goal
  <2> DEFINE l == [sweep[r] EXCEPT !.notify = @ \ {q}]
  <2>1. l \in SweepStates
    BY <1>f DEF SweepStates
  <2>4. claim \in [Questions -> {"none", "fresh", "stale"}]
    BY DEF IInv, TypeOK
  <2>2. CASE Continue(r, Proceed(l))
    <3>1. Others(r)
      BY <1>9, <2>4 DEF ClaimTimeoutNotification, Others, history
    <3> HIDE DEF l
    <3> QED
      BY <2>1, <2>2, <3>1, ProceedLeavesAlone
  <2>3. CASE /\ Continue(r, [l EXCEPT !.at = "send", !.q = q])
             /\ claim[q] # "fresh" /\ ~notified[q]
             /\ claim' = [claim EXCEPT ![q] = "fresh"]
    <3> HIDE DEF l
    <3>1. PICK p \in SweepStates : Continue(r, p) /\ p.at = "send" /\ p.q = q
      <4>1. \E p \in SweepStates :
              /\ p = [l EXCEPT !.at = "send", !.q = q]
              /\ p.at = "send" /\ p.phase = l.phase /\ p.todo = l.todo /\ p.notify = l.notify
              /\ p.s = l.s /\ p.q = q
        BY <2>1, Claiming
      <4> QED
        BY <2>3, <4>1
    <3>2. UNCHANGED notified /\ UNCHANGED stalled /\ claim'[q] = "fresh"
          /\ \A x \in Questions \ {q} : claim'[x] = claim[x]
      BY <1>9, <2>3, <2>4 DEF ClaimTimeoutNotification, history
    <3>3. \A y \in Replicas : sweep'[y] = IF y = r THEN p ELSE sweep[y]
      BY <3>1 DEF Continue, IInv, TypeOK
    <3>4. ASSUME NEW x \in Replicas PROVE q \notin stalled => sweep[x].q # q
      <4>1. CASE sweep[x].at \in Announcing
        BY <1>f, <2>3, <4>1 DEF Exclusive
      <4>2. CASE sweep[x].at \notin Announcing
        <5>1. sweep[x].q = None
          BY <1>f, <4>2 DEF Consistent
        <5> QED
          BY <5>1, TimeoutsAssumption DEF TimeoutsAssumption
      <4> QED
        BY <4>1, <4>2
    <3>5. ASSUME NEW x \in Replicas PROVE Exclusive(x)'
      <4>1. CASE x = r
        BY <2>3, <3>1, <3>2, <3>3, <3>4, <4>1 DEF Exclusive
      <4>2. CASE x # r /\ sweep[x].at \in Announcing
        <5>1. sweep[x].q \in Questions
          BY <1>f, <4>2 DEF Consistent
        <5> QED
          BY <1>f, <3>1, <3>2, <3>3, <3>4, <4>2, <5>1 DEF Exclusive
      <4>3. CASE x # r /\ sweep[x].at \notin Announcing
        BY <3>3, <4>3 DEF Exclusive
      <4> QED
        BY <4>1, <4>2, <4>3
    <3> QED
      BY <3>5
  <2>5. Continue(r, Proceed(l)) \/ (ok /\ Claimable(q) /\ Continue(r, [l EXCEPT !.at = "send", !.q = q]))
    BY <1>9 DEF ClaimTimeoutNotification
  <2>6. ok /\ Claimable(q) => claim[q] # "fresh" /\ ~notified[q] /\ claim' = [claim EXCEPT ![q] = "fresh"]
    BY <1>9 DEF ClaimTimeoutNotification, Claimable
  <2> QED
    BY <2>2, <2>3, <2>5, <2>6
<1>10. ASSUME NEW r \in Replicas, NEW ok \in BOOLEAN, NotifyQuestionTimedOut(r, ok) PROVE Goal
  <2>1. sweep[r].at = "send" /\ UNCHANGED <<claim, notified, stalled>>
    BY <1>10 DEF NotifyQuestionTimedOut, At, notice, history
  <2>2. \A y \in Replicas :
          /\ sweep'[y].q = sweep[y].q
          /\ sweep'[y].at \in Announcing => sweep[y].at \in Announcing
    BY <1>10, <1>f, <2>1 DEF NotifyQuestionTimedOut, Continue, Announcing, SweepStates, IInv, TypeOK
  <2> QED
    BY <1>f, <2>1, <2>2 DEF Exclusive
<1>11. ASSUME NEW r \in Replicas, Crash(r) PROVE Goal
  <2>1. Resting \in SweepStates /\ Resting.at = "list" /\ Resting.q = None
    BY DEF Resting, SweepStates, Phases
  <2> QED
    BY <1>11, <1>o, <2>1, LeavesAlone DEF Crash, Announcing, notice, history
<1>12. CASE UNCHANGED vars
  BY <1>1, <1>12 DEF vars, notice, history
<1>13. CASE Environment
  BY <1>1, <1>2, <1>13 DEF Environment, Asking, Answering, Ending, AskHuman, AskRead, AskWrite,
     DropQuestion, AnswerQuestion, RecordAnswer, ResumeRead, ResumeWrite, RollbackWrite,
     ResetAnswer, Expire, EndSession, EndWrite, EndClose, Write, WriteFails, notice, history
<1> QED
  BY <1>3, <1>4, <1>5, <1>6, <1>7, <1>8, <1>9, <1>10, <1>11, <1>12, <1>13, <1>14 DEF Next, Sweep

-----------------------------------------------------------------------------
(* The invariant, and what follows from it.                                *)
THEOREM Invariance == Spec => []IInv
<1>1. Init => IInv
  <2> SUFFICES ASSUME Init PROVE IInv
    OBVIOUS
  <2>1. TypeOK
    BY TimeoutsAssumption DEF Init, TypeOK, Resting, SweepStates, Phases, QuestionStatuses,
       SessionStatuses
  <2>2. \A r \in Replicas : sweep[r] = Resting
    BY DEF Init
  <2>3. \A r \in Replicas : Consistent(sweep[r]) /\ Exclusive(r)
    BY <2>2 DEF Consistent, Exclusive, Resting, Announcing
  <2>4. CallsInOrder /\ EndsAreKnown
    BY DEF Init, CallsInOrder, EndsAreKnown, SessionEnded
  <2> QED
    BY <2>1, <2>3, <2>4 DEF IInv
<1>2. Typed' /\ IInv /\ [Next]_vars => IInv'
  BY StepKeeps, StepsConsistently, StepsExclusively DEF IInv, Typed
<1> QED
  BY <1>1, <1>2, Typing, PTL DEF Spec

(* Whenever a replica goes to cancel a session, a question of that session *)
(* has timed out, however answers and other sweeps interleave.             *)
THEOREM CancelsOnlyForATimeout == Spec => []CancelsForATimeout
<1>1. IInv => CancelsForATimeout
  <2> SUFFICES ASSUME IInv, NEW r \in Replicas, NEW l \in ToCancel(r)
               PROVE \E q \in l.notify : SessionOf[q] = l.s /\ question[q] = "timeout"
    BY DEF CancelsForATimeout
  <2>1. Consistent(sweep[r]) /\ sweep[r] \in SweepStates
    BY DEF IInv, TypeOK
  <2>2. CASE sweep[r].at = "cancel"
    BY <2>1, <2>2 DEF ToCancel, Consistent
  <2>3. CASE sweep[r].at # "cancel"
    <3>1. sweep[r].phase = "finalise"
      BY <2>3 DEF ToCancel
    <3>2. PICK q \in sweep[r].todo :
            l = [sweep[r] EXCEPT !.at = "cancel", !.s = SessionOf[q], !.todo = @ \ {q},
                                 !.notify = {q}]
      BY <2>3 DEF ToCancel
    <3>3. l.s = SessionOf[q] /\ l.notify = {q}
      BY <2>1, <3>2 DEF SweepStates
    <3>4. question[q] = "timeout"
      BY <2>1, <3>1 DEF Consistent
    <3> QED
      BY <3>3, <3>4
  <2> QED
    BY <2>2, <2>3
<1> QED
  BY <1>1, Invariance, PTL

(* Whatever is written over the rows of sessions meanwhile: a timeout is   *)
(* announced only once an end of its session has been on record.           *)
THEOREM AnnouncedOnlyAfterTheEnd == Spec => []AnnouncedAfterTheEnd
<1>1. IInv => AnnouncedAfterTheEnd
  BY DEF IInv, AnnouncedAfterTheEnd, Consistent, Announcing, At
<1> QED
  BY <1>1, Invariance, PTL

(* Any number of replicas, crashes and failed calls: one replica at a time *)
(* announces a timeout, and none that was announced, until a send of that  *)
(* announcement outlasts its claim.                                        *)
THEOREM OneReplicaAnnounces == Spec => []OneNotifier
<1>1. IInv => OneNotifier
  BY DEF IInv, OneNotifier, Exclusive, Announcing, At
<1> QED
  BY <1>1, Invariance, PTL

(* Timeouts, and the record that they were announced, are never undone.    *)
THEOREM TimeoutsAreFinal == Spec => TimeoutIsFinal
<1>1. IInv /\ [Next]_vars => \A q \in Questions : notified[q] => notified'[q]
  <2> SUFFICES ASSUME IInv, [Next]_vars, NEW q \in Questions, notified[q] PROVE notified'[q]
    OBVIOUS
  <2>1. ASSUME NEW r \in Replicas, NEW ok \in BOOLEAN, MarkTimeoutNotificationSent(r, ok)
        PROVE notified'[q]
    BY <2>1 DEF MarkTimeoutNotificationSent, Recordable, IInv, TypeOK
  <2>2. CASE UNCHANGED vars \/ Environment
    BY <2>2 DEF vars, notice, Environment, Asking, Answering, Ending, AskHuman, AskRead, AskWrite,
       DropQuestion, AnswerQuestion, RecordAnswer, ResumeRead, ResumeWrite, RollbackWrite,
       ResetAnswer, Expire, Lapse, EndSession, EndWrite, EndClose
  <2>3. ASSUME NEW r \in Replicas, NEW ok \in BOOLEAN,
               List(r, ok) \/ CancelSession(r, ok) \/ CancelWrite(r, ok)
                 \/ NotifyQuestionTimedOut(r, ok) \/ ClearTimeoutNotificationClaim(r, ok)
                 \/ CancelPendingHITL(r) \/ Crash(r)
        PROVE UNCHANGED notified
    BY <2>3 DEF List, CancelSession, CancelWrite, NotifyQuestionTimedOut, ClearTimeoutNotificationClaim,
       Clearable,
                CancelPendingHITL, Crash, notice
  <2>4. ASSUME NEW r \in Replicas, NEW x \in Questions, NEW ok \in BOOLEAN,
               EscalateQuestion(r, x, ok) \/ MarkEscalatedTimedOut(r, x, ok)
                 \/ ClaimTimeoutNotification(r, x, ok)
        PROVE UNCHANGED notified
    BY <2>4 DEF EscalateQuestion, Escalatable, MarkEscalatedTimedOut, Markable,
       ClaimTimeoutNotification, Claimable, notice
  <2> QED
    BY <2>1, <2>2, <2>3, <2>4 DEF Next, Sweep
<1>2. IInv /\ [Next]_vars =>
        [\A q \in Questions :
           question[q] = "timeout" => question'[q] = "timeout" /\ (notified[q] => notified'[q])]_vars
  BY <1>1, StepKeeps DEF Kept
<1> QED
  BY <1>2, Invariance, PTL DEF Spec, TimeoutIsFinal

(* No question times out before its extended timeout has passed.           *)
THEOREM ExtensionsAreGranted == Spec => ExtensionIsGranted
<1>1. IInv /\ [Next]_vars =>
        [\A q \in Questions :
           question'[q] = "timeout" /\ question[q] # "timeout" =>
             question[q] = "escalated" /\ expired[q]]_vars
  <2> SUFFICES ASSUME IInv, [Next]_vars, NEW q \in Questions,
                      question'[q] = "timeout", question[q] # "timeout"
               PROVE question[q] = "escalated" /\ expired[q]
    OBVIOUS
  <2> USE DEF IInv, TypeOK
  <2>1. ASSUME NEW r \in Replicas, NEW x \in Questions, NEW ok \in BOOLEAN,
               MarkEscalatedTimedOut(r, x, ok)
        PROVE question[q] = "escalated" /\ expired[q]
    <3>1. x = q /\ question[q] = "escalated"
      BY <2>1 DEF MarkEscalatedTimedOut, Markable
    <3>2. sweep[r].phase = "tier2" /\ q \in sweep[r].todo
      BY <2>1, <3>1 DEF MarkEscalatedTimedOut
    <3> QED
      BY <3>1, <3>2 DEF Consistent, Settled
  <2>2. ASSUME NEW x \in Questions,
               AskHuman(x) \/ Asking(x) \/ AnswerQuestion(x) \/ Answering(x)
                 \/ Expire(x) \/ Lapse(x)
        PROVE FALSE
    BY <2>2 DEF AskHuman, Asking, AskRead, AskWrite, DropQuestion, AnswerQuestion, Answering,
       RecordAnswer, ResumeRead, ResumeWrite, RollbackWrite, ResetAnswer, Expire, Lapse
  <2>3. ASSUME NEW s \in Sessions, EndSession(s) \/ Ending(s) PROVE FALSE
    BY <2>3 DEF EndSession, Ending, EndWrite, EndClose, CloseQuestions
  <2>4. ASSUME NEW r \in Replicas, CancelPendingHITL(r) PROVE FALSE
    BY <2>4 DEF CancelPendingHITL, CloseQuestions
  <2>5. ASSUME NEW r \in Replicas, NEW x \in Questions, NEW ok \in BOOLEAN,
               EscalateQuestion(r, x, ok)
        PROVE FALSE
    BY <2>5 DEF EscalateQuestion, Escalatable
  <2>6. ASSUME NEW r \in Replicas, NEW ok \in BOOLEAN,
               List(r, ok) \/ CancelSession(r, ok) \/ CancelWrite(r, ok)
                 \/ NotifyQuestionTimedOut(r, ok) \/ Crash(r)
                 \/ MarkTimeoutNotificationSent(r, ok) \/ ClearTimeoutNotificationClaim(r, ok)
        PROVE FALSE
    BY <2>6 DEF List, CancelSession, CancelWrite, NotifyQuestionTimedOut, Crash, MarkTimeoutNotificationSent,
       Recordable,
                ClearTimeoutNotificationClaim, Clearable
  <2>7. ASSUME NEW r \in Replicas, NEW x \in Questions, NEW ok \in BOOLEAN,
               ClaimTimeoutNotification(r, x, ok)
        PROVE FALSE
    BY <2>7 DEF ClaimTimeoutNotification, Claimable
  <2>8. CASE UNCHANGED vars
    BY <2>8 DEF vars
  <2> QED
    BY <2>1, <2>2, <2>3, <2>4, <2>5, <2>6, <2>7, <2>8 DEF Next, Environment, Sweep
<1> QED
  BY <1>1, Invariance, PTL DEF Spec, ExtensionIsGranted

-----------------------------------------------------------------------------
(* The questions keep what QuestionLife promises.                          *)

(* Nothing that QuestionLife sees of the rows has changed.                 *)
SameRows == RowStatus' = RowStatus /\ RowAsker' = RowAsker
Same == SameRows /\ Held' = Held

(* What is not written is not seen to change.                              *)
LEMMA RowsAlone == ASSUME UNCHANGED question PROVE SameRows
  BY DEF SameRows, RowStatus, RowAsker

LEMMA HeldAlone == ASSUME UNCHANGED answer PROVE Held' = Held
  BY DEF Held

(* A call that does not record an answer holds it or lets go of it.        *)
LEMMA HoldingOn ==
  ASSUME TypeOK, NEW q \in Questions, NEW to, answer' = [answer EXCEPT ![q] = to]
  PROVE  /\ to \in InHand => Held' = Held \cup {q}
         /\ to \notin InHand => Held' = Held \ {q}
<1>1. answer'[q] = to /\ \A x \in Questions \ {q} : answer'[x] = answer[x]
  BY DEF TypeOK
<1> QED
  BY <1>1 DEF Held

LEMMA LettingGo == ASSUME SameRows, Held' \subseteq Held PROVE Life!Next
  BY DEF SameRows, Life!Next, Life!LetGo

(* What an UPDATE of one row is in the eyes of QuestionLife.               *)
LEMMA RowMoves ==
  ASSUME TypeOK, NEW q \in Questions, NEW to \in QuestionStatuses, question[q] \notin NoRow,
         question' = [question EXCEPT ![q] = to]
  PROVE  /\ RowStatus[q] = question[q]
         /\ RowStatus' = [RowStatus EXCEPT ![q] = to]
         /\ RowAsker' = RowAsker
<1>1. to \notin NoRow
  BY DEF QuestionStatuses, NoRow
<1>2. question'[q] = to /\ \A x \in Questions \ {q} : question'[x] = question[x]
  BY DEF TypeOK
<1>3. RowStatus[q] = question[q] /\ RowStatus' = [RowStatus EXCEPT ![q] = to]
  BY <1>1, <1>2 DEF RowStatus
<1>4. RowAsker' = RowAsker
  BY <1>1, <1>2 DEF RowAsker
<1> QED
  BY <1>3, <1>4

(* CloseQuestions is the CancelOpen of QuestionLife, or has failed.        *)
LEMMA ClosingMoves ==
  ASSUME TypeOK, NEW s \in Sessions, CloseQuestions(s), UNCHANGED answer
  PROVE  Life!Next \/ Same
<1>1. CASE UNCHANGED question
  BY <1>1, RowsAlone, HeldAlone DEF Same
<1>2. CASE question' = [q \in Questions |-> IF SessionOf[q] = s /\ question[q] \in Open
                                            THEN "cancelled" ELSE question[q]]
  <2>1. \A q \in Questions :
          question'[q] = IF SessionOf[q] = s /\ question[q] \in Open THEN "cancelled" ELSE question[q]
    BY <1>2
  <2>2. RowStatus' = [q \in Questions |-> IF RowAsker[q] = s /\ RowStatus[q] \in Open
                                          THEN "cancelled" ELSE RowStatus[q]]
    BY <2>1, TimeoutsAssumption DEF RowStatus, RowAsker, Open, NoRow
  <2>3. RowAsker' = RowAsker
    BY <2>1 DEF RowAsker, Open, NoRow
  <2>4. Held' = Held
    BY HeldAlone
  <2>5. Life!CancelOpen(s)
    BY <2>2, <2>3, <2>4 DEF Life!CancelOpen, Life!Open, Open
  <2> QED
    BY <2>5 DEF Life!Next
<1> QED
  BY <1>1, <1>2 DEF CloseQuestions

(* Asking: a row is created, or deleted.                                   *)
LEMMA AskingMoves ==
  ASSUME IInv, NEW q \in Questions, AskHuman(q) \/ Asking(q)
  PROVE  Life!Next \/ Same
<1>a. TypeOK /\ CallsInOrder
  BY DEF IInv
<1>1. CASE AskHuman(q)
  <2>1. SessionOf[q] \in Sessions /\ question[q] = "absent" /\ answer[q] = "none"
    BY <1>1, <1>a, TimeoutsAssumption DEF AskHuman, CallsInOrder
  <2>2. question' = [question EXCEPT ![q] = "pending"] /\ UNCHANGED answer
    BY <1>1 DEF AskHuman
  <2>3. question'[q] = "pending" /\ \A x \in Questions \ {q} : question'[x] = question[x]
    BY <1>a, <2>2 DEF TypeOK
  <2>4. RowStatus[q] = "none" /\ RowStatus' = [RowStatus EXCEPT ![q] = "pending"]
    BY <2>1, <2>3 DEF RowStatus, NoRow
  <2>5. RowAsker' = [RowAsker EXCEPT ![q] = SessionOf[q]]
    BY <2>3 DEF RowAsker, NoRow
  <2>6. Held' = Held /\ q \notin Held
    BY <2>1, <2>2 DEF Held, InHand
  <2>7. Life!Ask(q, SessionOf[q])
    BY <2>4, <2>5, <2>6 DEF Life!Ask, Life!Moves
  <2> QED
    BY <2>1, <2>7 DEF Life!Next
<1>2. CASE AskRead(q) \/ AskWrite(q)
  BY <1>2, RowsAlone, HeldAlone DEF AskRead, AskWrite, Same
<1>3. CASE DropQuestion(q)
  <2>1. Held' = Held
    BY <1>3, HeldAlone DEF DropQuestion
  <2>2. CASE UNCHANGED question
    BY <2>1, <2>2, RowsAlone DEF Same
  <2>3. CASE question' = [question EXCEPT ![q] = "deleted"]
    <3>1. question'[q] = "deleted" /\ \A x \in Questions \ {q} : question'[x] = question[x]
      BY <1>a, <2>3 DEF TypeOK
    <3>2. RowStatus' = [RowStatus EXCEPT ![q] = "none"]
      BY <3>1 DEF RowStatus, NoRow
    <3>3. RowAsker' = [RowAsker EXCEPT ![q] = None]
      BY <3>1 DEF RowAsker, NoRow
    <3>4. Life!Delete(q)
      BY <2>1, <3>2, <3>3 DEF Life!Delete
    <3> QED
      BY <3>4 DEF Life!Next
  <2> QED
    BY <1>3, <2>2, <2>3 DEF DropQuestion
<1> QED
  BY <1>1, <1>2, <1>3 DEF Asking

(* Answering: an answer is recorded, withdrawn or let go of.               *)
LEMMA AnsweringMoves ==
  ASSUME TypeOK, NEW q \in Questions, AnswerQuestion(q) \/ Answering(q)
  PROVE  Life!Next \/ Same
<1>1. CASE AnswerQuestion(q)
  <2>1. Held' = Held \ {q} /\ q \notin Held
    <3>1. "admitted" \notin InHand /\ "none" \notin InHand
      BY DEF InHand
    <3>2. answer' = [answer EXCEPT ![q] = "admitted"] /\ answer[q] = "none"
      BY <1>1 DEF AnswerQuestion
    <3>3. Held' = Held \ {q}
      BY <3>1, <3>2, HoldingOn
    <3> QED
      BY <3>1, <3>2, <3>3 DEF Held
  <2> QED
    BY <1>1, <2>1, RowsAlone DEF AnswerQuestion, Same
<1>2. CASE RecordAnswer(q)
  <2>1. q \notin Held
    BY <1>2 DEF RecordAnswer, Held, InHand
  <2>2. CASE UNCHANGED question /\ answer' = [answer EXCEPT ![q] = "none"]
    <3>1. Held' = Held \ {q}
      <4>1. "none" \notin InHand
        BY DEF InHand
      <4> QED
        BY <2>2, <4>1, HoldingOn
    <3> QED
      BY <2>1, <2>2, <3>1, RowsAlone DEF Same
  <2>3. CASE /\ Answerable(q) /\ question' = [question EXCEPT ![q] = "answered"]
             /\ \E next \in {"recorded", "none"} : answer' = [answer EXCEPT ![q] = next]
    <3>1. question[q] \in Open /\ question[q] \notin NoRow
      BY <2>3 DEF Answerable, Open, NoRow
    <3>2. /\ RowStatus[q] = question[q] /\ RowStatus' = [RowStatus EXCEPT ![q] = "answered"]
          /\ RowAsker' = RowAsker
      BY <2>3, <3>1, RowMoves DEF QuestionStatuses
    <3>3. Held' \in {Held, Held \cup {q}}
      <4>1. PICK next \in {"recorded", "none"} : answer' = [answer EXCEPT ![q] = next]
        BY <2>3
      <4>2. Held' = Held \cup {q} \/ Held' = Held \ {q}
        BY <4>1, HoldingOn
      <4> QED
        BY <2>1, <4>2
    <3>4. Life!Answer(q)
      BY <2>1, <3>1, <3>2, <3>3 DEF Life!Answer, Life!Moves, Life!Open, Open
    <3> QED
      BY <3>4 DEF Life!Next
  <2> QED
    BY <1>2, <2>2, <2>3 DEF RecordAnswer
<1>3. CASE ResumeRead(q) \/ ResumeWrite(q) \/ RollbackWrite(q)
  <2>1. answer[q] \in InHand /\ UNCHANGED question
    BY <1>3 DEF ResumeRead, ResumeWrite, RollbackWrite, InHand
  <2>2. \E to : answer' = [answer EXCEPT ![q] = to]
    BY <1>3 DEF ResumeRead, ResumeWrite, RollbackWrite
  <2>3. Held' \subseteq Held
    <3>1. Held' = Held \cup {q} \/ Held' = Held \ {q}
      BY <2>2, HoldingOn
    <3> QED
      BY <2>1, <3>1 DEF Held
  <2> QED
    BY <2>1, <2>3, RowsAlone, LettingGo
<1>4. CASE ResetAnswer(q)
  <2>1. q \in Held /\ Held' = Held \ {q}
    <3>1. "none" \notin InHand /\ "undelivered" \in InHand
      BY DEF InHand
    <3>2. answer' = [answer EXCEPT ![q] = "none"] /\ answer[q] = "undelivered"
      BY <1>4 DEF ResetAnswer
    <3>3. Held' = Held \ {q}
      BY <3>1, <3>2, HoldingOn
    <3> QED
      BY <3>1, <3>2, <3>3 DEF Held
  <2>2. CASE UNCHANGED question
    BY <2>1, <2>2, RowsAlone, LettingGo
  <2>3. CASE Resettable(q) /\ question' = [question EXCEPT ![q] = "pending"]
    <3>1. question[q] = "answered" /\ question[q] \notin NoRow
      BY <2>3 DEF Resettable, NoRow
    <3>2. /\ RowStatus[q] = question[q] /\ RowStatus' = [RowStatus EXCEPT ![q] = "pending"]
          /\ RowAsker' = RowAsker
      BY <2>3, <3>1, RowMoves DEF QuestionStatuses
    <3>3. Life!Reopen(q)
      BY <2>1, <3>1, <3>2 DEF Life!Reopen, Life!Moves
    <3> QED
      BY <3>3 DEF Life!Next
  <2>4. UNCHANGED question \/ (Resettable(q) /\ question' = [question EXCEPT ![q] = "pending"])
    BY <1>4 DEF ResetAnswer, TypeOK
  <2> QED
    BY <2>2, <2>3, <2>4
<1> QED
  BY <1>1, <1>2, <1>3, <1>4 DEF Answering

(* Asking, answering, withdrawing an answer and the end of a session.      *)
LEMMA EnvironmentMoves ==
  ASSUME IInv, Environment
  PROVE  Life!Next \/ Same
<1>a. TypeOK
  BY DEF IInv
<1>1. ASSUME NEW q \in Questions, AskHuman(q) \/ Asking(q) PROVE Life!Next \/ Same
  BY <1>1, AskingMoves
<1>2. ASSUME NEW q \in Questions, AnswerQuestion(q) \/ Answering(q) PROVE Life!Next \/ Same
  BY <1>2, <1>a, AnsweringMoves
<1>3. ASSUME NEW q \in Questions, Expire(q) \/ Lapse(q) PROVE Same
  BY <1>3, RowsAlone, HeldAlone DEF Expire, Lapse, calls, Same
<1>4. ASSUME NEW s \in Sessions, EndSession(s) \/ EndWrite(s) PROVE Same
  BY <1>4, RowsAlone, HeldAlone DEF EndSession, EndWrite, Same
<1>5. ASSUME NEW s \in Sessions, EndClose(s) PROVE Life!Next \/ Same
  BY <1>5, <1>a, ClosingMoves DEF EndClose
<1> QED
  BY <1>1, <1>2, <1>3, <1>4, <1>5 DEF Environment, Ending

(* The sweeps escalate and mark questions, and end sessions.               *)
LEMMA SweepMoves ==
  ASSUME TypeOK, NEW r \in Replicas, Sweep(r) \/ Crash(r)
  PROVE  Life!Next \/ Same
<1>h. Held' = Held
  <2>1. UNCHANGED answer
    BY DEF Sweep, Crash, List, CancelSession, CancelWrite, NotifyQuestionTimedOut,
       MarkTimeoutNotificationSent, ClearTimeoutNotificationClaim, EscalateQuestion,
       MarkEscalatedTimedOut, ClaimTimeoutNotification, CancelPendingHITL, calls
  <2> QED
    BY <2>1, HeldAlone
<1>1. ASSUME NEW q \in Questions, NEW ok \in BOOLEAN, EscalateQuestion(r, q, ok)
      PROVE  Life!Next \/ Same
  <2>1. CASE UNCHANGED question
    BY <1>h, <2>1, RowsAlone DEF Same
  <2>2. CASE Escalatable(q) /\ question' = [question EXCEPT ![q] = "escalated"]
    <3>1. question[q] = "pending" /\ question[q] \notin NoRow
      BY <2>2 DEF Escalatable, NoRow
    <3>2. /\ RowStatus[q] = question[q] /\ RowStatus' = [RowStatus EXCEPT ![q] = "escalated"]
          /\ RowAsker' = RowAsker
      BY <2>2, <3>1, RowMoves DEF QuestionStatuses
    <3>3. Life!Escalate(q)
      BY <1>h, <3>1, <3>2 DEF Life!Escalate, Life!Moves
    <3> QED
      BY <3>3 DEF Life!Next
  <2> QED
    BY <1>1, <2>1, <2>2 DEF EscalateQuestion
<1>2. ASSUME NEW q \in Questions, NEW ok \in BOOLEAN, MarkEscalatedTimedOut(r, q, ok)
      PROVE  Life!Next \/ Same
  <2>1. CASE UNCHANGED question
    BY <1>h, <2>1, RowsAlone DEF Same
  <2>2. CASE Markable(q) /\ question' = [question EXCEPT ![q] = "timeout"]
    <3>1. question[q] = "escalated" /\ question[q] \notin NoRow
      BY <2>2 DEF Markable, NoRow
    <3>2. /\ RowStatus[q] = question[q] /\ RowStatus' = [RowStatus EXCEPT ![q] = "timeout"]
          /\ RowAsker' = RowAsker
      BY <2>2, <3>1, RowMoves DEF QuestionStatuses
    <3>3. Life!MarkTimedOut(q)
      BY <1>h, <3>1, <3>2 DEF Life!MarkTimedOut, Life!Moves
    <3> QED
      BY <3>3 DEF Life!Next
  <2>3. UNCHANGED question \/ (Markable(q) /\ question' = [question EXCEPT ![q] = "timeout"])
    BY <1>2 DEF MarkEscalatedTimedOut, TypeOK
  <2> QED
    BY <2>1, <2>2, <2>3
<1>3. ASSUME CancelPendingHITL(r) PROVE Life!Next \/ Same
  <2>1. CASE sweep[r].s \in Sessions
    BY <1>3, <2>1, ClosingMoves DEF CancelPendingHITL, calls
  <2>2. CASE sweep[r].s \notin Sessions
    <3>1. \A q \in Questions : SessionOf[q] # sweep[r].s
      BY <2>2, TimeoutsAssumption
    <3>2. UNCHANGED question
      BY <1>3, <3>1 DEF CancelPendingHITL, CloseQuestions, TypeOK
    <3> QED
      BY <1>h, <3>2, RowsAlone DEF Same
  <2> QED
    BY <2>1, <2>2
<1>4. ASSUME NEW ok \in BOOLEAN,
             List(r, ok) \/ CancelSession(r, ok) \/ CancelWrite(r, ok)
               \/ NotifyQuestionTimedOut(r, ok) \/ Crash(r)
               \/ MarkTimeoutNotificationSent(r, ok) \/ ClearTimeoutNotificationClaim(r, ok)
      PROVE  Same
  BY <1>h, <1>4, RowsAlone DEF List, CancelSession, CancelWrite, NotifyQuestionTimedOut, Crash,
     MarkTimeoutNotificationSent, ClearTimeoutNotificationClaim, Same
<1>5. ASSUME NEW q \in Questions, NEW ok \in BOOLEAN, ClaimTimeoutNotification(r, q, ok)
      PROVE  Same
  BY <1>h, <1>5, RowsAlone DEF ClaimTimeoutNotification, Same
<1>6. Crash(r) => Same
  BY <1>4
<1> QED
  BY <1>1, <1>2, <1>3, <1>4, <1>5, <1>6 DEF Sweep

(* Two sweeps that meet, answers that race them and sessions that end      *)
(* beside them: to whoever looks at a question each of their steps is one  *)
(* of QuestionLife, or none.                                               *)
THEOREM QuestionsKeepTheirLife == Spec => ImplementsLife
<1>1. Init => Life!Init
  BY DEF Init, Life!Init, RowStatus, RowAsker, Held, InHand, NoRow
<1>2. IInv /\ [Next]_vars => [Life!Next]_<<RowStatus, RowAsker, Held, {}>>
  <2> SUFFICES ASSUME IInv, [Next]_vars PROVE Life!Next \/ Same
    BY DEF Same, SameRows
  <2>1. CASE UNCHANGED vars
    BY <2>1, RowsAlone, HeldAlone DEF vars, calls, Same
  <2> QED
    BY <2>1, EnvironmentMoves, SweepMoves DEF Next, IInv
<1> QED
  BY <1>1, <1>2, Invariance, PTL DEF Spec, ImplementsLife, Life!Spec
=============================================================================
