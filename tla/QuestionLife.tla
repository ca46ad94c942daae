---------------------------- MODULE QuestionLife ----------------------------
(***************************************************************************)
(* What hitl.Repository and the router promise of the questions agents put *)
(* to humans, whoever asks, answers or sweeps at the same time: a question *)
(* is open until it is answered, closed or has timed out; one answer at a  *)
(* time is on its way to the agent; and it is given, or taken back by      *)
(* opening the question again, or let go of, but never given twice.        *)
(* Nobody calls ReopenTimedOut, MarkTimedOut and MarkTimedOutBefore.       *)
(***************************************************************************)
CONSTANTS Questions, Sessions, None

VARIABLES
  status,  \* per question, the status of its row; "none" without a row
  asker,   \* the session that asked
  inHand,  \* questions whose recorded answer somebody is to give
  given    \* history: questions whose answer an agent was given

Open == {"pending", "escalated"}

Init ==
  /\ status = [q \in Questions |-> "none"] /\ asker = [q \in Questions |-> None]
  /\ inHand = {} /\ given = {}

Moves(q, from, to) == status[q] \in from /\ status' = [status EXCEPT ![q] = to]

(* A new row, under an id that nobody has an answer for.                   *)
Ask(q, s) ==
  /\ q \notin inHand \cup given
  /\ Moves(q, {"none"}, "pending") /\ asker' = [asker EXCEPT ![q] = s]
  /\ UNCHANGED <<inHand, given>>

(* The session cannot wait: its question is deleted, as it is by then.     *)
Delete(q) ==
  /\ status' = [status EXCEPT ![q] = "none"] /\ asker' = [asker EXCEPT ![q] = None]
  /\ UNCHANGED <<inHand, given>>

(* Who records an answer has it at hand, unless the reply to the UPDATE is *)
(* lost: then nobody gives the answer that is on record.                   *)
Answer(q) ==
  /\ q \notin inHand \cup given
  /\ Moves(q, Open, "answered") /\ inHand' \in {inHand, inHand \cup {q}}
  /\ UNCHANGED <<asker, given>>

(* The agent gets the answer, even if the row has been deleted meanwhile.  *)
Give(q) ==
  /\ q \in inHand /\ inHand' = inHand \ {q} /\ given' = given \cup {q}
  /\ UNCHANGED <<status, asker>>

(* ResetAnswer.                                                            *)
Reopen(q) ==
  /\ q \in inHand /\ inHand' = inHand \ {q}
  /\ Moves(q, {"answered"}, "pending")
  /\ UNCHANGED <<asker, given>>

(* The answer stays on record and nobody gives it: the agent is gone, a    *)
(* call failed or a process was killed.                                    *)
LetGo == inHand' \in SUBSET inHand /\ UNCHANGED <<status, asker, given>>

Escalate(q) == Moves(q, {"pending"}, "escalated") /\ UNCHANGED <<asker, inHand, given>>

MarkTimedOut(q) == Moves(q, {"escalated"}, "timeout") /\ UNCHANGED <<asker, inHand, given>>

(* CancelPendingBySession, when a session ends.  Answers may be let go of  *)
(* at the same time.                                                       *)
CancelOpen(s) ==
  /\ status' = [q \in Questions |->
                  IF asker[q] = s /\ status[q] \in Open THEN "cancelled" ELSE status[q]]
  /\ inHand' \in SUBSET inHand
  /\ UNCHANGED <<asker, given>>

Next ==
  \/ \E q \in Questions :
       \/ \E s \in Sessions : Ask(q, s)
       \/ Delete(q) \/ Answer(q) \/ Give(q) \/ Reopen(q) \/ Escalate(q) \/ MarkTimedOut(q)
  \/ \E s \in Sessions : CancelOpen(s)
  \/ LetGo

Spec == Init /\ [][Next]_<<status, asker, inHand, given>>
=============================================================================
