---------------------------- MODULE StatusStore ----------------------------
(***************************************************************************)
(* How the PostgreSQL repositories change a status: taskRepository.        *)
(* Transition, agentRepository.UpdateStatus and adrRepository.UpdateStatus *)
(* share one shape.  The row is read with GetByID, the entity validates    *)
(* the move against what was read, and an UPDATE keyed by the id alone     *)
(* writes the new status.  There is no transaction around the two          *)
(* statements and no "AND status = ..." in the UPDATE, so calls of         *)
(* different goroutines interleave between them.                           *)
(***************************************************************************)
EXTENDS Lifecycle

CONSTANTS
  Rows, Statuses, Edges, Initial,  \* as in StatusMachine
  TypeOf,   \* TypeOf[r], the statuses of row r's table, as its Go type has them
  Writers,  \* goroutines that call the repositories
  Callers   \* Callers[r], those that ever call for row r

ASSUME LifeCycleAssumption ==
  /\ Edges \subseteq Statuses \X Statuses
  /\ Initial \in [Rows -> Statuses]
  /\ TypeOf \in [Rows -> SUBSET Statuses]
  /\ Callers \in [Rows -> SUBSET Writers]

VARIABLES
  status,  \* the status column
  call     \* per writer, the call it is executing

vars == <<status, call>>

NoCall == [phase |-> "idle"]

Calls == [phase : {"read", "write"}, row : Rows, to : Statuses]

Init ==
  /\ status = [r \in Rows |-> Initial[r]]
  /\ call = [w \in Writers |-> NoCall]

(* A goroutine calls Transition(id, next) / UpdateStatus(id, status).      *)
Begin(w, r, to) ==
  /\ call[w] = NoCall /\ w \in Callers[r] /\ to \in TypeOf[r]
  /\ call' = [call EXCEPT ![w] = [phase |-> "read", row |-> r, to |-> to]]
  /\ UNCHANGED status

(* Mutant: the entity does not validate the move.                          *)
ReadOnly(w) ==
  /\ call[w].phase = "read"
  /\ call' = [call EXCEPT ![w].phase = "write"]
  /\ UNCHANGED status

(* GetByID and the validation of what it returned.                         *)
ReadAndValidate(w) ==
  /\ call[w].phase = "read"
  /\ \/ /\ CanTransition(Edges, status[call[w].row], call[w].to)
        /\ call' = [call EXCEPT ![w].phase = "write"]
     \/ /\ ~CanTransition(Edges, status[call[w].row], call[w].to)
        /\ call' = [call EXCEPT ![w] = NoCall]
  /\ UNCHANGED status

(* The UPDATE: it no longer looks at the status the row has by now.        *)
WriteStatus(w) ==
  /\ call[w].phase = "write"
  /\ status' = [status EXCEPT ![call[w].row] = call[w].to]
  /\ call' = [call EXCEPT ![w] = NoCall]

(* Either statement may fail (lost connection, cancelled context): the     *)
(* call returns the error and has written nothing.                         *)
Fail(w) ==
  /\ call[w] # NoCall
  /\ call' = [call EXCEPT ![w] = NoCall]
  /\ UNCHANGED status

Next ==
  \E w \in Writers :
    \/ \E r \in Rows, to \in Statuses : Begin(w, r, to)
    \/ ReadAndValidate(w)
    \/ WriteStatus(w)
    \/ Fail(w)

Spec == Init /\ [][Next]_vars

-----------------------------------------------------------------------------
(* Rows for which one goroutine at most ever calls, and the promise of the *)
(* domain packages in terms of their status columns.                       *)
Lone == {r \in Rows : \A v, w \in Callers[r] : v = w}
LoneStatus == [r \in Lone |-> status[r]]
LoneInitial == [r \in Lone |-> Initial[r]]
Machine == INSTANCE StatusMachine WITH
  Rows <- Lone, Initial <- LoneInitial, status <- LoneStatus

(* Every status and every call in flight is well formed, and a call past   *)
(* its validation asks for a move that some edge of the life cycle allows. *)
TypeOK ==
  /\ status \in [Rows -> Statuses]
  /\ call \in [Writers -> {NoCall} \cup Calls]
  /\ \A w \in Writers :
       call[w].phase = "write" => \E from \in Statuses : <<from, call[w].to>> \in Edges

(* On a row that one goroutine works on, the read-validate-write of the    *)
(* repositories is the life cycle itself, whatever other goroutines do to  *)
(* other rows: this is the specification's promise, as a property.         *)
ImplementsMachine == Machine!Spec

Terminal(s) == \A to \in Statuses : ~CanTransition(Edges, s, to)

(* The row has ended and no call that has already validated is aiming at   *)
(* it.                                                                     *)
Settled(r) ==
  /\ Terminal(status[r])
  /\ \A w \in Writers : ~(call[w].phase = "write" /\ call[w].row = r)

(* A row that has ended while no validated call was in flight on it never  *)
(* changes again, however many goroutines call the repository later: what  *)
(* can overwrite a terminal status is only a call that had read the row    *)
(* before it ended.                                                        *)
SettledRowsStay == [][\A r \in Rows : Settled(r) => status'[r] = status[r] /\ Settled(r)']_vars
=============================================================================
