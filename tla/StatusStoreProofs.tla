-------------------------- MODULE StatusStoreProofs --------------------------
(***************************************************************************)
(* Proofs about StatusStore for every table, life cycle and set of         *)
(* goroutines: type correctness, the stability of settled rows under any   *)
(* concurrency, and the refinement of StatusMachine by the rows that one   *)
(* goroutine works on.                                                     *)
(***************************************************************************)
EXTENDS StatusStore, TLAPS

(* A call that has passed its validation asks for an edge's target.        *)
LEMMA InitTypeOK == Init => TypeOK
BY LifeCycleAssumption DEF Init, TypeOK, NoCall, Calls

(* Every step of every goroutine keeps the types, and only a validation    *)
(* moves a call on to its write.                                           *)
LEMMA NextTypeOK == TypeOK /\ [Next]_vars => TypeOK'
<1> SUFFICES ASSUME TypeOK, [Next]_vars PROVE TypeOK'
  OBVIOUS
<1> USE DEF TypeOK, NoCall, Calls
<1>1. ASSUME NEW w \in Writers, NEW r \in Rows, NEW to \in Statuses, Begin(w, r, to)
      PROVE  TypeOK'
  BY <1>1 DEF Begin
<1>2. ASSUME NEW w \in Writers, ReadAndValidate(w)
      PROVE  TypeOK'
  <2>1. call[w] \in Calls /\ call[w].row \in Rows /\ call[w].to \in Statuses
    BY <1>2 DEF ReadAndValidate
  <2>2. CASE CanTransition(Edges, status[call[w].row], call[w].to)
    <3>1. /\ call'[w] \in Calls /\ call'[w].to = call[w].to /\ call'[w].row = call[w].row
          /\ \A v \in Writers : v # w => call'[v] = call[v]
          /\ call' \in [Writers -> {NoCall} \cup Calls]
          /\ status' = status
      BY <1>2, <2>1, <2>2 DEF ReadAndValidate
    <3>2. <<status[call[w].row], call[w].to>> \in Edges /\ status[call[w].row] \in Statuses
      BY <2>1, <2>2 DEF CanTransition
    <3>3. QED
      BY <1>2, <2>1, <3>1, <3>2 DEF ReadAndValidate
  <2>3. CASE ~CanTransition(Edges, status[call[w].row], call[w].to)
    BY <1>2, <2>1, <2>3 DEF ReadAndValidate
  <2>4. QED
    BY <2>2, <2>3
<1>3. ASSUME NEW w \in Writers, WriteStatus(w)
      PROVE  TypeOK'
  BY <1>3 DEF WriteStatus
<1>4. ASSUME NEW w \in Writers, Fail(w)
      PROVE  TypeOK'
  BY <1>4 DEF Fail
<1>5. CASE UNCHANGED vars
  BY <1>5 DEF vars
<1>6. QED
  BY <1>1, <1>2, <1>3, <1>4, <1>5 DEF Next

(* The status column and the calls in flight keep their types, for every   *)
(* number of rows and goroutines.                                          *)
THEOREM TypeCorrect == Spec => []TypeOK
<1>1. QED
  BY InitTypeOK, NextTypeOK, PTL DEF Spec

-----------------------------------------------------------------------------
(* One step cannot change a settled row nor unsettle it: a write needs a   *)
(* validated call on the row, and a validation fails on a terminal status. *)
LEMMA SettledStep ==
  ASSUME TypeOK, [Next]_vars, NEW r \in Rows, Settled(r)
  PROVE  status'[r] = status[r] /\ Settled(r)'
<1> USE DEF Settled, TypeOK, NoCall, Calls
<1>1. ASSUME NEW w \in Writers, NEW x \in Rows, NEW to \in Statuses, Begin(w, x, to)
      PROVE  status'[r] = status[r] /\ Settled(r)'
  BY <1>1 DEF Begin, Terminal
<1>2. ASSUME NEW w \in Writers, ReadAndValidate(w)
      PROVE  status'[r] = status[r] /\ Settled(r)'
  <2>1. call[w] \in Calls
    BY <1>2 DEF ReadAndValidate
  <2>2. status' = status
    BY <1>2 DEF ReadAndValidate
  <2>3. ~(call'[w].phase = "write" /\ call'[w].row = r)
    <3>1. CASE CanTransition(Edges, status[call[w].row], call[w].to)
      <4>1. call[w].row # r
        BY <2>1, <3>1 DEF Terminal
      <4>2. QED
        BY <1>2, <2>1, <3>1, <4>1 DEF ReadAndValidate
    <3>2. CASE ~CanTransition(Edges, status[call[w].row], call[w].to)
      BY <1>2, <3>2 DEF ReadAndValidate
    <3>3. QED
      BY <3>1, <3>2
  <2>4. \A v \in Writers : v # w => call'[v] = call[v]
    BY <1>2 DEF ReadAndValidate
  <2>5. QED
    BY <2>2, <2>3, <2>4 DEF Terminal
<1>3. ASSUME NEW w \in Writers, WriteStatus(w)
      PROVE  status'[r] = status[r] /\ Settled(r)'
  <2>1. call[w].row # r
    BY <1>3 DEF WriteStatus
  <2>2. status'[r] = status[r]
    BY <1>3, <2>1 DEF WriteStatus
  <2>3. \A v \in Writers : call'[v] = call[v] \/ call'[v].phase = "idle"
    BY <1>3 DEF WriteStatus
  <2>4. QED
    BY <2>2, <2>3 DEF Terminal
<1>4. ASSUME NEW w \in Writers, Fail(w)
      PROVE  status'[r] = status[r] /\ Settled(r)'
  BY <1>4 DEF Fail, Terminal
<1>5. CASE UNCHANGED vars
  BY <1>5 DEF vars, Terminal
<1>6. QED
  BY <1>1, <1>2, <1>3, <1>4, <1>5 DEF Next

(* A row that ended with no validated call in flight on it is final,       *)
(* whatever the number of goroutines calling the repository: the repair a  *)
(* reader would want (a status guard in the UPDATE) concerns only calls    *)
(* already past their validation.                                          *)
THEOREM SettledRowsAreFinal == Spec => SettledRowsStay
<1>1. TypeOK /\ [Next]_vars
        => [\A r \in Rows : Settled(r) => status'[r] = status[r] /\ Settled(r)']_vars
  BY SettledStep
<1>2. QED
  BY <1>1, TypeCorrect, PTL DEF Spec, SettledRowsStay

-----------------------------------------------------------------------------
(* Calls come from the callers of their row, and on a row with a lone      *)
(* caller a validated call still stands on the status it validated.        *)
Fresh ==
  \A w \in Writers : call[w] # NoCall =>
    /\ w \in Callers[call[w].row]
    /\ (call[w].phase = "write" /\ call[w].row \in Lone)
         => CanTransition(Edges, status[call[w].row], call[w].to)

(* The caller of a lone row is the only one to write it, so nothing        *)
(* invalidates its validation before its UPDATE.                           *)
LEMMA FreshStep ==
  ASSUME TypeOK, Fresh, [Next]_vars
  PROVE  Fresh'
<1> USE LifeCycleAssumption DEF TypeOK, NoCall, Calls
<1>1. ASSUME NEW w \in Writers, NEW r \in Rows, NEW to \in Statuses, Begin(w, r, to)
      PROVE  Fresh'
  BY <1>1 DEF Begin, Fresh
<1>2. ASSUME NEW w \in Writers, ReadAndValidate(w)
      PROVE  Fresh'
  <2>1. call[w] \in Calls /\ call[w].row \in Rows /\ w \in Callers[call[w].row] /\ status' = status
    BY <1>2 DEF ReadAndValidate, Fresh
  <2>2. CASE CanTransition(Edges, status[call[w].row], call[w].to)
    <3>1. /\ call'[w] \in Calls /\ call'[w].to = call[w].to /\ call'[w].row = call[w].row
          /\ \A v \in Writers : v # w => call'[v] = call[v]
          /\ call' \in [Writers -> {NoCall} \cup Calls]
      BY <1>2, <2>1, <2>2 DEF ReadAndValidate
    <3>2. QED
      BY <2>1, <2>2, <3>1 DEF Fresh
  <2>3. CASE ~CanTransition(Edges, status[call[w].row], call[w].to)
    BY <1>2, <2>1, <2>3 DEF ReadAndValidate, Fresh
  <2>4. QED
    BY <2>2, <2>3
<1>3. ASSUME NEW w \in Writers, WriteStatus(w)
      PROVE  Fresh'
  <2>1. call[w] \in Calls /\ call[w].row \in Rows /\ w \in Callers[call[w].row]
    BY <1>3 DEF WriteStatus, Fresh
  <2>2. /\ call'[w] = NoCall /\ \A v \in Writers : v # w => call'[v] = call[v]
        /\ \A r \in Rows : r # call[w].row => status'[r] = status[r]
    BY <1>3, <2>1 DEF WriteStatus
  <2>3. ASSUME NEW v \in Writers, v # w, call[v] # NoCall, call[v].row \in Lone
        PROVE  call[v].row # call[w].row
    BY <2>1, <2>3 DEF Fresh, Lone
  <2>4. QED
    BY <2>2, <2>3 DEF Fresh
<1>4. ASSUME NEW w \in Writers, Fail(w)
      PROVE  Fresh'
  BY <1>4 DEF Fail, Fresh
<1>5. CASE UNCHANGED vars
  BY <1>5 DEF vars, Fresh
<1>6. QED
  BY <1>1, <1>2, <1>3, <1>4, <1>5 DEF Next

(* Under a fresh validation the UPDATE of a lone row is a move along an    *)
(* edge; that of another row and every other step leave lone rows alone.   *)
LEMMA StepRefines ==
  ASSUME TypeOK, Fresh, [Next]_vars
  PROVE  [Machine!Next]_LoneStatus
<1> USE DEF TypeOK, NoCall, Calls
<1>1. ASSUME NEW w \in Writers, WriteStatus(w)
      PROVE  [Machine!Next]_LoneStatus
  <2>1. call[w] \in Calls /\ call[w].row \in Rows /\ call[w].to \in Statuses
    BY <1>1 DEF WriteStatus
  <2>2. status' = [status EXCEPT ![call[w].row] = call[w].to]
    BY <1>1 DEF WriteStatus
  <2>3. CASE call[w].row \in Lone
    <3>1. <<LoneStatus[call[w].row], call[w].to>> \in Edges
      BY <1>1, <2>1, <2>3 DEF Fresh, CanTransition, WriteStatus, LoneStatus
    <3>2. LoneStatus' = [LoneStatus EXCEPT ![call[w].row] = call[w].to]
      <4>1. \A r \in Lone : status'[r] = IF r = call[w].row THEN call[w].to ELSE status[r]
        BY <2>1, <2>2 DEF Lone
      <4>2. QED
        BY <2>3, <4>1 DEF LoneStatus
    <3>3. QED
      BY <2>1, <2>3, <3>1, <3>2 DEF Machine!Next, Machine!Move
  <2>4. CASE call[w].row \notin Lone
    <3>1. \A r \in Lone : status'[r] = status[r]
      BY <2>1, <2>2, <2>4 DEF Lone
    <3>2. QED
      BY <3>1 DEF LoneStatus
  <2>5. QED
    BY <2>3, <2>4
<1>2. ASSUME NEW w \in Writers,
             \/ \E r \in Rows, to \in Statuses : Begin(w, r, to)
             \/ ReadAndValidate(w)
             \/ Fail(w)
      PROVE  UNCHANGED LoneStatus
  BY <1>2 DEF Begin, ReadAndValidate, Fail, LoneStatus
<1>3. CASE UNCHANGED vars
  BY <1>3 DEF vars, LoneStatus
<1>4. QED
  BY <1>1, <1>2, <1>3 DEF Next

(* The repositories implement the domain's life cycle on every row that    *)
(* one goroutine calls them for: the read, the validation and the UPDATE   *)
(* add up to a single legal move, whatever happens to other rows.          *)
THEOREM LoneRowsImplementMachine == Spec => ImplementsMachine
<1>1. Init => Machine!Init /\ Fresh
  BY DEF Init, Machine!Init, Fresh, NoCall, LoneStatus, LoneInitial, Lone
<1>2. TypeOK /\ Fresh /\ [Next]_vars => Fresh' /\ [Machine!Next]_LoneStatus
  BY FreshStep, StepRefines
<1>3. QED
  BY <1>1, <1>2, TypeCorrect, PTL DEF Spec, ImplementsMachine, Machine!Spec
=============================================================================
