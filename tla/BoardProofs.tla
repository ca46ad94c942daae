----------------------------- MODULE BoardProofs -----------------------------
(***************************************************************************)
(* Proofs about Board for every number of rows, callers and calls and      *)
(* every page size: deleted rows stay deleted, no task outlives its        *)
(* project, no write of a whole entity changes a task's column, and a      *)
(* client that follows the cursors gets every row that stayed put once.    *)
(***************************************************************************)
EXTENDS Board, SequenceTheorems, FiniteSetTheorems, TLAPS

Columns == {"project", "priority", "status", "link", "born"}

(* A table holds rows of its own ids, and a task's row has its columns.    *)
Tables ==
  /\ DOMAIN tasks \subseteq TaskIds /\ DOMAIN projects \subseteq ProjectIds
  /\ \A id \in DOMAIN tasks : DOMAIN tasks[id] = Columns

IInv == Tables /\ GoneForGood

(* An UPDATE of a task leaves rows, columns and each task's project.       *)
Updated ==
  /\ DOMAIN tasks' = DOMAIN tasks
  /\ \A id \in DOMAIN tasks : /\ DOMAIN tasks'[id] = DOMAIN tasks[id]
                              /\ tasks'[id].project = tasks[id].project

(* The statements of a call that has begun.                                *)
LEMMA StatementUpdates ==
  ASSUME IInv, NEW a \in Callers, Statement(a)
  PROVE  Updated /\ gone' = gone /\ DOMAIN projects' = DOMAIN projects
<1>1. CASE Validate(a)
  BY <1>1 DEF Validate, Updated
<1>2. CASE TransitionTask(a)
  <2>1. tasks' = tasks \/ tasks' = [tasks EXCEPT ![call[a].id].status = call[a].to,
                                                ![call[a].id].link = call[a].link]
    BY <1>2 DEF TransitionTask
  <2>2. Updated
    BY <2>1 DEF Updated, IInv, Tables, Columns
  <2>3. QED
    BY <1>2, <2>2 DEF TransitionTask
<1>3. CASE UpdateTask(a)
  <2>1. tasks' = tasks \/ tasks' = [tasks EXCEPT ![call[a].id].priority = Int32(call[a].row.priority)]
    BY <1>3 DEF UpdateTask, Written
  <2>2. Updated
    BY <2>1 DEF Updated, IInv, Tables, Columns
  <2>3. QED
    BY <1>3, <2>2 DEF UpdateTask
<1>4. CASE UpdateProject(a)
  BY <1>4 DEF UpdateProject, RenameProject, Updated
<1>5. QED
  BY <1>1, <1>2, <1>3, <1>4 DEF Statement

LEMMA StatementStep ==
  ASSUME IInv, NEW a \in Callers, Statement(a)
  PROVE  IInv'
BY StatementUpdates DEF IInv, Tables, GoneForGood, Updated

(* The first statements of the calls on tasks.                             *)
LEMMA TaskCallStep ==
  ASSUME IInv, NEW a \in Callers, TaskCall(a)
  PROVE  IInv'
<1>1. CASE CreateTask(a)
  <2>1. PICK id \in TaskIds \ (DOMAIN tasks \cup gone), p \in DOMAIN projects,
             s \in TaskStatuses, n \in Priorities, now \in 0..MaxClock :
          /\ tasks' = With(tasks, id, [project |-> p, priority |-> Int32(n), status |-> s,
                                       link |-> "none", born |-> now])
          /\ UNCHANGED <<projects, gone>>
    BY <1>1 DEF CreateTask
  <2>2. /\ DOMAIN tasks' = DOMAIN tasks \cup {id}
        /\ tasks'[id].project = p /\ DOMAIN tasks'[id] = Columns
        /\ \A x \in DOMAIN tasks : tasks'[x] = tasks[x]
    BY <2>1 DEF With, Columns
  <2>3. QED
    BY <2>1, <2>2 DEF IInv, Tables, GoneForGood
<1>2. ASSUME NEW id \in TaskIds, DeleteTask(a, id) PROVE IInv'
  <2>1. /\ DOMAIN tasks' = DOMAIN tasks \ {id} /\ \A x \in DOMAIN tasks' : tasks'[x] = tasks[x]
        /\ gone' = gone \cup {id} /\ projects' = projects
    BY <1>2 DEF DeleteTask, Without
  <2>2. id \notin DOMAIN projects
    BY BoardAssumption DEF IInv, Tables
  <2>3. QED
    BY <2>1, <2>2 DEF IInv, Tables, GoneForGood
<1>3. ASSUME NEW id \in TaskIds, EditTask(a, id) \/ MoveTask(a, id) \/ DispatchTask(a, id)
      PROVE  IInv'
  <2>1. UNCHANGED <<projects, tasks, gone>>
    BY <1>3 DEF EditTask, MoveTask, DispatchTask
  <2>2. QED
    BY <2>1 DEF IInv, Tables, GoneForGood
<1>4. QED
  BY <1>1, <1>2, <1>3 DEF TaskCall

(* Deleting a project deletes its tasks, and their ids are gone with it.   *)
LEMMA ProjectCallStep ==
  ASSUME IInv, NEW a \in Callers, ProjectCall(a)
  PROVE  IInv'
<1>1. CASE CreateProject(a)
  <2>1. PICK id \in ProjectIds \ (DOMAIN projects \cup gone), name \in Names, now \in 0..MaxClock :
          /\ projects' = With(projects, id, [name |-> name, born |-> now])
          /\ UNCHANGED <<tasks, gone>>
    BY <1>1 DEF CreateProject, InsertProject
  <2>2. DOMAIN projects' = DOMAIN projects \cup {id}
    BY <2>1 DEF With
  <2>3. QED
    BY <2>1, <2>2 DEF IInv, Tables, GoneForGood
<1>2. ASSUME NEW id \in ProjectIds, EditProject(a, id) PROVE IInv'
  <2>1. UNCHANGED <<projects, tasks, gone>>
    BY <1>2 DEF EditProject
  <2>2. QED
    BY <2>1 DEF IInv, Tables, GoneForGood
<1>3. ASSUME NEW id \in ProjectIds, DeleteProject(a, id) PROVE IInv'
  <2>1. /\ DOMAIN projects' = DOMAIN projects \ {id}
        /\ DOMAIN tasks' = DOMAIN tasks \ TasksOf(id)
        /\ \A x \in DOMAIN tasks' : tasks'[x] = tasks[x]
        /\ gone' = gone \cup {id} \cup TasksOf(id)
    BY <1>3 DEF DeleteProject, RemoveProject, Without
  <2>2. id \notin DOMAIN tasks /\ TasksOf(id) \cap DOMAIN projects = {}
    BY BoardAssumption DEF IInv, Tables, TasksOf
  <2>3. \A x \in DOMAIN tasks' : tasks'[x].project # id
    BY <2>1 DEF TasksOf
  <2>4. QED
    BY <2>1, <2>2, <2>3 DEF IInv, Tables, GoneForGood
<1>4. QED
  BY <1>1, <1>2, <1>3 DEF ProjectCall

LEMMA InitInv == Init => IInv
BY BoardAssumption DEF Init, IInv, Tables, GoneForGood, Columns, Task

LEMMA StepInv == IInv /\ [Next]_vars => IInv'
<1>1. SUFFICES ASSUME IInv, [Next]_vars PROVE IInv'
  OBVIOUS
<1>2. CASE Listing \/ UNCHANGED vars
  <2>1. UNCHANGED <<projects, tasks, gone>>
    BY <1>2 DEF Listing, FirstPage, LoadCursor, NextPage, vars
  <2>2. QED
    BY <1>1, <2>1 DEF IInv, Tables, GoneForGood
<1>3. QED
  BY <1>1, <1>2, TaskCallStep, ProjectCallStep, StatementStep DEF Next

LEMMA Inductive == Spec => []IInv
BY InitInv, StepInv, PTL DEF Spec

(* No PATCH, transition or dispatch that read a row before its DELETE      *)
(* brings it back, and a project takes all of its tasks with it.           *)
THEOREM DeletedStaysDeleted == Spec => []GoneForGood
<1>1. IInv => GoneForGood
  BY DEF IInv
<1>2. QED
  BY <1>1, Inductive, PTL

(* The columns that task_repo.Update writes leave the status alone.        *)
LEMMA OnlyMovesChangeStatus ==
  ASSUME IInv, [Next]_vars, NEW id \in DOMAIN tasks \cap DOMAIN tasks',
         tasks'[id].status # tasks[id].status
  PROVE  \E a \in Callers : /\ Doing(a, "move") /\ call[a].id = id
                            /\ call[a].to = tasks'[id].status
<1>1. ~(Listing \/ UNCHANGED vars)
  BY DEF Listing, FirstPage, LoadCursor, NextPage, vars
<1>2. PICK a \in Callers : TaskCall(a) \/ ProjectCall(a) \/ Statement(a)
  BY <1>1 DEF Next
<1>3. ~TaskCall(a)
  <2>1. ~CreateTask(a)
    BY DEF CreateTask, With
  <2>2. \A x \in TaskIds : ~DeleteTask(a, x)
    BY DEF DeleteTask, Without
  <2>3. \A x \in TaskIds : ~(EditTask(a, x) \/ MoveTask(a, x) \/ DispatchTask(a, x))
    BY DEF EditTask, MoveTask, DispatchTask
  <2>4. QED
    BY <2>1, <2>2, <2>3 DEF TaskCall
<1>4. ~ProjectCall(a)
  BY DEF ProjectCall, CreateProject, EditProject, DeleteProject, RemoveProject, Without
<1>5. ~Validate(a) /\ ~UpdateProject(a)
  BY DEF Validate, UpdateProject
<1>6. ~UpdateTask(a)
  <2>1. SUFFICES ASSUME UpdateTask(a) PROVE tasks'[id].status = tasks[id].status
    OBVIOUS
  <2>2. tasks' = tasks \/ tasks' = [tasks EXCEPT ![call[a].id].priority = Int32(call[a].row.priority)]
    BY <2>1 DEF UpdateTask, Written
  <2>3. QED
    BY <2>2 DEF IInv, Tables, Columns
<1>7. TransitionTask(a)
  BY <1>2, <1>3, <1>4, <1>5, <1>6 DEF Statement
<1>8. QED
  <2>1. /\ Doing(a, "move") /\ call[a].id \in DOMAIN tasks
        /\ tasks' = [tasks EXCEPT ![call[a].id].status = call[a].to,
                                  ![call[a].id].link = call[a].link]
    BY <1>7 DEF TransitionTask
  <2>2. call[a].id = id
    BY <2>1
  <2>3. call[a].to = tasks'[id].status
    BY <2>1, <2>2 DEF IInv, Tables, Columns
  <2>4. QED
    BY <2>1, <2>2, <2>3

(* A PATCH, and step 5 of a dispatch, write back an entity that may be     *)
(* old: whatever they do, only the caller of a transition moves a task.    *)
THEOREM EntitiesCarryNoStatus == Spec => EditsKeepStatus
<1>1. IInv /\ [Next]_vars =>
        [\A id \in DOMAIN tasks \cap DOMAIN tasks' :
           tasks'[id].status # tasks[id].status =>
             \E a \in Callers : /\ Doing(a, "move") /\ call[a].id = id
                                /\ call[a].to = tasks'[id].status]_vars
  BY OnlyMovesChangeStatus
<1>2. QED
  BY <1>1, Inductive, PTL DEF Spec, EditsKeepStatus

-----------------------------------------------------------------------------
(* Types.                                                                  *)

Ids == TaskIds \cup ProjectIds
Links == Callers \cup {"none"}

(* An entity that was read, with a priority that may be the request's.     *)
Entity == [project : ProjectIds, priority : Stored \cup Priorities, status : TaskStatuses,
           link : Links, born : 0..MaxClock]

Renames == [todo : {<<"rename">>}, id : ProjectIds, to : Names]
Saves == [todo : {<<"save">>}, id : TaskIds, to : TaskStatuses \cup {"none"}, link : Links, row : Entity]
Moves == [todo : {<<"move">>, <<"move", "save">>, <<"validate", "move", "save">>}, id : TaskIds,
          to : TaskStatuses, link : Links, row : Entity]

TablesTyped ==
  /\ DOMAIN tasks \subseteq TaskIds /\ \A id \in DOMAIN tasks : tasks[id] \in Task
  /\ DOMAIN projects \subseteq ProjectIds /\ \A id \in DOMAIN projects : projects[id] \in Project
  /\ gone \subseteq Ids
  /\ calls \in 0..MaxCalls

CallsTyped == call \in [Callers -> {NoCall} \cup Renames \cup Saves \cup Moves]

Typed == TablesTyped /\ CallsTyped

(* A conversion to the column's width fits it, and keeps what fits.        *)
LEMMA StoredPriority ==
  ASSUME NEW n \in Stored \cup Priorities
  PROVE  Int32(n) \in Stored /\ (n <= MaxInt => Int32(n) = n)
<1>1. MaxInt \in Nat /\ Priorities \subseteq Nat
  BY BoardAssumption
<1>2. CASE n <= MaxInt
  BY <1>1, <1>2 DEF Int32, Stored
<1>3. CASE n > MaxInt
  <2>1. n \in Priorities /\ ~(Priorities \subseteq 0..MaxInt)
    BY <1>1, <1>3 DEF Stored
  <2> DEFINE m == 2 * (MaxInt + 1)
             r == (n + MaxInt + 1) % m
  <2>2. m \in Nat /\ m > 0 /\ n + MaxInt + 1 \in Nat
    BY <1>1, <2>1
  <2> HIDE DEF m
  <2>3. r \in 0..(m - 1)
    BY <2>2
  <2> HIDE DEF r
  <2>4. Int32(n) = r - (MaxInt + 1)
    BY <1>1, <1>3, <2>1 DEF Int32, r, m
  <2>5. Int32(n) \in -MaxInt-1..MaxInt
    BY <1>1, <2>3, <2>4 DEF m
  <2>6. QED
    BY <1>1, <1>3, <2>1, <2>5 DEF Stored
<1>4. QED
  BY <1>1, <1>2, <1>3 DEF Stored

LEMMA Todos ==
  /\ NoCall.todo = <<>>
  /\ Head(<<"rename">>) = "rename" /\ Head(<<"save">>) = "save" /\ Head(<<"move">>) = "move"
  /\ Head(<<"move", "save">>) = "move" /\ Tail(<<"move", "save">>) = <<"save">>
  /\ Head(<<"validate", "move", "save">>) = "validate"
  /\ Tail(<<"validate", "move", "save">>) = <<"move", "save">>
  /\ Len(<<"rename">>) = 1 /\ Len(<<"save">>) = 1 /\ Len(<<"move">>) = 1
  /\ Len(<<"move", "save">>) = 2 /\ Len(<<"validate", "move", "save">>) = 3 /\ Len(<<>>) = 0
BY DEF NoCall

(* What a call is about to do says what it has read.                       *)
LEMMA CallIs ==
  ASSUME CallsTyped, NEW a \in Callers
  PROVE  /\ Doing(a, "rename") => call[a] \in Renames
         /\ Doing(a, "save") => call[a] \in Saves
         /\ Doing(a, "move") => call[a] \in Moves /\ call[a].todo \in {<<"move">>, <<"move", "save">>}
         /\ Doing(a, "validate") => call[a] \in Moves /\ call[a].todo = <<"validate", "move", "save">>
         /\ Len(call[a].todo) <= 3
<1>1. call[a] = NoCall \/ call[a] \in Renames \/ call[a] \in Saves \/ call[a] \in Moves
  BY DEF CallsTyped
<1>2. CASE call[a] = NoCall
  BY <1>2, Todos DEF Doing
<1>3. CASE call[a] \in Renames
  <2>1. call[a].todo = <<"rename">>
    BY <1>3 DEF Renames
  <2>2. QED
    BY <1>3, <2>1, Todos DEF Doing
<1>4. CASE call[a] \in Saves
  <2>1. call[a].todo = <<"save">>
    BY <1>4 DEF Saves
  <2>2. QED
    BY <1>4, <2>1, Todos DEF Doing
<1>5. CASE call[a] \in Moves
  <2>1. call[a].todo \in {<<"move">>, <<"move", "save">>, <<"validate", "move", "save">>}
    BY <1>5 DEF Moves
  <2>2. CASE call[a].todo = <<"move">>
    BY <1>5, <2>2, Todos DEF Doing
  <2>3. CASE call[a].todo = <<"move", "save">>
    BY <1>5, <2>3, Todos DEF Doing
  <2>4. CASE call[a].todo = <<"validate", "move", "save">>
    BY <1>5, <2>4, Todos DEF Doing
  <2>5. QED
    BY <2>1, <2>2, <2>3, <2>4
<1>6. QED
  BY <1>1, <1>2, <1>3, <1>4, <1>5

LEMMA TakeTyped ==
  ASSUME Typed, NEW a \in Callers, NEW new \in {NoCall} \cup Renames \cup Saves \cup Moves,
         Take(a, new)
  PROVE  CallsTyped' /\ calls' \in 0..MaxCalls
BY BoardAssumption DEF Typed, TablesTyped, CallsTyped, Take, Idle

LEMMA TaskCallTyped ==
  ASSUME Typed, NEW a \in Callers, TaskCall(a)
  PROVE  Typed'
<1>1. TablesTyped
  BY DEF Typed
<1>2. CASE CreateTask(a)
  <2>1. PICK id \in TaskIds \ (DOMAIN tasks \cup gone), p \in DOMAIN projects,
             s \in TaskStatuses, n \in Priorities, now \in 0..MaxClock :
          /\ Take(a, NoCall)
          /\ tasks' = With(tasks, id, [project |-> p, priority |-> Int32(n), status |-> s,
                                       link |-> "none", born |-> now])
          /\ UNCHANGED <<projects, gone>>
    BY <1>2 DEF CreateTask
  <2> DEFINE row == [project |-> p, priority |-> Int32(n), status |-> s, link |-> "none", born |-> now]
  <2>2. row \in Task
    BY <1>1, StoredPriority DEF Task, TablesTyped
  <2> HIDE DEF row
  <2>3. DOMAIN tasks' \subseteq TaskIds /\ \A x \in DOMAIN tasks' : tasks'[x] \in Task
    <3>1. DOMAIN tasks' = DOMAIN tasks \cup {id} /\ tasks'[id] = row
          /\ \A x \in DOMAIN tasks : tasks'[x] = tasks[x]
      BY <2>1 DEF With, row
    <3>2. QED
      BY <1>1, <2>2, <3>1 DEF TablesTyped
  <2>4. CallsTyped' /\ calls' \in 0..MaxCalls
    BY <2>1, TakeTyped
  <2>5. QED
    BY <1>1, <2>1, <2>3, <2>4 DEF Typed, TablesTyped
<1>3. ASSUME NEW id \in TaskIds, DeleteTask(a, id) PROVE Typed'
  <2>1. /\ Take(a, NoCall) /\ tasks' = Without(tasks, {id}) /\ gone' = gone \cup {id}
        /\ projects' = projects
    BY <1>3 DEF DeleteTask
  <2>2. DOMAIN tasks' \subseteq TaskIds /\ \A x \in DOMAIN tasks' : tasks'[x] \in Task
    BY <1>1, <2>1 DEF TablesTyped, Without
  <2>3. CallsTyped' /\ calls' \in 0..MaxCalls
    BY <2>1, TakeTyped
  <2>4. QED
    BY <1>1, <2>1, <2>2, <2>3 DEF Typed, TablesTyped, Ids
<1>4. ASSUME NEW id \in TaskIds, EditTask(a, id) \/ MoveTask(a, id) \/ DispatchTask(a, id)
      PROVE  Typed'
  <2>1. id \in DOMAIN tasks /\ tasks[id] \in Task /\ UNCHANGED <<projects, tasks, gone>>
    BY <1>1, <1>4 DEF EditTask, MoveTask, DispatchTask, Loads, TablesTyped
  <2>2. PICK new \in Saves \cup Moves : Take(a, new)
    <3>1. CASE EditTask(a, id)
      <4>1. PICK n \in Priorities :
              Take(a, [todo |-> <<"save">>, id |-> id, to |-> "none", link |-> "none",
                       row |-> [tasks[id] EXCEPT !.priority = n]])
        BY <3>1 DEF EditTask
      <4>2. [tasks[id] EXCEPT !.priority = n] \in Entity
        BY <2>1 DEF Task, Entity, Links
      <4>3. QED
        BY <4>1, <4>2 DEF Saves, Links
    <3>2. CASE MoveTask(a, id)
      <4>1. PICK to \in TaskStatuses :
              Take(a, [todo |-> <<"move">>, id |-> id, to |-> to, link |-> tasks[id].link, row |-> tasks[id]])
        BY <3>2 DEF MoveTask
      <4>2. tasks[id] \in Entity /\ tasks[id].link \in Links
        BY <2>1 DEF Task, Entity, Links
      <4>3. QED
        BY <4>1, <4>2 DEF Moves
    <3>3. CASE DispatchTask(a, id)
      <4>1. Take(a, [todo |-> <<"validate", "move", "save">>, id |-> id, to |-> "in_progress",
                     link |-> "none", row |-> [tasks[id] EXCEPT !.link = a]])
        BY <3>3 DEF DispatchTask
      <4>2. [tasks[id] EXCEPT !.link = a] \in Entity
        BY <2>1 DEF Task, Entity, Links
      <4>3. QED
        BY <4>1, <4>2 DEF Moves, Links, TaskStatuses
    <3>4. QED
      BY <1>4, <3>1, <3>2, <3>3
  <2>3. CallsTyped' /\ calls' \in 0..MaxCalls
    BY <2>2, TakeTyped
  <2>4. QED
    BY <1>1, <2>1, <2>3 DEF Typed, TablesTyped
<1>5. QED
  BY <1>2, <1>3, <1>4 DEF TaskCall

LEMMA ProjectCallTyped ==
  ASSUME Typed, NEW a \in Callers, ProjectCall(a)
  PROVE  Typed'
<1>1. TablesTyped
  BY DEF Typed
<1>2. CASE CreateProject(a)
  <2>1. PICK id \in ProjectIds \ (DOMAIN projects \cup gone), name \in Names, now \in 0..MaxClock :
          /\ Take(a, NoCall)
          /\ projects' = With(projects, id, [name |-> name, born |-> now])
          /\ UNCHANGED <<tasks, gone>>
    BY <1>2 DEF CreateProject, InsertProject
  <2>2. [name |-> name, born |-> now] \in Project
    BY DEF Project
  <2>3. DOMAIN projects' \subseteq ProjectIds /\ \A x \in DOMAIN projects' : projects'[x] \in Project
    <3>1. DOMAIN projects' = DOMAIN projects \cup {id} /\ projects'[id] = [name |-> name, born |-> now]
          /\ \A x \in DOMAIN projects : projects'[x] = projects[x]
      BY <2>1 DEF With
    <3>2. QED
      BY <1>1, <2>2, <3>1 DEF TablesTyped
  <2>4. CallsTyped' /\ calls' \in 0..MaxCalls
    BY <2>1, TakeTyped
  <2>5. QED
    BY <1>1, <2>1, <2>3, <2>4 DEF Typed, TablesTyped
<1>3. ASSUME NEW id \in ProjectIds, EditProject(a, id) PROVE Typed'
  <2>1. UNCHANGED <<projects, tasks, gone>> /\ \E new \in Renames : Take(a, new)
    BY <1>3 DEF EditProject, Renames
  <2>2. CallsTyped' /\ calls' \in 0..MaxCalls
    BY <2>1, TakeTyped
  <2>3. QED
    BY <1>1, <2>1, <2>2 DEF Typed, TablesTyped
<1>4. ASSUME NEW id \in ProjectIds, DeleteProject(a, id) PROVE Typed'
  <2>1. /\ Take(a, NoCall) /\ projects' = Without(projects, {id})
        /\ tasks' = Without(tasks, TasksOf(id)) /\ gone' = gone \cup {id} \cup TasksOf(id)
    BY <1>4 DEF DeleteProject, RemoveProject
  <2>2. /\ DOMAIN tasks' \subseteq TaskIds /\ \A x \in DOMAIN tasks' : tasks'[x] \in Task
        /\ DOMAIN projects' \subseteq ProjectIds /\ \A x \in DOMAIN projects' : projects'[x] \in Project
    BY <1>1, <2>1 DEF TablesTyped, Without
  <2>3. gone' \subseteq Ids
    BY <1>1, <2>1 DEF TablesTyped, Ids, TasksOf
  <2>4. CallsTyped' /\ calls' \in 0..MaxCalls
    BY <2>1, TakeTyped
  <2>5. QED
    BY <2>2, <2>3, <2>4 DEF Typed, TablesTyped
<1>5. QED
  BY <1>2, <1>3, <1>4 DEF ProjectCall

LEMMA DoneTyped ==
  ASSUME CallsTyped, NEW a \in Callers, Done(a)
  PROVE  CallsTyped'
BY DEF CallsTyped, Done

LEMMA StatementTyped ==
  ASSUME Typed, NEW a \in Callers, Statement(a)
  PROVE  Typed'
<1>1. TablesTyped /\ CallsTyped
  BY DEF Typed
<1> DEFINE c == call[a]
<1>2. CASE Validate(a)
  <2>1. UNCHANGED <<projects, tasks, gone, calls>> /\ Doing(a, "validate")
    BY <1>2 DEF Validate
  <2>2. CallsTyped'
    <3>1. CASE Done(a)
      BY <1>1, <3>1, DoneTyped
    <3>2. CASE /\ Loads(c.id)
               /\ call' = [call EXCEPT ![a].todo = Tail(@), ![a].link = tasks[c.id].link]
      <4>1. c \in Moves /\ c.todo = <<"validate", "move", "save">>
        BY <1>1, <2>1, CallIs
      <4>2. tasks[c.id].link \in Links
        BY <1>1, <3>2 DEF Loads, TablesTyped, Task, Links
      <4>3. call' = [call EXCEPT ![a] = [c EXCEPT !.todo = <<"move", "save">>, !.link = tasks[c.id].link]]
        BY <3>2, <4>1, Todos
      <4>4. [c EXCEPT !.todo = <<"move", "save">>, !.link = tasks[c.id].link] \in Moves
        BY <4>1, <4>2 DEF Moves
      <4>5. QED
        BY <1>1, <4>3, <4>4 DEF CallsTyped
    <3>3. QED
      BY <1>2, <3>1, <3>2 DEF Validate
  <2>3. QED
    BY <1>1, <2>1, <2>2 DEF Typed, TablesTyped
<1>3. CASE TransitionTask(a)
  <2>1. /\ c \in Moves /\ c.todo \in {<<"move">>, <<"move", "save">>}
        /\ UNCHANGED <<projects, gone, calls>>
    BY <1>1, <1>3, CallIs DEF TransitionTask
  <2>2. CASE c.id \notin DOMAIN tasks
    <3>1. Done(a) /\ tasks' = tasks
      BY <1>3, <2>2 DEF TransitionTask
    <3>2. QED
      BY <1>1, <2>1, <3>1, DoneTyped DEF Typed, TablesTyped
  <2>3. CASE c.id \in DOMAIN tasks
    <3>1. /\ tasks' = [tasks EXCEPT ![c.id].status = c.to, ![c.id].link = c.link]
          /\ Proceed(a)
      BY <1>3, <2>3 DEF TransitionTask
    <3>2. c.to \in TaskStatuses /\ c.link \in Links /\ tasks[c.id] \in Task
      BY <1>1, <2>1, <2>3 DEF Moves, TablesTyped
    <3>3. [tasks[c.id] EXCEPT !.status = c.to, !.link = c.link] \in Task
      BY <3>2 DEF Task, Links
    <3>4. /\ DOMAIN tasks' = DOMAIN tasks
          /\ \A x \in DOMAIN tasks : tasks'[x] = IF x = c.id
               THEN [tasks[c.id] EXCEPT !.status = c.to, !.link = c.link] ELSE tasks[x]
      BY <3>1
    <3>5. TablesTyped'
      BY <1>1, <2>1, <3>3, <3>4 DEF TablesTyped
    <3>6. CallsTyped'
      <4>1. CASE c.todo = <<"move">>
        <5>1. Done(a)
          BY <3>1, <4>1, Todos DEF Proceed
        <5>2. QED
          BY <1>1, <5>1, DoneTyped
      <4>2. CASE c.todo = <<"move", "save">>
        <5>1. call' = [call EXCEPT ![a] = [c EXCEPT !.todo = <<"save">>]]
          BY <3>1, <4>2, Todos DEF Proceed
        <5>2. [c EXCEPT !.todo = <<"save">>] \in Saves
          BY <2>1 DEF Moves, Saves
        <5>3. QED
          BY <1>1, <5>1, <5>2 DEF CallsTyped
      <4>3. QED
        BY <2>1, <4>1, <4>2
    <3>7. QED
      BY <3>5, <3>6 DEF Typed
  <2>4. QED
    BY <2>2, <2>3
<1>4. CASE UpdateTask(a)
  <2>1. /\ c \in Saves /\ UNCHANGED <<projects, gone, calls>> /\ Done(a)
        /\ tasks' = tasks \/ (c.id \in DOMAIN tasks /\ tasks' = Written(c.id, c.row))
    BY <1>1, <1>4, CallIs DEF UpdateTask
  <2>2. ASSUME c.id \in DOMAIN tasks, tasks' = Written(c.id, c.row)
        PROVE  DOMAIN tasks' = DOMAIN tasks /\ \A x \in DOMAIN tasks : tasks'[x] \in Task
    <3>1. Int32(c.row.priority) \in Stored
      BY <2>1, StoredPriority DEF Saves, Entity
    <3>2. [tasks[c.id] EXCEPT !.priority = Int32(c.row.priority)] \in Task
      BY <1>1, <2>2, <3>1 DEF TablesTyped, Task
    <3>3. /\ DOMAIN tasks' = DOMAIN tasks
          /\ \A x \in DOMAIN tasks : tasks'[x] = IF x = c.id
               THEN [tasks[c.id] EXCEPT !.priority = Int32(c.row.priority)] ELSE tasks[x]
      BY <2>2 DEF Written
    <3>4. QED
      BY <1>1, <3>2, <3>3 DEF TablesTyped
  <2>3. TablesTyped'
    BY <1>1, <2>1, <2>2 DEF TablesTyped
  <2>4. QED
    BY <1>1, <2>1, <2>3, DoneTyped DEF Typed
<1>5. CASE UpdateProject(a)
  <2>1. c \in Renames /\ UNCHANGED <<tasks, gone, calls>> /\ Done(a) /\ RenameProject(c.id, c.to)
    BY <1>1, <1>5, CallIs DEF UpdateProject
  <2>2. DOMAIN projects' = DOMAIN projects /\ \A x \in DOMAIN projects : projects'[x] \in Project
    <3>1. CASE projects' = projects
      BY <1>1, <3>1 DEF TablesTyped
    <3>2. CASE c.id \in DOMAIN projects /\ projects' = [projects EXCEPT ![c.id].name = c.to]
      <4>1. [projects[c.id] EXCEPT !.name = c.to] \in Project
        BY <1>1, <2>1, <3>2 DEF TablesTyped, Project, Renames
      <4>2. QED
        BY <1>1, <3>2, <4>1 DEF TablesTyped
    <3>3. QED
      BY <2>1, <3>1, <3>2 DEF RenameProject
  <2>3. TablesTyped'
    BY <1>1, <2>1, <2>2 DEF TablesTyped
  <2>4. QED
    BY <1>1, <2>1, <2>3, DoneTyped DEF Typed
<1>6. QED
  BY <1>2, <1>3, <1>4, <1>5 DEF Statement

LEMMA NextTyped ==
  ASSUME Typed, [Next]_vars
  PROVE  Typed'
<1>1. CASE Listing \/ UNCHANGED vars
  <2>1. UNCHANGED <<projects, tasks, gone, call, calls>>
    BY <1>1 DEF Listing, FirstPage, LoadCursor, NextPage, vars
  <2>2. QED
    BY <2>1 DEF Typed, TablesTyped, CallsTyped
<1>2. QED
  BY <1>1, TaskCallTyped, ProjectCallTyped, StatementTyped DEF Next

-----------------------------------------------------------------------------
(* The listing.                                                            *)

Readers ==
  [phase : {"paging", "cursor", "done", "error"}, table : {"tasks", "projects"},
   status : TaskStatuses \cup {"any"}, key : Int \X Int \X Int, got : Seq(Ids),
   start : SUBSET Ids, touched : SUBSET Ids, jumped : BOOLEAN]

ReaderTyped == reader = NoReader \/ reader \in Readers

(* id comes exactly once in s.                                             *)
Once(s, id) == \E i \in DOMAIN s : s[i] = id /\ \A j \in DOMAIN s : s[j] = id => j = i

Table(table) == IF table = "tasks" THEN DOMAIN tasks ELSE DOMAIN projects

(* Where the next page begins.                                             *)
Cursor == IF reader.phase = "paging" THEN Key(reader.table, Last(reader.got)) ELSE reader.key

(* While pages follow, a steady row is where it was, and it has come once  *)
(* or not at all, as its place is up to the cursor or after it.            *)
Steady ==
  \A id \in reader.start \ reader.touched :
    /\ id \in Rows(reader.table, reader.status)
    /\ IF After(Key(reader.table, id), Cursor) THEN id \notin Range(reader.got)
       ELSE Once(reader.got, id)

Listed ==
  /\ reader.phase = "paging" =>
       reader.got # <<>> /\ (~reader.jumped => Last(reader.got) \in Table(reader.table))
  /\ reader.phase \in {"paging", "cursor"} /\ ~reader.jumped => Steady
  /\ reader.phase = "done" /\ ~reader.jumped =>
       \A id \in reader.start \ reader.touched : Once(reader.got, id)

(* The rows outside S keep their places in every listing.                  *)
Leaves(S) ==
  /\ \A id \in DOMAIN tasks \ S : id \in DOMAIN tasks' /\ tasks'[id] = tasks[id]
  /\ \A id \in DOMAIN projects \ S : id \in DOMAIN projects' /\ projects'[id].born = projects[id].born

(* Every write tells the reader which rows it touched.                     *)
LEMMA Writes ==
  ASSUME Typed, NEW a \in Callers, TaskCall(a) \/ ProjectCall(a) \/ Statement(a)
  PROVE  \E S \in SUBSET Ids : Leaves(S) /\ (Touch(S) \/ (S = {} /\ reader' = reader))
<1>1. TablesTyped /\ CallsTyped /\ {} \in SUBSET Ids
  BY DEF Typed
<1>2. CASE UNCHANGED <<tasks, projects, reader>>
  BY <1>1, <1>2 DEF Leaves
<1>3. CASE CreateTask(a)
  <2>1. PICK id \in TaskIds \ (DOMAIN tasks \cup gone) :
          /\ Touch({id}) /\ projects' = projects /\ \E row : tasks' = With(tasks, id, row)
    BY <1>3 DEF CreateTask
  <2>2. Leaves({id}) /\ {id} \in SUBSET Ids
    BY <2>1 DEF Leaves, With, Ids
  <2>3. QED
    BY <2>1, <2>2
<1>4. ASSUME NEW id \in TaskIds, DeleteTask(a, id)
      PROVE  \E S \in SUBSET Ids : Leaves(S) /\ (Touch(S) \/ (S = {} /\ reader' = reader))
  <2>1. Leaves({id}) /\ {id} \in SUBSET Ids /\ Touch({id})
    BY <1>4 DEF DeleteTask, Leaves, Without, Ids
  <2>2. QED
    BY <2>1
<1>5. CASE CreateProject(a)
  <2>1. PICK id \in ProjectIds \ (DOMAIN projects \cup gone) :
          /\ Touch({id}) /\ tasks' = tasks /\ \E row : projects' = With(projects, id, row)
    BY <1>5 DEF CreateProject, InsertProject
  <2>2. Leaves({id}) /\ {id} \in SUBSET Ids
    BY <2>1 DEF Leaves, With, Ids
  <2>3. QED
    BY <2>1, <2>2
<1>6. ASSUME NEW id \in ProjectIds, DeleteProject(a, id)
      PROVE  \E S \in SUBSET Ids : Leaves(S) /\ (Touch(S) \/ (S = {} /\ reader' = reader))
  <2>1. {id} \cup TasksOf(id) \in SUBSET Ids
    BY <1>1 DEF Ids, TasksOf, TablesTyped
  <2>2. Leaves({id} \cup TasksOf(id)) /\ Touch({id} \cup TasksOf(id))
    BY <1>6 DEF DeleteProject, RemoveProject, Leaves, Without
  <2>3. QED
    BY <2>1, <2>2
<1>7. CASE TransitionTask(a)
  <2>1. CASE call[a].id \in DOMAIN tasks
    <3>1. /\ Touch({call[a].id}) /\ projects' = projects
          /\ tasks' = [tasks EXCEPT ![call[a].id].status = call[a].to, ![call[a].id].link = call[a].link]
      BY <1>7, <2>1 DEF TransitionTask
    <3>2. Leaves({call[a].id}) /\ {call[a].id} \in SUBSET Ids
      BY <1>1, <2>1, <3>1 DEF Leaves, Ids, TablesTyped
    <3>3. QED
      BY <3>1, <3>2
  <2>2. CASE call[a].id \notin DOMAIN tasks
    BY <1>2, <1>7, <2>2 DEF TransitionTask
  <2>3. QED
    BY <2>1, <2>2
<1>8. CASE UpdateTask(a)
  <2>1. CASE call[a].id \in DOMAIN tasks
    <3>1. /\ Touch({call[a].id}) /\ projects' = projects
          /\ tasks' = [tasks EXCEPT ![call[a].id].priority = Int32(call[a].row.priority)]
      BY <1>8, <2>1 DEF UpdateTask, Written
    <3>2. Leaves({call[a].id}) /\ {call[a].id} \in SUBSET Ids
      BY <1>1, <2>1, <3>1 DEF Leaves, Ids, TablesTyped
    <3>3. QED
      BY <3>1, <3>2
  <2>2. CASE call[a].id \notin DOMAIN tasks
    BY <1>2, <1>8, <2>2 DEF UpdateTask
  <2>3. QED
    BY <2>1, <2>2
<1>9. CASE UpdateProject(a)
  <2>1. /\ reader' = reader /\ tasks' = tasks
        /\ \/ projects' = projects
           \/ projects' = [projects EXCEPT ![call[a].id].name = call[a].to]
    BY <1>9 DEF UpdateProject, RenameProject
  <2>2. Leaves({})
    BY <1>1, <2>1 DEF Leaves, TablesTyped, Project
  <2>3. QED
    BY <1>1, <2>1, <2>2
<1>10. ASSUME NEW id \in TaskIds, EditTask(a, id) \/ MoveTask(a, id) \/ DispatchTask(a, id)
       PROVE  UNCHANGED <<tasks, projects, reader>>
  BY <1>10 DEF EditTask, MoveTask, DispatchTask
<1>11. ASSUME NEW id \in ProjectIds, EditProject(a, id)
       PROVE  UNCHANGED <<tasks, projects, reader>>
  BY <1>11 DEF EditProject
<1>12. Validate(a) => UNCHANGED <<tasks, projects, reader>>
  BY DEF Validate
<1>13. QED
  BY <1>2, <1>3, <1>4, <1>5, <1>6, <1>7, <1>8, <1>9, <1>10, <1>11, <1>12
  DEF TaskCall, ProjectCall, Statement

(* The order of the listings.                                              *)
LEMMA AfterOrder ==
  ASSUME NEW k \in Int \X Int \X Int, NEW l \in Int \X Int \X Int, NEW m \in Int \X Int \X Int
  PROVE  /\ ~After(k, k)
         /\ After(k, l) /\ After(l, m) => After(k, m)
         /\ k[3] # l[3] => After(k, l) \/ After(l, k)
<1>1. /\ k[1] \in Int /\ k[2] \in Int /\ k[3] \in Int
      /\ l[1] \in Int /\ l[2] \in Int /\ l[3] \in Int
      /\ m[1] \in Int /\ m[2] \in Int /\ m[3] \in Int
  OBVIOUS
<1>2. QED
  BY <1>1 DEF After

LEMMA KeyIs ==
  ASSUME TablesTyped, NEW table \in {"tasks", "projects"}, NEW id \in Table(table)
  PROVE  Key(table, id) \in Int \X Int \X Int /\ Key(table, id)[3] = -id /\ id \in Nat /\ id \in Ids
<1>1. MaxInt \in Nat /\ TaskIds \subseteq Nat /\ ProjectIds \subseteq Nat /\ MaxClock \in Nat
  BY BoardAssumption
<1>2. CASE table = "tasks"
  <2>1. id \in TaskIds /\ tasks[id] \in Task
    BY <1>2 DEF Table, TablesTyped
  <2>2. tasks[id].priority \in Int /\ tasks[id].born \in Int
    BY <1>1, <2>1 DEF Task, Stored
  <2>3. QED
    BY <1>1, <1>2, <2>1, <2>2 DEF Key, TaskKey, Ids
<1>3. CASE table = "projects"
  <2>1. id \in ProjectIds /\ projects[id].born \in Int
    BY <1>1, <1>3 DEF Table, TablesTyped, Project
  <2>2. QED
    BY <1>1, <1>3, <2>1 DEF Key, ProjectKey, Ids
<1>4. QED
  BY <1>2, <1>3

LEMMA RowsIn ==
  ASSUME NEW table \in {"tasks", "projects"}, NEW status
  PROVE  Rows(table, status) \subseteq Table(table)
BY DEF Rows, TaskRows, ProjectRows, Table

(* A write beside the listing.                                             *)
LEMMA TouchKeeps ==
  ASSUME TablesTyped, ReaderTyped, Listed, NEW S \in SUBSET Ids, Leaves(S), Touch(S)
  PROVE  ReaderTyped' /\ Listed'
<1>1. CASE reader.phase \notin {"paging", "cursor"}
  <2>1. reader' = reader
    BY <1>1 DEF Touch
  <2>2. QED
    BY <1>1, <2>1 DEF ReaderTyped, Listed, Once
<1>2. CASE reader.phase \in {"paging", "cursor"}
  <2>1. reader \in Readers
    BY <1>2 DEF ReaderTyped, NoReader
  <2> DEFINE R == reader
  <2>2. /\ reader' \in Readers /\ reader'.phase = R.phase /\ reader'.table = R.table
        /\ reader'.status = R.status /\ reader'.key = R.key /\ reader'.got = R.got
        /\ reader'.start = R.start /\ reader'.touched = R.touched \cup S
        /\ ~reader'.jumped => ~R.jumped /\ (R.phase = "paging" => Last(R.got) \notin S)
    <3>1. reader' = [reader EXCEPT !.touched = @ \cup S,
                                   !.jumped = @ \/ (reader.phase = "paging" /\ Last(reader.got) \in S)]
      BY <1>2 DEF Touch
    <3>2. QED
      BY <2>1, <3>1 DEF Readers
  <2>3. R.table \in {"tasks", "projects"}
    BY <2>1 DEF Readers
  <2>4. ASSUME NEW id \in Table(R.table) \ S
        PROVE  /\ id \in Table(R.table)' /\ Key(R.table, id)' = Key(R.table, id)
               /\ id \in Rows(R.table, R.status) => id \in Rows(R.table, R.status)'
    <3>1. CASE R.table = "tasks"
      <4>1. id \in DOMAIN tasks' /\ tasks'[id] = tasks[id]
        BY <2>4, <3>1 DEF Leaves, Table
      <4>2. QED
        BY <2>2, <3>1, <4>1 DEF Table, Key, TaskKey, Rows, TaskRows, Matches
    <3>2. CASE R.table = "projects"
      <4>1. id \in DOMAIN projects' /\ projects'[id].born = projects[id].born
        BY <2>4, <3>2 DEF Leaves, Table
      <4>2. QED
        BY <2>2, <3>2, <4>1 DEF Table, Key, ProjectKey, Rows, ProjectRows
    <3>3. QED
      BY <2>3, <3>1, <3>2
  <2>5. ASSUME ~reader'.jumped
        PROVE  Steady' /\ (R.phase = "paging" => Last(R.got) \in Table(R.table)')
    <3>1. ~R.jumped /\ Steady /\ (R.phase = "paging" => Last(R.got) \in Table(R.table) \ S)
      BY <1>2, <2>2, <2>5 DEF Listed
    <3>2. Cursor' = Cursor
      BY <2>2, <2>4, <3>1 DEF Cursor
    <3>3. ASSUME NEW id \in R.start \ (R.touched \cup S)
          PROVE  /\ id \in Rows(R.table, R.status)'
                 /\ IF After(Key(R.table, id)', Cursor') THEN id \notin Range(R.got)
                    ELSE Once(R.got, id)
      <4>1. /\ id \in Rows(R.table, R.status)
            /\ IF After(Key(R.table, id), Cursor) THEN id \notin Range(R.got) ELSE Once(R.got, id)
        BY <3>1 DEF Steady
      <4>2. id \in Table(R.table) \ S
        BY <2>3, <3>3, <4>1, RowsIn
      <4>3. QED
        BY <2>4, <3>2, <4>1, <4>2
    <3>4. QED
      BY <2>2, <2>4, <3>1, <3>3 DEF Steady, Once, After
  <2>6. QED
    BY <1>2, <2>2, <2>5 DEF ReaderTyped, Listed, Once
<1>3. QED
  BY <1>1, <1>2

LEMMA LeftAlone ==
  ASSUME TablesTyped, ReaderTyped, Listed, Leaves({}), reader' = reader
  PROVE  ReaderTyped' /\ Listed'
<1>1. CASE reader.phase \notin {"paging", "cursor"}
  BY <1>1, TouchKeeps DEF Touch
<1>2. CASE reader.phase \in {"paging", "cursor"}
  <2>1. reader \in Readers
    BY <1>2 DEF ReaderTyped, NoReader
  <2>2. reader = [reader EXCEPT !.touched = reader.touched \cup {},
                                !.jumped = reader.jumped \/ (reader.phase = "paging" /\ Last(reader.got) \in {})]
    BY <2>1 DEF Readers
  <2>3. Touch({})
    BY <1>2, <2>2 DEF Touch
  <2>4. QED
    BY <2>3, TouchKeeps
<1>3. QED
  BY <1>1, <1>2

LEMMA SeqOfFunction ==
  ASSUME NEW S, NEW n \in Nat, NEW f \in [1..n -> S]
  PROVE  f \in Seq(S) /\ Len(f) = n
BY SeqDef

(* A page: rows in order, none after one that it leaves out.               *)
LEMMA PageIs ==
  ASSUME TablesTyped, NEW table \in {"tasks", "projects"}, NEW rows \in SUBSET Table(table),
         NEW page \in Pages(table, rows)
  PROVE  /\ page \in Seq(rows) /\ page \in Seq(Ids) /\ Len(page) \in Nat /\ DOMAIN page = 1..Len(page)
         /\ Len(page) <= Limit /\ IsInjective(page) /\ Range(page) \subseteq rows
         /\ Len(page) # Limit => rows \subseteq Range(page)
         /\ Len(page) = Limit =>
              /\ Len(page) \in DOMAIN page /\ page[Len(page)] \in rows
              /\ \A id \in Range(page) : ~After(Key(table, id), Key(table, page[Len(page)]))
              /\ \A id \in rows \ Range(page) : After(Key(table, id), Key(table, page[Len(page)]))
<1>1. PICK n \in 0..Limit : page \in [1..n -> rows]
  BY DEF Pages
<1>2. n \in Nat /\ n <= Limit /\ Limit \in Nat \ {0}
  BY BoardAssumption
<1>3. page \in Seq(rows) /\ Len(page) = n
  BY <1>1, <1>2, SeqOfFunction
<1>4. /\ DOMAIN page = 1..n /\ \A i \in 1..n : page[i] \in rows
      /\ IsInjective(page)
      /\ \A i, j \in 1..n : i < j => ~After(Key(table, page[i]), Key(table, page[j]))
      /\ \A id \in rows \ Range(page) :
           n = Limit /\ \A i \in 1..n : ~After(Key(table, page[i]), Key(table, id))
  BY <1>1, <1>3 DEF Pages
<1>5. rows \subseteq Ids /\ page \in Seq(Ids)
  BY <1>3, KeyIs, SeqMonotonic
<1>6. Range(page) \subseteq rows
  BY <1>4 DEF Range
<1>7. ASSUME n = Limit
      PROVE  /\ n \in 1..n /\ page[n] \in rows
             /\ \A id \in Range(page) : ~After(Key(table, id), Key(table, page[n]))
             /\ \A id \in rows \ Range(page) : After(Key(table, id), Key(table, page[n]))
  <2>1. n \in 1..n /\ page[n] \in rows
    BY <1>2, <1>4, <1>7
  <2>2. ASSUME NEW i \in 1..n PROVE ~After(Key(table, page[i]), Key(table, page[n]))
    <3>1. Key(table, page[n]) \in Int \X Int \X Int
      BY <2>1, KeyIs
    <3>2. i < n \/ i = n
      BY <1>2
    <3>3. QED
      BY <1>4, <2>1, <3>1, <3>2, AfterOrder
  <2>3. ASSUME NEW id \in rows \ Range(page) PROVE After(Key(table, id), Key(table, page[n]))
    <3>1. page[n] \in Range(page)
      BY <1>4, <2>1 DEF Range
    <3>2. /\ Key(table, id) \in Int \X Int \X Int /\ Key(table, page[n]) \in Int \X Int \X Int
          /\ Key(table, id)[3] = -id /\ Key(table, page[n])[3] = -page[n]
          /\ id \in Nat /\ page[n] \in Nat
      BY <2>1, KeyIs
    <3>3. Key(table, id)[3] # Key(table, page[n])[3]
      BY <3>1, <3>2
    <3>4. ~After(Key(table, page[n]), Key(table, id))
      BY <1>4, <2>1
    <3>5. QED
      BY <3>2, <3>3, <3>4, AfterOrder
  <2>4. QED
    BY <1>4, <2>1, <2>2, <2>3 DEF Range
<1>8. n # Limit => rows \subseteq Range(page)
  BY <1>4
<1>9. QED
  BY <1>2, <1>3, <1>4, <1>5, <1>6, <1>7, <1>8

LEMMA OnceConcat ==
  ASSUME NEW S, NEW s \in Seq(S), NEW r \in Seq(S), NEW id
  PROVE  /\ Once(s, id) /\ id \notin Range(r) => Once(s \o r, id)
         /\ id \notin Range(s) /\ id \in Range(r) /\ IsInjective(r) => Once(s \o r, id)
         /\ id \notin Range(s) /\ id \notin Range(r) => id \notin Range(s \o r)
<1> DEFINE all == s \o r
<1>1. /\ all \in Seq(S) /\ DOMAIN all = 1..Len(s) + Len(r) /\ Len(s) \in Nat /\ Len(r) \in Nat
      /\ DOMAIN s = 1..Len(s) /\ DOMAIN r = 1..Len(r)
      /\ \A i \in 1..Len(s) + Len(r) : all[i] = IF i <= Len(s) THEN s[i] ELSE r[i - Len(s)]
  BY ConcatProperties, LenProperties
<1> HIDE DEF all
<1>2. \A i \in DOMAIN s : i \in DOMAIN all /\ all[i] = s[i]
  BY <1>1
<1>3. \A i \in DOMAIN r : i + Len(s) \in DOMAIN all /\ all[i + Len(s)] = r[i]
  BY <1>1
<1>4. \A i \in DOMAIN all : \/ i \in DOMAIN s /\ all[i] = s[i]
                            \/ i - Len(s) \in DOMAIN r /\ all[i] = r[i - Len(s)]
  BY <1>1
<1>5. ASSUME Once(s, id), id \notin Range(r) PROVE Once(all, id)
  BY <1>2, <1>4, <1>5 DEF Once, Range
<1>6. ASSUME id \notin Range(s), id \in Range(r), IsInjective(r) PROVE Once(all, id)
  <2>1. PICK k \in DOMAIN r : r[k] = id
    BY <1>6 DEF Range
  <2>2. k + Len(s) \in DOMAIN all /\ all[k + Len(s)] = id
    BY <1>3, <2>1
  <2>3. ASSUME NEW j \in DOMAIN all, all[j] = id PROVE j = k + Len(s)
    <3>1. j - Len(s) \in DOMAIN r /\ r[j - Len(s)] = id
      BY <1>4, <1>6, <2>3 DEF Range
    <3>2. j - Len(s) = k
      BY <1>6, <2>1, <3>1 DEF IsInjective
    <3>3. QED
      BY <1>1, <2>1, <3>1, <3>2
  <2>4. QED
    BY <2>2, <2>3 DEF Once
<1>7. ASSUME id \notin Range(s), id \notin Range(r) PROVE id \notin Range(all)
  BY <1>4, <1>7 DEF Range
<1>8. QED
  BY <1>5, <1>6, <1>7 DEF all

(* A page arrives for a listing whose steady rows are either to come, or   *)
(* have come once and stand before all that are to come.                   *)
LEMMA ReceivedKeeps ==
  ASSUME TablesTyped, NEW listing \in Readers, NEW rows \in SUBSET Table(listing.table),
         NEW page \in Pages(listing.table, rows), UNCHANGED <<tasks, projects>>,
         ~listing.jumped =>
           \A id \in listing.start \ listing.touched :
             /\ id \in Rows(listing.table, listing.status)
             /\ \/ id \in rows /\ id \notin Range(listing.got)
                \/ /\ Once(listing.got, id) /\ id \notin rows
                   /\ \A r \in rows : ~After(Key(listing.table, id), Key(listing.table, r)),
         reader' = Received(listing, page)
  PROVE  ReaderTyped' /\ Listed'
<1> DEFINE L == listing
           all == L.got \o page
<1>1. L.table \in {"tasks", "projects"} /\ L.got \in Seq(Ids)
  BY DEF Readers
<1>2. /\ page \in Seq(Ids) /\ Len(page) \in Nat /\ DOMAIN page = 1..Len(page)
      /\ Len(page) <= Limit /\ IsInjective(page) /\ Range(page) \subseteq rows
      /\ Len(page) # Limit => rows \subseteq Range(page)
      /\ Len(page) = Limit =>
           /\ Len(page) \in DOMAIN page /\ page[Len(page)] \in rows
           /\ \A id \in Range(page) : ~After(Key(L.table, id), Key(L.table, page[Len(page)]))
           /\ \A id \in rows \ Range(page) : After(Key(L.table, id), Key(L.table, page[Len(page)]))
  BY <1>1, PageIs
<1>3. CASE reader' = [listing EXCEPT !.phase = "error"]
  <2>1. reader' \in Readers /\ reader'.phase = "error"
    BY <1>3 DEF Readers
  <2>2. QED
    BY <2>1 DEF ReaderTyped, Listed
<1>4. CASE reader' = [listing EXCEPT !.got = @ \o page,
                                     !.phase = IF Len(page) = Limit THEN "paging" ELSE "done"]
  <2>1. all \in Seq(Ids) /\ Len(all) = Len(L.got) + Len(page) /\ Len(L.got) \in Nat
        /\ \A i \in 1..Len(L.got) + Len(page) : all[i] = IF i <= Len(L.got) THEN L.got[i] ELSE page[i - Len(L.got)]
    BY <1>1, <1>2, ConcatProperties, LenProperties
  <2>2. /\ reader' \in Readers
        /\ reader'.phase = IF Len(page) = Limit THEN "paging" ELSE "done"
        /\ reader'.got = all /\ reader'.table = L.table /\ reader'.status = L.status
        /\ reader'.start = L.start /\ reader'.touched = L.touched /\ reader'.jumped = L.jumped
    BY <1>4, <2>1 DEF Readers
  <2> HIDE DEF all, L
  <2>3. ASSUME ~L.jumped, NEW id \in L.start \ L.touched
        PROVE  /\ id \in Rows(L.table, L.status)
               /\ id \in Range(page) => Once(all, id)
               /\ id \in rows \ Range(page) => id \notin Range(all)
               /\ id \notin rows => /\ Once(all, id)
                                    /\ \A r \in rows : ~After(Key(L.table, id), Key(L.table, r))
    <3>1. /\ id \in Rows(L.table, L.status)
          /\ \/ id \in rows /\ id \notin Range(L.got)
             \/ /\ Once(L.got, id) /\ id \notin rows
                /\ \A r \in rows : ~After(Key(L.table, id), Key(L.table, r))
      BY <2>3 DEF L
    <3>2. /\ Once(L.got, id) /\ id \notin Range(page) => Once(all, id)
          /\ id \notin Range(L.got) /\ id \in Range(page) => Once(all, id)
          /\ id \notin Range(L.got) /\ id \notin Range(page) => id \notin Range(all)
      BY <1>1, <1>2, OnceConcat DEF all, L
    <3>3. Range(page) \subseteq rows
      BY <1>2
    <3>4. QED
      BY <3>1, <3>2, <3>3
  <2>4. CASE Len(page) = Limit
    <3> DEFINE last == page[Len(page)]
    <3>1. Last(all) = last /\ all # <<>> /\ last \in rows
      BY <1>2, <2>1, <2>4, EmptySeq DEF Last
    <3>2. reader'.phase = "paging" /\ Cursor' = Key(L.table, last)
      <4>1. reader'.phase = "paging"
        BY <2>2, <2>4
      <4>2. QED
        BY <2>2, <3>1, <4>1 DEF Cursor, Key, TaskKey, ProjectKey
    <3>3. ASSUME ~L.jumped, NEW id \in L.start \ L.touched
          PROVE  /\ id \in Rows(L.table, L.status)
                 /\ IF After(Key(L.table, id), Key(L.table, last)) THEN id \notin Range(all) ELSE Once(all, id)
      <4>1. CASE id \in Range(page)
        BY <1>2, <2>3, <2>4, <3>3, <4>1 DEF L
      <4>2. CASE id \in rows \ Range(page)
        BY <1>2, <2>3, <2>4, <3>3, <4>2 DEF L
      <4>3. CASE id \notin rows
        BY <2>3, <3>1, <3>3, <4>3
      <4>4. QED
        BY <4>1, <4>2, <4>3
    <3> HIDE DEF last
    <3>4. ASSUME ~L.jumped PROVE Steady'
      <4>1. \A id : Key(L.table, id)' = Key(L.table, id)
        BY DEF Key, TaskKey, ProjectKey, L
      <4>2. Rows(L.table, L.status)' = Rows(L.table, L.status)
        BY DEF Rows, TaskRows, ProjectRows, Matches, L
      <4>3. \A id \in L.start \ L.touched :
              /\ id \in Rows(L.table, L.status)'
              /\ IF After(Key(L.table, id)', Cursor') THEN id \notin Range(all) ELSE Once(all, id)
        BY <3>2, <3>3, <3>4, <4>1, <4>2
      <4>4. QED
        BY <2>2, <4>3 DEF Steady, After, Once
    <3>5. Last(all) \in Table(L.table)'
      BY <3>1 DEF Table, L
    <3>6. QED
      BY <2>2, <3>1, <3>2, <3>4, <3>5 DEF ReaderTyped, Listed
  <2>5. CASE Len(page) # Limit
    <3>1. reader'.phase = "done"
      BY <2>2, <2>5
    <3>2. ASSUME ~L.jumped, NEW id \in L.start \ L.touched PROVE Once(all, id)
      BY <1>2, <2>3, <2>5, <3>2
    <3>3. QED
      BY <2>2, <3>1, <3>2 DEF ReaderTyped, Listed, Once
  <2>6. QED
    BY <2>4, <2>5
<1>5. QED
  BY <1>3, <1>4 DEF Received

LEMMA FirstPageKeeps ==
  ASSUME TablesTyped, NEW table \in {"tasks", "projects"}, NEW status \in TaskStatuses \cup {"any"},
         FirstPage(table, status)
  PROVE  ReaderTyped' /\ Listed'
<1> DEFINE rows == Rows(table, status)
           listing == [phase |-> "paging", table |-> table, status |-> status, key |-> <<0, 0, 0>>,
                       got |-> <<>>, start |-> rows, touched |-> {}, jumped |-> FALSE]
<1>1. UNCHANGED <<tasks, projects>> /\ \E page \in Pages(table, rows) : reader' = Received(listing, page)
  BY DEF FirstPage
<1>2. rows \in SUBSET Table(table) /\ rows \in SUBSET Ids
  BY RowsIn, KeyIs
<1>3. listing \in Readers
  BY <1>2, EmptySeq DEF Readers
<1>4. \A id \in listing.start \ listing.touched :
        id \in Rows(listing.table, listing.status) /\ id \in rows /\ id \notin Range(listing.got)
  BY DEF Range
<1>5. rows \in SUBSET Table(listing.table)
  BY <1>2
<1>6. PICK page \in Pages(listing.table, rows) : reader' = Received(listing, page)
  BY <1>1
<1> HIDE DEF listing, rows
<1>7. QED
  BY <1>1, <1>3, <1>4, <1>5, <1>6, ReceivedKeeps

LEMMA NextPageKeeps ==
  ASSUME TablesTyped, ReaderTyped, Listed, NextPage
  PROVE  ReaderTyped' /\ Listed'
<1> DEFINE R == reader
           rows == {id \in Rows(R.table, R.status) : After(Key(R.table, id), R.key)}
<1>1. /\ R.phase = "cursor" /\ UNCHANGED <<tasks, projects>>
      /\ \E page \in Pages(R.table, rows) : reader' = Received(reader, page)
  BY DEF NextPage
<1>2. R \in Readers
  BY <1>1 DEF ReaderTyped, NoReader
<1>3. R.table \in {"tasks", "projects"} /\ R.key \in Int \X Int \X Int
  BY <1>2 DEF Readers
<1>4. Rows(R.table, R.status) \subseteq Table(R.table) /\ rows \in SUBSET Table(R.table)
  BY <1>3, RowsIn
<1>5. \A id \in rows : id \in Rows(R.table, R.status) /\ After(Key(R.table, id), R.key)
  OBVIOUS
<1>6. \A id \in Rows(R.table, R.status) : After(Key(R.table, id), R.key) => id \in rows
  OBVIOUS
<1> HIDE DEF rows
<1>7. ASSUME ~R.jumped, NEW id \in R.start \ R.touched
      PROVE  /\ id \in Rows(R.table, R.status)
             /\ \/ id \in rows /\ id \notin Range(R.got)
                \/ /\ Once(R.got, id) /\ id \notin rows
                   /\ \A r \in rows : ~After(Key(R.table, id), Key(R.table, r))
  <2>1. /\ id \in Rows(R.table, R.status)
        /\ IF After(Key(R.table, id), R.key) THEN id \notin Range(R.got) ELSE Once(R.got, id)
    BY <1>1, <1>7 DEF Listed, Steady, Cursor
  <2>2. CASE After(Key(R.table, id), R.key)
    BY <1>6, <2>1, <2>2
  <2>3. CASE ~After(Key(R.table, id), R.key)
    <3>1. id \notin rows /\ Key(R.table, id) \in Int \X Int \X Int
      BY <1>3, <1>4, <1>5, <2>1, <2>3, KeyIs
    <3>2. ASSUME NEW r \in rows PROVE ~After(Key(R.table, id), Key(R.table, r))
      <4>1. After(Key(R.table, r), R.key) /\ Key(R.table, r) \in Int \X Int \X Int
        BY <1>3, <1>4, <1>5, KeyIs
      <4>2. QED
        BY <1>3, <2>3, <3>1, <4>1, AfterOrder
    <3>3. QED
      BY <2>1, <2>3, <3>1, <3>2
  <2>4. QED
    BY <2>2, <2>3
<1>8. PICK page \in Pages(R.table, rows) : reader' = Received(reader, page)
  BY <1>1
<1>9. QED
  BY <1>1, <1>2, <1>4, <1>7, <1>8, ReceivedKeeps

(* The cursor's row is read again and is where it was.                     *)
LEMMA LoadCursorKeeps ==
  ASSUME TablesTyped, ReaderTyped, Listed, LoadCursor
  PROVE  ReaderTyped' /\ Listed'
<1> DEFINE R == reader
           id == Last(R.got)
<1>1. R.phase = "paging" /\ UNCHANGED <<tasks, projects>>
  BY DEF LoadCursor
<1>2. R \in Readers
  BY <1>1 DEF ReaderTyped, NoReader
<1>3. R.table \in {"tasks", "projects"}
  BY <1>2 DEF Readers
<1>4. CASE reader' = [reader EXCEPT !.phase = "error"]
  <2>1. reader' \in Readers /\ reader'.phase = "error"
    BY <1>2, <1>4 DEF Readers
  <2>2. QED
    BY <2>1 DEF ReaderTyped, Listed
<1>5. CASE id \in Table(R.table) /\ reader' = [reader EXCEPT !.phase = "cursor", !.key = Key(R.table, id)]
  <2>1. Key(R.table, id) \in Int \X Int \X Int
    BY <1>3, <1>5, KeyIs
  <2>2. /\ reader' \in Readers /\ reader'.phase = "cursor" /\ reader'.key = Key(R.table, id)
        /\ reader'.table = R.table /\ reader'.status = R.status /\ reader'.got = R.got
        /\ reader'.start = R.start /\ reader'.touched = R.touched /\ reader'.jumped = R.jumped
    BY <1>2, <1>5, <2>1 DEF Readers
  <2>3. Cursor' = Cursor
    BY <1>1, <2>2 DEF Cursor
  <2>4. ASSUME Steady PROVE Steady'
    <3>1. \A x : Key(reader.table, x)' = Key(reader.table, x)
      BY <1>1, <2>2 DEF Key, TaskKey, ProjectKey
    <3>2. Rows(reader.table, reader.status)' = Rows(reader.table, reader.status)
      BY <1>1, <2>2 DEF Rows, TaskRows, ProjectRows, Matches
    <3>3. \A x \in R.start \ R.touched :
            /\ x \in Rows(reader.table, reader.status)'
            /\ IF After(Key(reader.table, x)', Cursor') THEN x \notin Range(R.got) ELSE Once(R.got, x)
      BY <2>3, <2>4, <3>1, <3>2 DEF Steady
    <3>4. QED
      BY <2>2, <3>3 DEF Steady, After, Once
  <2>5. QED
    BY <1>1, <2>2, <2>4 DEF ReaderTyped, Listed
<1>6. LET found == IF R.table = "tasks" THEN Loads(id) /\ Matches(id, R.status) ELSE LoadsProject(id)
      IN  /\ found => id \in Table(R.table)
          /\ reader' = IF found THEN [reader EXCEPT !.phase = "cursor", !.key = Key(R.table, id)]
                       ELSE [reader EXCEPT !.phase = "error"]
  BY DEF LoadCursor, Loads, LoadsProject, Table
<1>7. QED
  BY <1>4, <1>5, <1>6

LEMMA ListingKeeps ==
  ASSUME Typed, ReaderTyped, Listed, [Next]_vars
  PROVE  ReaderTyped' /\ Listed'
<1>1. CASE UNCHANGED <<tasks, projects, reader>>
  BY <1>1 DEF ReaderTyped, Listed, Steady, Cursor, Key, TaskKey, ProjectKey, Rows, TaskRows,
     ProjectRows, Matches, Once, After, Table
<1>2. CASE Listing
  BY <1>2, FirstPageKeeps, NextPageKeeps, LoadCursorKeeps DEF Listing, Typed
<1>3. ASSUME NEW a \in Callers, TaskCall(a) \/ ProjectCall(a) \/ Statement(a)
      PROVE  ReaderTyped' /\ Listed'
  <2>1. PICK S \in SUBSET Ids : Leaves(S) /\ (Touch(S) \/ (S = {} /\ reader' = reader))
    BY <1>3, Writes
  <2>2. CASE Touch(S)
    BY <2>1, <2>2, TouchKeeps DEF Typed
  <2>3. CASE S = {} /\ reader' = reader
    BY <2>1, <2>3, LeftAlone DEF Typed
  <2>4. QED
    BY <2>1, <2>2, <2>3
<1>4. QED
  BY <1>1, <1>2, <1>3 DEF Next, vars

ListInv == Typed /\ ReaderTyped /\ Listed

LEMMA InitList == Init => ListInv
<1>1. SUFFICES ASSUME Init PROVE ListInv
  OBVIOUS
<1>2. TablesTyped
  BY <1>1, BoardAssumption DEF Init, TablesTyped
<1>3. CallsTyped /\ ReaderTyped
  BY <1>1 DEF Init, CallsTyped, ReaderTyped
<1>4. Listed
  BY <1>1 DEF Init, NoReader, Listed
<1>5. QED
  BY <1>2, <1>3, <1>4 DEF ListInv, Typed

LEMMA InductiveList == Spec => []ListInv
<1>1. ListInv /\ [Next]_vars => ListInv'
  BY NextTyped, ListingKeeps DEF ListInv
<1>2. QED
  BY InitList, <1>1, PTL DEF Spec

(* Rows keep the columns' types, whatever entities are written back, and a *)
(* priority that fits its column is stored as it was requested.            *)
THEOREM TypeCorrect == Spec => []TypeOK
<1>1. ListInv => TypeOK
  <2>1. SUFFICES ASSUME ListInv PROVE TypeOK
    OBVIOUS
  <2>2. TablesTyped /\ CallsTyped /\ ReaderTyped
    BY <2>1 DEF ListInv, Typed
  <2>3. \A a \in Callers : Len(call[a].todo) <= 3
    BY <2>2, CallIs
  <2>4. reader.phase \in {"idle", "paging", "cursor", "done", "error"}
    BY <2>2 DEF ReaderTyped, NoReader, Readers
  <2>5. QED
    BY <2>2, <2>3, <2>4 DEF TypeOK, TablesTyped, Ids
<1>2. QED
  BY <1>1, InductiveList, PTL

(* The conditions of the ...After queries, the ORDER BY and the tie-break  *)
(* by id agree: between two pages nothing that stays put slips past the    *)
(* cursor, and nothing comes again behind it.                              *)
THEOREM SteadyRowsComeOnce == Spec => []SteadyRowsListed
<1>1. ListInv => SteadyRowsListed
  <2>1. SUFFICES ASSUME ListInv, reader.phase = "done", ~reader.jumped,
                        NEW id \in reader.start \ reader.touched
                 PROVE  Cardinality({i \in 1..Len(reader.got) : reader.got[i] = id}) = 1
    BY DEF SteadyRowsListed
  <2>2. reader.got \in Seq(Ids) /\ Once(reader.got, id)
    BY <2>1 DEF ListInv, ReaderTyped, NoReader, Readers, Listed
  <2>3. DOMAIN reader.got = 1..Len(reader.got)
    BY <2>2, LenProperties
  <2>4. PICK i \in DOMAIN reader.got :
          reader.got[i] = id /\ \A j \in DOMAIN reader.got : reader.got[j] = id => j = i
    BY <2>2 DEF Once
  <2>5. {j \in 1..Len(reader.got) : reader.got[j] = id} = {i}
    BY <2>3, <2>4
  <2>6. QED
    BY <2>5, FS_Singleton
<1>2. QED
  BY <1>1, InductiveList, PTL
=============================================================================
