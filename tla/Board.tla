------------------------------- MODULE Board -------------------------------
(***************************************************************************)
(* The rows behind the board: projects and their tasks, as the API         *)
(* handlers (internal/api/v1/tasks.go, projects.go) and a dispatch read    *)
(* and write them through the repositories.  A PATCH reads the whole       *)
(* entity, changes what the request names and writes the entity back; a    *)
(* transition reads, validates and writes; a dispatch reads the task, has  *)
(* it transitioned and writes back the entity it had read.  Statements of  *)
(* different calls interleave, and so do those of a client that follows    *)
(* the cursors of a listing.  Rows of a table are keyed by id; of a uuid   *)
(* only the order matters, so ids are numbers.                             *)
(***************************************************************************)
EXTENDS Integers, Sequences, FiniteSets, SequencesExt, Lifecycle

CONSTANTS
  TaskIds, ProjectIds,        \* disjoint sets of numbers
  Names,                      \* project names
  Callers,                    \* goroutines that serve requests
  Priorities,                 \* priorities the requests carry
  MaxInt,                     \* the largest value of an INT column
  Limit,                      \* page size of the client that lists
  FirstProjects, FirstTasks,  \* the rows to begin with
  MaxCalls, MaxClock          \* bounds: calls in a behaviour, values of now()

(* The columns.  Priorities that were requested within the column's width  *)
(* are stored as they are.                                                 *)
Stored == IF Priorities \subseteq 0..MaxInt THEN 0..MaxInt ELSE -MaxInt-1..MaxInt
Task == [project : ProjectIds, priority : Stored, status : TaskStatuses,
         link : Callers \cup {"none"}, born : 0..MaxClock]
Project == [name : Names, born : 0..MaxClock]

ASSUME BoardAssumption ==
  /\ TaskIds \subseteq Nat /\ ProjectIds \subseteq Nat /\ Priorities \subseteq Nat
  /\ TaskIds \cap ProjectIds = {}
  /\ DOMAIN FirstTasks \subseteq TaskIds /\ DOMAIN FirstProjects \subseteq ProjectIds
  /\ \A id \in DOMAIN FirstTasks :
       FirstTasks[id] \in Task /\ FirstTasks[id].project \in DOMAIN FirstProjects
  /\ \A id \in DOMAIN FirstProjects : FirstProjects[id] \in Project
  /\ MaxInt \in Nat /\ Limit \in Nat \ {0} /\ MaxCalls \in Nat /\ MaxClock \in Nat \ {0}

VARIABLES
  projects,  \* id -> [name, born]
  tasks,     \* id -> [project, priority, status, link, born]
  gone,      \* ids of deleted rows
  call,      \* per caller, what is left to do of its call and what it read
  calls,     \* calls begun so far
  reader     \* the client that follows the cursors of a listing

vars == <<projects, tasks, gone, call, calls, reader>>

NoCall == [todo |-> <<>>]
NoReader == [phase |-> "idle"]

Init ==
  /\ projects = FirstProjects /\ tasks = FirstTasks /\ gone = {}
  /\ call = [a \in Callers |-> NoCall] /\ calls = 0
  /\ reader = NoReader

(* The Go int of a priority becomes the int32 of the column.               *)
Int31(n) == IF n >= MaxInt THEN n - 2 * MaxInt ELSE n  \* mutant: a bit too narrow
Int32(n) == IF n > MaxInt THEN ((n + MaxInt + 1) % (2 * (MaxInt + 1))) - (MaxInt + 1) ELSE n

(* Entities are validated before they are written and after they are read. *)
Valid(row) == row.priority >= 0

(* A row that the repository finds and can map.                            *)
Loads(id) == id \in DOMAIN tasks /\ Valid(tasks[id])
LoadsProject(id) == id \in DOMAIN projects

With(f, k, v) == [x \in DOMAIN f \cup {k} |-> IF x = k THEN v ELSE f[x]]
Without(f, S) == [x \in DOMAIN f \ S |-> f[x]]

-----------------------------------------------------------------------------
(* Listings.  Tasks come by priority, then newest first, projects newest   *)
(* first, ids break the ties.  A listing may be of one status only.        *)

TaskKey(id) == <<tasks[id].priority, - tasks[id].born, - id>>
ProjectKey(id) == <<0, - projects[id].born, - id>>
Key(table, id) == IF table = "tasks" THEN TaskKey(id) ELSE ProjectKey(id)

(* Mutant: ties are not broken by id.                                      *)
AfterTies(key, cursor) ==
  key[1] > cursor[1] \/ (key[1] = cursor[1] /\ key[2] > cursor[2])

(* The condition of the ...After queries on a row and the cursor.          *)
After(key, cursor) ==
  \/ key[1] > cursor[1]
  \/ key[1] = cursor[1] /\ key[2] > cursor[2]
  \/ key[1] = cursor[1] /\ key[2] = cursor[2] /\ key[3] > cursor[3]

Matches(id, status) == status = "any" \/ tasks[id].status = status
TaskRows(status) == {id \in DOMAIN tasks : Matches(id, status)}
ProjectRows == DOMAIN projects
Rows(table, status) == IF table = "tasks" THEN TaskRows(status) ELSE ProjectRows

(* LIMIT rows of ids in the order of the listing: none comes after one     *)
(* that is below it or left out.                                           *)
Pages(table, ids) ==
  {page \in UNION {[1..n -> ids] : n \in 0..Limit} :
     /\ IsInjective(page)
     /\ \A i, j \in DOMAIN page : i < j => ~After(Key(table, page[i]), Key(table, page[j]))
     /\ \A id \in ids \ Range(page) :
          Len(page) = Limit /\ \A i \in DOMAIN page : ~After(Key(table, page[i]), Key(table, id))}

(* What a write means to a listing under way (history): the row is no      *)
(* longer where or what it was when the listing began.                     *)
Touch(ids) ==
  reader' = IF reader.phase \in {"paging", "cursor"}
            THEN [reader EXCEPT !.touched = @ \cup ids,
                                !.jumped = @ \/ (reader.phase = "paging" /\ Last(reader.got) \in ids)]
            ELSE reader

(* A page arrives; a full one comes with a cursor to the next.             *)
Received(listing, page) ==
  IF \E i \in 1..Len(page) : listing.table = "tasks" /\ ~Valid(tasks[page[i]])
  THEN [listing EXCEPT !.phase = "error"]
  ELSE [listing EXCEPT !.got = @ \o page,
                       !.phase = IF Len(page) = Limit THEN "paging" ELSE "done"]

FirstPage(table, status) ==
  /\ reader.phase = "idle"
  /\ LET rows == Rows(table, status)
         listing == [phase |-> "paging", table |-> table, status |-> status, key |-> <<0, 0, 0>>,
                     got |-> <<>>, start |-> rows, touched |-> {}, jumped |-> FALSE]
     IN  \E page \in Pages(table, rows) : reader' = Received(listing, page)
  /\ UNCHANGED <<projects, tasks, gone, call, calls>>

(* The cursor is the id of a row, which is read again to learn its place.  *)
LoadCursor ==
  /\ reader.phase = "paging"
  /\ LET id == Last(reader.got)
         found == IF reader.table = "tasks" THEN Loads(id) /\ Matches(id, reader.status)
                  ELSE LoadsProject(id)
     IN  reader' = IF found THEN [reader EXCEPT !.phase = "cursor", !.key = Key(reader.table, id)]
                   ELSE [reader EXCEPT !.phase = "error"]
  /\ UNCHANGED <<projects, tasks, gone, call, calls>>

NextPage ==
  /\ reader.phase = "cursor"
  /\ LET rows == {id \in Rows(reader.table, reader.status) : After(Key(reader.table, id), reader.key)}
     IN  \E page \in Pages(reader.table, rows) : reader' = Received(reader, page)
  /\ UNCHANGED <<projects, tasks, gone, call, calls>>

-----------------------------------------------------------------------------
(* Calls.  The first statement of a call is part of the action that begins *)
(* it; a call whose first statement refuses it changes nothing.            *)

Idle(a) == call[a] = NoCall /\ calls < MaxCalls
Take(a, new) == Idle(a) /\ calls' = calls + 1 /\ call' = [call EXCEPT ![a] = new]
Doing(a, step) == call[a].todo # <<>> /\ Head(call[a].todo) = step
Done(a) == call' = [call EXCEPT ![a] = NoCall]
Proceed(a) == IF Len(call[a].todo) = 1 THEN Done(a)
              ELSE call' = [call EXCEPT ![a].todo = Tail(@)]

CreateTask(a) ==
  \E id \in TaskIds \ (DOMAIN tasks \cup gone), p \in DOMAIN projects, s \in TaskStatuses,
     n \in Priorities, now \in 0..MaxClock :
    /\ Take(a, NoCall)
    /\ tasks' = With(tasks, id, [project |-> p, priority |-> Int32(n), status |-> s,
                                 link |-> "none", born |-> now])
    /\ Touch({id})
    /\ UNCHANGED <<projects, gone>>

DeleteTask(a, id) ==
  /\ id \in DOMAIN tasks
  /\ Take(a, NoCall)
  /\ tasks' = Without(tasks, {id}) /\ gone' = gone \cup {id}
  /\ Touch({id})
  /\ UNCHANGED projects

(* PATCH of a task; the priority stands for what the request may name.     *)
EditTask(a, id) ==
  \E n \in Priorities :
    /\ Loads(id)
    /\ Take(a, [todo |-> <<"save">>, id |-> id, to |-> "none", link |-> "none",
                row |-> [tasks[id] EXCEPT !.priority = n]])
    /\ UNCHANGED <<projects, tasks, gone, reader>>

MoveTask(a, id) ==
  \E to \in TaskStatuses :
    /\ Loads(id) /\ CanTransition(TaskEdges, tasks[id].status, to)
    /\ Take(a, [todo |-> <<"move">>, id |-> id, to |-> to, link |-> tasks[id].link, row |-> tasks[id]])
    /\ UNCHANGED <<projects, tasks, gone, reader>>

(* Steps 1, 4 and 5 of a dispatch; the caller stands for its session.      *)
DispatchTask(a, id) ==
  /\ Loads(id) /\ tasks[id].status = "backlog"
  /\ Take(a, [todo |-> <<"validate", "move", "save">>, id |-> id, to |-> "in_progress",
              link |-> "none", row |-> [tasks[id] EXCEPT !.link = a]])
  /\ UNCHANGED <<projects, tasks, gone, reader>>

Validate(a) ==
  /\ Doing(a, "validate")
  /\ LET c == call[a] IN
     IF Loads(c.id) /\ CanTransition(TaskEdges, tasks[c.id].status, c.to)
     THEN call' = [call EXCEPT ![a].todo = Tail(@), ![a].link = tasks[c.id].link]
     ELSE Done(a)
  /\ UNCHANGED <<projects, tasks, gone, calls, reader>>

(* UPDATE tasks SET status, agent_session_id: the link that was read.      *)
TransitionTask(a) ==
  /\ Doing(a, "move")
  /\ LET c == call[a] IN
     IF c.id \in DOMAIN tasks
     THEN /\ tasks' = [tasks EXCEPT ![c.id].status = c.to, ![c.id].link = c.link]
          /\ Touch({c.id}) /\ Proceed(a)
     ELSE Done(a) /\ UNCHANGED <<tasks, reader>>
  /\ UNCHANGED <<projects, gone, calls>>

(* UPDATE tasks SET title, description, priority, assigned_to, adr_id: the *)
(* entity's status and session are not among the columns.                  *)
WrittenWhole(id, row) ==  \* mutant: the status is
  [tasks EXCEPT ![id].priority = Int32(row.priority), ![id].status = row.status]
Written(id, row) == [tasks EXCEPT ![id].priority = Int32(row.priority)]
UpsertTask(a) ==  \* mutant: the statement inserts a row that is missing
  /\ Doing(a, "save")
  /\ tasks' = With(tasks, call[a].id, call[a].row)
  /\ Touch({call[a].id}) /\ Done(a)
  /\ UNCHANGED <<projects, gone, calls>>
UpdateTask(a) ==
  /\ Doing(a, "save")
  /\ LET c == call[a] IN
     IF c.id \in DOMAIN tasks
     THEN tasks' = Written(c.id, c.row) /\ Touch({c.id})
     ELSE UNCHANGED <<tasks, reader>>
  /\ Done(a)
  /\ UNCHANGED <<projects, gone, calls>>

(* The statements on the table of projects, whose names are unique and     *)
(* whose foreign key deletes the tasks with their project.                 *)
Named(name) == {p \in DOMAIN projects : projects[p].name = name}
TasksOf(p) == {id \in DOMAIN tasks : tasks[id].project = p}

InsertProject(id, name, now) ==
  Named(name) = {} /\ projects' = With(projects, id, [name |-> name, born |-> now])
RenameProject(id, name) ==
  projects' = IF id \in DOMAIN projects /\ Named(name) \subseteq {id}
              THEN [projects EXCEPT ![id].name = name] ELSE projects
RemoveProject(id) ==
  projects' = Without(projects, {id}) /\ tasks' = Without(tasks, TasksOf(id))

CreateProject(a) ==
  \E id \in ProjectIds \ (DOMAIN projects \cup gone), name \in Names, now \in 0..MaxClock :
    /\ Take(a, NoCall)
    /\ InsertProject(id, name, now)
    /\ Touch({id})
    /\ UNCHANGED <<tasks, gone>>

(* PATCH of a project; the new name may be taken by the time it is written.*)
EditProject(a, id) ==
  \E name \in Names :
    /\ LoadsProject(id)
    /\ Take(a, [todo |-> <<"rename">>, id |-> id, to |-> name])
    /\ UNCHANGED <<projects, tasks, gone, reader>>

UpdateProject(a) ==
  /\ Doing(a, "rename")
  /\ RenameProject(call[a].id, call[a].to)
  /\ Done(a)
  /\ UNCHANGED <<tasks, gone, calls, reader>>

DeleteProject(a, id) ==
  /\ id \in DOMAIN projects
  /\ Take(a, NoCall)
  /\ RemoveProject(id)
  /\ gone' = gone \cup {id} \cup TasksOf(id)
  /\ Touch({id} \cup TasksOf(id))

TaskCall(a) ==
  \/ CreateTask(a)
  \/ \E id \in TaskIds : DeleteTask(a, id) \/ EditTask(a, id) \/ MoveTask(a, id) \/ DispatchTask(a, id)
ProjectCall(a) ==
  \/ CreateProject(a)
  \/ \E id \in ProjectIds : EditProject(a, id) \/ DeleteProject(a, id)
Statement(a) == Validate(a) \/ TransitionTask(a) \/ UpdateTask(a) \/ UpdateProject(a)
Listing ==
  \/ \E table \in {"tasks", "projects"}, status \in TaskStatuses \cup {"any"} :
       (table = "projects" => status = "any") /\ FirstPage(table, status)
  \/ LoadCursor \/ NextPage

Next == Listing \/ \E a \in Callers : TaskCall(a) \/ ProjectCall(a) \/ Statement(a)

Spec == Init /\ [][Next]_vars

-----------------------------------------------------------------------------
(* Every row has a valid shape, with a priority no conversion altered if   *)
(* those requested fit the column.                                         *)
TypeOK ==
  /\ DOMAIN tasks \subseteq TaskIds /\ \A id \in DOMAIN tasks : tasks[id] \in Task
  /\ DOMAIN projects \subseteq ProjectIds
  /\ \A id \in DOMAIN projects : projects[id] \in Project
  /\ gone \subseteq TaskIds \cup ProjectIds
  /\ calls \in 0..MaxCalls
  /\ \A a \in Callers : Len(call[a].todo) <= 3
  /\ reader.phase \in {"idle", "paging", "cursor", "done", "error"}

(* Cursor pagination: a client that reached the last page saw every row of *)
(* the listing exactly once, if the row was neither written nor deleted    *)
(* meanwhile and no row moved while it was the cursor -- whatever else was *)
(* created, moved or deleted between the pages.                            *)
SteadyRowsListed ==
  reader.phase = "done" /\ ~reader.jumped =>
    \A id \in reader.start \ reader.touched :
      Cardinality({i \in 1..Len(reader.got) : reader.got[i] = id}) = 1

(* A stale write never brings a deleted row back, and no task outlives its *)
(* project, although the entity was read before the DELETE.                *)
GoneForGood ==
  /\ gone \cap (DOMAIN tasks \cup DOMAIN projects) = {}
  /\ \A id \in DOMAIN tasks : tasks[id].project \in DOMAIN projects

(* Writing back a whole entity, by a PATCH or by step 5 of a dispatch,     *)
(* takes no status with it: only who validated a move changes a column.    *)
EditsKeepStatus ==
  [][\A id \in DOMAIN tasks \cap DOMAIN tasks' :
       tasks'[id].status # tasks[id].status =>
         \E a \in Callers : /\ Doing(a, "move") /\ call[a].id = id
                            /\ call[a].to = tasks'[id].status]_vars
=============================================================================
