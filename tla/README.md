# SteerLane: verification project

SteerLane is a Go server that lets a team put coding agents to work from a
kanban board.  A user dispatches a task; the orchestrator creates an agent
session, prepares a workspace and starts an agent backend; the agent may ask a
human a question and wait for the answer; the session ends by completion,
failure (perhaps with retries), cancellation, stall or a question's timeout.
PostgreSQL holds the rows, Redis carries events and rate-limit counters, chat
messengers carry questions and notifications.

This directory holds TLA+ modules translated from that code, TLC
configurations that check them on small instances, and TLAPS proofs of the
most important properties for instances of every size.  `PROJECT.json` is the
index: which lines of the source each definition stands for, what each run and
each theorem is about, and the hazards of the code with the properties that
cover them.

## Inventory

| component | state | operations | what is hard | what makes it correct |
|---|---|---|---|---|
| life cycles (`internal/domain/{task,agent,hitl,adr}`) | tables of allowed moves | `CanTransitionTo`, `Transition` | moves that compensation needs and the table does not have | a status moves along its edges only |
| status repositories (`store/postgres/{task,agent,adr}_repo.go`) | `tasks.status`, `agent_sessions.status`, `adrs.status` | read, validate, unconditional `UPDATE` | the three are not atomic | the row follows its life cycle; a terminal row stays |
| orchestrator (`internal/orchestrator`) | the `sessions` map, one backend per session; task, session and question rows | dispatch, cancel, complete, stall sweep, retry sweep, answer, shutdown | every step may fail; handlers of one session interleave; crash loses the map | no orphan backend, no stuck task, bounded retries |
| HITL router and repository (`internal/hitlrouter`, `hitl_repo.go`) | `hitl_questions` | ask, answer, reset, cancel, escalate, time out | concurrent answers, a failed delivery reopens, cancellation races | an answer arrives once and stays |
| HITL timeouts (`cmd/steerlane/main.go`, `internal/notify`) | `timeout_at`, notification claim | two-tier sweep, claim/send/mark, retry | several replicas, a crash between claim and mark | every timed-out question ends its session and is announced |
| messengers (`internal/messenger/{slack,discord,telegram}`) | registry of session contexts (memory), `messenger_thread_id` | mention, reply, button, thread creation | redelivered and late webhooks, the agent asks before the dispatch is acknowledged | a reply answers the question it was written under, once |
| event stream (`internal/api/ws`, `store/redis/pubsub.go`, `agent_event_repo.go`) | clients and one Redis subscription per topic, `agent_session_events` | publish, subscribe, unsubscribe, fan-out, replay | last leaver against new joiner, slow client, broken connection | what is seen live is stored, nothing twice, nobody is held up |
| ADR engine (`internal/adrengine`, `adr_repo.go`) | `adrs`, per-project sequence | create by tool call and by extraction, list | concurrent creators, snapshots, lost commits | an append-only, gapless timeline |
| board storage (`task_repo.go`, `project_repo.go`, `api/v1/{tasks,projects}.go`) | `projects`, `tasks` | create, edit, move, delete, page through | whole entities written back after a stale read, cascades, cursors | no stale write revives a row or carries a status; no row is missed |
| rate limit (`server/middleware/ratelimit.go`) | Redis counter per key and minute | `INCR`, `EXPIREAT` | the minute passes between the two, Redis fails | at most N per window, counters expire |
| authentication, users, links (`internal/auth`, `server/{auth_sessions,messenger_links}.go`, `api/v1/users.go`) | `users`, `user_messenger_links`, stateless tokens | register, login, refresh, edit, delete, link | two requests check, then both write | what a user was told holds |
| bootstrap (`internal/bootstrap`) | default tenant and its admin | first-run setup | replicas that start together | who serves has an admin |
| agent backends (`internal/agent/*`) | started / active / disposed | start, prompt, cancel, dispose | cancel racing prompt | a cancelled agent accepts nothing |
| reconciler, Docker runtime, git, volumes | containers, work trees | list, stop, remove, commands | — | not modelled |
| notifier, audit, HTTP plumbing, configuration, observability, dashboard | external or none | I/O, rendering and mapping | — | not modelled |

Components interact by calls (API and messenger handlers call the orchestrator
and the HITL router), by callbacks (a backend's output calls the message
handler, which calls the router, the ADR engine and `publishEvent`), by shared
rows, by the `sessions` map under one mutex, by Redis channels, and by four
background loops: stall detector, retry scheduler, reconciler, HITL timeout
sweep.

## Modules

| module | models |
|---|---|
| `Lifecycle` | the transition tables of tasks, sessions and decisions, as sets of edges |
| `StatusMachine` | abstract: a row moves along its edges, one atomic move at a time |
| `StatusStore` | the repositories' read-validate-write, for any number of goroutines; refines `StatusMachine` |
| `QuestionLife` | abstract: a question is open until it is answered, closed or has timed out; its answer is given once, taken back or let go of |
| `Orchestrator` | orchestrator, HITL router, the API handlers in front of them, crash and restart |
| `HitlTimeouts` | the minute-by-minute sweep of HITL timeouts by several replicas, and the announcement of timeouts |
| `Chat` | conversations on three platforms: mentions that dispatch, questions posted in threads, replies and presses that answer |
| `EventStream` | publishing a session's events, the WebSocket hub on top of Redis, the replay |
| `AdrTimeline` | abstract: an append-only sequence of decisions per project |
| `AdrStore` | both paths that record decisions, the numbering transaction, the listing; refines `AdrTimeline` |
| `Board` | projects and tasks, statement by statement, and the listings with cursors |
| `RateLimit` | the counting middleware |
| `Accounts` | bootstrap, registration, login, users and links, behind `RateLimit` |
| `MC...` | values of the constants for TLC |
| `...Proofs` | the theorems about the module of that name |

How they compose.  `Lifecycle` is extended by all that move a status:
`Orchestrator`, `HitlTimeouts` and `Board` move sessions and tasks along the
same edges that `StatusStore` validates against.  `Orchestrator` has the two
statements of each repository call as actions of their own, in the shape that
`StatusStore` studies alone.  `HitlTimeouts` and `Chat` are views of the
question rows beside that of `Orchestrator`: the first adds time and replicas,
the second threads, webhooks and the registry of contexts.  Like
`Orchestrator`, `HitlTimeouts` reads and writes a session's status in two
steps; `Chat` has sessions in coarser ones.  What the three have in common is
`QuestionLife`, and each is shown to implement it (`ImplementsLife`).  `Board`
is the view of the task rows in which everything but the status matters too.
`Accounts` extends `RateLimit`: a request is counted by the middleware's steps
before any of its handler's, and handlers end it by `Finish`.

### StatusStore

`status` is the status column of one table, `call[w]` the repository call that
goroutine `w` executes.  `Begin` is the call, `ReadAndValidate` is `GetByID`
and the entity's `Transition`, `WriteStatus` is the `UPDATE ... WHERE id = $1`,
`Fail` is an error of either statement.  The same shape serves
`taskRepository.Transition`, `agentRepository.UpdateStatus` and
`adrRepository.UpdateStatus`; rows of the three tables live side by side, each
with the statuses of its Go type and the goroutines that ever call for it
(`Callers`).  `ImplementsMachine` is about the rows with one caller, which is
as much as the code promises (see Findings for two).

### QuestionLife

`status` and `asker` are the question rows as the WHERE clauses of their
statements leave them, `inHand` the questions whose recorded answer somebody is
about to give to the agent or to take back, `given` those whose answer an agent
got.  That a question is not answered while an earlier answer is in hand or was
given is no condition of any statement; it is what the three views have to
show.  `LetGo` is what the code does not promise: an answer on record whose
agent is gone, or whose handler failed or was killed.  In the three views an
answer is in hand from the UPDATE that records it to the call that delivers it
or reopens the question (`Held`), and not at all when that UPDATE reported an
error, so that nobody goes on with it; in `HitlTimeouts` delivery is no state
and `given` is empty.

### Orchestrator

Rows are `taskStatus`, `status`/`taskOf`/`retries`/`retryDue` (sessions) and
`question`/`asker`; memory is `tracked` (the keys of `Orchestrator.sessions`)
and `backend`.  `local[p]` is what goroutine `p` is doing: the handler
(`kind`), the call it makes next (`at`) and its local variables.  A handler is
a chain of calls, one action per call, in the order of the code:

    dispatch   load -> create -> taskRead -> taskWrite -> prepare
               -> sessionRead -> sessionWrite -> start -> register
    cancel     stop -> sessionRead -> sessionWrite -> taskRead -> taskWrite
               -> cancelQuestions -> dispose
    complete   sessionRead -> sessionWrite [-> schedule] -> taskRead -> taskWrite
               -> cancelQuestions -> dispose
    stall      as cancel, with "failed" and every error ignored
    ask        open -> sessionRead -> sessionWrite     (error: drop)
    answer     record -> resume -> sessionRead -> sessionWrite -> prompt
               (error: rollback -> reopen)
    retry      claimRetry -> dispatch                  (error: reschedule)

`AfterSession`, `SessionRefused`, `AfterTask`, `TaskRefused`, ... are that
control flow: what a handler does when a shared call returns and when it fails.
`CallsMayFail` lets any database call, `Cancel` and `SendPrompt` fail; a
database write that fails may have taken effect, with only its reply lost (a
deadline, a broken connection).  Preparation and `StartSession` may always
fail.  `stranded` is history: the tasks that the code may leave in progress
with nobody at work, because the call that moves the task failed, a user
dragged it there or the process was killed; a later claim or move clears it.  A
look-up in the sessions map and the read of the row that directly follows it
are one step, as are `Dispose` and the deletion from the map: nothing happens
in between that another goroutine could tell from the same two steps at one
moment.

Abstracted: time (a retry is due or not, any tracked session may be found
stalled), prompts and answers, tenants and projects, metadata, events and
notifications (best effort, they change no row), the messenger thread store.

`StoreKeepsID` chooses the session repository: `TRUE` is one that stores the
id it is given, as the orchestrator and its tests assume, `FALSE` is
`agentRepository.Create` as it is (see Findings).

### HitlTimeouts

Every replica runs `runHITLTimeoutSweepLoop` (`cmd/steerlane/main.go:409`).
Shared rows: `question` (status), `expired` (`timeout_at` has passed), `claim`
and `notified` (`timeout_notification_claimed_at`, `timeout_notified_at`) and
`session` (its status).  Per replica, `sweep[r]` is where its sweep is: the
phase, the listed rows still to be worked on (`todo`), those to be announced
(`notify`), and the session and question at hand.

    tier1     List -> EscalateQuestion*
    tier2     List -> MarkEscalatedTimedOut* -> CancelSession -> CancelWrite
              -> CancelPendingHITL
              -> (ClaimTimeoutNotification -> NotifyQuestionTimedOut
                  -> MarkTimeoutNotificationSent | ClearTimeoutNotificationClaim)*
    renotify  List -> (claim ...)*
    finalise  List -> (CancelSession -> CancelWrite -> CancelPendingHITL
                       -> (claim ...)*)*

The calls beside it are chains as well, per question (`ask`, `answer`) and per
session (`ending`):

    ask       AskHuman -> AskRead -> AskWrite            (error: DropQuestion)
    answer    AnswerQuestion -> RecordAnswer -> ResumeRead -> ResumeWrite
              (error: RollbackWrite -> ResetAnswer)
    end       EndSession -> EndWrite -> EndClose

All four move the session by `agentRepository.UpdateStatus`, which reads and
validates the row (`agent_repo.go:170`) and then writes it without a guard
(line 180): `Write` is that UPDATE, and it may find another status by then,
also "cancelled" or "completed".  `ended` is history: the sessions whose end
was written at some time.  That is all an announcement can rely on.  Nor does
an ended row mean a stopped agent: on a replica that does not track the session
`CancelSession` changes rows only (`orchestrator.go:473`), and the agent works
on where it is.

Each action whose name is a call takes `ok`: with `FALSE` the call fails and
the sweep does what the code does then (log and go on; after a failed
cancellation nothing is announced).  An UPDATE that fails may have taken
effect.  `Proceed` is that control flow.  A killed replica (`Crash`) starts
again with an empty sweep; what it had claimed stays claimed until `Lapse`, the
five minutes of `timeoutNotificationClaimTTL`.  `Lapse` cannot happen under a
call that ends within 15 seconds, but it can happen under the announcement
itself, whose e-mail fallback ignores the deadline of its context
(`notify/email.go:58`); the question is then in `stalled` for good.

`StoredStatuses` is what the CHECK on `hitl_questions.status` admits.  The
migrations leave out "escalated" (`migrations/000005_agent_runtime.up.sql:52`),
so that with them every escalation fails and nothing after tier1 ever happens:
that is the run `HitlTimeoutsSilence`.  The other two runs take a schema that
admits it, since only there have the later phases anything to do; with that
schema `SilenceEndsSession` holds on the instance of `HitlTimeoutsLiveness`
(with "cancelled" as the only ending, 7,659 states).

Abstracted: the limit of 50 rows per listing, recipients and texts, the
notification of an escalation (best effort, no row depends on it), clock skew
between database and replicas.  Two guards of `Expire` are about time: the call
that asks does not last for the 30 minutes of the question it creates
(`hitlrouter/router.go:33`), and an answering call that was admitted while the
question was pending does not outlast the extended timeout.

### Chat

`posted` are the messages people wrote, which a platform delivers any number of
times, in any order and to two handlers at once, since the handlers send their
200 only when they return.  `delivery[g]` is the webhook call goroutine `g`
serves: a mention runs `CreateTask -> StartSession -> SlackAcknowledges |
BotAcknowledges`, a reply `LookUp -> Load -> Record -> SendPrompt | Unavailable
| SendFails (-> ResetQuestion)`, a press the same from `ParseAction`.
`contexts` is the in-memory `SessionContextRegistry`; `asking[s]` the ask_human
call of an agent (`HandleAskHuman -> WaitForHuman -> CreateThread ->
UpdateMessengerThread`).  The platforms differ where the code does: Slack
registers a session's context before the backend starts and again after,
Discord and Telegram only when the acknowledgement was sent, under the id of
the acknowledging message; Discord answers by buttons only; only Slack reopens
a question it could not read back.  `Restart` empties registry and map.

A write that took effect may report an error, since the connection or the
request's context can end before its reply: Slack hangs up after 3 seconds and
`handler.go:188` hands `r.Context()` down to the UPDATE that records an answer.
Then `Record` ends the webhook call, as `slack/hitl.go:209` does, with the
answer on record, nobody to give it and no reset; `unheard` is history of such
questions.  `HandleAskHuman` and `WaitForHuman` have the same outcome: a
question or a waiting session that its call does not know of.

Abstracted: rendering, signatures, the linking of identities (a delivery may be
refused), direct messages, tenants.  `None` stands for a missing thread,
session or question and is none of them.

### EventStream

`publishEvent` is `Date` (the event gets `created_at`), `Store` (appended to
`agent_session_events`; an error ends it), `Publish` (best effort).  The router
of questions has the Redis client itself (`cmd/steerlane/main.go:125`) and
announces "waiting_hitl" through it with nothing appended
(`hitlrouter/router.go:160`): `PublishUnstored`, for the events of a script
that are in `Unstored`.  `publishEvent` without a table (`Events == nil`) does
not occur: both of its users are given one (`main.go:150`, `main.go:213`).
`subs` are all Redis subscriptions the hub ever opened, each with its queue:
closing one leaves what it had received to be fanned out.  `Subscribe` and
`Unsubscribe` are the hub's operations under its mutex, `Fanout(s)` copies the
next event of subscription `s` into the buffers of whoever is registered for
the topic at that moment and drops it where the buffer is full, `Write` is a
client's write loop.  `RedisBreaks` and `RedisSubscribes` are the client
library's reconnect: what is published in between is lost to live viewers.
`FirstPage`/`NextPage` are the replay endpoint, ordered by `created_at`
(`DateOf`, the place of the event in `dated`), which is why dating and storing
are separate steps.  Every event of a script has an id of its own, as the rows
of `agent_session_events` have.

### AdrStore

A creator is a session together with one of its two paths: "tool" for
`HandleCreateADR` in the goroutine that reads the agent's output (`CallTool`),
"scan" for `ExtractFromSession`, which ranges over the metadata map in any
order and over the markers of each text in turn (`Complete`, `NextText`,
`NextMarker`).  Each create is `CreateWithNextSequence`: `AskLock` (the
snapshot a serializable transaction reads from is taken here), `GetLock`,
`InsertNext` (refused by `uq_adrs_project_sequence` when the snapshot was
old), `Commit`, whose reply may be lost.  `Fail` is an error of any statement,
`Rollback` the deferred one of `withinTx`.  `FirstPage`/`NextPage` are a client
that follows the cursors of a project's listing.

### Board

`projects` and `tasks` are the rows, `call[a]` what caller `a` still has to do
and the entity it read.  A PATCH is `EditTask` (read, change) and `UpdateTask`
(write the columns of the statement); a move is `MoveTask` and
`TransitionTask`; a dispatch is `DispatchTask -> Validate -> TransitionTask ->
UpdateTask`, with the entity of its first step in its last.  Deleting a project
cascades.  `reader` follows the cursors of a listing: `FirstPage`, then
`LoadCursor` (the row of the cursor is read again) and `NextPage` (rows after
its key).  `touched` and `jumped` record, for the property, which rows were
written meanwhile and whether the cursor itself moved.  `Int32` is the
conversion of a Go `int` to the column's width, with `MaxInt` for 2^31-1.

### RateLimit and Accounts

A request is counted in the minute it arrives in (`Arrive`), by `Increment`
(INCR) and `ExpireAt` (EXPIREAT, which deletes a counter whose minute is over);
`Tick` is the minute passing, `FailOpen` a failing call, after which the
request passes.  In `Accounts`, `Bootstrap(r)` is `bootstrap.Run` of a replica,
a statement at a time; the handlers check first (`Register`, `EditUser`,
`CompleteLink`) and write after (`CreateUser`, `SaveUser`, `CreateLink`), and
the unique constraints and foreign keys decide.  Tokens carry claims and are
stored nowhere: `tokens` is what some client may present, until `Expire`.
`Restart` kills a replica's requests and boots it again.  `told` is history:
what handlers have reported as done.

Abstracted: password hashing and token signatures (an invalid one is a request
without a token), tenants other than the default, API keys, OAuth, the parsing
of forwarded addresses (one address).

## Runs

| run | instance | checks |
|---|---|---|
| `StatusStore` | a task with two callers, a session with two, a decision with one; three goroutines | `SettledRowsStay`, `ImplementsMachine` |
| `OrchestratorOwnership` | 1 task, 3 sessions, 1 request, both loops, failing calls, moves by hand to in progress, 1 retry, 1 crash (4.6 million states) | `NoOrphanBackend`, `InProgressIsOwned`, `RetryBudget` |
| `OrchestratorAnswers` | 1 session, 1 question, 2 requests, stall detector, failing calls, fairness | `AnswerOnce`, `AnsweredForGood`, `StoppedIsCollected`, `ImplementsLife` |
| `OrchestratorGeneratedId` | 1 task, 2 sessions, 1 request, the repository as it is | finding: `DispatchedHasRow` |
| `HitlTimeoutsSafety` | 2 questions of 1 session, 2 replicas (both interchangeable), sessions cancelled by other calls, failing calls, stalling sends, 1 crash (2.2 million states) | `CancelsForATimeout`, `AnnouncedAfterTheEnd`, `OneNotifier`, `ExtensionIsGranted`, `ImplementsLife` |
| `HitlTimeoutsLiveness` | 1 question, 1 replica, every kind of ending, failing calls, stalling sends, 2 crashes, fairness | `TimeoutEndsSession`, `TimeoutIsAnnounced` |
| `HitlTimeoutsSilence` | 1 question, 1 replica, the CHECK of the migrations, no other ending, fairness | finding: `SilenceEndsSession` |
| `EventStream` | 2 publishers, one with 2 events and a router's announcement between them, one with 1; 2 clients, or a replay; buffers of 1, pages of 1, 3 subscriptions, 1 broken connection | `LiveIsStored`, `OneSubscriptionPerTopic`, `NoDuplicates`, `PublisherOrder`, `ReplayIsComplete`, `SlowClientsHarmNoOther` |
| `Chat` | a thread on each platform, 2 sessions, 2 questions, 2 handlers, 2 posts, 4 deliveries, 1 restart | `AskedInThread`, `AmbiguousIgnored`, `AnswersStand`, `AnswerNotLost`, `ImplementsLife` |
| `AdrStore` | 2 sessions of 1 project, a tool call each, two texts of markers, one decision on both paths, pages of 2 | `Gapless`, `ToldIsRecorded`, `ListingIsComplete`, `ImplementsTimeline`, `CallsReturn` |
| `Board` | 2 projects of 3, 2 tasks of 3, 2 callers, 3 calls, pages of 1 | `SteadyRowsListed`, `GoneForGood`, `EditsKeepStatus` |
| `Accounts` | 2 replicas with a goroutine each, 3 users, 1 address in two spellings and another, 1 identity, limit 1, 2 requests, 1 change of the minute, 1 restart | `LimitHolds`, `CountersExpire`, `ToldLinked`, `RegisteredLogsIn`, `ReadyHasAdmin` |

What each property says is in the comment above its definition.  The `TypeOK`
of every module is proved (`TypeCorrect` in its proof module) and not run
again.

Bounds, and why they are enough.  A goroutine for requests beside the two loops
lets every handler race the stall sweep and the retries, and two of them, in
`OrchestratorAnswers`, race each other; three sessions let one task fail, be
retried and be retried again; one question can be answered by two humans at
once, delivered, reopened and answered again, and cancelled under their feet.
In `HitlTimeoutsSafety` a session is ended from outside by a cancellation only:
the listings treat one that completed or failed in the same way, but for tier1,
which takes the questions of cancelled sessions and not theirs.  Two questions
of one session are what tier2 treats specially (it marks session by session);
two replicas give every race of two sweeps, and a claim can be left behind by a
crash of either.  The liveness instance has one question and one replica, so
that what a second question or sweep might starve is not covered by it.
`MaxAttempts` is 1 so that its limit is reached.  Three subscriptions are one
that drains, its successor and one more; a buffer of one is full at once, a
page of one has a cursor after every row.  Chat's two posts and four deliveries
let a mention or a press be delivered twice beside a reply that is delivered
twice.  In AdrStore four creates contend for one lock and there is a third page
to ask for.  Board's three calls are an edit or dispatch, overtaken by two
others.  In Accounts a limit of one is exceeded by the second request, and two
requests are every pair of handlers.  `MaxCrashes`, `MaxRestarts`, `MaxBreaks`,
`MaxMinute`, `MaxCalls`, `MaxPosts`, `MaxDeliveries`, `MaxRequests` and
`MaxSubs` bound counters and nothing else.  The theorems hold without the
bounds.

Runs that bound calls, posts or events end there, and say
`CHECK_DEADLOCK FALSE`; the runs of `StatusStore`, `Orchestrator` and
`HitlTimeouts` check deadlock.

Fairness, and what in the code justifies it:

* `OrchestratorAnswers` (`FairSpec`): weak fairness of each goroutine's next
  call (goroutines are scheduled, calls have timeouts), and strong fairness of
  the stall sweep for a session whose agent is stopped: the sweep visits the
  whole map every 30 seconds, and a stopped agent sends nothing that would
  renew `lastEventAt`.  It is strong because the detector is one goroutine,
  busy and idle again and again.  Nothing is assumed of an active agent.
* `HitlTimeoutsLiveness` (`FairSpec`): the ticker of each replica keeps ticking
  and a sweep goes on (weak, `Sweep`); time passes (weak, `Expire` and
  `Lapse`); calls that ask, answer or end return, with whatever outcome (weak,
  `Asking`, `Answering`, `Ending`); and a call that a sweep repeats minute
  after minute succeeds in the end (strong, the actions with `ok = TRUE`; the
  listing once for each phase): no outage of the database or of a messenger is
  permanent.  It is needed: with a database that fails every time nothing can
  be promised.
* `EventStream`: weak fairness of each fan-out, a goroutine that waits for
  nothing but the hub's mutex, which is held for the length of a loop over
  buffered channels.  Nothing is assumed of clients, publishers or Redis.
* `AdrStore`: weak fairness of each creator's statements (the database answers,
  a lock that is free is granted).  Nothing makes an agent call a tool or end,
  and calls may fail at any statement.

Exceptions.  Some properties do not hold of every behaviour of the code, and
say of which: each names a history variable or a constant that records exactly
the cases in which the code breaks the promise.

| property | exempts | which is |
|---|---|---|
| `InProgressIsOwned` | `stranded` | a task whose own move failed (the compensation is one attempt), that a user dragged to in progress, or that was in progress at a crash, until it is claimed or moved again |
| `AnnouncedAfterTheEnd` | (`ended`) | says that an end of the session was written, not that it still stands or that the agent is stopped |
| `OneNotifier` | `stalled` | an announcement whose claim lapsed while it was being sent |
| `AnswerNotLost` | `unheard`, `reopened` | a question whose answer was recorded by an UPDATE that reported an error, or that was reset before; and it is about Slack |
| `LiveIsStored` | `Unstored` | the router's "waiting_hitl" |

## Findings

Two disagreements of the code with its own words have a run each:

* `DispatchedHasRow` (`OrchestratorGeneratedId`): `agentRepository.Create`
  drops the id it is given and the dispatch goes on with an id no row has
  (`agent_repo.go:93`; "3. Create a pending agent session", "9. Transition the
  session to running and start it", `orchestrator.go:152`);
* `SilenceEndsSession` (`HitlTimeoutsSilence`): the CHECK of
  `migrations/000005_agent_runtime.up.sql:52` does not admit "escalated" and no
  later migration adds it, so every escalation fails, an expired question stays
  pending and its session waits for ever ("Tier 2: escalated questions whose
  extended timeout expired -> cancel session", `cmd/steerlane/main.go:428`).

Met on the way.  Each is in the models as the code has it, and explains why a
property is stated as it is.

Statuses and sessions:

* two concurrent `Transition` calls take a task along a pair that is no edge,
  e.g. in_progress to done (`task_repo.go:287`; "must go through review",
  `task/entity.go:33`), and a terminal session status is overwritten by a call
  that had validated earlier (`agent_repo.go:180`).  `ImplementsMachine` is
  about rows with one caller, `SettledRowsStay` says what holds for the others;
* a stalled session that waits for a human keeps its waiting_hitl row, which
  has no edge to failed (`stall.go:137`), and a dispatch that fails before its
  row is running leaves it pending for ever (`orchestrator.go:253`: "any error
  must fail the session");
* a cancellation between the update to running and the registration reports
  success and leaves the agent at work (`orchestrator.go:494`);
* `tasks.agent_session_id` is never written by a dispatch: `UpdateTask` has no
  such column, and `Transition` writes back the link it has read;
* a priority beyond 32 bits wraps, and a row whose priority became negative can
  be neither read nor listed (`task_repo.go:114`).

Questions:

* a cancellation for a timeout may be overwritten by an answer, an ask or an
  ending that had validated before (`agent_repo.go:180`), before the timeout is
  announced or after; and on a replica that does not track the session it stops
  no agent (`orchestrator.go:473`).  What remains is `TimeoutEndsSession`: a
  later sweep cancels the row again;
* an answer whose UPDATE took effect and reported an error is neither given nor
  reopened, in all messengers and in the API (`slack/hitl.go:209`,
  `api/v1/agent.go:324`), and its agent waits until its session is cancelled;
* an escalated question cannot be answered through the API
  (`hitlrouter/router.go:218`), although the escalation is sent because the
  "question is still active" (`notify/notifier.go:133`);
* with a stalled e-mail two replicas announce one timeout, and the claim
  records no owner (`notify/email.go:58`): `OneNotifier` exempts `stalled`;
* in Discord and Telegram a session's context is registered after the
  acknowledgement, so a quick agent's question finds no thread
  ("pushes the question into the active conversation thread", the repository's
  README:38): `AskedInThread` is about Slack;
* a Telegram reply to the question's own message, not to the thread's head,
  finds no question; Discord and Telegram do not reopen a question whose row
  they could not read back (`AnswerNotLost` is about Slack); a redelivered
  mention creates a second task; Slack's second registration outlives a session
  that ended meanwhile; sessions of the retry scheduler have no context.

Decisions, events, accounts:

* docs/adrs/0007 promises "deduplication across both paths"; there is none, and
  the run records one decision by both;
* the extraction shortens a title by bytes and may cut inside a character
  (`extractor.go:109`);
* a live viewer is told "waiting_hitl" by an event that no replay has
  (`hitlrouter/router.go:160`): `LiveIsStored` exempts it;
* a replay misses an event that is stored after the page of its date was read:
  `ReplayIsComplete` is about what was stored when the replay began;
* behind a fan-out that still drains, older events arrive after newer ones:
  `PublisherOrder` is about clients that came when none did;
* the listing of users has a cursor by `created_at` alone, so that rows of one
  instant may be skipped (`sqlc/users.sql.go:166`);
* "The old refresh token is implicitly invalidated" (`auth/service.go:142`); it
  is not, tokens are stateless, as the next line says.

Known and in no property, because the code makes no promise there: a second
cancellation of one session may put back the task of a newer one; a killed
process leaves tasks in progress and its in-memory registry empty; an error of
`ScheduleRetry` loses the retry; `retryDelay` overflows for absurd attempt
counts; 50 rows that fail every minute starve those behind them; a claim is
judged by two clocks; twice the limit passes around the end of a window; a
token outlives its user; the last of two PATCHes wins; a PATCHed address is
stored unfolded.

## Theorems

The assumptions are the `ASSUME`s of the modules and, where said, a condition
on constants in the theorem; nothing else is assumed.

`StatusStoreProofs`: `TypeCorrect`; `SettledRowsAreFinal`;
`LoneRowsImplementMachine`, the refinement of `StatusMachine` for the rows with
one caller, by the invariant that a call past its validation on such a row
still sees the status it validated.

`OrchestratorProofs`, for any sets of tasks, sessions, questions and
goroutines, with failing calls and crashes:

* `TypeCorrect`.  `TypeOK` is made inductive by `Makes`, the table of which
  handler makes which call: without it a step would be possible whose target
  status nobody can compute.
* `NoBackendIsOrphaned`.  By `NoOrphanBackend` itself together with `TypeOK`:
  only `StartBackend` makes a backend active, only `Register` leaves that
  state, and whoever removes a session from the map disposes in the same step.
* `RetriesStayInBudget`.  `RetryBudget` is not inductive, since the claim of a
  retry writes back a count read earlier; the invariant `Budget` says that the
  counts in goroutines' variables are within the budget as well.
* `AnswersArriveOnce`, `DeliveredAnswersStand`.  The invariant `Exclusive(q)`:
  at most one goroutine is between recording an answer of `q` and delivering it
  or reopening `q`, it is there only while the question is answered and not
  delivered, and a delivered question is not open.
* `TasksInProgressAreOwned`, that is `InProgressIsOwned` for every instance:
  with failing calls, crashes and moves by hand, and for either value of
  `StoreKeepsID`.  A tracked session of the task is not enough for an
  invariant: whoever ends a session moves its task first and takes the session
  from the map later, and in between the task may be dispatched anew.  The
  invariant `Owned` therefore counts a session as owner only while no goroutine
  that ends it is past its move of the task.  With it go: until a dispatch
  registers its session nobody else has that session (`Apart`), its row is
  there and is the task's (`HasRow`), or, when the repository makes up ids,
  never is there and no agent is ever started (`Rowless`); and an ending works
  on the task of its session (`OfTask`).  `Onward` says what one call makes of
  a handler, and `StoreStep` and `TaskStep` what it makes of the rows and the
  map.
* `QuestionsKeepTheirLife`: the refinement of `QuestionLife`.  With `Exclusive`
  the one goroutine that holds an answer is the one that gives it or reopens
  the question, and nobody can record another meanwhile; `HoldersAfter` says
  that no call but `RecordAnswer` puts an answer in hand.  A killed process
  lets go of what it held.

`HitlTimeoutsProofs`, for any sets of questions, sessions and replicas, any
assignment of questions to sessions, any stored statuses, with failing calls,
stalling sends and crashes:

* `TypeCorrect`.
* `CancelsOnlyForATimeout`, `AnnouncedOnlyAfterTheEnd`, `OneReplicaAnnounces`.
  They follow from one inductive invariant `IInv`, proved in `Invariance`:
  `TypeOK`; `CallsInOrder` (a question expires only when its asking call is
  over, and no answer is admitted on an escalated question whose extended
  timeout has passed); `EndsAreKnown` (a session that has ended is in `ended`);
  `Consistent(r)`, what each label of a sweep says of the rows its replica
  holds (a tier2 replica that is past marking holds questions that have timed
  out, one past the cancellation a session in `ended`); and `Exclusive(r)`,
  that the claim on a question a replica announces is fresh and no other
  replica is about it, until a send outlasts it.  None of them is inductive
  alone: that the claim is exclusive needs that a fresh claim lapses under
  nobody but a stalled send, and what is announced is known to have timed out
  only because of the steps before.  Since other calls write the session's row
  unguarded, nothing can be kept about its status, and the invariant is about
  `ended`.
* `TimeoutsAreFinal`, `ExtensionsAreGranted`: action properties from the same
  invariant.  The second is not evident from the code: `MarkTimedOutEscalated`
  does not test `timeout_at`, and what saves it is that an escalated, expired
  question cannot be made pending again, since nobody has an admitted answer on
  it.
* `QuestionsKeepTheirLife`: the refinement of `QuestionLife`, statement by
  statement from the WHERE clauses; needs that a question in the making has no
  answer in hand.

`AdrStoreProofs`, for any projects, sessions, tool calls, texts and page size,
with failing statements and lost replies:

* `TypeCorrect`.
* `NumberedWithoutGaps`.  The invariant has three parts beside `Gapless`: who
  is past `GetLock` holds the lock, so there is one per project; a snapshot's
  maximum is never above the number of rows; and an INSERT that passed the
  unique constraint has counted all of them, until its COMMIT.
* `ToldTheTruth`, `ListedCompletely`: from the same invariant; the second also
  because a new row's number is above every cursor.
* `AppendOnly`: the refinement of `AdrTimeline`.  `TimelineOf` builds the
  timeline from the rows; with `Gapless` a COMMIT is one `Append`, and every
  other step a stutter.

`BoardProofs`, for any projects, tasks, callers, priorities and page size:

* `DeletedStaysDeleted`, from the invariant that rows and graves are disjoint
  and every task has its project, together with the domains of the tables;
  `EntitiesCarryNoStatus`, an action property that follows statement by
  statement from the columns that each one names.
* `TypeCorrect`.  `Typed` says of every pending call what entity it has read
  and what it still has to do with it: what is in the tables is fit for its
  columns only because what callers carry is (`StoredPriority`: `Int32` fits
  every priority and keeps those that fit).
* `SteadyRowsComeOnce`, that is `SteadyRowsListed`.  While pages follow, every
  row that nobody wrote is where it was, and it has come exactly once if its
  key is up to the cursor and not at all if it is after it (`Steady`).  A page
  is the rows after the cursor, in order and without gaps, so that the next
  cursor splits the listing again; `Writes` says which rows a statement leaves
  alone, and `Touch` tells the reader of the others.

`EventStreamProofs`, for any publishers, scripts, clients, subscriptions,
broken connections, buffers and pages, from one invariant `IInv` of three
parts:

* `Table`: what `publishEvent` is about to publish is stored, and the dates are
  in the order of the publishers.  With it `LiveStored`, which names the
  router's announcements as the exception.
* `StreamInv`, the hub.  `SubscriptionPerTopic` and `TypeCorrect` need only
  that a subscription in use is of its topic and that nobody watches two.
  `ShownOnce` needs that an event is in one queue at most and not in the inbox
  of whoever may still get it (`Queues`, `Inboxes`): a queue that drains and
  its successor are disjoint because Redis hands an event to the one that is
  on. `InPublisherOrder` needs of a client that came while nothing drained that
  it has one source for good, which is in order and behind its inbox (`Clean`).
* `Replay`: what was read is in the order of the dates, and holds all that was
  stored at the start and is dated up to the last event read.
  `ReplayComplete` follows at the last page.  `Pages` is stated by what a page
  is (the events after the cursor, in order, as many as fit), not by the sort
  that computes it.

`ChatProofs`, for any threads on each platform, sessions, questions, handlers,
posts, redeliveries and restarts, from one invariant `Inv`:

* `TypeCorrect`, `ContextBeforeQuestion`.  `Registry`: contexts are of sessions
  that exist, on their platform, and a Slack session in the map has one.
* `AnswersGivenOnce`.  `Exclusive(q)`: one webhook call at most is between
  recording an answer of `q` and giving it or reopening `q`, while the row is
  answered and the agent not told.
* `AnswersReachAgents`.  `OnItsWay` is `AnswerNotLost` without its condition
  that the session waits: a session may come to wait (`WaitForHuman`) after an
  answer of another of its questions was recorded, and then the promise must
  hold already.  A question that was not shown cannot be answered (`Asked`,
  `Unanswered`), which is why one may be withdrawn (`AskingIs`) without a
  handler having it in hand.  An UPDATE that took effect and reported an error
  leaves nobody in charge: its question is in `unheard`.
* `AmbiguousRepliesIgnored`.  `DeliveryIs`: a handler that works on a reply to
  one question knows that the others its author saw are closed, or were
  reopened.
* `QuestionsKeepTheirLife`: the refinement of `QuestionLife`, from `Exclusive`
  and, for a new question, from `Asked`: nobody can have its answer in hand.

`AccountsProofs`, for any replicas, users, addresses, identities and limit:

* `TypeCorrect`: with the unique address and the foreign key of links.
* `LinkedToTheTold`, `RegistrationsStand`, `AdminBeforeService`: from
  `TypeCorrect` (two users never share an address) and, for the first two,
  that every way to undo what was told also withdraws it.
* `LimitIsKept`: what a counter has granted and what requests on the way will
  be granted by it are together within the limit, and while its minute is not
  over the counter has counted all of them (`Quota`).  Without the second part
  a counter that is deleted or recounted could grant twice.
* `CountersGo`: a counter without a date has a request that is about to date
  it.

Model-checked only: the five liveness properties `StoppedIsCollected`,
`TimeoutEndsSession`, `TimeoutIsAnnounced`, `SlowClientsHarmNoOther` and
`CallsReturn`.  Liveness under fairness is beyond the prover.  Every other
property that a passing run checks is a theorem.

## Not modelled

* `Orchestrator.Shutdown` (`orchestrator.go:784`): the drain of the map when
  the process stops, beside a retry scheduler that may still dispatch.
* `retryDelay` (`retry.go:76`): time is abstracted, a retry is due or not.
* Reconciler and Docker runtime: removes containers that no session tracks; it
  works on the output of `docker` commands, of which the repository has no
  model.  Git operations and volumes: commands too; in `Orchestrator` they are
  the step `Prepare`, which may fail.
* Notifier and e-mail: texts and recipients.  Sending is a call that succeeds,
  fails or stalls in `HitlTimeouts`.
* Audit log (append-only inserts), API keys and OAuth (single statements and
  an external provider), password hashing and token signatures.
* HTTP server and API types, generated queries and mappers, configuration,
  observability, dashboard: wiring, mapping and rendering.  Queries whose
  conditions matter are modelled from their SQL.
* Of modelled components: reads that return one row; the tool dispatch of the
  message handler; direct messages; the resolvers of messenger identities
  beyond linked and not linked.

## Plan

Next, the most important first:

1. `Shutdown`: what is tracked when the drain ends was cancelled and disposed
   of.
2. `RetryBackoff`: the delay as a function, with the width of `time.Duration`,
   against its reference (capped doubling).
3. `Reconciler`: orphan containers against sessions being started.
