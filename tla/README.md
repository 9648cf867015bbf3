# A formal model of e2e-test-svc

The service is a FastAPI process that stores projects, scenarios, environments,
runs and recordings in PostgreSQL, and drives one Node child process (the
*controller*), which executes Playwright runs and recordings in Docker
containers. This directory holds TLA+ modules for the parts whose correctness
depends on interleavings and failures, TLC configurations that check them on
small instances, and TLAPS proofs for every instance.

Paths are relative to the repository's root. `PROJECT.json` gives, for every
definition, the lines it stands for, and the list of hazards.

## 1. Inventory

| Component | State | Operations | Hard behaviour | What makes it correct |
|---|---|---|---|---|
| Vocabulary: `app/domain.py`, `app/store.py` | transition tables | `check_transition`, `update_resource` | every status write goes through it | statuses move along the table only |
| Run jobs: `app/jobs.py`, `app/services/runs.py` | run rows, `run_events`, tasks, the semaphore `slots` | create, rerun, cancel, `execute`, `finish`, `recover`, `close` | cancel races the task; a commit may fail or go unacknowledged; crash, restart | no slot leaks; every open run has a task; events agree with the row; a run cancelled while queued never runs |
| Docker runner: `src/runtime/runner.ts` | `active` map, `item.cancel`, containers and networks | `start`, `cancel`, `execute`, `close` | cancel during `available()`; timer against cancel; leftovers | a cancel stops the run; what is left over is removed |
| Recording workflow: `app/services/recordings.py`, `app/routes/recordings.py` | recording rows, start and flush tasks | create, start, poll, stop, save, sweep | stop during start; two stops; a slow poll and the flush; a dead sweeper | the final code survives; one flush; the user's limit; expired recordings end |
| Docker recorder: `src/runtime/recorder.ts` | `sessions`; per session `stopped`, `starting`, `finishing`, `cleanup`, `output` | `start`, `initialize`, `read`, `target`, `stop`, timer, monitor | `stop` during `initialize`; error callbacks after the answer | idempotent stop, one output |
| Bridge: `app/runtime.py`, `runtime/bridge.ts` | `pending`, `events`, the process, its reader | `_ensure`, `_call`, `_read`, `close`, `dispatch` | death with calls in flight; timeouts and late replies; a new controller while the reader of the old one ends | every call is answered, fails or times out; no reply reaches another call |
| Lifespan: `app/main.py` | advisory lock, sweeper, jobs | start, recover, serve, close | crash at any point of these | nothing open survives a restart |
| Event log: `app/routes/runs.py`, `jobs.emit` | `run_events` ids, the reader's cursor | append, page by `after` | ids are taken before the commit that shows them | a reader misses no event |
| Tenants: `app/services/tenants.py`, `app/permissions.py` | memberships, invitations | invite, revoke, accept, change and remove members | concurrent demotions; accept against revoke | an organization keeps an owner; an invitation is used once |
| Versions: `app/services/versions.py`, `app/routes/scenarios.py` | version numbers, `currentVersionId` | `add_version` | concurrent saves | numbers are consecutive and unique |
| Projects, groups, environments: `app/routes/projects.py`, `app/services/environments.py` | one JSON body per row | create, patch | `patch_project` rewrites the body unlocked | no update of a locked row is lost |
| Authentication: `app/auth.py` | `auth_attempts` counter, sessions | sign up, sign in, `throttle` | window boundary | the limit holds per window |
| Viewer: `app/routes/viewers.py`, `runtime/recorder/*.mjs` | open sockets | proxy, `reauthorize` every 5 s | access revoked while open | access ends within the interval |
| Runner image: `runtime/runner/*.mjs` | per-suite summary | `reporter.mjs` `onEnd`, egress, redaction | verdict of retries, skips, empty suites | no green verdict without a verified test |
| Persistence: `app/models.py`, `app/db.py`, `app/migrations.py` | rows | transactions | row locks | assumed, see section 4 |
| HTTP surface, secrets, configuration, telemetry | none | validation, presentation, logging | none | not modelled |

How they interact: a request handler changes a row in a transaction and then
either schedules a task of `Jobs` or calls the controller; a task calls the
controller through the bridge and stores the answer in a transaction of its
own; the controller calls back with events, which the reader of the bridge
stores. Handlers, tasks and the sweeper interleave at every `await`, and the
row lock (`FOR UPDATE`) is all that orders them.

## 2. Modules

| Module | What it is |
|---|---|
| `Domain` | statuses and transition tables of `app/domain.py`; `Allowed` is `check_transition` |
| `RunLifecycle` | abstract: what clients may see of a run: queues, starts, announces, closes once |
| `RunJobs` | detailed: runs from request to recovery, with task, slots, controller, containers |
| `RecordingLifecycle` | abstract: what clients may see of a recording and of the versions saved from it |
| `Recordings` | detailed: recordings of one user: creates, start and flush tasks, polls, stops, saves, sweeper, sessions |
| `RuntimeCalls` | abstract: what a caller of the bridge is promised: executed at most once, ended once, answered only if executed |
| `RuntimeBridge` | detailed: calls over a succession of controllers, the reader of each, events, losses, `close` |
| `RunEvents` | the event log of one run and a client that pages through it |
| `Roles` | the roles and permissions of `app/domain.py`; `Permitted` and `MayManage` are the two role checks |
| `Membership` | abstract: who may do what to an organization, every act a single step |
| `Tenants` | detailed: the operations of `services/tenants.py` as transactions under the organization's lock |
| `Auth` | accounts, the session token, the throttle, against a clock |
| `ViewerAccess` | composes `Auth` with the viewer's socket, role changes and the recording's end |
| `ProjectContent` | abstract: the content of a project, every request a single step on the row as it is then |
| `Library` | detailed: rows of projects, groups, environments and scenarios with their versions, under concurrent read-merge-writes |
| `MC...` | symmetry sets for TLC; the configurations give the constants |
| `..._proofs` | theorems and proofs of `RunJobs`, `Recordings`, `RuntimeBridge`, `RunEvents`, `Tenants`, `Auth`, `ViewerAccess`, `Library` |

`RunJobs` and `Recordings` each contain their share of the controller, the
bridge and the lifespan; they share no rows and are checked apart. What they
take for granted of the bridge (a call that fails may have been executed, and
nothing is executed or answered twice) is `RuntimeCalls`, which `RuntimeBridge`
implements. The status changes of `Recordings` and the role changes of
`Tenants` appear in `ViewerAccess` as single steps. `save_recording` is in two
modules: `Recordings` has its stop and flush, `Library` its two locks and the version.

### How a step is cut

One action is one stretch of code no other task can interleave with: a
transaction under its row lock, a message to or from the controller, the code
between two awaits. A commit is not assumed to succeed. `Commits(o)` has three
outcomes: `ok`; `failed`, where nothing is stored and the caller sees an
exception; `unacknowledged`, where the change is stored and the caller *still*
sees an exception. Most hazards of this code are of the third kind, because
the exception leads to a second write over the first.

### RunJobs

| Variable | Code |
|---|---|
| `row`, `startedAt`, `published` | `body["status"]`, `body["startedAt"]`, `run_events` (those the API writes) |
| `task`, `result`, `slots` | where `Jobs.execute` is, the controller's answer from its line on the pipe until it is stored, `Jobs.slots` |
| `cancelReq` | the request in `cancel_run` that won the row, until `runtime.cancel` returns |
| `bridge`, `oldReaders` | `Runtime.process` and `Runtime.reader` of the latest controller; readers of earlier controllers that have yet to see their end |
| `failed` | runs whose task raised (`BACKGROUND_FAILED`) or whose creating request did |
| `phase`, `interrupted` | the lifespan; the list in `recover()` |
| `node`, `containers` | `DockerRunner.active` with `item.cancel`; labelled Docker resources |

`Create`, `Schedule`, `Cancel`, `CancelDelivered` and `CancelTimesOut` are the
requests. `Acquire`, `BeginTerminal` or `BeginRunning`, `Prepare`, `ReadAnswer`,
`Finish` or `FinishRefused` are `execute` in its order, with its early return and
with the second `finish` of its except clause (`Raises`). `NodeRejects`,
`NodeStarts`, `TimerFires`, `NodeCompletes`, `NodeCloseCancels` are `runner.ts`.
`CallTimesOut` is the `wait_for` of `_call`. `Crash`, `CloseBegins`,
`CloseRuntime`, `CloseDone`, `Recover`, `Cleanup` are the lifespan, `Jobs.close`
and `recover`.

A controller's end is not one step. `ControllerExits` is the exit, of which nobody
in the API knows; then a call may still be written to the dead process
(`IsLost`), or `_ensure` may start a fresh one under the old reader (`Reaches`);
`ReaderEnds` is `_read`'s finally clause, which fails every pending call, those of a
fresh controller included. Between the two, tasks count on containers nobody
manages: `AboutToLearn`. Only a reader that breaks fails the calls and kills its
controller in one stretch without an await (`ReaderBreaks`). `RuntimeBridge` has the same
window call by call, with the controller that is killed and not yet reaped.

### Recordings

| Variable | Code |
|---|---|
| `status`, `code`, `saved`, `expired` | the row; versions made by `save_recording`; rows past `expiresAt` |
| `counting` | `create_recording` between its count and its commit, holding the user's row |
| `starter`, `flusher` | where `start_recording` and `flush_and_publish` are, and how they ended |
| `poll`, `polled` | `get_recording` and the code it has read |
| `stop` | for each stop or save request, and the sweeper: `finish_recording` and its await |
| `lost` | rows whose commit went unacknowledged to a request that then did not start the task |
| `session`, `written` | the recorder's session (`none`, `initializing`, `up`, `stopping` from `session.stopped = true` on, `stopped` when `finish` is over); what codegen has written |

The code of a recording is a number that grows when the user acts; only being
older or newer matters. A stop joins a start under way (`Join`), starts the
flush (`FlushOrReturn`), waits for it (`Settle`), and a save then adds a version
(`Delivers`). Both waits are shielded, so `Disconnect` ends the request and not
the task. The flush itself is `FlushBegins` (the session counts as stopped from here
on, so a poll's target is missing already), `SessionFlushes` and `FlushReply`. The
controller's end and the waking of its calls are one step here; what happens in
between is in `RunJobs` and `RuntimeBridge`.

The sweeper is a bare task: an exception over a recording (`DeadOn`) ends it for
good, and `main.py:51` swallows the exception, so nothing is reported and `lost` does
not grow. A commit of the sweeper that is applied without its acknowledgement leaves that
recording `stopping` until a restart, and nobody is told.

### RuntimeBridge

| Variable | Code |
|---|---|
| `current`, `process`, `reader` | `self.process` and those before it, with their return codes and `_read` tasks |
| `received`, `out` | the calls `dispatch` is working on; the lines on standard output nobody has read |
| `call`, `sentTo`, `outcome` | where each `_call` is, the controller it was written to, how it ended |
| `spawning` | the holder of `self.lock` inside `create_subprocess_exec` |
| `storing`, `stored`, `written` | the event whose commit the reader awaits; events in the database; events written |
| `executed`, `closing`, `losses` | calls carried out; how far `close` is; a bound |

A process that has exited is first `dead` and then `reaped`: `_ensure` looks at
the return code, and the event loop learns it a while after the exit. `Reuse` and
`Send` are one stretch of code without an await, from the look at the process to
the registered future. `ReaderEnds` fails every pending call, whichever controller
it was written to, as `_read`'s finally clause does. A reply without a result and
an event that cannot be stored are `ReaderBreaks`. `GiveUp` is a timeout, a
cancelled caller or an error of the pipe.

### RunEvents

`nextId` is the sequence behind `run_events.id`, `inserted` the id `emit` has taken
and not committed, `holder` the transaction that holds the run's row, `after` the
client's cursor. The insert of an event checks its foreign key after it has
taken its id, and so waits, id in hand, for whoever holds the row.

### Tenants and Membership

`members` and `invitations` are the two tables, `names` the names of the
organization and its workspaces with their last writer, `lock` the organization's
row, `staged` what each open transaction is about to commit. A database starts
empty or as the migration to organizations leaves it. An operation is two
steps, because its checks and its commit are separated by awaits: the first
takes the lock, reads, checks and stages; `Commit` or `Rollback` ends it. The unique
constraints of the tables are `Conflicts`, which refuses a commit. In `Membership` all
of that is one step of somebody whose role allows it at that moment; the
refinement mapping forgets the lock and the staged writes and shows an
invitation as an offer while it is pending.

An invitation is for an address, not for a user. `Lowered` is a user's address as
`lower()` of PostgreSQL writes it, `Folded` as `casefold()` of Python does; any functions,
so users may share an address in one and not in the other. `invite` looks for a member
by comparing the first with the second (`NoMemberAt`, `tenants.py:235`), `accept`
compares the second with the second.

### Auth and ViewerAccess

Times are ages and remainders in ticks, so that the model has no horizon and
needs no bound on time. `count` and `expiresIn` are the row of `auth_attempts`;
`MaxDelay` is the time between `utcnow()` in `throttle` and the execution of the upsert.
`admitted` is a history of the attempts that passed: for each its age, how many windows
ago it was counted, and its number in that window; one older than `Span` is forgotten.
`Span` is shorter than the window by `MaxDelay`, because a window that is renewed
by a delayed statement began at the time that attempt had read: with a delay,
three windows can meet in a span of the full length. `socket` is how far
`recording_socket` is, `ticket` the session token its handshake brought: its age, and whether
the browser's cookie still holds it. A second sign-in makes another token and leaves
this one alive, a sign-out destroys only the cookie's; `reauthorize` looks at the
ticket. `recheckIn` is the sleep of `reauthorize`, `lost` a history: how long
an open socket has been without access. Between the first check and `Accepts` the
access may already be gone; that is the interesting case for the property.

### Library

`exist`, `body`, `versions` are the rows; `lock`, `txn`, `pc` the requests' transactions;
`wrote` is a history in which every committed change is applied in turn. A body
has two keys any patch may name (an environment's are like them), the
scenario's group and its current version. A write stores the whole body that was
read, merged with the changes, as `update_resource` does. `PatchProject` alone
reads without a lock. In `ProjectContent` a request is one step: it creates a row,
gives a row's name or description one value, moves a scenario to a group that exists, or
adds a version with the next number. The refinement mapping forgets locks and
transactions, and of the project's own row it keeps only that it exists, since its
body is written without a lock.

## 3. Runs

| Run | Question | Instance | Result |
|---|---|---|---|
| `RunJobs` | do all safety properties hold, is `RunLifecycle` implemented, and does every queued run end? | 2 runs, 1 slot, 1 restart, 1 controller loss, 2 faults | pass, 413 319 states |
| `RunJobs_cancel` | does an answered cancel stop the run? | 2 runs, no fault | violated |
| `RunJobs_leftover` | does recovery remove all leftovers? | 1 run, 1 restart, 1 controller loss | violated |
| `Recordings` | do all safety properties hold, and is `RecordingLifecycle` implemented? | 1 recording and its poll, 2 requests and the sweeper, 1 restart, 1 loss, 2 faults | pass, 623 806 states |
| `Recordings_pair` | does the limit hold between two creates, does every expired recording end while the sweeper lives? | 2 recordings, limit 1, 1 request, 1 fault | pass, 313 040 states |
| `Recordings_target` | is a missing target an answer? | 2 recordings, nothing fails | violated |
| `RuntimeBridge` | is there one controller, are events first, is a caller nobody wakes harmless, is `RuntimeCalls` implemented, does a loss wake callers? | 2 calls of 1 event, 2 losses | pass, 58 601 states |
| `RuntimeBridge_broken` | does a call after a broken reader get a fresh controller? | 2 calls, 1 loss | violated |
| `RunEvents` | does a client that pages on miss an event? | 5 events, pages of 2 | violated |
| `Tenants` | do all safety properties hold, and is `Membership` implemented? | 3 users with 3 addresses, two of them folded to one, 2 invitations, 2 requests at a time | pass, 664 761 states |
| `ViewerAccess` | how long does a viewer outlive its access, and what does the throttle admit? | 1 browser, window 4, limit 2, session 3, delay 2, interval 2 ticks | pass, 241 272 states |
| `Library` | are versions numbered without a gap, is a change of a locked row ever lost, is `ProjectContent` implemented? | 4 requests, 2 scenarios, 1 group, 1 environment, 1 project | pass, 103 469 states |

Why the bounds are enough. Runs meet only at the semaphore, so two runs and one
slot give a run that waits for another. A controller loss
takes its exit, a fresh controller and the old reader's end, so one is enough for the
window between them. Symmetry is used only where no liveness
is checked. Two faults are what a failing `finish` followed by a failing second
`finish` takes; a third could only repeat one of them. The requests, the poll and
the sweeper on a recording meet only at its row: two requests and the sweeper
give every order of a first, a joining and a late stop, with a poll across
them. `MaxCode` 2 lets a poll read a code older than the one before last.
Recordings of one user meet only in the count of `create_recording`, hence the
separate run with two of them, which leaves the code out. Two calls and two
losses give the bridge a call on each side of a controller's end, with the old
reader still at work; a third controller is there for whoever comes after both.
Two requests at a time are what a race for the last owner takes; three users give
an owner, someone to act on and an outsider, and with `strasse@x` and its sharp s two whose
addresses fold to one while the database keeps them apart; two invitations give one that replaces
another. In `ViewerAccess` the three lengths differ, so that window, session and
re-check end at different ticks and in every order, and the delay is long enough for a
window to begin two ticks before it is counted; browsers share nothing but
the recording, and one of them meets it in all its states. In `Library` a row has at most
one writer under its lock, so three requests (create, save, and one between) show
every race, and the fourth lets the project be there first. The proofs below lift
the safety properties to all values of the constants.

### Properties

Of runs:

- `SlotsAccounted`: free slots and tasks holding one add up, on every path.
- `NoSilentOrphan`: an open run has a task, or its loss was reported.
- `ClosingEventsAgree`: events say of a run's end exactly what the row says.
- `UnmanagedContainersAreOver`: a container unknown to the controller belongs
  to no run whose task will wait for it: the run is over, being closed or reported
  lost, or its task is about to learn of it (an answer is on the pipe, or the end of
  a controller's output is yet to be read). A call written to a controller that has
  exited has no containers.
- `CancelledWhileQueuedNeverRuns`: such a run never starts and never reaches
  the controller.
- `ImplementsLifecycle`: the refinement of `RunLifecycle`.
- `EveryRunCloses` (liveness).

Of recordings:

- `StoppedHasFinalCode`: no late poll overwrites the flushed code.
- `StartFindsStarting`: a late start never meets a row that has moved on.
- `SingleFlush`: one flush, however many stops.
- `NoSilentOrphan`: as for runs, for the start and the flush; the one exception is the
  recording over which the sweeper died, which stays `stopping` unreported.
- `ActiveWithinLimit`: `max_recordings_per_user` under concurrent creates.
- `ImplementsLifecycle`: the refinement of `RecordingLifecycle`; only final
  codes are saved as versions.
- `SweeperClosesExpired` (liveness): while the sweeper lives, an expired recording is
  closed, or the reason is a failure that was reported. It says nothing of the time
  after the sweeper's silent end: what expires then stays open until somebody stops it
  or the process is restarted.

Of the bridge, the log, organizations, viewers and the library:

- `OneController`: at most one controller may be running.
- `EventsBeforeAnswer`: a run is answered when all its events are stored.
- `LeftBehindNotCarriedOut`: a call that is left to its timeout, because its
  controller's reader has ended, was never carried out and never will be.
- `ImplementsCalls`: the refinement of `RuntimeCalls`.
- `LossWakesCallers` (liveness): who waits for a controller that exited is woken.
- `FreshAfterBreak`, `PagesMissNothing`: violated, see the findings.
- `AlwaysAnOwner`: an organization keeps an owner through concurrent demotions.
- `PendingNotMember`: no address has two pending invitations, and no member has one whose
  address both conversions write alike. For others it may be otherwise, see below.
- `NoConflictAtCommit`: the tables' constraints are never what stops a request.
- `ImplementsMembership`: the refinement of `Membership`: at its commit, every act
  is still allowed.
- `SpanLimit`: no span shorter than the window by an attempt's delay admits more than
  twice the limit. A fixed window cannot promise less: a burst at its end meets
  one at the next start.
- `ClosedWithinInterval`, `LostAccessCloses` (liveness): a viewer without access
  closes, and within one interval; access is the token of its handshake, the role and
  the recording's status.
- `CurrentIsLatest`, `NumbersNeverConflict`: versions are 1 to n, n is the current
  one, and the unique constraint is never needed.
- `ChangesKept`: a change committed to a locked row is never taken back.
- `ImplementsContent`: the refinement of `ProjectContent`: what a request read and
  looked up still holds when it commits.

### Fairness

`FairSpec` of `RunJobs`: weak fairness of every task and controller step, since
the event loops run what is ready and the timeout of a call nobody will answer is
finite (a reader's end would wake it sooner, and is not needed); strong fairness of `Acquire`, since
`asyncio.Semaphore` wakes waiters in order; weak fairness of `NodeCompletes`,
since a container exits or the run's timer stops it; weak fairness of closing
and recovering, since the process is restarted by its supervisor. `FairSpec` of
`Recordings`: weak fairness of the start and flush tasks, of the recorder's
answer, of the sweeper's scan and of what it waits for. `FairSpec` of
`RuntimeBridge`: weak fairness of the readers only, which the event loop runs when
there is something to read; no controller has to answer and no timeout to fire.
`Spec` of `ViewerAccess`: weak fairness of the clock and of a check whose sleep is over;
`Tick` waits for a check that is due, since the check is a query and the interval
seconds, which is what "within one interval" means here. None assumes that
clients, users, polls, timeouts, failures or crashes happen.

### Findings

1. `RunJobs_cancel`. `DockerRunner.start` awaits `available()` (`runner.ts:55`)
   before it enters the run in `active` (`runner.ts:60`); `cancel` returns silently
   when the run is not there (`runner.ts:63`). A cancel in between is forgotten
   and the run executes to its end, its row saying `cancelled`.
   `docs/runner.md:17` says `cancel(runId)` sends the termination signal.
2. `RunJobs_leftover`. `recover()` cleans up only runs it finds queued or
   running (`jobs.py:46`). A run closed before the process died, because its
   controller was lost, keeps its containers. `docs/runner.md:52` has recovery
   clean up what is left over.
3. `Recordings_target`. `recorder.target()` of a session that is stopping or ended
   (`recorder.ts:154`) is `undefined`, which
   `JSON.stringify` leaves out (`bridge.ts:27`); `message["result"]`
   (`runtime.py:117`) raises `KeyError`, and the reader kills the controller with
   all sessions and runs on it. A poll that meets the stop of its own recording is enough:
   the flush in flight fails with the others, and even a single recording loses its final
   code. `RuntimePort` declares `dict | None`
   (`runtime.py:25`), and `get_recording` handles `None`.
4. `RuntimeBridge_broken`. When a reader breaks, it fails the pending calls and kills
   the controller, then awaits the exit (`runtime.py:124-129`). Until the exit is
   known `_ensure` (`runtime.py:64`) gives the killed controller to a call that comes in
   between. Nobody reads for it: it waits for its own timeout, but nothing was carried
   out for it (`LeftBehindNotCarriedOut`). The comment at
   `runtime.py:119` says "subsequent operations need a fresh controller".
5. `RunEvents`. `emit` takes an id and waits for the row `cancel_run` holds; the
   `run.cancelled` event takes the next id and commits first; a client that reads
   now goes on behind the first event (`routes/runs.py:96`) and never sees it. How
   far this goes is proved, see section 5.
   `docs/acceptance.md:25` says events are ordered and paging can be resumed.

### Described and not asserted

- Two concurrent patches of a *project* read the same body, and the second commit
  takes back the keys only the first one named (`routes/projects.py:77`). Nothing in
  the repository speaks of it.
- A member whose address `lower()` and `casefold()` write differently (a sharp s) can be
  invited: `invite` does not find the member (`tenants.py:231-238`), where
  `docs/api-contract.md:39` has it answer 409 `ALREADY_MEMBER`. The member may leave later
  and come back by that invitation. Two users whose addresses fold to one are both who an
  invitation is for; the first to accept it has used it. `MCTenants` has such users, and the
  other properties hold with them.
- After a second sign-in, a sign-out closes no viewer that was opened with the first
  token: that token, and the viewer, last until it expires (`auth.py:101-103`,
  `viewers.py:129`). `docs/recorder.md:35` tells of a single sign-in and its sign-out.
- The sweeper's silent end, see `Recordings` in section 2.

## 4. Assumptions and abstractions

- PostgreSQL: `FOR UPDATE` excludes, commits are atomic. The advisory lock of
  the lifespan keeps a second process out.
- A restart of `Recordings` is atomic with `recover()`, which runs before any
  request is served; in `RunJobs` it is not, because `Cleanup` and a second crash
  matter there.
- A cancel that arrives while `execute` sanitizes its result, after the status
  was settled, is joined with the completion.
- Artifacts, checks, redaction, names and error texts are left out; a result
  the API cannot validate is the outcome `exception`.
- What a request reads and refuses is no step, unless the refusal changes
  something: `throttle` commits the count of an attempt it refuses.
- Passwords, cookies and token contents are library code; whether a password is
  right is a choice of `SignIn` or `SignInRefused`.
- An environment's encrypted body is a body like the others; whether its
  targets are valid only decides if a patch is committed or rolled back.
- In `Library` the right to edit is given; `Tenants` and `Roles` have it.
- A patch of a scenario names its texts or its group; naming both merges
  no differently.
- `MaxRestarts`, `MaxControllerLosses`, `MaxFaults`, `MaxCode`, `MaxEvents`, `MaxLosses`
  and the sets of requests and invitations bound the
  environment. They are constants of the modules and arbitrary in the proofs.
  A controller that `_read` kills in `PollTargetMissing` does not count as a loss.

## 5. Proofs

The proof modules assume only what the modules assume: natural bounds, at
least one slot (one recording), a sweeper that is none of the requests, kinds of
rows that are disjoint, times with `MaxDelay < Window`. The sets of runs, recordings,
users, addresses, invitations, calls, requests and rows are any sets, also infinite ones,
and the two conversions of an address any functions.

`RunJobs_proofs`. `TypeOK` is not inductive, since `slots` stays within its
domain only because slots are accounted for. `TypeInv` adds `SlotsAccounted`,
finiteness of the holders, and that a task has a row and a result to finish
with. `SlotMove` says what a step may do to slots and holders together; every
step is one (`StepMovesSlots`), and every such move keeps the account
(`MoveKeepsAccount`). `Progress` relates a task's position to its row, which gives
the cancelled runs and the refinement; `QuietWhenDown` is for the restart;
`Attended` adds that what the controller executes has a task, that a controller that has
exited executes nothing, and carries `NoSilentOrphan` and `UnmanagedContainersAreOver`. `ClosingEventsAgree` follows from
the lifecycle's moves alone, and so does `TerminalStays`: a run whose cancel never
reached its container (finding 1) keeps its `cancelled` row whatever that container reports.

`Recordings_proofs`. `IndInv` is `TypeOK`, `Stages` (where the tasks are determines
how far the row has come: no flush has existed for a `ready` row, a start
before its end has a `starting` row), `Flushed` (once the flush is answered the
session writes no more) and `NoSilentOrphan`, whose exception for the sweeper's last
recording stays as it is because a dead sweeper takes no further step
(`SweeperStaysDead`). `FlushedStatus` is a status of
recordings only by the type. `Limit` is proved apart: the actives are finite, the
lock has one holder, and the holder has counted fewer than the limit, which
later steps of other recordings can only lower. Since a stopped recording's code
stays (`OverStays`), all versions saved from it have that one code (`SavedIsFinal`).

`Tenants_proofs`. None of the properties is inductive alone: they hold because what a
transaction read is still true when it commits. `OneWriter` (only the holder of
the lock has a staged write) and `StagedValid` (its checks hold *now*) say
so; `RowsNeedOrganization` covers the time before the founding. A commit turns
the checks into the properties and into one step of `Membership`.

`Library_proofs`. `Transactions` says what a request in a transaction knows: the lock
it holds, the body it read still being the row's, the number it took being the
next one. `NoVersionsYet` covers rows to come. For the refinement, `Asked` says what a
writing request asks of a locked row (name and description, a group that exists, or a
version), and nothing else; with the lock, the merged body it commits is then the
abstract step on the body as it is. The other steps change nothing the
content shows, or create a row.

`RuntimeBridge_proofs`. `Locked` (one caller inside `_ensure`'s spawn), `Generations`
(controllers are born in order, the ones before the current one are reaped),
`AtOneController` (a call is with one controller, so it is executed once) and
`AnswersAreExecuted` carry `OneController` and the refinement. `EInv` extends them for the
events: the lines of a call keep their order, its answer is the last, and what
is written is stored, being stored or still on the way. `LeftInv` is for the calls left behind:
a controller that is up has its reader, so the controller they were written to is not
up any more, and none that is has received them.

`RunEvents_proofs`. `PagesMissNothing` is violated (finding 5); these theorems say what does
hold of a client that pages on. `OneForEachClosing` is the invariant: the events
missed so far, and the one that will be missed when `emit` commits an id that has been
overtaken, are no more than the times the row was closed (by `cancel_run`, by
`Jobs.finish`), since an event that `emit` writes can only be overtaken by the event of a closing. So a
client misses two events at most, none while the run is neither cancelled nor
finished, never `run.cancelled` or `run.finished`, and is given none twice. They
assume a natural `Limit`. No run checks these properties; the run is the counterexample
to the stronger one.

`Auth_proofs` and `ViewerAccess_proofs`. `lost + recheckIn <= CheckInterval` for an open socket;
a ticket the cookie still holds is as old as the browser's token (`TicketsHold`);
the types of `Auth` are inductive given what a minimum of two is. `SpanLimit` counts a
set and is not inductive: `Admissible` says that the attempts of a span belong to the
present window or to the one before, that they are numbered 1 to `RateLimit` in each
without a number given twice, that the present window has given no number above its
count, and that an attempt of the window before will have left the span by the time the
present one ends. So a window that is renewed leaves only attempts of the
window it ends; here the span has to be shorter than the window by the delay. Window and number
together map the attempts one to one into `1..2 * RateLimit` (`AdmissibleCount`).

| Theorem | Property |
|---|---|
| `RunJobs_proofs`: `TypesHold`, `SlotsHold`, `NoOrphans`, `ClosingEventsHold`, `LostContainersAreOver`, `CancelledRunsStayOut` | the safety properties of run `RunJobs` |
| `JobsImplementLifecycle` | refinement of `RunLifecycle` |
| `Recordings_proofs`: `RecordingTypesHold`, `FinalCodeHolds`, `NoRecordingOrphans`, `StartsFindStarting`, `FlushesOnce`, `LimitHolds` | the safety properties of runs `Recordings` and `Recordings_pair` |
| `RecordingsImplementLifecycle` | refinement of `RecordingLifecycle` |
| `RuntimeBridge_proofs`: `TypeCorrect`, `NeverTwoControllers`, `EventsComeFirst`, `LeftBehindIsSafe` | the safety properties of run `RuntimeBridge` |
| `BridgeKeepsItsPromise` | refinement of `RuntimeCalls` |
| `Tenants_proofs`: `TypeCorrect`, `OwnerStays`, `NobodyInvitedTwice`, `CommitsNeverConflict` | the safety properties of run `Tenants` |
| `TenantsImplementMembership` | refinement of `Membership` |
| `Library_proofs`: `TypeCorrect`, `NewestIsCurrent`, `NoVersionConflict`, `NoLostUpdate` | the safety properties of run `Library` |
| `LibraryImplementsContent` | refinement of `ProjectContent` |
| `ViewerAccess_proofs`: `TypeCorrect`, `AccessEndsInTime`, `ThrottleLimits` | the safety properties of run `ViewerAccess` |
| `RunEvents_proofs`: `MissesAreFew`, `OpenRunsMissNothing`, `ClosingEventsAreSeen`, `NoEventTwice` | the extent of finding 5 |
| `RunJobs_proofs`: `EndedRunsKeepTheirStatus` | a closed run keeps its status |
| `Recordings_proofs`: `OneCodeIsSaved`, `OverRecordingsStay` | a recording that is over keeps status and code, its versions have that code |

Only model-checked: `EveryRunCloses`, `SweeperClosesExpired`, `LossWakesCallers` and
`LostAccessCloses`, since liveness under fairness and `ENABLED` are beyond the prover.
Every safety property and every refinement that a passing run checks is proved.

## 6. Not modelled, and the plan

Out of scope: redaction, egress rules and encryption; the rewriting of recorded
code; list and detail views, schemas and presenters; the migrations, but for
what `0003_organizations` leaves of an organization; telemetry; scripts and
documentation assets. None of them has state the properties speak of. The viewer's
proxy loops and the container's own gateway (`runtime/recorder/*.mjs`) pass bytes on.

In order:

1. `RunLifecycle`, `RunJobs` and their proofs: done.
2. `RecordingLifecycle`, `Recordings` and their proofs: done.
3. `RuntimeCalls`, `RuntimeBridge` and their proofs: done.
4. `RunEvents` and its proofs of how much can be missed: done.
5. `Membership`, `Tenants` and their proofs: done.
6. `ProjectContent`, `Library` and their proofs: done.
7. `Auth`, `ViewerAccess` and their proofs: done.
8. `RecorderSession`: the promises `starting`, `finishing` and `cleanup` of
   `recorder.ts`, and the session that comes up after its start timed out.
   `Recordings` has each of them in the states of a session, not as steps of their own.
9. `RunnerExecution`: the steps of `execute` in `runner.ts`, with the cancel after the
   result was settled; one completion in `RunJobs`.
10. `ReporterVerdict`: `onEnd` of `reporter.mjs` as a function of the attempts.
