# ssh-proxy-api in TLA+

Specifications of the service in `src/app`: an HTTP and websocket API that runs
commands on remote servers over SSH, one shared connection per server, with a
policy, rate limits, cancellation and live output. TLC checks the modules on
small instances; TLAPS proves the main properties for all.

## Parts of the system

| Part | State | Operations | What is hard |
|---|---|---|---|
| Command life cycle (`api/routes_exec.py`, `ssh/manager.py` `run`, `ssh/state.py` registries) | `_running`, `_cancel_requested`, the `jobs` row, the stream's end, the audit events | `POST /exec`, the background task `_execute_job`, `POST /cancel` | the task and several cancel handlers finish the same command; timeouts race cancels; run retries once; a crash loses all but the rows |
| Command stream (`ssh/state.py` `CommandStream`, websocket `/ws`) | history deque, subscribers and their queues, `closed` | publish, subscribe, unsubscribe, close | readers join, stall and leave while pumps, task and cancel handlers publish |
| SSH connection of a server (`ssh/manager.py`) | `_conn`, `_lock`, `_active_commands`, `_idle_close_task` | connect, close, reset, idle close, run's bookkeeping | everything shares one connection; a reset by one command hits the others; a wrong count closes a connection in use |
| Exec rate limit and admission (`api/rate_limit.py`, `exec_command`) | last call per server, lock per server | `wait_for_rate_limit`, the policy's decision, `create_job`, the stream | calls that sleep concurrently; a configuration, a row and a request id that change while they sleep |
| Login attempts (`api/rate_limit.py`, `api/routes_auth.py`) | attempt and failure windows per client | consume, record, clear | windows that slide, a success that clears |
| Auth sessions (`db/repositories.py`, `api/routes_auth.py`) | `user_sessions`, `users` | token, logout, revoke, rotate, password change, deactivation | rotation in two commits, revocations that race it |
| Policy (`policy.py`) | none | `evaluate_policy` | precedence of rules and patterns |
| Inventory (`db/crud.py`, `ensure_seed_data`, `bootstrap/ssh_import.py`) | `teams`, `projects`, `servers` | create, move, delete, seed, import | a team repeated in two tables; several commits in one operation; seeding and import that meet rows edited by hand |
| Configuration (`config/loader.py`) | `CONFIG`, one dictionary | reload | calls under way that read it before and after; servers listed both in the file and in the database |
| Scope (`auth/permissions.py`, `user_can_access_*`, listings) | `users.role`, `users.team_id`, `servers.team_id`, `servers.name` | exec, cancel, sessions, running commands, stream, administration | one question asked by name here and by id there, while servers are renamed and moved |
| Command line client (`wrapper/pctl.py` `exec`) | events received, exit status | POST, websocket, interrupt and cancel | a link that ends early, an end that comes twice or not at all |
| Audit (`audit/writer.py`) | log file, `audit_events` | append, read | none that a model tells apart |

They interact by calls on one asyncio event loop. `exec` checks scope, waits for
the rate limit, evaluates the policy, writes the job row, creates the stream and
starts the task; the task runs the command through the server's manager, whose
pumps publish to the stream; `cancel` finds the command in the registry,
terminates its process and then writes the same row and stream as the task;
websocket handlers subscribe to the stream. `pctl exec` posts, then reads such a
websocket.

The event loop is what makes the models small: code between two awaits that
really suspend is one step. The locks of `state.py` and of `CommandStream` guard
bodies that never await, so they are never contended and never suspend. The
manager's `_lock` is held across connects and closes and is modelled as the
first-come-first-served queue that `asyncio.Lock` is.

## Modules

### ExecLifecycle — the core

One command: the `exec` handler of request `r` (`exec[r]`), the task (`task[r]`
is the place in `_execute_job` or `run`, `attempt[r]` and `registered[r]` are
run's locals), its remote process of each attempt (`proc[r][a]`), the registries
(`running`, `flagged`), the row (`job`), the terminal events published on the
stream (`terms`) and its `closed` flag, the number of end-of-command audit events
(`audits`), and the cancel handlers (`cpc`, `target`, `handle`). `promised` is a
history variable: a cancel of the unfinished job was answered "cancelled" or
"queued".

Each action is the code from one suspension to the next: `Created` is everything
from the return of `create_process` to `process.wait`, `Drained` everything from
the end of the pumps (finally block, terminal event, row, log rows) to the audit
event's worker thread. `ConnectFails`, `CreateFails`, `WaitRaises` and
`TaskLosesConfig` are the exceptions the library or the configuration may raise; after
`CreateFails` the process of the attempt may be "unanswered": the exec request was
delivered, and the command runs without the service knowing. `Crash` is
the death of the service, after which registries are empty and rows as they were.

`JobContract` is what the two endpoints promise about one row: accepted, started,
ended, and never "completed" after an accepted cancel; the two kinds of stop race,
no other final status is overwritten. `ImplementsContract` says ExecLifecycle
implements it with `status <- job`.

### CommandStream

One stream: `log` is a history variable with every event's type, `history` the
deque and `queue[s]` a subscriber's queue, both as positions in `log`. Pumps, the
task and cancel handlers publish; each websocket handler is refused, or accepts,
subscribes, takes an event, sends it, and looks at `closed` after the send, which
is why `ReaderTakes` and `ReaderFinishes` are different steps. A reader whose
client is gone notices only when it sends. `MissedEnd` names the readers for whom
the history has dropped the end of the command.

### PctlClient

`pctl exec` as one of the readers of a CommandStream, which this module extends.
`client` is the place in `cmd_exec`, `got` how much of what the handler sent has
been received, `status` the exit status by its meaning, and `result` how `run`
ended, which the task's event carries; `interrupted` is a history variable. A step is one of the server (an action of
CommandStream), of the client, or a fault of the connection (`link`). A signal
during the POST ends pctl at once; during the stream it closes the websocket and
sends a cancel call.

### SSHManager

One manager: the connection's number (`conn`), the connections that are up
(`open`), the lock with its waiters (`queue`), `_active_commands` (`active`), the
idle-close tasks (`idler`, `current`), commands (`cmd`, `attempt`, `on`) and
cancel handlers that reset the connection. The finally block of `run` decrements
`_active_commands` whether or not the call incremented it (after a failed connect, or a
cancel before the connection), and the finally clause of an idle-close task forgets
`_idle_close_task` whoever that is. Three history variables measure what this does:
`counted` holds the commands that are in the count by right, `early` the number of
calls that left without being in it since nobody was, `spoiled` that of the idle closes
that began although somebody was.

### ExecRateLimit

`wait_for_rate_limit` for one server. Time is relative: `since` is the age of
`_last_sent_at`, up to `LongAgo`, after which no interval matters; `queue` is the
lock with its waiters, `left[c]` what is left of a sleep. A caller reads its
interval on arrival, so a reload may give neighbours different ones. `gap` is a
history variable: the age of the last limited call that was let through.

### ExecAdmission

The handler of `exec` for one server, from its checks to the task, on top of
ExecRateLimit: `LimitedCall`, `Sleeps` and `ComesThrough` contain `Arrives`,
`FallsAsleep` and `NeedNotSleep` or `Wakes`. `config` is what `CONFIG` says of the
server and of the global policies, `row` the server's row in the database, `local[c]`
the handler's local variables. The file's entry of a server hides its row's
`enabled`. What does not suspend is one step, so a call without an interval decides
at once. `latest`, `fresh`, `created` and `orphaned` are history variables.

### TeamScope

Who may see and do what with a command: the checks of exec and cancel, the sessions,
the stream and the running commands, each with the join or the name that its query
uses, while administrators change names and teams (`Administration`). The life of a
command is ExecLifecycle's in larger steps. `renamed`, `moved` and `entitled` are
history variables.

### AuthAttempts

The two sliding windows of `POST /auth/token` for one address and email. An entry
of `attempts` and `failures` is an age. A failed login is recorded, then its audit
is awaited, then the failures are counted again: `FailureAudited` is a step of its
own. `admitted` and `missed` are history variables that count what the windows
should hold without looking at them.

### AuthSessions

One user's account and session rows, numbered in the order they are created; since
all get the same time to live they expire in that order, so `expired` is a number.
A handler has no await between its database calls; but its transactions can be cut
off from one another, so an operation of several is a chain of steps that `doing`
walks through and `Interrupt` may end. `root` and `credential` are history
variables: the login that a session descends from by rotations, and the password
it goes back to.

### Policy, PolicyRules, PolicyMatching

`Policy` is the loop of `evaluate_policy` over global and server rules, for any
predicate `RuleMatches`. `PolicyRules` holds that predicate: `Matches` and the
operators under it follow the code's loops (exact argument lists, Linux flags and paths
with `posixpath.normpath`, kubectl) as functions of how much has been read, and
`Granted` defines the same by positions in the command line, without a loop. A path is
a number of leading slashes and a sequence of components. `PolicyMatching` puts the two
together and says of every rule and command line that `Matches` and `Granted` agree.

### Inventory

The tables of teams, projects and servers as one variable, `rows`, because seeding
and import compute a new value of all of them in one transaction. A team is its slug
and has a name, both unique and both changed by `UpdateTeam`; names are compared as the
database compares them, without case, so the seed's "Platform" is "platform".
`update_project` has two transactions: `UpdateProject`, then `ServersFollow`, unless
`UpdateStops` or `Stop` comes first (`astray`, a history variable, holds the servers
left behind). A start is `Seed`, then `Import`; `SeedFails` and `ImportFails` leave the
service down. `Session` is one record of the file and keeps what the
session has added and not flushed, since a query does not find it; `Sessions` is the
loop over the file.

## Runs

| Run | Instance | Shows |
|---|---|---|
| `exec_cancel_race` | 2 requests, 3 cancel calls, 1 crash, a configuration that may vanish | the safety properties of the life cycle and the refinement of the contract |
| `exec_live` | 1 request, 2 cancel calls, no crash, KILL obeyed, `wait` and `kill` that may raise | jobs end, cancels are answered and end the task, every end is recorded |
| `pctl_stream` | 1 reader, history of 2, `history_lines` 1 or 2, 2 lines, 1 cancel | a reader's feed has no gap and no repetition; pctl is told the end, exits, and its status says how the command ended or why pctl does not know |
| `ssh_sharing` | 3 commands, 1 reset by a cancel, 3 idle-close tasks, 1 dropped connection, failing connects, early cancels | the count is too low by the calls that left early at most, an idle close takes the connection from as many commands at most, and few idle-close tasks escape cancellation |
| `ssh_faults` | 2 commands, 3 idle-close tasks, the same faults | no leaked connection, everyone returns, an idle connection closes |
| `exec_admission` | 2 callers, 2 request ids, 4 configurations, intervals 1 and 2, 2 rows | calls are apart by their interval and all answered; a request id gets one task; a queued row is owned; grants are of the latest file or the call's own reading |
| `team_scope` | 2 users, 2 teams, 2 servers, 2 names, 1 command, 2 changes | names and ids admit the same users until a rename; the sender finds its own command |
| `refused_cancel` | the same | a violation, see the finding |
| `auth_attempts` | 2 calls at a time, window 3, limit 4, threshold 2 | a login is refused, and a failure flagged, exactly at the numbers configured |
| `auth_sessions` | 5 sessions, 3 passwords | rotation never multiplies a login; replaced passwords lock out; a password change leaves one token |
| `policy` | lists of up to two global rules and one server rule of 7; command lines of up to 3 arguments of 8 or 10 | a command is allowed exactly if a rule that holds grants it, and rules grant what they should |
| `inventory` | 2 teams, 3 names, 2 projects, 3 servers, one of them seeded, the others imported | a server's team follows its project's; import is idempotent, and fails only on a host listed twice or a team's name that is taken |

Bounds. Requests do not interact in ExecLifecycle except through the shared
connection, whose effect (a channel that ends) `ProcessEnds` includes; two requests
show that handlers of one leave the other alone. Three cancel calls are one more
than the places that differ (one that finds the process, one that finds the flag
only). Readers of a stream share nothing that one of them changes, so one reader
with a history of two is enough: `started`, two lines, a cancel and the task's end
overflow it. Three commands are the smallest number at which one leaves, one works
and one connects; a call schedules one idle-close task at most, when it leaves, so as
many identities as calls always leave one free (`ManagerAssumption`).
In `exec_admission` one caller sleeps while another comes, reloads and a request id
sent twice happen in between; a second row lets a server be deleted and created
again during the sleep. In `team_scope` two changes are a rename and a name given to
another server, or a move there and back; creations are free.
Five sessions let two logins be rotated and a password change issue one more; three
passwords are two replacements. The rate limit's and the windows' clocks are
relative and need no bound: an age stops growing when nothing can tell it apart.
The rules and arguments of `policy` have each kind of argument, prefix and pattern
that the code treats apart, and three arguments are enough for an option, its value
and what comes after. In `inventory` two teams let projects and servers move, and a
third name lets a team take another's name and leave its own; all projects have one
slug, so two teams need two projects; one server is the seed's, and the file may list one of
either team, so that the other team and its project are there to be cleaned up.

Fairness. The event loop runs every coroutine that can go on, so each task,
handler and reader is weakly fair in what the code does next. Waits end because
the code gives them timeouts, or the library does (login timeout, keepalive).
Likewise the clock of the rate limit goes on (`TimePasses`), and its lock is handed
on in order. pctl's process reads what has arrived (`ClientReads`), and its
handshake is answered. What no code owes is not fair: calls of exec and cancel,
clients that leave, interrupts, lines that are printed, reloads, and faults.
`LiveSpec` adds that a process that was sent KILL dies (`KillObeyed`);
`CancelsAnswered` and `AcknowledgedTaskEnds` do not need it, since the abort of the
channel ends the wait.

Deadlock is checked except in `policy`, which ends with its decision,
`auth_sessions`, where nothing is left to do when the user is deleted, and
`team_scope` and `refused_cancel`, where the commands are over and the changes used up.
In the others either something may always happen (time passes, a file is reloaded, the
service restarts), or the states in which every handler has answered and every task is
over are named (`AtRest`), and any other state without a step is an error.

## Finding

A refused cancel cancels (`refused_cancel`). `cancel_command` starts with
`request_cancel`, which puts the request id into `_cancel_requested`
(`routes_exec.py:289`), and only then looks the command up and checks the caller's
scope. The answers 404 and 403 leave the flag raised, and `SSHManager.run` reports
the command as cancelled: at once if it has not started its process, otherwise when
the process has ended. So a user's call, answered 403, decides how a command of
another team ends, although src/README.md:83 limits users to their team and
src/README.md:88 says that sessions and running commands are filtered by it. A call
for a request id that does not exist yet does the same to the later command of that
id. `CancelledByItsTeam`, which the run finds violated, says that a cancelled command
was cancelled by somebody who could access its server.

## What is not promised

The models show these behaviours; the properties leave them out by a condition
that names them. Documents of the repository say otherwise of two: of renamed servers
(src/README.md:88, running commands are filtered by the servers of the team) and of a
password reset that is cut off (src/README.md:281, the sessions are revoked, without a
condition).

* `ChannelErrors`: if `process.wait()` raises after registration, the finally
  block drops the cancel flag and `run` executes the command again.
  `StartedNeverRunAgain`, `PromiseKept` and the contract hold without such errors.
* If the connection is lost after the exec request was delivered and before its answer,
  `create_process` raises and `run` executes the command a second time, whether or not
  channels fail later. `StartedNeverRunAgain` is about commands whose process the
  service was given.
* `ConfigMayVanish`: a job whose server is removed before the task starts stays
  "queued" with an open stream. `JobsEnd` assumes it is not; `QueuedRowsAreOwned`
  excepts its task, and the rows whose stream could not be created after `create_job`
  had committed (`orphaned`).
* A call of `run` that leaves before it counts itself makes the count too low while
  others work, so an idle close may take their connection, and its finally clause may
  forget an idle-close task that then cannot be cancelled. `CountIsNearlyRight`,
  `IdleCloseSparesCommands` and `FewOrphanIdlers` bound the damage by the number of such
  calls and closes; without them the count is exact and no command is hit.
* After a cancel lines may follow the terminal event, and a reader that took the
  terminal event before the stream was closed waits until its client leaves. So does a
  reader that joins when the lines after a cancel have pushed the terminal event out
  of the history (`MissedEnd`), if nothing else is published.
* A websocket that ends without a terminal event makes pctl exit with 0, and so does
  a finished event whose exit code the channel lost. `ExitStatusIsTrue` says so. A POST
  that fails or is interrupted leaves the command running unwatched, although pctl has
  made its request id and could cancel it.
* A crash leaves unfinished rows as they are.
* A password reset, or a change, that is cut off after its first commit leaves older
  sessions in force until a later change, reset, deletion or logout-all
  (`torn` in AuthSessions). A rotation that is cut off leaves no session.
* Switching an account off revokes nothing: switched on again, its sessions are in
  force. Deleting a user revokes the sessions and is then refused while their rows
  exist. Every start gives the seeded superadmin its configured password and revokes
  nothing; AuthSessions is about other users.
* Rate limits and attempt windows are in memory: a restart forgets them.
* After the rate-limit sleep `exec` evaluates the policy with the server's
  configuration from before it and the global policies from after it; a grant may then
  be of neither file as a whole (`GrantsAreFresh` says what it still needs). Nor are
  the scope and the server's row looked up again: the sender, or the server, may by
  then belong to another team (`OwnJobIsSeen` excepts them).
* The registry of running commands keeps the server's name of the call. After a
  rename the command is not shown to its team, or shown to the team of a new server of
  that name, and a cancel is refused even to a superadmin (`RunningScopeAgrees` excepts
  renamed servers).
* What kubectl takes for an option is the code's notion: `-nX`, `--all-namespaces=true`
  and resources after the first, as in `pod/x secret/y`, pass by the checks of namespace
  and resource. `Granted` shares that notion, so `RulesMatchWhatTheyGrant` does not tell.
* The manager of a server keeps the configuration of its first command until the
  service restarts; no reload, and no edit of the server's host, reaches it.
* An `update_project` that is cut off leaves its servers with the old team, and the
  seed may put its server into a project of another team
  (`ServersHaveTheirProjectsTeam` excepts both).
* A file that lists a new host twice keeps the service from starting, unless the
  import created a team, a project or a proxy between the two. So does a team that
  is missing from the tables while another team has its name: one of the file's
  (`ImportFails`), or the seed's "Platform" (`SeedFails`). The import's clean-up
  also deletes empty projects and teams that an administrator made.

## Proofs

`ExecLifecycleProofs` proves for any number of requests, cancel calls and crashes:

* `TypeCorrect`, `RegistryIsSound`, `ClosedStreamsHaveEnds` and `EndsAreRecorded`
  without assumptions on the library;
* `CancelPromisesAreKept`, `RetryRunsNothingAgain`, `RowsArePublished` and
  `ExecImplementsContract` from `~ChannelErrors`. With such errors TLC finds each of
  them violated, since the command may be executed again after a cancel.

The argument. Each part is inductive only together with what it says of its
neighbours. `SafeInv` joins the registry invariant with the type invariant, with
what the exec handler's place says of job and task (`HandlerFirst`,
`HandlerHasJob`), and with `RegisteredInRegion`: an attempt is registered only
between its registration and its finally block, so an entry of the registry
belongs to the current attempt. `EndedTaskPublished` carries `ClosedStreamHasEnd`
over the task's last steps. A promise is kept because the flag stays up until a
registered attempt ends: `PromiseInv` says that a promised job that may still end
has its flag up (`PromiseFlagged`, and `HandlerFlagged` for the handler that has
yet to make the promise), and that no registered attempt is retried
(`RetryUnregistered`). `RetryInv` says that a retry follows an attempt of which
the service was given no process. For the refinement `JobInv` adds which rows go with each place of the
task and of a cancel handler; every step then maps to a step of `JobContract` or
leaves its variable alone. `RowWasPublished` leans on who closed the stream:
if it is closed before the task has published, a cancel handler did it and has
published "cancelled" (`ClosedByCancel` in `PublishedInv`). `EndInv` says whose turn
the audit is: a closed stream has been audited, or some handler is about to.

`SSHManagerProofs` proves `LockIsExclusive`, `ConnectionNeverLeaks`, `CountIsRight`,
`IdleCloseWaits`, `IdlersCanBeCancelled` and `ManagerTypesCorrect` for any number of
commands, cancel handlers, idle-close tasks and dropped connections, whatever fails.
`LockInv` says that whoever opens or closes the connection is the head of the lock's
queue, and with it that nobody else does; `ConnInv` that meanwhile `_conn` names no
connection that is up, so what replaces or forgets it loses nothing. `CountInv` places
the calls in the count: a call whose process is created or runs is in it, so if an idle
close finds the count at zero, calls that left early have taken out what still works.
`CloserPays` says what the end of an idle-close task may do: it leaves no orphan, since
nobody was in the count when its close began and nobody is there to schedule another, or
it leaves one and the close is among the `spoiled`. `IdlersAreOwned` says that there are
no more idle-close tasks than calls that have returned, so that an identity is free.

`PctlClientProofs` proves `StreamTypesCorrect`, `ReadersGetARun` and
`FinishedReadersHaveAll` of CommandStream and `ExitStatusIsRight` of PctlClient for any
readers, history limits and lengths of output. `StreamInv` says that the history ends
with the stream's last event and that what a reader was sent and has queued is a run of
consecutive events, up to the last one while it subscribes; joining keeps that because
the history is copied and the queue registered without a suspension. `EndInv` says that
nothing follows a terminal event unless somebody cancelled. Every step with pctl is one
of the stream or leaves it alone (`PctlUsesStream`), so both invariants hold there;
`ResultInv` ties the terminal events to the task's result, `CancelInv` the cancelled ones
to a cancel, and `GoneInv` the exit status to the last event received.

`AuthProofs` proves `SessionTypesCorrect`, `RotationKeepsOneInForce`, `PasswordsLockOut`
and `ChangeLeavesOne` for any number of sessions and passwords. `LoginInv` carries the
first two: an operation in progress is about a row (`NamesRow`), and between the two
transactions of a rotation no session of that login is in force (`ReplacedIsOut`), which
is why the new row is alone. `EvictionInv` says what a password operation has done so
far: all other sessions are out (`OthersAreOut`), then all (`AllAreOut`), and while none
is under way every session in force has the current password or the operation was torn
(`CredentialsAreNew`). Of the login windows it proves `AttemptTypesCorrect`,
`AttemptsAreLimited` and `ReportsAreRight` for any limit, threshold and lengths of
window. The code forgets old entries only when it touches a window, and only from the
front; `WindowsInv` says that a window is in the order of time and that the full history
of admitted attempts, or of failures, differs from it by entries that the window has
outlived, so that what counts in one counts in the other.

`ExecAdmissionProofs` proves `CallsSpaced` of ExecRateLimit for any callers and
intervals. A sleeper is the holder of the lock (`SleeperHolds`), its remaining sleep and
the time since the last call add up to its interval at least (`SleepIsEnough`), and the
stamp is the last call's (`StampIsRight`). Of the handler around it, it proves
`AdmissionTypesCorrect`, `AdmissionKeepsSpacing`, `TasksAreCreatedOnce`,
`QueuedRowsOwned` and `GrantsFollowTheFile` for any callers, request ids and
configurations. The spacing needs no invariant of its own: every step of the handler is
a step of ExecRateLimit or leaves its variables alone, so `CallsSpaced` applies.
`TasksAreCreatedOnce` and `QueuedRowsOwned` follow from who owns a row: a request id has
a row before it has a task, one handler at most is between the two, and none is when the
task exists. The last is an action property; `ReadingIsFresh` says that a sleeping call
that no reload has overtaken holds the server's entry of the latest file.

`TeamScopeProofs` proves `ScopeTypesCorrect`, `OwnJobsAreSeen` and
`RunningScopesAgree` for any users, teams, servers and changes. What the argument
turns on: names are unique among the rows there are, a server with a job is never
deleted (the foreign key), and a call's name is its server's until that is renamed; a
sender whose call was checked stays in the server's team, or a superadmin, until
one of the two is moved.

`PolicyProofs` proves `PolicyAllowsByARule` for any rules, command lines and matching
predicate: the rules before `i` have refused or do not hold (`LoopInv`), and what is
tried is what holds for the server (`TriedIsEffective`). It proves
`RulesMatchAsGranted` for any rules and command lines of any length, and from both
`CommandsAllowedAsGranted`: with `Matches` as the predicate, what is allowed is what a
rule grants. Each loop is a function of how much has been read, shown to exist
(`LoopExists`) and followed by an induction up to the length (`Induction`).
`KubectlRead`: a `-n` in a row of them is a flag or the value of the one before by its
place in the row (`ValueStep`), so the namespace read is that of the last flag.
`LinuxRead`: the paths collected are as many as there are path positions. `PathRead`: the
components on the stack are those of an increasing sequence of positions, and a component
stays exactly if no later `..` takes it, which is a balance of downs and ups after it; the
component at a place of the result then has that many kept ones before it
(`Ranks`, `NormalIsPlace`).

`InventoryProofs` proves `InventoryTypesCorrect`, `ServersFollowProjects`, `KeysHold`,
`ImportFailsOnConflicts` and `RestartsChangeNothing` for any inventory and any file.
What a transaction keeps is `Sound`: the tables' types, the foreign keys and the unique
pair of team and slug; `TeamsAgree` adds that servers name their projects' teams, except
the servers that are astray and those of the project under way. The two loops of the
import are a function of the number of records handled (`Sessions`). The module proves
induction over the natural numbers up to a bound from the well-founded inclusion of
finite sets (`Induction`), that the function is what its definition says (`LoopExists`,
`SessionsStep`), and then the loop's invariant record by record: the rows stay sound, a
pending host that is pending twice is listed twice, and a team that is missing while
another has its name was so before the import, since the import makes teams only under
their own names (`TakenBefore`). That an id is left for a new project (`IdIsNew`) is a
pigeonhole argument over the pairs of team and slug. `RestartsChangeNothing` says what
the first import leaves: every host of the file has the row, project and team that the
file gives it (`FirstHas`), and the clean-up takes none of them. So each record of the
second loop finds what it would create, with nothing pending (`SecondSessions`), and
what has been cleaned up has nothing to clean up (`CleanedUpAgain`).

The proofs rest on the assumptions that the modules name and TLC evaluates in every run:
the kinds of actor are disjoint, bounds are natural numbers, in SSHManager the calls are
finitely many and have as many identities of idle-close tasks, and in Inventory the sets
of slugs and ids are finite, every slug of a team can be a name, the files are sequences
of typed records whose alias determines team and project, as
`_derive_team_and_project` does, and there are as many project ids as pairs of team and
slug. In PolicyMatching a rule has one of the three forms of the code with integer
bounds on its paths, and the words of command lines are arguments.

What is left to TLC: liveness (`WF_` and leads-to), which is out of TLAPS's reach here.
Every other property of a passing run is the conclusion of a theorem, and so is every
type invariant.

## Not modelled

Parsing and merging of the configuration files, the settings, which no reload
changes, database set-up and migrations; the contents of listings, which only read;
the audit log and the log files, which are only written; proxies, actions and API
tokens, whose operations concern one row each; share tokens of streams; the parsing of
the SSH configuration; the table of SSH managers; the subcommands of the command line
client that are one request each, and its state file, which two shells may write at
once. PROJECT.json has the list with its reasons.

## Plan

1. A composition of ExecLifecycle with SSHManager: commands that share a connection
   and its resets, with the lock that cancel handlers wait for.
2. An abstract specification of who may act with which token, implemented by
   AuthSessions between interruptions.
3. Names of projects, hosts and ports of servers in Inventory, and the limits on the
   lengths of names, which an import may exceed.
