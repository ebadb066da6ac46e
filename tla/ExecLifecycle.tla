---------------------------- MODULE ExecLifecycle ----------------------------
(***************************************************************************)
(* The life of one remote command: the handler of POST /api/v1/exec, the   *)
(* background task _execute_job with SSHManager.run inside it, and the     *)
(* handlers of POST /api/v1/cancel, which meet in the in-memory registries *)
(* of app/ssh/state.py, in the jobs row and in the command's stream.       *)
(*                                                                         *)
(* Everything runs on one asyncio event loop, so one action is the code    *)
(* between two awaits that really suspend.  The locks of state.py and of   *)
(* CommandStream guard bodies without an await: they are never contended   *)
(* and never suspend.  What does suspend: SSHManager.connect and reset,    *)
(* create_process, process.wait, the gather of the two pumps, and the      *)
(* worker threads of write_audit_event.                                    *)
(***************************************************************************)
EXTENDS Naturals, Sequences

CONSTANTS
    Requests,        \* request ids; one exec call each (the column is unique)
    Cancellers,      \* calls of /api/v1/cancel
    ChannelErrors,   \* process.wait or kill of the SSH library may raise
    ConfigMayVanish, \* a server may be removed between accepting and starting a job
    MaxCrashes       \* bound: how often the service process may crash

ASSUME LifecycleAssumption == /\ ChannelErrors \in BOOLEAN
                              /\ ConfigMayVanish \in BOOLEAN
                              /\ MaxCrashes \in Nat

VARIABLES
    exec,        \* exec[r]: where the exec handler of r is
    task,        \* task[r]: where _execute_job / SSHManager.run of r is
    attempt,     \* attempt[r]: run's loop variable
    registered,  \* registered[r]: run's local command_registered
    proc,        \* proc[r][a]: the remote process attempt a created
    running,     \* _running: the attempt whose process is entered for r, 0 if none
    flagged,     \* _cancel_requested
    job,         \* job[r]: status of the jobs row, "none" before create_job
    terms,       \* terms[r]: the terminal events published on r's stream
    closed,      \* closed[r]: CommandStream.closed
    audits,      \* audits[r]: exec_finished and exec_error audit events written
    cpc,         \* cpc[c]: where cancel handler c is
    target,      \* target[c]: the request id c was called with
    handle,      \* handle[c]: the attempt whose process c terminates
    promised,    \* history: r was answered "cancelled" or "queued" while unfinished
    crashes

execVars   == <<exec>>
taskVars   == <<task, attempt, registered>>
recordVars == <<job, terms, closed>>
cancelVars == <<cpc, target, handle>>
vars == <<exec, taskVars, proc, running, flagged, recordVars, audits,
          cancelVars, promised, crashes>>

Terminal     == {"completed", "failed", "timeout", "cancelled"}
JobStatus    == {"none", "queued", "running"} \cup Terminal
EventType    == {"finished", "error", "cancelled"}
\* "unanswered": the exec request was delivered, but create_process raised before its
\* reply; the command may run, and nothing of the service knows of it.
ProcStatus   == {"none", "live", "killed", "ended", "unanswered"}
ExecStatus   == {"new", "limiting", "rejected", "auditing", "accepted", "lost"}
\* The places of run between registration and the end of its finally block.
InRegion     == {"waiting", "terminating", "timedout", "draining", "resetting"}
TaskStatus   == {"none", "ready", "died", "connecting", "creating", "aborting",
                 "auditing", "done", "lost"} \cup InRegion
CancelStatus == {"idle", "refused", "unknown", "queued", "terminating",
                 "resetting", "failed", "auditing", "done", "lost"}
Attempts     == 1..2

Init == /\ exec       = [r \in Requests |-> "new"]
        /\ task       = [r \in Requests |-> "none"]
        /\ attempt    = [r \in Requests |-> 1]
        /\ registered = [r \in Requests |-> FALSE]
        /\ proc       = [r \in Requests |-> [a \in Attempts |-> "none"]]
        /\ running    = [r \in Requests |-> 0]
        /\ flagged    = {}
        /\ job        = [r \in Requests |-> "none"]
        /\ terms      = [r \in Requests |-> <<>>]
        /\ closed     = [r \in Requests |-> FALSE]
        /\ audits     = [r \in Requests |-> 0]
        /\ cpc        = [c \in Cancellers |-> "idle"]
        /\ target     \in [Cancellers -> Requests]
        /\ handle     = [c \in Cancellers |-> 1]
        /\ promised   = [r \in Requests |-> FALSE]
        /\ crashes    = 0
-----------------------------------------------------------------------------
(* Steps that are shared by several places of the code.                    *)

At(r, place)   == task[r] = place
Goto(r, place) == task' = [task EXCEPT ![r] = place]
ExecGoto(r, place)   == exec' = [exec EXCEPT ![r] = place]
CancelGoto(c, place) == cpc' = [cpc EXCEPT ![c] = place]

\* is_cancel_requested, and the same test inside register_running_command.
CancelRequested(r) == r \in flagged

\* Mutated: the entry is not removed.
LeaveRegistry_KeepsEntry(r) ==
    /\ flagged'    = IF registered[r] THEN flagged \ {r} ELSE flagged
    /\ registered' = [registered EXCEPT ![r] = FALSE]
    /\ UNCHANGED running

\* Mutated: unregisters although this attempt registered nothing.
LeaveRegistry_Always(r) ==
    /\ running'    = [running EXCEPT ![r] = 0]
    /\ flagged'    = flagged \ {r}
    /\ registered' = [registered EXCEPT ![r] = FALSE]

\* The finally block of run: unregister_running_command if this attempt registered.
LeaveRegistry(r) ==
    /\ running'    = IF registered[r] THEN [running EXCEPT ![r] = 0] ELSE running
    /\ flagged'    = IF registered[r] THEN flagged \ {r} ELSE flagged
    /\ registered' = [registered EXCEPT ![r] = FALSE]

\* Mutated: a timeout is published as success.
TerminalEvent_Success(status) == IF status = "cancelled" THEN "cancelled" ELSE "finished"

\* The terminal event of a run that returned a result.
TerminalEvent(status) == CASE status = "completed" -> "finished"
                           [] status = "timeout"   -> "error"
                           [] status = "cancelled" -> "cancelled"

\* Mutated: the test of stream.closed is inverted.
PublishResult_IfClosed(r, status) ==
    terms' = IF closed[r] THEN [terms EXCEPT ![r] = Append(@, TerminalEvent(status))]
             ELSE terms

PublishResult(r, status) ==
    terms' = IF closed[r] THEN terms
             ELSE [terms EXCEPT ![r] = Append(@, TerminalEvent(status))]

\* Mutated: every cancelled run leaves the audit to a cancel handler.
AuditIsCancellers_Always(r, status) == status = "cancelled"

\* The audit is left to the cancel handler if that has closed the stream already.
AuditIsCancellers(r, status) == status = "cancelled" /\ closed[r]

\* run returned a result: its finally block, the terminal event, the row and the
\* log rows, up to the audit event.  Nothing in between suspends.
Finish(r, status) ==
    /\ LeaveRegistry(r)
    /\ PublishResult(r, status)
    /\ job' = [job EXCEPT ![r] = status]
    /\ Goto(r, IF AuditIsCancellers(r, status) THEN "done" ELSE "auditing")
    /\ UNCHANGED <<attempt, closed>>

\* run raised: the event is published whether or not the stream is closed.
Fail(r) ==
    /\ LeaveRegistry(r)
    /\ terms' = [terms EXCEPT ![r] = Append(@, "error")]
    /\ job'   = [job EXCEPT ![r] = "failed"]
    /\ Goto(r, "auditing")
    /\ UNCHANGED <<attempt, closed>>

SetProc(r, a, s) == proc' = [proc EXCEPT ![r][a] = s]
-----------------------------------------------------------------------------
(* The exec handler.                                                       *)

\* The scope check or get_server_config fails.
ExecRefused(r) ==
    /\ exec[r] = "new"
    /\ ExecGoto(r, "rejected")
    /\ UNCHANGED <<taskVars, proc, running, flagged, recordVars, audits, cancelVars,
                   promised, crashes>>

\* Scope and configuration are fine: the rate limit is awaited.
ExecAdmitted(r) ==
    /\ exec[r] = "new"
    /\ ExecGoto(r, "limiting")
    /\ UNCHANGED <<taskVars, proc, running, flagged, recordVars, audits, cancelVars,
                   promised, crashes>>

\* The policy denies the command.
ExecDenied(r) ==
    /\ exec[r] = "limiting"
    /\ ExecGoto(r, "rejected")
    /\ UNCHANGED <<taskVars, proc, running, flagged, recordVars, audits, cancelVars,
                   promised, crashes>>

\* The policy allows it: job row, stream row and stream are created.
ExecQueues(r) ==
    /\ exec[r] = "limiting"
    /\ ExecGoto(r, "auditing")
    /\ job' = [job EXCEPT ![r] = "queued"]
    /\ UNCHANGED <<taskVars, proc, running, flagged, terms, closed, audits,
                   cancelVars, promised, crashes>>

\* The exec_queued audit is written: the background task is created.
ExecAccepts(r) ==
    /\ exec[r] = "auditing"
    /\ ExecGoto(r, "accepted")
    /\ Goto(r, "ready")
    /\ UNCHANGED <<attempt, registered, proc, running, flagged, recordVars, audits,
                   cancelVars, promised, crashes>>
-----------------------------------------------------------------------------
(* The background task: _execute_job and run.                              *)

\* get_server_config raises outside the try block: the row stays queued and the
\* stream open.
TaskLosesConfig(r) ==
    /\ ConfigMayVanish
    /\ At(r, "ready")
    /\ Goto(r, "died")
    /\ UNCHANGED <<execVars, attempt, registered, proc, running, flagged, recordVars,
                   audits, cancelVars, promised, crashes>>

TaskStarts(r) ==
    /\ At(r, "ready")
    /\ Goto(r, "connecting")
    /\ job' = [job EXCEPT ![r] = "running"]
    /\ UNCHANGED <<execVars, attempt, registered, proc, running, flagged, terms,
                   closed, audits, cancelVars, promised, crashes>>

\* Connected, but a cancel came first: run returns before it creates a process.
ConnectedTooLate(r) ==
    /\ At(r, "connecting")
    /\ CancelRequested(r)
    /\ Finish(r, "cancelled")
    /\ UNCHANGED <<execVars, proc, audits, cancelVars, promised, crashes>>

Connected(r) ==
    /\ At(r, "connecting")
    /\ ~CancelRequested(r)
    /\ Goto(r, "creating")
    /\ UNCHANGED <<execVars, attempt, registered, proc, running, flagged, recordVars,
                   audits, cancelVars, promised, crashes>>

\* create_process returned, but a cancel came first: the process is terminated.
CreatedTooLate(r) ==
    /\ At(r, "creating")
    /\ CancelRequested(r)
    /\ SetProc(r, attempt[r], "live")
    /\ Goto(r, "aborting")
    /\ UNCHANGED <<execVars, attempt, registered, running, flagged, recordVars,
                   audits, cancelVars, promised, crashes>>

\* create_process returned and register_running_command accepts the process.
Created(r) ==
    /\ At(r, "creating")
    /\ ~CancelRequested(r)
    /\ SetProc(r, attempt[r], "live")
    /\ Goto(r, "waiting")
    /\ registered' = [registered EXCEPT ![r] = TRUE]
    /\ running'    = [running EXCEPT ![r] = attempt[r]]
    /\ UNCHANGED <<execVars, attempt, flagged, recordVars, audits, cancelVars,
                   promised, crashes>>

\* connect raised: the except clause resets the connection.
ConnectFails(r) ==
    /\ At(r, "connecting")
    /\ Goto(r, "resetting")
    /\ UNCHANGED <<execVars, attempt, registered, proc, running, flagged, recordVars,
                   audits, cancelVars, promised, crashes>>

\* create_process raised, before the exec request reached the server or after.
CreateFails(r) ==
    /\ At(r, "creating")
    /\ Goto(r, "resetting")
    /\ proc' = proc \/ SetProc(r, attempt[r], "unanswered")
    /\ UNCHANGED <<execVars, attempt, registered, running, flagged, recordVars,
                   audits, cancelVars, promised, crashes>>

\* The remote process exits by itself or on a signal, or its channel is gone
\* because another command's reset closed the shared connection.
ProcessEnds(r, a) ==
    /\ proc[r][a] \in {"live", "killed"}
    /\ SetProc(r, a, "ended")
    /\ UNCHANGED <<execVars, taskVars, running, flagged, recordVars, audits,
                   cancelVars, promised, crashes>>

\* Mutated: the timeout reaches the except clause, which retries.
WaitEnds_Retries(r) ==
    /\ At(r, "waiting")
    /\ Goto(r, IF proc[r][attempt[r]] = "ended" THEN "draining" ELSE "resetting")
    /\ UNCHANGED <<execVars, attempt, registered, proc, running, flagged, recordVars,
                   audits, cancelVars, promised, crashes>>

\* process.wait() returned, the pumps still have to drain; or it timed out.
WaitEnds(r) ==
    /\ At(r, "waiting")
    /\ Goto(r, IF proc[r][attempt[r]] = "ended" THEN "draining" ELSE "terminating")
    /\ UNCHANGED <<execVars, attempt, registered, proc, running, flagged, recordVars,
                   audits, cancelVars, promised, crashes>>

WaitRaises(r) ==
    /\ ChannelErrors
    /\ At(r, "waiting")
    /\ SetProc(r, attempt[r], "ended")
    /\ Goto(r, "resetting")
    /\ UNCHANGED <<execVars, attempt, registered, running, flagged, recordVars,
                   audits, cancelVars, promised, crashes>>

\* _terminate_process: TERM was ignored for 3 s, so KILL is sent.
TaskKills(r) ==
    /\ At(r, "terminating") \/ At(r, "aborting")
    /\ proc[r][attempt[r]] = "live"
    /\ SetProc(r, attempt[r], "killed")
    /\ UNCHANGED <<execVars, taskVars, running, flagged, recordVars, audits,
                   cancelVars, promised, crashes>>

\* _terminate_process returns: the process ended, or ignored KILL for 3 s as well.
TerminateReturns(r) ==
    /\ At(r, "terminating")
    /\ proc[r][attempt[r]] \in {"killed", "ended"}
    /\ Goto(r, "timedout")
    /\ UNCHANGED <<execVars, attempt, registered, proc, running, flagged, recordVars,
                   audits, cancelVars, promised, crashes>>

AbortReturns(r) ==
    /\ At(r, "aborting")
    /\ proc[r][attempt[r]] \in {"killed", "ended"}
    /\ Finish(r, "cancelled")
    /\ UNCHANGED <<execVars, proc, audits, cancelVars, promised, crashes>>

\* The pumps reached the end of both pipes, which needs the channel to be over.
Drained(r) ==
    /\ At(r, "draining")
    /\ proc[r][attempt[r]] = "ended"
    /\ Finish(r, IF CancelRequested(r) THEN "cancelled" ELSE "completed")
    /\ UNCHANGED <<execVars, proc, audits, cancelVars, promised, crashes>>

\* The same after a timeout, which is reported without a look at the cancel flag.
TimeoutDrained(r) ==
    /\ At(r, "timedout")
    /\ proc[r][attempt[r]] = "ended"
    /\ Finish(r, "timeout")
    /\ UNCHANGED <<execVars, proc, audits, cancelVars, promised, crashes>>

\* reset() returned after the first attempt: the second one starts.
Retry(r) ==
    /\ At(r, "resetting")
    /\ attempt[r] = 1
    /\ LeaveRegistry(r)
    /\ attempt' = [attempt EXCEPT ![r] = 2]
    /\ Goto(r, "connecting")
    /\ UNCHANGED <<execVars, proc, recordVars, audits, cancelVars, promised, crashes>>

\* reset() returned after the second attempt: the error is raised.
GiveUp(r) ==
    /\ At(r, "resetting")
    /\ attempt[r] = 2
    /\ Fail(r)
    /\ UNCHANGED <<execVars, proc, audits, cancelVars, promised, crashes>>

\* Mutated: the stream is left open.
TaskAudited_LeavesOpen(r) ==
    /\ At(r, "auditing")
    /\ Goto(r, "done")
    /\ audits' = [audits EXCEPT ![r] = @ + 1]
    /\ UNCHANGED <<execVars, attempt, registered, proc, running, flagged, recordVars,
                   cancelVars, promised, crashes>>

TaskAudited(r) ==
    /\ At(r, "auditing")
    /\ Goto(r, "done")
    /\ audits' = [audits EXCEPT ![r] = @ + 1]
    /\ closed' = [closed EXCEPT ![r] = TRUE]
    /\ UNCHANGED <<execVars, attempt, registered, proc, running, flagged, job, terms,
                   cancelVars, promised, crashes>>
-----------------------------------------------------------------------------
(* The cancel handler.                                                     *)

\* Mutated: the flag is set for registered commands only.
RaiseFlag_IfRunning(r) == flagged' = IF running[r] # 0 THEN flagged \cup {r} ELSE flagged

\* request_cancel: the flag is set before anything is checked.
RaiseFlag(r) == flagged' = flagged \cup {r}

Unfinished(r) == job[r] \in {"queued", "running"}

\* The scope check fails: 403.
CancelRefused(c) ==
    /\ cpc[c] = "idle"
    /\ job[target[c]] # "none"
    /\ RaiseFlag(target[c])
    /\ CancelGoto(c, "refused")
    /\ UNCHANGED <<execVars, taskVars, proc, running, recordVars, audits, target,
                   handle, promised, crashes>>

\* Neither a running command nor a job row: 404.
CancelUnknown(c) ==
    /\ cpc[c] = "idle"
    /\ job[target[c]] = "none"
    /\ RaiseFlag(target[c])
    /\ CancelGoto(c, "unknown")
    /\ UNCHANGED <<execVars, taskVars, proc, running, recordVars, audits, target,
                   handle, promised, crashes>>

\* A job row, but no running command: "cancel request queued".
CancelQueued(c) ==
    /\ cpc[c] = "idle"
    /\ job[target[c]] # "none"
    /\ running[target[c]] = 0
    /\ RaiseFlag(target[c])
    /\ CancelGoto(c, "queued")
    /\ promised' = [promised EXCEPT ![target[c]] = @ \/ Unfinished(target[c])]
    /\ UNCHANGED <<execVars, taskVars, proc, running, recordVars, audits, target,
                   handle, crashes>>

\* A running command: cancel_process is started on its process.
CancelFound(c) ==
    /\ cpc[c] = "idle"
    /\ running[target[c]] # 0
    /\ RaiseFlag(target[c])
    /\ CancelGoto(c, "terminating")
    /\ handle' = [handle EXCEPT ![c] = running[target[c]]]
    /\ UNCHANGED <<execVars, taskVars, proc, running, recordVars, audits, target,
                   promised, crashes>>

\* cancel_process: TERM was ignored for 3 s, so KILL is sent.
CancelKills(c) ==
    /\ cpc[c] = "terminating"
    /\ proc[target[c]][handle[c]] = "live"
    /\ SetProc(target[c], handle[c], "killed")
    /\ UNCHANGED <<execVars, taskVars, running, flagged, recordVars, audits,
                   cancelVars, promised, crashes>>

\* Mutated: the wait after KILL has no timeout; the channel is not aborted.
CancelAborts_Never(c) == FALSE
CancelAborts_KeepsChannel(c) ==
    /\ cpc[c] = "terminating"
    /\ proc[target[c]][handle[c]] = "killed"
    /\ CancelGoto(c, "resetting")
    /\ UNCHANGED <<execVars, taskVars, proc, running, flagged, recordVars, audits,
                   target, handle, promised, crashes>>

\* KILL was ignored as well: the channel is aborted, then the connection is reset.
CancelAborts(c) ==
    /\ cpc[c] = "terminating"
    /\ proc[target[c]][handle[c]] = "killed"
    /\ SetProc(target[c], handle[c], "ended")
    /\ CancelGoto(c, "resetting")
    /\ UNCHANGED <<execVars, taskVars, running, flagged, recordVars, audits,
                   target, handle, promised, crashes>>

\* The process is over for the handler: it publishes, closes the stream, writes
\* the row and removes whatever entry the registry has for the request id.
Acknowledge(c, r) ==
    /\ terms'    = [terms EXCEPT ![r] = Append(@, "cancelled")]
    /\ closed'   = [closed EXCEPT ![r] = TRUE]
    /\ job'      = [job EXCEPT ![r] = "cancelled"]
    /\ running'  = [running EXCEPT ![r] = 0]
    /\ promised' = [promised EXCEPT ![r] = TRUE]
    /\ CancelGoto(c, "auditing")

CancelTakesEffect(c) ==
    /\ \/ cpc[c] = "terminating" /\ proc[target[c]][handle[c]] = "ended"
       \/ cpc[c] = "resetting"
    /\ Acknowledge(c, target[c])
    /\ UNCHANGED <<execVars, taskVars, proc, flagged, audits, target, handle, crashes>>

\* cancel_process returned ok = False: 500, and nothing is undone.
CancelFails(c) ==
    /\ ChannelErrors
    /\ cpc[c] = "terminating"
    /\ CancelGoto(c, "failed")
    /\ UNCHANGED <<execVars, taskVars, proc, running, flagged, recordVars, audits,
                   target, handle, promised, crashes>>

\* The cancel_requested and exec_finished audit events are written.
CancelAudited(c) ==
    /\ cpc[c] = "auditing"
    /\ CancelGoto(c, "done")
    /\ audits' = [audits EXCEPT ![target[c]] = @ + 1]
    /\ UNCHANGED <<execVars, taskVars, proc, running, flagged, recordVars,
                   target, handle, promised, crashes>>
-----------------------------------------------------------------------------
\* The service process dies: handlers, tasks, registries and connections are gone,
\* the database rows stay.  The start-up code (main.lifespan) looks at no job.
Crash ==
    /\ crashes < MaxCrashes
    /\ crashes' = crashes + 1
    /\ exec' = [r \in Requests |-> IF exec[r] \in {"limiting", "auditing"}
                                   THEN "lost" ELSE exec[r]]
    /\ task' = [r \in Requests |-> IF task[r] \in {"none", "died", "done"}
                                   THEN task[r] ELSE "lost"]
    /\ registered' = [r \in Requests |-> FALSE]
    /\ proc'    = [r \in Requests |-> [a \in Attempts |->
                      IF proc[r][a] \in {"live", "killed"} THEN "ended" ELSE proc[r][a]]]
    /\ running' = [r \in Requests |-> 0]
    /\ flagged' = {}
    /\ cpc' = [c \in Cancellers |-> IF cpc[c] \in {"terminating", "resetting", "auditing"}
                                    THEN "lost" ELSE cpc[c]]
    /\ UNCHANGED <<attempt, recordVars, audits, target, handle, promised>>

TaskStep(r) == \/ TaskStarts(r) \/ ConnectedTooLate(r) \/ Connected(r)
               \/ CreatedTooLate(r) \/ Created(r) \/ WaitEnds(r) \/ TaskKills(r)
               \/ TerminateReturns(r) \/ AbortReturns(r) \/ Drained(r)
               \/ TimeoutDrained(r) \/ Retry(r) \/ GiveUp(r) \/ TaskAudited(r)

\* What the task may do but need not: the library or the configuration fails it.
TaskFault(r) == \/ TaskLosesConfig(r) \/ ConnectFails(r) \/ CreateFails(r)
                \/ WaitRaises(r)

ExecStep(r) == \/ ExecRefused(r) \/ ExecAdmitted(r) \/ ExecDenied(r)
               \/ ExecQueues(r) \/ ExecAccepts(r)

CancelArrives(c) == \/ CancelRefused(c) \/ CancelUnknown(c)
                    \/ CancelQueued(c) \/ CancelFound(c)

CancelStep(c) == \/ CancelKills(c) \/ CancelAborts(c)
                 \/ CancelTakesEffect(c) \/ CancelAudited(c)

\* Nothing is left to do: every handler answered and every task is over.
AtRest == /\ \A r \in Requests : /\ exec[r] \in {"rejected", "accepted", "lost"}
                                 /\ task[r] \in {"none", "died", "done", "lost"}
          /\ \A c \in Cancellers : cpc[c] \notin {"idle", "terminating", "resetting",
                                                  "auditing"}

Next == \/ \E r \in Requests : \/ ExecStep(r) \/ TaskStep(r) \/ TaskFault(r)
                               \/ \E a \in Attempts : ProcessEnds(r, a)
        \/ \E c \in Cancellers : \/ CancelArrives(c) \/ CancelStep(c) \/ CancelFails(c)
        \/ Crash
        \/ AtRest /\ UNCHANGED vars

Spec == Init /\ [][Next]_vars

\* The event loop runs every ready task and handler; each wait of run and of
\* cancel_process has a timeout, connect has the library's login timeout and
\* the keepalive ends a dead connection.  Nobody owes an exec or cancel call.
Fairness == /\ \A r \in Requests : WF_vars(TaskStep(r)) /\ WF_vars(ExecStep(r))
            /\ \A c \in Cancellers : WF_vars(CancelStep(c))

\* A remote process may run for ever, but one that was sent KILL dies.
KillObeyed == \A r \in Requests, a \in Attempts :
                 WF_vars(proc[r][a] = "killed" /\ ProcessEnds(r, a))

\* Without KillObeyed nothing need end a process but the abort of its channel.
LiveSpec == Spec /\ Fairness
-----------------------------------------------------------------------------
TypeOK == /\ exec       \in [Requests -> ExecStatus]
          /\ task       \in [Requests -> TaskStatus]
          /\ attempt    \in [Requests -> Attempts]
          /\ registered \in [Requests -> BOOLEAN]
          /\ proc       \in [Requests -> [Attempts -> ProcStatus]]
          /\ running    \in [Requests -> 0..2]
          /\ flagged    \in SUBSET Requests
          /\ job        \in [Requests -> JobStatus]
          /\ terms      \in [Requests -> Seq(EventType)]
          /\ closed     \in [Requests -> BOOLEAN]
          /\ audits     \in [Requests -> Nat]
          /\ cpc        \in [Cancellers -> CancelStatus]
          /\ target     \in [Cancellers -> Requests]
          /\ handle     \in [Cancellers -> Attempts]
          /\ promised   \in [Requests -> BOOLEAN]
          /\ crashes    \in Nat

Published(r) == {terms[r][i] : i \in DOMAIN terms[r]}

\* An entry of _running belongs to the attempt that is in progress: no entry
\* outlives its attempt, whichever of task and cancel handlers removes it first.
RegistrySound ==
    \A r \in Requests : running[r] # 0 =>
        registered[r] /\ running[r] = attempt[r] /\ task[r] \in InRegion

\* A closed stream has a terminal event, so a reader of its history can stop.
ClosedStreamHasEnd == \A r \in Requests : closed[r] => terms[r] # <<>>

\* A cancel that was accepted before the job ended is never answered by
\* "completed", whatever the race between the handler and the task.
PromiseKept == \A r \in Requests : promised[r] => job[r] # "completed"

\* A command whose process the service was given, and so streamed or could cancel, is
\* not run again: the second attempt reaches create_process only if that raised, or
\* was not reached, in the first.  (If it raised after the request was delivered, the
\* retry does run the command a second time.)
StartedNeverRunAgain ==
    \A r \in Requests : proc[r][2] # "none" => proc[r][1] \in {"none", "unanswered"}

\* The final status of a row was told to the stream's readers; a timeout that
\* raced a cancel is the one status they may have seen as "cancelled" instead.
RowWasPublished ==
    \A r \in Requests :
        /\ job[r] = "completed" => "finished" \in Published(r)
        /\ job[r] = "failed"    => "error" \in Published(r)
        /\ job[r] = "cancelled" => "cancelled" \in Published(r)
        /\ job[r] = "timeout"   => Published(r) \cap {"error", "cancelled"} # {}

Settled(r) == \A c \in Cancellers :
    target[c] = r => cpc[c] \notin {"terminating", "resetting", "auditing", "lost"}

\* Task and handlers each leave the audit to the other in some interleavings;
\* when all are through, the row is final, the stream closed, the end audited.
EndIsRecorded ==
    \A r \in Requests : task[r] = "done" /\ Settled(r) =>
        job[r] \in Terminal /\ closed[r] /\ audits[r] > 0

Contract == INSTANCE JobContract WITH status <- job

\* The rows and the cancel answers implement the contract of the two endpoints.
ImplementsContract == Contract!Spec

\* While remote processes that were sent KILL die, an accepted job ends and its
\* stream is closed, even if wait raises and the command is run again.
JobsEnd == KillObeyed =>
    \A r \in Requests : job[r] = "queued" ~> job[r] \in Terminal /\ closed[r]

\* A cancel handler that found its process gives an answer, even if the process
\* ignores every signal.
CancelsAnswered ==
    \A c \in Cancellers : cpc[c] = "terminating" ~> cpc[c] \in {"done", "failed"}

\* Once a handler has acknowledged a cancel, the command's task comes to its end
\* too, even if it hung on a process that ignores every signal.  The exception: the
\* process was the first attempt's, its wait raised and the retry has started another.
AcknowledgedTaskEnds ==
    \A c \in Cancellers : cpc[c] = "auditing" ~>
        \/ task[target[c]] = "done"
        \/ handle[c] = 1 /\ proc[target[c]][2] # "none"
=============================================================================
