------------------------- MODULE ExecLifecycleProofs -------------------------
(***************************************************************************)
(* Theorems about ExecLifecycle, for every set of requests and of cancel   *)
(* handlers and every number of crashes.                                   *)
(***************************************************************************)
EXTENDS ExecLifecycle, SequenceTheorems, TLAPS

(* The inductive strengthening.                                            *)

\* Places of the task from which the job can still end.
Pending == {"ready", "connecting", "creating", "aborting"} \cup InRegion

\* What the exec handler's place says of job and task.
HandlerFirst == \A r \in Requests :
    /\ exec[r] \in {"new", "limiting", "rejected"} => job[r] = "none"
    /\ exec[r] \in {"auditing", "accepted"} => job[r] # "none"
    /\ exec[r] # "accepted" => task[r] \in {"none", "lost"}
    /\ task[r] = "lost" => exec[r] = "accepted"
    /\ job[r] = "none" => task[r] = "none" /\ ~promised[r]

\* A cancel handler that found a process works for a job that was accepted.
HandlerHasJob == \A c \in Cancellers :
    cpc[c] \in {"terminating", "resetting"} => exec[target[c]] = "accepted"

\* command_registered is true inside the region only.
RegisteredInRegion == \A r \in Requests : registered[r] => task[r] \in InRegion

EndedTaskPublished == \A r \in Requests :
    task[r] \in {"auditing", "done"} => terms[r] # <<>>

\* Without library errors a registered attempt is never retried.
RetryUnregistered == \A r \in Requests : task[r] = "resetting" => ~registered[r]

\* The job can still end, so a promise must be backed by the flag.
MayEnd(r) == task[r] \in Pending \/ exec[r] = "auditing"

PromiseFlagged == \A r \in Requests : promised[r] /\ MayEnd(r) => r \in flagged

HandlerFlagged == \A c \in Cancellers :
    cpc[c] \in {"terminating", "resetting"} /\ MayEnd(target[c]) => target[c] \in flagged

\* A retry follows an attempt whose create_process raised or was not reached.
RetryIsFirstRun == \A r \in Requests :
    /\ attempt[r] = 1 => proc[r][2] = "none"
    /\ attempt[r] = 2 => proc[r][1] \in {"none", "unanswered"}
    /\ attempt[r] = 1 /\ task[r] = "resetting" => proc[r][1] \in {"none", "unanswered"}
    /\ attempt[r] = 1 /\ task[r] \in {"connecting", "creating"} => proc[r][1] = "none"

\* attempt 1 is where every task starts.
FirstAttempt == \A r \in Requests :
    task[r] \in {"none", "ready"} => attempt[r] = 1 /\ proc[r][1] = "none"

SafeInv == /\ TypeOK
           /\ HandlerFirst
           /\ HandlerHasJob
           /\ RegistrySound
           /\ RegisteredInRegion
           /\ EndedTaskPublished
           /\ ClosedStreamHasEnd

PromiseInv == /\ RetryUnregistered
              /\ PromiseFlagged
              /\ HandlerFlagged
              /\ PromiseKept

\* The row while the job can still end.  Before its process is registered, and
\* while it is set up again, no cancel handler can have changed the row.
Setup == {"connecting", "creating", "aborting", "resetting"}

JobFollowsTask == \A r \in Requests :
    /\ exec[r] = "auditing" \/ task[r] = "ready" => job[r] = "queued"
    /\ task[r] \in Setup => job[r] = "running"
    /\ task[r] \in InRegion => job[r] = "running" \/ (job[r] = "cancelled" /\ promised[r])

\* A cancel handler that has a process finds a row it may turn into "cancelled".
HandlerMayStop == \A c \in Cancellers : cpc[c] \in {"terminating", "resetting"} =>
    /\ job[target[c]] \in {"running"} \cup Contract!Stopped
    /\ task[target[c]] \notin {"none", "ready"} \cup Setup

JobInv == JobFollowsTask /\ HandlerMayStop

RetryInv == RetryIsFirstRun /\ FirstAttempt /\ StartedNeverRunAgain
-----------------------------------------------------------------------------
(* Type correctness.                                                       *)

LEMMA TypeInit == Init => TypeOK
BY DEF Init, TypeOK, ExecStatus, TaskStatus, InRegion, ProcStatus, JobStatus, Attempts,
       CancelStatus

LEMMA TypeStep == TypeOK /\ [Next]_vars => TypeOK'
<1> SUFFICES ASSUME TypeOK, [Next]_vars PROVE TypeOK'
    OBVIOUS
<1> USE DEF TypeOK, ExecStatus, TaskStatus, InRegion, ProcStatus, JobStatus, Attempts,
            CancelStatus, EventType, Terminal
<1>1. ASSUME NEW r \in Requests, ExecRefused(r) PROVE TypeOK'
    BY <1>1 DEF ExecRefused, ExecGoto, taskVars, recordVars, cancelVars
<1>2. ASSUME NEW r \in Requests, ExecAdmitted(r) PROVE TypeOK'
    BY <1>2 DEF ExecAdmitted, ExecGoto, taskVars, recordVars, cancelVars
<1>3. ASSUME NEW r \in Requests, ExecDenied(r) PROVE TypeOK'
    BY <1>3 DEF ExecDenied, ExecGoto, taskVars, recordVars, cancelVars
<1>4. ASSUME NEW r \in Requests, ExecQueues(r) PROVE TypeOK'
    BY <1>4 DEF ExecQueues, ExecGoto, taskVars, cancelVars
<1>5. ASSUME NEW r \in Requests, ExecAccepts(r) PROVE TypeOK'
    BY <1>5 DEF ExecAccepts, ExecGoto, Goto, recordVars, cancelVars
<1>6. ASSUME NEW r \in Requests, TaskStarts(r) PROVE TypeOK'
    BY <1>6 DEF TaskStarts, At, Goto, execVars, cancelVars
<1>7. ASSUME NEW r \in Requests, ConnectedTooLate(r) PROVE TypeOK'
    BY <1>7 DEF ConnectedTooLate, At, Goto, CancelRequested, Finish, LeaveRegistry,
       PublishResult, TerminalEvent, AuditIsCancellers, execVars, cancelVars
<1>8. ASSUME NEW r \in Requests, Connected(r) PROVE TypeOK'
    BY <1>8 DEF Connected, At, Goto, CancelRequested, execVars, recordVars,
       cancelVars
<1>9. ASSUME NEW r \in Requests, CreatedTooLate(r) PROVE TypeOK'
    BY <1>9 DEF CreatedTooLate, At, Goto, SetProc, CancelRequested, execVars,
       recordVars, cancelVars
<1>10. ASSUME NEW r \in Requests, Created(r) PROVE TypeOK'
    BY <1>10 DEF Created, At, Goto, SetProc, CancelRequested, execVars, recordVars,
       cancelVars
<1>11. ASSUME NEW r \in Requests, WaitEnds(r) PROVE TypeOK'
    BY <1>11 DEF WaitEnds, At, Goto, execVars, recordVars, cancelVars
<1>12. ASSUME NEW r \in Requests, TaskKills(r) PROVE TypeOK'
    BY <1>12 DEF TaskKills, At, SetProc, execVars, taskVars, recordVars, cancelVars
<1>13. ASSUME NEW r \in Requests, TerminateReturns(r) PROVE TypeOK'
    BY <1>13 DEF TerminateReturns, At, Goto, execVars, recordVars, cancelVars
<1>14. ASSUME NEW r \in Requests, AbortReturns(r) PROVE TypeOK'
    BY <1>14 DEF AbortReturns, At, Goto, Finish, LeaveRegistry, PublishResult,
       TerminalEvent, AuditIsCancellers, execVars, cancelVars
<1>15. ASSUME NEW r \in Requests, Drained(r) PROVE TypeOK'
    BY <1>15 DEF Drained, At, Goto, CancelRequested, Finish, LeaveRegistry,
       PublishResult, TerminalEvent, AuditIsCancellers, execVars, cancelVars
<1>16. ASSUME NEW r \in Requests, TimeoutDrained(r) PROVE TypeOK'
    BY <1>16 DEF TimeoutDrained, At, Goto, Finish, LeaveRegistry, PublishResult,
       TerminalEvent, AuditIsCancellers, execVars, cancelVars
<1>17. ASSUME NEW r \in Requests, Retry(r) PROVE TypeOK'
    BY <1>17 DEF Retry, At, Goto, LeaveRegistry, execVars, recordVars, cancelVars
<1>18. ASSUME NEW r \in Requests, GiveUp(r) PROVE TypeOK'
    BY <1>18 DEF GiveUp, At, Goto, Fail, LeaveRegistry, execVars, cancelVars
<1>19. ASSUME NEW r \in Requests, TaskAudited(r) PROVE TypeOK'
    BY <1>19 DEF TaskAudited, At, Goto, execVars, cancelVars
<1>20. ASSUME NEW r \in Requests, TaskLosesConfig(r) PROVE TypeOK'
    BY <1>20 DEF TaskLosesConfig, At, Goto, execVars, recordVars, cancelVars
<1>21. ASSUME NEW r \in Requests, ConnectFails(r) \/ CreateFails(r) PROVE TypeOK'
    <2>1. CASE ConnectFails(r)
        BY <2>1 DEF ConnectFails, At, Goto, execVars, recordVars, cancelVars
    <2>2. CASE CreateFails(r) /\ proc' = proc
        BY <2>2 DEF CreateFails, At, Goto, execVars, recordVars, cancelVars
    <2>3. CASE CreateFails(r) /\ SetProc(r, attempt[r], "unanswered")
        BY <2>3 DEF CreateFails, At, Goto, SetProc, execVars, recordVars, cancelVars
    <2> QED BY <1>21, <2>1, <2>2, <2>3 DEF CreateFails
<1>22. ASSUME NEW r \in Requests, WaitRaises(r) PROVE TypeOK'
    BY <1>22 DEF WaitRaises, At, Goto, SetProc, execVars, recordVars, cancelVars
<1>23. ASSUME NEW r \in Requests, NEW a \in Attempts, ProcessEnds(r, a) PROVE TypeOK'
    BY <1>23 DEF ProcessEnds, SetProc, execVars, taskVars, recordVars, cancelVars
<1>24. ASSUME NEW c \in Cancellers, CancelRefused(c) PROVE TypeOK'
    BY <1>24 DEF CancelRefused, CancelGoto, RaiseFlag, execVars, taskVars,
       recordVars
<1>25. ASSUME NEW c \in Cancellers, CancelUnknown(c) PROVE TypeOK'
    BY <1>25 DEF CancelUnknown, CancelGoto, RaiseFlag, execVars, taskVars,
       recordVars
<1>26. ASSUME NEW c \in Cancellers, CancelQueued(c) PROVE TypeOK'
    BY <1>26 DEF CancelQueued, CancelGoto, RaiseFlag, Unfinished, execVars,
       taskVars, recordVars
<1>27. ASSUME NEW c \in Cancellers, CancelFound(c) PROVE TypeOK'
    BY <1>27 DEF CancelFound, CancelGoto, RaiseFlag, execVars, taskVars, recordVars
<1>28. ASSUME NEW c \in Cancellers, CancelKills(c) PROVE TypeOK'
    BY <1>28 DEF CancelKills, SetProc, execVars, taskVars, recordVars, cancelVars
<1>29. ASSUME NEW c \in Cancellers, CancelAborts(c) PROVE TypeOK'
    BY <1>29 DEF CancelAborts, CancelGoto, SetProc, execVars, taskVars, recordVars
<1>30. ASSUME NEW c \in Cancellers, CancelTakesEffect(c) PROVE TypeOK'
    BY <1>30 DEF CancelTakesEffect, CancelGoto, Acknowledge, execVars, taskVars
<1>31. ASSUME NEW c \in Cancellers, CancelAudited(c) PROVE TypeOK'
    BY <1>31 DEF CancelAudited, CancelGoto, execVars, taskVars, recordVars
<1>32. ASSUME NEW c \in Cancellers, CancelFails(c) PROVE TypeOK'
    BY <1>32 DEF CancelFails, CancelGoto, execVars, taskVars, recordVars
<1>33. ASSUME Crash PROVE TypeOK'
    BY <1>33 DEF Crash, recordVars
<1>34. ASSUME UNCHANGED vars PROVE TypeOK'
    BY <1>34 DEF vars, execVars, taskVars, recordVars, cancelVars
<1>35. QED
    BY <1>1, <1>2, <1>3, <1>4, <1>5, <1>6, <1>7, <1>8, <1>9, <1>10, <1>11, <1>12,
       <1>13, <1>14, <1>15, <1>16, <1>17, <1>18, <1>19, <1>20, <1>21, <1>22, <1>23,
       <1>24, <1>25, <1>26, <1>27, <1>28, <1>29, <1>30, <1>31, <1>32, <1>33, <1>34
       DEF Next, ExecStep, TaskStep, TaskFault, CancelArrives, CancelStep

\* Every variable has its type, for every value of the constants.
THEOREM TypeCorrect == Spec => []TypeOK
BY TypeInit, TypeStep, PTL DEF Spec
-----------------------------------------------------------------------------
(* The handler comes before the task; the registry; the closed streams.    *)

LEMMA HandlerStep ==
    TypeOK /\ HandlerFirst /\ HandlerHasJob /\ RegistrySound /\ [Next]_vars
        => HandlerFirst' /\ HandlerHasJob'
<1> SUFFICES ASSUME TypeOK, HandlerFirst, HandlerHasJob, RegistrySound, [Next]_vars
             PROVE  HandlerFirst' /\ HandlerHasJob'
    OBVIOUS
<1> USE DEF TypeOK, HandlerFirst, HandlerHasJob, RegistrySound, InRegion
<1>1. ASSUME NEW r \in Requests, ExecRefused(r) PROVE HandlerFirst' /\ HandlerHasJob'
    BY <1>1 DEF ExecRefused, ExecGoto, taskVars, recordVars, cancelVars
<1>2. ASSUME NEW r \in Requests, ExecAdmitted(r) PROVE HandlerFirst' /\ HandlerHasJob'
    BY <1>2 DEF ExecAdmitted, ExecGoto, taskVars, recordVars, cancelVars
<1>3. ASSUME NEW r \in Requests, ExecDenied(r) PROVE HandlerFirst' /\ HandlerHasJob'
    BY <1>3 DEF ExecDenied, ExecGoto, taskVars, recordVars, cancelVars
<1>4. ASSUME NEW r \in Requests, ExecQueues(r) PROVE HandlerFirst' /\ HandlerHasJob'
    BY <1>4 DEF ExecQueues, ExecGoto, taskVars, cancelVars
<1>5. ASSUME NEW r \in Requests, ExecAccepts(r) PROVE HandlerFirst' /\ HandlerHasJob'
    BY <1>5 DEF ExecAccepts, ExecGoto, Goto, recordVars, cancelVars
<1>6. ASSUME NEW r \in Requests, TaskStarts(r) PROVE HandlerFirst' /\ HandlerHasJob'
    BY <1>6 DEF TaskStarts, At, Goto, execVars, cancelVars
<1>7. ASSUME NEW r \in Requests, ConnectedTooLate(r) PROVE HandlerFirst' /\ HandlerHasJob'
    BY <1>7 DEF ConnectedTooLate, At, Goto, CancelRequested, Finish, LeaveRegistry,
       PublishResult, TerminalEvent, AuditIsCancellers, execVars, cancelVars
<1>8. ASSUME NEW r \in Requests, Connected(r) PROVE HandlerFirst' /\ HandlerHasJob'
    BY <1>8 DEF Connected, At, Goto, CancelRequested, execVars, recordVars,
       cancelVars
<1>9. ASSUME NEW r \in Requests, CreatedTooLate(r) PROVE HandlerFirst' /\ HandlerHasJob'
    BY <1>9 DEF CreatedTooLate, At, Goto, SetProc, CancelRequested, execVars,
       recordVars, cancelVars
<1>10. ASSUME NEW r \in Requests, Created(r) PROVE HandlerFirst' /\ HandlerHasJob'
    BY <1>10 DEF Created, At, Goto, SetProc, CancelRequested, execVars, recordVars,
       cancelVars
<1>11. ASSUME NEW r \in Requests, WaitEnds(r) PROVE HandlerFirst' /\ HandlerHasJob'
    BY <1>11 DEF WaitEnds, At, Goto, execVars, recordVars, cancelVars
<1>12. ASSUME NEW r \in Requests, TaskKills(r) PROVE HandlerFirst' /\ HandlerHasJob'
    BY <1>12 DEF TaskKills, At, SetProc, execVars, taskVars, recordVars, cancelVars
<1>13. ASSUME NEW r \in Requests, TerminateReturns(r) PROVE HandlerFirst' /\ HandlerHasJob'
    BY <1>13 DEF TerminateReturns, At, Goto, execVars, recordVars, cancelVars
<1>14. ASSUME NEW r \in Requests, AbortReturns(r) PROVE HandlerFirst' /\ HandlerHasJob'
    BY <1>14 DEF AbortReturns, At, Goto, Finish, LeaveRegistry, PublishResult,
       TerminalEvent, AuditIsCancellers, execVars, cancelVars
<1>15. ASSUME NEW r \in Requests, Drained(r) PROVE HandlerFirst' /\ HandlerHasJob'
    BY <1>15 DEF Drained, At, Goto, CancelRequested, Finish, LeaveRegistry,
       PublishResult, TerminalEvent, AuditIsCancellers, execVars, cancelVars
<1>16. ASSUME NEW r \in Requests, TimeoutDrained(r) PROVE HandlerFirst' /\ HandlerHasJob'
    BY <1>16 DEF TimeoutDrained, At, Goto, Finish, LeaveRegistry, PublishResult,
       TerminalEvent, AuditIsCancellers, execVars, cancelVars
<1>17. ASSUME NEW r \in Requests, Retry(r) PROVE HandlerFirst' /\ HandlerHasJob'
    BY <1>17 DEF Retry, At, Goto, LeaveRegistry, execVars, recordVars, cancelVars
<1>18. ASSUME NEW r \in Requests, GiveUp(r) PROVE HandlerFirst' /\ HandlerHasJob'
    BY <1>18 DEF GiveUp, At, Goto, Fail, LeaveRegistry, execVars, cancelVars
<1>19. ASSUME NEW r \in Requests, TaskAudited(r) PROVE HandlerFirst' /\ HandlerHasJob'
    BY <1>19 DEF TaskAudited, At, Goto, execVars, cancelVars
<1>20. ASSUME NEW r \in Requests, TaskLosesConfig(r) PROVE HandlerFirst' /\ HandlerHasJob'
    BY <1>20 DEF TaskLosesConfig, At, Goto, execVars, recordVars, cancelVars
<1>21. ASSUME NEW r \in Requests, ConnectFails(r) \/ CreateFails(r) PROVE HandlerFirst' /\ HandlerHasJob'
    BY <1>21 DEF ConnectFails, CreateFails, At, Goto, SetProc, execVars, recordVars, cancelVars
<1>22. ASSUME NEW r \in Requests, WaitRaises(r) PROVE HandlerFirst' /\ HandlerHasJob'
    BY <1>22 DEF WaitRaises, At, Goto, SetProc, execVars, recordVars, cancelVars
<1>23. ASSUME NEW r \in Requests, NEW a \in Attempts, ProcessEnds(r, a) PROVE HandlerFirst' /\ HandlerHasJob'
    BY <1>23 DEF ProcessEnds, SetProc, execVars, taskVars, recordVars, cancelVars
<1>24. ASSUME NEW c \in Cancellers, CancelRefused(c) PROVE HandlerFirst' /\ HandlerHasJob'
    BY <1>24 DEF CancelRefused, CancelGoto, RaiseFlag, execVars, taskVars,
       recordVars
<1>25. ASSUME NEW c \in Cancellers, CancelUnknown(c) PROVE HandlerFirst' /\ HandlerHasJob'
    BY <1>25 DEF CancelUnknown, CancelGoto, RaiseFlag, execVars, taskVars,
       recordVars
<1>26. ASSUME NEW c \in Cancellers, CancelQueued(c) PROVE HandlerFirst' /\ HandlerHasJob'
    BY <1>26 DEF CancelQueued, CancelGoto, RaiseFlag, Unfinished, execVars,
       taskVars, recordVars
<1>27. ASSUME NEW c \in Cancellers, CancelFound(c) PROVE HandlerFirst' /\ HandlerHasJob'
    BY <1>27 DEF CancelFound, CancelGoto, RaiseFlag, execVars, taskVars, recordVars
<1>28. ASSUME NEW c \in Cancellers, CancelKills(c) PROVE HandlerFirst' /\ HandlerHasJob'
    BY <1>28 DEF CancelKills, SetProc, execVars, taskVars, recordVars, cancelVars
<1>29. ASSUME NEW c \in Cancellers, CancelAborts(c) PROVE HandlerFirst' /\ HandlerHasJob'
    BY <1>29 DEF CancelAborts, CancelGoto, SetProc, execVars, taskVars, recordVars
<1>30. ASSUME NEW c \in Cancellers, CancelTakesEffect(c) PROVE HandlerFirst' /\ HandlerHasJob'
    BY <1>30 DEF CancelTakesEffect, CancelGoto, Acknowledge, execVars, taskVars
<1>31. ASSUME NEW c \in Cancellers, CancelAudited(c) PROVE HandlerFirst' /\ HandlerHasJob'
    BY <1>31 DEF CancelAudited, CancelGoto, execVars, taskVars, recordVars
<1>32. ASSUME NEW c \in Cancellers, CancelFails(c) PROVE HandlerFirst' /\ HandlerHasJob'
    BY <1>32 DEF CancelFails, CancelGoto, execVars, taskVars, recordVars
<1>33. ASSUME Crash PROVE HandlerFirst' /\ HandlerHasJob'
    BY <1>33 DEF Crash, recordVars
<1>34. ASSUME UNCHANGED vars PROVE HandlerFirst' /\ HandlerHasJob'
    BY <1>34 DEF vars, execVars, taskVars, recordVars, cancelVars
<1>35. QED
    BY <1>1, <1>2, <1>3, <1>4, <1>5, <1>6, <1>7, <1>8, <1>9, <1>10, <1>11, <1>12,
       <1>13, <1>14, <1>15, <1>16, <1>17, <1>18, <1>19, <1>20, <1>21, <1>22, <1>23,
       <1>24, <1>25, <1>26, <1>27, <1>28, <1>29, <1>30, <1>31, <1>32, <1>33, <1>34
       DEF Next, ExecStep, TaskStep, TaskFault, CancelArrives, CancelStep

LEMMA RegistryStep ==
    TypeOK /\ HandlerFirst /\ RegistrySound /\ RegisteredInRegion /\ [Next]_vars
        => RegistrySound' /\ RegisteredInRegion'
<1> SUFFICES ASSUME TypeOK, HandlerFirst, RegistrySound, RegisteredInRegion, [Next]_vars
             PROVE  RegistrySound' /\ RegisteredInRegion'
    OBVIOUS
<1> USE DEF TypeOK, RegistrySound, RegisteredInRegion, InRegion, Attempts
<1>1. ASSUME NEW r \in Requests, ExecRefused(r) PROVE RegistrySound' /\ RegisteredInRegion'
    BY <1>1 DEF ExecRefused, ExecGoto, taskVars, recordVars, cancelVars
<1>2. ASSUME NEW r \in Requests, ExecAdmitted(r) PROVE RegistrySound' /\ RegisteredInRegion'
    BY <1>2 DEF ExecAdmitted, ExecGoto, taskVars, recordVars, cancelVars
<1>3. ASSUME NEW r \in Requests, ExecDenied(r) PROVE RegistrySound' /\ RegisteredInRegion'
    BY <1>3 DEF ExecDenied, ExecGoto, taskVars, recordVars, cancelVars
<1>4. ASSUME NEW r \in Requests, ExecQueues(r) PROVE RegistrySound' /\ RegisteredInRegion'
    BY <1>4 DEF ExecQueues, ExecGoto, taskVars, cancelVars
<1>5. ASSUME NEW r \in Requests, ExecAccepts(r) PROVE RegistrySound' /\ RegisteredInRegion'
    BY <1>5 DEF ExecAccepts, ExecGoto, Goto, recordVars, cancelVars, HandlerFirst
<1>6. ASSUME NEW r \in Requests, TaskStarts(r) PROVE RegistrySound' /\ RegisteredInRegion'
    BY <1>6 DEF TaskStarts, At, Goto, execVars, cancelVars
<1>7. ASSUME NEW r \in Requests, ConnectedTooLate(r) PROVE RegistrySound' /\ RegisteredInRegion'
    BY <1>7 DEF ConnectedTooLate, At, Goto, CancelRequested, Finish, LeaveRegistry,
       PublishResult, TerminalEvent, AuditIsCancellers, execVars, cancelVars
<1>8. ASSUME NEW r \in Requests, Connected(r) PROVE RegistrySound' /\ RegisteredInRegion'
    BY <1>8 DEF Connected, At, Goto, CancelRequested, execVars, recordVars,
       cancelVars
<1>9. ASSUME NEW r \in Requests, CreatedTooLate(r) PROVE RegistrySound' /\ RegisteredInRegion'
    BY <1>9 DEF CreatedTooLate, At, Goto, SetProc, CancelRequested, execVars,
       recordVars, cancelVars
<1>10. ASSUME NEW r \in Requests, Created(r) PROVE RegistrySound' /\ RegisteredInRegion'
    BY <1>10 DEF Created, At, Goto, SetProc, CancelRequested, execVars, recordVars,
       cancelVars
<1>11. ASSUME NEW r \in Requests, WaitEnds(r) PROVE RegistrySound' /\ RegisteredInRegion'
    BY <1>11 DEF WaitEnds, At, Goto, execVars, recordVars, cancelVars
<1>12. ASSUME NEW r \in Requests, TaskKills(r) PROVE RegistrySound' /\ RegisteredInRegion'
    BY <1>12 DEF TaskKills, At, SetProc, execVars, taskVars, recordVars, cancelVars
<1>13. ASSUME NEW r \in Requests, TerminateReturns(r) PROVE RegistrySound' /\ RegisteredInRegion'
    BY <1>13 DEF TerminateReturns, At, Goto, execVars, recordVars, cancelVars
<1>14. ASSUME NEW r \in Requests, AbortReturns(r) PROVE RegistrySound' /\ RegisteredInRegion'
    BY <1>14 DEF AbortReturns, At, Goto, Finish, LeaveRegistry, PublishResult,
       TerminalEvent, AuditIsCancellers, execVars, cancelVars
<1>15. ASSUME NEW r \in Requests, Drained(r) PROVE RegistrySound' /\ RegisteredInRegion'
    BY <1>15 DEF Drained, At, Goto, CancelRequested, Finish, LeaveRegistry,
       PublishResult, TerminalEvent, AuditIsCancellers, execVars, cancelVars
<1>16. ASSUME NEW r \in Requests, TimeoutDrained(r) PROVE RegistrySound' /\ RegisteredInRegion'
    BY <1>16 DEF TimeoutDrained, At, Goto, Finish, LeaveRegistry, PublishResult,
       TerminalEvent, AuditIsCancellers, execVars, cancelVars
<1>17. ASSUME NEW r \in Requests, Retry(r) PROVE RegistrySound' /\ RegisteredInRegion'
    BY <1>17 DEF Retry, At, Goto, LeaveRegistry, execVars, recordVars, cancelVars
<1>18. ASSUME NEW r \in Requests, GiveUp(r) PROVE RegistrySound' /\ RegisteredInRegion'
    BY <1>18 DEF GiveUp, At, Goto, Fail, LeaveRegistry, execVars, cancelVars
<1>19. ASSUME NEW r \in Requests, TaskAudited(r) PROVE RegistrySound' /\ RegisteredInRegion'
    BY <1>19 DEF TaskAudited, At, Goto, execVars, cancelVars
<1>20. ASSUME NEW r \in Requests, TaskLosesConfig(r) PROVE RegistrySound' /\ RegisteredInRegion'
    BY <1>20 DEF TaskLosesConfig, At, Goto, execVars, recordVars, cancelVars
<1>21. ASSUME NEW r \in Requests, ConnectFails(r) \/ CreateFails(r) PROVE RegistrySound' /\ RegisteredInRegion'
    BY <1>21 DEF ConnectFails, CreateFails, At, Goto, SetProc, execVars, recordVars, cancelVars
<1>22. ASSUME NEW r \in Requests, WaitRaises(r) PROVE RegistrySound' /\ RegisteredInRegion'
    BY <1>22 DEF WaitRaises, At, Goto, SetProc, execVars, recordVars, cancelVars
<1>23. ASSUME NEW r \in Requests, NEW a \in Attempts, ProcessEnds(r, a) PROVE RegistrySound' /\ RegisteredInRegion'
    BY <1>23 DEF ProcessEnds, SetProc, execVars, taskVars, recordVars, cancelVars
<1>24. ASSUME NEW c \in Cancellers, CancelRefused(c) PROVE RegistrySound' /\ RegisteredInRegion'
    BY <1>24 DEF CancelRefused, CancelGoto, RaiseFlag, execVars, taskVars,
       recordVars
<1>25. ASSUME NEW c \in Cancellers, CancelUnknown(c) PROVE RegistrySound' /\ RegisteredInRegion'
    BY <1>25 DEF CancelUnknown, CancelGoto, RaiseFlag, execVars, taskVars,
       recordVars
<1>26. ASSUME NEW c \in Cancellers, CancelQueued(c) PROVE RegistrySound' /\ RegisteredInRegion'
    BY <1>26 DEF CancelQueued, CancelGoto, RaiseFlag, Unfinished, execVars,
       taskVars, recordVars
<1>27. ASSUME NEW c \in Cancellers, CancelFound(c) PROVE RegistrySound' /\ RegisteredInRegion'
    BY <1>27 DEF CancelFound, CancelGoto, RaiseFlag, execVars, taskVars, recordVars
<1>28. ASSUME NEW c \in Cancellers, CancelKills(c) PROVE RegistrySound' /\ RegisteredInRegion'
    BY <1>28 DEF CancelKills, SetProc, execVars, taskVars, recordVars, cancelVars
<1>29. ASSUME NEW c \in Cancellers, CancelAborts(c) PROVE RegistrySound' /\ RegisteredInRegion'
    BY <1>29 DEF CancelAborts, CancelGoto, SetProc, execVars, taskVars, recordVars
<1>30. ASSUME NEW c \in Cancellers, CancelTakesEffect(c) PROVE RegistrySound' /\ RegisteredInRegion'
    BY <1>30 DEF CancelTakesEffect, CancelGoto, Acknowledge, execVars, taskVars
<1>31. ASSUME NEW c \in Cancellers, CancelAudited(c) PROVE RegistrySound' /\ RegisteredInRegion'
    BY <1>31 DEF CancelAudited, CancelGoto, execVars, taskVars, recordVars
<1>32. ASSUME NEW c \in Cancellers, CancelFails(c) PROVE RegistrySound' /\ RegisteredInRegion'
    BY <1>32 DEF CancelFails, CancelGoto, execVars, taskVars, recordVars
<1>33. ASSUME Crash PROVE RegistrySound' /\ RegisteredInRegion'
    BY <1>33 DEF Crash, recordVars
<1>34. ASSUME UNCHANGED vars PROVE RegistrySound' /\ RegisteredInRegion'
    BY <1>34 DEF vars, execVars, taskVars, recordVars, cancelVars
<1>35. QED
    BY <1>1, <1>2, <1>3, <1>4, <1>5, <1>6, <1>7, <1>8, <1>9, <1>10, <1>11, <1>12,
       <1>13, <1>14, <1>15, <1>16, <1>17, <1>18, <1>19, <1>20, <1>21, <1>22, <1>23,
       <1>24, <1>25, <1>26, <1>27, <1>28, <1>29, <1>30, <1>31, <1>32, <1>33, <1>34
       DEF Next, ExecStep, TaskStep, TaskFault, CancelArrives, CancelStep

\* After the task's publish the stream has an event, unless it was closed without one.
LEMMA PublishResultAdds ==
    ASSUME NEW r \in Requests, NEW status \in {"completed", "timeout", "cancelled"},
           TypeOK, PublishResult(r, status)
    PROVE  /\ \A q \in Requests : q # r => terms'[q] = terms[q]
           /\ terms'[r] = <<>> => closed[r] /\ terms[r] = <<>>
<1>1. terms[r] \in Seq(EventType) /\ TerminalEvent(status) \in EventType
    BY DEF TypeOK, EventType, TerminalEvent
<1>2. Append(terms[r], TerminalEvent(status)) # <<>>
    BY <1>1, AppendProperties
<1>3. QED
    BY <1>2 DEF TypeOK, PublishResult

LEMMA StreamStep ==
    TypeOK /\ EndedTaskPublished /\ ClosedStreamHasEnd /\ [Next]_vars
        => EndedTaskPublished' /\ ClosedStreamHasEnd'
<1> SUFFICES ASSUME TypeOK, EndedTaskPublished, ClosedStreamHasEnd, [Next]_vars
             PROVE  EndedTaskPublished' /\ ClosedStreamHasEnd'
    OBVIOUS
<1> USE DEF EndedTaskPublished, ClosedStreamHasEnd
<1>1. ASSUME NEW r \in Requests, ExecRefused(r) PROVE EndedTaskPublished' /\ ClosedStreamHasEnd'
    BY <1>1 DEF ExecRefused, ExecGoto, taskVars, recordVars, cancelVars, TypeOK
<1>2. ASSUME NEW r \in Requests, ExecAdmitted(r) PROVE EndedTaskPublished' /\ ClosedStreamHasEnd'
    BY <1>2 DEF ExecAdmitted, ExecGoto, taskVars, recordVars, cancelVars, TypeOK
<1>3. ASSUME NEW r \in Requests, ExecDenied(r) PROVE EndedTaskPublished' /\ ClosedStreamHasEnd'
    BY <1>3 DEF ExecDenied, ExecGoto, taskVars, recordVars, cancelVars, TypeOK
<1>4. ASSUME NEW r \in Requests, ExecQueues(r) PROVE EndedTaskPublished' /\ ClosedStreamHasEnd'
    BY <1>4 DEF ExecQueues, ExecGoto, taskVars, cancelVars, TypeOK
<1>5. ASSUME NEW r \in Requests, ExecAccepts(r) PROVE EndedTaskPublished' /\ ClosedStreamHasEnd'
    BY <1>5 DEF ExecAccepts, ExecGoto, Goto, recordVars, cancelVars, TypeOK
<1>6. ASSUME NEW r \in Requests, TaskStarts(r) PROVE EndedTaskPublished' /\ ClosedStreamHasEnd'
    BY <1>6 DEF TaskStarts, At, Goto, execVars, cancelVars, TypeOK
<1>7. ASSUME NEW r \in Requests, ConnectedTooLate(r) PROVE EndedTaskPublished' /\ ClosedStreamHasEnd'
    <2>1. PublishResult(r, "cancelled")
        BY <1>7 DEF ConnectedTooLate, Finish
    <2>2. QED
        BY <1>7, <2>1, PublishResultAdds DEF ConnectedTooLate, Finish, Goto, TypeOK
<1>8. ASSUME NEW r \in Requests, Connected(r) PROVE EndedTaskPublished' /\ ClosedStreamHasEnd'
    BY <1>8 DEF Connected, At, Goto, CancelRequested, execVars, recordVars,
       cancelVars, TypeOK
<1>9. ASSUME NEW r \in Requests, CreatedTooLate(r) PROVE EndedTaskPublished' /\ ClosedStreamHasEnd'
    BY <1>9 DEF CreatedTooLate, At, Goto, SetProc, CancelRequested, execVars,
       recordVars, cancelVars, TypeOK
<1>10. ASSUME NEW r \in Requests, Created(r) PROVE EndedTaskPublished' /\ ClosedStreamHasEnd'
    BY <1>10 DEF Created, At, Goto, SetProc, CancelRequested, execVars, recordVars,
       cancelVars, TypeOK
<1>11. ASSUME NEW r \in Requests, WaitEnds(r) PROVE EndedTaskPublished' /\ ClosedStreamHasEnd'
    BY <1>11 DEF WaitEnds, At, Goto, execVars, recordVars, cancelVars, TypeOK
<1>12. ASSUME NEW r \in Requests, TaskKills(r) PROVE EndedTaskPublished' /\ ClosedStreamHasEnd'
    BY <1>12 DEF TaskKills, At, SetProc, execVars, taskVars, recordVars, cancelVars,
       TypeOK
<1>13. ASSUME NEW r \in Requests, TerminateReturns(r) PROVE EndedTaskPublished' /\ ClosedStreamHasEnd'
    BY <1>13 DEF TerminateReturns, At, Goto, execVars, recordVars, cancelVars,
       TypeOK
<1>14. ASSUME NEW r \in Requests, AbortReturns(r) PROVE EndedTaskPublished' /\ ClosedStreamHasEnd'
    <2>1. PublishResult(r, "cancelled")
        BY <1>14 DEF AbortReturns, Finish
    <2>2. QED
        BY <1>14, <2>1, PublishResultAdds DEF AbortReturns, Finish, Goto, TypeOK
<1>15. ASSUME NEW r \in Requests, Drained(r) PROVE EndedTaskPublished' /\ ClosedStreamHasEnd'
    <2> DEFINE status == IF CancelRequested(r) THEN "cancelled" ELSE "completed"
    <2>1. PublishResult(r, status)
        BY <1>15 DEF Drained, Finish
    <2>2. status \in {"completed", "timeout", "cancelled"}
        OBVIOUS
    <2>3. Goto(r, IF AuditIsCancellers(r, status) THEN "done" ELSE "auditing")
          /\ closed' = closed
        BY <1>15 DEF Drained, Finish
    <2> HIDE DEF status
    <2>4. QED
        BY <2>1, <2>2, <2>3, PublishResultAdds DEF Goto, TypeOK
<1>16. ASSUME NEW r \in Requests, TimeoutDrained(r) PROVE EndedTaskPublished' /\ ClosedStreamHasEnd'
    <2>1. PublishResult(r, "timeout")
        BY <1>16 DEF TimeoutDrained, Finish
    <2>2. QED
        BY <1>16, <2>1, PublishResultAdds DEF TimeoutDrained, Finish, Goto, TypeOK
<1>17. ASSUME NEW r \in Requests, Retry(r) PROVE EndedTaskPublished' /\ ClosedStreamHasEnd'
    BY <1>17 DEF Retry, At, Goto, LeaveRegistry, execVars, recordVars, cancelVars,
       TypeOK
<1>18. ASSUME NEW r \in Requests, GiveUp(r) PROVE EndedTaskPublished' /\ ClosedStreamHasEnd'
    <2>1. terms[r] \in Seq(EventType) /\ "error" \in EventType
        BY DEF TypeOK, EventType
    <2>2. Append(terms[r], "error") # <<>>
        BY <2>1, AppendProperties
    <2>3. QED
        BY <1>18, <2>2 DEF GiveUp, Fail, Goto, TypeOK
<1>19. ASSUME NEW r \in Requests, TaskAudited(r) PROVE EndedTaskPublished' /\ ClosedStreamHasEnd'
    BY <1>19 DEF TaskAudited, At, Goto, execVars, cancelVars, TypeOK
<1>20. ASSUME NEW r \in Requests, TaskLosesConfig(r) PROVE EndedTaskPublished' /\ ClosedStreamHasEnd'
    BY <1>20 DEF TaskLosesConfig, At, Goto, execVars, recordVars, cancelVars, TypeOK
<1>21. ASSUME NEW r \in Requests, ConnectFails(r) \/ CreateFails(r) PROVE EndedTaskPublished' /\ ClosedStreamHasEnd'
    BY <1>21 DEF ConnectFails, CreateFails, At, Goto, SetProc, execVars, recordVars, cancelVars, TypeOK
<1>22. ASSUME NEW r \in Requests, WaitRaises(r) PROVE EndedTaskPublished' /\ ClosedStreamHasEnd'
    BY <1>22 DEF WaitRaises, At, Goto, SetProc, execVars, recordVars, cancelVars,
       TypeOK
<1>23. ASSUME NEW r \in Requests, NEW a \in Attempts, ProcessEnds(r, a) PROVE EndedTaskPublished' /\ ClosedStreamHasEnd'
    BY <1>23 DEF ProcessEnds, SetProc, execVars, taskVars, recordVars, cancelVars,
       TypeOK
<1>24. ASSUME NEW c \in Cancellers, CancelRefused(c) PROVE EndedTaskPublished' /\ ClosedStreamHasEnd'
    BY <1>24 DEF CancelRefused, CancelGoto, RaiseFlag, execVars, taskVars,
       recordVars, TypeOK
<1>25. ASSUME NEW c \in Cancellers, CancelUnknown(c) PROVE EndedTaskPublished' /\ ClosedStreamHasEnd'
    BY <1>25 DEF CancelUnknown, CancelGoto, RaiseFlag, execVars, taskVars,
       recordVars, TypeOK
<1>26. ASSUME NEW c \in Cancellers, CancelQueued(c) PROVE EndedTaskPublished' /\ ClosedStreamHasEnd'
    BY <1>26 DEF CancelQueued, CancelGoto, RaiseFlag, Unfinished, execVars,
       taskVars, recordVars, TypeOK
<1>27. ASSUME NEW c \in Cancellers, CancelFound(c) PROVE EndedTaskPublished' /\ ClosedStreamHasEnd'
    BY <1>27 DEF CancelFound, CancelGoto, RaiseFlag, execVars, taskVars, recordVars,
       TypeOK
<1>28. ASSUME NEW c \in Cancellers, CancelKills(c) PROVE EndedTaskPublished' /\ ClosedStreamHasEnd'
    BY <1>28 DEF CancelKills, SetProc, execVars, taskVars, recordVars, cancelVars,
       TypeOK
<1>29. ASSUME NEW c \in Cancellers, CancelAborts(c) PROVE EndedTaskPublished' /\ ClosedStreamHasEnd'
    BY <1>29 DEF CancelAborts, CancelGoto, SetProc, execVars, taskVars, recordVars,
       TypeOK
<1>30. ASSUME NEW c \in Cancellers, CancelTakesEffect(c) PROVE EndedTaskPublished' /\ ClosedStreamHasEnd'
    <2>1. target[c] \in Requests
        BY DEF TypeOK
    <2>2. terms[target[c]] \in Seq(EventType) /\ "cancelled" \in EventType
        BY <2>1 DEF TypeOK, EventType
    <2>3. Append(terms[target[c]], "cancelled") # <<>>
        BY <2>2, AppendProperties
    <2>4. QED
        BY <1>30, <2>1, <2>3 DEF CancelTakesEffect, Acknowledge, taskVars, TypeOK
<1>31. ASSUME NEW c \in Cancellers, CancelAudited(c) PROVE EndedTaskPublished' /\ ClosedStreamHasEnd'
    BY <1>31 DEF CancelAudited, CancelGoto, execVars, taskVars, recordVars, TypeOK
<1>32. ASSUME NEW c \in Cancellers, CancelFails(c) PROVE EndedTaskPublished' /\ ClosedStreamHasEnd'
    BY <1>32 DEF CancelFails, CancelGoto, execVars, taskVars, recordVars, TypeOK
<1>33. ASSUME Crash PROVE EndedTaskPublished' /\ ClosedStreamHasEnd'
    BY <1>33 DEF Crash, recordVars, TypeOK
<1>34. ASSUME UNCHANGED vars PROVE EndedTaskPublished' /\ ClosedStreamHasEnd'
    BY <1>34 DEF vars, execVars, taskVars, recordVars, cancelVars, TypeOK
<1>35. QED
    BY <1>1, <1>2, <1>3, <1>4, <1>5, <1>6, <1>7, <1>8, <1>9, <1>10, <1>11, <1>12,
       <1>13, <1>14, <1>15, <1>16, <1>17, <1>18, <1>19, <1>20, <1>21, <1>22, <1>23,
       <1>24, <1>25, <1>26, <1>27, <1>28, <1>29, <1>30, <1>31, <1>32, <1>33, <1>34
       DEF Next, ExecStep, TaskStep, TaskFault, CancelArrives, CancelStep

LEMMA SafeInvariant == Spec => []SafeInv
<1>1. Init => SafeInv
    BY TypeInit DEF Init, SafeInv, HandlerFirst, HandlerHasJob, RegistrySound, RegisteredInRegion,
       EndedTaskPublished, ClosedStreamHasEnd
<1>2. SafeInv /\ [Next]_vars => SafeInv'
    BY TypeStep, HandlerStep, RegistryStep, StreamStep DEF SafeInv
<1>3. QED
    BY <1>1, <1>2, PTL DEF Spec

\* No entry of _running outlives its attempt, even if the library raises, the
\* service crashes, or task and cancel handlers remove entries in any order.
THEOREM RegistryIsSound == Spec => []RegistrySound
BY SafeInvariant, PTL DEF SafeInv

\* A closed stream has a terminal event in every interleaving.
THEOREM ClosedStreamsHaveEnds == Spec => []ClosedStreamHasEnd
BY SafeInvariant, PTL DEF SafeInv
-----------------------------------------------------------------------------
(* Accepted cancels and the retry, for a library that does not raise.      *)

LEMMA RetryUnregisteredStep ==
    ASSUME ~ChannelErrors, SafeInv, RetryUnregistered, [Next]_vars
    PROVE  RetryUnregistered'
<1> USE DEF SafeInv, TypeOK, HandlerFirst, RegisteredInRegion, RetryUnregistered, InRegion
<1>1. ASSUME NEW r \in Requests, ExecRefused(r) PROVE RetryUnregistered'
    BY <1>1 DEF ExecRefused, ExecGoto, taskVars, recordVars, cancelVars
<1>2. ASSUME NEW r \in Requests, ExecAdmitted(r) PROVE RetryUnregistered'
    BY <1>2 DEF ExecAdmitted, ExecGoto, taskVars, recordVars, cancelVars
<1>3. ASSUME NEW r \in Requests, ExecDenied(r) PROVE RetryUnregistered'
    BY <1>3 DEF ExecDenied, ExecGoto, taskVars, recordVars, cancelVars
<1>4. ASSUME NEW r \in Requests, ExecQueues(r) PROVE RetryUnregistered'
    BY <1>4 DEF ExecQueues, ExecGoto, taskVars, cancelVars
<1>5. ASSUME NEW r \in Requests, ExecAccepts(r) PROVE RetryUnregistered'
    BY <1>5 DEF ExecAccepts, ExecGoto, Goto, recordVars, cancelVars
<1>6. ASSUME NEW r \in Requests, TaskStarts(r) PROVE RetryUnregistered'
    BY <1>6 DEF TaskStarts, At, Goto, execVars, cancelVars
<1>7. ASSUME NEW r \in Requests, ConnectedTooLate(r) PROVE RetryUnregistered'
    BY <1>7 DEF ConnectedTooLate, At, Goto, CancelRequested, Finish, LeaveRegistry,
       PublishResult, TerminalEvent, AuditIsCancellers, execVars, cancelVars
<1>8. ASSUME NEW r \in Requests, Connected(r) PROVE RetryUnregistered'
    BY <1>8 DEF Connected, At, Goto, CancelRequested, execVars, recordVars,
       cancelVars
<1>9. ASSUME NEW r \in Requests, CreatedTooLate(r) PROVE RetryUnregistered'
    BY <1>9 DEF CreatedTooLate, At, Goto, SetProc, CancelRequested, execVars,
       recordVars, cancelVars
<1>10. ASSUME NEW r \in Requests, Created(r) PROVE RetryUnregistered'
    BY <1>10 DEF Created, At, Goto, SetProc, CancelRequested, execVars, recordVars,
       cancelVars
<1>11. ASSUME NEW r \in Requests, WaitEnds(r) PROVE RetryUnregistered'
    BY <1>11 DEF WaitEnds, At, Goto, execVars, recordVars, cancelVars
<1>12. ASSUME NEW r \in Requests, TaskKills(r) PROVE RetryUnregistered'
    BY <1>12 DEF TaskKills, At, SetProc, execVars, taskVars, recordVars, cancelVars
<1>13. ASSUME NEW r \in Requests, TerminateReturns(r) PROVE RetryUnregistered'
    BY <1>13 DEF TerminateReturns, At, Goto, execVars, recordVars, cancelVars
<1>14. ASSUME NEW r \in Requests, AbortReturns(r) PROVE RetryUnregistered'
    BY <1>14 DEF AbortReturns, At, Goto, Finish, LeaveRegistry, PublishResult,
       TerminalEvent, AuditIsCancellers, execVars, cancelVars
<1>15. ASSUME NEW r \in Requests, Drained(r) PROVE RetryUnregistered'
    BY <1>15 DEF Drained, At, Goto, CancelRequested, Finish, LeaveRegistry,
       PublishResult, TerminalEvent, AuditIsCancellers, execVars, cancelVars
<1>16. ASSUME NEW r \in Requests, TimeoutDrained(r) PROVE RetryUnregistered'
    BY <1>16 DEF TimeoutDrained, At, Goto, Finish, LeaveRegistry, PublishResult,
       TerminalEvent, AuditIsCancellers, execVars, cancelVars
<1>17. ASSUME NEW r \in Requests, Retry(r) PROVE RetryUnregistered'
    BY <1>17 DEF Retry, At, Goto, LeaveRegistry, execVars, recordVars, cancelVars
<1>18. ASSUME NEW r \in Requests, GiveUp(r) PROVE RetryUnregistered'
    BY <1>18 DEF GiveUp, At, Goto, Fail, LeaveRegistry, execVars, cancelVars
<1>19. ASSUME NEW r \in Requests, TaskAudited(r) PROVE RetryUnregistered'
    BY <1>19 DEF TaskAudited, At, Goto, execVars, cancelVars
<1>20. ASSUME NEW r \in Requests, TaskLosesConfig(r) PROVE RetryUnregistered'
    BY <1>20 DEF TaskLosesConfig, At, Goto, execVars, recordVars, cancelVars
<1>21. ASSUME NEW r \in Requests, ConnectFails(r) \/ CreateFails(r) PROVE RetryUnregistered'
    BY <1>21 DEF ConnectFails, CreateFails, At, Goto, SetProc, execVars, recordVars, cancelVars
<1>22. ASSUME NEW r \in Requests, WaitRaises(r) PROVE RetryUnregistered'
    BY <1>22 DEF WaitRaises, At, Goto, SetProc, execVars, recordVars, cancelVars
<1>23. ASSUME NEW r \in Requests, NEW a \in Attempts, ProcessEnds(r, a) PROVE RetryUnregistered'
    BY <1>23 DEF ProcessEnds, SetProc, execVars, taskVars, recordVars, cancelVars
<1>24. ASSUME NEW c \in Cancellers, CancelRefused(c) PROVE RetryUnregistered'
    BY <1>24 DEF CancelRefused, CancelGoto, RaiseFlag, execVars, taskVars,
       recordVars
<1>25. ASSUME NEW c \in Cancellers, CancelUnknown(c) PROVE RetryUnregistered'
    BY <1>25 DEF CancelUnknown, CancelGoto, RaiseFlag, execVars, taskVars,
       recordVars
<1>26. ASSUME NEW c \in Cancellers, CancelQueued(c) PROVE RetryUnregistered'
    BY <1>26 DEF CancelQueued, CancelGoto, RaiseFlag, Unfinished, execVars,
       taskVars, recordVars
<1>27. ASSUME NEW c \in Cancellers, CancelFound(c) PROVE RetryUnregistered'
    BY <1>27 DEF CancelFound, CancelGoto, RaiseFlag, execVars, taskVars, recordVars
<1>28. ASSUME NEW c \in Cancellers, CancelKills(c) PROVE RetryUnregistered'
    BY <1>28 DEF CancelKills, SetProc, execVars, taskVars, recordVars, cancelVars
<1>29. ASSUME NEW c \in Cancellers, CancelAborts(c) PROVE RetryUnregistered'
    BY <1>29 DEF CancelAborts, CancelGoto, SetProc, execVars, taskVars, recordVars
<1>30. ASSUME NEW c \in Cancellers, CancelTakesEffect(c) PROVE RetryUnregistered'
    BY <1>30 DEF CancelTakesEffect, CancelGoto, Acknowledge, execVars, taskVars
<1>31. ASSUME NEW c \in Cancellers, CancelAudited(c) PROVE RetryUnregistered'
    BY <1>31 DEF CancelAudited, CancelGoto, execVars, taskVars, recordVars
<1>32. ASSUME NEW c \in Cancellers, CancelFails(c) PROVE RetryUnregistered'
    BY <1>32 DEF CancelFails, CancelGoto, execVars, taskVars, recordVars
<1>33. ASSUME Crash PROVE RetryUnregistered'
    BY <1>33 DEF Crash, recordVars
<1>34. ASSUME UNCHANGED vars PROVE RetryUnregistered'
    BY <1>34 DEF vars, execVars, taskVars, recordVars, cancelVars
<1>35. QED
    BY <1>1, <1>2, <1>3, <1>4, <1>5, <1>6, <1>7, <1>8, <1>9, <1>10, <1>11, <1>12,
       <1>13, <1>14, <1>15, <1>16, <1>17, <1>18, <1>19, <1>20, <1>21, <1>22, <1>23,
       <1>24, <1>25, <1>26, <1>27, <1>28, <1>29, <1>30, <1>31, <1>32, <1>33, <1>34
       DEF Next, ExecStep, TaskStep, TaskFault, CancelArrives, CancelStep

\* Once the task of r is past the places from which the job can end, what it did to
\* r's flag does not matter.
LEMMA EndedKeepsFlags ==
    ASSUME NEW r \in Requests, TypeOK, PromiseFlagged, HandlerFlagged,
           exec[r] = "accepted",
           task' = [task EXCEPT ![r] = task'[r]],
           task'[r] \notin Pending,
           flagged \ {r} \subseteq flagged',
           UNCHANGED <<exec, cpc, target, promised>>
    PROVE  PromiseFlagged' /\ HandlerFlagged'
<1>1. /\ ~MayEnd(r)'
      /\ \A q \in Requests : q # r /\ MayEnd(q)' => MayEnd(q)
    BY DEF MayEnd, TypeOK
<1>2. PromiseFlagged'
    BY <1>1 DEF PromiseFlagged
<1>3. HandlerFlagged'
  <2>1. ASSUME NEW c \in Cancellers, cpc[c] \in {"terminating", "resetting"},
               task'[target[c]] \in Pending \/ exec[target[c]] = "auditing"
        PROVE  target[c] \in flagged'
    <3>1. target[c] \in Requests /\ target[c] # r
        BY <2>1 DEF TypeOK
    <3>2. MayEnd(target[c])
        BY <2>1, <3>1 DEF MayEnd, TypeOK
    <3>3. QED
        BY <2>1, <3>1, <3>2 DEF HandlerFlagged
  <2>2. QED
        BY <2>1 DEF HandlerFlagged, MayEnd
<1>4. QED
    BY <1>2, <1>3

LEMMA FlagStep ==
    ASSUME SafeInv, RetryUnregistered, PromiseFlagged, HandlerFlagged, [Next]_vars
    PROVE  PromiseFlagged' /\ HandlerFlagged'
<1> USE DEF SafeInv, TypeOK, HandlerFirst, HandlerHasJob, RegistrySound,
            RegisteredInRegion, RetryUnregistered, PromiseFlagged, HandlerFlagged,
            MayEnd, Pending, InRegion
<1>1. ASSUME NEW r \in Requests, ExecRefused(r) PROVE PromiseFlagged' /\ HandlerFlagged'
    BY <1>1 DEF ExecRefused, ExecGoto, taskVars, recordVars, cancelVars
<1>2. ASSUME NEW r \in Requests, ExecAdmitted(r) PROVE PromiseFlagged' /\ HandlerFlagged'
    BY <1>2 DEF ExecAdmitted, ExecGoto, taskVars, recordVars, cancelVars
<1>3. ASSUME NEW r \in Requests, ExecDenied(r) PROVE PromiseFlagged' /\ HandlerFlagged'
    BY <1>3 DEF ExecDenied, ExecGoto, taskVars, recordVars, cancelVars
<1>4. ASSUME NEW r \in Requests, ExecQueues(r) PROVE PromiseFlagged' /\ HandlerFlagged'
    BY <1>4 DEF ExecQueues, ExecGoto, taskVars, cancelVars
<1>5. ASSUME NEW r \in Requests, ExecAccepts(r) PROVE PromiseFlagged' /\ HandlerFlagged'
    BY <1>5 DEF ExecAccepts, ExecGoto, Goto, recordVars, cancelVars
<1>6. ASSUME NEW r \in Requests, TaskStarts(r) PROVE PromiseFlagged' /\ HandlerFlagged'
    BY <1>6 DEF TaskStarts, At, Goto, execVars, cancelVars
<1>7. ASSUME NEW r \in Requests, ConnectedTooLate(r) PROVE PromiseFlagged' /\ HandlerFlagged'
    <2>1. task[r] \in Pending /\ exec[r] = "accepted"
        BY <1>7 DEF ConnectedTooLate, At
    <2>2. task' = [task EXCEPT ![r] = task'[r]] /\ task'[r] \notin Pending
        BY <1>7 DEF ConnectedTooLate, At, Goto, Finish, LeaveRegistry, execVars, cancelVars
    <2>3. flagged \ {r} \subseteq flagged'
        BY <1>7 DEF ConnectedTooLate, At, Goto, Finish, LeaveRegistry, execVars, cancelVars
    <2>4. UNCHANGED <<exec, cpc, target, promised>>
        BY <1>7 DEF ConnectedTooLate, execVars, cancelVars
    <2>5. QED
        BY <2>1, <2>2, <2>3, <2>4, EndedKeepsFlags
<1>8. ASSUME NEW r \in Requests, Connected(r) PROVE PromiseFlagged' /\ HandlerFlagged'
    BY <1>8 DEF Connected, At, Goto, CancelRequested, execVars, recordVars,
       cancelVars
<1>9. ASSUME NEW r \in Requests, CreatedTooLate(r) PROVE PromiseFlagged' /\ HandlerFlagged'
    BY <1>9 DEF CreatedTooLate, At, Goto, SetProc, CancelRequested, execVars,
       recordVars, cancelVars
<1>10. ASSUME NEW r \in Requests, Created(r) PROVE PromiseFlagged' /\ HandlerFlagged'
    BY <1>10 DEF Created, At, Goto, SetProc, CancelRequested, execVars, recordVars,
       cancelVars
<1>11. ASSUME NEW r \in Requests, WaitEnds(r) PROVE PromiseFlagged' /\ HandlerFlagged'
    BY <1>11 DEF WaitEnds, At, Goto, execVars, recordVars, cancelVars
<1>12. ASSUME NEW r \in Requests, TaskKills(r) PROVE PromiseFlagged' /\ HandlerFlagged'
    BY <1>12 DEF TaskKills, At, SetProc, execVars, taskVars, recordVars, cancelVars
<1>13. ASSUME NEW r \in Requests, TerminateReturns(r) PROVE PromiseFlagged' /\ HandlerFlagged'
    BY <1>13 DEF TerminateReturns, At, Goto, execVars, recordVars, cancelVars
<1>14. ASSUME NEW r \in Requests, AbortReturns(r) PROVE PromiseFlagged' /\ HandlerFlagged'
    <2>1. task[r] \in Pending /\ exec[r] = "accepted"
        BY <1>14 DEF AbortReturns, At
    <2>2. task' = [task EXCEPT ![r] = task'[r]] /\ task'[r] \notin Pending
        BY <1>14 DEF AbortReturns, At, Goto, Finish, LeaveRegistry, execVars, cancelVars
    <2>3. flagged \ {r} \subseteq flagged'
        BY <1>14 DEF AbortReturns, At, Goto, Finish, LeaveRegistry, execVars, cancelVars
    <2>4. UNCHANGED <<exec, cpc, target, promised>>
        BY <1>14 DEF AbortReturns, execVars, cancelVars
    <2>5. QED
        BY <2>1, <2>2, <2>3, <2>4, EndedKeepsFlags
<1>15. ASSUME NEW r \in Requests, Drained(r) PROVE PromiseFlagged' /\ HandlerFlagged'
    <2>1. task[r] \in Pending /\ exec[r] = "accepted"
        BY <1>15 DEF Drained, At
    <2>2. task' = [task EXCEPT ![r] = task'[r]] /\ task'[r] \notin Pending
        BY <1>15 DEF Drained, At, Goto, Finish, LeaveRegistry, execVars, cancelVars
    <2>3. flagged \ {r} \subseteq flagged'
        BY <1>15 DEF Drained, At, Goto, Finish, LeaveRegistry, execVars, cancelVars
    <2>4. UNCHANGED <<exec, cpc, target, promised>>
        BY <1>15 DEF Drained, execVars, cancelVars
    <2>5. QED
        BY <2>1, <2>2, <2>3, <2>4, EndedKeepsFlags
<1>16. ASSUME NEW r \in Requests, TimeoutDrained(r) PROVE PromiseFlagged' /\ HandlerFlagged'
    <2>1. task[r] \in Pending /\ exec[r] = "accepted"
        BY <1>16 DEF TimeoutDrained, At
    <2>2. task' = [task EXCEPT ![r] = task'[r]] /\ task'[r] \notin Pending
        BY <1>16 DEF TimeoutDrained, At, Goto, Finish, LeaveRegistry, execVars, cancelVars
    <2>3. flagged \ {r} \subseteq flagged'
        BY <1>16 DEF TimeoutDrained, At, Goto, Finish, LeaveRegistry, execVars, cancelVars
    <2>4. UNCHANGED <<exec, cpc, target, promised>>
        BY <1>16 DEF TimeoutDrained, execVars, cancelVars
    <2>5. QED
        BY <2>1, <2>2, <2>3, <2>4, EndedKeepsFlags
<1>17. ASSUME NEW r \in Requests, Retry(r) PROVE PromiseFlagged' /\ HandlerFlagged'
    BY <1>17 DEF Retry, At, Goto, LeaveRegistry, execVars, recordVars, cancelVars
<1>18. ASSUME NEW r \in Requests, GiveUp(r) PROVE PromiseFlagged' /\ HandlerFlagged'
    <2>1. task[r] \in Pending /\ exec[r] = "accepted"
        BY <1>18 DEF GiveUp, At
    <2>2. task' = [task EXCEPT ![r] = task'[r]] /\ task'[r] \notin Pending
        BY <1>18 DEF GiveUp, At, Goto, Fail, LeaveRegistry, execVars, cancelVars
    <2>3. flagged \ {r} \subseteq flagged'
        BY <1>18 DEF GiveUp, At, Goto, Fail, LeaveRegistry, execVars, cancelVars
    <2>4. UNCHANGED <<exec, cpc, target, promised>>
        BY <1>18 DEF GiveUp, execVars, cancelVars
    <2>5. QED
        BY <2>1, <2>2, <2>3, <2>4, EndedKeepsFlags
<1>19. ASSUME NEW r \in Requests, TaskAudited(r) PROVE PromiseFlagged' /\ HandlerFlagged'
    BY <1>19 DEF TaskAudited, At, Goto, execVars, cancelVars
<1>20. ASSUME NEW r \in Requests, TaskLosesConfig(r) PROVE PromiseFlagged' /\ HandlerFlagged'
    BY <1>20 DEF TaskLosesConfig, At, Goto, execVars, recordVars, cancelVars
<1>21. ASSUME NEW r \in Requests, ConnectFails(r) \/ CreateFails(r) PROVE PromiseFlagged' /\ HandlerFlagged'
    BY <1>21 DEF ConnectFails, CreateFails, At, Goto, SetProc, execVars, recordVars, cancelVars
<1>22. ASSUME NEW r \in Requests, WaitRaises(r) PROVE PromiseFlagged' /\ HandlerFlagged'
    BY <1>22 DEF WaitRaises, At, Goto, SetProc, execVars, recordVars, cancelVars
<1>23. ASSUME NEW r \in Requests, NEW a \in Attempts, ProcessEnds(r, a) PROVE PromiseFlagged' /\ HandlerFlagged'
    BY <1>23 DEF ProcessEnds, SetProc, execVars, taskVars, recordVars, cancelVars
<1>24. ASSUME NEW c \in Cancellers, CancelRefused(c) PROVE PromiseFlagged' /\ HandlerFlagged'
    BY <1>24 DEF CancelRefused, CancelGoto, RaiseFlag, execVars, taskVars,
       recordVars
<1>25. ASSUME NEW c \in Cancellers, CancelUnknown(c) PROVE PromiseFlagged' /\ HandlerFlagged'
    BY <1>25 DEF CancelUnknown, CancelGoto, RaiseFlag, execVars, taskVars,
       recordVars
<1>26. ASSUME NEW c \in Cancellers, CancelQueued(c) PROVE PromiseFlagged' /\ HandlerFlagged'
    BY <1>26 DEF CancelQueued, CancelGoto, RaiseFlag, Unfinished, execVars,
       taskVars, recordVars
<1>27. ASSUME NEW c \in Cancellers, CancelFound(c) PROVE PromiseFlagged' /\ HandlerFlagged'
    BY <1>27 DEF CancelFound, CancelGoto, RaiseFlag, execVars, taskVars, recordVars
<1>28. ASSUME NEW c \in Cancellers, CancelKills(c) PROVE PromiseFlagged' /\ HandlerFlagged'
    BY <1>28 DEF CancelKills, SetProc, execVars, taskVars, recordVars, cancelVars
<1>29. ASSUME NEW c \in Cancellers, CancelAborts(c) PROVE PromiseFlagged' /\ HandlerFlagged'
    BY <1>29 DEF CancelAborts, CancelGoto, SetProc, execVars, taskVars, recordVars
<1>30. ASSUME NEW c \in Cancellers, CancelTakesEffect(c) PROVE PromiseFlagged' /\ HandlerFlagged'
    BY <1>30 DEF CancelTakesEffect, CancelGoto, Acknowledge, execVars, taskVars
<1>31. ASSUME NEW c \in Cancellers, CancelAudited(c) PROVE PromiseFlagged' /\ HandlerFlagged'
    BY <1>31 DEF CancelAudited, CancelGoto, execVars, taskVars, recordVars
<1>32. ASSUME NEW c \in Cancellers, CancelFails(c) PROVE PromiseFlagged' /\ HandlerFlagged'
    BY <1>32 DEF CancelFails, CancelGoto, execVars, taskVars, recordVars
<1>33. ASSUME Crash PROVE PromiseFlagged' /\ HandlerFlagged'
    BY <1>33 DEF Crash, recordVars
<1>34. ASSUME UNCHANGED vars PROVE PromiseFlagged' /\ HandlerFlagged'
    BY <1>34 DEF vars, execVars, taskVars, recordVars, cancelVars
<1>35. QED
    BY <1>1, <1>2, <1>3, <1>4, <1>5, <1>6, <1>7, <1>8, <1>9, <1>10, <1>11, <1>12,
       <1>13, <1>14, <1>15, <1>16, <1>17, <1>18, <1>19, <1>20, <1>21, <1>22, <1>23,
       <1>24, <1>25, <1>26, <1>27, <1>28, <1>29, <1>30, <1>31, <1>32, <1>33, <1>34
       DEF Next, ExecStep, TaskStep, TaskFault, CancelArrives, CancelStep

LEMMA PromiseStep ==
    ASSUME SafeInv, PromiseFlagged, PromiseKept, [Next]_vars
    PROVE  PromiseKept'
<1> USE DEF SafeInv, TypeOK, HandlerFirst, PromiseFlagged, PromiseKept,
            MayEnd, Pending, InRegion
<1>1. ASSUME NEW r \in Requests, ExecRefused(r) PROVE PromiseKept'
    BY <1>1 DEF ExecRefused, ExecGoto, taskVars, recordVars, cancelVars
<1>2. ASSUME NEW r \in Requests, ExecAdmitted(r) PROVE PromiseKept'
    BY <1>2 DEF ExecAdmitted, ExecGoto, taskVars, recordVars, cancelVars
<1>3. ASSUME NEW r \in Requests, ExecDenied(r) PROVE PromiseKept'
    BY <1>3 DEF ExecDenied, ExecGoto, taskVars, recordVars, cancelVars
<1>4. ASSUME NEW r \in Requests, ExecQueues(r) PROVE PromiseKept'
    BY <1>4 DEF ExecQueues, ExecGoto, taskVars, cancelVars
<1>5. ASSUME NEW r \in Requests, ExecAccepts(r) PROVE PromiseKept'
    BY <1>5 DEF ExecAccepts, ExecGoto, Goto, recordVars, cancelVars
<1>6. ASSUME NEW r \in Requests, TaskStarts(r) PROVE PromiseKept'
    BY <1>6 DEF TaskStarts, At, Goto, execVars, cancelVars
<1>7. ASSUME NEW r \in Requests, ConnectedTooLate(r) PROVE PromiseKept'
    BY <1>7 DEF ConnectedTooLate, At, Goto, CancelRequested, Finish, LeaveRegistry,
       PublishResult, TerminalEvent, AuditIsCancellers, execVars, cancelVars
<1>8. ASSUME NEW r \in Requests, Connected(r) PROVE PromiseKept'
    BY <1>8 DEF Connected, At, Goto, CancelRequested, execVars, recordVars,
       cancelVars
<1>9. ASSUME NEW r \in Requests, CreatedTooLate(r) PROVE PromiseKept'
    BY <1>9 DEF CreatedTooLate, At, Goto, SetProc, CancelRequested, execVars,
       recordVars, cancelVars
<1>10. ASSUME NEW r \in Requests, Created(r) PROVE PromiseKept'
    BY <1>10 DEF Created, At, Goto, SetProc, CancelRequested, execVars, recordVars,
       cancelVars
<1>11. ASSUME NEW r \in Requests, WaitEnds(r) PROVE PromiseKept'
    BY <1>11 DEF WaitEnds, At, Goto, execVars, recordVars, cancelVars
<1>12. ASSUME NEW r \in Requests, TaskKills(r) PROVE PromiseKept'
    BY <1>12 DEF TaskKills, At, SetProc, execVars, taskVars, recordVars, cancelVars
<1>13. ASSUME NEW r \in Requests, TerminateReturns(r) PROVE PromiseKept'
    BY <1>13 DEF TerminateReturns, At, Goto, execVars, recordVars, cancelVars
<1>14. ASSUME NEW r \in Requests, AbortReturns(r) PROVE PromiseKept'
    BY <1>14 DEF AbortReturns, At, Goto, Finish, LeaveRegistry, PublishResult,
       TerminalEvent, AuditIsCancellers, execVars, cancelVars
<1>15. ASSUME NEW r \in Requests, Drained(r) PROVE PromiseKept'
    BY <1>15 DEF Drained, At, Goto, CancelRequested, Finish, LeaveRegistry,
       PublishResult, TerminalEvent, AuditIsCancellers, execVars, cancelVars
<1>16. ASSUME NEW r \in Requests, TimeoutDrained(r) PROVE PromiseKept'
    BY <1>16 DEF TimeoutDrained, At, Goto, Finish, LeaveRegistry, PublishResult,
       TerminalEvent, AuditIsCancellers, execVars, cancelVars
<1>17. ASSUME NEW r \in Requests, Retry(r) PROVE PromiseKept'
    BY <1>17 DEF Retry, At, Goto, LeaveRegistry, execVars, recordVars, cancelVars
<1>18. ASSUME NEW r \in Requests, GiveUp(r) PROVE PromiseKept'
    BY <1>18 DEF GiveUp, At, Goto, Fail, LeaveRegistry, execVars, cancelVars
<1>19. ASSUME NEW r \in Requests, TaskAudited(r) PROVE PromiseKept'
    BY <1>19 DEF TaskAudited, At, Goto, execVars, cancelVars
<1>20. ASSUME NEW r \in Requests, TaskLosesConfig(r) PROVE PromiseKept'
    BY <1>20 DEF TaskLosesConfig, At, Goto, execVars, recordVars, cancelVars
<1>21. ASSUME NEW r \in Requests, ConnectFails(r) \/ CreateFails(r) PROVE PromiseKept'
    BY <1>21 DEF ConnectFails, CreateFails, At, Goto, SetProc, execVars, recordVars, cancelVars
<1>22. ASSUME NEW r \in Requests, WaitRaises(r) PROVE PromiseKept'
    BY <1>22 DEF WaitRaises, At, Goto, SetProc, execVars, recordVars, cancelVars
<1>23. ASSUME NEW r \in Requests, NEW a \in Attempts, ProcessEnds(r, a) PROVE PromiseKept'
    BY <1>23 DEF ProcessEnds, SetProc, execVars, taskVars, recordVars, cancelVars
<1>24. ASSUME NEW c \in Cancellers, CancelRefused(c) PROVE PromiseKept'
    BY <1>24 DEF CancelRefused, CancelGoto, RaiseFlag, execVars, taskVars,
       recordVars
<1>25. ASSUME NEW c \in Cancellers, CancelUnknown(c) PROVE PromiseKept'
    BY <1>25 DEF CancelUnknown, CancelGoto, RaiseFlag, execVars, taskVars,
       recordVars
<1>26. ASSUME NEW c \in Cancellers, CancelQueued(c) PROVE PromiseKept'
    BY <1>26 DEF CancelQueued, CancelGoto, RaiseFlag, Unfinished, execVars,
       taskVars, recordVars
<1>27. ASSUME NEW c \in Cancellers, CancelFound(c) PROVE PromiseKept'
    BY <1>27 DEF CancelFound, CancelGoto, RaiseFlag, execVars, taskVars, recordVars
<1>28. ASSUME NEW c \in Cancellers, CancelKills(c) PROVE PromiseKept'
    BY <1>28 DEF CancelKills, SetProc, execVars, taskVars, recordVars, cancelVars
<1>29. ASSUME NEW c \in Cancellers, CancelAborts(c) PROVE PromiseKept'
    BY <1>29 DEF CancelAborts, CancelGoto, SetProc, execVars, taskVars, recordVars
<1>30. ASSUME NEW c \in Cancellers, CancelTakesEffect(c) PROVE PromiseKept'
    BY <1>30 DEF CancelTakesEffect, CancelGoto, Acknowledge, execVars, taskVars
<1>31. ASSUME NEW c \in Cancellers, CancelAudited(c) PROVE PromiseKept'
    BY <1>31 DEF CancelAudited, CancelGoto, execVars, taskVars, recordVars
<1>32. ASSUME NEW c \in Cancellers, CancelFails(c) PROVE PromiseKept'
    BY <1>32 DEF CancelFails, CancelGoto, execVars, taskVars, recordVars
<1>33. ASSUME Crash PROVE PromiseKept'
    BY <1>33 DEF Crash, recordVars
<1>34. ASSUME UNCHANGED vars PROVE PromiseKept'
    BY <1>34 DEF vars, execVars, taskVars, recordVars, cancelVars
<1>35. QED
    BY <1>1, <1>2, <1>3, <1>4, <1>5, <1>6, <1>7, <1>8, <1>9, <1>10, <1>11, <1>12,
       <1>13, <1>14, <1>15, <1>16, <1>17, <1>18, <1>19, <1>20, <1>21, <1>22, <1>23,
       <1>24, <1>25, <1>26, <1>27, <1>28, <1>29, <1>30, <1>31, <1>32, <1>33, <1>34
       DEF Next, ExecStep, TaskStep, TaskFault, CancelArrives, CancelStep

LEMMA RetryStep ==
    ASSUME ~ChannelErrors, SafeInv, RetryInv, [Next]_vars
    PROVE  RetryInv'
<1> USE DEF SafeInv, TypeOK, HandlerFirst, RetryInv, RetryIsFirstRun, FirstAttempt,
            StartedNeverRunAgain, InRegion, Attempts
<1>1. ASSUME NEW r \in Requests, ExecRefused(r) PROVE RetryInv'
    BY <1>1 DEF ExecRefused, ExecGoto, taskVars, recordVars, cancelVars
<1>2. ASSUME NEW r \in Requests, ExecAdmitted(r) PROVE RetryInv'
    BY <1>2 DEF ExecAdmitted, ExecGoto, taskVars, recordVars, cancelVars
<1>3. ASSUME NEW r \in Requests, ExecDenied(r) PROVE RetryInv'
    BY <1>3 DEF ExecDenied, ExecGoto, taskVars, recordVars, cancelVars
<1>4. ASSUME NEW r \in Requests, ExecQueues(r) PROVE RetryInv'
    BY <1>4 DEF ExecQueues, ExecGoto, taskVars, cancelVars
<1>5. ASSUME NEW r \in Requests, ExecAccepts(r) PROVE RetryInv'
    BY <1>5 DEF ExecAccepts, ExecGoto, Goto, recordVars, cancelVars
<1>6. ASSUME NEW r \in Requests, TaskStarts(r) PROVE RetryInv'
    BY <1>6 DEF TaskStarts, At, Goto, execVars, cancelVars
<1>7. ASSUME NEW r \in Requests, ConnectedTooLate(r) PROVE RetryInv'
    BY <1>7 DEF ConnectedTooLate, At, Goto, CancelRequested, Finish, LeaveRegistry,
       PublishResult, TerminalEvent, AuditIsCancellers, execVars, cancelVars
<1>8. ASSUME NEW r \in Requests, Connected(r) PROVE RetryInv'
    BY <1>8 DEF Connected, At, Goto, CancelRequested, execVars, recordVars,
       cancelVars
<1>9. ASSUME NEW r \in Requests, CreatedTooLate(r) PROVE RetryInv'
    BY <1>9 DEF CreatedTooLate, At, Goto, SetProc, CancelRequested, execVars,
       recordVars, cancelVars
<1>10. ASSUME NEW r \in Requests, Created(r) PROVE RetryInv'
    BY <1>10 DEF Created, At, Goto, SetProc, CancelRequested, execVars, recordVars,
       cancelVars
<1>11. ASSUME NEW r \in Requests, WaitEnds(r) PROVE RetryInv'
    BY <1>11 DEF WaitEnds, At, Goto, execVars, recordVars, cancelVars
<1>12. ASSUME NEW r \in Requests, TaskKills(r) PROVE RetryInv'
    BY <1>12 DEF TaskKills, At, SetProc, execVars, taskVars, recordVars, cancelVars
<1>13. ASSUME NEW r \in Requests, TerminateReturns(r) PROVE RetryInv'
    BY <1>13 DEF TerminateReturns, At, Goto, execVars, recordVars, cancelVars
<1>14. ASSUME NEW r \in Requests, AbortReturns(r) PROVE RetryInv'
    BY <1>14 DEF AbortReturns, At, Goto, Finish, LeaveRegistry, PublishResult,
       TerminalEvent, AuditIsCancellers, execVars, cancelVars
<1>15. ASSUME NEW r \in Requests, Drained(r) PROVE RetryInv'
    BY <1>15 DEF Drained, At, Goto, CancelRequested, Finish, LeaveRegistry,
       PublishResult, TerminalEvent, AuditIsCancellers, execVars, cancelVars
<1>16. ASSUME NEW r \in Requests, TimeoutDrained(r) PROVE RetryInv'
    BY <1>16 DEF TimeoutDrained, At, Goto, Finish, LeaveRegistry, PublishResult,
       TerminalEvent, AuditIsCancellers, execVars, cancelVars
<1>17. ASSUME NEW r \in Requests, Retry(r) PROVE RetryInv'
    BY <1>17 DEF Retry, At, Goto, LeaveRegistry, execVars, recordVars, cancelVars
<1>18. ASSUME NEW r \in Requests, GiveUp(r) PROVE RetryInv'
    BY <1>18 DEF GiveUp, At, Goto, Fail, LeaveRegistry, execVars, cancelVars
<1>19. ASSUME NEW r \in Requests, TaskAudited(r) PROVE RetryInv'
    BY <1>19 DEF TaskAudited, At, Goto, execVars, cancelVars
<1>20. ASSUME NEW r \in Requests, TaskLosesConfig(r) PROVE RetryInv'
    BY <1>20 DEF TaskLosesConfig, At, Goto, execVars, recordVars, cancelVars
<1>21. ASSUME NEW r \in Requests, ConnectFails(r) \/ CreateFails(r) PROVE RetryInv'
    <2>1. CASE ConnectFails(r)
        BY <2>1 DEF ConnectFails, At, Goto, execVars, recordVars, cancelVars
    <2>2. CASE CreateFails(r) /\ proc' = proc
        BY <2>2 DEF CreateFails, At, Goto, execVars, recordVars, cancelVars
    <2>3. CASE CreateFails(r) /\ SetProc(r, attempt[r], "unanswered")
        BY <2>3 DEF CreateFails, At, Goto, SetProc, execVars, recordVars, cancelVars
    <2> QED BY <1>21, <2>1, <2>2, <2>3 DEF CreateFails
<1>22. ASSUME NEW r \in Requests, WaitRaises(r) PROVE RetryInv'
    BY <1>22 DEF WaitRaises, At, Goto, SetProc, execVars, recordVars, cancelVars
<1>23. ASSUME NEW r \in Requests, NEW a \in Attempts, ProcessEnds(r, a) PROVE RetryInv'
    BY <1>23 DEF ProcessEnds, SetProc, execVars, taskVars, recordVars, cancelVars
<1>24. ASSUME NEW c \in Cancellers, CancelRefused(c) PROVE RetryInv'
    BY <1>24 DEF CancelRefused, CancelGoto, RaiseFlag, execVars, taskVars,
       recordVars
<1>25. ASSUME NEW c \in Cancellers, CancelUnknown(c) PROVE RetryInv'
    BY <1>25 DEF CancelUnknown, CancelGoto, RaiseFlag, execVars, taskVars,
       recordVars
<1>26. ASSUME NEW c \in Cancellers, CancelQueued(c) PROVE RetryInv'
    BY <1>26 DEF CancelQueued, CancelGoto, RaiseFlag, Unfinished, execVars,
       taskVars, recordVars
<1>27. ASSUME NEW c \in Cancellers, CancelFound(c) PROVE RetryInv'
    BY <1>27 DEF CancelFound, CancelGoto, RaiseFlag, execVars, taskVars, recordVars
<1>28. ASSUME NEW c \in Cancellers, CancelKills(c) PROVE RetryInv'
    BY <1>28 DEF CancelKills, SetProc, execVars, taskVars, recordVars, cancelVars
<1>29. ASSUME NEW c \in Cancellers, CancelAborts(c) PROVE RetryInv'
    BY <1>29 DEF CancelAborts, CancelGoto, SetProc, execVars, taskVars, recordVars
<1>30. ASSUME NEW c \in Cancellers, CancelTakesEffect(c) PROVE RetryInv'
    BY <1>30 DEF CancelTakesEffect, CancelGoto, Acknowledge, execVars, taskVars
<1>31. ASSUME NEW c \in Cancellers, CancelAudited(c) PROVE RetryInv'
    BY <1>31 DEF CancelAudited, CancelGoto, execVars, taskVars, recordVars
<1>32. ASSUME NEW c \in Cancellers, CancelFails(c) PROVE RetryInv'
    BY <1>32 DEF CancelFails, CancelGoto, execVars, taskVars, recordVars
<1>33. ASSUME Crash PROVE RetryInv'
    BY <1>33 DEF Crash, recordVars
<1>34. ASSUME UNCHANGED vars PROVE RetryInv'
    BY <1>34 DEF vars, execVars, taskVars, recordVars, cancelVars
<1>35. QED
    BY <1>1, <1>2, <1>3, <1>4, <1>5, <1>6, <1>7, <1>8, <1>9, <1>10, <1>11, <1>12,
       <1>13, <1>14, <1>15, <1>16, <1>17, <1>18, <1>19, <1>20, <1>21, <1>22, <1>23,
       <1>24, <1>25, <1>26, <1>27, <1>28, <1>29, <1>30, <1>31, <1>32, <1>33, <1>34
       DEF Next, ExecStep, TaskStep, TaskFault, CancelArrives, CancelStep

LEMMA PromiseInvariant == ASSUME ~ChannelErrors PROVE Spec => [](SafeInv /\ PromiseInv)
<1>1. Init => SafeInv /\ PromiseInv
    BY TypeInit DEF Init, SafeInv, HandlerFirst, HandlerHasJob, RegistrySound,
       RegisteredInRegion, EndedTaskPublished, ClosedStreamHasEnd, PromiseInv,
       RetryUnregistered, PromiseFlagged, HandlerFlagged, PromiseKept
<1>2. SafeInv /\ PromiseInv /\ [Next]_vars => (SafeInv /\ PromiseInv)'
    BY TypeStep, HandlerStep, RegistryStep, StreamStep, RetryUnregisteredStep, FlagStep,
       PromiseStep DEF SafeInv, PromiseInv
<1>3. QED
    BY <1>1, <1>2, PTL DEF Spec

\* An accepted cancel is never answered by a job that ends "completed".
THEOREM CancelPromisesAreKept == ASSUME ~ChannelErrors PROVE Spec => []PromiseKept
BY PromiseInvariant, PTL DEF PromiseInv

\* While wait does not raise, the retry never repeats a command whose process the
\* service was given: it follows an attempt whose create_process raised (the command may
\* run then, unobserved) or was not reached.
THEOREM RetryRunsNothingAgain == ASSUME ~ChannelErrors PROVE Spec => []StartedNeverRunAgain
<1>1. Init => RetryInv
    BY DEF Init, RetryInv, RetryIsFirstRun, FirstAttempt, StartedNeverRunAgain, Attempts
<1>2. SafeInv /\ RetryInv /\ [Next]_vars => RetryInv'
    BY RetryStep
<1>3. RetryInv => StartedNeverRunAgain
    BY DEF RetryInv
<1>4. QED
    BY <1>1, <1>2, <1>3, SafeInvariant, PTL DEF Spec
-----------------------------------------------------------------------------
(* ExecLifecycle implements JobContract.                                   *)

LEMMA JobStep ==
    ASSUME ~ChannelErrors, SafeInv, PromiseInv, JobInv, [Next]_vars
    PROVE  JobInv'
<1> USE DEF SafeInv, TypeOK, HandlerFirst, HandlerHasJob, RegistrySound, PromiseInv,
            HandlerFlagged, RetryUnregistered, MayEnd, Pending, JobInv, JobFollowsTask, HandlerMayStop,
            Setup, InRegion, Contract!Stopped
<1>1. ASSUME NEW r \in Requests, ExecRefused(r) PROVE JobInv'
    BY <1>1 DEF ExecRefused, ExecGoto, taskVars, recordVars, cancelVars
<1>2. ASSUME NEW r \in Requests, ExecAdmitted(r) PROVE JobInv'
    BY <1>2 DEF ExecAdmitted, ExecGoto, taskVars, recordVars, cancelVars
<1>3. ASSUME NEW r \in Requests, ExecDenied(r) PROVE JobInv'
    BY <1>3 DEF ExecDenied, ExecGoto, taskVars, recordVars, cancelVars
<1>4. ASSUME NEW r \in Requests, ExecQueues(r) PROVE JobInv'
    BY <1>4 DEF ExecQueues, ExecGoto, taskVars, cancelVars
<1>5. ASSUME NEW r \in Requests, ExecAccepts(r) PROVE JobInv'
    BY <1>5 DEF ExecAccepts, ExecGoto, Goto, recordVars, cancelVars
<1>6. ASSUME NEW r \in Requests, TaskStarts(r) PROVE JobInv'
    <2>1. JobFollowsTask'
        <3>1. /\ exec' = exec /\ exec[r] = "accepted"
              /\ task'[r] = "connecting" /\ job'[r] = "running" /\ promised' = promised
            BY <1>6 DEF TaskStarts, At, Goto, execVars
        <3>2. \A q \in Requests : q # r => task'[q] = task[q] /\ job'[q] = job[q]
            BY <1>6 DEF TaskStarts, At, Goto
        <3>3. QED
            BY <3>1, <3>2
    <2>2. \A c \in Cancellers : cpc[c] \in {"terminating", "resetting"} => target[c] # r
        BY <1>6 DEF TaskStarts, At
    <2>3. HandlerMayStop'
        BY <1>6, <2>2 DEF TaskStarts, At, Goto, cancelVars
    <2>4. QED
        BY <2>1, <2>3
<1>7. ASSUME NEW r \in Requests, ConnectedTooLate(r) PROVE JobInv'
    BY <1>7 DEF ConnectedTooLate, At, Goto, CancelRequested, Finish, LeaveRegistry,
       PublishResult, TerminalEvent, AuditIsCancellers, execVars, cancelVars
<1>8. ASSUME NEW r \in Requests, Connected(r) PROVE JobInv'
    BY <1>8 DEF Connected, At, Goto, CancelRequested, execVars, recordVars,
       cancelVars
<1>9. ASSUME NEW r \in Requests, CreatedTooLate(r) PROVE JobInv'
    BY <1>9 DEF CreatedTooLate, At, Goto, SetProc, CancelRequested, execVars,
       recordVars, cancelVars
<1>10. ASSUME NEW r \in Requests, Created(r) PROVE JobInv'
    BY <1>10 DEF Created, At, Goto, SetProc, CancelRequested, execVars, recordVars,
       cancelVars
<1>11. ASSUME NEW r \in Requests, WaitEnds(r) PROVE JobInv'
    BY <1>11 DEF WaitEnds, At, Goto, execVars, recordVars, cancelVars
<1>12. ASSUME NEW r \in Requests, TaskKills(r) PROVE JobInv'
    BY <1>12 DEF TaskKills, At, SetProc, execVars, taskVars, recordVars, cancelVars
<1>13. ASSUME NEW r \in Requests, TerminateReturns(r) PROVE JobInv'
    BY <1>13 DEF TerminateReturns, At, Goto, execVars, recordVars, cancelVars
<1>14. ASSUME NEW r \in Requests, AbortReturns(r) PROVE JobInv'
    BY <1>14 DEF AbortReturns, At, Goto, Finish, LeaveRegistry, PublishResult,
       TerminalEvent, AuditIsCancellers, execVars, cancelVars
<1>15. ASSUME NEW r \in Requests, Drained(r) PROVE JobInv'
    BY <1>15 DEF Drained, At, Goto, CancelRequested, Finish, LeaveRegistry,
       PublishResult, TerminalEvent, AuditIsCancellers, execVars, cancelVars
<1>16. ASSUME NEW r \in Requests, TimeoutDrained(r) PROVE JobInv'
    BY <1>16 DEF TimeoutDrained, At, Goto, Finish, LeaveRegistry, PublishResult,
       TerminalEvent, AuditIsCancellers, execVars, cancelVars
<1>17. ASSUME NEW r \in Requests, Retry(r) PROVE JobInv'
    BY <1>17 DEF Retry, At, Goto, LeaveRegistry, execVars, recordVars, cancelVars
<1>18. ASSUME NEW r \in Requests, GiveUp(r) PROVE JobInv'
    BY <1>18 DEF GiveUp, At, Goto, Fail, LeaveRegistry, execVars, cancelVars
<1>19. ASSUME NEW r \in Requests, TaskAudited(r) PROVE JobInv'
    BY <1>19 DEF TaskAudited, At, Goto, execVars, cancelVars
<1>20. ASSUME NEW r \in Requests, TaskLosesConfig(r) PROVE JobInv'
    BY <1>20 DEF TaskLosesConfig, At, Goto, execVars, recordVars, cancelVars
<1>21. ASSUME NEW r \in Requests, ConnectFails(r) \/ CreateFails(r) PROVE JobInv'
    BY <1>21 DEF ConnectFails, CreateFails, At, Goto, SetProc, execVars, recordVars, cancelVars
<1>22. ASSUME NEW r \in Requests, WaitRaises(r) PROVE JobInv'
    BY <1>22 DEF WaitRaises, At, Goto, SetProc, execVars, recordVars, cancelVars
<1>23. ASSUME NEW r \in Requests, NEW a \in Attempts, ProcessEnds(r, a) PROVE JobInv'
    BY <1>23 DEF ProcessEnds, SetProc, execVars, taskVars, recordVars, cancelVars
<1>24. ASSUME NEW c \in Cancellers, CancelRefused(c) PROVE JobInv'
    BY <1>24 DEF CancelRefused, CancelGoto, RaiseFlag, execVars, taskVars,
       recordVars
<1>25. ASSUME NEW c \in Cancellers, CancelUnknown(c) PROVE JobInv'
    BY <1>25 DEF CancelUnknown, CancelGoto, RaiseFlag, execVars, taskVars,
       recordVars
<1>26. ASSUME NEW c \in Cancellers, CancelQueued(c) PROVE JobInv'
    BY <1>26 DEF CancelQueued, CancelGoto, RaiseFlag, Unfinished, execVars,
       taskVars, recordVars
<1>27. ASSUME NEW c \in Cancellers, CancelFound(c) PROVE JobInv'
    <2>1. UNCHANGED <<exec, task, job, promised, target>>
        BY <1>27 DEF CancelFound, execVars, taskVars, recordVars
    <2>2. \A d \in Cancellers : d # c => cpc'[d] = cpc[d]
        BY <1>27 DEF CancelFound, CancelGoto
    <2>3. target[c] \in Requests /\ task[target[c]] \in InRegion \ {"resetting"}
        BY <1>27 DEF CancelFound
    <2>4. /\ job[target[c]] \in {"running"} \cup Contract!Stopped
          /\ task[target[c]] \notin {"none", "ready"} \cup Setup
        BY <2>3
    <2>5. QED
        BY <2>1, <2>2, <2>4
<1>28. ASSUME NEW c \in Cancellers, CancelKills(c) PROVE JobInv'
    BY <1>28 DEF CancelKills, SetProc, execVars, taskVars, recordVars, cancelVars
<1>29. ASSUME NEW c \in Cancellers, CancelAborts(c) PROVE JobInv'
    BY <1>29 DEF CancelAborts, CancelGoto, SetProc, execVars, taskVars, recordVars
<1>30. ASSUME NEW c \in Cancellers, CancelTakesEffect(c) PROVE JobInv'
    BY <1>30 DEF CancelTakesEffect, CancelGoto, Acknowledge, execVars, taskVars
<1>31. ASSUME NEW c \in Cancellers, CancelAudited(c) PROVE JobInv'
    BY <1>31 DEF CancelAudited, CancelGoto, execVars, taskVars, recordVars
<1>32. ASSUME NEW c \in Cancellers, CancelFails(c) PROVE JobInv'
    BY <1>32 DEF CancelFails, CancelGoto, execVars, taskVars, recordVars
<1>33. ASSUME Crash PROVE JobInv'
    BY <1>33 DEF Crash, recordVars
<1>34. ASSUME UNCHANGED vars PROVE JobInv'
    BY <1>34 DEF vars, execVars, taskVars, recordVars, cancelVars
<1>35. QED
    BY <1>1, <1>2, <1>3, <1>4, <1>5, <1>6, <1>7, <1>8, <1>9, <1>10, <1>11, <1>12,
       <1>13, <1>14, <1>15, <1>16, <1>17, <1>18, <1>19, <1>20, <1>21, <1>22, <1>23,
       <1>24, <1>25, <1>26, <1>27, <1>28, <1>29, <1>30, <1>31, <1>32, <1>33, <1>34
       DEF Next, ExecStep, TaskStep, TaskFault, CancelArrives, CancelStep

LEMMA ContractStep ==
    ASSUME SafeInv, PromiseInv, JobInv, [Next]_vars
    PROVE  [Contract!Next]_(Contract!contractVars)
<1> USE DEF SafeInv, TypeOK, HandlerFirst, PromiseInv, PromiseFlagged, MayEnd, Pending, JobInv,
            JobFollowsTask, HandlerMayStop, Setup, InRegion, Contract!Stopped,
            Contract!Next, Contract!contractVars, Contract!Move
<1>1. ASSUME NEW r \in Requests, ExecRefused(r) PROVE [Contract!Next]_(Contract!contractVars)
    BY <1>1 DEF ExecRefused, recordVars
<1>2. ASSUME NEW r \in Requests, ExecAdmitted(r) PROVE [Contract!Next]_(Contract!contractVars)
    BY <1>2 DEF ExecAdmitted, recordVars
<1>3. ASSUME NEW r \in Requests, ExecDenied(r) PROVE [Contract!Next]_(Contract!contractVars)
    BY <1>3 DEF ExecDenied, recordVars
<1>4. ASSUME NEW r \in Requests, ExecQueues(r) PROVE [Contract!Next]_(Contract!contractVars)
    BY <1>4 DEF ExecQueues, ExecGoto, taskVars, cancelVars, Contract!Accept
<1>5. ASSUME NEW r \in Requests, ExecAccepts(r) PROVE [Contract!Next]_(Contract!contractVars)
    BY <1>5 DEF ExecAccepts, recordVars
<1>6. ASSUME NEW r \in Requests, TaskStarts(r) PROVE [Contract!Next]_(Contract!contractVars)
    BY <1>6 DEF TaskStarts, At, Goto, execVars, cancelVars, Contract!Start
<1>7. ASSUME NEW r \in Requests, ConnectedTooLate(r) PROVE [Contract!Next]_(Contract!contractVars)
    BY <1>7 DEF ConnectedTooLate, At, Goto, CancelRequested, Finish, LeaveRegistry,
       PublishResult, TerminalEvent, AuditIsCancellers, execVars, cancelVars,
       Contract!Stop
<1>8. ASSUME NEW r \in Requests, Connected(r) PROVE [Contract!Next]_(Contract!contractVars)
    BY <1>8 DEF Connected, recordVars
<1>9. ASSUME NEW r \in Requests, CreatedTooLate(r) PROVE [Contract!Next]_(Contract!contractVars)
    BY <1>9 DEF CreatedTooLate, recordVars
<1>10. ASSUME NEW r \in Requests, Created(r) PROVE [Contract!Next]_(Contract!contractVars)
    BY <1>10 DEF Created, recordVars
<1>11. ASSUME NEW r \in Requests, WaitEnds(r) PROVE [Contract!Next]_(Contract!contractVars)
    BY <1>11 DEF WaitEnds, recordVars
<1>12. ASSUME NEW r \in Requests, TaskKills(r) PROVE [Contract!Next]_(Contract!contractVars)
    BY <1>12 DEF TaskKills, recordVars
<1>13. ASSUME NEW r \in Requests, TerminateReturns(r) PROVE [Contract!Next]_(Contract!contractVars)
    BY <1>13 DEF TerminateReturns, recordVars
<1>14. ASSUME NEW r \in Requests, AbortReturns(r) PROVE [Contract!Next]_(Contract!contractVars)
    BY <1>14 DEF AbortReturns, At, Goto, Finish, LeaveRegistry, PublishResult,
       TerminalEvent, AuditIsCancellers, execVars, cancelVars, Contract!Stop
<1>15. ASSUME NEW r \in Requests, Drained(r) PROVE [Contract!Next]_(Contract!contractVars)
    BY <1>15 DEF Drained, At, Goto, CancelRequested, Finish, LeaveRegistry,
       PublishResult, TerminalEvent, AuditIsCancellers, execVars, cancelVars,
       Contract!Stop, Contract!Complete
<1>16. ASSUME NEW r \in Requests, TimeoutDrained(r) PROVE [Contract!Next]_(Contract!contractVars)
    BY <1>16 DEF TimeoutDrained, At, Goto, Finish, LeaveRegistry, PublishResult,
       TerminalEvent, AuditIsCancellers, execVars, cancelVars, Contract!Stop
<1>17. ASSUME NEW r \in Requests, Retry(r) PROVE [Contract!Next]_(Contract!contractVars)
    BY <1>17 DEF Retry, recordVars
<1>18. ASSUME NEW r \in Requests, GiveUp(r) PROVE [Contract!Next]_(Contract!contractVars)
    BY <1>18 DEF GiveUp, At, Goto, Fail, LeaveRegistry, execVars, cancelVars,
       Contract!Fail
<1>19. ASSUME NEW r \in Requests, TaskAudited(r) PROVE [Contract!Next]_(Contract!contractVars)
    BY <1>19 DEF TaskAudited
<1>20. ASSUME NEW r \in Requests, TaskLosesConfig(r) PROVE [Contract!Next]_(Contract!contractVars)
    BY <1>20 DEF TaskLosesConfig, recordVars
<1>21. ASSUME NEW r \in Requests, ConnectFails(r) \/ CreateFails(r) PROVE [Contract!Next]_(Contract!contractVars)
    BY <1>21 DEF ConnectFails, CreateFails, recordVars
<1>22. ASSUME NEW r \in Requests, WaitRaises(r) PROVE [Contract!Next]_(Contract!contractVars)
    BY <1>22 DEF WaitRaises, recordVars
<1>23. ASSUME NEW r \in Requests, NEW a \in Attempts, ProcessEnds(r, a) PROVE [Contract!Next]_(Contract!contractVars)
    BY <1>23 DEF ProcessEnds, recordVars
<1>24. ASSUME NEW c \in Cancellers, CancelRefused(c) PROVE [Contract!Next]_(Contract!contractVars)
    BY <1>24 DEF CancelRefused, recordVars
<1>25. ASSUME NEW c \in Cancellers, CancelUnknown(c) PROVE [Contract!Next]_(Contract!contractVars)
    BY <1>25 DEF CancelUnknown, recordVars
<1>26. ASSUME NEW c \in Cancellers, CancelQueued(c) PROVE [Contract!Next]_(Contract!contractVars)
    <2>1. target[c] \in Requests /\ UNCHANGED job
        BY <1>26 DEF CancelQueued, recordVars
    <2>2. CASE Unfinished(target[c])
        BY <1>26, <2>1, <2>2 DEF CancelQueued, Unfinished, Contract!Promise
    <2>3. CASE ~Unfinished(target[c])
        <3>1. promised' = promised
            BY <1>26, <2>1, <2>3 DEF CancelQueued
        <3>2. QED
            BY <2>1, <3>1
    <2>4. QED
        BY <2>2, <2>3
<1>27. ASSUME NEW c \in Cancellers, CancelFound(c) PROVE [Contract!Next]_(Contract!contractVars)
    BY <1>27 DEF CancelFound, recordVars
<1>28. ASSUME NEW c \in Cancellers, CancelKills(c) PROVE [Contract!Next]_(Contract!contractVars)
    BY <1>28 DEF CancelKills, recordVars
<1>29. ASSUME NEW c \in Cancellers, CancelAborts(c) PROVE [Contract!Next]_(Contract!contractVars)
    BY <1>29 DEF CancelAborts, recordVars
<1>30. ASSUME NEW c \in Cancellers, CancelTakesEffect(c) PROVE [Contract!Next]_(Contract!contractVars)
    BY <1>30 DEF CancelTakesEffect, CancelGoto, Acknowledge, execVars, taskVars,
       Contract!Stop
<1>31. ASSUME NEW c \in Cancellers, CancelAudited(c) PROVE [Contract!Next]_(Contract!contractVars)
    BY <1>31 DEF CancelAudited, recordVars
<1>32. ASSUME NEW c \in Cancellers, CancelFails(c) PROVE [Contract!Next]_(Contract!contractVars)
    BY <1>32 DEF CancelFails, recordVars
<1>33. ASSUME Crash PROVE [Contract!Next]_(Contract!contractVars)
    BY <1>33 DEF Crash, recordVars
<1>34. ASSUME UNCHANGED vars PROVE [Contract!Next]_(Contract!contractVars)
    BY <1>34 DEF vars, recordVars
<1>35. QED
    BY <1>1, <1>2, <1>3, <1>4, <1>5, <1>6, <1>7, <1>8, <1>9, <1>10, <1>11, <1>12,
       <1>13, <1>14, <1>15, <1>16, <1>17, <1>18, <1>19, <1>20, <1>21, <1>22, <1>23,
       <1>24, <1>25, <1>26, <1>27, <1>28, <1>29, <1>30, <1>31, <1>32, <1>33, <1>34
       DEF Next, ExecStep, TaskStep, TaskFault, CancelArrives, CancelStep

\* Rows and cancel answers of every interleaving are those of the job contract.
THEOREM ExecImplementsContract == ASSUME ~ChannelErrors PROVE Spec => ImplementsContract
<1>1. Init => Contract!Init
    BY DEF Init, Contract!Init
<1>2. Init => JobInv
    BY DEF Init, JobInv, JobFollowsTask, HandlerMayStop, Setup, InRegion
<1>3. SafeInv /\ PromiseInv /\ JobInv /\ [Next]_vars => JobInv'
    BY JobStep
<1>4. SafeInv /\ PromiseInv /\ JobInv /\ [Next]_vars => [Contract!Next]_(Contract!contractVars)
    BY ContractStep
<1>5. QED
    BY <1>1, <1>2, <1>3, <1>4, PromiseInvariant, PTL
    DEF Spec, ImplementsContract, Contract!Spec
-----------------------------------------------------------------------------
(* What was published is what the row says.                                *)

\* While the job can still end, its stream is closed by a cancel handler only, which
\* has published its event.
ClosedByCancel(r) == closed[r] /\ task[r] \in Pending \cup {"none"} =>
                        promised[r] /\ "cancelled" \in Published(r)

PublishedInv == RowWasPublished /\ \A r \in Requests : ClosedByCancel(r)

\* Publishing adds the event to what was published on the stream, and on no other.
LEMMA PublishingAdds ==
    ASSUME TypeOK, NEW r \in Requests, NEW e \in EventType,
           terms' = [terms EXCEPT ![r] = Append(@, e)]
    PROVE  /\ Published(r)' = Published(r) \cup {e}
           /\ \A q \in Requests : q # r => Published(q)' = Published(q)
<1>1. terms[r] \in Seq(EventType) /\ terms'[r] = Append(terms[r], e)
    BY DEF TypeOK
<1>2. /\ DOMAIN terms[r] = 1..Len(terms[r]) /\ Len(terms[r]) \in Nat
      /\ DOMAIN terms'[r] = 1..(Len(terms[r]) + 1)
      /\ terms'[r][Len(terms[r]) + 1] = e
      /\ \A i \in 1..Len(terms[r]) : terms'[r][i] = terms[r][i]
    BY <1>1, AppendProperties, LenProperties
<1>3. Published(r)' = Published(r) \cup {e}
    <2>1. \A i \in 1..(Len(terms[r]) + 1) : i \in 1..Len(terms[r]) \/ i = Len(terms[r]) + 1
        BY <1>2
    <2>2. \A i \in 1..Len(terms[r]) : i \in 1..(Len(terms[r]) + 1)
        BY <1>2
    <2>3. Len(terms[r]) + 1 \in 1..(Len(terms[r]) + 1)
        BY <1>2
    <2> QED BY <1>2, <2>1, <2>2, <2>3 DEF Published
<1>4. \A q \in Requests : q # r => terms'[q] = terms[q]
    BY DEF TypeOK
<1> QED BY <1>3, <1>4 DEF Published

\* The end of a run: the row and the event agree, and a stream that was closed before
\* has the event of the cancel handler that closed it.
LEMMA FinishPublishes ==
    ASSUME TypeOK, PublishedInv, NEW r \in Requests, task[r] \in Pending,
           NEW status \in {"completed", "timeout", "cancelled"}, Finish(r, status),
           closed[r] => status # "completed", promised' = promised
    PROVE  PublishedInv'
<1>1. /\ job' = [job EXCEPT ![r] = status] /\ closed' = closed
      /\ \E place \in {"done", "auditing"} : task' = [task EXCEPT ![r] = place]
      /\ PublishResult(r, status)
    BY DEF Finish, Goto
<1>2. ASSUME NEW q \in Requests, q # r PROVE job'[q] = job[q] /\ Published(q)' = Published(q)
    <2>1. CASE closed[r]
        BY <1>1, <1>2, <2>1 DEF PublishResult, TypeOK, Published
    <2>2. CASE ~closed[r]
        BY <1>1, <1>2, <2>2, PublishingAdds DEF PublishResult, TerminalEvent, EventType, TypeOK
    <2> QED BY <2>1, <2>2
<1>3. Published(r)' = Published(r) \cup IF closed[r] THEN {} ELSE {TerminalEvent(status)}
    <2>1. CASE closed[r]
        BY <1>1, <2>1 DEF PublishResult, Published
    <2>2. CASE ~closed[r]
        BY <1>1, <2>2, PublishingAdds DEF PublishResult, TerminalEvent, EventType
    <2> QED BY <2>1, <2>2
<1>4. closed[r] => "cancelled" \in Published(r)
    BY DEF PublishedInv, ClosedByCancel
<1>5. job'[r] = status /\ task'[r] \notin Pending \cup {"none"}
    BY <1>1 DEF TypeOK, Pending, InRegion
<1>6. \A q \in Requests : ClosedByCancel(q)'
    BY <1>1, <1>2, <1>5 DEF PublishedInv, ClosedByCancel, TypeOK
<1>7. RowWasPublished'
    BY <1>2, <1>3, <1>4, <1>5 DEF PublishedInv, RowWasPublished, TerminalEvent
<1> QED BY <1>6, <1>7 DEF PublishedInv

\* A step that publishes nothing, ends nothing and closes nothing.
LEMMA QuietStepKeepsPublished ==
    ASSUME PublishedInv, UNCHANGED <<terms, closed>>,
           \A r \in Requests :
              /\ job'[r] = job[r] \/ job'[r] \in {"queued", "running"}
              /\ promised[r] => promised'[r]
              /\ task'[r] \in Pending \cup {"none"} => task[r] \in Pending \cup {"none"}
    PROVE  PublishedInv'
BY DEF PublishedInv, RowWasPublished, ClosedByCancel, Published

\* An event is published on one stream, whose row may change to match it.
LEMMA PublishingStepKeepsPublished ==
    ASSUME TypeOK, PublishedInv, NEW r \in Requests, NEW e \in {"error", "cancelled"},
           terms' = [terms EXCEPT ![r] = Append(@, e)],
           job' = [job EXCEPT ![r] = IF e = "error" THEN "failed" ELSE "cancelled"],
           \A q \in Requests : ClosedByCancel(q)'
    PROVE  PublishedInv'
<1>1. /\ Published(r)' = Published(r) \cup {e}
      /\ \A q \in Requests : q # r => Published(q)' = Published(q)
    BY PublishingAdds DEF EventType
<1>2. \A q \in Requests : job'[q] = IF q # r THEN job[q] ELSE IF e = "error" THEN "failed" ELSE "cancelled"
    BY DEF TypeOK
<1> QED BY <1>1, <1>2 DEF PublishedInv, RowWasPublished

\* PublishedInv is inductive.
LEMMA PublishedStep ==
    ASSUME ~ChannelErrors, SafeInv, PromiseInv, PublishedInv, [Next]_vars
    PROVE  PublishedInv'
<1> USE DEF Pending, InRegion
<1>1. TypeOK
    BY DEF SafeInv
<1>2. ASSUME NEW r \in Requests, ExecStep(r) PROVE PublishedInv'
    <2>1. /\ UNCHANGED <<terms, closed, promised>>
          /\ job' = job \/ job' = [job EXCEPT ![r] = "queued"]
          /\ \/ task' = task
             \/ task[r] = "none" /\ task' = [task EXCEPT ![r] = "ready"]
        <3>1. exec[r] = "auditing" => task[r] = "none" \/ task[r] = "lost"
            BY DEF SafeInv, HandlerFirst
        <3>2. exec[r] = "auditing" => task[r] # "lost"
            BY DEF SafeInv, HandlerFirst
        <3> QED BY <1>2, <3>1, <3>2 DEF ExecStep, ExecRefused, ExecAdmitted, ExecDenied, ExecQueues,
                ExecAccepts, Goto, taskVars, recordVars
    <2> QED BY <1>1, <2>1, QuietStepKeepsPublished DEF TypeOK
<1>3. ASSUME NEW r \in Requests, ConnectedTooLate(r) \/ AbortReturns(r) \/ Drained(r) \/ TimeoutDrained(r)
      PROVE  PublishedInv'
    <2>1. PICK status \in {"completed", "timeout", "cancelled"} : Finish(r, status)
            /\ (status = "completed" => r \notin flagged)
        BY <1>3 DEF ConnectedTooLate, AbortReturns, Drained, TimeoutDrained, CancelRequested
    <2>2. task[r] \in Pending /\ promised' = promised
        BY <1>3 DEF ConnectedTooLate, AbortReturns, Drained, TimeoutDrained, At
    <2>3. closed[r] => r \in flagged
        BY <2>2 DEF PublishedInv, ClosedByCancel, PromiseInv, PromiseFlagged, MayEnd
    <2> QED BY <1>1, <2>1, <2>2, <2>3, FinishPublishes
<1>4. ASSUME NEW r \in Requests, GiveUp(r) PROVE PublishedInv'
    <2>1. /\ terms' = [terms EXCEPT ![r] = Append(@, "error")] /\ job' = [job EXCEPT ![r] = "failed"]
          /\ task' = [task EXCEPT ![r] = "auditing"] /\ UNCHANGED <<closed, promised>>
        BY <1>4 DEF GiveUp, Fail, Goto
    <2>2. \A q \in Requests : q # r => Published(q)' = Published(q)
        BY <1>1, <2>1, PublishingAdds DEF EventType
    <2>3. \A q \in Requests : ClosedByCancel(q)'
        BY <1>1, <2>1, <2>2 DEF PublishedInv, ClosedByCancel, TypeOK
    <2> QED BY <1>1, <2>1, <2>3, PublishingStepKeepsPublished
<1>5. ASSUME NEW r \in Requests, TaskAudited(r) PROVE PublishedInv'
    <2>1. /\ closed' = [closed EXCEPT ![r] = TRUE] /\ task' = [task EXCEPT ![r] = "done"]
          /\ UNCHANGED <<job, terms, promised>>
        BY <1>5 DEF TaskAudited, Goto
    <2>2. \A q \in Requests : Published(q)' = Published(q) /\ job'[q] = job[q]
        BY <2>1 DEF Published
    <2>3. \A q \in Requests : /\ closed'[q] /\ q # r => closed[q]
                              /\ task'[q] = IF q = r THEN "done" ELSE task[q]
        BY <1>1, <2>1 DEF TypeOK
    <2> QED BY <2>1, <2>2, <2>3 DEF PublishedInv, RowWasPublished, ClosedByCancel
<1>6. ASSUME NEW r \in Requests,
             \/ TaskStarts(r) \/ Connected(r) \/ CreatedTooLate(r) \/ Created(r) \/ WaitEnds(r)
             \/ TaskKills(r) \/ TerminateReturns(r) \/ Retry(r) \/ TaskFault(r)
             \/ \E a \in Attempts : ProcessEnds(r, a)
      PROVE  PublishedInv'
    <2>1. /\ UNCHANGED <<terms, closed, promised>>
          /\ job' = job \/ job' = [job EXCEPT ![r] = "running"]
          /\ \/ task' = task
             \/ task[r] \in Pending /\ \E place \in TaskStatus : task' = [task EXCEPT ![r] = place]
        BY <1>6 DEF TaskStarts, Connected, CreatedTooLate, Created, WaitEnds, TaskKills, TaskStatus,
           TerminateReturns, Retry, TaskFault, TaskLosesConfig, ConnectFails, CreateFails, WaitRaises, ProcessEnds,
           At, Goto, taskVars, recordVars
    <2> QED BY <1>1, <2>1, QuietStepKeepsPublished DEF TypeOK
<1>7. ASSUME NEW c \in Cancellers, CancelTakesEffect(c) PROVE PublishedInv'
    <2>1. PICK r \in Requests : r = target[c]
        BY <1>1 DEF TypeOK
    <2>2. /\ terms' = [terms EXCEPT ![r] = Append(@, "cancelled")]
          /\ job' = [job EXCEPT ![r] = "cancelled"]
          /\ closed' = [closed EXCEPT ![r] = TRUE]
          /\ promised' = [promised EXCEPT ![r] = TRUE] /\ task' = task
        BY <1>7, <2>1 DEF CancelTakesEffect, Acknowledge, taskVars
    <2>3. /\ Published(r)' = Published(r) \cup {"cancelled"}
          /\ \A q \in Requests : q # r => Published(q)' = Published(q)
        BY <1>1, <2>2, PublishingAdds DEF EventType
    <2>4. \A q \in Requests : IF q = r THEN promised'[q]
                              ELSE promised'[q] = promised[q] /\ closed'[q] = closed[q]
        BY <1>1, <2>2 DEF TypeOK
    <2>5. \A q \in Requests : ClosedByCancel(q)'
        BY <2>2, <2>3, <2>4 DEF PublishedInv, ClosedByCancel
    <2> QED BY <1>1, <2>2, <2>5, PublishingStepKeepsPublished
<1>8. ASSUME NEW c \in Cancellers,
             CancelArrives(c) \/ CancelKills(c) \/ CancelAborts(c) \/ CancelAudited(c) \/ CancelFails(c)
      PROVE  PublishedInv'
    <2>1. UNCHANGED <<terms, closed, job, task>>
        BY <1>8 DEF CancelArrives, CancelRefused, CancelUnknown, CancelQueued, CancelFound, CancelKills,
           CancelAborts, CancelAudited, CancelFails, taskVars, recordVars
    <2>2. \A r \in Requests : promised[r] => promised'[r]
        BY <1>1, <1>8 DEF CancelArrives, CancelRefused, CancelUnknown, CancelQueued, CancelFound,
           CancelKills, CancelAborts, CancelAudited, CancelFails, TypeOK
    <2> QED BY <2>1, <2>2, QuietStepKeepsPublished
<1>9. CASE Crash
    <2>1. UNCHANGED <<terms, closed, job, promised>>
        BY <1>9 DEF Crash, recordVars
    <2>2. \A r \in Requests : task'[r] \in {task[r], "lost"}
        BY <1>9 DEF Crash
    <2> QED BY <2>1, <2>2, QuietStepKeepsPublished
<1>10. CASE UNCHANGED vars
    BY <1>10, QuietStepKeepsPublished DEF vars, taskVars, recordVars
<1> QED BY <1>2, <1>3, <1>4, <1>5, <1>6, <1>7, <1>8, <1>9, <1>10 DEF Next, TaskStep, CancelStep

\* Where the SSH library does not raise from wait, the final status of a row was told
\* to the readers of its stream, whoever of task and cancel handlers came first.
THEOREM RowsArePublished == ASSUME ~ChannelErrors PROVE Spec => []RowWasPublished
<1>1. Init => PublishedInv
    BY DEF Init, PublishedInv, RowWasPublished, ClosedByCancel
<1>2. SafeInv /\ PromiseInv /\ PublishedInv /\ [Next]_vars => PublishedInv'
    BY PublishedStep
<1>3. PublishedInv => RowWasPublished
    BY DEF PublishedInv
<1> QED BY <1>1, <1>2, <1>3, PromiseInvariant, PTL DEF Spec
-----------------------------------------------------------------------------
(* The end of a command is recorded.                                       *)

\* Who still has to write the audit event of an end it has made.
Audits(c, r) == target[c] = r /\ cpc[c] \in {"auditing", "lost"}

\* A task that left run has made the row final, one that is done has a closed stream,
\* and whoever closes a stream has written the audit event or is about to.
EndInv == \A r \in Requests :
    /\ task[r] \in {"auditing", "done"} => job[r] \in Terminal
    /\ task[r] = "done" => closed[r]
    /\ closed[r] => audits[r] > 0 \/ \E c \in Cancellers : Audits(c, r)

\* A step that changes the rows only towards an end, closes and audits nothing, and
\* leaves those who have to audit their task.
LEMMA QuietStepKeepsEnd ==
    ASSUME EndInv, UNCHANGED <<closed, audits>>,
           \A r \in Requests :
              /\ task'[r] \in {"auditing", "done"} => task'[r] = task[r] /\ job'[r] = job[r]
              /\ \A c \in Cancellers : Audits(c, r) => Audits(c, r)'
    PROVE  EndInv'
BY DEF EndInv

\* The end of a run.
LEMMA FinishKeepsEnd ==
    ASSUME TypeOK, EndInv, NEW r \in Requests, NEW status \in Terminal,
           job' = [job EXCEPT ![r] = status], NEW place \in {"auditing", "done"},
           task' = [task EXCEPT ![r] = place], place = "done" => closed[r],
           UNCHANGED <<closed, audits, target, cpc>>
    PROVE  EndInv'
BY DEF EndInv, Audits, TypeOK

\* EndInv is inductive.
LEMMA EndStep ==
    ASSUME SafeInv, EndInv, [Next]_vars
    PROVE  EndInv'
<1> USE DEF InRegion
<1>1. TypeOK
    BY DEF SafeInv
<1>2. ASSUME NEW r \in Requests, ExecStep(r) PROVE EndInv'
    <2>1. exec[r] # "accepted" => task[r] \notin {"auditing", "done"}
        BY DEF SafeInv, HandlerFirst
    <2>2. /\ UNCHANGED <<closed, audits, target, cpc>>
          /\ job' = job \/ job' = [job EXCEPT ![r] = "queued"]
          /\ task' = task \/ task' = [task EXCEPT ![r] = "ready"]
          /\ exec[r] # "accepted"
        BY <1>2 DEF ExecStep, ExecRefused, ExecAdmitted, ExecDenied, ExecQueues, ExecAccepts, Goto,
           taskVars, recordVars, cancelVars
    <2>3. \A q \in Requests : task'[q] \in {"auditing", "done"} => task'[q] = task[q] /\ job'[q] = job[q]
        BY <1>1, <2>1, <2>2 DEF TypeOK
    <2> QED BY <2>2, <2>3, QuietStepKeepsEnd DEF Audits
<1>3. ASSUME NEW r \in Requests, ConnectedTooLate(r) \/ AbortReturns(r) \/ Drained(r) \/ TimeoutDrained(r)
      PROVE  EndInv'
    <2>1. PICK status \in {"completed", "timeout", "cancelled"} : Finish(r, status)
        BY <1>3 DEF ConnectedTooLate, AbortReturns, Drained, TimeoutDrained
    <2>2. UNCHANGED <<audits, target, cpc>>
        BY <1>3 DEF ConnectedTooLate, AbortReturns, Drained, TimeoutDrained, cancelVars
    <2> DEFINE place == IF AuditIsCancellers(r, status) THEN "done" ELSE "auditing"
    <2>3. /\ job' = [job EXCEPT ![r] = status] /\ closed' = closed
          /\ task' = [task EXCEPT ![r] = place] /\ (place = "done" => closed[r])
        BY <2>1 DEF Finish, Goto, AuditIsCancellers
    <2>4. PICK q \in {"auditing", "done"} : q = place
        OBVIOUS
    <2> HIDE DEF place
    <2> QED BY <1>1, <2>2, <2>3, <2>4, FinishKeepsEnd DEF Terminal
<1>4. ASSUME NEW r \in Requests, GiveUp(r) PROVE EndInv'
    <2>1. /\ job' = [job EXCEPT ![r] = "failed"] /\ task' = [task EXCEPT ![r] = "auditing"]
          /\ UNCHANGED <<closed, audits, target, cpc>>
        BY <1>4 DEF GiveUp, Fail, Goto, cancelVars
    <2> QED BY <1>1, <2>1, FinishKeepsEnd DEF Terminal
<1>5. ASSUME NEW r \in Requests, TaskAudited(r) PROVE EndInv'
    <2>1. /\ task[r] = "auditing" /\ task' = [task EXCEPT ![r] = "done"]
          /\ audits' = [audits EXCEPT ![r] = audits[r] + 1]
          /\ closed' = [closed EXCEPT ![r] = TRUE] /\ UNCHANGED <<job, target, cpc>>
        BY <1>5 DEF TaskAudited, At, Goto, cancelVars
    <2>2. audits[r] + 1 > 0
        BY <1>1 DEF TypeOK
    <2> QED BY <1>1, <2>1, <2>2 DEF EndInv, Audits, TypeOK
<1>6. ASSUME NEW r \in Requests,
             \/ TaskStarts(r) \/ Connected(r) \/ CreatedTooLate(r) \/ Created(r) \/ WaitEnds(r)
             \/ TaskKills(r) \/ TerminateReturns(r) \/ Retry(r) \/ TaskFault(r)
             \/ \E a \in Attempts : ProcessEnds(r, a)
      PROVE  EndInv'
    <2>1. /\ UNCHANGED <<closed, audits, target, cpc>>
          /\ \/ UNCHANGED <<task, job>>
             \/ /\ job' = job \/ job' = [job EXCEPT ![r] = "running"]
                /\ \E place \in TaskStatus \ {"auditing", "done"} : task' = [task EXCEPT ![r] = place]
        BY <1>6 DEF TaskStarts, Connected, CreatedTooLate, Created, WaitEnds, TaskKills, TaskStatus,
           TerminateReturns, Retry, TaskFault, TaskLosesConfig, ConnectFails, CreateFails, WaitRaises, ProcessEnds,
           At, Goto, taskVars, recordVars, cancelVars
    <2>2. \A q \in Requests : task'[q] \in {"auditing", "done"} => task'[q] = task[q] /\ job'[q] = job[q]
        BY <1>1, <2>1 DEF TypeOK
    <2> QED BY <2>1, <2>2, QuietStepKeepsEnd DEF Audits
<1>7. ASSUME NEW c \in Cancellers, CancelTakesEffect(c) PROVE EndInv'
    <2>1. /\ job' = [job EXCEPT ![target[c]] = "cancelled"]
          /\ closed' = [closed EXCEPT ![target[c]] = TRUE]
          /\ cpc' = [cpc EXCEPT ![c] = "auditing"] /\ UNCHANGED <<task, audits, target>>
          /\ target[c] \in Requests /\ cpc[c] \in {"terminating", "resetting"}
        BY <1>1, <1>7 DEF CancelTakesEffect, Acknowledge, CancelGoto, taskVars, TypeOK
    <2>2. \A r \in Requests : \A d \in Cancellers : Audits(d, r) => Audits(d, r)'
        BY <1>1, <2>1 DEF Audits, TypeOK
    <2>3. Audits(c, target[c])'
        BY <1>1, <2>1 DEF Audits, TypeOK
    <2>4. \A r \in Requests : /\ job'[r] \in {job[r], "cancelled"}
                              /\ IF r = target[c] THEN closed'[r] ELSE closed'[r] = closed[r]
        BY <1>1, <2>1 DEF TypeOK
    <2>5. target' = target
        BY <2>1
    <2>6. \A r \in Requests : closed'[r] => audits'[r] > 0 \/ \E d \in Cancellers : Audits(d, r)'
        BY <2>1, <2>2, <2>3, <2>4, <2>5 DEF EndInv
    <2> QED BY <2>1, <2>4, <2>6 DEF EndInv, Terminal
<1>8. ASSUME NEW c \in Cancellers, CancelAudited(c) PROVE EndInv'
    <2>1. /\ audits' = [audits EXCEPT ![target[c]] = audits[target[c]] + 1]
          /\ cpc' = [cpc EXCEPT ![c] = "done"] /\ UNCHANGED <<task, job, closed, target>>
          /\ target[c] \in Requests
        BY <1>1, <1>8 DEF CancelAudited, CancelGoto, taskVars, recordVars, TypeOK
    <2>2. \A r \in Requests : IF r = target[c] THEN audits'[r] > 0 ELSE audits'[r] = audits[r]
        BY <1>1, <2>1 DEF TypeOK
    <2>3. \A r \in Requests : \A d \in Cancellers : r # target[c] /\ Audits(d, r) => Audits(d, r)'
        BY <1>1, <2>1 DEF Audits, TypeOK
    <2> QED BY <2>1, <2>2, <2>3 DEF EndInv
<1>9. ASSUME NEW c \in Cancellers, CancelArrives(c) \/ CancelKills(c) \/ CancelAborts(c) \/ CancelFails(c)
      PROVE  EndInv'
    <2>1. /\ UNCHANGED <<task, job, closed, audits, target>>
          /\ cpc' = cpc \/ (cpc[c] \notin {"auditing", "lost"} /\ \E place \in CancelStatus : cpc' = [cpc EXCEPT ![c] = place])
        BY <1>9 DEF CancelArrives, CancelRefused, CancelUnknown, CancelQueued, CancelFound, CancelKills,
           CancelAborts, CancelFails, CancelGoto, CancelStatus, taskVars, recordVars, cancelVars
    <2>2. \A r \in Requests : \A d \in Cancellers : Audits(d, r) => Audits(d, r)'
        BY <1>1, <2>1 DEF Audits, TypeOK
    <2> QED BY <2>1, <2>2, QuietStepKeepsEnd
<1>10. CASE Crash
    <2>1. /\ UNCHANGED <<closed, audits, target, job>>
          /\ \A r \in Requests : task'[r] \in {task[r], "lost"}
          /\ \A c \in Cancellers : cpc[c] \in {"auditing", "lost"} => cpc'[c] = "lost"
        BY <1>10 DEF Crash, recordVars
    <2>2. \A r \in Requests : \A c \in Cancellers : Audits(c, r) => Audits(c, r)'
        BY <2>1 DEF Audits
    <2> QED BY <2>1, <2>2, QuietStepKeepsEnd
<1>11. CASE UNCHANGED vars
    BY <1>11, QuietStepKeepsEnd DEF vars, taskVars, recordVars, cancelVars, Audits
<1> QED BY <1>2, <1>3, <1>4, <1>5, <1>6, <1>7, <1>8, <1>9, <1>10, <1>11 DEF Next, TaskStep, CancelStep

\* When the task and every cancel handler of a command are through, the row is final,
\* the stream is closed and the end is audited: even if the library raises, and though
\* task and handlers each leave the audit to the other in some interleavings.
THEOREM EndsAreRecorded == Spec => []EndIsRecorded
<1>1. Init => EndInv
    BY DEF Init, EndInv
<1>2. SafeInv /\ EndInv /\ [Next]_vars => EndInv'
    BY EndStep
<1>3. EndInv => EndIsRecorded
    BY DEF EndInv, EndIsRecorded, Settled, Audits
<1> QED BY <1>1, <1>2, <1>3, SafeInvariant, PTL DEF Spec
=============================================================================
