----------------------------- MODULE SSHManager -----------------------------
(***************************************************************************)
(* The SSHManager of one server: the connection that all commands on the   *)
(* server share, its lock, the count of active commands, the task that     *)
(* closes an idle connection, and resets.  Of a command only the steps of  *)
(* run that touch the manager are here; ExecLifecycle has the others.      *)
(***************************************************************************)
EXTENDS Integers, Sequences, FiniteSets

CONSTANTS
    Commands,     \* calls of run on this manager
    Cancellers,   \* cancel handlers that end in a reset
    IdleIds,      \* identities of idle-close tasks
    IdleEnabled,  \* idleDisconnectSeconds > 0
    MaxDrops      \* bound: how often the peer drops the connection

\* Each call schedules one idle-close task at most, so that an identity is always free.
ASSUME ManagerAssumption == /\ IdleEnabled \in BOOLEAN
                            /\ IsFiniteSet(Commands) /\ IsFiniteSet(IdleIds)
                            /\ IdleIds \subseteq Nat \ {0}
                            /\ Cardinality(Commands) <= Cardinality(IdleIds)
                            /\ Commands \cap Cancellers = {}
                            /\ IdleIds \cap (Commands \cup Cancellers) = {}
                            /\ MaxDrops \in Nat

VARIABLES
    conn,      \* _conn: the connection's number, 0 for None
    open,      \* the connections that are up
    opened,    \* how many connections were made
    queue,     \* _lock: its holder, then its waiters in order
    active,    \* _active_commands
    current,   \* _idle_close_task, 0 for None
    idler,     \* idler[i]: where idle-close task i is
    cmd,       \* cmd[c]: where run of c is
    attempt,
    on,        \* on[c]: the connection c's process was created on
    counted,   \* history: the commands that are in the count by right
    early,     \* history: the calls that have left without being in the count since
               \* nobody was; their connect failed or a cancel came before it
    spoiled,   \* history: the idle closes that began although somebody was in the count
    canceller, \* canceller[k]: where the reset of handler k is
    drops

connVars == <<conn, open, opened>>
idleVars == <<current, idler>>
cmdVars  == <<cmd, attempt, on>>
countVars == <<active, counted, early>>
vars == <<connVars, queue, countVars, idleVars, spoiled, cmdVars, canceller, drops>>

IdlerPlace  == {"none", "sleeping", "locking", "closing"}
CmdPlace    == {"new", "locking", "connecting", "creating", "running",
                "resetting", "closing", "done", "failed"}
ResetPlace  == {"new", "locking", "closing", "done"}

Init == /\ conn = 0 /\ open = {} /\ opened = 0
        /\ queue = <<>> /\ active = 0 /\ current = 0
        /\ idler     = [i \in IdleIds |-> "none"]
        /\ cmd       = [c \in Commands |-> "new"]
        /\ attempt   = [c \in Commands |-> 1]
        /\ on        = [c \in Commands |-> 0]
        /\ counted   = {} /\ early = 0 /\ spoiled = 0
        /\ canceller = [k \in Cancellers |-> "new"]
        /\ drops     = 0
-----------------------------------------------------------------------------
CmdGoto(c, place) == cmd' = [cmd EXCEPT ![c] = place]
IdlerGoto(i, place) == idler' = [idler EXCEPT ![i] = place]
ResetGoto(k, place) == canceller' = [canceller EXCEPT ![k] = place]

\* asyncio.Lock is first come, first served.
Holds(actor) == queue # <<>> /\ Head(queue) = actor
Enqueue(actor) == queue' = Append(queue, actor)

\* _cancel_idle_close_task.  A task that sleeps or waits for the lock ends; one that
\* already closes the connection is at its finally clause and runs that all the same.
Cancellable(i) == i = current /\ idler[i] \in {"sleeping", "locking"}
IdlersCancelled == [i \in IdleIds |-> IF Cancellable(i) THEN "none" ELSE idler[i]]
Without(q, a) == LET p == CHOOSE n \in DOMAIN q : q[n] = a
                 IN  IF \E n \in DOMAIN q : q[n] = a
                     THEN SubSeq(q, 1, p - 1) \o SubSeq(q, p + 1, Len(q)) ELSE q
QueueWithoutIdler(q) == IF current \in IdleIds /\ Cancellable(current) THEN Without(q, current) ELSE q

\* Mutated: the task is forgotten, not cancelled.
CancelIdleClose_ForgetsOnly == UNCHANGED idler /\ current' = 0

CancelIdleClose == idler' = IdlersCancelled /\ current' = 0

FreeIdler == CHOOSE i \in IdleIds : IdlersCancelled[i] = "none"

\* _schedule_idle_close; q is the lock's queue as the caller leaves it.
ScheduleIdleClose(q) ==
    /\ current' = FreeIdler
    /\ idler'   = [IdlersCancelled EXCEPT ![FreeIdler] = "sleeping"]
    /\ queue'   = QueueWithoutIdler(q)

\* Mutated: reset to zero; off by one.
Decremented_Zero    == 0
Decremented_OffByOne == IF active > 1 THEN active - 1 ELSE active

Decremented == IF active > 0 THEN active - 1 ELSE 0

\* The finally clause of run.  It decrements whether or not this call counted itself.
LeaveCount(c) ==
    /\ active'  = Decremented
    /\ counted' = counted \ {c}
    /\ early'   = CASE counted \subseteq {c} -> 0
                    [] c \in counted          -> early
                    [] OTHER                  -> early + 1

\* create_process is about to be called.
EnterCount(c) == /\ active'  = active + 1
                 /\ counted' = counted \cup {c}
                 /\ UNCHANGED early

LeaveRun(c, q) ==
    /\ LeaveCount(c)
    /\ IF IdleEnabled /\ conn # 0 /\ Decremented = 0
       THEN ScheduleIdleClose(q)
       ELSE queue' = q /\ UNCHANGED idleVars
-----------------------------------------------------------------------------
(* run.                                                                    *)

RunStarts(c) ==
    /\ cmd[c] = "new"
    /\ CmdGoto(c, "locking")
    /\ Enqueue(c)
    /\ UNCHANGED <<connVars, countVars, idleVars, attempt, on, canceller, drops, spoiled>>

\* connect found a connection; run counts itself and calls create_process on it.
ConnectReuses(c) ==
    /\ cmd[c] = "locking" /\ Holds(c) /\ conn # 0
    /\ CancelIdleClose
    /\ queue'   = QueueWithoutIdler(Tail(queue))
    /\ EnterCount(c)
    /\ on'      = [on EXCEPT ![c] = conn]
    /\ CmdGoto(c, "creating")
    /\ UNCHANGED <<connVars, attempt, canceller, drops, spoiled>>

\* The same, but a cancel was requested: run returns without counting itself.
ConnectReusesTooLate(c) ==
    /\ cmd[c] = "locking" /\ Holds(c) /\ conn # 0
    /\ LeaveCount(c)
    /\ IF IdleEnabled /\ Decremented = 0
       THEN ScheduleIdleClose(Tail(queue))
       ELSE queue' = QueueWithoutIdler(Tail(queue)) /\ CancelIdleClose
    /\ CmdGoto(c, "done")
    /\ UNCHANGED <<connVars, attempt, on, canceller, drops, spoiled>>

ConnectOpens(c) ==
    /\ cmd[c] = "locking" /\ Holds(c) /\ conn = 0
    /\ CancelIdleClose
    /\ queue' = QueueWithoutIdler(queue)
    /\ CmdGoto(c, "connecting")
    /\ UNCHANGED <<connVars, countVars, attempt, on, canceller, drops, spoiled>>

Opened == /\ conn'   = opened + 1
          /\ opened' = opened + 1
          /\ open'   = open \cup {opened + 1}

ConnectReturns(c) ==
    /\ cmd[c] = "connecting"
    /\ Opened
    /\ queue'   = Tail(queue)
    /\ EnterCount(c)
    /\ on'      = [on EXCEPT ![c] = opened + 1]
    /\ CmdGoto(c, "creating")
    /\ UNCHANGED <<idleVars, attempt, canceller, drops, spoiled>>

ConnectReturnsTooLate(c) ==
    /\ cmd[c] = "connecting"
    /\ Opened
    /\ LeaveCount(c)
    /\ IF IdleEnabled /\ Decremented = 0
       THEN ScheduleIdleClose(Tail(queue))
       ELSE queue' = Tail(queue) /\ UNCHANGED idleVars
    /\ CmdGoto(c, "done")
    /\ UNCHANGED <<attempt, on, canceller, drops, spoiled>>

\* Mutated: reset is called with the lock still held.
ConnectFails_KeepsLock(c) ==
    /\ cmd[c] = "connecting"
    /\ Enqueue(c)
    /\ CmdGoto(c, "resetting")
    /\ UNCHANGED <<connVars, countVars, idleVars, attempt, on, canceller, drops, spoiled>>

\* asyncssh.connect raises: the lock is released and reset asks for it again.
ConnectFails(c) ==
    /\ cmd[c] = "connecting"
    /\ queue' = Append(Tail(queue), c)
    /\ CmdGoto(c, "resetting")
    /\ UNCHANGED <<connVars, countVars, idleVars, attempt, on, canceller, drops, spoiled>>

Created(c) ==
    /\ cmd[c] = "creating" /\ on[c] \in open
    /\ CmdGoto(c, "running")
    /\ UNCHANGED <<connVars, queue, countVars, idleVars, attempt, on, canceller, drops, spoiled>>

\* create_process raises, always so if the connection is down.
CreateFails(c) ==
    /\ cmd[c] = "creating"
    /\ Enqueue(c)
    /\ CmdGoto(c, "resetting")
    /\ UNCHANGED <<connVars, countVars, idleVars, attempt, on, canceller, drops, spoiled>>

\* The process ended, was terminated, or went down with its connection.
RunReturns(c) ==
    /\ cmd[c] = "running"
    /\ LeaveRun(c, queue)
    /\ CmdGoto(c, "done")
    /\ UNCHANGED <<connVars, attempt, on, canceller, drops, spoiled>>

\* Mutated: _conn is forgotten without closing it.
Close_Forgets == conn # 0 /\ CancelIdleClose /\ UNCHANGED connVars

\* close: a connection there is taken down, whoever opened it and whoever uses it.
Close == /\ conn # 0
         /\ open' = open \ {conn}
         /\ CancelIdleClose
         /\ UNCHANGED <<conn, opened>>

ResetCloses(c) ==
    /\ cmd[c] = "resetting" /\ Holds(c)
    /\ Close
    /\ queue' = QueueWithoutIdler(queue)
    /\ CmdGoto(c, "closing")
    /\ UNCHANGED <<countVars, attempt, on, canceller, drops, spoiled>>

\* Mutated: a failed attempt keeps its place in the count.
AfterReset_KeepsCount(c, q) ==
    /\ counted' = counted \ {c}
    /\ conn'    = 0
    /\ attempt' = [attempt EXCEPT ![c] = 2]
    /\ IF attempt[c] = 1
       THEN CmdGoto(c, "locking") /\ queue' = Append(q, c)
       ELSE CmdGoto(c, "failed")  /\ queue' = q
    /\ UNCHANGED <<open, opened, active, early, on, canceller, drops, spoiled>>

\* reset is over and _conn is None: the second attempt, or the error.  q is the
\* lock's queue once reset has released the lock.
AfterReset(c, q) ==
    /\ LeaveCount(c)
    /\ conn'    = 0
    /\ attempt' = [attempt EXCEPT ![c] = 2]
    /\ IF attempt[c] = 1
       THEN CmdGoto(c, "locking") /\ queue' = Append(q, c)
       ELSE CmdGoto(c, "failed")  /\ queue' = q
    /\ UNCHANGED <<open, opened, on, canceller, drops, spoiled>>

ResetFindsNone(c) ==
    /\ cmd[c] = "resetting" /\ Holds(c) /\ conn = 0
    /\ CancelIdleClose
    /\ AfterReset(c, QueueWithoutIdler(Tail(queue)))

ResetReturns(c) ==
    /\ cmd[c] = "closing"
    /\ AfterReset(c, Tail(queue))
    /\ UNCHANGED idleVars
-----------------------------------------------------------------------------
(* A cancel handler whose process ignored KILL.                            *)

CancelResets(k) ==
    /\ canceller[k] = "new"
    /\ \E c \in Commands : cmd[c] = "running"
    /\ Enqueue(k)
    /\ ResetGoto(k, "locking")
    /\ UNCHANGED <<connVars, countVars, idleVars, cmdVars, drops, spoiled>>

CancelCloses(k) ==
    /\ canceller[k] = "locking" /\ Holds(k)
    /\ Close
    /\ queue' = QueueWithoutIdler(queue)
    /\ ResetGoto(k, "closing")
    /\ UNCHANGED <<countVars, cmdVars, drops, spoiled>>

CancelFindsNone(k) ==
    /\ canceller[k] = "locking" /\ Holds(k) /\ conn = 0
    /\ CancelIdleClose
    /\ queue' = QueueWithoutIdler(Tail(queue))
    /\ ResetGoto(k, "done")
    /\ UNCHANGED <<connVars, countVars, cmdVars, drops, spoiled>>

CancelClosed(k) ==
    /\ canceller[k] = "closing"
    /\ conn'  = 0
    /\ queue' = Tail(queue)
    /\ ResetGoto(k, "done")
    /\ UNCHANGED <<open, opened, countVars, idleVars, cmdVars, drops, spoiled>>
-----------------------------------------------------------------------------
(* _idle_close_after_timeout.                                              *)

IdlerWakes(i) ==
    /\ idler[i] = "sleeping"
    /\ Enqueue(i)
    /\ IdlerGoto(i, "locking")
    /\ UNCHANGED <<connVars, countVars, current, cmdVars, canceller, drops, spoiled>>

MustStayOpen == active > 0 \/ conn = 0

IdlerReturns(i) ==
    /\ idler[i] = "locking" /\ Holds(i)
    /\ MustStayOpen
    /\ queue' = Tail(queue)
    /\ IdlerGoto(i, "none")
    /\ UNCHANGED <<connVars, countVars, current, cmdVars, canceller, drops, spoiled>>

IdlerCloses(i) ==
    /\ idler[i] = "locking" /\ Holds(i)
    /\ ~MustStayOpen
    /\ open' = open \ {conn}
    /\ spoiled' = IF counted = {} THEN spoiled ELSE spoiled + 1
    /\ IdlerGoto(i, "closing")
    /\ UNCHANGED <<conn, opened, queue, countVars, current, cmdVars, canceller, drops>>

\* Its finally clause forgets the current idle-close task, even if that is another.
IdlerClosed(i) ==
    /\ idler[i] = "closing"
    /\ conn' = 0 /\ current' = 0
    /\ queue' = Tail(queue)
    /\ IdlerGoto(i, "none")
    /\ UNCHANGED <<open, opened, countVars, cmdVars, canceller, drops, spoiled>>
-----------------------------------------------------------------------------
\* The peer or the keepalive ends the connection; _conn still refers to it.
ConnectionDrops ==
    /\ drops < MaxDrops
    /\ drops' = drops + 1
    /\ conn \in open
    /\ open' = open \ {conn}
    /\ UNCHANGED <<conn, opened, queue, countVars, idleVars, cmdVars, canceller, spoiled>>

Over(c) == cmd[c] \in {"done", "failed"}

\* Every call returned, and no idle-close task is left.
AtRest == /\ \A c \in Commands : Over(c)
          /\ \A k \in Cancellers : canceller[k] \in {"new", "done"}
          /\ \A i \in IdleIds : idler[i] = "none"
          /\ UNCHANGED vars

RunStep(c) == \/ ConnectReuses(c) \/ ConnectReusesTooLate(c) \/ ConnectOpens(c)
              \/ ConnectReturns(c) \/ ConnectReturnsTooLate(c) \/ ConnectFails(c)
              \/ Created(c) \/ CreateFails(c) \/ RunReturns(c)
              \/ ResetCloses(c) \/ ResetFindsNone(c) \/ ResetReturns(c)

ResetStep(k) == CancelCloses(k) \/ CancelFindsNone(k) \/ CancelClosed(k)

IdleStep(i) == IdlerWakes(i) \/ IdlerReturns(i) \/ IdlerCloses(i) \/ IdlerClosed(i)

Next == \/ \E c \in Commands : RunStarts(c) \/ RunStep(c)
        \/ \E k \in Cancellers : CancelResets(k) \/ ResetStep(k)
        \/ \E i \in IdleIds : IdleStep(i)
        \/ ConnectionDrops
        \/ AtRest

Spec == Init /\ [][Next]_vars

\* Ready coroutines run, sleeps and the library's calls end, commands time out.
FairSpec == /\ Spec
            /\ \A c \in Commands : WF_vars(RunStep(c))
            /\ \A k \in Cancellers : WF_vars(ResetStep(k))
            /\ \A i \in IdleIds : WF_vars(IdleStep(i))
-----------------------------------------------------------------------------
Actors == Commands \cup Cancellers \cup IdleIds

TypeOK == /\ conn \in Nat /\ open \in SUBSET Nat /\ opened \in Nat
          /\ queue \in Seq(Actors)
          /\ active \in Nat /\ counted \in SUBSET Commands /\ early \in Nat /\ spoiled \in Nat
          /\ current \in IdleIds \cup {0}
          /\ idler \in [IdleIds -> IdlerPlace]
          /\ cmd \in [Commands -> CmdPlace]
          /\ attempt \in [Commands -> 1..2]
          /\ on \in [Commands -> Nat]
          /\ canceller \in [Cancellers -> ResetPlace]
          /\ drops \in Nat

\* No connection is left open that _conn does not refer to.
NoLeakedConnection == open \subseteq {conn}

\* _active_commands never exceeds the calls at work on the connection, and is below
\* them by the calls that left early in the meantime at most: exact if none did.
CountIsNearlyRight == /\ active <= Cardinality(counted)
                      /\ Cardinality(counted) <= active + early

UsesConnection(c) == cmd[c] \in {"creating", "running"} /\ on[c] = conn

\* The idle-close task takes the connection from a command at work only because of a
\* call that left early: from one command at most for each of those.
IdleCloseSparesCommands ==
    [][\A i \in IdleIds : idler[i] = "locking" /\ idler'[i] = "closing" =>
            Cardinality({c \in Commands : UsesConnection(c)}) <= early]_vars

\* The idle-close tasks that still sleep or wait for the lock, but that nothing can
\* cancel any more.
Waits(i) == idler[i] \in {"sleeping", "locking"}
Orphans == {i \in IdleIds : Waits(i) /\ i # current}

\* The finally clause of an idle-close task, which forgets whatever task is current,
\* leaves one such task at most, and only if its close began with calls in the count.
FewOrphanIdlers == Cardinality(Orphans) <= spoiled

\* Every call of run returns: nobody waits for the lock for ever.
RunsReturn == \A c \in Commands : cmd[c] = "locking" ~> Over(c)

\* When the last command is over, the connection is closed at last.
IdleConnectionCloses ==
    (\A c \in Commands : Over(c)) /\ (\A k \in Cancellers : canceller[k] # "locking")
        ~> conn = 0
=============================================================================
