---------------------------- MODULE ExecAdmission ---------------------------
(***************************************************************************)
(* The handler of POST /api/v1/exec for one server and one kind of command, *)
(* from its call to its answer, while the configuration is reloaded and the *)
(* server's row is edited: exec_command with wait_for_rate_limit (the       *)
(* actions of ExecRateLimit) and the policy's decision, create_job, the     *)
(* stream and the background task, which looks the server up again.         *)
(*                                                                         *)
(* A call that fails its first checks (403, 404) changes nothing and has no *)
(* action.  A call may pause where it finds the rate limit's lock free.     *)
(***************************************************************************)
EXTENDS ExecRateLimit, FiniteSets

CONSTANTS
    Ids,       \* request ids; a client may send one again
    NoId,      \* no request id
    Configs,   \* what configurations say of the server, see Config
    MaxRows    \* bound: how often the server is created

\* limit: the interval, 0 for none; server: the entry under "servers"; global: a
\* global policy grants the command; skips: the entry switches those policies off.
Config == [limit : Intervals \cup {0}, server : {"absent", "silent", "grants"},
           global : BOOLEAN, skips : BOOLEAN]

ASSUME AdmissionAssumption == NoId \notin Ids /\ Configs \subseteq Config /\ MaxRows \in Nat

VARIABLES
    config,   \* CONFIG
    latest,   \* history: what the file said when it was last loaded
    row,      \* the server's row: its id, 0 if there is none
    enabled,  \* its column enabled
    rows,     \* how many rows the server has had
    cited,    \* ids of servers that jobs or audit events refer to
    call,     \* call[c]: where the handler is
    local,    \* local[c]: its request_id, server_cfg and server_row
    fresh,    \* history: nothing was reloaded since c's call
    job,      \* job[i]: status of the jobs row of request id i
    task,     \* task[i]: the background task
    created,  \* history: how many tasks were created for i
    orphaned  \* history: the rows whose stream could not be created

rateVars == <<since, queue, place, interval, left, gap>>
confVars == <<config, latest>>
rowVars  == <<row, enabled, rows>>
callVars == <<call, local, fresh>>
jobVars  == <<job, task, created, orphaned>>
admissionVars == <<rateVars, confVars, rowVars, cited, callVars, jobVars>>

\* What get_server_runtime_config gives for a server that the file does not list.
RuntimeConfig == [grants |-> FALSE, skips |-> FALSE]

\* get_server_config: the file comes first, and its entries know no "enabled".
Known == config.server # "absent" \/ (row # 0 /\ enabled)
ServerConfig(conf) == IF conf.server = "absent" THEN RuntimeConfig
                      ELSE [grants |-> conf.server = "grants", skips |-> conf.skips]

\* evaluate_policy with a server's configuration and the global policies of conf.
Allowed(cfg, conf) == cfg.grants \/ (conf.global /\ ~cfg.skips)

NoCall == [id |-> NoId, cfg |-> RuntimeConfig, row |-> 0]

AdmissionInit ==
    /\ Init
    /\ config \in Configs /\ latest = config
    /\ row \in {0, 1} /\ enabled \in BOOLEAN /\ rows = row
    /\ cited = {}
    /\ call    = [c \in Callers |-> "idle"]
    /\ local   = [c \in Callers |-> NoCall]
    /\ fresh   = [c \in Callers |-> TRUE]
    /\ job     = [i \in Ids |-> "none"]
    /\ task    = [i \in Ids |-> "none"]
    /\ created = [i \in Ids |-> 0]
    /\ orphaned = {}
-----------------------------------------------------------------------------
(* The handler.                                                            *)

\* The handler answers, and its local variables are gone.
Answered(c) == /\ call'  = [call EXCEPT ![c] = "idle"]
               /\ local' = [local EXCEPT ![c] = NoCall]
               /\ fresh' = [fresh EXCEPT ![c] = TRUE]

\* The policy denies the command; the audit event, if it can be written, refers to
\* the server's row.
Denied(c, this) ==
    /\ ~Allowed(this.cfg, config)
    /\ Answered(c)
    /\ cited' \in {cited, IF this.row = row THEN cited \cup {row} ELSE cited}
    /\ UNCHANGED jobVars

\* Mutated: a row of the same request id is taken over.
RowCanBeWritten_TakesOver(this) == this.row = row

\* The constraints of table jobs: request_id is unique, server_id refers to a row.
RowCanBeWritten(this) == job[this.id] = "none" /\ this.row = row

\* create_job raises: 500, and nothing was written.
JobFails(c, this) ==
    /\ Allowed(this.cfg, config)
    /\ ~RowCanBeWritten(this)
    /\ Answered(c)
    /\ UNCHANGED <<cited, jobVars>>

\* create_job commits the row.
JobCreated(this) ==
    /\ Allowed(this.cfg, config)
    /\ RowCanBeWritten(this)
    /\ job'   = [job EXCEPT ![this.id] = "queued"]
    /\ cited' = cited \cup {this.row}
    /\ UNCHANGED <<task, created>>

\* create_command_stream raises: 500, with the job's row committed.
StreamFails(c, this) ==
    /\ JobCreated(this)
    /\ Answered(c)
    /\ orphaned' = orphaned \cup {this.id}

\* The stream is there as well; the audit event is awaited.
Queued(c, this) ==
    /\ JobCreated(this)
    /\ call'  = [call EXCEPT ![c] = "auditing"]
    /\ local' = [local EXCEPT ![c] = [NoCall EXCEPT !.id = this.id]]
    /\ fresh' = [fresh EXCEPT ![c] = TRUE]
    /\ UNCHANGED orphaned

Decided(c, this) == \/ Denied(c, this) \/ JobFails(c, this)
                    \/ StreamFails(c, this) \/ Queued(c, this)

\* What the handler reads before the rate limit, when the scope check found the
\* server's row and its configuration is known.
Admitted(c) == call[c] = "idle" /\ row # 0 /\ Known
Read(i) == [id |-> i, cfg |-> ServerConfig(config), row |-> row]

\* With an interval the call goes through the rate limit.
LimitedCall(c, i) ==
    /\ Admitted(c) /\ config.limit > 0
    /\ call'  = [call EXCEPT ![c] = "limiting"]
    /\ local' = [local EXCEPT ![c] = Read(i)]
    /\ Arrives(c) /\ interval'[c] = config.limit
    /\ UNCHANGED <<confVars, rowVars, cited, fresh, jobVars>>

\* Without one nothing suspends before the decision.
UnlimitedCall(c, i) ==
    /\ Admitted(c) /\ config.limit = 0
    /\ Decided(c, Read(i))
    /\ UNCHANGED <<rateVars, confVars, rowVars>>

Sleeps(c) ==
    /\ call[c] = "limiting"
    /\ FallsAsleep(c)
    /\ UNCHANGED <<confVars, rowVars, cited, callVars, jobVars>>

\* The decision is made with the server's configuration and row from before the
\* sleep, and with the global policies of now.
ComesThrough(c) ==
    /\ call[c] = "limiting"
    /\ NeedNotSleep(c) \/ Wakes(c)
    /\ Decided(c, local[c])
    /\ UNCHANGED <<confVars, rowVars>>

\* Mutated: a failure of the audit is not caught, and no task is created.
Accepted_UnlessAuditFails(c) ==
    /\ call[c] = "auditing"
    /\ Answered(c)
    /\ \/ /\ task'    = [task EXCEPT ![local[c].id] = "ready"]
          /\ created' = [created EXCEPT ![local[c].id] = @ + 1]
       \/ UNCHANGED <<task, created>>
    /\ UNCHANGED <<rateVars, confVars, rowVars, cited, job, orphaned>>

\* The audit event is written, or its failure swallowed: the task is created.
Accepted(c) ==
    /\ call[c] = "auditing"
    /\ Answered(c)
    /\ task'    = [task EXCEPT ![local[c].id] = "ready"]
    /\ created' = [created EXCEPT ![local[c].id] = @ + 1]
    /\ UNCHANGED <<rateVars, confVars, rowVars, cited, job, orphaned>>

\* _execute_job looks the server up again: the row becomes running.
TaskStarts(i) ==
    /\ task[i] = "ready" /\ Known
    /\ task' = [task EXCEPT ![i] = "started"]
    /\ job'  = [job EXCEPT ![i] = "running"]
    /\ UNCHANGED <<rateVars, confVars, rowVars, cited, callVars, created, orphaned>>

\* Or it is not known any more: the row stays queued.
TaskDies(i) ==
    /\ task[i] = "ready" /\ ~Known
    /\ task' = [task EXCEPT ![i] = "died"]
    /\ UNCHANGED <<rateVars, confVars, rowVars, cited, callVars, job, created, orphaned>>
-----------------------------------------------------------------------------
(* Administrators.                                                         *)

\* Mutated: CONFIG is not cleared, so a key that the new file lacks keeps its value.
Reload_Updates(new) ==
    /\ config' = IF new.global THEN new ELSE [new EXCEPT !.global = config.global]
    /\ latest' = new
    /\ fresh' = [c \in Callers |-> call[c] # "limiting"]
    /\ UNCHANGED <<rateVars, rowVars, cited, call, local, jobVars>>

\* POST /api/v1/reload.  A file that cannot be parsed changes nothing; one that is
\* missing is an empty configuration; one that build_settings rejects is in force
\* although the answer is an error.
Reload(new) ==
    /\ config' = new /\ latest' = new
    /\ fresh' = [c \in Callers |-> call[c] # "limiting"]
    /\ UNCHANGED <<rateVars, rowVars, cited, call, local, jobVars>>

RowCreated ==
    /\ row = 0 /\ rows < MaxRows
    /\ rows' = rows + 1 /\ row' = rows + 1
    /\ enabled' \in BOOLEAN
    /\ UNCHANGED <<rateVars, confVars, cited, callVars, jobVars>>

RowSwitched ==
    /\ row # 0
    /\ enabled' = ~enabled
    /\ UNCHANGED <<rateVars, confVars, row, rows, cited, callVars, jobVars>>

\* Refused while a job or an audit event refers to the row.
RowDeleted ==
    /\ row # 0 /\ row \notin cited
    /\ row' = 0
    /\ UNCHANGED <<rateVars, confVars, enabled, rows, cited, callVars, jobVars>>

TimePasses ==
    /\ Tick
    /\ UNCHANGED <<confVars, rowVars, cited, callVars, jobVars>>
-----------------------------------------------------------------------------
CallStep(c) == Sleeps(c) \/ ComesThrough(c) \/ Accepted(c)

AdmissionNext ==
    \/ \E c \in Callers, i \in Ids : LimitedCall(c, i) \/ UnlimitedCall(c, i)
    \/ \E c \in Callers : CallStep(c)
    \/ \E i \in Ids : TaskStarts(i) \/ TaskDies(i)
    \/ \E new \in Configs : Reload(new)
    \/ RowCreated \/ RowSwitched \/ RowDeleted
    \/ TimePasses

AdmissionSpec == AdmissionInit /\ [][AdmissionNext]_admissionVars

\* Time passes, and the event loop runs every handler that can go on.
FairAdmissionSpec == /\ AdmissionSpec
                     /\ WF_admissionVars(TimePasses)
                     /\ \A c \in Callers : WF_admissionVars(CallStep(c))
-----------------------------------------------------------------------------
Request == [id : Ids \cup {NoId}, cfg : [grants : BOOLEAN, skips : BOOLEAN], row : Nat]

AdmissionTypeOK ==
    /\ TypeOK
    /\ config \in Configs /\ latest \in Configs
    /\ row \in Nat /\ enabled \in BOOLEAN /\ rows \in Nat
    /\ cited \in SUBSET Nat
    /\ call  \in [Callers -> {"idle", "limiting", "auditing"}]
    /\ local \in [Callers -> Request]
    /\ \A c \in Callers : call[c] # "idle" => local[c].id \in Ids
    /\ fresh \in [Callers -> BOOLEAN]
    /\ job   \in [Ids -> {"none", "queued", "running"}]
    /\ task  \in [Ids -> {"none", "ready", "started", "died"}]
    /\ created \in [Ids -> Nat]
    /\ orphaned \in SUBSET Ids

\* A reload takes effect: a command that the latest file does not grant is accepted
\* only from a call that came before the file was loaded, and then by a rule of the
\* server's old entry or by a global policy that the file still has.
GrantsAreFresh ==
    [][\A i \in Ids : job[i] = "none" /\ job'[i] = "queued" =>
          \/ Allowed(ServerConfig(latest), latest)
          \/ \E c \in Callers :
                /\ call[c] = "limiting" /\ local[c].id = i /\ ~fresh[c]
                /\ local[c].cfg.grants \/ latest.global]_admissionVars

\* However often a request id is sent, also by calls that sleep side by side, one
\* task at most is created for it.
AcceptedOnce == \A i \in Ids : created[i] <= 1

\* A queued row always has somebody to go on with it, except where its stream could
\* not be created, or the server was gone when its task started.
QueuedRowsAreOwned == \A i \in Ids : job[i] = "queued" =>
    \/ \E c \in Callers : call[c] = "auditing" /\ local[c].id = i
    \/ task[i] \in {"ready", "died"}
    \/ i \in orphaned

\* Every call is answered, although others keep coming and the interval changes.
CallsAreAnswered == \A c \in Callers : call[c] # "idle" ~> call[c] = "idle"
=============================================================================
