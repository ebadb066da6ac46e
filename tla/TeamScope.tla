------------------------------- MODULE TeamScope -------------------------------
(***************************************************************************)
(* Who sees and who may act on a command: exec, cancel, the listings of     *)
(* sessions and of running commands, and the stream, while administrators   *)
(* rename and move servers and users.  A session listing finds the server   *)
(* of a job by its id, the registry of running commands by the name that    *)
(* the server had when the command was sent.                                *)
(*                                                                         *)
(* The life of the command is the one of ExecLifecycle, in larger steps.    *)
(***************************************************************************)
EXTENDS Naturals, FiniteSets

CONSTANTS
    Users, Teams,
    Servers,   \* ids of servers
    Names,     \* names of servers
    Requests,  \* request ids
    Nobody, NoTeam, NoServer, NoName,
    MaxChanges \* bound: what administrators change

ASSUME ScopeAssumption == /\ Nobody \notin Users /\ NoTeam \notin Teams
                          /\ NoServer \notin Servers /\ NoName \notin Names
                          /\ MaxChanges \in Nat

VARIABLES
    super,     \* the users whose role is superadmin
    team,      \* team[u]: users.team_id
    name,      \* name[s]: servers.name, NoName if there is no such row
    owner,     \* owner[s]: servers.team_id
    changes,
    place,     \* place[r]: where exec_command, then _execute_job is
    by,        \* by[r]: who sent it
    server,    \* server[r]: jobs.server_id, before that server_row
    named,     \* named[r]: req.server, which the task and its entry in _running keep
    status,    \* status[r]: jobs.status, "none" before the row is there
    hidden,    \* the jobs with hidden_at
    running,   \* the keys of _running
    flagged,   \* _cancel_requested
    renamed,   \* history: the server got another name since the call was checked
    moved,     \* history: the server's team, or the sender's role or team, changed
    entitled   \* history: one who could access the server asked for a cancel

inventory == <<super, team, name, owner, changes>>
callVars  == <<by, server, named>>
history   == <<renamed, moved, entitled>>
scopeVars == <<inventory, place, callVars, status, hidden, running, flagged, history>>

Place  == {"none", "waiting", "queued", "registered", "over", "lost"}
Status == {"none", "queued", "completed", "failed", "cancelled"}

Init == /\ super \in SUBSET Users
        /\ team  \in [Users -> Teams \cup {NoTeam}]
        /\ name    = [s \in Servers |-> NoName]
        /\ owner   = [s \in Servers |-> NoTeam]
        /\ changes = 0
        /\ place   = [r \in Requests |-> "none"]
        /\ by      = [r \in Requests |-> Nobody]
        /\ server  = [r \in Requests |-> NoServer]
        /\ named   = [r \in Requests |-> NoName]
        /\ status  = [r \in Requests |-> "none"]
        /\ hidden = {} /\ running = {} /\ flagged = {}
        /\ renamed = {} /\ moved = {} /\ entitled = {}
-----------------------------------------------------------------------------
(* The queries.  A superadmin passes each filter by team.                   *)

InTeam(u, s) == team[u] # NoTeam /\ owner[s] = team[u]

\* Mutated: any server of that name will do.
HasAccess_AnyTeam(u, n) == \E s \in Servers : name[s] = n /\ n # NoName

\* user_can_access_server, for a superadmin too: a row of that name.
HasAccess(u, n) == \E s \in Servers : /\ name[s] = n /\ n # NoName
                                      /\ u \in super \/ InTeam(u, s)

\* list_sessions, get_session_detail and hide_session join the server by its id.
InSessions(u, r) == /\ status[r] # "none" /\ r \notin hidden
                    /\ u \in super \/ InTeam(u, server[r])

\* user_can_access_stream knows no hidden jobs.
HasStream(u, r) == status[r] # "none" /\ (u \in super \/ InTeam(u, server[r]))

\* Mutated: every entry is shown.
IsShown_All(u, r) == r \in running

\* /running keeps the entries of the servers that list_servers gives, by name.
IsShown(u, r) ==
    /\ r \in running
    /\ u \in super \/ \E s \in Servers : name[s] = named[r] /\ InTeam(u, s)
-----------------------------------------------------------------------------
(* exec_command and _execute_job.                                          *)

\* The scope check and the lookup of the row; then the rate limit may sleep.
ExecChecks(u, r, n) ==
    /\ place[r] = "none"
    /\ HasAccess(u, n)
    /\ place'  = [place EXCEPT ![r] = "waiting"]
    /\ by'     = [by EXCEPT ![r] = u]
    /\ server' = [server EXCEPT ![r] = CHOOSE s \in Servers : name[s] = n]
    /\ named'  = [named EXCEPT ![r] = n]
    /\ UNCHANGED <<inventory, status, hidden, running, flagged, history>>

\* The policy denies the command, or the server's row is gone and jobs.server_id
\* refuses its id.
ExecFails(r) ==
    /\ place[r] = "waiting"
    /\ place' = [place EXCEPT ![r] = "over"]
    /\ UNCHANGED <<inventory, callVars, status, hidden, running, flagged, history>>

ExecAccepts(r) ==
    /\ place[r] = "waiting"
    /\ name[server[r]] # NoName
    /\ place'  = [place EXCEPT ![r] = "queued"]
    /\ status' = [status EXCEPT ![r] = "queued"]
    /\ UNCHANGED <<inventory, callVars, hidden, running, flagged, history>>

\* get_server_config by name: the configuration file knows the name, or a row does.
TaskRegisters(r) ==
    /\ place[r] = "queued"
    /\ r \notin flagged
    /\ place'   = [place EXCEPT ![r] = "registered"]
    /\ running' = running \cup {r}
    /\ UNCHANGED <<inventory, callVars, status, hidden, flagged, history>>

\* A cancel was requested: run returns before it registers, and the flag stays.
TaskIsTooLate(r) ==
    /\ place[r] = "queued"
    /\ r \in flagged
    /\ place'  = [place EXCEPT ![r] = "over"]
    /\ status' = [status EXCEPT ![r] = "cancelled"]
    /\ UNCHANGED <<inventory, callVars, hidden, running, flagged, history>>

\* The name is unknown by now, or its server switched off: the task ends, and the job
\* stays queued.
TaskIsLost(r) ==
    /\ place[r] = "queued"
    /\ place' = [place EXCEPT ![r] = "lost"]
    /\ UNCHANGED <<inventory, callVars, status, hidden, running, flagged, history>>

Unregister(r) == running' = running \ {r} /\ flagged' = flagged \ {r}

TaskEnds(r, outcome) ==
    /\ place[r] = "registered"
    /\ outcome = "cancelled" <=> r \in flagged
    /\ place'  = [place EXCEPT ![r] = "over"]
    /\ status' = [status EXCEPT ![r] = outcome]
    /\ Unregister(r)
    /\ UNCHANGED <<inventory, callVars, hidden, history>>

\* run raises, with or without a process.
TaskFails(r) ==
    /\ place[r] \in {"queued", "registered"}
    /\ place'  = [place EXCEPT ![r] = "over"]
    /\ status' = [status EXCEPT ![r] = "failed"]
    /\ IF place[r] = "registered" THEN Unregister(r) ELSE UNCHANGED <<running, flagged>>
    /\ UNCHANGED <<inventory, callVars, hidden, history>>
-----------------------------------------------------------------------------
(* cancel_command and hide_session.                                        *)

\* The name that the scope check of a cancel goes by: the entry's, or the present
\* one of the job's server.
CheckedName(r) == IF r \in running THEN named[r] ELSE name[server[r]]

Entitle(u, r) == entitled' = IF u \in super \/ InTeam(u, server[r]) THEN entitled \cup {r}
                             ELSE entitled

\* request_cancel comes first.
Asks(u, r) == /\ place[r] # "none"
              /\ flagged' = flagged \cup {r}
              /\ Entitle(u, r)
              /\ UNCHANGED <<inventory, place, callVars, hidden, renamed, moved>>

\* 404 before the row is there, 403 out of scope, 500 if the process stays; or the
\* flag is all there is to be done for a command that is not registered.
CancelOnlyFlags(u, r) == Asks(u, r) /\ UNCHANGED <<status, running>>

\* The process is gone: the row and the registry are updated.
CancelStops(u, r) ==
    /\ r \in running
    /\ HasAccess(u, CheckedName(r))
    /\ Asks(u, r)
    /\ status'  = [status EXCEPT ![r] = "cancelled"]
    /\ running' = running \ {r}

HideSession(u, r) ==
    /\ InSessions(u, r)
    /\ hidden' = hidden \cup {r}
    /\ UNCHANGED <<inventory, place, callVars, status, running, flagged, history>>
-----------------------------------------------------------------------------
(* The administration, open to the static token as well.                   *)

Changes == changes < MaxChanges /\ changes' = changes + 1

\* The calls that were checked with what is changed now.
CallsTo(s) == {r \in Requests : server[r] = s}
CallsBy(u) == {r \in Requests : by[r] = u}

IsFree(n) == \A s \in Servers : name[s] # n

CreateServer(s, n, t) ==
    /\ name[s] = NoName /\ s \notin {server[r] : r \in Requests}
    /\ IsFree(n)
    /\ name'  = [name EXCEPT ![s] = n]
    /\ owner' = [owner EXCEPT ![s] = t]
    /\ UNCHANGED <<super, team, changes, place, callVars, status, hidden, running, flagged, history>>

RenameServer(s, n) ==
    /\ Changes
    /\ name[s] # NoName /\ IsFree(n)
    /\ name'    = [name EXCEPT ![s] = n]
    /\ renamed' = renamed \cup CallsTo(s)
    /\ UNCHANGED <<super, team, owner, place, callVars, status, hidden, running, flagged, moved, entitled>>

MoveServer(s, t) ==
    /\ Changes
    /\ name[s] # NoName /\ owner[s] # t
    /\ owner' = [owner EXCEPT ![s] = t]
    /\ moved' = moved \cup CallsTo(s)
    /\ UNCHANGED <<super, team, name, place, callVars, status, hidden, running, flagged, renamed, entitled>>

\* fk_jobs_server keeps the server of a job.
DeleteServer(s) ==
    /\ Changes
    /\ name[s] # NoName
    /\ \A r \in CallsTo(s) : status[r] = "none"
    /\ name' = [name EXCEPT ![s] = NoName]
    /\ UNCHANGED <<super, team, owner, place, callVars, status, hidden, running, flagged, history>>

UpdateUser(u, isSuper, t) ==
    /\ Changes
    /\ <<u \in super, team[u]>> # <<isSuper, t>>
    /\ super' = IF isSuper THEN super \cup {u} ELSE super \ {u}
    /\ team'  = [team EXCEPT ![u] = t]
    /\ moved' = moved \cup CallsBy(u)
    /\ UNCHANGED <<name, owner, place, callVars, status, hidden, running, flagged, renamed, entitled>>

Administration ==
    \/ \E s \in Servers, n \in Names, t \in Teams \cup {NoTeam} : CreateServer(s, n, t)
    \/ \E s \in Servers, n \in Names : RenameServer(s, n)
    \/ \E s \in Servers, t \in Teams \cup {NoTeam} : MoveServer(s, t)
    \/ \E s \in Servers : DeleteServer(s)
    \/ \E u \in Users, isSuper \in BOOLEAN, t \in Teams \cup {NoTeam} : UpdateUser(u, isSuper, t)

Next == \/ \E u \in Users, r \in Requests :
               \/ \E n \in Names : ExecChecks(u, r, n)
               \/ CancelOnlyFlags(u, r) \/ CancelStops(u, r) \/ HideSession(u, r)
        \/ \E r \in Requests :
               \/ ExecFails(r) \/ ExecAccepts(r) \/ TaskRegisters(r) \/ TaskIsTooLate(r)
               \/ TaskIsLost(r) \/ TaskFails(r)
               \/ \E outcome \in {"completed", "cancelled"} : TaskEnds(r, outcome)
        \/ Administration

Spec == Init /\ [][Next]_scopeVars
-----------------------------------------------------------------------------
TypeOK == /\ super \in SUBSET Users /\ team \in [Users -> Teams \cup {NoTeam}]
          /\ name \in [Servers -> Names \cup {NoName}]
          /\ owner \in [Servers -> Teams \cup {NoTeam}]
          /\ changes \in Nat /\ place \in [Requests -> Place]
          /\ by \in [Requests -> Users \cup {Nobody}]
          /\ server \in [Requests -> Servers \cup {NoServer}]
          /\ named \in [Requests -> Names \cup {NoName}]
          /\ status \in [Requests -> Status]
          /\ hidden \subseteq Requests /\ running \subseteq Requests
          /\ flagged \subseteq Requests /\ renamed \subseteq Requests
          /\ moved \subseteq Requests /\ entitled \subseteq Requests

\* The sender of an accepted command finds it among the sessions and may watch it,
\* until the server or the sender changes teams, however long the rate limit slept.
OwnJobIsSeen == \A r \in Requests :
    (status[r] # "none" /\ r \notin moved) =>
        HasStream(by[r], r) /\ (r \notin hidden => InSessions(by[r], r))

\* A running command is shown to those who have its stream and may be cancelled by
\* them: the name leads to the server that the id leads to, until it is renamed.
RunningScopeAgrees == \A r \in running \ renamed : \A u \in Users :
    /\ IsShown(u, r) <=> HasStream(u, r)
    /\ HasAccess(u, CheckedName(r)) <=> HasStream(u, r)

\* README.md:83, README.md:88: users are limited to their team, and to its servers'
\* sessions and commands: a command is cancelled only if one who could access its
\* server asked for it.
CancelledByItsTeam == \A r \in Requests : status[r] = "cancelled" => r \in entitled
=============================================================================
