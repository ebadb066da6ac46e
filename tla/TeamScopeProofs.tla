---------------------------- MODULE TeamScopeProofs ----------------------------
(***************************************************************************)
(* Proofs about TeamScope, for any users, teams, servers, names and         *)
(* requests.  The two ways to find a job's server agree because names are   *)
(* unique, because the server of a job cannot be deleted, and because the   *)
(* history variables remember every change since the call was checked.      *)
(***************************************************************************)
EXTENDS TeamScope, TLAPS

NamesAreUnique == \A s, z \in Servers : name[s] = name[z] /\ name[s] # NoName => s = z

\* A call that was checked has its sender, its server and its name.
CallsAreKnown == \A r \in Requests :
    place[r] # "none" => by[r] \in Users /\ server[r] \in Servers /\ named[r] \in Names

\* A job has a call, and its server is still there.
JobsKeepServers == \A r \in Requests :
    status[r] # "none" => place[r] \notin {"none", "waiting"} /\ name[server[r]] # NoName

OnlyJobsRun == \A r \in running : place[r] = "registered" /\ status[r] # "none"

RegisteredIsJob == \A r \in Requests : place[r] \in {"queued", "registered"} => status[r] # "none"

SenderInScope == \A r \in Requests :
    place[r] # "none" /\ r \notin moved => by[r] \in super \/ InTeam(by[r], server[r])

NameLeadsToServer == \A r \in Requests :
    place[r] # "none" /\ r \notin renamed /\ name[server[r]] # NoName => name[server[r]] = named[r]

ScopeInv == /\ TypeOK /\ NamesAreUnique /\ CallsAreKnown /\ JobsKeepServers
            /\ OnlyJobsRun /\ RegisteredIsJob /\ SenderInScope /\ NameLeadsToServer
-----------------------------------------------------------------------------
LEMMA ScopeInit == Init => ScopeInv
  <1>1. SUFFICES ASSUME Init PROVE ScopeInv
    OBVIOUS
  <1>2. TypeOK
    BY <1>1 DEF Init, TypeOK, Place, Status
  <1>3. NamesAreUnique
    BY <1>1 DEF Init, NamesAreUnique
  <1>4. /\ CallsAreKnown /\ JobsKeepServers /\ OnlyJobsRun
        /\ RegisteredIsJob /\ SenderInScope /\ NameLeadsToServer
    BY <1>1 DEF Init, CallsAreKnown, JobsKeepServers, OnlyJobsRun, RegisteredIsJob,
                SenderInScope, NameLeadsToServer
  <1> QED BY <1>2, <1>3, <1>4 DEF ScopeInv

\* A step of a call, its task or a cancel leaves the inventory alone, and changes the
\* places and the status of one request only.
LEMMA CallSteps ==
    ASSUME ScopeInv, NEW u \in Users, NEW r \in Requests,
           \/ \E n \in Names : ExecChecks(u, r, n)
           \/ CancelOnlyFlags(u, r) \/ CancelStops(u, r) \/ HideSession(u, r)
           \/ ExecFails(r) \/ ExecAccepts(r) \/ TaskRegisters(r) \/ TaskIsTooLate(r)
           \/ TaskIsLost(r) \/ TaskFails(r)
           \/ \E outcome \in {"completed", "cancelled"} : TaskEnds(r, outcome)
    PROVE  ScopeInv'
  <1> USE ScopeAssumption DEF ScopeInv, TypeOK, NamesAreUnique, CallsAreKnown, JobsKeepServers,
          OnlyJobsRun, RegisteredIsJob, SenderInScope, NameLeadsToServer, InTeam, Place, Status,
          inventory, callVars, history
  <1>1. CASE \E n \in Names : ExecChecks(u, r, n)
    <2>1. PICK n \in Names : ExecChecks(u, r, n)
      BY <1>1
    <2>2. PICK s \in Servers : name[s] = n /\ (u \in super \/ InTeam(u, s))
      BY <2>1 DEF ExecChecks, HasAccess
    <2>3. (CHOOSE z \in Servers : name[z] = n) = s
      BY <2>2
    <2>4. server' = [server EXCEPT ![r] = s]
      BY <2>1, <2>3 DEF ExecChecks
    <2>5. TypeOK' /\ NamesAreUnique'
      BY <2>1, <2>4 DEF ExecChecks
    <2>6. CallsAreKnown' /\ JobsKeepServers'
      <3>1. status[r] = "none"
        BY <2>1 DEF ExecChecks
      <3>2. CallsAreKnown'
        <4>1. by'[r] = u /\ server'[r] = s /\ named'[r] = n
          BY <2>1, <2>4 DEF ExecChecks
        <4>2. ASSUME NEW q \in Requests, q # r
              PROVE  /\ by'[q] = by[q] /\ server'[q] = server[q]
                     /\ named'[q] = named[q] /\ place'[q] = place[q]
          BY <2>1, <2>4, <4>2 DEF ExecChecks
        <4> QED BY <4>1, <4>2
      <3>3. JobsKeepServers'
        BY <2>1, <2>4, <3>1 DEF ExecChecks
      <3> QED BY <3>2, <3>3
    <2>7. OnlyJobsRun' /\ RegisteredIsJob'
      BY <2>1, <2>4 DEF ExecChecks
    <2>8. SenderInScope' /\ NameLeadsToServer'
      BY <2>1, <2>2, <2>4 DEF ExecChecks
    <2> QED BY <2>5, <2>6, <2>7, <2>8
  <1>2. CASE CancelOnlyFlags(u, r)
    BY <1>2 DEF CancelOnlyFlags, Asks, Entitle
  <1>3. CASE CancelStops(u, r)
    BY <1>3 DEF CancelStops, Asks, Entitle
  <1>4. CASE HideSession(u, r)
    BY <1>4 DEF HideSession
  <1>5. CASE ExecFails(r)
    BY <1>5 DEF ExecFails
  <1>6. CASE ExecAccepts(r)
    BY <1>6 DEF ExecAccepts
  <1>7. CASE TaskRegisters(r)
    BY <1>7 DEF TaskRegisters
  <1>8. CASE TaskIsTooLate(r)
    BY <1>8 DEF TaskIsTooLate
  <1>9. CASE TaskIsLost(r)
    BY <1>9 DEF TaskIsLost
  <1>10. CASE TaskFails(r)
    BY <1>10 DEF TaskFails, Unregister
  <1>11. CASE \E outcome \in {"completed", "cancelled"} : TaskEnds(r, outcome)
    BY <1>11 DEF TaskEnds, Unregister
  <1> QED BY <1>1, <1>2, <1>3, <1>4, <1>5, <1>6, <1>7, <1>8, <1>9, <1>10, <1>11

\* An administrator's step either cannot touch the server of a call, or leaves a mark
\* in the history variables.
LEMMA AdministrationSteps == ASSUME ScopeInv, Administration PROVE ScopeInv'
  <1> USE ScopeAssumption DEF ScopeInv, TypeOK, NamesAreUnique, CallsAreKnown, JobsKeepServers,
          OnlyJobsRun, RegisteredIsJob, SenderInScope, NameLeadsToServer, InTeam, Place, Status,
          callVars, history, CallsTo, CallsBy, Changes, IsFree
  <1>1. CASE \E s \in Servers, n \in Names, t \in Teams \cup {NoTeam} : CreateServer(s, n, t)
    BY <1>1 DEF CreateServer
  <1>2. CASE \E s \in Servers, n \in Names : RenameServer(s, n)
    BY <1>2 DEF RenameServer
  <1>3. CASE \E s \in Servers, t \in Teams \cup {NoTeam} : MoveServer(s, t)
    BY <1>3 DEF MoveServer
  <1>4. CASE \E s \in Servers : DeleteServer(s)
    BY <1>4 DEF DeleteServer
  <1>5. CASE \E v \in Users, isSuper \in BOOLEAN, t \in Teams \cup {NoTeam} : UpdateUser(v, isSuper, t)
    BY <1>5 DEF UpdateUser
  <1> QED BY <1>1, <1>2, <1>3, <1>4, <1>5 DEF Administration

LEMMA ScopeStep == ScopeInv /\ [Next]_scopeVars => ScopeInv'
  <1> SUFFICES ASSUME ScopeInv, [Next]_scopeVars PROVE ScopeInv'
    OBVIOUS
  <1>1. CASE UNCHANGED scopeVars
    BY <1>1 DEF scopeVars, inventory, callVars, history, ScopeInv, TypeOK, NamesAreUnique,
                CallsAreKnown, JobsKeepServers, OnlyJobsRun, RegisteredIsJob, SenderInScope,
                NameLeadsToServer, InTeam
  <1>2. CASE Administration
    BY <1>2, AdministrationSteps
  <1>3. CASE \E u \in Users, r \in Requests :
                \/ \E n \in Names : ExecChecks(u, r, n)
                \/ CancelOnlyFlags(u, r) \/ CancelStops(u, r) \/ HideSession(u, r)
    BY <1>3, CallSteps
  <1>4. CASE \E r \in Requests :
                \/ ExecFails(r) \/ ExecAccepts(r) \/ TaskRegisters(r) \/ TaskIsTooLate(r)
                \/ TaskIsLost(r) \/ TaskFails(r)
                \/ \E outcome \in {"completed", "cancelled"} : TaskEnds(r, outcome)
    <2>1. PICK r \in Requests :
                \/ ExecFails(r) \/ ExecAccepts(r) \/ TaskRegisters(r) \/ TaskIsTooLate(r)
                \/ TaskIsLost(r) \/ TaskFails(r)
                \/ \E outcome \in {"completed", "cancelled"} : TaskEnds(r, outcome)
      BY <1>4
    <2>2. \E u \in Users : TRUE
      <3>1. place[r] # "none"
        BY <2>1 DEF ExecFails, ExecAccepts, TaskRegisters, TaskIsTooLate, TaskIsLost, TaskFails, TaskEnds
      <3> QED BY <3>1 DEF ScopeInv, CallsAreKnown
    <2> QED BY <2>1, <2>2, CallSteps
  <1> QED BY <1>1, <1>2, <1>3, <1>4 DEF Next

LEMMA ScopeInvariant == Spec => []ScopeInv
  <1> QED BY ScopeInit, ScopeStep, PTL DEF Spec
-----------------------------------------------------------------------------
\* Every variable keeps its type (servers, users, jobs, _running and the flags).
THEOREM ScopeTypesCorrect == Spec => []TypeOK
  <1>1. ScopeInv => TypeOK
    BY DEF ScopeInv
  <1> QED BY <1>1, ScopeInvariant, PTL

\* The sender of an accepted command has its session and its stream, unless a team or
\* a role changed: exec checks by name, list_sessions and the websocket by id.
THEOREM OwnJobsAreSeen == Spec => []OwnJobIsSeen
  <1>1. ScopeInv => OwnJobIsSeen
    BY DEF ScopeInv, JobsKeepServers, SenderInScope, OwnJobIsSeen, HasStream, InSessions
  <1> QED BY <1>1, ScopeInvariant, PTL

\* /running, cancel_command and the websocket agree on who may see and act on a
\* running command, as long as its server keeps its name.
THEOREM RunningScopesAgree == Spec => []RunningScopeAgrees
  <1>1. ScopeInv => RunningScopeAgrees
    <2> SUFFICES ASSUME ScopeInv, NEW r \in running \ renamed, NEW u \in Users
                 PROVE  /\ IsShown(u, r) <=> HasStream(u, r)
                        /\ HasAccess(u, CheckedName(r)) <=> HasStream(u, r)
      BY DEF RunningScopeAgrees
    <2>1. r \in Requests /\ status[r] # "none" /\ place[r] # "none"
      BY DEF ScopeInv, TypeOK, OnlyJobsRun
    <2>2. server[r] \in Servers /\ name[server[r]] = named[r] /\ named[r] # NoName
      BY <2>1 DEF ScopeInv, CallsAreKnown, JobsKeepServers, NameLeadsToServer
    <2>3. \A s \in Servers : name[s] = named[r] <=> s = server[r]
      BY <2>2 DEF ScopeInv, NamesAreUnique
    <2>4. IsShown(u, r) <=> HasStream(u, r)
      BY <2>1, <2>2, <2>3 DEF IsShown, HasStream
    <2>5. HasAccess(u, CheckedName(r)) <=> HasStream(u, r)
      BY <2>1, <2>2, <2>3 DEF HasAccess, HasStream, CheckedName
    <2> QED BY <2>4, <2>5
  <1> QED BY <1>1, ScopeInvariant, PTL
=============================================================================
