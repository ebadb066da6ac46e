----------------------------- MODULE Inventory -----------------------------
(***************************************************************************)
(* Teams, projects and servers: the rows, what administrators do to them,  *)
(* and what the service does to them when it starts, which is to seed its  *)
(* own rows and to import the hosts of an SSH configuration.               *)
(*                                                                         *)
(* The team of a server decides who sees it and runs commands on it.  The  *)
(* row repeats the team of the server's project, so every operation that   *)
(* moves a server or a project has to keep the two alike.                  *)
(*                                                                         *)
(* A transaction is one step.  A team is identified by its slug: where the *)
(* tables refer to a team by its id, and an administrator gives the team   *)
(* another slug, the references change with it.  Names are as the database *)
(* compares them, without case.  Proxies appear only where creating one    *)
(* flushes the import's session.                                           *)
(***************************************************************************)
EXTENDS Naturals, FiniteSets, Sequences

CONSTANTS
    Teams,      \* slugs of teams
    Names,      \* names of teams
    Slugs,      \* slugs of projects
    Projects,   \* ids of projects, enough for every slug in every team
    Servers,    \* names of servers
    HostFiles   \* what the SSH configuration may list below the marker: sequences of
                \* [alias, team, slug, hop], with team and slug derived from the alias and
                \* the proxy as hop, "direct" if there is none

ASSUME InventoryAssumption ==
    /\ "platform" \in Teams \cap Slugs /\ "lifeorient" \in Servers /\ "none" \notin Teams
    /\ Teams \subseteq Names
    /\ IsFiniteSet(Teams) /\ IsFiniteSet(Slugs) /\ IsFiniteSet(Projects)
    /\ Projects \subseteq Nat \ {0}
    /\ Cardinality(Projects) >= Cardinality(Teams) * Cardinality(Slugs)
    /\ \A file \in HostFiles :
          /\ file \in Seq([alias : Servers, team : Teams, slug : Slugs, hop : STRING])
          /\ \A i, j \in DOMAIN file : file[i].alias = file[j].alias =>
                file[i].team = file[j].team /\ file[i].slug = file[j].slug

VARIABLES
    rows,     \* the tables, functions on the rows that exist: team, from slugs to names;
              \* project, from ids; server, from names
    manned,   \* teams that users belong to
    service,  \* "down", "seeded" (on the way up) or "up"
    moving,   \* the project between the two commits of update_project, or 0
    astray    \* history: servers that an update stopped there, or the seed, left in a
              \* project of another team, and nothing has put right since

vars == <<rows, manned, service, moving, astray>>

Protected == {"platform", "alfa"}

Init == /\ rows = [team |-> <<>>, project |-> <<>>, server |-> <<>>]
        /\ manned = {} /\ service = "down" /\ moving = 0 /\ astray = {}
-----------------------------------------------------------------------------
TeamSlugs(r)   == DOMAIN r.team
ProjectIds(r)  == DOMAIN r.project
ServerNames(r) == DOMAIN r.server

With(f, x, y) == [z \in DOMAIN f \cup {x} |-> IF z = x THEN y ELSE f[z]]
Without(f, S) == [z \in DOMAIN f \ S |-> f[z]]

ServersOf(r, p) == {s \in ServerNames(r) : r.server[s].project = p}

\* _resolve_project_team_id
TeamFor(r, p, t) == IF p = 0 THEN t ELSE r.project[p].team

PutServer(r, s, p, t) == [r EXCEPT !.server = With(@, s, [project |-> p, team |-> t])]

PutProject(r, p, t, slug) == [r EXCEPT !.project = With(@, p, [team |-> t, slug |-> slug])]

\* ids are all alike: a new project gets one that no other has.
NewId(r) == CHOOSE p \in Projects : p \notin ProjectIds(r)

\* The names of teams are unique.
NameIsFree(r, t, n) == \A u \in TeamSlugs(r) \ {t} : r.team[u] # n

\* uq_projects_team_slug
SlugIsFree(r, p, t, slug) ==
    \A q \in ProjectIds(r) \ {p} : r.project[q] # [team |-> t, slug |-> slug]

\* Rows refer to the team.
Used(r, t) == \/ \E p \in ProjectIds(r) : r.project[p].team = t
              \/ \E s \in ServerNames(r) : r.server[s].team = t

Ready == service = "up" /\ moving = 0
-----------------------------------------------------------------------------
(* Administrators.  A call that the database refuses changes nothing.      *)

CreateTeam(t, n) ==
    /\ Ready /\ t \notin TeamSlugs(rows) /\ NameIsFree(rows, t, n)
    /\ rows' = [rows EXCEPT !.team = With(@, t, n)]
    /\ UNCHANGED <<manned, service, moving, astray>>

\* The team gets the slug u and the name n, its own where the call does not name them.
UpdateTeam(t, u, n) ==
    /\ Ready /\ t \in TeamSlugs(rows) /\ u \notin TeamSlugs(rows) \ {t}
    /\ NameIsFree(rows, t, n)
    /\ LET To(x) == IF x = t THEN u ELSE x IN
          /\ rows' = [team    |-> With(Without(rows.team, {t}), u, n),
                      project |-> [p \in ProjectIds(rows) |->
                                     [rows.project[p] EXCEPT !.team = To(@)]],
                      server  |-> [s \in ServerNames(rows) |->
                                     [rows.server[s] EXCEPT !.team = To(@)]]]
          /\ manned' = {To(x) : x \in manned}
    /\ UNCHANGED <<service, moving, astray>>

DeleteTeam(t) ==
    /\ Ready /\ t \in TeamSlugs(rows) \ manned /\ ~Used(rows, t)
    /\ rows' = [rows EXCEPT !.team = Without(@, {t})]
    /\ UNCHANGED <<manned, service, moving, astray>>

\* Users are moved to a team, or away from it.
ManTeam(t) ==
    /\ Ready /\ t \in TeamSlugs(rows)
    /\ manned' = IF t \in manned THEN manned \ {t} ELSE manned \cup {t}
    /\ UNCHANGED <<rows, service, moving, astray>>

CreateProject(t, slug) ==
    /\ Ready /\ t \in TeamSlugs(rows)
    /\ SlugIsFree(rows, 0, t, slug)
    /\ rows' = PutProject(rows, NewId(rows), t, slug)
    /\ UNCHANGED <<manned, service, moving, astray>>

\* update_project commits the project's row first ...
UpdateProject(p, t, slug) ==
    /\ Ready /\ p \in ProjectIds(rows) /\ t \in TeamSlugs(rows)
    /\ SlugIsFree(rows, p, t, slug)
    /\ rows' = PutProject(rows, p, t, slug)
    /\ moving' = p
    /\ UNCHANGED <<manned, service, astray>>

\* ... and then the team of its servers.
ServersFollow ==
    /\ service = "up" /\ moving # 0
    /\ rows' = [rows EXCEPT !.server = [s \in DOMAIN @ |->
                  IF @[s].project = moving
                  THEN [@[s] EXCEPT !.team = rows.project[moving].team] ELSE @[s]]]
    /\ moving' = 0 /\ astray' = astray \ ServersOf(rows, moving)
    /\ UNCHANGED <<manned, service>>

\* The servers that the second commit has yet to move.
LeftBehind == {s \in ServerNames(rows) : LET p == rows.server[s].project IN
                 p # 0 /\ p = moving /\ rows.server[s].team # rows.project[p].team}

\* The second commit fails.
UpdateStops ==
    /\ service = "up" /\ moving # 0
    /\ moving' = 0 /\ astray' = astray \cup LeftBehind
    /\ UNCHANGED <<rows, manned, service>>

DeleteProject(p) ==
    /\ Ready /\ p \in ProjectIds(rows) /\ ServersOf(rows, p) = {}
    /\ rows' = [rows EXCEPT !.project = Without(@, {p})]
    /\ UNCHANGED <<manned, service, moving, astray>>

CreateServer(s, p, t) ==
    /\ Ready /\ s \notin ServerNames(rows)
    /\ p \in ProjectIds(rows) \cup {0} /\ TeamFor(rows, p, t) \in TeamSlugs(rows) \cup {"none"}
    /\ rows' = PutServer(rows, s, p, TeamFor(rows, p, t))
    /\ UNCHANGED <<manned, service, moving, astray>>

\* Mutated: a project that the call does not change is not asked for its team.
UpdateServer_Asked(s, p, t) ==
    /\ Ready /\ s \in ServerNames(rows)
    /\ p \in ProjectIds(rows) \cup {0} /\ t \in TeamSlugs(rows) \cup {"none"}
    /\ rows' = PutServer(rows, s, p, IF p = rows.server[s].project THEN t ELSE TeamFor(rows, p, t))
    /\ astray' = astray \ {s}
    /\ UNCHANGED <<manned, service, moving>>

\* p and t are the row's own where the call does not name them.
UpdateServer(s, p, t) ==
    /\ Ready /\ s \in ServerNames(rows)
    /\ p \in ProjectIds(rows) \cup {0} /\ TeamFor(rows, p, t) \in TeamSlugs(rows) \cup {"none"}
    /\ rows' = PutServer(rows, s, p, TeamFor(rows, p, t))
    /\ astray' = astray \ {s}
    /\ UNCHANGED <<manned, service, moving>>

DeleteServer(s) ==
    /\ Ready /\ s \in ServerNames(rows)
    /\ rows' = [rows EXCEPT !.server = Without(@, {s})]
    /\ astray' = astray \ {s}
    /\ UNCHANGED <<manned, service, moving>>
-----------------------------------------------------------------------------
(* What the service does on the way up.                                    *)

\* The name is the slug.
GetTeam(r, t) == IF t \in TeamSlugs(r) THEN r ELSE [r EXCEPT !.team = With(@, t, t)]

\* A new team's name is another team's.
NameIsTaken(r, t) == t \notin TeamSlugs(r) /\ ~NameIsFree(r, t, t)

ProjectFor(r, t, slug) ==
    IF SlugIsFree(r, 0, t, slug) THEN NewId(r)
    ELSE CHOOSE p \in ProjectIds(r) : r.project[p] = [team |-> t, slug |-> slug]

\* _get_or_create_project
GetProject(r, t, slug) == PutProject(r, ProjectFor(r, t, slug), t, slug)

\* ensure_seed_data, as far as the inventory goes.  An old row gets what it lacks.
Seeded(r) ==
    LET r1   == GetProject(GetTeam(r, "platform"), "platform", "platform")
        p    == ProjectFor(r1, "platform", "platform")
        seen == "lifeorient" \in ServerNames(r1)
        old  == r1.server["lifeorient"]
    IN  IF ~seen THEN PutServer(r1, "lifeorient", p, "platform")
        ELSE PutServer(r1, "lifeorient", IF old.project = 0 THEN p ELSE old.project,
                                         IF old.team = "none" THEN "platform" ELSE old.team)

\* One record of the import.  `pending` holds servers that were added and not flushed:
\* the session does not flush on its own, and a query does not find them, so a second
\* row with the name is added.  Creating a team, a project or a proxy flushes.  Once
\* the database has refused a row, the rest does not matter.
ImportRecord(acc, host) ==
    LET r0      == acc.rows
        r1      == GetProject(GetTeam(r0, host.team), host.team, host.slug)
        flushes == r1 # r0 \/ host.hop \notin acc.hops
        pending == IF flushes THEN {} ELSE acc.pending
    IN  [rows    |-> PutServer(r1, host.alias, ProjectFor(r1, host.team, host.slug), host.team),
         hops    |-> acc.hops \cup {host.hop},
         pending |-> IF host.alias \in ServerNames(r0) \ pending THEN pending
                     ELSE pending \cup {host.alias},
         refused |-> \/ acc.refused \/ host.alias \in pending
                     \/ NameIsTaken(r0, host.team)]

ProjectsDropped(r) ==
    [r EXCEPT !.project = Without(@, {p \in ProjectIds(r) : /\ @[p].team \notin Protected
                                                            /\ ServersOf(r, p) = {}})]

\* Mutated: users do not keep a team.
TeamsDropped_Manned(r) ==
    [r EXCEPT !.team = Without(@, {t \in TeamSlugs(r) \ Protected : ~Used(r, t)})]

TeamsDropped(r) ==
    [r EXCEPT !.team = Without(@, {t \in TeamSlugs(r) \ (Protected \cup manned) : ~Used(r, t)})]

\* Mutated: the teams go first.
CleanedUp_TeamsFirst(r) == ProjectsDropped(TeamsDropped(r))

\* _cleanup_orphan_import_entities, also for rows that administrators made.
CleanedUp(r) == TeamsDropped(ProjectsDropped(r))

\* The foreign keys of the tables.
ReferencesHold(r) ==
    /\ manned \subseteq TeamSlugs(r)
    /\ \A p \in ProjectIds(r) : r.project[p].team \in TeamSlugs(r)
    /\ \A s \in ServerNames(r) : /\ r.server[s].team \in TeamSlugs(r) \cup {"none"}
                                 /\ r.server[s].project \in ProjectIds(r) \cup {0}

\* import_ssh_config_servers.  The session starts from the rows of the seed; `hops` are
\* the proxies that exist beside the seeded one.
Session(r, hops) ==
    [rows |-> r, hops |-> hops \cup {"direct"}, pending |-> {}, refused |-> FALSE]

\* The loop: the session after each number of the file's records.
Sessions(r, file, hops) ==
    LET after[n \in 0..Len(file)] == IF n = 0 THEN Session(r, hops)
                                     ELSE ImportRecord(after[n - 1], file[n])
    IN  after

Imported(r, file, hops) ==
    LET acc == Sessions(r, file, hops)[Len(file)]
        r1  == IF file = <<>> THEN r ELSE CleanedUp(acc.rows)
    IN  [rows |-> r1, ok |-> ~acc.refused /\ ReferencesHold(r1)]

\* The seed gives the server a project and leaves it its team.
SeedParts(r) == /\ "lifeorient" \in ServerNames(r)
                /\ r.server["lifeorient"].project = 0
                /\ r.server["lifeorient"].team \notin {"none", "platform"}

\* The seed may also create a user of the seeded team.
Seed == /\ service = "down" /\ ~NameIsTaken(rows, "platform")
        /\ rows' = Seeded(rows)
        /\ astray' = astray \cup {s \in {"lifeorient"} : SeedParts(rows)}
        /\ manned' \in {manned, manned \cup {"platform"}}
        /\ service' = "seeded"
        /\ UNCHANGED moving

\* The seeded team's name is taken: the service does not start.
SeedFails == /\ service = "down" /\ NameIsTaken(rows, "platform")
             /\ UNCHANGED vars

Hops(file) == {file[i].hop : i \in DOMAIN file} \ {"direct"}

\* With the import switched off the file is as good as empty; the mode "once" imports
\* at every start, as "always" does.
Import(file) ==
    /\ service = "seeded"
    /\ \E hops \in SUBSET Hops(file) : LET import == Imported(rows, file, hops) IN
          import.ok /\ rows' = import.rows
    /\ service' = "up"
    /\ astray' = astray \ {file[i].alias : i \in DOMAIN file}
    /\ UNCHANGED <<manned, moving>>

\* The transaction fails, and with it the start of the service.
ImportFails(file) ==
    /\ service = "seeded"
    /\ \E hops \in SUBSET Hops(file) : ~Imported(rows, file, hops).ok
    /\ service' = "down"
    /\ UNCHANGED <<rows, manned, moving, astray>>

\* The service stops or dies, perhaps between the commits of update_project.
Stop == /\ service # "down"
        /\ service' = "down" /\ moving' = 0
        /\ astray' = astray \cup LeftBehind
        /\ UNCHANGED <<rows, manned>>

Next == \/ Seed \/ SeedFails \/ Stop \/ ServersFollow \/ UpdateStops
        \/ \E file \in HostFiles : Import(file) \/ ImportFails(file)
        \/ \E t \in Teams : DeleteTeam(t) \/ ManTeam(t)
        \/ \E t \in Teams, n \in Names : \/ CreateTeam(t, n)
                                        \/ \E u \in Teams : UpdateTeam(t, u, n)
        \/ \E t \in Teams, slug \in Slugs : CreateProject(t, slug)
        \/ \E p \in Projects : \/ DeleteProject(p)
                               \/ \E t \in Teams, slug \in Slugs : UpdateProject(p, t, slug)
        \/ \E s \in Servers : \/ DeleteServer(s)
                              \/ \E p \in Projects \cup {0}, t \in Teams \cup {"none"} :
                                    CreateServer(s, p, t) \/ UpdateServer(s, p, t)

Spec == Init /\ [][Next]_vars
-----------------------------------------------------------------------------
TypeOK ==
    /\ TeamSlugs(rows) \subseteq Teams /\ manned \subseteq Teams
    /\ \A t \in TeamSlugs(rows) : rows.team[t] \in Names
    /\ ProjectIds(rows) \subseteq Projects /\ ServerNames(rows) \subseteq Servers
    /\ \A p \in ProjectIds(rows) : rows.project[p] \in [team : Teams, slug : Slugs]
    /\ \A s \in ServerNames(rows) :
          rows.server[s] \in [project : Projects \cup {0}, team : Teams \cup {"none"}]
    /\ service \in {"down", "seeded", "up"}
    /\ moving \in Projects \cup {0} /\ astray \subseteq Servers

\* A server that belongs to a project has the project's team, whatever administrators,
\* seeding and import have moved and renamed.  Excepted are servers that were left behind
\* when an update of their project stopped between its two commits, and the seeded server
\* if it had a team of its own when the seed gave it a project; until they or the project
\* are updated, or the file lists them.
ServersHaveTheirProjectsTeam ==
    \A s \in ServerNames(rows) \ astray : LET p == rows.server[s].project IN
        p \in {0, moving} \/ rows.server[s].team = rows.project[p].team

\* Importing the same file again, at a restart, changes nothing: what the import
\* creates the clean-up does not remove, and what is left has nothing to clean up.
RestartChangesNothing ==
    [][\A file \in HostFiles : Import(file) /\ file # <<>> =>
         Imported(Seeded(rows'), file, Hops(file)) = [rows |-> rows', ok |-> TRUE]]_vars

\* The import fails, which keeps the service down, only if the file lists a host twice,
\* or a host of a team that is missing and whose name another team has: its clean-up
\* removes no row that another row still needs.
StartFailsOnConflictsOnly ==
    [][\A file \in HostFiles : ImportFails(file) =>
         \/ \E i, j \in DOMAIN file : i # j /\ file[i].alias = file[j].alias
         \/ \E i \in DOMAIN file : NameIsTaken(rows, file[i].team)]_vars
=============================================================================
