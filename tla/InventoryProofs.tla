--------------------------- MODULE InventoryProofs ---------------------------
(***************************************************************************)
(* Theorems about Inventory, for every set of teams, projects and servers  *)
(* and every file to import.                                               *)
(***************************************************************************)
EXTENDS Inventory, FiniteSetTheorems, SequenceTheorems, TLAPS

\* Induction over the natural numbers, for a set of them instead of a predicate.
LEMMA Induction ==
    ASSUME NEW D, 0 \in D, \A n \in Nat : n \in D => n + 1 \in D
    PROVE  Nat \subseteq D
<1> SUFFICES ASSUME NEW k \in Nat \ D PROVE FALSE
  OBVIOUS
<1> DEFINE T == {0..n : n \in Nat \ D}
<1>1. T \subseteq FiniteSubsetsOf(Nat)
  <2> SUFFICES ASSUME NEW n \in Nat \ D PROVE 0..n \in FiniteSubsetsOf(Nat)
    OBVIOUS
  <2>1. IsFiniteSet(0..n)
    BY FS_Interval
  <2>2. 0..n \in SUBSET Nat
    OBVIOUS
  <2> QED  BY <2>1, <2>2 DEF FiniteSubsetsOf
<1>2. IsWellFoundedOn(StrictSubsetOrdering(Nat), FiniteSubsetsOf(Nat))
  BY FS_StrictSubsetOrderingWellFounded
<1>3. PICK X \in T : \A Y \in T : <<Y, X>> \notin StrictSubsetOrdering(Nat)
  <2>1. T # {}
    OBVIOUS
  <2> HIDE DEF T
  <2> QED  BY <1>1, <1>2, <2>1, WFMin
<1>4. PICK n \in Nat \ D : X = 0..n
  OBVIOUS
<1>5. n # 0 /\ n - 1 \in Nat \ D
  OBVIOUS
<1>6. PICK Y \in T : Y = 0..(n - 1)
  BY <1>5
<1>7. Y \subseteq X /\ Y # X
  <2>1. n \in X /\ n \notin Y
    BY <1>4, <1>5, <1>6
  <2> QED  BY <2>1, <1>4, <1>5, <1>6
<1>8. <<Y, X>> \in StrictSubsetOrdering(Nat)
  BY <1>4, <1>6, <1>7 DEF StrictSubsetOrdering
<1> QED  BY <1>3, <1>8

\* The loop of the import exists, and its session after n records comes from the one
\* before.
LoopOf(r, file, hops, g, m) ==
    g = [n \in 0..m |-> IF n = 0 THEN Session(r, hops) ELSE ImportRecord(g[n - 1], file[n])]

LEMMA LoopExists ==
    ASSUME NEW r, NEW file, NEW hops
    PROVE  \A m \in Nat : \E g : LoopOf(r, file, hops, g, m)
<1> DEFINE D == {m \in Nat : \E g : LoopOf(r, file, hops, g, m)}
<1>1. 0 \in D
  <2> DEFINE g == [n \in 0..0 |-> Session(r, hops)]
  <2>1. g = [n \in 0..0 |-> IF n = 0 THEN Session(r, hops) ELSE ImportRecord(g[n - 1], file[n])]
    OBVIOUS
  <2> HIDE DEF g
  <2>2. LoopOf(r, file, hops, g, 0)
    BY <2>1 DEF LoopOf
  <2> QED  BY <2>2
<1>2. ASSUME NEW m \in Nat, m \in D PROVE m + 1 \in D
  <2>1. PICK g : LoopOf(r, file, hops, g, m)
    BY <1>2
  <2> DEFINE h == [n \in 0..(m + 1) |-> IF n = m + 1 THEN ImportRecord(g[m], file[m + 1])
                                       ELSE g[n]]
  <2>2. /\ g[0] = Session(r, hops)
        /\ \A n \in 1..m : g[n] = ImportRecord(g[n - 1], file[n])
    BY <2>1 DEF LoopOf
  <2>3. \A n \in 0..(m + 1) :
            h[n] = IF n = 0 THEN Session(r, hops) ELSE ImportRecord(h[n - 1], file[n])
    <3>1. /\ \A n \in 0..m : h[n] = g[n]
          /\ h[m + 1] = ImportRecord(g[m], file[m + 1])
      OBVIOUS
    <3> HIDE DEF h
    <3> SUFFICES ASSUME NEW n \in 0..(m + 1)
                 PROVE  h[n] = IF n = 0 THEN Session(r, hops) ELSE ImportRecord(h[n - 1], file[n])
      OBVIOUS
    <3>2. CASE n = m + 1
      <4>1. n # 0 /\ n - 1 = m /\ h[m] = g[m]
        BY <3>1, <3>2
      <4> QED  BY <3>1, <3>2, <4>1
    <3>3. CASE n \in 1..m
      <4>1. h[n] = g[n] /\ h[n - 1] = g[n - 1] /\ n # 0
        BY <3>1, <3>3
      <4>2. g[n] = ImportRecord(g[n - 1], file[n])
        BY <2>2, <3>3
      <4> QED  BY <4>1, <4>2
    <3>4. CASE n = 0
      BY <3>1, <3>4, <2>2
    <3> QED  BY <3>2, <3>3, <3>4
  <2>4. LoopOf(r, file, hops, h, m + 1)
    <3>1. h = [n \in 0..(m + 1) |-> h[n]]
      OBVIOUS
    <3> HIDE DEF h
    <3> QED  BY <2>3, <3>1 DEF LoopOf
  <2> QED  BY <2>4
<1>3. Nat \subseteq D
  <2> HIDE DEF D
  <2> QED  BY <1>1, <1>2, Induction
<1> QED  BY <1>3

LEMMA SessionsStep ==
    ASSUME NEW r, NEW file, NEW hops, Len(file) \in Nat
    PROVE  /\ Sessions(r, file, hops)[0] = Session(r, hops)
           /\ \A n \in 1..Len(file) :
                Sessions(r, file, hops)[n] =
                  ImportRecord(Sessions(r, file, hops)[n - 1], file[n])
<1>1. \E g : LoopOf(r, file, hops, g, Len(file))
  BY LoopExists
<1>2. Sessions(r, file, hops) = CHOOSE g : LoopOf(r, file, hops, g, Len(file))
  BY DEF Sessions, LoopOf
<1>3. LoopOf(r, file, hops, Sessions(r, file, hops), Len(file))
  BY <1>1, <1>2
<1> QED  BY <1>3 DEF LoopOf
-----------------------------------------------------------------------------
\* The tables: what is in them, the foreign keys between them, and uq_projects_team_slug.
Project == [team : Teams, slug : Slugs]
Server  == [project : Projects \cup {0}, team : Teams \cup {"none"}]

Tables(r) ==
    /\ r = [team |-> r.team, project |-> r.project, server |-> r.server]
    /\ TeamSlugs(r) \subseteq Teams /\ r.team \in [TeamSlugs(r) -> Names]
    /\ ProjectIds(r) \subseteq Projects /\ r.project \in [ProjectIds(r) -> Project]
    /\ ServerNames(r) \subseteq Servers /\ r.server \in [ServerNames(r) -> Server]

Keys(r) ==
    /\ \A p \in ProjectIds(r) : r.project[p].team \in TeamSlugs(r)
    /\ \A s \in ServerNames(r) : /\ r.server[s].team \in TeamSlugs(r) \cup {"none"}
                                 /\ r.server[s].project \in ProjectIds(r) \cup {0}

Unique(r) == \A p, q \in ProjectIds(r) : r.project[p] = r.project[q] => p = q

Sound(r) == Tables(r) /\ Keys(r) /\ Unique(r)

\* Servers have their project's team, except those of the project m and those in A.
TeamsAgree(r, m, A) == \A s \in ServerNames(r) \ A : LET p == r.server[s].project IN
    p \in {0, m} \/ r.server[s].team = r.project[p].team

\* While the pair of a team and a slug is free, there is an id for a project that has it:
\* there are as many ids as pairs.
LEMMA IdIsNew ==
    ASSUME NEW r, Sound(r), NEW t \in Teams, NEW slug \in Slugs, SlugIsFree(r, 0, t, slug)
    PROVE  NewId(r) \in Projects /\ NewId(r) \notin ProjectIds(r)
<1> SUFFICES ASSUME \A p \in Projects : p \in ProjectIds(r) PROVE FALSE
  BY DEF NewId
<1> DEFINE S == Projects \cup {0}
           T == Teams \X Slugs
           place == [p \in S |-> IF p = 0 THEN <<t, slug>>
                                 ELSE <<r.project[p].team, r.project[p].slug>>]
<1>1. \A p \in Projects : p \in ProjectIds(r) /\ p # 0 /\ r.project[p] \in Project
  BY InventoryAssumption DEF Sound, Tables
<1>2. \A p \in Projects : r.project[p] = [team |-> r.project[p].team, slug |-> r.project[p].slug]
  BY <1>1 DEF Project
<1>3. \A p, q \in Projects : r.project[p] = r.project[q] => p = q
  BY <1>1 DEF Sound, Unique
<1>4. \A p \in Projects : r.project[p] # [team |-> t, slug |-> slug]
  BY <1>1 DEF SlugIsFree
<1>5. place \in [S -> T]
  BY <1>1 DEF Project
<1>6. IsFiniteSet(S) /\ Cardinality(S) = Cardinality(Projects) + 1
  BY <1>1, InventoryAssumption, FS_AddElement
<1>7. IsFiniteSet(T) /\ Cardinality(T) = Cardinality(Teams) * Cardinality(Slugs)
  BY InventoryAssumption, FS_Product
<1>8. Cardinality(T) < Cardinality(S)
  <2>1. /\ Cardinality(Projects) >= Cardinality(T)
        /\ Cardinality(Projects) \in Nat /\ Cardinality(T) \in Nat
    BY <1>7, InventoryAssumption, FS_CardinalityType
  <2> QED  BY <1>6, <2>1
<1>9. PICK x, y \in S : x # y /\ place[x] = place[y]
  <2> HIDE DEF S, T, place
  <2> QED  BY <1>5, <1>6, <1>7, <1>8, FS_PigeonHole
<1>10. CASE x # 0 /\ y # 0
  <2>1. r.project[x].team = r.project[y].team /\ r.project[x].slug = r.project[y].slug
    BY <1>9, <1>10
  <2> QED  BY <1>2, <1>3, <1>9, <1>10, <2>1
<1>11. CASE x = 0 \/ y = 0
  <2>1. PICK z \in Projects : r.project[z].team = t /\ r.project[z].slug = slug
    BY <1>9, <1>11
  <2> QED  BY <1>2, <1>4, <2>1
<1> QED  BY <1>10, <1>11
-----------------------------------------------------------------------------
\* What the operations on the tables change.
LEMMA PutTeamSound ==
    ASSUME NEW r, Sound(r), NEW t \in Teams, NEW n \in Names,
           NEW r1, r1 = [r EXCEPT !.team = With(@, t, n)]
    PROVE  /\ Sound(r1)
           /\ TeamSlugs(r1) = TeamSlugs(r) \cup {t}
           /\ r1.project = r.project /\ r1.server = r.server
           /\ \A m, A : TeamsAgree(r, m, A) => TeamsAgree(r1, m, A)
<1>1. r1 = [team |-> With(r.team, t, n), project |-> r.project, server |-> r.server]
  BY DEF Sound, Tables
<1>2. r1.team = With(r.team, t, n) /\ r1.project = r.project /\ r1.server = r.server
  BY <1>1
<1>3. /\ TeamSlugs(r1) = TeamSlugs(r) \cup {t}
      /\ r1.team = [u \in TeamSlugs(r1) |-> IF u = t THEN n ELSE r.team[u]]
  BY <1>2 DEF With, TeamSlugs
<1>4. r1.team[t] = n /\ \A u \in TeamSlugs(r) : u # t => r1.team[u] = r.team[u]
  BY <1>3
<1>5. ProjectIds(r1) = ProjectIds(r) /\ ServerNames(r1) = ServerNames(r)
  BY <1>2 DEF ProjectIds, ServerNames
<1>6. Tables(r1)
  <2>1. r1.team \in [TeamSlugs(r1) -> Names]
    BY <1>3, <1>4 DEF Sound, Tables
  <2> QED  BY <1>1, <1>2, <1>3, <1>5, <2>1 DEF Sound, Tables
<1>7. Keys(r1) /\ Unique(r1)
  BY <1>2, <1>3, <1>5 DEF Sound, Keys, Unique
<1>8. \A m, A : TeamsAgree(r, m, A) => TeamsAgree(r1, m, A)
  BY <1>2, <1>5 DEF TeamsAgree
<1> QED  BY <1>2, <1>3, <1>4, <1>6, <1>7, <1>8 DEF Sound

\* The team that is found or made.
LEMMA GetTeamSound ==
    ASSUME NEW r, Sound(r), NEW t \in Teams, NEW r1, r1 = GetTeam(r, t)
    PROVE  /\ Sound(r1)
           /\ TeamSlugs(r1) = TeamSlugs(r) \cup {t}
           /\ \A u \in TeamSlugs(r1) : \/ u \in TeamSlugs(r) /\ r1.team[u] = r.team[u]
                                       \/ r1.team[u] = u
           /\ r1.project = r.project /\ r1.server = r.server
           /\ \A m, A : TeamsAgree(r, m, A) => TeamsAgree(r1, m, A)
<1>1. CASE t \in TeamSlugs(r)
  BY <1>1 DEF GetTeam
<1>2. CASE t \notin TeamSlugs(r)
  <2>1. PICK n \in Names : n = t
    BY InventoryAssumption
  <2>2. r1 = [r EXCEPT !.team = With(@, t, n)]
    BY <1>2, <2>1 DEF GetTeam
  <2>3. /\ Sound(r1)
        /\ TeamSlugs(r1) = TeamSlugs(r) \cup {t}
        /\ r1.project = r.project /\ r1.server = r.server
        /\ \A m, A : TeamsAgree(r, m, A) => TeamsAgree(r1, m, A)
    BY <2>2, PutTeamSound
  <2>4. r1.team[t] = n /\ \A u \in TeamSlugs(r) : u # t => r1.team[u] = r.team[u]
    <3>1. r1 = [team |-> With(r.team, t, n), project |-> r.project, server |-> r.server]
      BY <2>2 DEF Sound, Tables
    <3>2. r1.team = With(r.team, t, n)
      BY <3>1
    <3> QED  BY <3>2 DEF With, TeamSlugs
  <2> QED  BY <1>2, <2>1, <2>3, <2>4
<1> QED  BY <1>1, <1>2

LEMMA PutProjectSound ==
    ASSUME NEW r, Sound(r), NEW p \in Projects, NEW t \in TeamSlugs(r), NEW slug \in Slugs,
           SlugIsFree(r, p, t, slug), NEW r1, r1 = PutProject(r, p, t, slug)
    PROVE  /\ Sound(r1)
           /\ r1.team = r.team /\ TeamSlugs(r1) = TeamSlugs(r) /\ r1.server = r.server
           /\ ProjectIds(r1) = ProjectIds(r) \cup {p}
           /\ r1.project[p] = [team |-> t, slug |-> slug]
           /\ \A q \in ProjectIds(r) : q # p => r1.project[q] = r.project[q]
<1> DEFINE new == [team |-> t, slug |-> slug]
<1>1. r1 = [team |-> r.team, project |-> With(r.project, p, new), server |-> r.server]
  BY DEF PutProject, Sound, Tables
<1>2. /\ r1.team = r.team /\ TeamSlugs(r1) = TeamSlugs(r)
      /\ r1.server = r.server /\ r1.project = With(r.project, p, new)
  BY <1>1 DEF TeamSlugs
<1>3. /\ ProjectIds(r1) = ProjectIds(r) \cup {p}
      /\ r1.project = [q \in ProjectIds(r1) |-> IF q = p THEN new ELSE r.project[q]]
  BY <1>2 DEF With, ProjectIds
<1>4. /\ r1.project[p] = new
      /\ \A q \in ProjectIds(r) : q # p => r1.project[q] = r.project[q]
  BY <1>3
<1>5. new \in Project
  BY DEF Sound, Tables, Project
<1>6. Tables(r1)
  <2>1. r1.project \in [ProjectIds(r1) -> Project]
    BY <1>3, <1>4, <1>5 DEF Sound, Tables
  <2>2. ServerNames(r1) = ServerNames(r)
    BY <1>2 DEF ServerNames
  <2> QED  BY <1>1, <1>2, <1>3, <2>1, <2>2 DEF Sound, Tables
<1>7. Keys(r1)
  BY <1>2, <1>3, <1>4 DEF Sound, Keys, ServerNames
<1>8. Unique(r1)
  <2>1. \A q \in ProjectIds(r) : q # p => r1.project[q] # new
    BY <1>4 DEF SlugIsFree
  <2> QED  BY <1>3, <1>4, <2>1 DEF Sound, Unique
<1> QED  BY <1>2, <1>3, <1>4, <1>6, <1>7, <1>8 DEF Sound

\* Servers of other projects are as they were.
LEMMA PutProjectAgrees ==
    ASSUME NEW r, Sound(r), NEW p \in Projects, NEW t \in TeamSlugs(r), NEW slug \in Slugs,
           SlugIsFree(r, p, t, slug), NEW r1, r1 = PutProject(r, p, t, slug),
           NEW m, NEW A, TeamsAgree(r, m, A)
    PROVE  /\ m = 0 => TeamsAgree(r1, p, A)
           /\ p \notin ProjectIds(r) => TeamsAgree(r1, m, A)
<1>1. /\ Sound(r1)
      /\ r1.team = r.team /\ TeamSlugs(r1) = TeamSlugs(r) /\ r1.server = r.server
      /\ ProjectIds(r1) = ProjectIds(r) \cup {p}
      /\ r1.project[p] = [team |-> t, slug |-> slug]
      /\ \A q \in ProjectIds(r) : q # p => r1.project[q] = r.project[q]
  BY PutProjectSound
<1>2. \A s \in ServerNames(r) : r.server[s].project \in ProjectIds(r) \cup {0}
  BY DEF Sound, Keys
<1> QED  BY <1>1, <1>2 DEF TeamsAgree, ServerNames

\* The project that is found or made.
LEMMA GetProjectSound ==
    ASSUME NEW r, Sound(r), NEW t \in TeamSlugs(r), NEW slug \in Slugs,
           NEW p, p = ProjectFor(r, t, slug), NEW r1, r1 = GetProject(r, t, slug)
    PROVE  /\ Sound(r1)
           /\ r1.team = r.team /\ TeamSlugs(r1) = TeamSlugs(r) /\ r1.server = r.server
           /\ p \in ProjectIds(r1) /\ r1.project[p] = [team |-> t, slug |-> slug]
           /\ ProjectIds(r) \subseteq ProjectIds(r1)
           /\ \A q \in ProjectIds(r1) : q # p => q \in ProjectIds(r)
           /\ \A q \in ProjectIds(r) : r1.project[q] = r.project[q]
           /\ ProjectFor(r1, t, slug) = p
           /\ \A m, A : TeamsAgree(r, m, A) => TeamsAgree(r1, m, A)
<1>0. t \in Teams /\ 0 \notin ProjectIds(r)
  BY InventoryAssumption DEF Sound, Tables
<1>1. /\ p \in Projects /\ SlugIsFree(r, p, t, slug)
      /\ p \notin ProjectIds(r) \/ r.project[p] = [team |-> t, slug |-> slug]
  <2>1. CASE SlugIsFree(r, 0, t, slug)
    BY <1>0, <2>1, IdIsNew DEF ProjectFor, SlugIsFree
  <2>2. CASE ~SlugIsFree(r, 0, t, slug)
    <3>1. p \in ProjectIds(r) /\ r.project[p] = [team |-> t, slug |-> slug]
      BY <1>0, <2>2 DEF ProjectFor, SlugIsFree
    <3> QED  BY <3>1 DEF SlugIsFree, Sound, Tables, Unique
  <2> QED  BY <2>1, <2>2
<1>2. r1 = PutProject(r, p, t, slug)
  BY DEF GetProject
<1>3. /\ Sound(r1)
      /\ r1.team = r.team /\ TeamSlugs(r1) = TeamSlugs(r) /\ r1.server = r.server
      /\ ProjectIds(r1) = ProjectIds(r) \cup {p}
      /\ r1.project[p] = [team |-> t, slug |-> slug]
      /\ \A q \in ProjectIds(r) : q # p => r1.project[q] = r.project[q]
  BY <1>1, <1>2, PutProjectSound
<1>4. ProjectFor(r1, t, slug) = p
  <2>1. 0 \notin ProjectIds(r1)
    BY <1>3, InventoryAssumption DEF Sound, Tables
  <2>2. ~SlugIsFree(r1, 0, t, slug)
    BY <1>3, <2>1 DEF SlugIsFree
  <2>3. \A q \in ProjectIds(r1) : r1.project[q] = [team |-> t, slug |-> slug] => q = p
    BY <1>3 DEF Sound, Unique
  <2> QED  BY <1>3, <2>2, <2>3 DEF ProjectFor
<1>5. ASSUME NEW m, NEW A, TeamsAgree(r, m, A) PROVE TeamsAgree(r1, m, A)
  <2>1. CASE p \notin ProjectIds(r)
    BY <1>1, <1>2, <1>5, <2>1, PutProjectAgrees
  <2>2. CASE p \in ProjectIds(r)
    <3>1. \A q \in ProjectIds(r) : r1.project[q] = r.project[q]
      BY <1>1, <1>3, <2>2
    <3>2. \A s \in ServerNames(r) : r.server[s].project \in ProjectIds(r) \cup {0}
      BY DEF Sound, Keys
    <3> QED  BY <1>3, <1>5, <3>1, <3>2 DEF TeamsAgree, ServerNames
  <2> QED  BY <2>1, <2>2
<1>6. \A q \in ProjectIds(r) : r1.project[q] = r.project[q]
  BY <1>1, <1>3
<1> QED  BY <1>3, <1>4, <1>5, <1>6

LEMMA PutServerSound ==
    ASSUME NEW r, Sound(r), NEW s \in Servers, NEW p \in ProjectIds(r) \cup {0},
           NEW t \in TeamSlugs(r) \cup {"none"}, NEW r1, r1 = PutServer(r, s, p, t)
    PROVE  /\ Sound(r1)
           /\ r1.team = r.team /\ TeamSlugs(r1) = TeamSlugs(r) /\ r1.project = r.project
           /\ ServerNames(r1) = ServerNames(r) \cup {s}
           /\ r1.server[s] = [project |-> p, team |-> t]
           /\ \A u \in ServerNames(r) : u # s => r1.server[u] = r.server[u]
<1> DEFINE new == [project |-> p, team |-> t]
<1>1. r1 = [team |-> r.team, project |-> r.project, server |-> With(r.server, s, new)]
  BY DEF PutServer, Sound, Tables
<1>2. /\ r1.team = r.team /\ TeamSlugs(r1) = TeamSlugs(r)
      /\ r1.project = r.project /\ r1.server = With(r.server, s, new)
  BY <1>1 DEF TeamSlugs
<1>3. /\ ServerNames(r1) = ServerNames(r) \cup {s}
      /\ r1.server = [u \in ServerNames(r1) |-> IF u = s THEN new ELSE r.server[u]]
  BY <1>2 DEF With, ServerNames
<1>4. /\ r1.server[s] = new
      /\ \A u \in ServerNames(r) : u # s => r1.server[u] = r.server[u]
  BY <1>3
<1>5. new \in Server
  BY DEF Sound, Tables, Server
<1>6. ProjectIds(r1) = ProjectIds(r)
  BY <1>2 DEF ProjectIds
<1>7. Tables(r1)
  <2>1. r1.server \in [ServerNames(r1) -> Server]
    BY <1>3, <1>4, <1>5 DEF Sound, Tables
  <2> QED  BY <1>1, <1>2, <1>3, <1>6, <2>1 DEF Sound, Tables
<1>8. Keys(r1)
  BY <1>2, <1>3, <1>4, <1>6 DEF Sound, Keys
<1>9. Unique(r1)
  BY <1>2, <1>6 DEF Sound, Unique
<1> QED  BY <1>2, <1>3, <1>4, <1>7, <1>8, <1>9 DEF Sound

LEMMA PutServerAgrees ==
    ASSUME NEW r, Sound(r), NEW s \in Servers, NEW p \in ProjectIds(r) \cup {0},
           NEW t \in TeamSlugs(r) \cup {"none"}, NEW r1, r1 = PutServer(r, s, p, t),
           NEW m, NEW A, TeamsAgree(r, m, A), NEW B, A \subseteq B \cup {s},
           s \in B \/ p \in {0, m} \/ t = r.project[p].team
    PROVE  TeamsAgree(r1, m, B)
<1>1. /\ r1.project = r.project
      /\ ServerNames(r1) = ServerNames(r) \cup {s}
      /\ r1.server[s] = [project |-> p, team |-> t]
      /\ \A u \in ServerNames(r) : u # s => r1.server[u] = r.server[u]
  BY PutServerSound
<1> QED  BY <1>1 DEF TeamsAgree
-----------------------------------------------------------------------------
\* The rows that the seed leaves, and that it finds complete.
Home == [team |-> "platform", slug |-> "platform"]

SeedIsThere(r) ==
    /\ "platform" \in TeamSlugs(r)
    /\ \E p \in ProjectIds(r) : r.project[p] = Home
    /\ "lifeorient" \in ServerNames(r)
    /\ r.server["lifeorient"].project # 0 /\ r.server["lifeorient"].team # "none"

\* The start of the service.
LEMMA SeedSound ==
    ASSUME NEW r, Sound(r), NEW m, NEW A, TeamsAgree(r, m, A), NEW r2, r2 = Seeded(r)
    PROVE  /\ Sound(r2)
           /\ TeamsAgree(r2, m, A \cup {s \in {"lifeorient"} : SeedParts(r)})
           /\ TeamSlugs(r) \cup {"platform"} \subseteq TeamSlugs(r2)
           /\ ProjectIds(r) \subseteq ProjectIds(r2)
           /\ ServerNames(r) \cup {"lifeorient"} \subseteq ServerNames(r2)
           /\ SeedIsThere(r2)
<1> DEFINE B == A \cup {s \in {"lifeorient"} : SeedParts(r)}
<1>0. "platform" \in Teams /\ "platform" \in Slugs /\ "lifeorient" \in Servers
  BY InventoryAssumption
<1>1. PICK r0 : r0 = GetTeam(r, "platform")
  OBVIOUS
<1>2. /\ Sound(r0) /\ TeamsAgree(r0, m, A)
      /\ TeamSlugs(r0) = TeamSlugs(r) \cup {"platform"}
      /\ r0.project = r.project /\ r0.server = r.server
  BY <1>0, <1>1, GetTeamSound
<1>3. PICK r1, p : r1 = GetProject(r0, "platform", "platform")
                   /\ p = ProjectFor(r0, "platform", "platform")
  OBVIOUS
<1>4. /\ Sound(r1)
      /\ TeamSlugs(r1) = TeamSlugs(r0) /\ r1.server = r0.server
      /\ p \in ProjectIds(r1) /\ r1.project[p] = Home
      /\ ProjectIds(r0) \subseteq ProjectIds(r1)
      /\ ProjectFor(r1, "platform", "platform") = p
      /\ TeamsAgree(r1, m, A)
  BY <1>0, <1>2, <1>3, GetProjectSound DEF Home
<1>5. ServerNames(r1) = ServerNames(r) /\ r1.server = r.server
  BY <1>2, <1>4 DEF ServerNames
<1>6. PICK q \in ProjectIds(r1), t \in TeamSlugs(r1) :
        /\ r2 = PutServer(r1, "lifeorient", q, t)
        /\ "lifeorient" \in B \/ q \in {0, m} \/ t = r1.project[q].team
  <2>1. CASE "lifeorient" \notin ServerNames(r1)
    <3>1. r2 = PutServer(r1, "lifeorient", p, "platform")
      BY <1>1, <1>3, <1>4, <2>1 DEF Seeded
    <3> QED  BY <3>1, <1>2, <1>4 DEF Home
  <2>2. CASE "lifeorient" \in ServerNames(r1)
    <3> DEFINE old == r1.server["lifeorient"]
               q == IF old.project = 0 THEN p ELSE old.project
               t == IF old.team = "none" THEN "platform" ELSE old.team
    <3>1. r2 = PutServer(r1, "lifeorient", q, t)
      BY <1>1, <1>3, <1>4, <2>2 DEF Seeded
    <3>2. old.project \in ProjectIds(r1) \cup {0} /\ old.team \in TeamSlugs(r1) \cup {"none"}
      BY <1>4, <2>2 DEF Sound, Keys
    <3>3. q \in ProjectIds(r1) /\ t \in TeamSlugs(r1)
      BY <1>2, <1>4, <3>2
    <3>4. "lifeorient" \in B \/ q \in {0, m} \/ t = r1.project[q].team
      <4>1. CASE old.project = 0
        <5>1. old.team \notin {"none", "platform"} => SeedParts(r)
          BY <1>5, <2>2, <4>1 DEF SeedParts
        <5> QED  BY <1>4, <4>1, <5>1 DEF Home
      <4>2. CASE old.project # 0
        <5>1. "lifeorient" \in A \/ old.project \in {0, m} \/ old.team = r1.project[old.project].team
          BY <1>4, <2>2 DEF TeamsAgree
        <5>2. r1.project[old.project].team \in Teams
          BY <1>4, <3>2, <4>2 DEF Sound, Tables, Project
        <5> QED  BY <4>2, <5>1, <5>2, InventoryAssumption
      <4> QED  BY <4>1, <4>2
    <3> QED  BY <3>1, <3>3, <3>4
  <2> QED  BY <2>1, <2>2
<1>7. PICK s \in Servers, x \in ProjectIds(r1) \cup {0}, u \in TeamSlugs(r1) \cup {"none"} :
        s = "lifeorient" /\ x = q /\ u = t
  BY <1>0
<1>8. r2 = PutServer(r1, s, x, u) /\ A \subseteq B \cup {s}
  BY <1>6, <1>7
<1>9. /\ Sound(r2)
      /\ TeamSlugs(r2) = TeamSlugs(r1) /\ r2.project = r1.project
      /\ ServerNames(r2) = ServerNames(r1) \cup {s}
      /\ r2.server[s] = [project |-> x, team |-> u]
  BY <1>4, <1>8, PutServerSound
<1>10. TeamsAgree(r2, m, B)
  <2> HIDE DEF B
  <2> QED  BY <1>4, <1>6, <1>7, <1>8, PutServerAgrees
<1>11. q # 0 /\ t # "none"
  BY <1>4, InventoryAssumption DEF Sound, Tables
<1>12. ProjectIds(r2) = ProjectIds(r1) /\ ProjectIds(r0) = ProjectIds(r)
  BY <1>2, <1>9 DEF ProjectIds
<1>13. SeedIsThere(r2)
  BY <1>2, <1>4, <1>7, <1>9, <1>11, <1>12 DEF SeedIsThere
<1> QED  BY <1>2, <1>4, <1>5, <1>7, <1>9, <1>10, <1>12, <1>13

Host == [alias : Servers, team : Teams, slug : Slugs, hop : STRING]

\* The rows have what the import makes of a host.
Placed(r, host) ==
    /\ host.team \in TeamSlugs(r) /\ host.alias \in ServerNames(r)
    /\ r.server[host.alias].team = host.team
    /\ r.server[host.alias].project \in ProjectIds(r)
    /\ r.project[r.server[host.alias].project] = [team |-> host.team, slug |-> host.slug]

\* What one record of the import leaves of the rows.
RecordLeaves(r, host, r2) ==
    /\ TeamSlugs(r) \subseteq TeamSlugs(r2)
    /\ \A p \in ProjectIds(r) : p \in ProjectIds(r2) /\ r2.project[p] = r.project[p]
    /\ \A s \in ServerNames(r) : /\ s \in ServerNames(r2)
                                 /\ s # host.alias => r2.server[s] = r.server[s]
    /\ Placed(r2, host)

\* The teams that have come are named by their slugs.
NamesKept(r, r2) == \A u \in TeamSlugs(r2) : \/ u \in TeamSlugs(r) /\ r2.team[u] = r.team[u]
                                             \/ r2.team[u] = u

\* One record of the import.
LEMMA RecordSound ==
    ASSUME NEW acc, Sound(acc.rows), NEW host \in Host, NEW next, next = ImportRecord(acc, host)
    PROVE  /\ Sound(next.rows) /\ RecordLeaves(acc.rows, host, next.rows)
           /\ NamesKept(acc.rows, next.rows)
           /\ \A m, A : TeamsAgree(acc.rows, m, A) => TeamsAgree(next.rows, m, A \ {host.alias})
           /\ next.pending \subseteq acc.pending \cup {host.alias}
           /\ next.refused => \/ acc.refused \/ host.alias \in acc.pending
                              \/ NameIsTaken(acc.rows, host.team)
<1>0. host.team \in Teams /\ host.slug \in Slugs /\ host.alias \in Servers
  BY DEF Host
<1>1. PICK r, r0 : r = acc.rows /\ r0 = GetTeam(r, host.team)
  OBVIOUS
<1>2. /\ Sound(r0) /\ TeamSlugs(r0) = TeamSlugs(r) \cup {host.team}
      /\ NamesKept(r, r0)
      /\ r0.project = r.project /\ r0.server = r.server
      /\ \A m, A : TeamsAgree(r, m, A) => TeamsAgree(r0, m, A)
  BY <1>0, <1>1, GetTeamSound DEF NamesKept
<1>3. PICK r1, p : r1 = GetProject(r0, host.team, host.slug)
                   /\ p = ProjectFor(r0, host.team, host.slug)
  OBVIOUS
<1>4. /\ Sound(r1)
      /\ r1.team = r0.team /\ TeamSlugs(r1) = TeamSlugs(r0) /\ r1.server = r0.server
      /\ p \in ProjectIds(r1) /\ r1.project[p] = [team |-> host.team, slug |-> host.slug]
      /\ ProjectIds(r0) \subseteq ProjectIds(r1)
      /\ \A q \in ProjectIds(r0) : r1.project[q] = r0.project[q]
      /\ ProjectFor(r1, host.team, host.slug) = p
      /\ \A m, A : TeamsAgree(r0, m, A) => TeamsAgree(r1, m, A)
  BY <1>0, <1>2, <1>3, GetProjectSound
<1>5. /\ next.rows = PutServer(r1, host.alias, p, host.team)
      /\ next.pending \subseteq acc.pending \cup {host.alias}
      /\ next.refused => \/ acc.refused \/ host.alias \in acc.pending
                         \/ NameIsTaken(r, host.team)
  BY <1>1, <1>3, <1>4 DEF ImportRecord
<1>6. PICK r2 : r2 = next.rows
  OBVIOUS
<1>7. PICK s \in Servers, q \in ProjectIds(r1) \cup {0}, t \in TeamSlugs(r1) \cup {"none"} :
        s = host.alias /\ q = p /\ t = host.team
  BY <1>0, <1>2, <1>4
<1>8. r2 = PutServer(r1, s, q, t)
  BY <1>5, <1>6, <1>7
<1>9. /\ Sound(r2)
      /\ r2.team = r1.team /\ TeamSlugs(r2) = TeamSlugs(r1) /\ r2.project = r1.project
      /\ ServerNames(r2) = ServerNames(r1) \cup {s}
      /\ r2.server[s] = [project |-> q, team |-> t]
      /\ \A u \in ServerNames(r1) : u # s => r2.server[u] = r1.server[u]
  BY <1>4, <1>8, PutServerSound
<1>10. ASSUME NEW m, NEW A, TeamsAgree(r1, m, A) PROVE TeamsAgree(r2, m, A \ {s})
  <2>1. t = r1.project[q].team
    BY <1>4, <1>7
  <2>2. PICK B : B = A \ {s}
    OBVIOUS
  <2>3. A \subseteq B \cup {s}
    BY <2>2
  <2>4. TeamsAgree(r2, m, B)
    BY <1>4, <1>8, <1>10, <2>1, <2>3, PutServerAgrees
  <2> QED  BY <2>2, <2>4
<1>11. ProjectIds(r0) = ProjectIds(r) /\ ProjectIds(r2) = ProjectIds(r1)
       /\ ServerNames(r1) = ServerNames(r)
  BY <1>2, <1>4, <1>9 DEF ProjectIds, ServerNames
<1>12. RecordLeaves(r, host, r2)
  <2>1. /\ TeamSlugs(r) \subseteq TeamSlugs(r2)
        /\ \A x \in ProjectIds(r) : x \in ProjectIds(r2) /\ r2.project[x] = r.project[x]
    BY <1>2, <1>4, <1>9, <1>11
  <2>2. \A u \in ServerNames(r) : /\ u \in ServerNames(r2)
                                  /\ u # host.alias => r2.server[u] = r.server[u]
    BY <1>2, <1>4, <1>7, <1>9, <1>11
  <2>3. Placed(r2, host)
    BY <1>2, <1>4, <1>7, <1>9, <1>11 DEF Placed
  <2> QED  BY <2>1, <2>2, <2>3 DEF RecordLeaves
<1>13. NamesKept(r, r2)
  BY <1>2, <1>4, <1>9 DEF NamesKept
<1>14. ASSUME NEW m, NEW A, TeamsAgree(r, m, A) PROVE TeamsAgree(r2, m, A \ {host.alias})
  BY <1>2, <1>4, <1>7, <1>10, <1>14
<1> QED  BY <1>1, <1>5, <1>6, <1>9, <1>12, <1>13, <1>14

\* The loop: what is pending was listed, and the database refuses a row only of a host
\* that is listed twice or of a team whose name is taken before the import.
Aliases(file, n) == {file[i].alias : i \in 1..n}

Conflict(r, file, n) == \/ \E i, j \in 1..n : i # j /\ file[i].alias = file[j].alias
                        \/ \E i \in 1..n : NameIsTaken(r, file[i].team)

LoopInv(r, file, acc, n) ==
    /\ Sound(acc.rows)
    /\ TeamSlugs(r) \subseteq TeamSlugs(acc.rows) /\ NamesKept(r, acc.rows)
    /\ \A m, A : TeamsAgree(r, m, A) => TeamsAgree(acc.rows, m, A \ Aliases(file, n))
    /\ acc.pending \subseteq Aliases(file, n)
    /\ acc.refused => Conflict(r, file, n)

\* A name that is taken in the middle of the import was taken before.
LEMMA TakenBefore ==
    ASSUME NEW r, NEW a, TeamSlugs(r) \subseteq TeamSlugs(a), NamesKept(r, a),
           NEW t, NameIsTaken(a, t)
    PROVE  NameIsTaken(r, t)
<1>1. t \notin TeamSlugs(a)
  BY DEF NameIsTaken
<1>2. PICK u \in TeamSlugs(a) \ {t} : a.team[u] = t
  BY DEF NameIsTaken, NameIsFree
<1>3. u \in TeamSlugs(r) /\ r.team[u] = t
  BY <1>2 DEF NamesKept
<1> QED  BY <1>1, <1>2, <1>3 DEF NameIsTaken, NameIsFree

LEMMA SessionsSound ==
    ASSUME NEW r, Sound(r), NEW file \in Seq(Host), NEW hops
    PROVE  \A n \in 0..Len(file) : LoopInv(r, file, Sessions(r, file, hops)[n], n)
<1> DEFINE after == Sessions(r, file, hops)
           D == {n \in Nat : n <= Len(file) => LoopInv(r, file, after[n], n)}
<1>0. Len(file) \in Nat /\ \A n \in 1..Len(file) : file[n] \in Host
  BY LenProperties, ElementOfSeq
<1>1. /\ after[0] = Session(r, hops)
      /\ \A n \in 1..Len(file) : after[n] = ImportRecord(after[n - 1], file[n])
  BY <1>0, SessionsStep
<1> HIDE DEF after
<1>2. 0 \in D
  <2>1. /\ after[0].rows = r /\ after[0].pending = {} /\ after[0].refused = FALSE
    BY <1>1 DEF Session
  <2>2. Aliases(file, 0) = {} /\ \A A : A \ {} = A
    BY DEF Aliases
  <2>3. LoopInv(r, file, after[0], 0)
    BY <2>1, <2>2 DEF LoopInv, NamesKept
  <2> QED  BY <2>3
<1>3. ASSUME NEW n \in Nat, n \in D PROVE n + 1 \in D
  <2> SUFFICES ASSUME n + 1 <= Len(file) PROVE LoopInv(r, file, after[n + 1], n + 1)
    OBVIOUS
  <2>1. LoopInv(r, file, after[n], n)
    BY <1>0, <1>3
  <2>2. file[n + 1] \in Host /\ after[n + 1] = ImportRecord(after[n], file[n + 1])
    BY <1>0, <1>1
  <2>3. PICK host \in Host : host = file[n + 1]
    BY <2>2
  <2>4. PICK acc, next : acc = after[n] /\ next = after[n + 1]
    OBVIOUS
  <2>5. Sound(acc.rows) /\ next = ImportRecord(acc, host)
    BY <2>1, <2>2, <2>3, <2>4 DEF LoopInv
  <2>6. /\ Sound(next.rows) /\ RecordLeaves(acc.rows, host, next.rows)
        /\ NamesKept(acc.rows, next.rows)
        /\ \A m, A : TeamsAgree(acc.rows, m, A) => TeamsAgree(next.rows, m, A \ {host.alias})
        /\ next.pending \subseteq acc.pending \cup {host.alias}
        /\ next.refused => \/ acc.refused \/ host.alias \in acc.pending
                           \/ NameIsTaken(acc.rows, host.team)
    BY ONLY <2>5, RecordSound
  <2>7. /\ TeamSlugs(r) \subseteq TeamSlugs(acc.rows) /\ NamesKept(r, acc.rows)
        /\ acc.pending \subseteq Aliases(file, n)
        /\ acc.refused => Conflict(r, file, n)
        /\ \A m, A : TeamsAgree(r, m, A) => TeamsAgree(acc.rows, m, A \ Aliases(file, n))
    BY <2>1, <2>4 DEF LoopInv
  <2>8. Aliases(file, n + 1) = Aliases(file, n) \cup {host.alias}
    <3>1. 1..(n + 1) = 1..n \cup {n + 1}
      OBVIOUS
    <3> QED  BY <2>3, <3>1 DEF Aliases
  <2>9. ASSUME NEW m, NEW A, TeamsAgree(r, m, A)
        PROVE  TeamsAgree(next.rows, m, A \ Aliases(file, n + 1))
    <3>1. PICK B : B = A \ Aliases(file, n)
      OBVIOUS
    <3>2. TeamsAgree(next.rows, m, B \ {host.alias})
      BY <2>6, <2>7, <2>9, <3>1
    <3>3. A \ Aliases(file, n + 1) = B \ {host.alias}
      BY <2>8, <3>1
    <3> QED  BY <3>2, <3>3
  <2>10. next.refused => Conflict(r, file, n + 1)
    <3>1. CASE acc.refused
      BY <2>7, <3>1 DEF Conflict
    <3>2. CASE host.alias \in acc.pending
      <4>1. PICK i \in 1..n : file[i].alias = host.alias
        BY <2>7, <3>2 DEF Aliases
      <4>2. i \in 1..(n + 1) /\ n + 1 \in 1..(n + 1) /\ i # n + 1
        OBVIOUS
      <4> QED  BY <2>3, <4>1, <4>2 DEF Conflict
    <3>3. CASE NameIsTaken(acc.rows, host.team)
      <4>1. NameIsTaken(r, host.team)
        BY <2>7, <3>3, TakenBefore
      <4>2. n + 1 \in 1..(n + 1)
        OBVIOUS
      <4> QED  BY <2>3, <4>1, <4>2 DEF Conflict
    <3> QED  BY <2>6, <3>1, <3>2, <3>3
  <2>11. TeamSlugs(r) \subseteq TeamSlugs(next.rows) /\ NamesKept(r, next.rows)
    BY <2>6, <2>7 DEF RecordLeaves, NamesKept
  <2>12. next.pending \subseteq Aliases(file, n + 1)
    BY <2>6, <2>7, <2>8
  <2> QED  BY <2>4, <2>6, <2>9, <2>10, <2>11, <2>12 DEF LoopInv
<1>4. Nat \subseteq D
  <2> HIDE DEF D
  <2> QED  BY <1>2, <1>3, Induction
<1> QED  BY <1>0, <1>4 DEF after

\* Which rows the clean-up leaves.
LEMMA CleanUpLeaves ==
    ASSUME NEW r, Sound(r), NEW r2, r2 = CleanedUp(r)
    PROVE  /\ r2 = [team |-> r2.team, project |-> r2.project, server |-> r.server]
           /\ r2.project = [p \in ProjectIds(r2) |-> r.project[p]]
           /\ \A p : p \in ProjectIds(r2) <=>
                /\ p \in ProjectIds(r)
                /\ r.project[p].team \in Protected \/ \E s \in ServerNames(r) : r.server[s].project = p
           /\ r2.team = [t \in TeamSlugs(r2) |-> r.team[t]]
           /\ \A t : t \in TeamSlugs(r2) <=>
                t \in TeamSlugs(r) /\ (t \in Protected \cup manned \/ Used(r2, t))
<1>1. PICK r1 : r1 = ProjectsDropped(r)
  OBVIOUS
<1> DEFINE Empty == {p \in ProjectIds(r) : r.project[p].team \notin Protected /\ ServersOf(r, p) = {}}
<1>2. r1 = [team |-> r.team, project |-> Without(r.project, Empty), server |-> r.server]
  BY <1>1 DEF ProjectsDropped, Sound, Tables
<1>3. /\ r1.team = r.team /\ TeamSlugs(r1) = TeamSlugs(r) /\ r1.server = r.server
      /\ ProjectIds(r1) = ProjectIds(r) \ Empty
      /\ r1.project = [p \in ProjectIds(r1) |-> r.project[p]]
  BY <1>2 DEF Without, ProjectIds, TeamSlugs
<1>4. \A p : p \in Empty <=>
        /\ p \in ProjectIds(r) /\ r.project[p].team \notin Protected
        /\ \A s \in ServerNames(r) : r.server[s].project # p
  BY DEF ServersOf
<1> HIDE DEF Empty
<1> DEFINE Idle == {t \in TeamSlugs(r1) \ (Protected \cup manned) : ~Used(r1, t)}
<1>5. r2 = TeamsDropped(r1)
  BY <1>1 DEF CleanedUp
<1>6. r2 = [team |-> Without(r1.team, Idle), project |-> r1.project, server |-> r1.server]
  BY <1>2, <1>5 DEF TeamsDropped
<1>7. /\ r2.team = Without(r1.team, Idle) /\ r2.project = r1.project /\ r2.server = r1.server
  BY <1>6
<1>8. /\ ProjectIds(r2) = ProjectIds(r1) /\ ServerNames(r2) = ServerNames(r1)
      /\ TeamSlugs(r2) = TeamSlugs(r1) \ Idle
      /\ r2.team = [t \in TeamSlugs(r2) |-> r1.team[t]]
  BY <1>7 DEF ProjectIds, ServerNames, TeamSlugs, Without
<1>9. \A t : Used(r2, t) <=> Used(r1, t)
  BY <1>7, <1>8 DEF Used
<1>10. \A t : t \in TeamSlugs(r2) <=>
         t \in TeamSlugs(r) /\ (t \in Protected \cup manned \/ Used(r2, t))
  BY <1>3, <1>8, <1>9
<1> HIDE DEF Idle
<1>11. \A p : p \in ProjectIds(r2) <=>
         /\ p \in ProjectIds(r)
         /\ r.project[p].team \in Protected \/ \E s \in ServerNames(r) : r.server[s].project = p
  BY <1>3, <1>4, <1>8
<1>12. r2 = [team |-> r2.team, project |-> r2.project, server |-> r.server]
  BY <1>3, <1>6, <1>7
<1> QED  BY <1>3, <1>7, <1>8, <1>10, <1>11, <1>12

\* The clean-up deletes nothing that something else refers to.
LEMMA CleanUpSound ==
    ASSUME NEW r, Sound(r), manned \subseteq TeamSlugs(r), NEW r2, r2 = CleanedUp(r)
    PROVE  /\ Sound(r2) /\ manned \subseteq TeamSlugs(r2)
           /\ \A m, A : TeamsAgree(r, m, A) => TeamsAgree(r2, m, A)
<1>1. /\ r2 = [team |-> r2.team, project |-> r2.project, server |-> r.server]
      /\ r2.project = [p \in ProjectIds(r2) |-> r.project[p]]
      /\ \A p : p \in ProjectIds(r2) <=>
           /\ p \in ProjectIds(r)
           /\ r.project[p].team \in Protected \/ \E s \in ServerNames(r) : r.server[s].project = p
      /\ r2.team = [t \in TeamSlugs(r2) |-> r.team[t]]
      /\ \A t : t \in TeamSlugs(r2) <=>
           t \in TeamSlugs(r) /\ (t \in Protected \cup manned \/ Used(r2, t))
  BY CleanUpLeaves
<1>2. r2.server = r.server /\ ServerNames(r2) = ServerNames(r)
  <2>1. r2.server = r.server
    BY <1>1
  <2> QED  BY <2>1 DEF ServerNames
<1>3. \A p \in ProjectIds(r2) : p \in ProjectIds(r) /\ r2.project[p] = r.project[p]
  BY <1>1
<1>4. \A s \in ServerNames(r) : r.server[s].project \in ProjectIds(r2) \cup {0}
  BY <1>1 DEF Sound, Keys
<1>5. Tables(r2)
  <2>1. r2.project \in [ProjectIds(r2) -> Project] /\ ProjectIds(r2) \subseteq Projects
    BY <1>1, <1>3 DEF Sound, Tables
  <2>2. r2.team \in [TeamSlugs(r2) -> Names] /\ TeamSlugs(r2) \subseteq Teams
    BY <1>1 DEF Sound, Tables
  <2> QED  BY <1>1, <1>2, <2>1, <2>2 DEF Sound, Tables
<1>6. Keys(r2)
  <2>1. ASSUME NEW p \in ProjectIds(r2) PROVE r2.project[p].team \in TeamSlugs(r2)
    <3>1. r2.project[p].team \in TeamSlugs(r)
      BY <1>3 DEF Sound, Keys
    <3> QED  BY <1>1, <3>1 DEF Used
  <2>2. ASSUME NEW s \in ServerNames(r2) PROVE r2.server[s].team \in TeamSlugs(r2) \cup {"none"}
    <3>1. r2.server[s].team \in TeamSlugs(r) \cup {"none"}
      BY <1>2 DEF Sound, Keys
    <3> QED  BY <1>1, <3>1 DEF Used
  <2> QED  BY <1>2, <1>4, <2>1, <2>2 DEF Keys
<1>7. Unique(r2)
  BY <1>3 DEF Sound, Unique
<1>8. \A m, A : TeamsAgree(r, m, A) => TeamsAgree(r2, m, A)
  BY <1>2, <1>3, <1>4 DEF TeamsAgree
<1> QED  BY <1>1, <1>5, <1>6, <1>7, <1>8 DEF Sound

\* The import as a whole.
LEMMA ImportSound ==
    ASSUME NEW r, Sound(r), manned \subseteq TeamSlugs(r), NEW file \in HostFiles, NEW hops,
           NEW import, import = Imported(r, file, hops)
    PROVE  /\ Sound(import.rows) /\ manned \subseteq TeamSlugs(import.rows)
           /\ \A m, A : TeamsAgree(r, m, A) =>
                TeamsAgree(import.rows, m, A \ {file[i].alias : i \in DOMAIN file})
           /\ ~import.ok => Conflict(r, file, Len(file))
<1>1. file \in Seq(Host) /\ Len(file) \in Nat /\ DOMAIN file = 1..Len(file)
  BY InventoryAssumption, LenProperties DEF Host
<1>2. PICK acc : acc = Sessions(r, file, hops)[Len(file)]
  OBVIOUS
<1>3. LoopInv(r, file, acc, Len(file))
  BY <1>1, <1>2, SessionsSound
<1>4. PICK r1 : r1 = IF file = <<>> THEN r ELSE CleanedUp(acc.rows)
  OBVIOUS
<1>5. import = [rows |-> r1, ok |-> ~acc.refused /\ ReferencesHold(r1)]
  BY <1>2, <1>4 DEF Imported
<1>6. /\ Sound(r1) /\ manned \subseteq TeamSlugs(r1)
      /\ \A m, A : TeamsAgree(r, m, A) => TeamsAgree(r1, m, A \ Aliases(file, Len(file)))
  <2>1. CASE file = <<>>
    <3>1. Aliases(file, Len(file)) = {} /\ \A A : A \ {} = A
      BY <2>1 DEF Aliases
    <3> QED  BY <1>4, <2>1, <3>1
  <2>2. CASE file # <<>>
    <3>1. PICK r0 : r0 = acc.rows
      OBVIOUS
    <3>2. /\ Sound(r0) /\ manned \subseteq TeamSlugs(r0)
          /\ \A m, A : TeamsAgree(r, m, A) => TeamsAgree(r0, m, A \ Aliases(file, Len(file)))
      BY <1>3, <3>1 DEF LoopInv
    <3>3. r1 = CleanedUp(r0)
      BY <1>4, <2>2, <3>1
    <3> QED  BY <3>2, <3>3, CleanUpSound
  <2> QED  BY <2>1, <2>2
<1>7. ReferencesHold(r1)
  BY <1>6 DEF Sound, Keys, ReferencesHold
<1>8. acc.refused => Conflict(r, file, Len(file))
  BY <1>3 DEF LoopInv
<1>9. import.rows = r1 /\ import.ok = (~acc.refused /\ ReferencesHold(r1))
  BY ONLY <1>5
<1>10. ~import.ok => Conflict(r, file, Len(file))
  BY ONLY <1>7, <1>8, <1>9
<1>11. Aliases(file, Len(file)) = {file[i].alias : i \in DOMAIN file}
  BY <1>1 DEF Aliases
<1> QED  BY <1>4, <1>6, <1>9, <1>10, <1>11
-----------------------------------------------------------------------------
\* A function that is given the value it has.
LEMMA WithItsOwn ==
    ASSUME NEW S, NEW V, NEW f \in [S -> V], NEW x \in S
    PROVE  With(f, x, f[x]) = f
BY DEF With

\* A project that is there is found.
LEMMA FindsProject ==
    ASSUME NEW r, Sound(r), NEW p \in ProjectIds(r), NEW t, NEW slug,
           r.project[p] = [team |-> t, slug |-> slug]
    PROVE  ProjectFor(r, t, slug) = p /\ GetProject(r, t, slug) = r
<1>1. ProjectFor(r, t, slug) = p
  <2>1. 0 \notin ProjectIds(r)
    BY InventoryAssumption DEF Sound, Tables
  <2>2. ~SlugIsFree(r, 0, t, slug)
    BY <2>1 DEF SlugIsFree
  <2>3. \A q \in ProjectIds(r) : r.project[q] = [team |-> t, slug |-> slug] => q = p
    BY DEF Sound, Unique
  <2> QED  BY <2>2, <2>3 DEF ProjectFor
<1>2. With(r.project, p, [team |-> t, slug |-> slug]) = r.project
  <2>1. With(r.project, p, r.project[p]) = r.project
    BY WithItsOwn DEF Sound, Tables
  <2> QED  BY <2>1
<1>3. PutProject(r, p, t, slug) = r
  BY <1>2 DEF PutProject, Sound, Tables
<1> QED  BY <1>1, <1>3 DEF GetProject

\* A server that is given what it has.
LEMMA LeavesServer ==
    ASSUME NEW r, Sound(r), NEW s \in ServerNames(r),
           NEW p, p = r.server[s].project, NEW t, t = r.server[s].team
    PROVE  PutServer(r, s, p, t) = r
<1>1. r.server[s] \in Server /\ r.server \in [ServerNames(r) -> Server]
  BY DEF Sound, Tables
<1>2. r.server[s] = [project |-> p, team |-> t]
  BY <1>1 DEF Server
<1>3. With(r.server, s, [project |-> p, team |-> t]) = r.server
  <2>1. With(r.server, s, r.server[s]) = r.server
    BY <1>1, WithItsOwn
  <2> QED  BY <1>2, <2>1
<1>4. r = [team |-> r.team, project |-> r.project, server |-> r.server]
  BY DEF Sound, Tables
<1> QED  BY <1>3, <1>4 DEF PutServer

LEMMA SeedsNothing ==
    ASSUME NEW r, Sound(r), SeedIsThere(r)
    PROVE  Seeded(r) = r
<1>1. GetTeam(r, "platform") = r
  BY DEF GetTeam, SeedIsThere
<1>2. PICK p \in ProjectIds(r) : r.project[p] = Home
  BY DEF SeedIsThere
<1>3. GetProject(r, "platform", "platform") = r
  BY <1>2, FindsProject DEF Home
<1>4. /\ "lifeorient" \in ServerNames(r)
      /\ r.server["lifeorient"].project # 0 /\ r.server["lifeorient"].team # "none"
  BY DEF SeedIsThere
<1>5. PutServer(r, "lifeorient", r.server["lifeorient"].project, r.server["lifeorient"].team) = r
  BY <1>4, LeavesServer
<1> QED  BY <1>1, <1>3, <1>4, <1>5 DEF Seeded

\* The session after n records has their hosts in place: a host that is listed again is
\* put where it was.
FirstHas(a, file, n) == SeedIsThere(a) /\ \A i \in 1..n : Placed(a, file[i])

LEMMA FirstStep ==
    ASSUME NEW a, Sound(a), NEW file \in HostFiles, NEW n \in Nat, n + 1 \in DOMAIN file,
           1..n \subseteq DOMAIN file, FirstHas(a, file, n),
           NEW a2, Sound(a2), RecordLeaves(a, file[n + 1], a2)
    PROVE  FirstHas(a2, file, n + 1)
<1>1. SeedIsThere(a2)
  <2>1. a2.server["lifeorient"].project # 0 /\ a2.server["lifeorient"].team # "none"
    <3>1. CASE "lifeorient" = file[n + 1].alias
      <4>1. a2.server["lifeorient"].project \in Projects
        BY <3>1 DEF RecordLeaves, Placed, Sound, Tables
      <4>2. a2.server["lifeorient"].team \in Teams
        BY <3>1 DEF RecordLeaves, Placed, Sound, Tables
      <4> QED  BY <4>1, <4>2, InventoryAssumption
    <3>2. CASE "lifeorient" # file[n + 1].alias
      BY <3>2 DEF RecordLeaves, FirstHas, SeedIsThere
    <3> QED  BY <3>1, <3>2
  <2>2. PICK p \in ProjectIds(a) : a.project[p] = Home
    BY DEF FirstHas, SeedIsThere
  <2>3. p \in ProjectIds(a2) /\ a2.project[p] = Home
    BY <2>2 DEF RecordLeaves
  <2>4. "platform" \in TeamSlugs(a2) /\ "lifeorient" \in ServerNames(a2)
    BY DEF FirstHas, SeedIsThere, RecordLeaves
  <2> QED  BY <2>1, <2>3, <2>4 DEF SeedIsThere
<1>2. ASSUME NEW i \in 1..(n + 1) PROVE Placed(a2, file[i])
  <2>1. CASE i \in 1..n /\ file[i].alias # file[n + 1].alias
    <3>1. Placed(a, file[i])
      BY <2>1 DEF FirstHas
    <3>2. PICK h : h = file[i]
      OBVIOUS
    <3> QED  BY <2>1, <3>1, <3>2 DEF Placed, RecordLeaves
  <2>2. CASE i \in 1..n /\ file[i].alias = file[n + 1].alias
    <3>1. file[i].team = file[n + 1].team /\ file[i].slug = file[n + 1].slug
      BY <2>2, InventoryAssumption
    <3> QED  BY <2>2, <3>1 DEF Placed, RecordLeaves
  <2>3. CASE i = n + 1
    BY <2>3 DEF RecordLeaves
  <2> QED  BY <2>1, <2>2, <2>3
<1> QED  BY <1>1, <1>2 DEF FirstHas

LEMMA FirstSessions ==
    ASSUME NEW r, Sound(r), SeedIsThere(r), NEW file \in HostFiles, NEW hops
    PROVE  \A n \in 0..Len(file) : FirstHas(Sessions(r, file, hops)[n].rows, file, n)
<1> DEFINE after == Sessions(r, file, hops)
           D == {n \in Nat : n <= Len(file) => FirstHas(after[n].rows, file, n)}
<1>0. /\ file \in Seq(Host) /\ Len(file) \in Nat /\ DOMAIN file = 1..Len(file)
      /\ \A n \in 1..Len(file) : file[n] \in Host
  <2>1. file \in Seq(Host)
    BY InventoryAssumption DEF Host
  <2> QED  BY <2>1, LenProperties, ElementOfSeq
<1>1. /\ after[0] = Session(r, hops)
      /\ \A n \in 1..Len(file) : after[n] = ImportRecord(after[n - 1], file[n])
  BY <1>0, SessionsStep
<1>2. \A n \in 0..Len(file) : Sound(after[n].rows)
  BY <1>0, SessionsSound DEF LoopInv
<1> HIDE DEF after
<1>3. 0 \in D
  <2>1. after[0].rows = r
    BY <1>1 DEF Session
  <2> QED  BY <2>1 DEF FirstHas
<1>4. ASSUME NEW n \in Nat, n \in D PROVE n + 1 \in D
  <2> SUFFICES ASSUME n + 1 <= Len(file) PROVE FirstHas(after[n + 1].rows, file, n + 1)
    OBVIOUS
  <2>1. PICK acc, next, host : acc = after[n] /\ next = after[n + 1] /\ host = file[n + 1]
    OBVIOUS
  <2>2. host \in Host /\ next = ImportRecord(acc, host) /\ Sound(acc.rows) /\ Sound(next.rows)
    BY <1>0, <1>1, <1>2, <2>1
  <2>3. RecordLeaves(acc.rows, host, next.rows)
    BY <2>2, RecordSound
  <2>4. FirstHas(acc.rows, file, n)
    BY <1>0, <1>4, <2>1
  <2>5. n + 1 \in DOMAIN file /\ 1..n \subseteq DOMAIN file
    BY <1>0
  <2>6. FirstHas(next.rows, file, n + 1)
    BY <2>1, <2>2, <2>3, <2>4, <2>5, FirstStep
  <2> QED  BY <2>1, <2>6
<1>5. Nat \subseteq D
  <2> HIDE DEF D
  <2> QED  BY <1>3, <1>4, Induction
<1> QED  BY <1>0, <1>5 DEF after

\* A record of a host that is in place changes no row and adds none.
Unchanged(acc, r) == acc.rows = r /\ acc.pending = {} /\ ~acc.refused

LEMMA RecordAgain ==
    ASSUME NEW r, Sound(r), NEW host \in Host, Placed(r, host),
           NEW acc, Unchanged(acc, r), NEW next, next = ImportRecord(acc, host)
    PROVE  Unchanged(next, r)
<1>1. PICK p : p = r.server[host.alias].project
  OBVIOUS
<1>2. GetTeam(r, host.team) = r /\ ~NameIsTaken(r, host.team)
  BY DEF GetTeam, NameIsTaken, Placed
<1>3. /\ ProjectFor(r, host.team, host.slug) = p
      /\ GetProject(r, host.team, host.slug) = r
  BY <1>1, FindsProject DEF Placed
<1>4. PutServer(r, host.alias, p, host.team) = r
  BY <1>1, LeavesServer DEF Placed
<1>5. host.alias \in ServerNames(r)
  BY DEF Placed
<1>6. next.rows = r
  BY <1>2, <1>3, <1>4 DEF ImportRecord, Unchanged
<1>7. next.pending = {}
  BY <1>2, <1>3, <1>5 DEF ImportRecord, Unchanged
<1>8. ~next.refused
  BY <1>2, <1>3 DEF ImportRecord, Unchanged
<1> QED  BY <1>6, <1>7, <1>8 DEF Unchanged

LEMMA SecondSessions ==
    ASSUME NEW r, Sound(r), NEW file \in Seq(Host), NEW hops,
           \A i \in 1..Len(file) : Placed(r, file[i])
    PROVE  \A n \in 0..Len(file) : Unchanged(Sessions(r, file, hops)[n], r)
<1> DEFINE after == Sessions(r, file, hops)
           D == {n \in Nat : n <= Len(file) => Unchanged(after[n], r)}
<1>0. Len(file) \in Nat /\ \A n \in 1..Len(file) : file[n] \in Host
  BY LenProperties, ElementOfSeq
<1>1. /\ after[0] = Session(r, hops)
      /\ \A n \in 1..Len(file) : after[n] = ImportRecord(after[n - 1], file[n])
  BY <1>0, SessionsStep
<1> HIDE DEF after
<1>2. 0 \in D
  BY <1>1 DEF Session, Unchanged
<1>3. ASSUME NEW n \in Nat, n \in D PROVE n + 1 \in D
  <2> SUFFICES ASSUME n + 1 <= Len(file) PROVE Unchanged(after[n + 1], r)
    OBVIOUS
  <2>1. PICK acc, next, host : acc = after[n] /\ next = after[n + 1] /\ host = file[n + 1]
    OBVIOUS
  <2>2. host \in Host /\ Placed(r, host) /\ next = ImportRecord(acc, host) /\ Unchanged(acc, r)
    BY <1>0, <1>1, <1>3, <2>1
  <2> QED  BY <2>1, <2>2, RecordAgain
<1>4. Nat \subseteq D
  <2> HIDE DEF D
  <2> QED  BY <1>2, <1>3, Induction
<1> QED  BY <1>0, <1>4 DEF after

\* What is cleaned up has nothing to clean up.
LEMMA CleanedUpAgain ==
    ASSUME NEW a, Sound(a), NEW r, r = CleanedUp(a), Sound(r)
    PROVE  CleanedUp(r) = r
<1>1. PICK r2 : r2 = CleanedUp(r)
  OBVIOUS
<1>2. /\ r = [team |-> r.team, project |-> r.project, server |-> a.server]
      /\ r.project = [p \in ProjectIds(r) |-> a.project[p]]
      /\ \A p : p \in ProjectIds(r) <=>
           /\ p \in ProjectIds(a)
           /\ a.project[p].team \in Protected \/ \E s \in ServerNames(a) : a.server[s].project = p
      /\ r.team = [t \in TeamSlugs(r) |-> a.team[t]]
      /\ \A t : t \in TeamSlugs(r) <=>
           t \in TeamSlugs(a) /\ (t \in Protected \cup manned \/ Used(r, t))
  BY CleanUpLeaves
<1>3. /\ r2 = [team |-> r2.team, project |-> r2.project, server |-> r.server]
      /\ r2.project = [p \in ProjectIds(r2) |-> r.project[p]]
      /\ \A p : p \in ProjectIds(r2) <=>
           /\ p \in ProjectIds(r)
           /\ r.project[p].team \in Protected \/ \E s \in ServerNames(r) : r.server[s].project = p
      /\ r2.team = [t \in TeamSlugs(r2) |-> r.team[t]]
      /\ \A t : t \in TeamSlugs(r2) <=>
           t \in TeamSlugs(r) /\ (t \in Protected \cup manned \/ Used(r2, t))
  BY <1>1, CleanUpLeaves
<1>4. r.server = a.server /\ ServerNames(r) = ServerNames(a)
  <2>1. r.server = a.server
    BY <1>2
  <2> QED  BY <2>1 DEF ServerNames
<1>5. ProjectIds(r2) = ProjectIds(r)
  <2>1. ASSUME NEW p \in ProjectIds(r) PROVE p \in ProjectIds(r2)
    <3>1. r.project[p] = a.project[p]
      BY <1>2
    <3>2. r.project[p].team \in Protected \/ \E s \in ServerNames(r) : r.server[s].project = p
      BY <1>2, <1>4, <3>1
    <3> QED  BY <1>3, <3>2
  <2> QED  BY <1>3, <2>1
<1>6. r2.project = r.project
  BY <1>2, <1>3, <1>5
<1>7. r2.server = r.server /\ ServerNames(r2) = ServerNames(r)
  <2>1. r2.server = r.server
    BY <1>3
  <2> QED  BY <2>1 DEF ServerNames
<1>8. \A t : Used(r2, t) <=> Used(r, t)
  BY <1>5, <1>6, <1>7 DEF Used
<1>9. TeamSlugs(r2) = TeamSlugs(r)
  BY <1>2, <1>3, <1>8
<1>10. r2.team = r.team
  <2>1. r.team \in [TeamSlugs(r) -> Names]
    BY DEF Sound, Tables
  <2> QED  BY <1>3, <1>9, <2>1
<1> QED  BY <1>1, <1>3, <1>6, <1>10 DEF Sound, Tables

NothingChanges(import, r) == import = [rows |-> r, ok |-> TRUE]

LEMMA ImportedAgain ==
    ASSUME NEW r0, Sound(r0), SeedIsThere(r0), manned \subseteq TeamSlugs(r0),
           NEW file \in HostFiles, file # <<>>, NEW hops, NEW hops2,
           NEW import, import = Imported(r0, file, hops), NEW r, r = import.rows,
           NEW again, again = Imported(Seeded(r), file, hops2)
    PROVE  NothingChanges(again, r)
<1> DEFINE N == Len(file)
<1>0. file \in Seq(Host) /\ N \in Nat /\ N \in 0..N
  <2>1. file \in Seq(Host)
    BY InventoryAssumption DEF Host
  <2>2. N \in Nat
    BY <2>1, LenProperties
  <2> QED  BY <2>1, <2>2
<1>1. PICK acc : acc = Sessions(r0, file, hops)[N]
  OBVIOUS
<1>2. r = CleanedUp(acc.rows)
  BY <1>1 DEF Imported
<1>3. LoopInv(r0, file, acc, N) /\ FirstHas(acc.rows, file, N)
  BY <1>0, <1>1, SessionsSound, FirstSessions
<1>4. Sound(acc.rows) /\ manned \subseteq TeamSlugs(acc.rows)
  BY <1>3 DEF LoopInv
<1>5. Sound(r) /\ manned \subseteq TeamSlugs(r)
  BY <1>2, <1>4, CleanUpSound
<1>6. PICK a : a = acc.rows
  OBVIOUS
<1>7. /\ r = [team |-> r.team, project |-> r.project, server |-> a.server]
      /\ r.project = [p \in ProjectIds(r) |-> a.project[p]]
      /\ \A p : p \in ProjectIds(r) <=>
           /\ p \in ProjectIds(a)
           /\ a.project[p].team \in Protected \/ \E s \in ServerNames(a) : a.server[s].project = p
      /\ r.team = [t \in TeamSlugs(r) |-> a.team[t]]
      /\ \A t : t \in TeamSlugs(r) <=>
           t \in TeamSlugs(a) /\ (t \in Protected \cup manned \/ Used(r, t))
  <2>1. Sound(a) /\ r = CleanedUp(a)
    BY <1>2, <1>4, <1>6
  <2> QED  BY <2>1, CleanUpLeaves
<1>8. r.server = a.server /\ ServerNames(r) = ServerNames(a)
  <2>1. r.server = a.server
    BY <1>7
  <2> QED  BY <2>1 DEF ServerNames
<1>9. SeedIsThere(r)
  <2>1. SeedIsThere(a)
    BY <1>3, <1>6 DEF FirstHas
  <2>2. PICK p \in ProjectIds(a) : a.project[p] = Home
    BY <2>1 DEF SeedIsThere
  <2>3. p \in ProjectIds(r) /\ r.project[p] = Home
    BY <1>7, <2>2 DEF Home, Protected
  <2>4. "platform" \in TeamSlugs(r)
    BY <1>7, <2>1 DEF SeedIsThere, Protected
  <2> QED  BY <1>8, <2>1, <2>3, <2>4 DEF SeedIsThere
<1>10. ASSUME NEW i \in 1..N PROVE Placed(r, file[i])
  <2>1. PICK h, p : h = file[i] /\ p = a.server[h.alias].project
    OBVIOUS
  <2>2. /\ h.team \in TeamSlugs(a) /\ h.alias \in ServerNames(a)
        /\ a.server[h.alias].team = h.team
        /\ p \in ProjectIds(a) /\ a.project[p] = [team |-> h.team, slug |-> h.slug]
    BY <1>3, <1>6, <2>1 DEF FirstHas, Placed
  <2>3. p \in ProjectIds(r) /\ r.project[p] = a.project[p]
    BY <1>7, <2>1, <2>2
  <2>4. h.team \in TeamSlugs(r)
    BY <1>7, <1>8, <2>2 DEF Used
  <2>5. Placed(r, h)
    BY <1>8, <2>1, <2>2, <2>3, <2>4 DEF Placed
  <2> QED  BY <2>1, <2>5
<1>11. Seeded(r) = r
  BY <1>5, <1>9, SeedsNothing
<1>12. PICK acc2 : acc2 = Sessions(r, file, hops2)[N]
  OBVIOUS
<1>13. Unchanged(acc2, r)
  BY <1>0, <1>5, <1>10, <1>12, SecondSessions
<1>14. CleanedUp(r) = r
  BY <1>2, <1>4, <1>5, CleanedUpAgain
<1>15. ReferencesHold(r)
  BY <1>5 DEF Sound, Keys, ReferencesHold
<1>16. Imported(r, file, hops2) = [rows |-> r, ok |-> ~acc2.refused /\ ReferencesHold(r)]
  BY <1>12, <1>13, <1>14 DEF Imported, Unchanged
<1>17. (~acc2.refused /\ ReferencesHold(r)) = TRUE
  BY <1>13, <1>15 DEF Unchanged
<1> QED  BY <1>11, <1>16, <1>17 DEF NothingChanges
-----------------------------------------------------------------------------
\* The rows are sound between any two transactions, and servers agree with their
\* projects.  A project under way is one that exists.
InventoryInv ==
    /\ Sound(rows)
    /\ TeamsAgree(rows, moving, astray)
    /\ manned \subseteq TeamSlugs(rows)
    /\ astray \subseteq Servers
    /\ moving \in ProjectIds(rows) \cup {0}
    /\ service # "up" => moving = 0

LEMMA InventoryInit == Init => InventoryInv
BY DEF Init, InventoryInv, Sound, Tables, Keys, Unique, TeamsAgree, TeamSlugs, ProjectIds, ServerNames

\* Only the tables change, by an operation that leaves all the teams and projects.
LEMMA RowsChange ==
    ASSUME InventoryInv, Sound(rows'), TeamsAgree(rows', moving, astray'),
           astray' \subseteq Servers,
           TeamSlugs(rows) \subseteq TeamSlugs(rows'), ProjectIds(rows) \subseteq ProjectIds(rows'),
           UNCHANGED <<manned, service, moving>>
    PROVE  InventoryInv'
BY DEF InventoryInv

LEMMA InventoryTeams ==
    ASSUME InventoryInv, NEW t \in Teams, NEW n \in Names,
           CreateTeam(t, n) \/ DeleteTeam(t) \/ ManTeam(t)
    PROVE  InventoryInv'
<1>1. CASE CreateTeam(t, n)
  <2>1. PICK r, r1 : r = rows /\ r1 = rows'
    OBVIOUS
  <2>2. /\ r1 = [r EXCEPT !.team = With(@, t, n)]
        /\ UNCHANGED <<manned, service, moving, astray>>
    BY <1>1, <2>1 DEF CreateTeam
  <2>3. Sound(r)
    BY <2>1 DEF InventoryInv
  <2>4. /\ Sound(r1)
        /\ TeamSlugs(r1) = TeamSlugs(r) \cup {t}
        /\ r1.project = r.project /\ r1.server = r.server
        /\ \A m, A : TeamsAgree(r, m, A) => TeamsAgree(r1, m, A)
    BY <2>2, <2>3, PutTeamSound
  <2>5. TeamsAgree(r1, moving, astray)
    BY <2>1, <2>4 DEF InventoryInv
  <2> QED  BY <2>1, <2>2, <2>4, <2>5 DEF InventoryInv, ProjectIds
<1>2. CASE DeleteTeam(t)
  <2>1. /\ t \notin manned /\ ~Used(rows, t) /\ UNCHANGED <<manned, service, moving, astray>>
        /\ rows' = [rows EXCEPT !.team = Without(rows.team, {t})]
    BY <1>2 DEF DeleteTeam
  <2>2. rows' = [team |-> Without(rows.team, {t}), project |-> rows.project, server |-> rows.server]
    BY <2>1 DEF InventoryInv, Sound, Tables
  <2>3. /\ rows'.team = Without(rows.team, {t})
        /\ rows'.project = rows.project /\ rows'.server = rows.server
    BY <2>2
  <2>4. /\ ProjectIds(rows') = ProjectIds(rows) /\ ServerNames(rows') = ServerNames(rows)
        /\ TeamSlugs(rows') = TeamSlugs(rows) \ {t}
        /\ rows'.team = [u \in TeamSlugs(rows') |-> rows.team[u]]
    BY <2>3 DEF ProjectIds, ServerNames, TeamSlugs, Without
  <2>5. Tables(rows')
    <3>1. rows'.team \in [TeamSlugs(rows') -> Names]
      BY <2>4 DEF InventoryInv, Sound, Tables
    <3> QED  BY <2>2, <2>3, <2>4, <3>1 DEF InventoryInv, Sound, Tables
  <2>6. Keys(rows') /\ Unique(rows')
    BY <2>1, <2>3, <2>4 DEF InventoryInv, Sound, Keys, Unique, Used
  <2>7. TeamsAgree(rows', moving, astray)
    BY <2>3, <2>4 DEF InventoryInv, TeamsAgree
  <2> QED  BY <2>1, <2>4, <2>5, <2>6, <2>7 DEF InventoryInv, Sound
<1>3. CASE ManTeam(t)
  BY <1>3 DEF ManTeam, InventoryInv
<1> QED  BY <1>1, <1>2, <1>3

\* A team that gets another slug: the references to it change alike, and to no other.
LEMMA InventoryUpdatesTeam ==
    ASSUME InventoryInv, NEW t \in Teams, NEW u \in Teams, NEW n \in Names, UpdateTeam(t, u, n)
    PROVE  InventoryInv'
<1> DEFINE To(x) == IF x = t THEN u ELSE x
           P == [p \in ProjectIds(rows) |-> [rows.project[p] EXCEPT !.team = To(@)]]
           S == [s \in ServerNames(rows) |-> [rows.server[s] EXCEPT !.team = To(@)]]
<1>1. /\ t \in TeamSlugs(rows) /\ u \notin TeamSlugs(rows) \ {t}
      /\ rows' = [team |-> With(Without(rows.team, {t}), u, n), project |-> P, server |-> S]
      /\ manned' = {To(x) : x \in manned}
      /\ UNCHANGED <<service, moving, astray>>
  BY DEF UpdateTeam
<1>2. /\ rows'.team = With(Without(rows.team, {t}), u, n)
      /\ rows'.project = P /\ rows'.server = S
  BY <1>1
<1>3. /\ TeamSlugs(rows') = (TeamSlugs(rows) \ {t}) \cup {u}
      /\ rows'.team = [x \in TeamSlugs(rows') |-> IF x = u THEN n ELSE rows.team[x]]
  BY <1>2 DEF With, Without, TeamSlugs
<1>4. ProjectIds(rows') = ProjectIds(rows) /\ ServerNames(rows') = ServerNames(rows)
  BY <1>2 DEF ProjectIds, ServerNames
<1>5. \A x \in TeamSlugs(rows) : To(x) \in TeamSlugs(rows')
  BY <1>3
<1>6. \A x, y \in TeamSlugs(rows) \cup {"none"} : To(x) = To(y) => x = y
  BY <1>1, InventoryAssumption
<1>7. To("none") = "none"
  BY InventoryAssumption
<1>8. ASSUME NEW p \in ProjectIds(rows)
      PROVE  /\ rows'.project[p] \in Project
             /\ rows'.project[p].team = To(rows.project[p].team)
             /\ rows'.project[p].slug = rows.project[p].slug
  <2>1. rows.project[p] \in Project
    BY DEF InventoryInv, Sound, Tables
  <2>2. rows'.project[p] = [rows.project[p] EXCEPT !.team = To(@)]
    BY <1>2
  <2> QED  BY <2>1, <2>2 DEF Project
<1>9. ASSUME NEW s \in ServerNames(rows)
      PROVE  /\ rows'.server[s] \in Server
             /\ rows'.server[s].team = To(rows.server[s].team)
             /\ rows'.server[s].project = rows.server[s].project
  <2>1. rows.server[s] \in Server
    BY DEF InventoryInv, Sound, Tables
  <2>2. rows'.server[s] = [rows.server[s] EXCEPT !.team = To(@)]
    BY <1>2
  <2> QED  BY <2>1, <2>2 DEF Server
<1>10. /\ rows'.project = [p \in ProjectIds(rows) |-> rows'.project[p]]
       /\ rows'.server = [s \in ServerNames(rows) |-> rows'.server[s]]
  BY <1>2
<1>11. \A p \in ProjectIds(rows) : rows.project[p].team \in TeamSlugs(rows)
  BY DEF InventoryInv, Sound, Keys
<1>12. \A s \in ServerNames(rows) : /\ rows.server[s].team \in TeamSlugs(rows) \cup {"none"}
                                    /\ rows.server[s].project \in ProjectIds(rows) \cup {0}
  BY DEF InventoryInv, Sound, Keys
<1> HIDE DEF P, S, To
<1>13. Tables(rows')
  <2>1. rows'.team \in [TeamSlugs(rows') -> Names] /\ TeamSlugs(rows') \subseteq Teams
    BY <1>3 DEF InventoryInv, Sound, Tables
  <2>2. /\ rows'.project \in [ProjectIds(rows') -> Project] /\ ProjectIds(rows') \subseteq Projects
        /\ rows'.server \in [ServerNames(rows') -> Server] /\ ServerNames(rows') \subseteq Servers
    BY <1>4, <1>8, <1>9, <1>10 DEF InventoryInv, Sound, Tables
  <2>3. rows' = [team |-> rows'.team, project |-> rows'.project, server |-> rows'.server]
    BY <1>1, <1>2
  <2> QED  BY <2>1, <2>2, <2>3 DEF Tables
<1>14. Keys(rows')
  BY <1>4, <1>5, <1>7, <1>8, <1>9, <1>11, <1>12 DEF Keys
<1>15. Unique(rows')
  <2> SUFFICES ASSUME NEW p \in ProjectIds(rows), NEW q \in ProjectIds(rows),
                      rows'.project[p] = rows'.project[q]
               PROVE  p = q
    BY <1>4 DEF Unique
  <2>1. /\ rows.project[p].team = rows.project[q].team
        /\ rows.project[p].slug = rows.project[q].slug
    BY <1>6, <1>8, <1>11
  <2>2. rows.project[p] \in Project /\ rows.project[q] \in Project
    BY DEF InventoryInv, Sound, Tables
  <2>3. rows.project[p] = rows.project[q]
    BY <2>1, <2>2 DEF Project
  <2> QED  BY <2>3 DEF InventoryInv, Sound, Unique
<1>16. TeamsAgree(rows', moving, astray)
  <2> SUFFICES ASSUME NEW s \in ServerNames(rows) \ astray,
                      rows.server[s].project \notin {0, moving}
               PROVE  rows'.server[s].team = rows'.project[rows.server[s].project].team
    BY <1>4, <1>9 DEF TeamsAgree
  <2>1. rows.server[s].team = rows.project[rows.server[s].project].team
    BY DEF InventoryInv, TeamsAgree
  <2> QED  BY <1>8, <1>9, <1>12, <2>1
<1>17. manned' \subseteq TeamSlugs(rows')
  BY <1>1, <1>5 DEF InventoryInv
<1> QED  BY <1>1, <1>4, <1>13, <1>14, <1>15, <1>16, <1>17 DEF InventoryInv, Sound

LEMMA InventoryCreatesProject ==
    ASSUME InventoryInv, NEW t \in Teams, NEW slug \in Slugs, CreateProject(t, slug)
    PROVE  InventoryInv'
<1>1. PICK r, p, r1 : r = rows /\ p = NewId(rows) /\ r1 = rows'
  OBVIOUS
<1>2. /\ Sound(r) /\ t \in TeamSlugs(r) /\ SlugIsFree(r, 0, t, slug)
      /\ r1 = PutProject(r, p, t, slug)
      /\ UNCHANGED <<manned, service, moving, astray>>
  BY <1>1 DEF CreateProject, InventoryInv
<1>3. p \in Projects /\ p \notin ProjectIds(r)
  BY <1>1, <1>2, IdIsNew
<1>4. SlugIsFree(r, p, t, slug)
  BY <1>2, InventoryAssumption DEF SlugIsFree, Sound, Tables
<1>5. /\ Sound(r1)
      /\ r1.team = r.team /\ TeamSlugs(r1) = TeamSlugs(r) /\ r1.server = r.server
      /\ ProjectIds(r1) = ProjectIds(r) \cup {p}
      /\ r1.project[p] = [team |-> t, slug |-> slug]
      /\ \A q \in ProjectIds(r) : q # p => r1.project[q] = r.project[q]
  BY <1>2, <1>3, <1>4, PutProjectSound
<1>6. ASSUME NEW m, NEW A, TeamsAgree(r, m, A) PROVE TeamsAgree(r1, m, A)
  BY <1>2, <1>3, <1>4, <1>6, PutProjectAgrees
<1> QED  BY <1>1, <1>2, <1>5, <1>6, RowsChange DEF InventoryInv

LEMMA InventoryUpdatesProject ==
    ASSUME InventoryInv, NEW p \in Projects, NEW t \in Teams, NEW slug \in Slugs,
           UpdateProject(p, t, slug)
    PROVE  InventoryInv'
<1>1. PICK r, r1, A : r = rows /\ r1 = rows' /\ A = astray
  OBVIOUS
<1>2. /\ Sound(r) /\ t \in TeamSlugs(r) /\ SlugIsFree(r, p, t, slug) /\ p \in ProjectIds(r)
      /\ TeamsAgree(r, 0, A)
      /\ r1 = PutProject(r, p, t, slug)
      /\ service = "up" /\ moving = 0 /\ moving' = p
      /\ UNCHANGED <<manned, service, astray>>
  BY <1>1 DEF UpdateProject, Ready, InventoryInv
<1>3. /\ Sound(r1)
      /\ r1.team = r.team /\ TeamSlugs(r1) = TeamSlugs(r) /\ r1.server = r.server
      /\ ProjectIds(r1) = ProjectIds(r) \cup {p}
      /\ r1.project[p] = [team |-> t, slug |-> slug]
      /\ \A q \in ProjectIds(r) : q # p => r1.project[q] = r.project[q]
  BY <1>2, PutProjectSound
<1>4. TeamsAgree(r1, p, A)
  BY <1>2, PutProjectAgrees
<1> QED  BY <1>1, <1>2, <1>3, <1>4 DEF InventoryInv

LEMMA InventoryDeletesProject ==
    ASSUME InventoryInv, NEW p \in Projects, DeleteProject(p)
    PROVE  InventoryInv'
<1>1. /\ moving = 0 /\ UNCHANGED <<manned, service, moving, astray>>
      /\ ServersOf(rows, p) = {}
      /\ rows' = [rows EXCEPT !.project = Without(rows.project, {p})]
  BY DEF DeleteProject, Ready
<1>2. rows' = [team |-> rows.team, project |-> Without(rows.project, {p}), server |-> rows.server]
  BY <1>1 DEF InventoryInv, Sound, Tables
<1>3. /\ rows'.team = rows.team /\ rows'.server = rows.server
      /\ ProjectIds(rows') = ProjectIds(rows) \ {p}
      /\ rows'.project = [q \in ProjectIds(rows') |-> rows.project[q]]
  BY <1>2 DEF Without, ProjectIds
<1>4. ServerNames(rows') = ServerNames(rows) /\ TeamSlugs(rows') = TeamSlugs(rows)
  BY <1>3 DEF ServerNames, TeamSlugs
<1>5. \A s \in ServerNames(rows) : rows.server[s].project \in ProjectIds(rows') \cup {0}
  BY <1>1, <1>3 DEF ServersOf, InventoryInv, Sound, Keys
<1>6. Tables(rows')
  BY <1>2, <1>3, <1>4 DEF InventoryInv, Sound, Tables
<1>7. Keys(rows') /\ Unique(rows')
  BY <1>3, <1>4, <1>5 DEF InventoryInv, Sound, Keys, Unique
<1>8. TeamsAgree(rows', moving, astray)
  BY <1>3, <1>4, <1>5 DEF InventoryInv, TeamsAgree
<1> QED  BY <1>1, <1>4, <1>6, <1>7, <1>8 DEF InventoryInv, Sound

LEMMA InventoryPutsServer ==
    ASSUME InventoryInv, NEW s \in Servers, NEW p \in Projects \cup {0},
           NEW t \in Teams \cup {"none"}, CreateServer(s, p, t) \/ UpdateServer(s, p, t)
    PROVE  InventoryInv'
<1>1. PICK r, r1, u, A, B : /\ r = rows /\ r1 = rows' /\ u = TeamFor(rows, p, t)
                            /\ A = astray /\ B = astray'
  OBVIOUS
<1>2. /\ p \in ProjectIds(r) \cup {0} /\ u \in TeamSlugs(r) \cup {"none"}
      /\ r1 = PutServer(r, s, p, u)
      /\ UNCHANGED <<manned, service, moving>>
      /\ B = A \/ B = A \ {s}
  BY <1>1 DEF CreateServer, UpdateServer
<1>3. Sound(r) /\ TeamsAgree(r, moving, A) /\ A \subseteq Servers
  BY <1>1 DEF InventoryInv
<1>4. /\ Sound(r1)
      /\ r1.team = r.team /\ TeamSlugs(r1) = TeamSlugs(r) /\ r1.project = r.project
      /\ ServerNames(r1) = ServerNames(r) \cup {s}
      /\ r1.server[s] = [project |-> p, team |-> u]
      /\ \A x \in ServerNames(r) : x # s => r1.server[x] = r.server[x]
  BY <1>2, <1>3, PutServerSound
<1>5. p = 0 \/ u = r.project[p].team
  BY <1>1 DEF TeamFor
<1>6. A \subseteq B \cup {s} /\ B \subseteq Servers
  BY <1>2, <1>3
<1>7. TeamsAgree(r1, moving, B)
  BY <1>2, <1>3, <1>5, <1>6, PutServerAgrees
<1> QED  BY <1>1, <1>2, <1>4, <1>6, <1>7, RowsChange DEF ProjectIds

LEMMA InventoryDeletesServer ==
    ASSUME InventoryInv, NEW s \in Servers, DeleteServer(s)
    PROVE  InventoryInv'
<1>1. /\ astray' = astray \ {s} /\ UNCHANGED <<manned, service, moving>>
      /\ rows' = [rows EXCEPT !.server = Without(rows.server, {s})]
  BY DEF DeleteServer
<1>2. rows' = [team |-> rows.team, project |-> rows.project, server |-> Without(rows.server, {s})]
  BY <1>1 DEF InventoryInv, Sound, Tables
<1>3. /\ rows'.team = rows.team /\ rows'.project = rows.project
      /\ ServerNames(rows') = ServerNames(rows) \ {s}
      /\ rows'.server = [u \in ServerNames(rows') |-> rows.server[u]]
  BY <1>2 DEF Without, ServerNames
<1>4. ProjectIds(rows') = ProjectIds(rows) /\ TeamSlugs(rows') = TeamSlugs(rows)
  BY <1>3 DEF ProjectIds, TeamSlugs
<1>5. Tables(rows')
  BY <1>2, <1>3, <1>4 DEF InventoryInv, Sound, Tables
<1>6. Keys(rows') /\ Unique(rows')
  BY <1>3, <1>4 DEF InventoryInv, Sound, Keys, Unique
<1>7. TeamsAgree(rows', moving, astray')
  <2> SUFFICES ASSUME NEW u \in ServerNames(rows') \ astray',
                      rows'.server[u].project \notin {0, moving}
               PROVE  rows'.server[u].team = rows'.project[rows'.server[u].project].team
    BY DEF TeamsAgree
  <2>1. u \in ServerNames(rows) \ astray /\ rows'.server[u] = rows.server[u]
    BY <1>1, <1>3
  <2> QED  BY <1>3, <2>1 DEF InventoryInv, TeamsAgree
<1>8. astray' \subseteq Servers
  BY <1>1 DEF InventoryInv
<1> QED  BY <1>1, <1>8, <1>4, <1>5, <1>6, <1>7, RowsChange DEF Sound

LEMMA InventoryFollows ==
    ASSUME InventoryInv, ServersFollow
    PROVE  InventoryInv'
<1> DEFINE follow == [s \in DOMAIN rows.server |->
                        IF rows.server[s].project = moving
                        THEN [rows.server[s] EXCEPT !.team = rows.project[moving].team]
                        ELSE rows.server[s]]
<1>1. /\ moving # 0 /\ moving' = 0 /\ UNCHANGED <<manned, service>>
      /\ astray' = astray \ ServersOf(rows, moving)
      /\ rows' = [rows EXCEPT !.server = follow] /\ service = "up"
  BY DEF ServersFollow
<1>2. rows' = [team |-> rows.team, project |-> rows.project, server |-> follow]
  BY <1>1 DEF InventoryInv, Sound, Tables
<1>3. rows'.team = rows.team /\ rows'.project = rows.project /\ rows'.server = follow
  BY <1>2
<1>4. /\ ProjectIds(rows') = ProjectIds(rows) /\ ServerNames(rows') = ServerNames(rows)
      /\ TeamSlugs(rows') = TeamSlugs(rows)
  BY <1>3 DEF ProjectIds, ServerNames, TeamSlugs
<1>5. moving \in ProjectIds(rows) /\ rows.project[moving].team \in TeamSlugs(rows)
  BY <1>1 DEF InventoryInv, Sound, Keys
<1>6. ASSUME NEW s \in ServerNames(rows)
      PROVE  /\ rows'.server[s] \in Server
             /\ rows'.server[s].project = rows.server[s].project
             /\ rows'.server[s].team \in TeamSlugs(rows) \cup {"none"}
             /\ rows.server[s].project = moving => rows'.server[s].team = rows.project[moving].team
             /\ rows.server[s].project # moving => rows'.server[s] = rows.server[s]
  <2>1. rows.server[s] \in Server /\ rows.server[s].team \in TeamSlugs(rows) \cup {"none"}
    BY <1>6 DEF InventoryInv, Sound, Tables, Keys
  <2>2. rows'.server[s] = IF rows.server[s].project = moving
                          THEN [rows.server[s] EXCEPT !.team = rows.project[moving].team]
                          ELSE rows.server[s]
    BY <1>3, <1>6 DEF ServerNames
  <2>3. TeamSlugs(rows) \subseteq Teams
    BY DEF InventoryInv, Sound, Tables
  <2> QED  BY <1>5, <2>1, <2>2, <2>3 DEF Server
<1>7. rows'.server = [s \in ServerNames(rows) |-> rows'.server[s]]
  BY <1>3 DEF ServerNames
<1> HIDE DEF follow
<1>8. Tables(rows')
  <2>1. rows'.server \in [ServerNames(rows') -> Server]
    BY <1>4, <1>6, <1>7
  <2> QED  BY <1>2, <1>3, <1>4, <2>1 DEF InventoryInv, Sound, Tables
<1>9. Keys(rows') /\ Unique(rows')
  BY <1>3, <1>4, <1>6 DEF InventoryInv, Sound, Keys, Unique
<1>10. TeamsAgree(rows', moving', astray')
  BY <1>1, <1>3, <1>4, <1>6 DEF InventoryInv, TeamsAgree, ServersOf
<1> QED  BY <1>1, <1>3, <1>4, <1>8, <1>9, <1>10 DEF InventoryInv, Sound

LEMMA InventoryStops ==
    ASSUME InventoryInv, UpdateStops \/ Stop
    PROVE  InventoryInv'
<1>1. moving' = 0 /\ astray' = astray \cup LeftBehind /\ UNCHANGED <<rows, manned>>
  BY DEF UpdateStops, Stop
<1>2. TeamsAgree(rows', moving', astray')
  BY <1>1 DEF InventoryInv, TeamsAgree, LeftBehind
<1>3. astray' \subseteq Servers
  BY <1>1 DEF InventoryInv, LeftBehind, Sound, Tables
<1> QED  BY <1>1, <1>2, <1>3 DEF InventoryInv, UpdateStops, Stop

LEMMA InventorySeeds ==
    ASSUME InventoryInv, Seed
    PROVE  InventoryInv'
<1>1. PICK r, r2, A : r = rows /\ r2 = rows' /\ A = astray
  OBVIOUS
<1>2. Sound(r) /\ TeamsAgree(r, moving, A) /\ r2 = Seeded(r)
  BY <1>1 DEF InventoryInv, Seed
<1>3. /\ Sound(r2)
      /\ TeamsAgree(r2, moving, A \cup {s \in {"lifeorient"} : SeedParts(r)})
      /\ TeamSlugs(r) \cup {"platform"} \subseteq TeamSlugs(r2)
      /\ ProjectIds(r) \subseteq ProjectIds(r2)
  BY <1>2, SeedSound
<1>4. /\ manned' \in {manned, manned \cup {"platform"}} /\ moving = 0
      /\ astray' = A \cup {s \in {"lifeorient"} : SeedParts(r)}
      /\ service' = "seeded" /\ UNCHANGED moving
  BY <1>1 DEF Seed, InventoryInv
<1>5. astray' \subseteq Servers
  BY <1>1, <1>4, InventoryAssumption DEF InventoryInv
<1> QED  BY <1>1, <1>3, <1>4, <1>5 DEF InventoryInv

LEMMA InventoryImports ==
    ASSUME InventoryInv, NEW file \in HostFiles, Import(file) \/ ImportFails(file)
    PROVE  InventoryInv'
<1>1. CASE Import(file)
  <2>1. PICK hops : rows' = Imported(rows, file, hops).rows
    BY <1>1 DEF Import
  <2>2. PICK r, import, A : r = rows /\ import = Imported(rows, file, hops) /\ A = astray
    OBVIOUS
  <2>3. Sound(r) /\ TeamsAgree(r, moving, A) /\ manned \subseteq TeamSlugs(r)
    BY <2>2 DEF InventoryInv
  <2>4. /\ Sound(import.rows) /\ manned \subseteq TeamSlugs(import.rows)
        /\ \A m, B : TeamsAgree(r, m, B) =>
             TeamsAgree(import.rows, m, B \ {file[i].alias : i \in DOMAIN file})
    BY <2>2, <2>3, ImportSound
  <2>5. /\ moving = 0 /\ service' = "up"
        /\ astray' = A \ {file[i].alias : i \in DOMAIN file}
        /\ UNCHANGED <<manned, moving>> /\ rows' = import.rows
    BY <1>1, <2>1, <2>2 DEF Import, InventoryInv
  <2>6. TeamsAgree(rows', moving, astray')
    BY <2>3, <2>4, <2>5
  <2>7. astray' \subseteq Servers
    BY <2>2, <2>5 DEF InventoryInv
  <2> QED  BY <2>4, <2>5, <2>6, <2>7 DEF InventoryInv
<1>2. CASE ImportFails(file)
  BY <1>2 DEF ImportFails, InventoryInv
<1> QED  BY <1>1, <1>2

LEMMA InventoryStep == InventoryInv /\ [Next]_vars => InventoryInv'
<1> SUFFICES ASSUME InventoryInv, [Next]_vars PROVE InventoryInv'
  OBVIOUS
<1>1. CASE Seed
  BY <1>1, InventorySeeds
<1>2. CASE Stop \/ UpdateStops
  BY <1>2, InventoryStops
<1>3. CASE ServersFollow
  BY <1>3, InventoryFollows
<1>4. ASSUME NEW file \in HostFiles, Import(file) \/ ImportFails(file) PROVE InventoryInv'
  BY <1>4, InventoryImports
<1>5. ASSUME NEW t \in Teams, NEW n \in Names, CreateTeam(t, n) PROVE InventoryInv'
  BY <1>5, InventoryTeams
<1>12. ASSUME NEW t \in Teams, DeleteTeam(t) \/ ManTeam(t) PROVE InventoryInv'
  <2>1. PICK n \in Names : TRUE
    BY InventoryAssumption
  <2> QED  BY <1>12, <2>1, InventoryTeams
<1>13. ASSUME NEW t \in Teams, NEW u \in Teams, NEW n \in Names, UpdateTeam(t, u, n)
       PROVE  InventoryInv'
  BY <1>13, InventoryUpdatesTeam
<1>6. ASSUME NEW t \in Teams, NEW slug \in Slugs, CreateProject(t, slug) PROVE InventoryInv'
  BY <1>6, InventoryCreatesProject
<1>7. ASSUME NEW p \in Projects, DeleteProject(p) PROVE InventoryInv'
  BY <1>7, InventoryDeletesProject
<1>8. ASSUME NEW p \in Projects, NEW t \in Teams, NEW slug \in Slugs, UpdateProject(p, t, slug)
      PROVE  InventoryInv'
  BY <1>8, InventoryUpdatesProject
<1>9. ASSUME NEW s \in Servers, DeleteServer(s) PROVE InventoryInv'
  BY <1>9, InventoryDeletesServer
<1>10. ASSUME NEW s \in Servers, NEW p \in Projects \cup {0}, NEW t \in Teams \cup {"none"},
              CreateServer(s, p, t) \/ UpdateServer(s, p, t)
       PROVE  InventoryInv'
  BY <1>10, InventoryPutsServer
<1>11. CASE SeedFails \/ UNCHANGED vars
  BY <1>11 DEF SeedFails, vars, InventoryInv
<1> QED  BY <1>1, <1>2, <1>3, <1>4, <1>5, <1>6, <1>7, <1>8, <1>9, <1>10, <1>11, <1>12, <1>13 DEF Next

LEMMA InventoryInvariant == Spec => []InventoryInv
BY InventoryInit, InventoryStep, PTL DEF Spec

\* However teams, projects and servers are created, renamed, moved, deleted, seeded and
\* imported, a server's row names its project's team, up to the servers astray.
THEOREM ServersFollowProjects == Spec => []ServersHaveTheirProjectsTeam
<1>1. InventoryInv => ServersHaveTheirProjectsTeam
  BY DEF InventoryInv, TeamsAgree, ServersHaveTheirProjectsTeam
<1> QED  BY <1>1, InventoryInvariant, PTL

\* The foreign keys hold in all the rows that a step leaves, although neither the
\* administrators' guards nor the import's clean-up look at all of them.
THEOREM KeysHold == Spec => []ReferencesHold(rows)
<1>1. InventoryInv => ReferencesHold(rows)
  BY DEF InventoryInv, Sound, Keys, ReferencesHold
<1> QED  BY <1>1, InventoryInvariant, PTL

\* Whatever the database holds, an import fails only for a file that lists a host twice, or
\* a host of a team whose name is taken when the import begins: what the records before it
\* make takes no name, and the clean-up leaves every row that another refers to.
THEOREM ImportFailsOnConflicts == Spec => StartFailsOnConflictsOnly
<1>1. ASSUME InventoryInv, NEW file \in HostFiles, ImportFails(file)
      PROVE  \/ \E i, j \in DOMAIN file : i # j /\ file[i].alias = file[j].alias
             \/ \E i \in DOMAIN file : NameIsTaken(rows, file[i].team)
  <2>1. PICK hops : ~Imported(rows, file, hops).ok
    BY <1>1 DEF ImportFails
  <2>2. PICK r, import : r = rows /\ import = Imported(rows, file, hops)
    OBVIOUS
  <2>3. Sound(r) /\ manned \subseteq TeamSlugs(r)
    BY <1>1, <2>2 DEF InventoryInv
  <2>4. ~import.ok => Conflict(r, file, Len(file))
    BY <2>2, <2>3, ImportSound
  <2>5. DOMAIN file = 1..Len(file)
    <3>1. file \in Seq(Host)
      BY InventoryAssumption DEF Host
    <3> QED  BY <3>1, LenProperties
  <2> QED  BY <2>1, <2>2, <2>4, <2>5 DEF Conflict
<1>2. InventoryInv /\ [Next]_vars =>
        [\A file \in HostFiles : ImportFails(file) =>
            \/ \E i, j \in DOMAIN file : i # j /\ file[i].alias = file[j].alias
            \/ \E i \in DOMAIN file : NameIsTaken(rows, file[i].team)]_vars
  BY <1>1
<1> QED  BY <1>2, InventoryInvariant, PTL DEF Spec, StartFailsOnConflictsOnly

\* On the way up the rows are those of the seed.
StartInv == service = "seeded" => SeedIsThere(rows)

LEMMA StartStep == InventoryInv /\ StartInv /\ [Next]_vars => StartInv'
<1> SUFFICES ASSUME InventoryInv, StartInv, [Next]_vars PROVE StartInv'
  OBVIOUS
<1>1. CASE Seed
  <2>1. PICK r, r2 : r = rows /\ r2 = rows'
    OBVIOUS
  <2>2. SeedIsThere(r2)
    BY <1>1, <2>1, SeedSound DEF Seed, InventoryInv
  <2> QED  BY <2>1, <2>2 DEF StartInv
<1>2. CASE Stop \/ ServersFollow \/ UpdateStops \/ SeedFails
  BY <1>2 DEF Stop, ServersFollow, UpdateStops, SeedFails, vars, StartInv
<1>3. ASSUME NEW file \in HostFiles, Import(file) \/ ImportFails(file) PROVE StartInv'
  BY <1>3 DEF Import, ImportFails, StartInv
<1>4. ASSUME NEW t \in Teams, DeleteTeam(t) \/ ManTeam(t) PROVE StartInv'
  BY <1>4 DEF DeleteTeam, ManTeam, Ready, StartInv
<1>11. ASSUME NEW t \in Teams, NEW u \in Teams, NEW n \in Names,
              CreateTeam(t, n) \/ UpdateTeam(t, u, n)
       PROVE  StartInv'
  BY <1>11 DEF CreateTeam, UpdateTeam, Ready, StartInv
<1>5. ASSUME NEW t \in Teams, NEW slug \in Slugs, CreateProject(t, slug) PROVE StartInv'
  BY <1>5 DEF CreateProject, Ready, StartInv
<1>6. ASSUME NEW p \in Projects, DeleteProject(p) PROVE StartInv'
  BY <1>6 DEF DeleteProject, Ready, StartInv
<1>7. ASSUME NEW p \in Projects, NEW t \in Teams, NEW slug \in Slugs, UpdateProject(p, t, slug)
      PROVE  StartInv'
  BY <1>7 DEF UpdateProject, Ready, StartInv
<1>8. ASSUME NEW s \in Servers, DeleteServer(s) PROVE StartInv'
  BY <1>8 DEF DeleteServer, Ready, StartInv
<1>9. ASSUME NEW s \in Servers, NEW p \in Projects \cup {0}, NEW t \in Teams \cup {"none"},
             CreateServer(s, p, t) \/ UpdateServer(s, p, t)
      PROVE  StartInv'
  BY <1>9 DEF CreateServer, UpdateServer, Ready, StartInv
<1>10. CASE UNCHANGED vars
  BY <1>10 DEF vars, StartInv
<1> QED  BY <1>1, <1>2, <1>3, <1>4, <1>5, <1>6, <1>7, <1>8, <1>9, <1>10, <1>11 DEF Next

\* Whatever the database holds and the file lists, a start after an import finds nothing to
\* do: what the import creates its clean-up does not remove, and no host that it puts in
\* place is moved by a later record.
THEOREM RestartsChangeNothing == Spec => RestartChangesNothing
<1>1. Init => StartInv
  BY DEF Init, StartInv
<1>2. Spec => []StartInv
  BY <1>1, StartStep, InventoryInvariant, PTL DEF Spec
<1>3. ASSUME InventoryInv, StartInv, NEW file \in HostFiles, Import(file), file # <<>>
      PROVE  Imported(Seeded(rows'), file, Hops(file)) = [rows |-> rows', ok |-> TRUE]
  <2>1. PICK hops : rows' = Imported(rows, file, hops).rows
    BY <1>3 DEF Import
  <2>2. PICK r0, r, hops2 : r0 = rows /\ r = rows' /\ hops2 = Hops(file)
    OBVIOUS
  <2>3. Sound(r0) /\ SeedIsThere(r0) /\ manned \subseteq TeamSlugs(r0)
    BY <1>3, <2>2 DEF InventoryInv, StartInv, Import
  <2>4. PICK import, again : /\ import = Imported(r0, file, hops) /\ r = import.rows
                            /\ again = Imported(Seeded(r), file, hops2)
    BY <2>1, <2>2
  <2>5. NothingChanges(again, r)
    BY <1>3, <2>3, <2>4, ImportedAgain
  <2> QED  BY <2>2, <2>4, <2>5 DEF NothingChanges
<1>4. InventoryInv /\ StartInv /\ [Next]_vars =>
        [\A file \in HostFiles : Import(file) /\ file # <<>> =>
            Imported(Seeded(rows'), file, Hops(file)) = [rows |-> rows', ok |-> TRUE]]_vars
  BY <1>3
<1> QED  BY <1>2, <1>4, InventoryInvariant, PTL DEF Spec, RestartChangesNothing

\* The tables and the variables beside them keep their types: above all, a project that
\* is under way has an id.
THEOREM InventoryTypesCorrect == Spec => []TypeOK
<1> DEFINE Served == service \in {"down", "seeded", "up"}
<1>1. Init => Served
  BY DEF Init
<1>2. Served /\ [Next]_vars => Served'
  BY DEF Next, vars, Seed, SeedFails, Stop, ServersFollow, UpdateStops, Import, ImportFails, CreateTeam,
     UpdateTeam,
     DeleteTeam, ManTeam, CreateProject, DeleteProject, UpdateProject, DeleteServer, CreateServer,
     UpdateServer
<1>3. InventoryInv /\ Served => TypeOK
  BY DEF InventoryInv, Sound, Tables, Keys, Project, Server, TypeOK
<1> QED  BY <1>1, <1>2, <1>3, InventoryInvariant, PTL DEF Spec
=============================================================================
