SPECIFICATION Spec
CONSTANTS
    Teams = {"platform", "x"}
    Names = {"platform", "x", "n"}
    Slugs = {"platform"}
    Projects = {1, 2}
    Servers = {"lifeorient", "team-x.platform", "team-platform.platform"}
    HostFiles <- MCHostFiles
INVARIANTS
    ServersHaveTheirProjectsTeam
PROPERTIES
    RestartChangesNothing
    StartFailsOnConflictsOnly
