SPECIFICATION Spec
CONSTANTS
    u1 = u1
    u2 = u2
    t1 = t1
    t2 = t2
    x = x
    y = y
    n1 = n1
    n2 = n2
    r1 = r1
    Users = {u1, u2}
    Teams = {t1, t2}
    Servers = {x, y}
    Names = {n1, n2}
    Requests = {r1}
    Nobody = Nobody
    NoTeam = NoTeam
    NoServer = NoServer
    NoName = NoName
    MaxChanges = 2
INVARIANTS
    OwnJobIsSeen
    RunningScopeAgrees
CHECK_DEADLOCK FALSE
