SPECIFICATION ServicesSpec
CONSTANTS
    ann = ann  bob = bob  top = top  sub = sub  t1 = t1  r1 = r1  u1 = u1
    c1 = c1  c2 = c2  m1 = m1
    ImportRows = {1, 2}
    ImportWorkers = {w1, w2}
    RemoteIssues = 1
    MaxUserIssues = 1
    MaxAges = 1
    MaxImportCrashes = 1
    Nothing = none
    GroupIds = {g1, g2}
    RepoIds = {r1}
    Slugs = {a, b}
    Root = Root
    Absent = Absent
    TreeClients = {c1, c2}
    MaxTreeFaults = 1
    People = {ann, bob}
    Groups = {top, sub}
    ParentGroup <- MCParentGroup
    NoGroup = NoGroup
    Teams = {t1}
    TeamGroup <- MCTeamGroup
    CustomRoles = {r1}
    CustomGroup <- MCCustomGroup
    RoleRows <- MCRoleRows
    MemberClients = {c1, c2}
    MaxMemberAsks = 3
    MaxSyncs = 1
    Nil = Nil
    Users = {u1, u2, u3}
    Subjects = {s1, s2}
    Emails = {e1, e2}
    Flows = {f1}
    FirstAdmin = u1
    NeedsApproval = TRUE
    AccountClients = {c1, c2}
    MaxAccountAsks = 3
    NoOne = NoOne
    CiJobs = {j1}
    Managers = {m1, m2}
    RunnerTokens = {ra, rb}
    MaxAttempts = 2
    NoJob = NoJob
    Items = {i1}
    Backups = {b1}
    Commands = {k1}
    Restorers = {r1, r2}
    Selections <- MCSelections
    MaxChanges = 1
    MaxBackupFaults = 1
    NoArchive = NoArchive
    IndexRepos = {r1, r2}
    NestedRepos = {r2}
    Indexers = {w1, w2}
    BatchSize = 2
    MaxIndexJobs = 3
    MaxIndexFaults = 1
    Shells = {p1, p2}
    Script <- MCScript
    MaxTries = 2
    MaxJobFaults = 1
INVARIANTS ServicesTypeOK   AccessSound AccountsSound JobOfItsAttempt  SearchSound ArtifactsSound
PROPERTIES ServicesProgress
CHECK_DEADLOCK FALSE
