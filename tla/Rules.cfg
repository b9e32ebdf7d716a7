SPECIFICATION RulesSpec
CONSTANTS
    build = build  test = test  deploy = deploy  missing = missing
    ghcr = ghcr  app = app  web = web  api = api
    JobNames = {build, test, deploy}
    Position <- MCPosition
    NeedChoices <- MCNeeds
    WantChoices <- MCWants
    Clicks <- MCClicks
    Parallel <- MCParallel
    MaxJobParallel = 3
    None = None
    Refs <- MCRefs
    Targets = {"prod", "qa", "staging"}
    Ons <- MCOns
    Conditions <- MCConditions
    Unset = Unset
    GitlabFiles <- MCGitlabFiles
    GithubFiles <- MCGithubFiles
    Pertisk = Pertisk
    Providers = Providers
    Paths <- MCPaths
    Principals <- MCPrincipals
    Asked <- MCAsked
    Catalogs <- MCCatalogs
    c1 = c1  c2 = c2
    PollUnits = 11
    BeatUnits = 6
    InstanceStale = 18
    RunnerOffline = 36
    CheckUnits = 6
    MaxLost = 1
    Never = Never
    SecretIds = {s1, s2, s3}
    SecretClients = {c1, c2}
    MayManage <- MCMayManage
    Creates <- MCCreates
    Edits <- MCEdits
    JobContexts <- MCJobContexts
    MaxSecretAsks = 3
    Keep = Keep
    NoEntry = NoEntry
    v1 = v1
    TagNames = {v1, v2, v3}
    Commits = {k1, k2}
    Blocked = {v3}
    Shadowed = {v2}
    TagClients = {c1, c2}
    MaxTagAsks = 2
    MaxTagFaults = 1
    NoTag = NoTag
    Words = {a, b}
    Slugs = 2
    WikiClients = {c1, c2}
    Importers = {w1}
    MaxWikiAsks = 3
    MaxWikiFaults = 1
    Same = Same
INVARIANTS RulesTypeOK ConfigSound NamesSound RunnersSound SecretsSound TagsAgree WikiSound
CHECK_DEADLOCK FALSE
