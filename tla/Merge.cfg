SPECIFICATION PullsSpec
CONSTANTS
    p1 = p1  feature = feature  main = main  dev = dev  admin = admin  s1 = s1  s2 = s2
    Sources = {feature}
    Target = main
    Pulls = {p1}
    SourceOf <- MCSourceOf
    Users = {dev, admin}
    Admins = {admin}
    Reviewers = {dev}
    Slots = {s1, s2}
    MaxCommits = 3
    MaxEdits = 1
    Serves <- Split
    FirstRules <- MCFirstRules
    Patches <- MCPatches
    NoPull = NoPull
INVARIANTS PullsTypeOK
PROPERTIES ProtectedByPullRequest NoSilentRewind
CHECK_DEADLOCK FALSE
