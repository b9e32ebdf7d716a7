SPECIFICATION PullsSpec
CONSTANTS
    p1 = p1  feature = feature  main = main  dev = dev  admin = admin  s1 = s1  s2 = s2
    Sources = {feature}
    Target = main
    Pulls = {p1}
    SourceOf <- MCSourceOf
    Users = {dev, admin}
    Admins = {admin}
    Reviewers = {dev}
    Slots = {s1}
    MaxCommits = 4
    MaxEdits = 0
    Serves <- Alone
    FirstRules <- ChecksOnly
    Patches <- MCPatches
    NoPull = NoPull

PROPERTY MergedHeadPassed
CHECK_DEADLOCK FALSE
