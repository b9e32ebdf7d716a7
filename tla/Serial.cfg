SPECIFICATION Spec
CONSTANTS
    a = a  b = b  c = c  d = d  p1 = p1  p2 = p2  s1 = s1  s2 = s2
    NoPod = NoPod
    Jobs = {a, b, c, d}
    Needs <- MixedNeeds
    Rank <- MixedRank
    Mode <- MixedMode
    Required = {a, c, d}
    Timed = {}
    Pods = {p1, p2}
    RunnerOf <- OwnToken
    Slots = {s1}
    Ops = {"cancel", "cancelStep", "rerunFailed", "rerunJob", "rerunAll", "get", "play"}
    Faults = {}
    MaxAsks = 2
INVARIANTS TypeOK RowsAreCoherent ChecksAgree SettledRunHasNoWork RequiredFailureFailsRun
PROPERTY NeedsKept
