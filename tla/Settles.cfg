SPECIFICATION FairSpec
CONSTANTS
    a = a  b = b  c = c  d = d  p1 = p1  p2 = p2  s1 = s1  s2 = s2
    NoPod = NoPod
    Jobs = {a, b}
    Needs <- PairNeeds
    Rank <- PairRank
    Mode <- PairMode
    Required = {a, b}
    Timed = {a, b}
    Pods = {p1, p2}
    RunnerOf <- OwnToken
    Slots = {s1}
    Ops = {"stale", "cancel", "cancelStep", "rerunJob", "rerunFailed"}
    Faults = {"restart", "silence"}
    MaxAsks = 1
PROPERTIES  OrphansAreFailed
