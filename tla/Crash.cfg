SPECIFICATION Spec
CONSTANTS
    a = a  b = b  c = c  d = d  p1 = p1  p2 = p2  s1 = s1  s2 = s2
    NoPod = NoPod
    Jobs = {a, b, c}
    Needs <- ManualNeeds
    Rank <- ManualRank
    Mode <- ManualMode
    Required = {a, c}
    Timed = {}
    Pods = {p1, p2}
    RunnerOf <- OwnToken
    Slots = {s1}
    Ops = {"get", "cancel", "play", "rerunAll"}
    Faults = {"crash"}
    MaxAsks = 2
PROPERTIES GetRepairs
