SPECIFICATION Spec
CONSTANTS
    a = a  b = b  c = c  d = d  p1 = p1  p2 = p2  s1 = s1  s2 = s2
    NoPod = NoPod
    Jobs = {a}
    Needs <- OneNeeds
    Rank <- OneRank
    Mode <- OneMode
    Required = {a}
    Timed = {}
    Pods = {p1, p2}
    RunnerOf <- OwnToken
    Slots = {s1, s2}
    Ops = {"cancelStep", "rerunJob"}
    Faults = {"restart"}
    MaxAsks = 2
PROPERTIES VerdictFromHolder ImplementsLease
CHECK_DEADLOCK FALSE
