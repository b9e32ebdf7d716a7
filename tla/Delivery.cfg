SPECIFICATION TriggersFairSpec
CONSTANTS
    c1 = c1
    c2 = c2
    Commits = {c1, c2}
    Config <- MCConfig
    Triggers = {t1, t2}
    Runs = {r1, r2, r3, r4, r5}
    Hooks = {h1}
    Worker = w
    Nested = FALSE
    None = None
    Verdicts = {"failure"}
    MaxCrashes = 1
    MaxReruns = 1
INVARIANTS TriggersTypeOK  
PROPERTY TriggersDrain
CHECK_DEADLOCK FALSE
