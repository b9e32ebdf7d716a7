--------------------------- MODULE MCPipelineRun ---------------------------
(* Small schedules and runner pools for TLC. *)
EXTENDS PipelineRunLease

CONSTANTS a, b, c, d, p1, p2, s1, s2

(* b and the manual c behind a, d skipped behind c. *)
MixedNeeds == [j \in {a, b, c, d} |-> CASE j \in {b, c} -> {a} [] j = d -> {c} [] OTHER -> {}]
MixedRank  == [j \in {a, b, c, d} |-> CASE j = a -> 1 [] j = b -> 2 [] j = c -> 3 [] OTHER -> 4]
MixedMode  == [j \in {a, b, c, d} |-> CASE j = c -> "Manual" [] j = d -> "SkippedUpstream"
                                       [] OTHER -> "Queued"]

(* A queued job, a manual one behind it, and one skipped behind that. *)
ManualNeeds == [j \in {a, b, c} |-> CASE j = b -> {a} [] j = c -> {b} [] OTHER -> {}]
ManualRank  == [j \in {a, b, c} |-> CASE j = a -> 1 [] j = b -> 2 [] OTHER -> 3]
ManualMode  == [j \in {a, b, c} |-> CASE j = a -> "Queued" [] j = b -> "Manual"
                                      [] OTHER -> "SkippedUpstream"]

(* b behind a. *)
PairNeeds == [j \in {a, b} |-> IF j = b THEN {a} ELSE {}]
PairRank  == [j \in {a, b} |-> IF j = a THEN 1 ELSE 2]
PairMode  == [j \in {a, b} |-> "Queued"]

(* Two independent jobs. *)
FreeNeeds == [j \in {a, b} |-> {}]

(* One job. *)
OneNeeds == [j \in {a} |-> {}]
OneRank  == [j \in {a} |-> 1]
OneMode  == [j \in {a} |-> "Queued"]

(* Each process has a registered runner, and so a token, of its own. *)
OwnToken == [p \in {p1, p2} |-> p]

=============================================================================
