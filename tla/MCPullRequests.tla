--------------------------- MODULE MCPullRequests ---------------------------
(* One source branch and one pull request; the rule starts strict.         *)
EXTENDS PullRequests, TLC

CONSTANTS p1, feature, main, dev, admin, s1, s2

MCSourceOf == [q \in {p1} |-> feature]
Split == s1 :> {"merge", "edit"} @@ s2 :> {"push", "ssh", "force", "web", "branch"}
Alone == s1 :> {"push", "merge"}
Strict == [active |-> TRUE, pr |-> TRUE, approvals |-> 1, checks |-> TRUE,
           force |-> FALSE, bypass |-> FALSE]
MCFirstRules == {Strict, [Strict EXCEPT !.active = FALSE]}
ChecksOnly == {[Strict EXCEPT !.approvals = 0]}

(* Requests that carry some fields of the rule. *)
MCPatches == {[approvals |-> 0], [pr |-> FALSE]}
=============================================================================
