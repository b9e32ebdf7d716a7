---------------------------- MODULE PullRequests ----------------------------
(***************************************************************************)
(* Branches of one repository, everything that writes them, and the merge  *)
(* of pull requests behind branch protection, reviews and CI checks.       *)
(*                                                                         *)
(* Handlers run concurrently, one per slot.  Each action is one git        *)
(* command or one database read or write of a handler, so a handler acts   *)
(* on refs and rows it read some steps ago.  Commits are numbered in the   *)
(* order they are made; hist[c] is c with all its ancestors.               *)
(***************************************************************************)
EXTENDS Naturals, FiniteSets

CONSTANTS
    Sources,     \* branches pull requests come from
    Target,      \* the protected default branch
    Pulls,       \* pull requests
    SourceOf,    \* the source branch of each
    Users, Admins, Reviewers,
    Slots,       \* handlers that may be under way together
    MaxCommits,  \* bound on commits
    MaxEdits,    \* bound on edits of rules, reviews and pull requests
    Serves,      \* Serves[s]: the operations slot s explores
    FirstRules,  \* the protection rules to start with
    Patches,     \* what an update of the rule may carry
    NoPull

Branches == Sources \union {Target}
Commits == 1 .. MaxCommits
None == 0    \* no commit: a branch that does not exist
Verdicts == {"none", "pending", "success"}   \* a failure blocks as a pending one does
Reviews == {"none", "approved", "changes_requested"}   \* a comment counts as none
Rules == [active : BOOLEAN, pr : BOOLEAN, approvals : 0 .. 2,
          checks : BOOLEAN, force : BOOLEAN, bypass : BOOLEAN]

ASSUME BranchAssumption == Target \notin Sources /\ SourceOf \in [Pulls -> Sources]
ASSUME UserAssumption == Admins \subseteq Users /\ Reviewers \subseteq Users
ASSUME NoPullAssumption == NoPull \notin Pulls
Ops == {"push", "ssh", "force", "web", "branch", "edit", "merge"}
ASSUME ServesAssumption == Serves \in [Slots -> SUBSET Ops]
ASSUME CommitAssumption == MaxCommits \in Nat \ {0} /\ MaxEdits \in Nat
ASSUME RuleAssumption == FirstRules \subseteq Rules

VARIABLES
    ref,      \* branch heads
    hist,     \* ancestors of each commit that exists; {} for the others
    check,    \* the required commit status of each commit
    pull,     \* the rows of pull_requests
    review,   \* latest review of each reviewer on each pull request
    rule,     \* the branch protection rule of the target
    slot,     \* handlers under way
    lifted,   \* which protections the target has ever been without
    edits

vars == <<ref, hist, check, pull, review, rule, slot, lifted, edits>>
rows == <<check, pull, review, rule, lifted, edits>>

Made == {c \in Commits : hist[c] # {}}
NextCommit == 1 + Cardinality(Made)
Room == Cardinality(Made) < MaxCommits
IsAncestor(a, b) == a \in hist[b]

PCs == {"idle", "push", "web", "webref", "create", "delete", "compare", "gate",
        "prepare", "land", "rebased", "tip", "row", "edit"}
IdleSlot == [pc |-> "idle", branch |-> Target, old |-> None,
             new |-> None, pull |-> NoPull, src |-> None, gate |-> None, how |-> "merge",
             state |-> "open"]

PullsTypeOK ==
    /\ ref \in [Branches -> Commits \union {None}]
    /\ hist \in [Commits -> SUBSET Commits]
    /\ check \in [Commits -> Verdicts]
    /\ pull \in [Pulls -> [state : {"none", "open", "closed", "merged"},
                           sha : Commits \union {None}]]
    /\ review \in [Pulls -> [Reviewers -> Reviews]]
    /\ rule \in Rules
    /\ slot \in [Slots -> [pc : PCs, branch : Branches,
                           old : Commits \union {None}, new : Commits \union {None},
                           pull : Pulls \union {NoPull}, src : Commits \union {None},
                           gate : Commits \union {None},
                           how : {"merge", "squash", "rebase"},
                           state : {"open", "closed", "merged"}]]
    /\ lifted \in SUBSET {"direct", "force"}
    /\ edits \in 0 .. MaxEdits

\* What a rule lets some writer do: update the branch without a pull request,
\* rewind it.
Lifts(r) ==
    (IF r.active /\ r.pr /\ ~r.bypass THEN {} ELSE {"direct"})
    \union (IF r.active /\ ~r.bypass /\ (r.pr \/ ~r.force) THEN {} ELSE {"force"})

PullsInit ==
    /\ hist = [c \in Commits |-> IF c = 1 THEN {1} ELSE {}]
    /\ ref = [b \in Branches |-> 1]
    /\ check = [c \in Commits |-> "none"]
    /\ pull = [p \in Pulls |-> [state |-> "none", sha |-> None]]
    /\ review = [p \in Pulls |-> [u \in Reviewers |-> "none"]]
    /\ rule \in FirstRules
    /\ slot = [s \in Slots |-> IdleSlot]
    /\ lifted = Lifts(rule)
    /\ edits = 0

Goto(s, rec) == slot' = [slot EXCEPT ![s] = rec]
Done(s) == Goto(s, IdleSlot)

\* A new commit with the given parents; git objects are never changed.
Commit(parents) ==
    /\ Room
    /\ hist' = [hist EXCEPT ![NextCommit] =
                   (UNION {hist[p] : p \in parents}) \union {NextCommit}]

\* Mutant: require_pull_request is not consulted.
MayWriteNoPull(u, b, keeps) ==
    b # Target \/ ~rule.active \/ (u \in Admins /\ rule.bypass) \/ rule.force \/ keeps
(***************************************************************************)
(* Branch protection: validate_push_updates.                               *)
(***************************************************************************)
\* keeps: the new head descends from the old one.
MayWrite(u, b, keeps) ==
    \/ b # Target \/ ~rule.active
    \/ u \in Admins /\ rule.bypass
    \/ ~rule.pr /\ (rule.force \/ keeps)

(***************************************************************************)
(* git push: receive_pack validates the commands of the client, then git   *)
(* applies them; git itself refuses a ref that is not at the old value.    *)
(***************************************************************************)
PushOf(s, b, parent) ==
    /\ slot[s].pc = "idle"
    /\ ref[b] # None
    /\ ref[b] = parent \/ "force" \in Serves[s]
    /\ Commit({parent})
    /\ Goto(s, [IdleSlot EXCEPT !.pc = "push", !.branch = b, !.old = ref[b],
                                !.new = NextCommit])

PushStart(s) ==
    /\ "push" \in Serves[s]
    /\ \E u \in Users, b \in Branches, parent \in Made :
        MayWrite(u, b, IsAncestor(ref[b], parent)) /\ PushOf(s, b, parent)
    /\ UNCHANGED <<ref, rows>>

\* The SSH server is built without the validation hook.
SshPushStart(s) ==
    /\ "ssh" \in Serves[s]
    /\ \E b \in Branches, parent \in Made : PushOf(s, b, parent)
    /\ lifted' = {"direct", "force"}
    /\ UNCHANGED <<ref, check, pull, review, rule, edits>>

PushReceive(s) ==
    /\ slot[s].pc = "push"
    /\ ref' = IF ref[slot[s].branch] = slot[s].old
              THEN [ref EXCEPT ![slot[s].branch] = slot[s].new] ELSE ref
    /\ Done(s)
    /\ UNCHANGED <<hist, rows>>

(***************************************************************************)
(* A commit from the browser: commit_contents, commit_files.               *)
(***************************************************************************)
WebStart(s) ==
    /\ "web" \in Serves[s]
    /\ slot[s].pc = "idle"
    /\ \E u \in Users, b \in Branches :
        /\ ref[b] # None => MayWrite(u, b, TRUE)
        /\ Goto(s, [IdleSlot EXCEPT !.pc = "web", !.branch = b])
    /\ UNCHANGED <<ref, hist, rows>>

WebParent(s) ==
    /\ slot[s].pc = "web"
    /\ LET parent == ref[slot[s].branch] IN
        /\ Commit({parent} \ {None})
        /\ Goto(s, [slot[s] EXCEPT !.pc = "webref", !.old = parent, !.new = NextCommit])
    /\ UNCHANGED <<ref, rows>>

\* Mutant: update-ref without the parent.
WebUpdateBlind(s) ==
    /\ slot[s].pc = "webref"
    /\ ref' = [ref EXCEPT ![slot[s].branch] = slot[s].new]
    /\ Done(s)
    /\ UNCHANGED <<hist, rows>>
\* update-ref names the parent, unless the branch was new.
WebUpdate(s) ==
    /\ slot[s].pc = "webref"
    /\ ref' = IF slot[s].old \in {None, ref[slot[s].branch]}
              THEN [ref EXCEPT ![slot[s].branch] = slot[s].new] ELSE ref
    /\ Done(s)
    /\ UNCHANGED <<hist, rows>>

(***************************************************************************)
(* Branches from the browser: create_repo_branch, delete_repo_branch.      *)
(***************************************************************************)
CreateBranch(s) ==
    /\ "branch" \in Serves[s]
    /\ slot[s].pc = "idle"
    /\ \E b \in Branches :
        /\ ref[b] = None
        /\ \E from \in Branches :
            /\ ref[from] # None
            /\ Goto(s, [IdleSlot EXCEPT !.pc = "create", !.branch = b,
                                        !.new = ref[from]])
    /\ UNCHANGED <<ref, hist, rows>>

DeleteBranch(s) ==
    /\ "branch" \in Serves[s]
    /\ slot[s].pc = "idle"
    /\ \E b \in Sources :   \* never the default branch
        /\ ref[b] # None
        /\ Goto(s, [IdleSlot EXCEPT !.pc = "delete", !.branch = b])
    /\ UNCHANGED <<ref, hist, rows>>

\* Neither update-ref names an old value.
BranchUpdate(s) ==
    /\ slot[s].pc \in {"create", "delete"}
    /\ ref' = [ref EXCEPT ![slot[s].branch] = slot[s].new]
    /\ Done(s)
    /\ UNCHANGED <<hist, rows>>

(***************************************************************************)
(* CI (see PipelineRun) and the rows people edit.                          *)
(***************************************************************************)

\* A pipeline of commit c starts, or passes.
CiReport(c) ==
    /\ c \in Made
    /\ check[c] # "success"
    /\ check' = [check EXCEPT ![c] = IF @ = "none" THEN "pending" ELSE "success"]
    /\ UNCHANGED <<ref, hist, pull, review, rule, slot, lifted, edits>>

Edit == edits < MaxEdits /\ edits' = edits + 1

\* create_pull_request compares the two branches, so both exist.
OpenPull(p) ==
    /\ pull[p].state = "none"
    /\ ref[SourceOf[p]] # None
    /\ pull' = [pull EXCEPT ![p].state = "open"]
    /\ UNCHANGED <<ref, hist, check, review, rule, slot, lifted, edits>>

\* create_pull_request_review replaces the reviewer's own earlier review.
Review(p, u) ==
    /\ pull[p].state # "none"
    /\ Edit
    /\ \E verdict \in Reviews :
        review' = [review EXCEPT ![p][u] = verdict]
    /\ UNCHANGED <<ref, hist, check, pull, rule, slot, lifted>>

\* update_branch_protection_rule changes the fields the request carries and
\* leaves the others; create_branch_protection_rule takes defaults for them.
Patched(base, patch) ==
    [f \in DOMAIN base |-> IF f \in DOMAIN patch THEN patch[f] ELSE base[f]]
DefaultRule == [active |-> TRUE, pr |-> TRUE, approvals |-> 1, checks |-> FALSE,
                force |-> FALSE, bypass |-> TRUE]

SetRule(r) ==
    /\ Edit
    /\ rule' = r
    /\ lifted' = lifted \union Lifts(r)
    /\ UNCHANGED <<ref, hist, check, pull, review, slot>>

ASSUME PatchAssumption ==
    \A patch \in Patches, base \in Rules : Patched(base, patch) \in Rules

CreateRule(patch) == ~rule.active /\ SetRule(Patched(DefaultRule, patch))
PatchRule(patch) == rule.active /\ SetRule(Patched(rule, patch))
DeleteRule == rule.active /\ SetRule([rule EXCEPT !.active = FALSE])

\* Mutant: any text is taken for a state.
EditReadRaw(s, p) ==
    /\ slot[s].pc = "idle"
    /\ pull[p].state # "none"
    /\ Edit
    /\ Goto(s, [IdleSlot EXCEPT !.pc = "edit", !.pull = p, !.state = "draft"])
    /\ UNCHANGED <<ref, hist, check, pull, review, rule, lifted>>
\* update_pull_request reads the row, and writes all of it back: the state it
\* read when the request carries none.
EditRead(s, p) ==
    /\ "edit" \in Serves[s]
    /\ slot[s].pc = "idle"
    /\ pull[p].state # "none"
    /\ Edit
    /\ \E st \in {pull[p].state, "open", "closed"} :
        Goto(s, [IdleSlot EXCEPT !.pc = "edit", !.pull = p, !.state = st])
    /\ UNCHANGED <<ref, hist, check, pull, review, rule, lifted>>

EditWrite(s) ==
    /\ slot[s].pc = "edit"
    /\ pull' = [pull EXCEPT ![slot[s].pull].state = slot[s].state]
    /\ Done(s)
    /\ UNCHANGED <<ref, hist, check, review, rule, lifted, edits>>

(***************************************************************************)
(* merge_pull_request.                                                     *)
(***************************************************************************)
SourceRef(s) == ref[SourceOf[slot[s].pull]]

MergeStart(s, p) ==
    /\ "merge" \in Serves[s]
    /\ slot[s].pc = "idle"
    /\ pull[p].state = "open"
    /\ \E how \in {"merge", "squash", "rebase"} :
        Goto(s, [IdleSlot EXCEPT !.pc = "compare", !.pull = p, !.how = how])
    /\ UNCHANGED <<ref, hist, rows>>

\* compare_branches lists the commits of the source that the target lacks,
\* newest first; the gate takes the last of the list.
Ahead(s) == hist[SourceRef(s)] \ hist[ref[Target]]
Oldest(S) == CHOOSE c \in S : \A d \in S : c <= d

MergeCompare(s) ==
    /\ slot[s].pc = "compare"
    /\ IF SourceRef(s) = None
        THEN Done(s)
        ELSE Goto(s, [slot[s] EXCEPT !.pc = "gate",
                          !.gate = IF Ahead(s) = {} THEN None ELSE Oldest(Ahead(s))])
    /\ UNCHANGED <<ref, hist, rows>>

\* fetch_review_summary, ensure_merge_allowed, ensure_ci_passed_for_commit.
Count(p, verdict) == Cardinality({u \in Reviewers : review[p][u] = verdict})

GateOpens(s) ==
    LET c == slot[s].gate  p == slot[s].pull IN
    c # None =>
        /\ rule.active => /\ Count(p, "approved") >= rule.approvals
                          /\ Count(p, "changes_requested") = 0
        /\ IF rule.active /\ rule.checks
           THEN check[c] = "success" ELSE check[c] \in {"none", "success"}

MergeGate(s) ==
    /\ slot[s].pc = "gate"
    /\ IF GateOpens(s) THEN Goto(s, [slot[s] EXCEPT !.pc = "prepare"]) ELSE Done(s)
    /\ UNCHANGED <<ref, hist, rows>>

\* prepare_merge and the head of rebase_branches: refs are read again.  The
\* merge may conflict.
Prepare(s) ==
    /\ slot[s].pc = "prepare"
    /\ \/ Done(s) /\ UNCHANGED hist
       \/ /\ SourceRef(s) # None
          /\ LET t == ref[Target]
                 at == [slot[s] EXCEPT !.old = t, !.src = SourceRef(s)] IN
             IF slot[s].how = "rebase"
             THEN /\ Ahead(s) # {}
                  /\ Goto(s, [at EXCEPT !.pc = "rebased"])
                  /\ UNCHANGED hist
             ELSE /\ Commit({t} \union IF slot[s].how = "merge" THEN {SourceRef(s)} ELSE {})
                  /\ Goto(s, [at EXCEPT !.pc = "land", !.new = NextCommit])
    /\ UNCHANGED <<ref, rows>>

\* git rebase in a worktree of the source branch replays it on the target as
\* it is now, and moves the source branch when it is where it was checked out.
Rebase(s) ==
    /\ slot[s].pc = "rebased"
    /\ IF SourceRef(s) # slot[s].src
       THEN Done(s) /\ UNCHANGED <<ref, hist>>
       ELSE /\ IF IsAncestor(ref[Target], SourceRef(s))
               THEN UNCHANGED <<ref, hist>>
               ELSE /\ Commit({ref[Target]})
                    /\ ref' = [ref EXCEPT ![SourceOf[slot[s].pull]] = NextCommit]
            /\ Goto(s, [slot[s] EXCEPT !.pc = "tip"])
    /\ UNCHANGED rows

RebaseTip(s) ==
    /\ slot[s].pc = "tip"
    /\ IF SourceRef(s) = None THEN Done(s)
       ELSE Goto(s, [slot[s] EXCEPT !.pc = "land", !.new = SourceRef(s), !.src = SourceRef(s)])
    /\ UNCHANGED <<ref, hist, rows>>

\* A merge and a squash set the target whatever it is now
\* (create_commit_and_update_ref); a rebase names the value it read.
Land(s) ==
    /\ slot[s].pc = "land"
    /\ IF slot[s].how = "rebase" /\ ref[Target] # slot[s].old
       THEN Done(s) /\ UNCHANGED ref
       ELSE /\ ref' = [ref EXCEPT ![Target] = slot[s].new]
            /\ Goto(s, [slot[s] EXCEPT !.pc = "row"])
    /\ UNCHANGED <<hist, rows>>

MergeRow(s) ==
    /\ slot[s].pc = "row"
    /\ pull' = [pull EXCEPT ![slot[s].pull] = [state |-> "merged", sha |-> slot[s].new]]
    /\ Done(s)
    /\ UNCHANGED <<ref, hist, check, review, rule, lifted, edits>>

PullsNext ==
    \/ \E s \in Slots :
        \/ PushStart(s) \/ SshPushStart(s) \/ PushReceive(s)
        \/ WebStart(s) \/ WebParent(s) \/ WebUpdate(s)
        \/ CreateBranch(s) \/ DeleteBranch(s) \/ BranchUpdate(s)
        \/ \E p \in Pulls : MergeStart(s, p) \/ EditRead(s, p)
        \/ EditWrite(s) \/ MergeCompare(s) \/ MergeGate(s) \/ Prepare(s)
        \/ Rebase(s) \/ RebaseTip(s) \/ Land(s) \/ MergeRow(s)
    \/ \E c \in Commits : CiReport(c)
    \/ \E p \in Pulls : OpenPull(p) \/ \E u \in Reviewers : Review(p, u)
    \/ \E patch \in Patches : CreateRule(patch) \/ PatchRule(patch)
    \/ DeleteRule

PullsSpec == PullsInit /\ [][PullsNext]_vars

(***************************************************************************)
(* What is promised.                                                       *)
(***************************************************************************)

\* While the rule has always asked for pull requests of everyone, and nobody has
\* pushed over SSH (which does not ask the rule), the target moves by a merge
\* only, whatever pushes, web commits and edits of the rule overlap
\* (validate_push_updates, in a step before each write).
ProtectedByPullRequest ==
    [][ref'[Target] # ref[Target] /\ "direct" \notin lifted =>
          \E s \in Slots : slot[s].pc = "land"]_vars

\* No commit drops out of a branch unless it is a forced push (refused on a
\* protected target), a branch deleted or created, the source of a rebase, or
\* a merge whose target, or rebase whose source, was replaced under it: web
\* commits, rebases and pushes that overlap never overwrite one another.
NoSilentRewind ==
    [][\A b \in Branches :
        ref[b] # None /\ ref'[b] # ref[b] /\ (ref'[b] = None \/ ref[b] \notin hist'[ref'[b]]) =>
          \E s \in Slots :
            /\ slot'[s] # slot[s]
            /\ \/ slot[s].pc = "push" /\ (b # Target \/ "force" \in lifted)
               \/ slot[s].pc \in {"create", "delete"} /\ slot[s].branch = b
               \/ slot[s].pc = "webref" /\ slot[s].old = None
               \/ slot[s].pc = "rebased" /\ b # Target
               \/ slot[s].pc = "land" /\ slot[s].how # "rebase" /\ slot[s].old # ref[b]
               \/ slot[s].pc = "land" /\ slot[s].how = "rebase" /\ ref[b] \notin hist[slot[s].src]
      ]_vars

\* docs/CICD.md:318: "If the PR head commit has required commit_statuses, merge
\* is blocked until every required ci/* check is success".
MergedHeadPassed ==
    [][\A s \in Slots :
          /\ slot[s].pc = "land" /\ slot'[s].pc = "row"
          /\ ~IsAncestor(slot[s].src, slot[s].old)
          => check[slot[s].src] \in {"none", "success"}]_vars
=============================================================================
