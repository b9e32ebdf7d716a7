------------------------ MODULE PullRequests_proofs -------------------------
(***************************************************************************)
(* Proofs about PullRequests, for every set of branches, pull requests and *)
(* handlers: types, that a protected branch moves by a merge only, and     *)
(* that nothing drops out of a branch unseen.                              *)
(***************************************************************************)
EXTENDS PullRequests, FiniteSetTheorems, WellFoundedInduction, TLAPS

SlotRows == [pc : PCs, branch : Branches,
             old : Commits \union {None}, new : Commits \union {None},
             pull : Pulls \union {NoPull}, src : Commits \union {None},
             gate : Commits \union {None}, how : {"merge", "squash", "rebase"},
             state : {"open", "closed", "merged"}]

\* Commits are made in order, each its own ancestor, and heads are commits made.
Histories ==
    /\ \A c \in Made : c \in hist[c]
    /\ Made = 1 .. Cardinality(Made)
    /\ \A b \in Branches : ref[b] # None => ref[b] \in Made
    /\ ref[Target] # None

\* What a handler under way may rely on.
Handled(r) ==
    /\ r.pc \in {"push", "web", "webref"} /\ r.branch = Target => "direct" \in lifted
    /\ r.pc \in {"push", "webref", "land", "create"} => r.new \in Made
    /\ r.pc = "delete" => r.new = None
    /\ r.pc \in {"create", "delete"} => r.branch # Target
    /\ r.pc = "push" /\ r.branch = Target => "force" \in lifted \/ r.old \in hist[r.new]
    /\ r.pc = "webref" /\ r.old # None => r.old \in hist[r.new]
    /\ r.pc = "land" /\ r.how # "rebase" => r.old \in hist[r.new]
    /\ r.pc = "land" /\ r.how = "rebase" => r.new = r.src
    /\ r.pc \in {"rebased", "tip"} => r.how = "rebase"
    /\ r.pc \in {"compare", "gate", "prepare", "land", "rebased", "tip", "row"} => r.pull \in Pulls

PullsInv ==
    /\ PullsTypeOK /\ Histories
    /\ Lifts(rule) \subseteq lifted
    /\ \A s \in Slots : Handled(slot[s])

-----------------------------------------------------------------------------
(* Histories *)

\* Commits made keep their ancestors, and the new ones have theirs.
HistoryGrows ==
    /\ hist' \in [Commits -> SUBSET Commits]
    /\ Made \subseteq Made'
    /\ \A c \in Made : hist'[c] = hist[c]
    /\ \A c \in Made' : c \in hist'[c]
    /\ Made' = 1 .. Cardinality(Made')

LEMMA NoneIsNoCommit == None \notin Commits
BY CommitAssumption DEF None, Commits

LEMMA LeastOfNaturals ==
  ASSUME NEW S \in SUBSET Nat, S # {}
  PROVE  \E low \in S : \A c \in S : low <= c
<1>1. PICK low \in S : \A c \in S : <<c, low>> \notin OpToRel(<, Nat)
  BY NatLessThanWellFounded, WFMin
<1>2. \A c \in S : ~(c < low)
  BY <1>1 DEF OpToRel
<1> QED
  BY <1>2

LEMMA HeadsAreMade ==
  ASSUME PullsInv, NEW b \in Branches, ref[b] # None
  PROVE  ref[b] \in Made /\ ref[b] \in Commits
BY DEF PullsInv, Histories, Made

LEMMA CountOfMade ==
  ASSUME PullsInv
  PROVE  /\ Cardinality(Made) \in Nat
         /\ \A k \in Nat : Made = 1 .. k => Cardinality(Made) = k
<1>1. IsFiniteSet(Commits)
  BY FS_Interval, CommitAssumption DEF Commits
<1>2. Made \subseteq Commits
  BY DEF Made
<1>3. Cardinality(Made) \in Nat
  BY <1>1, <1>2, FS_Subset, FS_CardinalityType
<1>4. ASSUME NEW k \in Nat, Made = 1 .. k PROVE Cardinality(Made) = k
  BY <1>4, FS_Interval
<1> QED
  BY <1>3, <1>4

LEMMA SameHistory == PullsInv /\ hist' = hist => HistoryGrows /\ Made' = Made
<1> SUFFICES ASSUME PullsInv, hist' = hist PROVE HistoryGrows /\ Made' = Made
  OBVIOUS
<1>1. Made' = Made
  BY DEF Made
<1> QED
  BY <1>1 DEF PullsInv, PullsTypeOK, Histories, HistoryGrows

\* A commit is new, descends from its parents, and leaves the others alone.
LEMMA CommitStep ==
  ASSUME PullsInv, NEW parents \in SUBSET Made, Commit(parents)
  PROVE  /\ HistoryGrows
         /\ NextCommit \in Commits /\ NextCommit \in Made'
         /\ \A p \in parents : hist[p] \subseteq hist'[NextCommit]
<1> DEFINE k == Cardinality(Made)
           n == NextCommit
           born == (UNION {hist[p] : p \in parents}) \union {n}
<1>1. /\ k \in Nat /\ Made = 1 .. k /\ k < MaxCommits /\ MaxCommits \in Nat
      /\ hist \in [Commits -> SUBSET Commits] /\ (\A c \in Made : c \in hist[c])
  BY CountOfMade, CommitAssumption DEF PullsInv, PullsTypeOK, Histories, Commit, Room
<1>2. n = k + 1 /\ n \in Commits /\ n \notin Made
  <2>1. n = k + 1
    BY <1>1 DEF NextCommit
  <2> HIDE DEF n, k
  <2> QED
    BY <1>1, <2>1 DEF Commits
<1>3. \A p \in parents : hist[p] \in SUBSET Commits
  BY <1>1 DEF Made
<1>4. hist' = [hist EXCEPT ![n] = born] /\ born \in SUBSET Commits /\ n \in born
  <2>1. hist' = [hist EXCEPT ![n] = born]
    BY DEF Commit
  <2>2. UNION {hist[p] : p \in parents} \subseteq Commits
    BY <1>3
  <2> HIDE DEF n
  <2>3. born \subseteq Commits /\ n \in born
    BY <1>2, <2>2
  <2> QED
    BY <2>1, <2>3
<1> HIDE DEF born, n
<1>5. /\ hist' \in [Commits -> SUBSET Commits] /\ hist'[n] = born
      /\ \A c \in Commits \ {n} : hist'[c] = hist[c]
  BY <1>1, <1>2, <1>4
<1>6. Made' = Made \union {n}
  <2>1. \A c \in Commits : hist'[c] # {} <=> hist[c] # {} \/ c = n
    BY <1>4, <1>5
  <2> QED
    BY <1>2, <2>1 DEF Made
<1>7. Made' = 1 .. Cardinality(Made')
  <2>1. Made' = 1 .. (k + 1)
    BY <1>1, <1>2, <1>6
  <2>2. Cardinality(1 .. (k + 1)) = k + 1
    BY <1>1, FS_Interval
  <2> QED
    BY <2>1, <2>2
<1>8. \A c \in Made : hist'[c] = hist[c]
  BY <1>2, <1>5 DEF Made
<1>9. HistoryGrows
  <2>1. \A c \in Made' : c \in hist'[c]
    BY <1>1, <1>4, <1>5, <1>6, <1>8
  <2> QED
    BY <1>5, <1>6, <1>7, <1>8, <2>1 DEF HistoryGrows
<1>10. \A p \in parents : hist[p] \subseteq hist'[n]
  BY <1>5 DEF born
<1> QED
  BY <1>2, <1>6, <1>9, <1>10 DEF n

-----------------------------------------------------------------------------
(* One handler's step *)

LEMMA HandledStays ==
  ASSUME NEW r, Handled(r), HistoryGrows, lifted \subseteq lifted'
  PROVE  Handled(r)'
BY DEF Handled, HistoryGrows

LEMMA SlotStep ==
  ASSUME PullsInv, NEW s \in Slots, NEW r \in SlotRows,
         slot' = [slot EXCEPT ![s] = r], slot'[s] = r => Handled(slot[s])',
         HistoryGrows,
         ref' \in [Branches -> Commits \union {None}], ref'[Target] # None,
         \A b \in Branches : ref'[b] # None => ref'[b] \in Made',
         pull' \in [Pulls -> [state : {"none", "open", "closed", "merged"},
                              sha : Commits \union {None}]],
         lifted' \in SUBSET {"direct", "force"}, lifted \subseteq lifted',
         edits' \in 0 .. MaxEdits,
         UNCHANGED <<check, review, rule>>
  PROVE  PullsInv'
<1>1. /\ slot \in [Slots -> SlotRows] /\ (\A q \in Slots : Handled(slot[q]))
      /\ Lifts(rule) \subseteq lifted
  BY DEF PullsInv, PullsTypeOK, SlotRows
<1>2. /\ slot' \in [Slots -> SlotRows] /\ slot'[s] = r
      /\ \A q \in Slots \ {s} : slot'[q] = slot[q]
  BY <1>1
<1>3. PullsTypeOK'
  BY <1>2 DEF PullsInv, PullsTypeOK, SlotRows, HistoryGrows
<1>4. Histories'
  BY DEF Histories, HistoryGrows
<1>5. Lifts(rule)' \subseteq lifted'
  BY <1>1 DEF Lifts
<1>6. ASSUME NEW q \in Slots PROVE Handled(slot[q])'
  <2>1. CASE q = s
    BY <1>2, <2>1
  <2>2. CASE q # s
    <3>1. \A x : Handled(x) => Handled(x)'
      BY HandledStays
    <3>2. Handled(slot'[q])
      BY <1>1, <1>2, <2>2
    <3> QED
      BY <3>1, <3>2 DEF Handled
  <2> QED
    BY <2>1, <2>2
<1> QED
  BY <1>3, <1>4, <1>5, <1>6 DEF PullsInv

\* A step that moves no branch and edits no row.
LEMMA QuietStep ==
  ASSUME PullsInv, NEW s \in Slots, NEW r \in SlotRows,
         slot' = [slot EXCEPT ![s] = r], slot'[s] = r => Handled(slot[s])',
         HistoryGrows, UNCHANGED <<ref, rows>>
  PROVE  PullsInv'
<1>1. /\ ref' \in [Branches -> Commits \union {None}] /\ ref'[Target] # None
      /\ \A b \in Branches : ref'[b] # None => ref'[b] \in Made'
  BY DEF PullsInv, PullsTypeOK, Histories, HistoryGrows
<1>2. /\ pull' \in [Pulls -> [state : {"none", "open", "closed", "merged"},
                              sha : Commits \union {None}]]
      /\ lifted' \in SUBSET {"direct", "force"} /\ lifted \subseteq lifted'
      /\ edits' \in 0 .. MaxEdits /\ UNCHANGED <<check, review, rule>>
  BY DEF PullsInv, PullsTypeOK, rows
<1> QED
  BY <1>1, <1>2, SlotStep

LEMMA IdleFits == IdleSlot \in SlotRows /\ Handled(IdleSlot) /\ IdleSlot.pc = "idle"
BY DEF IdleSlot, SlotRows, Handled, PCs, Branches

LEMMA DoneStep ==
  ASSUME PullsInv, NEW s \in Slots, Done(s), UNCHANGED <<ref, hist, rows>>
  PROVE  PullsInv'
<1>1. slot' = [slot EXCEPT ![s] = IdleSlot]
  BY DEF Done, Goto
<1>2. slot'[s] = IdleSlot => Handled(slot[s])'
  BY DEF Handled, IdleSlot
<1> QED
  BY <1>1, <1>2, IdleFits, SameHistory, QuietStep

-----------------------------------------------------------------------------
(* Pushes, commits from the browser, branches *)

\* Who may write the target is one the rule has been lifted for.
LEMMA WritersAreLifted ==
  ASSUME PullsInv, NEW u \in Users, NEW b \in Branches, NEW keeps \in BOOLEAN,
         MayWrite(u, b, keeps), b = Target
  PROVE  "direct" \in lifted /\ ("force" \in lifted \/ keeps)
BY DEF PullsInv, MayWrite, Lifts

LEMMA PushStep ==
  ASSUME PullsInv, NEW s \in Slots, NEW b \in Branches, NEW parent \in Made,
         PushOf(s, b, parent), UNCHANGED <<ref, check, pull, review, rule, edits>>,
         lifted' \in SUBSET {"direct", "force"}, lifted \subseteq lifted',
         b = Target => "direct" \in lifted' /\ ("force" \in lifted' \/ ref[b] \in hist[parent])
  PROVE  PullsInv'
<1> DEFINE r == [IdleSlot EXCEPT !.pc = "push", !.branch = b, !.old = ref[b], !.new = NextCommit]
<1>1. /\ ref[b] \in Commits /\ Commit({parent}) /\ slot' = [slot EXCEPT ![s] = r]
  BY HeadsAreMade DEF PushOf, Goto
<1>2. /\ HistoryGrows /\ NextCommit \in Commits /\ NextCommit \in Made'
      /\ hist[parent] \subseteq hist'[NextCommit]
  BY <1>1, CommitStep
<1>3. /\ r \in SlotRows /\ r.pc = "push" /\ r.branch = b /\ r.old = ref[b] /\ r.new = NextCommit
  BY <1>1, <1>2 DEF SlotRows, IdleSlot, PCs
<1> HIDE DEF r
<1>4. slot'[s] = r => Handled(slot[s])'
  BY <1>2, <1>3 DEF Handled
<1>5. /\ ref' \in [Branches -> Commits \union {None}] /\ ref'[Target] # None
      /\ (\A c \in Branches : ref'[c] # None => ref'[c] \in Made')
      /\ pull' \in [Pulls -> [state : {"none", "open", "closed", "merged"},
                              sha : Commits \union {None}]]
      /\ edits' \in 0 .. MaxEdits
  BY <1>2 DEF PullsInv, PullsTypeOK, Histories, HistoryGrows
<1> QED
  BY <1>1, <1>2, <1>3, <1>4, <1>5, SlotStep

LEMMA PushesKeepInv ==
  ASSUME PullsInv, NEW s \in Slots, PushStart(s) \/ SshPushStart(s)
  PROVE  PullsInv'
<1>1. CASE PushStart(s)
  <2>1. PICK u \in Users, b \in Branches, parent \in Made :
          MayWrite(u, b, IsAncestor(ref[b], parent)) /\ PushOf(s, b, parent)
    BY <1>1 DEF PushStart
  <2>2. UNCHANGED <<ref, check, pull, review, rule, edits, lifted>>
    BY <1>1 DEF PushStart, rows
  <2>3. IsAncestor(ref[b], parent) \in BOOLEAN
    BY DEF IsAncestor
  <2>4. b = Target => "direct" \in lifted /\ ("force" \in lifted \/ ref[b] \in hist[parent])
    BY <2>1, <2>3, WritersAreLifted DEF IsAncestor
  <2>5. lifted \in SUBSET {"direct", "force"}
    BY DEF PullsInv, PullsTypeOK
  <2> QED
    BY <2>1, <2>2, <2>4, <2>5, PushStep
<1>2. CASE SshPushStart(s)
  <2>1. PICK b \in Branches, parent \in Made : PushOf(s, b, parent)
    BY <1>2 DEF SshPushStart
  <2>2. UNCHANGED <<ref, check, pull, review, rule, edits>> /\ lifted' = {"direct", "force"}
    BY <1>2 DEF SshPushStart
  <2>3. lifted \subseteq {"direct", "force"}
    BY DEF PullsInv, PullsTypeOK
  <2> QED
    BY <2>1, <2>2, <2>3, PushStep
<1> QED
  BY <1>1, <1>2

\* A handler that writes one ref and is done.
LEMMA RefStep ==
  ASSUME PullsInv, NEW s \in Slots, NEW b \in Branches, NEW c \in Commits \union {None},
         ref' = [ref EXCEPT ![b] = c], c # None => c \in Made, b = Target => c # None,
         Done(s), UNCHANGED <<hist, rows>>
  PROVE  PullsInv'
<1>1. slot' = [slot EXCEPT ![s] = IdleSlot]
  BY DEF Done, Goto
<1>2. slot'[s] = IdleSlot => Handled(slot[s])'
  BY DEF Handled, IdleSlot
<1>3. HistoryGrows /\ Made' = Made
  BY SameHistory DEF rows
<1>4. /\ ref \in [Branches -> Commits \union {None}] /\ ref[Target] # None
      /\ (\A x \in Branches : ref[x] # None => ref[x] \in Made)
      /\ pull' \in [Pulls -> [state : {"none", "open", "closed", "merged"},
                              sha : Commits \union {None}]]
      /\ lifted' \in SUBSET {"direct", "force"} /\ lifted \subseteq lifted'
      /\ edits' \in 0 .. MaxEdits /\ UNCHANGED <<check, review, rule>>
  BY DEF PullsInv, PullsTypeOK, Histories, rows
<1>5. /\ ref' \in [Branches -> Commits \union {None}] /\ ref'[Target] # None
      /\ (\A x \in Branches : ref'[x] # None => ref'[x] \in Made')
  BY <1>3, <1>4 DEF Branches
<1> QED
  BY <1>1, <1>2, <1>3, <1>4, <1>5, IdleFits, SlotStep

LEMMA RefWritesKeepInv ==
  ASSUME PullsInv, NEW s \in Slots, PushReceive(s) \/ WebUpdate(s) \/ BranchUpdate(s)
  PROVE  PullsInv'
<1>1. slot[s] \in SlotRows /\ Handled(slot[s])
  BY DEF PullsInv, PullsTypeOK, SlotRows
<1>2. Done(s) /\ UNCHANGED <<hist, rows>> /\ slot[s].pc \in {"push", "webref", "create", "delete"}
  BY DEF PushReceive, WebUpdate, BranchUpdate
<1>3. /\ slot[s].branch \in Branches /\ slot[s].new \in Commits \union {None}
      /\ slot[s].new # None => slot[s].new \in Made
      /\ slot[s].branch = Target => slot[s].new # None
  BY <1>1, <1>2, NoneIsNoCommit DEF SlotRows, Handled, Made
<1>4. CASE ref' = ref
  BY <1>2, <1>4, DoneStep
<1>5. CASE ref' = [ref EXCEPT ![slot[s].branch] = slot[s].new]
  BY <1>2, <1>3, <1>5, RefStep
<1> QED
  BY <1>4, <1>5 DEF PushReceive, WebUpdate, BranchUpdate

LEMMA WebStartKeepsInv ==
  ASSUME PullsInv, NEW s \in Slots, WebStart(s)
  PROVE  PullsInv'
<1>1. PICK u \in Users, b \in Branches :
        /\ ref[b] # None => MayWrite(u, b, TRUE)
        /\ slot' = [slot EXCEPT ![s] = [IdleSlot EXCEPT !.pc = "web", !.branch = b]]
  BY DEF WebStart, Goto
<1> DEFINE r == [IdleSlot EXCEPT !.pc = "web", !.branch = b]
<1>2. r \in SlotRows /\ r.pc = "web" /\ r.branch = b
  BY NoneIsNoCommit DEF SlotRows, IdleSlot, PCs
<1> HIDE DEF r
<1>3. UNCHANGED <<ref, hist, rows>> /\ lifted' = lifted
  BY DEF WebStart, rows
<1>4. b = Target => "direct" \in lifted
  BY <1>1, WritersAreLifted DEF PullsInv, Histories
<1>5. slot'[s] = r => Handled(slot[s])'
  BY <1>2, <1>3, <1>4 DEF Handled
<1> QED
  BY <1>1, <1>2, <1>3, <1>5, SameHistory, QuietStep DEF r

LEMMA WebParentKeepsInv ==
  ASSUME PullsInv, NEW s \in Slots, WebParent(s)
  PROVE  PullsInv'
<1> DEFINE parent == ref[slot[s].branch]
           r == [slot[s] EXCEPT !.pc = "webref", !.old = parent, !.new = NextCommit]
<1>1. /\ slot[s] \in SlotRows /\ Handled(slot[s]) /\ slot[s].pc = "web"
      /\ parent \in Commits \union {None}
  BY DEF PullsInv, PullsTypeOK, SlotRows, WebParent
<1>2. Commit({parent} \ {None}) /\ slot' = [slot EXCEPT ![s] = r] /\ UNCHANGED <<ref, rows>>
  BY DEF WebParent, Goto
<1>3. parent # None => parent \in Made /\ parent \in hist[parent]
  BY <1>1, HeadsAreMade DEF SlotRows, PullsInv, Histories
<1> HIDE DEF parent
<1>4. {parent} \ {None} \in SUBSET Made
  BY <1>3
<1>5. /\ HistoryGrows /\ NextCommit \in Commits /\ NextCommit \in Made'
      /\ \A p \in {parent} \ {None} : hist[p] \subseteq hist'[NextCommit]
  BY <1>2, <1>4, CommitStep
<1>6. /\ r \in SlotRows /\ r.pc = "webref" /\ r.old = parent /\ r.new = NextCommit
      /\ r.branch = slot[s].branch
  BY <1>1, <1>5 DEF SlotRows, PCs
<1> HIDE DEF r
<1>7. slot'[s] = r => Handled(slot[s])'
  <2>1. lifted' = lifted
    BY <1>2 DEF rows
  <2>2. parent # None => parent \in hist'[NextCommit]
    BY <1>3, <1>5
  <2> QED
    BY <1>1, <1>5, <1>6, <2>1, <2>2 DEF Handled
<1> QED
  BY <1>2, <1>5, <1>6, <1>7, QuietStep

LEMMA BranchesKeepInv ==
  ASSUME PullsInv, NEW s \in Slots, CreateBranch(s) \/ DeleteBranch(s)
  PROVE  PullsInv'
<1>0. UNCHANGED <<ref, hist, rows>>
  BY DEF CreateBranch, DeleteBranch
<1>1. HistoryGrows /\ Made' = Made
  BY <1>0, SameHistory
<1>2. CASE CreateBranch(s)
  <2>1. PICK b \in Branches, from \in Branches :
          /\ ref[b] = None /\ ref[from] # None
          /\ slot' = [slot EXCEPT ![s] = [IdleSlot EXCEPT !.pc = "create", !.branch = b,
                                                          !.new = ref[from]]]
    BY <1>2 DEF CreateBranch, Goto
  <2> DEFINE r == [IdleSlot EXCEPT !.pc = "create", !.branch = b, !.new = ref[from]]
  <2>2. ref[from] \in Made /\ ref[from] \in Commits /\ b # Target
    BY <2>1, HeadsAreMade DEF PullsInv, Histories
  <2>3. r \in SlotRows /\ r.pc = "create" /\ r.branch = b /\ r.new = ref[from]
    BY <2>2 DEF SlotRows, IdleSlot, PCs
  <2> HIDE DEF r
  <2>4. slot'[s] = r => Handled(slot[s])'
    BY <1>1, <2>2, <2>3 DEF Handled
  <2> QED
    BY <1>0, <1>1, <2>1, <2>3, <2>4, QuietStep DEF r
<1>3. CASE DeleteBranch(s)
  <2>1. PICK b \in Sources :
          slot' = [slot EXCEPT ![s] = [IdleSlot EXCEPT !.pc = "delete", !.branch = b]]
    BY <1>3 DEF DeleteBranch, Goto
  <2> DEFINE r == [IdleSlot EXCEPT !.pc = "delete", !.branch = b]
  <2>2. b # Target
    BY BranchAssumption
  <2>3. r \in SlotRows /\ r.pc = "delete" /\ r.branch = b /\ r.new = None
    BY DEF SlotRows, IdleSlot, PCs, Branches
  <2> HIDE DEF r
  <2>4. slot'[s] = r => Handled(slot[s])'
    BY <2>2, <2>3 DEF Handled
  <2> QED
    BY <1>0, <1>1, <2>1, <2>3, <2>4, QuietStep DEF r
<1> QED
  BY <1>2, <1>3

-----------------------------------------------------------------------------
(* Merges *)

MergePCs == {"compare", "gate", "prepare", "land", "rebased", "tip", "row"}

\* A merge goes on and neither commits nor moves a branch.
LEMMA MergeGoesOn ==
  ASSUME PullsInv, NEW s \in Slots, NEW r \in SlotRows,
         slot' = [slot EXCEPT ![s] = r], UNCHANGED <<ref, hist, rows>>,
         r.pc \in {"compare", "gate", "prepare", "rebased", "tip"},
         r.pc \in {"rebased", "tip"} => r.how = "rebase",
         r.pull \in Pulls
  PROVE  PullsInv'
<1>1. slot'[s] = r => Handled(slot[s])'
  BY DEF Handled
<1> QED
  BY <1>1, SameHistory, QuietStep

LEMMA MergeStartKeepsInv ==
  ASSUME PullsInv, NEW s \in Slots, NEW p \in Pulls, MergeStart(s, p)
  PROVE  PullsInv'
<1>1. PICK how \in {"merge", "squash", "rebase"} :
        slot' = [slot EXCEPT ![s] = [IdleSlot EXCEPT !.pc = "compare", !.pull = p, !.how = how]]
  BY DEF MergeStart, Goto
<1> DEFINE r == [IdleSlot EXCEPT !.pc = "compare", !.pull = p, !.how = how]
<1>2. r \in SlotRows /\ r.pc = "compare" /\ r.pull = p
  BY DEF SlotRows, IdleSlot, PCs, Branches
<1>3. UNCHANGED <<ref, hist, rows>>
  BY DEF MergeStart
<1> HIDE DEF r
<1> QED
  BY <1>1, <1>2, <1>3, MergeGoesOn DEF r

LEMMA GateKeepsInv ==
  ASSUME PullsInv, NEW s \in Slots, MergeCompare(s) \/ MergeGate(s)
  PROVE  PullsInv'
<1>1. /\ slot[s] \in SlotRows /\ Handled(slot[s]) /\ slot[s].pc \in {"compare", "gate"}
      /\ UNCHANGED <<ref, hist, rows>> /\ hist \in [Commits -> SUBSET Commits]
  BY DEF PullsInv, PullsTypeOK, SlotRows, MergeCompare, MergeGate
<1>2. slot[s].pull \in Pulls
  BY <1>1 DEF Handled
<1>3. CASE Done(s)
  BY <1>1, <1>3, DoneStep
<1>4. CASE MergeCompare(s) /\ ~Done(s)
  <2> DEFINE gate == IF Ahead(s) = {} THEN None ELSE Oldest(Ahead(s))
             r == [slot[s] EXCEPT !.pc = "gate", !.gate = gate]
  <2>1. slot' = [slot EXCEPT ![s] = r] /\ SourceRef(s) # None
    BY <1>4 DEF MergeCompare, Goto
  <2>2. gate \in Commits \union {None}
    <3>1. SourceOf[slot[s].pull] \in Branches
      BY <1>2, BranchAssumption DEF Branches
    <3>2. SourceRef(s) \in Commits
      BY <2>1, <3>1, HeadsAreMade DEF SourceRef
    <3>3. Ahead(s) \subseteq Commits
      BY <1>1, <3>2 DEF Ahead
    <3>4. ASSUME Ahead(s) # {} PROVE Oldest(Ahead(s)) \in Commits
      <4>1. Ahead(s) \subseteq Nat
        BY <3>3, CommitAssumption DEF Commits
      <4>2. \E low \in Ahead(s) : \A c \in Ahead(s) : low <= c
        BY <3>4, <4>1, LeastOfNaturals
      <4> QED
        BY <3>3, <4>2 DEF Oldest
    <3> QED
      BY <3>4
  <2> HIDE DEF gate
  <2>3. r \in SlotRows /\ r.pc = "gate" /\ r.pull = slot[s].pull
    BY <1>1, <2>2 DEF SlotRows, PCs
  <2> HIDE DEF r
  <2> QED
    BY <1>1, <1>2, <2>1, <2>3, MergeGoesOn
<1>5. CASE MergeGate(s) /\ ~Done(s)
  <2> DEFINE r == [slot[s] EXCEPT !.pc = "prepare"]
  <2>1. slot' = [slot EXCEPT ![s] = r]
    BY <1>5 DEF MergeGate, Goto
  <2>2. r \in SlotRows /\ r.pc = "prepare" /\ r.pull = slot[s].pull
    BY <1>1 DEF SlotRows, PCs
  <2> HIDE DEF r
  <2> QED
    BY <1>1, <1>2, <2>1, <2>2, MergeGoesOn
<1> QED
  BY <1>3, <1>4, <1>5

LEMMA SourceIsBranch ==
  ASSUME PullsInv, NEW s \in Slots, slot[s].pc \in MergePCs
  PROVE  /\ SourceOf[slot[s].pull] \in Sources /\ SourceOf[slot[s].pull] \in Branches
         /\ SourceOf[slot[s].pull] # Target
         /\ SourceRef(s) # None => SourceRef(s) \in Made /\ SourceRef(s) \in Commits
<1>1. SourceOf[slot[s].pull] \in Sources
  BY BranchAssumption DEF PullsInv, Handled, MergePCs
<1>2. SourceOf[slot[s].pull] \in Branches /\ SourceOf[slot[s].pull] # Target
  BY <1>1, BranchAssumption DEF Branches
<1> QED
  BY <1>1, <1>2, HeadsAreMade DEF SourceRef

LEMMA TargetIsMade ==
  ASSUME PullsInv
  PROVE  ref[Target] \in Made /\ ref[Target] \in Commits /\ ref[Target] \in hist[ref[Target]]
BY HeadsAreMade DEF PullsInv, Histories, Branches

LEMMA PrepareKeepsInv ==
  ASSUME PullsInv, NEW s \in Slots, Prepare(s)
  PROVE  PullsInv'
<1>1. /\ slot[s] \in SlotRows /\ Handled(slot[s]) /\ slot[s].pc = "prepare"
      /\ UNCHANGED <<ref, rows>>
  BY DEF PullsInv, PullsTypeOK, SlotRows, Prepare
<1>2. slot[s].pull \in Pulls
  BY <1>1 DEF Handled
<1>3. CASE Done(s) /\ UNCHANGED hist
  BY <1>1, <1>3, DoneStep
<1>4. CASE ~(Done(s) /\ UNCHANGED hist)
  <2>1. /\ SourceRef(s) # None
        /\ SourceRef(s) \in Made /\ SourceRef(s) \in Commits
    BY <1>1, <1>4, SourceIsBranch DEF Prepare, MergePCs
  <2> DEFINE src == SourceRef(s)
             t == ref[Target]
             at == [slot[s] EXCEPT !.old = t, !.src = src]
  <2>2. t \in Made /\ t \in Commits /\ t \in hist[t]
    BY TargetIsMade
  <2>3. CASE slot[s].how = "rebase"
    <3> DEFINE r == [at EXCEPT !.pc = "rebased"]
    <3>1. slot' = [slot EXCEPT ![s] = r] /\ UNCHANGED hist
      BY <1>4, <2>3 DEF Prepare, Goto
    <3> HIDE DEF t, src
    <3>2. r \in SlotRows /\ r.pc = "rebased" /\ r.pull = slot[s].pull /\ r.how = slot[s].how
      BY <1>1, <2>1, <2>2 DEF SlotRows, PCs, src
    <3> HIDE DEF r
    <3> QED
      BY <1>1, <1>2, <2>3, <3>1, <3>2, MergeGoesOn
  <2>4. CASE slot[s].how # "rebase"
    <3> DEFINE parents == {t} \union IF slot[s].how = "merge" THEN {src} ELSE {}
               r == [at EXCEPT !.pc = "land", !.new = NextCommit]
    <3>1. slot' = [slot EXCEPT ![s] = r] /\ Commit(parents)
      BY <1>4, <2>4 DEF Prepare, Goto
    <3> HIDE DEF t, src
    <3>2. parents \in SUBSET Made /\ t \in parents
      BY <2>1, <2>2 DEF src
    <3> HIDE DEF parents
    <3>3. /\ HistoryGrows /\ NextCommit \in Commits /\ NextCommit \in Made'
          /\ t \in hist'[NextCommit]
      BY <2>2, <3>1, <3>2, CommitStep
    <3>4. /\ r \in SlotRows /\ r.pc = "land" /\ r.pull = slot[s].pull /\ r.new = NextCommit
          /\ r.old = t /\ r.how = slot[s].how
      BY <1>1, <2>1, <2>2, <3>3 DEF SlotRows, PCs, src
    <3> HIDE DEF r
    <3>5. slot'[s] = r => Handled(slot[s])'
      BY <1>2, <2>4, <3>3, <3>4 DEF Handled
    <3> QED
      BY <1>1, <3>1, <3>3, <3>4, <3>5, QuietStep
  <2> QED
    BY <2>3, <2>4
<1> QED
  BY <1>3, <1>4

LEMMA RebaseKeepsInv ==
  ASSUME PullsInv, NEW s \in Slots, Rebase(s)
  PROVE  PullsInv'
<1>1. /\ slot[s] \in SlotRows /\ Handled(slot[s]) /\ slot[s].pc = "rebased" /\ UNCHANGED rows
  BY DEF PullsInv, PullsTypeOK, SlotRows, Rebase
<1>2. slot[s].pull \in Pulls
  BY <1>1 DEF Handled
<1>3. CASE Done(s) /\ UNCHANGED <<ref, hist>>
  BY <1>1, <1>3, DoneStep
<1>4. CASE ~(Done(s) /\ UNCHANGED <<ref, hist>>)
  <2> DEFINE r == [slot[s] EXCEPT !.pc = "tip"]
             b == SourceOf[slot[s].pull]
  <2>1. slot' = [slot EXCEPT ![s] = r]
    BY <1>4 DEF Rebase, Goto
  <2>2. r \in SlotRows /\ r.pc = "tip" /\ r.pull = slot[s].pull /\ r.how = "rebase"
    BY <1>1 DEF SlotRows, PCs, Handled
  <2> HIDE DEF r
  <2>3. CASE UNCHANGED <<ref, hist>>
    BY <1>1, <1>2, <2>1, <2>2, <2>3, MergeGoesOn
  <2>4. CASE ~UNCHANGED <<ref, hist>>
    <3>1. Commit({ref[Target]}) /\ ref' = [ref EXCEPT ![b] = NextCommit]
      BY <1>4, <2>4 DEF Rebase
    <3>2. b \in Branches /\ b # Target
      BY <1>1, SourceIsBranch DEF MergePCs
    <3> HIDE DEF b
    <3>3. HistoryGrows /\ NextCommit \in Commits /\ NextCommit \in Made'
      BY <3>1, TargetIsMade, CommitStep
    <3>4. slot'[s] = r => Handled(slot[s])'
      BY <1>2, <2>2 DEF Handled
    <3>5. /\ ref \in [Branches -> Commits \union {None}] /\ ref[Target] # None
          /\ (\A x \in Branches : ref[x] # None => ref[x] \in Made)
          /\ pull' \in [Pulls -> [state : {"none", "open", "closed", "merged"},
                                  sha : Commits \union {None}]]
          /\ lifted' \in SUBSET {"direct", "force"} /\ lifted \subseteq lifted'
          /\ edits' \in 0 .. MaxEdits /\ UNCHANGED <<check, review, rule>>
      BY <1>1 DEF PullsInv, PullsTypeOK, Histories, rows
    <3>6. /\ ref' \in [Branches -> Commits \union {None}] /\ ref'[Target] # None
          /\ (\A x \in Branches : ref'[x] # None => ref'[x] \in Made')
      BY <3>1, <3>2, <3>3, <3>5 DEF Branches, HistoryGrows
    <3> QED
      BY <2>1, <2>2, <3>3, <3>4, <3>5, <3>6, SlotStep
  <2> QED
    BY <2>3, <2>4
<1> QED
  BY <1>3, <1>4

LEMMA RebaseTipKeepsInv ==
  ASSUME PullsInv, NEW s \in Slots, RebaseTip(s)
  PROVE  PullsInv'
<1>1. /\ slot[s] \in SlotRows /\ Handled(slot[s]) /\ slot[s].pc = "tip"
      /\ UNCHANGED <<ref, hist, rows>>
  BY DEF PullsInv, PullsTypeOK, SlotRows, RebaseTip
<1>2. slot[s].pull \in Pulls
  BY <1>1 DEF Handled
<1>3. CASE Done(s)
  BY <1>1, <1>3, DoneStep
<1>4. CASE ~Done(s)
  <2> DEFINE src == SourceRef(s)
             r == [slot[s] EXCEPT !.pc = "land", !.new = src, !.src = src]
  <2>1. slot' = [slot EXCEPT ![s] = r] /\ src # None
    BY <1>4 DEF RebaseTip, Goto
  <2>2. src \in Made /\ src \in Commits
    BY <1>1, <2>1, SourceIsBranch DEF MergePCs
  <2> HIDE DEF src
  <2>3. /\ r \in SlotRows /\ r.pc = "land" /\ r.pull = slot[s].pull /\ r.new = src /\ r.src = src
        /\ r.how = slot[s].how
    BY <1>1, <2>2 DEF SlotRows, PCs
  <2> HIDE DEF r
  <2>4. slot[s].how = "rebase"
    BY <1>1 DEF Handled
  <2>5. HistoryGrows /\ Made' = Made
    BY <1>1, SameHistory
  <2>6. slot'[s] = r => Handled(slot[s])'
    BY <1>2, <2>2, <2>3, <2>4, <2>5 DEF Handled
  <2> QED
    BY <1>1, <2>1, <2>3, <2>5, <2>6, QuietStep
<1> QED
  BY <1>3, <1>4

LEMMA LandKeepsInv ==
  ASSUME PullsInv, NEW s \in Slots, Land(s)
  PROVE  PullsInv'
<1>1. /\ slot[s] \in SlotRows /\ Handled(slot[s]) /\ slot[s].pc = "land"
      /\ UNCHANGED <<hist, rows>>
  BY DEF PullsInv, PullsTypeOK, SlotRows, Land
<1>2. slot[s].pull \in Pulls /\ slot[s].new \in Made /\ slot[s].new \in Commits
  BY <1>1 DEF Handled, Made
<1>3. CASE Done(s) /\ UNCHANGED ref
  BY <1>1, <1>3, DoneStep
<1>4. CASE ~(Done(s) /\ UNCHANGED ref)
  <2> DEFINE r == [slot[s] EXCEPT !.pc = "row"]
  <2>1. slot' = [slot EXCEPT ![s] = r] /\ ref' = [ref EXCEPT ![Target] = slot[s].new]
    BY <1>4 DEF Land, Goto
  <2>2. r \in SlotRows /\ r.pc = "row" /\ r.pull = slot[s].pull
    BY <1>1 DEF SlotRows, PCs
  <2> HIDE DEF r
  <2>3. HistoryGrows /\ Made' = Made
    BY <1>1, SameHistory
  <2>4. slot'[s] = r => Handled(slot[s])'
    BY <1>2, <2>2 DEF Handled
  <2>5. /\ ref \in [Branches -> Commits \union {None}]
        /\ (\A x \in Branches : ref[x] # None => ref[x] \in Made)
        /\ pull' \in [Pulls -> [state : {"none", "open", "closed", "merged"},
                                sha : Commits \union {None}]]
        /\ lifted' \in SUBSET {"direct", "force"} /\ lifted \subseteq lifted'
        /\ edits' \in 0 .. MaxEdits /\ UNCHANGED <<check, review, rule>>
    BY <1>1 DEF PullsInv, PullsTypeOK, Histories, rows
  <2>6. /\ ref' \in [Branches -> Commits \union {None}] /\ ref'[Target] # None
        /\ (\A x \in Branches : ref'[x] # None => ref'[x] \in Made')
    BY <1>2, <2>1, <2>3, <2>5, NoneIsNoCommit DEF Branches
  <2> QED
    BY <2>1, <2>2, <2>3, <2>4, <2>5, <2>6, SlotStep
<1> QED
  BY <1>3, <1>4

-----------------------------------------------------------------------------
(* Rows *)

LEMMA PullWritesKeepInv ==
  ASSUME PullsInv, NEW s \in Slots, EditWrite(s) \/ MergeRow(s)
  PROVE  PullsInv'
<1>1. /\ slot[s] \in SlotRows /\ slot' = [slot EXCEPT ![s] = IdleSlot]
      /\ UNCHANGED <<ref, hist, check, review, rule, lifted, edits>>
      /\ pull \in [Pulls -> [state : {"none", "open", "closed", "merged"},
                             sha : Commits \union {None}]]
  BY DEF PullsInv, PullsTypeOK, SlotRows, EditWrite, MergeRow, Done, Goto
<1>2. pull' \in [Pulls -> [state : {"none", "open", "closed", "merged"},
                          sha : Commits \union {None}]]
  <2>1. CASE EditWrite(s)
    <3>1. slot[s].state \in {"open", "closed", "merged"}
      BY <1>1 DEF SlotRows
    <3> QED
      BY <1>1, <2>1, <3>1 DEF EditWrite
  <2>2. CASE MergeRow(s)
    <3>1. slot[s].new \in Commits \union {None}
      BY <1>1 DEF SlotRows
    <3> QED
      BY <1>1, <2>2, <3>1 DEF MergeRow
  <2> QED
    BY <2>1, <2>2
<1>3. slot'[s] = IdleSlot => Handled(slot[s])'
  BY DEF Handled, IdleSlot
<1>4. HistoryGrows /\ Made' = Made
  BY <1>1, SameHistory
<1>5. /\ ref' \in [Branches -> Commits \union {None}] /\ ref'[Target] # None
      /\ (\A x \in Branches : ref'[x] # None => ref'[x] \in Made')
      /\ lifted' \in SUBSET {"direct", "force"} /\ lifted \subseteq lifted'
      /\ edits' \in 0 .. MaxEdits
  BY <1>1, <1>4 DEF PullsInv, PullsTypeOK, Histories
<1> QED
  BY <1>1, <1>2, <1>3, <1>4, <1>5, IdleFits, SlotStep

LEMMA EditReadKeepsInv ==
  ASSUME PullsInv, NEW s \in Slots, NEW p \in Pulls, EditRead(s, p)
  PROVE  PullsInv'
<1>1. PICK st \in {pull[p].state, "open", "closed"} :
        slot' = [slot EXCEPT ![s] = [IdleSlot EXCEPT !.pc = "edit", !.pull = p, !.state = st]]
  BY DEF EditRead, Goto
<1> DEFINE r == [IdleSlot EXCEPT !.pc = "edit", !.pull = p, !.state = st]
<1>2. st \in {"open", "closed", "merged"}
  <2>1. pull[p].state \in {"none", "open", "closed", "merged"} /\ pull[p].state # "none"
    BY DEF PullsInv, PullsTypeOK, EditRead
  <2> QED
    BY <2>1
<1>3. r \in SlotRows /\ r.pc = "edit"
  BY <1>2 DEF SlotRows, IdleSlot, PCs, Branches
<1> HIDE DEF r
<1>4. slot'[s] = r => Handled(slot[s])'
  BY <1>3 DEF Handled
<1>5. UNCHANGED <<ref, hist, check, pull, review, rule, lifted>>
  BY DEF EditRead
<1>6. edits' \in 0 .. MaxEdits
  BY CommitAssumption DEF PullsInv, PullsTypeOK, EditRead, Edit
<1>7. HistoryGrows /\ Made' = Made
  BY <1>5, SameHistory
<1>8. /\ ref' \in [Branches -> Commits \union {None}] /\ ref'[Target] # None
      /\ (\A x \in Branches : ref'[x] # None => ref'[x] \in Made')
      /\ pull' \in [Pulls -> [state : {"none", "open", "closed", "merged"},
                              sha : Commits \union {None}]]
      /\ lifted' \in SUBSET {"direct", "force"} /\ lifted \subseteq lifted'
  BY <1>5, <1>7 DEF PullsInv, PullsTypeOK, Histories
<1> QED
  BY <1>1, <1>3, <1>4, <1>5, <1>6, <1>7, <1>8, SlotStep DEF r

\* A step beside the handlers.
LEMMA BesideHandlers ==
  ASSUME PullsInv, PullsTypeOK', UNCHANGED <<ref, hist, slot>>,
         lifted \subseteq lifted', Lifts(rule)' \subseteq lifted'
  PROVE  PullsInv'
<1>1. HistoryGrows /\ Made' = Made
  BY SameHistory
<1>2. Histories'
  BY <1>1 DEF PullsInv, Histories
<1>3. ASSUME NEW s \in Slots PROVE Handled(slot[s])'
  <2>1. \A x : Handled(x) => Handled(x)'
    BY <1>1, HandledStays
  <2>2. Handled(slot[s]) /\ slot'[s] = slot[s]
    BY DEF PullsInv
  <2> QED
    BY <2>1, <2>2 DEF Handled
<1> QED
  BY <1>2, <1>3 DEF PullsInv

LEMMA RowsKeepInv ==
  ASSUME PullsInv,
         \/ \E c \in Commits : CiReport(c)
         \/ \E p \in Pulls : OpenPull(p) \/ \E u \in Reviewers : Review(p, u)
  PROVE  PullsInv'
<1>1. UNCHANGED <<ref, hist, slot, lifted, rule>> /\ PullsTypeOK
  BY DEF CiReport, OpenPull, Review, PullsInv
<1>2. CASE \E c \in Commits : CiReport(c)
  <2>1. PICK c \in Commits : CiReport(c)
    BY <1>2
  <2>2. check' \in [Commits -> Verdicts] /\ UNCHANGED <<pull, review, edits>>
    BY <1>1, <2>1 DEF CiReport, PullsTypeOK, Verdicts
  <2>3. PullsTypeOK'
    BY <1>1, <2>2 DEF PullsTypeOK
  <2> QED
    BY <1>1, <2>3, BesideHandlers DEF PullsInv, Lifts
<1>3. CASE \E p \in Pulls : OpenPull(p)
  <2>1. PICK p \in Pulls : OpenPull(p)
    BY <1>3
  <2>2. /\ pull' \in [Pulls -> [state : {"none", "open", "closed", "merged"},
                                sha : Commits \union {None}]]
        /\ UNCHANGED <<check, review, edits>>
    <3> DEFINE row == [pull[p] EXCEPT !.state = "open"]
    <3>1. /\ pull \in [Pulls -> [state : {"none", "open", "closed", "merged"},
                                 sha : Commits \union {None}]]
          /\ UNCHANGED <<check, review, edits>>
      BY <1>1, <2>1 DEF OpenPull, PullsTypeOK
    <3>2. row \in [state : {"none", "open", "closed", "merged"}, sha : Commits \union {None}]
      BY <3>1
    <3>3. pull' = [pull EXCEPT ![p] = row]
      BY <2>1 DEF OpenPull
    <3> HIDE DEF row
    <3> QED
      BY <3>1, <3>2, <3>3
  <2>3. PullsTypeOK'
    BY <1>1, <2>2 DEF PullsTypeOK
  <2> QED
    BY <1>1, <2>3, BesideHandlers DEF PullsInv, Lifts
<1>4. CASE \E p \in Pulls, u \in Reviewers : Review(p, u)
  <2>1. PICK p \in Pulls, u \in Reviewers : Review(p, u)
    BY <1>4
  <2>2. PICK verdict \in Reviews : review' = [review EXCEPT ![p][u] = verdict]
    BY <2>1 DEF Review
  <2>3. review' \in [Pulls -> [Reviewers -> Reviews]]
    BY <1>1, <2>2 DEF PullsTypeOK
  <2>4. edits' \in 0 .. MaxEdits /\ UNCHANGED <<check, pull>>
    BY <1>1, <2>1, CommitAssumption DEF Review, Edit, PullsTypeOK
  <2>5. PullsTypeOK'
    BY <1>1, <2>3, <2>4 DEF PullsTypeOK
  <2> QED
    BY <1>1, <2>5, BesideHandlers DEF PullsInv, Lifts
<1> QED
  BY <1>2, <1>3, <1>4

LEMMA RulesKeepInv ==
  ASSUME PullsInv, \/ \E patch \in Patches : CreateRule(patch) \/ PatchRule(patch)
                   \/ DeleteRule
  PROVE  PullsInv'
<1>1. rule \in Rules /\ PullsTypeOK
  BY DEF PullsInv, PullsTypeOK
<1>2. DefaultRule \in Rules
  BY DEF DefaultRule, Rules
<1>3. [rule EXCEPT !.active = FALSE] \in Rules
  BY <1>1 DEF Rules
<1>4. PICK r \in Rules : SetRule(r)
  BY <1>1, <1>2, <1>3, PatchAssumption DEF CreateRule, PatchRule, DeleteRule
<1>5. /\ rule' = r /\ lifted' = lifted \union Lifts(r) /\ edits' \in 0 .. MaxEdits
      /\ UNCHANGED <<ref, hist, check, pull, review, slot>>
  BY <1>1, <1>4, CommitAssumption DEF SetRule, Edit, PullsTypeOK
<1>6. Lifts(r) \subseteq {"direct", "force"}
  BY DEF Lifts
<1>7. Lifts(rule)' = Lifts(r)
  BY <1>5 DEF Lifts
<1>8. PullsTypeOK'
  BY <1>1, <1>5, <1>6 DEF PullsTypeOK
<1> QED
  BY <1>5, <1>7, <1>8, BesideHandlers

-----------------------------------------------------------------------------
(* The theorems *)

LEMMA SlotsKeepInv ==
  ASSUME PullsInv, NEW s \in Slots,
         \/ PushStart(s) \/ SshPushStart(s) \/ PushReceive(s)
         \/ WebStart(s) \/ WebParent(s) \/ WebUpdate(s)
         \/ CreateBranch(s) \/ DeleteBranch(s) \/ BranchUpdate(s)
         \/ \E p \in Pulls : MergeStart(s, p) \/ EditRead(s, p)
         \/ EditWrite(s) \/ MergeCompare(s) \/ MergeGate(s) \/ Prepare(s)
         \/ Rebase(s) \/ RebaseTip(s) \/ Land(s) \/ MergeRow(s)
  PROVE  PullsInv'
<1>1. CASE \/ PushStart(s) \/ SshPushStart(s) \/ PushReceive(s) \/ WebUpdate(s) \/ BranchUpdate(s)
  BY <1>1, PushesKeepInv, RefWritesKeepInv
<1>2. CASE WebStart(s) \/ WebParent(s) \/ CreateBranch(s) \/ DeleteBranch(s)
  BY <1>2, WebStartKeepsInv, WebParentKeepsInv, BranchesKeepInv
<1>3. CASE \E p \in Pulls : MergeStart(s, p) \/ EditRead(s, p)
  BY <1>3, MergeStartKeepsInv, EditReadKeepsInv
<1>4. CASE EditWrite(s) \/ MergeCompare(s) \/ MergeGate(s) \/ Prepare(s)
  BY <1>4, PullWritesKeepInv, GateKeepsInv, PrepareKeepsInv
<1>5. CASE Rebase(s) \/ RebaseTip(s) \/ Land(s) \/ MergeRow(s)
  BY <1>5, RebaseKeepsInv, RebaseTipKeepsInv, LandKeepsInv, PullWritesKeepInv
<1> QED
  BY <1>1, <1>2, <1>3, <1>4, <1>5

LEMMA PullsStepKeepsInv == PullsInv /\ [PullsNext]_vars => PullsInv'
<1> SUFFICES ASSUME PullsInv, [PullsNext]_vars PROVE PullsInv'
  OBVIOUS
<1>1. CASE \E s \in Slots :
        \/ PushStart(s) \/ SshPushStart(s) \/ PushReceive(s)
        \/ WebStart(s) \/ WebParent(s) \/ WebUpdate(s)
        \/ CreateBranch(s) \/ DeleteBranch(s) \/ BranchUpdate(s)
        \/ \E p \in Pulls : MergeStart(s, p) \/ EditRead(s, p)
        \/ EditWrite(s) \/ MergeCompare(s) \/ MergeGate(s) \/ Prepare(s)
        \/ Rebase(s) \/ RebaseTip(s) \/ Land(s) \/ MergeRow(s)
  BY <1>1, SlotsKeepInv
<1>2. CASE \/ \E c \in Commits : CiReport(c)
           \/ \E p \in Pulls : OpenPull(p) \/ \E u \in Reviewers : Review(p, u)
  BY <1>2, RowsKeepInv
<1>3. CASE \/ \E patch \in Patches : CreateRule(patch) \/ PatchRule(patch)
           \/ DeleteRule
  BY <1>3, RulesKeepInv
<1>4. CASE UNCHANGED vars
  <2>1. PullsTypeOK'
    BY <1>4 DEF vars, PullsInv, PullsTypeOK
  <2> QED
    BY <1>4, <2>1, BesideHandlers DEF vars, PullsInv, Lifts
<1> QED
  BY <1>1, <1>2, <1>3, <1>4 DEF PullsNext

LEMMA PullsInitially == PullsInit => PullsInv
<1> SUFFICES ASSUME PullsInit PROVE PullsInv
  OBVIOUS
<1>1. 1 \in Commits /\ Commits \subseteq Nat /\ 1 # None
  BY CommitAssumption DEF Commits, None
<1>2. hist \in [Commits -> SUBSET Commits] /\ Made = {1} /\ hist[1] = {1}
  BY <1>1 DEF PullsInit, Made
<1>3. Made = 1 .. Cardinality(Made)
  <2>1. {1} = 1 .. 1
    OBVIOUS
  <2>2. Cardinality({1}) = 1
    BY FS_Singleton
  <2> QED
    BY <1>2, <2>1, <2>2
<1>4. \A b \in Branches : ref[b] = 1
  BY DEF PullsInit
<1>5. Histories
  BY <1>1, <1>2, <1>3, <1>4 DEF Histories, Branches
<1>6. rule \in Rules /\ lifted = Lifts(rule) /\ Lifts(rule) \subseteq {"direct", "force"}
  BY RuleAssumption DEF PullsInit, Lifts
<1>7. slot \in [Slots -> SlotRows] /\ (\A s \in Slots : slot[s] = IdleSlot)
  BY IdleFits DEF PullsInit
<1>8. /\ ref \in [Branches -> Commits \union {None}] /\ check \in [Commits -> Verdicts]
      /\ pull \in [Pulls -> [state : {"none", "open", "closed", "merged"},
                             sha : Commits \union {None}]]
      /\ review \in [Pulls -> [Reviewers -> Reviews]] /\ edits \in 0 .. MaxEdits
  BY <1>1, CommitAssumption DEF PullsInit, Verdicts, Reviews
<1>9. PullsTypeOK
  BY <1>2, <1>6, <1>7, <1>8 DEF PullsTypeOK, SlotRows
<1> QED
  BY <1>5, <1>6, <1>7, <1>9, IdleFits DEF PullsInv

LEMMA PullsAlways == PullsSpec => []PullsInv
BY PullsInitially, PullsStepKeepsInv, PTL DEF PullsSpec

\* Heads are commits or none, and handlers hold what their place calls for
\* (explorer.rs, collaboration.rs, pulls.rs).
THEOREM PullsTyped == PullsSpec => []PullsTypeOK
<1>1. PullsInv => PullsTypeOK
  BY DEF PullsInv
<1> QED
  BY <1>1, PullsAlways, PTL

\* Which step moves which branch.
LEMMA BranchMoves ==
  ASSUME PullsInv, PullsNext, NEW b \in Branches, ref'[b] # ref[b]
  PROVE  \E s \in Slots :
           \/ PushReceive(s) /\ b = slot[s].branch /\ ref[b] = slot[s].old /\ ref'[b] = slot[s].new
           \/ WebUpdate(s) /\ b = slot[s].branch /\ ref'[b] = slot[s].new
                           /\ slot[s].old \in {None, ref[b]}
           \/ BranchUpdate(s) /\ b = slot[s].branch
           \/ Rebase(s) /\ b # Target
           \/ Land(s) /\ b = Target /\ ref'[b] = slot[s].new
                      /\ (slot[s].how = "rebase" => ref[b] = slot[s].old)
<1>1. ref \in [Branches -> Commits \union {None}]
  BY DEF PullsInv, PullsTypeOK
<1>2. ref' # ref
  OBVIOUS
<1>3. PICK s \in Slots : PushReceive(s) \/ WebUpdate(s) \/ BranchUpdate(s) \/ Rebase(s) \/ Land(s)
  <2>1. ASSUME NEW s \in Slots,
               \/ PushStart(s) \/ SshPushStart(s) \/ WebStart(s) \/ WebParent(s)
               \/ CreateBranch(s) \/ DeleteBranch(s) \/ EditWrite(s)
               \/ \E p \in Pulls : MergeStart(s, p) \/ EditRead(s, p)
               \/ MergeCompare(s) \/ MergeGate(s) \/ Prepare(s) \/ RebaseTip(s) \/ MergeRow(s)
        PROVE  FALSE
    BY <1>2, <2>1 DEF PushStart, SshPushStart, WebStart, WebParent, CreateBranch, DeleteBranch,
       EditWrite, MergeStart, EditRead, MergeCompare, MergeGate, Prepare, RebaseTip, MergeRow
  <2>2. ASSUME \/ \E c \in Commits : CiReport(c)
               \/ \E p \in Pulls : OpenPull(p) \/ \E u \in Reviewers : Review(p, u)
               \/ \E patch \in Patches : CreateRule(patch) \/ PatchRule(patch)
               \/ DeleteRule
        PROVE  FALSE
    BY <1>2, <2>2 DEF CiReport, OpenPull, Review, CreateRule, PatchRule, DeleteRule, SetRule
  <2> QED
    BY <2>1, <2>2 DEF PullsNext
<1>4. slot[s] \in SlotRows
  BY DEF PullsInv, PullsTypeOK, SlotRows
<1>5. CASE PushReceive(s)
  BY <1>1, <1>4, <1>5 DEF PushReceive, SlotRows
<1>6. CASE WebUpdate(s)
  BY <1>1, <1>4, <1>6 DEF WebUpdate, SlotRows
<1>7. CASE BranchUpdate(s)
  BY <1>1, <1>4, <1>7 DEF BranchUpdate, SlotRows
<1>8. CASE Rebase(s)
  <2>1. SourceOf[slot[s].pull] # Target
    BY <1>8, SourceIsBranch DEF Rebase, MergePCs
  <2>2. b = SourceOf[slot[s].pull]
    BY <1>1, <1>2, <1>8 DEF Rebase
  <2> QED
    BY <1>8, <2>1, <2>2
<1>9. CASE Land(s)
  BY <1>1, <1>2, <1>9 DEF Land
<1> QED
  BY <1>3, <1>5, <1>6, <1>7, <1>8, <1>9

\* While the rule has always asked everyone for a pull request, the target moves
\* by a merge only: a rule that changes between the check of a push and its write
\* has already been recorded as lifted (validate_push_updates).
THEOREM TargetIsProtected == PullsSpec => ProtectedByPullRequest
<1> DEFINE Protected == ref'[Target] # ref[Target] /\ "direct" \notin lifted =>
                          \E s \in Slots : slot[s].pc = "land"
<1>1. PullsInv /\ [PullsNext]_vars => [Protected]_vars
  <2> SUFFICES ASSUME PullsInv, PullsNext, ref'[Target] # ref[Target], "direct" \notin lifted
               PROVE  \E s \in Slots : slot[s].pc = "land"
    OBVIOUS
  <2>1. Target \in Branches /\ (\A s \in Slots : Handled(slot[s]))
    BY DEF Branches, PullsInv
  <2>2. PICK s \in Slots :
          \/ (PushReceive(s) \/ WebUpdate(s) \/ BranchUpdate(s)) /\ Target = slot[s].branch
          \/ Land(s)
    BY <2>1, BranchMoves
  <2>3. CASE (PushReceive(s) \/ WebUpdate(s) \/ BranchUpdate(s)) /\ Target = slot[s].branch
    BY <2>1, <2>3 DEF Handled, PushReceive, WebUpdate, BranchUpdate
  <2>4. CASE Land(s)
    BY <2>4 DEF Land
  <2> QED
    BY <2>2, <2>3, <2>4
<1> QED
  BY <1>1, PullsAlways, PTL DEF PullsSpec, ProtectedByPullRequest

\* Nothing drops out of a branch by an overlap of pushes, web commits and
\* rebases: each names the head it read, and its commit descends from it
\* (update-ref with an old value in explorer.rs).
THEOREM NothingIsRewoundSilently == PullsSpec => NoSilentRewind
<1> DEFINE Excused(s, b) ==
             /\ slot'[s] # slot[s]
             /\ \/ slot[s].pc = "push" /\ (b # Target \/ "force" \in lifted)
                \/ slot[s].pc \in {"create", "delete"} /\ slot[s].branch = b
                \/ slot[s].pc = "webref" /\ slot[s].old = None
                \/ slot[s].pc = "rebased" /\ b # Target
                \/ slot[s].pc = "land" /\ slot[s].how # "rebase" /\ slot[s].old # ref[b]
                \/ slot[s].pc = "land" /\ slot[s].how = "rebase" /\ ref[b] \notin hist[slot[s].src]
           Rewound(b) == ref[b] # None /\ ref'[b] # ref[b]
                           /\ (ref'[b] = None \/ ref[b] \notin hist'[ref'[b]])
           Excuses == \A b \in Branches : Rewound(b) => \E s \in Slots : Excused(s, b)
<1>1. PullsInv /\ [PullsNext]_vars => [Excuses]_vars
  <2> SUFFICES ASSUME PullsInv, PullsNext, NEW b \in Branches, Rewound(b)
               PROVE  \E s \in Slots : Excused(s, b)
    OBVIOUS
  <2>1. PICK s \in Slots :
           \/ PushReceive(s) /\ b = slot[s].branch /\ ref[b] = slot[s].old /\ ref'[b] = slot[s].new
           \/ WebUpdate(s) /\ b = slot[s].branch /\ ref'[b] = slot[s].new
                           /\ slot[s].old \in {None, ref[b]}
           \/ BranchUpdate(s) /\ b = slot[s].branch
           \/ Rebase(s) /\ b # Target
           \/ Land(s) /\ b = Target /\ ref'[b] = slot[s].new
                      /\ (slot[s].how = "rebase" => ref[b] = slot[s].old)
    BY BranchMoves
  <2>2. /\ Handled(slot[s]) /\ slot \in [Slots -> SlotRows] /\ ref[b] # None
        /\ ref'[b] = None \/ ref[b] \notin hist'[ref'[b]]
    BY DEF PullsInv, PullsTypeOK, SlotRows
  <2>3. ASSUME slot[s].new \in Made PROVE slot[s].new # None
    BY <2>3, NoneIsNoCommit DEF Made
  <2>4. CASE PushReceive(s)
    <3>1. slot[s].pc = "push" /\ hist' = hist /\ slot' = [slot EXCEPT ![s] = IdleSlot]
      BY <2>4 DEF PushReceive, Done, Goto
    <3>2. ref[b] = slot[s].old /\ ref'[b] = slot[s].new /\ b = slot[s].branch
      BY <2>1, <3>1 DEF WebUpdate, BranchUpdate, Rebase, Land
    <3>3. b # Target \/ "force" \in lifted
      BY <2>2, <2>3, <3>1, <3>2 DEF Handled
    <3>4. slot'[s] # slot[s]
      BY <2>2, <3>1, IdleFits
    <3> QED
      BY <3>1, <3>3, <3>4
  <2>5. CASE WebUpdate(s)
    <3>1. slot[s].pc = "webref" /\ hist' = hist /\ slot' = [slot EXCEPT ![s] = IdleSlot]
      BY <2>5 DEF WebUpdate, Done, Goto
    <3>2. slot[s].old \in {None, ref[b]} /\ ref'[b] = slot[s].new
      BY <2>1, <3>1 DEF PushReceive, BranchUpdate, Rebase, Land
    <3>3. slot[s].old = None
      BY <2>2, <2>3, <3>1, <3>2 DEF Handled
    <3>4. slot'[s] # slot[s]
      BY <2>2, <3>1, IdleFits
    <3> QED
      BY <3>1, <3>3, <3>4
  <2>6. CASE BranchUpdate(s)
    <3>1. slot[s].pc \in {"create", "delete"} /\ slot' = [slot EXCEPT ![s] = IdleSlot]
      BY <2>6 DEF BranchUpdate, Done, Goto
    <3>2. slot[s].branch = b
      BY <2>1, <3>1 DEF PushReceive, WebUpdate, Rebase, Land
    <3>3. slot'[s] # slot[s]
      BY <2>2, <3>1, IdleFits
    <3> QED
      BY <3>1, <3>2, <3>3
  <2>7. CASE Rebase(s)
    <3>1. slot[s].pc = "rebased" /\ slot'[s].pc \in {"idle", "tip"} /\ b # Target
      <4>1. slot[s].pc = "rebased"
        BY <2>7 DEF Rebase
      <4>2. b # Target
        BY <2>1, <4>1 DEF PushReceive, WebUpdate, BranchUpdate, Land
      <4>3. \/ slot' = [slot EXCEPT ![s] = IdleSlot]
            \/ slot' = [slot EXCEPT ![s] = [slot[s] EXCEPT !.pc = "tip"]]
        BY <2>7 DEF Rebase, Done, Goto
      <4> QED
        BY <2>2, <4>1, <4>2, <4>3, IdleFits DEF SlotRows
    <3> QED
      BY <3>1
  <2>8. CASE Land(s)
    <3>1. slot[s].pc = "land" /\ hist' = hist
      BY <2>8 DEF Land
    <3>2. b = Target /\ ref'[b] = slot[s].new /\ (slot[s].how = "rebase" => ref[b] = slot[s].old)
      BY <2>1, <3>1 DEF PushReceive, WebUpdate, BranchUpdate, Rebase
    <3>3. \/ slot[s].how # "rebase" /\ slot[s].old # ref[b]
          \/ slot[s].how = "rebase" /\ ref[b] \notin hist[slot[s].src]
      BY <2>2, <2>3, <3>1, <3>2 DEF Handled
    <3>4. slot'[s].pc \in {"idle", "row"}
      <4>1. \/ slot' = [slot EXCEPT ![s] = IdleSlot]
            \/ slot' = [slot EXCEPT ![s] = [slot[s] EXCEPT !.pc = "row"]]
        BY <2>8 DEF Land, Done, Goto
      <4> QED
        BY <2>2, <4>1, IdleFits DEF SlotRows
    <3> QED
      BY <3>1, <3>3, <3>4
  <2> QED
    BY <2>1, <2>4, <2>5, <2>6, <2>7, <2>8
<1> QED
  BY <1>1, PullsAlways, PTL DEF PullsSpec, NoSilentRewind
=============================================================================
