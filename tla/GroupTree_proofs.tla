-------------------------- MODULE GroupTree_proofs --------------------------
(***************************************************************************)
(* Proofs about GroupTree, for every set of groups, repositories, slugs    *)
(* and clients, and a tree of any depth: rows and directories agree        *)
(* wherever no request is at work.  Last, the services side by side, as    *)
(* MCServices has them: every one keeps its types.                         *)
(***************************************************************************)
EXTENDS MCServices, Services_proofs

(***************************************************************************)
(* The inductive invariant: what the requests for the tree of groups and   *)
(* repositories keep true together.                                        *)
(***************************************************************************)
AskRecord == [op : {"none", "group", "rename", "delete", "repo", "unrepo", "transfer"},
              pc : {"done", "insert", "move", "commit", "rows", "dir", "init", "row"},
              id : GroupIds \cup RepoIds \cup {Root, Absent}, from : Seq(Slugs), to : Seq(Slugs),
              slug : Slugs \cup {Absent}, into : GroupIds \cup {Absent}, moved : BOOLEAN]
TreeTyped ==
  /\ groups \in [GroupIds -> OrganizationRow \cup {Absent}]
  /\ repos \in [RepoIds -> RepositoryRow \cup {Absent}]
  /\ dirs \subseteq Seq(Slugs)
  /\ DOMAIN store \subseteq Seq(Slugs) \X Slugs
  /\ asks \in [TreeClients -> AskRecord]

At2(x, op, pc) == x.op = op /\ x.pc = pc
(* Requests keep apart: no path of one is at or above a path of another.    *)
KeptApart == \A c, d \in TreeClients : c # d /\ asks[c].op # "none" /\ asks[d].op # "none" =>
  \A p \in {asks[c].from, asks[c].to}, q \in {asks[d].from, asks[d].to} : ~Near(p, q)
GroupsFit ==
  /\ \A g \in Rows : /\ groups[g].parent \in Rows \cup {Root}
                     /\ groups[g].path = Joined(groups[g].parent, groups[g].slug)
  /\ \A g, h \in Rows : groups[g].path = groups[h].path => g = h
ReposFit ==
  /\ \A r \in RepoRows : repos[r].group \in Rows
  /\ \A q, r \in RepoRows : repos[q] = repos[r] => q = r
DirsFit == \A k \in DOMAIN store : Parents(k[1]) \subseteq dirs

(* Where a request has a directory and a row apart. *)
Excepted(x, k) ==
  \/ At2(x, "rename", "commit") /\ x.moved /\ (Under(x.from, k[1]) \/ Under(x.to, k[1]))
  \/ At2(x, "delete", "dir") /\ Under(x.from, k[1])
  \/ At2(x, "repo", "init") /\ k = <<x.to, x.slug>>
  \/ At2(x, "unrepo", "dir") /\ k = <<x.from, x.slug>>
  \/ At2(x, "transfer", "commit") /\ k \in {<<x.from, x.slug>>, <<x.to, x.slug>>}
Spared(k) == \E c \in TreeClients : Excepted(asks[c], k)
DirHolds(k, r) == k \in DOMAIN store /\ store[k] = r
StoreFits ==
  /\ \A r \in RepoRows : Spared(Home(r)) \/ DirHolds(Home(r), r)
  /\ \A k \in DOMAIN store : Spared(k) \/ \E r \in RepoRows : Home(r) = k
Target(x, r) == <<Moved(Home(r)[1], x.from, x.to), Home(r)[2]>>
IsAt(g, p) == g \in Rows /\ groups[g].path = p
KnowsGroup(x) ==
  x.id \in Rows \cup {Root} /\ x.slug \in Slugs /\ x.to = Joined(x.id, x.slug) /\ x.pc = "insert"
RenameStands(x) ==
  /\ IsAt(x.id, x.from) /\ x.slug \in Slugs /\ x.to = Joined(groups[x.id].parent, x.slug) /\ x.to # x.from
  /\ x.pc \in {"move", "commit"} /\ (x.pc = "move" => ~x.moved)
RenameMoved(x) ==
  /\ \A k \in DOMAIN store : ~Under(x.from, k[1])
  /\ \A r \in RepoRows : ~Under(x.to, Home(r)[1])
  /\ \A r \in RepoRows : Under(x.from, Home(r)[1]) => DirHolds(Target(x, r), r)
  /\ \A k \in DOMAIN store : Under(x.to, k[1]) =>
       \E r \in RepoRows : Under(x.from, Home(r)[1]) /\ Target(x, r) = k
KnowsRename(x) ==
  /\ RenameStands(x)
  /\ x.pc = "commit" /\ ~x.moved => \A r \in RepoRows : ~Under(x.from, Home(r)[1])
  /\ x.pc = "commit" /\ x.moved => RenameMoved(x)
KnowsDelete(x) ==
  /\ x.pc \in {"rows", "dir"}
  /\ x.pc = "rows" => IsAt(x.id, x.from)
  /\ x.pc = "dir" => \A g \in Rows : ~Under(x.from, groups[g].path)
KnowsRepo(x) ==
  /\ x.pc \in {"insert", "init"} /\ IsAt(x.into, x.to) /\ x.slug \in Slugs
  /\ x.pc = "init" => x.id \in RepoRows /\ repos[x.id] = [group |-> x.into, slug |-> x.slug]
                      /\ <<x.to, x.slug>> \notin DOMAIN store
KnowsUnrepo(x) ==
  /\ x.pc \in {"row", "dir"} /\ x.slug \in Slugs
  /\ x.pc = "row" => x.id \in RepoRows /\ Home(x.id) = <<x.from, x.slug>>
  /\ x.pc = "dir" => \A r \in RepoRows : Home(r) # <<x.from, x.slug>>
KnowsTransfer(x) ==
  /\ x.pc \in {"move", "commit"} /\ x.id \in RepoRows /\ Home(x.id) = <<x.from, x.slug>>
  /\ IsAt(x.into, x.to) /\ x.to # x.from
  /\ \A q \in RepoRows : repos[q] # [group |-> x.into, slug |-> x.slug]
  /\ x.pc = "commit" => DirHolds(<<x.to, x.slug>>, x.id) /\ <<x.from, x.slug>> \notin DOMAIN store
Knows(x) ==
  /\ x.op = "group" => KnowsGroup(x)
  /\ x.op = "rename" => KnowsRename(x)
  /\ x.op = "delete" => KnowsDelete(x)
  /\ x.op = "repo" => KnowsRepo(x)
  /\ x.op = "unrepo" => KnowsUnrepo(x)
  /\ x.op = "transfer" => KnowsTransfer(x)
(* The paths a request goes by are there. *)
Placed(x) == /\ x.op \in {"rename", "delete", "unrepo", "transfer"} => x.from # <<>>
             /\ x.op \in {"group", "rename", "repo", "transfer"} => x.to # <<>>
Calm == KeptApart /\ GroupsFit /\ ReposFit /\ DirsFit /\ StoreFits /\ \A c \in TreeClients : Knows(asks[c]) /\ Placed(asks[c])
TreeInv == disturbed = {} => TreeTyped /\ Calm

-----------------------------------------------------------------------------
(* Paths: segments, prefixes, and what becomes of a prefix that moves.      *)
Path == Seq(Slugs)
LEMMA PathLen ==
  ASSUME NEW p \in Path
  PROVE  Len(p) \in Nat /\ DOMAIN p = 1..Len(p) /\ \A i \in 1..Len(p) : p[i] \in Slugs
BY LenProperties, ElementOfSeq DEF Path

LEMMA PathEqual ==
  ASSUME NEW p \in Path, NEW q \in Path, Len(p) = Len(q), \A i \in 1..Len(p) : p[i] = q[i]
  PROVE  p = q
BY SeqEqual DEF Path

LEMMA FirstSegments ==
  ASSUME NEW p \in Path, NEW n \in 0..Len(p)
  PROVE  /\ SubSeq(p, 1, n) \in Path /\ Len(SubSeq(p, 1, n)) = n
         /\ \A i \in 1..n : SubSeq(p, 1, n)[i] = p[i]
<1>1. n \in Int /\ 1 \in Int /\ \A i \in 1..n : p[i] \in Slugs
  BY PathLen
<1>2. /\ SubSeq(p, 1, n) \in Path /\ Len(SubSeq(p, 1, n)) = IF 1 <= n THEN n - 1 + 1 ELSE 0
      /\ \A i \in 1..n - 1 + 1 : SubSeq(p, 1, n)[i] = p[1 + i - 1]
  BY <1>1, SubSeqProperties DEF Path
<1> QED BY <1>1, <1>2, PathLen

LEMMA LastSegments ==
  ASSUME NEW p \in Path, NEW n \in 0..Len(p)
  PROVE  /\ SubSeq(p, n + 1, Len(p)) \in Path /\ Len(SubSeq(p, n + 1, Len(p))) = Len(p) - n
         /\ \A i \in 1..Len(p) - n : SubSeq(p, n + 1, Len(p))[i] = p[n + i]
<1>1. n + 1 \in Int /\ Len(p) \in Int /\ \A i \in n + 1..Len(p) : p[i] \in Slugs
  BY PathLen
<1>2. /\ SubSeq(p, n + 1, Len(p)) \in Path
      /\ Len(SubSeq(p, n + 1, Len(p))) = IF n + 1 <= Len(p) THEN Len(p) - (n + 1) + 1 ELSE 0
      /\ \A i \in 1..Len(p) - (n + 1) + 1 : SubSeq(p, n + 1, Len(p))[i] = p[(n + 1) + i - 1]
  BY <1>1, SubSeqProperties DEF Path
<1>3. PICK u : u = SubSeq(p, n + 1, Len(p))
  OBVIOUS
<1>4. Len(p) \in Nat /\ Len(p) - (n + 1) + 1 = Len(p) - n
  BY PathLen
<1>5. u \in Path /\ Len(u) = Len(p) - n
  <2>1. CASE n + 1 <= Len(p)
    BY <1>2, <1>3, <1>4, <2>1
  <2>2. CASE ~(n + 1 <= Len(p))
    <3>0. PICK l \in Nat : l = Len(p)
      BY PathLen
    <3>4. n \in Nat /\ n <= l /\ ~(n + 1 <= l)
      BY <2>2, <3>0
    <3>1. Len(p) - n = 0
      BY <3>0, <3>4
    <3>2. Len(u) = 0
      BY <1>2, <1>3, <2>2
    <3> QED BY <1>2, <1>3, <3>1, <3>2
  <2> QED BY <2>1, <2>2
<1>6. ASSUME NEW i \in 1..Len(p) - n PROVE u[i] = p[n + i]
  <2>1. i \in 1..Len(p) - (n + 1) + 1 /\ (n + 1) + i - 1 = n + i
    BY <1>4
  <2> QED BY <1>2, <1>3, <2>1
<1> QED BY <1>3, <1>5, <1>6

LEMMA UnderIs ==
  ASSUME NEW p \in Path, NEW q \in Path
  PROVE  Under(p, q) <=> Len(p) <= Len(q) /\ \A i \in 1..Len(p) : p[i] = q[i]
<1>1. Len(p) \in 0..Len(p) /\ Len(p) \in Nat /\ Len(q) \in Nat
  BY PathLen
<1>2. /\ SubSeq(p, 1, Len(p)) \in Path /\ Len(SubSeq(p, 1, Len(p))) = Len(p)
      /\ \A i \in 1..Len(p) : SubSeq(p, 1, Len(p))[i] = p[i]
  BY <1>1, FirstSegments
<1>3. Len(p) <= Len(q) => /\ SubSeq(q, 1, Len(p)) \in Path /\ Len(SubSeq(q, 1, Len(p))) = Len(p)
                          /\ \A i \in 1..Len(p) : SubSeq(q, 1, Len(p))[i] = q[i]
  BY <1>1, FirstSegments
<1>4. ASSUME Len(p) <= Len(q), \A i \in 1..Len(p) : p[i] = q[i]
      PROVE  SubSeq(p, 1, Len(p)) = SubSeq(q, 1, Len(p))
  BY <1>1, <1>2, <1>3, <1>4, PathEqual
<1>5. ASSUME Len(p) <= Len(q), SubSeq(p, 1, Len(p)) = SubSeq(q, 1, Len(p)), NEW i \in 1..Len(p)
      PROVE  p[i] = q[i]
  BY <1>2, <1>3, <1>5
<1> QED BY <1>4, <1>5 DEF Under, IsPrefix

LEMMA UnderOrder ==
  /\ \A p \in Path : Under(p, p)
  /\ \A p, q, x \in Path : Under(p, q) /\ Under(q, x) => Under(p, x)
  /\ \A p, q \in Path : Under(p, q) /\ Under(q, p) => p = q
  /\ \A p, q, x \in Path : Under(p, x) /\ Under(q, x) => Under(p, q) \/ Under(q, p)
<1>1. \A p \in Path : Under(p, p)
  BY UnderIs, PathLen
<1>2. \A p, q, x \in Path : Under(p, q) /\ Under(q, x) => Under(p, x)
  <2> TAKE p, q, x \in Path
  <2>1. Len(p) \in Nat /\ Len(q) \in Nat /\ Len(x) \in Nat
    BY PathLen
  <2> QED BY <2>1, UnderIs
<1>3. \A p, q \in Path : Under(p, q) /\ Under(q, p) => p = q
  <2> TAKE p, q \in Path
  <2>1. Len(p) \in Nat /\ Len(q) \in Nat
    BY PathLen
  <2> QED BY <2>1, UnderIs, PathEqual
<1>4. \A p, q, x \in Path : Under(p, x) /\ Under(q, x) => Under(p, q) \/ Under(q, p)
  <2> TAKE p, q, x \in Path
  <2>1. Len(p) \in Nat /\ Len(q) \in Nat /\ Len(x) \in Nat
    BY PathLen
  <2> QED BY <2>1, UnderIs
<1> QED BY <1>1, <1>2, <1>3, <1>4

LEMMA ParentsAre ==
  ASSUME NEW p \in Path
  PROVE  \A q : q \in Parents(p) <=> q \in Path /\ q # <<>> /\ Under(q, p)
<1>1. ASSUME NEW q \in Parents(p) PROVE q \in Path /\ q # <<>> /\ Under(q, p)
  <2>1. PICK n \in 1..Len(p) : q = SubSeq(p, 1, n)
    BY <1>1 DEF Parents
  <2>2. n \in 0..Len(p) /\ Len(p) \in Nat
    BY PathLen
  <2>3. q \in Path /\ Len(q) = n /\ \A i \in 1..n : q[i] = p[i]
    BY <2>1, <2>2, FirstSegments
  <2>4. Under(q, p)
    BY <2>2, <2>3, UnderIs
  <2> QED BY <2>2, <2>3, <2>4, EmptySeq
<1>2. ASSUME NEW q \in Path, q # <<>>, Under(q, p) PROVE q \in Parents(p)
  <2>1. Len(q) \in Nat /\ Len(q) # 0 /\ Len(p) \in Nat
    BY <1>2, PathLen, EmptySeq DEF Path
  <2>2. Len(q) \in 1..Len(p) /\ \A i \in 1..Len(q) : q[i] = p[i]
    BY <1>2, <2>1, UnderIs
  <2>3. /\ SubSeq(p, 1, Len(q)) \in Path /\ Len(SubSeq(p, 1, Len(q))) = Len(q)
        /\ \A i \in 1..Len(q) : SubSeq(p, 1, Len(q))[i] = p[i]
    BY <2>1, <2>2, FirstSegments
  <2>4. q = SubSeq(p, 1, Len(q))
    BY <2>2, <2>3, PathEqual
  <2> QED BY <2>2, <2>4 DEF Parents
<1> QED BY <1>1, <1>2

(* A segment more. *)
LEMMA Longer ==
  ASSUME NEW p \in Path, NEW s \in Slugs
  PROVE  /\ Append(p, s) \in Path /\ Append(p, s) # <<>> /\ Len(Append(p, s)) = Len(p) + 1
         /\ Under(p, Append(p, s)) /\ ~Under(Append(p, s), p)
         /\ \A q \in Path : Under(q, Append(p, s)) <=> Under(q, p) \/ q = Append(p, s)
<1> DEFINE x == Append(p, s)
<1>1. /\ x \in Path /\ Len(x) = Len(p) + 1 /\ Len(p) \in Nat
      /\ x[Len(p) + 1] = s /\ \A i \in 1..Len(p) : x[i] = p[i]
  BY PathLen, AppendProperties DEF Path
<1> HIDE DEF x
<1>2. x # <<>>
  BY <1>1, EmptySeq
<1>3. Under(p, x) /\ ~Under(x, p)
  BY <1>1, UnderIs
<1>4. ASSUME NEW q \in Path, Under(q, x) PROVE Under(q, p) \/ q = x
  <2>1. Len(q) \in Nat /\ Len(q) <= Len(x) /\ \A i \in 1..Len(q) : q[i] = x[i]
    BY <1>1, <1>4, UnderIs, PathLen
  <2>2. CASE Len(q) = Len(x)
    BY <1>1, <2>1, <2>2, PathEqual
  <2>3. CASE Len(q) # Len(x)
    BY <1>1, <2>1, <2>3, UnderIs
  <2> QED BY <2>2, <2>3
<1>5. ASSUME NEW q \in Path, Under(q, p) PROVE Under(q, x)
  BY <1>1, <1>3, <1>5, UnderOrder
<1>6. Under(x, x)
  BY <1>1, UnderOrder
<1> QED BY <1>1, <1>2, <1>3, <1>4, <1>5, <1>6 DEF x

LEMMA LongerEqual ==
  ASSUME NEW p \in Path, NEW q \in Path, NEW s \in Slugs, NEW t \in Slugs, Append(p, s) = Append(q, t)
  PROVE  p = q /\ s = t
<1> DEFINE x == Append(p, s)
           y == Append(q, t)
<1>1. /\ Len(x) = Len(p) + 1 /\ Len(p) \in Nat /\ x[Len(p) + 1] = s /\ \A i \in 1..Len(p) : x[i] = p[i]
      /\ Len(y) = Len(q) + 1 /\ Len(q) \in Nat /\ y[Len(q) + 1] = t /\ \A i \in 1..Len(q) : y[i] = q[i]
  BY PathLen, AppendProperties DEF Path
<1>2. x = y
  OBVIOUS
<1> HIDE DEF x, y
<1> QED BY <1>1, <1>2, PathEqual

(* A path that moves with a prefix of its. *)
IsMoved(m, p, from, to) ==
  /\ m \in Path /\ Len(m) = Len(to) + (Len(p) - Len(from))
  /\ \A i \in 1..Len(to) : m[i] = to[i]
  /\ \A j \in 1..Len(p) - Len(from) : m[Len(to) + j] = p[Len(from) + j]
LEMMA MovedIs ==
  ASSUME NEW p \in Path, NEW from \in Path, NEW to \in Path, Under(from, p)
  PROVE  IsMoved(Moved(p, from, to), p, from, to)
<1> DEFINE m == Moved(p, from, to)
<1>1. PICK u : u = SubSeq(p, Len(from) + 1, Len(p))
  OBVIOUS
<1>2. Len(p) \in Nat /\ Len(from) \in Nat /\ Len(to) \in Nat /\ Len(from) \in 0..Len(p)
  BY PathLen, UnderIs
<1>3. u \in Path /\ Len(u) = Len(p) - Len(from) /\ \A j \in 1..Len(p) - Len(from) : u[j] = p[Len(from) + j]
  BY <1>1, <1>2, LastSegments
<1>4. /\ m = to \o u /\ m \in Path /\ Len(m) = Len(to) + Len(u)
      /\ \A i \in 1..Len(to) + Len(u) : m[i] = IF i <= Len(to) THEN to[i] ELSE u[i - Len(to)]
  BY <1>1, <1>3, ConcatProperties DEF Moved, Path
<1> HIDE DEF m
<1>5. \A i \in 1..Len(to) : m[i] = to[i]
  BY <1>2, <1>3, <1>4
<1>6. ASSUME NEW j \in 1..Len(p) - Len(from) PROVE m[Len(to) + j] = p[Len(from) + j]
  <2>1. Len(to) + j \in 1..Len(to) + Len(u) /\ ~(Len(to) + j <= Len(to)) /\ (Len(to) + j) - Len(to) = j
    BY <1>2, <1>3
  <2> QED BY <1>3, <1>4, <2>1
<1>7. IsMoved(m, p, from, to)
  BY <1>3, <1>4, <1>5, <1>6 DEF IsMoved
<1> QED BY <1>7 DEF m

LEMMA MovedUnder ==
  ASSUME NEW p \in Path, NEW from \in Path, NEW to \in Path, Under(from, p)
  PROVE  Moved(p, from, to) \in Path /\ Under(to, Moved(p, from, to))
<1>1. Len(p) \in Nat /\ Len(from) \in Nat /\ Len(to) \in Nat /\ Len(from) <= Len(p)
  BY PathLen, UnderIs
<1>2. PICK m : m = Moved(p, from, to)
  OBVIOUS
<1>a. IsMoved(m, p, from, to)
  BY <1>2, MovedIs
<1>3. m \in Path /\ Len(m) = Len(to) + (Len(p) - Len(from)) /\ \A i \in 1..Len(to) : m[i] = to[i]
  BY <1>a DEF IsMoved
<1>4. Under(to, m)
  <2>1. Under(to, m) <=> Len(to) <= Len(m) /\ \A i \in 1..Len(to) : to[i] = m[i]
    BY <1>3, UnderIs
  <2>2. Len(to) <= Len(m)
    BY <1>1, <1>3
  <2> QED BY <1>3, <2>1, <2>2
<1> QED BY <1>2, <1>3, <1>4

LEMMA MovedBack ==
  ASSUME NEW p \in Path, NEW from \in Path, NEW to \in Path, Under(from, p)
  PROVE  Moved(Moved(p, from, to), to, from) = p
<1>1. Len(p) \in Nat /\ Len(from) \in Nat /\ Len(to) \in Nat /\ Len(from) <= Len(p)
      /\ \A i \in 1..Len(from) : from[i] = p[i]
  BY PathLen, UnderIs
<1>2. PICK m : m = Moved(p, from, to)
  OBVIOUS
<1>3. IsMoved(m, p, from, to) /\ m \in Path /\ Under(to, m)
  BY <1>2, MovedIs, MovedUnder
<1>4. PICK b : b = Moved(m, to, from)
  OBVIOUS
<1>5. /\ Len(m) - Len(to) = Len(p) - Len(from)
      /\ \A j \in 1..Len(p) - Len(from) : m[Len(to) + j] = p[Len(from) + j]
  BY <1>1, <1>3 DEF IsMoved
<1>6. IsMoved(b, m, to, from)
  BY <1>3, <1>4, MovedIs
<1>7. /\ b \in Path /\ Len(b) = Len(p) /\ \A i \in 1..Len(from) : b[i] = from[i]
      /\ \A j \in 1..Len(p) - Len(from) : b[Len(from) + j] = m[Len(to) + j]
  BY <1>1, <1>5, <1>6 DEF IsMoved
<1>8. ASSUME NEW i \in 1..Len(p) PROVE b[i] = p[i]
  <2>1. CASE i <= Len(from)
    BY <1>1, <1>7, <2>1
  <2>2. CASE i > Len(from)
    <3>1. PICK j \in 1..Len(p) - Len(from) : i = Len(from) + j
      <4>1. i - Len(from) \in 1..Len(p) - Len(from) /\ i = Len(from) + (i - Len(from))
        BY <1>1, <2>2
      <4> QED BY <4>1
    <3> QED BY <1>5, <1>7, <3>1
  <2> QED BY <1>1, <2>1, <2>2
<1> QED BY <1>2, <1>4, <1>7, <1>8, PathEqual

LEMMA MovedRoot ==
  ASSUME NEW from \in Path, NEW to \in Path
  PROVE  Moved(from, from, to) = to
<1>1. Len(from) \in Nat /\ Len(to) \in Nat /\ Under(from, from)
  BY PathLen, UnderOrder
<1>2. PICK m : m = Moved(from, from, to)
  OBVIOUS
<1>3. IsMoved(m, from, from, to)
  BY <1>1, <1>2, MovedIs
<1>4. m \in Path /\ Len(m) = Len(to) /\ \A i \in 1..Len(to) : m[i] = to[i]
  BY <1>1, <1>3 DEF IsMoved
<1> QED BY <1>2, <1>3, <1>4, PathEqual

LEMMA MovedKeeps ==
  ASSUME NEW p \in Path, NEW q \in Path, NEW from \in Path, NEW to \in Path, Under(from, q), Under(q, p)
  PROVE  Under(Moved(q, from, to), Moved(p, from, to))
<1>1. Len(p) \in Nat /\ Len(q) \in Nat /\ Len(from) \in Nat /\ Len(to) \in Nat /\ Under(from, p)
      /\ Len(from) <= Len(q) /\ Len(q) <= Len(p) /\ \A i \in 1..Len(q) : q[i] = p[i]
  BY PathLen, UnderIs, UnderOrder
<1>2. PICK m : m = Moved(p, from, to)
  OBVIOUS
<1>3. PICK n : n = Moved(q, from, to)
  OBVIOUS
<1>a. IsMoved(m, p, from, to) /\ IsMoved(n, q, from, to)
  BY <1>1, <1>2, <1>3, MovedIs
<1>4. m \in Path /\ Len(m) = Len(to) + (Len(p) - Len(from)) /\ (\A i \in 1..Len(to) : m[i] = to[i])
      /\ \A j \in 1..Len(p) - Len(from) : m[Len(to) + j] = p[Len(from) + j]
  BY <1>a DEF IsMoved
<1>5. n \in Path /\ Len(n) = Len(to) + (Len(q) - Len(from)) /\ (\A i \in 1..Len(to) : n[i] = to[i])
      /\ \A j \in 1..Len(q) - Len(from) : n[Len(to) + j] = q[Len(from) + j]
  BY <1>a DEF IsMoved
<1>6. Len(n) <= Len(m)
  BY <1>1, <1>4, <1>5
<1>7. ASSUME NEW i \in 1..Len(n) PROVE n[i] = m[i]
  <2>1. CASE i <= Len(to)
    BY <1>1, <1>4, <1>5, <2>1
  <2>2. CASE i > Len(to)
    <3>1. PICK j \in 1..Len(q) - Len(from) : i = Len(to) + j
      <4>1. i - Len(to) \in 1..Len(q) - Len(from) /\ i = Len(to) + (i - Len(to))
        BY <1>1, <1>5, <2>2
      <4> QED BY <4>1
    <3>2. j \in 1..Len(p) - Len(from) /\ Len(from) + j \in 1..Len(q)
      BY <1>1
    <3> QED BY <1>1, <1>4, <1>5, <3>1, <3>2
  <2> QED BY <1>1, <1>5, <2>1, <2>2
<1> QED BY <1>2, <1>3, <1>4, <1>5, <1>6, <1>7, UnderIs

LEMMA MovedLonger ==
  ASSUME NEW p \in Path, NEW s \in Slugs, NEW from \in Path, NEW to \in Path, Under(from, p)
  PROVE  Moved(Append(p, s), from, to) = Append(Moved(p, from, to), s)
<1> DEFINE x == Append(p, s)
<1>1. x \in Path /\ Len(x) = Len(p) + 1 /\ x[Len(p) + 1] = s /\ (\A i \in 1..Len(p) : x[i] = p[i]) /\ Under(p, x)
  BY Longer, AppendProperties DEF Path
<1> HIDE DEF x
<1>2. Len(p) \in Nat /\ Len(from) \in Nat /\ Len(to) \in Nat /\ Len(from) <= Len(p) /\ Under(from, x)
  BY <1>1, PathLen, UnderIs, UnderOrder
<1>3. PICK m : m = Moved(p, from, to)
  OBVIOUS
<1>4. PICK n : n = Moved(x, from, to)
  OBVIOUS
<1>a. IsMoved(m, p, from, to) /\ IsMoved(n, x, from, to)
  BY <1>1, <1>2, <1>3, <1>4, MovedIs
<1>5. m \in Path /\ Len(m) = Len(to) + (Len(p) - Len(from)) /\ (\A i \in 1..Len(to) : m[i] = to[i])
      /\ \A j \in 1..Len(p) - Len(from) : m[Len(to) + j] = p[Len(from) + j]
  BY <1>a DEF IsMoved
<1>6. n \in Path /\ Len(n) = Len(to) + (Len(x) - Len(from)) /\ (\A i \in 1..Len(to) : n[i] = to[i])
      /\ \A j \in 1..Len(x) - Len(from) : n[Len(to) + j] = x[Len(from) + j]
  BY <1>a DEF IsMoved
<1>7. PICK y : y = Append(m, s)
  OBVIOUS
<1>8. y \in Path /\ Len(y) = Len(m) + 1 /\ y[Len(m) + 1] = s /\ \A i \in 1..Len(m) : y[i] = m[i]
  <2>1. m \in Seq(Slugs) /\ s \in Slugs
    BY <1>5 DEF Path
  <2> QED BY <1>7, <2>1, AppendProperties DEF Path
<1>9. Len(n) = Len(y) /\ Len(m) \in Nat
  BY <1>1, <1>2, <1>5, <1>6, <1>8
<1>10. ASSUME NEW i \in 1..Len(n) PROVE n[i] = y[i]
  <2>1. CASE i <= Len(to)
    BY <1>2, <1>5, <1>6, <1>8, <1>9, <2>1
  <2>2. CASE i > Len(to) /\ i <= Len(m)
    <3>1. PICK j \in 1..Len(p) - Len(from) : i = Len(to) + j
      <4>1. i - Len(to) \in 1..Len(p) - Len(from) /\ i = Len(to) + (i - Len(to))
        BY <1>2, <1>5, <2>2
      <4> QED BY <4>1
    <3>2. j \in 1..Len(x) - Len(from) /\ Len(from) + j \in 1..Len(p) /\ i \in 1..Len(m)
      BY <1>1, <1>2, <2>2, <3>1
    <3> QED BY <1>1, <1>5, <1>6, <1>8, <3>1, <3>2
  <2>3. CASE i = Len(m) + 1
    <3>1. PICK j : j = Len(p) - Len(from) + 1
      OBVIOUS
    <3>2. j \in 1..Len(x) - Len(from) /\ Len(to) + j = i /\ Len(from) + j = Len(p) + 1
      BY <1>1, <1>2, <1>5, <2>3, <3>1
    <3> QED BY <1>1, <1>6, <1>8, <2>3, <3>2
  <2> QED BY <1>2, <1>5, <1>6, <1>8, <1>9, <2>1, <2>2, <2>3
<1> QED BY <1>3, <1>4, <1>6, <1>7, <1>8, <1>9, <1>10, PathEqual DEF x

-----------------------------------------------------------------------------
(* The part of the tree a request is at work on, and what a step of it may  *)
(* change: nothing of another's.                                            *)
Reg(x, p) == x.op # "none" /\ \E q \in {x.from, x.to} : q # <<>> /\ Under(q, p)
LocalRows(c) == \A g \in GroupIds : groups'[g] = groups[g] \/
  /\ groups[g] # Absent => Reg(asks[c], groups[g].path)
  /\ groups'[g] # Absent => Reg(asks[c], groups'[g].path)
LocalRepos(c) == \A r \in RepoIds : repos'[r] = repos[r] \/
  /\ repos[r] # Absent => Reg(asks[c], Home(r)[1])
  /\ repos'[r] # Absent => Reg(asks[c], Home(r)'[1])
LocalStore(c) == \A k \in Path \X Slugs : ~Reg(asks[c], k[1]) =>
  /\ k \in DOMAIN store' <=> k \in DOMAIN store
  /\ k \in DOMAIN store => store'[k] = store[k]
LocalAsks(c) == \A d \in TreeClients : d # c => asks'[d] = asks[d]
Local(c) == LocalRows(c) /\ LocalRepos(c) /\ LocalStore(c) /\ LocalAsks(c)
GroupRowsFit == GroupsFit /\ ReposFit

LEMMA AskFields ==
  ASSUME TreeTyped, NEW c \in TreeClients
  PROVE  asks[c] \in AskRecord /\ asks[c].from \in Path /\ asks[c].to \in Path
BY DEF TreeTyped, AskRecord, Path

LEMMA RowFields ==
  ASSUME TreeTyped, NEW g \in Rows
  PROVE  /\ g \in GroupIds /\ groups[g].path \in Path /\ groups[g].slug \in Slugs
         /\ groups[g].parent \in GroupIds \cup {Root}
BY DEF TreeTyped, Rows, Path, OrganizationRow

LEMMA RepoFields ==
  ASSUME TreeTyped, ReposFit, NEW r \in RepoRows
  PROVE  /\ r \in RepoIds /\ repos[r].group \in Rows /\ repos[r].slug \in Slugs
         /\ Home(r) = <<groups[repos[r].group].path, repos[r].slug>> /\ Home(r) \in Path \X Slugs
         /\ Home(r)[1] = groups[repos[r].group].path /\ Home(r)[2] = repos[r].slug
<1>1. r \in RepoIds /\ repos[r].group \in Rows /\ repos[r].slug \in Slugs
  BY DEF TreeTyped, RepoRows, ReposFit, RepositoryRow
<1>2. groups[repos[r].group].path \in Path
  BY <1>1, RowFields
<1> QED BY <1>1, <1>2 DEF Home

LEMMA JoinedIs ==
  ASSUME TreeTyped, NEW g \in Rows \cup {Root}, NEW s \in Slugs
  PROVE  /\ Joined(g, s) \in Path /\ Joined(g, s) # <<>>
         /\ g \in Rows /\ g # Root =>
              /\ Joined(g, s) = Append(groups[g].path, s) /\ Under(groups[g].path, Joined(g, s))
              /\ ~Under(Joined(g, s), groups[g].path)
              /\ \A q \in Path : Under(q, Joined(g, s)) <=> Under(q, groups[g].path) \/ q = Joined(g, s)
         /\ g = Root => \A q \in Path : Under(q, Joined(g, s)) => q = <<>> \/ q = Joined(g, s)
<1>1. <<>> \in Path /\ \A q \in Path : Under(q, <<>>) => q = <<>>
  <2>1. <<>> \in Path
    BY EmptySeq DEF Path
  <2>2. ASSUME NEW q \in Path, Under(q, <<>>) PROVE q = <<>>
    <3>1. Len(q) \in Nat /\ Len(q) <= Len(<<>>) /\ Len(<<>>) = 0
      BY <2>1, <2>2, UnderIs, PathLen, EmptySeq
    <3>2. Len(q) = 0
      BY <3>1
    <3> QED BY <3>2, EmptySeq DEF Path
  <2> QED BY <2>1, <2>2
<1>2. CASE g = Root
  BY <1>1, <1>2, Longer DEF Joined
<1>3. CASE g # Root
  <2>1. g \in Rows /\ groups[g].path \in Path
    BY <1>3, RowFields
  <2>2. Joined(g, s) = Append(groups[g].path, s)
    BY <1>3 DEF Joined
  <2> QED BY <1>3, <2>1, <2>2, Longer
<1> QED BY <1>2, <1>3

LEMMA NoRoot == Root \notin Rows
BY TreeAssumption DEF Rows

LEMMA RowPaths ==
  ASSUME TreeTyped, GroupsFit, NEW g \in Rows
  PROVE  groups[g].path # <<>>
<1>1. groups[g].parent \in Rows \cup {Root} /\ groups[g].slug \in Slugs
  BY RowFields DEF GroupsFit
<1> QED BY <1>1, JoinedIs DEF GroupsFit

(* Requests are at work on parts that do not meet. *)
LEMMA Regions ==
  ASSUME TreeTyped, KeptApart, NEW c \in TreeClients, NEW d \in TreeClients, d # c, asks[d].op # "none",
         NEW q \in {asks[d].from, asks[d].to}, q # <<>>, NEW p \in Path, Under(p, q) \/ Under(q, p)
  PROVE  ~Reg(asks[c], p)
<1> SUFFICES ASSUME Reg(asks[c], p) PROVE FALSE
  OBVIOUS
<1>1. PICK u \in {asks[c].from, asks[c].to} : asks[c].op # "none" /\ u # <<>> /\ Under(u, p)
  BY DEF Reg
<1>2. u \in Path /\ q \in Path
  BY AskFields
<1>3. Under(u, q) \/ Under(q, u)
  BY <1>1, <1>2, UnderOrder
<1>4. Near(u, q)
  BY <1>1, <1>3 DEF Near
<1> QED BY <1>1, <1>4 DEF KeptApart

LEMMA ExceptedNear ==
  ASSUME NEW x, x.from \in Path, x.to \in Path, Knows(x), Placed(x), NEW k \in Path \X Slugs, Excepted(x, k)
  PROVE  Reg(x, k[1])
<1>1. \A p \in Path : Under(p, p)
  BY UnderOrder
<1> QED BY <1>1 DEF Placed, Excepted, Reg, At2

(* Within its part of the tree a request is the only one at work. *)
LEMMA OwnRegion ==
  ASSUME TreeTyped, Calm, NEW c \in TreeClients, NEW k \in Path \X Slugs, Reg(asks[c], k[1]), Spared(k)
  PROVE  Excepted(asks[c], k)
<1>1. PICK d \in TreeClients : Excepted(asks[d], k)
  BY DEF Spared
<1>2. Reg(asks[d], k[1])
  BY <1>1, ExceptedNear, AskFields DEF Calm
<1>3. ASSUME d # c PROVE FALSE
  <2>1. PICK q \in {asks[d].from, asks[d].to} : asks[d].op # "none" /\ q # <<>> /\ Under(q, k[1])
    BY <1>2 DEF Reg
  <2> QED BY <1>3, <2>1, Regions DEF Calm
<1> QED BY <1>1, <1>3

LEMMA Kept ==
  ASSUME TreeTyped, GroupRowsFit, TreeTyped', GroupRowsFit', NEW c \in TreeClients, Local(c)
  PROVE  /\ \A g \in Rows : ~Reg(asks[c], groups[g].path) => groups'[g] = groups[g] /\ g \in Rows'
         /\ \A g \in Rows' : ~Reg(asks[c], groups'[g].path) => groups'[g] = groups[g] /\ g \in Rows
         /\ \A r \in RepoRows : ~Reg(asks[c], Home(r)[1]) =>
              repos'[r] = repos[r] /\ r \in RepoRows' /\ Home(r)' = Home(r)
         /\ \A r \in RepoRows' : ~Reg(asks[c], Home(r)'[1]) =>
              repos'[r] = repos[r] /\ r \in RepoRows /\ Home(r)' = Home(r)
<1>1. ASSUME NEW g \in Rows, ~Reg(asks[c], groups[g].path) PROVE groups'[g] = groups[g] /\ g \in Rows'
  BY <1>1 DEF Local, LocalRows, Rows
<1>2. ASSUME NEW g \in Rows', ~Reg(asks[c], groups'[g].path) PROVE groups'[g] = groups[g] /\ g \in Rows
  BY <1>2 DEF Local, LocalRows, Rows
<1>3. ASSUME NEW r \in RepoRows, ~Reg(asks[c], Home(r)[1])
      PROVE  repos'[r] = repos[r] /\ r \in RepoRows' /\ Home(r)' = Home(r)
  <2>1. r \in RepoIds /\ repos[r] # Absent /\ repos[r].group \in Rows /\ Home(r)[1] = groups[repos[r].group].path
    BY RepoFields DEF GroupRowsFit, RepoRows
  <2>2. repos'[r] = repos[r] /\ groups'[repos[r].group] = groups[repos[r].group]
    BY <1>1, <1>3, <2>1 DEF Local, LocalRepos
  <2> QED BY <2>1, <2>2 DEF RepoRows, Home
<1>4. ASSUME NEW r \in RepoRows', ~Reg(asks[c], Home(r)'[1])
      PROVE  repos'[r] = repos[r] /\ r \in RepoRows /\ Home(r)' = Home(r)
  <2>1. r \in RepoIds /\ repos'[r] # Absent
    BY DEF RepoRows
  <2>2. repos'[r].group \in Rows' /\ Home(r)'[1] = groups'[repos'[r].group].path
    BY <2>1 DEF GroupRowsFit, ReposFit, RepoRows, Home
  <2>3. repos'[r] = repos[r] /\ groups'[repos'[r].group] = groups[repos'[r].group]
    BY <1>2, <1>4, <2>1, <2>2 DEF Local, LocalRepos
  <2> QED BY <2>1, <2>3 DEF RepoRows, Home
<1> QED BY <1>1, <1>2, <1>3, <1>4

(* What a request relies on, no other takes from it. *)
LEMMA OthersKnow ==
  ASSUME TreeTyped, Calm, TreeTyped', GroupRowsFit', NEW c \in TreeClients, Local(c), NEW d \in TreeClients, d # c
  PROVE  Knows(asks[d])' /\ Placed(asks[d])'
<1>0. PICK x : x = asks[d]
  OBVIOUS
<1>1. x \in AskRecord /\ x.from \in Path /\ x.to \in Path /\ asks'[d] = x /\ Knows(x) /\ Placed(x)
  BY <1>0, AskFields DEF Local, LocalAsks, Calm
<1>2. ASSUME x.op # "none", NEW q \in {x.from, x.to}, q # <<>>, NEW p \in Path, Under(p, q) \/ Under(q, p)
      PROVE  ~Reg(asks[c], p)
  BY <1>0, <1>2, Regions DEF Calm
<1>3. GroupRowsFit
  BY DEF GroupRowsFit, Calm
<1>4. /\ \A g \in Rows : ~Reg(asks[c], groups[g].path) => groups'[g] = groups[g] /\ g \in Rows'
      /\ \A g \in Rows' : ~Reg(asks[c], groups'[g].path) => groups'[g] = groups[g] /\ g \in Rows
      /\ \A r \in RepoRows : ~Reg(asks[c], Home(r)[1]) =>
           repos'[r] = repos[r] /\ r \in RepoRows' /\ Home(r)' = Home(r)
      /\ \A r \in RepoRows' : ~Reg(asks[c], Home(r)'[1]) =>
           repos'[r] = repos[r] /\ r \in RepoRows /\ Home(r)' = Home(r)
  BY <1>3, Kept
<1>5. /\ \A g \in Rows : groups[g].path \in Path
      /\ \A g \in Rows' : groups'[g].path \in Path
      /\ \A r \in RepoRows : Home(r) \in Path \X Slugs
      /\ \A r \in RepoRows' : Home(r)' \in Path \X Slugs
  <2>1. \A r \in RepoRows' : repos'[r].group \in Rows' /\ repos'[r].slug \in Slugs
    BY DEF TreeTyped, GroupRowsFit, ReposFit, RepoRows, RepositoryRow
  <2>2. \A g \in Rows' : groups'[g].path \in Path
    BY DEF TreeTyped, Rows, Path, OrganizationRow
  <2> QED BY <1>3, <2>1, <2>2, RowFields, RepoFields DEF GroupRowsFit, Home
<1>6. \A k \in Path \X Slugs : ~Reg(asks[c], k[1]) =>
        (k \in DOMAIN store' <=> k \in DOMAIN store) /\ (k \in DOMAIN store => store'[k] = store[k])
  BY DEF Local, LocalStore
<1>7. \A p \in Path : Under(p, p)
  BY UnderOrder
<1>8. ASSUME x.op # "none", NEW q \in {x.from, x.to}, q # <<>>, NEW g, IsAt(g, q)
      PROVE  groups'[g] = groups[g] /\ IsAt(g, q)'
  <2>1. g \in Rows /\ ~Reg(asks[c], groups[g].path)
    BY <1>2, <1>5, <1>7, <1>8 DEF IsAt
  <2> QED BY <1>4, <1>8, <2>1 DEF IsAt
<1>9. ASSUME x.op # "none", NEW q \in {x.from, x.to}, q # <<>>, NEW g \in Rows \cup {Root}, NEW s \in Slugs,
             q = Joined(g, s)
      PROVE  g \in Rows' \cup {Root} /\ Joined(g, s)' = q
  <2>1. CASE g = Root
    BY <1>9, <2>1 DEF Joined
  <2>2. CASE g # Root
    <3>1. g \in Rows /\ Under(groups[g].path, q)
      BY <1>9, <2>2, JoinedIs
    <3>2. groups'[g] = groups[g] /\ g \in Rows'
      BY <1>2, <1>4, <1>5, <1>9, <3>1
    <3> QED BY <1>9, <2>2, <3>2 DEF Joined
  <2> QED BY <2>1, <2>2
<1>10. Placed(asks[d])'
  BY <1>1 DEF Placed
<1>11. CASE x.op = "none"
  BY <1>1, <1>11 DEF Knows
<1>12. CASE x.op = "group"
  <2>1. x.id \in Rows \cup {Root} /\ x.slug \in Slugs /\ x.to = Joined(x.id, x.slug) /\ x.pc = "insert" /\ x.to # <<>>
    BY <1>1, <1>12 DEF Knows, KnowsGroup, Placed
  <2>2. x.id \in Rows' \cup {Root} /\ Joined(x.id, x.slug)' = x.to
    BY <1>9, <1>12, <2>1
  <2>20. KnowsGroup(asks[d])'
    BY <1>1, <2>1, <2>2 DEF KnowsGroup
  <2> QED BY <1>1, <1>10, <1>12, <2>20 DEF Knows
<1>13. CASE x.op = "delete"
  <2>1. x.pc \in {"rows", "dir"} /\ x.from # <<>>
    BY <1>1, <1>13 DEF Knows, KnowsDelete, Placed
  <2>2. x.pc = "rows" => IsAt(x.id, x.from)'
    BY <1>1, <1>8, <1>13, <2>1 DEF Knows, KnowsDelete
  <2>3. ASSUME x.pc = "dir", NEW g \in Rows', Under(x.from, groups'[g].path) PROVE FALSE
    <3>1. ~Reg(asks[c], groups'[g].path)
      BY <1>2, <1>5, <1>13, <2>1, <2>3
    <3>2. groups'[g] = groups[g] /\ g \in Rows
      BY <1>4, <3>1
    <3> QED BY <1>1, <1>13, <2>3, <3>2 DEF Knows, KnowsDelete
  <2>20. KnowsDelete(asks[d])'
    BY <1>1, <2>1, <2>2, <2>3 DEF KnowsDelete
  <2> QED BY <1>1, <1>10, <1>13, <2>20 DEF Knows
<1>14. CASE x.op = "repo"
  <2>1. x.pc \in {"insert", "init"} /\ IsAt(x.into, x.to) /\ x.slug \in Slugs /\ x.to # <<>>
    BY <1>1, <1>14 DEF Knows, KnowsRepo, Placed
  <2>2. IsAt(x.into, x.to)'
    BY <1>8, <1>14, <2>1
  <2>3. ASSUME x.pc = "init"
        PROVE  /\ x.id \in RepoRows' /\ repos'[x.id] = [group |-> x.into, slug |-> x.slug]
               /\ <<x.to, x.slug>> \notin DOMAIN store'
    <3>1. /\ x.id \in RepoRows /\ repos[x.id] = [group |-> x.into, slug |-> x.slug]
          /\ <<x.to, x.slug>> \notin DOMAIN store
      BY <1>1, <1>14, <2>3 DEF Knows, KnowsRepo
    <3>2. Home(x.id)[1] = x.to
      BY <2>1, <3>1 DEF Home, IsAt
    <3>3. ~Reg(asks[c], x.to)
      BY <1>1, <1>2, <1>7, <1>14, <2>1
    <3>4. <<x.to, x.slug>> \in Path \X Slugs /\ <<x.to, x.slug>>[1] = x.to
      BY <1>1, <2>1
    <3> QED BY <1>4, <1>6, <3>1, <3>2, <3>3, <3>4
  <2>20. KnowsRepo(asks[d])'
    BY <1>1, <2>1, <2>2, <2>3 DEF KnowsRepo
  <2> QED BY <1>1, <1>10, <1>14, <2>20 DEF Knows
<1>15. CASE x.op = "unrepo"
  <2>1. x.pc \in {"row", "dir"} /\ x.from # <<>> /\ x.slug \in Slugs
    BY <1>1, <1>15 DEF Knows, KnowsUnrepo, Placed
  <2>2. ~Reg(asks[c], x.from)
    BY <1>1, <1>2, <1>7, <1>15, <2>1
  <2>3. x.pc = "row" => x.id \in RepoRows' /\ Home(x.id)' = <<x.from, x.slug>>
    <3>1. x.pc = "row" => x.id \in RepoRows /\ Home(x.id) = <<x.from, x.slug>>
      BY <1>1, <1>15 DEF Knows, KnowsUnrepo
    <3> QED BY <1>4, <2>2, <3>1
  <2>4. ASSUME x.pc = "dir", NEW r \in RepoRows', Home(r)' = <<x.from, x.slug>> PROVE FALSE
    <3>1. r \in RepoRows /\ Home(r)' = Home(r)
      BY <1>4, <2>2, <2>4
    <3> QED BY <1>1, <1>15, <2>4, <3>1 DEF Knows, KnowsUnrepo
  <2>20. KnowsUnrepo(asks[d])'
    BY <1>1, <2>1, <2>3, <2>4 DEF KnowsUnrepo
  <2> QED BY <1>1, <1>10, <1>15, <2>20 DEF Knows
<1>16. CASE x.op = "transfer"
  <2>1. /\ x.pc \in {"move", "commit"} /\ x.id \in RepoRows /\ Home(x.id) = <<x.from, x.slug>>
        /\ IsAt(x.into, x.to) /\ x.to # x.from
        /\ \A q \in RepoRows : repos[q] # [group |-> x.into, slug |-> x.slug]
        /\ x.pc = "commit" => DirHolds(<<x.to, x.slug>>, x.id) /\ <<x.from, x.slug>> \notin DOMAIN store
        /\ x.from # <<>> /\ x.to # <<>>
    BY <1>1, <1>16 DEF Knows, KnowsTransfer, Placed
  <2>2. ~Reg(asks[c], x.from) /\ ~Reg(asks[c], x.to)
    BY <1>1, <1>2, <1>7, <1>16, <2>1
  <2>3. x.id \in RepoRows' /\ Home(x.id)' = <<x.from, x.slug>> /\ IsAt(x.into, x.to)'
    BY <1>4, <1>8, <1>16, <2>1, <2>2
  <2>4. ASSUME NEW r \in RepoRows', repos'[r] = [group |-> x.into, slug |-> x.slug] PROVE FALSE
    <3>1. Home(r)'[1] = x.to
      BY <2>3, <2>4 DEF Home, IsAt
    <3> QED BY <1>4, <2>1, <2>2, <2>4, <3>1
  <2>5. x.slug \in Slugs
    <3>1. PICK h \in Path \X Slugs : h = <<x.from, x.slug>>
      BY <1>5, <2>1
    <3> QED BY <3>1
  <2>6. <<x.to, x.slug>> \in Path \X Slugs /\ <<x.from, x.slug>> \in Path \X Slugs
    BY <1>1, <2>5
  <2>7. x.pc = "commit" => DirHolds(<<x.to, x.slug>>, x.id)' /\ <<x.from, x.slug>> \notin DOMAIN store'
    BY <1>6, <2>1, <2>2, <2>6 DEF DirHolds
  <2>20. KnowsTransfer(asks[d])'
    BY <1>1, <2>1, <2>3, <2>4, <2>7 DEF KnowsTransfer
  <2> QED BY <1>1, <1>10, <1>16, <2>20 DEF Knows
<1>17. CASE x.op = "rename"
  <2>1. /\ IsAt(x.id, x.from) /\ x.slug \in Slugs /\ x.to = Joined(groups[x.id].parent, x.slug) /\ x.to # x.from
        /\ x.pc \in {"move", "commit"} /\ (x.pc = "move" => ~x.moved) /\ x.from # <<>> /\ x.to # <<>>
    BY <1>1, <1>17 DEF Knows, KnowsRename, RenameStands, Placed
  <2>2. groups'[x.id] = groups[x.id] /\ IsAt(x.id, x.from)'
    BY <1>8, <1>17, <2>1
  <2>3. groups[x.id].parent \in Rows \cup {Root}
    BY <2>1 DEF IsAt, Calm, GroupsFit
  <2>4. x.to = Joined(groups[x.id].parent, x.slug)'
    BY <1>9, <1>17, <2>1, <2>2, <2>3
  <2>5. ASSUME NEW r \in RepoRows', NEW q \in {x.from, x.to}, Under(q, Home(r)'[1])
        PROVE  r \in RepoRows /\ Home(r)' = Home(r)
    <3>1. ~Reg(asks[c], Home(r)'[1])
      BY <1>2, <1>5, <1>17, <2>1, <2>5
    <3> QED BY <1>4, <3>1
  <2>6. ASSUME NEW r \in RepoRows, NEW q \in {x.from, x.to}, Under(q, Home(r)[1])
        PROVE  r \in RepoRows' /\ Home(r)' = Home(r)
    <3>1. ~Reg(asks[c], Home(r)[1])
      BY <1>2, <1>5, <1>17, <2>1, <2>6
    <3> QED BY <1>4, <3>1
  <2>7. ASSUME NEW k \in Path \X Slugs, NEW q \in {x.from, x.to}, Under(q, k[1])
        PROVE  (k \in DOMAIN store' <=> k \in DOMAIN store) /\ (k \in DOMAIN store => store'[k] = store[k])
    <3>1. ~Reg(asks[c], k[1])
      BY <1>2, <1>17, <2>1, <2>7
    <3> QED BY <1>6, <3>1
  <2>8. DOMAIN store' \subseteq Path \X Slugs
    BY DEF TreeTyped, Path
  <2>9. x.pc = "commit" /\ ~x.moved => \A r \in RepoRows' : ~Under(x.from, Home(r)'[1])
    BY <1>1, <1>17, <2>5 DEF Knows, KnowsRename
  <2>10. ASSUME x.pc = "commit" /\ x.moved
         PROVE  /\ \A k \in DOMAIN store' : ~Under(x.from, k[1])
                /\ \A r \in RepoRows' : ~Under(x.to, Home(r)'[1])
                /\ \A r \in RepoRows' : Under(x.from, Home(r)'[1]) => DirHolds(Target(x, r), r)'
                /\ \A k \in DOMAIN store' : Under(x.to, k[1]) =>
                     \E r \in RepoRows' : Under(x.from, Home(r)'[1]) /\ Target(x, r)' = k
    <3>1. /\ \A k \in DOMAIN store : ~Under(x.from, k[1])
          /\ \A r \in RepoRows : ~Under(x.to, Home(r)[1])
          /\ \A r \in RepoRows : Under(x.from, Home(r)[1]) => DirHolds(Target(x, r), r)
          /\ \A k \in DOMAIN store : Under(x.to, k[1]) =>
               \E r \in RepoRows : Under(x.from, Home(r)[1]) /\ Target(x, r) = k
      BY <1>1, <1>17, <2>10 DEF Knows, KnowsRename, RenameMoved
    <3>2. \A k \in DOMAIN store' : ~Under(x.from, k[1])
      BY <2>7, <2>8, <3>1
    <3>3. \A r \in RepoRows' : ~Under(x.to, Home(r)'[1])
      BY <2>5, <3>1
    <3>4. ASSUME NEW r \in RepoRows', Under(x.from, Home(r)'[1]) PROVE DirHolds(Target(x, r), r)'
      <4>1. r \in RepoRows /\ Home(r)' = Home(r) /\ Under(x.from, Home(r)[1]) /\ Home(r) \in Path \X Slugs
        BY <1>5, <2>5, <3>4
      <4>2. DirHolds(Target(x, r), r) /\ Target(x, r)' = Target(x, r)
        BY <3>1, <4>1 DEF Target
      <4>3. Under(x.to, Target(x, r)[1]) /\ Target(x, r) \in Path \X Slugs
        BY <1>1, <4>1, MovedUnder DEF Target
      <4> QED BY <2>7, <4>2, <4>3 DEF DirHolds
    <3>5. ASSUME NEW k \in DOMAIN store', Under(x.to, k[1])
          PROVE  \E r \in RepoRows' : Under(x.from, Home(r)'[1]) /\ Target(x, r)' = k
      <4>1. k \in DOMAIN store
        BY <2>7, <2>8, <3>5
      <4>2. PICK r \in RepoRows : Under(x.from, Home(r)[1]) /\ Target(x, r) = k
        BY <3>1, <3>5, <4>1
      <4>3. r \in RepoRows' /\ Home(r)' = Home(r)
        BY <2>6, <4>2
      <4> QED BY <4>2, <4>3 DEF Target
    <3> QED BY <3>2, <3>3, <3>4, <3>5
  <2>20. RenameStands(asks[d])'
    BY <1>1, <2>1, <2>2, <2>4 DEF RenameStands
  <2>21. x.pc = "commit" /\ x.moved => RenameMoved(asks[d])'
    BY <1>1, <2>10 DEF RenameMoved
  <2>22. KnowsRename(asks[d])'
    BY <1>1, <2>9, <2>20, <2>21 DEF KnowsRename
  <2> QED BY <1>1, <1>10, <1>17, <2>22 DEF Knows
<1> QED BY <1>1, <1>11, <1>12, <1>13, <1>14, <1>15, <1>16, <1>17 DEF AskRecord

(* Outside of its part a step of a request leaves rows and directories agreed. *)
LEMMA FitsOutside ==
  ASSUME TreeTyped, Calm, TreeTyped', GroupRowsFit', NEW c \in TreeClients, Local(c)
  PROVE  /\ \A r \in RepoRows' : ~Reg(asks[c], Home(r)'[1]) => Spared(Home(r))' \/ DirHolds(Home(r), r)'
         /\ \A k \in DOMAIN store' : ~Reg(asks[c], k[1]) => Spared(k)' \/ \E r \in RepoRows' : Home(r)' = k
<1>1. GroupRowsFit /\ StoreFits
  BY DEF GroupRowsFit, Calm
<1>2. /\ \A r \in RepoRows : ~Reg(asks[c], Home(r)[1]) =>
           repos'[r] = repos[r] /\ r \in RepoRows' /\ Home(r)' = Home(r)
      /\ \A r \in RepoRows' : ~Reg(asks[c], Home(r)'[1]) =>
           repos'[r] = repos[r] /\ r \in RepoRows /\ Home(r)' = Home(r)
  BY <1>1, Kept
<1>3. ASSUME NEW k \in Path \X Slugs, ~Reg(asks[c], k[1]), Spared(k)
      PROVE  \E d \in TreeClients : Excepted(asks'[d], k)
  <2>1. PICK d \in TreeClients : Excepted(asks[d], k)
    BY <1>3 DEF Spared
  <2>2. d # c
    <3>1. asks[c].from \in Path /\ asks[c].to \in Path /\ Knows(asks[c]) /\ Placed(asks[c])
      BY AskFields DEF Calm
    <3> QED BY <1>3, <2>1, <3>1, ExceptedNear
  <2>3. asks'[d] = asks[d]
    BY <2>2 DEF Local, LocalAsks
  <2> QED BY <2>1, <2>3
<1>4. \A k \in Path \X Slugs : ~Reg(asks[c], k[1]) =>
        (k \in DOMAIN store' <=> k \in DOMAIN store) /\ (k \in DOMAIN store => store'[k] = store[k])
  BY DEF Local, LocalStore
<1>5. ASSUME NEW r \in RepoRows', ~Reg(asks[c], Home(r)'[1]) PROVE Spared(Home(r))' \/ DirHolds(Home(r), r)'
  <2>1. r \in RepoRows /\ Home(r)' = Home(r)
    BY <1>2, <1>5
  <2>2. PICK k \in Path \X Slugs : k = Home(r)
    BY <1>1, <2>1, RepoFields DEF GroupRowsFit
  <2>3. ~Reg(asks[c], k[1]) /\ Home(r)' = k
    BY <1>5, <2>1, <2>2
  <2>4. CASE Spared(k)
    <3>1. PICK d \in TreeClients : Excepted(asks'[d], k)
      BY <1>3, <2>3, <2>4
    <3> QED BY <2>3, <3>1 DEF Spared
  <2>5. CASE ~Spared(k)
    <3>1. DirHolds(k, r)
      BY <1>1, <2>1, <2>2, <2>5 DEF StoreFits
    <3> QED BY <1>4, <2>3, <3>1 DEF DirHolds
  <2> QED BY <2>4, <2>5
<1>6. ASSUME NEW k \in DOMAIN store', ~Reg(asks[c], k[1]) PROVE Spared(k)' \/ \E r \in RepoRows' : Home(r)' = k
  <2>1. k \in Path \X Slugs
    BY DEF TreeTyped, Path
  <2>2. k \in DOMAIN store
    BY <1>4, <1>6, <2>1
  <2>3. CASE Spared(k)
    <3>1. PICK d \in TreeClients : Excepted(asks'[d], k)
      BY <1>3, <1>6, <2>1, <2>3
    <3> QED BY <3>1 DEF Spared
  <2>4. CASE ~Spared(k)
    <3>1. PICK r \in RepoRows : Home(r) = k
      BY <1>1, <2>2, <2>4 DEF StoreFits
    <3> QED BY <1>2, <1>6, <3>1
  <2> QED BY <2>3, <2>4
<1> QED BY <1>5, <1>6

(* The requests of the others stand where they stood. *)
SamePaths(c) ==
  /\ LocalAsks(c)
  /\ asks'[c].op # "none" => asks'[c].from = asks[c].from /\ asks'[c].to = asks[c].to /\ asks[c].op # "none"
LEMMA StillApart ==
  ASSUME KeptApart, NEW c \in TreeClients, SamePaths(c)
  PROVE  KeptApart'
<1> SUFFICES ASSUME NEW i \in TreeClients, NEW j \in TreeClients, i # j, asks'[i].op # "none", asks'[j].op # "none",
                    NEW p \in {asks'[i].from, asks'[i].to}, NEW q \in {asks'[j].from, asks'[j].to}
             PROVE  ~Near(p, q)
  BY DEF KeptApart, Near
<1>1. \A d \in TreeClients : asks'[d].op # "none" =>
        asks[d].op # "none" /\ asks'[d].from = asks[d].from /\ asks'[d].to = asks[d].to
  BY DEF SamePaths, LocalAsks
<1>2. asks[i].op # "none" /\ asks[j].op # "none" /\ p \in {asks[i].from, asks[i].to} /\ q \in {asks[j].from, asks[j].to}
  BY <1>1
<1> QED BY <1>2 DEF KeptApart

(* What a step of request c has to see to. *)
SettledFor(c) ==
  /\ \A r \in RepoRows' : Reg(asks[c], Home(r)'[1]) => Excepted(asks'[c], Home(r)') \/ Spared(Home(r))' \/ DirHolds(Home(r), r)'
  /\ \A k \in DOMAIN store' : Reg(asks[c], k[1]) =>
       Excepted(asks'[c], k) \/ Spared(k)' \/ \E r \in RepoRows' : Home(r)' = k
LEMMA StepIsCalm ==
  ASSUME TreeTyped, Calm, TreeTyped', NEW c \in TreeClients, Local(c), KeptApart', GroupsFit', ReposFit', DirsFit',
         SettledFor(c), Knows(asks[c])', Placed(asks[c])'
  PROVE  Calm'
<1>1. GroupRowsFit'
  BY DEF GroupRowsFit
<1>3. \A d \in TreeClients : Knows(asks[d])' /\ Placed(asks[d])'
  <2> TAKE d \in TreeClients
  <2>1. CASE d = c
    BY <2>1
  <2>2. CASE d # c
    BY <1>1, <2>2, OthersKnow
  <2> QED BY <2>1, <2>2
<1>4. ASSUME NEW k, Excepted(asks'[c], k) PROVE Spared(k)'
  BY <1>4 DEF Spared
<1>5. StoreFits'
  <2>1. /\ \A r \in RepoRows' : ~Reg(asks[c], Home(r)'[1]) => Spared(Home(r))' \/ DirHolds(Home(r), r)'
        /\ \A k \in DOMAIN store' : ~Reg(asks[c], k[1]) => Spared(k)' \/ \E r \in RepoRows' : Home(r)' = k
    BY <1>1, FitsOutside
  <2>2. ASSUME NEW r \in RepoRows' PROVE Spared(Home(r))' \/ DirHolds(Home(r), r)'
    <3>1. PICK k : k = Home(r)'
      OBVIOUS
    <3>2. CASE Reg(asks[c], k[1]) /\ Excepted(asks'[c], k)
      <4>1. \E d \in TreeClients : Excepted(asks'[d], Home(r)')
        BY <3>1, <3>2
      <4> QED BY <4>1 DEF Spared
    <3>3. CASE ~(Reg(asks[c], k[1]) /\ Excepted(asks'[c], k))
      BY <2>1, <3>1, <3>3 DEF SettledFor
    <3> QED BY <3>2, <3>3
  <2>3. ASSUME NEW k \in DOMAIN store' PROVE Spared(k)' \/ \E r \in RepoRows' : Home(r)' = k
    BY <1>4, <2>1 DEF SettledFor
  <2> QED BY <2>2, <2>3 DEF StoreFits
<1> QED BY <1>3, <1>5 DEF Calm, GroupRowsFit

(* Steps that change requests alone. *)
Data == <<groups, repos, dirs, store>>
LEMMA SameData ==
  ASSUME UNCHANGED Data, NEW x, Knows(x)
  PROVE  Knows(x)'
<1>1. groups' = groups /\ repos' = repos /\ dirs' = dirs /\ store' = store
  BY DEF Data
<1>2. Rows' = Rows /\ RepoRows' = RepoRows
  BY <1>1 DEF Rows, RepoRows
<1>3. /\ \A g, p : IsAt(g, p)' <=> IsAt(g, p)
      /\ \A g, s : Joined(g, s)' = Joined(g, s)
      /\ \A r : Home(r)' = Home(r)
      /\ \A k, r : DirHolds(k, r)' <=> DirHolds(k, r)
  BY <1>1, <1>2 DEF IsAt, Joined, Home, DirHolds
<1>4. KnowsGroup(x) => KnowsGroup(x)'
  BY <1>2, <1>3 DEF KnowsGroup
<1>5. KnowsRename(x) => KnowsRename(x)'
  <2>1. RenameStands(x) => RenameStands(x)'
    BY <1>1, <1>3 DEF RenameStands
  <2>2. \A r : Target(x, r)' = Target(x, r)
    BY <1>3 DEF Target
  <2>3. RenameMoved(x) => RenameMoved(x)'
    BY <1>1, <1>2, <1>3, <2>2 DEF RenameMoved
  <2> QED BY <1>2, <1>3, <2>1, <2>3 DEF KnowsRename
<1>6. KnowsDelete(x) => KnowsDelete(x)'
  BY <1>1, <1>2, <1>3 DEF KnowsDelete
<1>7. KnowsRepo(x) => KnowsRepo(x)'
  BY <1>1, <1>2, <1>3 DEF KnowsRepo
<1>8. KnowsUnrepo(x) => KnowsUnrepo(x)'
  BY <1>2, <1>3 DEF KnowsUnrepo
<1>9. KnowsTransfer(x) => KnowsTransfer(x)'
  BY <1>1, <1>2, <1>3 DEF KnowsTransfer
<1> QED BY <1>4, <1>5, <1>6, <1>7, <1>8, <1>9 DEF Knows

LEMMA SetAsk ==
  ASSUME asks \in [TreeClients -> AskRecord], NEW c \in TreeClients, NEW x \in AskRecord, asks' = [asks EXCEPT ![c] = x]
  PROVE  asks' \in [TreeClients -> AskRecord] /\ asks'[c] = x /\ LocalAsks(c)
BY DEF LocalAsks

LEMMA SettledAsBefore ==
  ASSUME TreeTyped, Calm, NEW c \in TreeClients, RepoRows' = RepoRows, \A r \in RepoRows : Home(r)' = Home(r), store' = store,
         \A k \in Path \X Slugs : Excepted(asks[c], k) => Excepted(asks'[c], k)
  PROVE  SettledFor(c)
<1>1. ASSUME NEW k \in Path \X Slugs, Reg(asks[c], k[1]), Spared(k) PROVE Excepted(asks'[c], k)
  BY <1>1, OwnRegion
<1>2. ASSUME NEW r \in RepoRows', Reg(asks[c], Home(r)'[1])
      PROVE  Excepted(asks'[c], Home(r)') \/ Spared(Home(r))' \/ DirHolds(Home(r), r)'
  <2>1. PICK k \in Path \X Slugs : k = Home(r) /\ Home(r)' = k /\ r \in RepoRows
    BY RepoFields DEF Calm
  <2>2. Spared(k) \/ DirHolds(k, r)
    BY <2>1 DEF Calm, StoreFits
  <2> QED BY <1>1, <1>2, <2>1, <2>2 DEF DirHolds
<1>3. ASSUME NEW k \in DOMAIN store', Reg(asks[c], k[1])
      PROVE  Excepted(asks'[c], k) \/ Spared(k)' \/ \E r \in RepoRows' : Home(r)' = k
  <2>1. k \in DOMAIN store /\ k \in Path \X Slugs
    BY DEF TreeTyped, Path
  <2>2. Spared(k) \/ \E r \in RepoRows : Home(r) = k
    BY <2>1 DEF Calm, StoreFits
  <2> QED BY <1>1, <1>3, <2>1, <2>2
<1> QED BY <1>2, <1>3 DEF SettledFor

LEMMA CalmStep ==
  ASSUME TreeTyped, Calm, UNCHANGED Data, NEW c \in TreeClients, NEW x \in AskRecord, asks' = [asks EXCEPT ![c] = x],
         KeptApart', Knows(x), Placed(x), \A k \in Path \X Slugs : Excepted(asks[c], k) => Excepted(x, k)
  PROVE  TreeTyped' /\ Calm'
<1>1. groups' = groups /\ repos' = repos /\ dirs' = dirs /\ store' = store
  BY DEF Data
<1>2. asks' \in [TreeClients -> AskRecord] /\ asks'[c] = x /\ LocalAsks(c)
  BY SetAsk DEF TreeTyped
<1>3. TreeTyped'
  BY <1>1, <1>2 DEF TreeTyped
<1>4. Rows' = Rows /\ RepoRows' = RepoRows /\ (\A g, s : Joined(g, s)' = Joined(g, s)) /\ \A r : Home(r)' = Home(r)
  BY <1>1 DEF Rows, RepoRows, Joined, Home
<1>5. GroupsFit'
  BY <1>1, <1>4 DEF GroupsFit, Calm
<1>6. ReposFit' /\ DirsFit'
  BY <1>1, <1>4 DEF ReposFit, DirsFit, Calm
<1>7. Local(c)
  BY <1>1, <1>2 DEF Local, LocalRows, LocalRepos, LocalStore
<1>9. SettledFor(c)
  BY <1>1, <1>2, <1>4, SettledAsBefore
<1>10. Knows(asks[c])' /\ Placed(asks[c])'
  <2>1. Knows(x)'
    BY SameData
  <2> QED BY <1>2, <2>1 DEF Placed, Knows, KnowsGroup, KnowsRename, RenameStands, RenameMoved, KnowsDelete, KnowsRepo,
             KnowsUnrepo, KnowsTransfer, Target
<1> QED BY <1>3, <1>5, <1>6, <1>7, <1>9, <1>10, StepIsCalm

(* No request. *)
LEMMA NoAskIs ==
  /\ NoAsk \in AskRecord /\ NoAsk.op = "none" /\ NoAsk.from = <<>> /\ NoAsk.to = <<>>
  /\ Knows(NoAsk) /\ Placed(NoAsk) /\ \A k : ~Excepted(NoAsk, k)
<1>1. <<>> \in Seq(Slugs)
  BY EmptySeq
<1>2. NoAsk \in AskRecord /\ NoAsk.op = "none" /\ NoAsk.from = <<>> /\ NoAsk.to = <<>>
  BY <1>1 DEF NoAsk, AskRecord
<1> QED BY <1>2 DEF Knows, Placed, Excepted, At2

LEMMA GoneApart ==
  ASSUME TreeTyped, Calm, NEW c \in TreeClients, Done(c)
  PROVE  KeptApart' /\ asks' = [asks EXCEPT ![c] = NoAsk] /\ asks'[c] = NoAsk /\ LocalAsks(c)
         /\ asks' \in [TreeClients -> AskRecord]
<1>1. asks' = [asks EXCEPT ![c] = NoAsk]
  BY DEF Done
<1>2. asks' \in [TreeClients -> AskRecord] /\ asks'[c] = NoAsk /\ LocalAsks(c)
  BY <1>1, NoAskIs, SetAsk DEF TreeTyped
<1>3. SamePaths(c)
  BY <1>2, NoAskIs DEF SamePaths
<1> QED BY <1>1, <1>2, <1>3, StillApart DEF Calm

(* A request that ends with nothing of its own left apart. *)
LEMMA QuietEnd ==
  ASSUME TreeTyped, Calm, UNCHANGED Data, NEW c \in TreeClients, Done(c), \A k \in Path \X Slugs : ~Excepted(asks[c], k)
  PROVE  TreeTyped' /\ Calm'
BY GoneApart, NoAskIs, CalmStep

-----------------------------------------------------------------------------
(* Requests begin. *)
AskOf(a) == [k \in DOMAIN NoAsk |-> IF k \in DOMAIN a THEN a[k] ELSE NoAsk[k]]
(* What a request does not say is as in NoAsk. *)
Says(a, x) ==
  /\ x.op = IF "op" \in DOMAIN a THEN a.op ELSE "none"
  /\ x.pc = IF "pc" \in DOMAIN a THEN a.pc ELSE "done"
  /\ x.id = IF "id" \in DOMAIN a THEN a.id ELSE Absent
  /\ x.from = IF "from" \in DOMAIN a THEN a.from ELSE <<>>
  /\ x.to = IF "to" \in DOMAIN a THEN a.to ELSE <<>>
  /\ x.slug = IF "slug" \in DOMAIN a THEN a.slug ELSE Absent
  /\ x.into = IF "into" \in DOMAIN a THEN a.into ELSE Absent
  /\ x.moved = IF "moved" \in DOMAIN a THEN a.moved ELSE FALSE
LEMMA AskOfIs ==
  ASSUME NEW a, NEW x \in AskRecord, Says(a, x)
  PROVE  x = AskOf(a)
<1>1. DOMAIN x = DOMAIN NoAsk /\ x = [k \in DOMAIN x |-> x[k]]
  BY DEF AskRecord, NoAsk
<1>2. DOMAIN NoAsk = {"op", "pc", "id", "from", "to", "slug", "into", "moved"}
  BY DEF NoAsk
<1>3. ASSUME NEW k \in DOMAIN NoAsk PROVE x[k] = IF k \in DOMAIN a THEN a[k] ELSE NoAsk[k]
  <2>1. CASE k = "op"
    BY <2>1 DEF Says, NoAsk
  <2>2. CASE k = "pc"
    BY <2>2 DEF Says, NoAsk
  <2>3. CASE k = "id"
    BY <2>3 DEF Says, NoAsk
  <2>4. CASE k = "from"
    BY <2>4 DEF Says, NoAsk
  <2>5. CASE k = "to"
    BY <2>5 DEF Says, NoAsk
  <2>6. CASE k = "slug"
    BY <2>6 DEF Says, NoAsk
  <2>7. CASE k = "into"
    BY <2>7 DEF Says, NoAsk
  <2>8. CASE k = "moved"
    BY <2>8 DEF Says, NoAsk
  <2> QED BY <1>2, <2>1, <2>2, <2>3, <2>4, <2>5, <2>6, <2>7, <2>8
<1> QED BY <1>1, <1>3 DEF AskOf

LEMMA Asking ==
  ASSUME TreeTyped, Calm, NEW c \in TreeClients, NEW a, Ask(c, a), disturbed' = {}, NEW x \in AskRecord, x = AskOf(a),
         Knows(x), Placed(x)
  PROVE  TreeTyped' /\ Calm'
<1>1. asks[c].op = "none" /\ asks' = [asks EXCEPT ![c] = x] /\ UNCHANGED Data /\ ~Clashes(c, a)
  BY DEF Ask, AskOf, Data
<1>2. x.from \in Paths(a) \cup {<<>>} /\ x.to \in Paths(a) \cup {<<>>}
  BY DEF AskOf, Paths, NoAsk
<1>3. asks' \in [TreeClients -> AskRecord] /\ asks'[c] = x /\ LocalAsks(c)
  BY <1>1, SetAsk DEF TreeTyped
<1>4. ASSUME NEW d \in TreeClients \ {c}, asks[d].op # "none", NEW p \in {x.from, x.to}, NEW q
      PROVE  q \in {asks[d].from, asks[d].to} => ~Near(p, q) /\ ~Near(q, p)
  <2>1. CASE p = <<>>
    BY <2>1 DEF Near
  <2>2. CASE p # <<>>
    <3>1. p \in Paths(a)
      BY <1>2, <2>2
    <3>2. asks[d] \in AskRecord
      BY AskFields
    <3>3. q \in {asks[d].from, asks[d].to} => q \in Paths(asks[d])
      BY <3>2 DEF Paths, AskRecord
    <3> QED BY <1>1, <1>4, <3>1, <3>3 DEF Clashes, Near
  <2> QED BY <2>1, <2>2
<1>5. KeptApart'
  <2> SUFFICES ASSUME NEW i \in TreeClients, NEW j \in TreeClients, i # j, asks'[i].op # "none", asks'[j].op # "none",
                      NEW p \in {asks'[i].from, asks'[i].to}, NEW q \in {asks'[j].from, asks'[j].to}
               PROVE  ~Near(p, q)
    BY DEF KeptApart, Near
  <2>1. CASE i = c
    <3>1. asks'[j] = asks[j] /\ j \in TreeClients \ {c} /\ p \in {x.from, x.to}
      BY <1>3, <2>1 DEF LocalAsks
    <3> QED BY <1>4, <3>1
  <2>2. CASE j = c
    <3>1. asks'[i] = asks[i] /\ i \in TreeClients \ {c} /\ q \in {x.from, x.to}
      BY <1>3, <2>2 DEF LocalAsks
    <3> QED BY <1>4, <3>1
  <2>3. CASE i # c /\ j # c
    <3>1. asks'[i] = asks[i] /\ asks'[j] = asks[j]
      BY <1>3, <2>3 DEF LocalAsks
    <3> QED BY <3>1 DEF Calm, KeptApart
  <2> QED BY <2>1, <2>2, <2>3
<1>6. \A k : ~Excepted(asks[c], k)
  BY <1>1 DEF Excepted, At2
<1> QED BY <1>1, <1>5, <1>6, CalmStep

LEMMA AskStays ==
  ASSUME TreeTyped, Calm, NEW c \in TreeClients, disturbed' = {},
         AskGroup(c) \/ AskRename(c) \/ AskDelete(c) \/ AskRepo(c) \/ AskDeleteRepo(c) \/ AskTransfer(c)
  PROVE  TreeTyped' /\ Calm'
<1>1. <<>> \in Path /\ <<>> \in Seq(Slugs) /\ Path = Seq(Slugs)
  BY EmptySeq DEF Path
<1>2. GroupsFit /\ ReposFit
  BY DEF Calm
<1>3. CASE AskGroup(c)
  <2>1. PICK p \in Rows \cup {Root}, s \in Slugs :
          Ask(c, [op |-> "group", pc |-> "insert", id |-> p, slug |-> s, to |-> Joined(p, s)])
    BY <1>3 DEF AskGroup
  <2>2. PICK t : t = Joined(p, s)
    OBVIOUS
  <2>3. t \in Path /\ t # <<>>
    BY <2>2, JoinedIs
  <2>4. PICK a : a = [op |-> "group", pc |-> "insert", id |-> p, slug |-> s, to |-> t]
    OBVIOUS
  <2>5. PICK x : x = [op |-> "group", pc |-> "insert", id |-> p, from |-> <<>>, to |-> t, slug |-> s,
                      into |-> Absent, moved |-> FALSE]
    OBVIOUS
  <2>6. x = AskOf(a)
    <3>1. x \in AskRecord
      BY <1>1, <2>3, <2>5 DEF AskRecord, Rows
    <3>2. DOMAIN a = {"op", "pc", "id", "slug", "to"}
      BY <2>4
    <3>3. Says(a, x)
      BY <2>4, <2>5, <3>2 DEF Says
    <3> QED BY <3>1, <3>3, AskOfIs
  <2>7. x \in AskRecord /\ Placed(x)
    BY <1>1, <2>3, <2>5 DEF AskRecord, Rows, Placed
  <2>8. Knows(x)
    BY <2>2, <2>5 DEF Knows, KnowsGroup
  <2>9. Ask(c, a)
    BY <2>1, <2>2, <2>4
  <2> QED BY <2>6, <2>7, <2>8, <2>9, Asking
<1>4. CASE AskRename(c)
  <2>1. PICK g \in Rows, s \in Slugs :
          /\ Joined(groups[g].parent, s) # groups[g].path
          /\ Ask(c, [op |-> "rename", pc |-> "move", id |-> g, slug |-> s,
                     from |-> groups[g].path, to |-> Joined(groups[g].parent, s)])
    BY <1>4 DEF AskRename
  <2>2. PICK t : t = Joined(groups[g].parent, s)
    OBVIOUS
  <2>3. PICK f : f = groups[g].path
    OBVIOUS
  <2>4. t \in Path /\ t # <<>> /\ f \in Path /\ f # <<>> /\ t # f /\ g \in GroupIds
    <3>1. groups[g].parent \in Rows \cup {Root}
      BY <1>2 DEF GroupsFit
    <3> QED BY <1>2, <2>1, <2>2, <2>3, <3>1, JoinedIs, RowFields, RowPaths
  <2>5. PICK a : a = [op |-> "rename", pc |-> "move", id |-> g, slug |-> s, from |-> f, to |-> t]
    OBVIOUS
  <2>6. PICK x : x = [op |-> "rename", pc |-> "move", id |-> g, from |-> f, to |-> t, slug |-> s,
                      into |-> Absent, moved |-> FALSE]
    OBVIOUS
  <2>7. x = AskOf(a)
    <3>1. x \in AskRecord
      BY <1>1, <2>4, <2>6 DEF AskRecord, Rows
    <3>2. DOMAIN a = {"op", "pc", "id", "slug", "from", "to"}
      BY <2>5
    <3>3. Says(a, x)
      BY <2>5, <2>6, <3>2 DEF Says
    <3> QED BY <3>1, <3>3, AskOfIs
  <2>8. x \in AskRecord /\ Placed(x)
    BY <1>1, <2>4, <2>6 DEF AskRecord, Placed
  <2>9. Knows(x)
    BY <2>2, <2>3, <2>4, <2>6 DEF Knows, KnowsRename, RenameStands, IsAt
  <2>10. Ask(c, a)
    BY <2>1, <2>2, <2>3, <2>5
  <2> QED BY <2>7, <2>8, <2>9, <2>10, Asking
<1>5. CASE AskDelete(c)
  <2>1. PICK g \in Rows : Ask(c, [op |-> "delete", pc |-> "rows", id |-> g, from |-> groups[g].path])
    BY <1>5 DEF AskDelete
  <2>2. PICK f : f = groups[g].path
    OBVIOUS
  <2>3. f \in Path /\ f # <<>> /\ g \in GroupIds
    BY <1>2, <2>2, RowFields, RowPaths
  <2>4. PICK a : a = [op |-> "delete", pc |-> "rows", id |-> g, from |-> f]
    OBVIOUS
  <2>5. PICK x : x = [op |-> "delete", pc |-> "rows", id |-> g, from |-> f, to |-> <<>>, slug |-> Absent,
                      into |-> Absent, moved |-> FALSE]
    OBVIOUS
  <2>6. x = AskOf(a)
    <3>1. x \in AskRecord
      BY <1>1, <2>3, <2>5 DEF AskRecord, Rows
    <3>2. DOMAIN a = {"op", "pc", "id", "from"}
      BY <2>4
    <3>3. Says(a, x)
      BY <2>4, <2>5, <3>2 DEF Says
    <3> QED BY <3>1, <3>3, AskOfIs
  <2>7. x \in AskRecord /\ Placed(x)
    BY <1>1, <2>3, <2>5 DEF AskRecord, Placed
  <2>8. Knows(x)
    BY <2>2, <2>5 DEF Knows, KnowsDelete, IsAt
  <2>9. Ask(c, a)
    BY <2>1, <2>2, <2>4
  <2> QED BY <2>6, <2>7, <2>8, <2>9, Asking
<1>6. CASE AskRepo(c)
  <2>1. PICK g \in Rows, s \in Slugs :
          Ask(c, [op |-> "repo", pc |-> "insert", into |-> g, slug |-> s, to |-> groups[g].path])
    BY <1>6 DEF AskRepo
  <2>2. PICK t : t = groups[g].path
    OBVIOUS
  <2>3. t \in Path /\ t # <<>> /\ g \in GroupIds
    BY <1>2, <2>2, RowFields, RowPaths
  <2>4. PICK a : a = [op |-> "repo", pc |-> "insert", into |-> g, slug |-> s, to |-> t]
    OBVIOUS
  <2>5. PICK x : x = [op |-> "repo", pc |-> "insert", id |-> Absent, from |-> <<>>, to |-> t, slug |-> s,
                      into |-> g, moved |-> FALSE]
    OBVIOUS
  <2>6. x = AskOf(a)
    <3>1. x \in AskRecord
      BY <1>1, <2>3, <2>5 DEF AskRecord, Rows
    <3>2. DOMAIN a = {"op", "pc", "into", "slug", "to"}
      BY <2>4
    <3>3. Says(a, x)
      BY <2>4, <2>5, <3>2 DEF Says
    <3> QED BY <3>1, <3>3, AskOfIs
  <2>7. x \in AskRecord /\ Placed(x)
    BY <1>1, <2>3, <2>5 DEF AskRecord, Placed
  <2>8. Knows(x)
    BY <2>2, <2>5 DEF Knows, KnowsRepo, IsAt
  <2>9. Ask(c, a)
    BY <2>1, <2>2, <2>4
  <2> QED BY <2>6, <2>7, <2>8, <2>9, Asking
<1>7. CASE AskDeleteRepo(c)
  <2>1. PICK r \in RepoRows : Ask(c, [op |-> "unrepo", pc |-> "row", id |-> r, from |-> Home(r)[1], slug |-> Home(r)[2]])
    BY <1>7 DEF AskDeleteRepo
  <2>2. PICK f : f = Home(r)[1]
    OBVIOUS
  <2>3. PICK s : s = Home(r)[2]
    OBVIOUS
  <2>4. f \in Path /\ f # <<>> /\ s \in Slugs /\ r \in RepoIds /\ Home(r) = <<f, s>>
    BY <1>2, <2>2, <2>3, RepoFields, RowPaths
  <2>5. PICK a : a = [op |-> "unrepo", pc |-> "row", id |-> r, from |-> f, slug |-> s]
    OBVIOUS
  <2>6. PICK x : x = [op |-> "unrepo", pc |-> "row", id |-> r, from |-> f, to |-> <<>>, slug |-> s,
                      into |-> Absent, moved |-> FALSE]
    OBVIOUS
  <2>7. x = AskOf(a)
    <3>1. x \in AskRecord
      BY <1>1, <2>4, <2>6 DEF AskRecord, Rows
    <3>2. DOMAIN a = {"op", "pc", "id", "from", "slug"}
      BY <2>5
    <3>3. Says(a, x)
      BY <2>5, <2>6, <3>2 DEF Says
    <3> QED BY <3>1, <3>3, AskOfIs
  <2>8. x \in AskRecord /\ Placed(x)
    BY <1>1, <2>4, <2>6 DEF AskRecord, Placed
  <2>9. Knows(x)
    BY <2>4, <2>6 DEF Knows, KnowsUnrepo
  <2>10. Ask(c, a)
    BY <2>1, <2>2, <2>3, <2>5
  <2> QED BY <2>7, <2>8, <2>9, <2>10, Asking
<1>8. CASE AskTransfer(c)
  <2>1. PICK r \in RepoRows, g \in Rows :
          /\ g # repos[r].group
          /\ ~\E q \in RepoRows : repos[q] = [group |-> g, slug |-> repos[r].slug]
          /\ Ask(c, [op |-> "transfer", pc |-> "move", id |-> r, into |-> g, slug |-> repos[r].slug,
                     from |-> Home(r)[1], to |-> groups[g].path])
    BY <1>8 DEF AskTransfer
  <2>2. PICK f : f = Home(r)[1]
    OBVIOUS
  <2>3. PICK s : s = repos[r].slug
    OBVIOUS
  <2>4. PICK t : t = groups[g].path
    OBVIOUS
  <2>5. f \in Path /\ f # <<>> /\ s \in Slugs /\ r \in RepoIds /\ Home(r) = <<f, s>>
    BY <1>2, <2>2, <2>3, RepoFields, RowPaths
  <2>6. t \in Path /\ t # <<>> /\ g \in GroupIds /\ t # f
    BY <1>2, <2>1, <2>2, <2>4, RepoFields, RowFields, RowPaths DEF GroupsFit
  <2>7. PICK a : a = [op |-> "transfer", pc |-> "move", id |-> r, into |-> g, slug |-> s, from |-> f, to |-> t]
    OBVIOUS
  <2>8. PICK x : x = [op |-> "transfer", pc |-> "move", id |-> r, from |-> f, to |-> t, slug |-> s,
                      into |-> g, moved |-> FALSE]
    OBVIOUS
  <2>9. x = AskOf(a)
    <3>1. x \in AskRecord
      BY <1>1, <2>5, <2>6, <2>8 DEF AskRecord, Rows
    <3>2. DOMAIN a = {"op", "pc", "id", "into", "slug", "from", "to"}
      BY <2>7
    <3>3. Says(a, x)
      BY <2>7, <2>8, <3>2 DEF Says
    <3> QED BY <3>1, <3>3, AskOfIs
  <2>10. x \in AskRecord /\ Placed(x)
    BY <1>1, <2>5, <2>6, <2>8 DEF AskRecord, Placed
  <2>11. \A q \in RepoRows : repos[q] # [group |-> g, slug |-> s]
    BY <2>1, <2>3
  <2>12. KnowsTransfer(x)
    BY <2>4, <2>5, <2>6, <2>8, <2>11 DEF KnowsTransfer, IsAt
  <2>13. Knows(x)
    BY <2>8, <2>12 DEF Knows
  <2>14. Ask(c, a)
    BY <2>1, <2>2, <2>3, <2>4, <2>7
  <2> QED BY <2>9, <2>10, <2>13, <2>14, Asking
<1> QED BY <1>3, <1>4, <1>5, <1>6, <1>7, <1>8

-----------------------------------------------------------------------------
(* The steps of requests about groups. *)
LEMMA AskIs ==
  ASSUME TreeTyped, Calm, NEW c \in TreeClients
  PROVE  /\ asks[c] \in AskRecord /\ asks[c].from \in Path /\ asks[c].to \in Path
         /\ Knows(asks[c]) /\ Placed(asks[c]) /\ GroupRowsFit /\ StoreFits /\ DirsFit
BY AskFields DEF Calm, GroupRowsFit

Like(y, x) == /\ y.op = x.op /\ y.id = x.id /\ y.from = x.from /\ y.to = x.to
              /\ y.slug = x.slug /\ y.into = x.into /\ y.moved = x.moved
LEMMA Going ==
  ASSUME TreeTyped, Calm, NEW c \in TreeClients, asks[c].op # "none",
         NEW pc \in {"done", "insert", "move", "commit", "rows", "dir", "init", "row"}, To(c, pc)
  PROVE  \E y \in AskRecord : /\ asks' = [asks EXCEPT ![c] = y] /\ asks'[c] = y /\ y.pc = pc /\ Like(y, asks[c])
                              /\ KeptApart' /\ LocalAsks(c) /\ asks' \in [TreeClients -> AskRecord]
<1>1. PICK x \in AskRecord : x = asks[c]
  BY AskIs
<1>2. PICK y : y = [x EXCEPT !.pc = pc]
  OBVIOUS
<1>3. y \in AskRecord /\ y.pc = pc /\ Like(y, x)
  BY <1>2 DEF AskRecord, Like
<1>4. asks' = [asks EXCEPT ![c] = y]
  BY <1>1, <1>2 DEF To
<1>5. asks' \in [TreeClients -> AskRecord] /\ asks'[c] = y /\ LocalAsks(c)
  BY <1>3, <1>4, SetAsk DEF TreeTyped
<1>6. SamePaths(c)
  BY <1>1, <1>3, <1>5 DEF SamePaths, Like
<1> QED BY <1>1, <1>3, <1>4, <1>5, <1>6, StillApart DEF Calm

LEMMA InsertGroupStays ==
  ASSUME TreeTyped, Calm, NEW c \in TreeClients, InsertGroup(c)
  PROVE  TreeTyped' /\ Calm'
<1>1. PICK x \in AskRecord : x = asks[c] /\ x.op = "group"
  BY AskIs DEF InsertGroup, At
<1>2. x.to \in Path /\ x.to # <<>> /\ KnowsGroup(x) /\ GroupRowsFit /\ DirsFit
  BY <1>1, AskIs DEF Knows, Placed
<1>3. \A k : ~Excepted(x, k)
  BY <1>1 DEF Excepted, At2
<1>4. Done(c) /\ repos' = repos /\ dirs' = dirs /\ store' = store
  BY DEF InsertGroup
<1>5. CASE UNCHANGED groups
  BY <1>1, <1>3, <1>4, <1>5, QuietEnd DEF Data
<1>6. CASE ~UNCHANGED groups
  <2>1. PICK g \in GroupIds \ Rows :
          /\ groups' = [groups EXCEPT ![g] = [parent |-> x.id, slug |-> x.slug, path |-> x.to]]
          /\ \A h \in Rows : groups[h].path # x.to
    BY <1>1, <1>6 DEF InsertGroup, Free
  <2>2. PICK w : w = [parent |-> x.id, slug |-> x.slug, path |-> x.to]
    OBVIOUS
  <2>3. w \in OrganizationRow /\ w # Absent
    BY <1>2, <2>2, TreeAssumption DEF KnowsGroup, OrganizationRow, Rows, Path
  <2>4. groups' = [groups EXCEPT ![g] = w]
    BY <2>1, <2>2
  <2>5. groups'[g] = w /\ \A h \in GroupIds : h # g => groups'[h] = groups[h]
    BY <2>4 DEF TreeTyped
  <2>6. groups' \in [GroupIds -> OrganizationRow \cup {Absent}]
    BY <2>3, <2>4 DEF TreeTyped
  <2>7. Rows' = Rows \cup {g} /\ g \notin Rows /\ \A h \in Rows : h # g /\ groups'[h] = groups[h]
    BY <2>3, <2>5 DEF Rows
  <2>8. \A h \in Rows \cup {Root}, s \in Slugs : Joined(h, s)' = Joined(h, s)
    BY <2>7 DEF Joined
  <2>9. w.parent \in Rows \cup {Root} /\ w.slug \in Slugs /\ w.path = x.to /\ w.path = Joined(w.parent, w.slug)
    BY <1>2, <2>2 DEF KnowsGroup
  <2>10. GroupsFit'
    <3>1. ASSUME NEW h \in Rows', NEW z, z = groups'[h]
          PROVE  z.parent \in Rows' \cup {Root} /\ z.path = Joined(z.parent, z.slug)'
      <4>1. CASE h = g
        BY <2>5, <2>7, <2>8, <2>9, <3>1, <4>1
      <4>2. CASE h # g
        <5>1. h \in Rows /\ z = groups[h]
          BY <2>7, <3>1, <4>2
        <5>2. z.parent \in Rows \cup {Root} /\ z.slug \in Slugs /\ z.path = Joined(z.parent, z.slug)
          BY <1>2, <5>1, RowFields DEF GroupRowsFit, GroupsFit
        <5> QED BY <2>7, <2>8, <5>1, <5>2
      <4> QED BY <4>1, <4>2
    <3>2. ASSUME NEW h \in Rows', NEW i \in Rows', groups'[h].path = groups'[i].path PROVE h = i
      BY <1>2, <2>1, <2>5, <2>7, <2>9, <3>2 DEF GroupRowsFit, GroupsFit
    <3> QED BY <3>1, <3>2 DEF GroupsFit
  <2>11. RepoRows' = RepoRows /\ \A r \in RepoRows : Home(r)' = Home(r)
    BY <1>2, <1>4, <2>7 DEF RepoRows, Home, GroupRowsFit, ReposFit
  <2>12. ReposFit' /\ DirsFit'
    BY <1>2, <1>4, <2>7, <2>11 DEF GroupRowsFit, ReposFit, DirsFit
  <2>13. /\ KeptApart' /\ asks'[c] = NoAsk /\ LocalAsks(c) /\ asks' \in [TreeClients -> AskRecord]
    BY <1>4, GoneApart
  <2>14. TreeTyped'
    BY <1>4, <2>6, <2>13 DEF TreeTyped
  <2>15. Reg(x, w.path)
    BY <1>1, <1>2, <2>9, UnderOrder DEF Reg
  <2>16. Local(c)
    <3>1. LocalRows(c)
      BY <1>1, <2>5, <2>7, <2>15 DEF LocalRows, Rows
    <3> QED BY <1>4, <2>13, <3>1 DEF Local, LocalRepos, LocalStore
  <2>17. SettledFor(c)
    BY <1>1, <1>3, <1>4, <2>11, SettledAsBefore
  <2>18. Knows(asks[c])' /\ Placed(asks[c])'
    BY <2>13, NoAskIs DEF Knows, Placed
  <2> QED BY <2>10, <2>12, <2>13, <2>14, <2>16, <2>17, <2>18, StepIsCalm
<1> QED BY <1>5, <1>6

LEMMA RemoveGroupDirStays ==
  ASSUME TreeTyped, Calm, NEW c \in TreeClients, RemoveGroupDir(c)
  PROVE  TreeTyped' /\ Calm'
<1>1. PICK x \in AskRecord : x = asks[c] /\ x.op = "delete" /\ x.pc = "dir"
  BY AskIs DEF RemoveGroupDir, At
<1>2. x.from \in Path /\ x.from # <<>> /\ GroupRowsFit /\ DirsFit /\ StoreFits /\ \A g \in Rows : ~Under(x.from, groups[g].path)
  BY <1>1, AskIs DEF Knows, KnowsDelete, Placed
<1>3. /\ Done(c) /\ groups' = groups /\ repos' = repos
      /\ dirs' = {p \in dirs : ~Under(x.from, p)} /\ store' = Without(x.from)
  BY <1>1 DEF RemoveGroupDir
<1>4. \A k : k \in DOMAIN store' <=> k \in DOMAIN store /\ ~Under(x.from, k[1])
  BY <1>3 DEF Without
<1>5. \A k \in DOMAIN store' : store'[k] = store[k]
  BY <1>3 DEF Without
<1>6. Rows' = Rows /\ RepoRows' = RepoRows /\ (\A g, s : Joined(g, s)' = Joined(g, s)) /\ \A r : Home(r)' = Home(r)
  BY <1>3 DEF Rows, RepoRows, Joined, Home
<1>7. GroupsFit' /\ ReposFit'
  <2>1. GroupsFit'
    BY <1>2, <1>3, <1>6 DEF GroupsFit, GroupRowsFit
  <2>2. ReposFit'
    BY <1>2, <1>3, <1>6 DEF ReposFit, GroupRowsFit
  <2> QED BY <2>1, <2>2
<1>8. DirsFit'
  <2> SUFFICES ASSUME NEW k \in DOMAIN store', NEW p \in Parents(k[1]) PROVE p \in dirs'
    BY DEF DirsFit
  <2>1. k \in DOMAIN store /\ ~Under(x.from, k[1]) /\ k[1] \in Path
    BY <1>4 DEF TreeTyped, Path
  <2>2. p \in dirs /\ p \in Path /\ Under(p, k[1])
    BY <1>2, <2>1, ParentsAre DEF DirsFit
  <2>3. ~Under(x.from, p)
    BY <1>2, <2>1, <2>2, UnderOrder
  <2> QED BY <1>3, <2>2, <2>3
<1>9. /\ KeptApart' /\ asks'[c] = NoAsk /\ LocalAsks(c) /\ asks' \in [TreeClients -> AskRecord]
  BY <1>3, GoneApart
<1>10. TreeTyped'
  BY <1>3, <1>4, <1>9 DEF TreeTyped
<1>11. Local(c)
  <2>1. \A p \in Path : ~Reg(x, p) => ~Under(x.from, p)
    BY <1>1, <1>2 DEF Reg
  <2>2. LocalStore(c)
    BY <1>1, <1>4, <1>5, <2>1 DEF LocalStore
  <2> QED BY <1>3, <1>9, <2>2 DEF Local, LocalRows, LocalRepos
<1>12. ASSUME NEW k \in Path \X Slugs, Reg(x, k[1]), Spared(k) PROVE Under(x.from, k[1])
  <2>1. Excepted(x, k)
    BY <1>1, <1>12, OwnRegion
  <2> QED BY <1>1, <2>1 DEF Excepted, At2
<1>13. SettledFor(c)
  <2>1. ASSUME NEW r \in RepoRows', Reg(x, Home(r)'[1]) PROVE DirHolds(Home(r), r)'
    <3>1. PICK k \in Path \X Slugs : k = Home(r) /\ Home(r)' = k /\ r \in RepoRows
      BY <1>2, <1>6, RepoFields DEF GroupRowsFit
    <3>2. ~Under(x.from, k[1])
      BY <1>2, <3>1, RepoFields DEF GroupRowsFit
    <3>3. DirHolds(k, r)
      BY <1>2, <1>12, <2>1, <3>1, <3>2 DEF StoreFits
    <3> QED BY <1>4, <1>5, <3>1, <3>2, <3>3 DEF DirHolds
  <2>2. ASSUME NEW k \in DOMAIN store', Reg(x, k[1]) PROVE \E r \in RepoRows' : Home(r)' = k
    <3>1. k \in DOMAIN store /\ ~Under(x.from, k[1]) /\ k \in Path \X Slugs
      BY <1>4 DEF TreeTyped, Path
    <3> QED BY <1>2, <1>6, <1>12, <2>2, <3>1 DEF StoreFits
  <2> QED BY <1>1, <2>1, <2>2 DEF SettledFor
<1>14. Knows(asks[c])' /\ Placed(asks[c])'
  BY <1>9, NoAskIs DEF Knows, Placed
<1> QED BY <1>7, <1>8, <1>9, <1>10, <1>11, <1>13, <1>14, StepIsCalm

(* The rows below a path go together: a row's parent is at or below it too, *)
(* unless the row is at the path itself.                                   *)
LEMMA ParentBelow ==
  ASSUME TreeTyped, GroupsFit, NEW from \in Path, from # <<>>, NEW h \in Rows, Under(from, groups[h].path),
         groups[h].path # from
  PROVE  /\ groups[h].parent \in Rows /\ Under(from, groups[groups[h].parent].path)
         /\ Len(groups[groups[h].parent].path) + 1 = Len(groups[h].path)
<1>1. PICK p : p = groups[h].parent
  OBVIOUS
<1>2. PICK s : s = groups[h].slug
  OBVIOUS
<1>3. p \in Rows \cup {Root} /\ s \in Slugs /\ groups[h].path = Joined(p, s)
  BY <1>1, <1>2, RowFields DEF GroupsFit
<1>4. p # Root
  BY <1>3, JoinedIs
<1>5. p \in Rows /\ groups[p].path \in Path
  BY <1>3, <1>4, RowFields
<1>6. Joined(p, s) = Append(groups[p].path, s)
  BY <1>4 DEF Joined
<1>7. Len(Append(groups[p].path, s)) = Len(groups[p].path) + 1
      /\ (Under(from, Append(groups[p].path, s)) => Under(from, groups[p].path) \/ from = Append(groups[p].path, s))
  BY <1>3, <1>5, Longer
<1> QED BY <1>1, <1>3, <1>5, <1>6, <1>7

LEMMA ChildBelow ==
  ASSUME TreeTyped, GroupsFit, NEW from \in Path, NEW h \in Rows, groups[h].parent \in Rows,
         Under(from, groups[groups[h].parent].path)
  PROVE  Under(from, groups[h].path)
<1>1. PICK p : p = groups[h].parent
  OBVIOUS
<1>2. p \in Rows /\ groups[h].slug \in Slugs /\ groups[h].path = Joined(p, groups[h].slug) /\ p # Root
      /\ groups[p].path \in Path /\ groups[h].path \in Path
  BY <1>1, RowFields, NoRoot DEF GroupsFit
<1>3. Under(groups[p].path, groups[h].path)
  BY <1>2, JoinedIs
<1> QED BY <1>1, <1>2, <1>3, UnderOrder

LEMMA CascadeIs ==
  ASSUME TreeTyped, GroupsFit, NEW g \in Rows
  PROVE  \A h : h \in Cascade(g) <=> h \in Rows /\ Under(groups[g].path, groups[h].path)
<1>1. PICK from \in Path : from = groups[g].path /\ from # <<>>
  BY RowFields, RowPaths
<1>2. PICK B : B = {h \in Rows : Under(from, groups[h].path)}
  OBVIOUS
<1>3. B \in SUBSET (Rows \cup {g}) /\ g \in B /\ \A x \in Rows : groups[x].parent \in B => x \in B
  <2>1. g \in B
    BY <1>1, <1>2, UnderOrder
  <2>2. ASSUME NEW x \in Rows, groups[x].parent \in B PROVE x \in B
    BY <1>2, <2>2, ChildBelow
  <2> QED BY <1>2, <2>1, <2>2
<1>4. ASSUME NEW h \in Cascade(g) PROVE h \in B
  BY <1>3 DEF Cascade
<1>5. ASSUME NEW h \in B, NEW S \in SUBSET (Rows \cup {g}), g \in S,
             \A x \in Rows : groups[x].parent \in S => x \in S
      PROVE  h \in S
  <2> SUFFICES ASSUME h \notin S PROVE FALSE
    OBVIOUS
  <2>1. PICK T : T = {Len(groups[i].path) : i \in B \ S}
    OBVIOUS
  <2>2. T \in SUBSET Nat /\ T # {}
    <3>1. \A i \in B : Len(groups[i].path) \in Nat
      BY <1>2, RowFields, PathLen
    <3>2. T \subseteq Nat
      BY <2>1, <3>1
    <3> QED BY <1>5, <2>1, <3>2
  <2>3. PICK m \in T : \A n \in T : m <= n
    BY <2>2, Least
  <2>4. PICK i \in B \ S : m = Len(groups[i].path)
    BY <2>1, <2>3
  <2>5. i \in Rows /\ Under(from, groups[i].path) /\ i # g
    BY <1>2, <1>5, <2>4
  <2>6. groups[i].path # from
    BY <1>1, <2>5 DEF GroupsFit
  <2>7. PICK p : p = groups[i].parent
    OBVIOUS
  <2>8. p \in Rows /\ Under(from, groups[p].path) /\ Len(groups[p].path) + 1 = Len(groups[i].path)
    BY <1>1, <2>5, <2>6, <2>7, ParentBelow
  <2>9. p \in B
    BY <1>2, <2>8
  <2>10. CASE p \in S
    BY <1>5, <2>4, <2>5, <2>7, <2>10
  <2>11. CASE p \notin S
    <3>1. Len(groups[p].path) \in T /\ Len(groups[p].path) \in Nat
      BY <2>1, <2>2, <2>9, <2>11
    <3>2. m <= Len(groups[p].path)
      BY <2>3, <3>1
    <3> QED BY <2>4, <2>8, <3>1, <3>2
  <2> QED BY <2>10, <2>11
<1>6. ASSUME NEW h \in B PROVE h \in Cascade(g)
  BY <1>2, <1>5 DEF Cascade
<1> QED BY <1>1, <1>2, <1>4, <1>6

LEMMA DeleteGroupRowsStays ==
  ASSUME TreeTyped, Calm, NEW c \in TreeClients, DeleteGroupRows(c)
  PROVE  TreeTyped' /\ Calm'
<1>1. PICK x \in AskRecord : x = asks[c] /\ x.op = "delete" /\ x.pc = "rows"
  BY AskIs DEF DeleteGroupRows, At
<1>2. x.from \in Path /\ x.from # <<>> /\ GroupRowsFit /\ DirsFit /\ StoreFits /\ x.id \in Rows /\ groups[x.id].path = x.from
  BY <1>1, AskIs DEF Knows, KnowsDelete, Placed, IsAt
<1>3. PICK gone : gone = Cascade(x.id)
  OBVIOUS
<1>4. /\ groups' = [g \in GroupIds |-> IF g \in gone THEN Absent ELSE groups[g]]
      /\ repos' = [r \in RepoIds |-> IF r \in RepoRows /\ repos[r].group \in gone THEN Absent ELSE repos[r]]
      /\ To(c, "dir") /\ dirs' = dirs /\ store' = store
  BY <1>1, <1>3 DEF DeleteGroupRows
<1>5. \A h : h \in gone <=> h \in Rows /\ Under(x.from, groups[h].path)
  BY <1>2, <1>3, CascadeIs DEF GroupRowsFit
<1>6. PICK y \in AskRecord : /\ asks' = [asks EXCEPT ![c] = y] /\ asks'[c] = y /\ y.pc = "dir" /\ Like(y, x)
                             /\ KeptApart' /\ LocalAsks(c) /\ asks' \in [TreeClients -> AskRecord]
  <2>1. asks[c].op # "none"
    BY <1>1
  <2> QED BY <1>1, <1>4, <2>1, Going
<1>7. groups' \in [GroupIds -> OrganizationRow \cup {Absent}] /\ repos' \in [RepoIds -> RepositoryRow \cup {Absent}]
  BY <1>4 DEF TreeTyped
<1>8. TreeTyped'
  BY <1>4, <1>6, <1>7 DEF TreeTyped
<1>9. \A h : h \in Rows' <=> h \in Rows /\ ~Under(x.from, groups[h].path)
  BY <1>4, <1>5 DEF Rows
<1>10. \A h \in Rows' : h \in Rows /\ groups'[h] = groups[h]
  BY <1>4, <1>5, <1>9 DEF Rows
<1>11. ASSUME NEW r \in RepoIds
       PROVE  /\ r \in RepoRows' <=> r \in RepoRows /\ ~Under(x.from, Home(r)[1])
              /\ r \in RepoRows' => repos'[r] = repos[r] /\ repos[r].group \in Rows' /\ Home(r)' = Home(r)
  <2>1. CASE r \notin RepoRows
    BY <1>4, <2>1 DEF RepoRows
  <2>2. CASE r \in RepoRows
    <3>1. repos[r].group \in Rows /\ Home(r)[1] = groups[repos[r].group].path /\ repos[r] # Absent
      BY <1>2, <2>2, RepoFields DEF GroupRowsFit, RepoRows
    <3>2. CASE Under(x.from, Home(r)[1])
      <4>1. repos'[r] = Absent
        BY <1>4, <1>5, <2>2, <3>1, <3>2
      <4> QED BY <3>2, <4>1 DEF RepoRows
    <3>3. CASE ~Under(x.from, Home(r)[1])
      <4>1. repos'[r] = repos[r] /\ repos[r].group \in Rows'
        BY <1>4, <1>5, <1>9, <2>2, <3>1, <3>3
      <4>2. groups'[repos[r].group] = groups[repos[r].group]
        BY <1>10, <4>1
      <4> QED BY <2>2, <3>1, <3>3, <4>1, <4>2 DEF RepoRows, Home
    <3> QED BY <3>2, <3>3
  <2> QED BY <2>1, <2>2
<1>12. GroupsFit'
  <2>1. ASSUME NEW h \in Rows', NEW z, z = groups'[h]
        PROVE  z.parent \in Rows' \cup {Root} /\ z.path = Joined(z.parent, z.slug)'
    <3>1. h \in Rows /\ z = groups[h] /\ ~Under(x.from, z.path)
      BY <1>9, <1>10, <2>1
    <3>2. z.parent \in Rows \cup {Root} /\ z.path = Joined(z.parent, z.slug)
      BY <1>2, <3>1 DEF GroupRowsFit, GroupsFit
    <3>3. CASE z.parent = Root
      BY <3>2, <3>3 DEF Joined
    <3>4. CASE z.parent # Root
      <4>1. z.parent \in Rows /\ ~Under(x.from, groups[z.parent].path)
        BY <1>2, <3>1, <3>2, <3>4, ChildBelow DEF GroupRowsFit
      <4>2. z.parent \in Rows' /\ groups'[z.parent] = groups[z.parent]
        BY <1>9, <1>10, <4>1
      <4> QED BY <3>2, <4>2 DEF Joined
    <3> QED BY <3>3, <3>4
  <2>2. ASSUME NEW h \in Rows', NEW i \in Rows', groups'[h].path = groups'[i].path PROVE h = i
    BY <1>2, <1>10, <2>2 DEF GroupRowsFit, GroupsFit
  <2> QED BY <2>1, <2>2 DEF GroupsFit
<1>13. \A r \in RepoRows' : r \in RepoIds
  BY DEF RepoRows
<1>14. ReposFit'
  <2>1. \A r \in RepoRows' : repos'[r].group \in Rows'
    BY <1>11, <1>13
  <2>2. \A q, r \in RepoRows' : repos'[q] = repos'[r] => q = r
    BY <1>2, <1>11, <1>13 DEF GroupRowsFit, ReposFit
  <2> QED BY <2>1, <2>2 DEF ReposFit
<1>15. DirsFit'
  BY <1>2, <1>4 DEF DirsFit
<1>16. \A p \in Path : Under(x.from, p) => Reg(x, p)
  BY <1>1, <1>2 DEF Reg
<1>17. Local(c)
  <2>1. LocalRows(c)
    <3> SUFFICES ASSUME NEW g \in GroupIds, groups'[g] # groups[g]
                 PROVE  (groups[g] # Absent => Reg(x, groups[g].path)) /\ groups'[g] = Absent
      BY <1>1 DEF LocalRows
    <3>1. g \in gone /\ groups'[g] = Absent
      BY <1>4
    <3> QED BY <1>5, <1>16, <3>1, RowFields
  <2>2. LocalRepos(c)
    <3> SUFFICES ASSUME NEW r \in RepoIds, repos'[r] # repos[r]
                 PROVE  (repos[r] # Absent => Reg(x, Home(r)[1])) /\ repos'[r] = Absent
      BY <1>1 DEF LocalRepos
    <3>1. repos'[r] = Absent /\ r \in RepoRows /\ r \notin RepoRows'
      BY <1>4 DEF RepoRows
    <3>2. Under(x.from, Home(r)[1]) /\ Home(r)[1] \in Path
      BY <1>2, <1>11, <3>1, RepoFields DEF GroupRowsFit
    <3> QED BY <1>16, <3>1, <3>2
  <2> QED BY <1>4, <1>6, <2>1, <2>2 DEF Local, LocalStore
<1>18. \A k : Under(x.from, k[1]) => Excepted(asks'[c], k)
  BY <1>1, <1>6 DEF Excepted, At2, Like
<1>19. ASSUME NEW k \in Path \X Slugs, Reg(x, k[1]), Spared(k) PROVE FALSE
  <2>1. Excepted(x, k)
    BY <1>1, <1>19, OwnRegion
  <2> QED BY <1>1, <2>1 DEF Excepted, At2
<1>20. SettledFor(c)
  <2>1. ASSUME NEW r \in RepoRows', Reg(x, Home(r)'[1]) PROVE DirHolds(Home(r), r)'
    <3>1. r \in RepoRows /\ Home(r)' = Home(r) /\ Home(r) \in Path \X Slugs
      BY <1>2, <1>11, <1>13, RepoFields DEF GroupRowsFit
    <3>2. DirHolds(Home(r), r)
      BY <1>2, <1>19, <2>1, <3>1 DEF StoreFits
    <3> QED BY <1>4, <3>1, <3>2 DEF DirHolds
  <2>2. ASSUME NEW k \in DOMAIN store', Reg(x, k[1]) PROVE Excepted(asks'[c], k) \/ \E r \in RepoRows' : Home(r)' = k
    <3>1. k \in DOMAIN store /\ k \in Path \X Slugs
      BY <1>4 DEF TreeTyped, Path
    <3>2. PICK r \in RepoRows : Home(r) = k
      BY <1>2, <1>19, <2>2, <3>1 DEF StoreFits
    <3>3. r \in RepoIds
      BY DEF RepoRows
    <3> QED BY <1>11, <1>18, <3>2, <3>3
  <2> QED BY <1>1, <2>1, <2>2 DEF SettledFor
<1>21. Knows(asks[c])' /\ Placed(asks[c])'
  <2>1. y.op = "delete" /\ y.from = x.from
    BY <1>1, <1>6 DEF Like
  <2>2. KnowsDelete(asks[c])'
    BY <1>6, <1>9, <1>10, <2>1 DEF KnowsDelete
  <2> QED BY <1>2, <1>6, <2>1, <2>2 DEF Knows, Placed
<1> QED BY <1>6, <1>8, <1>12, <1>14, <1>15, <1>17, <1>20, <1>21, StepIsCalm

(* A directory tree that moves, with what it holds. *)
LEMMA Sideways ==
  ASSUME TreeTyped, GroupsFit, NEW x, RenameStands(x)
  PROVE  x.from \in Path /\ x.to \in Path /\ ~Under(x.from, x.to) /\ ~Under(x.to, x.from)
<1>1. PICK p : p = groups[x.id].parent
  OBVIOUS
<1>2. PICK s : s = groups[x.id].slug
  OBVIOUS
<1>3. x.id \in Rows /\ x.from = groups[x.id].path /\ x.to = Joined(p, x.slug) /\ x.slug \in Slugs /\ x.to # x.from
  BY <1>1 DEF RenameStands, IsAt
<1>4. p \in Rows \cup {Root} /\ s \in Slugs /\ x.from = Joined(p, s)
  BY <1>1, <1>2, <1>3, RowFields DEF GroupsFit
<1>5. x.from \in Path /\ x.from # <<>> /\ x.to \in Path /\ x.to # <<>>
  BY <1>3, <1>4, JoinedIs
<1>6. CASE p = Root
  <2>1. \A q \in Path : Under(q, Joined(p, s)) => q = <<>> \/ q = Joined(p, s)
    BY <1>4, <1>6, JoinedIs
  <2>2. \A q \in Path : Under(q, Joined(p, x.slug)) => q = <<>> \/ q = Joined(p, x.slug)
    BY <1>3, <1>4, <1>6, JoinedIs
  <2> QED BY <1>3, <1>4, <1>5, <2>1, <2>2
<1>7. CASE p # Root
  BY <1>3, <1>4, <1>5, <1>7, JoinedIs
<1> QED BY <1>5, <1>6, <1>7

MovedKey(h, from, to) == <<Moved(h[1], from, to), h[2]>>
LEMMA StoreMoved ==
  ASSUME TreeTyped, DirsFit, NEW from \in Path, NEW to \in Path, ~Under(from, to), ~Under(to, from),
         \A h \in DOMAIN store : ~Under(to, h[1]), MoveTree(from, to)
  PROVE  /\ \A h \in DOMAIN store : Under(from, h[1]) =>
              MovedKey(h, from, to) \in DOMAIN store' /\ store'[MovedKey(h, from, to)] = store[h]
         /\ \A h \in DOMAIN store : ~Under(from, h[1]) => h \in DOMAIN store' /\ store'[h] = store[h]
         /\ \A k \in DOMAIN store' :
              /\ k \in Path \X Slugs /\ ~Under(from, k[1])
              /\ \/ Under(to, k[1]) /\ \E h \in DOMAIN store : Under(from, h[1]) /\ k = MovedKey(h, from, to)
                 \/ ~Under(to, k[1]) /\ k \in DOMAIN store
         /\ dirs' \subseteq Path /\ DirsFit'
<1> DEFINE new(h) == IF Under(from, h[1]) THEN MovedKey(h, from, to) ELSE h
           keys == {new(h) : h \in DOMAIN store}
           val(k) == IF Under(to, k[1]) THEN store[MovedKey(k, to, from)] ELSE store[k]
<1>1. /\ dirs' = {IF Under(from, p) THEN Moved(p, from, to) ELSE p : p \in dirs} \cup (Parents(to) \ {to})
      /\ store' = [k \in keys |-> val(k)]
  BY DEF MoveTree, MovedKey
<1>2. DOMAIN store' = keys /\ \A k \in keys : store'[k] = val(k)
  BY <1>1
<1>3. ASSUME NEW h \in DOMAIN store, Under(from, h[1])
      PROVE  /\ new(h) = MovedKey(h, from, to) /\ MovedKey(h, from, to) \in Path \X Slugs
             /\ Under(to, MovedKey(h, from, to)[1]) /\ ~Under(from, MovedKey(h, from, to)[1])
             /\ val(MovedKey(h, from, to)) = store[h]
  <2>1. h \in Path \X Slugs
    BY DEF TreeTyped, Path
  <2>2. PICK p \in Path, s \in Slugs : h = <<p, s>>
    BY <2>1
  <2>3. PICK m : m = Moved(p, from, to)
    OBVIOUS
  <2>4. m \in Path /\ Under(to, m) /\ Moved(m, to, from) = p
    BY <1>3, <2>2, <2>3, MovedUnder, MovedBack
  <2>5. ~Under(from, m)
    BY <2>4, UnderOrder
  <2>6. MovedKey(h, from, to) = <<m, s>>
    BY <2>2, <2>3 DEF MovedKey
  <2>7. MovedKey(<<m, s>>, to, from) = h
    BY <2>2, <2>4 DEF MovedKey
  <2> QED BY <1>3, <2>4, <2>5, <2>6, <2>7
<1>4. ASSUME NEW h \in DOMAIN store, ~Under(from, h[1])
      PROVE  new(h) = h /\ h \in Path \X Slugs /\ ~Under(to, h[1]) /\ val(h) = store[h]
  BY <1>4 DEF TreeTyped, Path
<1>5. \A h \in DOMAIN store : new(h) \in keys
  OBVIOUS
<1>6. \A k \in keys : \E h \in DOMAIN store : k = new(h)
  OBVIOUS
<1> HIDE DEF new, keys, val
<1>7. ASSUME NEW h \in DOMAIN store, Under(from, h[1])
      PROVE  MovedKey(h, from, to) \in DOMAIN store' /\ store'[MovedKey(h, from, to)] = store[h]
  <2>1. new(h) = MovedKey(h, from, to) /\ val(MovedKey(h, from, to)) = store[h]
    BY <1>3, <1>7
  <2>2. new(h) \in keys
    BY <1>5
  <2> QED BY <1>2, <2>1, <2>2
<1>8. ASSUME NEW h \in DOMAIN store, ~Under(from, h[1]) PROVE h \in DOMAIN store' /\ store'[h] = store[h]
  <2>1. new(h) = h /\ val(h) = store[h]
    BY <1>4, <1>8
  <2>2. new(h) \in keys
    BY <1>5
  <2> QED BY <1>2, <2>1, <2>2
<1>9. ASSUME NEW k \in DOMAIN store'
      PROVE  /\ k \in Path \X Slugs /\ ~Under(from, k[1])
             /\ \/ Under(to, k[1]) /\ \E h \in DOMAIN store : Under(from, h[1]) /\ k = MovedKey(h, from, to)
                \/ ~Under(to, k[1]) /\ k \in DOMAIN store
  <2>1. PICK h \in DOMAIN store : k = new(h)
    BY <1>2, <1>6
  <2>2. CASE Under(from, h[1])
    BY <1>3, <2>1, <2>2
  <2>3. CASE ~Under(from, h[1])
    BY <1>4, <2>1, <2>3
  <2> QED BY <2>2, <2>3
<1>10. dirs \subseteq Path
  BY DEF TreeTyped, Path
<1>11. dirs' \subseteq Path
  <2> SUFFICES ASSUME NEW q \in dirs' PROVE q \in Path
    OBVIOUS
  <2>1. CASE q \in Parents(to)
    BY <2>1, ParentsAre
  <2>2. CASE q \notin Parents(to)
    <3>1. PICK p \in dirs : q = IF Under(from, p) THEN Moved(p, from, to) ELSE p
      BY <1>1, <2>2
    <3> QED BY <1>10, <3>1, MovedUnder
  <2> QED BY <2>1, <2>2
<1>12. DirsFit'
  <2> SUFFICES ASSUME NEW k \in DOMAIN store', NEW q \in Parents(k[1]) PROVE q \in dirs'
    BY DEF DirsFit
  <2>1. q \in Path /\ q # <<>> /\ Under(q, k[1]) /\ k[1] \in Path
    BY <1>9, ParentsAre
  <2>2. CASE ~Under(to, k[1])
    <3>1. k \in DOMAIN store /\ ~Under(from, k[1])
      BY <1>9, <2>2
    <3>2. q \in dirs
      BY <3>1 DEF DirsFit
    <3>3. ~Under(from, q)
      BY <2>1, <3>1, UnderOrder
    <3> QED BY <1>1, <3>2, <3>3
  <2>3. CASE Under(to, k[1])
    <3>1. PICK h \in DOMAIN store : Under(from, h[1]) /\ k = MovedKey(h, from, to)
      BY <1>9, <2>3
    <3>2. h \in Path \X Slugs
      BY DEF TreeTyped, Path
    <3>3. PICK p : p = h[1]
      OBVIOUS
    <3>4. p \in Path /\ Under(from, p) /\ k[1] = Moved(p, from, to) /\ Parents(p) \subseteq dirs
      BY <3>1, <3>2, <3>3 DEF MovedKey, DirsFit
    <3>5. Under(q, to) \/ Under(to, q)
      BY <2>1, <2>3, UnderOrder
    <3>6. CASE ~Under(to, q)
      <4>1. q \in Parents(to) \ {to}
        <5>1. Under(to, to)
          BY UnderOrder
        <5> QED BY <2>1, <3>5, <3>6, <5>1, ParentsAre
      <4> QED BY <1>1, <4>1
    <3>7. CASE Under(to, q)
      <4>1. PICK b : b = Moved(q, to, from)
        OBVIOUS
      <4>2. b \in Path /\ Under(from, b) /\ Moved(b, from, to) = q
        BY <2>1, <3>7, <4>1, MovedUnder, MovedBack
      <4>3. Under(b, Moved(k[1], to, from))
        BY <2>1, <3>7, <4>1, MovedKeeps
      <4>4. Moved(k[1], to, from) = p
        BY <3>4, MovedBack
      <4>5. b # <<>>
        <5>1. ASSUME b = <<>> PROVE FALSE
          <6>1. <<>> \in Path /\ Len(<<>>) = 0
            BY EmptySeq DEF Path
          <6>2. Len(from) <= Len(<<>>) /\ Len(from) \in Nat
            BY <4>2, <5>1, <6>1, UnderIs, PathLen
          <6>3. Len(from) = 0
            BY <6>1, <6>2
          <6>4. from = <<>>
            BY <6>3, EmptySeq DEF Path
          <6>5. Under(from, to)
            BY <6>4, UnderIs, <6>1, <6>3, PathLen
          <6> QED BY <6>5
        <5> QED BY <5>1
      <4>6. b \in dirs
        BY <3>4, <4>2, <4>3, <4>4, <4>5, ParentsAre
      <4>7. q \in {IF Under(from, i) THEN Moved(i, from, to) ELSE i : i \in dirs}
        BY <4>2, <4>6
      <4> QED BY <1>1, <4>7
    <3> QED BY <3>6, <3>7
  <2> QED BY <2>2, <2>3
<1> QED BY <1>7, <1>8, <1>9, <1>11, <1>12

LEMMA NotThere ==
  ASSUME TreeTyped, DirsFit, NEW q \in Path, q # <<>>, q \notin dirs
  PROVE  \A h \in DOMAIN store : ~Under(q, h[1])
<1> SUFFICES ASSUME NEW h \in DOMAIN store, Under(q, h[1]) PROVE FALSE
  OBVIOUS
<1>1. h[1] \in Path
  BY DEF TreeTyped, Path
<1>2. q \in Parents(h[1])
  BY <1>1, ParentsAre
<1> QED BY <1>2 DEF DirsFit

LEMMA MoveGroupDirStays ==
  ASSUME TreeTyped, Calm, NEW c \in TreeClients, MoveGroupDir(c)
  PROVE  TreeTyped' /\ Calm'
<1>1. PICK x \in AskRecord : x = asks[c] /\ x.op = "rename" /\ x.pc = "move"
  BY AskIs DEF MoveGroupDir, At
<1>2. /\ x.from \in Path /\ x.from # <<>> /\ x.to \in Path /\ x.to # <<>> /\ GroupRowsFit /\ DirsFit /\ StoreFits
      /\ RenameStands(x) /\ x.moved = FALSE
  <2>1. RenameStands(x)
    BY <1>1, AskIs DEF Knows, KnowsRename
  <2> QED BY <1>1, <2>1, AskIs DEF Placed, RenameStands, AskRecord
<1>3. \A k : ~Excepted(x, k)
  BY <1>1 DEF Excepted, At2
<1>4. \A p \in Path : Reg(x, p) <=> Under(x.from, p) \/ Under(x.to, p)
  BY <1>1, <1>2 DEF Reg
<1>5. ASSUME NEW k \in Path \X Slugs, Reg(x, k[1])
      PROVE  /\ \A r \in RepoRows : Home(r) = k => DirHolds(k, r)
             /\ k \in DOMAIN store => \E r \in RepoRows : Home(r) = k
  <2>1. ~Spared(k)
    BY <1>1, <1>3, <1>5, OwnRegion
  <2> QED BY <1>2, <2>1 DEF StoreFits
<1>6. ASSUME NEW q \in {x.from, x.to}, q \notin dirs
      PROVE  (\A h \in DOMAIN store : ~Under(q, h[1])) /\ \A r \in RepoRows : ~Under(q, Home(r)[1])
  <2>1. \A h \in DOMAIN store : ~Under(q, h[1])
    BY <1>2, <1>6, NotThere
  <2>2. ASSUME NEW r \in RepoRows, Under(q, Home(r)[1]) PROVE FALSE
    <3>1. PICK k \in Path \X Slugs : k = Home(r)
      BY <1>2, RepoFields DEF GroupRowsFit
    <3>2. Reg(x, k[1])
      BY <1>4, <2>2, <3>1
    <3>3. k \in DOMAIN store
      BY <1>5, <3>1, <3>2 DEF DirHolds
    <3> QED BY <2>1, <2>2, <3>1, <3>3
  <2> QED BY <2>1, <2>2
<1>7. groups' = groups /\ repos' = repos
  BY DEF MoveGroupDir
<1>8. CASE x.from \in dirs /\ x.to \in dirs
  <2>1. Done(c) /\ UNCHANGED Data
    BY <1>1, <1>7, <1>8 DEF MoveGroupDir, Data
  <2> QED BY <1>1, <1>3, <2>1, QuietEnd
<1>9. CASE x.from \notin dirs
  <2>1. To(c, "commit") /\ UNCHANGED Data
    BY <1>1, <1>7, <1>9 DEF MoveGroupDir, Data
  <2>2. PICK y \in AskRecord : /\ asks' = [asks EXCEPT ![c] = y] /\ asks'[c] = y /\ y.pc = "commit" /\ Like(y, x) /\ KeptApart'
    <3>1. asks[c].op # "none"
      BY <1>1
    <3> QED BY <1>1, <2>1, <3>1, Going
  <2>3. RenameStands(y)
    BY <1>2, <2>2 DEF RenameStands, Like
  <2>4. \A r \in RepoRows : ~Under(y.from, Home(r)[1])
    BY <1>6, <1>9, <2>2 DEF Like
  <2>5. KnowsRename(y)
    BY <1>2, <2>2, <2>3, <2>4 DEF KnowsRename, Like
  <2>6. Knows(y) /\ Placed(y)
    BY <1>1, <1>2, <2>2, <2>5 DEF Knows, Placed, Like
  <2> QED BY <1>1, <1>3, <2>1, <2>2, <2>6, CalmStep
<1>10. CASE x.from \in dirs /\ x.to \notin dirs
  <2>1. MoveTree(x.from, x.to) /\ asks' = [asks EXCEPT ![c].pc = "commit", ![c].moved = TRUE]
    BY <1>1, <1>10 DEF MoveGroupDir
  <2>2. PICK y : y = [x EXCEPT !.pc = "commit", !.moved = TRUE]
    OBVIOUS
  <2>3. y \in AskRecord /\ y.pc = "commit" /\ y.moved = TRUE /\ y.op = "rename" /\ y.from = x.from /\ y.to = x.to
        /\ y.id = x.id /\ y.slug = x.slug
    BY <1>1, <2>2 DEF AskRecord
  <2>4. asks' = [asks EXCEPT ![c] = y]
    BY <1>1, <2>1, <2>2 DEF TreeTyped
  <2>5. asks' \in [TreeClients -> AskRecord] /\ asks'[c] = y /\ LocalAsks(c)
    BY <2>3, <2>4, SetAsk DEF TreeTyped
  <2>6. KeptApart'
    <3>1. SamePaths(c)
      BY <1>1, <2>3, <2>5 DEF SamePaths
    <3> QED BY <3>1, StillApart DEF Calm
  <2>7. ~Under(x.from, x.to) /\ ~Under(x.to, x.from)
    BY <1>2, Sideways DEF GroupRowsFit
  <2>8. (\A h \in DOMAIN store : ~Under(x.to, h[1])) /\ \A r \in RepoRows : ~Under(x.to, Home(r)[1])
    BY <1>6, <1>10
  <2>9. /\ \A h \in DOMAIN store : Under(x.from, h[1]) =>
             MovedKey(h, x.from, x.to) \in DOMAIN store' /\ store'[MovedKey(h, x.from, x.to)] = store[h]
        /\ \A h \in DOMAIN store : ~Under(x.from, h[1]) => h \in DOMAIN store' /\ store'[h] = store[h]
        /\ \A k \in DOMAIN store' :
             /\ k \in Path \X Slugs /\ ~Under(x.from, k[1])
             /\ \/ Under(x.to, k[1]) /\ \E h \in DOMAIN store : Under(x.from, h[1]) /\ k = MovedKey(h, x.from, x.to)
                \/ ~Under(x.to, k[1]) /\ k \in DOMAIN store
        /\ dirs' \subseteq Path /\ DirsFit'
    BY <1>2, <2>1, <2>7, <2>8, StoreMoved
  <2>10. Rows' = Rows /\ RepoRows' = RepoRows /\ (\A g, s : Joined(g, s)' = Joined(g, s)) /\ (\A r : Home(r)' = Home(r))
         /\ \A g, p : IsAt(g, p)' <=> IsAt(g, p)
    BY <1>7 DEF Rows, RepoRows, Joined, Home, IsAt
  <2>11. GroupsFit' /\ ReposFit'
    <3>1. GroupsFit'
      BY <1>2, <1>7, <2>10 DEF GroupsFit, GroupRowsFit
    <3>2. ReposFit'
      BY <1>2, <1>7, <2>10 DEF ReposFit, GroupRowsFit
    <3> QED BY <3>1, <3>2
  <2>12. TreeTyped'
    BY <1>7, <2>5, <2>9 DEF TreeTyped, Path
  <2>13. LocalStore(c)
    <3> SUFFICES ASSUME NEW k \in Path \X Slugs, ~Reg(x, k[1])
                 PROVE  (k \in DOMAIN store' <=> k \in DOMAIN store) /\ (k \in DOMAIN store => store'[k] = store[k])
      BY <1>1 DEF LocalStore
    <3>1. ~Under(x.from, k[1]) /\ ~Under(x.to, k[1])
      BY <1>4
    <3> QED BY <2>9, <3>1
  <2>14. Local(c)
    BY <1>7, <2>5, <2>13 DEF Local, LocalRows, LocalRepos
  <2>15. SettledFor(c)
    <3>1. \A k \in Path \X Slugs : Reg(x, k[1]) => Excepted(y, k)
      BY <1>4, <2>3 DEF Excepted, At2
    <3>2. \A r \in RepoRows' : Home(r)' \in Path \X Slugs
      BY <1>2, <2>10, RepoFields DEF GroupRowsFit
    <3> QED BY <1>1, <2>5, <2>9, <3>1, <3>2 DEF SettledFor
  <2>16. RenameStands(y)'
    BY <1>2, <1>7, <2>3, <2>10 DEF RenameStands
  <2>17. RenameMoved(y)'
    <3>1. \A k \in DOMAIN store' : ~Under(y.from, k[1])
      BY <2>3, <2>9
    <3>2. \A r \in RepoRows' : ~Under(y.to, Home(r)'[1])
      BY <2>3, <2>8, <2>10
    <3>3. ASSUME NEW r \in RepoRows', Under(y.from, Home(r)'[1]) PROVE DirHolds(Target(y, r), r)'
      <4>1. PICK k \in Path \X Slugs : k = Home(r) /\ Home(r)' = k /\ r \in RepoRows
        BY <1>2, <2>10, RepoFields DEF GroupRowsFit
      <4>2. Under(x.from, k[1]) /\ Reg(x, k[1])
        BY <1>4, <2>3, <3>3, <4>1
      <4>3. DirHolds(k, r)
        BY <1>5, <4>1, <4>2
      <4>4. MovedKey(k, x.from, x.to) \in DOMAIN store' /\ store'[MovedKey(k, x.from, x.to)] = r
        BY <2>9, <4>2, <4>3 DEF DirHolds
      <4>5. Target(y, r)' = MovedKey(k, x.from, x.to)
        BY <2>3, <4>1 DEF Target, MovedKey
      <4> QED BY <4>4, <4>5 DEF DirHolds
    <3>4. ASSUME NEW k \in DOMAIN store', Under(y.to, k[1])
          PROVE  \E r \in RepoRows' : Under(y.from, Home(r)'[1]) /\ Target(y, r)' = k
      <4>1. PICK h \in DOMAIN store : Under(x.from, h[1]) /\ k = MovedKey(h, x.from, x.to)
        BY <2>3, <2>9, <3>4
      <4>2. h \in Path \X Slugs
        BY DEF TreeTyped, Path
      <4>3. Reg(x, h[1])
        BY <1>4, <4>1, <4>2
      <4>4. PICK r \in RepoRows : Home(r) = h
        BY <1>5, <4>2, <4>3
      <4>5. Target(y, r)' = k /\ Under(y.from, Home(r)'[1]) /\ r \in RepoRows'
        BY <2>3, <2>10, <4>1, <4>4 DEF Target, MovedKey
      <4> QED BY <4>5
    <3> QED BY <3>1, <3>2, <3>3, <3>4 DEF RenameMoved
  <2>19. KnowsRename(asks[c])'
    BY <2>3, <2>5, <2>16, <2>17 DEF KnowsRename, RenameStands, RenameMoved, Target
  <2>20. Knows(asks[c])' /\ Placed(asks[c])'
    BY <1>2, <2>3, <2>5, <2>19 DEF Knows, Placed
  <2> QED BY <2>6, <2>9, <2>11, <2>12, <2>14, <2>15, <2>20, StepIsCalm
<1> QED BY <1>8, <1>9, <1>10

LEMMA CommitRenameStays ==
  ASSUME TreeTyped, Calm, NEW c \in TreeClients, CommitRename(c), disturbed' = {}
  PROVE  TreeTyped' /\ Calm'
<1>1. PICK x \in AskRecord : x = asks[c] /\ x.op = "rename" /\ x.pc = "commit"
  BY AskIs DEF CommitRename, At
<1>2. /\ x.from \in Path /\ x.from # <<>> /\ x.to \in Path /\ x.to # <<>> /\ GroupRowsFit /\ DirsFit /\ StoreFits
      /\ RenameStands(x) /\ KnowsRename(x) /\ x.moved \in BOOLEAN
  <2>1. KnowsRename(x)
    BY <1>1, AskIs DEF Knows
  <2> QED BY <1>1, <2>1, AskIs DEF Placed, KnowsRename, AskRecord
<1>3. x.id \in Rows /\ groups[x.id].path = x.from /\ x.slug \in Slugs /\ x.to = Joined(groups[x.id].parent, x.slug)
  BY <1>2 DEF RenameStands, IsAt
<1>4. ~Under(x.from, x.to) /\ ~Under(x.to, x.from)
  BY <1>2, Sideways DEF GroupRowsFit
<1>5. \A p \in Path : Reg(x, p) <=> Under(x.from, p) \/ Under(x.to, p)
  BY <1>1, <1>2 DEF Reg
<1>6. \A k : Excepted(x, k) <=> x.moved /\ (Under(x.from, k[1]) \/ Under(x.to, k[1]))
  BY <1>1 DEF Excepted, At2
<1>7. /\ ~x.moved => \A r \in RepoRows : ~Under(x.from, Home(r)[1])
      /\ x.moved => RenameMoved(x)
  BY <1>1, <1>2 DEF KnowsRename
<1>8. PICK below : below = {h \in Rows : Under(x.from, groups[h].path)}
  OBVIOUS
<1>9. x.id \in below
  BY <1>2, <1>3, <1>8, UnderOrder
<1> DEFINE new(h) == Moved(groups[h].path, x.from, x.to)
           inUse == \E h \in below, o \in Rows \ below : groups[o].path = new(h)
           sibling == \E o \in Rows \ {x.id} :
                        x.id \in Rows /\ groups[o].parent = groups[x.id].parent /\ groups[o].slug = x.slug
<1>10. ASSUME sibling PROVE inUse
  <2>1. PICK o \in Rows \ {x.id} : groups[o].parent = groups[x.id].parent /\ groups[o].slug = x.slug
    BY <1>10
  <2>2. groups[o].path = x.to
    BY <1>2, <1>3, <2>1 DEF GroupRowsFit, GroupsFit
  <2>3. o \notin below
    BY <1>4, <1>8, <2>2
  <2>4. new(x.id) = x.to
    BY <1>2, <1>3, MovedRoot
  <2> QED BY <1>9, <2>2, <2>3, <2>4
<1>11. Done(c) /\ repos' = repos
  BY DEF CommitRename
<1>12. /\ inUse => (disturbed' = IF x.moved THEN disturbed \cup {"clash"} ELSE disturbed) /\ UNCHANGED <<groups, dirs, store>>
       /\ ~inUse /\ ~(x.id \notin Rows \/ sibling) =>
            /\ groups' = [h \in GroupIds |->
                 LET onMove == IF h \in below THEN [groups[h] EXCEPT !.path = new(h)] ELSE groups[h]
                 IN IF h = x.id THEN [onMove EXCEPT !.slug = x.slug] ELSE onMove]
            /\ UNCHANGED <<dirs, store, disturbed>>
  BY <1>1, <1>8 DEF CommitRename
<1>13. CASE inUse
  <2>1. x.moved = FALSE
    BY <1>2, <1>12, <1>13
  <2>2. UNCHANGED Data
    BY <1>11, <1>12, <1>13 DEF Data
  <2>3. \A k : ~Excepted(x, k)
    BY <1>6, <2>1
  <2> QED BY <1>1, <1>11, <2>2, <2>3, QuietEnd
<1>14. CASE ~inUse
  <2>1. /\ groups' = [h \in GroupIds |->
             LET onMove == IF h \in below THEN [groups[h] EXCEPT !.path = new(h)] ELSE groups[h]
             IN IF h = x.id THEN [onMove EXCEPT !.slug = x.slug] ELSE onMove]
        /\ dirs' = dirs /\ store' = store
    BY <1>3, <1>10, <1>12, <1>14
  <2>2. \A h \in below, o \in Rows \ below : groups[o].path # new(h)
    BY <1>14
  <2>3. \A h \in below : new(h) \in Path /\ Under(x.to, new(h))
    BY <1>2, <1>8, RowFields, MovedUnder
  <2>4. new(x.id) = x.to
    BY <1>2, <1>3, MovedRoot
  <2>5. \A h \in below : new(h) = Moved(groups[h].path, x.from, x.to)
    OBVIOUS
  <2> HIDE DEF new, inUse, sibling
  <2>6. ASSUME NEW h \in below, h # x.id
        PROVE  /\ groups'[h] \in OrganizationRow /\ groups'[h].path = new(h)
               /\ groups'[h].parent = groups[h].parent /\ groups'[h].slug = groups[h].slug
    <3>1. PICK r \in OrganizationRow : r = groups[h] /\ h \in GroupIds
      BY <1>8 DEF TreeTyped, Rows
    <3>2. PICK z : z = [r EXCEPT !.path = new(h)]
      OBVIOUS
    <3>3. z \in OrganizationRow /\ z.path = new(h) /\ z.parent = r.parent /\ z.slug = r.slug
      BY <2>3, <3>2 DEF OrganizationRow, Path
    <3>4. groups'[h] = z
      BY <2>1, <2>6, <3>1, <3>2
    <3> QED BY <3>1, <3>3, <3>4
  <2>7. /\ groups'[x.id] \in OrganizationRow /\ groups'[x.id].path = x.to
        /\ groups'[x.id].parent = groups[x.id].parent /\ groups'[x.id].slug = x.slug
    <3>1. PICK r \in OrganizationRow : r = groups[x.id] /\ x.id \in GroupIds
      BY <1>3 DEF TreeTyped, Rows
    <3>2. PICK z : z = [r EXCEPT !.path = x.to]
      OBVIOUS
    <3>3. z \in OrganizationRow /\ z.path = x.to /\ z.parent = r.parent
      BY <1>2, <3>2 DEF OrganizationRow, Path
    <3>4. PICK y : y = [z EXCEPT !.slug = x.slug]
      OBVIOUS
    <3>5. y \in OrganizationRow /\ y.path = x.to /\ y.parent = r.parent /\ y.slug = x.slug
      BY <1>3, <3>3, <3>4 DEF OrganizationRow
    <3>6. groups'[x.id] = y
      BY <1>9, <2>1, <2>4, <3>1, <3>2, <3>4
    <3> QED BY <3>1, <3>5, <3>6
  <2>8. \A h \in GroupIds \ below : groups'[h] = groups[h]
    BY <1>9, <2>1
  <2>9. groups' \in [GroupIds -> OrganizationRow \cup {Absent}]
    <3>1. \A h \in GroupIds : groups'[h] \in OrganizationRow \cup {Absent}
      <4> TAKE h \in GroupIds
      <4>1. CASE h \in below
        BY <2>6, <2>7, <4>1
      <4>2. CASE h \notin below
        BY <2>8, <4>2 DEF TreeTyped
      <4> QED BY <4>1, <4>2
    <3>2. groups' = [h \in GroupIds |-> groups'[h]]
      BY <2>1
    <3> QED BY <3>1, <3>2
  <2>10. Rows' = Rows
    <3>1. ASSUME NEW h \in GroupIds PROVE h \in Rows' <=> h \in Rows
      <4>1. CASE h \in below
        <5>1. groups'[h] # Absent
          BY <2>6, <2>7, <4>1, TreeAssumption
        <5> QED BY <1>8, <4>1, <5>1 DEF Rows
      <4>2. CASE h \notin below
        BY <2>8, <4>2 DEF Rows
      <4> QED BY <4>1, <4>2
    <3>2. Rows \subseteq GroupIds /\ Rows' \subseteq GroupIds
      BY DEF Rows
    <3> QED BY <3>1, <3>2
  <2>11. \A h \in below : groups'[h].path = new(h) /\ groups'[h].parent = groups[h].parent
    BY <2>4, <2>6, <2>7
  <2>12. \A h \in Rows : h \in GroupIds /\ groups[h].path \in Path
    BY RowFields
  <2>13. GroupsFit'
    <3>1. ASSUME NEW h \in Rows', NEW z, z = groups'[h]
          PROVE  z.parent \in Rows' \cup {Root} /\ z.path = Joined(z.parent, z.slug)'
      <4>1. PICK p : p = groups[h].parent
        OBVIOUS
      <4>2. h \in Rows /\ p \in Rows \cup {Root} /\ groups[h].slug \in Slugs /\ groups[h].path = Joined(p, groups[h].slug)
        BY <1>2, <2>10, <4>1, RowFields DEF GroupRowsFit, GroupsFit
      <4>3. CASE h \notin below
        <5>1. z = groups[h]
          BY <2>8, <2>12, <3>1, <4>2, <4>3
        <5>2. CASE p = Root
          BY <2>10, <4>1, <4>2, <5>1, <5>2 DEF Joined
        <5>3. CASE p # Root
          <6>1. p \in Rows \ below
            BY <1>2, <1>8, <4>1, <4>2, <4>3, <5>3, ChildBelow DEF GroupRowsFit
          <6>2. groups'[p] = groups[p]
            BY <2>8, <2>12, <6>1
          <6> QED BY <2>10, <4>1, <4>2, <5>1, <5>3, <6>1, <6>2 DEF Joined
        <5> QED BY <5>2, <5>3
      <4>4. CASE h \in below /\ h # x.id
        <5>1. groups[h].path # x.from /\ Under(x.from, groups[h].path)
          BY <1>2, <1>3, <1>8, <4>2, <4>4 DEF GroupRowsFit, GroupsFit
        <5>2. p \in Rows /\ Under(x.from, groups[p].path)
          BY <1>2, <4>1, <4>2, <5>1, ParentBelow DEF GroupRowsFit
        <5>3. p # Root /\ p \in below /\ groups[p].path \in Path
          BY <1>8, <2>12, <5>2, NoRoot
        <5>4. z.parent = p /\ z.path = new(h) /\ z.slug = groups[h].slug /\ groups'[p].path = new(p)
          BY <2>6, <2>11, <3>1, <4>1, <4>4, <5>3
        <5>5. groups[h].path = Append(groups[p].path, groups[h].slug)
          BY <4>2, <5>3 DEF Joined
        <5>6. Moved(Append(groups[p].path, groups[h].slug), x.from, x.to)
                = Append(Moved(groups[p].path, x.from, x.to), groups[h].slug)
          BY <1>2, <4>2, <5>2, <5>3, MovedLonger
        <5>7. new(h) = Append(new(p), groups[h].slug)
          BY <2>5, <4>4, <5>3, <5>5, <5>6
        <5> QED BY <2>10, <5>2, <5>3, <5>4, <5>7 DEF Joined
      <4>5. CASE h = x.id
        <5>1. z.parent = p /\ z.path = x.to /\ z.slug = x.slug /\ x.to = Joined(p, x.slug)
          BY <1>3, <2>7, <3>1, <4>1, <4>5
        <5>2. CASE p = Root
          BY <2>10, <5>1, <5>2 DEF Joined
        <5>3. CASE p # Root
          <6>1. p \in Rows /\ groups[p].path \in Path
            BY <2>12, <4>2, <5>3
          <6>2. ~Under(x.from, groups[p].path)
            BY <1>3, <4>2, <4>5, <5>3, <6>1, JoinedIs
          <6>3. groups'[p] = groups[p]
            BY <1>8, <2>8, <2>12, <6>1, <6>2
          <6> QED BY <2>10, <5>1, <5>3, <6>1, <6>3 DEF Joined
        <5> QED BY <5>2, <5>3
      <4> QED BY <4>3, <4>4, <4>5
    <3>2. ASSUME NEW h \in Rows', NEW i \in Rows', groups'[h].path = groups'[i].path PROVE h = i
      <4>1. h \in Rows /\ i \in Rows /\ h \in GroupIds /\ i \in GroupIds
        BY <2>10, <2>12
      <4>2. CASE h \in below /\ i \in below
        <5>1. new(h) = new(i)
          BY <2>11, <3>2, <4>2
        <5>2. /\ Moved(Moved(groups[h].path, x.from, x.to), x.to, x.from) = groups[h].path
              /\ Moved(Moved(groups[i].path, x.from, x.to), x.to, x.from) = groups[i].path
          BY <1>2, <1>8, <2>12, <4>1, <4>2, MovedBack
        <5>3. groups[h].path = groups[i].path
          BY <2>5, <4>2, <5>1, <5>2
        <5> QED BY <1>2, <4>1, <5>3 DEF GroupRowsFit, GroupsFit
      <4>3. CASE h \in below /\ i \notin below
        BY <2>2, <2>8, <2>11, <3>2, <4>1, <4>3
      <4>4. CASE h \notin below /\ i \in below
        BY <2>2, <2>8, <2>11, <3>2, <4>1, <4>4
      <4>5. CASE h \notin below /\ i \notin below
        BY <1>2, <2>8, <3>2, <4>1, <4>5 DEF GroupRowsFit, GroupsFit
      <4> QED BY <4>2, <4>3, <4>4, <4>5
    <3> QED BY <3>1, <3>2 DEF GroupsFit
  <2>14. RepoRows' = RepoRows
    BY <1>11 DEF RepoRows
  <2>15. ReposFit' /\ DirsFit'
    <3>1. ReposFit'
      BY <1>2, <1>11, <2>10, <2>14 DEF GroupRowsFit, ReposFit
    <3>2. DirsFit'
      BY <1>2, <2>1 DEF DirsFit
    <3> QED BY <3>1, <3>2
  <2>16. KeptApart' /\ asks'[c] = NoAsk /\ LocalAsks(c) /\ asks' \in [TreeClients -> AskRecord]
    BY <1>11, GoneApart
  <2>17. TreeTyped'
    BY <1>11, <2>1, <2>9, <2>16 DEF TreeTyped
  <2>18. Local(c)
    <3>1. LocalRows(c)
      <4> SUFFICES ASSUME NEW g \in GroupIds, groups'[g] # groups[g]
                   PROVE  Reg(x, groups[g].path) /\ Reg(x, groups'[g].path)
        BY <1>1 DEF LocalRows
      <4>1. g \in below
        BY <2>8
      <4> QED BY <1>5, <1>8, <2>3, <2>11, <2>12, <4>1
    <3> QED BY <1>11, <2>1, <2>16, <3>1 DEF Local, LocalRepos, LocalStore
  <2>19. ASSUME NEW r \in RepoRows
         PROVE  /\ Home(r) \in Path \X Slugs
                /\ Under(x.from, Home(r)[1]) => Home(r)' = Target(x, r) /\ x.moved /\ DirHolds(Home(r), r)'
                /\ ~Under(x.from, Home(r)[1]) => Home(r)' = Home(r)
    <3>1. PICK g : g = repos[r].group
      OBVIOUS
    <3>2. g \in Rows /\ Home(r) = <<groups[g].path, repos[r].slug>> /\ Home(r) \in Path \X Slugs /\ Home(r)[1] = groups[g].path
          /\ Home(r)[2] = repos[r].slug /\ Home(r)' = <<groups'[g].path, repos[r].slug>>
      BY <1>2, <1>11, <3>1, RepoFields DEF GroupRowsFit, Home
    <3>3. ASSUME Under(x.from, Home(r)[1]) PROVE Home(r)' = Target(x, r) /\ x.moved /\ DirHolds(Home(r), r)'
      <4>1. g \in below
        BY <1>8, <3>2, <3>3
      <4>2. Home(r)' = Target(x, r)
        BY <2>5, <2>11, <3>2, <4>1 DEF Target
      <4>3. x.moved /\ DirHolds(Target(x, r), r)
        BY <1>2, <1>7, <3>3 DEF RenameMoved
      <4> QED BY <2>1, <4>2, <4>3 DEF DirHolds
    <3>4. ASSUME ~Under(x.from, Home(r)[1]) PROVE Home(r)' = Home(r)
      <4>1. g \in Rows \ below
        BY <1>8, <3>2, <3>4
      <4> QED BY <2>8, <2>12, <3>2, <4>1
    <3> QED BY <3>2, <3>3, <3>4
  <2>20. ASSUME NEW k \in Path \X Slugs, Reg(x, k[1]), Spared(k) PROVE x.moved
    BY <1>1, <1>6, <2>20, OwnRegion
  <2>21. SettledFor(c)
    <3>1. ASSUME NEW r \in RepoRows', Reg(x, Home(r)'[1]) PROVE DirHolds(Home(r), r)'
      <4>1. r \in RepoRows
        BY <2>14
      <4>2. CASE Under(x.from, Home(r)[1])
        BY <2>19, <4>1, <4>2
      <4>3. CASE ~Under(x.from, Home(r)[1])
        <5>1. PICK k \in Path \X Slugs : k = Home(r) /\ Home(r)' = k
          BY <2>19, <4>1, <4>3
        <5>2. Under(x.to, k[1])
          BY <1>5, <3>1, <4>3, <5>1
        <5>3. ~x.moved
          BY <1>7, <4>1, <5>1, <5>2 DEF RenameMoved
        <5>4. DirHolds(k, r)
          BY <1>2, <2>20, <3>1, <4>1, <5>1, <5>3 DEF StoreFits
        <5> QED BY <2>1, <5>1, <5>4 DEF DirHolds
      <4> QED BY <4>2, <4>3
    <3>2. ASSUME NEW k \in DOMAIN store', Reg(x, k[1]) PROVE \E r \in RepoRows' : Home(r)' = k
      <4>1. k \in DOMAIN store /\ k \in Path \X Slugs
        BY <2>1 DEF TreeTyped, Path
      <4>2. CASE x.moved
        <5>1. ~Under(x.from, k[1])
          BY <1>7, <4>1, <4>2 DEF RenameMoved
        <5>2. Under(x.to, k[1])
          BY <1>5, <3>2, <4>1, <5>1
        <5>3. PICK r \in RepoRows : Under(x.from, Home(r)[1]) /\ Target(x, r) = k
          BY <1>7, <4>1, <4>2, <5>2 DEF RenameMoved
        <5> QED BY <2>14, <2>19, <5>3
      <4>3. CASE ~x.moved
        <5>1. PICK r \in RepoRows : Home(r) = k
          BY <1>2, <2>20, <3>2, <4>1, <4>3 DEF StoreFits
        <5> QED BY <1>7, <2>14, <2>19, <4>3, <5>1
      <4> QED BY <4>2, <4>3
    <3> QED BY <1>1, <3>1, <3>2 DEF SettledFor
  <2>22. Knows(asks[c])' /\ Placed(asks[c])'
    BY <2>16, NoAskIs DEF Knows, Placed
  <2> QED BY <2>13, <2>15, <2>16, <2>17, <2>18, <2>21, <2>22, StepIsCalm
<1> QED BY <1>13, <1>14

-----------------------------------------------------------------------------
(* The steps of requests about repositories: rows and directories at the    *)
(* keys of the request alone.                                              *)
LEMMA HomeAt ==
  ASSUME TreeTyped, GroupRowsFit, NEW g, NEW p, IsAt(g, p), NEW r \in RepoRows, NEW s
  PROVE  Home(r) = <<p, s>> <=> repos[r] = [group |-> g, slug |-> s]
<1>1. PICK w \in RepositoryRow : w = repos[r]
  BY DEF TreeTyped, RepoRows
<1>2. w.group \in Rows /\ Home(r) = <<groups[w.group].path, w.slug>>
  BY <1>1, RepoFields DEF GroupRowsFit
<1>3. g \in Rows /\ groups[g].path = p
  BY DEF IsAt
<1>4. ASSUME Home(r) = <<p, s>> PROVE w = [group |-> g, slug |-> s]
  <2>1. groups[w.group].path = p /\ w.slug = s
    BY <1>2, <1>4
  <2>2. w.group = g
    BY <1>2, <1>3, <2>1 DEF GroupRowsFit, GroupsFit
  <2> QED BY <2>1, <2>2 DEF RepositoryRow
<1>5. ASSUME w = [group |-> g, slug |-> s] PROVE Home(r) = <<p, s>>
  BY <1>2, <1>3, <1>5
<1> QED BY <1>1, <1>4, <1>5

LEMMA HomesDiffer ==
  ASSUME TreeTyped, GroupRowsFit, NEW q \in RepoRows, NEW r \in RepoRows, Home(q) = Home(r)
  PROVE  q = r
<1>1. PICK p : p = groups[repos[r].group].path
  OBVIOUS
<1>2. IsAt(repos[r].group, p) /\ Home(r) = <<p, repos[r].slug>>
  BY <1>1, RepoFields DEF GroupRowsFit, IsAt
<1>3. repos[q] = [group |-> repos[r].group, slug |-> repos[r].slug]
  BY <1>2, HomeAt
<1>4. repos[r] = [group |-> repos[r].group, slug |-> repos[r].slug]
  BY <1>2, HomeAt
<1>5. repos[q] = repos[r]
  BY <1>3, <1>4
<1> QED BY <1>5 DEF GroupRowsFit, ReposFit

LEMMA KeyIs ==
  ASSUME NEW p \in Path, NEW s \in Slugs
  PROVE  \E k \in Path \X Slugs : k = <<p, s>> /\ k[1] = p /\ k[2] = s
<1>1. <<p, s>> \in Path \X Slugs /\ <<p, s>>[1] = p /\ <<p, s>>[2] = s
  OBVIOUS
<1> QED BY <1>1

ReposAt(K) == \A r \in RepoIds : repos'[r] # repos[r] =>
  (repos[r] # Absent => Home(r) \in K) /\ (repos'[r] # Absent => Home(r)' \in K)
StoreAt(K) == \A k \in (Path \X Slugs) \ K :
  (k \in DOMAIN store' <=> k \in DOMAIN store) /\ (k \in DOMAIN store => store'[k] = store[k])
FitsAt(K, y) == \A k \in K :
  /\ \A r \in RepoRows' : Home(r)' = k => Excepted(y, k) \/ DirHolds(k, r)'
  /\ k \in DOMAIN store' => Excepted(y, k) \/ \E r \in RepoRows' : Home(r)' = k
LEMMA RepoStep ==
  ASSUME TreeTyped, Calm, TreeTyped', NEW c \in TreeClients, UNCHANGED groups, KeptApart', LocalAsks(c), ReposFit', DirsFit',
         Knows(asks[c])', Placed(asks[c])',
         NEW K \in SUBSET (Path \X Slugs), \A k \in K : Reg(asks[c], k[1]), \A k : Excepted(asks[c], k) => k \in K,
         ReposAt(K), StoreAt(K), FitsAt(K, asks'[c])
  PROVE  Calm'
<1>1. GroupRowsFit /\ StoreFits
  BY AskIs
<1>2. Rows' = Rows /\ (\A g, s : Joined(g, s)' = Joined(g, s))
      /\ \A r \in RepoIds : repos'[r] = repos[r] => Home(r)' = Home(r) /\ (r \in RepoRows' <=> r \in RepoRows)
  BY DEF Rows, Joined, Home, RepoRows
<1>3. GroupsFit'
  BY <1>1, <1>2 DEF GroupsFit, GroupRowsFit
<1>4. Local(c)
  <2>1. LocalRepos(c)
    <3> SUFFICES ASSUME NEW r \in RepoIds, repos'[r] # repos[r]
                 PROVE  (repos[r] # Absent => Reg(asks[c], Home(r)[1])) /\ (repos'[r] # Absent => Reg(asks[c], Home(r)'[1]))
      BY DEF LocalRepos
    <3> QED BY DEF ReposAt
  <2>2. LocalStore(c)
    BY DEF LocalStore, StoreAt
  <2> QED BY <2>1, <2>2 DEF Local, LocalRows
<1>5. ASSUME NEW k \in (Path \X Slugs) \ K, Reg(asks[c], k[1])
      PROVE  /\ \A r \in RepoRows : Home(r) = k => DirHolds(k, r)
             /\ k \in DOMAIN store => \E r \in RepoRows : Home(r) = k
  <2>1. ~Spared(k)
    BY <1>5, OwnRegion
  <2> QED BY <1>1, <2>1 DEF StoreFits
<1>6. ASSUME NEW r \in RepoRows', Reg(asks[c], Home(r)'[1])
      PROVE  Excepted(asks'[c], Home(r)') \/ DirHolds(Home(r), r)'
  <2>1. PICK k : k = Home(r)'
    OBVIOUS
  <2>2. CASE k \in K
    BY <2>1, <2>2 DEF FitsAt, DirHolds
  <2>3. CASE k \notin K
    <3>1. r \in RepoIds /\ repos'[r] # Absent
      BY DEF RepoRows
    <3>2. repos'[r] = repos[r]
      BY <2>1, <2>3, <3>1 DEF ReposAt
    <3>3. r \in RepoRows /\ Home(r) = k
      BY <1>2, <2>1, <3>1, <3>2
    <3>4. k \in (Path \X Slugs) \ K
      BY <1>1, <2>3, <3>3, RepoFields DEF GroupRowsFit
    <3>5. DirHolds(k, r)
      BY <1>5, <1>6, <2>1, <3>3, <3>4
    <3> QED BY <2>1, <3>4, <3>5 DEF DirHolds, StoreAt
  <2> QED BY <2>2, <2>3
<1>7. ASSUME NEW k \in DOMAIN store', Reg(asks[c], k[1]) PROVE Excepted(asks'[c], k) \/ \E r \in RepoRows' : Home(r)' = k
  <2>1. CASE k \in K
    BY <2>1 DEF FitsAt
  <2>2. CASE k \notin K
    <3>1. k \in (Path \X Slugs) \ K
      BY <2>2 DEF TreeTyped, Path
    <3>2. k \in DOMAIN store
      BY <3>1 DEF StoreAt
    <3>3. PICK r \in RepoRows : Home(r) = k
      BY <1>5, <1>7, <3>1, <3>2
    <3>4. r \in RepoIds /\ repos[r] # Absent
      BY DEF RepoRows
    <3>5. repos'[r] = repos[r]
      BY <2>2, <3>3, <3>4 DEF ReposAt
    <3> QED BY <1>2, <3>3, <3>4, <3>5
  <2> QED BY <2>1, <2>2
<1>8. SettledFor(c)
  BY <1>6, <1>7 DEF SettledFor
<1> QED BY <1>3, <1>4, <1>8, StepIsCalm

LEMMA InsertRepoStays ==
  ASSUME TreeTyped, Calm, NEW c \in TreeClients, InsertRepo(c)
  PROVE  TreeTyped' /\ Calm'
<1>1. PICK x \in AskRecord : x = asks[c] /\ x.op = "repo" /\ x.pc = "insert"
  BY AskIs DEF InsertRepo, At
<1>2. /\ x.to \in Path /\ x.to # <<>> /\ GroupRowsFit /\ DirsFit /\ StoreFits /\ IsAt(x.into, x.to) /\ x.slug \in Slugs
  BY <1>1, AskIs DEF Knows, KnowsRepo, Placed
<1>3. \A k : ~Excepted(x, k)
  BY <1>1 DEF Excepted, At2
<1>4. groups' = groups /\ dirs' = dirs /\ store' = store
  BY DEF InsertRepo
<1>5. CASE Done(c) /\ UNCHANGED repos
  BY <1>1, <1>3, <1>4, <1>5, QuietEnd DEF Data
<1>6. CASE ~(Done(c) /\ UNCHANGED repos)
  <2>1. PICK r \in RepoIds \ RepoRows :
          /\ repos' = [repos EXCEPT ![r] = [group |-> x.into, slug |-> x.slug]]
          /\ asks' = [asks EXCEPT ![c].pc = "init", ![c].id = r]
          /\ \A q \in RepoRows : repos[q] # [group |-> x.into, slug |-> x.slug]
    BY <1>1, <1>6 DEF InsertRepo, Free
  <2>2. PICK w : w = [group |-> x.into, slug |-> x.slug]
    OBVIOUS
  <2>3. w \in RepositoryRow /\ w # Absent /\ w.group = x.into /\ w.slug = x.slug
    BY <1>2, <2>2, TreeAssumption DEF RepositoryRow, IsAt, Rows
  <2>4. repos' = [repos EXCEPT ![r] = w]
    BY <2>1, <2>2
  <2>5. repos' \in [RepoIds -> RepositoryRow \cup {Absent}] /\ repos'[r] = w /\ \A q \in RepoIds \ {r} : repos'[q] = repos[q]
    BY <2>3, <2>4 DEF TreeTyped
  <2>6. RepoRows' = RepoRows \cup {r} /\ r \notin RepoRows
    BY <2>3, <2>5 DEF RepoRows
  <2>7. PICK y : y = [x EXCEPT !.pc = "init", !.id = r]
    OBVIOUS
  <2>8. /\ y \in AskRecord /\ y.pc = "init" /\ y.id = r /\ y.op = "repo" /\ y.from = x.from /\ y.to = x.to
        /\ y.slug = x.slug /\ y.into = x.into
    BY <1>1, <2>7 DEF AskRecord
  <2>9. asks' = [asks EXCEPT ![c] = y]
    BY <1>1, <2>1, <2>7 DEF TreeTyped
  <2>10. asks' \in [TreeClients -> AskRecord] /\ asks'[c] = y /\ LocalAsks(c)
    BY <2>8, <2>9, SetAsk DEF TreeTyped
  <2>11. KeptApart'
    <3>1. SamePaths(c)
      BY <1>1, <2>8, <2>10 DEF SamePaths
    <3> QED BY <3>1, StillApart DEF Calm
  <2>12. TreeTyped'
    BY <1>4, <2>5, <2>10 DEF TreeTyped
  <2>13. Rows' = Rows
    BY <1>4 DEF Rows
  <2>14. ReposFit'
    <3>1. \A q \in RepoRows' : repos'[q].group \in Rows'
      BY <1>2, <2>3, <2>5, <2>6, <2>13 DEF IsAt, GroupRowsFit, ReposFit, RepoRows
    <3>2. \A p, q \in RepoRows' : repos'[p] = repos'[q] => p = q
      <4>1. \A q \in RepoRows : q \in RepoIds \ {r} /\ repos'[q] = repos[q] /\ repos[q] # w
        BY <2>1, <2>2, <2>5, <2>6 DEF RepoRows
      <4> QED BY <1>2, <2>5, <2>6, <4>1 DEF GroupRowsFit, ReposFit
    <3> QED BY <3>1, <3>2 DEF ReposFit
  <2>15. DirsFit'
    BY <1>2, <1>4 DEF DirsFit
  <2>16. PICK k \in Path \X Slugs : k = <<x.to, x.slug>> /\ k[1] = x.to
    BY <1>2, KeyIs
  <2>17. Home(r)' = k
    BY <1>2, <1>4, <2>3, <2>5, <2>16 DEF Home, IsAt
  <2>18. k \notin DOMAIN store
    <3> SUFFICES ASSUME k \in DOMAIN store PROVE FALSE
      OBVIOUS
    <3>1. Reg(x, k[1])
      BY <1>1, <1>2, <2>16, UnderOrder DEF Reg
    <3>2. ~Spared(k)
      BY <1>1, <1>3, <3>1, OwnRegion
    <3>3. PICK q \in RepoRows : Home(q) = k
      BY <1>2, <3>2 DEF StoreFits
    <3>4. repos[q] = [group |-> x.into, slug |-> x.slug]
      BY <1>2, <2>16, <3>3, HomeAt
    <3> QED BY <2>1, <3>4
  <2>19. Knows(asks[c])' /\ Placed(asks[c])'
    <3>1. IsAt(y.into, y.to)'
      BY <1>2, <1>4, <2>8, <2>13 DEF IsAt
    <3>2. r \in RepoRows' /\ repos'[r] = [group |-> y.into, slug |-> y.slug] /\ <<y.to, y.slug>> \notin DOMAIN store'
      BY <1>4, <2>2, <2>5, <2>6, <2>8, <2>16, <2>18
    <3>3. KnowsRepo(asks[c])'
      BY <1>2, <2>8, <2>10, <3>1, <3>2 DEF KnowsRepo, IsAt
    <3> QED BY <1>2, <2>8, <2>10, <3>3 DEF Knows, Placed
  <2>20. Reg(asks[c], k[1])
    BY <1>1, <1>2, <2>16, UnderOrder DEF Reg
  <2>21. ReposAt({k})
    BY <2>5, <2>6, <2>17 DEF ReposAt, RepoRows
  <2>22. StoreAt({k})
    BY <1>4 DEF StoreAt
  <2>23. FitsAt({k}, asks'[c])
    BY <2>8, <2>10, <2>16 DEF FitsAt, Excepted, At2
  <2> QED BY <1>1, <1>3, <1>4, <2>10, <2>11, <2>12, <2>14, <2>15, <2>19, <2>20, <2>21, <2>22, <2>23, RepoStep
<1> QED BY <1>5, <1>6

LEMMA InitRepoDirStays ==
  ASSUME TreeTyped, Calm, NEW c \in TreeClients, InitRepoDir(c)
  PROVE  TreeTyped' /\ Calm'
<1>1. PICK x \in AskRecord : x = asks[c] /\ x.op = "repo" /\ x.pc = "init"
  BY AskIs DEF InitRepoDir, At
<1>2. /\ x.to \in Path /\ x.to # <<>> /\ GroupRowsFit /\ DirsFit /\ StoreFits /\ IsAt(x.into, x.to) /\ x.slug \in Slugs
      /\ x.id \in RepoRows /\ repos[x.id] = [group |-> x.into, slug |-> x.slug] /\ <<x.to, x.slug>> \notin DOMAIN store
  BY <1>1, AskIs DEF Knows, KnowsRepo, Placed
<1>3. PICK k \in Path \X Slugs : k = <<x.to, x.slug>> /\ k[1] = x.to
  BY <1>2, KeyIs
<1>4. /\ Done(c) /\ groups' = groups /\ repos' = repos /\ dirs' = dirs \cup Parents(x.to)
      /\ store' = [h \in DOMAIN store \cup {k} |-> IF h = k THEN x.id ELSE store[h]]
  BY <1>1, <1>2, <1>3 DEF InitRepoDir
<1>5. DOMAIN store' = DOMAIN store \cup {k} /\ store'[k] = x.id /\ \A h \in DOMAIN store : h # k => store'[h] = store[h]
  BY <1>4
<1>6. /\ KeptApart' /\ asks'[c] = NoAsk /\ LocalAsks(c) /\ asks' \in [TreeClients -> AskRecord]
  BY <1>4, GoneApart
<1>7. TreeTyped'
  <2>1. dirs' \subseteq Seq(Slugs)
    BY <1>2, <1>4, ParentsAre DEF TreeTyped, Path
  <2>2. DOMAIN store' \subseteq Seq(Slugs) \X Slugs
    BY <1>3, <1>5 DEF TreeTyped, Path
  <2> QED BY <1>4, <1>6, <2>1, <2>2 DEF TreeTyped
<1>8. Rows' = Rows /\ RepoRows' = RepoRows /\ \A r : Home(r)' = Home(r)
  BY <1>4 DEF Rows, RepoRows, Home
<1>9. ReposFit'
  BY <1>2, <1>4, <1>8 DEF ReposFit, GroupRowsFit
<1>10. DirsFit'
  BY <1>2, <1>3, <1>4, <1>5 DEF DirsFit
<1>11. Knows(asks[c])' /\ Placed(asks[c])'
  BY <1>6, NoAskIs DEF Knows, Placed
<1>12. Reg(asks[c], k[1])
  BY <1>1, <1>2, <1>3, UnderOrder DEF Reg
<1>13. \A h : Excepted(asks[c], h) => h = k
  BY <1>1, <1>3 DEF Excepted, At2
<1>14. Home(x.id) = k
  BY <1>2, <1>3, HomeAt
<1>15. ReposAt({k}) /\ StoreAt({k})
  BY <1>4, <1>5 DEF ReposAt, StoreAt
<1>16. FitsAt({k}, asks'[c])
  <2>1. ASSUME NEW r \in RepoRows', Home(r)' = k PROVE DirHolds(k, r)'
    <3>1. r = x.id
      BY <1>2, <1>8, <1>14, <2>1, HomesDiffer
    <3> QED BY <1>5, <3>1 DEF DirHolds
  <2> QED BY <1>2, <1>8, <1>14, <2>1 DEF FitsAt
<1> QED BY <1>4, <1>6, <1>7, <1>9, <1>10, <1>11, <1>12, <1>13, <1>15, <1>16, RepoStep

LEMMA DeleteRepoRowStays ==
  ASSUME TreeTyped, Calm, NEW c \in TreeClients, DeleteRepoRow(c)
  PROVE  TreeTyped' /\ Calm'
<1>1. PICK x \in AskRecord : x = asks[c] /\ x.op = "unrepo" /\ x.pc = "row"
  BY AskIs DEF DeleteRepoRow, At
<1>2. /\ x.from \in Path /\ x.from # <<>> /\ GroupRowsFit /\ DirsFit /\ StoreFits /\ x.id \in RepoRows /\ x.slug \in Slugs
      /\ Home(x.id) = <<x.from, x.slug>>
  BY <1>1, AskIs DEF Knows, KnowsUnrepo, Placed
<1>3. PICK k \in Path \X Slugs : k = <<x.from, x.slug>> /\ k[1] = x.from
  BY <1>2, KeyIs
<1>4. repos' = [repos EXCEPT ![x.id] = Absent] /\ To(c, "dir") /\ groups' = groups /\ dirs' = dirs /\ store' = store
  BY <1>1 DEF DeleteRepoRow
<1>5. PICK y \in AskRecord : /\ asks' = [asks EXCEPT ![c] = y] /\ asks'[c] = y /\ y.pc = "dir" /\ Like(y, x)
                             /\ KeptApart' /\ LocalAsks(c) /\ asks' \in [TreeClients -> AskRecord]
  <2>1. asks[c].op # "none"
    BY <1>1
  <2> QED BY <1>1, <1>4, <2>1, Going
<1>6. /\ repos' \in [RepoIds -> RepositoryRow \cup {Absent}] /\ x.id \in RepoIds
      /\ repos'[x.id] = Absent /\ \A r \in RepoIds : r # x.id => repos'[r] = repos[r]
  BY <1>2, <1>4 DEF TreeTyped, RepoRows
<1>7. TreeTyped'
  BY <1>4, <1>5, <1>6 DEF TreeTyped
<1>8. Rows' = Rows /\ RepoRows' = RepoRows \ {x.id} /\ \A r \in RepoRows' : repos'[r] = repos[r] /\ Home(r)' = Home(r)
  BY <1>4, <1>6 DEF Rows, RepoRows, Home
<1>9. ReposFit'
  BY <1>2, <1>8 DEF ReposFit, GroupRowsFit
<1>10. DirsFit'
  BY <1>2, <1>4 DEF DirsFit
<1>11. \A r \in RepoRows' : Home(r)' # k
  BY <1>2, <1>3, <1>8, HomesDiffer
<1>12. Knows(asks[c])' /\ Placed(asks[c])'
  <2>1. y.op = "unrepo" /\ y.from = x.from /\ y.slug = x.slug /\ x.slug \in Slugs
    BY <1>2, <1>1, <1>5 DEF Like
  <2>2. KnowsUnrepo(asks[c])'
    BY <1>3, <1>5, <1>11, <2>1 DEF KnowsUnrepo
  <2> QED BY <1>2, <1>5, <2>1, <2>2 DEF Knows, Placed
<1>13. Reg(asks[c], k[1])
  BY <1>1, <1>2, <1>3, UnderOrder DEF Reg
<1>14. \A h : ~Excepted(asks[c], h)
  BY <1>1 DEF Excepted, At2
<1>15. ReposAt({k}) /\ StoreAt({k})
  BY <1>2, <1>3, <1>4, <1>6 DEF ReposAt, StoreAt
<1>16. FitsAt({k}, asks'[c])
  BY <1>1, <1>3, <1>5, <1>11 DEF FitsAt, Excepted, At2, Like
<1> QED BY <1>4, <1>5, <1>7, <1>9, <1>10, <1>12, <1>13, <1>14, <1>15, <1>16, RepoStep

LEMMA RemoveRepoDirStays ==
  ASSUME TreeTyped, Calm, NEW c \in TreeClients, RemoveRepoDir(c)
  PROVE  TreeTyped' /\ Calm'
<1>1. PICK x \in AskRecord : x = asks[c] /\ x.op = "unrepo" /\ x.pc = "dir"
  BY AskIs DEF RemoveRepoDir, At
<1>2. /\ x.from \in Path /\ x.from # <<>> /\ GroupRowsFit /\ DirsFit /\ StoreFits /\ x.slug \in Slugs
      /\ \A r \in RepoRows : Home(r) # <<x.from, x.slug>>
  BY <1>1, AskIs DEF Knows, KnowsUnrepo, Placed
<1>3. PICK h \in Path \X Slugs : h = <<x.from, x.slug>> /\ h[1] = x.from
  BY <1>2, KeyIs
<1>4. /\ Done(c) /\ groups' = groups /\ repos' = repos /\ dirs' = dirs
      /\ store' = [k \in DOMAIN store \ {h} |-> store[k]]
  BY <1>1, <1>3 DEF RemoveRepoDir
<1>5. DOMAIN store' = DOMAIN store \ {h} /\ \A k \in DOMAIN store' : store'[k] = store[k]
  BY <1>4
<1>6. /\ KeptApart' /\ asks'[c] = NoAsk /\ LocalAsks(c) /\ asks' \in [TreeClients -> AskRecord]
  BY <1>4, GoneApart
<1>7. TreeTyped'
  BY <1>4, <1>5, <1>6 DEF TreeTyped
<1>8. Rows' = Rows /\ RepoRows' = RepoRows /\ \A r : Home(r)' = Home(r)
  BY <1>4 DEF Rows, RepoRows, Home
<1>9. ReposFit'
  BY <1>2, <1>4, <1>8 DEF ReposFit, GroupRowsFit
<1>10. DirsFit'
  BY <1>2, <1>4, <1>5 DEF DirsFit
<1>11. Knows(asks[c])' /\ Placed(asks[c])'
  BY <1>6, NoAskIs DEF Knows, Placed
<1>12. Reg(asks[c], h[1])
  BY <1>1, <1>2, <1>3, UnderOrder DEF Reg
<1>13. \A k : Excepted(asks[c], k) => k = h
  BY <1>1, <1>3 DEF Excepted, At2
<1>14. ReposAt({h}) /\ StoreAt({h})
  BY <1>4, <1>5 DEF ReposAt, StoreAt
<1>15. FitsAt({h}, asks'[c])
  BY <1>2, <1>3, <1>5, <1>8 DEF FitsAt
<1> QED BY <1>4, <1>6, <1>7, <1>9, <1>10, <1>11, <1>12, <1>13, <1>14, <1>15, RepoStep

TransferFacts(x) ==
  /\ x.from \in Path /\ x.from # <<>> /\ x.to \in Path /\ x.to # <<>> /\ x.from # x.to /\ x.slug \in Slugs
  /\ GroupRowsFit /\ DirsFit /\ StoreFits /\ KnowsTransfer(x)
LEMMA TransferIs ==
  ASSUME TreeTyped, Calm, NEW c \in TreeClients, asks[c].op = "transfer"
  PROVE  TransferFacts(asks[c])
<1>1. PICK x \in AskRecord : x = asks[c] /\ x.op = "transfer"
  BY AskIs
<1>2. /\ x.from \in Path /\ x.from # <<>> /\ x.to \in Path /\ x.to # <<>>
      /\ GroupRowsFit /\ DirsFit /\ StoreFits /\ KnowsTransfer(x)
  BY <1>1, AskIs DEF Knows, Placed
<1>3. x.from # x.to /\ x.id \in RepoRows /\ Home(x.id) = <<x.from, x.slug>>
  BY <1>2 DEF KnowsTransfer
<1>4. x.slug \in Slugs
  <2>1. PICK h \in Path \X Slugs : h = <<x.from, x.slug>>
    BY <1>2, <1>3, RepoFields DEF GroupRowsFit
  <2> QED BY <2>1
<1> QED BY <1>1, <1>2, <1>3, <1>4 DEF TransferFacts

LEMMA TransferDirStays ==
  ASSUME TreeTyped, Calm, NEW c \in TreeClients, TransferDir(c)
  PROVE  TreeTyped' /\ Calm'
<1>1. PICK x \in AskRecord : x = asks[c] /\ x.op = "transfer" /\ x.pc = "move"
  BY AskIs DEF TransferDir, At
<1>2. TransferFacts(x)
  BY <1>1, TransferIs
<1>3. /\ x.from \in Path /\ x.from # <<>> /\ x.to \in Path /\ x.to # <<>> /\ x.from # x.to /\ x.slug \in Slugs
      /\ GroupRowsFit /\ DirsFit /\ StoreFits
  BY <1>2 DEF TransferFacts
<1>4. /\ x.id \in RepoRows /\ Home(x.id) = <<x.from, x.slug>> /\ IsAt(x.into, x.to)
      /\ \A q \in RepoRows : repos[q] # [group |-> x.into, slug |-> x.slug]
  BY <1>2 DEF TransferFacts, KnowsTransfer
<1>5. PICK old \in Path \X Slugs : old = <<x.from, x.slug>> /\ old[1] = x.from
  BY <1>3, KeyIs
<1>6. PICK new \in Path \X Slugs : new = <<x.to, x.slug>> /\ new[1] = x.to
  BY <1>3, KeyIs
<1>7. old # new /\ Home(x.id) = old
  BY <1>3, <1>4, <1>5, <1>6
<1>8. \A k : ~Excepted(x, k)
  BY <1>1 DEF Excepted, At2
<1>9. Reg(x, old[1]) /\ Reg(x, new[1])
  BY <1>1, <1>3, <1>5, <1>6, UnderOrder DEF Reg
<1>10. ~Spared(old) /\ ~Spared(new)
  BY <1>1, <1>8, <1>9, OwnRegion
<1>11. DirHolds(old, x.id)
  BY <1>3, <1>4, <1>7, <1>10 DEF StoreFits
<1>12. \A q \in RepoRows : Home(q) # new
  BY <1>3, <1>4, <1>6, HomeAt
<1>13. new \notin DOMAIN store
  BY <1>3, <1>10, <1>12 DEF StoreFits
<1>14. /\ MoveRepoDir(old, new) /\ dirs' = dirs \cup Parents(x.to) /\ To(c, "commit")
       /\ groups' = groups /\ repos' = repos
  BY <1>1, <1>5, <1>6, <1>11, <1>13 DEF TransferDir, DirHolds
<1>15. /\ DOMAIN store' = (DOMAIN store \ {old}) \cup {new} /\ store'[new] = store[old]
       /\ \A k \in DOMAIN store \ {old} : k # new => store'[k] = store[k]
  BY <1>14 DEF MoveRepoDir
<1>16. PICK y \in AskRecord : /\ asks' = [asks EXCEPT ![c] = y] /\ asks'[c] = y /\ y.pc = "commit" /\ Like(y, x)
                              /\ KeptApart' /\ LocalAsks(c) /\ asks' \in [TreeClients -> AskRecord]
  <2>1. asks[c].op # "none"
    BY <1>1
  <2> QED BY <1>1, <1>14, <2>1, Going
<1>17. TreeTyped'
  <2>1. dirs' \subseteq Seq(Slugs)
    BY <1>3, <1>14, ParentsAre DEF TreeTyped, Path
  <2>2. DOMAIN store' \subseteq Seq(Slugs) \X Slugs
    BY <1>15 DEF TreeTyped, Path
  <2> QED BY <1>14, <1>16, <2>1, <2>2 DEF TreeTyped
<1>18. Rows' = Rows /\ RepoRows' = RepoRows /\ (\A r : Home(r)' = Home(r)) /\ \A g, p : IsAt(g, p)' <=> IsAt(g, p)
  BY <1>14 DEF Rows, RepoRows, Home, IsAt
<1>19. ReposFit'
  BY <1>3, <1>14, <1>18 DEF ReposFit, GroupRowsFit
<1>20. DirsFit'
  BY <1>3, <1>6, <1>14, <1>15 DEF DirsFit
<1>21. y.op = "transfer" /\ y.from = x.from /\ y.to = x.to /\ y.slug = x.slug /\ y.id = x.id /\ y.into = x.into
  BY <1>1, <1>16 DEF Like
<1>22. DirHolds(new, x.id)' /\ old \notin DOMAIN store'
  BY <1>7, <1>11, <1>15 DEF DirHolds
<1>23. Knows(asks[c])' /\ Placed(asks[c])'
  <2>1. /\ y.id \in RepoRows' /\ Home(y.id)' = <<y.from, y.slug>> /\ IsAt(y.into, y.to)' /\ y.to # y.from
        /\ \A q \in RepoRows' : repos'[q] # [group |-> y.into, slug |-> y.slug]
    BY <1>3, <1>4, <1>14, <1>18, <1>21
  <2>2. <<y.to, y.slug>> = new /\ <<y.from, y.slug>> = old
    BY <1>5, <1>6, <1>21
  <2>3. KnowsTransfer(asks[c])'
    BY <1>16, <1>21, <1>22, <2>1, <2>2 DEF KnowsTransfer
  <2> QED BY <1>3, <1>16, <1>21, <2>3 DEF Knows, Placed
<1>24. ReposAt({old, new}) /\ StoreAt({old, new})
  BY <1>14, <1>15 DEF ReposAt, StoreAt
<1>25. FitsAt({old, new}, asks'[c])
  BY <1>5, <1>6, <1>16, <1>21 DEF FitsAt, Excepted, At2
<1>26. {old, new} \in SUBSET (Path \X Slugs) /\ \A k \in {old, new} : Reg(asks[c], k[1])
  BY <1>1, <1>9
<1> QED BY <1>1, <1>8, <1>14, <1>16, <1>17, <1>19, <1>20, <1>23, <1>24, <1>25, <1>26, RepoStep

LEMMA TransferRowStays ==
  ASSUME TreeTyped, Calm, NEW c \in TreeClients, TransferRow(c)
  PROVE  TreeTyped' /\ Calm'
<1>1. PICK x \in AskRecord : x = asks[c] /\ x.op = "transfer" /\ x.pc = "commit"
  BY AskIs DEF TransferRow, At
<1>2. TransferFacts(x)
  BY <1>1, TransferIs
<1>3. /\ x.from \in Path /\ x.from # <<>> /\ x.to \in Path /\ x.to # <<>> /\ x.from # x.to /\ x.slug \in Slugs
      /\ GroupRowsFit /\ DirsFit /\ StoreFits
  BY <1>2 DEF TransferFacts
<1>4. /\ x.id \in RepoRows /\ Home(x.id) = <<x.from, x.slug>> /\ IsAt(x.into, x.to)
      /\ \A q \in RepoRows : repos[q] # [group |-> x.into, slug |-> x.slug]
      /\ DirHolds(<<x.to, x.slug>>, x.id) /\ <<x.from, x.slug>> \notin DOMAIN store
  BY <1>1, <1>2 DEF TransferFacts, KnowsTransfer
<1>5. PICK old \in Path \X Slugs : old = <<x.from, x.slug>> /\ old[1] = x.from
  BY <1>3, KeyIs
<1>6. PICK new \in Path \X Slugs : new = <<x.to, x.slug>> /\ new[1] = x.to
  BY <1>3, KeyIs
<1>7. old # new /\ Home(x.id) = old /\ DirHolds(new, x.id) /\ old \notin DOMAIN store
  BY <1>3, <1>4, <1>5, <1>6
<1>8. PICK w : w = [group |-> x.into, slug |-> x.slug]
  OBVIOUS
<1>9. w \in RepositoryRow /\ w # Absent /\ w.group = x.into /\ w.slug = x.slug
  BY <1>3, <1>4, <1>8, TreeAssumption DEF RepositoryRow, IsAt, Rows
<1>10. /\ repos' = [repos EXCEPT ![x.id] = w] /\ Done(c) /\ groups' = groups /\ dirs' = dirs /\ store' = store
  BY <1>1, <1>4, <1>8 DEF TransferRow, IsAt
<1>11. /\ repos' \in [RepoIds -> RepositoryRow \cup {Absent}] /\ x.id \in RepoIds
       /\ repos'[x.id] = w /\ \A r \in RepoIds : r # x.id => repos'[r] = repos[r]
  BY <1>4, <1>9, <1>10 DEF TreeTyped, RepoRows
<1>12. /\ KeptApart' /\ asks'[c] = NoAsk /\ LocalAsks(c) /\ asks' \in [TreeClients -> AskRecord]
  BY <1>10, GoneApart
<1>13. TreeTyped'
  BY <1>10, <1>11, <1>12 DEF TreeTyped
<1>14. Rows' = Rows /\ RepoRows' = RepoRows /\ x.into \in Rows /\ Home(x.id)' = new
       /\ \A r \in RepoRows : r # x.id => repos'[r] = repos[r] /\ Home(r)' = Home(r)
  <2>1. Rows' = Rows /\ RepoRows' = RepoRows /\ x.into \in Rows
    BY <1>4, <1>9, <1>10, <1>11 DEF Rows, RepoRows, IsAt
  <2>2. Home(x.id)' = new
    BY <1>4, <1>6, <1>9, <1>10, <1>11 DEF Home, IsAt
  <2>3. \A r \in RepoRows : r # x.id => repos'[r] = repos[r] /\ Home(r)' = Home(r)
    BY <1>10, <1>11 DEF RepoRows, Home
  <2> QED BY <2>1, <2>2, <2>3
<1>15. ReposFit'
  <2>1. \A r \in RepoRows' : repos'[r].group \in Rows'
    BY <1>3, <1>9, <1>11, <1>14 DEF GroupRowsFit, ReposFit
  <2>2. \A q, r \in RepoRows' : repos'[q] = repos'[r] => q = r
    BY <1>3, <1>4, <1>8, <1>11, <1>14 DEF GroupRowsFit, ReposFit
  <2> QED BY <2>1, <2>2 DEF ReposFit
<1>16. DirsFit'
  BY <1>3, <1>10 DEF DirsFit
<1>17. Knows(asks[c])' /\ Placed(asks[c])'
  BY <1>12, NoAskIs DEF Knows, Placed
<1>18. {old, new} \in SUBSET (Path \X Slugs) /\ \A k \in {old, new} : Reg(asks[c], k[1])
  BY <1>1, <1>3, <1>5, <1>6, UnderOrder DEF Reg
<1>19. \A k : Excepted(asks[c], k) => k \in {old, new}
  BY <1>1, <1>5, <1>6 DEF Excepted, At2
<1>20. ReposAt({old, new}) /\ StoreAt({old, new})
  BY <1>7, <1>10, <1>11, <1>14 DEF ReposAt, StoreAt
<1>21. FitsAt({old, new}, asks'[c])
  <2>1. ASSUME NEW r \in RepoRows', Home(r)' = old PROVE FALSE
    <3>1. r # x.id /\ r \in RepoRows /\ Home(r) = Home(x.id)
      BY <1>7, <1>14, <2>1
    <3> QED BY <1>3, <1>4, <3>1, HomesDiffer
  <2>2. ASSUME NEW r \in RepoRows', Home(r)' = new PROVE r = x.id
    <3> SUFFICES ASSUME r # x.id PROVE FALSE
      OBVIOUS
    <3>1. r \in RepoRows /\ Home(r) = new
      BY <1>14, <2>2
    <3>2. repos[r] = [group |-> x.into, slug |-> x.slug]
      BY <1>3, <1>4, <1>6, <3>1, HomeAt
    <3> QED BY <1>4, <3>1, <3>2
  <2>3. DirHolds(new, x.id)'
    BY <1>7, <1>10 DEF DirHolds
  <2>4. x.id \in RepoRows' /\ Home(x.id)' = new /\ old \notin DOMAIN store'
    BY <1>4, <1>7, <1>10, <1>14
  <2> QED BY <2>1, <2>2, <2>3, <2>4 DEF FitsAt
<1> QED BY <1>10, <1>12, <1>13, <1>15, <1>16, <1>17, <1>18, <1>19, <1>20, <1>21, RepoStep

-----------------------------------------------------------------------------
LEMMA TreeInitially == TreeInit => TreeInv
<1> SUFFICES ASSUME TreeInit PROVE TreeTyped /\ Calm
  BY DEF TreeInv
<1>1. /\ groups = [g \in GroupIds |-> Absent] /\ repos = [r \in RepoIds |-> Absent]
      /\ dirs = {} /\ store = <<>> /\ asks = [c \in TreeClients |-> NoAsk]
  BY DEF TreeInit
<1>2. Rows = {} /\ RepoRows = {} /\ DOMAIN store = {}
  BY <1>1 DEF Rows, RepoRows
<1>3. TreeTyped
  BY <1>1, <1>2, NoAskIs DEF TreeTyped
<1>4. \A c \in TreeClients : asks[c] = NoAsk
  BY <1>1
<1>5. KeptApart /\ \A c \in TreeClients : Knows(asks[c]) /\ Placed(asks[c])
  BY <1>4, NoAskIs DEF KeptApart
<1>6. GroupsFit /\ ReposFit /\ DirsFit /\ StoreFits
  BY <1>2 DEF GroupsFit, ReposFit, DirsFit, StoreFits
<1> QED BY <1>3, <1>5, <1>6 DEF Calm

LEMMA TreeStepStays == TreeInv /\ [TreeNext]_treeVars => TreeInv'
<1> SUFFICES ASSUME TreeInv, [TreeNext]_treeVars, disturbed' = {} PROVE TreeTyped' /\ Calm'
  BY DEF TreeInv
<1>1. CASE UNCHANGED treeVars
  <2>1. groups' = groups /\ repos' = repos /\ dirs' = dirs /\ store' = store /\ asks' = asks /\ disturbed = {}
    BY <1>1 DEF treeVars
  <2>2. TreeTyped /\ KeptApart /\ GroupsFit /\ ReposFit /\ DirsFit /\ StoreFits
        /\ \A c \in TreeClients : Knows(asks[c]) /\ Placed(asks[c])
    BY <2>1 DEF TreeInv, Calm
  <2>3. Rows' = Rows /\ RepoRows' = RepoRows /\ (\A g, s : Joined(g, s)' = Joined(g, s)) /\ (\A r : Home(r)' = Home(r))
        /\ (\A k : Spared(k)' <=> Spared(k)) /\ \A k, r : DirHolds(k, r)' <=> DirHolds(k, r)
    BY <2>1 DEF Rows, RepoRows, Joined, Home, Spared, DirHolds
  <2>4. TreeTyped' /\ KeptApart'
    BY <2>1, <2>2 DEF TreeTyped, KeptApart
  <2>5. GroupsFit'
    BY <2>1, <2>2, <2>3 DEF GroupsFit
  <2>6. ReposFit' /\ DirsFit' /\ StoreFits'
    BY <2>1, <2>2, <2>3 DEF ReposFit, DirsFit, StoreFits
  <2>7. ASSUME NEW c \in TreeClients PROVE Knows(asks[c])' /\ Placed(asks[c])'
    <3>1. PICK x : x = asks[c]
      OBVIOUS
    <3>2. Knows(x)' /\ Placed(x) /\ asks'[c] = x
      BY <2>1, <2>2, <3>1, SameData DEF Data
    <3> QED BY <3>2 DEF Placed, Knows, KnowsGroup, KnowsRename, RenameStands, RenameMoved, KnowsDelete, KnowsRepo,
            KnowsUnrepo, KnowsTransfer, Target
  <2> QED BY <2>4, <2>5, <2>6, <2>7 DEF Calm
<1>2. CASE TreeNext
  <2>1. PICK c \in TreeClients :
          \/ AskGroup(c) \/ InsertGroup(c) \/ AskRename(c) \/ MoveGroupDir(c) \/ CommitRename(c)
          \/ AskDelete(c) \/ DeleteGroupRows(c) \/ RemoveGroupDir(c)
          \/ AskRepo(c) \/ InsertRepo(c) \/ InitRepoDir(c)
          \/ AskDeleteRepo(c) \/ DeleteRepoRow(c) \/ RemoveRepoDir(c)
          \/ AskTransfer(c) \/ TransferDir(c) \/ TransferRow(c) \/ AskDies(c)
    BY <1>2 DEF TreeNext
  <2>2. CASE AskGroup(c) \/ AskRename(c) \/ AskDelete(c) \/ AskRepo(c) \/ AskDeleteRepo(c) \/ AskTransfer(c)
    <3>1. disturbed = {}
      BY <2>2 DEF AskGroup, AskRename, AskDelete, AskRepo, AskDeleteRepo, AskTransfer, Ask
    <3> QED BY <2>2, <3>1, AskStays DEF TreeInv
  <2>3. CASE InsertGroup(c)
    BY <2>3, InsertGroupStays DEF TreeInv, InsertGroup
  <2>4. CASE MoveGroupDir(c)
    BY <2>4, MoveGroupDirStays DEF TreeInv, MoveGroupDir
  <2>5. CASE CommitRename(c)
    <3>1. disturbed = {}
      <4>1. disturbed' = disturbed \/ disturbed' = disturbed \cup {"clash"}
        BY <2>5 DEF CommitRename
      <4> QED BY <4>1
    <3> QED BY <2>5, <3>1, CommitRenameStays DEF TreeInv
  <2>6. CASE DeleteGroupRows(c)
    BY <2>6, DeleteGroupRowsStays DEF TreeInv, DeleteGroupRows
  <2>7. CASE RemoveGroupDir(c)
    BY <2>7, RemoveGroupDirStays DEF TreeInv, RemoveGroupDir
  <2>8. CASE InsertRepo(c)
    BY <2>8, InsertRepoStays DEF TreeInv, InsertRepo
  <2>9. CASE InitRepoDir(c)
    BY <2>9, InitRepoDirStays DEF TreeInv, InitRepoDir
  <2>10. CASE DeleteRepoRow(c)
    BY <2>10, DeleteRepoRowStays DEF TreeInv, DeleteRepoRow
  <2>11. CASE RemoveRepoDir(c)
    BY <2>11, RemoveRepoDirStays DEF TreeInv, RemoveRepoDir
  <2>12. CASE TransferDir(c)
    BY <2>12, TransferDirStays DEF TreeInv, TransferDir
  <2>13. CASE TransferRow(c)
    BY <2>13, TransferRowStays DEF TreeInv, TransferRow
  <2>14. CASE AskDies(c)
    BY <2>14 DEF AskDies
  <2> QED BY <2>1, <2>2, <2>3, <2>4, <2>5, <2>6, <2>7, <2>8, <2>9, <2>10, <2>11, <2>12, <2>13, <2>14
<1> QED BY <1>1, <1>2

(* A request at work on a directory has it busy. *)
LEMMA SparedBusy ==
  ASSUME TreeTyped, Calm, NEW k \in Path \X Slugs, Spared(k)
  PROVE  Busy(k[1])
<1>1. PICK c \in TreeClients : Excepted(asks[c], k)
  BY DEF Spared
<1>2. Reg(asks[c], k[1])
  BY <1>1, AskIs, ExceptedNear
<1>3. PICK q \in {asks[c].from, asks[c].to} : asks[c].op # "none" /\ q # <<>> /\ Under(q, k[1])
  BY <1>2 DEF Reg
<1>4. k[1] # <<>>
  <2> SUFFICES ASSUME k[1] = <<>> PROVE FALSE
    OBVIOUS
  <2>1. q \in Path /\ <<>> \in Path /\ Len(<<>>) = 0
    BY AskIs, EmptySeq DEF Path
  <2>2. Len(q) \in Nat /\ Len(q) <= 0
    BY <1>3, <2>1, UnderIs, PathLen
  <2>3. Len(q) = 0
    BY <2>2
  <2> QED BY <1>3, <2>1, <2>3, EmptySeq DEF Path
<1> QED BY <1>3, <1>4 DEF Busy, Near

(* Rows and directories agree wherever no request is at work (delete and   *)
(* rename of organizations, transfer of repositories: crates/api, crates/git).*)
THEOREM TreeStaysInStep == TreeSpec => []TreeAgrees
<1>1. TreeInit => TreeInv
  BY TreeInitially
<1>2. TreeInv /\ [TreeNext]_treeVars => TreeInv'
  BY TreeStepStays
<1>3. TreeInv => TreeAgrees
  <2> SUFFICES ASSUME TreeTyped, Calm
               PROVE  /\ \A g \in Rows : groups[g].path = Joined(groups[g].parent, groups[g].slug)
                      /\ \A r \in RepoRows : Busy(Home(r)[1]) \/ (Home(r) \in DOMAIN store /\ store[Home(r)] = r)
                      /\ \A k \in DOMAIN store : Busy(k[1]) \/ \E r \in RepoRows : Home(r) = k
    BY DEF TreeInv, TreeAgrees
  <2>1. GroupRowsFit /\ StoreFits
    BY DEF GroupRowsFit, Calm
  <2>2. \A r \in RepoRows : Home(r) \in Path \X Slugs
    BY <2>1, RepoFields DEF GroupRowsFit
  <2>3. DOMAIN store \subseteq Path \X Slugs
    BY DEF TreeTyped, Path
  <2>4. \A g \in Rows : groups[g].path = Joined(groups[g].parent, groups[g].slug)
    BY <2>1 DEF GroupRowsFit, GroupsFit
  <2>5. \A r \in RepoRows : Busy(Home(r)[1]) \/ (Home(r) \in DOMAIN store /\ store[Home(r)] = r)
    BY <2>1, <2>2, SparedBusy DEF StoreFits, DirHolds
  <2>6. \A k \in DOMAIN store : Busy(k[1]) \/ \E r \in RepoRows : Home(r) = k
    BY <2>1, <2>3, SparedBusy DEF StoreFits
  <2> QED BY <2>4, <2>5, <2>6
<1> QED BY <1>1, <1>2, <1>3, PTL DEF TreeSpec

-----------------------------------------------------------------------------
(* Types.  A directory's parents are there, and a repository's directory    *)
(* lies in one and holds a repository, as long as nothing is disturbed; the *)
(* step that disturbs changes neither rows nor directories.                 *)
DirsKept ==
  /\ \A p \in dirs : Parents(p) \subseteq dirs
  /\ \A k \in DOMAIN store : k[1] # <<>> /\ store[k] \in RepoIds

LEMMA ParentsClosed ==
  ASSUME NEW p \in Path, NEW q \in Parents(p)
  PROVE  q \in Path /\ Parents(q) \subseteq Parents(p)
<1>1. q \in Path /\ Under(q, p)
  BY ParentsAre
<1>2. ASSUME NEW z \in Parents(q) PROVE z \in Parents(p)
  <2>1. z \in Path /\ z # <<>> /\ Under(z, q)
    BY <1>1, <1>2, ParentsAre
  <2>2. Under(z, p)
    BY <1>1, <2>1, UnderOrder
  <2> QED BY <2>1, <2>2, ParentsAre
<1> QED BY <1>1, <1>2

LEMMA DirsAdded ==
  ASSUME TreeTyped, DirsKept, NEW p \in Path, dirs' = dirs \cup Parents(p)
  PROVE  \A q \in dirs' : Parents(q) \subseteq dirs'
BY ParentsClosed DEF DirsKept

LEMMA DirsMoved ==
  ASSUME TreeTyped, DirsKept, NEW from \in Path, NEW to \in Path, from # <<>>, MoveTree(from, to)
  PROVE  \A p \in dirs' : Parents(p) \subseteq dirs'
<1> DEFINE moved == {IF Under(from, p) THEN Moved(p, from, to) ELSE p : p \in dirs}
<1>1. dirs' = moved \cup (Parents(to) \ {to})
  BY DEF MoveTree
<1>2. dirs \subseteq Path
  BY DEF TreeTyped, Path
<1>3. \A p \in dirs : Under(from, p) => Moved(p, from, to) \in moved
  OBVIOUS
<1>4. \A p \in dirs : ~Under(from, p) => p \in moved
  OBVIOUS
<1>5. \A q \in moved : \E p \in dirs : IF Under(from, p) THEN q = Moved(p, from, to) ELSE q = p
  OBVIOUS
<1> HIDE DEF moved
<1> SUFFICES ASSUME NEW p \in dirs', NEW q \in Parents(p) PROVE q \in dirs'
  OBVIOUS
<1>6. ASSUME NEW h \in dirs, Under(from, h), p = Moved(h, from, to) PROVE q \in dirs'
  <2>1. h \in Path /\ p \in Path /\ Under(to, p)
    BY <1>2, <1>6, MovedUnder
  <2>2. q \in Path /\ q # <<>> /\ Under(q, p)
    BY <2>1, ParentsAre
  <2>3. CASE Under(to, q)
    <3>1. PICK b : b = Moved(q, to, from)
      OBVIOUS
    <3>2. b \in Path /\ Under(from, b) /\ Moved(b, from, to) = q
      BY <2>2, <2>3, <3>1, MovedUnder, MovedBack
    <3>3. Under(b, Moved(p, to, from))
      BY <2>1, <2>2, <2>3, <3>1, MovedKeeps
    <3>4. Moved(p, to, from) = h
      BY <1>6, <2>1, MovedBack
    <3>5. b # <<>>
      <4> SUFFICES ASSUME b = <<>> PROVE FALSE
        OBVIOUS
      <4>1. <<>> \in Path /\ Len(<<>>) = 0
        BY EmptySeq DEF Path
      <4>2. Len(from) \in Nat /\ Len(from) <= 0
        BY <3>2, <4>1, UnderIs, PathLen
      <4>3. Len(from) = 0
        BY <4>2
      <4> QED BY <4>3, EmptySeq DEF Path
    <3>6. b \in Parents(h)
      BY <2>1, <3>2, <3>3, <3>4, <3>5, ParentsAre
    <3>7. b \in dirs
      BY <3>6 DEF DirsKept
    <3> QED BY <1>1, <1>3, <3>2, <3>7
  <2>4. CASE ~Under(to, q)
    <3>1. Under(q, to) /\ q # to
      BY <2>1, <2>2, <2>4, UnderOrder
    <3> QED BY <1>1, <2>2, <3>1, ParentsAre
  <2> QED BY <2>3, <2>4
<1>7. ASSUME NEW h \in dirs, ~Under(from, h), p = h PROVE q \in dirs'
  <2>1. h \in Path /\ q \in Path /\ Under(q, h)
    BY <1>2, <1>7, ParentsAre
  <2>2. q \in dirs /\ ~Under(from, q)
    BY <1>7, <2>1, UnderOrder DEF DirsKept
  <2> QED BY <1>1, <1>4, <2>2
<1>8. ASSUME p \in Parents(to), p # to PROVE q \in dirs'
  <2>1. p \in Path /\ Under(p, to)
    BY <1>8, ParentsAre
  <2>2. q \in Path /\ Under(q, p)
    BY <2>1, ParentsAre
  <2>3. q \in Parents(to)
    BY <1>8, ParentsClosed
  <2>4. q # to
    BY <1>8, <2>1, <2>2, UnderOrder
  <2> QED BY <1>1, <2>3, <2>4
<1> QED BY <1>1, <1>5, <1>6, <1>7, <1>8

LEMMA NotTop ==
  ASSUME NEW p \in Path, NEW q \in Path, q # <<>>, Under(q, p)
  PROVE  p # <<>>
<1> SUFFICES ASSUME p = <<>> PROVE FALSE
  OBVIOUS
<1>1. <<>> \in Path /\ Len(<<>>) = 0
  BY EmptySeq DEF Path
<1>2. Len(q) \in Nat /\ Len(q) <= 0
  BY <1>1, UnderIs, PathLen
<1>3. Len(q) = 0
  BY <1>2
<1> QED BY <1>3, EmptySeq DEF Path

LEMMA MoveGroupDirKept ==
  ASSUME TreeTyped, Calm, DirsKept, NEW c \in TreeClients, MoveGroupDir(c)
  PROVE  DirsKept'
<1>1. PICK x \in AskRecord : x = asks[c] /\ x.op = "rename" /\ x.pc = "move"
  BY AskIs DEF MoveGroupDir, At
<1>2. x.from \in Path /\ x.from # <<>> /\ x.to \in Path /\ x.to # <<>> /\ GroupRowsFit /\ DirsFit /\ RenameStands(x)
  BY <1>1, AskIs DEF Placed, Knows, KnowsRename
<1>3. CASE ~(x.from \in dirs /\ x.to \notin dirs)
  <2>1. UNCHANGED <<dirs, store>>
    BY <1>1, <1>3 DEF MoveGroupDir
  <2> QED BY <2>1 DEF DirsKept
<1>4. CASE x.from \in dirs /\ x.to \notin dirs
  <2>1. MoveTree(x.from, x.to)
    BY <1>1, <1>4 DEF MoveGroupDir
  <2>2. ~Under(x.from, x.to) /\ ~Under(x.to, x.from)
    BY <1>2, Sideways DEF GroupRowsFit
  <2>3. \A h \in DOMAIN store : ~Under(x.to, h[1])
    BY <1>2, <1>4, NotThere
  <2>4. /\ \A h \in DOMAIN store : Under(x.from, h[1]) => store'[MovedKey(h, x.from, x.to)] = store[h]
        /\ \A h \in DOMAIN store : ~Under(x.from, h[1]) => store'[h] = store[h]
        /\ \A k \in DOMAIN store' :
             /\ k \in Path \X Slugs
             /\ \/ Under(x.to, k[1]) /\ \E h \in DOMAIN store : Under(x.from, h[1]) /\ k = MovedKey(h, x.from, x.to)
                \/ ~Under(x.from, k[1]) /\ k \in DOMAIN store
    BY <1>2, <2>1, <2>2, <2>3, StoreMoved
  <2>5. ASSUME NEW k \in DOMAIN store' PROVE k[1] # <<>> /\ store'[k] \in RepoIds
    <3>1. CASE k \in DOMAIN store /\ ~Under(x.from, k[1])
      BY <2>4, <3>1 DEF DirsKept
    <3>2. CASE Under(x.to, k[1]) /\ \E h \in DOMAIN store : Under(x.from, h[1]) /\ k = MovedKey(h, x.from, x.to)
      <4>1. store'[k] \in RepoIds
        BY <2>4, <3>2 DEF DirsKept
      <4>2. k[1] \in Path
        BY <2>4
      <4> QED BY <1>2, <3>2, <4>1, <4>2, NotTop
    <3> QED BY <2>4, <3>1, <3>2
  <2>6. \A p \in dirs' : Parents(p) \subseteq dirs'
    BY <1>2, <2>1, DirsMoved
  <2> QED BY <2>5, <2>6 DEF DirsKept
<1> QED BY <1>3, <1>4

(* A rename never puts its directory back: a sibling with the new slug has  *)
(* the new path.                                                            *)
LEMMA CommitRenameDirs ==
  ASSUME TreeTyped, Calm, NEW c \in TreeClients, CommitRename(c)
  PROVE  UNCHANGED <<dirs, store>>
<1>1. PICK x \in AskRecord : x = asks[c] /\ x.op = "rename" /\ x.pc = "commit"
  BY AskIs DEF CommitRename, At
<1>2. x.from \in Path /\ x.to \in Path /\ GroupRowsFit /\ RenameStands(x)
  BY <1>1, AskIs DEF Knows, KnowsRename
<1>3. x.id \in Rows /\ groups[x.id].path = x.from /\ x.to = Joined(groups[x.id].parent, x.slug)
  BY <1>2 DEF RenameStands, IsAt
<1>4. ~Under(x.from, x.to)
  BY <1>2, Sideways DEF GroupRowsFit
<1>5. PICK below : below = {h \in Rows : Under(x.from, groups[h].path)}
  OBVIOUS
<1>6. x.id \in below
  BY <1>2, <1>3, <1>5, UnderOrder
<1> DEFINE new(h) == Moved(groups[h].path, x.from, x.to)
           inUse == \E h \in below, o \in Rows \ below : groups[o].path = new(h)
           sibling == \E o \in Rows \ {x.id} :
                        x.id \in Rows /\ groups[o].parent = groups[x.id].parent /\ groups[o].slug = x.slug
<1>7. ASSUME sibling PROVE inUse
  <2>1. PICK o \in Rows \ {x.id} : groups[o].parent = groups[x.id].parent /\ groups[o].slug = x.slug
    BY <1>7
  <2>2. groups[o].path = x.to
    BY <1>2, <1>3, <2>1 DEF GroupRowsFit, GroupsFit
  <2>3. o \notin below
    BY <1>4, <1>5, <2>2
  <2>4. new(x.id) = x.to
    BY <1>2, <1>3, MovedRoot
  <2> QED BY <1>6, <2>2, <2>3, <2>4
<1>8. inUse \/ (~inUse /\ ~(x.id \notin Rows \/ sibling)) => UNCHANGED <<dirs, store>>
  BY <1>1, <1>5 DEF CommitRename
<1> QED BY <1>3, <1>7, <1>8

LEMMA RemoveGroupDirKept ==
  ASSUME TreeTyped, Calm, DirsKept, NEW c \in TreeClients, RemoveGroupDir(c)
  PROVE  DirsKept'
<1>1. PICK f \in Path : f = asks[c].from
  BY AskIs
<1>2. dirs' = {p \in dirs : ~Under(f, p)} /\ store' = [k \in {h \in DOMAIN store : ~Under(f, h[1])} |-> store[k]]
  BY <1>1 DEF RemoveGroupDir, Without
<1>3. \A k \in DOMAIN store' : k \in DOMAIN store /\ store'[k] = store[k]
  BY <1>2
<1>4. ASSUME NEW p \in dirs', NEW q \in Parents(p) PROVE q \in dirs'
  <2>1. p \in dirs /\ ~Under(f, p) /\ p \in Path
    BY <1>2 DEF TreeTyped, Path
  <2>2. q \in Path /\ Under(q, p) /\ q \in dirs
    BY <2>1, ParentsAre DEF DirsKept
  <2>3. ~Under(f, q)
    BY <2>1, <2>2, UnderOrder
  <2> QED BY <1>2, <2>2, <2>3
<1> QED BY <1>3, <1>4 DEF DirsKept

LEMMA InitRepoDirKept ==
  ASSUME TreeTyped, Calm, DirsKept, NEW c \in TreeClients, InitRepoDir(c)
  PROVE  DirsKept'
<1>1. PICK x \in AskRecord : x = asks[c] /\ x.op = "repo" /\ x.pc = "init"
  BY AskIs DEF InitRepoDir, At
<1>2. x.to \in Path /\ x.to # <<>> /\ x.id \in RepoIds /\ <<x.to, x.slug>> \notin DOMAIN store
  BY <1>1, AskIs DEF Knows, KnowsRepo, Placed, RepoRows
<1>3. PICK k : k = <<x.to, x.slug>>
  OBVIOUS
<1>4. /\ dirs' = dirs \cup Parents(x.to)
      /\ store' = [h \in DOMAIN store \cup {k} |-> IF h = k THEN x.id ELSE store[h]]
  BY <1>1, <1>2, <1>3 DEF InitRepoDir
<1>5. \A p \in dirs' : Parents(p) \subseteq dirs'
  BY <1>2, <1>4, DirsAdded
<1>6. \A h \in DOMAIN store' : h[1] # <<>> /\ store'[h] \in RepoIds
  BY <1>2, <1>3, <1>4 DEF DirsKept
<1> QED BY <1>5, <1>6 DEF DirsKept

LEMMA RemoveRepoDirKept ==
  ASSUME DirsKept, NEW c \in TreeClients, RemoveRepoDir(c)
  PROVE  DirsKept'
<1>1. PICK h : h = <<asks[c].from, asks[c].slug>>
  OBVIOUS
<1>2. dirs' = dirs /\ store' = [k \in DOMAIN store \ {h} |-> store[k]]
  BY <1>1 DEF RemoveRepoDir
<1>3. \A k \in DOMAIN store' : k \in DOMAIN store /\ store'[k] = store[k]
  BY <1>2
<1> QED BY <1>2, <1>3 DEF DirsKept

LEMMA TransferDirKept ==
  ASSUME TreeTyped, Calm, DirsKept, NEW c \in TreeClients, TransferDir(c)
  PROVE  DirsKept'
<1>1. PICK x \in AskRecord : x = asks[c] /\ x.op = "transfer" /\ x.pc = "move"
  BY AskIs DEF TransferDir, At
<1>2. x.to \in Path /\ x.to # <<>>
  BY <1>1, AskIs DEF Placed
<1>3. PICK old : old = <<x.from, x.slug>>
  OBVIOUS
<1>4. PICK new : new = <<x.to, x.slug>>
  OBVIOUS
<1>5. CASE ~(old \in DOMAIN store /\ new \notin DOMAIN store)
  <2>1. UNCHANGED <<dirs, store>>
    BY <1>1, <1>3, <1>4, <1>5 DEF TransferDir
  <2> QED BY <2>1 DEF DirsKept
<1>6. CASE old \in DOMAIN store /\ new \notin DOMAIN store
  <2>1. dirs' = dirs \cup Parents(x.to)
        /\ store' = [k \in (DOMAIN store \ {old}) \cup {new} |-> IF k = new THEN store[old] ELSE store[k]]
    BY <1>1, <1>3, <1>4, <1>6 DEF TransferDir, MoveRepoDir
  <2>2. \A p \in dirs' : Parents(p) \subseteq dirs'
    BY <1>2, <2>1, DirsAdded
  <2>3. \A k \in DOMAIN store' : k[1] # <<>> /\ store'[k] \in RepoIds
    BY <1>2, <1>4, <1>6, <2>1 DEF DirsKept
  <2> QED BY <2>2, <2>3 DEF DirsKept
<1> QED BY <1>5, <1>6

LEMMA TransferRowKept ==
  ASSUME TreeTyped, Calm, DirsKept, NEW c \in TreeClients, TransferRow(c)
  PROVE  DirsKept'
<1>1. PICK x \in AskRecord : x = asks[c] /\ x.op = "transfer" /\ x.pc = "commit"
  BY AskIs DEF TransferRow, At
<1>2. KnowsTransfer(x)
  BY <1>1, AskIs DEF Knows
<1>3. x.id \in RepoRows /\ x.into \in Rows /\ \A q \in RepoRows : repos[q] # [group |-> x.into, slug |-> x.slug]
  BY <1>2 DEF KnowsTransfer, IsAt
<1>4. UNCHANGED <<dirs, store>>
  BY <1>1, <1>3 DEF TransferRow
<1> QED BY <1>4 DEF DirsKept

(* The rows of groups and repositories as they fit, and the directories. *)
TreeKept ==
  /\ disturbed \subseteq {"overlap", "clash", "fault"} /\ DirsKept
  /\ \A g \in Rows : groups[g].parent \in Rows \cup {Root}
  /\ \A r \in RepoRows : repos[r].group \in Rows
  /\ \A k \in DOMAIN store : k[1] \in dirs

LEMMA TreeKeptSame ==
  ASSUME TreeKept, UNCHANGED Data, disturbed' \subseteq {"overlap", "clash", "fault"}
  PROVE  TreeKept'
<1>1. groups' = groups /\ repos' = repos /\ dirs' = dirs /\ store' = store
  BY DEF Data
<1>2. Rows' = Rows /\ RepoRows' = RepoRows
  BY <1>1 DEF Rows, RepoRows
<1> QED BY <1>1, <1>2 DEF TreeKept, DirsKept

LEMMA DirsKeptStep ==
  ASSUME TreeTyped, Calm, DirsKept, NEW c \in TreeClients,
         \/ InsertGroup(c) \/ MoveGroupDir(c) \/ CommitRename(c)
         \/ DeleteGroupRows(c) \/ RemoveGroupDir(c)
         \/ InsertRepo(c) \/ InitRepoDir(c)
         \/ DeleteRepoRow(c) \/ RemoveRepoDir(c)
         \/ TransferDir(c) \/ TransferRow(c)
  PROVE  DirsKept'
<1>1. CASE InsertGroup(c) \/ DeleteGroupRows(c) \/ InsertRepo(c) \/ DeleteRepoRow(c) \/ CommitRename(c)
  <2>1. UNCHANGED <<dirs, store>>
    BY <1>1, CommitRenameDirs DEF InsertGroup, DeleteGroupRows, InsertRepo, DeleteRepoRow
  <2> QED BY <2>1 DEF DirsKept
<1>2. CASE MoveGroupDir(c) \/ RemoveGroupDir(c)
  BY <1>2, MoveGroupDirKept, RemoveGroupDirKept
<1>3. CASE InitRepoDir(c) \/ RemoveRepoDir(c)
  BY <1>3, InitRepoDirKept, RemoveRepoDirKept
<1>4. CASE TransferDir(c) \/ TransferRow(c)
  BY <1>4, TransferDirKept, TransferRowKept
<1> QED BY <1>1, <1>2, <1>3, <1>4

LEMMA TreeKeptStep ==
  ASSUME TreeInv, disturbed = {}, TreeKept, TreeNext
  PROVE  TreeKept'
<1>1. TreeTyped /\ Calm /\ DirsKept
  BY DEF TreeInv, TreeKept
<1>2. PICK c \in TreeClients :
        \/ AskGroup(c) \/ InsertGroup(c) \/ AskRename(c) \/ MoveGroupDir(c) \/ CommitRename(c)
        \/ AskDelete(c) \/ DeleteGroupRows(c) \/ RemoveGroupDir(c)
        \/ AskRepo(c) \/ InsertRepo(c) \/ InitRepoDir(c)
        \/ AskDeleteRepo(c) \/ DeleteRepoRow(c) \/ RemoveRepoDir(c)
        \/ AskTransfer(c) \/ TransferDir(c) \/ TransferRow(c) \/ AskDies(c)
  BY DEF TreeNext
<1>3. CASE AskGroup(c) \/ AskRename(c) \/ AskDelete(c) \/ AskRepo(c) \/ AskDeleteRepo(c) \/ AskTransfer(c) \/ AskDies(c)
  <2>1. UNCHANGED Data /\ disturbed' \subseteq {"overlap", "clash", "fault"}
    BY <1>3 DEF AskGroup, AskRename, AskDelete, AskRepo, AskDeleteRepo, AskTransfer, Ask, AskDies, Data
  <2> QED BY <2>1, TreeKeptSame
<1>4. CASE CommitRename(c) /\ disturbed' # {}
  <2>1. UNCHANGED groups /\ UNCHANGED repos /\ disturbed' = {"clash"}
    BY <1>4 DEF CommitRename
  <2>2. UNCHANGED Data
    BY <1>1, <1>4, <2>1, CommitRenameDirs DEF Data
  <2> QED BY <2>1, <2>2, TreeKeptSame
<1>5. CASE \/ InsertGroup(c) \/ MoveGroupDir(c) \/ (CommitRename(c) /\ disturbed' = {})
           \/ DeleteGroupRows(c) \/ RemoveGroupDir(c)
           \/ InsertRepo(c) \/ InitRepoDir(c)
           \/ DeleteRepoRow(c) \/ RemoveRepoDir(c)
           \/ TransferDir(c) \/ TransferRow(c)
  <2>1. disturbed' = {}
    BY <1>5 DEF InsertGroup, MoveGroupDir, DeleteGroupRows, RemoveGroupDir, InsertRepo, InitRepoDir,
                DeleteRepoRow, RemoveRepoDir, TransferDir, TransferRow
  <2>2. TreeTyped' /\ GroupsFit' /\ ReposFit' /\ DirsFit'
    BY <2>1, TreeStepStays DEF TreeInv, Calm
  <2>3. DirsKept'
    BY <1>1, <1>5, DirsKeptStep
  <2>4. ASSUME NEW k \in DOMAIN store' PROVE k[1] \in dirs'
    <3>1. k[1] \in Path /\ k[1] # <<>>
      BY <2>2, <2>3 DEF TreeTyped, DirsKept, Path
    <3>2. k[1] \in Parents(k[1])
      BY <3>1, ParentsAre, UnderOrder
    <3> QED BY <2>2, <3>2 DEF DirsFit
  <2> QED BY <2>1, <2>2, <2>3, <2>4 DEF TreeKept, GroupsFit, ReposFit
<1> QED BY <1>2, <1>3, <1>4, <1>5

LEMMA TreeKeptInitially == TreeInit => TreeKept
<1> SUFFICES ASSUME TreeInit PROVE TreeKept
  OBVIOUS
<1>1. /\ groups = [g \in GroupIds |-> Absent] /\ repos = [r \in RepoIds |-> Absent]
      /\ dirs = {} /\ store = <<>> /\ disturbed = {}
  BY DEF TreeInit
<1>2. Rows = {} /\ RepoRows = {} /\ DOMAIN store = {}
  BY <1>1 DEF Rows, RepoRows
<1> QED BY <1>1, <1>2 DEF TreeKept, DirsKept

LEMMA TreeFitsType == TreeKept => TreeTypeOK
BY DEF TreeKept, DirsKept, TreeTypeOK

-----------------------------------------------------------------------------
(* The services side by side: what each of them keeps, whichever one a      *)
(* behaviour explores.                                                      *)
ServicesInv ==
  /\ ImportInv /\ Balanced /\ Numbered
  /\ TreeInv /\ TreeKept
  /\ MemberInv /\ PolicyInv
  /\ AccountsInv /\ KubeInv /\ BackupInv /\ JobInv
  /\ SearchInv /\ IndexNames

LEMMA ServicesInitially == ServicesInit => ServicesInv
BY ImportInitially, CountsInitially, TreeInitially, TreeKeptInitially, MemberInitially, PolicyInitially,
   AccountsInitially, KubeInitially, BackupInitially, JobInitially, SearchInitially, IndexNamesInitially
   DEF ServicesInit, ServicesInv

(* A step of one service is none of the others. *)
LEMMA ServicesStepParts ==
  ASSUME [ServicesNext]_servicesVars
  PROVE  /\ [ImportNext]_importVars /\ [MemberNext]_memberVars /\ [AccountsNext]_accountVars
         /\ [KubeNext]_kubeVars /\ [BackupNext]_backupVars /\ [SearchNext]_searchVars /\ [JobNext]_jobVars
         /\ (disturbed = {} /\ TreeNext) \/ UNCHANGED treeVars
BY DEF ServicesNext, servicesVars, Only, InImport, InTree, InMembers, InAccounts, InKube, InBackup, InSearch,
       InJob, ImportPart, TreePart, MemberPart, AccountPart, KubePart, BackupPart, SearchPart, JobPart

LEMMA ServicesStep == ServicesInv /\ [ServicesNext]_servicesVars => ServicesInv'
<1> SUFFICES ASSUME ServicesInv, [ServicesNext]_servicesVars PROVE ServicesInv'
  OBVIOUS
<1>1. ImportInv' /\ Balanced' /\ Numbered'
  BY ServicesStepParts, ImportSteps, BalancedStep, NumberedStep DEF ServicesInv
<1>2. TreeInv'
  BY ServicesStepParts, TreeStepStays DEF ServicesInv
<1>3. TreeKept'
  <2>1. CASE UNCHANGED treeVars
    <3>1. UNCHANGED Data /\ disturbed' = disturbed
      BY <2>1 DEF treeVars, Data
    <3>2. disturbed \subseteq {"overlap", "clash", "fault"}
      BY DEF ServicesInv, TreeKept
    <3> QED BY <3>1, <3>2, TreeKeptSame DEF ServicesInv
  <2>2. CASE disturbed = {} /\ TreeNext
    BY <2>2, TreeKeptStep DEF ServicesInv
  <2> QED BY <2>1, <2>2, ServicesStepParts
<1>4. MemberInv' /\ PolicyInv'
  <2>1. MemberTyped
    BY DEF ServicesInv, MemberInv
  <2> QED BY <2>1, ServicesStepParts, MemberStep, PolicyStep DEF ServicesInv
<1>5. AccountsInv' /\ KubeInv' /\ BackupInv' /\ JobInv'
  BY ServicesStepParts, AccountsStep, KubeStepKeepsInv, BackupStep, JobStep DEF ServicesInv
<1>6. SearchInv' /\ IndexNames'
  BY ServicesStepParts, SearchStep, IndexNamesStep DEF ServicesInv
<1> QED BY <1>1, <1>2, <1>3, <1>4, <1>5, <1>6 DEF ServicesInv

(* The rows, directories, requests and counters of every service hold       *)
(* values of their types, foreign keys and ranges among them, for every     *)
(* choice of the constants and whichever service a behaviour explores (the  *)
(* tree of groups until something disturbs it).                             *)
THEOREM ServicesTyped == ServicesSpec => []ServicesTypeOK
<1>1. ServicesInv => ServicesTypeOK
  BY ImportFitsType, TreeFitsType, MemberFitsType, AccountsFitType, KubeFitsType, BackupFitsType,
     JobFitsType, SearchFits DEF ServicesInv, ServicesTypeOK
<1> QED BY <1>1, ServicesInitially, ServicesStep, PTL DEF ServicesSpec
=============================================================================
