----------------------------- MODULE GroupTree -----------------------------
(* Groups and repositories: rows in the database and directories under the *)
(* repositories' root, which no transaction covers together.  A group is   *)
(* created, renamed and deleted, a repository created, moved to another    *)
(* group and deleted by requests whose steps interleave; a request that    *)
(* stops midway leaves what it has done.                                   *)
EXTENDS Naturals, Sequences, SequencesExt

CONSTANTS GroupIds, RepoIds, Slugs,
          Root,            \* the parent of the top groups
          Absent,          \* no row
          TreeClients,
          MaxTreeFaults    \* bound: requests that stop midway

OrganizationRow == [parent : GroupIds \cup {Root}, slug : Slugs, path : Seq(Slugs)]
RepositoryRow == [group : GroupIds, slug : Slugs]
ASSUME TreeAssumption == /\ Root \notin GroupIds /\ Absent \notin GroupIds \cup RepoIds
                         /\ Absent \notin OrganizationRow /\ Absent \notin RepositoryRow
                         /\ MaxTreeFaults \in Nat

VARIABLES
  groups,      \* organizations: parent, slug and full_path of every group
  repos,       \* repositories: the group and slug of every repository
  dirs,        \* directories of groups that exist
  store,       \* repository directories, <<path of the group, slug>>, and what they hold
  asks,        \* the request of every client
  disturbed    \* history: what happened to keep rows and directories apart

treeVars == <<groups, repos, dirs, store, asks, disturbed>>

NoAsk == [op |-> "none", pc |-> "done", id |-> Absent, from |-> <<>>, to |-> <<>>, slug |-> Absent,
          into |-> Absent, moved |-> FALSE]
Rows == {g \in GroupIds : groups[g] # Absent}
RepoRows == {r \in RepoIds : repos[r] # Absent}

(* join_org_path; group_storage_dir has the same segments. *)
Joined(g, s) == Append(IF g = Root THEN <<>> ELSE groups[g].path, s)
Under(p, q) == IsPrefix(p, q)
Home(r) == <<groups[repos[r].group].path, repos[r].slug>>    \* repo_disk_path
Parents(p) == {SubSeq(p, 1, n) : n \in 1..Len(p)}
Moved(p, from, to) == to \o SubSeq(p, Len(from) + 1, Len(p))

(* Two requests are in each other's way when one touches a path at or above *)
(* one the other touches.                                                  *)
Near(p, q) == p # <<>> /\ q # <<>> /\ (Under(p, q) \/ Under(q, p))
Paths(a) == {a[k] : k \in DOMAIN a \cap {"from", "to"}}
Clashes(c, a) ==
  \E d \in TreeClients \ {c} : asks[d].op # "none" /\ \E p \in Paths(a), q \in Paths(asks[d]) : Near(p, q)
Ask(c, a) == /\ asks[c].op = "none"
             /\ asks' = [asks EXCEPT ![c] = [k \in DOMAIN NoAsk |-> IF k \in DOMAIN a THEN a[k] ELSE NoAsk[k]]]
             /\ disturbed' = IF Clashes(c, a) THEN disturbed \cup {"overlap"} ELSE disturbed
             /\ UNCHANGED <<groups, repos, dirs, store>>
At(c, op, pc) == asks[c].op = op /\ asks[c].pc = pc
To(c, pc) == asks' = [asks EXCEPT ![c].pc = pc]
Done(c) == asks' = [asks EXCEPT ![c] = NoAsk]
Free(ids, rows) == ids \ rows

TreeInit ==
  /\ groups = [g \in GroupIds |-> Absent] /\ repos = [r \in RepoIds |-> Absent]
  /\ dirs = {} /\ store = <<>>
  /\ asks = [c \in TreeClients |-> NoAsk] /\ disturbed = {}

---------------------------------------------------------------------------
(* create_organization: the parent is found and its path read; full_path   *)
(* and the slug under a parent are unique.                                 *)
AskGroup(c) ==
  \E p \in Rows \cup {Root}, s \in Slugs :
    Ask(c, [op |-> "group", pc |-> "insert", id |-> p, slug |-> s, to |-> Joined(p, s)])

InsertGroup(c) ==
  /\ At(c, "group", "insert")
  /\ LET a == asks[c]
         taken == \E h \in Rows : groups[h].path = a.to \/ (groups[h].parent = a.id /\ groups[h].slug = a.slug)
     IN IF taken \/ a.id \notin Rows \cup {Root} THEN UNCHANGED groups
        ELSE \E g \in Free(GroupIds, Rows) :
               groups' = [groups EXCEPT ![g] = [parent |-> a.id, slug |-> a.slug, path |-> a.to]]
  /\ Done(c) /\ UNCHANGED <<repos, dirs, store, disturbed>>

---------------------------------------------------------------------------
(* update_organization with another slug *)
AskRename(c) ==
  \E g \in Rows, s \in Slugs :
    /\ Joined(groups[g].parent, s) # groups[g].path
    /\ Ask(c, [op |-> "rename", pc |-> "move", id |-> g, slug |-> s,
               from |-> groups[g].path, to |-> Joined(groups[g].parent, s)])

MoveTree(from, to) ==
  /\ dirs' = {IF Under(from, p) THEN Moved(p, from, to) ELSE p : p \in dirs}
             \cup (Parents(to) \ {to})
  /\ store' = [k \in {IF Under(from, h[1]) THEN <<Moved(h[1], from, to), h[2]>> ELSE h : h \in DOMAIN store} |->
                 IF Under(to, k[1]) THEN store[<<Moved(k[1], to, from), k[2]>>] ELSE store[k]]

MoveGroupDir(c) ==
  /\ At(c, "rename", "move")
  /\ LET a == asks[c] IN
     CASE a.from \in dirs /\ a.to \in dirs -> Done(c) /\ UNCHANGED <<dirs, store>>
       [] a.from \in dirs /\ a.to \notin dirs ->
            MoveTree(a.from, a.to) /\ asks' = [asks EXCEPT ![c].pc = "commit", ![c].moved = TRUE]
       [] OTHER -> To(c, "commit") /\ UNCHANGED <<dirs, store>>
  /\ UNCHANGED <<groups, repos, disturbed>>

(* mutant: the rows of the groups below keep their path *)
CommitRenameSelf(c) ==
  /\ At(c, "rename", "commit")
  /\ LET a == asks[c] IN
     groups' = [groups EXCEPT ![a.id] = IF @ = Absent THEN @ ELSE [@ EXCEPT !.path = a.to, !.slug = a.slug]]
  /\ Done(c) /\ UNCHANGED <<repos, dirs, store, disturbed>>

(* The rows below follow by their old path.  A path that is taken fails the *)
(* first statement, which does not move the directory back; a row that is  *)
(* gone fails the second, which does.                                      *)
CommitRename(c) ==
  /\ At(c, "rename", "commit")
  /\ LET a == asks[c]
         below == {h \in Rows : Under(a.from, groups[h].path)}
         new(h) == Moved(groups[h].path, a.from, a.to)
         taken == \E h \in below, o \in Rows \ below : groups[o].path = new(h)
         sibling == \E o \in Rows \ {a.id} :
                      /\ a.id \in Rows /\ groups[o].parent = groups[a.id].parent /\ groups[o].slug = a.slug
     IN CASE taken -> /\ disturbed' = IF a.moved THEN disturbed \cup {"clash"} ELSE disturbed
                      /\ UNCHANGED <<groups, dirs, store>>
          [] ~taken /\ (a.id \notin Rows \/ sibling) ->
               /\ IF a.moved /\ a.to \in dirs /\ a.from \notin dirs
                  THEN MoveTree(a.to, a.from) ELSE UNCHANGED <<dirs, store>>
               /\ UNCHANGED <<groups, disturbed>>
          [] OTHER ->
               /\ groups' = [h \in GroupIds |->
                    LET row == IF h \in below THEN [groups[h] EXCEPT !.path = new(h)] ELSE groups[h]
                    IN IF h = a.id THEN [row EXCEPT !.slug = a.slug] ELSE row]
               /\ UNCHANGED <<dirs, store, disturbed>>
  /\ Done(c) /\ UNCHANGED repos

---------------------------------------------------------------------------
(* delete_organization: without cascade only an empty group, as counted    *)
(* before the rows go.                                                     *)
AskDelete(c) ==
  \E g \in Rows, cascade \in BOOLEAN :
    /\ cascade \/ (/\ \A h \in Rows : groups[h].parent # g
                   /\ \A r \in RepoRows : repos[r].group # g)
    /\ Ask(c, [op |-> "delete", pc |-> "rows", id |-> g, from |-> groups[g].path])

(* ON DELETE CASCADE: a group's rows go with all that is below it. *)
Cascade(g) == {h \in Rows \cup {g} : \A S \in SUBSET (Rows \cup {g}) :
                 g \in S /\ (\A x \in Rows : groups[x].parent \in S => x \in S) => h \in S}
DeleteGroupRows(c) ==
  /\ At(c, "delete", "rows")
  /\ LET gone == Cascade(asks[c].id) IN
     /\ groups' = [g \in GroupIds |-> IF g \in gone THEN Absent ELSE groups[g]]
     /\ repos' = [r \in RepoIds |-> IF r \in RepoRows /\ repos[r].group \in gone THEN Absent ELSE repos[r]]
  /\ To(c, "dir") /\ UNCHANGED <<dirs, store, disturbed>>

Without(p) == [k \in {h \in DOMAIN store : ~Under(p, h[1])} |-> store[k]]
RemoveGroupDir(c) ==
  /\ At(c, "delete", "dir")
  /\ dirs' = {p \in dirs : ~Under(asks[c].from, p)} /\ store' = Without(asks[c].from)
  /\ Done(c) /\ UNCHANGED <<groups, repos, disturbed>>

---------------------------------------------------------------------------
(* create_repository: the directory is made at the path of the request,    *)
(* and one that is there is taken as it is (init_bare_repo).               *)
AskRepo(c) ==
  \E g \in Rows, s \in Slugs :
    Ask(c, [op |-> "repo", pc |-> "insert", into |-> g, slug |-> s, to |-> groups[g].path])

InsertRepo(c) ==
  /\ At(c, "repo", "insert")
  /\ LET a == asks[c]
         taken == \E r \in RepoRows : repos[r] = [group |-> a.into, slug |-> a.slug]
     IN IF taken \/ a.into \notin Rows THEN Done(c) /\ UNCHANGED repos
        ELSE \E r \in Free(RepoIds, RepoRows) :
               /\ repos' = [repos EXCEPT ![r] = [group |-> a.into, slug |-> a.slug]]
               /\ asks' = [asks EXCEPT ![c].pc = "init", ![c].id = r]
  /\ UNCHANGED <<groups, dirs, store, disturbed>>

InitRepoDir(c) ==
  /\ At(c, "repo", "init")
  /\ LET k == <<asks[c].to, asks[c].slug>> IN
     IF k \in DOMAIN store THEN UNCHANGED <<dirs, store>>
     ELSE /\ dirs' = dirs \cup Parents(asks[c].to)
          /\ store' = [h \in DOMAIN store \cup {k} |-> IF h = k THEN asks[c].id ELSE store[h]]
  /\ Done(c) /\ UNCHANGED <<groups, repos, disturbed>>

(* delete_repository *)
AskDeleteRepo(c) ==
  \E r \in RepoRows : Ask(c, [op |-> "unrepo", pc |-> "row", id |-> r, from |-> Home(r)[1], slug |-> Home(r)[2]])

DeleteRepoRow(c) ==
  /\ At(c, "unrepo", "row")
  /\ repos' = [repos EXCEPT ![asks[c].id] = Absent]
  /\ To(c, "dir") /\ UNCHANGED <<groups, dirs, store, disturbed>>

RemoveRepoDir(c) ==
  /\ At(c, "unrepo", "dir")
  /\ store' = [k \in DOMAIN store \ {<<asks[c].from, asks[c].slug>>} |-> store[k]]
  /\ Done(c) /\ UNCHANGED <<groups, repos, dirs, disturbed>>

(* transfer_repository *)
AskTransfer(c) ==
  \E r \in RepoRows, g \in Rows :
    /\ g # repos[r].group
    /\ ~\E q \in RepoRows : repos[q] = [group |-> g, slug |-> repos[r].slug]
    /\ Ask(c, [op |-> "transfer", pc |-> "move", id |-> r, into |-> g, slug |-> repos[r].slug,
               from |-> Home(r)[1], to |-> groups[g].path])

MoveRepoDir(from, to) ==
  store' = [k \in (DOMAIN store \ {from}) \cup {to} |-> IF k = to THEN store[from] ELSE store[k]]

TransferDir(c) ==
  /\ At(c, "transfer", "move")
  /\ LET a == asks[c]  old == <<a.from, a.slug>>  new == <<a.to, a.slug>> IN
     CASE new \in DOMAIN store -> Done(c) /\ UNCHANGED <<dirs, store>>
       [] old \in DOMAIN store /\ new \notin DOMAIN store ->
            MoveRepoDir(old, new) /\ dirs' = dirs \cup Parents(a.to) /\ To(c, "commit")
       [] OTHER -> To(c, "commit") /\ UNCHANGED <<dirs, store>>
  /\ UNCHANGED <<groups, repos, disturbed>>

(* A repository or group that is gone, or a slug that is taken, fails the  *)
(* update, and the directory goes back.                                    *)
TransferRow(c) ==
  /\ At(c, "transfer", "commit")
  /\ LET a == asks[c]  old == <<a.from, a.slug>>  new == <<a.to, a.slug>>
         row == [group |-> a.into, slug |-> a.slug]
     IN IF a.id \in RepoRows /\ a.into \in Rows /\ ~\E q \in RepoRows \ {a.id} : repos[q] = row
        THEN repos' = [repos EXCEPT ![a.id] = row] /\ UNCHANGED <<dirs, store>>
        ELSE /\ IF new \in DOMAIN store /\ old \notin DOMAIN store
                THEN MoveRepoDir(new, old) /\ dirs' = dirs \cup Parents(a.from)
                ELSE UNCHANGED <<dirs, store>>
             /\ UNCHANGED repos
  /\ Done(c) /\ UNCHANGED <<groups, disturbed>>

---------------------------------------------------------------------------
(* The process stops, or a query or a file operation fails. *)
AskDies(c) ==
  /\ asks[c].op # "none" /\ "fault" \notin disturbed /\ MaxTreeFaults > 0
  /\ disturbed' = disturbed \cup {"fault"}
  /\ Done(c) /\ UNCHANGED <<groups, repos, dirs, store>>

TreeNext == \E c \in TreeClients :
  \/ AskGroup(c) \/ InsertGroup(c) \/ AskRename(c) \/ MoveGroupDir(c) \/ CommitRename(c)
  \/ AskDelete(c) \/ DeleteGroupRows(c) \/ RemoveGroupDir(c)
  \/ AskRepo(c) \/ InsertRepo(c) \/ InitRepoDir(c)
  \/ AskDeleteRepo(c) \/ DeleteRepoRow(c) \/ RemoveRepoDir(c)
  \/ AskTransfer(c) \/ TransferDir(c) \/ TransferRow(c) \/ AskDies(c)
TreeSpec == TreeInit /\ [][TreeNext]_treeVars

---------------------------------------------------------------------------
TreeTypeOK ==
  /\ \A g \in Rows : groups[g].parent \in Rows \cup {Root}     \* the foreign keys
  /\ \A r \in RepoRows : repos[r].group \in Rows
  /\ \A p \in dirs : Parents(p) \subseteq dirs
  /\ \A k \in DOMAIN store : k[1] \in dirs /\ store[k] \in RepoIds
  /\ disturbed \subseteq {"overlap", "clash", "fault"}

Busy(p) == \E c \in TreeClients : asks[c].op # "none" /\ (Near(asks[c].from, p) \/ Near(asks[c].to, p))

(* Rows and directories agree wherever nobody is at work, as long as no two *)
(* requests were at work on one part of the tree, none stopped midway and  *)
(* no group was renamed to the path of another: a group's path is its      *)
(* parent's and its slug, every repository's directory holds it and no     *)
(* other, and no directory is left without a row.                          *)
TreeAgrees ==
  disturbed = {} =>
    /\ \A g \in Rows : groups[g].path = Joined(groups[g].parent, groups[g].slug)
    /\ \A r \in RepoRows : Busy(Home(r)[1]) \/ (Home(r) \in DOMAIN store /\ store[Home(r)] = r)
    /\ \A k \in DOMAIN store : Busy(k[1]) \/ \E r \in RepoRows : Home(r) = k
===========================================================================
