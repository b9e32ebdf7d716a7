----------------------------- MODULE Membership -----------------------------
(* Who may do what: memberships of groups, which groups below inherit,     *)
(* custom roles, teams, direct permissions on a repository, and the rules  *)
(* that read them.  The rules exist several times, as a function of the git*)
(* crate and as the filters of the listings and of the search.             *)
EXTENDS Naturals, FiniteSets

CONSTANTS People, Groups,
          ParentGroup,     \* the group above, or NoGroup
          NoGroup,
          Teams, TeamGroup,
          CustomRoles, CustomGroup,
          RoleRows,        \* the rows of custom roles: grants and default_repo_access
          MemberClients,
          MaxMemberAsks,   \* bound: requests
          MaxSyncs,        \* bound: LDAP logins that change a role, deletions of a user
          Nil              \* no row

OrgRoles == {"member", "admin", "owner"}
MemberRows == [role : OrgRoles, custom : CustomRoles \cup {Nil}]
ASSUME MembershipAssumption ==
  /\ ParentGroup \in [Groups -> Groups \cup {NoGroup}] /\ NoGroup \notin Groups
  /\ TeamGroup \in [Teams -> Groups] /\ CustomGroup \in [CustomRoles -> Groups]
  /\ {MaxMemberAsks, MaxSyncs} \subseteq Nat
  /\ Nil \notin MemberRows
(* parent_id is a group that was there before: the groups are trees.       *)
ASSUME GroupsAreTrees ==
  /\ IsFiniteSet(Groups)
  /\ \E depth \in [Groups -> 0..Cardinality(Groups)] :
       \A g \in Groups : ParentGroup[g] # NoGroup => depth[ParentGroup[g]] < depth[g]

VARIABLES
  member,     \* organization_members: role and custom role of a user in a group
  custom,     \* organization_custom_roles: grants and default_repo_access
  team,       \* teams: members and the role on the repository
  direct,     \* repository_permissions
  home,       \* the group of the repository
  public,     \* its visibility
  visit,      \* the request of every client
  owned,      \* history: groups that had an owner
  raced,      \* history: groups where two role changes overlapped, or a sync took a role
  memberAsks, syncs

memberVars == <<member, custom, team, direct, home, public, visit, owned, raced, memberAsks, syncs>>
policy == <<custom, team, direct, home, public>>

RepoRoles == {"read", "write", "admin"}
NoVisit == [op |-> "none", group |-> Nil, user |-> Nil, role |-> Nil, extra |-> Nil]

Ancestors[g \in Groups] == {g} \cup IF ParentGroup[g] = NoGroup THEN {} ELSE Ancestors[ParentGroup[g]]
IsRow(g, u) == member[g][u] # Nil
Rank(role) == CASE role = "read" -> 1 [] role = "write" -> 2 [] role = "admin" -> 3 [] OTHER -> 0
CustomOf(g, u) == IF member[g][u].custom = Nil THEN Nil ELSE custom[member[g][u].custom]
Inherited(g, u) == {a \in Ancestors[g] : IsRow(a, u)}
IsMember(g, u) == Inherited(g, u) # {}                             \* is_org_member
Holds(g, u, roles) == \E a \in Inherited(g, u) : member[a][u].role \in roles

(* org_member_has_permission *)
HasGrant(g, u, grant) ==
  Holds(g, u, {"owner", "admin"})
  \/ \E a \in Inherited(g, u) : CustomOf(a, u) # Nil /\ grant \in CustomOf(a, u).grants

(* effective_repo_role: the strongest of these *)
EffectiveRole(u) ==
  LET ours == {t \in Teams : team[t] # Nil /\ TeamGroup[t] = home /\ u \in team[t].members}
      rows == Inherited(home, u)
  IN {direct[u]} \cup {team[t].access : t \in ours}
     \cup {IF member[a][u].role \in {"owner", "admin"} THEN "write" ELSE "read" : a \in rows}
     \cup {CustomOf(a, u).default : a \in {b \in rows : CustomOf(b, u) # Nil}}
CanWrite(u) == \E r \in EffectiveRole(u) : Rank(r) >= 2
CanRead(u) == public \/ \E r \in EffectiveRole(u) : Rank(r) >= 1

(* can_admin_repo; a team counts whatever group it is of *)
CanAdmin(u) ==
  \/ direct[u] = "admin"
  \/ \E t \in Teams : team[t] # Nil /\ u \in team[t].members /\ team[t].access = "admin"
  \/ Holds(home, u, {"owner", "admin"})
  \/ \E a \in Inherited(home, u) : CustomOf(a, u) # Nil /\ CustomOf(a, u).default = "admin"

(* The listings: groups, subgroups, the repositories of a group and below  *)
(* it, the dashboard's and the search's repositories.                      *)
GroupListed(g, u) == IsMember(g, u) \/ (public /\ home = g)
Browsable(g, u) == IsMember(g, u) \/ (g \in Ancestors[home] /\ (public \/ direct[u] # Nil))
SubgroupListed(p, g, u) == ParentGroup[g] = p /\ Browsable(p, u) /\ (IsMember(p, u) \/ Browsable(g, u))
RepoListed(g, u) == g \in Ancestors[home] /\ Browsable(g, u) /\ (IsMember(g, u) \/ public)
Accessible(u) == public \/ IsRow(home, u) \/ direct[u] # Nil
Searchable(u) == Accessible(u)

(* ensure_can_manage_org: a row of the group itself is needed *)
Manages(g, u) == IsRow(g, u) /\ (member[g][u].role \in {"owner", "admin"} \/ HasGrant(g, u, "members"))
OtherOwner(g, u) == \E v \in People \ {u} : IsRow(g, v) /\ member[g][v].role = "owner"
Owners(g) == {u \in People : IsRow(g, u) /\ member[g][u].role = "owner"}
Customs(g) == {c \in CustomRoles : custom[c] # Nil /\ CustomGroup[c] = g} \cup {Nil}

---------------------------------------------------------------------------
Changing(g) == \E c \in MemberClients : visit[c].op \in {"set", "remove"} /\ visit[c].group = g
Opens(c, v) ==
  /\ visit[c].op = "none" /\ memberAsks < MaxMemberAsks /\ memberAsks' = memberAsks + 1
  /\ visit' = [visit EXCEPT ![c] = v]
  /\ raced' = IF Changing(v.group) THEN raced \cup {v.group} ELSE raced
  /\ UNCHANGED <<member, policy, owned, syncs>>
Closes(c) == visit' = [visit EXCEPT ![c] = NoVisit] /\ UNCHANGED <<policy, memberAsks, syncs, raced>>
Write(m) == member' = m /\ owned' = owned \cup {g \in Groups : \E u \in People : m[g][u] # Nil /\ m[g][u].role = "owner"}

MayTouch(g, actor, target, role) ==
  /\ Manages(g, actor)
  /\ "owner" \in {target, role} => member[g][actor].role = "owner"

(* add_organization_member *)
AddMember(g, actor, u) == \E role \in OrgRoles, x \in Customs(g) :
  /\ memberAsks < MaxMemberAsks /\ memberAsks' = memberAsks + 1
  /\ MayTouch(g, actor, Nil, role) /\ ~IsRow(g, u)
  /\ Write([member EXCEPT ![g][u] = [role |-> role, custom |-> x]])
  /\ raced' = IF Changing(g) THEN raced \cup {g} ELSE raced
  /\ UNCHANGED <<policy, visit, syncs>>

(* update_organization_member: all is checked against rows read before *)
OpenSet(c, g, actor, u) == \E role \in OrgRoles, x \in Customs(g) :
  /\ IsRow(g, u) /\ MayTouch(g, actor, member[g][u].role, role)
  /\ member[g][u].role = "owner" /\ role # "owner" => OtherOwner(g, u)
  /\ Opens(c, [op |-> "set", group |-> g, user |-> u, role |-> role, extra |-> x])
CommitSet(c) ==
  /\ visit[c].op = "set"
  /\ LET v == visit[c] IN
     Write(IF IsRow(v.group, v.user) /\ (v.extra # Nil => custom[v.extra] # Nil)
           THEN [member EXCEPT ![v.group][v.user] = [role |-> v.role, custom |-> v.extra]] ELSE member)
  /\ Closes(c)

(* mutant: the last owner may go *)
OpenRemoveAny(c, g, actor, u) ==
  /\ IsRow(g, u) /\ MayTouch(g, actor, member[g][u].role, Nil)
  /\ Opens(c, [op |-> "remove", group |-> g, user |-> u, role |-> Nil, extra |-> Nil])
(* remove_organization_member: teams and direct permissions stay *)
OpenRemove(c, g, actor, u) ==
  /\ IsRow(g, u) /\ MayTouch(g, actor, member[g][u].role, Nil)
  /\ member[g][u].role = "owner" => OtherOwner(g, u)
  /\ Opens(c, [op |-> "remove", group |-> g, user |-> u, role |-> Nil, extra |-> Nil])
CommitRemove(c) ==
  /\ visit[c].op = "remove"
  /\ Write([member EXCEPT ![visit[c].group][visit[c].user] = Nil])
  /\ Closes(c)

(* sync_ldap_group_memberships: the mapped role replaces whatever was there*)
SyncLdap(g, u, role) ==
  /\ syncs < MaxSyncs /\ syncs' = syncs + 1
  /\ Write([member EXCEPT ![g][u] = [role |-> role, custom |-> IF IsRow(g, u) THEN @.custom ELSE Nil]])
  /\ raced' = raced \cup {g}
  /\ UNCHANGED <<policy, visit, memberAsks>>

(* delete_admin_user: the rows of the user go with it *)
DropUser(u) ==
  /\ syncs < MaxSyncs /\ syncs' = syncs + 1
  /\ Write([g \in Groups |-> [member[g] EXCEPT ![u] = Nil]])
  /\ team' = [t \in Teams |-> IF team[t] = Nil THEN Nil ELSE [team[t] EXCEPT !.members = @ \ {u}]]
  /\ direct' = [direct EXCEPT ![u] = Nil]
  /\ raced' = raced \cup {g \in Groups : IsRow(g, u)}
  /\ UNCHANGED <<custom, home, public, visit, memberAsks>>

---------------------------------------------------------------------------
(* The handlers below write one row that no later check of theirs reads.   *)
Policy(actor) == memberAsks < MaxMemberAsks /\ memberAsks' = memberAsks + 1
                 /\ UNCHANGED <<visit, owned, raced, syncs>>

(* add_, update_ and remove_repository_collaborator *)
SetCollaborator(actor, u, role) ==
  /\ Policy(actor) /\ IsMember(home, actor) /\ CanAdmin(actor) /\ direct[u] # role
  /\ direct' = [direct EXCEPT ![u] = role] /\ UNCHANGED <<member, custom, team, home, public>>

(* create_team, delete_team *)
ToggleTeam(actor, t) ==
  /\ Policy(actor) /\ HasGrant(TeamGroup[t], actor, "teams")
  /\ team' = [team EXCEPT ![t] = IF @ = Nil THEN [members |-> {}, access |-> Nil] ELSE Nil]
  /\ UNCHANGED <<member, custom, direct, home, public>>

(* add_team_member asks for a row of the group, remove_team_member not *)
JoinTeam(actor, t, u) ==
  /\ Policy(actor) /\ HasGrant(TeamGroup[t], actor, "teams") /\ team[t] # Nil
  /\ u \in team[t].members \/ IsRow(TeamGroup[t], u)
  /\ team' = [team EXCEPT ![t].members = IF u \in @ THEN @ \ {u} ELSE @ \cup {u}]
  /\ UNCHANGED <<member, custom, direct, home, public>>

(* set_ and remove_team_repository_access: a repository of the team's group*)
SetTeamAccess(actor, t, role) ==
  /\ Policy(actor) /\ HasGrant(TeamGroup[t], actor, "teams") /\ team[t] # Nil
  /\ home = TeamGroup[t] /\ team[t].access # role
  /\ team' = [team EXCEPT ![t].access = role]
  /\ UNCHANGED <<member, custom, direct, home, public>>

(* create_, update_ and delete_custom_role; its members keep their role *)
SetCustomRole(actor, c, row) ==
  /\ Policy(actor) /\ HasGrant(CustomGroup[c], actor, "customRoles") /\ custom[c] # row
  /\ custom' = [custom EXCEPT ![c] = row]
  /\ member' = IF row # Nil THEN member
               ELSE [g \in Groups |-> [u \in People |->
                       IF IsRow(g, u) /\ member[g][u].custom = c THEN [member[g][u] EXCEPT !.custom = Nil]
                                                                ELSE member[g][u]]]
  /\ UNCHANGED <<team, direct, home, public>>

(* transfer_repository: no permission moves with the repository *)
TransferHome(actor, g) ==
  /\ Policy(actor) /\ g # home /\ IsMember(home, actor) /\ IsMember(g, actor)
  /\ HasGrant(g, actor, "settings") /\ CanAdmin(actor)
  /\ home' = g /\ UNCHANGED <<member, custom, team, direct, public>>

(* update_repository asks for write access only *)
SetVisibility(actor) ==
  /\ Policy(actor) /\ IsMember(home, actor) /\ CanWrite(actor)
  /\ public' = ~public /\ UNCHANGED <<member, custom, team, direct, home>>

CustomRows == {Nil} \cup RoleRows
MemberNext ==
  \/ \E g \in Groups, a, u \in People :
       \/ AddMember(g, a, u)
       \/ \E c \in MemberClients : OpenSet(c, g, a, u) \/ OpenRemove(c, g, a, u)
  \/ \E c \in MemberClients : CommitSet(c) \/ CommitRemove(c)
  \/ \E u \in People : DropUser(u) \/ \E g \in Groups : SyncLdap(g, u, "member")
  \/ \E a \in People :
       \/ \E u \in People, r \in RepoRoles \cup {Nil} : SetCollaborator(a, u, r)
       \/ \E t \in Teams : \/ ToggleTeam(a, t) \/ \E u \in People : JoinTeam(a, t, u)
                           \/ \E r \in RepoRoles \cup {Nil} : SetTeamAccess(a, t, r)
       \/ \E c \in CustomRoles, row \in CustomRows : SetCustomRole(a, c, row)
       \/ \E g \in Groups : TransferHome(a, g)
       \/ SetVisibility(a)

(* create_organization and create_repository: their author owns the groups,*)
(* and is an admin of the repository.                                      *)
MemberInit ==
  /\ \E u \in People :
       /\ member = [g \in Groups |-> [v \in People |-> IF v = u THEN [role |-> "owner", custom |-> Nil] ELSE Nil]]
       /\ direct = [v \in People |-> IF v = u THEN "admin" ELSE Nil]
  /\ custom = [c \in CustomRoles |-> Nil] /\ team = [t \in Teams |-> Nil]
  /\ home \in Groups /\ public \in BOOLEAN
  /\ visit = [c \in MemberClients |-> NoVisit]
  /\ owned = Groups /\ raced = {} /\ memberAsks = 0 /\ syncs = 0
MemberSpec == MemberInit /\ [][MemberNext]_memberVars

---------------------------------------------------------------------------
MemberTypeOK ==
  /\ \A g \in Groups, u \in People : IsRow(g, u) =>
       /\ member[g][u].role \in OrgRoles
       /\ member[g][u].custom # Nil => custom[member[g][u].custom] # Nil /\ CustomGroup[member[g][u].custom] = g
  /\ custom \in [CustomRoles -> CustomRows] /\ direct \in [People -> RepoRoles \cup {Nil}]
  /\ \A t \in Teams : team[t] # Nil => team[t].members \subseteq People /\ Rank(team[t].access) \in 0..3

(* A group keeps an owner, unless two changes of its members overlapped, an*)
(* LDAP login replaced a role, or a user was deleted                       *)
(* (ensure_org_has_other_owner).                                           *)
GroupKeepsOwner == \A g \in owned \ raced : Owners(g) # {}

(* The rules agree.  Whoever may manage a repository may write to it, but  *)
(* for the teams of a group it was moved away from.  A repository that is  *)
(* listed, shown on the dashboard or searched can be opened, a group that  *)
(* is listed can be browsed, and so can a listed subgroup.                 *)
AccessAgrees ==
  \A u \in People :
    /\ CanAdmin(u) => CanWrite(u) \/ \E t \in Teams : team[t] # Nil /\ u \in team[t].members /\ TeamGroup[t] # home
    /\ (\E g \in Groups : RepoListed(g, u)) \/ Accessible(u) \/ Searchable(u) => CanRead(u)
    /\ \A g \in Groups : GroupListed(g, u) => Browsable(g, u)
    /\ \A p, g \in Groups : SubgroupListed(p, g, u) => Browsable(g, u)
    /\ CanWrite(u) => CanRead(u)

(* Who has access is decided alike everywhere, and somebody is left to      *)
(* decide it.                                                              *)
AccessSound == GroupKeepsOwner /\ AccessAgrees
===========================================================================
