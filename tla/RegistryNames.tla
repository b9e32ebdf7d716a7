--------------------------- MODULE RegistryNames ---------------------------
(* The names of images: how a request path becomes a name and a name the   *)
(* provider, group, project and image it is checked against; the scopes of *)
(* the tokens; the pages of the catalog.  A name is a sequence of segments.*)
EXTENDS Naturals, Sequences, FiniteSets

CONSTANTS Pertisk,       \* the default provider
          Providers,     \* the word "providers" that starts a provider's path
          Paths,         \* request paths considered, without the verb
          Principals,    \* users and job credentials
          Asked,         \* the scopes parameters of a token request: sets of <<path, actions>>
          Catalogs       \* [entries, column]: ranks by name, and by columns

ASSUME PrincipalAssumption == \A p \in Principals : p.ci \in BOOLEAN /\ p.super \in BOOLEAN
ASSUME CatalogAssumption ==
  \A c \in Catalogs : /\ IsFiniteSet(c.entries) /\ c.entries \subseteq Nat \ {0}
                      /\ \A e \in c.entries : c.column[e] \in Nat

NoName == <<>>
Target(provider, org, project, image) ==
  [provider |-> provider, org |-> org, project |-> project, image |-> image]

(* The routes: a default path has two or three segments before the verb,   *)
(* a provider's path two or three after its prefix; the group is always    *)
(* one segment.                                                            *)
Routed(path) ==
  IF Head(path) = Providers
  THEN Target(path[2], <<path[3]>>, path[4], path[Len(path)])
  ELSE Target(Pertisk, <<path[1]>>, path[2], path[Len(path)])
Routable(path) ==
  IF path # <<>> /\ Head(path) = Providers THEN Len(path) \in {4, 5} ELSE Len(path) \in {2, 3}

(* provider_repo_name: the name the scope of a request is written with. *)
RepoName(t) ==
  (IF t.provider = Pertisk THEN <<>> ELSE <<t.provider>>) \o t.org \o <<t.project>>
    \o (IF t.image = t.project THEN <<>> ELSE <<t.image>>)

ParseName(n) ==
  LET len == Len(n) IN
  CASE len < 2 -> NoName
    [] len = 2 -> Target(Pertisk, <<n[1]>>, n[2], n[2])
    [] len = 3 -> Target(Pertisk, <<n[1]>>, n[2], n[3])
    [] OTHER   -> Target(n[1], SubSeq(n, 2, len - 2), n[len - 1], n[len])

---------------------------------------------------------------------------
(* Scopes *)

(* merge_scopes: the actions asked for one name in several parameters. *)
MergeScopes(asked) == {<<n, UNION {s[2] : s \in {a \in asked : a[1] = n}}>> : n \in {a[1] : a \in asked}}

(* A job's credentials open its project, or also what lies below it. *)
CiInScope(allowed, name, subpaths) ==
  \/ name = allowed
  \/ subpaths /\ Len(name) > Len(allowed) /\ SubSeq(name, 1, Len(allowed)) = allowed

(* mutant: a job's credentials open every image of its group *)
CiGrantedByGroup(allowed, subpaths, asked) ==
  {<<s[1], s[2] \cap {"pull", "push"}>> :
     s \in {a \in asked : a[1][1] = allowed[1] /\ a[2] \cap {"pull", "push"} # {}}}
CiGranted(allowed, subpaths, asked) ==
  {<<s[1], s[2] \cap {"pull", "push"}>> :
     s \in {a \in asked : CiInScope(allowed, a[1], subpaths) /\ a[2] \cap {"pull", "push"} # {}}}

(* can_pull and can_push: `may` holds the <<group, project, action>> of    *)
(* the user, super administrators hold all.                                *)
Can(user, t, action) ==
  \/ user.super
  \/ action \in {"pull", "push"} /\ <<t.org, t.project, action>> \in user.may

UserGranted(user, asked) ==
  {s \in {<<a[1], IF user.super THEN IF a[2] = {} THEN {"pull", "push"} ELSE a[2]
                  ELSE {x \in a[2] : Can(user, ParseName(a[1]), x)}>> :
            a \in {b \in asked : ParseName(b[1]) # NoName}} : user.super \/ s[2] # {}}

(* get_token, and then a request that carries the token. *)
TokenGrants(principal, asked) ==
  IF principal.ci THEN CiGranted(principal.allowed, principal.subpaths, MergeScopes(asked))
  ELSE UserGranted(principal, MergeScopes(asked))
TokenAllows(granted, name, action) == \E s \in granted : s[1] = name /\ action \in s[2]

(* authorize_registry with HTTP Basic: the same question, asked at once. *)
BasicAllows(principal, name, action) ==
  IF principal.ci THEN CiInScope(principal.allowed, name, principal.subpaths) /\ action \in {"pull", "push"}
  ELSE \/ principal.super
       \/ ParseName(name) # NoName /\ Can(principal, ParseName(name), action)

---------------------------------------------------------------------------
(* The catalog.  An entry is the rank of its name; `column` is its place   *)
(* in the order of the four columns.  Entries not above the last one of    *)
(* the page before go, the rest is cut to the size of a page by columns.   *)
PageSize(n) == IF n < 1 THEN 1 ELSE IF n > 1000 THEN 1000 ELSE n

Page(entries, column, last, n) ==
  LET left == {e \in entries : e > last}
  IN {e \in left : Cardinality({f \in left : column[f] < column[e]}) < PageSize(n)}

HasMore(entries, column, last, n) ==
  Page(entries, column, last, n) # {e \in entries : e > last}

(* The link of a page names its last entry by columns. *)
NextLast(entries, column, last, n) ==
  CHOOSE e \in Page(entries, column, last, n) :
    \A f \in Page(entries, column, last, n) : column[f] <= column[e]
---------------------------------------------------------------------------
(* A client asks for a token; another walks the catalog page by page.      *)
VARIABLES token,    \* who holds it, what was asked, what it grants
          walk      \* the catalog, the size of a page, the last entry, what was listed
namesVars == <<token, walk>>

NoToken == [holder |-> NoName, asked |-> {}, grants |-> {}]
NoWalk == [catalog |-> NoName, n |-> 0, last |-> 0, listed |-> <<>>, more |-> FALSE]
NamesInit == token = NoToken /\ walk = NoWalk

ScopeNames(asked) == {<<RepoName(Routed(a[1])), a[2]>> : a \in {b \in asked : Routable(b[1])}}

GetToken(principal, asked) ==
  /\ token = NoToken
  /\ token' = [holder |-> principal, asked |-> asked, grants |-> TokenGrants(principal, ScopeNames(asked))]
  /\ UNCHANGED walk

ListPage(catalog, n, last) ==
  LET page == Page(catalog.entries, catalog.column, last, n) IN
  walk' = [catalog |-> catalog, n |-> n, listed |-> Append(walk.listed, page),
           last |-> IF page = {} THEN last ELSE NextLast(catalog.entries, catalog.column, last, n),
           more |-> HasMore(catalog.entries, catalog.column, last, n)]

OpenCatalog(catalog, n) == walk = NoWalk /\ ListPage(catalog, n, 0) /\ UNCHANGED token
FollowLink == walk.more /\ ListPage(walk.catalog, walk.n, walk.last) /\ UNCHANGED token

NamesNext ==
  \/ \E p \in Principals, a \in Asked : GetToken(p, a)
  \/ \E c \in Catalogs, n \in 0..2 : OpenCatalog(c, n)
  \/ FollowLink
NamesSpec == NamesInit /\ [][NamesNext]_namesVars

(* A token opens, of what was asked for, what the same client may do with  *)
(* its password: docker login against the token service and HTTP Basic     *)
(* against the registry agree (get_token, authorize_registry).             *)
TokenAgreesWithBasic ==
  token # NoToken =>
    \A a \in ScopeNames(token.asked) : \A action \in a[2] :
      TokenAllows(token.grants, a[1], action) <=> BasicAllows(token.holder, a[1], action)

(* Where the columns sort as the names do, following the links lists every *)
(* image once (list_catalog).                                              *)
ColumnsSortAsNames(c) == \A e, f \in c.entries : e < f => c.column[e] < c.column[f]
CatalogComplete ==
  walk # NoWalk /\ ColumnsSortAsNames(walk.catalog) =>
    /\ \A i, j \in DOMAIN walk.listed : i # j => walk.listed[i] \cap walk.listed[j] = {}
    /\ ~walk.more => UNION {walk.listed[i] : i \in DOMAIN walk.listed} = walk.catalog.entries

(* Both: a token gives its bearer what the password would, and the pages   *)
(* of the catalogue hold every repository once.                            *)
NamesSound == TokenAgreesWithBasic /\ CatalogComplete
===========================================================================
