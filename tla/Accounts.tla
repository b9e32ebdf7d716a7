------------------------------ MODULE Accounts ------------------------------
(* Accounts, their approval and administration, and the sign-on through an *)
(* identity provider, which finds, links or makes the account of a subject *)
(* in single statements: requests interleave between them, and one that    *)
(* stops leaves what it has written.                                       *)
EXTENDS Naturals, FiniteSets

CONSTANTS Users,           \* identifiers of account rows
          Subjects,        \* identities at the provider
          Emails, Flows,
          FirstAdmin,      \* the super admin the installation starts with
          NeedsApproval,   \* REQUIRE_REGISTRATION_APPROVAL
          AccountClients,
          MaxAccountAsks,  \* bound: requests
          NoOne            \* no row

AccountRows == [status : {"pending", "approved", "rejected"}, super : BOOLEAN, email : Emails]

ASSUME AccountsAssumption ==
  /\ FirstAdmin \in Users /\ NoOne \notin Users \cup Emails \cup AccountRows
  /\ NeedsApproval \in BOOLEAN /\ MaxAccountAsks \in Nat

VARIABLES
  user,        \* users: approval status, is_super_admin, email
  link,        \* user_external_identities: the account of a subject
  idp,         \* the email the provider gives for a subject
  flow,        \* auth_flow_states
  provider,    \* the row of the provider: enabled, disabled, gone
  act,         \* the request of every client
  taken,       \* history: how often a flow state was accepted
  crossed,     \* history: which requests overlapped
  accountAsks

accountVars == <<user, link, idp, flow, provider, act, taken, crossed, accountAsks>>

NoAct == [op |-> "none", pc |-> "", id |-> NoOne, email |-> NoOne, super |-> FALSE, subject |-> NoOne]
Accs == {u \in Users : user[u] # NoOne}
Supers == {u \in Accs : user[u].super}
NewId == CHOOSE u \in Users : user[u] = NoOne
ByEmail(e) == {u \in Accs : user[u].email = e}
Pending == IF NeedsApproval THEN "pending" ELSE "approved"
Row(st, super, e) == [status |-> st, super |-> super, email |-> e]
Opened(op) == {c \in AccountClients : act[c].op \in op}
SignIns == Opened({"signIn"})
Works(c, op, pc) == act[c].op = op /\ act[c].pc = pc

(* ensure_user_approved, which a request of every session passes *)
Admitted(u) == u \in Accs /\ (user[u].super \/ user[u].status = "approved")

Cross(kinds) == crossed' = crossed \cup kinds
EmailMoves == IF SignIns # {} THEN {"email"} ELSE {}
Asked == accountAsks < MaxAccountAsks /\ accountAsks' = accountAsks + 1
Begin(c, a) == /\ act[c].op = "none" /\ Asked
               /\ act' = [act EXCEPT ![c] = a]
               /\ UNCHANGED <<user, link, idp, provider>>
End(c) == act' = [act EXCEPT ![c] = NoAct] /\ UNCHANGED accountAsks

---------------------------------------------------------------------------
(* register and create_admin_user: username and email are unique *)
NewAccount(st, super, e) ==
  /\ ByEmail(e) = {}
  /\ Users # Accs /\ user' = [user EXCEPT ![NewId] = Row(st, super, e)]
Register(e) == /\ Asked /\ NewAccount(Pending, FALSE, e) /\ Cross(EmailMoves)
               /\ UNCHANGED <<link, idp, provider, flow, act, taken>>
CreateUser(e, super) == /\ Asked /\ Supers # {} /\ NewAccount("approved", super, e) /\ Cross(EmailMoves)
                        /\ UNCHANGED <<link, idp, provider, flow, act, taken>>

(* approve_admin_user is one guarded statement, reject_admin_user is not *)
Approve(u) == /\ Asked /\ Supers # {} /\ u \in Accs /\ user[u].status \in {"pending", "rejected"}
              /\ user' = [user EXCEPT ![u].status = "approved"]
              /\ UNCHANGED <<link, idp, provider, flow, act, taken, crossed>>
OpenReject(c, u) ==
  /\ u \in Accs /\ user[u].status = "pending" /\ ~user[u].super /\ Supers # {}
  /\ Begin(c, [NoAct EXCEPT !.op = "reject", !.id = u]) /\ UNCHANGED <<flow, taken, crossed>>
CommitReject(c) ==
  /\ act[c].op = "reject"
  /\ user' = IF act[c].id \in Accs THEN [user EXCEPT ![act[c].id].status = "rejected"] ELSE user
  /\ End(c) /\ UNCHANGED <<link, idp, provider, flow, taken, crossed>>

(* mutant: the last super admin may be demoted *)
OpenEditAny(c, actor, u) == \E e \in Emails, super \in BOOLEAN :
  /\ actor \in Supers /\ u \in Accs
  /\ Begin(c, [NoAct EXCEPT !.op = "edit", !.id = u, !.email = e, !.super = super])
  /\ Cross(IF Opened({"edit", "delete"}) # {} THEN {"admin"} ELSE {})
  /\ UNCHANGED <<flow, taken>>
(* update_admin_user reads the row and writes all of it back *)
OpenEdit(c, actor, u) == \E e \in Emails, super \in BOOLEAN :
  /\ actor \in Supers /\ u \in Accs
  /\ user[u].super /\ ~super => Cardinality(Supers) > 1
  /\ Begin(c, [NoAct EXCEPT !.op = "edit", !.id = u, !.email = e, !.super = super])
  /\ Cross(IF Opened({"edit", "delete"}) # {} THEN {"admin"} ELSE {})
  /\ UNCHANGED <<flow, taken>>
(* update_me writes the email, the name and the password *)
OpenProfile(c, u, e) ==
  /\ Admitted(u) /\ e # user[u].email
  /\ Begin(c, [NoAct EXCEPT !.op = "profile", !.id = u, !.email = e]) /\ UNCHANGED <<flow, taken, crossed>>
CommitEdit(c) ==
  /\ act[c].op \in {"edit", "profile"}
  /\ LET a == act[c] IN
     user' = IF a.id \in Accs /\ ByEmail(a.email) \subseteq {a.id}
             THEN [user EXCEPT ![a.id].email = a.email, ![a.id].super = IF a.op = "edit" THEN a.super ELSE @]
             ELSE user
  /\ Cross(EmailMoves)
  /\ End(c) /\ UNCHANGED <<link, idp, provider, flow, taken>>

(* delete_admin_user *)
OpenDelete(c, actor, u) ==
  /\ actor \in Supers \ {u} /\ u \in Accs
  /\ user[u].super => Cardinality(Supers) > 1
  /\ Begin(c, [NoAct EXCEPT !.op = "delete", !.id = u])
  /\ Cross(IF Opened({"edit", "delete"}) # {} THEN {"admin"} ELSE {})
  /\ UNCHANGED <<flow, taken>>
CommitDelete(c) ==
  /\ act[c].op = "delete"
  /\ user' = [user EXCEPT ![act[c].id] = NoOne]
  /\ link' = [s \in Subjects |-> IF link[s] = act[c].id THEN NoOne ELSE link[s]]
  /\ Cross(EmailMoves)
  /\ End(c) /\ UNCHANGED <<idp, provider, flow, taken>>

---------------------------------------------------------------------------
(* update_auth_provider and delete_auth_provider, which takes the flow     *)
(* states and the identities along.                                        *)
EnableProvider == /\ Asked /\ provider # "gone"
                  /\ provider' = IF provider = "enabled" THEN "disabled" ELSE "enabled"
                  /\ UNCHANGED <<user, link, idp, flow, act, taken, crossed>>
DeleteProvider == /\ Asked /\ provider' = "gone"
                  /\ link' = [s \in Subjects |-> NoOne]
                  /\ flow' = [f \in Flows |-> IF flow[f] = "stored" THEN "gone" ELSE flow[f]]
                  /\ UNCHANGED <<user, idp, act, taken, crossed>>

(* start_oidc_login, saml_login: the flow state is stored *)
StartFlow(f) ==
  /\ Asked /\ provider = "enabled" /\ flow[f] = "unused" /\ flow' = [flow EXCEPT ![f] = "stored"]
  /\ UNCHANGED <<user, link, idp, provider, act, taken, crossed>>
FlowExpires(f) == flow[f] = "stored" /\ flow' = [flow EXCEPT ![f] = "gone"]
                  /\ UNCHANGED <<user, link, idp, provider, act, taken, crossed, accountAsks>>
IdpChanges(s, e) == /\ Asked /\ e # idp[s] /\ idp' = [idp EXCEPT ![s] = e]
                    /\ UNCHANGED <<user, link, flow, provider, act, taken, crossed>>

(* take_flow_state: one DELETE, and the provider is looked at after it *)
TakeFlow(f) == /\ flow[f] = "stored"
               /\ flow' = [flow EXCEPT ![f] = "gone"] /\ taken' = [taken EXCEPT ![f] = @ + 1]
(* An identity without a usable email is refused (external_user_from_oidc).*)
Usable(s) == provider = "enabled" /\ idp[s] # NoOne
Provision(c, s) == /\ Begin(c, [NoAct EXCEPT !.op = "signIn", !.pc = "identity",
                                         !.subject = s, !.email = idp[s]])
                   /\ Cross(IF SignIns # {} THEN {"identity"} ELSE {})
Refused(c) == act[c].op = "none" /\ Asked /\ UNCHANGED <<user, link, idp, provider, act, crossed>>
(* oidc_callback_inner, saml_acs: one flow state, one sign-in *)
Callback(c, s, f) ==
  /\ TakeFlow(f) /\ IF Usable(s) THEN Provision(c, s) ELSE Refused(c)
SamlAcs(c, s, f) ==
  /\ TakeFlow(f) /\ IF Usable(s) THEN Provision(c, s) ELSE Refused(c)
(* oidc_session brings an id token, ldap_login binds to the directory *)
OidcSession(c, s) == Usable(s) /\ Provision(c, s) /\ UNCHANGED <<flow, taken>>
LdapLogin(c, s) == Usable(s) /\ Provision(c, s) /\ UNCHANGED <<flow, taken>>

Turn(c, pc, id) == act' = [act EXCEPT ![c].pc = pc, ![c].id = id]
                   /\ UNCHANGED <<idp, provider, flow, taken, crossed, accountAsks>>

(* jit_provision_user: a linked subject is its account, unless the email   *)
(* of the subject is another account's by now.                             *)
FindIdentity(c) ==
  /\ Works(c, "signIn", "identity")
  /\ LET s == act[c].subject
         others == ByEmail(act[c].email) \ {link[s]}
     IN IF link[s] = NoOne THEN Turn(c, "email", NoOne)
        ELSE IF others # {} THEN Turn(c, "unlink", NoOne) ELSE Turn(c, "issue", link[s])
  /\ UNCHANGED <<user, link>>
Unlink(c) ==
  /\ Works(c, "signIn", "unlink")
  /\ link' = [link EXCEPT ![act[c].subject] = NoOne]
  /\ Turn(c, "email", NoOne) /\ UNCHANGED user

(* find_user_id_by_email and ensure_can_link_provider_identity *)
FindByEmail(c) ==
  /\ Works(c, "signIn", "email")
  /\ LET found == ByEmail(act[c].email)
         elsewhere(u) == \E t \in Subjects \ {act[c].subject} : link[t] = u
     IN IF found = {} THEN Turn(c, "insert", NoOne)
        ELSE \E u \in found : IF elsewhere(u) THEN act' = [act EXCEPT ![c] = NoAct]
                                                   /\ UNCHANGED <<idp, provider, flow, taken, crossed, accountAsks>>
                                              ELSE Turn(c, "link", u)
  /\ UNCHANGED <<user, link>>

(* unique_username finds a free name; the insert fails on a taken email *)
InsertAccount(c) ==
  /\ Works(c, "signIn", "insert")
  /\ IF ByEmail(act[c].email) # {} \/ Users = Accs
     THEN act' = [act EXCEPT ![c] = NoAct] /\ UNCHANGED <<user, idp, provider, flow, taken, crossed, accountAsks>>
     ELSE /\ user' = [user EXCEPT ![NewId] = Row(Pending, FALSE, act[c].email)]
          /\ Turn(c, "link", NewId)
  /\ UNCHANGED link

(* link_external_identity: the subject moves to the account *)
LinkIdentity(c) ==
  /\ Works(c, "signIn", "link")
  /\ IF act[c].id \in Accs /\ provider # "gone"
     THEN link' = [link EXCEPT ![act[c].subject] = act[c].id] /\ Turn(c, "issue", act[c].id)
     ELSE act' = [act EXCEPT ![c] = NoAct] /\ UNCHANGED <<link, idp, provider, flow, taken, crossed, accountAsks>>
  /\ UNCHANGED user

(* finish_provider_login: a session, or a page that tells to wait *)
Issue(c) == Works(c, "signIn", "issue") /\ End(c) /\ UNCHANGED <<user, link, idp, provider, flow, taken, crossed>>

(* The process stops, or a query fails. *)
RequestDies(c) == act[c].op # "none" /\ End(c) /\ UNCHANGED <<user, link, idp, provider, flow, taken, crossed>>

AccountsNext ==
  \/ \E e \in Emails : Register(e) \/ \E b \in BOOLEAN : CreateUser(e, b)
  \/ \E u \in Users : Approve(u)
  \/ \E f \in Flows : StartFlow(f) \/ FlowExpires(f)
  \/ EnableProvider \/ DeleteProvider
  \/ \E s \in Subjects, e \in Emails \cup {NoOne} : IdpChanges(s, e)
  \/ \E c \in AccountClients :
       \/ \E u \in Users :
            \/ OpenReject(c, u) \/ \E a \in Users : OpenEdit(c, a, u) \/ OpenDelete(c, a, u)
            \/ \E e \in Emails : OpenProfile(c, u, e)
       \/ CommitReject(c) \/ CommitEdit(c) \/ CommitDelete(c)
       \/ \E s \in Subjects : OidcSession(c, s) \/ LdapLogin(c, s)
                             \/ \E f \in Flows : Callback(c, s, f) \/ SamlAcs(c, s, f)
       \/ FindIdentity(c) \/ Unlink(c) \/ FindByEmail(c) \/ InsertAccount(c) \/ LinkIdentity(c)
       \/ Issue(c) \/ RequestDies(c)

AccountsInit ==
  /\ \E e \in Emails : user = [u \in Users |-> IF u = FirstAdmin THEN Row("approved", TRUE, e) ELSE NoOne]
  /\ link = [s \in Subjects |-> NoOne] /\ idp \in [Subjects -> Emails]
  /\ flow = [f \in Flows |-> "unused"] /\ provider = "enabled" /\ taken = [f \in Flows |-> 0]
  /\ act = [c \in AccountClients |-> NoAct] /\ crossed = {} /\ accountAsks = 0
AccountsSpec == AccountsInit /\ [][AccountsNext]_accountVars

---------------------------------------------------------------------------
AccountsTypeOK ==
  /\ user \in [Users -> AccountRows \cup {NoOne}]
  /\ \A u, v \in Accs : u # v => user[u].email # user[v].email
  /\ \A s \in Subjects : link[s] \in Accs \cup {NoOne} /\ idp[s] \in Emails \cup {NoOne}
  /\ crossed \subseteq {"admin", "email", "identity"}

(* A super admin remains, unless two changes by super admins overlapped.   *)
AdminRemains == "admin" \notin crossed => Supers # {}

(* An account is one subject's at most, and a session goes to the account  *)
(* with the subject's email if there is one, unless two sign-ins, or a     *)
(* sign-in and a change of an email, overlapped.  A flow state serves once.*)
SignInSound ==
  /\ "identity" \notin crossed => \A s, t \in Subjects : s # t /\ link[s] # NoOne => link[s] # link[t]
  /\ crossed \cap {"identity", "email"} = {} =>
       \A c \in AccountClients : Works(c, "signIn", "issue") => ByEmail(act[c].email) \subseteq {act[c].id}
  /\ \A f \in Flows : taken[f] <= 1

(* Both: an administrator remains (admin.rs), and a sign-in ends in the    *)
(* account the provider's identity belongs to (sso/mod.rs).                *)
AccountsSound == AdminRemains /\ SignInSound
===========================================================================
