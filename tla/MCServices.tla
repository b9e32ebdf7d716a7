----------------------------- MODULE MCServices -----------------------------
(* Components that share no state with the ones that run pipelines: each   *)
(* behaviour explores one of them, the others stay in one initial state.   *)
EXTENDS ImportJobs, GroupTree, Membership, Accounts, KubeExecutor, Backup, SearchIndex,
        RunnerJob, TLC
CONSTANTS ann, bob, top, sub, t1, r1, u1, c1, c2, m1
VARIABLE part
servicesVars == <<importVars, treeVars, memberVars, accountVars, kubeVars,
                  backupVars, searchVars, jobVars, part>>

MCParentGroup == top :> NoGroup @@ sub :> top
MCTeamGroup == t1 :> sub
MCCustomGroup == r1 :> top
MCRoleRows == {[grants |-> {}, default |-> "admin"],
               [grants |-> {"members", "teams", "customRoles", "settings"}, default |-> Nil]}

MCScript == <<[kind |-> "run", name |-> "log"], [kind |-> "upload", name |-> "log"],
             [kind |-> "declared", name |-> "bin"]>>
MCSelections == {<<"db", "repos", "registry">>, <<"artifacts", "db">>}

(* One initial state for a component that is not explored *)
OneImport == /\ options = [skip |-> TRUE, issues |-> TRUE] /\ DOMAIN row = {1} /\ before = {}
OneMember == direct[ann] # Nil /\ home = sub /\ public
OneAccount == \A s \in Subjects : idp[s] = user[u1].email
OneToken == CHOOSE t \in RunnerTokens : TRUE
OneBackup == \A k \in Kinds : rows[k] = {}

(* The bounds of the instance: an import with issues has one repository, that  *)
(* was not there, one without them has any of two, of which one was there. *)
ImportBound == /\ options.issues = (before = {}) /\ options.skip = (before # {})
               /\ before \in {{}, {1}} /\ (options.issues => DOMAIN row = {1})
MemberBound == direct[bob] = Nil /\ home = sub
BackupBound == rows = [k \in Kinds |-> IF k = "repos" THEN Items ELSE {}]
One == CHOOSE e \in Emails : TRUE

ServicesInit ==
  /\ part \in {"import", "tree", "members", "accounts", "kube", "backup", "search", "job"}
  /\ ImportInit /\ IF part = "import" THEN ImportBound ELSE OneImport
  /\ TreeInit
  /\ MemberInit /\ IF part = "members" THEN MemberBound ELSE OneMember
  /\ AccountsInit /\ user[u1].email = One /\ (part # "accounts" => OneAccount)
  /\ KubeInit /\ token[m1] = OneToken /\ (part # "kube" => \A m \in Managers : token[m] = OneToken)
  /\ BackupInit /\ IF part = "backup" THEN BackupBound ELSE OneBackup
  /\ SearchInit /\ JobInit

(* A step of one component: the other components do not move. *)
Only(p, others) == part = p /\ UNCHANGED <<others, part>>
InImport == Only("import", <<treeVars, memberVars, accountVars, kubeVars, backupVars, searchVars,
                          jobVars>>)
InTree == Only("tree", <<importVars, memberVars, accountVars, kubeVars, backupVars, searchVars,
                      jobVars>>)
InMembers == Only("members", <<importVars, treeVars, accountVars, kubeVars, backupVars, searchVars,
                            jobVars>>)
InAccounts == Only("accounts", <<importVars, treeVars, memberVars, kubeVars, backupVars, searchVars,
                              jobVars>>)
InKube == Only("kube", <<importVars, treeVars, memberVars, accountVars, backupVars, searchVars,
                      jobVars>>)
InBackup == Only("backup", <<importVars, treeVars, memberVars, accountVars, kubeVars, searchVars,
                          jobVars>>)
InSearch == Only("search", <<importVars, treeVars, memberVars, accountVars, kubeVars, backupVars,
                          jobVars>>)
InJob == Only("job", <<importVars, treeVars, memberVars, accountVars, kubeVars, backupVars,
                    searchVars>>)

ImportPart == InImport /\ ImportNext /\ (options.issues \/ hand' = hand)
(* Until something is disturbed; the second client renames and transfers.   *)
TreePart == /\ InTree /\ disturbed = {} /\ TreeNext
            /\ asks[c2].op = "none" => asks'[c2].op \in {"none", "rename", "transfer"}
MemberPart == InMembers /\ MemberNext /\ memberAsks' + syncs' <= 3
AccountPart == InAccounts /\ AccountsNext
(* Only the second manager dies, a task outlives its watch in the first     *)
(* one, and once an attempt has been disturbed only Jobs are deleted.      *)
KubePart == /\ InKube /\ KubeNext /\ mgr'[m1].pc # "dead"
            /\ mixed \/ blamed # {} => UNCHANGED <<ciRow, mgr, watcher, stray>>
            /\ \A m \in Managers : stray'[m] # NoStray => m = m1
(* One disturbance, by the services or by a fault. *)
BackupPart == /\ InBackup /\ BackupNext /\ changes' + faults' <= 1
              /\ (\A b \in Backups : task'[b].pc = "off") \/ (\A b \in Commands : task'[b].pc = "off")
SearchPart == InSearch /\ SearchNext
(* Nothing is claimed of the artifacts once a removal met an execution.    *)
JobPart == InJob /\ JobNext /\ ~untidy

ServicesNext == ImportPart \/ TreePart \/ MemberPart \/ AccountPart \/ KubePart
                \/ BackupPart \/ SearchPart \/ JobPart
ServicesSpec ==
  /\ ServicesInit /\ [][ServicesNext]_servicesVars
  /\ \A t \in ImportWorkers : WF_servicesVars(InImport /\ ImportStep(t))
  /\ WF_servicesVars(InImport /\ Age)
  /\ WF_servicesVars(InKube /\ SweepStep) /\ WF_servicesVars(InKube /\ DeleteStep)
  /\ WF_servicesVars(InKube /\ GoneStep)
  /\ \A w \in Indexers : WF_servicesVars(InSearch /\ Index(w))
  /\ \A p \in Shells : /\ WF_servicesVars(InJob /\ ShellStep(p))
                        /\ WF_servicesVars(InJob /\ HearStop(p))
                        /\ WF_servicesVars(InJob /\ StepKilled(p))

---------------------------------------------------------------------------

(* The variables of the explored part hold values of their types.          *)
ServicesTypeOK ==
  /\ part = "import" => ImportTypeOK
  /\ part = "tree" => TreeTypeOK
  /\ part = "members" => MemberTypeOK
  /\ part = "accounts" => AccountsTypeOK
  /\ part = "kube" => KubeTypeOK
  /\ part = "backup" => BackupTypeOK
  /\ part = "search" => SearchTypeOK
  /\ part = "job" => JobTypeOK

(* Every import ends, the Job of a CI job that is over goes, every push     *)
(* leaves the queue of the search index, and the steps of a job that was    *)
(* cancelled are stopped.                                                   *)
Outstanding ==
  \/ part = "import" /\ ~JobEnded
  \/ \E j \in CiJobs : LeftOver(j)
  \/ Backlog
  \/ Unstopped
ServicesProgress == Outstanding ~> ~Outstanding
=============================================================================
