------------------------------ MODULE CiSecrets ----------------------------
(* The CI secrets and variables of one name: rows of the server, the group *)
(* and the repository, one per environment; requests that edit a row with *)
(* a read and up to two writes; and the answer a runner gets for a job,  *)
(* which one query per level puts together, lowest precedence first.       *)
EXTENDS Naturals, FiniteSets

CONSTANTS SecretIds, SecretClients,
          MayManage,       \* client -> the levels whose secrets it may manage
          Creates,       \* what a client may ask to create
          Edits,         \* what it may ask to change; Keep: not in the request
          JobContexts,   \* what is known of the job; env and target may be NoEntry
          MaxSecretAsks, \* bound: requests
          Keep, NoEntry

Levels == {"server", "group", "repository"}
SecretEnvs == {"all"} \cup {r.env : r \in Creates \cup Edits}
SecretRows ==
  [level : Levels, env : SecretEnvs, scope : {"secret", "variable"},
   kind : {"variable", "file"}, masked : BOOLEAN]

ASSUME SecretsAssumption ==
  /\ MayManage \in [SecretClients -> SUBSET Levels]
  /\ \A r \in Creates \cup Edits : /\ r.scope \in {"secret", "variable", Keep}
                                  /\ r.kind \in {"variable", "file", Keep}
                                  /\ r.masked \in BOOLEAN \cup {Keep}
  /\ NoEntry \notin SecretIds \cup SecretRows /\ MaxSecretAsks \in Nat

VARIABLES
  entry,       \* instance_, organization_ and repository_secrets by id
  edit,        \* update requests between their queries
  ciJob,       \* the job the runner asks for: one of JobContexts
  fetch,       \* load_job_secrets_for_runner: the next query, and what is merged
  given,       \* what prepare_secrets made of the answer
  kept,        \* history: the rows that were there for the job all through the fetch
  unmasked,    \* history: an update that does not speak of the mask took it away
  mingled,     \* history: a row changed between the read and the write of an update
  secretAsks   \* history: requests so far

secretVars == <<entry, edit, ciJob, fetch, given, kept, unmasked, mingled, secretAsks>>

LevelRank == [server |-> 1, group |-> 2, repository |-> 3]
Entries == {i \in SecretIds : entry[i] # NoEntry}
NewRow == CHOOSE i \in SecretIds : entry[i] = NoEntry
NoEdit == [pc |-> "idle"]
OrElse(asked, otherwise) == IF asked = Keep THEN otherwise ELSE asked

(* CiSecretEnvironment::matches_job *)
MatchesJob(e) == e.env = "all" \/ (ciJob.env # NoEntry /\ e.env = ciJob.env)
(* the unique keys on (name, environment) *)
Taken(l, env, i) == \E k \in Entries \ {i} : entry[k].level = l /\ entry[k].env = env
KindOf(scope, kind) == IF scope = "variable" THEN "variable" ELSE kind
DefaultMasked(scope) == scope = "secret"

Asks(c) == secretAsks < MaxSecretAsks /\ edit[c].pc = "idle" /\ secretAsks' = secretAsks + 1
(* Rows that changed are no longer there all through the fetch. *)
WriteEntry(i, row) ==
  /\ entry' = [entry EXCEPT ![i] = row]
  /\ kept' = IF row # NoEntry /\ MatchesJob(row) THEN kept ELSE kept \ {i}
  /\ mingled' = (mingled \/ \E c \in SecretClients : edit[c].pc # "idle" /\ edit[c].id = i)
Unwritten == UNCHANGED <<entry, kept, mingled>>

---------------------------------------------------------------------------
CreateAt(c, l, r) ==
  /\ l \in MayManage[c] /\ Asks(c) /\ Entries # SecretIds
  /\ LET scope == OrElse(r.scope, "secret") env == OrElse(r.env, "all") IN
     IF Taken(l, env, NoEntry) THEN Unwritten
     ELSE WriteEntry(NewRow, [level |-> l, env |-> env, scope |-> scope, kind |-> KindOf(scope, OrElse(r.kind, "variable")),
                 masked |-> OrElse(r.masked, DefaultMasked(scope))])
  /\ UNCHANGED <<edit, ciJob, fetch, given, unmasked>>
CreateServer(c, r) == CreateAt(c, "server", r)
CreateGroup(c, r) == CreateAt(c, "group", r)
CreateRepository(c, r) == CreateAt(c, "repository", r)

(* The update reads scope, kind and mask, and writes all three. *)
OpenUpdate(c, l, i, r) ==
  /\ l \in MayManage[c] /\ i \in Entries /\ entry[i].level = l /\ Asks(c)
  /\ edit' = [edit EXCEPT ![c] = [pc |-> "write", id |-> i, ask |-> r, read |-> entry[i]]]
  /\ Unwritten /\ UNCHANGED <<ciJob, fetch, given, unmasked>>
OpenServer(c, i, r) == OpenUpdate(c, "server", i, r)
OpenGroup(c, i, r) == OpenUpdate(c, "group", i, r)
OpenRepository(c, i, r) == OpenUpdate(c, "repository", i, r)

NextMask(r, old) ==
  OrElse(r.masked, IF OrElse(r.scope, old.scope) = old.scope THEN old.masked ELSE DefaultMasked(r.scope))
CommitUpdate(c) ==
  /\ edit[c].pc = "write"
  /\ LET r == edit[c].ask old == edit[c].read i == edit[c].id
         scope == OrElse(r.scope, old.scope)
         asked == r.value \/ r.scope # Keep \/ r.kind # Keep \/ r.masked # Keep \/ r.env # Keep
         new == [entry[i] EXCEPT !.scope = scope, !.kind = KindOf(scope, OrElse(r.kind, old.kind)),
                                 !.masked = NextMask(r, old)]
         more == ~r.value /\ r.env # Keep
     IN /\ edit' = [edit EXCEPT ![c] = IF more THEN [@ EXCEPT !.pc = "environment"] ELSE NoEdit]
        /\ IF asked /\ i \in Entries
           THEN /\ entry' = [entry EXCEPT ![i] = new]
                /\ kept' = kept
                /\ mingled' = (mingled \/ \E d \in SecretClients \ {c} : edit[d].pc # "idle" /\ edit[d].id = i)
                /\ unmasked' = (unmasked \/ (entry[i].masked /\ ~new.masked
                                             /\ r.masked = Keep /\ r.scope = Keep))
           ELSE Unwritten /\ UNCHANGED unmasked
  /\ UNCHANGED <<ciJob, fetch, given, secretAsks>>
(* The environment is a second statement, which the unique key may refuse. *)
CommitEnvironment(c) ==
  /\ edit[c].pc = "environment"
  /\ LET i == edit[c].id env == edit[c].ask.env IN
     IF i \notin Entries \/ Taken(entry[i].level, env, i) THEN Unwritten
     ELSE /\ entry' = [entry EXCEPT ![i].env = env]
          /\ kept' = IF MatchesJob([env |-> env]) THEN kept ELSE kept \ {i}
          /\ mingled' = (mingled \/ \E d \in SecretClients \ {c} : edit[d].pc # "idle" /\ edit[d].id = i)
  /\ edit' = [edit EXCEPT ![c] = NoEdit]
  /\ UNCHANGED <<ciJob, fetch, given, unmasked, secretAsks>>

DeleteAt(c, l, i) == /\ l \in MayManage[c] /\ i \in Entries /\ entry[i].level = l /\ Asks(c)
                     /\ WriteEntry(i, NoEntry) /\ UNCHANGED <<edit, ciJob, fetch, given, unmasked>>
DeleteServer(c, i) == DeleteAt(c, "server", i)
DeleteGroup(c, i) == DeleteAt(c, "group", i)
DeleteRepository(c, i) == DeleteAt(c, "repository", i)

---------------------------------------------------------------------------
(* The names that every job gets, from what is known of the job *)
PredefinedVars(ctx) ==
  {"CI_PIPELINE_ID", "CI_JOB_ID", "CI_COMMIT_SHA", "CI_COMMIT_REF_NAME", "CI_PROJECT_PATH", "CI_SERVER_URL"}
  \cup (IF ctx.tag THEN {"CI_COMMIT_TAG"} ELSE {"CI_COMMIT_BRANCH"})
  \cup (IF ctx.image THEN {"CI_JOB_IMAGE"} ELSE {})
  \cup (IF ctx.config THEN {"CI_CONFIG_PATH"} ELSE {})
  \cup (IF ctx.env # NoEntry \/ ctx.target # NoEntry THEN {"CI_ENVIRONMENT_NAME"} ELSE {})
  \cup (IF ctx.pr THEN {"CI_MERGE_REQUEST_IID"} ELSE {})
  \cup (IF ctx.runner THEN {"CI_RUNNER_ID"} ELSE {})
(* The credentials of the built-in registry, unless they are turned off *)
AutoRegistry(ctx) == IF ctx.registry THEN {"CI_REGISTRY", "CI_REGISTRY_PASSWORD"} ELSE {}

(* load_job_secrets_for_runner: the job and its context, then a level a query *)
FetchContext == /\ fetch.next = "context"
                /\ fetch' = [next |-> "server", merged |-> NoEntry]
                /\ kept' = {i \in Entries : MatchesJob(entry[i])}
                /\ UNCHANGED <<entry, edit, ciJob, given, unmasked, mingled, secretAsks>>
(* mutant: the repository's rows are merged before the group's *)
AfterSwapped == [server |-> "repository", repository |-> "group", group |-> "sent"]
After == [server |-> "group", group |-> "repository", repository |-> "sent"]
(* Rows of one level that match come in any order: the last one stays. *)
ReadLevel(l) ==
  /\ fetch.next = l
  /\ LET found == {i \in Entries : entry[i].level = l /\ MatchesJob(entry[i])} IN
     \E m \in IF found = {} THEN {fetch.merged} ELSE {entry[i] : i \in found} :
        fetch' = [next |-> After[l], merged |-> m]
  /\ UNCHANGED <<entry, edit, ciJob, given, kept, unmasked, mingled, secretAsks>>

(* prepare_secrets: a fetch that fails leaves the predefined variables; what *)
(* is of scope variable resolves vars.NAME, the rest secrets.NAME.         *)
Prepare(arrives) ==
  /\ given = NoEntry
  /\ arrives => fetch.next = "sent"
  /\ LET m == IF arrives THEN fetch.merged ELSE NoEntry
         variable == m # NoEntry /\ m.scope = "variable"
         own == PredefinedVars([ciJob EXCEPT !.runner = FALSE])
     IN given' = [names |-> own \cup (IF arrives THEN PredefinedVars(ciJob) \cup AutoRegistry(ciJob) ELSE {}),
                  inject |-> m, secretRef |-> IF variable THEN NoEntry ELSE m,
                  varRef |-> IF variable THEN m ELSE NoEntry,
                  mask |-> m # NoEntry /\ m.masked]
  /\ fetch' = IF arrives THEN fetch ELSE [fetch EXCEPT !.next = "failed"]
  /\ UNCHANGED <<entry, edit, ciJob, kept, unmasked, mingled, secretAsks>>

SecretsNext ==
  \/ \E c \in SecretClients :
       \/ \E r \in Creates : CreateServer(c, r) \/ CreateGroup(c, r) \/ CreateRepository(c, r)
       \/ \E i \in SecretIds, r \in Edits : OpenServer(c, i, r) \/ OpenGroup(c, i, r) \/ OpenRepository(c, i, r)
       \/ CommitUpdate(c) \/ CommitEnvironment(c)
       \/ \E i \in SecretIds : DeleteServer(c, i) \/ DeleteGroup(c, i) \/ DeleteRepository(c, i)
  \/ FetchContext \/ \E l \in Levels : ReadLevel(l)
  \/ \E b \in BOOLEAN : Prepare(b)
SecretsInit ==
  /\ entry = [i \in SecretIds |-> NoEntry] /\ edit = [c \in SecretClients |-> NoEdit]
  /\ ciJob \in JobContexts /\ fetch = [next |-> "context", merged |-> NoEntry]
  /\ given = NoEntry /\ kept = {} /\ unmasked = FALSE /\ mingled = FALSE /\ secretAsks = 0
SecretsSpec == SecretsInit /\ [][SecretsNext]_secretVars

---------------------------------------------------------------------------
SecretsTypeOK ==
  /\ entry \in [SecretIds -> SecretRows \cup {NoEntry}]
  /\ \A i \in Entries : ~Taken(entry[i].level, entry[i].env, i)
  /\ kept \subseteq Entries /\ secretAsks \in 0..MaxSecretAsks

(* A row that matches the job all through the fetch is delivered, or one of*)
(* a level at least as close to the repository, whatever is created, moved *)
(* and deleted between the queries.                                        *)
ClosestRowWins ==
  fetch.next = "sent" /\ given = NoEntry =>
    \A i \in kept : /\ fetch.merged # NoEntry
                    /\ LevelRank[fetch.merged.level] >= LevelRank[entry[i].level]
(* An update that does not speak of the mask leaves a masked entry masked, *)
(* unless two updates of the entry overlap.                                *)
MaskStays == unmasked => mingled

(* Both: a job is given the closest entry of a name (load_job_secrets), and*)
(* a masked entry stays masked (update_ci_secret).                         *)
SecretsSound == ClosestRowWins /\ MaskStays
===========================================================================
