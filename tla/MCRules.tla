------------------------------ MODULE MCRules ------------------------------
(* What a job is made of and what its runner is given, and what users write *)
(* by hand, tags and wiki pages: each behaviour explores one of these       *)
(* modules, the others stay in one initial state.                           *)
EXTENDS Configuration, RegistryNames, RunnerClock, CiSecrets,
        Tags, WikiPages, TLC
CONSTANTS build, test, deploy, missing, ghcr, app, web, api, c1, c2, v1
VARIABLE part
rulesVars == <<schedulerVars, configVars, legacyVars, namesVars, clockVars, secretVars,
               tagVars, wikiVars, part>>

(* The schedule *)
MCPosition == test :> 1 @@ build :> 2 @@ deploy :> 3
MCParallel == build :> 2 @@ test :> 0 @@ deploy :> 9
MCNeeds == [JobNames -> SUBSET JobNames]
           \cup {[j \in JobNames |-> IF j = deploy THEN {build, missing} ELSE {}]}
MCWants == [JobNames -> {"Queued", "Manual", "Skipped"}]
MCClicks == {{}, {test}, {build, deploy}}

(* Contexts *)
Branch(n) == [tag |-> FALSE, name |-> n]
Tag(n) == [tag |-> TRUE, name |-> n]
MCRefs == {Branch(<<"main">>), Branch(<<"qa">>), Branch(<<"feature", "/", "x">>),
           Tag(<<"release", "/", "1">>), Tag(<<"v1">>)}
MCOns == [push : {None, [branches |-> None, tags |-> {}],
                  [branches |-> {<<"main">>, <<"*", "x">>}, tags |-> {<<"v1">>}]},
          pull_request : {None, {<<"main">>}}]
MCConditions ==
  [branch : {None, {<<"main">>}, {<<"feature", "/", "*">>}}, tag : {None, {<<"*">>}},
   event : {None, {<<"push">>}, {<<"manual">>}, {<<"push">>, <<"manual">>}},
   environment : {None, {<<"qa">>}, {<<"dev">>, <<"prd">>}}]
  \cup {ParseIf({<<"branch", <<"main">> >>, <<"event", <<"manual">> >>})}

(* Foreign configurations *)
GitlabJob(st, x, nd, only, when) ==
  [stage |-> st, script |-> x, needs |-> nd, only |-> only, when |-> when]
MCGitlabFiles ==
  {[stages |-> st,
    jobs |-> [j \in JobNames |->
      CASE j = build -> GitlabJob(sb, xb, {}, {"branches"}, "manual")
        [] j = test  -> GitlabJob(s2, x2, {}, {"main", "tags"}, Unset)
        [] OTHER     -> GitlabJob("deploy", TRUE, nd, {}, Unset)]] :
     st \in {<<>>, <<"build", "test", "deploy">>, <<"test", "build", "deploy">>,
             <<"build", "test", "build">>},
     sb \in {"build", Unset}, s2 \in {"test", "deploy"}, xb, x2 \in BOOLEAN,
     nd \in {{}, {build}}}
  \cup {[stages |-> <<>>, jobs |-> [j \in {build} |-> GitlabJob(Unset, FALSE, {}, {}, Unset)]]}
MCGithubFiles ==
  {[on |-> on0, 
    jobs |-> [j \in {build, test} |-> IF j = build THEN [steps |-> s, needs |-> {}]
                                                  ELSE [steps |-> {"run"}, needs |-> {build}]]] :
     on0 \in {Unset, {"pull_request"}, {"schedule"}}, s \in {{"checkout"}, {"checkout", "uses"}}}

(* Names *)
MCPaths == {<<app, web>>, <<app, web, api>>, <<app>>, <<Providers, ghcr, app, web>>,
            <<Providers, ghcr, app, web, api>>}
MCActions == {{}, {"pull"}, {"push", "pull"}, {"delete", "push"}}
MCAsked == {{<<p, a>>} : p \in MCPaths, a \in MCActions}
           \cup {{<<p, {"pull"}>>, <<q, {"push"}>>} : p, q \in MCPaths}
MCPrincipals ==
  {[ci |-> TRUE, allowed |-> <<app, web>>, subpaths |-> s, super |-> FALSE, may |-> {}] : s \in BOOLEAN}
  \cup {[ci |-> FALSE, allowed |-> <<>>, subpaths |-> FALSE, super |-> s, may |-> m] :
          s \in BOOLEAN, m \in {{}, {<< <<app>>, web, "pull">>},
                                {<< <<app>>, web, "pull">>, << <<app>>, web, "push">>}}}
MCCatalogs ==
  {[entries |-> E, column |-> c] : E \in SUBSET (1..4), c \in {[e \in 1..4 |-> e], [e \in 1..4 |-> 5 - e]}}

(* Secrets *)
MCMayManage == c1 :> Levels @@ c2 :> {"group"}
MCCreates == {[scope |-> s, kind |-> Keep, masked |-> Keep, env |-> e] :
                s \in {Keep, "variable"}, e \in {Keep, "qa"}}
MCEdits == {[value |-> FALSE, scope |-> Keep, kind |-> Keep, masked |-> TRUE, env |-> Keep],
            [value |-> TRUE, scope |-> Keep, kind |-> Keep, masked |-> Keep, env |-> Keep],
            [value |-> FALSE, scope |-> "secret", kind |-> "file", masked |-> Keep, env |-> "prd"]}
MCJobContexts == {[env |-> "qa", target |-> NoEntry, tag |-> FALSE, image |-> FALSE, config |-> TRUE,
                   pr |-> FALSE, runner |-> TRUE, registry |-> TRUE]}

OneSchedule == needs = [j \in JobNames |-> {}] /\ want = [j \in JobNames |-> "Queued"] /\ clicked = {}
OneConfig == on = [push |-> None, pull_request |-> None]

OneCommit == CHOOSE k \in Commits : TRUE

RulesInit ==
  /\ part \in {"schedule", "config", "legacy", "names", "clock", "secrets", "tags", "wiki"}
  /\ SchedulerInit /\ (part # "schedule" => OneSchedule)
  /\ ConfigInit /\ (part # "config" => OneConfig)
  /\ LegacyInit /\ NamesInit /\ ClockInit /\ SecretsInit /\ WikiInit
  /\ TagsInit /\ tagRef = [t \in TagNames |-> IF t = v1 THEN OneCommit ELSE NoTag]
Only(p, others) == part = p /\ UNCHANGED <<others, part>>
ScheduleStep ==
  /\ Only("schedule", <<configVars, legacyVars, namesVars, clockVars, secretVars, tagVars, wikiVars>>)
  /\ SchedulerNext
ConfigStep ==
  /\ Only("config", <<schedulerVars, legacyVars, namesVars, clockVars, secretVars, tagVars, wikiVars>>)
  /\ ConfigNext
LegacyStep ==
  /\ Only("legacy", <<schedulerVars, configVars, namesVars, clockVars, secretVars, tagVars, wikiVars>>)
  /\ LegacyNext
NamesStep ==
  /\ Only("names", <<schedulerVars, configVars, legacyVars, clockVars, secretVars, tagVars, wikiVars>>)
  /\ NamesNext
ClockStep ==
  /\ Only("clock", <<schedulerVars, configVars, legacyVars, namesVars, secretVars, tagVars, wikiVars>>)
  /\ ClockNext
SecretStep ==
  /\ Only("secrets", <<schedulerVars, configVars, legacyVars, namesVars, clockVars, tagVars, wikiVars>>)
  /\ SecretsNext
TagStep ==
  /\ Only("tags", <<schedulerVars, configVars, legacyVars, namesVars, clockVars, secretVars, wikiVars>>)
  /\ TagsNext
WikiStep ==
  /\ Only("wiki", <<schedulerVars, configVars, legacyVars, namesVars, clockVars, secretVars, tagVars>>)
  /\ WikiNext
RulesNext ==
  \/ ScheduleStep \/ ConfigStep \/ LegacyStep \/ NamesStep \/ ClockStep
  \/ SecretStep \/ TagStep \/ WikiStep
RulesSpec == RulesInit /\ [][RulesNext]_rulesVars

(* The variables of the explored part hold values of their types.          *)
RulesTypeOK ==
  /\ SchedulerTypeOK /\ ClockTypeOK /\ SecretsTypeOK
  /\ part = "tags" => TagsTypeOK
  /\ part = "wiki" => WikiTypeOK
============================================================================
