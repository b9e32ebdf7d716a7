--------------------------- MODULE PipelineConfig ---------------------------
(* From a configuration and a git ref to the mode of every job: the        *)
(* patterns of on: and if:, the environment of a run, the schedule mode of *)
(* a job, and what a run row keeps of all this for a later re-run.         *)
(* A name is a sequence of words, an absent field is None.                 *)
EXTENDS SequencesExt

CONSTANTS None,
          Refs,           \* git refs: [tag |-> BOOLEAN, name |-> sequence of words]
          Targets,        \* target_environment of a request, as typed
          Ons,            \* on: sections considered
          Conditions      \* if: sections considered

Events == {"push", "pull_request", "manual"}

ASSUME NoneAssumption ==
  /\ None \notin {"prod", "production", "dev", "qa", "uat", "prd"}
  /\ None \notin [event : Events, ref : Refs, environment : {None, "dev", "qa", "uat", "prd"}]

---------------------------------------------------------------------------
(* pattern.rs *)
Star == "*"
GlobMatch(p, v) ==
  IF p = <<Star>> THEN TRUE
  ELSE IF p # <<>> /\ Head(p) = Star THEN IsSuffix(Tail(p), v)
  ELSE IF p # <<>> /\ Last(p) = Star THEN IsPrefix(Front(p), v)
  ELSE p = v

MatchesOneOf(patterns, v) == \E p \in patterns : GlobMatch(p, v)
MatchesAny(patterns, v) == patterns \notin {None, {}} => MatchesOneOf(patterns, v)

(* trigger.rs.  A tag is looked up among the tags, then among the branches.*)
MatchesPush(on, ref) ==
  /\ on.push # None
  /\ \/ ref.tag /\ MatchesAny(on.push.tags, ref.name)
     \/ MatchesAny(on.push.branches, ref.name)
MatchesTrigger(on, event, ref) ==
  CASE event = "manual"       -> TRUE
    [] event = "pull_request" -> on.pull_request # None /\ MatchesAny(on.pull_request, ref.name)
    [] OTHER                  -> MatchesPush(on, ref)

---------------------------------------------------------------------------
(* environment.rs *)
CiEnvironments == {"dev", "qa", "uat", "prd"}
InferEnvironment(ref) ==
  IF ref.tag THEN IF IsPrefix(<<"release", "/">>, ref.name) THEN "prd" ELSE None
  ELSE CASE ref.name = <<"main">> -> "dev"
         [] ref.name = <<"qa">>   -> "qa"
         [] ref.name = <<"uat">>  -> "uat"
         [] OTHER                 -> None

Normalize(raw) ==
  CASE raw \in {"prod", "production"} -> "prd"
    [] raw \in CiEnvironments         -> raw
    [] OTHER                          -> None

(* The environment whose secrets a job gets: its own, the run's, or the    *)
(* one its name ends with.                                                 *)
EffectiveEnvironment(own, ofRun, suffix) ==
  IF own # None THEN IF Normalize(own) = None THEN own ELSE Normalize(own)
  ELSE IF ofRun # None THEN ofRun
  ELSE IF suffix \in CiEnvironments \cup {"prod"} THEN Normalize(suffix) ELSE None

Or(x, y) == IF x # None THEN x ELSE y

---------------------------------------------------------------------------
(* job_if.rs *)
RunContext(event, ref, environment, explicit) ==
  [event |-> event, ref |-> ref, environment |-> Or(environment, InferEnvironment(ref)),
   explicit |-> explicit]

NoCondition == [branch |-> None, tag |-> None, event |-> None, environment |-> None]

MatchesCondition(c, ctx) ==
  /\ c.branch # None => ~ctx.ref.tag /\ MatchesOneOf(c.branch, ctx.ref.name)
  /\ c.tag # None => ctx.ref.tag /\ MatchesOneOf(c.tag, ctx.ref.name)
  /\ c.event # None => MatchesAny(c.event, <<ctx.event>>)
  /\ c.environment # None =>
       ctx.environment # None /\ MatchesOneOf(c.environment, <<ctx.environment>>)

EnvironmentOnly(c) == c.environment # None /\ c.branch = None /\ c.tag = None

MatchesWithoutEvent(c, ctx) ==
  MatchesCondition([c EXCEPT !.event = None,
    !.environment = IF EnvironmentOnly(c) /\ ctx.event = "manual" /\ ~ctx.explicit THEN None ELSE @],
    ctx)

(* mutant: a list of events with manual among them is an automatic one *)
RequiresManualAlone(c) == c.event = {<<"manual">>}
RequiresManual(c) == c.event # None /\ <<"manual">> \in c.event

(* `branch: main` with event: manual: the button of a push run only. *)
InPipelinePlay(c, ctx) == c.branch # None /\ ctx.ref = [tag |-> FALSE, name |-> <<"main">>]
                          /\ <<"main">> \in c.branch

ManualMode(c, ctx) ==
  IF EnvironmentOnly(c)
  THEN IF ctx.event # "manual" \/ ~ctx.explicit THEN "Manual"
       ELSE IF MatchesCondition(c, ctx) THEN "Queued" ELSE "Skipped"
  ELSE IF ctx.event # "manual" THEN "Manual"
  ELSE IF InPipelinePlay(c, ctx) THEN "Skipped" ELSE "Queued"

ScheduleMode(c, ctx) ==
  IF ~MatchesWithoutEvent(c, ctx) THEN "Skipped"
  ELSE IF RequiresManual(c) THEN ManualMode(c, ctx)
  ELSE IF MatchesCondition(c, ctx) THEN "Queued" ELSE "Skipped"

(* parse_if_expression: the clauses of `a == x || b == y`, gathered by     *)
(* field; between two fields the || becomes an "and".                      *)
ParseIf(clauses) ==
  LET of(field) == LET vs == {c[2] : c \in {d \in clauses : d[1] = field}}
                   IN IF vs = {} THEN None ELSE vs
  IN [branch |-> of("branch"), tag |-> of("tag"), event |-> of("event"),
      environment |-> of("environment")]

---------------------------------------------------------------------------
(* Scheduler::build_schedule_context: without a chosen environment, a run  *)
(* started by hand on a ref that a push would run is scheduled as a push.  *)
ScheduleContext(on, event, ref, environment, explicit) ==
  RunContext(IF event = "manual" /\ ~explicit /\ MatchesPush(on, ref) THEN "push" ELSE event,
             ref, environment, explicit /\ event = "manual")

---------------------------------------------------------------------------
(* process_trigger_now writes the row of the run and schedules its jobs;   *)
(* rerun_pipeline schedules them again from the row.                       *)

VARIABLES on,         \* the on: section at the commit
          run,        \* the pipeline_runs row, or None
          first,      \* the context the jobs were scheduled in
          again       \* the context of the latest re-run
configVars == <<on, run, first, again>>

ConfigInit == on \in Ons /\ run = None /\ first = None /\ again = None

(* mutant: the inferred environment is kept as well *)
StoredEnvironmentInferred(event, explicit, environment) == environment
(* The row keeps the environment only when the user chose it. *)
StoredEnvironment(event, explicit, environment) ==
  IF event = "manual" THEN explicit ELSE environment

CreateRun(event, ref, target) ==
  LET explicit == Normalize(target)
      environment == Or(explicit, InferEnvironment(ref))
  IN /\ run = None
     /\ target # None => event = "manual" /\ explicit # None
     /\ MatchesTrigger(on, event, ref)
     /\ run' = [event |-> event, ref |-> ref,
                environment |-> StoredEnvironment(event, explicit, environment)]
     /\ first' = ScheduleContext(on, event, ref, environment, event = "manual" /\ explicit # None)
     /\ UNCHANGED <<on, again>>

Reschedule ==
  /\ run # None
  /\ again' = ScheduleContext(on, run.event, run.ref, Or(run.environment, InferEnvironment(run.ref)),
                run.event = "manual" /\ run.environment # None)
  /\ UNCHANGED <<on, run, first>>

ConfigNext ==
  \/ \E event \in Events, ref \in Refs, target \in Targets \cup {None} : CreateRun(event, ref, target)
  \/ Reschedule

ConfigSpec == ConfigInit /\ [][ConfigNext]_configVars

---------------------------------------------------------------------------
(* A re-run gives every job the mode and the secrets it had when the run   *)
(* was created: nothing they depend on is lost between process_trigger_now *)
(* and rerun_pipeline, which sees only the row.                            *)
RerunKeepsSchedule ==
  again # None =>
    /\ \A c \in Conditions : ScheduleMode(c, again) = ScheduleMode(c, first)
    /\ \A own, suffix \in CiEnvironments \cup {None} :
         EffectiveEnvironment(own, again.environment, suffix)
           = EffectiveEnvironment(own, first.environment, suffix)

(* A job that asks for a click (event: manual) starts by itself only in a  *)
(* run somebody started by hand, and not in one that mirrors a push        *)
(* (JobIfMatcher::schedule_mode).                                          *)
ClickNeeded ==
  first # None =>
    \A c \in Conditions : c.event # None /\ <<"manual">> \in c.event /\ ScheduleMode(c, first) = "Queued"
      => run.event = "manual" /\ ~(run.environment = None /\ MatchesPush(on, run.ref))

(* docs/CICD_WORKFLOWS.md:273-275: a job with `environment: qa` and        *)
(* `event: manual` is shown with a play button on a push.                  *)
ManualOnPush ==
  first # None /\ run.event = "push" =>
    \A c \in Conditions : EnvironmentOnly(c) /\ c.event = {<<"manual">>} => ScheduleMode(c, first) = "Manual"
===========================================================================
