---------------------------- MODULE RunnerClock ----------------------------
(* The clocks of a runner process with one job slot and of the API that    *)
(* watches it, in units of five seconds: heartbeats of the poll loop and   *)
(* of the job, the long poll between them, and the checker that gives up   *)
(* on instances and runners it has not heard of.                           *)
EXTENDS Naturals

CONSTANTS PollUnits,      \* the longest long poll (55 s)
          BeatUnits,      \* between two heartbeats of a job (30 s)
          InstanceStale,  \* RUNNER_INSTANCE_STALE_SECS (90 s)
          RunnerOffline,  \* RUNNER_OFFLINE_AFTER_SECS (180 s)
          CheckUnits,     \* between two passes of the checker (30 s)
          MaxLost,        \* bound: requests of the runner that do not arrive
          Never           \* no row, no time, no job

ASSUME ClockAssumption ==
  /\ {PollUnits, BeatUnits, InstanceStale, RunnerOffline, CheckUnits} \subseteq Nat \ {0}
  /\ MaxLost \in Nat /\ Never \notin Nat

VARIABLES
  loop,        \* where the process is: beat, slot, poll, stopping, stopped, held, dead
  polled,      \* units the long poll has waited
  beating,     \* units since the last heartbeat of the job, Never without a job
  jobRow,      \* job_runs.status of the job of this instance
  instSeen,    \* age of runner_instances.last_seen_at
  seen,        \* age of runners.last_seen_at
  status,      \* runners.status
  checked,     \* units since the last pass of the checker
  tokenValid,
  goneFor,     \* history: units since the process stopped or died
  lost,        \* history: requests that did not arrive
  givenUp      \* history: the API failed the job of a process that ran it

clockVars == <<loop, polled, beating, jobRow, instSeen, seen, status, checked, tokenValid,
               goneFor, lost, givenUp>>
apiVars == <<jobRow, instSeen, seen, status>>

Alive == loop \notin {"stopped", "dead"}
HasJob == beating # Never
Older(age, bound) == IF age = Never \/ age > bound THEN age ELSE age + 1
Stale(age, bound) == age = Never \/ age > bound
BusyIf(running) == IF running THEN "busy" ELSE "online"

---------------------------------------------------------------------------
(* mark_stale_runners_offline: the jobs of lost instances, then those of   *)
(* lost runners, idle runners, offline runners, and the old instance rows. *)
LostJob == jobRow = "running" /\ (Stale(instSeen, InstanceStale) \/ Stale(seen, RunnerOffline))
MarkStale ==
  /\ jobRow' = IF LostJob THEN "failure" ELSE jobRow
  /\ givenUp' = (givenUp \/ (LostJob /\ HasJob /\ Alive))
  /\ status' = LET released == IF status = "busy" /\ jobRow' # "running" THEN "online" ELSE status
               IN IF released # "offline" /\ Stale(seen, RunnerOffline) /\ jobRow' # "running"
                  THEN "offline" ELSE released
  /\ instSeen' = IF Stale(instSeen, InstanceStale) THEN Never ELSE instSeen
  /\ UNCHANGED seen
(* spawn_runner_stale_checker *)
Check == /\ checked = CheckUnits /\ MarkStale /\ checked' = 0
         /\ UNCHANGED <<loop, polled, beating, tokenValid, goneFor, lost>>

(* runner_heartbeat; a request with an old token is answered 401, which the *)
(* runner does not look at.                                                *)
Heartbeat ==
  \/ /\ tokenValid
     /\ status' = BusyIf(jobRow = "running") /\ seen' = 0 /\ instSeen' = 0
     /\ UNCHANGED <<jobRow, lost>>
  \/ ~tokenValid /\ UNCHANGED <<apiVars, lost>>
  \/ lost < MaxLost /\ lost' = lost + 1 /\ UNCHANGED apiVars

(* run_loop: a heartbeat, a slot, a long poll *)
LoopBeat == /\ loop = "beat" /\ Heartbeat /\ loop' = "slot"
            /\ UNCHANGED <<polled, beating, checked, tokenValid, goneFor, givenUp>>
StartPoll == /\ loop = "slot" /\ ~HasJob
             /\ IF tokenValid THEN loop' = "poll" /\ polled' = 0 /\ MarkStale
                ELSE loop' = "held" /\ UNCHANGED <<apiVars, polled, givenUp>>
             /\ UNCHANGED <<beating, checked, tokenValid, goneFor, lost>>
(* claim_next_job, at any moment of the long poll *)
PollClaims == /\ loop = "poll" /\ tokenValid /\ jobRow # "running"
              /\ jobRow' = "running" /\ status' = "busy" /\ seen' = 0
              /\ beating' = 0 /\ loop' = "beat" /\ polled' = 0
              /\ UNCHANGED <<instSeen, checked, tokenValid, goneFor, lost, givenUp>>
(* No job, or a poll that failed: three seconds later the loop goes on. *)
PollEnds(arrives) ==
  /\ loop = "poll"
  /\ arrives => polled = PollUnits
  /\ ~arrives => lost < MaxLost
  /\ lost' = IF arrives THEN lost ELSE lost + 1
  /\ loop' = "beat" /\ polled' = 0
  /\ UNCHANGED <<apiVars, beating, checked, tokenValid, goneFor, givenUp>>

(* mutant: a job's heartbeats come every minute *)
JobBeatDueLate == HasJob /\ beating = 2 * BeatUnits
(* The task that run_loop starts beside the job sleeps before each heartbeat. *)
JobBeatDue == HasJob /\ beating = BeatUnits
JobBeat == /\ JobBeatDue /\ Heartbeat /\ beating' = 0
           /\ UNCHANGED <<loop, polled, checked, tokenValid, goneFor, givenUp>>
(* run_job ends and reports; the heartbeats stop even when the report is lost *)
JobEnds(arrives) ==
  /\ HasJob
  /\ ~arrives => lost < MaxLost
  /\ LET accepted == arrives /\ tokenValid /\ jobRow = "running"
     IN IF accepted THEN jobRow' = "done" /\ status' = "online" /\ seen' = 0
        ELSE UNCHANGED <<jobRow, status, seen>>
  /\ lost' = IF arrives THEN lost ELSE lost + 1
  /\ beating' = Never
  /\ UNCHANGED <<loop, polled, instSeen, checked, tokenValid, goneFor, givenUp>>

(* SIGTERM: the loop ends, running jobs are waited for, the row is removed *)
Stop == /\ loop \in {"slot", "poll"} /\ loop' = "stopping" /\ polled' = 0
        /\ UNCHANGED <<apiVars, beating, checked, tokenValid, goneFor, lost, givenUp>>
Deregister == /\ loop = "stopping" /\ ~HasJob /\ loop' = "stopped" /\ goneFor' = 0
              /\ instSeen' = IF tokenValid THEN Never ELSE instSeen
              /\ UNCHANGED <<jobRow, seen, status, polled, beating, checked, tokenValid, lost, givenUp>>
Die == /\ Alive /\ loop' = "dead" /\ beating' = Never /\ polled' = 0 /\ goneFor' = 0
       /\ UNCHANGED <<apiVars, checked, tokenValid, lost, givenUp>>
RotateToken == /\ tokenValid /\ tokenValid' = FALSE /\ status' = "offline" /\ seen' = Never
               /\ UNCHANGED <<jobRow, instSeen, loop, polled, beating, checked, goneFor, lost, givenUp>>

(* Five seconds pass when nothing is due: the pauses of the loop between   *)
(* two polls, and the time a request takes, are below the unit.            *)
Tick ==
  /\ loop # "beat" /\ ~(loop = "slot" /\ ~HasJob) /\ ~(loop = "poll" /\ polled = PollUnits)
  /\ ~JobBeatDue /\ checked < CheckUnits
  /\ polled' = IF loop = "poll" THEN polled + 1 ELSE polled
  /\ beating' = IF HasJob THEN beating + 1 ELSE beating
  /\ instSeen' = Older(instSeen, InstanceStale) /\ seen' = Older(seen, RunnerOffline)
  /\ checked' = checked + 1
  /\ goneFor' = Older(goneFor, InstanceStale + CheckUnits)
  /\ UNCHANGED <<loop, jobRow, status, tokenValid, lost, givenUp>>

ClockNext ==
  \/ Tick \/ Check \/ LoopBeat \/ StartPoll \/ PollClaims \/ JobBeat
  \/ \E b \in BOOLEAN : PollEnds(b) \/ JobEnds(b)
  \/ Stop \/ Deregister \/ Die \/ RotateToken
ClockInit ==
  /\ loop = "beat" /\ polled = 0 /\ beating = Never /\ jobRow = "none"
  /\ instSeen = Never /\ seen = Never /\ status = "offline" /\ checked = 0 /\ tokenValid = TRUE
  /\ goneFor = Never /\ lost = 0 /\ givenUp = FALSE
ClockSpec == ClockInit /\ [][ClockNext]_clockVars

---------------------------------------------------------------------------
ClockTypeOK ==
  /\ loop \in {"beat", "slot", "poll", "stopping", "stopped", "held", "dead"}
  /\ polled \in 0..PollUnits /\ beating \in 0..BeatUnits \cup {Never}
  /\ jobRow \in {"none", "running", "done", "failure"} /\ status \in {"online", "busy", "offline"}
  /\ instSeen \in 0..InstanceStale + 1 \cup {Never} /\ seen \in 0..RunnerOffline + 1 \cup {Never}
  /\ checked \in 0..CheckUnits /\ lost \in 0..MaxLost
  /\ HasJob => jobRow # "none" /\ Alive

(* The API never gives up on the job of a process whose requests arrive    *)
(* and whose token is good.                                                *)
LiveRunnerKept == lost = 0 /\ tokenValid => ~givenUp
(* ... and has given up on the job of a process that is gone one checker   *)
(* pass after the instance turned stale.                                   *)
DeadRunnerFound == goneFor # Never /\ goneFor > InstanceStale + CheckUnits => jobRow # "running"

(* Both: the 55 s poll, the 30 s heartbeat and the 90 s and 180 s windows  *)
(* fit together, for a process that lives and for one that is gone.        *)
RunnersSound == LiveRunnerKept /\ DeadRunnerFound
===========================================================================
