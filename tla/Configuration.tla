--------------------------- MODULE Configuration ---------------------------
(* From what a repository's file says to the jobs of a run: the conversion  *)
(* of a foreign file, the triggers and conditions, and the schedule.        *)
EXTENDS Scheduler, PipelineConfig, LegacyCi

ConfigurationSpec == SchedulerSpec /\ ConfigSpec /\ LegacySpec

(* What a file says is what its run gets: its schedule feeds the run, a     *)
(* re-run keeps the schedule, a job that waits for a click is not started   *)
(* by a push, and a converted file keeps the order of its stages.           *)
ConfigSound == ScheduleSound /\ RerunKeepsSchedule /\ ClickNeeded /\ StagesSchedule
============================================================================
