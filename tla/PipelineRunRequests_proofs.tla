--------------------- MODULE PipelineRunRequests_proofs ---------------------
(***************************************************************************)
(* What the requests for a pipeline run do to it, for every schedule and   *)
(* pool of runner processes: first when they race, then when they are      *)
(* served one at a time.                                                   *)
(***************************************************************************)
EXTENDS PipelineRunLease, PipelineRun_proofs

-----------------------------------------------------------------------------
(***************************************************************************)
(* Requests that race, any number of them: whatever they do, the runners   *)
(* see the leases of JobLease; and as long as nobody re-runs, plays or     *)
(* opens the page, a cancelled run stays still.                            *)
(***************************************************************************)
Mapped == <<leasePhase, leaseHolder, leaseBusy>>

-----------------------------------------------------------------------------
(* How changes of the rows and of the processes show through the mapping.  *)

LEMMA PhaseFacts ==
    /\ PhaseOf("absent") = "none" /\ PhaseOf("queued") = "waiting"
    /\ PhaseOf("manual") = "parked" /\ PhaseOf("skipped") = "parked"
    /\ PhaseOf("running") = "held" /\ PhaseOf("success") = "passed"
    /\ PhaseOf("failure") = "failed" /\ PhaseOf("cancelled") = "cancelled"
BY DEF PhaseOf

LEMMA PhaseRange == \A status \in JobStatuses : PhaseOf(status) \in Lease!Phases
BY PhaseFacts DEF JobStatuses, Lease!Phases

(* A statement that leaves status and holder of the rows alone is a        *)
(* stutter of their part of the mapping.                                   *)
LEMMA SameRows ==
    ASSUME TypeOK,
           \A j \in Jobs : /\ job'[j].status = job[j].status
                           /\ job'[j].holder = job[j].holder
    PROVE  leasePhase' = leasePhase /\ leaseHolder' = leaseHolder
BY DEF leasePhase, leaseHolder

(* A statement that moves the rows of J to one status other than running.  *)
LEMMA ChangeRows ==
    ASSUME TypeOK, NEW J \in SUBSET Jobs, NEW from, NEW status \in JobStatuses \ {"running"},
           leaseBusy' = leaseBusy,
           \A j \in J : PhaseOf(job[j].status) \in from /\ job'[j].status = status,
           \A j \in Jobs \ J : /\ job'[j].status = job[j].status
                               /\ job'[j].holder = job[j].holder
    PROVE  Lease!Change(J, from, PhaseOf(status))
<1>1. \A j \in J : leasePhase[j] \in from
  BY DEF leasePhase
<1>2. leasePhase' = [j \in Jobs |-> IF j \in J THEN PhaseOf(status) ELSE leasePhase[j]]
  BY DEF leasePhase
<1>3. leaseHolder' = [j \in Jobs |-> IF j \in J THEN NoPod ELSE leaseHolder[j]]
  BY DEF leaseHolder
<1> QED
  BY <1>1, <1>2, <1>3 DEF Lease!Change

(* Statements of handlers do not touch the processes. *)
LEMMA SameBusy == UNCHANGED exec => leaseBusy' = leaseBusy
BY DEF leaseBusy

(* A process becomes idle. *)
LEMMA QuitExec ==
    ASSUME TypeOK, NEW p \in Pods, exec' = [exec EXCEPT ![p] = Idle], UNCHANGED job
    PROVE  Lease!Quit(p)
<1>1. leasePhase' = leasePhase /\ leaseHolder' = leaseHolder
  BY SameRows
<1>2. leaseBusy' = [leaseBusy EXCEPT ![p] = {}]
  BY DEF leaseBusy, TypeOK, Idle
<1> QED
  BY <1>1, <1>2 DEF Lease!Quit

(* Only the reply of a handler lets a process go on. *)
LEMMA StepLeavesProcesses ==
    ASSUME NEW s \in Slots, Step(s), ~Reply(s)
    PROVE  UNCHANGED exec
<1>1. CASE MaterializeRow(s) \/ MaterializeCheck(s) \/ MaterializeFinal(s)
           \/ CompleteCheck(s) \/ CompleteUnlock(s) \/ CompletePending(s)
  BY <1>1 DEF MaterializeRow, MaterializeCheck, MaterializeFinal, CompleteCheck,
        CompleteUnlock, CompletePending, Outside
<1>2. CASE Rerun(s)
  BY <1>2 DEF Rerun, IdleStatus, IdleActive, RerunNames, RerunReset, RerunJobRead,
        RerunJobRun, Read, Outside
<1>3. CASE Finalize(s)
  BY <1>3 DEF Finalize, FinalizeStatus, FinalizeRunning, FinalizeFailed, FinalizeFail,
        FinalizeSkip, FinalizeSkipCheck, FinalizeRemaining, FinalizeAllSkipped,
        FinalizeSkipped, FinalizeSuccess, Read, Outside
<1>4. CASE Reclaim(s)
  BY <1>4 DEF Reclaim, ReclaimTimed, ReclaimLost, ReclaimJob, ReclaimCheck, ReclaimNext,
        Outside
<1>5. CASE ForceFinalize(s)
  BY <1>5 DEF ForceFinalize, ForceStatus, ForceActive, ForceFailed, ForceCancelled,
        ForceSkipped, ForceDecide, ForceWrite, Read, Outside
<1>6. CASE UserWrites(s)
  BY <1>6 DEF UserWrites, CancelTx, CancelCheck, CancelStepUpdate, CancelStepCheck,
        PlayBlocked, PlayUpdate, PlayRun, PlayCheck, Read, Outside
<1> QED
  BY <1>1, <1>2, <1>3, <1>4, <1>5, <1>6 DEF Step

-----------------------------------------------------------------------------
(* Every statement of a handler. *)

LEMMA StepImplements ==
    ASSUME RowsInv, NEW s \in Slots, Step(s)
    PROVE  Lease!Next \/ UNCHANGED Mapped
<1>0. TypeOK /\ job \in [Jobs -> Rows]
  BY DEF RowsInv, TypeOK
<1>1. CASE Reply(s)
  <2>1. CASE exec' = exec
    <3>1. UNCHANGED job
      BY <1>1 DEF Reply, DB
    <3> QED
      BY <1>0, <2>1, <3>1, SameRows, SameBusy DEF Mapped
  <2>2. CASE slot[s].pod \in Pods /\ exec' = [exec EXCEPT ![slot[s].pod] = Idle]
    <3>1. UNCHANGED job
      BY <1>1 DEF Reply, DB
    <3>2. Lease!Quit(slot[s].pod)
      BY <1>0, <2>2, <3>1, QuitExec
    <3> QED
      BY <2>2, <3>2 DEF Lease!Next
  <2> QED
    BY <1>0, <1>1, <2>1, <2>2 DEF Reply, TypeOK
<1>2. CASE ~Reply(s)
  <2>1. leaseBusy' = leaseBusy
    <3>1. UNCHANGED exec
      BY <1>2, StepLeavesProcesses
    <3> QED
      BY <3>1, SameBusy
  <2>2. CASE job' = job
    BY <1>0, <2>1, <2>2, SameRows DEF Mapped
  <2>3. CASE MaterializeRow(s)
    <3>1. PICK j \in slot[s].todo :
            job' = [job EXCEPT ![j] = MaterialRow(j, ResetOf(slot[s].kind))]
      BY <2>3 DEF MaterializeRow
    <3>2. j \in Jobs
      BY <1>0, <3>1 DEF TypeOK, SlotStates
    <3>3. job'[j].status \in {"queued", "manual", "skipped"}
      BY <1>0, <3>1, <3>2 DEF MaterialRow, MaterialStatus, NewRow
    <3>4. \A k \in Jobs \ {j} : job'[k] = job[k]
      BY <1>0, <3>1
    <3>5. PhaseOf(job[j].status) \in Lease!Phases
      BY <1>0, <3>2, PhaseRange DEF Rows
    <3>6. Lease!Change({j}, Lease!Phases, PhaseOf(job'[j].status))
      BY <1>0, <2>1, <3>2, <3>3, <3>4, <3>5, ChangeRows DEF JobStatuses
    <3>7. Lease!Schedule(j)
      BY <3>3, <3>6, PhaseFacts DEF Lease!Schedule
    <3> QED
      BY <3>2, <3>7 DEF Lease!Next
  <2>4. CASE CompleteUnlock(s)
    <3> DEFINE free == Unlocked(job, slot[s].job)
    <3>1. free \in SUBSET Jobs /\ \A j \in free : job[j].status = "skipped"
      BY DEF Unlocked
    <3>2. /\ \A j \in free : job'[j].status = "queued"
          /\ \A j \in Jobs \ free : job'[j] = job[j]
      BY <1>0, <2>4, <3>1 DEF CompleteUnlock, Rows
    <3> HIDE DEF free
    <3>3. Lease!Change(free, {"parked"}, PhaseOf("queued"))
      BY <1>0, <2>1, <3>1, <3>2, PhaseFacts, ChangeRows DEF JobStatuses
    <3>4. Lease!Release(free)
      BY <3>3, PhaseFacts DEF Lease!Release
    <3> QED
      BY <3>1, <3>4 DEF Lease!Next
  <2>5. CASE FinalizeSkip(s)
    <3> DEFINE queued == {j \in Jobs : job[j].status = "queued"}
    <3>1. /\ \A j \in queued : job'[j].status = "skipped"
          /\ \A j \in Jobs \ queued : job'[j] = job[j]
      BY <1>0, <2>5 DEF FinalizeSkip, Rows
    <3>2. queued \in SUBSET Jobs /\ \A j \in queued : job[j].status = "queued"
      OBVIOUS
    <3> HIDE DEF queued
    <3>3. Lease!Change(queued, {"waiting"}, PhaseOf("skipped"))
      BY <1>0, <2>1, <3>1, <3>2, PhaseFacts, ChangeRows DEF JobStatuses
    <3>4. Lease!Park(queued)
      BY <3>3, PhaseFacts DEF Lease!Park
    <3> QED
      BY <3>2, <3>4 DEF Lease!Next
  <2>6. CASE ReclaimJob(s)
    <3>1. PICK j \in slot[s].todo :
            IF job[j].status = "running" THEN SetStatus({j}, "failure") ELSE UNCHANGED job
      BY <2>6 DEF ReclaimJob
    <3>2. CASE job[j].status # "running"
      BY <2>2, <3>1, <3>2
    <3>3. CASE job[j].status = "running"
      <4>1. j \in Jobs
        BY <1>0, <3>1 DEF TypeOK, SlotStates
      <4>2. /\ job'[j].status = "failure"
            /\ \A k \in Jobs \ {j} : job'[k] = job[k]
        BY <1>0, <3>1, <3>3, <4>1 DEF SetStatus, Rows
      <4>3. Lease!Change({j}, {"held"}, PhaseOf("failure"))
        BY <1>0, <2>1, <3>3, <4>1, <4>2, PhaseFacts, ChangeRows DEF JobStatuses
      <4>4. Lease!Expire(j)
        BY <4>3, PhaseFacts DEF Lease!Expire
      <4> QED
        BY <4>1, <4>4 DEF Lease!Next
    <3> QED
      BY <3>2, <3>3
  <2>7. CASE CancelTx(s)
    <3> DEFINE J == {j \in Jobs : job[j].status \in {"queued", "manual", "running"}}
    <3>1. /\ \A j \in J : job'[j].status = "cancelled"
          /\ \A j \in Jobs \ J : job'[j] = job[j]
      BY <1>0, <2>7 DEF CancelTx, Running, Rows
    <3>2. J \in SUBSET Jobs /\ \A j \in J : job[j].status \in {"queued", "manual", "running"}
      OBVIOUS
    <3> HIDE DEF J
    <3>3. Lease!Change(J, {"waiting", "parked", "held"}, PhaseOf("cancelled"))
      BY <1>0, <2>1, <3>1, <3>2, PhaseFacts, ChangeRows DEF JobStatuses
    <3>4. Lease!Cancel(J)
      BY <3>3, PhaseFacts DEF Lease!Cancel
    <3> QED
      BY <3>2, <3>4 DEF Lease!Next
  <2>8. CASE CancelStepUpdate(s)
    <3> DEFINE j == slot[s].job
    <3>0. j \in Jobs
      BY <1>0, ReturnTypes
    <3>1. \/ job' = job
          \/ /\ job[j].status = "running"
             /\ job' = [job EXCEPT ![j].status = "cancelled", ![j].cancelReq = TRUE]
      BY <2>8 DEF CancelStepUpdate
    <3> HIDE DEF j
    <3>2. CASE job[j].status = "running" /\ job'[j].status = "cancelled"
               /\ \A k \in Jobs \ {j} : job'[k] = job[k]
      <4>1. Lease!Change({j}, {"waiting", "parked", "held"}, PhaseOf("cancelled"))
        BY <1>0, <2>1, <3>0, <3>2, PhaseFacts, ChangeRows DEF JobStatuses
      <4>2. Lease!Cancel({j})
        BY <4>1, PhaseFacts DEF Lease!Cancel
      <4> QED
        BY <3>0, <4>2 DEF Lease!Next
    <3> QED
      BY <1>0, <2>2, <3>0, <3>1, <3>2 DEF Rows
  <2>9. CASE PlayUpdate(s)
    <3> DEFINE j == slot[s].job
    <3>0. j \in Jobs
      BY <1>0, ReturnTypes
    <3>1. \/ job' = job
          \/ /\ job[j].status = "manual"
             /\ job' = [job EXCEPT ![j].status = "queued", ![j].why = "none",
                                   ![j].holder = NoPod, ![j].overdue = FALSE]
      BY <2>9 DEF PlayUpdate
    <3> HIDE DEF j
    <3>2. CASE job[j].status = "manual" /\ job'[j].status = "queued"
               /\ \A k \in Jobs \ {j} : job'[k] = job[k]
      <4>1. Lease!Change({j}, {"parked"}, PhaseOf("queued"))
        BY <1>0, <2>1, <3>0, <3>2, PhaseFacts, ChangeRows DEF JobStatuses
      <4>2. Lease!Release({j})
        BY <4>1, PhaseFacts DEF Lease!Release
      <4> QED
        BY <3>0, <4>2 DEF Lease!Next
    <3> QED
      BY <1>0, <2>2, <3>0, <3>1, <3>2 DEF Rows
  <2> QED
    BY <2>2, <2>3, <2>4, <2>5, <2>6, <2>7, <2>8, <2>9, WritersOfRows
<1> QED
  BY <1>1, <1>2

-----------------------------------------------------------------------------
(* The runners' reports and claims, and the faults. *)

OwnTokens == \A p, q \in Pods : RunnerOf[p] = RunnerOf[q] => p = q

LEMMA ReportImplements ==
    ASSUME RowsInv, OwnTokens, NEW s \in Slots, NEW p \in Pods, NEW v \in Reported,
           Report(s, p, v)
    PROVE  Lease!Next \/ UNCHANGED Mapped
<1> DEFINE j == exec[p].job
<1>0. /\ TypeOK /\ job \in [Jobs -> Rows] /\ exec \in [Pods -> Execs] /\ j \in Jobs
  BY DEF RowsInv, TypeOK, Execs
<1>1. CASE ~Reportable(p, j)
  <2>1. exec' = [exec EXCEPT ![p] = Idle] /\ UNCHANGED job
    BY <1>1 DEF Report
  <2>2. Lease!Quit(p)
    BY <1>0, <2>1, QuitExec
  <2> QED
    BY <2>2 DEF Lease!Next
<1>2. CASE Reportable(p, j)
  <2>1. /\ job' = [job EXCEPT ![j].status = IF job[j].status = "cancelled" THEN "cancelled" ELSE v]
        /\ exec' = [exec EXCEPT ![p].phase = "report"]
        /\ exec[p].phase = "run"
    BY <1>2 DEF Report
  <2>2. leaseBusy' = leaseBusy
    BY <1>0, <2>1 DEF leaseBusy, Execs
  <2>3. CASE job[j].status = "cancelled"
    <3>1. \A k \in Jobs : job'[k].status = job[k].status /\ job'[k].holder = job[k].holder
      BY <1>0, <2>1, <2>3 DEF Rows
    <3> QED
      BY <1>0, <2>2, <3>1, SameRows DEF Mapped
  <2>4. CASE job[j].status = "running"
    <3>1. /\ job'[j].status = v
          /\ \A k \in Jobs \ {j} : job'[k] = job[k]
      BY <1>0, <2>1, <2>4 DEF Rows
    <3>2. v \in JobStatuses \ {"running"} /\ PhaseOf(v) \in {"passed", "failed", "cancelled"}
      BY PhaseFacts DEF Reported, JobStatuses
    <3>3. Lease!Change({j}, {"held"}, PhaseOf(v))
      BY <1>0, <2>2, <2>4, <3>1, <3>2, PhaseFacts, ChangeRows
    <3>4. job[j].holder = p
      BY <1>0, <1>2, <2>4 DEF OwnTokens, Reportable, Names, RowsInv, RowsAreCoherent
    <3>5. leaseHolder[j] = p /\ leaseBusy[p] = {j}
      BY <1>0, <2>1, <2>4, <3>4 DEF leaseHolder, leaseBusy
    <3>6. Lease!Decide(p, j)
      BY <3>2, <3>3, <3>5 DEF Lease!Decide
    <3> QED
      BY <1>0, <3>6 DEF Lease!Next
  <2> QED
    BY <1>2, <2>3, <2>4 DEF Reportable
<1> QED
  BY <1>1, <1>2

LEMMA ArriveImplements ==
    ASSUME RowsInv, OwnTokens, NEW s \in Slots, Arrive(s)
    PROVE  Lease!Next \/ UNCHANGED Mapped
<1>1. CASE \E p \in Pods, v \in Reported : Report(s, p, v)
  BY <1>1, ReportImplements
<1>2. CASE ~ \E p \in Pods, v \in Reported : Report(s, p, v)
  <2>1. UNCHANGED <<job, exec>>
    BY <1>2 DEF Arrive, StartTrigger, StartGet, StartStale, StartCancel, StartRerun,
                StartCancelStep, StartPlay, DB, Outside
  <2> QED
    BY <2>1, SameRows, SameBusy DEF Mapped, RowsInv
<1> QED
  BY <1>1, <1>2

LEMMA PodImplements ==
    ASSUME RowsInv, NEW p \in Pods, Pod(p)
    PROVE  Lease!Next \/ UNCHANGED Mapped
<1>0. TypeOK /\ job \in [Jobs -> Rows] /\ exec \in [Pods -> Execs]
  BY DEF RowsInv, TypeOK
<1>1. ASSUME NEW j \in Jobs, Claim(p, j)
      PROVE  Lease!Take(p, j)
  <2>1. /\ exec[p].phase = "idle" /\ job[j].status = "queued"
        /\ job' = [job EXCEPT ![j].status = "running", ![j].holder = p,
                              ![j].cancelReq = FALSE, ![j].overdue = FALSE]
        /\ exec' = [exec EXCEPT ![p] = [phase |-> "run", job |-> j]]
    BY <1>1 DEF Claim, Runnable
  <2>2. /\ job'[j].status = "running" /\ job'[j].holder = p
        /\ \A k \in Jobs \ {j} : job'[k] = job[k]
    BY <1>0, <2>1 DEF Rows
  <2>3. leasePhase' = [leasePhase EXCEPT ![j] = "held"]
    BY <2>2, PhaseFacts DEF leasePhase
  <2>4. leaseHolder' = [leaseHolder EXCEPT ![j] = p]
    BY <2>2 DEF leaseHolder
  <2>5. leaseBusy' = [leaseBusy EXCEPT ![p] = {j}]
    BY <1>0, <2>1 DEF leaseBusy
  <2>6. leaseBusy[p] = {} /\ leasePhase[j] = "waiting"
    BY <2>1, PhaseFacts DEF leaseBusy, leasePhase
  <2> QED
    BY <2>3, <2>4, <2>5, <2>6 DEF Lease!Take
<1>2. CASE StartJob(p)
  <2> DEFINE j == exec[p].job
  <2>1. /\ j \in Jobs
        /\ job[j].holder # NoPod
        /\ job[j].status \in {"queued", "running"}
        /\ job' = [job EXCEPT ![j].status = "running"]
        /\ UNCHANGED exec
    BY <1>0, <1>2 DEF StartJob, Names, Execs
  <2>2. job[j].status = "running"
    BY <2>1 DEF RowsInv, RowsAreCoherent
  <2>3. \A k \in Jobs : job'[k].status = job[k].status /\ job'[k].holder = job[k].holder
    BY <1>0, <2>1, <2>2 DEF Rows
  <2> QED
    BY <1>0, <2>1, <2>3, SameRows, SameBusy DEF Mapped
<1>3. CASE Restart(p)
  <2>1. Lease!Quit(p)
    BY <1>0, <1>3, QuitExec DEF Restart
  <2> QED
    BY <2>1 DEF Lease!Next
<1>4. CASE Silence(p) \/ Heartbeat(p)
  <2>1. UNCHANGED <<job, exec>>
    BY <1>4 DEF Silence, Heartbeat
  <2> QED
    BY <1>0, <2>1, SameRows, SameBusy DEF Mapped
<1>5. CASE \E j \in Jobs : Claim(p, j)
  BY <1>1, <1>5 DEF Lease!Next
<1> QED
  BY <1>2, <1>3, <1>4, <1>5 DEF Pod

LEMMA FaultImplements ==
    ASSUME RowsInv
    PROVE  /\ \A s \in Slots : Crash(s) => Lease!Next \/ UNCHANGED Mapped
           /\ \A j \in Jobs : Overrun(j) => Lease!Next \/ UNCHANGED Mapped
<1>0. TypeOK /\ job \in [Jobs -> Rows]
  BY DEF RowsInv, TypeOK
<1>1. ASSUME NEW s \in Slots, Crash(s)
      PROVE  Lease!Next \/ UNCHANGED Mapped
  <2>1. UNCHANGED job
    BY <1>1 DEF Crash, DB
  <2>2. CASE UNCHANGED exec
    BY <1>0, <2>1, <2>2, SameRows, SameBusy DEF Mapped
  <2>3. CASE slot[s].pod \in Pods /\ exec' = [exec EXCEPT ![slot[s].pod] = Idle]
    <3>1. Lease!Quit(slot[s].pod)
      BY <1>0, <2>1, <2>3, QuitExec
    <3> QED
      BY <2>3, <3>1 DEF Lease!Next
  <2> QED
    BY <1>0, <1>1, <2>2, <2>3 DEF Crash, TypeOK
<1>2. ASSUME NEW j \in Jobs, Overrun(j)
      PROVE  Lease!Next \/ UNCHANGED Mapped
  <2>1. \A k \in Jobs : job'[k].status = job[k].status /\ job'[k].holder = job[k].holder
    BY <1>0, <1>2 DEF Overrun, Rows
  <2>2. UNCHANGED exec
    BY <1>2 DEF Overrun
  <2> QED
    BY <1>0, <2>1, <2>2, SameRows, SameBusy DEF Mapped
<1> QED
  BY <1>1, <1>2

-----------------------------------------------------------------------------
(* The refinement. *)

LEMMA InitImplements == Init => Lease!Init
<1> SUFFICES ASSUME Init
             PROVE  Lease!Init
  OBVIOUS
<1>1. leasePhase = [j \in Jobs |-> "none"]
  BY PhaseFacts DEF Init, NewRow, leasePhase
<1>2. leaseHolder = [j \in Jobs |-> NoPod]
  BY DEF Init, NewRow, leaseHolder
<1>3. leaseBusy = [p \in Pods |-> {}]
  BY DEF Init, Idle, leaseBusy
<1> QED
  BY <1>1, <1>2, <1>3 DEF Lease!Init

(* When every process has a token of its own, the handlers, runners and    *)
(* faults of the statement-level run implement the job lease.              *)
THEOREM RunImplementsLease ==
    ASSUME OwnTokens
    PROVE  Spec => ImplementsLease
<1>1. RowsInv /\ [Next]_vars => [Lease!Next]_Mapped
  <2> SUFFICES ASSUME RowsInv, [Next]_vars
               PROVE  Lease!Next \/ UNCHANGED Mapped
    OBVIOUS
  <2>1. CASE Next
    BY <2>1, StepImplements, ArriveImplements, PodImplements, FaultImplements DEF Next
  <2>2. CASE UNCHANGED vars
    BY <2>2, SameRows, SameBusy DEF vars, Mapped, RowsInv
  <2> QED
    BY <2>1, <2>2
<1>2. RowsInv /\ [Next]_vars => RowsInv'
  BY NextKeepsRows
<1>3. Mapped = Lease!leaseVars
  BY DEF Mapped, Lease!leaseVars
<1> QED
  BY InitRows, InitImplements, <1>1, <1>2, <1>3, PTL
     DEF Spec, ImplementsLease, Lease!Spec, Mapped, Lease!leaseVars

-----------------------------------------------------------------------------
(* Requests under way when nobody re-runs, plays or opens the page.        *)

RaceKinds == {"none", "trigger", "complete", "cancelStep", "stale", "cancel"}

RaceOps == Ops \subseteq {"stale", "cancel", "cancelStep"}

SlotRaces(r) == Serving(r) /\ r.kind \in RaceKinds

LEMMA RaceAt ==
    ASSUME NEW r, SlotRaces(r)
    PROVE  /\ r.pc \in MtPCs => r.kind = "trigger"
           /\ r.pc \in Deciding \cup {"fc_status"} => r.kind = "cancel"
           /\ r.pc \notin {"rr_reset", "rj_run", "p_run"}
           /\ r.after = "end"
BY KindAt DEF SlotRaces, RaceKinds, Serving, Reruns, Syncing

-----------------------------------------------------------------------------
(* A cancelled run stays still. *)

NoneMaterializes == \A s \in Slots : slot[s].pc \notin MtPCs

OneMaterializes ==
    \A s, t \in Slots : slot[s].pc \in MtPCs /\ slot[t].pc \in MtPCs => s = t

(* A cancellation that finds the run open after its transaction has been   *)
(* overwritten by the end of the materialisation: no row is queued any     *)
(* more behind its back.                                                   *)
CancelSeesAllRows ==
    \A s \in Slots : /\ slot[s].kind = "cancel" /\ slot[s].pc # "k_tx"
                     /\ run \in OpenRun \/ slot[s].pc \in Deciding
                     => NoneMaterializes

StillCancelled(j) == job[j].status \in {"absent", "cancelled"}

(* A decision for 'cancelled' stays true until it is written.              *)
DecisionHolds ==
    \A s \in Slots : slot[s].kind = "cancel" /\ slot[s].verdict = "cancelled" =>
        NoneMaterializes /\ \A j \in Jobs : StillCancelled(j)

RaceInv ==
    /\ RowsInv
    /\ \A s \in Slots : SlotRaces(slot[s])
    /\ PushIsFirst /\ OneMaterializes
    /\ CancelSeesAllRows /\ DecisionHolds
    /\ CancelledRunIsStill

LEMMA InitRace == Init => RaceInv
<1> SUFFICES ASSUME Init
             PROVE  RaceInv
  OBVIOUS
<1>1. \A s \in Slots : /\ slot[s].pc = "idle" /\ slot[s].kind = "none"
                       /\ slot[s].after = "end" /\ slot[s].back = "end"
  BY DEF Init, NoRequest
<1>2. \A s \in Slots : SlotRaces(slot[s])
  <2>1. \A s \in Slots : slot[s] = NoRequest
    BY DEF Init
  <2> QED
    BY <1>1, <2>1, IdleServes DEF SlotRaces, RaceKinds
<1> QED
  BY <1>1, <1>2, InitRows, InitPush
     DEF Init, RaceInv, OneMaterializes, CancelSeesAllRows, DecisionHolds, CancelledRunIsStill, MtPCs

LEMMA ArriveRaces ==
    ASSUME TypeOK, RaceOps, NEW s \in Slots, Arrive(s), SlotRaces(slot[s])
    PROVE  /\ SlotRaces(slot'[s])
           /\ slot'[s].kind = "cancel" =>
                 slot'[s] = slot[s] \/ (slot'[s].pc = "k_tx" /\ slot'[s].verdict = "none")
           /\ slot'[s].pc \in MtPCs => slot'[s] = slot[s] \/ StartTrigger(s)
<1>1. SlotRaces(slot'[s])
  BY ArriveServes, ArriveSlot DEF SlotRaces, RaceKinds, RaceOps
<1>2. slot'[s].kind = "cancel" =>
          slot'[s] = slot[s] \/ (slot'[s].pc = "k_tx" /\ slot'[s].verdict = "none")
  BY ArriveSlot DEF Reruns
<1> QED
  BY <1>1, <1>2, ArriveSlot, RaceAt

(* A statement of a request that is under way.                             *)
LEMMA StepInSlot ==
    ASSUME RaceInv, NEW s \in Slots, Step(s)
    PROVE  /\ \A t \in Slots \ {s} : slot'[t] = slot[t]
           /\ SlotRaces(slot'[s])
           /\ slot[s].kind # "none" /\ run # "absent"
           /\ slot'[s].kind \in {slot[s].kind, "none"}
           /\ slot'[s].pc \in MtPCs => slot[s].pc \in MtPCs
<1>0. TypeOK /\ SlotRaces(slot[s])
  BY DEF RaceInv, RowsInv
<1>2. slot[s].pc # "idle"
  BY StepPC
<1>3. slot[s].kind # "none"
  BY <1>0, <1>2, KindAt DEF SlotRaces
<1>4. Reply(s) => slot'[s] = NoRequest /\ slot[s].pc = "end"
  BY <1>0 DEF Reply, At, TypeOK
<1>5. /\ \A t \in Slots \ {s} : slot'[t] = slot[t]
      /\ slot'[s].kind \in {slot[s].kind, "none"}
  BY <1>0, <1>4, StepSlot DEF NoRequest
<1>1. SlotRaces(slot'[s])
  BY <1>0, <1>5, StepServes DEF SlotRaces, RaceKinds
<1>6. ASSUME slot'[s].pc \in MtPCs
      PROVE  slot[s].pc \in MtPCs
  <2>1. slot'[s].kind = "trigger"
    BY <1>1, <1>6, RaceAt
  <2>2. slot[s].kind = "trigger" /\ ~Reply(s)
    BY <1>4, <1>5, <2>1 DEF NoRequest
  <2>3. slot[s].pc \in MtPCs \cup {"end"}
    BY <1>0, <2>2 DEF SlotRaces, Serving, PCsOf
  <2>4. slot[s].pc # "end"
    BY <2>2, StepPC
  <2> QED
    BY <2>3, <2>4
<1> QED
  BY <1>1, <1>3, <1>5, <1>6 DEF RaceInv, PushIsFirst

(* What any step may do to the program counters and to the run.            *)
LEMMA RaceSlots ==
    ASSUME RaceInv, RaceOps, [Next]_vars
    PROVE  /\ \A s \in Slots : SlotRaces(slot'[s])
           /\ \A s \in Slots : slot'[s].pc \in MtPCs => slot[s].pc \in MtPCs \/ StartTrigger(s)
           /\ \A s, t \in Slots : s # t => slot'[s] = slot[s] \/ slot'[t] = slot[t]
           /\ \A s \in Slots : slot'[s].kind = "cancel" =>
                 \/ slot'[s] = slot[s]
                 \/ slot[s].kind = "cancel" /\ Step(s)
                 \/ slot'[s].pc = "k_tx" /\ slot'[s].verdict = "none"
<1>0. TypeOK /\ \A s \in Slots : SlotRaces(slot[s])
  BY DEF RaceInv, RowsInv
<1>1. ASSUME NEW s \in Slots, Arrive(s)
      PROVE  /\ \A t \in Slots \ {s} : slot'[t] = slot[t]
             /\ SlotRaces(slot'[s])
             /\ slot'[s].pc \in MtPCs => slot'[s] = slot[s] \/ StartTrigger(s)
             /\ slot'[s].kind = "cancel" =>
                   slot'[s] = slot[s] \/ (slot'[s].pc = "k_tx" /\ slot'[s].verdict = "none")
  BY <1>0, <1>1, ArriveSlot, ArriveRaces
<1>2. ASSUME NEW s \in Slots, Step(s)
      PROVE  /\ \A t \in Slots \ {s} : slot'[t] = slot[t]
             /\ SlotRaces(slot'[s])
             /\ slot'[s].pc \in MtPCs => slot[s].pc \in MtPCs
             /\ slot'[s].kind = "cancel" => slot[s].kind = "cancel"
  BY <1>2, StepInSlot
<1>3. ASSUME NEW s \in Slots, Crash(s)
      PROVE  /\ \A t \in Slots \ {s} : slot'[t] = slot[t]
             /\ SlotRaces(slot'[s]) /\ slot'[s].pc \notin MtPCs
             /\ slot'[s].kind # "cancel"
  <2>1. slot'[s] = NoRequest /\ \A t \in Slots \ {s} : slot'[t] = slot[t]
    BY <1>0, <1>3 DEF Crash, TypeOK
  <2>2. NoRequest.pc = "idle" /\ NoRequest.kind = "none"
    BY DEF NoRequest
  <2> QED
    BY <2>1, <2>2, IdleServes DEF SlotRaces, RaceKinds, MtPCs
<1>4. ASSUME ~ \E s \in Slots : Arrive(s) \/ Step(s) \/ Crash(s)
      PROVE  slot' = slot
  BY <1>4 DEF Next, Pod, Claim, StartJob, Restart, Silence, Heartbeat, Overrun, vars
<1>5. CASE \E s \in Slots : Arrive(s) \/ Step(s) \/ Crash(s)
  <2>1. PICK s \in Slots : Arrive(s) \/ Step(s) \/ Crash(s)
    BY <1>5
  <2>2. \A t \in Slots \ {s} : slot'[t] = slot[t]
    BY <1>1, <1>2, <1>3, <2>1
  <2> QED
    BY <1>0, <1>1, <1>2, <1>3, <2>1, <2>2
<1> QED
  BY <1>0, <1>4, <1>5

LEMMA RaceRun ==
    ASSUME RaceInv, RaceOps, [Next]_vars
    PROVE  /\ run' \in OpenRun => run \in OpenRun \/ run = "absent"
                                  \/ \E s \in Slots : MaterializeFinal(s)
           /\ run' = "cancelled" => run = "cancelled"
                                  \/ \E s \in Slots : CancelTx(s) \/ ForceWrite(s)
<1>0. TypeOK /\ \A s \in Slots : SlotRaces(slot[s])
  BY DEF RaceInv, RowsInv
<1>1. ASSUME NEW s \in Slots, Arrive(s)
      PROVE  run' = run \/ (run = "absent" /\ run' = "queued")
  BY <1>0, <1>1, ArriveSlot DEF StartTrigger
<1>2. ASSUME NEW s \in Slots, Step(s)
      PROVE  /\ run' \in OpenRun => run \in OpenRun \/ MaterializeFinal(s)
             /\ run' = "cancelled" => run = "cancelled" \/ CancelTx(s) \/ ForceWrite(s)
  <2>1. SlotRaces(slot[s])
    BY <1>0
  <2>2. ~RerunReset(s) /\ ~RerunJobRun(s) /\ ~PlayRun(s)
    BY <2>1, RaceAt DEF RerunReset, RerunJobRun, PlayRun, At
  <2>3. CASE ForceWrite(s)
    <3>1. slot[s].verdict \in Verdicts
      BY <1>0 DEF TypeOK, SlotStates
    <3> QED
      BY <2>3, <3>1 DEF ForceWrite, Verdicts, Reported, OpenRun
  <2>4. CASE MaterializeFinal(s) \/ CancelTx(s)
    BY <2>4 DEF MaterializeFinal, CancelTx, OpenRun
  <2>5. CASE FinalizeFail(s) \/ FinalizeSkipped(s) \/ FinalizeSuccess(s)
    BY <2>5 DEF FinalizeFail, FinalizeSkipped, FinalizeSuccess, OpenRun
  <2> QED
    BY <1>2, <2>2, <2>3, <2>4, <2>5, WritersOfRun
<1>3. ASSUME ~ \E s \in Slots : Arrive(s) \/ Step(s)
      PROVE  run' = run
  BY <1>3 DEF Next, Pod, Claim, StartJob, Restart, Silence, Heartbeat, Overrun, Crash, DB, vars
<1> QED
  BY <1>1, <1>2, <1>3

(* force_finalize_stuck_pipeline decides only after it saw the run open.   *)
LEMMA IntoDeciding ==
    ASSUME TypeOK, NEW s \in Slots, Step(s), SlotRaces(slot[s]), slot'[s].kind = "cancel"
    PROVE  /\ slot'[s].pc \in Deciding => \/ slot[s].pc \in Deciding
                                          \/ slot[s].pc = "fc_status" /\ run \in OpenRun
           /\ slot'[s].verdict = "cancelled" =>
                 \/ slot[s].verdict = "cancelled"
                 \/ slot[s].pc = "fc_cancelled" /\ AllRowsAre(job, "cancelled")
<1>0. slot \in [Slots -> SlotStates] /\ slot[s] \in SlotStates
  BY DEF TypeOK
<1>1. CASE ForceFinalize(s)
  <2>1. slot[s].after = "end"
    BY RaceAt
  <2> QED
    BY <1>1, <2>1, ForceSlot DEF Deciding
<1>2. CASE ~ForceFinalize(s)
  <2>1. ~Reply(s)
    BY <1>0 DEF Reply, NoRequest
  <2>2. slot[s].kind = "cancel" /\ slot'[s].verdict = slot[s].verdict
    BY <1>2, <2>1, StepSlot
  <2>3. \/ Finalize(s) \/ Reclaim(s) \/ CancelTx(s) \/ CancelCheck(s)
    <3>1. Serving(slot[s])
      BY DEF SlotRaces
    <3>2. slot[s].pc \notin MtPCs \cup IdlePCs \cup
              {"c_check", "c_unlock", "c_pending", "rr_names", "rr_reset", "rj_read", "rj_run",
               "s_update", "s_check", "p_blocked", "p_update", "p_run", "p_check"}
      BY <2>2, <3>1, KindAt DEF Reruns
    <3> QED
    BY <1>2, <2>1, <3>2
       DEF Step, UserWrites, IdlePCs, MaterializeRow, MaterializeCheck, MaterializeFinal,
           CompleteCheck, CompleteUnlock, CompletePending, Rerun, IdleStatus, IdleActive,
           RerunNames, RerunReset, RerunJobRead, RerunJobRun, CancelStepUpdate,
           CancelStepCheck, PlayBlocked, PlayUpdate, PlayRun, PlayCheck, Read, At, MtPCs
  <2>4. slot'[s].pc \notin Deciding
    <3>1. CASE Finalize(s)
      BY <3>1, FinalizeSlot DEF SlotRaces, Serving, FzPCs, Deciding
    <3>2. CASE Reclaim(s)
      BY <3>2, ReclaimSlot DEF RcPCs, FzPCs, Deciding
    <3>3. CASE CancelTx(s)
      BY <1>0, <3>3 DEF CancelTx, SlotStates, Deciding
    <3>4. CASE CancelCheck(s)
      <4>1. CASE Goto(s, "rc_timed")
        <5>1. slot'[s].pc = "rc_timed"
          BY <1>0, <4>1, GotoSlot
        <5> QED
          BY <5>1 DEF Deciding
      <4>2. CASE \E j : slot' = [slot EXCEPT ![s].todo = @ \ {j}]
        <5>1. slot'[s].pc = slot[s].pc
          BY <1>0, <4>2 DEF SlotStates
        <5> QED
          BY <3>4, <5>1 DEF CancelCheck, At, Deciding
      <4> QED
        BY <3>4, <4>1, <4>2 DEF CancelCheck
    <3> QED
      BY <2>3, <3>1, <3>2, <3>3, <3>4
  <2> QED
    BY <2>2, <2>4
<1> QED
  BY <1>1, <1>2

LEMMA NextRace ==
    ASSUME RaceInv, RaceOps, [Next]_vars
    PROVE  RaceInv'
<1>0. TypeOK /\ RowsInv /\ \A s \in Slots : SlotRaces(slot[s])
  BY DEF RaceInv, RowsInv
<1>1. RowsInv'
  BY <1>0, NextKeepsRows
<1>2. \A s \in Slots : SlotRaces(slot'[s])
  BY RaceSlots
<1>3. ASSUME NEW s \in Slots, StartTrigger(s)
      PROVE  run = "absent"
  BY <1>3 DEF StartTrigger
<1>4. run = "absent" => NoneMaterializes /\ \A s \in Slots : slot[s].kind = "none"
  BY <1>0, KindAt DEF RaceInv, PushIsFirst, NoneMaterializes, SlotRaces, Reruns
<1>5. PushIsFirst'
  BY <1>0, NextPush DEF RaceInv, SlotRaces, AllServing
<1>6. OneMaterializes'
  <2> SUFFICES ASSUME NEW s \in Slots, NEW t \in Slots, s # t,
                      slot'[s].pc \in MtPCs, slot'[t].pc \in MtPCs
               PROVE  FALSE
    BY DEF OneMaterializes
  <2>1. slot[s].pc \in MtPCs \/ StartTrigger(s)
    BY RaceSlots
  <2>2. slot[t].pc \in MtPCs \/ StartTrigger(t)
    BY RaceSlots
  <2>3. ~(slot[s].pc \in MtPCs /\ slot[t].pc \in MtPCs)
    BY DEF RaceInv, OneMaterializes
  <2>4. slot'[s] = slot[s] \/ slot'[t] = slot[t]
    BY RaceSlots
  <2>5. run = "absent" /\ slot[s].pc \notin MtPCs /\ slot[t].pc \notin MtPCs
    BY <1>3, <1>4, <2>1, <2>2, <2>3 DEF NoneMaterializes
  <2> QED
    BY <2>4, <2>5
<1>7. run # "absent" /\ NoneMaterializes => NoneMaterializes'
  BY <1>3, RaceSlots DEF NoneMaterializes
<1>8. ASSUME NEW s \in Slots, MaterializeFinal(s)
      PROVE  NoneMaterializes'
  <2>1. slot[s].kind = "trigger" /\ slot[s].pc = "mt_final"
    BY <1>0, <1>8, RaceAt DEF MaterializeFinal, At, MtPCs
  <2>2. slot'[s].pc = "end" /\ \A t \in Slots \ {s} : slot'[t] = slot[t]
    BY <1>0, <1>8, <2>1, GotoSlot DEF MaterializeFinal, TypeOK
  <2>3. \A t \in Slots \ {s} : slot[t].pc \notin MtPCs
    BY <2>1 DEF RaceInv, OneMaterializes, MtPCs
  <2> QED
    BY <2>2, <2>3 DEF NoneMaterializes, MtPCs
<1>9. CancelSeesAllRows'
  <2> SUFFICES ASSUME NEW s \in Slots, slot'[s].kind = "cancel", slot'[s].pc # "k_tx",
                      run' \in OpenRun \/ slot'[s].pc \in Deciding
               PROVE  NoneMaterializes'
    BY DEF CancelSeesAllRows, NoneMaterializes
  <2>1. slot'[s] = slot[s] \/ (slot[s].kind = "cancel" /\ Step(s))
    BY RaceSlots
  <2>2. slot[s].kind = "cancel" /\ run # "absent"
    BY <1>4, <2>1
  <2>3. CASE run' \in OpenRun /\ slot[s].pc = "k_tx"
    <3>1. CancelTx(s)
      BY <2>1, <2>3, StepPC
    <3> QED
      BY <2>3, <3>1 DEF CancelTx, OpenRun
  <2>4. CASE run' \in OpenRun /\ slot[s].pc # "k_tx"
    <3>1. run \in OpenRun \/ \E t \in Slots : MaterializeFinal(t)
      BY <2>2, <2>4, RaceRun
    <3> QED
      BY <1>7, <1>8, <2>2, <2>4, <3>1 DEF RaceInv, CancelSeesAllRows
  <2>5. CASE slot'[s].pc \in Deciding
    <3>1. \/ slot[s].pc \in Deciding
          \/ slot[s].pc = "fc_status" /\ run \in OpenRun
      <4>1. CASE slot'[s] = slot[s]
        BY <2>5, <4>1
      <4>2. CASE Step(s)
        BY <1>0, <2>5, <4>2, IntoDeciding
      <4> QED
        BY <2>1, <4>1, <4>2
    <3>2. NoneMaterializes
      BY <2>2, <3>1 DEF RaceInv, CancelSeesAllRows, Deciding
    <3> QED
      BY <1>7, <2>2, <3>2
  <2> QED
    BY <2>3, <2>4, <2>5
<1>10. ASSUME NEW j \in Jobs, StillCancelled(j), NoneMaterializes
       PROVE  StillCancelled(j)'
  <2>1. LegalMove(j)
    BY <1>0, NextMoves
  <2> QED
    BY <1>10, <2>1 DEF LegalMove, Moved, Moves, StillCancelled, NoneMaterializes, MtPCs
<1>11. DecisionHolds'
  <2> SUFFICES ASSUME NEW s \in Slots, slot'[s].kind = "cancel", slot'[s].verdict = "cancelled"
               PROVE  NoneMaterializes' /\ \A j \in Jobs : StillCancelled(j)'
    BY DEF DecisionHolds, NoneMaterializes, StillCancelled
  <2>1. slot'[s] = slot[s] \/ (slot[s].kind = "cancel" /\ Step(s))
    BY RaceSlots
  <2>2. slot[s].kind = "cancel" /\ run # "absent"
    BY <1>4, <2>1
  <2>3. NoneMaterializes /\ \A j \in Jobs : StillCancelled(j)
    <3>1. CASE slot[s].verdict = "cancelled"
      BY <2>2, <3>1 DEF RaceInv, DecisionHolds
    <3>2. CASE slot[s].verdict # "cancelled"
      <4>1. slot[s].pc = "fc_cancelled" /\ AllRowsAre(job, "cancelled")
        BY <1>0, <2>1, <3>2, IntoDeciding
      <4> QED
        BY <2>2, <4>1 DEF RaceInv, CancelSeesAllRows, Deciding, AllRowsAre, StillCancelled
    <3> QED
      BY <3>1, <3>2
  <2> QED
    BY <1>7, <1>10, <2>2, <2>3
<1>12. CancelledRunIsStill'
  <2> SUFFICES ASSUME run' = "cancelled", NEW j \in Jobs
               PROVE  job'[j].status # "running"
    BY DEF CancelledRunIsStill, Running
  <2>1. CASE run = "cancelled"
    <3>1. job[j].status # "running"
      BY <2>1 DEF RaceInv, CancelledRunIsStill, Running
    <3> QED
      BY <1>0, <2>1, <3>1, OnlyClaimsRun DEF Claim
  <2>2. ASSUME NEW s \in Slots, CancelTx(s)
        PROVE  job'[j].status # "running"
    BY <1>0, <2>2 DEF CancelTx, Running, TypeOK, Rows
  <2>3. ASSUME NEW s \in Slots, ForceWrite(s), run # "cancelled"
        PROVE  job'[j].status # "running"
    <3>1. slot[s].kind = "cancel"
      BY <1>0, <2>3, RaceAt DEF ForceWrite, At, Deciding
    <3>2. slot[s].verdict = "cancelled" /\ job' = job
      BY <2>3 DEF ForceWrite
    <3> QED
      BY <3>1, <3>2 DEF RaceInv, DecisionHolds, StillCancelled
  <2> QED
    BY <2>1, <2>2, <2>3, RaceRun
<1> QED
  BY <1>1, <1>2, <1>5, <1>6, <1>9, <1>11, <1>12 DEF RaceInv

(* In a cancelled run no job is running, however many requests of runners, *)
(* of the stale checker and of users who cancel race, and whatever crashes,*)
(* as long as nobody re-runs or plays jobs or opens the page: those are    *)
(* the requests that reopen a run or write a status decided earlier.       *)
THEOREM CancelledRunsAreStill ==
    ASSUME Ops \subseteq {"stale", "cancel", "cancelStep"}
    PROVE  Spec => []CancelledRunIsStill
<1>1. RaceInv /\ [Next]_vars => RaceInv'
  BY NextRace DEF RaceOps
<1>2. RaceInv => CancelledRunIsStill
  BY DEF RaceInv
<1> QED
  BY InitRace, <1>1, <1>2, PTL DEF Spec

-----------------------------------------------------------------------------
(***************************************************************************)
(* Requests served one at a time: one slot, any schedule, any pool of      *)
(* runner processes, which keep claiming, starting, losing and overrunning *)
(* jobs between the statements of the request.                             *)
(***************************************************************************)
OneAtATime == \E s : Slots = {s}

-----------------------------------------------------------------------------
(* What happens to the rows between the statements of a request.           *)

Elsewhere ==
    \/ \E p \in Pods : Pod(p)
    \/ \E j \in Jobs : Overrun(j)
    \/ UNCHANGED vars

(* The requests touch their own slot only, and there is one.               *)
LEMMA NextCases ==
    ASSUME [Next]_vars
    PROVE  Elsewhere \/ \E s \in Slots : Arrive(s) \/ Step(s) \/ Crash(s)
BY DEF Next, Elsewhere

(* The rows change by claims and by nothing else: start_runner_job finds   *)
(* the row running, and a row that is overdue keeps its status.            *)
LEMMA ElsewhereMoves ==
    ASSUME RowsInv, Elsewhere
    PROVE  /\ run' = run /\ check' = check /\ slot' = slot
           /\ \A j \in Jobs :
                /\ job'[j].why = job[j].why
                /\ \/ job'[j].status = job[j].status
                   \/ /\ j \in Runnable(job) /\ job'[j].status = "running"
                      /\ run \notin {"cancelled", "failure"}
<1>0. TypeOK /\ job \in [Jobs -> Rows]
  BY DEF RowsInv, TypeOK
<1>1. run' = run /\ check' = check /\ slot' = slot
  BY DEF Elsewhere, Pod, Claim, StartJob, Restart, Silence, Heartbeat, Overrun, vars
<1>2. [Next]_vars
  BY DEF Elsewhere, Next
<1>3. ASSUME NEW j \in Jobs
      PROVE  job'[j].why = job[j].why
  <2>1. ASSUME NEW p \in Pods, NEW k \in Jobs, Claim(p, k)
        PROVE  job'[j].why = job[j].why
    BY <1>0, <2>1 DEF Claim, Rows
  <2>2. ASSUME NEW p \in Pods, StartJob(p)
        PROVE  job'[j].why = job[j].why
    <3>1. exec[p].job \in Jobs /\ job' = [job EXCEPT ![exec[p].job].status = "running"]
      BY <1>0, <2>2 DEF StartJob, TypeOK, Execs
    <3> QED
      BY <1>0, <3>1 DEF Rows
  <2>3. ASSUME NEW k \in Jobs, Overrun(k)
        PROVE  job'[j].why = job[j].why
    BY <1>0, <2>3 DEF Overrun, Rows
  <2> QED
    BY <2>1, <2>2, <2>3 DEF Elsewhere, Pod, Restart, Silence, Heartbeat, vars
<1>4. ASSUME NEW j \in Jobs, job'[j].status # job[j].status
      PROVE  /\ j \in Runnable(job) /\ job'[j].status = "running"
             /\ run \notin {"cancelled", "failure"}
  <2>1. ASSUME NEW p \in Pods, NEW k \in Jobs, Claim(p, k)
        PROVE  k = j /\ job'[j].status = "running"
    BY <1>0, <1>4, <2>1 DEF Claim, Rows
  <2>2. ASSUME NEW p \in Pods, StartJob(p)
        PROVE  job'[j].status = "running" /\ job[j].status \in {"queued", "running"}
    <3>1. /\ exec[p].job \in Jobs /\ job' = [job EXCEPT ![exec[p].job].status = "running"]
          /\ job[exec[p].job].status \in {"queued", "running"}
      BY <1>0, <2>2 DEF StartJob, TypeOK, Execs
    <3> QED
      BY <1>0, <1>4, <3>1 DEF Rows
  <2>3. ASSUME NEW k \in Jobs, Overrun(k)
        PROVE  FALSE
    BY <1>0, <1>4, <2>3 DEF Overrun, Rows
  <2>4. job'[j].status = "running"
    BY <1>4, <2>1, <2>2, <2>3 DEF Elsewhere, Pod, Restart, Silence, Heartbeat, vars
  <2> QED
    BY <1>2, <1>4, <2>4, OnlyClaimsRun DEF Claim
<1> QED
  BY <1>1, <1>3, <1>4

(* A claim leaves the jobs that keep a run going, and what they wait for,  *)
(* as they were.                                                           *)
LEMMA ElsewhereKeeps ==
    ASSUME RowsInv, Elsewhere
    PROVE  /\ \A j \in Jobs : Satisfied(job', j) <=> Satisfied(job, j)
           /\ Active(job') = Active(job)
           /\ Running(job) \subseteq Running(job') /\ Runnable(job') \subseteq Runnable(job)
           /\ RequiredFailures(job') = RequiredFailures(job)
           /\ \A j \in Jobs : Shown(job'[j].status) = Shown(job[j].status)
<1>1. \A j \in Jobs : \/ job'[j].status = job[j].status
                      \/ j \in Runnable(job) /\ job'[j].status = "running"
  BY ElsewhereMoves
<1>2. \A j \in Jobs : Satisfied(job', j) <=> Satisfied(job, j)
  BY <1>1 DEF Satisfied, Runnable
<1>3. \A j \in Jobs : Unblocked(job', j) <=> Unblocked(job, j)
  BY <1>2, NeedsAssumption DEF Unblocked
<1>4. Active(job') = Active(job) /\ Runnable(job') \subseteq Runnable(job)
  BY <1>1, <1>3 DEF Active, Running, Runnable
<1>5. Running(job) \subseteq Running(job')
  BY <1>1 DEF Running
<1>6. RequiredFailures(job') = RequiredFailures(job)
  BY <1>1, NeedsAssumption DEF RequiredFailures, Runnable
<1>7. \A j \in Jobs : Shown(job'[j].status) = Shown(job[j].status)
  BY <1>1 DEF Shown, Runnable
<1> QED
  BY <1>2, <1>4, <1>5, <1>6, <1>7

-----------------------------------------------------------------------------
(* Opening the page of a run repairs its status. *)

(* When get_pipeline_run is about to answer, an open run has work to do.   *)
Repaired(r) == r.kind = "get" /\ r.pc = "end" /\ run \in OpenRun => Active(job) # {}

GetInv ==
    /\ RowsInv /\ AllServing
    /\ \A s \in Slots : Repaired(slot[s])

(* The answer comes from force_finalize_stuck_pipeline.                    *)
LEMMA StepRepairs ==
    ASSUME TypeOK, NEW s \in Slots, Step(s), Serving(slot[s]),
           slot'[s].kind = "get", slot'[s].pc = "end", run' \in OpenRun
    PROVE  Active(job') # {}
<1>0. slot \in [Slots -> SlotStates] /\ slot[s] \in SlotStates
  BY DEF TypeOK
<1>1. ~Reply(s)
  BY <1>0 DEF Reply, NoRequest
<1>2. slot[s].kind = "get" /\ slot[s].pc # "end"
  BY <1>1, StepSlot, StepPC
<1>3. slot[s].pc \in RcPCs \cup FzPCs \cup Deciding \cup {"fc_status"}
  BY <1>2 DEF Serving, PCsOf, SyncPCs
<1>4. Finalize(s) \/ Reclaim(s) \/ ForceFinalize(s)
  <2>1. slot[s].pc \notin MtPCs \cup IdlePCs \cup
            {"c_check", "c_unlock", "c_pending", "rr_names", "rr_reset", "rj_read", "rj_run",
             "k_tx", "k_check", "s_update", "s_check", "p_blocked", "p_update", "p_run", "p_check"}
    BY <1>3 DEF MtPCs, IdlePCs, RcPCs, FzPCs, Deciding
  <2> QED
    BY <1>1, <2>1
       DEF Step, UserWrites, IdlePCs, MaterializeRow, MaterializeCheck, MaterializeFinal,
           CompleteCheck, CompleteUnlock, CompletePending, Rerun, IdleStatus, IdleActive,
           RerunNames, RerunReset, RerunJobRead, RerunJobRun, CancelTx, CancelCheck,
           CancelStepUpdate, CancelStepCheck, PlayBlocked, PlayUpdate, PlayRun, PlayCheck,
           Read, At, MtPCs
<1>5. ~Finalize(s)
  <2>1. SUFFICES ASSUME Finalize(s)
                 PROVE  FALSE
    OBVIOUS
  <2>2. slot[s].pc \in FzPCs /\ slot'[s].pc \in FzPCs \cup {slot[s].back}
    BY <2>1, FinalizeSlot
  <2>3. slot[s].back # "end"
    BY <1>2, <2>2 DEF Serving
  <2> QED
    BY <2>2, <2>3 DEF FzPCs
<1>6. ~Reclaim(s)
  <2>1. ~ReclaimTimed(s) /\ ~ReclaimLost(s) /\ ~ReclaimCheck(s)
    BY <1>0 DEF ReclaimTimed, ReclaimLost, ReclaimCheck, SlotStates
  <2>2. ~ReclaimJob(s)
    <3>1. ReclaimJob(s) =>
            \E j, pc : /\ pc \in {"rc_check", "rc_next"}
                       /\ slot' = [slot EXCEPT ![s].todo = @ \ {j}, ![s].cur = j, ![s].pc = pc]
      BY DEF ReclaimJob
    <3> QED
      BY <1>0, <3>1 DEF SlotStates
  <2>3. ~ReclaimNext(s)
    <3>1. ReclaimNext(s) => \/ slot' = [slot EXCEPT ![s].pc = "rc_lost"]
                            \/ slot' = [slot EXCEPT ![s].pc = "fz_status", ![s].back = "fc_status"]
      BY <1>0, <1>2 DEF ReclaimNext
    <3> QED
      BY <1>0, <3>1 DEF SlotStates
  <2> QED
    BY <2>1, <2>2, <2>3 DEF Reclaim
<1>7. CASE ForceStatus(s)
  <2>1. CASE run \in OpenRun
    <3>1. Goto(s, "fc_active")
      BY <1>7, <2>1 DEF ForceStatus, Read
    <3>2. slot'[s].pc = "fc_active"
      BY <1>0, <3>1, GotoSlot
    <3> QED
      BY <3>2
  <2>2. CASE run \notin OpenRun
    BY <1>7, <2>2 DEF ForceStatus, Read, DB
  <2> QED
    BY <2>1, <2>2
<1>8. CASE ForceActive(s)
  <2>1. CASE Active(job) # {}
    <3>1. job' = job
      BY <1>8 DEF ForceActive, Read, DB
    <3> QED
      BY <2>1, <3>1
  <2>2. CASE Active(job) = {}
    <3>1. Goto(s, "fc_failed")
      BY <1>8, <2>2 DEF ForceActive, Read
    <3>2. slot'[s].pc = "fc_failed"
      BY <1>0, <3>1, GotoSlot
    <3> QED
      BY <3>2
  <2> QED
    BY <2>1, <2>2
<1>9. CASE ForceFailed(s) \/ ForceCancelled(s) \/ ForceSkipped(s)
  BY <1>0, <1>9 DEF ForceFailed, ForceCancelled, ForceSkipped, ForceDecide, SlotStates
<1>10. CASE ForceWrite(s)
  <2>1. slot[s].verdict \in Verdicts
    BY ReturnTypes
  <2> QED
    BY <1>10, <2>1 DEF ForceWrite, Verdicts, Reported, OpenRun
<1> QED
  BY <1>4, <1>5, <1>6, <1>7, <1>8, <1>9, <1>10 DEF ForceFinalize

LEMMA NextRepairs ==
    ASSUME OneAtATime, GetInv, [Next]_vars
    PROVE  GetInv'
<1>0. RowsInv /\ TypeOK /\ AllServing
  BY DEF GetInv, RowsInv
<1>1. RowsInv' /\ AllServing'
  BY <1>0, NextKeepsRows, NextServes
<1>2. ASSUME Elsewhere
      PROVE  \A t \in Slots : Repaired(slot[t])'
  BY <1>0, <1>2, ElsewhereMoves, ElsewhereKeeps DEF GetInv, Repaired
<1>3. ASSUME NEW s \in Slots, Arrive(s)
      PROVE  Repaired(slot[s])'
  <2>1. CASE slot' = slot
    <3>1. slot[s].pc = "idle" \/ (job' = job /\ run' = run)
      BY <1>3 DEF Arrive, StartTrigger, StartGet, StartStale, StartCancel, StartRerun,
                  StartCancelStep, StartPlay, DB, Report
    <3>2. slot[s].pc = "idle" => slot'[s].pc # "end"
      BY <2>1
    <3> QED
      BY <2>1, <3>1, <3>2 DEF GetInv, Repaired
  <2>2. CASE slot' # slot
    BY <1>0, <1>3, <2>2, ArriveSlot DEF Repaired, Reruns
  <2> QED
    BY <2>1, <2>2
<1>4. ASSUME NEW s \in Slots, Step(s)
      PROVE  Repaired(slot[s])'
  BY <1>0, <1>4, StepRepairs DEF Repaired, AllServing
<1>5. ASSUME NEW s \in Slots, Crash(s)
      PROVE  Repaired(slot[s])'
  BY <1>0, <1>5 DEF Crash, Repaired, NoRequest, TypeOK
<1>6. ASSUME NEW s \in Slots, Arrive(s) \/ Step(s) \/ Crash(s)
      PROVE  \A t \in Slots : Repaired(slot[t])'
  BY <1>3, <1>4, <1>5, <1>6 DEF OneAtATime
<1>7. \A t \in Slots : Repaired(slot[t])'
  BY <1>2, <1>6, NextCases DEF GetInv, Repaired
<1> QED
  BY <1>1, <1>7 DEF GetInv, Repaired

(* When requests are served one at a time, get_pipeline_run answers that a *)
(* run is open only if a job runs or can be claimed, whatever statements   *)
(* crashes of the API cut off before and whatever runners and users did.   *)
THEOREM GetRepairsRuns ==
    ASSUME OneAtATime
    PROVE  Spec => GetRepairs
<1> DEFINE Answer ==
      \A s \in Slots :
         slot[s].kind = "get" /\ slot[s].pc = "end" /\ slot'[s].pc = "idle" =>
            (run \in OpenRun => Active(job) # {})
<1>1. Init => GetInv
  BY InitRows, InitServes DEF Init, GetInv, Repaired, NoRequest
<1>2. GetInv /\ [Next]_vars => GetInv'
  BY NextRepairs
<1>3. GetInv => Answer
  BY DEF GetInv, Repaired
<1>4. GetInv /\ [Next]_vars => [Answer]_vars
  BY <1>3
<1> QED
  BY <1>1, <1>2, <1>4, PTL DEF Spec, GetRepairs

-----------------------------------------------------------------------------
(* What a handler statement writes to a row. *)

LEMMA StepRows ==
    ASSUME TypeOK, NEW s \in Slots, Step(s), NEW k \in Jobs, job'[k] # job[k]
    PROVE  \/ /\ MaterializeRow(s) /\ k \in slot[s].todo
              /\ \A i \in slot[s].todo : Rank[k] <= Rank[i]
              /\ job'[k] = MaterialRow(k, ResetOf(slot[s].kind))
           \/ /\ CompleteUnlock(s) /\ k \in Unlocked(job, slot[s].job)
              /\ job'[k].status = "queued" /\ job'[k].why = "none"
           \/ /\ FinalizeSkip(s) /\ job[k].status = "queued"
              /\ job'[k].status = "skipped" /\ job'[k].why = "upstreamFailed"
           \/ ReclaimJob(s) /\ job[k].status = "running" /\ job'[k].status = "failure"
           \/ /\ CancelTx(s) /\ job[k].status \in {"queued", "manual", "running"}
              /\ job'[k].status = "cancelled"
           \/ /\ CancelStepUpdate(s) /\ k = slot[s].job
              /\ job[k].status = "running" /\ job'[k].status = "cancelled"
           \/ /\ PlayUpdate(s) /\ k = slot[s].job
              /\ job[k].status = "manual" /\ job'[k].status = "queued"
<1>0. job \in [Jobs -> Rows]
  BY DEF TypeOK
<1>1. CASE MaterializeRow(s)
  <2>1. PICK j \in slot[s].todo :
            /\ \A i \in slot[s].todo : Rank[j] <= Rank[i]
            /\ job' = [job EXCEPT ![j] = MaterialRow(j, ResetOf(slot[s].kind))]
    BY <1>1 DEF MaterializeRow
  <2>2. k = j
    BY <1>0, <2>1
  <2> QED
    BY <1>0, <1>1, <2>1, <2>2
<1>2. CASE CompleteUnlock(s)
  BY <1>0, <1>2 DEF CompleteUnlock, Rows
<1>3. CASE FinalizeSkip(s)
  BY <1>0, <1>3 DEF FinalizeSkip, Rows
<1>4. CASE ReclaimJob(s)
  <2>1. job'[k] = job[k] \/ (job[k].status = "running" /\ job'[k].status = "failure")
    BY <1>0, <1>4 DEF ReclaimJob, SetStatus, Rows
  <2> QED
    BY <1>4, <2>1
<1>5. CASE CancelTx(s)
  BY <1>0, <1>5 DEF CancelTx, Running, Rows
<1>6. CASE CancelStepUpdate(s)
  <2>1. /\ job[slot[s].job].status = "running"
        /\ job' = [job EXCEPT ![slot[s].job].status = "cancelled",
                              ![slot[s].job].cancelReq = TRUE]
    BY <1>6 DEF CancelStepUpdate
  <2>2. k = slot[s].job
    BY <1>0, <2>1
  <2>3. job'[k].status = "cancelled"
    BY <1>0, <2>1, <2>2 DEF Rows
  <2> QED
    BY <1>6, <2>1, <2>2, <2>3
<1>7. CASE PlayUpdate(s)
  <2>1. /\ job[slot[s].job].status = "manual"
        /\ job' = [job EXCEPT ![slot[s].job].status = "queued",
                              ![slot[s].job].why = "none",
                              ![slot[s].job].holder = NoPod,
                              ![slot[s].job].overdue = FALSE]
    BY <1>7 DEF PlayUpdate
  <2>2. k = slot[s].job
    BY <1>0, <2>1
  <2>3. job'[k].status = "queued"
    BY <1>0, <2>1, <2>2 DEF Rows
  <2> QED
    BY <1>7, <2>1, <2>2, <2>3
<1> QED
  BY <1>1, <1>2, <1>3, <1>4, <1>5, <1>6, <1>7, WritersOfRows

(* The start of a request writes a row only if it is a runner's report.    *)
LEMMA ArriveRows ==
    ASSUME TypeOK, NEW s \in Slots, Arrive(s), NEW k \in Jobs, job'[k] # job[k]
    PROVE  /\ job[k].status \in {"running", "cancelled"}
           /\ job'[k] = [job[k] EXCEPT !.status = job'[k].status]
           /\ job'[k].status \in Reported
           /\ job[k].status = "cancelled" => job'[k].status = "cancelled"
           /\ slot'[s] = [NoRequest EXCEPT !.pc = "c_check", !.kind = "complete", !.job = k,
                                           !.pod = slot'[s].pod, !.verdict = job'[k].status]
           /\ run' = run /\ check' = check
           /\ \A j \in Jobs \ {k} : job'[j] = job[j]
<1>0. job \in [Jobs -> Rows] /\ slot \in [Slots -> SlotStates] /\ exec \in [Pods -> Execs]
  BY DEF TypeOK
<1>1. PICK p \in Pods, v \in Reported : Report(s, p, v)
  BY DEF Arrive, StartTrigger, StartGet, StartStale, StartCancel, StartRerun,
         StartCancelStep, StartPlay, DB
<1>9. job' # job
  OBVIOUS
<1> DEFINE j     == exec[p].job
           final == IF job[j].status = "cancelled" THEN "cancelled" ELSE v
<1>2. /\ job' = [job EXCEPT ![j].status = final]
      /\ slot' = [slot EXCEPT ![s] =
                    [NoRequest EXCEPT !.pc = "c_check", !.kind = "complete",
                                      !.job = j, !.pod = p, !.verdict = final]]
      /\ job[j].status \in {"running", "cancelled"}
  BY <1>1, <1>9 DEF Report, Reportable
<1>3. j \in Jobs /\ k = j /\ run' = run /\ check' = check
  BY <1>0, <1>1, <1>2 DEF Report, Execs
<1>4. job'[k] = [job[k] EXCEPT !.status = final] /\ \A i \in Jobs \ {k} : job'[i] = job[i]
  BY <1>0, <1>2, <1>3
<1>5. job'[k].status = final
  BY <1>0, <1>4 DEF Rows
<1>6. slot'[s] = [NoRequest EXCEPT !.pc = "c_check", !.kind = "complete",
                                   !.job = k, !.pod = p, !.verdict = final]
  BY <1>0, <1>2, <1>3
<1>7. slot'[s].pod = p
  BY <1>6 DEF NoRequest
<1>8. final \in Reported /\ (job[k].status = "cancelled" => final = "cancelled")
  BY <1>3 DEF Reported
<1> HIDE DEF j, final
<1> QED
  BY <1>2, <1>3, <1>4, <1>5, <1>6, <1>7, <1>8

-----------------------------------------------------------------------------
(* The needs of a running job. *)

(* The schedule skips these for good: re-runs keep them skipped.           *)
SkippedStays(j) ==
    Mode[j] = "Skipped" => \/ job[j].status = "absent"
                           \/ job[j].status = "skipped" /\ job[j].why = "if"

(* The loop that materialises the rows of todo, in schedule order: a full  *)
(* re-run never leaves a need of a finished row behind, the others never   *)
(* reset a need of a job that runs or can be claimed.                      *)
Loops(r) ==
    /\ r.pc \in {"rr_names", "rr_reset", "rj_read"} => Active(job) = {}
    /\ r.pc = "rr_reset" /\ r.kind = "rerunAll" => r.todo = Jobs
    /\ r.pc \in MtPCs /\ r.kind \in {"rerunFailed", "rerunJob"} =>
         \A j \in Active(job) : Needs[j] \cap r.todo = {}
    /\ r.pc \in MtPCs /\ r.kind \in {"trigger", "rerunAll"} =>
         \A j \in Jobs \ r.todo : Needs[j] \cap r.todo = {}
    /\ r.pc \in MtPCs /\ r.kind = "trigger" => \A j \in r.todo : job[j].status = "absent"

NeedsInv ==
    /\ RowsInv /\ AllServing /\ PushIsFirst
    /\ \A j \in Jobs : SkippedStays(j)
    /\ \A s \in Slots : Loops(slot[s])

LEMMA UserPC ==
    ASSUME TypeOK, NEW s \in Slots, UserWrites(s)
    PROVE  slot'[s].pc \in {"k_check", "rc_timed", "s_check", "end", "fz_status",
                            "p_update", "p_run", "p_check"}
<1>0. slot \in [Slots -> SlotStates] /\ slot[s] \in SlotStates
  BY DEF TypeOK
<1>1. CASE CancelTx(s)
  BY <1>0, <1>1 DEF CancelTx, SlotStates
<1>2. CASE CancelCheck(s)
  <2>1. CASE Goto(s, "rc_timed")
    BY <1>0, <2>1, GotoSlot
  <2>2. CASE \E j : slot' = [slot EXCEPT ![s].todo = @ \ {j}]
    BY <1>0, <1>2, <2>2 DEF CancelCheck, At, SlotStates
  <2> QED
    BY <1>2, <2>1, <2>2 DEF CancelCheck
<1>3. CASE ~CancelTx(s) /\ ~CancelCheck(s)
  <2>1. PICK pc \in {"s_check", "end", "fz_status", "p_update", "p_run", "p_check", "rc_timed"} :
            Goto(s, pc)
    BY <1>3 DEF UserWrites, CancelStepUpdate, CancelStepCheck, PlayBlocked, PlayUpdate, PlayRun,
                PlayCheck, Read
  <2>2. slot'[s].pc = pc
    BY <1>0, <2>1, GotoSlot
  <2> QED
    BY <2>2
<1> QED
  BY <1>1, <1>2, <1>3

LEMMA CompletePC ==
    ASSUME TypeOK, NEW s \in Slots, CompleteCheck(s) \/ CompleteUnlock(s) \/ CompletePending(s)
    PROVE  slot'[s].pc \in {"c_unlock", "c_pending", "fz_status"}
<1>0. slot \in [Slots -> SlotStates] /\ slot[s] \in SlotStates
  BY DEF TypeOK
<1>1. CASE CompleteUnlock(s)
  BY <1>0, <1>1 DEF CompleteUnlock, SlotStates
<1>2. ASSUME NEW pc \in {"c_unlock", "fz_status"}, Goto(s, pc)
      PROVE  slot'[s].pc = pc
  BY <1>0, <1>2, GotoSlot
<1>3. CASE At(s, "c_pending") /\ \E j : slot' = [slot EXCEPT ![s].todo = @ \ {j}]
  BY <1>0, <1>3 DEF SlotStates, At
<1> QED
  BY <1>1, <1>2, <1>3 DEF CompleteCheck, CompletePending

(* How a request gets into a loop over the rows.                           *)
LEMMA IntoLoop ==
    ASSUME TypeOK, NEW s \in Slots, Step(s), Serving(slot[s]),
           slot'[s].pc \in MtPCs \cup {"rr_names", "rr_reset", "rj_read"}
    PROVE  \/ MaterializeRow(s) \/ MaterializeCheck(s)
           \/ IdleActive(s) \/ RerunNames(s) \/ RerunReset(s) \/ RerunJobRead(s)
<1>0. slot \in [Slots -> SlotStates] /\ slot[s] \in SlotStates
  BY DEF TypeOK
<1>1. slot[s].back \in {"end", "rc_next", "fc_status"} /\ slot[s].after \in {"end", "id_status"}
  BY DEF Serving
<1>2. ~Finalize(s)
  BY <1>1, FinalizeSlot DEF MtPCs, FzPCs
<1>3. ~Reclaim(s)
  BY ReclaimSlot DEF MtPCs, RcPCs, FzPCs
<1>4. ~ForceFinalize(s)
  BY <1>1, ForceSlot DEF MtPCs, Deciding
<1>5. ~UserWrites(s)
  BY UserPC DEF MtPCs
<1>6. ~CompleteCheck(s) /\ ~CompleteUnlock(s) /\ ~CompletePending(s)
  BY CompletePC DEF MtPCs
<1>7. ~Reply(s)
  BY <1>0 DEF Reply, NoRequest, MtPCs
<1>8. ~MaterializeFinal(s)
  <2>1. MaterializeFinal(s) => \E pc \in {"rj_run", "end"} : Goto(s, pc)
    BY DEF MaterializeFinal
  <2> QED
    BY <1>0, <2>1, GotoSlot DEF MtPCs
<1>9. ~IdleStatus(s)
  <2>1. IdleStatus(s) => \E pc \in {"id_active", "end"} : Goto(s, pc)
    BY DEF IdleStatus, Read
  <2> QED
    BY <1>0, <2>1, GotoSlot DEF MtPCs
<1>10. ~RerunJobRun(s)
  BY <1>0 DEF RerunJobRun, SlotStates, MtPCs
<1> QED
  BY <1>2, <1>3, <1>4, <1>5, <1>6, <1>7, <1>8, <1>9, <1>10 DEF Step, Rerun

LEMMA NextSkipped ==
    ASSUME NeedsInv, [Next]_vars, NEW j \in Jobs
    PROVE  SkippedStays(j)'
<1>0. RowsInv /\ TypeOK /\ SkippedStays(j)
  BY DEF NeedsInv, RowsInv
<1>1. CASE job'[j] = job[j]
  BY <1>0, <1>1 DEF SkippedStays
<1>2. CASE Elsewhere
  BY <1>0, <1>2, ElsewhereMoves DEF SkippedStays, Runnable
<1>3. ASSUME NEW s \in Slots, Arrive(s), job'[j] # job[j]
      PROVE  SkippedStays(j)'
  BY <1>0, <1>3, ArriveRows DEF SkippedStays
<1>4. ASSUME NEW s \in Slots, Step(s), job'[j] # job[j], Mode[j] = "Skipped"
      PROVE  job'[j].status = "skipped" /\ job'[j].why = "if"
  <2>1. CASE /\ job'[j] = MaterialRow(j, ResetOf(slot[s].kind))
    BY <1>4, <2>1 DEF MaterialRow, NewRow, MaterialStatus, MaterialReason, StaysSkipped
  <2>2. CASE j \in Unlocked(job, slot[s].job)
    BY <1>0, <1>4, <2>2 DEF Unlocked, SkippedStays
  <2>3. CASE job[j].status \in {"queued", "manual", "running"}
    BY <1>0, <1>4, <2>3 DEF SkippedStays
  <2> QED
    BY <1>0, <1>4, <2>1, <2>2, <2>3, StepRows
<1>5. ASSUME NEW s \in Slots, Crash(s)
      PROVE  job' = job
  BY <1>5 DEF Crash, DB
<1> QED
  BY <1>1, <1>2, <1>3, <1>4, <1>5, NextCases DEF SkippedStays

(* A row that a failed or single re-run resets frees nobody.               *)
LEMMA ResetFrees ==
    ASSUME TypeOK, NEW s \in Slots, MaterializeRow(s), slot[s].kind \notin {"trigger", "rerunAll"},
           \A j \in Jobs : SkippedStays(j),
           NEW k \in slot[s].todo, job' = [job EXCEPT ![k] = MaterialRow(k, ResetOf(slot[s].kind))]
    PROVE  Active(job') \subseteq Active(job) \cup {k}
<1>0. job \in [Jobs -> Rows] /\ slot[s].todo \subseteq Jobs
  BY DEF TypeOK, SlotStates
<1>1. k \in Jobs /\ \A j \in Jobs \ {k} : job'[j] = job[j]
  BY <1>0
<1>2. job'[k] = MaterialRow(k, "Jobs")
  BY <1>0, <1>1 DEF ResetOf
<1>3. \/ Mode[k] = "Skipped" /\ job'[k].status = "skipped"
      \/ job'[k].status = "queued"
  BY <1>2 DEF MaterialRow, NewRow, MaterialStatus, StaysSkipped
<1>4. Satisfied(job', k) => Satisfied(job, k)
  BY <1>1, <1>3 DEF Satisfied, SkippedStays
<1>5. \A d \in Jobs : Satisfied(job', d) => Satisfied(job, d)
  BY <1>1, <1>4 DEF Satisfied
<1>6. \A j \in Jobs : Unblocked(job', j) => Unblocked(job, j)
  BY <1>5, NeedsAssumption DEF Unblocked
<1> QED
  BY <1>1, <1>6 DEF Active, Running, Runnable

LEMMA StepLoops ==
    ASSUME NeedsInv, NEW s \in Slots, Step(s)
    PROVE  Loops(slot[s])'
<1>0. RowsInv /\ TypeOK /\ Serving(slot[s]) /\ Loops(slot[s]) /\ \A j \in Jobs : SkippedStays(j)
  BY DEF NeedsInv, RowsInv, AllServing
<1>1. slot \in [Slots -> SlotStates] /\ slot[s] \in SlotStates
  BY <1>0 DEF TypeOK
<1>2. CASE slot'[s].pc \notin MtPCs \cup {"rr_names", "rr_reset", "rj_read"}
  BY <1>2 DEF Loops
<1>3. CASE IdleActive(s)
  <2>1. job' = job /\ slot'[s].todo = Jobs /\ slot'[s].kind = slot[s].kind
    BY <1>1, <1>3 DEF IdleActive, SlotStates, DB
  <2>2. /\ slot'[s].pc \in {"end", "rr_reset", "rr_names", "rj_read"}
        /\ Active(job) # {} => slot'[s].pc = "end"
    <3>1. PICK pc \in {"end", "rr_reset", "rr_names", "rj_read"} :
              /\ slot' = [slot EXCEPT ![s].todo = Jobs, ![s].pc = pc]
              /\ Active(job) # {} => pc = "end"
      <4>1. CASE Active(job) # {}
        BY <1>3, <4>1 DEF IdleActive
      <4>2. CASE Active(job) = {}
        BY <1>3, <4>2 DEF IdleActive, ResetPC
      <4> QED
        BY <4>1, <4>2
    <3> QED
      BY <1>1, <3>1 DEF SlotStates
  <2> QED
    BY <2>1, <2>2 DEF Loops, MtPCs
<1>4. CASE RerunNames(s)
  <2>1. job' = job /\ slot'[s].pc \in {"end", "rr_reset"} /\ slot'[s].kind = slot[s].kind
    BY <1>1, <1>4 DEF RerunNames, SlotStates, DB
  <2>2. slot[s].kind = "rerunFailed" /\ slot[s].pc = "rr_names"
    BY <1>0, <1>4, KindAt DEF RerunNames, At
  <2> QED
    BY <1>0, <2>1, <2>2 DEF Loops, MtPCs
<1>5. CASE RerunReset(s)
  <2>1. /\ job' = job /\ slot'[s].pc = "mt_row" /\ slot'[s].kind = slot[s].kind
        /\ slot'[s].todo = slot[s].todo
    BY <1>1, <1>5 DEF RerunReset, Goto, SlotStates
  <2>2. slot[s].kind \in {"rerunAll", "rerunFailed"} /\ slot[s].pc = "rr_reset"
    BY <1>0, <1>5, KindAt DEF RerunReset, At
  <2> QED
    BY <1>0, <2>1, <2>2 DEF Loops, MtPCs
<1>6. CASE RerunJobRead(s)
  <2>1. job' = job /\ slot'[s].pc \in {"mt_row", "end"} /\ slot'[s].kind = slot[s].kind
    BY <1>1, <1>6 DEF RerunJobRead, SlotStates, DB
  <2>2. slot[s].kind = "rerunJob" /\ slot[s].pc = "rj_read"
    BY <1>0, <1>6, KindAt DEF RerunJobRead, At
  <2> QED
    BY <1>0, <2>1, <2>2 DEF Loops, MtPCs
<1>7. CASE MaterializeCheck(s)
  <2>1. /\ job' = job /\ slot'[s].pc \in MtPCs /\ slot'[s].kind = slot[s].kind
        /\ slot'[s].todo = slot[s].todo /\ slot[s].pc \in MtPCs
    BY <1>1, <1>7 DEF MaterializeCheck, Goto, SlotStates, MtPCs, At
  <2> QED
    BY <1>0, <2>1 DEF Loops, MtPCs
<1>8. CASE MaterializeRow(s)
  <2>1. PICK k \in slot[s].todo :
            /\ \A i \in slot[s].todo : Rank[k] <= Rank[i]
            /\ job' = [job EXCEPT ![k] = MaterialRow(k, ResetOf(slot[s].kind))]
            /\ slot' = [slot EXCEPT ![s].pc = "mt_check", ![s].cur = k, ![s].todo = @ \ {k}]
    BY <1>8 DEF MaterializeRow
  <2>2. /\ slot'[s].pc = "mt_check" /\ slot'[s].kind = slot[s].kind
        /\ slot'[s].todo = slot[s].todo \ {k} /\ slot[s].pc \in MtPCs
        /\ k \in Jobs /\ slot[s].todo \subseteq Jobs
    BY <1>1, <1>8, <2>1 DEF MaterializeRow, SlotStates, MtPCs, At
  <2>3. \A j \in Jobs \ {k} : job'[j] = job[j]
    BY <1>0, <2>1, <2>2 DEF TypeOK
  <2>4. Needs[k] \cap slot'[s].todo = {}
    <3>1. \A d \in Needs[k] \cap slot[s].todo : Rank[d] < Rank[k] /\ Rank[k] <= Rank[d]
      BY <2>1, <2>2, RankAssumption
    <3>2. \A d \in Jobs : Rank[d] \in Nat
      BY RankAssumption
    <3>3. Needs[k] \cap slot[s].todo = {}
      BY <2>2, <3>1, <3>2
    <3> QED
      BY <2>2, <3>3
  <2>5. CASE slot[s].kind \in {"trigger", "rerunAll"}
    BY <1>0, <2>2, <2>3, <2>4, <2>5 DEF Loops, MtPCs
  <2>6. CASE slot[s].kind \notin {"trigger", "rerunAll"}
    <3>1. Active(job') \subseteq Active(job) \cup {k}
      BY <1>0, <1>8, <2>1, <2>6, ResetFrees
    <3>2. slot[s].kind \in {"rerunFailed", "rerunJob"}
      BY <1>0, <2>2, <2>6, KindAt DEF Reruns
    <3>3. \A j \in Active(job) : Needs[j] \cap slot[s].todo = {}
      BY <1>0, <2>2, <3>2 DEF Loops
    <3> QED
      BY <2>2, <2>4, <2>6, <3>1, <3>3 DEF Loops, MtPCs
  <2> QED
    BY <2>5, <2>6
<1> QED
  BY <1>0, <1>2, <1>3, <1>4, <1>5, <1>6, <1>7, <1>8, IntoLoop

LEMMA ArriveLoops ==
    ASSUME NeedsInv, NEW s \in Slots, Arrive(s)
    PROVE  Loops(slot[s])'
<1>0. TypeOK /\ Serving(slot[s]) /\ Loops(slot[s])
  BY DEF NeedsInv, RowsInv, AllServing
<1>1. CASE slot' = slot
  <2>1. ASSUME NEW p \in Pods, NEW v \in Reported, Report(s, p, v)
        PROVE  job' = job
    <3>1. job' = job \/ (slot[s].pc = "idle" /\ \E j, w :
            slot' = [slot EXCEPT ![s] =
                       [NoRequest EXCEPT !.pc = "c_check", !.kind = "complete",
                                         !.job = j, !.pod = p, !.verdict = w]])
      BY <2>1 DEF Report
    <3> QED
      BY <1>0, <1>1, <3>1 DEF TypeOK, NoRequest
  <2>2. job' = job
    BY <1>1, <2>1 DEF Arrive, StartTrigger, StartGet, StartStale, StartCancel, StartRerun,
                      StartCancelStep, StartPlay, DB
  <2> QED
    BY <1>0, <1>1, <2>2 DEF Loops
<1>2. CASE StartTrigger(s)
  <2>1. /\ slot'[s].kind = "trigger" /\ slot'[s].todo = Jobs /\ job' = job
        /\ slot'[s].pc = "mt_row" /\ run = "absent"
    BY <1>0, <1>2 DEF StartTrigger, TypeOK, SlotStates, NoRequest
  <2>2. \A j \in Jobs : job[j].status = "absent"
    BY <2>1 DEF NeedsInv, PushIsFirst
  <2> QED
    BY <2>1, <2>2 DEF Loops
<1>3. CASE slot' # slot /\ ~StartTrigger(s)
  <2>1. slot'[s].pc \in {"c_check", "rc_timed", "k_tx", "s_update", "p_blocked"}
    <3>1. <<slot'[s].kind, slot'[s].pc>> \in
                      {<<"trigger", "mt_row">>, <<"complete", "c_check">>, <<"get", "rc_timed">>,
                       <<"stale", "rc_timed">>, <<"cancel", "k_tx">>, <<"cancelStep", "s_update">>,
                       <<"play", "p_blocked">>} \cup {<<k, "rc_timed">> : k \in Reruns}
      BY <1>0, <1>3, ArriveSlot
    <3>2. slot'[s].kind # "trigger"
      BY <1>0, <1>3, ArriveSlot
    <3> QED
      BY <3>1, <3>2 DEF Reruns
  <2> QED
    BY <2>1 DEF Loops, MtPCs
<1> QED
  BY <1>1, <1>2, <1>3

LEMMA NextNeeds ==
    ASSUME OneAtATime, NeedsInv, [Next]_vars
    PROVE  NeedsInv'
<1>0. RowsInv /\ TypeOK /\ AllServing /\ PushIsFirst
  BY DEF NeedsInv, RowsInv
<1>1. RowsInv' /\ AllServing' /\ PushIsFirst' /\ \A j \in Jobs : SkippedStays(j)'
  BY <1>0, NextKeepsRows, NextServes, NextPush, NextSkipped
<1>2. ASSUME Elsewhere, NEW s \in Slots
      PROVE  Loops(slot[s])'
  <2>1. Active(job') = Active(job) /\ slot' = slot
    BY <1>0, <1>2, ElsewhereMoves, ElsewhereKeeps
  <2>2. \A j \in Jobs : job[j].status = "absent" => job'[j].status = "absent"
    BY <1>0, <1>2, ElsewhereMoves DEF Runnable
  <2>3. Loops(slot[s]) /\ slot[s].todo \subseteq Jobs
    BY <1>0 DEF NeedsInv, TypeOK, SlotStates
  <2> QED
    BY <2>1, <2>2, <2>3 DEF Loops
<1>3. ASSUME NEW s \in Slots, Crash(s)
      PROVE  Loops(slot[s])'
  <2>1. slot'[s].pc = "idle"
    BY <1>0, <1>3 DEF Crash, TypeOK, NoRequest
  <2> QED
    BY <2>1 DEF Loops, MtPCs
<1>4. ASSUME NEW s \in Slots, Arrive(s) \/ Step(s) \/ Crash(s), NEW t \in Slots
      PROVE  Loops(slot[t])'
  <2>1. t = s
    BY DEF OneAtATime
  <2> QED
    BY <1>3, <1>4, <2>1, ArriveLoops, StepLoops
<1>5. \A t \in Slots : Loops(slot[t])'
  BY <1>2, <1>4, NextCases
<1> QED
  BY <1>1, <1>5 DEF NeedsInv

(* A need is taken back by one of the two steps that may.                  *)
LEMMA StepNeeds ==
    ASSUME NeedsInv, NEW s \in Slots, Step(s), NEW j \in Running(job), NEW d \in Needs[j],
           Satisfied(job, d), ~Satisfied(job', d)
    PROVE  \/ slot[s].pc = "c_unlock" /\ job'[d].status = "queued"
           \/ slot[s].pc = "mt_row" /\ slot[s].kind = "rerunAll" /\ j \in slot[s].todo
<1>0. TypeOK /\ Serving(slot[s]) /\ Loops(slot[s]) /\ slot[s].todo \subseteq Jobs
  BY DEF NeedsInv, RowsInv, AllServing, TypeOK, SlotStates
<1>1. j \in Jobs /\ d \in Jobs /\ job[j].status = "running"
  BY NeedsAssumption DEF Running
<1>2. job'[d] # job[d] /\ job[d].status \in {"absent", "success", "skipped", "failure"}
  BY <1>1 DEF Satisfied
<1>3. CASE CompleteUnlock(s) /\ job'[d].status = "queued"
  BY <1>3 DEF CompleteUnlock, At
<1>4. CASE MaterializeRow(s) /\ d \in slot[s].todo
  <2>1. slot[s].pc = "mt_row" /\ slot[s].pc \in MtPCs
    BY <1>4 DEF MaterializeRow, At, MtPCs
  <2>2. slot[s].kind \in {"trigger"} \cup Reruns
    BY <1>0, <2>1, KindAt
  <2>3. slot[s].kind \notin {"rerunFailed", "rerunJob"}
    BY <1>0, <1>1, <1>4, <2>1 DEF Loops, Active, Running
  <2>4. slot[s].kind \in {"trigger", "rerunAll"}
    BY <2>2, <2>3 DEF Reruns
  <2>5. j \in slot[s].todo
    BY <1>0, <1>1, <1>4, <2>1, <2>4 DEF Loops
  <2>6. slot[s].kind # "trigger"
    BY <1>0, <1>1, <2>1, <2>5 DEF Loops
  <2> QED
    BY <2>1, <2>4, <2>5, <2>6
<1> QED
  BY <1>0, <1>1, <1>2, <1>3, <1>4, StepRows

(* When requests are served one at a time, a running job keeps the needs   *)
(* it was started with, whatever fails or is cut off, but for the release  *)
(* of a skipped job it depends on and for a re-run of everything that a    *)
(* claim overtook.                                                         *)
THEOREM NeedsAreKept ==
    ASSUME OneAtATime
    PROVE  Spec => NeedsKept
<1>1. Init => NeedsInv
  <2> SUFFICES ASSUME Init
               PROVE  NeedsInv
    OBVIOUS
  <2>1. \A j \in Jobs : SkippedStays(j)
    BY DEF Init, SkippedStays, NewRow
  <2>2. \A s \in Slots : Loops(slot[s])
    BY DEF Init, Loops, NoRequest, MtPCs
  <2> QED
    BY <2>1, <2>2, InitRows, InitServes, InitPush DEF NeedsInv
<1>2. NeedsInv /\ [Next]_vars => NeedsInv'
  BY NextNeeds
<1>3. NeedsInv /\ [Next]_vars => [NeedsStep]_vars
  <2> SUFFICES ASSUME NeedsInv, [Next]_vars, NEW j \in Running(job), NEW d \in Needs[j],
                      Satisfied(job, d), ~Satisfied(job', d)
               PROVE  \E s \in Slots :
                        \/ slot[s].pc = "c_unlock" /\ job'[d].status = "queued"
                        \/ slot[s].pc = "mt_row" /\ slot[s].kind = "rerunAll" /\ j \in slot[s].todo
    BY DEF NeedsStep
  <2>0. RowsInv /\ TypeOK /\ d \in Jobs
    BY NeedsAssumption DEF NeedsInv, RowsInv, Running
  <2>1. job'[d] # job[d] /\ job[d].status \notin {"running", "cancelled"}
    BY DEF Satisfied
  <2>2. ~Elsewhere
    BY <2>0, ElsewhereKeeps
  <2>3. \A s \in Slots : ~Arrive(s) /\ ~Crash(s)
    BY <2>0, <2>1, ArriveRows DEF Crash, DB
  <2> QED
    BY <2>2, <2>3, NextCases, StepNeeds
<1> QED
  BY <1>1, <1>2, <1>3, PTL DEF Spec, NeedsKept

-----------------------------------------------------------------------------
(* The commit statuses. *)

(* The rows whose commit status the request has still to write, and what   *)
(* it will write.                                                          *)
Owes(r) ==
    CASE r.pc \in {"mt_check", "rc_check"}                   -> {r.cur}
      [] r.pc \in {"c_check", "s_check", "p_run", "p_check"} -> {r.job}
      [] r.pc \in {"c_pending", "k_check"}                   -> r.todo
      [] r.pc = "fz_skipcheck"                               -> r.skips
      [] OTHER                                               -> {}

Owed(r) ==
    CASE r.pc = "mt_check"                        -> MaterialCheck(r.cur, ResetOf(r.kind))
      [] r.pc = "c_check"                         -> CheckFor(r.verdict)
      [] r.pc \in {"c_pending", "p_run", "p_check"} -> "pending"
      [] r.pc = "fz_skipcheck"                    -> "success"
      [] OTHER                                    -> "failure"

Owing == {"mt_check", "rc_check", "c_check", "s_check", "p_run", "p_check",
          "c_pending", "k_check", "fz_skipcheck"}

(* What the row says is what the commit status shows or will show.         *)
CheckSound(r, j) == Shown(job[j].status) = IF j \in Owes(r) THEN Owed(r) ELSE check[j]

(* The rows a reclaim has still to fail are still running.                 *)
ReclaimSound(r) ==
    r.pc \in {"rc_next", "rc_check"} \/ (r.pc \in FzPCs /\ r.back = "rc_next") =>
        r.todo \subseteq Running(job)

ChecksInv ==
    /\ RowsInv /\ AllServing
    /\ \A s \in Slots : ReclaimSound(slot[s]) /\ \A j \in Jobs : CheckSound(slot[s], j)

LEMMA OwesNothing ==
    ASSUME NEW r, r.pc \notin Owing
    PROVE  Owes(r) = {}
BY DEF Owes, Owing

LEMMA ShownFacts ==
    /\ Shown("absent") = "absent" /\ Shown("queued") = "pending"
    /\ Shown("manual") = "pending" /\ Shown("running") = "pending"
    /\ Shown("skipped") = "success" /\ Shown("cancelled") = "failure"
    /\ Shown("failure") = "failure" /\ Shown("success") = "success"
    /\ \A v \in Reported : Shown(v) = CheckFor(v)
BY DEF Shown, CheckFor, Reported

LEMMA MaterialShown ==
    ASSUME NEW j, NEW reset
    PROVE  Shown(MaterialRow(j, reset).status) = MaterialCheck(j, reset)
BY ShownFacts DEF MaterialRow, NewRow, MaterialStatus, MaterialCheck

(* A statement that writes the commit statuses of J as they were owed.     *)
LEMMA PaysChecks ==
    ASSUME TypeOK, NEW s \in Slots, NEW state, NEW J,
           \A j \in Jobs : CheckSound(slot[s], j),
           SetChecks(J, state), UNCHANGED job, J \subseteq Owes(slot[s]), state = Owed(slot[s]),
           Owes(slot'[s]) = Owes(slot[s]) \ J,
           Owes(slot'[s]) = {} \/ Owed(slot'[s]) = Owed(slot[s])
    PROVE  \A j \in Jobs : CheckSound(slot[s], j)'
<1> SUFFICES ASSUME NEW j \in Jobs
             PROVE  CheckSound(slot[s], j)'
  OBVIOUS
<1>1. check'[j] = IF j \in J THEN state ELSE check[j]
  BY DEF SetChecks
<1> QED
  BY <1>1 DEF CheckSound

LEMMA MaterializeChecks ==
    ASSUME ChecksInv, NEW s \in Slots,
           MaterializeRow(s) \/ MaterializeCheck(s) \/ MaterializeFinal(s)
    PROVE  \A j \in Jobs : CheckSound(slot[s], j)'
<1>0. /\ TypeOK /\ \A j \in Jobs : CheckSound(slot[s], j)
      /\ slot \in [Slots -> SlotStates] /\ slot[s] \in SlotStates /\ job \in [Jobs -> Rows]
  BY DEF ChecksInv, RowsInv, TypeOK
<1>1. CASE MaterializeRow(s)
  <2>1. PICK k \in slot[s].todo :
            /\ job' = [job EXCEPT ![k] = MaterialRow(k, ResetOf(slot[s].kind))]
            /\ slot' = [slot EXCEPT ![s].pc = "mt_check", ![s].cur = k, ![s].todo = @ \ {k}]
    BY <1>1 DEF MaterializeRow
  <2>2. slot'[s].pc = "mt_check" /\ slot'[s].cur = k /\ slot'[s].kind = slot[s].kind
    BY <1>0, <2>1 DEF SlotStates
  <2>3. k \in Jobs /\ job'[k] = MaterialRow(k, ResetOf(slot[s].kind))
    BY <1>0, <2>1 DEF SlotStates
  <2>4. Owes(slot[s]) = {}
    BY <1>1, OwesNothing DEF MaterializeRow, At, Owing
  <2>5. Owes(slot'[s]) = {k} /\ Owed(slot'[s]) = MaterialCheck(k, ResetOf(slot[s].kind))
    BY <2>2 DEF Owes, Owed
  <2>6. check' = check /\ \A j \in Jobs \ {k} : job'[j] = job[j]
    BY <1>0, <1>1, <2>1 DEF MaterializeRow
  <2> QED
    BY <1>0, <2>3, <2>4, <2>5, <2>6, MaterialShown DEF CheckSound
<1>2. CASE MaterializeCheck(s)
  <2>1. slot'[s].pc \in {"mt_row", "mt_final"} /\ slot[s].pc = "mt_check"
    BY <1>0, <1>2 DEF MaterializeCheck, Goto, At, SlotStates
  <2>2. /\ Owes(slot[s]) = {slot[s].cur}
        /\ Owed(slot[s]) = MaterialCheck(slot[s].cur, ResetOf(slot[s].kind))
        /\ Owes(slot'[s]) = {}
    BY <2>1, OwesNothing DEF Owes, Owed, Owing
  <2>3. check' = [check EXCEPT ![slot[s].cur] = Owed(slot[s])] /\ job' = job
    BY <1>2, <2>2 DEF MaterializeCheck
  <2>4. check \in [Jobs -> Checks]
    BY <1>0 DEF TypeOK
  <2> QED
    BY <1>0, <2>2, <2>3, <2>4 DEF CheckSound
<1>3. CASE MaterializeFinal(s)
  <2>1. slot'[s].pc \in {"rj_run", "end"} /\ slot[s].pc = "mt_final"
    BY <1>0, <1>3 DEF MaterializeFinal, Goto, At, SlotStates
  <2>2. Owes(slot[s]) = {} /\ Owes(slot'[s]) = {}
    BY <2>1, OwesNothing DEF Owing
  <2> QED
    BY <1>0, <1>3, <2>2 DEF MaterializeFinal, CheckSound
<1> QED
  BY <1>1, <1>2, <1>3

LEMMA CompleteChecks ==
    ASSUME ChecksInv, NEW s \in Slots,
           CompleteCheck(s) \/ CompleteUnlock(s) \/ CompletePending(s)
    PROVE  \A j \in Jobs : CheckSound(slot[s], j)'
<1>0. /\ TypeOK /\ \A j \in Jobs : CheckSound(slot[s], j)
      /\ slot \in [Slots -> SlotStates] /\ slot[s] \in SlotStates /\ job \in [Jobs -> Rows]
  BY DEF ChecksInv, RowsInv, TypeOK
<1>1. CASE CompleteCheck(s)
  <2>1. slot'[s].pc \in {"c_unlock", "fz_status"} /\ slot[s].pc = "c_check"
    BY <1>0, <1>1 DEF CompleteCheck, Goto, At, SlotStates
  <2>2. /\ Owes(slot[s]) = {slot[s].job} /\ Owed(slot[s]) = CheckFor(slot[s].verdict)
        /\ Owes(slot'[s]) = {}
    BY <2>1, OwesNothing DEF Owes, Owed, Owing
  <2> QED
    BY <1>0, <1>1, <2>2, PaysChecks DEF CompleteCheck
<1>2. CASE CompleteUnlock(s)
  <2> DEFINE free == Unlocked(job, slot[s].job)
  <2>1. slot'[s].pc = "c_pending" /\ slot'[s].todo = free /\ slot[s].pc = "c_unlock"
    BY <1>0, <1>2 DEF CompleteUnlock, At, SlotStates
  <2>2. Owes(slot[s]) = {} /\ Owes(slot'[s]) = free /\ Owed(slot'[s]) = "pending"
    BY <2>1, OwesNothing DEF Owes, Owed, Owing
  <2>3. \A j \in Jobs : IF j \in free THEN job'[j].status = "queued" ELSE job'[j] = job[j]
    BY <1>0, <1>2 DEF CompleteUnlock, Rows
  <2>4. check' = check
    BY <1>2 DEF CompleteUnlock
  <2> HIDE DEF free
  <2> QED
    BY <1>0, <2>2, <2>3, <2>4, ShownFacts DEF CheckSound
<1>3. CASE CompletePending(s)
  <2>0. Owes(slot[s]) = slot[s].todo /\ Owed(slot[s]) = "pending" /\ slot[s].pc = "c_pending"
    BY <1>3 DEF CompletePending, At, Owes, Owed
  <2>1. CASE slot[s].todo = {} /\ Goto(s, "fz_status") /\ UNCHANGED check
    <3>1. slot'[s].pc = "fz_status"
      BY <1>0, <2>1, GotoSlot
    <3>2. Owes(slot'[s]) = {}
      BY <3>1, OwesNothing DEF Owing
    <3> QED
      BY <1>0, <1>3, <2>0, <2>1, <3>2 DEF CompletePending, CheckSound
  <2>2. ASSUME NEW k \in slot[s].todo, SetChecks({k}, "pending"),
               slot' = [slot EXCEPT ![s].todo = @ \ {k}]
        PROVE  \A j \in Jobs : CheckSound(slot[s], j)'
    <3>1. slot'[s].pc = "c_pending" /\ slot'[s].todo = slot[s].todo \ {k}
      BY <1>0, <2>0, <2>2 DEF SlotStates
    <3>2. Owes(slot'[s]) = slot[s].todo \ {k} /\ Owed(slot'[s]) = "pending"
      BY <3>1 DEF Owes, Owed
    <3>3. UNCHANGED job /\ {k} \subseteq Owes(slot[s])
      BY <1>3, <2>0, <2>2 DEF CompletePending
    <3> QED
      BY <1>0, <2>0, <2>2, <3>2, <3>3, PaysChecks
  <2> QED
    BY <1>3, <2>1, <2>2 DEF CompletePending
<1> QED
  BY <1>1, <1>2, <1>3

(* A statement that reads.                                                 *)
LEMMA ReadsOnly ==
    ASSUME NEW s \in Slots, \A j \in Jobs : CheckSound(slot[s], j),
           UNCHANGED <<job, check>>, slot[s].pc \notin Owing, slot'[s].pc \notin Owing
    PROVE  \A j \in Jobs : CheckSound(slot[s], j)'
BY OwesNothing DEF CheckSound

LEMMA FinalizeChecks ==
    ASSUME ChecksInv, NEW s \in Slots, Finalize(s)
    PROVE  \A j \in Jobs : CheckSound(slot[s], j)'
<1>0. /\ TypeOK /\ \A j \in Jobs : CheckSound(slot[s], j)
      /\ slot \in [Slots -> SlotStates] /\ slot[s] \in SlotStates /\ job \in [Jobs -> Rows]
  BY DEF ChecksInv, RowsInv, TypeOK
<1>1. slot[s].back \notin Owing
  BY DEF ChecksInv, AllServing, Serving, Owing
<1>2. CASE FinalizeSkip(s)
  <2> DEFINE queued == {j \in Jobs : job[j].status = "queued"}
  <2>1. slot'[s].pc = "fz_skipcheck" /\ slot'[s].skips = queued /\ slot[s].pc = "fz_skip"
    BY <1>0, <1>2 DEF FinalizeSkip, At, SlotStates
  <2>2. Owes(slot[s]) = {} /\ Owes(slot'[s]) = queued /\ Owed(slot'[s]) = "success"
    BY <2>1, OwesNothing DEF Owes, Owed, Owing
  <2>3. \A j \in Jobs : IF j \in queued THEN job'[j].status = "skipped" ELSE job'[j] = job[j]
    BY <1>0, <1>2 DEF FinalizeSkip, Rows
  <2>4. check' = check
    BY <1>2 DEF FinalizeSkip
  <2> HIDE DEF queued
  <2> QED
    BY <1>0, <2>2, <2>3, <2>4, ShownFacts DEF CheckSound
<1>3. CASE FinalizeSkipCheck(s)
  <2>0. Owes(slot[s]) = slot[s].skips /\ Owed(slot[s]) = "success" /\ slot[s].pc = "fz_skipcheck"
    BY <1>3 DEF FinalizeSkipCheck, At, Owes, Owed
  <2>1. CASE slot[s].skips = {} /\ Goto(s, slot[s].back) /\ UNCHANGED check
    <3>1. slot'[s].pc = slot[s].back
      BY <1>0, <2>1, GotoSlot
    <3>2. Owes(slot'[s]) = {}
      BY <1>1, <3>1, OwesNothing
    <3> QED
      BY <1>0, <1>3, <2>0, <2>1, <3>2 DEF FinalizeSkipCheck, CheckSound
  <2>2. ASSUME NEW k \in slot[s].skips, SetChecks({k}, CheckFor("skipped")),
               slot' = [slot EXCEPT ![s].skips = @ \ {k}]
        PROVE  \A j \in Jobs : CheckSound(slot[s], j)'
    <3>1. slot'[s].pc = "fz_skipcheck" /\ slot'[s].skips = slot[s].skips \ {k}
      BY <1>0, <2>0, <2>2 DEF SlotStates
    <3>2. Owes(slot'[s]) = slot[s].skips \ {k} /\ Owed(slot'[s]) = "success"
      BY <3>1 DEF Owes, Owed
    <3>3. UNCHANGED job /\ {k} \subseteq Owes(slot[s]) /\ CheckFor("skipped") = "success"
      BY <1>3, <2>0, <2>2 DEF FinalizeSkipCheck, CheckFor
    <3> QED
      BY <1>0, <2>0, <2>2, <3>2, <3>3, PaysChecks
  <2> QED
    BY <1>3, <2>1, <2>2 DEF FinalizeSkipCheck
<1>4. CASE ~FinalizeSkip(s) /\ ~FinalizeSkipCheck(s)
  <2>1. PICK pc \in {"fz_running", "fz_failed", "fz_fail", "fz_remaining", "fz_skip", "fz_allskipped",
                     "fz_skipped", "fz_success", slot[s].back} : Goto(s, pc)
    BY <1>4 DEF Finalize, FinalizeStatus, FinalizeRunning, FinalizeFailed, FinalizeFail,
                FinalizeRemaining, FinalizeAllSkipped, FinalizeSkipped, FinalizeSuccess, Read
  <2>2. slot'[s].pc = pc
    BY <1>0, <2>1, GotoSlot
  <2>3. UNCHANGED <<job, check>> /\ slot[s].pc \notin Owing
    BY <1>4 DEF Finalize, FinalizeStatus, FinalizeRunning, FinalizeFailed, FinalizeFail, Owing, At,
                FinalizeRemaining, FinalizeAllSkipped, FinalizeSkipped, FinalizeSuccess, Read, DB
  <2>4. pc \notin Owing
    BY <1>1, <2>1 DEF Owing
  <2> QED
    BY <1>0, <2>2, <2>3, <2>4, ReadsOnly
<1> QED
  BY <1>2, <1>3, <1>4

LEMMA ReclaimChecks ==
    ASSUME ChecksInv, NEW s \in Slots, Reclaim(s)
    PROVE  \A j \in Jobs : CheckSound(slot[s], j)'
<1>0. /\ TypeOK /\ \A j \in Jobs : CheckSound(slot[s], j)
      /\ slot \in [Slots -> SlotStates] /\ slot[s] \in SlotStates /\ job \in [Jobs -> Rows]
  BY DEF ChecksInv, RowsInv, TypeOK
<1>1. CASE ReclaimTimed(s) \/ ReclaimLost(s)
  <2>1. /\ UNCHANGED <<job, check>> /\ slot[s].pc \in {"rc_timed", "rc_lost"}
        /\ slot'[s].pc = "rc_next"
    BY <1>0, <1>1 DEF ReclaimTimed, ReclaimLost, DB, At, SlotStates
  <2> QED
    BY <1>0, <2>1, ReadsOnly DEF Owing
<1>2. CASE ReclaimNext(s)
  <2>1. \/ slot' = [slot EXCEPT ![s].pc = "rc_lost"]
        \/ slot' = [slot EXCEPT ![s].pc = "end"]
        \/ slot' = [slot EXCEPT ![s].pc = "fz_status", ![s].back = "fc_status"]
    BY <1>2 DEF ReclaimNext
  <2>2. slot'[s].pc \in {"rc_lost", "end", "fz_status"}
    BY <1>0, <2>1 DEF SlotStates
  <2>3. UNCHANGED <<job, check>> /\ slot[s].pc = "rc_next"
    BY <1>2 DEF ReclaimNext, DB, At
  <2> QED
    BY <1>0, <2>2, <2>3, ReadsOnly DEF Owing
<1>3. CASE ReclaimCheck(s)
  <2>1. slot'[s].pc = "fz_status" /\ slot[s].pc = "rc_check"
    BY <1>0, <1>3 DEF ReclaimCheck, At, SlotStates
  <2>2. Owes(slot[s]) = {slot[s].cur} /\ Owed(slot[s]) = "failure" /\ Owes(slot'[s]) = {}
    BY <2>1, OwesNothing DEF Owes, Owed, Owing
  <2>3. SetChecks({slot[s].cur}, "failure") /\ UNCHANGED job
    BY <1>3 DEF ReclaimCheck, CheckFor
  <2> QED
    BY <1>0, <2>2, <2>3, PaysChecks
<1>4. CASE ReclaimJob(s)
  <2>0. slot[s].pc = "rc_next" /\ slot[s].todo \subseteq Running(job)
    BY <1>4 DEF ReclaimJob, At, ChecksInv, ReclaimSound
  <2>1. PICK k \in slot[s].todo :
            /\ IF job[k].status = "running" THEN SetStatus({k}, "failure") ELSE UNCHANGED job
            /\ slot' = [slot EXCEPT
                 ![s].todo = @ \ {k}, ![s].cur = k,
                 ![s].pc = IF slot[s].lap = "timed" \/ job[k].status = "running"
                           THEN "rc_check" ELSE "rc_next"]
    BY <1>4 DEF ReclaimJob
  <2>2. k \in Jobs /\ job[k].status = "running"
    BY <2>0 DEF Running
  <2>3. /\ SetStatus({k}, "failure")
        /\ slot' = [slot EXCEPT ![s].todo = @ \ {k}, ![s].cur = k, ![s].pc = "rc_check"]
    BY <2>1, <2>2
  <2>4. slot'[s].pc = "rc_check" /\ slot'[s].cur = k
    BY <1>0, <2>3 DEF SlotStates
  <2>5. Owes(slot[s]) = {} /\ Owes(slot'[s]) = {k} /\ Owed(slot'[s]) = "failure"
    BY <2>0, <2>4, OwesNothing DEF Owes, Owed, Owing
  <2>6. job'[k].status = "failure" /\ \A j \in Jobs \ {k} : job'[j] = job[j]
    BY <1>0, <2>2, <2>3 DEF SetStatus, Rows
  <2>7. check' = check
    BY <1>4 DEF ReclaimJob
  <2> QED
    BY <1>0, <2>5, <2>6, <2>7, ShownFacts DEF CheckSound
<1> QED
  BY <1>1, <1>2, <1>3, <1>4 DEF Reclaim

LEMMA ReadersChecks ==
    ASSUME ChecksInv, NEW s \in Slots, ForceFinalize(s) \/ Rerun(s) \/ Reply(s)
    PROVE  \A j \in Jobs : CheckSound(slot[s], j)'
<1>0. /\ TypeOK /\ \A j \in Jobs : CheckSound(slot[s], j)
      /\ slot \in [Slots -> SlotStates] /\ slot[s] \in SlotStates
  BY DEF ChecksInv, RowsInv, TypeOK
<1>1. slot[s].after \in {"end", "id_status"}
  BY DEF ChecksInv, AllServing, Serving
<1>2. CASE ForceFinalize(s)
  <2>1. UNCHANGED <<job, check>>
    BY <1>2 DEF ForceFinalize, ForceStatus, ForceActive, ForceFailed, ForceCancelled, ForceSkipped,
                ForceDecide, ForceWrite, Read, DB
  <2>2. slot[s].pc \in Deciding \cup {"fc_status"} /\ slot'[s].pc \in Deciding \cup {slot[s].after}
    BY <1>0, <1>2, ForceSlot
  <2> QED
    BY <1>0, <1>1, <2>1, <2>2, ReadsOnly DEF Deciding, Owing
<1>3. CASE Rerun(s)
  <2>1. UNCHANGED <<job, check>> /\ slot[s].pc \notin Owing
    BY <1>3 DEF Rerun, IdleStatus, IdleActive, RerunNames, RerunReset, RerunJobRead, RerunJobRun,
                Read, At, DB, Owing
  <2>2. slot'[s].pc \notin Owing
    <3>1. CASE IdleActive(s)
      BY <1>0, <3>1 DEF IdleActive, ResetPC, SlotStates, Owing
    <3>2. CASE RerunNames(s) \/ RerunJobRead(s) \/ RerunJobRun(s)
      BY <1>0, <3>2 DEF RerunNames, RerunJobRead, RerunJobRun, SlotStates, Owing
    <3>3. CASE IdleStatus(s) \/ RerunReset(s)
      <4>1. PICK pc \in {"end", "id_active", "mt_row"} : Goto(s, pc)
        BY <3>3 DEF IdleStatus, RerunReset, Read
      <4>2. slot'[s].pc = pc
        BY <1>0, <4>1, GotoSlot
      <4> QED
        BY <4>2 DEF Owing
    <3> QED
      BY <1>3, <3>1, <3>2, <3>3 DEF Rerun
  <2> QED
    BY <1>0, <2>1, <2>2, ReadsOnly
<1>4. CASE Reply(s)
  <2>1. /\ UNCHANGED <<job, check>> /\ slot[s].pc = "end" /\ slot'[s].pc = "idle"
    BY <1>0, <1>4 DEF Reply, DB, At, NoRequest
  <2> QED
    BY <1>0, <2>1, ReadsOnly DEF Owing
<1> QED
  BY <1>2, <1>3, <1>4

LEMMA CancelChecks ==
    ASSUME ChecksInv, NEW s \in Slots, CancelTx(s) \/ CancelCheck(s)
    PROVE  \A j \in Jobs : CheckSound(slot[s], j)'
<1>0. /\ TypeOK /\ \A j \in Jobs : CheckSound(slot[s], j)
      /\ slot \in [Slots -> SlotStates] /\ slot[s] \in SlotStates /\ job \in [Jobs -> Rows]
  BY DEF ChecksInv, RowsInv, TypeOK
<1>1. CASE CancelTx(s)
  <2> DEFINE undone == {j \in Jobs : job[j].status \in {"queued", "manual"}} \cup Running(job)
  <2>1. slot'[s].pc = "k_check" /\ slot'[s].todo = undone /\ slot[s].pc = "k_tx"
    BY <1>0, <1>1 DEF CancelTx, At, SlotStates
  <2>2. Owes(slot[s]) = {} /\ Owes(slot'[s]) = undone /\ Owed(slot'[s]) = "failure"
    BY <2>1, OwesNothing DEF Owes, Owed, Owing
  <2>3. \A j \in Jobs : IF j \in undone THEN job'[j].status = "cancelled" ELSE job'[j] = job[j]
    BY <1>0, <1>1 DEF CancelTx, Running, Rows
  <2>4. check' = check
    BY <1>1 DEF CancelTx
  <2> HIDE DEF undone
  <2> QED
    BY <1>0, <2>2, <2>3, <2>4, ShownFacts DEF CheckSound
<1>2. CASE CancelCheck(s)
  <2>0. Owes(slot[s]) = slot[s].todo /\ Owed(slot[s]) = "failure" /\ slot[s].pc = "k_check"
    BY <1>2 DEF CancelCheck, At, Owes, Owed
  <2>1. CASE slot[s].todo = {} /\ Goto(s, "rc_timed") /\ UNCHANGED check
    <3>1. slot'[s].pc = "rc_timed"
      BY <1>0, <2>1, GotoSlot
    <3>2. Owes(slot'[s]) = {}
      BY <3>1, OwesNothing DEF Owing
    <3> QED
      BY <1>0, <1>2, <2>0, <2>1, <3>2 DEF CancelCheck, CheckSound
  <2>2. ASSUME NEW k \in slot[s].todo, SetChecks({k}, CheckFor("cancelled")),
               slot' = [slot EXCEPT ![s].todo = @ \ {k}]
        PROVE  \A j \in Jobs : CheckSound(slot[s], j)'
    <3>1. slot'[s].pc = "k_check" /\ slot'[s].todo = slot[s].todo \ {k}
      BY <1>0, <2>0, <2>2 DEF SlotStates
    <3>2. Owes(slot'[s]) = slot[s].todo \ {k} /\ Owed(slot'[s]) = "failure"
      BY <3>1 DEF Owes, Owed
    <3>3. UNCHANGED job /\ {k} \subseteq Owes(slot[s]) /\ CheckFor("cancelled") = "failure"
      BY <1>2, <2>0, <2>2 DEF CancelCheck, CheckFor
    <3> QED
      BY <1>0, <2>0, <2>2, <3>2, <3>3, PaysChecks
  <2> QED
    BY <1>2, <2>1, <2>2 DEF CancelCheck
<1> QED
  BY <1>1, <1>2

LEMMA StepUserChecks ==
    ASSUME ChecksInv, NEW s \in Slots,
           CancelStepUpdate(s) \/ CancelStepCheck(s)
             \/ PlayBlocked(s) \/ PlayUpdate(s) \/ PlayRun(s) \/ PlayCheck(s)
    PROVE  \A j \in Jobs : CheckSound(slot[s], j)'
<1>0. /\ TypeOK /\ \A j \in Jobs : CheckSound(slot[s], j)
      /\ slot \in [Slots -> SlotStates] /\ slot[s] \in SlotStates /\ job \in [Jobs -> Rows]
      /\ slot[s].job \in Jobs
  BY DEF ChecksInv, RowsInv, TypeOK, SlotStates
<1>1. CASE CancelStepUpdate(s)
  <2>1. CASE job[slot[s].job].status = "running"
    <3>1. Goto(s, "s_check") /\ slot[s].pc = "s_update" /\ check' = check
      BY <1>1, <2>1 DEF CancelStepUpdate, At
    <3>2. slot'[s].pc = "s_check" /\ slot'[s].job = slot[s].job
      BY <1>0, <3>1 DEF Goto, SlotStates
    <3>3. Owes(slot[s]) = {} /\ Owes(slot'[s]) = {slot[s].job} /\ Owed(slot'[s]) = "failure"
      BY <3>1, <3>2, OwesNothing DEF Owes, Owed, Owing
    <3>4. /\ job'[slot[s].job].status = "cancelled"
          /\ \A j \in Jobs \ {slot[s].job} : job'[j] = job[j]
      BY <1>0, <1>1, <2>1 DEF CancelStepUpdate, Rows
    <3> QED
      BY <1>0, <3>1, <3>3, <3>4, ShownFacts DEF CheckSound
  <2>2. CASE job[slot[s].job].status # "running"
    <3>1. Goto(s, "end") /\ slot[s].pc = "s_update" /\ UNCHANGED <<job, check>>
      BY <1>1, <2>2 DEF CancelStepUpdate, At
    <3>2. slot'[s].pc = "end"
      BY <1>0, <3>1, GotoSlot
    <3> QED
      BY <1>0, <3>1, <3>2, ReadsOnly DEF Owing
  <2> QED
    BY <2>1, <2>2
<1>2. CASE CancelStepCheck(s)
  <2>1. slot'[s].pc = "fz_status" /\ slot[s].pc = "s_check"
    BY <1>0, <1>2, GotoSlot DEF CancelStepCheck, At
  <2>2. Owes(slot[s]) = {slot[s].job} /\ Owed(slot[s]) = "failure" /\ Owes(slot'[s]) = {}
    BY <2>1, OwesNothing DEF Owes, Owed, Owing
  <2>3. SetChecks({slot[s].job}, "failure") /\ UNCHANGED job
    BY <1>2 DEF CancelStepCheck, CheckFor
  <2> QED
    BY <1>0, <2>2, <2>3, PaysChecks
<1>3. CASE PlayBlocked(s)
  <2>1. PICK pc \in {"p_update", "end"} : Goto(s, pc)
    BY <1>3 DEF PlayBlocked, Read
  <2>2. slot'[s].pc = pc
    BY <1>0, <2>1, GotoSlot
  <2>3. UNCHANGED <<job, check>> /\ slot[s].pc = "p_blocked"
    BY <1>3 DEF PlayBlocked, Read, At, DB
  <2> QED
    BY <1>0, <2>2, <2>3, ReadsOnly DEF Owing
<1>4. CASE PlayUpdate(s)
  <2>1. CASE job[slot[s].job].status = "manual"
    <3>1. Goto(s, "p_run") /\ slot[s].pc = "p_update" /\ check' = check
      BY <1>4, <2>1 DEF PlayUpdate, At
    <3>2. slot'[s].pc = "p_run" /\ slot'[s].job = slot[s].job
      BY <1>0, <3>1 DEF Goto, SlotStates
    <3>3. Owes(slot[s]) = {} /\ Owes(slot'[s]) = {slot[s].job} /\ Owed(slot'[s]) = "pending"
      BY <3>1, <3>2, OwesNothing DEF Owes, Owed, Owing
    <3>4. /\ job'[slot[s].job].status = "queued"
          /\ \A j \in Jobs \ {slot[s].job} : job'[j] = job[j]
      BY <1>0, <1>4, <2>1 DEF PlayUpdate, Rows
    <3> QED
      BY <1>0, <3>1, <3>3, <3>4, ShownFacts DEF CheckSound
  <2>2. CASE job[slot[s].job].status # "manual"
    <3>1. Goto(s, "end") /\ slot[s].pc = "p_update" /\ UNCHANGED <<job, check>>
      BY <1>4, <2>2 DEF PlayUpdate, At
    <3>2. slot'[s].pc = "end"
      BY <1>0, <3>1, GotoSlot
    <3> QED
      BY <1>0, <3>1, <3>2, ReadsOnly DEF Owing
  <2> QED
    BY <2>1, <2>2
<1>5. CASE PlayRun(s)
  <2>1. slot'[s].pc = "p_check" /\ slot'[s].job = slot[s].job /\ slot[s].pc = "p_run"
    BY <1>0, <1>5 DEF PlayRun, Goto, At, SlotStates
  <2>2. /\ Owes(slot[s]) = Owes(slot'[s]) /\ Owed(slot[s]) = Owed(slot'[s])
    BY <2>1 DEF Owes, Owed
  <2> QED
    BY <1>0, <1>5, <2>2 DEF PlayRun, CheckSound
<1>6. CASE PlayCheck(s)
  <2>1. slot'[s].pc = "rc_timed" /\ slot[s].pc = "p_check"
    BY <1>0, <1>6, GotoSlot DEF PlayCheck, At
  <2>2. Owes(slot[s]) = {slot[s].job} /\ Owed(slot[s]) = "pending" /\ Owes(slot'[s]) = {}
    BY <2>1, OwesNothing DEF Owes, Owed, Owing
  <2> QED
    BY <1>0, <1>6, <2>2, PaysChecks DEF PlayCheck
<1> QED
  BY <1>1, <1>2, <1>3, <1>4, <1>5, <1>6

LEMMA ArriveChecks ==
    ASSUME ChecksInv, NEW s \in Slots, Arrive(s)
    PROVE  ReclaimSound(slot[s])' /\ \A j \in Jobs : CheckSound(slot[s], j)'
<1>0. /\ TypeOK /\ Serving(slot[s]) /\ ReclaimSound(slot[s])
      /\ slot \in [Slots -> SlotStates] /\ job \in [Jobs -> Rows]
      /\ \A j \in Jobs : CheckSound(slot[s], j)
  BY DEF ChecksInv, RowsInv, AllServing, TypeOK
<1>1. check' = check
  BY DEF Arrive, StartTrigger, StartGet, StartStale, StartCancel, StartRerun,
         StartCancelStep, StartPlay, DB, Report
<1>2. slot' = slot \/ (slot[s].pc = "idle" /\ slot'[s].pc \in
          {"c_check", "mt_row", "rc_timed", "k_tx", "s_update", "p_blocked"})
  <2> SUFFICES ASSUME slot' # slot
               PROVE  slot[s].pc = "idle" /\ slot'[s].pc \in
                        {"c_check", "mt_row", "rc_timed", "k_tx", "s_update", "p_blocked"}
    OBVIOUS
  <2>1. <<slot'[s].kind, slot'[s].pc>> \in
                      {<<"trigger", "mt_row">>, <<"complete", "c_check">>, <<"get", "rc_timed">>,
                       <<"stale", "rc_timed">>, <<"cancel", "k_tx">>, <<"cancelStep", "s_update">>,
                       <<"play", "p_blocked">>} \cup {<<k, "rc_timed">> : k \in Reruns}
    BY <1>0, ArriveSlot
  <2> QED
    BY <1>0, <2>1, ArriveSlot DEF Reruns
<1>3. CASE \E k \in Jobs : job'[k] # job[k]
  <2>1. PICK k \in Jobs : job'[k] # job[k]
    BY <1>3
  <2>2. /\ slot'[s] = [NoRequest EXCEPT !.pc = "c_check", !.kind = "complete", !.job = k,
                                        !.pod = slot'[s].pod, !.verdict = job'[k].status]
        /\ job'[k].status \in Reported
        /\ \A j \in Jobs \ {k} : job'[j] = job[j]
    BY <1>0, <2>1, ArriveRows
  <2>3. slot'[s].pc = "c_check" /\ slot'[s].job = k /\ slot'[s].verdict = job'[k].status
    BY <2>2 DEF NoRequest
  <2>4. Owes(slot'[s]) = {k} /\ Owed(slot'[s]) = Shown(job'[k].status)
    BY <2>2, <2>3, ShownFacts DEF Owes, Owed
  <2>5. slot[s].pc = "idle"
    <3>1. slot' # slot
      <4>1. PICK p \in Pods, v \in Reported : Report(s, p, v)
        BY <2>1 DEF Arrive, StartTrigger, StartGet, StartStale, StartCancel, StartRerun,
                    StartCancelStep, StartPlay, DB
      <4>2. slot[s].pc = "idle"
        BY <4>1 DEF Report
      <4> QED
        BY <2>3, <4>2
    <3> QED
      BY <1>2, <3>1
  <2>6. Owes(slot[s]) = {}
    BY <2>5, OwesNothing DEF Owing
  <2> QED
    BY <1>0, <1>1, <2>2, <2>3, <2>4, <2>6 DEF CheckSound, ReclaimSound, FzPCs
<1>4. CASE \A k \in Jobs : job'[k] = job[k]
  <2>1. CASE slot' = slot
    <3>1. Running(job') = Running(job)
      BY <1>4 DEF Running
    <3> QED
      BY <1>0, <1>1, <1>4, <2>1, <3>1 DEF CheckSound, ReclaimSound
  <2>2. CASE slot' # slot /\ slot'[s].pc = "c_check"
    <3>1. PICK p \in Pods, v \in Reported : Report(s, p, v)
      <4>1. \A k, j, pc : Begin(s, k, j, pc) => slot'[s].pc = pc
        BY <1>0 DEF Begin, NoRequest
      <4>2. StartTrigger(s) => slot'[s].pc = "mt_row"
        BY <1>0 DEF StartTrigger, NoRequest
      <4>3. \A k, j : StartRerun(s, k, j) => slot'[s].pc = "rc_timed"
        BY <1>0 DEF StartRerun, NoRequest
      <4>4. /\ ~StartTrigger(s) /\ ~StartGet(s) /\ ~StartStale(s) /\ ~StartCancel(s)
            /\ \A k, j : ~StartRerun(s, k, j) /\ ~StartCancelStep(s, j) /\ ~StartPlay(s, j)
        BY <2>2, <4>1, <4>2, <4>3 DEF StartGet, StartStale, StartCancel, StartCancelStep, StartPlay
      <4> QED
        BY <4>4 DEF Arrive
    <3> DEFINE k == exec[p].job
    <3>2. k \in Jobs /\ slot[s].pc = "idle"
      BY <1>0, <3>1 DEF TypeOK, Execs, Report
    <3> DEFINE final == IF job[k].status = "cancelled" THEN "cancelled" ELSE v
    <3>3. /\ job' = [job EXCEPT ![k].status = slot'[s].verdict]
          /\ slot'[s].job = k /\ slot'[s].verdict \in Reported
      <4>1. /\ job' = [job EXCEPT ![k].status = final]
            /\ slot' = [slot EXCEPT ![s] =
                  [NoRequest EXCEPT !.pc = "c_check", !.kind = "complete",
                                    !.job = k, !.pod = p, !.verdict = final]]
        BY <2>2, <3>1 DEF Report
      <4>2. final \in Reported
        BY DEF Reported
      <4> HIDE DEF final
      <4>3. slot'[s].job = k /\ slot'[s].verdict = final
        BY <1>0, <4>1 DEF NoRequest
      <4> QED
        BY <4>1, <4>2, <4>3
    <3>4. slot'[s].verdict = job[k].status
      BY <1>0, <1>4, <3>2, <3>3 DEF Rows
    <3>5. Owes(slot'[s]) = {k} /\ Owed(slot'[s]) = Shown(job[k].status) /\ Owes(slot[s]) = {}
      BY <2>2, <3>2, <3>3, <3>4, ShownFacts, OwesNothing DEF Owes, Owed, Owing
    <3> QED
      BY <1>0, <1>1, <1>4, <2>2, <3>2, <3>5 DEF CheckSound, ReclaimSound, FzPCs
  <2>3. CASE slot' # slot /\ slot'[s].pc # "c_check"
    <3>1. slot[s].pc \notin Owing /\ slot'[s].pc \notin Owing
      BY <1>2, <2>3 DEF Owing
    <3>2. Owes(slot[s]) = {} /\ Owes(slot'[s]) = {}
      BY <3>1, OwesNothing
    <3> QED
      BY <1>0, <1>1, <1>2, <1>4, <2>3, <3>2 DEF CheckSound, ReclaimSound, FzPCs
  <2> QED
    BY <2>1, <2>2, <2>3
<1> QED
  BY <1>3, <1>4

(* finalize_pipeline_run_if_done takes no row of the list away and touches *)
(* no running row.                                                         *)
LEMMA FinalizeKeepsRunning ==
    ASSUME TypeOK, NEW s \in Slots, Finalize(s)
    PROVE  slot'[s].todo = slot[s].todo /\ Running(job') = Running(job)
<1>0. slot \in [Slots -> SlotStates] /\ slot[s] \in SlotStates /\ job \in [Jobs -> Rows]
  BY DEF TypeOK
<1>1. CASE FinalizeSkip(s)
  <2>1. slot'[s].todo = slot[s].todo
    BY <1>0, <1>1 DEF FinalizeSkip, SlotStates
  <2>2. \A j \in Jobs : job'[j].status = "running" <=> job[j].status = "running"
    BY <1>0, <1>1 DEF FinalizeSkip, Rows
  <2> QED
    BY <2>1, <2>2 DEF Running
<1>2. CASE ~FinalizeSkip(s)
  <2>1. job' = job
    BY <1>2 DEF Finalize, FinalizeStatus, FinalizeRunning, FinalizeFailed, FinalizeFail,
                FinalizeSkipCheck, FinalizeRemaining, FinalizeAllSkipped, FinalizeSkipped,
                FinalizeSuccess, Read, DB
  <2>2. ASSUME NEW pc, Goto(s, pc)
        PROVE  slot'[s].todo = slot[s].todo
    BY <1>0, <2>2 DEF Goto, SlotStates
  <2>3. ASSUME NEW j, slot' = [slot EXCEPT ![s].skips = @ \ {j}]
        PROVE  slot'[s].todo = slot[s].todo
    BY <1>0, <2>3 DEF SlotStates
  <2>4. slot'[s].todo = slot[s].todo
    BY <1>2, <2>2, <2>3
       DEF Finalize, FinalizeStatus, FinalizeRunning, FinalizeFailed, FinalizeFail,
           FinalizeSkipCheck, FinalizeRemaining, FinalizeAllSkipped, FinalizeSkipped,
           FinalizeSuccess, Read
  <2> QED
    BY <2>1, <2>4
<1> QED
  BY <1>1, <1>2

(* Where the statements that are not of a reclaim lead.                    *)
LEMMA OutsideReclaim ==
    ASSUME TypeOK, NEW s \in Slots, Step(s), Serving(slot[s]), ~Finalize(s), ~Reclaim(s)
    PROVE  /\ slot'[s].pc \notin {"rc_next", "rc_check"}
           /\ slot'[s].pc \in FzPCs => slot[s].kind \in {"complete", "cancelStep"}
<1>0. slot \in [Slots -> SlotStates] /\ slot[s] \in SlotStates
  BY DEF TypeOK
<1>1. CASE MaterializeRow(s)
  BY <1>0, <1>1 DEF MaterializeRow, SlotStates, FzPCs
<1>2. CASE MaterializeCheck(s) \/ MaterializeFinal(s)
  <2>1. PICK pc \in {"mt_final", "mt_row", "rj_run", "end"} : Goto(s, pc)
    BY <1>2 DEF MaterializeCheck, MaterializeFinal
  <2> QED
    BY <1>0, <2>1, GotoSlot DEF FzPCs
<1>3. CASE CompleteCheck(s) \/ CompleteUnlock(s) \/ CompletePending(s)
  <2>1. slot[s].kind = "complete"
    BY <1>3, KindAt DEF CompleteCheck, CompleteUnlock, CompletePending, At
  <2> QED
    BY <1>3, <2>1, CompletePC
<1>4. CASE ForceFinalize(s)
  <2>1. slot[s].after \in {"end", "id_status"}
    BY DEF Serving
  <2> QED
    BY <1>4, <2>1, ForceSlot DEF Deciding, FzPCs
<1>5. CASE Rerun(s)
  <2>1. CASE IdleActive(s)
    BY <1>0, <2>1 DEF IdleActive, ResetPC, SlotStates, FzPCs
  <2>2. CASE RerunNames(s) \/ RerunJobRead(s) \/ RerunJobRun(s)
    BY <1>0, <2>2 DEF RerunNames, RerunJobRead, RerunJobRun, SlotStates, FzPCs
  <2>3. CASE IdleStatus(s) \/ RerunReset(s)
    <3>1. PICK pc \in {"end", "id_active", "mt_row"} : Goto(s, pc)
      BY <2>3 DEF IdleStatus, RerunReset, Read
    <3> QED
      BY <1>0, <3>1, GotoSlot DEF FzPCs
  <2> QED
    BY <1>5, <2>1, <2>2, <2>3 DEF Rerun
<1>6. CASE UserWrites(s)
  <2>1. CASE CancelStepCheck(s)
    <3>1. slot[s].kind = "cancelStep"
      BY <2>1, KindAt DEF CancelStepCheck, At
    <3> QED
      BY <1>6, <3>1, UserPC
  <2>2. CASE CancelTx(s)
    BY <1>0, <2>2 DEF CancelTx, SlotStates, FzPCs
  <2>3. CASE CancelCheck(s)
    <3>1. Goto(s, "rc_timed") \/ \E j : slot' = [slot EXCEPT ![s].todo = @ \ {j}]
      BY <2>3 DEF CancelCheck
    <3>2. Goto(s, "rc_timed") => slot'[s].pc = "rc_timed"
      BY <1>0, GotoSlot
    <3>3. (\E j : slot' = [slot EXCEPT ![s].todo = @ \ {j}]) => slot'[s].pc = "k_check"
      BY <1>0, <2>3 DEF CancelCheck, At, SlotStates
    <3> QED
      BY <3>1, <3>2, <3>3 DEF FzPCs
  <2>4. CASE CancelStepUpdate(s) \/ PlayBlocked(s) \/ PlayUpdate(s) \/ PlayRun(s) \/ PlayCheck(s)
    <3>1. PICK pc \in {"s_check", "end", "p_update", "p_run", "p_check", "rc_timed"} : Goto(s, pc)
      BY <2>4 DEF CancelStepUpdate, PlayBlocked, PlayUpdate, PlayRun, PlayCheck, Read
    <3> QED
      BY <1>0, <3>1, GotoSlot DEF FzPCs
  <2> QED
    BY <1>6, <2>1, <2>2, <2>3, <2>4 DEF UserWrites
<1>7. CASE Reply(s)
  BY <1>0, <1>7 DEF Reply, NoRequest, FzPCs
<1> QED
  BY <1>1, <1>2, <1>3, <1>4, <1>5, <1>6, <1>7 DEF Step

LEMMA StepReclaims ==
    ASSUME ChecksInv, NEW s \in Slots, Step(s)
    PROVE  ReclaimSound(slot[s])'
<1>0. /\ TypeOK /\ Serving(slot[s]) /\ ReclaimSound(slot[s])
      /\ slot \in [Slots -> SlotStates] /\ slot[s] \in SlotStates /\ job \in [Jobs -> Rows]
  BY DEF ChecksInv, RowsInv, AllServing, TypeOK
<1>1. slot[s].back \in {"end", "rc_next", "fc_status"}
  BY <1>0 DEF Serving
<1>2. CASE Finalize(s)
  <2>1. /\ slot'[s].todo = slot[s].todo /\ Running(job') = Running(job)
        /\ slot'[s].back = slot[s].back /\ slot[s].pc \in FzPCs
        /\ slot'[s].pc \in FzPCs \cup {slot[s].back}
    BY <1>0, <1>2, FinalizeSlot, FinalizeKeepsRunning
  <2>2. slot'[s].pc \in {"rc_next", "rc_check"} => slot[s].back = "rc_next"
    BY <1>1, <2>1 DEF FzPCs
  <2> QED
    BY <1>0, <2>1, <2>2 DEF ReclaimSound
<1>3. CASE ReclaimTimed(s) \/ ReclaimLost(s)
  <2>1. slot'[s].todo \subseteq Running(job) /\ job' = job
    BY <1>0, <1>3 DEF ReclaimTimed, ReclaimLost, DB, Overdue, Lost, SlotStates
  <2> QED
    BY <2>1 DEF ReclaimSound, Running
<1>4. CASE ReclaimJob(s)
  <2>1. PICK j \in slot[s].todo :
            /\ SetStatus({j}, "failure") \/ UNCHANGED job
            /\ slot'[s].todo = slot[s].todo \ {j}
    <3>1. PICK j \in slot[s].todo, pc \in {"rc_check", "rc_next"} :
              /\ SetStatus({j}, "failure") \/ UNCHANGED job
              /\ slot' = [slot EXCEPT ![s].todo = @ \ {j}, ![s].cur = j, ![s].pc = pc]
      BY <1>4 DEF ReclaimJob
    <3> QED
      BY <1>0, <3>1 DEF SlotStates
  <2>2. slot[s].todo \subseteq Running(job)
    BY <1>0, <1>4 DEF ReclaimJob, At, ReclaimSound
  <2>3. \A k \in Jobs \ {j} : job'[k] = job[k]
    BY <1>0, <2>1 DEF SetStatus
  <2> QED
    BY <2>1, <2>2, <2>3 DEF ReclaimSound, Running
<1>5. CASE ReclaimCheck(s)
  <2>1. slot'[s].todo = slot[s].todo /\ job' = job
    BY <1>0, <1>5 DEF ReclaimCheck, SlotStates
  <2>2. slot[s].todo \subseteq Running(job)
    BY <1>0, <1>5 DEF ReclaimCheck, At, ReclaimSound
  <2> QED
    BY <2>1, <2>2 DEF ReclaimSound, Running
<1>6. CASE ReclaimNext(s)
  <2>1. slot'[s].todo = {}
    <3>1. \/ slot' = [slot EXCEPT ![s].pc = "rc_lost"]
          \/ slot' = [slot EXCEPT ![s].pc = "end"]
          \/ slot' = [slot EXCEPT ![s].pc = "fz_status", ![s].back = "fc_status"]
      BY <1>0, <1>6 DEF ReclaimNext, SlotStates
    <3>2. slot[s].todo = {}
      BY <1>6 DEF ReclaimNext
    <3> QED
      BY <1>0, <3>1, <3>2 DEF SlotStates
  <2> QED
    BY <2>1 DEF ReclaimSound
<1>7. CASE ~Finalize(s) /\ ~Reclaim(s)
  <2>1. /\ slot'[s].pc \notin {"rc_next", "rc_check"}
        /\ slot'[s].pc \in FzPCs => slot[s].kind \in {"complete", "cancelStep"}
    BY <1>0, <1>7, OutsideReclaim
  <2>2. CASE slot'[s].pc \notin FzPCs
    BY <2>1, <2>2 DEF ReclaimSound
  <2>3. CASE slot'[s].pc \in FzPCs
    <3>1. ~Reply(s)
      BY <1>0, <2>3 DEF Reply, NoRequest, FzPCs
    <3>2. Serving(slot'[s]) /\ slot'[s].kind \in {"complete", "cancelStep"}
      BY <1>0, <2>1, <2>3, <3>1, StepServes, StepSlot
    <3>3. slot'[s].back # "rc_next"
      BY <3>2 DEF Serving, Syncing, Reruns
    <3> QED
      BY <2>1, <3>3 DEF ReclaimSound
  <2> QED
    BY <2>2, <2>3
<1> QED
  BY <1>2, <1>3, <1>4, <1>5, <1>6, <1>7 DEF Reclaim

LEMMA NextChecks ==
    ASSUME OneAtATime, "crash" \notin Faults, ChecksInv, [Next]_vars
    PROVE  ChecksInv'
<1>0. /\ RowsInv /\ TypeOK /\ AllServing
      /\ \A s \in Slots : ReclaimSound(slot[s]) /\ \A j \in Jobs : CheckSound(slot[s], j)
  BY DEF ChecksInv, RowsInv
<1>1. RowsInv' /\ AllServing'
  BY <1>0, NextKeepsRows, NextServes
<1>2. ASSUME Elsewhere, NEW s \in Slots
      PROVE  ReclaimSound(slot[s])' /\ \A j \in Jobs : CheckSound(slot[s], j)'
  <2>1. /\ check' = check /\ slot' = slot /\ Running(job) \subseteq Running(job')
        /\ \A j \in Jobs : Shown(job'[j].status) = Shown(job[j].status)
    BY <1>0, <1>2, ElsewhereMoves, ElsewhereKeeps
  <2> QED
    BY <1>0, <2>1 DEF ReclaimSound, CheckSound
<1>3. ASSUME NEW s \in Slots, Step(s)
      PROVE  ReclaimSound(slot[s])' /\ \A j \in Jobs : CheckSound(slot[s], j)'
  BY <1>3, StepReclaims, MaterializeChecks, CompleteChecks, FinalizeChecks, ReclaimChecks,
     ReadersChecks, CancelChecks, StepUserChecks DEF Step, UserWrites
<1>4. \A s \in Slots : ~Crash(s)
  BY DEF Crash
<1>5. ASSUME NEW s \in Slots, Arrive(s) \/ Step(s)
      PROVE  \A t \in Slots : ReclaimSound(slot[t])' /\ \A j \in Jobs : CheckSound(slot[t], j)'
  BY <1>3, <1>5, ArriveChecks DEF OneAtATime
<1>6. \A t \in Slots : ReclaimSound(slot[t])' /\ \A j \in Jobs : CheckSound(slot[t], j)'
  BY <1>2, <1>4, <1>5, NextCases
<1> QED
  BY <1>1, <1>6 DEF ChecksInv

LEMMA InitChecks ==
    ASSUME Init
    PROVE  ChecksInv
<1>1. RowsInv /\ AllServing
  BY InitRows, InitServes
<1>2. ASSUME NEW s \in Slots
      PROVE  ReclaimSound(slot[s]) /\ \A j \in Jobs : CheckSound(slot[s], j)
  <2>1. slot[s].pc = "idle" /\ check = [j \in Jobs |-> "absent"]
        /\ \A j \in Jobs : job[j].status = "absent"
    BY DEF Init, NoRequest, NewRow
  <2>2. Owes(slot[s]) = {}
    BY <2>1, OwesNothing DEF Owing
  <2> QED
    BY <2>1, <2>2, ShownFacts DEF ReclaimSound, CheckSound, FzPCs
<1> QED
  BY <1>1, <1>2 DEF ChecksInv

(* When no request is in flight, every commit status shows what the row of *)
(* its job says, for any schedule and any pool of runners: no statement of *)
(* a handler changes the status of a row without a later one that reports  *)
(* it, the early returns included.  Requests are served one at a time and  *)
(* no handler is cut off: with two, or with a crash between the UPDATE of  *)
(* the row and that of its commit status, it does not hold.                *)
THEOREM ChecksShowRows ==
    ASSUME OneAtATime, "crash" \notin Faults
    PROVE  Spec => []ChecksAgree
<1>1. Init => ChecksInv
  BY InitChecks
<1>2. ChecksInv /\ [Next]_vars => ChecksInv'
  BY NextChecks
<1>3. ChecksInv => ChecksAgree
  <2> SUFFICES ASSUME ChecksInv, Quiet, NEW j \in Jobs
               PROVE  check[j] = Shown(job[j].status)
    BY DEF ChecksAgree
  <2>1. PICK s \in Slots : slot[s].pc = "idle"
    BY DEF Quiet, OneAtATime
  <2>2. Owes(slot[s]) = {} /\ CheckSound(slot[s], j)
    BY <2>1, OwesNothing DEF Owing, ChecksInv
  <2> QED
    BY <2>2 DEF CheckSound
<1> QED
  BY <1>1, <1>2, <1>3, PTL DEF Spec

-----------------------------------------------------------------------------
(* The status of the run. *)

SettledIsDone == run \in {"success", "skipped", "cancelled"} => Active(job) = {}
FailureShows  == Running(job) = {} /\ RequiredFailures(job) # {} => run \in {"failure", "cancelled"}
FailureStays  == RequiredFailures(job) # {} => run \in OpenRun \cup {"failure", "cancelled"}

(* The request is about to open a run whose rows it queues: before that a  *)
(* settled run may have work.                                              *)
Opening(r) == r.pc = "p_run" \/ (r.kind = "rerunJob" /\ r.pc \in MtPCs)

(* Statements of which finalize_pipeline_run_if_done has left the status   *)
(* of the run in order: those of a request that has written nothing yet,   *)
(* and those that follow finalize.                                         *)
Recorded(r) ==
    \/ r.pc \in {"idle", "end", "id_status", "id_active", "k_tx", "k_check", "s_update",
                 "p_blocked", "p_update", "rr_names", "rr_reset", "rj_read", "fc_status"} \cup Deciding
    \/ r.kind = "stale" /\ r.pc \in {"rc_timed", "rc_next", "rc_lost"}

RunSound(r) ==
    /\ Opening(r) \/ SettledIsDone
    /\ Recorded(r) => FailureShows
    /\ FailureStays

(* What a request has read and relies on when it writes: runners may claim *)
(* jobs meanwhile, but nothing they do makes it untrue.                    *)
ReadSound(r) ==
    /\ r.pc \in {"c_unlock", "c_pending"} \/ (r.pc = "c_check" /\ r.verdict = "success")
         => run \in OpenRun \cup {"failure"}
    /\ r.pc = "fz_fail" => RequiredFailures(job) # {}
    /\ r.pc \in {"fz_skip", "fz_skipcheck"} => run = "failure"
    /\ r.pc \in {"fz_remaining", "fz_allskipped", "fz_skipped", "fz_success",
                 "fc_failed", "fc_cancelled", "fc_skipped", "fc_write"}
         => RequiredFailures(job) = {}
    /\ r.pc \in {"fz_allskipped", "fz_skipped", "fz_success", "rr_names", "rr_reset", "rj_read",
                 "fc_failed", "fc_cancelled", "fc_skipped", "fc_write"}
         => Active(job) = {}
    /\ r.pc = "fc_active" => run \in OpenRun
    /\ r.pc = "p_run" => run # "absent"

(* The rows a re-run still has to reset include every failed one.          *)
ResetSound(r) ==
    /\ r.pc = "rr_reset" => RequiredFailures(job) \subseteq r.todo
    /\ r.pc \in MtPCs /\ r.kind # "rerunJob" =>
            run = "queued" /\ RequiredFailures(job) \subseteq r.todo
    /\ r.pc = "mt_final" => r.todo = {}

Facts(r) == RunSound(r) /\ ReadSound(r) /\ ResetSound(r)

SerialInv ==
    /\ RowsInv /\ AllServing /\ PushIsFirst
    /\ \A s \in Slots : Facts(slot[s])

(* A running row is work to do, and there is none before the push.         *)
LEMMA RunningMeansOpen ==
    ASSUME PushIsFirst, TypeOK, SettledIsDone, NEW j \in Jobs, job[j].status = "running"
    PROVE  run \in OpenRun \cup {"failure"}
<1>1. j \in Active(job)
  BY DEF Active, Running
<1>2. run # "absent"
  BY DEF PushIsFirst
<1> QED
  BY <1>1, <1>2 DEF SettledIsDone, TypeOK, RunStatuses, OpenRun

LEMMA MaterializeFacts ==
    ASSUME HasRunnableJobs, SerialInv, NEW s \in Slots,
           MaterializeRow(s) \/ MaterializeCheck(s) \/ MaterializeFinal(s)
    PROVE  Facts(slot[s])'
<1>0. /\ TypeOK /\ Facts(slot[s]) /\ Serving(slot[s])
      /\ slot \in [Slots -> SlotStates] /\ slot[s] \in SlotStates /\ job \in [Jobs -> Rows]
  BY DEF SerialInv, RowsInv, TypeOK, AllServing
<1>1. CASE MaterializeRow(s)
  <2>1. PICK k \in slot[s].todo :
            /\ job' = [job EXCEPT ![k] = MaterialRow(k, ResetOf(slot[s].kind))]
            /\ slot' = [slot EXCEPT ![s].pc = "mt_check", ![s].cur = k, ![s].todo = @ \ {k}]
    BY <1>1 DEF MaterializeRow
  <2>2. /\ slot[s].pc = "mt_row" /\ slot'[s].pc = "mt_check" /\ run' = run
        /\ slot'[s].kind = slot[s].kind /\ slot'[s].todo = slot[s].todo \ {k}
    BY <1>0, <1>1, <2>1 DEF MaterializeRow, At, SlotStates
  <2>3. RequiredFailures(job') \subseteq RequiredFailures(job) \ {k}
    <3>1. MaterialRow(k, ResetOf(slot[s].kind)).status # "failure"
      BY DEF MaterialRow, NewRow, MaterialStatus
    <3>2. \A j \in Jobs : job'[j].status = "failure" => j # k /\ job[j].status = "failure"
      BY <1>0, <2>1, <3>1
    <3> QED
      BY <3>2, NeedsAssumption DEF RequiredFailures
  <2>4. Opening(slot'[s]) \/ (slot'[s].kind # "rerunJob" /\ run = "queued")
    BY <1>0, <2>2 DEF Facts, ResetSound, Opening, MtPCs
  <2>5. RunSound(slot[s])'
    BY <1>0, <2>2, <2>3, <2>4
       DEF Facts, RunSound, FailureStays, SettledIsDone, Recorded, Opening, Deciding
  <2>6. ResetSound(slot[s])'
    BY <1>0, <2>2, <2>3 DEF Facts, ResetSound, MtPCs
  <2>7. ReadSound(slot[s])'
    BY <2>2 DEF ReadSound
  <2> QED
    BY <2>5, <2>6, <2>7 DEF Facts
<1>2. CASE MaterializeCheck(s)
  <2>1. PICK pc \in {"mt_row", "mt_final"} : Goto(s, pc) /\ (pc = "mt_final" => slot[s].todo = {})
    BY <1>2 DEF MaterializeCheck
  <2>2. /\ slot[s].pc = "mt_check" /\ slot'[s].pc = pc /\ UNCHANGED <<run, job>>
        /\ slot'[s].kind = slot[s].kind /\ slot'[s].todo = slot[s].todo
    BY <1>0, <1>2, <2>1 DEF MaterializeCheck, At, Goto, SlotStates
  <2> QED
    BY <1>0, <2>1, <2>2
       DEF Facts, RunSound, FailureStays, FailureShows, SettledIsDone, Recorded, Opening, Deciding,
           ReadSound, ResetSound, MtPCs
<1>3. CASE MaterializeFinal(s)
  <2>1. PICK pc \in {"rj_run", "end"} : Goto(s, pc) /\ (pc = "end" => slot[s].kind # "rerunJob")
    BY <1>3 DEF MaterializeFinal
  <2>2. slot[s].pc = "mt_final" /\ slot'[s].pc = pc /\ run' = "running" /\ job' = job
    BY <1>0, <1>3, <2>1, GotoSlot DEF MaterializeFinal, At
  <2>3. pc = "end" => RequiredFailures(job) = {}
    BY <1>0, <2>1, <2>2 DEF Facts, ResetSound, MtPCs
  <2>4. slot'[s].kind = slot[s].kind /\ slot[s].kind # "stale"
    BY <1>0, <2>1, <2>2, GotoSlot, KindAt DEF MtPCs, Reruns
  <2>5. RunSound(slot[s])'
    BY <2>1, <2>2, <2>3
       DEF RunSound, FailureStays, FailureShows, SettledIsDone, Recorded, Deciding, OpenRun
  <2> QED
    BY <2>1, <2>2, <2>5 DEF Facts, ReadSound, ResetSound, MtPCs
<1> QED
  BY <1>1, <1>2, <1>3

LEMMA CompleteFacts ==
    ASSUME SerialInv, NEW s \in Slots,
           CompleteCheck(s) \/ CompleteUnlock(s) \/ CompletePending(s)
    PROVE  Facts(slot[s])'
<1>0. /\ TypeOK /\ Facts(slot[s]) /\ Serving(slot[s])
      /\ slot \in [Slots -> SlotStates] /\ slot[s] \in SlotStates /\ job \in [Jobs -> Rows]
  BY DEF SerialInv, RowsInv, TypeOK, AllServing
<1>1. CASE CompleteCheck(s)
  <2>1. PICK pc \in {"c_unlock", "fz_status"} :
            Goto(s, pc) /\ (pc = "c_unlock" => slot[s].verdict = "success")
    BY <1>1 DEF CompleteCheck
  <2>2. slot[s].pc = "c_check" /\ slot'[s].pc = pc /\ UNCHANGED <<run, job>>
    BY <1>0, <1>1, <2>1, GotoSlot DEF CompleteCheck, At
  <2>3. slot'[s].kind = slot[s].kind
    BY <1>0, <2>1, GotoSlot
  <2> QED
    BY <1>0, <2>1, <2>2, <2>3
       DEF Facts, RunSound, FailureStays, FailureShows, SettledIsDone, Recorded, Opening, Deciding,
           ReadSound, ResetSound, MtPCs
<1>2. CASE CompleteUnlock(s)
  <2>1. slot[s].pc = "c_unlock" /\ slot'[s].pc = "c_pending" /\ run' = run
    BY <1>0, <1>2 DEF CompleteUnlock, At, SlotStates
  <2>2. \A j \in Jobs : job'[j].status = "failure" => job[j].status = "failure"
    BY <1>0, <1>2 DEF CompleteUnlock, Rows
  <2>3. RequiredFailures(job') \subseteq RequiredFailures(job)
    BY <2>2, NeedsAssumption DEF RequiredFailures
  <2>4. run \in OpenRun \cup {"failure"}
    BY <1>0, <2>1 DEF Facts, ReadSound
  <2>5. slot'[s].kind = "complete"
    <3>1. ~Reply(s) /\ Step(s)
      BY <1>2, <2>1 DEF Reply, At, Step
    <3> QED
      BY <1>0, <2>1, <3>1, StepSlot, KindAt
  <2> QED
    BY <1>0, <2>1, <2>3, <2>4, <2>5
       DEF Facts, RunSound, FailureStays, SettledIsDone, Recorded, Opening, Deciding, OpenRun,
           ReadSound, ResetSound, MtPCs
<1>3. CASE CompletePending(s)
  <2>1. slot[s].pc = "c_pending" /\ UNCHANGED <<run, job>>
    BY <1>3 DEF CompletePending, At
  <2>2. slot'[s].pc \in {"c_pending", "fz_status"}
    <3>1. Goto(s, "fz_status") \/ \E j : slot' = [slot EXCEPT ![s].todo = @ \ {j}]
      BY <1>3 DEF CompletePending
    <3>2. Goto(s, "fz_status") => slot'[s].pc = "fz_status"
      BY <1>0, GotoSlot
    <3>3. (\E j : slot' = [slot EXCEPT ![s].todo = @ \ {j}]) => slot'[s].pc = "c_pending"
      BY <1>0, <2>1 DEF SlotStates
    <3> QED
      BY <3>1, <3>2, <3>3
  <2>3. slot'[s].kind = "complete"
    <3>1. ~Reply(s) /\ Step(s)
      BY <1>3, <2>1 DEF Reply, At, Step
    <3> QED
      BY <1>0, <2>1, <3>1, StepSlot, KindAt
  <2> QED
    BY <1>0, <2>1, <2>2, <2>3
       DEF Facts, RunSound, FailureStays, SettledIsDone, Recorded, Opening, Deciding,
           ReadSound, ResetSound, MtPCs
<1> QED
  BY <1>1, <1>2, <1>3

(* Every way out of finalize_pipeline_run_if_done leaves the failure of a  *)
(* required job on the run.                                                *)
LEMMA FinalizeFacts ==
    ASSUME SerialInv, NEW s \in Slots, Finalize(s)
    PROVE  Facts(slot[s])'
<1>0. /\ TypeOK /\ Facts(slot[s]) /\ Serving(slot[s])
      /\ slot \in [Slots -> SlotStates] /\ slot[s] \in SlotStates /\ job \in [Jobs -> Rows]
  BY DEF SerialInv, RowsInv, TypeOK, AllServing
<1>1. /\ slot[s].pc \in FzPCs /\ slot'[s].pc \in FzPCs \cup {slot[s].back}
      /\ slot'[s].kind = slot[s].kind
  BY <1>0, FinalizeSlot
<1>2. slot[s].back \in {"end", "rc_next", "fc_status"}
  BY <1>0 DEF Serving
<1>3. SettledIsDone /\ FailureStays
  BY <1>0, <1>1 DEF Facts, RunSound, Opening, FzPCs, MtPCs
<1>4. ASSUME SettledIsDone', FailureStays', slot'[s].pc = slot[s].back => FailureShows',
             ReadSound(slot[s])'
      PROVE  Facts(slot[s])'
  <2>1. slot'[s].pc \in FzPCs => ~Recorded(slot'[s])
    BY DEF FzPCs, Recorded, Deciding
  <2>2. slot'[s].pc \notin MtPCs \cup {"rr_reset"}
    BY <1>1, <1>2 DEF MtPCs, FzPCs
  <2> QED
    BY <1>1, <1>4, <2>1, <2>2 DEF Facts, RunSound, ResetSound, MtPCs
<1>5. ReadSound(slot[s])' \/ slot'[s].pc \in FzPCs \ {"fz_status", "fz_running", "fz_failed"}
  BY <1>1, <1>2 DEF ReadSound, FzPCs
<1>6. CASE FinalizeStatus(s) \/ FinalizeRunning(s)
  <2>1. UNCHANGED <<run, job>>
    BY <1>6 DEF FinalizeStatus, FinalizeRunning, Read, DB
  <2>2. \/ Goto(s, "fz_running") \/ Goto(s, "fz_failed")
        \/ Goto(s, slot[s].back) /\ (run = "cancelled" \/ Running(job) # {})
    BY <1>6 DEF FinalizeStatus, FinalizeRunning, Read
  <2>3. PICK pc \in {"fz_running", "fz_failed", slot[s].back} :
            Goto(s, pc) /\ (pc = slot[s].back => run = "cancelled" \/ Running(job) # {})
    BY <1>2, <2>2
  <2>4. /\ slot'[s].pc \in {"fz_running", "fz_failed", slot[s].back}
        /\ slot'[s].pc = slot[s].back => FailureShows
    BY <1>0, <2>3, GotoSlot DEF FailureShows
  <2> QED
    BY <1>2, <1>3, <1>4, <1>5, <2>1, <2>4 DEF SettledIsDone, FailureStays, FailureShows, FzPCs
<1>7. CASE FinalizeFailed(s)
  <2>1. UNCHANGED <<run, job>>
    BY <1>7 DEF FinalizeFailed, Read, DB
  <2>2. PICK pc \in {"fz_fail", "fz_remaining"} :
            Goto(s, pc) /\ (pc = "fz_fail" <=> RequiredFailures(job) # {})
    BY <1>7 DEF FinalizeFailed, Read
  <2>3. slot'[s].pc = pc
    BY <1>0, <2>2, GotoSlot
  <2>4. ReadSound(slot[s])'
    BY <2>1, <2>2, <2>3 DEF ReadSound
  <2> QED
    BY <1>2, <1>3, <1>4, <2>1, <2>2, <2>3, <2>4 DEF SettledIsDone, FailureStays
<1>8. CASE FinalizeFail(s)
  <2>0. slot[s].pc = "fz_fail" /\ job' = job
    BY <1>8 DEF FinalizeFail, At
  <2>1. CASE run \in OpenRun
    <3>1. run' = "failure" /\ Goto(s, "fz_skip")
      BY <1>8, <2>1 DEF FinalizeFail
    <3>2. slot'[s].pc = "fz_skip"
      BY <1>0, <3>1, GotoSlot
    <3>3. ReadSound(slot[s])'
      BY <3>1, <3>2 DEF ReadSound
    <3> QED
      BY <1>2, <1>4, <3>1, <3>2, <3>3 DEF SettledIsDone, FailureStays
  <2>2. CASE run \notin OpenRun
    <3>1. run' = run /\ Goto(s, slot[s].back)
      BY <1>8, <2>2 DEF FinalizeFail
    <3>2. slot'[s].pc = slot[s].back
      BY <1>0, <3>1, GotoSlot
    <3>3. ReadSound(slot[s])'
      BY <1>2, <1>5, <3>2 DEF FzPCs
    <3>4. run \in {"failure", "cancelled"}
      BY <1>0, <1>3, <2>0, <2>2 DEF Facts, ReadSound, FailureStays
    <3> QED
      BY <1>3, <1>4, <2>0, <3>1, <3>3, <3>4 DEF SettledIsDone, FailureStays, FailureShows
  <2> QED
    BY <2>1, <2>2
<1>9. CASE FinalizeSkip(s)
  <2>1. slot[s].pc = "fz_skip" /\ slot'[s].pc = "fz_skipcheck" /\ run' = run
    BY <1>0, <1>9 DEF FinalizeSkip, At, SlotStates
  <2>2. run = "failure"
    BY <1>0, <2>1 DEF Facts, ReadSound
  <2>3. ReadSound(slot[s])'
    BY <2>1, <2>2 DEF ReadSound
  <2> QED
    BY <1>2, <1>4, <2>1, <2>2, <2>3 DEF SettledIsDone, FailureStays
<1>10. CASE FinalizeSkipCheck(s)
  <2>1. slot[s].pc = "fz_skipcheck" /\ UNCHANGED <<run, job>>
    BY <1>10 DEF FinalizeSkipCheck, At
  <2>2. run = "failure"
    BY <1>0, <2>1 DEF Facts, ReadSound
  <2>3. slot'[s].pc \in {"fz_skipcheck", slot[s].back}
    <3>1. Goto(s, slot[s].back) \/ \E j : slot' = [slot EXCEPT ![s].skips = @ \ {j}]
      BY <1>10 DEF FinalizeSkipCheck
    <3>2. Goto(s, slot[s].back) => slot'[s].pc = slot[s].back
      BY <1>0, GotoSlot
    <3>3. (\E j : slot' = [slot EXCEPT ![s].skips = @ \ {j}]) => slot'[s].pc = "fz_skipcheck"
      BY <1>0, <2>1 DEF SlotStates
    <3> QED
      BY <3>1, <3>2, <3>3
  <2>4. ReadSound(slot[s])'
    BY <1>2, <1>5, <2>1, <2>2, <2>3 DEF ReadSound, FzPCs
  <2> QED
    BY <1>3, <1>4, <2>1, <2>2, <2>4 DEF SettledIsDone, FailureStays, FailureShows
<1>11. CASE FinalizeRemaining(s) \/ FinalizeAllSkipped(s)
  <2>1. UNCHANGED <<run, job>> /\ RequiredFailures(job) = {}
        /\ (FinalizeAllSkipped(s) => Active(job) = {})
    BY <1>0, <1>11 DEF FinalizeRemaining, FinalizeAllSkipped, Read, At, DB, Facts, ReadSound
  <2>2. \/ Goto(s, slot[s].back)
        \/ /\ Goto(s, "fz_allskipped") \/ Goto(s, "fz_skipped") \/ Goto(s, "fz_success")
           /\ Active(job) = {}
    BY <1>11, <2>1 DEF FinalizeRemaining, FinalizeAllSkipped, Read
  <2>3. \/ slot'[s].pc = slot[s].back
        \/ slot'[s].pc \in {"fz_allskipped", "fz_skipped", "fz_success"} /\ Active(job) = {}
    BY <1>0, <2>2, GotoSlot
  <2>4. ReadSound(slot[s])'
    BY <1>2, <1>5, <2>1, <2>3 DEF ReadSound, FzPCs
  <2> QED
    BY <1>3, <1>4, <2>1, <2>4 DEF SettledIsDone, FailureStays, FailureShows
<1>12. CASE FinalizeSkipped(s) \/ FinalizeSuccess(s)
  <2>1. job' = job /\ RequiredFailures(job) = {} /\ Active(job) = {}
    BY <1>0, <1>12 DEF FinalizeSkipped, FinalizeSuccess, At, Facts, ReadSound
  <2>2. Goto(s, slot[s].back)
    BY <1>12 DEF FinalizeSkipped, FinalizeSuccess
  <2>3. slot'[s].pc = slot[s].back
    BY <1>0, <2>2, GotoSlot
  <2>4. ReadSound(slot[s])'
    BY <1>2, <1>5, <2>3 DEF FzPCs
  <2> QED
    BY <1>4, <2>1, <2>4 DEF SettledIsDone, FailureStays, FailureShows
<1> QED
  BY <1>6, <1>7, <1>8, <1>9, <1>10, <1>11, <1>12 DEF Finalize

LEMMA ReclaimFacts ==
    ASSUME SerialInv, NEW s \in Slots, Reclaim(s)
    PROVE  Facts(slot[s])'
<1>0. /\ TypeOK /\ PushIsFirst /\ Facts(slot[s]) /\ Serving(slot[s])
      /\ slot \in [Slots -> SlotStates] /\ slot[s] \in SlotStates /\ job \in [Jobs -> Rows]
  BY DEF SerialInv, RowsInv, TypeOK, AllServing
<1>1. /\ slot'[s].kind = slot[s].kind /\ slot[s].pc \in RcPCs /\ run' = run
  BY <1>0, ReclaimSlot DEF Reclaim, ReclaimTimed, ReclaimLost, ReclaimJob, ReclaimCheck, ReclaimNext, DB
<1>2. SettledIsDone /\ FailureStays
  BY <1>0, <1>1 DEF Facts, RunSound, Opening, RcPCs, MtPCs
<1>3. slot[s].kind = "stale" /\ slot[s].pc # "rc_check" => FailureShows
  BY <1>0, <1>1 DEF Facts, RunSound, Recorded, RcPCs
<1>4. ASSUME job' = job, slot'[s].pc \in {"rc_check", "rc_next", "rc_lost", "fz_status", "end"},
             slot[s].pc = "rc_check" => slot'[s].pc = "fz_status",
             slot'[s].pc = "end" => slot[s].kind = "stale"
      PROVE  Facts(slot[s])'
  <2>1. Recorded(slot'[s]) => FailureShows
    BY <1>1, <1>3, <1>4 DEF Recorded, Deciding
  <2>2. (ReadSound(slot[s]) /\ ResetSound(slot[s]))'
    BY <1>4 DEF ReadSound, ResetSound, MtPCs
  <2> QED
    BY <1>1, <1>2, <1>4, <2>1, <2>2
       DEF Facts, RunSound, SettledIsDone, FailureStays, FailureShows
<1>5. CASE ReclaimTimed(s) \/ ReclaimLost(s)
  <2>1. job' = job /\ slot'[s].pc = "rc_next" /\ slot[s].pc # "rc_check"
    BY <1>0, <1>5 DEF ReclaimTimed, ReclaimLost, DB, At, SlotStates
  <2> QED
    BY <1>4, <2>1
<1>6. CASE ReclaimJob(s)
  <2>1. PICK j \in slot[s].todo, pc \in {"rc_check", "rc_next"} :
            /\ slot' = [slot EXCEPT ![s].todo = @ \ {j}, ![s].cur = j, ![s].pc = pc]
            /\ IF job[j].status = "running"
               THEN SetStatus({j}, "failure") /\ pc = "rc_check" ELSE UNCHANGED job
    BY <1>6 DEF ReclaimJob
  <2>2. slot'[s].pc = pc /\ slot[s].pc = "rc_next" /\ j \in Jobs
    BY <1>0, <1>6, <2>1 DEF ReclaimJob, At, SlotStates
  <2>3. CASE job[j].status # "running"
    BY <1>4, <2>1, <2>2, <2>3
  <2>4. CASE job[j].status = "running"
    <3>1. run \in OpenRun \cup {"failure"}
      BY <1>0, <1>2, <2>2, <2>4, RunningMeansOpen
    <3>2. slot'[s].pc = "rc_check"
      BY <2>1, <2>2, <2>4
    <3>3. (ReadSound(slot[s]) /\ ResetSound(slot[s]))'
      BY <3>2 DEF ReadSound, ResetSound, MtPCs
    <3> QED
      BY <1>1, <3>1, <3>2, <3>3
         DEF Facts, RunSound, SettledIsDone, FailureStays, Recorded, Deciding, OpenRun
  <2> QED
    BY <2>3, <2>4
<1>7. CASE ReclaimCheck(s)
  <2>1. job' = job /\ slot'[s].pc = "fz_status"
    BY <1>0, <1>7 DEF ReclaimCheck, SlotStates
  <2> QED
    BY <1>4, <2>1
<1>8. CASE ReclaimNext(s)
  <2>1. \/ slot' = [slot EXCEPT ![s].pc = "rc_lost"]
        \/ slot' = [slot EXCEPT ![s].pc = "end"] /\ slot[s].kind = "stale"
        \/ slot' = [slot EXCEPT ![s].pc = "fz_status", ![s].back = "fc_status"]
    BY <1>0, <1>8 DEF ReclaimNext, SlotStates
  <2>2. \/ slot'[s].pc \in {"rc_lost", "fz_status"}
        \/ slot'[s].pc = "end" /\ slot[s].kind = "stale"
    BY <1>0, <2>1 DEF SlotStates
  <2>3. job' = job /\ slot[s].pc = "rc_next"
    BY <1>8 DEF ReclaimNext, DB, At
  <2> QED
    BY <1>4, <2>2, <2>3
<1> QED
  BY <1>5, <1>6, <1>7, <1>8 DEF Reclaim

(* force_finalize_stuck_pipeline decides on reads that no claim undoes.    *)
LEMMA ForceFacts ==
    ASSUME SerialInv, NEW s \in Slots, ForceFinalize(s)
    PROVE  Facts(slot[s])'
<1>0. /\ TypeOK /\ Facts(slot[s]) /\ Serving(slot[s])
      /\ slot \in [Slots -> SlotStates] /\ slot[s] \in SlotStates
  BY DEF SerialInv, RowsInv, TypeOK, AllServing
<1>1. /\ slot[s].pc \in Deciding \cup {"fc_status"} /\ slot'[s].pc \in Deciding \cup {slot[s].after}
      /\ job' = job
  BY <1>0, ForceSlot DEF ForceFinalize, ForceStatus, ForceActive, ForceFailed, ForceCancelled,
                         ForceSkipped, ForceDecide, ForceWrite, Read, DB
<1>2. slot[s].after \in {"end", "id_status"}
  BY <1>0 DEF Serving
<1>3. SettledIsDone /\ FailureStays /\ FailureShows
  BY <1>0, <1>1 DEF Facts, RunSound, Opening, Recorded, Deciding, MtPCs
<1>4. ASSUME SettledIsDone', FailureStays', FailureShows', ReadSound(slot[s])'
      PROVE  Facts(slot[s])'
  <2>1. slot'[s].pc \notin MtPCs \cup {"rr_reset"}
    BY <1>1, <1>2 DEF MtPCs, Deciding
  <2> QED
    BY <1>4, <2>1 DEF Facts, RunSound, ResetSound, MtPCs
<1>5. slot'[s].pc = slot[s].after => ReadSound(slot[s])'
  BY <1>2 DEF ReadSound
<1>6. CASE ForceStatus(s)
  <2>1. run' = run
    BY <1>6 DEF ForceStatus, Read, DB
  <2>2. PICK pc \in {"fc_active", slot[s].after} : Goto(s, pc) /\ (pc = "fc_active" => run \in OpenRun)
    BY <1>2, <1>6 DEF ForceStatus, Read
  <2>3. slot'[s].pc = pc
    BY <1>0, <2>2, GotoSlot
  <2>4. ReadSound(slot[s])'
    BY <1>5, <2>1, <2>2, <2>3 DEF ReadSound
  <2> QED
    BY <1>1, <1>3, <1>4, <2>1, <2>4 DEF SettledIsDone, FailureStays, FailureShows
<1>7. CASE ForceActive(s)
  <2>1. run' = run /\ slot[s].pc = "fc_active"
    BY <1>7 DEF ForceActive, Read, DB, At
  <2>2. PICK pc \in {"fc_failed", slot[s].after} : Goto(s, pc) /\ (pc = "fc_failed" => Active(job) = {})
    BY <1>2, <1>7 DEF ForceActive, Read
  <2>3. slot'[s].pc = pc
    BY <1>0, <2>2, GotoSlot
  <2>4. pc = "fc_failed" => RequiredFailures(job) = {}
    <3>1. run \in OpenRun
      BY <1>0, <2>1 DEF Facts, ReadSound
    <3>2. Active(job) = {} => Running(job) = {}
      BY DEF Active
    <3> QED
      BY <1>3, <2>2, <3>1, <3>2 DEF FailureShows, OpenRun
  <2>5. ReadSound(slot[s])'
    BY <1>1, <1>5, <2>2, <2>3, <2>4 DEF ReadSound
  <2> QED
    BY <1>1, <1>3, <1>4, <2>1, <2>5 DEF SettledIsDone, FailureStays, FailureShows
<1>8. CASE ForceFailed(s) \/ ForceCancelled(s) \/ ForceSkipped(s)
  <2>1. run' = run /\ slot'[s].pc \in {"fc_cancelled", "fc_skipped", "fc_write"}
    BY <1>0, <1>8 DEF ForceFailed, ForceCancelled, ForceSkipped, ForceDecide, DB, SlotStates
  <2>2. Active(job) = {} /\ RequiredFailures(job) = {}
    BY <1>0, <1>8 DEF ForceFailed, ForceCancelled, ForceSkipped, ForceDecide, At, Facts, ReadSound
  <2>3. ReadSound(slot[s])'
    BY <1>1, <2>1, <2>2 DEF ReadSound
  <2> QED
    BY <1>1, <1>3, <1>4, <2>1, <2>3 DEF SettledIsDone, FailureStays, FailureShows
<1>9. CASE ForceWrite(s)
  <2>1. slot'[s].pc = slot[s].after
    BY <1>0, <1>9 DEF ForceWrite, SlotStates
  <2>2. Active(job) = {} /\ RequiredFailures(job) = {}
    BY <1>0, <1>9 DEF ForceWrite, At, Facts, ReadSound
  <2> QED
    BY <1>1, <1>4, <1>5, <2>1, <2>2 DEF SettledIsDone, FailureStays, FailureShows
<1> QED
  BY <1>6, <1>7, <1>8, <1>9 DEF ForceFinalize

LEMMA RerunFacts ==
    ASSUME SerialInv, NEW s \in Slots, Rerun(s)
    PROVE  Facts(slot[s])'
<1>0. /\ TypeOK /\ Facts(slot[s]) /\ Serving(slot[s])
      /\ slot \in [Slots -> SlotStates] /\ slot[s] \in SlotStates /\ job \in [Jobs -> Rows]
  BY DEF SerialInv, RowsInv, TypeOK, AllServing
<1>1. slot'[s].kind = slot[s].kind /\ job' = job /\ slot[s].kind \in Reruns
  <2>1. slot[s].pc \in IdlePCs \cup {"rr_names", "rr_reset", "rj_read", "rj_run"}
    BY DEF Rerun, IdleStatus, IdleActive, RerunNames, RerunReset, RerunJobRead, RerunJobRun,
           Read, At, IdlePCs
  <2>2. slot[s].kind \in Reruns
    BY <1>0, <2>1, KindAt DEF Reruns
  <2> QED
    BY <1>0, <2>2, RerunSlot
       DEF Rerun, IdleStatus, IdleActive, RerunNames, RerunReset, RerunJobRead, RerunJobRun, Read, DB
<1>2. SettledIsDone /\ FailureStays /\ (Recorded(slot[s]) => FailureShows)
  BY <1>0 DEF Facts, RunSound, Opening, Rerun, IdleStatus, IdleActive, RerunNames, RerunReset,
              RerunJobRead, RerunJobRun, Read, At, MtPCs
<1>3. RequiredFailures(job) \subseteq Jobs /\ RequiredFailures(job) \subseteq FailedJobs(job)
  BY NeedsAssumption DEF RequiredFailures, FailedJobs
<1>4. CASE IdleStatus(s)
  <2>1. PICK pc \in {"end", "id_active"} : Goto(s, pc)
    BY <1>4 DEF IdleStatus, Read
  <2>2. slot'[s].pc = pc /\ run' = run /\ slot[s].pc = "id_status"
    BY <1>0, <1>4, <2>1, GotoSlot DEF IdleStatus, Read, DB, At
  <2> QED
    BY <1>1, <1>2, <2>1, <2>2
       DEF Facts, RunSound, Recorded, SettledIsDone, FailureStays, FailureShows, ReadSound, ResetSound, MtPCs
<1>5. CASE IdleActive(s)
  <2>1. PICK pc \in {"end", "rr_reset", "rr_names", "rj_read"} :
            /\ slot' = [slot EXCEPT ![s].todo = Jobs, ![s].pc = pc]
            /\ pc # "end" => Active(job) = {}
    BY <1>5 DEF IdleActive, ResetPC
  <2>2. /\ slot'[s].pc = pc /\ slot'[s].todo = Jobs
        /\ run' = run /\ slot[s].pc = "id_active"
    BY <1>0, <1>5, <2>1 DEF IdleActive, DB, At, SlotStates
  <2>3. Recorded(slot[s])
    BY <2>2 DEF Recorded
  <2>4. RunSound(slot[s])'
    BY <1>1, <1>2, <2>2, <2>3 DEF RunSound, SettledIsDone, FailureStays, FailureShows
  <2>5. (ReadSound(slot[s]) /\ ResetSound(slot[s]))'
    BY <1>1, <1>3, <2>1, <2>2 DEF ReadSound, ResetSound, MtPCs
  <2> QED
    BY <2>4, <2>5 DEF Facts
<1>6. CASE RerunNames(s)
  <2>1. PICK pc \in {"end", "rr_reset"} :
            slot' = [slot EXCEPT ![s].todo = FailedJobs(job), ![s].pc = pc]
    BY <1>6 DEF RerunNames
  <2>2. /\ slot'[s].pc = pc /\ slot'[s].todo = FailedJobs(job)
        /\ run' = run /\ slot[s].pc = "rr_names"
    BY <1>0, <1>6, <2>1 DEF RerunNames, DB, At, SlotStates
  <2>3. Recorded(slot[s])
    BY <2>2 DEF Recorded
  <2>4. RunSound(slot[s])'
    BY <1>1, <1>2, <2>2, <2>3 DEF RunSound, SettledIsDone, FailureStays, FailureShows
  <2>5. ReadSound(slot[s])'
    BY <1>0, <1>1, <2>1, <2>2 DEF Facts, ReadSound
  <2>6. ResetSound(slot[s])'
    <3>1. RequiredFailures(job') \subseteq slot'[s].todo
      BY <1>1, <1>3, <2>2
    <3> QED
      BY <2>1, <2>2, <3>1 DEF ResetSound, MtPCs
  <2> QED
    BY <2>4, <2>5, <2>6 DEF Facts
<1>7. CASE RerunReset(s)
  <2>1. /\ slot'[s].pc = "mt_row" /\ slot[s].pc = "rr_reset" /\ run' = "queued"
        /\ slot'[s].todo = slot[s].todo
    BY <1>0, <1>7 DEF RerunReset, At, Goto, SlotStates
  <2>2. RequiredFailures(job) \subseteq slot[s].todo
    BY <1>0, <2>1 DEF Facts, ResetSound
  <2> QED
    BY <1>1, <2>1, <2>2
       DEF Facts, RunSound, Recorded, Deciding, SettledIsDone, FailureStays, ReadSound, ResetSound,
           OpenRun, Reruns
<1>8. CASE RerunJobRead(s)
  <2>1. PICK pc \in {"end", "mt_row"} :
            slot' = [slot EXCEPT ![s].todo = Downstream(slot[s].job), ![s].pc = pc]
    BY <1>8 DEF RerunJobRead
  <2>2. slot'[s].pc = pc /\ run' = run /\ slot[s].pc = "rj_read"
    BY <1>0, <1>8, <2>1 DEF RerunJobRead, DB, At, SlotStates
  <2>3. Recorded(slot[s]) /\ slot'[s].kind = "rerunJob"
    BY <1>0, <1>1, <2>2, KindAt DEF Recorded
  <2>4. RunSound(slot[s])'
    BY <1>1, <1>2, <2>2, <2>3 DEF RunSound, SettledIsDone, FailureStays, FailureShows
  <2>5. (ReadSound(slot[s]) /\ ResetSound(slot[s]))'
    BY <2>1, <2>2, <2>3 DEF ReadSound, ResetSound
  <2> QED
    BY <2>4, <2>5 DEF Facts
<1>9. CASE RerunJobRun(s)
  <2>1. slot'[s].pc = "rc_timed" /\ run' = "running" /\ slot'[s].kind # "stale"
    BY <1>0, <1>1, <1>9 DEF RerunJobRun, SlotStates, Reruns
  <2> QED
    BY <2>1
       DEF Facts, RunSound, Recorded, Deciding, SettledIsDone, FailureStays, ReadSound, ResetSound,
           OpenRun, MtPCs
<1> QED
  BY <1>4, <1>5, <1>6, <1>7, <1>8, <1>9 DEF Rerun

LEMMA CancelFacts ==
    ASSUME SerialInv, NEW s \in Slots, CancelTx(s) \/ CancelCheck(s)
    PROVE  Facts(slot[s])'
<1>0. /\ TypeOK /\ Facts(slot[s]) /\ Serving(slot[s])
      /\ slot \in [Slots -> SlotStates] /\ slot[s] \in SlotStates /\ job \in [Jobs -> Rows]
  BY DEF SerialInv, RowsInv, TypeOK, AllServing
<1>1. CASE CancelTx(s)
  <2>1. run' = "cancelled" /\ slot'[s].pc = "k_check"
    BY <1>0, <1>1 DEF CancelTx, SlotStates
  <2>2. \A j \in Jobs : job'[j].status \notin {"queued", "running"}
    BY <1>0, <1>1 DEF CancelTx, Running, Rows
  <2>3. Active(job') = {}
    BY <2>2 DEF Active, Running, Runnable
  <2> QED
    BY <2>1, <2>3
       DEF Facts, RunSound, SettledIsDone, FailureStays, FailureShows, ReadSound, ResetSound, MtPCs
<1>2. CASE CancelCheck(s)
  <2>1. slot[s].pc = "k_check" /\ UNCHANGED <<run, job>> /\ slot[s].kind = "cancel"
    BY <1>0, <1>2, KindAt DEF CancelCheck, At
  <2>2. slot'[s].pc \in {"k_check", "rc_timed"} /\ slot'[s].kind = "cancel"
    <3>1. Goto(s, "rc_timed") \/ \E j : slot' = [slot EXCEPT ![s].todo = @ \ {j}]
      BY <1>2 DEF CancelCheck
    <3>2. Goto(s, "rc_timed") => slot'[s].pc = "rc_timed" /\ slot'[s].kind = slot[s].kind
      BY <1>0, GotoSlot
    <3>3. (\E j : slot' = [slot EXCEPT ![s].todo = @ \ {j}]) =>
              slot'[s].pc = "k_check" /\ slot'[s].kind = slot[s].kind
      BY <1>0, <2>1 DEF SlotStates
    <3> QED
      BY <2>1, <3>1, <3>2, <3>3
  <2> QED
    BY <1>0, <2>1, <2>2
       DEF Facts, RunSound, Recorded, Opening, Deciding, SettledIsDone, FailureStays, FailureShows,
           ReadSound, ResetSound, MtPCs
<1> QED
  BY <1>1, <1>2

LEMMA StepUserFacts ==
    ASSUME SerialInv, NEW s \in Slots,
           CancelStepUpdate(s) \/ CancelStepCheck(s)
             \/ PlayBlocked(s) \/ PlayUpdate(s) \/ PlayRun(s) \/ PlayCheck(s)
    PROVE  Facts(slot[s])'
<1>0. /\ TypeOK /\ PushIsFirst /\ Facts(slot[s]) /\ Serving(slot[s])
      /\ slot \in [Slots -> SlotStates] /\ slot[s] \in SlotStates /\ job \in [Jobs -> Rows]
      /\ slot[s].job \in Jobs
  BY DEF SerialInv, RowsInv, TypeOK, AllServing, SlotStates
<1>1. slot'[s].kind = slot[s].kind /\ slot[s].kind \in {"cancelStep", "play"}
  <2>1. slot[s].pc \in {"s_update", "s_check", "p_blocked", "p_update", "p_run", "p_check"}
    BY DEF CancelStepUpdate, CancelStepCheck, PlayBlocked, PlayUpdate, PlayRun, PlayCheck, Read, At
  <2>2. UserWrites(s)
    BY DEF UserWrites
  <2> QED
    BY <1>0, <2>1, <2>2, UserSlot, KindAt
<1>2. FailureStays /\ (slot[s].pc # "p_run" => SettledIsDone) /\ (Recorded(slot[s]) => FailureShows)
  BY <1>0, <1>1 DEF Facts, RunSound, Opening
<1>3. ASSUME UNCHANGED <<run, job>>, Recorded(slot[s]), slot[s].pc # "p_run",
             slot'[s].pc \in {"end", "p_update"}
      PROVE  Facts(slot[s])'
  BY <1>2, <1>3
     DEF Facts, RunSound, SettledIsDone, FailureStays, FailureShows, ReadSound, ResetSound, MtPCs
<1>4. ASSUME SettledIsDone', FailureStays', slot'[s].pc \in {"s_check", "fz_status", "p_check", "rc_timed"}
      PROVE  Facts(slot[s])'
  BY <1>1, <1>4 DEF Facts, RunSound, Recorded, Deciding, ReadSound, ResetSound, MtPCs
<1>5. CASE CancelStepUpdate(s)
  <2> DEFINE j == slot[s].job
  <2>0. slot[s].pc = "s_update" /\ run' = run
    BY <1>5 DEF CancelStepUpdate, At
  <2>1. CASE job[j].status = "running"
    <3>1. /\ job' = [job EXCEPT ![j].status = "cancelled", ![j].cancelReq = TRUE]
          /\ Goto(s, "s_check")
      BY <1>5, <2>1 DEF CancelStepUpdate
    <3>2. slot'[s].pc = "s_check"
      BY <1>0, <3>1, GotoSlot
    <3>3. \A k \in Jobs : job'[k].status = "failure" => job[k].status = "failure"
      BY <1>0, <3>1 DEF Rows
    <3>4. RequiredFailures(job') \subseteq RequiredFailures(job)
      BY <3>3, NeedsAssumption DEF RequiredFailures
    <3>5. run \in OpenRun \cup {"failure"}
      BY <1>0, <1>2, <2>0, <2>1, RunningMeansOpen
    <3> QED
      BY <1>2, <1>4, <2>0, <3>2, <3>4, <3>5 DEF SettledIsDone, FailureStays, OpenRun
  <2>2. CASE job[j].status # "running"
    <3>1. Goto(s, "end") /\ job' = job
      BY <1>5, <2>2 DEF CancelStepUpdate
    <3>2. slot'[s].pc = "end"
      BY <1>0, <3>1, GotoSlot
    <3> QED
      BY <1>3, <2>0, <3>1, <3>2 DEF Recorded
  <2> QED
    BY <2>1, <2>2
<1>6. CASE CancelStepCheck(s) \/ PlayCheck(s)
  <2>1. PICK pc \in {"fz_status", "rc_timed"} : Goto(s, pc)
    BY <1>6 DEF CancelStepCheck, PlayCheck
  <2>2. slot'[s].pc = pc /\ slot[s].pc # "p_run" /\ UNCHANGED <<run, job>>
    BY <1>0, <1>6, <2>1, GotoSlot DEF CancelStepCheck, PlayCheck, At
  <2> QED
    BY <1>2, <1>4, <2>1, <2>2 DEF SettledIsDone, FailureStays
<1>7. CASE PlayBlocked(s)
  <2>1. PICK pc \in {"p_update", "end"} : Goto(s, pc)
    BY <1>7 DEF PlayBlocked, Read
  <2>2. slot'[s].pc = pc /\ slot[s].pc = "p_blocked" /\ UNCHANGED <<run, job>>
    BY <1>0, <1>7, <2>1, GotoSlot DEF PlayBlocked, Read, At, DB
  <2> QED
    BY <1>3, <2>1, <2>2 DEF Recorded
<1>8. CASE PlayUpdate(s)
  <2> DEFINE j == slot[s].job
  <2>0. slot[s].pc = "p_update" /\ run' = run
    BY <1>8 DEF PlayUpdate, At
  <2>1. CASE job[j].status = "manual"
    <3>1. /\ job' = [job EXCEPT ![j].status = "queued", ![j].why = "none",
                                ![j].holder = NoPod, ![j].overdue = FALSE]
          /\ Goto(s, "p_run")
      BY <1>8, <2>1 DEF PlayUpdate
    <3>2. slot'[s].pc = "p_run"
      BY <1>0, <3>1, GotoSlot
    <3>3. \A k \in Jobs : job'[k].status = "failure" => job[k].status = "failure"
      BY <1>0, <3>1 DEF Rows
    <3>4. RequiredFailures(job') \subseteq RequiredFailures(job)
      BY <3>3, NeedsAssumption DEF RequiredFailures
    <3>5. run # "absent"
      BY <1>0, <2>1 DEF PushIsFirst
    <3>6. FailureStays'
      BY <1>2, <2>0, <3>4 DEF FailureStays
    <3>7. RunSound(slot[s])'
      BY <1>1, <3>2, <3>6 DEF RunSound, Opening, Recorded, Deciding
    <3> QED
      BY <2>0, <3>2, <3>5, <3>7 DEF Facts, ReadSound, ResetSound, MtPCs
  <2>2. CASE job[j].status # "manual"
    <3>1. Goto(s, "end") /\ job' = job
      BY <1>8, <2>2 DEF PlayUpdate
    <3>2. slot'[s].pc = "end"
      BY <1>0, <3>1, GotoSlot
    <3> QED
      BY <1>3, <2>0, <3>1, <3>2 DEF Recorded
  <2> QED
    BY <2>1, <2>2
<1>9. CASE PlayRun(s)
  <2>1. slot'[s].pc = "p_check" /\ slot[s].pc = "p_run"
    BY <1>0, <1>9, GotoSlot DEF PlayRun, At
  <2>2. run # "absent"
    BY <1>0, <2>1 DEF Facts, ReadSound
  <2>3. run' \in OpenRun
    BY <1>0, <1>9, <2>2 DEF PlayRun, TypeOK, RunStatuses, SettledRun, OpenRun
  <2> QED
    BY <1>4, <2>1, <2>3 DEF SettledIsDone, FailureStays, OpenRun
<1> QED
  BY <1>5, <1>6, <1>7, <1>8, <1>9

LEMMA ReplyFacts ==
    ASSUME SerialInv, NEW s \in Slots, Reply(s)
    PROVE  Facts(slot[s])'
<1>0. TypeOK /\ Facts(slot[s])
  BY DEF SerialInv, RowsInv
<1>1. slot[s].pc = "end" /\ slot'[s].pc = "idle" /\ slot'[s].kind = "none" /\ UNCHANGED <<run, job>>
  BY <1>0 DEF Reply, At, DB, NoRequest, TypeOK
<1> QED
  BY <1>0, <1>1
     DEF Facts, RunSound, Opening, Recorded, SettledIsDone, FailureStays, FailureShows,
         ReadSound, ResetSound, MtPCs

LEMMA ArriveFacts ==
    ASSUME SerialInv, NEW s \in Slots, Arrive(s)
    PROVE  Facts(slot[s])'
<1>0. /\ TypeOK /\ PushIsFirst /\ Facts(slot[s]) /\ Serving(slot[s])
      /\ slot \in [Slots -> SlotStates] /\ slot[s] \in SlotStates /\ job \in [Jobs -> Rows]
  BY DEF SerialInv, RowsInv, TypeOK, AllServing
<1>1. CASE StartTrigger(s)
  <2>1. /\ run = "absent" /\ run' = "queued" /\ job' = job
        /\ slot'[s].pc = "mt_row" /\ slot'[s].kind = "trigger"
    BY <1>0, <1>1 DEF StartTrigger, NoRequest
  <2>2. RequiredFailures(job) = {}
    BY <1>0, <2>1, NeedsAssumption DEF PushIsFirst, RequiredFailures
  <2> QED
    BY <2>1, <2>2
       DEF Facts, RunSound, Recorded, Deciding, SettledIsDone, FailureStays, ReadSound, ResetSound
<1>2. ASSUME NEW p \in Pods, NEW v \in Reported, Report(s, p, v)
      PROVE  Facts(slot[s])'
  <2> DEFINE j == exec[p].job
             final == IF job[j].status = "cancelled" THEN "cancelled" ELSE v
  <2>0. j \in Jobs /\ run' = run /\ slot[s].pc = "idle"
    BY <1>0, <1>2 DEF Report, TypeOK, Execs
  <2>1. SettledIsDone /\ FailureStays /\ FailureShows
    BY <1>0, <2>0 DEF Facts, RunSound, Opening, Recorded, MtPCs
  <2>2. CASE ~Reportable(p, j)
    <3>1. UNCHANGED <<job, slot>>
      BY <1>2, <2>2 DEF Report
    <3> QED
      BY <1>0, <2>0, <3>1
         DEF Facts, RunSound, Opening, Recorded, SettledIsDone, FailureStays, FailureShows,
             ReadSound, ResetSound
  <2>3. CASE Reportable(p, j)
    <3>1. /\ job' = [job EXCEPT ![j].status = final]
          /\ slot' = [slot EXCEPT ![s] =
                [NoRequest EXCEPT !.pc = "c_check", !.kind = "complete",
                                  !.job = j, !.pod = p, !.verdict = final]]
      BY <1>2, <2>3 DEF Report
    <3>2. /\ job[j].status = "cancelled" => final = "cancelled"
          /\ job[j].status # "cancelled" => job[j].status = "running"
      BY <2>3 DEF Reportable
    <3> HIDE DEF final
    <3>3. slot'[s].pc = "c_check" /\ slot'[s].kind = "complete" /\ slot'[s].verdict = final
      BY <1>0, <3>1 DEF NoRequest
    <3>4. CASE job[j].status = "cancelled"
      <4>1. \A k \in Jobs : job'[k].status = job[k].status /\ job'[k].why = job[k].why
        BY <1>0, <3>1, <3>2, <3>4 DEF Rows
      <4>2. /\ Running(job') = Running(job) /\ RequiredFailures(job') = RequiredFailures(job)
            /\ Runnable(job') = Runnable(job)
        BY <4>1, NeedsAssumption DEF Running, RequiredFailures, Runnable, Unblocked, Satisfied
      <4>3. RunSound(slot[s])'
        BY <2>0, <2>1, <4>2 DEF RunSound, SettledIsDone, FailureStays, FailureShows, Active
      <4> QED
        BY <3>2, <3>3, <3>4, <4>3 DEF Facts, ReadSound, ResetSound, MtPCs
    <3>5. CASE job[j].status = "running"
      <4>1. run \in OpenRun \cup {"failure"}
        BY <1>0, <2>0, <2>1, <3>5, RunningMeansOpen
      <4>2. RunSound(slot[s])'
        BY <2>0, <3>3, <4>1
           DEF RunSound, SettledIsDone, FailureStays, Recorded, Deciding, OpenRun
      <4> QED
        BY <2>0, <3>3, <4>1, <4>2 DEF Facts, ReadSound, ResetSound, MtPCs
    <3> QED
      BY <3>2, <3>4, <3>5
  <2> QED
    BY <2>2, <2>3
<1>3. ASSUME NEW k, NEW j, NEW pc \in {"rc_timed", "k_tx", "s_update", "p_blocked"},
             Begin(s, k, j, pc) \/ (StartRerun(s, k, j) /\ pc = "rc_timed"),
             UNCHANGED <<run, job>>
      PROVE  Facts(slot[s])'
  <2>1. slot[s].pc = "idle" /\ slot'[s].pc = pc
    BY <1>0, <1>3 DEF Begin, StartRerun, NoRequest
  <2>2. SettledIsDone /\ FailureStays /\ FailureShows
    BY <1>0, <2>1 DEF Facts, RunSound, Opening, Recorded, MtPCs
  <2>3. RunSound(slot[s])'
    BY <1>3, <2>2 DEF RunSound, SettledIsDone, FailureStays, FailureShows
  <2> QED
    BY <1>3, <2>1, <2>3 DEF Facts, ReadSound, ResetSound, MtPCs
<1> QED
  BY <1>1, <1>2, <1>3
     DEF Arrive, StartGet, StartStale, StartCancel, StartCancelStep, StartPlay, StartRerun, DB

LEMMA NextFacts ==
    ASSUME OneAtATime, "crash" \notin Faults, HasRunnableJobs, SerialInv, [Next]_vars
    PROVE  SerialInv'
<1>0. /\ RowsInv /\ TypeOK /\ AllServing /\ PushIsFirst
      /\ \A s \in Slots : Facts(slot[s])
  BY DEF SerialInv, RowsInv
<1>1. RowsInv' /\ AllServing' /\ PushIsFirst'
  BY <1>0, NextKeepsRows, NextServes, NextPush
<1>2. ASSUME Elsewhere, NEW s \in Slots
      PROVE  Facts(slot[s])'
  <2>1. /\ run' = run /\ slot' = slot /\ Running(job) \subseteq Running(job')
        /\ Active(job') = Active(job) /\ RequiredFailures(job') = RequiredFailures(job)
    BY <1>0, <1>2, ElsewhereMoves, ElsewhereKeeps
  <2>2. RunSound(slot[s])'
    BY <1>0, <2>1
       DEF Facts, RunSound, Opening, Recorded, SettledIsDone, FailureStays, FailureShows
  <2>3. (ReadSound(slot[s]) /\ ResetSound(slot[s]))'
    BY <1>0, <2>1 DEF Facts, ReadSound, ResetSound
  <2> QED
    BY <2>2, <2>3 DEF Facts
<1>3. ASSUME NEW s \in Slots, Step(s)
      PROVE  Facts(slot[s])'
  BY <1>3, MaterializeFacts, CompleteFacts, FinalizeFacts, ReclaimFacts, ForceFacts, RerunFacts,
     CancelFacts, StepUserFacts, ReplyFacts DEF Step, UserWrites
<1>4. \A s \in Slots : ~Crash(s)
  BY DEF Crash
<1>5. ASSUME NEW s \in Slots, Arrive(s) \/ Step(s)
      PROVE  \A t \in Slots : Facts(slot[t])'
  BY <1>3, <1>5, ArriveFacts DEF OneAtATime
<1>6. \A t \in Slots : Facts(slot[t])'
  BY <1>2, <1>4, <1>5, NextCases
<1> QED
  BY <1>1, <1>6 DEF SerialInv

LEMMA InitFacts ==
    ASSUME Init
    PROVE  SerialInv
<1>1. RowsInv /\ AllServing /\ PushIsFirst
  BY InitRows, InitServes, InitPush
<1>2. ASSUME NEW s \in Slots
      PROVE  Facts(slot[s])
  <2>1. slot[s].pc = "idle" /\ run = "absent" /\ \A j \in Jobs : job[j].status = "absent"
    BY DEF Init, NoRequest, NewRow
  <2>2. RequiredFailures(job) = {}
    BY <2>1, NeedsAssumption DEF RequiredFailures
  <2> QED
    BY <2>1, <2>2
       DEF Facts, RunSound, SettledIsDone, FailureStays, FailureShows, ReadSound, ResetSound, MtPCs
<1> QED
  BY <1>1, <1>2 DEF SerialInv

(* A run that is over as success, skipped or cancelled has no job running  *)
(* and none a runner could still claim, for any schedule with a job to run *)
(* and any pool of runners.  Requests are served one at a time and no      *)
(* handler is cut off.  A schedule of skipped jobs only is left out: there *)
(* "re-run failed" queues rows and materialize_jobs_for_run writes skipped *)
(* over the run all the same.                                              *)
THEOREM SettledRunsAreDone ==
    ASSUME OneAtATime, "crash" \notin Faults, HasRunnableJobs
    PROVE  Spec => []SettledRunHasNoWork
<1>1. Init => SerialInv
  BY InitFacts
<1>2. SerialInv /\ [Next]_vars => SerialInv'
  BY NextFacts
<1>3. SerialInv => SettledRunHasNoWork
  <2> SUFFICES ASSUME SerialInv, Quiet
               PROVE  SettledIsDone
    BY DEF SettledRunHasNoWork, SettledIsDone
  <2>1. PICK s \in Slots : slot[s].pc = "idle"
    BY DEF Quiet, OneAtATime
  <2> QED
    BY <2>1 DEF SerialInv, Facts, RunSound, Opening, MtPCs
<1> QED
  BY <1>1, <1>2, <1>3, PTL DEF Spec

(* Once nothing runs any more, a required job that failed has failed its   *)
(* run, unless a user cancelled it: under the same hypotheses, no early    *)
(* return of finalize_pipeline_run_if_done, no unguarded write of the run  *)
(* and no re-run loses a failure.                                          *)
THEOREM RequiredFailuresShow ==
    ASSUME OneAtATime, "crash" \notin Faults, HasRunnableJobs
    PROVE  Spec => []RequiredFailureFailsRun
<1>1. Init => SerialInv
  BY InitFacts
<1>2. SerialInv /\ [Next]_vars => SerialInv'
  BY NextFacts
<1>3. SerialInv => RequiredFailureFailsRun
  <2> SUFFICES ASSUME SerialInv, Quiet
               PROVE  FailureShows
    BY DEF RequiredFailureFailsRun, FailureShows
  <2>1. PICK s \in Slots : slot[s].pc = "idle"
    BY DEF Quiet, OneAtATime
  <2> QED
    BY <2>1 DEF SerialInv, Facts, RunSound, Recorded
<1> QED
  BY <1>1, <1>2, <1>3, PTL DEF Spec

=============================================================================
