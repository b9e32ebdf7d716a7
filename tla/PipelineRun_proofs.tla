------------------------- MODULE PipelineRun_proofs -------------------------
(***************************************************************************)
(* Proofs about PipelineRun, for every schedule, pool of runner processes, *)
(* number of concurrent requests, set of operations and set of faults.     *)
(***************************************************************************)
EXTENDS PipelineRunProps, TLAPS

-----------------------------------------------------------------------------
(* The helpers of JobRules and PipelineRun preserve types. *)

LEMMA NewRowType ==
    ASSUME NEW status \in JobStatuses, NEW why \in Reasons
    PROVE  NewRow(status, why) \in Rows
BY DEF NewRow, Rows

LEMMA MaterialTypes ==
    ASSUME NEW j \in Jobs, NEW reset
    PROVE  /\ MaterialRow(j, reset) \in Rows
           /\ MaterialCheck(j, reset) \in Checks
<1>1. MaterialStatus(j, reset) \in JobStatuses
  BY DEF MaterialStatus, JobStatuses
<1>2. MaterialReason(j, reset) \in Reasons
  BY DEF MaterialReason, Reasons
<1> QED
  BY <1>1, <1>2, NewRowType DEF MaterialRow, MaterialCheck, Checks

LEMMA CheckForType == \A status : CheckFor(status) \in Checks
BY DEF CheckFor, Checks

LEMMA NoRequestType == NoRequest \in SlotStates
<1>1. AnyJob \in Jobs
  BY NeedsAssumption DEF AnyJob
<1> QED
  BY <1>1 DEF NoRequest, SlotStates, PCs, Kinds, Verdicts

LEMMA GotoType ==
    ASSUME slot \in [Slots -> SlotStates], NEW s \in Slots, NEW pc \in PCs, Goto(s, pc)
    PROVE  slot' \in [Slots -> SlotStates]
BY DEF Goto, SlotStates

LEMMA SetStatusType ==
    ASSUME job \in [Jobs -> Rows], NEW J, NEW status \in JobStatuses, SetStatus(J, status)
    PROVE  job' \in [Jobs -> Rows]
BY DEF SetStatus, Rows

LEMMA SetChecksType ==
    ASSUME check \in [Jobs -> Checks], NEW J, NEW state \in Checks, SetChecks(J, state)
    PROVE  check' \in [Jobs -> Checks]
BY DEF SetChecks

LEMMA SlotEditType ==
    ASSUME slot \in [Slots -> SlotStates], NEW s \in Slots, NEW pc \in PCs,
           NEW J \in SUBSET Jobs
    PROVE  /\ [slot EXCEPT ![s].pc = pc, ![s].todo = J] \in [Slots -> SlotStates]
           /\ [slot EXCEPT ![s].todo = J, ![s].pc = pc] \in [Slots -> SlotStates]
           /\ [slot EXCEPT ![s].pc = pc, ![s].skips = J] \in [Slots -> SlotStates]
<1>1. slot[s] \in SlotStates
  OBVIOUS
<1>2. [slot EXCEPT ![s].pc = pc, ![s].todo = J] \in [Slots -> SlotStates]
  BY <1>1 DEF SlotStates
<1>3. [slot EXCEPT ![s].todo = J, ![s].pc = pc] \in [Slots -> SlotStates]
  BY <1>1 DEF SlotStates
<1>4. [slot EXCEPT ![s].pc = pc, ![s].skips = J] \in [Slots -> SlotStates]
  BY <1>1 DEF SlotStates
<1> QED
  BY <1>2, <1>3, <1>4

LEMMA DropType ==
    ASSUME slot \in [Slots -> SlotStates], NEW s \in Slots, NEW j
    PROVE  /\ [slot EXCEPT ![s].todo = slot[s].todo \ {j}] \in [Slots -> SlotStates]
           /\ [slot EXCEPT ![s].skips = slot[s].skips \ {j}] \in [Slots -> SlotStates]
<1>1. /\ slot[s].todo \ {j} \in SUBSET Jobs
      /\ slot[s].skips \ {j} \in SUBSET Jobs
  BY DEF SlotStates
<1>2. [slot EXCEPT ![s].todo = slot[s].todo \ {j}] \in [Slots -> SlotStates]
  BY <1>1 DEF SlotStates
<1>3. [slot EXCEPT ![s].skips = slot[s].skips \ {j}] \in [Slots -> SlotStates]
  BY <1>1 DEF SlotStates
<1> QED
  BY <1>2, <1>3

LEMMA BeginType ==
    ASSUME slot \in [Slots -> SlotStates], NEW s \in Slots, NEW k \in Kinds,
           NEW j \in Jobs, NEW pc \in PCs, Begin(s, k, j, pc)
    PROVE  slot' \in [Slots -> SlotStates]
BY NoRequestType DEF Begin, SlotStates

LEMMA ReadType ==
    ASSUME TypeOK, NEW s \in Slots, NEW pc, NEW then \in PCs, Read(s, pc, then)
    PROVE  TypeOK'
BY GotoType DEF Read, TypeOK, DB, Outside


-----------------------------------------------------------------------------
(* Type correctness, one lemma for each handler. *)

LEMMA ReplyTypes ==
    ASSUME TypeOK, NEW s \in Slots, Reply(s)
    PROVE  TypeOK'
<1>1. slot' \in [Slots -> SlotStates]
  BY NoRequestType DEF Reply, TypeOK
<1>2. Idle \in Execs
  BY NeedsAssumption DEF Idle, Execs, AnyJob
<1>3. exec' \in [Pods -> Execs]
  BY <1>2 DEF Reply, TypeOK
<1> QED
  BY <1>1, <1>3 DEF Reply, TypeOK, DB

LEMMA TriggerTypes ==
    ASSUME TypeOK, NEW s \in Slots, StartTrigger(s)
    PROVE  TypeOK'
<1> DEFINE r == [NoRequest EXCEPT !.pc = "mt_row", !.kind = "trigger", !.todo = Jobs]
<1>1. r \in SlotStates
  <2>1. "mt_row" \in PCs /\ "trigger" \in Kinds /\ Jobs \in SUBSET Jobs
    BY DEF PCs, Kinds
  <2> QED
    BY <2>1, NoRequestType DEF SlotStates
<1>2. slot' \in [Slots -> SlotStates]
  BY <1>1 DEF StartTrigger, TypeOK
<1> QED
  BY <1>2 DEF StartTrigger, TypeOK, Outside, RunStatuses

LEMMA MaterializeTypes ==
    ASSUME TypeOK, NEW s \in Slots,
           MaterializeRow(s) \/ MaterializeCheck(s) \/ MaterializeFinal(s)
    PROVE  TypeOK'
<1>1. CASE MaterializeRow(s)
  <2>1. PICK j \in slot[s].todo :
            /\ job' = [job EXCEPT ![j] = MaterialRow(j, ResetOf(slot[s].kind))]
            /\ slot' = [slot EXCEPT ![s].pc = "mt_check", ![s].cur = j, ![s].todo = @ \ {j}]
    BY <1>1 DEF MaterializeRow
  <2>2. j \in Jobs
    BY <2>1 DEF TypeOK, SlotStates
  <2>3. job' \in [Jobs -> Rows]
    BY <2>1, <2>2, MaterialTypes DEF TypeOK
  <2>4. slot' \in [Slots -> SlotStates]
    BY <2>1, <2>2 DEF TypeOK, SlotStates, PCs
  <2> QED
    BY <1>1, <2>3, <2>4 DEF MaterializeRow, TypeOK, Outside
<1>2. CASE MaterializeCheck(s)
  <2>1. slot[s].cur \in Jobs
    BY DEF TypeOK, SlotStates
  <2>2. check' \in [Jobs -> Checks]
    BY <1>2, <2>1, MaterialTypes DEF MaterializeCheck, TypeOK
  <2>3. slot' \in [Slots -> SlotStates]
    BY <1>2, GotoType DEF MaterializeCheck, TypeOK, PCs
  <2> QED
    BY <1>2, <2>2, <2>3 DEF MaterializeCheck, TypeOK, Outside
<1>3. CASE MaterializeFinal(s)
  <2>1. slot' \in [Slots -> SlotStates]
    BY <1>3, GotoType DEF MaterializeFinal, TypeOK, PCs
  <2> QED
    BY <1>3, <2>1 DEF MaterializeFinal, TypeOK, Outside, RunStatuses
<1> QED
  BY <1>1, <1>2, <1>3

LEMMA ReportTypes ==
    ASSUME TypeOK, NEW s \in Slots, NEW p \in Pods, NEW v \in Reported, Report(s, p, v)
    PROVE  TypeOK'
<1> DEFINE j     == exec[p].job
           final == IF job[j].status = "cancelled" THEN "cancelled" ELSE v
<1>1. j \in Jobs /\ final \in Reported
  BY DEF TypeOK, Execs, Reported
<1>2. final \in JobStatuses /\ final \in Verdicts
  BY <1>1 DEF Reported, JobStatuses, Verdicts
<1>3. CASE Reportable(p, j)
  <2>1. job' \in [Jobs -> Rows]
    BY <1>1, <1>2, <1>3 DEF Report, TypeOK, Rows
  <2>2. exec' \in [Pods -> Execs]
    BY <1>3 DEF Report, TypeOK, Execs
  <2> DEFINE r == [NoRequest EXCEPT !.pc = "c_check", !.kind = "complete",
                                    !.job = j, !.pod = p, !.verdict = final]
  <2>3. r \in SlotStates
    <3>1. "c_check" \in PCs /\ "complete" \in Kinds
      BY DEF PCs, Kinds
    <3> QED
      BY <3>1, <1>1, <1>2, NoRequestType DEF SlotStates
  <2>4. slot' \in [Slots -> SlotStates]
    BY <1>3, <2>3 DEF Report, TypeOK
  <2> QED
    BY <1>3, <2>1, <2>2, <2>4 DEF Report, TypeOK
<1>4. CASE ~Reportable(p, j)
  <2>1. Idle \in Execs
    BY NeedsAssumption DEF Idle, Execs, AnyJob
  <2> QED
    BY <1>4, <2>1 DEF Report, TypeOK
<1> QED
  BY <1>3, <1>4

LEMMA CompleteTypes ==
    ASSUME TypeOK, NEW s \in Slots,
           CompleteCheck(s) \/ CompleteUnlock(s) \/ CompletePending(s)
    PROVE  TypeOK'
<1>1. CASE CompleteCheck(s)
  <2>1. slot' \in [Slots -> SlotStates]
    BY <1>1, GotoType DEF CompleteCheck, TypeOK, PCs
  <2>2. check' \in [Jobs -> Checks]
    BY <1>1, CheckForType, SetChecksType DEF CompleteCheck, TypeOK
  <2> QED
    BY <1>1, <2>1, <2>2 DEF CompleteCheck, TypeOK, Outside
<1>2. CASE CompleteUnlock(s)
  <2>1. Unlocked(job, slot[s].job) \in SUBSET Jobs
    BY DEF Unlocked
  <2>2. slot' \in [Slots -> SlotStates]
    <3>1. slot' = [slot EXCEPT ![s].pc = "c_pending", ![s].todo = Unlocked(job, slot[s].job)]
      BY <1>2 DEF CompleteUnlock
    <3> QED
      BY <2>1, <3>1, SlotEditType DEF TypeOK, PCs
  <2>3. job' \in [Jobs -> Rows]
    BY <1>2 DEF CompleteUnlock, TypeOK, Rows, JobStatuses, Reasons
  <2> QED
    BY <1>2, <2>2, <2>3 DEF CompleteUnlock, TypeOK, Outside
<1>3. CASE CompletePending(s)
  <2>1. slot' \in [Slots -> SlotStates]
    <3>1. CASE Goto(s, "fz_status")
      BY <3>1, GotoType DEF TypeOK, PCs
    <3>2. CASE \E j : slot' = [slot EXCEPT ![s].todo = slot[s].todo \ {j}]
      <4>1. PICK j : slot' = [slot EXCEPT ![s].todo = slot[s].todo \ {j}]
        BY <3>2
      <4> QED
        BY <4>1, DropType DEF TypeOK
    <3> QED
      BY <1>3, <3>1, <3>2 DEF CompletePending
  <2>2. check' \in [Jobs -> Checks]
    BY <1>3, SetChecksType DEF CompletePending, TypeOK, Checks
  <2> QED
    BY <1>3, <2>1, <2>2 DEF CompletePending, TypeOK, Outside
<1> QED
  BY <1>1, <1>2, <1>3

(* Where a handler returns to. *)
LEMMA ReturnTypes ==
    ASSUME TypeOK, NEW s \in Slots
    PROVE  /\ slot[s].back \in PCs /\ slot[s].after \in PCs
           /\ slot[s].job \in Jobs /\ slot[s].cur \in Jobs
           /\ slot[s].todo \in SUBSET Jobs /\ slot[s].skips \in SUBSET Jobs
           /\ slot[s].pod \in Pods \cup {NoPod} /\ slot[s].verdict \in Verdicts
BY DEF TypeOK, SlotStates

LEMMA FinalizeTypes ==
    ASSUME TypeOK, NEW s \in Slots, Finalize(s)
    PROVE  TypeOK'
<1>1. slot[s].back \in PCs
  BY ReturnTypes
<1>2. CASE FinalizeStatus(s) \/ FinalizeRunning(s) \/ FinalizeFailed(s)
           \/ FinalizeRemaining(s) \/ FinalizeAllSkipped(s)
  <2>1. PICK pc \in PCs, then \in PCs : Read(s, pc, then)
    BY <1>1, <1>2 DEF FinalizeStatus, FinalizeRunning, FinalizeFailed,
                      FinalizeRemaining, FinalizeAllSkipped, PCs
  <2> QED
    BY <2>1, ReadType
<1>3. CASE FinalizeFail(s) \/ FinalizeSkipped(s) \/ FinalizeSuccess(s)
  <2>1. PICK pc \in PCs : Goto(s, pc)
    BY <1>1, <1>3 DEF FinalizeFail, FinalizeSkipped, FinalizeSuccess, PCs
  <2>2. slot' \in [Slots -> SlotStates]
    BY <2>1, GotoType DEF TypeOK
  <2>3. run' \in RunStatuses
    BY <1>3 DEF FinalizeFail, FinalizeSkipped, FinalizeSuccess, TypeOK, RunStatuses
  <2> QED
    BY <1>3, <2>2, <2>3 DEF FinalizeFail, FinalizeSkipped, FinalizeSuccess, TypeOK, Outside
<1>4. CASE FinalizeSkip(s)
  <2> DEFINE queued == {j \in Jobs : job[j].status = "queued"}
  <2>1. slot' = [slot EXCEPT ![s].pc = "fz_skipcheck", ![s].skips = queued]
    BY <1>4 DEF FinalizeSkip
  <2>2. slot' \in [Slots -> SlotStates]
    BY <2>1, SlotEditType DEF TypeOK, PCs
  <2>3. job' \in [Jobs -> Rows]
    <3>1. \A r \in Rows : [r EXCEPT !.status = "skipped", !.why = "upstreamFailed"] \in Rows
      BY DEF Rows, JobStatuses, Reasons
    <3> QED
      BY <1>4, <3>1 DEF FinalizeSkip, TypeOK
  <2> QED
    BY <1>4, <2>2, <2>3 DEF FinalizeSkip, TypeOK, Outside
<1>5. CASE FinalizeSkipCheck(s)
  <2>1. slot' \in [Slots -> SlotStates]
    <3>1. CASE Goto(s, slot[s].back)
      BY <1>1, <3>1, GotoType DEF TypeOK
    <3>2. CASE \E j : slot' = [slot EXCEPT ![s].skips = slot[s].skips \ {j}]
      <4>1. PICK j : slot' = [slot EXCEPT ![s].skips = slot[s].skips \ {j}]
        BY <3>2
      <4> QED
        BY <4>1, DropType DEF TypeOK
    <3> QED
      BY <1>5, <3>1, <3>2 DEF FinalizeSkipCheck
  <2>2. check' \in [Jobs -> Checks]
    BY <1>5, CheckForType, SetChecksType DEF FinalizeSkipCheck, TypeOK
  <2> QED
    BY <1>5, <2>1, <2>2 DEF FinalizeSkipCheck, TypeOK, Outside
<1> QED
  BY <1>2, <1>3, <1>4, <1>5 DEF Finalize

LEMMA ReclaimTypes ==
    ASSUME TypeOK, NEW s \in Slots, Reclaim(s)
    PROVE  TypeOK'
<1>0. /\ slot[s] \in SlotStates
      /\ {"rc_next", "rc_lost", "end", "fz_status", "fc_status"} \subseteq PCs
  BY DEF TypeOK, PCs
<1>1. CASE ReclaimTimed(s)
  <2>1. Overdue \in SUBSET Jobs
    BY DEF Overdue, Running
  <2>2. slot' = [slot EXCEPT ![s].pc = "rc_next", ![s].lap = "timed", ![s].todo = Overdue]
    BY <1>1 DEF ReclaimTimed
  <2>3. slot' \in [Slots -> SlotStates]
    BY <1>0, <2>1, <2>2 DEF TypeOK, SlotStates
  <2> QED
    BY <1>1, <2>3 DEF ReclaimTimed, TypeOK, DB, Outside
<1>2. CASE ReclaimLost(s)
  <2>1. Lost \in SUBSET Jobs
    BY DEF Lost, Running
  <2>2. slot' = [slot EXCEPT ![s].pc = "rc_next", ![s].lap = "lost", ![s].todo = Lost]
    BY <1>2 DEF ReclaimLost
  <2>3. slot' \in [Slots -> SlotStates]
    BY <1>0, <2>1, <2>2 DEF TypeOK, SlotStates
  <2> QED
    BY <1>2, <2>3 DEF ReclaimLost, TypeOK, DB, Outside
<1>3. CASE ReclaimJob(s)
  <2>1. PICK j \in slot[s].todo, pc \in {"rc_check", "rc_next"} :
            /\ IF job[j].status = "running" THEN SetStatus({j}, "failure") ELSE UNCHANGED job
            /\ slot' = [slot EXCEPT ![s].todo = slot[s].todo \ {j}, ![s].cur = j, ![s].pc = pc]
    BY <1>3 DEF ReclaimJob
  <2>2. j \in Jobs /\ slot[s].todo \ {j} \in SUBSET Jobs /\ slot[s] \in SlotStates
    BY <2>1 DEF TypeOK, SlotStates
  <2>3. pc \in PCs
    BY DEF PCs
  <2>4. slot' \in [Slots -> SlotStates]
    BY <2>1, <2>2, <2>3 DEF TypeOK, SlotStates
  <2>5. job' \in [Jobs -> Rows]
    BY <2>1, SetStatusType DEF TypeOK, JobStatuses
  <2> QED
    BY <1>3, <2>4, <2>5 DEF ReclaimJob, TypeOK, Outside
<1>4. CASE ReclaimCheck(s)
  <2>1. slot' \in [Slots -> SlotStates]
    <3>1. slot' = [slot EXCEPT ![s].pc = "fz_status", ![s].back = "rc_next"]
      BY <1>4 DEF ReclaimCheck
    <3> QED
      BY <1>0, <3>1 DEF TypeOK, SlotStates
  <2>2. check' \in [Jobs -> Checks]
    BY <1>4, CheckForType, SetChecksType DEF ReclaimCheck, TypeOK
  <2> QED
    BY <1>4, <2>1, <2>2 DEF ReclaimCheck, TypeOK, Outside
<1>5. CASE ReclaimNext(s)
  <2>1. \/ slot' = [slot EXCEPT ![s].pc = "rc_lost"]
        \/ slot' = [slot EXCEPT ![s].pc = "end"]
        \/ slot' = [slot EXCEPT ![s].pc = "fz_status", ![s].back = "fc_status"]
    BY <1>5 DEF ReclaimNext
  <2>2. slot' \in [Slots -> SlotStates]
    BY <1>0, <2>1 DEF TypeOK, SlotStates
  <2> QED
    BY <1>5, <2>2 DEF ReclaimNext, TypeOK, DB, Outside
<1> QED
  BY <1>1, <1>2, <1>3, <1>4, <1>5 DEF Reclaim

LEMMA ForceDecideType ==
    ASSUME TypeOK, NEW s \in Slots, NEW pc, NEW holds, NEW status \in Verdicts,
           NEW then \in PCs, ForceDecide(s, pc, holds, status, then)
    PROVE  TypeOK'
<1>1. slot[s] \in SlotStates
  BY DEF TypeOK
<1>2. slot' \in [Slots -> SlotStates]
  <2>1. PICK v \in Verdicts : slot' = [slot EXCEPT ![s].pc = then, ![s].verdict = v]
    BY <1>1, ReturnTypes DEF ForceDecide
  <2> QED
    BY <1>1, <2>1 DEF TypeOK, SlotStates
<1> QED
  BY <1>2 DEF ForceDecide, TypeOK, DB, Outside

LEMMA ForceTypes ==
    ASSUME TypeOK, NEW s \in Slots, ForceFinalize(s)
    PROVE  TypeOK'
<1>0. slot[s] \in SlotStates
  BY DEF TypeOK
<1>1. slot[s].after \in PCs /\ slot[s].verdict \in Verdicts
  BY ReturnTypes
<1>2. CASE ForceStatus(s) \/ ForceActive(s)
  <2>1. PICK pc \in PCs, then \in PCs : Read(s, pc, then)
    BY <1>1, <1>2 DEF ForceStatus, ForceActive, PCs
  <2> QED
    BY <2>1, ReadType
<1>3. CASE ForceFailed(s) \/ ForceCancelled(s) \/ ForceSkipped(s)
  <2>1. CASE ForceFailed(s)
    BY <2>1, ForceDecideType DEF ForceFailed, PCs, Verdicts, Reported
  <2>2. CASE ForceCancelled(s)
    BY <2>2, ForceDecideType DEF ForceCancelled, PCs, Verdicts, Reported
  <2>3. CASE ForceSkipped(s)
    BY <2>3, ForceDecideType DEF ForceSkipped, PCs, Verdicts, Reported
  <2> QED
    BY <1>3, <2>1, <2>2, <2>3
<1>4. CASE ForceWrite(s)
  <2>1. slot' \in [Slots -> SlotStates]
    <3>1. slot' = [slot EXCEPT ![s].pc = slot[s].after, ![s].verdict = "none"]
      BY <1>4 DEF ForceWrite
    <3>2. "none" \in Verdicts
      BY DEF Verdicts
    <3> QED
      BY <1>0, <1>1, <3>1, <3>2 DEF TypeOK, SlotStates
  <2>2. run' \in RunStatuses
    BY <1>1, <1>4 DEF ForceWrite, RunStatuses, Verdicts, Reported
  <2> QED
    BY <1>4, <2>1, <2>2 DEF ForceWrite, TypeOK, Outside
<1> QED
  BY <1>2, <1>3, <1>4 DEF ForceFinalize

LEMMA RerunTypes ==
    ASSUME TypeOK, NEW s \in Slots, Rerun(s)
    PROVE  TypeOK'
<1>0. /\ slot[s] \in SlotStates
      /\ {"end", "id_active", "rr_reset", "rr_names", "rj_read", "mt_row", "rc_timed"}
            \subseteq PCs
  BY DEF TypeOK, PCs
<1>1. CASE IdleStatus(s)
  <2>1. PICK then \in PCs : Read(s, "id_status", then)
    BY <1>0, <1>1 DEF IdleStatus
  <2> QED
    BY <2>1, ReadType
<1>2. CASE IdleActive(s)
  <2> DEFINE pc == IF Active(job) # {} THEN "end" ELSE ResetPC(slot[s].kind)
  <2>1. slot' = [slot EXCEPT ![s].todo = Jobs, ![s].pc = pc]
    BY <1>2, Zenon DEF IdleActive
  <2>2. pc \in PCs
    BY <1>0 DEF ResetPC
  <2>3. slot' \in [Slots -> SlotStates]
    <3> HIDE DEF pc
    <3>1. Jobs \in SUBSET Jobs
      OBVIOUS
    <3> QED
      BY <2>1, <2>2, <3>1, SlotEditType DEF TypeOK
  <2> QED
    BY <1>2, <2>3 DEF IdleActive, TypeOK, DB, Outside
<1>3. CASE RerunNames(s)
  <2>1. PICK pc \in {"end", "rr_reset"} :
            slot' = [slot EXCEPT ![s].todo = FailedJobs(job), ![s].pc = pc]
    BY <1>3 DEF RerunNames
  <2>2. FailedJobs(job) \in SUBSET Jobs
    BY DEF FailedJobs
  <2>3. slot' \in [Slots -> SlotStates]
    BY <1>0, <2>1, <2>2, SlotEditType DEF TypeOK
  <2> QED
    BY <1>3, <2>3 DEF RerunNames, TypeOK, DB, Outside
<1>4. CASE RerunReset(s)
  <2>1. slot' \in [Slots -> SlotStates]
    BY <1>0, <1>4, GotoType DEF RerunReset, TypeOK
  <2> QED
    BY <1>4, <2>1 DEF RerunReset, TypeOK, Outside, RunStatuses
<1>5. CASE RerunJobRead(s)
  <2>1. PICK pc \in {"end", "mt_row"} :
            slot' = [slot EXCEPT ![s].todo = Downstream(slot[s].job), ![s].pc = pc]
    BY <1>5 DEF RerunJobRead
  <2>2. Downstream(slot[s].job) \in SUBSET Jobs
    BY DEF Downstream
  <2>3. slot' \in [Slots -> SlotStates]
    BY <1>0, <2>1, <2>2, SlotEditType DEF TypeOK
  <2> QED
    BY <1>5, <2>3 DEF RerunJobRead, TypeOK, DB, Outside
<1>6. CASE RerunJobRun(s)
  <2>1. slot' = [slot EXCEPT ![s].pc = "rc_timed", ![s].after = "end"]
    BY <1>6 DEF RerunJobRun
  <2>2. slot' \in [Slots -> SlotStates]
    BY <1>0, <2>1 DEF TypeOK, SlotStates
  <2> QED
    BY <1>6, <2>2 DEF RerunJobRun, TypeOK, Outside, RunStatuses
<1> QED
  BY <1>1, <1>2, <1>3, <1>4, <1>5, <1>6 DEF Rerun

(* One more user request keeps the bound on their number. *)
LEMMA AskType ==
    ASSUME asks \in 0 .. MaxAsks, NEW k, Ask(k)
    PROVE  asks' \in 0 .. MaxAsks
BY OpsAssumption DEF Ask

LEMMA ArriveTypes ==
    ASSUME TypeOK, NEW s \in Slots, Arrive(s)
    PROVE  TypeOK'
<1>0. /\ AnyJob \in Jobs
      /\ {"rc_timed", "k_tx", "s_update", "p_blocked", "id_status"} \subseteq PCs
  BY NeedsAssumption DEF AnyJob, PCs
<1>1. CASE StartTrigger(s)
  BY <1>1, TriggerTypes
<1>2. CASE StartGet(s)
  <2>1. slot' \in [Slots -> SlotStates]
    BY <1>0, <1>2, BeginType DEF StartGet, TypeOK, Kinds, AllOps
  <2> QED
    BY <1>2, <2>1 DEF StartGet, TypeOK, DB, Outside
<1>3. CASE StartStale(s)
  <2>1. slot' \in [Slots -> SlotStates]
    BY <1>0, <1>3, BeginType DEF StartStale, TypeOK, Kinds, AllOps
  <2> QED
    BY <1>3, <2>1 DEF StartStale, TypeOK, DB, Outside
<1>4. CASE StartCancel(s)
  <2>1. slot' \in [Slots -> SlotStates]
    BY <1>0, <1>4, BeginType DEF StartCancel, TypeOK, Kinds, AllOps
  <2> QED
    BY <1>4, <2>1, AskType DEF StartCancel, TypeOK, DB
<1>5. ASSUME NEW k, NEW j \in Jobs, StartRerun(s, k, j)
      PROVE  TypeOK'
  <2> DEFINE r == [NoRequest EXCEPT !.pc = "rc_timed", !.kind = k, !.job = j,
                                    !.after = "id_status"]
  <2>1. k \in Kinds
    BY <1>5 DEF StartRerun, Kinds, AllOps
  <2>2. r \in SlotStates
    BY <1>0, <2>1, NoRequestType DEF SlotStates
  <2>3. slot' \in [Slots -> SlotStates]
    BY <1>5, <2>2 DEF StartRerun, TypeOK
  <2> QED
    BY <1>5, <2>3, AskType DEF StartRerun, TypeOK, DB
<1>6. ASSUME NEW j \in Jobs, StartCancelStep(s, j)
      PROVE  TypeOK'
  <2>1. slot' \in [Slots -> SlotStates]
    BY <1>0, <1>6, BeginType DEF StartCancelStep, TypeOK, Kinds, AllOps
  <2> QED
    BY <1>6, <2>1, AskType DEF StartCancelStep, TypeOK, DB
<1>7. ASSUME NEW j \in Jobs, StartPlay(s, j)
      PROVE  TypeOK'
  <2>1. slot' \in [Slots -> SlotStates]
    BY <1>0, <1>7, BeginType DEF StartPlay, TypeOK, Kinds, AllOps
  <2> QED
    BY <1>7, <2>1, AskType DEF StartPlay, TypeOK, DB
<1> QED
  BY <1>0, <1>1, <1>2, <1>3, <1>4, <1>5, <1>6, <1>7, ReportTypes DEF Arrive

LEMMA UserWritesTypes ==
    ASSUME TypeOK, NEW s \in Slots, UserWrites(s)
    PROVE  TypeOK'
<1>0. /\ slot[s] \in SlotStates /\ slot[s].job \in Jobs
      /\ {"k_check", "rc_timed", "s_check", "end", "fz_status", "p_update", "p_run",
          "p_check"} \subseteq PCs
  BY ReturnTypes DEF TypeOK, PCs
<1>1. CASE CancelTx(s)
  <2> DEFINE waiting == {j \in Jobs : job[j].status \in {"queued", "manual"}}
  <2>1. slot' = [slot EXCEPT ![s].pc = "k_check", ![s].todo = waiting \cup Running(job)]
    BY <1>1 DEF CancelTx
  <2>2. waiting \cup Running(job) \in SUBSET Jobs
    BY DEF Running
  <2>3. slot' \in [Slots -> SlotStates]
    BY <1>0, <2>1, <2>2, SlotEditType DEF TypeOK
  <2>4. job' \in [Jobs -> Rows]
    <3>1. \A r \in Rows :
            /\ [r EXCEPT !.status = "cancelled"] \in Rows
            /\ [r EXCEPT !.status = "cancelled", !.cancelReq = TRUE] \in Rows
      BY DEF Rows, JobStatuses
    <3> QED
      BY <1>1, <3>1 DEF CancelTx, TypeOK
  <2> QED
    BY <1>1, <2>3, <2>4 DEF CancelTx, TypeOK, Outside, RunStatuses
<1>2. CASE CancelCheck(s)
  <2>1. slot' \in [Slots -> SlotStates]
    <3>1. CASE Goto(s, "rc_timed")
      BY <1>0, <3>1, GotoType DEF TypeOK
    <3>2. CASE \E j : slot' = [slot EXCEPT ![s].todo = slot[s].todo \ {j}]
      <4>1. PICK j : slot' = [slot EXCEPT ![s].todo = slot[s].todo \ {j}]
        BY <3>2
      <4> QED
        BY <4>1, DropType DEF TypeOK
    <3> QED
      BY <1>2, <3>1, <3>2 DEF CancelCheck
  <2>2. check' \in [Jobs -> Checks]
    BY <1>2, CheckForType, SetChecksType DEF CancelCheck, TypeOK
  <2> QED
    BY <1>2, <2>1, <2>2 DEF CancelCheck, TypeOK, Outside
<1>3. CASE CancelStepUpdate(s)
  <2>1. slot' \in [Slots -> SlotStates]
    BY <1>0, <1>3, GotoType DEF CancelStepUpdate, TypeOK
  <2>2. job' \in [Jobs -> Rows]
    <3>1. \/ job' = job
          \/ job' = [job EXCEPT ![slot[s].job].status = "cancelled",
                                ![slot[s].job].cancelReq = TRUE]
      BY <1>3 DEF CancelStepUpdate
    <3>2. job[slot[s].job] \in Rows /\ "cancelled" \in JobStatuses
      BY <1>0 DEF TypeOK, JobStatuses
    <3> QED
      BY <1>0, <3>1, <3>2 DEF TypeOK, Rows
  <2> QED
    BY <1>3, <2>1, <2>2 DEF CancelStepUpdate, TypeOK, Outside
<1>4. CASE CancelStepCheck(s)
  <2>1. slot' \in [Slots -> SlotStates]
    BY <1>0, <1>4, GotoType DEF CancelStepCheck, TypeOK
  <2>2. check' \in [Jobs -> Checks]
    BY <1>4, CheckForType, SetChecksType DEF CancelStepCheck, TypeOK
  <2> QED
    BY <1>4, <2>1, <2>2 DEF CancelStepCheck, TypeOK, Outside
<1>5. CASE PlayBlocked(s)
  <2>1. PICK then \in PCs : Read(s, "p_blocked", then)
    BY <1>0, <1>5 DEF PlayBlocked
  <2> QED
    BY <2>1, ReadType
<1>6. CASE PlayUpdate(s)
  <2>1. slot' \in [Slots -> SlotStates]
    BY <1>0, <1>6, GotoType DEF PlayUpdate, TypeOK
  <2>2. job' \in [Jobs -> Rows]
    <3>1. \/ job' = job
          \/ job' = [job EXCEPT ![slot[s].job].status = "queued",
                                ![slot[s].job].why = "none",
                                ![slot[s].job].holder = NoPod,
                                ![slot[s].job].overdue = FALSE]
      BY <1>6 DEF PlayUpdate
    <3>2. job[slot[s].job] \in Rows /\ "queued" \in JobStatuses /\ "none" \in Reasons
      BY <1>0 DEF TypeOK, JobStatuses, Reasons
    <3> QED
      BY <1>0, <3>1, <3>2 DEF TypeOK, Rows
  <2> QED
    BY <1>6, <2>1, <2>2 DEF PlayUpdate, TypeOK, Outside
<1>7. CASE PlayRun(s)
  <2>1. slot' \in [Slots -> SlotStates]
    BY <1>0, <1>7, GotoType DEF PlayRun, TypeOK
  <2> QED
    BY <1>7, <2>1 DEF PlayRun, TypeOK, Outside, RunStatuses
<1>8. CASE PlayCheck(s)
  <2>1. slot' \in [Slots -> SlotStates]
    BY <1>0, <1>8, GotoType DEF PlayCheck, TypeOK
  <2>2. check' \in [Jobs -> Checks]
    BY <1>8, SetChecksType DEF PlayCheck, TypeOK, Checks
  <2> QED
    BY <1>8, <2>1, <2>2 DEF PlayCheck, TypeOK, Outside
<1> QED
  BY <1>1, <1>2, <1>3, <1>4, <1>5, <1>6, <1>7, <1>8 DEF UserWrites

LEMMA IdleType == Idle \in Execs
BY NeedsAssumption DEF Idle, Execs, AnyJob

LEMMA PodTypes ==
    ASSUME TypeOK, NEW p \in Pods, Pod(p)
    PROVE  TypeOK'
<1>1. ASSUME NEW j \in Jobs, Claim(p, j)
      PROVE  TypeOK'
  <2>1. job' \in [Jobs -> Rows]
    <3>1. job[j] \in Rows /\ "running" \in JobStatuses
      BY DEF TypeOK, JobStatuses
    <3>2. job' = [job EXCEPT ![j].status = "running", ![j].holder = p,
                             ![j].cancelReq = FALSE, ![j].overdue = FALSE]
      BY <1>1 DEF Claim
    <3> QED
      BY <3>1, <3>2 DEF TypeOK, Rows
  <2>2. exec' \in [Pods -> Execs]
    BY <1>1 DEF Claim, TypeOK, Execs
  <2> QED
    BY <1>1, <2>1, <2>2 DEF Claim, TypeOK
<1>2. CASE StartJob(p)
  <2>1. exec[p].job \in Jobs
    BY DEF TypeOK, Execs
  <2>2. job' \in [Jobs -> Rows]
    <3>1. job[exec[p].job] \in Rows /\ "running" \in JobStatuses
      BY <2>1 DEF TypeOK, JobStatuses
    <3>2. job' = [job EXCEPT ![exec[p].job].status = "running"]
      BY <1>2 DEF StartJob
    <3> QED
      BY <2>1, <3>1, <3>2 DEF TypeOK, Rows
  <2> QED
    BY <1>2, <2>2 DEF StartJob, TypeOK
<1>3. CASE Restart(p)
  BY <1>3, IdleType DEF Restart, TypeOK
<1>4. CASE Silence(p) \/ Heartbeat(p)
  BY <1>4 DEF Silence, Heartbeat, TypeOK
<1> QED
  BY <1>1, <1>2, <1>3, <1>4 DEF Pod

LEMMA FaultTypes ==
    ASSUME TypeOK
    PROVE  /\ \A s \in Slots : Crash(s) => TypeOK'
           /\ \A j \in Jobs : Overrun(j) => TypeOK'
<1>1. ASSUME NEW s \in Slots, Crash(s)
      PROVE  TypeOK'
  <2>1. exec' \in [Pods -> Execs]
    BY <1>1, IdleType DEF Crash, TypeOK
  <2>2. slot' \in [Slots -> SlotStates]
    BY <1>1, NoRequestType DEF Crash, TypeOK
  <2> QED
    BY <1>1, <2>1, <2>2 DEF Crash, TypeOK, DB
<1>2. ASSUME NEW j \in Jobs, Overrun(j)
      PROVE  TypeOK'
  <2>1. job' \in [Jobs -> Rows]
    BY <1>2 DEF Overrun, TypeOK, Rows
  <2> QED
    BY <1>2, <2>1 DEF Overrun, TypeOK
<1> QED
  BY <1>1, <1>2

LEMMA StepTypes ==
    ASSUME TypeOK, NEW s \in Slots, Step(s)
    PROVE  TypeOK'
BY MaterializeTypes, CompleteTypes, FinalizeTypes, ReclaimTypes, ForceTypes,
   RerunTypes, UserWritesTypes, ReplyTypes DEF Step

LEMMA InitTypes == Init => TypeOK
<1> SUFFICES ASSUME Init
             PROVE  TypeOK
  OBVIOUS
<1>1. NewRow("absent", "none") \in Rows
  BY NewRowType DEF JobStatuses, Reasons
<1>2. asks \in 0 .. MaxAsks
  BY OpsAssumption DEF Init
<1> QED
  BY <1>1, <1>2, IdleType, NoRequestType DEF Init, TypeOK, RunStatuses, Checks

LEMMA NextTypes ==
    ASSUME TypeOK, [Next]_vars
    PROVE  TypeOK'
<1>1. CASE Next
  BY <1>1, ArriveTypes, StepTypes, PodTypes, FaultTypes DEF Next
<1>2. CASE UNCHANGED vars
  BY <1>2 DEF vars, TypeOK
<1> QED
  BY <1>1, <1>2

(* The database rows, the handlers' local variables and the processes of   *)
(* the runners only ever hold values of their types: every statement of    *)
(* every handler writes a status the schema and the UI know.               *)
THEOREM TypeCorrect == Spec => []TypeOK
<1>1. TypeOK /\ [Next]_vars => TypeOK'
  BY NextTypes
<1> QED
  BY InitTypes, <1>1, PTL DEF Spec

-----------------------------------------------------------------------------
(* Coherence of the rows. *)

(* RowsAreCoherent for one row. *)
Coherent(r) ==
    /\ r.status \in {"absent", "queued", "manual", "skipped"} => r.holder = NoPod
    /\ r.status = "running" => r.holder \in Pods
    /\ r.cancelReq => r.status = "cancelled"

RowsInv == TypeOK /\ RowsAreCoherent

LEMMA CoherentRows == RowsAreCoherent <=> \A j \in Jobs : Coherent(job[j])
BY DEF RowsAreCoherent, Coherent

(* What a statement may do to a coherent row. *)
LEMMA CoherentEdits ==
    ASSUME NEW r \in Rows, Coherent(r)
    PROVE  /\ r.status = "queued" =>
                Coherent([r EXCEPT !.status = "skipped", !.why = "upstreamFailed"])
           /\ r.status = "running" => Coherent([r EXCEPT !.status = "failure"])
           /\ r.status \in {"queued", "manual"} => Coherent([r EXCEPT !.status = "cancelled"])
           /\ Coherent([r EXCEPT !.status = "cancelled", !.cancelReq = TRUE])
           /\ r.status = "skipped" =>
                Coherent([r EXCEPT !.status = "queued", !.why = "none",
                                   !.holder = NoPod, !.overdue = FALSE])
           /\ r.holder # NoPod /\ r.status \in {"queued", "running"} =>
                Coherent([r EXCEPT !.status = "running"])
           /\ \A v \in Reported : r.status = "running" => Coherent([r EXCEPT !.status = v])
           /\ r.status = "cancelled" => Coherent([r EXCEPT !.status = "cancelled"])
           /\ Coherent([r EXCEPT !.overdue = TRUE])
BY DEF Coherent, Rows, Reported

LEMMA MaterialRowCoherent == \A j, reset : Coherent(MaterialRow(j, reset))
<1>1. \A j, reset : MaterialStatus(j, reset) \in {"queued", "manual", "skipped"}
  BY DEF MaterialStatus
<1> QED
  BY <1>1 DEF Coherent, MaterialRow, NewRow

(* The handler steps that write job_runs. *)
LEMMA WritersOfRows ==
    ASSUME NEW s \in Slots, Step(s)
    PROVE  \/ job' = job
           \/ MaterializeRow(s) \/ CompleteUnlock(s) \/ FinalizeSkip(s)
           \/ ReclaimJob(s) \/ CancelTx(s) \/ CancelStepUpdate(s) \/ PlayUpdate(s)
<1>1. CASE MaterializeCheck(s) \/ MaterializeFinal(s) \/ CompleteCheck(s)
           \/ CompletePending(s) \/ Rerun(s) \/ Reply(s)
  BY <1>1 DEF MaterializeCheck, MaterializeFinal, CompleteCheck, CompletePending,
        Rerun, IdleStatus, IdleActive, RerunNames, RerunReset, RerunJobRead, RerunJobRun,
        Reply, Read, DB
<1>2. CASE Finalize(s) /\ ~FinalizeSkip(s)
  BY <1>2 DEF Finalize, FinalizeStatus, FinalizeRunning, FinalizeFailed,
        FinalizeFail, FinalizeSkipCheck, FinalizeRemaining, FinalizeAllSkipped,
        FinalizeSkipped, FinalizeSuccess, Read, DB
<1>3. CASE Reclaim(s) /\ ~ReclaimJob(s)
  BY <1>3 DEF Reclaim, ReclaimTimed, ReclaimLost, ReclaimCheck, ReclaimNext, DB
<1>4. CASE ForceFinalize(s)
  BY <1>4 DEF ForceFinalize, ForceStatus, ForceActive, ForceFailed,
        ForceCancelled, ForceSkipped, ForceDecide, ForceWrite, Read, DB
<1>5. CASE CancelCheck(s) \/ CancelStepCheck(s) \/ PlayBlocked(s) \/ PlayRun(s)
           \/ PlayCheck(s)
  BY <1>5 DEF CancelCheck, CancelStepCheck, PlayBlocked, PlayRun, PlayCheck, Read, DB
<1> QED
  BY <1>1, <1>2, <1>3, <1>4, <1>5 DEF Step, UserWrites

(* A statement of a handler. *)
LEMMA StepKeepsRows ==
    ASSUME RowsInv, NEW s \in Slots, Step(s)
    PROVE  RowsAreCoherent'
<1>0. \A j \in Jobs : job[j] \in Rows /\ Coherent(job[j])
  BY CoherentRows DEF RowsInv, TypeOK
<1>1. SUFFICES ASSUME NEW k \in Jobs
               PROVE  Coherent(job'[k])
  BY DEF RowsAreCoherent, Coherent
<1>2. CASE UNCHANGED job
  BY <1>0, <1>2
<1>3. CASE MaterializeRow(s)
  <2>1. PICK j : job' = [job EXCEPT ![j] = MaterialRow(j, ResetOf(slot[s].kind))]
    BY <1>3 DEF MaterializeRow
  <2> QED
    BY <1>0, <2>1, MaterialRowCoherent DEF RowsInv, TypeOK
<1>4. CASE CompleteUnlock(s)
  <2>1. \A j \in Unlocked(job, slot[s].job) : job[j].status = "skipped"
    BY DEF Unlocked
  <2> QED
    BY <1>0, <1>4, <2>1, CoherentEdits DEF CompleteUnlock
<1>5. CASE FinalizeSkip(s)
  BY <1>0, <1>5, CoherentEdits DEF FinalizeSkip
<1>6. CASE ReclaimJob(s)
  <2>1. PICK j : IF job[j].status = "running" THEN SetStatus({j}, "failure")
                                              ELSE UNCHANGED job
    BY <1>6 DEF ReclaimJob
  <2> QED
    BY <1>0, <2>1, CoherentEdits DEF SetStatus
<1>7. CASE CancelTx(s)
  BY <1>0, <1>7, CoherentEdits DEF CancelTx
<1>8. CASE CancelStepUpdate(s)
  <2>1. \/ job' = job
        \/ job' = [job EXCEPT ![slot[s].job].status = "cancelled",
                              ![slot[s].job].cancelReq = TRUE]
    BY <1>8 DEF CancelStepUpdate
  <2>2. job'[k] = job[k] \/ job'[k].status = "cancelled"
    BY <1>0, <2>1 DEF RowsInv, TypeOK, Rows
  <2> QED
    BY <1>0, <2>2 DEF Coherent
<1>9. CASE PlayUpdate(s)
  <2>1. \/ job' = job
        \/ /\ job[slot[s].job].status = "manual"
           /\ job' = [job EXCEPT ![slot[s].job].status = "queued",
                                 ![slot[s].job].why = "none",
                                 ![slot[s].job].holder = NoPod,
                                 ![slot[s].job].overdue = FALSE]
    BY <1>9 DEF PlayUpdate
  <2>2. \/ job'[k] = job[k]
        \/ /\ job[k].status = "manual" /\ job'[k].status = "queued"
           /\ job'[k].holder = NoPod /\ job'[k].cancelReq = job[k].cancelReq
    BY <1>0, <2>1 DEF RowsInv, TypeOK, Rows
  <2> QED
    BY <1>0, <2>2 DEF Coherent
<1> QED
  BY <1>2, <1>3, <1>4, <1>5, <1>6, <1>7, <1>8, <1>9, WritersOfRows

(* A runner's report, and the start of any other request. *)
LEMMA ArriveKeepsRows ==
    ASSUME RowsInv, NEW s \in Slots, Arrive(s)
    PROVE  RowsAreCoherent'
<1>0. \A j \in Jobs : job[j] \in Rows /\ Coherent(job[j])
  BY CoherentRows DEF RowsInv, TypeOK
<1>1. SUFFICES ASSUME NEW k \in Jobs
               PROVE  Coherent(job'[k])
  BY DEF RowsAreCoherent, Coherent
<1>2. CASE UNCHANGED job
  BY <1>0, <1>2
<1>3. ASSUME NEW p \in Pods, NEW v \in Reported, Report(s, p, v)
      PROVE  Coherent(job'[k])
  <2> DEFINE j     == exec[p].job
             final == IF job[j].status = "cancelled" THEN "cancelled" ELSE v
  <2>1. CASE ~Reportable(p, j)
    BY <1>2, <1>3, <2>1 DEF Report
  <2>2. CASE Reportable(p, j)
    <3>1. job' = [job EXCEPT ![j].status = final]
      BY <1>3, <2>2 DEF Report
    <3>2. job[j].status \in {"running", "cancelled"}
      BY <2>2 DEF Reportable
    <3> QED
      BY <1>0, <3>1, <3>2, CoherentEdits DEF RowsInv, TypeOK
  <2> QED
    BY <2>1, <2>2
<1>4. ASSUME ~ \E p \in Pods, v \in Reported : Report(s, p, v)
      PROVE  UNCHANGED job
  BY <1>4 DEF Arrive, StartTrigger, StartGet, StartStale, StartCancel, StartRerun,
              StartCancelStep, StartPlay, DB
<1> QED
  BY <1>2, <1>3, <1>4

(* A runner process. *)
LEMMA PodKeepsRows ==
    ASSUME RowsInv, NEW p \in Pods, Pod(p)
    PROVE  RowsAreCoherent'
<1>0. \A j \in Jobs : job[j] \in Rows /\ Coherent(job[j])
  BY CoherentRows DEF RowsInv, TypeOK
<1>1. SUFFICES ASSUME NEW k \in Jobs
               PROVE  Coherent(job'[k])
  BY DEF RowsAreCoherent, Coherent
<1>2. ASSUME NEW j \in Jobs, Claim(p, j)
      PROVE  Coherent(job'[k])
  <2>1. job' = [job EXCEPT ![j].status = "running", ![j].holder = p,
                           ![j].cancelReq = FALSE, ![j].overdue = FALSE]
    BY <1>2 DEF Claim
  <2>2. CASE k = j
    <3>1. job'[k] = [job[j] EXCEPT !.status = "running", !.holder = p,
                                   !.cancelReq = FALSE, !.overdue = FALSE]
      BY <2>1, <2>2 DEF RowsInv, TypeOK
    <3>2. /\ job'[k].status = "running" /\ job'[k].holder = p
          /\ job'[k].cancelReq = FALSE
      BY <1>0, <3>1 DEF Rows
    <3> QED
      BY <3>2 DEF Coherent
  <2>3. CASE k # j
    BY <1>0, <2>1, <2>3 DEF RowsInv, TypeOK
  <2> QED
    BY <2>2, <2>3
<1>3. CASE StartJob(p)
  <2> DEFINE j == exec[p].job
  <2>1. /\ job[j].holder # NoPod
        /\ job[j].status \in {"queued", "running"}
        /\ job' = [job EXCEPT ![j].status = "running"]
    BY <1>3 DEF StartJob, Names
  <2> HIDE DEF j
  <2>2. CASE k = j
    <3>1. job'[k] = [job[k] EXCEPT !.status = "running"]
      BY <2>1, <2>2 DEF RowsInv, TypeOK
    <3> QED
      BY <1>0, <2>1, <2>2, <3>1, CoherentEdits
  <2>3. CASE k # j
    BY <1>0, <2>1, <2>3 DEF RowsInv, TypeOK
  <2> QED
    BY <2>2, <2>3
<1>4. CASE Restart(p) \/ Silence(p) \/ Heartbeat(p)
  BY <1>0, <1>4 DEF Restart, Silence, Heartbeat
<1> QED
  BY <1>2, <1>3, <1>4 DEF Pod

LEMMA FaultKeepsRows ==
    ASSUME RowsInv
    PROVE  /\ \A s \in Slots : Crash(s) => RowsAreCoherent'
           /\ \A j \in Jobs : Overrun(j) => RowsAreCoherent'
<1>0. \A j \in Jobs : job[j] \in Rows /\ Coherent(job[j])
  BY CoherentRows DEF RowsInv, TypeOK
<1>1. ASSUME NEW s \in Slots, Crash(s)
      PROVE  RowsAreCoherent'
  BY <1>1 DEF Crash, DB, RowsAreCoherent, RowsInv
<1>2. ASSUME NEW j \in Jobs, Overrun(j)
      PROVE  RowsAreCoherent'
  <2>1. \A k \in Jobs : Coherent(job'[k])
    BY <1>0, <1>2, CoherentEdits DEF Overrun, RowsInv, TypeOK
  <2> QED
    BY <2>1 DEF RowsAreCoherent, Coherent
<1> QED
  BY <1>1, <1>2

LEMMA NextKeepsRows ==
    ASSUME RowsInv, [Next]_vars
    PROVE  RowsInv'
<1>1. TypeOK'
  BY NextTypes DEF RowsInv
<1>2. RowsAreCoherent'
  <2>1. CASE Next
    BY <2>1, ArriveKeepsRows, StepKeepsRows, PodKeepsRows, FaultKeepsRows DEF Next
  <2>2. CASE UNCHANGED vars
    BY <2>2 DEF vars, RowsAreCoherent, RowsInv
  <2> QED
    BY <2>1, <2>2
<1> QED
  BY <1>1, <1>2 DEF RowsInv

LEMMA InitRows == Init => RowsInv
BY InitTypes, PodAssumption DEF Init, RowsInv, RowsAreCoherent, NewRow

(* Whatever requests, runners, timeouts and crashes interleave, a row that *)
(* waits names no runner, a running row names one, and only a cancelled    *)
(* row carries a cancel request.                                           *)
THEOREM RowsCoherent == Spec => []RowsAreCoherent
<1>1. RowsInv /\ [Next]_vars => RowsInv'
  BY NextKeepsRows
<1>2. RowsInv => RowsAreCoherent
  BY DEF RowsInv
<1> QED
  BY InitRows, <1>1, <1>2, PTL DEF Spec

-----------------------------------------------------------------------------
(* How the status of a job changes. *)

(* The changes of a job's status other than by materialising it again. *)
Moves == {<<"queued", "running">>, <<"queued", "skipped">>, <<"queued", "cancelled">>,
          <<"manual", "queued">>, <<"manual", "cancelled">>, <<"skipped", "queued">>,
          <<"running", "success">>, <<"running", "failure">>, <<"running", "cancelled">>}

Moved(k) == job'[k].status # job[k].status

LegalMove(k) ==
    \/ ~Moved(k)
    \/ <<job[k].status, job'[k].status>> \in Moves
    \/ \E s \in Slots : slot[s].pc = "mt_row" /\ k \in slot[s].todo

LEMMA StepMoves ==
    ASSUME TypeOK, NEW s \in Slots, Step(s), NEW k \in Jobs
    PROVE  LegalMove(k)
<1>0. job \in [Jobs -> Rows]
  BY DEF TypeOK
<1>1. CASE job' = job
  BY <1>1 DEF LegalMove, Moved
<1>2. CASE MaterializeRow(s)
  <2>1. PICK j \in slot[s].todo : job' = [job EXCEPT ![j] = MaterialRow(j, ResetOf(slot[s].kind))]
    BY <1>2 DEF MaterializeRow
  <2>2. slot[s].pc = "mt_row"
    BY <1>2 DEF MaterializeRow, At
  <2>3. k # j => job'[k] = job[k]
    BY <1>0, <2>1
  <2> QED
    BY <2>1, <2>2, <2>3 DEF LegalMove, Moved
<1>3. CASE CompleteUnlock(s)
  <2>1. job'[k] = job[k] \/ (job[k].status = "skipped" /\ job'[k].status = "queued")
    BY <1>0, <1>3 DEF CompleteUnlock, Unlocked, Rows
  <2> QED
    BY <2>1 DEF LegalMove, Moved, Moves
<1>4. CASE FinalizeSkip(s)
  <2>1. job'[k] = job[k] \/ (job[k].status = "queued" /\ job'[k].status = "skipped")
    BY <1>0, <1>4 DEF FinalizeSkip, Rows
  <2> QED
    BY <2>1 DEF LegalMove, Moved, Moves
<1>5. CASE ReclaimJob(s)
  <2>1. job'[k] = job[k] \/ (job[k].status = "running" /\ job'[k].status = "failure")
    BY <1>0, <1>5 DEF ReclaimJob, SetStatus, Rows
  <2> QED
    BY <2>1 DEF LegalMove, Moved, Moves
<1>6. CASE CancelTx(s)
  <2>1. \/ job'[k] = job[k]
        \/ /\ job[k].status \in {"queued", "manual", "running"}
           /\ job'[k].status = "cancelled"
    BY <1>0, <1>6 DEF CancelTx, Running, Rows
  <2> QED
    BY <2>1 DEF LegalMove, Moved, Moves
<1>7. CASE CancelStepUpdate(s)
  <2>1. \/ job' = job
        \/ /\ job[slot[s].job].status = "running"
           /\ job' = [job EXCEPT ![slot[s].job].status = "cancelled",
                                 ![slot[s].job].cancelReq = TRUE]
    BY <1>7 DEF CancelStepUpdate
  <2>2. job'[k] = job[k] \/ (job[k].status = "running" /\ job'[k].status = "cancelled")
    BY <1>0, <2>1 DEF Rows
  <2> QED
    BY <2>2 DEF LegalMove, Moved, Moves
<1>8. CASE PlayUpdate(s)
  <2>1. \/ job' = job
        \/ /\ job[slot[s].job].status = "manual"
           /\ job' = [job EXCEPT ![slot[s].job].status = "queued",
                                 ![slot[s].job].why = "none",
                                 ![slot[s].job].holder = NoPod,
                                 ![slot[s].job].overdue = FALSE]
    BY <1>8 DEF PlayUpdate
  <2>2. job'[k] = job[k] \/ (job[k].status = "manual" /\ job'[k].status = "queued")
    BY <1>0, <2>1 DEF Rows
  <2> QED
    BY <2>2 DEF LegalMove, Moved, Moves
<1> QED
  BY <1>1, <1>2, <1>3, <1>4, <1>5, <1>6, <1>7, <1>8, WritersOfRows

LEMMA NextMoves ==
    ASSUME TypeOK, [Next]_vars, NEW k \in Jobs
    PROVE  LegalMove(k)
<1>0. job \in [Jobs -> Rows]
  BY DEF TypeOK
<1>1. CASE job' = job
  BY <1>1 DEF LegalMove, Moved
<1>2. ASSUME NEW s \in Slots, NEW p \in Pods, NEW v \in Reported, Report(s, p, v)
      PROVE  LegalMove(k)
  <2> DEFINE j     == exec[p].job
             final == IF job[j].status = "cancelled" THEN "cancelled" ELSE v
  <2>1. CASE ~Reportable(p, j)
    BY <1>1, <1>2, <2>1 DEF Report
  <2>2. CASE Reportable(p, j)
    <3>1. job' = [job EXCEPT ![j].status = final]
      BY <1>2, <2>2 DEF Report
    <3>2. job[j].status \in {"running", "cancelled"}
      BY <2>2 DEF Reportable
    <3>3. \/ job'[k].status = job[k].status
          \/ job[k].status = "running" /\ job'[k].status \in Reported
      BY <1>0, <3>1, <3>2 DEF Rows
    <3> QED
      BY <3>3 DEF LegalMove, Moved, Moves, Reported
  <2> QED
    BY <2>1, <2>2
<1>3. ASSUME NEW p \in Pods, NEW j \in Jobs, Claim(p, j)
      PROVE  LegalMove(k)
  <2>1. /\ job[j].status = "queued"
        /\ job' = [job EXCEPT ![j].status = "running", ![j].holder = p,
                              ![j].cancelReq = FALSE, ![j].overdue = FALSE]
    BY <1>3 DEF Claim, Runnable
  <2>2. job'[k] = job[k] \/ (job[k].status = "queued" /\ job'[k].status = "running")
    BY <1>0, <2>1 DEF Rows
  <2> QED
    BY <2>2 DEF LegalMove, Moved, Moves
<1>4. ASSUME NEW p \in Pods, StartJob(p)
      PROVE  LegalMove(k)
  <2> DEFINE j == exec[p].job
  <2>1. /\ job[j].status \in {"queued", "running"}
        /\ job' = [job EXCEPT ![j].status = "running"]
    BY <1>4 DEF StartJob
  <2>2. \/ job'[k] = job[k]
        \/ job[k].status \in {"queued", "running"} /\ job'[k].status = "running"
    BY <1>0, <2>1 DEF Rows
  <2> QED
    BY <2>2 DEF LegalMove, Moved, Moves
<1>5. ASSUME NEW j \in Jobs, Overrun(j)
      PROVE  LegalMove(k)
  <2>1. job'[k].status = job[k].status
    BY <1>0, <1>5 DEF Overrun, Rows
  <2> QED
    BY <2>1 DEF LegalMove, Moved
<1>6. ASSUME NEW p \in Pods, Pod(p)
      PROVE  LegalMove(k)
  BY <1>1, <1>3, <1>4, <1>6 DEF Pod, Restart, Silence, Heartbeat
<1>7. ASSUME NEW s \in Slots, Arrive(s)
      PROVE  LegalMove(k)
  BY <1>1, <1>2, <1>7 DEF Arrive, StartTrigger, StartGet, StartStale, StartCancel,
        StartRerun, StartCancelStep, StartPlay, DB
<1>8. CASE UNCHANGED vars
  BY <1>1, <1>8 DEF vars
<1>9. ASSUME NEW s \in Slots, Crash(s)
      PROVE  LegalMove(k)
  BY <1>1, <1>9 DEF Crash, DB
<1> QED
  BY <1>5, <1>6, <1>7, <1>8, <1>9, StepMoves DEF Next

(* A job that succeeded or failed keeps its outcome until a re-run         *)
(* materialises it again: no late report, timeout, cancellation or reclaim *)
(* of any request changes it.                                              *)
THEOREM OutcomesFinal == Spec => OutcomeIsFinal
<1>1. TypeOK /\ [Next]_vars => [OutcomeStep]_vars
  <2> SUFFICES ASSUME TypeOK, [Next]_vars
               PROVE  OutcomeStep
    OBVIOUS
  <2>1. \A k \in Jobs : LegalMove(k)
    BY NextMoves
  <2> QED
    BY <2>1 DEF OutcomeStep, LegalMove, Moved, Moves
<1> QED
  BY <1>1, TypeCorrect, PTL DEF Spec, OutcomeIsFinal

(* No statement of a handler makes a running job successful. *)
LEMMA StepNoSuccess ==
    ASSUME TypeOK, NEW s \in Slots, Step(s), NEW k \in Jobs, job[k].status = "running"
    PROVE  job'[k].status # "success"
<1>0. job \in [Jobs -> Rows]
  BY DEF TypeOK
<1>1. CASE MaterializeRow(s)
  <2>1. PICK j \in slot[s].todo : job' = [job EXCEPT ![j] = MaterialRow(j, ResetOf(slot[s].kind))]
    BY <1>1 DEF MaterializeRow
  <2>2. \A reset : MaterialRow(j, reset).status # "success"
    BY DEF MaterialRow, MaterialStatus, NewRow
  <2> QED
    BY <1>0, <2>1, <2>2
<1>2. CASE CompleteUnlock(s) \/ FinalizeSkip(s)
  <2>1. CASE CompleteUnlock(s)
    BY <1>0, <2>1 DEF CompleteUnlock, Unlocked, Rows
  <2>2. CASE FinalizeSkip(s)
    BY <1>0, <2>2 DEF FinalizeSkip, Rows
  <2> QED
    BY <1>2, <2>1, <2>2
<1>5. CASE ReclaimJob(s)
  BY <1>0, <1>5 DEF ReclaimJob, SetStatus, Rows
<1>6. CASE CancelTx(s)
  BY <1>0, <1>6 DEF CancelTx, Running, Rows
<1>3. CASE CancelStepUpdate(s)
  <2>1. \/ job' = job
        \/ job' = [job EXCEPT ![slot[s].job].status = "cancelled",
                              ![slot[s].job].cancelReq = TRUE]
    BY <1>3 DEF CancelStepUpdate
  <2> QED
    BY <1>0, <2>1 DEF Rows
<1>4. CASE PlayUpdate(s)
  <2>1. \/ job' = job
        \/ job' = [job EXCEPT ![slot[s].job].status = "queued",
                              ![slot[s].job].why = "none",
                              ![slot[s].job].holder = NoPod,
                              ![slot[s].job].overdue = FALSE]
    BY <1>4 DEF PlayUpdate
  <2> QED
    BY <1>0, <2>1 DEF Rows
<1> QED
  BY <1>1, <1>2, <1>3, <1>4, <1>5, <1>6, WritersOfRows

(* When no two processes share a token, a running job becomes successful   *)
(* only by the report of the process that claimed it, of that attempt.     *)
THEOREM VerdictsFromHolder ==
    ASSUME \A p, q \in Pods : RunnerOf[p] = RunnerOf[q] => p = q
    PROVE  Spec => VerdictFromHolder
<1>1. RowsInv /\ [Next]_vars => [VerdictStep]_vars
  <2> SUFFICES ASSUME RowsInv, [Next]_vars, NEW k \in Jobs,
                      job[k].status = "running", job'[k].status = "success"
               PROVE  \E p \in Pods : /\ p = job[k].holder
                                      /\ exec[p].phase = "run" /\ exec[p].job = k
                                      /\ exec'[p].phase = "report"
    BY DEF VerdictStep
  <2>0. job \in [Jobs -> Rows] /\ exec \in [Pods -> Execs] /\ job[k].holder \in Pods
    BY DEF RowsInv, TypeOK, RowsAreCoherent
  <2>1. PICK s \in Slots, p \in Pods, v \in Reported : Report(s, p, v)
    <3>1. \A p \in Pods : ~Pod(p)
      <4> SUFFICES ASSUME NEW p \in Pods, Pod(p)
                   PROVE  FALSE
        OBVIOUS
      <4>1. ASSUME NEW j \in Jobs, Claim(p, j)
            PROVE  FALSE
        <5>1. job' = [job EXCEPT ![j].status = "running", ![j].holder = p,
                                 ![j].cancelReq = FALSE, ![j].overdue = FALSE]
          BY <4>1 DEF Claim
        <5> QED
          BY <2>0, <5>1 DEF Rows
      <4>2. CASE StartJob(p)
        <5>1. job' = [job EXCEPT ![exec[p].job].status = "running"]
          BY <4>2 DEF StartJob
        <5> QED
          BY <2>0, <5>1 DEF Rows
      <4> QED
        BY <4>1, <4>2 DEF Pod, Restart, Silence, Heartbeat
    <3>2. \A j \in Jobs : ~Overrun(j)
      BY <2>0 DEF Overrun, Rows
    <3>3. \A s \in Slots : ~Step(s) /\ ~Crash(s)
      BY StepNoSuccess DEF Crash, DB, RowsInv
    <3>4. PICK s \in Slots : Arrive(s)
      BY <3>1, <3>2, <3>3 DEF Next, vars
    <3> QED
      BY <3>4 DEF Arrive, StartTrigger, StartGet, StartStale, StartCancel, StartRerun,
                  StartCancelStep, StartPlay, DB
  <2> DEFINE j == exec[p].job
  <2>2. Reportable(p, j) /\ exec[p].phase = "run"
    BY <2>1 DEF Report
  <2>3. /\ job' = [job EXCEPT ![j].status = IF job[j].status = "cancelled" THEN "cancelled" ELSE v]
        /\ exec' = [exec EXCEPT ![p].phase = "report"]
    BY <2>1, <2>2 DEF Report
  <2>4. j = k
    BY <2>0, <2>3
  <2>5. p = job[k].holder
    BY <2>0, <2>2, <2>4 DEF Reportable, Names
  <2>6. exec'[p].phase = "report"
    BY <2>0, <2>3 DEF Execs
  <2> QED
    BY <2>2, <2>4, <2>5, <2>6
<1>2. RowsInv /\ [Next]_vars => RowsInv'
  BY NextKeepsRows
<1> QED
  BY InitRows, <1>1, <1>2, PTL DEF Spec, VerdictFromHolder

-----------------------------------------------------------------------------
(* Where the handlers are. *)

MtPCs == {"mt_row", "mt_check", "mt_final"}
FzPCs == {"fz_status", "fz_running", "fz_failed", "fz_fail", "fz_skip",
          "fz_skipcheck", "fz_remaining", "fz_allskipped", "fz_skipped", "fz_success"}
RcPCs == {"rc_timed", "rc_next", "rc_lost", "rc_check"}

(* force_finalize_stuck_pipeline after it found the run open. *)
Deciding == {"fc_active", "fc_failed", "fc_cancelled", "fc_skipped", "fc_write"}

SyncPCs  == RcPCs \cup FzPCs \cup Deciding \cup {"fc_status"}
IdlePCs  == {"id_status", "id_active"}
Reruns   == {"rerunAll", "rerunFailed", "rerunJob"}

(* The requests that go through sync_pipeline_run_state. *)
Syncing  == {"get", "cancel", "play"} \cup Reruns

(* The statements a request of each kind executes. *)
PCsOf(kind) ==
    CASE kind = "none"        -> {"idle"}
      [] kind = "trigger"     -> MtPCs \cup {"end"}
      [] kind = "complete"    -> {"c_check", "c_unlock", "c_pending", "end"} \cup FzPCs
      [] kind = "cancelStep"  -> {"s_update", "s_check", "end"} \cup FzPCs
      [] kind = "stale"       -> RcPCs \cup FzPCs \cup {"end"}
      [] kind = "get"         -> SyncPCs \cup {"end"}
      [] kind = "cancel"      -> {"k_tx", "k_check", "end"} \cup SyncPCs
      [] kind = "play"        -> {"p_blocked", "p_update", "p_run", "p_check", "end"} \cup SyncPCs
      [] kind = "rerunAll"    -> {"rr_reset", "end"} \cup IdlePCs \cup SyncPCs \cup MtPCs
      [] kind = "rerunFailed" -> {"rr_names", "rr_reset", "end"} \cup IdlePCs \cup SyncPCs \cup MtPCs
      [] OTHER                -> {"rj_read", "rj_run", "end"} \cup IdlePCs \cup SyncPCs \cup MtPCs

(* A slot is at a statement of the handler of its request, and the places  *)
(* its subroutines return to are of that handler too.                      *)
Serving(r) ==
    /\ r.kind \in Kinds
    /\ r.pc \in PCsOf(r.kind)
    /\ r.after = "end" \/ (r.after = "id_status" /\ r.kind \in Reruns)
    /\ \/ r.back = "end"
       \/ r.back = "rc_next" /\ r.kind \in Syncing \cup {"stale"}
       \/ r.back = "fc_status" /\ r.kind \in Syncing
    /\ r.pc \in FzPCs /\ r.back = "end" => r.kind \in {"complete", "cancelStep"}

AllServing == \A s \in Slots : Serving(slot[s])

(* What a statement leaves alone. *)

(* A Goto moves the program counter and nothing else.                      *)
LEMMA GotoSlot ==
    ASSUME slot \in [Slots -> SlotStates], NEW s \in Slots, NEW pc, Goto(s, pc)
    PROVE  /\ slot'[s] = [slot[s] EXCEPT !.pc = pc]
           /\ slot'[s].pc = pc
           /\ slot'[s].kind = slot[s].kind /\ slot'[s].verdict = slot[s].verdict
           /\ slot'[s].back = slot[s].back /\ slot'[s].after = slot[s].after
           /\ \A t \in Slots \ {s} : slot'[t] = slot[t]
<1>1. slot' = [slot EXCEPT ![s].pc = pc] /\ slot[s] \in SlotStates
  BY DEF Goto
<1> QED
  BY <1>1 DEF SlotStates

(* A handler statement edits its own slot, and not the request it serves.  *)
LEMMA FinalizeSlot ==
    ASSUME TypeOK, NEW s \in Slots, Finalize(s)
    PROVE  /\ \A t \in Slots \ {s} : slot'[t] = slot[t]
           /\ slot'[s].kind = slot[s].kind /\ slot'[s].verdict = slot[s].verdict
           /\ slot'[s].back = slot[s].back /\ slot'[s].after = slot[s].after
           /\ slot[s].pc \in FzPCs /\ slot'[s].pc \in FzPCs \cup {slot[s].back}
<1>0. slot \in [Slots -> SlotStates] /\ slot[s] \in SlotStates
  BY DEF TypeOK
<1>1. slot[s].pc \in FzPCs
  BY DEF Finalize, FinalizeStatus, FinalizeRunning, FinalizeFailed,
         FinalizeFail, FinalizeSkip, FinalizeSkipCheck, FinalizeRemaining, FinalizeAllSkipped,
         FinalizeSkipped, FinalizeSuccess, Read, At, FzPCs
<1>2. CASE \E pc \in FzPCs \cup {slot[s].back} : Goto(s, pc)
  BY <1>0, <1>1, <1>2, GotoSlot
<1>3. CASE FinalizeSkip(s)
  BY <1>0, <1>3 DEF FinalizeSkip, SlotStates, At, FzPCs
<1>4. CASE \E j : slot' = [slot EXCEPT ![s].skips = @ \ {j}]
  BY <1>0, <1>1, <1>4 DEF SlotStates
<1> QED
  BY <1>2, <1>3, <1>4
     DEF Finalize, FinalizeStatus, FinalizeRunning, FinalizeFailed,
         FinalizeFail, FinalizeSkipCheck, FinalizeRemaining, FinalizeAllSkipped,
         FinalizeSkipped, FinalizeSuccess, Read, FzPCs

LEMMA ReclaimSlot ==
    ASSUME TypeOK, NEW s \in Slots, Reclaim(s)
    PROVE  /\ \A t \in Slots \ {s} : slot'[t] = slot[t]
           /\ slot'[s].kind = slot[s].kind /\ slot'[s].verdict = slot[s].verdict
           /\ slot'[s].after = slot[s].after
           /\ slot[s].pc \in RcPCs /\ slot'[s].pc \in RcPCs \cup FzPCs \cup {"end"}
           /\ \/ slot'[s].back = slot[s].back /\ slot'[s].pc \notin FzPCs
              \/ slot'[s].back = "rc_next"
              \/ slot'[s].back = "fc_status" /\ slot[s].kind # "stale"
<1>0. slot \in [Slots -> SlotStates] /\ slot[s] \in SlotStates
  BY DEF TypeOK
<1>1. CASE ReclaimTimed(s) \/ ReclaimLost(s)
  BY <1>0, <1>1 DEF ReclaimTimed, ReclaimLost, SlotStates, At, RcPCs, FzPCs
<1>2. CASE ReclaimJob(s)
  <2>1. PICK j \in Jobs, pc \in {"rc_check", "rc_next"} :
           slot' = [slot EXCEPT ![s].todo = @ \ {j}, ![s].cur = j, ![s].pc = pc]
    BY <1>0, <1>2 DEF ReclaimJob, SlotStates
  <2> QED
    BY <1>0, <1>2, <2>1 DEF ReclaimJob, At, SlotStates, RcPCs, FzPCs
<1>3. CASE ReclaimCheck(s)
  BY <1>0, <1>3 DEF ReclaimCheck, SlotStates, At, RcPCs, FzPCs
<1>4. CASE ReclaimNext(s)
  <2>1. \/ slot' = [slot EXCEPT ![s].pc = "rc_lost"]
        \/ slot' = [slot EXCEPT ![s].pc = "end"]
        \/ /\ slot' = [slot EXCEPT ![s].pc = "fz_status", ![s].back = "fc_status"]
           /\ slot[s].kind # "stale"
    BY <1>0, <1>4 DEF ReclaimNext, SlotStates
  <2> QED
    BY <1>0, <1>4, <2>1 DEF ReclaimNext, At, SlotStates, RcPCs, FzPCs
<1> QED
  BY <1>1, <1>2, <1>3, <1>4 DEF Reclaim

LEMMA ForceSlot ==
    ASSUME TypeOK, NEW s \in Slots, ForceFinalize(s)
    PROVE  /\ \A t \in Slots \ {s} : slot'[t] = slot[t]
           /\ slot'[s].kind = slot[s].kind
           /\ slot'[s].back = slot[s].back /\ slot'[s].after = slot[s].after
           /\ slot[s].pc \in Deciding \cup {"fc_status"}
           /\ slot'[s].pc \in Deciding \cup {slot[s].after}
           /\ slot[s].pc = "fc_status" /\ slot'[s].pc # slot[s].after => run \in OpenRun
           /\ slot'[s].verdict = "cancelled" /\ slot[s].verdict # "cancelled" =>
                 slot[s].pc = "fc_cancelled" /\ AllRowsAre(job, "cancelled")
<1>0. slot \in [Slots -> SlotStates] /\ slot[s] \in SlotStates
  BY DEF TypeOK
<1>1. CASE ForceStatus(s) \/ ForceActive(s)
  <2>1. PICK pc \in {"fc_active", "fc_failed", slot[s].after} :
            /\ Goto(s, pc)
            /\ slot[s].pc = "fc_status" /\ pc # slot[s].after => run \in OpenRun
    BY <1>1 DEF ForceStatus, ForceActive, Read, At
  <2> QED
    BY <1>0, <1>1, <2>1, GotoSlot DEF ForceStatus, ForceActive, Read, At, Deciding
<1>2. CASE ForceFailed(s) \/ ForceCancelled(s) \/ ForceSkipped(s)
  BY <1>0, <1>2 DEF ForceFailed, ForceCancelled, ForceSkipped, ForceDecide, SlotStates, At, Deciding
<1>3. CASE ForceWrite(s)
  BY <1>0, <1>3 DEF ForceWrite, SlotStates, At, Deciding
<1> QED
  BY <1>1, <1>2, <1>3 DEF ForceFinalize

LEMMA RerunSlot ==
    ASSUME TypeOK, NEW s \in Slots, Rerun(s)
    PROVE  /\ \A t \in Slots \ {s} : slot'[t] = slot[t]
           /\ slot'[s].kind = slot[s].kind /\ slot'[s].verdict = slot[s].verdict
<1>0. slot \in [Slots -> SlotStates] /\ slot[s] \in SlotStates
  BY DEF TypeOK
<1>1. CASE IdleStatus(s) \/ RerunReset(s)
  BY <1>0, <1>1, GotoSlot DEF IdleStatus, RerunReset, Read
<1>2. CASE IdleActive(s)
  BY <1>0, <1>2 DEF IdleActive, SlotStates
<1>3. CASE RerunNames(s) \/ RerunJobRead(s) \/ RerunJobRun(s)
  BY <1>0, <1>3 DEF RerunNames, RerunJobRead, RerunJobRun, SlotStates
<1> QED
  BY <1>1, <1>2, <1>3 DEF Rerun

LEMMA UserSlot ==
    ASSUME TypeOK, NEW s \in Slots, UserWrites(s)
    PROVE  /\ \A t \in Slots \ {s} : slot'[t] = slot[t]
           /\ slot'[s].kind = slot[s].kind /\ slot'[s].verdict = slot[s].verdict
<1>0. slot \in [Slots -> SlotStates] /\ slot[s] \in SlotStates
  BY DEF TypeOK
<1>1. CASE \E pc : Goto(s, pc)
  BY <1>0, <1>1, GotoSlot
<1>2. CASE CancelTx(s)
  BY <1>0, <1>2 DEF CancelTx, SlotStates
<1>3. CASE \E j : slot' = [slot EXCEPT ![s].todo = @ \ {j}]
  BY <1>0, <1>3 DEF SlotStates
<1> QED
  BY <1>1, <1>2, <1>3
     DEF UserWrites, CancelCheck, CancelStepUpdate, CancelStepCheck, PlayBlocked, PlayUpdate,
         PlayRun, PlayCheck, Read

LEMMA StepSlot ==
    ASSUME TypeOK, NEW s \in Slots, Step(s)
    PROVE  /\ \A t \in Slots \ {s} : slot'[t] = slot[t]
           /\ slot'[s].kind = slot[s].kind \/ Reply(s)
           /\ slot'[s].verdict = slot[s].verdict \/ Reply(s) \/ ForceFinalize(s)
<1>0. slot \in [Slots -> SlotStates] /\ slot[s] \in SlotStates
  BY DEF TypeOK
<1>1. CASE MaterializeRow(s)
  BY <1>0, <1>1 DEF MaterializeRow, SlotStates
<1>2. CASE MaterializeCheck(s) \/ MaterializeFinal(s) \/ CompleteCheck(s)
  BY <1>0, <1>2, GotoSlot DEF MaterializeCheck, MaterializeFinal, CompleteCheck
<1>3. CASE CompleteUnlock(s)
  BY <1>0, <1>3 DEF CompleteUnlock, SlotStates
<1>4. CASE CompletePending(s)
  BY <1>0, <1>4, GotoSlot DEF CompletePending, SlotStates
<1>5. CASE Reply(s)
  BY <1>0, <1>5 DEF Reply
<1> QED
  BY <1>1, <1>2, <1>3, <1>4, <1>5, FinalizeSlot, ReclaimSlot, ForceSlot, RerunSlot, UserSlot
     DEF Step

(* The statements that write the status of the run.                        *)
LEMMA WritersOfRun ==
    ASSUME NEW s \in Slots, Step(s)
    PROVE  \/ run' = run
           \/ MaterializeFinal(s) \/ FinalizeFail(s) \/ FinalizeSkipped(s) \/ FinalizeSuccess(s)
           \/ ForceWrite(s) \/ RerunReset(s) \/ RerunJobRun(s) \/ CancelTx(s) \/ PlayRun(s)
<1>1. CASE MaterializeRow(s) \/ MaterializeCheck(s) \/ CompleteCheck(s) \/ CompleteUnlock(s)
           \/ CompletePending(s) \/ Reply(s)
  BY <1>1 DEF MaterializeRow, MaterializeCheck, CompleteCheck, CompleteUnlock,
              CompletePending, Reply, DB
<1>2. CASE Finalize(s)
  BY <1>2 DEF Finalize, FinalizeStatus, FinalizeRunning, FinalizeFailed, FinalizeSkip,
              FinalizeSkipCheck, FinalizeRemaining, FinalizeAllSkipped, Read, DB
<1>3. CASE Reclaim(s)
  BY <1>3 DEF Reclaim, ReclaimTimed, ReclaimLost, ReclaimJob, ReclaimCheck, ReclaimNext, DB
<1>4. CASE ForceFinalize(s)
  BY <1>4 DEF ForceFinalize, ForceStatus, ForceActive, ForceFailed, ForceCancelled,
              ForceSkipped, ForceDecide, Read, DB
<1>5. CASE Rerun(s)
  BY <1>5 DEF Rerun, IdleStatus, IdleActive, RerunNames, RerunJobRead, Read, DB
<1>6. CASE UserWrites(s)
  BY <1>6 DEF UserWrites, CancelCheck, CancelStepUpdate, CancelStepCheck, PlayBlocked,
              PlayUpdate, PlayCheck, Read, DB
<1> QED
  BY <1>1, <1>2, <1>3, <1>4, <1>5, <1>6 DEF Step

(* A statement is executed at its place in the handler.                    *)
LEMMA StepPC ==
    ASSUME NEW s \in Slots, Step(s)
    PROVE  /\ slot[s].pc # "idle"
           /\ slot[s].pc = "end" => Reply(s)
           /\ slot[s].pc = "k_tx" => CancelTx(s)
BY DEF Step, MaterializeRow, MaterializeCheck, MaterializeFinal, CompleteCheck,
       CompleteUnlock, CompletePending, Finalize, FinalizeStatus, FinalizeRunning,
       FinalizeFailed, FinalizeFail, FinalizeSkip, FinalizeSkipCheck, FinalizeRemaining,
       FinalizeAllSkipped, FinalizeSkipped, FinalizeSuccess, Reclaim, ReclaimTimed,
       ReclaimLost, ReclaimJob, ReclaimCheck, ReclaimNext, ForceFinalize, ForceStatus,
       ForceActive, ForceFailed, ForceCancelled, ForceSkipped, ForceDecide, ForceWrite,
       Rerun, IdleStatus, IdleActive, RerunNames, RerunReset, RerunJobRead, RerunJobRun,
       UserWrites, CancelTx, CancelCheck, CancelStepUpdate, CancelStepCheck, PlayBlocked,
       PlayUpdate, PlayRun, PlayCheck, Reply, Read, At

(* No statement of a handler makes a job run. *)
LEMMA StepNeverRuns ==
    ASSUME TypeOK, NEW s \in Slots, Step(s), NEW k \in Jobs, job[k].status # "running"
    PROVE  job'[k].status # "running"
<1>0. job \in [Jobs -> Rows]
  BY DEF TypeOK
<1>1. CASE MaterializeRow(s)
  <2>1. PICK j \in slot[s].todo : job' = [job EXCEPT ![j] = MaterialRow(j, ResetOf(slot[s].kind))]
    BY <1>1 DEF MaterializeRow
  <2>2. \A reset : MaterialRow(j, reset).status # "running"
    BY DEF MaterialRow, MaterialStatus, NewRow
  <2> QED
    BY <1>0, <2>1, <2>2
<1>2. CASE CompleteUnlock(s)
  BY <1>0, <1>2 DEF CompleteUnlock, Rows
<1>3. CASE FinalizeSkip(s)
  BY <1>0, <1>3 DEF FinalizeSkip, Rows
<1>4. CASE ReclaimJob(s)
  BY <1>0, <1>4 DEF ReclaimJob, SetStatus, Rows
<1>5. CASE CancelTx(s)
  BY <1>0, <1>5 DEF CancelTx, Rows
<1>6. CASE CancelStepUpdate(s) \/ PlayUpdate(s)
  BY <1>0, <1>6 DEF CancelStepUpdate, PlayUpdate, Rows
<1> QED
  BY <1>1, <1>2, <1>3, <1>4, <1>5, <1>6, WritersOfRows

(* A job starts to run by a claim and by nothing else: start_runner_job    *)
(* finds a running row, for a queued one names no runner.                  *)
LEMMA OnlyClaimsRun ==
    ASSUME RowsInv, [Next]_vars, NEW j \in Jobs,
           job[j].status # "running", job'[j].status = "running"
    PROVE  \E p \in Pods : Claim(p, j)
<1>0. TypeOK /\ job \in [Jobs -> Rows]
  BY DEF RowsInv, TypeOK
<1>1. ASSUME NEW s \in Slots, Step(s)
      PROVE  FALSE
  BY <1>0, <1>1, StepNeverRuns
<1>2. ASSUME NEW s \in Slots, Arrive(s)
      PROVE  FALSE
  <2>1. ASSUME NEW p \in Pods, NEW v \in Reported, Report(s, p, v)
        PROVE  FALSE
    <3>1. job' = job \/ \E w \in Reported : job' = [job EXCEPT ![exec[p].job].status = w]
      BY <2>1 DEF Report, Reported
    <3> QED
      BY <1>0, <3>1 DEF Rows, Reported
  <2> QED
    BY <1>2, <2>1 DEF Arrive, StartTrigger, StartGet, StartStale, StartCancel, StartRerun,
                      StartCancelStep, StartPlay, DB
<1>3. ASSUME NEW p \in Pods, Pod(p)
      PROVE  Claim(p, j)
  <2>1. ~StartJob(p)
    <3> SUFFICES ASSUME StartJob(p)
                 PROVE  FALSE
      OBVIOUS
    <3>1. /\ job[exec[p].job].holder # NoPod /\ exec[p].job \in Jobs
          /\ job[exec[p].job].status \in {"queued", "running"}
          /\ job' = [job EXCEPT ![exec[p].job].status = "running"]
      BY <1>0 DEF StartJob, Names, TypeOK, Execs
    <3>2. job[exec[p].job].status = "running"
      BY <3>1 DEF RowsInv, RowsAreCoherent
    <3> QED
      BY <1>0, <3>1, <3>2 DEF Rows
  <2>2. PICK k \in Jobs : Claim(p, k)
    BY <1>3, <2>1 DEF Pod, Restart, Silence, Heartbeat
  <2>3. k = j
    BY <1>0, <2>2 DEF Claim, Rows
  <2> QED
    BY <2>2, <2>3
<1>4. ASSUME NEW i \in Jobs, Overrun(i)
      PROVE  FALSE
  BY <1>0, <1>4 DEF Overrun, Rows
<1>5. ASSUME NEW s \in Slots, Crash(s)
      PROVE  FALSE
  BY <1>5 DEF Crash, DB
<1> QED
  BY <1>1, <1>2, <1>3, <1>4, <1>5 DEF Next, vars

-----------------------------------------------------------------------------
(* Handlers keep to their statements. *)

(* The kinds of request found at a statement. *)
LEMMA KindAt ==
    ASSUME NEW r, Serving(r)
    PROVE  /\ r.kind = "none" <=> r.pc = "idle"
           /\ r.pc \in MtPCs => r.kind \in {"trigger"} \cup Reruns
           /\ r.pc \in Deciding \cup {"fc_status"} => r.kind \in Syncing
           /\ r.pc \in RcPCs => r.kind \in Syncing \cup {"stale"}
           /\ r.pc \in FzPCs => r.kind \in Syncing \cup {"stale", "complete", "cancelStep"}
           /\ r.pc \in {"c_check", "c_unlock", "c_pending"} => r.kind = "complete"
           /\ r.pc \in {"k_tx", "k_check"} => r.kind = "cancel"
           /\ r.pc \in {"s_update", "s_check"} => r.kind = "cancelStep"
           /\ r.pc \in {"p_blocked", "p_update", "p_run", "p_check"} => r.kind = "play"
           /\ r.pc \in IdlePCs => r.kind \in Reruns
           /\ r.pc = "rr_names" => r.kind = "rerunFailed"
           /\ r.pc = "rr_reset" => r.kind \in {"rerunAll", "rerunFailed"}
           /\ r.pc \in {"rj_read", "rj_run"} => r.kind = "rerunJob"
BY DEF Serving, PCsOf, Kinds, AllOps, MtPCs, FzPCs, RcPCs, Deciding, SyncPCs, IdlePCs, Reruns, Syncing

LEMMA PCsKnown ==
    /\ \A kind \in Kinds \ {"none"} : "end" \in PCsOf(kind)
    /\ \A kind \in Syncing : SyncPCs \subseteq PCsOf(kind)
    /\ \A kind \in Reruns : IdlePCs \cup MtPCs \subseteq PCsOf(kind)
    /\ RcPCs \cup FzPCs \subseteq PCsOf("stale")
    /\ FzPCs \subseteq PCsOf("complete") /\ FzPCs \subseteq PCsOf("cancelStep")
BY DEF PCsOf, Kinds, AllOps, SyncPCs, Syncing, Reruns

(* Another statement of the same handler. *)
LEMMA Serves ==
    ASSUME NEW r, NEW q, Serving(r), q.kind = r.kind, q.pc \in PCsOf(r.kind),
           q.after = r.after \/ q.after = "end",
           \/ q.back = r.back /\ (q.pc \in FzPCs => r.pc \in FzPCs \/ r.kind \in {"complete", "cancelStep"})
           \/ q.back = "rc_next" /\ r.kind \in Syncing \cup {"stale"}
           \/ q.back = "fc_status" /\ r.kind \in Syncing
    PROVE  Serving(q)
BY DEF Serving

LEMMA GotoServes ==
    ASSUME TypeOK, NEW s \in Slots, Serving(slot[s]), NEW pc, Goto(s, pc),
           pc \in PCsOf(slot[s].kind) \ FzPCs
    PROVE  Serving(slot'[s])
<1>1. /\ slot'[s].pc = pc /\ slot'[s].kind = slot[s].kind
      /\ slot'[s].back = slot[s].back /\ slot'[s].after = slot[s].after
  BY GotoSlot DEF TypeOK
<1> QED
  BY <1>1, Serves

LEMMA FinalizeServes ==
    ASSUME TypeOK, NEW s \in Slots, Finalize(s), Serving(slot[s])
    PROVE  Serving(slot'[s])
<1>1. slot[s].pc \in FzPCs /\ slot'[s].pc \in FzPCs \cup {slot[s].back}
  BY FinalizeSlot
<1>2. slot[s].back \in PCsOf(slot[s].kind) /\ FzPCs \subseteq PCsOf(slot[s].kind)
  BY <1>1, KindAt, PCsKnown DEF Serving, SyncPCs, RcPCs
<1> QED
  BY <1>1, <1>2, FinalizeSlot, Serves

LEMMA ReclaimServes ==
    ASSUME TypeOK, NEW s \in Slots, Reclaim(s), Serving(slot[s])
    PROVE  Serving(slot'[s])
<1>1. slot[s].kind \in Syncing \cup {"stale"} /\ slot[s].pc \notin FzPCs
  BY ReclaimSlot, KindAt DEF RcPCs, FzPCs
<1>2. RcPCs \cup FzPCs \cup {"end"} \subseteq PCsOf(slot[s].kind)
  <2>1. slot[s].kind \in Kinds \ {"none"}
    BY <1>1 DEF Syncing, Reruns, Kinds, AllOps
  <2> QED
    BY <1>1, <2>1, PCsKnown DEF SyncPCs
<1> QED
  BY <1>1, <1>2, ReclaimSlot, Serves

LEMMA ForceServes ==
    ASSUME TypeOK, NEW s \in Slots, ForceFinalize(s), Serving(slot[s])
    PROVE  Serving(slot'[s])
<1>1. slot[s].kind \in Syncing
  BY ForceSlot, KindAt
<1>2. Deciding \cup {slot[s].after} \subseteq PCsOf(slot[s].kind)
  BY <1>1, PCsKnown DEF SyncPCs, Serving, Syncing, Reruns, Kinds, AllOps, IdlePCs
<1>3. slot'[s].pc \notin FzPCs
  BY ForceSlot DEF Serving, Deciding, FzPCs
<1> QED
  BY <1>1, <1>2, <1>3, ForceSlot, Serves

LEMMA RerunServes ==
    ASSUME TypeOK, NEW s \in Slots, Rerun(s), Serving(slot[s])
    PROVE  Serving(slot'[s])
<1>0. slot \in [Slots -> SlotStates] /\ slot[s] \in SlotStates
  BY DEF TypeOK
<1>1. slot[s].kind \in Reruns
  BY KindAt DEF Rerun, IdleStatus, IdleActive, RerunNames, RerunReset, RerunJobRead,
                RerunJobRun, Read, At, IdlePCs, Reruns
<1>2. /\ slot'[s].kind = slot[s].kind /\ slot'[s].back = slot[s].back
      /\ slot'[s].after \in {slot[s].after, "end"}
      /\ slot'[s].pc \in PCsOf(slot[s].kind) \ FzPCs
  <2>1. CASE IdleStatus(s)
    <3>1. PICK pc \in {"end", "id_active"} : Goto(s, pc)
      BY <2>1 DEF IdleStatus, Read
    <3>2. pc \in PCsOf(slot[s].kind) \ FzPCs
      BY <1>1, <3>1, PCsKnown DEF IdlePCs, Reruns, Kinds, AllOps, FzPCs
    <3> QED
      BY <1>0, <3>1, <3>2, GotoSlot
  <2>2. CASE IdleActive(s)
    BY <1>0, <1>1, <2>2 DEF IdleActive, ResetPC, SlotStates, PCsOf, Reruns, FzPCs
  <2>3. CASE RerunNames(s)
    <3>1. slot[s].kind = "rerunFailed"
      BY <2>3, KindAt DEF RerunNames, At
    <3> QED
      BY <1>0, <2>3, <3>1 DEF RerunNames, SlotStates, PCsOf, FzPCs
  <2>4. CASE RerunReset(s)
    <3>1. Goto(s, "mt_row") /\ "mt_row" \in PCsOf(slot[s].kind) \ FzPCs
      BY <1>1, <2>4, PCsKnown DEF RerunReset, MtPCs, FzPCs
    <3> QED
      BY <1>0, <3>1, GotoSlot
  <2>5. CASE RerunJobRead(s) \/ RerunJobRun(s)
    <3>1. slot[s].kind = "rerunJob" /\ {"end", "mt_row", "rc_timed"} \subseteq PCsOf("rerunJob") \ FzPCs
      BY <2>5, KindAt, PCsKnown
         DEF RerunJobRead, RerunJobRun, At, Reruns, Syncing, SyncPCs, MtPCs, RcPCs, FzPCs, Kinds, AllOps
    <3> QED
      BY <1>0, <2>5, <3>1 DEF RerunJobRead, RerunJobRun, SlotStates
  <2> QED
    BY <2>1, <2>2, <2>3, <2>4, <2>5 DEF Rerun
<1> QED
  BY <1>2, Serves

LEMMA UserServes ==
    ASSUME TypeOK, NEW s \in Slots, UserWrites(s), Serving(slot[s])
    PROVE  Serving(slot'[s])
<1>0. slot \in [Slots -> SlotStates] /\ slot[s] \in SlotStates
  BY DEF TypeOK
<1>1. /\ {"k_check", "rc_timed"} \subseteq PCsOf("cancel") \ FzPCs
      /\ {"s_check", "end"} \subseteq PCsOf("cancelStep") \ FzPCs
      /\ {"p_update", "p_run", "p_check", "end", "rc_timed"} \subseteq PCsOf("play") \ FzPCs
      /\ "fz_status" \in PCsOf("cancelStep")
  BY DEF PCsOf, SyncPCs, RcPCs, FzPCs
<1>2. CASE CancelTx(s)
  <2>1. slot[s].kind = "cancel"
    BY <1>2, KindAt DEF CancelTx, At
  <2>2. /\ slot'[s].pc = "k_check" /\ slot'[s].kind = slot[s].kind
        /\ slot'[s].back = slot[s].back /\ slot'[s].after = slot[s].after
    BY <1>0, <1>2 DEF CancelTx, SlotStates
  <2> QED
    BY <1>1, <2>1, <2>2, Serves
<1>3. CASE CancelCheck(s)
  <2>1. slot[s].kind = "cancel"
    BY <1>3, KindAt DEF CancelCheck, At
  <2>2. CASE Goto(s, "rc_timed")
    BY <1>1, <2>1, <2>2, GotoServes
  <2>3. CASE \E j : slot' = [slot EXCEPT ![s].todo = @ \ {j}]
    <3>1. /\ slot'[s].pc = slot[s].pc /\ slot'[s].kind = slot[s].kind
          /\ slot'[s].back = slot[s].back /\ slot'[s].after = slot[s].after
      BY <1>0, <2>3 DEF SlotStates
    <3> QED
      BY <3>1, Serves DEF Serving
  <2> QED
    BY <1>3, <2>2, <2>3 DEF CancelCheck
<1>4. CASE CancelStepUpdate(s) \/ CancelStepCheck(s)
  <2>1. slot[s].kind = "cancelStep"
    BY <1>4, KindAt DEF CancelStepUpdate, CancelStepCheck, At
  <2>2. PICK pc \in {"s_check", "end", "fz_status"} : Goto(s, pc)
    BY <1>4 DEF CancelStepUpdate, CancelStepCheck
  <2>3. /\ slot'[s].pc = pc /\ slot'[s].kind = slot[s].kind
        /\ slot'[s].back = slot[s].back /\ slot'[s].after = slot[s].after
    BY <1>0, <2>2, GotoSlot
  <2> QED
    BY <1>1, <2>1, <2>3, Serves
<1>5. CASE PlayBlocked(s) \/ PlayUpdate(s) \/ PlayRun(s) \/ PlayCheck(s)
  <2>1. slot[s].kind = "play"
    BY <1>5, KindAt DEF PlayBlocked, PlayUpdate, PlayRun, PlayCheck, Read, At
  <2>2. PICK pc \in {"p_update", "p_run", "p_check", "end", "rc_timed"} : Goto(s, pc)
    BY <1>5 DEF PlayBlocked, PlayUpdate, PlayRun, PlayCheck, Read
  <2> QED
    BY <1>1, <2>1, <2>2, GotoServes
<1> QED
  BY <1>2, <1>3, <1>4, <1>5 DEF UserWrites

LEMMA IdleServes == Serving(NoRequest)
BY DEF Serving, NoRequest, PCsOf, Kinds, FzPCs

LEMMA StepServes ==
    ASSUME TypeOK, NEW s \in Slots, Step(s), Serving(slot[s])
    PROVE  Serving(slot'[s])
<1>0. slot \in [Slots -> SlotStates] /\ slot[s] \in SlotStates
  BY DEF TypeOK
<1>1. CASE MaterializeRow(s) \/ MaterializeCheck(s)
  <2>1. MtPCs \subseteq PCsOf(slot[s].kind) \ FzPCs
    <3>1. slot[s].pc \in MtPCs
      BY <1>1 DEF MaterializeRow, MaterializeCheck, At, MtPCs
    <3>2. slot[s].kind \in {"trigger"} \cup Reruns
      BY <3>1, KindAt
    <3>3. MtPCs \subseteq PCsOf("trigger") /\ MtPCs \cap FzPCs = {}
      BY DEF PCsOf, MtPCs, FzPCs
    <3> QED
      BY <3>2, <3>3, PCsKnown
  <2>2. CASE MaterializeRow(s)
    <3>1. /\ slot'[s].pc = "mt_check" /\ slot'[s].kind = slot[s].kind
          /\ slot'[s].back = slot[s].back /\ slot'[s].after = slot[s].after
      BY <1>0, <2>2 DEF MaterializeRow, SlotStates
    <3> QED
      BY <2>1, <3>1, Serves DEF MtPCs
  <2>3. CASE MaterializeCheck(s)
    BY <2>1, <2>3, GotoServes DEF MaterializeCheck, MtPCs
  <2> QED
    BY <1>1, <2>2, <2>3
<1>2. CASE MaterializeFinal(s)
  <2>1. slot[s].kind \in {"trigger"} \cup Reruns
    BY <1>2, KindAt DEF MaterializeFinal, At, MtPCs
  <2>2. PICK pc \in {"rj_run", "end"} : Goto(s, pc) /\ (pc = "rj_run" => slot[s].kind = "rerunJob")
    BY <1>2 DEF MaterializeFinal
  <2>3. pc \in PCsOf(slot[s].kind) \ FzPCs
    BY <2>1, <2>2 DEF PCsOf, Reruns, FzPCs
  <2> QED
    BY <2>2, <2>3, GotoServes
<1>3. CASE CompleteCheck(s) \/ CompleteUnlock(s) \/ CompletePending(s)
  <2>0. {"c_unlock", "c_pending", "fz_status"} \subseteq PCsOf("complete")
    BY DEF PCsOf, FzPCs
  <2>1. slot[s].kind = "complete"
    <3>1. slot[s].pc \in {"c_check", "c_unlock", "c_pending"}
      BY <1>3 DEF CompleteCheck, CompleteUnlock, CompletePending, At
    <3> QED
      BY <3>1, KindAt
  <2>2. /\ slot'[s].kind = slot[s].kind
        /\ slot'[s].back = slot[s].back /\ slot'[s].after = slot[s].after
        /\ slot'[s].pc \in {slot[s].pc, "c_unlock", "c_pending", "fz_status"}
    <3>1. CASE CompleteUnlock(s)
      BY <1>0, <3>1 DEF CompleteUnlock, SlotStates
    <3>2. CASE \E pc \in {"c_unlock", "fz_status"} : Goto(s, pc)
      BY <1>0, <3>2, GotoSlot
    <3>3. CASE \E j : slot' = [slot EXCEPT ![s].todo = @ \ {j}]
      BY <1>0, <3>3 DEF SlotStates
    <3> QED
      BY <1>3, <3>1, <3>2, <3>3 DEF CompleteCheck, CompletePending
  <2>3. slot'[s].pc \in PCsOf("complete")
    BY <2>0, <2>1, <2>2 DEF Serving
  <2> QED
    BY <2>1, <2>2, <2>3, Serves
<1>4. CASE Reply(s)
  BY <1>0, <1>4, IdleServes DEF Reply
<1> QED
  BY <1>1, <1>2, <1>3, <1>4, FinalizeServes, ReclaimServes, ForceServes, RerunServes, UserServes
     DEF Step

(* The start of a request edits an idle slot, and only StartTrigger writes *)
(* the run.                                                                *)
LEMMA ArriveSlot ==
    ASSUME TypeOK, NEW s \in Slots, Arrive(s)
    PROVE  /\ \A t \in Slots \ {s} : slot'[t] = slot[t]
           /\ StartTrigger(s) \/ run' = run
           /\ \/ slot' = slot
              \/ /\ slot[s].pc = "idle"
                 /\ slot'[s].kind \in Ops \cup {"trigger", "complete"}
                 /\ slot'[s].back = "end"
                 /\ slot'[s].after = IF slot'[s].kind \in Reruns THEN "id_status" ELSE "end"
                 /\ slot'[s].verdict = "none" \/ slot'[s].kind = "complete"
                 /\ <<slot'[s].kind, slot'[s].pc>> \in
                      {<<"trigger", "mt_row">>, <<"complete", "c_check">>, <<"get", "rc_timed">>,
                       <<"stale", "rc_timed">>, <<"cancel", "k_tx">>, <<"cancelStep", "s_update">>,
                       <<"play", "p_blocked">>} \cup {<<k, "rc_timed">> : k \in Reruns}
           /\ slot'[s].kind = "trigger" => slot'[s] = slot[s] \/ StartTrigger(s)
           /\ run = "absent" => StartTrigger(s) \/ slot' = slot \/ \E j \in Jobs : job[j].status # "absent"
<1>0. slot \in [Slots -> SlotStates] /\ slot[s] \in SlotStates
  BY DEF TypeOK
<1>1. CASE StartTrigger(s)
  <2>1. slot'[s] = [NoRequest EXCEPT !.pc = "mt_row", !.kind = "trigger", !.todo = Jobs]
    BY <1>0, <1>1 DEF StartTrigger
  <2>2. /\ slot'[s].pc = "mt_row" /\ slot'[s].kind = "trigger" /\ slot'[s].verdict = "none"
        /\ slot'[s].after = "end" /\ slot'[s].back = "end"
    BY <2>1 DEF NoRequest
  <2> QED
    BY <1>0, <1>1, <2>2 DEF StartTrigger, Reruns
<1>2. ASSUME NEW k \in Ops, NEW j, NEW pc, Begin(s, k, j, pc), k \notin Reruns \cup {"trigger"},
             <<k, pc>> \in {<<"get", "rc_timed">>, <<"stale", "rc_timed">>, <<"cancel", "k_tx">>,
                            <<"cancelStep", "s_update">>, <<"play", "p_blocked">>},
             run' = run, run # "absent" \/ \E i \in Jobs : job[i].status # "absent"
      PROVE  /\ \A t \in Slots \ {s} : slot'[t] = slot[t]
             /\ slot[s].pc = "idle" /\ slot'[s].pc = pc /\ slot'[s].kind = k
             /\ slot'[s].back = "end" /\ slot'[s].after = "end" /\ slot'[s].verdict = "none"
  <2>1. slot'[s] = [NoRequest EXCEPT !.pc = pc, !.kind = k, !.job = j]
    BY <1>0, <1>2 DEF Begin
  <2> QED
    BY <1>0, <1>2, <2>1 DEF Begin, NoRequest
<1>3. ASSUME NEW k \in Reruns, NEW j, StartRerun(s, k, j)
      PROVE  /\ \A t \in Slots \ {s} : slot'[t] = slot[t]
             /\ slot[s].pc = "idle" /\ slot'[s].pc = "rc_timed" /\ slot'[s].kind = k /\ k \in Ops
             /\ slot'[s].back = "end" /\ slot'[s].after = "id_status" /\ slot'[s].verdict = "none"
             /\ run' = run /\ run # "absent"
  <2>1. slot'[s] = [NoRequest EXCEPT !.pc = "rc_timed", !.kind = k, !.job = j, !.after = "id_status"]
    BY <1>0, <1>3 DEF StartRerun
  <2> QED
    BY <1>0, <1>3, <2>1 DEF StartRerun, NoRequest, Ask, DB
<1>4. ASSUME NEW p \in Pods, NEW v \in Reported, Report(s, p, v)
      PROVE  /\ run' = run
             /\ \/ slot' = slot
                \/ /\ \A t \in Slots \ {s} : slot'[t] = slot[t]
                   /\ slot'[s].kind = "complete" /\ slot'[s].pc = "c_check" /\ slot[s].pc = "idle"
                   /\ slot'[s].after = "end" /\ slot'[s].back = "end"
                   /\ \E j \in Jobs : job[j].status # "absent"
  <2>1. exec[p].job \in Jobs
    BY DEF TypeOK, Execs
  <2>2. CASE ~Reportable(p, exec[p].job)
    BY <1>4, <2>2 DEF Report
  <2>3. CASE Reportable(p, exec[p].job)
    <3>1. PICK v2 : slot' = [slot EXCEPT ![s] =
                     [NoRequest EXCEPT !.pc = "c_check", !.kind = "complete",
                                       !.job = exec[p].job, !.pod = p, !.verdict = v2]]
      BY <1>4, <2>3 DEF Report
    <3>2. slot'[s] = [NoRequest EXCEPT !.pc = "c_check", !.kind = "complete",
                                       !.job = exec[p].job, !.pod = p, !.verdict = v2]
      BY <1>0, <3>1
    <3>3. /\ slot'[s].kind = "complete" /\ slot'[s].pc = "c_check"
          /\ slot'[s].after = "end" /\ slot'[s].back = "end"
      BY <3>2 DEF NoRequest
    <3>4. \A t \in Slots \ {s} : slot'[t] = slot[t]
      BY <1>0, <3>1
    <3>5. job[exec[p].job].status # "absent" /\ slot[s].pc = "idle" /\ run' = run
      BY <1>4, <2>3 DEF Report, Reportable
    <3> QED
      BY <2>1, <3>3, <3>4, <3>5
  <2> QED
    BY <2>2, <2>3
<1>5. CASE \/ StartGet(s) \/ StartStale(s) \/ StartCancel(s)
           \/ \E j \in Jobs : StartCancelStep(s, j) \/ StartPlay(s, j)
  <2>1. run' = run
    BY <1>5 DEF StartGet, StartStale, StartCancel, StartCancelStep, StartPlay, DB
  <2>2. PICK k, j, pc :
           /\ k \in Ops /\ Begin(s, k, j, pc)
           /\ <<k, pc>> \in {<<"get", "rc_timed">>, <<"stale", "rc_timed">>, <<"cancel", "k_tx">>,
                             <<"cancelStep", "s_update">>, <<"play", "p_blocked">>}
           /\ run # "absent" \/ \E i \in Jobs : job[i].status # "absent"
    BY <1>5 DEF StartGet, StartStale, StartCancel, StartCancelStep, StartPlay, Ask, OpenRun
  <2>3. k \notin Reruns \cup {"trigger", "complete"}
    BY <2>2 DEF Reruns
  <2> QED
    BY <2>1, <2>2, <2>3, <1>2
<1>6. CASE \E p \in Pods, v \in Reported : Report(s, p, v)
  BY <1>4, <1>6 DEF Reruns
<1>7. CASE \/ \E k \in {"rerunAll", "rerunFailed"} : StartRerun(s, k, AnyJob)
           \/ \E j \in Jobs : StartRerun(s, "rerunJob", j)
  <2>1. PICK k, j : k \in Reruns /\ StartRerun(s, k, j)
    BY <1>7 DEF Reruns
  <2> QED
    BY <2>1, <1>3 DEF Reruns
<1> QED
  BY <1>1, <1>5, <1>6, <1>7 DEF Arrive

LEMMA ArriveServes ==
    ASSUME TypeOK, NEW s \in Slots, Arrive(s), Serving(slot[s])
    PROVE  Serving(slot'[s])
<1>1. slot' = slot \/ slot'[s].pc \in PCsOf(slot'[s].kind) \ FzPCs
  <2>1. SUFFICES ASSUME slot' # slot
                 PROVE  slot'[s].pc \in PCsOf(slot'[s].kind) \ FzPCs
    OBVIOUS
  <2>2. <<slot'[s].kind, slot'[s].pc>> \in
                      {<<"trigger", "mt_row">>, <<"complete", "c_check">>, <<"get", "rc_timed">>,
                       <<"stale", "rc_timed">>, <<"cancel", "k_tx">>, <<"cancelStep", "s_update">>,
                       <<"play", "p_blocked">>} \cup {<<k, "rc_timed">> : k \in Reruns}
    BY <2>1, ArriveSlot
  <2> QED
    BY <2>2 DEF PCsOf, Reruns, SyncPCs, RcPCs, FzPCs, MtPCs
<1>2. Ops \cup {"trigger", "complete"} \subseteq Kinds
  BY OpsAssumption DEF Kinds
<1> QED
  BY <1>1, <1>2, ArriveSlot DEF Serving

LEMMA InitServes == Init => AllServing
BY IdleServes DEF Init, AllServing

LEMMA NextServes ==
    ASSUME TypeOK, AllServing, [Next]_vars
    PROVE  AllServing'
<1>1. ASSUME NEW s \in Slots, Arrive(s) \/ Step(s)
      PROVE  AllServing'
  BY <1>1, ArriveSlot, ArriveServes, StepSlot, StepServes DEF AllServing
<1>2. ASSUME NEW s \in Slots, Crash(s)
      PROVE  AllServing'
  BY <1>2, IdleServes DEF Crash, AllServing, TypeOK
<1>3. CASE slot' = slot
  BY <1>3 DEF AllServing
<1> QED
  BY <1>1, <1>2, <1>3
     DEF Next, Pod, Claim, StartJob, Restart, Silence, Heartbeat, Overrun, vars

-----------------------------------------------------------------------------
(* Nothing happens before the push. *)

PushIsFirst ==
    run = "absent" => /\ \A j \in Jobs : job[j].status = "absent"
                      /\ \A s \in Slots : slot[s].kind = "none"

LEMMA InitPush == Init => PushIsFirst
BY DEF Init, NewRow, NoRequest, PushIsFirst

(* No statement removes the row of the run. *)
LEMMA StepKeepsRun ==
    ASSUME TypeOK, NEW s \in Slots, Step(s), run # "absent"
    PROVE  run' # "absent"
<1>1. CASE ForceWrite(s)
  <2>1. slot[s].verdict \in Verdicts
    BY ReturnTypes
  <2> QED
    BY <1>1, <2>1 DEF ForceWrite, Verdicts, Reported
<1>2. CASE MaterializeFinal(s) \/ RerunReset(s) \/ RerunJobRun(s) \/ CancelTx(s) \/ PlayRun(s)
  BY <1>2 DEF MaterializeFinal, RerunReset, RerunJobRun, CancelTx, PlayRun
<1>3. CASE FinalizeFail(s) \/ FinalizeSkipped(s) \/ FinalizeSuccess(s)
  BY <1>3 DEF FinalizeFail, FinalizeSkipped, FinalizeSuccess
<1> QED
  BY <1>1, <1>2, <1>3, WritersOfRun

LEMMA NextPush ==
    ASSUME TypeOK, AllServing, PushIsFirst, [Next]_vars
    PROVE  PushIsFirst' /\ (run' = "absent" => run = "absent" /\ job' = job /\ slot' = slot)
<1>0. run = "absent" => /\ \A j \in Jobs : job[j].status = "absent"
                        /\ \A s \in Slots : slot[s].pc = "idle"
  BY KindAt DEF PushIsFirst, AllServing
<1>1. ASSUME NEW s \in Slots, Arrive(s)
      PROVE  run' = "absent" => run = "absent" /\ job' = job /\ slot' = slot
  <2>1. ~StartTrigger(s) => run' = run
    BY <1>1, ArriveSlot
  <2>2. ASSUME run = "absent", ~StartTrigger(s)
        PROVE  slot' = slot /\ job' = job
    <3>1. ASSUME NEW p \in Pods, NEW v \in Reported, Report(s, p, v)
          PROVE  job' = job
      <4>1. exec[p].job \in Jobs
        BY DEF TypeOK, Execs
      <4>2. ~Reportable(p, exec[p].job)
        BY <1>0, <2>2, <4>1 DEF Reportable
      <4> QED
        BY <3>1, <4>2 DEF Report
    <3>2. job' = job
      BY <1>1, <2>2, <3>1 DEF Arrive, StartGet, StartStale, StartCancel, StartRerun,
                              StartCancelStep, StartPlay, DB
    <3> QED
      BY <1>0, <1>1, <2>2, <3>2, ArriveSlot
  <2>3. StartTrigger(s) => run' = "queued"
    BY DEF StartTrigger
  <2> QED
    BY <2>1, <2>2, <2>3
<1>2. ASSUME NEW s \in Slots, Step(s)
      PROVE  run' # "absent"
  BY <1>0, <1>2, StepKeepsRun, StepPC
<1>3. ASSUME NEW p \in Pods, Pod(p)
      PROVE  run' = "absent" => run = "absent" /\ job' = job /\ slot' = slot
  <2>1. exec[p].job \in Jobs
    BY DEF TypeOK, Execs
  <2> QED
    BY <1>0, <1>3, <2>1 DEF Pod, Claim, Runnable, StartJob, Restart, Silence, Heartbeat
<1>4. ASSUME NEW j \in Jobs, Overrun(j)
      PROVE  run' = "absent" => run = "absent" /\ job' = job /\ slot' = slot
  BY <1>0, <1>4 DEF Overrun
<1>5. ASSUME NEW s \in Slots, Crash(s)
      PROVE  run' # "absent"
  BY <1>0, <1>5 DEF Crash, DB
<1>6. run' = "absent" => run = "absent" /\ job' = job /\ slot' = slot
  BY <1>1, <1>2, <1>3, <1>4, <1>5 DEF Next, vars
<1> QED
  BY <1>6 DEF PushIsFirst

=============================================================================
