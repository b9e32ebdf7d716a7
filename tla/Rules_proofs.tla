---------------------------- MODULE Rules_proofs ----------------------------
(***************************************************************************)
(* What the modules that MCRules runs together promise on their own, for   *)
(* every choice of their constants: the clocks of a runner and of the API, *)
(* the tags of a repository, the pages of its wiki, the variables and      *)
(* secrets of its jobs, the names of its images, and the way from a        *)
(* configuration to the jobs of a run.                                     *)
(***************************************************************************)
EXTENDS MCRules,
        FiniteSetTheorems, SequenceTheorems, WellFoundedInduction, TLAPS

(***************************************************************************)
(* RunnersSound for every choice of the five periods under which a long    *)
(* poll and one pause between two heartbeats fit into both staleness       *)
(* limits: the relation that the constants of cicd.rs (90 s, 180 s) and of *)
(* the runner (55 s, 30 s) have to keep.                                   *)
(***************************************************************************)

\* The answer to a heartbeat is at most a poll and a pause old.
Patient == PollUnits + BeatUnits <= InstanceStale /\ PollUnits + BeatUnits <= RunnerOffline

Ages == Nat \cup {Never}
Heard(n) == instSeen \in 0..n /\ seen \in 0..n

\* ClockTypeOK, and what it leaves open.
Typed ==
  /\ ClockTypeOK
  /\ goneFor \in Ages
  /\ tokenValid \in BOOLEAN /\ givenUp \in BOOLEAN

\* A job is held outside a poll, and a new one before any time has passed.
Placed ==
  /\ HasJob => loop \in {"beat", "slot", "stopping"}
  /\ loop = "beat" /\ HasJob => beating = 0

\* How old the API's news of a process is that has lost no request.
Fresh ==
  lost = 0 /\ tokenValid =>
    /\ ~givenUp
    /\ loop = "beat" /\ HasJob => Heard(PollUnits + BeatUnits)
    /\ loop = "poll" => Heard(polled + BeatUnits)
    /\ loop = "slot" /\ ~HasJob => Heard(BeatUnits)
    /\ loop \in {"slot", "stopping"} /\ HasJob => Heard(beating)

\* Nothing is heard of a process that is gone, and each pass of the checker
\* since its instance turned stale has found its job.
Gone ==
  goneFor # Never =>
    /\ ~Alive /\ ~HasJob
    /\ instSeen = Never \/ instSeen >= goneFor \/ instSeen > InstanceStale
    /\ jobRow = "running" => goneFor <= InstanceStale + checked

ClockInv == Typed /\ Placed /\ Fresh /\ Gone

-----------------------------------------------------------------------------
LEMMA Units ==
  /\ PollUnits \in Nat /\ BeatUnits \in Nat /\ InstanceStale \in Nat
  /\ RunnerOffline \in Nat /\ CheckUnits \in Nat /\ MaxLost \in Nat
  /\ Never \notin Nat /\ BeatUnits > 0
BY ClockAssumption

LEMMA ClockInitial == ClockInit => ClockInv
<1> SUFFICES ASSUME ClockInit PROVE ClockInv
  OBVIOUS
<1>1. ~HasJob /\ Alive /\ goneFor = Never /\ loop = "beat"
  BY DEF ClockInit, HasJob, Alive
<1>2. ClockTypeOK
  BY <1>1, Units DEF ClockInit, ClockTypeOK
<1>3. Typed
  BY <1>2, Units DEF ClockInit, Typed, Ages
<1>4. Placed /\ Gone
  BY <1>1 DEF Placed, Gone
<1>5. ~givenUp
  BY DEF ClockInit
<1>6. Fresh
  BY <1>1, <1>5 DEF Fresh
<1> QED
  BY <1>3, <1>4, <1>6 DEF ClockInv

\* A pass of the checker, or of the claim, when news is fresh enough keeps it.
LEMMA MarkStaleKeeps ==
  ASSUME ClockInv, Patient, MarkStale
  PROVE  /\ jobRow' \in {"none", "running", "done", "failure"}
         /\ jobRow = "none" => jobRow' = "none"
         /\ jobRow # "none" => jobRow' # "none"
         /\ jobRow' = "running" => jobRow = "running" /\ ~LostJob
         /\ status' \in {"online", "busy", "offline"}
         /\ instSeen' \in 0..InstanceStale + 1 \cup {Never}
         /\ givenUp' \in BOOLEAN
         /\ seen' = seen
         /\ \A n \in 0..(PollUnits + BeatUnits) : Heard(n) => Heard(n)' /\ givenUp' = givenUp
         /\ ~HasJob => givenUp' = givenUp
         /\ instSeen' = Never \/ instSeen' = instSeen
<1>1. /\ jobRow' \in {"none", "running", "done", "failure"}
      /\ jobRow = "none" => jobRow' = "none"
      /\ jobRow # "none" => jobRow' # "none"
      /\ jobRow' = "running" => jobRow = "running" /\ ~LostJob
  BY DEF MarkStale, ClockInv, Typed, ClockTypeOK, LostJob
<1>2. status' \in {"online", "busy", "offline"}
  BY DEF MarkStale, ClockInv, Typed, ClockTypeOK
<1>3. /\ instSeen' \in 0..InstanceStale + 1 \cup {Never}
      /\ instSeen' = Never \/ instSeen' = instSeen
  BY DEF MarkStale, ClockInv, Typed, ClockTypeOK
<1>4. givenUp' \in BOOLEAN /\ (~HasJob => givenUp' = givenUp)
  BY DEF MarkStale, ClockInv, Typed
<1>5. seen' = seen
  BY DEF MarkStale
<1>6. ASSUME NEW n \in 0..(PollUnits + BeatUnits), Heard(n)
      PROVE  Heard(n)' /\ givenUp' = givenUp
  <2>1. n \in Nat /\ n <= InstanceStale /\ n <= RunnerOffline
    BY Units DEF Patient
  <2>2. ~Stale(instSeen, InstanceStale) /\ ~Stale(seen, RunnerOffline)
    BY <1>6, <2>1, Units DEF Stale, Heard
  <2>3. givenUp' = givenUp
    BY <2>2 DEF MarkStale, LostJob, ClockInv, Typed
  <2>4. instSeen' = instSeen
    BY <2>2 DEF MarkStale
  <2> QED
    BY <1>6, <2>3, <2>4, <1>5 DEF Heard
<1> QED
  BY <1>1, <1>2, <1>3, <1>4, <1>5, <1>6

-----------------------------------------------------------------------------
(* Every step keeps the invariant. *)

LEMMA CheckKeeps == ASSUME ClockInv, Patient, Check PROVE ClockInv'
<1>1. /\ MarkStale /\ checked = CheckUnits /\ checked' = 0
      /\ UNCHANGED <<loop, polled, beating, tokenValid, goneFor, lost>>
  BY DEF Check
<1> USE <1>1, MarkStaleKeeps, Units
<1>2. HasJob' = HasJob /\ Alive' = Alive
  BY DEF HasJob, Alive
<1>3. Typed'
  BY <1>2 DEF ClockInv, Typed, ClockTypeOK
<1>4. Placed'
  BY <1>2 DEF ClockInv, Placed
<1>5. Fresh'
  <2> SUFFICES ASSUME lost = 0, tokenValid PROVE Fresh'
    BY DEF Fresh
  <2>1. givenUp' = FALSE
    <3>1. CASE ~HasJob
      BY <3>1 DEF ClockInv, Fresh, Typed
    <3>2. CASE HasJob
      <4>1. \E n \in 0..(PollUnits + BeatUnits) : Heard(n)
        <5>1. loop = "beat" => Heard(PollUnits + BeatUnits)
          BY <3>2 DEF ClockInv, Fresh
        <5>2. loop \in {"slot", "stopping"} => Heard(beating) /\ beating \in 0..(PollUnits + BeatUnits)
          BY <3>2 DEF ClockInv, Fresh, Typed, ClockTypeOK, HasJob
        <5> QED
          BY <3>2, <5>1, <5>2 DEF ClockInv, Placed
      <4> QED
        BY <4>1 DEF ClockInv, Fresh, Typed
    <3> QED
      BY <3>1, <3>2
  <2>2. loop = "beat" /\ HasJob => Heard(PollUnits + BeatUnits)'
    BY DEF ClockInv, Fresh
  <2>3. loop = "poll" => Heard(polled + BeatUnits)'
    <3>1. loop = "poll" => Heard(polled + BeatUnits) /\ polled + BeatUnits \in 0..(PollUnits + BeatUnits)
      BY DEF ClockInv, Fresh, Typed, ClockTypeOK
    <3> QED
      BY <3>1 DEF Heard
  <2>4. loop = "slot" /\ ~HasJob => Heard(BeatUnits)'
    <3>1. BeatUnits \in 0..(PollUnits + BeatUnits)
      OBVIOUS
    <3> QED
      BY <3>1 DEF ClockInv, Fresh
  <2>5. loop \in {"slot", "stopping"} /\ HasJob => Heard(beating)'
    <3>1. loop \in {"slot", "stopping"} /\ HasJob
            => Heard(beating) /\ beating \in 0..(PollUnits + BeatUnits)
      BY DEF ClockInv, Fresh, Typed, ClockTypeOK, HasJob
    <3> QED
      BY <3>1 DEF Heard
  <2> QED
    BY <1>2, <2>1, <2>2, <2>3, <2>4, <2>5 DEF Fresh, Heard
<1>6. Gone'
  <2> SUFFICES ASSUME goneFor # Never PROVE Gone'
    BY DEF Gone
  <2>1. instSeen' = Never \/ instSeen' >= goneFor' \/ instSeen' > InstanceStale
    BY DEF ClockInv, Gone
  <2>2. jobRow' = "running" => goneFor' <= InstanceStale + checked'
    <3> SUFFICES ASSUME jobRow' = "running" PROVE goneFor <= InstanceStale
      BY DEF ClockInv, Typed, Ages
    <3>1. ~Stale(instSeen, InstanceStale)
      BY DEF LostJob
    <3> QED
      BY <3>1 DEF Stale, ClockInv, Gone, Typed, ClockTypeOK, Ages
  <2> QED
    BY <1>2, <2>1, <2>2 DEF Gone, ClockInv
<1> QED
  BY <1>3, <1>4, <1>5, <1>6 DEF ClockInv

LEMMA HeartbeatKeeps ==
  ASSUME ClockInv, Heartbeat
  PROVE  /\ jobRow' = jobRow
         /\ status' \in {"online", "busy", "offline"}
         /\ instSeen' \in 0..InstanceStale + 1 \cup {Never}
         /\ seen' \in 0..RunnerOffline + 1 \cup {Never}
         /\ lost' \in 0..MaxLost
         /\ lost' = 0 /\ tokenValid => lost = 0 /\ seen' = 0 /\ instSeen' = 0
BY Units DEF Heartbeat, BusyIf, ClockInv, Typed, ClockTypeOK, apiVars

LEMMA LoopBeatKeeps == ASSUME ClockInv, Patient, LoopBeat PROVE ClockInv'
<1>1. /\ Heartbeat /\ loop = "beat" /\ loop' = "slot"
      /\ UNCHANGED <<polled, beating, checked, tokenValid, goneFor, givenUp>>
  BY DEF LoopBeat
<1> USE <1>1, HeartbeatKeeps, Units
<1>2. HasJob' = HasJob /\ Alive /\ Alive'
  BY DEF HasJob, Alive
<1>3. Typed'
  BY <1>2 DEF ClockInv, Typed, ClockTypeOK
<1>4. Placed' /\ Gone'
  BY <1>2 DEF ClockInv, Placed, Gone
<1>5. Fresh'
  BY <1>2 DEF ClockInv, Fresh, Heard, Typed, ClockTypeOK, HasJob
<1> QED
  BY <1>3, <1>4, <1>5 DEF ClockInv

LEMMA JobBeatKeeps == ASSUME ClockInv, Patient, JobBeat PROVE ClockInv'
<1>1. /\ Heartbeat /\ beating = BeatUnits /\ beating' = 0 /\ HasJob
      /\ UNCHANGED <<loop, polled, checked, tokenValid, goneFor, givenUp>>
  BY DEF JobBeat, JobBeatDue
<1> USE <1>1, HeartbeatKeeps, Units
<1>2. HasJob' /\ Alive' = Alive
  BY DEF HasJob, Alive
<1>3. Typed'
  BY <1>2 DEF ClockInv, Typed, ClockTypeOK
<1>4. Placed' /\ Gone'
  BY <1>2 DEF ClockInv, Placed, Gone
<1>5. Fresh'
  BY <1>2 DEF ClockInv, Fresh, Heard, Typed, Placed
<1> QED
  BY <1>3, <1>4, <1>5 DEF ClockInv

LEMMA StartPollKeeps == ASSUME ClockInv, Patient, StartPoll PROVE ClockInv'
<1>1. /\ loop = "slot" /\ ~HasJob
      /\ UNCHANGED <<beating, checked, tokenValid, goneFor, lost>>
  BY DEF StartPoll
<1>2. ~HasJob' /\ Alive /\ goneFor = Never
  BY <1>1 DEF HasJob, Alive, ClockInv, Gone
<1>3. CASE tokenValid
  <2>1. loop' = "poll" /\ polled' = 0 /\ MarkStale
    BY <1>3 DEF StartPoll
  <2>2. Typed'
    BY <1>1, <1>2, <2>1, MarkStaleKeeps, Units DEF ClockInv, Typed, ClockTypeOK
  <2>3. Placed' /\ Gone'
    BY <1>1, <1>2, <2>1 DEF Placed, Gone
  <2>4. Fresh'
    <3>1. BeatUnits \in 0..(PollUnits + BeatUnits) /\ 0 + BeatUnits = BeatUnits
      BY Units
    <3> QED
      BY <1>1, <1>2, <2>1, <3>1, MarkStaleKeeps DEF ClockInv, Fresh, Heard
  <2> QED
    BY <2>2, <2>3, <2>4 DEF ClockInv
<1>4. CASE ~tokenValid
  <2>1. loop' = "held" /\ UNCHANGED <<jobRow, instSeen, seen, status, polled, givenUp>>
    BY <1>4 DEF StartPoll, apiVars
  <2> QED
    BY <1>1, <1>2, <1>4, <2>1 DEF ClockInv, Typed, ClockTypeOK, Placed, Gone, Fresh
<1> QED
  BY <1>3, <1>4

LEMMA PollClaimsKeeps == ASSUME ClockInv, Patient, PollClaims PROVE ClockInv'
<1>1. ~HasJob /\ Alive /\ goneFor = Never /\ HasJob' /\ Alive'
  BY Units DEF PollClaims, ClockInv, Placed, Gone, Alive, HasJob
<1>2. Typed'
  BY <1>1, Units DEF PollClaims, ClockInv, Typed, ClockTypeOK
<1>3. Placed' /\ Gone'
  BY <1>1 DEF PollClaims, Placed, Gone
<1>4. Fresh'
  BY <1>1, Units DEF PollClaims, ClockInv, Fresh, Heard, Typed, ClockTypeOK
<1> QED
  BY <1>2, <1>3, <1>4 DEF ClockInv

LEMMA PollEndsKeeps ==
  ASSUME ClockInv, Patient, NEW arrives \in BOOLEAN, PollEnds(arrives)
  PROVE  ClockInv'
<1>1. ~HasJob /\ Alive /\ goneFor = Never /\ ~HasJob' /\ Alive'
  BY DEF PollEnds, ClockInv, Placed, Gone, Alive, HasJob
<1>2. lost' \in 0..MaxLost /\ (lost' = 0 => lost = 0)
  BY Units DEF PollEnds, ClockInv, Typed, ClockTypeOK
<1>3. Typed'
  BY <1>1, <1>2, Units DEF PollEnds, apiVars, ClockInv, Typed, ClockTypeOK
<1>4. Placed' /\ Gone'
  BY <1>1 DEF PollEnds, Placed, Gone
<1>5. Fresh'
  BY <1>1, <1>2 DEF PollEnds, apiVars, ClockInv, Fresh
<1> QED
  BY <1>3, <1>4, <1>5 DEF ClockInv

LEMMA JobEndsKeeps ==
  ASSUME ClockInv, Patient, NEW arrives \in BOOLEAN, JobEnds(arrives)
  PROVE  ClockInv'
<1>1. /\ HasJob /\ ~HasJob' /\ beating' = Never /\ Alive /\ Alive' /\ goneFor = Never
      /\ UNCHANGED <<loop, polled, instSeen, checked, tokenValid, goneFor, givenUp>>
  BY DEF JobEnds, ClockInv, Placed, Gone, Alive, HasJob
<1>2. lost' \in 0..MaxLost /\ (lost' = 0 => lost = 0)
  BY Units DEF JobEnds, ClockInv, Typed, ClockTypeOK
<1>3. /\ jobRow' \in {"none", "running", "done", "failure"}
      /\ status' \in {"online", "busy", "offline"}
      /\ seen' = seen \/ seen' = 0
  BY DEF JobEnds, ClockInv, Typed, ClockTypeOK
<1>4. Typed'
  BY <1>1, <1>2, <1>3, Units DEF ClockInv, Typed, ClockTypeOK
<1>5. Placed' /\ Gone'
  BY <1>1 DEF Placed, Gone
<1>6. Fresh'
  BY <1>1, <1>2, <1>3, Units DEF ClockInv, Placed, Fresh, Heard, Typed, ClockTypeOK, HasJob
<1> QED
  BY <1>4, <1>5, <1>6 DEF ClockInv

LEMMA EndingsKeep ==
  ASSUME ClockInv, Patient, Stop \/ Deregister \/ Die \/ RotateToken
  PROVE  ClockInv'
<1>1. CASE Stop
  <2>1. HasJob' = HasJob /\ Alive /\ Alive' /\ goneFor = Never
    BY <1>1 DEF Stop, HasJob, Alive, ClockInv, Gone
  <2>2. Typed' /\ Placed' /\ Gone'
    BY <1>1, <2>1, Units DEF Stop, apiVars, ClockInv, Typed, ClockTypeOK, Placed, Gone
  <2>3. Fresh'
    BY <1>1, <2>1 DEF Stop, apiVars, ClockInv, Placed, Fresh, Heard
  <2> QED
    BY <2>2, <2>3 DEF ClockInv
<1>2. CASE Deregister
  <2>1. ~HasJob /\ ~HasJob' /\ ~Alive' /\ goneFor' = 0 /\ loop' = "stopped"
    BY <1>2 DEF Deregister, HasJob, Alive
  <2>2. Typed' /\ Placed'
    BY <1>2, <2>1, Units DEF Deregister, ClockInv, Typed, ClockTypeOK, Placed, Ages
  <2>3. Gone'
    BY <1>2, <2>1, Units DEF Deregister, ClockInv, Typed, ClockTypeOK, Gone
  <2>4. Fresh'
    BY <1>2, <2>1 DEF Deregister, ClockInv, Fresh
  <2> QED
    BY <2>2, <2>3, <2>4 DEF ClockInv
<1>3. CASE Die
  <2>1. ~HasJob' /\ ~Alive' /\ goneFor' = 0 /\ loop' = "dead" /\ beating' = Never
    BY <1>3 DEF Die, HasJob, Alive
  <2>2. Typed' /\ Placed'
    BY <1>3, <2>1, Units DEF Die, apiVars, ClockInv, Typed, ClockTypeOK, Placed, Ages
  <2>3. Gone'
    BY <1>3, <2>1, Units DEF Die, apiVars, ClockInv, Typed, ClockTypeOK, Gone
  <2>4. Fresh'
    BY <1>3, <2>1 DEF Die, apiVars, ClockInv, Fresh
  <2> QED
    BY <2>2, <2>3, <2>4 DEF ClockInv
<1>4. CASE RotateToken
  <2>1. HasJob' = HasJob /\ Alive' = Alive
    BY <1>4 DEF RotateToken, HasJob, Alive
  <2> QED
    BY <1>4, <2>1, Units DEF RotateToken, ClockInv, Typed, ClockTypeOK, Placed, Gone, Fresh
<1> QED
  BY <1>1, <1>2, <1>3, <1>4

LEMMA TickKeeps == ASSUME ClockInv, Patient, Tick PROVE ClockInv'
<1>1. /\ HasJob' = HasJob /\ Alive' = Alive
      /\ HasJob => beating \in Nat /\ beating' = beating + 1 /\ beating' \in 0..BeatUnits
      /\ ~HasJob => beating' = beating
  BY Units DEF Tick, ClockInv, Typed, ClockTypeOK, HasJob, Alive, JobBeatDue
<1>2. /\ instSeen' \in 0..InstanceStale + 1 \cup {Never}
      /\ seen' \in 0..RunnerOffline + 1 \cup {Never}
      /\ \A n \in 0..(PollUnits + BeatUnits) : Heard(n) => Heard(n + 1)'
  BY Units DEF Tick, Older, ClockInv, Typed, ClockTypeOK, Heard, Patient
<1>3. polled' \in 0..PollUnits /\ (loop = "poll" => polled' = polled + 1)
  BY Units DEF Tick, ClockInv, Typed, ClockTypeOK
<1>4. goneFor' \in Ages /\ (goneFor' # Never <=> goneFor # Never)
  BY Units DEF Tick, ClockInv, Typed, Ages, Older
<1>5. Typed'
  <2>1. beating' \in 0..BeatUnits \cup {Never}
    BY <1>1, Units DEF ClockInv, Typed, HasJob
  <2>2. checked' \in 0..CheckUnits
    BY Units DEF Tick, ClockInv, Typed, ClockTypeOK
  <2>3. HasJob' => jobRow' # "none" /\ Alive'
    BY <1>1 DEF Tick, ClockInv, Typed, ClockTypeOK
  <2>4. /\ loop' = loop /\ jobRow' = jobRow /\ status' = status /\ lost' = lost
        /\ tokenValid' = tokenValid /\ givenUp' = givenUp
    BY DEF Tick
  <2> QED
    BY <1>2, <1>3, <1>4, <2>1, <2>2, <2>3, <2>4 DEF ClockInv, Typed, ClockTypeOK
<1>6. Placed'
  BY <1>1 DEF Tick, ClockInv, Placed
<1>7. Fresh'
  <2> SUFFICES ASSUME lost = 0, tokenValid PROVE Fresh'
    BY DEF Tick, Fresh
  <2>1. loop = "poll" => Heard(polled + BeatUnits)'
    <3>1. ASSUME loop = "poll" PROVE Heard(polled + BeatUnits)'
      <4>1. Heard(polled + BeatUnits) /\ polled + BeatUnits \in 0..(PollUnits + BeatUnits)
        BY <3>1, Units DEF ClockInv, Fresh, Typed, ClockTypeOK
      <4>2. \A n \in Nat : Heard(n + 1)' <=> (instSeen' \in 0..(n + 1) /\ seen' \in 0..(n + 1))
        BY DEF Heard
      <4>3. polled \in Nat /\ polled' = polled + 1
        BY <1>3, <3>1 DEF ClockInv, Typed, ClockTypeOK
      <4>4. /\ polled + BeatUnits \in Nat
            /\ polled' + BeatUnits = (polled + BeatUnits) + 1
        BY <4>3, Units
      <4> QED
        BY <1>2, <4>1, <4>2, <4>4 DEF Heard
    <3> QED
      BY <3>1
  <2>2. loop \in {"slot", "stopping"} /\ HasJob => Heard(beating)'
    BY <1>1, <1>2, Units DEF ClockInv, Fresh, Heard
  <2> QED
    BY <1>1, <2>1, <2>2 DEF Tick, ClockInv, Fresh
<1>8. Gone'
  <2> SUFFICES ASSUME goneFor # Never PROVE Gone'
    BY <1>4 DEF Gone
  <2>1. /\ goneFor \in Nat /\ goneFor' \in Nat
        /\ goneFor' <= goneFor + 1
    BY Units DEF Tick, Older, ClockInv, Typed, Ages
  <2>2. instSeen' = Never \/ instSeen' >= goneFor' \/ instSeen' > InstanceStale
    BY <2>1, Units DEF Tick, Older, ClockInv, Gone, Typed, ClockTypeOK
  <2>3. jobRow' = "running" => goneFor' <= InstanceStale + checked'
    BY <2>1, Units DEF Tick, ClockInv, Gone, Typed, ClockTypeOK
  <2> QED
    BY <1>1, <1>4, <2>2, <2>3 DEF ClockInv, Gone
<1> QED
  BY <1>5, <1>6, <1>7, <1>8 DEF ClockInv

-----------------------------------------------------------------------------
\* RunnersSound: while a poll and a pause between heartbeats fit into both
\* staleness limits, the API never fails a job of a process whose requests all
\* arrive, and finds the job of a process that is gone within the instance
\* limit and one pass of the checker (mark_stale_runners_offline).
THEOREM RunnersAreSound == Patient => (ClockSpec => []RunnersSound)
<1> SUFFICES ASSUME Patient PROVE ClockSpec => []RunnersSound
  OBVIOUS
<1>1. ClockInit => ClockInv
  BY ClockInitial
<1>2. ClockInv /\ [ClockNext]_clockVars => ClockInv'
  <2> SUFFICES ASSUME ClockInv, [ClockNext]_clockVars PROVE ClockInv'
    OBVIOUS
  <2>1. CASE UNCHANGED clockVars
    BY <2>1 DEF clockVars, ClockInv, Typed, ClockTypeOK, Placed, Fresh, Gone, Heard, HasJob, Alive
  <2>2. CASE ClockNext
    BY <2>2, TickKeeps, CheckKeeps, LoopBeatKeeps, StartPollKeeps, PollClaimsKeeps,
       JobBeatKeeps, PollEndsKeeps, JobEndsKeeps, EndingsKeep DEF ClockNext
  <2> QED
    BY <2>1, <2>2
<1>3. ClockInv => RunnersSound
  <2> SUFFICES ASSUME ClockInv PROVE RunnersSound
    OBVIOUS
  <2>1. LiveRunnerKept
    BY DEF ClockInv, Fresh, LiveRunnerKept
  <2>2. DeadRunnerFound
    BY Units DEF ClockInv, Gone, DeadRunnerFound, Typed, ClockTypeOK, Ages
  <2> QED
    BY <2>1, <2>2 DEF RunnersSound
<1> QED
  BY <1>1, <1>2, <1>3, PTL DEF ClockSpec

-----------------------------------------------------------------------------
(***************************************************************************)
(* TagsAgree for any tags, commits and clients and any number of requests. *)
(***************************************************************************)
Agreed(t) == tagRef[t] = answered[t] /\ tagRef[t] = told[t]

(* What each place of a request knows about the request itself               *)
Sane(c) ==
  LET r == tagReq[c]
  IN  /\ r.pc # "off" => r.name \in TagNames /\ r.final \in TagNames
      /\ r.op # "update" => r.final = r.name
      /\ r.pc \in {"head", "list", "free", "again", "drop"} => r.op \in {"update", "delete"}
      /\ r.pc \in {"free", "again", "drop", "exists", "tag", "find", "rev"} =>
           r.op = "delete" \/ r.target \in Commits
      /\ r.pc \in {"exists", "tag", "find", "rev"} => r.op # "delete"

(* A request one of whose names is not in doubt has its names for itself.    *)
Sure(c) == ~(Touches(tagReq[c]) \subseteq doubtful)
Alone(c) == \A d \in TagClients \ {c} : Touches(tagReq[d]) \cap Touches(tagReq[c]) = {}

(* How far such a request has come: it has changed nothing, or has dropped    *)
(* the tag it replaces, or has made the new one.                             *)
Dropped(r) == r.op = "update" /\ r.pc \in {"exists", "tag"}
Made(r) == r.pc \in {"find", "rev"}
Midway(c) ==
  LET r == tagReq[c]
  IN  /\ ~Dropped(r) /\ ~Made(r) => \A t \in Touches(r) \ doubtful : Agreed(t)
      /\ r.op = "update" /\ r.pc \in {"again", "drop"} /\ r.name # r.final => ~Tagged(r.final)
      /\ Dropped(r) => ~Tagged(r.name) /\ ~Tagged(r.final)
      /\ Made(r) => tagRef[r.final] = r.target /\ (r.name # r.final => ~Tagged(r.name))

TagsInv ==
  /\ TagsTypeOK /\ TagsAgree
  /\ \A c \in TagClients : Sane(c) /\ (Sure(c) => Alone(c) /\ Midway(c))

-----------------------------------------------------------------------------
LEMMA TagsInitially == TagsInit => TagsInv
<1> SUFFICES ASSUME TagsInit PROVE TagsInv  OBVIOUS
<1> USE TagAssumption DEF TagsInit, NoReq
<1>1. TagsTypeOK  BY DEF TagsTypeOK
<1>2. TagsAgree  BY DEF TagsAgree
<1>3. \A c \in TagClients : Touches(tagReq[c]) = {} /\ Sane(c)  BY DEF Touches, Sane
<1>4. QED  BY <1>1, <1>2, <1>3 DEF TagsInv, Sure

(* A step of one client that keeps to its own names keeps the invariant, if  *)
(* the client's own part of it holds, and what it leaves is agreed upon.     *)
LEMMA OwnStep ==
  ASSUME TagsInv, TagsTypeOK', NEW c \in TagClients,
         \A d \in TagClients \ {c} : tagReq'[d] = tagReq[d],
         Touches(tagReq'[c]) \in {{}, Touches(tagReq[c])},
         doubtful \subseteq doubtful',
         \A t \in TagNames \ Touches(tagReq[c]) :
           tagRef'[t] = tagRef[t] /\ answered'[t] = answered[t] /\ told'[t] = told[t],
         Sane(c)',
         Sure(c) /\ Touches(tagReq'[c]) # {} => Midway(c)',
         Sure(c) /\ Touches(tagReq'[c]) = {} =>
           \A t \in Touches(tagReq[c]) \ doubtful' : Agreed(t)'
  PROVE  TagsInv'
<1>1. TagsAgree'
  <2> SUFFICES ASSUME NEW t \in TagNames \ doubtful',
                      t \notin UNION {Touches(tagReq'[d]) : d \in TagClients}
               PROVE  Agreed(t)'
    BY DEF TagsAgree, Agreed
  <2>1. t \notin Touches(tagReq'[c])  OBVIOUS
  <2>2. \A d \in TagClients \ {c} : t \notin Touches(tagReq[d])  OBVIOUS
  <2>3. CASE t \in Touches(tagReq[c])
    <3>1. Sure(c) /\ Touches(tagReq'[c]) = {}  BY <2>1, <2>3 DEF Sure
    <3>2. QED  BY <2>3, <3>1
  <2>4. CASE t \notin Touches(tagReq[c])
    <3>1. t \notin UNION {Touches(tagReq[d]) : d \in TagClients}  BY <2>2, <2>4
    <3>2. Agreed(t)  BY <3>1 DEF TagsInv, TagsAgree, Agreed
    <3>3. QED  BY <2>4, <3>2 DEF Agreed
  <2>5. QED  BY <2>3, <2>4
<1>2. ASSUME NEW d \in TagClients PROVE Sane(d)' /\ (Sure(d)' => Alone(d)' /\ Midway(d)')
  <2>1. CASE d = c
    <3>1. Sure(c)' => Sure(c) /\ Touches(tagReq'[c]) = Touches(tagReq[c])  BY DEF Sure
    <3>2. Sure(c)' => Touches(tagReq'[c]) # {}  BY DEF Sure
    <3>3. Sure(c)' => Alone(c)'  BY <3>1 DEF TagsInv, Alone
    <3>4. QED  BY <2>1, <3>1, <3>2, <3>3
  <2>2. CASE d # c
    <3>1. tagReq'[d] = tagReq[d]  BY <2>2
    <3>2. Sane(d)'  BY <3>1 DEF Sane, TagsInv
    <3> SUFFICES ASSUME Sure(d)' PROVE Alone(d)' /\ Midway(d)'  BY <3>2
    <3>3. Sure(d) /\ Alone(d) /\ Midway(d)  BY <3>1 DEF Sure, TagsInv
    <3>4. Alone(d)'  BY <2>2, <3>1, <3>3 DEF Alone
    <3>5. Touches(tagReq[c]) \cap Touches(tagReq[d]) = {}  BY <2>2, <3>3 DEF Alone
    <3>6. Touches(tagReq[d]) \subseteq TagNames  BY DEF Touches, TagsInv, Sane
    <3>7. \A t \in Touches(tagReq[d]) :
            tagRef'[t] = tagRef[t] /\ answered'[t] = answered[t] /\ told'[t] = told[t]
      BY <3>5, <3>6
    <3>8. Touches(tagReq[d]) = {tagReq[d].name, tagReq[d].final}  BY <3>3 DEF Sure, Touches
    <3>9. Midway(d)'  BY <3>1, <3>3, <3>7, <3>8 DEF Midway, Agreed, Dropped, Made, Tagged
    <3>10. QED  BY <3>4, <3>9
  <2>3. QED  BY <2>1, <2>2
<1>3. QED  BY <1>1, <1>2 DEF TagsInv

(* What a typed request, and a request that is over, amounts to              *)
LEMMA Requests ==
  ASSUME TagsInv, NEW c \in TagClients
  PROVE  LET r == tagReq[c] IN
         /\ Sane(c) /\ (Sure(c) => Alone(c) /\ Midway(c))
         /\ r.pc # "off" => /\ Touches(r) = {r.name, r.final}
                            /\ r.name \in TagNames /\ r.final \in TagNames
BY DEF TagsInv, Touches, Sane

(* A request that gives up nothing it changed leaves what was agreed.        *)
LEMMA Unchanged ==
  ASSUME TagsInv, NEW c \in TagClients, ~Dropped(tagReq[c]), ~Made(tagReq[c]), Sure(c)
  PROVE  \A t \in Touches(tagReq[c]) \ doubtful : Agreed(t)
BY DEF TagsInv, Midway

LEMMA RefuseStep ==
  ASSUME TagsInv, NEW c \in TagClients, Refuse(c), UNCHANGED <<tagRef, Answers>>,
         doubtful \subseteq doubtful', doubtful' \subseteq TagNames,
         tagAsks' \in 0..MaxTagAsks, tagFaults' \in 0..MaxTagFaults,
         (~Dropped(tagReq[c]) /\ ~Made(tagReq[c])) \/ Touches(tagReq[c]) \subseteq doubtful'
  PROVE  TagsInv'
<1>1. TagsTypeOK'
  BY DEF TagsInv, TagsTypeOK, Refuse, NoReq, Answers
<1>2. tagReq'[c] = NoReq /\ \A d \in TagClients \ {c} : tagReq'[d] = tagReq[d]
  BY DEF TagsInv, TagsTypeOK, Refuse
<1>3. Touches(tagReq'[c]) = {}
  BY <1>2 DEF Touches, NoReq
<1>4. Sane(c)'
  BY <1>2 DEF Sane, NoReq
<1>5. Sure(c) => \A t \in Touches(tagReq[c]) \ doubtful' : Agreed(t)'
  BY Unchanged DEF Agreed, Answers
<1>6. QED
  BY OwnStep, <1>1, <1>2, <1>3, <1>4, <1>5 DEF Answers

(* A client reads and goes on.                                               *)
LEMMA ReadStep ==
  ASSUME TagsInv, NEW c \in TagClients, UNCHANGED <<tagRef, Answers, doubtful, TagBounds>>,
         tagReq[c].pc # "off", tagReq'[c].pc # "off",
         \A d \in TagClients \ {c} : tagReq'[d] = tagReq[d],
         tagReq'[c].name = tagReq[c].name, tagReq'[c].final = tagReq[c].final,
         TagsTypeOK', Sane(c)', Sure(c) => Midway(c)'
  PROVE  TagsInv'
<1>1. Touches(tagReq'[c]) = Touches(tagReq[c]) /\ Touches(tagReq'[c]) # {}
  BY DEF Touches
<1>2. QED
  BY OwnStep, <1>1 DEF Answers

(* GoTag moves the program counter of the client and nothing else of it.     *)
Moved(c, pc) ==
  LET r == tagReq[c]  s == tagReq'[c]
  IN  /\ s.pc = pc /\ s.op = r.op /\ s.name = r.name /\ s.final = r.final
      /\ s.target = r.target
      /\ \A d \in TagClients \ {c} : tagReq'[d] = tagReq[d]
LEMMA GoesTo ==
  ASSUME TagsTypeOK, NEW c \in TagClients, NEW pc, GoTag(c, pc)
  PROVE  Moved(c, pc)
BY DEF TagsTypeOK, GoTag, Moved

-----------------------------------------------------------------------------
LEMMA ReadHeadStep == ASSUME TagsInv, NEW c \in TagClients, ReadHead(c) PROVE TagsInv'
<1> DEFINE r == tagReq[c]
<1> USE DEF ReadHead, OnTag
<1>1. CASE ~Tagged(r.name)
  BY <1>1, RefuseStep DEF Dropped, Made, TagBounds, TagsInv, TagsTypeOK
<1>2. CASE Tagged(r.name)
  <2>1. TagsTypeOK' /\ tagReq' = [tagReq EXCEPT ![c].pc = "list", ![c].old = tagRef[r.name]]
    BY <1>2, Requests DEF TagsInv, TagsTypeOK, Answers, TagBounds
  <2>2. /\ tagReq'[c].pc = "list" /\ tagReq'[c].name = r.name /\ tagReq'[c].final = r.final
        /\ tagReq'[c].op = r.op /\ \A d \in TagClients \ {c} : tagReq'[d] = tagReq[d]
    BY <2>1 DEF TagsInv, TagsTypeOK
  <2>3. Sane(c)'
    BY <2>2, Requests DEF Sane
  <2>4. Sure(c) => Midway(c)'
    BY <2>2, Requests DEF Midway, Dropped, Made, Agreed, Touches, Answers
  <2>5. QED
    BY <2>1, <2>2, <2>3, <2>4, ReadStep
<1>3. QED
  BY <1>1, <1>2

LEMMA ReadCurrentStep == ASSUME TagsInv, NEW c \in TagClients, ReadCurrent(c) PROVE TagsInv'
<1> DEFINE r == tagReq[c]
<1> USE DEF ReadCurrent, OnTag
<1>1. CASE ~Listed(r.name)
  BY <1>1, RefuseStep DEF Dropped, Made, TagBounds, TagsInv, TagsTypeOK
<1>2. CASE Listed(r.name)
  <2> DEFINE pc == IF r.final = r.name THEN "again" ELSE "free"
             target == IF r.target = NoTag THEN tagRef[r.name] ELSE r.target
  <2>1. tagReq' = [tagReq EXCEPT ![c].pc = pc, ![c].target = target]
    BY <1>2
  <2>2. target \in Commits /\ r.name \in TagNames /\ r.final \in TagNames
    BY <1>2, Requests DEF TagsInv, TagsTypeOK, Listed, Tagged
  <2>3. TagsTypeOK'
    <3>1. pc \in {"again", "free"} /\ target \in Commits
      BY <2>2
    <3> HIDE DEF pc, target
    <3>2. QED
      BY <2>1, <3>1 DEF TagsInv, TagsTypeOK, Answers, TagBounds
  <2>4. /\ tagReq'[c].pc = pc /\ tagReq'[c].name = r.name /\ tagReq'[c].final = r.final
        /\ tagReq'[c].op = r.op /\ tagReq'[c].target = target
        /\ \A d \in TagClients \ {c} : tagReq'[d] = tagReq[d]
    BY <2>1 DEF TagsInv, TagsTypeOK
  <2>5. Sane(c)'
    BY <2>2, <2>4, Requests DEF Sane
  <2>6. Sure(c) => Midway(c)'
    BY <2>4, Requests DEF Midway, Dropped, Made, Agreed, Touches, Answers
  <2>7. QED
    BY <2>3, <2>4, <2>5, <2>6, ReadStep
<1>3. QED
  BY <1>1, <1>2

LEMMA NameIsFreeStep == ASSUME TagsInv, NEW c \in TagClients, NameIsFree(c) PROVE TagsInv'
<1> DEFINE r == tagReq[c]
<1> USE DEF NameIsFree, OnTag
<1>1. CASE Tagged(r.final)
  BY <1>1, RefuseStep DEF Dropped, Made, TagBounds, TagsInv, TagsTypeOK
<1>2. CASE ~Tagged(r.final)
  <2>1. TagsTypeOK'
    BY <1>2 DEF TagsInv, TagsTypeOK, Answers, TagBounds, GoTag
  <2>2. GoTag(c, "again")
    BY <1>2
  <2>3. Moved(c, "again")
    BY <2>2, GoesTo DEF TagsInv
  <2>4. Sane(c)'
    BY <2>3, Requests DEF Sane, Moved
  <2>5. Sure(c) => Midway(c)'
    BY <1>2, <2>3, Requests DEF Midway, Dropped, Made, Agreed, Touches, Answers, Moved, Tagged
  <2>6. QED
    BY <2>1, <2>3, <2>4, <2>5, ReadStep DEF Moved
<1>3. QED
  BY <1>1, <1>2

LEMMA ReadAgainStep == ASSUME TagsInv, NEW c \in TagClients, ReadAgain(c) PROVE TagsInv'
<1> DEFINE r == tagReq[c]
<1> USE DEF ReadAgain, OnTag
<1>1. CASE ~Tagged(r.name)
  BY <1>1, RefuseStep DEF Dropped, Made, TagBounds, TagsInv, TagsTypeOK
<1>2. CASE Tagged(r.name)
  <2> DEFINE old == IF r.op = "delete" THEN tagRef[r.name] ELSE r.old
  <2>1. tagReq' = [tagReq EXCEPT ![c].pc = "drop", ![c].old = old]
    BY <1>2 DEF TagsInv, TagsTypeOK
  <2>2. old \in Commits \cup {NoTag}
    BY Requests DEF TagsInv, TagsTypeOK
  <2>3. TagsTypeOK'
    <3> HIDE DEF old
    <3>1. QED
      BY <1>2, <2>1, <2>2 DEF TagsInv, TagsTypeOK, Answers, TagBounds
  <2>4. Moved(c, "drop")
    BY <2>1 DEF TagsInv, TagsTypeOK, Moved
  <2>5. Sane(c)'
    BY <2>4, Requests DEF Sane, Moved
  <2>6. Sure(c) => Midway(c)'
    BY <2>4, Requests DEF Midway, Dropped, Made, Agreed, Touches, Answers, Moved, Tagged
  <2>7. QED
    BY <2>3, <2>4, <2>5, <2>6, ReadStep DEF Moved
<1>3. QED
  BY <1>1, <1>2

LEMMA DropTagStep == ASSUME TagsInv, NEW c \in TagClients, DropTag(c) PROVE TagsInv'
<1> DEFINE r == tagReq[c]
<1> USE DEF DropTag, OnTag
<1>1. /\ r.name \in TagNames /\ r.final \in TagNames /\ Touches(r) = {r.name, r.final}
      /\ r.op \in {"update", "delete"} /\ (r.op = "delete" => r.final = r.name)
  BY Requests DEF Sane
<1>2. tagRef' = [tagRef EXCEPT ![r.name] = NoTag]
  OBVIOUS
<1>3. \A t \in TagNames : tagRef'[t] = IF t = r.name THEN NoTag ELSE tagRef[t]
  BY <1>2 DEF TagsInv, TagsTypeOK
<1>4. CASE r.op = "delete"
  <2>1. /\ Refuse(c) /\ answered' = [answered EXCEPT ![r.name] = NoTag]
        /\ told' = [told EXCEPT ![r.name] = NoTag]
    BY <1>4
  <2>2. TagsTypeOK'
    BY <1>1, <1>2, <2>1 DEF TagsInv, TagsTypeOK, Refuse, NoReq, TagBounds
  <2>3. tagReq'[c] = NoReq /\ \A d \in TagClients \ {c} : tagReq'[d] = tagReq[d]
    BY <2>1 DEF TagsInv, TagsTypeOK, Refuse
  <2>4. Touches(tagReq'[c]) = {} /\ Sane(c)'
    BY <2>3 DEF Touches, Sane, NoReq
  <2>5. \A t \in Touches(r) : Agreed(t)'
    BY <1>1, <1>3, <1>4, <2>1 DEF TagsInv, TagsTypeOK, Agreed
  <2>6. \A t \in TagNames \ Touches(r) :
          tagRef'[t] = tagRef[t] /\ answered'[t] = answered[t] /\ told'[t] = told[t]
    BY <1>1, <1>3, <2>1 DEF TagsInv, TagsTypeOK
  <2>7. QED
    BY OwnStep, <2>2, <2>3, <2>4, <2>5, <2>6
<1>5. CASE r.op = "update"
  <2>1. GoTag(c, "exists") /\ UNCHANGED Answers
    BY <1>5
  <2>2. Moved(c, "exists")
    BY <2>1, GoesTo DEF TagsInv
  <2>3. TagsTypeOK'
    BY <1>1, <1>2, <2>1 DEF TagsInv, TagsTypeOK, GoTag, Answers, TagBounds
  <2>4. Touches(tagReq'[c]) = Touches(r) /\ Touches(r) # {}
    BY <1>1, <2>2 DEF Touches, Moved
  <2>5. Sane(c)'
    BY <1>5, <2>2, Requests DEF Sane, Moved
  <2>6. Sure(c) => Midway(c)'
    BY <1>1, <1>3, <1>5, <2>2, Requests DEF Midway, Dropped, Made, Moved, Tagged
  <2>7. \A t \in TagNames \ Touches(r) :
          tagRef'[t] = tagRef[t] /\ answered'[t] = answered[t] /\ told'[t] = told[t]
    BY <1>1, <1>3, <2>1 DEF Answers
  <2>8. QED
    BY OwnStep, <2>2, <2>3, <2>4, <2>5, <2>6, <2>7 DEF Moved
<1>6. QED
  BY <1>1, <1>4, <1>5

LEMMA CheckExistsStep == ASSUME TagsInv, NEW c \in TagClients, CheckExists(c) PROVE TagsInv'
<1> DEFINE r == tagReq[c]
<1> USE DEF CheckExists, OnTag
<1>1. CASE Tagged(r.final)
  <2>1. Dropped(r) => Touches(r) \subseteq doubtful
    BY <1>1, Requests DEF Midway, Sure
  <2>2. QED
    BY <1>1, <2>1, RefuseStep DEF Made, TagBounds, TagsInv, TagsTypeOK
<1>2. CASE ~Tagged(r.final)
  <2>1. GoTag(c, "tag")
    BY <1>2
  <2>2. Moved(c, "tag")
    BY <2>1, GoesTo DEF TagsInv
  <2>3. TagsTypeOK'
    BY <1>2 DEF TagsInv, TagsTypeOK, Answers, TagBounds, GoTag
  <2>4. Sane(c)'
    BY <2>2, Requests DEF Sane, Moved
  <2>5. Sure(c) => Midway(c)'
    BY <1>2, <2>2, Requests DEF Midway, Dropped, Made, Agreed, Touches, Answers, Moved, Tagged
  <2>6. QED
    BY <2>2, <2>3, <2>4, <2>5, ReadStep DEF Moved
<1>3. QED
  BY <1>1, <1>2

LEMMA WriteTagStep == ASSUME TagsInv, NEW c \in TagClients, WriteTag(c) PROVE TagsInv'
<1> DEFINE r == tagReq[c]
<1> USE DEF WriteTag, OnTag
<1>1. /\ r.name \in TagNames /\ r.final \in TagNames /\ Touches(r) = {r.name, r.final}
      /\ r.op # "delete" /\ r.target \in Commits
  BY Requests DEF Sane
<1>2. CASE r.final \in Blocked
  <2>1. Refuse(c) /\ doubtful' = doubtful \cup Touches(r) /\ UNCHANGED <<tagRef, Answers, TagBounds>>
    BY <1>2 DEF GiveUp
  <2>2. doubtful' \subseteq TagNames /\ Touches(r) \subseteq doubtful'
    BY <1>1, <2>1 DEF TagsInv, TagsTypeOK
  <2>3. QED
    BY <2>1, <2>2, RefuseStep DEF TagBounds, TagsInv, TagsTypeOK
<1>3. CASE r.final \notin Blocked /\ Tagged(r.final)
  <2>1. Dropped(r) => Touches(r) \subseteq doubtful
    BY <1>3, Requests DEF Midway, Sure
  <2>2. QED
    BY <1>3, <2>1, RefuseStep DEF Made, TagBounds, TagsInv, TagsTypeOK
<1>4. CASE r.final \notin Blocked /\ ~Tagged(r.final)
  <2>1. /\ tagRef' = [tagRef EXCEPT ![r.final] = r.target] /\ GoTag(c, "find")
        /\ UNCHANGED <<doubtful, Answers, TagBounds>>
    BY <1>4
  <2>2. Moved(c, "find")
    BY <2>1, GoesTo DEF TagsInv
  <2>3. TagsTypeOK'
    BY <1>1, <2>1 DEF TagsInv, TagsTypeOK, GoTag, Answers, TagBounds
  <2>4. \A t \in TagNames : tagRef'[t] = IF t = r.final THEN r.target ELSE tagRef[t]
    BY <2>1 DEF TagsInv, TagsTypeOK
  <2>5. Touches(tagReq'[c]) = Touches(r) /\ Touches(r) # {}
    BY <1>1, <2>2 DEF Touches, Moved
  <2>6. Sane(c)'
    BY <1>1, <2>2, Requests DEF Sane, Moved
  <2>7. Sure(c) => Midway(c)'
    BY <1>1, <2>2, <2>4, Requests DEF Sane, Midway, Dropped, Made, Moved, Tagged
  <2>8. \A t \in TagNames \ Touches(r) :
          tagRef'[t] = tagRef[t] /\ answered'[t] = answered[t] /\ told'[t] = told[t]
    BY <1>1, <2>1, <2>4 DEF Answers
  <2>9. QED
    BY OwnStep, <2>1, <2>2, <2>3, <2>5, <2>6, <2>7, <2>8 DEF Moved
<1>5. QED
  BY <1>2, <1>3, <1>4

LEMMA FindTagStep == ASSUME TagsInv, NEW c \in TagClients, FindTag(c) PROVE TagsInv'
<1> DEFINE r == tagReq[c]
<1> USE DEF FindTag, OnTag
<1>1. /\ r.name \in TagNames /\ r.final \in TagNames /\ Touches(r) = {r.name, r.final}
      /\ r.target \in Commits
  BY Requests DEF Sane
<1>2. Sure(c) => Tagged(r.final)
  BY <1>1, Requests, TagAssumption DEF Midway, Made, Tagged
<1>3. /\ doubtful \subseteq doubtful' /\ doubtful' \subseteq TagNames
      /\ r.final \in Shadowed => Touches(r) \subseteq doubtful'
  BY <1>1 DEF GiveUp, TagsInv, TagsTypeOK
<1>4. CASE ~Listed(r.final)
  <2>1. ~Sure(c) \/ r.final \in Shadowed
    BY <1>2, <1>4 DEF Listed
  <2>2. Touches(r) \subseteq doubtful'
    BY <1>3, <2>1 DEF Sure
  <2>3. QED
    BY <1>3, <1>4, <2>2, RefuseStep DEF TagBounds, TagsInv, TagsTypeOK
<1>5. CASE Listed(r.final)
  <2>1. GoTag(c, "rev") /\ doubtful' = doubtful
    BY <1>5 DEF Listed
  <2>2. Moved(c, "rev")
    BY <2>1, GoesTo DEF TagsInv
  <2>3. TagsTypeOK'
    BY <2>1 DEF TagsInv, TagsTypeOK, GoTag, Answers, TagBounds
  <2>4. Sane(c)'
    BY <2>2, Requests DEF Sane, Moved
  <2>5. Sure(c) => Midway(c)'
    BY <2>2, Requests DEF Midway, Dropped, Made, Moved, Tagged
  <2>6. QED
    BY <2>1, <2>2, <2>3, <2>4, <2>5, ReadStep DEF Moved
<1>6. QED
  BY <1>4, <1>5

LEMMA AnswerTagStep == ASSUME TagsInv, NEW c \in TagClients, AnswerTag(c) PROVE TagsInv'
<1> DEFINE r == tagReq[c]
           freed == IF r.name # r.final THEN {r.name} ELSE {}
           Later(f, new) == [t \in TagNames |-> IF t = r.final THEN new
                                                ELSE IF t \in freed THEN NoTag ELSE f[t]]
<1>1. /\ r.pc = "rev" /\ Refuse(c) /\ UNCHANGED <<tagRef, doubtful, TagBounds>>
      /\ r.name \in TagNames /\ r.final \in TagNames /\ Touches(r) = {r.name, r.final}
      /\ r.target \in Commits
  BY Requests DEF Sane, AnswerTag, OnTag
<1>2. Sure(c) => Tagged(r.final)
  BY <1>1, Requests, TagAssumption DEF Midway, Made, Tagged
<1>3. CASE ~Tagged(r.final)
  <2>1. Touches(r) \subseteq doubtful /\ UNCHANGED Answers
    BY <1>2, <1>3 DEF Sure, AnswerTag
  <2>2. QED
    BY <1>1, <2>1, RefuseStep DEF TagBounds, TagsInv, TagsTypeOK
<1>4. CASE Tagged(r.final)
  <2>1. answered' = Later(answered, r.target) /\ told' = Later(told, tagRef[r.final])
    BY <1>4 DEF AnswerTag
  <2>2. /\ answered' \in [TagNames -> Commits \cup {NoTag}]
        /\ told' \in [TagNames -> Commits \cup {NoTag}]
    BY <1>1, <2>1 DEF TagsInv, TagsTypeOK
  <2>3. TagsTypeOK'
    BY <1>1, <2>2 DEF TagsInv, TagsTypeOK, Refuse, NoReq, TagBounds
  <2>4. tagReq'[c] = NoReq /\ \A d \in TagClients \ {c} : tagReq'[d] = tagReq[d]
    BY <1>1 DEF TagsInv, TagsTypeOK, Refuse
  <2>5. Touches(tagReq'[c]) = {} /\ Sane(c)'
    BY <2>4 DEF Touches, Sane, NoReq
  <2>6. Sure(c) => \A t \in Touches(r) : Agreed(t)'
    BY <1>1, <2>1, Requests DEF Midway, Made, Agreed, Tagged
  <2>7. \A t \in TagNames \ Touches(r) :
          tagRef'[t] = tagRef[t] /\ answered'[t] = answered[t] /\ told'[t] = told[t]
    BY <1>1, <2>1
  <2>8. QED
    BY OwnStep, <1>1, <2>3, <2>4, <2>5, <2>6, <2>7
<1>5. QED
  BY <1>3, <1>4

LEMMA CutTagStep == ASSUME TagsInv, NEW c \in TagClients, CutTag(c) PROVE TagsInv'
<1> DEFINE r == tagReq[c]
<1> USE DEF CutTag, OnTag
<1>1. r.pc # "off" /\ Refuse(c) /\ UNCHANGED <<tagRef, Answers, tagAsks>>
  OBVIOUS
<1>2. tagFaults' \in 0..MaxTagFaults
  BY TagAssumption DEF TagsInv, TagsTypeOK
<1>3. CASE Dropped(r) \/ Made(r)
  <2>1. doubtful' = doubtful \cup Touches(r) /\ Touches(r) \subseteq TagNames
    BY <1>1, <1>3, Requests DEF Dropped, Made, GiveUp
  <2>2. doubtful' \subseteq TagNames /\ doubtful \subseteq doubtful' /\ Touches(r) \subseteq doubtful'
    BY <2>1 DEF TagsInv, TagsTypeOK
  <2>3. QED
    BY <1>1, <1>2, <2>2, RefuseStep DEF TagsInv, TagsTypeOK
<1>4. CASE ~Dropped(r) /\ ~Made(r)
  <2>1. UNCHANGED doubtful
    BY <1>4 DEF Dropped, Made
  <2>2. QED
    BY <1>1, <1>2, <1>4, <2>1, RefuseStep DEF TagsInv, TagsTypeOK
<1>5. QED
  BY <1>3, <1>4

-----------------------------------------------------------------------------
(* Requests that have a name in common put all their names in doubt.         *)
LEMMA MetAll ==
  ASSUME NEW names, NEW d \in TagClients, Touches(tagReq[d]) \cap names # {}
  PROVE  names \cup Touches(tagReq[d]) \subseteq Met(names)
BY DEF Met

LEMMA MetNames ==
  ASSUME TagsInv, NEW names \in SUBSET TagNames
  PROVE  Met(names) \subseteq TagNames
<1>1. \A d \in TagClients : Touches(tagReq[d]) \subseteq TagNames
  BY DEF TagsInv, Sane, Touches
<1>2. QED
  BY <1>1 DEF Met

LEMMA RequestStep ==
  ASSUME TagsInv, NEW c \in TagClients, NEW op \in {"create", "update", "delete"},
         NEW t \in TagNames, NEW f \in TagNames, NEW v \in Commits \cup {NoTag},
         op # "update" => f = t, op = "create" => v \in Commits,
         TagRequest(c, op, t, f, v)
  PROVE  TagsInv'
<1> DEFINE r == [pc |-> FirstCommand(op), op |-> op, name |-> t, final |-> f, target |-> v,
                 old |-> NoTag]
<1>1. /\ tagReq[c].pc = "off" /\ tagReq' = [tagReq EXCEPT ![c] = r]
      /\ doubtful' = doubtful \cup Met({t, f}) /\ UNCHANGED <<tagRef, answered, told, tagFaults>>
      /\ tagAsks' \in 0..MaxTagAsks
  BY TagAssumption DEF TagRequest, OnTag, Answers, TagsInv, TagsTypeOK
<1>2. /\ FirstCommand(op) \in {"exists", "head", "again"}
      /\ FirstCommand(op) = "exists" => op = "create"
      /\ FirstCommand(op) = "head" => op = "update"
      /\ FirstCommand(op) = "again" => op = "delete"
  BY DEF FirstCommand
<1>3. tagReq'[c] = r /\ \A d \in TagClients \ {c} : tagReq'[d] = tagReq[d]
  BY <1>1 DEF TagsInv, TagsTypeOK
<1>4. TagsTypeOK'
  BY <1>1, <1>2, MetNames DEF TagsInv, TagsTypeOK
<1>5. Touches(tagReq'[c]) = {t, f} /\ Touches(tagReq[c]) = {} /\ Sane(c)'
  BY <1>1, <1>2, <1>3 DEF Touches, Sane
<1>6. TagsAgree'
  BY <1>1, <1>3, <1>5 DEF TagsInv, TagsAgree
<1>7. ASSUME NEW d \in TagClients \ {c}, Touches(tagReq[d]) \cap {t, f} # {}
      PROVE  Touches(tagReq[d]) \subseteq doubtful' /\ {t, f} \subseteq doubtful'
  BY <1>1, <1>7, MetAll
<1>8. Sure(c)' => Alone(c)' /\ Midway(c)'
  <2> SUFFICES ASSUME Sure(c)' PROVE Alone(c)' /\ Midway(c)'
    OBVIOUS
  <2>1. \A d \in TagClients \ {c} : Touches(tagReq[d]) \cap {t, f} = {}
    BY <1>5, <1>7 DEF Sure
  <2>2. Alone(c)'
    BY <1>3, <1>5, <2>1 DEF Alone
  <2>3. \A n \in {t, f} \ doubtful' : Agreed(n)'
    BY <1>1, <1>5, <2>1 DEF TagsInv, TagsAgree, Agreed
  <2>4. Midway(c)'
    BY <1>2, <1>3, <1>5, <2>3 DEF Midway, Dropped, Made
  <2>5. QED
    BY <2>2, <2>4
<1>9. ASSUME NEW d \in TagClients \ {c} PROVE Sane(d)' /\ (Sure(d)' => Alone(d)' /\ Midway(d)')
  <2>1. tagReq'[d] = tagReq[d] /\ Sane(d)'
    BY <1>3 DEF Sane, TagsInv
  <2> SUFFICES ASSUME Sure(d)' PROVE Alone(d)' /\ Midway(d)'
    BY <2>1
  <2>2. Sure(d) /\ Alone(d) /\ Midway(d) /\ Touches(tagReq[d]) \cap {t, f} = {}
    BY <1>1, <1>7, <2>1 DEF Sure, TagsInv
  <2>3. Alone(d)'
    BY <1>3, <1>5, <2>1, <2>2 DEF Alone
  <2>4. Midway(d)'
    BY <1>1, <2>1, <2>2 DEF Midway, Dropped, Made, Agreed, Tagged
  <2>5. QED
    BY <2>3, <2>4
<1>10. QED
  BY <1>4, <1>5, <1>6, <1>8, <1>9 DEF TagsInv

LEMMA PushTagStep ==
  ASSUME TagsInv, NEW t \in TagNames, NEW v \in Commits \cup {NoTag}, PushTag(t, v)
  PROVE  TagsInv'
<1>1. /\ tagRef' = [tagRef EXCEPT ![t] = v] /\ answered' = [answered EXCEPT ![t] = v]
      /\ told' = [told EXCEPT ![t] = v] /\ doubtful' = doubtful \cup Met({t})
      /\ UNCHANGED <<tagReq, tagFaults>> /\ tagAsks' \in 0..MaxTagAsks
  BY TagAssumption DEF PushTag, TagsInv, TagsTypeOK
<1>2. TagsTypeOK'
  BY <1>1, MetNames DEF TagsInv, TagsTypeOK
<1>3. \A n \in TagNames : IF n = t THEN Agreed(n)'
                          ELSE tagRef'[n] = tagRef[n] /\ answered'[n] = answered[n] /\ told'[n] = told[n]
  BY <1>1 DEF TagsInv, TagsTypeOK, Agreed
<1>4. TagsAgree'
  BY <1>1, <1>3 DEF TagsInv, TagsAgree, Agreed
<1>5. ASSUME NEW d \in TagClients PROVE Sane(d)' /\ (Sure(d)' => Alone(d)' /\ Midway(d)')
  <2>1. tagReq'[d] = tagReq[d] /\ Sane(d)'
    BY <1>1 DEF Sane, TagsInv
  <2> SUFFICES ASSUME Sure(d)' PROVE Alone(d)' /\ Midway(d)'
    BY <2>1
  <2>2. Sure(d) /\ Alone(d) /\ Midway(d) /\ t \notin Touches(tagReq[d])
    BY <1>1, <2>1, MetAll DEF Sure, TagsInv
  <2>3. Alone(d)'
    BY <1>1, <2>2 DEF Alone
  <2>4. tagReq[d].name \in TagNames \ {t} /\ tagReq[d].final \in TagNames \ {t}
        /\ Touches(tagReq[d]) = {tagReq[d].name, tagReq[d].final}
    BY <2>2, Requests DEF Sure, Touches
  <2>5. Midway(d)'
    BY <1>1, <1>3, <2>1, <2>2, <2>4 DEF Midway, Dropped, Made, Agreed, Tagged
  <2>6. QED
    BY <2>3, <2>5
<1>6. QED
  BY <1>2, <1>4, <1>5 DEF TagsInv

-----------------------------------------------------------------------------
LEMMA TagsStep == TagsInv /\ [TagsNext]_tagVars => TagsInv'
<1> SUFFICES ASSUME TagsInv, [TagsNext]_tagVars PROVE TagsInv'
  OBVIOUS
<1>1. CASE UNCHANGED tagVars
  BY <1>1 DEF tagVars, TagsInv, TagsTypeOK, TagsAgree, Sane, Sure, Alone, Midway, Agreed, Tagged
<1>2. ASSUME NEW c \in TagClients, AskTag(c) PROVE TagsInv'
  BY <1>2, RequestStep DEF AskTag
<1>3. ASSUME NEW t \in TagNames, NEW v \in Commits \cup {NoTag}, PushTag(t, v) PROVE TagsInv'
  BY <1>3, PushTagStep
<1>4. QED
  BY <1>1, <1>2, <1>3, ReadHeadStep, ReadCurrentStep, NameIsFreeStep, ReadAgainStep, DropTagStep,
     CheckExistsStep, WriteTagStep, FindTagStep, AnswerTagStep, CutTagStep DEF TagsNext

LEMMA TagsInvariant == TagsSpec => []TagsInv
<1>1. QED
  BY TagsInitially, TagsStep, PTL DEF TagsSpec

(* The requests and tables of tags.rs keep their types.                      *)
THEOREM TagsTyped == TagsSpec => []TagsTypeOK
<1>1. TagsInv => TagsTypeOK
  BY DEF TagsInv
<1>2. QED
  BY TagsInvariant, <1>1, PTL

(* For any names, commits and clients, blocked or shadowed names and faults:  *)
(* a tag nobody is working on is what the last answer said and what the       *)
(* pipelines were told, unless requests on it met or one failed half-way      *)
(* (update_tag deletes and then creates).                                    *)
THEOREM TagsAgreeAlways == TagsSpec => []TagsAgree
<1>1. TagsInv => TagsAgree
  BY DEF TagsInv
<1>2. QED
  BY TagsInvariant, <1>1, PTL

-----------------------------------------------------------------------------
(***************************************************************************)
(* WikiSound for any number of words, slugs, clients, requests and faults. *)
(***************************************************************************)
NoText == Text(NoPage)
WikiPlaces == {"off", "slug", "insert", "read", "write", "upsert", "rev"}
WikiReqs ==
  [pc : WikiPlaces, slug : 1..Slugs, title : Words \cup {Same}, body : Words \cup {Same},
   id : 0..MaxWikiAsks, text : Written \cup {NoText}]
Pages == [id : Ids, title : Words, body : Words]

WikiTyped ==
  /\ page \in [1..Slugs -> {NoPage} \cup Pages]
  /\ revisions \in [Ids -> Seq(Written)]
  /\ wikiReq \in [Writers -> WikiReqs]
  /\ wanted \in [Ids -> Written \cup {NoText}]
  /\ met \subseteq Ids /\ torn \subseteq Ids
  /\ wikiAsks \in 0..MaxWikiAsks /\ wikiFaults \in 0..MaxWikiFaults

(* The ids in use, and the requests that may still take one: there is one  *)
(* left for each of them.                                                  *)
UsedIds == {i \in Ids : wanted[i] # NoText}
TakeId == {"slug", "insert", "upsert"}
Creating == {c \in Writers : wikiReq[c].pc \in TakeId}
Budget ==
  /\ \A i \in Ids : wanted[i] = NoText => revisions[i] = <<>>
  /\ IsFiniteSet(Creating)
  /\ Cardinality(UsedIds) + Cardinality(Creating) <= wikiAsks

(* What a request holds at each of its places.                             *)
Holds(r) ==
  /\ r.pc \in TakeId => r.title \in Words /\ r.body \in Words /\ r.id = 0
  /\ r.pc \in {"write", "rev"} => r.id \in UsedIds /\ r.text \in Written

(* A page has its slug for as long as it is there, and nobody else's id.   *)
Apart ==
  /\ \A s \in 1..Slugs : page[s].id # 0 => page[s].id \in UsedIds
  /\ \A s, t \in 1..Slugs : page[s].id # 0 /\ page[s].id = page[t].id => s = t
  /\ \A c \in Writers, s \in 1..Slugs :
       WikiAt(c, "write") /\ page[s].id = wikiReq[c].id => s = wikiReq[c].slug

(* What a page says is in its history, or a request is about to write it   *)
(* there.                                                                  *)
Recorded(s) ==
  page[s].id # 0 /\ page[s].id \notin torn =>
    \/ \E n \in 1..Len(revisions[page[s].id]) : revisions[page[s].id][n] = Text(page[s])
    \/ \E c \in Writers : WikiAt(c, "rev") /\ wikiReq[c].id = page[s].id
                          /\ wikiReq[c].text = Text(page[s])

(* Whoever has a page that no two requests edited at once in hand has read *)
(* or written what it says.                                                *)
InHand(s) ==
  page[s].id # 0 /\ page[s].id \notin met =>
    /\ Text(page[s]) = wanted[page[s].id]
    /\ ~Owed(page[s].id) /\ page[s].id \notin torn =>
         LatestOf(revisions[page[s].id]) = Text(page[s])
    /\ \A c \in Writers : WikiAt(c, "rev") /\ wikiReq[c].id = page[s].id =>
         wikiReq[c].text = Text(page[s])
    /\ \A c \in Writers : WikiAt(c, "write") /\ wikiReq[c].id = page[s].id =>
         wikiReq[c].text = Filled(wikiReq[c], Text(page[s]))

WikiInv ==
  /\ WikiTyped /\ Budget /\ Apart
  /\ \A c \in Writers : Holds(wikiReq[c])
  /\ \A s \in 1..Slugs : Recorded(s) /\ InHand(s)

LEMMA NoTextIsNew == NoText \notin Written
BY WikiAssumption DEF NoText, Text, NoPage, Written

LEMMA WikiInitially == WikiInit => WikiInv
<1> SUFFICES ASSUME WikiInit PROVE WikiInv
  OBVIOUS
<1>1. WikiTyped
  BY WikiAssumption DEF WikiInit, WikiTyped, WikiReqs, WikiPlaces, Quiet, NoText, Ids
<1>2. UsedIds = {} /\ Creating = {}
  BY DEF WikiInit, UsedIds, Creating, TakeId, Quiet, NoText
<1>3. Budget
  BY <1>2, FS_EmptySet DEF WikiInit, Budget, NoText
<1>4. \A s \in 1..Slugs : page[s].id = 0
  BY DEF WikiInit, NoPage
<1>5. \A c \in Writers : wikiReq[c].pc = "off"
  BY DEF WikiInit, Quiet
<1> QED
  BY <1>1, <1>3, <1>4, <1>5 DEF WikiInv, Apart, Holds, TakeId, Recorded, InHand, WikiAt

(* A page that a step has nothing to do with stays recorded.               *)
LEMMA Untouched ==
  ASSUME NEW s \in 1..Slugs, Recorded(s), InHand(s),
         page'[s] = page[s],
         page[s].id # 0 =>
           /\ wanted'[page[s].id] = wanted[page[s].id]
           /\ revisions'[page[s].id] = revisions[page[s].id]
           /\ \A c \in Writers :
                /\ wikiReq[c].pc = "rev" /\ wikiReq[c].id = page[s].id =>
                     wikiReq'[c] = wikiReq[c] \/ page[s].id \in torn'
                /\ wikiReq'[c].pc \in {"rev", "write"} /\ wikiReq'[c].id = page[s].id =>
                     wikiReq'[c] = wikiReq[c],
         met \subseteq met', torn \subseteq torn'
  PROVE  Recorded(s)' /\ InHand(s)'
<1> SUFFICES ASSUME page[s].id # 0 PROVE Recorded(s)' /\ InHand(s)'
  BY DEF Recorded, InHand
<1>1. Recorded(s)'
  BY DEF Recorded, WikiAt
<1>2. ~Owed(page[s].id)' /\ page[s].id \notin torn' => ~Owed(page[s].id)
  BY DEF Owed, WikiAt
<1>3. InHand(s)'
  BY <1>2 DEF InHand, WikiAt
<1> QED BY <1>1, <1>3

LEMMA IdsAreFew == IsFiniteSet(Ids) /\ Cardinality(Ids) = MaxWikiAsks
BY WikiAssumption, FS_Interval DEF Ids

(* A step that takes no id leaves one for each request that may take one.  *)
LEMMA BudgetStep ==
  ASSUME WikiTyped, Budget, NEW c \in Writers, NEW r, wikiReq' = [wikiReq EXCEPT ![c] = r],
         UsedIds' = UsedIds, \A i \in Ids : wanted'[i] = NoText => revisions'[i] = <<>>,
         wikiAsks' \in Nat,
         IF r.pc \in TakeId /\ wikiReq[c].pc \notin TakeId THEN wikiAsks' = wikiAsks + 1
                                                           ELSE wikiAsks' >= wikiAsks
  PROVE  Budget'
<1>2. UsedIds \subseteq Ids /\ IsFiniteSet(UsedIds) /\ Cardinality(UsedIds) \in Nat
  <2>1. IsFiniteSet(Ids)
    BY IdsAreFew
  <2> QED BY <2>1, FS_Subset, FS_CardinalityType DEF UsedIds
<1>3. Cardinality(Creating) \in Nat /\ IsFiniteSet(Creating) /\ wikiAsks \in Nat
  BY FS_CardinalityType DEF Budget, WikiTyped
<1>4. Creating' = IF r.pc \in TakeId THEN Creating \cup {c} ELSE Creating \ {c}
  BY DEF Creating, WikiTyped
<1>5. c \in Creating <=> wikiReq[c].pc \in TakeId
  BY DEF Creating
<1>6. CASE r.pc \in TakeId
  <2>1. Creating' = Creating \cup {c}
    BY <1>4, <1>6
  <2>2. /\ IsFiniteSet(Creating')
        /\ Cardinality(Creating') = IF c \in Creating THEN Cardinality(Creating)
                                                    ELSE Cardinality(Creating) + 1
    BY <1>3, <2>1, FS_AddElement
  <2>3. Cardinality(UsedIds') + Cardinality(Creating') <= wikiAsks'
    BY <1>2, <1>3, <1>5, <1>6, <2>2 DEF Budget
  <2> QED BY <2>2, <2>3 DEF Budget
<1>7. CASE r.pc \notin TakeId
  <2>1. Creating' = Creating \ {c}
    BY <1>4, <1>7
  <2>2. IsFiniteSet(Creating') /\ Cardinality(Creating') \in Nat /\ Cardinality(Creating') <= Cardinality(Creating)
    BY <1>3, <2>1, FS_Subset, FS_CardinalityType
  <2> QED BY <1>2, <1>3, <1>7, <2>2 DEF Budget
<1> QED BY <1>6, <1>7

(* A request goes on without touching a page.                              *)
LEMMA MoveOn ==
  ASSUME WikiInv, NEW c \in Writers, NEW r \in WikiReqs,
         wikiReq' = [wikiReq EXCEPT ![c] = r], Holds(r),
         UNCHANGED <<page, revisions, wanted, met>>, torn \subseteq torn', torn' \subseteq Ids,
         wikiAsks' \in 0..MaxWikiAsks, wikiFaults' \in 0..MaxWikiFaults,
         IF r.pc \in TakeId /\ wikiReq[c].pc \notin TakeId THEN wikiAsks' = wikiAsks + 1
                                                           ELSE wikiAsks' >= wikiAsks,
         wikiReq[c].pc = "rev" => wikiReq[c].id \in torn',
         r.pc # "rev",
         r.pc = "write" => page[r.slug].id = r.id /\ r.text = Filled(r, Text(page[r.slug]))
  PROVE  WikiInv'
<1>1. WikiTyped'
  BY DEF WikiInv, WikiTyped
<1>2. \A d \in Writers : wikiReq'[d] = IF d = c THEN r ELSE wikiReq[d]
  BY DEF WikiInv, WikiTyped
<1>3. Budget'
  <2>1. /\ WikiTyped /\ Budget /\ UsedIds' = UsedIds
        /\ \A i \in Ids : wanted'[i] = NoText => revisions'[i] = <<>>
    BY DEF WikiInv, Budget, UsedIds
  <2>2. wikiAsks' \in Nat
    BY WikiAssumption
  <2> QED BY <2>1, <2>2, BudgetStep
<1>4. \A d \in Writers : Holds(wikiReq[d])'
  BY <1>2 DEF WikiInv, Holds, UsedIds
<1>5. r.pc = "write" => r.id # 0 /\ r.slug \in 1..Slugs
  BY WikiAssumption DEF Holds, UsedIds, Ids, WikiReqs
<1>6. Apart'
  BY <1>2, <1>5 DEF WikiInv, Apart, UsedIds, WikiAt
<1>7. ASSUME NEW s \in 1..Slugs PROVE Recorded(s)' /\ InHand(s)'
  <2>1. page[s].id # 0 => page[s].id \in Ids
    BY DEF WikiInv, Apart, UsedIds
  <2>2. CASE r.pc = "write" /\ r.id = page[s].id
    <3>1. r.slug = s
      BY <1>5, <2>2 DEF WikiInv, Apart
    <3>2. wikiReq[c].pc # "rev" \/ wikiReq[c].id # page[s].id \/ page[s].id \in torn'
      OBVIOUS
    <3>3. Recorded(s)'
      BY <1>2, <3>2 DEF WikiInv, Recorded, WikiAt
    <3>4. ~Owed(page[s].id)' /\ page[s].id \notin torn' => ~Owed(page[s].id)
      BY <1>2, <3>2 DEF Owed, WikiAt
    <3>5. InHand(s)'
      BY <1>2, <2>2, <3>1, <3>4 DEF WikiInv, InHand, WikiAt
    <3> QED BY <3>3, <3>5
  <2>3. CASE ~(r.pc = "write" /\ r.id = page[s].id)
    BY <1>2, <2>1, <2>3, Untouched DEF WikiInv
  <2> QED BY <2>2, <2>3
<1> QED BY <1>1, <1>3, <1>4, <1>6, <1>7 DEF WikiInv

LEMMA QuietReq == Quiet \in WikiReqs /\ Holds(Quiet) /\ Quiet.pc = "off"
BY WikiAssumption DEF Quiet, WikiReqs, WikiPlaces, Holds, TakeId, NoText

LEMMA AskStep ==
  ASSUME WikiInv, NEW c \in Writers, NEW pc \in WikiPlaces \ {"rev", "write"}, NEW s \in 1..Slugs,
         NEW title \in Words \cup {Same}, NEW body \in Words \cup {Same},
         pc \in TakeId => title \in Words /\ body \in Words,
         WikiAsk(c, pc, s, title, body)
  PROVE  WikiInv'
<1> DEFINE r == [Quiet EXCEPT !.pc = pc, !.slug = s, !.title = title, !.body = body]
<1>0. r = [Quiet EXCEPT !.pc = pc, !.slug = s, !.title = title, !.body = body]
  OBVIOUS
<1> HIDE DEF r
<1>1. /\ r \in WikiReqs /\ r.pc = pc /\ r.slug = s /\ r.title = title /\ r.body = body
      /\ r.id = Quiet.id
  <2> DEFINE q == Quiet
  <2>1. q \in WikiReqs /\ pc \in WikiPlaces /\ r = [q EXCEPT !.pc = pc, !.slug = s, !.title = title, !.body = body]
    BY <1>0, QuietReq
  <2> HIDE DEF q
  <2>2. /\ r \in WikiReqs /\ r.pc = pc /\ r.slug = s /\ r.title = title /\ r.body = body
        /\ r.id = q.id
    BY <2>1 DEF WikiReqs
  <2> QED BY <2>2 DEF q
<1>2. Holds(r)
  BY <1>1 DEF Holds, Quiet
<1>3. wikiAsks' = wikiAsks + 1 /\ wikiAsks' \in 0..MaxWikiAsks /\ wikiReq[c].pc = "off"
  <2>1. wikiAsks \in 0..MaxWikiAsks /\ wikiAsks < MaxWikiAsks /\ wikiAsks' = wikiAsks + 1
    BY DEF WikiAsk, WikiInv, WikiTyped
  <2> QED BY <2>1, WikiAssumption DEF WikiAsk, WikiAt
<1>4. torn \subseteq Ids /\ wikiFaults \in 0..MaxWikiFaults /\ wikiAsks' >= wikiAsks
  BY <1>3, WikiAssumption DEF WikiInv, WikiTyped
<1>5. wikiReq' = [wikiReq EXCEPT ![c] = r] /\ UNCHANGED <<page, revisions, wanted, met, torn, wikiFaults>>
  BY DEF WikiAsk, r
<1>6. r.pc \notin {"rev", "write"}
  BY <1>1
<1> QED BY <1>1, <1>2, <1>3, <1>4, <1>5, <1>6, MoveOn

(* A request that goes on or ends without touching a page.                 *)
LEMMA GoOn ==
  ASSUME WikiInv, NEW c \in Writers, NEW r \in WikiReqs, Holds(r),
         wikiReq' = [wikiReq EXCEPT ![c] = r], UNCHANGED <<page, revisions, wanted, WikiRest>>,
         r.pc \in TakeId => wikiReq[c].pc \in TakeId,
         wikiReq[c].pc # "rev", r.pc # "rev",
         r.pc = "write" => page[r.slug].id = r.id /\ r.text = Filled(r, Text(page[r.slug]))
  PROVE  WikiInv'
<1>1. met' = met /\ torn' = torn /\ wikiAsks' = wikiAsks /\ wikiFaults' = wikiFaults
  BY DEF WikiRest
<1>2. torn' \subseteq Ids /\ wikiAsks' \in 0..MaxWikiAsks /\ wikiFaults' \in 0..MaxWikiFaults
  BY <1>1 DEF WikiInv, WikiTyped
<1>3. wikiAsks' >= wikiAsks /\ torn \subseteq torn'
  BY <1>1, <1>2, WikiAssumption
<1>4. UNCHANGED <<page, revisions, wanted, met>>
  BY <1>1
<1>5. ~(r.pc \in TakeId /\ wikiReq[c].pc \notin TakeId)
  OBVIOUS
<1> QED BY <1>2, <1>3, <1>4, <1>5, MoveOn

LEMMA TrySlugStep == ASSUME WikiInv, NEW c \in Writers, TrySlug(c) PROVE WikiInv'
<1> DEFINE r == wikiReq[c]
<1>1. r \in WikiReqs /\ Holds(r) /\ r.pc = "slug"
  BY DEF WikiInv, WikiTyped, TrySlug, WikiAt
<1>2. PICK n \in {[r EXCEPT !.pc = "insert"], [r EXCEPT !.slug = @ + 1]} :
        /\ wikiReq' = [wikiReq EXCEPT ![c] = n]
        /\ n = [r EXCEPT !.slug = @ + 1] => r.slug < Slugs \/ n = [r EXCEPT !.pc = "insert"]
  BY DEF TrySlug
<1>3. n \in WikiReqs /\ Holds(n) /\ n.pc \in TakeId
  BY <1>1, <1>2, WikiAssumption DEF WikiReqs, WikiPlaces, Holds, TakeId
<1>4. UNCHANGED <<page, revisions, wanted, WikiRest>>
  BY DEF TrySlug
<1>5. n.pc \notin {"rev", "write"} /\ r.pc \in TakeId
  BY <1>1, <1>3 DEF TakeId
<1> QED BY <1>1, <1>2, <1>3, <1>4, <1>5, GoOn

LEMMA ReadPageStep == ASSUME WikiInv, NEW c \in Writers, ReadPage(c) PROVE WikiInv'
<1> DEFINE r == wikiReq[c]
           p == page[r.slug]
           n == [r EXCEPT !.pc = "write", !.id = p.id, !.text = Filled(r, Text(p))]
<1>1. /\ r \in WikiReqs /\ Holds(r) /\ r.pc = "read" /\ p \in {NoPage} \cup Pages
      /\ UNCHANGED <<page, revisions, wanted, WikiRest>>
  BY DEF WikiInv, WikiTyped, ReadPage, WikiAt, WikiReqs
<1>2. CASE p.id = 0
  BY <1>1, <1>2, QuietReq, GoOn DEF ReadPage, WikiDone, TakeId
<1>3. CASE p.id # 0
  <2>1. wikiReq' = [wikiReq EXCEPT ![c] = n]
    BY <1>3 DEF ReadPage
  <2>2. p \in Pages /\ p.id \in UsedIds /\ p.id \in Ids
    BY <1>1, <1>3 DEF NoPage, WikiInv, Apart, WikiReqs, UsedIds
  <2>3. Filled(r, Text(p)) \in Written
    <3>1. p.title \in Words /\ p.body \in Words
      BY <2>2 DEF Pages
    <3>2. r.title \in Words \cup {Same} /\ r.body \in Words \cup {Same}
      BY <1>1 DEF WikiReqs
    <3> HIDE DEF p, r
    <3> QED BY <3>1, <3>2 DEF Filled, Text, Written
  <2>4. p.id \in 0..MaxWikiAsks
    BY <2>2 DEF Ids
  <2>5. /\ n \in WikiReqs /\ n.pc = "write" /\ n.slug = r.slug /\ n.title = r.title
        /\ n.body = r.body /\ n.id = p.id /\ n.text = Filled(r, Text(p))
    <3> DEFINE text == Filled(r, Text(p))
               id == p.id
    <3>1. id \in 0..MaxWikiAsks /\ text \in Written \cup {NoText} /\ "write" \in WikiPlaces
      BY <2>3, <2>4 DEF WikiPlaces
    <3> DEFINE n0 == n
    <3>2. n0 = [r EXCEPT !.pc = "write", !.id = id, !.text = text]
      OBVIOUS
    <3> HIDE DEF text, id, r, n0
    <3>3. /\ n0 \in WikiReqs /\ n0.pc = "write" /\ n0.slug = r.slug /\ n0.title = r.title
          /\ n0.body = r.body /\ n0.id = id /\ n0.text = text
      BY <1>1, <3>1, <3>2 DEF WikiReqs
    <3> QED BY <3>3 DEF n0, r, id, text
  <2>6. Holds(n)
    BY <2>2, <2>3, <2>5 DEF Holds, TakeId
  <2>7. page[n.slug].id = n.id /\ n.text = Filled(n, Text(page[n.slug]))
    BY <2>5 DEF Filled
  <2> HIDE DEF n
  <2> QED BY <1>1, <2>1, <2>5, <2>6, <2>7, GoOn DEF TakeId
<1> QED BY <1>2, <1>3

LEMMA CutWikiStep == ASSUME WikiInv, NEW c \in Writers, CutWiki(c) PROVE WikiInv'
<1>1. /\ wikiReq' = [wikiReq EXCEPT ![c] = Quiet]
      /\ UNCHANGED <<page, revisions, wanted, met, wikiAsks>>
      /\ torn' = IF wikiReq[c].pc = "rev" THEN torn \cup {wikiReq[c].id} ELSE torn
  BY DEF CutWiki, WikiDone, WikiAt
<1>2. wikiFaults' \in 0..MaxWikiFaults /\ wikiAsks' \in 0..MaxWikiAsks /\ wikiAsks' >= wikiAsks
  BY <1>1, WikiAssumption DEF CutWiki, WikiInv, WikiTyped
<1>3. torn \subseteq torn' /\ torn' \subseteq Ids
  BY <1>1 DEF WikiInv, WikiTyped, Holds, UsedIds
<1>4. wikiReq[c].pc = "rev" => wikiReq[c].id \in torn'
  BY <1>1
<1> QED BY <1>1, <1>2, <1>3, <1>4, QuietReq, MoveOn DEF TakeId

LEMMA FreshIdIsNew ==
  ASSUME WikiInv, NEW c \in Writers, wikiReq[c].pc \in TakeId
  PROVE  FreshId \in Ids /\ wanted[FreshId] = NoText /\ revisions[FreshId] = <<>>
<1>1. IsFiniteSet(Ids) /\ Cardinality(Ids) = MaxWikiAsks
  BY IdsAreFew
<1>2. IsFiniteSet(UsedIds) /\ Cardinality(UsedIds) \in Nat
  BY <1>1, FS_Subset, FS_CardinalityType DEF UsedIds
<1>3. IsFiniteSet(Creating) /\ Cardinality(Creating) \in Nat /\ Cardinality(Creating) # 0
  <2>1. IsFiniteSet(Creating) /\ c \in Creating
    BY DEF WikiInv, Budget, Creating
  <2> QED BY <2>1, FS_CardinalityType, FS_EmptySet
<1>4. Cardinality(UsedIds) < MaxWikiAsks
  <2>1. Cardinality(UsedIds) + Cardinality(Creating) <= wikiAsks /\ wikiAsks \in 0..MaxWikiAsks
    BY DEF WikiInv, Budget, WikiTyped
  <2> QED BY <1>2, <1>3, <2>1, WikiAssumption
<1>5. UsedIds # Ids
  BY <1>1, <1>2, <1>4, WikiAssumption
<1>6. PICK i \in Ids : wanted[i] = NoText
  BY <1>5 DEF UsedIds
<1>7. revisions[i] = <<>>
  BY <1>6 DEF WikiInv, Budget
<1> QED BY <1>6, <1>7 DEF FreshId, NoText

(* A request takes a fresh id for the page it makes.                       *)
LEMMA NewPageStep ==
  ASSUME WikiInv, NEW c \in Writers, wikiReq[c].pc \in {"insert", "upsert"},
         page[wikiReq[c].slug].id = 0, NewPage(c),
         UNCHANGED <<revisions, met, torn, wikiAsks, wikiFaults>>
  PROVE  WikiInv'
<1> DEFINE r == wikiReq[c]
           z == r.slug
<1>0. PICK f : f = FreshId
  OBVIOUS
<1> DEFINE p == [id |-> f, title |-> r.title, body |-> r.body]
           n == [r EXCEPT !.pc = "rev", !.id = f, !.text = Text(r)]
<1>1. /\ page' = [page EXCEPT ![z] = p] /\ wanted' = [wanted EXCEPT ![f] = Text(r)]
      /\ wikiReq' = [wikiReq EXCEPT ![c] = n]
  BY <1>0 DEF NewPage
<1>2. r \in WikiReqs /\ r.title \in Words /\ r.body \in Words /\ z \in 1..Slugs
  BY DEF WikiInv, WikiTyped, Holds, TakeId, WikiReqs
<1>3. f \in Ids /\ f \notin UsedIds /\ f # 0
  BY <1>0, FreshIdIsNew, WikiAssumption DEF TakeId, UsedIds, Ids
<1>4. Text(r) \in Written /\ p \in Pages /\ Text(p) = Text(r) /\ p.id = f
  BY <1>2, <1>3 DEF Text, Written, Pages
<1>5. n \in WikiReqs /\ n.pc = "rev" /\ n.id = f /\ n.text = Text(r)
  <2> DEFINE t == Text(r)
             m == n
  <2>1. t \in Written \cup {NoText} /\ "rev" \in WikiPlaces /\ f \in 0..MaxWikiAsks
    BY <1>3, <1>4 DEF WikiPlaces, Ids
  <2>2. m = [r EXCEPT !.pc = "rev", !.id = f, !.text = t]
    OBVIOUS
  <2> HIDE DEF t, m, r
  <2>3. m \in WikiReqs /\ m.pc = "rev" /\ m.id = f /\ m.text = t
    BY <1>2, <2>1, <2>2 DEF WikiReqs
  <2> QED BY <2>3 DEF m, t, r
<1> DEFINE w == Text(r)
<1> HIDE DEF p, n, w
<1>6. /\ \A s \in 1..Slugs : page'[s] = IF s = z THEN p ELSE page[s]
      /\ \A i \in Ids : wanted'[i] = IF i = f THEN w ELSE wanted[i]
      /\ \A d \in Writers : wikiReq'[d] = IF d = c THEN n ELSE wikiReq[d]
  BY <1>1 DEF WikiInv, WikiTyped, w
<1>7. WikiTyped'
  BY <1>1, <1>4, <1>5 DEF WikiInv, WikiTyped
<1>8. UsedIds' = UsedIds \cup {f}
  BY <1>3, <1>4, <1>6, NoTextIsNew DEF UsedIds, w
<1>9. Budget'
  <2>1. Creating' = Creating \ {c} /\ c \in Creating
    BY <1>5, <1>6 DEF Creating, TakeId
  <2>2. IsFiniteSet(UsedIds)
    <3>1. IsFiniteSet(Ids)
      BY IdsAreFew
    <3> QED BY <3>1, FS_Subset DEF UsedIds
  <2>3. Cardinality(UsedIds') = Cardinality(UsedIds) + 1 /\ Cardinality(UsedIds) \in Nat
    BY <1>3, <1>8, <2>2, FS_AddElement, FS_CardinalityType
  <2>4. /\ IsFiniteSet(Creating') /\ Cardinality(Creating') = Cardinality(Creating) - 1
        /\ Cardinality(Creating) \in Nat
    BY <2>1, FS_RemoveElement, FS_CardinalityType DEF WikiInv, Budget
  <2>5. Cardinality(UsedIds') + Cardinality(Creating') <= wikiAsks'
    BY <2>3, <2>4 DEF WikiInv, Budget
  <2>6. \A i \in Ids : wanted'[i] = NoText => revisions'[i] = <<>>
    BY <1>4, <1>6, NoTextIsNew DEF WikiInv, Budget, w
  <2> QED BY <2>4, <2>5, <2>6 DEF Budget
<1>10. \A d \in Writers : Holds(wikiReq[d])'
  BY <1>4, <1>5, <1>6, <1>8 DEF WikiInv, Holds, TakeId
<1>11. \A d \in Writers \ {c} : wikiReq[d].pc \in {"write", "rev"} => wikiReq[d].id # f
  BY <1>3 DEF WikiInv, Holds
<1>12. Apart'
  BY <1>3, <1>4, <1>5, <1>6, <1>8, <1>11 DEF WikiInv, Apart, WikiAt
<1>13. ASSUME NEW s \in 1..Slugs PROVE Recorded(s)' /\ InHand(s)'
  <2>1. CASE s = z
    <3>1. Recorded(s)'
      BY <1>4, <1>5, <1>6, <2>1 DEF Recorded, WikiAt
    <3>2. wanted'[f] = Text(p)
      BY <1>3, <1>4, <1>6 DEF w
    <3>4. wikiReq'[c].pc = "rev" /\ wikiReq'[c].id = f /\ wikiReq'[c].text = Text(p)
      BY <1>4, <1>5, <1>6
    <3>5. Owed(f)'
      BY <3>4 DEF Owed, WikiAt
    <3>3. \A d \in Writers : wikiReq'[d].pc \in {"rev", "write"} /\ wikiReq'[d].id = f => d = c
      BY <1>6, <1>11
    <3>6. page'[s] = p /\ p.id = f
      BY <1>4, <1>6, <2>1
    <3>7. \A d \in Writers : wikiReq'[d].pc \in {"rev", "write"} /\ wikiReq'[d].id = f =>
            wikiReq'[d].pc = "rev" /\ wikiReq'[d].text = Text(p)
      BY <3>3, <3>4
    <3> HIDE DEF r
    <3>8. InHand(s)'
      BY <3>2, <3>5, <3>6, <3>7 DEF InHand, WikiAt
    <3> QED BY <3>1, <3>8
  <2>2. CASE s # z
    <3>1. page[s].id # 0 => page[s].id \in Ids /\ page[s].id # f
      BY <1>3 DEF WikiInv, Apart, UsedIds
    <3>2. Recorded(s) /\ InHand(s) /\ page'[s] = page[s]
      BY <1>6, <2>2 DEF WikiInv
    <3> HIDE DEF r
    <3>3. wikiReq[c].pc # "rev"
      OBVIOUS
    <3> QED BY <1>5, <1>6, <3>1, <3>2, <3>3, Untouched
  <2> QED BY <2>1, <2>2
<1> QED BY <1>7, <1>9, <1>10, <1>12, <1>13 DEF WikiInv

(* A request writes over a page.                                           *)
LEMMA RewriteStep ==
  ASSUME WikiInv, NEW c \in Writers, wikiReq[c].pc \in {"write", "upsert"},
         NEW i, i = page[wikiReq[c].slug].id, i # 0, NEW text \in Written, Rewrite(c, i, text),
         UNCHANGED <<revisions, torn, wikiAsks, wikiFaults>>,
         i \notin met' => text = Filled(wikiReq[c], Text(page[wikiReq[c].slug]))
  PROVE  WikiInv'
<1> DEFINE r == wikiReq[c]
           z == r.slug
           p == [id |-> i, title |-> text.title, body |-> text.body]
           w == Filled(r, wanted[i])
           n == [r EXCEPT !.pc = "rev", !.id = i, !.text = text]
<1>1. /\ page' = [page EXCEPT ![z] = p] /\ wanted' = [wanted EXCEPT ![i] = w]
      /\ wikiReq' = [wikiReq EXCEPT ![c] = n]
      /\ met' = IF Held(c, i) \/ r.id \notin {0, i} THEN met \cup {i} ELSE met
  BY DEF Rewrite
<1>2. r \in WikiReqs /\ z \in 1..Slugs
  BY DEF WikiInv, WikiTyped, WikiReqs
<1>3. i \in UsedIds /\ i \in Ids
  BY <1>2 DEF WikiInv, Apart, UsedIds
<1>4. p \in Pages /\ Text(p) = text /\ p.id = i
  BY <1>3 DEF Text, Written, Pages
<1>5. w \in Written
  <2>1. wanted[i] \in Written
    BY <1>3 DEF WikiInv, WikiTyped, UsedIds
  <2>2. r.title \in Words \cup {Same} /\ r.body \in Words \cup {Same}
    BY <1>2 DEF WikiReqs
  <2> HIDE DEF r
  <2> QED BY <2>1, <2>2 DEF Filled, Written
<1>6. n \in WikiReqs /\ n.pc = "rev" /\ n.id = i /\ n.text = text
  <2> DEFINE m == n
  <2>1. "rev" \in WikiPlaces /\ i \in 0..MaxWikiAsks
    BY <1>3 DEF WikiPlaces, Ids
  <2>2. m = [r EXCEPT !.pc = "rev", !.id = i, !.text = text]
    OBVIOUS
  <2> HIDE DEF m, r
  <2>3. m \in WikiReqs /\ m.pc = "rev" /\ m.id = i /\ m.text = text
    BY <1>2, <2>1, <2>2 DEF WikiReqs
  <2> QED BY <2>3 DEF m
<1> HIDE DEF p, n, w
<1>7. /\ \A s \in 1..Slugs : page'[s] = IF s = z THEN p ELSE page[s]
      /\ \A k \in Ids : wanted'[k] = IF k = i THEN w ELSE wanted[k]
      /\ \A d \in Writers : wikiReq'[d] = IF d = c THEN n ELSE wikiReq[d]
  BY <1>1 DEF WikiInv, WikiTyped
<1>8. WikiTyped'
  BY <1>1, <1>3, <1>4, <1>5, <1>6 DEF WikiInv, WikiTyped
<1>9. UsedIds' = UsedIds
  BY <1>3, <1>5, <1>7, NoTextIsNew DEF UsedIds
<1>10. Budget'
  <2>1. \A k \in Ids : wanted'[k] = NoText => revisions'[k] = <<>>
    BY <1>5, <1>7, NoTextIsNew DEF WikiInv, Budget
  <2>2. wikiAsks' \in Nat /\ wikiAsks' >= wikiAsks
    BY WikiAssumption DEF WikiInv, WikiTyped
  <2>3. n.pc \notin TakeId
    BY <1>6 DEF TakeId
  <2> QED BY <1>1, <1>9, <2>1, <2>2, <2>3, BudgetStep DEF WikiInv
<1>11. \A d \in Writers : Holds(wikiReq[d])'
  BY <1>3, <1>6, <1>7, <1>9 DEF WikiInv, Holds, TakeId
<1>12. Apart'
  BY <1>2, <1>4, <1>6, <1>7, <1>9 DEF WikiInv, Apart, WikiAt
<1>13. met \subseteq met'
  BY <1>1
<1>14. ASSUME NEW s \in 1..Slugs PROVE Recorded(s)' /\ InHand(s)'
  <2>1. CASE s = z
    <3>1. Recorded(s)'
      BY <1>4, <1>6, <1>7, <2>1 DEF Recorded, WikiAt
    <3>2. ASSUME i \notin met' PROVE text = wanted'[i]
      <4>1. Text(page[z]) = wanted[i]
        BY <1>2, <1>13, <3>2 DEF WikiInv, InHand
      <4> QED BY <1>3, <1>7, <3>2, <4>1 DEF w
    <3>3. ASSUME i \notin met', NEW d \in Writers \ {c},
                 wikiReq[d].pc \in {"rev", "write"}, wikiReq[d].id = i
          PROVE  FALSE
      BY <1>1, <3>3 DEF Held
    <3>4. Owed(i)'
      BY <1>6, <1>7 DEF Owed, WikiAt
    <3>5. InHand(s)'
      BY <1>4, <1>6, <1>7, <2>1, <3>2, <3>3, <3>4 DEF InHand, WikiAt
    <3> QED BY <3>1, <3>5
  <2>2. CASE s # z
    <3>1. page[s].id # 0 => page[s].id \in Ids /\ page[s].id # i
      BY <1>2, <2>2 DEF WikiInv, Apart, UsedIds
    <3>2. Recorded(s) /\ InHand(s) /\ page'[s] = page[s]
      BY <1>7, <2>2 DEF WikiInv
    <3> QED BY <1>6, <1>7, <1>13, <3>1, <3>2, Untouched
  <2> QED BY <2>1, <2>2
<1> QED BY <1>8, <1>10, <1>11, <1>12, <1>14 DEF WikiInv

LEMMA InsertPageStep == ASSUME WikiInv, NEW c \in Writers, InsertPage(c) PROVE WikiInv'
<1>1. CASE page[wikiReq[c].slug].id = 0
  <2>1. NewPage(c) /\ UNCHANGED <<revisions, met, torn, wikiAsks, wikiFaults>> /\ wikiReq[c].pc = "insert"
    BY <1>1 DEF InsertPage, WikiRest, WikiAt
  <2> QED BY <1>1, <2>1, NewPageStep
<1>2. CASE page[wikiReq[c].slug].id # 0
  <2>1. wikiReq' = [wikiReq EXCEPT ![c] = Quiet] /\ UNCHANGED <<page, revisions, wanted, WikiRest>>
    BY <1>2 DEF InsertPage, WikiDone
  <2>2. wikiReq[c].pc = "insert"
    BY DEF InsertPage, WikiAt
  <2> QED BY <2>1, <2>2, QuietReq, GoOn DEF TakeId
<1> QED BY <1>1, <1>2

LEMMA WritePageStep == ASSUME WikiInv, NEW c \in Writers, WritePage(c) PROVE WikiInv'
<1> DEFINE r == wikiReq[c]
           i == page[r.slug].id
<1>1. /\ r.pc = "write" /\ r \in WikiReqs /\ r.id \in UsedIds /\ r.text \in Written
      /\ r.slug \in 1..Slugs
  BY DEF WikiInv, WikiTyped, Holds, WritePage, WikiAt, WikiReqs
<1>2. CASE i = 0
  <2>1. wikiReq' = [wikiReq EXCEPT ![c] = Quiet] /\ UNCHANGED <<page, revisions, wanted, WikiRest>>
    BY <1>2 DEF WritePage, WikiDone, WikiRest
  <2> QED BY <1>1, <2>1, QuietReq, GoOn DEF TakeId
<1>3. CASE i # 0
  <2>1. Rewrite(c, i, r.text) /\ UNCHANGED <<revisions, torn, wikiAsks, wikiFaults>>
    BY <1>3 DEF WritePage
  <2>2. ASSUME i \notin met' PROVE r.text = Filled(r, Text(page[r.slug]))
    <3>1. r.id = i /\ i \notin met
      BY <1>1, <2>1, <2>2, WikiAssumption DEF Rewrite, UsedIds, Ids
    <3> QED BY <1>1, <1>3, <3>1 DEF WikiInv, InHand, WikiAt
  <2> QED BY <1>1, <1>3, <2>1, <2>2, RewriteStep
<1> QED BY <1>2, <1>3

LEMMA UpsertPageStep == ASSUME WikiInv, NEW c \in Writers, UpsertPage(c) PROVE WikiInv'
<1> DEFINE r == wikiReq[c]
           i == page[r.slug].id
<1>1. r.pc = "upsert" /\ r.title \in Words /\ r.body \in Words
  BY DEF WikiInv, Holds, TakeId, UpsertPage, WikiAt
<1>2. CASE i = 0
  <2>1. NewPage(c) /\ UNCHANGED <<revisions, met, torn, wikiAsks, wikiFaults>>
    BY <1>2 DEF UpsertPage
  <2> QED BY <1>1, <1>2, <2>1, NewPageStep
<1>3. CASE i # 0
  <2>1. Rewrite(c, i, Text(r)) /\ UNCHANGED <<revisions, torn, wikiAsks, wikiFaults>>
    BY <1>3 DEF UpsertPage
  <2>2. Text(r) \in Written /\ Text(r) = Filled(r, Text(page[r.slug]))
    BY <1>1, WikiAssumption DEF Text, Written, Filled
  <2> QED BY <1>1, <1>3, <2>1, <2>2, RewriteStep
<1> QED BY <1>2, <1>3

LEMMA WriteRevisionStep == ASSUME WikiInv, NEW c \in Writers, WriteRevision(c) PROVE WikiInv'
<1> DEFINE r == wikiReq[c]
           i == r.id
<1>1. /\ r.pc = "rev" /\ i \in UsedIds /\ i \in Ids /\ r.text \in Written
      /\ wikiReq' = [wikiReq EXCEPT ![c] = Quiet] /\ UNCHANGED <<page, wanted, met, torn, wikiAsks, wikiFaults>>
      /\ revisions' = IF Exists(i) THEN [revisions EXCEPT ![i] = Append(@, r.text)] ELSE revisions
  BY DEF WikiInv, Holds, WriteRevision, WikiAt, WikiDone, WikiRest, UsedIds
<1>2. \A d \in Writers : wikiReq'[d] = IF d = c THEN Quiet ELSE wikiReq[d]
  BY <1>1 DEF WikiInv, WikiTyped
<1>3. /\ \A k \in Ids \ {i} : revisions'[k] = revisions[k]
      /\ revisions' \in [Ids -> Seq(Written)]
  BY <1>1 DEF WikiInv, WikiTyped
<1>4. WikiTyped'
  BY <1>1, <1>3, QuietReq DEF WikiInv, WikiTyped
<1>5. UsedIds' = UsedIds
  BY <1>1 DEF UsedIds
<1>6. Budget'
  <2>1. \A k \in Ids : wanted'[k] = NoText => revisions'[k] = <<>>
    BY <1>1, <1>3 DEF WikiInv, Budget, UsedIds
  <2>2. wikiAsks' \in Nat /\ wikiAsks' >= wikiAsks
    BY <1>1, WikiAssumption DEF WikiInv, WikiTyped
  <2>3. Quiet.pc \notin TakeId
    BY QuietReq DEF TakeId
  <2> QED BY <1>1, <1>5, <2>1, <2>2, <2>3, BudgetStep DEF WikiInv
<1>7. \A d \in Writers : Holds(wikiReq[d])'
  BY <1>2, <1>5, QuietReq DEF WikiInv, Holds
<1>8. Apart'
  BY <1>1, <1>2, <1>5, QuietReq DEF WikiInv, Apart, WikiAt
<1>9. ASSUME NEW s \in 1..Slugs PROVE Recorded(s)' /\ InHand(s)'
  <2>1. Recorded(s) /\ InHand(s) /\ (page[s].id # 0 => page[s].id \in Ids)
    BY DEF WikiInv, Apart, UsedIds
  <2>2. CASE page[s].id = i /\ i # 0
    <3>1. Exists(i) /\ revisions[i] \in Seq(Written)
      BY <1>1, <2>2 DEF Exists, WikiInv, WikiTyped
    <3>2. revisions'[i] = Append(revisions[i], r.text)
      BY <1>1, <3>1 DEF WikiInv, WikiTyped
    <3>3. /\ Len(revisions'[i]) = Len(revisions[i]) + 1 /\ Len(revisions[i]) \in Nat
          /\ \A n \in 1..Len(revisions[i]) : revisions'[i][n] = revisions[i][n]
          /\ revisions'[i][Len(revisions[i]) + 1] = r.text
      BY <1>1, <3>1, <3>2
    <3>4. LatestOf(revisions'[i]) = r.text
      BY <3>3 DEF LatestOf
    <3>5. page'[s] = page[s] /\ wanted' = wanted /\ met' = met /\ torn' = torn
      BY <1>1
    <3>6. Recorded(s)'
      <4>1. SUFFICES ASSUME i \notin torn
                     PROVE  \/ \E n \in 1..Len(revisions'[i]) : revisions'[i][n] = Text(page[s])
                            \/ \E d \in Writers : /\ wikiReq'[d].pc = "rev" /\ wikiReq'[d].id = i
                                                  /\ wikiReq'[d].text = Text(page[s])
        BY <2>2, <3>5 DEF Recorded, WikiAt
      <4>2. CASE \E n \in 1..Len(revisions[i]) : revisions[i][n] = Text(page[s])
        BY <3>3, <4>2
      <4>3. CASE r.text = Text(page[s])
        <5>1. Len(revisions[i]) + 1 \in 1..Len(revisions'[i])
          BY <3>3
        <5> QED BY <3>3, <4>3, <5>1
      <4>4. CASE \E d \in Writers \ {c} : /\ wikiReq[d].pc = "rev" /\ wikiReq[d].id = i
                                          /\ wikiReq[d].text = Text(page[s])
        BY <1>2, <4>4
      <4> QED BY <2>1, <2>2, <4>1, <4>2, <4>3, <4>4 DEF Recorded, WikiAt
    <3>7. InHand(s)'
      <4>1. i \notin met => r.text = Text(page[s])
        BY <1>1, <2>1, <2>2 DEF InHand, WikiAt
      <4>2. \A d \in Writers : wikiReq'[d].pc \in {"rev", "write"} => wikiReq'[d] = wikiReq[d]
        BY <1>2, QuietReq
      <4> QED BY <2>1, <2>2, <3>4, <3>5, <4>1, <4>2 DEF InHand, WikiAt
    <3> QED BY <3>6, <3>7
  <2>3. CASE ~(page[s].id = i /\ i # 0)
    <3>1. page[s].id # 0 => revisions'[page[s].id] = revisions[page[s].id]
      BY <1>3, <2>1, <2>3
    <3>2. page'[s] = page[s] /\ wanted' = wanted /\ met' = met /\ torn' = torn
      BY <1>1
    <3>3. page[s].id # 0 => page[s].id # i
      BY <2>3
    <3> QED BY <1>2, <2>1, <3>1, <3>2, <3>3, QuietReq, Untouched
  <2> QED BY <2>2, <2>3
<1> QED BY <1>4, <1>6, <1>7, <1>8, <1>9 DEF WikiInv

LEMMA DeletePageStep == ASSUME WikiInv, NEW z \in 1..Slugs, DeletePage(z) PROVE WikiInv'
<1> DEFINE i == page[z].id
<1>1. /\ i # 0 /\ page' = [page EXCEPT ![z] = NoPage] /\ revisions' = [revisions EXCEPT ![i] = <<>>]
      /\ wikiAsks < MaxWikiAsks /\ wikiAsks' = wikiAsks + 1
      /\ UNCHANGED <<wikiReq, wanted, met, torn, wikiFaults>>
  BY DEF DeletePage
<1>2. i \in UsedIds /\ i \in Ids
  BY <1>1 DEF WikiInv, Apart, UsedIds
<1>3. wikiAsks' \in 0..MaxWikiAsks
  BY <1>1, WikiAssumption DEF WikiInv, WikiTyped
<1>4. WikiTyped'
  <2>1. revisions' \in [Ids -> Seq(Written)]
    <3>1. <<>> \in Seq(Written) /\ revisions \in [Ids -> Seq(Written)]
      BY DEF WikiInv, WikiTyped
    <3> HIDE DEF i
    <3> QED BY <1>1, <3>1
  <2> QED BY <1>1, <1>3, <2>1 DEF WikiInv, WikiTyped
<1>5. UsedIds' = UsedIds /\ Creating' = Creating
  BY <1>1 DEF UsedIds, Creating
<1>6. Budget'
  <2>1. \A k \in Ids : wanted'[k] = NoText => revisions'[k] = <<>>
    BY <1>1 DEF WikiInv, WikiTyped, Budget
  <2>2. IsFiniteSet(Creating') /\ Cardinality(UsedIds') + Cardinality(Creating') <= wikiAsks'
    <3>1. IsFiniteSet(UsedIds)
      <4>1. IsFiniteSet(Ids)
        BY IdsAreFew
      <4> QED BY <4>1, FS_Subset DEF UsedIds
    <3>2. Cardinality(UsedIds) \in Nat /\ Cardinality(Creating) \in Nat /\ wikiAsks \in Nat
      BY <3>1, FS_CardinalityType, WikiAssumption DEF WikiInv, Budget, WikiTyped
    <3> QED BY <1>1, <1>5, <3>2 DEF WikiInv, Budget
  <2> QED BY <2>1, <2>2 DEF Budget
<1>7. \A s \in 1..Slugs : page'[s] = IF s = z THEN NoPage ELSE page[s]
  BY <1>1 DEF WikiInv, WikiTyped
<1>8. \A d \in Writers : Holds(wikiReq[d])'
  BY <1>1, <1>5 DEF WikiInv, Holds
<1>9. NoPage.id = 0
  BY DEF NoPage
<1>10. Apart'
  <2>1. \A d \in Writers : WikiAt(d, "write")' => wikiReq[d].id \in Ids /\ wikiReq[d].id # 0
    BY <1>1, WikiAssumption DEF WikiInv, Holds, UsedIds, Ids, WikiAt
  <2> QED BY <1>1, <1>5, <1>7, <1>9, <2>1 DEF WikiInv, Apart, WikiAt
<1>11. ASSUME NEW s \in 1..Slugs PROVE Recorded(s)' /\ InHand(s)'
  <2>1. CASE s = z
    BY <1>7, <1>9, <2>1 DEF Recorded, InHand
  <2>2. CASE s # z
    <3>1. Recorded(s) /\ InHand(s) /\ page'[s] = page[s]
      BY <1>7, <2>2 DEF WikiInv
    <3>2. page[s].id # 0 => page[s].id # i /\ page[s].id \in Ids
      BY <1>1, <2>2 DEF WikiInv, Apart, UsedIds
    <3>3. page[s].id # 0 => revisions'[page[s].id] = revisions[page[s].id]
      BY <1>1, <3>2 DEF WikiInv, WikiTyped
    <3>4. wanted' = wanted /\ wikiReq' = wikiReq /\ met' = met /\ torn' = torn
      BY <1>1
    <3> QED BY <3>1, <3>3, <3>4, Untouched
  <2> QED BY <2>1, <2>2
<1> QED BY <1>4, <1>6, <1>8, <1>10, <1>11 DEF WikiInv

LEMMA WikiStepStays == WikiInv /\ [WikiNext]_wikiVars => WikiInv'
<1> SUFFICES ASSUME WikiInv, [WikiNext]_wikiVars PROVE WikiInv'
  OBVIOUS
<1>1. ASSUME NEW c \in WikiClients, AskWiki(c) PROVE WikiInv'
  <2>1. c \in Writers /\ 1 \in 1..Slugs
    BY WikiAssumption DEF Writers
  <2>2. {"slug", "read"} \subseteq WikiPlaces \ {"rev", "write"} /\ "read" \notin TakeId
    BY DEF WikiPlaces, TakeId
  <2> QED BY <1>1, <2>1, <2>2, AskStep DEF AskWiki
<1>2. ASSUME NEW c \in Importers, ImportPage(c) PROVE WikiInv'
  <2>1. c \in Writers /\ 1 \in 1..Slugs
    BY WikiAssumption DEF Writers
  <2>2. "upsert" \in WikiPlaces \ {"rev", "write"}
    BY DEF WikiPlaces
  <2> QED BY <1>2, <2>1, <2>2, AskStep DEF ImportPage
<1>3. CASE UNCHANGED wikiVars
  BY <1>3 DEF wikiVars, WikiInv, WikiTyped, Budget, UsedIds, Creating, Apart, Holds, Recorded,
              InHand, Owed, WikiAt
<1> QED
  BY <1>1, <1>2, <1>3, TrySlugStep, InsertPageStep, ReadPageStep, WritePageStep, UpsertPageStep,
     WriteRevisionStep, CutWikiStep, DeletePageStep DEF WikiNext, Writers

(* What a page says is in its history once the requests on it are over,    *)
(* and the edits of a page that no two requests edited at once are all     *)
(* kept: for any words, slugs, clients, imports, requests and faults.      *)
THEOREM WikiIsSound == WikiSpec => []WikiSound
<1>1. WikiInv /\ [WikiNext]_wikiVars => WikiInv'
  BY WikiStepStays
<1>2. WikiInv => WikiSound
  BY DEF WikiInv, Recorded, InHand, WikiSound, HistoryHasPage, EditsKept, Owed
<1> QED BY <1>1, <1>2, WikiInitially, PTL DEF WikiSpec

-----------------------------------------------------------------------------
(***************************************************************************)
(* SecretsSound for any rows, editors, contexts and number of requests.    *)
(***************************************************************************)
(* The levels the fetch has asked.                                         *)
AlreadyRead(next) ==
  CASE next = "group"      -> {"server"}
    [] next = "repository" -> {"server", "group"}
    [] next = "sent"       -> Levels
    [] OTHER               -> {}

(* A row that was there all through the fetch is outranked from the moment *)
(* its level has been read.                                                *)
Outranked ==
  \A i \in kept : entry[i].level \in AlreadyRead(fetch.next) =>
    /\ fetch.merged # NoEntry
    /\ LevelRank[fetch.merged.level] >= LevelRank[entry[i].level]

(* What an update read is what it writes over, unless updates overlap.     *)
StillRead ==
  \A c \in SecretClients : edit[c].pc = "write" /\ ~mingled => entry[edit[c].id] = edit[c].read

SecretEdits ==
  {NoEdit} \cup
  [pc : {"write", "environment"}, id : SecretIds, ask : Edits, read : SecretRows]

SecretsInv ==
  /\ entry \in [SecretIds -> SecretRows \cup {NoEntry}]
  /\ edit \in [SecretClients -> SecretEdits]
  /\ fetch = [next |-> fetch.next, merged |-> fetch.merged]
  /\ kept \subseteq Entries
  /\ \A i \in kept : MatchesJob(entry[i])
  /\ Outranked /\ StillRead /\ MaskStays

LEMMA SecretsInitially == SecretsInit => SecretsInv
BY DEF SecretsInit, SecretsInv, Entries, NoEdit, SecretEdits, Outranked, AlreadyRead, StillRead,
       MaskStays

(* A row that is written, created or deleted is not one the fetch relies   *)
(* on, unless it keeps its level; and whoever has it open overlaps.        *)
LEMMA RowStep ==
  ASSUME SecretsInv, NEW i \in SecretIds, NEW row \in SecretRows \cup {NoEntry},
         entry' = [entry EXCEPT ![i] = row],
         kept' \subseteq kept,
         i \in kept' => row # NoEntry /\ row.level = entry[i].level /\ MatchesJob(row),
         UNCHANGED <<fetch, ciJob>>
  PROVE  /\ entry' \in [SecretIds -> SecretRows \cup {NoEntry}]
         /\ kept' \subseteq Entries'
         /\ \A k \in kept' : MatchesJob(entry[k])'
         /\ Outranked'
<1>1. \A k \in SecretIds : entry'[k] = IF k = i THEN row ELSE entry[k]
  BY DEF SecretsInv
<1>2. entry' \in [SecretIds -> SecretRows \cup {NoEntry}]
  BY DEF SecretsInv
<1>3. kept' \subseteq Entries'
  BY <1>1 DEF SecretsInv, Entries
<1>4. \A k \in kept' : MatchesJob(entry[k])'
  BY <1>1, <1>3 DEF SecretsInv, MatchesJob, Entries
<1>5. \A k \in kept' : entry'[k].level = entry[k].level
  BY <1>1, <1>3 DEF Entries
<1>6. Outranked'
  BY <1>5 DEF SecretsInv, Outranked
<1> QED BY <1>2, <1>3, <1>4, <1>6

(* An update that is still open has read the row as it is, or meets the    *)
(* request that changes it.                                                *)
LEMMA StillReadStep ==
  ASSUME SecretsInv, NEW i \in SecretIds, \A k \in SecretIds \ {i} : entry'[k] = entry[k],
         mingled => mingled',
         \A d \in SecretClients : edit'[d].pc = "write" =>
           edit'[d] = edit[d] /\ (edit[d].id = i => mingled')
  PROVE  StillRead'
<1> SUFFICES ASSUME NEW d \in SecretClients, edit'[d].pc = "write", ~mingled'
             PROVE  entry'[edit'[d].id] = edit'[d].read
  BY DEF StillRead
<1>1. edit'[d] = edit[d] /\ edit[d].id # i /\ edit[d].pc = "write"
  OBVIOUS
<1>2. edit[d].id \in SecretIds
  BY <1>1 DEF SecretsInv, SecretEdits, NoEdit
<1> QED BY <1>1, <1>2 DEF SecretsInv, StillRead

LEMMA CreateStep ==
  ASSUME SecretsInv, NEW c \in SecretClients, NEW l \in Levels, NEW r \in Creates, CreateAt(c, l, r)
  PROVE  SecretsInv'
<1> DEFINE scope == OrElse(r.scope, "secret")
           env == OrElse(r.env, "all")
           kind == KindOf(scope, OrElse(r.kind, "variable"))
           mask == OrElse(r.masked, DefaultMasked(scope))
           row == [level |-> l, env |-> env, scope |-> scope, kind |-> kind, masked |-> mask]
<1>1. CASE Taken(l, env, NoEntry)
  BY <1>1 DEF CreateAt, Unwritten, SecretsInv, Entries, Outranked, StillRead, MaskStays, MatchesJob
<1>2. CASE ~Taken(l, env, NoEntry)
  <2>1. WriteEntry(NewRow, row) /\ UNCHANGED <<edit, ciJob, fetch, given, unmasked>>
    BY <1>2 DEF CreateAt
  <2>2. NewRow \in SecretIds /\ NewRow \notin Entries
    BY DEF CreateAt, NewRow, Entries
  <2>3. row \in SecretRows
    <3>1. scope \in {"secret", "variable"} /\ env \in SecretEnvs /\ mask \in BOOLEAN
      BY SecretsAssumption DEF OrElse, SecretEnvs, DefaultMasked
    <3>2. kind \in {"variable", "file"}
      BY SecretsAssumption DEF OrElse, KindOf
    <3> HIDE DEF scope, env, kind, mask
    <3> QED BY <3>1, <3>2 DEF SecretRows
  <2> HIDE DEF row, scope, env
  <2>4. NewRow \notin kept /\ kept' \subseteq kept
    BY <2>1, <2>2 DEF SecretsInv, WriteEntry
  <2>5. /\ entry' \in [SecretIds -> SecretRows \cup {NoEntry}]
        /\ kept' \subseteq Entries'
        /\ \A k \in kept' : MatchesJob(entry[k])'
        /\ Outranked'
    BY <2>1, <2>2, <2>3, <2>4, RowStep DEF WriteEntry
  <2>6. StillRead'
    <3>1. \A k \in SecretIds \ {NewRow} : entry'[k] = entry[k]
      BY <2>1 DEF WriteEntry, SecretsInv
    <3> QED BY <2>1, <2>2, <3>1, StillReadStep DEF WriteEntry
  <2>7. MaskStays'
    BY <2>1 DEF MaskStays, SecretsInv, WriteEntry
  <2> QED BY <2>1, <2>5, <2>6, <2>7 DEF SecretsInv
<1> QED BY <1>1, <1>2

LEMMA DeleteStep ==
  ASSUME SecretsInv, NEW c \in SecretClients, NEW l, NEW i, DeleteAt(c, l, i)
  PROVE  SecretsInv'
<1>1. i \in SecretIds /\ WriteEntry(i, NoEntry) /\ UNCHANGED <<edit, ciJob, fetch, given, unmasked>>
  BY DEF DeleteAt, Entries
<1>2. kept' = kept \ {i}
  BY <1>1 DEF WriteEntry
<1>3. /\ entry' \in [SecretIds -> SecretRows \cup {NoEntry}]
      /\ kept' \subseteq Entries'
      /\ \A k \in kept' : MatchesJob(entry[k])'
      /\ Outranked'
  BY <1>1, <1>2, RowStep DEF WriteEntry
<1>4. StillRead'
  <2>1. \A k \in SecretIds \ {i} : entry'[k] = entry[k]
    BY <1>1 DEF WriteEntry, SecretsInv
  <2> QED BY <1>1, <2>1, StillReadStep DEF WriteEntry
<1>5. MaskStays'
  BY <1>1 DEF MaskStays, SecretsInv, WriteEntry
<1> QED BY <1>1, <1>3, <1>4, <1>5 DEF SecretsInv

LEMMA OpenStep ==
  ASSUME SecretsInv, NEW c \in SecretClients, NEW l, NEW i, NEW r \in Edits, OpenUpdate(c, l, i, r)
  PROVE  SecretsInv'
<1>1. /\ i \in SecretIds /\ entry[i] \in SecretRows
      /\ edit' = [edit EXCEPT ![c] = [pc |-> "write", id |-> i, ask |-> r, read |-> entry[i]]]
      /\ UNCHANGED <<entry, kept, mingled, ciJob, fetch, given, unmasked>>
  BY DEF OpenUpdate, Unwritten, Entries, SecretsInv
<1>2. edit' \in [SecretClients -> SecretEdits]
  BY <1>1 DEF SecretsInv, SecretEdits
<1>3. StillRead'
  BY <1>1 DEF SecretsInv, StillRead
<1> QED BY <1>1, <1>2, <1>3 DEF SecretsInv, Entries, Outranked, MaskStays, MatchesJob

LEMMA CommitUpdateStep ==
  ASSUME SecretsInv, NEW c \in SecretClients, CommitUpdate(c)
  PROVE  SecretsInv'
<1> DEFINE r == edit[c].ask
           old == edit[c].read
           i == edit[c].id
           scope == OrElse(r.scope, old.scope)
           kind == KindOf(scope, OrElse(r.kind, old.kind))
           asked == r.value \/ r.scope # Keep \/ r.kind # Keep \/ r.masked # Keep \/ r.env # Keep
           new == [entry[i] EXCEPT !.scope = scope, !.kind = kind, !.masked = NextMask(r, old)]
<1>1. /\ edit[c].pc = "write" /\ i \in SecretIds /\ r \in Edits /\ old \in SecretRows
      /\ UNCHANGED <<ciJob, fetch, given>>
  BY DEF CommitUpdate, SecretsInv, SecretEdits, NoEdit
<1>2. /\ edit' = [edit EXCEPT ![c] = edit'[c]] /\ edit'[c] \in SecretEdits
      /\ edit'[c].pc # "write"
  <2>1. PICK e \in {NoEdit, [edit[c] EXCEPT !.pc = "environment"]} : edit' = [edit EXCEPT ![c] = e]
    BY DEF CommitUpdate
  <2>2. edit'[c] = e /\ edit' = [edit EXCEPT ![c] = edit'[c]]
    BY <2>1 DEF SecretsInv
  <2>3. e \in SecretEdits /\ e.pc # "write"
    BY <1>1, <2>1 DEF NoEdit, SecretsInv, SecretEdits
  <2> QED BY <2>2, <2>3
<1>3. edit' \in [SecretClients -> SecretEdits]
  BY <1>2 DEF SecretsInv
<1>4. CASE asked /\ i \in Entries
  <2>1. /\ entry' = [entry EXCEPT ![i] = new]
        /\ kept' = kept
        /\ mingled' = (mingled \/ \E d \in SecretClients \ {c} : edit[d].pc # "idle" /\ edit[d].id = i)
        /\ unmasked' = (unmasked \/ (entry[i].masked /\ ~new.masked /\ r.masked = Keep /\ r.scope = Keep))
    BY <1>4 DEF CommitUpdate
  <2>2. /\ new \in SecretRows /\ new.level = entry[i].level /\ new.env = entry[i].env
        /\ new.masked = NextMask(r, old)
    <3>1. entry[i] \in SecretRows
      BY <1>1, <1>4 DEF SecretsInv, Entries
    <3>2. old.scope \in {"secret", "variable"} /\ old.kind \in {"variable", "file"} /\ old.masked \in BOOLEAN
      BY <1>1 DEF SecretRows
    <3>3. scope \in {"secret", "variable"} /\ OrElse(r.kind, old.kind) \in {"variable", "file"}
      BY <1>1, <3>2, SecretsAssumption DEF OrElse
    <3>4. kind \in {"variable", "file"}
      BY <3>3 DEF KindOf
    <3>5. NextMask(r, old) \in BOOLEAN
      BY <1>1, <3>2, SecretsAssumption DEF NextMask, OrElse, DefaultMasked
    <3> DEFINE mask == NextMask(r, old)
               row == entry[i]
    <3>6. new = [row EXCEPT !.scope = scope, !.kind = kind, !.masked = mask]
      OBVIOUS
    <3>7. mask \in BOOLEAN /\ row \in SecretRows
      BY <3>1, <3>5
    <3> HIDE DEF mask, scope, kind, row, new
    <3>9. new \in SecretRows /\ new.masked = mask /\ new.level = row.level /\ new.env = row.env
      BY <3>3, <3>4, <3>6, <3>7 DEF SecretRows
    <3>8. new \in SecretRows /\ new.masked = mask /\ new.level = entry[i].level /\ new.env = entry[i].env
      BY <3>9 DEF row
    <3> QED BY <3>8 DEF mask
  <2> HIDE DEF new, scope, kind, asked
  <2>3. entry'[i] = new /\ \A k \in SecretIds \ {i} : entry'[k] = entry[k]
    BY <1>1, <2>1 DEF SecretsInv
  <2>4. unmasked' => mingled'
    <3>1. mingled => mingled'
      BY <2>1
    <3>2. SUFFICES ASSUME ~mingled, r.masked = Keep, r.scope = Keep
                   PROVE  new.masked = entry[i].masked
      BY <2>1, <3>1 DEF SecretsInv, MaskStays
    <3>3. entry[i] = old
      BY <1>1, <3>2 DEF SecretsInv, StillRead
    <3> QED BY <2>2, <3>2, <3>3 DEF NextMask, OrElse
  <2>5. StillRead'
    <3>1. \A d \in SecretClients : edit'[d].pc = "write" => d # c /\ edit'[d] = edit[d]
      BY <1>2 DEF SecretsInv
    <3>2. \A d \in SecretClients : edit'[d].pc = "write" /\ edit[d].id = i => mingled'
      BY <2>1, <3>1
    <3> QED BY <1>1, <2>1, <2>3, <3>1, <3>2, StillReadStep
  <2>6. i \in kept => new # NoEntry /\ MatchesJob(new)
    BY <2>2, SecretsAssumption DEF SecretsInv, MatchesJob
  <2> HIDE DEF r, old, i
  <2>7. /\ entry' \in [SecretIds -> SecretRows \cup {NoEntry}]
        /\ kept' \subseteq Entries'
        /\ \A k \in kept' : MatchesJob(entry[k])'
        /\ Outranked'
    BY <1>1, <2>1, <2>2, <2>6, RowStep
  <2> QED BY <1>1, <1>3, <2>4, <2>5, <2>7 DEF SecretsInv, MaskStays
<1>5. CASE ~(asked /\ i \in Entries)
  <2>1. UNCHANGED <<entry, kept, mingled, unmasked>>
    BY <1>5 DEF CommitUpdate, Unwritten
  <2>2. StillRead'
    BY <1>2, <2>1 DEF SecretsInv, StillRead
  <2> QED BY <1>1, <1>3, <2>1, <2>2 DEF SecretsInv, Entries, Outranked, MaskStays, MatchesJob
<1> QED BY <1>4, <1>5

LEMMA CommitEnvironmentStep ==
  ASSUME SecretsInv, NEW c \in SecretClients, CommitEnvironment(c)
  PROVE  SecretsInv'
<1> DEFINE i == edit[c].id
           env == edit[c].ask.env
           new == [entry[i] EXCEPT !.env = env]
<1>1. /\ i \in SecretIds /\ env \in SecretEnvs /\ edit' = [edit EXCEPT ![c] = NoEdit]
      /\ UNCHANGED <<ciJob, fetch, given, unmasked>>
  BY DEF CommitEnvironment, SecretsInv, SecretEdits, NoEdit, SecretEnvs
<1>2. /\ edit' \in [SecretClients -> SecretEdits]
      /\ \A d \in SecretClients : edit'[d].pc # "idle" => d # c /\ edit'[d] = edit[d]
  BY <1>1 DEF SecretsInv, NoEdit, SecretEdits
<1>3. CASE i \notin Entries \/ Taken(entry[i].level, env, i)
  <2>1. UNCHANGED <<entry, kept, mingled>>
    BY <1>3 DEF CommitEnvironment, Unwritten
  <2>2. StillRead'
    BY <1>2, <2>1 DEF SecretsInv, StillRead
  <2> QED BY <1>1, <1>2, <2>1, <2>2 DEF SecretsInv, Entries, Outranked, MaskStays, MatchesJob
<1>4. CASE ~(i \notin Entries \/ Taken(entry[i].level, env, i))
  <2>1. /\ entry' = [entry EXCEPT ![i] = new]
        /\ kept' = IF MatchesJob([env |-> env]) THEN kept ELSE kept \ {i}
        /\ mingled' = (mingled \/ \E d \in SecretClients \ {c} : edit[d].pc # "idle" /\ edit[d].id = i)
    BY <1>4 DEF CommitEnvironment
  <2>2. new \in SecretRows /\ new.level = entry[i].level /\ new.env = env
    BY <1>1, <1>4 DEF SecretsInv, Entries, SecretRows
  <2> HIDE DEF new
  <2>3. i \in kept' => new # NoEntry /\ MatchesJob(new)
    BY <2>1, <2>2, SecretsAssumption DEF MatchesJob, SecretsInv
  <2>4. \A k \in SecretIds \ {i} : entry'[k] = entry[k]
    BY <1>1, <2>1 DEF SecretsInv
  <2>5. StillRead'
    <3>1. \A d \in SecretClients : edit'[d].pc = "write" => d # c /\ edit'[d] = edit[d]
      BY <1>2
    <3>2. \A d \in SecretClients : edit'[d].pc = "write" /\ edit[d].id = i => mingled'
      BY <2>1, <3>1
    <3> QED BY <1>1, <2>1, <2>4, <3>1, <3>2, StillReadStep
  <2> HIDE DEF i, env
  <2>6. kept' \subseteq kept /\ (mingled => mingled')
    BY <2>1
  <2>7. /\ entry' \in [SecretIds -> SecretRows \cup {NoEntry}]
        /\ kept' \subseteq Entries'
        /\ \A k \in kept' : MatchesJob(entry[k])'
        /\ Outranked'
    BY <1>1, <2>1, <2>2, <2>3, <2>6, RowStep
  <2> QED BY <1>1, <1>2, <2>5, <2>6, <2>7 DEF SecretsInv, MaskStays
<1> QED BY <1>3, <1>4

LEMMA FetchStep ==
  ASSUME SecretsInv, FetchContext \/ (\E l \in Levels : ReadLevel(l)) \/ (\E b \in BOOLEAN : Prepare(b))
  PROVE  SecretsInv'
<1>1. ASSUME FetchContext PROVE SecretsInv'
  <2>1. /\ fetch' = [next |-> "server", merged |-> NoEntry]
        /\ kept' = {i \in Entries : MatchesJob(entry[i])}
        /\ UNCHANGED <<entry, edit, ciJob, given, unmasked, mingled>>
    BY <1>1 DEF FetchContext
  <2>2. Outranked'
    BY <2>1 DEF Outranked, AlreadyRead
  <2> QED BY <2>1, <2>2 DEF SecretsInv, Entries, StillRead, MaskStays, MatchesJob
<1>2. ASSUME NEW l \in Levels, ReadLevel(l) PROVE SecretsInv'
  <2> DEFINE found == {i \in Entries : entry[i].level = l /\ MatchesJob(entry[i])}
  <2>1. /\ fetch.next = l /\ fetch' = [next |-> After[l], merged |-> fetch'.merged]
        /\ IF found = {} THEN fetch'.merged = fetch.merged
                        ELSE \E i \in found : fetch'.merged = entry[i]
        /\ UNCHANGED <<entry, edit, ciJob, given, kept, unmasked, mingled>>
    BY <1>2 DEF ReadLevel
  <2>2. \A i \in kept : entry[i].level = l => i \in found
    BY DEF SecretsInv
  <2>4. AlreadyRead(After[l]) = AlreadyRead(l) \cup {l}
    BY DEF AlreadyRead, After, Levels
  <2>5. \A k \in AlreadyRead(l) : LevelRank[l] >= LevelRank[k]
    BY DEF AlreadyRead, LevelRank, Levels
  <2>6. LevelRank[l] >= LevelRank[l]
    BY DEF LevelRank, Levels
  <2>7. Outranked'
    <3>1. SUFFICES ASSUME NEW i \in kept, entry[i].level \in AlreadyRead(l) \cup {l}
                   PROVE  /\ fetch'.merged # NoEntry
                          /\ LevelRank[fetch'.merged.level] >= LevelRank[entry[i].level]
      BY <2>1, <2>4 DEF Outranked
    <3>2. CASE found = {}
      BY <2>1, <2>2, <3>1, <3>2 DEF SecretsInv, Outranked
    <3>3. CASE found # {}
      BY <2>1, <2>5, <2>6, <3>1, <3>3 DEF Entries
    <3> QED BY <3>2, <3>3
  <2>8. /\ fetch' = [next |-> fetch'.next, merged |-> fetch'.merged]
    BY <2>1
  <2> HIDE DEF found
  <2> QED BY <2>1, <2>7, <2>8 DEF SecretsInv, Entries, StillRead, MaskStays, MatchesJob
<1>3. ASSUME NEW b \in BOOLEAN, Prepare(b) PROVE SecretsInv'
  <2>1. /\ fetch' = fetch \/ fetch' = [fetch EXCEPT !.next = "failed"]
        /\ UNCHANGED <<entry, edit, ciJob, kept, unmasked, mingled>>
    BY <1>3 DEF Prepare
  <2>2. Outranked' /\ fetch' = [next |-> fetch'.next, merged |-> fetch'.merged]
    BY <2>1 DEF SecretsInv, Outranked, AlreadyRead
  <2> QED BY <2>1, <2>2 DEF SecretsInv, Entries, StillRead, MaskStays, MatchesJob
<1> QED BY <1>1, <1>2, <1>3

LEMMA SecretsStepStays == SecretsInv /\ [SecretsNext]_secretVars => SecretsInv'
<1> SUFFICES ASSUME SecretsInv, [SecretsNext]_secretVars PROVE SecretsInv'
  OBVIOUS
<1>1. ASSUME NEW c \in SecretClients, NEW r \in Creates,
             CreateServer(c, r) \/ CreateGroup(c, r) \/ CreateRepository(c, r)
      PROVE  SecretsInv'
  BY <1>1, CreateStep DEF CreateServer, CreateGroup, CreateRepository, Levels
<1>2. ASSUME NEW c \in SecretClients, NEW i \in SecretIds, NEW r \in Edits,
             OpenServer(c, i, r) \/ OpenGroup(c, i, r) \/ OpenRepository(c, i, r)
      PROVE  SecretsInv'
  BY <1>2, OpenStep DEF OpenServer, OpenGroup, OpenRepository
<1>3. ASSUME NEW c \in SecretClients, NEW i \in SecretIds,
             DeleteServer(c, i) \/ DeleteGroup(c, i) \/ DeleteRepository(c, i)
      PROVE  SecretsInv'
  BY <1>3, DeleteStep DEF DeleteServer, DeleteGroup, DeleteRepository
<1>4. CASE UNCHANGED secretVars
  BY <1>4 DEF secretVars, SecretsInv, Entries, Outranked, StillRead, MaskStays, MatchesJob
<1> QED
  BY <1>1, <1>2, <1>3, <1>4, CommitUpdateStep, CommitEnvironmentStep, FetchStep DEF SecretsNext

(* A job is given the closest entry of a name, whatever is created, moved  *)
(* and deleted between the queries of its fetch, and an entry stays masked *)
(* unless two updates of it overlap: for any rows, editors and requests.   *)
THEOREM SecretsAreSound == SecretsSpec => []SecretsSound
<1>1. SecretsInv /\ [SecretsNext]_secretVars => SecretsInv'
  BY SecretsStepStays
<1>2. SecretsInv => SecretsSound
  <2>1. ASSUME SecretsInv, fetch.next = "sent", NEW i \in kept
        PROVE  /\ fetch.merged # NoEntry
               /\ LevelRank[fetch.merged.level] >= LevelRank[entry[i].level]
    <3>1. entry[i].level \in Levels
      BY <2>1 DEF SecretsInv, Entries, SecretRows
    <3> QED BY <2>1, <3>1 DEF SecretsInv, Outranked, AlreadyRead
  <2> QED BY <2>1 DEF SecretsSound, ClosestRowWins, SecretsInv
<1> QED BY <1>1, <1>2, SecretsInitially, PTL DEF SecretsSpec

-----------------------------------------------------------------------------
(* The least of some numbers. *)
LEMMA Least ==
  ASSUME NEW T \in SUBSET Nat, T # {}
  PROVE  \E m \in T : \A n \in T : m <= n
<1>1. PICK m \in T : \A n \in T : <<n, m>> \notin OpToRel(<, Nat)
  BY NatLessThanWellFounded, WFMin
<1>2. \A n \in T : ~(n < m)
  BY <1>1 DEF OpToRel
<1> QED BY <1>2

-----------------------------------------------------------------------------
(***************************************************************************)
(* RegistryNames: a token opens what the password would, and the pages of  *)
(* the catalog hold every image once.                                      *)
(***************************************************************************)
(* Tokens *)
LEMMA Merged ==
  ASSUME NEW asked, NEW a \in ScopeNames(asked)
  PROVE  \E s \in MergeScopes(ScopeNames(asked)) : s[1] = a[1] /\ a[2] \subseteq s[2]
<1> DEFINE N == ScopeNames(asked)
           m == <<a[1], UNION {s[2] : s \in {b \in N : b[1] = a[1]}}>>
<1>1. m \in MergeScopes(N)
  BY DEF MergeScopes
<1>2. m[1] = a[1] /\ a[2] \subseteq m[2]
  OBVIOUS
<1> QED BY <1>1, <1>2

LEMMA MergedPair ==
  ASSUME NEW asked, NEW s \in MergeScopes(asked)
  PROVE  s = <<s[1], s[2]>>
BY DEF MergeScopes

(* What a request path is routed to has a group and a project.             *)
LEMMA RoutedNames ==
  ASSUME NEW path
  PROVE  ParseName(RepoName(Routed(path))) # NoName
<1>1. PICK t : t = Routed(path)
  OBVIOUS
<1>2. PICK o : t.org = <<o>>
  BY <1>1 DEF Routed, Target
<1>3. PICK S : S = {t.provider, o, t.project, t.image}
  OBVIOUS
<1>4. PICK n : n = RepoName(t)
  OBVIOUS
<1>5. Len(n) \in {2, 3, 4}
  <2>1. PICK front \in {<<>>, <<t.provider>>} : front = IF t.provider = Pertisk THEN <<>> ELSE <<t.provider>>
    OBVIOUS
  <2>2. PICK back \in {<<>>, <<t.image>>} : back = IF t.image = t.project THEN <<>> ELSE <<t.image>>
    OBVIOUS
  <2>3. n = ((front \o <<o>>) \o <<t.project>>) \o back
    BY <1>2, <1>4, <2>1, <2>2 DEF RepoName
  <2>4. /\ front \in Seq(S) /\ back \in Seq(S) /\ <<o>> \in Seq(S) /\ <<t.project>> \in Seq(S)
        /\ Len(front) \in {0, 1} /\ Len(back) \in {0, 1} /\ Len(<<o>>) = 1 /\ Len(<<t.project>>) = 1
    <3>1. o \in S /\ t.project \in S /\ t.provider \in S /\ t.image \in S
      BY <1>3
    <3>2. \A x \in S : <<x>> \in Seq(S) /\ Len(<<x>>) = 1
      OBVIOUS
    <3>3. <<>> \in Seq(S) /\ Len(<<>>) = 0
      OBVIOUS
    <3>4. front \in Seq(S) /\ Len(front) \in {0, 1}
      BY <2>1, <3>1, <3>2, <3>3
    <3>5. back \in Seq(S) /\ Len(back) \in {0, 1}
      BY <2>2, <3>1, <3>2, <3>3
    <3> QED BY <3>1, <3>2, <3>4, <3>5
  <2>5. front \o <<o>> \in Seq(S) /\ Len(front \o <<o>>) \in {1, 2}
    BY <2>4, ConcatProperties
  <2>6. (front \o <<o>>) \o <<t.project>> \in Seq(S) /\ Len((front \o <<o>>) \o <<t.project>>) \in {2, 3}
    BY <2>4, <2>5, ConcatProperties
  <2>7. Len(((front \o <<o>>) \o <<t.project>>) \o back) \in {2, 3, 4}
    BY <2>4, <2>6, ConcatProperties
  <2> QED BY <2>3, <2>7
<1>6. ParseName(n) = Target(Pertisk, <<n[1]>>, n[2], n[2]) \/ ParseName(n) = Target(Pertisk, <<n[1]>>, n[2], n[3])
      \/ ParseName(n) = Target(n[1], SubSeq(n, 2, Len(n) - 2), n[Len(n) - 1], n[Len(n)])
  BY <1>5 DEF ParseName
<1>7. \A p, g, q, i : Target(p, g, q, i) # NoName
  <2> SUFFICES ASSUME NEW p, NEW g, NEW q, NEW i, Target(p, g, q, i) = NoName PROVE FALSE
    OBVIOUS
  <2>1. "org" \in DOMAIN Target(p, g, q, i)
    BY DEF Target
  <2>2. DOMAIN NoName = {}
    BY DEF NoName
  <2> QED BY <2>1, <2>2
<1>8. ParseName(n) # NoName
  BY <1>6, <1>7
<1> QED BY <1>1, <1>4, <1>8

LEMMA TokensAgree ==
  ASSUME NEW p \in Principals, NEW asked, NEW a \in ScopeNames(asked), NEW action \in a[2]
  PROVE  TokenAllows(TokenGrants(p, ScopeNames(asked)), a[1], action) <=> BasicAllows(p, a[1], action)
<1> DEFINE M == MergeScopes(ScopeNames(asked))
<1>0. p.ci \in BOOLEAN /\ p.super \in BOOLEAN
  BY PrincipalAssumption
<1>1. PICK s \in M : s[1] = a[1] /\ action \in s[2]
  BY Merged
<1>2. CASE p.ci
  <2>1. TokenGrants(p, ScopeNames(asked)) = CiGranted(p.allowed, p.subpaths, M)
    BY <1>2 DEF TokenGrants
  <2>2. ASSUME BasicAllows(p, a[1], action)
        PROVE  TokenAllows(CiGranted(p.allowed, p.subpaths, M), a[1], action)
    <3>1. CiInScope(p.allowed, s[1], p.subpaths) /\ action \in {"pull", "push"}
      BY <2>2, <1>1, <1>2 DEF BasicAllows
    <3>2. <<s[1], s[2] \cap {"pull", "push"}>> \in CiGranted(p.allowed, p.subpaths, M)
      BY <3>1, <1>1 DEF CiGranted
    <3> QED BY <3>1, <3>2, <1>1 DEF TokenAllows
  <2>3. ASSUME TokenAllows(CiGranted(p.allowed, p.subpaths, M), a[1], action)
        PROVE  BasicAllows(p, a[1], action)
    <3>1. PICK g \in CiGranted(p.allowed, p.subpaths, M) : g[1] = a[1] /\ action \in g[2]
      BY <2>3 DEF TokenAllows
    <3>2. PICK b \in M : CiInScope(p.allowed, b[1], p.subpaths) /\ g = <<b[1], b[2] \cap {"pull", "push"}>>
      BY <3>1 DEF CiGranted
    <3>3. g[1] = b[1] /\ g[2] = b[2] \cap {"pull", "push"}
      BY <3>2
    <3> QED BY <3>1, <3>2, <3>3, <1>2 DEF BasicAllows
  <2> QED BY <2>1, <2>2, <2>3
<1>3. CASE ~p.ci
  <2>1. TokenGrants(p, ScopeNames(asked)) = UserGranted(p, M)
    BY <1>3 DEF TokenGrants
  <2>2. ParseName(a[1]) # NoName
    BY RoutedNames DEF ScopeNames
  <2> DEFINE acts(b) == IF p.super THEN IF b[2] = {} THEN {"pull", "push"} ELSE b[2]
                        ELSE {x \in b[2] : Can(p, ParseName(b[1]), x)}
  <2>3. ASSUME BasicAllows(p, a[1], action)
        PROVE  TokenAllows(UserGranted(p, M), a[1], action)
    <3>1. p.super \/ Can(p, ParseName(s[1]), action)
      BY <2>3, <1>1, <1>3 DEF BasicAllows
    <3>2. action \in acts(s)
      BY <3>1, <1>1
    <3>3. <<s[1], acts(s)>>[2] # {} /\ <<s[1], acts(s)>>[1] = a[1]
      BY <3>2, <1>1
    <3>4. <<s[1], acts(s)>> \in UserGranted(p, M)
      BY <3>3, <2>2, <1>1 DEF UserGranted
    <3> QED BY <3>2, <3>3, <3>4 DEF TokenAllows
  <2>4. ASSUME TokenAllows(UserGranted(p, M), a[1], action)
        PROVE  BasicAllows(p, a[1], action)
    <3>1. PICK g \in UserGranted(p, M) : g[1] = a[1] /\ action \in g[2]
      BY <2>4 DEF TokenAllows
    <3>2. PICK b \in M : g = <<b[1], acts(b)>>
      BY <3>1 DEF UserGranted
    <3>3. g[1] = b[1] /\ g[2] = acts(b)
      BY <3>2
    <3>4. p.super \/ Can(p, ParseName(a[1]), action)
      BY <3>1, <3>3, <1>0
    <3> QED BY <3>4, <1>3, <2>2 DEF BasicAllows
  <2> QED BY <2>1, <2>3, <2>4
<1> QED BY <1>0, <1>2, <1>3

-----------------------------------------------------------------------------
(* The catalog: a page is of entries after the last one, and all of them   *)
(* up to its last where the columns sort as the names.                     *)
Catalog(c) == /\ IsFiniteSet(c.entries) /\ c.entries \subseteq Nat \ {0}
              /\ \A e \in c.entries : c.column[e] \in Nat

Ahead(c, last, e) == {f \in c.entries : f > last /\ c.column[f] < c.column[e]}
UpTo(c, last) == {e \in c.entries : e <= last}
Between(c, last, next) == {e \in c.entries : e > last /\ e <= next}

LEMMA AheadFinite ==
  ASSUME NEW c, Catalog(c), NEW last, NEW e
  PROVE  /\ IsFiniteSet(Ahead(c, last, e)) /\ Cardinality(Ahead(c, last, e)) \in Nat
         /\ Ahead(c, last, e) \subseteq c.entries
<1>1. Ahead(c, last, e) \subseteq c.entries
  BY DEF Ahead
<1> QED BY <1>1, FS_Subset, FS_CardinalityType DEF Catalog

LEMMA PageIs ==
  ASSUME NEW c, NEW last, NEW n
  PROVE  Page(c.entries, c.column, last, n)
           = {e \in c.entries : e > last /\ Cardinality(Ahead(c, last, e)) < PageSize(n)}
<1> DEFINE left == {e \in c.entries : e > last}
<1>1. \A e : Ahead(c, last, e) = {f \in left : c.column[f] < c.column[e]}
  BY DEF Ahead
<1> HIDE DEF left
<1>2. Page(c.entries, c.column, last, n) = {e \in left : Cardinality(Ahead(c, last, e)) < PageSize(n)}
  BY <1>1 DEF Page, left
<1> QED BY <1>2 DEF left

LEMMA AheadGrows ==
  ASSUME NEW c, Catalog(c), NEW last, NEW e \in c.entries, NEW f \in c.entries, e > last,
         c.column[e] < c.column[f]
  PROVE  Cardinality(Ahead(c, last, e)) < Cardinality(Ahead(c, last, f))
<1>1. Ahead(c, last, e) \subseteq Ahead(c, last, f)
  <2> SUFFICES ASSUME NEW x \in Ahead(c, last, e) PROVE x \in Ahead(c, last, f)
    OBVIOUS
  <2>1. x \in c.entries /\ x > last /\ c.column[x] < c.column[e]
    BY DEF Ahead
  <2>2. c.column[x] \in Nat /\ c.column[e] \in Nat /\ c.column[f] \in Nat
    BY <2>1 DEF Catalog
  <2>3. c.column[x] < c.column[f]
    BY <2>1, <2>2
  <2> QED BY <2>1, <2>3 DEF Ahead
<1>2. e \in Ahead(c, last, f)
  BY DEF Ahead
<1>3. e \notin Ahead(c, last, e)
  <2>1. c.column[e] \in Nat
    BY DEF Catalog
  <2>2. ~(c.column[e] < c.column[e])
    BY <2>1
  <2> QED BY <2>2 DEF Ahead
<1>4. IsFiniteSet(Ahead(c, last, f))
  BY AheadFinite
<1>5. Cardinality(Ahead(c, last, e)) <= Cardinality(Ahead(c, last, f))
      /\ Cardinality(Ahead(c, last, e)) # Cardinality(Ahead(c, last, f))
  BY <1>1, <1>2, <1>3, <1>4, FS_Subset
<1>6. Cardinality(Ahead(c, last, e)) \in Nat /\ Cardinality(Ahead(c, last, f)) \in Nat
  BY AheadFinite
<1> QED BY <1>5, <1>6

LEMMA NextLastIs ==
  ASSUME NEW c, Catalog(c), NEW last \in Nat, NEW n \in Nat,
         NEW shown, shown = Page(c.entries, c.column, last, n), shown # {}
  PROVE  /\ NextLast(c.entries, c.column, last, n) \in shown
         /\ \A f \in shown : c.column[f] <= c.column[NextLast(c.entries, c.column, last, n)]
<1> DEFINE size == PageSize(n)
           gap(e) == size - Cardinality(Ahead(c, last, e))
           T == {m \in Nat : \E e \in shown : m = gap(e)}
<1>1. size \in Nat
  BY DEF PageSize
<1>2. \A e \in shown : /\ e \in c.entries /\ e > last /\ Cardinality(Ahead(c, last, e)) < size
                      /\ Cardinality(Ahead(c, last, e)) \in Nat
  BY PageIs, AheadFinite
<1> HIDE DEF size
<1>3. \A e \in shown : gap(e) \in T
  BY <1>1, <1>2
<1>4. T # {} /\ T \in SUBSET Nat
  BY <1>3
<1> HIDE DEF T
<1>5. PICK m \in T : \A x \in T : m <= x
  BY <1>4, Least
<1>6. PICK e \in shown : m = gap(e)
  BY <1>5 DEF T
<1>7. \A f \in shown : c.column[f] <= c.column[e]
  <2> SUFFICES ASSUME NEW f \in shown, ~(c.column[f] <= c.column[e]) PROVE FALSE
    OBVIOUS
  <2>1. c.column[f] \in Nat /\ c.column[e] \in Nat
    BY <1>2 DEF Catalog
  <2>2. c.column[e] < c.column[f]
    BY <2>1
  <2>3. Cardinality(Ahead(c, last, e)) < Cardinality(Ahead(c, last, f))
    BY <2>2, <1>2, AheadGrows
  <2>4. gap(e) <= gap(f)
    BY <1>3, <1>5, <1>6
  <2> QED BY <2>3, <2>4, <1>1, <1>2
<1>8. \E x \in shown : \A f \in shown : c.column[f] <= c.column[x]
  BY <1>7
<1>9. NextLast(c.entries, c.column, last, n) = CHOOSE x \in shown : \A f \in shown : c.column[f] <= c.column[x]
  BY DEF NextLast
<1> QED BY <1>8, <1>9

LEMMA PageTakesAll ==
  ASSUME NEW c, Catalog(c), ColumnsSortAsNames(c), NEW last \in Nat, NEW n \in Nat,
         NEW shown, shown = Page(c.entries, c.column, last, n), shown # {},
         NEW next, next = NextLast(c.entries, c.column, last, n)
  PROVE  next > last /\ shown = Between(c, last, next)
<1>2. next \in shown /\ \A f \in shown : c.column[f] <= c.column[next]
  BY NextLastIs
<1>3. \A e \in shown : e \in c.entries /\ e > last /\ Cardinality(Ahead(c, last, e)) < PageSize(n)
  BY PageIs
<1>4. next \in Nat /\ next > last
  BY <1>2, <1>3 DEF Catalog
<1>5. ASSUME NEW e \in shown PROVE e <= next
  <2>1. e \in Nat /\ next \in Nat /\ c.column[e] \in Nat /\ c.column[next] \in Nat
    BY <1>2, <1>3 DEF Catalog
  <2>2. next < e => c.column[next] < c.column[e]
    BY <1>2, <1>3 DEF ColumnsSortAsNames
  <2> QED BY <2>1, <2>2, <1>2
<1>6. ASSUME NEW e \in c.entries, e > last, e <= next PROVE e \in shown
  <2>1. CASE e = next
    BY <2>1, <1>2
  <2>2. CASE e # next
    <3>1. e \in Nat /\ next \in Nat /\ next \in c.entries
      BY <1>2, <1>3 DEF Catalog
    <3>2. c.column[e] < c.column[next]
      BY <3>1, <1>6, <2>2 DEF ColumnsSortAsNames
    <3>3. Cardinality(Ahead(c, last, e)) < Cardinality(Ahead(c, last, next))
      BY <3>1, <3>2, <1>6, AheadGrows
    <3>4. Cardinality(Ahead(c, last, e)) < PageSize(n)
      <4>1. Cardinality(Ahead(c, last, e)) \in Nat /\ Cardinality(Ahead(c, last, next)) \in Nat /\ PageSize(n) \in Nat
        BY AheadFinite DEF PageSize
      <4> QED BY <4>1, <3>3, <1>2, <1>3
    <3> QED BY <3>4, <1>6, PageIs
  <2> QED BY <2>1, <2>2
<1>7. shown = Between(c, last, next)
  BY <1>3, <1>5, <1>6 DEF Between
<1> QED BY <1>4, <1>7

-----------------------------------------------------------------------------
(* What has been listed are the entries up to the last one.                *)
TokenFits == token # NoToken =>
  \E p \in Principals, asked \in Asked :
    token = [holder |-> p, asked |-> asked, grants |-> TokenGrants(p, ScopeNames(asked))]
Walked(w) ==
  /\ w.catalog \in Catalogs /\ w.n \in Nat /\ w.last \in Nat /\ w.listed \in Seq(SUBSET w.catalog.entries)
  /\ ColumnsSortAsNames(w.catalog) =>
       /\ UNION {w.listed[i] : i \in DOMAIN w.listed} = UpTo(w.catalog, w.last)
       /\ \A i, j \in DOMAIN w.listed : i # j => w.listed[i] \cap w.listed[j] = {}
       /\ ~w.more => \A e \in w.catalog.entries : e <= w.last
NamesInv == TokenFits /\ (walk = NoWalk \/ Walked(walk))

LEMMA ListPageWalks ==
  ASSUME NEW c \in Catalogs, NEW n \in Nat, NEW last \in Nat, ListPage(c, n, last),
         walk.listed \in Seq(SUBSET c.entries),
         ColumnsSortAsNames(c) =>
           /\ UNION {walk.listed[i] : i \in DOMAIN walk.listed} = UpTo(c, last)
           /\ \A i, j \in DOMAIN walk.listed : i # j => walk.listed[i] \cap walk.listed[j] = {}
  PROVE  Walked(walk)'
<1>1. PICK shown : shown = Page(c.entries, c.column, last, n)
  OBVIOUS
<1>2. PICK next : next = IF shown = {} THEN last ELSE NextLast(c.entries, c.column, last, n)
  OBVIOUS
<1>3. PICK old \in Seq(SUBSET c.entries) : old = walk.listed
  OBVIOUS
<1>4. PICK new : new = Append(old, shown)
  OBVIOUS
<1>5. walk' = [catalog |-> c, n |-> n, listed |-> new, last |-> next,
               more |-> HasMore(c.entries, c.column, last, n)]
  BY <1>1, <1>2, <1>3, <1>4 DEF ListPage
<1>6. Catalog(c)
  BY CatalogAssumption DEF Catalog
<1>7. shown \subseteq c.entries
  <2>1. shown = {e \in c.entries : e > last /\ Cardinality(Ahead(c, last, e)) < PageSize(n)}
    BY <1>1, PageIs
  <2>2. \A S, T : S = {e \in T : e > last /\ Cardinality(Ahead(c, last, e)) < PageSize(n)} => S \subseteq T
    OBVIOUS
  <2> QED BY <2>1, <2>2
<1>8. next \in Nat
  <2>1. CASE shown = {}
    BY <2>1, <1>2
  <2>2. CASE shown # {}
    <3>1. next \in shown
      BY <2>2, <1>1, <1>2, <1>6, NextLastIs
    <3> QED BY <3>1, <1>7, <1>6 DEF Catalog
  <2> QED BY <2>1, <2>2
<1>9. /\ new \in Seq(SUBSET c.entries) /\ DOMAIN old = 1..Len(old) /\ DOMAIN new = 1..Len(old) + 1 /\ Len(old) \in Nat
      /\ new[Len(old) + 1] = shown /\ \A i \in DOMAIN old : new[i] = old[i]
  BY <1>4, <1>7
<1>10. ASSUME ColumnsSortAsNames(c)
       PROVE  /\ UNION {new[i] : i \in DOMAIN new} = UpTo(c, next)
              /\ \A i, j \in DOMAIN new : i # j => new[i] \cap new[j] = {}
              /\ ~HasMore(c.entries, c.column, last, n) => \A e \in c.entries : e <= next
  <2>1. next >= last /\ shown = Between(c, last, next)
    <3>1. CASE shown = {}
      <4>1. \A e \in c.entries : ~(e > last /\ e <= last)
        BY <1>6 DEF Catalog
      <4>2. next = last
        BY <3>1, <1>2
      <4> QED BY <3>1, <4>1, <4>2 DEF Between
    <3>2. CASE shown # {}
      <4>1. next = NextLast(c.entries, c.column, last, n)
        BY <3>2, <1>2
      <4>2. next > last /\ shown = Between(c, last, next)
        BY <3>2, <4>1, <1>1, <1>6, <1>10, PageTakesAll
      <4> QED BY <4>2, <1>8
    <3> QED BY <3>1, <3>2
  <2>2. /\ UNION {old[i] : i \in DOMAIN old} = UpTo(c, last)
        /\ \A i, j \in DOMAIN old : i # j => old[i] \cap old[j] = {}
    BY <1>3, <1>10
  <2>3. UNION {new[i] : i \in DOMAIN new} = (UNION {old[i] : i \in DOMAIN old}) \cup shown
    <3>1. DOMAIN new = DOMAIN old \cup {Len(old) + 1}
      BY <1>9
    <3>2. ASSUME NEW x PROVE x \in UNION {new[i] : i \in DOMAIN new}
                               <=> x \in UNION {old[i] : i \in DOMAIN old} \/ x \in shown
      <4>1. x \in UNION {new[i] : i \in DOMAIN new} <=> \E i \in DOMAIN new : x \in new[i]
        OBVIOUS
      <4>2. x \in UNION {old[i] : i \in DOMAIN old} <=> \E i \in DOMAIN old : x \in old[i]
        OBVIOUS
      <4>3. (\E i \in DOMAIN new : x \in new[i]) <=> (\E i \in DOMAIN old : x \in old[i]) \/ x \in shown
        <5>1. ASSUME NEW i \in DOMAIN new, x \in new[i] PROVE (\E k \in DOMAIN old : x \in old[k]) \/ x \in shown
          <6>1. CASE i \in DOMAIN old
            BY <6>1, <5>1, <1>9
          <6>2. CASE i = Len(old) + 1
            BY <6>2, <5>1, <1>9
          <6> QED BY <6>1, <6>2, <3>1
        <5>2. ASSUME NEW i \in DOMAIN old, x \in old[i] PROVE \E k \in DOMAIN new : x \in new[k]
          BY <5>2, <3>1, <1>9
        <5>3. x \in shown => \E k \in DOMAIN new : x \in new[k]
          BY <3>1, <1>9
        <5> QED BY <5>1, <5>2, <5>3
      <4> QED BY <4>1, <4>2, <4>3
    <3> QED BY <3>2
  <2>4. \A e \in c.entries : e \in Nat
    BY <1>6 DEF Catalog
  <2>5. UNION {new[i] : i \in DOMAIN new} = UpTo(c, next)
    <3>1. \A e \in c.entries : e <= next <=> e <= last \/ (e > last /\ e <= next)
      BY <2>1, <2>4, <1>8
    <3>2. UpTo(c, next) = UpTo(c, last) \cup Between(c, last, next)
      BY <3>1 DEF UpTo, Between
    <3>3. UNION {new[i] : i \in DOMAIN new} = UpTo(c, last) \cup shown
      BY <2>2, <2>3
    <3>4. shown = Between(c, last, next)
      BY <2>1
    <3> QED BY <3>2, <3>3, <3>4
  <2>6. \A i \in DOMAIN old : old[i] \cap shown = {}
    <3>1. \A i \in DOMAIN old : old[i] \subseteq UpTo(c, last)
      BY <2>2
    <3>2. \A e \in c.entries : ~(e <= last /\ e > last)
      BY <2>4
    <3>3. UpTo(c, last) \cap Between(c, last, next) = {}
      BY <3>2 DEF UpTo, Between
    <3> QED BY <3>1, <3>3, <2>1
  <2>7. ASSUME NEW i \in DOMAIN new, NEW j \in DOMAIN new, i # j PROVE new[i] \cap new[j] = {}
    <3>1. (i \in DOMAIN old \/ i = Len(old) + 1) /\ (j \in DOMAIN old \/ j = Len(old) + 1)
      BY <1>9
    <3>2. CASE i \in DOMAIN old /\ j \in DOMAIN old
      BY <3>2, <2>2, <2>7, <1>9
    <3>3. CASE i \in DOMAIN old /\ j = Len(old) + 1
      BY <3>3, <2>6, <1>9
    <3>4. CASE i = Len(old) + 1 /\ j \in DOMAIN old
      BY <3>4, <2>6, <1>9
    <3> QED BY <3>1, <3>2, <3>3, <3>4, <2>7
  <2>8. ASSUME ~HasMore(c.entries, c.column, last, n), NEW e \in c.entries PROVE e <= next
    <3>1. shown = {f \in c.entries : f > last}
      BY <2>8, <1>1 DEF HasMore
    <3>2. e > last => e <= next
      BY <3>1, <2>1 DEF Between
    <3> QED BY <3>2, <2>1, <2>4, <1>8
  <2> QED BY <2>5, <2>7, <2>8
<1> QED BY <1>5, <1>8, <1>9, <1>10 DEF Walked

LEMMA NamesStepStays == NamesInv /\ [NamesNext]_namesVars => NamesInv'
<1> SUFFICES ASSUME NamesInv, [NamesNext]_namesVars PROVE NamesInv'
  OBVIOUS
<1>1. ASSUME NEW p \in Principals, NEW asked \in Asked, GetToken(p, asked) PROVE NamesInv'
  <2>1. TokenFits'
    BY <1>1 DEF GetToken, TokenFits
  <2>2. walk' = walk
    BY <1>1 DEF GetToken
  <2>3. (walk = NoWalk \/ Walked(walk))'
    BY <2>2 DEF NamesInv, Walked, NoWalk
  <2> QED BY <2>1, <2>3 DEF NamesInv
<1>2. ASSUME NEW c \in Catalogs, NEW n \in 0..2, OpenCatalog(c, n) PROVE NamesInv'
  <2>1. walk.listed = <<>> /\ ListPage(c, n, 0) /\ UNCHANGED token
    BY <1>2 DEF OpenCatalog, NoWalk
  <2>2. walk.listed \in Seq(SUBSET c.entries) /\ DOMAIN walk.listed = {}
    BY <2>1
  <2>3. UNION {walk.listed[i] : i \in DOMAIN walk.listed} = UpTo(c, 0)
    <3>1. \A e \in c.entries : ~(e <= 0)
      BY CatalogAssumption
    <3> QED BY <2>2, <3>1 DEF UpTo
  <2>4. Walked(walk)'
    BY <2>1, <2>2, <2>3, ListPageWalks
  <2> QED BY <2>1, <2>4 DEF NamesInv, TokenFits, NoToken
<1>3. ASSUME FollowLink PROVE NamesInv'
  <2>1. walk.more /\ ListPage(walk.catalog, walk.n, walk.last) /\ UNCHANGED token
    BY <1>3 DEF FollowLink
  <2>2. Walked(walk)
    BY <2>1 DEF NamesInv, NoWalk
  <2>3. Walked(walk)'
    BY <2>1, <2>2, ListPageWalks DEF Walked
  <2> QED BY <2>1, <2>3 DEF NamesInv, TokenFits, NoToken
<1>4. CASE UNCHANGED namesVars
    <2>1. token' = token /\ walk' = walk
    BY <1>4 DEF namesVars
  <2>2. TokenFits'
    BY <2>1 DEF TokenFits, NamesInv
  <2>3. (walk = NoWalk \/ Walked(walk))'
    BY <2>1 DEF NamesInv, Walked, NoWalk
  <2> QED BY <2>2, <2>3 DEF NamesInv
<1> QED BY <1>1, <1>2, <1>3, <1>4 DEF NamesNext

(* Tokens and passwords open the same, and the pages of the catalog hold   *)
(* every image once (get_token, authorize_registry, list_catalog).         *)
THEOREM NamesAreSound == NamesSpec => []NamesSound
<1>1. NamesInit => NamesInv
  BY DEF NamesInit, NamesInv, TokenFits
<1>2. NamesInv /\ [NamesNext]_namesVars => NamesInv'
  BY NamesStepStays
<1>3. NamesInv => NamesSound
  <2> SUFFICES ASSUME NamesInv PROVE NamesSound
    OBVIOUS
  <2>1. TokenAgreesWithBasic
    <3> SUFFICES ASSUME token # NoToken, NEW a \in ScopeNames(token.asked), NEW action \in a[2]
                 PROVE  TokenAllows(token.grants, a[1], action) <=> BasicAllows(token.holder, a[1], action)
      BY DEF TokenAgreesWithBasic
    <3>1. PICK p \in Principals, asked \in Asked :
            token = [holder |-> p, asked |-> asked, grants |-> TokenGrants(p, ScopeNames(asked))]
      BY DEF NamesInv, TokenFits
    <3>2. token.holder = p /\ token.asked = asked /\ token.grants = TokenGrants(p, ScopeNames(asked))
      BY <3>1
    <3> QED BY <3>2, TokensAgree
  <2>2. CatalogComplete
    <3> SUFFICES ASSUME Walked(walk), ColumnsSortAsNames(walk.catalog)
                 PROVE  /\ \A i, j \in DOMAIN walk.listed : i # j => walk.listed[i] \cap walk.listed[j] = {}
                        /\ ~walk.more => UNION {walk.listed[i] : i \in DOMAIN walk.listed} = walk.catalog.entries
      BY DEF CatalogComplete, NamesInv
    <3>1. ~walk.more => UpTo(walk.catalog, walk.last) = walk.catalog.entries
      BY DEF Walked, UpTo
    <3> QED BY <3>1 DEF Walked
  <2> QED BY <2>1, <2>2 DEF NamesSound
<1> QED BY <1>1, <1>2, <1>3, PTL DEF NamesSpec

-----------------------------------------------------------------------------
(***************************************************************************)
(* Scheduler: the order, the demotions and the rows of a schedule.         *)
(***************************************************************************)
(* The order under way: no job twice, each behind what it needs; the queue *)
(* holds the jobs whose needs are all in it.                               *)
Unsorted == {"count", "unknown"}
Ordering ==
  /\ \A j \in JobNames : needs[j] \subseteq JobNames
  /\ \A p, q \in 1..Len(ordered) : ordered[p] = ordered[q] => p = q
  /\ \A p \in 1..Len(ordered) : \A d \in needs[ordered[p]] : \E q \in 1..Len(ordered) : q < p /\ ordered[q] = d
  /\ Len(ordered) = Cardinality(InOrder)
  /\ \A j \in JobNames : indegree[j] = Cardinality(needs[j] \ InOrder)
  /\ queue = {j \in JobNames \ InOrder : needs[j] \subseteq InOrder}
Undemoted == mode = want /\ upstream = {} /\ cursor = 1 /\ changed = FALSE
(* A pass that has changed nothing so far leaves nobody held back behind it.*)
PassFits == ~changed => \A i \in 1..Len(ordered) : i < cursor => ~HeldBack(ordered[i])
SchedulerInv ==
  /\ SchedulerTypeOK
  /\ phase \in Unsorted => ordered = <<>>
  /\ phase \notin Unsorted => Ordering
  /\ phase \in Unsorted \cup {"sort", "cycle"} => Undemoted
  /\ phase = "cycle" => Cyclic
  /\ phase \in {"demote", "expand", "done"} => InOrder = JobNames
  /\ DemotedBehindAGap
  /\ phase = "demote" => PassFits
  /\ phase \in {"expand", "done"} => \A j \in JobNames : ~HeldBack(j)

LEMMA Config ==
  ASSUME SchedulerTypeOK
  PROVE  /\ DOMAIN needs = JobNames /\ \A j \in JobNames : IsFiniteSet(needs[j])
         /\ want \in [JobNames -> {"Queued", "Manual", "Skipped"}]
BY SchedulerAssumption DEF SchedulerTypeOK

LEMMA OrderKept ==
  ASSUME Ordering, needs' = needs, ordered' = ordered, indegree' = indegree, queue' = queue
  PROVE  Ordering' /\ InOrder' = InOrder
<1>1. InOrder' = InOrder
  BY DEF InOrder
<1>2. queue' = {j \in JobNames \ InOrder' : needs'[j] \subseteq InOrder'}
  BY <1>1 DEF Ordering
<1>3. /\ \A j \in JobNames : needs'[j] \subseteq JobNames
      /\ \A p, q \in 1..Len(ordered') : ordered'[p] = ordered'[q] => p = q
      /\ \A p \in 1..Len(ordered') : \A d \in needs'[ordered'[p]] :
           \E q \in 1..Len(ordered') : q < p /\ ordered'[q] = d
  BY DEF Ordering
<1>4. /\ Len(ordered') = Cardinality(InOrder')
      /\ \A j \in JobNames : indegree'[j] = Cardinality(needs'[j] \ InOrder')
  BY <1>1 DEF Ordering
<1> QED BY <1>1, <1>2, <1>3, <1>4 DEF Ordering

LEMMA FirstIs ==
  ASSUME NEW S \in SUBSET JobNames, S # {}
  PROVE  First(S) \in S
<1>0. \A j \in JobNames : Position[j] \in Nat
  BY SchedulerAssumption
<1>1. ASSUME NEW R \in SUBSET JobNames, R # {}
      PROVE  \E j \in R : \A i \in R \ {j} : Position[j] < Position[i]
  <2>1. PICK T \in SUBSET Nat : T = {Position[j] : j \in R}
    BY <1>0
  <2>2. T # {}
    BY <2>1, <1>1
  <2>3. PICK m \in T : \A n \in T : m <= n
    BY <2>2, Least
  <2>4. PICK j \in R : Position[j] = m
    BY <2>1, <2>3
  <2>5. \A i \in R \ {j} : Position[i] \in T /\ Position[i] # Position[j]
    BY <2>1, SchedulerAssumption
  <2> QED BY <2>3, <2>4, <2>5, <1>0
<1>2. \E j \in S : \A i \in S \ {j} : Before(j, i)
  <2>1. CASE S \subseteq clicked
    <3>1. PICK j \in S : \A i \in S \ {j} : Position[j] < Position[i]
      BY <1>1
    <3> QED BY <3>1, <2>1 DEF Before
  <2>2. CASE ~(S \subseteq clicked)
    <3>1. S \ clicked # {} /\ S \ clicked \in SUBSET JobNames
      BY <2>2
    <3>2. PICK j \in S \ clicked : \A i \in (S \ clicked) \ {j} : Position[j] < Position[i]
      BY <1>1, <3>1
    <3> QED BY <3>2 DEF Before
  <2> QED BY <2>1, <2>2
<1> QED BY <1>2 DEF First

LEMMA Initially == SchedulerInit => SchedulerInv
<1> SUFFICES ASSUME SchedulerInit PROVE SchedulerInv
  OBVIOUS
<1>1. want \in [JobNames -> {"Queued", "Manual", "Skipped"}] /\ Len(ordered) = 0
  BY SchedulerAssumption DEF SchedulerInit
<1>2. SchedulerTypeOK
  <2>1. /\ needs \in NeedChoices /\ want \in WantChoices /\ clicked \in Clicks
        /\ indegree \in [JobNames -> Nat] /\ queue = {} /\ ordered = <<>> /\ mode = want /\ upstream = {}
        /\ cursor = 1 /\ changed = FALSE /\ phase = "count"
    BY DEF SchedulerInit
  <2>2. ordered \in Seq(JobNames) /\ cursor \in 1..Len(ordered) + 1
    BY <2>1
  <2> QED BY <2>1, <2>2, <1>1 DEF SchedulerTypeOK, SchedulerPhases
<1>3. DemotedBehindAGap
  BY DEF SchedulerInit, DemotedBehindAGap
<1> QED BY <1>2, <1>3 DEF SchedulerInit, SchedulerInv, Unsorted, Undemoted

LEMMA CountStays == SchedulerInv /\ CountNeeds => SchedulerInv'
<1> SUFFICES ASSUME SchedulerInv, CountNeeds PROVE SchedulerInv'
  OBVIOUS
<1>0. /\ phase = "count" /\ ordered = <<>> /\ Undemoted /\ DemotedBehindAGap /\ SchedulerTypeOK
      /\ config' = config /\ ordered' = ordered /\ mode' = mode /\ upstream' = upstream
      /\ cursor' = cursor /\ changed' = changed
  BY DEF SchedulerInv, CountNeeds, Unsorted
<1>1. needs' = needs /\ want' = want /\ clicked' = clicked
  BY <1>0 DEF config
<1>2. Undemoted' /\ DemotedBehindAGap'
  BY <1>0, <1>1 DEF Undemoted, DemotedBehindAGap
<1>3. CASE UnknownNeed
  <2>1. phase' = "unknown" /\ indegree' = indegree /\ queue' = queue
    BY <1>3 DEF CountNeeds
  <2>2. SchedulerTypeOK'
    BY <2>1, <1>0, <1>1 DEF SchedulerTypeOK, SchedulerPhases
  <2> QED BY <2>1, <2>2, <1>0, <1>2 DEF SchedulerInv, Unsorted
<1>4. CASE ~UnknownNeed
  <2>1. /\ phase' = "sort" /\ indegree' = [j \in JobNames |-> Cardinality(needs[j])]
        /\ queue' = {j \in JobNames : needs[j] = {}}
    BY <1>4 DEF CountNeeds
  <2>2. \A j \in JobNames : Cardinality(needs[j]) \in Nat
    BY <1>0, Config, FS_CardinalityType
  <2>3. SchedulerTypeOK'
    BY <2>1, <2>2, <1>0, <1>1 DEF SchedulerTypeOK, SchedulerPhases
  <2>4. Len(ordered') = 0 /\ InOrder' = {}
    BY <1>0 DEF InOrder
  <2>5. Cardinality({}) = 0
    BY FS_EmptySet
  <2>6. \A j \in JobNames : indegree'[j] = Cardinality(needs'[j] \ InOrder')
    <3>1. \A j \in JobNames : needs'[j] \ InOrder' = needs[j]
      BY <2>4, <1>1
    <3> QED BY <3>1, <2>1
  <2>7. queue' = {j \in JobNames \ InOrder' : needs'[j] \subseteq InOrder'}
    BY <2>1, <2>4, <1>1
  <2>8. \A j \in JobNames : needs'[j] \subseteq JobNames
    BY <1>4, <1>1 DEF UnknownNeed
  <2>9. Ordering'
    BY <2>4, <2>5, <2>6, <2>7, <2>8 DEF Ordering
  <2> QED BY <2>1, <2>3, <2>9, <1>2 DEF SchedulerInv, Unsorted
<1> QED BY <1>3, <1>4

LEMMA TakeStays == SchedulerInv /\ TakeJob => SchedulerInv'
<1> SUFFICES ASSUME SchedulerInv, TakeJob PROVE SchedulerInv'
  OBVIOUS
<1>0. /\ phase = "sort" /\ queue # {} /\ Undemoted /\ DemotedBehindAGap /\ SchedulerTypeOK /\ Ordering
      /\ config' = config /\ mode' = mode /\ upstream' = upstream
      /\ cursor' = cursor /\ changed' = changed
  BY DEF SchedulerInv, TakeJob, Unsorted
<1>1. needs' = needs /\ want' = want /\ clicked' = clicked
  BY <1>0 DEF config
<1>2. Undemoted' /\ DemotedBehindAGap'
  BY <1>0, <1>1 DEF Undemoted, DemotedBehindAGap
<1>3. PICK j \in queue : j = First(queue)
  BY <1>0, FirstIs DEF SchedulerTypeOK
<1>4. j \in JobNames /\ j \notin InOrder /\ needs[j] \subseteq InOrder
  BY <1>0 DEF Ordering
<1>5. /\ phase' = phase /\ ordered' = Append(ordered, j)
      /\ indegree' = [c \in JobNames |-> IF j \in needs[c] THEN indegree[c] - 1 ELSE indegree[c]]
      /\ queue' = (queue \ {j}) \cup {c \in JobNames : j \in needs[c] /\ indegree'[c] = 0}
  BY <1>3, <1>4 DEF TakeJob
<1>6. PICK n \in Nat : n = Len(ordered)
  BY <1>0 DEF SchedulerTypeOK
<1>7. /\ ordered' \in Seq(JobNames) /\ Len(ordered') = n + 1 /\ ordered'[n + 1] = j
      /\ \A p \in 1..n : ordered'[p] = ordered[p] /\ ordered[p] \in JobNames
  BY <1>0, <1>4, <1>5, <1>6 DEF SchedulerTypeOK
<1>8. InOrder = {ordered[p] : p \in 1..n}
  BY <1>6 DEF InOrder
<1>9. InOrder' = InOrder \cup {j}
  <2>1. InOrder' = {ordered'[p] : p \in 1..n + 1}
    BY <1>7 DEF InOrder
  <2>2. \A p \in 1..n + 1 : p \in 1..n \/ p = n + 1
    OBVIOUS
  <2>3. \A p \in 1..n : p \in 1..n + 1
    OBVIOUS
  <2>4. ASSUME NEW x PROVE x \in InOrder' <=> x \in InOrder \/ x = j
    <3>1. n + 1 \in 1..n + 1
      OBVIOUS
    <3> QED BY <2>1, <2>2, <2>3, <3>1, <1>7, <1>8
  <2> QED BY <2>4
<1>10. IsFiniteSet(InOrder) /\ Cardinality(InOrder) \in Nat
  <2>1. InOrder \subseteq JobNames
    BY <1>7, <1>8
  <2> QED BY <2>1, SchedulerAssumption, FS_Subset, FS_CardinalityType
<1>11. Len(ordered') = Cardinality(InOrder')
  <2>1. Cardinality(InOrder \cup {j}) = Cardinality(InOrder) + 1
    BY <1>4, <1>10, FS_AddElement
  <2>2. n = Cardinality(InOrder)
    BY <1>0, <1>6 DEF Ordering
  <2> QED BY <2>1, <2>2, <1>7, <1>9
<1>12. \A c \in JobNames : needs[c] \subseteq JobNames /\ IsFiniteSet(needs[c])
                           /\ indegree[c] = Cardinality(needs[c] \ InOrder)
  BY <1>0, Config DEF Ordering
<1>13. \A c \in JobNames : indegree'[c] = Cardinality(needs'[c] \ InOrder')
  <2> SUFFICES ASSUME NEW c \in JobNames PROVE indegree'[c] = Cardinality(needs[c] \ (InOrder \cup {j}))
    BY <1>1, <1>9
  <2>1. CASE j \in needs[c]
    <3>1. j \in needs[c] \ InOrder /\ (needs[c] \ InOrder) \ {j} = needs[c] \ (InOrder \cup {j})
      BY <2>1, <1>4
    <3>2. IsFiniteSet(needs[c] \ InOrder)
      BY <1>12, FS_Subset
    <3>3. Cardinality((needs[c] \ InOrder) \ {j}) = Cardinality(needs[c] \ InOrder) - 1
      BY <3>1, <3>2, FS_RemoveElement
    <3> QED BY <2>1, <3>1, <3>3, <1>5, <1>12
  <2>2. CASE j \notin needs[c]
    <3>1. needs[c] \ InOrder = needs[c] \ (InOrder \cup {j})
      BY <2>2
    <3> QED BY <2>2, <3>1, <1>5, <1>12
  <2> QED BY <2>1, <2>2
<1>14. \A c \in JobNames : /\ indegree'[c] \in Nat
                           /\ indegree'[c] = 0 <=> needs[c] \subseteq InOrder \cup {j}
  <2> SUFFICES ASSUME NEW c \in JobNames
               PROVE  /\ indegree'[c] \in Nat
                      /\ indegree'[c] = 0 <=> needs[c] \subseteq InOrder \cup {j}
    OBVIOUS
  <2>1. indegree'[c] = Cardinality(needs[c] \ (InOrder \cup {j}))
    BY <1>1, <1>9, <1>13
  <2>2. IsFiniteSet(needs[c] \ (InOrder \cup {j}))
    BY <1>12, FS_Subset
  <2>3. indegree'[c] = 0 <=> needs[c] \ (InOrder \cup {j}) = {}
    BY <2>1, <2>2, FS_EmptySet
  <2> QED BY <2>1, <2>2, <2>3, FS_CardinalityType
<1>15. \A p \in 1..n + 1 : \A d \in needs[ordered'[p]] : \E q \in 1..n + 1 : q < p /\ ordered'[q] = d
  <2> SUFFICES ASSUME NEW p \in 1..n + 1, NEW d \in needs[ordered'[p]]
               PROVE  \E q \in 1..n + 1 : q < p /\ ordered'[q] = d
    OBVIOUS
  <2>1. CASE p \in 1..n
    <3>1. PICK q \in 1..n : q < p /\ ordered[q] = d
      BY <2>1, <1>0, <1>6, <1>7 DEF Ordering
    <3> QED BY <3>1, <1>7
  <2>2. CASE p = n + 1
    <3>1. d \in InOrder
      BY <2>2, <1>4, <1>7
    <3>2. PICK q \in 1..n : ordered[q] = d
      BY <3>1, <1>8
    <3> QED BY <3>2, <2>2, <1>7
  <2> QED BY <2>1, <2>2
<1>16. \A p, q \in 1..n + 1 : ordered'[p] = ordered'[q] => p = q
  <2>1. \A p \in 1..n : ordered[p] # j
    BY <1>4, <1>8
  <2>2. \A p, q \in 1..n : ordered[p] = ordered[q] => p = q
    BY <1>0, <1>6 DEF Ordering
  <2>3. \A p \in 1..n + 1 : p \in 1..n \/ p = n + 1
    OBVIOUS
  <2> QED BY <2>1, <2>2, <2>3, <1>7
<1>17. queue' = {c \in JobNames \ InOrder' : needs'[c] \subseteq InOrder'}
  <2>1. \A c : c \in queue <=> c \in JobNames /\ c \notin InOrder /\ needs[c] \subseteq InOrder
    BY <1>0 DEF Ordering
  <2>2. ASSUME NEW c \in JobNames, c \in InOrder, j \in needs[c] PROVE FALSE
    <3>1. PICK p \in 1..n : ordered[p] = c
      BY <2>2, <1>8
    <3>2. PICK q \in 1..n : ordered[q] = j
      BY <3>1, <2>2, <1>0, <1>6 DEF Ordering
    <3> QED BY <3>2, <1>4, <1>8
  <2>3. ASSUME NEW c PROVE c \in queue' <=> c \in JobNames /\ c \notin InOrder \cup {j} /\ needs[c] \subseteq InOrder \cup {j}
    <3>1. c \in queue' <=> (c \in queue /\ c # j) \/ (c \in JobNames /\ j \in needs[c] /\ indegree'[c] = 0)
      BY <1>5
    <3>2. CASE c \in JobNames /\ j \in needs[c]
      <4>1. c # j /\ c \notin InOrder /\ ~(needs[c] \subseteq InOrder)
        BY <3>2, <2>2, <1>4
      <4>2. c \notin queue
        BY <4>1, <2>1
      <4>3. indegree'[c] = 0 <=> needs[c] \subseteq InOrder \cup {j}
        BY <3>2, <1>14
      <4> QED BY <3>1, <3>2, <4>1, <4>2, <4>3
    <3>3. CASE c \in JobNames /\ j \notin needs[c]
      <4>1. needs[c] \subseteq InOrder \cup {j} <=> needs[c] \subseteq InOrder
        BY <3>3
      <4> QED BY <3>1, <3>3, <4>1, <2>1
    <3>4. CASE c \notin JobNames
      BY <3>1, <3>4, <2>1
    <3> QED BY <3>2, <3>3, <3>4
  <2> QED BY <2>3, <1>1, <1>9
<1>18. Ordering'
  <2>1. \A c \in JobNames : needs'[c] \subseteq JobNames
    BY <1>1, <1>12
  <2>2. /\ \A p, q \in 1..Len(ordered') : ordered'[p] = ordered'[q] => p = q
        /\ \A p \in 1..Len(ordered') : \A d \in needs'[ordered'[p]] :
             \E q \in 1..Len(ordered') : q < p /\ ordered'[q] = d
    BY <1>1, <1>7, <1>15, <1>16
  <2> QED BY <2>1, <2>2, <1>11, <1>13, <1>17 DEF Ordering
<1>19. SchedulerTypeOK'
  <2>1. indegree' \in [JobNames -> Nat] /\ queue' \subseteq JobNames
    BY <1>5, <1>14, <1>17
  <2>2. cursor' \in 1..Len(ordered') + 1
    BY <1>0, <1>7 DEF Undemoted
  <2> QED BY <2>1, <2>2, <1>0, <1>1, <1>5, <1>7 DEF SchedulerTypeOK
<1> QED BY <1>0, <1>2, <1>5, <1>18, <1>19 DEF SchedulerInv, Unsorted

LEMMA EndOrderStays == SchedulerInv /\ EndOrder => SchedulerInv'
<1> SUFFICES ASSUME SchedulerInv, EndOrder PROVE SchedulerInv'
  OBVIOUS
<1>0. /\ phase = "sort" /\ queue = {} /\ Undemoted /\ DemotedBehindAGap /\ SchedulerTypeOK /\ Ordering
      /\ needs' = needs /\ want' = want /\ clicked' = clicked /\ mode' = mode /\ upstream' = upstream
      /\ cursor' = cursor /\ changed' = changed /\ indegree' = indegree /\ queue' = queue /\ ordered' = ordered
      /\ phase' = IF Len(ordered) # Cardinality(JobNames) THEN "cycle" ELSE "demote"
  BY DEF SchedulerInv, EndOrder, Unsorted, config
<1>1. InOrder \subseteq JobNames /\ InOrder' = InOrder
  BY <1>0 DEF InOrder, SchedulerTypeOK
<1>2. Undemoted' /\ DemotedBehindAGap' /\ Ordering'
  BY <1>0, <1>1 DEF Undemoted, DemotedBehindAGap, Ordering
<1>3. SchedulerTypeOK'
  BY <1>0 DEF SchedulerTypeOK, SchedulerPhases
<1>4. CASE Len(ordered) # Cardinality(JobNames)
  <2>1. JobNames \ InOrder # {}
    <3>1. InOrder # JobNames
      BY <1>0, <1>4 DEF Ordering
    <3> QED BY <3>1, <1>1
  <2>2. \A j \in JobNames \ InOrder : needs[j] \cap (JobNames \ InOrder) # {}
    BY <1>0 DEF Ordering
  <2>3. Cyclic
    BY <2>1, <2>2 DEF Cyclic
  <2>4. Cyclic'
    BY <2>3, <1>0 DEF Cyclic
  <2> QED BY <1>0, <1>2, <1>3, <1>4, <2>4 DEF SchedulerInv, Unsorted
<1>5. CASE Len(ordered) = Cardinality(JobNames)
  <2>1. InOrder' = JobNames
    BY <1>0, <1>1, <1>5, SchedulerAssumption, FS_Subset DEF Ordering
  <2>2. PassFits'
    BY <1>0 DEF PassFits, Undemoted
  <2> QED BY <1>0, <1>2, <1>3, <1>5, <2>1, <2>2 DEF SchedulerInv, Unsorted
<1> QED BY <1>4, <1>5

LEMMA DemoteStays == SchedulerInv /\ DemoteJob => SchedulerInv'
<1> SUFFICES ASSUME SchedulerInv, DemoteJob PROVE SchedulerInv'
  OBVIOUS
<1>0. /\ phase = "demote" /\ cursor <= Len(ordered) /\ DemotedBehindAGap /\ SchedulerTypeOK /\ Ordering
      /\ InOrder = JobNames /\ PassFits
      /\ needs' = needs /\ want' = want /\ clicked' = clicked
      /\ cursor' = cursor + 1 /\ indegree' = indegree /\ queue' = queue /\ ordered' = ordered /\ phase' = phase
  BY DEF SchedulerInv, DemoteJob, Unsorted, config
<1>1. PICK j \in JobNames : j = ordered[cursor]
  BY <1>0 DEF SchedulerTypeOK
<1>2. InOrder' = JobNames
  BY <1>0, OrderKept
<1>3. Ordering'
  BY <1>0, OrderKept
<1>4. cursor \in Nat /\ cursor' \in 1..Len(ordered') + 1 /\ Len(ordered) \in Nat
  BY <1>0 DEF SchedulerTypeOK
<1>5. CASE HeldBack(j)
  <2>1. mode' = [mode EXCEPT ![j] = "Skipped"] /\ upstream' = upstream \cup {j} /\ changed' = TRUE
    BY <1>1, <1>5 DEF DemoteJob
  <2>2. mode \in [JobNames -> {"Queued", "Manual", "Skipped"}] /\ upstream \subseteq JobNames
    BY <1>0 DEF SchedulerTypeOK
  <2>3. mode' \in [JobNames -> {"Queued", "Manual", "Skipped"}] /\ upstream' \subseteq JobNames
    BY <2>1, <2>2
  <2>4. SchedulerTypeOK'
    BY <2>1, <2>3, <1>0, <1>4 DEF SchedulerTypeOK
  <2>5. mode'[j] = "Skipped" /\ \A i \in JobNames : i # j => mode'[i] = mode[i]
    BY <2>1, <2>2
  <2>6. \A i, d \in JobNames : d \in needs[i] /\ mode[d] # "Queued" => mode'[d] # "Queued"
    BY <2>5
  <2>7. DemotedBehindAGap'
    <3> SUFFICES ASSUME NEW i \in JobNames
                 PROVE  IF i \in upstream' THEN want[i] = "Queued" /\ \E d \in needs[i] : mode'[d] # "Queued"
                                           ELSE mode'[i] = want[i]
      BY <1>0 DEF DemotedBehindAGap
    <3>1. needs[i] \subseteq JobNames
      BY <1>0 DEF Ordering
    <3>2. CASE i \in upstream
      <4>1. want[i] = "Queued" /\ \E d \in needs[i] : mode[d] # "Queued"
        BY <3>2, <1>0 DEF DemotedBehindAGap
      <4> QED BY <3>1, <3>2, <4>1, <2>1, <2>6
    <3>3. CASE i \notin upstream /\ i = j
      <4>1. want[i] = mode[i]
        BY <3>3, <1>0 DEF DemotedBehindAGap
      <4>2. mode[i] = "Queued" /\ \E d \in needs[i] : mode[d] # "Queued"
        BY <3>3, <1>5 DEF HeldBack
      <4> QED BY <3>1, <3>3, <4>1, <4>2, <2>1, <2>6
    <3>4. CASE i \notin upstream /\ i # j
      BY <3>4, <2>1, <2>5, <1>0 DEF DemotedBehindAGap
    <3> QED BY <3>2, <3>3, <3>4
  <2>8. PassFits'
    BY <2>1 DEF PassFits
  <2> QED BY <1>0, <1>2, <1>3, <2>4, <2>7, <2>8 DEF SchedulerInv, Unsorted
<1>6. CASE ~HeldBack(j)
  <2>1. mode' = mode /\ upstream' = upstream /\ changed' = changed
    BY <1>1, <1>6 DEF DemoteJob
  <2>2. SchedulerTypeOK'
    BY <2>1, <1>0, <1>4 DEF SchedulerTypeOK
  <2>3. DemotedBehindAGap'
    BY <2>1, <1>0 DEF DemotedBehindAGap
  <2>4. \A i \in JobNames : HeldBack(i)' <=> HeldBack(i)
    BY <2>1, <1>0 DEF HeldBack
  <2>5. PassFits'
    <3> SUFFICES ASSUME ~changed, NEW i \in 1..Len(ordered), i < cursor + 1
                 PROVE  ~(HeldBack(ordered[i])')
      BY <2>1, <1>0 DEF PassFits, HeldBack
    <3>1. ordered[i] \in JobNames
      BY <1>0 DEF SchedulerTypeOK
    <3>2. i < cursor \/ i = cursor
      BY <1>4
    <3>3. ~HeldBack(ordered[i])
      BY <3>2, <1>0, <1>1, <1>6 DEF PassFits
    <3>4. HeldBack(ordered[i])' <=> HeldBack(ordered[i])
      BY <2>1, <1>0 DEF HeldBack
    <3> QED BY <3>3, <3>4
  <2> QED BY <1>0, <1>2, <1>3, <2>2, <2>3, <2>5 DEF SchedulerInv, Unsorted
<1> QED BY <1>5, <1>6

LEMMA EndPassStays == SchedulerInv /\ EndPass => SchedulerInv'
<1> SUFFICES ASSUME SchedulerInv, EndPass PROVE SchedulerInv'
  OBVIOUS
<1>0. /\ phase = "demote" /\ cursor > Len(ordered) /\ DemotedBehindAGap /\ SchedulerTypeOK /\ Ordering
      /\ InOrder = JobNames /\ PassFits
      /\ needs' = needs /\ want' = want /\ clicked' = clicked
      /\ indegree' = indegree /\ queue' = queue /\ ordered' = ordered /\ mode' = mode /\ upstream' = upstream
  BY DEF SchedulerInv, EndPass, Unsorted, config
<1>1. InOrder' = JobNames
  BY <1>0, OrderKept
<1>2. Ordering' /\ DemotedBehindAGap'
  BY <1>0, OrderKept DEF DemotedBehindAGap
<1>3. CASE changed
  <2>1. cursor' = 1 /\ changed' = FALSE /\ phase' = phase
    BY <1>3 DEF EndPass
  <2>2. Len(ordered) \in Nat
    BY <1>0 DEF SchedulerTypeOK
  <2>3. SchedulerTypeOK'
    <3>1. cursor' \in 1..Len(ordered') + 1
      BY <2>1, <2>2, <1>0
    <3> QED BY <2>1, <3>1, <1>0 DEF SchedulerTypeOK
  <2>4. PassFits'
    BY <2>1, <2>2, <1>0 DEF PassFits
  <2> QED BY <2>1, <2>3, <2>4, <1>0, <1>1, <1>2 DEF SchedulerInv, Unsorted
<1>4. CASE ~changed
  <2>1. phase' = "expand" /\ cursor' = cursor /\ changed' = changed
    BY <1>4 DEF EndPass
  <2>2. SchedulerTypeOK'
    BY <2>1, <1>0 DEF SchedulerTypeOK, SchedulerPhases
  <2>3. ASSUME NEW j \in JobNames PROVE ~(HeldBack(j)')
    <3>1. PICK i \in 1..Len(ordered) : ordered[i] = j
      BY <1>0 DEF InOrder
    <3>2. i < cursor
      BY <1>0 DEF SchedulerTypeOK
    <3>3. ~HeldBack(j)
      BY <3>1, <3>2, <1>0, <1>4 DEF PassFits
    <3> QED BY <3>3, <1>0 DEF HeldBack
  <2> QED BY <2>1, <2>2, <2>3, <1>0, <1>1, <1>2 DEF SchedulerInv, Unsorted, HeldBack
<1> QED BY <1>3, <1>4

LEMMA ExpandStays == SchedulerInv /\ Expand => SchedulerInv'
<1> SUFFICES ASSUME SchedulerInv, Expand PROVE SchedulerInv'
  OBVIOUS
<1>0. /\ phase = "expand" /\ DemotedBehindAGap /\ SchedulerTypeOK /\ Ordering
      /\ InOrder = JobNames /\ phase' = "done"
      /\ needs' = needs /\ want' = want /\ clicked' = clicked /\ cursor' = cursor /\ changed' = changed
      /\ indegree' = indegree /\ queue' = queue /\ ordered' = ordered /\ mode' = mode /\ upstream' = upstream
  BY DEF SchedulerInv, Expand, Unsorted, config
<1>1. InOrder' = InOrder
  BY <1>0, OrderKept
<1>2. Ordering' /\ DemotedBehindAGap'
  BY <1>0, OrderKept DEF DemotedBehindAGap
<1>3. SchedulerTypeOK'
  BY <1>0 DEF SchedulerTypeOK, SchedulerPhases
<1>4. \A j \in JobNames : ~(HeldBack(j)')
  BY <1>0 DEF SchedulerInv, HeldBack
<1> QED BY <1>0, <1>1, <1>2, <1>3, <1>4 DEF SchedulerInv, Unsorted, HeldBack

LEMMA SchedulerStepStays == SchedulerInv /\ [SchedulerNext]_schedulerVars => SchedulerInv'
<1> SUFFICES ASSUME SchedulerInv, [SchedulerNext]_schedulerVars PROVE SchedulerInv'
  OBVIOUS
<1>1. CASE SchedulerNext
  BY <1>1, CountStays, TakeStays, EndOrderStays, DemoteStays, EndPassStays, ExpandStays DEF SchedulerNext
<1>2. CASE UNCHANGED schedulerVars
  <2>1. /\ needs' = needs /\ want' = want /\ clicked' = clicked /\ cursor' = cursor /\ changed' = changed
        /\ indegree' = indegree /\ queue' = queue /\ ordered' = ordered /\ mode' = mode /\ upstream' = upstream
        /\ phase' = phase
    BY <1>2 DEF schedulerVars
  <2>2. InOrder' = InOrder
    BY <2>1 DEF InOrder
  <2>3. SchedulerTypeOK' /\ (phase' \notin Unsorted => Ordering') /\ DemotedBehindAGap'
    <3>1. SchedulerTypeOK' /\ DemotedBehindAGap'
      BY <2>1 DEF SchedulerInv, SchedulerTypeOK, DemotedBehindAGap
    <3>2. phase' \notin Unsorted => Ordering'
      BY <2>1, OrderKept DEF SchedulerInv, Unsorted
    <3> QED BY <3>1, <3>2
  <2>4. (phase' \in Unsorted \cup {"sort", "cycle"} => Undemoted') /\ (phase' = "cycle" => Cyclic')
    BY <2>1 DEF SchedulerInv, Undemoted, Cyclic
  <2>5. /\ phase' = "demote" => PassFits'
        /\ phase' \in {"expand", "done"} => \A j \in JobNames : ~(HeldBack(j)')
    BY <2>1 DEF SchedulerInv, PassFits, HeldBack
  <2> QED BY <2>1, <2>2, <2>3, <2>4, <2>5 DEF SchedulerInv, Unsorted, HeldBack
<1> QED BY <1>1, <1>2

-----------------------------------------------------------------------------
(* What the order is good for. *)
LEMMA OrderedIsAcyclic ==
  ASSUME SchedulerTypeOK, Ordering, InOrder = JobNames
  PROVE  ~Cyclic
<1> SUFFICES ASSUME NEW S \in SUBSET JobNames, S # {}, \A j \in S : needs[j] \cap S # {} PROVE FALSE
  BY DEF Cyclic
<1>1. PICK T : T = {p \in 1..Len(ordered) : ordered[p] \in S}
  OBVIOUS
<1>2. T \in SUBSET Nat /\ T # {}
  BY <1>1 DEF InOrder
<1>3. PICK p \in T : \A q \in T : p <= q
  BY <1>2, Least
<1>4. PICK d \in S : d \in needs[ordered[p]]
  BY <1>1, <1>3
<1>5. PICK q \in 1..Len(ordered) : q < p /\ ordered[q] = d
  BY <1>1, <1>3, <1>4 DEF Ordering
<1>6. q \in T /\ q \in Nat /\ p \in Nat
  BY <1>1, <1>2, <1>3, <1>4, <1>5
<1> QED BY <1>3, <1>5, <1>6

LEMMA PlaceIs ==
  ASSUME SchedulerTypeOK, Ordering, InOrder = JobNames
  PROVE  /\ \A j \in JobNames : Place(j) \in 1..Len(ordered) /\ ordered[Place(j)] = j
         /\ \A j \in JobNames : \A d \in needs[j] : Place(d) < Place(j)
<1>1. ASSUME NEW j \in JobNames PROVE Place(j) \in 1..Len(ordered) /\ ordered[Place(j)] = j
  <2>1. \E p \in 1..Len(ordered) : ordered[p] = j
    BY DEF InOrder
  <2> QED BY <2>1 DEF Place
<1>2. ASSUME NEW j \in JobNames, NEW d \in needs[j] PROVE Place(d) < Place(j)
  <2>1. PICK q \in 1..Len(ordered) : q < Place(j) /\ ordered[q] = d
    BY <1>1 DEF Ordering
  <2>2. d \in JobNames
    BY DEF Ordering
  <2>3. q = Place(d)
    BY <1>1, <2>1, <2>2 DEF Ordering
  <2> QED BY <2>1, <2>3
<1> QED BY <1>1, <1>2

LEMMA RankGrows ==
  ASSUME NEW a \in Nat, NEW b \in Nat, a < b, NEW i \in 1..MaxJobParallel, NEW k \in 1..MaxJobParallel
  PROVE  a * (MaxJobParallel + 1) + i < b * (MaxJobParallel + 1) + k
<1>1. PICK m \in Nat : m = MaxJobParallel + 1
  BY SchedulerAssumption
<1>2. i < m /\ i \in Nat /\ k \in Nat
  BY <1>1, SchedulerAssumption
<1>3. a * m \in Nat /\ b * m \in Nat /\ a * m + m = (a + 1) * m
  OBVIOUS
<1>4. PICK t \in Nat : b = a + 1 + t
  <2>1. b - (a + 1) \in Nat /\ b = a + 1 + (b - (a + 1))
    OBVIOUS
  <2> QED BY <2>1
<1>5. t * m \in Nat /\ b * m = (a + 1) * m + t * m
  BY <1>4
<1>6. a * m + i < b * m + k
  BY <1>2, <1>3, <1>5
<1> QED BY <1>1, <1>6

LEMMA InstanceIs ==
  ASSUME NEW x
  PROVE  x \in Instances <=> \E j \in JobNames : \E i \in 1..Count(j) : x = <<j, i>>
<1>1. \A j \in JobNames : Count(j) \in 1..MaxJobParallel
  BY SchedulerAssumption DEF Count
<1>2. ASSUME x \in Instances PROVE \E j \in JobNames : \E i \in 1..Count(j) : x = <<j, i>>
  <2>1. PICK j \in JobNames : x \in {j} \X (1..Count(j))
    BY <1>2 DEF Instances
  <2> QED BY <2>1
<1>3. ASSUME NEW j \in JobNames, NEW i \in 1..Count(j), x = <<j, i>> PROVE x \in Instances
  <2>1. i \in 1..MaxJobParallel
    BY <1>1, SchedulerAssumption
  <2>2. x \in {<<d, k>> : d \in JobNames, k \in 1..MaxJobParallel}
    BY <1>3, <2>1
  <2>3. x \in {j} \X (1..Count(j))
    BY <1>3
  <2> QED BY <2>2, <2>3 DEF Instances
<1> QED BY <1>2, <1>3

LEMMA InstanceParts ==
  ASSUME NEW x \in Instances
  PROVE  x[1] \in JobNames /\ x[2] \in 1..MaxJobParallel /\ x = <<x[1], x[2]>>
<1>1. PICK j \in JobNames : \E i \in 1..Count(j) : x = <<j, i>>
  BY InstanceIs
<1>2. Count(j) \in 1..MaxJobParallel
  BY SchedulerAssumption DEF Count
<1>3. PICK i \in 1..Count(j) : x = <<j, i>>
  BY <1>1
<1>4. i \in 1..MaxJobParallel
  BY <1>2, SchedulerAssumption
<1> QED BY <1>3, <1>4

LEMMA FeedsRun ==
  ASSUME SchedulerTypeOK, Ordering, InOrder = JobNames, \A j \in JobNames : ~HeldBack(j)
  PROVE  /\ InOrder = JobNames /\ Len(ordered) = Cardinality(JobNames)
         /\ \A x, y \in Instances : y \in NeedsOf(x) => RankOf(y) < RankOf(x)
         /\ \A x, y \in Instances : x # y => RankOf(x) # RankOf(y)
         /\ \A x \in Instances : NeedsOf(x) \subseteq Instances
         /\ \A j \in JobNames : mode[j] = "Queued" => \A d \in needs[j] : mode[d] = "Queued"
<1>1. Len(ordered) = Cardinality(JobNames)
  BY DEF Ordering
<1>2. \A j \in JobNames : mode[j] = "Queued" => \A d \in needs[j] : mode[d] = "Queued"
  BY DEF HeldBack
<1>3. ASSUME NEW x \in Instances, NEW y \in NeedsOf(x)
      PROVE  y \in Instances /\ y[1] \in needs[x[1]]
  <2>1. PICK d \in needs[x[1]] : y \in {d} \X (1..Count(d))
    BY <1>3 DEF NeedsOf
  <2>2. PICK i \in 1..Count(d) : y = <<d, i>>
    BY <2>1
  <2>3. d \in JobNames
    BY InstanceParts DEF Ordering
  <2>4. y \in Instances
    BY <2>2, <2>3, InstanceIs
  <2> QED BY <2>2, <2>4
<1>4. \A x \in Instances : Place(x[1]) \in Nat
  BY InstanceParts, PlaceIs
<1>5. ASSUME NEW x \in Instances, NEW y \in Instances, Place(x[1]) < Place(y[1])
      PROVE  RankOf(x) < RankOf(y)
  BY <1>4, <1>5, InstanceParts, RankGrows DEF RankOf
<1>6. \A x, y \in Instances : y \in NeedsOf(x) => RankOf(y) < RankOf(x)
  BY <1>3, <1>5, InstanceParts, PlaceIs
<1>7. ASSUME NEW x \in Instances, NEW y \in Instances, x # y PROVE RankOf(x) # RankOf(y)
  <2>1. \A z \in Instances : RankOf(z) \in Nat
    BY <1>4, InstanceParts, SchedulerAssumption DEF RankOf
  <2>2. CASE Place(x[1]) = Place(y[1])
    <3>1. x[1] = y[1]
      BY <2>2, InstanceParts, PlaceIs
    <3>2. x[2] # y[2] /\ x[2] \in Nat /\ y[2] \in Nat
      BY <3>1, <1>7, InstanceParts
    <3>3. Place(x[1]) * (MaxJobParallel + 1) \in Nat
      BY <1>4, SchedulerAssumption
    <3> QED BY <3>2, <3>3, <2>2 DEF RankOf
  <2>3. CASE Place(x[1]) # Place(y[1])
    <3>1. Place(x[1]) < Place(y[1]) \/ Place(y[1]) < Place(x[1])
      BY <2>3, <1>4
    <3>2. RankOf(x) < RankOf(y) \/ RankOf(y) < RankOf(x)
      BY <3>1, <1>5
    <3> QED BY <3>2, <2>1
  <2> QED BY <2>2, <2>3
<1> QED BY <1>1, <1>2, <1>3, <1>6, <1>7

(* The outcome of schedule_for_run is what a run relies on, and an error   *)
(* means a cycle (Scheduler::schedule, schedule_for_run,                   *)
(* expand_parallel_jobs).                                                  *)
THEOREM SchedulesAreSound == SchedulerSpec => []ScheduleSound
<1>1. SchedulerInit => SchedulerInv
  BY Initially
<1>2. SchedulerInv /\ [SchedulerNext]_schedulerVars => SchedulerInv'
  BY SchedulerStepStays
<1>3. SchedulerInv => ScheduleSound
  <2> SUFFICES ASSUME SchedulerInv PROVE ScheduleSound
    OBVIOUS
  <2>1. phase \in {"demote", "expand", "done"} => ~Cyclic
    BY OrderedIsAcyclic DEF SchedulerInv, Unsorted
  <2>2. CycleReported
    BY <2>1 DEF CycleReported, SchedulerInv
  <2>3. CASE phase = "done"
    <3>1. SchedulerTypeOK /\ Ordering /\ InOrder = JobNames /\ \A j \in JobNames : ~HeldBack(j)
      BY <2>3 DEF SchedulerInv, Unsorted
    <3>2. ScheduleFeedsRun
      BY <3>1, FeedsRun DEF ScheduleFeedsRun, SchedulerInv
    <3> QED BY <3>2, <2>2 DEF ScheduleSound
  <2>4. CASE phase # "done"
    BY <2>2, <2>4 DEF ScheduleSound, ScheduleFeedsRun, SchedulerInv
  <2> QED BY <2>3, <2>4
<1> QED BY <1>1, <1>2, <1>3, PTL DEF SchedulerSpec

-----------------------------------------------------------------------------
(***************************************************************************)
(* PipelineConfig: a re-run finds in the row of the run all it needs.      *)
(***************************************************************************)
Created(event, ref, target) ==
  LET explicit == Normalize(target)
      environment == Or(explicit, InferEnvironment(ref))
  IN /\ target # None => event = "manual" /\ explicit # None
     /\ run = [event |-> event, ref |-> ref, environment |-> StoredEnvironment(event, explicit, environment)]
     /\ first = ScheduleContext(on, event, ref, environment, event = "manual" /\ explicit # None)
ConfigInv ==
  \/ run = None /\ first = None /\ again = None
  \/ /\ run # None /\ again \in {None, first}
     /\ \E event \in Events, ref \in Refs, target \in Targets \cup {None} : Created(event, ref, target)

LEMMA Environments ==
  /\ Normalize(None) = None
  /\ \A target : Normalize(target) \in CiEnvironments \cup {None}
  /\ \A ref : InferEnvironment(ref) \in CiEnvironments \cup {None}
BY NoneAssumption DEF Normalize, InferEnvironment, CiEnvironments

LEMMA RowIsThere ==
  ASSUME NEW event \in Events, NEW ref \in Refs, NEW target, NEW environment \in CiEnvironments \cup {None}
  PROVE  [event |-> event, ref |-> ref,
          environment |-> StoredEnvironment(event, Normalize(target), environment)] # None
<1>1. StoredEnvironment(event, Normalize(target), environment) \in CiEnvironments \cup {None}
  BY Environments DEF StoredEnvironment
<1>2. PICK e \in {None, "dev", "qa", "uat", "prd"} : e = StoredEnvironment(event, Normalize(target), environment)
  BY <1>1 DEF CiEnvironments
<1>3. [event |-> event, ref |-> ref, environment |-> e]
        \in [event : Events, ref : Refs, environment : {None, "dev", "qa", "uat", "prd"}]
  OBVIOUS
<1> QED BY <1>2, <1>3, NoneAssumption

LEMMA CreateStays ==
  ASSUME ConfigInv, NEW event \in Events, NEW ref \in Refs, NEW target \in Targets \cup {None},
         CreateRun(event, ref, target)
  PROVE  ConfigInv'
<1>1. Created(event, ref, target)'
  BY DEF CreateRun, Created
<1>2. Or(Normalize(target), InferEnvironment(ref)) \in CiEnvironments \cup {None}
  BY Environments DEF Or
<1>3. run' # None
  BY <1>2, RowIsThere DEF CreateRun
<1>4. again' = None
  BY DEF ConfigInv, CreateRun
<1> QED BY <1>1, <1>3, <1>4 DEF ConfigInv

(* The context of a re-run is that of the run.                             *)
LEMMA SameContext ==
  ASSUME NEW event \in Events, NEW ref \in Refs, NEW target \in Targets \cup {None}, Created(event, ref, target)
  PROVE  first = ScheduleContext(on, run.event, run.ref, Or(run.environment, InferEnvironment(run.ref)),
                                 run.event = "manual" /\ run.environment # None)
<1>1. PICK explicit \in CiEnvironments \cup {None} : explicit = Normalize(target)
  BY Environments
<1>2. PICK environment : environment = Or(explicit, InferEnvironment(ref))
  OBVIOUS
<1>3. /\ target # None => event = "manual" /\ explicit # None
      /\ run.event = event /\ run.ref = ref
      /\ run.environment = IF event = "manual" THEN explicit ELSE environment
      /\ first = ScheduleContext(on, event, ref, environment, event = "manual" /\ explicit # None)
  BY <1>1, <1>2 DEF Created, StoredEnvironment
<1>4. CASE event = "manual"
  <2>1. Or(run.environment, InferEnvironment(run.ref)) = environment
    BY <1>2, <1>3, <1>4
  <2>2. (run.event = "manual" /\ run.environment # None) = (event = "manual" /\ explicit # None)
    BY <1>3, <1>4
  <2> QED BY <1>3, <2>1, <2>2
<1>5. CASE event # "manual"
  <2>1. explicit = None
    BY <1>1, <1>3, <1>5, Environments
  <2>2. Or(run.environment, InferEnvironment(run.ref)) = environment
    BY <1>2, <1>3, <1>5, <2>1 DEF Or
  <2>3. (run.event = "manual" /\ run.environment # None) = (event = "manual" /\ explicit # None)
    BY <1>3, <1>5
  <2> QED BY <1>3, <2>2, <2>3
<1> QED BY <1>4, <1>5

LEMMA ConfigStepStays == ConfigInv /\ [ConfigNext]_configVars => ConfigInv'
<1> SUFFICES ASSUME ConfigInv, [ConfigNext]_configVars PROVE ConfigInv'
  OBVIOUS
<1>1. CASE \E event \in Events, ref \in Refs, target \in Targets \cup {None} : CreateRun(event, ref, target)
  BY <1>1, CreateStays
<1>2. CASE Reschedule
  <2>1. run # None /\ on' = on /\ run' = run /\ first' = first
    BY <1>2 DEF Reschedule
  <2>2. PICK event \in Events, ref \in Refs, target \in Targets \cup {None} : Created(event, ref, target)
    BY <2>1 DEF ConfigInv
  <2>3. again' = first'
    BY <1>2, <2>1, <2>2, SameContext DEF Reschedule
  <2>4. Created(event, ref, target)'
    BY <2>1, <2>2 DEF Created
  <2> QED BY <2>1, <2>3, <2>4 DEF ConfigInv
<1>3. CASE UNCHANGED configVars
  <2>1. on' = on /\ run' = run /\ first' = first /\ again' = again
    BY <1>3 DEF configVars
  <2> QED BY <2>1 DEF ConfigInv, Created
<1> QED BY <1>1, <1>2, <1>3 DEF ConfigNext

LEMMA ConfigHolds == ConfigInv => RerunKeepsSchedule /\ ClickNeeded
<1> SUFFICES ASSUME ConfigInv PROVE RerunKeepsSchedule /\ ClickNeeded
  OBVIOUS
<1>1. RerunKeepsSchedule
  <2>1. again # None => again = first
    BY DEF ConfigInv
  <2> QED BY <2>1 DEF RerunKeepsSchedule
<1>2. ClickNeeded
  <2> SUFFICES ASSUME first # None, NEW c \in Conditions, c.event # None, <<"manual">> \in c.event,
                      ScheduleMode(c, first) = "Queued"
               PROVE  run.event = "manual" /\ ~(run.environment = None /\ MatchesPush(on, run.ref))
    BY DEF ClickNeeded
  <2>1. PICK event \in Events, ref \in Refs, target \in Targets \cup {None} : Created(event, ref, target)
    BY DEF ConfigInv
  <2>2. first.event = "manual"
    <3>1. ManualMode(c, first) = "Queued"
      BY DEF ScheduleMode, RequiresManual
    <3> QED BY <3>1 DEF ManualMode
  <2>3. first = ScheduleContext(on, run.event, run.ref, Or(run.environment, InferEnvironment(run.ref)),
                                run.event = "manual" /\ run.environment # None)
    BY <2>1, SameContext
  <2>4. first.event = IF run.event = "manual" /\ ~(run.event = "manual" /\ run.environment # None)
                           /\ MatchesPush(on, run.ref) THEN "push" ELSE run.event
    BY <2>3 DEF ScheduleContext, RunContext
  <2> QED BY <2>2, <2>4
<1> QED BY <1>1, <1>2

-----------------------------------------------------------------------------
(***************************************************************************)
(* LegacyCi: the jobs of a stage need those of the stage before.           *)
(***************************************************************************)
FromStages(file, order) ==
  converted = [push |-> TRUE, pull_request |-> FALSE,
    jobs |-> [j \in {k \in DOMAIN file.jobs : file.jobs[k].script} |->
                [needs |-> StageNeeds(file, order, j), if |-> GitlabIf(file.jobs[j])]]]
LegacyInv == source # Unset /\ source \in GitlabFiles =>
  converted = NoJobs \/ \E order \in StageOrders(source) : FromStages(source, order)

LEMMA LegacyStepStays == LegacyInv /\ [LegacyNext]_legacyVars => LegacyInv'
<1> SUFFICES ASSUME LegacyInv, [LegacyNext]_legacyVars PROVE LegacyInv'
  OBVIOUS
<1>1. ASSUME NEW file \in GitlabFiles, ConvertGitlab(file) PROVE LegacyInv'
  <2>1. source' = file /\ (converted' = NoJobs \/ \E order \in StageOrders(file) : FromStages(file, order)')
    BY <1>1 DEF ConvertGitlab, FromStages
  <2>2. CASE converted' = NoJobs
    BY <2>2 DEF LegacyInv, NoJobs
  <2>3. ASSUME NEW order \in StageOrders(file), FromStages(file, order)' PROVE LegacyInv'
    <3>1. (\E o \in StageOrders(source) : FromStages(source, o))'
      BY <2>1, <2>3 DEF FromStages
    <3> QED BY <3>1 DEF LegacyInv
  <2> QED BY <2>1, <2>2, <2>3
<1>2. ASSUME NEW file \in GithubFiles, ConvertGithub(file) PROVE LegacyInv'
  <2>1. source' = file /\ file \notin GitlabFiles
    BY <1>2, FilesAssumption DEF ConvertGithub
  <2> QED BY <2>1 DEF LegacyInv
<1>3. CASE UNCHANGED legacyVars
  <2>1. source' = source /\ converted' = converted
    BY <1>3 DEF legacyVars
  <2> QED BY <2>1 DEF LegacyInv, FromStages, NoJobs
<1> QED BY <1>1, <1>2, <1>3 DEF LegacyNext

(* Each stage has one place in the order. *)
LEMMA OrderIs ==
  ASSUME NEW file \in GitlabFiles, NEW order \in StageOrders(file),
         \A a, b \in DOMAIN file.stages : a # b => file.stages[a] # file.stages[b]
  PROVE  /\ Len(order) \in Nat
         /\ \A a, b \in 1..Len(order) : order[a] = order[b] => a = b
<1>1. CASE file.stages # <<>>
  <2>1. order = file.stages /\ file.stages \in Seq(STRING)
    BY <1>1, FilesAssumption DEF StageOrders
  <2>2. Len(order) \in Nat /\ DOMAIN order = 1..Len(order)
    BY <2>1
  <2> QED BY <2>1, <2>2
<1>2. CASE file.stages = <<>>
  <2>1. PICK used : used = {StageOf(file.jobs[j]) : j \in Scripted(file)}
    OBVIOUS
  <2>2. IsFiniteSet(Scripted(file))
    BY FilesAssumption, FS_Subset DEF Scripted
  <2>3. IsFiniteSet(used)
    <3>1. PICK f : f = [j \in Scripted(file) |-> StageOf(file.jobs[j])]
      OBVIOUS
    <3>2. f \in [Scripted(file) -> used] /\ \A t \in used : \E j \in Scripted(file) : f[j] = t
      BY <2>1, <3>1
    <3>3. f \in Surjection(Scripted(file), used)
      BY <3>2 DEF Surjection
    <3> QED BY <2>2, <3>3, FS_Surjection
  <2>4. PICK n \in Nat : n = Cardinality(used)
    BY <2>3, FS_CardinalityType
  <2>5. order \in [1..n -> used] /\ \A a, b \in DOMAIN order : a # b => order[a] # order[b]
    BY <1>2, <2>1, <2>4 DEF StageOrders
  <2>6. Len(order) = n /\ DOMAIN order = 1..n
    BY <2>5
  <2> QED BY <2>4, <2>5, <2>6
<1> QED BY <1>1, <1>2

(* A job that got its needs from the stages got those of the stage before. *)
LEMMA StageNeedsAre ==
  ASSUME NEW file \in GitlabFiles, NEW order, Len(order) \in Nat,
         \A a, b \in 1..Len(order) : order[a] = order[b] => a = b,
         NEW j, file.jobs[j].needs = {}
  PROVE  \/ StageNeeds(file, order, j) = {}
         \/ \E i \in 2..Len(order) : /\ order[i] = StageOf(file.jobs[j])
                                     /\ StageNeeds(file, order, j) = StageJobs(file, order[i - 1])
<1>1. PICK pairs : pairs = {i \in 2..Len(order) : order[i] = StageOf(file.jobs[j]) /\ StageJobs(file, order[i - 1]) # {}}
  OBVIOUS
<1>2. CASE pairs = {}
  BY <1>1, <1>2 DEF StageNeeds
<1>3. CASE pairs # {}
  <2>1. pairs \in SUBSET Nat
    BY <1>1
  <2>2. \E i \in pairs : \A k \in pairs : i <= k
    BY <1>3, <2>1, Least
  <2>3. PICK i : i = CHOOSE m \in pairs : \A k \in pairs : m <= k
    OBVIOUS
  <2>4. i \in pairs
    BY <2>2, <2>3
  <2>5. StageNeeds(file, order, j) = StageJobs(file, order[i - 1])
    BY <1>1, <1>3, <2>3 DEF StageNeeds
  <2> QED BY <1>1, <2>4, <2>5
<1> QED BY <1>2, <1>3

LEMMA StagesHold == LegacyInv => StagesSchedule
<1> SUFFICES ASSUME LegacyInv, StagesAlone
             PROVE  LET jobs == converted.jobs IN
                    /\ \A j \in DOMAIN jobs : jobs[j].needs \subseteq DOMAIN jobs
                    /\ \A S \in SUBSET DOMAIN jobs : S # {} => \E j \in S : jobs[j].needs \cap S = {}
  BY DEF StagesSchedule
<1>1. PICK file \in GitlabFiles : file = source
  BY DEF StagesAlone
<1>2. PICK order \in StageOrders(file) : FromStages(file, order)
  BY <1>1 DEF LegacyInv, StagesAlone
<1>3. /\ \A j \in DOMAIN file.jobs : file.jobs[j].needs = {}
      /\ \A a, b \in DOMAIN file.stages : a # b => file.stages[a] # file.stages[b]
  BY <1>1 DEF StagesAlone
<1>4. PICK n \in Nat : n = Len(order)
  BY <1>3, OrderIs
<1>5. \A a, b \in 1..n : order[a] = order[b] => a = b
  BY <1>3, <1>4, OrderIs
<1>6. PICK jobs : jobs = converted.jobs
  OBVIOUS
<1>7. /\ DOMAIN jobs = Scripted(file)
      /\ \A j \in Scripted(file) : jobs[j].needs = StageNeeds(file, order, j)
  BY <1>2, <1>6 DEF FromStages, Scripted
<1>8. \A j \in Scripted(file) : j \in DOMAIN file.jobs
  BY DEF Scripted
<1>9. ASSUME NEW j \in Scripted(file)
      PROVE  \/ jobs[j].needs = {}
             \/ \E i \in 2..n : /\ order[i] = StageOf(file.jobs[j])
                                /\ jobs[j].needs = StageJobs(file, order[i - 1])
  <2>1. Len(order) \in Nat /\ \A a, b \in 1..Len(order) : order[a] = order[b] => a = b
    BY <1>4, <1>5
  <2>2. file.jobs[j].needs = {} /\ jobs[j].needs = StageNeeds(file, order, j)
    BY <1>3, <1>7, <1>8
  <2>3. \/ StageNeeds(file, order, j) = {}
        \/ \E i \in 2..Len(order) : /\ order[i] = StageOf(file.jobs[j])
                                    /\ StageNeeds(file, order, j) = StageJobs(file, order[i - 1])
    BY <2>1, <2>2, StageNeedsAre
  <2> QED BY <2>2, <2>3, <1>4
<1>10. ASSUME NEW j \in DOMAIN jobs PROVE jobs[j].needs \subseteq DOMAIN jobs
  BY <1>7, <1>9 DEF StageJobs
<1>11. ASSUME NEW S \in SUBSET DOMAIN jobs, S # {} PROVE \E j \in S : jobs[j].needs \cap S = {}
  <2> SUFFICES ASSUME \A j \in S : jobs[j].needs \cap S # {} PROVE FALSE
    OBVIOUS
  <2>1. ASSUME NEW j \in S
        PROVE  \E i \in 2..n : /\ order[i] = StageOf(file.jobs[j])
                               /\ \E k \in S : StageOf(file.jobs[k]) = order[i - 1]
    <3>1. PICK k \in S : k \in jobs[j].needs
      OBVIOUS
    <3>2. PICK i \in 2..n : order[i] = StageOf(file.jobs[j]) /\ jobs[j].needs = StageJobs(file, order[i - 1])
      BY <1>7, <1>9, <3>1
    <3> QED BY <3>1, <3>2 DEF StageJobs
  <2>2. PICK T : T = {i \in 2..n : \E j \in S : order[i] = StageOf(file.jobs[j])}
    OBVIOUS
  <2>3. T # {} /\ T \in SUBSET Nat
    <3>1. PICK j \in S : TRUE
      BY <1>11
    <3>2. PICK i \in 2..n : order[i] = StageOf(file.jobs[j])
      BY <2>1
    <3>3. i \in T
      BY <2>2, <3>2
    <3>4. T \subseteq 2..n
      BY <2>2
    <3> QED BY <3>3, <3>4
  <2>4. PICK m \in T : \A i \in T : m <= i
    BY <2>3, Least
  <2>5. PICK j \in S : m \in 2..n /\ order[m] = StageOf(file.jobs[j])
    BY <2>2, <2>4
  <2>6. PICK i \in 2..n : order[i] = StageOf(file.jobs[j]) /\ \E k \in S : StageOf(file.jobs[k]) = order[i - 1]
    BY <2>1
  <2>7. i = m
    BY <1>5, <2>5, <2>6
  <2>8. PICK k \in S : StageOf(file.jobs[k]) = order[m - 1]
    BY <2>6, <2>7
  <2>9. PICK l \in 2..n : order[l] = StageOf(file.jobs[k])
    BY <2>1
  <2>10. l = m - 1
    BY <1>5, <2>5, <2>8, <2>9
  <2>11. l \in T
    BY <2>2, <2>9
  <2> QED BY <2>4, <2>5, <2>10, <2>11
<1> QED BY <1>6, <1>10, <1>11

(* The path from a file to a run keeps what the file says (convert.rs,     *)
(* schedule.rs, job_if.rs, process_trigger_now, rerun_pipeline).           *)
THEOREM ConfigurationIsSound == ConfigurationSpec => []ConfigSound
<1>1. SchedulerSpec => []ScheduleSound
  BY SchedulesAreSound
<1>2. ConfigInit => ConfigInv
  BY DEF ConfigInit, ConfigInv
<1>3. ConfigInv /\ [ConfigNext]_configVars => ConfigInv'
  BY ConfigStepStays
<1>4. ConfigInv => RerunKeepsSchedule /\ ClickNeeded
  BY ConfigHolds
<1>5. LegacyInit => LegacyInv
  BY DEF LegacyInit, LegacyInv
<1>6. LegacyInv /\ [LegacyNext]_legacyVars => LegacyInv'
  BY LegacyStepStays
<1>7. LegacyInv => StagesSchedule
  BY StagesHold
<1>8. ScheduleSound /\ RerunKeepsSchedule /\ ClickNeeded /\ StagesSchedule => ConfigSound
  BY DEF ConfigSound
<1> QED BY <1>1, <1>2, <1>3, <1>4, <1>5, <1>6, <1>7, <1>8, PTL DEF ConfigurationSpec, ConfigSpec, LegacySpec

-----------------------------------------------------------------------------
(***************************************************************************)
(* RulesTypeOK: the types of every module, for the behaviours that MCRules *)
(* explores, and by the way for each module on its own.  The clocks need   *)
(* no relation between the five periods for their types.                   *)
(***************************************************************************)
LEMMA ClockStaysTyped == ClockTypeOK /\ [ClockNext]_clockVars => ClockTypeOK'
<1> SUFFICES ASSUME ClockTypeOK, [ClockNext]_clockVars PROVE ClockTypeOK'
  OBVIOUS
<1> USE Units
<1>1. ASSUME MarkStale
      PROVE  /\ jobRow' \in {"none", "running", "done", "failure"}
             /\ jobRow # "none" => jobRow' # "none"
             /\ status' \in {"online", "busy", "offline"}
             /\ instSeen' \in 0..InstanceStale + 1 \cup {Never}
             /\ seen' \in 0..RunnerOffline + 1 \cup {Never}
  <2>1. /\ jobRow' \in {"none", "running", "done", "failure"}
        /\ jobRow # "none" => jobRow' # "none"
    BY <1>1 DEF MarkStale, ClockTypeOK
  <2>2. status' \in {"online", "busy", "offline"}
    BY <1>1 DEF MarkStale, ClockTypeOK
  <2>3. instSeen' \in 0..InstanceStale + 1 \cup {Never} /\ seen' \in 0..RunnerOffline + 1 \cup {Never}
    BY <1>1 DEF MarkStale, ClockTypeOK
  <2> QED BY <2>1, <2>2, <2>3
<1>2. ASSUME Heartbeat
      PROVE  /\ jobRow' = jobRow /\ status' \in {"online", "busy", "offline"}
             /\ instSeen' \in 0..InstanceStale + 1 \cup {Never}
             /\ seen' \in 0..RunnerOffline + 1 \cup {Never} /\ lost' \in 0..MaxLost
  BY <1>2 DEF Heartbeat, BusyIf, ClockTypeOK, apiVars
<1>3. CASE Check
  BY <1>1, <1>3 DEF Check, ClockTypeOK, HasJob, Alive
<1>4. CASE LoopBeat
  BY <1>2, <1>4 DEF LoopBeat, ClockTypeOK, HasJob, Alive
<1>5. CASE JobBeat
  BY <1>2, <1>5 DEF JobBeat, JobBeatDue, ClockTypeOK, HasJob, Alive
<1>6. CASE StartPoll
  BY <1>1, <1>6 DEF StartPoll, apiVars, ClockTypeOK, HasJob, Alive
<1>7. CASE PollClaims
  BY <1>7 DEF PollClaims, ClockTypeOK, HasJob, Alive
<1>8. ASSUME NEW b \in BOOLEAN, PollEnds(b) PROVE ClockTypeOK'
  BY <1>8 DEF PollEnds, apiVars, ClockTypeOK, HasJob, Alive
<1>9. ASSUME NEW b \in BOOLEAN, JobEnds(b) PROVE ClockTypeOK'
  BY <1>9 DEF JobEnds, ClockTypeOK, HasJob, Alive
<1>10. CASE Stop \/ Deregister \/ Die \/ RotateToken
  BY <1>10 DEF Stop, Deregister, Die, RotateToken, apiVars, ClockTypeOK, HasJob, Alive
<1>11. CASE Tick
  <2>1. beating' \in 0..BeatUnits \cup {Never} /\ (HasJob' => HasJob)
    BY <1>11 DEF Tick, ClockTypeOK, HasJob, JobBeatDue
  <2>2. instSeen' \in 0..InstanceStale + 1 \cup {Never} /\ seen' \in 0..RunnerOffline + 1 \cup {Never}
    BY <1>11 DEF Tick, Older, ClockTypeOK
  <2>3. polled' \in 0..PollUnits /\ checked' \in 0..CheckUnits
    BY <1>11 DEF Tick, ClockTypeOK
  <2>4. UNCHANGED <<loop, jobRow, status, lost>>
    BY <1>11 DEF Tick
  <2> QED BY <2>1, <2>2, <2>3, <2>4 DEF ClockTypeOK, Alive
<1>12. CASE UNCHANGED clockVars
  BY <1>12 DEF clockVars, ClockTypeOK, HasJob, Alive
<1> QED
  BY <1>3, <1>4, <1>5, <1>6, <1>7, <1>8, <1>9, <1>10, <1>11, <1>12 DEF ClockNext

(* The unique keys: a row that is created, moved or rewritten shares its   *)
(* level and its environment with no other.                                *)
OneRowEach == \A i \in Entries : ~Taken(entry[i].level, entry[i].env, i)

LEMMA OneRowEachStep ==
  ASSUME SecretsInv, OneRowEach, NEW i \in SecretIds, NEW r \in SecretRows \cup {NoEntry},
         entry' = [entry EXCEPT ![i] = r], r # NoEntry => ~Taken(r.level, r.env, i)
  PROVE  OneRowEach'
<1>1. \A k \in SecretIds : entry'[k] = IF k = i THEN r ELSE entry[k]
  BY DEF SecretsInv
<1>2. \A k \in Entries' : k \in SecretIds /\ entry'[k] # NoEntry
  BY DEF Entries
<1>3. \A k \in SecretIds \ {i} : k \in Entries' => k \in Entries
  BY <1>1 DEF Entries
<1>4. SUFFICES ASSUME NEW k \in Entries', NEW m \in Entries' \ {k},
                      entry'[m].level = entry'[k].level, entry'[m].env = entry'[k].env
               PROVE  FALSE
  BY DEF OneRowEach, Taken
<1>5. CASE k # i /\ m # i
  BY <1>1, <1>2, <1>3, <1>4, <1>5 DEF OneRowEach, Taken
<1>6. CASE k = i
  BY <1>1, <1>2, <1>3, <1>4, <1>6 DEF Taken
<1>7. CASE m = i
  BY <1>1, <1>2, <1>3, <1>4, <1>7 DEF Taken
<1> QED BY <1>5, <1>6, <1>7

LEMMA SecretsStayTyped ==
  SecretsInv /\ SecretsInv' /\ SecretsTypeOK /\ [SecretsNext]_secretVars => SecretsTypeOK'
<1> SUFFICES ASSUME SecretsInv, SecretsInv', SecretsTypeOK, [SecretsNext]_secretVars
             PROVE  SecretsTypeOK'
  OBVIOUS
<1> USE SecretsAssumption
<1>1. OneRowEach /\ secretAsks \in 0..MaxSecretAsks
  BY DEF SecretsTypeOK, OneRowEach
<1>2. SUFFICES OneRowEach' /\ secretAsks' \in 0..MaxSecretAsks
  BY <1>2 DEF SecretsTypeOK, SecretsInv, OneRowEach
<1>3. ASSUME NEW c, Asks(c) PROVE secretAsks' \in 0..MaxSecretAsks
  BY <1>1, <1>3 DEF Asks
<1>4. ASSUME UNCHANGED entry PROVE OneRowEach'
  BY <1>1, <1>4 DEF OneRowEach, Taken, Entries
<1>5. ASSUME NEW c \in SecretClients, NEW l \in Levels, NEW r \in Creates, CreateAt(c, l, r)
      PROVE  OneRowEach' /\ secretAsks' \in 0..MaxSecretAsks
  <2> DEFINE scope == OrElse(r.scope, "secret")
             env == OrElse(r.env, "all")
             kind == KindOf(scope, OrElse(r.kind, "variable"))
             mask == OrElse(r.masked, DefaultMasked(scope))
             new == [level |-> l, env |-> env, scope |-> scope, kind |-> kind, masked |-> mask]
  <2>1. CASE Taken(l, env, NoEntry)
    BY <1>3, <1>4, <1>5, <2>1 DEF CreateAt, Unwritten
  <2>2. CASE ~Taken(l, env, NoEntry)
    <3>1. entry' = [entry EXCEPT ![NewRow] = new] /\ Asks(c)
      BY <1>5, <2>2 DEF CreateAt, WriteEntry
    <3>2. NewRow \in SecretIds
      BY <1>5 DEF CreateAt, NewRow, Entries
    <3>3. entry'[NewRow] = new /\ new # NoEntry
      <4>1. entry'[NewRow] = new
        BY <3>1, <3>2 DEF SecretsInv
      <4>2. scope \in {"secret", "variable"} /\ env \in SecretEnvs /\ mask \in BOOLEAN
        BY DEF OrElse, SecretEnvs, DefaultMasked
      <4>3. kind \in {"variable", "file"}
        BY DEF OrElse, KindOf
      <4> HIDE DEF scope, env, kind, mask
      <4>4. new \in SecretRows
        BY <4>2, <4>3 DEF SecretRows
      <4> QED BY <4>1, <4>4
    <3>4. new \in SecretRows
      BY <3>2, <3>3 DEF SecretsInv
    <3>5. new.level = l /\ new.env = env
      OBVIOUS
    <3> HIDE DEF new, env
    <3>6. ~Taken(new.level, new.env, NewRow)
      BY <2>2, <3>5 DEF Taken, Entries
    <3> QED BY <1>1, <1>3, <3>1, <3>2, <3>4, <3>6, OneRowEachStep
  <2> QED BY <2>1, <2>2
<1>6. ASSUME NEW c \in SecretClients, NEW l, NEW i, DeleteAt(c, l, i)
      PROVE  OneRowEach' /\ secretAsks' \in 0..MaxSecretAsks
  <2>1. i \in SecretIds /\ entry' = [entry EXCEPT ![i] = NoEntry] /\ Asks(c)
    BY <1>6 DEF DeleteAt, WriteEntry, Entries
  <2> QED BY <1>1, <1>3, <2>1, OneRowEachStep
<1>7. ASSUME NEW c \in SecretClients, NEW l, NEW i, NEW r, OpenUpdate(c, l, i, r)
      PROVE  OneRowEach' /\ secretAsks' \in 0..MaxSecretAsks
  BY <1>3, <1>4, <1>7 DEF OpenUpdate, Unwritten
<1>8. ASSUME NEW c \in SecretClients, CommitUpdate(c)
      PROVE  OneRowEach' /\ secretAsks' \in 0..MaxSecretAsks
  <2> DEFINE i == edit[c].id
             r == edit[c].ask
             old == edit[c].read
             scope == OrElse(r.scope, old.scope)
             kind == KindOf(scope, OrElse(r.kind, old.kind))
             mask == NextMask(r, old)
             asked == r.value \/ r.scope # Keep \/ r.kind # Keep \/ r.masked # Keep \/ r.env # Keep
  <2>1. UNCHANGED secretAsks
    BY <1>8 DEF CommitUpdate
  <2>2. CASE ~(asked /\ i \in Entries)
    <3>1. UNCHANGED entry
      BY <1>8, <2>2 DEF CommitUpdate, Unwritten
    <3> QED BY <1>1, <1>4, <2>1, <3>1
  <2>3. CASE asked /\ i \in Entries
    <3>1. /\ i \in SecretIds /\ entry[i] \in SecretRows
          /\ ~Taken(entry[i].level, entry[i].env, i)
      BY <1>1, <2>3 DEF SecretsInv, Entries, OneRowEach
    <3>2. entry' = [entry EXCEPT ![i] = [entry[i] EXCEPT !.scope = scope, !.kind = kind, !.masked = mask]]
      BY <1>8, <2>3 DEF CommitUpdate
    <3>3. PICK a, b, d : a = scope /\ b = kind /\ d = mask
      OBVIOUS
    <3>4. PICK new : new = [entry[i] EXCEPT !.scope = a, !.kind = b, !.masked = d]
      OBVIOUS
    <3>8. entry' = [entry EXCEPT ![i] = [entry[i] EXCEPT !.scope = a, !.kind = b, !.masked = d]]
      BY <3>2, <3>3
    <3>5. new.level = entry[i].level /\ new.env = entry[i].env
      BY <3>1, <3>4 DEF SecretRows
    <3>6. entry' = [entry EXCEPT ![i] = new]
      BY <3>4, <3>8
    <3>7. new \in SecretRows \cup {NoEntry}
      BY <3>1, <3>6 DEF SecretsInv
    <3> HIDE DEF i
    <3> QED BY <1>1, <2>1, <3>1, <3>5, <3>6, <3>7, OneRowEachStep
  <2> QED BY <2>2, <2>3
<1>9. ASSUME NEW c \in SecretClients, CommitEnvironment(c)
      PROVE  OneRowEach' /\ secretAsks' \in 0..MaxSecretAsks
  <2> DEFINE i == edit[c].id
             env == edit[c].ask.env
  <2>1. UNCHANGED secretAsks
    BY <1>9 DEF CommitEnvironment
  <2>2. CASE i \notin Entries \/ Taken(entry[i].level, env, i)
    <3>1. UNCHANGED entry
      BY <1>9, <2>2 DEF CommitEnvironment, Unwritten
    <3> QED BY <1>1, <1>4, <2>1, <3>1
  <2>3. CASE ~(i \notin Entries \/ Taken(entry[i].level, env, i))
    <3>1. i \in SecretIds /\ entry[i] \in SecretRows /\ ~Taken(entry[i].level, env, i)
      BY <2>3 DEF SecretsInv, Entries
    <3>2. entry' = [entry EXCEPT ![i] = [entry[i] EXCEPT !.env = env]]
      BY <1>9, <2>3 DEF CommitEnvironment
    <3>3. PICK new : new = [entry[i] EXCEPT !.env = env]
      OBVIOUS
    <3>4. new.level = entry[i].level /\ new.env = env
      BY <3>1, <3>3 DEF SecretRows
    <3>5. entry' = [entry EXCEPT ![i] = new]
      BY <3>2, <3>3
    <3>6. new \in SecretRows \cup {NoEntry}
      BY <3>1, <3>5 DEF SecretsInv
    <3> HIDE DEF i, env
    <3> QED BY <1>1, <2>1, <3>1, <3>4, <3>5, <3>6, OneRowEachStep
  <2> QED BY <2>2, <2>3
<1>10. CASE FetchContext \/ (\E l \in Levels : ReadLevel(l)) \/ \E b \in BOOLEAN : Prepare(b)
  BY <1>1, <1>4, <1>10 DEF FetchContext, ReadLevel, Prepare
<1>11. CASE UNCHANGED secretVars
  BY <1>1, <1>4, <1>11 DEF secretVars
<1>12. ASSUME NEW c \in SecretClients, NEW r \in Creates,
              CreateServer(c, r) \/ CreateGroup(c, r) \/ CreateRepository(c, r)
       PROVE  OneRowEach' /\ secretAsks' \in 0..MaxSecretAsks
  BY <1>5, <1>12 DEF CreateServer, CreateGroup, CreateRepository, Levels
<1>13. ASSUME NEW c \in SecretClients, NEW i, NEW r,
              OpenServer(c, i, r) \/ OpenGroup(c, i, r) \/ OpenRepository(c, i, r)
       PROVE  OneRowEach' /\ secretAsks' \in 0..MaxSecretAsks
  BY <1>7, <1>13 DEF OpenServer, OpenGroup, OpenRepository
<1>14. ASSUME NEW c \in SecretClients, NEW i, DeleteServer(c, i) \/ DeleteGroup(c, i) \/ DeleteRepository(c, i)
       PROVE  OneRowEach' /\ secretAsks' \in 0..MaxSecretAsks
  BY <1>6, <1>14 DEF DeleteServer, DeleteGroup, DeleteRepository
<1> QED
  BY <1>8, <1>9, <1>10, <1>11, <1>12, <1>13, <1>14 DEF SecretsNext

RulesInv ==
  /\ SchedulerInv /\ ClockTypeOK /\ SecretsInv /\ SecretsTypeOK /\ TagsInv /\ WikiInv

LEMMA RulesInitially == RulesInit => RulesInv
<1>1. ClockInit => ClockTypeOK
  BY Units DEF ClockInit, ClockTypeOK, HasJob, Alive
<1>2. SecretsInit => SecretsTypeOK
  BY SecretsAssumption DEF SecretsInit, SecretsTypeOK, Entries
<1> QED
  BY <1>1, <1>2, Initially, SecretsInitially, TagsInitially, WikiInitially DEF RulesInit, RulesInv

(* A step of the run is a step, or none, of each module.                   *)
LEMMA RulesStepParts ==
  ASSUME [RulesNext]_rulesVars
  PROVE  /\ [SchedulerNext]_schedulerVars /\ [ClockNext]_clockVars /\ [SecretsNext]_secretVars
         /\ [TagsNext]_tagVars /\ [WikiNext]_wikiVars
BY DEF RulesNext, rulesVars, Only, ScheduleStep, ConfigStep, LegacyStep, NamesStep, ClockStep,
       SecretStep, TagStep, WikiStep

LEMMA RulesStep == RulesInv /\ [RulesNext]_rulesVars => RulesInv'
<1> SUFFICES ASSUME RulesInv, [RulesNext]_rulesVars PROVE RulesInv'
  OBVIOUS
<1>1. SchedulerInv' /\ ClockTypeOK' /\ SecretsInv' /\ TagsInv' /\ WikiInv'
  BY RulesStepParts, SchedulerStepStays, ClockStaysTyped, SecretsStepStays, TagsStep, WikiStepStays
     DEF RulesInv
<1>2. SecretsTypeOK'
  BY <1>1, RulesStepParts, SecretsStayTyped DEF RulesInv
<1> QED BY <1>1, <1>2 DEF RulesInv

(* The tables and requests of the schedule, the clocks, the secrets, the   *)
(* tags and the wiki keep their types and their unique keys, for every     *)
(* choice of the constants and whichever module a behaviour explores.      *)
THEOREM RulesTyped == RulesSpec => []RulesTypeOK
<1>1. RulesInv => RulesTypeOK
  <2>1. WikiInv => WikiTypeOK
    BY DEF WikiInv, WikiTyped, WikiTypeOK, WikiReqs, WikiPlaces, NoText, Pages
  <2>2. SchedulerInv => SchedulerTypeOK
    BY DEF SchedulerInv
  <2>3. TagsInv => TagsTypeOK
    BY DEF TagsInv
  <2> QED BY <2>1, <2>2, <2>3 DEF RulesInv, RulesTypeOK
<1> QED BY <1>1, RulesInitially, RulesStep, PTL DEF RulesSpec

=============================================================================
