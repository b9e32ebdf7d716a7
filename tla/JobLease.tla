------------------------------ MODULE JobLease ------------------------------
(***************************************************************************)
(* What the job queue promises its runners, without the API's handlers:    *)
(* a job is leased to one process at a time; a lease begins with a claim   *)
(* by an idle process, and ends with the verdict of that very process, by  *)
(* being taken back, or by scheduling the job anew.  Only the process that *)
(* holds the lease and still works on the job makes the job pass, and what *)
(* passed or failed stays so until the job is scheduled anew.              *)
(***************************************************************************)
CONSTANTS Jobs, Pods, NoPod

VARIABLES
    phase,      \* phase[j]: what became of job j so far
    holder,     \* holder[j]: the process that has the lease of j, or NoPod
    busy        \* busy[p]: the job that process p works on, if any

leaseVars == <<phase, holder, busy>>

Phases == {"none", "waiting", "parked", "held", "passed", "failed", "cancelled"}

Init ==
    /\ phase = [j \in Jobs |-> "none"]
    /\ holder = [j \in Jobs |-> NoPod]
    /\ busy = [p \in Pods |-> {}]

(* The jobs J, all in one of the phases from, go to phase to; no process   *)
(* has a lease of them any more.                                           *)
Change(J, from, to) ==
    /\ \A j \in J : phase[j] \in from
    /\ phase' = [j \in Jobs |-> IF j \in J THEN to ELSE phase[j]]
    /\ holder' = [j \in Jobs |-> IF j \in J THEN NoPod ELSE holder[j]]
    /\ UNCHANGED busy

(* j gets a row, or its row is reset: the only way back from an outcome.   *)
Schedule(j) == \E to \in {"waiting", "parked"} : Change({j}, Phases, to)

(* Jobs skipped or manual may run after all; waiting ones are skipped.     *)
Release(J) == Change(J, {"parked"}, "waiting")
Park(J)    == Change(J, {"waiting"}, "parked")

Cancel(J) == Change(J, {"waiting", "parked", "held"}, "cancelled")

(* The lease of j is taken back: its process is silent or out of time.     *)
Expire(j) == Change({j}, {"held"}, "failed")

(* An idle process gets the lease of a waiting job.                        *)
Take(p, j) ==
    /\ busy[p] = {}
    /\ phase[j] = "waiting"
    /\ phase' = [phase EXCEPT ![j] = "held"]
    /\ holder' = [holder EXCEPT ![j] = p]
    /\ busy' = [busy EXCEPT ![p] = {j}]

(* The process that holds the lease decides.                               *)
Decide(p, j) ==
    /\ holder[j] = p
    /\ busy[p] = {j}
    /\ \E to \in {"passed", "failed", "cancelled"} : Change({j}, {"held"}, to)

(* A process stops working on its job, done or not.                        *)
Quit(p) ==
    /\ busy' = [busy EXCEPT ![p] = {}]
    /\ UNCHANGED <<phase, holder>>

Next ==
    \/ \E j \in Jobs : Schedule(j) \/ Expire(j)
    \/ \E J \in SUBSET Jobs : Release(J) \/ Park(J) \/ Cancel(J)
    \/ \E p \in Pods, j \in Jobs : Take(p, j) \/ Decide(p, j)
    \/ \E p \in Pods : Quit(p)

Spec == Init /\ [][Next]_leaseVars

=============================================================================
