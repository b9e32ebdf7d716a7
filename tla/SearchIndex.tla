----------------------------- MODULE SearchIndex ---------------------------
(* The code search index: a row of code_index_jobs per pushed branch, the  *)
(* pollers (one in the API process, one in the worker) that turn it into   *)
(* documents of one shared tantivy index, and the row that says which      *)
(* commit of a repository the index holds.                                 *)
EXTENDS Naturals, Sequences, FiniteSets

CONSTANTS IndexRepos,
          NestedRepos,      \* repositories of a subgroup: the poller looks for them under its slug
          Indexers,         \* the pollers
          BatchSize,        \* jobs a poll takes
          MaxIndexJobs,     \* bound: pushed branches
          MaxIndexFaults    \* bound: restarts, and statements that fail

ASSUME SearchAssumption == /\ NestedRepos \subseteq IndexRepos /\ BatchSize \in Nat \ {0}
                           /\ MaxIndexJobs \in Nat /\ MaxIndexFaults \in Nat

VARIABLES
  ixJob,       \* code_index_jobs, oldest first: repository, state
  docs,        \* the commits of a repository the documents in the index are of
  ixMeta,      \* code_search_index_meta: the commit it names, 0 when there is no row
  indexer,     \* the pollers: what is left of the batch, and the step on its oldest job
  overlapped,     \* history: repositories with jobs in two batches at a time
  ixFaults

searchVars == <<ixJob, docs, ixMeta, indexer, overlapped, ixFaults>>

(* A job stands for its commit. *)
IxIds == 1..Len(ixJob)
Waits(j) == ixJob[j].state = "pending"
NoBatch == [pc |-> "poll", batch |-> {}]
InBatch(w) == indexer[w].batch
Current(w) == CHOOSE j \in InBatch(w) : \A i \in InBatch(w) : j <= i
OnStep(w, pc) == indexer[w].pc = pc
StepTo(w, pc) == indexer' = [indexer EXCEPT ![w].pc = pc]
(* IndexWriter: one at a time, of all processes *)
Locked == \E w \in Indexers : OnStep(w, "write")

(* enqueue_index_jobs, for an update that should_enqueue_index_update takes *)
Enqueue(r) == /\ Len(ixJob) < MaxIndexJobs
              /\ ixJob' = Append(ixJob, [repo |-> r, state |-> "pending"])
              /\ UNCHANGED <<docs, ixMeta, indexer, overlapped, ixFaults>>

Waiting == {j \in IxIds : Waits(j)}
(* mutant: the newest rows first *)
NewestFirst == {j \in Waiting : Cardinality({i \in Waiting : i > j}) < BatchSize}
(* process_pending_jobs: the oldest rows.  FOR UPDATE SKIP LOCKED ends with *)
(* the statement, which leaves the rows as they are.                       *)
Oldest == {j \in Waiting : Cardinality({i \in Waiting : i < j}) < BatchSize}
PickJobs(w) ==
  /\ OnStep(w, "poll") /\ Oldest # {}
  /\ indexer' = [indexer EXCEPT ![w] = [pc |-> "open", batch |-> Oldest]]
  /\ overlapped' = overlapped \cup
       {ixJob[j].repo : j \in {i \in Oldest : \E v \in Indexers \ {w} : \E k \in InBatch(v) :
                                                 ixJob[k].repo = ixJob[i].repo}}
  /\ UNCHANGED <<ixJob, docs, ixMeta, ixFaults>>

(* process_job and index_repository: the path of the repository, the tree   *)
(* of the commit, the lock of the index; whatever fails ends the job.      *)
OpenWriter(w) ==
  /\ OnStep(w, "open")
  /\ \/ ixJob[Current(w)].repo \notin NestedRepos /\ ~Locked /\ StepTo(w, "write") /\ UNCHANGED ixFaults
     \/ (ixJob[Current(w)].repo \in NestedRepos \/ Locked) /\ StepTo(w, "fail") /\ UNCHANGED ixFaults
     \/ ixFaults < MaxIndexFaults /\ ixFaults' = ixFaults + 1 /\ StepTo(w, "fail")
  /\ UNCHANGED <<ixJob, docs, ixMeta, overlapped>>
(* delete_term and add_document take effect together, with the commit *)
CommitDocs(w) ==
  /\ OnStep(w, "write")
  /\ \/ /\ docs' = [docs EXCEPT ![ixJob[Current(w)].repo] = {Current(w)}]
        /\ StepTo(w, "meta") /\ UNCHANGED ixFaults
     \/ ixFaults < MaxIndexFaults /\ ixFaults' = ixFaults + 1 /\ StepTo(w, "fail") /\ UNCHANGED docs
  /\ UNCHANGED <<ixJob, ixMeta, overlapped>>
WriteIndexMeta(w) ==
  /\ OnStep(w, "meta")
  /\ \/ /\ ixMeta' = [ixMeta EXCEPT ![ixJob[Current(w)].repo] = Current(w)]
        /\ StepTo(w, "mark") /\ UNCHANGED ixFaults
     \/ ixFaults < MaxIndexFaults /\ ixFaults' = ixFaults + 1 /\ StepTo(w, "fail") /\ UNCHANGED ixMeta
  /\ UNCHANGED <<ixJob, docs, overlapped>>
(* A job is processed, with an error or without; the error of this          *)
(* statement drops the rest of the batch, which stays pending.             *)
MarkProcessed(w) ==
  /\ OnStep(w, "mark") \/ OnStep(w, "fail")
  /\ \/ /\ ixJob' = [ixJob EXCEPT ![Current(w)].state = IF OnStep(w, "mark") THEN "indexed" ELSE "failed"]
        /\ indexer' = [indexer EXCEPT ![w] = IF @.batch = {Current(w)} THEN NoBatch
                                             ELSE [pc |-> "open", batch |-> @.batch \ {Current(w)}]]
        /\ UNCHANGED ixFaults
     \/ /\ ixFaults < MaxIndexFaults /\ ixFaults' = ixFaults + 1
        /\ indexer' = [indexer EXCEPT ![w] = NoBatch] /\ UNCHANGED ixJob
  /\ UNCHANGED <<docs, ixMeta, overlapped>>
IndexerRestarts(w) ==
  /\ ~OnStep(w, "poll") /\ ixFaults < MaxIndexFaults /\ ixFaults' = ixFaults + 1
  /\ indexer' = [indexer EXCEPT ![w] = NoBatch]
  /\ UNCHANGED <<ixJob, docs, ixMeta, overlapped>>

Index(w) == PickJobs(w) \/ OpenWriter(w) \/ CommitDocs(w) \/ WriteIndexMeta(w) \/ MarkProcessed(w)
SearchNext == (\E r \in IndexRepos : Enqueue(r)) \/ (\E w \in Indexers : Index(w) \/ IndexerRestarts(w))
SearchInit == /\ ixJob = <<>> /\ docs = [r \in IndexRepos |-> {}] /\ ixMeta = [r \in IndexRepos |-> 0]
              /\ indexer = [w \in Indexers |-> NoBatch] /\ overlapped = {} /\ ixFaults = 0
SearchSpec == SearchInit /\ [][SearchNext]_searchVars /\ \A w \in Indexers : WF_searchVars(Index(w))

---------------------------------------------------------------------------
SearchTypeOK ==
  /\ \A j \in IxIds : ixJob[j].repo \in IndexRepos /\ ixJob[j].state \in {"pending", "indexed", "failed"}
  /\ \A r \in IndexRepos : docs[r] \subseteq IxIds /\ ixMeta[r] \in 0..Len(ixJob) /\ Cardinality(docs[r]) <= 1
  /\ \A w \in Indexers : InBatch(w) \subseteq IxIds /\ (OnStep(w, "poll") <=> InBatch(w) = {})
  /\ overlapped \subseteq IndexRepos

(* When nothing waits, the index and the row about it hold the branch that  *)
(* was pushed last, unless that job failed or two pollers had jobs of the  *)
(* repository at a time.                                                   *)
SearchSound == \A r \in IndexRepos \ overlapped, j \in IxIds :
  /\ ixJob[j] = [repo |-> r, state |-> "indexed"]
  /\ \A i \in IxIds : i > j => ixJob[i].repo # r
  /\ \A i \in IxIds : ixJob[i].repo = r => ~Waits(i)
  => docs[r] = {j} /\ ixMeta[r] = j

(* The queue empties when nobody pushes any more. *)
Backlog == \E j \in IxIds : Waits(j)
IndexDrains == Backlog ~> ~Backlog
===========================================================================
