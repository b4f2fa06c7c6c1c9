------------------------------ MODULE JobQueue ------------------------------
(***************************************************************************)
(* The jobs of QueueManager, which BullMQ keeps in Redis: they outlive the *)
(* process.  What BullMQ does is modelled as far as the options of this    *)
(* program reach: three attempts with a backoff, a lock that a worker      *)
(* renews while it processes the job, and the check for stalled jobs.  The *)
(* five queues are one; each job has its kind.                             *)
(***************************************************************************)
EXTENDS Naturals, FiniteSets

CONSTANTS
    Jobs,           \* the jobs that may be added
    Attempts,       \* DEFAULT_JOB_OPTIONS.attempts, 3
    MaxStalled,     \* maxStalledCount, BullMQ's default, 1
    MaxFaults       \* bound: how many failures, expired locks and crashes

ASSUME JobQueueAssumption ==
    Attempts \in Nat \ {0} /\ MaxStalled \in Nat /\ MaxFaults \in Nat

VARIABLES
    job,        \* job[j]: its state, the attempts that failed, its stalls
    queues,     \* the process's Queue objects: usable, or being closed
    faults      \* how many failures, expired locks and crashes there were

queueVars == <<job, queues, faults>>

JobStates == {"none", "waiting", "active", "delayed", "completed", "failed"}

Settled(j) == job[j].state \in {"completed", "failed"}

Fault == faults < MaxFaults /\ faults' = faults + 1

SetState(j, state) == job' = [job EXCEPT ![j].state = state]

QueueInit ==
    /\ job = [j \in Jobs |-> [state |-> "none", tries |-> 0, stalls |-> 0]]
    /\ queues = "open"
    /\ faults = 0

\* addJob, addBulkJobs: getQueue makes the queue if there is none, also after
\* closeAllQueues has cleared the map; a queue that is being closed refuses.
AddJob(j) ==
    /\ job[j].state = "none"
    /\ queues = "open"
    /\ SetState(j, "waiting")
    /\ UNCHANGED <<queues, faults>>

\* The backoff of a failed attempt is over.
Promote(j) ==
    /\ job[j].state = "delayed"
    /\ SetState(j, "waiting")
    /\ UNCHANGED <<queues, faults>>

\* BullMQ's check: the lock of an active job has expired.
Stalled(j) ==
    job' = [job EXCEPT
              ![j].state = IF job[j].stalls < MaxStalled THEN "waiting" ELSE "failed",
              ![j].stalls = @ + 1]

\* Mutant: a job that failed is left aside.
AttemptFailedPausing(j) ==
    job' = [job EXCEPT ![j].tries = @ + 1, ![j].state = "paused"]

\* The processor threw, under the job's lock.
AttemptFailed(j) ==
    job' = [job EXCEPT
              ![j].tries = @ + 1,
              ![j].state = IF job[j].tries + 1 < Attempts THEN "delayed" ELSE "failed"]
=============================================================================
