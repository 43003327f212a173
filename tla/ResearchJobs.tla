------------------------------- MODULE ResearchJobs -------------------------------
(* The research jobs (db/schema.sql) and their staleness sweep (db/         *)
(* routines.sql), run by pg_cron beside the workers' own transactions.      *)
(* PostgreSQL fixes now() when a transaction begins, reads a statement's    *)
(* rows from a snapshot, waits for a row that another transaction holds and *)
(* then tests that row, and only that row, again.  The workers are not in   *)
(* this repository: they beat, end and re-dispatch jobs as the schema       *)
(* describes.                                                               *)
EXTENDS Integers, FiniteSets

CONSTANTS
  Jobs, Workers,
  Sessions,    \* the workers' connections
  JobOf,       \* the job each of them works at, several perhaps at one
  OwnerOf,     \* job.worker_id of each job
  MaxSilence,  \* _max_silence
  MaxClock     \* bound: the time

ASSUME JobsAssumption ==
  /\ JobOf \in [Sessions -> Jobs] /\ OwnerOf \in [Jobs -> Workers] /\ MaxSilence \in Nat \ {0}
  /\ {"free", "sweep"} \cap Sessions = {}

VARIABLES
  clock,
  job_status,  \* job.status
  heartbeat_at, last_seen_at,
  txn,         \* each session's open transaction: since when, what it makes of its job
  lock,        \* the holder of each job's row
  snapshot,    \* the sweep's now() and its view of the workers
  todo         \* the rows the sweep has still to visit

jobVars == <<clock, job_status, heartbeat_at, last_seen_at, txn, lock, snapshot, todo>>

(* "ended" stands for failed, awaiting_review and done.                     *)
Given == {"running", "ended"}

NoTxn == [at |-> -1, status |-> "none"]
NoSweep == [now |-> -1, seen |-> [w \in Workers |-> 0]]

JobsInit ==
  /\ clock = 0
  /\ job_status = [j \in Jobs |-> "running"]
  /\ heartbeat_at = [j \in Jobs |-> 0] /\ last_seen_at = [w \in Workers |-> 0]
  /\ txn = [s \in Sessions |-> NoTxn]
  /\ lock = [j \in Jobs |-> "free"]
  /\ snapshot = NoSweep /\ todo = {}

Tick ==
  /\ clock < MaxClock
  /\ clock' = clock + 1
  /\ UNCHANGED <<job_status, heartbeat_at, last_seen_at, txn, lock, snapshot, todo>>

(* A transaction's now() is that of its begin, whenever it gets to the row. *)
Begin(s, status) ==
  /\ txn[s] = NoTxn
  /\ txn' = [txn EXCEPT ![s] = [at |-> clock, status |-> status]]
  /\ UNCHANGED <<clock, job_status, heartbeat_at, last_seen_at, lock, snapshot, todo>>

(* The worker's UPDATE locks the row once it is free: to beat, to end the   *)
(* job, or to take a stale one up again; it finds no row otherwise.         *)
Applies(j, status) ==
  \/ job_status[j] = "running"
  \/ job_status[j] = "stale" /\ status = "running"

Take(s) ==
  LET j == JobOf[s] IN
  /\ txn[s] # NoTxn /\ lock[j] = "free"
  /\ IF Applies(j, txn[s].status)
     THEN lock' = [lock EXCEPT ![j] = s] /\ UNCHANGED txn
     ELSE txn' = [txn EXCEPT ![s] = NoTxn] /\ UNCHANGED lock
  /\ UNCHANGED <<clock, job_status, heartbeat_at, last_seen_at, snapshot, todo>>

(* A beat begun before the last one takes both times back.                  *)
Commit(s) ==
  LET j == JobOf[s] IN
  /\ lock[j] = s
  /\ job_status' = [job_status EXCEPT ![j] = txn[s].status]
  /\ heartbeat_at' = [heartbeat_at EXCEPT ![j] = txn[s].at]
  /\ last_seen_at' = [last_seen_at EXCEPT ![OwnerOf[j]] = txn[s].at]
  /\ txn' = [txn EXCEPT ![s] = NoTxn]
  /\ lock' = [lock EXCEPT ![j] = "free"]
  /\ UNCHANGED <<clock, snapshot, todo>>

-------------------------------------------------------------------------------
(* Faulty variant: a job whose worker is alive is never silent.             *)
SilentWorkerOnly(status, beat, seen, now) == status = "running" /\ seen < now - MaxSilence

(* jobs_mark_stale: the statement's condition, on a row and on the worker's *)
(* row of the snapshot.                                                     *)
Silent(status, beat, seen, now) ==
  status = "running" /\ (beat < now - MaxSilence \/ seen < now - MaxSilence)

jobs_mark_stale ==
  /\ snapshot = NoSweep
  /\ snapshot' = [now |-> clock, seen |-> last_seen_at]
  /\ todo' = {j \in Jobs : Silent(job_status[j], heartbeat_at[j], last_seen_at[OwnerOf[j]], clock)}
  /\ UNCHANGED <<clock, job_status, heartbeat_at, last_seen_at, txn, lock>>

(* Faulty variant: the row is not tested again once it is free.             *)
UpdateUntested(j) ==
  /\ j \in todo /\ lock[j] = "free"
  /\ todo' = todo \ {j}
  /\ lock' = [lock EXCEPT ![j] = "sweep"]
  /\ UNCHANGED <<clock, job_status, heartbeat_at, last_seen_at, txn, snapshot>>

(* The sweep locks a row it found silent, if it still is.                   *)
Update(j) ==
  /\ j \in todo /\ lock[j] = "free"
  /\ todo' = todo \ {j}
  /\ IF Silent(job_status[j], heartbeat_at[j], snapshot.seen[OwnerOf[j]], snapshot.now)
     THEN lock' = [lock EXCEPT ![j] = "sweep"]
     ELSE UNCHANGED lock
  /\ UNCHANGED <<clock, job_status, heartbeat_at, last_seen_at, txn, snapshot>>

SweepEnds ==
  /\ snapshot # NoSweep /\ todo = {}
  /\ job_status' = [j \in Jobs |-> IF lock[j] = "sweep" THEN "stale" ELSE job_status[j]]
  /\ lock' = [j \in Jobs |-> IF lock[j] = "sweep" THEN "free" ELSE lock[j]]
  /\ snapshot' = NoSweep
  /\ UNCHANGED <<clock, heartbeat_at, last_seen_at, txn, todo>>

Sweep == jobs_mark_stale \/ SweepEnds \/ \E j \in Jobs : Update(j)

JobsNext ==
  \/ Tick \/ Sweep
  \/ \E s \in Sessions :
       \/ Take(s) \/ Commit(s)
       \/ \E status \in Given : Begin(s, status)

(* pg_cron starts the sweep again and again, a worker's transaction that    *)
(* has the row ends (its connection does, at the latest), and PostgreSQL    *)
(* queues those that wait for a row.                                        *)
JobsSpec ==
  /\ JobsInit /\ [][JobsNext]_jobVars
  /\ WF_jobVars(Sweep)
  /\ \A s \in Sessions : WF_jobVars(Commit(s))
  /\ \A j \in Jobs : SF_jobVars(Update(j))

-------------------------------------------------------------------------------
(* The sweep takes nothing back: a job that ended while the sweep waited    *)
(* for its row stays ended, and no other job than a running one becomes     *)
(* stale (routines.sql 205-220).                                            *)
EndedStaysEnded ==
  [][\A j \in Jobs : job_status'[j] = "stale" => job_status[j] \in {"running", "stale"}]_jobVars

(* A job silent for too long surfaces: it is reclassified, unless its       *)
(* worker comes back first, also where a late commit has set its heartbeat  *)
(* back (routines.sql 203-220, cron.sql 31-32).                             *)
SilentJobsSurface ==
  \A j \in Jobs :
    (job_status[j] = "running" /\ heartbeat_at[j] < clock - MaxSilence)
      ~> (job_status[j] # "running" \/ heartbeat_at[j] >= clock - MaxSilence)
================================================================================
