------------------------------ MODULE ServiceProofs ------------------------------
(***************************************************************************)
(* Theorems about what runs beside the command line: the receiver, the     *)
(* sweep of the jobs, the tables under their questions; and about the      *)
(* settings every process starts from.                                     *)
(***************************************************************************)
EXTENDS HookReceiver, ResearchJobs, LedgerQuestions, Settings, FiniteSetTheorems, TLAPS

(* A thread replies 204 only once its receipt is in the ledger, appends to  *)
(* it only what was admitted, and the sender waits for one request of an    *)
(* event, and for none once it has its 204. *)
HookInv ==
  /\ thread \in [Requests -> {"none", "reading", "appended", "over"}]
  /\ listening \in [Requests -> BOOLEAN]
  /\ receipts \subseteq Requests /\ DOMAIN reply = Events
  /\ \A r \in Requests :
       /\ thread[r] = "appended" => r \in receipts /\ VerdictOf[r[1]] = "admitted"
       /\ r \in receipts => thread[r] \in {"appended", "over"}
       /\ listening[r] => thread[r] \in {"reading", "appended"} /\ reply[r[1]] # "204"
       /\ \A s \in Requests : listening[r] /\ listening[s] /\ r[1] = s[1] => r = s

LEMMA HookInvInitially == HookInit => HookInv
BY DEF HookInit, HookInv

(* A thread replies and is over. *)
LEMMA ReplyKeepsHook ==
  ASSUME HookInv, NEW r \in Requests, NEW code,
         thread[r] = "reading" \/ thread[r] = "appended",
         thread' = [thread EXCEPT ![r] = "over"], _reply(r, code), UNCHANGED receipts
  PROVE  HookInv'
<1> USE DEF HookInv
<1>1. \A s \in Requests : thread'[s] = IF s = r THEN "over" ELSE thread[s]
  OBVIOUS
<1>2. listening' = [listening EXCEPT ![r] = FALSE]
  BY DEF _reply
<1>3. \A s \in Requests : listening'[s] <=> s # r /\ listening[s]
  BY <1>2
<1>4. r[1] \in Events
  BY DEF Requests
<1>5. \A s \in Requests : listening'[s] => reply'[s[1]] = reply[s[1]]
  <2>1. CASE ~listening[r]
    BY <2>1 DEF _reply
  <2>2. CASE listening[r]
    <3>1. \A e \in Events : e # r[1] => reply'[e] = reply[e]
      BY <1>4, <2>2 DEF _reply
    <3>2. \A s \in Requests : listening'[s] => s[1] # r[1]
      BY <1>3, <2>2
    <3> QED BY <3>1, <3>2 DEF Requests
  <2> QED BY <2>1, <2>2
<1>6. DOMAIN reply' = Events
  BY <1>4 DEF _reply
<1>7. /\ thread' \in [Requests -> {"none", "reading", "appended", "over"}]
      /\ listening' \in [Requests -> BOOLEAN]
  BY <1>2
<1>8. \A s \in Requests :
        /\ thread'[s] = "appended" => s \in receipts /\ VerdictOf[s[1]] = "admitted"
        /\ s \in receipts => thread'[s] \in {"appended", "over"}
  BY <1>1
<1>9. \A s \in Requests : listening'[s] => thread'[s] \in {"reading", "appended"} /\ reply'[s[1]] # "204"
  BY <1>1, <1>3, <1>5
<1>10. \A s, u \in Requests : listening'[s] /\ listening'[u] /\ s[1] = u[1] => s = u
  BY <1>3
<1> QED BY <1>6, <1>7, <1>8, <1>9, <1>10

LEMMA HookInvSteps == HookInv /\ [HookNext]_hookVars => HookInv'
<1> SUFFICES ASSUME HookInv, HookNext \/ UNCHANGED hookVars PROVE HookInv'
  OBVIOUS
<1> USE HookAssumption DEF HookInv
<1>0. \A r \in Requests : r[1] \in Events
  BY DEF Requests
<1>1. ASSUME NEW r \in Requests, Send(r) PROVE HookInv'
  BY <1>0, <1>1 DEF Send, RequestsOf
<1>2. ASSUME NEW r \in Requests, GiveUp(r) PROVE HookInv'
  BY <1>2 DEF GiveUp
<1>3. ASSUME NEW r \in Requests, do_POST(r) PROVE HookInv'
  <2>1. CASE Refused(r)
    BY <2>1, ReplyKeepsHook DEF Refused
  <2>2. CASE thread[r] = "reading" /\ VerdictOf[r[1]] = "admitted"
    BY <1>3, <2>2 DEF do_POST, Refused
  <2>3. CASE thread[r] = "appended"
    <3>1. thread' = [thread EXCEPT ![r] = "over"] /\ _reply(r, "204") /\ UNCHANGED receipts
      BY <1>3, <2>3 DEF do_POST, Refused
    <3> QED BY <2>3, <3>1, ReplyKeepsHook
  <2> QED BY <1>3, <2>1, <2>2, <2>3 DEF do_POST
<1>4. ASSUME NEW r \in Requests, Fail(r) PROVE HookInv'
  BY <1>4 DEF Fail
<1>5. CASE Stop
  BY <1>5 DEF Stop
<1>6. CASE UNCHANGED hookVars
  BY <1>6 DEF hookVars
<1> QED BY <1>1, <1>2, <1>3, <1>4, <1>5, <1>6 DEF HookNext

(* The receipts of an event, and what another one comes to. *)
Logged(e) == receipts \cap RequestsOf(e)

LEMMA LoggedIsBounded ==
  ASSUME NEW e \in Events
  PROVE  /\ IsFiniteSet(Logged(e)) /\ Cardinality(Logged(e)) \in Nat
         /\ Logged(e) # {} => Cardinality(Logged(e)) > 0
         /\ \A r \in RequestsOf(e) : r \notin receipts =>
              /\ Cardinality(Logged(e)) < MaxSends
              /\ Cardinality(Logged(e) \cup {r}) = Cardinality(Logged(e)) + 1
<1>1. IsFiniteSet({e}) /\ Cardinality({e}) = 1
  BY FS_Singleton
<1>2. IsFiniteSet(1 .. MaxSends) /\ Cardinality(1 .. MaxSends) = MaxSends
  BY HookAssumption, FS_Interval
<1>3. RequestsOf(e) = {e} \X (1 .. MaxSends)
  BY DEF RequestsOf, Requests
<1>4. IsFiniteSet(RequestsOf(e)) /\ Cardinality(RequestsOf(e)) = MaxSends
  <2>1. /\ IsFiniteSet({e} \X (1 .. MaxSends))
        /\ Cardinality({e} \X (1 .. MaxSends)) = Cardinality({e}) * Cardinality(1 .. MaxSends)
    BY <1>1, <1>2, FS_Product
  <2> QED BY <1>1, <1>2, <1>3, <2>1, HookAssumption
<1>5. Logged(e) \subseteq RequestsOf(e)
  BY DEF Logged
<1>6. IsFiniteSet(Logged(e)) /\ Cardinality(Logged(e)) \in Nat
  BY <1>4, <1>5, FS_Subset, FS_CardinalityType
<1>7. Logged(e) # {} => Cardinality(Logged(e)) > 0
  BY <1>6, FS_EmptySet
<1>8. ASSUME NEW r \in RequestsOf(e), r \notin receipts
      PROVE  /\ Cardinality(Logged(e)) < MaxSends
             /\ Cardinality(Logged(e) \cup {r}) = Cardinality(Logged(e)) + 1
  <2>1. r \notin Logged(e) /\ Logged(e) \cup {r} \subseteq RequestsOf(e)
    BY <1>5, <1>8 DEF Logged
  <2>2. Cardinality(Logged(e) \cup {r}) = Cardinality(Logged(e)) + 1
    BY <1>6, <2>1, FS_AddElement
  <2>3. Cardinality(Logged(e) \cup {r}) <= MaxSends
    BY <1>4, <2>1, FS_Subset
  <2> QED BY <1>6, <2>2, <2>3, HookAssumption
<1> QED BY <1>6, <1>7, <1>8

(* A thread that appends makes its event happen once more. *)
LEMMA AppendsHappen ==
  ASSUME HookInv, NEW r \in Requests, thread[r] = "reading", VerdictOf[r[1]] = "admitted",
         receipts' = receipts \cup {r}, UNCHANGED reply
  PROVE  Deliveries!Next
<1> DEFINE e == r[1]
<1>1. e \in Events /\ r \in RequestsOf(e) /\ r \notin receipts
  BY DEF Requests, RequestsOf, HookInv
<1>2. Logged(e)' = Logged(e) \cup {r}
  BY <1>1 DEF Logged, RequestsOf
<1>3. \A x \in Events : x # e => Logged(x)' = Logged(x)
  BY <1>1 DEF Logged, RequestsOf
<1>4. /\ Cardinality(Logged(e)) < MaxSends
      /\ Cardinality(Logged(e))' = Cardinality(Logged(e)) + 1
  BY <1>1, <1>2, LoggedIsBounded
<1>5. [x \in Events |-> Cardinality(Logged(x))]' =
        [[x \in Events |-> Cardinality(Logged(x))] EXCEPT ![e] = @ + 1]
  BY <1>1, <1>3, <1>4
<1>6. Deliveries!Happen(e)
  BY <1>1, <1>4, <1>5 DEF Deliveries!Happen, Logged
<1> QED BY <1>1, <1>6 DEF Deliveries!Next

(* A step that appends nothing tells a sender 204 only of what is logged,   *)
(* and takes no 204 back. *)
LEMMA RepliesAreReports ==
  ASSUME UNCHANGED receipts,
         \A e \in Events : (reply'[e] = "204") # (reply[e] = "204") =>
           reply[e] # "204" /\ Logged(e) # {}
  PROVE  Deliveries!Next
<1> DEFINE Told(e) == IF reply[e] = "204" THEN "done" ELSE "none"
<1>1. \A e \in Events : Told(e)' # Told(e) => Told(e) = "none" /\ Cardinality(Logged(e)) > 0
  BY LoggedIsBounded
<1>2. \A e \in Events : Told(e)' \in Deliveries!Words \cup {"none"}
  BY DEF Deliveries!Words
<1>3. Deliveries!Report
  BY <1>1, <1>2 DEF Deliveries!Report, Logged
<1> QED BY <1>3 DEF Deliveries!Next

LEMMA HookStepsAreDeliveries ==
  ASSUME HookInv, HookNext \/ UNCHANGED hookVars
  PROVE  Deliveries!Next
<1> USE DEF HookInv
<1>0. \A r \in Requests : r[1] \in Events
  BY DEF Requests
<1>1. ASSUME NEW r \in Requests, Send(r) \/ GiveUp(r) \/ Fail(r) PROVE Deliveries!Next
  <2>1. UNCHANGED <<receipts, reply>>
    BY <1>1 DEF Send, GiveUp, Fail
  <2> QED BY <2>1, RepliesAreReports
<1>2. ASSUME NEW r \in Requests, do_POST(r) PROVE Deliveries!Next
  <2>1. CASE Refused(r)
    <3>1. receipts' = receipts
      BY <2>1 DEF Refused
    <3>2. \/ reply' = [reply EXCEPT ![r[1]] = VerdictOf[r[1]]] /\ listening[r]
          \/ reply' = reply
      BY <2>1 DEF Refused, _reply
    <3>3. VerdictOf[r[1]] # "204" /\ (listening[r] => reply[r[1]] # "204")
      BY <1>0, HookAssumption DEF Verdicts
    <3>4. \A e \in Events : (reply'[e] = "204") = (reply[e] = "204")
      BY <3>2, <3>3
    <3> QED BY <3>1, <3>4, RepliesAreReports
  <2>2. CASE thread[r] = "reading" /\ VerdictOf[r[1]] = "admitted"
    BY <1>2, <2>2, AppendsHappen DEF do_POST, Refused
  <2>3. CASE thread[r] = "appended"
    <3>1. /\ UNCHANGED receipts /\ r \in Logged(r[1])
          /\ \/ reply' = [reply EXCEPT ![r[1]] = "204"] /\ listening[r]
             \/ reply' = reply
      BY <1>2, <2>3 DEF do_POST, Refused, _reply, Logged, RequestsOf
    <3>2. listening[r] => reply[r[1]] # "204"
      OBVIOUS
    <3>3. \A e \in Events : (reply'[e] = "204") # (reply[e] = "204") =>
             reply[e] # "204" /\ Logged(e) # {}
      BY <3>1, <3>2
    <3> QED BY <3>1, <3>3, RepliesAreReports
  <2> QED BY <1>2, <2>1, <2>2, <2>3 DEF do_POST
<1>3. CASE Stop \/ UNCHANGED hookVars
  <2>1. UNCHANGED <<receipts, reply>>
    BY <1>3 DEF Stop, hookVars
  <2> QED BY <2>1, RepliesAreReports
<1> QED BY <1>1, <1>2, <1>3 DEF HookNext

(* The receiver implements delivery at least once, for any events, requests *)
(* that overlap, lost replies, failing threads and stops: an event whose    *)
(* 204 arrived is in the ledger, each request logs it at most once, and one *)
(* that the checks reject never gets there (server.py 44-58, 66). *)
THEOREM EventsAreDelivered == HookSpec => DeliveredAtLeastOnce
<1>1. HookInit => HookInv
  BY HookInvInitially
<1>2. ASSUME HookInit PROVE Deliveries!Init
  <2>1. \A e \in Events : Cardinality(Logged(e)) = 0 /\ reply[e] = "none"
    <3>1. \A e \in Events : Logged(e) = {}
      BY <1>2 DEF HookInit, Logged
    <3> QED BY <1>2, <3>1, FS_EmptySet DEF HookInit
  <2> QED BY <2>1 DEF Deliveries!Init, Logged
<1>3. HookInv /\ [HookNext]_hookVars => HookInv'
  BY HookInvSteps
<1>4. HookInv /\ [HookNext]_hookVars => [Deliveries!Next]_Deliveries!vars
  BY HookStepsAreDeliveries
<1> QED BY <1>1, <1>2, <1>3, <1>4, PTL DEF HookSpec, DeliveredAtLeastOnce, Deliveries!SafeSpec

-------------------------------------------------------------------------------
(* A row is held by a transaction that works at its job or by the sweep, *)
(* and what the sweep holds is running. *)
RowsAreHeld ==
  /\ DOMAIN txn = Sessions /\ DOMAIN job_status = Jobs
  /\ lock \in [Jobs -> Sessions \cup {"free", "sweep"}]
  /\ \A s \in Sessions : txn[s] # NoTxn => txn[s].status \in Given
  /\ \A j \in Jobs :
       /\ lock[j] \in Sessions => JobOf[lock[j]] = j /\ txn[lock[j]] # NoTxn
       /\ lock[j] = "sweep" => job_status[j] = "running"

(* A step of a worker's transaction, seen from the rows. *)
LEMMA CommitKeepsRows ==
  ASSUME RowsAreHeld, NEW s \in Sessions, Commit(s)
  PROVE  /\ RowsAreHeld'
         /\ \A j \in Jobs : job_status'[j] = "stale" => job_status[j] \in {"running", "stale"}
<1> USE JobsAssumption DEF RowsAreHeld
<1> DEFINE k == JobOf[s]
<1>1. /\ k \in Jobs /\ lock[k] = s
      /\ job_status' = [job_status EXCEPT ![k] = txn[s].status]
      /\ txn' = [txn EXCEPT ![s] = NoTxn]
      /\ lock' = [lock EXCEPT ![k] = "free"]
  BY DEF Commit
<1>2. txn[s].status \in Given
  BY <1>1
<1>3. \A j \in Jobs \ {k} : lock'[j] = lock[j] /\ job_status'[j] = job_status[j]
  BY <1>1
<1>4. lock'[k] = "free" /\ job_status'[k] \in Given
  BY <1>1, <1>2
<1>5. \A u \in Sessions : txn'[u] = IF u = s THEN NoTxn ELSE txn[u]
  BY <1>1
<1>6. lock' \in [Jobs -> Sessions \cup {"free", "sweep"}] /\ DOMAIN txn' = Sessions
      /\ DOMAIN job_status' = Jobs
  BY <1>1
<1>7. \A j \in Jobs \ {k} : lock[j] # s
  BY <1>1
<1>8. \A j \in Jobs : /\ lock'[j] \in Sessions => JobOf[lock'[j]] = j /\ txn'[lock'[j]] # NoTxn
                      /\ lock'[j] = "sweep" => job_status'[j] = "running"
  BY <1>3, <1>4, <1>5, <1>7
<1>9. \A u \in Sessions : txn'[u] # NoTxn => txn'[u].status \in Given
  BY <1>5
<1>10. \A j \in Jobs : job_status'[j] = "stale" => job_status[j] \in {"running", "stale"}
  BY <1>3, <1>4 DEF Given
<1> QED BY <1>6, <1>8, <1>9, <1>10

LEMMA TransactionKeepsRows ==
  ASSUME RowsAreHeld, NEW s \in Sessions, Take(s) \/ \E status \in Given : Begin(s, status)
  PROVE  RowsAreHeld' /\ UNCHANGED <<clock, job_status, heartbeat_at, snapshot, todo>>
<1> USE JobsAssumption DEF RowsAreHeld
<1>1. ASSUME NEW status \in Given, Begin(s, status) PROVE RowsAreHeld'
  <2>1. txn[s] = NoTxn /\ txn' = [txn EXCEPT ![s] = [at |-> clock, status |-> status]]
        /\ UNCHANGED <<lock, job_status>>
    BY <1>1 DEF Begin
  <2>2. \A u \in Sessions : txn'[u] = IF u = s THEN [at |-> clock, status |-> status] ELSE txn[u]
    BY <2>1
  <2>3. \A j \in Jobs : lock[j] # s
    BY <2>1
  <2>4. DOMAIN txn' = Sessions
    BY <2>1
  <2>5. \A u \in Sessions : txn'[u] # NoTxn => txn'[u].status \in Given
    BY <2>2
  <2>6. \A j \in Jobs : lock[j] \in Sessions => txn'[lock[j]] = txn[lock[j]]
    BY <2>2, <2>3
  <2> QED BY <2>1, <2>4, <2>5, <2>6
<1>2. ASSUME Take(s) PROVE RowsAreHeld'
  <2> DEFINE k == JobOf[s]
  <2>1. k \in Jobs /\ txn[s] # NoTxn /\ lock[k] = "free" /\ UNCHANGED job_status
    BY <1>2 DEF Take
  <2>2. CASE lock' = [lock EXCEPT ![k] = s] /\ UNCHANGED txn
    <3>1. lock' \in [Jobs -> Sessions \cup {"free", "sweep"}]
      BY <2>1, <2>2
    <3>2. \A j \in Jobs : lock'[j] = IF j = k THEN s ELSE lock[j]
      BY <2>1, <2>2
    <3> QED BY <2>1, <2>2, <3>1, <3>2
  <2>3. CASE txn' = [txn EXCEPT ![s] = NoTxn] /\ UNCHANGED lock
    <3>1. \A u \in Sessions : txn'[u] = IF u = s THEN NoTxn ELSE txn[u]
      BY <2>3
    <3>2. \A j \in Jobs : lock[j] # s
      BY <2>1
    <3> QED BY <2>1, <2>3, <3>1, <3>2
  <2> QED BY <1>2, <2>2, <2>3 DEF Take
<1> QED BY <1>1, <1>2 DEF Begin, Take

LEMMA RowsStayHeld ==
  ASSUME RowsAreHeld, JobsNext \/ UNCHANGED jobVars
  PROVE  /\ RowsAreHeld'
         /\ \A j \in Jobs : job_status'[j] = "stale" => job_status[j] \in {"running", "stale"}
<1> USE JobsAssumption DEF RowsAreHeld
<1> DEFINE Goal == /\ RowsAreHeld'
                   /\ \A j \in Jobs : job_status'[j] = "stale" => job_status[j] \in {"running", "stale"}
<1>1. CASE Tick
  BY <1>1 DEF Tick
<1>2. CASE jobs_mark_stale
  BY <1>2 DEF jobs_mark_stale
<1>3. CASE SweepEnds
  <2>1. /\ UNCHANGED txn /\ DOMAIN job_status' = Jobs
        /\ lock' = [j \in Jobs |-> IF lock[j] = "sweep" THEN "free" ELSE lock[j]]
        /\ \A j \in Jobs : job_status'[j] = IF lock[j] = "sweep" THEN "stale" ELSE job_status[j]
    BY <1>3 DEF SweepEnds
  <2>2. lock' \in [Jobs -> Sessions \cup {"free", "sweep"}]
    BY <2>1
  <2>3. \A j \in Jobs : /\ lock'[j] # "sweep"
                        /\ lock'[j] \in Sessions => lock'[j] = lock[j]
    BY <2>1
  <2> QED BY <2>1, <2>2, <2>3
<1>4. ASSUME NEW j \in Jobs, Update(j) PROVE Goal
  <2>1. lock[j] = "free" /\ UNCHANGED <<txn, job_status>>
    BY <1>4 DEF Update
  <2>2. lock' = lock \/ (lock' = [lock EXCEPT ![j] = "sweep"] /\ job_status[j] = "running")
    BY <1>4 DEF Update, Silent
  <2> QED BY <2>1, <2>2
<1>5. ASSUME NEW s \in Sessions, Commit(s) PROVE Goal
  BY <1>5, CommitKeepsRows
<1>6. ASSUME NEW s \in Sessions, Take(s) \/ \E status \in Given : Begin(s, status) PROVE Goal
  <2>1. RowsAreHeld' /\ UNCHANGED job_status
    BY <1>6, TransactionKeepsRows
  <2> QED BY <2>1
<1>7. CASE UNCHANGED jobVars
  BY <1>7 DEF jobVars
<1> QED BY <1>1, <1>2, <1>3, <1>4, <1>5, <1>6, <1>7 DEF JobsNext, Sweep

(* A job that ended is never made stale, for any jobs, workers and silence  *)
(* (routines.sql 205-220).                                                  *)
THEOREM EndedJobsStayEnded == JobsSpec => EndedStaysEnded
<1>1. JobsInit => RowsAreHeld
  BY JobsAssumption DEF JobsInit, RowsAreHeld
<1>2. RowsAreHeld /\ [JobsNext]_jobVars => RowsAreHeld'
  BY RowsStayHeld
<1>3. RowsAreHeld /\ [JobsNext]_jobVars =>
        [\A j \in Jobs : job_status'[j] = "stale" => job_status[j] \in {"running", "stale"}]_jobVars
  BY RowsStayHeld
<1> QED BY <1>1, <1>2, <1>3, PTL DEF JobsSpec, EndedStaysEnded

(* What the sweep has locked was silent when the sweep began, and is still  *)
(* so: nobody else writes the row. *)
SweepHolds ==
  /\ clock \in Nat
  /\ snapshot = NoSweep => todo = {}
  /\ \A j \in Jobs : lock[j] = "sweep" =>
       /\ snapshot # NoSweep
       /\ Silent(job_status[j], heartbeat_at[j], snapshot.seen[OwnerOf[j]], snapshot.now)

(* A job becomes stale only when it or its worker was not heard of in time  *)
(* before the sweep began, by the heartbeat its row shows at that moment,   *)
(* whatever committed while the sweep waited (routines.sql 205-220). *)
SweptWereSilent ==
  [][\A j \in Jobs : job_status'[j] = "stale" /\ job_status[j] # "stale" =>
       Silent(job_status[j], heartbeat_at[j], snapshot.seen[OwnerOf[j]], snapshot.now)]_jobVars

LEMMA SweepHoldsSteps ==
  ASSUME RowsAreHeld, SweepHolds, JobsNext \/ UNCHANGED jobVars
  PROVE  /\ SweepHolds'
         /\ \A j \in Jobs : job_status'[j] = "stale" /\ job_status[j] # "stale" =>
              Silent(job_status[j], heartbeat_at[j], snapshot.seen[OwnerOf[j]], snapshot.now)
<1> USE DEF RowsAreHeld, SweepHolds
<1> DEFINE Goal == /\ SweepHolds'
                   /\ \A j \in Jobs : job_status'[j] = "stale" /\ job_status[j] # "stale" =>
                        Silent(job_status[j], heartbeat_at[j], snapshot.seen[OwnerOf[j]], snapshot.now)
<1>1. CASE Tick
  BY <1>1 DEF Tick
<1>2. CASE jobs_mark_stale
  <2>1. \A j \in Jobs : lock[j] # "sweep"
    BY <1>2 DEF jobs_mark_stale
  <2>2. snapshot' # NoSweep
    <3>1. snapshot'.now = clock /\ NoSweep.now = -1
      BY <1>2 DEF jobs_mark_stale, NoSweep
    <3> QED BY <3>1
  <2> QED BY <1>2, <2>1, <2>2 DEF jobs_mark_stale
<1>3. CASE SweepEnds
  BY <1>3 DEF SweepEnds
<1>4. ASSUME NEW j \in Jobs, Update(j) PROVE Goal
  BY <1>4 DEF Update
<1>5. ASSUME NEW s \in Sessions, Commit(s) PROVE Goal
  <2> DEFINE k == JobOf[s]
  <2>1. /\ k \in Jobs /\ lock[k] = s /\ txn[s].status \in Given
        /\ UNCHANGED <<clock, snapshot, todo>>
    BY <1>5, JobsAssumption DEF Commit
  <2>2. /\ lock'[k] = "free" /\ job_status'[k] = txn[s].status
        /\ \A j \in Jobs \ {k} : /\ lock'[j] = lock[j] /\ job_status'[j] = job_status[j]
                                 /\ heartbeat_at'[j] = heartbeat_at[j]
    BY <1>5, <2>1 DEF Commit
  <2>3. job_status'[k] # "stale"
    BY <2>1, <2>2 DEF Given
  <2> QED BY <2>1, <2>2, <2>3
<1>6. ASSUME NEW s \in Sessions, Take(s) \/ \E status \in Given : Begin(s, status) PROVE Goal
  <2>1. UNCHANGED <<clock, job_status, heartbeat_at, snapshot, todo>>
    BY <1>6, TransactionKeepsRows
  <2>2. \A j \in Jobs : lock'[j] = "sweep" => lock[j] = "sweep"
    BY <1>6, JobsAssumption DEF Take, Begin
  <2> QED BY <2>1, <2>2
<1>7. CASE UNCHANGED jobVars
  BY <1>7 DEF jobVars
<1> QED BY <1>1, <1>2, <1>3, <1>4, <1>5, <1>6, <1>7 DEF JobsNext, Sweep

(* For any jobs, workers and silences, the sweep takes no job that beats.   *)
THEOREM SweptJobsWereSilent == JobsSpec => SweptWereSilent
<1>1. JobsInit => RowsAreHeld /\ SweepHolds
  BY JobsAssumption DEF JobsInit, RowsAreHeld, SweepHolds
<1>2. RowsAreHeld /\ SweepHolds /\ [JobsNext]_jobVars => RowsAreHeld' /\ SweepHolds'
  BY RowsStayHeld, SweepHoldsSteps
<1>3. RowsAreHeld /\ SweepHolds /\ [JobsNext]_jobVars =>
        [\A j \in Jobs : job_status'[j] = "stale" /\ job_status[j] # "stale" =>
           Silent(job_status[j], heartbeat_at[j], snapshot.seen[OwnerOf[j]], snapshot.now)]_jobVars
  BY SweepHoldsSteps
<1> QED BY <1>1, <1>2, <1>3, PTL DEF JobsSpec, SweptWereSilent

-------------------------------------------------------------------------------
(* The merge takes each field from the strongest source that says something. *)
LEMMA ResolvedIsAsGiven ==
  ASSUME NEW f \in Field
  PROVE  \/ /\ \A s \in Source : ~Says(s, f)
            /\ Resolved[f] = Default[f]
         \/ \E s \in Source :
              /\ Says(s, f) /\ Resolved[f] = given[s][f]
              /\ \A r \in Source : Says(r, f) => ~Outranks(r, s)
<1>1. \A s : Provided(s)[f] = IF Says(s, f) THEN given[s][f] ELSE Absent
  BY DEF Provided, Says, Absent
<1>2. Resolved[f] =
        IF Says("env_settings", f) THEN given["env_settings"][f]
        ELSE IF Says("_BareEnvSource", f) THEN given["_BareEnvSource"][f]
        ELSE IF Says("dotenv_settings", f) THEN given["dotenv_settings"][f]
        ELSE Default[f]
  <2> DEFINE bare == deep_update(Provided("_BareEnvSource"), Provided("env_settings"))
             dot == deep_update(Provided("dotenv_settings"), bare)
  <2>1. \A s : Says(s, f) => given[s][f] # Absent
    BY DEF Says
  <2>2. bare[f] = IF Provided("env_settings")[f] # Absent
                  THEN Provided("env_settings")[f] ELSE Provided("_BareEnvSource")[f]
    BY DEF deep_update
  <2>3. dot[f] = IF bare[f] # Absent THEN bare[f] ELSE Provided("dotenv_settings")[f]
    BY DEF deep_update
  <2>4. Resolved[f] = IF dot[f] # Absent THEN dot[f] ELSE Default[f]
    BY DEF deep_update, Resolved
  <2> QED
    BY <1>1, <2>1, <2>2, <2>3, <2>4
<1> QED
  BY <1>2 DEF Source, Outranks

(* Whatever the sources hold and in whatever order it was put there, every  *)
(* admitted field is that of the strongest source that gives it something,  *)
(* and the docker daemon is the one these fields name (settings.py 382-398, *)
(* 428-457, 460-469).                                                       *)
THEOREM SettingsReachWhatIsGiven == SettingsSpec => []ReachedIsAsGiven
<1>1. SettingsInit => ReachedIsAsGiven
  BY DEF SettingsInit, NotYet, ReachedIsAsGiven
<1>2. ReachedIsAsGiven /\ [SettingsNext]_settingsVars => ReachedIsAsGiven'
  <2> SUFFICES ASSUME ReachedIsAsGiven, SettingsNext \/ UNCHANGED settingsVars
               PROVE  ReachedIsAsGiven'
    OBVIOUS
  <2>1. CASE UNCHANGED settingsVars
    BY <2>1 DEF settingsVars, ReachedIsAsGiven, Says
  <2>2. CASE \E source \in Source, f \in Field : \E value \in Domain[f] : Put(source, f, value)
    BY <2>2 DEF Put, ReachedIsAsGiven
  <2>3. ASSUME NEW provided, NEW lanes, settings(provided, lanes)
        PROVE  ReachedIsAsGiven'
    <3>1. CASE config' = NotYet("rejected")
      BY <3>1 DEF NotYet, ReachedIsAsGiven
    <3>2. CASE config' # NotYet("rejected")
      <4>1. /\ config' = [tag |-> "admitted", row |-> Resolved]
            /\ _require_prd_rows(Resolved) /\ given' = given
        BY <2>3, <3>2 DEF settings
      <4>2. config'.row = Resolved
        BY <4>1
      <4>3. \A f \in Field :
              \/ /\ \A s \in Source : ~Says(s, f)
                 /\ Resolved[f] = Default[f]
              \/ \E s \in Source :
                   /\ Says(s, f) /\ Resolved[f] = given[s][f]
                   /\ \A r \in Source : Says(r, f) => ~Outranks(r, s)
        BY ResolvedIsAsGiven
      <4>4. ASSUME Resolved.stage = "prd"
            PROVE  /\ docker_host(Resolved)[1] = "ssh"
                   /\ \E s \in Source : Says(s, "user") /\ docker_host(Resolved)[2] = given[s]["user"]
                   /\ \E s \in Source : Says(s, "host") /\ docker_host(Resolved)[3] = given[s]["host"]
        <5>1. docker_host(Resolved) = <<"ssh", Resolved.user, Resolved.host>>
          BY <4>4 DEF docker_host
        <5>2. Resolved["user"] # Default["user"] /\ Resolved["host"] # Default["host"]
          BY <4>1, <4>4 DEF _require_prd_rows, Default
        <5>3. "user" \in Field /\ "host" \in Field
          BY DEF Field
        <5>4. /\ \E s \in Source : Says(s, "user") /\ Resolved["user"] = given[s]["user"]
              /\ \E s \in Source : Says(s, "host") /\ Resolved["host"] = given[s]["host"]
          BY <4>3, <5>2, <5>3
        <5> QED
          BY <5>1, <5>4
      <4>5. Resolved.stage # "prd" => docker_host(Resolved) = <<Resolved.docker_host>>
        BY DEF docker_host
      <4> HIDE DEF Says
      <4>6. \A s, f : Says(s, f)' <=> Says(s, f)
        BY <4>1 DEF Says
      <4> QED
        BY <4>1, <4>2, <4>3, <4>4, <4>5, <4>6 DEF ReachedIsAsGiven
    <3> QED
      BY <3>1, <3>2
  <2> QED
    BY <2>1, <2>2, <2>3 DEF SettingsNext
<1> QED
  BY <1>1, <1>2, PTL DEF SettingsSpec

-------------------------------------------------------------------------------
(* The foreign keys, and a tally that has counted every row once. *)
KeysHold ==
  /\ domain \subseteq Domains
  /\ concept \in [Concepts -> domain \cup {NoDomain}]
  /\ embedded \subseteq Existing
  /\ evidence \subseteq Existing \X Uris

TallyIsCount ==
  /\ tally \in [Domains -> [concept_count : Int, embedded_count : Int]]
  /\ \A d \in Domains :
       /\ tally[d].concept_count = Cardinality(InDomain(d))
       /\ tally[d].embedded_count = Cardinality(embedded \cap InDomain(d))

TablesInv == KeysHold /\ TallyIsCount

LEMMA TablesInvInitially == ASSUME TablesInit PROVE TablesInv
<1>1. KeysHold
  BY DEF TablesInit, KeysHold, Existing
<1>2. \A d \in Domains : InDomain(d) = {}
  BY TablesAssumption DEF TablesInit, InDomain
<1>3. TallyIsCount
  BY <1>2, FS_EmptySet DEF TablesInit, TallyIsCount
<1> QED BY <1>1, <1>3 DEF TablesInv

(* What one concept adds to the counts of a set of concepts it joins. *)
LEMMA CountJoined ==
  ASSUME NEW S \in SUBSET Concepts, NEW c \in Concepts, c \notin S
  PROVE  /\ Cardinality(S) \in Nat
         /\ Cardinality(S \cup {c}) = Cardinality(S) + 1
<1>1. IsFiniteSet(S)
  BY TablesAssumption, FS_Subset
<1> QED BY <1>1, FS_AddElement, FS_CardinalityType

LEMMA CountLeft ==
  ASSUME NEW S \in SUBSET Concepts, NEW c \in Concepts, c \in S
  PROVE  /\ Cardinality(S) \in Nat
         /\ Cardinality(S \ {c}) = Cardinality(S) - 1
<1>1. IsFiniteSet(S)
  BY TablesAssumption, FS_Subset
<1> QED BY <1>1, FS_RemoveElement, FS_CardinalityType

LEMMA KeysAreKept ==
  ASSUME KeysHold, TablesNext \/ UNCHANGED tableVars PROVE KeysHold'
<1> USE TablesAssumption DEF KeysHold, Existing
<1>1. ASSUME NEW d \in Domains, InsertDomain(d) PROVE KeysHold'
  BY <1>1 DEF InsertDomain
<1>2. ASSUME NEW d \in Domains, DeleteDomain(d) PROVE KeysHold'
  BY <1>2 DEF DeleteDomain, InDomain
<1>3. ASSUME NEW c \in Concepts, NEW d \in Domains, InsertConcept(c, d) PROVE KeysHold'
  BY <1>3 DEF InsertConcept
<1>4. ASSUME NEW c \in Concepts, NEW d \in Domains, Move(c, d) PROVE KeysHold'
  BY <1>4 DEF Move
<1>5. ASSUME NEW c \in Concepts, DeleteConcept(c) PROVE KeysHold'
  <2>1. \A b \in Existing : b # c => b \in Existing'
    BY <1>5 DEF DeleteConcept
  <2>2. evidence' \subseteq Existing' \X Uris
    BY <1>5, <2>1 DEF DeleteConcept
  <2> QED BY <1>5, <2>1, <2>2 DEF DeleteConcept
<1>6. ASSUME NEW c \in Concepts, Embed(c) PROVE KeysHold'
  BY <1>6 DEF Embed
<1>7. ASSUME NEW c \in Concepts, NEW u \in Uris, Cite(c, u) PROVE KeysHold'
  BY <1>7 DEF Cite
<1>8. CASE UNCHANGED tableVars
  BY <1>8 DEF tableVars
<1> QED BY <1>1, <1>2, <1>3, <1>4, <1>5, <1>6, <1>7, <1>8 DEF TablesNext

LEMMA TallyIsKept ==
  ASSUME TablesInv, TablesNext \/ UNCHANGED tableVars PROVE TallyIsCount'
<1> USE TablesAssumption DEF TablesInv
<1>1. \A d : InDomain(d) \in SUBSET Concepts /\ embedded \cap InDomain(d) \in SUBSET Concepts
  BY DEF InDomain
<1>2. \A c \in embedded : concept[c] # NoDomain
  BY DEF KeysHold, Existing
<1>3. ASSUME UNCHANGED <<concept, embedded, tally>> PROVE TallyIsCount'
  BY <1>3 DEF TallyIsCount, InDomain
<1>4. ASSUME NEW c \in Concepts, NEW d \in Domains, InsertConcept(c, d) PROVE TallyIsCount'
  <2>1. InDomain(d)' = InDomain(d) \cup {c} /\ c \notin InDomain(d)
    BY <1>4 DEF InsertConcept, InDomain, KeysHold
  <2>2. \A e \in Domains : e # d => InDomain(e)' = InDomain(e)
    BY <1>4 DEF InsertConcept, InDomain, KeysHold
  <2>3. c \notin embedded /\ embedded' = embedded
    BY <1>2, <1>4 DEF InsertConcept
  <2>4. (embedded \cap InDomain(d))' = embedded \cap InDomain(d)
    BY <2>1, <2>3
  <2>5. Cardinality(InDomain(d)') = Cardinality(InDomain(d)) + 1
    BY <1>1, <2>1, CountJoined
  <2>6. tally' = [tally EXCEPT ![d] = [concept_count |-> tally[d].concept_count + 1,
                                       embedded_count |-> tally[d].embedded_count + 0]]
    BY <1>4 DEF InsertConcept, Counted
  <2>7. tally' \in [Domains -> [concept_count : Int, embedded_count : Int]]
    BY <2>6 DEF TallyIsCount
  <2>8. /\ tally'[d].concept_count = Cardinality(InDomain(d)')
        /\ tally'[d].embedded_count = Cardinality((embedded \cap InDomain(d))')
    BY <2>4, <2>5, <2>6 DEF TallyIsCount
  <2>9. ASSUME NEW e \in Domains, e # d
        PROVE  /\ tally'[e].concept_count = Cardinality(InDomain(e)')
               /\ tally'[e].embedded_count = Cardinality((embedded \cap InDomain(e))')
    BY <2>2, <2>3, <2>6, <2>9 DEF TallyIsCount
  <2> QED BY <2>7, <2>8, <2>9 DEF TallyIsCount
<1>5. ASSUME NEW c \in Concepts, NEW d \in Domains, Move(c, d) PROVE TallyIsCount'
  <2> PICK old \in Domains : old = concept[c]
    BY <1>5 DEF Move, KeysHold
  <2>1. /\ old # d
        /\ concept' = [concept EXCEPT ![c] = d] /\ embedded' = embedded
    BY <1>5 DEF Move, KeysHold
  <2>2. /\ InDomain(d)' = InDomain(d) \cup {c} /\ c \notin InDomain(d)
        /\ InDomain(old)' = InDomain(old) \ {c} /\ c \in InDomain(old)
        /\ \A e \in Domains \ {d, old} : InDomain(e)' = InDomain(e)
    BY <2>1 DEF InDomain, KeysHold
  <2>3. /\ Cardinality(InDomain(d)') = Cardinality(InDomain(d)) + 1
        /\ Cardinality(InDomain(old)') = Cardinality(InDomain(old)) - 1
    BY <1>1, <2>2, CountJoined, CountLeft
  <2>4. /\ Cardinality((embedded \cap InDomain(d))') = Cardinality(embedded \cap InDomain(d)) + IsEmbedded(c)
        /\ Cardinality((embedded \cap InDomain(old))') = Cardinality(embedded \cap InDomain(old)) - IsEmbedded(c)
    <3>1. CASE c \in embedded
      <4>1. /\ (embedded \cap InDomain(d))' = (embedded \cap InDomain(d)) \cup {c}
            /\ (embedded \cap InDomain(old))' = (embedded \cap InDomain(old)) \ {c}
        BY <2>1, <2>2, <3>1
      <4>2. c \notin embedded \cap InDomain(d) /\ c \in embedded \cap InDomain(old)
        BY <2>2, <3>1
      <4> QED BY <1>1, <3>1, <4>1, <4>2, CountJoined, CountLeft DEF IsEmbedded
    <3>2. CASE c \notin embedded
      <4>1. /\ (embedded \cap InDomain(d))' = embedded \cap InDomain(d)
            /\ (embedded \cap InDomain(old))' = embedded \cap InDomain(old)
        BY <2>1, <2>2, <3>2
      <4> QED BY <2>1, <3>2, <4>1 DEF IsEmbedded, TallyIsCount
    <3> QED BY <3>1, <3>2
  <2>5. IsEmbedded(c) \in Int
    BY DEF IsEmbedded
  <2>6. tally' = [Counted(d, 1, IsEmbedded(c)) EXCEPT
                    ![old] = [concept_count |-> @.concept_count - 1,
                              embedded_count |-> @.embedded_count - IsEmbedded(c)]]
    BY <1>5 DEF Move
  <2>7. /\ tally' \in [Domains -> [concept_count : Int, embedded_count : Int]]
        /\ tally'[d] = [concept_count |-> tally[d].concept_count + 1,
                        embedded_count |-> tally[d].embedded_count + IsEmbedded(c)]
        /\ tally'[old] = [concept_count |-> tally[old].concept_count - 1,
                          embedded_count |-> tally[old].embedded_count - IsEmbedded(c)]
        /\ \A e \in Domains \ {d, old} : tally'[e] = tally[e]
    BY <2>1, <2>5, <2>6 DEF Counted, TallyIsCount
  <2>8. /\ tally'[d].concept_count = Cardinality(InDomain(d)')
        /\ tally'[d].embedded_count = Cardinality((embedded \cap InDomain(d))')
        /\ tally'[old].concept_count = Cardinality(InDomain(old)')
        /\ tally'[old].embedded_count = Cardinality((embedded \cap InDomain(old))')
    BY <2>1, <2>3, <2>4, <2>7 DEF TallyIsCount
  <2>9. ASSUME NEW e \in Domains \ {d, old}
        PROVE  /\ tally'[e].concept_count = Cardinality(InDomain(e)')
               /\ tally'[e].embedded_count = Cardinality((embedded \cap InDomain(e))')
    BY <2>1, <2>2, <2>7 DEF TallyIsCount
  <2> QED BY <2>7, <2>8, <2>9 DEF TallyIsCount
<1>6. ASSUME NEW c \in Concepts, DeleteConcept(c) PROVE TallyIsCount'
  <2> PICK old \in Domains : old = concept[c]
    BY <1>6 DEF DeleteConcept, KeysHold, Existing
  <2>1. /\ concept' = [concept EXCEPT ![c] = NoDomain] /\ embedded' = embedded \ {c}
    BY <1>6 DEF DeleteConcept, KeysHold, Existing
  <2>2. /\ InDomain(old)' = InDomain(old) \ {c} /\ c \in InDomain(old)
        /\ \A e \in Domains \ {old} : InDomain(e)' = InDomain(e) /\ c \notin InDomain(e)
    BY <2>1 DEF InDomain, KeysHold
  <2>3. Cardinality(InDomain(old)') = Cardinality(InDomain(old)) - 1
    BY <1>1, <2>2, CountLeft
  <2>4. Cardinality((embedded \cap InDomain(old))') = Cardinality(embedded \cap InDomain(old)) - IsEmbedded(c)
    <3>1. CASE c \in embedded
      <4>1. (embedded \cap InDomain(old))' = (embedded \cap InDomain(old)) \ {c}
        BY <2>1, <2>2, <3>1
      <4> QED BY <1>1, <2>2, <3>1, <4>1, CountLeft DEF IsEmbedded
    <3>2. CASE c \notin embedded
      <4>1. (embedded \cap InDomain(old))' = embedded \cap InDomain(old)
        BY <2>1, <2>2, <3>2
      <4> QED BY <2>1, <3>2, <4>1 DEF IsEmbedded, TallyIsCount
    <3> QED BY <3>1, <3>2
  <2>5. IsEmbedded(c) \in Int
    BY DEF IsEmbedded
  <2>6. /\ tally' \in [Domains -> [concept_count : Int, embedded_count : Int]]
        /\ tally'[old] = [concept_count |-> tally[old].concept_count + (-1),
                          embedded_count |-> tally[old].embedded_count + (-IsEmbedded(c))]
        /\ \A e \in Domains \ {old} : tally'[e] = tally[e]
    BY <1>6, <2>1, <2>5 DEF DeleteConcept, Counted, TallyIsCount
  <2>7. /\ tally'[old].concept_count = Cardinality(InDomain(old)')
        /\ tally'[old].embedded_count = Cardinality((embedded \cap InDomain(old))')
    BY <2>1, <2>3, <2>4, <2>5, <2>6 DEF TallyIsCount
  <2>8. ASSUME NEW e \in Domains \ {old}
        PROVE  /\ tally'[e].concept_count = Cardinality(InDomain(e)')
               /\ tally'[e].embedded_count = Cardinality((embedded \cap InDomain(e))')
    <3>1. (embedded \cap InDomain(e))' = embedded \cap InDomain(e)
      BY <2>1, <2>2
    <3> QED BY <2>2, <2>6, <3>1 DEF TallyIsCount
  <2> QED BY <2>6, <2>7, <2>8 DEF TallyIsCount
<1>7. ASSUME NEW c \in Concepts, Embed(c) PROVE TallyIsCount'
  <2> PICK d \in Domains : d = concept[c]
    BY <1>7 DEF Embed, KeysHold, Existing
  <2>1. /\ c \in InDomain(d) /\ c \notin embedded
        /\ embedded' = embedded \cup {c}
        /\ \A e : InDomain(e)' = InDomain(e)
    BY <1>7 DEF Embed, KeysHold, Existing, InDomain
  <2>2. Cardinality((embedded \cap InDomain(d))') = Cardinality(embedded \cap InDomain(d)) + 1
    <3>1. (embedded \cap InDomain(d))' = (embedded \cap InDomain(d)) \cup {c}
      BY <2>1
    <3> QED BY <1>1, <2>1, <3>1, CountJoined
  <2>3. /\ tally' \in [Domains -> [concept_count : Int, embedded_count : Int]]
        /\ tally'[d] = [concept_count |-> tally[d].concept_count + 0,
                        embedded_count |-> tally[d].embedded_count + 1]
        /\ \A e \in Domains \ {d} : tally'[e] = tally[e]
    BY <1>7, <2>1 DEF Embed, Counted, TallyIsCount
  <2>4. /\ tally'[d].concept_count = Cardinality(InDomain(d)')
        /\ tally'[d].embedded_count = Cardinality((embedded \cap InDomain(d))')
    BY <2>1, <2>2, <2>3 DEF TallyIsCount
  <2>5. ASSUME NEW e \in Domains \ {d}
        PROVE  /\ tally'[e].concept_count = Cardinality(InDomain(e)')
               /\ tally'[e].embedded_count = Cardinality((embedded \cap InDomain(e))')
    <3>1. (embedded \cap InDomain(e))' = embedded \cap InDomain(e)
      BY <2>1 DEF InDomain
    <3> QED BY <2>1, <2>3, <3>1 DEF TallyIsCount
  <2> QED BY <2>3, <2>4, <2>5 DEF TallyIsCount
<1>8. CASE UNCHANGED tableVars
  BY <1>3, <1>8 DEF tableVars
<1>9. ASSUME NEW d \in Domains, InsertDomain(d) \/ DeleteDomain(d) PROVE TallyIsCount'
  BY <1>3, <1>9 DEF InsertDomain, DeleteDomain
<1>10. ASSUME NEW c \in Concepts, NEW u \in Uris, Cite(c, u) PROVE TallyIsCount'
  BY <1>3, <1>10 DEF Cite
<1> QED BY <1>4, <1>5, <1>6, <1>7, <1>8, <1>9, <1>10 DEF TablesNext

(* The pairs with a null side stand for the concepts without evidence. *)
LEMMA NullsAreGaps ==
  ASSUME KeysHold, NEW d \in domain
  PROVE  /\ {r \in JoinEvidence(d) : r[2] = NoUri} = {<<c, NoUri>> : c \in unsupported_concept \cap InDomain(d)}
         /\ NEXT(d).unevidenced = Cardinality(unsupported_concept \cap InDomain(d))
<1> DEFINE gaps == unsupported_concept \cap InDomain(d)
           nulls == {<<c, NoUri>> : c \in gaps}
<1>1. \A c \in Concepts : <<c, NoUri>> \notin evidence
  BY TablesAssumption DEF KeysHold
<1>2. \A c \in InDomain(d) : c \in Existing
  BY TablesAssumption DEF InDomain, Existing, KeysHold
<1>3. ASSUME NEW r \in JoinEvidence(d), r[2] = NoUri PROVE r \in nulls
  <2>1. r[1] \in InDomain(d) /\ r = <<r[1], NoUri>> /\ r[1] \in Concepts
    BY <1>3 DEF JoinEvidence, InDomain
  <2>2. r \notin evidence
    BY <1>1, <2>1
  <2>3. \A u \in Uris : <<r[1], u>> \notin evidence
    BY <1>3, <2>2 DEF JoinEvidence
  <2> QED BY <1>2, <2>1, <2>3 DEF unsupported_concept
<1>4. ASSUME NEW c \in gaps PROVE <<c, NoUri>> \in JoinEvidence(d) /\ <<c, NoUri>>[2] = NoUri
  BY DEF unsupported_concept, JoinEvidence
<1>5. {r \in JoinEvidence(d) : r[2] = NoUri} = nulls
  BY <1>3, <1>4
<1>6. Cardinality(nulls) = Cardinality(gaps)
  <2> DEFINE f == [c \in gaps |-> <<c, NoUri>>]
  <2>1. f \in Bijection(gaps, nulls)
    BY DEF Bijection, Injection, Surjection, IsInjective
  <2>2. IsFiniteSet(gaps)
    <3>1. gaps \in SUBSET Concepts
      BY DEF InDomain
    <3> QED BY <3>1, TablesAssumption, FS_Subset
  <2> QED BY <2>1, <2>2, FS_Bijection DEF ExistsBijection
<1> QED BY <1>5, <1>6 DEF NEXT

(* Every question and the view that answers the same thing agree, for any   *)
(* tables and any writes (rails.py 359-388, routines.sql 351-398).          *)
THEOREM QuestionsAndViewsAgree == TablesSpec => []QuestionsAgree
<1>1. TablesInit => TablesInv
  BY TablesInvInitially
<1>2. TablesInv /\ [TablesNext]_tableVars => TablesInv'
  BY KeysAreKept, TallyIsKept DEF TablesInv
<1>3. TablesInv => QuestionsAgree
  <2> SUFFICES ASSUME TablesInv PROVE QuestionsAgree
    OBVIOUS
  <2>1. \A c \in Existing : c \in Concepts /\ concept[c] \in domain /\ c \in InDomain(concept[c])
    BY TablesAssumption DEF Existing, InDomain, TablesInv, KeysHold
  <2>2. unsupported_concept \subseteq Existing
    BY DEF unsupported_concept
  <2>3. GAPS = unsupported_concept
    <3>1. ASSUME NEW c \in GAPS PROVE c \in unsupported_concept
      <4>1. PICK d \in domain : \E r \in JoinEvidence(d) : r[2] = NoUri /\ c = r[1]
        BY DEF GAPS
      <4>2. PICK r \in JoinEvidence(d) : r[2] = NoUri /\ c = r[1]
        BY <4>1
      <4>3. r \in {<<b, NoUri>> : b \in unsupported_concept \cap InDomain(d)}
        BY <4>2, NullsAreGaps DEF TablesInv
      <4>4. PICK b \in unsupported_concept \cap InDomain(d) : r = <<b, NoUri>>
        BY <4>3
      <4> QED BY <4>2, <4>4
    <3>2. ASSUME NEW c \in unsupported_concept PROVE c \in GAPS
      <4>1. concept[c] \in domain /\ c \in InDomain(concept[c])
        BY <2>1, <2>2
      <4>2. <<c, NoUri>> \in {r \in JoinEvidence(concept[c]) : r[2] = NoUri}
        BY <4>1, NullsAreGaps DEF TablesInv
      <4> QED BY <4>1, <4>2 DEF GAPS
    <3> QED BY <3>1, <3>2
  <2>4. ASSUME NEW d \in domain
        PROVE  /\ COVERAGE(d) = domain_coverage(d).concept_count
               /\ NEXT(d).unevidenced = domain_coverage(d).unsupported_count
               /\ domain_coverage(d).embedded_count = Cardinality(embedded \cap InDomain(d))
    BY NullsAreGaps DEF COVERAGE, domain_coverage, TablesInv, TallyIsCount, KeysHold
  <2> QED BY <2>3, <2>4 DEF QuestionsAgree
<1> QED BY <1>1, <1>2, <1>3, PTL DEF TablesSpec
================================================================================
