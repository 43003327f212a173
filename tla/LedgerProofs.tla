------------------------------- MODULE LedgerProofs -------------------------------
(***************************************************************************)
(* Theorems about the ledger client and the rails that read through it,    *)
(* for any number of queries, slots, attempts, files and extensions.       *)
(***************************************************************************)
EXTENDS DataRails, FaultProofs, FiniteSetTheorems

(* The exceptions a unit ends on, with the tags they become. *)
LEMMA UnitTags ==
  /\ of("TimeoutError") = "deadline"
  /\ of("InterfaceError") = "boundary"
  /\ of("DatabaseError") = "boundary"
  /\ of("TerminalError") = "boundary"
<1>1. DOMAIN CLASSIFY = 1 .. 12
  BY DEF CLASSIFY
<1>2. /\ CLASSIFY[1] = <<{"TimeoutError"}, "deadline">>
      /\ CLASSIFY[2][1] = {"BrokenResourceError", "ConnectionFailed"}
      /\ CLASSIFY[3][1] = {"DecodeError"}
      /\ CLASSIFY[4][1] = {"HintViolation"}
      /\ CLASSIFY[5][1] = {"ImportError"}
      /\ CLASSIFY[6][1] = {"HTTPStatusError"}
      /\ CLASSIFY[7][1] = {"ProcessError", "SFTPError"}
      /\ CLASSIFY[8][1] = {"PermissionDenied"}
      /\ CLASSIFY[9][1] = {"ProtocolError"}
      /\ CLASSIFY[10][1] = {"ConnectionLost", "DisconnectError", "ChannelOpenError"}
      /\ CLASSIFY[11][1] = {"OSError"}
      /\ CLASSIFY[12] = <<{"Exception"}, "boundary">>
  BY DEF CLASSIFY, _WORKER_EXC, _SSH_DENIED, _SSH_PROTOCOL, SSH_TRANSIENT
<1>3. /\ Hierarchy["TimeoutError"] = {"TimeoutError", "OSError", "Exception"}
      /\ Hierarchy["InterfaceError"] = {"InterfaceError", "pg8000.Error", "Exception"}
      /\ Hierarchy["DatabaseError"] = {"DatabaseError", "pg8000.Error", "Exception"}
      /\ Hierarchy["TerminalError"] = {"TerminalError", "Exception"}
  BY DEF Hierarchy
<1>4. of("TimeoutError") = "deadline"
  <2>1. IsInstance("TimeoutError", CLASSIFY[1][1]) /\ 1 \in DOMAIN CLASSIFY
        /\ \A j \in DOMAIN CLASSIFY : j < 1 => ~IsInstance("TimeoutError", CLASSIFY[j][1])
    BY <1>1, <1>2, <1>3 DEF IsInstance
  <2>2. of("TimeoutError") = CLASSIFY[1][2]
    BY <2>1, FirstRowDecides
  <2> QED BY <1>2, <2>2
<1>5. ASSUME NEW cause \in {"InterfaceError", "DatabaseError", "TerminalError"}
      PROVE  of(cause) = "boundary"
  <2>1. \A j \in DOMAIN CLASSIFY : j < 12 => ~IsInstance(cause, CLASSIFY[j][1])
    BY <1>1, <1>2, <1>3 DEF IsInstance
  <2>2. IsInstance(cause, CLASSIFY[12][1]) /\ 12 \in DOMAIN CLASSIFY
    BY <1>1, <1>2, <1>3 DEF IsInstance
  <2> QED BY <1>2, <2>1, <2>2, FirstRowDecides
<1> QED BY <1>4, <1>5

UnitCauses == {"InterfaceError", "TimeoutError", "DatabaseError", "TerminalError"}

(* What was committed, or may yet be, never outnumbers the answers that     *)
(* were lost and the one the client has or is about to have. *)
CommitsInv ==
  /\ step \in [Queries -> Steps] /\ DOMAIN outcome = Queries
  /\ applied \in [Queries -> Nat] /\ lost \in [Queries -> Nat] /\ orphans \in [Queries -> Nat]
  /\ \A q \in Queries : step[q] # "done" => outcome[q] = "none"
  /\ CommitsFollowLosses

LEMMA CommitsInitially == ASSUME QueryInit PROVE CommitsInv
BY DEF QueryInit, CommitsInv, CommitsFollowLosses, Steps

(* A unit that ends on an exception moves its query alone, to a back-off or *)
(* to an outcome that is no value. *)
LEMMA RaisesAreFaults ==
  ASSUME CommitsInv, NEW q \in Queries, NEW cause \in UnitCauses, NEW timely,
         step[q] # "done", Raise(q, cause, timely)
  PROVE  /\ \E s \in {"backoff", "done"} : step' = [step EXCEPT ![q] = s]
         /\ DOMAIN outcome' = Queries /\ outcome'[q] # "ok"
         /\ \A x \in Queries : x # q => outcome'[x] = outcome[x]
         /\ step'[q] # "done" => outcome'[q] = "none"
<1>1. of(cause) \in {"deadline", "boundary"}
  BY UnitTags DEF UnitCauses
<1>2. DOMAIN outcome = Queries /\ outcome[q] = "none" /\ step \in [Queries -> Steps]
  BY DEF CommitsInv
<1> QED BY <1>1, <1>2 DEF Raise

LEMMA CommitsSteps ==
  ASSUME CommitsInv, LedgerNext \/ UNCHANGED queryVars PROVE CommitsInv'
<1> USE DEF CommitsInv, CommitsFollowLosses, Steps
<1>1. ASSUME NEW q \in Queries,
             query(q) \/ Borrow(q) \/ _connect(q) \/ _materialize(q) \/ Again(q)
      PROVE  CommitsInv'
  BY <1>1 DEF query, Borrow, _connect, _materialize, Again
<1>2. ASSUME NEW q \in Queries, Execute(q) PROVE CommitsInv'
  BY <1>2 DEF Execute
<1>3. ASSUME NEW q \in Queries, NEW cause \in {"InterfaceError", "TimeoutError", "DatabaseError"},
             NEW timely, Refuse(q, cause, timely)
      PROVE  CommitsInv'
  BY <1>3, RaisesAreFaults DEF Refuse, UnitCauses
<1>4. ASSUME NEW q \in Queries, NEW state \in SqlStates, NEW timely, Reject(q, state, timely)
      PROVE  CommitsInv'
  <2>1. _classified(state) \in UnitCauses
    BY DEF _classified, UnitCauses
  <2>2. Raise(q, _classified(state), timely) /\ step[q] = "open"
        /\ UNCHANGED <<attempt, applied, lost, orphans>>
    BY <1>4 DEF Reject
  <2>3. step[q] # "done"
    BY <2>2
  <2> HIDE DEF CommitsInv, CommitsFollowLosses
  <2>4. /\ \E s \in {"backoff", "done"} : step' = [step EXCEPT ![q] = s]
        /\ DOMAIN outcome' = Queries /\ outcome'[q] # "ok"
        /\ \A x \in Queries : x # q => outcome'[x] = outcome[x]
        /\ step'[q] # "done" => outcome'[q] = "none"
    BY <2>1, <2>2, <2>3, RaisesAreFaults
  <2> QED BY <2>2, <2>4 DEF CommitsInv, CommitsFollowLosses
<1>5. ASSUME NEW q \in Queries, NEW cause \in {"InterfaceError", "TimeoutError"}, NEW timely,
             Drop(q, cause, timely)
      PROVE  CommitsInv'
  <2>1. /\ \E s \in {"backoff", "done"} : step' = [step EXCEPT ![q] = s]
        /\ DOMAIN outcome' = Queries /\ outcome'[q] # "ok"
        /\ \A x \in Queries : x # q => outcome'[x] = outcome[x]
        /\ step'[q] # "done" => outcome'[q] = "none"
    BY <1>5, RaisesAreFaults DEF Drop, UnitCauses
  <2>2. lost' = [lost EXCEPT ![q] = @ + 1] /\ applied' = applied /\ step[q] \in {"open", "committed"}
    BY <1>5 DEF Drop
  <2>3. \/ orphans' = orphans
        \/ step[q] = "open" /\ orphans' = [orphans EXCEPT ![q] = @ + 1]
    BY <1>5 DEF Drop
  <2> QED BY <2>1, <2>2, <2>3
<1>6. ASSUME NEW q \in Queries, NEW commits \in {0, 1}, LateEnd(q, commits) PROVE CommitsInv'
  BY <1>6 DEF LateEnd
<1>7. CASE UNCHANGED queryVars
  BY <1>7 DEF queryVars
<1> QED BY <1>1, <1>2, <1>3, <1>4, <1>5, <1>6, <1>7 DEF LedgerNext, QueryStep, Server

(* Whatever is answered, lost or finished late, commits follow losses: a    *)
(* statement takes effect more than once only for answers that were lost    *)
(* (db.py 161-200, 237-266).                                                *)
THEOREM CommitsFollowLostAnswers == LedgerSpec => []CommitsFollowLosses
<1>1. QueryInit => CommitsInv
  BY CommitsInitially
<1>2. CommitsInv /\ [LedgerNext]_queryVars => CommitsInv'
  BY CommitsSteps
<1>3. CommitsInv => CommitsFollowLosses
  BY DEF CommitsInv
<1> QED BY <1>1, <1>2, <1>3, PTL DEF LedgerSpec

-------------------------------------------------------------------------------
(* The client implements AtLeastOnce.  An attempt commits at most once, in  *)
(* its time or late, so the commits never outnumber the attempts, and no    *)
(* outcome is known while a query is under way. *)
AttemptsBound ==
  /\ step \in [Queries -> Steps]
  /\ attempt \in [Queries -> 0 .. DbAttempts]
  /\ applied \in [Queries -> Nat] /\ orphans \in [Queries -> Nat]
  /\ DOMAIN outcome = Queries
  /\ \A q \in Queries :
       /\ applied[q] + orphans[q] <= attempt[q]
       /\ step[q] = "idle" => attempt[q] = 0
       /\ step[q] \in {"waiting", "dialing", "open"} => applied[q] + orphans[q] < attempt[q]
       /\ step[q] = "committed" => applied[q] > 0
       /\ step[q] = "backoff" => attempt[q] < DbAttempts
       /\ step[q] # "done" => outcome[q] = "none"

(* One caller hears a word, and no other hears anything. *)
LEMMA OneIsTold ==
  ASSUME NEW q \in Queries, Heard(q) = "none", Heard(q)' \in Statements!Words,
         \A x \in Queries : x # q => Heard(x)' = Heard(x),
         Heard(q)' = "done" => applied[q] > 0, UNCHANGED applied
  PROVE  Statements!Next
<1>1. \A x \in Queries : Heard(x) \in Statements!Words \cup {"none"}
  BY DEF Heard, Statements!Words
<1> QED BY <1>1 DEF Statements!Next, Statements!Report

(* A unit that ends on an exception backs off, or its query fails. *)
LEMMA RaisesFail ==
  ASSUME AttemptsBound, NEW q \in Queries, NEW cause \in UnitCauses, NEW timely,
         step[q] \in {"dialing", "open", "committed"}, Raise(q, cause, timely),
         UNCHANGED <<attempt, applied>>,
         \/ UNCHANGED orphans
         \/ step[q] = "open" /\ orphans' = [orphans EXCEPT ![q] = @ + 1]
  PROVE  /\ AttemptsBound'
         /\ Statements!Next \/ UNCHANGED Statements!vars
<1> USE DEF AttemptsBound
<1>1. CASE step' = [step EXCEPT ![q] = "backoff"] /\ attempt[q] < DbAttempts /\ UNCHANGED outcome
  <2>1. AttemptsBound'
    BY <1>1 DEF Steps
  <2>2. UNCHANGED Statements!vars
    BY <1>1 DEF Statements!vars, Heard
  <2> QED BY <2>1, <2>2
<1>2. CASE step' = [step EXCEPT ![q] = "done"] /\ outcome' = [outcome EXCEPT ![q] = of(cause)]
  <2>1. of(cause) \in {"deadline", "boundary"}
    BY UnitTags DEF UnitCauses
  <2>2. AttemptsBound'
    BY <1>2 DEF Steps
  <2>3. Heard(q) = "none" /\ Heard(q)' = "failed"
    BY <1>2, <2>1 DEF Heard
  <2>4. \A x \in Queries : x # q => Heard(x)' = Heard(x)
    BY <1>2 DEF Heard
  <2>5. Statements!Next
    BY <2>3, <2>4, OneIsTold DEF Statements!Words
  <2> QED BY <2>2, <2>5
<1> QED BY <1>1, <1>2 DEF Raise

(* A commit, answered or late, is one try's. *)
LEMMA CommitsHappen ==
  ASSUME AttemptsBound, NEW q \in Queries, applied[q] < DbAttempts,
         applied' = [applied EXCEPT ![q] = @ + 1], UNCHANGED outcome
  PROVE  Statements!Next
<1>1. Statements!Happen(q)
  BY DEF AttemptsBound, Statements!Happen, Heard
<1> QED BY <1>1 DEF Statements!Next

LEMMA QueryStepsAreStatements ==
  ASSUME AttemptsBound, LedgerNext \/ UNCHANGED queryVars
  PROVE  /\ AttemptsBound'
         /\ Statements!Next \/ UNCHANGED Statements!vars
<1> USE LedgerAssumption DEF AttemptsBound
<1> DEFINE Goal == AttemptsBound' /\ (Statements!Next \/ UNCHANGED Statements!vars)
<1>1. ASSUME NEW q \in Queries, query(q) \/ Borrow(q) \/ _connect(q) \/ Again(q) PROVE Goal
  <2>1. AttemptsBound'
    BY <1>1 DEF query, Borrow, _connect, Again, Steps
  <2>2. UNCHANGED Statements!vars
    BY <1>1 DEF query, Borrow, _connect, Again, Statements!vars, Heard
  <2> QED BY <2>1, <2>2
<1>2. ASSUME NEW q \in Queries, Execute(q) PROVE Goal
  <2>1. AttemptsBound'
    BY <1>2 DEF Execute, Steps
  <2>2. applied[q] < DbAttempts
    BY <1>2 DEF Execute
  <2> QED BY <1>2, <2>1, <2>2, CommitsHappen DEF Execute
<1>3. ASSUME NEW q \in Queries, _materialize(q) PROVE Goal
  <2>1. AttemptsBound'
    BY <1>3 DEF _materialize, Steps
  <2>2. Heard(q) = "none" /\ Heard(q)' = "done" /\ applied[q] > 0 /\ UNCHANGED applied
    BY <1>3 DEF _materialize, Heard
  <2>3. \A x \in Queries : x # q => Heard(x)' = Heard(x)
    BY <1>3 DEF _materialize, Heard
  <2> QED BY <2>1, <2>2, <2>3, OneIsTold DEF Statements!Words
<1>4. ASSUME NEW q \in Queries, NEW cause \in {"InterfaceError", "TimeoutError", "DatabaseError"},
             NEW timely, Refuse(q, cause, timely)
      PROVE  Goal
  BY <1>4, RaisesFail DEF Refuse, UnitCauses
<1>5. ASSUME NEW q \in Queries, NEW state \in SqlStates, NEW timely, Reject(q, state, timely) PROVE Goal
  BY <1>5, RaisesFail DEF Reject, _classified, UnitCauses
<1>6. ASSUME NEW q \in Queries, NEW cause \in {"InterfaceError", "TimeoutError"}, NEW timely,
             Drop(q, cause, timely)
      PROVE  Goal
  <2>1. step[q] \in {"dialing", "open", "committed"} /\ cause \in UnitCauses
    BY <1>6 DEF Drop, UnitCauses
  <2> QED BY <1>6, <2>1, RaisesFail DEF Drop
<1>7. ASSUME NEW q \in Queries, NEW commits \in {0, 1}, LateEnd(q, commits) PROVE Goal
  <2>1. AttemptsBound'
    BY <1>7 DEF LateEnd, Steps
  <2>2. CASE commits = 1
    <3>1. applied[q] < DbAttempts /\ applied' = [applied EXCEPT ![q] = @ + 1] /\ UNCHANGED outcome
      BY <1>7, <2>2 DEF LateEnd
    <3> QED BY <2>1, <3>1, CommitsHappen
  <2>3. CASE commits = 0
    <3>1. UNCHANGED <<applied, outcome>>
      BY <1>7, <2>3 DEF LateEnd
    <3>2. UNCHANGED Statements!vars
      BY <3>1 DEF Statements!vars, Heard
    <3> QED BY <2>1, <3>2
  <2> QED BY <2>2, <2>3
<1>8. CASE UNCHANGED queryVars
  BY <1>8 DEF queryVars, Statements!vars, Heard
<1> QED BY <1>1, <1>2, <1>3, <1>4, <1>5, <1>6, <1>7, <1>8 DEF LedgerNext, QueryStep, Server

(* Whatever the queries, slots, attempts and late ends at the server: a      *)
(* statement is committed at most once per attempt, and a value that is      *)
(* returned stands for a commit (db.py 237-266). *)
THEOREM QueriesImplementAtLeastOnce == LedgerSpec => StatementsAtLeastOnce
<1>1. QueryInit => AttemptsBound /\ Statements!Init
  BY LedgerAssumption DEF QueryInit, AttemptsBound, Steps, Statements!Init, Heard
<1>2. AttemptsBound /\ [LedgerNext]_queryVars => AttemptsBound'
  BY QueryStepsAreStatements
<1>3. AttemptsBound /\ [LedgerNext]_queryVars => [Statements!Next]_Statements!vars
  BY QueryStepsAreStatements
<1> QED BY <1>1, <1>2, <1>3, PTL DEF LedgerSpec, StatementsAtLeastOnce, Statements!SafeSpec

(* Every variable has its type; in particular no query is tried, and no     *)
(* statement committed, more often than the class of retries allows.        *)
THEOREM AttemptsAreBounded == LedgerSpec => []AttemptsBound
<1>1. QueryInit => AttemptsBound
  BY LedgerAssumption DEF QueryInit, AttemptsBound, Steps
<1>2. AttemptsBound /\ [LedgerNext]_queryVars => AttemptsBound'
  BY QueryStepsAreStatements
<1> QED BY <1>1, <1>2, PTL DEF LedgerSpec

-------------------------------------------------------------------------------
(* No more queries hold a slot and a connection than the lane has. *)
SlotsBound == IsFiniteSet(Borrowing) /\ Cardinality(Borrowing) <= LaneCapacity

(* A step borrows at most one slot, and only a free one. *)
LEMMA BorrowingGrowsByBorrow ==
  ASSUME AttemptsBound, LedgerNext \/ UNCHANGED queryVars
  PROVE  \/ Borrowing' \subseteq Borrowing
         \/ \E q \in Queries : /\ Cardinality(Borrowing) < LaneCapacity
                               /\ Borrowing' = Borrowing \cup {q}
<1> USE DEF AttemptsBound, Borrowing
<1>1. ASSUME NEW q \in Queries, Borrow(q)
      PROVE  Cardinality(Borrowing) < LaneCapacity /\ Borrowing' = Borrowing \cup {q}
  <2>1. Cardinality(Borrowing) < LaneCapacity
    BY <1>1 DEF Borrow
  <2>2. Borrowing' = Borrowing \cup {q}
    BY <1>1 DEF Borrow
  <2> QED BY <2>1, <2>2
<1>2. ASSUME NEW q \in Queries,
             query(q) \/ _connect(q) \/ Execute(q) \/ _materialize(q) \/ Again(q)
      PROVE  Borrowing' \subseteq Borrowing
  BY <1>2 DEF query, _connect, Execute, _materialize, Again
<1>3. ASSUME NEW q \in Queries, NEW cause, NEW timely, Raise(q, cause, timely)
      PROVE  Borrowing' \subseteq Borrowing
  BY <1>3 DEF Raise
<1>4. CASE UNCHANGED queryVars
  BY <1>4 DEF queryVars
<1>5. ASSUME NEW q \in Queries, Server(q) PROVE Borrowing' \subseteq Borrowing
  BY <1>5 DEF Server, LateEnd
<1> QED BY <1>1, <1>2, <1>3, <1>4, <1>5 DEF LedgerNext, QueryStep, Refuse, Reject, Drop

(* However many queries are under way and whatever they meet, the lane's    *)
(* capacity bounds the connections that are open at once (db.py 237-266). *)
THEOREM SlotsAreBounded == LedgerSpec => []SlotsBound
<1>1. ASSUME QueryInit PROVE SlotsBound
  <2>1. Borrowing = {}
    BY <1>1 DEF QueryInit, Borrowing
  <2> QED BY <2>1, FS_EmptySet, LedgerAssumption DEF SlotsBound
<1>2. ASSUME AttemptsBound, SlotsBound, LedgerNext \/ UNCHANGED queryVars PROVE SlotsBound'
  <2>1. Cardinality(Borrowing) \in Nat /\ LaneCapacity \in Nat
    BY <1>2, FS_CardinalityType, LedgerAssumption DEF SlotsBound
  <2>2. CASE Borrowing' \subseteq Borrowing
    <3>1. /\ IsFiniteSet(Borrowing') /\ Cardinality(Borrowing') <= Cardinality(Borrowing)
          /\ Cardinality(Borrowing') \in Nat
      BY <1>2, <2>2, FS_Subset, FS_CardinalityType DEF SlotsBound
    <3> QED BY <1>2, <2>1, <3>1 DEF SlotsBound
  <2>3. ASSUME NEW q \in Queries, Cardinality(Borrowing) < LaneCapacity,
               Borrowing' = Borrowing \cup {q}
        PROVE  SlotsBound'
    <3>1. /\ IsFiniteSet(Borrowing')
          /\ Cardinality(Borrowing') \in {Cardinality(Borrowing), Cardinality(Borrowing) + 1}
      BY <1>2, <2>3, FS_AddElement DEF SlotsBound
    <3> QED BY <2>1, <2>3, <3>1 DEF SlotsBound
  <2> QED BY <1>2, <2>2, <2>3, BorrowingGrowsByBorrow
<1>3. AttemptsBound /\ SlotsBound /\ [LedgerNext]_queryVars => SlotsBound'
  BY <1>2
<1> QED BY <1>1, <1>3, AttemptsAreBounded, PTL DEF LedgerSpec

-------------------------------------------------------------------------------
(* The doctor's envelope is what its evidence comes to, and the exit code   *)
(* is the envelope's. *)
DoctorInv ==
  /\ rail = "none" => envelope = "none" /\ pc = "idle"
  /\ envelope # "none" => pc = "done"
  /\ rail = "doctor" /\ envelope # "none" => envelope \in {"faulted", DoctorStatus(findings, live)}
  /\ rail = "doctor" => pc \in {"asking", "done"}
  /\ exit # -1 => envelope \in Status /\ exit = code[envelope]

LEMMA DoctorInvInitially == ASSUME DataInit, EnvelopeInit PROVE DoctorInv
BY DEF DataInit, EnvelopeInit, DoctorInv

(* A verdict already given does not move while its evidence does not. *)
LEMMA VerdictStays ==
  ASSUME UNCHANGED <<findings, live>>
  PROVE  DoctorStatus(findings, live)' = DoctorStatus(findings, live)
BY DEF DoctorStatus, census_diff

LEMMA DoctorInvPreserved ==
  ASSUME DoctorInv, DataNext \/ UNCHANGED railVars PROVE DoctorInv'
<1> USE DEF DoctorInv, Return, completed, fault, Answered, Status
<1>1. ASSUME NEW command \in DataRail, NEW unparsed, Ask(command, unparsed) PROVE DoctorInv'
  BY <1>1 DEF Ask, envelopeVars, DataRail
<1>2. CASE Wait \/ Elsewhere
  BY <1>2, VerdictStays DEF Wait, Elsewhere, dataVars, envelopeVars
<1>3. CASE QueryFails
  BY <1>3 DEF QueryFails, DataRail
<1>4. CASE ledger
  BY <1>4 DEF ledger
<1>5. CASE _doctor
  <2> PICK installed \in SUBSET Extension :
        live' = installed /\ Return(DoctorStatus(findings, installed))
    BY <1>5 DEF _doctor
  <2>1. DoctorStatus(findings, live)' = DoctorStatus(findings, installed)
    BY <1>5 DEF _doctor, DoctorStatus, census_diff
  <2> QED BY <1>5, <2>1 DEF _doctor
<1>6. CASE _diff
  BY <1>6 DEF _diff, envelopeVars
<1>7. CASE _generate
  BY <1>7 DEF _generate, envelopeVars
<1>8. CASE _heptabase_ready
  BY <1>8 DEF _heptabase_ready
<1>9. ASSUME NEW result, _heptabase(result) PROVE DoctorInv'
  BY <1>9 DEF _heptabase
<1>10. ASSUME NEW s \in Services, Probe(s) PROVE DoctorInv'
  BY <1>10 DEF Probe, envelopeVars
<1>11. CASE health
  BY <1>11 DEF health
<1>12. CASE Emit
  BY <1>12, VerdictStays DEF Emit, main, dataVars
<1>13. CASE UNCHANGED railVars
  BY <1>13, VerdictStays DEF railVars, dataVars, envelopeVars
<1> QED BY <1>1, <1>2, <1>3, <1>4, <1>5, <1>6, <1>7, <1>8, <1>9, <1>10, <1>11, <1>12, <1>13
        DEF DataNext, DataStep

(* A doctor that exits with 0 or 3 has seen a census equal to its catalog,  *)
(* whatever the catalog (rails.py 522-542, profile.py 391-410).             *)
THEOREM DoctorsAreRight == DataSpec => []DoctorIsRight
<1>1. DataInit /\ EnvelopeInit => DoctorInv
  BY DoctorInvInitially
<1>2. DoctorInv /\ [DataNext]_railVars => DoctorInv'
  BY DoctorInvPreserved
<1>3. DoctorInv => DoctorIsRight
  <2> SUFFICES ASSUME DoctorInv, rail = "doctor", exit \in {0, 3}
               PROVE  /\ live \ _CENSUS_IGNORE = Names(schema_prelude(Catalog)) \ _CENSUS_IGNORE
                      /\ Names(schema_prelude(Catalog)) \subseteq live
                      /\ exit = 0 <=> findings = {}
    BY DEF DoctorIsRight
  <2> DEFINE declared == Names(schema_prelude(Catalog))
             diff == census_diff(Catalog, live)
  <2>1. envelope \in Status /\ exit = code[envelope] /\ envelope \in {"faulted", DoctorStatus(findings, live)}
    BY DEF DoctorInv, Status
  <2>2. code["ok"] = 0 /\ code["unsupported"] = 3 /\ code["failed"] = 1 /\ code["faulted"] = 2
    BY DEF code
  <2>3. DoctorStatus(findings, live) \in {"ok", "unsupported", "failed"}
    BY DEF DoctorStatus
  <2>4. envelope = DoctorStatus(findings, live) /\ envelope \in {"ok", "unsupported"}
    BY <2>1, <2>2, <2>3
  <2>5. diff.missing \cup diff.undeclared = {}
    BY <2>4 DEF DoctorStatus
  <2>6. declared \ (live \ _CENSUS_IGNORE) = {} /\ (live \ _CENSUS_IGNORE) \ declared = {}
    BY <2>5 DEF census_diff
  <2>7. envelope = "ok" <=> findings = {}
    BY <2>4, <2>5 DEF DoctorStatus
  <2>8. exit = 0 <=> findings = {}
    BY <2>1, <2>2, <2>4, <2>7
  <2> QED BY <2>6, <2>8
<1> QED BY <1>1, <1>2, <1>3, PTL DEF DataSpec
================================================================================
