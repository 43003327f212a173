---------------------------- MODULE AutomationProofs ----------------------------
(***************************************************************************)
(* Theorems about Automation, for any number of fires and any buffer.  The *)
(* invariant AutoInv says what the batch in hand and the batches of the    *)
(* skip tasks are: fires already taken, in order, each in one place, and   *)
(* without a line as long as its line is on the way.                       *)
(***************************************************************************)
EXTENDS Automation, FiniteSetTheorems, WellFoundedInduction, TLAPS

Skipped == {"gated", "missed"}

(* The lane's batch is what the lane says it does with it. *)
LaneHasItsBatch ==
  /\ lane \notin {"draining", "recording", "skipping"} => current = {}
  /\ lane \in {"draining", "recording"} => current # {}
  /\ lane = "draining" => \A n \in current : fate[n] = "working"
  /\ lane = "recording" => \A n \in current : fate[n] = "ran" /\ lines[n] = 0
  /\ lane = "skipping" => \A n \in current : fate[n] \in Skipped /\ lines[n] = 0

(* A skipped fire is in one skip task at most, and in the lane's hand or there. *)
SkipsAreApart ==
  /\ \A b \in skips : \A n \in b :
       fate[n] \in Skipped /\ lines[n] = 0 /\ n \notin current
  /\ \A b, c \in skips : \A n \in b : n \in c => b = c

(* A line is there, is on its way, or the group is being cancelled. *)
LinesAreDue ==
  \A n \in Fires :
    /\ fate[n] \notin {"ran", "gated", "missed"} => lines[n] = 0
    /\ fate[n] \in {"ran", "gated", "missed"} =>
         \/ lines[n] = 1
         \/ \E b \in skips : n \in b
         \/ lane \in {"recording", "skipping"} /\ n \in current
         \/ stop # "no"

(* Fires happen in order. *)
NoneIsASuffix == \A m, n \in Fires : m < n /\ fate[m] = "none" => fate[n] = "none"

Runs == {n \in Fires : fate[n] \in Ends}

(* The batch in hand is later than every run before it. *)
RunsAreInOrder ==
  /\ lane = "starting" => Runs = {} /\ outcome = "none"
  /\ lane \in {"draining", "recording"} =>
       \A m \in Runs \ current : \A n \in current : m < n

AutoInv ==
  /\ TypeOK /\ NoneIsASuffix /\ FiresInOrder
  /\ LaneHasItsBatch /\ SkipsAreApart /\ LinesAreDue
  /\ RunsAreInOrder /\ OutcomeIsLatestRun

-------------------------------------------------------------------------------
(* Arithmetic and sets. *)

(* A nonempty set of fires has a latest one. *)
LEMMA LatestFire ==
  ASSUME NEW S \in SUBSET Fires, S # {}
  PROVE  \E n \in S : \A m \in S : m <= n
<1> DEFINE T == {MaxFires - n : n \in S}
<1>0. S \subseteq 1..MaxFires /\ MaxFires \in Nat
  BY AutomationAssumption DEF Fires
<1>1. T \subseteq Nat /\ T # {}
  <2>1. ASSUME NEW n \in S PROVE MaxFires - n \in Nat
    BY <1>0
  <2>2. PICK n \in S : TRUE
    OBVIOUS
  <2>3. MaxFires - n \in T
    BY <2>2
  <2> QED
    BY <2>1, <2>3
<1>2. PICK x \in T : \A y \in T : <<y, x>> \notin OpToRel(<, Nat)
  <2> HIDE DEF T
  <2> QED
    BY <1>1, NatLessThanWellFounded, WFMin
<1>3. \A y \in T : ~(y < x)
  <2> SUFFICES ASSUME NEW y \in T PROVE ~(y < x)
    OBVIOUS
  <2> HIDE DEF T
  <2>1. <<y, x>> \in Nat \X Nat
    BY <1>1
  <2> QED
    BY <1>2, <2>1 DEF OpToRel
<1>4. PICK n \in S : x = MaxFires - n
  OBVIOUS
<1>5. \A m \in S : m <= n
  BY <1>3, <1>4, AutomationAssumption DEF Fires
<1> QED
  BY <1>5

(* A batch is queued fires, the earliest first; more than one only for a watch. *)
LEMMA QueuedBatch ==
  /\ Batch \subseteq Queued /\ Queued \subseteq Fires
  /\ Queued # {} => Batch # {}
  /\ \A m \in Queued \ Batch : \A n \in Batch : n < m
  /\ trigger # "watch" => Cardinality(Batch) <= 1
<1>1. Queued \subseteq Fires /\ Fires \subseteq Int
  BY DEF Queued, Fires
<1>2. Batch \subseteq Queued
  BY DEF Batch
<1>3. \A m \in Queued \ Batch : \A n \in Batch : n < m
  BY <1>1, <1>2 DEF Batch
<1>4. ASSUME Queued # {} PROVE Batch # {}
  <2>1. Queued \subseteq Nat
    BY <1>1, AutomationAssumption DEF Fires
  <2>2. PICK n \in Queued : \A m \in Queued : <<m, n>> \notin OpToRel(<, Nat)
    BY <1>4, <2>1, NatLessThanWellFounded, WFMin
  <2>3. \A m \in Queued : n <= m
    <3> SUFFICES ASSUME NEW m \in Queued PROVE n <= m
      OBVIOUS
    <3>1. <<m, n>> \in Nat \X Nat
      BY <2>1
    <3> QED
      BY <2>1, <2>2, <3>1 DEF OpToRel
  <2> QED
    BY <2>1, <2>3 DEF Batch
<1>5. ASSUME trigger # "watch" PROVE Cardinality(Batch) <= 1
  <2>1. CASE Batch = {}
    BY <2>1, FS_EmptySet
  <2>2. CASE Batch # {}
    <3>1. PICK n \in Batch : TRUE
      BY <2>2
    <3>2. \A m \in Batch : m = n
      BY <1>5, <1>1, <3>1 DEF Batch
    <3>3. Batch = {n}
      BY <3>1, <3>2
    <3> QED
      BY <3>3, FS_Singleton
  <2> QED
    BY <2>1, <2>2
<1> QED
  BY <1>1, <1>2, <1>3, <1>4, <1>5

-------------------------------------------------------------------------------
(* The initial states. *)

LEMMA AutoInvInitially == ASSUME Init PROVE AutoInv
<1>1. TypeOK
  BY FS_EmptySet DEF Init, TypeOK, Fates, Lanes, Outcomes, Stops, Exits, Ends
<1>2. \A n \in Fires : fate[n] = "none"
  BY DEF Init
<1>3. NoneIsASuffix /\ FiresInOrder
  BY <1>2 DEF NoneIsASuffix, FiresInOrder
<1>4. LaneHasItsBatch /\ SkipsAreApart /\ LinesAreDue
  BY <1>2 DEF Init, LaneHasItsBatch, SkipsAreApart, LinesAreDue
<1>5. RunsAreInOrder /\ OutcomeIsLatestRun
  BY <1>2 DEF Init, RunsAreInOrder, OutcomeIsLatestRun, Runs, Ends
<1> QED
  BY <1>1, <1>3, <1>4, <1>5 DEF AutoInv

-------------------------------------------------------------------------------
(* Types. *)

LEMMA TypesStep ==
  ASSUME AutoInv, [Next]_vars
  PROVE  TypeOK'
<1> USE DEF TypeOK, Fates, Lanes, Outcomes, Stops, Exits, Ends
<1>0. TypeOK
  BY DEF AutoInv
<1>1. ASSUME NEW n \in Fires, Release(n) PROVE TypeOK'
  BY <1>0, <1>1 DEF Release
<1>2. CASE CheckPaths
  BY <1>0, <1>2 DEF CheckPaths
<1>3. CASE Admit
  BY <1>0, <1>3, QueuedBatch DEF Admit, Mark
<1>4. ASSUME NEW f \in Skipped, Gate(f) PROVE TypeOK'
  BY <1>0, <1>4, QueuedBatch DEF Gate, Mark, SkipsWith, OutcomeKept, Skipped
<1>5. ASSUME NEW e \in Ends, EndDrain(e) PROVE TypeOK'
  <2>1. fate' \in [Fires -> Fates]
    BY <1>0, <1>5 DEF EndDrain, Mark
  <2>2. current' = current \/ current' = {}
    BY <1>5 DEF EndDrain
  <2>3. current' \subseteq Fires /\ (trigger' # "watch" => Cardinality(current') <= 1)
    BY <1>0, <1>5, <2>2, FS_EmptySet DEF EndDrain
  <2> QED
    BY <1>0, <1>5, <2>1, <2>3 DEF EndDrain, AfterRun
<1>6. CASE Record
  BY <1>0, <1>6, FS_EmptySet DEF Record, Line, AfterRun, AutoInv, LaneHasItsBatch
<1>7. CASE RecordGate
  BY <1>0, <1>7, FS_EmptySet DEF RecordGate, Line, AutoInv, LaneHasItsBatch
<1>8. CASE RecordFails
  BY <1>0, <1>8, FS_EmptySet DEF RecordFails
<1>9. ASSUME NEW b \in skips, Skip(b) PROVE TypeOK'
  BY <1>0, <1>9 DEF Skip, Line, AutoInv, SkipsAreApart
<1>10. ASSUME NEW b \in skips, SkipFails(b) PROVE TypeOK'
  BY <1>0, <1>10 DEF SkipFails
<1>11. ASSUME NEW b \in skips, CancelSkip(b) PROVE TypeOK'
  BY <1>0, <1>11 DEF CancelSkip
<1>12. CASE Signal
  BY <1>0, <1>12 DEF Signal
<1>13. CASE CancelLane
  BY <1>0, <1>13, FS_EmptySet DEF CancelLane, Mark
<1>14. CASE Exit
  BY <1>0, <1>14 DEF Exit, Envelope
<1>15. CASE UNCHANGED vars
  BY <1>0, <1>15 DEF vars
<1> QED
  BY <1>1, <1>2, <1>3, <1>4, <1>5, <1>6, <1>7, <1>8, <1>9, <1>10, <1>11, <1>12, <1>13,
     <1>14, <1>15 DEF Next, Skipped

-------------------------------------------------------------------------------
(* The order of fires. *)

LEMMA OrderStep ==
  ASSUME AutoInv, [Next]_vars
  PROVE  (NoneIsASuffix /\ FiresInOrder)'
<1>0. TypeOK /\ NoneIsASuffix /\ FiresInOrder /\ LaneHasItsBatch
  BY DEF AutoInv
<1>1. ASSUME NEW k \in Fires, Release(k) PROVE (NoneIsASuffix /\ FiresInOrder)'
  <2>1. /\ fate[k] = "none" /\ \A m \in Fires : m < k => fate[m] # "none"
        /\ fate' \in [Fires -> Fates]
        /\ fate'[k] \in {"queued", "dropped"}
        /\ \A m \in Fires : m # k => fate'[m] = fate[m]
    BY <1>0, <1>1 DEF Release, TypeOK, Fates
  <2>2. \A m, n \in Fires : m < n \/ m = n \/ n < m
    BY AutomationAssumption DEF Fires
  <2>3. NoneIsASuffix'
    BY <1>0, <2>1, <2>2 DEF NoneIsASuffix
  <2>4. FiresInOrder'
    BY <1>0, <2>1, <2>2 DEF FiresInOrder, NoneIsASuffix
  <2> QED
    BY <2>3, <2>4
(* Whatever is marked is no longer queued, and nothing queued is before it. *)
<1>2. ASSUME NEW S \in SUBSET Fires, NEW f \in Fates \ {"none", "queued"}, Mark(S, f),
             \A n \in S : fate[n] # "none",
             \A m \in Queued \ S : \A n \in S : ~(m < n)
      PROVE  (NoneIsASuffix /\ FiresInOrder)'
  <2>1. \A n \in Fires : fate'[n] = IF n \in S THEN f ELSE fate[n]
    BY <1>2 DEF Mark
  <2>2. NoneIsASuffix'
    BY <1>0, <1>2, <2>1 DEF NoneIsASuffix
  <2>3. FiresInOrder'
    BY <1>0, <1>2, <2>1 DEF FiresInOrder, Queued
  <2> QED
    BY <2>2, <2>3
<1>3. ASSUME NEW f \in Fates \ {"none", "queued"}, Mark(Batch, f)
      PROVE  (NoneIsASuffix /\ FiresInOrder)'
  <2>1. /\ Batch \subseteq Fires /\ \A n \in Batch : fate[n] # "none"
        /\ \A m \in Queued \ Batch : \A n \in Batch : ~(m < n)
    BY QueuedBatch, AutomationAssumption DEF Queued, Fires
  <2> QED
    BY <1>2, <1>3, <2>1
<1>4. ASSUME NEW f \in Fates \ {"none", "queued"}, Mark(current, f), lane = "draining"
      PROVE  (NoneIsASuffix /\ FiresInOrder)'
  <2>1. /\ current \subseteq Fires
        /\ \A n \in current : fate[n] = "working"
    BY <1>0, <1>4 DEF TypeOK, LaneHasItsBatch
  <2>2. \A m \in Queued \ current : \A n \in current : ~(m < n)
    BY <1>0, <2>1 DEF FiresInOrder, Queued
  <2> QED
    BY <1>2, <1>4, <2>1, <2>2
<1>5. ASSUME UNCHANGED fate PROVE (NoneIsASuffix /\ FiresInOrder)'
  BY <1>0, <1>5 DEF NoneIsASuffix, FiresInOrder
<1>6. CASE Admit
  BY <1>3, <1>6 DEF Admit, Fates
<1>7. ASSUME NEW f \in Skipped, Gate(f) PROVE (NoneIsASuffix /\ FiresInOrder)'
  BY <1>3, <1>7 DEF Gate, Fates, Skipped
<1>8. ASSUME NEW e \in Ends, EndDrain(e) PROVE (NoneIsASuffix /\ FiresInOrder)'
  BY <1>4, <1>8 DEF EndDrain, Fates, Ends
<1>9. CASE CancelLane
  BY <1>4, <1>5, <1>9 DEF CancelLane, Fates
<1>10. CASE CheckPaths \/ Record \/ RecordGate \/ RecordFails \/ Signal \/ Exit
  BY <1>5, <1>10 DEF CheckPaths, Record, RecordGate, RecordFails, Signal, Exit
<1>11. ASSUME NEW b \in skips, Skip(b) \/ SkipFails(b) \/ CancelSkip(b)
       PROVE  (NoneIsASuffix /\ FiresInOrder)'
  BY <1>5, <1>11 DEF Skip, SkipFails, CancelSkip
<1>12. CASE UNCHANGED vars
  BY <1>5, <1>12 DEF vars
<1> QED
  BY <1>1, <1>6, <1>7, <1>8, <1>9, <1>10, <1>11, <1>12 DEF Next, Skipped

-------------------------------------------------------------------------------
(* The lane and its batch. *)

LEMMA BatchStep ==
  ASSUME AutoInv, [Next]_vars
  PROVE  LaneHasItsBatch'
<1> USE DEF LaneHasItsBatch
<1>0. TypeOK /\ LaneHasItsBatch /\ SkipsAreApart /\ LinesAreDue
  BY DEF AutoInv
<1>1. ASSUME NEW k \in Fires, Release(k) PROVE LaneHasItsBatch'
  <2>1. /\ fate[k] = "none" /\ UNCHANGED <<lane, current, lines>>
        /\ \A n \in Fires : n # k => fate'[n] = fate[n]
    BY <1>0, <1>1 DEF Release, TypeOK
  <2> QED
    BY <1>0, <2>1 DEF TypeOK, Skipped
<1>2. CASE CheckPaths
  BY <1>0, <1>2 DEF CheckPaths
<1>3. CASE Admit
  <2>1. \A n \in Batch : fate'[n] = "working"
    BY <1>3, QueuedBatch DEF Admit, Mark
  <2> QED
    BY <1>3, <2>1, QueuedBatch DEF Admit
<1>4. ASSUME NEW f \in Skipped, Gate(f) PROVE LaneHasItsBatch'
  <2>1. \A n \in Batch : fate'[n] = f /\ fate[n] = "queued" /\ n \in Fires
    BY <1>4, QueuedBatch DEF Gate, Mark, Queued
  <2>2. \A n \in Batch : lines[n] = 0
    BY <1>0, <2>1 DEF LinesAreDue
  <2> QED
    BY <1>0, <1>4, <2>1, <2>2 DEF Gate
<1>5. ASSUME NEW e \in Ends, EndDrain(e) PROVE LaneHasItsBatch'
  <2>1. \A n \in current : n \in Fires /\ fate[n] = "working" /\ fate'[n] = e
    BY <1>0, <1>5 DEF EndDrain, Mark, TypeOK
  <2>2. \A n \in current : lines[n] = 0
    BY <1>0, <2>1 DEF LinesAreDue
  <2> QED
    BY <1>0, <1>5, <2>1, <2>2 DEF EndDrain, AfterRun
<1>6. CASE Record \/ RecordGate \/ RecordFails
  BY <1>0, <1>6 DEF Record, RecordGate, RecordFails, AfterRun
<1>7. ASSUME NEW b \in skips, Skip(b) PROVE LaneHasItsBatch'
  <2>1. \A n \in current : n \in Fires /\ n \notin b
    BY <1>0, <1>7 DEF TypeOK, SkipsAreApart
  <2>2. \A n \in current : lines'[n] = lines[n]
    BY <1>7, <2>1 DEF Skip, Line
  <2> QED
    BY <1>0, <1>7, <2>2 DEF Skip
<1>8. ASSUME NEW b \in skips, SkipFails(b) \/ CancelSkip(b) PROVE LaneHasItsBatch'
  BY <1>0, <1>8 DEF SkipFails, CancelSkip
<1>9. CASE Signal \/ Exit \/ UNCHANGED vars
  BY <1>0, <1>9 DEF Signal, Exit, vars
<1>10. CASE CancelLane
  BY <1>0, <1>10 DEF CancelLane
<1> QED
  BY <1>1, <1>2, <1>3, <1>4, <1>5, <1>6, <1>7, <1>8, <1>9, <1>10 DEF Next, Skipped

-------------------------------------------------------------------------------
(* Skip tasks and ledger lines. *)

LEMMA SkipsStep ==
  ASSUME AutoInv, [Next]_vars
  PROVE  SkipsAreApart'
<1> USE DEF SkipsAreApart
<1>0. TypeOK /\ LaneHasItsBatch /\ SkipsAreApart /\ LinesAreDue
  BY DEF AutoInv
(* Whatever takes no skip task's fire leaves the tasks apart. *)
<1>1. ASSUME skips' \subseteq skips,
             \A b \in skips' : \A n \in b :
               fate'[n] = fate[n] /\ lines'[n] = lines[n] /\ n \notin current'
      PROVE  SkipsAreApart'
  BY <1>0, <1>1
<1>2. \A b \in skips : \A n \in b : n \in Fires /\ fate[n] \in Skipped
  BY <1>0 DEF TypeOK
<1>3. \A b \in skips : \A n \in b : n \notin Batch /\ n \notin current
  BY <1>0, <1>2, QueuedBatch DEF Queued, Skipped
<1>4. ASSUME NEW k \in Fires, Release(k) PROVE SkipsAreApart'
  <2>1. fate[k] = "none" /\ \A n \in Fires : n # k => fate'[n] = fate[n]
    BY <1>0, <1>4 DEF Release, TypeOK
  <2>2. \A b \in skips : \A n \in b : fate'[n] = fate[n]
    BY <1>2, <2>1 DEF Skipped
  <2> QED
    BY <1>1, <1>3, <1>4, <2>2 DEF Release
<1>5. CASE Admit
  <2>1. \A b \in skips : \A n \in b : fate'[n] = fate[n]
    BY <1>2, <1>3, <1>5 DEF Admit, Mark
  <2> QED
    BY <1>1, <1>3, <1>5, <2>1 DEF Admit
<1>6. ASSUME NEW f \in Skipped, Gate(f) PROVE SkipsAreApart'
  <2>1. /\ \A b \in skips : \A n \in b : fate'[n] = fate[n]
        /\ \A n \in Batch : n \in Fires /\ fate'[n] = f /\ fate[n] = "queued"
    BY <1>2, <1>3, <1>6, QueuedBatch DEF Gate, Mark, Queued
  <2>2. CASE Standing
    <3>1. /\ skips' = skips \cup {Batch} /\ UNCHANGED <<lines, current>>
          /\ current = {}
      BY <1>0, <1>6, <2>2 DEF Gate, SkipsWith, LaneHasItsBatch
    <3>2. \A n \in Batch : lines'[n] = 0
      BY <1>0, <2>1, <3>1 DEF LinesAreDue
    <3>3. \A b \in skips' : \A n \in b :
            fate'[n] \in Skipped /\ lines'[n] = 0 /\ n \notin current'
      BY <1>0, <2>1, <3>1, <3>2
    <3>4. \A b, c \in skips' : \A n \in b : n \in c => b = c
      BY <1>0, <1>3, <3>1
    <3> QED
      BY <3>3, <3>4
  <2>3. CASE ~Standing
    BY <1>1, <1>3, <1>6, <2>1, <2>3 DEF Gate
  <2> QED
    BY <2>2, <2>3
<1>7. ASSUME NEW e \in Ends, EndDrain(e) PROVE SkipsAreApart'
  <2>1. \A b \in skips : \A n \in b : fate'[n] = fate[n]
    BY <1>2, <1>3, <1>7 DEF EndDrain, Mark
  <2>2. current' \subseteq current /\ UNCHANGED <<lines, skips>>
    BY <1>7 DEF EndDrain
  <2> QED
    BY <1>1, <1>3, <2>1, <2>2
<1>8. CASE Record \/ RecordGate
  <2>1. \A b \in skips : \A n \in b : lines'[n] = lines[n]
    BY <1>2, <1>3, <1>8 DEF Record, RecordGate, Line
  <2> QED
    BY <1>1, <1>8, <2>1 DEF Record, RecordGate
<1>9. ASSUME NEW b \in skips, Skip(b) PROVE SkipsAreApart'
  <2>1. \A c \in skips' : \A n \in c : n \notin b
    BY <1>0, <1>9 DEF Skip
  <2>2. \A c \in skips' : \A n \in c : lines'[n] = lines[n]
    BY <1>2, <1>9, <2>1 DEF Skip, Line
  <2> QED
    BY <1>1, <1>3, <1>9, <2>2 DEF Skip
<1>10. ASSUME NEW b \in skips, SkipFails(b) \/ CancelSkip(b) PROVE SkipsAreApart'
  BY <1>1, <1>3, <1>10 DEF SkipFails, CancelSkip
<1>11. CASE CheckPaths \/ RecordFails \/ Signal \/ Exit \/ UNCHANGED vars
  BY <1>1, <1>3, <1>11 DEF CheckPaths, RecordFails, Signal, Exit, vars
<1>12. CASE CancelLane
  <2>1. \A b \in skips : \A n \in b : fate'[n] = fate[n]
    BY <1>2, <1>3, <1>12 DEF CancelLane, Mark
  <2> QED
    BY <1>1, <1>12, <2>1 DEF CancelLane
<1> QED
  BY <1>4, <1>5, <1>6, <1>7, <1>8, <1>9, <1>10, <1>11, <1>12 DEF Next, Skipped

LEMMA LinesStep ==
  ASSUME AutoInv, [Next]_vars
  PROVE  LinesAreDue'
<1> USE DEF LinesAreDue
<1>0. TypeOK /\ LaneHasItsBatch /\ SkipsAreApart /\ LinesAreDue
  BY DEF AutoInv
<1> SUFFICES ASSUME NEW n \in Fires
             PROVE  /\ fate'[n] \notin {"ran", "gated", "missed"} => lines'[n] = 0
                    /\ fate'[n] \in {"ran", "gated", "missed"} =>
                         \/ lines'[n] = 1
                         \/ \E b \in skips' : n \in b
                         \/ lane' \in {"recording", "skipping"} /\ n \in current'
                         \/ stop' # "no"
  OBVIOUS
<1> DEFINE Goal == /\ fate'[n] \notin {"ran", "gated", "missed"} => lines'[n] = 0
                   /\ fate'[n] \in {"ran", "gated", "missed"} =>
                        \/ lines'[n] = 1
                        \/ \E b \in skips' : n \in b
                        \/ lane' \in {"recording", "skipping"} /\ n \in current'
                        \/ stop' # "no"
<1>1. ASSUME NEW k \in Fires, Release(k) PROVE Goal
  BY <1>0, <1>1 DEF Release, TypeOK
<1>2. CASE CheckPaths
  BY <1>0, <1>2, SMT DEF CheckPaths
<1>3. CASE Admit
  <2>1. fate'[n] = IF n \in Batch THEN "working" ELSE fate[n]
    BY <1>3 DEF Admit, Mark
  <2>2. n \in Batch => lines[n] = 0
    BY <1>0, QueuedBatch DEF Queued
  <2> QED
    BY <1>0, <1>3, <2>1, <2>2 DEF Admit
<1>4. ASSUME NEW f \in Skipped, Gate(f) PROVE Goal
  <2>1. fate'[n] = IF n \in Batch THEN f ELSE fate[n]
    BY <1>4 DEF Gate, Mark
  <2> QED
    BY <1>0, <1>4, <2>1 DEF Gate, SkipsWith, Skipped
<1>5. ASSUME NEW e \in Ends, EndDrain(e) PROVE Goal
  <2>1. fate'[n] = IF n \in current THEN e ELSE fate[n]
    BY <1>5 DEF EndDrain, Mark
  <2>2. n \in current => lines[n] = 0
    BY <1>0, <1>5 DEF EndDrain, LaneHasItsBatch
  <2> QED
    BY <1>0, <1>5, <2>1, <2>2 DEF EndDrain, Ends
<1>6. CASE Record \/ RecordGate
  <2>1. /\ lines'[n] = IF n \in current THEN lines[n] + 1 ELSE lines[n]
        /\ n \in current => lines[n] = 0 /\ fate[n] \in {"ran", "gated", "missed"}
        /\ UNCHANGED <<fate, skips, stop>>
    BY <1>0, <1>6 DEF Record, RecordGate, Line, LaneHasItsBatch, Skipped
  <2> QED
    BY <1>0, <2>1
<1>7. CASE RecordFails
  BY <1>0, <1>7 DEF RecordFails
<1>8. ASSUME NEW b \in skips, Skip(b) PROVE Goal
  <2>1. /\ lines'[n] = IF n \in b THEN lines[n] + 1 ELSE lines[n]
        /\ n \in b => lines[n] = 0 /\ fate[n] \in Skipped
        /\ UNCHANGED <<fate, lane, current, stop>> /\ skips' = skips \ {b}
    BY <1>0, <1>8 DEF Skip, Line, SkipsAreApart
  <2> QED
    BY <1>0, <2>1 DEF Skipped
<1>9. ASSUME NEW b \in skips, SkipFails(b) \/ CancelSkip(b) PROVE Goal
  BY <1>0, <1>9 DEF SkipFails, CancelSkip
<1>10. CASE Signal \/ Exit \/ UNCHANGED vars
  BY <1>0, <1>10 DEF Signal, Exit, vars
<1>11. CASE CancelLane
  <2>1. /\ fate'[n] = fate[n] \/ (fate'[n] = "cut" /\ lane = "draining" /\ n \in current)
        /\ UNCHANGED <<lines, skips, stop>> /\ stop # "no"
    BY <1>11 DEF CancelLane, Mark
  <2> QED
    BY <1>0, <2>1 DEF LaneHasItsBatch
<1> QED
  BY <1>1, <1>2, <1>3, <1>4, <1>5, <1>6, <1>7, <1>8, <1>9, <1>10, <1>11 DEF Next, Skipped

-------------------------------------------------------------------------------
(* The latest run and the outcome. *)

LEMMA RunsStep ==
  ASSUME AutoInv, [Next]_vars
  PROVE  RunsAreInOrder'
<1> USE DEF RunsAreInOrder
<1>0. TypeOK /\ LaneHasItsBatch /\ FiresInOrder /\ RunsAreInOrder
  BY DEF AutoInv
<1>1. Fires \subseteq Int
  BY DEF Fires
<1>2. ASSUME Runs' = Runs, UNCHANGED <<lane, current, outcome>> PROVE RunsAreInOrder'
  BY <1>0, <1>2
<1>3. ASSUME NEW k \in Fires, Release(k) PROVE RunsAreInOrder'
  <2>1. /\ fate[k] = "none" /\ fate'[k] \in {"queued", "dropped"}
        /\ \A n \in Fires : n # k => fate'[n] = fate[n]
    BY <1>0, <1>3 DEF Release, TypeOK
  <2>2. Runs' = Runs
    BY <2>1 DEF Runs, Ends
  <2> QED
    BY <1>2, <1>3, <2>2 DEF Release
<1>4. CASE CheckPaths
  BY <1>4 DEF CheckPaths
<1>5. CASE Admit
  <2>1. \A n \in Batch : n \in Fires /\ fate[n] = "queued"
    BY QueuedBatch DEF Queued
  <2>2. Runs' \subseteq Runs
    BY <1>5 DEF Admit, Mark, Runs, Ends
  <2>3. \A m \in Runs : \A n \in Batch : m < n
    <3> SUFFICES ASSUME NEW m \in Runs, NEW n \in Batch PROVE m < n
      OBVIOUS
    <3>1. m \in Fires /\ n \in Fires /\ fate[n] = "queued" /\ fate[m] \in Ends
      BY <2>1 DEF Runs
    <3>2. ~(n < m) /\ m # n
      BY <1>0, <3>1 DEF FiresInOrder, Ends
    <3> QED
      BY <1>1, <3>1, <3>2
  <2> QED
    BY <1>5, <2>2, <2>3 DEF Admit
<1>6. ASSUME NEW f \in Skipped, Gate(f) PROVE RunsAreInOrder'
  BY <1>6 DEF Gate
<1>7. ASSUME NEW e \in Ends, EndDrain(e) PROVE RunsAreInOrder'
  <2>1. Runs' \ current \subseteq Runs \ current
    BY <1>7 DEF EndDrain, Mark, Runs
  <2> QED
    BY <1>0, <1>7, <2>1 DEF EndDrain, AfterRun
<1>8. CASE Record \/ RecordGate \/ RecordFails \/ CancelLane
  BY <1>8 DEF Record, RecordGate, RecordFails, CancelLane, AfterRun
<1>9. ASSUME NEW b \in skips, Skip(b) \/ SkipFails(b) \/ CancelSkip(b) PROVE RunsAreInOrder'
  BY <1>2, <1>9 DEF Skip, SkipFails, CancelSkip, Runs
<1>10. CASE Signal \/ Exit \/ UNCHANGED vars
  BY <1>2, <1>10 DEF Signal, Exit, vars, Runs
<1> QED
  BY <1>3, <1>4, <1>5, <1>6, <1>7, <1>8, <1>9, <1>10 DEF Next, Skipped

LEMMA OutcomeStep ==
  ASSUME AutoInv, [Next]_vars
  PROVE  OutcomeIsLatestRun'
<1> DEFINE Latest == IF Runs = {} THEN outcome = "none"
                     ELSE \E n \in Runs : (\A m \in Runs : m <= n) /\ outcome = fate[n]
<1>0. TypeOK /\ LaneHasItsBatch /\ RunsAreInOrder /\ (lane = "waiting" => Latest)
  BY DEF AutoInv, OutcomeIsLatestRun, Runs
<1> SUFFICES ASSUME lane' = "waiting" PROVE Latest'
  BY DEF OutcomeIsLatestRun, Runs
<1>1. Fires \subseteq Int
  BY DEF Fires
<1>2. ASSUME Runs' = Runs, \A n \in Runs : fate'[n] = fate[n], outcome' = outcome,
             lane = "waiting"
      PROVE  Latest'
  BY <1>0, <1>2
(* The runs end with the batch that has just ended. *)
<1>3. ASSUME current # {}, current \subseteq Runs', Runs' \ current \subseteq Runs \ current,
             \A m \in Runs \ current : \A n \in current : m < n,
             \A n \in current : fate'[n] = outcome'
      PROVE  Latest'
  <2>1. current \in SUBSET Fires
    BY <1>0 DEF TypeOK
  <2>2. PICK n \in current : \A m \in current : m <= n
    BY <1>3, <2>1, LatestFire
  <2>3. \A m \in Runs' : m <= n
    <3> SUFFICES ASSUME NEW m \in Runs' PROVE m <= n
      OBVIOUS
    <3>1. CASE m \in current
      BY <2>2, <3>1
    <3>2. CASE m \notin current
      <4>1. m \in Fires /\ n \in Fires /\ m < n
        BY <1>3, <2>1, <3>2 DEF Runs
      <4> QED
        BY <1>1, <4>1
    <3> QED
      BY <3>1, <3>2
  <2> QED
    BY <1>3, <2>2, <2>3
<1>4. ASSUME NEW k \in Fires, Release(k) PROVE Latest'
  <2>1. /\ fate[k] = "none" /\ fate'[k] \in {"queued", "dropped"}
        /\ \A n \in Fires : n # k => fate'[n] = fate[n]
    BY <1>0, <1>4 DEF Release, TypeOK
  <2>2. Runs' = Runs /\ \A n \in Runs : fate'[n] = fate[n]
    BY <2>1 DEF Runs, Ends
  <2> QED
    BY <1>2, <1>4, <2>2 DEF Release
<1>5. CASE CheckPaths
  <2>1. Runs = {} /\ outcome = "none" /\ fate' = fate /\ outcome' = outcome
    BY <1>0, <1>5 DEF CheckPaths, RunsAreInOrder
  <2> QED
    BY <2>1 DEF Runs
<1>6. CASE Admit
  BY <1>6 DEF Admit
<1>7. ASSUME NEW f \in Skipped, Gate(f) PROVE Latest'
  <2>1. \A n \in Fires : fate'[n] = IF n \in Batch THEN f ELSE fate[n]
    BY <1>7 DEF Gate, Mark
  <2>2. \A n \in Batch : n \in Fires /\ fate[n] = "queued"
    BY QueuedBatch DEF Queued
  <2>3. Runs' = Runs /\ \A n \in Runs : fate'[n] = fate[n]
    BY <2>1, <2>2 DEF Runs, Ends, Skipped
  <2> QED
    BY <1>2, <1>7, <2>3 DEF Gate, OutcomeKept
<1>8. ASSUME NEW e \in Ends, EndDrain(e) PROVE Latest'
  <2>1. lane = "draining" /\ outcome' = e
    BY <1>8 DEF EndDrain
  <2>2. \A n \in Fires : fate'[n] = IF n \in current THEN e ELSE fate[n]
    BY <1>8 DEF EndDrain, Mark
  <2>3. current # {} /\ current \subseteq Fires
    BY <1>0, <2>1 DEF TypeOK, LaneHasItsBatch
  <2>4. current \subseteq Runs' /\ Runs' \ current \subseteq Runs \ current
    BY <2>2, <2>3 DEF Runs
  <2> QED
    BY <1>0, <1>3, <2>1, <2>2, <2>3, <2>4 DEF RunsAreInOrder
<1>9. CASE Record
  <2>1. /\ lane = "recording" /\ outcome' = "ran" /\ fate' = fate
        /\ current # {} /\ current \subseteq Fires
        /\ \A n \in current : fate[n] = "ran"
    BY <1>0, <1>9 DEF Record, LaneHasItsBatch, TypeOK
  <2>2. current \subseteq Runs' /\ Runs' = Runs
    BY <2>1 DEF Runs, Ends
  <2> QED
    BY <1>0, <1>3, <2>1, <2>2 DEF RunsAreInOrder
<1>10. CASE RecordGate \/ RecordFails \/ CancelLane
  BY <1>10 DEF RecordGate, RecordFails, CancelLane
<1>11. ASSUME NEW b \in skips, Skip(b) \/ SkipFails(b) \/ CancelSkip(b) PROVE Latest'
  BY <1>2, <1>11 DEF Skip, SkipFails, CancelSkip, Runs
<1>12. CASE Signal \/ Exit \/ UNCHANGED vars
  BY <1>2, <1>12 DEF Signal, Exit, vars, Runs
<1> QED
  BY <1>4, <1>5, <1>6, <1>7, <1>8, <1>9, <1>10, <1>11, <1>12 DEF Next, Skipped

-------------------------------------------------------------------------------
(* AutoInv is an invariant of every automation run. *)
THEOREM AutoInvariant == Spec => []AutoInv
<1>1. AutoInv /\ [Next]_vars => AutoInv'
  BY TypesStep, OrderStep, BatchStep, SkipsStep, LinesStep, RunsStep, OutcomeStep DEF AutoInv
<1> QED
  BY <1>1, AutoInvInitially, PTL DEF Spec

(* Every variable has its type; outside a watch the lane runs one fire at a *)
(* time, and no fire has two lines (automation.py 349-407).                 *)
THEOREM AutomationTypes == Spec => []TypeOK
<1>1. AutoInv => TypeOK
  BY DEF AutoInv
<1> QED
  BY <1>1, AutoInvariant, PTL

(* What the lane would report is its latest run (automation.py 376-379). *)
THEOREM OutcomeIsLatest == Spec => []OutcomeIsLatestRun
<1>1. AutoInv => OutcomeIsLatestRun
  BY DEF AutoInv
<1> QED
  BY <1>1, AutoInvariant, PTL

(* No fire waits while a later one is run or skipped (runtime.py 585-593). *)
THEOREM FiresStayInOrder == Spec => []FiresInOrder
<1>1. AutoInv => FiresInOrder
  BY DEF AutoInv
<1> QED
  BY <1>1, AutoInvariant, PTL

(* A fire that ran or was skipped has one line in the ledger or one on its  *)
(* way, unless the group is being cancelled, and no other has any           *)
(* (automation.py 317-336, 376-378).                                        *)
THEOREM LedgerIsExact == Spec => []LedgerAccounts
<1>1. ASSUME AutoInv PROVE LedgerAccounts
  <2>0. TypeOK /\ LaneHasItsBatch /\ SkipsAreApart /\ LinesAreDue
    BY <1>1 DEF AutoInv
  <2> SUFFICES ASSUME NEW n \in Fires
               PROVE  LET due == (IF lane \in {"recording", "skipping"} /\ n \in current THEN 1 ELSE 0)
                                 + Cardinality({b \in skips : n \in b})
                      IN IF fate[n] \in {"ran", "gated", "missed"}
                         THEN lines[n] + due = 1 \/ (stop # "no" /\ lines[n] + due = 0)
                         ELSE lines[n] + due = 0
    BY DEF LedgerAccounts
  <2> DEFINE tasks == {b \in skips : n \in b}
             held == lane \in {"recording", "skipping"} /\ n \in current
  <2>1. lines[n] \in {0, 1}
    BY <2>0 DEF TypeOK
  <2>2. CASE tasks = {}
    <3>1. Cardinality(tasks) = 0
      BY <2>2, FS_EmptySet
    <3>2. held => lines[n] = 0 /\ fate[n] \in {"ran", "gated", "missed"}
      BY <2>0 DEF LaneHasItsBatch, Skipped
    <3>3. IF fate[n] \in {"ran", "gated", "missed"}
          THEN lines[n] = 1 \/ held \/ stop # "no"
          ELSE lines[n] = 0
      BY <2>0, <2>2 DEF LinesAreDue
    <3> HIDE DEF tasks
    <3>4. IF fate[n] \in {"ran", "gated", "missed"}
          THEN \/ lines[n] + ((IF held THEN 1 ELSE 0) + Cardinality(tasks)) = 1
               \/ stop # "no" /\ lines[n] + ((IF held THEN 1 ELSE 0) + Cardinality(tasks)) = 0
          ELSE lines[n] + ((IF held THEN 1 ELSE 0) + Cardinality(tasks)) = 0
      BY <2>1, <3>1, <3>2, <3>3
    <3> QED
      BY <3>4 DEF tasks
  <2>3. CASE tasks # {}
    <3>1. PICK b \in skips : n \in b
      BY <2>3
    <3>2. tasks = {b}
      BY <2>0, <3>1 DEF SkipsAreApart
    <3>3. Cardinality(tasks) = 1
      BY <3>2, FS_Singleton
    <3>4. lines[n] = 0 /\ ~held /\ fate[n] \in {"ran", "gated", "missed"}
      BY <2>0, <3>1 DEF SkipsAreApart, Skipped
    <3> HIDE DEF tasks
    <3>5. lines[n] + ((IF held THEN 1 ELSE 0) + Cardinality(tasks)) = 1
      BY <3>3, <3>4
    <3> QED
      BY <3>4, <3>5 DEF tasks
  <2> QED
    BY <2>2, <2>3
<1> QED
  BY <1>1, AutoInvariant, PTL

-------------------------------------------------------------------------------
(* What was run or cut and is not in the ledger. *)
Lost == {n \in Fires : fate[n] \in {"ran", "cut"} /\ lines[n] = 0}

(* As long as the lane is alive that is the batch in its hand, and when it  *)
(* has stopped, the batch that was: of a schedule or a manual spec one fire. *)
LostIsOneBatch ==
  /\ Alive => Lost \subseteq current
  /\ trigger # "watch" => \A m, n \in Lost : m = n

LEMMA OneFireInHand ==
  ASSUME TypeOK, trigger # "watch", NEW m \in current, NEW n \in current
  PROVE  m = n
<1> SUFFICES ASSUME m # n PROVE FALSE
  OBVIOUS
<1>1. IsFiniteSet(Fires)
  BY AutomationAssumption, FS_Interval DEF Fires
<1>2. IsFiniteSet(current)
  BY <1>1, FS_Subset DEF TypeOK
<1>3. IsFiniteSet({m}) /\ Cardinality({m}) = 1
  BY FS_Singleton
<1>4. IsFiniteSet({m} \cup {n}) /\ Cardinality({m} \cup {n}) = 2
  BY <1>3, FS_AddElement
<1>5. Cardinality({m} \cup {n}) <= Cardinality(current)
  BY <1>2, FS_Subset
<1>6. Cardinality(current) <= 1
  BY DEF TypeOK
<1>7. Cardinality(current) \in Nat
  BY <1>2, FS_CardinalityType
<1>8. 2 <= Cardinality(current)
  BY <1>4, <1>5
<1> QED
  BY <1>6, <1>7, <1>8

LEMMA LostStep ==
  ASSUME AutoInv, LostIsOneBatch, [Next]_vars
  PROVE  LostIsOneBatch'
<1> USE DEF Lost, Alive, LostIsOneBatch
<1>0. TypeOK /\ LaneHasItsBatch
  BY DEF AutoInv
<1>1. trigger' = trigger
  BY DEF Next, Release, CheckPaths, Admit, Gate, EndDrain, Record, RecordGate, RecordFails,
         Skip, SkipFails, CancelSkip, Signal, CancelLane, Exit, vars
<1>2. ASSUME Lost' \subseteq Lost, current' = current, Alive' = Alive PROVE LostIsOneBatch'
  BY <1>1, <1>2
<1>3. ASSUME Lost' \subseteq current, Alive' => current' = current PROVE LostIsOneBatch'
  BY <1>0, <1>1, <1>3, OneFireInHand
<1>4. ASSUME Lost' = {} PROVE LostIsOneBatch'
  BY <1>4
<1>5. Alive /\ lane \notin {"recording"} => Lost = {}
  BY <1>0 DEF LaneHasItsBatch, Skipped
<1>6. ASSUME NEW n \in Fires, Release(n) PROVE LostIsOneBatch'
  BY <1>0, <1>2, <1>6 DEF Release, TypeOK
<1>7. CASE CheckPaths
  BY <1>4, <1>5, <1>7 DEF CheckPaths
<1>8. CASE Admit \/ \E f \in {"gated", "missed"} : Gate(f)
  BY <1>4, <1>5, <1>8 DEF Admit, Gate, Mark
<1>9. ASSUME NEW e \in Ends, EndDrain(e) PROVE LostIsOneBatch'
  <2>1. \A n \in Fires : fate'[n] = IF n \in current THEN e ELSE fate[n]
    BY <1>9 DEF EndDrain, Mark
  <2>2. lines' = lines /\ Lost = {}
    BY <1>5, <1>9 DEF EndDrain
  <2>3. CASE e = "ran"
    <3>1. Lost' \subseteq current /\ current' = current
      BY <1>9, <2>1, <2>2, <2>3 DEF EndDrain
    <3> QED
      BY <1>3, <3>1
  <2>4. CASE e # "ran"
    <3>1. Lost' = {}
      BY <2>1, <2>2, <2>4 DEF Ends
    <3> QED
      BY <1>4, <3>1
  <2> QED
    BY <2>3, <2>4
<1>10. CASE Record
  <2>1. \A n \in Fires : lines'[n] = IF n \in current THEN lines[n] + 1 ELSE lines[n]
    BY <1>10 DEF Record, Line
  <2>2. fate' = fate /\ Lost \subseteq current
    BY <1>10 DEF Record
  <2>3. Lost' = {}
    BY <1>0, <2>1, <2>2 DEF TypeOK
  <2> QED
    BY <1>4, <2>3
<1>11. CASE RecordGate
  <2>1. /\ \A n \in Fires : lines'[n] = IF n \in current THEN lines[n] + 1 ELSE lines[n]
        /\ fate' = fate /\ Lost = {}
    BY <1>5, <1>11 DEF RecordGate, Line
  <2>2. Lost' = {}
    BY <1>0, <2>1 DEF TypeOK
  <2> QED
    BY <1>4, <2>2
<1>12. CASE RecordFails
  <2>1. Lost' \subseteq current /\ ~Alive'
    BY <1>12 DEF RecordFails
  <2> QED
    BY <1>3, <2>1
<1>13. CASE CancelLane
  <2>1. Lost \subseteq current /\ ~Alive'
    BY <1>13 DEF CancelLane
  <2>2. Lost' \subseteq current
    <3>1. CASE lane = "draining"
      BY <1>13, <2>1, <3>1 DEF CancelLane, Mark
    <3>2. CASE lane # "draining"
      BY <1>13, <2>1, <3>2 DEF CancelLane
    <3> QED
      BY <3>1, <3>2
  <2> QED
    BY <1>3, <2>1, <2>2
<1>14. ASSUME NEW b \in skips, Skip(b) PROVE LostIsOneBatch'
  <2>1. /\ \A n \in Fires : lines'[n] = IF n \in b THEN lines[n] + 1 ELSE lines[n]
        /\ UNCHANGED <<fate, lane, current>>
    BY <1>14 DEF Skip, Line
  <2>2. Lost' \subseteq Lost
    BY <1>0, <2>1 DEF TypeOK
  <2> QED
    BY <1>2, <2>1, <2>2
<1>15. ASSUME NEW b \in skips, SkipFails(b) \/ CancelSkip(b) PROVE LostIsOneBatch'
  BY <1>2, <1>15 DEF SkipFails, CancelSkip
<1>16. CASE Signal \/ Exit \/ UNCHANGED vars
  BY <1>2, <1>16 DEF Signal, Exit, vars
<1> QED
  BY <1>6, <1>7, <1>8, <1>9, <1>10, <1>11, <1>12, <1>13, <1>14, <1>15, <1>16 DEF Next

(* A signal or a failing disk, whenever it comes, takes at most one run of  *)
(* a schedule from the ledger: the one in hand.  Run automation_shutdown    *)
(* shows that it does take that one (automation.py 349-407). *)
THEOREM ShutdownLosesOneRun == Spec => [](trigger # "watch" => \A m, n \in Lost : m = n)
<1>1. Init => LostIsOneBatch
  BY DEF Init, LostIsOneBatch, Lost
<1>2. AutoInv /\ LostIsOneBatch /\ [Next]_vars => LostIsOneBatch'
  BY LostStep
<1>3. LostIsOneBatch => (trigger # "watch" => \A m, n \in Lost : m = n)
  BY DEF LostIsOneBatch
<1> QED
  BY <1>1, <1>2, <1>3, AutoInvariant, PTL DEF Spec

-------------------------------------------------------------------------------
(* The ticks of a schedule that wait fit the fire stream: one more is       *)
(* dropped, never a sender blocked. *)
BufferBound == trigger = "schedule" => Cardinality(Queued) <= FireBuffer

LEMMA BufferStep ==
  ASSUME TypeOK, BufferBound, [Next]_vars
  PROVE  BufferBound'
<1>0. IsFiniteSet(Queued) /\ IsFiniteSet(Queued')
  <2>1. IsFiniteSet(Fires)
    BY AutomationAssumption, FS_Interval DEF Fires
  <2>2. Queued \subseteq Fires /\ Queued' \subseteq Fires
    BY DEF Queued
  <2> QED
    BY <2>1, <2>2, FS_Subset
<1>1. /\ Cardinality(Queued) \in Nat /\ Cardinality(Queued') \in Nat
      /\ FireBuffer \in Nat
  BY <1>0, FS_CardinalityType, AutomationAssumption
<1>2. trigger' = trigger
  BY DEF Next, Release, CheckPaths, Admit, Gate, EndDrain, Record, RecordGate, RecordFails,
         Skip, SkipFails, CancelSkip, Signal, CancelLane, Exit, vars
<1>3. ASSUME Queued' \subseteq Queued PROVE BufferBound'
  <2>1. Cardinality(Queued') <= Cardinality(Queued)
    BY <1>0, <1>3, FS_Subset
  <2> QED
    BY <1>1, <1>2, <2>1 DEF BufferBound
<1>4. ASSUME NEW n \in Fires, Release(n) PROVE BufferBound'
  <2> SUFFICES ASSUME trigger = "schedule" PROVE Cardinality(Queued') <= FireBuffer
    BY <1>2 DEF BufferBound
  <2>1. CASE Cardinality(Queued) >= FireBuffer
    <3>1. Queued' \subseteq Queued
      BY <1>4, <2>1 DEF Release, Queued, TypeOK
    <3> QED
      BY <1>2, <1>3, <3>1 DEF BufferBound
  <2>2. CASE ~(Cardinality(Queued) >= FireBuffer)
    <3>1. Queued' = Queued \cup {n}
      BY <1>4, <2>2 DEF Release, Queued, TypeOK
    <3>2. Cardinality(Queued') \in {Cardinality(Queued), Cardinality(Queued) + 1}
      BY <1>0, <3>1, FS_AddElement
    <3> QED
      BY <1>1, <2>2, <3>2
  <2> QED
    BY <2>1, <2>2
<1>5. CASE Admit \/ \E f \in {"gated", "missed"} : Gate(f)
  BY <1>3, <1>5 DEF Admit, Gate, Mark, Queued
<1>6. ASSUME NEW e \in Ends, EndDrain(e) PROVE BufferBound'
  BY <1>3, <1>6 DEF EndDrain, Mark, Queued, Ends
<1>7. CASE CancelLane
  BY <1>3, <1>7 DEF CancelLane, Mark, Queued
<1>8. CASE UNCHANGED fate
  BY <1>3, <1>8 DEF Queued
<1> QED
  BY <1>4, <1>5, <1>6, <1>7, <1>8
     DEF Next, CheckPaths, Record, RecordGate, RecordFails, Skip, SkipFails, CancelSkip, Signal,
         Exit, vars

(* However fast the ticks and however slow the action (runtime.py 585-593). *)
THEOREM FireBufferHolds == Spec => []BufferBound
<1>1. ASSUME Init PROVE BufferBound
  <2>1. Queued = {}
    BY <1>1 DEF Init, Queued
  <2> QED
    BY <2>1, FS_EmptySet, AutomationAssumption DEF BufferBound
<1>2. AutoInv /\ BufferBound /\ [Next]_vars => BufferBound'
  BY BufferStep DEF AutoInv
<1> QED
  BY <1>1, <1>2, AutoInvariant, PTL DEF Spec
===============================================================================
