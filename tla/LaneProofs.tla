------------------------------- MODULE LaneProofs -------------------------------
(***************************************************************************)
(* Theorems about LaneDrain, for any number of drains, units, attempts and *)
(* any policies.  LaneInv ties what a lane has done to the phase it is in  *)
(* (its effects never outnumber its attempts) and the phases of the lanes  *)
(* to the state of their drain (a returned drain has only ended lanes, and *)
(* a lane ends unsent only under a deadline or an interruption).           *)
(***************************************************************************)
EXTENDS LaneDrain, FiniteSetTheorems, TLAPS

(* Effects never outnumber attempts, and an attempt in progress is counted. *)
EffectsAreAttempts ==
  \A u \in Units :
    /\ phase[u] \in {"unborn", "waiting"} => attempt[u] = 0
    /\ phase[u] = "backoff" => attempt[u] < Attempts
    /\ phase[u] = "working" => effects[u] < attempt[u]
    /\ effects[u] <= attempt[u]
    /\ phase[u] \in {"ready", "sent"} => rail[u] \in {"ok"} \cup Faults
    /\ phase[u] \in {"ready", "sent"} /\ rail[u] = "ok" => effects[u] > 0

(* The lanes of a drain are where its state says. *)
LanesFollowScopes ==
  \A u \in Units :
    /\ scope[u[1]] = "idle" => phase[u] = "unborn"
    /\ scope[u[1]] \in {"closed", "abandoned"} => phase[u] \in {"sent", "ended"}
    /\ phase[u] = "ended" => scope[u[1]] # "open"
    /\ phase[u] = "ended" /\ scope[u[1]] \in {"expired", "closed"} => u[1] \in Timed
    /\ scope[u[1]] = "expired" => u[1] \in Timed

LaneInv == TypeOK /\ EffectsAreAttempts /\ LanesFollowScopes

-------------------------------------------------------------------------------
LEMMA LaneInvInitially == ASSUME Init PROVE LaneInv
<1>1. TypeOK
  BY LaneAssumption DEF Init, TypeOK, Phases, Rails, Scopes, DrainReceipt, NoReceipt
<1>2. EffectsAreAttempts
  BY DEF Init, EffectsAreAttempts
<1>3. LanesFollowScopes
  BY DEF Init, LanesFollowScopes, Units
<1> QED
  BY <1>1, <1>2, <1>3 DEF LaneInv

(* What a receipt counts are numbers, whatever the stream holds. *)
LEMMA ReceiptIsTyped ==
  ASSUME NEW d \in Drains
  PROVE  /\ ReceiptOf(d) \in DrainReceipt
         /\ ReceiptOf(d).cancelled = 0 \/ \E u \in UnitsOf(d) : phase[u] # "sent"
<1>1. IsFiniteSet(UnitsOf(d))
  <2>1. IsFiniteSet(Units)
    BY LaneAssumption, FS_Product DEF Units
  <2> QED
    BY <2>1, FS_Subset DEF UnitsOf
<1>2. /\ IsFiniteSet(Stream(d)) /\ Cardinality(Stream(d)) <= Cardinality(UnitsOf(d))
      /\ Cardinality(Stream(d)) = Cardinality(UnitsOf(d)) => Stream(d) = UnitsOf(d)
  BY <1>1, FS_Subset DEF Stream
<1> DEFINE values == {u \in Stream(d) : rail[u] = "ok"}
           faults == {u \in Stream(d) : rail[u] \in Faults}
<1>3. IsFiniteSet(values) /\ IsFiniteSet(faults)
  BY <1>2, FS_Subset
<1>4. /\ Cardinality(UnitsOf(d)) \in Nat /\ Cardinality(Stream(d)) \in Nat
      /\ Cardinality(values) \in Nat /\ Cardinality(faults) \in Nat
  BY <1>1, <1>2, <1>3, FS_CardinalityType
<1>5. Cardinality(UnitsOf(d)) - Cardinality(Stream(d)) \in Nat
  BY <1>2, <1>4
<1>6. Stream(d) = UnitsOf(d) \/ \E u \in UnitsOf(d) : phase[u] # "sent"
  BY DEF Stream
<1> QED
  BY <1>2, <1>4, <1>5, <1>6 DEF ReceiptOf, DrainReceipt

(* Every step keeps types, counts of attempts, phases and scopes. *)
LEMMA LaneInvSteps == ASSUME LaneInv, [Next]_vars PROVE LaneInv'
<1> USE DEF LaneInv
<1> USE LaneAssumption
<1>0. policy' = policy /\ Timed' = Timed
  BY DEF Next, vars, Timed
<1> USE <1>0
<1>1. CASE UNCHANGED vars
  BY <1>1 DEF vars, TypeOK, EffectsAreAttempts, LanesFollowScopes
<1>2. ASSUME NEW d \in Drains, drain(d) PROVE LaneInv'
  <2>1. TypeOK'
    BY <1>2 DEF drain, TypeOK, Phases, Scopes
  <2>2. \A u \in Units : u[1] = d => phase[u] = "unborn"
    BY <1>2 DEF drain, LanesFollowScopes
  <2>3. EffectsAreAttempts'
    BY <1>2, <2>2 DEF drain, TypeOK, EffectsAreAttempts
  <2>4. LanesFollowScopes'
    BY <1>2, <2>2 DEF drain, TypeOK, LanesFollowScopes, Units
  <2> QED
    BY <2>1, <2>3, <2>4
<1>3. ASSUME NEW u \in Units, Acquire(u) PROVE LaneInv'
  <2>1. TypeOK'
    BY <1>3 DEF Acquire, TypeOK, Phases, EffectsAreAttempts
  <2>2. EffectsAreAttempts'
    BY <1>3 DEF Acquire, TypeOK, EffectsAreAttempts
  <2>3. LanesFollowScopes'
    BY <1>3 DEF Acquire, Running, TypeOK, LanesFollowScopes
  <2> QED
    BY <2>1, <2>2, <2>3
<1>4. ASSUME NEW u \in Units, Succeed(u) PROVE LaneInv'
  <2>1. TypeOK'
    BY <1>4 DEF Succeed, TypeOK, Phases, Rails, EffectsAreAttempts
  <2>2. EffectsAreAttempts'
    BY <1>4 DEF Succeed, TypeOK, EffectsAreAttempts
  <2>3. LanesFollowScopes'
    BY <1>4 DEF Succeed, TypeOK, LanesFollowScopes
  <2> QED
    BY <2>1, <2>2, <2>3
<1>5. ASSUME NEW u \in Units, NEW f \in Faults, NEW took \in {0, 1}, Falter(u, f, took)
      PROVE  LaneInv'
  <2>1. TypeOK'
    <3>1. phase' \in [Units -> Phases]
      BY <1>5 DEF Falter, Graded, TypeOK, Phases
    <3>2. rail' \in [Units -> Rails]
      BY <1>5 DEF Falter, TypeOK, Rails
    <3>3. effects' \in [Units -> 0..Attempts]
      <4>1. effects[u] + took \in 0..Attempts
        BY <1>5 DEF Falter, TypeOK, EffectsAreAttempts
      <4> QED
        BY <1>5, <4>1 DEF Falter, TypeOK
    <3>4. spent' \in [Units -> BOOLEAN]
      BY <1>5 DEF Falter, TypeOK
    <3> QED
      BY <1>5, <3>1, <3>2, <3>3, <3>4 DEF Falter, TypeOK
  <2>2. EffectsAreAttempts'
    BY <1>5 DEF Falter, Graded, RetryLeft, TypeOK, EffectsAreAttempts, Faults
  <2>3. LanesFollowScopes'
    BY <1>5 DEF Falter, Graded, TypeOK, LanesFollowScopes
  <2> QED
    BY <2>1, <2>2, <2>3
<1>6. ASSUME NEW u \in Units, Retry(u) PROVE LaneInv'
  <2>1. TypeOK'
    BY <1>6 DEF Retry, TypeOK, Phases, EffectsAreAttempts
  <2>2. EffectsAreAttempts'
    BY <1>6 DEF Retry, TypeOK, EffectsAreAttempts
  <2>3. LanesFollowScopes'
    BY <1>6 DEF Retry, Running, TypeOK, LanesFollowScopes
  <2> QED
    BY <2>1, <2>2, <2>3
<1>7. ASSUME NEW u \in Units, Send(u) PROVE LaneInv'
  <2>1. TypeOK'
    BY <1>7 DEF Send, TypeOK, Phases
  <2>2. EffectsAreAttempts'
    BY <1>7 DEF Send, TypeOK, EffectsAreAttempts
  <2>3. LanesFollowScopes'
    BY <1>7 DEF Send, Running, TypeOK, LanesFollowScopes
  <2> QED
    BY <2>1, <2>2, <2>3
<1>8. ASSUME NEW u \in Units, NEW took \in {0, 1}, Cancel(u, took) PROVE LaneInv'
  <2>1. TypeOK'
    BY <1>8 DEF Cancel, TypeOK, Phases, Rails, EffectsAreAttempts
  <2>2. EffectsAreAttempts'
    BY <1>8 DEF Cancel, TypeOK, EffectsAreAttempts
  <2>3. LanesFollowScopes'
    BY <1>8 DEF Cancel, Cancelling, TypeOK, LanesFollowScopes
  <2> QED
    BY <2>1, <2>2, <2>3
<1>9. ASSUME NEW d \in Drains, Expire(d) PROVE LaneInv'
  BY <1>9 DEF Expire, Running, TypeOK, Scopes, EffectsAreAttempts, LanesFollowScopes
<1>10. ASSUME NEW d \in Drains, Interrupt(d) PROVE LaneInv'
  BY <1>10 DEF Interrupt, TypeOK, Scopes, EffectsAreAttempts, LanesFollowScopes
<1>11. ASSUME NEW d \in Drains, Close(d) PROVE LaneInv'
  <2>1. TypeOK'
    BY <1>11, ReceiptIsTyped DEF Close, TypeOK, Scopes
  <2>2. EffectsAreAttempts'
    BY <1>11 DEF Close, EffectsAreAttempts
  <2>3. LanesFollowScopes'
    BY <1>11 DEF Close, LanesEnded, UnitsOf, TypeOK, LanesFollowScopes
  <2> QED
    BY <2>1, <2>2, <2>3
<1>12. ASSUME NEW d \in Drains, Abandon(d) PROVE LaneInv'
  <2>1. TypeOK' /\ EffectsAreAttempts'
    BY <1>12 DEF Abandon, TypeOK, Scopes, EffectsAreAttempts
  <2>2. LanesFollowScopes'
    BY <1>12 DEF Abandon, LanesEnded, UnitsOf, TypeOK, LanesFollowScopes
  <2> QED
    BY <2>1, <2>2
<1> QED
  BY <1>1, <1>2, <1>3, <1>4, <1>5, <1>6, <1>7, <1>8, <1>9, <1>10, <1>11, <1>12
     DEF Next, Finish

(* The invariant the theorems below rest on. *)
LEMMA LaneInvariant == Spec => []LaneInv
  BY LaneInvInitially, LaneInvSteps, PTL DEF Spec

-------------------------------------------------------------------------------
(* Every reachable state has its type; in particular no unit is attempted, *)
(* or takes effect, more often than its retry class allows.                *)
THEOREM LaneTypes == Spec => []TypeOK
  BY LaneInvariant, PTL DEF LaneInv

-------------------------------------------------------------------------------
(* The receipt of a returned drain still describes its lanes. *)
ReceiptsStand == \A d \in Drains : scope[d] = "closed" => receipt[d] = ReceiptOf(d)

(* Lanes that have ended do not change any more. *)
LEMMA EndedLanesStay ==
  ASSUME LaneInv, [Next]_vars, NEW v \in Units, scope[v[1]] = "closed"
  PROVE  phase'[v] = phase[v] /\ rail'[v] = rail[v]
<1>1. phase[v] \in {"sent", "ended"}
  BY DEF LaneInv, LanesFollowScopes
<1> USE <1>1 DEF LaneInv, TypeOK
<1>2. CASE UNCHANGED vars
  BY <1>2 DEF vars
<1>3. ASSUME NEW d \in Drains,
             drain(d) \/ Expire(d) \/ Interrupt(d) \/ Close(d) \/ Abandon(d)
      PROVE  phase'[v] = phase[v] /\ rail'[v] = rail[v]
  BY <1>3 DEF drain, Expire, Interrupt, Close, Abandon
<1>4. ASSUME NEW u \in Units, Acquire(u) \/ Succeed(u) \/ Retry(u) \/ Send(u)
      PROVE  phase'[v] = phase[v] /\ rail'[v] = rail[v]
  BY <1>4 DEF Acquire, Succeed, Retry, Send
<1>5. ASSUME NEW u \in Units, NEW f \in Faults, NEW took \in {0, 1}, Falter(u, f, took)
      PROVE  phase'[v] = phase[v] /\ rail'[v] = rail[v]
  <2>1. u # v
    BY <1>5 DEF Falter
  <2> QED
    BY <1>5, <2>1 DEF Falter, Graded
<1>6. ASSUME NEW u \in Units, NEW took \in {0, 1}, Cancel(u, took)
      PROVE  phase'[v] = phase[v] /\ rail'[v] = rail[v]
  BY <1>6 DEF Cancel, Cancelling, Holding
<1> QED
  BY <1>2, <1>3, <1>4, <1>5, <1>6 DEF Next, Finish

(* A step changes neither the receipt of a returned drain nor its lanes. *)
LEMMA ReceiptsStandSteps ==
  ASSUME LaneInv, ReceiptsStand, [Next]_vars
  PROVE  ReceiptsStand'
<1> SUFFICES ASSUME NEW d \in Drains, scope'[d] = "closed"
             PROVE  receipt'[d] = ReceiptOf(d)'
  BY DEF ReceiptsStand
<1>1. CASE scope[d] = "closed"
  <2>1. \A v \in UnitsOf(d) : phase'[v] = phase[v] /\ rail'[v] = rail[v]
    BY <1>1, EndedLanesStay DEF UnitsOf
  <2>2. Stream(d)' = Stream(d)
    BY <2>1 DEF Stream, UnitsOf
  <2>3. \A v \in Stream(d) : rail'[v] = rail[v]
    BY <2>1 DEF Stream
  <2>4. /\ {u \in Stream(d) : rail[u] = "ok"}' = {u \in Stream(d) : rail[u] = "ok"}
        /\ {u \in Stream(d) : rail[u] \in Faults}' = {u \in Stream(d) : rail[u] \in Faults}
    BY <2>2, <2>3
  <2>5. ReceiptOf(d)' = ReceiptOf(d)
    BY <2>2, <2>4 DEF ReceiptOf, UnitsOf
  <2>6. receipt'[d] = receipt[d]
    <3>1. CASE UNCHANGED vars
      BY <3>1 DEF vars
    <3>2. ASSUME NEW e \in Drains, Close(e) PROVE receipt'[d] = receipt[d]
      BY <1>1, <3>2 DEF Close, LaneInv, TypeOK
    <3>3. CASE UNCHANGED receipt
      BY <3>3
    <3> QED
      BY <3>1, <3>2, <3>3
         DEF Next, Finish, drain, Expire, Interrupt, Abandon, Acquire, Succeed, Falter,
             Retry, Send, Cancel
  <2> QED
    BY <1>1, <2>5, <2>6 DEF ReceiptsStand
<1>2. CASE scope[d] # "closed"
  <2>1. ~UNCHANGED scope
    BY <1>2
  <2>2. PICK e \in Drains : Close(e) \/ drain(e) \/ Expire(e) \/ Interrupt(e) \/ Abandon(e)
    BY <2>1 DEF Next, Finish, Acquire, Succeed, Falter, Retry, Send, Cancel, vars
  <2>3. e = d /\ Close(d)
    BY <1>2, <2>2 DEF Close, drain, Expire, Interrupt, Abandon, LaneInv, TypeOK
  <2>4. ReceiptOf(d)' = ReceiptOf(d)
    BY <2>3 DEF Close, ReceiptOf, Stream, UnitsOf
  <2> QED
    BY <2>3, <2>4 DEF Close, LaneInv, TypeOK
<1> QED
  BY <1>1, <1>2

(* The cardinality of a set in two disjoint parts. *)
LEMMA DisjointParts ==
  ASSUME NEW S, NEW A, NEW B, IsFiniteSet(A), IsFiniteSet(B),
         S = A \cup B, A \cap B = {}
  PROVE  Cardinality(S) = Cardinality(A) + Cardinality(B)
<1>1. Cardinality(A \cap B) = 0
  BY FS_EmptySet
<1>2. Cardinality(A \cup B) = Cardinality(A) + Cardinality(B) - Cardinality(A \cap B)
  BY FS_Union
<1>3. Cardinality(A) \in Nat /\ Cardinality(B) \in Nat
  BY FS_CardinalityType
<1> QED
  BY <1>1, <1>2, <1>3

(* A receipt that describes the lanes of its drain adds up. *)
LEMMA StandingReceiptsAddUp ==
  ASSUME LaneInv, ReceiptsStand
  PROVE  ReceiptsAddUp
<1> SUFFICES ASSUME NEW d \in Drains, scope[d] = "closed"
             PROVE  /\ receipt[d].accepted =
                         receipt[d].completed + receipt[d].rejected + receipt[d].cancelled
                    /\ receipt[d].completed
                         <= Cardinality({u \in UnitsOf(d) : effects[u] > 0})
                    /\ receipt[d].cancelled > 0 => d \in Timed
  BY DEF ReceiptsAddUp
<1> DEFINE values == {u \in Stream(d) : rail[u] = "ok"}
           faults == {u \in Stream(d) : rail[u] \in Faults}
           effective == {u \in UnitsOf(d) : effects[u] > 0}
<1>1. IsFiniteSet(UnitsOf(d)) /\ IsFiniteSet(Stream(d))
  <2>1. IsFiniteSet(UnitsOf(d))
    BY LaneAssumption, FS_Product, FS_Subset DEF Units, UnitsOf
  <2> QED
    BY <2>1, FS_Subset DEF Stream
<1>2. IsFiniteSet(values) /\ IsFiniteSet(faults) /\ IsFiniteSet(effective)
  BY <1>1, FS_Subset
<1>3. receipt[d] = ReceiptOf(d)
  BY DEF ReceiptsStand
<1>4. Cardinality(Stream(d)) = Cardinality(values) + Cardinality(faults)
  <2>1. Stream(d) = values \cup faults
    BY DEF Stream, UnitsOf, LaneInv, EffectsAreAttempts
  <2>2. values \cap faults = {}
    BY DEF Faults
  <2> QED
    BY <1>2, <2>1, <2>2, DisjointParts
<1>5. Cardinality(values) <= Cardinality(effective)
  <2>1. values \subseteq effective
    BY DEF Stream, UnitsOf, LaneInv, EffectsAreAttempts
  <2> QED
    BY <1>2, <2>1, FS_Subset
<1>6. ReceiptOf(d).cancelled > 0 => d \in Timed
  <2> SUFFICES ASSUME ReceiptOf(d).cancelled > 0 PROVE d \in Timed
    OBVIOUS
  <2>1. ReceiptOf(d).cancelled # 0
    OBVIOUS
  <2>2. PICK u \in UnitsOf(d) : phase[u] # "sent"
    BY <2>1, ReceiptIsTyped
  <2> QED
    BY <2>2 DEF UnitsOf, LaneInv, LanesFollowScopes
<1>7. /\ Cardinality(UnitsOf(d)) \in Nat /\ Cardinality(values) \in Nat
      /\ Cardinality(faults) \in Nat
  BY <1>1, <1>2, FS_CardinalityType
<1> QED
  BY <1>3, <1>4, <1>5, <1>6, <1>7 DEF ReceiptOf

(* Every receipt accounts for every unit once, claims only what took       *)
(* effect, and reports a cancellation only under a deadline.               *)
THEOREM ReceiptsAccount == Spec => []ReceiptsAddUp
<1>1. Init => ReceiptsStand
  BY DEF Init, ReceiptsStand
<1> QED
  BY <1>1, ReceiptsStandSteps, StandingReceiptsAddUp, LaneInvariant, PTL DEF Spec
-------------------------------------------------------------------------------
(* A drain has one unit for each slot. *)
LEMMA OneUnitForEachSlot ==
  ASSUME NEW d \in Drains
  PROVE  IsFiniteSet(UnitsOf(d)) /\ Cardinality(UnitsOf(d)) = Cardinality(Slots)
<1>1. UnitsOf(d) = {d} \X Slots
  BY DEF UnitsOf, Units
<1>2. IsFiniteSet({d}) /\ Cardinality({d}) = 1
  BY FS_Singleton
<1>3. Cardinality(Slots) \in Nat
  BY LaneAssumption, FS_CardinalityType
<1>4. IsFiniteSet({d} \X Slots) /\ Cardinality({d} \X Slots) = Cardinality({d}) * Cardinality(Slots)
  BY <1>2, LaneAssumption, FS_Product
<1> QED BY <1>1, <1>2, <1>3, <1>4

LEMMA ReadyLanesFindRoom ==
  ASSUME NEW u \in Units, phase[u] = "ready"
  PROVE  StreamHasRoom(u[1])
<1>1. u[1] \in Drains /\ u \in UnitsOf(u[1]) /\ u \notin Stream(u[1])
  BY DEF Units, UnitsOf, Stream
<1>2. IsFiniteSet(UnitsOf(u[1])) /\ Cardinality(UnitsOf(u[1])) = Cardinality(Slots)
  BY <1>1, OneUnitForEachSlot
<1>3. Stream(u[1]) \subseteq UnitsOf(u[1]) /\ Stream(u[1]) # UnitsOf(u[1])
  BY <1>1 DEF Stream
<1>4. IsFiniteSet(Stream(u[1])) /\ Cardinality(Stream(u[1])) <= Cardinality(UnitsOf(u[1]))
      /\ Cardinality(Stream(u[1])) # Cardinality(UnitsOf(u[1]))
  BY <1>2, <1>3, FS_Subset
<1>5. Cardinality(Stream(u[1])) \in Nat /\ Cardinality(Slots) \in Nat
  BY <1>4, LaneAssumption, FS_CardinalityType
<1> QED BY <1>2, <1>4, <1>5 DEF StreamHasRoom, Buffer

(* Whatever the drains, their policies and how many share one: limiter and  *)
(* stream deadlock no lane (runtime.py 538, 541, 549). *)
THEOREM LanesDoNotBlock == Spec => []NoLaneIsStuck
<1>1. ASSUME LaneInv PROVE NoLaneIsStuck
  <2> SUFFICES ASSUME NEW u \in Units, phase[u] = "waiting", ~Free(u)
               PROVE  \E v \in Holders(u) : CanGoOn(v)
    BY ReadyLanesFindRoom DEF NoLaneIsStuck
  <2>1. policy[u[1]].capacity \in Nat \ {0}
    BY <1>1, LaneAssumption DEF LaneInv, TypeOK, LanePolicy, Units
  <2>2. Holders(u) # {}
    BY <2>1, FS_EmptySet DEF Free
  <2>3. PICK v \in Holders(u) : TRUE
    BY <2>2
  <2>4. v \in Units /\ phase[v] \in {"working", "backoff", "ready"} /\ v[1] \in Drains
    BY DEF Holders, Holding, Units
  <2>5. scope[v[1]] \in {"open", "expired", "interrupted"}
    BY <1>1, <2>4 DEF LaneInv, LanesFollowScopes, TypeOK, Scopes
  <2> QED BY <2>4, <2>5, ReadyLanesFindRoom DEF CanGoOn
<1> QED BY <1>1, LaneInvariant, PTL

-------------------------------------------------------------------------------
(* The drain implements AtLeastOnce.  While a drain is under way its caller *)
(* has heard of none of its units. *)
LEMMA HeardOnReturn ==
  ASSUME NEW u \in Units
  PROVE  /\ scope[u[1]] \notin {"closed", "abandoned"} => Heard(u) = "none"
         /\ scope[u[1]] \in {"closed", "abandoned"} => Heard(u) \in Work!Words
         /\ Heard(u) = "done" => scope[u[1]] = "closed" /\ phase[u] = "sent" /\ rail[u] = "ok"
BY DEF Heard, Work!Words

(* A drain that stays under way, or has returned, is heard of no further. *)
LEMMA HeardStays ==
  ASSUME LaneInv, [Next]_vars, NEW u \in Units,
         scope'[u[1]] = scope[u[1]]
         \/ {scope[u[1]], scope'[u[1]]} \cap {"closed", "abandoned"} = {}
  PROVE  Heard(u)' = Heard(u)
<1>1. CASE scope'[u[1]] = "closed" /\ scope[u[1]] = "closed"
  BY <1>1, EndedLanesStay DEF Heard
<1>2. CASE scope'[u[1]] = "abandoned" /\ scope[u[1]] = "abandoned"
  BY <1>2 DEF Heard
<1>3. CASE {scope[u[1]], scope'[u[1]]} \cap {"closed", "abandoned"} = {}
  BY <1>3 DEF Heard
<1> QED BY <1>1, <1>2, <1>3

(* A drain that returns reports its units, and as done only those that took *)
(* effect. *)
LEMMA ReturnsAreReports ==
  ASSUME LaneInv, [Next]_vars, NEW d \in Drains, Close(d) \/ Abandon(d)
  PROVE  Work!Next
<1> USE DEF LaneInv
<1>1. /\ scope[d] \notin {"closed", "abandoned"} /\ scope'[d] \in {"closed", "abandoned"}
      /\ \A e \in Drains : e # d => scope'[e] = scope[e]
      /\ UNCHANGED <<phase, rail, effects>>
  BY DEF Close, Abandon, TypeOK
<1>2. \A u \in Units : u[1] = d => Heard(u) = "none" /\ Heard(u)' \in Work!Words
  <2> SUFFICES ASSUME NEW u \in Units, u[1] = d
               PROVE  Heard(u) = "none" /\ Heard(u)' \in Work!Words
    OBVIOUS
  <2>1. Heard(u) = "none"
    BY <1>1, HeardOnReturn
  <2>2. Heard(u)' \in Work!Words
    BY <1>1 DEF Heard, Work!Words
  <2> QED BY <2>1, <2>2
<1>3. \A u \in Units : u[1] = d /\ Heard(u)' = "done" => effects[u] > 0
  <2> SUFFICES ASSUME NEW u \in Units, u[1] = d, Heard(u)' = "done" PROVE effects[u] > 0
    OBVIOUS
  <2>1. phase[u] = "sent" /\ rail[u] = "ok"
    BY <1>1 DEF Heard
  <2> QED BY <2>1 DEF EffectsAreAttempts
<1>4. \A u \in Units : u[1] # d => Heard(u)' = Heard(u)
  <2> SUFFICES ASSUME NEW u \in Units, u[1] # d PROVE Heard(u)' = Heard(u)
    OBVIOUS
  <2>1. u[1] \in Drains
    BY DEF Units
  <2> QED BY <1>1, <2>1, HeardStays
<1>5. \A u \in Units : Heard(u)' \in Work!Words \cup {"none"}
  BY <1>2, <1>4 DEF Heard, Work!Words
<1> QED BY <1>1, <1>2, <1>3, <1>4, <1>5 DEF Work!Next, Work!Report

(* A unit takes effect only while its drain is under way, once for each of  *)
(* its attempts. *)
LEMMA EffectsHappen ==
  ASSUME LaneInv, [Next]_vars, NEW u \in Units, NEW took \in {0, 1},
         phase[u] = "working" \/ took = 0,
         effects' = [effects EXCEPT ![u] = @ + took], UNCHANGED scope
  PROVE  Work!Next \/ UNCHANGED Work!vars
<1> USE DEF LaneInv
<1>1. \A v \in Units : Heard(v)' = Heard(v)
  BY HeardStays
<1>2. CASE took = 0
  <2>1. effects' = effects
    BY <1>2 DEF TypeOK
  <2> QED BY <1>1, <2>1 DEF Work!vars
<1>3. CASE took = 1
  <2>1. effects[u] < Attempts
    BY <1>3, LaneAssumption DEF EffectsAreAttempts, TypeOK
  <2>2. scope[u[1]] \notin {"closed", "abandoned"}
    BY <1>3 DEF LanesFollowScopes
  <2>3. Heard(u) = "none"
    BY <2>2, HeardOnReturn
  <2>4. Work!Happen(u)
    BY <1>1, <1>3, <2>1, <2>3 DEF Work!Happen
  <2> QED BY <2>4 DEF Work!Next
<1> QED BY <1>2, <1>3

LEMMA LaneStepsAreWork ==
  ASSUME LaneInv, [Next]_vars
  PROVE  Work!Next \/ UNCHANGED Work!vars
<1>1. ASSUME NEW d \in Drains, drain(d) \/ Expire(d) \/ Interrupt(d)
      PROVE  UNCHANGED Work!vars
  <2>1. /\ scope[d] \notin {"closed", "abandoned"} /\ scope'[d] \notin {"closed", "abandoned"}
        /\ \A e \in Drains : e # d => scope'[e] = scope[e]
        /\ UNCHANGED effects
    BY <1>1 DEF drain, Expire, Interrupt, Running, LaneInv, TypeOK
  <2>2. \A u \in Units : Heard(u)' = Heard(u)
    <3> TAKE u \in Units
    <3>1. u[1] \in Drains
      BY DEF Units
    <3>2. scope'[u[1]] = scope[u[1]]
          \/ {scope[u[1]], scope'[u[1]]} \cap {"closed", "abandoned"} = {}
      BY <2>1, <3>1
    <3> QED BY <3>2, HeardStays
  <2> QED BY <2>1, <2>2 DEF Work!vars
<1>2. ASSUME NEW d \in Drains, Close(d) \/ Abandon(d) PROVE Work!Next
  BY <1>2, ReturnsAreReports
<1>3. ASSUME NEW u \in Units, Acquire(u) \/ Retry(u) \/ Send(u) PROVE UNCHANGED Work!vars
  <2>1. UNCHANGED <<scope, effects>>
    BY <1>3 DEF Acquire, Retry, Send
  <2>2. \A v \in Units : Heard(v)' = Heard(v)
    BY <2>1, HeardStays
  <2> QED BY <2>1, <2>2 DEF Work!vars
<1>4. ASSUME NEW u \in Units, Succeed(u) PROVE Work!Next \/ UNCHANGED Work!vars
  BY <1>4, EffectsHappen DEF Succeed
<1>5. ASSUME NEW u \in Units, NEW f \in Faults, NEW took \in {0, 1}, Falter(u, f, took)
      PROVE  Work!Next \/ UNCHANGED Work!vars
  BY <1>5, EffectsHappen DEF Falter
<1>6. ASSUME NEW u \in Units, NEW took \in {0, 1}, Cancel(u, took)
      PROVE  Work!Next \/ UNCHANGED Work!vars
  BY <1>6, EffectsHappen DEF Cancel
<1>7. CASE UNCHANGED vars
  <2>1. UNCHANGED <<scope, effects>>
    BY <1>7 DEF vars
  <2>2. \A v \in Units : Heard(v)' = Heard(v)
    BY <2>1, HeardStays
  <2> QED BY <2>1, <2>2 DEF Work!vars
<1> QED BY <1>1, <1>2, <1>3, <1>4, <1>5, <1>6, <1>7 DEF Next, Finish

(* Whatever the drains, units, attempts and capacity: a unit takes effect   *)
(* at most once per attempt, none does once its drain has returned, and a   *)
(* value that is returned stands for an effect (runtime.py 534-557). *)
THEOREM DrainsImplementAtLeastOnce == Spec => DrainsWorkAtLeastOnce
<1>1. Init => Work!Init
  <2> SUFFICES ASSUME Init PROVE Work!Init
    OBVIOUS
  <2>1. \A u \in Units : Heard(u) = "none"
    BY DEF Init, Heard, Units
  <2> QED BY <2>1 DEF Init, Work!Init
<1>2. LaneInv /\ [Next]_vars => [Work!Next]_Work!vars
  BY LaneStepsAreWork
<1> QED BY <1>1, <1>2, LaneInvariant, PTL DEF Spec, DrainsWorkAtLeastOnce, Work!SafeSpec
================================================================================
