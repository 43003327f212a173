------------------------------ MODULE EmbedProofs ------------------------------
(***************************************************************************)
(* Theorems about EmbedPipeline, for every value of its constants.  The    *)
(* invariant the others rest on is LedgerInv: a run's now() is its own, so *)
(* that the request ids drawn from it are fresh when the run commits; hence *)
(* a response joined to a receipt by its request id carries the text of    *)
(* that receipt; hence a row a drain applies carries the text its hash     *)
(* names, which the drain checks against the concept as it writes.         *)
(***************************************************************************)
EXTENDS EmbedPipeline, FiniteSetTheorems, TLAPS

Active(s) == txn[s] # Idle

(* Ids that pg_net or the ledger still know. *)
Known(id) == \/ \E r \in receipts : r.id = id
             \/ \E q \in wire : q.id = id
             \/ \E p \in responses : p.id = id

(* The now() of an open run is in the past, its own, and names no request yet. *)
RunsAreDistinct ==
  /\ \A s \in Sessions : Active(s) => txn[s].now > 0 /\ txn[s].now <= clock
  /\ \A s, u \in Sessions : Active(s) /\ txn[s].now = txn[u].now => s = u
  /\ \A id \in RequestId : Known(id) =>
       id.now <= clock /\ \A s \in Sessions : Active(s) => id.now # txn[s].now

(* A run posts a concept once, and what it applies is what it posted. *)
RunsAreCoherent ==
  \A s \in Sessions :
    /\ \A p, q \in txn[s].posts : p.concept = q.concept => p = q
    /\ \A a \in txn[s].apply : a.vector = a.hash

LedgerInv == TypeOK /\ RunsAreDistinct /\ RunsAreCoherent /\ RequestsAnswerReceipts

-------------------------------------------------------------------------------
(* A drain writes only the content a concept has as it writes. *)
LEMMA AppliedIsCurrent ==
  ASSUME TypeOK, RunsAreCoherent, NEW s \in Sessions, NEW c \in Refreshed(txn[s])
  PROVE  /\ c \in Concepts
         /\ VectorOf(txn[s], c) = content[c]
         /\ content[c] # Null
<1> DEFINE t == txn[s]
<1>1. t.apply \subseteq Application
  BY DEF TypeOK, Run
<1>2. PICK b \in Applied(t) : b.concept = c
  BY DEF Refreshed
<1>3. \E a \in Applied(t) : a.concept = c
  BY <1>2
<1>4. (CHOOSE a \in Applied(t) : a.concept = c) \in Applied(t)
      /\ (CHOOSE a \in Applied(t) : a.concept = c).concept = c
  BY <1>3
<1>5. \A a \in Applied(t) : a \in Application /\ content[a.concept] = a.hash /\ a.vector = a.hash
  BY <1>1 DEF Applied, RunsAreCoherent
<1>6. VectorOf(t, c) = content[c]
  BY <1>4, <1>5 DEF VectorOf
<1>7. c \in Concepts /\ content[c] \in Contents
  BY <1>2, <1>5 DEF Application
<1> QED
  BY <1>6, <1>7, ConstantsAssumption

(* What a drain leaves of a receipt keeps its request id and its hash. *)
LEMMA ClosedKeepsIdentity ==
  ASSUME NEW r \in Receipt, NEW t \in Run
  PROVE  /\ Closed(r, t) \in Receipt
         /\ Closed(r, t).id = r.id
         /\ Closed(r, t).hash = r.hash
BY DEF Closed, Receipt, Run

LEMMA AfterDrainComesFromReceipts ==
  ASSUME receipts \subseteq Receipt, NEW t \in Run
  PROVE  \A x \in AfterDrain(t) : x \in Receipt /\ \E r \in receipts : x.id = r.id /\ x.hash = r.hash
<1> SUFFICES ASSUME NEW x \in AfterDrain(t)
             PROVE  x \in Receipt /\ \E r \in receipts : x.id = r.id /\ x.hash = r.hash
  OBVIOUS
<1>1. PICK r \in receipts : x = Closed(r, t)
  BY DEF AfterDrain
<1> QED
  BY <1>1, ClosedKeepsIdentity

(* The receipts and requests of a run are typed and bear the run's now(). *)
LEMMA NewIsTyped ==
  ASSUME NEW t \in Run
  PROVE  /\ NewReceipts(t) \subseteq Receipt
         /\ NewRequests(t) \subseteq Request
         /\ \A r \in NewReceipts(t) : r.id.now = t.now
         /\ \A q \in NewRequests(t) : q.id.now = t.now
<1>1. \A p \in t.posts : PostId(t, p) \in RequestId /\ PostId(t, p).now = t.now /\ p.hash \in Contents
  BY DEF Run, Post, PostId, RequestId
<1>2. t.hour \in Nat
  BY DEF Run
<1> QED
  BY <1>1, <1>2 DEF NewReceipts, NewRequests, Receipt, Request

-------------------------------------------------------------------------------
LEMMA InitLedger == Init => LedgerInv
<1> SUFFICES ASSUME Init PROVE LedgerInv
  OBVIOUS
<1>1. Idle \in Run
  BY DEF Idle, Run
<1>2. TypeOK
  BY <1>1, ConstantsAssumption DEF Init, TypeOK
<1>3. RunsAreDistinct
  BY DEF Init, RunsAreDistinct, Active, Known
<1>4. RunsAreCoherent
  BY DEF Init, RunsAreCoherent, Idle
<1>5. RequestsAnswerReceipts
  BY DEF Init, RequestsAnswerReceipts
<1> QED
  BY <1>2, <1>3, <1>4, <1>5 DEF LedgerInv

(* Steps of the writers. *)
LEMMA WriteKeepsLedger ==
  ASSUME LedgerInv, Write
  PROVE  LedgerInv'
<1> USE DEF LedgerInv
<1>1. ASSUME NEW c \in Concepts, Delete(c)
      PROVE  LedgerInv'
  <2>1. TypeOK'
    BY <1>1, ConstantsAssumption DEF Delete, Writing, TypeOK, net
  <2>2. RunsAreDistinct'
    BY <1>1 DEF Delete, Writing, RunsAreDistinct, Active, Known, net
  <2>3. RunsAreCoherent' /\ RequestsAnswerReceipts'
    BY <1>1 DEF Delete, Writing, RunsAreCoherent, RequestsAnswerReceipts, net
  <2> QED
    BY <2>1, <2>2, <2>3
<1>2. ASSUME NEW c \in Concepts, NEW k \in Contents, NEW now \in Nat, now > 0,
             concept_maintain(c, k, now),
             clock' \in Nat, clock' >= clock, editing' \in [Editors -> Nat],
             writes' \in 0..MaxWrites, faults' = faults,
             UNCHANGED <<receipts, net, txn, hour>>
      PROVE  LedgerInv'
  <2>1. TypeOK'
    BY <1>2 DEF concept_maintain, TypeOK, net
  <2>2. RunsAreDistinct'
    BY <1>2 DEF RunsAreDistinct, Active, Known, net, TypeOK, RequestId, Run
  <2>3. RunsAreCoherent' /\ RequestsAnswerReceipts'
    BY <1>2 DEF RunsAreCoherent, RequestsAnswerReceipts, net
  <2> QED
    BY <2>1, <2>2, <2>3
<1>3. ASSUME NEW c \in Concepts, NEW k \in Contents, Insert(c, k) \/ Edit(c, k)
      PROVE  LedgerInv'
  BY <1>2, <1>3, ConstantsAssumption DEF Insert, Edit, Writing, TypeOK
<1>4. ASSUME NEW c \in Concepts, NEW k \in Contents, NEW e \in Editors, CommitEdit(e, c, k)
      PROVE  LedgerInv'
  <2>1. editing[e] \in Nat /\ editing[e] > 0
    BY <1>4 DEF CommitEdit, TypeOK
  <2> QED
    BY <1>2, <1>4, <2>1 DEF CommitEdit, TypeOK, bounds
<1> QED
  BY <1>1, <1>3, <1>4 DEF Write

(* A run begins with a now() nobody has, and reads rows joined by request id. *)
LEMMA BeginKeepsLedger ==
  ASSUME LedgerInv, NEW s \in Sessions, Begin(s)
  PROVE  LedgerInv'
<1> USE DEF LedgerInv
<1>1. PICK S \in SUBSET Pending :
        txn' = [txn EXCEPT ![s] =
            [now     |-> clock + 1,
             hour    |-> hour,
             posts   |-> {[concept |-> c, hash |-> content[c]] : c \in S},
             apply   |-> IF Drains(s) THEN Applicable ELSE {},
             ready   |-> IF Drains(s) THEN {r.id : r \in Ready} ELSE {},
             expired |-> IF Drains(s) THEN {r.id : r \in Expired(hour)} ELSE {}]]
  BY DEF Begin
<1> DEFINE posts == {[concept |-> c, hash |-> content[c]] : c \in S}
           new == txn'[s]
<1>2. /\ clock' = clock + 1
      /\ UNCHANGED <<rows, receipts, net, editing, hour, bounds>>
  BY DEF Begin
<1>3. \A c \in S : c \in Concepts /\ content[c] \in Contents
  BY DEF Pending, Live, TypeOK
<1>4. posts \subseteq Post /\ \A p, q \in posts : p.concept = q.concept => p = q
  BY <1>3 DEF Post
<1>5. Applicable \subseteq Application
  BY DEF Applicable
<1>6. \A a \in Applicable : a.vector = a.hash
  BY DEF Applicable, Ready, RequestsAnswerReceipts
<1>7. {r.id : r \in Ready} \subseteq RequestId /\ {r.id : r \in Expired(hour)} \subseteq RequestId
  BY DEF Ready, Expired, TypeOK, Receipt
<1>8. /\ new.now = clock + 1 /\ new.posts = posts
      /\ new.apply \subseteq Applicable /\ new \in Run
  BY <1>1, <1>4, <1>5, <1>7 DEF TypeOK, Run
<1>9. \A u \in Sessions \ {s} : txn'[u] = txn[u]
  BY <1>1 DEF TypeOK
<1>10. TypeOK'
  <2>1. txn' \in [Sessions -> Run]
    BY <1>1, <1>8 DEF TypeOK
  <2> QED
    BY <2>1, <1>2 DEF TypeOK, rows, net, bounds
<1>11. RunsAreDistinct'
  <2>1. clock \in Nat
    BY DEF TypeOK
  <2>2. \A u \in Sessions : Active(u)' => txn'[u].now > 0 /\ txn'[u].now <= clock'
    BY <1>2, <1>8, <1>9, <2>1 DEF RunsAreDistinct, Active, TypeOK, Run
  <2>3. ASSUME NEW u \in Sessions, NEW v \in Sessions, Active(u)', txn'[u].now = txn'[v].now
        PROVE  u = v
    <3>1. CASE u # s /\ v # s
      BY <3>1, <2>3, <1>9 DEF RunsAreDistinct, Active
    <3>2. CASE u = s /\ v # s
      <4>1. txn[v].now = clock + 1
        BY <3>2, <2>3, <1>8, <1>9
      <4>2. txn[v].now <= clock
        BY <2>1 DEF RunsAreDistinct, Active, Idle
      <4> QED
        BY <4>1, <4>2, <2>1
    <3>3. CASE u # s /\ v = s
      <4>1. txn[u].now = clock + 1 /\ Active(u)
        BY <3>3, <2>3, <1>8, <1>9 DEF Active
      <4> QED
        BY <4>1, <2>1 DEF RunsAreDistinct
    <3> QED
      BY <3>1, <3>2, <3>3
  <2>4. ASSUME NEW id \in RequestId, Known(id)'
        PROVE  id.now <= clock' /\ \A u \in Sessions : Active(u)' => id.now # txn'[u].now
    <3>1. Known(id) /\ id.now \in Nat
      BY <2>4, <1>2 DEF Known, net, RequestId
    <3>2. id.now <= clock /\ \A u \in Sessions : Active(u) => id.now # txn[u].now
      BY <3>1 DEF RunsAreDistinct
    <3> QED
      BY <3>1, <3>2, <2>1, <1>2, <1>8, <1>9 DEF Active
  <2> QED
    BY <2>2, <2>3, <2>4 DEF RunsAreDistinct
<1>12. RunsAreCoherent'
  BY <1>4, <1>6, <1>8, <1>9 DEF RunsAreCoherent
<1>13. RequestsAnswerReceipts'
  BY <1>2 DEF RequestsAnswerReceipts, net
<1> QED
  BY <1>10, <1>11, <1>12, <1>13

(* A session whose run ends without effect. *)
LEMMA EndingKeepsRuns ==
  ASSUME LedgerInv, NEW s \in Sessions, txn' = [txn EXCEPT ![s] = Idle]
  PROVE  /\ txn' \in [Sessions -> Run]
         /\ \A u \in Sessions : Active(u)' => Active(u) /\ txn'[u] = txn[u] /\ u # s
         /\ \A u \in Sessions : txn'[u] = txn[u] \/ txn'[u] = Idle
         /\ RunsAreCoherent'
<1> USE DEF LedgerInv
<1>1. Idle \in Run
  BY DEF Idle, Run
<1>2. txn' \in [Sessions -> Run]
  BY <1>1 DEF TypeOK
<1>3. \A u \in Sessions : Active(u)' => Active(u) /\ txn'[u] = txn[u] /\ u # s
  BY DEF TypeOK, Active
<1>4. \A u \in Sessions : txn'[u] = txn[u] \/ txn'[u] = Idle
  BY DEF TypeOK
<1>5. RunsAreCoherent'
  BY <1>4 DEF RunsAreCoherent, Idle
<1> QED
  BY <1>2, <1>3, <1>4, <1>5

(* Distinct runs stay distinct when none begins and no request is new to them. *)
LEMMA FewerRunsAreDistinct ==
  ASSUME LedgerInv, UNCHANGED clock,
         \A u \in Sessions : Active(u)' => Active(u) /\ txn'[u] = txn[u],
         \A u \in Sessions : txn'[u] = txn[u] \/ txn'[u] = Idle,
         \A id \in RequestId : Known(id)' => Known(id)
  PROVE  RunsAreDistinct'
<1> USE DEF LedgerInv
<1>1. \A u \in Sessions : Active(u)' => txn'[u].now > 0 /\ txn'[u].now <= clock'
  BY DEF RunsAreDistinct
<1>2. ASSUME NEW u \in Sessions, NEW v \in Sessions, Active(u)', txn'[u].now = txn'[v].now
      PROVE  u = v
  <2>1. txn'[u].now > 0
    BY <1>1, <1>2
  <2>2. txn'[v] # Idle
    BY <2>1, <1>2 DEF Idle
  <2> QED
    BY <1>2, <2>2 DEF RunsAreDistinct, Active
<1> QED
  BY <1>1, <1>2 DEF RunsAreDistinct

(* A commit adds requests under a now() no request bears yet. *)
LEMMA CommitKeepsLedger ==
  ASSUME LedgerInv, NEW s \in Sessions, Commit(s)
  PROVE  LedgerInv'
<1> USE DEF LedgerInv
<1> DEFINE t == txn[s]
<1>1. t \in Run /\ Active(s) /\ t.now \in Nat /\ t.now > 0 /\ t.now <= clock /\ clock \in Nat
  BY DEF Commit, Active, TypeOK, Run, RunsAreDistinct
<1>2. /\ txn' = [txn EXCEPT ![s] = Idle]
      /\ wire' = wire \cup NewRequests(t)
      /\ receipts' \subseteq (receipts \cup AfterDrain(t) \cup NewReceipts(t))
      /\ UNCHANGED <<content, updated_at, responses, editing, clock, hour, bounds>>
  BY DEF Commit
<1>3. /\ NewReceipts(t) \subseteq Receipt /\ NewRequests(t) \subseteq Request
      /\ \A r \in NewReceipts(t) : r.id.now = t.now
      /\ \A q \in NewRequests(t) : q.id.now = t.now
  BY <1>1, NewIsTyped
<1>4. \A x \in AfterDrain(t) : x \in Receipt /\ \E r \in receipts : x.id = r.id /\ x.hash = r.hash
  BY <1>1, AfterDrainComesFromReceipts DEF TypeOK
<1>5. receipts' \subseteq Receipt /\ wire' \subseteq Request
  BY <1>2, <1>3, <1>4 DEF TypeOK
<1>6. \A x \in receipts' : x \in NewReceipts(t) \/ \E r \in receipts : x.id = r.id /\ x.hash = r.hash
  BY <1>2, <1>4
<1>7. /\ txn' \in [Sessions -> Run]
      /\ \A u \in Sessions : Active(u)' => Active(u) /\ txn'[u] = txn[u] /\ u # s
      /\ \A u \in Sessions : txn'[u] = txn[u] \/ txn'[u] = Idle
      /\ RunsAreCoherent'
  BY <1>2, EndingKeepsRuns
<1>8. \A c \in Refreshed(t) : c \in Concepts /\ VectorOf(t, c) = content[c] /\ content[c] # Null
  BY AppliedIsCurrent
<1>9. TypeOK'
  <2>1. WriteVectors(t)
    BY DEF Commit
  <2>2. embedding' \in [Concepts -> Contents \cup {Null}] /\ embedded_at' \in [Concepts -> Nat]
    BY <2>1, <1>1, <1>8 DEF WriteVectors, TypeOK
  <2>3. \A c \in Concepts : embedding'[c] = Null <=> embedded_at'[c] = 0
    BY <2>1, <1>1, <1>8 DEF WriteVectors, TypeOK
  <2> QED
    BY <2>2, <2>3, <1>2, <1>5, <1>7 DEF TypeOK, bounds
<1>10. RunsAreDistinct'
  <2>1. \A u \in Sessions : Active(u)' => txn'[u].now > 0 /\ txn'[u].now <= clock'
    BY <1>2, <1>7 DEF RunsAreDistinct
  <2>2. ASSUME NEW u \in Sessions, NEW v \in Sessions, Active(u)', txn'[u].now = txn'[v].now
        PROVE  u = v
    <3>1. txn'[v] # Idle
      BY <2>1, <2>2 DEF Idle
    <3> QED
      BY <2>2, <3>1, <1>7 DEF RunsAreDistinct, Active
  <2>3. ASSUME NEW id \in RequestId, Known(id)'
        PROVE  id.now <= clock' /\ \A u \in Sessions : Active(u)' => id.now # txn'[u].now
    <3>1. Known(id) \/ id.now = t.now
      BY <2>3, <1>2, <1>3, <1>6 DEF Known
    <3>2. CASE Known(id)
      BY <3>2, <1>2, <1>7 DEF RunsAreDistinct
    <3>3. CASE id.now = t.now
      BY <3>3, <1>1, <1>2, <1>7 DEF RunsAreDistinct
    <3> QED
      BY <3>1, <3>2, <3>3
  <2> QED
    BY <2>1, <2>2, <2>3 DEF RunsAreDistinct
<1>11. RequestsAnswerReceipts'
  <2>1. \A r \in NewReceipts(t), q \in NewRequests(t) : q.id = r.id => q.doc = r.hash
    BY DEF NewReceipts, NewRequests, PostId, RunsAreCoherent
  <2>2. \A r \in receipts : r.id.now # t.now
    BY <1>1 DEF RunsAreDistinct, Known, TypeOK, Receipt
  <2>3. \A q \in wire : q.id.now # t.now
    BY <1>1 DEF RunsAreDistinct, Known, TypeOK, Request
  <2>4. \A p \in responses : p.id.now # t.now
    BY <1>1 DEF RunsAreDistinct, Known, TypeOK, Response
  <2>5. ASSUME NEW x \in receipts', NEW q \in wire', q.id = x.id
        PROVE  q.doc = x.hash
    BY <2>5, <2>1, <2>2, <2>3, <1>2, <1>3, <1>6 DEF RequestsAnswerReceipts
  <2>6. ASSUME NEW x \in receipts', NEW p \in responses', p.id = x.id
        PROVE  p.vector = x.hash
    BY <2>6, <2>4, <1>2, <1>3, <1>6 DEF RequestsAnswerReceipts
  <2> QED
    BY <2>5, <2>6 DEF RequestsAnswerReceipts
<1> QED
  BY <1>7, <1>9, <1>10, <1>11

(* Steps that end a run without effect, and steps of pg_net and of time. *)
LEMMA EnvironmentKeepsLedger ==
  ASSUME LedgerInv
  PROVE  /\ \A s \in Sessions : ForeignKeyFails(s) \/ Abort(s) => LedgerInv'
         /\ \A q \in wire, kind \in Reply : Land(q, kind) => LedgerInv'
         /\ \A p \in responses : Reap(p) => LedgerInv'
         /\ Crash => LedgerInv'
         /\ HourPasses => LedgerInv'
<1> USE DEF LedgerInv
<1> USE ConstantsAssumption
<1>1. ASSUME NEW s \in Sessions, ForeignKeyFails(s) \/ Abort(s)
      PROVE  LedgerInv'
  <2>1. /\ txn' = [txn EXCEPT ![s] = Idle]
        /\ UNCHANGED <<rows, receipts, net, editing, clock, hour>>
        /\ writes' \in 0..MaxWrites /\ faults' \in 0..MaxFaults
    BY <1>1 DEF ForeignKeyFails, Abort, Fault, TypeOK, bounds
  <2>2. /\ txn' \in [Sessions -> Run]
        /\ \A u \in Sessions : Active(u)' => Active(u) /\ txn'[u] = txn[u] /\ u # s
        /\ \A u \in Sessions : txn'[u] = txn[u] \/ txn'[u] = Idle
        /\ RunsAreCoherent'
    BY <2>1, EndingKeepsRuns
  <2>3. TypeOK'
    BY <2>1, <2>2 DEF TypeOK, rows, net
  <2>4. RunsAreDistinct'
    BY <2>1, <2>2, FewerRunsAreDistinct DEF Known, net
  <2>5. RequestsAnswerReceipts'
    BY <2>1 DEF RequestsAnswerReceipts, net
  <2> QED
    BY <2>2, <2>3, <2>4, <2>5
<1>2. ASSUME NEW q \in wire, NEW kind \in Reply, Land(q, kind)
      PROVE  LedgerInv'
  <2>1. q \in Request /\ hour \in Nat
    BY DEF TypeOK
  <2>2. [id |-> q.id, kind |-> kind, vector |-> q.doc, landed |-> hour] \in Response
    BY <2>1 DEF Request, Response
  <2>3. TypeOK'
    BY <1>2, <2>2 DEF Land, Fault, TypeOK, rows, bounds
  <2>4. RunsAreDistinct'
    BY <1>2 DEF Land, RunsAreDistinct, Known, Active
  <2>5. RunsAreCoherent' /\ RequestsAnswerReceipts'
    BY <1>2 DEF Land, RunsAreCoherent, RequestsAnswerReceipts
  <2> QED
    BY <2>3, <2>4, <2>5
<1>3. ASSUME NEW p \in responses, Reap(p)
      PROVE  LedgerInv'
  BY <1>3 DEF Reap, TypeOK, RunsAreDistinct, Known, Active, RunsAreCoherent,
              RequestsAnswerReceipts, rows, bounds
<1>4. ASSUME Crash
      PROVE  LedgerInv'
  <2>1. Idle \in Run
    BY DEF Idle, Run
  <2>2. TypeOK'
    BY <1>4, <2>1 DEF Crash, Fault, TypeOK, rows
  <2>3. RunsAreDistinct'
    BY <1>4, FewerRunsAreDistinct DEF Crash, Known, Active
  <2>4. RunsAreCoherent' /\ RequestsAnswerReceipts'
    BY <1>4 DEF Crash, RunsAreCoherent, RequestsAnswerReceipts, Idle
  <2> QED
    BY <2>2, <2>3, <2>4
<1>5. ASSUME HourPasses
      PROVE  LedgerInv'
  <2>1. TypeOK'
    BY <1>5 DEF HourPasses, Fault, TypeOK, rows, net, bounds
  <2>2. RunsAreDistinct' /\ RunsAreCoherent' /\ RequestsAnswerReceipts'
    BY <1>5 DEF HourPasses, RunsAreDistinct, Known, Active, RunsAreCoherent,
                RequestsAnswerReceipts, net
  <2> QED
    BY <2>1, <2>2
<1> QED
  BY <1>1, <1>2, <1>3, <1>4, <1>5

(* An editor's BEGIN only moves the clock. *)
LEMMA BeginEditKeepsLedger ==
  ASSUME LedgerInv, NEW e \in Editors, BeginEdit(e)
  PROVE  LedgerInv'
<1> USE DEF LedgerInv
<1>1. TypeOK'
  BY ConstantsAssumption DEF BeginEdit, Writing, TypeOK, rows, net
<1>2. RunsAreDistinct'
  BY DEF BeginEdit, RunsAreDistinct, Active, Known, net, TypeOK, RequestId, Run
<1>3. RunsAreCoherent' /\ RequestsAnswerReceipts'
  BY DEF BeginEdit, RunsAreCoherent, RequestsAnswerReceipts, net
<1> QED
  BY <1>1, <1>2, <1>3

LEMMA StutterKeepsLedger ==
  ASSUME LedgerInv, UNCHANGED vars
  PROVE  LedgerInv'
BY DEF vars, rows, net, bounds, LedgerInv, TypeOK, RunsAreDistinct, RunsAreCoherent,
       RequestsAnswerReceipts, Active, Known

-------------------------------------------------------------------------------
(* LedgerInv is an invariant of the pipeline. *)
THEOREM LedgerInvariant == Spec => []LedgerInv
<1>1. ASSUME LedgerInv, [Next]_vars
      PROVE  LedgerInv'
  <2>1. CASE Write
    BY <1>1, <2>1, WriteKeepsLedger
  <2>2. CASE \E e \in Editors : BeginEdit(e)
    BY <1>1, <2>2, BeginEditKeepsLedger
  <2>3. CASE \E s \in Sessions : Begin(s)
    BY <1>1, <2>3, BeginKeepsLedger
  <2>4. CASE \E s \in Sessions : Commit(s)
    BY <1>1, <2>4, CommitKeepsLedger
  <2>5. CASE UNCHANGED vars
    BY <1>1, <2>5, StutterKeepsLedger
  <2>6. CASE \/ \E s \in Sessions : ForeignKeyFails(s) \/ Abort(s)
             \/ \E q \in wire, kind \in Reply : Land(q, kind)
             \/ \E p \in responses : Reap(p)
             \/ Crash
             \/ HourPasses
    BY <1>1, <2>6, EnvironmentKeepsLedger
  <2> QED
    BY <1>1, <2>1, <2>2, <2>3, <2>4, <2>5, <2>6 DEF Next
<1> QED
  BY <1>1, InitLedger, PTL DEF Spec

(* Type correctness, with a vector exactly where there is its time. *)
THEOREM TypeCorrect == Spec => []TypeOK
BY LedgerInvariant, PTL DEF LedgerInv

(* A response always carries the text of the receipt it is joined to. *)
THEOREM ResponsesMatch == Spec => []RequestsAnswerReceipts
BY LedgerInvariant, PTL DEF LedgerInv

-------------------------------------------------------------------------------
(* The pipeline implements EmbedStore: only a commit writes vectors, and it *)
(* writes each from the content its concept then has.                       *)
LEMMA StepImplementsStore ==
  ASSUME LedgerInv, [Next]_vars
  PROVE  [Store!Next]_(Store!vars)
<1> USE DEF Store!Next, Store!vars
<1>1. ASSUME NEW c \in Concepts, Delete(c)
      PROVE  Store!Next
  BY <1>1 DEF Delete, Store!Delete
<1>2. ASSUME NEW c \in Concepts, NEW k \in Contents,
             Insert(c, k) \/ Edit(c, k) \/ \E e \in Editors : CommitEdit(e, c, k)
      PROVE  Store!Next
  BY <1>2 DEF Insert, Edit, CommitEdit, concept_maintain, Store!Write
<1>3. ASSUME NEW s \in Sessions, Commit(s)
      PROVE  Store!Next
  <2> DEFINE S == Refreshed(txn[s])
  <2>1. \A c \in S : c \in Concepts /\ VectorOf(txn[s], c) = content[c] /\ content[c] # Null
    BY AppliedIsCurrent DEF LedgerInv
  <2>2. embedding' = [c \in Concepts |-> IF c \in S THEN VectorOf(txn[s], c) ELSE embedding[c]]
    BY <1>3 DEF Commit, WriteVectors
  <2>3. embedding' = [c \in Concepts |-> IF c \in S THEN content[c] ELSE embedding[c]]
    BY <2>1, <2>2
  <2>4. UNCHANGED content
    BY <1>3 DEF Commit
  <2>5. Store!Refresh(S)
    BY <2>1, <2>3, <2>4 DEF Store!Refresh
  <2> QED
    BY <2>1, <2>5
<1>4. CASE \/ \E s \in Sessions : Begin(s) \/ ForeignKeyFails(s) \/ Abort(s)
           \/ \E e \in Editors : BeginEdit(e)
           \/ \E q \in wire, kind \in Reply : Land(q, kind)
           \/ \E p \in responses : Reap(p)
           \/ Crash \/ HourPasses \/ UNCHANGED vars
  BY <1>4 DEF Begin, ForeignKeyFails, Abort, BeginEdit, Land, Reap, Crash, HourPasses, rows, vars
<1> QED
  BY <1>1, <1>2, <1>3, <1>4 DEF Next, Write

(* Every refresh writes the content the concept then has, with any number of *)
(* overlapping runs, editors, crashes and replies.                           *)
THEOREM PipelineImplementsStore == Spec => ImplementsStoreSafely
<1>1. Init => Store!Init
  BY DEF Init, Store!Init
<1>2. LedgerInv /\ [Next]_vars => [Store!Next]_(Store!vars)
  BY StepImplementsStore
<1> QED
  BY <1>1, <1>2, LedgerInvariant, PTL DEF Spec, ImplementsStoreSafely, Store!SafeSpec

-------------------------------------------------------------------------------
(* Without editors the clock is ahead of every stamp, so an edit outdates the *)
(* vector that was there, and a commit writes the current content.            *)
FreshInv ==
  /\ FreshMeansCurrent
  /\ \A c \in Concepts : embedded_at[c] <= clock

LEMMA StepKeepsFresh ==
  ASSUME Editors = {}, LedgerInv, FreshInv, [Next]_vars
  PROVE  FreshInv'
<1> USE DEF FreshInv, FreshMeansCurrent, Live, Stale
<1>0. clock \in Nat /\ \A c \in Concepts : embedded_at[c] \in Nat /\ updated_at[c] \in Nat
  BY DEF LedgerInv, TypeOK
<1>1. ASSUME NEW c \in Concepts, Delete(c)
      PROVE  FreshInv'
  BY <1>0, <1>1 DEF Delete, LedgerInv, TypeOK
<1>2. ASSUME NEW c \in Concepts, NEW k \in Contents, Insert(c, k) \/ Edit(c, k)
      PROVE  FreshInv'
  <2>1. /\ clock' = clock + 1 /\ concept_maintain(c, k, clock + 1)
    BY <1>2 DEF Insert, Edit
  <2>2. embedded_at'[c] < updated_at'[c]
    BY <1>0, <2>1 DEF concept_maintain, LedgerInv, TypeOK
  <2> QED
    BY <1>0, <2>1, <2>2 DEF concept_maintain, LedgerInv, TypeOK
<1>3. ASSUME NEW s \in Sessions, Commit(s)
      PROVE  FreshInv'
  <2>1. \A c \in Refreshed(txn[s]) : VectorOf(txn[s], c) = content[c]
    BY AppliedIsCurrent DEF LedgerInv
  <2>2. txn[s].now <= clock
    BY <1>3 DEF Commit, LedgerInv, RunsAreDistinct, Active
  <2>3. WriteVectors(txn[s]) /\ UNCHANGED <<content, updated_at, clock>>
    BY <1>3 DEF Commit
  <2> QED
    BY <1>0, <2>1, <2>2, <2>3 DEF WriteVectors
<1>4. CASE \E s \in Sessions : Begin(s)
  BY <1>0, <1>4 DEF Begin, rows
<1>5. CASE \/ \E s \in Sessions : ForeignKeyFails(s) \/ Abort(s)
           \/ \E q \in wire, kind \in Reply : Land(q, kind)
           \/ \E p \in responses : Reap(p)
           \/ Crash \/ HourPasses \/ UNCHANGED vars
  BY <1>5 DEF ForeignKeyFails, Abort, Land, Reap, Crash, HourPasses, rows, vars
<1> QED
  BY <1>1, <1>2, <1>3, <1>4, <1>5 DEF Next, Write

(* While every edit is a transaction of its own, a vector that the pending  *)
(* selector takes for fresh is the current content's.                       *)
THEOREM FreshIsCurrent == ASSUME Editors = {} PROVE Spec => []FreshMeansCurrent
<1>1. Init => FreshInv
  BY DEF Init, FreshInv, FreshMeansCurrent, Live
<1>2. LedgerInv /\ FreshInv /\ [Next]_vars => FreshInv'
  BY StepKeepsFresh
<1> QED
  BY <1>1, <1>2, LedgerInvariant, PTL DEF Spec, FreshInv

-------------------------------------------------------------------------------
(* The open runs that are about to post a concept. *)
Posters(c) == {s \in Sessions : \E p \in txn[s].posts : p.concept = c}

(* Each enqueuing session accounts for one request of a concept at most: one *)
(* in flight, or one its open run will post.                                 *)
QueueInv ==
  /\ \A s \in Sessions : /\ Active(s) => txn[s].hour > 0
                         /\ txn[s].posts # {} => Enqueues(s)
  /\ \A c \in Concepts :
       /\ IsFiniteSet(InFlight(c))
       /\ Cardinality(InFlight(c)) + Cardinality(Posters(c)) <= Cardinality(Enqueuers)

LEMMA SessionsAreFinite ==
  ASSUME NEW S \in SUBSET Sessions
  PROVE  IsFiniteSet(S) /\ Cardinality(S) \in Nat
<1>1. IsFiniteSet({"cron_enqueue", "cron_drain", "automation"})
  <2>1. IsFiniteSet({"cron_enqueue"})
    BY FS_Singleton
  <2>2. IsFiniteSet({"cron_enqueue"} \cup {"cron_drain"})
    BY <2>1, FS_AddElement
  <2>3. IsFiniteSet({"cron_enqueue"} \cup {"cron_drain"} \cup {"automation"})
    BY <2>2, FS_AddElement
  <2> QED
    BY <2>3
<1>2. S \in SUBSET {"cron_enqueue", "cron_drain", "automation"}
  BY ConstantsAssumption DEF AllSessions
<1>3. IsFiniteSet(S)
  BY <1>1, <1>2, FS_Subset
<1> QED
  BY <1>3, FS_CardinalityType

(* Steps that open no request and no run that posts one. *)
LEMMA FewerRequests ==
  ASSUME QueueInv, NEW c \in Concepts,
         InFlight(c)' \subseteq InFlight(c), Posters(c)' \subseteq Posters(c)
  PROVE  /\ IsFiniteSet(InFlight(c)')
         /\ Cardinality(InFlight(c)') + Cardinality(Posters(c)') <= Cardinality(Enqueuers)
<1>1. IsFiniteSet(InFlight(c))
  BY DEF QueueInv
<1>2. InFlight(c)' \in SUBSET InFlight(c)
  OBVIOUS
<1>3. IsFiniteSet(InFlight(c)') /\ Cardinality(InFlight(c)') <= Cardinality(InFlight(c))
  BY <1>1, <1>2, FS_Subset
<1>4. Cardinality(InFlight(c)) \in Nat /\ Cardinality(InFlight(c)') \in Nat
  BY <1>1, <1>3, FS_CardinalityType
<1>5. Posters(c) \in SUBSET Sessions /\ Posters(c)' \in SUBSET Posters(c)
  BY DEF Posters
<1>6. Posters(c)' \in SUBSET Sessions
  BY <1>5
<1>7. /\ IsFiniteSet(Posters(c)) /\ Cardinality(Posters(c)) \in Nat
      /\ Cardinality(Posters(c)') \in Nat
  BY <1>5, <1>6, SessionsAreFinite
<1>8. Cardinality(Posters(c)') <= Cardinality(Posters(c))
  BY <1>5, <1>7, FS_Subset
<1>9. Enqueuers \in SUBSET Sessions
  BY DEF Enqueuers
<1>10. Cardinality(Enqueuers) \in Nat
  BY <1>9, SessionsAreFinite
<1>11. Cardinality(InFlight(c)) + Cardinality(Posters(c)) <= Cardinality(Enqueuers)
  BY DEF QueueInv
<1> QED
  BY <1>3, <1>4, <1>7, <1>8, <1>10, <1>11

(* A run that begins posts concepts with no request in flight; the others that *)
(* are about to post them belong to other enqueuing sessions.                  *)
LEMMA BeginKeepsQueue ==
  ASSUME LedgerInv, QueueInv, NEW s \in Sessions, Begin(s)
  PROVE  QueueInv'
<1>1. UNCHANGED <<receipts>>
  BY DEF Begin
<1>2. \A u \in Sessions \ {s} : txn'[u] = txn[u]
  BY DEF Begin, LedgerInv, TypeOK
<1>3. /\ txn'[s].hour = hour /\ hour > 0
      /\ \A p \in txn'[s].posts : p.concept \in Pending
      /\ txn'[s].posts # {} => Enqueues(s)
  BY DEF Begin, LedgerInv, TypeOK
<1>4. txn[s] = Idle
  BY DEF Begin
<1>5. \A u \in Sessions : /\ Active(u)' => txn'[u].hour > 0
                          /\ txn'[u].posts # {} => Enqueues(u)
  BY <1>2, <1>3 DEF QueueInv, Active
<1>6. ASSUME NEW c \in Concepts
      PROVE  /\ IsFiniteSet(InFlight(c)')
             /\ Cardinality(InFlight(c)') + Cardinality(Posters(c)') <= Cardinality(Enqueuers)
  <2>1. InFlight(c)' = InFlight(c)
    BY <1>1 DEF InFlight, Open
  <2>2. CASE s \notin Posters(c)'
    <3>1. Posters(c)' \subseteq Posters(c)
      BY <2>2, <1>2 DEF Posters
    <3> QED
      BY <2>1, <3>1, FewerRequests
  <2>3. CASE s \in Posters(c)'
    <3>1. InFlight(c)' = {}
      BY <2>1, <2>3, <1>3 DEF Posters, Pending, InFlight
    <3>2. Posters(c)' \in SUBSET Enqueuers /\ Enqueuers \in SUBSET Sessions
      BY <1>5 DEF Posters, Enqueuers
    <3>3. Posters(c)' \in SUBSET Sessions
      BY <3>2
    <3>4. IsFiniteSet(Enqueuers) /\ Cardinality(Posters(c)') \in Nat
      BY <3>2, <3>3, SessionsAreFinite
    <3>5. Cardinality(Posters(c)') <= Cardinality(Enqueuers)
      BY <3>2, <3>4, FS_Subset
    <3>6. IsFiniteSet(InFlight(c)') /\ Cardinality(InFlight(c)') = 0
      BY <3>1, FS_EmptySet
    <3> QED
      BY <3>4, <3>5, <3>6
  <2> QED
    BY <2>2, <2>3
<1> QED
  BY <1>5, <1>6 DEF QueueInv, Enqueuers

(* A commit turns what its session was about to post into one request. *)
LEMMA CommitKeepsQueue ==
  ASSUME LedgerInv, QueueInv, NEW s \in Sessions, Commit(s)
  PROVE  QueueInv'
<1> DEFINE t == txn[s]
<1>1. /\ t \in Run /\ t.hour \in Nat /\ t.hour > 0
      /\ txn' = [txn EXCEPT ![s] = Idle]
      /\ receipts' = receipts \cup NewReceipts(t) \/ receipts' = AfterDrain(t) \cup NewReceipts(t)
  BY DEF Commit, Active, LedgerInv, TypeOK, Run, QueueInv
<1>2. \A x \in AfterDrain(t) : Open(x) => x \in receipts
  BY <1>1 DEF AfterDrain, Closed, Open, LedgerInv, TypeOK, Receipt
<1>3. \A x \in receipts' : Open(x) => x \in receipts \/ x \in NewReceipts(t)
  BY <1>1, <1>2
<1>4. \A x \in NewReceipts(t) : \E p \in t.posts :
         /\ x.id.concept = p.concept
         /\ x = [id |-> PostId(t, p), hash |-> p.hash, enqueued |-> t.hour, drained |-> 0]
  BY DEF NewReceipts, PostId
<1>5. \A x, y \in NewReceipts(t) : x.id.concept = y.id.concept => x = y
  BY <1>4 DEF LedgerInv, RunsAreCoherent
<1>6. \A u \in Sessions : txn'[u] = IF u = s THEN Idle ELSE txn[u]
  BY <1>1 DEF LedgerInv, TypeOK
<1>7. \A u \in Sessions : /\ Active(u)' => txn'[u].hour > 0
                          /\ txn'[u].posts # {} => Enqueues(u)
  BY <1>6 DEF QueueInv, Active, Idle
<1>8. ASSUME NEW c \in Concepts
      PROVE  /\ IsFiniteSet(InFlight(c)')
             /\ Cardinality(InFlight(c)') + Cardinality(Posters(c)') <= Cardinality(Enqueuers)
  <2>1. Posters(c)' = Posters(c) \ {s}
    BY <1>6 DEF Posters, Idle
  <2>2. CASE \A x \in NewReceipts(t) : x.id.concept # c
    <3>1. InFlight(c)' \subseteq InFlight(c)
      BY <2>2, <1>3 DEF InFlight, Open
    <3> QED
      BY <2>1, <3>1, FewerRequests
  <2>3. ASSUME NEW x \in NewReceipts(t), x.id.concept = c
        PROVE  /\ IsFiniteSet(InFlight(c)')
               /\ Cardinality(InFlight(c)') + Cardinality(Posters(c)') <= Cardinality(Enqueuers)
    <3>1. InFlight(c)' \in SUBSET (InFlight(c) \cup {x})
      BY <2>3, <1>3, <1>5 DEF InFlight, Open
    <3>2. s \in Posters(c)
      BY <2>3, <1>4 DEF Posters
    <3>3. IsFiniteSet(InFlight(c))
      BY DEF QueueInv
    <3>4. /\ IsFiniteSet(InFlight(c) \cup {x})
          /\ Cardinality(InFlight(c) \cup {x}) =
               IF x \in InFlight(c) THEN Cardinality(InFlight(c)) ELSE Cardinality(InFlight(c)) + 1
      BY <3>3, FS_AddElement
    <3>5. IsFiniteSet(InFlight(c)') /\ Cardinality(InFlight(c)') <= Cardinality(InFlight(c) \cup {x})
      BY <3>1, <3>4, FS_Subset
    <3>6. Cardinality(InFlight(c)) \in Nat /\ Cardinality(InFlight(c)') \in Nat
      BY <3>3, <3>5, FS_CardinalityType
    <3>7. Posters(c) \in SUBSET Sessions
      BY DEF Posters
    <3>8. IsFiniteSet(Posters(c)) /\ Cardinality(Posters(c)) \in Nat
      BY <3>7, SessionsAreFinite
    <3>9. Cardinality(Posters(c) \ {s}) = Cardinality(Posters(c)) - 1
      BY <3>2, <3>8, FS_RemoveElement
    <3>10. Enqueuers \in SUBSET Sessions
      BY DEF Enqueuers
    <3>11. Cardinality(Enqueuers) \in Nat
      BY <3>10, SessionsAreFinite
    <3>12. Cardinality(InFlight(c)) + Cardinality(Posters(c)) <= Cardinality(Enqueuers)
      BY DEF QueueInv
    <3> HIDE DEF t
    <3> QED
      BY <2>1, <3>4, <3>5, <3>6, <3>8, <3>9, <3>11, <3>12
  <2> QED
    BY <2>2, <2>3
<1> QED
  BY <1>7, <1>8 DEF QueueInv, Enqueuers

LEMMA StepKeepsQueue ==
  ASSUME LedgerInv, QueueInv, [Next]_vars
  PROVE  QueueInv'
<1>1. ASSUME \A u \in Sessions : txn'[u] = txn[u] \/ txn'[u] = Idle,
             \A x \in receipts' : x \in receipts
      PROVE  QueueInv'
  <2>1. \A u \in Sessions : /\ Active(u)' => txn'[u].hour > 0
                            /\ txn'[u].posts # {} => Enqueues(u)
    BY <1>1 DEF QueueInv, Active, Idle
  <2>2. ASSUME NEW c \in Concepts
        PROVE  /\ IsFiniteSet(InFlight(c)')
               /\ Cardinality(InFlight(c)') + Cardinality(Posters(c)') <= Cardinality(Enqueuers)
    <3>1. InFlight(c)' \subseteq InFlight(c)
      BY <1>1 DEF InFlight, Open
    <3>2. Posters(c)' \subseteq Posters(c)
      BY <1>1 DEF Posters, Idle
    <3> QED
      BY <3>1, <3>2, FewerRequests
  <2> QED
    BY <2>1, <2>2 DEF QueueInv, Enqueuers
<1>2. CASE Write
  BY <1>1, <1>2 DEF Write, Insert, Edit, CommitEdit, Delete
<1>3. CASE \E s \in Sessions : ForeignKeyFails(s) \/ Abort(s)
  BY <1>1, <1>3 DEF ForeignKeyFails, Abort, LedgerInv, TypeOK
<1>4. CASE Crash
  BY <1>1, <1>4 DEF Crash
<1>5. CASE \/ \E e \in Editors : BeginEdit(e)
           \/ \E q \in wire, kind \in Reply : Land(q, kind)
           \/ \E p \in responses : Reap(p)
           \/ HourPasses \/ UNCHANGED vars
  BY <1>1, <1>5 DEF BeginEdit, Land, Reap, HourPasses, vars
<1> QED
  BY <1>2, <1>3, <1>4, <1>5, BeginKeepsQueue, CommitKeepsQueue DEF Next

(* Whatever sessions enqueue at once, and however their runs overlap, fail   *)
(* and crash, a concept never has more requests in flight than there are     *)
(* enqueuing sessions: one under the cron job alone, two beside the          *)
(* automation rail (run embed_double_post shows the second).                 *)
THEOREM RequestsInFlightAreFew == Spec => []OpenReceiptsAreFew
<1>1. Init => QueueInv
  <2> SUFFICES ASSUME Init PROVE QueueInv
    OBVIOUS
  <2>1. \A s \in Sessions : txn[s] = Idle
    BY DEF Init
  <2>2. \A s \in Sessions : ~Active(s) /\ txn[s].posts = {}
    BY <2>1 DEF Active, Idle
  <2>3. \A c \in Concepts : InFlight(c) = {} /\ Posters(c) = {}
    BY <2>2 DEF InFlight, Posters, Init
  <2>4. Enqueuers \in SUBSET Sessions
    BY DEF Enqueuers
  <2>5. Cardinality(Enqueuers) \in Nat
    BY <2>4, SessionsAreFinite
  <2> QED
    BY <2>2, <2>3, <2>5, FS_EmptySet DEF QueueInv
<1>2. LedgerInv /\ QueueInv /\ [Next]_vars => QueueInv'
  BY StepKeepsQueue
<1>3. QueueInv => OpenReceiptsAreFew
  <2> SUFFICES ASSUME QueueInv, NEW c \in Concepts
               PROVE  Cardinality(InFlight(c)) <= Cardinality(Enqueuers)
    BY DEF OpenReceiptsAreFew
  <2>1. Posters(c) \in SUBSET Sessions /\ Enqueuers \in SUBSET Sessions
    BY DEF Posters, Enqueuers
  <2>2. Cardinality(Posters(c)) \in Nat /\ Cardinality(Enqueuers) \in Nat
    BY <2>1, SessionsAreFinite
  <2>3. IsFiniteSet(InFlight(c))
    BY DEF QueueInv
  <2>4. Cardinality(InFlight(c)) \in Nat
    BY <2>3, FS_CardinalityType
  <2> QED
    BY <2>2, <2>4 DEF QueueInv
<1> QED
  BY <1>1, <1>2, <1>3, LedgerInvariant, PTL DEF Spec

-------------------------------------------------------------------------------
(* While nothing has failed, no reply is malformed, and a reply that an     *)
(* open receipt still waits to be joined with landed within this hour.      *)
DrainInv ==
  /\ \A s \in Sessions : Active(s) => txn[s].hour > 0
  /\ faults = 0 =>
       \A p \in responses :
         /\ p.kind = "ok"
         /\ \A r \in receipts : r.id = p.id /\ Open(r) => p.landed = hour

LEMMA CommitKeepsDrained ==
  ASSUME LedgerInv, DrainInv, NEW s \in Sessions, Commit(s)
  PROVE  DrainInv'
<1> DEFINE t == txn[s]
<1>1. /\ t \in Run /\ Active(s) /\ t.hour \in Nat /\ t.hour > 0
      /\ txn' = [txn EXCEPT ![s] = Idle]
      /\ receipts' = receipts \cup NewReceipts(t) \/ receipts' = AfterDrain(t) \cup NewReceipts(t)
      /\ UNCHANGED <<responses, hour, faults>>
  BY DEF Commit, Active, LedgerInv, TypeOK, Run, DrainInv, bounds
<1>2. \A x \in AfterDrain(t) : Open(x) => x \in receipts
  BY <1>1 DEF AfterDrain, Closed, Open, LedgerInv, TypeOK, Receipt
<1>3. \A x \in receipts' : Open(x) => x \in receipts \/ x \in NewReceipts(t)
  BY <1>1, <1>2
<1>4. ASSUME NEW x \in NewReceipts(t), NEW p \in responses PROVE x.id # p.id
  <2>1. x.id.now = t.now
    BY <1>1, NewIsTyped
  <2>2. p.id \in RequestId /\ Known(p.id)
    BY DEF LedgerInv, TypeOK, Response, Known
  <2> QED
    BY <1>1, <2>1, <2>2 DEF LedgerInv, RunsAreDistinct
<1>5. \A u \in Sessions : txn'[u] = IF u = s THEN Idle ELSE txn[u]
  BY <1>1 DEF LedgerInv, TypeOK
<1>6. \A u \in Sessions : Active(u)' => txn'[u].hour > 0
  BY <1>5 DEF DrainInv, Active
<1>7. ASSUME faults = 0, NEW p \in responses, NEW r \in receipts', r.id = p.id, Open(r)
      PROVE  p.landed = hour
  BY <1>3, <1>4, <1>7 DEF DrainInv
<1> QED
  BY <1>1, <1>6, <1>7 DEF DrainInv, Open

LEMMA StepKeepsDrained ==
  ASSUME LedgerInv, DrainInv, [Next]_vars
  PROVE  DrainInv'
<1> USE DEF DrainInv
<1>1. CASE Write
  BY <1>1 DEF Write, Insert, Edit, CommitEdit, Delete, Writing, net, bounds, Open, Active
<1>2. ASSUME NEW s \in Sessions, Begin(s)
      PROVE  DrainInv'
  <2>1. UNCHANGED <<receipts, responses, hour, faults>>
    BY <1>2 DEF Begin, net, bounds
  <2>2. \A u \in Sessions \ {s} : txn'[u] = txn[u]
    BY <1>2 DEF Begin, LedgerInv, TypeOK
  <2>3. txn'[s].hour = hour /\ hour > 0
    BY <1>2 DEF Begin, LedgerInv, TypeOK
  <2> QED
    BY <2>1, <2>2, <2>3 DEF Open, Active
<1>3. ASSUME NEW s \in Sessions, ForeignKeyFails(s) \/ Abort(s)
      PROVE  DrainInv'
  <2>1. UNCHANGED <<receipts, responses, hour>> /\ \A u \in Sessions : txn'[u] = txn[u] \/ txn'[u] = Idle
    BY <1>3 DEF ForeignKeyFails, Abort, LedgerInv, TypeOK, net
  <2>2. faults' = 0 => faults = 0
    BY <1>3 DEF ForeignKeyFails, Abort, Fault, bounds, LedgerInv, TypeOK
  <2> QED
    BY <2>1, <2>2 DEF Open, Active
<1>4. CASE Crash
  BY <1>4 DEF Crash, Active
<1>5. ASSUME NEW q \in wire, NEW kind \in Reply, Land(q, kind)
      PROVE  DrainInv'
  <2>1. faults' = 0 => faults = 0 /\ kind = "ok"
    BY <1>5 DEF Land, Fault, bounds, LedgerInv, TypeOK
  <2>2. /\ responses' = responses \cup
             {[id |-> q.id, kind |-> kind, vector |-> q.doc, landed |-> hour]}
        /\ UNCHANGED <<receipts, txn, hour>>
    BY <1>5 DEF Land
  <2> QED
    BY <2>1, <2>2 DEF Open, Active
<1>6. ASSUME NEW p \in responses, Reap(p)
      PROVE  DrainInv'
  BY <1>6 DEF Reap, bounds, Open, Active
<1>7. CASE HourPasses
  <2>1. UNCHANGED <<receipts, responses, txn>>
    BY <1>7 DEF HourPasses, net
  <2>2. ASSUME faults' = 0 PROVE faults = 0 /\ Calm
    BY <1>7, <2>2 DEF HourPasses, Fault, bounds, LedgerInv, TypeOK
  <2>3. ASSUME faults' = 0 PROVE \A r \in receipts, p \in responses : r.id = p.id => ~Open(r)
    <3>1. ~Poisoned
      BY <2>2, <2>3 DEF Poisoned
    <3> QED
      BY <2>2, <2>3, <3>1 DEF Calm, Ready, Landed
  <2> QED
    BY <2>1, <2>2, <2>3 DEF Open, Active
<1>8. CASE (\E e \in Editors : BeginEdit(e)) \/ UNCHANGED vars
  BY <1>8 DEF BeginEdit, Writing, vars, net, bounds, Open, Active
<1> QED
  BY <1>1, <1>2, <1>3, <1>4, <1>5, <1>6, <1>7, <1>8, CommitKeepsDrained DEF Next

LEMMA DrainInvAlways == Spec => []DrainInv
<1>1. Init => DrainInv
  BY DEF Init, DrainInv, Active
<1>2. LedgerInv /\ DrainInv /\ [Next]_vars => DrainInv'
  BY StepKeepsDrained
<1> QED
  BY <1>1, <1>2, LedgerInvariant, PTL DEF Spec

(* Only pg_net's reaper and a crash take a reply away. *)
LEMMA RepliesLeaveDrained ==
  ASSUME LedgerInv, DrainInv, [Next]_vars, faults' = 0,
         NEW p \in responses, p \notin responses', NEW r \in receipts, r.id = p.id
  PROVE  ~Open(r)
<1>1. ~Crash
  BY DEF Crash, Fault, LedgerInv, TypeOK
<1>2. Reap(p) /\ faults = 0
  <2>1. CASE Write
    BY <2>1 DEF Write, Insert, Edit, CommitEdit, Delete, net
  <2>2. CASE \/ \E e \in Editors : BeginEdit(e)
             \/ \E s \in Sessions : Begin(s) \/ Commit(s) \/ ForeignKeyFails(s) \/ Abort(s)
             \/ HourPasses \/ UNCHANGED vars
    BY <2>2 DEF BeginEdit, Begin, Commit, ForeignKeyFails, Abort, HourPasses, vars, net
  <2>3. CASE \E q \in wire, kind \in Reply : Land(q, kind)
    BY <2>3 DEF Land
  <2>4. CASE \E x \in responses : Reap(x)
    BY <2>4 DEF Reap, bounds
  <2> QED
    BY <1>1, <2>1, <2>2, <2>3, <2>4 DEF Next
<1>3. p.landed < hour - Ttl /\ p.landed \in Nat /\ hour \in Nat /\ Ttl \in Nat
  BY <1>2, ConstantsAssumption DEF Reap, LedgerInv, TypeOK, Response
<1> QED
  BY <1>2, <1>3 DEF DrainInv

(* Until the first outage or bad reply, whatever the sessions and editors   *)
(* do, a reply is only ever reaped after a drain has closed its receipt     *)
(* (routines.sql 126-135).                                                  *)
THEOREM DrainedUntilAFault ==
  Spec => [][faults' = 0 =>
               \A p \in responses \ responses' : \A r \in receipts : r.id = p.id => ~Open(r)]_vars
<1>1. LedgerInv /\ DrainInv /\ [Next]_vars =>
        [faults' = 0 =>
           \A p \in responses \ responses' : \A r \in receipts : r.id = p.id => ~Open(r)]_vars
  BY RepliesLeaveDrained
<1> QED
  BY <1>1, LedgerInvariant, DrainInvAlways, PTL DEF Spec
===============================================================================
