----------------------------- MODULE EmbedPipeline -----------------------------
(***************************************************************************)
(* The embedding pipeline of db/routines.sql and db/cron.sql: concepts     *)
(* edited by anyone, maghz.embed_enqueue and maghz.embed_drain run every   *)
(* minute by two pg_cron jobs and, in one transaction, by the automation   *)
(* rail, and pg_net, which sends a request after its transaction commits,  *)
(* lands the response in an unlogged table and reaps it after its TTL.     *)
(*                                                                         *)
(* A run is two steps, because PostgreSQL's READ COMMITTED makes it two:   *)
(* Begin fixes now() and reads a snapshot, Commit writes.  A row that      *)
(* changed in between is re-checked against the UPDATE's own conditions on *)
(* the row, and not against what the run computed from its snapshot.       *)
(*                                                                         *)
(* Time has two grains.  `clock` numbers the transactions in the order of  *)
(* their now(); concept.updated_at and embedded_at are compared only with  *)
(* each other, and are such numbers.  `hour` is the grain of the TTL and   *)
(* retention horizons; embed_request.enqueued_at and drained_at are        *)
(* compared only with these, and are hours.  0 is SQL's NULL.              *)
(***************************************************************************)
EXTENDS Integers, FiniteSets

CONSTANTS Concepts,    \* concept ids
          Contents,    \* concept texts; a text stands for its own content_hash
          Null,        \* no row, no vector
          Sessions,    \* who runs the routines, a subset of AllSessions
          Editors,     \* clients that edit inside a longer transaction
          Batch,       \* embed_enqueue's _batch
          Ttl,         \* pg_net.ttl and embed_drain's _ttl, in hours
          Retention,   \* embed_drain's _retention, in hours
          MaxWrites,   \* bound: inserts, edits and deletes
          FaultKinds,  \* the faults that happen, a subset of AllFaultKinds
          MaxFaults    \* bound: faults of these kinds

(* A reply that is no embedding; a crash, an aborted run, an hour of standstill. *)
AllFaultKinds == {"bad_reply", "outage"}

AllSessions == {"cron_enqueue", "cron_drain", "automation"}
Enqueues(s) == s \in {"cron_enqueue", "automation"}
Drains(s) == s \in {"cron_drain", "automation"}

ASSUME ConstantsAssumption ==
  /\ Null \notin Contents
  /\ Sessions \subseteq AllSessions
  /\ Batch \in Nat \ {0} /\ Ttl \in Nat /\ Retention \in Nat
  /\ FaultKinds \subseteq AllFaultKinds
  /\ MaxWrites \in Nat /\ MaxFaults \in Nat

VARIABLES content,      \* concept.title || body || tags, i.e. concept.content_hash
          embedding,    \* the text concept.embedding was computed from
          updated_at,   \* also kept for a deleted concept: ids are not reused
          embedded_at,
          receipts,     \* maghz.embed_request
          wire,         \* net.http_request_queue and what the worker has in hand
          responses,    \* net._http_response
          txn,          \* the open run of each session
          editing,      \* now() of each editor's open transaction, 0 when closed
          clock, hour, writes, faults

rows == <<content, embedding, updated_at, embedded_at>>
net == <<wire, responses>>
bounds == <<writes, faults>>
vars == <<rows, receipts, net, txn, editing, clock, hour, bounds>>

-------------------------------------------------------------------------------
(* Records.  pg_net numbers requests; a run posts a concept at most once,   *)
(* so the run's now() and the concept name the request as well.             *)
RequestId == [now : Nat, concept : Concepts]
Receipt == [id : RequestId, hash : Contents, enqueued : Nat, drained : Nat]
Request == [id : RequestId, doc : Contents]
Reply == {"ok", "failed", "malformed"}
Response == [id : RequestId, kind : Reply, vector : Contents, landed : Nat]
Post == [concept : Concepts, hash : Contents]
Application == [concept : Concepts, hash : Contents, vector : Contents]
Run == [now : Nat, hour : Nat, posts : SUBSET Post, apply : SUBSET Application,
        ready : SUBSET RequestId, expired : SUBSET RequestId]

Idle == [now |-> 0, hour |-> 0, posts |-> {}, apply |-> {}, ready |-> {}, expired |-> {}]

Init ==
  /\ content = [c \in Concepts |-> Null]
  /\ embedding = [c \in Concepts |-> Null]
  /\ updated_at = [c \in Concepts |-> 0]
  /\ embedded_at = [c \in Concepts |-> 0]
  /\ receipts = {} /\ wire = {} /\ responses = {}
  /\ txn = [s \in Sessions |-> Idle]
  /\ editing = [e \in Editors |-> 0]
  /\ clock = 0 /\ hour = 1 /\ writes = 0 /\ faults = 0

-------------------------------------------------------------------------------
(* Writers of concept.                                                      *)

Live(c) == content[c] # Null

Writing == writes < MaxWrites /\ writes' = writes + 1 /\ UNCHANGED faults

(* Faulty variant: the trigger changes the hash and stamps nothing. *)
Unstamped(c, k, now) ==
  /\ content' = [content EXCEPT ![c] = k]
  /\ updated_at' = [updated_at EXCEPT ![c] = IF @ = 0 THEN now ELSE @]
  /\ UNCHANGED <<embedding, embedded_at>>

(* concept_maintain: a changed hash stamps updated_at with the writing      *)
(* transaction's now(), which PostgreSQL fixes when the transaction begins. *)
concept_maintain(c, k, now) ==
  /\ content' = [content EXCEPT ![c] = k]
  /\ updated_at' = [updated_at EXCEPT ![c] = now]
  /\ UNCHANGED <<embedding, embedded_at>>

Insert(c, k) ==
  /\ updated_at[c] = 0
  /\ Writing
  /\ clock' = clock + 1
  /\ concept_maintain(c, k, clock + 1)
  /\ UNCHANGED <<receipts, net, txn, editing, hour>>

(* A single-statement edit: its transaction begins as it writes. *)
Edit(c, k) ==
  /\ Live(c) /\ k # content[c]
  /\ Writing
  /\ clock' = clock + 1
  /\ concept_maintain(c, k, clock + 1)
  /\ UNCHANGED <<receipts, net, txn, editing, hour>>

(* A longer transaction: now() is fixed at BEGIN, the write comes later. *)
BeginEdit(e) ==
  /\ editing[e] = 0
  /\ Writing
  /\ clock' = clock + 1
  /\ editing' = [editing EXCEPT ![e] = clock + 1]
  /\ UNCHANGED <<rows, receipts, net, txn, hour>>

CommitEdit(e, c, k) ==
  /\ editing[e] # 0
  /\ Live(c) /\ k # content[c]
  /\ concept_maintain(c, k, editing[e])
  /\ editing' = [editing EXCEPT ![e] = 0]
  /\ UNCHANGED <<receipts, net, txn, clock, hour, bounds>>

(* The foreign key of embed_request cascades. *)
Delete(c) ==
  /\ Live(c)
  /\ Writing
  /\ content' = [content EXCEPT ![c] = Null]
  /\ embedding' = [embedding EXCEPT ![c] = Null]
  /\ embedded_at' = [embedded_at EXCEPT ![c] = 0]
  /\ receipts' = {r \in receipts : r.id.concept # c}
  /\ UNCHANGED <<updated_at, net, txn, editing, clock, hour>>

-------------------------------------------------------------------------------
(* What a run reads in its snapshot.                                        *)

Open(r) == r.drained = 0

Stale(c) == embedding[c] = Null \/ embedded_at[c] = 0 \/ embedded_at[c] < updated_at[c]

(* Faulty variant: no look at the receipts already in flight. *)
PendingUnguarded == {c \in Concepts : Live(c) /\ Stale(c)}

Pending ==
  {c \in Concepts : Live(c) /\ Stale(c) /\ \A r \in receipts : r.id.concept = c => ~Open(r)}

(* ORDER BY updated_at LIMIT _batch *)
IsBatch(S) ==
  /\ Cardinality(S) = IF Cardinality(Pending) < Batch THEN Cardinality(Pending) ELSE Batch
  /\ \A c \in S, d \in Pending \ S : updated_at[c] <= updated_at[d]

Landed(r) == \E p \in responses : p.id = r.id

(* Faulty variant: a superseded receipt is not closed by its response. *)
ReadyIfCurrent ==
  {r \in receipts : Open(r) /\ Landed(r) /\ content[r.id.concept] = r.hash}

Ready == {r \in receipts : Open(r) /\ Landed(r)}

(* `content::jsonb` raises for the whole statement when one response is not JSON. *)
Poisoned == \E r \in Ready, p \in responses : p.id = r.id /\ p.kind = "malformed"

(* Faulty variant: no horizon branch, so a lost response keeps its receipt open. *)
NeverExpired(h) == {}

Expired(h) == {r \in receipts : Open(r) /\ r.enqueued < h - Ttl /\ ~Landed(r)}

(* Faulty variant: closed receipts are kept. *)
NeverPrunable(R, h) == {}

Prunable(R, h) == {r \in R : ~Open(r) /\ r.drained < h - Retention}

(* Rows of `ready` that the UPDATE of `applied` selects in the snapshot. *)
Applicable ==
  {a \in Application : \E r \in Ready, p \in responses :
     /\ p.id = r.id /\ p.kind = "ok"
     /\ content[a.concept] = r.hash
     /\ a = [concept |-> r.id.concept, hash |-> r.hash, vector |-> p.vector]}

(* Begin: now() and the snapshot.  A run that would find nothing to do, and a *)
(* drain that raises on a malformed response, change nothing: no step.        *)
Begin(s) ==
  /\ txn[s] = Idle
  /\ Drains(s) => ~Poisoned
  /\ \E S \in SUBSET Pending :
       /\ IF Enqueues(s) THEN IsBatch(S) ELSE S = {}
       /\ \/ S # {}
          \/ Drains(s) /\ Ready \cup Expired(hour) \cup Prunable(receipts, hour) # {}
       /\ txn' = [txn EXCEPT ![s] =
            [now     |-> clock + 1,
             hour    |-> hour,
             posts   |-> {[concept |-> c, hash |-> content[c]] : c \in S},
             apply   |-> IF Drains(s) THEN Applicable ELSE {},
             ready   |-> IF Drains(s) THEN {r.id : r \in Ready} ELSE {},
             expired |-> IF Drains(s) THEN {r.id : r \in Expired(hour)} ELSE {}]]
  /\ clock' = clock + 1
  /\ UNCHANGED <<rows, receipts, net, editing, hour, bounds>>

-------------------------------------------------------------------------------
(* What a run writes.                                                       *)

(* Faulty variant: the snapshot decides, the row is not checked again. *)
AppliedUnchecked(t) == {a \in t.apply : Live(a.concept)}

(* UPDATE concept: the hash is checked again on the row as it is now. *)
Applied(t) == {a \in t.apply : content[a.concept] = a.hash}

Refreshed(t) == {a.concept : a \in Applied(t)}

VectorOf(t, c) == (CHOOSE a \in Applied(t) : a.concept = c).vector

(* `closed` joins the materialised `ready` and does not look at drained_at     *)
(* again; `expired` checks it again on the row.                                *)
Closed(r, t) ==
  IF r.id \in t.ready \/ (r.id \in t.expired /\ Open(r))
  THEN [r EXCEPT !.drained = t.hour] ELSE r

AfterDrain(t) == LET R == {Closed(r, t) : r \in receipts} IN R \ Prunable(R, t.hour)

PostId(t, p) == [now |-> t.now, concept |-> p.concept]

(* Faulty variant: the receipt takes the hash the concept has at commit. *)
NewReceiptsRehashed(t) ==
  {[id |-> PostId(t, p), hash |-> content[p.concept], enqueued |-> t.hour, drained |-> 0] :
     p \in t.posts}

(* The receipts of the run, and its requests, which pg_net sees on commit. *)
NewReceipts(t) ==
  {[id |-> PostId(t, p), hash |-> p.hash, enqueued |-> t.hour, drained |-> 0] : p \in t.posts}

NewRequests(t) == {[id |-> PostId(t, p), doc |-> p.hash] : p \in t.posts}

(* Faulty variant: the vector is written and its time is not. *)
WriteVectorsOnly(t) ==
  /\ embedding' = [c \in Concepts |->
                     IF c \in Refreshed(t) THEN VectorOf(t, c) ELSE embedding[c]]
  /\ UNCHANGED embedded_at

WriteVectors(t) ==
  /\ embedding' = [c \in Concepts |->
                     IF c \in Refreshed(t) THEN VectorOf(t, c) ELSE embedding[c]]
  /\ embedded_at' = [c \in Concepts |->
                     IF c \in Refreshed(t) THEN t.now ELSE embedded_at[c]]

Commit(s) ==
  LET t == txn[s] IN
  /\ t # Idle
  /\ \A p \in t.posts : Live(p.concept)
  /\ WriteVectors(t)
  /\ receipts' = IF Drains(s) THEN AfterDrain(t) \cup NewReceipts(t)
                               ELSE receipts \cup NewReceipts(t)
  /\ wire' = wire \cup NewRequests(t)
  /\ txn' = [txn EXCEPT ![s] = Idle]
  /\ UNCHANGED <<content, updated_at, responses, editing, clock, hour, bounds>>

Fault(kind) ==
  kind \in FaultKinds /\ faults < MaxFaults /\ faults' = faults + 1 /\ UNCHANGED writes

(* A receipt of a concept deleted since the snapshot violates the foreign key. *)
ForeignKeyFails(s) ==
  /\ \E p \in txn[s].posts : ~Live(p.concept)
  /\ txn' = [txn EXCEPT ![s] = Idle]
  /\ UNCHANGED <<rows, receipts, net, editing, clock, hour, bounds>>

(* Deadlock between two drains, lock timeout, a cancelled client: rolled back. *)
Abort(s) ==
  /\ txn[s] # Idle
  /\ Fault("outage")
  /\ txn' = [txn EXCEPT ![s] = Idle]
  /\ UNCHANGED <<rows, receipts, net, editing, clock, hour>>

-------------------------------------------------------------------------------
(* pg_net, Ollama and the passing of time.                                  *)

(* The worker posts a committed request and lands what comes back.  A failure *)
(* is a status other than 200, a timeout, or no vector in the body.           *)
Land(q, kind) ==
  /\ IF kind = "ok" THEN UNCHANGED bounds ELSE Fault("bad_reply")
  /\ wire' = wire \ {q}
  /\ responses' = responses \cup {[id |-> q.id, kind |-> kind, vector |-> q.doc, landed |-> hour]}
  /\ UNCHANGED <<rows, receipts, txn, editing, clock, hour>>

Reap(p) ==
  /\ p.landed < hour - Ttl
  /\ responses' = responses \ {p}
  /\ UNCHANGED <<rows, receipts, wire, txn, editing, clock, hour, bounds>>

(* The server crashes: open transactions roll back and pg_net's unlogged *)
(* tables come back empty; the receipts survive.                         *)
Crash ==
  /\ Fault("outage")
  /\ wire' = {} /\ responses' = {}
  /\ txn' = [s \in Sessions |-> Idle]
  /\ editing' = [e \in Editors |-> 0]
  /\ UNCHANGED <<rows, receipts, clock, hour>>

(* An hour is long beside a cron minute and the 20 s request timeout: it passes *)
(* while something could still be done only in an outage.  Hours that no        *)
(* horizon waits for are left out.                                              *)
Calm == /\ \A s \in Sessions : txn[s] = Idle
        /\ wire = {} /\ Pending = {}
        /\ Ready = {} \/ Poisoned

HorizonAhead ==
  \/ \E r \in receipts : hour <= IF Open(r) THEN r.enqueued + Ttl ELSE r.drained + Retention
  \/ \E p \in responses : hour <= p.landed + Ttl

HourPasses ==
  /\ HorizonAhead
  /\ IF Calm THEN UNCHANGED bounds ELSE Fault("outage")
  /\ hour' = hour + 1
  /\ UNCHANGED <<rows, receipts, net, txn, editing, clock>>

-------------------------------------------------------------------------------
Write == \E c \in Concepts :
  \/ Delete(c)
  \/ \E k \in Contents :
       \/ Insert(c, k)
       \/ Edit(c, k)
       \/ \E e \in Editors : CommitEdit(e, c, k)

Next ==
  \/ Write
  \/ \E e \in Editors : BeginEdit(e)
  \/ \E s \in Sessions : Begin(s) \/ Commit(s) \/ ForeignKeyFails(s) \/ Abort(s)
  \/ \E q \in wire, kind \in Reply : Land(q, kind)
  \/ \E p \in responses : Reap(p)
  \/ Crash
  \/ HourPasses

Spec == Init /\ [][Next]_vars

(* pg_cron starts each job every minute and a started run ends; the worker *)
(* answers what it holds; hours pass and responses are reaped.             *)
Fairness ==
  /\ \A s \in Sessions :
       /\ WF_vars(Begin(s))
       /\ WF_vars(Commit(s))
       /\ WF_vars(ForeignKeyFails(s))
  /\ WF_vars(\E q \in wire : Land(q, "ok"))
  /\ WF_vars(\E p \in responses : Reap(p))
  /\ WF_vars(HourPasses)

FairSpec == Spec /\ Fairness

-------------------------------------------------------------------------------
(* Properties.                                                              *)

(* Every variable has its type, and a concept has a vector exactly when it    *)
(* has the time of the drain that wrote it (schema.sql keeps them apart, and  *)
(* the pending selector reads both).                                          *)
TypeOK ==
  /\ content \in [Concepts -> Contents \cup {Null}]
  /\ embedding \in [Concepts -> Contents \cup {Null}]
  /\ updated_at \in [Concepts -> Nat]
  /\ embedded_at \in [Concepts -> Nat]
  /\ receipts \subseteq Receipt
  /\ wire \subseteq Request
  /\ responses \subseteq Response
  /\ txn \in [Sessions -> Run]
  /\ editing \in [Editors -> Nat]
  /\ clock \in Nat /\ hour \in Nat \ {0}
  /\ writes \in 0..MaxWrites /\ faults \in 0..MaxFaults
  /\ \A c \in Concepts : embedding[c] = Null <=> embedded_at[c] = 0

(* A vector the sweep takes for fresh is the current content's: whatever       *)
(* edits, replies, crashes and overlapping runs came before, a concept whose   *)
(* vector is out of date is one embed_enqueue still selects (routines.sql      *)
(* 45-46).  It holds while every edit is its own transaction; an editor that   *)
(* holds one open breaks it, see run embed_overlap.                            *)
FreshMeansCurrent ==
  \A c \in Concepts : Live(c) /\ ~Stale(c) => embedding[c] = content[c]

(* No concept has two requests in flight: the guard "prevents double-posting *)
(* a concept already in flight" (routines.sql 83-84).  Two runs that enqueue *)
(* at once break it, see run embed_double_post.                              *)
OneOpenReceipt ==
  \A r, q \in receipts : Open(r) /\ Open(q) /\ r.id.concept = q.id.concept => r = q

(* What the anti-join of `pending` (routines.sql 97-100) does keep, whatever  *)
(* sessions overlap: a concept has at most one request in flight for each     *)
(* session that enqueues, however often they run, roll back and crash.        *)
Enqueuers == {s \in Sessions : Enqueues(s)}

InFlight(c) == {r \in receipts : Open(r) /\ r.id.concept = c}

OpenReceiptsAreFew ==
  \A c \in Concepts : Cardinality(InFlight(c)) <= Cardinality(Enqueuers)

(* A response written back belongs to the request of a receipt that was in  *)
(* the ledger when the run read it, and carries that receipt's text: late,  *)
(* orphaned or duplicate responses never reach another concept or content.  *)
RequestsAnswerReceipts ==
  \A r \in receipts : /\ \A q \in wire : q.id = r.id => q.doc = r.hash
                      /\ \A p \in responses : p.id = r.id => p.vector = r.hash

(* What readers are promised: every refresh writes the embedding of the     *)
(* content the concept has at that moment, edits and deletes never touch    *)
(* another concept's vector, and (with fairness) a vector that stays out of *)
(* date is refreshed, across crashes, lost requests and failed replies.     *)
Store == INSTANCE EmbedStore WITH vector <- embedding

ImplementsStoreSafely == Store!SafeSpec
ImplementsStore == Store!Spec

(* A good reply that has landed is read by a drain before pg_net reaps it; the  *)
(* `expired` branch "only fires after an outage" (routines.sql 133-135).  The   *)
(* reply of another concept that is not JSON breaks it without any outage, see  *)
(* run embed_poison.                                                            *)
RepliesAreDrained ==
  [][\A p \in responses \ responses' : p.kind = "ok" =>
       \A r \in receipts : r.id = p.id => ~Open(r)]_vars

(* No request blocks its concept for ever: a receipt is closed, pruned or   *)
(* cascaded away, also when its response was lost or reaped (the `expired`  *)
(* branch, routines.sql 129-134).                                           *)
ReceiptsClose ==
  \A c \in Concepts :
    (\E r \in receipts : Open(r) /\ r.id.concept = c)
      ~> (\A r \in receipts : r.id.concept = c => ~Open(r))

(* The ledger is bounded by the working set: once the writers rest, every   *)
(* receipt is pruned (routines.sql 181-184).                                *)
LedgerEmpties == <>[](receipts = {})
===============================================================================
