------------------------------- MODULE RailProofs -------------------------------
(***************************************************************************)
(* Theorems about `schema apply` and `stack up`, for any number of         *)
(* invocations, and about `maghz remote exec`, for any tree and any        *)
(* interleaving with its edits.                                            *)
(***************************************************************************)
EXTENDS SchemaRail, StackRail, RemoteRail, FiniteSetTheorems, TLAPS

(* A step graded with exit 0 is in place, and an ok means that all are. *)
SchemaInv ==
  /\ SchemaTypeOK
  /\ applies = 0 => exit = -1
  /\ \A s \in Step : grade[s] = "exit_0" => s \in effect
  /\ applies > 0 /\ envelope = "ok" => effect = Step
  /\ exit # -1 => envelope \in Status /\ exit = code[envelope]
  /\ envelope \notin {"skip", "empty", "unsupported"}

LEMMA SchemaInvInitially ==
  ASSUME SchemaInit, EnvelopeInit PROVE SchemaInv
BY SchemaAssumption DEF SchemaInit, EnvelopeInit, SchemaInv, SchemaTypeOK, Status

LEMMA Ranks == rank["ok"] = 0 /\ rank["failed"] = 2
BY DEF rank

LEMMA Codes ==
  /\ code["ok"] = 0 /\ code["unsupported"] = 3 /\ code["failed"] = 1 /\ code["faulted"] = 2
  /\ \A s \in Status : code[s] \in {0, 1, 2, 3}
BY DEF code, Status

LEMMA WorstOf ==
  /\ worst("ok", "ok") = "ok" /\ worst("failed", "ok") = "failed"
  /\ worst("ok", "failed") = "failed" /\ worst("failed", "failed") = "failed"
BY Ranks DEF worst

(* The fold of the exits is ok only when every exit is 0. *)
LEMMA SettledOk ==
  ASSUME \A s \in Step : grade[s] \in Graded
  PROVE  /\ _settled \in {"ok", "failed", "faulted"}
         /\ _settled = "ok" => \A s \in Step : grade[s] = "exit_0"
<1> DEFINE StatusOf(s) == IF grade[s] = "exit_0" THEN "ok" ELSE "failed"
           statuses == {StatusOf(s) : s \in Step}
           candidates == {"ok"} \cup {s \in statuses : rank[s] > 0}
<1>1. CASE \E s \in Step : grade[s] = "fault"
  BY <1>1 DEF _settled
<1>2. CASE ~ \E s \in Step : grade[s] = "fault"
  <2>1. _settled = fold(statuses)
    BY <1>2 DEF _settled
  <2>2. statuses \subseteq {"ok", "failed"}
    OBVIOUS
  <2>3. \E w \in candidates : \A s \in statuses : worst(w, s) = w
    <3>1. CASE "failed" \in statuses
      <4>1. rank["failed"] > 0
        BY Ranks
      <4>3. "failed" \in candidates
        BY <3>1, <4>1
      <4>2. \A s \in statuses : worst("failed", s) = "failed"
        BY <2>2, WorstOf
      <4> QED BY <4>2, <4>3
    <3>2. CASE "failed" \notin statuses
      <4>1. \A s \in statuses : worst("ok", s) = "ok"
        BY <2>2, <3>2, WorstOf
      <4> QED BY <4>1
    <3> QED BY <3>1, <3>2
  <2>4. /\ fold(statuses) \in candidates
        /\ \A s \in statuses : worst(fold(statuses), s) = fold(statuses)
    BY <2>3 DEF fold
  <2>5. ASSUME fold(statuses) = "ok" PROVE "failed" \notin statuses
    BY <2>4, <2>5, WorstOf
  <2>6. ASSUME fold(statuses) = "ok", NEW s \in Step PROVE grade[s] = "exit_0"
    BY <2>5, <2>6
  <2>7. candidates \subseteq {"ok", "failed"}
    BY <2>2
  <2> QED BY <2>1, <2>4, <2>6, <2>7
<1> QED BY <1>1, <1>2

LEMMA SchemaInvPreserved ==
  ASSUME SchemaInv, SchemaNext \/ UNCHANGED <<schemaVars, envelopeVars>>
  PROVE  SchemaInv'
<1> USE SchemaAssumption DEF SchemaInv, SchemaTypeOK, envelopeVars, schemaVars
<1>1. CASE schema
  <2>1. SchemaTypeOK'
    BY <1>1 DEF schema
  <2>2. applies' > 0 /\ exit' = -1 /\ envelope' = "none"
    BY <1>1 DEF schema
  <2>3. \A s \in Step : grade'[s] # "exit_0"
    BY <1>1 DEF schema
  <2> QED BY <2>1, <2>2, <2>3
<1>2. CASE _apply
  <2>1. /\ _settled \in {"ok", "failed", "faulted"}
        /\ _settled = "ok" => \A s \in Step : grade[s] = "exit_0"
    BY <1>2, SettledOk DEF _apply
  <2> QED BY <1>2, <2>1 DEF _apply, Applying, Running, Status
<1>3. CASE SchemaEmit
  <2>1. envelope \in Status /\ exit' = code[envelope] /\ UNCHANGED <<envelope, applies, grade, effect>>
    BY <1>3 DEF SchemaEmit, main
  <2>2. exit' \in {0, 1, 2, 3}
    BY <2>1, Codes
  <2> QED BY <1>3, <2>1, <2>2 DEF SchemaEmit
<1>4. ASSUME NEW s \in Step, NEW result \in Graded, _grade(s, result) PROVE SchemaInv'
  <2>1. envelope = "none" /\ UNCHANGED <<applies, envelope, exit>> /\ effect \subseteq effect'
    BY <1>4 DEF _grade, Applying, Running
  <2>2. effect' \subseteq Step
    BY <1>4 DEF _grade
  <2>3. grade' \in [Step -> Graded \cup {"none"}]
    BY <1>4 DEF _grade
  <2>4. \A t \in Step : grade'[t] = "exit_0" => t \in effect'
    BY <1>4, <2>1 DEF _grade
  <2> QED BY <2>1, <2>2, <2>3, <2>4
<1>5. CASE UNCHANGED <<schemaVars, envelopeVars>>
  BY <1>5
<1> QED BY <1>1, <1>2, <1>3, <1>4, <1>5 DEF SchemaNext

(* An apply that exits with 0 has left every step applied in full, however  *)
(* many came before it and however they ended (rails.py 481-519).           *)
THEOREM AppliedWhenOk == SchemaSpec => []OkMeansApplied
<1>1. SchemaInit /\ EnvelopeInit => SchemaInv
  BY SchemaInvInitially
<1>2. SchemaInv /\ [SchemaNext]_<<schemaVars, envelopeVars>> => SchemaInv'
  BY SchemaInvPreserved
<1>3. SchemaInv => OkMeansApplied
  <2> SUFFICES ASSUME SchemaInv, applies > 0, exit = 0 PROVE effect = Step
    BY DEF OkMeansApplied
  <2>1. envelope \in Status /\ code[envelope] = 0
    BY DEF SchemaInv
  <2>2. envelope = "ok"
    BY <2>1, Codes DEF Status, SchemaInv
  <2> QED BY <2>2 DEF SchemaInv
<1> QED BY <1>1, <1>2, <1>3, PTL DEF SchemaSpec

-------------------------------------------------------------------------------
(* The sink holds what its own attempt emitted, and nothing happens to an   *)
(* invocation once it has its envelope. *)
SinkIsOwn ==
  /\ tries \in Nat
  /\ emitted \subseteq Nat \X {"warning", "error"}
  /\ \A d \in emitted : d[1] <= tries
  /\ engine = {d \in emitted : d[1] = tries}
  /\ envelope # "none" => phase = "done"
  /\ exit # -1 => envelope # "none"
  /\ verb = "none" => phase = "idle"

(* An attempt of `up` that has seen no error leaves everything there. *)
UpConverges ==
  /\ recorded \subseteq Resources /\ present \subseteq Resources
  /\ phase = "refreshed" => recorded \subseteq present
  /\ verb = "up" /\ phase \in {"returned", "pull_1", "pull_2"} /\ <<tries, "error">> \notin engine
       => present = Resources

StackInv == SinkIsOwn /\ UpConverges /\ DiagnosticsAreOwn /\ UpOkMeansConverged

LEMMA StackInvInitially == ASSUME StackInit, EnvelopeInit PROVE StackInv
BY DEF StackInit, EnvelopeInit, StackInv, SinkIsOwn, UpConverges, DiagnosticsAreOwn, UpOkMeansConverged

(* What the events of a step add to both. *)
LEMMA CollectKeepsOwn ==
  ASSUME SinkIsOwn, NEW severities \in SUBSET {"warning", "error"}, Collect(severities),
         UNCHANGED <<tries, verb, envelope, exit>>, envelope = "none", verb # "none"
  PROVE  /\ SinkIsOwn'
         /\ engine \subseteq engine'
         /\ "error" \in severities => <<tries, "error">> \in engine'
<1>1. emitted' \subseteq Nat \X {"warning", "error"}
  BY DEF SinkIsOwn, Collect
<1>2. \A d \in emitted' : d[1] <= tries
  BY DEF SinkIsOwn, Collect
<1>3. engine' = {d \in emitted' : d[1] = tries}
  BY DEF SinkIsOwn, Collect
<1>4. engine \subseteq engine' /\ ("error" \in severities => <<tries, "error">> \in engine')
  BY DEF Collect
<1> QED BY <1>1, <1>2, <1>3, <1>4 DEF SinkIsOwn

LEMMA GradedBySink ==
  ASSUME SinkIsOwn
  PROVE  /\ graded \in {"ok", "failed"}
         /\ graded = "failed" <=> <<tries, "error">> \in emitted
<1>1. ASSUME NEW d \in engine, d[2] = "error" PROVE d = <<tries, "error">>
  BY <1>1 DEF SinkIsOwn
<1>2. <<tries, "error">> \in emitted => <<tries, "error">> \in engine
  BY DEF SinkIsOwn
<1>3. engine \subseteq emitted
  BY DEF SinkIsOwn
<1>4. (\E d \in engine : d[2] = "error") <=> <<tries, "error">> \in emitted
  BY <1>1, <1>2, <1>3
<1> QED BY <1>4 DEF graded

LEMMA StackInvPreserved ==
  ASSUME StackInv, StackNext \/ UNCHANGED <<stackVars, envelopeVars>> PROVE StackInv'
<1> USE DEF StackInv, stackVars, envelopeVars
<1>1. ASSUME NEW op \in {"up", "down", "status"}, stack(op) PROVE StackInv'
  BY <1>1 DEF stack, SinkIsOwn, UpConverges, DiagnosticsAreOwn, UpOkMeansConverged
<1>2. CASE Serve
  <2>1. verb # "none" => exit # -1
    BY <1>2 DEF Serve, StackIdle
  <2> QED BY <1>2, <2>1 DEF Serve, SinkIsOwn, UpConverges, DiagnosticsAreOwn, UpOkMeansConverged
<1>3. ASSUME NEW c \in Containers, Vanish(c) PROVE StackInv'
  <2>1. verb # "none" => exit # -1
    BY <1>3 DEF Vanish, StackIdle
  <2>2. phase \in {"idle", "done"}
    BY <2>1 DEF SinkIsOwn
  <2> QED BY <1>3, <2>1, <2>2 DEF Vanish, SinkIsOwn, UpConverges, DiagnosticsAreOwn, UpOkMeansConverged
<1>4. ASSUME NEW severities \in SUBSET {"warning", "error"}, refresh(severities) PROVE StackInv'
  <2>1. SinkIsOwn' /\ envelope = "none" /\ envelope' = "none"
    BY <1>4, CollectKeepsOwn DEF refresh, SinkIsOwn
  <2>2. recorded' = recorded \cap present /\ present' = present /\ phase' = "refreshed"
    BY <1>4 DEF refresh
  <2> QED BY <2>1, <2>2 DEF UpConverges, DiagnosticsAreOwn, UpOkMeansConverged
<1>5. ASSUME NEW severities \in SUBSET {"warning", "error"}, _preview(severities) PROVE StackInv'
  <2>1. SinkIsOwn' /\ envelope = "none" /\ envelope' = "none"
    BY <1>5, CollectKeepsOwn DEF _preview, SinkIsOwn
  <2>2. UNCHANGED <<recorded, present>> /\ phase' = "returned" /\ verb' = "status"
    BY <1>5 DEF _preview
  <2> QED BY <2>1, <2>2 DEF UpConverges, DiagnosticsAreOwn, UpOkMeansConverged
<1>6. ASSUME NEW severities \in SUBSET {"warning", "error"}, NEW failing \in Failing, _up(failing, severities)
      PROVE StackInv'
  <2>1. /\ SinkIsOwn' /\ envelope = "none" /\ envelope' = "none"
        /\ "error" \in severities => <<tries, "error">> \in engine'
    BY <1>6, CollectKeepsOwn DEF _up, SinkIsOwn
  <2> DEFINE created == {r \in Resources \ recorded : ({r} \cup Deps(r)) \cap failing = {}}
  <2>2. /\ recorded' = recorded \cup created /\ present' = present \cup created
        /\ phase = "refreshed" /\ phase' = "returned" /\ tries' = tries
        /\ failing # {} => "error" \in severities
    BY <1>6 DEF _up
  <2>3. failing = {} => present' = Resources
    BY <2>2 DEF UpConverges
  <2>4. recorded' \subseteq Resources /\ present' \subseteq Resources
    BY <2>2 DEF UpConverges
  <2>5. <<tries, "error">> \notin engine' => present' = Resources
    BY <2>1, <2>2, <2>3
  <2>6. UpConverges'
    BY <2>2, <2>4, <2>5 DEF UpConverges
  <2> QED BY <2>1, <2>6 DEF DiagnosticsAreOwn, UpOkMeansConverged
<1>7. ASSUME NEW severities \in SUBSET {"warning", "error"}, NEW failing \in Failing, _down(failing, severities)
      PROVE StackInv'
  <2>1. SinkIsOwn' /\ envelope = "none" /\ envelope' = "none"
    BY <1>7, CollectKeepsOwn DEF _down, SinkIsOwn
  <2>2. recorded' \subseteq recorded /\ present' \subseteq present /\ verb' = "down" /\ phase' = "returned"
    BY <1>7 DEF _down
  <2> QED BY <2>1, <2>2 DEF UpConverges, DiagnosticsAreOwn, UpOkMeansConverged
<1>8. ASSUME StackFaults, phase # "done", phase # "idle" PROVE StackInv'
  BY <1>8 DEF StackFaults, fault, SinkIsOwn, UpConverges, DiagnosticsAreOwn, UpOkMeansConverged
<1>9. ASSUME NEW cause \in {"FileNotFoundError", "TerminalError"}, _offload(cause) PROVE StackInv'
  <2>1. CASE StackFaults
    BY <1>8, <1>9, <2>1 DEF _offload
  <2>2. CASE ~StackFaults
    <3>1. /\ tries' = tries + 1 /\ engine' = {} /\ phase' = "driving" /\ envelope = "none"
          /\ UNCHANGED <<verb, emitted, recorded, present, stored, envelope, exit>>
      BY <1>9, <2>2 DEF _offload, SinkIsOwn
    <3>2. \A d \in emitted' : d[1] \in Nat /\ d[1] <= tries' /\ d[1] # tries'
      BY <3>1 DEF SinkIsOwn
    <3>3. verb # "none" /\ exit = -1
      BY <1>9, <3>1 DEF _offload, SinkIsOwn
    <3>4. engine' = {d \in emitted' : d[1] = tries'}
      BY <3>1, <3>2
    <3>5. SinkIsOwn'
      BY <3>1, <3>2, <3>3, <3>4 DEF SinkIsOwn
    <3> QED BY <3>1, <3>5 DEF UpConverges, DiagnosticsAreOwn, UpOkMeansConverged
  <2> QED BY <2>1, <2>2
<1>10. CASE _project
  <2>1. graded \in {"ok", "failed"} /\ (graded = "failed" <=> <<tries, "error">> \in emitted)
    BY GradedBySink
  <2>2. /\ phase = "returned" /\ UNCHANGED <<verb, tries, engine, emitted, recorded, present, exit>>
        /\ \/ verb = "up" /\ phase' = "pull_1" /\ envelope' = envelope
           \/ verb # "up" /\ phase' = "done" /\ envelope' = graded
    BY <1>10 DEF _project, completed
  <2>3. SinkIsOwn'
    BY <2>2 DEF SinkIsOwn
  <2>4. DiagnosticsAreOwn'
    BY <2>1, <2>2 DEF DiagnosticsAreOwn
  <2>5. UpOkMeansConverged'
    BY <2>2 DEF UpOkMeansConverged, SinkIsOwn
  <2> QED BY <2>2, <2>3, <2>4, <2>5 DEF UpConverges
<1>11. CASE _pull_embed_model
  <2>1. graded \in {"ok", "failed"} /\ (graded = "failed" <=> <<tries, "error">> \in emitted)
    BY GradedBySink
  <2>2. /\ phase \in {"pull_1", "pull_2"} /\ UNCHANGED <<verb, tries, engine, emitted, recorded, present, exit>>
        /\ phase' = "done" /\ envelope' = graded /\ "ollama-models" \in stored'
    BY <1>11 DEF _pull_embed_model, Pulling, completed
  <2>3. engine \subseteq emitted
    BY DEF SinkIsOwn
  <2>4. verb = "up" /\ graded = "ok" => present = Resources
    BY <2>1, <2>2, <2>3 DEF UpConverges
  <2>5. SinkIsOwn'
    BY <2>2 DEF SinkIsOwn
  <2>6. DiagnosticsAreOwn'
    BY <2>1, <2>2 DEF DiagnosticsAreOwn
  <2>7. UpOkMeansConverged'
    BY <2>2, <2>4 DEF UpOkMeansConverged
  <2> QED BY <2>2, <2>5, <2>6, <2>7 DEF UpConverges
<1>12. ASSUME NEW cause \in {"ConnectError", "HTTPStatusError", "HTTPError"}, PullFails(cause) PROVE StackInv'
  <2>1. CASE StackFaults
    BY <1>8, <1>12, <2>1 DEF PullFails, Pulling
  <2>2. CASE ~StackFaults
    <3>1. /\ phase = "pull_1" /\ phase' = "pull_2"
          /\ UNCHANGED <<verb, tries, engine, emitted, recorded, present, stored, envelope, exit>>
      BY <1>12, <2>2 DEF PullFails
    <3> QED BY <3>1 DEF SinkIsOwn, UpConverges, DiagnosticsAreOwn, UpOkMeansConverged
  <2> QED BY <2>1, <2>2
<1>13. CASE StackEmit
  <2>1. exit' \in {0, 1, 2, 3}
    BY <1>13, Codes DEF StackEmit, main
  <2>2. exit' # -1 /\ envelope \in Status /\ UNCHANGED <<stackVars, envelope>>
    BY <1>13, <2>1 DEF StackEmit, main
  <2>3. SinkIsOwn'
    BY <2>2 DEF SinkIsOwn, Status
  <2> QED BY <2>2, <2>3 DEF UpConverges, DiagnosticsAreOwn, UpOkMeansConverged
<1>14. CASE UNCHANGED <<stackVars, envelopeVars>>
  BY <1>14 DEF SinkIsOwn, UpConverges, DiagnosticsAreOwn, UpOkMeansConverged
<1> QED BY <1>1, <1>2, <1>3, <1>4, <1>5, <1>6, <1>7, <1>9, <1>10, <1>11, <1>12, <1>13, <1>14 DEF StackNext

(* An `up` that reports ok has left every resource and the model there, for *)
(* any number of failures, repetitions and removals (infra.py 445-489).     *)
THEOREM UpConverged == StackSpec => []UpOkMeansConverged
<1>1. StackInit /\ EnvelopeInit => StackInv
  BY StackInvInitially
<1>2. StackInv /\ [StackNext]_<<stackVars, envelopeVars>> => StackInv'
  BY StackInvPreserved
<1>3. StackInv => UpOkMeansConverged
  BY DEF StackInv
<1> QED BY <1>1, <1>2, <1>3, PTL DEF StackSpec

(* The grade of an invocation is that of the attempt which returned         *)
(* (infra.py 433-442).                                                      *)
THEOREM GradesAreOwn == StackSpec => []DiagnosticsAreOwn
<1>1. StackInit /\ EnvelopeInit => StackInv
  BY StackInvInitially
<1>2. StackInv /\ [StackNext]_<<stackVars, envelopeVars>> => StackInv'
  BY StackInvPreserved
<1>3. StackInv => DiagnosticsAreOwn
  BY DEF StackInv
<1> QED BY <1>1, <1>2, <1>3, PTL DEF StackSpec

(* What the volumes hold outlives every `up` and `status`, with whatever    *)
(* they repair, repeat or fail at, and every container that vanishes; run   *)
(* stack_down shows what `down` does (infra.py 445-496). *)
THEOREM OnlyDownDeletes == StackSpec => [][verb # "down" => stored \subseteq stored']_stackVars
<1>1. ASSUME StackNext \/ UNCHANGED <<stackVars, envelopeVars>>, verb # "down"
      PROVE  stored \subseteq stored'
  BY <1>1
     DEF StackNext, stack, Serve, Vanish, refresh, _preview, _up, _down, _offload, StackFaults,
         _project, _pull_embed_model, PullFails, StackEmit, stackVars
<1>2. [StackNext]_<<stackVars, envelopeVars>> => [verb # "down" => stored \subseteq stored']_stackVars
  BY <1>1
<1> QED BY <1>2, PTL DEF StackSpec

-------------------------------------------------------------------------------
(* `maghz remote exec`. *)

RemoteTypes ==
  /\ tree \in [Files -> Nat] /\ head \in [Files -> Nat] /\ remote \in [Files -> Nat]
  /\ dirs \in [Dirs -> {"queued", "putting", "put", "noted"}]
  /\ manifest \subseteq Files /\ arrived \subseteq manifest /\ failed \subseteq manifest
  /\ execs \in Nat /\ ran \in {0, 1}
  /\ pulled \in BOOLEAN /\ quiet \in BOOLEAN

(* Nothing is pulled or reported before its leg, and a directory is under   *)
(* way only while the push is. *)
LegInv ==
  /\ execs = 0 => leg = "idle"
  /\ leg \notin {"pulling", "done"} => ran = 0
  /\ leg = "pulling" => ran = 1
  /\ leg # "done" => envelope = "none" /\ pulled = FALSE
  /\ pulled = TRUE \/ envelope = "ok" => ran = 1
  /\ \A d \in Dirs : dirs[d] = "putting" => leg = "pushing" /\ FilesOf(d) # {}
  /\ leg \in {"idle", "listing", "listed", "attributed", "connecting"} =>
       /\ \A d \in Dirs : dirs[d] = "queued"
       /\ arrived = {} /\ failed = {} /\ pushed = 0

(* The files of the directories whose unit has ended, counted when it did. *)
Counted == {f \in arrived : dirs[DirOf[f]] = "put"}

PushInv ==
  /\ arrived \cap failed = {}
  /\ \A f \in arrived \cup failed : dirs[DirOf[f]] \in {"putting", "put"}
  /\ \A d \in Dirs : dirs[d] = "put" => FilesOf(d) \subseteq arrived \cup failed
  /\ pushed = Cardinality(Counted)

(* A tree nobody touched is the commit, and what has arrived is of it. *)
QuietInv ==
  quiet = TRUE =>
    /\ tree = head
    /\ leg \in {"connecting", "pushing", "running"} => commit = head
    /\ \A f \in arrived : remote[f] = tree[f]

RemoteInv == RemoteTypes /\ LegInv /\ PushInv /\ QuietInv

LEMMA RemoteInvInitially ==
  ASSUME RemoteInit, EnvelopeInit PROVE RemoteInv
<1> USE DEF RemoteInit, EnvelopeInit
<1>1. RemoteTypes
  <2>1. [f \in Files |-> 1] \in [Files -> Nat] /\ [f \in Files |-> 0] \in [Files -> Nat]
    OBVIOUS
  <2> QED BY <2>1 DEF RemoteTypes
<1>3. LegInv /\ QuietInv
  BY DEF LegInv, QuietInv
<1>2. PushInv
  <2>1. Counted = {}
    BY DEF Counted
  <2> QED BY <2>1, FS_EmptySet DEF PushInv
<1> QED BY <1>1, <1>2, <1>3 DEF RemoteInv

(* The files a unit counts are those of its directory that arrived. *)
LEMMA UnitsCountArrivals ==
  ASSUME RemoteInv, NEW d \in Dirs, PutEnds(d)
  PROVE  PushInv'
<1> USE RemoteAssumption DEF RemoteInv, RemoteTypes, PushInv
<1> DEFINE here == FilesOf(d)
           came == here \cap arrived
<1>1. /\ dirs[d] = "putting" /\ here \subseteq arrived \cup failed
      /\ dirs' = [dirs EXCEPT ![d] = "put"]
      /\ pushed' = pushed + Cardinality(here) - Cardinality(here \cap failed)
      /\ UNCHANGED <<arrived, failed, manifest>>
  BY DEF PutEnds
<1>2. \A e \in Dirs : FilesOf(e)' = FilesOf(e)
  BY <1>1 DEF FilesOf
<1>3. Counted' = Counted \cup came
  BY <1>1 DEF Counted, FilesOf
<1>4. Counted \cap came = {}
  BY <1>1 DEF Counted, FilesOf
<1>5. IsFiniteSet(Counted) /\ IsFiniteSet(here) /\ IsFiniteSet(came) /\ IsFiniteSet(here \cap failed)
  BY FS_Subset DEF Counted, FilesOf
<1>6. here \ failed = came
  BY <1>1
<1>7. Cardinality(came) = Cardinality(here) - Cardinality(here \cap failed)
  BY <1>5, <1>6, FS_Difference
<1>8. Cardinality(Counted') = Cardinality(Counted) + Cardinality(came)
  <2>1. Cardinality(Counted \cup came) = Cardinality(Counted) + Cardinality(came) - 0
    BY <1>4, <1>5, FS_Union, FS_EmptySet
  <2> QED BY <1>3, <1>5, <2>1, FS_CardinalityType
<1>9. pushed' = Cardinality(Counted')
  BY <1>1, <1>5, <1>7, <1>8, FS_CardinalityType
<1>10. \A f \in arrived \cup failed : dirs'[DirOf[f]] \in {"putting", "put"}
  BY <1>1
<1>11. \A e \in Dirs : dirs'[e] = "put" => FilesOf(e)' \subseteq arrived \cup failed
  BY <1>1, <1>2
<1> QED BY <1>1, <1>9, <1>10, <1>11

LEMMA RemoteInvPreserved ==
  ASSUME RemoteInv, RemoteNext \/ UNCHANGED <<remoteVars, envelopeVars>>
  PROVE  RemoteInv'
<1> USE DEF RemoteInv, RemoteTypes, LegInv, PushInv, QuietInv, Counted, FilesOf,
            localVars, pushVars, remoteVars, envelopeVars
<1>1. CASE Change
  <2>1. RemoteTypes'
    <3>1. ASSUME NEW f \in Files, NEW content \in {0, tree[f] + 1},
                 tree' = [tree EXCEPT ![f] = content], UNCHANGED head
          PROVE RemoteTypes'
      <4>1. content \in Nat
        OBVIOUS
      <4>2. tree' \in [Files -> Nat]
        BY <3>1, <4>1
      <4> QED BY <1>1, <3>1, <4>2 DEF Change
    <3>2. CASE head' = tree /\ UNCHANGED tree
      BY <1>1, <3>2 DEF Change
    <3> QED BY <1>1, <3>1, <3>2 DEF Change
  <2>2. LegInv'
    BY <1>1 DEF Change
  <2>3. PushInv'
    BY <1>1 DEF Change
  <2> QED BY <1>1, <2>1, <2>2, <2>3 DEF Change
<1>2. CASE remote_exec
  <2>1. RemoteTypes'
    <3>1. [d \in Dirs |-> "queued"] \in [Dirs -> {"queued", "putting", "put", "noted"}]
      OBVIOUS
    <3>2. execs' \in Nat /\ UNCHANGED <<tree, head, remote>>
      BY <1>2 DEF remote_exec
    <3>3. /\ dirs' \in [Dirs -> {"queued", "putting", "put", "noted"}]
          /\ manifest' = {} /\ arrived' = {} /\ failed' = {}
          /\ ran' = 0 /\ pulled' = FALSE /\ quiet' = FALSE
      BY <1>2, <3>1 DEF remote_exec
    <3> QED BY <3>2, <3>3
  <2>5. LegInv' /\ QuietInv'
    BY <1>2 DEF remote_exec
  <2>2. Counted' = {}
    BY <1>2 DEF remote_exec
  <2>3. pushed' = Cardinality(Counted')
    BY <1>2, <2>2, FS_EmptySet DEF remote_exec
  <2>4. PushInv'
    BY <1>2, <2>3 DEF remote_exec
  <2> QED BY <2>1, <2>4, <2>5
<1>3. ASSUME RemoteFaults, leg \notin {"idle", "running", "pulling", "done"},
             \A d \in Dirs : dirs[d] = "queued"
      PROVE RemoteInv'
  BY <1>3 DEF RemoteFaults, fault
<1>4. CASE PreludeFails
  BY <1>3, <1>4 DEF PreludeFails
<1>5. CASE _manifest
  BY <1>5 DEF _manifest
<1>6. CASE _split
  BY <1>6 DEF _split
<1>7. CASE _commit
  BY <1>7 DEF _commit
<1>8. CASE _open
  BY <1>8 DEF _open
<1>9. ASSUME NEW cause, ConnectFails(cause) PROVE RemoteInv'
  <2>1. CASE RemoteFaults
    BY <1>3, <1>9, <2>1 DEF ConnectFails
  <2>2. CASE ~RemoteFaults
    BY <1>9, <2>2 DEF ConnectFails
  <2> QED BY <2>1, <2>2
<1>10. CASE WorkrootFails
  BY <1>3, <1>10 DEF WorkrootFails
<1>11. ASSUME NEW d \in Dirs, _dir(d) PROVE RemoteInv'
  BY <1>11 DEF _dir
<1>12. ASSUME NEW f \in Files, put(f) PROVE RemoteInv'
  BY <1>12 DEF put
<1>13. ASSUME NEW d \in Dirs, PutEnds(d) PROVE RemoteInv'
  BY <1>13, UnitsCountArrivals DEF PutEnds
<1>14. CASE push
  BY <1>14 DEF push
<1>15. ASSUME NEW result, run(result) PROVE RemoteInv'
  BY <1>15 DEF run, fault
<1>16. CASE Pull
  BY <1>16 DEF Pull, completed
<1>17. CASE RemoteEmit
  BY <1>17 DEF RemoteEmit, main
<1>18. CASE UNCHANGED <<remoteVars, envelopeVars>>
  BY <1>18
<1> QED BY <1>1, <1>2, <1>4, <1>5, <1>6, <1>7, <1>8, <1>9, <1>10, <1>11, <1>12, <1>13,
           <1>14, <1>15, <1>16, <1>17, <1>18 DEF RemoteNext

LEMMA RemoteInvAlways == RemoteSpec => []RemoteInv
<1>1. RemoteInit /\ EnvelopeInit => RemoteInv
  BY RemoteInvInitially
<1>2. RemoteInv /\ [RemoteNext]_<<remoteVars, envelopeVars>> => RemoteInv'
  BY RemoteInvPreserved
<1> QED BY <1>1, <1>2, PTL DEF RemoteSpec

(* The command starts at most once for an invocation, never while files are *)
(* still under way, and nothing is pulled or reported ok without it         *)
(* (remote.py 236-248, 438-458).                                            *)
THEOREM CommandsRunOnce == RemoteSpec => []CommandRunsOnce
<1>1. RemoteInv => CommandRunsOnce
  BY DEF RemoteInv, RemoteTypes, LegInv, CommandRunsOnce, Busy
<1> QED BY <1>1, RemoteInvAlways, PTL

(* When the command starts, the receipt has counted what arrived; and when  *)
(* that is everything and nobody touched a clean tree, the workroot holds   *)
(* the files of the commit the receipt names (remote.py 250-299, 403-413).  *)
THEOREM ReceiptsAreTrue == RemoteSpec => []ReceiptIsTrue
<1>1. RemoteInv => ReceiptIsTrue
  <2> SUFFICES ASSUME RemoteInv, leg = "running" PROVE
        /\ pushed = Cardinality(arrived)
        /\ quiet /\ pushed = Cardinality(manifest) =>
             \A f \in manifest : remote[f] = commit[f]
    BY DEF ReceiptIsTrue
  <2> USE RemoteAssumption DEF RemoteInv, RemoteTypes
  <2>1. Counted = arrived
    BY DEF LegInv, PushInv, Counted
  <2>2. pushed = Cardinality(arrived)
    BY <2>1 DEF PushInv
  <2>3. IsFiniteSet(manifest)
    BY FS_Subset
  <2>4. pushed = Cardinality(manifest) => arrived = manifest
    BY <2>2, <2>3, FS_Subset
  <2> QED BY <2>2, <2>4 DEF QuietInv
<1> QED BY <1>1, RemoteInvAlways, PTL

-------------------------------------------------------------------------------
(* No more directories are pushed at once than the lane admits, and no more *)
(* connects are tried than the class of retries does. *)
RemoteBounds ==
  /\ IsFiniteSet(Busy) /\ Cardinality(Busy) <= PushCapacity
  /\ dials \in 0 .. SshAttempts

(* A step adds at most one directory, and only where the lane has a slot. *)
LEMMA BusyGrowsByDir ==
  ASSUME RemoteInv, RemoteNext \/ UNCHANGED <<remoteVars, envelopeVars>>
  PROVE  \/ Busy' \subseteq Busy
         \/ \E d \in Dirs : Cardinality(Busy) < PushCapacity /\ Busy' = Busy \cup {d}
<1> USE DEF Busy, RemoteInv, RemoteTypes
<1> DEFINE Grown(d) == Cardinality(Busy) < PushCapacity /\ Busy' = Busy \cup {d}
<1>1. CASE UNCHANGED dirs
  BY <1>1
<1>2. CASE remote_exec
  BY <1>2 DEF remote_exec
<1>3. ASSUME NEW d \in Dirs, _dir(d) PROVE Busy' \subseteq Busy \/ Grown(d)
  <2>1. PICK made \in BOOLEAN : dirs' = [dirs EXCEPT ![d] = IF made THEN "putting" ELSE "noted"]
    BY <1>3 DEF _dir
  <2>2. CASE made = TRUE
    <3>1. Busy' = Busy \cup {d}
      BY <2>1, <2>2
    <3> QED BY <1>3, <3>1 DEF _dir
  <2>3. CASE made = FALSE
    <3>1. Busy' \subseteq Busy
      BY <2>1, <2>3
    <3> QED BY <3>1
  <2> QED BY <2>2, <2>3
<1>4. ASSUME NEW d \in Dirs, PutEnds(d) PROVE Busy' \subseteq Busy
  BY <1>4 DEF PutEnds
<1> QED BY <1>1, <1>2, <1>3, <1>4
        DEF RemoteNext, Change, PreludeFails, RemoteFaults, _manifest, _split, _commit, _open,
            ConnectFails, WorkrootFails, put, push, run, Pull, RemoteEmit, pushVars, remoteVars

LEMMA DialsAreBounded ==
  ASSUME dials \in 0 .. SshAttempts, RemoteNext \/ UNCHANGED <<remoteVars, envelopeVars>>
  PROVE  dials' \in 0 .. SshAttempts
<1> USE RemoteAssumption
<1>1. CASE UNCHANGED dials
  BY <1>1
<1>2. CASE remote_exec
  BY <1>2 DEF remote_exec
<1>3. CASE _commit
  BY <1>3 DEF _commit
<1>4. ASSUME NEW cause, ConnectFails(cause) PROVE dials' \in 0 .. SshAttempts
  BY <1>4 DEF ConnectFails, RemoteFaults
<1> QED BY <1>1, <1>2, <1>3, <1>4
        DEF RemoteNext, Change, PreludeFails, RemoteFaults, _manifest, _split, _open,
            _dir, PutEnds, WorkrootFails, put, push, run, Pull, RemoteEmit, remoteVars

(* Whatever the tree, the directories and the faults: a push holds to its   *)
(* lane's capacity and a connect to its class (remote.py 271-283, 433).     *)
THEOREM PushesAreBounded == RemoteSpec => []RemoteBounds
<1>1. ASSUME RemoteInit PROVE RemoteBounds
  <2>1. Busy = {}
    BY <1>1 DEF RemoteInit, Busy
  <2> QED BY <1>1, <2>1, FS_EmptySet, RemoteAssumption DEF RemoteBounds, RemoteInit
<1>2. ASSUME RemoteInv, RemoteBounds, RemoteNext \/ UNCHANGED <<remoteVars, envelopeVars>>
      PROVE  RemoteBounds'
  <2>1. Cardinality(Busy) \in Nat /\ PushCapacity \in Nat
    BY <1>2, FS_CardinalityType, RemoteAssumption DEF RemoteBounds
  <2>2. CASE Busy' \subseteq Busy
    <3>1. /\ IsFiniteSet(Busy') /\ Cardinality(Busy') <= Cardinality(Busy)
          /\ Cardinality(Busy') \in Nat
      BY <1>2, <2>2, FS_Subset, FS_CardinalityType DEF RemoteBounds
    <3> QED BY <1>2, <2>1, <3>1, DialsAreBounded DEF RemoteBounds
  <2>3. ASSUME NEW d \in Dirs, Cardinality(Busy) < PushCapacity, Busy' = Busy \cup {d}
        PROVE  RemoteBounds'
    <3>1. /\ IsFiniteSet(Busy')
          /\ Cardinality(Busy') \in {Cardinality(Busy), Cardinality(Busy) + 1}
      BY <1>2, <2>3, FS_AddElement DEF RemoteBounds
    <3> QED BY <1>2, <2>1, <2>3, <3>1, DialsAreBounded DEF RemoteBounds
  <2> QED BY <1>2, <2>2, <2>3, BusyGrowsByDir
<1>3. RemoteInv /\ RemoteBounds /\ [RemoteNext]_<<remoteVars, envelopeVars>> => RemoteBounds'
  BY <1>2
<1>4. RemoteInit /\ EnvelopeInit => RemoteBounds
  BY <1>1
<1> QED BY <1>3, <1>4, RemoteInvAlways, PTL DEF RemoteSpec
================================================================================
