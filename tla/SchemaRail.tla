------------------------------- MODULE SchemaRail -------------------------------
(* `maghz schema apply` (admin/rails.py): two files are copied into the     *)
(* database container side by side, then three sql files are run in order,  *)
(* whatever became of the step before.  The database keeps what a step left *)
(* behind, so a later invocation starts from it.                            *)
EXTENDS Envelope, Sequences

CONSTANT MaxApplies  \* bound: invocations, one after another

ASSUME SchemaAssumption == MaxApplies \in Nat

VARIABLES
  applies,  \* the invocations so far
  grade,    \* what each step of this invocation came to
  effect    \* the steps whose file, as it is now, is in place in full

schemaVars == <<applies, grade, effect>>

_STEPS == <<"synonyms_cp", "thesaurus_cp", "schema", "routines", "cron">>

Step       == {_STEPS[i] : i \in DOMAIN _STEPS}
Concurrent == {"synonyms_cp", "thesaurus_cp"}
Exits      == {"exit_0", "exit_1", "exit_124"}
Graded     == Exits \cup {"fault"}

(* A step succeeds on what those before it have left: the dictionaries name *)
(* the copied files, the functions the tables.                              *)
Needs == [synonyms_cp |-> {}, thesaurus_cp |-> {}, schema |-> Concurrent,
          routines |-> {"schema"}, cron |-> {}]

SchemaInit ==
  /\ applies = 0
  /\ grade = [s \in Step |-> "none"]
  /\ effect = {}

Applying == applies > 0 /\ Running

(* Since the last invocation files may have been edited and the container   *)
(* or the database replaced: what any of the steps had left may not be what *)
(* its file asks for any more.                                              *)
schema ==
  /\ applies < MaxApplies
  /\ applies > 0 => exit # -1
  /\ applies' = applies + 1
  /\ grade' = [s \in Step |-> "none"]
  /\ envelope' = "none" /\ exit' = -1
  /\ effect' \in SUBSET effect

(* The front is drained before the first sql file, and each of those waits  *)
(* for the one before.                                                      *)
MayStart(s) ==
  \/ s \in Concurrent
  \/ \A i, j \in DOMAIN _STEPS : _STEPS[j] = s /\ i < j => grade[_STEPS[i]] \in Graded

(* Faulty variant: a step cancelled at its deadline counts as done.         *)
GradeLenient(s, result) ==
  /\ Applying
  /\ grade[s] = "none" /\ MayStart(s)
  /\ grade' = [grade EXCEPT ![s] = IF result = "exit_124" THEN "exit_0" ELSE result]
  /\ effect' \in {effect, effect \cup {s}}
  /\ UNCHANGED <<applies, envelopeVars>>

(* A step is run and ends: done; with an error; at its deadline, the server *)
(* perhaps done with it all the same; or without having been spawned.       *)
_grade(s, result) ==
  /\ Applying
  /\ grade[s] = "none" /\ MayStart(s)
  /\ grade' = [grade EXCEPT ![s] = result]
  /\ \/ result = "exit_0" /\ Needs[s] \subseteq effect /\ effect' = effect \cup {s}
     \/ result = "exit_124" /\ effect' \in {effect, effect \cup {s}}
     \/ result \in {"exit_1", "fault"} /\ UNCHANGED effect
  /\ UNCHANGED <<applies, envelopeVars>>

(* One fault aborts the fold of the rails; else the exits are folded.       *)
_settled ==
  LET StatusOf(s) == IF grade[s] = "exit_0" THEN "ok" ELSE "failed"
  IN IF \E s \in Step : grade[s] = "fault" THEN "faulted"
     ELSE fold({StatusOf(s) : s \in Step})

_apply ==
  /\ Applying
  /\ \A s \in Step : grade[s] \in Graded
  /\ envelope' = _settled
  /\ UNCHANGED <<schemaVars, exit>>

SchemaEmit == applies > 0 /\ main /\ UNCHANGED schemaVars

SchemaNext ==
  \/ schema \/ _apply \/ SchemaEmit
  \/ \E s \in Step, result \in Graded : _grade(s, result)

SchemaSpec == SchemaInit /\ EnvelopeInit /\ [][SchemaNext]_<<schemaVars, envelopeVars>>

-------------------------------------------------------------------------------
SchemaTypeOK ==
  /\ applies \in 0..MaxApplies
  /\ grade \in [Step -> Graded \cup {"none"}]
  /\ effect \subseteq Step
  /\ envelope \in Status \cup {"none"}
  /\ exit \in {-1, 0, 1, 2, 3}

(* An apply that exits with 0 has left every step applied in full, whatever *)
(* earlier invocations left half done, whatever was edited or lost in       *)
(* between and however the deadlines fell (rails.py 481-519).               *)
OkMeansApplied ==
  applies > 0 /\ exit = 0 => effect = Step
================================================================================
