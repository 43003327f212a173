-------------------------------- MODULE DataRails --------------------------------
(* The rails that read the ledger (admin/rails.py): the ledger questions,   *)
(* the schema doctor, the Heptabase sync and the health probes.  Each asks  *)
(* one query of the ledger client and grades what comes back, while other   *)
(* queries of the process contend for the slots of the lane.                *)
EXTENDS LedgerClient, Envelope, Profile

CONSTANTS
  Mine,      \* the query of this invocation
  Catalog    \* the declared extensions

ASSUME DataAssumption == Mine \in Queries /\ Catalog \in Seq(ExtensionSpec)

VARIABLES
  rail,      \* the command of the invocation, "none" before it is chosen
  pc,        \* where it stands
  findings,  \* doctor: the sql files that do not parse
  live,      \* doctor: the extensions the census query returned
  probes     \* health: the state of each probe

dataVars == <<rail, pc, findings, live, probes>>

Services  == {"postgres", "ollama", "atuin", "hook"}
SqlFiles  == {"schema", "routines", "cron"}
DataRail  == {"ledger", "doctor", "diff", "generate", "health"}

DataInit ==
  /\ rail = "none" /\ pc = "idle"
  /\ findings = {} /\ live = {}
  /\ probes = [s \in Services |-> "pending"]

(* What may fail to parse before the query is asked: the doctor alone looks. *)
Unparsed(command) == IF command = "doctor" THEN SUBSET SqlFiles ELSE {{}}

(* A rail starts with its query; the doctor has parsed the files by then.   *)
Ask(command, unparsed) ==
  /\ rail = "none"
  /\ rail' = command
  /\ pc' = "asking"
  /\ findings' = unparsed
  /\ query(Mine)
  /\ UNCHANGED <<live, probes, envelopeVars>>

Answered(command) ==
  /\ rail = command /\ pc = "asking" /\ outcome[Mine] = "ok"
  /\ UNCHANGED queryVars

Return(status) == completed(status) /\ pc' = "done" /\ UNCHANGED exit

(* A query that failed ends its rail, except under health, which grades it. *)
QueryFails ==
  /\ rail \in DataRail \ {"health"} /\ pc = "asking"
  /\ outcome[Mine] \notin {"none", "ok"}
  /\ pc' = "done" /\ fault
  /\ UNCHANGED <<rail, findings, live, probes, queryVars, exit>>

ledger ==
  /\ Answered("ledger")
  /\ \E rows \in BOOLEAN : Return(IF rows THEN "ok" ELSE "empty")
  /\ UNCHANGED <<rail, findings, live, probes>>

(* Drift of the census outweighs the findings of the parser.                *)
DoctorStatus(unparsed, installed) ==
  LET diff == census_diff(Catalog, installed)
  IN IF diff.missing \cup diff.undeclared # {} THEN "failed"
     ELSE IF unparsed # {} THEN "unsupported" ELSE "ok"

_doctor ==
  /\ Answered("doctor")
  /\ \E installed \in SUBSET Extension :
       /\ live' = installed
       /\ Return(DoctorStatus(findings, installed))
  /\ UNCHANGED <<rail, findings, probes>>

(* diff goes on to the card list; generate only when the concept has text.  *)
_diff ==
  /\ Answered("diff")
  /\ pc' = "starting"
  /\ UNCHANGED <<rail, findings, live, probes, envelopeVars>>

_generate ==
  /\ Answered("generate")
  /\ \/ pc' = "starting" /\ UNCHANGED envelopeVars
     \/ Return("skip")
  /\ UNCHANGED <<rail, findings, live, probes>>

-------------------------------------------------------------------------------
(* The Heptabase client: it is started, then one operation runs under a     *)
(* deadline of its own.  A spawn that fails does nothing.                   *)
_heptabase_ready ==
  /\ pc = "starting"
  /\ \/ pc' = "operating" /\ UNCHANGED envelope
     \/ pc' = "done" /\ fault
  /\ UNCHANGED <<rail, findings, live, probes, queryVars, exit>>

(* `note create` or `card list` is run once.  Past its deadline it is       *)
(* killed, whatever it has done in Heptabase by then.                       *)
_heptabase(result) ==
  /\ pc = "operating"
  /\ IF result = "answer"
     THEN \E drift \in BOOLEAN : completed(IF rail = "diff" /\ ~drift THEN "empty" ELSE "ok")
     ELSE fault
  /\ pc' = "done"
  /\ UNCHANGED <<rail, findings, live, probes, queryVars, exit>>

-------------------------------------------------------------------------------
(* The probes run side by side.  The ledger's is up when its query returns  *)
(* a row; an exception that a probe does not catch leaves it unanswered.    *)
Probe(s) ==
  /\ rail = "health" /\ pc = "asking" /\ probes[s] = "pending"
  /\ IF s = "postgres"
     THEN /\ outcome[Mine] # "none"
          /\ probes' = [probes EXCEPT ![s] = IF outcome[Mine] = "ok" THEN "up" ELSE "down"]
     ELSE \E state \in {"up", "down", "escaped"} : probes' = [probes EXCEPT ![s] = state]
  /\ UNCHANGED <<rail, pc, findings, live, queryVars, envelopeVars>>

HealthStatus == IF \A s \in Services : probes[s] = "up" THEN "ok" ELSE "failed"

health ==
  /\ rail = "health" /\ pc = "asking"
  /\ \A s \in Services : probes[s] # "pending"
  /\ Return(HealthStatus)
  /\ UNCHANGED <<rail, findings, live, probes, queryVars>>

Emit == main /\ UNCHANGED <<dataVars, queryVars>>

(* The query of the rail goes on, and so do the others of the process.      *)
Wait ==
  /\ exit = -1
  /\ \E q \in Queries : QueryStep(q)
  /\ UNCHANGED <<dataVars, envelopeVars>>

(* Another query is made, or the server ends what was left to it.           *)
Elsewhere ==
  /\ \/ exit = -1 /\ \E q \in Queries \ {Mine} : query(q)
     \/ \E q \in Queries : Server(q)
  /\ UNCHANGED <<dataVars, envelopeVars>>

DataStep ==
  \/ Wait \/ QueryFails \/ ledger \/ _doctor \/ _diff \/ _generate
  \/ _heptabase_ready
  \/ \E result \in {"answer", "unreadable", "nonzero", "unspawned", "deadline"} : _heptabase(result)
  \/ \E s \in Services : Probe(s)
  \/ health \/ Emit

DataNext ==
  \/ \E command \in DataRail : \E unparsed \in Unparsed(command) : Ask(command, unparsed)
  \/ Elsewhere \/ DataStep

railVars == <<dataVars, queryVars, envelopeVars>>

DataSpec ==
  /\ DataInit /\ QueryInit /\ EnvelopeInit
  /\ [][DataNext]_railVars
  /\ WF_railVars(DataStep)

-------------------------------------------------------------------------------
(* An exit code of 0 from the doctor means that every file parses and the   *)
(* census equals the catalog; 3 that only the parsing failed (rails.py      *)
(* 522-542, profile.py 391-410).                                            *)
DoctorIsRight ==
  rail = "doctor" /\ exit \in {0, 3} =>
    /\ live \ _CENSUS_IGNORE = Names(schema_prelude(Catalog)) \ _CENSUS_IGNORE
    /\ Names(schema_prelude(Catalog)) \subseteq live
    /\ exit = 0 <=> findings = {}

(* Every invocation exits: no query holds the slot it waits for, and every  *)
(* wait has an end (db.py 262-266, rails.py 640-653, 736-812).              *)
RailsExit == rail # "none" ~> exit # -1
================================================================================
