-------------------------------- MODULE MCCommands --------------------------------
(* What the command line starts, and what the ledger and the receiver do    *)
(* on their own: each behaviour is about one of them.                       *)
EXTENDS FaultBlocks, DataRails, SchemaRail, StackRail, RemoteRail, Settings,
        HookReceiver, ResearchJobs, LedgerQuestions

CONSTANTS f1, f2, f3, d1, d2, e1, e2, j1, j2, w1, s1, s2

VARIABLE subject  \* what the behaviour is about

commandVars ==
  <<subject, rails, dataVars, queryVars, schemaVars, stackVars, remoteVars, settingsVars,
    hookVars, jobVars, tableVars, envelopeVars>>

MCCatalog ==
  << [name |-> "vector", target_db |-> "maghz"], [name |-> "pgaudit", target_db |-> "maghz"],
     [name |-> "pg_cron", target_db |-> "postgres"] >>

MCDirOf == (f1 :> d1) @@ (f2 :> d2) @@ (f3 :> d2)

MCDomain == [stage |-> {"prd"}, docker_host |-> {"a"}, host |-> {"", "a", "b"},
             user |-> {"a"}, signing_secret |-> {"a"}]

MCVerdictOf == (e1 :> "admitted") @@ (e2 :> "401")

MCJobOf == [s \in Sessions |-> j1]

MCOwnerOf == [j \in Jobs |-> w1]

MCInit ==
  /\ subject \in {"faults", "client", "data", "schema", "stack", "remote", "settings",
                  "hook", "jobs", "questions"}
  /\ AlgebraInit /\ QueryInit /\ DataInit /\ SchemaInit /\ StackInit /\ RemoteInit
  /\ SettingsInit /\ HookInit /\ JobsInit /\ TablesInit /\ EnvelopeInit

(* Bound of the data rails: to a rail, an answer that is lost is an attempt  *)
(* that was refused; what it leaves at the server is the client's subject.   *)
WithoutLosses == \A q \in Queries : lost[q] = 0

Idle(others) == UNCHANGED <<subject, others>>

MCNext ==
  \/ /\ subject = "faults" /\ AlgebraNext
     /\ Idle(<<dataVars, queryVars, schemaVars, stackVars, remoteVars, settingsVars, hookVars,
               jobVars, tableVars, envelopeVars>>)
  \/ /\ subject = "client" /\ LedgerNext
     /\ Idle(<<rails, dataVars, schemaVars, stackVars, remoteVars, settingsVars, hookVars,
               jobVars, tableVars, envelopeVars>>)
  \/ /\ subject = "data" /\ DataNext /\ WithoutLosses'
     /\ Idle(<<rails, schemaVars, stackVars, remoteVars, settingsVars, hookVars, jobVars,
               tableVars>>)
  \/ /\ subject = "schema" /\ SchemaNext
     /\ Idle(<<rails, dataVars, queryVars, stackVars, remoteVars, settingsVars, hookVars,
               jobVars, tableVars>>)
  \/ /\ subject = "stack" /\ StackNext
     /\ Idle(<<rails, dataVars, queryVars, schemaVars, remoteVars, settingsVars, hookVars,
               jobVars, tableVars>>)
  \/ /\ subject = "remote" /\ RemoteNext
     /\ Idle(<<rails, dataVars, queryVars, schemaVars, stackVars, settingsVars, hookVars,
               jobVars, tableVars>>)
  \/ /\ subject = "settings" /\ SettingsNext
     /\ Idle(<<rails, dataVars, queryVars, schemaVars, stackVars, remoteVars, hookVars,
               jobVars, tableVars, envelopeVars>>)
  \/ /\ subject = "hook" /\ HookNext
     /\ Idle(<<rails, dataVars, queryVars, schemaVars, stackVars, remoteVars, settingsVars,
               jobVars, tableVars, envelopeVars>>)
  \/ /\ subject = "jobs" /\ JobsNext
     /\ Idle(<<rails, dataVars, queryVars, schemaVars, stackVars, remoteVars, settingsVars,
               hookVars, tableVars, envelopeVars>>)
  \/ /\ subject = "questions" /\ TablesNext
     /\ Idle(<<rails, dataVars, queryVars, schemaVars, stackVars, remoteVars, settingsVars,
               hookVars, jobVars, envelopeVars>>)

(* The event loop runs what is ready, the driver and the clients answer or  *)
(* reach their deadline, and main writes what it has; the jobs as in        *)
(* JobsSpec.                                                                *)
MCFairness ==
  /\ WF_commandVars(subject = "data" /\ DataStep /\ MCNext)
  /\ WF_commandVars(subject = "jobs" /\ Sweep /\ MCNext)
  /\ \A s \in Sessions : WF_commandVars(subject = "jobs" /\ Commit(s) /\ MCNext)
  /\ \A j \in Jobs : SF_commandVars(subject = "jobs" /\ Update(j) /\ MCNext)

MCSpec == MCInit /\ [][MCNext]_commandVars /\ MCFairness
================================================================================
