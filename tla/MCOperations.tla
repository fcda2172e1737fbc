---------------------------- MODULE MCOperations ----------------------------
(***************************************************************************)
(* The background services beside the job engine, checked side by side: no *)
(* variable of one is read by another, so a behaviour is one of them       *)
(* running while the others rest, and each keeps its own fairness.         *)
(***************************************************************************)
EXTENDS Alerts, Migration, AppScripts, Backups

VARIABLE part   \* which of them runs
opsVars == <<part, alertVars, migrateVars, scriptVars, backupVars>>

OpsInit ==
  /\ part \in {"alerts", "migration", "scripts", "backups"}
  /\ AlertsInit /\ MigrateInit /\ ScriptsInit /\ BackupsInit
  /\ part # "migration" => site = "cluster" /\ cts[<<Home, 1>>] = "stopped"
  /\ part # "scripts" => app = "adopted"
  /\ part # "backups" => written = 0

OnlyAlerts == /\ part = "alerts" /\ UNCHANGED <<part, migrateVars, scriptVars, backupVars>>
OnlyMigration == /\ part = "migration" /\ UNCHANGED <<part, alertVars, scriptVars, backupVars>>
OnlyScripts == /\ part = "scripts" /\ UNCHANGED <<part, alertVars, migrateVars, backupVars>>
OnlyBackups == /\ part = "backups" /\ UNCHANGED <<part, alertVars, migrateVars, scriptVars>>

OpsNext == \/ OnlyAlerts /\ AlertsNext
           \/ OnlyMigration /\ MigrateNext
           \/ OnlyScripts /\ ScriptsNext
           \/ OnlyBackups /\ BackupsNext
OpsSpec ==
  /\ OpsInit /\ [][OpsNext]_opsVars
  /\ WF_opsVars(OnlyAlerts /\ AlertsPass)
  /\ \A u \in Updates : WF_opsVars(OnlyScripts /\ UpdateSteps(u))
  /\ \A r \in Refreshes : WF_opsVars(OnlyScripts /\ RefreshSteps(r))
  /\ WF_opsVars(OnlyBackups /\ AskSync) /\ \A j \in All : WF_opsVars(OnlyBackups /\ Steps(j))
=============================================================================
