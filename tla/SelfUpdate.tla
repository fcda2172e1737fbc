----------------------------- MODULE SelfUpdate -----------------------------
(***************************************************************************)
(* One release replaces another.  The app only leaves a request file; a    *)
(* root script outside its cgroup saves the database, fetches, unpacks,    *)
(* migrates, switches a symlink, restarts the service and waits for it to  *)
(* answer, and undoes all of it when it does not.  A command may fail at   *)
(* any step, the service may restart by itself at any time, and the        *)
(* machine may stop at any time and boot whatever the symlink names.       *)
(* One script runs at a time; two releases, "from" and "to".               *)
(***************************************************************************)
EXTENDS Naturals

CONSTANTS
    MaxRows,      \* bound: rows the service writes
    MaxAttempts   \* bound: runs of the script, and stops of the machine

ASSUME UpdateAssumption == MaxRows \in Nat /\ MaxAttempts \in Nat

VARIABLES
    link,      \* what /opt/proxploy/current points at
    unpacked,  \* releases/<to> exists
    db,        \* [schema, rows]: proxploy.db
    saved,     \* pre-update/<from>/proxploy.db, or NoBackup
    up,        \* the release that answers, or "down"
    good,      \* whether the new release starts at all
    request,   \* the request file exists
    status,    \* what the newest .status file says
    step,      \* the next step of the script, or "idle"
    force,     \* this run was given --force
    cut,  \* ghost: a run ended after its migration began, without verdict
    killed,    \* ghost: the last run was stopped with the machine
    before,    \* ghost: the rows there were when this run began
    lost,      \* ghost: rows a rollback took away that were there before its run
    written, attempts, stops

dbVars == <<db, written>>
hostVars == <<link, unpacked, saved>>
ghosts == <<cut, killed, before>>
updateVars == <<link, unpacked, db, saved, up, good, request, status, step, force,
                cut, killed, before, lost, written, attempts, stops>>

NoBackup == [schema |-> "none", rows |-> {}]
Releases == {"from", "to"}
(* The steps after the first write of the migration. *)
Undecided == {"switch", "restart", "health", "stop", "relink", "restore",
              "copy", "start", "rolled"}
Steps == {"preflight", "backup", "fetch", "unpack", "migrate"} \cup Undecided

UpdateInit ==
    /\ link = "from" /\ unpacked = FALSE
    /\ db = [schema |-> "from", rows |-> {}]
    /\ saved = NoBackup
    /\ up = "from"
    /\ good \in BOOLEAN
    /\ request = FALSE /\ status = "none"
    /\ step = "idle" /\ force = FALSE
    /\ cut = FALSE /\ killed = FALSE /\ before = {} /\ lost = {}
    /\ written = 0 /\ attempts = 0 /\ stops = 0

(* run_migrations at the start of the app: a revision the release does not *)
(* know, or half a file, ends the process; a newer release migrates.       *)
Starts(release) ==
    IF release = "from" THEN db.schema = "from" ELSE good /\ db.schema # "torn"

Boots(release) ==
    /\ up' = IF Starts(release) THEN release ELSE "down"
    /\ db' = IF release = "to" /\ Starts(release) THEN [db EXCEPT !.schema = "to"] ELSE db

(* write_status with a terminal state, and the script ends. *)
Ends(verdict) == step' = "idle" /\ status' = verdict

(***************************************************************************)
(* The service                                                             *)
(***************************************************************************)
Write ==
    /\ up # "down" /\ written < MaxRows
    /\ written' = written + 1
    /\ db' = [db EXCEPT !.rows = @ \cup {written + 1}]
    /\ UNCHANGED <<hostVars, ghosts, up, good, request, status, step, force, lost, attempts, stops>>

(* The process dies and systemd starts what the symlink names by then. *)
Restarted ==
    /\ up # "down" /\ stops < MaxAttempts
    /\ stops' = stops + 1
    /\ Boots(link)
    /\ UNCHANGED <<hostVars, ghosts, good, request, status, step, force, lost, written, attempts>>

(* apply_update: nothing in it looks at what is installed or running. *)
AskUpdate ==
    /\ up # "down"
    /\ request' = TRUE
    /\ UNCHANGED <<hostVars, ghosts, dbVars, up, good, status, step, force, lost, attempts, stops>>

(***************************************************************************)
(* The script                                                              *)
(***************************************************************************)
Begin(forced) ==
    /\ step = "idle" /\ attempts < MaxAttempts
    /\ attempts' = attempts + 1
    /\ step' = "preflight" /\ status' = "running" /\ force' = forced
    /\ before' = db.rows /\ killed' = FALSE
    /\ UNCHANGED <<hostVars, dbVars, up, good, cut, lost, stops>>

(* The path unit fires; the wrapper takes the request before it acts on it. *)
Requested == request /\ request' = FALSE /\ Begin(FALSE)

(* Somebody runs the script in a shell. *)
RunByHand == \E forced \in BOOLEAN : Begin(forced) /\ UNCHANGED request

Preflight ==
    /\ step = "preflight"
    /\ IF link = "to" \/ (unpacked /\ ~force) THEN Ends("failed")
       ELSE step' = "backup" /\ UNCHANGED status
    /\ UNCHANGED <<hostVars, ghosts, dbVars, up, good, request, force, lost, attempts, stops>>

BugBackup == saved' = IF saved = NoBackup THEN db ELSE saved

(* `.backup` over what an earlier run from the same release left there. *)
Backup == saved' = db

BackedUp ==
    /\ step = "backup"
    /\ Backup /\ step' = "fetch"
    /\ UNCHANGED <<link, unpacked, ghosts, dbVars, up, good, request, status, force, lost, attempts, stops>>

(* Signature and checksum are verified before a byte is unpacked. *)
Fetch ==
    /\ step = "fetch"
    /\ step' = "unpack"
    /\ UNCHANGED <<hostVars, ghosts, dbVars, up, good, request, status, force, lost, attempts, stops>>

(* install_release makes the directory before anything that can fail. *)
Unpack ==
    /\ step = "unpack"
    /\ unpacked' = TRUE
    /\ \/ step' = "migrate" /\ UNCHANGED status
       \/ Ends("failed")
    /\ UNCHANGED <<link, saved, ghosts, dbVars, up, good, request, force, lost, attempts, stops>>

(* The new release's alembic, on the database the old one serves.  Each    *)
(* revision commits by itself, so a failure may leave some applied.        *)
Migrate ==
    /\ step = "migrate"
    /\ \/ /\ db' = [db EXCEPT !.schema = "to"]
          /\ step' = "switch" /\ UNCHANGED <<status, cut>>
       \/ /\ \E left \in {db.schema, "part"} \ {"to"} : db' = [db EXCEPT !.schema = left]
          /\ cut' = IF db'.schema # "from" THEN TRUE ELSE cut
          /\ Ends("failed")
    /\ UNCHANGED <<hostVars, killed, before, written, up, good, request, force, lost, attempts, stops>>

Switch ==
    /\ step = "switch"
    /\ link' = "to" /\ step' = "restart"
    /\ UNCHANGED <<unpacked, saved, ghosts, dbVars, up, good, request, status, force, lost, attempts, stops>>

Restart ==
    /\ step = "restart"
    /\ Boots("to")
    /\ step' \in {"health", "stop"}   \* `systemctl restart || rollback`
    /\ UNCHANGED <<hostVars, ghosts, written, good, request, status, force, lost, attempts, stops>>

(* It answers in time, or it does not, whether or not it would have. *)
Health ==
    /\ step = "health"
    /\ \/ up = "to" /\ Ends("succeeded")
       \/ step' = "stop" /\ UNCHANGED status
    /\ UNCHANGED <<hostVars, ghosts, dbVars, up, good, request, force, lost, attempts, stops>>

(***************************************************************************)
(* rollback                                                                *)
(***************************************************************************)
Stop ==
    /\ step = "stop"
    /\ up' = "down" /\ step' = "relink"
    /\ UNCHANGED <<hostVars, ghosts, dbVars, good, request, status, force, lost, attempts, stops>>

Relink ==
    /\ step = "relink"
    /\ link' = "from" /\ step' = "restore"
    /\ UNCHANGED <<unpacked, saved, ghosts, dbVars, up, good, request, status, force, lost, attempts, stops>>

(* The write-ahead log is removed and `cp` starts over the live file. *)
Restore ==
    /\ step = "restore"
    /\ db' = [db EXCEPT !.schema = "torn"] /\ step' = "copy"
    /\ UNCHANGED <<hostVars, ghosts, written, up, good, request, status, force, lost, attempts, stops>>

Copy ==
    /\ step = "copy"
    /\ db' = saved /\ step' = "start"
    /\ lost' = lost \cup (before \ saved.rows)
    /\ UNCHANGED <<hostVars, ghosts, written, up, good, request, status, force, attempts, stops>>

Start ==
    /\ step = "start"
    /\ Boots("from") /\ step' = "rolled"
    /\ UNCHANGED <<hostVars, ghosts, written, good, request, status, force, lost, attempts, stops>>

(* The verdict comes after the wait for health, and whatever it found. *)
RolledBack ==
    /\ step = "rolled"
    /\ Ends("rolled_back")
    /\ UNCHANGED <<hostVars, ghosts, dbVars, up, good, request, force, lost, attempts, stops>>

(***************************************************************************)
(* What goes wrong                                                         *)
(***************************************************************************)
(* A command fails under `set -e`: no space, no network, no permission. The *)
(* EXIT trap leaves a verdict; nothing is undone.                          *)
Trips ==
    /\ step \in {"preflight", "backup", "fetch", "switch", "relink", "copy"}
    /\ Ends("failed")
    /\ cut' = IF step \in Undecided THEN TRUE ELSE cut
    /\ UNCHANGED <<hostVars, killed, before, dbVars, up, good, request, force, lost, attempts, stops>>

(* The machine stops and boots: the script is gone, the status stays. *)
MachineStops ==
    /\ stops < MaxAttempts
    /\ stops' = stops + 1
    /\ Boots(link)
    /\ step' = "idle"
    /\ killed' = IF step # "idle" THEN TRUE ELSE killed
    /\ cut' = IF step \in Undecided THEN TRUE ELSE cut
    /\ UNCHANGED <<hostVars, before, written, good, request, status, force, lost, attempts>>

UpdateNext ==
    \/ Write \/ Restarted \/ AskUpdate \/ Requested \/ RunByHand
    \/ Preflight \/ BackedUp \/ Fetch \/ Unpack \/ Migrate \/ Switch \/ Restart \/ Health
    \/ Stop \/ Relink \/ Restore \/ Copy \/ Start \/ RolledBack
    \/ Trips \/ MachineStops

UpdateSpec == UpdateInit /\ [][UpdateNext]_updateVars

-----------------------------------------------------------------------------
(* TypeOK of an update. *)
UpdateTypeOK ==
    /\ link \in Releases /\ up \in Releases \cup {"down"}
    /\ good \in BOOLEAN /\ cut \in BOOLEAN /\ killed \in BOOLEAN
    /\ unpacked \in BOOLEAN /\ force \in BOOLEAN /\ request \in BOOLEAN
    /\ written \in 0..MaxRows
    /\ db \in [schema: {"from", "to", "part", "torn"}, rows: SUBSET (1..MaxRows)]
    /\ saved \in [schema: {"none", "from", "to", "part", "torn"}, rows: SUBSET (1..MaxRows)]
    /\ status \in {"none", "running", "succeeded", "failed", "rolled_back"}
    /\ step \in Steps \cup {"idle"}

(* A verdict of success or of a rollback says what the machine runs, and   *)
(* over which schema, until the next run: unless an earlier run was cut    *)
(* between its migration and its verdict, and what it left was backed up.  *)
VerdictTrue ==
    /\ status = "succeeded" => link = "to" /\ db.schema = "to"
    /\ status = "rolled_back" => link = "from" /\ (db.schema = "from" \/ cut)

(* Only a machine that stopped leaves "running" behind it. *)
StatusSettles == status = "running" => step # "idle" \/ killed

(* A rollback takes away nothing that was there when its update began. *)
OnlyNewIsLost == lost = {}

(* Between updates nobody is left without a service, whatever the new      *)
(* release was like and whatever restarted, unless a run was cut between   *)
(* its migration and its verdict.                                          *)
NobodyLeftDown == step = "idle" /\ up = "down" => cut

(* An update that is let finish either takes or leaves things as they were. *)
UpdateSound ==
    UpdateTypeOK /\ VerdictTrue /\ StatusSettles /\ OnlyNewIsLost /\ NobodyLeftDown

(* Not so of the code.  Comment in proxploy-update at the failed migration: *)
(* the old version "is still running and its database was never touched".  *)
NeverTouched == status = "failed" /\ up = "from" => db.schema = "from"
=============================================================================
