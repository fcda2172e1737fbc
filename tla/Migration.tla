----------------------------- MODULE Migration -----------------------------
(***************************************************************************)
(* Moving an app's container to another host (services/migrate.py,         *)
(* executor/transfer.py, the route in api/apps.py).  A migration stops the *)
(* source, brings a copy up on the target by one of three strategies, and  *)
(* repoints the app's row only when the copy has been seen running.  Dumps *)
(* taken on the way lie in storages that hold real backups too.            *)
(*                                                                         *)
(* Proxmox's tasks go on when the job that asked for them does not.  A job *)
(* may be cancelled at every await, and another migration, a backup or the *)
(* removal of the app's row may come between any two of its steps.         *)
(***************************************************************************)
EXTENDS Naturals, FiniteSets

CONSTANTS Migrations,     \* migrate.app jobs
          HostSet,        \* enrolled hosts
          Home,           \* where the app lives first
          Sites,          \* strategies the hosts' set-up may call for
          MaxTrouble      \* failures, cancels, restarts and others' doings

ASSUME SiteAssumption == /\ Home \in HostSet /\ MaxTrouble \in Nat
                         /\ Sites \subseteq {"cluster", "shared", "transfer"}
                         /\ IsFiniteSet(Migrations) /\ "user" \notin Migrations
                         /\ "shared" \notin HostSet

VARIABLES
  site,        \* what a preflight finds: the same cluster, a shared storage, neither
  appRow,      \* the app's row: host and ctid, or Gone
  cts,         \* containers and whether they run
  archives,    \* dumps in the storages
  clock,       \* how many dumps were begun: names them
  mig,         \* the jobs
  pve,         \* the task each job has Proxmox doing
  trouble
migrateVars == <<site, appRow, cts, archives, clock, mig, pve, trouble>>

Gone == [host |-> Home, ctid |-> 0]
Ctids == 1..(Cardinality(Migrations) + 1)
Archive == [at : HostSet \cup {"shared"}, n : Nat, by : Migrations \cup {"user"},
            ctid : Ctids,
            aside : BOOLEAN]   \* a user's, taken while no job was about to look for its own
NoMig == [st |-> "none", to |-> Home, src |-> Gone, dst |-> Gone, vol |-> 0,
          truncated |-> FALSE, then |-> "failed", excused |-> FALSE]
Under == {"loaded", "stop", "dump", "listing", "copy", "restore", "sweepSource",
          "sweepTarget", "start", "health", "proven"}
Mig == [st : Under \cup {"none", "queued", "failed", "canceled", "succeeded"},
        to : HostSet,                              \* target_host_id
        src : [host : HostSet, ctid : Ctids \cup {0}],
        dst : [host : HostSet, ctid : Ctids \cup {0}],
        vol : Nat,                                 \* the archive it took for its own
        truncated : BOOLEAN,                       \* the copy was made onto itself
        then : {"failed", "start"},                \* after the sweep
        excused : BOOLEAN]                         \* something kept it from sweeping
MigrateTypeOK ==
  /\ site \in Sites /\ appRow \in [host : HostSet, ctid : Ctids \cup {0}]
  /\ DOMAIN cts \subseteq HostSet \X Ctids /\ \A c \in DOMAIN cts : cts[c] \in {"running", "stopped"}
  /\ archives \subseteq Archive /\ clock \in Nat
  /\ mig \in [Migrations -> Mig]
  /\ pve \in [Migrations -> {"none", "stop", "dump", "migrate", "restore", "start"}]
  /\ trouble \in 0..MaxTrouble

MigrateInit ==
  /\ site \in Sites
  /\ appRow = [host |-> Home, ctid |-> 1]
  /\ \E s \in {"running", "stopped"} : cts = [c \in {<<Home, 1>>} |-> s]
  /\ archives = {} /\ clock = 0
  /\ mig = [m \in Migrations |-> NoMig] /\ pve = [m \in Migrations |-> "none"]
  /\ trouble = 0

Trouble == trouble < MaxTrouble /\ trouble' = trouble + 1
NoTrouble == UNCHANGED trouble
At(c) == <<c.host, c.ctid>>
Set(c, s) == [x \in DOMAIN cts \cup {c} |-> IF x = c THEN s ELSE cts[x]]
Staging(host) == IF site = "shared" THEN "shared" ELSE host

-----------------------------------------------------------------------------
(* Others.                                                                 *)

\* Between asking for a dump and listing the storage a job cannot tell a dump
\* of the same container from its own.
Looking(m) == mig[m].st \in {"dump", "listing"}

\* A scheduled backup of the container, into the same storage.
UserBackup ==
  /\ Trouble /\ <<appRow.host, appRow.ctid>> \in DOMAIN cts
  /\ clock' = clock + 1
  /\ archives' = archives \cup
       {[at |-> Staging(appRow.host), n |-> clock', by |-> "user", ctid |-> appRow.ctid,
         aside |-> \A m \in Migrations : ~Looking(m)]}
  /\ UNCHANGED <<site, appRow, cts, mig, pve>>

\* The app is forgotten, its container kept.
ForgetApp ==
  /\ Trouble /\ appRow # Gone /\ appRow' = Gone
  /\ UNCHANGED <<site, cts, archives, clock, mig, pve>>

\* What a task needs to do its work.
Possible(m) ==
  LET j == mig[m] IN
  CASE pve[m] \in {"stop", "dump"} -> At(j.src) \in DOMAIN cts
    [] pve[m] = "migrate" -> /\ At(j.src) \in DOMAIN cts /\ cts[At(j.src)] = "stopped"
                             /\ j.src.host # j.dst.host
    [] pve[m] = "start" -> At(j.dst) \in DOMAIN cts
    [] pve[m] = "restore" -> /\ At(j.dst) \notin DOMAIN cts /\ ~j.truncated
                             /\ \E a \in archives : a.n = j.vol /\ a.at = Staging(j.dst.host)
    [] OTHER -> FALSE

\* Proxmox ends a task that did what it was asked to.  A dump in mode "stop"
\* leaves the container as it was: stopped, by then.  One that was started may
\* be down again at once.
TaskDone(m) ==
  LET j == mig[m] IN
  /\ Possible(m) /\ pve' = [pve EXCEPT ![m] = "none"]
  /\ \/ pve[m] = "stop" /\ cts' = Set(At(j.src), "stopped") /\ UNCHANGED <<archives, clock, trouble>>
     \/ /\ pve[m] = "start" /\ UNCHANGED <<archives, clock>>
        /\ \/ cts' = Set(At(j.dst), "running") /\ NoTrouble
           \/ cts' = Set(At(j.dst), "stopped") /\ Trouble
     \/ pve[m] = "restore" /\ cts' = Set(At(j.dst), "stopped") /\ UNCHANGED <<archives, clock, trouble>>
     \/ /\ pve[m] = "migrate" /\ UNCHANGED <<archives, clock, trouble>>
        /\ cts' = [c \in (DOMAIN cts \ {At(j.src)}) \cup {At(j.dst)} |->
                     IF c = At(j.dst) THEN "stopped" ELSE cts[c]]
     \/ /\ pve[m] = "dump" /\ clock' = clock + 1 /\ UNCHANGED <<cts, trouble>>
        /\ archives' = archives \cup {[at |-> Staging(j.src.host), n |-> clock', by |-> m,
                                       ctid |-> j.src.ctid, aside |-> FALSE]}
  /\ UNCHANGED <<site, appRow, mig>>

\* The job hears that its task failed, or gives up waiting while the task goes
\* on.  Only a restore has a handler that sweeps up.
TaskFails(m) ==
  /\ mig[m].st \in {"stop", "dump", "copy", "restore", "start"} /\ pve[m] # "none"
  /\ \E timedOut \in BOOLEAN :
       /\ IF ~Possible(m) /\ ~timedOut THEN NoTrouble ELSE Trouble
       /\ pve' = IF timedOut THEN pve ELSE [pve EXCEPT ![m] = "none"]
       /\ mig' = [mig EXCEPT
            ![m].st = IF @ = "restore" /\ site = "transfer" THEN "sweepSource" ELSE "failed",
            ![m].excused = @ \/ (timedOut /\ mig[m].st = "dump")]
  /\ UNCHANGED <<site, appRow, cts, archives, clock>>

-----------------------------------------------------------------------------
(* The job.                                                                *)

Go(m, from, to) == mig[m].st = from /\ mig' = [mig EXCEPT ![m].st = to]
Ask(m, what) == pve[m] = "none" /\ pve' = [pve EXCEPT ![m] = what]

\* The route: another host than the app's, and no blocker.
RequestMigration(m, to) ==
  /\ mig[m].st = "none" /\ appRow # Gone /\ to # appRow.host
  /\ mig' = [mig EXCEPT ![m] = [NoMig EXCEPT !.st = "queued", !.to = to]]
  /\ UNCHANGED <<site, appRow, cts, archives, clock, pve, trouble>>

\* cluster_nextid reserves nothing.
NextId(host) == CHOOSE i \in Ctids : <<host, i>> \notin DOMAIN cts
                                     /\ \A k \in Ctids : k < i => <<host, k>> \in DOMAIN cts

\* _load: a fresh preflight, which does not look again whether source and
\* target are one host.
LoadMigration(m) ==
  /\ mig[m].st = "queued"
  /\ \/ /\ appRow # Gone /\ NoTrouble
        /\ mig' = [mig EXCEPT ![m].st = "loaded", ![m].src = appRow,
             ![m].dst = [host |-> mig[m].to,
                         ctid |-> IF site = "cluster" THEN appRow.ctid ELSE NextId(mig[m].to)]]
     \/ appRow = Gone /\ NoTrouble /\ mig' = [mig EXCEPT ![m].st = "failed"]
     \/ Trouble /\ mig' = [mig EXCEPT ![m].st = "failed"]
  /\ UNCHANGED <<site, appRow, cts, archives, clock, pve>>

\* The source is stopped, if it runs.
StopSource(m) ==
  /\ Go(m, "loaded", "stop")
  /\ IF At(mig[m].src) \in DOMAIN cts /\ cts[At(mig[m].src)] = "running" THEN Ask(m, "stop")
     ELSE UNCHANGED pve
  /\ UNCHANGED <<site, appRow, cts, archives, clock, trouble>>

SourceStopped(m) ==
  /\ Go(m, "stop", IF site = "cluster" THEN "copy" ELSE "dump")
  /\ Ask(m, IF site = "cluster" THEN "migrate" ELSE "dump")
  /\ UNCHANGED <<site, appRow, cts, archives, clock, trouble>>

Dumped(m) ==
  /\ pve[m] = "none" /\ Go(m, "dump", "listing")
  /\ UNCHANGED <<site, appRow, cts, archives, clock, pve, trouble>>

\* Its archive is the newest of that container, whosever that is.
Mine(found) == CHOOSE a \in found : \A b \in found : b.n <= a.n
ListArchives(m) ==
  LET j == mig[m]
      found == {a \in archives : a.at = Staging(j.src.host) /\ a.ctid = j.src.ctid} IN
  /\ j.st = "listing"
  /\ \/ /\ found # {} /\ NoTrouble
        /\ mig' = [x \in Migrations |->
             IF x = m THEN [j EXCEPT !.vol = Mine(found).n, !.excused = @ \/ Mine(found).by # m,
                                     !.st = IF site = "shared" THEN "restore" ELSE "copy"]
             ELSE IF Mine(found).by = x THEN [mig[x] EXCEPT !.excused = TRUE] ELSE mig[x]]
        /\ IF site = "shared" THEN Ask(m, "restore") ELSE UNCHANGED pve
     \/ /\ found = {} /\ NoTrouble /\ UNCHANGED pve
        /\ mig' = [mig EXCEPT ![m].st = "failed"]
     \/ Trouble /\ UNCHANGED pve                 \* the listing fails
        /\ mig' = [mig EXCEPT ![m].st = "failed", ![m].excused = TRUE]
     \/ /\ Trouble /\ UNCHANGED pve              \* a storage without a path
        /\ found # {} /\ site = "transfer"
        /\ mig' = [mig EXCEPT ![m].st = "sweepSource", ![m].vol = Mine(found).n,
                              ![m].excused = @ \/ Mine(found).by # m]
  /\ UNCHANGED <<site, appRow, cts, archives, clock>>

\* sftp_copy: the file arrives whole, in part, or not at all.  Onto itself it
\* is cut to nothing.
Transfer(m) ==
  LET j == mig[m]
      from == {a \in archives : a.n = j.vol /\ a.at = j.src.host}
      arrived == {[a EXCEPT !.at = j.dst.host] : a \in from} IN
  /\ j.st = "copy" /\ site = "transfer"
  /\ \/ /\ from # {} /\ NoTrouble
        /\ archives' = archives \cup arrived
        /\ mig' = [mig EXCEPT ![m].st = "restore", ![m].truncated = (j.src.host = j.dst.host)]
        /\ Ask(m, "restore")
     \/ /\ \/ from = {} /\ NoTrouble
           \/ Trouble
        /\ archives' \in {archives, archives \cup arrived}
        /\ mig' = [mig EXCEPT ![m].st = "sweepSource"]
        /\ UNCHANGED pve
  /\ UNCHANGED <<site, appRow, cts, clock>>

Restored(m) ==
  /\ pve[m] = "none"
  /\ IF site = "cluster" THEN Go(m, "copy", "start") /\ Ask(m, "start")
     ELSE IF site = "shared" THEN Go(m, "restore", "start") /\ Ask(m, "start")
     ELSE /\ mig[m].st = "restore" /\ UNCHANGED pve
          /\ mig' = [mig EXCEPT ![m].st = "sweepSource", ![m].then = "start"]
  /\ UNCHANGED <<site, appRow, cts, archives, clock, trouble>>

\* _cleanup_volume on the source, then on the target: best effort.
Sweep(m) ==
  LET j == mig[m]
      host == IF j.st = "sweepSource" THEN j.src.host ELSE j.dst.host IN
  /\ j.st \in {"sweepSource", "sweepTarget"}
  /\ \E refused \in BOOLEAN :
       /\ IF refused THEN Trouble /\ UNCHANGED archives
          ELSE NoTrouble /\ archives' = {a \in archives : a.at # host \/ a.n # j.vol}
       /\ mig' = [mig EXCEPT ![m].excused = @ \/ refused,
                     ![m].st = IF @ = "sweepSource" THEN "sweepTarget" ELSE j.then]
  /\ IF j.st = "sweepTarget" /\ j.then = "start" THEN Ask(m, "start") ELSE UNCHANGED pve
  /\ UNCHANGED <<site, appRow, cts, clock>>

Started(m) ==
  /\ pve[m] = "none" /\ Go(m, "start", "health")
  /\ UNCHANGED <<site, appRow, cts, archives, clock, pve, trouble>>

\* _wait_running: seen running, or not within the minute.
BugSeenRunning(m) == TRUE
SeenRunning(m) == At(mig[m].dst) \in DOMAIN cts /\ cts[At(mig[m].dst)] = "running"
Health(m) ==
  /\ \/ SeenRunning(m) /\ Go(m, "health", "proven") /\ NoTrouble
     \/ Go(m, "health", "failed") /\ Trouble
     \/ ~SeenRunning(m) /\ Go(m, "health", "failed") /\ NoTrouble
  /\ UNCHANGED <<site, appRow, cts, archives, clock, pve>>

\* _repoint; a row that is gone by now fails the job.
Repoint(m) ==
  /\ IF appRow = Gone THEN Go(m, "proven", "failed") /\ UNCHANGED appRow
     ELSE Go(m, "proven", "succeeded") /\ appRow' = mig[m].dst
  /\ UNCHANGED <<site, cts, archives, clock, pve, trouble>>

\* Cancelled, or the process stopped: none of the handlers runs.
CancelMigration(m) ==
  /\ Trouble /\ mig[m].st \in Under \cup {"queued"}
  /\ mig' = [mig EXCEPT ![m].st = "canceled", ![m].excused = TRUE]
  /\ UNCHANGED <<site, appRow, cts, archives, clock, pve>>

Migrate(m) ==
  \/ LoadMigration(m) \/ StopSource(m) \/ SourceStopped(m) \/ Dumped(m) \/ ListArchives(m)
  \/ Transfer(m) \/ Restored(m) \/ Sweep(m) \/ Started(m) \/ Health(m) \/ Repoint(m)
MigrateNext ==
  \/ UserBackup \/ ForgetApp
  \/ \E m \in Migrations : Migrate(m) \/ TaskDone(m) \/ TaskFails(m) \/ CancelMigration(m)
  \/ \E m \in Migrations, to \in HostSet : RequestMigration(m, to)
MigrateSpec == MigrateInit /\ [][MigrateNext]_migrateVars

-----------------------------------------------------------------------------
(* Properties.                                                             *)

Finished(m) == mig[m].st \in {"failed", "canceled", "succeeded"}
Left(m) == {a \in archives : a.by = m}

\* Another migration set out from there: of three in a cluster, one that loaded
\* the app where it was before may stop it where the third has brought it back to.
TakenOn(c) == site = "cluster" /\ \E x \in Migrations : mig[x].src = c

\* "Failure ordering IS the safety property": the row moves only to a guest that
\* runs, and no strategy but the cluster's own migrate takes a container away
\* from anywhere, whichever steps fail and whatever other migrations do.
SourceKept ==
  [][/\ appRow' # appRow /\ appRow' # Gone =>
          (At(appRow') \in DOMAIN cts /\ cts[At(appRow')] = "running") \/ TakenOn(appRow')
     /\ site # "cluster" => DOMAIN cts \subseteq DOMAIN cts'
     /\ \A c \in DOMAIN cts : \E d \in DOMAIN cts' : d[2] = c[2]]_migrateVars

\* A backup nobody could mistake for a scratch dump is never deleted, and a
\* transfer that was neither cancelled nor kept from it leaves no dump behind.
ArchivesKept ==
  [][/\ \A a \in archives : a.aside => \E b \in archives' : b.n = a.n
     /\ site = "transfer" => \A m \in Migrations :
          Finished(m)' /\ ~mig'[m].excused => Left(m)' = {}]_migrateVars

\* A migration that stops anywhere costs nobody a container or a backup.
MigrationKeeps == ([]MigrateTypeOK) /\ SourceKept /\ ArchivesKept

\* "_cleanup_volume deletes both on every exit path."
SweptOnEveryExit ==
  site = "transfer" => \A m \in Migrations : Finished(m) => Left(m) = {}
=============================================================================
