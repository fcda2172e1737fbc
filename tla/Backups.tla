------------------------------ MODULE Backups ------------------------------
(***************************************************************************)
(* The mirror of a host's backup archives and the jobs that work from it   *)
(* (services/backupjobs.py, api/backups.py).  Proxmox owns the archives;   *)
(* the backups table mirrors them, and every job is told which archive it  *)
(* is about by the id of a mirror row.  A sync lists first and merges      *)
(* later, several may run at once, and SQLite hands the highest id out     *)
(* again once its row is dropped.                                          *)
(*                                                                         *)
(* One host, one guest and a plain datastore.  Archives are numbered in    *)
(* the order they were written.                                            *)
(***************************************************************************)
EXTENDS Naturals, FiniteSets, FiniteSetsExt, Functions

CONSTANTS Workers,        \* jobs that may run beside the list's own sync
          Rotten,         \* archives that do not read back
          MaxArchives,    \* archives ever written
          MaxDeeds        \* requests, failures, cancels, restarts, others' doings

ASSUME BackupsAssumption == MaxArchives \in Nat \ {0} /\ MaxDeeds \in Nat /\ "sync" \notin Workers

VARIABLES
  store,       \* archives there are
  written,     \* how many ever were
  mirror,      \* Backup rows by id
  work,        \* jobs; a finished one is idle again
  scratch,     \* the throwaway guest of a job: "none", "there", "told" when somebody
               \* was told to remove it, "stray" when its job was cut short
  apps,        \* containers a restore adopted, and the archive they are named for
  deeds
backupVars == <<store, written, mirror, work, scratch, apps, deeds>>

All == Workers \cup {"sync"}                  \* "sync": the list's backup.sync
Files == 1..MaxArchives
RowIds == Nat \ {0}
Checks == {"verify", "sweep", "test"}
NoWork == [kind |-> "idle", pc |-> "idle", id |-> 0, asked |-> 0, file |-> 0, listed |-> {},
           todo |-> {}, verdict |-> "none", lost |-> FALSE, sound |-> TRUE, chain |-> FALSE]
Work == [kind : Checks \cup {"idle", "sync", "run", "restore", "delete"},
         pc : {"idle", "queued", "act", "post", "await", "record", "drop", "list", "merge", "after"},
         id : RowIds \cup {0},            \* backup_id
         asked : Files \cup {0},          \* the archive that row stood for when it was asked
         file : Files \cup {0},           \* the archive the job works on
         listed : SUBSET Files, todo : SUBSET RowIds,
         verdict : {"none", "ok", "failed"},
         lost : BOOLEAN,                  \* the row asked for was dropped meanwhile
         sound : BOOLEAN,                 \* the verdict is the archive's doing
         chain : BOOLEAN]                 \* verify what the run wrote
BackupsTypeOK ==
  /\ store \subseteq 1..written /\ written \in 0..MaxArchives /\ deeds \in 0..MaxDeeds
  /\ DOMAIN mirror \subseteq RowIds
  /\ \A i \in DOMAIN mirror : mirror[i] \in [file : Files, verdict : {"none", "ok", "failed"}]
  /\ work \in [All -> Work] /\ scratch \in [Workers -> {"none", "there", "told", "stray"}]
  /\ apps \subseteq [from : Files, named : Files, lost : BOOLEAN]

BackupsInit ==
  /\ written \in {0, 1} /\ store = 1..written
  /\ mirror = [i \in store |-> [file |-> i, verdict |-> "none"]]
  /\ work = [j \in All |-> NoWork]
  /\ scratch = [j \in Workers |-> "none"] /\ apps = {} /\ deeds = 0

Deed == deeds < MaxDeeds /\ deeds' = deeds + 1
NoDeed == UNCHANGED deeds
Becomes(j, w) == work' = [work EXCEPT ![j] = w]
Ends(j) == Becomes(j, NoWork)
Proceeds(j, pc) == work' = [work EXCEPT ![j].pc = pc]

-----------------------------------------------------------------------------
(* Others, and the requests.                                               *)

Write == written < MaxArchives /\ written' = written + 1 /\ store' = store \cup {written'}
NewArchive == Deed /\ Write /\ UNCHANGED <<mirror, work, scratch, apps>>
Vanish(f) == /\ Deed /\ f \in store /\ store' = store \ {f}
             /\ UNCHANGED <<written, mirror, work, scratch, apps>>

\* list_backups: a stale cache asks for a sync, and for one only.
AskSync ==
  /\ work["sync"].kind = "idle"
  /\ Becomes("sync", [NoWork EXCEPT !.kind = "sync", !.pc = "list"])
  /\ UNCHANGED <<store, written, mirror, scratch, apps, deeds>>

Free(j) == work[j].kind = "idle" /\ scratch[j] = "none"
\* _refuse_a_second_check
CheckRuns == \E k \in Workers : work[k].kind \in Checks
\* The routes about one archive.
AskFor(j, kind, i) ==
  /\ Deed /\ Free(j) /\ (kind \in Checks => ~CheckRuns)
  /\ Becomes(j, [NoWork EXCEPT !.kind = kind, !.pc = "queued", !.id = i, !.asked = mirror[i].file])
  /\ UNCHANGED <<store, written, mirror, scratch, apps>>
AskRun(j) ==
  /\ Deed /\ Free(j)
  /\ \E chain \in BOOLEAN :
       Becomes(j, [NoWork EXCEPT !.kind = "run", !.pc = "act", !.chain = chain])
  /\ UNCHANGED <<store, written, mirror, scratch, apps>>

\* _verify_sweep: the rows nobody has checked, as they were when it began.
AskSweep(j) ==
  /\ Deed /\ Free(j) /\ ~CheckRuns
  /\ LET todo == {i \in DOMAIN mirror : mirror[i].verdict = "none"} IN
       /\ todo # {}
       /\ Becomes(j, [NoWork EXCEPT !.kind = "sweep", !.pc = "after", !.todo = todo])
  /\ UNCHANGED <<store, written, mirror, scratch, apps>>

-----------------------------------------------------------------------------
(* The mirror.                                                             *)

\* sync_host_backups: rows for what is new, none for what is gone, and a
\* verdict of its own making stays.  New rows are inserted before old ones go.
BugMerged(listed) ==
  [i \in 1..Cardinality(listed) |->
     [file |-> CHOOSE f \in listed : Cardinality({g \in listed : g <= f}) = i, verdict |-> "none"]]
Merged(listed) ==
  LET known == {mirror[i].file : i \in DOMAIN mirror}
      kept == {i \in DOMAIN mirror : mirror[i].file \in listed}
      new == listed \ known
      Id(f) == Max(DOMAIN mirror \cup {0}) + Cardinality({g \in new : g <= f}) IN
  [i \in kept \cup {Id(f) : f \in new} |->
     IF i \in kept THEN mirror[i]
     ELSE [file |-> CHOOSE f \in new : Id(f) = i, verdict |-> "none"]]

\* What a job does once its mirror is fresh, or was not to be had: _resync never raises.
NextPc(w) == [w EXCEPT !.listed = {},
                       !.pc = IF w.kind = "restore" \/ w.chain THEN "after" ELSE "idle",
                       !.kind = IF w.kind = "restore" \/ w.chain THEN @ ELSE "idle"]
Resynced(j) == IF NextPc(work[j]).kind = "idle" THEN NoWork ELSE NextPc(work[j])

List(j) ==
  /\ work[j].pc = "list"
  /\ \/ NoDeed /\ Becomes(j, [work[j] EXCEPT !.listed = store, !.pc = "merge"])
     \/ Deed /\ Becomes(j, Resynced(j))
  /\ UNCHANGED <<store, written, mirror, scratch, apps>>

\* The merge is one transaction; a row another one took or dropped fails it.
Merge(j) ==
  /\ work[j].pc = "merge"
  /\ \/ /\ NoDeed /\ mirror' = Merged(work[j].listed)
        /\ work' = [k \in All |->
             [(IF k = j THEN Resynced(j) ELSE work[k]) EXCEPT
                !.lost = @ \/ work[k].id \in DOMAIN mirror \ DOMAIN mirror']]
     \/ Deed /\ UNCHANGED mirror /\ Becomes(j, Resynced(j))
  /\ UNCHANGED <<store, written, scratch, apps>>

-----------------------------------------------------------------------------
(* The handlers.                                                           *)

\* _backup_target: the id is looked up when the job runs.
Resolve(j) ==
  LET w == work[j] IN
  /\ w.pc = "queued"
  /\ IF w.id \notin DOMAIN mirror THEN Ends(j)
     ELSE Becomes(j, [w EXCEPT !.file = mirror[w.id].file,
                               !.pc = IF w.kind = "test" THEN "post" ELSE "act"])
  /\ UNCHANGED <<store, written, mirror, scratch, apps, deeds>>

\* verify_backup: read back over SSH.  A path that cannot be resolved says
\* nothing of the archive.
ReadBack(j) ==
  LET w == work[j] IN
  /\ w.kind \in {"verify", "sweep"} /\ w.pc = "act"
  /\ \/ /\ w.file \in store /\ NoDeed
        /\ Becomes(j, [w EXCEPT !.verdict = IF w.file \in Rotten THEN "failed" ELSE "ok",
                                !.pc = "record"])
     \/ w.file \notin store /\ NoDeed /\ Ends(j)
     \/ Deed /\ Ends(j)
  /\ UNCHANGED <<store, written, mirror, scratch, apps>>

\* The verdict is written to whatever row has the id now.
Record(j) ==
  LET w == work[j] IN
  /\ w.pc = "record"
  /\ mirror' = [i \in DOMAIN mirror |-> IF i = w.id THEN [mirror[i] EXCEPT !.verdict = w.verdict]
                                                     ELSE mirror[i]]
  /\ CASE w.kind = "test" -> Proceeds(j, "drop")
       [] w.kind = "sweep" -> Proceeds(j, "after")
       [] OTHER -> Ends(j)
  /\ UNCHANGED <<store, written, scratch, apps, deeds>>

\* The sweep's next, oldest first; one that is gone ends the sweep.
SweepNext(j) ==
  LET w == work[j]
      i == Min(w.todo) IN
  /\ w.kind = "sweep" /\ w.pc = "after"
  /\ IF w.todo = {} \/ i \notin DOMAIN mirror THEN Ends(j)
     ELSE Becomes(j, [w EXCEPT !.todo = @ \ {i}, !.id = i, !.asked = mirror[i].file,
                               !.file = mirror[i].file, !.lost = FALSE, !.pc = "act"])
  /\ UNCHANGED <<store, written, mirror, scratch, apps, deeds>>

\* run_backup, delete_backup and restore_backup: one task of Proxmox's, then a resync.
RunTask(j) ==
  LET w == work[j] IN
  /\ w.kind \in {"run", "delete", "restore"} /\ w.pc = "act"
  /\ \/ w.kind = "run" /\ NoDeed /\ Write /\ Proceeds(j, "list")
     \/ /\ w.kind = "delete" /\ w.file \in store /\ NoDeed
        /\ store' = store \ {w.file} /\ UNCHANGED written /\ Proceeds(j, "list")
     \/ /\ w.kind = "restore" /\ w.file \in store \ Rotten /\ NoDeed
        /\ UNCHANGED <<store, written>> /\ Proceeds(j, "list")
     \/ /\ \/ Deed
           \/ w.kind # "run" /\ w.file \notin store /\ NoDeed
           \/ w.kind = "run" /\ written = MaxArchives /\ NoDeed
           \/ w.kind = "restore" /\ w.file \in Rotten /\ NoDeed
        /\ UNCHANGED <<store, written>> /\ Ends(j)
  /\ UNCHANGED <<mirror, scratch, apps>>

\* adopt_restored: the container is named for the row the id has now.
Adopt(j) ==
  LET w == work[j] IN
  /\ w.kind = "restore" /\ w.pc = "after" /\ Ends(j)
  /\ apps' = IF w.id \notin DOMAIN mirror THEN apps
             ELSE apps \cup {[from |-> w.file, named |-> mirror[w.id].file, lost |-> w.lost]}
  /\ UNCHANGED <<store, written, mirror, scratch, deeds>>

\* _queue_checks: what the run wrote is taken to be the newest there is a row of.
QueueChecks(j) ==
  LET newest == {i \in DOMAIN mirror : \A k \in DOMAIN mirror : mirror[k].file <= mirror[i].file} IN
  /\ work[j].kind = "run" /\ work[j].pc = "after"
  /\ IF newest = {} THEN Ends(j)
     ELSE \E i \in newest : Becomes(j, [NoWork EXCEPT !.kind = "verify", !.pc = "queued",
                                                       !.id = i, !.asked = mirror[i].file])
  /\ UNCHANGED <<store, written, mirror, scratch, apps, deeds>>

-----------------------------------------------------------------------------
(* A test restore, and being cut short.                                    *)

\* Proxmox takes the call, or refuses it and nothing is said of the archive.
TestPost(j) ==
  /\ work[j].kind = "test" /\ work[j].pc = "post"
  /\ \/ NoDeed /\ scratch' = [scratch EXCEPT ![j] = "there"] /\ Proceeds(j, "await")
     \/ Deed /\ UNCHANGED scratch /\ Ends(j)
  /\ UNCHANGED <<store, written, mirror, apps>>

\* Whatever ends the wait but success is put down to the archive.
BugAfterTest == "idle"
AfterTest == "record"
TestAwait(j) ==
  LET w == work[j]
      good == w.file \in store \ Rotten IN
  /\ w.kind = "test" /\ w.pc = "await"
  /\ \/ good /\ NoDeed /\ Becomes(j, [w EXCEPT !.verdict = "ok", !.pc = "record"])
     \/ ~good /\ NoDeed /\ Becomes(j, [w EXCEPT !.verdict = "failed", !.pc = AfterTest])
     \/ Deed /\ Becomes(j, [w EXCEPT !.verdict = "failed", !.sound = FALSE, !.pc = AfterTest])
  /\ UNCHANGED <<store, written, mirror, scratch, apps>>

TestDrop(j) ==
  /\ work[j].pc = "drop" /\ Ends(j)
  /\ \/ NoDeed /\ scratch' = [scratch EXCEPT ![j] = "none"]
     \/ Deed /\ scratch' = [scratch EXCEPT ![j] = "told"]
  /\ UNCHANGED <<store, written, mirror, apps>>

\* A cancel.  The thread of a sync goes on without its job; so does a call to
\* Proxmox, whose answer nobody hears; a test restore past its call still
\* records and deletes.
CancelWork(j) ==
  LET w == work[j] IN
  /\ Deed /\ w.pc # "idle"
  /\ scratch' \in {scratch} \cup
       (IF w.kind = "test" /\ w.pc = "post" THEN {[scratch EXCEPT ![j] = "stray"]} ELSE {})
       \cup (IF w.pc = "drop" THEN {[scratch EXCEPT ![j] = s] : s \in {"stray", "none"}} ELSE {})
  /\ w.pc = "drop" => scratch' # scratch
  /\ store' \in {store} \cup (IF w.kind = "delete" /\ w.pc = "act" THEN {store \ {w.file}} ELSE {})
  /\ CASE w.pc \in {"list", "merge"} -> Becomes(j, [w EXCEPT !.kind = "sync", !.chain = FALSE])
       [] w.pc = "await" -> Becomes(j, [w EXCEPT !.verdict = "failed", !.sound = FALSE,
                                                 !.pc = AfterTest])
       [] OTHER -> Ends(j)
  /\ w.pc # "record"                    \* no await there
  /\ UNCHANGED <<written, mirror, apps>>

BackupsRestart ==
  /\ Deed /\ work # [j \in All |-> NoWork]
  /\ work' = [j \in All |-> NoWork]
  /\ scratch' = [j \in Workers |-> IF scratch[j] = "there" THEN "stray" ELSE scratch[j]]
  /\ UNCHANGED <<store, written, mirror, apps>>

-----------------------------------------------------------------------------
Steps(j) == \/ List(j) \/ Merge(j) \/ Resolve(j) \/ ReadBack(j) \/ Record(j) \/ SweepNext(j)
            \/ RunTask(j) \/ Adopt(j) \/ QueueChecks(j) \/ TestPost(j) \/ TestAwait(j) \/ TestDrop(j)
BackupsNext ==
  \/ NewArchive \/ AskSync \/ BackupsRestart
  \/ \E f \in Files : Vanish(f)
  \/ \E j \in All : Steps(j) \/ CancelWork(j)
  \/ \E j \in Workers : \/ AskRun(j) \/ AskSweep(j)
                        \/ \E i \in DOMAIN mirror, kind \in {"verify", "test", "restore", "delete"} :
                             AskFor(j, kind, i)
\* A page that shows the backups asks again every minute.
BackupsFair == WF_backupVars(AskSync) /\ \A j \in All : WF_backupVars(Steps(j))
BackupsSpec == BackupsInit /\ [][BackupsNext]_backupVars /\ BackupsFair

-----------------------------------------------------------------------------
(* Properties.                                                             *)

\* However the syncs overlap, a job works on the archive it was asked about,
\* names what it restored for it and judges no other, unless the row it was
\* given was dropped meanwhile; and a throwaway guest outlives its job only if
\* somebody was told, or the job was cut short around the call.
BackupsHonest ==
  /\ BackupsTypeOK
  /\ \A j \in Workers :
       /\ work[j].file # 0 /\ ~work[j].lost => work[j].file = work[j].asked
       /\ work[j].id \in DOMAIN mirror /\ ~work[j].lost => mirror[work[j].id].file = work[j].asked
       /\ scratch[j] = "there" => work[j].kind = "test" /\ work[j].pc \in {"await", "record", "drop"}
  /\ \A a \in apps : a.from = a.named \/ a.lost

\* A verdict stays with its row, comes from a check of that row, says "ok" only
\* of what reads back, and "failed" of what does not unless the wait was cut short.
VerdictsEarned ==
  [][\A i \in DOMAIN mirror \cap DOMAIN mirror' :
       mirror'[i].verdict # mirror[i].verdict =>
         \E j \in Workers :
           /\ work[j].pc = "record" /\ work[j].id = i /\ mirror'[i].verdict = work[j].verdict
           /\ work[j].verdict = "ok" => work[j].file \notin Rotten
           /\ work[j].verdict = "failed" /\ work[j].sound
                => work[j].file \in Rotten \/ work[j].kind = "test"]_backupVars

\* Once others let it rest, the mirror shows every archive there is, once, and
\* no other, however stale the listings were that it was made from.
Mirrored ==
  <>[](/\ {mirror[i].file : i \in DOMAIN mirror} = store
       /\ Cardinality(DOMAIN mirror) = Cardinality(store))

\* What the mirror says of an archive is that archive's, and there is one of each.
MirrorTrue == VerdictsEarned /\ Mirrored
=============================================================================
