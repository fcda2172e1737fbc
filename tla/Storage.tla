------------------------------ MODULE Storage -------------------------------
(***************************************************************************)
(* Datastores: definitions attached and detached through Proxploy, and     *)
(* files uploaded into them.                                               *)
(*                                                                         *)
(* The list of datastores is the poller's snapshot, so every decision made *)
(* from it (may this pool be detached?) is made on what an earlier poll    *)
(* saw.  An upload looks for a file of its name before the body is read,   *)
(* and the file lands when a job has sent it, minutes later.               *)
(***************************************************************************)
EXTENDS Naturals, FiniteSets

CONSTANTS
    Pools,       \* datastores that accept backups
    Uploads,     \* upload requests, all under one file name
    Detachers,   \* detach requests
    MaxChanges   \* bound: definitions attached and volumes deleted

ASSUME StorageAssumption == MaxChanges \in Nat

VARIABLES
    attached,   \* definitions Proxmox holds
    listed,     \* the snapshot's rows: a set of pools, or Unpolled
    reading,    \* rows a poll cycle or a resync read and has not stored
    jobOn,      \* is an enabled backup schedule set for this host?
    detach,     \* detach[d]: its pool, its progress, the listing it judged by
    stranded,   \* ghost: detaches that left the job without a target
    volume,     \* the upload whose bytes stand under the name, or NoUpload
    upload,     \* upload[u]: its progress
    agreed,     \* uploads sent with overwrite=true
    spool,      \* spool files on disk
    landed,     \* ghost: uploads that have landed
    sawLanded,  \* ghost: sawLanded[u]: what had landed when u looked
    replaced,   \* ghost: <<new, old>> for each file swapped for another
    changes

storageVars == <<attached, listed, reading, jobOn, detach, stranded, volume,
                 upload, agreed, spool, landed, sawLanded, replaced, changes>>

poolVars   == <<attached, listed, reading, jobOn, detach, stranded>>
volumeVars == <<volume, upload, agreed, spool, landed, sawLanded, replaced>>

Unpolled == {"unpolled"}
NoRead == {"no read"}
NoUpload == "none"
NoDetach == [at |-> "idle"]

StorageInit ==
    /\ attached \in SUBSET Pools
    /\ listed = Unpolled
    /\ reading = NoRead
    /\ jobOn \in BOOLEAN
    /\ detach = [d \in Detachers |-> NoDetach]
    /\ stranded = {}
    /\ volume = NoUpload
    /\ upload = [u \in Uploads |-> "idle"]
    /\ agreed \in SUBSET Uploads
    /\ spool = {}
    /\ landed = {}
    /\ sawLanded = [u \in Uploads |-> {}]
    /\ replaced = {}
    /\ changes = 0

(***************************************************************************)
(* The listing                                                             *)
(***************************************************************************)
(* A poll cycle asks Proxmox, and stores what it was told later; a thin    *)
(* answer (the token may not see the cluster) is an empty read.            *)
ListingReads ==
    /\ reading = NoRead
    /\ reading' \in {attached, {}}
    /\ UNCHANGED <<attached, listed, jobOn, detach, stranded, changes, volumeVars>>

ListingStores ==
    /\ reading # NoRead
    /\ listed' = reading
    /\ reading' = NoRead
    /\ UNCHANGED <<attached, jobOn, detach, stranded, changes, volumeVars>>

(* _resync_snapshot after a write: one read, stored at once; an empty or   *)
(* failed read, and a host never polled, leave the listing alone.          *)
Resynced(now) ==
    \/ UNCHANGED listed
    \/ listed # Unpolled /\ now # {} /\ listed' = now

(***************************************************************************)
(* Definitions                                                             *)
(***************************************************************************)
Attach(p) ==
    /\ changes < MaxChanges
    /\ p \notin attached
    /\ changes' = changes + 1
    /\ attached' = attached \cup {p}
    /\ Resynced(attached')
    /\ UNCHANGED <<reading, jobOn, detach, stranded, volumeVars>>

(* Other pools the snapshot shows to accept backups; none if unpolled. *)
Others(rows, p) == IF rows = Unpolled THEN {} ELSE rows \ {p}

(* _backup_job_on: refuse to detach the last target of an enabled job. *)
DetachJudges(d, p) ==
    /\ detach[d] = NoDetach
    /\ detach' = [detach EXCEPT ![d] =
                    IF Others(listed, p) = {} /\ jobOn THEN [at |-> "refused"]
                    ELSE [at |-> "asked", pool |-> p, by |-> listed, job |-> jobOn]]
    /\ UNCHANGED <<attached, listed, reading, jobOn, stranded, changes, volumeVars>>

(* storage_remove: fails on a pool that is gone; else the row is dropped,  *)
(* its data left in place, and the listing read again.                     *)
DetachRemoves(d) ==
    /\ detach[d].at = "asked"
    /\ detach' = [detach EXCEPT ![d] = [at |-> "done"]]
    /\ LET p == detach[d].pool IN
       IF p \in attached
       THEN /\ attached' = attached \ {p}
            /\ Resynced(attached')
            /\ stranded' = IF jobOn /\ attached' = {}
                           THEN stranded \cup
                                {[saw |-> detach[d].by, stood |-> attached,
                                  pool |-> p, job |-> detach[d].job]}
                           ELSE stranded
       ELSE UNCHANGED <<attached, listed, stranded>>
    /\ UNCHANGED <<reading, jobOn, changes, volumeVars>>

ScheduleToggles ==
    /\ changes < MaxChanges
    /\ changes' = changes + 1
    /\ jobOn' = ~jobOn
    /\ UNCHANGED <<attached, listed, reading, detach, stranded, volumeVars>>

(***************************************************************************)
(* Uploads                                                                 *)
(***************************************************************************)
Step(u, s) == upload' = [upload EXCEPT ![u] = s]

BugMayReplace(u) == upload[u] = "idle"

MayReplace(u) == u \in agreed \/ volume = NoUpload

(* _refuse_silent_overwrite, before a byte of the body is read. *)
UploadLooks(u) ==
    /\ upload[u] = "idle"
    /\ Step(u, IF MayReplace(u) THEN "spooling" ELSE "refused")
    /\ spool' = IF MayReplace(u) THEN spool \cup {u} ELSE spool
    /\ sawLanded' = [sawLanded EXCEPT ![u] = landed]
    /\ UNCHANGED <<volume, agreed, landed, replaced, changes, poolVars>>

Dropped(u) == spool \ {u}

(* The body is past the cap, or the caller hangs up: the partial file goes. *)
UploadAborts(u) ==
    /\ upload[u] = "spooling"
    /\ Step(u, "failed")
    /\ spool' = Dropped(u)
    /\ UNCHANGED <<volume, agreed, landed, sawLanded, replaced, changes, poolVars>>

(* enqueue_and_audit: the job row owns the file from here on. *)
UploadQueues(u) ==
    /\ upload[u] = "spooling"
    /\ Step(u, "queued")
    /\ UNCHANGED <<volume, agreed, spool, landed, sawLanded, replaced, changes, poolVars>>

(* The job table refuses the row (database busy): nothing owns the file. *)
QueueFails(u) ==
    /\ upload[u] = "spooling"
    /\ Step(u, "unqueued")
    /\ UNCHANGED <<volume, agreed, spool, landed, sawLanded, replaced, changes, poolVars>>

(* run_upload: Proxmox takes the bytes and moves the file into place.  The *)
(* task goes on there even when the job that watches it is cancelled.      *)
UploadLands(u) ==
    /\ upload[u] = "queued"
    /\ Step(u, "landed")
    /\ volume' = u
    /\ landed' = landed \cup {u}
    /\ replaced' = IF volume = NoUpload THEN replaced
                   ELSE replaced \cup {<<u, volume>>}
    /\ UNCHANGED <<agreed, spool, sawLanded, changes, poolVars>>

(* The job ends, in any way: JobBackend._run's `finally` takes the file. *)
UploadEnds(u) ==
    /\ upload[u] \in {"queued", "landed"}
    /\ Step(u, "ended")
    /\ spool' = Dropped(u)
    /\ UNCHANGED <<volume, agreed, landed, sawLanded, replaced, changes, poolVars>>

(* run_delete_volume. *)
VolumeDeleted ==
    /\ changes < MaxChanges
    /\ volume # NoUpload
    /\ changes' = changes + 1
    /\ volume' = NoUpload
    /\ UNCHANGED <<upload, agreed, spool, landed, sawLanded, replaced, poolVars>>

StorageNext ==
    \/ ListingReads \/ ListingStores \/ ScheduleToggles \/ VolumeDeleted
    \/ \E p \in Pools : Attach(p) \/ \E d \in Detachers : DetachJudges(d, p)
    \/ \E d \in Detachers : DetachRemoves(d)
    \/ \E u \in Uploads : \/ UploadLooks(u) \/ UploadAborts(u) \/ UploadQueues(u)
                          \/ QueueFails(u) \/ UploadLands(u) \/ UploadEnds(u)

StorageSpec == StorageInit /\ [][StorageNext]_storageVars

-----------------------------------------------------------------------------
(* TypeOK of the datastores' state. *)
StorageTypeOK ==
    /\ attached \subseteq Pools
    /\ listed \in (SUBSET Pools) \cup {Unpolled}
    /\ reading \in (SUBSET Pools) \cup {NoRead}
    /\ volume \in Uploads \cup {NoUpload}
    /\ spool \subseteq Uploads
    /\ changes \in 0..MaxChanges

(* A detach leaves a backup job without a target only if something else    *)
(* changed since it judged: the listing it went by was not what Proxmox    *)
(* held, or the schedule was switched on afterwards.                       *)
StrandsOnlyStale == \A s \in stranded : s.saw # s.stood \/ ~s.job

(* A file is never swapped for an upload whose sender was not asked, unless *)
(* the other file landed after the sender had looked.                       *)
NeverUnasked ==
    \A r \in replaced : r[1] \in agreed \/ r[2] \notin sawLanded[r[1]]

(* A spooled body is on disk only while its request reads it or its job is *)
(* pending; a request that could not queue its job is the one exception.   *)
SpoolsOwned ==
    \A u \in spool : upload[u] \in {"spooling", "queued", "landed", "unqueued"}

(* A target, a file or a spooled body is lost or left behind only where two *)
(* requests, or a request and a stale listing, met.                         *)
StorageSound == StorageTypeOK /\ StrandsOnlyStale /\ NeverUnasked /\ SpoolsOwned
=============================================================================
