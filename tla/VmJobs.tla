------------------------------- MODULE VmJobs -------------------------------
(***************************************************************************)
(* Jobs on virtual machines: destroy, snapshot, roll back, clone, create.  *)
(*                                                                         *)
(* The route judges the row it was given (is it running? was its name      *)
(* typed?) and queues a job that carries the row's id; the job looks the   *)
(* row up again when it runs.  Rows are the poller's mirror of Proxmox:    *)
(* one goes when its guest is gone, the database hands its number to the   *)
(* next guest found, and Proxmox gives a free vmid to the next guest made. *)
(***************************************************************************)
EXTENDS Naturals, FiniteSets, FiniteSetsExt, Functions

CONSTANTS
    Vmids,      \* Proxmox ids a guest may have
    Askers,   \* requests that queue a job
    MaxGuests,  \* bound: guests that ever exist
    MaxStirs    \* bound: what happens in Proxmox itself, and polls

ASSUME VmAssumption == /\ Vmids \subseteq Nat \ {0} /\ Vmids # {}
                       /\ MaxGuests \in Nat \ {0} /\ MaxStirs \in Nat

VARIABLES
    guest,      \* guest[v]: the guest under vmid v, or NoGuest
    running,    \* guests that run
    snapped,    \* guests that have a snapshot
    born,       \* guests made so far
    rows,       \* rows[r]: [vmid, name, running] as last polled, or NoRow
    cycle,      \* a poll's list of guests, not yet filed
    job,        \* job[q]: what request q queued, or where it stopped
    acted,     \* ghost: whom each job that acted meant, and whom it hit
    stirs

vmVars == <<guest, running, snapped, born, rows, cycle, job, acted, stirs>>
proxmox == <<guest, running, snapped, born>>

NoGuest == 0
NoRow == [vmid |-> 0]
NoCycle == [trusted |-> FALSE]
RowIds == 1..(MaxGuests + 1)
Deeds == {"vm.delete", "vm.snapshot_rollback", "vm.snapshot_create",
          "vm.snapshot_delete", "vm.clone"}

Alive == {guest[v] : v \in Vmids} \ {NoGuest}

VmInit ==
    /\ guest = [v \in Vmids |-> IF v = Min(Vmids) THEN 1 ELSE NoGuest]
    /\ running \in SUBSET {1}
    /\ snapped \in SUBSET {1}
    /\ born = 1
    /\ rows = [r \in RowIds |-> IF r = 1 THEN [vmid |-> Min(Vmids), name |-> 1,
                                               running |-> 1 \in running] ELSE NoRow]
    /\ cycle = NoCycle
    /\ job = [q \in Askers |-> [at |-> "idle"]]
    /\ acted = {}
    /\ stirs = 0

(***************************************************************************)
(* Routes                                                                  *)
(***************************************************************************)
Known(r) == rows[r] # NoRow

(* A destroy and a roll back want the name shown typed back, a destroy is  *)
(* also refused when the row says the guest runs.                          *)
Ask(q, deed, r) ==
    /\ job[q].at = "idle"
    /\ Known(r)
    /\ deed = "vm.delete" => ~rows[r].running
    /\ job' = [job EXCEPT ![q] = [at |-> "queued", kind |-> deed, row |-> r,
                                  asked |-> rows[r].vmid, meant |-> rows[r].name]]
    /\ UNCHANGED <<proxmox, rows, cycle, acted, stirs>>

(* cluster_nextid: advisory, the lowest id free at the moment. *)
NextId == Min({v \in Vmids : guest[v] = NoGuest})

AskCreate(q) ==
    /\ job[q].at = "idle"
    /\ \E v \in Vmids : guest[v] = NoGuest
    /\ job' = [job EXCEPT ![q] = [at |-> "resolved", kind |-> "vm.create",
                                  vmid |-> NextId, meant |-> NoGuest]]
    /\ UNCHANGED <<proxmox, rows, cycle, acted, stirs>>

(***************************************************************************)
(* Jobs                                                                    *)
(***************************************************************************)
(* _vm_target: the row as it is now; a row that went fails the job. *)
Resolve(q) ==
    /\ job[q].at = "queued"
    /\ job' = [job EXCEPT ![q] =
                 IF Known(job[q].row)
                 THEN [at |-> "resolved", kind |-> job[q].kind,
                       vmid |-> rows[job[q].row].vmid,
                       asked |-> job[q].asked, meant |-> job[q].meant]
                 ELSE [at |-> "failed"]]
    /\ UNCHANGED <<proxmox, rows, cycle, acted, stirs>>

End(q) == job' = [job EXCEPT ![q] = [at |-> "ended"]]

(* What Proxmox does with the call: it refuses to destroy or roll back a   *)
(* running guest, and to use a snapshot that is not there.                 *)
Allowed(deed, g) ==
    /\ g # NoGuest
    /\ deed \in {"vm.delete", "vm.snapshot_rollback"} => g \notin running
    /\ deed \in {"vm.snapshot_rollback", "vm.snapshot_delete"} => g \in snapped
    /\ deed = "vm.snapshot_create" => g \notin snapped
    /\ deed = "vm.clone" => born < MaxGuests /\ \E v \in Vmids : guest[v] = NoGuest

Acts(q, deed) ==
    LET v == job[q].vmid
        g == guest[v] IN
    /\ job[q].at = "resolved" /\ job[q].kind = deed
    /\ End(q)
    /\ IF Allowed(deed, g)
       THEN /\ acted' = acted \cup {[meant |-> job[q].meant, hit |-> g,
                                       asked |-> job[q].asked, vmid |-> v,
                                       alive |-> job[q].meant \in Alive]}
            /\ CASE deed = "vm.delete" ->
                      /\ guest' = [guest EXCEPT ![v] = NoGuest]
                      /\ snapped' = snapped \ {g}
                      /\ UNCHANGED <<running, born>>
                 [] deed = "vm.snapshot_create" ->
                      snapped' = snapped \cup {g} /\ UNCHANGED <<guest, running, born>>
                 [] deed = "vm.snapshot_delete" ->
                      snapped' = snapped \ {g} /\ UNCHANGED <<guest, running, born>>
                 [] deed = "vm.clone" ->
                      /\ born' = born + 1
                      /\ guest' = [guest EXCEPT ![NextId] = born + 1]
                      /\ UNCHANGED <<running, snapped>>
                 [] OTHER -> UNCHANGED proxmox
       ELSE UNCHANGED <<proxmox, acted>>
    /\ UNCHANGED <<rows, cycle, stirs>>

(* Proxmox rejects an id that was taken meanwhile, and nobody tries again. *)
Creates(q) ==
    /\ job[q].at = "resolved" /\ job[q].kind = "vm.create"
    /\ End(q)
    /\ IF guest[job[q].vmid] = NoGuest /\ born < MaxGuests
       THEN /\ born' = born + 1
            /\ guest' = [guest EXCEPT ![job[q].vmid] = born + 1]
            /\ UNCHANGED <<running, snapped>>
       ELSE UNCHANGED proxmox
    /\ UNCHANGED <<rows, cycle, acted, stirs>>

(***************************************************************************)
(* The mirror                                                              *)
(***************************************************************************)
BugTrusted(list) == TRUE

(* A list that may have left guests out deletes no row. *)
Trusted(list) == list.whole

(* A cycle's bulk read; a node that dropped out takes its guests with it. *)
PollReads ==
    /\ cycle = NoCycle
    /\ stirs < MaxStirs
    /\ stirs' = stirs + 1
    /\ \E seen \in SUBSET {v \in Vmids : guest[v] # NoGuest} :
         LET whole == seen = {v \in Vmids : guest[v] # NoGuest} IN
         cycle' = [trusted |-> Trusted([whole |-> whole]),
                   has |-> [v \in seen |-> [vmid |-> v, name |-> guest[v],
                                            running |-> guest[v] \in running]]]
    /\ UNCHANGED <<proxmox, rows, job, acted>>

(* The number the table gives next: one past the highest it holds. *)
NextRow(table) == 1 + Max({0} \cup {r \in RowIds : table[r] # NoRow})

(* ingest_cycle: rows of guests seen are refreshed by vmid, a trusted list *)
(* drops the others, and guests without a row get one.                     *)
PollFiles ==
    /\ cycle # NoCycle
    /\ LET has == cycle.has
           kept == [r \in RowIds |->
                      IF ~Known(r) THEN NoRow
                      ELSE IF rows[r].vmid \in DOMAIN has THEN has[rows[r].vmid]
                      ELSE IF cycle.trusted THEN NoRow ELSE rows[r]]
           new == DOMAIN has \ {kept[r].vmid : r \in RowIds}
           first == NextRow(rows)   \* inserts are flushed before deletes
       IN /\ first + Cardinality(new) - 1 <= Max(RowIds)
          /\ \E at \in Bijection(new, first..(first + Cardinality(new) - 1)) :
               rows' = [r \in RowIds |-> IF \E v \in new : at[v] = r
                                        THEN has[CHOOSE v \in new : at[v] = r] ELSE kept[r]]
    /\ cycle' = NoCycle
    /\ UNCHANGED <<proxmox, job, acted, stirs>>

(* In Proxmox itself: a guest is destroyed, made, started or stopped. *)
Stirred ==
    /\ stirs < MaxStirs
    /\ stirs' = stirs + 1
    /\ \E v \in Vmids :
         \/ /\ guest[v] # NoGuest /\ guest[v] \notin running
            /\ guest' = [guest EXCEPT ![v] = NoGuest]
            /\ UNCHANGED <<running, snapped, born>>
         \/ /\ guest[v] = NoGuest /\ born < MaxGuests
            /\ born' = born + 1
            /\ guest' = [guest EXCEPT ![v] = born + 1]
            /\ UNCHANGED <<running, snapped>>
         \/ /\ guest[v] # NoGuest
            /\ running' = (running \ {guest[v]}) \cup ({guest[v]} \ running)
            /\ UNCHANGED <<guest, snapped, born>>
    /\ UNCHANGED <<rows, cycle, job, acted>>

VmNext ==
    \/ \E q \in Askers : \/ AskCreate(q) \/ Resolve(q) \/ Creates(q)
                           \/ \E d \in Deeds : Acts(q, d) \/ \E r \in RowIds : Ask(q, d, r)
    \/ PollReads \/ PollFiles \/ Stirred

VmSpec == VmInit /\ [][VmNext]_vmVars

-----------------------------------------------------------------------------
(* TypeOK of the guests, their rows and their jobs. *)
VmTypeOK ==
    /\ guest \in [Vmids -> 0..MaxGuests]
    /\ running \subseteq 1..MaxGuests
    /\ born \in 1..MaxGuests
    /\ \A r \in RowIds : Known(r) => rows[r].vmid \in Vmids /\ rows[r].name \in 1..MaxGuests
    /\ stirs \in 0..MaxStirs

(* While the guest whose name was typed exists, the job acts on no other:  *)
(* rows are never renumbered or refilled under a guest that is still there.*)
HitsWhatWasMeant == \A s \in acted : s.hit = s.meant \/ ~s.alive

(* No two rows mirror one vmid. *)
OneRowEach ==
    \A r1, r2 \in RowIds : Known(r1) /\ Known(r2) /\ rows[r1].vmid = rows[r2].vmid => r1 = r2

(* Rows mirror guests one to one, and jobs act through them on the guest   *)
(* that was meant.                                                         *)
VmSound == VmTypeOK /\ HitsWhatWasMeant /\ OneRowEach

(* The job goes to the vmid its request was about: vm.delete carries it    *)
(* among its parameters, next to the row's id.                             *)
GoesWhereItWasSent == \A s \in acted : s.vmid = s.asked
=============================================================================
