------------------------------ MODULE MCEstate ------------------------------
(***************************************************************************)
(* What the routes edit on the nodes, and the jobs they queue for it:      *)
(* firewall, settings, storage and VMs; the update of Proxploy itself, and *)
(* the rollups of its readings; checked side by side.  No variable of one  *)
(* module is read by another, so a behaviour is one of them running while  *)
(* the others rest in one initial state.  Requests of every kind, and      *)
(* runs, are q1 and q2, which are interchangeable, and so are the          *)
(* datastores m1 and m2.                                                   *)
(***************************************************************************)
EXTENDS Firewall, NodeConfig, Storage, VmJobs, SelfUpdate, Metrics, TLC

CONSTANTS q1, q2, m1, m2

VARIABLE part   \* which of them runs
estateVars == <<part, firewallVars, nodeConfigVars, storageVars, vmVars, updateVars, metricsVars>>

EstateInit ==
  /\ part \in {"firewall", "settings", "storage", "vms", "update", "metrics"}
  /\ FirewallInit
  /\ part # "firewall" => registered = {}
  /\ NodeConfigInit
  /\ part # "settings" => role = {} /\ \A i \in IdeSlots : slots[i] = "empty"
  /\ StorageInit
  /\ part # "storage" => attached = {} /\ agreed = {} /\ ~jobOn
  /\ VmInit
  /\ part # "vms" => running = {} /\ snapped = {}
  /\ UpdateInit
  /\ part # "update" => good
  /\ MetricsInit

EstateNext ==
  /\ UNCHANGED part
  /\ \/ /\ part = "firewall" /\ FirewallNext
        /\ UNCHANGED <<nodeConfigVars, storageVars, vmVars, updateVars, metricsVars>>
     \/ /\ part = "settings" /\ NodeConfigNext
        /\ UNCHANGED <<firewallVars, storageVars, vmVars, updateVars, metricsVars>>
     \/ /\ part = "storage" /\ StorageNext
        /\ UNCHANGED <<firewallVars, nodeConfigVars, vmVars, updateVars, metricsVars>>
     \/ /\ part = "vms" /\ VmNext
        /\ UNCHANGED <<firewallVars, nodeConfigVars, storageVars, updateVars, metricsVars>>
     \/ /\ part = "update" /\ UpdateNext
        /\ UNCHANGED <<firewallVars, nodeConfigVars, storageVars, vmVars, metricsVars>>
     \/ /\ part = "metrics" /\ MetricsNext
        /\ UNCHANGED <<firewallVars, nodeConfigVars, storageVars, vmVars, updateVars>>

EstateSpec == EstateInit /\ [][EstateNext]_estateVars

Sym == Permutations({q1, q2}) \cup Permutations({m1, m2})

\* Each of two hosts of one cluster is registered at a node of its own.
McNodeOf == ("h1" :> "n1") @@ ("h2" :> "n2")
=============================================================================
