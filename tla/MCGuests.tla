------------------------------ MODULE MCGuests ------------------------------
(* TLC instances of GuestStatus: a container that jobs and outsiders act on, *)
(* and a VM on the cluster's other node.  The cfgs give the constants.       *)
EXTENDS GuestStatus
=============================================================================
