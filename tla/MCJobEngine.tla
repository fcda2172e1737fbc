----------------------------- MODULE MCJobEngine -----------------------------
(* JobEngine on small instances.  The jobs are plain ones, or an install    *)
(* with the reconciliations it can need, one for every life of the process. *)
EXTENDS JobEngineProofs, TLC

CONSTANTS p1, p2, i1, r1, r2

MCKind == (p1 :> "plain") @@ (p2 :> "plain")
          @@ (i1 :> "install") @@ (r1 :> "reconcile") @@ (r2 :> "reconcile")

\* Clients race over jobs that queue for a pool.
PlainJobs == {p1, p2}
PlainKind == [j \in PlainJobs |-> MCKind[j]]

\* An install, and a cancel, across one restart.
InstallJobs == {i1, r1, r2}
InstallKind == [j \in InstallJobs |-> MCKind[j]]
=============================================================================
