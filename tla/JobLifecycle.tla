---------------------------- MODULE JobLifecycle ----------------------------
(***************************************************************************)
(* What jobs/backend.py promises the rest of the application, and nothing  *)
(* of how it keeps the promise: a job that has a row is executed at most   *)
(* once, always reaches a verdict, and the verdict is never replaced       *)
(* except that `unknown` may later become the answer a reconciliation got  *)
(* from the node.  JobEngine implements this specification.                *)
(***************************************************************************)
CONSTANT Jobs

VARIABLES
  stage,     \* "none", then "accepted", then maybe "executing", then "over"
  verdict    \* "open" until the job is over, then its status

vars == <<stage, verdict>>

Verdicts == {"succeeded", "failed", "canceled", "interrupted", "unknown"}

\* Verdicts that claim something about a run need a run to have happened.
NeedsRun == {"succeeded", "failed", "unknown"}

Init ==
  /\ stage = [j \in Jobs |-> "none"]
  /\ verdict = [j \in Jobs |-> "open"]

Accept(j) ==
  /\ stage[j] = "none"
  /\ stage' = [stage EXCEPT ![j] = "accepted"]
  /\ UNCHANGED verdict

Execute(j) ==
  /\ stage[j] = "accepted"
  /\ stage' = [stage EXCEPT ![j] = "executing"]
  /\ UNCHANGED verdict

Settle(j, v) ==
  /\ stage[j] \in {"accepted", "executing"}
  /\ v \in NeedsRun => stage[j] = "executing"
  /\ stage' = [stage EXCEPT ![j] = "over"]
  /\ verdict' = [verdict EXCEPT ![j] = v]

Resolve(j, v) ==
  /\ stage[j] = "over"
  /\ verdict[j] = "unknown"
  /\ v \in {"succeeded", "failed"}
  /\ verdict' = [verdict EXCEPT ![j] = v]
  /\ UNCHANGED stage

\* A boot settles every orphan of the process that died in one transaction.
SettleOrphans(S, v) ==
  /\ S # {}
  /\ \A j \in S : /\ stage[j] \in {"accepted", "executing"}
                  /\ v[j] \in {"interrupted", "unknown", "canceled"}
                  /\ v[j] \in NeedsRun => stage[j] = "executing"
  /\ stage' = [j \in Jobs |-> IF j \in S THEN "over" ELSE stage[j]]
  /\ verdict' = [j \in Jobs |-> IF j \in S THEN v[j] ELSE verdict[j]]

Next ==
  \/ \E j \in Jobs : Accept(j) \/ Execute(j)
  \/ \E j \in Jobs, v \in Verdicts : Settle(j, v) \/ Resolve(j, v)
  \/ \E S \in SUBSET Jobs :
       \E v \in [S -> {"interrupted", "unknown", "canceled"}] : SettleOrphans(S, v)

Spec == Init /\ [][Next]_vars

\* Every accepted job is over in the end.
Concludes == \A j \in Jobs : stage[j] = "accepted" ~> stage[j] = "over"

FairSpec == Spec /\ \A j \in Jobs : WF_vars(\E v \in Verdicts : Settle(j, v))
=============================================================================
