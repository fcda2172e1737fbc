----------------------------- MODULE MCScheduler -----------------------------
(* Scheduler on small instances: two rows, two periods, two releases. *)
EXTENDS Scheduler, TLC

\* A cron is its period.
MCNextFire(cron, t) == ((t \div cron) + 1) * cron

MCIds == {1, 2}
Runs(c) == [catchUp |-> c, badTarget |-> FALSE]
Draft(cron, kind, params) ==
  [cron |-> cron, kind |-> kind, params |-> params, enabled |-> TRUE, next |-> None]

\* The release everything is written under, and one that dropped a kind or
\* no longer parses a cron.
Whole == {[kinds |-> {"check", "backup"}, crons |-> {1, 2}]}
Upgraded == Whole \cup {[kinds |-> {"check"}, crons |-> {1, 2}],
                        [kinds |-> {"check", "backup"}, crons |-> {1}]}

\* A row each way: catching up or not, of a targeted kind or not.
PlainDraft == {Draft(1, "check", Runs(TRUE))}
TwoDrafts == {Draft(2, "check", Runs(TRUE)), Draft(1, "backup", Runs(FALSE))}
\* One whose params hold a target that is no number.
WithBadTarget == {Draft(1, "check", Runs(TRUE)),
                  Draft(2, "backup", [catchUp |-> TRUE, badTarget |-> TRUE])}

Retime == {[cron |-> 1], [cron |-> 2]}
Toggle == {[enabled |-> FALSE], [enabled |-> TRUE]}
AnyBody == Toggle \cup {[cron |-> 1], [kind |-> "check"], [params |-> [catchUp |-> TRUE, badTarget |-> TRUE]]}
=============================================================================
