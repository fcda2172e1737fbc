----------------------------- MODULE AppScripts -----------------------------
(***************************************************************************)
(* One app's saved scripts, the catalog entry it came from and the updates *)
(* that move it along (services/appstore.py run_update and                 *)
(* mark_updates_available, services/catalog.py, the script and update      *)
(* routes of api/apps.py).  Upstream moves by itself; a refresh pins the   *)
(* entry to upstream's commit, a classification fetches the script pair of *)
(* the pinned commit, an update runs the pinned script in the container    *)
(* and records it minutes after it looked.  Nothing keeps two of them of a *)
(* kind apart.                                                             *)
(***************************************************************************)
EXTENDS Naturals, Sequences, FiniteSets, SequencesExt

CONSTANTS Updates,     \* app.update jobs
          Refreshes,   \* catalog.refresh jobs
          MaxSha,      \* upstream's commits are 1..MaxSha, 0 is none
          MaxEdits     \* requests, failures and uninstalls

ASSUME ScriptsAssumption == MaxSha \in Nat \ {0} /\ MaxEdits \in Nat

VARIABLES
  upstream,   \* the commit at upstream's HEAD
  entry,      \* the CatalogEntry row: its commit, its verdict, and the commit
              \* the verdict and the payload were fetched from
  reading,    \* the commit a classification is fetching, 0 for none
  refresh,    \* the refresh jobs
  app,        \* "catalog" (it has a slug), "adopted" (it has none) or "none"
  scripts,    \* AppScript rows, by version
  badge,      \* apps.update_available
  earned,     \* commits whose script has run to its end in the container
  upd,        \* the update jobs
  edits
scriptVars == <<upstream, entry, reading, refresh, app, scripts, badge, earned, upd, edits>>

Shas == 0..MaxSha
Script == [source : {"upstream", "edited"}, ref : Shas,
           how : {"install", "update", "edit", "revert"}]
NoRefresh == [pc |-> "idle", sha |-> 0, loaded |-> 0, want |-> 0]
NoUpdate == [pc |-> "idle", sha |-> 0, seen |-> 0, version |-> 0]
ScriptsTypeOK ==
  /\ upstream \in 1..MaxSha /\ reading \in Shas /\ badge \in Shas /\ earned \subseteq Shas
  /\ entry \in [sha : Shas, verdict : {"none", "yes", "no"}, made : Shas]
  /\ refresh \in [Refreshes -> [pc : {"idle", "head", "mark", "write"},
                                sha : Shas, loaded : Shas, want : Shas]]
  /\ app \in {"catalog", "adopted", "none"} /\ scripts \in Seq(Script)
  /\ upd \in [Updates -> [pc : {"idle", "queued", "running", "ran", "recording"},
                          sha : Shas, seen : Nat, version : Nat]]
  /\ edits \in 0..MaxEdits

Installed == [source |-> "upstream", ref |-> 1, how |-> "install"]
\* Installed from the catalog, adopted with a slug, or adopted without.
ScriptsInit ==
  /\ upstream = 1 /\ entry = [sha |-> 1, verdict |-> "yes", made |-> 1]
  /\ reading = 0 /\ refresh = [r \in Refreshes |-> NoRefresh]
  /\ \/ app = "catalog" /\ scripts = <<Installed>>
     \/ app \in {"catalog", "adopted"} /\ scripts = <<>>
  /\ badge = 0 /\ earned = {s.ref : s \in ToSet(scripts)}
  /\ upd = [u \in Updates |-> NoUpdate] /\ edits = 0

Edit == edits < MaxEdits /\ edits' = edits + 1

Latest == IF scripts = <<>> THEN [source |-> "none", ref |-> 0] ELSE Last(scripts)
\* pinned_ref
Pinned == Latest.ref
\* An adopted app reaches no entry: _update_state.
EntrySha == IF app = "catalog" THEN entry.sha ELSE 0

-----------------------------------------------------------------------------
(* The catalog.                                                            *)

UpstreamMoves ==
  /\ upstream < MaxSha /\ upstream' = upstream + 1
  /\ UNCHANGED <<entry, reading, refresh, app, scripts, badge, earned, upd, edits>>

\* head_sha: the commit every later request of this refresh names.
ReadHead(r) ==
  /\ refresh[r].pc = "idle"
  /\ refresh' = [refresh EXCEPT ![r] = [NoRefresh EXCEPT !.pc = "head", !.sha = upstream]]
  /\ UNCHANGED <<upstream, entry, reading, app, scripts, badge, earned, upd, edits>>

\* _upsert_skeleton: a commit that moved takes verdict and payload with it.
\* The job may fail here, its entry untouched.
Upsert(r) ==
  /\ refresh[r].pc = "head"
  /\ \/ /\ entry' = IF entry.sha = refresh[r].sha THEN entry
                    ELSE [sha |-> refresh[r].sha, verdict |-> "none", made |-> 0]
        /\ refresh' = [refresh EXCEPT ![r].pc = "mark"] /\ UNCHANGED edits
     \/ Edit /\ refresh' = [refresh EXCEPT ![r] = NoRefresh] /\ UNCHANGED entry
  /\ UNCHANGED <<upstream, reading, app, scripts, badge, earned, upd>>

\* mark_updates_available recomputes the badge from the newest script and the
\* entry, and writes it only where it differs from what it had loaded.
BugBehind(sha, pinned) == IF pinned \notin {0, sha} THEN sha ELSE badge
Behind(sha, pinned) == IF sha # 0 /\ pinned \notin {0, sha} THEN sha ELSE 0
MarkReads(r) ==
  /\ refresh[r].pc = "mark"
  /\ refresh' = [refresh EXCEPT ![r] =
       [@ EXCEPT !.pc = "write", !.loaded = badge, !.want = Behind(EntrySha, Pinned)]]
  /\ UNCHANGED <<upstream, entry, reading, app, scripts, badge, earned, upd, edits>>
MarkWrites(r) ==
  /\ refresh[r].pc = "write"
  /\ badge' = IF app # "none" /\ refresh[r].want # refresh[r].loaded
              THEN refresh[r].want ELSE badge
  /\ refresh' = [refresh EXCEPT ![r] = NoRefresh]
  /\ UNCHANGED <<upstream, entry, reading, app, scripts, earned, upd, edits>>

\* ensure_classified, from a card, an install or the backlog: the row is read
\* first and written when the files have come.
StartClassify ==
  /\ reading = 0 /\ entry.verdict = "none" /\ entry.sha # 0 /\ reading' = entry.sha
  /\ UNCHANGED <<upstream, entry, refresh, app, scripts, badge, earned, upd, edits>>
\* The pair came; a file is not there, and nothing is kept of it; or the
\* request raised and the row stays as it was.
Classify ==
  /\ reading # 0 /\ reading' = 0
  /\ \/ \E verdict \in {"yes", "no"} :
          entry' = [entry EXCEPT !.verdict = verdict, !.made = reading] /\ UNCHANGED edits
     \/ Edit /\ entry' = [entry EXCEPT !.verdict = "no"]
     \/ Edit /\ UNCHANGED entry
  /\ UNCHANGED <<upstream, refresh, app, scripts, badge, earned, upd>>

-----------------------------------------------------------------------------
(* What the routes say of an update.                                       *)

\* update_app
Refusal == CASE Latest.source = "edited" -> "edited"
             [] Latest.source # "edited" /\ (EntrySha = 0 \/ Pinned = 0) -> "nothing pinned"
             [] OTHER -> IF Pinned = EntrySha THEN "up to date" ELSE "go"
\* update_all_apps, its skips in their order
Skip == IF Latest.source = "edited" THEN "edited"
        ELSE IF EntrySha = 0 \/ Pinned = 0 THEN "nothing pinned"
        ELSE IF Pinned = EntrySha THEN "up to date" ELSE "go"
\* get_app_update: the badge as it is, and no update at all of an edited script
Offered == IF Latest.source = "edited" THEN [badge |-> 0, from |-> 0, diff |-> FALSE]
           ELSE [badge |-> badge, from |-> Pinned,
                 diff |-> Latest.source # "none" /\ EntrySha # 0 /\ Pinned # EntrySha]
\* _resolve_update, asked again when the job starts
BugResolvable == EntrySha # 0 /\ Pinned # EntrySha
Resolvable == /\ EntrySha # 0 /\ Latest.source # "edited"
              /\ Pinned # 0 /\ Pinned # EntrySha

-----------------------------------------------------------------------------
(* Requests.                                                               *)

\* update_app and update_all_apps enqueue; no job in flight is looked for.
AskUpdate(u) ==
  /\ app # "none" /\ upd[u].pc = "idle" /\ Refusal = "go" /\ Edit
  /\ upd' = [upd EXCEPT ![u] = [NoUpdate EXCEPT !.pc = "queued"]]
  /\ UNCHANGED <<upstream, entry, reading, refresh, app, scripts, badge, earned>>

\* put_app_script leaves the badge alone.
PutScript ==
  /\ app # "none" /\ Edit
  /\ scripts' = Append(scripts, [source |-> "edited", ref |-> 0, how |-> "edit"])
  /\ UNCHANGED <<upstream, entry, reading, refresh, app, badge, earned, upd>>

\* revert_app_script pins the entry's commit, and runs nothing.
Revert ==
  /\ EntrySha # 0 /\ entry.made # 0 /\ Edit
  /\ scripts' = Append(scripts, [source |-> "upstream", ref |-> entry.sha, how |-> "revert"])
  /\ badge' = 0
  /\ UNCHANGED <<upstream, entry, reading, refresh, app, earned, upd>>

\* The uninstall job takes the row, and the scripts with it.
AppGoes ==
  /\ app # "none" /\ Edit /\ app' = "none" /\ scripts' = <<>> /\ badge' = 0
  /\ UNCHANGED <<upstream, entry, reading, refresh, earned, upd>>

-----------------------------------------------------------------------------
(* The update job.                                                         *)

\* The job resolves for itself what it was asked for.
ResolveUpdate(u) ==
  /\ upd[u].pc = "queued"
  /\ upd' = [upd EXCEPT ![u] =
       IF app # "none" /\ Resolvable
       THEN [pc |-> "running", sha |-> entry.sha, seen |-> Len(scripts), version |-> 0]
       ELSE NoUpdate]
  /\ UNCHANGED <<upstream, entry, reading, refresh, app, scripts, badge, earned, edits>>

\* The script runs in the container, to its end or not; the container may be
\* missing before it.
Run(u) ==
  /\ upd[u].pc = "running"
  /\ \/ /\ app # "none" /\ earned' = earned \cup {upd[u].sha} /\ UNCHANGED edits
        /\ upd' = [upd EXCEPT ![u].pc = "ran"]
     \/ /\ IF app = "none" THEN UNCHANGED edits ELSE Edit
        /\ upd' = [upd EXCEPT ![u] = NoUpdate] /\ UNCHANGED earned
  /\ UNCHANGED <<upstream, entry, reading, refresh, app, scripts, badge>>

\* The container list is read again: another container that appeared fails
\* the job although its script ran.
CheckAfter(u) ==
  /\ upd[u].pc = "ran"
  /\ \/ /\ upd' = [upd EXCEPT ![u] = [@ EXCEPT !.pc = "recording", !.version = Len(scripts) + 1]]
        /\ UNCHANGED edits
     \/ Edit /\ upd' = [upd EXCEPT ![u] = NoUpdate]
  /\ UNCHANGED <<upstream, entry, reading, refresh, app, scripts, badge, earned>>

\* What _record files is what was resolved, not what the entry says now.
BugRecorded(u) == [source |-> "upstream", ref |-> entry.sha, how |-> "update"]
Recorded(u) == [source |-> "upstream", ref |-> upd[u].sha, how |-> "update"]
\* A version filed meanwhile, or an app that is gone, fails the insert.
RecordUpdate(u) ==
  /\ upd[u].pc = "recording"
  /\ IF app # "none" /\ Len(scripts) + 1 = upd[u].version
     THEN scripts' = Append(scripts, Recorded(u)) /\ badge' = 0
     ELSE UNCHANGED <<scripts, badge>>
  /\ upd' = [upd EXCEPT ![u] = NoUpdate]
  /\ UNCHANGED <<upstream, entry, reading, refresh, app, earned, edits>>

-----------------------------------------------------------------------------
UpdateSteps(u) == ResolveUpdate(u) \/ Run(u) \/ CheckAfter(u) \/ RecordUpdate(u)
RefreshSteps(r) == ReadHead(r) \/ Upsert(r) \/ MarkReads(r) \/ MarkWrites(r)
ScriptsNext ==
  \/ UpstreamMoves \/ StartClassify \/ Classify
  \/ PutScript \/ Revert \/ AppGoes
  \/ \E u \in Updates : AskUpdate(u) \/ UpdateSteps(u)
  \/ \E r \in Refreshes : RefreshSteps(r)
\* Jobs go on, and the daily schedule brings refreshes for ever.
ScriptsFair == /\ \A u \in Updates : WF_scriptVars(UpdateSteps(u))
               /\ \A r \in Refreshes : WF_scriptVars(RefreshSteps(r))
ScriptsSpec == ScriptsInit /\ [][ScriptsNext]_scriptVars /\ ScriptsFair

-----------------------------------------------------------------------------
(* Properties.                                                             *)

\* However requests, refreshes and updates interleave: every version that says
\* it is upstream's, a revert's apart, names a commit whose script ran to its
\* end in the container, and versions run on without a gap.
PinsEarned ==
  \A i \in DOMAIN scripts :
    scripts[i].how \in {"install", "update"} =>
      scripts[i].source = "upstream" /\ scripts[i].ref \in earned

\* A local edit is buried only by whoever was told of it: a later edit, a
\* revert, or an update that had looked before the edit was saved.
EditsSurvive ==
  [][ /\ Latest.source = "edited" /\ scripts' # scripts /\ app' # "none"
      /\ Last(scripts').how = "update"
      => \E u \in Updates : upd[u].pc = "recording" /\ upd[u].seen < Len(scripts) ]_scriptVars

\* The bulk route and the single one give one answer, whatever the app's
\* history, and an update is shown with a diff only if asking for it works.
OneAnswer == Skip = Refusal /\ (Offered.diff /\ Offered.from # 0 => Refusal = "go")

\* What is on record of an app's scripts, and what the routes answer from it,
\* is what was run.
ScriptsHonest == ScriptsTypeOK /\ PinsEarned /\ OneAnswer

\* Once nothing moves but the daily refresh, the badge tells what an update
\* would do: races between a refresh, an update, an edit and a revert leave it
\* wrong only until the next refresh.
BadgeSettles ==
  <>[](app # "none" => badge = IF Refusal = "go" THEN entry.sha ELSE 0)

\* The verdict and the payload of an entry are those of the commit it names:
\* not so while a refresh moves the row under a classification's requests.
ClassifiedAsPinned == entry.made \in {0, entry.sha}
=============================================================================
