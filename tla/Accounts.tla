------------------------------ MODULE Accounts ------------------------------
(***************************************************************************)
(* Accounts, teams and roles (api/auth.py, api/teams.py, services/authz.py,*)
(* services/oidc.py's provisioning).  Requests run in threads: each reads  *)
(* and judges, commits, and only then brings the enforcer in memory up to  *)
(* date with the membership table, by patching it or by building another.  *)
(* An account is deactivated, reset or deleted together with its sessions, *)
(* while somebody may be signing in to it.                                 *)
(***************************************************************************)
EXTENDS Naturals, FiniteSets

CONSTANTS People, Threads, MaxDeeds
ASSUME AccountsAssumption == MaxDeeds \in Nat /\ People # {}

VARIABLES
  acct,      \* users: state, and how often its logins were ended
  member,    \* team_members: the role of each user in each team
  second,    \* a second team exists
  grants,    \* the enforcer's grouping rules
  built,     \* how often an enforcer was built
  live,      \* sessions not revoked
  tied,      \* users a key, a job, a schedule or an alert refers to
  req,       \* the requests
  raced,     \* users whose roles were written while the enforcer was being fixed
  founders,  \* accounts made without anybody's leave, since the table was last empty
  deeds
accountVars == <<acct, member, second, grants, built, live, tied, req, raced, founders, deeds>>

Roles == {"admin", "owner"}      \* viewer and operator may do nothing of this
Rank == [none |-> 0, admin |-> 2, owner |-> 3]
Teams == {"default", "second"}
Rule == People \X Teams \X Roles
Session == [u : People, era : Nat, late : BOOLEAN]
Ops == {"create", "provision", "login", "member", "remove", "new team", "drop team",
        "deactivate", "activate", "reset", "delete"}
NoReq == [op |-> "none", pc |-> "idle", u |-> CHOOSE u \in People : TRUE, t |-> "default",
          role |-> "none", was |-> "none", era |-> 0, first |-> FALSE, stale |-> FALSE, rows |-> {}, on |-> 0]
Request == [op : Ops \cup {"none"},
            pc : {"idle", "judged", "enrol", "drop", "sync", "add", "rebuild", "swap"},
            u : People, t : Teams, role : Roles \cup {"none"},
            was : Roles \cup {"none"},            \* the membership as it was read
            era : Nat, first : BOOLEAN,           \* nobody there to give leave
            stale : BOOLEAN,                      \* somebody committed since it judged
            rows : SUBSET Rule, on : Nat]         \* read for the enforcer, and for which
AccountsTypeOK ==
  /\ acct \in [People -> [st : {"none", "active", "inactive"}, era : Nat]]
  /\ member \in [Teams -> [People -> Roles \cup {"none"}]]
  /\ second \in BOOLEAN /\ grants \subseteq Rule /\ built \in Nat
  /\ live \subseteq Session /\ tied \subseteq People /\ req \in [Threads -> Request]
  /\ raced \subseteq People /\ founders \in Nat /\ deeds \in 0..MaxDeeds

RowsOf(u) == {<<u, t, member[t][u]>> : t \in {x \in Teams : member[x][u] # "none"}}
Rows == UNION {RowsOf(u) : u \in People}

\* Before the first visit, or with an owner who is signed in and somebody else.
AccountsInit ==
  /\ \E boss \in {NoReq.u}, other \in Roles \cup {"none"}, fresh, two \in BOOLEAN :
       /\ acct = [u \in People |-> [era |-> 0, st |->
                   IF fresh \/ (u # boss /\ other = "none") THEN "none" ELSE "active"]]
       /\ second = (two /\ ~fresh)
       /\ member = [t \in Teams |-> [u \in People |->
                     IF fresh \/ (u # boss /\ other = "none") \/ (t = "second" /\ ~two) THEN "none"
                     ELSE IF u = boss THEN "owner" ELSE other]]
       /\ live = IF fresh THEN {} ELSE {[u |-> boss, era |-> 0, late |-> FALSE]}
  /\ grants = Rows /\ built = 1 /\ tied = {}
  /\ req = [q \in Threads |-> NoReq] /\ raced = {} /\ founders = 0 /\ deeds = 0

-----------------------------------------------------------------------------
(* What a request reads.                                                   *)

Exists(u) == acct[u].st # "none"
SignedIn(u) == acct[u].st = "active" /\ \E s \in live : s.u = u
\* enforce, for what belongs to no team: any membership whose role suffices.
Enforce(u, role) ==
  \E t \in Teams, r \in Roles :
    member[t][u] # "none" /\ <<u, t, r>> \in grants /\ Rank[r] >= Rank[role]
May(by, role) == SignedIn(by) /\ Enforce(by, role)
IsOwner(u) == \E t \in Teams : member[t][u] = "owner"

Owners == {u \in People : IsOwner(u)}
ActiveOwners == {u \in Owners : acct[u].st = "active"}
\* _would_strand_the_install
Strands(u) == ActiveOwners \ {u} = {}
\* set_member and remove_member count the default team's owners, active or not.
LastOwner(t, u) ==
  t = "default" /\ member[t][u] = "owner" /\ Cardinality({x \in People : member[t][x] = "owner"}) <= 1

\* _first_run_lock is held over all of create_user.
LockFree == \A q \in Threads : req[q].op # "create"

\* The condition of each route, its permission included.
Admits(op, by, u, t, r) ==
  CASE op = "create" -> /\ LockFree /\ ~Exists(u) /\ t = "default"
                        /\ \/ (\A x \in People : ~Exists(x)) /\ r = "owner"
                           \/ /\ \E x \in People : Exists(x)
                              /\ May(by, "admin") /\ (r = "owner" => IsOwner(by))
    [] op = "provision" -> ~Exists(u) /\ (t = "second" => second) /\ r # "owner"
    [] op = "login" -> acct[u].st = "active" /\ r = "none"
    [] op = "member" -> /\ May(by, "owner") /\ Exists(u) /\ (t = "second" => second) /\ r # "none"
                        /\ LastOwner(t, u) => r = "owner"
    [] op = "remove" -> /\ May(by, "owner") /\ member[t][u] # "none" /\ ~LastOwner(t, u) /\ r = "none"
    [] op \in {"new team", "drop team"} -> /\ May(by, "owner") /\ second = (op = "drop team")
                                           /\ r = "none" /\ t = "second" /\ u = by
    [] op = "deactivate" -> May(by, "admin") /\ acct[u].st = "active" /\ u # by /\ ~Strands(u) /\ r = "none"
    [] op = "activate" -> May(by, "admin") /\ acct[u].st = "inactive" /\ r = "none"
    [] op = "reset" -> May(by, "admin") /\ Exists(u) /\ r = "none"
    [] op = "delete" -> May(by, "admin") /\ Exists(u) /\ u # by /\ ~Strands(u) /\ r = "none"
    [] OTHER -> FALSE

Free == {q \in Threads : req[q].pc = "idle" /\ deeds < MaxDeeds}
Judge(q, op, by, u, t, r) ==
  /\ Admits(op, by, u, t, r)
  /\ op \in {"login", "deactivate", "activate", "reset", "delete"} => t = "default"
  /\ deeds' = deeds + 1
  /\ req' = [req EXCEPT ![q] = [NoReq EXCEPT
       !.op = op, !.pc = "judged", !.u = u, !.t = t, !.was = member[t][u], !.era = acct[u].era,
       !.role = r, !.first = (op = "create" /\ \A x \in People : ~Exists(x))]]
  /\ UNCHANGED <<acct, member, second, grants, built, live, tied, raced, founders>>

-----------------------------------------------------------------------------
(* Commits.                                                                *)

Goes(q, pc) == req' = [p \in Threads |->
  IF p # q THEN [req[p] EXCEPT !.stale = @ \/ req[p].pc \in {"judged", "drop"}]
  ELSE IF pc = "idle" THEN NoReq ELSE [req[q] EXCEPT !.pc = pc]]
Refused(q) == /\ req' = [req EXCEPT ![q] = NoReq]
              /\ UNCHANGED <<acct, member, second, live, raced, founders>>
\* Somebody is about to fix what the enforcer says of u.
Fixing(q, u) == \E p \in Threads \ {q} :
  \/ req[p].pc \in {"sync", "add"} /\ req[p].u = u
  \/ req[p].pc \in {"rebuild", "swap"}
Writes(q, us) == raced' = raced \cup {u \in us : Fixing(q, u)}

\* A login in flight when its account's logins are ended is late.
Ending(u) == \E p \in Threads : req[p].u = u /\ req[p].op \in {"deactivate", "reset", "delete"}
                                /\ req[p].pc \in {"judged", "drop"}
Ended(u) == {s \in live : s.u # u}
EndLogins(u, st) ==
  /\ acct' = [acct EXCEPT ![u] = [st |-> st, era |-> @.era + 1]]
  /\ \E kept \in SUBSET {s \in live : s.u = u /\ s.late} : live' = Ended(u) \cup kept

CommitLogin(q, u) ==
  /\ req[q].op = "login"
  /\ IF Exists(u)
     THEN /\ Goes(q, "idle") /\ UNCHANGED <<acct, member, second, raced, founders>>
          /\ live' = live \cup {[u |-> u, era |-> req[q].era,
                                 late |-> req[q].era # acct[u].era \/ Ending(u)]}
     ELSE Refused(q)

\* create_user commits the account first and its membership after.
CommitCreate(q, u) ==
  /\ req[q].op = "create"
  /\ IF Exists(u) THEN Refused(q)
     ELSE /\ acct' = [acct EXCEPT ![u].st = "active"] /\ Goes(q, "enrol")
          /\ founders' = founders + (IF req[q].first THEN 1 ELSE 0)
          /\ UNCHANGED <<member, second, live, raced>>
Enrol(q) ==
  LET j == req[q] IN
  /\ j.pc = "enrol"
  /\ IF Exists(j.u) /\ member["default"][j.u] = "none"
     THEN /\ member' = [member EXCEPT !["default"][j.u] = j.role] /\ Writes(q, {j.u})
          /\ Goes(q, "sync") /\ UNCHANGED <<acct, second, live, founders>>
     ELSE Refused(q)
  /\ UNCHANGED <<grants, built, tied, deeds>>

\* _create_user of oidc.py: no role configured, no membership and not active;
\* otherwise both rows in one transaction.
CommitProvision(q, u) ==
  LET j == req[q] IN
  /\ j.op = "provision"
  /\ IF Exists(u) \/ (j.t = "second" /\ ~second) THEN Refused(q)
     ELSE /\ acct' = [acct EXCEPT ![u].st = IF j.role = "none" THEN "inactive" ELSE "active"]
          /\ IF j.role = "none" THEN Goes(q, "idle") /\ UNCHANGED <<member, raced>>
             ELSE /\ member' = [member EXCEPT ![j.t][u] = j.role]
                  /\ Writes(q, {u}) /\ Goes(q, "sync")
          /\ UNCHANGED <<second, live, founders>>

\* A row that was read is updated, and one that was not is inserted: either
\* fails if the table has changed meanwhile.
CommitMember(q, u) ==
  LET j == req[q] IN
  /\ j.op \in {"member", "remove"}
  /\ IF \/ j.op = "member" /\ (j.was = "none") # (member[j.t][u] = "none")
        \/ ~Exists(u) \/ (j.t = "second" /\ ~second)
     THEN Refused(q)
     ELSE /\ member' = [member EXCEPT ![j.t][u] = j.role] /\ Writes(q, {u})
          /\ Goes(q, "sync") /\ UNCHANGED <<acct, second, live, founders>>

CommitTeam(q) ==
  /\ \/ /\ req[q].op = "new team" /\ ~second /\ second' = TRUE
        /\ Goes(q, "idle") /\ UNCHANGED <<member, raced>>
     \/ /\ req[q].op = "drop team" /\ second /\ second' = FALSE
        /\ member' = [member EXCEPT !["second"] = [u \in People |-> "none"]]
        /\ Writes(q, {u \in People : member["second"][u] # "none"}) /\ Goes(q, "rebuild")
  /\ UNCHANGED <<acct, live, founders>>
TeamGone(q) == /\ \/ req[q].op = "new team" /\ second
                  \/ req[q].op = "drop team" /\ ~second
               /\ Refused(q)

CommitAccount(q, u) ==
  LET j == req[q] IN
  /\ j.op \in {"deactivate", "activate", "reset", "delete"}
  /\ IF ~Exists(u) THEN Refused(q)
     ELSE /\ CASE j.op = "activate" -> acct' = [acct EXCEPT ![u].st = "active"] /\ UNCHANGED live
               [] j.op = "deactivate" -> EndLogins(u, "inactive")
               [] OTHER -> EndLogins(u, acct[u].st)
          /\ Goes(q, IF j.op = "delete" THEN "drop" ELSE "idle")
          /\ UNCHANGED <<member, second, raced, founders>>

Commit(q) ==
  /\ req[q].pc = "judged"
  /\ \/ CommitLogin(q, req[q].u) \/ CommitCreate(q, req[q].u) \/ CommitProvision(q, req[q].u)
     \/ CommitMember(q, req[q].u) \/ CommitTeam(q) \/ TeamGone(q) \/ CommitAccount(q, req[q].u)
  /\ UNCHANGED <<grants, built, tied, deeds>>

\* The rest of delete_user: an account some row still names cannot go.
DropAccount(q) ==
  LET u == req[q].u IN
  /\ req[q].pc = "drop"
  /\ IF u \in tied \/ ~Exists(u) THEN Refused(q)
     ELSE /\ acct' = [acct EXCEPT ![u].st = "none"]
          /\ member' = [t \in Teams |-> [member[t] EXCEPT ![u] = "none"]]
          /\ live' = {s \in live : s.u # u} /\ Writes(q, {u}) /\ Goes(q, "rebuild")
          /\ founders' = IF \E x \in People \ {u} : Exists(x) THEN founders ELSE 0
          /\ UNCHANGED second
  /\ UNCHANGED <<grants, built, tied, deeds>>

-----------------------------------------------------------------------------
(* The enforcer.                                                           *)

BugCleared(u) == grants
Cleared(u) == {g \in grants : g[1] # u}
\* sync_user drops the user's rules, reads the table and adds what it says.
Refresh(q) ==
  LET j == req[q] IN
  /\ j.pc = "sync" /\ grants' = Cleared(j.u)
  /\ req' = [req EXCEPT ![q].pc = "add", ![q].rows = RowsOf(j.u), ![q].on = built]
  /\ UNCHANGED <<acct, member, second, built, live, tied, raced, founders, deeds>>
Add(q) ==
  /\ req[q].pc = "add" /\ req' = [req EXCEPT ![q] = NoReq]
  /\ grants' = IF req[q].on = built THEN grants \cup req[q].rows ELSE grants
  /\ UNCHANGED <<acct, member, second, built, live, tied, raced, founders, deeds>>
\* build_enforcer, and the assignment that puts the new one in force.
Rebuild(q) ==
  /\ req[q].pc = "rebuild" /\ req' = [req EXCEPT ![q].pc = "swap", ![q].rows = Rows]
  /\ UNCHANGED <<acct, member, second, grants, built, live, tied, raced, founders, deeds>>
Swap(q) ==
  /\ req[q].pc = "swap" /\ req' = [req EXCEPT ![q] = NoReq]
  /\ grants' = req[q].rows /\ built' = built + 1
  /\ UNCHANGED <<acct, member, second, live, tied, raced, founders, deeds>>

Logout(s) ==
  /\ live' = live \ {s} /\ deeds < MaxDeeds /\ deeds' = deeds + 1
  /\ UNCHANGED <<acct, member, second, grants, built, tied, req, raced, founders>>
\* A key, a job, a schedule, an edited script or an acknowledged alert.
Tie(u) ==
  /\ SignedIn(u) /\ u \notin tied /\ tied' = tied \cup {u}
  /\ deeds < MaxDeeds /\ deeds' = deeds + 1
  /\ UNCHANGED <<acct, member, second, grants, built, live, req, raced, founders>>
AccountsRestart ==
  /\ deeds < MaxDeeds /\ deeds' = deeds + 1 /\ req' = [q \in Threads |-> NoReq]
  /\ grants' = Rows /\ built' = built + 1 /\ raced' = {}
  /\ UNCHANGED <<acct, member, second, live, tied, founders>>

AccountSteps(q) == \/ Commit(q) \/ Enrol(q) \/ DropAccount(q)
                   \/ Refresh(q) \/ Add(q) \/ Rebuild(q) \/ Swap(q)
AccountsNext ==
  \/ AccountsRestart
  \/ \E q \in Threads : AccountSteps(q)
  \/ \E q \in Free, op \in Ops, by \in People, u \in People, t \in Teams,
        r \in Roles \cup {"none"} : Judge(q, op, by, u, t, r)
  \/ \E s \in live : Logout(s)
  \/ \E u \in People : Tie(u)
AccountsSpec == AccountsInit /\ [][AccountsNext]_accountVars

-----------------------------------------------------------------------------
(* Properties.                                                             *)

\* "team_members is authoritative and the enforcer is a pure function of it":
\* whoever's roles nobody is just writing has in force what the table says, also
\* when a team or an account comes back under an old id, unless two writes of
\* his roles overlapped.
GrantsFollow ==
  \A u \in People \ raced :
    (\A q \in Threads : /\ ~(req[q].pc \in {"sync", "add"} /\ req[q].u = u)
                        /\ req[q].pc \notin {"rebuild", "swap"})
      => {g \in grants : g[1] = u} = RowsOf(u)

\* Deactivating, resetting and deleting an account end every login that was not
\* under way meanwhile, and nobody inherits the sessions of a deleted account.
LoginsEnded == \A s \in live : Exists(s.u) /\ (s.era = acct[s.u].era \/ s.late)

\* Two first visits make one owner, until the last account is gone.
FoundedOnce == founders <= 1

\* Roles in force, sessions and the first account are what the tables say,
\* however requests overlap.
AccountsSound == AccountsTypeOK /\ GrantsFollow /\ LoginsEnded /\ FoundedOnce

\* "which is how you reach zero active owners through two individually allowed
\* steps": no step takes the last active owner away, unless another request
\* committed since it looked.
OwnerRemains ==
  [][ActiveOwners # {} /\ ActiveOwners' = {} => \E q \in Threads : req[q].stale]_accountVars
=============================================================================
