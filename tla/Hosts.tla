------------------------------- MODULE Hosts -------------------------------
(***************************************************************************)
(* Enrolled hosts and their credentials (api/hosts.py).  A request probes  *)
(* the node, reads and judges, and commits later; enrol_peers commits the  *)
(* row first and its tokens after, ssh/verify waits for a root shell.      *)
(* Meanwhile other requests commit, certificates change, operators         *)
(* authorise keys, installs finish and the server may be killed.           *)
(***************************************************************************)
EXTENDS Naturals, FiniteSets, FiniteSetsExt

CONSTANTS Machines, Callers, MaxHosts, MaxKeys, MaxSteps
ASSUME HostsAssumption ==
  {MaxHosts, MaxKeys} \subseteq Nat \ {0} /\ MaxSteps \in Nat /\ "nobody" \notin Machines

VARIABLES
  cert, takes,     \* of each node: its certificate, the tokens it accepts
  authorised,      \* and the key in its authorized_keys
  host,            \* hosts with their host_credentials
  apps,            \* hosts that carry apps
  made,            \* SSH keys generated
  call,            \* the requests
  tried,           \* keys that opened a root shell
  rekeyed,           \* hosts whose key was replaced under a verification
  torn,            \* hosts whose tokens never followed their row
  unseen,          \* an app was forgotten that nobody was told of
  steps
nodeVars == <<cert, takes, authorised>>
pastVars == <<tried, rekeyed, torn, unseen>>
hostsVars == <<nodeVars, host, apps, made, call, pastVars, steps>>

Caps == {"monitoring", "lifecycle"}
Ids == 1..MaxHosts
Nobody == "nobody"
Names == Machines \cup {Nobody}
Certs == {1, 2}                        \* 0 is no pin
NoHost == [m |-> Nobody, name |-> Nobody, ident |-> Nobody, pin |-> 0, tokens |-> {}, ssh |-> 0,
           verified |-> FALSE, peer |-> FALSE, shown |-> 0]
HostRow == [m : Names, name : Names, ident : Names, pin : Certs \cup {0}, tokens : SUBSET Caps,
            ssh : 0..MaxKeys, verified : BOOLEAN, peer : BOOLEAN, shown : Certs \cup {0}]
NoCall == [op |-> "none", pc |-> "idle", id |-> 0, row |-> NoHost, tokens |-> {}, held |-> {},
           key |-> FALSE, read |-> 0, listed |-> FALSE]
HostOps == {"enrol", "peer", "rotate", "verify", "remove"}
Call == [op : HostOps \cup {"none"}, pc : {"idle", "judged", "copy"}, id : 0..MaxHosts,
         row : HostRow,                 \* the row about to be added
         tokens : SUBSET Caps, held : SUBSET Caps,  \* to be stored; there already
         key : BOOLEAN, read : 0..MaxKeys, listed : BOOLEAN]
HostsTypeOK ==
  /\ cert \in [Machines -> Certs] /\ takes \in [Machines -> SUBSET Caps]
  /\ authorised \in [Machines -> 0..MaxKeys] /\ host \in [Ids -> HostRow]
  /\ apps \subseteq Ids /\ made \in 0..MaxKeys
  /\ call \in [Callers -> Call] /\ tried \subseteq 1..MaxKeys
  /\ rekeyed \subseteq Ids /\ torn \subseteq Ids /\ unseen \in BOOLEAN /\ steps \in 0..MaxSteps

Enrolled == {i \in Ids : host[i].m # Nobody}
NextHost == IF Enrolled = {} THEN 1 ELSE Max(Enrolled) + 1

\* Nothing enrolled, or one host with every token and an SSH key, which an older
\* release did not pin; the tokens may have drifted apart.
HostsInit ==
  /\ cert = [m \in Machines |-> 1]
  /\ \E home \in Names, pin \in {0, 1}, drifted \in SUBSET Machines, done \in BOOLEAN :
       /\ home \notin drifted
       /\ home = Nobody => pin = 0 /\ drifted = {} /\ ~done
       /\ takes = [m \in Machines |-> IF m \in drifted THEN {"monitoring"} ELSE Caps]
       /\ authorised = [m \in Machines |-> IF m = home /\ done THEN 1 ELSE 0]
       /\ host = [i \in Ids |-> IF i # 1 \/ home = Nobody THEN NoHost ELSE
                   [NoHost EXCEPT !.m = home, !.name = home, !.ident = home, !.pin = pin,
                                  !.tokens = Caps, !.ssh = 1]]
  /\ apps = {} /\ made = 1 /\ call = [c \in Callers |-> NoCall]
  /\ tried = {} /\ rekeyed = {} /\ torn = {} /\ unseen = FALSE /\ steps = 0

-----------------------------------------------------------------------------
(* What a request probes and reads.                                        *)

\* _connect refuses another certificate than the pinned one, the node an unknown token.
Works(m, pin, cap) == pin \in {0, cert[m]} /\ cap \in takes[m]
Reaches(i) == "monitoring" \in host[i].tokens /\ Works(host[i].m, host[i].pin, "monitoring")

NameFree(n, i) == \A j \in Enrolled \ {i} : host[j].name # n
\* The skip rule goes by the identity on file, not by address or name.
AlreadyIn(m, i) == \E j \in Enrolled \ {i} : host[j].ident = m
\* A fingerprint the operator was shown must still be presented.
SameAsShown(shown, seen) == shown # 0 => seen = shown

FreeCallers == {c \in Callers : call[c].pc = "idle" /\ steps < MaxSteps}
Starts(c, r) ==
  /\ steps' = steps + 1
  /\ call' = [call EXCEPT ![c] = [r EXCEPT !.pc = "judged"]]

\* create_host up to its commit: the name, the probe, the pin on first use.
JudgeEnrol(c, m, n, given, known, key) ==
  /\ NameFree(n, 0) /\ Works(m, given, "monitoring")
  /\ \E pin \in IF given = 0 THEN {0, cert[m]} ELSE {given} :
       Starts(c, [NoCall EXCEPT !.op = "enrol", !.key = key, !.tokens = {"monitoring"},
         !.row = [NoHost EXCEPT !.m = m, !.name = n, !.ident = IF known THEN m ELSE Nobody, !.pin = pin]])
  /\ UNCHANGED <<nodeVars, host, apps, made, pastVars>>

\* enrol_peers for one node up to the commit of its row.
JudgePeer(c, i, m, shown) ==
  /\ i \in Enrolled /\ Reaches(i) /\ m # host[i].m
  /\ \E pin \in {0, cert[host[i].m]} :   \* the origin is pinned on the way
       host' = IF host[i].pin = 0 THEN [host EXCEPT ![i].pin = pin] ELSE host
  /\ ~AlreadyIn(m, i) /\ NameFree(m, 0) /\ Works(m, 0, "monitoring")
  /\ \E seen \in {0, cert[m]} :
       /\ SameAsShown(shown, seen)
       /\ Starts(c, [NoCall EXCEPT !.op = "peer",
            !.tokens = {t \in host[i].tokens : t = "monitoring" \/ t \in takes[m]},
            !.row = [NoHost EXCEPT !.m = m, !.name = m, !.ident = m, !.pin = seen,
                                   !.peer = TRUE, !.shown = shown]])
  /\ UNCHANGED <<nodeVars, apps, made, pastVars>>

\* rotate_credentials: the new token must work; unlabelled it is monitoring's,
\* and refused once that one is there.
JudgeRotate(c, i, cap, key) ==
  /\ i \in Enrolled /\ (cap # "none" \/ key)
  /\ LET slot == IF cap = "unsaid" THEN "monitoring" ELSE cap IN
       /\ cap # "none" => Works(host[i].m, host[i].pin, slot)
       /\ cap = "unsaid" => slot \notin host[i].tokens
       /\ Starts(c, [NoCall EXCEPT !.op = "rotate", !.id = i, !.tokens = {slot} \cap Caps,
                                  !.held = host[i].tokens, !.read = host[i].ssh, !.key = key])
  /\ UNCHANGED <<nodeVars, host, apps, made, pastVars>>

\* verify_ssh up to its wait; the executor takes the key from the store.
BeginVerify(c, i) ==
  /\ i \in Enrolled /\ host[i].ssh # 0
  /\ Starts(c, [NoCall EXCEPT !.op = "verify", !.id = i, !.read = host[i].ssh,
                            !.row.m = host[i].m])
  /\ UNCHANGED <<nodeVars, host, apps, made, pastVars>>

JudgeRemove(c, i, forget) ==
  /\ i \in Enrolled /\ (i \in apps => forget)
  /\ Starts(c, [NoCall EXCEPT !.op = "remove", !.id = i, !.listed = i \in apps])
  /\ UNCHANGED <<nodeVars, host, apps, made, pastVars>>

-----------------------------------------------------------------------------
(* Commits.                                                                *)

Answered(c) == call' = [call EXCEPT ![c] = NoCall]
\* A constraint, or a row that is gone, fails the whole transaction.
HostRefused(c, op, holds) ==
  /\ call[c].op = op /\ call[c].pc = "judged" /\ ~holds
  /\ Answered(c) /\ UNCHANGED <<nodeVars, host, apps, made, pastVars, steps>>

\* hosts.name is unique.
Unique(n) == NameFree(n, 0)
\* A key takes the place of the one a verification still waits for, on a host
\* whose id may be used again.
Under(i, key) == IF key /\ \E d \in Callers : call[d].op = "verify" /\ call[d].id = i
                 THEN rekeyed \cup {i} ELSE rekeyed
Fits(c) == NextHost \in Ids /\ (call[c].key => made < MaxKeys)

\* The row of create_host and its monitoring token are one commit.
CommitEnrol(c) ==
  /\ call[c].op = "enrol" /\ call[c].pc = "judged" /\ Unique(call[c].row.name) /\ Fits(c)
  /\ made' = IF call[c].key THEN made + 1 ELSE made
  /\ host' = [host EXCEPT ![NextHost] = [call[c].row EXCEPT
                !.tokens = call[c].tokens, !.ssh = IF call[c].key THEN made + 1 ELSE 0]]
  /\ rekeyed' = Under(NextHost, call[c].key)
  /\ Answered(c) /\ UNCHANGED <<nodeVars, apps, tried, torn, unseen, steps>>

CommitPeer(c) ==
  /\ call[c].op = "peer" /\ call[c].pc = "judged" /\ Unique(call[c].row.name) /\ Fits(c)
  /\ host' = [host EXCEPT ![NextHost] = call[c].row]
  /\ call' = [call EXCEPT ![c].pc = "copy", ![c].id = NextHost]
  /\ UNCHANGED <<nodeVars, apps, made, pastVars, steps>>
\* The second commit of a peer: one credential a capability, at most.
CopyTokens(c) ==
  /\ call[c].pc = "copy" /\ Answered(c)
  /\ LET i == call[c].id
         there == host[i].m = call[c].row.m /\ host[i].tokens \cap call[c].tokens = {}
     IN /\ host' = IF there THEN [host EXCEPT ![i].tokens = @ \cup call[c].tokens] ELSE host
        /\ torn' = IF there \/ i \notin Enrolled THEN torn ELSE torn \cup {i}
  /\ UNCHANGED <<nodeVars, apps, made, tried, rekeyed, unseen, steps>>

BugAfterRotation(was) == was
\* A new key is not on the node yet: enrolment starts over.
AfterRotation(was) == FALSE
\* What was read as absent is inserted, once per host and kind.
Storable(c) ==
  LET r == host[call[c].id] IN
    /\ call[c].id \in Enrolled /\ (call[c].tokens \cap r.tokens) \subseteq call[c].held
    /\ call[c].key => (call[c].read = 0 => r.ssh = 0) /\ made < MaxKeys
CommitRotate(c) ==
  /\ call[c].op = "rotate" /\ call[c].pc = "judged" /\ Storable(c)
  /\ made' = IF call[c].key THEN made + 1 ELSE made
  /\ LET i == call[c].id IN
       /\ host' = [host EXCEPT ![i] = [host[i] EXCEPT
                     !.tokens = host[i].tokens \cup call[c].tokens,
                     !.ssh = IF call[c].key THEN made + 1 ELSE host[i].ssh,
                     !.verified = IF call[c].key THEN AfterRotation(host[i].verified)
                                                 ELSE host[i].verified]]
       /\ rekeyed' = Under(i, call[c].key)
  /\ Answered(c) /\ UNCHANGED <<nodeVars, apps, tried, torn, unseen, steps>>

\* `true` ran as root with the key read before; the row on file is marked.
ShellOpens(c) == /\ call[c].id \in Enrolled /\ host[call[c].id].ssh # 0
                 /\ authorised[call[c].row.m] = call[c].read
CommitVerify(c) ==
  /\ call[c].op = "verify" /\ call[c].pc = "judged" /\ ShellOpens(c)
  /\ host' = [host EXCEPT ![call[c].id].verified = TRUE]
  /\ tried' = tried \cup {call[c].read}
  /\ Answered(c) /\ UNCHANGED <<nodeVars, apps, made, rekeyed, torn, unseen, steps>>

\* apps.host_id is ON DELETE RESTRICT: only the apps that were listed are dropped.
Restricted(c) == call[c].id \in apps => call[c].listed
CommitRemove(c) ==
  /\ call[c].op = "remove" /\ call[c].pc = "judged" /\ call[c].id \in Enrolled /\ Restricted(c)
  /\ LET i == call[c].id IN
       /\ host' = [host EXCEPT ![i] = NoHost]
       /\ apps' = apps \ {i} /\ unseen' = (unseen \/ (i \in apps /\ ~call[c].listed))
       /\ rekeyed' = rekeyed \ {i} /\ torn' = torn \ {i}
  /\ Answered(c) /\ UNCHANGED <<nodeVars, made, tried, steps>>

-----------------------------------------------------------------------------
(* Requests of one commit, the poller, and the world.                      *)

Once == steps < MaxSteps /\ steps' = steps + 1
Rename(i, n) ==                                         \* patch_host, one field each
  /\ i \in Enrolled /\ n # host[i].name /\ NameFree(n, i) /\ Once
  /\ host' = [host EXCEPT ![i].name = n, ![i].peer = FALSE]
  /\ UNCHANGED <<nodeVars, apps, made, call, pastVars>>
Repin(i, pin) ==
  /\ i \in Enrolled /\ pin # host[i].pin /\ Once
  /\ host' = [host EXCEPT ![i].pin = pin, ![i].shown = 0]
  /\ UNCHANGED <<nodeVars, apps, made, call, pastVars>>
\* The old identity stays on file until a cycle reads the new one.
Readdress(i, m) ==
  /\ i \in Enrolled /\ m # host[i].m /\ Once
  /\ host' = [host EXCEPT ![i].m = m, ![i].peer = FALSE]
  /\ UNCHANGED <<nodeVars, apps, made, call, pastVars>>
Identify(i) ==                                          \* ingest_cycle
  /\ i \in Enrolled /\ Reaches(i) /\ host[i].ident # host[i].m
  /\ host' = [host EXCEPT ![i].ident = host[i].m]
  /\ UNCHANGED <<nodeVars, apps, made, call, pastVars, steps>>
InstallLands(i) ==
  /\ i \in Enrolled \ apps /\ apps' = apps \cup {i} /\ Once
  /\ UNCHANGED <<nodeVars, host, made, call, pastVars>>
Recertified(m) ==
  /\ cert[m] = 1 /\ cert' = [cert EXCEPT ![m] = 2] /\ Once
  /\ UNCHANGED <<takes, authorised, host, apps, made, call, pastVars>>
Authorise(i) ==
  /\ i \in Enrolled /\ host[i].ssh \notin {0, authorised[host[i].m]} /\ Once
  /\ authorised' = [authorised EXCEPT ![host[i].m] = host[i].ssh]
  /\ UNCHANGED <<cert, takes, host, apps, made, call, pastVars>>
Killed ==
  /\ \E c \in Callers : call[c].pc # "idle"
  /\ call' = [c \in Callers |-> NoCall] /\ Once
  /\ torn' = torn \cup {call[c].id : c \in {d \in Callers : call[d].pc = "copy" /\ call[d].id \in Enrolled}}
  /\ UNCHANGED <<nodeVars, host, apps, made, tried, rekeyed, unseen>>

Requests(c) ==
  \/ \E m, n \in Machines, given \in Certs \cup {0}, known, key \in BOOLEAN :
       JudgeEnrol(c, m, n, given, known, key)
  \/ \E i \in Ids :
       \/ \E m \in Machines, shown \in Certs \cup {0} : JudgePeer(c, i, m, shown)
       \/ \E cap \in Caps \cup {"unsaid", "none"}, key \in BOOLEAN : JudgeRotate(c, i, cap, key)
       \/ BeginVerify(c, i)
       \/ \E forget \in BOOLEAN : JudgeRemove(c, i, forget)
Commits(c) ==
  \/ CommitEnrol(c) \/ CommitPeer(c) \/ CopyTokens(c) \/ CommitRotate(c) \/ CommitVerify(c)
  \/ CommitRemove(c)
  \/ call[c].op \in {"enrol", "peer"} /\ HostRefused(c, call[c].op, Unique(call[c].row.name) /\ Fits(c))
  \/ HostRefused(c, "rotate", Storable(c)) \/ HostRefused(c, "verify", ShellOpens(c))
  \/ HostRefused(c, "remove", call[c].id \in Enrolled /\ Restricted(c))
HostsNext ==
  \/ (\E c \in FreeCallers : Requests(c)) \/ (\E c \in Callers : Commits(c))
  \/ \E i \in Ids : \/ \E n \in Machines : Rename(i, n)
                    \/ \E pin \in Certs \cup {0} : Repin(i, pin)
                    \/ \E m \in Machines : Readdress(i, m)
                    \/ Identify(i) \/ InstallLands(i) \/ Authorise(i)
  \/ (\E m \in Machines : Recertified(m)) \/ Killed
HostsSpec == HostsInit /\ [][HostsNext]_hostsVars

-----------------------------------------------------------------------------
\* No row without the token every cycle needs, except in enrol_peers between its two
\* commits, and where the second never came: the window create_host says it closed.
EnrolledWhole ==
  \A i \in Enrolled \ torn :
    "monitoring" \in host[i].tokens \/ \E c \in Callers : call[c].pc = "copy" /\ call[c].id = i
\* A peer added against a certificate the operator was shown is pinned to that one,
\* whatever the node presented in between.
PinnedAsShown == \A i \in Enrolled : host[i].shown # 0 => host[i].pin = host[i].shown
\* Two overlapping requests never add the same node twice as a peer: the skip rule
\* is read before the commit, the name decides.
NoTwinPeers == \A i, j \in Enrolled : host[i].peer /\ host[j].peer /\ i # j => host[i].m # host[j].m
\* Verified means this key opened a root shell, as long as no verification was
\* waiting when the key was replaced.
VerifiedWasTried == \A i \in Enrolled \ rekeyed : host[i].verified => host[i].ssh \in tried
\* Removing a host forgets only apps its caller was told of.
ForgottenWereListed == ~unseen
\* What a host's row and credentials claim is what was checked when they were
\* written, whatever was committed between the check and the write.
HostsSound == /\ HostsTypeOK /\ EnrolledWhole /\ PinnedAsShown /\ NoTwinPeers
              /\ VerifiedWasTried /\ ForgottenWereListed

\* rotate_credentials: "leaving the old verified_at would claim a working root shell
\* Proxploy no longer has".  A verification that waits for its shell while the key is
\* replaced leaves just that.
NoShellClaimed == \A i \in Enrolled : host[i].verified => host[i].ssh \in tried
=============================================================================
