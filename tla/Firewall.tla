------------------------------ MODULE Firewall ------------------------------
(***************************************************************************)
(* Firewall scopes edited by several operators at once.                    *)
(*                                                                         *)
(* A scope (the cluster, a node, a guest, a security group) is one file on *)
(* Proxmox: an ordered rule list, options and IP sets.  A rule has no name *)
(* but its position, so a write that arrives after somebody else's edit    *)
(* would strike another rule: the page therefore carries the file's digest *)
(* and sends it back.  A node's scope is reached through a host row, and   *)
(* the route must decide whether that host speaks for the node.            *)
(***************************************************************************)
EXTENDS Naturals, Sequences, SequencesExt, FiniteSets

CONSTANTS
    Operators,   \* signed-in people editing firewalls
    Peers,       \* hosts that may be enrolled
    Shared,      \* scopes reached without naming a node
    Nodes,       \* nodes of the cluster, each a scope of its own
    NodeOf,      \* NodeOf[h]: the node host h is registered at
    Members,     \* addresses an IP set may hold
    MaxEdits     \* bound: writes that reach Proxmox

ASSUME FirewallConstants ==
    /\ NodeOf \in [Peers -> Nodes]
    /\ Shared \cap Nodes = {} /\ "none" \notin Shared \cup Nodes
    /\ MaxEdits \in Nat

VARIABLES
    file,       \* file[s]: the scope's rules, policy and one IP set
    page,       \* page[o]: what operator o last read
    registered, \* enrolled hosts
    snapshot,   \* snapshot[h]: nodes the last poll of h saw
    passed,     \* passed[o]: the node write o's request was let through to
    struck,     \* ghost: <<meant, hit>> per positional write
    trespass,   \* ghost: hosts let through to a node another host owned
    edits       \* writes so far

firewallVars == <<file, page, registered, snapshot, passed, struck, trespass, edits>>

Scopes == Shared \cup Nodes
NoPage == [scope |-> "none"]
NoPass == [node |-> "none"]
NoDigest == <<>>
Policies == {"ACCEPT", "DROP"}

File == [rules: Seq([id: Nat, on: BOOLEAN]), policy: Policies, set: SUBSET Members]

FirewallInit ==
    /\ file = [s \in Scopes |-> [rules |-> <<[id |-> 1, on |-> TRUE]>>,
                                 policy |-> "DROP", set |-> {}]]
    /\ page = [o \in Operators |-> NoPage]
    /\ registered \in SUBSET Peers
    /\ snapshot = [h \in Peers |-> {}]
    /\ passed = [o \in Operators |-> NoPass]
    /\ struck = {}
    /\ trespass = {}
    /\ edits = 0

(* Which objects a scope carries at all; anything else is a 404. *)
Carries(s, object) ==
    object \in IF s \in Nodes THEN {"rules", "options"}
               ELSE IF s = "group" THEN {"rules"}
               ELSE {"rules", "options", "sets"}

(* The digest sits on each rule row, so a scope without rules shows none.  *)
RulesDigest(f) == IF f.rules = <<>> THEN NoDigest ELSE <<f>>

(* One read answers with the rows and their digest together. *)
RulesRead(o, s) ==
    /\ Carries(s, "rules")
    /\ page' = [page EXCEPT ![o] =
                  [scope |-> s, rules |-> file[s].rules,
                   digest |-> RulesDigest(file[s])]]
    /\ UNCHANGED <<file, registered, snapshot, passed, struck, trespass, edits>>

(***************************************************************************)
(* Who speaks for a node                                                   *)
(***************************************************************************)
(* The nodes h's cluster reports: the poll's snapshot, or a live question  *)
(* when there is none; a question that fails answers no node.              *)
NodesSeen(h) == IF snapshot[h] # {} THEN {snapshot[h]} ELSE {Nodes, {}}

BugOwned(h, n) == FALSE

Owned(h, n) == \E k \in registered \ {h} : NodeOf[k] = n

SpeaksFor(h, n, seen) == n = NodeOf[h] \/ (n \in seen /\ ~Owned(h, n))

(* node_rule_*: the check, then the call to Proxmox in the same request.   *)
Admit(o, h, n) ==
    /\ passed[o] = NoPass
    /\ h \in registered
    /\ page[o].scope = n
    /\ \E seen \in NodesSeen(h) : SpeaksFor(h, n, seen)
    /\ passed' = [passed EXCEPT ![o] =
                    [node |-> n, alien |-> \E k \in registered \ {h} : NodeOf[k] = n
                                           /\ NodeOf[h] # n]]
    /\ UNCHANGED <<file, page, registered, snapshot, struck, trespass, edits>>

MayWrite(o, s) ==
    /\ edits < MaxEdits
    /\ s \in Nodes => passed[o].node = s

Spend(o, s) ==
    /\ edits' = edits + 1
    /\ passed' = [passed EXCEPT ![o] = NoPass]
    /\ trespass' = IF s \in Nodes /\ passed[o].alien
                   THEN trespass \cup {s} ELSE trespass
    /\ UNCHANGED <<registered, snapshot>>

(***************************************************************************)
(* Writes.  Proxmox refuses one whose digest is not the file's; the route  *)
(* answers 409 and the page is read again.                                 *)
(***************************************************************************)
(* An absent digest is left out of the call (_fw_params), and then nothing *)
(* is compared.                                                            *)
UpToDate(s, d) == d = NoDigest \/ d = <<file[s]>>

Positional(o, s, pos, rules) ==
    /\ page[o].scope = s
    /\ pos \in DOMAIN page[o].rules
    /\ MayWrite(o, s)
    /\ Spend(o, s)
    /\ page' = [page EXCEPT ![o] = NoPage]
    /\ LET lands == UpToDate(s, page[o].digest) /\ pos \in DOMAIN file[s].rules
       IN /\ file' = IF lands THEN [file EXCEPT ![s].rules = rules] ELSE file
          /\ struck' = IF lands
                       THEN struck \cup {<<page[o].rules[pos].id,
                                           file[s].rules[pos].id>>}
                       ELSE struck

RuleUpdate(o, s, pos) ==
    Positional(o, s, pos, [file[s].rules EXCEPT ![pos].on = ~@])

RuleMove(o, s, pos, to) ==
    /\ to # pos
    /\ LET rules == file[s].rules
           end == IF to <= Len(rules) THEN to ELSE Len(rules)
       IN Positional(o, s, pos, InsertAt(RemoveAt(rules, pos), end, rules[pos]))

RuleDelete(o, s, pos) ==
    Positional(o, s, pos, RemoveAt(file[s].rules, pos))

(* A new rule goes on top; a page of an empty scope has no digest to send. *)
RuleCreate(o, s) ==
    /\ page[o].scope = s
    /\ MayWrite(o, s)
    /\ Spend(o, s)
    /\ page' = [page EXCEPT ![o] = NoPage]
    /\ file' = IF UpToDate(s, page[o].digest)
               THEN [file EXCEPT ![s].rules = <<[id |-> edits + 2, on |-> TRUE]>> \o @]
               ELSE file
    /\ UNCHANGED struck

(* Only the option sent changes; the digest is the whole file's. *)
OptionsUpdate(o, s, policy) ==
    /\ Carries(s, "options")
    /\ page[o].scope = s
    /\ file[s].policy # policy
    /\ MayWrite(o, s)
    /\ Spend(o, s)
    /\ page' = [page EXCEPT ![o] = NoPage]
    /\ file' = IF UpToDate(s, page[o].digest)
               THEN [file EXCEPT ![s].policy = policy] ELSE file
    /\ UNCHANGED struck

MemberAdd(s, m) ==
    /\ Carries(s, "sets")
    /\ edits < MaxEdits
    /\ m \notin file[s].set
    /\ edits' = edits + 1
    /\ file' = [file EXCEPT ![s].set = @ \cup {m}]
    /\ UNCHANGED <<page, registered, snapshot, passed, struck, trespass>>

(* Proxmox refuses to delete a set that has members unless forced. *)
SetDelete(s, force) ==
    /\ Carries(s, "sets")
    /\ edits < MaxEdits
    /\ edits' = edits + 1
    /\ file' = IF force \/ file[s].set = {} THEN [file EXCEPT ![s].set = {}] ELSE file
    /\ UNCHANGED <<page, registered, snapshot, passed, struck, trespass>>

(***************************************************************************)
(* Around the routes: somebody edits in Proxmox itself, hosts are enrolled *)
(* and removed, a poll lands.                                              *)
(***************************************************************************)
EditedElsewhere(s) ==
    /\ edits < MaxEdits
    /\ edits' = edits + 1
    /\ \/ file' = [file EXCEPT ![s].rules = <<[id |-> edits + 2, on |-> TRUE]>> \o @]
       \/ file[s].rules # <<>> /\ file' = [file EXCEPT ![s].rules = Tail(@)]
    /\ UNCHANGED <<page, registered, snapshot, passed, struck, trespass>>

Polled(h) ==
    /\ h \in registered /\ snapshot[h] = {}
    /\ snapshot' = [snapshot EXCEPT ![h] = Nodes]
    /\ UNCHANGED <<file, page, registered, passed, struck, trespass, edits>>

Registers(h) ==
    /\ registered' = (registered \ {h}) \cup ({h} \ registered)
    /\ snapshot' = [snapshot EXCEPT ![h] = {}]
    /\ edits < MaxEdits
    /\ edits' = edits + 1
    /\ UNCHANGED <<file, page, passed, struck, trespass>>

FirewallNext ==
    \/ \E o \in Operators, s \in Scopes :
          \/ RulesRead(o, s) \/ RuleCreate(o, s)
          \/ \E p \in 1..(MaxEdits + 1) :
                \/ RuleUpdate(o, s, p) \/ RuleDelete(o, s, p)
                \/ \E t \in 1..(MaxEdits + 1) : RuleMove(o, s, p, t)
          \/ \E policy \in Policies : OptionsUpdate(o, s, policy)
    \/ \E o \in Operators, h \in Peers, n \in Nodes : Admit(o, h, n)
    \/ \E s \in Scopes : \/ EditedElsewhere(s)
                         \/ \E m \in Members : MemberAdd(s, m)
                         \/ \E force \in BOOLEAN : SetDelete(s, force)
    \/ \E h \in Peers : Polled(h) \/ Registers(h)

FirewallSpec == FirewallInit /\ [][FirewallNext]_firewallVars

-----------------------------------------------------------------------------
(* TypeOK of the firewall's state. *)
FirewallTypeOK ==
    /\ \A s \in Scopes : /\ file[s].policy \in Policies
                         /\ file[s].set \subseteq Members
                         /\ \A i \in DOMAIN file[s].rules : file[s].rules[i].on \in BOOLEAN
    /\ registered \subseteq Peers
    /\ \A h \in Peers : snapshot[h] \subseteq Nodes
    /\ edits \in 0..MaxEdits

(* An update, a move or a delete strikes the very rule its operator saw at *)
(* that position, whatever was edited in between, through Proxploy or not. *)
RightRule == \A hit \in struck : hit[1] = hit[2]

(* A host is never let through to the node of another enrolled host: one   *)
(* enrolled only after the check is the sole exception.                    *)
OwnNode == trespass = {}

(* Edits reach the rule and the node they were meant for. *)
FirewallSound == FirewallTypeOK /\ RightRule /\ OwnNode
=============================================================================
