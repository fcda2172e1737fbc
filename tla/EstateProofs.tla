----------------------------- MODULE EstateProofs -----------------------------
(***************************************************************************)
(* What requests edit on the nodes and storages, the jobs they queue for   *)
(* it, the update of the appliance and what it keeps of its readings,      *)
(* proved: for every number of requests, rules, uploads, guests, readings  *)
(* and steps each component keeps what its module calls sound.  Each       *)
(* section has the inductive invariant of one component, the lemmas it     *)
(* needs, one lemma per action or group of actions, and the theorem.       *)
(***************************************************************************)
EXTENDS Firewall, Storage, NodeConfig, VmJobs, SelfUpdate, Metrics, Extremes,
        SequenceTheorems, FiniteSetTheorems, TLAPS

-----------------------------------------------------------------------------
(***************************************************************************)
(* Firewall (api/firewall.py, services/firewall.py).  A page is as good as *)
(* its digest: the invariant says that it shows the rules of the file      *)
(* whose digest it carries.                                                *)
(***************************************************************************)
Rule == [id : Nat, on : BOOLEAN]
(* A page shows the rules of the file whose digest it carries, *)
PageHolds(o) ==
    page[o].scope \in Scopes =>
      /\ page[o].rules \in Seq(Rule)
      /\ page[o].rules # <<>> => page[o].digest # NoDigest /\ page[o].digest[1].rules = page[o].rules
(* and a request was let through to a node that no other host owns. *)
PassHolds(o) == passed[o].node \in Nodes => ~passed[o].alien
FirewallInv ==
    /\ file \in [Scopes -> File] /\ registered \subseteq Peers
    /\ snapshot \in [Peers -> SUBSET Nodes] /\ edits \in 0..MaxEdits
    /\ page = [o \in Operators |-> page[o]] /\ passed = [o \in Operators |-> passed[o]]
    /\ \A o \in Operators : PageHolds(o) /\ PassHolds(o)
    /\ RightRule /\ OwnNode

(* What the writes do to a list of rules. *)
LEMMA RulesRemoved ==
  ASSUME NEW q \in Seq(Rule), NEW i \in DOMAIN q
  PROVE  RemoveAt(q, i) \in Seq(Rule) /\ Len(RemoveAt(q, i)) = Len(q) - 1
  <1>1. i \in 1..Len(q) /\ Len(q) \in Nat /\ \A j \in 1..Len(q) : q[j] \in Rule
    BY LenProperties, ElementOfSeq
  <1>2. SubSeq(q, 1, i - 1) \in Seq(Rule) /\ Len(SubSeq(q, 1, i - 1)) = i - 1
    BY <1>1, SubSeqProperties
  <1>3. SubSeq(q, i + 1, Len(q)) \in Seq(Rule) /\ Len(SubSeq(q, i + 1, Len(q))) = Len(q) - i
    BY <1>1, SubSeqProperties
  <1> DEFINE a == SubSeq(q, 1, i - 1)
             b == SubSeq(q, i + 1, Len(q))
  <1>4. a \o b \in Seq(Rule) /\ Len(a \o b) = Len(a) + Len(b)
    BY <1>2, <1>3, ConcatProperties
  <1>5. RemoveAt(q, i) = a \o b
    BY DEF RemoveAt
  <1>6. Len(a) = i - 1 /\ Len(b) = Len(q) - i
    BY <1>2, <1>3
  <1> HIDE DEF a, b
  <1>7. Len(a) + Len(b) = Len(q) - 1
    BY <1>1, <1>6
  <1> QED
    BY <1>4, <1>5, <1>7

(* one is inserted at a place, *)
LEMMA RulesInserted ==
  ASSUME NEW q \in Seq(Rule), NEW i \in 1..(Len(q) + 1), NEW e \in Rule
  PROVE  InsertAt(q, i, e) \in Seq(Rule)
  <1>1. Len(q) \in Nat /\ \A j \in 1..Len(q) : q[j] \in Rule
    BY LenProperties, ElementOfSeq
  <1>2. SubSeq(q, 1, i - 1) \in Seq(Rule)
    BY <1>1, SubSeqProperties
  <1>3. SubSeq(q, i, Len(q)) \in Seq(Rule)
    BY <1>1, SubSeqProperties
  <1>4. <<e>> \in Seq(Rule)
    OBVIOUS
  <1> QED
    BY <1>2, <1>3, <1>4, ConcatProperties DEF InsertAt

(* one is switched on or off, *)
LEMMA RulesFlipped ==
  ASSUME NEW q \in Seq(Rule), NEW i \in DOMAIN q
  PROVE  [q EXCEPT ![i].on = ~q[i].on] \in Seq(Rule)
  <1>1. i \in 1..Len(q) /\ Len(q) \in Nat /\ q[i] \in Rule
    BY LenProperties, ElementOfSeq
  <1>2. [q[i] EXCEPT !.on = ~q[i].on] \in Rule
    BY <1>1 DEF Rule
  <1>3. [q EXCEPT ![i] = [q[i] EXCEPT !.on = ~q[i].on]] \in Seq(Rule)
    BY <1>1, <1>2
  <1> QED
    BY <1>3

(* and a new one is put on top. *)
LEMMA RulesTopped ==
  ASSUME NEW q \in Seq(Rule), NEW n \in Nat
  PROVE  <<[id |-> n, on |-> TRUE]>> \o q \in Seq(Rule)
  <1>1. [id |-> n, on |-> TRUE] \in Rule
    BY DEF Rule
  <1>2. <<[id |-> n, on |-> TRUE]>> \in Seq(Rule)
    BY <1>1
  <1> QED
    BY <1>2, ConcatProperties

(* A file that is edited is a file. *)
LEMMA FileEdited ==
  ASSUME file \in [Scopes -> File], NEW s \in Scopes
  PROVE  /\ \A q \in Seq(Rule) : [file EXCEPT ![s].rules = q] \in [Scopes -> File]
         /\ \A x \in Policies : [file EXCEPT ![s].policy = x] \in [Scopes -> File]
         /\ \A m \in SUBSET Members : [file EXCEPT ![s].set = m] \in [Scopes -> File]
         /\ file[s].set \subseteq Members
  <1>1. file[s] \in File
    OBVIOUS
  <1>2. \A q \in Seq(Rule) : [file[s] EXCEPT !.rules = q] \in File
    BY <1>1 DEF File, Rule
  <1>3. \A x \in Policies : [file[s] EXCEPT !.policy = x] \in File
    BY <1>1 DEF File
  <1>4. \A m \in SUBSET Members : [file[s] EXCEPT !.set = m] \in File
    BY <1>1 DEF File
  <1>5. file[s].set \subseteq Members
    BY <1>1 DEF File
  <1> QED
    BY <1>2, <1>3, <1>4, <1>5

(* Nodes nobody has opened a page of satisfy the invariant. *)
LEMMA FirewallInitInv == FirewallInit => FirewallInv
  <1> SUFFICES ASSUME FirewallInit PROVE FirewallInv
    OBVIOUS
  <1>1. <<[id |-> 1, on |-> TRUE]>> \in Seq(Rule)
    BY DEF Rule
  <1>2. file \in [Scopes -> File]
    BY <1>1 DEF FirewallInit, File, Rule, Policies
  <1>3. \A o \in Operators : PageHolds(o) /\ PassHolds(o)
    BY FirewallConstants DEF FirewallInit, PageHolds, PassHolds, NoPage, NoPass, Scopes
  <1> QED
    BY <1>2, <1>3, FirewallConstants DEF FirewallInit, FirewallInv, RightRule, OwnNode

(* A step about one scope and one page. *)
LEMMA Written ==
  ASSUME FirewallInv, NEW o \in Operators, NEW s \in Scopes, MayWrite(o, s), Spend(o, s),
         page' = [page EXCEPT ![o] = NoPage], file' \in [Scopes -> File], RightRule'
  PROVE  FirewallInv'
  <1>1. \A p \in Operators : PageHolds(p)'
    BY FirewallConstants DEF FirewallInv, PageHolds, NoPage, Scopes
  <1>2. passed' = [passed EXCEPT ![o] = NoPass] /\ edits' = edits + 1 /\ edits < MaxEdits
    BY DEF Spend, MayWrite
  <1>3. \A p \in Operators : PassHolds(p)'
    BY <1>2, FirewallConstants DEF FirewallInv, PassHolds, NoPass
  <1>4. s \in Nodes => ~passed[o].alien
    BY DEF FirewallInv, PassHolds, MayWrite
  <1>5. OwnNode'
    BY <1>4 DEF Spend, OwnNode, FirewallInv
  <1>6. page' = [p \in Operators |-> page'[p]] /\ passed' = [p \in Operators |-> passed'[p]]
    BY <1>2 DEF FirewallInv
  <1>7. edits' \in 0..MaxEdits /\ UNCHANGED <<registered, snapshot>>
    BY <1>2, FirewallConstants DEF FirewallInv, Spend
  <1> QED
    BY <1>1, <1>3, <1>5, <1>6, <1>7 DEF FirewallInv

(* A write to a position goes to the rule its page showed there. *)
LEMMA PositionalInv ==
  ASSUME FirewallInv, NEW o \in Operators, NEW s \in Scopes, NEW pos \in Nat, NEW rules,
         Positional(o, s, pos, rules),
         pos \in DOMAIN file[s].rules => rules \in Seq(Rule)
  PROVE  FirewallInv'
  <1>1. /\ page[o].scope = s /\ pos \in DOMAIN page[o].rules
        /\ MayWrite(o, s) /\ Spend(o, s) /\ page' = [page EXCEPT ![o] = NoPage]
    BY DEF Positional
  <1>2. PageHolds(o) /\ file \in [Scopes -> File] /\ RightRule
    BY DEF FirewallInv
  <1>3. CASE UpToDate(s, page[o].digest) /\ pos \in DOMAIN file[s].rules
    <2>1. /\ file' = [file EXCEPT ![s].rules = rules]
          /\ struck' = struck \cup {<<page[o].rules[pos].id, file[s].rules[pos].id>>}
      BY <1>3 DEF Positional
    <2>2. page[o].rules # <<>>
      BY <1>1, <1>2 DEF PageHolds
    <2>3. file[s].rules = page[o].rules
      BY <1>1, <1>2, <1>3, <2>2 DEF PageHolds, UpToDate
    <2>4. file' \in [Scopes -> File]
      BY <1>2, <1>3, <2>1 DEF File, Rule
    <2>5. RightRule'
      BY <1>2, <2>1, <2>3 DEF RightRule
    <2> QED
      BY <1>1, <2>4, <2>5, Written
  <1>4. CASE ~(UpToDate(s, page[o].digest) /\ pos \in DOMAIN file[s].rules)
    <2>1. file' = file /\ struck' = struck
      BY <1>4 DEF Positional
    <2> QED
      BY <1>1, <1>2, <2>1, Written DEF RightRule
  <1> QED
    BY <1>3, <1>4

(* A rule is edited, deleted or moved. *)
LEMMA RuleWritesInv ==
  ASSUME FirewallInv, NEW o \in Operators, NEW s \in Scopes, NEW pos \in 1..(MaxEdits + 1),
         \/ RuleUpdate(o, s, pos) \/ RuleDelete(o, s, pos)
         \/ \E t \in 1..(MaxEdits + 1) : RuleMove(o, s, pos, t)
  PROVE  FirewallInv'
  <1>0. pos \in Nat /\ file[s].rules \in Seq(Rule)
    BY FirewallConstants DEF FirewallInv, File, Rule
  <1>1. CASE RuleUpdate(o, s, pos)
    <2>1. pos \in DOMAIN file[s].rules =>
             [file[s].rules EXCEPT ![pos].on = ~file[s].rules[pos].on] \in Seq(Rule)
      BY <1>0, RulesFlipped
    <2> QED
      BY <1>0, <1>1, <2>1, PositionalInv DEF RuleUpdate
  <1>2. CASE RuleDelete(o, s, pos)
    BY <1>0, <1>2, PositionalInv, RulesRemoved DEF RuleDelete
  <1>3. ASSUME NEW t \in 1..(MaxEdits + 1), RuleMove(o, s, pos, t) PROVE FirewallInv'
    <2> DEFINE q == file[s].rules
               end == IF t <= Len(q) THEN t ELSE Len(q)
               moved == InsertAt(RemoveAt(q, pos), end, q[pos])
    <2>1. ASSUME pos \in DOMAIN q PROVE moved \in Seq(Rule)
      <3>1. /\ RemoveAt(q, pos) \in Seq(Rule) /\ Len(RemoveAt(q, pos)) = Len(q) - 1
        BY <1>0, <2>1, RulesRemoved
      <3>2. q[pos] \in Rule /\ Len(q) \in Nat /\ pos \in 1..Len(q)
        BY <1>0, <2>1, LenProperties, ElementOfSeq
      <3>3. end \in 1..(Len(RemoveAt(q, pos)) + 1)
        BY <3>1, <3>2, FirewallConstants
      <3> QED
        BY <3>1, <3>2, <3>3, RulesInserted
    <2>2. Positional(o, s, pos, moved)
      BY <1>3 DEF RuleMove
    <2> QED
      BY <1>0, <2>1, <2>2, PositionalInv
  <1> QED
    BY <1>1, <1>2, <1>3

(* A rule is added, or the options change. *)
LEMMA OtherWritesInv ==
  ASSUME FirewallInv, NEW o \in Operators, NEW s \in Scopes,
         RuleCreate(o, s) \/ \E policy \in Policies : OptionsUpdate(o, s, policy)
  PROVE  FirewallInv'
  <1>1. MayWrite(o, s) /\ Spend(o, s) /\ page' = [page EXCEPT ![o] = NoPage] /\ UNCHANGED struck
    BY DEF RuleCreate, OptionsUpdate
  <1>2. file \in [Scopes -> File] /\ RightRule /\ edits + 2 \in Nat
    BY FirewallConstants DEF FirewallInv
  <1>3. file[s].rules \in Seq(Rule)
    BY <1>2 DEF File, Rule
  <1>4. CASE RuleCreate(o, s)
    <2>1. PICK q \in Seq(Rule) : q = <<[id |-> edits + 2, on |-> TRUE]>> \o file[s].rules
      BY <1>2, <1>3, RulesTopped
    <2>2. file' \in {file, [file EXCEPT ![s].rules = q]}
      BY <1>4, <2>1 DEF RuleCreate
    <2>3. file' \in [Scopes -> File]
      BY <1>2, <2>2, FileEdited
    <2> QED
      BY <1>1, <1>2, <2>3, Written DEF RightRule
  <1>5. ASSUME NEW policy \in Policies, OptionsUpdate(o, s, policy) PROVE FirewallInv'
    <2>1. file' \in [Scopes -> File]
      BY <1>2, <1>5, FileEdited DEF OptionsUpdate
    <2> QED
      BY <1>1, <1>2, <2>1, Written DEF RightRule
  <1> QED
    BY <1>4, <1>5

(* A request is let through to a node. *)
LEMMA AdmitInv ==
  ASSUME FirewallInv, NEW o \in Operators, NEW h \in Peers, NEW n \in Nodes, Admit(o, h, n)
  PROVE  FirewallInv'
  <1>1. PICK b \in BOOLEAN : b = (\E k \in registered \ {h} : NodeOf[k] = n /\ NodeOf[h] # n)
    OBVIOUS
  <1>2. ~b
    BY <1>1 DEF Admit, SpeaksFor, Owned
  <1>3. passed' = [passed EXCEPT ![o] = [node |-> n, alien |-> b]]
    BY <1>1 DEF Admit
  <1>4. \A p \in Operators : PassHolds(p)'
    BY <1>2, <1>3 DEF FirewallInv, PassHolds
  <1>5. UNCHANGED <<file, page, registered, snapshot, struck, trespass, edits>>
    BY DEF Admit
  <1>6. \A p \in Operators : PageHolds(p)'
    BY <1>5 DEF FirewallInv, PageHolds, Scopes
  <1> QED
    BY <1>3, <1>4, <1>5, <1>6 DEF FirewallInv, RightRule, OwnNode

(* Every step keeps the invariant. *)
LEMMA FirewallStep == FirewallInv /\ [FirewallNext]_firewallVars => FirewallInv'
  <1> SUFFICES ASSUME FirewallInv, [FirewallNext]_firewallVars PROVE FirewallInv'
    OBVIOUS
  <1>0. ASSUME file' \in [Scopes -> File], UNCHANGED <<page, passed, struck, trespass>>,
               registered' \subseteq Peers, snapshot' \in [Peers -> SUBSET Nodes],
               edits' \in 0..MaxEdits
        PROVE  FirewallInv'
    <2>1. \A p \in Operators : PageHolds(p)' /\ PassHolds(p)'
      BY <1>0 DEF FirewallInv, PageHolds, PassHolds, Scopes
    <2> QED
      BY <1>0, <2>1 DEF FirewallInv, RightRule, OwnNode
  <1>a. /\ file \in [Scopes -> File] /\ edits \in 0..MaxEdits /\ edits + 2 \in Nat /\ MaxEdits \in Nat
        /\ registered \subseteq Peers /\ snapshot \in [Peers -> SUBSET Nodes]
    BY FirewallConstants DEF FirewallInv
  <1>1. ASSUME NEW o \in Operators, NEW s \in Scopes, RulesRead(o, s) PROVE FirewallInv'
    <2>1. /\ page' = [page EXCEPT ![o] = [scope |-> s, rules |-> file[s].rules,
                                          digest |-> RulesDigest(file[s])]]
          /\ UNCHANGED <<file, registered, snapshot, passed, struck, trespass, edits>>
      BY <1>1 DEF RulesRead
    <2>2. file[s].rules \in Seq(Rule)
      BY <1>a DEF File, Rule
    <2>3. PageHolds(o)'
      <3>1. page'[o].rules = file[s].rules /\ page'[o].digest = RulesDigest(file[s])
        BY <2>1 DEF FirewallInv
      <3>2. file[s].rules # <<>> => RulesDigest(file[s]) = <<file[s]>>
        BY DEF RulesDigest
      <3> QED
        BY <2>2, <3>1, <3>2 DEF PageHolds, NoDigest
    <2>4. \A p \in Operators \ {o} : PageHolds(p)'
      BY <2>1 DEF FirewallInv, PageHolds
    <2>5. \A p \in Operators : PassHolds(p)'
      BY <2>1 DEF FirewallInv, PassHolds
    <2> QED
      BY <2>1, <2>3, <2>4, <2>5 DEF FirewallInv, RightRule, OwnNode
  <1>2. ASSUME NEW s \in Scopes, EditedElsewhere(s) PROVE FirewallInv'
    <2>1. file[s].rules \in Seq(Rule)
      BY <1>a DEF File, Rule
    <2>2. PICK q \in Seq(Rule) : q = <<[id |-> edits + 2, on |-> TRUE]>> \o file[s].rules
      BY <1>a, <2>1, RulesTopped
    <2>3. PICK t \in Seq(Rule) : file[s].rules # <<>> => t = Tail(file[s].rules)
      BY <2>1, HeadTailProperties
    <2>4. file' \in {[file EXCEPT ![s].rules = q], [file EXCEPT ![s].rules = t]}
      BY <1>2, <2>2, <2>3 DEF EditedElsewhere
    <2>5. file' \in [Scopes -> File]
      BY <1>a, <2>4, FileEdited
    <2> QED
      BY <1>0, <1>2, <1>a, <2>5 DEF EditedElsewhere
  <1>3. ASSUME NEW s \in Scopes,
               (\E m \in Members : MemberAdd(s, m)) \/ \E forced \in BOOLEAN : SetDelete(s, forced)
        PROVE  FirewallInv'
    <2>1. ASSUME NEW m \in Members, MemberAdd(s, m) PROVE file' \in [Scopes -> File]
      <3>1. file[s].set \cup {m} \in SUBSET Members
        BY <1>a, FileEdited
      <3>2. file' = [file EXCEPT ![s].set = file[s].set \cup {m}]
        BY <2>1 DEF MemberAdd
      <3> QED
        BY <1>a, <3>1, <3>2, FileEdited
    <2>2. ASSUME NEW forced \in BOOLEAN, SetDelete(s, forced) PROVE file' \in [Scopes -> File]
      BY <1>a, <2>2, FileEdited DEF SetDelete
    <2> QED
      BY <1>0, <1>3, <1>a, <2>1, <2>2 DEF MemberAdd, SetDelete
  <1>4. ASSUME NEW h \in Peers, Polled(h) \/ Registers(h) PROVE FirewallInv'
    BY <1>0, <1>4, <1>a DEF Polled, Registers
  <1>5. CASE UNCHANGED firewallVars
    BY <1>0, <1>5, <1>a DEF firewallVars
  <1> QED
    BY <1>1, <1>2, <1>3, <1>4, <1>5, RuleWritesInv, OtherWritesInv, AdmitInv DEF FirewallNext

(* Firewall: whoever else edits a scope between the page and the click, here or on the *)
(* node, an update, a move or a delete strikes the rule its operator saw at that       *)
(* position, and no host is let through to the node of another that was enrolled by    *)
(* then.                                                                               *)
THEOREM FirewallIsSound == FirewallSpec => []FirewallSound
  <1>1. FirewallInv => FirewallSound
    <2> SUFFICES ASSUME FirewallInv PROVE FirewallSound
      OBVIOUS
    <2>1. \A s \in Scopes : /\ file[s].policy \in Policies /\ file[s].set \subseteq Members
                            /\ file[s].rules \in Seq(Rule)
      BY DEF FirewallInv, File, Rule
    <2>2. ASSUME NEW s \in Scopes, NEW i \in DOMAIN file[s].rules PROVE file[s].rules[i].on \in BOOLEAN
      <3>1. i \in 1..Len(file[s].rules)
        BY <2>1, LenProperties
      <3>2. file[s].rules[i] \in Rule
        BY <2>1, <3>1, ElementOfSeq
      <3> QED
        BY <3>2 DEF Rule
    <2> QED
      BY <2>1, <2>2 DEF FirewallInv, FirewallSound, FirewallTypeOK
  <1> QED
    BY <1>1, FirewallInitInv, FirewallStep, PTL DEF FirewallSpec

-----------------------------------------------------------------------------
(***************************************************************************)
(* Storage (api/storage.py, storagejobs).  What was looked at before a job *)
(* was queued may have changed when it lands: the invariant says what      *)
(* whoever may still detach or send was shown.                             *)
(***************************************************************************)
Uploading == {"idle", "refused", "spooling", "failed", "queued", "unqueued", "landed", "ended"}
(* Whoever may still detach was shown another target or no schedule, *)
DetachHolds(d) == detach[d].at = "asked" => Others(detach[d].by, detach[d].pool) # {} \/ ~detach[d].job
(* whoever may still send unasked found nothing under the name that stands *)
(* there now, *)
SendHolds(u) ==
    /\ upload[u] \in {"spooling", "queued"} /\ u \notin agreed =>
         volume = NoUpload \/ volume \notin sawLanded[u]
    /\ u \in landed => upload[u] \in {"landed", "ended"}
    /\ sawLanded[u] \subseteq landed
(* and whoever replaced a file is past its look. *)
StorageInv ==
    /\ attached \subseteq Pools /\ listed \in (SUBSET Pools) \cup {Unpolled}
    /\ reading \in (SUBSET Pools) \cup {NoRead} /\ jobOn \in BOOLEAN
    /\ detach = [d \in Detachers |-> detach[d]]
    /\ upload \in [Uploads -> Uploading] /\ sawLanded \in [Uploads -> SUBSET Uploads]
    /\ volume \in landed \cup {NoUpload} /\ landed \subseteq Uploads
    /\ spool \subseteq Uploads /\ changes \in 0..MaxChanges
    /\ \A d \in Detachers : DetachHolds(d)
    /\ \A u \in Uploads : SendHolds(u)
    /\ \A r \in replaced : r[1] \in Uploads /\ upload[r[1]] \in {"landed", "ended"}
    /\ StrandsOnlyStale /\ NeverUnasked /\ SpoolsOwned

(* An installation that uploaded nothing satisfies the invariant. *)
LEMMA StorageInitInv == StorageInit => StorageInv
  <1> SUFFICES ASSUME StorageInit PROVE StorageInv
    OBVIOUS
  <1>1. \A d \in Detachers : DetachHolds(d)
    BY DEF StorageInit, DetachHolds, NoDetach
  <1>2. \A u \in Uploads : SendHolds(u)
    BY DEF StorageInit, SendHolds
  <1>3. upload \in [Uploads -> Uploading] /\ sawLanded \in [Uploads -> SUBSET Uploads]
    BY DEF StorageInit, Uploading
  <1>4. StrandsOnlyStale /\ NeverUnasked /\ SpoolsOwned /\ changes \in 0..MaxChanges
    BY StorageAssumption DEF StorageInit, StrandsOnlyStale, NeverUnasked, SpoolsOwned
  <1>5. /\ attached \subseteq Pools /\ listed \in (SUBSET Pools) \cup {Unpolled}
        /\ reading \in (SUBSET Pools) \cup {NoRead} /\ jobOn \in BOOLEAN
    BY DEF StorageInit
  <1>6. detach = [d \in Detachers |-> detach[d]]
    BY DEF StorageInit
  <1>7. /\ volume \in landed \cup {NoUpload} /\ landed \subseteq Uploads /\ spool \subseteq Uploads
        /\ replaced = {}
    BY DEF StorageInit
  <1> QED
    BY <1>1, <1>2, <1>3, <1>4, <1>5, <1>6, <1>7 DEF StorageInv

(* A step about the definitions and the listing. *)
LEMMA PoolsStep ==
  ASSUME StorageInv, UNCHANGED volumeVars,
         attached' \subseteq Pools, listed' \in (SUBSET Pools) \cup {Unpolled},
         reading' \in (SUBSET Pools) \cup {NoRead}, jobOn' \in BOOLEAN, changes' \in 0..MaxChanges,
         detach' = [d \in Detachers |-> detach'[d]], \A d \in Detachers : DetachHolds(d)',
         StrandsOnlyStale'
  PROVE  StorageInv'
  <1>1. NeverUnasked' /\ SpoolsOwned' /\ \A u \in Uploads : SendHolds(u)'
    BY DEF StorageInv, volumeVars, NeverUnasked, SpoolsOwned, SendHolds
  <1> QED
    BY <1>1 DEF StorageInv, volumeVars

(* A detachment is judged, and removes. *)
LEMMA DetachInv ==
  ASSUME StorageInv, NEW d \in Detachers, DetachRemoves(d) \/ \E p \in Pools : DetachJudges(d, p)
  PROVE  StorageInv'
  <1>1. CASE DetachRemoves(d)
    <2> DEFINE p == detach[d].pool
    <2>1. /\ detach[d].at = "asked" /\ detach' = [detach EXCEPT ![d] = [at |-> "done"]]
          /\ UNCHANGED <<reading, jobOn, changes, volumeVars>>
          /\ Others(detach[d].by, p) # {} \/ ~detach[d].job
      BY <1>1 DEF DetachRemoves, StorageInv, DetachHolds
    <2>2. \A e \in Detachers : DetachHolds(e)'
      BY <2>1 DEF StorageInv, DetachHolds
    <2>3. CASE p \in attached
      <3>1. /\ attached' = attached \ {p} /\ Resynced(attached')
            /\ stranded' = IF jobOn /\ attached' = {}
                           THEN stranded \cup {[saw |-> detach[d].by, stood |-> attached,
                                                pool |-> p, job |-> detach[d].job]}
                           ELSE stranded
        BY <1>1, <2>3 DEF DetachRemoves
      <3>2. attached' \subseteq Pools /\ listed' \in (SUBSET Pools) \cup {Unpolled}
        BY <3>1 DEF Resynced, StorageInv
      <3>3. StrandsOnlyStale'
        <4>1. CASE jobOn /\ attached' = {}
          <5>1. detach[d].by # attached \/ ~detach[d].job
            BY <2>1, <3>1, <4>1 DEF Others
          <5> QED
            BY <3>1, <4>1, <5>1 DEF StrandsOnlyStale, StorageInv
        <4>2. CASE ~(jobOn /\ attached' = {})
          BY <3>1, <4>2 DEF StrandsOnlyStale, StorageInv
        <4> QED
          BY <4>1, <4>2
      <3> QED
        BY <2>1, <2>2, <3>2, <3>3, PoolsStep DEF StorageInv
    <2>4. CASE p \notin attached
      <3>1. UNCHANGED <<attached, listed, stranded>>
        BY <1>1, <2>4 DEF DetachRemoves
      <3> QED
        BY <2>1, <2>2, <3>1, PoolsStep DEF StorageInv, StrandsOnlyStale
    <2> QED
      BY <2>3, <2>4
  <1>2. ASSUME NEW p \in Pools, DetachJudges(d, p) PROVE StorageInv'
    <2>1. /\ detach' = [detach EXCEPT ![d] =
                IF Others(listed, p) = {} /\ jobOn THEN [at |-> "refused"]
                ELSE [at |-> "asked", pool |-> p, by |-> listed, job |-> jobOn]]
          /\ UNCHANGED <<attached, listed, reading, jobOn, stranded, changes, volumeVars>>
      BY <1>2 DEF DetachJudges
    <2>2. \A e \in Detachers : DetachHolds(e)'
      BY <2>1 DEF StorageInv, DetachHolds
    <2> QED
      BY <2>1, <2>2, PoolsStep DEF StorageInv, StrandsOnlyStale
  <1> QED
    BY <1>1, <1>2

(* The listing is read and stored, the schedule comes and goes, and pools are attached. *)
LEMMA ListingInv ==
  ASSUME StorageInv,
         ListingReads \/ ListingStores \/ ScheduleToggles \/ \E p \in Pools : Attach(p)
  PROVE  StorageInv'
  <1>1. /\ UNCHANGED <<volumeVars, detach, stranded>> /\ attached' \subseteq Pools
        /\ listed' \in (SUBSET Pools) \cup {Unpolled}
        /\ reading' \in (SUBSET Pools) \cup {NoRead} /\ jobOn' \in BOOLEAN /\ changes' \in 0..MaxChanges
    <2> USE DEF StorageInv
    <2>1. CASE ListingReads
      BY <2>1 DEF ListingReads
    <2>2. CASE ListingStores
      <3>1. /\ reading # NoRead /\ listed' = reading /\ reading' = NoRead
            /\ UNCHANGED <<attached, jobOn, detach, stranded, changes, volumeVars>>
        BY <2>2 DEF ListingStores
      <3>2. reading \in SUBSET Pools
        BY <3>1
      <3> QED
        BY <3>1, <3>2
    <2>3. CASE ScheduleToggles
      BY <2>3, StorageAssumption DEF ScheduleToggles
    <2>4. ASSUME NEW p \in Pools, Attach(p) PROVE <1>1!:
      <3>1. attached' \subseteq Pools /\ listed' \in (SUBSET Pools) \cup {Unpolled}
        BY <2>4 DEF Attach, Resynced
      <3> QED
        BY <2>4, <3>1, StorageAssumption DEF Attach
    <2> QED
      BY <2>1, <2>2, <2>3, <2>4
  <1>2. StrandsOnlyStale' /\ \A d \in Detachers : DetachHolds(d)'
    BY <1>1 DEF StorageInv, StrandsOnlyStale, DetachHolds
  <1> QED
    BY <1>1, <1>2, PoolsStep DEF StorageInv

(* A step of one upload before it lands, or after. *)
LEMMA UploadStep ==
  ASSUME StorageInv, NEW u \in Uploads, NEW s \in Uploading, Step(u, s),
         UNCHANGED <<volume, agreed, landed, replaced, changes, poolVars>>,
         sawLanded' = sawLanded \/ (upload[u] = "idle" /\ sawLanded' = [sawLanded EXCEPT ![u] = landed]),
         spool' \subseteq Uploads,
         \A v \in spool' : (v \in spool /\ v # u) \/ (v = u /\ s \in {"spooling", "queued", "landed", "unqueued"}),
         u \in landed => s \in {"landed", "ended"},
         upload[u] \in {"landed", "ended"} => s \in {"landed", "ended"},
         s \in {"spooling", "queued"} /\ u \notin agreed =>
           (upload[u] = "idle" /\ volume = NoUpload) \/ (upload[u] \in {"spooling", "queued"})
  PROVE  StorageInv'
  <1>1. upload' = [upload EXCEPT ![u] = s] /\ upload' \in [Uploads -> Uploading]
    BY DEF Step, StorageInv
  <1>2. sawLanded' \in [Uploads -> SUBSET Uploads]
    BY DEF StorageInv
  <1>3. SendHolds(u)'
    BY <1>1 DEF StorageInv, SendHolds
  <1>4. \A v \in Uploads \ {u} : SendHolds(v)'
    BY <1>1 DEF StorageInv, SendHolds
  <1>5. \A r \in replaced' : r[1] \in Uploads /\ upload'[r[1]] \in {"landed", "ended"}
    BY <1>1 DEF StorageInv
  <1>6. NeverUnasked'
    BY DEF StorageInv, NeverUnasked
  <1>7. SpoolsOwned'
    BY <1>1 DEF StorageInv, SpoolsOwned
  <1>8. StrandsOnlyStale' /\ \A d \in Detachers : DetachHolds(d)'
    BY DEF StorageInv, StrandsOnlyStale, DetachHolds, poolVars
  <1> QED
    BY <1>1, <1>2, <1>3, <1>4, <1>5, <1>6, <1>7, <1>8 DEF StorageInv, poolVars

(* An upload looks, spools, is queued, or ends. *)
LEMMA UploadsInv ==
  ASSUME StorageInv, NEW u \in Uploads,
         UploadLooks(u) \/ UploadAborts(u) \/ UploadQueues(u) \/ QueueFails(u) \/ UploadEnds(u)
  PROVE  StorageInv'
  <1>0. SendHolds(u) /\ spool \subseteq Uploads /\ SpoolsOwned
    BY DEF StorageInv
  <1>1. CASE UploadLooks(u)
    <2> DEFINE s == IF MayReplace(u) THEN "spooling" ELSE "refused"
    <2>1. /\ upload[u] = "idle" /\ Step(u, s) /\ sawLanded' = [sawLanded EXCEPT ![u] = landed]
          /\ spool' = IF MayReplace(u) THEN spool \cup {u} ELSE spool
          /\ UNCHANGED <<volume, agreed, landed, replaced, changes, poolVars>>
      BY <1>1 DEF UploadLooks
    <2>2. u \notin spool /\ u \notin landed
      BY <1>0, <2>1 DEF SpoolsOwned, SendHolds
    <2>3. /\ s \in Uploading /\ spool' \subseteq Uploads
          /\ \A v \in spool' : (v \in spool /\ v # u) \/ (v = u /\ s = "spooling")
          /\ s = "spooling" /\ u \notin agreed => volume = NoUpload
      BY <1>0, <2>1, <2>2 DEF MayReplace, Uploading
    <2>4. s \notin {"queued", "landed", "ended"}
      OBVIOUS
    <2> HIDE DEF s
    <2> QED
      BY <2>1, <2>2, <2>3, <2>4, UploadStep
  <1>2. CASE UploadAborts(u)
    <2>1. /\ upload[u] = "spooling" /\ Step(u, "failed") /\ spool' = spool \ {u}
          /\ UNCHANGED <<volume, agreed, landed, sawLanded, replaced, changes, poolVars>>
      BY <1>2 DEF UploadAborts, Dropped
    <2> QED
      BY <1>0, <2>1, UploadStep DEF SendHolds, Uploading
  <1>3. CASE UploadQueues(u)
    BY <1>0, <1>3, UploadStep DEF UploadQueues, SendHolds, Uploading
  <1>4. CASE QueueFails(u)
    BY <1>0, <1>4, UploadStep DEF QueueFails, SendHolds, Uploading
  <1>5. CASE UploadEnds(u)
    <2>1. /\ upload[u] \in {"queued", "landed"} /\ Step(u, "ended") /\ spool' = spool \ {u}
          /\ UNCHANGED <<volume, agreed, landed, sawLanded, replaced, changes, poolVars>>
      BY <1>5 DEF UploadEnds, Dropped
    <2> QED
      BY <1>0, <2>1, UploadStep DEF SendHolds, Uploading
  <1> QED
    BY <1>1, <1>2, <1>3, <1>4, <1>5

(* An upload lands on what stands under its name. *)
LEMMA LandsInv ==
  ASSUME StorageInv, NEW u \in Uploads, UploadLands(u)
  PROVE  StorageInv'
  <1>1. /\ upload[u] = "queued" /\ upload' = [upload EXCEPT ![u] = "landed"] /\ volume' = u
        /\ landed' = landed \cup {u}
        /\ replaced' = IF volume = NoUpload THEN replaced ELSE replaced \cup {<<u, volume>>}
        /\ UNCHANGED <<agreed, spool, sawLanded, changes, poolVars>>
    BY DEF UploadLands, Step
  <1>2. SendHolds(u) /\ u \notin landed /\ \A v \in Uploads : SendHolds(v)
    BY <1>1 DEF StorageInv, SendHolds
  <1>3. \A v \in Uploads : SendHolds(v)'
    BY <1>1, <1>2 DEF SendHolds, StorageInv
  <1>4. \A r \in replaced' : r[1] \in Uploads /\ upload'[r[1]] \in {"landed", "ended"}
    BY <1>1 DEF StorageInv
  <1>5. NeverUnasked'
    <2>1. volume # NoUpload => u \in agreed \/ volume \notin sawLanded[u]
      BY <1>1, <1>2 DEF SendHolds
    <2> QED
      BY <1>1, <2>1 DEF StorageInv, NeverUnasked
  <1>6. SpoolsOwned' /\ upload' \in [Uploads -> Uploading]
    BY <1>1 DEF StorageInv, SpoolsOwned, Uploading
  <1>7. StrandsOnlyStale' /\ \A d \in Detachers : DetachHolds(d)'
    BY <1>1 DEF StorageInv, StrandsOnlyStale, DetachHolds, poolVars
  <1> QED
    BY <1>1, <1>3, <1>4, <1>5, <1>6, <1>7 DEF StorageInv, poolVars

(* A volume is deleted on the node. *)
LEMMA DeletedInv == ASSUME StorageInv, VolumeDeleted \/ UNCHANGED storageVars PROVE StorageInv'
  <1>1. /\ UNCHANGED <<upload, agreed, spool, landed, sawLanded, replaced, poolVars>>
        /\ volume' \in {volume, NoUpload} /\ changes' \in 0..MaxChanges
    BY StorageAssumption DEF VolumeDeleted, StorageInv, storageVars, poolVars
  <1>2. \A v \in Uploads : SendHolds(v)'
    BY <1>1 DEF SendHolds, StorageInv
  <1>3. NeverUnasked' /\ SpoolsOwned'
    BY <1>1 DEF NeverUnasked, SpoolsOwned, StorageInv
  <1>4. StrandsOnlyStale' /\ \A d \in Detachers : DetachHolds(d)'
    BY <1>1 DEF StorageInv, StrandsOnlyStale, DetachHolds, poolVars
  <1> QED
    BY <1>1, <1>2, <1>3, <1>4 DEF StorageInv, poolVars

(* Storage: a file that nobody agreed to replace is replaced only if it landed after    *)
(* the sender had looked, a detachment strands a backup schedule only if the listing it *)
(* was judged by was not how things stood, and a spooled body stays on disk only while  *)
(* a request or a job has it, or because its job could not be queued.                   *)
THEOREM StorageIsSound == StorageSpec => []StorageSound
  <1>1. StorageInv /\ [StorageNext]_storageVars => StorageInv'
    BY DetachInv, ListingInv, UploadsInv, LandsInv, DeletedInv DEF StorageNext
  <1>2. StorageInv => StorageSound
    BY DEF StorageInv, StorageSound, StorageTypeOK
  <1> QED
    BY <1>1, <1>2, StorageInitInv, PTL DEF StorageSpec

-----------------------------------------------------------------------------
(***************************************************************************)
(* Settings on the nodes (api/network.py, api/vms.py, privrepair).  Each   *)
(* request reads, and writes a turn later: the invariant says what it      *)
(* carries from one to the other.                                          *)
(***************************************************************************)
Text == [Keys -> {"born", "new", "hand", Absent}]
(* What a request has read, and what it was asked. *)
EditHolds(e) ==
    /\ edit[e].at = "string" => /\ edit[e].ask \in Asks
                                /\ edit[e].read \in Text /\ edit[e].read["id"] = "born"
    /\ edit[e].at = "cdrom" => edit[e].slot \in IdeSlots /\ edit[e].saw # "disk"
    /\ edit[e].at = "role" => /\ edit[e].missing \subseteq Needed
                              /\ edit[e].existing \subseteq Needed \cup ByHand
NodeConfigInv ==
    /\ NodeConfigTypeOK /\ StringsKept /\ DisksKept /\ GrantsKept
    /\ edit = [e \in Editors |-> edit[e]] /\ \A e \in Editors : EditHolds(e)

(* Nodes nobody has edited satisfy the invariant. *)
LEMMA NodeConfigInitInv == NodeConfigInit => NodeConfigInv
  <1> SUFFICES ASSUME NodeConfigInit PROVE NodeConfigInv
    OBVIOUS
  <1>1. NodeConfigTypeOK
    BY NodeConfigAssumption DEF NodeConfigInit, NodeConfigTypeOK, Strings, Keys, Absent
  <1> QED
    BY <1>1 DEF NodeConfigInit, NodeConfigInv, StringsKept, DisksKept, GrantsKept, EditHolds, NoEdit,
       Strings, Keys

(* A request takes its next turn. *)
LEMMA TurnsInv ==
  ASSUME NodeConfigInv, NEW e \in Editors, NEW next, Turns(e, next),
         NodeConfigTypeOK', StringsKept', DisksKept', GrantsKept', EditHolds(e)'
  PROVE  NodeConfigInv'
  <1>1. \A d \in Editors \ {e} : EditHolds(d)'
    BY DEF NodeConfigInv, EditHolds, Turns
  <1> QED
    BY <1>1 DEF NodeConfigInv, Turns

(* A request reads before it writes. *)
LEMMA ReadsInv ==
  ASSUME NodeConfigInv, NEW e \in Editors,
         \/ \E s \in Strings, ask \in Asks : StringRead(e, s, ask)
         \/ CdromRead(e) \/ RepairReads(e) \/ Apply(e)
  PROVE  NodeConfigInv'
  <1>1. UNCHANGED <<text, slots, role, files, wiped, crushed, dropped>> /\ touches' \in 0..MaxTouches
    <2> USE NodeConfigAssumption DEF stringVars, cdVars, roleVars, fileVars, NodeConfigInv, NodeConfigTypeOK
    <2>1. ASSUME NEW s \in Strings, NEW ask \in Asks, StringRead(e, s, ask) PROVE <1>1!:
      BY <2>1 DEF StringRead
    <2>2. CASE CdromRead(e)
      BY <2>2 DEF CdromRead
    <2>3. CASE RepairReads(e)
      BY <2>3 DEF RepairReads
    <2>4. CASE Apply(e)
      BY <2>4 DEF Apply
    <2> QED
      BY <2>1, <2>2, <2>3, <2>4
  <1>2. NodeConfigTypeOK' /\ StringsKept' /\ DisksKept' /\ GrantsKept'
    BY <1>1 DEF NodeConfigInv, NodeConfigTypeOK, StringsKept, DisksKept, GrantsKept
  <1>3. ASSUME Turns(e, Done) PROVE NodeConfigInv'
    <2>1. EditHolds(e)'
      BY <1>3 DEF EditHolds, Turns, Done, NodeConfigInv
    <2> QED
      BY <1>2, <1>3, <2>1, TurnsInv
  <1>4. ASSUME NEW s \in Strings, NEW ask \in Asks,
               Turns(e, [at |-> "string", string |-> s, ask |-> ask, read |-> text[s]])
        PROVE  NodeConfigInv'
    <2>1. text[s] \in Text /\ text[s]["id"] = "born"
      BY DEF NodeConfigInv, NodeConfigTypeOK, StringsKept, Text
    <2>2. edit'[e] = [at |-> "string", string |-> s, ask |-> ask, read |-> text[s]]
      BY <1>4 DEF NodeConfigInv, Turns
    <2>3. EditHolds(e)'
      BY <2>1, <2>2 DEF EditHolds, Asks
    <2> QED
      BY <1>2, <1>4, <2>3, TurnsInv
  <1>5. ASSUME NEW i \in WriteSlot(slots), Turns(e, [at |-> "cdrom", slot |-> i, saw |-> slots[i]])
        PROVE  NodeConfigInv'
    <2>1. i \in IdeSlots /\ slots[i] # "disk"
      BY <1>5 DEF WriteSlot
    <2>2. EditHolds(e)'
      BY <1>5, <2>1 DEF EditHolds, Turns, NodeConfigInv
    <2> QED
      BY <1>2, <1>5, <2>2, TurnsInv
  <1>6. ASSUME NEW existing \in {role, {}},
               Turns(e, [at |-> "role", missing |-> Needed \ role, existing |-> existing])
        PROVE  NodeConfigInv'
    <2>1. EditHolds(e)'
      BY <1>6 DEF EditHolds, Turns, NodeConfigInv, NodeConfigTypeOK
    <2> QED
      BY <1>2, <1>6, <2>1, TurnsInv
  <1>7. ASSUME NEW s \in Strings, NEW ask \in Asks, StringRead(e, s, ask) PROVE NodeConfigInv'
    BY <1>3, <1>4, <1>7 DEF StringRead
  <1>8. CASE CdromRead(e)
    BY <1>3, <1>5, <1>8 DEF CdromRead
  <1>9. CASE RepairReads(e)
    BY <1>3, <1>6, <1>9 DEF RepairReads
  <1>10. CASE Apply(e)
    BY <1>3, <1>10 DEF Apply
  <1> QED
    BY <1>7, <1>8, <1>9, <1>10

(* A property string is written back, *)
LEMMA StringInv ==
  ASSUME NodeConfigInv, NEW e \in Editors, NEW s \in Strings, StringWritten(e, s)
  PROVE  NodeConfigInv'
  <1> DEFINE read == edit[e].read
             ask == edit[e].ask
  <1>1. /\ edit[e].at = "string" /\ text' = [text EXCEPT ![s] = Carried(read, ask)]
        /\ wiped' = wiped \cup {<<k, text[s][k] # read[k]>> :
                                  k \in {j \in Keys \ DOMAIN ask : text'[s][j] # text[s][j]}}
        /\ Turns(e, Done) /\ UNCHANGED <<cdVars, roleVars, fileVars, touches>>
    BY DEF StringWritten
  <1>2. ask \in Asks /\ read \in Text /\ read["id"] = "born"
    BY <1>1 DEF NodeConfigInv, EditHolds
  <1>3. DOMAIN ask \subseteq {"x", "y"} /\ \A k \in DOMAIN ask : ask[k] \in {"new", Absent}
    BY <1>2 DEF Asks
  <1>4. Carried(read, ask) \in Text
    BY <1>2, <1>3 DEF Carried, Text
  <1>5. Carried(read, ask)["id"] = "born"
    BY <1>2, <1>3 DEF Carried, Keys
  <1>6. NodeConfigTypeOK'
    BY <1>1, <1>4 DEF NodeConfigInv, NodeConfigTypeOK, Text, cdVars, roleVars, fileVars
  <1>7. \A j \in Keys \ DOMAIN ask : text'[s][j] = read[j]
    BY <1>1, <1>2 DEF Carried, NodeConfigInv, NodeConfigTypeOK
  <1>8. StringsKept'
    <2>1. \A r \in Strings : text'[r]["id"] = "born"
      BY <1>1, <1>5 DEF NodeConfigInv, NodeConfigTypeOK, StringsKept
    <2>2. ASSUME NEW k \in Keys \ DOMAIN ask, text'[s][k] # text[s][k]
          PROVE  text[s][k] # read[k]
      BY <1>7, <2>2
    <2>3. ASSUME NEW w \in wiped' PROVE w[2]
      <3>1. CASE w \in wiped
        BY <3>1 DEF NodeConfigInv, StringsKept
      <3>2. CASE w \notin wiped
        <4>1. PICK k \in {j \in Keys \ DOMAIN ask : text'[s][j] # text[s][j]} :
                w = <<k, text[s][k] # read[k]>>
          BY <1>1, <2>3, <3>2
        <4>2. PICK b \in BOOLEAN : b = (text[s][k] # read[k])
          OBVIOUS
        <4>3. w = <<k, b>> /\ b
          BY <2>2, <4>1, <4>2
        <4> QED
          BY <4>3
      <3> QED
        BY <3>1, <3>2
    <2> QED
      BY <2>1, <2>3 DEF StringsKept
  <1>9. DisksKept' /\ GrantsKept' /\ EditHolds(e)'
    BY <1>1 DEF NodeConfigInv, DisksKept, GrantsKept, EditHolds, cdVars, roleVars, Turns, Done
  <1> QED
    BY <1>1, <1>6, <1>8, <1>9, TurnsInv

(* a CD-ROM, *)
LEMMA CdromInv ==
  ASSUME NodeConfigInv, NEW e \in Editors, CdromWritten(e)
  PROVE  NodeConfigInv'
  <1> DEFINE i == edit[e].slot
  <1>1. /\ edit[e].at = "cdrom" /\ slots' = [slots EXCEPT ![i] = "cdrom"] /\ Turns(e, Done)
        /\ crushed' = IF slots[i] = "disk" THEN crushed \cup {<<i, edit[e].saw = "disk">>} ELSE crushed
        /\ UNCHANGED <<stringVars, roleVars, fileVars, touches>>
    BY DEF CdromWritten
  <1>2. i \in IdeSlots /\ edit[e].saw # "disk"
    BY <1>1 DEF NodeConfigInv, EditHolds
  <1>3. PICK b \in BOOLEAN : b = (edit[e].saw = "disk")
    OBVIOUS
  <1>4. crushed' = IF slots[i] = "disk" THEN crushed \cup {<<i, b>>} ELSE crushed
    BY <1>1, <1>3
  <1>5. DisksKept'
    <2>1. <<i, b>>[2] = b /\ ~b
      BY <1>2, <1>3
    <2> QED
      BY <1>4, <2>1 DEF NodeConfigInv, DisksKept
  <1>6. NodeConfigTypeOK'
    BY <1>1, <1>2 DEF NodeConfigInv, NodeConfigTypeOK, stringVars, roleVars, fileVars
  <1>7. StringsKept' /\ GrantsKept' /\ EditHolds(e)'
    BY <1>1 DEF NodeConfigInv, StringsKept, GrantsKept, EditHolds, stringVars, roleVars, Turns, Done
  <1> QED
    BY <1>1, <1>5, <1>6, <1>7, TurnsInv

(* and the role. *)
LEMMA RepairInv ==
  ASSUME NodeConfigInv, NEW e \in Editors, RepairRuns(e)
  PROVE  NodeConfigInv'
  <1>1. /\ edit[e].at = "role" /\ Turns(e, Done) /\ UNCHANGED <<stringVars, cdVars, fileVars, touches>>
        /\ edit[e].missing \subseteq Needed /\ edit[e].existing \subseteq Needed \cup ByHand
    BY DEF RepairRuns, NodeConfigInv, EditHolds
  <1>2. StringsKept' /\ DisksKept' /\ EditHolds(e)'
    BY <1>1 DEF NodeConfigInv, StringsKept, DisksKept, EditHolds, stringVars, cdVars, Turns, Done
  <1>3. CASE UNCHANGED <<role, dropped>>
    BY <1>1, <1>2, <1>3, TurnsInv
    DEF NodeConfigInv, NodeConfigTypeOK, GrantsKept, stringVars, cdVars, fileVars
  <1>4. CASE /\ role' = Union(edit[e].existing, edit[e].missing)
             /\ dropped' = dropped \cup {<<p, p \in edit[e].existing>> : p \in role \ role'}
    <2>1. NodeConfigTypeOK'
      BY <1>1, <1>4 DEF NodeConfigInv, NodeConfigTypeOK, Union, stringVars, cdVars, fileVars
    <2>2. ASSUME NEW d \in dropped' PROVE ~d[2]
      <3>1. CASE d \in dropped
        BY <3>1 DEF NodeConfigInv, GrantsKept
      <3>2. CASE d \notin dropped
        <4>1. PICK p \in role \ role' : d = <<p, p \in edit[e].existing>>
          BY <1>4, <2>2, <3>2
        <4>2. PICK b \in BOOLEAN : b = (p \in edit[e].existing)
          <5>1. (p \in edit[e].existing) \in BOOLEAN
            OBVIOUS
          <5> QED
            BY <5>1
        <4>3. d = <<p, b>> /\ ~b
          BY <1>4, <4>1, <4>2 DEF Union
        <4> QED
          BY <4>3
      <3> QED
        BY <3>1, <3>2
    <2> QED
      BY <1>1, <1>2, <2>1, <2>2, TurnsInv DEF GrantsKept
  <1> QED
    BY <1>3, <1>4 DEF RepairRuns

(* Bridges are staged, applied or reverted, and the node is edited elsewhere. *)
LEMMA NetworkInv ==
  ASSUME NodeConfigInv,
         (\E b \in Bridges : Stage(b)) \/ ApplyRuns \/ Revert \/ TouchedElsewhere \/ UNCHANGED nodeConfigVars
  PROVE  NodeConfigInv'
  <1>0. ASSUME UNCHANGED <<edit, wiped, crushed, dropped>>, NodeConfigTypeOK',
               \A s \in Strings : text'[s]["id"] = "born"
        PROVE  NodeConfigInv'
    BY <1>0 DEF NodeConfigInv, StringsKept, DisksKept, GrantsKept, EditHolds
  <1>1. ASSUME UNCHANGED <<text, slots, role, touches, edit, wiped, crushed, dropped>>,
               files' \in [live : SUBSET Bridges, staged : SUBSET Bridges]
        PROVE  NodeConfigInv'
    BY <1>0, <1>1 DEF NodeConfigInv, NodeConfigTypeOK, StringsKept
  <1>2. files \in [live : SUBSET Bridges, staged : SUBSET Bridges]
    BY DEF NodeConfigInv, NodeConfigTypeOK
  <1>3. ASSUME NEW b \in Bridges, Stage(b) PROVE NodeConfigInv'
    BY <1>1, <1>2, <1>3 DEF Stage, stringVars, cdVars, roleVars
  <1>4. CASE ApplyRuns
    BY <1>1, <1>2, <1>4 DEF ApplyRuns, stringVars, cdVars, roleVars
  <1>5. CASE Revert
    BY <1>1, <1>2, <1>5 DEF Revert, stringVars, cdVars, roleVars
  <1>6. CASE TouchedElsewhere
    <2>1. text' \in [Strings -> [Keys -> {"born", "new", "hand", Absent}]] /\ \A s \in Strings : text'[s]["id"] = "born"
      <3>1. \/ text' = text
            \/ \E s \in Strings, k \in {"x", "y"} : text' = [text EXCEPT ![s][k] = "hand"]
        BY <1>6 DEF TouchedElsewhere
      <3>2. text \in [Strings -> [Keys -> {"born", "new", "hand", Absent}]] /\ \A s \in Strings : text[s]["id"] = "born"
        BY DEF NodeConfigInv, NodeConfigTypeOK, StringsKept
      <3>3. ASSUME NEW s \in Strings, NEW k \in {"x", "y"}, text' = [text EXCEPT ![s][k] = "hand"]
            PROVE  /\ text' \in [Strings -> [Keys -> {"born", "new", "hand", Absent}]]
                   /\ \A r \in Strings : text'[r]["id"] = "born"
        BY <3>2, <3>3 DEF Keys
      <3> QED
        BY <3>1, <3>2, <3>3
    <2>2. slots' \in [IdeSlots -> {"empty", "cdrom", "disk"}]
      BY <1>6 DEF TouchedElsewhere, NodeConfigInv, NodeConfigTypeOK
    <2>3. role' \subseteq Needed \cup ByHand /\ touches' \in 0..MaxTouches
      BY <1>6, NodeConfigAssumption DEF TouchedElsewhere, NodeConfigInv, NodeConfigTypeOK
    <2>4. UNCHANGED <<edit, files, wiped, crushed, dropped>>
      BY <1>6 DEF TouchedElsewhere, fileVars
    <2> QED
      BY <1>0, <1>2, <2>1, <2>2, <2>3, <2>4 DEF NodeConfigTypeOK
  <1>7. CASE UNCHANGED nodeConfigVars
    BY <1>1, <1>2, <1>7 DEF nodeConfigVars
  <1> QED
    BY <1>3, <1>4, <1>5, <1>6, <1>7

(* Settings on the nodes: whatever others change between a reading and a writing, what  *)
(* a request did not ask to change survives it unless it was changed after the reading, *)
(* no disk is crushed that was in the slot when the slot was chosen, and a repair takes *)
(* no privilege the role held when it was read.                                         *)
THEOREM NodeConfigIsSound == NodeConfigSpec => []NodeConfigSound
  <1>1. NodeConfigInv /\ [NodeConfigNext]_nodeConfigVars => NodeConfigInv'
    BY ReadsInv, StringInv, CdromInv, RepairInv, NetworkInv DEF NodeConfigNext
  <1>2. NodeConfigInv => NodeConfigSound
    BY DEF NodeConfigInv, NodeConfigSound
  <1> QED
    BY <1>1, <1>2, NodeConfigInitInv, PTL DEF NodeConfigSpec

-----------------------------------------------------------------------------
(***************************************************************************)
(* VM jobs (api/vms.py, guestjobs).  A job names a row, the row a vmid,    *)
(* and the vmid a guest, each of them filed at another time: the invariant *)
(* says whom rows, lists and jobs still name.                              *)
(***************************************************************************)
(* If guest n lives at all, it is the one under v. *)
Only(v, n) == n \in Alive => guest[v] = n
RowMirrors(r) ==
    Known(r) => rows[r].vmid \in Vmids /\ rows[r].name \in 1..born /\ Only(rows[r].vmid, rows[r].name)
(* A list that is not filed yet still names the guests the rows name. *)
CycleMirrors ==
    cycle = NoCycle \/
      /\ cycle.trusted \in BOOLEAN /\ DOMAIN cycle.has \subseteq Vmids
      /\ \A v \in DOMAIN cycle.has :
           /\ cycle.has[v].vmid = v /\ cycle.has[v].name \in 1..born /\ Only(v, cycle.has[v].name)
      /\ \A r \in RowIds : Known(r) /\ rows[r].name \in Alive =>
           /\ rows[r].vmid \in DOMAIN cycle.has => cycle.has[rows[r].vmid].name = rows[r].name
           /\ cycle.trusted => rows[r].vmid \in DOMAIN cycle.has
(* A job goes to a row that still shows whom it means, then to its vmid. *)
JobMeans(q) ==
    /\ job[q].at = "queued" =>
         /\ job[q].row \in RowIds /\ job[q].meant \in 1..born
         /\ job[q].meant \in Alive => Known(job[q].row) /\ rows[job[q].row].name = job[q].meant
    /\ job[q].at = "resolved" /\ job[q].kind \in Deeds =>
         /\ job[q].vmid \in Vmids /\ job[q].meant \in 1..born /\ Only(job[q].vmid, job[q].meant)
VmInv ==
    /\ guest \in [Vmids -> 0..born] /\ born \in 1..MaxGuests /\ running \subseteq 1..MaxGuests
    /\ \A v, w \in Vmids : guest[v] # NoGuest /\ guest[v] = guest[w] => v = w
    /\ rows = [r \in RowIds |-> rows[r]] /\ \A r \in RowIds : RowMirrors(r)
    /\ CycleMirrors /\ stirs \in 0..MaxStirs
    /\ job = [q \in Askers |-> job[q]] /\ \A q \in Askers : JobMeans(q)
    /\ HitsWhatWasMeant /\ OneRowEach

(* A host that was never polled satisfies the invariant. *)
LEMMA VmInitInv == VmInit => VmInv
  <1> SUFFICES ASSUME VmInit PROVE VmInv
    OBVIOUS
  <1>1. Min(Vmids) \in Vmids /\ 1 \in RowIds /\ Min(Vmids) # 0
    <2>1. Vmids \subseteq Nat /\ Vmids # {} /\ 0 \notin Vmids /\ 1 \in RowIds
      BY VmAssumption DEF RowIds
    <2>2. Min(Vmids) \in Vmids
      BY <2>1, LeastIs
    <2> QED
      BY <2>1, <2>2
  <1>2. /\ guest \in [Vmids -> 0..born] /\ born = 1 /\ born \in 1..MaxGuests /\ running \subseteq 1..MaxGuests
        /\ \A v, w \in Vmids : guest[v] # NoGuest /\ guest[v] = guest[w] => v = w
        /\ guest[Min(Vmids)] = 1
    BY <1>1, VmAssumption DEF VmInit, NoGuest
  <1>3. \A r \in RowIds : Known(r) => r = 1
    BY DEF VmInit, Known
  <1>4. rows[1].vmid = Min(Vmids) /\ rows[1].name = 1
    BY <1>1 DEF VmInit
  <1>5. \A r \in RowIds : RowMirrors(r)
    BY <1>1, <1>2, <1>3, <1>4 DEF RowMirrors, Only
  <1>6. OneRowEach
    BY <1>3 DEF OneRowEach
  <1>7. \A q \in Askers : JobMeans(q)
    BY DEF VmInit, JobMeans
  <1>8. rows = [r \in RowIds |-> rows[r]] /\ job = [q \in Askers |-> job[q]]
    BY DEF VmInit
  <1>9. CycleMirrors /\ HitsWhatWasMeant /\ stirs \in 0..MaxStirs
    BY VmAssumption DEF VmInit, CycleMirrors, HitsWhatWasMeant
  <1> QED
    BY <1>2, <1>5, <1>6, <1>7, <1>8, <1>9 DEF VmInv

(* Guests go, and new ones come: what rows, lists and jobs say stays true. *)
LEMMA GuestsMove ==
  ASSUME VmInv, UNCHANGED <<rows, cycle>>, born' \in 1..MaxGuests, born <= born',
         running' \subseteq 1..MaxGuests, guest' \in [Vmids -> 0..born'],
         \A v \in Vmids : guest'[v] \in {guest[v], NoGuest} \/ guest'[v] > born,
         \A v, w \in Vmids : guest'[v] # NoGuest /\ guest'[v] = guest'[w] => v = w,
         job' = [q \in Askers |-> job'[q]],
         \A q \in Askers : job'[q] = job[q] \/ job'[q].at = "ended",
         stirs' \in 0..MaxStirs, HitsWhatWasMeant'
  PROVE  VmInv'
  <1>0. born \in Nat /\ born' \in Nat /\ guest \in [Vmids -> 0..born]
    BY VmAssumption DEF VmInv
  <1>1. ASSUME NEW n \in 1..born, n \in Alive' PROVE n \in Alive
    BY <1>0, <1>1 DEF Alive, NoGuest
  <1>2. ASSUME NEW n \in 1..born, NEW v \in Vmids, Only(v, n) PROVE Only(v, n)'
    <2> SUFFICES ASSUME n \in Alive' PROVE guest'[v] = n
      BY DEF Only
    <2>1. PICK w \in Vmids : guest'[w] = n
      BY DEF Alive
    <2>2. guest[w] = n
      BY <1>0, <2>1 DEF NoGuest
    <2>3. guest[v] = n
      BY <1>1, <1>2 DEF Only
    <2>4. v = w
      BY <2>2, <2>3 DEF VmInv, NoGuest
    <2> QED
      BY <2>1, <2>4
  <1>3. \A n \in 1..born : n \in 1..born'
    BY <1>0
  <1>4. \A r \in RowIds : RowMirrors(r)'
    BY <1>2, <1>3 DEF VmInv, RowMirrors, Known
  <1>5. CycleMirrors'
    <2> SUFFICES ASSUME cycle # NoCycle PROVE CycleMirrors'
      BY DEF CycleMirrors
    <2>1. /\ cycle.trusted \in BOOLEAN /\ DOMAIN cycle.has \subseteq Vmids
          /\ \A v \in DOMAIN cycle.has :
               /\ cycle.has[v].vmid = v /\ cycle.has[v].name \in 1..born /\ Only(v, cycle.has[v].name)
          /\ \A r \in RowIds : Known(r) /\ rows[r].name \in Alive =>
               /\ rows[r].vmid \in DOMAIN cycle.has => cycle.has[rows[r].vmid].name = rows[r].name
               /\ cycle.trusted => rows[r].vmid \in DOMAIN cycle.has
      BY DEF VmInv, CycleMirrors
    <2>2. \A r \in RowIds : Known(r)' /\ rows[r].name \in Alive' => Known(r) /\ rows[r].name \in Alive
      BY <1>1 DEF Known, VmInv, RowMirrors
    <2>3. \A v \in DOMAIN cycle.has :
            cycle.has[v].name \in 1..born' /\ Only(v, cycle.has[v].name)'
      BY <1>2, <1>3, <2>1
    <2> QED
      BY <2>1, <2>2, <2>3 DEF CycleMirrors, Known
  <1>6. ASSUME NEW q \in Askers PROVE JobMeans(q)'
    <2>1. CASE job'[q].at = "ended"
      BY <2>1 DEF JobMeans
    <2>2. CASE job'[q] = job[q]
      <3>1. JobMeans(q)
        BY DEF VmInv
      <3>2. ASSUME job[q].at = "queued"
            PROVE  /\ job[q].row \in RowIds /\ job[q].meant \in 1..born'
                   /\ job[q].meant \in Alive' => rows[job[q].row] # NoRow /\ rows[job[q].row].name = job[q].meant
        BY <1>1, <1>3, <3>1, <3>2 DEF JobMeans, Known
      <3>3. ASSUME job[q].at = "resolved", job[q].kind \in Deeds
            PROVE  /\ job[q].vmid \in Vmids /\ job[q].meant \in 1..born'
                   /\ Only(job[q].vmid, job[q].meant)'
        BY <1>2, <1>3, <2>2, <3>1, <3>3 DEF JobMeans
      <3> QED
        BY <2>2, <3>2, <3>3 DEF JobMeans, Known
    <2> QED
      BY <2>1, <2>2
  <1>7. OneRowEach' /\ rows' = [r \in RowIds |-> rows'[r]]
    BY DEF VmInv, OneRowEach, Known
  <1> QED
    BY <1>4, <1>5, <1>6, <1>7 DEF VmInv

(* One guest is made, *)
LEMMA GuestMade ==
  ASSUME VmInv, NEW v, v \in Vmids => guest[v] = NoGuest,
         born < MaxGuests, born' = born + 1, guest' = [guest EXCEPT ![v] = born + 1]
  PROVE  /\ born' \in 1..MaxGuests /\ born <= born' /\ guest' \in [Vmids -> 0..born']
         /\ \A w \in Vmids : guest'[w] \in {guest[w], NoGuest} \/ guest'[w] > born
         /\ \A u, w \in Vmids : guest'[u] # NoGuest /\ guest'[u] = guest'[w] => u = w
  <1>1. born \in Nat /\ MaxGuests \in Nat /\ guest \in [Vmids -> 0..born]
    BY VmAssumption DEF VmInv
  <1>2. \A w \in Vmids : guest'[w] = IF w = v THEN born + 1 ELSE guest[w]
    BY <1>1
  <1>3. \A w \in Vmids : guest[w] \in 0..born /\ guest[w] # born + 1
    BY <1>1
  <1>4. \A u, w \in Vmids : guest[u] # NoGuest /\ guest[u] = guest[w] => u = w
    BY DEF VmInv
  <1>5. \A u, w \in Vmids : guest'[u] # NoGuest /\ guest'[u] = guest'[w] => u = w
    BY <1>2, <1>3, <1>4
  <1>6. \A w \in Vmids : guest'[w] \in {guest[w], NoGuest} \/ guest'[w] > born
    BY <1>1, <1>2
  <1>7. born' \in 1..MaxGuests /\ born <= born'
    BY <1>1
  <1>8. guest' \in [Vmids -> 0..born']
    <2>1. guest' = [w \in Vmids |-> guest'[w]]
      BY <1>1
    <2>2. \A w \in Vmids : guest'[w] \in 0..born'
      BY <1>1, <1>2, <1>3
    <2> QED
      BY <2>1, <2>2
  <1> QED
    BY <1>5, <1>6, <1>7, <1>8

(* or goes. *)
LEMMA GuestGone ==
  ASSUME VmInv, NEW v, guest' = [guest EXCEPT ![v] = NoGuest], born' = born
  PROVE  /\ born' \in 1..MaxGuests /\ born <= born' /\ guest' \in [Vmids -> 0..born']
         /\ \A w \in Vmids : guest'[w] \in {guest[w], NoGuest} \/ guest'[w] > born
         /\ \A u, w \in Vmids : guest'[u] # NoGuest /\ guest'[u] = guest'[w] => u = w
  <1>1. born \in Nat /\ born \in 1..MaxGuests /\ guest \in [Vmids -> 0..born]
    BY VmAssumption DEF VmInv
  <1>2. \A w \in Vmids : guest'[w] = IF w = v THEN NoGuest ELSE guest[w]
    BY <1>1
  <1>3. \A u, w \in Vmids : guest[u] # NoGuest /\ guest[u] = guest[w] => u = w
    BY DEF VmInv
  <1>4. \A u, w \in Vmids : guest'[u] # NoGuest /\ guest'[u] = guest'[w] => u = w
    BY <1>2, <1>3
  <1>5. born' \in 1..MaxGuests /\ born <= born'
    BY <1>1
  <1>6. guest' \in [Vmids -> 0..born']
    <2>1. guest' = [w \in Vmids |-> guest'[w]]
      BY <1>1
    <2>2. \A w \in Vmids : guest'[w] \in 0..born'
      BY <1>1, <1>2 DEF NoGuest
    <2> QED
      BY <2>1, <2>2
  <1> QED
    BY <1>2, <1>4, <1>5, <1>6

(* or none does. *)
LEMMA GuestsSame ==
  ASSUME VmInv, UNCHANGED <<guest, born>>
  PROVE  /\ born' \in 1..MaxGuests /\ born <= born' /\ guest' \in [Vmids -> 0..born']
         /\ \A w \in Vmids : guest'[w] \in {guest[w], NoGuest} \/ guest'[w] > born
         /\ \A u, w \in Vmids : guest'[u] # NoGuest /\ guest'[u] = guest'[w] => u = w
  BY VmAssumption DEF VmInv, NoGuest

(* What happens on the node. *)
LEMMA StirredInv ==
  ASSUME VmInv, Stirred
  PROVE  VmInv'
  <1>1. UNCHANGED <<rows, cycle, job, acted>> /\ stirs' \in 0..MaxStirs
    BY VmAssumption DEF Stirred, VmInv
  <1>2. HitsWhatWasMeant' /\ job' = [q \in Askers |-> job'[q]]
    BY <1>1 DEF VmInv, HitsWhatWasMeant
  <1>3. PICK v \in Vmids :
          \/ guest' = [guest EXCEPT ![v] = NoGuest] /\ UNCHANGED <<running, born>>
          \/ /\ guest[v] = NoGuest /\ born < MaxGuests /\ born' = born + 1
             /\ guest' = [guest EXCEPT ![v] = born + 1] /\ UNCHANGED running
          \/ /\ guest[v] # NoGuest
             /\ running' = (running \ {guest[v]}) \cup ({guest[v]} \ running)
             /\ UNCHANGED <<guest, born>>
    BY DEF Stirred
  <1>4. running' \subseteq 1..MaxGuests
    <2>1. running \subseteq 1..MaxGuests /\ guest[v] \in 0..born /\ born \in 1..MaxGuests
      BY DEF VmInv
    <2>2. guest[v] # NoGuest => guest[v] \in 1..MaxGuests
      BY <2>1, VmAssumption DEF NoGuest
    <2>3. ASSUME guest[v] # NoGuest, running' = (running \ {guest[v]}) \cup ({guest[v]} \ running)
          PROVE  running' \subseteq 1..MaxGuests
      BY <2>1, <2>2, <2>3
    <2> QED
      BY <1>3, <2>1, <2>3
  <1>5. /\ born' \in 1..MaxGuests /\ born <= born' /\ guest' \in [Vmids -> 0..born']
        /\ \A w \in Vmids : guest'[w] \in {guest[w], NoGuest} \/ guest'[w] > born
        /\ \A u, w \in Vmids : guest'[u] # NoGuest /\ guest'[u] = guest'[w] => u = w
    BY <1>3, GuestMade, GuestGone, GuestsSame
  <1> QED
    BY <1>1, <1>2, <1>4, <1>5, GuestsMove

(* A job does its deed. *)
LEMMA ActsInv ==
  ASSUME VmInv, NEW q \in Askers, NEW deed \in Deeds, Acts(q, deed)
  PROVE  VmInv'
  <1> DEFINE v == job[q].vmid
             g == guest[v]
  <1>1. /\ job[q].at = "resolved" /\ job[q].kind = deed /\ End(q) /\ UNCHANGED <<rows, cycle, stirs>>
        /\ v \in Vmids /\ Only(v, job[q].meant)
    BY DEF Acts, VmInv, JobMeans
  <1>2. /\ job' = [p \in Askers |-> job'[p]] /\ \A p \in Askers : job'[p] = job[p] \/ job'[p].at = "ended"
        /\ stirs' \in 0..MaxStirs
    BY <1>1 DEF End, VmInv
  <1>3. CASE ~Allowed(deed, g)
    <2>1. UNCHANGED <<proxmox, acted>>
      BY <1>3 DEF Acts
    <2>2. HitsWhatWasMeant' /\ running' \subseteq 1..MaxGuests
      BY <2>1 DEF VmInv, HitsWhatWasMeant, proxmox
    <2> QED
      BY <1>1, <1>2, <2>1, <2>2, GuestsSame, GuestsMove DEF proxmox
  <1>4. CASE Allowed(deed, g)
    <2>1. PICK b \in BOOLEAN : b = (job[q].meant \in Alive)
      <3>1. (job[q].meant \in Alive) \in BOOLEAN
        OBVIOUS
      <3> QED
        BY <3>1
    <2>2. acted' = acted \cup {[meant |-> job[q].meant, hit |-> g, asked |-> job[q].asked,
                                vmid |-> v, alive |-> b]}
      BY <1>4, <2>1 DEF Acts
    <2>3. HitsWhatWasMeant'
      <3>1. g = job[q].meant \/ ~b
        BY <1>1, <2>1 DEF Only
      <3> QED
        BY <2>2, <3>1 DEF VmInv, HitsWhatWasMeant
    <2>4. running' \subseteq 1..MaxGuests /\
            \/ guest' = [guest EXCEPT ![v] = NoGuest] /\ born' = born
            \/ /\ deed = "vm.clone" /\ born' = born + 1 /\ guest' = [guest EXCEPT ![NextId] = born + 1]
            \/ UNCHANGED <<guest, born>>
      BY <1>4 DEF Acts, Deeds, proxmox, VmInv
    <2>5. deed = "vm.clone" => born < MaxGuests /\ guest[NextId] = NoGuest
      <3> SUFFICES ASSUME deed = "vm.clone" PROVE born < MaxGuests /\ guest[NextId] = NoGuest
        OBVIOUS
      <3>1. born < MaxGuests /\ \E w \in Vmids : guest[w] = NoGuest
        BY <1>4 DEF Allowed
      <3>2. {w \in Vmids : guest[w] = NoGuest} \subseteq Nat /\ {w \in Vmids : guest[w] = NoGuest} # {}
        BY <3>1, VmAssumption
      <3>3. NextId \in {w \in Vmids : guest[w] = NoGuest}
        BY <3>2, LeastIs DEF NextId
      <3> QED
        BY <3>1, <3>3
    <2>6. /\ born' \in 1..MaxGuests /\ born <= born' /\ guest' \in [Vmids -> 0..born']
          /\ \A w \in Vmids : guest'[w] \in {guest[w], NoGuest} \/ guest'[w] > born
          /\ \A u, w \in Vmids : guest'[u] # NoGuest /\ guest'[u] = guest'[w] => u = w
      BY <2>4, <2>5, GuestMade, GuestGone, GuestsSame
    <2> QED
      BY <1>1, <1>2, <2>3, <2>4, <2>6, GuestsMove
  <1> QED
    BY <1>3, <1>4

(* A job creates a guest. *)
LEMMA CreatesInv ==
  ASSUME VmInv, NEW q \in Askers, Creates(q)
  PROVE  VmInv'
  <1>1. /\ job' = [p \in Askers |-> job'[p]] /\ \A p \in Askers : job'[p] = job[p] \/ job'[p].at = "ended"
        /\ stirs' \in 0..MaxStirs /\ UNCHANGED <<rows, cycle, acted, running>>
    BY DEF Creates, End, VmInv, proxmox
  <1>2. HitsWhatWasMeant' /\ running' \subseteq 1..MaxGuests
    BY <1>1 DEF VmInv, HitsWhatWasMeant
  <1>3. \/ UNCHANGED <<guest, born>>
        \/ /\ guest[job[q].vmid] = NoGuest /\ born < MaxGuests /\ born' = born + 1
           /\ guest' = [guest EXCEPT ![job[q].vmid] = born + 1]
    BY DEF Creates, proxmox
  <1>4. /\ born' \in 1..MaxGuests /\ born <= born' /\ guest' \in [Vmids -> 0..born']
        /\ \A w \in Vmids : guest'[w] \in {guest[w], NoGuest} \/ guest'[w] > born
        /\ \A u, w \in Vmids : guest'[u] # NoGuest /\ guest'[u] = guest'[w] => u = w
    BY <1>3, GuestMade, GuestsSame
  <1> QED
    BY <1>1, <1>2, <1>4, GuestsMove

(* A step of one job that touches nothing else. *)
LEMMA JobInv ==
  ASSUME VmInv, NEW q \in Askers, UNCHANGED <<proxmox, rows, cycle, acted, stirs>>,
         job' = [job EXCEPT ![q] = job'[q]], JobMeans(q)'
  PROVE  VmInv'
  <1>0. UNCHANGED <<Alive, guest, born, rows, cycle>>
    BY DEF Alive, proxmox
  <1>1. ASSUME NEW p \in Askers, p # q PROVE JobMeans(p)'
    <2>1. JobMeans(p) /\ job'[p] = job[p]
      BY <1>1 DEF VmInv
    <2> QED
      BY <1>0, <2>1 DEF JobMeans, Known, Only
  <1>2. CycleMirrors'
    BY <1>0 DEF VmInv, CycleMirrors, Known, Only
  <1>4. \A r \in RowIds : RowMirrors(r)'
    BY <1>0 DEF VmInv, RowMirrors, Known, Only
  <1>3. HitsWhatWasMeant' /\ OneRowEach' /\ job' = [p \in Askers |-> job'[p]]
    BY DEF VmInv, HitsWhatWasMeant, OneRowEach, Known
  <1> QED
    BY <1>1, <1>2, <1>3, <1>4 DEF VmInv, proxmox

(* A request is queued, and its job finds the row. *)
LEMMA AsksInv ==
  ASSUME VmInv, NEW q \in Askers,
         AskCreate(q) \/ Resolve(q) \/ \E d \in Deeds, r \in RowIds : Ask(q, d, r)
  PROVE  VmInv'
  <1>1. UNCHANGED <<proxmox, rows, cycle, acted, stirs>> /\ job' = [job EXCEPT ![q] = job'[q]]
    BY DEF AskCreate, Resolve, Ask, VmInv
  <1>2. UNCHANGED Alive /\ \A r \in RowIds : Known(r) <=> Known(r)'
    BY <1>1 DEF Alive, Known, proxmox
  <1>3. CASE AskCreate(q)
    <2>1. job'[q] = [at |-> "resolved", kind |-> "vm.create", vmid |-> NextId, meant |-> NoGuest]
      BY <1>3 DEF AskCreate, VmInv
    <2>2. JobMeans(q)'
      BY <2>1 DEF JobMeans, Deeds
    <2> QED
      BY <1>1, <2>2, JobInv
  <1>4. CASE Resolve(q)
    <2>1. /\ job[q].at = "queued" /\ JobMeans(q)
          /\ job'[q] = IF Known(job[q].row)
                       THEN [at |-> "resolved", kind |-> job[q].kind, vmid |-> rows[job[q].row].vmid,
                             asked |-> job[q].asked, meant |-> job[q].meant]
                       ELSE [at |-> "failed"]
      BY <1>4 DEF Resolve, VmInv
    <2>2. CASE Known(job[q].row)
      <3>1. /\ job[q].row \in RowIds /\ job[q].meant \in 1..born
            /\ job[q].meant \in Alive => rows[job[q].row].name = job[q].meant
        BY <2>1 DEF JobMeans
      <3>2. RowMirrors(job[q].row)
        BY <3>1 DEF VmInv
      <3>3. rows[job[q].row].vmid \in Vmids /\ Only(rows[job[q].row].vmid, job[q].meant)
        BY <2>2, <3>1, <3>2 DEF RowMirrors, Only
      <3>4. job'[q].at = "resolved" /\ job'[q].vmid = rows[job[q].row].vmid /\ job'[q].meant = job[q].meant
        BY <2>1, <2>2
      <3>5. JobMeans(q)'
        BY <1>1, <1>2, <3>1, <3>3, <3>4 DEF JobMeans, Only, proxmox
      <3> QED
        BY <1>1, <3>5, JobInv
    <2>3. CASE ~Known(job[q].row)
      <3>1. JobMeans(q)'
        BY <2>1, <2>3 DEF JobMeans
      <3> QED
        BY <1>1, <3>1, JobInv
    <2> QED
      BY <2>2, <2>3
  <1>5. ASSUME NEW d \in Deeds, NEW r \in RowIds, Ask(q, d, r) PROVE VmInv'
    <2>1. /\ Known(r) /\ RowMirrors(r)
          /\ job'[q] = [at |-> "queued", kind |-> d, row |-> r, asked |-> rows[r].vmid, meant |-> rows[r].name]
      BY <1>5 DEF Ask, VmInv
    <2>2. JobMeans(q)'
      BY <1>1, <1>2, <2>1 DEF JobMeans, RowMirrors, proxmox
    <2> QED
      BY <1>1, <2>2, JobInv
  <1> QED
    BY <1>3, <1>4, <1>5

(* A cycle lists the guests, *)
LEMMA PollReadsInv ==
  ASSUME VmInv, PollReads
  PROVE  VmInv'
  <1> DEFINE all == {v \in Vmids : guest[v] # NoGuest}
  <1>1. UNCHANGED <<proxmox, rows, job, acted>> /\ stirs' \in 0..MaxStirs
    BY VmAssumption DEF PollReads, VmInv
  <1>2. PICK seen \in SUBSET all :
          cycle' = [trusted |-> Trusted([whole |-> seen = all]),
                    has |-> [v \in seen |-> [vmid |-> v, name |-> guest[v],
                                             running |-> guest[v] \in running]]]
    BY DEF PollReads
  <1>3. PICK b \in BOOLEAN : b = (seen = all)
    OBVIOUS
  <1>4. cycle'.trusted = b /\ DOMAIN cycle'.has = seen
    BY <1>2, <1>3 DEF Trusted
  <1>5. \A v \in seen : cycle'.has[v].vmid = v /\ cycle'.has[v].name = guest[v]
    BY <1>2
  <1>6. guest \in [Vmids -> 0..born] /\ born \in Nat
    BY VmAssumption DEF VmInv
  <1>7. \A v \in seen : cycle'.has[v].name \in 1..born /\ Only(v, cycle'.has[v].name)
    BY <1>5, <1>6 DEF Only, NoGuest
  <1>8. ASSUME NEW r \in RowIds, Known(r), rows[r].name \in Alive
        PROVE  /\ rows[r].vmid \in seen => cycle'.has[rows[r].vmid].name = rows[r].name
               /\ b => rows[r].vmid \in seen
    <2>1. rows[r].vmid \in Vmids /\ guest[rows[r].vmid] = rows[r].name /\ rows[r].name # NoGuest
      BY <1>8 DEF VmInv, RowMirrors, Only, Alive
    <2> QED
      BY <1>3, <1>5, <2>1
  <1>9. UNCHANGED Alive /\ \A r \in RowIds : Known(r) <=> Known(r)'
    BY <1>1 DEF Alive, Known, proxmox
  <1>10. CycleMirrors'
    BY <1>1, <1>4, <1>5, <1>7, <1>8, <1>9 DEF CycleMirrors, Only, proxmox
  <1>11. \A r \in RowIds : RowMirrors(r)'
    BY <1>1, <1>9 DEF VmInv, RowMirrors, Only, proxmox
  <1>12. \A q \in Askers : JobMeans(q)'
    BY <1>1, <1>9 DEF VmInv, JobMeans, Known, Only, proxmox
  <1>13. HitsWhatWasMeant' /\ OneRowEach'
    BY <1>1 DEF VmInv, HitsWhatWasMeant, OneRowEach, Known
  <1> QED
    BY <1>1, <1>10, <1>11, <1>12, <1>13 DEF VmInv, proxmox

(* The number the table gives next is past every row. *)
LEMMA NextRowIs == NextRow(rows) \in Nat /\ \A r \in RowIds : Known(r) => NextRow(rows) > r
  <1> DEFINE used == {0} \cup {r \in RowIds : rows[r] # NoRow}
  <1>1. MaxGuests + 1 \in Nat /\ 0 \in 0..(MaxGuests + 1) /\ RowIds = 1..(MaxGuests + 1)
    BY VmAssumption DEF RowIds
  <1>2. used \subseteq 0..(MaxGuests + 1) /\ used # {}
    BY <1>1
  <1>3. Max(used) \in used /\ \A y \in used : Max(used) >= y
    BY <1>1, <1>2, GreatestIs
  <1>4. NextRow(rows) = 1 + Max(used)
    BY DEF NextRow
  <1>5. \A r \in RowIds : Known(r) => r \in used /\ r \in Nat
    BY <1>1 DEF Known
  <1>6. Max(used) \in 0..(MaxGuests + 1)
    BY <1>2, <1>3
  <1> HIDE DEF used
  <1> QED
    BY <1>3, <1>4, <1>5, <1>6

(* and files them. *)
LEMMA PollFilesInv ==
  ASSUME VmInv, PollFiles
  PROVE  VmInv'
  <1> DEFINE has == cycle.has
             kept == [r \in RowIds |->
                        IF ~Known(r) THEN NoRow
                        ELSE IF rows[r].vmid \in DOMAIN has THEN has[rows[r].vmid]
                        ELSE IF cycle.trusted THEN NoRow ELSE rows[r]]
             new == DOMAIN has \ {kept[r].vmid : r \in RowIds}
             first == NextRow(rows)
  <1>1. /\ cycle # NoCycle /\ cycle' = NoCycle /\ UNCHANGED <<proxmox, job, acted, stirs>>
        /\ first + Cardinality(new) - 1 <= Max(RowIds)
    BY DEF PollFiles
  <1>2. PICK at \in Bijection(new, first..(first + Cardinality(new) - 1)) :
          rows' = [r \in RowIds |-> IF \E v \in new : at[v] = r
                                    THEN has[CHOOSE v \in new : at[v] = r] ELSE kept[r]]
    BY DEF PollFiles
  <1>3. /\ cycle.trusted \in BOOLEAN /\ DOMAIN has \subseteq Vmids
        /\ \A v \in DOMAIN has : has[v].vmid = v /\ has[v].name \in 1..born /\ Only(v, has[v].name)
        /\ \A r \in RowIds : Known(r) /\ rows[r].name \in Alive =>
             /\ rows[r].vmid \in DOMAIN has => has[rows[r].vmid].name = rows[r].name
             /\ cycle.trusted => rows[r].vmid \in DOMAIN has
    BY <1>1 DEF VmInv, CycleMirrors
  <1>4. first \in Nat /\ \A r \in RowIds : Known(r) => first > r
    BY NextRowIs
  <1>k. ASSUME NEW r \in RowIds
        PROVE  /\ ~Known(r) => kept[r] = NoRow
               /\ Known(r) /\ rows[r].vmid \in DOMAIN has => kept[r] = has[rows[r].vmid]
               /\ Known(r) /\ rows[r].vmid \notin DOMAIN has =>
                    kept[r] = NoRow \/ kept[r] = rows[r]
               /\ Known(r) /\ rows[r].vmid \notin DOMAIN has /\ ~cycle.trusted => kept[r] = rows[r]
    OBVIOUS
  <1>n. \A v \in new : v \in DOMAIN has /\ \A r \in RowIds : kept[r].vmid # v
    OBVIOUS
  <1> HIDE DEF has, kept, new, first
  <1>5. \A v \in new : at[v] \in first..(first + Cardinality(new) - 1)
    BY <1>2 DEF Bijection, Injection
  <1>6. \A v, w \in new : at[v] = at[w] => v = w
    BY <1>2 DEF Bijection, Injection, IsInjective
  <1>7. ASSUME NEW v \in new, NEW r \in RowIds, at[v] = r PROVE ~Known(r) /\ rows'[r] = has[v]
    <2>1. r >= first
      BY <1>5, <1>7
    <2>2. ~Known(r)
      BY <1>4, <2>1 DEF RowIds
    <2>3. (CHOOSE w \in new : at[w] = r) = v
      BY <1>6, <1>7
    <2>4. rows'[r] = has[CHOOSE w \in new : at[w] = r]
      BY <1>2, <1>7
    <2> QED
      BY <2>2, <2>3, <2>4
  <1>8. ASSUME NEW r \in RowIds, ~\E v \in new : at[v] = r PROVE rows'[r] = kept[r]
    BY <1>2, <1>8
  <1>9. UNCHANGED <<Alive, guest, born>>
    BY <1>1 DEF Alive, proxmox
  <1>10. 0 \notin Vmids
    BY VmAssumption
  <1>11. ASSUME NEW r \in RowIds, Known(r)'
         PROVE  \/ r \in RowIds /\ \E v \in new : at[v] = r /\ rows'[r] = has[v]
                \/ /\ Known(r) /\ rows'[r] = kept[r] /\ rows'[r].vmid = rows[r].vmid
                   /\ \/ rows[r].vmid \in DOMAIN has /\ rows'[r] = has[rows[r].vmid]
                      \/ rows[r].vmid \notin DOMAIN has /\ rows'[r] = rows[r]
    <2>1. CASE \E v \in new : at[v] = r
      BY <1>7, <2>1
    <2>2. CASE ~\E v \in new : at[v] = r
      <3>1. rows'[r] = kept[r] /\ kept[r] # NoRow
        BY <1>8, <1>11, <2>2 DEF Known
      <3>2. Known(r)
        BY <1>k, <3>1
      <3>3. \/ rows[r].vmid \in DOMAIN has /\ rows'[r] = has[rows[r].vmid]
            \/ rows[r].vmid \notin DOMAIN has /\ rows'[r] = rows[r]
        BY <1>k, <3>1, <3>2
      <3> QED
        BY <1>3, <3>1, <3>2, <3>3
    <2> QED
      BY <2>1, <2>2
  <1>12. ASSUME NEW r \in RowIds PROVE RowMirrors(r)'
    <2> SUFFICES ASSUME Known(r)' PROVE RowMirrors(r)'
      BY DEF RowMirrors
    <2>1. RowMirrors(r)
      BY DEF VmInv
    <2>2. /\ rows'[r].vmid \in Vmids /\ rows'[r].name \in 1..born
          /\ Only(rows'[r].vmid, rows'[r].name)
      <3>1. CASE \E v \in new : at[v] = r /\ rows'[r] = has[v]
        BY <1>3, <1>n, <3>1
      <3>2. CASE Known(r) /\ rows[r].vmid \in DOMAIN has /\ rows'[r] = has[rows[r].vmid]
        BY <1>3, <3>2
      <3>3. CASE Known(r) /\ rows'[r] = rows[r]
        BY <2>1, <3>3 DEF RowMirrors
      <3> QED
        BY <1>11, <3>1, <3>2, <3>3
    <2> QED
      BY <1>9, <2>2 DEF RowMirrors, Only
  <1>13. OneRowEach'
    <2> SUFFICES ASSUME NEW r1 \in RowIds, NEW r2 \in RowIds, Known(r1)', Known(r2)',
                        rows'[r1].vmid = rows'[r2].vmid
                 PROVE  r1 = r2
      BY DEF OneRowEach
    <2>1. ASSUME NEW r \in RowIds, NEW s \in RowIds, NEW v \in new, at[v] = r, rows'[r] = has[v],
                 rows'[s] = kept[s]
          PROVE  rows'[r].vmid # rows'[s].vmid
      BY <1>3, <1>n, <2>1
    <2>2. ASSUME NEW v \in new, NEW w \in new, at[v] = r1, rows'[r1] = has[v], at[w] = r2, rows'[r2] = has[w]
          PROVE  r1 = r2
      BY <1>3, <1>n, <2>2
    <2>3. ASSUME Known(r1), rows'[r1].vmid = rows[r1].vmid, Known(r2), rows'[r2].vmid = rows[r2].vmid
          PROVE  r1 = r2
      BY <2>3 DEF VmInv, OneRowEach
    <2> QED
      BY <1>11, <2>1, <2>2, <2>3
  <1>14. ASSUME NEW q \in Askers PROVE JobMeans(q)'
    <2>1. JobMeans(q) /\ job'[q] = job[q]
      BY <1>1 DEF VmInv
    <2>2. ASSUME job[q].at = "queued", job[q].meant \in Alive
          PROVE  Known(job[q].row)' /\ rows'[job[q].row].name = job[q].meant
      <3> DEFINE r == job[q].row
      <3>1. r \in RowIds /\ Known(r) /\ rows[r].name = job[q].meant /\ RowMirrors(r)
        BY <2>1, <2>2 DEF JobMeans, VmInv
      <3>2. rows[r].vmid \in Vmids
        BY <3>1 DEF RowMirrors
      <3>3. rows'[r] = kept[r]
        BY <1>7, <1>8, <3>1
      <3>4. \/ rows[r].vmid \in DOMAIN has /\ kept[r] = has[rows[r].vmid] /\ has[rows[r].vmid].name = rows[r].name
            \/ rows[r].vmid \notin DOMAIN has /\ ~cycle.trusted /\ kept[r] = rows[r]
        BY <1>3, <1>k, <2>2, <3>1
      <3>5. rows'[r].vmid \in Vmids /\ rows'[r].name = job[q].meant
        BY <1>3, <3>1, <3>2, <3>3, <3>4
      <3>6. rows'[r] # NoRow
        BY <1>10, <3>5 DEF NoRow
      <3> QED
        BY <2>1, <3>5, <3>6 DEF Known
    <2> QED
      BY <1>9, <2>1, <2>2 DEF JobMeans, Only
  <1>15. HitsWhatWasMeant' /\ CycleMirrors' /\ rows' = [r \in RowIds |-> rows'[r]]
    BY <1>1, <1>2 DEF VmInv, HitsWhatWasMeant, CycleMirrors
  <1> QED
    BY <1>1, <1>9, <1>12, <1>13, <1>14, <1>15 DEF VmInv, proxmox

(* Every step keeps the invariant. *)
LEMMA VmStep == VmInv /\ [VmNext]_vmVars => VmInv'
  <1> SUFFICES ASSUME VmInv, [VmNext]_vmVars PROVE VmInv'
    OBVIOUS
  <1>1. CASE UNCHANGED vmVars
    <2>1. UNCHANGED <<guest, running, born, rows, cycle, job, acted, stirs>>
      BY <1>1 DEF vmVars
    <2>2. HitsWhatWasMeant'
      BY <2>1 DEF VmInv, HitsWhatWasMeant
    <2> QED
      BY <2>1, <2>2, GuestsSame, GuestsMove DEF VmInv
  <1> QED
    BY <1>1, ActsInv, CreatesInv, AsksInv, PollReadsInv, PollFilesInv, StirredInv DEF VmNext

(* VM jobs: whatever is destroyed, created or restored on the node and filed by the    *)
(* poller between the click, the queue and the deed, a job acts on another guest than  *)
(* the one that was meant only when that one is gone, and no two rows mirror one vmid. *)
THEOREM VmIsSound == VmSpec => []VmSound
  <1>1. VmInv => VmSound
    <2> SUFFICES ASSUME VmInv PROVE VmSound
      OBVIOUS
    <2>1. guest \in [Vmids -> 0..MaxGuests]
      BY VmAssumption DEF VmInv
    <2>2. \A r \in RowIds : Known(r) => rows[r].vmid \in Vmids /\ rows[r].name \in 1..MaxGuests
      BY VmAssumption DEF VmInv, RowMirrors
    <2> QED
      BY <2>1, <2>2 DEF VmInv, VmSound, VmTypeOK
  <1> QED
    BY <1>1, VmInitInv, VmStep, PTL DEF VmSpec

-----------------------------------------------------------------------------
(***************************************************************************)
(* Self-update (updater.py, packaging/).  UpdateSound says what is left    *)
(* between two runs of the script: the invariant adds what each step of a  *)
(* run may count on.                                                       *)
(***************************************************************************)
Waiting == {"idle", "preflight", "backup", "fetch", "unpack", "migrate"}
(* The backup of this run is there and still needed. *)
Covered == {"fetch", "unpack", "migrate", "switch", "restart", "health", "stop",
            "relink", "restore", "copy"}

(* Where the symlink points at each step, and who may answer. *)
LinkKnown ==
    /\ step \in {"backup", "fetch", "unpack", "migrate", "switch",
                 "restore", "copy", "start", "rolled"} => link = "from"
    /\ step \in {"restart", "health", "stop", "relink"} => link = "to"
    /\ step \in {"relink", "restore", "copy", "start"} => up = "down"
    /\ up = "to" => good /\ db.schema = "to" /\ link = "to"

(* What is installed can start on the database that is there. *)
Startable ==
    /\ step \in Waiting /\ link = "from" => db.schema = "from" \/ cut
    /\ step \in Waiting /\ link = "to" => (good /\ db.schema = "to") \/ cut
    /\ step \in Waiting /\ up = "down" => cut
    /\ step \in {"start", "rolled"} => db.schema = "from" \/ cut
    /\ step = "rolled" => up = "from" \/ cut

(* What a rollback puts back can be started, and holds what the run found. *)
BackupServes ==
    /\ step \in Covered => saved.schema # "none" /\ (saved.schema = "from" \/ cut)
    /\ step \in Covered => before \subseteq saved.rows
    /\ step \in {"preflight", "backup"} => before \subseteq db.rows

StatusKnown ==
    /\ step # "idle" => status = "running"
    /\ status = "succeeded" => link = "to" /\ good /\ db.schema = "to"

UpdateInv == UpdateSound /\ LinkKnown /\ Startable /\ BackupServes /\ StatusKnown

-----------------------------------------------------------------------------
(* The script starts on a machine that runs the old release. *)
LEMMA UpdateInitInv == UpdateInit => UpdateInv
  <1> SUFFICES ASSUME UpdateInit PROVE UpdateInv
    OBVIOUS
  <1> USE UpdateAssumption DEF UpdateInit, Releases, Steps, Undecided, Waiting, Covered, NoBackup
  <1>1. UpdateTypeOK
    <2>1. link \in Releases /\ up \in Releases \cup {"down"}
      OBVIOUS
    <2>2. good \in BOOLEAN /\ cut \in BOOLEAN /\ killed \in BOOLEAN
      OBVIOUS
    <2>3. unpacked \in BOOLEAN /\ force \in BOOLEAN /\ request \in BOOLEAN
      OBVIOUS
    <2>4. written \in 0..MaxRows
      OBVIOUS
    <2>5. db \in [schema: {"from", "to", "part", "torn"}, rows: SUBSET (1..MaxRows)]
      OBVIOUS
    <2>6. saved \in [schema: {"none", "from", "to", "part", "torn"}, rows: SUBSET (1..MaxRows)]
      OBVIOUS
    <2>7. status \in {"none", "running", "succeeded", "failed", "rolled_back"}
      OBVIOUS
    <2>8. step \in Steps \cup {"idle"}
      OBVIOUS
    <2>9. QED
      BY <2>1, <2>2, <2>3, <2>4, <2>5, <2>6, <2>7, <2>8 DEF UpdateTypeOK
  <1>2. VerdictTrue
    BY DEF VerdictTrue
  <1>3. StatusSettles
    BY DEF StatusSettles
  <1>4. OnlyNewIsLost
    BY DEF OnlyNewIsLost
  <1>5. NobodyLeftDown
    BY DEF NobodyLeftDown
  <1>6. LinkKnown
    BY DEF LinkKnown
  <1>7. Startable
    BY DEF Startable
  <1>8. BackupServes
    BY DEF BackupServes
  <1>9. StatusKnown
    BY DEF StatusKnown
  <1>10. QED
    BY <1>1, <1>2, <1>3, <1>4, <1>5, <1>6, <1>7, <1>8, <1>9 DEF UpdateInv,
       UpdateSound

(* Every step of the service, the script and the machine keeps it. *)
LEMMA UpdateStepInv == UpdateInv /\ [UpdateNext]_updateVars => UpdateInv'
  <1> SUFFICES ASSUME UpdateInv, [UpdateNext]_updateVars PROVE UpdateInv'
    OBVIOUS
  <1> USE UpdateAssumption DEF UpdateInv, UpdateSound, UpdateTypeOK, VerdictTrue,
      StatusSettles, OnlyNewIsLost, NobodyLeftDown, LinkKnown, Startable, BackupServes,
      StatusKnown, Releases, Steps, Undecided, Waiting, Covered, dbVars, hostVars, ghosts
  <1>1. CASE Write
    BY <1>1 DEF Write
  <1>2. CASE Restarted
    BY <1>2 DEF Restarted, Boots, Starts
  <1>3. CASE AskUpdate
    BY <1>3 DEF AskUpdate
  <1>4. CASE Requested
    <2>1. UpdateTypeOK'
      BY <1>4 DEF Requested, Begin
    <2>2. VerdictTrue'
      BY <1>4 DEF Requested, Begin
    <2>3. StatusSettles'
      BY <1>4 DEF Requested, Begin
    <2>4. OnlyNewIsLost'
      BY <1>4 DEF Requested, Begin
    <2>5. NobodyLeftDown'
      BY <1>4 DEF Requested, Begin
    <2>6. LinkKnown'
      BY <1>4 DEF Requested, Begin
    <2>7. Startable'
      BY <1>4 DEF Requested, Begin
    <2>8. BackupServes'
      BY <1>4 DEF Requested, Begin
    <2>9. StatusKnown'
      BY <1>4 DEF Requested, Begin
    <2>10. QED
      BY <2>1, <2>2, <2>3, <2>4, <2>5, <2>6, <2>7, <2>8, <2>9
  <1>5. CASE RunByHand
    <2>1. UpdateTypeOK'
      BY <1>5 DEF RunByHand, Begin
    <2>2. VerdictTrue'
      BY <1>5 DEF RunByHand, Begin
    <2>3. StatusSettles'
      BY <1>5 DEF RunByHand, Begin
    <2>4. OnlyNewIsLost'
      BY <1>5 DEF RunByHand, Begin
    <2>5. NobodyLeftDown'
      BY <1>5 DEF RunByHand, Begin
    <2>6. LinkKnown'
      BY <1>5 DEF RunByHand, Begin
    <2>7. Startable'
      BY <1>5 DEF RunByHand, Begin
    <2>8. BackupServes'
      BY <1>5 DEF RunByHand, Begin
    <2>9. StatusKnown'
      BY <1>5 DEF RunByHand, Begin
    <2>10. QED
      BY <2>1, <2>2, <2>3, <2>4, <2>5, <2>6, <2>7, <2>8, <2>9
  <1>6. CASE Preflight
    BY <1>6 DEF Preflight, Ends
  <1>7. CASE BackedUp
    BY <1>7 DEF BackedUp, Backup
  <1>8. CASE Fetch
    BY <1>8 DEF Fetch
  <1>9. CASE Unpack
    BY <1>9 DEF Unpack, Ends
  <1>10. CASE Migrate
    <2>1. UpdateTypeOK'
      <3>1. (link \in Releases /\ up \in Releases \cup {"down"})'
        BY <1>10 DEF Migrate, Ends
      <3>2. (good \in BOOLEAN /\ cut \in BOOLEAN /\ killed \in BOOLEAN)'
        BY <1>10 DEF Migrate, Ends
      <3>3. (unpacked \in BOOLEAN /\ force \in BOOLEAN /\ request \in BOOLEAN)'
        BY <1>10 DEF Migrate, Ends
      <3>4. (written \in 0..MaxRows)'
        BY <1>10 DEF Migrate, Ends
      <3>5. (db \in [schema: {"from", "to", "part", "torn"}, rows: SUBSET (1..MaxRows)])'
        BY <1>10 DEF Migrate, Ends
      <3>6. (saved \in [schema: {"none", "from", "to", "part", "torn"}, rows: SUBSET (1..MaxRows)])'
        BY <1>10 DEF Migrate, Ends
      <3>7. (status \in {"none", "running", "succeeded", "failed", "rolled_back"})'
        BY <1>10 DEF Migrate, Ends
      <3>8. (step \in Steps \cup {"idle"})'
        BY <1>10 DEF Migrate, Ends
      <3>9. QED
        BY <3>1, <3>2, <3>3, <3>4, <3>5, <3>6, <3>7, <3>8 DEF UpdateTypeOK
    <2>2. VerdictTrue'
      BY <1>10 DEF Migrate, Ends
    <2>3. StatusSettles'
      BY <1>10 DEF Migrate, Ends
    <2>4. OnlyNewIsLost'
      BY <1>10 DEF Migrate, Ends
    <2>5. NobodyLeftDown'
      BY <1>10 DEF Migrate, Ends
    <2>6. LinkKnown'
      BY <1>10 DEF Migrate, Ends
    <2>7. Startable'
      BY <1>10 DEF Migrate, Ends
    <2>8. BackupServes'
      BY <1>10 DEF Migrate, Ends
    <2>9. StatusKnown'
      BY <1>10 DEF Migrate, Ends
    <2>10. QED
      BY <2>1, <2>2, <2>3, <2>4, <2>5, <2>6, <2>7, <2>8, <2>9
  <1>11. CASE Switch
    BY <1>11 DEF Switch
  <1>12. CASE Restart
    BY <1>12 DEF Restart, Boots, Starts
  <1>13. CASE Health
    BY <1>13 DEF Health, Ends
  <1>14. CASE Stop
    BY <1>14 DEF Stop
  <1>15. CASE Relink
    BY <1>15 DEF Relink
  <1>16. CASE Restore
    BY <1>16 DEF Restore
  <1>17. CASE Copy
    <2>1. UpdateTypeOK'
      <3>1. (link \in Releases /\ up \in Releases \cup {"down"})'
        BY <1>17 DEF Copy
      <3>2. (good \in BOOLEAN /\ cut \in BOOLEAN /\ killed \in BOOLEAN)'
        BY <1>17 DEF Copy
      <3>3. (unpacked \in BOOLEAN /\ force \in BOOLEAN /\ request \in BOOLEAN)'
        BY <1>17 DEF Copy
      <3>4. (written \in 0..MaxRows)'
        BY <1>17 DEF Copy
      <3>5. (db \in [schema: {"from", "to", "part", "torn"}, rows: SUBSET (1..MaxRows)])'
        BY <1>17 DEF Copy
      <3>6. (saved \in [schema: {"none", "from", "to", "part", "torn"}, rows: SUBSET (1..MaxRows)])'
        BY <1>17 DEF Copy
      <3>7. (status \in {"none", "running", "succeeded", "failed", "rolled_back"})'
        BY <1>17 DEF Copy
      <3>8. (step \in Steps \cup {"idle"})'
        BY <1>17 DEF Copy
      <3>9. QED
        BY <3>1, <3>2, <3>3, <3>4, <3>5, <3>6, <3>7, <3>8 DEF UpdateTypeOK
    <2>2. VerdictTrue'
      BY <1>17 DEF Copy
    <2>3. StatusSettles'
      BY <1>17 DEF Copy
    <2>4. OnlyNewIsLost'
      BY <1>17 DEF Copy
    <2>5. NobodyLeftDown'
      BY <1>17 DEF Copy
    <2>6. LinkKnown'
      BY <1>17 DEF Copy
    <2>7. Startable'
      BY <1>17 DEF Copy
    <2>8. BackupServes'
      BY <1>17 DEF Copy
    <2>9. StatusKnown'
      BY <1>17 DEF Copy
    <2>10. QED
      BY <2>1, <2>2, <2>3, <2>4, <2>5, <2>6, <2>7, <2>8, <2>9
  <1>18. CASE Start
    BY <1>18 DEF Start, Boots, Starts
  <1>19. CASE RolledBack
    BY <1>19 DEF RolledBack, Ends
  <1>20. CASE Trips
    <2>1. UpdateTypeOK'
      <3>1. (link \in Releases /\ up \in Releases \cup {"down"})'
        BY <1>20 DEF Trips, Ends
      <3>2. (good \in BOOLEAN /\ cut \in BOOLEAN /\ killed \in BOOLEAN)'
        BY <1>20 DEF Trips, Ends
      <3>3. (unpacked \in BOOLEAN /\ force \in BOOLEAN /\ request \in BOOLEAN)'
        BY <1>20 DEF Trips, Ends
      <3>4. (written \in 0..MaxRows)'
        BY <1>20 DEF Trips, Ends
      <3>5. (db \in [schema: {"from", "to", "part", "torn"}, rows: SUBSET (1..MaxRows)])'
        BY <1>20 DEF Trips, Ends
      <3>6. (saved \in [schema: {"none", "from", "to", "part", "torn"}, rows: SUBSET (1..MaxRows)])'
        BY <1>20 DEF Trips, Ends
      <3>7. (status \in {"none", "running", "succeeded", "failed", "rolled_back"})'
        BY <1>20 DEF Trips, Ends
      <3>8. (step \in Steps \cup {"idle"})'
        BY <1>20 DEF Trips, Ends
      <3>9. QED
        BY <3>1, <3>2, <3>3, <3>4, <3>5, <3>6, <3>7, <3>8 DEF UpdateTypeOK
    <2>2. VerdictTrue'
      BY <1>20 DEF Trips, Ends
    <2>3. StatusSettles'
      BY <1>20 DEF Trips, Ends
    <2>4. OnlyNewIsLost'
      BY <1>20 DEF Trips, Ends
    <2>5. NobodyLeftDown'
      BY <1>20 DEF Trips, Ends
    <2>6. LinkKnown'
      BY <1>20 DEF Trips, Ends
    <2>7. Startable'
      BY <1>20 DEF Trips, Ends
    <2>8. BackupServes'
      BY <1>20 DEF Trips, Ends
    <2>9. StatusKnown'
      BY <1>20 DEF Trips, Ends
    <2>10. QED
      BY <2>1, <2>2, <2>3, <2>4, <2>5, <2>6, <2>7, <2>8, <2>9
  <1>21. CASE MachineStops
    <2>1. UpdateTypeOK'
      <3>1. (link \in Releases /\ up \in Releases \cup {"down"})'
        BY <1>21 DEF MachineStops, Boots, Starts
      <3>2. (good \in BOOLEAN /\ cut \in BOOLEAN /\ killed \in BOOLEAN)'
        BY <1>21 DEF MachineStops, Boots, Starts
      <3>3. (unpacked \in BOOLEAN /\ force \in BOOLEAN /\ request \in BOOLEAN)'
        BY <1>21 DEF MachineStops, Boots, Starts
      <3>4. (written \in 0..MaxRows)'
        BY <1>21 DEF MachineStops, Boots, Starts
      <3>5. (db \in [schema: {"from", "to", "part", "torn"}, rows: SUBSET (1..MaxRows)])'
        BY <1>21 DEF MachineStops, Boots, Starts
      <3>6. (saved \in [schema: {"none", "from", "to", "part", "torn"}, rows: SUBSET (1..MaxRows)])'
        BY <1>21 DEF MachineStops, Boots, Starts
      <3>7. (status \in {"none", "running", "succeeded", "failed", "rolled_back"})'
        BY <1>21 DEF MachineStops, Boots, Starts
      <3>8. (step \in Steps \cup {"idle"})'
        BY <1>21 DEF MachineStops, Boots, Starts
      <3>9. QED
        BY <3>1, <3>2, <3>3, <3>4, <3>5, <3>6, <3>7, <3>8 DEF UpdateTypeOK
    <2>2. VerdictTrue'
      BY <1>21 DEF MachineStops, Boots, Starts
    <2>3. StatusSettles'
      BY <1>21 DEF MachineStops, Boots, Starts
    <2>4. OnlyNewIsLost'
      BY <1>21 DEF MachineStops, Boots, Starts
    <2>5. NobodyLeftDown'
      BY <1>21 DEF MachineStops, Boots, Starts
    <2>6. LinkKnown'
      BY <1>21 DEF MachineStops, Boots, Starts
    <2>7. Startable'
      BY <1>21 DEF MachineStops, Boots, Starts
    <2>8. BackupServes'
      BY <1>21 DEF MachineStops, Boots, Starts
    <2>9. StatusKnown'
      BY <1>21 DEF MachineStops, Boots, Starts
    <2>10. QED
      BY <2>1, <2>2, <2>3, <2>4, <2>5, <2>6, <2>7, <2>8, <2>9
  <1>22. CASE UNCHANGED updateVars
    BY <1>22 DEF updateVars
  <1>23. QED
    BY <1>1, <1>2, <1>3, <1>4, <1>5, <1>6, <1>7, <1>8, <1>9, <1>10, <1>11,
       <1>12, <1>13, <1>14, <1>15, <1>16, <1>17, <1>18, <1>19, <1>20, <1>21,
       <1>22 DEF UpdateNext

(* However an update goes, what is left when its script is done is sound.  *)
THEOREM UpdateIsSound == UpdateSpec => []UpdateSound
  <1>1. UpdateInv => UpdateSound
    BY DEF UpdateInv
  <1>2. QED
    BY UpdateInitInv, UpdateStepInv, <1>1, PTL DEF UpdateSpec

-----------------------------------------------------------------------------
(***************************************************************************)
(* Metrics (services/metrics.py).  A run takes its time once and then      *)
(* reads, writes and prunes by it, beside cycles that commit late and      *)
(* other runs.  The invariant says what a run has read that nobody will    *)
(* write again, and what no run that is under way can have pruned.         *)
(***************************************************************************)
MetricRun == [pc : {"idle", "five", "writeFive", "hour", "writeHour", "prune"},
              at : 0..Horizon, read : [Buckets -> 0..1]]
(* A cycle and a run end in the bucket they began in or the next, *)
PaceHolds ==
    /\ stamped # 0 => stamped \in {clock - 1, clock}
    /\ \A r \in Maintainers : /\ run[r].at \in {0, clock - 1, clock}
                              /\ run[r].at = 0 => run[r].pc = "idle"
    /\ \A x \in {"5m", "1h"} : last[x] <= clock
(* readings stay as long as they are kept, *)
RawHolds == \A b \in Buckets : b + RawKeep >= clock => raw[b] = taken[b]
(* runs side by side took the same time, the latest, *)
TogetherHolds ==
    \A r \in Maintainers : run[r].at # 0 =>
      /\ \A o \in Maintainers : run[o].at \in {0, run[r].at}
      /\ \A x \in {"5m", "1h"} : last[x] <= run[r].at
      /\ \A b \in Buckets : b + RawKeep >= run[r].at => raw[b] = taken[b]
(* what a run has read is there for good, but for the last bucket and hour, *)
ReadHolds ==
    \A r \in Maintainers, b \in Buckets :
      /\ run[r].pc = "writeFive" /\ b \in Elapsed(r) /\ b + 1 < run[r].at => run[r].read[b] = taken[b]
      /\ /\ run[r].pc = "writeHour" /\ HourOf(b) \in ElapsedHours(r)
         /\ HourOf(b) + 1 < HourOf(run[r].at)
         => run[r].read[b] = taken[b]
(* and so are the buckets *)
FiveHolds == \A b \in Buckets : b + 1 < last["5m"] /\ b + FiveKeep >= clock => five[b] = taken[b]
(* and the hours that were rolled up. *)
HourHolds ==
    \A h \in Hours : h + 1 < HourOf(last["1h"]) /\ h * Hour + HourKeep >= clock
                     => hour[h] = Total(taken, h)
MetricsInv ==
    /\ MetricsTypeOK /\ PaceHolds /\ RawHolds
    /\ spaced => TogetherHolds /\ ReadHolds /\ FiveHolds /\ HourHolds

(* Hours are intervals of buckets: *)
LEMMA MoreHours ==
  ASSUME NEW m \in Nat, NEW n \in Nat, m <= n
  PROVE  m * Hour <= n * Hour
  <1>1. PICK d \in Nat : n = m + d
    <2>1. n - m \in Nat /\ n = m + (n - m)
      OBVIOUS
    <2> QED
      BY <2>1
  <1>2. Hour \in Nat
    BY MetricsAssumption
  <1>3. d * Hour \in Nat /\ m * Hour \in Nat
    BY <1>2
  <1>4. n * Hour = m * Hour + d * Hour
    BY <1>1, <1>2
  <1> QED
    BY <1>3, <1>4

(* a bucket is in the hour it is of; *)
LEMMA HourHas ==
  ASSUME NEW b \in Nat
  PROVE  /\ HourOf(b) \in Nat
         /\ HourOf(b) * Hour \in Nat
         /\ HourOf(b) * Hour <= b /\ b < HourOf(b) * Hour + Hour
  <1>1. Hour \in Nat /\ Hour > 0
    BY MetricsAssumption
  <1>2. b \div Hour \in Nat
    BY <1>1
  <1>3. b = Hour * (b \div Hour) + (b % Hour) /\ b % Hour \in 0..(Hour - 1)
    BY <1>1
  <1>4. Hour * (b \div Hour) = (b \div Hour) * Hour
    BY <1>1, <1>2
  <1>5. (b \div Hour) * Hour \in Nat
    BY <1>1, <1>2
  <1> QED
    BY <1>1, <1>2, <1>3, <1>4, <1>5 DEF HourOf
(* a bucket later by less than an hour is in the same hour or the next; *)
LEMMA NextHour ==
  ASSUME NEW a \in Nat, NEW b \in Nat
  PROVE  /\ a <= b => HourOf(a) <= HourOf(b)
         /\ a <= b + Hour => HourOf(a) <= HourOf(b) + 1
         /\ HourOf(b) + 1 < HourOf(a) => b + 1 < a
         /\ HourOf(b) + 2 >= HourOf(a) => b + 3 * Hour > a
  <1>0. Hour \in Nat /\ Hour > 0
    BY MetricsAssumption
  <1> DEFINE p == HourOf(a)
             q == HourOf(b)
  <1>1. p \in Nat /\ p * Hour \in Nat /\ p * Hour <= a /\ a < p * Hour + Hour
    BY HourHas
  <1>2. q \in Nat /\ q * Hour \in Nat /\ q * Hour <= b /\ b < q * Hour + Hour
    BY HourHas
  <1> HIDE DEF p, q
  <1>3. /\ (q + 1) * Hour = q * Hour + Hour
        /\ (q + 2) * Hour = q * Hour + Hour + Hour
        /\ (q + 1) \in Nat /\ (q + 2) \in Nat
    BY <1>0, <1>2
  <1>4. ASSUME a <= b PROVE p <= q
    <2>1. SUFFICES ASSUME q + 1 <= p PROVE FALSE
      BY <1>1, <1>2
    <2>2. (q + 1) * Hour <= p * Hour
      BY <1>1, <1>3, <2>1, MoreHours
    <2> QED
      BY <1>0, <1>1, <1>2, <1>3, <1>4, <2>2
  <1>5. ASSUME a <= b + Hour PROVE p <= q + 1
    <2>1. SUFFICES ASSUME q + 2 <= p PROVE FALSE
      BY <1>1, <1>2
    <2>2. (q + 2) * Hour <= p * Hour
      BY <1>1, <1>3, <2>1, MoreHours
    <2> QED
      BY <1>0, <1>1, <1>2, <1>3, <1>5, <2>2
  <1>6. ASSUME q + 1 < p PROVE b + 1 < a
    BY <1>0, <1>1, <1>2, <1>5, <1>6
  <1>7. ASSUME q + 2 >= p PROVE b + 3 * Hour > a
    <2>1. p * Hour <= (q + 2) * Hour
      BY <1>1, <1>3, <1>7, MoreHours
    <2> QED
      BY <1>0, <1>1, <1>2, <1>3, <2>1
  <1> QED
    BY <1>4, <1>5, <1>6, <1>7 DEF p, q

(* and an hour has as many buckets as it has. *)
LEMMA TotalIs ==
  ASSUME NEW f, NEW h \in Nat
  PROVE  Total(f, h) \in 0..Hour
  <1>0. Hour \in Nat /\ Hour > 0 /\ Horizon \in Nat
    BY MetricsAssumption
  <1> DEFINE S == {b \in Buckets : HourOf(b) = h /\ f[b] = 1}
             first == h * Hour
             T == first..(first + Hour - 1)
  <1>1. first \in Nat
    BY <1>0
  <1>2. S \subseteq T
    <2>1. SUFFICES ASSUME NEW b \in S PROVE b \in T
      OBVIOUS
    <2>2. b \in Nat /\ HourOf(b) = h
      BY <1>0 DEF Buckets
    <2>3. h * Hour <= b /\ b < h * Hour + Hour
      BY <2>2, HourHas
    <2> QED
      BY <1>0, <1>1, <2>2, <2>3
  <1> HIDE DEF first
  <1>3. IsFiniteSet(T) /\ Cardinality(T) = Hour
    BY <1>0, <1>1, FS_Interval
  <1>4. IsFiniteSet(S) /\ Cardinality(S) \in Nat /\ Cardinality(S) <= Cardinality(T)
    BY <1>2, <1>3, FS_Subset, FS_CardinalityType
  <1> QED
    BY <1>0, <1>3, <1>4 DEF Total

(* What the constants are. *)
LEMMA MetricsNumbers ==
  /\ Hour \in Nat /\ Hour > 0 /\ FiveBack = Hour + 1 /\ HourBack = 2
  /\ RawKeep \in Nat /\ FiveKeep \in Nat /\ HourKeep \in Nat /\ RawKeep + 1 >= 3 * Hour
  /\ RawSpan \in Nat /\ FiveSpan \in Nat /\ RawSpan <= RawKeep /\ FiveSpan <= FiveKeep
  /\ Horizon \in Nat /\ Horizon > 0 /\ MaxCuts \in Nat
  /\ Buckets \subseteq Nat \ {0} /\ 1 \in Buckets /\ Hours \subseteq Nat
  /\ \A b \in Buckets : HourOf(b) \in Hours /\ b <= Horizon
  <1>1. /\ Hour \in Nat /\ Hour > 0 /\ FiveBack = Hour + 1 /\ HourBack = 2
        /\ RawKeep \in Nat /\ FiveKeep \in Nat /\ HourKeep \in Nat /\ RawKeep + 1 >= 3 * Hour
        /\ RawSpan \in Nat /\ FiveSpan \in Nat /\ RawSpan <= RawKeep /\ FiveSpan <= FiveKeep
        /\ Horizon \in Nat /\ Horizon > 0 /\ MaxCuts \in Nat
    BY MetricsAssumption
  <1>2. Buckets \subseteq Nat \ {0} /\ 1 \in Buckets /\ Hours \subseteq Nat
    BY <1>1 DEF Buckets, Hours
  <1>3. ASSUME NEW b \in Buckets PROVE HourOf(b) \in Hours /\ b <= Horizon
    <2>1. b \in Nat /\ b <= Horizon
      BY <1>1 DEF Buckets
    <2>2. HourOf(b) \in Nat /\ HourOf(Horizon) \in Nat /\ HourOf(b) <= HourOf(Horizon)
      BY <1>1, <2>1, HourHas, NextHour
    <2> QED
      BY <2>1, <2>2 DEF Hours
  <1> QED
    BY <1>1, <1>2, <1>3

(* What a step needs to know of the state it starts from. *)
LEMMA MetricsTypes ==
  ASSUME MetricsTypeOK
  PROVE  /\ clock \in Nat /\ clock > 0 /\ clock \in Buckets /\ stamped \in Nat /\ cuts \in Nat
         /\ run \in [Maintainers -> MetricRun]
         /\ \A r \in Maintainers : run[r] \in MetricRun /\ run[r].at \in Nat /\ run[r].read \in [Buckets -> 0..1]
         /\ \A x \in {"5m", "1h"} : last[x] \in Buckets /\ last[x] \in Nat
  <1>1. clock \in Nat /\ clock > 0 /\ clock \in Buckets /\ stamped \in Nat
    <2>1. clock \in Buckets /\ stamped \in Buckets \cup {0}
      BY DEF MetricsTypeOK
    <2>2. Buckets \subseteq Nat \ {0}
      BY MetricsNumbers
    <2> QED
      BY <2>1, <2>2
  <1>2. cuts \in Nat
    <2>1. cuts \in 0..MaxCuts
      BY DEF MetricsTypeOK
    <2> QED
      BY <2>1
  <1>3. run \in [Maintainers -> MetricRun]
    BY DEF MetricsTypeOK, MetricRun
  <1>4. ASSUME NEW r \in Maintainers
        PROVE  run[r] \in MetricRun /\ run[r].at \in Nat /\ run[r].read \in [Buckets -> 0..1]
    <2>1. run[r] \in MetricRun
      BY <1>3
    <2>2. run[r].at \in 0..Horizon /\ run[r].read \in [Buckets -> 0..1]
      BY <2>1 DEF MetricRun
    <2> QED
      BY <2>1, <2>2, MetricsNumbers
  <1>5. \A x \in {"5m", "1h"} : last[x] \in Buckets /\ last[x] \in Nat
    BY MetricsNumbers DEF MetricsTypeOK
  <1> QED
    BY <1>1, <1>2, <1>3, <1>4, <1>5

(* A run that is not under way. *)
LEMMA RestingRun ==
  NoRun \in MetricRun /\ NoRun.pc = "idle" /\ NoRun.at = 0 /\ NoRun.read \in [Buckets -> 0..1]
  BY MetricsNumbers DEF NoRun, MetricRun

(* No reading, no run. *)
LEMMA MetricsInitInv == MetricsInit => MetricsInv
  <1> SUFFICES ASSUME MetricsInit PROVE MetricsInv
    OBVIOUS
  <1>1. \A r \in Maintainers : run[r] = NoRun
    BY DEF MetricsInit
  <1>2. MetricsTypeOK
    <2>1. run \in [Maintainers -> MetricRun]
      BY RestingRun DEF MetricsInit
    <2>2. clock \in Buckets /\ stamped \in Buckets \cup {0} /\ last \in [{"5m", "1h"} -> Buckets]
      BY MetricsNumbers DEF MetricsInit
    <2>3. raw \in [Buckets -> 0..1] /\ taken \in [Buckets -> 0..1] /\ five \in [Buckets -> 0..1]
      BY DEF MetricsInit
    <2>4. hour \in [Hours -> 0..Hour]
      BY MetricsNumbers DEF MetricsInit
    <2>5. spaced \in BOOLEAN /\ cuts \in 0..MaxCuts
      BY MetricsNumbers DEF MetricsInit
    <2> QED
      BY <2>1, <2>2, <2>3, <2>4, <2>5 DEF MetricsTypeOK, MetricRun
  <1>3. PaceHolds
    BY <1>1, RestingRun DEF MetricsInit, PaceHolds
  <1>4. RawHolds
    BY DEF MetricsInit, RawHolds
  <1>5. TogetherHolds /\ ReadHolds
    BY <1>1, RestingRun DEF TogetherHolds, ReadHolds
  <1>6. FiveHolds
    BY MetricsNumbers DEF MetricsInit, FiveHolds
  <1>7. HourHolds
    <2>1. ASSUME NEW h \in Hours PROVE ~(h + 1 < HourOf(1))
      <3>1. HourOf(1) \in Nat /\ HourOf(1) <= HourOf(0) + 1
        BY MetricsNumbers, NextHour, HourHas
      <3>2. HourOf(0) = 0
        <4>1. HourOf(0) \in Nat /\ HourOf(0) * Hour <= 0
          BY HourHas
        <4>2. ASSUME HourOf(0) >= 1 PROVE FALSE
          <5>1. 1 * Hour <= HourOf(0) * Hour
            BY <4>1, <4>2, MoreHours
          <5> QED
            BY <4>1, <5>1, MetricsNumbers
        <4> QED
          BY <4>1, <4>2
      <3>3. h \in Nat
        BY MetricsNumbers
      <3> QED
        BY <3>1, <3>2, <3>3
    <2> QED
      BY <2>1 DEF MetricsInit, HourHolds
  <1> QED
    BY <1>2, <1>3, <1>4, <1>5, <1>6, <1>7 DEF MetricsInv

(* A bucket ends: what must be there is less. *)
LEMMA TickInv == MetricsInv /\ MetricsTick => MetricsInv'
  <1> SUFFICES ASSUME MetricsInv, MetricsTick PROVE MetricsInv'
    OBVIOUS
  <1>1. /\ MetricsTypeOK /\ PaceHolds /\ RawHolds
        /\ clock' = clock + 1 /\ clock < Horizon /\ clock \in Nat /\ clock > 0
        /\ stamped \in {0, clock} /\ \A r \in Maintainers : run[r].at \in {0, clock}
        /\ UNCHANGED <<stamped, raw, five, hour, run, taken, last, spaced, cuts>>
    BY MetricsTypes DEF MetricsInv, MetricsTick
  <1>2. clock' \in Buckets
    BY <1>1, MetricsNumbers DEF Buckets
  <1>3. MetricsTypeOK'
    BY <1>1, <1>2 DEF MetricsTypeOK
  <1>4. PaceHolds'
    BY <1>1, MetricsTypes DEF PaceHolds
  <1>5. RawHolds'
    BY <1>1, MetricsNumbers DEF RawHolds
  <1>6. ASSUME spaced PROVE TogetherHolds' /\ ReadHolds' /\ FiveHolds' /\ HourHolds'
    <2>1. TogetherHolds /\ ReadHolds /\ FiveHolds /\ HourHolds
      BY <1>6 DEF MetricsInv
    <2>2. TogetherHolds'
      BY <1>1, <2>1 DEF TogetherHolds
    <2>3. ReadHolds'
      BY <1>1, <2>1 DEF ReadHolds, Elapsed, ElapsedHours
    <2>4. FiveHolds'
      <3>1. ASSUME NEW b \in Buckets, b + FiveKeep >= clock + 1 PROVE b + FiveKeep >= clock
        <4>1. b \in Nat /\ FiveKeep \in Nat
          BY MetricsNumbers
        <4> QED
          BY <1>1, <3>1, <4>1
      <3> QED
        BY <1>1, <2>1, <3>1 DEF FiveHolds
    <2>5. HourHolds'
      <3>1. ASSUME NEW h \in Hours, h * Hour + HourKeep >= clock + 1 PROVE h * Hour + HourKeep >= clock
        <4>1. h * Hour \in Nat
          BY MetricsNumbers
        <4> QED
          BY <1>1, <3>1, <4>1, MetricsNumbers
      <3>2. \A h \in Hours : Total(taken, h)' = Total(taken, h)
        BY <1>1 DEF Total
      <3> QED
        BY <1>1, <2>1, <3>1, <3>2 DEF HourHolds
    <2> QED
      BY <2>2, <2>3, <2>4, <2>5
  <1> QED
    BY <1>1, <1>3, <1>4, <1>5, <1>6 DEF MetricsInv

(* A cycle takes its time and commits, in a bucket that no run may count as *)
(* rolled up yet.                                                           *)
LEMMA CyclesInv == MetricsInv /\ (CycleStamps \/ WriteSamples) => MetricsInv'
  <1> SUFFICES ASSUME MetricsInv, CycleStamps \/ WriteSamples PROVE MetricsInv'
    OBVIOUS
  <1>0. MetricsTypeOK /\ PaceHolds /\ RawHolds
    BY DEF MetricsInv
  <1>1. CASE CycleStamps
    <2>1. stamped' = clock /\ UNCHANGED <<clock, raw, five, hour, run, taken, last, spaced, cuts>>
      BY <1>1 DEF CycleStamps
    <2>2. MetricsTypeOK'
      BY <1>0, <2>1 DEF MetricsTypeOK
    <2>3. PaceHolds'
      BY <1>0, <2>1 DEF PaceHolds
    <2>4. \A h \in Hours : Total(taken, h)' = Total(taken, h)
      BY <2>1 DEF Total
    <2>5. RawHolds' /\ (spaced => TogetherHolds' /\ ReadHolds' /\ FiveHolds')
      BY <2>1 DEF MetricsInv, RawHolds, TogetherHolds, ReadHolds, Elapsed, ElapsedHours, FiveHolds
    <2>6. spaced => HourHolds'
      BY <2>1, <2>4 DEF MetricsInv, HourHolds
    <2> QED
      BY <2>1, <2>2, <2>3, <2>5, <2>6 DEF MetricsInv
  <1>2. CASE WriteSamples
    <2>1. /\ stamped # 0 /\ stamped' = 0
          /\ raw' = [raw EXCEPT ![stamped] = 1] /\ taken' = [taken EXCEPT ![stamped] = 1]
          /\ UNCHANGED <<clock, five, hour, run, last, spaced, cuts>>
      BY <1>2 DEF WriteSamples
    <2>2. stamped \in Buckets /\ stamped \in {clock - 1, clock} /\ clock \in Nat /\ stamped \in Nat
      BY <1>0, <2>1, MetricsTypes DEF MetricsTypeOK, PaceHolds
    <2>3. MetricsTypeOK'
      <3>1. raw' \in [Buckets -> 0..1] /\ taken' \in [Buckets -> 0..1]
        <4>1. raw \in [Buckets -> 0..1] /\ taken \in [Buckets -> 0..1]
          BY <1>0 DEF MetricsTypeOK
        <4>2. raw' = [raw EXCEPT ![stamped] = 1] /\ taken' = [taken EXCEPT ![stamped] = 1]
          BY <2>1
        <4>3. 1 \in 0..1
          OBVIOUS
        <4> QED
          BY <4>1, <4>2, <4>3
      <3>2. stamped' \in Buckets \cup {0}
        BY <2>1
      <3> QED
        BY <1>0, <2>1, <3>1, <3>2 DEF MetricsTypeOK
    <2>4. PaceHolds'
      BY <1>0, <2>1 DEF PaceHolds
    <2>5. \A b \in Buckets : /\ raw[b] = taken[b] => raw'[b] = taken'[b]
                             /\ b # stamped => taken'[b] = taken[b]
      BY <1>0, <2>1, <2>2 DEF MetricsTypeOK
    <2>6. RawHolds'
      BY <1>0, <2>1, <2>5 DEF RawHolds
    <2>7. ASSUME spaced PROVE TogetherHolds' /\ ReadHolds' /\ FiveHolds' /\ HourHolds'
      <3>1. TogetherHolds /\ ReadHolds /\ FiveHolds /\ HourHolds
        BY <2>7 DEF MetricsInv
      <3>2. TogetherHolds'
        BY <2>1, <2>5, <3>1 DEF TogetherHolds
      <3>3. ReadHolds'
        <4>1. SUFFICES ASSUME NEW r \in Maintainers, NEW b \in Buckets, b + 1 < run[r].at
                       PROVE  taken'[b] = taken[b]
          <5>1. \A r \in Maintainers, b \in Buckets : HourOf(b) + 1 < HourOf(run[r].at) => b + 1 < run[r].at
            BY <1>0, MetricsTypes, MetricsNumbers, NextHour
          <5> QED
            BY <2>1, <3>1, <4>1, <5>1 DEF ReadHolds, Elapsed, ElapsedHours
        <4>2. run[r].at \in Nat /\ run[r].at <= clock /\ b \in Nat
          BY <1>0, <2>2, MetricsTypes, MetricsNumbers DEF PaceHolds
        <4>3. b # stamped
          BY <2>2, <4>1, <4>2
        <4> QED
          BY <2>5, <4>3
      <3>4. FiveHolds'
        <4>1. SUFFICES ASSUME NEW b \in Buckets, b + 1 < last["5m"] PROVE taken'[b] = taken[b]
          BY <2>1, <3>1 DEF FiveHolds
        <4>2. last["5m"] \in Nat /\ last["5m"] <= clock /\ b \in Nat
          BY <1>0, MetricsTypes, MetricsNumbers DEF PaceHolds
        <4>3. b # stamped
          BY <2>2, <4>1, <4>2
        <4> QED
          BY <2>5, <4>3
      <3>5. HourHolds'
        <4>1. SUFFICES ASSUME NEW h \in Hours, h + 1 < HourOf(last["1h"])
                       PROVE  Total(taken', h) = Total(taken, h)
          BY <2>1, <3>1 DEF HourHolds
        <4>2. last["1h"] \in Nat /\ last["1h"] <= stamped + 1 /\ h \in Nat
          BY <1>0, <2>2, MetricsTypes, MetricsNumbers DEF PaceHolds
        <4>3. last["1h"] <= stamped + Hour
          BY <2>2, <4>2, MetricsNumbers
        <4>4. HourOf(last["1h"]) <= HourOf(stamped) + 1 /\ HourOf(stamped) \in Nat /\ HourOf(last["1h"]) \in Nat
          BY <2>2, <4>2, <4>3, NextHour, HourHas
        <4>5. HourOf(stamped) # h
          BY <4>1, <4>2, <4>4
        <4>6. {b \in Buckets : HourOf(b) = h /\ taken'[b] = 1} = {b \in Buckets : HourOf(b) = h /\ taken[b] = 1}
          BY <2>5, <4>5
        <4> QED
          BY <4>6 DEF Total
      <3> QED
        BY <3>2, <3>3, <3>4, <3>5
    <2> QED
      BY <2>1, <2>3, <2>4, <2>6, <2>7 DEF MetricsInv
  <1> QED
    BY <1>1, <1>2

(* What a step of one run leaves to show: the run itself, and what it wrote. *)
LEMMA RunChanges ==
  ASSUME MetricsTypeOK, NEW r \in Maintainers, NEW c \in MetricRun, run' = [run EXCEPT ![r] = c]
  PROVE  /\ run' \in [Maintainers -> MetricRun] /\ run'[r] = c
         /\ \A o \in Maintainers \ {r} : run'[o] = run[o]
  BY MetricsTypes

(* A run takes its time: the latest there is. *)
LEMMA StartsInv == \A r \in Maintainers : MetricsInv /\ MaintainStarts(r) => MetricsInv'
  <1> SUFFICES ASSUME NEW r \in Maintainers, MetricsInv, MaintainStarts(r) PROVE MetricsInv'
    OBVIOUS
  <1>0. MetricsTypeOK /\ PaceHolds /\ RawHolds
    BY DEF MetricsInv
  <1> DEFINE c == [run[r] EXCEPT !.pc = "five", !.at = clock]
  <1>1. /\ run' = [run EXCEPT ![r] = c]
        /\ spaced' = (spaced /\ \A o \in Maintainers : run[o].at \in {0, clock})
        /\ UNCHANGED <<clock, stamped, raw, five, hour, taken, last, cuts>>
    BY <1>0, MetricsTypes DEF MaintainStarts
  <1>2. c \in MetricRun /\ c.pc = "five" /\ c.at = clock /\ clock \in Nat /\ clock > 0
    <2>1. run[r] \in MetricRun /\ clock \in Nat /\ clock > 0 /\ clock \in Buckets
      BY <1>0, MetricsTypes
    <2>2. clock \in 0..Horizon
      BY <2>1, MetricsNumbers
    <2> QED
      BY <2>1, <2>2 DEF MetricRun
  <1> HIDE DEF c
  <1>3. /\ run' \in [Maintainers -> MetricRun] /\ run'[r] = c
        /\ \A o \in Maintainers \ {r} : run'[o] = run[o]
    BY <1>0, <1>1, <1>2, RunChanges
  <1>4. spaced' \in BOOLEAN
    BY <1>1
  <1>5. MetricsTypeOK'
    BY <1>0, <1>1, <1>3, <1>4 DEF MetricsTypeOK, MetricRun
  <1>6. PaceHolds'
    BY <1>0, <1>1, <1>2, <1>3 DEF PaceHolds
  <1>7. RawHolds'
    BY <1>0, <1>1 DEF RawHolds
  <1>8. ASSUME spaced' PROVE TogetherHolds' /\ ReadHolds' /\ FiveHolds' /\ HourHolds'
    <2>1. spaced /\ \A o \in Maintainers : run[o].at \in {0, clock}
      BY <1>1, <1>8
    <2>2. TogetherHolds /\ ReadHolds /\ FiveHolds /\ HourHolds
      BY <2>1 DEF MetricsInv
    <2>3. \A o \in Maintainers : run'[o].at \in {0, clock}
      BY <1>2, <1>3, <2>1
    <2>4. TogetherHolds'
      BY <1>0, <1>1, <2>3 DEF TogetherHolds, PaceHolds, RawHolds
    <2>5. ReadHolds'
      <3>1. SUFFICES ASSUME NEW o \in Maintainers, NEW b \in Buckets, run'[o].pc \in {"writeFive", "writeHour"}
                     PROVE  run'[o] = run[o] /\ taken' = taken
        BY <2>2, <3>1 DEF ReadHolds, Elapsed, ElapsedHours
      <3> QED
        BY <1>1, <1>2, <1>3, <3>1
    <2>6. FiveHolds'
      BY <1>1, <2>2 DEF FiveHolds
    <2>7. HourHolds'
      <3>1. \A h \in Hours : Total(taken, h)' = Total(taken, h)
        BY <1>1 DEF Total
      <3> QED
        BY <1>1, <2>2, <3>1 DEF HourHolds
    <2> QED
      BY <2>4, <2>5, <2>6, <2>7
  <1> QED
    BY <1>5, <1>6, <1>7, <1>8 DEF MetricsInv

(* It reads: what it finds of closed buckets is all that will ever be there. *)
LEMMA FindsInv == \A r \in Maintainers : MetricsInv /\ Reads(r) => MetricsInv'
  <1> SUFFICES ASSUME NEW r \in Maintainers, MetricsInv, Reads(r) PROVE MetricsInv'
    OBVIOUS
  <1>0. MetricsTypeOK /\ PaceHolds /\ RawHolds
    BY DEF MetricsInv
  <1>1. UNCHANGED <<clock, stamped, raw, five, hour, taken, last, spaced, cuts>>
    BY DEF Reads
  <1> DEFINE five0 == [b \in Buckets |-> Found(b, b \in Elapsed(r))]
             hour0 == [b \in Buckets |-> Found(b, HourOf(b) \in ElapsedHours(r))]
  <1>2. /\ five0 \in [Buckets -> 0..1] /\ hour0 \in [Buckets -> 0..1]
        /\ \A b \in Buckets : /\ b \in Elapsed(r) => five0[b] = raw[b]
                              /\ HourOf(b) \in ElapsedHours(r) => hour0[b] = raw[b]
    <2>1. raw \in [Buckets -> 0..1]
      BY <1>0 DEF MetricsTypeOK
    <2> QED
      BY <2>1 DEF Found
  <1>3. \/ /\ run[r].pc = "five"
           /\ run' = [run EXCEPT ![r] = [run[r] EXCEPT !.read = five0, !.pc = "writeFive"]]
        \/ /\ run[r].pc = "hour"
           /\ run' = [run EXCEPT ![r] = [run[r] EXCEPT !.read = hour0, !.pc = "writeHour"]]
    BY <1>0, MetricsTypes DEF Reads
  <1> HIDE DEF five0, hour0
  <1>4. PICK c \in MetricRun :
          /\ run' = [run EXCEPT ![r] = c] /\ c.at = run[r].at /\ c.at # 0
          /\ \/ c.pc = "writeFive" /\ c.read = five0
             \/ c.pc = "writeHour" /\ c.read = hour0
    <2>1. run[r] \in MetricRun /\ run[r].pc \in {"five", "hour"}
      BY <1>0, <1>3, MetricsTypes
    <2>2. run[r].at # 0
      BY <1>0, <2>1 DEF PaceHolds
    <2>3. /\ [run[r] EXCEPT !.read = five0, !.pc = "writeFive"] \in MetricRun
          /\ [run[r] EXCEPT !.read = hour0, !.pc = "writeHour"] \in MetricRun
      BY <1>2, <2>1 DEF MetricRun
    <2>4. /\ [run[r] EXCEPT !.read = five0, !.pc = "writeFive"].at = run[r].at
          /\ [run[r] EXCEPT !.read = five0, !.pc = "writeFive"].pc = "writeFive"
          /\ [run[r] EXCEPT !.read = five0, !.pc = "writeFive"].read = five0
      BY <2>1 DEF MetricRun
    <2>5. /\ [run[r] EXCEPT !.read = hour0, !.pc = "writeHour"].at = run[r].at
          /\ [run[r] EXCEPT !.read = hour0, !.pc = "writeHour"].pc = "writeHour"
          /\ [run[r] EXCEPT !.read = hour0, !.pc = "writeHour"].read = hour0
      BY <2>1 DEF MetricRun
    <2> QED
      <3>1. CASE run' = [run EXCEPT ![r] = [run[r] EXCEPT !.read = five0, !.pc = "writeFive"]]
        <4> DEFINE d == [run[r] EXCEPT !.read = five0, !.pc = "writeFive"]
        <4>1. d \in MetricRun /\ d.at = run[r].at /\ d.pc = "writeFive" /\ d.read = five0
          BY <2>3, <2>4
        <4>2. run' = [run EXCEPT ![r] = d]
          BY <3>1
        <4> HIDE DEF d
        <4>3. d.at # 0
          BY <2>2, <4>1
        <4> QED
          <5>1. \/ d.pc = "writeFive" /\ d.read = five0
                \/ d.pc = "writeHour" /\ d.read = hour0
            BY <4>1
          <5>2. d \in MetricRun /\ d.at = run[r].at
            BY <4>1
          <5> QED
            BY <4>2, <4>3, <5>1, <5>2, Zenon
      <3>2. CASE run' = [run EXCEPT ![r] = [run[r] EXCEPT !.read = hour0, !.pc = "writeHour"]]
        <4> DEFINE d == [run[r] EXCEPT !.read = hour0, !.pc = "writeHour"]
        <4>1. d \in MetricRun /\ d.at = run[r].at /\ d.pc = "writeHour" /\ d.read = hour0
          BY <2>3, <2>5
        <4>2. run' = [run EXCEPT ![r] = d]
          BY <3>2
        <4> HIDE DEF d
        <4>3. d.at # 0
          BY <2>2, <4>1
        <4> QED
          <5>1. \/ d.pc = "writeFive" /\ d.read = five0
                \/ d.pc = "writeHour" /\ d.read = hour0
            BY <4>1
          <5>2. d \in MetricRun /\ d.at = run[r].at
            BY <4>1
          <5> QED
            BY <4>2, <4>3, <5>1, <5>2, Zenon
      <3> QED
        BY <1>3, <3>1, <3>2
  <1>5. /\ run' \in [Maintainers -> MetricRun] /\ run'[r] = c
        /\ \A o \in Maintainers \ {r} : run'[o] = run[o]
    BY <1>0, <1>4, RunChanges
  <1>6. MetricsTypeOK'
    BY <1>0, <1>1, <1>5 DEF MetricsTypeOK, MetricRun
  <1>7. \A o \in Maintainers : run'[o].at = run[o].at
    BY <1>4, <1>5
  <1>8. PaceHolds'
    BY <1>0, <1>1, <1>4, <1>5, <1>7 DEF PaceHolds
  <1>9. RawHolds'
    BY <1>0, <1>1 DEF RawHolds
  <1>10. ASSUME spaced PROVE TogetherHolds' /\ ReadHolds' /\ FiveHolds' /\ HourHolds'
    <2>1. TogetherHolds /\ ReadHolds /\ FiveHolds /\ HourHolds
      BY <1>10 DEF MetricsInv
    <2>2. TogetherHolds'
      BY <1>1, <1>7, <2>1 DEF TogetherHolds
    <2>3. ReadHolds'
      <3>1. SUFFICES ASSUME NEW b \in Buckets,
                            \/ b \in Elapsed(r)
                            \/ HourOf(b) \in ElapsedHours(r)
                     PROVE  raw[b] = taken[b]
        <4>1. Elapsed(r)' = Elapsed(r) /\ ElapsedHours(r)' = ElapsedHours(r)
          BY <1>7 DEF Elapsed, ElapsedHours
        <4>2. \A o \in Maintainers \ {r} : Elapsed(o)' = Elapsed(o) /\ ElapsedHours(o)' = ElapsedHours(o)
          BY <1>7 DEF Elapsed, ElapsedHours
        <4>3. taken' = taken
          BY <1>1
        <4>4. ASSUME NEW b \in Buckets
              PROVE  /\ c.pc = "writeFive" /\ b \in Elapsed(r) => c.read[b] = taken[b]
                     /\ c.pc = "writeHour" /\ HourOf(b) \in ElapsedHours(r) => c.read[b] = taken[b]
          BY <1>2, <1>4, <3>1
        <4>5. ASSUME NEW o \in Maintainers, NEW b \in Buckets
              PROVE  /\ run'[o].pc = "writeFive" /\ b \in Elapsed(o)' /\ b + 1 < run'[o].at
                          => run'[o].read[b] = taken[b]
                     /\ /\ run'[o].pc = "writeHour" /\ HourOf(b) \in ElapsedHours(o)'
                        /\ HourOf(b) + 1 < HourOf(run'[o].at)
                        => run'[o].read[b] = taken[b]
          <5>1. CASE o = r
            BY <1>5, <4>1, <4>4, <5>1
          <5>2. CASE o # r
            BY <1>5, <2>1, <4>2, <5>2 DEF ReadHolds
          <5> QED
            BY <5>1, <5>2
        <4> QED
          BY <4>3, <4>5 DEF ReadHolds, HourOf
      <3>2. run[r].at \in Nat /\ run[r].at # 0 /\ b \in Nat
        BY <1>0, <1>4, MetricsTypes, MetricsNumbers
      <3>3. b + RawKeep >= run[r].at
        <4>1. CASE b \in Elapsed(r)
          <5>1. b + FiveBack >= run[r].at
            BY <4>1 DEF Elapsed
          <5> QED
            BY <3>2, <5>1, MetricsNumbers
        <4>2. CASE HourOf(b) \in ElapsedHours(r)
          <5>1. HourOf(b) + 2 >= HourOf(run[r].at)
            BY <4>2, MetricsNumbers DEF ElapsedHours
          <5>2. b + 3 * Hour > run[r].at
            BY <3>2, <5>1, NextHour
          <5>3. 3 * Hour \in Nat
            BY MetricsNumbers
          <5> QED
            BY <3>2, <5>2, <5>3, MetricsNumbers
        <4> QED
          BY <3>1, <4>1, <4>2
      <3> QED
        BY <2>1, <3>2, <3>3 DEF TogetherHolds
    <2>4. FiveHolds'
      BY <1>1, <2>1 DEF FiveHolds
    <2>5. HourHolds'
      <3>1. \A h \in Hours : Total(taken, h)' = Total(taken, h)
        BY <1>1 DEF Total
      <3> QED
        BY <1>1, <2>1, <3>1 DEF HourHolds
    <2> QED
      BY <2>2, <2>3, <2>4, <2>5
  <1> QED
    BY <1>1, <1>6, <1>8, <1>9, <1>10 DEF MetricsInv

(* What is common to the writes of a run: it rolls up what a run before it, *)
(* or it itself, made whole.                                                *)
LEMMA RollsUpInv ==
  ASSUME MetricsInv, NEW r \in Maintainers, NEW x \in {"5m", "1h"}, run[r].pc # "idle", RollsUp(r, x)
  PROVE  /\ last' \in [{"5m", "1h"} -> Buckets] /\ spaced' \in BOOLEAN
         /\ \A y \in {"5m", "1h"} : last'[y] <= clock
         /\ \A y \in {"5m", "1h"} : y # x => last'[y] = last[y]
         /\ spaced' => /\ spaced /\ last'[x] = run[r].at /\ run[r].at <= last[x] + Hour
                       /\ \A o \in Maintainers : run[o].at # 0 => run[o].at = run[r].at
  <1>0. /\ MetricsTypeOK /\ PaceHolds /\ run[r].at # 0 /\ run[r].at \in Nat /\ last[x] \in Nat
        /\ clock \in Nat /\ clock > 0 /\ run[r].at \in {0, clock - 1, clock} /\ last[x] <= clock
    BY MetricsTypes DEF MetricsInv, PaceHolds
  <1>1. run[r].at \in Buckets
    <2>1. run[r].at <= Horizon
      <3>1. clock <= Horizon
        BY <1>0, MetricsTypes, MetricsNumbers
      <3> QED
        BY <1>0, <3>1, MetricsNumbers
    <2> QED
      BY <1>0, <2>1, MetricsNumbers DEF Buckets
  <1>2. /\ last \in [{"5m", "1h"} -> Buckets]
        /\ last' = [last EXCEPT ![x] = IF run[r].at > last[x] THEN run[r].at ELSE last[x]]
    BY <1>0 DEF RollsUp, MetricsTypeOK
  <1>3. last' \in [{"5m", "1h"} -> Buckets] /\ \A y \in {"5m", "1h"} : y # x => last'[y] = last[y]
    BY <1>1, <1>2
  <1>4. last'[x] = IF run[r].at > last[x] THEN run[r].at ELSE last[x]
    BY <1>2
  <1>5. ASSUME NEW y \in {"5m", "1h"} PROVE last'[y] <= clock
    <2>1. CASE y = x
      BY <1>0, <1>4, <2>1
    <2>2. CASE y # x
      BY <1>0, <1>3, <2>2 DEF PaceHolds
    <2> QED
      BY <2>1, <2>2
  <1>6. spaced' = (spaced /\ run[r].at <= last[x] + Hour)
    BY DEF RollsUp
  <1>7. ASSUME spaced'
        PROVE  /\ spaced /\ last'[x] = run[r].at /\ run[r].at <= last[x] + Hour
               /\ \A o \in Maintainers : run[o].at # 0 => run[o].at = run[r].at
    <2>1. spaced /\ run[r].at <= last[x] + Hour
      BY <1>6, <1>7
    <2>2. TogetherHolds
      BY <2>1 DEF MetricsInv
    <2>3. last[x] <= run[r].at
      BY <1>0, <2>2 DEF TogetherHolds
    <2>4. last'[x] = run[r].at
      BY <1>0, <1>4, <2>3
    <2> QED
      BY <1>0, <2>1, <2>2, <2>4 DEF TogetherHolds
  <1>8. spaced' \in BOOLEAN
    BY <1>6
  <1> QED
    BY <1>3, <1>5, <1>7, <1>8

(* What is common to what the other runs know. *)
LEMMA OthersKnow ==
  ASSUME MetricsInv, spaced, NEW r \in Maintainers, NEW c \in MetricRun, run' = [run EXCEPT ![r] = c],
         c.pc \in {"idle", "hour", "prune"}, UNCHANGED taken
  PROVE  ReadHolds'
  <1>1. MetricsTypeOK /\ ReadHolds
    BY DEF MetricsInv
  <1>2. run'[r] = c /\ \A o \in Maintainers \ {r} : run'[o] = run[o]
    BY <1>1, RunChanges
  <1>3. SUFFICES ASSUME NEW o \in Maintainers, run'[o].pc \in {"writeFive", "writeHour"}
                 PROVE  run'[o] = run[o]
    BY <1>1, <1>3 DEF ReadHolds, Elapsed, ElapsedHours
  <1> QED
    BY <1>2, <1>3

(* A run rolls up the buckets of the last hour and one. *)
LEMMA FivesInv == \A r \in Maintainers : MetricsInv /\ WritesFive(r) => MetricsInv'
  <1> SUFFICES ASSUME NEW r \in Maintainers, MetricsInv, WritesFive(r) PROVE MetricsInv'
    OBVIOUS
  <1>0. /\ MetricsTypeOK /\ PaceHolds /\ RawHolds /\ run[r].pc = "writeFive" /\ RollsUp(r, "5m")
        /\ five' = [b \in Buckets |-> IF b \in Elapsed(r) THEN run[r].read[b] ELSE five[b]]
        /\ UNCHANGED <<clock, stamped, raw, hour, taken, cuts>>
    BY DEF MetricsInv, WritesFive
  <1> DEFINE c == [run[r] EXCEPT !.pc = "hour", !.read = NoRun.read]
  <1>1. run' = [run EXCEPT ![r] = c]
    BY <1>0, MetricsTypes DEF WritesFive
  <1>2. c \in MetricRun /\ c.at = run[r].at /\ c.pc = "hour"
    <2>1. run[r] \in MetricRun /\ NoRun.read \in [Buckets -> 0..1]
      BY <1>0, MetricsTypes, RestingRun
    <2>2. c \in MetricRun
      BY <2>1 DEF MetricRun
    <2> QED
      BY <2>1, <2>2 DEF MetricRun
  <1> HIDE DEF c
  <1>3. /\ run' \in [Maintainers -> MetricRun] /\ run'[r] = c
        /\ \A o \in Maintainers \ {r} : run'[o] = run[o]
    BY <1>0, <1>1, <1>2, RunChanges
  <1>4. \A o \in Maintainers : run'[o].at = run[o].at
    BY <1>2, <1>3
  <1>5. /\ last' \in [{"5m", "1h"} -> Buckets] /\ spaced' \in BOOLEAN
        /\ \A y \in {"5m", "1h"} : last'[y] <= clock
        /\ last'["1h"] = last["1h"]
        /\ spaced' => /\ spaced /\ last'["5m"] = run[r].at /\ run[r].at <= last["5m"] + Hour
                      /\ \A o \in Maintainers : run[o].at # 0 => run[o].at = run[r].at
    BY <1>0, RollsUpInv
  <1>6. five' \in [Buckets -> 0..1]
    <2>1. run[r].read \in [Buckets -> 0..1] /\ five \in [Buckets -> 0..1]
      BY <1>0, MetricsTypes DEF MetricsTypeOK
    <2> QED
      BY <1>0, <2>1
  <1>7. MetricsTypeOK'
    BY <1>0, <1>3, <1>5, <1>6 DEF MetricsTypeOK, MetricRun
  <1>8. PaceHolds'
    BY <1>0, <1>2, <1>3, <1>4, <1>5 DEF PaceHolds
  <1>9. RawHolds'
    BY <1>0 DEF RawHolds
  <1>10. ASSUME spaced' PROVE TogetherHolds' /\ ReadHolds' /\ FiveHolds' /\ HourHolds'
    <2>1. /\ spaced /\ last'["5m"] = run[r].at /\ run[r].at <= last["5m"] + Hour
          /\ \A o \in Maintainers : run[o].at # 0 => run[o].at = run[r].at
      BY <1>5, <1>10
    <2>2. TogetherHolds /\ ReadHolds /\ FiveHolds /\ HourHolds
      BY <2>1 DEF MetricsInv
    <2>3. run[r].at \in Nat /\ last["5m"] \in Nat
      BY <1>0, MetricsTypes
    <2>4. TogetherHolds'
      <3>1. SUFFICES ASSUME NEW o \in Maintainers, run[o].at # 0
                     PROVE  \A x \in {"5m", "1h"} : last'[x] <= run[o].at
        BY <1>0, <1>4, <2>2, <3>1 DEF TogetherHolds
      <3>2. run[o].at = run[r].at /\ last'["5m"] <= run[o].at
        BY <2>1, <2>3, <3>1
      <3> QED
        BY <1>5, <2>2, <3>1, <3>2 DEF TogetherHolds
    <2>5. ReadHolds'
      BY <1>0, <1>1, <1>2, <2>1, OthersKnow
    <2>6. FiveHolds'
      <3>1. SUFFICES ASSUME NEW b \in Buckets, b + 1 < run[r].at, b + FiveKeep >= clock
                     PROVE  five'[b] = taken[b]
        BY <1>0, <2>1 DEF FiveHolds
      <3>2. b \in Nat
        BY MetricsNumbers
      <3>3. CASE b \in Elapsed(r)
        BY <1>0, <2>2, <3>1, <3>3 DEF ReadHolds
      <3>4. CASE b \notin Elapsed(r)
        <4>1. b + FiveBack < run[r].at
          BY <2>3, <3>1, <3>2, <3>4, MetricsNumbers DEF Elapsed
        <4>2. b + 1 < last["5m"]
          BY <2>1, <2>3, <3>2, <4>1, MetricsNumbers
        <4> QED
          BY <1>0, <2>2, <3>1, <3>4, <4>2 DEF FiveHolds
      <3> QED
        BY <3>3, <3>4
    <2>7. HourHolds'
      <3>1. \A h \in Hours : Total(taken, h)' = Total(taken, h)
        BY <1>0 DEF Total
      <3>2. HourOf(last["1h"])' = HourOf(last["1h"])
        BY <1>5 DEF HourOf
      <3> QED
        BY <1>0, <2>2, <3>1, <3>2 DEF HourHolds
    <2> QED
      BY <2>4, <2>5, <2>6, <2>7
  <1> QED
    BY <1>7, <1>8, <1>9, <1>10 DEF MetricsInv

(* A run rolls up the last two hours. *)
LEMMA HoursInv == \A r \in Maintainers : MetricsInv /\ WritesHour(r) => MetricsInv'
  <1> SUFFICES ASSUME NEW r \in Maintainers, MetricsInv, WritesHour(r) PROVE MetricsInv'
    OBVIOUS
  <1>0. /\ MetricsTypeOK /\ PaceHolds /\ RawHolds /\ run[r].pc = "writeHour" /\ RollsUp(r, "1h")
        /\ hour' = [h \in Hours |-> IF h \in ElapsedHours(r) THEN Total(run[r].read, h) ELSE hour[h]]
        /\ UNCHANGED <<clock, stamped, raw, five, taken, cuts>>
    BY DEF MetricsInv, WritesHour
  <1> DEFINE c == [run[r] EXCEPT !.pc = "prune", !.read = NoRun.read]
  <1>1. run' = [run EXCEPT ![r] = c]
    BY <1>0, MetricsTypes DEF WritesHour
  <1>2. c \in MetricRun /\ c.at = run[r].at /\ c.pc = "prune"
    <2>1. run[r] \in MetricRun /\ NoRun.read \in [Buckets -> 0..1]
      BY <1>0, MetricsTypes, RestingRun
    <2>2. c \in MetricRun
      BY <2>1 DEF MetricRun
    <2> QED
      BY <2>1, <2>2 DEF MetricRun
  <1> HIDE DEF c
  <1>3. /\ run' \in [Maintainers -> MetricRun] /\ run'[r] = c
        /\ \A o \in Maintainers \ {r} : run'[o] = run[o]
    BY <1>0, <1>1, <1>2, RunChanges
  <1>4. \A o \in Maintainers : run'[o].at = run[o].at
    BY <1>2, <1>3
  <1>5. /\ last' \in [{"5m", "1h"} -> Buckets] /\ spaced' \in BOOLEAN
        /\ \A y \in {"5m", "1h"} : last'[y] <= clock
        /\ last'["5m"] = last["5m"]
        /\ spaced' => /\ spaced /\ last'["1h"] = run[r].at /\ run[r].at <= last["1h"] + Hour
                      /\ \A o \in Maintainers : run[o].at # 0 => run[o].at = run[r].at
    BY <1>0, RollsUpInv
  <1>6. hour' \in [Hours -> 0..Hour]
    <2>1. hour \in [Hours -> 0..Hour] /\ \A h \in Hours : Total(run[r].read, h) \in 0..Hour
      BY <1>0, TotalIs, MetricsNumbers DEF MetricsTypeOK
    <2> QED
      BY <1>0, <2>1
  <1>7. MetricsTypeOK'
    BY <1>0, <1>3, <1>5, <1>6 DEF MetricsTypeOK, MetricRun
  <1>8. PaceHolds'
    BY <1>0, <1>2, <1>3, <1>4, <1>5 DEF PaceHolds
  <1>9. RawHolds'
    BY <1>0 DEF RawHolds
  <1>10. ASSUME spaced' PROVE TogetherHolds' /\ ReadHolds' /\ FiveHolds' /\ HourHolds'
    <2>1. /\ spaced /\ last'["1h"] = run[r].at /\ run[r].at <= last["1h"] + Hour
          /\ \A o \in Maintainers : run[o].at # 0 => run[o].at = run[r].at
      BY <1>5, <1>10
    <2>2. TogetherHolds /\ ReadHolds /\ FiveHolds /\ HourHolds
      BY <2>1 DEF MetricsInv
    <2>3. run[r].at \in Nat /\ last["1h"] \in Nat
      BY <1>0, MetricsTypes
    <2>4. TogetherHolds'
      <3>1. SUFFICES ASSUME NEW o \in Maintainers, run[o].at # 0
                     PROVE  \A x \in {"5m", "1h"} : last'[x] <= run[o].at
        BY <1>0, <1>4, <2>2, <3>1 DEF TogetherHolds
      <3>2. run[o].at = run[r].at /\ last'["1h"] <= run[o].at
        BY <2>1, <2>3, <3>1
      <3> QED
        BY <1>5, <2>2, <3>1, <3>2 DEF TogetherHolds
    <2>5. ReadHolds'
      BY <1>0, <1>1, <1>2, <2>1, OthersKnow
    <2>6. FiveHolds'
      BY <1>0, <1>5, <2>2 DEF FiveHolds
    <2>7. HourHolds'
      <3>1. SUFFICES ASSUME NEW h \in Hours, h + 1 < HourOf(run[r].at), h * Hour + HourKeep >= clock
                     PROVE  hour'[h] = Total(taken, h)
        <4>1. \A h \in Hours : Total(taken, h)' = Total(taken, h)
          BY <1>0 DEF Total
        <4>2. HourOf(last["1h"])' = HourOf(run[r].at)
          BY <2>1 DEF HourOf
        <4> QED
          BY <1>0, <3>1, <4>1, <4>2 DEF HourHolds
      <3>2. h \in Nat /\ HourOf(run[r].at) \in Nat /\ HourOf(last["1h"]) \in Nat
        BY <2>3, MetricsNumbers, HourHas
      <3>3. CASE h \in ElapsedHours(r)
        <4>1. \A b \in Buckets : HourOf(b) = h => run[r].read[b] = taken[b]
          BY <1>0, <2>2, <3>1, <3>3 DEF ReadHolds
        <4>2. {b \in Buckets : HourOf(b) = h /\ run[r].read[b] = 1}
                = {b \in Buckets : HourOf(b) = h /\ taken[b] = 1}
          BY <4>1
        <4> QED
          BY <1>0, <3>3, <4>2 DEF Total
      <3>4. CASE h \notin ElapsedHours(r)
        <4>1. h + 2 < HourOf(run[r].at)
          BY <3>1, <3>2, <3>4, MetricsNumbers DEF ElapsedHours
        <4>2. HourOf(run[r].at) <= HourOf(last["1h"]) + 1
          BY <2>1, <2>3, NextHour
        <4>3. h + 1 < HourOf(last["1h"])
          BY <3>2, <4>1, <4>2
        <4> QED
          BY <1>0, <2>2, <3>1, <3>4, <4>3 DEF HourHolds
      <3> QED
        BY <3>3, <3>4
    <2> QED
      BY <2>4, <2>5, <2>6, <2>7
  <1> QED
    BY <1>7, <1>8, <1>9, <1>10 DEF MetricsInv

(* It prunes what is older than it is kept, by its own time, *)
LEMMA PrunesInv == \A r \in Maintainers : MetricsInv /\ Prunes(r) => MetricsInv'
  <1> SUFFICES ASSUME NEW r \in Maintainers, MetricsInv, Prunes(r) PROVE MetricsInv'
    OBVIOUS
  <1>0. /\ MetricsTypeOK /\ PaceHolds /\ RawHolds /\ run[r].pc = "prune"
        /\ raw' = [b \in Buckets |-> IF Older(b, r, RawKeep) THEN 0 ELSE raw[b]]
        /\ five' = [b \in Buckets |-> IF Older(b, r, FiveKeep) THEN 0 ELSE five[b]]
        /\ hour' = [h \in Hours |-> IF Older(h * Hour, r, HourKeep) THEN 0 ELSE hour[h]]
        /\ run' = [run EXCEPT ![r] = NoRun]
        /\ UNCHANGED <<clock, stamped, taken, last, spaced, cuts>>
    BY DEF MetricsInv, Prunes
  <1>1. /\ run' \in [Maintainers -> MetricRun] /\ run'[r] = NoRun
        /\ \A o \in Maintainers \ {r} : run'[o] = run[o]
    BY <1>0, RestingRun, RunChanges
  <1>2. \A o \in Maintainers : run'[o].at \in {0, run[o].at}
    BY <1>1, RestingRun
  <1>3. run[r].at \in Nat /\ run[r].at # 0 /\ run[r].at <= clock /\ clock \in Nat
    BY <1>0, MetricsTypes DEF PaceHolds
  <1>4. MetricsTypeOK'
    <2>1. raw \in [Buckets -> 0..1] /\ five \in [Buckets -> 0..1] /\ hour \in [Hours -> 0..Hour]
      BY <1>0 DEF MetricsTypeOK
    <2>2. raw' \in [Buckets -> 0..1] /\ five' \in [Buckets -> 0..1]
      BY <1>0, <2>1
    <2>3. hour' \in [Hours -> 0..Hour]
      BY <1>0, <2>1, MetricsNumbers
    <2> QED
      BY <1>0, <1>1, <2>2, <2>3 DEF MetricsTypeOK, MetricRun
  <1>5. PaceHolds'
    BY <1>0, <1>1, RestingRun DEF PaceHolds
  <1>6. ASSUME NEW b \in Buckets, NEW k \in Nat, b + k >= run[r].at PROVE ~Older(b, r, k)
    <2>1. b \in Nat
      BY MetricsNumbers
    <2> QED
      BY <1>3, <1>6, <2>1 DEF Older
  <1>7. RawHolds'
    <2>1. ASSUME NEW b \in Buckets, b + RawKeep >= clock PROVE b + RawKeep >= run[r].at
      BY <1>3, <2>1, MetricsNumbers
    <2> QED
      BY <1>0, <1>6, <2>1, MetricsNumbers DEF RawHolds
  <1>8. ASSUME spaced PROVE TogetherHolds' /\ ReadHolds' /\ FiveHolds' /\ HourHolds'
    <2>1. TogetherHolds /\ ReadHolds /\ FiveHolds /\ HourHolds
      BY <1>8 DEF MetricsInv
    <2>2. TogetherHolds'
      <3>1. SUFFICES ASSUME NEW o \in Maintainers, run'[o].at # 0
                     PROVE  /\ \A p \in Maintainers : run'[p].at \in {0, run'[o].at}
                            /\ \A x \in {"5m", "1h"} : last[x] <= run'[o].at
                            /\ \A b \in Buckets : b + RawKeep >= run'[o].at => raw'[b] = taken[b]
        BY <1>0 DEF TogetherHolds
      <3>2. run'[o].at = run[o].at /\ run[o].at # 0 /\ run[o].at = run[r].at
        BY <1>1, <1>2, <1>3, <2>1, <3>1 DEF TogetherHolds
      <3>3. \A p \in Maintainers : run'[p].at \in {0, run'[o].at}
        BY <1>2, <2>1, <3>2 DEF TogetherHolds
      <3>4. \A b \in Buckets : b + RawKeep >= run'[o].at => raw'[b] = taken[b]
        BY <1>0, <1>6, <2>1, <3>2, MetricsNumbers DEF TogetherHolds
      <3> QED
        BY <2>1, <3>2, <3>3, <3>4 DEF TogetherHolds
    <2>3. ReadHolds'
      BY <1>0, <1>8, RestingRun, OthersKnow
    <2>4. FiveHolds'
      <3>1. ASSUME NEW b \in Buckets, b + FiveKeep >= clock PROVE b + FiveKeep >= run[r].at
        BY <1>3, <3>1, MetricsNumbers
      <3> QED
        BY <1>0, <1>6, <2>1, <3>1, MetricsNumbers DEF FiveHolds
    <2>5. HourHolds'
      <3>1. \A h \in Hours : Total(taken, h)' = Total(taken, h)
        BY <1>0 DEF Total
      <3>2. ASSUME NEW h \in Hours, h * Hour + HourKeep >= clock PROVE ~Older(h * Hour, r, HourKeep)
        <4>1. h * Hour \in Nat /\ HourKeep \in Nat
          BY MetricsNumbers
        <4> QED
          BY <1>3, <3>2, <4>1 DEF Older
      <3>3. HourOf(last["1h"])' = HourOf(last["1h"])
        BY <1>0 DEF HourOf
      <3> QED
        BY <1>0, <2>1, <3>1, <3>2, <3>3 DEF HourHolds
    <2> QED
      BY <2>2, <2>3, <2>4, <2>5
  <1> QED
    BY <1>0, <1>4, <1>5, <1>7, <1>8 DEF MetricsInv

(* or dies. *)
LEMMA DiesInv == \A r \in Maintainers : MetricsInv /\ MaintainDies(r) => MetricsInv'
  <1> SUFFICES ASSUME NEW r \in Maintainers, MetricsInv, MaintainDies(r) PROVE MetricsInv'
    OBVIOUS
  <1>0. /\ MetricsTypeOK /\ PaceHolds /\ RawHolds
        /\ run' = [run EXCEPT ![r] = NoRun] /\ cuts < MaxCuts /\ cuts' = cuts + 1
        /\ UNCHANGED <<clock, stamped, raw, five, hour, taken, last, spaced>>
    BY DEF MetricsInv, MaintainDies
  <1>1. /\ run' \in [Maintainers -> MetricRun] /\ run'[r] = NoRun
        /\ \A o \in Maintainers \ {r} : run'[o] = run[o]
    BY <1>0, RestingRun, RunChanges
  <1>2. cuts' \in 0..MaxCuts
    BY <1>0, MetricsTypes, MetricsNumbers
  <1>3. MetricsTypeOK'
    BY <1>0, <1>1, <1>2 DEF MetricsTypeOK, MetricRun
  <1>4. PaceHolds'
    BY <1>0, <1>1, RestingRun DEF PaceHolds
  <1>5. RawHolds'
    BY <1>0 DEF RawHolds
  <1>6. ASSUME spaced PROVE TogetherHolds' /\ ReadHolds' /\ FiveHolds' /\ HourHolds'
    <2>1. TogetherHolds /\ ReadHolds /\ FiveHolds /\ HourHolds
      BY <1>6 DEF MetricsInv
    <2>2. TogetherHolds'
      <3>1. \A o \in Maintainers : run'[o].at # 0 => o # r /\ run'[o] = run[o]
        BY <1>1, RestingRun
      <3>2. \A o \in Maintainers : run'[o].at \in {0, run[o].at}
        BY <1>1, RestingRun
      <3> QED
        BY <1>0, <2>1, <3>1, <3>2 DEF TogetherHolds
    <2>3. ReadHolds'
      BY <1>0, <1>6, RestingRun, OthersKnow
    <2>4. FiveHolds'
      BY <1>0, <2>1 DEF FiveHolds
    <2>5. HourHolds'
      <3>1. \A h \in Hours : Total(taken, h)' = Total(taken, h)
        BY <1>0 DEF Total
      <3>2. HourOf(last["1h"])' = HourOf(last["1h"])
        BY <1>0 DEF HourOf
      <3> QED
        BY <1>0, <2>1, <3>1, <3>2 DEF HourHolds
    <2> QED
      BY <2>2, <2>3, <2>4, <2>5
  <1> QED
    BY <1>0, <1>3, <1>4, <1>5, <1>6 DEF MetricsInv

(* Every step keeps the invariant. *)
LEMMA MetricsStep == MetricsInv /\ [MetricsNext]_metricsVars => MetricsInv'
  <1> SUFFICES ASSUME MetricsInv, [MetricsNext]_metricsVars PROVE MetricsInv'
    OBVIOUS
  <1>1. CASE UNCHANGED metricsVars
    <2>1. UNCHANGED <<clock, stamped, raw, five, hour, run, taken, last, spaced, cuts>>
      BY <1>1 DEF metricsVars
    <2>2. \A h \in Hours : Total(taken, h)' = Total(taken, h)
      BY <2>1 DEF Total
    <2>3. HourOf(last["1h"])' = HourOf(last["1h"])
      BY <2>1 DEF HourOf
    <2>4. MetricsTypeOK' /\ PaceHolds' /\ RawHolds'
      BY <2>1 DEF MetricsInv, MetricsTypeOK, PaceHolds, RawHolds
    <2>5. spaced => TogetherHolds' /\ ReadHolds' /\ FiveHolds'
      BY <2>1 DEF MetricsInv, TogetherHolds, ReadHolds, Elapsed, ElapsedHours, FiveHolds
    <2>6. spaced => HourHolds'
      BY <2>1, <2>2, <2>3 DEF MetricsInv, HourHolds
    <2> QED
      BY <2>1, <2>4, <2>5, <2>6 DEF MetricsInv
  <1> QED
    BY <1>1, TickInv, CyclesInv, StartsInv, FindsInv, FivesInv, HoursInv, PrunesInv, DiesInv
    DEF MetricsNext

(* Any chart up to now is drawn from readings, buckets or hours that the  *)
(* invariant speaks of: its resolution is as long kept as the chart spans. *)
LEMMA ChartsFollow == MetricsInv => MetricsSound
  <1> SUFFICES ASSUME MetricsInv, spaced,
                      NEW from \in {b \in 1..clock : clock + Hour <= b + HourKeep}, NEW b \in from..clock
               PROVE  LET resolution == Resolution(clock - from) IN
                      CASE resolution = "raw" -> Drawn(b, "raw") = taken[b]
                        [] resolution = "5m" -> b + 1 < last["5m"] => Drawn(b, "5m") = taken[b]
                        [] OTHER -> HourOf(b) + 1 < HourOf(last["1h"])
                                      => Drawn(b, "1h") = Total(taken, HourOf(b))
    BY DEF MetricsSound, ChartsWhole, MetricsInv
  <1>0. /\ MetricsTypeOK /\ PaceHolds /\ RawHolds /\ FiveHolds /\ HourHolds
        /\ clock \in Nat /\ clock > 0 /\ clock <= Horizon
    BY MetricsTypes, MetricsNumbers DEF MetricsInv
  <1>1. /\ from \in Nat /\ from >= 1 /\ b \in Nat /\ from <= b /\ b <= clock
        /\ clock + Hour <= from + HourKeep /\ clock - from \in Nat
    BY <1>0
  <1>2. b \in Buckets
    BY <1>0, <1>1, MetricsNumbers DEF Buckets
  <1>3. ASSUME clock - from <= RawSpan PROVE raw[b] = taken[b]
    <2>1. b + RawKeep >= clock
      BY <1>0, <1>1, <1>3, MetricsNumbers
    <2> QED
      BY <1>0, <1>2, <2>1 DEF RawHolds
  <1>4. ASSUME clock - from <= FiveSpan, b + 1 < last["5m"] PROVE five[b] = taken[b]
    <2>1. b + FiveKeep >= clock
      BY <1>0, <1>1, <1>4, MetricsNumbers
    <2> QED
      BY <1>0, <1>2, <1>4, <2>1 DEF FiveHolds
  <1>5. ASSUME HourOf(b) + 1 < HourOf(last["1h"]) PROVE hour[HourOf(b)] = Total(taken, HourOf(b))
    <2>1. HourOf(b) \in Hours /\ HourOf(b) * Hour \in Nat /\ b < HourOf(b) * Hour + Hour
      BY <1>1, <1>2, HourHas, MetricsNumbers
    <2>2. HourOf(b) * Hour + HourKeep >= clock
      BY <1>0, <1>1, <2>1, MetricsNumbers
    <2> QED
      BY <1>0, <1>5, <2>1, <2>2 DEF HourHolds
  <1>6. CASE clock - from <= RawSpan
    BY <1>3, <1>6 DEF Resolution, Drawn
  <1>7. CASE ~(clock - from <= RawSpan) /\ clock - from <= FiveSpan
    BY <1>4, <1>7 DEF Resolution, Drawn
  <1>8. CASE ~(clock - from <= RawSpan) /\ ~(clock - from <= FiveSpan)
    BY <1>5, <1>8 DEF Resolution, Drawn
  <1> QED
    BY <1>6, <1>7, <1>8

(* Metrics: with any retention that covers the charts and three hours of    *)
(* readings, and any number of overlapping, dying and repeated runs within  *)
(* the hour, a chart draws everything that was ever read in its span.       *)
THEOREM MetricsAreSound == MetricsSpec => []MetricsSound
  <1> QED
    BY MetricsInitInv, MetricsStep, ChartsFollow, PTL DEF MetricsSpec
=============================================================================
