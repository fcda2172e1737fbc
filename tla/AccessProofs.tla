----------------------------- MODULE AccessProofs -----------------------------
(***************************************************************************)
(* Who may do what, proved: the accounts, the sign-in, the hosts and their *)
(* keys, the consoles and the licence each keep what their module calls    *)
(* sound, for every number of requests, users, hosts, sockets and days.    *)
(* Each section has the inductive invariant of one component, the lemmas   *)
(* it needs, one lemma per action or group of actions, and the theorem.    *)
(***************************************************************************)
EXTENDS Accounts, SignIn, Hosts, Consoles, Licensing, FiniteSetTheorems, TLAPS

-----------------------------------------------------------------------------
(***************************************************************************)
(* Accounts (services/teams.py, authz, auth.py).  The enforcer in memory   *)
(* is patched after the commit that changed a role, in steps other         *)
(* requests come between: the invariant says who still has what to patch.  *)
(***************************************************************************)
Of(rules, u) == {g \in rules : g[1] = u}
Correcting == {"sync", "add", "rebuild", "swap"}
OwnFix(p, u) == req[p].pc \in {"sync", "add"} /\ req[p].u = u

(* What a request has read for the enforcer is still what the table says,  *)
(* unless the roles it is about were written meanwhile.                    *)
ReadsHold ==
    \A q \in Threads :
      /\ req[q].pc = "add" => /\ \A g \in req[q].rows : g[1] = req[q].u
                              /\ req[q].on \in 0..built
      /\ \A u \in People \ raced :
           /\ req[q].pc = "add" /\ req[q].u = u =>
                req[q].rows = RowsOf(u) /\ (req[q].on = built => Of(grants, u) = {})
           /\ req[q].pc = "swap" => Of(req[q].rows, u) = RowsOf(u)
(* Nobody else patches the roles that one request is patching. *)
FixedByOne ==
    \A u \in People \ raced : \A p, q \in Threads : p # q => ~(OwnFix(p, u) /\ OwnFix(q, u))
(* The enforcer says what the table says, or somebody is still to see to it. *)
WillFollow ==
    \A u \in People \ raced :
      \/ Of(grants, u) = RowsOf(u)
      \/ \E q \in Threads :
           \/ req[q].pc = "sync" /\ req[q].u = u
           \/ req[q].pc = "add" /\ req[q].u = u /\ req[q].on = built
           \/ req[q].pc \in {"rebuild", "swap"}
(* The lock of the first visit: whoever found nobody is alone with it. *)
FirstKnown ==
    /\ founders \in 0..1
    /\ (\A u \in People : ~Exists(u)) => founders = 0
    /\ \A q \in Threads : req[q].op = "create" =>
         /\ \A p \in Threads \ {q} : req[p].op # "create"
         /\ req[q].first /\ req[q].pc = "judged" => founders = 0
    /\ \A q \in Threads : req[q].pc = "idle" => req[q].op = "none"
AccountsInv ==
    AccountsTypeOK /\ LoginsEnded /\ ReadsHold /\ FixedByOne /\ WillFollow /\ FirstKnown

-----------------------------------------------------------------------------
(* The idle request is a request, about somebody. *)
LEMMA AccountsConstants == NoReq \in Request /\ NoReq.u \in People
  <1>1. (CHOOSE u \in People : TRUE) \in People
    BY AccountsAssumption
  <1> QED
    BY <1>1 DEF NoReq, Request, Ops, Teams, Roles

(* The rules of one user, and of all. *)
LEMMA RulesOf ==
  ASSUME member \in [Teams -> [People -> Roles \cup {"none"}]], NEW u \in People
  PROVE  /\ RowsOf(u) \subseteq Rule /\ \A g \in RowsOf(u) : g[1] = u
         /\ Rows \subseteq Rule /\ Of(Rows, u) = RowsOf(u)
  <1>1. \A v \in People : RowsOf(v) \subseteq Rule /\ \A g \in RowsOf(v) : g[1] = v
    BY DEF RowsOf, Rule
  <1>2. Rows \subseteq Rule
    BY <1>1 DEF Rows
  <1>3. Of(Rows, u) = RowsOf(u)
    <2>1. ASSUME NEW g \in Rows, g[1] = u PROVE g \in RowsOf(u)
      <3>1. PICK v \in People : g \in RowsOf(v)
        BY DEF Rows
      <3> QED
        BY <1>1, <2>1, <3>1
    <2>2. RowsOf(u) \subseteq Rows
      BY DEF Rows
    <2> QED
      BY <1>1, <2>1, <2>2 DEF Of
  <1> QED
    BY <1>1, <1>2, <1>3

(* Roles nobody wrote give the same rules. *)
LEMMA SameRules ==
  ASSUME NEW u \in People, \A t \in Teams : member'[t][u] = member[t][u]
  PROVE  RowsOf(u)' = RowsOf(u)
  BY DEF RowsOf

(* An empty installation satisfies the invariant. *)
LEMMA AccountsInitInv == AccountsInit => AccountsInv
  <1> SUFFICES ASSUME AccountsInit PROVE AccountsInv
    OBVIOUS
  <1> USE AccountsAssumption, AccountsConstants
  <1>1. /\ acct \in [People -> [st : {"none", "active", "inactive"}, era : Nat]]
        /\ member \in [Teams -> [People -> Roles \cup {"none"}]] /\ second \in BOOLEAN
        /\ live \subseteq Session /\ \A s \in live : Exists(s.u) /\ s.era = acct[s.u].era
    <2>1. PICK boss \in {NoReq.u}, other \in Roles \cup {"none"}, fresh \in BOOLEAN, two \in BOOLEAN :
            /\ acct = [u \in People |-> [era |-> 0, st |->
                        IF fresh \/ (u # boss /\ other = "none") THEN "none" ELSE "active"]]
            /\ second = (two /\ ~fresh)
            /\ member = [t \in Teams |-> [u \in People |->
                          IF fresh \/ (u # boss /\ other = "none") \/ (t = "second" /\ ~two) THEN "none"
                          ELSE IF u = boss THEN "owner" ELSE other]]
            /\ live = IF fresh THEN {} ELSE {[u |-> boss, era |-> 0, late |-> FALSE]}
      BY DEF AccountsInit
    <2>2. boss \in People
      OBVIOUS
    <2>3. acct \in [People -> [st : {"none", "active", "inactive"}, era : Nat]] /\ second \in BOOLEAN
      BY <2>1
    <2>4. member \in [Teams -> [People -> Roles \cup {"none"}]]
      BY <2>1 DEF Roles
    <2>5. live \subseteq Session
      <3>1. [u |-> boss, era |-> 0, late |-> FALSE] \in Session
        BY <2>2 DEF Session
      <3> QED
        BY <2>1, <3>1
    <2>6. \A s \in live : ~fresh /\ s.u = boss /\ s.era = 0
      BY <2>1
    <2>7. ~fresh => acct[boss].st = "active" /\ acct[boss].era = 0
      BY <2>1, <2>2
    <2> QED
      BY <2>3, <2>4, <2>5, <2>6, <2>7 DEF Exists
  <1>2. /\ grants = Rows /\ built = 1 /\ tied = {} /\ req = [q \in Threads |-> NoReq]
        /\ raced = {} /\ founders = 0 /\ deeds = 0
    BY DEF AccountsInit
  <1>3. grants \subseteq Rule /\ \A u \in People : Of(grants, u) = RowsOf(u)
    BY <1>1, <1>2, RulesOf
  <1>4. AccountsTypeOK
    BY <1>1, <1>2, <1>3 DEF AccountsTypeOK
  <1>5. \A q \in Threads : req[q].pc = "idle" /\ req[q].op = "none"
    BY <1>2 DEF NoReq
  <1> QED
    BY <1>1, <1>2, <1>3, <1>4, <1>5
       DEF AccountsInv, LoginsEnded, ReadsHold, FixedByOne, OwnFix, WillFollow, FirstKnown

-----------------------------------------------------------------------------
(* What the enforcer is told.  Following is what holds of it; a step keeps *)
(* it by one of the ways below.                                            *)
Following == ReadsHold /\ FixedByOne /\ WillFollow
AlikeAs(p, q) ==
    IF req[p].pc \in Correcting
      THEN /\ req'[q].pc = req[p].pc /\ req'[q].u = req[p].u
           /\ req'[q].rows = req[p].rows /\ req'[q].on = req[p].on
      ELSE req'[q].pc \notin Correcting
Alike(q) == AlikeAs(q, q)

(* A step that writes no role and patches nothing leaves the enforcer as right as it *)
(* was.                                                                              *)
LEMMA NothingWritten ==
  ASSUME AccountsTypeOK, Following, UNCHANGED <<member, grants, built, raced>>,
         \A q \in Threads : Alike(q)
  PROVE  Following'
  <1>1. \A u \in People : RowsOf(u)' = RowsOf(u)
    BY SameRules
  <1>2. \A u \in People : Of(grants, u)' = Of(grants, u)
    BY DEF Of
  <1>3. \A u \in People, q \in Threads : Of(req[q].rows, u)' = Of(req'[q].rows, u)
    BY DEF Of
  <1>4. ReadsHold'
    BY <1>1, <1>2, <1>3 DEF ReadsHold, Following, Alike, AlikeAs, Correcting, Of
  <1>5. FixedByOne'
    BY DEF FixedByOne, OwnFix, Following, Alike, AlikeAs, Correcting
  <1>6. WillFollow'
    BY <1>1, <1>2 DEF WillFollow, Following, Alike, AlikeAs, Correcting
  <1> QED
    BY <1>4, <1>5, <1>6 DEF Following

(* Roles of us are written by q, which goes on to bring the enforcer up to date. *)
LEMMA RolesWritten ==
  ASSUME AccountsTypeOK, Following, NEW q \in Threads, NEW us \in SUBSET People,
         UNCHANGED <<grants, built>>, Writes(q, us),
         \A u \in People \ us : \A t \in Teams : member'[t][u] = member[t][u],
         \A p \in Threads \ {q} : Alike(p),
         req[q].pc \notin Correcting,
         \/ req'[q].pc = "rebuild"
         \/ req'[q].pc = "sync" /\ us = {req'[q].u}
  PROVE  Following'
  <1>0. raced' = raced \cup {u \in us : Fixing(q, u)}
    BY DEF Writes
  <1>1. \A u \in People \ us : RowsOf(u)' = RowsOf(u)
    BY SameRules
  <1>2. \A u \in People : Of(grants, u)' = Of(grants, u)
    BY DEF Of
  <1>3. \A u \in People \ raced' : u \notin raced /\ (u \in us => ~Fixing(q, u))
    BY <1>0
  <1>4. \A u \in People, p \in Threads \ {q} : u \in us /\ ~Fixing(q, u) =>
          ~OwnFix(p, u) /\ req[p].pc \notin {"rebuild", "swap"}
    BY DEF Fixing, OwnFix
  <1>5. ReadsHold'
    <2> SUFFICES ASSUME NEW p \in Threads
                 PROVE  /\ req'[p].pc = "add" => /\ \A g \in req'[p].rows : g[1] = req'[p].u
                                                 /\ req'[p].on \in 0..built'
                        /\ \A u \in People \ raced' :
                             /\ req'[p].pc = "add" /\ req'[p].u = u =>
                                  req'[p].rows = RowsOf(u)' /\ (req'[p].on = built' => Of(grants', u) = {})
                             /\ req'[p].pc = "swap" => Of(req'[p].rows, u) = RowsOf(u)'
      BY DEF ReadsHold, Of
    <2>1. CASE p = q
      BY <2>1
    <2>2. CASE p # q
      BY <1>1, <1>2, <1>3, <1>4, <2>2 DEF ReadsHold, Following, Alike, AlikeAs, Correcting, OwnFix, Of
    <2> QED
      BY <2>1, <2>2
  <1>6. FixedByOne'
    BY <1>3, <1>4 DEF FixedByOne, OwnFix, Following, Alike, AlikeAs, Correcting
  <1>7. WillFollow'
    <2> SUFFICES ASSUME NEW u \in People \ raced'
                 PROVE  \/ Of(grants, u)' = RowsOf(u)'
                        \/ \E p \in Threads :
                             \/ req'[p].pc = "sync" /\ req'[p].u = u
                             \/ req'[p].pc = "add" /\ req'[p].u = u /\ req'[p].on = built'
                             \/ req'[p].pc \in {"rebuild", "swap"}
      BY DEF WillFollow
    <2>1. CASE u \in us
      BY <2>1
    <2>2. CASE u \notin us
      BY <1>1, <1>2, <1>3, <2>2 DEF WillFollow, Following, Alike, AlikeAs, Correcting
    <2> QED
      BY <2>1, <2>2
  <1> QED
    BY <1>5, <1>6, <1>7 DEF Following

(* The enforcer drops one user's rules and the request reads the table for them. *)
LEMMA RefreshFollows ==
  ASSUME AccountsTypeOK, Following, NEW q \in Threads, Refresh(q)
  PROVE  Following'
  <1>0. PICK u \in People : u = req[q].u
    BY DEF AccountsTypeOK, Request
  <1>1. /\ member' = member /\ built' = built /\ raced' = raced
        /\ grants' = {g \in grants : g[1] # u} /\ req[q].pc = "sync"
    BY <1>0 DEF Refresh, Cleared
  <1>2. /\ req'[q].pc = "add" /\ req'[q].u = u /\ req'[q].rows = RowsOf(u) /\ req'[q].on = built
        /\ \A p \in Threads \ {q} : req'[p] = req[p]
    BY <1>0 DEF Refresh, AccountsTypeOK, Request
  <1>3. \A v \in People : RowsOf(v)' = RowsOf(v)
    BY <1>1, SameRules
  <1>4. Of(grants, u)' = {} /\ \A v \in People \ {u} : Of(grants, v)' = Of(grants, v)
    BY <1>1 DEF Of
  <1>5. \A g \in RowsOf(u) : g[1] = u
    BY RulesOf DEF AccountsTypeOK
  <1>6. ReadsHold'
    <2> SUFFICES ASSUME NEW p \in Threads
                 PROVE  /\ req'[p].pc = "add" => /\ \A g \in req'[p].rows : g[1] = req'[p].u
                                                 /\ req'[p].on \in 0..built'
                        /\ \A v \in People \ raced' :
                             /\ req'[p].pc = "add" /\ req'[p].u = v =>
                                  req'[p].rows = RowsOf(v)' /\ (req'[p].on = built' => Of(grants, v)' = {})
                             /\ req'[p].pc = "swap" => Of(req'[p].rows, v) = RowsOf(v)'
      BY DEF ReadsHold, Of
    <2>1. CASE p = q
      BY <1>1, <1>2, <1>3, <1>4, <1>5, <2>1 DEF AccountsTypeOK
    <2>2. CASE p # q
      BY <1>1, <1>2, <1>3, <1>4, <2>2 DEF ReadsHold, Following
    <2> QED
      BY <2>1, <2>2
  <1>7. FixedByOne'
    BY <1>0, <1>1, <1>2 DEF FixedByOne, OwnFix, Following
  <1>8. WillFollow'
    <2> SUFFICES ASSUME NEW v \in People \ raced'
                 PROVE  \/ Of(grants, v)' = RowsOf(v)'
                        \/ \E p \in Threads :
                             \/ req'[p].pc = "sync" /\ req'[p].u = v
                             \/ req'[p].pc = "add" /\ req'[p].u = v /\ req'[p].on = built'
                             \/ req'[p].pc \in {"rebuild", "swap"}
      BY DEF WillFollow
    <2>1. CASE v = u
      BY <1>1, <1>2, <2>1
    <2>2. CASE v # u
      BY <1>0, <1>1, <1>2, <1>3, <1>4, <2>2 DEF WillFollow, Following
    <2> QED
      BY <2>1, <2>2
  <1> QED
    BY <1>6, <1>7, <1>8 DEF Following

(* The enforcer takes the rules that the request read. *)
LEMMA AddFollows ==
  ASSUME AccountsTypeOK, Following, NEW q \in Threads, Add(q)
  PROVE  Following'
  <1>0. PICK u \in People : u = req[q].u
    BY DEF AccountsTypeOK, Request
  <1>1. /\ member' = member /\ built' = built /\ raced' = raced /\ req[q].pc = "add"
        /\ grants' = IF req[q].on = built THEN grants \cup req[q].rows ELSE grants
        /\ \A g \in req[q].rows : g[1] = u
    BY <1>0 DEF Add, Following, ReadsHold
  <1>2. req'[q].pc = "idle" /\ \A p \in Threads \ {q} : req'[p] = req[p]
    BY DEF Add, AccountsTypeOK, NoReq
  <1>3. \A v \in People : RowsOf(v)' = RowsOf(v)
    BY <1>1, SameRules
  <1>4. \A v \in People \ {u} : Of(grants, v)' = Of(grants, v)
    BY <1>1 DEF Of
  <1>5. u \notin raced /\ req[q].on = built => Of(grants, u)' = RowsOf(u)'
    <2> SUFFICES ASSUME u \notin raced, req[q].on = built PROVE Of(grants, u)' = RowsOf(u)'
      OBVIOUS
    <2>1. req[q].rows = RowsOf(u) /\ Of(grants, u) = {}
      BY <1>0, <1>1 DEF Following, ReadsHold
    <2>2. Of(grants, u)' = Of(grants, u) \cup req[q].rows
      BY <1>1 DEF Of
    <2> QED
      BY <1>3, <2>1, <2>2
  <1>6. req[q].on # built => Of(grants, u)' = Of(grants, u)
    BY <1>1 DEF Of
  <1>7. \A p \in Threads \ {q}, v \in People \ raced : OwnFix(p, v) => v # u
    BY <1>0, <1>1 DEF Following, FixedByOne, OwnFix
  <1>8. ReadsHold'
    <2> SUFFICES ASSUME NEW p \in Threads
                 PROVE  /\ req'[p].pc = "add" => /\ \A g \in req'[p].rows : g[1] = req'[p].u
                                                 /\ req'[p].on \in 0..built'
                        /\ \A v \in People \ raced' :
                             /\ req'[p].pc = "add" /\ req'[p].u = v =>
                                  req'[p].rows = RowsOf(v)' /\ (req'[p].on = built' => Of(grants, v)' = {})
                             /\ req'[p].pc = "swap" => Of(req'[p].rows, v) = RowsOf(v)'
      BY DEF ReadsHold, Of
    <2>1. CASE p = q
      BY <1>2, <2>1
    <2>2. CASE p # q
      <3>1. req'[p] = req[p]
        BY <1>2, <2>2
      <3>2. req[p].pc = "add" => /\ \A g \in req[p].rows : g[1] = req[p].u
                                 /\ req[p].on \in 0..built
        BY DEF ReadsHold, Following
      <3>3. ASSUME NEW v \in People \ raced
            PROVE  /\ req[p].pc = "add" /\ req[p].u = v =>
                        req[p].rows = RowsOf(v) /\ (req[p].on = built => Of(grants, v) = {})
                   /\ req[p].pc = "swap" => Of(req[p].rows, v) = RowsOf(v)
        BY DEF ReadsHold, Following
      <3>4. ASSUME NEW v \in People \ raced, req[p].pc = "add", req[p].u = v
            PROVE  Of(grants, v)' = Of(grants, v)
        <4>1. v # u
          BY <1>7, <2>2, <3>4 DEF OwnFix
        <4> QED
          BY <1>4, <4>1
      <3> QED
        BY <1>1, <1>3, <3>1, <3>2, <3>3, <3>4
    <2> QED
      BY <2>1, <2>2
  <1>9. FixedByOne'
    BY <1>1, <1>2 DEF FixedByOne, OwnFix, Following
  <1>10. WillFollow'
    <2> SUFFICES ASSUME NEW v \in People \ raced'
                 PROVE  \/ Of(grants, v)' = RowsOf(v)'
                        \/ \E p \in Threads :
                             \/ req'[p].pc = "sync" /\ req'[p].u = v
                             \/ req'[p].pc = "add" /\ req'[p].u = v /\ req'[p].on = built'
                             \/ req'[p].pc \in {"rebuild", "swap"}
      BY DEF WillFollow
    <2>1. CASE v = u /\ req[q].on = built
      BY <1>1, <1>5, <2>1
    <2>2. CASE v # u \/ req[q].on # built
      <3>1. Of(grants, v)' = Of(grants, v)
        BY <1>4, <1>6, <2>2
      <3> QED
        BY <1>0, <1>1, <1>2, <1>3, <2>2, <3>1 DEF WillFollow, Following
    <2> QED
      BY <2>1, <2>2
  <1> QED
    BY <1>8, <1>9, <1>10 DEF Following

(* A rebuild reads the whole table, *)
LEMMA RebuildFollows ==
  ASSUME AccountsTypeOK, Following, NEW q \in Threads, Rebuild(q)
  PROVE  Following'
  <1>1. UNCHANGED <<member, grants, built, raced>> /\ req[q].pc = "rebuild"
    BY DEF Rebuild
  <1>2. /\ req'[q].pc = "swap" /\ req'[q].rows = Rows
        /\ \A p \in Threads \ {q} : req'[p] = req[p]
    BY DEF Rebuild, AccountsTypeOK, Request
  <1>3. \A v \in People : RowsOf(v)' = RowsOf(v) /\ Of(Rows, v) = RowsOf(v)
    BY <1>1, SameRules, RulesOf DEF AccountsTypeOK
  <1>4. \A v \in People : Of(grants, v)' = Of(grants, v)
    BY <1>1 DEF Of
  <1>5. ReadsHold'
    <2> SUFFICES ASSUME NEW p \in Threads
                 PROVE  /\ req'[p].pc = "add" => /\ \A g \in req'[p].rows : g[1] = req'[p].u
                                                 /\ req'[p].on \in 0..built'
                        /\ \A v \in People \ raced' :
                             /\ req'[p].pc = "add" /\ req'[p].u = v =>
                                  req'[p].rows = RowsOf(v)' /\ (req'[p].on = built' => Of(grants, v)' = {})
                             /\ req'[p].pc = "swap" => Of(req'[p].rows, v) = RowsOf(v)'
      BY DEF ReadsHold, Of
    <2>1. CASE p = q
      BY <1>2, <1>3, <2>1
    <2>2. CASE p # q
      BY <1>1, <1>2, <1>3, <1>4, <2>2 DEF ReadsHold, Following
    <2> QED
      BY <2>1, <2>2
  <1>6. FixedByOne'
    BY <1>1, <1>2 DEF FixedByOne, OwnFix, Following
  <1>7. WillFollow'
    BY <1>2 DEF WillFollow
  <1> QED
    BY <1>5, <1>6, <1>7 DEF Following

(* and puts the enforcer it built in the place of the old one. *)
LEMMA SwapFollows ==
  ASSUME AccountsTypeOK, Following, NEW q \in Threads, Swap(q)
  PROVE  Following'
  <1>1. /\ UNCHANGED <<member, raced>> /\ req[q].pc = "swap" /\ grants' = req[q].rows
        /\ built' = built + 1 /\ built \in Nat
    BY DEF Swap, AccountsTypeOK
  <1>2. req'[q].pc = "idle" /\ \A p \in Threads \ {q} : req'[p] = req[p]
    BY DEF Swap, AccountsTypeOK, NoReq
  <1>3. \A v \in People : RowsOf(v)' = RowsOf(v)
    BY <1>1, SameRules
  <1>4. \A v \in People \ raced : Of(grants, v)' = RowsOf(v)
    BY <1>1 DEF Of, Following, ReadsHold
  <1>5. ReadsHold'
    <2> SUFFICES ASSUME NEW p \in Threads
                 PROVE  /\ req'[p].pc = "add" => /\ \A g \in req'[p].rows : g[1] = req'[p].u
                                                 /\ req'[p].on \in 0..built'
                        /\ \A v \in People \ raced' :
                             /\ req'[p].pc = "add" /\ req'[p].u = v =>
                                  req'[p].rows = RowsOf(v)' /\ (req'[p].on = built' => Of(grants, v)' = {})
                             /\ req'[p].pc = "swap" => Of(req'[p].rows, v) = RowsOf(v)'
      BY DEF ReadsHold, Of
    <2>1. CASE p = q
      BY <1>2, <2>1
    <2>2. CASE p # q
      BY <1>1, <1>2, <1>3, <2>2 DEF ReadsHold, Following
    <2> QED
      BY <2>1, <2>2
  <1>6. FixedByOne'
    BY <1>1, <1>2 DEF FixedByOne, OwnFix, Following
  <1>7. WillFollow'
    BY <1>1, <1>3, <1>4 DEF WillFollow
  <1> QED
    BY <1>5, <1>6, <1>7 DEF Following

(* A restart builds the enforcer from the table. *)
LEMMA RestartFollows ==
  ASSUME AccountsTypeOK, AccountsRestart
  PROVE  Following'
  <1>1. member' = member /\ grants' = Rows /\ \A q \in Threads : req'[q].pc = "idle"
    BY DEF AccountsRestart, NoReq
  <1>2. \A u \in People : RowsOf(u)' = RowsOf(u) /\ Of(grants, u)' = RowsOf(u)
    <2> TAKE u \in People
    <2>1. RowsOf(u)' = RowsOf(u)
      BY <1>1, SameRules
    <2>2. Of(Rows, u) = RowsOf(u)
      BY RulesOf DEF AccountsTypeOK
    <2> QED
      BY <1>1, <2>1, <2>2 DEF Of
  <1>3. ReadsHold' /\ FixedByOne' /\ WillFollow'
    BY <1>1, <1>2 DEF ReadsHold, FixedByOne, OwnFix, WillFollow
  <1> QED
    BY <1>3 DEF Following

-----------------------------------------------------------------------------
(* What becomes of the requests when one of them commits or is refused.    *)
Kept(p) ==
    /\ req'[p].op = req[p].op /\ req'[p].pc = req[p].pc /\ req'[p].u = req[p].u
    /\ req'[p].first = req[p].first /\ req'[p].rows = req[p].rows /\ req'[p].on = req[p].on

(* A request that ends is idle, and the others are as they were. *)
LEMMA GoesTo ==
  ASSUME AccountsTypeOK, NEW q \in Threads, Goes(q, "idle") \/ Refused(q)
  PROVE  /\ req' \in [Threads -> Request] /\ req'[q] = NoReq
         /\ \A p \in Threads \ {q} : Kept(p)
  <1>1. CASE Goes(q, "idle")
    <2>1. \A p \in Threads : p # q =>
            req'[p] = [req[p] EXCEPT !.stale = @ \/ req[p].pc \in {"judged", "drop"}]
      BY <1>1 DEF Goes
    <2>2. req'[q] = NoReq
      BY <1>1 DEF Goes
    <2>3. ASSUME NEW p \in Threads, p # q PROVE req'[p] \in Request /\ Kept(p)
      <3>1. req[p] \in Request
        BY DEF AccountsTypeOK
      <3>2. PICK b \in BOOLEAN : b = (req[p].stale \/ req[p].pc \in {"judged", "drop"})
        OBVIOUS
      <3>3. req'[p] = [req[p] EXCEPT !.stale = b]
        BY <2>1, <2>3, <3>2
      <3>4. req'[p] \in Request
        BY <3>1, <3>3 DEF Request
      <3>5. Kept(p)
        BY <3>1, <3>3 DEF Request, Kept
      <3> QED
        BY <3>4, <3>5
    <2>4. \A p \in Threads : req'[p] \in Request
      BY <2>2, <2>3, AccountsConstants
    <2>5. req' = [p \in Threads |-> req'[p]]
      BY <1>1 DEF Goes
    <2> QED
      BY <2>2, <2>3, <2>4, <2>5
  <1>2. CASE Refused(q)
    BY <1>2, AccountsConstants DEF Refused, AccountsTypeOK, Kept
  <1> QED
    BY <1>1, <1>2

(* A request that goes on does so for the same user. *)
LEMMA DeedGoesOn ==
  ASSUME AccountsTypeOK, NEW q \in Threads, NEW pc \in {"enrol", "drop", "sync", "rebuild"}, Goes(q, pc)
  PROVE  /\ req' \in [Threads -> Request] /\ \A p \in Threads \ {q} : Kept(p)
         /\ req'[q].pc = pc /\ req'[q].op = req[q].op /\ req'[q].u = req[q].u
  <1>1. \A p \in Threads : p # q =>
          req'[p] = [req[p] EXCEPT !.stale = @ \/ req[p].pc \in {"judged", "drop"}]
    BY DEF Goes
  <1>2. req'[q] = [req[q] EXCEPT !.pc = pc]
    BY DEF Goes
  <1>3. req[q] \in Request
    BY DEF AccountsTypeOK
  <1>4. req'[q] \in Request /\ req'[q].pc = pc /\ req'[q].op = req[q].op /\ req'[q].u = req[q].u
    BY <1>2, <1>3 DEF Request
  <1>5. ASSUME NEW p \in Threads, p # q PROVE req'[p] \in Request /\ Kept(p)
    <2>1. req[p] \in Request
      BY DEF AccountsTypeOK
    <2>2. PICK b \in BOOLEAN : b = (req[p].stale \/ req[p].pc \in {"judged", "drop"})
      OBVIOUS
    <2>3. req'[p] = [req[p] EXCEPT !.stale = b]
      BY <1>1, <1>5, <2>2
    <2>4. req'[p] \in Request
      BY <2>1, <2>3 DEF Request
    <2>5. Kept(p)
      BY <2>1, <2>3 DEF Request, Kept
    <2> QED
      BY <2>4, <2>5
  <1>6. \A p \in Threads : req'[p] \in Request
    BY <1>4, <1>5
  <1>7. req' = [p \in Threads |-> req'[p]]
    BY DEF Goes
  <1> QED
    BY <1>4, <1>5, <1>6, <1>7

(* Ways in which the other parts survive a step. *)
LEMMA LoginsKept ==
  ASSUME AccountsTypeOK, LoginsEnded, live' \subseteq live,
         \A u \in People : Exists(u) => Exists(u)' /\ acct'[u].era = acct[u].era
  PROVE  LoginsEnded'
  BY DEF LoginsEnded, AccountsTypeOK, Session

(* Whoever found nobody stays alone with it. *)
LEMMA FirstKept ==
  ASSUME FirstKnown, founders' = founders, \A u \in People : Exists(u) => Exists(u)',
         \A p \in Threads : \/ Kept(p) \/ req'[p].op = "none"
                            \/ req'[p].op = req[p].op /\ req'[p].pc \notin {"idle", "judged"}
  PROVE  FirstKnown'
  <1>1. /\ founders' \in 0..1
        /\ (\A u \in People : ~Exists(u)') => founders' = 0
    BY DEF FirstKnown
  <1>2. ASSUME NEW q \in Threads, req'[q].op = "create"
        PROVE  /\ \A p \in Threads \ {q} : req'[p].op # "create"
               /\ req'[q].first /\ req'[q].pc = "judged" => founders' = 0
    BY <1>2 DEF FirstKnown, Kept
  <1>3. \A q \in Threads : req'[q].pc = "idle" => req'[q].op = "none"
    BY DEF FirstKnown, Kept
  <1> QED
    BY <1>1, <1>2, <1>3 DEF FirstKnown

(* A request that is as it was is no news for the enforcer. *)
LEMMA KeptAlike == ASSUME NEW p \in Threads, Kept(p) PROVE Alike(p)
  BY DEF Kept, Alike, AlikeAs

-----------------------------------------------------------------------------
(* The steps.  Quiet: what is no concern of the enforcer. *)
Quiet == UNCHANGED <<grants, built, tied, deeds>>

(* A refused request changes nothing but itself. *)
LEMMA RefusedInv ==
  ASSUME AccountsInv, NEW q \in Threads, Refused(q), Quiet, req[q].pc \notin Correcting
  PROVE  AccountsInv'
  <1> USE DEF AccountsInv
  <1>1. UNCHANGED <<acct, member, second, live, raced, founders, grants, built, tied, deeds>>
    BY DEF Refused, Quiet
  <1>2. /\ req' \in [Threads -> Request] /\ req'[q] = NoReq
        /\ \A p \in Threads \ {q} : Kept(p)
    BY GoesTo
  <1>3. AccountsTypeOK'
    BY <1>1, <1>2 DEF AccountsTypeOK
  <1>4. \A p \in Threads : Alike(p)
    BY <1>2, KeptAlike DEF Alike, AlikeAs, NoReq, Correcting
  <1>5. Following'
    BY <1>1, <1>4, NothingWritten DEF Following
  <1>6. LoginsEnded'
    BY <1>1, LoginsKept DEF Exists
  <1>7. FirstKnown'
    BY <1>1, <1>2, FirstKept DEF Exists, NoReq
  <1> QED
    BY <1>3, <1>5, <1>6, <1>7 DEF Following

(* A login. *)
LEMMA LoginInv ==
  ASSUME AccountsInv, NEW q \in Threads, CommitLogin(q, req[q].u), req[q].pc = "judged", Quiet
  PROVE  AccountsInv'
  <1> USE DEF AccountsInv
  <1>0. PICK u \in People : u = req[q].u
    BY DEF AccountsTypeOK, Request
  <1>1. CASE ~Exists(u)
    BY <1>0, <1>1, RefusedInv DEF CommitLogin, Correcting
  <1>2. CASE Exists(u)
    <2>1. PICK x \in Session : /\ live' = live \cup {x} /\ x.u = u
                               /\ x.era = acct[u].era \/ x.late
      <3>1. req[q].era \in Nat
        BY DEF AccountsTypeOK, Request
      <3>2. (req[q].era # acct[u].era \/ Ending(u)) \in BOOLEAN
        BY DEF Ending
      <3>3. PICK b \in BOOLEAN : b = (req[q].era # acct[u].era \/ Ending(u))
        BY <3>2
      <3>4. [u |-> u, era |-> req[q].era, late |-> b] \in Session
        BY <3>1 DEF Session
      <3>5. live' = live \cup {[u |-> u, era |-> req[q].era, late |-> b]}
        BY <1>0, <1>2, <3>3 DEF CommitLogin
      <3> QED
        BY <3>3, <3>4, <3>5
    <2>2. Goes(q, "idle") /\ UNCHANGED <<acct, member, second, raced, founders, grants, built, tied, deeds>>
      BY <1>0, <1>2 DEF CommitLogin, Quiet
    <2>3. /\ req' \in [Threads -> Request] /\ req'[q] = NoReq
          /\ \A p \in Threads \ {q} : Kept(p)
      BY <2>2, GoesTo
    <2>4. AccountsTypeOK'
      BY <2>1, <2>2, <2>3 DEF AccountsTypeOK
    <2>5. \A p \in Threads : Alike(p)
      BY <2>3, KeptAlike DEF Alike, AlikeAs, NoReq, Correcting
    <2>6. Following'
      BY <2>2, <2>5, NothingWritten DEF Following
    <2>7. LoginsEnded'
      BY <1>2, <2>1, <2>2 DEF LoginsEnded, Exists
    <2>8. FirstKnown'
      BY <2>2, <2>3, FirstKept DEF Exists, NoReq
    <2> QED
      BY <2>4, <2>6, <2>7, <2>8 DEF Following
  <1> QED
    BY <1>1, <1>2

(* A user is created. *)
LEMMA CreateInv ==
  ASSUME AccountsInv, NEW q \in Threads, CommitCreate(q, req[q].u), req[q].pc = "judged", Quiet
  PROVE  AccountsInv'
  <1> USE DEF AccountsInv
  <1>0. PICK u \in People : u = req[q].u
    BY DEF AccountsTypeOK, Request
  <1>1. CASE Exists(u)
    BY <1>0, <1>1, RefusedInv DEF CommitCreate, Correcting
  <1>2. CASE ~Exists(u)
    <2>1. /\ acct' = [acct EXCEPT ![u].st = "active"] /\ Goes(q, "enrol")
          /\ founders' = founders + (IF req[q].first THEN 1 ELSE 0)
          /\ UNCHANGED <<member, second, live, raced, grants, built, tied, deeds>>
      BY <1>0, <1>2 DEF CommitCreate, Quiet
    <2>2. /\ req' \in [Threads -> Request] /\ \A p \in Threads \ {q} : Kept(p)
          /\ req'[q].pc = "enrol" /\ req'[q].op = req[q].op /\ req'[q].u = req[q].u
      BY <2>1, DeedGoesOn
    <2>3. /\ acct' \in [People -> [st : {"none", "active", "inactive"}, era : Nat]]
          /\ acct'[u].st = "active" /\ \A v \in People : acct'[v].era = acct[v].era
          /\ \A v \in People : Exists(v) => Exists(v)'
      BY <2>1 DEF AccountsTypeOK, Exists
    <2>4. req[q].op = "create" /\ (req[q].first => founders = 0)
      BY DEF CommitCreate, FirstKnown
    <2>5. founders' \in 0..1 /\ (~req[q].first => founders' = founders)
      BY <2>1, <2>4 DEF FirstKnown
    <2>6. AccountsTypeOK'
      BY <2>1, <2>2, <2>3, <2>5 DEF AccountsTypeOK
    <2>7. \A p \in Threads : Alike(p)
      BY <2>2, KeptAlike DEF Alike, AlikeAs, Correcting
    <2>8. Following'
      BY <2>1, <2>7, NothingWritten DEF Following
    <2>9. LoginsEnded'
      BY <2>1, <2>3, LoginsKept
    <2>10. FirstKnown'
      <3>1. ~(\A v \in People : ~Exists(v)')
        BY <2>3 DEF Exists
      <3>2. \A p \in Threads \ {q} : req'[p].op # "create"
        BY <2>2, <2>4 DEF FirstKnown, Kept
      <3>3. \A p \in Threads : req'[p].pc = "idle" => req'[p].op = "none"
        BY <2>2 DEF FirstKnown, Kept
      <3>4. \A p \in Threads : req'[p].op = "create" => p = q
        BY <3>2
      <3> QED
        BY <2>2, <2>5, <3>1, <3>2, <3>3, <3>4 DEF FirstKnown
    <2> QED
      BY <2>6, <2>8, <2>9, <2>10 DEF Following
  <1> QED
    BY <1>1, <1>2

(* A commit that writes roles and goes on to have the enforcer corrected. *)
LEMMA WritingInv ==
  ASSUME AccountsInv, NEW q \in Threads, NEW us \in SUBSET People, NEW pc \in {"sync", "rebuild"},
         Goes(q, pc), Writes(q, us), Quiet, pc = "rebuild" \/ us = {req[q].u},
         req[q].pc \notin Correcting, founders' = founders, second' \in BOOLEAN,
         acct' \in [People -> [st : {"none", "active", "inactive"}, era : Nat]],
         member' \in [Teams -> [People -> Roles \cup {"none"}]], live' = live,
         \A u \in People : Exists(u) => Exists(u)' /\ acct'[u].era = acct[u].era,
         \A u \in People \ us : \A t \in Teams : member'[t][u] = member[t][u]
  PROVE  AccountsInv'
  <1> USE DEF AccountsInv
  <1>1. /\ req' \in [Threads -> Request] /\ \A p \in Threads \ {q} : Kept(p)
        /\ req'[q].pc = pc /\ req'[q].op = req[q].op /\ req'[q].u = req[q].u
    BY DeedGoesOn
  <1>2. AccountsTypeOK'
    BY <1>1 DEF AccountsTypeOK, Quiet, Writes
  <1>3. \A p \in Threads \ {q} : Alike(p)
    BY <1>1, KeptAlike
  <1>4. Following'
    <2>1. UNCHANGED <<grants, built>>
      BY DEF Quiet
    <2>2. req'[q].pc = "rebuild" \/ (req'[q].pc = "sync" /\ us = {req'[q].u})
      BY <1>1
    <2> QED
      BY <1>3, <2>1, <2>2, RolesWritten DEF Following
  <1>5. LoginsEnded'
    BY LoginsKept
  <1>6. FirstKnown'
    BY <1>1, FirstKept
  <1> QED
    BY <1>2, <1>4, <1>5, <1>6 DEF Following

(* The first user, and the team with the owner. *)
LEMMA EnrolInv ==
  ASSUME AccountsInv, NEW q \in Threads, Enrol(q)
  PROVE  AccountsInv'
  <1> USE DEF AccountsInv
  <1>0. PICK u \in People : u = req[q].u
    BY DEF AccountsTypeOK, Request
  <1>1. req[q].pc = "enrol" /\ Quiet
    BY DEF Enrol, Quiet
  <1>2. CASE ~(Exists(u) /\ member["default"][u] = "none")
    BY <1>0, <1>1, <1>2, RefusedInv DEF Enrol, Correcting
  <1>3. CASE Exists(u) /\ member["default"][u] = "none"
    <2>1. /\ member' = [member EXCEPT !["default"][u] = req[q].role]
          /\ Writes(q, {u}) /\ Goes(q, "sync") /\ UNCHANGED <<acct, second, live, founders>>
      BY <1>0, <1>3 DEF Enrol
    <2>2. req[q].role \in Roles \cup {"none"}
      BY DEF AccountsTypeOK, Request
    <2>3. /\ member' \in [Teams -> [People -> Roles \cup {"none"}]]
          /\ \A v \in People \ {u} : \A t \in Teams : member'[t][v] = member[t][v]
      BY <2>1, <2>2 DEF AccountsTypeOK
    <2>4. \A v \in People : Exists(v) => Exists(v)' /\ acct'[v].era = acct[v].era
      BY <2>1 DEF Exists
    <2> QED
      BY <1>0, <1>1, <2>1, <2>3, <2>4, WritingInv DEF AccountsTypeOK, Correcting
  <1> QED
    BY <1>2, <1>3

(* A user that the identity provider vouches for. *)
LEMMA ProvisionInv ==
  ASSUME AccountsInv, NEW q \in Threads, CommitProvision(q, req[q].u), req[q].pc = "judged", Quiet
  PROVE  AccountsInv'
  <1> USE DEF AccountsInv
  <1>0. PICK u \in People, t \in Teams, r \in Roles \cup {"none"} :
          u = req[q].u /\ t = req[q].t /\ r = req[q].role
    BY DEF AccountsTypeOK, Request
  <1>1. CASE Exists(u) \/ (t = "second" /\ ~second)
    BY <1>0, <1>1, RefusedInv DEF CommitProvision, Correcting
  <1>2. CASE ~(Exists(u) \/ (t = "second" /\ ~second))
    <2>1. /\ acct' = [acct EXCEPT ![u].st = IF r = "none" THEN "inactive" ELSE "active"]
          /\ IF r = "none" THEN Goes(q, "idle") /\ UNCHANGED <<member, raced>>
             ELSE /\ member' = [member EXCEPT ![t][u] = r]
                  /\ Writes(q, {u}) /\ Goes(q, "sync")
          /\ UNCHANGED <<second, live, founders>>
      BY <1>0, <1>2 DEF CommitProvision
    <2>2. /\ acct' \in [People -> [st : {"none", "active", "inactive"}, era : Nat]]
          /\ \A v \in People : Exists(v) => Exists(v)' /\ acct'[v].era = acct[v].era
      BY <2>1 DEF AccountsTypeOK, Exists
    <2>3. CASE r = "none"
      <3>1. /\ req' \in [Threads -> Request] /\ req'[q] = NoReq
            /\ \A p \in Threads \ {q} : Kept(p)
        BY <2>1, <2>3, GoesTo
      <3>2. AccountsTypeOK'
        BY <2>1, <2>2, <2>3, <3>1 DEF AccountsTypeOK, Quiet
      <3>3. \A p \in Threads : Alike(p)
        BY <3>1, KeptAlike DEF Alike, AlikeAs, NoReq, Correcting
      <3>4. Following'
        BY <2>1, <2>3, <3>3, NothingWritten DEF Following, Quiet
      <3>5. LoginsEnded'
        BY <2>1, <2>2, LoginsKept
      <3>6. FirstKnown'
        BY <2>1, <2>2, <3>1, FirstKept DEF NoReq
      <3> QED
        BY <3>2, <3>4, <3>5, <3>6 DEF Following
    <2>4. CASE r # "none"
      <3>1. /\ member' \in [Teams -> [People -> Roles \cup {"none"}]]
            /\ \A v \in People \ {u} : \A x \in Teams : member'[x][v] = member[x][v]
        <4>1. member' = [member EXCEPT ![t][u] = r]
          BY <2>1, <2>4
        <4>2. member \in [Teams -> [People -> Roles \cup {"none"}]]
          BY DEF AccountsTypeOK
        <4> HIDE DEF AccountsInv
        <4> QED
          BY <4>1, <4>2
      <3> QED
        BY <1>0, <2>1, <2>2, <2>4, <3>1, WritingInv DEF AccountsTypeOK, Correcting
    <2> QED
      BY <2>3, <2>4
  <1> QED
    BY <1>1, <1>2

(* A role in a team. *)
LEMMA MemberInv ==
  ASSUME AccountsInv, NEW q \in Threads, CommitMember(q, req[q].u), req[q].pc = "judged", Quiet
  PROVE  AccountsInv'
  <1> USE DEF AccountsInv
  <1>0. PICK u \in People, t \in Teams, r \in Roles \cup {"none"} :
          u = req[q].u /\ t = req[q].t /\ r = req[q].role
    BY DEF AccountsTypeOK, Request
  <1>1. \/ Refused(q)
        \/ /\ member' = [member EXCEPT ![t][u] = r] /\ Writes(q, {u})
           /\ Goes(q, "sync") /\ UNCHANGED <<acct, second, live, founders>>
    BY <1>0 DEF CommitMember
  <1>2. CASE Refused(q)
    BY <1>2, RefusedInv DEF Correcting
  <1>3. CASE /\ member' = [member EXCEPT ![t][u] = r] /\ Writes(q, {u})
             /\ Goes(q, "sync") /\ UNCHANGED <<acct, second, live, founders>>
    <2>1. /\ member' \in [Teams -> [People -> Roles \cup {"none"}]]
          /\ \A v \in People \ {u} : \A x \in Teams : member'[x][v] = member[x][v]
      BY <1>3 DEF AccountsTypeOK
    <2>2. \A v \in People : Exists(v) => Exists(v)' /\ acct'[v].era = acct[v].era
      BY <1>3 DEF Exists
    <2>3. req[q].pc \notin Correcting /\ {u} \in SUBSET People /\ {u} = {req[q].u}
      BY <1>0 DEF Correcting
    <2>4. /\ acct' \in [People -> [st : {"none", "active", "inactive"}, era : Nat]]
          /\ second' \in BOOLEAN /\ founders' = founders /\ live' = live
      BY <1>3 DEF AccountsTypeOK
    <2>5. Writes(q, {u}) /\ Goes(q, "sync")
      BY <1>3
    <2> HIDE DEF AccountsInv
    <2> QED
      BY <2>1, <2>2, <2>3, <2>4, <2>5, WritingInv
  <1> QED
    BY <1>1, <1>2, <1>3

(* A team ends. *)
LEMMA TeamInv ==
  ASSUME AccountsInv, NEW q \in Threads, CommitTeam(q) \/ TeamGone(q), req[q].pc = "judged", Quiet
  PROVE  AccountsInv'
  <1> USE DEF AccountsInv
  <1>1. CASE TeamGone(q)
    BY <1>1, RefusedInv DEF TeamGone, Correcting
  <1>2. CASE CommitTeam(q) /\ req[q].op = "new team"
    <2>1. second' = TRUE /\ Goes(q, "idle") /\ UNCHANGED <<member, raced, acct, live, founders>>
      BY <1>2 DEF CommitTeam
    <2>2. /\ req' \in [Threads -> Request] /\ req'[q] = NoReq
          /\ \A p \in Threads \ {q} : Kept(p)
      BY <2>1, GoesTo
    <2>3. AccountsTypeOK'
      BY <2>1, <2>2 DEF AccountsTypeOK, Quiet
    <2>4. \A p \in Threads : Alike(p)
      BY <2>2, KeptAlike DEF Alike, AlikeAs, NoReq, Correcting
    <2>5. Following'
      BY <2>1, <2>4, NothingWritten DEF Following, Quiet
    <2>6. LoginsEnded'
      BY <2>1, LoginsKept DEF Exists
    <2>7. FirstKnown'
      BY <2>1, <2>2, FirstKept DEF Exists, NoReq
    <2> QED
      BY <2>3, <2>5, <2>6, <2>7 DEF Following
  <1>3. CASE CommitTeam(q) /\ req[q].op # "new team"
    <2> DEFINE us == {u \in People : member["second"][u] # "none"}
    <2>1. /\ second' = FALSE /\ member' = [member EXCEPT !["second"] = [u \in People |-> "none"]]
          /\ Writes(q, us) /\ Goes(q, "rebuild") /\ UNCHANGED <<acct, live, founders>>
      BY <1>3 DEF CommitTeam
    <2>2. /\ member' \in [Teams -> [People -> Roles \cup {"none"}]]
          /\ \A v \in People \ us : \A t \in Teams : member'[t][v] = member[t][v]
      BY <2>1 DEF AccountsTypeOK, Teams
    <2>3. \A v \in People : Exists(v) => Exists(v)' /\ acct'[v].era = acct[v].era
      BY <2>1 DEF Exists
    <2>4. us \in SUBSET People
      OBVIOUS
    <2> HIDE DEF us
    <2> QED
      BY <2>1, <2>2, <2>3, <2>4, WritingInv DEF AccountsTypeOK, Correcting
  <1> QED
    BY <1>1, <1>2, <1>3

(* A user is disabled, enabled or about to be deleted. *)
LEMMA AccountInv ==
  ASSUME AccountsInv, NEW q \in Threads, CommitAccount(q, req[q].u), req[q].pc = "judged", Quiet
  PROVE  AccountsInv'
  <1> USE DEF AccountsInv
  <1>0. PICK u \in People : u = req[q].u
    BY DEF AccountsTypeOK, Request
  <1>1. CASE ~Exists(u)
    BY <1>0, <1>1, RefusedInv DEF CommitAccount, Correcting
  <1>2. CASE Exists(u)
    <2>1. /\ \/ acct' = [acct EXCEPT ![u].st = "active"] /\ UNCHANGED live
             \/ \E st \in {"active", "inactive"} : EndLogins(u, st)
          /\ Goes(q, "drop") \/ Goes(q, "idle")
          /\ UNCHANGED <<member, second, raced, founders, grants, built, tied, deeds>>
      <3>1. acct[u].st \in {"active", "inactive"}
        BY <1>2 DEF Exists, AccountsTypeOK
      <3> QED
        BY <1>0, <1>2, <3>1 DEF CommitAccount, Quiet
    <2>2. /\ req' \in [Threads -> Request] /\ \A p \in Threads \ {q} : Kept(p)
          /\ req'[q] = NoReq \/ (req'[q].pc = "drop" /\ req'[q].op = req[q].op)
      <3>1. CASE Goes(q, "drop")
        BY <3>1, DeedGoesOn
      <3>2. CASE Goes(q, "idle")
        BY <3>2, GoesTo
      <3> QED
        BY <2>1, <3>1, <3>2
    <2>3. /\ acct' \in [People -> [st : {"none", "active", "inactive"}, era : Nat]]
          /\ live' \subseteq live /\ \A v \in People : Exists(v) => Exists(v)'
          /\ \A s \in live' : s.era = acct'[s.u].era \/ s.late
      <3>1. CASE acct' = [acct EXCEPT ![u].st = "active"] /\ UNCHANGED live
        BY <3>1 DEF AccountsTypeOK, Exists, LoginsEnded, Session
      <3>2. ASSUME NEW st \in {"active", "inactive"}, EndLogins(u, st)
            PROVE  /\ acct' \in [People -> [st : {"none", "active", "inactive"}, era : Nat]]
                   /\ live' \subseteq live /\ \A v \in People : Exists(v) => Exists(v)'
                   /\ \A s \in live' : s.era = acct'[s.u].era \/ s.late
        <4>1. acct' = [acct EXCEPT ![u] = [st |-> st, era |-> acct[u].era + 1]]
          BY <3>2 DEF EndLogins
        <4>2. \A s \in live' : s \in live /\ (s.u # u \/ s.late)
          BY <3>2 DEF EndLogins, Ended
        <4>3. acct' \in [People -> [st : {"none", "active", "inactive"}, era : Nat]]
          BY <4>1 DEF AccountsTypeOK
        <4>4. /\ acct'[u].st = st /\ \A v \in People \ {u} : acct'[v] = acct[v]
          BY <4>1 DEF AccountsTypeOK
        <4>5. \A v \in People : Exists(v) => Exists(v)'
          BY <4>4 DEF Exists
        <4>6. \A s \in live' : s.era = acct'[s.u].era \/ s.late
          BY <4>2, <4>4 DEF LoginsEnded, AccountsTypeOK, Session
        <4> QED
          BY <4>2, <4>3, <4>5, <4>6
      <3> QED
        BY <2>1, <3>1, <3>2
    <2>4. AccountsTypeOK'
      BY <2>1, <2>2, <2>3 DEF AccountsTypeOK
    <2>5. \A p \in Threads : Alike(p)
      BY <2>2, KeptAlike DEF Alike, AlikeAs, NoReq, Correcting
    <2>6. Following'
      BY <2>1, <2>5, NothingWritten DEF Following
    <2>7. LoginsEnded'
      BY <2>3 DEF LoginsEnded, AccountsTypeOK, Session
    <2>8. FirstKnown'
      BY <2>1, <2>2, <2>3, FirstKept DEF NoReq
    <2> QED
      BY <2>4, <2>6, <2>7, <2>8 DEF Following
  <1> QED
    BY <1>1, <1>2

(* A user is deleted: no session of theirs is left. *)
LEMMA DropInv ==
  ASSUME AccountsInv, NEW q \in Threads, DropAccount(q)
  PROVE  AccountsInv'
  <1> USE DEF AccountsInv
  <1>0. PICK u \in People : u = req[q].u
    BY DEF AccountsTypeOK, Request
  <1>1. req[q].pc = "drop" /\ Quiet
    BY DEF DropAccount, Quiet
  <1>2. CASE u \in tied \/ ~Exists(u)
    BY <1>0, <1>1, <1>2, RefusedInv DEF DropAccount, Correcting
  <1>3. CASE ~(u \in tied \/ ~Exists(u))
    <2>1. /\ acct' = [acct EXCEPT ![u].st = "none"]
          /\ member' = [t \in Teams |-> [member[t] EXCEPT ![u] = "none"]]
          /\ live' = {s \in live : s.u # u} /\ Writes(q, {u}) /\ Goes(q, "rebuild")
          /\ founders' = IF \E x \in People \ {u} : Exists(x) THEN founders ELSE 0
          /\ UNCHANGED second
      BY <1>0, <1>3 DEF DropAccount
    <2>2. /\ member' \in [Teams -> [People -> Roles \cup {"none"}]]
          /\ \A v \in People \ {u} : \A t \in Teams : member'[t][v] = member[t][v]
      <3>1. member \in [Teams -> [People -> Roles \cup {"none"}]]
        BY DEF AccountsTypeOK
      <3>2. \A t \in Teams : member'[t] = [member[t] EXCEPT ![u] = "none"]
        BY <2>1
      <3>3. ASSUME NEW t \in Teams PROVE member'[t] \in [People -> Roles \cup {"none"}]
        <4>1. member[t] \in [People -> Roles \cup {"none"}]
          BY <3>1
        <4> HIDE DEF AccountsInv
        <4> QED
          BY <3>2, <4>1
      <3> QED
        BY <2>1, <3>1, <3>2, <3>3
    <2>3. /\ acct' \in [People -> [st : {"none", "active", "inactive"}, era : Nat]]
          /\ acct'[u].st = "none" /\ \A v \in People \ {u} : acct'[v] = acct[v]
      BY <2>1 DEF AccountsTypeOK
    <2>4. /\ req' \in [Threads -> Request] /\ \A p \in Threads \ {q} : Kept(p)
          /\ req'[q].pc = "rebuild" /\ req'[q].op = req[q].op /\ req'[q].u = req[q].u
      BY <2>1, DeedGoesOn
    <2>5. AccountsTypeOK'
      <3>1. founders' \in Nat
        BY <2>1 DEF AccountsTypeOK
      <3>2. live' \subseteq Session /\ raced' \subseteq People /\ second' \in BOOLEAN
        BY <2>1 DEF AccountsTypeOK, Writes
      <3> QED
        BY <1>1, <2>2, <2>3, <2>4, <3>1, <3>2 DEF AccountsTypeOK, Quiet
    <2>6. \A p \in Threads \ {q} : Alike(p)
      BY <2>4, KeptAlike
    <2>7. Following'
      <3>1. {u} \in SUBSET People /\ req[q].pc \notin Correcting /\ UNCHANGED <<grants, built>>
        BY <1>1 DEF Quiet, Correcting
      <3> QED
        BY <2>1, <2>2, <2>4, <2>6, <3>1, RolesWritten DEF Following
    <2>8. LoginsEnded'
      <3>1. ASSUME NEW s \in live' PROVE Exists(s.u)' /\ (s.era = acct'[s.u].era \/ s.late)
        <4>1. s \in live /\ s.u \in People /\ s.u # u
          BY <2>1 DEF AccountsTypeOK, Session
        <4> QED
          BY <2>3, <4>1 DEF LoginsEnded, Exists
      <3> QED
        BY <3>1 DEF LoginsEnded
    <2>9. FirstKnown'
      <3>1. founders' \in 0..1 /\ (founders = 0 => founders' = 0)
        BY <2>1 DEF FirstKnown
      <3>2. (\A v \in People : ~Exists(v)') => founders' = 0
        BY <2>1, <2>3 DEF Exists
      <3>3. ASSUME NEW p \in Threads, req'[p].op = "create"
            PROVE  /\ \A r \in Threads \ {p} : req'[r].op # "create"
                   /\ req'[p].first /\ req'[p].pc = "judged" => founders' = 0
        <4>1. \A r \in Threads : req'[r].op = req[r].op
          BY <2>4 DEF Kept
        <4>2. req'[p].pc = "judged" => req[p].pc = "judged" /\ req'[p].first = req[p].first
          BY <2>4 DEF Kept
        <4> QED
          BY <3>1, <3>3, <4>1, <4>2 DEF FirstKnown
      <3>4. \A p \in Threads : req'[p].pc = "idle" => req'[p].op = "none"
        BY <2>4 DEF FirstKnown, Kept
      <3> QED
        BY <3>1, <3>2, <3>3, <3>4 DEF FirstKnown
    <2> QED
      BY <2>5, <2>7, <2>8, <2>9 DEF Following
  <1> QED
    BY <1>2, <1>3

(* A request is judged and comes back for its write. *)
LEMMA JudgeInv ==
  ASSUME AccountsInv, NEW q \in Free, NEW op \in Ops, NEW by \in People, NEW u \in People,
         NEW t \in Teams, NEW r \in Roles \cup {"none"}, Judge(q, op, by, u, t, r)
  PROVE  AccountsInv'
  <1> USE DEF AccountsInv
  <1>1. q \in Threads /\ req[q].pc = "idle" /\ deeds < MaxDeeds
    BY DEF Free
  <1>2. /\ UNCHANGED <<acct, member, second, grants, built, live, tied, raced, founders>>
        /\ deeds' = deeds + 1
    BY DEF Judge
  <1>3. PICK first \in BOOLEAN : first = (op = "create" /\ \A x \in People : ~Exists(x))
    OBVIOUS
  <1>4. \A p \in Threads \ {q} : req'[p] = req[p]
    BY <1>1 DEF Judge, AccountsTypeOK
  <1>5. /\ req'[q] \in Request /\ req'[q].op = op /\ req'[q].pc = "judged" /\ req'[q].first = first
    <2>1. member[t][u] \in Roles \cup {"none"} /\ acct[u].era \in Nat
      BY DEF AccountsTypeOK
    <2>2. req'[q] = [NoReq EXCEPT !.op = op, !.pc = "judged", !.u = u, !.t = t, !.was = member[t][u],
                       !.era = acct[u].era, !.role = r, !.first = first]
      BY <1>1, <1>3 DEF Judge, AccountsTypeOK
    <2> DEFINE r1 == [NoReq EXCEPT !.op = op, !.pc = "judged", !.u = u, !.t = t]
               r2 == [r1 EXCEPT !.was = member[t][u], !.era = acct[u].era, !.role = r, !.first = first]
    <2> HIDE DEF AccountsInv
    <2>3. r1 \in Request /\ r1.op = op /\ r1.pc = "judged" /\ r1.u = u
      BY AccountsConstants DEF Request
    <2>4. req'[q] = r2
      BY <2>2
    <2> HIDE DEF r1
    <2>5. r2 \in Request /\ r2.op = op /\ r2.pc = "judged" /\ r2.first = first
      BY <2>1, <2>3 DEF Request
    <2> QED
      BY <2>4, <2>5
  <1>6. AccountsTypeOK'
    <2>1. deeds' \in 0..MaxDeeds
      BY <1>1, <1>2, AccountsAssumption DEF AccountsTypeOK
    <2>2. req' \in [Threads -> Request]
      BY <1>1, <1>4, <1>5 DEF AccountsTypeOK, Judge
    <2> QED
      BY <1>2, <2>1, <2>2 DEF AccountsTypeOK
  <1>7. \A p \in Threads : Alike(p)
    BY <1>1, <1>4, <1>5 DEF Alike, AlikeAs, Correcting
  <1>8. Following'
    BY <1>2, <1>7, NothingWritten DEF Following
  <1>9. LoginsEnded'
    BY <1>2, LoginsKept DEF Exists
  <1>10. FirstKnown'
    <2>1. founders' = founders /\ \A v \in People : Exists(v)' <=> Exists(v)
      BY <1>2 DEF Exists
    <2>2. op = "create" => LockFree
      BY DEF Judge, Admits
    <2>3. ASSUME NEW p \in Threads, req'[p].op = "create"
          PROVE  /\ \A s \in Threads \ {p} : req'[s].op # "create"
                 /\ req'[p].first /\ req'[p].pc = "judged" => founders' = 0
      BY <1>3, <1>4, <1>5, <2>1, <2>2, <2>3 DEF FirstKnown, LockFree
    <2>4. \A p \in Threads : req'[p].pc = "idle" => req'[p].op = "none"
      BY <1>4, <1>5 DEF FirstKnown
    <2> QED
      BY <2>1, <2>3, <2>4 DEF FirstKnown
  <1> QED
    BY <1>6, <1>8, <1>9, <1>10 DEF Following

(* The enforcer follows, step by step. *)
LEMMA EnforcerInv ==
  ASSUME AccountsInv, NEW q \in Threads, Refresh(q) \/ Add(q) \/ Rebuild(q) \/ Swap(q)
  PROVE  AccountsInv'
  <1> USE DEF AccountsInv
  <1>1. Following'
    BY RefreshFollows, AddFollows, RebuildFollows, SwapFollows DEF Following
  <1>2. UNCHANGED <<acct, member, second, live, tied, raced, founders, deeds>>
    BY DEF Refresh, Add, Rebuild, Swap
  <1>3. \A u \in People : RowsOf(u) \subseteq Rule /\ Rows \subseteq Rule
    BY RulesOf DEF AccountsTypeOK
  <1>4. req[q] \in Request /\ req[q].u \in People /\ req[q].rows \subseteq Rule
    BY DEF AccountsTypeOK, Request
  <1>5. /\ req' \in [Threads -> Request] /\ \A p \in Threads \ {q} : req'[p] = req[p]
        /\ \/ req'[q] = NoReq
           \/ req'[q].op = req[q].op /\ req'[q].pc \notin {"idle", "judged"}
    <2>1. CASE Refresh(q)
      <3>1. req' = [req EXCEPT ![q].pc = "add", ![q].rows = RowsOf(req[q].u), ![q].on = built]
        BY <2>1 DEF Refresh
      <3>2. RowsOf(req[q].u) \subseteq Rule /\ built \in Nat
        BY <1>3, <1>4 DEF AccountsTypeOK
      <3> HIDE DEF AccountsInv
      <3>3. req \in [Threads -> Request]
        BY DEF AccountsInv, AccountsTypeOK
      <3> QED
        BY <1>4, <3>1, <3>2, <3>3 DEF Request
    <2>2. CASE Rebuild(q)
      BY <1>3, <1>4, <2>2, AccountsAssumption DEF Rebuild, AccountsTypeOK, Request
    <2>3. CASE Add(q) \/ Swap(q)
      BY <2>3, AccountsConstants DEF Add, Swap, AccountsTypeOK
    <2> QED
      BY <2>1, <2>2, <2>3
  <1>6. grants' \subseteq Rule /\ built' \in Nat
    BY <1>4 DEF Refresh, Add, Rebuild, Swap, AccountsTypeOK, Cleared
  <1>7. AccountsTypeOK'
    BY <1>2, <1>5, <1>6 DEF AccountsTypeOK
  <1>8. LoginsEnded'
    BY <1>2, LoginsKept DEF Exists
  <1>9. FirstKnown'
    BY <1>2, <1>5, FirstKept DEF Exists, Kept, NoReq
  <1> QED
    BY <1>1, <1>7, <1>8, <1>9 DEF Following

(* Restarts, logouts and ties. *)
LEMMA OtherInv ==
  ASSUME AccountsInv,
         \/ AccountsRestart
         \/ \E s \in live : Logout(s)
         \/ \E u \in People : Tie(u)
         \/ UNCHANGED accountVars
  PROVE  AccountsInv'
  <1> USE DEF AccountsInv
  <1>1. CASE AccountsRestart
    <2>1. /\ UNCHANGED <<acct, member, second, live, tied, founders>> /\ grants' = Rows
          /\ built' = built + 1 /\ raced' = {} /\ req' = [q \in Threads |-> NoReq]
          /\ deeds < MaxDeeds /\ deeds' = deeds + 1
      BY <1>1 DEF AccountsRestart
    <2>2. Rows \subseteq Rule
      BY RulesOf, AccountsAssumption DEF AccountsTypeOK
    <2>3. AccountsTypeOK'
      BY <2>1, <2>2, AccountsConstants, AccountsAssumption DEF AccountsTypeOK
    <2>4. LoginsEnded'
      BY <2>1, LoginsKept DEF Exists
    <2>5. FirstKnown'
      BY <2>1, FirstKept DEF Exists, NoReq
    <2> QED
      BY <1>1, <2>3, <2>4, <2>5, RestartFollows DEF Following
  <1>2. CASE UNCHANGED <<acct, member, second, grants, built, req, raced, founders>>
             /\ live' \subseteq live /\ tied' \subseteq People /\ deeds' \in 0..MaxDeeds
    <2>1. AccountsTypeOK'
      BY <1>2 DEF AccountsTypeOK
    <2>2. \A p \in Threads : Kept(p) /\ Alike(p)
      BY <1>2 DEF Kept, Alike, AlikeAs
    <2>3. Following'
      BY <1>2, <2>2, NothingWritten DEF Following
    <2>4. LoginsEnded'
      BY <1>2, LoginsKept DEF Exists
    <2>5. FirstKnown'
      BY <1>2, <2>2, FirstKept DEF Exists
    <2> QED
      BY <2>1, <2>3, <2>4, <2>5 DEF Following
  <1>3. ASSUME NEW s \in live, Logout(s) PROVE AccountsInv'
    BY <1>2, <1>3, AccountsAssumption DEF Logout, AccountsTypeOK
  <1>4. ASSUME NEW u \in People, Tie(u) PROVE AccountsInv'
    BY <1>2, <1>4, AccountsAssumption DEF Tie, AccountsTypeOK
  <1>5. CASE UNCHANGED accountVars
    BY <1>2, <1>5 DEF accountVars, AccountsTypeOK
  <1> QED
    BY <1>1, <1>3, <1>4, <1>5

(* Every step keeps the invariant. *)
LEMMA AccountsStep == AccountsInv /\ [AccountsNext]_accountVars => AccountsInv'
  <1> SUFFICES ASSUME AccountsInv, [AccountsNext]_accountVars PROVE AccountsInv'
    OBVIOUS
  <1>1. ASSUME NEW q \in Threads, AccountSteps(q) PROVE AccountsInv'
    <2>1. CASE Commit(q)
      <3>1. req[q].pc = "judged" /\ Quiet
        BY <2>1 DEF Commit, Quiet
      <3> QED
        BY <2>1, <3>1, LoginInv, CreateInv, ProvisionInv, MemberInv, TeamInv, AccountInv DEF Commit
    <2> QED
      BY <1>1, <2>1, EnrolInv, DropInv, EnforcerInv DEF AccountSteps
  <1>2. ASSUME NEW q \in Free, NEW op \in Ops, NEW by \in People, NEW u \in People,
               NEW t \in Teams, NEW r \in Roles \cup {"none"}, Judge(q, op, by, u, t, r)
        PROVE  AccountsInv'
    BY <1>2, JudgeInv
  <1> QED
    BY <1>1, <1>2, OtherInv DEF AccountsNext

(* Accounts: however requests overlap between their checks and their writes, the        *)
(* enforcer in memory grants a user what the role table says once nobody is still to    *)
(* patch it (unless two writes of those roles overlapped), a login lives on only in the *)
(* era of the account it was made in or because it was under way when the era ended,    *)
(* and two first visits make one owner until the last account is gone.                  *)
THEOREM AccountsAreSound == AccountsSpec => []AccountsSound
  <1>1. AccountsInv => AccountsSound
    <2> SUFFICES ASSUME AccountsInv PROVE AccountsSound
      OBVIOUS
    <2>1. GrantsFollow
      BY DEF AccountsInv, WillFollow, GrantsFollow, Of
    <2>2. FoundedOnce
      BY DEF AccountsInv, FirstKnown, FoundedOnce
    <2> QED
      BY <2>1, <2>2 DEF AccountsInv, AccountsSound
  <1> QED
    BY <1>1, AccountsInitInv, AccountsStep, PTL DEF AccountsSpec

-----------------------------------------------------------------------------
(***************************************************************************)
(* Sign-in (TOTP, recovery codes, trusted devices, OIDC).  A code is taken *)
(* in one request and trusts a device in a later step of it: the invariant *)
(* says which codes can still be taken, and whose trust is still backed by *)
(* the enrolment in force.                                                 *)
(***************************************************************************)
Visiting == {v \in Visitors : visit[v].pc # "idle"}
(* Every batch of codes took a request, and so does every visit. *)
BatchesBounded ==
    IsFiniteSet(Visiting) /\ batch + Cardinality(Visiting) <= acts + 1

(* A code that can still be taken was never taken. *)
CodesUnspent ==
    /\ \A c \in codes : c[1] = "recovery" /\ c[2] \in 0..batch
    /\ \A n \in Batches :
          <<"recovery", n>> \in codes \/ n > batch => accepted[<<"recovery", n>>] = 0
    /\ \A t \in Steps30 : t > lastStep => accepted[<<"step", t>>] = 0

(* Whoever may yet trust a device has a code of the enrolment in force. *)
Vouched(v) ==
    visit[v].pc \in {"burn", "remember"} \/ (visit[v].pc = "act" /\ visit[v].ok)
Forgets == \E v \in Visitors : visit[v].pc = "forget"
VisitKnown ==
    \A v \in Visitors : Vouched(v) =>
        (enabled /\ visit[v].secret = secret) \/ visit[v].late \/ Forgets

(* A round trip has its state, a token and a verdict in turn. *)
FlowKnown ==
    \A f \in Flows :
      /\ f \in states => flow[f].pc = "away"
      /\ flow[f].pc \in {"none", "away", "exchange"} => flow[f].key = 0
      /\ flow[f].pc \in {"none", "away", "exchange", "verify", "refetch"} => flow[f].ins = 0
      /\ flow[f].pc \in {"verify", "refetch"} => flow[f].key = idpKey \/ flow[f].moved

FactorInv ==
    SignInTypeOK /\ BatchesBounded /\ CodesUnspent /\ VisitKnown
    /\ (\A c \in Code : accepted[c] <= 1) /\ TrustEnds
FlowInv == SignInTypeOK /\ FlowKnown /\ (\A f \in Flows : flow[f].ins <= 1) /\ KeysFollow
SignInInv == FactorInv /\ FlowInv

-----------------------------------------------------------------------------
(* An account without a second factor satisfies the invariant. *)
LEMMA SignInInitInv == SignInInit => SignInInv
  <1> SUFFICES ASSUME SignInInit PROVE SignInInv
    OBVIOUS
  <1> USE SignInAssumption DEF SignInInit, NoVisit, NoFlow, NoPending, Batches, Steps30, Code, Purposes
  <1>1. SignInTypeOK
    <2>1. batch \in 0..1 /\ secret = batch /\ enabled \in BOOLEAN
      OBVIOUS
    <2>2. codes \subseteq Code
      BY <2>1
    <2>3. visit \in [Visitors -> [pc : {"idle", "burn", "act", "remember", "forget"}, why : Purposes,
                             code : Code, secret : Batches, ok : BOOLEAN,
                             count : 0..Attempts, late : BOOLEAN]]
      OBVIOUS
    <2>4. /\ secret \in Batches /\ batch \in Batches /\ lastStep \in Steps30
          /\ clock \in 0..MaxClock /\ pending \in 0..Attempts /\ acts \in 0..MaxActs
      BY <2>1
    <2>5. /\ devices \subseteq [secret : Batches, late : BOOLEAN]
          /\ accepted \in [Code -> Nat] /\ states \subseteq Flows
          /\ flow \in [Flows -> [pc : {"none", "away", "exchange", "verify", "refetch", "in", "refused"},
                         key : Nat, moved : BOOLEAN, ins : Nat]]
          /\ idpKey \in Nat \ {0} /\ cached \in 0..idpKey
      OBVIOUS
    <2> QED
      BY <2>1, <2>2, <2>3, <2>4, <2>5 DEF SignInTypeOK
  <1>2. BatchesBounded
    <2>1. Visiting = {}
      BY DEF Visiting
    <2> QED
      BY <2>1, FS_EmptySet DEF BatchesBounded
  <1>3. CodesUnspent
    BY DEF CodesUnspent
  <1>4. VisitKnown /\ TrustEnds
    BY DEF VisitKnown, Vouched, TrustEnds
  <1>5. FlowKnown /\ KeysFollow /\ (\A c \in Code : accepted[c] <= 1) /\ \A f \in Flows : flow[f].ins <= 1
    BY DEF FlowKnown, KeysFollow
  <1> QED
    BY <1>1, <1>2, <1>3, <1>4, <1>5 DEF SignInInv, FactorInv, FlowInv

(* Batches of codes stay within the requests that can ask for one. *)
LEMMA Batching ==
  ASSUME SignInTypeOK, BatchesBounded, FactorNext, acts' \in 0..MaxActs
  PROVE  BatchesBounded' /\ batch' \in Batches
  <1> USE SignInAssumption
  <1>0. /\ batch \in Nat /\ acts \in Nat /\ acts' \in Nat /\ IsFiniteSet(Visiting)
        /\ Cardinality(Visiting) \in Nat /\ batch + Cardinality(Visiting) <= acts + 1
    BY FS_CardinalityType DEF SignInTypeOK, BatchesBounded, Batches
  <1>1. SUFFICES /\ IsFiniteSet(Visiting') /\ batch' \in Nat
                 /\ batch' + Cardinality(Visiting') <= acts' + 1
    BY <1>1, FS_CardinalityType DEF BatchesBounded, Batches
  <1>2. \/ /\ Visiting' = Visiting
           /\ (batch' = batch /\ acts' >= acts) \/ (batch' = batch + 1 /\ acts' = acts + 1)
        \/ \E v : Visiting' = Visiting \cup {v} /\ batch' = batch /\ acts' = acts + 1
        \/ \E v \in Visiting : /\ Visiting' = Visiting \ {v}
                               /\ batch' \in {batch, batch + 1} /\ acts' = acts
    <2> USE DEF Visiting, Act, NoAct, Fresh
    <2>0. visit \in [Visitors -> [pc : {"idle", "burn", "act", "remember", "forget"}, why : Purposes,
                             code : Code, secret : Batches, ok : BOOLEAN,
                             count : 0..Attempts, late : BOOLEAN]]
      BY DEF SignInTypeOK
    <2>1. CASE (Tick /\ NoAct) \/ PasswordRight \/ PendingExpires \/ Enroll \/ Confirm
      BY <1>0, <2>1 DEF Tick, PasswordRight, PendingExpires, Enroll, Confirm
    <2>2. ASSUME NEW v \in Visitors, NEW why \in Purposes, NEW c \in Code, Present(v, why, c)
          PROVE  Visiting' = Visiting \cup {v} /\ batch' = batch /\ acts' = acts + 1
      BY <2>0, <2>2 DEF Present
    <2>3. ASSUME NEW v \in Visitors, FactorSteps(v)
          PROVE  \/ Visiting' = Visiting /\ batch' = batch /\ acts' = acts
                 \/ /\ v \in Visiting /\ Visiting' = Visiting \ {v}
                    /\ batch' \in {batch, batch + 1} /\ acts' = acts
      <3>1. CASE Burn(v)
        BY <2>0, <3>1 DEF Burn
      <3>2. CASE Remember(v) \/ Forget(v)
        BY <2>0, <3>2 DEF Remember, Forget, Leave, Forgetting, NoVisit
      <3>3. CASE Answer(v)
        <4>0. v \in Visiting /\ acts' = acts
          BY <3>3 DEF Answer
        <4>1. CASE Leave(v) /\ batch' \in {batch, batch + 1}
          BY <2>0, <4>0, <4>1 DEF Leave, NoVisit
        <4>2. CASE Forgetting(v) /\ batch' = batch
          BY <2>0, <4>0, <4>2 DEF Forgetting, NoVisit
        <4>3. CASE visit' = [visit EXCEPT ![v].pc = "remember"] /\ batch' = batch
          BY <2>0, <4>0, <4>3
        <4>4. CASE visit' = [visit EXCEPT ![v].pc = "forget"] /\ batch' = batch
          BY <2>0, <4>0, <4>4
        <4> QED
          BY <3>3, <4>1, <4>2, <4>3, <4>4 DEF Answer, LogIn, Recover, Change
      <3> QED
        BY <2>3, <3>1, <3>2, <3>3 DEF FactorSteps
    <2>4. CASE \E v \in Visitors : FactorSteps(v)
      BY <1>0, <2>3, <2>4
    <2>5. CASE \E v \in Visitors, why \in Purposes, c \in Code : Present(v, why, c)
      BY <2>2, <2>5
    <2> QED
      BY <2>1, <2>4, <2>5 DEF FactorNext
  <1>3. CASE /\ Visiting' = Visiting
             /\ (batch' = batch /\ acts' >= acts) \/ (batch' = batch + 1 /\ acts' = acts + 1)
    BY <1>0, <1>3
  <1>4. CASE \E v : Visiting' = Visiting \cup {v} /\ batch' = batch /\ acts' = acts + 1
    BY <1>0, <1>4, FS_AddElement
  <1>5. CASE \E v \in Visiting : /\ Visiting' = Visiting \ {v}
                                 /\ batch' \in {batch, batch + 1} /\ acts' = acts
    <2>1. PICK v \in Visiting : /\ Visiting' = Visiting \ {v}
                                 /\ batch' \in {batch, batch + 1} /\ acts' = acts
      BY <1>5
    <2>2. IsFiniteSet(Visiting \ {v}) /\ Cardinality(Visiting \ {v}) = Cardinality(Visiting) - 1
      BY <1>0, <2>1, FS_RemoveElement
    <2> QED
      BY <1>0, <2>1, <2>2
  <1> QED
    BY <1>2, <1>3, <1>4, <1>5

VisitRecord == [pc : {"idle", "burn", "act", "remember", "forget"}, why : Purposes,
                code : Code, secret : Batches, ok : BOOLEAN, count : 0..Attempts, late : BOOLEAN]
FactorTypeOK ==
  /\ secret \in Batches /\ enabled \in BOOLEAN /\ lastStep \in Steps30
  /\ codes \subseteq Code /\ batch \in Batches /\ clock \in 0..MaxClock
  /\ pending \in 0..Attempts
  /\ devices \subseteq [secret : Batches, late : BOOLEAN]
  /\ visit \in [Visitors -> VisitRecord] /\ accepted \in [Code -> Nat]

(* The types of the second factor's state. *)
LEMMA FactorTypes ==
  ASSUME SignInTypeOK, FactorNext, batch' \in Batches
  PROVE  FactorTypeOK'
  <1> USE SignInAssumption
  <1>0. FactorTypeOK
    BY DEF SignInTypeOK, FactorTypeOK, VisitRecord
  <1>1. NoVisit \in VisitRecord /\ NoPending \in 0..Attempts
    BY DEF NoVisit, NoPending, VisitRecord, Purposes, Code, Steps30, Batches
  <1>2. Fresh => codes' \subseteq Code
    BY DEF Fresh, Code
  <1>3. CASE (Tick /\ NoAct) \/ PasswordRight \/ PendingExpires
    BY <1>0, <1>1, <1>3 DEF Tick, NoAct, PasswordRight, PendingExpires, FactorTypeOK
  <1>4. CASE Enroll \/ Confirm
    BY <1>0, <1>2, <1>4 DEF Enroll, Confirm, FactorTypeOK
  <1>5. CASE \E v \in Visitors, why \in Purposes, c \in Code : Present(v, why, c)
    <2>1. PICK v \in Visitors, why \in Purposes, c \in Code : Present(v, why, c)
      BY <1>5
    <2> DEFINE r == [NoVisit EXCEPT
       !.why = why, !.code = c, !.secret = secret,
       !.count = IF why = "login" THEN pending ELSE 0,
       !.pc = IF Matches(c) THEN "burn" ELSE "act"]
    <2>2. r \in VisitRecord
      <3>1. (IF why = "login" THEN pending ELSE 0) \in 0..Attempts
        BY <1>0 DEF FactorTypeOK
      <3>2. (IF Matches(c) THEN "burn" ELSE "act") \in {"burn", "act"}
        OBVIOUS
      <3> QED
        BY <1>0, <3>1, <3>2 DEF NoVisit, VisitRecord, FactorTypeOK
    <2>3. visit' = [visit EXCEPT ![v] = r]
      BY <2>1 DEF Present
    <2>4. visit' \in [Visitors -> VisitRecord]
      BY <1>0, <2>2, <2>3 DEF FactorTypeOK
    <2> QED
      BY <1>0, <2>1, <2>4 DEF Present, FactorTypeOK
  <1>6. ASSUME NEW v \in Visitors, FactorSteps(v) PROVE FactorTypeOK'
    <2>1. visit' \in [Visitors -> VisitRecord]
      <3>1. CASE Leave(v)
        BY <1>0, <1>1, <3>1 DEF Leave, FactorTypeOK
      <3>2. CASE Forgetting(v)
        BY <1>0, <1>1, <3>2 DEF Forgetting, FactorTypeOK, VisitRecord
      <3>3. CASE \E pc \in {"remember", "forget"} : visit' = [visit EXCEPT ![v].pc = pc]
        BY <1>0, <3>3 DEF FactorTypeOK, VisitRecord
      <3>4. CASE Burn(v)
        <4>1. PICK b \in BOOLEAN : b = Unused(visit[v].code)
          <5>1. Unused(visit[v].code) = TRUE \/ Unused(visit[v].code) = FALSE
            BY <1>0 DEF Unused, FactorTypeOK, VisitRecord, Code, Steps30
          <5> QED
            BY <5>1
        <4>2. visit' = [visit EXCEPT ![v] = [visit[v] EXCEPT !.pc = "act", !.ok = b]]
          BY <1>0, <3>4, <4>1 DEF Burn, FactorTypeOK
        <4>3. visit[v] \in VisitRecord /\ visit \in [Visitors -> VisitRecord]
          BY <1>0 DEF FactorTypeOK
        <4>4. [visit[v] EXCEPT !.pc = "act", !.ok = b] \in VisitRecord
          BY <4>3 DEF VisitRecord
        <4> QED
          BY <4>2, <4>3, <4>4
      <3> QED
        BY <1>6, <3>1, <3>2, <3>3, <3>4
           DEF FactorSteps, Answer, LogIn, Recover, Change, Remember, Forget
    <2>2. visit[v] \in VisitRecord
      BY <1>0 DEF FactorTypeOK
    <2>3. CASE Burn(v)
      BY <1>0, <2>1, <2>2, <2>3 DEF Burn, FactorTypeOK, VisitRecord, Code
    <2>4. CASE Remember(v) \/ Forget(v)
      BY <1>0, <2>1, <2>2, <2>4 DEF Remember, Forget, Forgetting, FactorTypeOK, VisitRecord
    <2>5. CASE Answer(v)
      <3>1. CASE LogIn(v)
        BY <1>0, <1>1, <2>1, <2>2, <2>5, <3>1 DEF Answer, LogIn, Forgetting, FactorTypeOK, VisitRecord
      <3>2. CASE Recover(v)
        BY <1>0, <2>1, <2>5, <3>2 DEF Answer, Recover, Forgetting, FactorTypeOK
      <3>3. CASE Change(v)
        <4>1. secret' \in Batches /\ enabled' \in BOOLEAN /\ codes' \subseteq Code
          <5>1. \/ UNCHANGED <<secret, enabled, codes>>
                \/ secret' = 0 /\ enabled' = FALSE /\ codes' = {}
                \/ UNCHANGED <<secret, enabled>> /\ Fresh
            BY <3>3 DEF Change
          <5>2. 0 \in Batches
            BY DEF Batches
          <5> QED
            BY <1>0, <1>2, <5>1, <5>2 DEF FactorTypeOK
        <4>2. UNCHANGED <<pending, devices, lastStep, accepted, clock>>
          BY <2>5, <3>3 DEF Answer, Change
        <4> QED
          BY <1>0, <2>1, <4>1, <4>2 DEF FactorTypeOK
      <3> QED
        BY <2>5, <3>1, <3>2, <3>3 DEF Answer
    <2> QED
      BY <1>6, <2>3, <2>4, <2>5 DEF FactorSteps
  <1> QED
    BY <1>3, <1>4, <1>5, <1>6 DEF FactorNext

(* A code that was taken cannot be taken again. *)
LEMMA CodesStep ==
  ASSUME SignInTypeOK, FactorNext, batch' \in Batches, CodesUnspent, \A c \in Code : accepted[c] <= 1
  PROVE  CodesUnspent' /\ (\A c \in Code : accepted'[c] <= 1)
  <1> USE SignInAssumption
  <1>0. FactorTypeOK
    BY DEF SignInTypeOK, FactorTypeOK, VisitRecord
  <1>1. CASE UNCHANGED <<lastStep, accepted>> /\ (UNCHANGED <<codes, batch>> \/ Fresh \/ (codes' = {} /\ UNCHANGED batch))
    <2>1. CASE UNCHANGED <<codes, batch>>
      BY <1>1, <2>1 DEF CodesUnspent
    <2>2. CASE Fresh
      BY <1>0, <1>1, <2>2 DEF CodesUnspent, Fresh, FactorTypeOK, Batches
    <2>3. CASE codes' = {} /\ UNCHANGED batch
      BY <1>0, <1>1, <2>3 DEF CodesUnspent
    <2> QED
      BY <1>1, <2>1, <2>2, <2>3
  <1>2. ASSUME NEW v \in Visitors, Burn(v)
        PROVE CodesUnspent' /\ (\A c \in Code : accepted'[c] <= 1)
    <2>1. PICK c \in Code : c = visit[v].code
      BY <1>0 DEF FactorTypeOK, VisitRecord
    <2>2. CASE ~Unused(c)
      BY <1>0, <1>2, <2>1, <2>2 DEF Burn, CodesUnspent, FactorTypeOK, Unused
    <2>3. CASE Unused(c) /\ c[1] = "step"
      BY <1>0, <1>2, <2>1, <2>3 DEF Burn, CodesUnspent, FactorTypeOK, Unused, Code, Steps30
    <2>4. CASE Unused(c) /\ c[1] # "step"
      BY <1>0, <1>2, <2>1, <2>4 DEF Burn, CodesUnspent, FactorTypeOK, Unused, Code, Batches
    <2> QED
      BY <2>2, <2>3, <2>4
  <1>3. CASE (Tick /\ NoAct) \/ PasswordRight \/ PendingExpires \/ Enroll \/ Confirm
    BY <1>1, <1>3 DEF Tick, PasswordRight, PendingExpires, Enroll, Confirm
  <1>4. CASE \E v \in Visitors, why \in Purposes, c \in Code : Present(v, why, c)
    BY <1>1, <1>4 DEF Present
  <1>5. ASSUME NEW v \in Visitors, Answer(v) \/ Remember(v) \/ Forget(v)
        PROVE CodesUnspent' /\ (\A c \in Code : accepted'[c] <= 1)
    BY <1>1, <1>5 DEF Answer, LogIn, Recover, Change, Remember, Forget
  <1> QED
    BY <1>2, <1>3, <1>4, <1>5 DEF FactorNext, FactorSteps

(* A step of the account changes the enrolment only where a visit has yet to *)
(* revoke what was trusted under it.                                       *)
LEMMA TrustStep ==
  ASSUME SignInTypeOK, FactorNext, VisitKnown, TrustEnds
  PROVE  VisitKnown' /\ TrustEnds'
  <1> USE SignInAssumption
  <1>0. /\ visit \in [Visitors -> VisitRecord] /\ enabled \in BOOLEAN
        /\ devices \subseteq [secret : Batches, late : BOOLEAN]
    BY DEF SignInTypeOK, VisitRecord
  <1>1. ASSUME UNCHANGED <<visit, devices>>, ~enabled \/ UNCHANGED <<enabled, secret>>
        PROVE  VisitKnown' /\ TrustEnds'
    BY <1>1 DEF VisitKnown, Vouched, Forgets, TrustEnds
  <1>2. CASE (Tick /\ NoAct) \/ PasswordRight \/ PendingExpires \/ Enroll \/ Confirm
    BY <1>1, <1>2 DEF Tick, PasswordRight, PendingExpires, Enroll, Confirm
  <1>3. ASSUME NEW v \in Visitors, NEW why \in Purposes, NEW c \in Code, Present(v, why, c)
        PROVE  VisitKnown' /\ TrustEnds'
    <2>1. UNCHANGED <<secret, enabled, devices>> /\ visit[v].pc = "idle"
      BY <1>3 DEF Present
    <2>2. /\ \A w \in Visitors \ {v} : visit'[w] = visit[w]
          /\ visit'[v].secret = secret /\ ~visit'[v].ok
          /\ visit'[v].pc \in {"burn", "act"} /\ (visit'[v].pc = "burn" => enabled)
      BY <1>0, <1>3 DEF Present, NoVisit, Matches
    <2>3. Forgets => Forgets'
      BY <2>1, <2>2 DEF Forgets
    <2>4. VisitKnown'
      BY <2>1, <2>2, <2>3 DEF VisitKnown, Vouched
    <2>5. TrustEnds'
      BY <2>1, <2>3 DEF TrustEnds, Forgets
    <2> QED
      BY <2>4, <2>5
  <1>4. ASSUME NEW v \in Visitors, visit[v].pc # "forget", UNCHANGED <<secret, enabled, devices>>,
               \A w \in Visitors \ {v} : visit'[w] = visit[w],
               Vouched(v)' => Vouched(v),
               visit'[v].pc = "idle" \/ (visit'[v].secret = visit[v].secret /\ visit'[v].late = visit[v].late)
        PROVE  VisitKnown' /\ TrustEnds'
    <2>1. Forgets => Forgets'
      BY <1>4 DEF Forgets
    <2>2. TrustEnds'
      BY <1>4, <2>1 DEF TrustEnds, Forgets
    <2>3. VisitKnown'
      BY <1>4, <2>1 DEF VisitKnown, Vouched
    <2> QED
      BY <2>2, <2>3
  <1>5. ASSUME NEW v \in Visitors, Forgetting(v) PROVE VisitKnown' /\ TrustEnds'
    <2>1. TrustEnds'
      BY <1>5 DEF Forgetting, TrustEnds
    <2>2. ASSUME NEW w \in Visitors, Vouched(w)' PROVE visit'[w].late = TRUE
      BY <1>0, <1>5, <2>2 DEF Forgetting, Vouched, NoVisit, VisitRecord
    <2> QED
      BY <2>1, <2>2 DEF VisitKnown
  <1>6. ASSUME NEW v \in Visitors, visit[v].pc # "forget", Leave(v), UNCHANGED <<secret, enabled, devices>>
        PROVE  VisitKnown' /\ TrustEnds'
    <2>1. visit'[v].pc = "idle" /\ visit'[v].ok = FALSE /\ \A w \in Visitors \ {v} : visit'[w] = visit[w]
      BY <1>0, <1>6 DEF Leave, NoVisit
    <2> QED
      BY <1>4, <1>6, <2>1 DEF Vouched
  <1>7. ASSUME NEW v \in Visitors, Burn(v) PROVE VisitKnown' /\ TrustEnds'
    <2>1. /\ \A w \in Visitors \ {v} : visit'[w] = visit[w]
          /\ visit'[v].secret = visit[v].secret /\ visit'[v].late = visit[v].late
      BY <1>0, <1>7 DEF Burn, VisitRecord
    <2> QED
      BY <1>4, <1>7, <2>1 DEF Burn, Vouched
  <1>8. ASSUME NEW v \in Visitors, Remember(v) PROVE VisitKnown' /\ TrustEnds'
    <2>1. Forgets => Forgets'
      BY <1>0, <1>8 DEF Forgets, Remember, Leave
    <2>2. \A w \in Visitors \ {v} : visit'[w] = visit[w]
      BY <1>0, <1>8 DEF Remember, Leave
    <2>3. visit'[v].pc = "idle" /\ UNCHANGED <<secret, enabled>>
      BY <1>0, <1>8 DEF Remember, Leave, NoVisit
    <2>4. VisitKnown'
      BY <1>8, <2>1, <2>2, <2>3 DEF VisitKnown, Vouched
    <2>5. (enabled /\ visit[v].secret = secret) \/ visit[v].late \/ Forgets
      BY <1>8 DEF Remember, VisitKnown, Vouched
    <2>6. TrustEnds'
      BY <1>8, <2>1, <2>3, <2>5 DEF Remember, TrustEnds, Forgets
    <2> QED
      BY <2>4, <2>6
  <1>9. ASSUME NEW v \in Visitors, Answer(v) PROVE VisitKnown' /\ TrustEnds'
    <2>0. visit[v].pc = "act"
      BY <1>9 DEF Answer
    <2>1. CASE visit[v].ok /\ visit' = [visit EXCEPT ![v].pc = "remember"]
                           /\ UNCHANGED <<secret, enabled, devices>>
      <3>1. /\ \A w \in Visitors \ {v} : visit'[w] = visit[w]
            /\ visit'[v].secret = visit[v].secret /\ visit'[v].late = visit[v].late
        BY <1>0, <2>1 DEF VisitRecord
      <3> QED
        BY <1>4, <2>0, <2>1, <3>1 DEF Vouched
    <2>2. CASE visit' = [visit EXCEPT ![v].pc = "forget"]
      <3>1. Forgets'
        BY <1>0, <2>2 DEF Forgets
      <3> QED
        BY <3>1 DEF VisitKnown, TrustEnds, Forgets
    <2>3. CASE Forgetting(v)
      BY <1>5, <2>3
    <2>4. CASE Leave(v) /\ UNCHANGED devices /\ UNCHANGED <<secret, enabled>>
      BY <1>6, <2>0, <2>4
    <2> QED
      BY <1>9, <2>1, <2>2, <2>3, <2>4 DEF Answer, LogIn, Recover, Change
  <1>10. ASSUME NEW v \in Visitors, Forget(v) PROVE VisitKnown' /\ TrustEnds'
    BY <1>5, <1>10 DEF Forget
  <1> QED
    BY <1>2, <1>3, <1>7, <1>8, <1>9, <1>10 DEF FactorNext, FactorSteps

FlowRecord == [pc : {"none", "away", "exchange", "verify", "refetch", "in", "refused"},
               key : Nat, moved : BOOLEAN, ins : Nat]
FlowTypeOK ==
  /\ states \subseteq Flows /\ flow \in [Flows -> FlowRecord]
  /\ idpKey \in Nat \ {0} /\ cached \in 0..idpKey
(* What FlowInv says of one round trip. *)
TripOf(r, open, k) ==
  /\ open => r.pc = "away"
  /\ r.pc \in {"none", "away", "exchange"} => r.key = 0
  /\ r.pc \in {"none", "away", "exchange", "verify", "refetch"} => r.ins = 0
  /\ r.pc \in {"verify", "refetch"} => r.key = k \/ r.moved
  /\ r.ins <= 1
  /\ r.pc = "refused" /\ r.key # 0 => r.moved
Trip(f) == TripOf(flow[f], f \in states, idpKey)

(* One round trip to the identity provider, step by step. *)
LEMMA FlowStep ==
  ASSUME FlowTypeOK, \A f \in Flows : Trip(f), OidcNext
  PROVE  FlowTypeOK' /\ \A f \in Flows : Trip(f)'
  <1>1. CASE Rotate
    <2>1. idpKey' \in Nat \ {0} /\ cached' \in 0..idpKey' /\ states' \subseteq Flows
      BY <1>1 DEF Rotate, FlowTypeOK
    <2>2. flow' \in [Flows -> FlowRecord]
      BY <1>1 DEF Rotate, FlowTypeOK, FlowRecord
    <2>3. ASSUME NEW f \in Flows PROVE Trip(f)'
      BY <1>1 DEF Rotate, FlowTypeOK, FlowRecord, Trip, TripOf
    <2> QED
      BY <2>1, <2>2, <2>3 DEF FlowTypeOK
  <1>2. ASSUME NEW f \in Flows, flow' \in [Flows -> FlowRecord], \A e \in Flows \ {f} : flow'[e] = flow[e],
               states' \subseteq Flows, \A e \in Flows \ {f} : e \in states' <=> e \in states,
               idpKey' = idpKey, cached' \in 0..idpKey, Trip(f)'
        PROVE  FlowTypeOK' /\ \A e \in Flows : Trip(e)'
    <2>1. FlowTypeOK'
      BY <1>2 DEF FlowTypeOK
    <2>2. ASSUME NEW e \in Flows \ {f} PROVE Trip(e)'
      BY <1>2, <2>2 DEF Trip
    <2> QED
      BY <1>2, <2>1, <2>2
  <1>3. ASSUME NEW f \in Flows, Begin(f) PROVE FlowTypeOK' /\ \A e \in Flows : Trip(e)'
    <2>1. NoFlow \in FlowRecord /\ NoFlow.key = 0 /\ NoFlow.ins = 0
      BY DEF NoFlow, FlowRecord
    <2>2. flow' = [flow EXCEPT ![f] = [NoFlow EXCEPT !.pc = "away"]]
      BY <1>3 DEF Begin, At
    <2>3. flow' \in [Flows -> FlowRecord] /\ \A e \in Flows \ {f} : flow'[e] = flow[e]
      BY <2>1, <2>2 DEF FlowTypeOK, FlowRecord
    <2>4. flow'[f].pc = "away" /\ flow'[f].key = 0 /\ flow'[f].ins = 0
      BY <2>1, <2>2 DEF FlowTypeOK, FlowRecord
    <2>5. Trip(f)'
      BY <2>4 DEF Trip, TripOf
    <2> QED
      BY <1>2, <1>3, <2>3, <2>5 DEF Begin, FlowTypeOK
  <1>4. ASSUME NEW f \in Flows, Callback(f) PROVE FlowTypeOK' /\ \A e \in Flows : Trip(e)'
    <2>0. Trip(f) /\ flow[f] \in FlowRecord /\ flow \in [Flows -> FlowRecord]
      BY DEF FlowTypeOK
    <2>1. /\ states' \subseteq Flows /\ (\A e \in Flows \ {f} : e \in states' <=> e \in states)
          /\ idpKey' = idpKey /\ cached' \in 0..idpKey
      BY <1>4 DEF Callback, Taken, FlowTypeOK
    <2>2. flow' \in [Flows -> FlowRecord] /\ \A e \in Flows \ {f} : flow'[e] = flow[e]
      <3>1. CASE f \in states
        BY <1>4, <2>0, <3>1 DEF Callback, Taken, FlowTypeOK, FlowRecord
      <3>2. CASE f \notin states /\ flow[f].pc = "away"
        BY <1>4, <2>0, <3>2 DEF Callback, Taken, FlowTypeOK, FlowRecord
      <3>3. CASE f \notin states /\ flow[f].pc # "away"
        BY <1>4, <2>0, <3>3 DEF Callback, Taken, FlowTypeOK, FlowRecord
      <3> QED
        BY <3>1, <3>2, <3>3
    <2>3. Trip(f)'
      <3>1. CASE f \in states
        BY <1>4, <2>0, <2>1, <3>1 DEF Callback, Taken, Trip, TripOf, FlowTypeOK, FlowRecord
      <3>2. CASE f \notin states /\ flow[f].pc = "away"
        BY <1>4, <2>0, <2>1, <3>2 DEF Callback, Taken, Trip, TripOf, FlowTypeOK, FlowRecord
      <3>3. CASE f \notin states /\ flow[f].pc # "away"
        BY <1>4, <2>0, <2>1, <3>3 DEF Callback, Taken, Trip, TripOf, FlowTypeOK, FlowRecord
      <3> QED
        BY <3>1, <3>2, <3>3
    <2> QED
      BY <1>2, <2>1, <2>2, <2>3
  <1>5. ASSUME NEW f \in Flows, Exchange(f) PROVE FlowTypeOK' /\ \A e \in Flows : Trip(e)'
    <2>0. Trip(f) /\ flow[f] \in FlowRecord /\ flow \in [Flows -> FlowRecord]
      BY DEF FlowTypeOK
    <2>1. /\ states' \subseteq Flows /\ (\A e \in Flows \ {f} : e \in states' <=> e \in states)
          /\ idpKey' = idpKey /\ cached' \in 0..idpKey
      BY <1>5 DEF Exchange, At, FlowTypeOK
    <2>2. flow' \in [Flows -> FlowRecord] /\ \A e \in Flows \ {f} : flow'[e] = flow[e]
      <3>1. CASE At(f, "exchange", [flow[f] EXCEPT !.pc = "verify", !.key = idpKey, !.moved = FALSE])
        BY <1>5, <2>0, <3>1 DEF Exchange, At, FlowTypeOK, FlowRecord
      <3>2. CASE At(f, "exchange", [flow[f] EXCEPT !.pc = "refused"])
        BY <1>5, <2>0, <3>2 DEF Exchange, At, FlowTypeOK, FlowRecord
      <3> QED
        BY <1>5, <3>1, <3>2 DEF Exchange
    <2>3. Trip(f)'
      <3>1. CASE At(f, "exchange", [flow[f] EXCEPT !.pc = "verify", !.key = idpKey, !.moved = FALSE])
        BY <1>5, <2>0, <2>1, <3>1 DEF Exchange, At, Trip, TripOf, FlowTypeOK, FlowRecord
      <3>2. CASE At(f, "exchange", [flow[f] EXCEPT !.pc = "refused"])
        BY <1>5, <2>0, <2>1, <3>2 DEF Exchange, At, Trip, TripOf, FlowTypeOK, FlowRecord
      <3> QED
        BY <1>5, <3>1, <3>2 DEF Exchange
    <2> QED
      BY <1>2, <2>1, <2>2, <2>3
  <1>6. ASSUME NEW f \in Flows, Verify(f) PROVE FlowTypeOK' /\ \A e \in Flows : Trip(e)'
    <2>0. Trip(f) /\ flow[f] \in FlowRecord /\ flow \in [Flows -> FlowRecord]
      BY DEF FlowTypeOK
    <2>1. /\ states' \subseteq Flows /\ (\A e \in Flows \ {f} : e \in states' <=> e \in states)
          /\ idpKey' = idpKey /\ cached' \in 0..idpKey
      BY <1>6 DEF Verify, Verdict, FlowTypeOK
    <2>2. flow' \in [Flows -> FlowRecord] /\ \A e \in Flows \ {f} : flow'[e] = flow[e]
      <3>1. CASE cached' = flow[f].key
        BY <1>6, <2>0, <3>1 DEF Verify, Verdict, FlowTypeOK, FlowRecord
      <3>2. CASE cached' # flow[f].key
        BY <1>6, <2>0, <3>2 DEF Verify, Verdict, FlowTypeOK, FlowRecord
      <3> QED
        BY <3>1, <3>2
    <2>3. Trip(f)'
      <3>1. CASE cached' = flow[f].key
        BY <1>6, <2>0, <2>1, <3>1 DEF Verify, Verdict, Trip, TripOf, FlowTypeOK, FlowRecord
      <3>2. CASE cached' # flow[f].key
        BY <1>6, <2>0, <2>1, <3>2 DEF Verify, Verdict, Trip, TripOf, FlowTypeOK, FlowRecord
      <3> QED
        BY <3>1, <3>2
    <2> QED
      BY <1>2, <2>1, <2>2, <2>3
  <1>7. ASSUME NEW f \in Flows, VerifyAgain(f) PROVE FlowTypeOK' /\ \A e \in Flows : Trip(e)'
    <2>0. Trip(f) /\ flow[f] \in FlowRecord /\ flow \in [Flows -> FlowRecord]
      BY DEF FlowTypeOK
    <2>1. /\ states' \subseteq Flows /\ (\A e \in Flows \ {f} : e \in states' <=> e \in states)
          /\ idpKey' = idpKey /\ cached' \in 0..idpKey
      BY <1>7 DEF VerifyAgain, Verdict, FlowTypeOK
    <2>2. flow' \in [Flows -> FlowRecord] /\ \A e \in Flows \ {f} : flow'[e] = flow[e]
      <3>1. CASE idpKey = flow[f].key
        BY <1>7, <2>0, <3>1 DEF VerifyAgain, Verdict, FlowTypeOK, FlowRecord
      <3>2. CASE idpKey # flow[f].key
        BY <1>7, <2>0, <3>2 DEF VerifyAgain, Verdict, FlowTypeOK, FlowRecord
      <3> QED
        BY <3>1, <3>2
    <2>3. Trip(f)'
      <3>1. CASE idpKey = flow[f].key
        BY <1>7, <2>0, <2>1, <3>1 DEF VerifyAgain, Verdict, Trip, TripOf, FlowTypeOK, FlowRecord
      <3>2. CASE idpKey # flow[f].key
        BY <1>7, <2>0, <2>1, <3>2 DEF VerifyAgain, Verdict, Trip, TripOf, FlowTypeOK, FlowRecord
      <3> QED
        BY <3>1, <3>2
    <2> QED
      BY <1>2, <2>1, <2>2, <2>3
  <1> QED
    BY <1>1, <1>3, <1>4, <1>5, <1>6, <1>7 DEF OidcNext

(* Every step keeps the invariant. *)
LEMMA SignInStep == SignInInv /\ [SignInNext]_signInVars => SignInInv'
  <1> SUFFICES ASSUME SignInInv, [SignInNext]_signInVars PROVE SignInInv'
    OBVIOUS
  <1>0. FlowTypeOK /\ FactorTypeOK /\ acts \in 0..MaxActs
    BY DEF SignInInv, FactorInv, SignInTypeOK, FlowTypeOK, FactorTypeOK, FlowRecord, VisitRecord
  <1>1. ASSUME FlowTypeOK', FactorTypeOK', acts' \in 0..MaxActs PROVE SignInTypeOK'
    BY <1>1 DEF SignInTypeOK, FlowTypeOK, FactorTypeOK, FlowRecord, VisitRecord
  <1>2. CASE FactorNext /\ UNCHANGED oidcVars
    <2>1. acts' \in 0..MaxActs
      <3>1. acts' = acts \/ (acts < MaxActs /\ acts' = acts + 1)
        <4>1. ASSUME NEW v \in Visitors, FactorSteps(v) PROVE acts' = acts
          BY <4>1 DEF FactorSteps, Burn, Answer, Remember, Forget, NoAct
        <4> QED
          BY <1>2, <4>1 DEF FactorNext, NoAct, Act, PasswordRight, PendingExpires, Enroll, Confirm, Present
      <3> QED
        BY <1>0, <3>1, SignInAssumption
    <2>2. BatchesBounded' /\ batch' \in Batches
      BY <1>2, <2>1, Batching DEF SignInInv, FactorInv
    <2>3. FactorTypeOK'
      BY <1>2, <2>2, FactorTypes DEF SignInInv, FactorInv
    <2>4. CodesUnspent' /\ (\A c \in Code : accepted'[c] <= 1)
      BY <1>2, <2>2, CodesStep DEF SignInInv, FactorInv
    <2>5. VisitKnown' /\ TrustEnds'
      BY <1>2, TrustStep DEF SignInInv, FactorInv
    <2>6. FlowTypeOK' /\ FlowKnown' /\ (\A f \in Flows : flow'[f].ins <= 1) /\ KeysFollow'
      BY <1>0, <1>2 DEF oidcVars, SignInInv, FlowInv, FlowTypeOK, FlowKnown, KeysFollow
    <2>7. (\A c \in Code : accepted[c] <= 1)' /\ (\A f \in Flows : flow[f].ins <= 1)'
      BY <2>4, <2>6
    <2> QED
      BY <1>1, <2>1, <2>2, <2>3, <2>4, <2>5, <2>6, <2>7 DEF SignInInv, FactorInv, FlowInv
  <1>3. CASE OidcNext /\ UNCHANGED factorVars
    <2>1. acts' \in 0..MaxActs /\ acts' >= acts
      <3>1. acts' = acts \/ (acts < MaxActs /\ acts' = acts + 1)
        BY <1>3, Zenon DEF OidcNext, NoAct, Act, Rotate, Begin, Callback, Exchange, Verify, VerifyAgain
      <3> QED
        BY <1>0, <3>1, SignInAssumption
    <2>2. \A f \in Flows : Trip(f)
      BY DEF SignInInv, FlowInv, FlowKnown, KeysFollow, Trip, TripOf
    <2>3. FlowTypeOK' /\ \A f \in Flows : Trip(f)'
      BY <1>0, <1>3, <2>2, FlowStep
    <2>4. FlowKnown' /\ KeysFollow' /\ (\A f \in Flows : flow[f].ins <= 1)'
      BY <2>3 DEF FlowKnown, KeysFollow, Trip, TripOf
    <2>5. FactorTypeOK' /\ CodesUnspent' /\ VisitKnown' /\ TrustEnds' /\ (\A c \in Code : accepted[c] <= 1)'
      BY <1>0, <1>3 DEF factorVars, SignInInv, FactorInv, FactorTypeOK, CodesUnspent, VisitKnown,
                        Vouched, Forgets, TrustEnds
    <2>6. BatchesBounded'
      <3>1. Visiting' = Visiting /\ batch' = batch
        BY <1>3 DEF factorVars, Visiting
      <3>2. batch + Cardinality(Visiting) <= acts + 1 /\ IsFiniteSet(Visiting)
        BY DEF SignInInv, FactorInv, BatchesBounded
      <3>3. batch \in Nat /\ Cardinality(Visiting) \in Nat
        BY <1>0, <3>2, FS_CardinalityType DEF FactorTypeOK, Batches
      <3> QED
        BY <1>0, <2>1, <3>1, <3>2, <3>3 DEF BatchesBounded
    <2> QED
      BY <1>1, <2>1, <2>3, <2>4, <2>5, <2>6 DEF SignInInv, FactorInv, FlowInv
  <1>4. CASE UNCHANGED signInVars
    <2>1. UNCHANGED factorVars /\ UNCHANGED oidcVars /\ acts' = acts
      BY <1>4 DEF signInVars
    <2>2. SignInTypeOK' /\ CodesUnspent' /\ VisitKnown' /\ TrustEnds' /\ (\A c \in Code : accepted[c] <= 1)'
      BY <1>0, <2>1 DEF factorVars, oidcVars, SignInInv, FactorInv, SignInTypeOK, CodesUnspent, VisitKnown,
                        Vouched, Forgets, TrustEnds
    <2>3. BatchesBounded' /\ FlowKnown' /\ KeysFollow' /\ (\A f \in Flows : flow[f].ins <= 1)'
      BY <2>1 DEF factorVars, oidcVars, SignInInv, FactorInv, FlowInv, BatchesBounded, Visiting,
                  FlowKnown, KeysFollow
    <2> QED
      BY <2>2, <2>3 DEF SignInInv, FactorInv, FlowInv
  <1> QED
    BY <1>2, <1>3, <1>4 DEF SignInNext

(* What signs in, does so once, for as long as it was meant to, and not for *)
(* a reason that has passed: for any number of requests that overlap.      *)
THEOREM SignInIsSound == SignInSpec => []SignInSound
  <1>1. SignInInv => SignInSound
    BY DEF SignInInv, FactorInv, FlowInv, SignInSound, OnlyOnce
  <1> QED
    BY <1>1, SignInInitInv, SignInStep, PTL DEF SignInSpec

-----------------------------------------------------------------------------
(***************************************************************************)
(* Hosts (api/hosts.py).  A request judges, talks to the node without a    *)
(* lock, and writes: the invariant says what it carries from one to the    *)
(* other.                                                                  *)
(***************************************************************************)
(* What is true of each row, *)
RowHolds(i) ==
    i \in Enrolled =>
      /\ i \notin torn => \/ "monitoring" \in host[i].tokens
                          \/ \E c \in Callers : call[c].pc = "copy" /\ call[c].id = i
      /\ host[i].shown # 0 => host[i].pin = host[i].shown
      /\ i \notin rekeyed => (host[i].verified => host[i].ssh \in tried)
      /\ host[i].peer => host[i].name = host[i].m
(* and of what each request carries from its check to its write. *)
CallHolds(c) ==
    LET k == call[c] IN
      /\ k.op = "enrol" => /\ k.tokens = {"monitoring"} /\ k.row.m # Nobody
                           /\ ~k.row.peer /\ k.row.shown = 0 /\ ~k.row.verified
      /\ k.op = "peer" => /\ "monitoring" \in k.tokens /\ k.row.m # Nobody /\ k.row.name = k.row.m
                          /\ k.row.shown # 0 => k.row.pin = k.row.shown
                          /\ ~k.row.verified /\ k.row.ssh = 0
      /\ k.op = "verify" => /\ k.read # 0
                            /\ \A i \in Enrolled \ rekeyed : k.id = i => host[i].ssh \in {0, k.read}
      /\ k.pc = "copy" => k.op = "peer" /\ k.id \in Ids
NamesDiffer == \A i, j \in Enrolled : i # j => host[i].name # host[j].name
HostsInv ==
    /\ HostsTypeOK /\ NamesDiffer /\ ForgottenWereListed
    /\ \A i \in Ids : RowHolds(i)
    /\ \A c \in Callers : CallHolds(c)

(* The rows and calls that stand for nothing are typed, and there is an id. *)
LEMMA HostsConstants ==
  /\ NoHost \in HostRow /\ NoCall \in Call /\ 1 \in Ids /\ Nobody \notin Machines
  /\ Ids \subseteq 0..MaxHosts /\ 0 \notin Ids /\ MaxHosts \in Nat /\ MaxKeys \in Nat /\ MaxKeys >= 1
  <1>1. MaxHosts \in Nat /\ MaxHosts >= 1 /\ MaxKeys \in Nat /\ MaxKeys >= 1
    BY HostsAssumption
  <1>2. NoHost \in HostRow
    BY <1>1 DEF NoHost, HostRow, Names, Certs
  <1>3. NoCall \in Call
    BY <1>1, <1>2 DEF NoCall, Call
  <1> QED
    BY <1>1, <1>2, <1>3, HostsAssumption DEF Ids, Nobody

(* An installation without hosts satisfies the invariant. *)
LEMMA HostsInitInv == HostsInit => HostsInv
  <1> SUFFICES ASSUME HostsInit PROVE HostsInv
    OBVIOUS
  <1>1. PICK home \in Names, pin \in {0, 1}, drifted \in SUBSET Machines, done \in BOOLEAN :
          /\ home \notin drifted
          /\ home = Nobody => pin = 0 /\ drifted = {} /\ ~done
          /\ takes = [m \in Machines |-> IF m \in drifted THEN {"monitoring"} ELSE Caps]
          /\ authorised = [m \in Machines |-> IF m = home /\ done THEN 1 ELSE 0]
          /\ host = [i \in Ids |-> IF i # 1 \/ home = Nobody THEN NoHost ELSE
                      [NoHost EXCEPT !.m = home, !.name = home, !.ident = home, !.pin = pin,
                                     !.tokens = Caps, !.ssh = 1]]
    BY DEF HostsInit
  <1>2. /\ cert = [m \in Machines |-> 1] /\ apps = {} /\ made = 1 /\ call = [c \in Callers |-> NoCall]
        /\ tried = {} /\ rekeyed = {} /\ torn = {} /\ unseen = FALSE /\ steps = 0
    BY DEF HostsInit
  <1>3. ASSUME NEW i \in Ids
        PROVE  /\ host[i] \in HostRow /\ ~host[i].peer /\ ~host[i].verified /\ host[i].shown = 0
               /\ i \in Enrolled => i = 1 /\ "monitoring" \in host[i].tokens
    <2>1. CASE host[i] = NoHost
      BY <2>1, HostsConstants DEF NoHost, Enrolled
    <2>2. CASE /\ i = 1
               /\ host[i] = [NoHost EXCEPT !.m = home, !.name = home, !.ident = home, !.pin = pin,
                                           !.tokens = Caps, !.ssh = 1]
      <3>1. pin \in Certs \cup {0} /\ 1 \in 0..MaxKeys
        BY HostsConstants DEF Certs
      <3> QED
        <4> DEFINE r1 == [NoHost EXCEPT !.m = home, !.name = home, !.ident = home, !.pin = pin]
        <4>1. r1 \in HostRow /\ ~r1.peer /\ ~r1.verified /\ r1.shown = 0
          <5>1. NoHost \in HostRow /\ ~NoHost.peer /\ ~NoHost.verified /\ NoHost.shown = 0
            BY HostsConstants DEF NoHost
          <5> QED
            BY <3>1, <5>1 DEF HostRow
        <4>2. host[i] = [r1 EXCEPT !.tokens = Caps, !.ssh = 1]
          BY <2>2
        <4>3. "monitoring" \in Caps
          BY DEF Caps
        <4> HIDE DEF r1
        <4> QED
          BY <2>2, <3>1, <4>1, <4>2, <4>3 DEF HostRow
    <2> QED
      BY <1>1, <2>1, <2>2
  <1>4. \A c \in Callers : call[c].op = "none" /\ call[c].pc = "idle"
    BY <1>2 DEF NoCall
  <1>5. HostsTypeOK
    <2>1. host \in [Ids -> HostRow]
      BY <1>1, <1>3
    <2>2. /\ cert \in [Machines -> Certs] /\ takes \in [Machines -> SUBSET Caps]
          /\ authorised \in [Machines -> 0..MaxKeys] /\ made \in 0..MaxKeys
      BY <1>1, <1>2, HostsConstants DEF Certs, Caps
    <2>3. call \in [Callers -> Call] /\ steps \in 0..MaxSteps
      BY <1>2, HostsConstants, HostsAssumption
    <2>4. apps \subseteq Ids /\ tried \subseteq 1..MaxKeys /\ rekeyed \subseteq Ids /\ torn \subseteq Ids
      BY <1>2
    <2>5. unseen \in BOOLEAN
      BY <1>2
    <2> QED
      BY <2>1, <2>2, <2>3, <2>4, <2>5 DEF HostsTypeOK
  <1> QED
    BY <1>2, <1>3, <1>4, <1>5 DEF HostsInv, NamesDiffer, ForgottenWereListed, RowHolds, CallHolds, Enrolled

-----------------------------------------------------------------------------
(* A request that judges touches no row but for a pin nobody was shown. *)
Alikes(i) ==
    /\ host'[i].m = host[i].m /\ host'[i].name = host[i].name /\ host'[i].tokens = host[i].tokens
    /\ host'[i].ssh = host[i].ssh /\ host'[i].verified = host[i].verified
    /\ host'[i].peer = host[i].peer /\ host'[i].shown = host[i].shown
    /\ host[i].shown # 0 => host'[i].pin = host[i].pin

(* A request that is judged and comes back for its write: what it carries is what it *)
(* read.                                                                             *)
LEMMA Judged ==
  ASSUME HostsInv, NEW c \in FreeCallers, NEW r \in Call, Starts(c, r),
         UNCHANGED <<nodeVars, apps, made, pastVars>>, host' \in [Ids -> HostRow],
         \A i \in Ids : Alikes(i),
         r.op = "enrol" => /\ r.tokens = {"monitoring"} /\ r.row.m # Nobody
                           /\ ~r.row.peer /\ r.row.shown = 0 /\ ~r.row.verified,
         r.op = "peer" => /\ "monitoring" \in r.tokens /\ r.row.m # Nobody /\ r.row.name = r.row.m
                          /\ r.row.shown # 0 => r.row.pin = r.row.shown
                          /\ ~r.row.verified /\ r.row.ssh = 0,
         r.op = "verify" => r.read # 0 /\ \A i \in Enrolled : r.id = i => host[i].ssh = r.read
  PROVE  HostsInv'
  <1>1. c \in Callers /\ call[c].pc = "idle" /\ steps < MaxSteps /\ steps' = steps + 1
    BY DEF FreeCallers, Starts
  <1>2. call' = [call EXCEPT ![c] = [r EXCEPT !.pc = "judged"]]
    BY DEF Starts
  <1>3. /\ call'[c] \in Call /\ call'[c].pc = "judged" /\ call'[c].op = r.op /\ call'[c].row = r.row
        /\ call'[c].tokens = r.tokens /\ call'[c].id = r.id /\ call'[c].read = r.read
        /\ \A d \in Callers \ {c} : call'[d] = call[d]
    BY <1>1, <1>2 DEF HostsInv, HostsTypeOK, Call
  <1>4. HostsTypeOK'
    <2>1. call' \in [Callers -> Call]
      BY <1>1, <1>2, <1>3 DEF HostsInv, HostsTypeOK
    <2>2. steps' \in 0..MaxSteps
      BY <1>1, HostsAssumption DEF HostsInv, HostsTypeOK
    <2> QED
      BY <2>1, <2>2 DEF HostsInv, HostsTypeOK, nodeVars, pastVars
  <1>5. /\ torn' = torn /\ rekeyed' = rekeyed /\ tried' = tried /\ unseen' = unseen
        /\ \A i \in Ids : i \in Enrolled' <=> i \in Enrolled
    BY DEF pastVars, Enrolled, Alikes
  <1>6. NamesDiffer'
    BY <1>5 DEF HostsInv, NamesDiffer, Alikes, Enrolled
  <1>7. ASSUME NEW i \in Ids PROVE RowHolds(i)'
    <2>1. ASSUME NEW d \in Callers, call[d].pc = "copy" PROVE call'[d] = call[d]
      BY <1>1, <1>3, <2>1
    <2>2. Alikes(i) /\ RowHolds(i)
      BY DEF HostsInv
    <2> QED
      BY <1>5, <2>1, <2>2 DEF RowHolds, Alikes
  <1>8. ASSUME NEW d \in Callers PROVE CallHolds(d)'
    <2>1. Enrolled' = Enrolled /\ \A i \in Enrolled : host'[i].ssh = host[i].ssh
      BY <1>5 DEF Enrolled, Alikes
    <2>2. CASE d = c
      BY <1>3, <1>5, <2>1, <2>2 DEF CallHolds
    <2>3. CASE d # c
      BY <1>3, <1>5, <2>1, <2>3 DEF CallHolds, HostsInv
    <2> QED
      BY <2>2, <2>3
  <1>9. ForgottenWereListed'
    BY <1>5 DEF HostsInv, ForgottenWereListed
  <1> QED
    BY <1>4, <1>6, <1>7, <1>8, <1>9 DEF HostsInv

(* An enrolment is judged, *)
LEMMA EnrolJudged ==
  ASSUME HostsInv, NEW c \in FreeCallers, NEW m \in Machines, NEW n \in Machines,
         NEW given \in Certs \cup {0}, NEW known \in BOOLEAN, NEW key \in BOOLEAN,
         JudgeEnrol(c, m, n, given, known, key)
  PROVE  HostsInv'
  <1>1. PICK pin \in Certs \cup {0} :
          Starts(c, [NoCall EXCEPT !.op = "enrol", !.key = key, !.tokens = {"monitoring"},
            !.row = [NoHost EXCEPT !.m = m, !.name = n, !.ident = IF known THEN m ELSE Nobody, !.pin = pin]])
    BY DEF JudgeEnrol, HostsInv, HostsTypeOK
  <1> DEFINE row == [NoHost EXCEPT !.m = m, !.name = n, !.ident = IF known THEN m ELSE Nobody, !.pin = pin]
             r == [NoCall EXCEPT !.op = "enrol", !.key = key, !.tokens = {"monitoring"}, !.row = row]
  <1>2. row \in HostRow
    BY HostsConstants DEF HostRow, Names
  <1>3. row.m # Nobody /\ ~row.peer /\ row.shown = 0 /\ ~row.verified
    BY HostsConstants DEF NoHost
  <1>4. Starts(c, r)
    BY <1>1
  <1> HIDE DEF row
  <1>5. r \in Call
    BY <1>2, HostsConstants DEF Call, HostOps, Caps
  <1>6. r.op = "enrol" /\ r.tokens = {"monitoring"} /\ r.row = row
    BY HostsConstants DEF Call
  <1>7. UNCHANGED <<nodeVars, host, apps, made, pastVars>>
    BY DEF JudgeEnrol
  <1> HIDE DEF r
  <1>8. host' \in [Ids -> HostRow] /\ \A i \in Ids : Alikes(i)
    BY <1>7 DEF HostsInv, HostsTypeOK, Alikes
  <1> QED
    BY <1>3, <1>4, <1>5, <1>6, <1>7, <1>8, Judged

(* a peer of the cluster, *)
LEMMA PeerJudged ==
  ASSUME HostsInv, NEW c \in FreeCallers, NEW i \in Ids, NEW m \in Machines,
         NEW shown \in Certs \cup {0}, JudgePeer(c, i, m, shown)
  PROVE  HostsInv'
  <1> DEFINE Row(seen) == [NoHost EXCEPT !.m = m, !.name = m, !.ident = m, !.pin = seen,
                                         !.peer = TRUE, !.shown = shown]
             tokens == {t \in host[i].tokens : t = "monitoring" \/ t \in takes[m]}
  <1>1. PICK seen \in Certs \cup {0} :
          /\ SameAsShown(shown, seen)
          /\ Starts(c, [NoCall EXCEPT !.op = "peer", !.tokens = tokens, !.row = Row(seen)])
    BY DEF JudgePeer, HostsInv, HostsTypeOK
  <1> DEFINE row == Row(seen)
             r == [NoCall EXCEPT !.op = "peer", !.tokens = tokens, !.row = row]
  <1>2. row \in HostRow
    BY HostsConstants DEF HostRow, Names
  <1>3. /\ row.m # Nobody /\ row.name = row.m /\ (row.shown # 0 => row.pin = row.shown)
        /\ ~row.verified /\ row.ssh = 0
    BY <1>1, HostsConstants DEF NoHost, SameAsShown
  <1>4. Starts(c, r)
    BY <1>1
  <1>5. host[i] \in HostRow /\ host[i].tokens \subseteq Caps /\ "monitoring" \in tokens
    BY DEF HostsInv, HostsTypeOK, HostRow, JudgePeer, Reaches
  <1>6. tokens \subseteq Caps
    BY <1>5
  <1> HIDE DEF row, tokens
  <1>7. r \in Call
    BY <1>2, <1>6, HostsConstants DEF Call, HostOps
  <1>8. r.op = "peer" /\ r.tokens = tokens /\ r.row = row
    BY HostsConstants DEF Call
  <1>9. PICK pin \in Certs \cup {0} :
          host' = IF host[i].pin = 0 THEN [host EXCEPT ![i].pin = pin] ELSE host
    <2>1. host[i].m \in Machines
      BY <1>5 DEF JudgePeer, Enrolled, HostRow, Names
    <2>2. cert[host[i].m] \in Certs
      BY <2>1 DEF HostsInv, HostsTypeOK
    <2> QED
      BY <2>2 DEF JudgePeer
  <1>10. UNCHANGED <<nodeVars, apps, made, pastVars>>
    BY DEF JudgePeer
  <1> HIDE DEF r
  <1>11. i \in Enrolled /\ RowHolds(i)
    BY DEF JudgePeer, HostsInv
  <1>12. host' \in [Ids -> HostRow] /\ \A j \in Ids : Alikes(j)
    <2>1. CASE host[i].pin # 0
      BY <1>9, <2>1 DEF HostsInv, HostsTypeOK, Alikes
    <2>2. CASE host[i].pin = 0
      <3>1. host' = [host EXCEPT ![i].pin = pin] /\ host \in [Ids -> HostRow]
        BY <1>9, <2>2 DEF HostsInv, HostsTypeOK
      <3>2. host[i].shown = 0
        BY <1>11, <2>2 DEF RowHolds
      <3>3. host' \in [Ids -> HostRow]
        BY <1>5, <3>1 DEF HostRow
      <3>4. \A j \in Ids \ {i} : host'[j] = host[j]
        BY <3>1
      <3>5. Alikes(i)
        BY <1>5, <3>1, <3>2 DEF HostRow, Alikes
      <3> QED
        BY <3>3, <3>4, <3>5 DEF Alikes
    <2> QED
      BY <2>1, <2>2
  <1> QED
    BY <1>3, <1>4, <1>5, <1>7, <1>8, <1>10, <1>12, Judged

(* a rotation, *)
LEMMA RotateJudged ==
  ASSUME HostsInv, NEW c \in FreeCallers, NEW i \in Ids, NEW cap \in Caps \cup {"unsaid", "none"},
         NEW key \in BOOLEAN, JudgeRotate(c, i, cap, key)
  PROVE  HostsInv'
  <1> DEFINE slot == IF cap = "unsaid" THEN "monitoring" ELSE cap
             r == [NoCall EXCEPT !.op = "rotate", !.id = i, !.tokens = {slot} \cap Caps,
                                 !.held = host[i].tokens, !.read = host[i].ssh, !.key = key]
  <1>1. Starts(c, r) /\ UNCHANGED <<nodeVars, host, apps, made, pastVars>>
    BY DEF JudgeRotate
  <1>2. i \in 0..MaxHosts /\ host[i].tokens \subseteq Caps /\ host[i].ssh \in 0..MaxKeys
    BY HostsConstants DEF HostsInv, HostsTypeOK, HostRow
  <1>3. {slot} \cap Caps \subseteq Caps
    OBVIOUS
  <1> HIDE DEF slot
  <1>4. r \in Call /\ r.op = "rotate"
    BY <1>2, <1>3, HostsConstants DEF Call, HostOps
  <1> HIDE DEF r
  <1>5. host' \in [Ids -> HostRow] /\ \A j \in Ids : Alikes(j)
    BY <1>1 DEF HostsInv, HostsTypeOK, Alikes
  <1> QED
    BY <1>1, <1>4, <1>5, Judged

(* the verification of a key, *)
LEMMA VerifyBegun ==
  ASSUME HostsInv, NEW c \in FreeCallers, NEW i \in Ids, BeginVerify(c, i)
  PROVE  HostsInv'
  <1> DEFINE r == [NoCall EXCEPT !.op = "verify", !.id = i, !.read = host[i].ssh, !.row.m = host[i].m]
  <1>1. Starts(c, r) /\ UNCHANGED <<nodeVars, host, apps, made, pastVars>>
    BY DEF BeginVerify
  <1>2. i \in 0..MaxHosts /\ host[i].m \in Names /\ host[i].ssh \in 0..MaxKeys
    BY HostsConstants DEF HostsInv, HostsTypeOK, HostRow
  <1>3. r \in Call /\ r.op = "verify" /\ r.id = i /\ r.read = host[i].ssh
    BY <1>2, HostsConstants DEF Call, HostOps, HostRow
  <1> HIDE DEF r
  <1>4. host' \in [Ids -> HostRow] /\ \A j \in Ids : Alikes(j)
    BY <1>1 DEF HostsInv, HostsTypeOK, Alikes
  <1>5. r.read # 0 /\ \A j \in Enrolled : r.id = j => host[j].ssh = r.read
    BY <1>3 DEF BeginVerify
  <1> QED
    BY <1>1, <1>3, <1>4, <1>5, Judged

(* and a removal. *)
LEMMA RemoveJudged ==
  ASSUME HostsInv, NEW c \in FreeCallers, NEW i \in Ids, NEW forget \in BOOLEAN, JudgeRemove(c, i, forget)
  PROVE  HostsInv'
  <1>0. PICK listed \in BOOLEAN : listed = (i \in apps)
    <2>1. (i \in apps) \in BOOLEAN
      OBVIOUS
    <2> QED
      BY <2>1
  <1> DEFINE r == [NoCall EXCEPT !.op = "remove", !.id = i, !.listed = listed]
  <1>1. Starts(c, r) /\ UNCHANGED <<nodeVars, host, apps, made, pastVars>>
    BY <1>0 DEF JudgeRemove
  <1>2. r \in Call /\ r.op = "remove"
    BY HostsConstants DEF Call, HostOps
  <1> HIDE DEF r
  <1>3. host' \in [Ids -> HostRow] /\ \A j \in Ids : Alikes(j)
    BY <1>1 DEF HostsInv, HostsTypeOK, Alikes
  <1> QED
    BY <1>1, <1>2, <1>3, Judged

-----------------------------------------------------------------------------
(* A write touches one row, and at most the call that makes it. *)
LEMMA OneRow ==
  ASSUME HostsInv, NEW i \in Ids, HostsTypeOK', ~unseen',
         \A j \in Ids \ {i} : /\ host'[j] = host[j]
                              /\ j \in rekeyed => j \in rekeyed'
                              /\ j \in torn => j \in torn',
         tried \subseteq tried',
         i \in Enrolled' => \A j \in Enrolled \ {i} : host'[i].name # host[j].name,
         RowHolds(i)',
         \A d \in Callers : \/ call'[d] = call[d]
                            \/ CallHolds(d)' /\ (call[d].pc = "copy" => call[d].id = i),
         i \in Enrolled' \ rekeyed' =>
           \A d \in Callers : call[d].op = "verify" /\ call[d].id = i => host'[i].ssh \in {0, call[d].read}
  PROVE  HostsInv'
  <1>1. \A j \in Ids \ {i} : j \in Enrolled' <=> j \in Enrolled
    BY DEF Enrolled
  <1>2. NamesDiffer'
    <2> SUFFICES ASSUME NEW j \in Enrolled', NEW k \in Enrolled', j # k
                 PROVE  host'[j].name # host'[k].name
      BY DEF NamesDiffer
    <2>1. j \in Ids /\ k \in Ids
      BY DEF Enrolled
    <2> QED
      BY <1>1, <2>1 DEF HostsInv, NamesDiffer
  <1>3. ASSUME NEW j \in Ids PROVE RowHolds(j)'
    <2>1. CASE j = i
      BY <2>1
    <2>2. CASE j # i
      <3>1. ASSUME NEW d \in Callers, call[d].pc = "copy", call[d].id = j
            PROVE  call'[d].pc = "copy" /\ call'[d].id = j
        BY <2>2, <3>1
      <3>2. RowHolds(j) /\ host'[j] = host[j] /\ (j \in Enrolled' <=> j \in Enrolled)
        BY <1>1, <2>2 DEF HostsInv
      <3>3. (j \in rekeyed => j \in rekeyed') /\ (j \in torn => j \in torn')
        BY <2>2
      <3> QED
        BY <3>1, <3>2, <3>3 DEF RowHolds
    <2> QED
      BY <2>1, <2>2
  <1>4. ASSUME NEW d \in Callers, call'[d] = call[d] PROVE CallHolds(d)'
    <2>1. CallHolds(d)
      BY DEF HostsInv
    <2>2. ASSUME NEW j \in Enrolled' \ rekeyed', call[d].op = "verify", call[d].id = j
          PROVE  host'[j].ssh \in {0, call[d].read}
      <3>1. j \in Ids
        BY DEF Enrolled
      <3>2. CASE j = i
        BY <2>2, <3>2
      <3>3. CASE j # i
        <4>1. j \in Enrolled \ rekeyed /\ host'[j] = host[j]
          BY <1>1, <3>1, <3>3
        <4> QED
          BY <2>1, <2>2, <4>1 DEF CallHolds
      <3> QED
        BY <3>2, <3>3
    <2> QED
      BY <1>4, <2>1, <2>2 DEF CallHolds
  <1> QED
    BY <1>2, <1>3, <1>4 DEF HostsInv, ForgottenWereListed

(* A request that is answered is over. *)
LEMMA AnsweredIs ==
  ASSUME HostsInv, NEW c \in Callers, Answered(c)
  PROVE  /\ call' \in [Callers -> Call] /\ call'[c] = NoCall /\ CallHolds(c)'
         /\ \A d \in Callers \ {c} : call'[d] = call[d]
  <1>1. /\ call' \in [Callers -> Call] /\ call'[c] = NoCall
        /\ \A d \in Callers \ {c} : call'[d] = call[d]
    BY HostsConstants DEF Answered, HostsInv, HostsTypeOK
  <1> QED
    BY <1>1 DEF CallHolds, NoCall

(* A refused commit changes nothing. *)
LEMMA HostRefusedInv ==
  ASSUME HostsInv, NEW c \in Callers, call[c].pc = "judged", Answered(c),
         UNCHANGED <<nodeVars, host, apps, made, pastVars, steps>>
  PROVE  HostsInv'
  <1>1. /\ call' \in [Callers -> Call] /\ CallHolds(c)' /\ \A d \in Callers \ {c} : call'[d] = call[d]
        /\ call'[c] = NoCall
    BY AnsweredIs
  <1>2. HostsTypeOK' /\ ~unseen'
    BY <1>1 DEF HostsInv, HostsTypeOK, ForgottenWereListed, nodeVars, pastVars
  <1>3. 1 \in Ids /\ Enrolled' = Enrolled /\ rekeyed' = rekeyed /\ torn' = torn /\ tried' = tried
    BY HostsConstants DEF Enrolled, pastVars
  <1>4. RowHolds(1)'
    <2>1. RowHolds(1)
      BY <1>3 DEF HostsInv
    <2>2. \A d \in Callers : call[d].pc = "copy" => call'[d] = call[d]
      BY <1>1
    <2> QED
      BY <1>3, <2>1, <2>2 DEF RowHolds
  <1>5. \A j \in Enrolled \ {1} : 1 \in Enrolled => host'[1].name # host[j].name
    BY DEF HostsInv, NamesDiffer
  <1>6. 1 \in Enrolled \ rekeyed =>
          \A d \in Callers : call[d].op = "verify" /\ call[d].id = 1 => host'[1].ssh \in {0, call[d].read}
    BY DEF HostsInv, CallHolds
  <1> QED
    BY <1>1, <1>2, <1>3, <1>4, <1>5, <1>6, OneRow

(* A host is enrolled. *)
LEMMA CommitEnrolInv ==
  ASSUME HostsInv, NEW c \in Callers, CommitEnrol(c)
  PROVE  HostsInv'
  <1>1. PICK i \in Ids : i = NextHost
    BY DEF CommitEnrol, Fits
  <1>2. PICK key \in BOOLEAN : key = call[c].key
    BY DEF HostsInv, HostsTypeOK, Call
  <1> DEFINE ssh == IF key THEN made + 1 ELSE 0
             row == [call[c].row EXCEPT !.tokens = call[c].tokens, !.ssh = ssh]
  <1>3. /\ made' = IF key THEN made + 1 ELSE made
        /\ host' = [host EXCEPT ![i] = row] /\ rekeyed' = Under(i, key) /\ Answered(c)
        /\ UNCHANGED <<nodeVars, apps, tried, torn, unseen, steps>>
        /\ call[c].op = "enrol" /\ call[c].pc = "judged" /\ Unique(call[c].row.name)
        /\ key => made < MaxKeys
    BY <1>1, <1>2 DEF CommitEnrol, Fits
  <1>4. /\ call' \in [Callers -> Call] /\ CallHolds(c)' /\ \A d \in Callers \ {c} : call'[d] = call[d]
    BY <1>3, AnsweredIs
  <1>5. call[c].row \in HostRow /\ call[c].tokens \subseteq Caps /\ made \in 0..MaxKeys
    BY DEF HostsInv, HostsTypeOK, Call
  <1>6. ssh \in 0..MaxKeys /\ made' \in 0..MaxKeys
    BY <1>3, <1>5, HostsConstants
  <1> HIDE DEF ssh
  <1>7. /\ row \in HostRow /\ row.tokens = call[c].tokens /\ row.ssh = ssh /\ row.name = call[c].row.name
        /\ row.verified = call[c].row.verified /\ row.peer = call[c].row.peer
        /\ row.shown = call[c].row.shown
    BY <1>5, <1>6 DEF HostRow
  <1>8. CallHolds(c)
    BY DEF HostsInv
  <1>9. /\ ~row.verified /\ ~row.peer /\ row.shown = 0 /\ "monitoring" \in row.tokens
    BY <1>3, <1>7, <1>8 DEF CallHolds
  <1> HIDE DEF row
  <1>10. host'[i] = row /\ \A j \in Ids \ {i} : host'[j] = host[j]
    BY <1>3 DEF HostsInv, HostsTypeOK
  <1>11. rekeyed' \subseteq Ids /\ rekeyed \subseteq rekeyed'
    BY <1>3 DEF Under, HostsInv, HostsTypeOK
  <1>12. HostsTypeOK' /\ ~unseen'
    BY <1>3, <1>4, <1>6, <1>7, <1>11 DEF HostsInv, HostsTypeOK, ForgottenWereListed, nodeVars
  <1>13. \A j \in Enrolled \ {i} : host'[i].name # host[j].name
    BY <1>3, <1>7, <1>10, HostsConstants DEF Unique, NameFree, Enrolled
  <1>14. RowHolds(i)'
    BY <1>9, <1>10 DEF RowHolds
  <1>15. i \notin rekeyed' =>
           \A d \in Callers : call[d].op = "verify" /\ call[d].id = i => host'[i].ssh \in {0, call[d].read}
    BY <1>3, <1>7, <1>10 DEF Under, ssh
  <1> QED
    BY <1>3, <1>4, <1>10, <1>11, <1>12, <1>13, <1>14, <1>15, OneRow

(* A peer's row is added, without its tokens, *)
LEMMA CommitPeerInv ==
  ASSUME HostsInv, NEW c \in Callers, CommitPeer(c)
  PROVE  HostsInv'
  <1>1. PICK i \in Ids : i = NextHost
    BY DEF CommitPeer, Fits
  <1>2. PICK row \in HostRow : row = call[c].row
    BY DEF HostsInv, HostsTypeOK, Call
  <1>3. /\ host' = [host EXCEPT ![i] = row]
        /\ call' = [call EXCEPT ![c].pc = "copy", ![c].id = i]
        /\ UNCHANGED <<nodeVars, apps, made, pastVars, steps>>
        /\ call[c].op = "peer" /\ call[c].pc = "judged" /\ Unique(row.name)
    BY <1>1, <1>2 DEF CommitPeer
  <1>4. /\ call' \in [Callers -> Call] /\ \A d \in Callers \ {c} : call'[d] = call[d]
        /\ call'[c].op = "peer" /\ call'[c].pc = "copy" /\ call'[c].id = i
        /\ call'[c].row = row /\ call'[c].tokens = call[c].tokens
    <2>1. call \in [Callers -> Call] /\ call[c] \in Call /\ i \in 0..MaxHosts
      BY HostsConstants DEF HostsInv, HostsTypeOK
    <2>2. \A d \in Callers \ {c} : call'[d] = call[d]
      BY <1>3, <2>1
    <2>3. /\ call'[c] \in Call /\ call'[c].op = "peer" /\ call'[c].pc = "copy" /\ call'[c].id = i
          /\ call'[c].row = row /\ call'[c].tokens = call[c].tokens
      BY <1>2, <1>3, <2>1 DEF Call
    <2> QED
      BY <1>3, <2>1, <2>2, <2>3
  <1>5. CallHolds(c)
    BY DEF HostsInv
  <1>6. CallHolds(c)'
    BY <1>2, <1>3, <1>4, <1>5 DEF CallHolds
  <1>7. host'[i] = row /\ \A j \in Ids \ {i} : host'[j] = host[j]
    BY <1>3 DEF HostsInv, HostsTypeOK
  <1>8. HostsTypeOK' /\ ~unseen'
    BY <1>3, <1>4 DEF HostsInv, HostsTypeOK, ForgottenWereListed, nodeVars, pastVars
  <1>9. \A j \in Enrolled \ {i} : host'[i].name # host[j].name
    BY <1>3, <1>7, HostsConstants DEF Unique, NameFree, Enrolled
  <1>10. RowHolds(i)'
    <2>1. /\ ~row.verified /\ row.name = row.m /\ (row.shown # 0 => row.pin = row.shown)
      BY <1>2, <1>3, <1>5 DEF CallHolds
    <2> QED
      BY <1>4, <1>7, <2>1 DEF RowHolds
  <1>11. \A d \in Callers : host'[i].ssh \in {0, call[d].read}
    BY <1>2, <1>3, <1>5, <1>7 DEF CallHolds
  <1> QED
    BY <1>3, <1>4, <1>6, <1>7, <1>8, <1>9, <1>10, <1>11, OneRow DEF pastVars

(* and gets its tokens. *)
LEMMA CopyTokensInv ==
  ASSUME HostsInv, NEW c \in Callers, CopyTokens(c)
  PROVE  HostsInv'
  <1>1. call[c].pc = "copy" /\ Answered(c) /\ UNCHANGED <<nodeVars, apps, made, tried, rekeyed, unseen, steps>>
    BY DEF CopyTokens
  <1>2. PICK i \in Ids : i = call[c].id
    BY <1>1 DEF HostsInv, CallHolds
  <1>3. /\ "monitoring" \in call[c].tokens /\ call[c].tokens \subseteq Caps
    BY <1>1 DEF HostsInv, CallHolds, HostsTypeOK, Call
  <1>4. PICK found \in BOOLEAN :
          /\ host' = IF found THEN [host EXCEPT ![i].tokens = host[i].tokens \cup call[c].tokens] ELSE host
          /\ torn' = IF found \/ i \notin Enrolled THEN torn ELSE torn \cup {i}
    <2>1. (host[i].m = call[c].row.m /\ host[i].tokens \cap call[c].tokens = {}) \in BOOLEAN
      OBVIOUS
    <2> QED
      BY <1>2, <2>1 DEF CopyTokens
  <1>5. /\ call' \in [Callers -> Call] /\ CallHolds(c)' /\ \A d \in Callers \ {c} : call'[d] = call[d]
    BY <1>1, AnsweredIs
  <1>6. /\ host' \in [Ids -> HostRow] /\ \A j \in Ids \ {i} : host'[j] = host[j]
        /\ host'[i].m = host[i].m /\ host'[i].name = host[i].name /\ host'[i].pin = host[i].pin
        /\ host'[i].ssh = host[i].ssh /\ host'[i].verified = host[i].verified
        /\ host'[i].peer = host[i].peer /\ host'[i].shown = host[i].shown
        /\ found => "monitoring" \in host'[i].tokens
    <2>1. host \in [Ids -> HostRow] /\ host[i] \in HostRow
      BY DEF HostsInv, HostsTypeOK
    <2>2. CASE ~found
      BY <1>4, <2>1, <2>2
    <2>3. CASE found
      <3>1. host' = [host EXCEPT ![i].tokens = host[i].tokens \cup call[c].tokens]
        BY <1>4, <2>3
      <3>2. host[i].tokens \cup call[c].tokens \subseteq Caps
        BY <1>3, <2>1 DEF HostRow
      <3> QED
        BY <1>3, <2>1, <3>1, <3>2 DEF HostRow
    <2> QED
      BY <2>2, <2>3
  <1>7. i \in Enrolled' <=> i \in Enrolled
    BY <1>6 DEF Enrolled
  <1>8. HostsTypeOK' /\ ~unseen'
    BY <1>1, <1>4, <1>5, <1>6 DEF HostsInv, HostsTypeOK, ForgottenWereListed, nodeVars
  <1>9. i \in Enrolled' => \A j \in Enrolled \ {i} : host'[i].name # host[j].name
    BY <1>6, <1>7 DEF HostsInv, NamesDiffer
  <1>10. RowHolds(i)'
    <2>1. RowHolds(i)
      BY DEF HostsInv
    <2>2. i \in Enrolled' /\ i \notin torn' => found
      BY <1>4, <1>7
    <2> QED
      BY <1>1, <1>6, <1>7, <2>1, <2>2 DEF RowHolds
  <1>11. i \in Enrolled' \ rekeyed' =>
           \A d \in Callers : call[d].op = "verify" /\ call[d].id = i => host'[i].ssh \in {0, call[d].read}
    BY <1>1, <1>6, <1>7 DEF HostsInv, CallHolds
  <1>12. \A j \in Ids \ {i} : j \in torn => j \in torn'
    BY <1>4
  <1>13. ASSUME NEW d \in Callers
         PROVE  \/ call'[d] = call[d]
                \/ CallHolds(d)' /\ (call[d].pc = "copy" => call[d].id = i)
    <2>1. CASE d = c
      BY <1>2, <1>5, <2>1
    <2>2. CASE d # c
      BY <1>5, <2>2
    <2> QED
      BY <2>1, <2>2
  <1> QED
    BY <1>1, <1>6, <1>8, <1>9, <1>10, <1>11, <1>12, <1>13, OneRow

(* A token is rotated, or the key. *)
LEMMA CommitRotateInv ==
  ASSUME HostsInv, NEW c \in Callers, CommitRotate(c)
  PROVE  HostsInv'
  <1>1. PICK i \in Ids : i = call[c].id /\ i \in Enrolled
    BY DEF CommitRotate, Storable, Enrolled
  <1>2. PICK key \in BOOLEAN : key = call[c].key
    BY DEF HostsInv, HostsTypeOK, Call
  <1> DEFINE tokens == host[i].tokens \cup call[c].tokens
             ssh == IF key THEN made + 1 ELSE host[i].ssh
             verified == IF key THEN FALSE ELSE host[i].verified
             row == [host[i] EXCEPT !.tokens = tokens, !.ssh = ssh, !.verified = verified]
  <1>3. /\ made' = IF key THEN made + 1 ELSE made
        /\ host' = [host EXCEPT ![i] = row] /\ rekeyed' = Under(i, key) /\ Answered(c)
        /\ UNCHANGED <<nodeVars, apps, tried, torn, unseen, steps>>
        /\ call[c].op = "rotate" /\ call[c].pc = "judged" /\ (key => made < MaxKeys)
    BY <1>1, <1>2 DEF CommitRotate, Storable, AfterRotation
  <1>4. /\ call' \in [Callers -> Call] /\ CallHolds(c)' /\ \A d \in Callers \ {c} : call'[d] = call[d]
    BY <1>3, AnsweredIs
  <1>5. host[i] \in HostRow /\ call[c].tokens \subseteq Caps /\ made \in 0..MaxKeys
    BY DEF HostsInv, HostsTypeOK, Call
  <1>6. /\ ssh \in 0..MaxKeys /\ made' \in 0..MaxKeys /\ tokens \subseteq Caps /\ verified \in BOOLEAN
    <2>1. host[i].ssh \in 0..MaxKeys /\ host[i].tokens \subseteq Caps /\ host[i].verified \in BOOLEAN
      BY <1>5 DEF HostRow
    <2>2. ssh \in 0..MaxKeys /\ made' \in 0..MaxKeys
      BY <1>3, <1>5, <2>1, HostsConstants
    <2>3. tokens \subseteq Caps
      BY <1>5, <2>1
    <2>4. verified \in BOOLEAN
      BY <2>1
    <2> QED
      BY <2>2, <2>3, <2>4
  <1>7. /\ ~key => ssh = host[i].ssh /\ verified = host[i].verified
        /\ key => ~verified
        /\ host[i].tokens \subseteq tokens
    OBVIOUS
  <1> HIDE DEF ssh, verified, tokens
  <1>8. /\ row \in HostRow /\ row.tokens = tokens /\ row.ssh = ssh /\ row.verified = verified
        /\ row.m = host[i].m /\ row.name = host[i].name /\ row.pin = host[i].pin
        /\ row.peer = host[i].peer /\ row.shown = host[i].shown
    BY <1>5, <1>6 DEF HostRow
  <1> HIDE DEF row
  <1>9. host'[i] = row /\ \A j \in Ids \ {i} : host'[j] = host[j]
    BY <1>3 DEF HostsInv, HostsTypeOK
  <1>10. rekeyed' \subseteq Ids /\ rekeyed \subseteq rekeyed'
    BY <1>3 DEF Under, HostsInv, HostsTypeOK
  <1>11. HostsTypeOK' /\ ~unseen'
    BY <1>3, <1>4, <1>6, <1>8, <1>10 DEF HostsInv, HostsTypeOK, ForgottenWereListed, nodeVars
  <1>12. \A j \in Enrolled \ {i} : host'[i].name # host[j].name
    BY <1>1, <1>8, <1>9 DEF HostsInv, NamesDiffer
  <1>13. RowHolds(i)'
    <2>1. RowHolds(i)
      BY DEF HostsInv
    <2>2. \A d \in Callers : call[d].pc = "copy" => call'[d] = call[d]
      BY <1>3, <1>4
    <2> QED
      BY <1>1, <1>3, <1>7, <1>8, <1>9, <1>10, <2>1, <2>2 DEF RowHolds
  <1>14. i \notin rekeyed' =>
           \A d \in Callers : call[d].op = "verify" /\ call[d].id = i => host'[i].ssh \in {0, call[d].read}
    <2>1. CASE key
      BY <1>3, <2>1 DEF Under
    <2>2. CASE ~key
      <3>1. host'[i].ssh = host[i].ssh
        BY <1>7, <1>8, <1>9, <2>2
      <3> QED
        BY <1>1, <1>10, <3>1 DEF HostsInv, CallHolds
    <2> QED
      BY <2>1, <2>2
  <1> QED
    BY <1>3, <1>4, <1>9, <1>10, <1>11, <1>12, <1>13, <1>14, OneRow

(* What the verification of a key found is filed. *)
LEMMA CommitVerifyInv ==
  ASSUME HostsInv, NEW c \in Callers, CommitVerify(c)
  PROVE  HostsInv'
  <1>1. PICK i \in Ids : i = call[c].id /\ i \in Enrolled
    BY DEF CommitVerify, ShellOpens, Enrolled
  <1>2. /\ call[c].op = "verify" /\ call[c].pc = "judged" /\ host[i].ssh # 0
        /\ host' = [host EXCEPT ![i].verified = TRUE] /\ tried' = tried \cup {call[c].read}
        /\ Answered(c) /\ UNCHANGED <<nodeVars, apps, made, rekeyed, torn, unseen, steps>>
    BY <1>1 DEF CommitVerify, ShellOpens
  <1>3. /\ call' \in [Callers -> Call] /\ CallHolds(c)' /\ \A d \in Callers \ {c} : call'[d] = call[d]
    BY <1>2, AnsweredIs
  <1>4. host[i] \in HostRow /\ host \in [Ids -> HostRow]
    BY DEF HostsInv, HostsTypeOK
  <1>5. /\ host' \in [Ids -> HostRow] /\ \A j \in Ids \ {i} : host'[j] = host[j]
        /\ host'[i].m = host[i].m /\ host'[i].name = host[i].name /\ host'[i].pin = host[i].pin
        /\ host'[i].ssh = host[i].ssh /\ host'[i].tokens = host[i].tokens
        /\ host'[i].peer = host[i].peer /\ host'[i].shown = host[i].shown
    BY <1>2, <1>4 DEF HostRow
  <1>6. i \notin rekeyed => host[i].ssh = call[c].read
    BY <1>1, <1>2 DEF HostsInv, CallHolds
  <1>7. tried' \subseteq 1..MaxKeys
    <2>1. call[c].read \in 0..MaxKeys
      BY DEF HostsInv, HostsTypeOK, Call
    <2>2. call[c].read # 0
      BY <1>2 DEF HostsInv, CallHolds
    <2> QED
      BY <1>2, <2>1, <2>2, HostsConstants DEF HostsInv, HostsTypeOK
  <1>8. HostsTypeOK' /\ ~unseen'
    BY <1>2, <1>3, <1>5, <1>7 DEF HostsInv, HostsTypeOK, ForgottenWereListed, nodeVars
  <1>9. \A j \in Enrolled \ {i} : host'[i].name # host[j].name
    BY <1>1, <1>5 DEF HostsInv, NamesDiffer
  <1>10. RowHolds(i)'
    <2>1. RowHolds(i)
      BY DEF HostsInv
    <2>2. \A d \in Callers : call[d].pc = "copy" => call'[d] = call[d]
      BY <1>2, <1>3
    <2> QED
      BY <1>1, <1>2, <1>5, <1>6, <2>1, <2>2 DEF RowHolds
  <1>11. i \notin rekeyed' =>
           \A d \in Callers : call[d].op = "verify" /\ call[d].id = i => host'[i].ssh \in {0, call[d].read}
    BY <1>1, <1>2, <1>5 DEF HostsInv, CallHolds
  <1> QED
    BY <1>2, <1>3, <1>5, <1>8, <1>9, <1>10, <1>11, OneRow

(* A host is removed. *)
LEMMA CommitRemoveInv ==
  ASSUME HostsInv, NEW c \in Callers, CommitRemove(c)
  PROVE  HostsInv'
  <1>1. PICK i \in Ids : i = call[c].id
    BY DEF CommitRemove, Enrolled
  <1>2. /\ call[c].pc = "judged" /\ (i \in apps => call[c].listed)
        /\ host' = [host EXCEPT ![i] = NoHost] /\ apps' = apps \ {i}
        /\ unseen' = (unseen \/ (i \in apps /\ ~call[c].listed))
        /\ rekeyed' = rekeyed \ {i} /\ torn' = torn \ {i}
        /\ Answered(c) /\ UNCHANGED <<nodeVars, made, tried, steps>>
    BY <1>1 DEF CommitRemove, Restricted
  <1>3. /\ call' \in [Callers -> Call] /\ CallHolds(c)' /\ \A d \in Callers \ {c} : call'[d] = call[d]
    BY <1>2, AnsweredIs
  <1>4. ~unseen'
    BY <1>2 DEF HostsInv, ForgottenWereListed
  <1>5. host'[i] = NoHost /\ \A j \in Ids \ {i} : host'[j] = host[j]
    BY <1>2 DEF HostsInv, HostsTypeOK
  <1>6. HostsTypeOK'
    BY <1>2, <1>3, <1>4, HostsConstants DEF HostsInv, HostsTypeOK, nodeVars
  <1>7. i \notin Enrolled'
    BY <1>5 DEF Enrolled, NoHost
  <1> QED
    BY <1>2, <1>3, <1>4, <1>5, <1>6, <1>7, OneRow DEF RowHolds

(* A request of one commit changes a field of a row, or none. *)
LEMMA FieldInv ==
  ASSUME HostsInv, NEW i \in Ids, i \in Enrolled, HostsTypeOK', \A j \in Ids \ {i} : host'[j] = host[j],
         UNCHANGED <<call, pastVars>>,
         host'[i].name # host[i].name => NameFree(host'[i].name, i),
         host'[i].ssh = host[i].ssh, host'[i].tokens = host[i].tokens,
         host'[i].verified = host[i].verified,
         host'[i].peer => /\ host[i].peer /\ host'[i].name = host[i].name /\ host'[i].m = host[i].m,
         host'[i].shown # 0 => host'[i].shown = host[i].shown /\ host'[i].pin = host[i].pin
  PROVE  HostsInv'
  <1>1. ~unseen' /\ torn' = torn /\ rekeyed' = rekeyed /\ tried' = tried /\ call' = call
    BY DEF HostsInv, ForgottenWereListed, pastVars
  <1>2. RowHolds(i)'
    BY <1>1 DEF HostsInv, RowHolds
  <1>3. \A j \in Enrolled \ {i} : host'[i].name # host[j].name
    BY DEF HostsInv, NamesDiffer, NameFree
  <1>4. i \notin rekeyed' =>
           \A d \in Callers : call[d].op = "verify" /\ call[d].id = i => host'[i].ssh \in {0, call[d].read}
    BY <1>1 DEF HostsInv, CallHolds
  <1> QED
    BY <1>1, <1>2, <1>3, <1>4, OneRow

(* One of the counted steps. *)
LEMMA OnceTyped == ASSUME HostsInv, Once PROVE steps' \in 0..MaxSteps
  BY HostsAssumption DEF HostsInv, HostsTypeOK, Once

(* Names, pins, addresses, and what the workers file. *)
LEMMA FieldsInv ==
  ASSUME HostsInv, NEW i \in Ids,
         \/ \E n \in Machines : Rename(i, n)
         \/ \E pin \in Certs \cup {0} : Repin(i, pin)
         \/ \E m \in Machines : Readdress(i, m)
         \/ Identify(i) \/ InstallLands(i) \/ Authorise(i)
  PROVE  HostsInv'
  <1>0. host \in [Ids -> HostRow] /\ host[i] \in HostRow
    BY DEF HostsInv, HostsTypeOK
  <1>1. i \in Enrolled
    BY DEF Rename, Repin, Readdress, Identify, InstallLands, Authorise
  <1>2. UNCHANGED <<call, pastVars>>
    BY DEF Rename, Repin, Readdress, Identify, InstallLands, Authorise
  <1>3. ASSUME NEW n \in Machines, Rename(i, n) PROVE HostsInv'
    <2>1. /\ host' \in [Ids -> HostRow] /\ \A j \in Ids \ {i} : host'[j] = host[j]
          /\ host'[i].name = n /\ ~host'[i].peer /\ host'[i].pin = host[i].pin
          /\ host'[i].ssh = host[i].ssh /\ host'[i].tokens = host[i].tokens
          /\ host'[i].verified = host[i].verified /\ host'[i].shown = host[i].shown
      BY <1>0, <1>3 DEF Rename, HostRow, Names
    <2>2. HostsTypeOK'
      <3>1. UNCHANGED <<nodeVars, apps, made, call, pastVars>> /\ steps' \in 0..MaxSteps
        BY <1>3, OnceTyped DEF Rename
      <3> QED
        BY <2>1, <3>1 DEF HostsInv, HostsTypeOK, nodeVars, pastVars
    <2>3. NameFree(n, i)
      BY <1>3 DEF Rename
    <2> QED
      BY <1>1, <1>2, <2>1, <2>2, <2>3, FieldInv
  <1>4. ASSUME NEW pin \in Certs \cup {0}, Repin(i, pin) PROVE HostsInv'
    <2>1. /\ host' \in [Ids -> HostRow] /\ \A j \in Ids \ {i} : host'[j] = host[j]
          /\ host'[i].name = host[i].name /\ host'[i].peer = host[i].peer /\ host'[i].m = host[i].m
          /\ host'[i].ssh = host[i].ssh /\ host'[i].tokens = host[i].tokens
          /\ host'[i].verified = host[i].verified /\ host'[i].shown = 0
      BY <1>0, <1>4 DEF Repin, HostRow
    <2>2. HostsTypeOK'
      <3>1. UNCHANGED <<nodeVars, apps, made, call, pastVars>> /\ steps' \in 0..MaxSteps
        BY <1>4, OnceTyped DEF Repin
      <3> QED
        BY <2>1, <3>1 DEF HostsInv, HostsTypeOK, nodeVars, pastVars
    <2> QED
      BY <1>1, <1>2, <2>1, <2>2, FieldInv
  <1>5. ASSUME NEW m \in Machines, Readdress(i, m) PROVE HostsInv'
    <2>1. /\ host' \in [Ids -> HostRow] /\ \A j \in Ids \ {i} : host'[j] = host[j]
          /\ host'[i].name = host[i].name /\ ~host'[i].peer /\ host'[i].pin = host[i].pin
          /\ host'[i].ssh = host[i].ssh /\ host'[i].tokens = host[i].tokens
          /\ host'[i].verified = host[i].verified /\ host'[i].shown = host[i].shown
      BY <1>0, <1>5 DEF Readdress, HostRow, Names
    <2>2. HostsTypeOK'
      <3>1. UNCHANGED <<nodeVars, apps, made, call, pastVars>> /\ steps' \in 0..MaxSteps
        BY <1>5, OnceTyped DEF Readdress
      <3> QED
        BY <2>1, <3>1 DEF HostsInv, HostsTypeOK, nodeVars, pastVars
    <2> QED
      BY <1>1, <1>2, <2>1, <2>2, FieldInv
  <1>6. CASE Identify(i)
    <2>1. host[i].m \in Names
      BY <1>0 DEF HostRow
    <2>2. /\ host' \in [Ids -> HostRow] /\ \A j \in Ids \ {i} : host'[j] = host[j]
          /\ host'[i].name = host[i].name /\ host'[i].peer = host[i].peer /\ host'[i].m = host[i].m
          /\ host'[i].ssh = host[i].ssh /\ host'[i].tokens = host[i].tokens
          /\ host'[i].verified = host[i].verified /\ host'[i].shown = host[i].shown
          /\ host'[i].pin = host[i].pin
      BY <1>0, <1>6, <2>1 DEF Identify, HostRow
    <2>3. HostsTypeOK'
      BY <1>6, <2>2 DEF Identify, HostsInv, HostsTypeOK, nodeVars, pastVars
    <2> QED
      BY <1>1, <1>2, <2>2, <2>3, FieldInv
  <1>7. CASE InstallLands(i) \/ Authorise(i)
    <2>1. host' = host
      BY <1>7 DEF InstallLands, Authorise
    <2>2. HostsTypeOK'
      <3>1. host[i].ssh \in 0..MaxKeys
        BY <1>0 DEF HostRow
      <3>2. CASE InstallLands(i)
        BY <3>2, HostsAssumption DEF InstallLands, HostsInv, HostsTypeOK, Once, nodeVars, pastVars
      <3>3. CASE Authorise(i)
        <4>1. /\ UNCHANGED <<cert, takes, host, apps, made, call, pastVars>> /\ steps' \in 0..MaxSteps
              /\ authorised' = [authorised EXCEPT ![host[i].m] = host[i].ssh]
          BY <3>3, OnceTyped DEF Authorise
        <4>2. authorised' \in [Machines -> 0..MaxKeys]
          BY <3>1, <4>1 DEF HostsInv, HostsTypeOK
        <4> QED
          BY <4>1, <4>2 DEF HostsInv, HostsTypeOK, pastVars
      <3> QED
        BY <1>7, <3>2, <3>3
    <2> QED
      BY <1>1, <1>2, <2>1, <2>2, FieldInv
  <1> QED
    BY <1>3, <1>4, <1>5, <1>6, <1>7

(* Nodes get other certificates, and the server is killed. *)
LEMMA WorldInv ==
  ASSUME HostsInv, (\E m \in Machines : Recertified(m)) \/ Killed \/ UNCHANGED hostsVars
  PROVE  HostsInv'
  <1>1. CASE UNCHANGED hostsVars
    BY <1>1 DEF hostsVars, nodeVars, pastVars, HostsInv, HostsTypeOK, NamesDiffer, Enrolled,
                ForgottenWereListed, RowHolds, CallHolds
  <1>2. ASSUME NEW m \in Machines, Recertified(m) PROVE HostsInv'
    <2>1. /\ UNCHANGED <<takes, authorised, host, apps, made, call, pastVars>>
          /\ cert' = [cert EXCEPT ![m] = 2] /\ steps < MaxSteps /\ steps' = steps + 1
      BY <1>2 DEF Recertified, Once
    <2>2. HostsTypeOK'
      BY <2>1, HostsAssumption DEF HostsInv, HostsTypeOK, Certs, pastVars
    <2> QED
      BY <2>1, <2>2 DEF HostsInv, NamesDiffer, Enrolled, ForgottenWereListed, RowHolds, CallHolds, pastVars
  <1>3. CASE Killed
    <2> DEFINE left == {call[c].id : c \in {d \in Callers : call[d].pc = "copy" /\ call[d].id \in Enrolled}}
    <2>1. /\ UNCHANGED <<nodeVars, host, apps, made, tried, rekeyed, unseen>>
          /\ torn' = torn \cup left /\ call' = [c \in Callers |-> NoCall]
          /\ steps < MaxSteps /\ steps' = steps + 1
      BY <1>3 DEF Killed, Once
    <2>2. /\ left \subseteq Ids
          /\ \A d \in Callers : call[d].pc = "copy" /\ call[d].id \in Enrolled => call[d].id \in left
      BY DEF Enrolled
    <2> HIDE DEF left
    <2>3. HostsTypeOK'
      BY <2>1, <2>2, HostsConstants, HostsAssumption DEF HostsInv, HostsTypeOK, nodeVars
    <2>4. Enrolled' = Enrolled
      BY <2>1 DEF Enrolled
    <2>5. \A i \in Ids : RowHolds(i)'
      BY <2>1, <2>2, <2>4 DEF HostsInv, RowHolds
    <2>6. \A c \in Callers : CallHolds(c)'
      BY <2>1 DEF CallHolds, NoCall
    <2>7. NamesDiffer' /\ ForgottenWereListed'
      BY <2>1, <2>4 DEF HostsInv, NamesDiffer, ForgottenWereListed
    <2> QED
      BY <2>3, <2>5, <2>6, <2>7 DEF HostsInv
  <1> QED
    BY <1>1, <1>2, <1>3

(* Every step keeps the invariant. *)
LEMMA HostsStep == HostsInv /\ [HostsNext]_hostsVars => HostsInv'
  <1> SUFFICES ASSUME HostsInv, [HostsNext]_hostsVars PROVE HostsInv'
    OBVIOUS
  <1>1. ASSUME NEW c \in FreeCallers, Requests(c) PROVE HostsInv'
    BY <1>1, EnrolJudged, PeerJudged, RotateJudged, VerifyBegun, RemoveJudged DEF Requests
  <1>2. ASSUME NEW c \in Callers, Commits(c) PROVE HostsInv'
    <2>1. ASSUME NEW op, NEW holds, HostRefused(c, op, holds) PROVE HostsInv'
      BY <2>1, HostRefusedInv DEF HostRefused
    <2> QED
      BY <1>2, <2>1, CommitEnrolInv, CommitPeerInv, CopyTokensInv, CommitRotateInv, CommitVerifyInv,
         CommitRemoveInv DEF Commits
  <1> QED
    BY <1>1, <1>2, FieldsInv, WorldInv DEF HostsNext

(* Hosts: however requests overlap between their checks and their writes, and whatever  *)
(* is killed, a row that was not torn has its monitoring token, a peer is pinned to the *)
(* certificate that was shown, no node is a peer twice, verified means that key was     *)
(* tried unless the key was replaced meanwhile, and a removal forgets only apps its     *)
(* caller was told of.                                                                  *)
THEOREM HostsAreSound == HostsSpec => []HostsSound
  <1>1. HostsInv => HostsSound
    <2> SUFFICES ASSUME HostsInv PROVE HostsSound
      OBVIOUS
    <2>1. \A i \in Enrolled : i \in Ids /\ RowHolds(i)
      BY DEF HostsInv, Enrolled
    <2>2. EnrolledWhole /\ PinnedAsShown /\ VerifiedWasTried
      BY <2>1 DEF RowHolds, EnrolledWhole, PinnedAsShown, VerifiedWasTried
    <2>3. NoTwinPeers
      BY <2>1 DEF RowHolds, HostsInv, NamesDiffer, NoTwinPeers
    <2> QED
      BY <2>2, <2>3 DEF HostsInv, HostsSound
  <1> QED
    BY <1>1, HostsInitInv, HostsStep, PTL DEF HostsSpec

-----------------------------------------------------------------------------
(***************************************************************************)
(* Consoles (consoletickets, ptybridge, consoleproxy).  Of two handlers    *)
(* past the redemption, no two hold one ticket.                            *)
(***************************************************************************)
(* A handler past the redemption: it has taken its ticket. *)
Through(r) ==
    \/ r.pc \in {"redeemed", "accepted", "greeting", "greeted", "relaying", "settling", "abandoned"}
    \/ r.up # "none"
(* What holds of a handler by itself. *)
HandlerKnown(r) ==
    /\ r \in Socket
    /\ r.pc \in {"none", "looked", "redeemed", "accepted"} => r.up = "none"
    /\ r.keep = "died" => r.up = "dropped"
    /\ r.pc = "done" => r.up # "live"
ConsolesInv ==
    /\ ticket \in [Tickets -> Ticket] /\ sock \in [Sockets -> Socket]
    /\ there \subseteq Target /\ awake \subseteq Target /\ upsets \in 0..MaxUpsets
    /\ \A s \in Sockets : HandlerKnown(sock[s])
    /\ \A s \in Sockets : Through(sock[s]) =>
         /\ ticket[sock[s].ticket].st = "redeemed"
         /\ ticket[sock[s].ticket].of = sock[s].url
    /\ \A s, r \in Sockets : Through(sock[s]) /\ Through(sock[r]) /\ r # s =>
         sock[r].ticket # sock[s].ticket

(* The ticket and the socket that stand for nothing are typed. *)
LEMMA ConsolesConstants ==
  /\ NoTicket \in Ticket /\ NoSocket \in Socket /\ NoSocket.pc = "none" /\ NoSocket.up = "none"
  /\ NoSocket.keep = "off"
  <1>1. NoTicket.of \in Target /\ (CHOOSE t \in Tickets : TRUE) \in Tickets
    <2>1. \E t \in Target : TRUE
      <3>1. PICK i \in TargetIds : TRUE
        BY ConsolesAssumption
      <3>2. <<"pty", i>> \in Target
        BY <3>1 DEF Target, Kinds
      <3> QED
        BY <3>2
    <2>2. (CHOOSE t \in Target : TRUE) \in Target
      BY <2>1
    <2> QED
      BY <2>2, ConsolesAssumption DEF NoTicket
  <1> QED
    BY <1>1 DEF NoTicket, Ticket, NoSocket, Socket

(* A server nobody has opened a console of satisfies the invariant. *)
LEMMA ConsolesInitInv == ConsolesInit => ConsolesInv
  BY ConsolesConstants, ConsolesAssumption DEF ConsolesInit, ConsolesInv, Through, HandlerKnown

(* Every step keeps the invariant. *)
LEMMA ConsolesStep == ConsolesInv /\ [ConsolesNext]_consolesVars => ConsolesInv'
  <1> SUFFICES ASSUME ConsolesInv, [ConsolesNext]_consolesVars PROVE ConsolesInv'
    OBVIOUS
  <1> USE ConsolesAssumption
  <1>0. /\ ticket \in [Tickets -> Ticket] /\ sock \in [Sockets -> Socket]
        /\ there \subseteq Target /\ awake \subseteq Target /\ upsets \in 0..MaxUpsets
        /\ \A s \in Sockets : HandlerKnown(sock[s])
    BY DEF ConsolesInv
  (* A handler goes on with the ticket it has. *)
  <1>1. ASSUME NEW s \in Sockets, sock' \in [Sockets -> Socket],
               \A r \in Sockets \ {s} : sock'[r] = sock[r],
               HandlerKnown(sock'[s]), Through(sock'[s]) => Through(sock[s]),
               sock'[s].ticket = sock[s].ticket, sock'[s].url = sock[s].url,
               UNCHANGED <<ticket, there, awake>>, upsets' \in 0..MaxUpsets
        PROVE  ConsolesInv'
    BY <1>0, <1>1 DEF ConsolesInv
  <1>2. Upset => upsets' \in 0..MaxUpsets
    BY <1>0 DEF Upset
  <1>3. ASSUME NEW t \in Tickets, Expire(t) \/ \E x \in Target : Mint(t, x) PROVE ConsolesInv'
    <2>1. /\ ticket' \in [Tickets -> Ticket] /\ ticket[t].st # "redeemed"
          /\ \A u \in Tickets \ {t} : ticket'[u] = ticket[u]
          /\ sock' = sock /\ there' = there /\ awake' = awake /\ upsets' \in 0..MaxUpsets
      BY <1>0, <1>2, <1>3 DEF Expire, Mint, Ticket
    <2> QED
      BY <1>0, <2>1 DEF ConsolesInv, Socket
  <1>4. ASSUME NEW s \in Sockets, NEW t \in Tickets, NEW x \in Target, Look(s, t, x) PROVE ConsolesInv'
    <2>1. /\ sock' = [sock EXCEPT ![s] = [NoSocket EXCEPT !.pc = "looked", !.ticket = t, !.url = x]]
          /\ UNCHANGED <<ticket, there, awake, upsets>>
      BY <1>4 DEF Look
    <2>2. sock' \in [Sockets -> Socket] /\ \A r \in Sockets \ {s} : sock'[r] = sock[r]
      <3>1. [NoSocket EXCEPT !.pc = "looked", !.ticket = t, !.url = x] \in Socket
        BY ConsolesConstants DEF Socket
      <3> QED
        BY <1>0, <2>1, <3>1
    <2>3. sock'[s].pc = "looked" /\ sock'[s].up = "none" /\ sock'[s].keep = "off"
      BY <1>0, <2>1, ConsolesConstants DEF Socket
    <2>4. HandlerKnown(sock'[s]) /\ ~Through(sock'[s])
      BY <2>2, <2>3 DEF HandlerKnown, Through
    <2> QED
      BY <1>0, <2>1, <2>2, <2>4 DEF ConsolesInv
  <1>5. ASSUME NEW s \in Sockets, Redeem(s) PROVE ConsolesInv'
    <2>1. PICK t \in Tickets : t = sock[s].ticket
      BY <1>0 DEF Socket
    <2>2. sock[s].pc = "looked" /\ sock[s].up = "none" /\ ~Through(sock[s]) /\ sock[s].keep # "died"
      BY <1>0, <1>5 DEF Redeem, HandlerKnown, Through
    <2>3. CASE ~(Unspent(t) /\ RightPage(s))
      <3>1. sock' = [sock EXCEPT ![s].pc = "done"] /\ UNCHANGED <<there, awake, upsets>>
        BY <1>5, <2>1, <2>3 DEF Redeem, To
      <3>2. /\ sock' \in [Sockets -> Socket] /\ \A r \in Sockets \ {s} : sock'[r] = sock[r]
            /\ sock'[s].pc = "done" /\ sock'[s].up = "none" /\ sock'[s].keep # "died"
        BY <1>0, <2>2, <3>1 DEF Socket
      <3>3. HandlerKnown(sock'[s]) /\ ~Through(sock'[s])
        BY <3>2 DEF HandlerKnown, Through
      <3>4. /\ ticket' \in [Tickets -> Ticket]
            /\ \A u \in Tickets : ticket'[u].of = ticket[u].of /\ (ticket[u].st = "redeemed" => ticket'[u].st = "redeemed")
        BY <1>0, <1>5, <2>1 DEF Redeem, Ticket
      <3>5. \A r \in Sockets : sock[r].ticket \in Tickets
        BY <1>0 DEF Socket
      <3> QED
        BY <1>0, <3>1, <3>2, <3>3, <3>4, <3>5 DEF ConsolesInv
    <2>4. CASE Unspent(t) /\ RightPage(s)
      <3>1. /\ sock' = [sock EXCEPT ![s].pc = "redeemed"] /\ UNCHANGED <<there, awake, upsets>>
            /\ ticket' = [ticket EXCEPT ![t].st = "redeemed"] /\ ticket[t].st # "redeemed"
            /\ ticket[t].of = sock[s].url
        BY <1>5, <2>1, <2>4 DEF Redeem, To, Unspent, RightPage
      <3>2. /\ sock' \in [Sockets -> Socket] /\ \A r \in Sockets \ {s} : sock'[r] = sock[r]
            /\ sock'[s].pc = "redeemed" /\ sock'[s].up = "none" /\ sock'[s].keep # "died"
            /\ sock'[s].ticket = t /\ sock'[s].url = sock[s].url
        BY <1>0, <2>1, <2>2, <3>1 DEF Socket
      <3>3. HandlerKnown(sock'[s])
        BY <3>2 DEF HandlerKnown
      <3>4. /\ ticket' \in [Tickets -> Ticket] /\ ticket'[t].st = "redeemed" /\ ticket'[t].of = ticket[t].of
            /\ \A u \in Tickets \ {t} : ticket'[u] = ticket[u]
        BY <1>0, <3>1 DEF Ticket
      <3>5. \A r \in Sockets : sock[r].ticket \in Tickets
        BY <1>0 DEF Socket
      <3>6. \A r \in Sockets \ {s} : Through(sock[r]) => sock[r].ticket # t
        BY <3>1 DEF ConsolesInv
      <3> QED
        BY <1>0, <3>1, <3>2, <3>3, <3>4, <3>5, <3>6 DEF ConsolesInv
    <2> QED
      BY <2>3, <2>4
  <1>6. ASSUME NEW s \in Sockets,
               Accept(s) \/ Connect(s) \/ Unreached(s) \/ Greeted(s) \/ Rejected(s) \/ Silent(s)
        PROVE  ConsolesInv'
    <2>0. sock[s] \in Socket /\ HandlerKnown(sock[s]) /\ UNCHANGED <<ticket, there, awake, upsets>>
      BY <1>0, <1>6 DEF Accept, Connect, Unreached, Greeted, Rejected, Silent
    <2>1. /\ sock' \in [Sockets -> Socket] /\ \A r \in Sockets \ {s} : sock'[r] = sock[r]
          /\ sock'[s].ticket = sock[s].ticket /\ sock'[s].url = sock[s].url
      BY <1>0, <1>6 DEF Accept, To, Connect, Unreached, Greeted, Rejected, Silent, Socket
    <2>2. HandlerKnown(sock'[s]) /\ (Through(sock'[s]) => Through(sock[s]))
      BY <1>0, <1>6, <2>0, <2>1
         DEF Accept, To, Connect, Unreached, Greeted, Rejected, Silent, HandlerKnown, Through, Socket
    <2> QED
      BY <1>0, <1>1, <2>0, <2>1, <2>2
  <1>7. ASSUME NEW s \in Sockets, StartRelay(s) \/ FromBrowserEnds(s) \/ FromUpstreamEnds(s) \/ KeepaliveDies(s)
        PROVE  ConsolesInv'
    <2>0. sock[s] \in Socket /\ HandlerKnown(sock[s]) /\ UNCHANGED <<ticket, there, awake>> /\ upsets' \in 0..MaxUpsets
      BY <1>0, <1>2, <1>7 DEF StartRelay, FromBrowserEnds, FromUpstreamEnds, KeepaliveDies
    <2>1. CASE StartRelay(s)
      <3>1. sock' \in [Sockets -> Socket]
        <4>1. [sock[s] EXCEPT !.pc = "abandoned"] \in Socket
          BY <2>0 DEF Socket
        <4>2. [sock[s] EXCEPT !.pc = "relaying", !.fromB = "on", !.fromU = "on",
                              !.keep = IF PtyOf(s) THEN "on" ELSE "off"] \in Socket
          BY <2>0 DEF Socket
        <4>3. \/ sock' = [sock EXCEPT ![s] = [sock[s] EXCEPT !.pc = "abandoned"]]
              \/ sock' = [sock EXCEPT ![s] = [sock[s] EXCEPT
                            !.pc = "relaying", !.fromB = "on", !.fromU = "on",
                            !.keep = IF PtyOf(s) THEN "on" ELSE "off"]]
          BY <2>1 DEF StartRelay
        <4> QED
          BY <1>0, <4>1, <4>2, <4>3
      <3>2. /\ \A r \in Sockets \ {s} : sock'[r] = sock[r]
            /\ sock'[s].ticket = sock[s].ticket /\ sock'[s].url = sock[s].url
        BY <1>0, <2>1 DEF StartRelay, Socket
      <3>3. HandlerKnown(sock'[s]) /\ (Through(sock'[s]) => Through(sock[s]))
        BY <1>0, <2>0, <2>1, <3>1 DEF StartRelay, Relaying, HandlerKnown, Through, Socket
      <3> QED
        BY <1>1, <2>0, <3>1, <3>2, <3>3
    <2>2. CASE FromBrowserEnds(s)
      <3>1. sock' \in [Sockets -> Socket]
        BY <1>0, <2>2 DEF FromBrowserEnds, Socket
      <3>2. /\ \A r \in Sockets \ {s} : sock'[r] = sock[r]
            /\ sock'[s].ticket = sock[s].ticket /\ sock'[s].url = sock[s].url
        BY <1>0, <2>2 DEF FromBrowserEnds, Socket
      <3>3. HandlerKnown(sock'[s]) /\ (Through(sock'[s]) => Through(sock[s]))
        BY <1>0, <2>0, <2>2, <3>1 DEF FromBrowserEnds, Relaying, HandlerKnown, Through, Socket
      <3> QED
        BY <1>1, <2>0, <3>1, <3>2, <3>3
    <2>3. CASE FromUpstreamEnds(s)
      <3>1. sock' \in [Sockets -> Socket]
        BY <1>0, <2>3 DEF FromUpstreamEnds, Socket
      <3>2. /\ \A r \in Sockets \ {s} : sock'[r] = sock[r]
            /\ sock'[s].ticket = sock[s].ticket /\ sock'[s].url = sock[s].url
        BY <1>0, <2>3 DEF FromUpstreamEnds, Socket
      <3>3. HandlerKnown(sock'[s]) /\ (Through(sock'[s]) => Through(sock[s]))
        BY <1>0, <2>0, <2>3, <3>1 DEF FromUpstreamEnds, Relaying, HandlerKnown, Through, Socket
      <3> QED
        BY <1>1, <2>0, <3>1, <3>2, <3>3
    <2>4. CASE KeepaliveDies(s)
      <3>1. sock' \in [Sockets -> Socket]
        BY <1>0, <2>4 DEF KeepaliveDies, Socket
      <3>2. /\ \A r \in Sockets \ {s} : sock'[r] = sock[r]
            /\ sock'[s].ticket = sock[s].ticket /\ sock'[s].url = sock[s].url
        BY <1>0, <2>4 DEF KeepaliveDies, Socket
      <3>3. HandlerKnown(sock'[s]) /\ (Through(sock'[s]) => Through(sock[s]))
        BY <1>0, <2>0, <2>4, <3>1 DEF KeepaliveDies, Relaying, HandlerKnown, Through, Socket
      <3> QED
        BY <1>1, <2>0, <3>1, <3>2, <3>3
    <2> QED
      BY <1>7, <2>1, <2>2, <2>3, <2>4
  <1>8. ASSUME NEW s \in Sockets, Settle(s) \/ Cleanup(s)
        PROVE  ConsolesInv'
    <2>0. sock[s] \in Socket /\ HandlerKnown(sock[s]) /\ UNCHANGED <<ticket, there, awake>> /\ upsets' \in 0..MaxUpsets
      BY <1>0, <1>2, <1>8 DEF Settle, Cleanup
    <2>1. CASE Settle(s)
      <3>1. sock' \in [Sockets -> Socket]
        <4>1. [sock[s] EXCEPT !.pc = "settling", !.fromB = "off", !.fromU = "off"] \in Socket
          BY <2>0 DEF Socket
        <4> QED
          BY <1>0, <2>1, <4>1 DEF Settle
      <3>2. /\ \A r \in Sockets \ {s} : sock'[r] = sock[r]
            /\ sock'[s].ticket = sock[s].ticket /\ sock'[s].url = sock[s].url
        BY <1>0, <2>1 DEF Settle, Socket
      <3>3. HandlerKnown(sock'[s]) /\ (Through(sock'[s]) => Through(sock[s]))
        BY <1>0, <2>0, <2>1, <3>1 DEF Settle, Relaying, HandlerKnown, Through, Socket
      <3> QED
        BY <1>1, <2>0, <3>1, <3>2, <3>3
    <2>2. CASE Cleanup(s)
      <3>1. sock' \in [Sockets -> Socket]
        <4>1. PICK told \in BOOLEAN :
                told <=> PtyOf(s) /\ ~sock[s].told /\ sock[s].browser = "there" /\ sock[s].keep # "died"
          OBVIOUS
        <4>2. PICK up \in {"none", "live", "dropped", "closed"} :
                up = IF sock[s].up = "live" /\ sock[s].keep # "died" THEN "closed" ELSE sock[s].up
          BY <2>0 DEF Socket
        <4>3. [sock[s] EXCEPT !.pc = "done", !.told = told, !.up = up] \in Socket
          BY <2>0 DEF Socket
        <4> QED
          BY <1>0, <2>2, <4>1, <4>2, <4>3 DEF Cleanup
      <3>2. /\ \A r \in Sockets \ {s} : sock'[r] = sock[r]
            /\ sock'[s].ticket = sock[s].ticket /\ sock'[s].url = sock[s].url
        BY <1>0, <2>2 DEF Cleanup, Socket
      <3>3. HandlerKnown(sock'[s]) /\ (Through(sock'[s]) => Through(sock[s]))
        <4>1. /\ sock[s].pc = "settling" /\ sock'[s].pc = "done" /\ sock'[s].keep = sock[s].keep
              /\ sock'[s].up = IF sock[s].up = "live" /\ sock[s].keep # "died" THEN "closed" ELSE sock[s].up
          BY <1>0, <2>2 DEF Cleanup, Socket
        <4> QED
          BY <2>0, <3>1, <4>1 DEF HandlerKnown, Through, Socket
      <3> QED
        BY <1>1, <2>0, <3>1, <3>2, <3>3
    <2> QED
      BY <1>8, <2>1, <2>2
  <1>9. ASSUME NEW s \in Sockets, Leaves(s) \/ Drops(s)
        PROVE  ConsolesInv'
    <2>0. sock[s] \in Socket /\ HandlerKnown(sock[s]) /\ UNCHANGED <<ticket, there, awake>> /\ upsets' \in 0..MaxUpsets
      BY <1>0, <1>2, <1>9 DEF Leaves, Drops
    <2>1. CASE Leaves(s)
      <3>1. sock' \in [Sockets -> Socket]
        BY <1>0, <2>1 DEF Leaves, Socket
      <3>2. /\ \A r \in Sockets \ {s} : sock'[r] = sock[r]
            /\ sock'[s].ticket = sock[s].ticket /\ sock'[s].url = sock[s].url
        BY <1>0, <2>1 DEF Leaves, Socket
      <3>3. HandlerKnown(sock'[s]) /\ (Through(sock'[s]) => Through(sock[s]))
        BY <1>0, <2>0, <2>1, <3>1 DEF Leaves, Relaying, HandlerKnown, Through, Socket
      <3> QED
        BY <1>1, <2>0, <3>1, <3>2, <3>3
    <2>2. CASE Drops(s)
      <3>1. sock' \in [Sockets -> Socket]
        BY <1>0, <2>2 DEF Drops, Socket
      <3>2. /\ \A r \in Sockets \ {s} : sock'[r] = sock[r]
            /\ sock'[s].ticket = sock[s].ticket /\ sock'[s].url = sock[s].url
        BY <1>0, <2>2 DEF Drops, Socket
      <3>3. HandlerKnown(sock'[s]) /\ (Through(sock'[s]) => Through(sock[s]))
        BY <1>0, <2>0, <2>2, <3>1 DEF Drops, Relaying, HandlerKnown, Through, Socket
      <3> QED
        BY <1>1, <2>0, <3>1, <3>2, <3>3
    <2> QED
      BY <1>9, <2>1, <2>2
  <1>10. ASSUME NEW x \in Target, Stops(x) \/ RowGoes(x) PROVE ConsolesInv'
    BY <1>0, <1>2, <1>10 DEF Stops, RowGoes, ConsolesInv
  <1>11. CASE UNCHANGED consolesVars
    BY <1>11 DEF consolesVars, ConsolesInv
  <1> QED
    BY <1>3, <1>4, <1>5, <1>6, <1>7, <1>8, <1>9, <1>10, <1>11 DEF ConsolesNext

(* A ticket opens one console, the one it was minted for, and a handler that *)
(* ran to its end leaves nothing open on the node: for any number of tickets *)
(* and websockets, and of browsers, guests and rows that go.                 *)
THEOREM ConsolesAreSound == ConsolesSpec => []ConsolesSound
  <1>1. ConsolesInv => ConsolesSound
    BY DEF ConsolesInv, ConsolesSound, ConsolesTypeOK, OneEach, Inside, NoneLeftOpen, Through, HandlerKnown
  <1> QED
    BY <1>1, ConsolesInitInv, ConsolesStep, PTL DEF ConsolesSpec

-----------------------------------------------------------------------------
(***************************************************************************)
(* The licence (entitlements/, license_client.py).  A call is a dozen      *)
(* steps, and two of them may overlap: the invariant has a part that       *)
(* always holds, one for as long as no two have overlapped, and one for as *)
(* long as none was cut short either.                                      *)
(***************************************************************************)
Ask == [op : {"none", "set", "transfer", "refresh", "remove"}, pc : Stages,
        cred : 0..MaxIssues, n : Nat, had : BOOLEAN]
(* What each request or loop may be doing, *)
OpAt(p) ==
    LET k == asking[p] IN
      /\ k.pc = "idle" => k.op = "none"
      /\ k.pc \in {"numbering", "saving"} => k.op = "refresh"
      /\ k.pc \in {"asked", "applying", "storing"} => k.op \in {"set", "transfer", "refresh"}
      /\ k.pc \in {"keeping", "zeroing", "starting", "creating"} => k.op \in {"set", "transfer"}
      /\ k.pc \in {"flushing", "releasing", "dropping", "resetting"} => k.op = "remove"
      /\ p \in Beats => k.op \in {"none", "refresh"}
      /\ k.cred <= issued
      /\ k.op = "refresh" \/ k.pc \in {"keeping", "zeroing"} => k.cred # 0
      /\ k.pc = "keeping" => cache \in {0, today}
PartiesKnown ==
    /\ \A p \in Parties : OpAt(p)
    /\ credential <= issued
    /\ writer # "nobody" => asking[writer].pc \in {"releasing", "dropping"}
(* who is still to put what is granted and what is cached in step, *)
Pending(p) == \/ asking[p].pc \in {"storing", "resetting"}
              \/ writer = p /\ asking[p].pc \in {"releasing", "dropping"}
Leased == cache # 0 /\ today <= cache + MaxOffline
WillLapse ==
    /\ granted # 0 /\ cache = 0 => \E p \in Parties : Pending(p)
    /\ granted # 0 /\ credential # 0 /\ loops # {} => Leased \/ due # {} \/ \E p \in Parties : Pending(p)
WillBeat ==
    credential # 0 /\ ~cutShort =>
      loops # {} \/ \E p \in Parties : asking[p].pc \in {"zeroing", "starting", "creating"}
(* what is true as long as no two calls have overlapped, *)
AloneAt(p) ==
    LET k == asking[p] IN
      /\ k.pc = "creating" => loops = {}
      /\ k.op = "refresh" => k.cred = credential
      /\ k.pc = "saving" => k.n = beatSeq + 1
      /\ k.pc = "asked" /\ k.op = "refresh" => k.n <= beatSeq /\ (k.cred = issued => k.n > highSeq)
      /\ k.op # "refresh" /\ k.pc \in {"applying", "storing", "keeping", "zeroing"} /\ k.cred # 0 => highSeq = 0
      /\ k.pc = "zeroing" => credential = k.cred
Uncrossed ==
    ~crossed =>
      /\ ~accused
      /\ \A p, r \in Busy : p = r
      /\ \A b, c \in loops : b = c
      /\ credential = issued /\ issued # 0 => highSeq <= beatSeq
      /\ \A p \in Parties : AloneAt(p)
(* and as long as no change of licence was cut short either. *)
Seated(p) == /\ asking[p].op \in {"set", "transfer"} /\ asking[p].pc \in {"applying", "storing", "keeping"}
             /\ asking[p].cred = issued
WholeAt(p) ==
    LET k == asking[p] IN
      /\ k.pc \in {"flushing", "releasing", "dropping"} => (k.had <=> cache # 0)
      /\ k.pc \in {"flushing", "releasing"} => k.cred = credential
      /\ k.pc \in {"dropping", "resetting"} => seat # "ours"
      /\ k.pc = "resetting" => credential = 0 /\ cache = 0
      /\ k.pc = "keeping" => cache # 0
      /\ k.op \in {"set", "transfer"} /\ k.pc \in {"applying", "storing"} /\ k.cred = 0 => credential # 0
      /\ k.op \in {"set", "transfer"} /\ k.pc \in {"applying", "storing", "keeping"} /\ k.cred # 0 =>
           (seat = "ours" => k.cred = issued)
Uncut ==
    ~crossed /\ ~cutShort =>
      /\ (credential = 0 <=> cache = 0) \/ \E p \in Parties : asking[p].pc = "keeping"
      /\ (credential = 0 => granted = 0) \/ \E p \in Parties : asking[p].pc \in {"storing", "keeping", "resetting"}
      /\ seat = "ours" => issued # 0 /\ (credential = issued \/ \E p \in Parties : Seated(p))
      /\ \A p \in Parties : WholeAt(p)
LicenceInv == LicensingTypeOK /\ PartiesKnown /\ WillLapse /\ WillBeat /\ Uncrossed /\ Uncut

(* The constants are numbers, and a party at rest asks nothing. *)
LEMMA LicensingConstants ==
  /\ MaxDays \in Nat /\ MaxDays >= 1 /\ MaxIssues \in Nat /\ MaxAsks \in Nat /\ MaxTroubles \in Nat
  /\ Grace \in Nat /\ MaxOffline \in Nat /\ Clerks \cap Beats = {}
  /\ AtRest \in Ask /\ AtRest.op = "none" /\ AtRest.pc = "idle" /\ AtRest.cred = 0
  <1>1. 0 \in 0..MaxIssues /\ AtRest.op = "none" /\ AtRest.pc = "idle" /\ AtRest.cred = 0
    BY LicensingAssumption DEF AtRest
  <1>2. AtRest \in Ask
    BY <1>1 DEF AtRest, Ask, Stages
  <1> QED
    BY <1>1, <1>2, LicensingAssumption

(* An installation without a licence satisfies the invariant. *)
LEMMA LicensingInitInv == LicensingInit => LicenceInv
  <1> SUFFICES ASSUME LicensingInit PROVE LicenceInv
    OBVIOUS
  <1>1. /\ asking = [p \in Parties |-> AtRest] /\ cache = 0 /\ credential = 0 /\ beatSeq = 0
        /\ granted = 0 /\ loops = {} /\ due = {} /\ today = 1 /\ crossed = FALSE /\ cutShort = FALSE
        /\ asks = 0 /\ troubles = 0 /\ writer = "nobody" /\ reachable = TRUE /\ issued = 0
        /\ highSeq = 0 /\ accused = FALSE /\ seat \in {"free", "other"}
    BY DEF LicensingInit
  <1>2. \A p \in Parties : asking[p].op = "none" /\ asking[p].pc = "idle" /\ asking[p].cred = 0
    BY <1>1 DEF AtRest
  <1>3. LicensingTypeOK
    <2>1. asking \in [Parties -> Ask]
      BY <1>1, LicensingConstants
    <2>2. /\ 1 \in 1..MaxDays /\ 0 \in 0..MaxDays /\ 0 \in 0..MaxIssues
          /\ 0 \in 0..MaxAsks /\ 0 \in 0..MaxTroubles
      BY LicensingConstants
    <2>3. /\ reachable \in BOOLEAN /\ accused \in BOOLEAN /\ crossed \in BOOLEAN /\ cutShort \in BOOLEAN
          /\ seat \in {"ours", "other", "free"} /\ loops \subseteq Beats /\ due \subseteq loops
      BY <1>1
    <2> QED
      BY <1>1, <2>1, <2>2, <2>3 DEF LicensingTypeOK, Ask
  <1>4. PartiesKnown
    BY <1>1, <1>2 DEF PartiesKnown, OpAt
  <1>5. WillLapse /\ WillBeat
    BY <1>1 DEF WillLapse, WillBeat
  <1>6. Uncrossed
    BY <1>1, <1>2 DEF Uncrossed, AloneAt, Busy
  <1>7. Uncut
    BY <1>1, <1>2 DEF Uncut, WholeAt
  <1> QED
    BY <1>3, <1>4, <1>5, <1>6, <1>7 DEF LicenceInv

-----------------------------------------------------------------------------
(* What a step does to the party that takes it. *)
Else(p) == \A r \in Parties \ {p} : asking'[r] = asking[r]
Moved(p, pc) ==
    /\ Else(p) /\ asking'[p].pc = pc /\ asking'[p].op = asking[p].op
    /\ asking'[p].cred = asking[p].cred /\ asking'[p].n = asking[p].n /\ asking'[p].had = asking[p].had
Rested(p) ==
    /\ Else(p) /\ asking'[p].pc = "idle" /\ asking'[p].op = "none" /\ asking'[p].cred = 0

(* The types that the steps below use. *)
LEMMA Typed == LicensingTypeOK =>
    /\ asking \in [Parties -> Ask] /\ cache \in 0..MaxDays /\ today \in 1..MaxDays /\ due \subseteq loops
    /\ loops \subseteq Beats /\ issued \in 0..MaxIssues /\ credential \in 0..MaxIssues
    /\ granted \in 0..MaxDays /\ highSeq \in Nat /\ beatSeq \in Nat /\ writer \in Clerks \cup {"nobody"}
    /\ \A p \in Parties : /\ asking[p].cred \in 0..MaxIssues /\ asking[p].n \in Nat
                          /\ asking[p].had \in BOOLEAN /\ asking[p].pc \in Stages
  BY DEF LicensingTypeOK, Ask

(* A party that goes on is at its next step, *)
LEMMA GoesOnIs ==
  ASSUME LicensingTypeOK, NEW p \in Parties, NEW pc \in Stages, GoesOn(p, pc)
  PROVE  asking' \in [Parties -> Ask] /\ Moved(p, pc)
  <1>1. asking \in [Parties -> Ask] /\ asking[p] \in Ask /\ asking' = [asking EXCEPT ![p].pc = pc]
    BY Typed DEF GoesOn
  <1> QED
    BY <1>1 DEF Ask, Moved, Else

(* and one that is done is at rest, with its beat. *)
LEMMA DoneIs ==
  ASSUME LicensingTypeOK, NEW p \in Parties, Done(p)
  PROVE  asking' \in [Parties -> Ask] /\ Rested(p) /\ due' = due \ {p} /\ due' \subseteq loops
  <1>1. asking \in [Parties -> Ask] /\ asking' = [asking EXCEPT ![p] = AtRest] /\ due' = due \ {p}
    BY Typed DEF Done
  <1> QED
    BY <1>1, Typed, LicensingConstants DEF Rested, Else

(* As long as no two have overlapped, the others rest. *)
LEMMA OthersRest ==
  ASSUME PartiesKnown, Uncrossed, ~crossed, NEW p \in Parties, asking[p].pc # "idle"
  PROVE  \A r \in Parties \ {p} : asking[r].pc = "idle" /\ asking[r].op = "none"
  BY DEF Uncrossed, Busy, PartiesKnown, OpAt

(* What the others were doing they may still be doing. *)
LEMMA OthersKnown ==
  ASSUME LicensingTypeOK, PartiesKnown, NEW p \in Parties, Else(p), issued \in Nat, issued' \in Nat,
         issued <= issued', cache' \in {cache, 0, today}, today' = today
  PROVE  \A r \in Parties \ {p} : OpAt(r)'
  <1> SUFFICES ASSUME NEW r \in Parties \ {p} PROVE OpAt(r)'
    OBVIOUS
  <1>1. asking'[r] = asking[r] /\ OpAt(r) /\ asking[r].cred \in Nat
    BY Typed DEF Else, PartiesKnown
  <1> QED
    BY <1>1 DEF OpAt

(* One party's step in terms of that party alone. *)
LEMMA KnownBy ==
  ASSUME LicensingTypeOK, PartiesKnown, NEW p \in Parties, Else(p), issued' \in Nat, issued <= issued',
         cache' \in {cache, 0, today}, today' = today, OpAt(p)', credential' <= issued',
         writer' # "nobody" => asking'[writer'].pc \in {"releasing", "dropping"}
  PROVE  PartiesKnown'
  <1>1. \A r \in Parties \ {p} : OpAt(r)'
    BY OthersKnown, Typed
  <1> QED
    BY <1>1 DEF PartiesKnown

AloneBy(p) ==
    /\ ~accused
    /\ \A b, c \in loops : b = c
    /\ credential = issued /\ issued # 0 => highSeq <= beatSeq
    /\ AloneAt(p)
(* As long as no two calls have overlapped, *)
LEMMA UncrossedBy ==
  ASSUME PartiesKnown, Uncrossed, NEW p \in Parties, asking[p].pc # "idle", Else(p),
         crossed' = crossed, ~crossed => AloneBy(p)'
  PROVE  Uncrossed'
  <1> SUFFICES ASSUME ~crossed
               PROVE  /\ ~accused' /\ (\A r, s \in Busy' : r = s) /\ (\A b, c \in loops' : b = c)
                      /\ credential' = issued' /\ issued' # 0 => highSeq' <= beatSeq'
                      /\ \A r \in Parties : AloneAt(r)'
    BY DEF Uncrossed
  <1>1. \A r \in Parties \ {p} : asking'[r].pc = "idle" /\ asking'[r].op = "none"
    BY OthersRest DEF Else
  <1>2. \A r \in Parties \ {p} : AloneAt(r)'
    BY <1>1 DEF AloneAt
  <1>3. \A r, s \in Busy' : r = s
    BY <1>1 DEF Busy
  <1> QED
    BY <1>2, <1>3 DEF AloneBy

WholeBy(p) ==
    /\ (credential = 0 <=> cache = 0) \/ asking[p].pc = "keeping"
    /\ (credential = 0 => granted = 0) \/ asking[p].pc \in {"storing", "keeping", "resetting"}
    /\ seat = "ours" => issued # 0 /\ (credential = issued \/ Seated(p))
    /\ WholeAt(p)
(* and no change was cut short, the party that moves knows where it is, *)
LEMMA UncutNow ==
  ASSUME PartiesKnown, Uncrossed, Uncut, ~crossed, ~cutShort, NEW p \in Parties, asking[p].pc # "idle"
  PROVE  WholeBy(p)
  <1>1. \A r \in Parties \ {p} : asking[r].pc = "idle"
    BY OthersRest
  <1> QED
    BY <1>1 DEF Uncut, WholeBy, Seated

(* and leaves things where they should be. *)
LEMMA UncutBy ==
  ASSUME PartiesKnown, Uncrossed, NEW p \in Parties, asking[p].pc # "idle", Else(p),
         crossed' = crossed, ~crossed /\ ~cutShort' => WholeBy(p)'
  PROVE  Uncut'
  <1> SUFFICES ASSUME ~crossed, ~cutShort'
               PROVE  /\ (credential' = 0 <=> cache' = 0) \/ \E r \in Parties : asking'[r].pc = "keeping"
                      /\ \/ credential' = 0 => granted' = 0
                         \/ \E r \in Parties : asking'[r].pc \in {"storing", "keeping", "resetting"}
                      /\ seat' = "ours" => issued' # 0 /\ (credential' = issued' \/ \E r \in Parties : Seated(r)')
                      /\ \A r \in Parties : WholeAt(r)'
    BY DEF Uncut
  <1>1. \A r \in Parties \ {p} : asking'[r].pc = "idle" /\ asking'[r].op = "none"
    BY OthersRest DEF Else
  <1>2. \A r \in Parties \ {p} : WholeAt(r)'
    BY <1>1 DEF WholeAt
  <1> QED
    BY <1>2 DEF WholeBy

-----------------------------------------------------------------------------
(* The steps of a party that no answer decides. *)
LEMMA NumberInv ==
  ASSUME LicenceInv, NEW p \in Parties, Number(p)
  PROVE  LicenceInv'
  <1>0. LicensingTypeOK /\ PartiesKnown /\ WillLapse /\ WillBeat /\ Uncrossed /\ Uncut
    BY DEF LicenceInv
  <1>1. /\ asking' \in [Parties -> Ask] /\ asking[p].pc = "numbering"
        /\ Else(p)
        /\ asking'[p].pc = "saving"
        /\ asking'[p].op = asking[p].op
        /\ asking'[p].cred = asking[p].cred
        /\ asking'[p].had = asking[p].had
        /\ asking'[p].n = beatSeq + 1
        /\ UNCHANGED <<reachable, seat, issued, highSeq, accused, cache, credential, beatSeq, writer, granted, loops, due, crossed, cutShort, today, asks, troubles>>
    BY <1>0, Typed DEF Number, Ask, Stages, Else, serviceVars, rowVars, counted
  <1>2. LicensingTypeOK'
    BY <1>0, <1>1, Typed, LicensingConstants DEF LicensingTypeOK, Ask
  <1>3. PartiesKnown'
    <2>1. OpAt(p)'
      BY <1>0, <1>1, Typed DEF PartiesKnown, OpAt, Moved, Rested
    <2>2. writer' # "nobody" => asking'[writer'].pc \in {"releasing", "dropping"}
      BY <1>0, <1>1, Typed DEF PartiesKnown, Moved, Rested, Else, Parties
    <2> QED
      BY <1>0, <1>1, <2>1, <2>2, Typed, KnownBy DEF PartiesKnown, Moved, Rested
  <1>4. WillLapse'
    BY <1>0, <1>1, Typed, LicensingConstants DEF WillLapse, Pending, Leased, Moved, Rested, Else
  <1>5. WillBeat'
    BY <1>0, <1>1 DEF WillBeat, Moved, Rested, Else
  <1>6. Uncrossed'
    <2>1. ASSUME ~crossed PROVE AloneBy(p)'
      BY <1>0, <1>1, <2>1, Typed DEF Uncrossed, PartiesKnown, OpAt, AloneBy, AloneAt, Moved, Rested
    <2> QED
      BY <1>0, <1>1, <2>1, UncrossedBy DEF Moved, Rested
  <1>7. Uncut'
    <2>1. ASSUME ~crossed, ~cutShort' PROVE WholeBy(p)'
      <3>1. WholeBy(p) /\ AloneAt(p) /\ OpAt(p)
        BY <1>0, <1>1, <2>1, UncutNow DEF Uncrossed, PartiesKnown
      <3> QED
        BY <1>0, <1>1, <2>1, <3>1, Typed DEF WholeBy, WholeAt, Seated, AloneAt, OpAt, Moved, Rested
    <2> QED
      BY <1>0, <1>1, <2>1, UncutBy DEF Moved, Rested
  <1> QED
    BY <1>2, <1>3, <1>4, <1>5, <1>6, <1>7 DEF LicenceInv

(* and saves it. *)
LEMMA SaveInv ==
  ASSUME LicenceInv, NEW p \in Parties, Save(p)
  PROVE  LicenceInv'
  <1>0. LicensingTypeOK /\ PartiesKnown /\ WillLapse /\ WillBeat /\ Uncrossed /\ Uncut
    BY DEF LicenceInv
  <1>1. /\ asking' \in [Parties -> Ask] /\ asking[p].pc = "saving"
        /\ Moved(p, "asked")
        /\ beatSeq' = asking[p].n
        /\ UNCHANGED <<reachable, seat, issued, highSeq, accused, cache, credential, writer, granted, loops, due, crossed, cutShort, today, asks, troubles>>
    BY <1>0, GoesOnIs DEF Save, Stages, serviceVars, counted
  <1>2. LicensingTypeOK'
    BY <1>0, <1>1, Typed, LicensingConstants DEF LicensingTypeOK, Ask
  <1>3. PartiesKnown'
    <2>1. OpAt(p)'
      BY <1>0, <1>1, Typed DEF PartiesKnown, OpAt, Moved, Rested
    <2>2. writer' # "nobody" => asking'[writer'].pc \in {"releasing", "dropping"}
      BY <1>0, <1>1, Typed DEF PartiesKnown, Moved, Rested, Else, Parties
    <2> QED
      BY <1>0, <1>1, <2>1, <2>2, Typed, KnownBy DEF PartiesKnown, Moved, Rested
  <1>4. WillLapse'
    BY <1>0, <1>1, Typed, LicensingConstants DEF WillLapse, Pending, Leased, Moved, Rested, Else
  <1>5. WillBeat'
    BY <1>0, <1>1 DEF WillBeat, Moved, Rested, Else
  <1>6. Uncrossed'
    <2>1. ASSUME ~crossed PROVE AloneBy(p)'
      BY <1>0, <1>1, <2>1, Typed DEF Uncrossed, PartiesKnown, OpAt, AloneBy, AloneAt, Moved, Rested
    <2> QED
      BY <1>0, <1>1, <2>1, UncrossedBy DEF Moved, Rested
  <1>7. Uncut'
    <2>1. ASSUME ~crossed, ~cutShort' PROVE WholeBy(p)'
      <3>1. WholeBy(p) /\ AloneAt(p) /\ OpAt(p)
        BY <1>0, <1>1, <2>1, UncutNow DEF Uncrossed, PartiesKnown
      <3> QED
        BY <1>0, <1>1, <2>1, <3>1, Typed DEF WholeBy, WholeAt, Seated, AloneAt, OpAt, Moved, Rested
    <2> QED
      BY <1>0, <1>1, <2>1, UncutBy DEF Moved, Rested
  <1> QED
    BY <1>2, <1>3, <1>4, <1>5, <1>6, <1>7 DEF LicenceInv

(* What the service granted is applied, *)
LEMMA ApplyInv ==
  ASSUME LicenceInv, NEW p \in Parties, ApplyClaims(p)
  PROVE  LicenceInv'
  <1>0. LicensingTypeOK /\ PartiesKnown /\ WillLapse /\ WillBeat /\ Uncrossed /\ Uncut
    BY DEF LicenceInv
  <1>1. /\ asking' \in [Parties -> Ask] /\ asking[p].pc = "applying"
        /\ Moved(p, "storing")
        /\ granted' = today
        /\ UNCHANGED <<reachable, seat, issued, highSeq, accused, cache, credential, beatSeq, writer, loops, due, crossed, cutShort, today, asks, troubles>>
    BY <1>0, GoesOnIs DEF ApplyClaims, Stages, serviceVars, rowVars, counted
  <1>2. LicensingTypeOK'
    BY <1>0, <1>1, Typed, LicensingConstants DEF LicensingTypeOK, Ask
  <1>3. PartiesKnown'
    <2>1. OpAt(p)'
      BY <1>0, <1>1, Typed DEF PartiesKnown, OpAt, Moved, Rested
    <2>2. writer' # "nobody" => asking'[writer'].pc \in {"releasing", "dropping"}
      BY <1>0, <1>1, Typed DEF PartiesKnown, Moved, Rested, Else, Parties
    <2> QED
      BY <1>0, <1>1, <2>1, <2>2, Typed, KnownBy DEF PartiesKnown, Moved, Rested
  <1>4. WillLapse'
    BY <1>0, <1>1, Typed, LicensingConstants DEF WillLapse, Pending, Leased, Moved, Rested, Else
  <1>5. WillBeat'
    BY <1>0, <1>1 DEF WillBeat, Moved, Rested, Else
  <1>6. Uncrossed'
    <2>1. ASSUME ~crossed PROVE AloneBy(p)'
      BY <1>0, <1>1, <2>1, Typed DEF Uncrossed, PartiesKnown, OpAt, AloneBy, AloneAt, Moved, Rested
    <2> QED
      BY <1>0, <1>1, <2>1, UncrossedBy DEF Moved, Rested
  <1>7. Uncut'
    <2>1. ASSUME ~crossed, ~cutShort' PROVE WholeBy(p)'
      <3>1. WholeBy(p) /\ AloneAt(p) /\ OpAt(p)
        BY <1>0, <1>1, <2>1, UncutNow DEF Uncrossed, PartiesKnown
      <3> QED
        BY <1>0, <1>1, <2>1, <3>1, Typed DEF WholeBy, WholeAt, Seated, AloneAt, OpAt, Moved, Rested
    <2> QED
      BY <1>0, <1>1, <2>1, UncutBy DEF Moved, Rested
  <1> QED
    BY <1>2, <1>3, <1>4, <1>5, <1>6, <1>7 DEF LicenceInv

(* The new credential is kept, *)
LEMMA KeepInv ==
  ASSUME LicenceInv, NEW p \in Parties, Keep(p)
  PROVE  LicenceInv'
  <1>0. LicensingTypeOK /\ PartiesKnown /\ WillLapse /\ WillBeat /\ Uncrossed /\ Uncut
    BY DEF LicenceInv
  <1>1. /\ asking' \in [Parties -> Ask] /\ asking[p].pc = "keeping"
        /\ credential' = asking[p].cred
        /\ Moved(p, IF asking[p].op = "transfer" THEN "zeroing" ELSE "starting")
        /\ UNCHANGED <<reachable, seat, issued, highSeq, accused, cache, beatSeq, writer, granted, loops, due, crossed, cutShort, today, asks, troubles>>
    BY <1>0, GoesOnIs DEF Keep, Stages, serviceVars, counted
  <1>2. LicensingTypeOK'
    BY <1>0, <1>1, Typed, LicensingConstants DEF LicensingTypeOK, Ask
  <1>3. PartiesKnown'
    <2>1. OpAt(p)'
      BY <1>0, <1>1, Typed DEF PartiesKnown, OpAt, Moved, Rested
    <2>2. writer' # "nobody" => asking'[writer'].pc \in {"releasing", "dropping"}
      BY <1>0, <1>1, Typed DEF PartiesKnown, Moved, Rested, Else, Parties
    <2> QED
      BY <1>0, <1>1, <2>1, <2>2, Typed, KnownBy DEF PartiesKnown, OpAt, Moved
  <1>4. WillLapse'
    <2>1. OpAt(p)
      BY <1>0 DEF PartiesKnown
    <2>2. cache \in {0, today} /\ ~Pending(p)
      BY <1>0, <1>1, <2>1, Typed DEF OpAt, Pending, PartiesKnown, Parties
    <2>3. \A r \in Parties : Pending(r) => Pending(r)'
      BY <1>1, <2>2 DEF Pending, Moved, Else
    <2>4. cache # 0 => Leased'
      BY <1>0, <1>1, <2>2, Typed, LicensingConstants DEF Leased
    <2> QED
      BY <1>0, <1>1, <2>3, <2>4 DEF WillLapse
  <1>5. WillBeat'
    BY <1>0, <1>1 DEF WillBeat, Moved, Rested, Else
  <1>6. Uncrossed'
    <2>1. ASSUME ~crossed PROVE AloneBy(p)'
      BY <1>0, <1>1, <2>1, Typed DEF Uncrossed, PartiesKnown, OpAt, AloneBy, AloneAt, Moved, Rested
    <2> QED
      BY <1>0, <1>1, <2>1, UncrossedBy DEF Moved, Rested
  <1>7. Uncut'
    <2>1. ASSUME ~crossed, ~cutShort' PROVE WholeBy(p)'
      <3>1. WholeBy(p) /\ AloneAt(p) /\ OpAt(p)
        BY <1>0, <1>1, <2>1, UncutNow DEF Uncrossed, PartiesKnown
      <3> QED
        BY <1>0, <1>1, <2>1, <3>1, Typed DEF WholeBy, WholeAt, Seated, AloneAt, OpAt, Moved, Rested
    <2> QED
      BY <1>0, <1>1, <2>1, UncutBy DEF Moved, Rested
  <1> QED
    BY <1>2, <1>3, <1>4, <1>5, <1>6, <1>7 DEF LicenceInv

(* the numbers begin again, *)
LEMMA ZeroInv ==
  ASSUME LicenceInv, NEW p \in Parties, Zero(p)
  PROVE  LicenceInv'
  <1>0. LicensingTypeOK /\ PartiesKnown /\ WillLapse /\ WillBeat /\ Uncrossed /\ Uncut
    BY DEF LicenceInv
  <1>1. /\ asking' \in [Parties -> Ask] /\ asking[p].pc = "zeroing"
        /\ beatSeq' = 0
        /\ Moved(p, "starting")
        /\ UNCHANGED <<reachable, seat, issued, highSeq, accused, cache, credential, writer, granted, loops, due, crossed, cutShort, today, asks, troubles>>
    BY <1>0, GoesOnIs DEF Zero, Stages, serviceVars, counted
  <1>2. LicensingTypeOK'
    BY <1>0, <1>1, Typed, LicensingConstants DEF LicensingTypeOK, Ask
  <1>3. PartiesKnown'
    <2>1. OpAt(p)'
      BY <1>0, <1>1, Typed DEF PartiesKnown, OpAt, Moved, Rested
    <2>2. writer' # "nobody" => asking'[writer'].pc \in {"releasing", "dropping"}
      BY <1>0, <1>1, Typed DEF PartiesKnown, Moved, Rested, Else, Parties
    <2> QED
      BY <1>0, <1>1, <2>1, <2>2, Typed, KnownBy DEF PartiesKnown, Moved, Rested
  <1>4. WillLapse'
    BY <1>0, <1>1, Typed, LicensingConstants DEF WillLapse, Pending, Leased, Moved, Rested, Else
  <1>5. WillBeat'
    BY <1>0, <1>1 DEF WillBeat, Moved, Rested, Else
  <1>6. Uncrossed'
    <2>1. ASSUME ~crossed PROVE AloneBy(p)'
      BY <1>0, <1>1, <2>1, Typed DEF Uncrossed, PartiesKnown, OpAt, AloneBy, AloneAt, Moved, Rested
    <2> QED
      BY <1>0, <1>1, <2>1, UncrossedBy DEF Moved, Rested
  <1>7. Uncut'
    <2>1. ASSUME ~crossed, ~cutShort' PROVE WholeBy(p)'
      <3>1. WholeBy(p) /\ AloneAt(p) /\ OpAt(p)
        BY <1>0, <1>1, <2>1, UncutNow DEF Uncrossed, PartiesKnown
      <3> QED
        BY <1>0, <1>1, <2>1, <3>1, Typed DEF WholeBy, WholeAt, Seated, AloneAt, OpAt, Moved, Rested
    <2> QED
      BY <1>0, <1>1, <2>1, UncutBy DEF Moved, Rested
  <1> QED
    BY <1>2, <1>3, <1>4, <1>5, <1>6, <1>7 DEF LicenceInv

(* the loop is looked for, *)
LEMMA FindInv ==
  ASSUME LicenceInv, NEW p \in Parties, FindLoop(p)
  PROVE  LicenceInv'
  <1>0. LicensingTypeOK /\ PartiesKnown /\ WillLapse /\ WillBeat /\ Uncrossed /\ Uncut
    BY DEF LicenceInv
  <1>1. /\ asking' \in [Parties -> Ask] /\ asking[p].pc = "starting"
        /\ due' \subseteq due
        /\ due \ {p} \subseteq due'
        /\ (loops = {} /\ Moved(p, "creating")) \/ (loops # {} /\ Rested(p))
        /\ UNCHANGED <<reachable, seat, issued, highSeq, accused, cache, credential, beatSeq, writer, granted, loops, crossed, cutShort, today, asks, troubles>>
    BY <1>0, GoesOnIs, DoneIs DEF FindLoop, Stages, serviceVars, rowVars, counted
  <1>2. LicensingTypeOK'
    BY <1>0, <1>1, Typed, LicensingConstants DEF LicensingTypeOK, Ask
  <1>3. PartiesKnown'
    <2>1. OpAt(p)'
      BY <1>0, <1>1, Typed DEF PartiesKnown, OpAt, Moved, Rested
    <2>2. writer' # "nobody" => asking'[writer'].pc \in {"releasing", "dropping"}
      BY <1>0, <1>1, Typed DEF PartiesKnown, Moved, Rested, Else, Parties
    <2> QED
      BY <1>0, <1>1, <2>1, <2>2, Typed, KnownBy DEF PartiesKnown, Moved, Rested
  <1>4. WillLapse'
    <2>1. p \notin due
      BY <1>0, <1>1, Typed DEF PartiesKnown, OpAt
    <2>2. due' = due
      BY <1>1, <2>1
    <2>3. \A r \in Parties : Pending(r) => Pending(r)'
      BY <1>0, <1>1, Typed DEF Pending, Moved, Rested, Else, PartiesKnown, Parties
    <2> QED
      BY <1>0, <1>1, <2>2, <2>3 DEF WillLapse, Leased
  <1>5. WillBeat'
    BY <1>0, <1>1 DEF WillBeat, Moved, Rested, Else
  <1>6. Uncrossed'
    <2>1. ASSUME ~crossed PROVE AloneBy(p)'
      BY <1>0, <1>1, <2>1, Typed DEF Uncrossed, PartiesKnown, OpAt, AloneBy, AloneAt, Moved, Rested
    <2> QED
      BY <1>0, <1>1, <2>1, UncrossedBy DEF Moved, Rested
  <1>7. Uncut'
    <2>1. ASSUME ~crossed, ~cutShort' PROVE WholeBy(p)'
      <3>1. WholeBy(p) /\ AloneAt(p) /\ OpAt(p)
        BY <1>0, <1>1, <2>1, UncutNow DEF Uncrossed, PartiesKnown
      <3> QED
        BY <1>0, <1>1, <2>1, <3>1, Typed DEF WholeBy, WholeAt, Seated, AloneAt, OpAt, Moved, Rested
    <2> QED
      BY <1>0, <1>1, <2>1, UncutBy DEF Moved, Rested
  <1> QED
    BY <1>2, <1>3, <1>4, <1>5, <1>6, <1>7 DEF LicenceInv

(* and created. *)
LEMMA CreateLoopInv ==
  ASSUME LicenceInv, NEW p \in Parties, CreateLoop(p)
  PROVE  LicenceInv'
  <1>0. LicensingTypeOK /\ PartiesKnown /\ WillLapse /\ WillBeat /\ Uncrossed /\ Uncut
    BY DEF LicenceInv
  <1>1. /\ asking' \in [Parties -> Ask] /\ asking[p].pc = "creating"
        /\ Rested(p)
        /\ \E b \in Beats \ loops : loops' = loops \cup {b} /\ due' = due \cup {b}
        /\ UNCHANGED <<reachable, seat, issued, highSeq, accused, cache, credential, beatSeq, writer, granted, crossed, cutShort, today, asks, troubles>>
    BY <1>0, Typed, LicensingConstants DEF CreateLoop, Rested, Else, serviceVars, rowVars, counted
  <1>2. LicensingTypeOK'
    BY <1>0, <1>1, Typed, LicensingConstants DEF LicensingTypeOK, Ask
  <1>3. PartiesKnown'
    <2>1. OpAt(p)'
      BY <1>0, <1>1, Typed DEF PartiesKnown, OpAt, Moved, Rested
    <2>2. writer' # "nobody" => asking'[writer'].pc \in {"releasing", "dropping"}
      BY <1>0, <1>1, Typed DEF PartiesKnown, Moved, Rested, Else, Parties
    <2> QED
      BY <1>0, <1>1, <2>1, <2>2, Typed, KnownBy DEF PartiesKnown, Moved, Rested
  <1>4. WillLapse'
    BY <1>0, <1>1, Typed, LicensingConstants DEF WillLapse, Pending, Leased, Moved, Rested, Else
  <1>5. WillBeat'
    BY <1>0, <1>1 DEF WillBeat, Moved, Rested, Else
  <1>6. Uncrossed'
    <2>1. ASSUME ~crossed PROVE AloneBy(p)'
      BY <1>0, <1>1, <2>1, Typed DEF Uncrossed, PartiesKnown, OpAt, AloneBy, AloneAt, Moved, Rested
    <2> QED
      BY <1>0, <1>1, <2>1, UncrossedBy DEF Moved, Rested
  <1>7. Uncut'
    <2>1. ASSUME ~crossed, ~cutShort' PROVE WholeBy(p)'
      <3>1. WholeBy(p) /\ AloneAt(p) /\ OpAt(p)
        BY <1>0, <1>1, <2>1, UncutNow DEF Uncrossed, PartiesKnown
      <3> QED
        BY <1>0, <1>1, <2>1, <3>1, Typed DEF WholeBy, WholeAt, Seated, AloneAt, OpAt, Moved, Rested
    <2> QED
      BY <1>0, <1>1, <2>1, UncutBy DEF Moved, Rested
  <1> QED
    BY <1>2, <1>3, <1>4, <1>5, <1>6, <1>7 DEF LicenceInv

(* drops the rows, *)
LEMMA DropRowsInv ==
  ASSUME LicenceInv, NEW p \in Parties, DropRows(p)
  PROVE  LicenceInv'
  <1>0. LicensingTypeOK /\ PartiesKnown /\ WillLapse /\ WillBeat /\ Uncrossed /\ Uncut
    BY DEF LicenceInv
  <1>1. /\ asking' \in [Parties -> Ask] /\ asking[p].pc = "dropping"
        /\ Moved(p, "resetting")
        /\ writer \in {"nobody", p}
        /\ cache' = IF asking[p].had THEN 0 ELSE cache
        /\ credential' = 0
        /\ beatSeq' = 0
        /\ writer' = "nobody"
        /\ UNCHANGED <<reachable, seat, issued, highSeq, accused, granted, loops, due, crossed, cutShort, today, asks, troubles>>
    BY <1>0, GoesOnIs DEF DropRows, MayWrite, Stages, serviceVars, counted
  <1>2. LicensingTypeOK'
    BY <1>0, <1>1, Typed, LicensingConstants DEF LicensingTypeOK, Ask
  <1>3. PartiesKnown'
    <2>1. OpAt(p)'
      BY <1>0, <1>1, Typed DEF PartiesKnown, OpAt, Moved, Rested
    <2>2. writer' # "nobody" => asking'[writer'].pc \in {"releasing", "dropping"}
      BY <1>0, <1>1, Typed DEF PartiesKnown, Moved, Rested, Else, Parties
    <2> QED
      BY <1>0, <1>1, <2>1, <2>2, Typed, KnownBy DEF PartiesKnown, Moved, Rested
  <1>4. WillLapse'
    BY <1>0, <1>1, Typed, LicensingConstants DEF WillLapse, Pending, Leased, Moved, Rested, Else
  <1>5. WillBeat'
    BY <1>0, <1>1 DEF WillBeat, Moved, Rested, Else
  <1>6. Uncrossed'
    <2>1. ASSUME ~crossed PROVE AloneBy(p)'
      BY <1>0, <1>1, <2>1, Typed DEF Uncrossed, PartiesKnown, OpAt, AloneBy, AloneAt, Moved, Rested
    <2> QED
      BY <1>0, <1>1, <2>1, UncrossedBy DEF Moved, Rested
  <1>7. Uncut'
    <2>1. ASSUME ~crossed, ~cutShort' PROVE WholeBy(p)'
      <3>1. WholeBy(p) /\ AloneAt(p) /\ OpAt(p)
        BY <1>0, <1>1, <2>1, UncutNow DEF Uncrossed, PartiesKnown
      <3> QED
        BY <1>0, <1>1, <2>1, <3>1, Typed DEF WholeBy, WholeAt, Seated, AloneAt, OpAt, Moved, Rested
    <2> QED
      BY <1>0, <1>1, <2>1, UncutBy DEF Moved, Rested
  <1> QED
    BY <1>2, <1>3, <1>4, <1>5, <1>6, <1>7 DEF LicenceInv

(* and goes back to what comes without a licence. *)
LEMMA ResetInv ==
  ASSUME LicenceInv, NEW p \in Parties, ResetBuiltin(p)
  PROVE  LicenceInv'
  <1>0. LicensingTypeOK /\ PartiesKnown /\ WillLapse /\ WillBeat /\ Uncrossed /\ Uncut
    BY DEF LicenceInv
  <1>1. /\ asking' \in [Parties -> Ask] /\ asking[p].pc = "resetting"
        /\ Rested(p)
        /\ granted' = 0
        /\ due' = due \ {p}
        /\ UNCHANGED <<reachable, seat, issued, highSeq, accused, cache, credential, beatSeq, writer, loops, crossed, cutShort, today, asks, troubles>>
    BY <1>0, DoneIs DEF ResetBuiltin, serviceVars, rowVars, counted
  <1>2. LicensingTypeOK'
    BY <1>0, <1>1, Typed, LicensingConstants DEF LicensingTypeOK, Ask
  <1>3. PartiesKnown'
    <2>1. OpAt(p)'
      BY <1>0, <1>1, Typed DEF PartiesKnown, OpAt, Moved, Rested
    <2>2. writer' # "nobody" => asking'[writer'].pc \in {"releasing", "dropping"}
      BY <1>0, <1>1, Typed DEF PartiesKnown, Moved, Rested, Else, Parties
    <2> QED
      BY <1>0, <1>1, <2>1, <2>2, Typed, KnownBy DEF PartiesKnown, Moved, Rested
  <1>4. WillLapse'
    BY <1>0, <1>1, Typed, LicensingConstants DEF WillLapse, Pending, Leased, Moved, Rested, Else
  <1>5. WillBeat'
    BY <1>0, <1>1 DEF WillBeat, Moved, Rested, Else
  <1>6. Uncrossed'
    <2>1. ASSUME ~crossed PROVE AloneBy(p)'
      BY <1>0, <1>1, <2>1, Typed DEF Uncrossed, PartiesKnown, OpAt, AloneBy, AloneAt, Moved, Rested
    <2> QED
      BY <1>0, <1>1, <2>1, UncrossedBy DEF Moved, Rested
  <1>7. Uncut'
    <2>1. ASSUME ~crossed, ~cutShort' PROVE WholeBy(p)'
      <3>1. WholeBy(p) /\ AloneAt(p) /\ OpAt(p)
        BY <1>0, <1>1, <2>1, UncutNow DEF Uncrossed, PartiesKnown
      <3> QED
        BY <1>0, <1>1, <2>1, <3>1, Typed DEF WholeBy, WholeAt, Seated, AloneAt, OpAt, Moved, Rested
    <2> QED
      BY <1>0, <1>1, <2>1, UncutBy DEF Moved, Rested
  <1> QED
    BY <1>2, <1>3, <1>4, <1>5, <1>6, <1>7 DEF LicenceInv

(* gives the seat back, *)
LEMMA ReleaseInv ==
  ASSUME LicenceInv, NEW p \in Parties, Release(p)
  PROVE  LicenceInv'
  <1>0. LicensingTypeOK /\ PartiesKnown /\ WillLapse /\ WillBeat /\ Uncrossed /\ Uncut
    BY DEF LicenceInv
  <1>1. /\ asking' \in [Parties -> Ask] /\ asking[p].pc = "releasing"
        /\ Moved(p, "dropping")
        /\ seat' = IF reachable /\ Honoured(p) THEN "free" ELSE seat
        /\ cutShort' = (cutShort \/ ~reachable)
        /\ UNCHANGED <<reachable, issued, highSeq, accused, cache, credential, beatSeq, writer, granted, loops, due, crossed, today, asks, troubles>>
    BY <1>0, GoesOnIs DEF Release, Stages, rowVars, counted
  <1>2. LicensingTypeOK'
    BY <1>0, <1>1, Typed, LicensingConstants DEF LicensingTypeOK, Ask
  <1>3. PartiesKnown'
    <2>1. OpAt(p)'
      BY <1>0, <1>1, Typed DEF PartiesKnown, OpAt, Moved, Rested
    <2>2. writer' # "nobody" => asking'[writer'].pc \in {"releasing", "dropping"}
      BY <1>0, <1>1, Typed DEF PartiesKnown, Moved, Rested, Else, Parties
    <2> QED
      BY <1>0, <1>1, <2>1, <2>2, Typed, KnownBy DEF PartiesKnown, Moved, Rested
  <1>4. WillLapse'
    BY <1>0, <1>1, Typed, LicensingConstants DEF WillLapse, Pending, Leased, Moved, Rested, Else
  <1>5. WillBeat'
    BY <1>0, <1>1 DEF WillBeat, Moved, Rested, Else
  <1>6. Uncrossed'
    <2>1. ASSUME ~crossed PROVE AloneBy(p)'
      BY <1>0, <1>1, <2>1, Typed DEF Uncrossed, PartiesKnown, OpAt, AloneBy, AloneAt, Moved, Rested
    <2> QED
      BY <1>0, <1>1, <2>1, UncrossedBy DEF Moved, Rested
  <1>7. Uncut'
    <2>1. ASSUME ~crossed, ~cutShort' PROVE WholeBy(p)'
      <3>1. WholeBy(p) /\ AloneAt(p) /\ OpAt(p)
        BY <1>0, <1>1, <2>1, UncutNow DEF Uncrossed, PartiesKnown
      <3> QED
        BY <1>0, <1>1, <2>1, <3>1, Typed DEF WholeBy, WholeAt, Seated, AloneAt, OpAt, Moved, Honoured
    <2> QED
      BY <1>0, <1>1, <2>1, UncutBy DEF Moved, Rested
  <1> QED
    BY <1>2, <1>3, <1>4, <1>5, <1>6, <1>7 DEF LicenceInv

(* A removal sends what is pending, *)
LEMMA FlushInv ==
  ASSUME LicenceInv, NEW p \in Parties, Flush(p)
  PROVE  LicenceInv'
  <1>0. LicensingTypeOK /\ PartiesKnown /\ WillLapse /\ WillBeat /\ Uncrossed /\ Uncut
    BY DEF LicenceInv
  <1>1. /\ asking' \in [Parties -> Ask] /\ asking[p].pc = "flushing"
        /\ \/ asking[p].cred = 0 /\ Moved(p, "dropping") /\ writer' = writer
           \/ asking[p].cred # 0 /\ Moved(p, "releasing") /\ writer' \in {writer, p}
        /\ UNCHANGED <<reachable, seat, issued, highSeq, accused, cache, credential, beatSeq, granted, loops, due, crossed, cutShort, today, asks, troubles>>
    BY <1>0, GoesOnIs DEF Flush, Stages, serviceVars, rowVars, counted
  <1>2. LicensingTypeOK'
    <2>1. p \in Clerks
      BY <1>0, <1>1 DEF PartiesKnown, OpAt, Parties
    <2> QED
      BY <1>0, <1>1, <2>1, Typed DEF LicensingTypeOK, Ask
  <1>3. PartiesKnown'
    <2>1. OpAt(p)'
      BY <1>0, <1>1, Typed DEF PartiesKnown, OpAt, Moved, Rested
    <2>2. writer' # "nobody" => asking'[writer'].pc \in {"releasing", "dropping"}
      BY <1>0, <1>1, Typed DEF PartiesKnown, Moved, Rested, Else, Parties
    <2> QED
      BY <1>0, <1>1, <2>1, <2>2, Typed, KnownBy DEF PartiesKnown, Moved, Rested
  <1>4. WillLapse'
    BY <1>0, <1>1, Typed, LicensingConstants DEF WillLapse, Pending, Leased, Moved, Rested, Else
  <1>5. WillBeat'
    BY <1>0, <1>1 DEF WillBeat, Moved, Rested, Else
  <1>6. Uncrossed'
    <2>1. ASSUME ~crossed PROVE AloneBy(p)'
      BY <1>0, <1>1, <2>1, Typed DEF Uncrossed, PartiesKnown, OpAt, AloneBy, AloneAt, Moved, Rested
    <2> QED
      BY <1>0, <1>1, <2>1, UncrossedBy DEF Moved, Rested
  <1>7. Uncut'
    <2>1. ASSUME ~crossed, ~cutShort' PROVE WholeBy(p)'
      <3>1. WholeBy(p) /\ AloneAt(p) /\ OpAt(p)
        BY <1>0, <1>1, <2>1, UncutNow DEF Uncrossed, PartiesKnown
      <3> QED
        BY <1>0, <1>1, <2>1, <3>1, Typed DEF WholeBy, WholeAt, Seated, AloneAt, OpAt, Moved, Rested
    <2> QED
      BY <1>0, <1>1, <2>1, UncutBy DEF Moved, Rested
  <1> QED
    BY <1>2, <1>3, <1>4, <1>5, <1>6, <1>7 DEF LicenceInv

(* and stored. *)
LEMMA StoreInv ==
  ASSUME LicenceInv, NEW p \in Parties, Store(p)
  PROVE  LicenceInv'
  <1>0. LicensingTypeOK /\ PartiesKnown /\ WillLapse /\ WillBeat /\ Uncrossed /\ Uncut
    BY DEF LicenceInv
  <1>1. /\ asking' \in [Parties -> Ask] /\ asking[p].pc = "storing"
        /\ cache' = today
        /\ due' \subseteq due
        /\ due \ {p} \subseteq due'
        /\ \/ asking[p].op = "refresh" /\ Rested(p)
           \/ asking[p].op # "refresh" /\ asking[p].cred # 0 /\ Moved(p, "keeping")
           \/ asking[p].op # "refresh" /\ asking[p].cred = 0 /\ Moved(p, "starting")
        /\ UNCHANGED <<reachable, seat, issued, highSeq, accused, credential, beatSeq, writer, granted, loops, crossed, cutShort, today, asks, troubles>>
    BY <1>0, GoesOnIs, DoneIs DEF Store, Stages, serviceVars, counted
  <1>2. LicensingTypeOK'
    BY <1>0, <1>1, Typed, LicensingConstants DEF LicensingTypeOK, Ask
  <1>3. PartiesKnown'
    <2>1. OpAt(p)'
      BY <1>0, <1>1, Typed DEF PartiesKnown, OpAt, Moved, Rested
    <2>2. writer' # "nobody" => asking'[writer'].pc \in {"releasing", "dropping"}
      BY <1>0, <1>1, Typed DEF PartiesKnown, Moved, Rested, Else, Parties
    <2> QED
      BY <1>0, <1>1, <2>1, <2>2, Typed, KnownBy DEF PartiesKnown, Moved, Rested
  <1>4. WillLapse'
    BY <1>0, <1>1, Typed, LicensingConstants DEF WillLapse, Pending, Leased, Moved, Rested, Else
  <1>5. WillBeat'
    BY <1>0, <1>1 DEF WillBeat, Moved, Rested, Else
  <1>6. Uncrossed'
    <2>1. ASSUME ~crossed PROVE AloneBy(p)'
      BY <1>0, <1>1, <2>1, Typed DEF Uncrossed, PartiesKnown, OpAt, AloneBy, AloneAt, Moved, Rested
    <2> QED
      BY <1>0, <1>1, <2>1, UncrossedBy DEF Moved, Rested
  <1>7. Uncut'
    <2>1. ASSUME ~crossed, ~cutShort' PROVE WholeBy(p)'
      <3>1. WholeBy(p) /\ AloneAt(p) /\ OpAt(p)
        BY <1>0, <1>1, <2>1, UncutNow DEF Uncrossed, PartiesKnown
      <3> QED
        BY <1>0, <1>1, <2>1, <3>1, Typed DEF WholeBy, WholeAt, Seated, AloneAt, OpAt, Moved, Rested
    <2> QED
      BY <1>0, <1>1, <2>1, UncutBy DEF Moved, Rested
  <1> QED
    BY <1>2, <1>3, <1>4, <1>5, <1>6, <1>7 DEF LicenceInv

-----------------------------------------------------------------------------
(* Calls that end in an error, and answers. *)
LEMMA FailsIs ==
  ASSUME LicensingTypeOK, NEW p \in Parties, Fails(p)
  PROVE  /\ asking' \in [Parties -> Ask] /\ Rested(p) /\ due' = due \ {p} /\ due' \subseteq loops
         /\ granted' \in {0, granted} /\ (p \in Beats /\ Lapsed => granted' = 0)
  BY DoneIs DEF Fails

(* So a failure does not keep a lapsed licence alive. *)
LEMMA FailsLapse ==
  ASSUME LicensingTypeOK, PartiesKnown, WillLapse, NEW p \in Parties, Fails(p),
         UNCHANGED <<cache, credential, loops, today, writer>>,
         \A r \in Parties : Pending(r) => \E s \in Parties \ {p} : Pending(s)
  PROVE  WillLapse'
  <1>1. /\ Else(p) /\ due' = due \ {p} /\ granted' \in {0, granted}
        /\ p \in Beats /\ Lapsed => granted' = 0
    BY FailsIs DEF Rested
  <1>2. ASSUME NEW r \in Parties, Pending(r) PROVE \E s \in Parties : Pending(s)'
    <2>1. PICK s \in Parties \ {p} : Pending(s)
      BY <1>2
    <2>2. Pending(s)'
      BY <1>1, <2>1 DEF Pending, Else
    <2> QED
      BY <2>2
  <1>3. granted' # 0 /\ cache' = 0 => \E s \in Parties : Pending(s)'
    BY <1>1, <1>2 DEF WillLapse
  <1>4. p \notin Beats => due' = due
    BY <1>1, Typed
  <1>5. granted' # 0 /\ credential' # 0 /\ loops' # {} =>
          Leased' \/ due' # {} \/ \E s \in Parties : Pending(s)'
    <2> SUFFICES ASSUME granted' # 0, credential' # 0, loops' # {}, ~Leased', due' = {}
                 PROVE  \E s \in Parties : Pending(s)'
      OBVIOUS
    <2>1. granted # 0 /\ credential # 0 /\ loops # {} /\ ~Leased
      BY <1>1 DEF Leased
    <2>2. CASE p \in Beats
      <3>1. ~Lapsed
        BY <1>1, <2>2
      <3>2. cache = 0
        BY <2>1, <3>1, Typed, LicensingConstants DEF Lapsed, Leased
      <3> QED
        BY <1>2, <2>1, <3>2 DEF WillLapse
    <2>3. CASE p \notin Beats
      BY <1>2, <1>4, <2>1, <2>3 DEF WillLapse
    <2> QED
      BY <2>2, <2>3
  <1> QED
    BY <1>3, <1>5 DEF WillLapse

(* What the service makes of a call. *)
LEMMA HeardIs ==
  ASSUME LicensingTypeOK, NEW p \in Parties, Heard(p)
  PROVE  \/ /\ asking[p].op = "refresh" /\ seat = "ours" /\ asking[p].cred = issued
            /\ accused' \in BOOLEAN /\ (accused' => accused \/ asking[p].n <= highSeq)
            /\ highSeq' = IF asking[p].n > highSeq THEN asking[p].n ELSE highSeq
            /\ seat' = seat /\ issued' = issued
         \/ /\ asking[p].op # "refresh" /\ Seats(p) /\ issued < MaxIssues /\ issued' = issued + 1
            /\ seat' = "ours" /\ highSeq' = 0 /\ accused' = accused
         \/ /\ asking[p].op # "refresh" /\ ~Seats(p) /\ seat = "ours"
            /\ UNCHANGED <<seat, issued, highSeq, accused>>
  <1>1. CASE asking[p].op = "refresh"
    <2>1. /\ Honoured(p) /\ accused' = (accused \/ (asking[p].n <= highSeq))
          /\ highSeq' = IF asking[p].n > highSeq THEN asking[p].n ELSE highSeq
          /\ UNCHANGED <<seat, issued>>
      BY <1>1 DEF Heard, Seats
    <2>2. accused' \in BOOLEAN /\ (accused' => accused \/ asking[p].n <= highSeq)
      BY <2>1
    <2> QED
      BY <1>1, <2>1, <2>2 DEF Honoured
  <1>2. CASE asking[p].op # "refresh" /\ Seats(p)
    BY <1>2 DEF Heard
  <1>3. CASE asking[p].op # "refresh" /\ ~Seats(p)
    BY <1>3 DEF Heard
  <1> QED
    BY <1>1, <1>2, <1>3

(* its numbers stay numbers. *)
LEMMA HeardTyped ==
  ASSUME LicensingTypeOK, NEW p \in Parties, Heard(p)
  PROVE  /\ seat' \in {"ours", "other", "free"} /\ issued' \in 0..MaxIssues /\ highSeq' \in Nat
         /\ accused' \in BOOLEAN /\ issued <= issued' /\ issued' \in Nat
  <1>1. asking[p].n \in Nat /\ highSeq \in Nat /\ issued \in 0..MaxIssues
    BY Typed
  <1>2. accused' \in BOOLEAN
    <2>1. accused \in BOOLEAN
      BY DEF LicensingTypeOK
    <2> QED
      BY <2>1, HeardIs
  <1> QED
    BY <1>1, <1>2, HeardIs, LicensingConstants DEF LicensingTypeOK

(* A call the service answers. *)
LEMMA HeededInv ==
  ASSUME LicenceInv, NEW p \in Parties, Heeded(p)
  PROVE  LicenceInv'
  <1>0. LicensingTypeOK /\ PartiesKnown /\ WillLapse /\ WillBeat /\ Uncrossed /\ Uncut
    BY DEF LicenceInv
  <1>1. /\ asking[p].pc = "asked" /\ Heard(p)
        /\ UNCHANGED <<reachable, cache, credential, beatSeq, writer, granted, loops, due, crossed, cutShort,
                       today, asks, troubles>>
    BY DEF Heeded, rowVars, counted
  <1>2. /\ asking' \in [Parties -> Ask] /\ Else(p) /\ asking'[p].pc = "applying"
        /\ asking'[p].op = asking[p].op /\ asking'[p].had = asking[p].had
        /\ asking'[p].cred = IF asking[p].op = "refresh" THEN asking[p].cred
                             ELSE IF Seats(p) THEN issued + 1 ELSE 0
    <2> DEFINE cred == IF asking[p].op = "refresh" THEN asking[p].cred
                       ELSE IF Seats(p) THEN issued + 1 ELSE 0
    <2>1. cred \in 0..MaxIssues
      BY <1>0, <1>1, Typed, HeardIs, LicensingConstants
    <2>2. asking' = [asking EXCEPT ![p].pc = "applying", ![p].cred = cred]
      BY DEF Heeded
    <2>3. asking \in [Parties -> Ask] /\ asking[p] \in Ask
      BY <1>0, Typed
    <2> HIDE DEF cred
    <2>4. /\ asking' \in [Parties -> Ask] /\ Else(p) /\ asking'[p].pc = "applying"
          /\ asking'[p].op = asking[p].op /\ asking'[p].had = asking[p].had /\ asking'[p].cred = cred
      BY <2>1, <2>2, <2>3 DEF Ask, Stages, Else
    <2> QED
      BY <2>4 DEF cred
  <1>3. LicensingTypeOK'
    BY <1>0, <1>1, <1>2, HeardTyped DEF LicensingTypeOK, Ask
  <1>4. PartiesKnown'
    <2>1. OpAt(p)'
      BY <1>0, <1>1, <1>2, HeardIs, Typed DEF PartiesKnown, OpAt
    <2>2. writer' # "nobody" => asking'[writer'].pc \in {"releasing", "dropping"}
      BY <1>0, <1>1, <1>2, Typed DEF PartiesKnown, Else, Parties
    <2>3. credential' <= issued'
      BY <1>0, <1>1, HeardIs, Typed DEF PartiesKnown
    <2> QED
      BY <1>0, <1>1, <1>2, <2>1, <2>2, <2>3, HeardTyped, KnownBy
  <1>5. WillLapse'
    BY <1>0, <1>1, <1>2, Typed DEF WillLapse, Pending, Leased, Else
  <1>6. WillBeat'
    BY <1>0, <1>1, <1>2 DEF WillBeat, Else
  <1>7. Uncrossed'
    <2>1. ASSUME ~crossed PROVE AloneBy(p)'
      <3>1. /\ ~accused /\ (\A b, c \in loops : b = c) /\ AloneAt(p) /\ OpAt(p)
            /\ credential = issued /\ issued # 0 => highSeq <= beatSeq
        BY <1>0, <2>1 DEF Uncrossed, PartiesKnown
      <3>2. credential' = issued' /\ issued' # 0 => highSeq' <= beatSeq'
        BY <1>0, <1>1, <3>1, HeardIs, Typed DEF AloneAt, PartiesKnown
      <3>3. ~accused'
        BY <1>0, <1>1, <3>1, HeardIs, Typed DEF AloneAt
      <3>4. AloneAt(p)'
        BY <1>0, <1>1, <1>2, <3>1, HeardIs DEF AloneAt
      <3> QED
        BY <1>1, <3>1, <3>2, <3>3, <3>4 DEF AloneBy
    <2> QED
      BY <1>0, <1>1, <1>2, <2>1, UncrossedBy
  <1>8. Uncut'
    <2>1. ASSUME ~crossed, ~cutShort' PROVE WholeBy(p)'
      <3>1. WholeBy(p) /\ AloneAt(p) /\ OpAt(p)
        BY <1>0, <1>1, <2>1, UncutNow DEF Uncrossed, PartiesKnown
      <3> QED
        BY <1>0, <1>1, <1>2, <3>1, HeardIs, Typed DEF WholeBy, WholeAt, Seated, AloneAt, OpAt
    <2> QED
      BY <1>0, <1>1, <1>2, <2>1, UncutBy
  <1> QED
    BY <1>3, <1>4, <1>5, <1>6, <1>7, <1>8 DEF LicenceInv

(* A call that fails, whatever the service heard of it. *)
LEMMA FailedInv ==
  ASSUME LicenceInv, NEW p \in Parties, Fails(p), asking[p].pc # "idle",
         UNCHANGED <<reachable, cache, credential, beatSeq, writer, loops, crossed, today, asks>>,
         \/ Heard(p) /\ asking[p].pc = "asked" /\ (asking[p].op # "refresh" => cutShort')
         \/ UNCHANGED <<seat, issued, highSeq, accused>>,
         asking[p].pc \in {"storing", "keeping", "zeroing", "dropping"} => cutShort',
         asking[p].pc \notin {"applying", "starting", "creating", "releasing", "resetting"},
         asking[p].pc \in {"storing", "dropping"} => writer \notin {"nobody", p},
         cutShort => cutShort', cutShort' \in BOOLEAN, troubles' \in 0..MaxTroubles
  PROVE  LicenceInv'
  <1>0. LicensingTypeOK /\ PartiesKnown /\ WillLapse /\ WillBeat /\ Uncrossed /\ Uncut
    BY DEF LicenceInv
  <1>1. /\ asking' \in [Parties -> Ask] /\ Rested(p) /\ due' = due \ {p} /\ due' \subseteq loops
        /\ granted' \in {0, granted}
    BY <1>0, FailsIs
  <1>2. /\ seat' \in {"ours", "other", "free"} /\ issued' \in 0..MaxIssues /\ highSeq' \in Nat
        /\ accused' \in BOOLEAN /\ issued <= issued' /\ issued' \in Nat
    BY <1>0, HeardTyped DEF LicensingTypeOK
  <1>3. LicensingTypeOK'
    <2>1. granted' \in 0..MaxDays
      BY <1>0, <1>1, Typed, LicensingConstants
    <2> QED
      BY <1>0, <1>1, <1>2, <2>1 DEF LicensingTypeOK, Ask
  <1>4. writer # "nobody" => writer # p
    BY <1>0 DEF PartiesKnown
  <1>5. PartiesKnown'
    <2>1. OpAt(p)'
      BY <1>1, <1>2 DEF OpAt, Rested
    <2>2. writer' # "nobody" => asking'[writer'].pc \in {"releasing", "dropping"}
      BY <1>0, <1>1, <1>4, Typed DEF PartiesKnown, Rested, Else, Parties
    <2>3. credential' <= issued'
      BY <1>0, <1>2, Typed DEF PartiesKnown
    <2> QED
      BY <1>0, <1>1, <1>2, <2>1, <2>2, <2>3, KnownBy DEF Rested
  <1>6. WillLapse'
    <2>1. ASSUME NEW r \in Parties, Pending(r) PROVE \E s \in Parties \ {p} : Pending(s)
      <3>1. CASE r # p
        BY <2>1, <3>1
      <3>2. CASE r = p
        <4>1. asking[p].pc = "storing" /\ writer \notin {"nobody", p} /\ writer \in Parties
          BY <1>0, <1>4, <2>1, <3>2, Typed DEF Pending, Parties
        <4>2. Pending(writer)
          BY <1>0, <4>1 DEF Pending, PartiesKnown
        <4> QED
          BY <4>1, <4>2
      <3> QED
        BY <3>1, <3>2
    <2> QED
      BY <1>0, <2>1, FailsLapse
  <1>7. WillBeat'
    BY <1>0, <1>1 DEF WillBeat, Rested, Else
  <1>8. Uncrossed'
    <2>1. ASSUME ~crossed PROVE AloneBy(p)'
      <3>1. /\ ~accused /\ (\A b, c \in loops : b = c) /\ AloneAt(p) /\ OpAt(p)
            /\ credential = issued /\ issued # 0 => highSeq <= beatSeq
        BY <1>0, <2>1 DEF Uncrossed, PartiesKnown
      <3>2. credential' = issued' /\ issued' # 0 => highSeq' <= beatSeq'
        BY <1>0, <3>1, HeardIs, Typed DEF AloneAt, PartiesKnown
      <3>3. ~accused'
        BY <1>0, <3>1, HeardIs, Typed DEF AloneAt
      <3>4. AloneAt(p)'
        BY <1>1 DEF AloneAt, Rested
      <3> QED
        BY <3>1, <3>2, <3>3, <3>4 DEF AloneBy
    <2> QED
      BY <1>0, <1>1, <2>1, UncrossedBy DEF Rested
  <1>9. Uncut'
    <2>1. ASSUME ~crossed, ~cutShort' PROVE WholeBy(p)'
      <3>1. WholeBy(p) /\ AloneAt(p) /\ OpAt(p)
        BY <1>0, <2>1, UncutNow DEF Uncrossed, PartiesKnown
      <3>2. seat' = seat /\ issued' = issued
        BY <1>0, <2>1, HeardIs
      <3>3. asking[p].pc \in {"numbering", "saving", "asked", "flushing"}
        BY <1>0, <2>1, Typed DEF Stages
      <3>4. (credential = 0 <=> cache = 0) /\ (credential = 0 => granted = 0) /\ ~Seated(p)
        BY <3>1, <3>3 DEF WholeBy, Seated
      <3> QED
        BY <1>1, <3>1, <3>2, <3>4 DEF WholeBy, WholeAt, Rested
    <2> QED
      BY <1>0, <1>1, <2>1, UncutBy DEF Rested
  <1> QED
    BY <1>3, <1>5, <1>6, <1>7, <1>8, <1>9 DEF LicenceInv

(* No answer that could be used, a refusal, and a locked table. *)
LEMMA FailuresInv ==
  ASSUME LicenceInv, NEW p \in Parties, Unusable(p) \/ Rebuffed(p) \/ Locked(p)
  PROVE  LicenceInv'
  <1>0. LicensingTypeOK /\ cutShort \in BOOLEAN /\ troubles \in 0..MaxTroubles
    BY DEF LicenceInv, LicensingTypeOK
  <1>1. CASE Unusable(p)
    <2>1. /\ asking[p].pc = "asked" /\ Heard(p) /\ Fails(p)
          /\ cutShort' = (cutShort \/ (asking[p].op # "refresh"))
          /\ UNCHANGED <<reachable, cache, credential, beatSeq, writer, loops, crossed, today, asks>>
          /\ troubles < MaxTroubles /\ troubles' = troubles + 1
      BY <1>1 DEF Unusable, Trouble, rowVars
    <2>2. troubles' \in 0..MaxTroubles /\ cutShort' \in BOOLEAN
      BY <1>0, <2>1, LicensingConstants
    <2> QED
      BY <2>1, <2>2, FailedInv
  <1>2. CASE Rebuffed(p)
    BY <1>0, <1>2, FailedInv DEF Rebuffed, serviceVars, rowVars, counted
  <1>3. CASE Locked(p)
    <2>1. /\ writer \notin {"nobody", p} /\ Fails(p)
          /\ asking[p].pc \in {"saving", "storing", "keeping", "zeroing", "flushing", "dropping"}
          /\ cutShort' = (cutShort \/ (asking[p].pc \in {"storing", "keeping", "zeroing", "dropping"}))
          /\ UNCHANGED <<reachable, seat, issued, highSeq, accused, cache, credential, beatSeq, writer, loops,
                         crossed, today, asks, troubles>>
      BY <1>3 DEF Locked, MayWrite, serviceVars, rowVars, counted
    <2>2. cutShort' \in BOOLEAN
      BY <1>0, <2>1
    <2> QED
      BY <1>0, <2>1, <2>2, FailedInv
  <1> QED
    BY <1>1, <1>2, <1>3

-----------------------------------------------------------------------------
(* Requests and heartbeats begin. *)
LEMMA EntersInv ==
  ASSUME LicenceInv, NEW p \in Parties, NEW k \in Ask, Enters(p, k), due' = due, asks' \in 0..MaxAsks,
         k.cred = credential, k.op # "refresh" => p \notin Beats,
         \/ k.op = "refresh" /\ k.pc = "numbering" /\ credential # 0
         \/ k.op = "remove" /\ k.pc = "flushing" /\ (k.had <=> cache # 0)
         \/ k.op \in {"set", "transfer"} /\ k.pc = "asked"
  PROVE  LicenceInv'
  <1>0. LicensingTypeOK /\ PartiesKnown /\ WillLapse /\ WillBeat /\ Uncrossed /\ Uncut
    BY DEF LicenceInv
  <1>1. /\ asking[p].pc = "idle" /\ crossed' = (crossed \/ (Busy # {}))
        /\ UNCHANGED <<reachable, seat, issued, highSeq, accused, cache, credential, beatSeq, writer, granted,
                       loops, cutShort, today, troubles>>
    BY DEF Enters, serviceVars, rowVars
  <1>2. asking' \in [Parties -> Ask] /\ asking'[p] = k /\ Else(p)
    BY <1>0, Typed DEF Enters, Else
  <1>3. LicensingTypeOK'
    <2>1. crossed' \in BOOLEAN
      BY <1>0, <1>1 DEF LicensingTypeOK
    <2> QED
      BY <1>0, <1>1, <1>2, <2>1 DEF LicensingTypeOK, Ask
  <1>4. PartiesKnown'
    <2>1. OpAt(p)'
      BY <1>0, <1>1, <1>2, Typed DEF PartiesKnown, OpAt
    <2>2. writer' # "nobody" => asking'[writer'].pc \in {"releasing", "dropping"}
      BY <1>0, <1>1, <1>2, Typed DEF PartiesKnown, Else, Parties
    <2> QED
      BY <1>0, <1>1, <1>2, <2>1, <2>2, Typed, KnownBy DEF PartiesKnown
  <1>5. WillLapse' /\ WillBeat'
    BY <1>0, <1>1, <1>2 DEF WillLapse, WillBeat, Pending, Leased, Else
  <1>6. ~crossed' => \A r \in Parties : asking[r].pc = "idle" /\ asking[r].op = "none"
    BY <1>0, <1>1 DEF Busy, PartiesKnown, OpAt
  <1>7. Uncrossed'
    <2> SUFFICES ASSUME ~crossed'
                 PROVE  /\ ~accused' /\ (\A r, s \in Busy' : r = s) /\ (\A b, c \in loops' : b = c)
                        /\ credential' = issued' /\ issued' # 0 => highSeq' <= beatSeq'
                        /\ \A r \in Parties : AloneAt(r)'
      BY DEF Uncrossed
    <2>1. \A r \in Parties \ {p} : asking'[r].pc = "idle" /\ asking'[r].op = "none"
      BY <1>2, <1>6 DEF Else
    <2>2. \A r \in Parties \ {p} : AloneAt(r)'
      BY <2>1 DEF AloneAt
    <2>3. AloneAt(p)'
      BY <1>1, <1>2 DEF AloneAt
    <2>4. \A r, s \in Busy' : r = s
      BY <2>1 DEF Busy
    <2> QED
      BY <1>0, <1>1, <2>2, <2>3, <2>4 DEF Uncrossed
  <1>8. Uncut'
    <2> SUFFICES ASSUME ~crossed', ~cutShort'
                 PROVE  /\ credential' = 0 <=> cache' = 0
                        /\ credential' = 0 => granted' = 0
                        /\ seat' = "ours" => issued' # 0 /\ credential' = issued'
                        /\ \A r \in Parties : WholeAt(r)'
      BY DEF Uncut
    <2>1. \A r \in Parties \ {p} : asking'[r].pc = "idle" /\ asking'[r].op = "none"
      BY <1>2, <1>6 DEF Else
    <2>2. \A r \in Parties \ {p} : WholeAt(r)'
      BY <2>1 DEF WholeAt
    <2>3. WholeAt(p)'
      BY <1>1, <1>2 DEF WholeAt
    <2> QED
      BY <1>0, <1>1, <1>6, <2>2, <2>3 DEF Uncut, Seated
  <1> QED
    BY <1>3, <1>4, <1>5, <1>7, <1>8 DEF LicenceInv

(* The owner asks, *)
LEMMA OwnerAsksInv ==
  ASSUME LicenceInv, NEW p \in Clerks, NEW op \in {"set", "transfer", "refresh", "remove"}, OwnerAsks(p, op)
  PROVE  LicenceInv'
  <1>0. LicensingTypeOK /\ p \in Parties /\ p \notin Beats /\ credential \in 0..MaxIssues
    BY LicensingConstants, Typed DEF LicenceInv, Parties
  <1>1. PICK had \in BOOLEAN : had = (cache # 0)
    OBVIOUS
  <1>2. PICK pc \in {"numbering", "flushing", "asked"} :
          /\ pc = CASE op = "refresh" -> "numbering" [] op = "remove" -> "flushing" [] OTHER -> "asked"
          /\ op = "refresh" => pc = "numbering"
          /\ op = "remove" => pc = "flushing"
          /\ op \in {"set", "transfer"} => pc = "asked"
    BY Zenon
  <1> DEFINE k == [AtRest EXCEPT !.op = op, !.cred = credential, !.had = had, !.pc = pc]
  <1>3. k \in Ask /\ k.op = op /\ k.cred = credential /\ (k.had <=> cache # 0) /\ k.pc = pc
    BY <1>0, <1>1, <1>2, LicensingConstants DEF Ask, Stages
  <1>4. Enters(p, k) /\ due' = due /\ (op = "refresh" => credential # 0) /\ asks' \in 0..MaxAsks
    <2>1. Enters(p, k)
      BY <1>1, <1>2 DEF OwnerAsks
    <2>2. asks' \in 0..MaxAsks
      BY <1>0, LicensingConstants DEF OwnerAsks, LicensingTypeOK
    <2> QED
      BY <2>1, <2>2 DEF OwnerAsks
  <1> HIDE DEF k
  <1> QED
    BY <1>0, <1>2, <1>3, <1>4, EntersInv

(* or the loop beats. *)
LEMMA BeatInv ==
  ASSUME LicenceInv, NEW b \in Beats, Beat(b)
  PROVE  LicenceInv'
  <1>0. /\ LicensingTypeOK /\ PartiesKnown /\ WillLapse /\ WillBeat /\ Uncrossed /\ Uncut
        /\ b \in Parties /\ credential \in 0..MaxIssues
    BY Typed DEF LicenceInv, Parties
  <1>1. CASE credential = 0
    <2>1. /\ UNCHANGED <<reachable, seat, issued, highSeq, accused, cache, credential, beatSeq, writer, granted,
                         loops, asking, crossed, cutShort, today, troubles, asks>>
          /\ due' = due \ {b}
      BY <1>1 DEF Beat, serviceVars, rowVars
    <2>2. LicensingTypeOK'
      BY <1>0, <2>1 DEF LicensingTypeOK
    <2>3. PartiesKnown'
      BY <1>0, <2>1 DEF PartiesKnown, OpAt
    <2>4. WillLapse' /\ WillBeat'
      BY <1>0, <1>1, <2>1 DEF WillLapse, WillBeat, Pending
    <2>5. Uncrossed'
      BY <1>0, <2>1 DEF Uncrossed, AloneAt, Busy
    <2>6. Uncut'
      BY <1>0, <2>1 DEF Uncut, WholeAt, Seated
    <2> QED
      BY <2>2, <2>3, <2>4, <2>5, <2>6 DEF LicenceInv
  <1>2. CASE credential # 0
    <2> DEFINE k == [AtRest EXCEPT !.op = "refresh", !.cred = credential, !.pc = "numbering"]
    <2>1. Enters(b, k) /\ due' = due /\ asks' = asks
      BY <1>2 DEF Beat
    <2>2. k \in Ask /\ k.op = "refresh" /\ k.cred = credential /\ k.pc = "numbering"
      BY <1>0, LicensingConstants DEF Ask, Stages
    <2>3. asks' \in 0..MaxAsks
      BY <1>0, <2>1 DEF LicensingTypeOK
    <2> HIDE DEF k
    <2> QED
      BY <1>0, <1>2, <2>1, <2>2, <2>3, EntersInv
  <1> QED
    BY <1>1, <1>2

-----------------------------------------------------------------------------
(* The world. *)
LEMMA ServiceInv ==
  ASSUME LicenceInv, Outages \/ SeatTaken \/ UNCHANGED licenceVars
  PROVE  LicenceInv'
  <1>0. LicensingTypeOK /\ PartiesKnown /\ WillLapse /\ WillBeat /\ Uncrossed /\ Uncut
    BY DEF LicenceInv
  <1>1. UNCHANGED <<cache, credential, beatSeq, writer, granted, loops, due, asking, crossed, cutShort, today, asks>>
    BY DEF Outages, SeatTaken, licenceVars, serviceVars, rowVars, counted
  <1>2. troubles' \in 0..MaxTroubles
    BY <1>0, LicensingConstants DEF Outages, SeatTaken, licenceVars, counted, Trouble, LicensingTypeOK
  <1>3. \/ UNCHANGED <<seat, issued, highSeq, accused>> /\ reachable' \in BOOLEAN
        \/ /\ seat' = "other" /\ issued < MaxIssues /\ issued' = issued + 1 /\ highSeq' = 0
           /\ UNCHANGED <<reachable, accused>>
    BY <1>0 DEF Outages, SeatTaken, licenceVars, serviceVars, LicensingTypeOK
  <1>4. LicensingTypeOK'
    BY <1>0, <1>1, <1>2, <1>3, LicensingConstants DEF LicensingTypeOK
  <1>5. PartiesKnown'
    BY <1>0, <1>1, <1>3, Typed DEF PartiesKnown, OpAt
  <1>6. WillLapse' /\ WillBeat'
    BY <1>0, <1>1 DEF WillLapse, WillBeat, Pending, Leased
  <1>7. CASE UNCHANGED <<seat, issued, highSeq, accused>>
    BY <1>0, <1>1, <1>4, <1>5, <1>6, <1>7 DEF LicenceInv, Uncrossed, AloneAt, Busy, Uncut, WholeAt, Seated
  <1>8. CASE /\ seat' = "other" /\ issued < MaxIssues /\ issued' = issued + 1 /\ highSeq' = 0
             /\ accused' = accused
    <2>1. Uncrossed'
      <3> SUFFICES ASSUME ~crossed
                   PROVE  /\ ~accused' /\ (\A r, s \in Busy' : r = s) /\ (\A b, c \in loops' : b = c)
                          /\ credential' = issued' /\ issued' # 0 => highSeq' <= beatSeq'
                          /\ \A r \in Parties : AloneAt(r)'
        BY <1>1 DEF Uncrossed
      <3>1. Busy' = Busy
        BY <1>1 DEF Busy
      <3>2. credential' # issued'
        BY <1>0, <1>1, <1>8, Typed DEF PartiesKnown
      <3>3. ASSUME NEW r \in Parties PROVE AloneAt(r)'
        <4>1. AloneAt(r) /\ OpAt(r)
          BY <1>0 DEF Uncrossed, PartiesKnown
        <4>2. asking[r].cred # issued'
          BY <1>0, <1>8, <4>1, Typed DEF OpAt
        <4> QED
          BY <1>1, <1>8, <4>1, <4>2 DEF AloneAt
      <3> QED
        BY <1>0, <1>1, <1>8, <3>1, <3>2, <3>3 DEF Uncrossed
    <2>2. Uncut'
      BY <1>0, <1>1, <1>8 DEF Uncut, WholeAt
    <2> QED
      BY <1>4, <1>5, <1>6, <2>1, <2>2 DEF LicenceInv
  <1> QED
    BY <1>3, <1>7, <1>8

(* A day passes. *)
LEMMA NextDayInv ==
  ASSUME LicenceInv, NextDay
  PROVE  LicenceInv'
  <1>0. LicensingTypeOK /\ PartiesKnown /\ WillLapse /\ WillBeat /\ Uncrossed /\ Uncut
    BY DEF LicenceInv
  <1>1. /\ UNCHANGED <<reachable, seat, issued, highSeq, accused, cache, credential, beatSeq, writer, granted,
                       loops, asking, crossed, cutShort, asks, troubles>>
        /\ today < MaxDays /\ today' = today + 1 /\ due' = loops
        /\ \A p \in Parties : asking[p].pc = "idle"
    BY DEF NextDay, Busy, serviceVars, rowVars
  <1>2. LicensingTypeOK'
    BY <1>0, <1>1, LicensingConstants DEF LicensingTypeOK
  <1>3. PartiesKnown'
    BY <1>0, <1>1 DEF PartiesKnown, OpAt
  <1>4. WillLapse' /\ WillBeat'
    BY <1>0, <1>1 DEF WillLapse, WillBeat, Pending
  <1>5. Uncrossed'
    BY <1>0, <1>1 DEF Uncrossed, AloneAt, Busy
  <1>6. Uncut'
    BY <1>0, <1>1 DEF Uncut, WholeAt, Seated
  <1> QED
    BY <1>2, <1>3, <1>4, <1>5, <1>6 DEF LicenceInv

(* The server restarts. *)
LEMMA RebootInv ==
  ASSUME LicenceInv, Reboot
  PROVE  LicenceInv'
  <1>0. LicensingTypeOK /\ PartiesKnown /\ WillLapse /\ WillBeat /\ Uncrossed /\ Uncut
    BY DEF LicenceInv
  <1>1. /\ UNCHANGED <<reachable, seat, issued, highSeq, accused, cache, credential, beatSeq, crossed, today, asks>>
        /\ granted' = Loaded /\ due' = loops' /\ writer' = "nobody" /\ asking' = [p \in Parties |-> AtRest]
        /\ troubles < MaxTroubles /\ troubles' = troubles + 1
        /\ \E b \in Beats : loops' = IF credential = 0 THEN {} ELSE {b}
    BY DEF Reboot, Trouble, serviceVars, rowVars
  <1>2. /\ asking' \in [Parties -> Ask]
        /\ \A p \in Parties : asking'[p].pc = "idle" /\ asking'[p].op = "none" /\ asking'[p].cred = 0
    BY <1>1, LicensingConstants
  <1>3. PICK cut \in BOOLEAN :
          /\ cutShort' = (cutShort \/ cut)
          /\ ~cut => \A p \in Clerks : asking[p].op = "refresh" \/ asking[p].pc \in {"idle", "asked", "flushing", "releasing"}
    <2> DEFINE cut == \E p \in Clerks :
                  asking[p].op # "refresh" /\ asking[p].pc \notin {"idle", "asked", "flushing", "releasing"}
    <2>1. cutShort' = (cutShort \/ cut) /\ cut \in BOOLEAN
      BY DEF Reboot
    <2> QED
      BY <2>1
  <1>4. granted' \in {0, cache} /\ (granted' # 0 => Leased)
    BY <1>0, <1>1, Typed, LicensingConstants DEF Loaded, Lapsed, Leased
  <1>5. LicensingTypeOK'
    <2>1. granted' \in 0..MaxDays /\ troubles' \in 0..MaxTroubles /\ loops' \subseteq Beats
      BY <1>0, <1>1, <1>4, Typed, LicensingConstants DEF LicensingTypeOK
    <2>2. cutShort' \in BOOLEAN
      BY <1>0, <1>3 DEF LicensingTypeOK
    <2> QED
      BY <1>0, <1>1, <1>2, <2>1, <2>2 DEF LicensingTypeOK, Ask
  <1>6. PartiesKnown'
    BY <1>0, <1>1, <1>2, Typed DEF PartiesKnown, OpAt
  <1>7. WillLapse' /\ WillBeat'
    BY <1>1, <1>4 DEF WillLapse, WillBeat, Leased
  <1>8. Uncrossed'
    BY <1>0, <1>1, <1>2 DEF Uncrossed, AloneAt, Busy
  <1>9. Uncut'
    <2> SUFFICES ASSUME ~crossed, ~cutShort, ~cutShort'
                 PROVE  /\ credential' = 0 <=> cache' = 0
                        /\ credential' = 0 => granted' = 0
                        /\ seat' = "ours" => issued' # 0 /\ credential' = issued'
                        /\ \A r \in Parties : WholeAt(r)'
      BY <1>1, <1>3 DEF Uncut
    <2>1. \A p \in Parties : asking[p].op \in {"none", "refresh"} \/ asking[p].pc \in {"idle", "asked", "flushing", "releasing"}
      BY <1>0, <1>3 DEF PartiesKnown, OpAt, Parties
    <2>2. \A p \in Parties : asking[p].pc # "keeping" /\ ~Seated(p)
      BY <1>0, <2>1 DEF PartiesKnown, OpAt, Seated
    <2>3. \A r \in Parties : WholeAt(r)'
      BY <1>2 DEF WholeAt
    <2> QED
      BY <1>0, <1>1, <1>4, <2>2, <2>3 DEF Uncut
  <1> QED
    BY <1>5, <1>6, <1>7, <1>8, <1>9 DEF LicenceInv

(* Every step keeps the invariant. *)
LEMMA LicensingStep == LicenceInv /\ [LicensingNext]_licenceVars => LicenceInv'
  <1> SUFFICES ASSUME LicenceInv, [LicensingNext]_licenceVars PROVE LicenceInv'
    OBVIOUS
  <1>1. ASSUME NEW p \in Parties, LicenceSteps(p) PROVE LicenceInv'
    <2>1. CASE \/ Number(p) \/ Save(p) \/ ApplyClaims(p) \/ Store(p) \/ Keep(p) \/ Zero(p)
      BY <2>1, NumberInv, SaveInv, ApplyInv, StoreInv, KeepInv, ZeroInv
    <2>2. CASE \/ FindLoop(p) \/ CreateLoop(p) \/ Flush(p) \/ Release(p) \/ DropRows(p) \/ ResetBuiltin(p)
      BY <2>2, FindInv, CreateLoopInv, FlushInv, ReleaseInv, DropRowsInv, ResetInv
    <2>3. CASE Heeded(p) \/ Unusable(p) \/ Rebuffed(p) \/ Locked(p)
      BY <2>3, HeededInv, FailuresInv
    <2> QED
      BY <1>1, <2>1, <2>2, <2>3 DEF LicenceSteps
  <1> QED
    BY <1>1, OwnerAsksInv, BeatInv, ServiceInv, NextDayInv, RebootInv DEF LicensingNext

(* The licence: whatever fails, overlaps or restarts, what an idle install with its     *)
(* loop grants was revalidated within MaxOffline days; and while no two calls overlap   *)
(* there is one loop at most and the install is never taken for a clone, and while none *)
(* was cut short either, token, credential and grant come and go together.              *)
THEOREM LicenceIsSound == LicensingSpec => []LicenceSound
  <1>1. LicenceInv => LicenceSound
    <2> SUFFICES ASSUME LicenceInv PROVE LicenceSound
      OBVIOUS
    <2>0. LicensingTypeOK /\ PartiesKnown /\ WillLapse /\ WillBeat /\ Uncrossed /\ Uncut
      BY DEF LicenceInv
    <2>1. Busy = {} => \A p \in Parties : asking[p].pc = "idle"
      BY DEF Busy
    <2>2. GrantLapses
      BY <2>0, <2>1 DEF WillLapse, GrantLapses, Pending, Leased
    <2>3. NeverAccused
      BY <2>0 DEF Uncrossed, NeverAccused
    <2>4. OneLoop
      <3> SUFFICES ASSUME ~crossed PROVE Cardinality(loops) <= 1
        BY DEF OneLoop
      <3>1. CASE loops = {}
        BY <3>1, FS_EmptySet
      <3>2. CASE loops # {}
        <4>1. PICK b \in loops : loops = {b}
          BY <2>0, <3>2 DEF Uncrossed
        <4>2. Cardinality({b}) = 1
          BY FS_Singleton
        <4> QED
          BY <4>1, <4>2
      <3> QED
        BY <3>1, <3>2
    <2>5. KeepsBeating
      BY <2>0, <2>1 DEF WillBeat, KeepsBeating
    <2>6. LicenceWhole
      BY <2>0, <2>1 DEF Uncut, LicenceWhole
    <2> QED
      BY <2>0, <2>2, <2>3, <2>4, <2>5, <2>6 DEF LicenceSound
  <1> QED
    BY <1>1, LicensingInitInv, LicensingStep, PTL DEF LicensingSpec
=============================================================================
