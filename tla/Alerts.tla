------------------------------- MODULE Alerts -------------------------------
(***************************************************************************)
(* Alert rules, the alerts they open and who hears of them                 *)
(* (services/alerts.py, api/alerts.py, services/notifier.py,               *)
(* api/notifications.py).  One evaluator makes a pass per poll interval:   *)
(* it reads the enabled rules once, commits one alert at a time, and tells *)
(* what it changed only when the whole pass is over.  Requests edit rules  *)
(* and channels between any two of its commits.                            *)
(***************************************************************************)
EXTENDS Naturals, Sequences, FiniteSets, SequencesExt

CONSTANTS Rules, Targets, Channels,
          MaxMoves     \* edits, changes of the world, failures and restarts

ASSUME MovesAssumption == MaxMoves \in Nat

VARIABLES
  rules,      \* AlertRule rows; "none" is no row
  targets,    \* hosts, apps or VMs there are
  world,      \* what the samples say: per rule and target "calm" (or no data),
              \* "recent" (breaching for less than the duration) or "held"
  alerts,     \* Alert rows by id; a deleted one stays as "deleted"
  channels,   \* NotificationChannel rows: "none", "on" or "off"
  muted,      \* the master switch is off for alerts
  pass,       \* the evaluator's pass
  moves
alertVars == <<rules, targets, world, alerts, channels, muted, pass, moves>>

Pairs == Rules \X Targets
NoRule == [st |-> "none", target |-> "any", named |-> {}]
Rule == [st : {"none", "on", "off"}, target : Targets \cup {"any"}, named : SUBSET Channels]
Alert == [rule : Rules, target : Targets, state : {"firing", "resolved", "deleted"},
          acked : BOOLEAN,
          heard : Seq({"firing", "resolved"}),     \* what was published of it,
          sent : [Channels -> Seq({"firing", "resolved"})],   \* sent to a channel,
          lost : SUBSET {"firing", "resolved"}]    \* what never will be
NoPass == [pc |-> "idle", loaded |-> [r \in Rules |-> NoRule], todo |-> {}, pairs |-> {},
           visited |-> {}, sweep |-> {}, told |-> <<>>]
Transition == [id : Nat, state : {"firing", "resolved"}, named : SUBSET Channels]
AlertsTypeOK ==
  /\ rules \in [Rules -> Rule] /\ targets \subseteq Targets
  /\ world \in [Pairs -> {"calm", "recent", "held"}]
  /\ alerts \in Seq(Alert) /\ channels \in [Channels -> {"none", "on", "off"}]
  /\ muted \in BOOLEAN /\ moves \in 0..MaxMoves
  /\ pass.pc \in {"idle", "rules", "sweep", "publish", "notify"}
  /\ pass.loaded \in [Rules -> Rule] /\ pass.told \in Seq(Transition)
  /\ pass.todo \subseteq Rules /\ pass.visited \cup pass.pairs \subseteq Pairs
  /\ pass.sweep \subseteq DOMAIN alerts

AlertsInit ==
  /\ rules = [r \in Rules |-> [NoRule EXCEPT !.st = "on"]] /\ targets = Targets
  /\ world = [p \in Pairs |-> "calm"] /\ alerts = <<>>
  /\ channels = [c \in Channels |-> "on"] /\ muted = FALSE
  /\ pass = NoPass /\ moves = 0

Move == moves < MaxMoves /\ moves' = moves + 1

-----------------------------------------------------------------------------
(* The world, and the requests.                                            *)

\* Samples come in: a breach begins, has lasted, or a single dip ends it.
Sample(p) ==
  /\ \/ Move /\ world[p] # "held" /\ world' = [world EXCEPT ![p] = "recent"]
     \/ Move /\ world' = [world EXCEPT ![p] = "calm"]
     \/ world[p] = "recent" /\ world' = [world EXCEPT ![p] = "held"] /\ UNCHANGED moves
  /\ world' # world
  /\ UNCHANGED <<rules, targets, alerts, channels, muted, pass>>

TargetGoes(t) ==
  /\ Move /\ t \in targets /\ targets' = targets \ {t}
  /\ world' = [p \in Pairs |-> IF p[2] = t THEN "calm" ELSE world[p]]
  /\ UNCHANGED <<rules, alerts, channels, muted, pass>>

\* _validate: a target named is there, and so is every channel.
Valid(r) == /\ r.target = "any" \/ r.target \in targets
            /\ \A c \in r.named : channels[c] # "none"

CreateRule(r) ==
  /\ Move /\ rules[r].st = "none"
  /\ \E new \in Rule : /\ new.st # "none" /\ Valid(new)
                       /\ rules' = [rules EXCEPT ![r] = new]
  /\ UNCHANGED <<targets, world, alerts, channels, muted, pass>>

\* patch_rule: the merged rule is validated whole, whatever was asked of it.
PatchRule(r) ==
  /\ Move /\ rules[r].st # "none"
  /\ \E merged \in Rule :
       /\ merged.st # "none" /\ Valid(merged) /\ merged # rules[r]
       /\ rules' = [rules EXCEPT ![r] = merged]
  /\ UNCHANGED <<targets, world, alerts, channels, muted, pass>>

\* delete_rule takes its alerts along.
DeleteRule(r) ==
  /\ Move /\ rules[r].st # "none"
  /\ rules' = [rules EXCEPT ![r] = NoRule]
  /\ alerts' = [i \in DOMAIN alerts |->
       IF alerts[i].rule = r THEN [alerts[i] EXCEPT !.state = "deleted"] ELSE alerts[i]]
  /\ UNCHANGED <<targets, world, channels, muted, pass>>

\* ack_alert silences, and never resolves.
Ack(i) ==
  /\ Move /\ alerts[i].state # "deleted" /\ ~alerts[i].acked
  /\ alerts' = [alerts EXCEPT ![i].acked = TRUE]
  /\ UNCHANGED <<rules, targets, world, channels, muted, pass>>

\* create_channel, patch_channel and delete_channel; no rule is looked at.
EditChannel(c) ==
  /\ Move /\ \E st \in {"none", "on", "off"} \ {channels[c]} :
                channels' = [channels EXCEPT ![c] = st]
  /\ UNCHANGED <<rules, targets, world, alerts, muted, pass>>
PatchTypes == Move /\ muted' = ~muted /\ UNCHANGED <<rules, targets, world, alerts, channels, pass>>

-----------------------------------------------------------------------------
(* The pass: evaluate, then publish, then notify.                          *)

Told(i, state, r) == Append(pass.told, [id |-> i, state |-> state, named |-> r.named])
\* targets_for
Covered(r) == IF r.target = "any" THEN targets ELSE {r.target} \cap targets

Firing(r, t) == {i \in DOMAIN alerts : /\ alerts[i].state = "firing"
                                       /\ alerts[i].rule = r /\ alerts[i].target = t}
BugFiring(r, t) == {i \in DOMAIN alerts : alerts[i].rule = r /\ alerts[i].target = t}
\* _open_alert
OpenAlert(r, t) == Firing(r, t)

StartPass ==
  /\ pass.pc = "idle"
  /\ pass' = [NoPass EXCEPT !.pc = "rules", !.loaded = rules,
                            !.todo = {r \in Rules : rules[r].st = "on"}]
  /\ UNCHANGED <<rules, targets, world, alerts, channels, muted, moves>>

TakeRule(r) ==
  /\ pass.pc = "rules" /\ pass.pairs = {} /\ r \in pass.todo
  /\ LET pairs == {r} \X Covered(pass.loaded[r]) IN
       pass' = [pass EXCEPT !.todo = @ \ {r}, !.pairs = pairs, !.visited = @ \cup pairs]
  /\ UNCHANGED <<rules, targets, world, alerts, channels, muted, moves>>

\* The pass is given up: what it had committed is never told.
Broken == [i \in DOMAIN alerts |->
             [alerts[i] EXCEPT !.lost = @ \cup {t.state : t \in {x \in ToSet(pass.told) : x.id = i}}]]
Raise == pass' = NoPass /\ alerts' = Broken

\* One target: fire, resolve, leave alone, or log what went wrong and go on.
\* An alert of a rule deleted meanwhile cannot be inserted, and that raises.
Evaluate(p) ==
  LET r == p[1]
      t == p[2]
      open == OpenAlert(r, t)
      next == [pass EXCEPT !.pairs = @ \ {p}]
      new == [rule |-> r, target |-> t, state |-> "firing", acked |-> FALSE,
              heard |-> <<>>, sent |-> [c \in Channels |-> <<>>], lost |-> {}] IN
  /\ pass.pc = "rules" /\ p \in pass.pairs
  /\ \/ /\ world[p] = "held" /\ open = {} /\ UNCHANGED moves
        /\ IF rules[r].st = "none" THEN Raise
           ELSE /\ alerts' = Append(alerts, new)
                /\ pass' = [next EXCEPT !.told = Told(Len(alerts) + 1, "firing", pass.loaded[r])]
     \/ /\ world[p] # "held" /\ open # {} /\ UNCHANGED moves
        /\ LET i == CHOOSE i \in open : \A j \in open : j <= i IN
             /\ alerts' = [alerts EXCEPT ![i].state = "resolved"]
             /\ pass' = [next EXCEPT !.told = Told(i, "resolved", pass.loaded[r])]
     \/ /\ (world[p] = "held") = (open # {}) /\ UNCHANGED <<alerts, moves>>
        /\ pass' = next
     \/ Move /\ UNCHANGED alerts /\ pass' = next
  /\ UNCHANGED <<rules, targets, world, channels, muted>>

\* Alerts nobody looked at: the rule is off, or the target is gone.
BugOrphans == {i \in DOMAIN alerts : alerts[i].state = "firing"
                 /\ alerts[i].target \notin targets}
Orphans == {i \in DOMAIN alerts : alerts[i].state = "firing"
              /\ <<alerts[i].rule, alerts[i].target>> \notin pass.visited}
StartSweep ==
  /\ pass.pc = "rules" /\ pass.todo = {} /\ pass.pairs = {}
  /\ pass' = [pass EXCEPT !.pc = "sweep", !.sweep = Orphans]
  /\ UNCHANGED <<rules, targets, world, alerts, channels, muted, moves>>

\* Its row may be gone with its rule: seen when the rule has to be asked for,
\* and an error when the session still holds it.
SweepOne(i) ==
  LET r == alerts[i].rule
      next == [pass EXCEPT !.sweep = @ \ {i}] IN
  /\ pass.pc = "sweep" /\ i \in pass.sweep
  /\ IF alerts[i].state # "deleted"
     THEN /\ alerts' = [alerts EXCEPT ![i].state = "resolved"]
          /\ pass' = [next EXCEPT !.told = Told(i, "resolved",
                IF pass.loaded[r].st = "on" THEN pass.loaded[r] ELSE rules[r])]
     ELSE IF pass.loaded[r].st = "on" THEN Raise
     ELSE pass' = next /\ UNCHANGED alerts
  /\ UNCHANGED <<rules, targets, world, channels, muted, moves>>

\* The events go out in one go, in the order they were committed.
Events(i) ==
  LET ks == {k \in DOMAIN pass.told : pass.told[k].id = i}
      Nth(n) == CHOOSE k \in ks : Cardinality({l \in ks : l <= k}) = n IN
  [n \in 1..Cardinality(ks) |-> pass.told[Nth(n)].state]
Publish ==
  /\ pass.pc = "sweep" /\ pass.sweep = {}
  /\ alerts' = [i \in DOMAIN alerts |-> [alerts[i] EXCEPT !.heard = @ \o Events(i)]]
  /\ pass' = [pass EXCEPT !.pc = "notify"]
  /\ UNCHANGED <<rules, targets, world, channels, muted, moves>>

\* channels_for: the rule's own channels override every subscription, and a
\* channel that is off is never used.
Recipients(t) ==
  IF muted THEN {}
  ELSE {c \in Channels : channels[c] = "on" /\ (t.named = {} \/ c \in t.named)}
\* notify_transitions, one event after the other: whom a send does not reach
\* does not hear of it, and that stops nobody else.
Notify ==
  /\ pass.pc = "notify" /\ pass.told # <<>>
  /\ LET t == Head(pass.told) IN
     \E reached \in SUBSET Recipients(t) :
       alerts' = [alerts EXCEPT ![t.id].sent =
         [c \in Channels |-> IF c \in reached THEN Append(@[c], t.state) ELSE @[c]]]
  /\ pass' = [pass EXCEPT !.told = Tail(@)]
  /\ UNCHANGED <<rules, targets, world, channels, muted, moves>>

EndPass ==
  /\ pass.pc = "notify" /\ pass.told = <<>> /\ pass' = NoPass
  /\ UNCHANGED <<rules, targets, world, alerts, channels, muted, moves>>

\* The process stops and starts again.
AlertsRestart ==
  /\ Move /\ pass.pc # "idle"
  /\ pass' = NoPass
  /\ alerts' = IF pass.pc = "notify" THEN alerts ELSE Broken
  /\ UNCHANGED <<rules, targets, world, channels, muted>>

-----------------------------------------------------------------------------
AlertsPass == \/ StartPass \/ StartSweep \/ Publish \/ Notify \/ EndPass
              \/ \E r \in Rules : TakeRule(r)
              \/ \E p \in Pairs : Evaluate(p)
              \/ \E i \in DOMAIN alerts : SweepOne(i)
AlertsNext ==
  \/ AlertsPass \/ AlertsRestart \/ PatchTypes
  \/ \E p \in Pairs : Sample(p)
  \/ \E t \in Targets : TargetGoes(t)
  \/ \E r \in Rules : CreateRule(r) \/ PatchRule(r) \/ DeleteRule(r)
  \/ \E i \in DOMAIN alerts : Ack(i)
  \/ \E c \in Channels : EditChannel(c)
AlertsSpec == AlertsInit /\ [][AlertsNext]_alertVars /\ WF_alertVars(AlertsPass)

-----------------------------------------------------------------------------
(* Properties.                                                             *)

InOrder(events) == events \in {<<>>, <<"firing">>, <<"resolved">>, <<"firing", "resolved">>}
Passed(i, state) == \/ state \in ToSet(alerts[i].heard) \cup alerts[i].lost
                    \/ \E t \in ToSet(pass.told) : t.id = i /\ t.state = state

\* However rules, channels and targets change under a pass: one breach has one
\* open alert, nobody hears of an alert twice or of its end before its start,
\* and what was committed is told unless its pass was cut short.
AlertsHonest ==
  /\ AlertsTypeOK
  /\ \A p \in Pairs : Cardinality(Firing(p[1], p[2])) <= 1
  /\ \A i \in DOMAIN alerts :
       /\ InOrder(alerts[i].heard) /\ \A c \in Channels : InOrder(alerts[i].sent[c])
       /\ Passed(i, "firing") /\ (alerts[i].state = "resolved" => Passed(i, "resolved"))

\* Once the world and the operators rest, the open alerts are exactly what the
\* enabled rules see: a rule switched off, deleted or re-aimed, and a target
\* gone, leave nothing firing, acknowledged or not.
AlertsSettle ==
  <>[](\A r \in Rules, t \in Targets :
         Firing(r, t) # {} <=> /\ rules[r].st = "on" /\ t \in Covered(rules[r])
                              /\ world[<<r, t>>] = "held")
=============================================================================
