------------------------------- MODULE SignIn -------------------------------
(***************************************************************************)
(* Signing in to one account (api/auth.py, services/authn.py, totp.py and  *)
(* oidc.py): codes good for once, the devices no code is asked on,         *)
(* recovery, and the round trip to an identity provider.  Requests run in  *)
(* threads and overlap between what they read and what they write; a       *)
(* provider's callback lets others in at each await.                       *)
(***************************************************************************)
EXTENDS Naturals, FiniteSets

CONSTANTS Visitors,       \* requests that may be under way at once
          Flows,          \* round trips to the provider, each with its state
          Attempts,       \* PENDING_MAX_ATTEMPTS
          MaxClock,       \* time steps of thirty seconds
          MaxActs         \* requests, expiries, rotations of the provider's key
ASSUME SignInAssumption == {Attempts, MaxClock} \subseteq Nat \ {0} /\ MaxActs \in Nat

VARIABLES
  secret,    \* the enrolment: 0 for none
  enabled, lastStep,            \* totp_enabled, totp_last_step
  codes,     \* recovery codes not used, each of the batch it was made in
  batch,     \* batches made
  pending,   \* the pending entry: wrong answers so far, NoPending without one
  devices,   \* trusted devices not revoked
  visit,     \* the requests
  accepted,  \* how often each code was taken
  clock,
  states, flow, idpKey, cached, \* open round trips; the provider's key and ours
  acts
factorVars == <<secret, enabled, lastStep, codes, batch, pending, devices, visit, accepted, clock>>
oidcVars == <<states, flow, idpKey, cached>>
signInVars == <<factorVars, oidcVars, acts>>

Batches == 0..(MaxActs + 1)
Steps30 == 0..(MaxClock + 1)
Code == ({"step"} \X Steps30) \cup ({"recovery"} \X Batches)
Purposes == {"login", "disable", "regenerate", "recover"}
NoPending == Attempts
NoVisit == [pc |-> "idle", why |-> "login", code |-> <<"step", 0>>, secret |-> 0,
            ok |-> FALSE, count |-> 0, late |-> FALSE]
NoFlow == [pc |-> "none", key |-> 0, moved |-> FALSE, ins |-> 0]
SignInTypeOK ==
  /\ secret \in Batches /\ enabled \in BOOLEAN /\ lastStep \in Steps30
  /\ codes \subseteq Code /\ batch \in Batches /\ clock \in 0..MaxClock
  /\ pending \in 0..Attempts
  /\ devices \subseteq [secret : Batches, late : BOOLEAN]
  /\ visit \in [Visitors -> [pc : {"idle", "burn", "act", "remember", "forget"}, why : Purposes,
                             code : Code, secret : Batches, ok : BOOLEAN,
                             count : 0..Attempts, late : BOOLEAN]]
  /\ accepted \in [Code -> Nat] /\ states \subseteq Flows
  /\ flow \in [Flows -> [pc : {"none", "away", "exchange", "verify", "refetch", "in", "refused"},
                         key : Nat, moved : BOOLEAN, ins : Nat]]
  /\ idpKey \in Nat \ {0} /\ cached \in 0..idpKey /\ acts \in 0..MaxActs

SignInInit ==
  /\ enabled \in BOOLEAN /\ batch = (IF enabled THEN 1 ELSE 0) /\ secret = batch
  /\ codes = {<<"recovery", n>> : n \in 1..batch}
  /\ lastStep = 0 /\ pending = NoPending /\ devices = {} /\ clock = 1
  /\ visit = [v \in Visitors |-> NoVisit] /\ accepted = [c \in Code |-> 0]
  /\ states = {} /\ flow = [f \in Flows |-> NoFlow] /\ idpKey = 1 /\ cached = 0 /\ acts = 0

Act == acts < MaxActs /\ acts' = acts + 1
NoAct == UNCHANGED acts
Leave(v) == visit' = [visit EXCEPT ![v] = NoVisit]
Fresh == /\ batch' = batch + 1 /\ codes' = {<<"recovery", batch'>>}

-----------------------------------------------------------------------------
(* Codes.                                                                  *)

Tick == /\ clock < MaxClock /\ clock' = clock + 1
        /\ UNCHANGED <<secret, enabled, lastStep, codes, batch, pending, devices, visit, accepted>>

\* A right password: in at once on a trusted device or without a second factor,
\* a pending token otherwise.
PasswordRight ==
  /\ Act /\ enabled /\ pending' = 0
  /\ UNCHANGED <<secret, enabled, lastStep, codes, batch, devices, visit, accepted, clock>>
PendingExpires ==
  /\ Act /\ pending # NoPending /\ pending' = NoPending
  /\ UNCHANGED <<secret, enabled, lastStep, codes, batch, devices, visit, accepted, clock>>

Enroll ==
  /\ Act /\ ~enabled /\ Fresh /\ secret' = batch'
  /\ UNCHANGED <<enabled, lastStep, pending, devices, visit, accepted, clock>>
Confirm ==
  /\ Act /\ secret # 0 /\ ~enabled /\ enabled' = TRUE
  /\ UNCHANGED <<secret, lastStep, codes, batch, pending, devices, visit, accepted, clock>>

\* verify_login_kind as far as its reads: the step within the window and past
\* the watermark, or a recovery code not used.
Matches(code) ==
  enabled /\ IF code[1] = "step"
             THEN code[2] + 1 >= clock /\ code[2] <= clock + 1 /\ code[2] > lastStep
             ELSE code \in codes
Present(v, why, code) ==
  /\ Act /\ visit[v].pc = "idle"
  /\ why = "login" => pending # NoPending
  /\ why \in {"disable", "regenerate"} => enabled
  /\ visit' = [visit EXCEPT ![v] = [NoVisit EXCEPT
       !.why = why, !.code = code, !.secret = secret,
       !.count = IF why = "login" THEN pending ELSE 0,
       !.pc = IF Matches(code) THEN "burn" ELSE "act"]]
  /\ UNCHANGED <<secret, enabled, lastStep, codes, batch, pending, devices, accepted, clock>>

\* The conditional UPDATE: of two requests that matched one code, one takes it.
BugUnused(code) == TRUE
Unused(code) == IF code[1] = "step" THEN lastStep < code[2] ELSE code \in codes
Burn(v) ==
  LET c == visit[v].code IN
  /\ visit[v].pc = "burn" /\ NoAct
  /\ visit' = [visit EXCEPT ![v].pc = "act", ![v].ok = Unused(c)]
  /\ accepted' = [accepted EXCEPT ![c] = @ + (IF Unused(c) THEN 1 ELSE 0)]
  /\ lastStep' = IF Unused(c) /\ c[1] = "step" THEN c[2] ELSE lastStep
  /\ codes' = codes \ {c}
  /\ UNCHANGED <<secret, enabled, batch, pending, devices, clock>>

\* revoke_trusted_devices.  A login past its code that has not trusted its
\* device yet is late.
Forgetting(v) ==
  /\ devices' = {}
  /\ visit' = [w \in Visitors |-> IF w = v THEN NoVisit
                 ELSE [visit[w] EXCEPT !.late = visit[w].pc # "idle"]]

\* totp_login: the entry goes with a good code, or after so many that are not.
LogIn(v) ==
  LET w == visit[v] IN
  /\ w.why = "login" /\ UNCHANGED <<secret, enabled, codes, batch>>
  /\ pending' = IF w.ok \/ w.count + 1 >= Attempts THEN NoPending ELSE w.count + 1
  /\ \/ ~(w.ok /\ w.code[1] = "recovery") /\ Leave(v) /\ UNCHANGED devices
     \/ w.ok /\ w.code[1] = "recovery" /\ Forgetting(v)
     \/ w.ok /\ w.code[1] = "step" /\ visit' = [visit EXCEPT ![v].pc = "remember"] /\ UNCHANGED devices
\* recover_with_code: a recovery code and nothing else; a new password the rules
\* refuse comes too late for the code.
Recover(v) ==
  /\ visit[v].why = "recover" /\ UNCHANGED <<secret, enabled, codes, batch, pending>>
  /\ \/ Leave(v) /\ UNCHANGED devices
     \/ visit[v].ok /\ visit[v].code[1] = "recovery" /\ Forgetting(v)
\* totp_disable and totp_regenerate_recovery_codes, by password or, for an
\* account without one, by code.
Change(v) ==
  LET w == visit[v] IN
  /\ w.why \in {"disable", "regenerate"} /\ UNCHANGED <<pending, devices>>
  /\ \/ ~w.ok /\ Leave(v) /\ UNCHANGED <<secret, enabled, codes, batch>>
     \/ /\ w.why = "disable" /\ secret' = 0 /\ enabled' = FALSE /\ codes' = {}
        /\ visit' = [visit EXCEPT ![v].pc = "forget"] /\ UNCHANGED batch
     \/ /\ w.why = "regenerate" /\ Leave(v) /\ UNCHANGED <<secret, enabled>>
        /\ IF enabled THEN Fresh ELSE UNCHANGED <<codes, batch>>
Answer(v) ==
  /\ visit[v].pc = "act" /\ NoAct
  /\ LogIn(v) \/ Recover(v) \/ Change(v)
  /\ UNCHANGED <<lastStep, accepted, clock>>
Remember(v) ==
  /\ visit[v].pc = "remember" /\ NoAct /\ Leave(v)
  /\ devices' = devices \cup {[secret |-> visit[v].secret, late |-> visit[v].late]}
  /\ UNCHANGED <<secret, enabled, lastStep, codes, batch, pending, accepted, clock>>
Forget(v) ==
  /\ visit[v].pc = "forget" /\ NoAct /\ Forgetting(v)
  /\ UNCHANGED <<secret, enabled, lastStep, codes, batch, pending, accepted, clock>>

-----------------------------------------------------------------------------
(* The provider.                                                           *)

At(f, from, to) == flow[f].pc = from /\ flow' = [flow EXCEPT ![f] = to]
Rotate == /\ Act /\ idpKey' = idpKey + 1 /\ UNCHANGED <<states, cached>>
          /\ flow' = [f \in Flows |-> [flow[f] EXCEPT !.moved = @ \/ flow[f].key # 0]]
Begin(f) == /\ NoAct /\ At(f, "none", [NoFlow EXCEPT !.pc = "away"])
            /\ states' = states \cup {f} /\ UNCHANGED <<idpKey, cached>>
\* The browser may come back with one state more than once.
Taken(f) == states \ {f}
Callback(f) ==
  /\ Act /\ flow[f].pc # "none" /\ UNCHANGED <<idpKey, cached>>
  /\ states' = Taken(f)
  /\ flow' = IF f \in states THEN [flow EXCEPT ![f].pc = "exchange"]
             ELSE IF flow[f].pc = "away" THEN [flow EXCEPT ![f].pc = "refused"] ELSE flow
\* The token endpoint signs with its key of that moment, or fails.
Exchange(f) ==
  /\ UNCHANGED <<states, idpKey, cached>>
  /\ \/ NoAct /\ At(f, "exchange", [flow[f] EXCEPT !.pc = "verify", !.key = idpKey, !.moved = FALSE])
     \/ Act /\ At(f, "exchange", [flow[f] EXCEPT !.pc = "refused"])
\* _verify_id_token: a key it does not know has it fetch the keys once more.
Verdict(f, ok, else) ==
  flow' = [flow EXCEPT ![f].pc = IF ok THEN "in" ELSE else, ![f].ins = IF ok THEN @ + 1 ELSE @]
Verify(f) ==
  /\ NoAct /\ flow[f].pc = "verify" /\ UNCHANGED <<states, idpKey>>
  /\ cached' = IF cached = 0 THEN idpKey ELSE cached
  /\ Verdict(f, cached' = flow[f].key, "refetch")
VerifyAgain(f) ==
  /\ NoAct /\ flow[f].pc = "refetch" /\ UNCHANGED <<states, idpKey>>
  /\ cached' = idpKey /\ Verdict(f, idpKey = flow[f].key, "refused")

-----------------------------------------------------------------------------
FactorSteps(v) == Burn(v) \/ Answer(v) \/ Remember(v) \/ Forget(v)
FactorNext ==
  \/ Tick /\ NoAct
  \/ PasswordRight \/ PendingExpires \/ Enroll \/ Confirm
  \/ \E v \in Visitors : FactorSteps(v)
  \/ \E v \in Visitors, why \in Purposes, c \in Code : Present(v, why, c)
OidcNext ==
  \/ Rotate
  \/ \E f \in Flows : Begin(f) \/ Callback(f) \/ Exchange(f) \/ Verify(f) \/ VerifyAgain(f)
SignInNext == (FactorNext /\ UNCHANGED oidcVars) \/ (OidcNext /\ UNCHANGED factorVars)
SignInSpec == SignInInit /\ [][SignInNext]_signInVars

-----------------------------------------------------------------------------
(* Properties.                                                             *)

\* "Both are single use": however requests overlap, no code is taken twice, also
\* across disabling and enrolling again; and a state signs in once.
OnlyOnce == /\ \A c \in Code : accepted[c] <= 1
            /\ \A f \in Flows : flow[f].ins <= 1

\* "A trusted device that survives any of those is a bypass the user believes
\* they have closed": trust ends with the enrolment it was earned under, save for
\* a login that had its code taken and its device not trusted yet.
TrustEnds == \A d \in devices : \/ enabled /\ d.secret = secret
                                \/ d.late
                                \/ \E v \in Visitors : visit[v].pc = "forget"

\* A token is refused for its key only if the provider changed it again since.
KeysFollow == \A f \in Flows : flow[f].pc = "refused" /\ flow[f].key # 0 => flow[f].moved

\* What signs in, a code, a state, a trusted device or a token, does so once, for
\* as long as it was meant to and not for a reason that has passed.
SignInSound == SignInTypeOK /\ OnlyOnce /\ TrustEnds /\ KeysFollow
=============================================================================
