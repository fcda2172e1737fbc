------------------------------ MODULE MCAccess ------------------------------
(***************************************************************************)
(* Accounts, sign-in, hosts, consoles and the licence, checked side by     *)
(* side: no variable of one module is read by another, so a behaviour is   *)
(* one of them running while the others rest in one initial state.         *)
(* Requests of every kind are q1 and q2, which are interchangeable, and so *)
(* are m1 and m2: nodes, round trips to a provider, or refresh loops.      *)
(***************************************************************************)
EXTENDS Accounts, SignIn, Hosts, Consoles, Licensing, TLC

CONSTANTS q1, q2, m1, m2

VARIABLE part   \* which of them runs
accessVars == <<part, accountVars, signInVars, hostsVars, consolesVars, licenceVars>>

AccessInit ==
  /\ part \in {"accounts", "codes", "provider", "hosts", "consoles", "licence"}
  /\ AccountsInit
  /\ part # "accounts" => \A u \in People : acct[u].st = "none"
  /\ SignInInit
  /\ part # "codes" => ~enabled
  /\ HostsInit
  /\ part # "hosts" => Enrolled = {}
  /\ ConsolesInit
  /\ LicensingInit
  /\ part # "licence" => seat = "free"

AccessNext ==
  /\ UNCHANGED part
  /\ \/ /\ part = "accounts" /\ AccountsNext
        /\ UNCHANGED <<signInVars, hostsVars, consolesVars, licenceVars>>
     \/ /\ part = "codes" /\ FactorNext
        /\ UNCHANGED <<oidcVars, accountVars, hostsVars, consolesVars, licenceVars>>
     \/ /\ part = "provider" /\ OidcNext
        /\ UNCHANGED <<factorVars, accountVars, hostsVars, consolesVars, licenceVars>>
     \/ /\ part = "hosts" /\ HostsNext
        /\ UNCHANGED <<accountVars, signInVars, consolesVars, licenceVars>>
     \/ /\ part = "consoles" /\ ConsolesNext
        /\ UNCHANGED <<accountVars, signInVars, hostsVars, licenceVars>>
     \/ /\ part = "licence" /\ LicensingNext
        /\ UNCHANGED <<accountVars, signInVars, hostsVars, consolesVars>>

AccessSpec == AccessInit /\ [][AccessNext]_accessVars

Sym == Permutations({q1, q2}) \cup Permutations({m1, m2})
=============================================================================
