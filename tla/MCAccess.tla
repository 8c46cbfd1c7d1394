------------------------------ MODULE MCAccess ------------------------------
(***************************************************************************)
(* TLC's instances of ProjectLease, Access, Shares, ProxyHealth and        *)
(* CliConfig.  They share no state, so one run checks them side by side:   *)
(* every behaviour is one of the component that running names, and leaves  *)
(* the others as they began.                                               *)
(***************************************************************************)
EXTENDS ProjectLease, Access, Shares, ProxyHealth, CliConfig, TLC

CONSTANT FileB  \* another token file than the default one

VARIABLE running

GrantsOfTokens == {{"mail:read", "accounts:read"}, {"*"}}

\* What is given on the command line and by the environment.
OneOption ==
  {Nothing, [Nothing EXCEPT !.token_file = FileB], [Nothing EXCEPT !.ca_bundle = Bundle]}
OneEnv == {Nothing, [Nothing EXCEPT !.token_file = FileB]}

allVars == <<running, vars, accessVars, shareVars, proxyVars, configVars>>

AllInit ==
  /\ running \in {"leases", "access", "shares", "proxies", "config"}
  /\ Init
  /\ AccessInit
  /\ running # "access" => setup = [environment |-> "production", configured |-> TRUE]
  /\ ShareInit
  /\ ProxyInit
  /\ ConfigInit
  /\ running # "config" => file = None /\ present /\ \A p \in TokenFiles : secret[p] = None

AllNext ==
  \/ /\ running = "leases" /\ Next
     /\ UNCHANGED <<running, accessVars, shareVars, proxyVars, configVars>>
  \/ /\ running = "access" /\ AccessNext
     /\ UNCHANGED <<running, vars, shareVars, proxyVars, configVars>>
  \/ /\ running = "shares" /\ ShareNext
     /\ UNCHANGED <<running, vars, accessVars, proxyVars, configVars>>
  \/ /\ running = "proxies" /\ ProxyNext
     /\ UNCHANGED <<running, vars, accessVars, shareVars, configVars>>
  \/ /\ running = "config" /\ ConfigNext
     /\ UNCHANGED <<running, vars, accessVars, shareVars, proxyVars>>

AllSpec == AllInit /\ [][AllNext]_allVars

Symmetry == Permutations(Requests) \cup Permutations(Rows)

-----------------------------------------------------------------------------
\* The type invariants of the components.
AllTypeOK == TypeOK /\ AccessTypeOK /\ ShareTypeOK /\ ProxyTypeOK /\ ConfigTypeOK
=============================================================================
