---------------------------- MODULE ServerSettings ----------------------------
(***************************************************************************)
(* The settings a server is started with, as far as one of them constrains  *)
(* another, and what Config.Validate demands of them before anything is     *)
(* opened.                                                                  *)
(***************************************************************************)

Networks == {"test", "main"}

\* What the URL of the RPC node says of its network: classifyNimiqRPCURL, with
\* hosts of the machine itself told apart ("local"); "" when it is not set.
RPCKinds == {"", "local", "test", "main", "ambiguous", "unknown"}

(***************************************************************************)
(* Four switches stand for the checks that look at one setting each.        *)
(* hardened: secrets, stores, TLS, origins, cookies and switches are set as *)
(* production demands; wellFormed: those of the sign-in and the trusted     *)
(* proxies are in range; payable: so are durations, limits, URL and         *)
(* merchant address of the payments; merchant: the address is set.          *)
(***************************************************************************)
Settings ==
  [environment : {"development", "test", "production"}, hardened : BOOLEAN,
   authNetwork : Networks, authEnvironment : Networks, wellFormed : BOOLEAN,
   network : Networks \cup {""}, merchant : BOOLEAN, rpc : RPCKinds, payable : BOOLEAN,
   kafka : BOOLEAN]

InProduction(s) == s.environment = "production"

\* validateProduction...: what only production demands.
Hardened(s) == InProduction(s) => s.hardened

\* PaymentConfig.Enabled
PaymentsEnabled(s) == s.network # "" /\ s.merchant /\ s.rpc # ""

\* PaymentConfig.Validate: all three or none.
PaymentsComplete(s) ==
  \/ s.network = "" /\ ~s.merchant /\ s.rpc = ""
  \/ PaymentsEnabled(s) /\ s.payable

\* PaymentConfig.ValidateForEnvironment
PaymentsFit(s) ==
  InProduction(s) /\ PaymentsEnabled(s) => s.network = "main" /\ s.rpc \in {"main", "unknown"}

\* NimiqAuthConfig.Validate
SignInFits(s) ==
  /\ s.wellFormed
  /\ s.authEnvironment = s.authNetwork
  /\ InProduction(s) => s.authNetwork = "main"

\* validateAuthPaymentNetworkConsistency
MutantConsistent(s) == TRUE
NetworksConsistent(s) == PaymentsEnabled(s) => s.authNetwork = s.network

\* Config.Validate
Valid(s) ==
  /\ Hardened(s)
  /\ SignInFits(s)
  /\ PaymentsComplete(s) /\ PaymentsFit(s)
  /\ NetworksConsistent(s)

\* The network on which payment requests are made: the payments', or that of
\* the sign-in as long as payments are not configured.
RequestNetwork(s) == IF s.network = "" THEN s.authNetwork ELSE s.network
===============================================================================
