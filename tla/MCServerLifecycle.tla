-------------------------- MODULE MCServerLifecycle --------------------------
(***************************************************************************)
(* An instance of ServerLifecycle for TLC.  Every combination of settings   *)
(* is tried; a server whose settings are among Busy has work to do, one     *)
(* whose settings are among Watched is probed, the others only start and    *)
(* stop.                                                                    *)
(***************************************************************************)
EXTENDS ServerLifecycle

CONSTANTS purchases, pay, define

TopicOfActor == [a \in Actors |-> IF a = define THEN "platform" ELSE "payments"]

\* Local development with payments, on either bus.
Development(kafka) ==
  [environment |-> "development", hardened |-> FALSE, authNetwork |-> "test",
   authEnvironment |-> "test", network |-> "test", merchant |-> TRUE, rpc |-> "local",
   wellFormed |-> TRUE, payable |-> TRUE, kafka |-> kafka]

Production ==
  [Development(FALSE) EXCEPT !.environment = "production", !.hardened = TRUE,
     !.authNetwork = "main", !.authEnvironment = "main", !.network = "main", !.rpc = "main"]

Busy == {Development(TRUE), Production}
Watched == {Development(FALSE)}

MCNext ==
  /\ ServerNext
  /\ settings \in Busy \/ state' = state \/ main = "workers"
  /\ (settings \in Watched /\ ~signalled) \/ UNCHANGED healthVars

MCSpec == ServerInit /\ [][MCNext]_<<serverVars, healthVars>> /\ ServerFairness
===============================================================================
