----------------------------- MODULE HealthProbes -----------------------------
(***************************************************************************)
(* The probes /health/ready and /health/payments: PostgreSQL and Redis are  *)
(* pinged by every request, the Nimiq RPC is asked at most once per TTL and *)
(* its verdict repeated in between.                                         *)
(*                                                                         *)
(* The lock of the cache covers the look at it and the write to it, not the *)
(* call in between, so several requests may ask at once.  Time passes only  *)
(* while somebody waits for the RPC or nobody does anything.                *)
(***************************************************************************)
EXTENDS Naturals

CONSTANTS
  Probes,    \* requests of the health endpoints that may run at once
  TTL,       \* how long a verdict is repeated (20 s)
  Timeout    \* how long a probe waits for the RPC (3 s)

ASSUME HealthAssumption == TTL \in Nat \ {0} /\ Timeout \in Nat \ {0}

VARIABLES
  cache,   \* Health: the last verdict, its age, and how long ago the RPC spoke
  probe    \* probe[p]: what a request of a health endpoint is doing

healthVars == <<cache, probe>>

Oldest == TTL + Timeout

Endpoints == {"ready", "payments"}
Steps == {"none", "checking", "asking", "answered"}
Statuses == {"", "ready", "not_ready", "not_configured"}

NoProbe == [step |-> "none", endpoint |-> "ready", core |-> FALSE, spoken |-> FALSE,
            waited |-> 0, since |-> 0, status |-> ""]

Verdicts == [verdict : {"none", "healthy", "unhealthy"}, age : 0..TTL, since : 0..Oldest]
Requested ==
  [step : Steps, endpoint : Endpoints, core : BOOLEAN, spoken : BOOLEAN,
   waited : 0..Timeout, since : 0..Oldest, status : Statuses]

HealthTypeOK == cache \in Verdicts /\ probe \in [Probes -> Requested]

-------------------------------------------------------------------------------
\* Readiness looks at PostgreSQL and Redis only; Payments also at the RPC.
StatusOf(endpoint, core, enabled, healthy) ==
  CASE ~core -> "not_ready"
    [] core /\ endpoint = "ready" -> "ready"
    [] core /\ endpoint = "payments" /\ enabled /\ ~healthy -> "not_ready"
    [] core /\ endpoint = "payments" /\ enabled /\ healthy -> "ready"
    [] OTHER -> "not_configured"

\* The answer of a probe that has learned whether the RPC is healthy, the
\* latest word of the RPC being `since' old.
Answered(p, enabled, healthy, since) ==
  [probe EXCEPT ![p] = [@ EXCEPT !.step = "answered", !.since = since,
                          !.status = StatusOf(probe[p].endpoint, probe[p].core, enabled, healthy)]]

\* A request arrives and pings what the server is connected to.  Without
\* payments, or without the client that the RPC is asked with, it is not asked.
Arrive(p, endpoint, core, enabled, client) ==
  /\ probe[p].step \in {"none", "answered"}
  /\ probe' = [probe EXCEPT ![p] =
       [NoProbe EXCEPT !.endpoint = endpoint, !.core = core,
          !.step = IF enabled /\ client THEN "checking" ELSE "answered",
          !.status = IF enabled /\ client THEN "" ELSE StatusOf(endpoint, core, enabled, FALSE)]]
  /\ UNCHANGED cache

MutantFresh == cache.verdict # "none" /\ cache.age <= TTL
Fresh == cache.verdict # "none" /\ cache.age < TTL

\* Check repeats a fresh verdict, whatever it is.
UseCache(p) ==
  /\ probe[p].step = "checking"
  /\ Fresh
  /\ probe' = Answered(p, TRUE, cache.verdict = "healthy", cache.since)
  /\ UNCHANGED cache

Ask(p) ==
  /\ probe[p].step = "checking"
  /\ ~Fresh
  /\ probe' = [probe EXCEPT ![p].step = "asking"]
  /\ UNCHANGED cache

\* The node answers getBatchNumber; the answer is on its way.
RPCSpeaks(p) ==
  /\ probe[p].step = "asking" /\ ~probe[p].spoken
  /\ probe' = [probe EXCEPT ![p] = [@ EXCEPT !.spoken = TRUE, !.since = 0]]
  /\ UNCHANGED cache

\* The call returns and its outcome is stored: the answer, or an error - the
\* node refuses, the time is up, or the client of this request has gone, for
\* the call runs under its context.
Return(p, healthy) ==
  /\ probe[p].step = "asking"
  /\ healthy => probe[p].spoken
  /\ cache' = [verdict |-> IF healthy THEN "healthy" ELSE "unhealthy", age |-> 0,
               since |-> IF healthy THEN probe[p].since ELSE 0]
  /\ probe' = Answered(p, TRUE, healthy, probe[p].since)

Older(n, limit) == IF n < limit THEN n + 1 ELSE n

\* Nobody waits longer than the timeout.
TimePasses ==
  /\ \A p \in Probes : probe[p].step = "asking" => probe[p].waited < Timeout
  /\ cache' = [cache EXCEPT !.age = Older(@, TTL), !.since = Older(@, Oldest)]
  /\ probe' = [p \in Probes |->
       IF probe[p].step = "asking"
       THEN [probe[p] EXCEPT !.waited = @ + 1, !.since = IF probe[p].spoken THEN @ + 1 ELSE @]
       ELSE probe[p]]

HealthInit ==
  /\ cache = [verdict |-> "none", age |-> 0, since |-> 0]
  /\ probe = [p \in Probes |-> NoProbe]

Probe(p) ==
  \/ UseCache(p) \/ Ask(p) \/ RPCSpeaks(p)
  \/ \E healthy \in BOOLEAN : Return(p, healthy)

-------------------------------------------------------------------------------
\* Payments are reported ready only if the RPC has spoken within the time to
\* live and the timeout, though verdicts are shared by requests, come late, and
\* may overwrite one another in another order than that of their calls.
ReadyMeansReachable ==
  \A p \in Probes :
    probe[p].endpoint = "payments" /\ probe[p].status = "ready"
      => probe[p].core /\ probe[p].since < Oldest
===============================================================================
