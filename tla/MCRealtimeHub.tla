----------------------------- MODULE MCRealtimeHub -----------------------------
(***************************************************************************)
(* Instances of RealtimeHub for TLC: two servers, of which the first has    *)
(* the connections: one of a, and one of b with an app context.             *)
(***************************************************************************)
EXTENDS RealtimeHub, TLC

CONSTANTS s1, s2, a, b, t, a1, b1

Homes    == a1 :> s1 @@ b1 :> s1
Owners   == a1 :> a @@ b1 :> b
Contexts == a1 :> None @@ b1 :> t

\* The creator and the payer of a request, here the same user.
Parties == {<<b, b>>}
===============================================================================
