--------------------------- MODULE MCPaymentRequests ---------------------------
(***************************************************************************)
(* The instance of PaymentRequests TLC checks: the creator, one payer and   *)
(* the transfer the payer signed, which two requests compete for.          *)
(***************************************************************************)
EXTENDS PaymentRequests, TLC

CONSTANTS c, u, h1, w, v

\* h1 was signed by the payer.
OneTransfer == h1 :> u
===============================================================================
