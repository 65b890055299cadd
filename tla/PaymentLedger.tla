----------------------------- MODULE PaymentLedger -----------------------------
(***************************************************************************)
(* What the payment domains of NimNear promise together, with no rows, no   *)
(* workers and no clock: a transfer is spent on at most one object, for     *)
(* good; an object is granted only against a transfer that was spent on it  *)
(* and has settled for it; a grant is never taken back.                     *)
(***************************************************************************)
CONSTANTS
  Transfers,    \* transaction hashes
  Objects,      \* everything a transfer can be spent on
  Unspent       \* the owner of a transfer nobody has claimed

VARIABLES
  spentOn,      \* spentOn[t]: the object transfer t was spent on, or Unspent
  settled,      \* <<t, o>>: transfer t has settled in favour of object o
  granted       \* the objects whose buyer has got what was paid for

ledgerVars == <<spentOn, settled, granted>>

Init ==
  /\ spentOn = [t \in Transfers |-> Unspent]
  /\ settled = {}
  /\ granted = {}

\* Transfers settle, and never unsettle.
MoreSettles ==
  /\ settled' \in SUBSET (Transfers \X Objects)
  /\ settled \subseteq settled'

Settle == MoreSettles /\ UNCHANGED <<spentOn, granted>>

\* An object claims a transfer nobody has claimed; it may name its payer only
\* then, and so find the transfer settled.
Spend(t, o) ==
  /\ spentOn[t] = Unspent
  /\ spentOn' = [spentOn EXCEPT ![t] = o]
  /\ MoreSettles
  /\ UNCHANGED granted

\* An object is granted against the settled transfer that was spent on it.
Grant(t, o) ==
  /\ spentOn[t] = o
  /\ <<t, o>> \in settled
  /\ granted' = granted \cup {o}
  /\ UNCHANGED <<spentOn, settled>>

Next ==
  \/ Settle
  \/ \E t \in Transfers, o \in Objects : Spend(t, o) \/ Grant(t, o)

Spec == Init /\ [][Next]_ledgerVars
===============================================================================
