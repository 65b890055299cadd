------------------------------- MODULE MCGateway -------------------------------
(***************************************************************************)
(* An instance of Gateway for TLC: an endpoint of one of two apps, on the   *)
(* orders of one of them.                                                   *)
(***************************************************************************)
EXTENDS Gateway

CONSTANTS ann, receipt

OnOrders(app, action, record) ==
  [app |-> app, route |-> "/orders", table |-> "orders", action |-> action, record |-> record]

\* The shop's own endpoints, one of them on a denied table, one of the till that
\* names the shop's order, and one that is proxied.
SixDefinitions ==
  {OnOrders("shop", "create", None), OnOrders("shop", "delete", receipt), OnOrders("till", "update", receipt),
   OnOrders("shop", "list", None), [OnOrders("shop", "create", None) EXCEPT !.table = "users"],
   [OnOrders("till", "list", None) EXCEPT !.table = Elsewhere]}

ShopOrder == [table |-> "orders", org |-> "nil", app |-> "shop", updated |-> FALSE]
OneOrder == [x \in Records |-> IF x = receipt THEN ShopOrder ELSE NoRecord]

\* A request a minute, of those who may read.
OneRule == {[permission |-> "read", limit |-> 1]}

Patterns == [g \in Permissions |-> IF g = "*" THEN Permissions ELSE {g}]
RoleRows == [role \in Roles |-> IF role = "owner" THEN {"*"} ELSE {"read"}]
OneOrg == [v \in Users |-> "nil"]
Owner == {<<ann, "owner">>}
===============================================================================
