------------------------------- MODULE OkxOrders -------------------------------
(***************************************************************************)
(* okx/biz_order.go and biz_order_algo.go: what CreateOrder makes of its   *)
(* arguments, where a request about an order goes, and what an order of    *)
(* the exchange is shown as.                                               *)
(*                                                                         *)
(* An argument of CreateOrder is a record: the type and side; whether a    *)
(* price, a triggerPrice, a stopLossPrice, a takeProfitPrice and a         *)
(* callback (trail) are given; postOnly and timeInForce.  An order of the  *)
(* exchange has a space, in which its id is unique, a condition ("none",   *)
(* "cross": the price reaches the trigger from either side, "stop",        *)
(* "take", "oco", "trail"), the way it is executed, and postOnly.          *)
(***************************************************************************)
EXTENDS Naturals

Order(space, cond, exec, post, tif) ==
  [space |-> space, cond |-> cond, exec |-> exec, post |-> post, tif |-> tif]

Stops == {"stop", "stop_market"}
Legs  == {"stop_loss", "stop_loss_limit", "take_profit", "take_profit_limit",
          "take_profit_market"}
Trail == "trailing_stop_market"
Exec(limit) == IF limit THEN "limit" ELSE "market"

-------------------------------------------------------------------------------
\* CreateOrder: stopLossPrice, or else the triggerPrice
StopLoss(a) == a.sl \/ a.trigger

\* CreateOrder takes the algo endpoint for the types of isAlgoOrderType and for
\* every order with one of these prices.
IsAlgo(a) == a.type \in Stops \cup Legs \cup {Trail} \/ StopLoss(a) \/ a.tp

\* orderTypeMap, timeInForce and postOnly; the exchange wants a price for all
\* but market orders.
OrdType(a) ==
  CASE a.post \/ a.type = "limit_maker"           -> "post_only"
    [] a.type = "limit" /\ a.tif = "IOC"          -> "ioc"
    [] a.type = "limit" /\ a.tif = "FOK"          -> "fok"
    [] a.type = "limit" /\ a.tif = "PO"           -> "post_only"
    [] OTHER                                      -> a.type

Regular(a) ==
  IF OrdType(a) # "market" /\ ~a.price THEN {}
  ELSE {Order("regular", "none", Exec(OrdType(a) # "market"), OrdType(a) = "post_only",
              IF OrdType(a) \in {"ioc", "fok"} THEN a.tif ELSE "")}

\* createAlgoOrder: a stop order, and a plain one with a trigger, is "trigger";
\* the others are "conditional", or "oco" with both legs.  px and timeInForce go.
Algo(a) ==
  LET limit == a.price /\ a.type \in {"stop_loss_limit", "take_profit_limit"} IN
  CASE a.type \in Stops \cup {"limit", "market"} ->
         IF StopLoss(a) THEN {Order("algo", "cross", Exec(a.price), FALSE, "")} ELSE {}
    [] a.type = Trail ->
         IF a.trail THEN {Order("algo", "trail", "market", FALSE, "")} ELSE {}
    [] a.type \in Legs /\ StopLoss(a) /\ a.tp ->
         {Order("algo", "oco", Exec(limit), FALSE, "")}
    [] a.type \in Legs /\ StopLoss(a) /\ ~a.tp ->
         {Order("algo", "stop", Exec(a.price /\ a.type = "stop_loss_limit"), FALSE, "")}
    [] a.type \in Legs /\ ~StopLoss(a) /\ a.tp ->
         {Order("algo", "take", Exec(a.price /\ a.type = "take_profit_limit"), FALSE, "")}
    [] OTHER -> {}

Place(mkt, a) ==
  IF a.post /\ a.type = "market" THEN {} ELSE IF IsAlgo(a) THEN Algo(a) ELSE Regular(a)

\* Contracts are ordered by the contract, and counted in coins everywhere else.
SizeOf(mkt, space, coins, size)  == IF mkt = "spot" THEN coins ELSE coins \div size
ShownCoins(mkt, sz, size)        == IF mkt = "spot" THEN sz ELSE sz * size

-------------------------------------------------------------------------------
\* CancelOrder and FetchOrder read the prefix of the id, EditOrder does not:
\* the id with its prefix is none of a regular order.
SpaceOf(op, mkt, pre) ==
  IF ~pre THEN "regular" ELSE IF op = "edit" THEN "none" ELSE "algo"

Prefixed(op, o) == o.space = "algo"

\* FetchOpenOrders with algoOrder asks for three groups of types, one after
\* another, and leaves out a group whose request fails.
AlgoGroups == <<{"stop", "take", "oco"}, {"trail"}, {"cross"}>>

\* mapAlgoOrderType, mapOrderType: the type an order is shown with
ShownType(o) ==
  CASE o.cond = "none"  -> IF o.post THEN "limit_maker" ELSE o.exec
    [] o.cond = "cross" -> IF o.exec = "market" THEN "stop_market" ELSE "stop"
    [] o.cond = "stop"  -> IF o.exec = "market" THEN "stop_loss" ELSE "stop_loss_limit"
    [] o.cond = "take"  -> IF o.exec = "market" THEN "take_profit_market" ELSE "take_profit_limit"
    [] o.cond = "oco"   -> "oco"
    [] o.cond = "trail" -> Trail
===============================================================================
