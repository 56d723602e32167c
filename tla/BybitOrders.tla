------------------------------ MODULE BybitOrders ------------------------------
(***************************************************************************)
(* bybit/biz_order.go: what CreateOrder makes of its arguments, where a    *)
(* request about an order goes, and what an order of the exchange is shown *)
(* as.  Arguments and orders are those of OkxOrders; the callback is       *)
(* trailingDelta.                                                          *)
(***************************************************************************)
EXTENDS Naturals

Order(space, cond, exec, post, tif) ==
  [space |-> space, cond |-> cond, exec |-> exec, post |-> post, tif |-> tif]

Takes == {"take_profit", "take_profit_limit", "take_profit_market"}
Stops == {"stop", "stop_market", "stop_loss", "stop_loss_limit"} \cup Takes
Trail == "trailing_stop_market"

\* bybitOrderTypeFrom
ExecOf(a) ==
  CASE a.type \in {"market", "stop_market", "take_profit_market", Trail}          -> "market"
    [] a.type \in {"limit", "limit_maker", "stop", "stop_loss_limit",
                   "take_profit_limit"}                                         -> "limit"
    [] OTHER                                            -> IF a.price THEN "limit" ELSE "market"

\* isBybitStopOrderType: the trigger of a stop order may come as a stopLossPrice
\* or takeProfitPrice; in other orders these two are attached to the position.
HasTrigger(a) == a.trigger \/ (a.type \in Stops /\ (a.sl \/ a.tp))

\* Fault: the direction of a take profit is that of a stop.
DirectionOfStop(a) == IF a.side = "buy" THEN "rise" ELSE "fall"

\* triggerDirection: on which move of the price a contract's order fires
Direction(a) ==
  IF a.type \in Takes
    THEN IF a.side = "buy" THEN "fall" ELSE "rise"
    ELSE IF a.side = "buy" THEN "rise" ELSE "fall"

\* A buy order that fires on a rise is a stop, on a fall a take profit.  Spot
\* has no direction.
CondOf(mkt, a) ==
  CASE ~HasTrigger(a)                        -> "none"
    [] HasTrigger(a) /\ mkt = "spot"         -> "cross"
    [] OTHER -> IF (Direction(a) = "rise") = (a.side = "buy") THEN "stop" ELSE "take"

\* The exchange refuses a StopOrder of spot without a trigger.  That of a
\* contract goes out as a plain order.
Refused(mkt, a) ==
  \/ ExecOf(a) = "limit" /\ ~a.price
  \/ a.post /\ ExecOf(a) = "market"
  \/ mkt = "spot" /\ a.type \in Stops /\ ~HasTrigger(a)

Post(a) == a.post \/ a.type = "limit_maker" \/ a.tif = "PO"

\* createBybitTradingStop sets the trailing stop of the position: no order comes
\* of it, and the one it returns has no id.
Place(mkt, a) ==
  CASE a.type = Trail \/ a.trail ->
         IF a.type = Trail /\ a.trail /\ mkt # "spot"
           THEN {Order("position", "trail", "market", FALSE, "")} ELSE {}
    [] a.type # Trail /\ ~a.trail ->
         IF Refused(mkt, a) THEN {}
         ELSE {Order("regular", CondOf(mkt, a), ExecOf(a), Post(a),
                     IF a.tif \in {"IOC", "FOK"} /\ ~Post(a) THEN a.tif ELSE "")}

-------------------------------------------------------------------------------
\* setBybitOrderID: all orders have one id space, by category and symbol.
SpaceOf(op, mkt, pre) == "regular"
Prefixed(op, o) == FALSE

\* FetchOrder asks for the open orders, then for the history.  (The exchange may
\* show in the first one that has just ended.)
Lookups == <<"realtime", "history">>

Shows(where, status) ==
  CASE where = "realtime" -> IF status = "open" THEN {TRUE} ELSE {TRUE, FALSE}
    [] where = "history"  -> {status # "open"}

\* parseBybitOrderType; the stopOrderType of what has a trigger is "Stop"
ShownType(o) ==
  CASE o.cond = "none"    -> o.exec
    [] o.cond = "trail"   -> Trail
    [] OTHER              -> IF o.exec = "market" THEN "stop_market" ELSE "stop"
===============================================================================
