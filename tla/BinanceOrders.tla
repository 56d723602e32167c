----------------------------- MODULE BinanceOrders -----------------------------
(***************************************************************************)
(* binance/biz_order_create.go, biz_order_algo.go and biz_order.go: what   *)
(* CreateOrder makes of its arguments, where a request about an order      *)
(* goes, and what an order of the exchange is shown as.  Arguments and     *)
(* orders are those of OkxOrders; the callback is callbackRate.            *)
(***************************************************************************)
EXTENDS Naturals

Order(space, cond, exec, post, tif) ==
  [space |-> space, cond |-> cond, exec |-> exec, post |-> post, tif |-> tif]

\* the types of the exchange, in market.Info["orderTypes"]
Types(mkt) ==
  IF mkt = "spot"
    THEN {"limit", "limit_maker", "market", "stop_loss", "stop_loss_limit", "take_profit",
          "take_profit_limit"}
    ELSE {"limit", "market", "stop", "stop_market", "take_profit", "take_profit_market",
          "trailing_stop_market"}

WantsPost(a) == a.post \/ a.tif = "PO" \/ a.type = "limit_maker"
StopLoss(a)  == a.sl \/ a.trigger

-------------------------------------------------------------------------------
\* Maker orders are a type of spot; a contract has the timeInForce GTX for them,
\* which only the type limit_maker is given: postOnly alone is dropped.
BaseType(mkt, a) ==
  CASE mkt = "spot" /\ WantsPost(a)             -> "limit_maker"
    [] mkt # "spot" /\ a.type = "limit_maker"   -> "limit"
    [] OTHER                                    -> a.type

\* A price that triggers makes a conditional order of a plain one.
TypeOf(mkt, a) ==
  LET t == BaseType(mkt, a)  spot == mkt = "spot" IN
  CASE StopLoss(a) /\ t = "market"           -> IF spot THEN "stop_loss" ELSE "stop_market"
    [] StopLoss(a) /\ t = "limit"            -> IF spot THEN "stop_loss_limit" ELSE "stop"
    [] ~StopLoss(a) /\ a.tp /\ t = "market"  -> IF spot THEN "take_profit" ELSE "take_profit_market"
    [] ~StopLoss(a) /\ a.tp /\ t = "limit"   -> IF spot THEN "take_profit_limit" ELSE "take_profit"
    [] OTHER                                 -> t

NeedsPrice(mkt, t) ==
  \/ t \in {"limit", "limit_maker", "stop", "stop_loss_limit", "take_profit_limit"}
  \/ mkt # "spot" /\ t \in {"stop_loss", "take_profit"}

NeedsStop(t) == t \in {"stop", "stop_market", "stop_loss", "stop_loss_limit", "take_profit",
                       "take_profit_limit", "take_profit_market"}

CondOf(t) ==
  CASE t \in {"stop", "stop_market", "stop_loss", "stop_loss_limit"}            -> "stop"
    [] t \in {"take_profit", "take_profit_limit", "take_profit_market"}         -> "take"
    [] t = "trailing_stop_market"                                               -> "trail"
    [] OTHER                                                                    -> "none"

\* createAlgoOrder serves the conditional orders of linear contracts.
IsAlgo(mkt, t) == mkt = "linear" /\ CondOf(t) # "none"

\* A limit order of a contract with timeInForce PO goes out with none, and the
\* exchange wants one; a limit_maker has GTX.
Refused(mkt, a) ==
  LET t == TypeOf(mkt, a) IN
  \/ WantsPost(a) /\ (a.tif \in {"IOC", "FOK"} \/ a.type = "market")
  \/ t \notin Types(mkt)
  \/ NeedsPrice(mkt, t) /\ ~a.price
  \/ NeedsStop(t) /\ ~StopLoss(a) /\ ~a.tp
  \/ t = "trailing_stop_market" /\ ~a.trail
  \/ mkt # "spot" /\ t = "limit" /\ a.type = "limit" /\ a.tif = "PO"

Place(mkt, a) ==
  LET t == TypeOf(mkt, a)
      post == t = "limit_maker" \/ (mkt # "spot" /\ t = "limit" /\ a.type = "limit_maker")
  IN  IF Refused(mkt, a) THEN {}
      ELSE {Order(IF IsAlgo(mkt, t) THEN "algo" ELSE "regular", CondOf(t),
                  IF NeedsPrice(mkt, t) THEN "limit" ELSE "market", post,
                  IF a.tif \in {"IOC", "FOK"} THEN a.tif ELSE "")}

\* newClientOrderId is made once, before the requests: UUID where none is given.
HasClientId(given) == TRUE

-------------------------------------------------------------------------------
\* Fault: the prefix is cut off, and the order sought among the regular ones.
SpaceOfAny(op, mkt, pre) == "regular"

\* CancelOrder and FetchOrder read the prefix for linear contracts.  EditOrder
\* knows contracts only, and sends the id with its prefix.
SpaceOf(op, mkt, pre) ==
  CASE op = "edit" /\ mkt = "spot"               -> "none"
    [] pre /\ (op = "edit" \/ mkt # "linear")    -> "none"
    [] pre /\ op # "edit" /\ mkt = "linear"      -> "algo"
    [] OTHER                                     -> "regular"

\* AlgoOrder.ToStdOrder puts the prefix before the id, cancelAlgoOrder does not.
Prefixed(op, o) == o.space = "algo" /\ op # "cancel"

\* ToStdOrder: the type of the exchange; a maker order of spot is a limit order
\* with postOnly, one of a contract has the timeInForce PO.
ShownType(mkt, o) ==
  CASE o.cond = "none"                                 -> o.exec
    [] o.cond = "stop" /\ mkt = "spot"                 ->
         IF o.exec = "limit" THEN "stop_loss_limit" ELSE "stop_loss"
    [] o.cond = "stop" /\ mkt # "spot"                 ->
         IF o.exec = "limit" THEN "stop" ELSE "stop_market"
    [] o.cond = "take" /\ mkt = "spot"                 ->
         IF o.exec = "limit" THEN "take_profit_limit" ELSE "take_profit"
    [] o.cond = "take" /\ mkt # "spot"                 ->
         IF o.exec = "limit" THEN "take_profit" ELSE "take_profit_market"
    [] o.cond = "trail"                                -> "trailing_stop_market"
===============================================================================
