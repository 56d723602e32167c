----------------------------- MODULE BitgetStreams ----------------------------
(***************************************************************************)
(* bitget/ws_biz.go: the client, topic, channel and reference of each      *)
(* Watch call, and the channel a topic is written to.  Only public data is *)
(* watched; the handler of order books has no Watch call.                  *)
(***************************************************************************)
EXTENDS Sequences

Stream(client, topic, chan, ref) ==
  [client |-> client, topic |-> topic, chan |-> chan, ref |-> ref]

\* getWsClientForSymbols: contracts have an endpoint of their own.
Client(mkt) == IF mkt = "spot" THEN <<"spot", "">> ELSE <<"mix", "">>

Trades(mkt, inst) == Stream(Client(mkt), <<"trade", "", inst>>, "trade", <<inst>>)

\* All instruments share one reference.
Mark(mkt, inst) == Stream(Client(mkt), <<"mark-price", "", inst>>, "markPrice", <<"markPrice">>)

Candles(mkt, inst, tf) ==
  Stream(Client(mkt), <<"candle", tf, inst>>, "candle", <<inst, tf>>)

\* makeHandleWsMsg and the handlers
Route(c, t) ==
  CASE t[1] = "trade"      -> {<<c, "trade">>}
    [] t[1] = "mark-price" -> {<<c, "markPrice">>}
    [] t[1] = "candle"     -> {<<c, "candle">>}
===============================================================================
