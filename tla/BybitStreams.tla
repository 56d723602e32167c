----------------------------- MODULE BybitStreams -----------------------------
(***************************************************************************)
(* bybit/ws_biz.go and ws_parse.go: the client, topic, channel and         *)
(* reference of each Watch call, and the channels a topic is written to.   *)
(* A public client serves one category (spot, linear, option); symbols of  *)
(* different market types in one call are refused, so a call has one.      *)
(***************************************************************************)
EXTENDS Naturals, Sequences

Stream(client, topic, chan, ref) ==
  [client |-> client, topic |-> topic, chan |-> chan, ref |-> ref]

\* getWsPublicCategoryClient and getWsPrivateClient
Public(category) == <<category, "">>
Private(acc)     == <<"private", acc>>

-------------------------------------------------------------------------------
\* bybitWsOrderBookDepth: the depths the exchange offers.
Depth(category, limit) ==
  IF category = "option"
    THEN IF limit <= 25 THEN 25 ELSE 100
    ELSE CASE limit <= 0 -> 50
           [] limit = 1 -> 1
           [] limit \in 2..50 -> 50
           [] limit \in 51..200 -> 200
           [] OTHER -> 1000

BookTopic(depth, inst) == <<"orderbook", depth, inst>>
Books(category, inst, limit) ==
  Stream(Public(category), BookTopic(Depth(category, limit), inst), "orderbook", <<inst>>)

\* WatchOrderBooks: the topic of another depth, subscribed before, goes.
OldBook(category, inst, limit, old) ==
  IF old # 0 /\ old # Depth(category, limit) THEN {BookTopic(old, inst)} ELSE {}

\* UnWatchOrderBooks: the depth that was subscribed, which the call forgets.
UnBooks(category, inst, old) ==
  Stream(Public(category), BookTopic(IF old = 0 THEN Depth(category, 0) ELSE old, inst),
         "orderbook", <<inst>>)

\* bybitWsTradeSymbol: the trades of options come per base coin.
Trades(category, inst, base) ==
  Stream(Public(category), <<"publicTrade", IF category = "option" THEN base ELSE inst>>,
         "trades", <<inst>>)

\* bybitWsKlineTopics, with the interval the time frame resolves to
Candles(category, inst, tf) ==
  Stream(Public(category), <<"kline", tf, inst>>, "kline", <<inst, tf>>)

\* bybitWsMarkPriceTopics: spot has none
HasMark(category) == category # "spot"
Mark(category, inst) ==
  Stream(Public(category), <<"tickers", inst>>, "markPrice", <<inst>>)

\* watchBybitWsPrivateTopic; category is "" when the call names no market type.
Account(acc, topic, chan) == Stream(Private(acc), topic, chan, <<"account">>)
Balance(acc)             == Account(acc, <<"wallet", "">>, "balance")
Positions(acc, category) == Account(acc, <<"position", category>>, "positions")
Config(acc, category)    == Account(acc, <<"position", category>>, "accConfig")
MyTrades(acc, category)  == Account(acc, <<"execution", category>>, "mytrades")

NeedsLogin(t) == t[1] \in {"wallet", "position", "execution"}

-------------------------------------------------------------------------------
\* makeHandleWsMsg and the handlers: by the first word of the topic
Route(c, t) ==
  CASE t[1] = "orderbook"   -> {<<c, "orderbook">>}
    [] t[1] = "publicTrade" -> {<<c, "trades">>}
    [] t[1] = "kline"       -> {<<c, "kline">>}
    [] t[1] = "tickers"     -> {<<c, "markPrice">>}
    [] t[1] = "wallet"      -> {<<c, "balance">>}
    [] t[1] = "position"    -> {<<c, "positions">>, <<c, "accConfig">>}
    [] t[1] = "execution"   -> {<<c, "mytrades">>}
===============================================================================
