---------------------------- MODULE BinanceStreams ----------------------------
(***************************************************************************)
(* binance/ws_order.go and ws_biz.go: the client, topic, channel and       *)
(* reference of each Watch call, and the channels a message is written to. *)
(*                                                                         *)
(* GetWsClient numbers the streams: each kind of data of a market has a    *)
(* client of its own.  The data of an account comes on a client whose URL  *)
(* is the listenKey, without any subscription.                             *)
(***************************************************************************)
EXTENDS Naturals, Sequences

Stream(client, topic, chan, ref) ==
  [client |-> client, topic |-> topic, chan |-> chan, ref |-> ref]

\* GetWsClient(marType, marType@kind); the channel has the same hash.
Client(mkt, kind) == <<mkt, kind, "">>
Public(mkt, kind, topic, ref) == Stream(Client(mkt, kind), topic, kind, ref)

\* prepareBookArgs: limited depth for few levels, but not of spot markets.
Depth(mkt, limit) == IF limit <= 20 /\ mkt # "spot" THEN limit ELSE 0
Books(mkt, inst, limit) == Public(mkt, "depth", <<inst, "depth", Depth(mkt, limit)>>, <<inst>>)

\* WatchOrderBooks: with limit 0 that of a book there is, else 100.
LimitOf(limit, books) ==
  IF limit # 0 THEN {limit} ELSE IF books = {} THEN {100} ELSE books

\* prepareBookArgs for UnWatchOrderBooks: one limit of those subscribed serves
\* for all symbols; without any there is nothing to do.
UnLimits(limits, insts) == {limits[i] : i \in insts} \ {0}

\* prepareWatchTrades; name is "trade" or "aggTrade"
Trades(mkt, inst, name) == Public(mkt, name, <<inst, name, "">>, <<inst>>)

\* prepareOHLCVSub
Candles(mkt, inst, tf) == Public(mkt, "kline", <<inst, "kline", tf>>, <<inst>>)

\* prepareMarkPrices; inst "*" for all, rate "" or "1s"
HasMark(mkt) == mkt # "spot"
Mark(mkt, inst, rate) == Public(mkt, "markPrice", <<inst, "markPrice", rate>>, <<"markPrice">>)

\* getAuthClient, WatchBalance, WatchPositions, WatchMyTrades and
\* WatchAccountConfig
User(mkt, acc) == <<mkt, "user", acc>>
UserData       == <<"", "user", "">>
Account(mkt, acc, chan) == Stream(User(mkt, acc), UserData, chan, <<"account">>)

\* makeHandleWsMsg, by the event of the message: only contracts have events of
\* positions and of the configuration.  The handlers of the public data name
\* the channel by market and event.
Route(c, t) ==
  IF t # UserData THEN {<<c, t[2]>>}
  ELSE {<<c, chan>> : chan \in {"balance", "mytrades"}
                       \cup (IF c[1] = "spot" THEN {} ELSE {"positions", "accConfig"})}
===============================================================================
