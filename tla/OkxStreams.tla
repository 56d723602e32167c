------------------------------ MODULE OkxStreams ------------------------------
(***************************************************************************)
(* okx/ws_biz.go: for each Watch call the WebSocket client that carries    *)
(* it, the topic it asks the exchange for, the channel the application     *)
(* reads and the reference the channel is kept open by; for each topic the *)
(* exchange sends, the channels its handler writes to.                     *)
(*                                                                         *)
(* A client is <<kind, account>>, account "" for the public ones.  A topic *)
(* is what the exchange is asked for: a channel (with its time frame), an  *)
(* instrument type and an instrument, "" where the request has none.       *)
(***************************************************************************)
EXTENDS Naturals, Sequences

Topic(ch, tf, type, inst) == <<ch, tf, type, inst>>
Stream(client, topic, chan, ref) ==
  [client |-> client, topic |-> topic, chan |-> chan, ref |-> ref]

\* The instrument types isWsInstType knows.
InstTypes == {"SPOT", "MARGIN", "SWAP", "FUTURES", "OPTION"}

\* getWsClient(kind, accName): one client per endpoint and account.
Public       == <<"public", "">>
Business     == <<"business", "">>
Private(acc) == <<"private", acc>>
Algo(acc)    == <<"business", acc>>

-------------------------------------------------------------------------------
\* The public data.

\* WatchOrderBooks: few levels come from a channel of their own.
Books(inst, limit) ==
  LET ch == IF limit > 0 /\ limit <= 5 THEN "books5" ELSE "books"
  IN  Stream(Public, Topic(ch, "", "", inst), ch, <<inst>>)

\* UnWatchOrderBooks has no limit and always names the channel "books".
UnBooks(inst) == Stream(Public, Topic("books", "", "", inst), "books", <<inst>>)

Trades(inst) == Stream(Public, Topic("trades", "", "", inst), "trades", <<inst>>)

Candles(inst, tf) ==
  Stream(Business, Topic("candle", tf, "", inst), "candle", <<inst, tf>>)

\* All instruments share one reference.
Mark(inst) == Stream(Public, Topic("mark-price", "", "", inst), "markPrice", <<"markPrice">>)

-------------------------------------------------------------------------------
\* The data of an account: subscribePrivateChannel.

Balance(acc) ==
  Stream(Private(acc), Topic("balance_and_position", "", "", ""), "balance", <<"account">>)

Config(acc) ==
  Stream(Private(acc), Topic("balance_and_position", "", "", ""), "accConfig", <<"account">>)

\* type: the instType of the parameters, by default ANY
Positions(acc, type) ==
  Stream(Private(acc), Topic("positions", "", type, ""), "positions", <<"account">>)

\* The instrument type of the symbol, or of the market type of the call.
MyTrades(acc, inst) ==
  Stream(Private(acc), Topic("orders", "", "SWAP", inst), "mytrades", <<"account">>)

\* WatchMyTrades then also asks for the algo orders, on the business endpoint.
AlgoOrders(acc, inst) ==
  Stream(Algo(acc), Topic("orders-algo", "", "SWAP", inst), "mytrades", <<"account">>)

-------------------------------------------------------------------------------
\* buildWsKey and buildWsKeyWithType: the parts that are there, in order.
KeyOf(t) ==
  LET ch == <<t[1], t[2]>>
  IN  IF t[3] # "" /\ t[4] # "" THEN <<ch, t[3], t[4]>>
      ELSE IF t[3] # "" THEN <<ch, t[3]>>
      ELSE IF t[4] # "" THEN <<ch, t[4]>>
      ELSE <<ch>>

\* Fault: every second part is taken for an instrument.
TopicOfNoType(key) ==
  LET ch == key[1]
  IN  CASE Len(key) = 1 -> Topic(ch[1], ch[2], "", "")
        [] Len(key) = 2 -> Topic(ch[1], ch[2], "", key[2])
        [] OTHER -> Topic(ch[1], ch[2], key[2], key[3])

\* parseWsKey, and the request a reconnection makes of it: the second of two
\* parts is an instrument unless it is a known type.
TopicOf(key) ==
  LET ch == key[1]
  IN  CASE Len(key) = 1 -> Topic(ch[1], ch[2], "", "")
        [] Len(key) = 2 /\ key[2] \in InstTypes -> Topic(ch[1], ch[2], key[2], "")
        [] Len(key) = 2 /\ key[2] \notin InstTypes -> Topic(ch[1], ch[2], "", key[2])
        [] OTHER -> Topic(ch[1], ch[2], key[2], key[3])

\* What the exchange asks of a subscription: a login for the data of an
\* account, and an instrument type for positions and orders.
NeedsLogin(t) == t[1] \in {"balance_and_position", "positions", "orders", "orders-algo"}
Exists(t) == t[1] \in {"positions", "orders", "orders-algo"} => t[3] \in InstTypes \cup {"ANY"}

-------------------------------------------------------------------------------
\* makeHandleWsMsg: the channels the handler of a topic writes to.  "whole":
\* positions are subscribed for the account (hasPositionsSubscription); algo:
\* WsMyTradesChanKey.

\* handleWsTrades, handleWsOrderBooks, handleWsOHLCV, handleWsMarkPrices
PublicChan(c, t) ==
  <<c, CASE t[1] \in {"books", "books5"} -> t[1]
         [] t[1] = "trades" -> "trades"
         [] t[1] = "candle" -> "candle"
         [] t[1] = "mark-price" -> "markPrice">>

\* handleWsBalanceAndPosition: what it tells of positions has no leverage, so
\* updateAccLeverages finds nothing to write to "accConfig".
BalanceChans(c, whole) ==
  {<<c, "balance">>} \cup (IF whole THEN {} ELSE {<<c, "positions">>})

\* handleWsPositions
PositionChans(c) == {<<c, "positions">>, <<c, "accConfig">>}

\* handleWsAlgoOrders writes where the last WatchMyTrades reads.
AlgoChan(c, algo) == IF algo = <<>> THEN <<c, "mytrades">> ELSE algo

Route(c, t, whole, algo) ==
  CASE t[1] = "balance_and_position" -> BalanceChans(c, whole)
    [] t[1] = "positions" -> PositionChans(c)
    [] t[1] = "orders" -> {<<c, "mytrades">>}
    [] t[1] = "orders-algo" -> {AlgoChan(c, algo)}
    [] OTHER -> {PublicChan(c, t)}
===============================================================================
