-------------------------------- MODULE Orders --------------------------------
(***************************************************************************)
(* The order calls of one exchange object: CreateOrder, CancelOrder,       *)
(* EditOrder, FetchOrder and FetchOpenOrders of okx, bybit and binance,    *)
(* GetArgsMarket and the retries of RequestApiRetryAdv below them, and the *)
(* orders the exchange keeps.  OkxOrders, BinanceOrders and BybitOrders    *)
(* say what an adapter makes of the arguments.                             *)
(*                                                                         *)
(* A request that was given up may still reach the exchange.  Times of     *)
(* waiting, prices and fees are left out.  A pair has one spot market and  *)
(* one linear contract.                                                    *)
(***************************************************************************)
EXTENDS Naturals, Sequences, FiniteSets

CONSTANTS
  Callers,        \* goroutines that call the exchange object
  Exchanges,      \* "okx", "binance", "bybit"
  Asks,           \* arguments of CreateOrder (OkxOrders)
  Wanted,         \* [sym, over]: the symbol's form ("plain", "swap") and the
                  \* market argument ("" when none is given)
  Size,           \* coins in a contract of okx
  Amounts,        \* amounts, in coins
  None,           \* no client id, no arguments
  MaxCalls,       \* bound: calls of a caller
  MaxOrders,      \* bound: orders of the exchange
  MaxFlight,      \* bound: requests on their way at a time
  MaxSends        \* bound: requests of a call, where retries allow more

\* The types of CreateOrder, and its arguments.
Types == {"limit", "market", "limit_maker", "trailing_stop_market"}
         \cup {"stop", "stop_market", "stop_loss", "stop_loss_limit"}
         \cup {"take_profit", "take_profit_limit", "take_profit_market"}
Args == [type : Types, side : {"buy", "sell"}, price : BOOLEAN, trigger : BOOLEAN, sl : BOOLEAN,
         tp : BOOLEAN, post : BOOLEAN, tif : {"", "IOC", "FOK", "PO"}, trail : BOOLEAN]
\* The market argument of a call, "" when there is none
MarketArgs == {"", "spot", "linear"}

ASSUME OrdersAssumption ==
  /\ Exchanges \subseteq {"okx", "binance", "bybit"} /\ Asks \subseteq Args
  /\ Wanted \subseteq [sym : {"plain", "swap"}, over : MarketArgs]
  /\ Size \in Nat \ {0} /\ Amounts \subseteq Nat
  /\ MaxCalls \in Nat /\ MaxOrders \in Nat /\ MaxFlight \in Nat /\ MaxSends \in Nat \ {0}

VARIABLES
  exg,            \* the adapter of this object
  dflt,           \* the MarketType it was made with
  mt,             \* e.MarketType
  wants,          \* [Callers -> Wanted]
  call,           \* [Callers -> the call it is in]
  known,          \* [Callers -> the ids it was given: <<order, has the prefix "algo:">>]
  flight,         \* requests that may still reach the exchange
  orders          \* the orders of the exchange, in the order they were placed

vars == <<exg, dflt, mt, wants, call, known, flight, orders>>

Okx     == INSTANCE OkxOrders
Binance == INSTANCE BinanceOrders
Bybit   == INSTANCE BybitOrders

Idle == [pc |-> "idle", op |-> "none", k |-> 0, cl |-> FALSE, ask |-> None, tgt |-> 0,
         pre |-> FALSE, amt |-> 0, back |-> "", mkt |-> "", sends |-> 0, stage |-> 1,
         got |-> "nothing"]

Init ==
  /\ exg \in Exchanges
  /\ dflt \in {"spot", "linear"} /\ mt = dflt
  /\ wants \in [Callers -> Wanted]
  /\ call = [c \in Callers |-> Idle]
  /\ known = [c \in Callers |-> {}]
  /\ flight = {} /\ orders = <<>>

-------------------------------------------------------------------------------
(* What the adapters decide.                                               *)

Place(mkt, a) ==
  CASE exg = "okx"     -> Okx!Place(mkt, a)
    [] exg = "binance" -> Binance!Place(mkt, a)
    [] exg = "bybit"   -> Bybit!Place(mkt, a)

SpaceOf(op, mkt, pre) ==
  CASE exg = "okx"     -> Okx!SpaceOf(op, mkt, pre)
    [] exg = "binance" -> Binance!SpaceOf(op, mkt, pre)
    [] exg = "bybit"   -> Bybit!SpaceOf(op, mkt, pre)

\* whether the id of an order has the prefix "algo:" in the answer of a call
Prefixed(op, o) ==
  CASE exg = "okx"     -> Okx!Prefixed(op, o)
    [] exg = "binance" -> Binance!Prefixed(op, o)
    [] exg = "bybit"   -> Bybit!Prefixed(op, o)

SizeOf(mkt, space, coins) ==
  IF exg = "okx" THEN Okx!SizeOf(mkt, space, coins, Size) ELSE coins

\* the type an order is shown with
ShownType(o) ==
  CASE exg = "okx"     -> Okx!ShownType(o)
    [] exg = "binance" -> Binance!ShownType(o.mkt, o)
    [] exg = "bybit"   -> Bybit!ShownType(o)

\* The requests of FetchOrder, and of FetchOpenOrders with algoOrder.
Stages(op) ==
  CASE op = "fetch" /\ exg = "bybit" -> 2
    [] op = "algos" /\ exg = "okx"   -> Len(Okx!AlgoGroups)
    [] OTHER                         -> 1

\* GetRetryNum: four requests at most for CreateOrder of binance, two elsewhere
Tries(op) == IF exg = "binance" /\ op = "create" THEN 4 ELSE 2

\* Fault: an id of its own for each request.
IdPerSend(c, k, s) == <<c, k, s>>

\* The client id goes into the arguments before the first request.
ClientId(c, k, s) == <<c, k>>

-------------------------------------------------------------------------------
(* A call, as far as the request.                                          *)

Overrides(c) == wants[c].over # ""

Begin(c, op, ask, cl, i, amt) ==
  /\ call[c].pc = "idle" /\ call[c].k < MaxCalls
  /\ call' = [call EXCEPT ![c] =
       [pc |-> IF Overrides(c) THEN "swap" ELSE "look", op |-> op, k |-> call[c].k + 1, cl |-> cl,
        ask |-> ask, tgt |-> i[1], pre |-> i[2], amt |-> amt, back |-> "", mkt |-> "", sends |-> 0,
        stage |-> 1, got |-> "nothing"]]
  /\ UNCHANGED <<exg, dflt, mt, wants, known, flight, orders>>

NoId == <<0, FALSE>>

\* binance makes a client id where none is given.
Create(c) ==
  \E a \in Asks, given \in BOOLEAN, amt \in Amounts :
    Begin(c, "create", a, given \/ (exg = "binance" /\ Binance!HasClientId(given)), NoId, amt)

Edit(c) == \E i \in known[c], amt \in Amounts : Begin(c, "edit", None, FALSE, i, amt)

Request(c) == \E i \in known[c], op \in {"cancel", "fetch"} : Begin(c, op, None, FALSE, i, 0)

List(c) == \E op \in {"open", "algos"} : Begin(c, op, None, FALSE, NoId, 0)

\* GetArgsMarket: the market argument takes the place of e.MarketType,
Swap(c) ==
  /\ call[c].pc = "swap"
  /\ mt' = wants[c].over
  /\ call' = [call EXCEPT ![c].pc = "look", ![c].back = mt]
  /\ UNCHANGED <<exg, dflt, wants, known, flight, orders>>

\* GetMarket: the contract of a plain symbol while e.MarketType is a contract
Resolve(sym, type) == IF sym = "swap" \/ type = "linear" THEN "linear" ELSE "spot"

\* the market is looked up,
Look(c) ==
  /\ call[c].pc = "look"
  /\ call' = [call EXCEPT ![c].pc = IF Overrides(c) THEN "restore" ELSE "send",
                          ![c].mkt = Resolve(wants[c].sym, mt)]
  /\ UNCHANGED <<exg, dflt, mt, wants, known, flight, orders>>

\* and what e.MarketType was is put back.
Restore(c) ==
  /\ call[c].pc = "restore"
  /\ mt' = call[c].back
  /\ call' = [call EXCEPT ![c].pc = "send"]
  /\ UNCHANGED <<exg, dflt, wants, known, flight, orders>>

Ended(c, got) == [call EXCEPT ![c] = [Idle EXCEPT !.k = call[c].k, !.got = got]]

\* Arguments no request comes of
Refuse(c) ==
  /\ call[c].pc = "send" /\ call[c].op = "create" /\ Place(call[c].mkt, call[c].ask) = {}
  /\ call' = Ended(c, "nothing")
  /\ UNCHANGED <<exg, dflt, mt, wants, known, flight, orders>>

Message(c) ==
  LET d == call[c] IN
  [c |-> c, k |-> d.k, s |-> d.sends + 1, op |-> d.op, stage |-> d.stage, mkt |-> d.mkt,
   tgt |-> d.tgt, pre |-> d.pre, ask |-> d.ask, amt |-> d.amt,
   cl |-> IF d.cl THEN ClientId(c, d.k, d.sends + 1) ELSE None]

Send(c) ==
  /\ call[c].pc = "send" /\ Cardinality(flight) < MaxFlight
  /\ call[c].op = "create" => Place(call[c].mkt, call[c].ask) # {} /\ Len(orders) < MaxOrders
  /\ flight' = flight \cup {Message(c)}
  /\ call' = [call EXCEPT ![c].pc = "wait", ![c].sends = @ + 1]
  /\ UNCHANGED <<exg, dflt, mt, wants, known, orders>>

\* NetFail: RequestApiRetryAdv sends the request again.
TimeOut(c) ==
  /\ call[c].pc = "wait"
  /\ IF call[c].sends < Tries(call[c].op) /\ call[c].sends < MaxSends
       THEN call' = [call EXCEPT ![c].pc = "send"]
       \* okx goes on to the next group of algo orders
       ELSE IF call[c].op = "algos" /\ call[c].stage < Stages("algos")
         THEN call' = [call EXCEPT ![c].pc = "send", ![c].sends = 0, ![c].stage = @ + 1]
         ELSE call' = Ended(c, "nothing")
  /\ UNCHANGED <<exg, dflt, mt, wants, known, flight, orders>>

-------------------------------------------------------------------------------
(* The exchange, and the answer.                                           *)

Waits(r)  == call[r.c].pc = "wait" /\ call[r.c].k = r.k /\ call[r.c].sends = r.s
             /\ call[r.c].stage = r.stage
OpenOf(mkt) == {i \in DOMAIN orders : orders[i].mkt = mkt /\ orders[i].status = "open"}

\* the orders a request would be about: ids are unique in a space of a market
Touched(r) ==
  {i \in DOMAIN orders : LET o == orders[i]  t == orders[r.tgt] IN
     o.mkt = r.mkt /\ o.space = SpaceOf(r.op, r.mkt, r.pre) /\ o.n = t.n}

\* The id in the request is the whole one: it has the prefix if the order's has it.
Whole(r) == r.pre = (orders[r.tgt].space = "algo")

\* The answer tells the caller these ids.
Told(r, ids)  == IF Waits(r) THEN [known EXCEPT ![r.c] = @ \cup ids] ELSE known
IdsOf(r, ods) == {<<i, Prefixed(r.op, orders[i])>> : i \in ods}

\* An order is placed, unless one that is open has the client id.  A trailing
\* stop of bybit is no order.
NewOrder(r, b) ==
  [mkt |-> r.mkt, space |-> b.space, ask |-> r.ask, by |-> <<r.c, r.k>>, cl |-> r.cl,
   n |-> 1 + Cardinality({i \in DOMAIN orders : orders[i].mkt = r.mkt /\ orders[i].space = b.space}),
   cond |-> b.cond, exec |-> b.exec, post |-> b.post, tif |-> b.tif, want |-> r.amt,
   sz |-> SizeOf(r.mkt, b.space, r.amt),
   status |-> IF b.exec = "market" /\ b.cond = "none" THEN "ended" ELSE "open"]

Duplicate(r) ==
  r.cl # None /\ \E i \in OpenOf(r.mkt) : orders[i].cl = r.cl

Placed(r) ==
  /\ r.op = "create"
  /\ \E b \in Place(r.mkt, r.ask) :
       IF Duplicate(r) \/ b.space = "position"
         THEN /\ UNCHANGED <<orders, known>>
              /\ call' = IF Waits(r) THEN Ended(r.c, "nothing") ELSE call
         ELSE /\ Len(orders) < MaxOrders
              /\ orders' = Append(orders, NewOrder(r, b))
              /\ known' = Told(r, {<<Len(orders) + 1, Prefixed("create", NewOrder(r, b))>>})
              /\ call' = IF Waits(r) THEN Ended(r.c, "nothing") ELSE call

\* What is open and in reach of the request is cancelled.
Canceled(r) ==
  /\ r.op = "cancel"
  /\ orders' = [i \in DOMAIN orders |->
       IF i \in Touched(r) /\ orders[i].status = "open" THEN [orders[i] EXCEPT !.status = "ended"]
       ELSE orders[i]]
  /\ call' = IF Waits(r) THEN Ended(r.c, "nothing") ELSE call
  /\ known' = Told(r, IdsOf(r, {i \in Touched(r) : orders[i].status = "open"}))

\* An amount of a contract goes out in contracts (EditOrder of okx too).
Edited(r) ==
  /\ r.op = "edit"
  /\ orders' = [i \in DOMAIN orders |->
       IF i \in Touched(r) /\ orders[i].status = "open"
         THEN [orders[i] EXCEPT !.want = r.amt, !.sz = SizeOf(r.mkt, orders[i].space, r.amt)]
         ELSE orders[i]]
  /\ call' = IF Waits(r) THEN Ended(r.c, "nothing") ELSE call
  /\ known' = Told(r, IdsOf(r, {i \in Touched(r) : orders[i].status = "open"}))

\* FetchOrder: bybit asks for the open orders, then for the history.
Shown(r) ==
  IF exg = "bybit"
    THEN UNION {Bybit!Shows(Bybit!Lookups[r.stage], orders[i].status) : i \in Touched(r)}
         \cup (IF Touched(r) = {} THEN {FALSE} ELSE {})
    ELSE {Touched(r) # {}}

\* Who does not get the order keeps the id, for Reached.
Missed(r) ==
  [call EXCEPT ![r.c] = [Idle EXCEPT !.k = call[r.c].k, !.got = "missing", !.tgt = r.tgt, !.pre = r.pre]]

Fetched(r) ==
  /\ r.op = "fetch"
  /\ \E found \in Shown(r) :
       /\ call' = IF ~Waits(r) THEN call
                  ELSE IF found THEN Ended(r.c, "found")
                  ELSE IF r.stage < Stages("fetch")
                    THEN [call EXCEPT ![r.c].pc = "send", ![r.c].sends = 0, ![r.c].stage = @ + 1]
                    ELSE Missed(r)
       /\ known' = IF found THEN Told(r, IdsOf(r, Touched(r))) ELSE known
  /\ UNCHANGED orders

\* FetchOpenOrders: the regular orders, or the conditional ones; okx asks for
\* these by groups of types, bybit for all orders at once.
Listed(r) ==
  {i \in OpenOf(r.mkt) :
     \/ exg = "bybit"
     \/ r.op = "open"  /\ orders[i].space = "regular"
     \/ r.op = "algos" /\ orders[i].space = "algo"
        /\ (exg = "okx" => orders[i].cond \in Okx!AlgoGroups[r.stage])}

FetchedOpen(r) ==
  /\ r.op \in {"open", "algos"}
  /\ IF Waits(r)
       THEN /\ known' = Told(r, IdsOf(r, Listed(r)))
            /\ call' = IF r.stage < Stages(r.op)
                 THEN [call EXCEPT ![r.c].pc = "send", ![r.c].sends = 0, ![r.c].stage = @ + 1]
                 ELSE Ended(r.c, "nothing")
       ELSE UNCHANGED <<known, call>>
  /\ UNCHANGED orders

\* A request reaches the exchange, and the answer finds the call waiting, or
\* nobody.  A request this never happens to is lost.
Execute ==
  \E r \in flight :
    /\ Placed(r) \/ Canceled(r) \/ Edited(r) \/ Fetched(r) \/ FetchedOpen(r)
    /\ flight' = flight \ {r}
    /\ UNCHANGED <<exg, dflt, mt, wants>>

\* An order is filled, triggered or expires.
End ==
  \E i \in DOMAIN orders :
    /\ orders[i].status = "open"
    /\ orders' = [orders EXCEPT ![i].status = "ended"]
    /\ UNCHANGED <<exg, dflt, mt, wants, call, known, flight>>

-------------------------------------------------------------------------------
Next ==
  \/ \E c \in Callers : \/ Create(c) \/ Edit(c) \/ Request(c) \/ List(c)
                        \/ Swap(c) \/ Look(c) \/ Restore(c)
                        \/ Refuse(c) \/ Send(c) \/ TimeOut(c)
  \/ Execute \/ End

Spec == Init /\ [][Next]_vars

-------------------------------------------------------------------------------
(* What must hold.                                                         *)

\* The market a caller means: its symbol's, or that of its market argument, or
\* the one of the exchange object.
Meant(c) ==
  LET w == wants[c] IN
  IF w.sym = "swap" THEN "linear" ELSE IF w.over # "" THEN w.over ELSE dflt

\* GetArgsMarket gives the market of the symbol and the market argument, as its
\* comment says: no order goes to another market than its caller means, and no
\* request about an order looks for it elsewhere.
OnAskedMarket ==
  /\ \A r \in flight : r.mkt = Meant(r.c)
  /\ \A i \in DOMAIN orders : orders[i].mkt = Meant(orders[i].by[1])

\* A request to cancel or fetch an order, sent by a whole id the library gave out,
\* would act on that order and no other, however late it arrives; one to edit
\* acts on that order or none (okx and binance number regular and conditional
\* orders apart; EditOrder does not know the prefix of the id).  And FetchOrder by
\* such an id does not miss the order, whenever it ends.  An id that is not whole comes
\* from CancelOrder of binance, which leaves out the prefix of a conditional order
\* (biz_order_algo.go:143): by it a regular order of that number is reached.
Reached ==
  /\ \A r \in flight : r.op \in {"edit", "cancel", "fetch"} /\ Whole(r) =>
       /\ r.op \in {"cancel", "fetch"} => Touched(r) = {r.tgt}
       /\ r.op = "edit" => Touched(r) \subseteq {r.tgt}
  /\ \A c \in Callers : call[c].got = "missing" => ~Whole(call[c])

\* However often CreateOrder is sent, and whatever becomes of its answers, a call
\* with a client id has one order open at most.
OncePlaced ==
  \A i, j \in DOMAIN orders :
    i # j /\ orders[i].by = orders[j].by /\ orders[i].cl # None =>
      orders[i].status = "ended" \/ orders[j].status = "ended"

Stops == {"stop", "stop_market", "stop_loss", "stop_loss_limit"}
Takes == {"take_profit", "take_profit_limit", "take_profit_market"}

\* Arguments that say one thing: a stop order has its trigger, a take profit its
\* takeProfitPrice, a price goes with the orders that are executed at one, a trailing
\* stop has its callback, and an order that shall not take is a limit_maker.
Priced == {"limit", "limit_maker", "stop", "stop_loss_limit", "take_profit_limit"}
Sensible(a) ==
  /\ a.price = (a.type \in Priced)
  /\ (a.trigger \/ a.sl) = (a.type \in Stops)
  /\ a.tp = (a.type \in Takes)
  /\ a.trail = (a.type = "trailing_stop_market")
  /\ ~a.post /\ a.tif # "PO"

\* Callers give such arguments, and amounts that are whole contracts.
Sensibly == (\A a \in Asks : Sensible(a)) /\ \A n \in Amounts : (n \div Size) * Size = n

\* An order is what its caller asked for: it waits for the move its type names
\* (in "cross", for either), is executed at the price given or at the market's,
\* makes no trade as a taker if that was ruled out, has the amount asked for in
\* coins, and is not shown as a plain order when it is a conditional one.  (Of
\* arguments that contradict each other an adapter drops some.)
AsAsked ==
  \A i \in DOMAIN orders :
    LET o == orders[i]  a == o.ask IN
    /\ o.cond \in CASE a.type \in Stops -> {"stop", "cross"}
                    [] a.type \in Takes -> {"take", "cross"}
                    [] a.trail           -> {"trail"}
                    [] OTHER             -> {"none"}
    /\ o.exec = IF a.price THEN "limit" ELSE "market"
    /\ o.post = (a.type = "limit_maker")
    /\ o.want = IF exg = "okx" THEN Okx!ShownCoins(o.mkt, o.sz, Size) ELSE o.sz
    /\ (ShownType(o) \in {"limit", "market", "limit_maker"}) = (o.cond = "none")

-------------------------------------------------------------------------------
(* Why it does.                                                            *)

Markets == {"spot", "linear"}
ClientIds == (Callers \X Nat) \cup {None}
Ops     == {"create", "edit", "cancel", "fetch", "open", "algos"}
CallTypes ==
  [pc : {"idle", "swap", "look", "restore", "send", "wait"}, op : Ops \cup {"none"}, k : Nat,
   cl : BOOLEAN, ask : Asks \cup {None}, tgt : Nat, pre : BOOLEAN, amt : Amounts \cup {0},
   back : Markets \cup {""}, mkt : Markets \cup {""}, sends : Nat, stage : Nat,
   got : {"nothing", "found", "missing"}]
RequestTypes ==
  [c : Callers, k : Nat, s : Nat, op : Ops \cup {"none"}, stage : Nat, mkt : Markets \cup {""},
   tgt : Nat, pre : BOOLEAN, ask : Asks \cup {None}, amt : Amounts \cup {0}, cl : ClientIds]
OrderTypes ==
  [mkt : Markets \cup {""}, space : {"regular", "algo"}, ask : Asks \cup {None},
   by : Callers \X Nat, cl : ClientIds, n : Nat, cond : {"none", "cross", "stop", "take", "oco", "trail"},
   exec : {"limit", "market"}, post : BOOLEAN, tif : {"", "IOC", "FOK"}, want : Amounts \cup {0},
   sz : Nat, status : {"open", "ended"}]

\* Every variable has its type, and what is to be created its arguments.
OrdersTypeOK ==
  /\ exg \in Exchanges /\ dflt \in Markets /\ mt \in MarketArgs
  /\ wants \in [Callers -> Wanted]
  /\ call \in [Callers -> CallTypes] /\ flight \subseteq RequestTypes
  /\ orders \in Seq(OrderTypes) /\ known \in [Callers -> SUBSET ((DOMAIN orders) \X BOOLEAN)]
  /\ \A c \in Callers : call[c].op = "create" => call[c].ask \in Asks
  /\ \A r \in flight : r.op = "create" => r.ask \in Asks

\* A request is of a call that is over, or of the one its caller is in.
OfCall ==
  \A r \in flight : LET d == call[r.c] IN
    /\ r.k <= d.k
    /\ r.k = d.k /\ d.pc # "idle" =>
         /\ d.pc \in {"send", "wait"}
         /\ r.op = d.op /\ r.tgt = d.tgt /\ r.pre = d.pre /\ r.mkt = d.mkt
         /\ r.cl = IF d.cl THEN <<r.c, r.k>> ELSE None

\* What a call leaves at the exchange or on its way there has one market and one
\* client id, however often it was sent.
Traces ==
  {[by |-> <<r.c, r.k>>, mkt |-> r.mkt, cl |-> r.cl] : r \in {q \in flight : q.op = "create"}}
  \cup {[by |-> orders[i].by, mkt |-> orders[i].mkt, cl |-> orders[i].cl] : i \in DOMAIN orders}
OneTrace ==
  /\ \A x, y \in Traces : x.by = y.by => x = y
  /\ \A x \in Traces : LET c == x.by[1]  d == call[c] IN
       /\ x.by[2] <= d.k
       /\ x.by[2] = d.k /\ d.pc # "idle" =>
            /\ d.pc \in {"send", "wait"}
            /\ x = [by |-> <<c, d.k>>, mkt |-> d.mkt, cl |-> IF d.cl THEN <<c, d.k>> ELSE None]

\* e.MarketType is the market argument between the two writes of GetArgsMarket, and
\* what it was made with otherwise.
MarketKept ==
  /\ \A c \in Callers : LET d == call[c]  over == wants[c].over IN
       /\ d.pc \in {"swap", "restore"} => over # ""
       /\ d.pc \in {"look", "restore"} /\ over # "" => mt = over /\ d.back = dflt
       /\ d.pc \in {"restore", "send", "wait"} => d.mkt = Meant(c)
  /\ (\A c \in Callers : call[c].pc \in {"look", "restore"} => wants[c].over = "") => mt = dflt

\* An id is of one order in its space of a market; and its space is known from it.
Alike(i, j) == orders[i].mkt = orders[j].mkt /\ orders[i].space = orders[j].space
Numbered ==
  /\ \A i, j \in DOMAIN orders : Alike(i, j) /\ orders[i].n = orders[j].n => i = j
  /\ \A i \in DOMAIN orders : orders[i].n <= Cardinality({j \in DOMAIN orders : Alike(i, j)})
  /\ \A i \in DOMAIN orders : orders[i].space = "algo" =>
       exg # "bybit" /\ (exg = "binance" => orders[i].mkt = "linear")

\* A call is about an order its caller has an id of, and that is of the market it means;
\* and what FetchOrder seeks in the history, by the whole id, has ended.
Aims(op) == op \in {"edit", "cancel", "fetch"}
Late(d)  == d.stage = 1 \/ (d.stage = 2 /\ (Whole(d) => orders[d.tgt].status = "ended"))
Aimed ==
  /\ \A c \in Callers : \A i \in known[c] : orders[i[1]].mkt = Meant(c)
  /\ \A c \in Callers : LET d == call[c] IN
       d.pc # "idle" /\ Aims(d.op) => <<d.tgt, d.pre>> \in known[c] /\ (d.op = "fetch" => Late(d))
  /\ \A r \in flight : Aims(r.op) =>
       <<r.tgt, r.pre>> \in known[r.c] /\ (r.op = "fetch" => Late(r))
  /\ \A c \in Callers : call[c].got = "missing" =>
       <<call[c].tgt, call[c].pre>> \in known[c] /\ ~Whole(call[c])
===============================================================================
