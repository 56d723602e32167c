------------------------------ MODULE OrdersProofs ------------------------------
(***************************************************************************)
(* Proofs about Orders and History, for every set of callers, arguments    *)
(* and amounts and every value of the bounds: a call places one order at   *)
(* most; while no two callers are in GetArgsMarket with a market argument, *)
(* every request goes to the market meant and to the order its id names;   *)
(* an order is what sensible arguments ask for; and a call that reads a    *)
(* history page by page returns all that was there when it began.          *)
(***************************************************************************)
EXTENDS Trades, TLAPS, SequenceTheorems, FiniteSetTheorems, WellFoundedInduction

-------------------------------------------------------------------------------
\* What an adapter makes of the arguments of CreateOrder: an order of one of these
\* kinds, in a space where a request about it will look.
Outcomes ==
  [space : {"regular", "algo", "position"}, cond : {"none", "cross", "stop", "take", "oco", "trail"},
   exec : {"limit", "market"}, post : BOOLEAN, tif : {"", "IOC", "FOK"}]

LEMMA OkxPlaces ==
  ASSUME NEW m, NEW a \in Args PROVE Okx!Place(m, a) \subseteq Outcomes
<1>1. ASSUME NEW b \in Okx!Regular(a) PROVE b \in Outcomes
  <2>1. b = Okx!Order("regular", "none", Okx!Exec(Okx!OrdType(a) # "market"),
                      Okx!OrdType(a) = "post_only",
                      IF Okx!OrdType(a) \in {"ioc", "fok"} THEN a.tif ELSE "")
    BY <1>1 DEF Okx!Regular
  <2>2. Okx!OrdType(a) \in {"ioc", "fok"} => a.tif \in {"IOC", "FOK"}
    <3>1. a.type \notin {"ioc", "fok"}
      BY DEF Args, Types
    <3>2. QED
      BY <3>1 DEF Okx!OrdType
  <2>3. QED
    BY <2>1, <2>2 DEF Okx!Order, Okx!Exec, Outcomes
<1>2. ASSUME NEW b \in Okx!Algo(a) PROVE b \in Outcomes
  <2>1. PICK c \in {"cross", "trail", "oco", "stop", "take"}, e \in {"limit", "market"} :
          b = Okx!Order("algo", c, e, FALSE, "")
    <3>1. a.type \in Okx!Stops \cup {"limit", "market"}
          \/ a.type = Okx!Trail \/ a.type \in Okx!Legs \/ a.type = "limit_maker"
      BY DEF Args, Types, Okx!Stops, Okx!Trail, Okx!Legs
    <3>2. \A l : Okx!Exec(l) \in {"limit", "market"}
      BY DEF Okx!Exec
    <3>3. QED
      BY <1>2, <3>1, <3>2 DEF Okx!Algo, Okx!Stops, Okx!Trail, Okx!Legs
  <2>2. QED
    BY <2>1 DEF Okx!Order, Outcomes
<1>3. QED
  BY <1>1, <1>2 DEF Okx!Place

LEMMA BinancePlaces ==
  ASSUME NEW m, NEW a \in Args, NEW b \in Binance!Place(m, a)
  PROVE  b \in Outcomes /\ (b.space = "algo" => m = "linear")
<1> DEFINE t == Binance!TypeOf(m, a)
           post == t = "limit_maker" \/ (m # "spot" /\ t = "limit" /\ a.type = "limit_maker")
<1>1. b = Binance!Order(IF Binance!IsAlgo(m, t) THEN "algo" ELSE "regular", Binance!CondOf(t),
                        IF Binance!NeedsPrice(m, t) THEN "limit" ELSE "market", post,
                        IF a.tif \in {"IOC", "FOK"} THEN a.tif ELSE "")
  BY DEF Binance!Place
<1>2. Binance!CondOf(t) \in {"none", "stop", "take", "trail"}
  BY DEF Binance!CondOf
<1>3. post \in BOOLEAN
  OBVIOUS
<1>4. Binance!IsAlgo(m, t) => m = "linear"
  BY DEF Binance!IsAlgo
<1> HIDE DEF t, post
<1>5. QED
  BY <1>1, <1>2, <1>3, <1>4 DEF Binance!Order, Outcomes

LEMMA BybitPlaces ==
  ASSUME NEW m, NEW a \in Args, NEW b \in Bybit!Place(m, a)
  PROVE  b \in Outcomes /\ b.space # "algo"
<1>1. Bybit!ExecOf(a) \in {"limit", "market"}
  BY DEF Bybit!ExecOf, Args, Types
<1>2. Bybit!CondOf(m, a) \in {"none", "cross", "stop", "take"}
  <2>1. \/ ~Bybit!HasTrigger(a)
        \/ Bybit!HasTrigger(a) /\ m = "spot"
        \/ Bybit!HasTrigger(a) /\ m # "spot"
    OBVIOUS
  <2>2. QED
    BY <2>1 DEF Bybit!CondOf
<1>3. Bybit!Post(a) \in BOOLEAN
  BY DEF Bybit!Post, Args
<1>4. \/ b = Bybit!Order("position", "trail", "market", FALSE, "")
      \/ \E f \in {"", "IOC", "FOK"} :
           b = Bybit!Order("regular", Bybit!CondOf(m, a), Bybit!ExecOf(a), Bybit!Post(a), f)
  BY DEF Bybit!Place, Args
<1>5. CASE b = Bybit!Order("position", "trail", "market", FALSE, "")
  BY <1>5 DEF Bybit!Order, Outcomes
<1>6. ASSUME NEW f \in {"", "IOC", "FOK"},
             b = Bybit!Order("regular", Bybit!CondOf(m, a), Bybit!ExecOf(a), Bybit!Post(a), f)
      PROVE  b \in Outcomes /\ b.space # "algo"
  BY <1>1, <1>2, <1>3, <1>6 DEF Bybit!Order, Outcomes
<1>7. QED
  BY <1>4, <1>5, <1>6

LEMMA Places ==
  ASSUME exg \in Exchanges, NEW m, NEW a \in Asks, NEW b \in Place(m, a)
  PROVE  b \in Outcomes /\ (b.space = "algo" => exg # "bybit" /\ (exg = "binance" => m = "linear"))
<1>1. a \in Args /\ exg \in {"okx", "binance", "bybit"}
  BY OrdersAssumption
<1>2. CASE exg = "okx"
  BY <1>1, <1>2, OkxPlaces DEF Place
<1>3. CASE exg = "binance"
  BY <1>1, <1>3, BinancePlaces DEF Place
<1>4. CASE exg = "bybit"
  BY <1>1, <1>4, BybitPlaces DEF Place
<1>5. QED
  BY <1>1, <1>2, <1>3, <1>4

-------------------------------------------------------------------------------
\* The calls, as functions of what happens to one of them.

\* A call that begins has no request on its way; what ended keeps its number.
LEMMA EndedTyped ==
  ASSUME call \in [Callers -> CallTypes], NEW c \in Callers, NEW res \in {"nothing", "found", "missing"}
  PROVE  /\ Ended(c, res) \in [Callers -> CallTypes]
         /\ Ended(c, res)[c].pc = "idle" /\ Ended(c, res)[c].k = call[c].k
         /\ Ended(c, res)[c].got = res
         /\ \A d \in Callers \ {c} : Ended(c, res)[d] = call[d]
BY DEF Ended, Idle, CallTypes

\* The ids that can be given out
OrderIds == (DOMAIN orders) \X BOOLEAN

LEMMA MissedTyped ==
  ASSUME call \in [Callers -> CallTypes], NEW r \in RequestTypes
  PROVE  /\ Missed(r) \in [Callers -> CallTypes]
         /\ Missed(r)[r.c].pc = "idle" /\ Missed(r)[r.c].k = call[r.c].k /\ Missed(r)[r.c].op = "none"
         /\ Missed(r)[r.c].got = "missing" /\ Missed(r)[r.c].tgt = r.tgt /\ Missed(r)[r.c].pre = r.pre
         /\ \A d \in Callers \ {r.c} : Missed(r)[d] = call[d]
<1>1. r.c \in Callers /\ r.tgt \in Nat /\ r.pre \in BOOLEAN
  BY DEF RequestTypes
<1> DEFINE x == [Idle EXCEPT !.k = call[r.c].k, !.got = "missing", !.tgt = r.tgt, !.pre = r.pre]
<1>2. call[r.c].k \in Nat
  BY <1>1 DEF CallTypes
<1>3. /\ x \in CallTypes /\ x.pc = "idle" /\ x.k = call[r.c].k /\ x.op = "none" /\ x.got = "missing"
      /\ x.tgt = r.tgt /\ x.pre = r.pre
  BY <1>1, <1>2 DEF Idle, CallTypes
<1>4. Missed(r) = [call EXCEPT ![r.c] = x]
  BY DEF Missed
<1> HIDE DEF x
<1>5. QED
  BY <1>1, <1>3, <1>4

\* The types of the variables at the start.
LEMMA TypeInit == Init => OrdersTypeOK
<1> SUFFICES ASSUME Init PROVE OrdersTypeOK
  OBVIOUS
<1>1. call \in [Callers -> CallTypes]
  BY DEF Init, Idle, CallTypes
<1>2. orders \in Seq(OrderTypes) /\ known \in [Callers -> SUBSET OrderIds]
  BY DEF Init, OrderIds
<1>3. QED
  BY <1>1, <1>2 DEF Init, OrdersTypeOK, OrderIds, Markets, MarketArgs, Idle

\* An amount, in contracts or in coins, is a number.
LEMMA SizeTyped ==
  ASSUME NEW amt \in Amounts \cup {0}, NEW m, NEW space
  PROVE  SizeOf(m, space, amt) \in Nat
<1>1. amt \in Nat
  <2>1. Amounts \subseteq Nat /\ 0 \in Nat
    BY OrdersAssumption
  <2>2. QED
    BY ONLY <2>1, amt \in Amounts \cup {0}
<1>2. \A x \in Nat, y \in Nat \ {0} : x \div y \in Nat
  OBVIOUS
<1>3. QED
  BY <1>1, <1>2, OrdersAssumption DEF SizeOf, Okx!SizeOf

\* A new order has its types, and a space where it is looked for.
LEMMA NewTyped ==
  ASSUME OrdersTypeOK, NEW r \in flight, NEW b \in Place(r.mkt, r.ask),
         r.op = "create", b.space # "position"
  PROVE  /\ NewOrder(r, b) \in OrderTypes
         /\ NewOrder(r, b).space = "algo" =>
              exg # "bybit" /\ (exg = "binance" => NewOrder(r, b).mkt = "linear")
<1>r. r \in RequestTypes
  BY DEF OrdersTypeOK
<1>1. b \in Outcomes /\ (b.space = "algo" => exg # "bybit" /\ (exg = "binance" => r.mkt = "linear"))
  BY <1>r, Places DEF OrdersTypeOK, RequestTypes
<1>2. b.space \in {"regular", "algo"}
  BY <1>1 DEF Outcomes
<1>3. SizeOf(r.mkt, b.space, r.amt) \in Nat
  BY <1>r, SizeTyped DEF RequestTypes
<1>4. \A S : S \subseteq DOMAIN orders => 1 + Cardinality(S) \in Nat
  <2>1. IsFiniteSet(DOMAIN orders)
    <3>1. DOMAIN orders = 1..Len(orders) /\ Len(orders) \in Nat
      BY DEF OrdersTypeOK
    <3>2. QED
      BY <3>1, FS_Interval
  <2>2. \A S : S \subseteq DOMAIN orders => Cardinality(S) \in Nat
    BY <2>1, FS_Subset, FS_CardinalityType
  <2>3. QED
    BY <2>2
<1>5. <<r.c, r.k>> \in Callers \X Nat
  BY <1>r DEF RequestTypes
<1>6. 1 + Cardinality({i \in DOMAIN orders : orders[i].mkt = r.mkt /\ orders[i].space = b.space}) \in Nat
  BY <1>4
<1>7. /\ r.mkt \in Markets \cup {""} /\ r.ask \in Asks \cup {None} /\ r.cl \in ClientIds
      /\ r.amt \in Amounts \cup {0}
  BY <1>r DEF RequestTypes
<1>8. /\ b.cond \in {"none", "cross", "stop", "take", "oco", "trail"} /\ b.exec \in {"limit", "market"}
      /\ b.post \in BOOLEAN /\ b.tif \in {"", "IOC", "FOK"}
  BY <1>1 DEF Outcomes
<1>9. NewOrder(r, b) \in OrderTypes
  <2> DEFINE num == 1 + Cardinality({i \in DOMAIN orders :
                                      orders[i].mkt = r.mkt /\ orders[i].space = b.space})
             sz == SizeOf(r.mkt, b.space, r.amt)
             sta == IF b.exec = "market" /\ b.cond = "none" THEN "ended" ELSE "open"
             by == <<r.c, r.k>>
             N == Nat
             Bool == BOOLEAN
             Open == {"open", "ended"}
             Spaces == {"regular", "algo"}
             Conds == {"none", "cross", "stop", "take", "oco", "trail"}
             Execs == {"limit", "market"}
             Tifs == {"", "IOC", "FOK"}
             Amts == Amounts \cup {0}
             Bys == Callers \X Nat
             Mkts == Markets \cup {""}
             Args0 == Asks \cup {None}
  <2>1. NewOrder(r, b) =
        [mkt |-> r.mkt, space |-> b.space, ask |-> r.ask, by |-> by, cl |-> r.cl, n |-> num,
         cond |-> b.cond, exec |-> b.exec, post |-> b.post, tif |-> b.tif, want |-> r.amt,
         sz |-> sz, status |-> sta]
    BY Zenon DEF NewOrder
  <2>2. /\ num \in N /\ sz \in N /\ sta \in Open /\ b.post \in Bool /\ r.amt \in Amts /\ by \in Bys
        /\ r.mkt \in Mkts /\ b.space \in Spaces /\ r.ask \in Args0 /\ r.cl \in ClientIds
        /\ b.cond \in Conds /\ b.exec \in Execs /\ b.tif \in Tifs
    BY <1>2, <1>3, <1>5, <1>6, <1>7, <1>8
  <2>3. OrderTypes =
        [mkt : Mkts, space : Spaces, ask : Args0, by : Bys, cl : ClientIds, n : N, cond : Conds,
         exec : Execs, post : Bool, tif : Tifs, want : Amts, sz : N, status : Open]
    BY Zenon DEF OrderTypes
  <2> HIDE DEF num, sz, sta, by, N, Bool, Open, Spaces, Conds, Execs, Tifs, Amts, Bys, Mkts, Args0
  <2>4. QED
    BY ONLY <2>1, <2>2, <2>3
<1>10. QED
  BY <1>1, <1>9 DEF NewOrder

-------------------------------------------------------------------------------
\* What a step does to the call of a caller: the calls of the others go on,
Others(c) == \A d \in Callers \ {c} : call'[d] = call[d]

\* one begins,
Begun(c) ==
  /\ call[c].pc = "idle" /\ call'[c].pc = (IF Overrides(c) THEN "swap" ELSE "look")
  /\ call'[c].k = call[c].k + 1 /\ call'[c].stage = 1 /\ call'[c].got = "nothing"
  /\ Aims(call'[c].op) => <<call'[c].tgt, call'[c].pre>> \in known[c]

\* is over,
Over(c) == call[c].pc \in {"send", "wait"} /\ call'[c].pc = "idle" /\ call'[c].k = call[c].k

\* or goes on with what it is about.
Same(c) ==
  /\ call'[c].k = call[c].k /\ call'[c].op = call[c].op /\ call'[c].tgt = call[c].tgt
  /\ call'[c].pre = call[c].pre
  /\ call'[c].cl = call[c].cl /\ call'[c].got = call[c].got

LEMMA BeginStep ==
  ASSUME OrdersTypeOK, NEW c \in Callers, NEW op \in Ops, NEW args \in Asks \cup {None},
         NEW cl \in BOOLEAN, NEW tgt \in Nat, NEW pre \in BOOLEAN, NEW amt \in Amounts \cup {0},
         Aims(op) => <<tgt, pre>> \in known[c], Begin(c, op, args, cl, <<tgt, pre>>, amt)
  PROVE  call' \in [Callers -> CallTypes] /\ Others(c) /\ Begun(c) /\ call'[c].op = op /\ call'[c].ask = args
<1>1. call \in [Callers -> CallTypes]
  BY DEF OrdersTypeOK
<1>2. call[c].k \in Nat
  BY <1>1 DEF CallTypes
<1> DEFINE pc == IF Overrides(c) THEN "swap" ELSE "look"
<1>3. call' = [call EXCEPT ![c] =
        [pc |-> pc, op |-> op, k |-> call[c].k + 1, cl |-> cl, ask |-> args, tgt |-> tgt, pre |-> pre,
         amt |-> amt, back |-> "", mkt |-> "", sends |-> 0, stage |-> 1, got |-> "nothing"]]
  BY DEF Begin
<1>4. pc \in {"swap", "look"}
  OBVIOUS
<1> HIDE DEF pc
<1>5. [pc |-> pc, op |-> op, k |-> call[c].k + 1, cl |-> cl, ask |-> args, tgt |-> tgt, pre |-> pre,
       amt |-> amt, back |-> "", mkt |-> "", sends |-> 0, stage |-> 1, got |-> "nothing"] \in CallTypes
  <2>1. call[c].k + 1 \in Nat
    BY <1>2
  <2>2. QED
    BY <1>4, <2>1 DEF CallTypes
<1>6. call' \in [Callers -> CallTypes] /\ Others(c)
  BY <1>1, <1>3, <1>5 DEF Others
<1>7. /\ call'[c].pc = pc /\ call'[c].op = op /\ call'[c].k = call[c].k + 1 /\ call'[c].ask = args
      /\ call'[c].tgt = tgt /\ call'[c].pre = pre /\ call'[c].stage = 1 /\ call'[c].got = "nothing"
  BY <1>1, <1>3
<1>8. call[c].pc = "idle"
  BY DEF Begin
<1>9. QED
  BY <1>6, <1>7, <1>8 DEF Begun, pc

\* GetArgsMarket, the request and its retries: the call goes on.
LEMMA SwapStep ==
  ASSUME OrdersTypeOK, NEW c \in Callers, Swap(c)
  PROVE  /\ call' \in [Callers -> CallTypes] /\ mt' \in MarketArgs /\ mt' = wants[c].over
         /\ Others(c) /\ Same(c) /\ call'[c].ask = call[c].ask /\ call[c].pc = "swap"
         /\ call'[c].pc = "look" /\ call'[c].back = mt /\ call'[c].stage = call[c].stage
         /\ call'[c].mkt = call[c].mkt
<1>1. call \in [Callers -> CallTypes] /\ mt \in MarketArgs /\ wants[c] \in Wanted
  BY DEF OrdersTypeOK
<1>2. wants[c].over \in MarketArgs
  BY <1>1, OrdersAssumption
<1>3. call' = [call EXCEPT ![c] = [call[c] EXCEPT !.pc = "look", !.back = mt]] /\ call[c] \in CallTypes
  BY <1>1 DEF Swap
<1>4. [call[c] EXCEPT !.pc = "look", !.back = mt] \in CallTypes
  BY <1>1, <1>3 DEF CallTypes, Markets, MarketArgs
<1>5. call' \in [Callers -> CallTypes] /\ Others(c) /\ Same(c) /\ call'[c].ask = call[c].ask
      /\ call'[c].pc = "look" /\ call'[c].back = mt /\ call'[c].mkt = call[c].mkt
      /\ call'[c].stage = call[c].stage
  BY ZenonT(30), <1>1, <1>3, <1>4 DEF Others, Same, CallTypes
<1>6. QED
  BY <1>2, <1>5 DEF Swap

LEMMA LookStep ==
  ASSUME OrdersTypeOK, NEW c \in Callers, Look(c)
  PROVE  /\ call' \in [Callers -> CallTypes]
         /\ Others(c) /\ Same(c) /\ call'[c].ask = call[c].ask /\ call[c].pc = "look"
         /\ call'[c].pc = (IF Overrides(c) THEN "restore" ELSE "send") /\ call'[c].back = call[c].back
         /\ call'[c].mkt = Resolve(wants[c].sym, mt) /\ call'[c].stage = call[c].stage
<1>1. call \in [Callers -> CallTypes]
  BY DEF OrdersTypeOK
<1> DEFINE pc == IF Overrides(c) THEN "restore" ELSE "send"
           m == Resolve(wants[c].sym, mt)
<1>2. pc \in {"restore", "send"} /\ m \in Markets
  BY DEF Resolve, Markets
<1>3. call' = [call EXCEPT ![c] = [call[c] EXCEPT !.pc = pc, !.mkt = m]] /\ call[c] \in CallTypes
      /\ call[c].pc = "look"
  BY <1>1 DEF Look
<1> HIDE DEF pc, m
<1>4. [call[c] EXCEPT !.pc = pc, !.mkt = m] \in CallTypes
  BY <1>2, <1>3 DEF CallTypes
<1>5. call' \in [Callers -> CallTypes] /\ Others(c) /\ Same(c) /\ call'[c].ask = call[c].ask
      /\ call'[c].pc = pc /\ call'[c].back = call[c].back /\ call'[c].mkt = m
      /\ call'[c].stage = call[c].stage
  BY <1>1, <1>3, <1>4 DEF Others, Same, CallTypes
<1>6. QED
  BY <1>3, <1>5 DEF pc, m

LEMMA RestoreStep ==
  ASSUME OrdersTypeOK, NEW c \in Callers, Restore(c)
  PROVE  /\ call' \in [Callers -> CallTypes] /\ mt' = call[c].back
         /\ Others(c) /\ Same(c) /\ call'[c].ask = call[c].ask /\ call[c].pc = "restore"
         /\ call'[c].pc = "send" /\ call'[c].mkt = call[c].mkt /\ call'[c].stage = call[c].stage
<1>1. call \in [Callers -> CallTypes]
  BY DEF OrdersTypeOK
<1>2. call' = [call EXCEPT ![c] = [call[c] EXCEPT !.pc = "send"]] /\ call[c] \in CallTypes
  BY <1>1 DEF Restore
<1>3. [call[c] EXCEPT !.pc = "send"] \in CallTypes
  BY <1>2 DEF CallTypes
<1>4. call' \in [Callers -> CallTypes] /\ Others(c) /\ Same(c) /\ call'[c].ask = call[c].ask
      /\ call'[c].pc = "send" /\ call'[c].mkt = call[c].mkt /\ call'[c].stage = call[c].stage
  BY <1>1, <1>2, <1>3 DEF Others, Same, CallTypes
<1>5. QED
  BY <1>4 DEF Restore

LEMMA SendStep ==
  ASSUME OrdersTypeOK, NEW c \in Callers, Send(c)
  PROVE  /\ call' \in [Callers -> CallTypes] /\ flight' = flight \cup {Message(c)}
         /\ Others(c) /\ Same(c) /\ call'[c].ask = call[c].ask /\ call[c].pc = "send"
         /\ call'[c].pc = "wait" /\ call'[c].mkt = call[c].mkt /\ call'[c].stage = call[c].stage
<1>1. call \in [Callers -> CallTypes]
  BY DEF OrdersTypeOK
<1> DEFINE n == call[c].sends + 1
<1>2. call' = [call EXCEPT ![c] = [call[c] EXCEPT !.pc = "wait", !.sends = n]] /\ call[c] \in CallTypes
  BY <1>1 DEF Send
<1>n. n \in Nat
  <2>1. call[c].sends \in Nat
    BY ONLY <1>2 DEF CallTypes
  <2>2. QED
    BY <2>1
<1> HIDE DEF n
<1>3. [call[c] EXCEPT !.pc = "wait", !.sends = n] \in CallTypes
  BY <1>2, <1>n DEF CallTypes
<1>4. call' \in [Callers -> CallTypes] /\ Others(c) /\ Same(c) /\ call'[c].ask = call[c].ask
      /\ call'[c].pc = "wait" /\ call'[c].mkt = call[c].mkt /\ call'[c].stage = call[c].stage
  BY <1>1, <1>2, <1>3 DEF Others, Same, CallTypes
<1>5. QED
  BY <1>4 DEF Send

\* what is sent again, and what goes on to the next request
LEMMA NextStage ==
  ASSUME OrdersTypeOK, NEW c \in Callers, call[c].pc = "wait",
         call' = [call EXCEPT ![c].pc = "send", ![c].sends = 0, ![c].stage = @ + 1]
  PROVE  /\ call' \in [Callers -> CallTypes]
         /\ Others(c) /\ Same(c) /\ call'[c].ask = call[c].ask
         /\ call'[c].pc = "send" /\ call'[c].mkt = call[c].mkt /\ call'[c].stage = call[c].stage + 1
<1>1. call \in [Callers -> CallTypes]
  BY DEF OrdersTypeOK
<1> DEFINE n == call[c].stage + 1
           d == [call[c] EXCEPT !.pc = "send", !.sends = 0]
           e == [d EXCEPT !.stage = n]
<1>2. call' = [call EXCEPT ![c] = e] /\ call[c] \in CallTypes
  BY <1>1
<1>n. n \in Nat
  <2>1. call[c].stage \in Nat
    BY ONLY <1>2 DEF CallTypes
  <2>2. QED
    BY <2>1
<1>d. d \in CallTypes /\ d.pc = "send" /\ d.k = call[c].k /\ d.op = call[c].op
      /\ d.tgt = call[c].tgt /\ d.pre = call[c].pre /\ d.cl = call[c].cl /\ d.got = call[c].got /\ d.ask = call[c].ask
      /\ d.mkt = call[c].mkt
  BY ONLY <1>2 DEF CallTypes
<1> HIDE DEF n, d
<1>e. e \in CallTypes /\ e.pc = d.pc /\ e.k = d.k /\ e.op = d.op /\ e.tgt = d.tgt /\ e.cl = d.cl
      /\ e.pre = d.pre /\ e.got = d.got /\ e.ask = d.ask /\ e.mkt = d.mkt /\ e.stage = n
  BY ONLY <1>d, <1>n DEF CallTypes
<1> HIDE DEF e
<1>3. call' \in [Callers -> CallTypes] /\ Others(c) /\ call'[c] = e
  BY ZenonT(30), <1>1, <1>2, <1>e DEF Others
<1>4. QED
  BY <1>3, <1>d, <1>e DEF Same, n

LEMMA SendAgain ==
  ASSUME OrdersTypeOK, NEW c \in Callers, call[c].pc = "wait", call' = [call EXCEPT ![c].pc = "send"]
  PROVE  /\ call' \in [Callers -> CallTypes]
         /\ Others(c) /\ Same(c) /\ call'[c].ask = call[c].ask
         /\ call'[c].pc = "send" /\ call'[c].mkt = call[c].mkt /\ call'[c].stage = call[c].stage
<1>1. call \in [Callers -> CallTypes]
  BY DEF OrdersTypeOK
<1>2. call' = [call EXCEPT ![c] = [call[c] EXCEPT !.pc = "send"]] /\ call[c] \in CallTypes
  BY <1>1
<1>3. [call[c] EXCEPT !.pc = "send"] \in CallTypes
  BY <1>2 DEF CallTypes
<1>4. call' \in [Callers -> CallTypes] /\ Others(c) /\ Same(c) /\ call'[c].ask = call[c].ask
      /\ call'[c].pc = "send" /\ call'[c].mkt = call[c].mkt /\ call'[c].stage = call[c].stage
  BY ONLY <1>1, <1>2, <1>3 DEF Others, Same, CallTypes
<1>5. QED
  BY <1>4

\* A step begins a call, ends one, or brings one further,
CallGoes ==
  \/ call' = call
  \/ \E c \in Callers : Others(c) /\
       \/ Begun(c)
       \/ Over(c)
       \/ Same(c) /\ call[c].pc \in {"send", "wait"} /\ call'[c].pc \in {"send", "wait"}
          /\ call'[c].mkt = call[c].mkt

\* and touches e.MarketType in GetArgsMarket only.
CallStep ==
  \/ CallGoes /\ UNCHANGED mt
  \/ \E c \in Callers : /\ Others(c) /\ Same(c) /\ call[c].pc \in {"swap", "look", "restore"}
                        /\ call'[c].pc \in {"look", "restore", "send"}
                        /\ Swap(c) \/ Look(c) \/ Restore(c)

\* The answer to a request finds the call that waits for it, or nobody.
Answered(r) ==
  \/ call' = call
  \/ Waits(r) /\ \E res \in {"nothing", "found"} : call' = Ended(r.c, res)
  \/ Waits(r) /\ call' = Missed(r)
  \/ Waits(r) /\ call' = [call EXCEPT ![r.c].pc = "send", ![r.c].sends = 0, ![r.c].stage = @ + 1]

LEMMA AnswerStep ==
  ASSUME OrdersTypeOK, NEW r \in flight, Answered(r)
  PROVE  /\ call' \in [Callers -> CallTypes] /\ CallGoes
         /\ \A c \in Callers : call'[c].op = "create" => call'[c].ask \in Asks
<1>1. r.c \in Callers /\ r \in RequestTypes /\ call \in [Callers -> CallTypes]
      /\ \A c \in Callers : call[c].op = "create" => call[c].ask \in Asks
  BY DEF OrdersTypeOK, RequestTypes
<1>2. CASE call' = call
  BY <1>1, <1>2 DEF CallGoes
<1>3. ASSUME Waits(r), NEW res \in {"nothing", "found"}, call' = Ended(r.c, res)
      PROVE  /\ call' \in [Callers -> CallTypes] /\ CallGoes
             /\ \A c \in Callers : call'[c].op = "create" => call'[c].ask \in Asks
  <2>1. call' \in [Callers -> CallTypes] /\ Over(r.c) /\ Others(r.c)
    BY <1>1, <1>3, EndedTyped DEF Over, Others, Waits
  <2>2. call'[r.c].op = "none"
    BY <1>1, <1>3 DEF Ended, Idle
  <2>3. QED
    BY <1>1, <2>1, <2>2 DEF CallGoes, Others
<1>4. CASE Waits(r) /\ call' = [call EXCEPT ![r.c].pc = "send", ![r.c].sends = 0, ![r.c].stage = @ + 1]
  <2>1. /\ call' \in [Callers -> CallTypes] /\ Others(r.c) /\ Same(r.c)
        /\ call'[r.c].ask = call[r.c].ask /\ call'[r.c].pc = "send" /\ call'[r.c].mkt = call[r.c].mkt
        /\ call[r.c].pc = "wait"
    BY <1>1, <1>4, NextStage DEF Waits
  <2>2. QED
    BY <1>1, <2>1 DEF CallGoes, Others, Same
<1>5. CASE Waits(r) /\ call' = Missed(r)
  <2>1. call' \in [Callers -> CallTypes] /\ Over(r.c) /\ Others(r.c) /\ call'[r.c].op = "none"
    BY <1>1, <1>5, MissedTyped DEF Over, Others, Waits
  <2>2. QED
    BY <1>1, <2>1 DEF CallGoes, Others
<1>6. QED
  BY <1>2, <1>3, <1>4, <1>5 DEF Answered

\* of a call over
LEMMA OverStep ==
  ASSUME OrdersTypeOK, NEW c \in Callers, NEW res \in {"nothing", "found", "missing"},
         call[c].pc \in {"send", "wait"}, call' = Ended(c, res)
  PROVE  /\ call' \in [Callers -> CallTypes] /\ CallGoes
         /\ \A d \in Callers : call'[d].op = "create" => call'[d].ask \in Asks
<1>1. call \in [Callers -> CallTypes]
      /\ \A d \in Callers : call[d].op = "create" => call[d].ask \in Asks
  BY DEF OrdersTypeOK
<1>2. call' \in [Callers -> CallTypes] /\ Over(c) /\ Others(c)
  BY <1>1, EndedTyped DEF Over, Others
<1>3. call'[c].op = "none"
  BY <1>1 DEF Ended, Idle
<1>4. QED
  BY <1>1, <1>2, <1>3 DEF CallGoes, Others

LEMMA BeginKind ==
  ASSUME OrdersTypeOK, NEW c \in Callers, Create(c) \/ Edit(c) \/ Request(c) \/ List(c)
  PROVE  /\ call' \in [Callers -> CallTypes] /\ Others(c) /\ Begun(c)
         /\ \A d \in Callers : call'[d].op = "create" => call'[d].ask \in Asks
         /\ UNCHANGED <<exg, dflt, mt, wants, known, flight, orders>>
<1>1. /\ call \in [Callers -> CallTypes]
      /\ \A d \in Callers : call[d].op = "create" => call[d].ask \in Asks
      /\ known[c] \subseteq Nat \X BOOLEAN
  <2>1. DOMAIN orders = 1..Len(orders)
    BY DEF OrdersTypeOK
  <2>2. QED
    BY <2>1 DEF OrdersTypeOK
<1>2. PICK op \in Ops, args \in Asks \cup {None}, cl \in BOOLEAN, tgt \in Nat, pre \in BOOLEAN,
           amt \in Amounts \cup {0} :
        /\ Begin(c, op, args, cl, <<tgt, pre>>, amt)
        /\ Aims(op) => <<tgt, pre>> \in known[c]
        /\ op = "create" => args \in Asks
  <2>1. CASE Create(c)
    <3>1. PICK a \in Asks, given \in BOOLEAN, amt \in Amounts :
            Begin(c, "create", a, given \/ (exg = "binance" /\ Binance!HasClientId(given)), <<0, FALSE>>, amt)
      BY <2>1 DEF Create, NoId
    <3>2. (given \/ (exg = "binance" /\ Binance!HasClientId(given))) \in BOOLEAN
      OBVIOUS
    <3>3. QED
      BY <3>1, <3>2 DEF Ops, Aims
  <2>2. CASE Edit(c)
    <3>1. PICK i \in known[c], amt \in Amounts : Begin(c, "edit", None, FALSE, i, amt)
      BY <2>2 DEF Edit
    <3>2. PICK tgt \in Nat, pre \in BOOLEAN : i = <<tgt, pre>>
      BY <1>1, <3>1
    <3>3. QED
      BY <3>1, <3>2 DEF Ops
  <2>3. CASE Request(c)
    <3>1. PICK i \in known[c], op \in {"cancel", "fetch"} : Begin(c, op, None, FALSE, i, 0)
      BY <2>3 DEF Request
    <3>2. PICK tgt \in Nat, pre \in BOOLEAN : i = <<tgt, pre>>
      BY <1>1, <3>1
    <3>3. QED
      BY <3>1, <3>2 DEF Ops
  <2>4. CASE List(c)
    BY <2>4 DEF List, NoId, Ops, Aims
  <2>5. QED
    BY <2>1, <2>2, <2>3, <2>4
<1>3. /\ call' \in [Callers -> CallTypes] /\ Others(c) /\ Begun(c) /\ call'[c].op = op
      /\ call'[c].ask = args
  BY <1>2, BeginStep
<1>4. \A d \in Callers : call'[d].op = "create" => call'[d].ask \in Asks
  BY <1>1, <1>2, <1>3 DEF Others
<1>5. QED
  BY <1>2, <1>3, <1>4 DEF Begin

\* A request is of the call it is sent by.
LEMMA MessageTyped ==
  ASSUME OrdersTypeOK, NEW c \in Callers
  PROVE  Message(c) \in RequestTypes
<1>1. call[c] \in CallTypes
  BY DEF OrdersTypeOK
<1> DEFINE d == call[c]
           s == d.sends + 1
           cl == IF d.cl THEN ClientId(c, d.k, s) ELSE None
           N == Nat
           Os == Ops \cup {"none"}
           Mkts == Markets \cup {""}
           As == Asks \cup {None}
           Amts == Amounts \cup {0}
           Bool == BOOLEAN
<1>2. /\ d.k \in N /\ d.op \in Os /\ d.stage \in N /\ d.mkt \in Mkts /\ d.tgt \in N /\ d.ask \in As
      /\ d.amt \in Amts /\ d.pre \in Bool
  BY <1>1 DEF CallTypes
<1>3. s \in N
  <2>1. d.sends \in Nat
    BY <1>1 DEF CallTypes
  <2>2. QED
    BY <2>1
<1>4. cl \in ClientIds
  BY <1>2 DEF ClientId, ClientIds
<1>5. Message(c) = [c |-> c, k |-> d.k, s |-> s, op |-> d.op, stage |-> d.stage, mkt |-> d.mkt,
                    tgt |-> d.tgt, pre |-> d.pre, ask |-> d.ask, amt |-> d.amt, cl |-> cl]
  BY Zenon DEF Message
<1>6. RequestTypes = [c : Callers, k : N, s : N, op : Os, stage : N, mkt : Mkts, tgt : N,
                      pre : Bool, ask : As, amt : Amts, cl : ClientIds]
  BY Zenon DEF RequestTypes
<1> HIDE DEF d, s, cl, N, Os, Mkts, As, Amts, Bool
<1>7. QED
  BY ONLY <1>2, <1>3, <1>4, <1>5, <1>6, c \in Callers

-------------------------------------------------------------------------------
\* What a step does to the orders: they stay where they are, what they are of and
\* what they are called, and what has ended stays so,
Named(p, o) == p.mkt = o.mkt /\ p.space = o.space /\ p.by = o.by /\ p.cl = o.cl /\ p.n = o.n

\* an order stays the one that was asked for, but for its amount,
Asked(p, o) ==
  /\ p.ask = o.ask /\ p.cond = o.cond /\ p.exec = o.exec /\ p.post = o.post
  /\ \/ p.want = o.want /\ p.sz = o.sz
     \/ p.want \in Amounts \cup {0} /\ p.sz = SizeOf(o.mkt, o.space, p.want)

Kept ==
  /\ DOMAIN orders' = DOMAIN orders
  /\ \A i \in DOMAIN orders :
       /\ Named(orders'[i], orders[i]) /\ Asked(orders'[i], orders[i])
       /\ orders[i].status = "ended" => orders'[i].status = "ended"

\* or one more is placed.
Added(r, b) ==
  /\ b \in Place(r.mkt, r.ask) /\ r.op = "create" /\ ~Duplicate(r) /\ b.space # "position"
  /\ orders' = Append(orders, NewOrder(r, b))

LEMMA MapTyped ==
  ASSUME orders \in Seq(OrderTypes), NEW f, f = [i \in DOMAIN orders |-> f[i]],
         \A i \in DOMAIN orders : f[i] \in OrderTypes
  PROVE  f \in Seq(OrderTypes) /\ DOMAIN f = DOMAIN orders
<1>1. DOMAIN orders = 1..Len(orders) /\ Len(orders) \in Nat
  OBVIOUS
<1>2. QED
  BY <1>1

\* Fields that change
LEMMA StatusChanged ==
  ASSUME NEW o \in OrderTypes, NEW p, p = [o EXCEPT !.status = "ended"]
  PROVE  p \in OrderTypes /\ Named(p, o) /\ Asked(p, o) /\ p.status = "ended"
<1>1. p \in OrderTypes /\ p.status = "ended"
  BY DEF OrderTypes
<1>2. p.mkt = o.mkt /\ p.space = o.space /\ p.by = o.by /\ p.cl = o.cl /\ p.n = o.n
  BY DEF OrderTypes
<1>3. /\ p.ask = o.ask /\ p.cond = o.cond /\ p.exec = o.exec /\ p.post = o.post
      /\ p.want = o.want /\ p.sz = o.sz
  BY DEF OrderTypes
<1>4. QED
  BY <1>1, <1>2, <1>3 DEF Named, Asked

\* Who sent the request learns these ids, or none.
Learns(r, ids) == known' = known \/ known' = [known EXCEPT ![r.c] = @ \cup ids]

LEMMA IdsTyped ==
  ASSUME OrdersTypeOK, NEW r \in flight, NEW ods \in SUBSET DOMAIN orders
  PROVE  /\ IdsOf(r, ods) \subseteq OrderIds /\ \A i \in IdsOf(r, ods) : i[1] \in ods
         /\ Told(r, IdsOf(r, ods)) \in {known, [known EXCEPT ![r.c] = @ \cup IdsOf(r, ods)]}
<1>1. \A op, o : Prefixed(op, o) \in BOOLEAN
  BY OrdersAssumption DEF Prefixed, Okx!Prefixed, Binance!Prefixed, Bybit!Prefixed, OrdersTypeOK
<1>2. QED
  BY <1>1 DEF IdsOf, OrderIds, Told

LEMMA PlacedStep ==
  ASSUME OrdersTypeOK, NEW r \in flight, Placed(r)
  PROVE  /\ Answered(r)
         /\ \/ UNCHANGED <<orders, known>>
            \/ \E b : \E p \in BOOLEAN : Added(r, b) /\ Learns(r, {<<Len(orders) + 1, p>>})
<1>1. \A op, o : Prefixed(op, o) \in BOOLEAN
  BY OrdersAssumption DEF Prefixed, Okx!Prefixed, Binance!Prefixed, Bybit!Prefixed, OrdersTypeOK
<1>2. PICK b \in Place(r.mkt, r.ask) :
        \/ UNCHANGED <<orders, known>>
        \/ Added(r, b) /\ Learns(r, {<<Len(orders) + 1, Prefixed("create", NewOrder(r, b))>>})
  BY DEF Placed, Added, Told, Learns
<1>3. Answered(r)
  BY DEF Placed, Answered
<1> DEFINE p == Prefixed("create", NewOrder(r, b))
<1>4. p \in BOOLEAN
  BY <1>1
<1>5. (UNCHANGED <<orders, known>>) \/ (Added(r, b) /\ Learns(r, {<<Len(orders) + 1, p>>}))
  BY <1>2
<1> HIDE DEF p
<1>6. (UNCHANGED <<orders, known>>) \/ \E q \in BOOLEAN : Added(r, b) /\ Learns(r, {<<Len(orders) + 1, q>>})
  BY <1>4, <1>5
<1>7. QED
  BY <1>3, <1>6

LEMMA CanceledStep ==
  ASSUME OrdersTypeOK, NEW r \in flight, Canceled(r)
  PROVE  /\ Answered(r)
         /\ Kept /\ orders' \in Seq(OrderTypes) /\ \E ods \in SUBSET Touched(r) : Learns(r, IdsOf(r, ods))
<1>1. orders \in Seq(OrderTypes) /\ \A i \in DOMAIN orders : orders[i] \in OrderTypes
  BY DEF OrdersTypeOK
<1>2. orders' = [i \in DOMAIN orders |->
        IF i \in Touched(r) /\ orders[i].status = "open" THEN [orders[i] EXCEPT !.status = "ended"]
        ELSE orders[i]]
  BY DEF Canceled
<1>3. ASSUME NEW i \in DOMAIN orders
      PROVE  /\ orders'[i] \in OrderTypes
             /\ Named(orders'[i], orders[i]) /\ Asked(orders'[i], orders[i])
             /\ orders[i].status = "ended" => orders'[i].status = "ended"
  <2>1. orders'[i] = orders[i] \/ orders'[i] = [orders[i] EXCEPT !.status = "ended"]
    BY <1>2
  <2>2. orders[i] \in OrderTypes
    BY <1>1
  <2>3. CASE orders'[i] = [orders[i] EXCEPT !.status = "ended"]
    BY <2>2, <2>3, StatusChanged
  <2>4. QED
    BY <2>1, <2>2, <2>3 DEF Named, Asked
<1>4. orders' \in Seq(OrderTypes) /\ DOMAIN orders' = DOMAIN orders
  <2>1. orders' = [i \in DOMAIN orders |-> orders'[i]]
    BY <1>2
  <2>2. QED
    BY <1>1, <1>3, <2>1, MapTyped
<1>5. Kept
  BY <1>3, <1>4 DEF Kept
<1>6. \E ods \in SUBSET Touched(r) : Learns(r, IdsOf(r, ods))
  BY DEF Canceled, Told, Learns
<1>7. QED
  BY <1>4, <1>5, <1>6 DEF Canceled, Answered

LEMMA EditedStep ==
  ASSUME OrdersTypeOK, NEW r \in flight, Edited(r)
  PROVE  /\ Answered(r)
         /\ Kept /\ orders' \in Seq(OrderTypes) /\ \E ods \in SUBSET Touched(r) : Learns(r, IdsOf(r, ods))
<1>1. /\ orders \in Seq(OrderTypes) /\ \A i \in DOMAIN orders : orders[i] \in OrderTypes
      /\ r.amt \in Amounts \cup {0}
  <2>1. r \in RequestTypes
    BY DEF OrdersTypeOK
  <2>2. r.amt \in Amounts \cup {0}
    BY ONLY <2>1 DEF RequestTypes
  <2>3. orders \in Seq(OrderTypes) /\ \A i \in DOMAIN orders : orders[i] \in OrderTypes
    BY DEF OrdersTypeOK
  <2>4. QED
    BY ONLY <2>2, <2>3
<1>2. orders' = [i \in DOMAIN orders |->
        IF i \in Touched(r) /\ orders[i].status = "open"
          THEN [orders[i] EXCEPT !.want = r.amt, !.sz = SizeOf(r.mkt, orders[i].space, r.amt)]
          ELSE orders[i]]
  BY DEF Edited
<1>3. ASSUME NEW i \in DOMAIN orders
      PROVE  /\ orders'[i] \in OrderTypes
             /\ Named(orders'[i], orders[i]) /\ Asked(orders'[i], orders[i])
             /\ orders[i].status = "ended" => orders'[i].status = "ended"
  <2> DEFINE z == SizeOf(r.mkt, orders[i].space, r.amt)
  <2>1. orders'[i] = orders[i] \/ orders'[i] = [orders[i] EXCEPT !.want = r.amt, !.sz = z]
    BY <1>2
  <2>2. orders[i] \in OrderTypes
    BY <1>1
  <2>3. z \in Nat
    BY <1>1, SizeTyped
  <2> HIDE DEF z
  <2>4. CASE orders'[i] = [orders[i] EXCEPT !.want = r.amt, !.sz = z]
    <3> DEFINE o == orders[i]  p == orders'[i]  w == r.amt
    <3>1. o \in OrderTypes /\ w \in Amounts \cup {0} /\ z \in Nat /\ p = [o EXCEPT !.want = w, !.sz = z]
      BY <1>1, <2>2, <2>3, <2>4
    <3> HIDE DEF o, p, w
    <3>2. p \in OrderTypes
      BY ONLY <3>1 DEF OrderTypes
    <3>3. p.mkt = o.mkt /\ p.space = o.space /\ p.by = o.by /\ p.cl = o.cl /\ p.n = o.n
          /\ p.status = o.status
      BY ONLY <3>1 DEF OrderTypes
    <3>4. p.ask = o.ask /\ p.cond = o.cond /\ p.exec = o.exec /\ p.post = o.post
          /\ p.want = w /\ p.sz = z
      BY ONLY <3>1 DEF OrderTypes
    <3>5. Named(p, o)
      BY <3>3 DEF Named
    <3>6. CASE p = o
      BY <3>2, <3>3, <3>5, <3>6 DEF Asked, o, p
    <3>7. CASE p # o
      <4>1. z = SizeOf(o.mkt, o.space, w)
        <5>1. i \in Touched(r)
          BY <1>2, <3>7 DEF o, p
        <5>2. orders[i].mkt = r.mkt
          BY <5>1 DEF Touched
        <5>3. QED
          BY <5>2 DEF z, o, w
      <4>2. Asked(p, o)
        BY <3>1, <3>4, <4>1 DEF Asked
      <4>3. QED
        BY <3>2, <3>3, <3>5, <4>2 DEF o, p
    <3>8. QED
      BY <3>2, <3>3, <3>5, <3>6, <3>7 DEF o, p
  <2>5. QED
    BY <2>1, <2>2, <2>4 DEF Named, Asked
<1>4. orders' \in Seq(OrderTypes) /\ DOMAIN orders' = DOMAIN orders
  <2>1. orders' = [i \in DOMAIN orders |-> orders'[i]]
    BY <1>2
  <2>2. QED
    BY <1>1, <1>3, <2>1, MapTyped
<1>5. Kept
  BY <1>3, <1>4 DEF Kept
<1>6. \E ods \in SUBSET Touched(r) : Learns(r, IdsOf(r, ods))
  BY DEF Edited, Told, Learns
<1>7. QED
  BY <1>4, <1>5, <1>6 DEF Edited, Answered

LEMMA EndStep ==
  ASSUME OrdersTypeOK, End
  PROVE  /\ Kept /\ orders' \in Seq(OrderTypes)
         /\ UNCHANGED <<exg, dflt, mt, wants, call, known, flight>>
<1>1. orders \in Seq(OrderTypes) /\ \A i \in DOMAIN orders : orders[i] \in OrderTypes
  BY DEF OrdersTypeOK
<1>2. PICK i \in DOMAIN orders : orders' = [orders EXCEPT ![i].status = "ended"]
  BY DEF End
<1>3. ASSUME NEW j \in DOMAIN orders
      PROVE  /\ orders'[j] \in OrderTypes
             /\ Named(orders'[j], orders[j]) /\ Asked(orders'[j], orders[j])
             /\ orders[j].status = "ended" => orders'[j].status = "ended"
  <2>1. orders'[j] = orders[j] \/ orders'[j] = [orders[j] EXCEPT !.status = "ended"]
    BY <1>2
  <2>2. orders[j] \in OrderTypes
    BY <1>1
  <2>3. CASE orders'[j] = [orders[j] EXCEPT !.status = "ended"]
    BY <2>2, <2>3, StatusChanged
  <2>4. QED
    BY <2>1, <2>2, <2>3 DEF Named, Asked
<1>4. orders' \in Seq(OrderTypes) /\ DOMAIN orders' = DOMAIN orders
  <2>1. orders' = [j \in DOMAIN orders |-> orders'[j]]
    BY <1>2
  <2>2. QED
    BY <1>1, <1>3, <2>1, MapTyped
<1>5. Kept
  BY <1>3, <1>4 DEF Kept
<1>6. QED
  BY <1>4, <1>5 DEF End

LEMMA FetchedStep ==
  ASSUME OrdersTypeOK, NEW r \in flight, Fetched(r)
  PROVE  Answered(r) /\ UNCHANGED orders /\ \E ods \in SUBSET Touched(r) : Learns(r, IdsOf(r, ods))
<1>1. \E ods \in SUBSET Touched(r) : Learns(r, IdsOf(r, ods))
  BY DEF Fetched, Told, Learns
<1>2. QED
  BY <1>1 DEF Fetched, Answered

LEMMA ListedStep ==
  ASSUME OrdersTypeOK, NEW r \in flight, FetchedOpen(r)
  PROVE  Answered(r) /\ UNCHANGED orders /\ Learns(r, IdsOf(r, Listed(r)))
BY DEF FetchedOpen, Answered, Told, Learns

-------------------------------------------------------------------------------
\* A step sends a request of a call that stands before it, or none; and the orders
\* are kept, or one is added.
FlightStep ==
  \/ flight' \subseteq flight
  \/ \E c \in Callers : /\ call[c].pc = "send" /\ flight' = flight \cup {Message(c)}
                        /\ Same(c) /\ Others(c) /\ call'[c].pc = "wait"
                        /\ call'[c].mkt = call[c].mkt /\ call'[c].ask = call[c].ask
                        /\ call'[c].stage = call[c].stage
                        /\ UNCHANGED <<orders, known>>
OrdersStep == Kept \/ \E r \in flight : \E b : Added(r, b)

LEMMA KeptSame == ASSUME orders' = orders PROVE Kept
BY DEF Kept, Named, Asked

LEMMA AddedTyped ==
  ASSUME OrdersTypeOK, NEW r \in flight, NEW b, Added(r, b)
  PROVE  /\ orders' \in Seq(OrderTypes) /\ Len(orders') = Len(orders) + 1
         /\ DOMAIN orders' = DOMAIN orders \cup {Len(orders) + 1}
         /\ Len(orders) + 1 \notin DOMAIN orders
         /\ \A i \in DOMAIN orders : orders'[i] = orders[i]
         /\ orders'[Len(orders) + 1] = NewOrder(r, b)
<1>1. orders \in Seq(OrderTypes)
  BY DEF OrdersTypeOK
<1>2. NewOrder(r, b) \in OrderTypes
  BY NewTyped DEF Added
<1>3. QED
  BY <1>1, <1>2 DEF Added

\* The requests on their way, and who sent them
FlightTyped ==
  flight' \subseteq RequestTypes /\ \A r \in flight' : r.op = "create" => r.ask \in Asks

\* The ids a caller learns are of orders of the market of the request.
Learned(r) ==
  \E ids \in SUBSET OrderIds' : Learns(r, ids) /\ \A i \in ids : orders'[i[1]].mkt = r.mkt

LEMMA LearnsOf ==
  ASSUME OrdersTypeOK, NEW r \in flight, Kept, NEW ods \in SUBSET DOMAIN orders,
         \A i \in ods : orders[i].mkt = r.mkt, Learns(r, IdsOf(r, ods))
  PROVE  Learned(r)
<1>1. IdsOf(r, ods) \subseteq OrderIds /\ \A i \in IdsOf(r, ods) : i[1] \in ods
  BY IdsTyped
<1>2. OrderIds' = OrderIds /\ \A i \in ods : orders'[i].mkt = r.mkt
  BY DEF Kept, Named, OrderIds
<1> HIDE DEF IdsOf, Learns
<1>3. QED
  BY <1>1, <1>2 DEF Learned

\* What the exchange does with a request
LEMMA ExecuteStep ==
  ASSUME OrdersTypeOK, NEW r \in flight, flight' = flight \ {r},
         Placed(r) \/ Canceled(r) \/ Edited(r) \/ Fetched(r) \/ FetchedOpen(r)
  PROVE  /\ Answered(r) /\ orders' \in Seq(OrderTypes)
         /\ known' \in [Callers -> SUBSET OrderIds'] /\ FlightTyped
         /\ OrdersStep /\ Learned(r)
<1>0. /\ orders \in Seq(OrderTypes) /\ known \in [Callers -> SUBSET OrderIds] /\ r.c \in Callers
      /\ FlightTyped
  BY DEF OrdersTypeOK, RequestTypes, FlightTyped, OrderIds
<1>1. Answered(r) /\ orders' \in Seq(OrderTypes) /\ OrdersStep /\ Learned(r) /\ OrderIds \subseteq OrderIds'
  <2>1. CASE Placed(r)
    <3>1. CASE UNCHANGED <<orders, known>>
      BY <1>0, <2>1, <3>1, PlacedStep, KeptSame DEF OrdersStep, Learned, Learns, OrderIds
    <3>2. ASSUME NEW b, NEW p \in BOOLEAN, Added(r, b), Learns(r, {<<Len(orders) + 1, p>>})
          PROVE  orders' \in Seq(OrderTypes) /\ OrdersStep /\ Learned(r) /\ OrderIds \subseteq OrderIds'
      <4>1. /\ orders' \in Seq(OrderTypes) /\ DOMAIN orders' = DOMAIN orders \cup {Len(orders) + 1}
            /\ orders'[Len(orders) + 1] = NewOrder(r, b)
        BY <3>2, AddedTyped
      <4>2. {<<Len(orders) + 1, p>>} \in SUBSET OrderIds' /\ OrderIds \subseteq OrderIds'
        BY <4>1 DEF OrderIds
      <4>3. \A i \in {<<Len(orders) + 1, p>>} : orders'[i[1]].mkt = r.mkt
        BY <4>1 DEF NewOrder
      <4>4. Learned(r)
        BY <3>2, <4>2, <4>3 DEF Learned
      <4>5. QED
        BY <3>2, <4>1, <4>2, <4>4 DEF OrdersStep
    <3>3. QED
      BY <1>0, <2>1, <3>1, <3>2, PlacedStep
  <2>2. CASE Canceled(r) \/ Edited(r) \/ Fetched(r)
    <3>1. /\ Answered(r) /\ Kept /\ orders' \in Seq(OrderTypes)
          /\ \E ods \in SUBSET Touched(r) : Learns(r, IdsOf(r, ods))
      BY <1>0, <2>2, CanceledStep, EditedStep, FetchedStep, KeptSame
    <3>2. Touched(r) \subseteq DOMAIN orders /\ \A i \in Touched(r) : orders[i].mkt = r.mkt
      BY DEF Touched
    <3>3. Learned(r)
      BY <3>1, <3>2, LearnsOf
    <3>4. QED
      BY <3>1, <3>3 DEF OrdersStep, Kept, OrderIds
  <2>3. CASE FetchedOpen(r)
    <3>1. Answered(r) /\ Kept /\ orders' \in Seq(OrderTypes) /\ Learns(r, IdsOf(r, Listed(r)))
      BY <1>0, <2>3, ListedStep, KeptSame
    <3>2. Listed(r) \subseteq DOMAIN orders /\ \A i \in Listed(r) : orders[i].mkt = r.mkt
      BY DEF Listed, OpenOf
    <3>3. Learned(r)
      BY <3>1, <3>2, LearnsOf
    <3>4. QED
      BY <3>1, <3>3 DEF OrdersStep, Kept, OrderIds
  <2>4. QED
    BY <2>1, <2>2, <2>3
<1>2. known' \in [Callers -> SUBSET OrderIds']
  BY <1>0, <1>1 DEF Learned, Learns
<1>3. QED
  BY <1>0, <1>1, <1>2

\* A step keeps the types, and is one of the kinds above.
LEMMA TypeStep ==
  ASSUME OrdersTypeOK, [Next]_vars
  PROVE  /\ OrdersTypeOK' /\ CallStep /\ FlightStep /\ OrdersStep
         /\ UNCHANGED <<exg, dflt, wants>>
<1>0. /\ exg \in Exchanges /\ dflt \in Markets /\ mt \in MarketArgs
      /\ wants \in [Callers -> Wanted]
      /\ call \in [Callers -> CallTypes] /\ flight \subseteq RequestTypes
      /\ orders \in Seq(OrderTypes) /\ known \in [Callers -> SUBSET OrderIds]
      /\ \A c \in Callers : call[c].op = "create" => call[c].ask \in Asks
      /\ \A r \in flight : r.op = "create" => r.ask \in Asks
  BY DEF OrdersTypeOK, OrderIds
<1>k. DOMAIN orders' = DOMAIN orders /\ UNCHANGED known => known' \in [Callers -> SUBSET OrderIds']
  BY <1>0 DEF OrderIds
<1>s. UNCHANGED flight => FlightTyped
  BY <1>0 DEF FlightTyped
<1>t. ASSUME UNCHANGED <<exg, dflt, wants>>, mt' \in MarketArgs, call' \in [Callers -> CallTypes],
             FlightTyped, orders' \in Seq(OrderTypes), known' \in [Callers -> SUBSET OrderIds'],
             \A d \in Callers : call'[d].op = "create" => call'[d].ask \in Asks
      PROVE  OrdersTypeOK'
  BY <1>0, <1>t DEF OrdersTypeOK, FlightTyped, RequestTypes, CallTypes, OrderTypes, ClientIds, OrderIds
<1>1. ASSUME NEW c \in Callers, Create(c) \/ Edit(c) \/ Request(c) \/ List(c)
      PROVE  /\ OrdersTypeOK' /\ CallStep /\ FlightStep /\ OrdersStep
             /\ UNCHANGED <<exg, dflt, wants>>
  BY <1>0, <1>k, <1>s, <1>t, <1>1, BeginKind, KeptSame DEF CallStep, CallGoes, FlightStep, OrdersStep
<1>2. ASSUME NEW c \in Callers, Swap(c)
      PROVE  /\ OrdersTypeOK' /\ CallStep /\ FlightStep /\ OrdersStep
             /\ UNCHANGED <<exg, dflt, wants>>
  <2>1. UNCHANGED <<exg, dflt, wants, known, flight, orders>>
    BY <1>2 DEF Swap
  <2>2. call' \in [Callers -> CallTypes] /\ Others(c) /\ Same(c) /\ call'[c].ask = call[c].ask
        /\ call[c].pc \in {"swap", "look", "restore"} /\ call'[c].pc \in {"look", "restore", "send"}
        /\ mt' \in MarketArgs
    BY <1>0, <1>2, <2>1, SwapStep
  <2>3. CallStep
    BY <1>2, <2>2 DEF CallStep
  <2>4. \A d \in Callers : call'[d].op = "create" => call'[d].ask \in Asks
    BY <1>0, <2>2 DEF Others, Same
  <2>5. QED
    BY <1>0, <1>k, <1>s, <1>t, <2>1, <2>2, <2>3, <2>4, KeptSame DEF FlightStep, OrdersStep
<1>3. ASSUME NEW c \in Callers, Look(c)
      PROVE  /\ OrdersTypeOK' /\ CallStep /\ FlightStep /\ OrdersStep
             /\ UNCHANGED <<exg, dflt, wants>>
  <2>1. UNCHANGED <<exg, dflt, wants, known, flight, orders>>
        /\ mt' = mt
    BY <1>3 DEF Look
  <2>2. call' \in [Callers -> CallTypes] /\ Others(c) /\ Same(c) /\ call'[c].ask = call[c].ask
        /\ call[c].pc \in {"swap", "look", "restore"} /\ call'[c].pc \in {"look", "restore", "send"}
        /\ mt' \in MarketArgs
    BY <1>0, <1>3, <2>1, LookStep
  <2>3. CallStep
    BY <1>3, <2>2 DEF CallStep
  <2>4. \A d \in Callers : call'[d].op = "create" => call'[d].ask \in Asks
    BY <1>0, <2>2 DEF Others, Same
  <2>5. QED
    BY <1>0, <1>k, <1>s, <1>t, <2>1, <2>2, <2>3, <2>4, KeptSame DEF FlightStep, OrdersStep
<1>4. ASSUME NEW c \in Callers, Restore(c)
      PROVE  /\ OrdersTypeOK' /\ CallStep /\ FlightStep /\ OrdersStep
             /\ UNCHANGED <<exg, dflt, wants>>
  <2>1. UNCHANGED <<exg, dflt, wants, known, flight, orders>>
    BY <1>4 DEF Restore
  <2>2. call' \in [Callers -> CallTypes] /\ Others(c) /\ Same(c) /\ call'[c].ask = call[c].ask
        /\ call[c].pc \in {"swap", "look", "restore"} /\ call'[c].pc \in {"look", "restore", "send"}
        /\ mt' = call[c].back
    BY <1>4, RestoreStep
  <2>m. mt' \in MarketArgs
    <3>1. call[c].back \in Markets \cup {""}
      BY <1>0 DEF CallTypes
    <3>2. QED
      BY <2>2, <3>1 DEF Markets, MarketArgs
  <2>3. CallStep
    BY <1>4, <2>2 DEF CallStep
  <2>4. \A d \in Callers : call'[d].op = "create" => call'[d].ask \in Asks
    BY <1>0, <2>2 DEF Others, Same
  <2>5. QED
    BY <1>0, <1>k, <1>s, <1>t, <2>1, <2>2, <2>m, <2>3, <2>4, KeptSame DEF FlightStep, OrdersStep
<1>5. ASSUME NEW c \in Callers, Refuse(c)
      PROVE  /\ OrdersTypeOK' /\ CallStep /\ FlightStep /\ OrdersStep
             /\ UNCHANGED <<exg, dflt, wants>>
  <2>1. UNCHANGED <<exg, dflt, mt, wants, known, flight, orders>> /\ call' = Ended(c, "nothing")
        /\ call[c].pc = "send"
    BY <1>5 DEF Refuse
  <2>2. QED
    BY <1>0, <1>k, <1>s, <1>t, <2>1, OverStep, KeptSame DEF CallStep, FlightStep, OrdersStep
<1>6. ASSUME NEW c \in Callers, Send(c)
      PROVE  /\ OrdersTypeOK' /\ CallStep /\ FlightStep /\ OrdersStep
             /\ UNCHANGED <<exg, dflt, wants>>
  <2>1. UNCHANGED <<exg, dflt, mt, wants, known, orders>>
    BY <1>6 DEF Send
  <2>2. call' \in [Callers -> CallTypes] /\ Others(c) /\ Same(c) /\ call'[c].ask = call[c].ask
        /\ call[c].pc = "send" /\ call'[c].pc = "wait" /\ call'[c].mkt = call[c].mkt
        /\ call'[c].stage = call[c].stage /\ flight' = flight \cup {Message(c)}
    BY <1>6, SendStep
  <2>3. CallStep /\ FlightStep /\ OrdersStep
    BY <2>1, <2>2, KeptSame DEF CallStep, CallGoes, FlightStep, OrdersStep
  <2>4. \A d \in Callers : call'[d].op = "create" => call'[d].ask \in Asks
    BY <1>0, <2>2 DEF Others, Same
  <2>5. FlightTyped
    <3>1. Message(c) \in RequestTypes
      BY MessageTyped
    <3>2. Message(c).op = call[c].op /\ Message(c).ask = call[c].ask
      BY DEF Message
    <3>3. QED
      BY <1>0, <2>2, <3>1, <3>2 DEF FlightTyped
  <2>6. QED
    BY <1>0, <1>k, <1>t, <2>1, <2>2, <2>3, <2>4, <2>5
<1>7. ASSUME NEW c \in Callers, TimeOut(c)
      PROVE  /\ OrdersTypeOK' /\ CallStep /\ FlightStep /\ OrdersStep
             /\ UNCHANGED <<exg, dflt, wants>>
  <2>1. UNCHANGED <<exg, dflt, mt, wants, known, flight, orders>> /\ call[c].pc = "wait"
    BY <1>7 DEF TimeOut
  <2>2. /\ call' \in [Callers -> CallTypes] /\ CallGoes
        /\ \A d \in Callers : call'[d].op = "create" => call'[d].ask \in Asks
    <3>1. CASE call' = [call EXCEPT ![c].pc = "send"]
      <4>1. /\ call' \in [Callers -> CallTypes] /\ Others(c) /\ Same(c) /\ call'[c].ask = call[c].ask
            /\ call'[c].pc = "send" /\ call'[c].mkt = call[c].mkt
        BY <2>1, <3>1, SendAgain
      <4>2. QED
        BY <1>0, <2>1, <4>1 DEF CallGoes, Others, Same
    <3>2. CASE call' = [call EXCEPT ![c].pc = "send", ![c].sends = 0, ![c].stage = @ + 1]
      <4>1. /\ call' \in [Callers -> CallTypes] /\ Others(c) /\ Same(c) /\ call'[c].ask = call[c].ask
            /\ call'[c].pc = "send" /\ call'[c].mkt = call[c].mkt
        BY <2>1, <3>2, NextStage
      <4>2. QED
        BY <1>0, <2>1, <4>1 DEF CallGoes, Others, Same
    <3>3. CASE call' = Ended(c, "nothing")
      BY <2>1, <3>3, OverStep
    <3>4. QED
      BY <1>7, <3>1, <3>2, <3>3 DEF TimeOut
  <2>3. QED
    BY <1>0, <1>k, <1>s, <1>t, <2>1, <2>2, KeptSame DEF CallStep, FlightStep, OrdersStep
<1>8. ASSUME Execute
      PROVE  /\ OrdersTypeOK' /\ CallStep /\ FlightStep /\ OrdersStep
             /\ UNCHANGED <<exg, dflt, wants>>
  <2>1. PICK r \in flight : /\ Placed(r) \/ Canceled(r) \/ Edited(r) \/ Fetched(r) \/ FetchedOpen(r)
                            /\ flight' = flight \ {r} /\ UNCHANGED <<exg, dflt, mt, wants>>
    BY <1>8 DEF Execute
  <2>2. QED
    BY <1>0, <1>t, <2>1, ExecuteStep, AnswerStep DEF CallStep, FlightStep
<1>9. ASSUME End
      PROVE  /\ OrdersTypeOK' /\ CallStep /\ FlightStep /\ OrdersStep
             /\ UNCHANGED <<exg, dflt, wants>>
  <2>1. /\ orders' \in Seq(OrderTypes) /\ DOMAIN orders' = DOMAIN orders /\ Kept
        /\ UNCHANGED <<exg, dflt, mt, wants, call, known, flight>>
    BY <1>9, EndStep DEF Kept
  <2>2. QED
    BY <1>0, <1>k, <1>s, <1>t, <2>1 DEF CallStep, CallGoes, FlightStep, OrdersStep
<1>10. ASSUME UNCHANGED vars
      PROVE  /\ OrdersTypeOK' /\ CallStep /\ FlightStep /\ OrdersStep
             /\ UNCHANGED <<exg, dflt, wants>>
  BY <1>0, <1>k, <1>s, <1>t, <1>10, KeptSame DEF vars, CallStep, CallGoes, FlightStep, OrdersStep
<1>11. QED
  BY <1>1, <1>2, <1>3, <1>4, <1>5, <1>6, <1>7, <1>8, <1>9, <1>10 DEF Next

-------------------------------------------------------------------------------
(* A call places one order at most.                                        *)

\* What a call is about changes only when it begins, and it begins with no request
\* on its way.
LEMMA OfCallStep ==
  ASSUME OrdersTypeOK, OrdersTypeOK', OfCall, CallStep, FlightStep
  PROVE  OfCall'
<1> DEFINE Of(r, f) ==
             /\ r.k <= f[r.c].k
             /\ r.k = f[r.c].k /\ f[r.c].pc # "idle" =>
                  /\ f[r.c].pc \in {"send", "wait"}
                  /\ r.op = f[r.c].op /\ r.tgt = f[r.c].tgt /\ r.pre = f[r.c].pre /\ r.mkt = f[r.c].mkt
                  /\ r.cl = IF f[r.c].cl THEN <<r.c, r.k>> ELSE None
<1>0. /\ call \in [Callers -> CallTypes] /\ \A c \in Callers : call[c].k \in Nat
      /\ \A r \in flight : r.c \in Callers /\ r.k \in Nat
  BY DEF OrdersTypeOK, CallTypes, RequestTypes
<1>1. OfCall <=> \A r \in flight : Of(r, call)
  BY DEF OfCall
<1>2. OfCall' <=> \A r \in flight' : Of(r, call')
  BY DEF OfCall
<1>3. ASSUME NEW r \in flight PROVE Of(r, call')
  <2>1. Of(r, call) /\ r.c \in Callers /\ r.k \in Nat /\ call[r.c].k \in Nat
    BY <1>0, <1>1
  <2>2. CASE call'[r.c] = call[r.c]
    BY <2>1, <2>2
  <2>3. CASE Begun(r.c)
    BY <2>1, <2>3 DEF Begun
  <2>4. CASE Over(r.c)
    BY <2>1, <2>4 DEF Over
  <2>5. CASE Same(r.c) /\ call[r.c].pc \in {"swap", "look", "restore"}
    <3>1. r.k # call[r.c].k
      BY <2>1, <2>5
    <3>2. QED
      BY <2>1, <2>5, <3>1 DEF Same
  <2>6. CASE Same(r.c) /\ call[r.c].pc \in {"send", "wait"} /\ call'[r.c].pc \in {"send", "wait"}
             /\ call'[r.c].mkt = call[r.c].mkt
    BY <2>1, <2>6 DEF Same
  <2>7. QED
    BY <2>1, <2>2, <2>3, <2>4, <2>5, <2>6 DEF CallStep, CallGoes, Others
<1>4. ASSUME NEW c \in Callers, call[c].pc = "send", Same(c), call'[c].pc = "wait",
             call'[c].mkt = call[c].mkt
      PROVE  Of(Message(c), call')
  <2>1. /\ Message(c).c = c /\ Message(c).k = call[c].k /\ Message(c).op = call[c].op
        /\ Message(c).tgt = call[c].tgt /\ Message(c).pre = call[c].pre /\ Message(c).mkt = call[c].mkt
        /\ Message(c).cl = IF call[c].cl THEN <<c, call[c].k>> ELSE None
    BY DEF Message, ClientId
  <2>2. QED
    BY <1>0, <1>4, <2>1 DEF Same
<1> HIDE DEF Of
<1>5. QED
  BY <1>2, <1>3, <1>4 DEF FlightStep

\* What a request to create an order leaves, and an order.
TraceOf(r)   == [by |-> <<r.c, r.k>>, mkt |-> r.mkt, cl |-> r.cl]
TraceAt(i)   == [by |-> orders[i].by, mkt |-> orders[i].mkt, cl |-> orders[i].cl]
TraceCall(c) == [by |-> <<c, call[c].k>>, mkt |-> call[c].mkt,
                 cl |-> IF call[c].cl THEN <<c, call[c].k>> ELSE None]

LEMMA TracesAre ==
  /\ \A r \in flight : r.op = "create" => TraceOf(r) \in Traces
  /\ \A i \in DOMAIN orders : TraceAt(i) \in Traces
BY DEF Traces, TraceOf, TraceAt

\* A step adds the trace of a call that sends, and no other.
LEMMA TracesStep ==
  ASSUME OrdersTypeOK, FlightStep, OrdersStep
  PROVE  \/ Traces' \subseteq Traces
         \/ \E c \in Callers : call[c].pc = "send" /\ Same(c) /\ Others(c) /\ call'[c].pc = "wait"
                               /\ call'[c].mkt = call[c].mkt /\ Traces' \subseteq Traces \cup {TraceCall(c)}
<1>1. ASSUME NEW i \in DOMAIN orders' PROVE TraceAt(i)' \in Traces
  <2>1. CASE Kept
    <3>1. TraceAt(i)' = TraceAt(i) /\ i \in DOMAIN orders
      BY <2>1 DEF Kept, Named, TraceAt
    <3>2. QED
      BY <3>1, TracesAre
  <2>2. ASSUME NEW r \in flight, NEW b, Added(r, b) PROVE TraceAt(i)' \in Traces
    <3>1. CASE i \in DOMAIN orders
      <4>1. TraceAt(i)' = TraceAt(i)
        BY <2>2, <3>1, AddedTyped DEF TraceAt
      <4>2. QED
        BY <3>1, <4>1, TracesAre
    <3>2. CASE i = Len(orders) + 1
      <4>1. orders'[i] = NewOrder(r, b) /\ r.op = "create"
        BY <2>2, <3>2, AddedTyped DEF Added
      <4>2. TraceAt(i)' = TraceOf(r)
        BY <4>1 DEF TraceAt, TraceOf, NewOrder
      <4>3. QED
        BY <4>1, <4>2, TracesAre
    <3>3. QED
      BY <2>2, <3>1, <3>2, AddedTyped
  <2>3. QED
    BY <2>1, <2>2 DEF OrdersStep
<1>2. Traces' = {TraceOf(r) : r \in {q \in flight' : q.op = "create"}}
                \cup {TraceAt(i)' : i \in DOMAIN orders'}
  BY DEF Traces, TraceOf, TraceAt
<1>3. \A r \in flight : r.op = "create" => TraceOf(r) \in Traces
  BY TracesAre
<1>4. CASE flight' \subseteq flight
  BY <1>1, <1>2, <1>3, <1>4
<1>5. ASSUME NEW c \in Callers, flight' = flight \cup {Message(c)}
      PROVE  Traces' \subseteq Traces \cup {TraceCall(c)}
  <2>1. TraceOf(Message(c)) = TraceCall(c)
    BY DEF TraceOf, TraceCall, Message, ClientId
  <2>2. QED
    BY <1>1, <1>2, <1>3, <1>5, <2>1
<1>6. QED
  BY <1>4, <1>5 DEF FlightStep

LEMMA OneTraceStep ==
  ASSUME OrdersTypeOK, OrdersTypeOK', OneTrace, CallStep, FlightStep, OrdersStep
  PROVE  OneTrace'
<1> DEFINE At(x, f) ==
             /\ x.by[2] <= f[x.by[1]].k
             /\ x.by[2] = f[x.by[1]].k /\ f[x.by[1]].pc # "idle" =>
                  /\ f[x.by[1]].pc \in {"send", "wait"}
                  /\ x = [by |-> <<x.by[1], f[x.by[1]].k>>, mkt |-> f[x.by[1]].mkt,
                          cl |-> IF f[x.by[1]].cl THEN <<x.by[1], f[x.by[1]].k>> ELSE None]
<1>0. /\ call \in [Callers -> CallTypes] /\ \A c \in Callers : call[c].k \in Nat
      /\ \A x \in Traces : x.by[1] \in Callers /\ x.by[2] \in Nat
  <2>1. /\ call \in [Callers -> CallTypes] /\ \A c \in Callers : call[c].k \in Nat
        /\ \A r \in flight : r.c \in Callers /\ r.k \in Nat
    BY DEF OrdersTypeOK, CallTypes, RequestTypes
  <2>2. \A i \in DOMAIN orders : orders[i] \in OrderTypes
    BY DEF OrdersTypeOK
  <2>3. \A i \in DOMAIN orders : orders[i].by \in Callers \X Nat
    BY ONLY <2>2 DEF OrderTypes
  <2>4. QED
    BY <2>1, <2>3 DEF Traces
<1>1. OneTrace <=> /\ \A x, y \in Traces : x.by = y.by => x = y
                   /\ \A x \in Traces : At(x, call)
  BY DEF OneTrace
<1>2. OneTrace' <=> /\ \A x, y \in Traces' : x.by = y.by => x = y
                    /\ \A x \in Traces' : At(x, call')
  BY DEF OneTrace
<1>3. ASSUME NEW x \in Traces PROVE At(x, call')
  <2> DEFINE c == x.by[1]
  <2>1. At(x, call) /\ c \in Callers /\ x.by[2] \in Nat /\ call[c].k \in Nat
    BY <1>0, <1>1
  <2>2. CASE call'[c] = call[c]
    BY <2>1, <2>2
  <2>3. CASE Begun(c)
    BY <2>1, <2>3 DEF Begun
  <2>4. CASE Over(c)
    BY <2>1, <2>4 DEF Over
  <2>5. CASE Same(c) /\ call[c].pc \in {"swap", "look", "restore"}
    <3>1. x.by[2] # call[c].k
      BY <2>1, <2>5
    <3>2. QED
      BY <2>1, <2>5, <3>1 DEF Same
  <2>6. CASE Same(c) /\ call[c].pc \in {"send", "wait"} /\ call'[c].pc \in {"send", "wait"}
             /\ call'[c].mkt = call[c].mkt
    BY <2>1, <2>6 DEF Same
  <2>7. QED
    BY <2>1, <2>2, <2>3, <2>4, <2>5, <2>6 DEF CallStep, CallGoes, Others
<1>4. CASE Traces' \subseteq Traces
  BY <1>1, <1>2, <1>3, <1>4
<1>5. ASSUME NEW c \in Callers, call[c].pc = "send", Same(c), call'[c].pc = "wait",
             call'[c].mkt = call[c].mkt, Traces' \subseteq Traces \cup {TraceCall(c)}
      PROVE  OneTrace'
  <2> DEFINE t == TraceCall(c)
  <2>1. t.by = <<c, call[c].k>> /\ At(t, call')
    BY <1>0, <1>5 DEF TraceCall, Same
  <2>2. \A x \in Traces : x.by = t.by => x = t
    <3>1. SUFFICES ASSUME NEW x \in Traces, x.by = t.by PROVE x = t
      OBVIOUS
    <3>2. x.by[1] = c /\ x.by[2] = call[c].k /\ At(x, call)
      BY <1>1, <2>1, <3>1
    <3>3. QED
      BY <1>5, <3>2 DEF TraceCall
  <2> HIDE DEF t
  <2>3. \A x, y \in Traces' : x.by = y.by => x = y
    BY <1>1, <1>5, <2>2 DEF t
  <2>4. \A x \in Traces' : At(x, call')
    BY <1>3, <1>5, <2>1 DEF t
  <2>5. QED
    BY <1>2, <2>3, <2>4
<1>6. QED
  BY <1>4, <1>5, TracesStep

\* A request to create an order that is placed has no order of its call with a
\* client id that is open.
LEMMA OncePlacedStep ==
  ASSUME OrdersTypeOK, OneTrace, OrdersStep, OncePlaced
  PROVE  OncePlaced'
<1>0. \A i \in DOMAIN orders : orders[i].status \in {"open", "ended"}
  <2>1. \A i \in DOMAIN orders : orders[i] \in OrderTypes
    BY DEF OrdersTypeOK
  <2>2. QED
    BY ONLY <2>1 DEF OrderTypes
<1>1. CASE Kept
  BY <1>1 DEF Kept, Named, OncePlaced
<1>2. ASSUME NEW r \in flight, NEW b, Added(r, b) PROVE OncePlaced'
  <2> DEFINE n == Len(orders) + 1
  <2>1. ASSUME NEW i \in DOMAIN orders, orders[i].by = orders'[n].by,
               orders[i].cl # None \/ orders'[n].cl # None
        PROVE  orders[i].status = "ended"
    <3>1. orders'[n] = NewOrder(r, b) /\ r.op = "create" /\ ~Duplicate(r)
      BY <1>2, AddedTyped DEF Added
    <3>2. orders'[n].by = <<r.c, r.k>> /\ orders'[n].cl = r.cl
      BY <3>1 DEF NewOrder
    <3>3. TraceAt(i) \in Traces /\ TraceOf(r) \in Traces
      BY <3>1, TracesAre
    <3>4. TraceAt(i) = TraceOf(r)
      <4>1. TraceAt(i).by = TraceOf(r).by
        BY <2>1, <3>2 DEF TraceAt, TraceOf
      <4>2. QED
        BY <3>3, <4>1 DEF OneTrace
    <3>5. orders[i].mkt = r.mkt /\ orders[i].cl = r.cl
      BY <3>4 DEF TraceAt, TraceOf
    <3>6. orders[i].status # "open"
      BY <2>1, <3>1, <3>2, <3>5 DEF Duplicate, OpenOf
    <3>7. QED
      BY <1>0, <3>6
  <2>2. /\ DOMAIN orders' = DOMAIN orders \cup {n} /\ n \notin DOMAIN orders
        /\ \A i \in DOMAIN orders : orders'[i] = orders[i]
    BY <1>2, AddedTyped
  <2> HIDE DEF n
  <2>3. ASSUME NEW i \in DOMAIN orders', NEW j \in DOMAIN orders', i # j,
               orders'[i].by = orders'[j].by, orders'[i].cl # None
        PROVE  orders'[i].status = "ended" \/ orders'[j].status = "ended"
    <3>1. CASE i \in DOMAIN orders /\ j \in DOMAIN orders
      BY <2>2, <2>3, <3>1 DEF OncePlaced
    <3>2. CASE i \in DOMAIN orders /\ j = n
      BY <2>1, <2>2, <2>3, <3>2
    <3>3. CASE i = n /\ j \in DOMAIN orders
      BY <2>1, <2>2, <2>3, <3>3
    <3>4. QED
      BY <2>2, <2>3, <3>1, <3>2, <3>3
  <2>4. QED
    BY <2>3 DEF OncePlaced
<1>3. QED
  BY <1>1, <1>2 DEF OrdersStep

\* A call places one order at most: its client id is the same however often it is
\* sent, and the exchange refuses one that an open order has.
THEOREM OneOrderPerCall == Spec => []OncePlaced
<1> DEFINE Inv == OrdersTypeOK /\ OneTrace /\ OncePlaced
<1>1. Init => Inv
  <2>1. ASSUME Init PROVE OneTrace /\ OncePlaced
    BY <2>1 DEF Init, OneTrace, Traces, OncePlaced
  <2>2. QED
    BY <2>1, TypeInit
<1>2. Inv /\ [Next]_vars => Inv'
  BY TypeStep, OneTraceStep, OncePlacedStep
<1>3. QED
  BY <1>1, <1>2, PTL DEF Spec

\* The state of a call, the requests and the orders have their types.
THEOREM OrdersTypeCorrect == Spec => []OrdersTypeOK
<1>1. OrdersTypeOK /\ [Next]_vars => OrdersTypeOK'
  BY TypeStep
<1>2. QED
  BY <1>1, TypeInit, PTL DEF Spec

-------------------------------------------------------------------------------
(* The market meant.  GetArgsMarket writes e.MarketType and puts it back; it  *)
(* is what its reader expects if nobody else is between the two writes.       *)
Undisturbed == (\A c, d \in Callers : c = d) \/ (\A w \in Wanted : w.over = "")

LEMMA MarketKeptStep ==
  ASSUME Undisturbed, OrdersTypeOK, MarketKept, CallStep, UNCHANGED <<dflt, wants>>
  PROVE  MarketKept'
<1> DEFINE K(c, f, m) ==
             /\ f[c].pc \in {"swap", "restore"} => wants[c].over # ""
             /\ f[c].pc \in {"look", "restore"} /\ wants[c].over # "" =>
                  m = wants[c].over /\ f[c].back = dflt
             /\ f[c].pc \in {"restore", "send", "wait"} => f[c].mkt = Meant(c)
           Quiet(f) == \A c \in Callers : f[c].pc \in {"look", "restore"} => wants[c].over = ""
<1>0. /\ \A c \in Callers : wants[c] \in Wanted
      /\ dflt \in {"spot", "linear"} /\ \A c \in Callers : wants[c].over \in {"", "spot", "linear"}
  <2>1. \A c \in Callers : wants[c] \in Wanted
    BY DEF OrdersTypeOK
  <2>2. \A w \in Wanted : w.over \in {"", "spot", "linear"}
    BY OrdersAssumption DEF MarketArgs
  <2>3. QED
    BY <2>1, <2>2 DEF OrdersTypeOK, Markets
<1>1. (\A c \in Callers : K(c, call, mt)) /\ (Quiet(call) => mt = dflt)
  BY DEF MarketKept
<1>2. MarketKept' <=> (\A c \in Callers : K(c, call', mt')) /\ (Quiet(call') => mt' = dflt)
  BY DEF MarketKept, Meant
<1>3. CASE CallGoes /\ UNCHANGED mt
  <2>1. ASSUME NEW c \in Callers PROVE K(c, call', mt)
    <3>1. CASE call'[c] = call[c]
      BY <1>1, <3>1
    <3>2. CASE Begun(c)
      BY <1>1, <3>2 DEF Begun, Overrides
    <3>3. CASE Over(c)
      BY <3>3 DEF Over
    <3>4. CASE Same(c) /\ call[c].pc \in {"send", "wait"} /\ call'[c].pc \in {"send", "wait"}
               /\ call'[c].mkt = call[c].mkt
      BY <1>1, <3>4
    <3>5. QED
      BY <1>3, <3>1, <3>2, <3>3, <3>4 DEF CallGoes, Others
  <2>2. ASSUME Quiet(call') PROVE Quiet(call)
    <3>1. ASSUME NEW c \in Callers, call[c].pc \in {"look", "restore"} PROVE wants[c].over = ""
      <4>1. call'[c] = call[c]
        BY <1>3, <3>1 DEF CallGoes, Others, Begun, Over
      <4>2. QED
        BY <2>2, <3>1, <4>1
    <3>2. QED
      BY <3>1
  <2>3. QED
    BY <1>1, <1>2, <1>3, <2>1, <2>2
<1>4. ASSUME NEW c \in Callers, Others(c), Same(c), Swap(c) PROVE MarketKept'
  <2>1. /\ call[c].pc = "swap" /\ call'[c].pc = "look" /\ call'[c].back = mt /\ mt' = wants[c].over
    BY <1>4, SwapStep
  <2>2. wants[c].over # "" /\ wants[c] \in Wanted
    BY <1>0, <1>1, <2>1
  <2>3. \A d \in Callers : d = c
    BY <2>2 DEF Undisturbed
  <2>4. mt = dflt
    BY <1>1, <2>1, <2>3
  <2>5. K(c, call', mt')
    BY <2>1, <2>4
  <2>6. QED
    BY <1>2, <2>1, <2>2, <2>3, <2>5
<1>5. ASSUME NEW c \in Callers, Others(c), Same(c), Look(c) PROVE MarketKept'
  <2>1. /\ call[c].pc = "look" /\ call'[c].pc = (IF Overrides(c) THEN "restore" ELSE "send")
        /\ call'[c].back = call[c].back /\ call'[c].mkt = Resolve(wants[c].sym, mt)
    BY <1>5, LookStep
  <2>2. mt' = mt
    BY <1>5 DEF Look
  <2>3. wants[c].over = "" => mt = dflt
    <3>1. CASE \A d \in Callers : c = d
      BY <1>1, <3>1
    <3>2. CASE \A w \in Wanted : w.over = ""
      BY <1>0, <1>1, <3>2
    <3>3. QED
      BY <3>1, <3>2 DEF Undisturbed
  <2>4. mt = IF wants[c].over = "" THEN dflt ELSE wants[c].over
    BY <1>1, <2>1, <2>3
  <2>5. Resolve(wants[c].sym, mt) = Meant(c)
    BY <1>0, <2>4 DEF Resolve, Meant
  <2>6. K(c, call', mt)
    BY <1>1, <2>1, <2>5 DEF Overrides
  <2>7. \A d \in Callers : K(d, call', mt)
    BY <1>1, <1>5, <2>6 DEF Others
  <2>8. Quiet(call') => Quiet(call)
    BY <1>5, <2>1 DEF Others, Overrides
  <2>9. QED
    BY <1>1, <1>2, <2>2, <2>7, <2>8
<1>6. ASSUME NEW c \in Callers, Others(c), Same(c), Restore(c) PROVE MarketKept'
  <2>1. call[c].pc = "restore" /\ call'[c].pc = "send" /\ call'[c].mkt = call[c].mkt
        /\ mt' = call[c].back
    BY <1>6, RestoreStep
  <2>2. wants[c].over # "" /\ call[c].back = dflt /\ call[c].mkt = Meant(c)
    BY <1>1, <2>1
  <2>3. \A d \in Callers : d = c
    BY <1>0, <2>2 DEF Undisturbed
  <2>4. K(c, call', mt')
    BY <2>1, <2>2
  <2>5. QED
    BY <1>2, <2>1, <2>2, <2>3, <2>4
<1>7. QED
  BY <1>3, <1>4, <1>5, <1>6 DEF CallStep

LEMMA OnAskedMarketStep ==
  ASSUME OrdersTypeOK, MarketKept, OnAskedMarket, FlightStep, OrdersStep, UNCHANGED <<dflt, wants>>
  PROVE  OnAskedMarket'
<1>0. \A c \in Callers : Meant(c)' = Meant(c)
  BY DEF Meant
<1>t. /\ \A r \in flight : r.c \in Callers
      /\ \A i \in DOMAIN orders : orders[i].by[1] \in Callers
  <2>1. \A i \in DOMAIN orders : orders[i] \in OrderTypes
    BY DEF OrdersTypeOK
  <2>2. \A i \in DOMAIN orders : orders[i].by \in Callers \X Nat
    BY ONLY <2>1 DEF OrderTypes
  <2>3. \A r \in flight : r.c \in Callers
    BY DEF OrdersTypeOK, RequestTypes
  <2>4. QED
    BY <2>2, <2>3
<1>1. \A r \in flight' : r.mkt = Meant(r.c)
  <2>1. \A r \in flight : r.mkt = Meant(r.c)
    BY DEF OnAskedMarket
  <2>2. ASSUME NEW c \in Callers, call[c].pc = "send" PROVE Message(c).mkt = Meant(Message(c).c)
    BY <2>2 DEF MarketKept, Message
  <2>3. QED
    BY <2>1, <2>2 DEF FlightStep
<1>2. \A i \in DOMAIN orders' : orders'[i].mkt = Meant(orders'[i].by[1])
                              /\ orders'[i].by[1] \in Callers
  <2>1. CASE Kept
    BY <1>t, <2>1 DEF OnAskedMarket, Kept, Named
  <2>2. ASSUME NEW r \in flight, NEW b, Added(r, b)
        PROVE  \A i \in DOMAIN orders' : orders'[i].mkt = Meant(orders'[i].by[1])
                                      /\ orders'[i].by[1] \in Callers
    <3>1. NewOrder(r, b).mkt = r.mkt /\ NewOrder(r, b).by = <<r.c, r.k>>
      BY DEF NewOrder
    <3>2. QED
      BY <1>t, <2>2, <3>1, AddedTyped DEF OnAskedMarket
  <2>3. QED
    BY <2>1, <2>2 DEF OrdersStep
<1>3. \A r \in flight' : r.c \in Callers
  <2>1. \A c : Message(c).c = c
    BY DEF Message
  <2>2. QED
    BY <1>t, <2>1 DEF FlightStep
<1>4. QED
  BY <1>0, <1>1, <1>2, <1>3 DEF OnAskedMarket

-------------------------------------------------------------------------------
(* The order a request is about.                                           *)

LEMMA OrdersFinite ==
  ASSUME OrdersTypeOK
  PROVE  \A S : S \subseteq DOMAIN orders => IsFiniteSet(S) /\ Cardinality(S) \in Nat
<1>1. DOMAIN orders = 1..Len(orders) /\ Len(orders) \in Nat
  BY DEF OrdersTypeOK
<1>2. IsFiniteSet(DOMAIN orders)
  BY <1>1, FS_Interval
<1>3. QED
  BY <1>2, FS_Subset, FS_CardinalityType

\* The exchange numbers the orders of a space of a market, and an adapter puts an
\* order where the prefix of its id tells the space.
Typed(i) == orders[i].space = "algo" => exg # "bybit" /\ (exg = "binance" => orders[i].mkt = "linear")

LEMMA NumberedStep ==
  ASSUME OrdersTypeOK, OrdersTypeOK', Numbered, OrdersStep, UNCHANGED exg
  PROVE  Numbered'
<1> DEFINE Like(i) == {j \in DOMAIN orders : Alike(i, j)}
<1>0. /\ \A i, j \in DOMAIN orders : Alike(i, j) /\ orders[i].n = orders[j].n => i = j
      /\ \A i \in DOMAIN orders : orders[i].n <= Cardinality(Like(i))
      /\ \A i \in DOMAIN orders : Typed(i)
      /\ \A i \in DOMAIN orders : orders[i].n \in Nat
  <2>1. \A i \in DOMAIN orders : orders[i] \in OrderTypes
    BY DEF OrdersTypeOK
  <2>2. \A i \in DOMAIN orders : orders[i].n \in Nat
    BY ONLY <2>1 DEF OrderTypes
  <2>3. QED
    BY <2>2 DEF Numbered, Typed
<1>1. CASE Kept
  <2>1. /\ DOMAIN orders' = DOMAIN orders
        /\ \A i \in DOMAIN orders : /\ orders'[i].mkt = orders[i].mkt /\ orders'[i].space = orders[i].space
                                    /\ orders'[i].n = orders[i].n
    BY <1>1 DEF Kept, Named
  <2>2. \A i, j \in DOMAIN orders : Alike(i, j)' <=> Alike(i, j)
    BY <2>1 DEF Alike
  <2>3. \A i \in DOMAIN orders : Like(i)' = Like(i) /\ Typed(i)'
    BY <1>0, <2>1, <2>2 DEF Typed
  <2>4. /\ \A i, j \in DOMAIN orders' : Alike(i, j)' /\ orders'[i].n = orders'[j].n => i = j
        /\ \A i \in DOMAIN orders' : orders'[i].n <= Cardinality(Like(i)')
    BY <1>0, <2>1, <2>2, <2>3
  <2>5. QED
    BY <2>1, <2>3, <2>4 DEF Numbered, Typed
<1>2. ASSUME NEW r \in flight, NEW b, Added(r, b) PROVE Numbered'
  <2>0. PICK e : e = Len(orders) + 1
    OBVIOUS
  <2> DEFINE new == NewOrder(r, b)
             S == {i \in DOMAIN orders : orders[i].mkt = r.mkt /\ orders[i].space = b.space}
  <2>1. /\ DOMAIN orders' = DOMAIN orders \cup {e} /\ e \notin DOMAIN orders
        /\ \A i \in DOMAIN orders : orders'[i] = orders[i]
        /\ orders'[e] = new
    BY <1>2, <2>0, AddedTyped
  <2>2. new.mkt = r.mkt /\ new.space = b.space /\ new.n = 1 + Cardinality(S)
    BY DEF NewOrder
  <2>3. Typed(e)'
    <3>1. new.space = "algo" => exg # "bybit" /\ (exg = "binance" => new.mkt = "linear")
      BY <1>2, NewTyped DEF Added
    <3>2. QED
      BY <2>1, <3>1 DEF Typed
  <2> HIDE DEF new
  <2>4. \A i \in DOMAIN orders : Typed(i)'
    BY <1>0, <2>1 DEF Typed
  <2>5. /\ \A i, j \in DOMAIN orders : Alike(i, j)' <=> Alike(i, j)
        /\ \A i \in DOMAIN orders : (Alike(i, e)' <=> i \in S) /\ (Alike(e, i)' <=> i \in S)
        /\ Alike(e, e)'
    BY <2>1, <2>2 DEF Alike
  <2>6. \A i \in S : Like(i) = S
    BY DEF Alike
  <2>7. IsFiniteSet(S) /\ Cardinality(S) \in Nat
    BY OrdersFinite
  <2>8. Cardinality(S \cup {e}) = Cardinality(S) + 1
    BY <2>1, <2>7, FS_AddElement
  <2>9. \A i \in S : orders[i].n <= Cardinality(S)
    BY <1>0, <2>6
  <2>10. \A i, j \in DOMAIN orders' : Alike(i, j)' /\ orders'[i].n = orders'[j].n => i = j
    <3>1. SUFFICES ASSUME NEW i \in DOMAIN orders', NEW j \in DOMAIN orders', Alike(i, j)',
                          orders'[i].n = orders'[j].n
                   PROVE  i = j
      OBVIOUS
    <3>2. CASE i \in DOMAIN orders /\ j \in DOMAIN orders
      BY <1>0, <2>1, <2>5, <3>1, <3>2
    <3>3. CASE i \in DOMAIN orders /\ j = e
      <4>1. i \in S /\ orders[i].n \in Nat
        BY <1>0, <2>5, <3>1, <3>3
      <4>2. QED
        BY <2>1, <2>2, <2>7, <2>9, <3>1, <3>3, <4>1
    <3>4. CASE i = e /\ j \in DOMAIN orders
      <4>1. j \in S /\ orders[j].n \in Nat
        BY <1>0, <2>5, <3>1, <3>4
      <4>2. QED
        BY <2>1, <2>2, <2>7, <2>9, <3>1, <3>4, <4>1
    <3>5. QED
      BY <2>1, <3>2, <3>3, <3>4
  <2>11. ASSUME NEW i \in DOMAIN orders'
         PROVE  orders'[i].n <= Cardinality({j \in DOMAIN orders' : Alike(i, j)'})
    <3> DEFINE L == {j \in DOMAIN orders' : Alike(i, j)'}
    <3> SUFFICES orders'[i].n <= Cardinality(L)
      OBVIOUS
    <3>1. CASE i = e
      <4>1. L = S \cup {e}
        BY <2>1, <2>5, <3>1
      <4> HIDE DEF L, S
      <4>2. QED
        BY <2>1, <2>2, <2>7, <2>8, <3>1, <4>1
    <3>2. CASE i \in S
      <4>1. L = S \cup {e}
        <5>1. Like(i) = S
          BY <2>6, <3>2
        <5>2. QED
          BY <2>1, <2>5, <3>2, <5>1
      <4>2. orders'[i].n = orders[i].n /\ orders[i].n <= Cardinality(S) /\ orders[i].n \in Nat
        BY <1>0, <2>1, <2>9, <3>2
      <4> HIDE DEF L, S
      <4>3. QED
        BY <2>7, <2>8, <4>1, <4>2
    <3>3. CASE i \in DOMAIN orders /\ i \notin S
      <4>1. L = Like(i)
        BY <2>1, <2>5, <3>3
      <4>2. QED
        BY <1>0, <2>1, <3>3, <4>1
    <3>4. QED
      BY <2>1, <3>1, <3>2, <3>3
  <2>12. \A i \in DOMAIN orders' : Typed(i)'
    BY <2>1, <2>3, <2>4
  <2>13. QED
    BY <2>10, <2>11, <2>12 DEF Numbered, Typed
<1>3. QED
  BY <1>1, <1>2 DEF OrdersStep

\* Where the id of an order is looked for
LEMMA Spaces ==
  ASSUME OrdersTypeOK, Numbered, NEW i \in DOMAIN orders, NEW op
  PROVE  LET o == orders[i]  s == SpaceOf(op, o.mkt, o.space = "algo") IN
         /\ op \in {"cancel", "fetch"} => s = o.space
         /\ op = "edit" => s = o.space \/ s = "none"
         /\ o.space # "none"
<1>1. orders[i].space \in {"regular", "algo"} /\ exg \in {"okx", "binance", "bybit"}
  <2>1. orders[i] \in OrderTypes
    BY DEF OrdersTypeOK
  <2>2. orders[i].space \in {"regular", "algo"}
    BY ONLY <2>1 DEF OrderTypes
  <2>3. QED
    BY <2>2, OrdersAssumption DEF OrdersTypeOK
<1>2. orders[i].space = "algo" => exg # "bybit" /\ (exg = "binance" => orders[i].mkt = "linear")
  BY DEF Numbered
<1>3. CASE exg = "okx"
  BY <1>1, <1>3 DEF SpaceOf, Okx!SpaceOf
<1>4. CASE exg = "binance"
  <2>1. CASE orders[i].space = "algo"
    BY <1>2, <1>4, <2>1 DEF SpaceOf, Binance!SpaceOf
  <2>2. CASE orders[i].space = "regular"
    BY <1>4, <2>2 DEF SpaceOf, Binance!SpaceOf
  <2>3. QED
    BY <1>1, <2>1, <2>2
<1>5. CASE exg = "bybit"
  BY <1>1, <1>2, <1>5 DEF SpaceOf, Bybit!SpaceOf
<1>6. QED
  BY <1>1, <1>3, <1>4, <1>5

LEMMA TouchedOne ==
  ASSUME OrdersTypeOK, Numbered, OnAskedMarket, Aimed, NEW r \in flight, Aims(r.op), Whole(r)
  PROVE  /\ r.tgt \in DOMAIN orders
         /\ r.op \in {"cancel", "fetch"} => Touched(r) = {r.tgt}
         /\ r.op = "edit" => Touched(r) \subseteq {r.tgt}
<1>0. r.c \in Callers /\ known[r.c] \subseteq OrderIds
  BY DEF OrdersTypeOK, RequestTypes, OrderIds
<1>1. r.c \in Callers /\ <<r.tgt, r.pre>> \in known[r.c] /\ r.tgt \in DOMAIN orders
  BY <1>0 DEF Aimed, OrderIds
<1>2. orders[r.tgt].mkt = r.mkt
  BY <1>1 DEF Aimed, OnAskedMarket
<1> DEFINE t == orders[r.tgt]
           s == SpaceOf(r.op, r.mkt, r.pre)
<1>3. /\ r.op \in {"cancel", "fetch"} => s = t.space
      /\ r.op = "edit" => s = t.space \/ s = "none"
      /\ \A i \in DOMAIN orders : orders[i].space # "none"
  BY <1>1, <1>2, Spaces DEF Whole
<1>4. Touched(r) = {i \in DOMAIN orders : orders[i].mkt = r.mkt /\ orders[i].space = s /\ orders[i].n = t.n}
  BY DEF Touched
<1> HIDE DEF s
<1>5. \A i \in Touched(r) : s = t.space => i = r.tgt
  BY <1>1, <1>2, <1>4 DEF Numbered, Alike
<1>6. s = t.space => r.tgt \in Touched(r)
  BY <1>1, <1>2, <1>4
<1>7. s = "none" => Touched(r) = {}
  BY <1>3, <1>4
<1>8. QED
  BY <1>1, <1>3, <1>5, <1>6, <1>7

\* How a call goes on: what FetchOrder of bybit seeks in the history, by the whole id,
\* after it was not among the open orders has ended, and is found there.
Onward(c) ==
  /\ call'[c].got = "missing" =>
       \/ call[c].got = "missing" /\ call'[c].tgt = call[c].tgt /\ call'[c].pre = call[c].pre
       \/ <<call'[c].tgt, call'[c].pre>> \in known[c] /\ ~Whole(call'[c])
  /\ call'[c].pc # "idle" =>
       \/ call'[c] = call[c]
       \/ Begun(c)
       \/ /\ Same(c) /\ call[c].pc # "idle"
          /\ \/ call'[c].stage = call[c].stage \/ ~Aims(call[c].op)
             \/ call'[c].stage = 2 /\ (Whole(call[c]) => orders[call[c].tgt].status = "ended")

\* What a caller comes to know is of the market of its request.
KnownStep ==
  \A c \in Callers :
    /\ known[c] \subseteq known'[c]
    /\ \A i \in known'[c] \ known[c] : orders'[i[1]].mkt = Meant(c)

LEMMA EndedOnward ==
  ASSUME OrdersTypeOK, NEW c \in Callers, NEW res \in {"nothing", "found"}, call' = Ended(c, res)
  PROVE  \A d \in Callers : Onward(d)
<1>1. call \in [Callers -> CallTypes]
  BY DEF OrdersTypeOK
<1>2. /\ call'[c].pc = "idle" /\ call'[c].got = res
      /\ \A d \in Callers \ {c} : call'[d] = call[d]
  BY <1>1, EndedTyped
<1>3. QED
  BY <1>2 DEF Onward

LEMMA FetchedOnward ==
  ASSUME OrdersTypeOK, OfCall, Numbered, OnAskedMarket, Aimed, NEW r \in flight, Fetched(r)
  PROVE  \A c \in Callers : Onward(c)
<1> DEFINE d == call[r.c]
           sta == orders[r.tgt].status
<1>0. r.op = "fetch" /\ r.c \in Callers /\ Aims(r.op) /\ r \in RequestTypes
      /\ call \in [Callers -> CallTypes]
  BY DEF Fetched, Aims, OrdersTypeOK, RequestTypes
<1>k. known[r.c] \subseteq OrderIds
  BY <1>0 DEF OrdersTypeOK, OrderIds
<1>1. <<r.tgt, r.pre>> \in known[r.c] /\ r.tgt \in DOMAIN orders
      /\ (r.stage = 1 \/ (r.stage = 2 /\ (Whole(r) => sta = "ended")))
  BY <1>0, <1>k DEF Aimed, Late, OrderIds
<1>2. sta \in {"open", "ended"}
  <2>1. orders[r.tgt] \in OrderTypes
    BY <1>1 DEF OrdersTypeOK
  <2>2. QED
    BY ONLY <2>1 DEF OrderTypes
<1>3. PICK found \in Shown(r) :
        call' = IF ~Waits(r) THEN call
                ELSE IF found THEN Ended(r.c, "found")
                ELSE IF r.stage < Stages("fetch")
                  THEN [call EXCEPT ![r.c].pc = "send", ![r.c].sends = 0, ![r.c].stage = @ + 1]
                  ELSE Missed(r)
  BY DEF Fetched
<1>4. Whole(r) => found \/ (exg = "bybit" /\ r.stage = 1 /\ sta = "ended")
  <2> SUFFICES ASSUME Whole(r) PROVE found \/ (exg = "bybit" /\ r.stage = 1 /\ sta = "ended")
    OBVIOUS
  <2>0. Touched(r) = {r.tgt}
    BY <1>0, TouchedOne
  <2>1. CASE exg # "bybit"
    BY <2>0, <1>3, <2>1 DEF Shown
  <2>2. CASE exg = "bybit"
    <3>1. found \in Bybit!Shows(Bybit!Lookups[r.stage], sta)
      BY <2>0, <1>3, <2>2 DEF Shown
    <3>2. CASE r.stage = 1
      <4>1. Bybit!Lookups[r.stage] = "realtime"
        BY <3>2 DEF Bybit!Lookups
      <4>2. sta = "open" => found = TRUE
        BY <3>1, <4>1 DEF Bybit!Shows
      <4>3. QED
        BY <1>2, <2>2, <3>2, <4>2
    <3>3. CASE r.stage = 2 /\ sta = "ended"
      <4>1. Bybit!Lookups[r.stage] = "history"
        BY <3>3 DEF Bybit!Lookups
      <4>2. found = (sta # "open")
        BY <3>1, <4>1 DEF Bybit!Shows
      <4>3. QED
        BY <3>3, <4>2
    <3>4. QED
      BY <1>1, <3>2, <3>3
  <2>3. QED
    BY <2>1, <2>2
<1>5. CASE ~Waits(r)
  BY <1>3, <1>5 DEF Onward
<1>6. CASE Waits(r) /\ found
  BY <1>0, <1>3, <1>6, EndedOnward
<1>7. CASE Waits(r) /\ ~found /\ r.stage < Stages("fetch")
  <2>1. r.stage = 1 /\ (Whole(r) => sta = "ended")
    BY <1>1, <1>4, <1>7 DEF Stages
  <2>2. call' = [call EXCEPT ![r.c].pc = "send", ![r.c].sends = 0, ![r.c].stage = @ + 1]
    BY <1>3, <1>7
  <2>3. d.pc = "wait" /\ d.k = r.k /\ d.stage = r.stage /\ r.tgt = d.tgt /\ r.pre = d.pre
    BY <1>7 DEF Waits, OfCall
  <2>4. Others(r.c) /\ Same(r.c) /\ call'[r.c].stage = d.stage + 1
    BY <1>0, <2>2, <2>3, NextStage
  <2>5. Onward(r.c)
    <3>1. call'[r.c].stage = 2 /\ (Whole(d) => orders[d.tgt].status = "ended") /\ d.pc # "idle"
      BY <2>1, <2>3, <2>4 DEF Whole
    <3>2. QED
      BY <2>4, <3>1 DEF Onward, Same
  <2>6. QED
    BY <2>4, <2>5 DEF Others, Onward
<1>8. CASE Waits(r) /\ ~found /\ ~(r.stage < Stages("fetch"))
  <2>1. call' = Missed(r)
    BY <1>3, <1>8
  <2>2. ~Whole(r)
    BY <1>4, <1>8 DEF Stages
  <2>3. /\ call'[r.c].pc = "idle" /\ call'[r.c].tgt = r.tgt /\ call'[r.c].pre = r.pre
        /\ \A c \in Callers \ {r.c} : call'[c] = call[c]
    BY <1>0, <2>1, MissedTyped
  <2>4. Onward(r.c)
    BY <1>1, <2>2, <2>3 DEF Onward, Whole
  <2>5. QED
    BY <2>3, <2>4 DEF Onward
<1>9. QED
  BY <1>5, <1>6, <1>7, <1>8

\* FetchOpenOrders goes on with its next request.
LEMMA ListedOnward ==
  ASSUME OrdersTypeOK, OfCall, NEW r \in flight, FetchedOpen(r)
  PROVE  \A c \in Callers : Onward(c)
<1> DEFINE d == call[r.c]
<1>0. r.op \in {"open", "algos"} /\ r.c \in Callers
  BY DEF FetchedOpen, OrdersTypeOK, RequestTypes
<1>1. CASE call' = call
  BY <1>1 DEF Onward
<1>2. CASE Waits(r) /\ call' = Ended(r.c, "nothing")
  BY <1>0, <1>2, EndedOnward
<1>3. CASE Waits(r) /\ call' = [call EXCEPT ![r.c].pc = "send", ![r.c].sends = 0, ![r.c].stage = @ + 1]
  <2>1. d.pc = "wait" /\ d.k = r.k /\ r.op = d.op
    BY <1>3 DEF Waits, OfCall
  <2>2. Others(r.c) /\ Same(r.c)
    BY <1>0, <1>3, <2>1, NextStage
  <2>3. Onward(r.c)
    BY <1>0, <2>1, <2>2 DEF Onward, Same, Aims
  <2>4. QED
    BY <2>2, <2>3 DEF Others, Onward
<1>4. QED
  BY <1>1, <1>2, <1>3 DEF FetchedOpen

LEMMA OnwardStep ==
  ASSUME OrdersTypeOK, OfCall, Numbered, OnAskedMarket, Aimed, [Next]_vars
  PROVE  \A c \in Callers : Onward(c)
<1>1. ASSUME NEW c \in Callers, Create(c) \/ Edit(c) \/ Request(c) \/ List(c)
      PROVE  \A d \in Callers : Onward(d)
  <2>1. Others(c) /\ Begun(c)
    BY <1>1, BeginKind
  <2>2. Onward(c)
    BY <2>1 DEF Onward, Begun
  <2>3. QED
    BY <2>1, <2>2 DEF Others, Onward
<1>2. ASSUME NEW c \in Callers, Swap(c) \/ Look(c) \/ Restore(c) \/ Send(c)
      PROVE  \A d \in Callers : Onward(d)
  <2>1. Others(c) /\ Same(c) /\ call[c].pc # "idle" /\ call'[c].stage = call[c].stage
    <3>1. CASE Swap(c)
      BY <3>1, SwapStep
    <3>2. CASE Look(c)
      BY <3>2, LookStep
    <3>3. CASE Restore(c)
      BY <3>3, RestoreStep
    <3>4. CASE Send(c)
      BY <3>4, SendStep
    <3>5. QED
      BY <1>2, <3>1, <3>2, <3>3, <3>4
  <2>2. Onward(c)
    BY <2>1 DEF Onward, Same
  <2>3. QED
    BY <2>1, <2>2 DEF Others, Onward
<1>3. ASSUME NEW c \in Callers, Refuse(c) PROVE \A d \in Callers : Onward(d)
  BY <1>3, EndedOnward DEF Refuse
<1>4. ASSUME NEW c \in Callers, TimeOut(c) PROVE \A d \in Callers : Onward(d)
  <2>0. call[c].pc = "wait"
    BY <1>4 DEF TimeOut
  <2>1. CASE call' = [call EXCEPT ![c].pc = "send"]
    <3>1. Others(c) /\ Same(c) /\ call'[c].stage = call[c].stage
      BY <2>0, <2>1, SendAgain
    <3>2. Onward(c)
      BY <2>0, <3>1 DEF Onward, Same
    <3>3. QED
      BY <3>1, <3>2 DEF Others, Onward
  <2>2. CASE /\ call' = [call EXCEPT ![c].pc = "send", ![c].sends = 0, ![c].stage = @ + 1]
             /\ call[c].op = "algos"
    <3>1. Others(c) /\ Same(c)
      BY <2>0, <2>2, NextStage
    <3>2. Onward(c)
      BY <2>0, <2>2, <3>1 DEF Onward, Same, Aims
    <3>3. QED
      BY <3>1, <3>2 DEF Others, Onward
  <2>3. CASE call' = Ended(c, "nothing")
    BY <2>3, EndedOnward
  <2>4. QED
    BY <1>4, <2>1, <2>2, <2>3 DEF TimeOut
<1>5. ASSUME NEW r \in flight,
             Placed(r) \/ Canceled(r) \/ Edited(r) \/ Fetched(r) \/ FetchedOpen(r)
      PROVE  \A d \in Callers : Onward(d)
  <2>1. ASSUME Placed(r) \/ Canceled(r) \/ Edited(r) PROVE \A d \in Callers : Onward(d)
    <3>1. call' = call \/ call' = Ended(r.c, "nothing")
      BY <2>1 DEF Placed, Canceled, Edited
    <3>2. r.c \in Callers
      BY DEF OrdersTypeOK, RequestTypes
    <3>3. CASE call' = call
      BY <3>3 DEF Onward
    <3>4. QED
      BY <3>1, <3>2, <3>3, EndedOnward
  <2>2. QED
    BY <1>5, <2>1, FetchedOnward, ListedOnward
<1>6. ASSUME UNCHANGED call PROVE \A d \in Callers : Onward(d)
  BY <1>6 DEF Onward
<1>7. QED
  BY <1>1, <1>2, <1>3, <1>4, <1>5, <1>6 DEF Next, Execute, End, vars

LEMMA KnownStepHolds ==
  ASSUME OrdersTypeOK, OnAskedMarket, [Next]_vars
  PROVE  KnownStep
<1>1. ASSUME known' = known PROVE KnownStep
  BY <1>1 DEF KnownStep
<1>2. ASSUME NEW r \in flight, flight' = flight \ {r},
             Placed(r) \/ Canceled(r) \/ Edited(r) \/ Fetched(r) \/ FetchedOpen(r)
      PROVE  KnownStep
  <2>1. r.c \in Callers /\ r.mkt = Meant(r.c) /\ known \in [Callers -> SUBSET OrderIds]
    BY DEF OrdersTypeOK, RequestTypes, OnAskedMarket, OrderIds
  <2>2. PICK ids : Learns(r, ids) /\ \A i \in ids : orders'[i[1]].mkt = r.mkt
    BY <1>2, ExecuteStep DEF Learned
  <2>3. CASE known' = [known EXCEPT ![r.c] = @ \cup ids]
    BY <2>1, <2>2, <2>3 DEF KnownStep
  <2>4. QED
    BY <1>1, <2>2, <2>3 DEF Learns
<1>3. ASSUME ~Execute PROVE known' = known
  <2>1. ASSUME NEW c \in Callers, Create(c) \/ Edit(c) \/ Request(c) \/ List(c) PROVE known' = known
    BY <2>1, BeginKind
  <2>2. QED
    BY <1>3, <2>1 DEF Next, Swap, Look, Restore, Refuse, Send, TimeOut, End, vars
<1>4. QED
  BY <1>1, <1>2, <1>3 DEF Execute

LEMMA AimedStep ==
  ASSUME OrdersTypeOK, Aimed, FlightStep, OrdersStep, KnownStep, UNCHANGED <<dflt, wants>>,
         \A c \in Callers : Onward(c), known \in [Callers -> SUBSET OrderIds]
  PROVE  Aimed'
<1> DEFINE Fit(d, c) ==
             Aims(d.op) => <<d.tgt, d.pre>> \in known[c] /\ (d.op = "fetch" => Late(d))
<1>0. /\ \A r \in flight : r.c \in Callers
      /\ \A c \in Callers : Meant(c)' = Meant(c)
  BY DEF OrdersTypeOK, RequestTypes, Meant
<1>1. \A i \in DOMAIN orders :
        /\ orders'[i].mkt = orders[i].mkt /\ orders'[i].space = orders[i].space
        /\ orders[i].status = "ended" => orders'[i].status = "ended"
  <2>1. CASE Kept
    BY <2>1 DEF Kept, Named
  <2>2. ASSUME NEW r \in flight, NEW b, Added(r, b) PROVE \A i \in DOMAIN orders : orders'[i] = orders[i]
    BY <2>2, AddedTyped
  <2>3. QED
    BY <2>1, <2>2 DEF OrdersStep
<1>2. \A c \in Callers : \A i \in known'[c] : orders'[i[1]].mkt = Meant(c)
  BY <1>1 DEF KnownStep, Aimed, OrderIds
<1>3. ASSUME NEW c \in Callers, NEW t, NEW p, <<t, p>> \in known[c]
      PROVE  <<t, p>> \in known'[c] /\ orders'[t].space = orders[t].space
             /\ (orders[t].status = "ended" => orders'[t].status = "ended")
  BY <1>1, <1>3 DEF KnownStep, OrderIds
<1>4. \A c \in Callers : call[c].pc # "idle" => Fit(call[c], c)
  BY DEF Aimed
<1>5. \A r \in flight : Fit(r, r.c)
  BY DEF Aimed
<1>6. ASSUME NEW c \in Callers, call'[c].pc # "idle"
      PROVE  Fit(call'[c], c)
  <2>1. CASE call'[c] = call[c]
    BY <1>4, <1>6, <2>1
  <2>2. CASE Begun(c)
    BY <2>2 DEF Begun, Late
  <2>3. CASE /\ Same(c) /\ call[c].pc # "idle"
             /\ \/ call'[c].stage = call[c].stage \/ ~Aims(call[c].op)
                \/ call'[c].stage = 2 /\ (Whole(call[c]) => orders[call[c].tgt].status = "ended")
    BY <1>4, <2>3 DEF Same, Late, Whole
  <2>4. QED
    BY <1>6, <2>1, <2>2, <2>3 DEF Onward
<1>7. ASSUME NEW r \in flight' PROVE r.c \in Callers /\ Fit(r, r.c)
  <2>1. CASE r \in flight
    BY <1>0, <1>5, <2>1
  <2>2. ASSUME NEW c \in Callers, call[c].pc = "send", r = Message(c)
        PROVE  r.c \in Callers /\ Fit(r, r.c)
    <3>1. r.c = c /\ r.op = call[c].op /\ r.tgt = call[c].tgt /\ r.pre = call[c].pre
          /\ r.stage = call[c].stage
      BY <2>2 DEF Message
    <3>2. QED
      BY <1>4, <2>2, <3>1 DEF Late, Whole
  <2>3. QED
    BY <2>1, <2>2 DEF FlightStep
<1>8. \A c \in Callers : call'[c].got = "missing" =>
        /\ <<call'[c].tgt, call'[c].pre>> \in known'[c]
        /\ ~(call'[c].pre = (orders'[call'[c].tgt].space = "algo"))
  <2> SUFFICES ASSUME NEW c \in Callers, call'[c].got = "missing"
               PROVE  /\ <<call'[c].tgt, call'[c].pre>> \in known'[c]
                      /\ ~(call'[c].pre = (orders'[call'[c].tgt].space = "algo"))
    OBVIOUS
  <2>1. <<call'[c].tgt, call'[c].pre>> \in known[c] /\ ~Whole(call'[c])
    BY DEF Aimed, Onward, Whole
  <2>2. QED
    BY <1>3, <2>1 DEF Whole
<1>f. ASSUME NEW c \in Callers, NEW d, Fit(d, c)
      PROVE  Aims(d.op) => /\ <<d.tgt, d.pre>> \in known'[c]
                           /\ d.op = "fetch" =>
                                \/ d.stage = 1
                                \/ /\ d.stage = 2
                                   /\ (d.pre = (orders'[d.tgt].space = "algo")) => orders'[d.tgt].status = "ended"
  BY <1>3, <1>f DEF Late, Whole
<1> HIDE DEF Fit
<1>9. \A c \in Callers : call'[c].pc # "idle" /\ Aims(call'[c].op) =>
        /\ <<call'[c].tgt, call'[c].pre>> \in known'[c]
        /\ call'[c].op = "fetch" => Late(call[c])'
  BY <1>f, <1>6 DEF Late, Whole
<1>10. \A r \in flight' : Aims(r.op) =>
         /\ <<r.tgt, r.pre>> \in known'[r.c]
         /\ r.op = "fetch" =>
              \/ r.stage = 1
              \/ r.stage = 2 /\ ((r.pre = (orders'[r.tgt].space = "algo")) => orders'[r.tgt].status = "ended")
  BY <1>f, <1>7
<1>11. QED
  BY <1>0, <1>2, <1>8, <1>9, <1>10 DEF Aimed, Late, Whole

LEMMA ReachedHolds ==
  ASSUME OrdersTypeOK, Numbered, OnAskedMarket, Aimed
  PROVE  Reached
<1>1. ASSUME NEW r \in flight, Aims(r.op), Whole(r)
      PROVE  /\ r.op \in {"cancel", "fetch"} => Touched(r) = {r.tgt}
             /\ r.op = "edit" => Touched(r) \subseteq {r.tgt}
  BY <1>1, TouchedOne
<1>2. QED
  BY <1>1 DEF Aimed, Aims, Reached

\* While no two callers give market arguments, a request goes to the market its
\* caller means; and one sent by the id of an order acts on that order, or on none.
MarketInv == OrdersTypeOK /\ MarketKept /\ OnAskedMarket
AimInv    == MarketInv /\ OfCall /\ Numbered /\ Aimed

LEMMA OrdersInitially == Init => AimInv
<1> SUFFICES ASSUME Init PROVE AimInv
  OBVIOUS
<1>1. OrdersTypeOK
  BY TypeInit
<1>2. \A c \in Callers : call[c].pc = "idle" /\ call[c].got = "nothing" /\ known[c] = {}
  BY DEF Init, Idle
<1>3. flight = {} /\ orders = <<>> /\ mt = dflt
  BY DEF Init
<1>4. DOMAIN orders = {}
  BY <1>3
<1>5. MarketKept
  BY <1>2, <1>3 DEF MarketKept
<1>6. OnAskedMarket /\ OfCall /\ Numbered /\ Aimed
  BY <1>2, <1>3, <1>4 DEF OnAskedMarket, OfCall, Numbered, Aimed
<1>7. QED
  BY <1>1, <1>5, <1>6 DEF AimInv, MarketInv

LEMMA AimInvStep ==
  ASSUME Undisturbed, AimInv, [Next]_vars PROVE AimInv'
<1>1. OrdersTypeOK' /\ CallStep /\ FlightStep /\ OrdersStep /\ UNCHANGED <<exg, dflt, wants>>
  BY TypeStep DEF AimInv, MarketInv
<1>2. MarketKept' /\ OnAskedMarket' /\ OfCall' /\ Numbered'
  BY <1>1, MarketKeptStep, OnAskedMarketStep, OfCallStep, NumberedStep DEF AimInv, MarketInv
<1>3. Aimed'
  <2>1. KnownStep /\ \A c \in Callers : Onward(c)
    BY OnwardStep, KnownStepHolds DEF AimInv, MarketInv
  <2>2. known \in [Callers -> SUBSET OrderIds]
    BY DEF AimInv, MarketInv, OrdersTypeOK, OrderIds
  <2>3. QED
    BY <1>1, <2>1, <2>2, AimedStep DEF AimInv, MarketInv
<1>4. QED
  BY <1>1, <1>2, <1>3 DEF AimInv, MarketInv

\* No order goes to another market than its caller means, and no request about an
\* order looks for it elsewhere, if GetArgsMarket is not disturbed.
THEOREM MarketIsMeant ==
  ASSUME Undisturbed PROVE Spec => []OnAskedMarket
<1>1. AimInv /\ [Next]_vars => AimInv'
  BY AimInvStep
<1>2. AimInv => OnAskedMarket
  BY DEF AimInv, MarketInv
<1>3. QED
  BY <1>1, <1>2, OrdersInitially, PTL DEF Spec

\* Then a request to cancel or fetch an order by a whole id that the library gave out
\* acts on that order however late it arrives, one to edit acts on it or on none, and
\* FetchOrder does not miss it.  Not so by an id that CancelOrder of binance gave out
\* without its prefix.
THEOREM OrderIsReached ==
  ASSUME Undisturbed PROVE Spec => []Reached
<1>1. AimInv /\ [Next]_vars => AimInv'
  BY AimInvStep
<1>2. AimInv => Reached
  BY ReachedHolds DEF AimInv, MarketInv
<1>3. QED
  BY <1>1, <1>2, OrdersInitially, PTL DEF Spec
-------------------------------------------------------------------------------
(* An order is what its caller asked for.                                  *)

\* What an order is, and what was asked for, told type by type.
Meets(o, a) ==
  /\ a.type \in Stops => o.cond \in {"stop", "cross"}
  /\ a.type \in Takes => o.cond \in {"take", "cross"}
  /\ a.type = "trailing_stop_market" => o.cond = "trail"
  /\ a.type \in {"limit", "market", "limit_maker"} => o.cond = "none"
  /\ o.exec = IF a.price THEN "limit" ELSE "market"
  /\ o.post = (a.type = "limit_maker")
ToldApart(type, o) == (type \in {"limit", "market", "limit_maker"}) = (o.cond = "none")

\* The prices that sensible arguments have
LEMMA Triggers ==
  ASSUME NEW a \in Args, Sensible(a)
  PROVE  /\ a.type \in Stops => (a.trigger \/ a.sl) /\ ~a.tp
         /\ a.type \in Takes => ~a.trigger /\ ~a.sl /\ a.tp
         /\ a.type \notin Stops \cup Takes => ~a.trigger /\ ~a.sl /\ ~a.tp
         /\ a.type \in Types
<1>1. a.trigger \in BOOLEAN /\ a.sl \in BOOLEAN /\ a.tp \in BOOLEAN /\ a.type \in Types
  BY Zenon DEF Args
<1>2. a.type \in Stops => a.type \notin Takes
  BY DEF Stops, Takes
<1>3. (a.trigger \/ a.sl) = (a.type \in Stops) /\ a.tp = (a.type \in Takes)
  BY DEF Sensible
<1>4. QED
  BY ONLY <1>1, <1>2, <1>3, Zenon

LEMMA OkxMeets ==
  ASSUME NEW m, NEW a \in Args, Sensible(a), NEW b \in Okx!Place(m, a)
  PROVE  Meets(b, a)
<1>1. CASE a.type \in {"stop", "stop_market"}
  <2>1. PICK f : b = Okx!Order("algo", "cross", Okx!Exec(a.price), FALSE, f)
    <3>1. a.type \in Okx!Stops /\ a.type \notin Okx!Legs /\ a.type # Okx!Trail
      BY <1>1 DEF Okx!Stops, Okx!Legs, Okx!Trail
    <3>2. b \in Okx!Algo(a)
      BY <3>1 DEF Okx!Place, Okx!IsAlgo
    <3>3. QED
      BY <3>1, <3>2 DEF Okx!Algo
  <2>2. QED
    BY <1>1, <2>1 DEF Okx!Order, Okx!Exec, Meets, Stops, Takes
<1>2. CASE a.type \in {"stop_loss", "stop_loss_limit"}
  <2>1. Okx!StopLoss(a) /\ ~a.tp /\ a.type \in Okx!Legs
    BY <1>2 DEF Sensible, Stops, Takes, Okx!StopLoss, Okx!Legs
  <2>2. PICK f : b = Okx!Order("algo", "stop", Okx!Exec(a.price /\ a.type = "stop_loss_limit"), FALSE, f)
    BY <1>2, <2>1 DEF Okx!Place, Okx!IsAlgo, Okx!Algo, Okx!Stops, Okx!Trail
  <2>3. QED
    BY <1>2, <2>2 DEF Okx!Order, Okx!Exec, Meets, Stops, Takes, Sensible, Priced
<1>3. CASE a.type \in Takes
  <2>1. ~Okx!StopLoss(a) /\ a.tp /\ a.type \in Okx!Legs
    BY <1>3 DEF Sensible, Stops, Takes, Okx!StopLoss, Okx!Legs
  <2>2. PICK f : b = Okx!Order("algo", "take", Okx!Exec(a.price /\ a.type = "take_profit_limit"), FALSE, f)
    BY <1>3, <2>1 DEF Okx!Place, Okx!IsAlgo, Okx!Algo, Okx!Stops, Okx!Trail, Takes
  <2>3. QED
    BY <1>3, <2>2 DEF Okx!Order, Okx!Exec, Meets, Stops, Takes, Sensible, Priced
<1>4. CASE a.type = "trailing_stop_market"
  <2>1. PICK f : b = Okx!Order("algo", "trail", "market", FALSE, f)
    BY <1>4 DEF Okx!Place, Okx!IsAlgo, Okx!Algo, Okx!Stops, Okx!Trail, Okx!Legs
  <2>2. QED
    BY <1>4, <2>1 DEF Okx!Order, Meets, Stops, Takes, Sensible, Priced
<1>5. CASE a.type \in {"limit", "market", "limit_maker"}
  <2>1. ~Okx!IsAlgo(a)
    BY <1>5, Triggers DEF Stops, Takes, Okx!IsAlgo, Okx!StopLoss, Okx!Stops, Okx!Legs, Okx!Trail
  <2>2. b.cond = "none" /\ b.exec = Okx!Exec(Okx!OrdType(a) # "market")
        /\ b.post = (Okx!OrdType(a) = "post_only")
    <3> DEFINE t == IF Okx!OrdType(a) \in {"ioc", "fok"} THEN a.tif ELSE ""
               x == Okx!Exec(Okx!OrdType(a) # "market")
               p == Okx!OrdType(a) = "post_only"
    <3>1. b = Okx!Order("regular", "none", x, p, t)
      BY <2>1 DEF Okx!Place, Okx!Regular
    <3> HIDE DEF t, x, p
    <3>2. b.cond = "none" /\ b.exec = x /\ b.post = p
      BY <3>1 DEF Okx!Order
    <3>3. QED
      BY <3>2 DEF x, p
  <2>3. (Okx!OrdType(a) = "post_only") = (a.type = "limit_maker")
    BY <1>5 DEF Okx!OrdType, Sensible
  <2>4. (Okx!OrdType(a) # "market") = (a.type # "market")
    BY <1>5 DEF Okx!OrdType, Sensible
  <2>5. QED
    BY <1>5, <2>2, <2>3, <2>4 DEF Okx!Exec, Meets, Stops, Takes, Sensible, Priced
<1>6. QED
  BY <1>1, <1>2, <1>3, <1>4, <1>5, Triggers DEF Types, Takes

LEMMA BinanceMeets ==
  ASSUME NEW m, NEW a \in Args, Sensible(a), NEW b \in Binance!Place(m, a)
  PROVE  Meets(b, a) /\ b.cond # "cross"
<1> DEFINE t == Binance!TypeOf(m, a)
           post == t = "limit_maker" \/ (m # "spot" /\ t = "limit" /\ a.type = "limit_maker")
<1>1. ~Binance!Refused(m, a)
  BY DEF Binance!Place
<1>2. b.cond = Binance!CondOf(t) /\ b.post = post
      /\ b.exec = IF Binance!NeedsPrice(m, t) THEN "limit" ELSE "market"
  <2> DEFINE e == IF Binance!NeedsPrice(m, t) THEN "limit" ELSE "market"
             p == IF Binance!IsAlgo(m, t) THEN "algo" ELSE "regular"
             f == IF a.tif \in {"IOC", "FOK"} THEN a.tif ELSE ""
  <2>1. b = Binance!Order(p, Binance!CondOf(t), e, post, f)
    BY <1>1 DEF Binance!Place
  <2> HIDE DEF e, p, f, t, post
  <2>2. b.cond = Binance!CondOf(t) /\ b.post = post /\ b.exec = e
    BY <2>1 DEF Binance!Order
  <2>3. QED
    BY <2>2 DEF e
<1>3. Binance!NeedsPrice(m, t) => a.price
  BY <1>1 DEF Binance!Refused
<1>4. t = IF m # "spot" /\ a.type = "limit_maker" THEN "limit" ELSE a.type
  <2>1. Binance!BaseType(m, a) = IF m # "spot" /\ a.type = "limit_maker" THEN "limit" ELSE a.type
    BY DEF Binance!BaseType, Binance!WantsPost, Sensible
  <2>2. a.type \in {"limit", "market", "limit_maker"} => ~Binance!StopLoss(a) /\ ~a.tp
    BY DEF Binance!StopLoss, Sensible, Stops, Takes
  <2>3. QED
    BY <2>1, <2>2 DEF Binance!TypeOf
<1>5. a.price => Binance!NeedsPrice(m, t)
  BY <1>4 DEF Binance!NeedsPrice, Sensible, Priced
<1>6. /\ a.type \in Stops => Binance!CondOf(t) = "stop"
      /\ a.type \in Takes => Binance!CondOf(t) = "take"
      /\ a.type = "trailing_stop_market" => Binance!CondOf(t) = "trail"
      /\ a.type \in {"limit", "market", "limit_maker"} => Binance!CondOf(t) = "none"
  BY <1>4 DEF Binance!CondOf, Stops, Takes
<1>7. post = (a.type = "limit_maker")
  BY <1>4
<1>8. b.cond # "cross"
  BY <1>2 DEF Binance!CondOf
<1>9. QED
  BY <1>2, <1>3, <1>5, <1>6, <1>7, <1>8 DEF Meets

LEMMA BybitMeets ==
  ASSUME NEW m, NEW a \in Args, Sensible(a), NEW b \in Bybit!Place(m, a), b.space # "position"
  PROVE  Meets(b, a)
<1>1. a.type # Bybit!Trail /\ ~a.trail /\ ~Bybit!Refused(m, a)
      /\ b.cond = Bybit!CondOf(m, a) /\ b.exec = Bybit!ExecOf(a) /\ b.post = Bybit!Post(a)
  <2>1. CASE a.type = Bybit!Trail \/ a.trail
    <3>1. PICK f : b = Bybit!Order("position", "trail", "market", FALSE, f)
      BY <2>1 DEF Bybit!Place
    <3>2. QED
      BY <3>1 DEF Bybit!Order
  <2>2. CASE a.type # Bybit!Trail /\ ~a.trail
    <3> DEFINE f == IF a.tif \in {"IOC", "FOK"} /\ ~Bybit!Post(a) THEN a.tif ELSE ""
    <3>1. ~Bybit!Refused(m, a)
          /\ b = Bybit!Order("regular", Bybit!CondOf(m, a), Bybit!ExecOf(a), Bybit!Post(a), f)
      BY <2>2 DEF Bybit!Place
    <3> HIDE DEF f
    <3>2. QED
      BY <2>2, <3>1 DEF Bybit!Order
  <2>3. QED
    BY <2>1, <2>2
<1>2. Bybit!ExecOf(a) = IF a.price THEN "limit" ELSE "market"
  BY <1>1 DEF Bybit!ExecOf, Bybit!Refused, Bybit!Trail, Sensible, Priced, Args, Types
<1>3. Bybit!Post(a) = (a.type = "limit_maker")
  BY DEF Bybit!Post, Sensible
<1>4. Bybit!HasTrigger(a) = (a.type \in Stops \cup Takes)
  <2>1. Bybit!Stops = Stops \cup Takes
    BY DEF Bybit!Stops, Bybit!Takes, Stops, Takes
  <2>2. QED
    BY <2>1, Triggers DEF Bybit!HasTrigger
<1>5. (Bybit!Direction(a) = "rise") = (a.side = "buy") <=> a.type \notin Takes
  BY DEF Bybit!Direction, Bybit!Takes, Takes, Args
<1>6. Bybit!CondOf(m, a) = IF a.type \notin Stops \cup Takes THEN "none"
                           ELSE IF m = "spot" THEN "cross"
                           ELSE IF a.type \in Takes THEN "take" ELSE "stop"
  BY <1>4, <1>5 DEF Bybit!CondOf
<1>7. QED
  BY <1>1, <1>2, <1>3, <1>6 DEF Meets, Stops, Takes, Bybit!Trail

\* What an order is shown as tells whether it is conditional.
LEMMA ShownTold ==
  ASSUME exg \in {"okx", "binance", "bybit"}, NEW o, o.exec \in {"limit", "market"},
         o.cond \in {"none", "cross", "stop", "take", "trail"}, exg = "binance" => o.cond # "cross"
  PROVE  ToldApart(ShownType(o), o)
<1>1. CASE exg = "okx"
  <2>1. ToldApart(Okx!ShownType(o), o)
    BY DEF Okx!ShownType, Okx!Trail, ToldApart
  <2>2. QED
    BY <1>1, <2>1 DEF ShownType
<1>2. CASE exg = "binance"
  <2>1. ToldApart(Binance!ShownType(o.mkt, o), o)
    BY <1>2 DEF Binance!ShownType, ToldApart
  <2>2. QED
    BY <1>2, <2>1 DEF ShownType
<1>3. CASE exg = "bybit"
  <2>1. ToldApart(Bybit!ShownType(o), o)
    BY DEF Bybit!ShownType, Bybit!Trail, ToldApart
  <2>2. QED
    BY <1>3, <2>1 DEF ShownType
<1>4. QED
  BY <1>1, <1>2, <1>3

\* What is sent in contracts and shown in coins again is what was asked for.
LEMMA AmountKept ==
  ASSUME Sensibly, NEW n \in Amounts \cup {0}, NEW m, NEW space
  PROVE  n = IF exg = "okx" THEN Okx!ShownCoins(m, SizeOf(m, space, n), Size) ELSE SizeOf(m, space, n)
<1>1. (n \div Size) * Size = n
  <2>1. Size \in Nat \ {0}
    BY OrdersAssumption
  <2>2. (0 \div Size) * Size = 0
    BY ONLY <2>1
  <2>3. QED
    BY <2>2 DEF Sensibly
<1>2. QED
  BY <1>1 DEF SizeOf, Okx!SizeOf, Okx!ShownCoins

\* An order, as it should be.
Due(o) ==
  /\ o.ask \in Asks /\ Meets(o, o.ask) /\ ToldApart(ShownType(o), o)
  /\ o.want = IF exg = "okx" THEN Okx!ShownCoins(o.mkt, o.sz, Size) ELSE o.sz

LEMMA NewDue ==
  ASSUME OrdersTypeOK, Sensibly, NEW r \in flight, NEW b, Added(r, b)
  PROVE  Due(NewOrder(r, b))
<1> DEFINE o == NewOrder(r, b)
<1>1. /\ b \in Place(r.mkt, r.ask) /\ b.space # "position" /\ r.ask \in Asks /\ Sensible(r.ask)
      /\ exg \in Exchanges
  BY DEF Added, OrdersTypeOK, Sensibly
<1>2. /\ o.ask = r.ask /\ o.cond = b.cond /\ o.exec = b.exec /\ o.post = b.post
      /\ o.mkt = r.mkt /\ o.want = r.amt /\ o.sz = SizeOf(r.mkt, b.space, r.amt)
  BY Zenon DEF NewOrder
<1>3. r.ask \in Args /\ exg \in {"okx", "binance", "bybit"}
  BY <1>1, OrdersAssumption
<1>4. Meets(b, r.ask) /\ (exg = "binance" => b.cond # "cross")
  <2>1. CASE exg = "okx"
    BY <1>1, <1>3, <2>1, OkxMeets DEF Place
  <2>2. CASE exg = "binance"
    BY <1>1, <1>3, <2>2, BinanceMeets DEF Place
  <2>3. CASE exg = "bybit"
    BY <1>1, <1>3, <2>3, BybitMeets DEF Place
  <2>4. QED
    BY <1>3, <2>1, <2>2, <2>3
<1>5. o.cond \in {"none", "cross", "stop", "take", "trail"} /\ o.exec \in {"limit", "market"}
  <2>1. r.ask.type \in Types
    BY <1>3, Zenon DEF Args
  <2>2. QED
    BY <1>2, <1>4, <2>1 DEF Meets, Types, Stops, Takes
<1>6. Meets(o, o.ask)
  BY <1>2, <1>4 DEF Meets
<1>7. ToldApart(ShownType(o), o)
  BY <1>2, <1>3, <1>4, <1>5, ShownTold
<1>8. o.want = IF exg = "okx" THEN Okx!ShownCoins(o.mkt, o.sz, Size) ELSE o.sz
  <2>1. r.amt \in Amounts \cup {0}
    <3>1. r \in RequestTypes
      BY DEF OrdersTypeOK
    <3>2. QED
      BY ONLY <3>1 DEF RequestTypes
  <2>2. QED
    BY <1>2, <2>1, AmountKept
<1>9. QED
  BY <1>1, <1>2, <1>6, <1>7, <1>8 DEF Due

\* An order that changes its status or its amount is still what was asked for.
LEMMA DueKept ==
  ASSUME Sensibly, NEW o, NEW p, Named(p, o), Asked(p, o), Due(o)
  PROVE  Due(p)
<1>1. p.ask \in Asks /\ Meets(p, p.ask)
  BY DEF Asked, Due, Meets
<1>2. ShownType(p) = ShownType(o)
  <2>1. Okx!ShownType(p) = Okx!ShownType(o)
    BY DEF Asked, Okx!ShownType
  <2>2. Binance!ShownType(p.mkt, p) = Binance!ShownType(o.mkt, o)
    BY DEF Asked, Named, Binance!ShownType
  <2>3. Bybit!ShownType(p) = Bybit!ShownType(o)
    BY DEF Asked, Bybit!ShownType
  <2>4. QED
    BY <2>1, <2>2, <2>3 DEF ShownType
<1>3. ToldApart(ShownType(p), p)
  BY <1>2 DEF ToldApart, Due, Asked
<1>4. p.want = IF exg = "okx" THEN Okx!ShownCoins(p.mkt, p.sz, Size) ELSE p.sz
  <2>1. CASE p.want = o.want /\ p.sz = o.sz
    BY <2>1 DEF Due, Named
  <2>2. CASE p.want \in Amounts \cup {0} /\ p.sz = SizeOf(o.mkt, o.space, p.want)
    BY <2>2, AmountKept DEF Named
  <2>3. QED
    BY <2>1, <2>2 DEF Asked
<1>5. QED
  BY <1>1, <1>3, <1>4 DEF Due

AllDue == \A i \in DOMAIN orders : Due(orders[i])

LEMMA AllDueStep ==
  ASSUME Sensibly, OrdersTypeOK, AllDue, OrdersStep, UNCHANGED exg
  PROVE  AllDue'
<1>1. \A o : Due(o)' <=> Due(o)
  BY DEF Due, ShownType, ToldApart, Meets
<1>2. ASSUME NEW i \in DOMAIN orders' PROVE Due(orders'[i])
  <2>1. CASE Kept
    BY <2>1, DueKept DEF Kept, AllDue
  <2>2. ASSUME NEW r \in flight, NEW b, Added(r, b) PROVE Due(orders'[i])
    BY <2>2, AddedTyped, NewDue DEF AllDue
  <2>3. QED
    BY <2>1, <2>2 DEF OrdersStep
<1>3. QED
  BY <1>1, <1>2 DEF AllDue

LEMMA DueMeans ==
  ASSUME Sensibly, AllDue PROVE AsAsked
<1>1. ASSUME NEW i \in DOMAIN orders, NEW o, o = orders[i], NEW a, a = o.ask
      PROVE  /\ o.cond \in CASE a.type \in Stops -> {"stop", "cross"}
                             [] a.type \in Takes -> {"take", "cross"}
                             [] a.trail           -> {"trail"}
                             [] OTHER             -> {"none"}
             /\ o.exec = IF a.price THEN "limit" ELSE "market"
             /\ o.post = (a.type = "limit_maker")
             /\ o.want = IF exg = "okx" THEN Okx!ShownCoins(o.mkt, o.sz, Size) ELSE o.sz
             /\ (ShownType(o) \in {"limit", "market", "limit_maker"}) = (o.cond = "none")
  <2>1. Due(o) /\ a \in Asks
    BY <1>1 DEF AllDue, Due
  <2>2. Meets(o, a) /\ Sensible(a) /\ a.type \in Types
    <3>1. a \in Args
      BY <2>1, OrdersAssumption
    <3>2. a.type \in Types
      BY <3>1, Zenon DEF Args
    <3>3. QED
      BY <1>1, <2>1, <3>2 DEF Due, Sensibly
  <2>3. o.cond \in CASE a.type \in Stops -> {"stop", "cross"}
                     [] a.type \in Takes -> {"take", "cross"}
                     [] a.trail           -> {"trail"}
                     [] OTHER             -> {"none"}
    <3>1. CASE a.type \in Stops
      BY <2>2, <3>1 DEF Meets, Stops, Takes, Sensible
    <3>2. CASE a.type \in Takes
      BY <2>2, <3>2 DEF Meets, Stops, Takes, Sensible
    <3>3. CASE a.type = "trailing_stop_market"
      BY <2>2, <3>3 DEF Meets, Stops, Takes, Sensible
    <3>4. CASE a.type \in {"limit", "market", "limit_maker"}
      BY <2>2, <3>4 DEF Meets, Stops, Takes, Sensible
    <3>5. QED
      BY <2>2, <3>1, <3>2, <3>3, <3>4 DEF Types, Stops, Takes
  <2>4. QED
    BY <1>1, <2>1, <2>2, <2>3 DEF Due, Meets, ToldApart
<1>2. QED
  BY <1>1 DEF AsAsked

\* What callers ask for in earnest is what the exchange has, on every adapter and
\* through every edit: the condition, the execution, the amount, and how it is shown.
THEOREM OrdersAsAsked ==
  ASSUME Sensibly PROVE Spec => []AsAsked
<1> DEFINE Inv == OrdersTypeOK /\ AllDue
<1>1. Init => Inv
  BY TypeInit DEF Init, AllDue
<1>2. Inv /\ [Next]_vars => Inv'
  BY TypeStep, AllDueStep
<1>3. Inv => AsAsked
  BY DueMeans
<1>4. QED
  BY <1>1, <1>2, <1>3, PTL DEF Spec

-------------------------------------------------------------------------------
(* A history is read whole.                                                *)

\* A set of numbers has a least one, and a greatest if it has a bound.
LEMMA LeastIs ==
  ASSUME NEW S \in SUBSET Nat, S # {}
  PROVE  Least(S) \in S /\ \A y \in S : Least(S) <= y
<1>1. PICK x \in S : \A y \in S : <<y, x>> \notin OpToRel(<, Nat)
  BY WFMin, NatLessThanWellFounded, Zenon
<1>2. \A y \in S : ~(y < x)
  BY <1>1, Zenon DEF OpToRel
<1>3. \A y \in S : x <= y
  BY <1>2
<1>4. QED
  BY <1>3 DEF Least

LEMMA MostIs ==
  ASSUME NEW S \in SUBSET Nat, S # {}, NEW n \in Nat, \A y \in S : y <= n
  PROVE  Most(S) \in S /\ \A y \in S : Most(S) >= y
<1> DEFINE U == {k \in Nat : \A y \in S : y <= k}
           m == Least(U)
<1>1. U \in SUBSET Nat /\ n \in U
  OBVIOUS
<1>2. m \in U /\ \A k \in U : m <= k
  BY <1>1, LeastIs
<1>u. \A k : k \in U <=> k \in Nat /\ \A y \in S : y <= k
  OBVIOUS
<1> HIDE DEF m, U
<1>3. m \in S
  <2>1. SUFFICES ASSUME m \notin S PROVE FALSE
    OBVIOUS
  <2>2. PICK y \in S : TRUE
    OBVIOUS
  <2>3. m \in Nat /\ \A z \in S : z \in Nat /\ z <= m /\ z # m
    BY <1>2, <1>u, <2>1
  <2>4. m - 1 \in Nat /\ \A z \in S : z <= m - 1
    BY <2>2, <2>3
  <2>5. QED
    BY <1>2, <1>u, <2>3, <2>4
<1>4. \A y \in S : m >= y
  BY <1>2, <1>u
<1>5. QED
  BY <1>3, <1>4 DEF Most

\* The newest n of a set: n of them at most; and all, if they are not n.
LEMMA NewestAre ==
  ASSUME NEW b \in Nat, NEW S \in SUBSET (1..b), NEW n \in Int
  PROVE  /\ \A i \in Newest(S, n), j \in S : j > i => j \in Newest(S, n)
         /\ n \in Nat /\ Cardinality(Newest(S, n)) # n => Newest(S, n) = S
<1> DEFINE N == Newest(S, n)
           Above(i) == {j \in S : j > i}
<1>0. \A T \in SUBSET S : IsFiniteSet(T) /\ Cardinality(T) \in Nat
  <2>0. IsFiniteSet(1..b)
    BY FS_Interval
  <2>1. IsFiniteSet(S)
    BY <2>0, FS_Subset
  <2>2. QED
    BY <2>1, FS_Subset, FS_CardinalityType
<1>1. \A i : i \in N <=> i \in S /\ Cardinality(Above(i)) < n
  BY DEF Newest
<1>a. \A i, j : j \in Above(i) <=> j \in S /\ j > i
  OBVIOUS
<1>s. \A i \in S : i \in Nat /\ i <= b
  OBVIOUS
<1> HIDE DEF N, Above
<1>2. ASSUME NEW i \in N, NEW j \in S, j > i PROVE j \in N
  <2>1. Above(j) \in SUBSET Above(i) /\ Above(i) \in SUBSET S
    <3>1. i \in S
      BY <1>1, <1>2
    <3>2. ASSUME NEW k \in Above(j) PROVE k \in Above(i)
      <4>1. k \in S /\ k > j
        BY <1>a
      <4>2. i \in Nat /\ j \in Nat /\ k \in Nat
        BY <1>s, <1>2, <3>1, <4>1
      <4>3. k > i
        BY <1>2, <4>1, <4>2
      <4>4. QED
        BY <1>a, <4>1, <4>3
    <3>3. QED
      BY <1>a, <3>2
  <2>2. Cardinality(Above(j)) <= Cardinality(Above(i))
    BY <1>0, <2>1, FS_Subset
  <2>3. Cardinality(Above(i)) < n
    BY <1>1
  <2>4. QED
    BY <1>0, <1>1, <2>1, <2>2, <2>3
<1>3. ASSUME n \in Nat, Cardinality(N) # n, N # S PROVE FALSE
  <2>0. N \in SUBSET S /\ IsFiniteSet(N) /\ Cardinality(N) \in Nat
    BY <1>0, <1>1
  <2>1. Cardinality(N) <= n
    <3>1. CASE N = {}
      BY <1>3, <3>1, FS_EmptySet
    <3>2. CASE N # {}
      <4> DEFINE y == Least(N)
      <4>1. y \in N /\ \A z \in N : y <= z
        <5>1. N \in SUBSET Nat
          BY <1>s, <2>0
        <5>2. QED
          BY <3>2, <5>1, LeastIs
      <4> HIDE DEF y
      <4>2. N \ {y} = Above(y)
        <5>1. y \in S /\ y \in Nat
          BY <1>s, <2>0, <4>1
        <5>2. ASSUME NEW z \in N, z # y PROVE z \in Above(y)
          <6>1. z \in S /\ z \in Nat /\ y <= z
            BY <1>s, <2>0, <4>1
          <6>2. z > y
            BY <5>1, <5>2, <6>1
          <6>3. QED
            BY <1>a, <6>1, <6>2
        <5>3. ASSUME NEW z \in Above(y) PROVE z \in N /\ z # y
          <6>1. z \in S /\ z > y
            BY <1>a
          <6>2. z \in N
            BY <1>2, <4>1, <6>1
          <6>3. QED
            BY <5>1, <6>1, <6>2
        <5>4. QED
          BY <5>2, <5>3
      <4>3. Cardinality(N \ {y}) = Cardinality(N) - 1
        BY <2>0, <4>1, FS_RemoveElement
      <4>4. Cardinality(Above(y)) < n
        BY <1>1, <4>1
      <4>5. QED
        BY <1>0, <1>3, <2>0, <4>2, <4>3, <4>4
    <3>3. QED
      BY <3>1, <3>2
  <2> DEFINE x == Most(S \ N)
  <2>3. x \in S \ N /\ \A z \in S \ N : x >= z
    <3>1. S \ N \in SUBSET Nat /\ S \ N # {} /\ \A z \in S \ N : z <= b
      BY <1>3, <1>s, <2>0
    <3>2. QED
      BY <3>1, MostIs
  <2> HIDE DEF x
  <2>4. Above(x) = N
    <3>1. ASSUME NEW j \in N PROVE j \in Above(x)
      BY <1>2, <1>a, <1>s, <2>0, <2>3, <3>1
    <3>2. ASSUME NEW j \in Above(x) PROVE j \in N
      <4>1. j \in S /\ j > x /\ x \in Nat /\ j \in Nat
        BY <1>a, <1>s, <2>3, <3>2
      <4>2. j \in S \ N => x >= j
        BY <2>3
      <4>3. QED
        BY <4>1, <4>2
    <3>3. QED
      BY <3>1, <3>2
  <2>5. ~(Cardinality(Above(x)) < n)
    BY <1>1, <2>3
  <2>6. QED
    BY <1>3, <2>0, <2>1, <2>4, <2>5
<1>4. QED
  BY <1>2, <1>3 DEF N

\* The oldest n of a set likewise.
LEMMA OldestAre ==
  ASSUME NEW b \in Nat, NEW S \in SUBSET (1..b), NEW n \in Int
  PROVE  /\ \A i \in Oldest(S, n), j \in S : j < i => j \in Oldest(S, n)
         /\ n \in Nat /\ Cardinality(Oldest(S, n)) # n => Oldest(S, n) = S
<1> DEFINE N == Oldest(S, n)
           Below(i) == {j \in S : j < i}
<1>0. \A T \in SUBSET S : IsFiniteSet(T) /\ Cardinality(T) \in Nat
  <2>0. IsFiniteSet(1..b)
    BY FS_Interval
  <2>1. IsFiniteSet(S)
    BY <2>0, FS_Subset
  <2>2. QED
    BY <2>1, FS_Subset, FS_CardinalityType
<1>1. \A i : i \in N <=> i \in S /\ Cardinality(Below(i)) < n
  BY DEF Oldest
<1>a. \A i, j : j \in Below(i) <=> j \in S /\ j < i
  OBVIOUS
<1>s. \A i \in S : i \in Nat /\ i <= b
  OBVIOUS
<1> HIDE DEF N, Below
<1>2. ASSUME NEW i \in N, NEW j \in S, j < i PROVE j \in N
  <2>1. Below(j) \in SUBSET Below(i) /\ Below(i) \in SUBSET S
    <3>1. i \in S
      BY <1>1, <1>2
    <3>2. ASSUME NEW k \in Below(j) PROVE k \in Below(i)
      <4>1. k \in S /\ k < j
        BY <1>a
      <4>2. i \in Nat /\ j \in Nat /\ k \in Nat
        BY <1>s, <1>2, <3>1, <4>1
      <4>3. k < i
        BY <1>2, <4>1, <4>2
      <4>4. QED
        BY <1>a, <4>1, <4>3
    <3>3. QED
      BY <1>a, <3>2
  <2>2. Cardinality(Below(j)) <= Cardinality(Below(i))
    BY <1>0, <2>1, FS_Subset
  <2>3. Cardinality(Below(i)) < n
    BY <1>1
  <2>4. QED
    BY <1>0, <1>1, <2>1, <2>2, <2>3
<1>3. ASSUME n \in Nat, Cardinality(N) # n, N # S PROVE FALSE
  <2>0. N \in SUBSET S /\ IsFiniteSet(N) /\ Cardinality(N) \in Nat
    BY <1>0, <1>1
  <2>1. Cardinality(N) <= n
    <3>1. CASE N = {}
      BY <1>3, <3>1, FS_EmptySet
    <3>2. CASE N # {}
      <4> DEFINE y == Most(N)
      <4>1. y \in N /\ \A z \in N : y >= z
        <5>1. N \in SUBSET Nat /\ \A z \in N : z <= b
          BY <1>s, <2>0
        <5>2. QED
          BY <3>2, <5>1, MostIs
      <4> HIDE DEF y
      <4>2. N \ {y} = Below(y)
        <5>1. y \in S /\ y \in Nat
          BY <1>s, <2>0, <4>1
        <5>2. ASSUME NEW z \in N, z # y PROVE z \in Below(y)
          <6>1. z \in S /\ z \in Nat /\ y >= z
            BY <1>s, <2>0, <4>1
          <6>2. z < y
            BY <5>1, <5>2, <6>1
          <6>3. QED
            BY <1>a, <6>1, <6>2
        <5>3. ASSUME NEW z \in Below(y) PROVE z \in N /\ z # y
          <6>1. z \in S /\ z < y
            BY <1>a
          <6>2. z \in N
            BY <1>2, <4>1, <6>1
          <6>3. QED
            BY <5>1, <6>1, <6>2
        <5>4. QED
          BY <5>2, <5>3
      <4>3. Cardinality(N \ {y}) = Cardinality(N) - 1
        BY <2>0, <4>1, FS_RemoveElement
      <4>4. Cardinality(Below(y)) < n
        BY <1>1, <4>1
      <4>5. QED
        BY <1>0, <1>3, <2>0, <4>2, <4>3, <4>4
    <3>3. QED
      BY <3>1, <3>2
  <2> DEFINE x == Least(S \ N)
  <2>3. x \in S \ N /\ \A z \in S \ N : x <= z
    <3>1. S \ N \in SUBSET Nat /\ S \ N # {}
      BY <1>3, <1>s, <2>0
    <3>2. QED
      BY <3>1, LeastIs
  <2> HIDE DEF x
  <2>4. Below(x) = N
    <3>1. ASSUME NEW j \in N PROVE j \in Below(x)
      BY <1>2, <1>a, <1>s, <2>0, <2>3, <3>1
    <3>2. ASSUME NEW j \in Below(x) PROVE j \in N
      <4>1. j \in S /\ j < x /\ x \in Nat /\ j \in Nat
        BY <1>a, <1>s, <2>3, <3>2
      <4>2. j \in S \ N => x <= j
        BY <2>3
      <4>3. QED
        BY <4>1, <4>2
    <3>3. QED
      BY <3>1, <3>2
  <2>5. ~(Cardinality(Below(x)) < n)
    BY <1>1, <2>3
  <2>6. QED
    BY <1>3, <2>0, <2>1, <2>4, <2>5
<1>4. QED
  BY <1>2, <1>3 DEF N

\* Where each number goes on from the one before it, all are in order.
LEMMA StepsOrder ==
  ASSUME NEW n \in Nat, NEW f \in [1..n -> Nat], NEW p \in Nat,
         \A i \in 1..n : i + 1 \in 1..n => f[i] + p <= f[i + 1]
  PROVE  \A i, j \in 1..n : i < j => f[i] + p <= f[j]
<1> SUFFICES ASSUME NEW i \in 1..n, NEW k \in 1..n, i < k, ~(f[i] + p <= f[k]) PROVE FALSE
  OBVIOUS
<1> DEFINE B == {j \in 1..n : i < j /\ ~(f[i] + p <= f[j])}
           m == Least(B)
<1>0. \A j : j \in B <=> j \in 1..n /\ i < j /\ ~(f[i] + p <= f[j])
  OBVIOUS
<1> HIDE DEF B
<1>1. m \in B /\ \A j \in B : m <= j
  <2>0. k \in B
    BY <1>0
  <2>1. B \in SUBSET Nat /\ B # {}
    BY <1>0, <2>0
  <2>2. QED
    BY <2>1, LeastIs
<1> HIDE DEF m
<1>2. m \in 1..n /\ i < m /\ ~(f[i] + p <= f[m])
  BY <1>0, <1>1
<1>3. m - 1 \in 1..n /\ f[m - 1] + p <= f[m] /\ m - 1 \notin B
  <2>1. m - 1 \in 1..n /\ (m - 1) + 1 = m
    BY <1>2
  <2>2. f[m - 1] + p <= f[m]
    BY <1>2, <2>1
  <2>3. m - 1 \notin B
    BY <1>1, <1>2
  <2>4. QED
    BY <2>1, <2>2, <2>3
<1>4. CASE m - 1 = i
  BY <1>2, <1>3, <1>4
<1>5. CASE m - 1 # i
  <2>1. i < m - 1
    BY <1>2, <1>5
  <2>2. f[i] + p <= f[m - 1]
    BY <1>0, <1>3, <2>1
  <2>3. f[i] \in Nat /\ f[m - 1] \in Nat /\ f[m] \in Nat
    BY <1>2, <1>3
  <2>4. QED
    BY <1>2, <1>3, <2>2, <2>3
<1>6. QED
  BY <1>4, <1>5

-------------------------------------------------------------------------------
\* The rows are in the order of their times, rates a Period apart; and what is owed
\* is in the range that was asked for.
Gap == IF ask.kind \in {"okxRates", "binanceRates"} THEN Period ELSE 0

RowsSound ==
  /\ ask \in QueryTypes /\ st \in {"start", "read", "done", "failed"}
  /\ lo \in Nat /\ hi \in Nat /\ cur \in Nat
  /\ rows \in Seq(1..MaxTime) /\ Len(rows) <= MaxRows
  /\ \A i, j \in Ids : i < j => rows[i] + Gap <= rows[j]
  /\ ask.kind \in {"okxRates", "binanceRates"} =>
       \A i \in Ids : i + 1 \in Ids => rows[i + 1] = rows[i] + Period
  /\ got \subseteq Ids /\ owed \subseteq Ids
  /\ \A j \in owed : /\ ask.since <= rows[j] /\ rows[j] <= Upto
                     /\ ask.kind = "okxRates" => ask.since < rows[j]
                     /\ ask.kind \in {"okxRates", "binanceRates"} => rows[j] < Upto

\* A window is in the range, and no longer than it may be.
Loops == Windowed /\ NeedLoop
WindowSound ==
  st = "read" =>
    /\ ask.since <= lo /\ hi <= Upto
    /\ ~Loops => /\ ask.kind # "okxRates" => hi = Upto
                 /\ ask.kind # "binanceRates" => lo = ask.since
    /\ Loops => /\ hi <= lo + Intv
                /\ IF ask.back THEN lo <= ask.since \/ lo <= hi ELSE hi >= Until \/ lo <= hi

\* What is owed is in the result as far as the call has read: in the windows before
\* this one, and in this one from the cursor on.  What is in the result is behind
\* the cursor too, so that no row is read twice.
Past(j) == IF Loops /\ ask.back THEN rows[j] > hi ELSE rows[j] < lo
InWindow(j) == lo <= rows[j] /\ rows[j] <= hi

ByCursor ==
  st = "read" /\ ask.kind \in {"bybit", "okxBills"} =>
    /\ ask.limit = 0 => \A j \in owed : Past(j) \/ (InWindow(j) /\ cur <= j) => j \in got
    /\ ~Loops => (\A i \in got : cur <= i) /\ (\A j \in owed : cur <= j => j \in got)
ByOlder ==
  st = "read" /\ ask.kind = "okxRates" =>
    (\A i \in got : hi <= rows[i]) /\ (\A j \in owed : hi <= rows[j] => j \in got)
ByLater ==
  st = "read" /\ ask.kind = "binanceRates" =>
    (\A i \in got : rows[i] < lo)
    /\ (~Curtailed => \A j \in owed : rows[j] < lo => j \in got)
ByWindow ==
  st = "read" /\ ask.kind = "binanceOrders" /\ ask.limit = 0 /\ ~Curtailed /\ FitsWindows =>
    \A j \in owed : Past(j) => j \in got

\* What a call returns, while it reads and when it ends
Returned ==
  /\ \A i \in got : ask.since <= rows[i] /\ rows[i] <= Upto
  /\ ask.kind # "binanceOrders" => twice = {}
  /\ st = "start" => got = {}
  /\ st = "done" /\ FitsWindows /\ ask.limit = 0 /\ ~Curtailed => owed \subseteq got
  /\ ask.kind \in {"bybit", "okxBills"} /\ ~NeedLoop =>
       \A i \in got, j \in owed : j > i => j \in got

HistInv == RowsSound /\ WindowSound /\ ByCursor /\ ByOlder /\ ByLater /\ ByWindow /\ Returned

\* What the arguments say is a number
LEMMA AsksTyped ==
  ASSUME ask \in QueryTypes
  PROVE  /\ Upto \in Nat /\ Until \in Nat /\ Until <= Upto /\ (~Curtailed => Until = Upto)
         /\ Curtailed => ask.kind \in {"binanceOrders", "binanceRates"}
         /\ ask.kind = "binanceRates" /\ ~Curtailed => ask.since > 0
         /\ Intv \in Nat /\ PerPage \in Nat \ {0} /\ Gap \in Nat
         /\ ask.since \in Nat /\ ask.limit \in Nat /\ PageSize \in Nat /\ MaxTime \in Nat
         /\ ask.kind \in Kinds /\ NeedLoop \in BOOLEAN /\ ask.back \in BOOLEAN
<1>1. ask.since \in Nat /\ ask.until \in Nat /\ ask.intv \in Nat /\ ask.limit \in Nat /\ ask.kind \in Kinds
      /\ ask.back \in BOOLEAN
  BY DEF QueryTypes
<1>2. Week \in Nat /\ Period \in Nat /\ PageSize \in Nat \ {0, 1} /\ MaxTime \in Nat
  BY HistoryAssumption
<1>3. Intv \in Nat /\ PerPage \in Nat \ {0} /\ Gap \in Nat
  BY <1>1, <1>2 DEF Intv, PerPage, LessOf, Gap
<1>4. Upto \in Nat
  <2>1. CASE ask.until > 0
    BY <1>1, <2>1 DEF Upto
  <2>2. CASE ask.until = 0 /\ ask.kind = "binanceRates" /\ ask.since > 0
    <3> DEFINE n == IF ask.limit = 0 THEN PageSize ELSE ask.limit
    <3>1. n \in Nat
      BY <1>1, <1>2
    <3>2. Upto = ask.since + n * Period
      BY <2>2 DEF Upto
    <3> HIDE DEF n
    <3>3. n * Period \in Nat
      BY <1>2, <3>1
    <3>4. QED
      BY <1>1, <3>2, <3>3
  <2>3. CASE ask.until = 0 /\ ~(ask.kind = "binanceRates" /\ ask.since > 0)
    BY <1>2, <2>3 DEF Upto
  <2>4. QED
    BY <1>1, <2>1, <2>2, <2>3
<1>6. Until \in Nat /\ Until <= Upto /\ (~Curtailed => Until = Upto)
  BY <1>4 DEF Until
<1>7. /\ Curtailed => ask.kind \in {"binanceOrders", "binanceRates"}
      /\ ask.kind = "binanceRates" /\ ~Curtailed => ask.since > 0
  BY <1>1 DEF Curtailed
<1>5. QED
  BY <1>1, <1>2, <1>3, <1>4, <1>6, <1>7 DEF NeedLoop

\* and stays what it is.
LEMMA AsksSame ==
  ASSUME ask' = ask
  PROVE  /\ Upto' = Upto /\ Until' = Until /\ Curtailed' = Curtailed
         /\ Intv' = Intv /\ PerPage' = PerPage /\ Gap' = Gap /\ Loops' = Loops
         /\ NeedLoop' = NeedLoop /\ Windowed' = Windowed
BY DEF Upto, Until, Curtailed, Intv, PerPage, Gap, Loops, NeedLoop, Windowed, Spans

LEMMA HistInitially == HistInit => HistInv
<1> SUFFICES ASSUME HistInit PROVE HistInv
  OBVIOUS
<1>1. ask \in QueryTypes
  BY HistoryAssumption DEF HistInit
<1>2. PICK n \in 0..MaxRows - 1 : rows \in [1..n -> 1..MaxTime]
  BY DEF HistInit, Histories
<1>3. MaxRows \in Nat /\ MaxTime \in Nat /\ n \in Nat /\ n <= MaxRows
  <2>1. MaxRows \in Nat /\ MaxTime \in Nat
    BY HistoryAssumption
  <2>2. n \in Nat /\ n <= MaxRows
    BY <2>1
  <2>3. QED
    BY <2>1, <2>2
<1>4. rows \in Seq(1..MaxTime) /\ Len(rows) = n /\ Ids = 1..n
  BY <1>2, <1>3 DEF Ids
<1>5. \A i, j \in Ids : i < j => rows[i] + Gap <= rows[j]
  <2>1. Gap \in Nat /\ rows \in [1..n -> Nat] /\ Period \in Nat
    BY <1>1, <1>2, <1>3, AsksTyped, HistoryAssumption
  <2>2. \A i \in 1..n : i + 1 \in 1..n => rows[i] + Gap <= rows[i + 1]
    <3>1. \A i \in DOMAIN rows : i + 1 \in DOMAIN rows =>
            IF ask.kind \in {"okxRates", "binanceRates"} THEN rows[i + 1] = rows[i] + Period
            ELSE rows[i] <= rows[i + 1]
      BY DEF HistInit, Histories
    <3>2. DOMAIN rows = 1..n
      BY <1>2
    <3> SUFFICES ASSUME NEW i \in 1..n, i + 1 \in 1..n PROVE rows[i] + Gap <= rows[i + 1]
      OBVIOUS
    <3>3. rows[i] \in Nat /\ rows[i + 1] \in Nat
      BY <2>1
    <3>4. CASE ask.kind \in {"okxRates", "binanceRates"}
      BY <2>1, <3>1, <3>2, <3>3, <3>4 DEF Gap
    <3>5. CASE ask.kind \notin {"okxRates", "binanceRates"}
      BY <2>1, <3>1, <3>2, <3>3, <3>5 DEF Gap
    <3>6. QED
      BY <3>4, <3>5
  <2>3. QED
    BY <1>3, <1>4, <2>1, <2>2, StepsOrder
<1>6. st = "start" /\ lo = 0 /\ hi = 0 /\ cur = 0 /\ got = {} /\ twice = {} /\ owed = {}
  BY DEF HistInit
<1>a. ask.kind \in {"okxRates", "binanceRates"} =>
       \A i \in Ids : i + 1 \in Ids => rows[i + 1] = rows[i] + Period
  BY DEF HistInit, Histories, Ids
<1>7. RowsSound
  BY <1>1, <1>3, <1>4, <1>5, <1>6, <1>a DEF RowsSound
<1>8. QED
  BY <1>6, <1>7 DEF HistInv, WindowSound, ByCursor, ByOlder, ByLater, ByWindow, Returned

\* The ids of the rows, and their times
LEMMA RowsTyped ==
  ASSUME RowsSound
  PROVE  /\ Ids = 1..Len(rows) /\ Len(rows) \in Nat /\ Len(rows) <= MaxRows /\ MaxRows \in Nat
         /\ \A i \in Ids : i \in Nat /\ i <= Len(rows) /\ rows[i] \in Nat /\ 1 <= rows[i] /\ rows[i] <= MaxTime
         /\ \A i, j \in Ids : i <= j => rows[i] <= rows[j]
<1>1. Ids = 1..Len(rows) /\ Len(rows) \in Nat /\ Len(rows) <= MaxRows /\ rows \in [1..Len(rows) -> 1..MaxTime]
  <2>1. rows \in Seq(1..MaxTime) /\ Len(rows) <= MaxRows
    BY DEF RowsSound
  <2>2. QED
    BY <2>1, LenProperties DEF Ids
<1>2. MaxRows \in Nat /\ MaxTime \in Nat
  BY HistoryAssumption
<1>3. \A i \in Ids : i \in Nat /\ i <= Len(rows) /\ rows[i] \in Nat /\ 1 <= rows[i] /\ rows[i] <= MaxTime
  BY <1>1, <1>2
<1>4. ASSUME NEW i \in Ids, NEW j \in Ids, i <= j PROVE rows[i] <= rows[j]
  <2>1. Gap \in Nat /\ i \in Nat /\ j \in Nat /\ rows[i] \in Nat /\ rows[j] \in Nat
    BY <1>3, AsksTyped DEF RowsSound
  <2>2. CASE i = j
    BY <2>1, <2>2
  <2>3. CASE i < j
    <3>1. rows[i] + Gap <= rows[j]
      BY <2>3 DEF RowsSound
    <3>2. QED
      BY <2>1, <3>1
  <2>4. QED
    BY <1>4, <2>1, <2>2, <2>3
<1>5. QED
  BY <1>1, <1>2, <1>3, <1>4

\* The call begins.
LEMMA StartStep ==
  ASSUME HistInv, Start
  PROVE  HistInv'
<1> DEFINE u == Upto  v == Until  w == Intv  since == ask.since
<1>1. /\ ask \in QueryTypes /\ ask' = ask /\ rows' = rows /\ Ids' = Ids /\ got' = {} /\ twice' = twice
      /\ owed' = InRange /\ cur' = MaxRows + 1 /\ st = "start"
      /\ st' \in {"failed", "read"}
  BY DEF Start, HistInv, RowsSound, Returned, Ids
<1>2. u \in Nat /\ w \in Nat /\ since \in Nat /\ v \in Nat /\ v <= u /\ (~Curtailed => v = u)
      /\ (Curtailed => ask.kind \in {"binanceOrders", "binanceRates"})
  BY <1>1, AsksTyped
<1>3. /\ Upto' = Upto /\ Until' = Until /\ Curtailed' = Curtailed
      /\ Intv' = Intv /\ Gap' = Gap /\ Loops' = Loops /\ NeedLoop' = NeedLoop
  BY <1>1, AsksSame
<1>4. \/ Loops /\ ask.back /\ lo' = Clipped(since, v) /\ hi' = v
      \/ Loops /\ ~ask.back /\ lo' = since /\ hi' = LessOf(v, since + w)
      \/ ~Loops /\ lo' = since /\ hi' = u
  BY DEF Start, Loops
<1> HIDE DEF u, v, w, since
<1>5. /\ lo' \in Nat /\ hi' \in Nat /\ since <= lo' /\ hi' <= u
      /\ ~Loops => hi' = u /\ lo' = since
      /\ Loops => /\ hi' <= lo' + w
                  /\ IF ask.back THEN lo' <= since \/ lo' <= hi' ELSE hi' >= v \/ lo' <= hi'
  BY <1>2, <1>4 DEF Clipped, MoreOf, LessOf, w
<1>6. \A j \in owed' : /\ j \in Ids /\ since <= rows[j] /\ rows[j] <= u
                       /\ ask.kind = "okxRates" => since < rows[j]
                       /\ ask.kind \in {"okxRates", "binanceRates"} => rows[j] < u
  <2>0. \A i \in Ids : rows[i] \in Nat
    BY RowsTyped DEF HistInv
  <2>1. CASE ask.kind = "okxRates"
    BY <1>1, <1>2, <2>0, <2>1 DEF InRange, u, since
  <2>2. CASE ask.kind = "binanceRates"
    BY <1>1, <1>2, <2>0, <2>2 DEF InRange, u, since
  <2>3. CASE ask.kind \notin {"okxRates", "binanceRates"}
    BY <1>1, <1>2, <2>0, <2>3 DEF InRange, Within, u, since
  <2>4. QED
    BY <2>1, <2>2, <2>3
<1>7. RowsSound'
  BY <1>1, <1>3, <1>5, <1>6, HistoryAssumption DEF HistInv, RowsSound, u, since
<1>8. WindowSound'
  BY <1>1, <1>3, <1>5 DEF WindowSound, u, v, w, since
<1>9. ~Curtailed => \A j \in owed' : ~Past(j)' /\ j < cur' /\ (ask.kind = "okxRates" => ~(hi' <= rows[j]))
  <2> SUFFICES ASSUME ~Curtailed, NEW j \in owed' PROVE ~Past(j)' /\ j < cur' /\ (ask.kind = "okxRates" => ~(hi' <= rows[j]))
    OBVIOUS
  <2>1. j \in Nat /\ rows[j] \in Nat /\ j <= MaxRows /\ MaxRows \in Nat
    BY <1>6, RowsTyped DEF HistInv
  <2>2. since <= rows[j] /\ rows[j] <= u /\ (ask.kind = "okxRates" => rows[j] < u)
    BY <1>6
  <2>3. ask.kind = "okxRates" => ~Loops
    BY DEF Loops, Windowed
  <2>4. lo' \in Nat /\ hi' \in Nat
    BY <1>5
  <2>5. ~Past(j)'
    BY <1>1, <1>2, <1>3, <1>4, <2>1, <2>2, <2>4 DEF Past
  <2>6. QED
    BY <1>1, <1>2, <1>5, <2>1, <2>2, <2>3, <2>4, <2>5
<1>10. ByCursor' /\ ByOlder' /\ ByLater' /\ ByWindow'
  <2>1. \A j \in owed' : j \in Ids /\ j \in Nat /\ rows[j] \in Nat
    BY <1>6, RowsTyped DEF HistInv
  <2>2. cur' \in Nat
    BY <1>1, HistoryAssumption
  <2>3. ByCursor'
    BY <1>1, <1>2, <1>9, <2>1, <2>2 DEF ByCursor
  <2>4. ByOlder'
    BY <1>1, <1>2, <1>9, <2>1 DEF ByOlder
  <2>5. ByLater'
    <3>1. ask.kind = "binanceRates" /\ ~Curtailed => \A j \in owed' : ~(rows[j] < lo')
      BY <1>1, <1>3, <1>9 DEF Past, Loops, Windowed
    <3>2. QED
      BY <1>1, <1>3, <3>1 DEF ByLater
  <2>6. ByWindow'
    BY <1>1, <1>3, <1>9 DEF ByWindow
  <2>7. QED
    BY <2>3, <2>4, <2>5, <2>6
<1>11. Returned'
  BY <1>1 DEF Returned, HistInv
<1>12. QED
  BY <1>7, <1>8, <1>10, <1>11 DEF HistInv

\* Earlier rows are not changed by those that are added; and a window that is small
\* enough was so before.
LEMMA ArriveStep ==
  ASSUME HistInv, Arrive
  PROVE  HistInv'
<1> DEFINE n == Len(rows)
<1>0. PICK t \in 1..MaxTime :
        /\ n > 0 => IF ask.kind \in {"okxRates", "binanceRates"} THEN t = rows[n] + Period ELSE t >= rows[n]
        /\ rows' = Append(rows, t)
  BY DEF Arrive
<1>1. /\ ask' = ask /\ st' = st /\ lo' = lo /\ hi' = hi /\ cur' = cur /\ got' = got /\ twice' = twice
      /\ owed' = owed /\ st # "start" /\ n < MaxRows
  BY DEF Arrive
<1>r. RowsSound /\ ask \in QueryTypes /\ rows \in Seq(1..MaxTime)
  BY DEF HistInv, RowsSound
<1>2. /\ Ids = 1..n /\ n \in Nat /\ MaxRows \in Nat
      /\ \A i \in Ids : i \in Nat /\ i <= n /\ rows[i] \in Nat
  BY <1>r, RowsTyped
<1>3. /\ rows' \in Seq(1..MaxTime) /\ Len(rows') = n + 1 /\ Ids' = Ids \cup {n + 1} /\ rows'[n + 1] = t
      /\ \A i \in Ids : rows'[i] = rows[i]
  BY <1>0, <1>r, <1>2 DEF Ids
<1>4. /\ Upto' = Upto /\ Until' = Until /\ Curtailed' = Curtailed
      /\ Intv' = Intv /\ Gap' = Gap /\ Loops' = Loops /\ NeedLoop' = NeedLoop
      /\ PerPage' = PerPage
  BY <1>1, AsksSame
<1>5. Gap \in Nat /\ t \in Nat /\ MaxTime \in Nat
  BY <1>r, AsksTyped
<1> HIDE DEF n
<1>6. ASSUME NEW i \in Ids', NEW j \in Ids', i < j PROVE rows'[i] + Gap <= rows'[j]
  <2>1. i \in Ids
    BY <1>2, <1>3, <1>6
  <2>2. CASE j \in Ids
    BY <1>3, <1>6, <1>r, <2>1, <2>2 DEF RowsSound
  <2>3. CASE j = n + 1
    <3>1. n \in Ids /\ n > 0 /\ rows[i] \in Nat /\ rows[n] \in Nat
      BY <1>2, <2>1
    <3>2. rows[n] + Gap <= t
      BY <1>0, <1>5, <3>1 DEF Gap
    <3>3. rows[i] <= rows[n]
      BY <1>2, <1>r, <2>1, <3>1, RowsTyped
    <3>4. rows[i] + Gap <= t
      BY <1>5, <3>1, <3>2, <3>3
    <3>5. QED
      BY <1>3, <2>1, <2>3, <3>4
  <2>4. QED
    BY <1>3, <2>2, <2>3
<1>a. ASSUME ask.kind \in {"okxRates", "binanceRates"}, NEW i \in Ids', i + 1 \in Ids'
      PROVE  rows'[i + 1] = rows'[i] + Period
  <2>1. i \in Ids
    BY <1>2, <1>3, <1>a
  <2>2. CASE i + 1 \in Ids
    BY <1>3, <1>a, <1>r, <2>1, <2>2 DEF RowsSound
  <2>3. CASE i + 1 = n + 1
    BY <1>0, <1>2, <1>3, <1>a, <2>1, <2>3
  <2>4. QED
    BY <1>3, <1>a, <2>2, <2>3
<1>7. RowsSound'
  BY <1>1, <1>2, <1>3, <1>4, <1>6, <1>a, <1>r DEF RowsSound, n
<1>8. WindowSound'
  BY <1>1, <1>4 DEF HistInv, WindowSound
<1>9. \A j \in owed : j \in Ids
  BY <1>r DEF RowsSound
<1>10. \A j \in Ids : Past(j)' = Past(j) /\ InWindow(j)' = InWindow(j)
  BY <1>1, <1>3, <1>4 DEF Past, InWindow
<1>11. ASSUME FitsWindows' PROVE FitsWindows
  <2>1. \A a, b : Within(a, b) \in SUBSET Within(a, b)'
    BY <1>3 DEF Within
  <2>2. \A a, b : IsFiniteSet(Within(a, b)')
    <3>1. \A a, b : Within(a, b)' \in SUBSET (1..n + 1)
      BY <1>2, <1>3 DEF Within
    <3>2. IsFiniteSet(1..n + 1)
      BY <1>2, FS_Interval
    <3>3. QED
      BY <3>1, <3>2, FS_Subset
  <2>3. \A a, b : /\ Cardinality(Within(a, b)) <= Cardinality(Within(a, b)')
                  /\ Cardinality(Within(a, b)) \in Nat /\ Cardinality(Within(a, b)') \in Nat
    BY <2>1, <2>2, FS_Subset, FS_CardinalityType
  <2>4. ASSUME NEW i \in Ids, ask.kind = "binanceOrders"
        PROVE  Cardinality(Within(rows[i], rows[i] + (IF NeedLoop THEN Intv ELSE MaxTime))) <= PerPage
    <3> DEFINE w == IF NeedLoop THEN Intv ELSE MaxTime
    <3>1. i \in Ids' /\ rows'[i] = rows[i] /\ w' = w
      BY <1>3, <1>4
    <3>2. PICK a, b : a = rows[i] /\ b = rows[i] + w
      OBVIOUS
    <3>3. Cardinality(Within(a, b)') <= PerPage
      BY <1>1, <1>4, <1>11, <2>4, <3>1, <3>2 DEF FitsWindows, Within
    <3>4. PerPage \in Nat
      BY <1>r, AsksTyped
    <3>5. Cardinality(Within(a, b)) <= PerPage
      BY <2>3, <3>3, <3>4
    <3>6. QED
      BY <3>2, <3>5
  <2>5. QED
    BY <2>4 DEF FitsWindows
<1>12. ByCursor' /\ ByOlder' /\ ByLater' /\ ByWindow'
  <2>0. ByCursor /\ ByOlder /\ ByLater /\ ByWindow /\ got \subseteq Ids
    BY DEF HistInv, RowsSound
  <2>1. ByCursor'
    BY <1>1, <1>4, <1>9, <1>10, <2>0 DEF ByCursor
  <2>2. ByOlder'
    BY <1>1, <1>3, <1>9, <2>0 DEF ByOlder
  <2>3. ByLater'
    BY <1>1, <1>3, <1>4, <1>9, <2>0 DEF ByLater
  <2>4. ByWindow'
    BY <1>1, <1>4, <1>9, <1>10, <1>11, <2>0 DEF ByWindow
  <2>5. QED
    BY <2>1, <2>2, <2>3, <2>4
<1>13. Returned'
  <2>1. Returned /\ got \subseteq Ids
    BY DEF HistInv, RowsSound
  <2>2. QED
    BY <1>1, <1>3, <1>4, <1>11, <2>1 DEF Returned
<1>14. QED
  BY <1>7, <1>8, <1>12, <1>13 DEF HistInv

LEMMA FailStep ==
  ASSUME HistInv, Fail
  PROVE  HistInv'
<1>1. UNCHANGED <<rows, ask, lo, hi, cur, got, twice, owed>> /\ st' = "failed"
  BY DEF Fail
<1>2. /\ Upto' = Upto /\ Until' = Until /\ Curtailed' = Curtailed
      /\ Gap' = Gap /\ NeedLoop' = NeedLoop /\ Ids' = Ids
  BY <1>1, AsksSame DEF Ids
<1>3. RowsSound'
  BY <1>1, <1>2 DEF HistInv, RowsSound
<1>4. QED
  BY <1>1, <1>2, <1>3 DEF HistInv, WindowSound, ByCursor, ByOlder, ByLater, ByWindow, Returned

\* A page does not change the history, nor what is owed.
LEMMA ReadKeeps ==
  ASSUME HistInv, GetPage
  PROVE  /\ rows' = rows /\ ask' = ask /\ owed' = owed /\ Ids' = Ids /\ st = "read"
         /\ got' = got \cup Page
         /\ twice' = IF ask.kind = "bybit" THEN twice ELSE twice \cup (got \cap Page)
         /\ Upto' = Upto /\ Until' = Until /\ Curtailed' = Curtailed
         /\ Intv' = Intv /\ Gap' = Gap /\ Loops' = Loops /\ NeedLoop' = NeedLoop
         /\ PerPage' = PerPage /\ FitsWindows' = FitsWindows
         /\ \A a, b : Within(a, b)' = Within(a, b)
<1>1. rows' = rows /\ ask' = ask /\ owed' = owed /\ st = "read" /\ got' = got \cup Page
      /\ twice' = IF ask.kind = "bybit" THEN twice ELSE twice \cup (got \cap Page)
  BY DEF GetPage, Read, Keep
<1>2. /\ Upto' = Upto /\ Until' = Until /\ Curtailed' = Curtailed
      /\ Intv' = Intv /\ Gap' = Gap /\ Loops' = Loops /\ NeedLoop' = NeedLoop
      /\ PerPage' = PerPage
  BY <1>1, AsksSame
<1>3. Ids' = Ids /\ FitsWindows' = FitsWindows /\ \A a, b : Within(a, b)' = Within(a, b)
  BY <1>1, <1>2 DEF Ids, FitsWindows, Within
<1>4. QED
  BY <1>1, <1>2, <1>3

\* The rows of a window
LEMMA WithinIs ==
  ASSUME RowsSound, NEW i
  PROVE  i \in Within(lo, hi) <=> i \in Ids /\ InWindow(i)
BY DEF Within, InWindow

\* The next window begins where this one ends, and the last one ends the range.
LEMMA WindowStep ==
  ASSUME HistInv, GetPage, Windowed, ~LastWindow, NextWindow, st' = "read"
  PROVE  /\ lo' \in Nat /\ hi' \in Nat /\ WindowSound'
         /\ \A j \in Ids : Past(j)' => Past(j) \/ InWindow(j)
<1> DEFINE u == Upto  v == Until  w == Intv  since == ask.since
<1>1. Loops /\ NeedLoop /\ lo \in Nat /\ hi \in Nat
  BY DEF LastWindow, Loops, HistInv, RowsSound
<1>2. u \in Nat /\ w \in Nat /\ since \in Nat /\ v \in Nat /\ v <= u
  BY AsksTyped DEF HistInv, RowsSound
<1>3. /\ rows' = rows /\ ask' = ask /\ Upto' = Upto /\ Until' = Until
      /\ Curtailed' = Curtailed /\ Intv' = Intv /\ Loops' = Loops /\ st = "read"
  BY ReadKeeps
<1>4. since <= lo /\ hi <= u /\ hi <= lo + w
      /\ IF ask.back THEN lo <= since \/ lo <= hi ELSE hi >= v \/ lo <= hi
  BY <1>1, <1>3 DEF HistInv, WindowSound
<1>5. IF ask.back THEN ~(lo <= since) ELSE ~(hi >= v)
  BY <1>1 DEF LastWindow
<1>6. \/ ask.back /\ lo' = Clipped(since, lo) /\ hi' = lo
      \/ ~ask.back /\ lo' = hi /\ hi' = LessOf(v, hi + w)
  BY DEF NextWindow
<1>7. \A j \in Ids : rows[j] \in Nat
  BY RowsTyped DEF HistInv
<1>c. Clipped(since, lo) = MoreOf(since, IF lo > w THEN lo - w ELSE 0)
  BY DEF Clipped
<1> HIDE DEF u, v, w, since
<1>8. lo' \in Nat /\ hi' \in Nat /\ since <= lo' /\ hi' <= u /\ hi' <= lo' + w
      /\ IF ask.back THEN lo' <= since \/ lo' <= hi' ELSE hi' >= v \/ lo' <= hi'
  <2>1. CASE ask.back
    BY <1>1, <1>2, <1>4, <1>5, <1>6, <1>c, <2>1 DEF MoreOf
  <2>2. CASE ~ask.back
    BY <1>1, <1>2, <1>4, <1>5, <1>6, <2>2 DEF LessOf
  <2>3. QED
    BY <2>1, <2>2
<1>9. WindowSound'
  BY <1>1, <1>3, <1>8 DEF WindowSound, u, v, w, since
<1>10. ASSUME NEW j \in Ids, Past(j)' PROVE Past(j) \/ InWindow(j)
  <2>1. IF ask.back THEN rows[j] > hi' ELSE rows[j] < lo'
    BY <1>1, <1>3, <1>10 DEF Past
  <2>2. QED
    BY <1>1, <1>6, <1>7, <2>1 DEF Past, InWindow
<1>11. QED
  BY <1>8, <1>9, <1>10

LEMMA WindowLast ==
  ASSUME HistInv, st = "read", ask.kind \in {"bybit", "okxBills", "binanceOrders"},
         ~Curtailed, Windowed => LastWindow, NEW j \in owed
  PROVE  Past(j) \/ InWindow(j)
<1>1. lo \in Nat /\ hi \in Nat /\ j \in Ids /\ ask.since <= rows[j] /\ rows[j] <= Upto
  BY DEF HistInv, RowsSound
<1>2. rows[j] \in Nat /\ Upto \in Nat /\ ask.since \in Nat /\ Until = Upto
  BY <1>1, RowsTyped, AsksTyped DEF HistInv, RowsSound
<1>3. CASE ~Loops
  BY <1>1, <1>2, <1>3 DEF HistInv, WindowSound, InWindow
<1>4. CASE Loops
  <2>1. IF ask.back THEN lo <= ask.since ELSE hi >= Until
    BY <1>4 DEF Loops, LastWindow
  <2>2. QED
    BY <1>1, <1>2, <1>4, <2>1 DEF Past, InWindow
<1>5. QED
  BY <1>3, <1>4

\* What is left of the types after a page
LEMMA ReadTyped ==
  ASSUME HistInv, GetPage, Page \subseteq Ids, lo' \in Nat, hi' \in Nat, cur' \in Nat,
         st' \in {"read", "done"}
  PROVE  RowsSound'
BY ReadKeeps DEF HistInv, RowsSound

LEMMA CountTyped ==
  ASSUME RowsSound, NEW S \in SUBSET Ids
  PROVE  /\ IsFiniteSet(S) /\ Cardinality(S) \in Nat /\ S \in SUBSET Nat /\ \A i \in S : i <= Len(rows)
         /\ S \in SUBSET (1..Len(rows)) /\ Cardinality(S) > 0 => S # {}
<1>1. Ids = 1..Len(rows) /\ Len(rows) \in Nat
  BY RowsTyped
<1>2. IsFiniteSet(Ids)
  BY <1>1, FS_Interval
<1>3. IsFiniteSet(S) /\ Cardinality(S) \in Nat
  BY <1>2, FS_Subset, FS_CardinalityType
<1>4. Cardinality(S) > 0 => S # {}
  BY FS_EmptySet
<1>5. QED
  BY <1>1, <1>3, <1>4

\* bybit and okx by the cursor: a page has the newest rows below it.
LEMMA ReadBack ==
  ASSUME HistInv, GetPage, ask.kind \in {"bybit", "okxBills"}
  PROVE  HistInv'
<1> DEFINE S == {i \in Within(lo, hi) : i < cur}
           page == Page
<1>0. RowsSound /\ ask \in QueryTypes /\ cur \in Nat /\ got \subseteq Ids /\ owed \subseteq Ids
      /\ lo \in Nat /\ hi \in Nat
  BY DEF HistInv, RowsSound
<1>k. /\ rows' = rows /\ ask' = ask /\ owed' = owed /\ Ids' = Ids /\ st = "read"
      /\ got' = got \cup page /\ twice' = IF ask.kind = "bybit" THEN twice ELSE twice \cup (got \cap page)
      /\ Upto' = Upto /\ Until' = Until /\ Curtailed' = Curtailed
      /\ Intv' = Intv /\ Loops' = Loops /\ NeedLoop' = NeedLoop
      /\ FitsWindows' = FitsWindows
  BY ReadKeeps
<1>c. ~Curtailed
  BY <1>0, AsksTyped
<1>1. \A i : i \in S <=> i \in Ids /\ InWindow(i) /\ i < cur
  BY <1>0, WithinIs
<1>2. page = Newest(S, Left)
  BY DEF Page
<1>3. Left \in Int /\ (ask.limit = 0 => Left = PageSize) /\ PageSize \in Nat
  <2>1. Cardinality(got) \in Nat /\ ask.limit \in Nat /\ PageSize \in Nat
    BY <1>0, CountTyped, AsksTyped
  <2>2. QED
    BY <2>1 DEF Left, LessOf
<1>4. S \in SUBSET Ids /\ S \in SUBSET (1..Len(rows)) /\ Len(rows) \in Nat
  BY <1>0, <1>1, CountTyped, RowsTyped
<1>5. page \subseteq S
  BY <1>2 DEF Newest
<1>6. \A i \in page, j \in S : j > i => j \in page
  BY <1>2, <1>3, <1>4, NewestAre
<1>7. ask.limit = 0 /\ Cardinality(page) # PageSize => page = S
  BY <1>2, <1>3, <1>4, NewestAre
<1>8. \A j \in owed : j \in Ids /\ j \in Nat /\ j <= MaxRows /\ MaxRows \in Nat
  BY <1>0, RowsTyped
<1>9. \A i \in Ids : i \in Nat /\ i < MaxRows + 1 /\ MaxRows + 1 \in Nat
  BY <1>0, RowsTyped
<1>w. \A j \in owed : ~Loops => InWindow(j)
  BY <1>0, <1>k DEF HistInv, RowsSound, WindowSound, InWindow
<1> HIDE DEF S, page
\* the page and what was there
<1>10. /\ ask.limit = 0 => \A j \in owed : Past(j) \/ (InWindow(j) /\ cur <= j) => j \in got
       /\ ~Loops => (\A i \in got : cur <= i) /\ (\A j \in owed : cur <= j => j \in got)
  BY <1>k DEF HistInv, ByCursor
<1>11. ~Loops => \A i \in got \cup page, j \in owed : j > i => j \in got \cup page
  <2> SUFFICES ASSUME ~Loops, NEW i \in got \cup page, NEW j \in owed, j > i
               PROVE  j \in got \cup page
    OBVIOUS
  <2>1. i \in Nat /\ j \in Nat
    BY <1>0, <1>4, <1>5, <1>8, <1>9
  <2>2. CASE cur <= j
    BY <1>10, <2>2
  <2>3. CASE ~(cur <= j)
    <3>1. j \in S
      BY <1>0, <1>1, <1>8, <1>w, <2>1, <2>3
    <3>2. i \in page
      BY <1>0, <1>10, <2>1, <2>3
    <3>3. QED
      BY <1>6, <3>1, <3>2
  <2>4. QED
    BY <2>2, <2>3
<1>12. ask.limit = 0 /\ page = S => \A j \in owed : Past(j) \/ InWindow(j) => j \in got \cup page
  BY <1>0, <1>1, <1>8, <1>10
<1>13. \A i \in page : ask.since <= rows[i] /\ rows[i] <= Upto
  <2>1. ask.since <= lo /\ hi <= Upto /\ ask.since \in Nat /\ Upto \in Nat
    BY <1>0, <1>k, AsksTyped DEF HistInv, WindowSound
  <2>2. \A i \in page : lo <= rows[i] /\ rows[i] <= hi /\ rows[i] \in Nat
    BY <1>0, <1>1, <1>5, RowsTyped DEF InWindow
  <2>3. QED
    BY <1>0, <2>1, <2>2
<1>14. ask.kind = "okxBills" => got \cap page = {}
  <2>1. ask.kind = "okxBills" => ~Loops
    BY DEF Loops, Windowed
  <2>2. \A i \in page : i \in Nat /\ i < cur
    BY <1>1, <1>5, <1>9
  <2>3. QED
    BY <1>0, <1>10, <2>1, <2>2
<1>15. page \subseteq Ids
  BY <1>4, <1>5
<1>16. \/ /\ ~Enough(page) /\ More(page) /\ cur' = Least(page) /\ st' = st /\ lo' = lo /\ hi' = hi
       \/ /\ Windowed /\ ~More(page) /\ ~LastWindow /\ NextWindow /\ cur' = MaxRows + 1 /\ st' = st
       \/ /\ st' = "done" /\ lo' = lo /\ hi' = hi /\ cur' = cur
          /\ Enough(page) \/ ~More(page)
          /\ ~(Windowed /\ ~Enough(page) /\ ~More(page) /\ ~LastWindow)
  <2>1. ask.kind \notin {"okxRates", "binanceRates"} /\ (Windowed => ask.kind = "bybit")
    BY DEF Windowed
  <2>2. Read(page)
    BY DEF GetPage, page
  <2>3. CASE ~Enough(page) /\ ask.kind \in {"bybit", "okxBills"} /\ More(page)
    <3>1. cur' = Least(page) /\ UNCHANGED <<st, lo, hi>>
      BY <2>1, <2>2, <2>3 DEF Read
    <3>2. QED
      BY <2>3, <3>1
  <2>4. CASE Windowed /\ ~Enough(page) /\ (ask.kind = "bybit" => ~More(page)) /\ ~LastWindow
    <3>1. NextWindow /\ cur' = MaxRows + 1 /\ UNCHANGED st
      BY <2>1, <2>2, <2>4 DEF Read
    <3>2. QED
      BY <2>1, <2>4, <3>1
  <2>5. CASE /\ ~(~Enough(page) /\ ask.kind \in {"bybit", "okxBills"} /\ More(page))
             /\ ~(Windowed /\ ~Enough(page) /\ (ask.kind = "bybit" => ~More(page)) /\ ~LastWindow)
    <3>1. st' = "done" /\ UNCHANGED <<lo, hi, cur>>
      BY <2>1, <2>2, <2>5 DEF Read
    <3>2. QED
      BY <2>1, <2>5, <3>1
  <2>6. QED
    BY <2>3, <2>4, <2>5
<1>r. ASSUME ask.limit = 0, st' = "done" PROVE owed \subseteq got \cup page
  <2>1. ~Enough(page)
    BY <1>r, AsksTyped, <1>0 DEF Enough
  <2>2. ~More(page) /\ (Windowed => LastWindow)
    BY <1>16, <1>k, <1>r, <2>1
  <2>3. Cardinality(page) # PageSize
    <3>1. PageSize \in Nat
      BY <1>3
    <3>2. QED
      BY <2>2 DEF More
  <2>4. page = S
    BY <1>7, <1>r, <2>3
  <2>5. \A j \in owed : Past(j) \/ InWindow(j)
    BY <1>k, <1>c, <2>2, WindowLast
  <2>6. QED
    BY <1>12, <1>r, <2>4, <2>5
<1>17. Returned'
  <2>1. Returned
    BY DEF HistInv
  <2>2. ~NeedLoop => ~Loops
    BY DEF Loops
  <2>3. st' \in {"read", "done"}
    BY <1>16, <1>k
  <2>4. QED
    BY <1>k, <1>r, <1>11, <1>13, <1>14, <2>1, <2>2, <2>3 DEF Returned
<1>18. CASE More(page) /\ cur' = Least(page) /\ st' = st /\ lo' = lo /\ hi' = hi
  <2>1. page # {} /\ page \in SUBSET Nat
    <3>1. Cardinality(page) = PageSize /\ PageSize > 0
      BY <1>18, HistoryAssumption DEF More
    <3>2. QED
      BY <1>0, <1>15, <3>1, CountTyped
  <2>2. cur' \in page /\ \A y \in page : cur' <= y
    BY <1>18, <2>1, LeastIs
  <2>3. cur' \in Nat /\ cur' < cur
    BY <1>1, <1>5, <2>1, <2>2
  <2>4. RowsSound'
    BY <1>0, <1>15, <1>18, <1>k, <2>3, ReadTyped DEF page
  <2>5. WindowSound'
    BY <1>18, <1>k DEF HistInv, WindowSound
  <2>6. \A j \in owed : InWindow(j) /\ cur' <= j => j \in got' \/ (cur <= j)
    <3> SUFFICES ASSUME NEW j \in owed, InWindow(j), cur' <= j, ~(cur <= j) PROVE j \in got'
      OBVIOUS
    <3>1. j \in S
      BY <1>0, <1>1, <1>8
    <3>2. j = cur' \/ j > cur'
      BY <1>8, <2>3
    <3>3. QED
      BY <1>6, <1>k, <2>2, <3>1, <3>2
  <2>7. ByCursor'
    <3>1. \A j \in owed : Past(j)' = Past(j) /\ InWindow(j)' = InWindow(j)
      BY <1>18, <1>k DEF Past, InWindow
    <3>2. ask.limit = 0 => \A j \in owed : Past(j) \/ (InWindow(j) /\ cur' <= j) => j \in got'
      BY <1>10, <1>k, <2>6
    <3>3. ~Loops => \A i \in got' : cur' <= i
      <4>1. \A i \in got : i \in Nat
        BY <1>0, <1>9
      <4>2. ~Loops => \A i \in got : cur' <= i
        BY <1>0, <1>10, <2>3, <4>1
      <4>3. QED
        BY <1>k, <2>2, <4>2
    <3>4. ~Loops => \A j \in owed : cur' <= j => j \in got'
      BY <1>10, <1>k, <1>w, <2>6
    <3>5. QED
      BY <1>k, <3>1, <3>2, <3>3, <3>4 DEF ByCursor
  <2>8. QED
    BY <1>17, <1>k, <2>4, <2>5, <2>7 DEF HistInv, ByOlder, ByLater, ByWindow
<1>19. CASE Windowed /\ ~More(page) /\ ~LastWindow /\ NextWindow /\ cur' = MaxRows + 1 /\ st' = st
  <2>1. /\ lo' \in Nat /\ hi' \in Nat /\ WindowSound'
        /\ \A j \in Ids : Past(j)' => Past(j) \/ InWindow(j)
    BY <1>19, <1>k, WindowStep
  <2>2. cur' \in Nat /\ MaxRows \in Nat
    BY <1>19, HistoryAssumption
  <2>3. RowsSound'
    BY <1>0, <1>15, <1>19, <1>k, <2>1, <2>2, ReadTyped DEF page
  <2>4. Loops
    BY <1>19 DEF LastWindow, Loops
  <2>5. ByCursor'
    <3>1. ASSUME ask.limit = 0, NEW j \in owed, Past(j)' \/ cur' <= j PROVE j \in got'
      <4>1. Past(j)'
        BY <1>8, <1>19, <3>1
      <4>2. Past(j) \/ InWindow(j)
        BY <1>8, <2>1, <4>1
      <4>3. Cardinality(page) # PageSize
        BY <1>19 DEF More
      <4>4. QED
        BY <1>7, <1>12, <1>k, <3>1, <4>2, <4>3
    <3>2. QED
      BY <1>k, <2>4, <3>1 DEF ByCursor
  <2>6. QED
    BY <1>17, <1>k, <2>1, <2>3, <2>5 DEF HistInv, ByOlder, ByLater, ByWindow
<1>20. CASE st' = "done" /\ lo' = lo /\ hi' = hi /\ cur' = cur
  <2>1. RowsSound'
    BY <1>0, <1>15, <1>20, ReadTyped DEF page
  <2>2. QED
    BY <1>17, <1>20, <2>1 DEF HistInv, WindowSound, ByCursor, ByOlder, ByLater, ByWindow
<1>21. QED
  BY <1>16, <1>18, <1>19, <1>20

\* The rates of okx by their times: a page has the newest before the last one read.
LEMMA ReadOlder ==
  ASSUME HistInv, GetPage, ask.kind = "okxRates"
  PROVE  HistInv'
<1> DEFINE S == {i \in Ids : ask.since < rows[i] /\ rows[i] < hi}
           page == Page
<1>0. RowsSound /\ ask \in QueryTypes /\ cur \in Nat /\ got \subseteq Ids /\ owed \subseteq Ids
      /\ lo \in Nat /\ hi \in Nat
  BY DEF HistInv, RowsSound
<1>k. /\ rows' = rows /\ ask' = ask /\ owed' = owed /\ Ids' = Ids /\ st = "read"
      /\ got' = got \cup page /\ twice' = twice \cup (got \cap page)
      /\ Upto' = Upto /\ Until' = Until /\ Curtailed' = Curtailed
      /\ Loops' = Loops /\ NeedLoop' = NeedLoop /\ FitsWindows' = FitsWindows
  BY ReadKeeps
<1>1. \A i : i \in S <=> i \in Ids /\ ask.since < rows[i] /\ rows[i] < hi
  OBVIOUS
<1>2. page = Newest(S, PerPage)
  BY DEF Page
<1>3. /\ PerPage \in Nat \ {0} /\ PerPage \in Int /\ ask.since \in Nat /\ Upto \in Nat
      /\ Period \in Nat \ {0} /\ Gap = Period
  BY <1>0, AsksTyped, HistoryAssumption DEF Gap
<1>4. S \in SUBSET Ids /\ S \in SUBSET (1..Len(rows)) /\ Len(rows) \in Nat
  BY <1>0, <1>1, CountTyped, RowsTyped
<1>5. page \subseteq S
  BY <1>2 DEF Newest
<1>6. \A i \in page, j \in S : j > i => j \in page
  BY <1>2, <1>3, <1>4, NewestAre
<1>7. Cardinality(page) # PerPage => page = S
  BY <1>2, <1>3, <1>4, NewestAre
<1>8. /\ \A i \in Ids : i \in Nat /\ rows[i] \in Nat
      /\ \A i, j \in Ids : i <= j => rows[i] <= rows[j]
      /\ \A i, j \in Ids : i < j => rows[i] + Period <= rows[j]
  BY <1>0, <1>3, RowsTyped DEF RowsSound
<1>9. ~Loops /\ lo = ask.since /\ hi <= Upto
  BY <1>k DEF Loops, Windowed, HistInv, WindowSound
<1> HIDE DEF S, page
<1>10. (\A i \in got : hi <= rows[i]) /\ (\A j \in owed : hi <= rows[j] => j \in got)
  BY <1>k DEF HistInv, ByOlder
<1>11. \A j \in owed : hi <= rows[j] \/ j \in S
  <2>1. \A j \in owed : ask.since < rows[j] /\ j \in Ids
    BY <1>0 DEF RowsSound
  <2>2. QED
    BY <1>0, <1>1, <1>8, <2>1
<1>12. page \subseteq Ids /\ \A i \in page : ask.since < rows[i] /\ rows[i] < hi
  BY <1>1, <1>5
<1>13. got \cap page = {}
  BY <1>0, <1>8, <1>10, <1>12
<1>14. Cardinality(page) = PerPage => Least(page) \in page /\ \A y \in page : Least(page) <= y
  <2> SUFFICES ASSUME Cardinality(page) = PerPage
               PROVE  Least(page) \in page /\ \A y \in page : Least(page) <= y
    OBVIOUS
  <2>1. page # {} /\ page \in SUBSET Nat
    BY <1>0, <1>3, <1>12, CountTyped
  <2>2. QED
    BY <2>1, LeastIs
<1>15. \/ More(page) /\ hi' = rows[Least(page)] /\ st' = st /\ lo' = lo /\ cur' = cur
       \/ ~More(page) /\ st' = "done" /\ lo' = lo /\ hi' = hi /\ cur' = cur
  <2>1. Read(page) /\ ~Windowed
    BY DEF GetPage, page, Windowed
  <2>2. CASE More(page)
    BY <2>1, <2>2 DEF Read
  <2>3. CASE ~More(page)
    BY <2>1, <2>3 DEF Read
  <2>4. QED
    BY <2>2, <2>3
<1>r. ~More(page) => owed \subseteq got \cup page
  <2>1. ~More(page) => page = S
    BY <1>1, <1>5, <1>7, <1>14 DEF More
  <2>2. QED
    BY <1>10, <1>11, <2>1
<1>16. Returned'
  <2>1. Returned
    BY DEF HistInv
  <2>2. \A i \in page : ask.since <= rows[i] /\ rows[i] <= Upto
    BY <1>0, <1>3, <1>8, <1>9, <1>12
  <2>3. twice' = {}
    BY <1>13, <1>k, <2>1 DEF Returned
  <2>4. st' # "start" /\ (st' = "done" => ~More(page))
    BY <1>15, <1>k
  <2>5. QED
    BY <1>k, <1>r, <2>1, <2>2, <2>3, <2>4 DEF Returned
<1>17. CASE More(page) /\ hi' = rows[Least(page)] /\ st' = st /\ lo' = lo /\ cur' = cur
  <2> DEFINE m == Least(page)
  <2>1. m \in page /\ \A y \in page : m <= y
    BY <1>14, <1>17 DEF More
  <2>2. hi' = rows[m]
    BY <1>17
  <2> HIDE DEF m
  <2>3. m \in Ids /\ m \in Nat /\ rows[m] \in Nat /\ hi' \in Nat /\ hi' < hi
    BY <1>8, <1>12, <2>1, <2>2
  <2>4. RowsSound'
    BY <1>0, <1>12, <1>17, <1>k, <2>3, ReadTyped DEF page
  <2>5. WindowSound'
    BY <1>0, <1>3, <1>9, <1>17, <1>k, <2>3 DEF WindowSound
  <2>6. \A i \in got' : hi' <= rows[i]
    <3>1. \A i \in got : hi <= rows[i] /\ rows[i] \in Nat
      BY <1>0, <1>8, <1>10
    <3>2. \A i \in got : hi' <= rows[i]
      BY <1>0, <2>3, <3>1
    <3>3. \A i \in page : hi' <= rows[i]
      BY <1>8, <1>12, <2>1, <2>2, <2>3
    <3>4. QED
      BY <1>k, <3>2, <3>3
  <2>7. \A j \in owed : hi' <= rows[j] => j \in got'
    <3> SUFFICES ASSUME NEW j \in owed, hi' <= rows[j] PROVE j \in got'
      OBVIOUS
    <3>1. CASE hi <= rows[j]
      BY <1>10, <1>k, <3>1
    <3>2. CASE j \in S
      <4>1. j \in Ids /\ j \in Nat /\ rows[j] \in Nat
        BY <1>1, <1>8, <3>2
      <4>2. ~(j < m)
        <5>1. j < m => rows[j] + Period <= rows[m]
          BY <1>8, <2>3, <4>1
        <5>2. QED
          BY <1>3, <2>2, <2>3, <4>1, <5>1
      <4>3. j = m \/ j > m
        BY <2>3, <4>1, <4>2
      <4>4. QED
        BY <1>6, <1>k, <2>1, <3>2, <4>3
    <3>3. QED
      BY <1>11, <3>1, <3>2
  <2>8. QED
    BY <1>16, <1>k, <2>4, <2>5, <2>6, <2>7 DEF HistInv, ByCursor, ByOlder, ByLater, ByWindow
<1>18. CASE st' = "done" /\ lo' = lo /\ hi' = hi /\ cur' = cur
  <2>1. RowsSound'
    BY <1>0, <1>12, <1>18, ReadTyped DEF page
  <2>2. QED
    BY <1>16, <1>18, <2>1 DEF HistInv, WindowSound, ByCursor, ByOlder, ByLater, ByWindow
<1>19. QED
  BY <1>15, <1>17, <1>18

\* The rates of binance by the time the next is due: a page has the oldest from there.
LEMMA ReadLater ==
  ASSUME HistInv, GetPage, ask.kind = "binanceRates"
  PROVE  HistInv'
<1> DEFINE S == Within(lo, hi)
           page == Page
<1>0. RowsSound /\ ask \in QueryTypes /\ cur \in Nat /\ got \subseteq Ids /\ owed \subseteq Ids
      /\ lo \in Nat /\ hi \in Nat
  BY DEF HistInv, RowsSound
<1>k. /\ rows' = rows /\ ask' = ask /\ owed' = owed /\ Ids' = Ids /\ st = "read"
      /\ got' = got \cup page /\ twice' = twice \cup (got \cap page)
      /\ Upto' = Upto /\ Until' = Until /\ Curtailed' = Curtailed
      /\ Loops' = Loops /\ NeedLoop' = NeedLoop /\ FitsWindows' = FitsWindows
  BY ReadKeeps
<1>1. \A i : i \in S <=> i \in Ids /\ lo <= rows[i] /\ rows[i] <= hi
  BY DEF Within
<1>2. page = IF lo = 0 THEN Newest(S, PerPage) ELSE Oldest(S, PerPage)
  BY DEF Page
<1>3. /\ PerPage \in Nat \ {0} /\ PerPage \in Int /\ ask.since \in Nat /\ Upto \in Nat
      /\ Period \in Nat \ {0}
      /\ PageSize \in Nat \ {0, 1} /\ Gap = Period /\ (ask.limit = 0 => PerPage = PageSize)
  BY <1>0, AsksTyped, HistoryAssumption DEF Gap, PerPage
<1>4. S \in SUBSET Ids /\ S \in SUBSET (1..Len(rows)) /\ Len(rows) \in Nat
  BY <1>0, <1>1, CountTyped, RowsTyped
<1>5. page \subseteq S
  BY <1>2 DEF Newest, Oldest
<1>c. ~Curtailed => lo # 0 /\ Until = Upto
  <2>1. ask.since <= lo
    BY <1>k DEF HistInv, WindowSound
  <2>2. ~Curtailed => ask.since > 0 /\ Until = Upto
    BY <1>0, AsksTyped
  <2>3. QED
    BY <1>0, <1>3, <2>1, <2>2
<1>6. ~Curtailed => \A i \in page, j \in S : j < i => j \in page
  BY <1>2, <1>3, <1>4, <1>c, OldestAre
<1>7. Cardinality(page) # PerPage => page = S
  BY <1>2, <1>3, <1>4, NewestAre, OldestAre
<1>8. /\ \A i \in Ids : i \in Nat /\ i <= Len(rows) /\ rows[i] \in Nat
      /\ \A i, j \in Ids : i <= j => rows[i] <= rows[j]
      /\ \A i, j \in Ids : i < j => rows[i] + Period <= rows[j]
      /\ \A i \in Ids : i + 1 \in Ids => rows[i + 1] = rows[i] + Period
      /\ Ids = 1..Len(rows)
  BY <1>0, <1>3, RowsTyped DEF RowsSound
<1>9. ~Loops /\ ask.since <= lo /\ hi = Upto
  BY <1>k DEF Loops, Windowed, HistInv, WindowSound
<1> HIDE DEF S, page
<1>10. /\ \A i \in got : rows[i] < lo
       /\ ~Curtailed => \A j \in owed : rows[j] < lo => j \in got
  BY <1>k DEF HistInv, ByLater
<1>11. \A j \in owed : j \in Ids /\ rows[j] < Upto /\ (rows[j] < lo \/ j \in S)
  <2>1. \A j \in owed : rows[j] < Upto /\ j \in Ids
    BY <1>0 DEF RowsSound
  <2>2. ASSUME NEW j \in owed, ~(rows[j] < lo) PROVE j \in S
    <3>1. j \in Ids /\ rows[j] \in Nat /\ rows[j] < Upto
      BY <1>8, <2>1
    <3>2. lo <= rows[j] /\ rows[j] <= hi
      BY <1>0, <1>3, <1>9, <2>2, <3>1
    <3>3. QED
      BY <1>1, <3>1, <3>2
  <2>3. QED
    BY <2>1, <2>2
<1>12. page \subseteq Ids /\ \A i \in page : lo <= rows[i] /\ rows[i] <= hi
  BY <1>1, <1>5
<1>13. got \cap page = {}
  BY <1>0, <1>8, <1>10, <1>12
<1>14. ASSUME Cardinality(page) = PageSize
       PROVE  /\ Most(page) \in page /\ \A y \in page : Most(page) >= y
              /\ rows[Least(page) + 1] - rows[Least(page)] = Period
  <2>1. /\ page # {} /\ page \in SUBSET Nat /\ IsFiniteSet(page) /\ \A y \in page : y <= Len(rows)
    BY <1>0, <1>3, <1>12, <1>14, CountTyped
  <2>2. Most(page) \in page /\ \A y \in page : Most(page) >= y
    BY <1>4, <2>1, MostIs
  <2> DEFINE f == Least(page)
  <2>3. f \in page /\ \A y \in page : f <= y
    BY <2>1, LeastIs
  <2> HIDE DEF f
  <2>4. PICK y \in page : y # f
    <3>1. Cardinality(page \ {f}) = Cardinality(page) - 1
      BY <2>1, <2>3, FS_RemoveElement
    <3>2. page \ {f} # {}
      BY <1>3, <1>14, <3>1, FS_EmptySet
    <3>3. QED
      BY <3>2
  <2>5. f + 1 \in Ids
    <3>1. f \in Nat /\ y \in Nat /\ f < y /\ y <= Len(rows) /\ f >= 1
      BY <1>8, <1>12, <2>1, <2>3, <2>4
    <3>2. QED
      BY <1>4, <1>8, <3>1
  <2>6. rows[f + 1] = rows[f] + Period /\ rows[f] \in Nat
    BY <1>8, <1>12, <2>3, <2>5
  <2>7. rows[f + 1] - rows[f] = Period
    BY <1>3, <2>6
  <2>8. QED
    BY <2>2, <2>7 DEF f
\* what is before the rate that is due next is read
<1>15. ASSUME ~Curtailed, Cardinality(page) = PageSize, NEW j \in owed, rows[j] < rows[Most(page)] + Period
       PROVE  j \in got \cup page
  <2>1. PICK m \in page : m = Most(page)
    BY <1>14, <1>15
  <2>2. m \in Ids /\ m \in Nat /\ rows[m] \in Nat /\ j \in Ids /\ j \in Nat /\ rows[j] \in Nat
    BY <1>8, <1>11, <1>12, <2>1
  <2>3. ~(m < j)
    <3>1. m < j => rows[m] + Period <= rows[j]
      BY <1>8, <2>2
    <3>2. QED
      BY <1>3, <1>15, <2>1, <2>2, <3>1
  <2>4. j = m \/ j < m
    BY <2>2, <2>3
  <2>5. QED
    BY <1>6, <1>10, <1>11, <1>15, <2>1, <2>4
<1>16. \/ /\ More(page) /\ lo' = rows[Most(page)] + (rows[Least(page) + 1] - rows[Least(page)])
          /\ st' = st /\ hi' = hi /\ cur' = cur
       \/ ~More(page) /\ st' = "done" /\ lo' = lo /\ hi' = hi /\ cur' = cur
  <2>1. Read(page) /\ ~Windowed
    BY DEF GetPage, page, Windowed
  <2>2. CASE More(page)
    BY <2>1, <2>2 DEF Read
  <2>3. CASE ~More(page)
    BY <2>1, <2>3 DEF Read
  <2>4. QED
    BY <2>2, <2>3
<1>r. ASSUME ~More(page), ask.limit = 0, ~Curtailed PROVE owed \subseteq got \cup page
  <2>1. CASE Cardinality(page) # PageSize
    <3>1. page = S
      BY <1>3, <1>7, <1>r, <2>1
    <3>2. QED
      BY <1>10, <1>11, <1>r, <3>1
  <2>2. CASE Cardinality(page) = PageSize
    <3>1. ~(rows[Most(page)] + Period < Upto)
      BY <1>c, <1>r, <2>2 DEF More
    <3>2. Most(page) \in Ids /\ rows[Most(page)] \in Nat
      BY <1>8, <1>12, <1>14, <2>2
    <3>3. \A j \in owed : rows[j] < rows[Most(page)] + Period
      BY <1>3, <1>8, <1>11, <3>1, <3>2
    <3>4. QED
      BY <1>15, <1>r, <2>2, <3>3
  <2>3. QED
    BY <2>1, <2>2
<1>17. Returned'
  <2>1. Returned
    BY DEF HistInv
  <2>2. \A i \in page : ask.since <= rows[i] /\ rows[i] <= Upto
    BY <1>0, <1>3, <1>8, <1>9, <1>12
  <2>3. twice' = {}
    BY <1>13, <1>k, <2>1 DEF Returned
  <2>4. st' # "start" /\ (st' = "done" => ~More(page))
    BY <1>16, <1>k
  <2>5. QED
    BY <1>k, <1>r, <2>1, <2>2, <2>3, <2>4 DEF Returned
<1>18. CASE /\ More(page) /\ lo' = rows[Most(page)] + (rows[Least(page) + 1] - rows[Least(page)])
            /\ st' = st /\ hi' = hi /\ cur' = cur
  <2>0. Cardinality(page) = PageSize
    BY <1>18 DEF More
  <2> DEFINE m == Most(page)
  <2>1. m \in page /\ \A y \in page : m >= y
    BY <1>14, <2>0
  <2>2. lo' = rows[m] + Period
    BY <1>14, <1>18, <2>0
  <2>a. ~Curtailed => \A j \in owed : rows[j] < rows[m] + Period => j \in got \cup page
    BY <1>15, <2>0
  <2> HIDE DEF m
  <2>3. m \in Ids /\ m \in Nat /\ rows[m] \in Nat /\ lo <= rows[m] /\ lo' \in Nat /\ lo <= lo'
    BY <1>0, <1>3, <1>8, <1>12, <2>1, <2>2
  <2>4. RowsSound'
    BY <1>0, <1>12, <1>18, <1>k, <2>3, ReadTyped DEF page
  <2>5. WindowSound'
    BY <1>0, <1>3, <1>9, <1>18, <1>k, <2>3 DEF WindowSound
  <2>6. \A i \in got' : rows[i] < lo'
    <3>1. \A i \in got : rows[i] < lo /\ rows[i] \in Nat
      BY <1>0, <1>8, <1>10
    <3>2. \A i \in got : rows[i] < lo'
      BY <1>0, <2>3, <3>1
    <3>3. \A i \in page : rows[i] < lo'
      <4>1. \A i \in page : rows[i] <= rows[m] /\ rows[i] \in Nat
        BY <1>8, <1>12, <2>1, <2>3
      <4>2. QED
        BY <1>3, <2>2, <2>3, <4>1
    <3>4. QED
      BY <1>k, <3>2, <3>3
  <2>7. ~Curtailed => \A j \in owed : rows[j] < lo' => j \in got'
    BY <1>k, <2>2, <2>a
  <2>8. QED
    BY <1>17, <1>k, <2>4, <2>5, <2>6, <2>7 DEF HistInv, ByCursor, ByOlder, ByLater, ByWindow
<1>19. CASE st' = "done" /\ lo' = lo /\ hi' = hi /\ cur' = cur
  <2>1. RowsSound'
    BY <1>0, <1>12, <1>19, ReadTyped DEF page
  <2>2. QED
    BY <1>17, <1>19, <2>1 DEF HistInv, WindowSound, ByCursor, ByOlder, ByLater, ByWindow
<1>20. QED
  BY <1>16, <1>18, <1>19

\* The orders of binance by windows: a page is the whole window.
LEMMA ReadWindow ==
  ASSUME HistInv, GetPage, ask.kind = "binanceOrders"
  PROVE  HistInv'
<1> DEFINE S == Within(lo, hi)
           page == Page
<1>0. RowsSound /\ ask \in QueryTypes /\ cur \in Nat /\ got \subseteq Ids /\ owed \subseteq Ids
      /\ lo \in Nat /\ hi \in Nat
  BY DEF HistInv, RowsSound
<1>k. /\ rows' = rows /\ ask' = ask /\ owed' = owed /\ Ids' = Ids /\ st = "read"
      /\ got' = got \cup page
      /\ Upto' = Upto /\ Until' = Until /\ Curtailed' = Curtailed
      /\ Loops' = Loops /\ NeedLoop' = NeedLoop /\ FitsWindows' = FitsWindows
  BY ReadKeeps
<1>1. \A i : i \in S <=> i \in Ids /\ InWindow(i)
  BY <1>0, WithinIs
<1>2. page = Oldest(S, PerPage)
  BY DEF Page
<1>3. /\ PerPage \in Nat /\ PerPage \in Int /\ ask.since \in Nat /\ Upto \in Nat
      /\ Intv \in Nat /\ MaxTime \in Nat
  BY <1>0, AsksTyped
<1>4. S \in SUBSET Ids /\ S \in SUBSET (1..Len(rows)) /\ Len(rows) \in Nat /\ IsFiniteSet(S)
      /\ Cardinality(S) \in Nat /\ S \in SUBSET Nat
  BY <1>0, <1>1, CountTyped, RowsTyped
<1>5. page \subseteq S
  BY <1>2 DEF Oldest
<1>6. Cardinality(page) # PerPage => page = S
  BY <1>2, <1>3, <1>4, OldestAre
<1>7. \A i \in Ids : i \in Nat /\ rows[i] \in Nat /\ rows[i] <= MaxTime
  BY <1>0, RowsTyped
<1>8. /\ ask.since <= lo /\ hi <= Upto /\ Windowed
      /\ Loops => hi <= lo + Intv
      /\ NeedLoop <=> Loops
  BY <1>k DEF HistInv, WindowSound, Loops, Windowed
<1> HIDE DEF S, page
<1>9. ASSUME FitsWindows PROVE page = S
  <2>1. CASE S = {}
    BY <1>5, <2>1
  <2>2. CASE S # {}
    <3> DEFINE w == IF NeedLoop THEN Intv ELSE MaxTime
    <3>1. PICK f \in S : \A y \in S : f <= y
      BY <1>4, <2>2, LeastIs
    <3>2. f \in Ids /\ f \in Nat /\ rows[f] \in Nat /\ lo <= rows[f]
      BY <1>1, <1>7, <3>1 DEF InWindow
    <3>3. Cardinality(Within(rows[f], rows[f] + w)) <= PerPage
      BY <1>9, <3>2 DEF FitsWindows
    <3>4. \A i \in S : i \in Ids /\ rows[f] <= rows[i] /\ rows[i] <= rows[f] + w
      <4> SUFFICES ASSUME NEW i \in S PROVE i \in Ids /\ rows[f] <= rows[i] /\ rows[i] <= rows[f] + w
        OBVIOUS
      <4>1. i \in Ids /\ rows[i] \in Nat /\ rows[i] <= hi /\ rows[i] <= MaxTime /\ f <= i
        BY <1>1, <1>7, <3>1 DEF InWindow
      <4>2. rows[f] <= rows[i]
        BY <1>0, <3>1, <3>2, <4>1, RowsTyped
      <4>3. CASE NeedLoop
        BY <1>0, <1>3, <1>8, <3>2, <4>1, <4>2, <4>3
      <4>4. CASE ~NeedLoop
        BY <1>3, <3>2, <4>1, <4>2, <4>4
      <4>5. QED
        BY <4>3, <4>4
    <3>5. S \in SUBSET Within(rows[f], rows[f] + w)
      BY <3>4 DEF Within
    <3>6. PICK W \in SUBSET Ids : W = Within(rows[f], rows[f] + w)
      BY DEF Within
    <3>7. IsFiniteSet(W) /\ Cardinality(W) \in Nat /\ Cardinality(S) <= Cardinality(W)
      BY <1>0, <3>5, <3>6, CountTyped, FS_Subset
    <3>8. Cardinality(S) <= PerPage
      BY <1>3, <1>4, <3>3, <3>6, <3>7
    <3>9. Cardinality(page) \in Nat /\ Cardinality(page) <= Cardinality(S)
          /\ (Cardinality(page) = Cardinality(S) => page = S)
      BY <1>4, <1>5, FS_Subset, FS_CardinalityType
    <3>10. QED
      BY <1>3, <1>4, <1>6, <3>8, <3>9
  <2>3. QED
    BY <2>1, <2>2
<1>10. page \subseteq Ids /\ \A i \in page : InWindow(i)
  BY <1>1, <1>5
<1>11. ask.limit = 0 /\ ~Curtailed /\ FitsWindows => \A j \in owed : Past(j) \/ InWindow(j) => j \in got \cup page
  <2>1. ask.limit = 0 /\ ~Curtailed /\ FitsWindows => \A j \in owed : Past(j) => j \in got
    BY <1>k DEF HistInv, ByWindow
  <2>2. QED
    BY <1>0, <1>1, <1>9, <2>1
<1>12. \/ /\ ~LastWindow /\ NextWindow /\ cur' = MaxRows + 1 /\ st' = st
       \/ /\ st' = "done" /\ lo' = lo /\ hi' = hi /\ cur' = cur
          /\ Enough(page) \/ LastWindow
  <2>1. Read(page)
    BY DEF GetPage, page
  <2>2. CASE ~Enough(page) /\ ~LastWindow
    BY <1>8, <2>1, <2>2 DEF Read
  <2>3. CASE Enough(page) \/ LastWindow
    BY <2>1, <2>3 DEF Read
  <2>4. QED
    BY <2>2, <2>3
<1>r. ASSUME ask.limit = 0, ~Curtailed, st' = "done", FitsWindows PROVE owed \subseteq got \cup page
  <2>1. ~Enough(page)
    BY <1>r, <1>0, AsksTyped DEF Enough
  <2>2. LastWindow
    BY <1>12, <1>k, <1>r, <2>1
  <2>3. \A j \in owed : Past(j) \/ InWindow(j)
    BY <1>k, <1>r, <2>2, WindowLast
  <2>4. QED
    BY <1>11, <1>r, <2>3
<1>13. Returned'
  <2>1. Returned
    BY DEF HistInv
  <2>2. \A i \in page : ask.since <= rows[i] /\ rows[i] <= Upto
    BY <1>0, <1>3, <1>7, <1>8, <1>10 DEF InWindow
  <2>3. st' # "start"
    BY <1>12, <1>k
  <2>4. QED
    BY <1>k, <1>r, <2>1, <2>2, <2>3 DEF Returned
<1>14. CASE ~LastWindow /\ NextWindow /\ cur' = MaxRows + 1 /\ st' = st
  <2>1. /\ lo' \in Nat /\ hi' \in Nat /\ WindowSound'
        /\ \A j \in Ids : Past(j)' => Past(j) \/ InWindow(j)
    BY <1>8, <1>14, <1>k, WindowStep
  <2>2. cur' \in Nat
    BY <1>14, HistoryAssumption
  <2>3. RowsSound'
    BY <1>0, <1>10, <1>14, <1>k, <2>1, <2>2, ReadTyped DEF page
  <2>4. ByWindow'
    <3>1. ASSUME ask.limit = 0, ~Curtailed, FitsWindows, NEW j \in owed, Past(j)' PROVE j \in got'
      BY <1>0, <1>11, <1>k, <2>1, <3>1
    <3>2. QED
      BY <1>k, <3>1 DEF ByWindow
  <2>5. QED
    BY <1>13, <1>k, <2>1, <2>3, <2>4 DEF HistInv, ByCursor, ByOlder, ByLater
<1>15. CASE st' = "done" /\ lo' = lo /\ hi' = hi /\ cur' = cur
  <2>1. RowsSound'
    BY <1>0, <1>10, <1>15, ReadTyped DEF page
  <2>2. QED
    BY <1>13, <1>15, <2>1 DEF HistInv, WindowSound, ByCursor, ByOlder, ByLater, ByWindow
<1>16. QED
  BY <1>12, <1>14, <1>15

LEMMA HistInvStep ==
  ASSUME HistInv, [HistNext]_histVars
  PROVE  HistInv'
<1>1. CASE GetPage
  <2>1. ask.kind \in Kinds
    BY AsksTyped DEF HistInv, RowsSound
  <2>2. QED
    BY <1>1, <2>1, ReadBack, ReadOlder, ReadLater, ReadWindow DEF Kinds
<1>2. CASE UNCHANGED histVars
  <2>1. UNCHANGED <<rows, ask, st, lo, hi, cur, got, twice, owed>>
    BY <1>2 DEF histVars
  <2>2. /\ Upto' = Upto /\ Until' = Until /\ Curtailed' = Curtailed
        /\ Intv' = Intv /\ PerPage' = PerPage /\ Gap' = Gap /\ Loops' = Loops
        /\ NeedLoop' = NeedLoop
    BY <2>1, AsksSame
  <2>3. Ids' = Ids /\ FitsWindows' = FitsWindows
    BY <2>1, <2>2 DEF Ids, FitsWindows, Within
  <2>4. RowsSound' /\ WindowSound'
    BY <2>1, <2>2, <2>3 DEF HistInv, RowsSound, WindowSound
  <2>5. ByCursor' /\ ByOlder' /\ ByLater' /\ ByWindow'
    BY <2>1, <2>2, <2>3 DEF HistInv, ByCursor, ByOlder, ByLater, ByWindow, Past, InWindow
  <2>6. Returned'
    BY <2>1, <2>2, <2>3 DEF HistInv, Returned
  <2>7. QED
    BY <2>4, <2>5, <2>6 DEF HistInv
<1>3. QED
  BY <1>1, <1>2, StartStep, ArriveStep, FailStep DEF HistNext

\* A call that reads a history and ends without an error has what was there when it
\* began, whatever was added between its pages, none twice and none besides; all of it
\* unless it has a limit or is one of the two that are Curtailed. So also where calls
\* about orders are the other behaviours.
THEOREM HistoryIsComplete == (HistSpec => []Complete) /\ (TradesSpec => []Complete)
<1> DEFINE NoCall == exg # "none" /\ st = "done" /\ got = {} /\ twice = {} /\ owed = {}
           Inv == NoCall \/ (exg = "none" /\ HistInv)
<1>1. HistInv => Complete
  BY DEF HistInv, Returned, Complete
<1>2. HistSpec => []Complete
  BY <1>1, HistInitially, HistInvStep, PTL DEF HistSpec
<1>3. TradesInit => Inv
  <2>1. "none" \notin Exchanges
    BY OrdersAssumption
  <2>2. QED
    BY <2>1, HistInitially DEF TradesInit, Init
<1>4. Inv /\ [TradesNext]_<<vars, histVars>> => Inv'
  <2> SUFFICES ASSUME Inv, [TradesNext]_<<vars, histVars>> PROVE Inv'
    OBVIOUS
  <2>1. exg' = exg
    <3>1. Next => exg' = exg
      BY DEF Next, Create, Edit, Request, List, Begin, Swap, Look, Restore, Refuse, Send,
             TimeOut, Execute, End
    <3>2. QED
      BY <3>1 DEF TradesNext, vars
  <2>2. CASE NoCall
    BY <2>1, <2>2 DEF TradesNext, histVars
  <2>3. CASE exg = "none" /\ HistInv
    <3>1. [HistNext]_histVars
      BY <2>3 DEF TradesNext
    <3>2. QED
      BY <2>1, <2>3, <3>1, HistInvStep
  <2>4. QED
    BY <2>2, <2>3
<1>5. Inv => Complete
  BY <1>1 DEF Complete
<1>6. TradesSpec => []Complete
  BY <1>3, <1>4, <1>5, PTL DEF TradesSpec
<1>7. QED
  BY <1>2, <1>6
===============================================================================
