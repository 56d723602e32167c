-------------------------------- MODULE Streams --------------------------------
(***************************************************************************)
(* The Watch and UnWatch calls of the four exchanges, from the call to the *)
(* channel the application reads.  A Watch call logs in where the data is  *)
(* an account's, subscribes (WsClient.UpdateSubs keeps the keys, the       *)
(* request goes to the exchange) and opens the channel (GetWsOutChan,      *)
(* AddWsChanRefs).  What the exchange sends afterwards reaches the channel *)
(* only if the handler of its topic names that channel, and only as long   *)
(* as every reconnection asks for the topic again: OnWsReCon makes its     *)
(* requests of the keys alone.                                             *)
(*                                                                         *)
(* OkxStreams, BybitStreams, BitgetStreams and BinanceStreams say what     *)
(* each exchange's code asks for, and where.  Behind this module are the   *)
(* details of others: the channels (OutChans), the connections of a client *)
(* (WsConn, WsSubs) and the login (WsAuth), which are single steps here.   *)
(***************************************************************************)
EXTENDS Naturals, Sequences, FiniteSets

CONSTANTS
  Exchanges,   \* those of this instance: "okx", "bybit", "bitget", "binance"
  Markets,     \* "linear", "spot", "option"
  Insts,       \* instruments, all of the market of the behaviour
  Accs,        \* accounts
  Frames,      \* time frames
  Limits,      \* limits of order books; 0 is none
  Callers,     \* goroutines of the application
  MaxCalls     \* bound: Watch calls

ASSUME Assumption ==
  /\ Exchanges \subseteq {"okx", "bybit", "bitget", "binance"}
  /\ Markets \subseteq {"linear", "spot", "option"}
  /\ Limits \subseteq Nat /\ MaxCalls \in Nat
  /\ IsFiniteSet(Insts) /\ IsFiniteSet(Accs)

Okx     == INSTANCE OkxStreams
Bybit   == INSTANCE BybitStreams
Bitget  == INSTANCE BitgetStreams
Binance == INSTANCE BinanceStreams

\* parseWsKey of okx tells an instrument ("BTC-USDT-SWAP") from a type ("SWAP").
ASSUME NamesAssumption == Insts \cap Okx!InstTypes = {}

VARIABLES
  wexg, mkt,  \* the exchange and the market of this behaviour
  creds,     \* the accounts have API keys
  keys,      \* <<client, key>> in SubscribeKeys
  sends,    \* <<client, topic>> that the exchange sends
  up,        \* clients with a connection
  refs,      \* <<channel, reference>>; a channel is open while it has one
  limits,    \* instrument -> limit or depth in OdBookLimits, 0 if none
  authed,    \* clients in WsAuthed
  logged,    \* clients the exchange has logged in
  relog,     \* clients whose reconnection has sent a login
  back,      \* <<client, key>> in WsPendingRecons
  queue,     \* <<client, topic>> asked for behind that login
  algo,      \* WsMyTradesChanKey of okx, <<>> if empty
  call,      \* caller -> the Watch call under way: its step and its wishes
  held,      \* what the application has watched and not given up
  loose,     \* <<client, key>> that an UnWatch call or a restoration left
  calls      \* number of Watch calls

watchVars == <<wexg, mkt, creds, keys, sends, up, refs, limits, authed, logged, relog, back,
          queue, algo, call, held, loose, calls>>
env  == <<wexg, mkt, creds>>
auth == <<authed, logged, relog, back, queue>>

-------------------------------------------------------------------------------
\* What can be watched: a kind of data, an instrument or account, an argument.

MarketsOf(e) == CASE e = "okx"     -> Markets \cap {"linear"}
                  [] e = "bybit"   -> Markets \cap {"linear", "option"}
                  [] e = "bitget"  -> Markets \cap {"linear", "spot"}
                  [] e = "binance" -> Markets \cap {"linear", "spot"}

Of(kind, whos, args) == {kind} \X whos \X args

PublicWishes ==
  Of("trades", Insts, {""}) \cup Of("candles", Insts, Frames)
  \cup (IF wexg = "bitget" THEN {} ELSE Of("books", Insts, Limits))
  \cup (IF mkt = "spot" /\ wexg # "bitget" THEN {} ELSE Of("mark", Insts, {""}))

AccountWishes ==
  CASE wexg = "okx"     -> Of("balance", Accs, {""}) \cup Of("config", Accs, {""})
                          \cup Of("positions", Accs, {"ANY", "SWAP"})
                          \cup Of("mytrades", Accs, {""} \cup Insts)
    [] wexg = "bybit"   -> Of("balance", Accs, {""}) \cup Of("config", Accs, {"", "linear"})
                          \cup Of("positions", Accs, {"", "linear"})
                          \cup Of("mytrades", Accs, {"", "linear"})
    [] wexg = "bitget"  -> {}
    [] wexg = "binance" -> Of("balance", Accs, {""}) \cup Of("mytrades", Accs, {""})
                          \cup (IF mkt = "spot" THEN {}
                                ELSE Of("config", Accs, {""}) \cup Of("positions", Accs, {""}))

StreamOf(w) ==
  LET k == w[1]  who == w[2]  arg == w[3] IN
  CASE wexg = "okx" ->
         (CASE k = "books"     -> Okx!Books(who, arg)
            [] k = "trades"    -> Okx!Trades(who)
            [] k = "candles"   -> Okx!Candles(who, arg)
            [] k = "mark"      -> Okx!Mark(who)
            [] k = "balance"   -> Okx!Balance(who)
            [] k = "config"    -> Okx!Config(who)
            [] k = "positions" -> Okx!Positions(who, arg)
            [] k = "mytrades"  -> Okx!MyTrades(who, arg))
    [] wexg = "bybit" ->
         (CASE k = "books"     -> Bybit!Books(mkt, who, arg)
            [] k = "trades"    -> Bybit!Trades(mkt, who, "base")
            [] k = "candles"   -> Bybit!Candles(mkt, who, arg)
            [] k = "mark"      -> Bybit!Mark(mkt, who)
            [] k = "balance"   -> Bybit!Balance(who)
            [] k = "config"    -> Bybit!Config(who, arg)
            [] k = "positions" -> Bybit!Positions(who, arg)
            [] k = "mytrades"  -> Bybit!MyTrades(who, arg))
    [] wexg = "bitget" ->
         (CASE k = "trades"    -> Bitget!Trades(mkt, who)
            [] k = "candles"   -> Bitget!Candles(mkt, who, arg)
            [] k = "mark"      -> Bitget!Mark(mkt, who))
    [] wexg = "binance" ->
         (CASE k = "books"     -> Binance!Books(mkt, who, arg)
            [] k = "trades"    -> Binance!Trades(mkt, who, "trade")
            [] k = "candles"   -> Binance!Candles(mkt, who, arg)
            [] k = "mark"      -> Binance!Mark(mkt, who, "")
            [] k = "balance"   -> Binance!Account(mkt, who, "balance")
            [] k = "config"    -> Binance!Account(mkt, who, "accConfig")
            [] k = "positions" -> Binance!Account(mkt, who, "positions")
            [] k = "mytrades"  -> Binance!Account(mkt, who, "mytrades"))

\* The key UpdateSubs keeps for a topic, and the topic a reconnection asks for.
KeyOf(t)   == IF wexg = "okx" THEN Okx!KeyOf(t) ELSE t
TopicOf(k) == IF wexg = "okx" THEN Okx!TopicOf(k) ELSE k

\* The data of a listenKey comes without a subscription.
KeysOf(w) == IF wexg = "binance" /\ w \in AccountWishes THEN {} ELSE {KeyOf(StreamOf(w).topic)}

NeedsLogin(t) == CASE wexg = "okx"   -> Okx!NeedsLogin(t)
                   [] wexg = "bybit" -> Bybit!NeedsLogin(t)
                   [] OTHER         -> FALSE

\* The topics the exchange agrees to send to a client.
Granted(c, topics, loggedIn) ==
  {t \in topics : (NeedsLogin(t) => c \in loggedIn) /\ (wexg = "okx" => Okx!Exists(t))}

\* The channels a message is written to.
Whole(c) == \E x \in keys : x[1][2] = c[2] /\ x[2][1][1] = "positions"
Route(c, t) == CASE wexg = "okx"     -> Okx!Route(c, t, Whole(c), algo)
                 [] wexg = "bybit"   -> Bybit!Route(c, t)
                 [] wexg = "bitget"  -> Bitget!Route(c, t)
                 [] wexg = "binance" -> Binance!Route(c, t)

Clients == {StreamOf(w).client : w \in PublicWishes \cup AccountWishes}
           \cup (IF wexg = "okx" THEN {Okx!Algo(a) : a \in Accs} ELSE {})

\* Clients whose reconnection logs in before anything else.
LogsIn(c) == CASE wexg \in {"okx", "bybit"} -> c[1] = "private"
               [] wexg = "bitget"           -> c[1] = "mix"
               [] wexg = "binance"          -> FALSE

Sub(f, c) == {x[2] : x \in {y \in f : y[1] = c}}   \* what f holds of client c
Minus(f, c) == {x \in f : x[1] # c}
Pairs(c, s) == {c} \X s

-------------------------------------------------------------------------------
WatchInit ==
  /\ wexg \in Exchanges /\ mkt \in MarketsOf(wexg) /\ creds \in BOOLEAN
  /\ keys = {} /\ sends = {} /\ up = {} /\ refs = {}
  /\ limits = [i \in Insts |-> 0]
  /\ authed = {} /\ logged = {} /\ relog = {} /\ back = {} /\ queue = {}
  /\ algo = <<>>
  /\ call = [p \in Callers |-> [pc |-> "idle", ws |-> {}]]
  /\ held = {} /\ loose = {} /\ calls = 0

Goto(p, l) == call' = [call EXCEPT ![p].pc = l]
Return(p)  == call' = [call EXCEPT ![p] = [pc |-> "idle", ws |-> {}]]

W(p) == call[p].ws   \* the wishes of a call
Wanted == held \cup UNION {W(p) : p \in Callers}

Client(p) == StreamOf(CHOOSE w \in W(p) : TRUE).client
Topics(p) == {StreamOf(w).topic : w \in W(p)}

\* Two goroutines do not watch or give up the same thing at the same time.
Busy(ws) == \E p \in Callers : \E v \in W(p), w \in ws : v[1] = w[1] /\ v[2] = w[2]

\* A Watch call begins: instruments of one kind with one argument, or one
\* account.  Without a limit binance takes that of an order book it has.
Call(p, ws) ==
  /\ call[p].pc = "idle" /\ ~Busy(ws)
  /\ calls < MaxCalls /\ calls' = calls + 1
  /\ \E l \in IF wexg = "binance" /\ \E w \in ws : w[1] = "books"
                THEN LET w == CHOOSE w \in ws : TRUE
                     IN  Binance!LimitOf(w[3], {limits[v[2]] : v \in ws} \ {0})
                ELSE {0} :
       call' = [call EXCEPT ![p] =
         [pc |-> IF ws \subseteq AccountWishes THEN "login" ELSE "sub",
          ws |-> IF l = 0 THEN ws ELSE {<<w[1], w[2], l>> : w \in ws}]]
  /\ UNCHANGED <<env, keys, sends, up, refs, limits, auth, algo, held, loose>>

\* getAuthClient: wsLogin of okx and bybit, the listenKey of binance.  A login
\* that a reconnection has sent is waited for.
Login(p) ==
  /\ call[p].pc = "login"
  /\ LET c == Client(p) IN
     \/ /\ ~creds
        /\ Return(p) /\ UNCHANGED <<authed, logged, up>>
     \/ /\ creds /\ c \in authed
        /\ Goto(p, "sub") /\ UNCHANGED <<authed, logged, up>>
     \/ /\ creds /\ c \notin authed \cup relog
        /\ authed' = authed \cup {c} /\ logged' = logged \cup {c}
        /\ up' = up \cup {c}
        /\ Goto(p, "sub")
  /\ UNCHANGED <<env, keys, sends, refs, limits, relog, back, queue, algo, held, loose, calls>>

\* UpdateSubs(TRUE) and the request; bybit first gives up the order books it
\* had with another depth.
Ask(c, topics, gone) ==
  /\ keys' = (keys \ Pairs(c, gone)) \cup Pairs(c, {KeyOf(t) : t \in topics})
  /\ up' = up \cup {c}
  /\ IF c \in relog
       THEN /\ queue' = queue \cup Pairs(c, topics)
            /\ sends' = sends \ Pairs(c, gone)
       ELSE /\ queue' = queue
            /\ sends' = (sends \ Pairs(c, gone)) \cup Pairs(c, Granted(c, topics, logged))

\* writeWsArgs, writeWsTopics, WriteWSMsg of a Watch call.  On bybit the new
\* depth of an order book replaces the one the application had.
Subscribe(p) ==
  /\ call[p].pc = "sub"
  /\ LET c    == Client(p)
         gone == IF wexg # "bybit" THEN {}
                 ELSE UNION {Bybit!OldBook(mkt, w[2], w[3], limits[w[2]])
                             : w \in {v \in W(p) : v[1] = "books"}}
     IN  IF wexg = "binance" /\ W(p) \subseteq AccountWishes
           THEN /\ sends' = sends \cup Pairs(c, {Binance!UserData})
                /\ up' = up \cup {c}
                /\ UNCHANGED <<keys, queue>>
           ELSE Ask(c, Topics(p), gone)
  /\ limits' = [i \in Insts |->
       IF \E w \in W(p) : w[1] = "books" /\ w[2] = i
         THEN LET w == CHOOSE w \in W(p) : w[2] = i
              IN  CASE wexg = "bybit"   -> Bybit!Depth(mkt, w[3])
                    [] wexg = "binance" -> w[3]
                    [] OTHER           -> 0
         ELSE limits[i]]
  /\ IF wexg = "okx" /\ \E w \in W(p) : w[1] = "mytrades"
       THEN Goto(p, "algo") ELSE Goto(p, "open")
  /\ held' = {v \in held : ~\E w \in W(p) : /\ wexg = "bybit" /\ v[1] = "books"
                                            /\ v[1] = w[1] /\ v[2] = w[2]}
  /\ UNCHANGED <<env, refs, authed, logged, relog, back, algo, loose, calls>>

\* WatchMyTrades of okx: WsMyTradesChanKey, then subscribeAlgoOrdersChannel,
\* which logs in on the business endpoint; its failure is only logged.
AskAlgo(p) ==
  /\ call[p].pc = "algo"
  /\ LET w == CHOOSE w \in W(p) : TRUE
         s == Okx!AlgoOrders(w[2], w[3])
         c == s.client
     IN  /\ algo' = <<Client(p), "mytrades">>
         /\ LET in == IF c \in authed THEN logged ELSE logged \cup {c}
            IN  /\ authed' = authed \cup {c}
                /\ logged' = in
                /\ keys' = keys \cup Pairs(c, {KeyOf(s.topic)})
                /\ sends' = sends \cup Pairs(c, Granted(c, {s.topic}, in))
                /\ up' = up \cup {c}
  /\ Goto(p, "open")
  /\ UNCHANGED <<env, refs, limits, relog, back, queue, held, loose, calls>>

\* GetWsOutChan and AddWsChanRefs; the application has what it asked for.
Open(p) ==
  /\ call[p].pc = "open"
  /\ refs' = refs \cup {LET s == StreamOf(w) IN <<<<s.client, s.chan>>, s.ref>> : w \in W(p)}
  /\ held' = held \cup W(p)
  /\ Return(p)
  /\ UNCHANGED <<env, keys, sends, up, limits, auth, algo, loose, calls>>

-------------------------------------------------------------------------------
\* UnWatch calls.  UpdateSubs(FALSE) drops the keys and returns no connection:
\* okx, bitget and binance return "get ws conn fail" there, before the request
\* and before DelWsChanRefs.  Only bybit writes to each connection by itself.

\* The streams an UnWatch call names; not of one order book with its limit.
Unnamed(ws) ==
  IF \A w \in ws : w[1] # "books" THEN {{StreamOf(w) : w \in ws}}
  ELSE CASE wexg = "okx"     -> {{Okx!UnBooks(w[2]) : w \in ws}}
         [] wexg = "bybit"   -> {{Bybit!UnBooks(mkt, w[2], limits[w[2]]) : w \in ws}}
         [] wexg = "binance" -> {{Binance!Books(mkt, w[2], l) : w \in ws}
                                : l \in Binance!UnLimits(limits, {w[2] : w \in ws})}

\* The wishes an UnWatch call of ws ends: for an instrument's order books all.
Ended(ws) == {v \in held : \E w \in ws : /\ v[1] = w[1] /\ v[2] = w[2]
                                         /\ w[1] # "books" => v = w}

\* Fault: the keys stay, as if somebody still wanted them.
DroppedNot(c, ks) == keys

\* What UpdateSubs(FALSE) leaves of the keys.
Dropped(c, ks) == keys \ Pairs(c, ks)

UnWatch(ws) ==
  /\ ws # {} /\ ws \subseteq held \cap PublicWishes /\ ~Busy(ws)
  /\ \A v, w \in ws : v[1] = w[1]
  /\ \E streams \in Unnamed(ws) :
       LET c      == (CHOOSE s \in streams : TRUE).client
           topics == {s.topic : s \in streams}
           ks     == {KeyOf(t) : t \in topics}
           mine   == UNION {KeysOf(w) : w \in Ended(ws)}
       IN  /\ keys' = Dropped(c, ks)
           /\ loose' = loose \cup (keys \cap Pairs(c, mine \ ks))
           /\ IF wexg # "bybit" THEN UNCHANGED <<sends, queue, refs, limits>>
              ELSE /\ sends' = sends \ Pairs(c, topics)
                   /\ queue' = queue \ Pairs(c, topics)
                   /\ refs' = refs \ {<<<<s.client, s.chan>>, s.ref>> : s \in streams}
                   /\ limits' = [i \in Insts |->
                        IF \E w \in ws : w[1] = "books" /\ w[2] = i THEN 0 ELSE limits[i]]
  /\ held' = held \ Ended(ws)
  /\ UNCHANGED <<env, up, authed, logged, relog, back, algo, call, calls>>

-------------------------------------------------------------------------------
\* OnWsReCon on a new connection of client c.

\* What a reconnection asks for without a login.
Resubscribe(c) ==
  /\ sends' = Minus(sends, c)
       \cup Pairs(c, Granted(c, {TopicOf(k) : k \in Sub(keys, c)}, logged \ {c}))
       \cup (IF wexg = "binance" /\ c[2] = "user" THEN Pairs(c, {Binance!UserData}) ELSE {})
  /\ logged' = logged \ {c}
  /\ UNCHANGED <<authed, relog, back, queue>>

\* WsAuthed is cleared and the login sent; WsPendingRecons keeps the keys.
Relogin(c) ==
  /\ sends' = Minus(sends, c)
  /\ authed' = authed \ {c} /\ logged' = logged \ {c}
  /\ relog' = relog \cup {c}
  /\ back' = Minus(back, c) \cup Pairs(c, Sub(keys, c))
  /\ queue' = Minus(queue, c)

\* bybit returns at once when the connection has no keys.
ReconnectKeyless(c) ==
  /\ sends' = Minus(sends, c) /\ logged' = logged \ {c}
  /\ relog' = relog \ {c} /\ queue' = Minus(queue, c)
  /\ UNCHANGED <<authed, back>>

ReconnectWs(c) ==
  /\ c \in up
  /\ LogsIn(c) => creds
  /\ IF wexg = "bybit" /\ Sub(keys, c) = {} THEN ReconnectKeyless(c)
     ELSE IF LogsIn(c) THEN Relogin(c)
     ELSE Resubscribe(c)
  /\ UNCHANGED <<env, keys, up, refs, limits, algo, call, held, loose, calls>>

\* bitget logs in also for the public data of contracts: without API keys the
\* reconnection fails, the connection ends and handleWsClientClosed closes the
\* channels of the client.  The keys stay under the id of that connection,
\* which no other will have.
End(c) ==
  /\ c \in up /\ LogsIn(c) /\ ~creds
  /\ up' = up \ {c}
  /\ sends' = Minus(sends, c) /\ keys' = Minus(keys, c)
  /\ refs' = {r \in refs : r[1][1] # c}
  /\ held' = {w \in held : StreamOf(w).client # c}
  /\ loose' = Minus(loose, c)
  /\ UNCHANGED <<env, limits, auth, algo, call, calls>>

\* The answer to that login, and restorePendingSubscriptions.
Answered(c, ks) ==
  /\ c \in relog
  /\ keys' = keys \cup Pairs(c, ks)
  /\ loose' = loose \cup (Pairs(c, ks) \ keys)
  /\ sends' = sends \cup Pairs(c, Granted(c, {TopicOf(k) : k \in ks} \cup Sub(queue, c),
                                            logged \cup {c}))
  /\ authed' = authed \cup {c} /\ logged' = logged \cup {c}
  /\ relog' = relog \ {c} /\ queue' = Minus(queue, c)
  /\ UNCHANGED <<env, up, refs, limits, algo, call, held, calls>>

Restore(c) == Answered(c, Sub(back, c)) /\ back' = Minus(back, c)

-------------------------------------------------------------------------------
\* A call names some instruments, or one account.
Calls == {{<<w[1], i, w[3]>> : i \in is} : w \in PublicWishes, is \in SUBSET Insts \ {{}}}
         \cup {{w} : w \in AccountWishes}

WatchNext ==
  \/ \E p \in Callers : \/ \E ws \in Calls : Call(p, ws)
                        \/ Login(p) \/ Subscribe(p) \/ AskAlgo(p) \/ Open(p)
  \/ \E ws \in SUBSET (held \cap PublicWishes) : UnWatch(ws)
  \/ \E c \in up : ReconnectWs(c) \/ End(c)
  \/ \E c \in relog : Restore(c)

WatchSpec == WatchInit /\ [][WatchNext]_watchVars

-------------------------------------------------------------------------------
\* The exchange does not know the client any more and the code thinks it does:
\* bybit after a reconnection without keys, okx after one of a business client.
StaleAuth(c) == c \in authed /\ c \notin logged

\* What this code does not bring to the application, each for a reason of its
\* own: okx forgets that ANY is a type, has no leverage in the data it takes
\* the configuration from, bybit gives up the trades of all options of a base
\* coin with those of one, bitget opens a channel behind the end of its
\* connection.
Unfed(w) ==
  \/ wexg = "okx" /\ w[1] = "positions" /\ w[3] = "ANY"
  \/ wexg = "okx" /\ w[1] = "config"
       /\ \A v \in held : ~(v[1] = "positions" /\ v[2] = w[2] /\ v[3] # "ANY")
  \/ wexg = "bybit" /\ mkt = "option" /\ w[1] = "trades"
  \/ wexg = "bitget" /\ mkt # "spot" /\ ~creds

\* The topic that brings what w asks for: of okx the configuration comes with
\* the positions.
Source(w) == IF wexg = "okx" /\ w[1] = "config" THEN Okx!Positions(w[2], "SWAP").topic
             ELSE StreamOf(w).topic

Reaches(w) ==
  LET s == StreamOf(w) IN
  /\ <<s.client, Source(w)>> \in sends
  /\ <<s.client, s.chan>> \in Route(s.client, Source(w))
  /\ \E r \in refs : r[1] = <<s.client, s.chan>>

\* What the application watches comes: the exchange sends its topic, the
\* handler of the topic names the channel, the channel is open; for the trades
\* of an okx account the exchange sends the algo orders as well.  It stays so
\* over every reconnection and over what is given up beside it.
Fed ==
  /\ \A w \in held :
       LET c == StreamOf(w).client IN c \in relog \/ StaleAuth(c) \/ Unfed(w) \/ Reaches(w)
  /\ \A w \in held : wexg = "okx" /\ w[1] = "mytrades" =>
       LET s == Okx!AlgoOrders(w[2], w[3])
       IN  StaleAuth(s.client) \/ <<s.client, s.topic>> \in sends

\* The keys of a client are those of what is watched or about to be: nothing
\* that was given up comes back with the next reconnection.  Known to stay are
\* order books that were given up without naming their limit, and on bitget
\* what is given up while a reconnection logs in.  On bybit an UnWatch call undoes
\* its Watch call altogether: the exchange sends and the channels carry only what
\* somebody wants.
KeysHeld ==
  /\ \A x \in keys : \/ \E w \in Wanted : x[1] = StreamOf(w).client /\ x[2] \in KeysOf(w)
                     \/ wexg = "okx" /\ x[2][1][1] = "orders-algo"
                     \/ x \in loose
  /\ \A x \in loose : CASE wexg = "okx"     -> x[2][1][1] = "books5"
                        [] wexg = "binance" -> x[2][2] = "depth"
                        [] wexg = "bitget"  -> x[1][1] = "mix"
                        [] wexg = "bybit"   -> FALSE
  /\ wexg = "bybit" =>
       /\ \A x \in sends : \E w \in Wanted : x = <<StreamOf(w).client, StreamOf(w).topic>>
       /\ \A r \in refs : \E w \in Wanted :
            LET s == StreamOf(w) IN r = <<<<s.client, s.chan>>, s.ref>>
===============================================================================
