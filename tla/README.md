# banexg in TLA+

banexg is a Go library that gives trading programs one interface to several crypto
exchanges (binance, okx, bybit, bitget) and to Chinese futures: markets, REST
requests, orders and accounts, and WebSocket subscriptions whose messages arrive on Go
channels. This directory holds TLA+ models of it, the TLC runs that check them on small
instances, and TLAPS proofs about them. Every definition is translated from the Go
source; `PROJECT.json` gives, for each of them, the lines it stands for.

## The system

### Components

| Component | Source | State it keeps | Operations | Here |
|---|---|---|---|---|
| Channels of the Watch calls | `websocket.go` 349-472, `biz.go` Close | `WsOutChans`, `WsChanRefs`, `lockOutChan`, `lockWsRef` | GetWsOutChan, AddWsChanRefs, DelWsChanRefs, WriteOutChan, handleWsClientClosed, Close | `OutChans`, `ChanPromise`, `OutChansProofs` |
| WebSocket connection | `websocket.go` 60-260, 572-704 | `WebSocket.conn`, `lock`; `AsyncConn.send`, `control` | ReadMsg, ReConnect, Close, Write, the read and write goroutines | `WsConn`, `WsConnProofs` |
| Subscription table | `websocket.go` 307-347, 502-570, 750-886, `binance/biz.go` 890-964, 1300-1352 | `SubscribeKeys`, `SubsKeyStamps`, `conns`, `connSubs`, `NextConnId` | UpdateSubs, newConn, WriteWSMsg, GetClient, OnReConn, CheckWsTimeout, ReSubsAll | `WsSubs`, `WsSubsProofs` |
| WebSocket authentication | `okx/ws_biz.go`, `bybit/ws_client.go` | `WsAuthed`, `WsAuthDone`, `WsPendingRecons` | wsLogin, the handlers of its answer, OnReConn | `WsAuth`, `WsAuthProofs` |
| Streams of the adapters | `okx/ws_biz.go`, `bybit/ws_*.go`, `bitget/ws_biz.go`, `binance/ws_biz.go`, `ws_order.go` | the keys, topics, channels and references of a client, `OdBookLimits`, `WsMyTradesChanKey` | every Watch and UnWatch call, the routing of messages, OnWsReCon | `Streams` with `OkxStreams`, `BybitStreams`, `BitgetStreams`, `BinanceStreams`, `FeedsProofs` |
| Order books of binance | `binance/ws_order.go` 320-540, `common.go` 102-134, 289-314 | `OrderBook` (Nonce, Cache, sides), `OdBookLock` | handleOrderBook, refresh, applyOdBookSnapshot | `OrderBookSync`, `FeedsProofs` |
| Order books of okx, bybit, bitget | `okx/ws_biz.go`, `bybit/ws_biz.go`, `bitget/ws_biz.go` | `OrderBooks` | applyWsOrderBookUpdate, applyBybitWsOrderBook | `DepthBook`, `FeedsProofs` |
| Order book algorithms | `common.go` 131-290 | a side: prices and sizes | OdBookSide.Set, Update, SumVolTo, AvgPrice | `DepthBook` |
| REST requests | `biz.go` 1184-1420, `common.go` 439-471, `utils/file.go` 78-105 | host slots, Retry-After waits, rate limiter, `Entry.Url`, cache files | RequestApi, RequestApiRetryAdv | `ApiRequest`, `ApiRequestProofs` |
| Markets and currencies | `biz.go` 240-521, 1478-1500, 1736 | `MarketsWait`, the package's market cache, `MarketType` | LoadMarkets, doLoadMarkets, Close, GetArgsMarket | `MarketLoader`, `CachesProofs`, `Orders` |
| Orders | `okx/biz_order*.go`, `bybit/biz_order.go`, `binance/biz_order*.go` | none of the library; the orders of the exchange | CreateOrder, CancelOrder, EditOrder, FetchOrder, FetchOpenOrders, with the retries below them | `Orders` with `OkxOrders`, `BybitOrders`, `BinanceOrders`, `OrdersProofs` |
| Histories | `bybit/biz_order.go`, `bybit/common_util.go`, `okx/biz_account_history.go`, `binance/biz.go`, `binance/biz_order.go` | the cursor and the windows of a call | FetchOrders, FetchMyTrades, FetchIncomeHistory, funding rates | `History` |
| Leverage and brackets | `*/biz_leverage.go`, `binance/biz.go` 695-845, handlers | `acc.Leverages`, `LeverageBrackets` | SetLeverage, GetLeverage, LoadLeverageBrackets, InitLeverageBrackets, CalcMaintMargin, the messages | `Leverage`, `CachesProofs` |
| Balances and positions | `*/biz_balance.go`, handlers | `acc.MarBalances`, `acc.MarPositions` | WatchBalance, WatchPositions, the messages | `Holdings`, `CachesProofs` |
| Dump and replay | `biz.go` 896-1060 | dump file and buffer, replay queue | SetDump, SetReplay, ReplayOne, ReplayAll | not modelled |
| Rest of the REST adapters, numbers, time frames, JSON, crypto, registry, China futures, errors, logging | `*/`, `utils/`, `china/`, `errs/`, `log/` | static tables | field mapping, formatting, construction | not modelled |

### How they interact

    application ── Watch*/UnWatch* ──> Streams ──> WsSubs ── requests ──> WsConn ──> exchange
         │  ^                             ^ WsAuth   ^ OnReConn, CheckWsTimeout │
         │  └── <-chan ── OutChans <── read goroutines (handlers) <─────────────┘
         │                                ├── depth events ──> OrderBookSync, DepthBook
         │                                └── account events ─> Holdings, Leverage
         ├── CreateOrder ... ──> Orders ──────┐                     │ snapshots
         ├── FetchOrders ... ──> History ─────┼──> ApiRequest <─────┘
         └── LoadMarkets ──> MarketLoader ────┘

A Watch call loads the markets (MarketLoader, through ApiRequest), gets a client and
subscribes keys on one of its connections (WsSubs), and returns a channel (OutChans).
Which client, key, topic and channel these are is the adapter's (Streams). Private
streams log in on their connection first (WsAuth). Each connection has a read and a write
goroutine (WsConn). The reader reconnects by itself and calls OnReConn, which subscribes
the connection's keys again (WsSubs), after a new login on a private connection (WsAuth).
Its handlers write what arrives to the channels (OutChans), depth events to the local books first
(OrderBookSync, DepthBook), and the events of an account to what is cached of it
(Holdings, Leverage), which calls also fetch by REST (ApiRequest). A client that
lost its last connection, and Exchange.Close, close all channels (OutChans).

### What is hard

Most of it runs in goroutines the application, a connection, a timer or another
goroutine started. The code shares state under small, separate locks, and often under none:

* references and channels live under two locks, so a Watch, an UnWatch, a lost client and
  a Close of the same channel interleave between lookup, store, count and close;
* WriteOutChan keeps the registry's lock while it pops from and pushes to a channel the
  application drains, and a Watch call may fill, at the same time;
* the reader, the writer, the watchdog and the application all replace, close or use
  `ws.conn`, and the reader holds `ws.lock` for as long as no message comes;
* UpdateSubs decides under one lock and acts under another; two connections may be dialled at once;
* one caller logs in for all, and the answer arrives on the read goroutine: it may be late,
  for a connection that is gone, or for the login that the reader sent after a reconnection;
* a topic is turned into a key, a request, a channel and a reference at four places of each
  adapter, and back at two; what one of them forgets is lost at the next reconnection;
* a book is changed by the read goroutine without the lock its snapshots take;
* requests of one endpoint share an Entry that some of them write;
* `MarketsWait` and `MarketType` are written by anyone, without a lock;
* a request that was given up may have been executed: the retry does it again, and an order's id
  says where it lives only if every adapter keeps the prefix;
* a balance, a position or a leverage is written by the answer to a call and by messages,
  whichever is stored last, and partly as a difference.

`PROJECT.json` "hazards" lists these at their lines, with the properties that cover them,
or the reason why none does.

## The modules

All modules are state machines with one action per critical section, per blocking
operation or per unlocked access of shared memory; an action is named after the function
and the place in it. `None` stands for nil. `MC*` modules only add symmetry sets and
constant definitions for TLC. Ghost variables are named in the modules as such. An operator
whose comment begins with "Fault:" is a wrong form of the definition beside it: no
specification uses it, it is there to see that the properties notice.

### OutChans and ChanPromise

`OutChans`: `WsOutChans` maps a key to its channel, `WsChanRefs` to the identity of its inner
map, and `refs` gives the symbols in that map, so that a goroutine that fetched an inner map keeps it when
another one replaces it. A Go channel is an identity, its content `buf`, its state
`made`/`closed`. GetWsOutChan is `GetLookup` and `GetStore`, AddWsChanRefs `AddLookup` and
`AddKeys` (the map is fetched under the lock and filled without it), DelWsChanRefs
`DelLookup`, `DelKeys`, `DelLen` and `DelClose`, WriteOutChan `WriteTry`, `WritePop` and
`WritePush`, handleWsClientClosed `ClosedStart` to `ClosedEnd`. `lockOutChan` is a
variable because WriteOutChan holds it over two operations that may block; all other
sections are one step. `DirectSend` is the first value WatchBalance and WatchPositions
put into their channel themselves, without the lock.

`ChanPromise` is what the receiver of a channel relies on: a channel is made once, filled in
order, never past its capacity and only while open, and closed at most once. `OutChans`
implements it: `open <- made \ closed, shut <- closed, box <- buf`. TLC checks it
(`KeepsPromise`), and `OutChansProofs` proves it.

### WsConn

One AsyncConn: the position of the reader (`ReadMsg`, its reconnect loop, the calls of
OnReConn and the end of `read`), of the writer (`write`, its deferred cleanup with
`Close` of the socket), of the watchdog (`ReConnect`: close under the lock, dial without
it) and of the application (subscribe, close). `ws.lock` is an RWMutex: a writer that
waits keeps new readers out, as in Go. `send` and `control` are bounded channels. A
connection is an identity with the state the network gives it (`link`), the
subscriptions the exchange has on it (`subs`), and whether a close frame went out (`bye`).

### WsSubs

One WsClient with all its connections: `SubscribeKeys`, the key's connection id, `conns`, `connSubs`,
`NextConnId`; each caller, reader and the watchdog runs WriteWSMsg, whose steps are `Find`, `Pick`,
`NewConn`, `DialOk`/`DialFail`, `AddConn`, `AnyConn`, `Update` and `Write` for one batch of keys. Two
dials at once may take one id: the model keeps what the code does (conditions on OwnId, and
`rand.Intn(0)` panics, which the model represents). `NextConnId += 1` is one step. Of a single
connection the module has what decides whether lost keys come back: `ws.lock`, which the reader holds
for reading in ReadMessage (`Reading`) and for writing while it reconnects (`Locked`), and the
connection that is nil or lost (`alive`, pc `lost`) while its goroutines go on. A loss is `Lose`, then
`Reconnect` or `ReconnectFail`; the watchdog's ReSubsAll is `DogReConnect`, `DogClose`, which waits for
the lock, and `DogDialOk` or `DogDialFail`, without it; a reader that meets a nil connection stops
(`ReaderStops`), and the writer's cleanup, whose Close waits as well, is `RemoveConn`. Who waits to
close a connection keeps new readers out (`Closing`), and gets the lock when a message arrives
(`LetsGo`). Left out: `send` and `control`, a write failure that ends a writer (both in WsConn), and the
detector of `go-deadlock`, the external package whose RWMutex `ws.lock` is: by default it ends the
program when a lock was waited for 30 seconds. UnWatch follows the code: it drops the keys and tells the
exchange nothing, because UpdateSubs returns no connection for it (`websocket.go:753`); nothing in the
repository says that it should, so no run calls it an error.

### WsAuth

Login on the private connection of one client of okx or bybit; `bybit` chooses which, in
the initial state. `authed`, `done` and `pending` are the client's entries in `WsAuthed`,
`WsAuthDone` and `WsPendingRecons`, all under `WsAuthLock`: a section is one step. A
channel is an identity with its content `box`. A Watch call is `Ask` (logged in, wait, or
register a channel), then `Send`/`SendFail`, `Receive`, `Mark`, or `Timeout` and `Forget`;
one that waits for the login of another is `WaitReceive` and `PutBack`, or `WaitTimeout`;
`Subscribe` is the subscription it came for. `Clean` is okx's delayed delete of the
channel. The read goroutine is `HandleLogin`, `HandleError` (okx takes the error of a
subscription for that of a login), `ReConn` and `ReLogin` (the section of OnReConn and the
write after it); `Restore` is restorePendingSubscriptions. The exchange (`Serve`) and the
network (`Lose`) are external: requests and answers are queues; a lost connection takes
the answers under way with it, and perhaps the request that was being written, and the
out queue outlives it as in WsConn. Ghosts: `refused` (something was refused or lost on
this connection), `stale` (WsAuthed was set or kept for a connection that is gone) and
`cut` (channels somebody else's delete took away) name the cases the code does not
exclude; see "Observed" under Findings. Left out: more than one connection per client, a
failed write in OnReConn, and bitget, whose login only its OnReConn uses (a step of `Streams`).

### Streams

What becomes of a Watch call between the application and the channel. A *wish* is a kind
of data, an instrument or an account, and an argument. `OkxStreams`, `BybitStreams`,
`BitgetStreams` and `BinanceStreams` are the tables of the adapters: for each wish the
client, the topic asked for, the channel and the reference that keeps it open, and for
each topic that arrives the channels its handler writes to (`Route`), which the code says
in another place. `Streams` is the machine over them. Its variables are the client's
`SubscribeKeys` (`keys`), `WsChanRefs` (`refs`), `OdBookLimits` (`limits`), `WsAuthed`,
`WsPendingRecons` (`back`) and okx's `WsMyTradesChanKey` (`algo`), and what the exchange
does: the topics it sends and the clients it has logged in. A Watch call is `Call`,
`Login`, `Subscribe`, on okx `AskAlgo`, and `Open`; UnWatch is one step; a reconnection is
`ReconnectWs`, with `End` or `Restore` after it. A key is what UpdateSubs keeps; okx turns it back
into a topic (parseWsKey), and only that comes back after a reconnection. The channels,
the connections and the login are single steps here: `OutChans`, `WsConn`, `WsSubs` and
`WsAuth` show what these steps assume. What this code is known not to bring is `Unfed`, one
disjunct per reason. Left out: several connections of a client, and the
listenKey of binance, which is there or not.

### OrderBookSync

The exchange numbers its changes; odd ones are to bids and even ones to asks, and a change
carries an absolute quantity, so a side is the number of the last change applied to it,
and a book is right when both sides equal the exchange's at the book's nonce. An event
covers the changes `U..u` and names its predecessor `pu`. `contract` chooses the rule by
which an event joins the book (futures: `pu`; spot: `U`). handleOrderBook is `Take` (under OdBookLock), then
`ReadNonce`, `AppendCache`/`StoreCache` or `ApplyAsks`, `ApplyBids`, `ApplyNonce`, none of
them locked. A refresh goroutine is `FetchOk`/`FetchFail`, `LockBook`, `UpdateHead`,
`UpdateSides`, the `Replay*` steps and `UnlockBook`. Left out: truncation to the depth
limit, the branch for depths of at most 20 levels (each message is the whole book), and
replay from a dump.

### DepthBook

One side of a book that is kept from one stream: a snapshot, then the levels that change.
The exchange has a size at each price and sends the best `Window` levels of it. `Set`,
`Update`, `SumVolTo` and `AvgPrice` are the functions of OdBookSide on sequences of
levels. `Apply` is applyWsOrderBookUpdate (okx; bitget's is the same) or
applyBybitWsOrderBook; they differ in the depth a new book is cut to. `Reconnect` loses
what is under way and sends a snapshot. `seen` is the exchange's side as of the last
message handled, so a property compares the book with it and not with the messages. The
rate of SumVolTo and the average price are fractions, kept as pairs. `Feeds` puts `Streams`,
`OrderBookSync` and `DepthBook` beside each other; their initial states are disjoint, so a
behaviour is one of the three.

### ApiRequest

Calls of RequestApiRetryAdv for one endpoint. The shared parts are the Entry's `Url` and `RawHost`, the
slots of each host (how many values its channel holds), the recorded Retry-After (`ban`), the rate
limiter with its lock, `NetDisable` and the cache files. Time is what is left of each wait, and `Tick`
takes one unit off all of them. The random time the code adds to its waits only makes a goroutine later,
as the scheduler may anyway, and is left out. A cache file is created empty and filled in a second step
(`CreateFile`, `StoreFile`), and cannot be read between them.

### MarketLoader

Objects of one exchange name with their own `MarketsWait`, `Markets` and `CurrenciesByCode`, and the
cache they share. A market table is named after the fetch it came from; a currency by its code and the
fetch it came from. A fetch brings the codes `Brings` gives it: those FetchCurrencies lists, or where
that is not supported (`currApi`: okx, bybit, bitget) the base codes of its markets, which setCurrencies
then derives and writes over those the object has (`Derived`). LoadMarkets is `Begin`, `CheckWait`,
`Make`, `EvalWait`, `Deliver` or `ReceiveClosed`, `Clear`; its goroutine `LookInCache`, `LockCache`,
`FetchOk`/`FetchFail`, `Store`, `SetMarkets`, `SetCurrencies`, `EvalSend`. A channel is named after the
goroutine it was made for. A send on a channel that Close has closed ends the loader (`crashed`). The
cache's age check is the code's: `getMarketsCache` serves what is *older* than the expiry
(`biz.go:461`), so the second look after the lock never hits. `Hung` is a call that nobody will answer.
Other content of markets and currencies is not modelled.

### Orders, OkxOrders, BybitOrders, BinanceOrders

`OkxOrders`, `BybitOrders` and `BinanceOrders` say what CreateOrder makes of its arguments: the endpoint
(the *space* in which an id is unique), the condition an order waits for, how it is executed, whether as
a maker only; where a request about an order goes, and what an order is shown as. `Orders` is the
machine: a call is `Create`, `Edit`, `Request` or `List`; with a market argument `Swap`, `Look` and
`Restore` (GetArgsMarket, each an unlocked access of `MarketType`); then `Send` and, when no answer
came, `TimeOut`, as often as GetRetryNum allows. A request is in `flight` until the exchange executes
it, also after it was given up; one that is never executed is lost. An id is an order and whether it has
the prefix "algo:"; `known` is the ids a caller was given, by any answer of any call, and `Prefixed`
says of each adapter's answers whether they put the prefix before the id of a conditional order. The
exchange (`Execute`, `End`) is external: it refuses a client id that an open order has, numbers the
orders of a space, and cancels what is in reach of a request. Left out: requests by a client id or with
the argument algoOrder, option and inverse markets, closePosition, amounts in quote currency, several
orders in one call.

### History

One call that reads a history. `kind` says whose: the windows and pages of bybit, the bills of okx by
their ids, the rates of okx and binance by their times, the windows of binance. `Start` clips the first
window, `GetPage` is one request and what the loop makes of its answer, `Arrive` adds a row at the
exchange meanwhile, `Fail` is a failed request. Times are small numbers. `Upto` is how far the arguments
ask, `Until` the variable of the code, which is another thing in the calls that are `Curtailed`. How far
back an exchange answers at all is left out. `Trades` puts `Orders` and `History` beside each other, as
`Feeds` does.

### Leverage

`acc.Leverages` and `LeverageBrackets` of one exchange object. A call is asked in one step, answered in
another and stored in a third; the messages of an account come in order. `n` counts the changes of a
leverage, so the ghosts can say that an older value was stored over a newer one (`crossed`); `had` is
all an account ever had of a pair. `borrowed` and `hidden` name two things the code of okx and bybit
does (see "Observed"). Rows, `MaxLev` and `Margin` are the loops of GetLeverage and CalcMaintMargin over
the tiers.

### Holdings

`acc.MarBalances` and `acc.MarPositions` of one account while WatchBalance or WatchPositions runs: the
exchange's positions and balances (`xpos`, `xbal`), the messages on their way, the request (`Ask`,
`AnswerBalance`, `AnswerPositions`, `StoreSnap`) and the handlers. Those of binance read under a lock
and write later (`ReadHeld`, `WriteHeld`); those of okx and bybit replace what there is. `fresh` says
whether answer and messages were stored over each other. Margins, prices and risk of a position are left
out. `Caches` puts `MarketLoader`, `Leverage` and `Holdings` beside each other.

## The runs

| Run | Instance | Checks |
|---|---|---|
| `outchans_safety` | 2 users, 2 readers, 1 key, 2 symbols, 2 channels of capacity 2, 2 messages and the value a Watch sends itself, 1 lost client | no registered channel is closed (`RegisteredOpen`), none is leaked (`RegisteredInUse`), WriteOutChan's send cannot meet a closed channel, messages stay in order, and `ChanPromise` is implemented |
| `outchans_returns` | 1 user, 2 readers, capacity 1, fair | every call returns, unless a WriteOutChan that popped for a full channel finds it drained, or refilled by a first value |
| `wsconn_resume` | 2 batches, 3 connections, watchdog | nobody closes the connection the reader is blocked on; at rest, the exchange has every subscription on the connection in use |
| `wsconn_ends` | 1 batch, 2 connections, 1 place in `send`, watchdog, application closes, fair | a reconnecting reader leaves its critical section unless it is stuck at a full `send` (`ReconnectReturns`); the writer ends after the reader and removes the connection; the watchdog's ReConnect returns unless the connection stays silent for ever or a full `send` holds it |
| `wsconn_loss` | 1 batch, 2 connections, fair | violated: the subscriptions come back (see Findings) |
| `wssubs_keys` | 1 caller, 3 connections of which 2 may be open, 2 keys in batches of 1, 1 fault, fair | the counters and ids are right, open connections carry their keys, and lost or silent keys are brought back, unless the watchdog is stuck in a Close (`Healed`) |
| `wsauth_login` | 2 callers, 3 channels, 2 keys, 3 calls, 2 losses, 1 refusal, okx and bybit | one answer per channel (`OneAnswer`), an answer for the caller that logs in (`OwnerAnswerable`), WsAuthed only on a connection that is logged in, and every key back after a reconnection (`KeysRestored`) |
| `feeds_kept` | streams: 4 exchanges, 3 markets, 2 instruments, 2 accounts, 1 time frame, limits 0, 5 and 100, 2 callers, 2 Watch calls; binance's book: 2 refreshes, 6 changes in events of at most 2, 1 loss, 1 failed request, fair; the others': 4 prices, sizes to 2, a window of 2, 1 message under way | what is watched comes (`Fed`), what is given up stays away (`KeysHeld`); a book is the exchange's at its nonce (`BookMatchesServer`), has every handled event (`CaughtUp`) and gets out of waiting for a snapshot (`Recovers`); a side is the exchange's (`SideTrue`), and so is what is computed from it (`VolumesTrue`) |
| `api_slots` | 3 requests, 1 host, 2 slots, 2 keys, 1 retry, waits of 1 and 2 | slots given back and bounded, bans, answers that match their questions |
| `caches_kept` | markets: 2 objects, 2 callers, 3 loads that bring other codes of 2, 3 calls, 1 minute, with and without FetchCurrencies; leverage: 2 accounts, 2 symbols, 2 leverages, 2 changes, 2 calls of 2 callers; holdings: 2 contracts, 2 currencies, size 1, 3 events, 2 fetches | the currency of its fetch for every code of a market table (`CurrenciesOfMarkets`), an answer for a load nobody overlaps (`LoneLoadServed`); the leverage in force (`LeverageInForce`), shown (`ConfigShown`), by the right tier (`TierServed`); balances and positions the exchange has (`HoldingsTrue`) |
| `trades_calls` | orders: 1 caller, 3 calls, 3 kinds of order, 3 exchanges, 2 orders, 2 requests under way; histories: windows of at most 3, rates every 2, pages of 2, times to 5, 4 rows; fair | a request by a whole id acts on the order it names (`Reached`), a retried order is open once (`OncePlaced`), an order is what was asked (`AsAsked`); a history is complete, with no row twice (`Complete`), and ends (`Ends`) |
| `trades_market` | 2 callers, 1 call each | violated: an order goes to the market its caller means (see Findings) |

A run of a module that puts others beside each other starts in a state of one of them, so
it is as large as the sum of its parts, not as their product.

### Why the bounds are enough

The hazards are races of two or three goroutines over one shared object, so each run has one such object
and at least two goroutines of each kind that touch it, and each counter is bounded just above where its
interesting case happens: a channel of capacity 2 gets full and is popped with a Watch's own value and 2
messages; one place in `send` is filled by the application's subscription or by the first message of a
resubscription, so the next one of the reader or of the watchdog meets it full, while the writer waits
for the lock; a connection is lost twice with 3 identities; 3 identities under a limit of 2 connections
reach the limit and still allow a dial, and 1 fault is followed by as many
dials and refusals as the watchdog and the reader try; 6 changes
give a snapshot in the middle, events before and after it, and a gap; 3 requests for 2 slots make one
wait, and one retry makes it wait twice; 3 Watch calls of 2 goroutines give one that logs in, one that
waits for it and one that finds the login done or gone, and the second of 2 losses falls into the login
after the first. Two Watch calls give every pair of streams of one client, one of which is given up
while the other must go on; the limits 5 and 100 are of different topics or depths on each exchange.
Four prices and a window of two give a level that leaves the window and comes back. Two orders are the
least number two ids can be confused of, two requests under way a retry that overtakes what it repeats,
and three calls make, change and ask for an order, the last of them by an id the second was told.
Fetches that bring both codes or one of them leave a currency of an earlier one behind. Histories of
four rows and pages of two have a full page, a part of one and an empty one, and ranges of five with
windows of two, three and four have bounds on and between rows. Two changes of a leverage are an older
answer and a newer message. All leverages are alike, so every symbol begins with the same one
(`FirstLev`). Three events in an account open, change and close, or put one message before an answer and
one behind it.

Each bound is a CONSTANT and a conjunct of a guard. Symmetry is used in safety runs only; the connections
of `WsSubs`, which are alike until they are made, are made in one order (`NextObj`).
Deadlock checking is off because the application may stop calling at any time and because the
identities run out.

### Fairness

* OutChans: strong fairness for each goroutine inside a call, since `sync.Mutex` hands
  the lock to a goroutine that waited a millisecond. Nothing obliges the application to
  receive or to call.
* WsConn: strong fairness for each of the four goroutines (a waiter of an RWMutex is not
  overtaken for ever), weak for the exchange's answer to a close frame. The network need
  neither lose nor keep a connection, and no message has to arrive.
* WsSubs: strong fairness for each connection's reader and writer (a waiter of an RWMutex is not overtaken for
  ever), weak for the watchdog, whose timer fires again and again; strong for its dial, which is
  repeated and succeeds at last. Who waits in Close for a reader gets the lock when the exchange sends
  keys on the connection; on a silent one, or one without keys, nothing obliges it to send.
* Feeds: weak fairness for binance's read goroutine and the refreshes; the exchange
  need not send anything. Trades: weak fairness for the goroutine that reads a history, which nothing blocks.
* Everything else: none, the properties are safety.

## The proofs

Each proof is about all values of the constants that the module's own assumption allows: that bounds are
numbers, that the exchanges are those of the library, that `None`, which stands for nil, is none of the
things it could be taken for, and that no instrument of okx has the name of a type of instruments
("BTC-USDT-SWAP" is not "SWAP"), since parseWsKey tells them apart by that. Three more assumptions,
`Undisturbed` and `Sensibly` of `OrdersProofs` and `InSteps` of `CachesProofs`, are made where the
theorems state them; the instance of `MCCaches` satisfies the last (`TiersInSteps`). TLC checked each
strengthened invariant on the instances of the runs before it was proved.

`OutChansProofs`, for any numbers of users, readers, keys, symbols and channels
and any capacity: `TypeOK`, `RegisteredOpen`, `WriterHoldsOpenChan`, `BufferInOrder`,
`RegisteredInUse` and `KeepsPromise`. `RegisteredOpen` alone is not inductive: a goroutine
between GetWsOutChan's two sections carries a channel it is about to register, so
`StoreFresh` says that this channel is open and unknown to everybody else, `MadeChans`
that every channel anybody holds was made, and `ChansDistinct` that two keys never share
one. `WriterHoldsOpenChan` needs that nobody closes a registered channel without
`lockOutChan`. `BufferInOrder` needs `WriterNewest`: the message a writer is about to push
is newer than what is in the channel, because messages are numbered on arrival and the lock is
kept until the push. `RegisteredInUse` needs `MapsOwned` (an inner map belongs to one
key) and `Tracked`: a registered channel has references, or some call is on its way that
will give it one or close it. The last is the delicate part, because references and
channels are under two locks; it fails as soon as one section is split or reordered. The
refinement is proved from `IInv`: every step is a `Make`, `Push`, `Take` or `Shut` of
`ChanPromise`, or leaves its variables alone.

`WsConnProofs`, for any batches, connections and capacities: `NoCloseUnderRead` and `Resumed`. The
reader waits with `ws.lock` held for reading (`ReaderLocked`), and `ws.conn` never names a closed
connection (`ConnUsable`); so Close, which waits for the readers of the lock, never meets it.
`Resumed` speaks of a connection at rest; what leads there is `Resuming`: on an open connection a wanted batch
is with the exchange or still coming, and it comes from one of four places (the `send` queue, the batch in the
writer's hand, the message a goroutine is pushing, what a resubscription has still to do). A loss moves all
of them to the reader or the watchdog that dials, unless the writer has gone, which is what `wsconn_loss` shows.

`WsSubsProofs`, for any callers, objects, keys, batches, faults and calls: `SubsCounted` and
`LiveSubscribed`. The first is lemma `CountsRight`, that giving a batch to one connection moves the
right numbers between the counters (from the library's facts on cardinality), and `IdsGiven`: an id is
handed out below `NextConnId`, which only grows, so the one addConn gives to an object whose id is taken
is new. The second needs `Settled`: what a connection that is open, heard and still has its writer owes
is with the exchange or some goroutine is about to write it there (`Writing`), on its way from the keys
OnReConn read, over the choice of the connection by its id, to the message. A goroutine that looks for
any connection is no such promise, since it may find none. `InHand` and `OfEntered` are why a new
connection owes nothing: a key has the id of an object that was entered in `conns` before, and an object
is entered by one goroutine only.

`WsAuthProofs`, for any numbers of callers, channels, keys, calls, losses and refusals: `TypeOK`,
`OneAnswer`, `AuthedIsLoggedIn`, `KeysRestored` and `OwnerAnswerable`. A channel takes ten answers in
the code and the handler sends with `WsAuthLock` held, so a full one would stop every login; `OneAnswer`
says that one place would do. `Fresh` adds that a channel in `WsAuthDone` has had no answer and nobody
holds one of its answers, which is why the handler may send one, and that a channel that is not made is
nobody's. `AuthedIsLoggedIn` needs that a yes on its way is of a connection that is logged in
(`YesIsTrue`). `KeysRestored` needs `KeysCovered`: a key the exchange does not have is with a caller, in
the out queue, or pending behind a login that is still going to be answered. `OwnerAnswerable` needs
`Owned`, which follows the channel of a login from its caller to the handler and back, past those that
wait, put back or delete.

`FeedsProofs` is about the parts of `Feeds`. Of binance's book, for any number of events, refreshes,
losses and failures: `BookMatchesServer` and `CaughtUp`. Events rise and each goes on where the last
ended (`EventsRise`), so an event that joins a book at its nonce brings each side to where the
exchange's is (lemma `Advance`, with what a side of the exchange's book is at a change). `LoopTrue` and
`SnapTrue` say what the sides are between the writes of handleOrderBook and of applyOdBookSnapshot,
which is only true of both because, without an overlap, no message is handled while the lock is held
(`Alone`). For `CaughtUp`, `Ordered` lists the five states a book can be in: nothing came yet, messages
wait for a snapshot, the snapshot was given up, the cache is being replayed, the book follows. The cache
is an unbroken run of the last messages (`Run`) in the second, so what is replayed ends with the last
message handled. Of the streams, for any instruments, accounts, frames, limits, callers and calls on the
four exchanges: `KeysHeld` and `Fed`. For the first, `KeysSound`, `LooseSound` and `BybitSound` are its
parts, with what calls have asked for in place of what they are going to; they need that the wishes of a
call are of one kind and client and clash with no other call's (`CallsSound`), that what waits behind a
login is of a client that logs in, and on okx and bybit still among the keys (`LoginsSound`), and that
bybit remembers the depth of every book it has (`DepthsKnown`), which is why a new depth takes the old
topic away. `Fed` is the opposite of it: what is watched has its key, its topic and its reference to the
channel. Its invariant is `FedSound`. A wish that is held is `Served` (`WishesServed`): its key is kept
and its topic is with the exchange, or waits behind a login that its client still makes, or the exchange
has forgotten the client and a reconnection is to come. `RoundTrip` is why the reconnection brings it
back: what parseWsKey reads from a key is what the key was made of. `NamedByWish`, `SameTopic` and
`SameRef` say that what an UnWatch call names is of its own wishes only, so it takes nothing from what
is still watched.

Of the books of okx, bybit and bitget, `FeedsProofs` proves `SideTrue`, for any prices, sizes, window
and number of messages under way. `SideTrue` says nothing of the messages, so `NetTrue` goes with it:
each message under way leads from what the one before told to what it tells (`Carries`), naming every
level that has changed and each as it is now; the last has told the side the exchange has; and a book
that is not there yet waits for a snapshot. What a message does to a side is a fold over its levels:
`FoldSteps` gives the side after each of them, `SetIs` what one Set does to it (the search, the place,
the order of the rest), and `FoldIs` that the levels told of are as told and the others as they were.
The levels are a set the exchange lists in any order (`Listed`). A cut takes nothing as long as the side
holds no more levels than its depth, since it has no price twice (`NoMoreLevels`).

`VolumesTrue` is about what SumVolTo and AvgPrice compute from such a side. A total, which the community
modules define by taking the largest index out of a set of them, is a running sum over the levels
(`TotalSums`, from the existence of such sums, `AddsExist`), which never falls (`SumsGrow`). The
property compares it with the total of the exchange's levels as a set, in any order: the volume of
levels that are all different is the number of their units (`VolumeCounts`), whatever the order, and
`SetToSeq` lists a set without repetition (`ListedOnce`). `CostAtMost` and `CostAtLeast` keep the cost
between the volume at the first price and that at the last. That no level takes more than it should
needs that no size told is larger than the exchange's largest (`SizesIn`).

`OrdersProofs`, for any callers, symbols, arguments, orders, requests and sends: the types,
`OncePlaced`, `OnAskedMarket` (the property `trades_market` finds violated) and `Reached`, for ids that
are whole. `OncePlaced` holds always: requests under way and orders carry the call they are of (ghost
`by`), and the exchange refuses a client id that is open. The other two assume `Undisturbed`: there is
one caller, or nobody gives a market argument; `trades_market` shows that it cannot be left out. Under
it `MarketKept` says what `e.MarketType` is at each step of GetArgsMarket, `OfCall` that a request
belongs to its call, `Numbered` that no two orders of a space have one number, so that one id names one
order, and `Aimed` that a request has an id its caller was told, also when it arrives after it was given
up. A whole id has the prefix if the order is conditional; the others come from CancelOrder of binance,
and TLC finds `Reached` violated as soon as they are counted in.

An order is what its caller asked for (`AsAsked`) if the arguments say one thing (`Sensibly`: a price,
trigger, takeProfitPrice or callback is given exactly with the types that use it, an order that shall
not take is a limit_maker, and amounts are whole contracts), which the assumption `AsksSensible` of
`MCTrades` checks of its instance; of others, an adapter drops some, as the observations below list.
`Meets` is what each adapter's order has of the arguments, shown for each of them by the kinds of orders
it places, and `ToldApart` what the caller is shown. `Due` joins them to the amount, which an edit
replaces along with what was asked.

Of the histories: `Complete`, for any rows, page sizes and bounds, and for `Trades` as a whole; it
promises all rows of the calls without limit that are not `Curtailed`, and of every call that its rows
are in range. `HistInv` says of a read under way what `Complete` says of its end. `ByCursor` (bybit,
okx's bills), `ByOlder` and `ByLater` (the rates of okx and binance) and `ByWindow` (binance's orders)
have what is owed in the result as far as the call has come, and nothing of it beyond, so that no row is
taken twice; `WindowSound` has each window begin where the last one ended. A row that is added while the
call reads has the highest id and is not owed, and earlier rows keep theirs (`ArriveStep`). What a page
holds is in lemmas `NewestAre` and `OldestAre`; that the least and the greatest row of a page exist, and
that rows in order one by one are in order all together, are cases of the principle that a set of
numbers has a least one, which takes the place of induction.

`CachesProofs` is about the three parts of `Caches`. Leverage, for any accounts, symbols, callers,
changes and calls: the types, `LeverageInForce` and `ConfigShown`. What a message or an answer says was
true at some change (`SaidTrue`, `SoundCalls`), and the newest value is held or its message is still to
come (`NewestComes`); a value stored over a newer one is in `crossed`.

`TierServed` takes `InSteps`: the tiers of a symbol are finitely many, each begins at 0, where another
ends or one above, and higher ones have no lower rate, as exchanges list them. Sorted by the lower
or by the upper bound they are then the same ladder (`RowsLadder`), an element standing behind as many as
are below it (`Ranked`); the loop of a lookup ends at the tier of the value (`FoundTier`); and what
CalcMaintMargin takes off is at most the tier's rate times its floor, because the rows below do not
overlap (`SumBound`; that the community modules' sum over a finite set is defined at all is
`SumsExist`, by least counterexample). A call then carries what it read to its answer
(`RightAnswers`), whatever else is loaded or stored meanwhile.

Holdings, for any instruments, currencies, sizes, events and fetches on binance, okx and bybit: the
types and `HoldingsTrue`. Messages say a state or, for a balance of binance, a difference, so `ToldTrue`
is about the whole queue: the last message of a key tells what the exchange has, and the differences of
a key form a chain from what the last message before them left (ghost `was`). `HeldTrue` carries what is
held along that chain, `AnswerTrue` compares an answer with what was told when it was asked (ghosts
`old` and `lost`), and `HandTrue` is about binance's handler between its read and its write.

The markets (`MarketLoader`), for any objects, codes, callers, goroutines and calls, with
FetchCurrencies or without: `CurrenciesOfMarkets` and `LoneLoadServed`. The first needs that
`marketsLock` is held exactly by who fetches or stores (`LockHeld`), that the cache has two halves of
one fetch but for the moment between them (`CacheWhole`), that what a goroutine is about to set is of
one fetch (`LoadWhole`), and that one goroutine sets an object at a time (`SetOnce`), unless two have
met (`mixed`). The second needs that a channel belongs to the object it was made for (`ChannelsTied`),
that MarketsWait is set only while somebody is going to forget it (`WaitForgotten`), that a call that
hangs hangs for good, and, for a call nobody overlaps, the whole history of its channel (`LoneCalls`):
none is there when it looks, and from the one it makes to the answer some goroutine has it in hand or
will find it.

`ApiRequestProofs`, for any requests, hosts, keys, retries and waits: `OwnAnswer`; and
without `onHost`, `BanRespected` and `SlotsGivenBack`. `OwnAnswer` needs that a file, whole
or cut, is of its key (`FilesTrue`), and that a call writes only under the key of its question
(`KeysTrue`). `SlotsGivenBack` needs the types of what a call remembers, that whoever is past
GetHostFlowChan knows its host (`HostFound`), and counts with the cardinality of the calls
that hold a slot of a host (`SlotsCounted`). With `onHost`, a call may send to another
host than the one whose slot it has, and both properties fail; `OneHost` is where the proof uses that
there is one. `BanRespected` needs `BanKept`: who got a slot after the ban was set sleeps as
long as the ban lasts.

Every safety invariant and action property that a passing run checks is thus proved, some under the
three assumptions named above. What stays with TLC is liveness, which the prover cannot treat (nor
ENABLED): `CallsReturnUnlessJammed`, `ReconnectReturns`, `WriterFollowsReader`, `DogReturns`, `Healed`,
`Recovers` and `Ends`. The library's induction theorems take an operator as a parameter, which the
provers cannot instantiate: where a fold or a running sum had to be followed over all inputs, the proofs
go by the least counterexample instead. No module uses RECURSIVE.

## Findings

* A writer that meets a lost connection first ends for good (`wsconn_loss`), and the
  connection its reader then dials has nobody to send the subscriptions `readme.md:13`
  promises to resume.
* GetArgsMarket lets a market argument replace `e.MarketType` and looks the symbol up, with no
  lock (`trades_market`): an order of another goroutine with a plain symbol goes to the
  other market. `biz.go:1478` says that the market is that of the symbol and the arguments.

### Observed

What follows is what the models, and the reading for them, show of the code where no
statement of the repository says otherwise, or where an instance excludes it by a named condition.

Connections and logins:

* A silent connection: the watchdog's ReConnect waits for `ws.lock`, which the reader holds
  while it waits for a message (`websocket.go:73`, `:142`), so it does not return before a message
  comes or the connection fails, though `binance/biz.go:1306` says that a timeout reconnects.
  `DogReturns` has this as its second disjunct, and `Healed` as its first: the one watchdog then serves no other
  connection either.
* If `send` is full while the reader reconnects, onReConnect waits for room and the writer for
  `ws.lock`, which the reader holds, for ever (`websocket.go:180`, `Jammed`; `send` has 10 places); the
  watchdog and every other call of that connection wait with them.
* A half-open connection on which only a minority of the keys times out is written to but never
  replaced (`Tolerated`). UnWatch tells the exchange nothing on okx, bitget and binance: UpdateSubs
  returns no connection for it (`websocket.go:753`), and the call returns its error before
  it drops its references.
* A first value of WatchBalance that refills a channel between the pop and the push of
  WriteOutChan keeps `lockOutChan` locked, as a drained one does (`CallsReturnUnlessJammed`).
* The caller that logged in takes the answer and does not put it back, so those that wait
  behind it time out (`okx/ws_biz.go:738`); okx's delayed delete removes the channel of a later login, whose
  caller then times out (`cut`); a caller sets WsAuthed from an answer of a connection that
  is gone, and bybit keeps it over a reconnection without keys (`stale`).

Streams (`Unfed`, `StaleAuth` and `loose` name these):

* okx: the key of `positions` with instType ANY is read back as an instrument
  (`okx/ws_biz.go:1574`), so these positions do not come after a reconnection; the business client restores
  `orders-algo` without a login; `WsMyTradesChanKey` is one per exchange, so algo orders of all
  accounts go to the last caller's channel; UnWatchOrderBooks always names `books`, never
  `books5`; WatchAccountConfig alone never yields, its data come with positions;
  books5 snapshots are treated as updates.
* bybit: the trades of options come per base coin, so one UnWatch ends those of all its options.
* bitget: a reconnection of contracts logs in even for public data and without API keys ends the
  connection; what is given up during that login comes back with it.
* binance: UnWatchOrderBooks takes the limit of one symbol for all; two time frames of a
  symbol share one time stamp.

Order books:

* Two appends to binance's cache may race and start a second refresh, whose older snapshot then
  moves the book back until the next event resets it (`overlapped`).
* The books of okx and bitget are cut to the levels of their snapshot: what a side that has
  outgrown it loses never returns (`over`). AvgPrice reads the slices of a side without its
  lock (`common.go:243`).

Requests and markets:

* The market cache serves only what is older than its expiry (`biz.go:461`;
  `docs/contribute.md:101` means the opposite). Of two LoadMarkets of one object at once, one
  is answered and the other waits for ever (`biz.go:510`; `docs/contribute.md:102` says they share one load);
  `LoneLoadServed` is about calls that are alone.
* Without FetchCurrencies (okx, bybit, bitget) the cache never hits, having no currencies
  (`biz.go:473`), and an object keeps the currencies of markets that are gone. The quote of a market
  gives a currency only where it is empty (`biz.go:391`), so one with an empty code.
* Cached answers are found by endpoint and parameters, whatever the host and the account; with
  `onHost` a call may take the slot of one host and send to another (`biz.go:1184`,
  `biz.go:1364`); a later and shorter Retry-After replaces a longer one (`BanRespected` is about
  the recorded wait).

Orders:

* CreateOrder is retried once on okx and bybit and three times on binance (the comment at
  `biz.go:1571` says 0). okx and bybit send no client id of their own, so a lost answer
  places the order twice; with one, the retry answers that it is a duplicate and the order is not
  reported; a market order whose answer was lost is executed again on any exchange, as
  its id is free once it is filled (`OncePlaced` is about open orders).
* okx: a take profit with only a triggerPrice becomes a stop loss; a plain limit order with a
  stopLossPrice a conditional one; stop_market with a price is executed as a limit order and stop
  without one at the market's price; algo orders drop postOnly and timeInForce; FetchOpenOrders of algo
  orders passes over a group that fails.
* binance: postOnly of a contract's limit order is dropped, as is one of two triggers; a spot stop with
  postOnly is placed as a plain maker order; cancelAlgoOrder gives the id without its prefix
  (`binance/biz_order_algo.go:143`), by which a later fetch or cancel reaches the regular order of that
  number, or none (`Reached` is about whole ids). EditOrder of okx and binance does not know the prefix
  at all.
* bybit: a stop order of a contract without a trigger is placed at once as a plain one; the trigger's direction
  compares the side before it is lowercased; take profits are shown as stops; a trailing stop gives no id.
* Two overlapping calls with market arguments can leave `e.MarketType` changed.

Histories: bybit counts a row on the bound of two windows twice against the limit, so a row may be
missing; FetchOrders of binance has no second page in a window and has rows on a bound twice, and by
windows with since and no until it sends an endTime of 0 and returns after one request
(`binance/biz_order.go:122`, `Curtailed`); its funding rates without since and until are one page of the
newest, and without since but with until end at the page that is answered first (`binance/biz.go:1181`,
`Curtailed`); without a symbol, two first rows of one time give an interval of 0, so that the next page
begins with rows already read; they assume a fixed interval, skip rows where it is shorter, and index a
page of one row out of range; the limit of okx's funding rates is a page size. `Complete` names what it
excludes.

Leverage: GetLeverage of okx fetches without the account's name and stores the default
account's leverage under it (`borrowed`); an answer stored before its message keeps the change from
WatchAccountConfig on okx and bybit (`hidden`); an older answer may be stored over a newer
message (`crossed`); the tiers of okx are kept by family, futures and swaps
together; GetLeverage of binance looks at the first tier only; the amount CalcMaintMargin of okx
and bybit takes off lets the margin fall at the bound of a tier (`TierServed` bounds it);
InitLeverageBrackets of binance keeps LoadLeverageBrackets from loading.

Balances and positions: binance's handlers read under the lock and write later, so an answer stored
between is overwritten; a difference may be added to an answer that has it; the free amount of a
contract account becomes the whole wallet; in one-way mode the answer says long or short where messages
say both, so a position is held twice; short positions of messages keep their sign. On okx and bybit a
message replaces all that is held, and a closed position never leaves; okx takes the whole amount for
the free one when that is 0. `HoldingsTrue` is about what the last message told of.

## What is left

1. The renewal of binance's listenKey (`binance/ws_biz.go:140`): one renewal at a time, and no stream
   on an expired key; with it, several connections of a client in `Streams`.
2. Dump and replay (`biz.go:896`): what is replayed is what was recorded, in order, over a close and a flush.
3. MergeMyTrades: a fill is counted once. The calls on several orders, option and inverse markets in `Orders`.
4. `WsConn` and `WsSubs` composed by an abstract connection that both use, in place of the lock and the
   goroutines that `WsSubs` has of its own.

## Not modelled

Parsing and signing of requests, JSON, formatting of numbers, the log and error packages
and the tables of Chinese futures have no state that goroutines share and no order of
steps to get wrong; the adapters' field mapping is data the properties do not tell
apart. Candles, tickers and trades are read in one request each. Dump and replay, which record
and repeat a session for debugging, and the renewal of the listenKey are not modelled yet;
their hazards are listed. `PROJECT.json` lists every component with its files.
