------------------------------ MODULE MarketLoader ------------------------------
(***************************************************************************)
(* Loading the markets of exchange objects (biz.go).                       *)
(*                                                                         *)
(* Several Exchange objects of one name share a package-level cache:       *)
(* exgMarketTS, exgCacheCurrs, exgCacheMarkets and exgCareMarkets, under   *)
(* marketsLock.  LoadMarkets starts a goroutine, doLoadMarkets, and waits  *)
(* for its one answer on the unbuffered channel e.MarketsWait.  The field  *)
(* MarketsWait is read and written without a lock, so each of its uses is  *)
(* a step of its own; the channel a LoadMarkets makes is named after the   *)
(* goroutine it starts.                                                    *)
(***************************************************************************)
EXTENDS Integers, FiniteSets

CONSTANTS
  Exgs,          \* Exchange objects, all of one name
  Callers,       \* goroutines that call LoadMarkets
  Loaders,       \* doLoadMarkets goroutines, in order: bounds the number of loads
  Types,         \* market types: spot, linear, ...
  CareMarkets,   \* e.CareMarkets, the types each object asks for
  Codes,         \* codes of currencies
  Brings,        \* the codes the fetch of each goroutine brings: those that
                 \* FetchCurrencies lists, or else the base codes of the markets
  ExpireMins,    \* exgMarketExpireMins
  MaxMins,       \* bound on the clock
  MaxCalls,      \* bound on the calls of LoadMarkets and Close together
  None

ASSUME CareAssumption == CareMarkets \in [Exgs -> SUBSET Types]
ASSUME BringAssumption == Brings \in [Loaders -> SUBSET Codes]
ASSUME BoundAssumption ==
  /\ Loaders \subseteq Nat /\ None \notin Loaders /\ None \notin Exgs
  /\ ExpireMins \in Nat \ {0} /\ MaxMins \in Nat
  /\ MaxCalls \in Nat

VARIABLES
  currApi,       \* HasApi(ApiFetchCurrencies): false on okx, bybit and bitget
  now,           \* minutes
  cacheTS,       \* exgMarketTS[name], None while there is none
  cacheCurrs,    \* exgCacheCurrs[name]: the fetch it came from, None while it is nil
  cacheMarkets,  \* exgCacheMarkets[name]: the fetch it came from
  cacheCares,    \* exgCareMarkets[name]
  locked,        \* the goroutine that holds marketsLock for writing
  markets,       \* e.Markets: the fetch it came from
  currencies,    \* e.CurrenciesByCode: the fetch each code came from, named after its
                 \* goroutine, None where there is no such code
  wait,          \* e.MarketsWait
  closed,        \* channels that are closed
  caller,        \* position of each caller in LoadMarkets
  loader,        \* position of each goroutine in doLoadMarkets
  crashed,       \* a send on a closed channel ended the program
  calls,         \* counter behind the bound
  mixed,         \* ghost: two loads of the object interleaved in setMarkets
  alone          \* ghost: no other call touched MarketsWait during the call

cacheVars == <<currApi, cacheTS, cacheCurrs, cacheMarkets, cacheCares, locked>>
exgVars == <<markets, currencies, mixed>>
vars == <<now, cacheVars, exgVars, wait, closed, caller, loader, crashed,
          calls, alone>>

Idle == [pc |-> "idle", exg |-> None, ch |-> None]
Free == [pc |-> "free", exg |-> None, ch |-> None, mk |-> None, cur |-> None]

Init ==
  /\ currApi \in BOOLEAN /\ now = 0
  /\ cacheTS = None /\ cacheCurrs = None /\ cacheMarkets = None
  /\ cacheCares = {} /\ locked = None
  /\ markets = [e \in Exgs |-> None]
  /\ currencies = [e \in Exgs |-> [c \in Codes |-> None]]
  /\ wait = [e \in Exgs |-> None] /\ closed = {}
  /\ caller = [c \in Callers |-> Idle] /\ loader = [l \in Loaders |-> Free]
  /\ crashed = FALSE /\ calls = 0
  /\ mixed = [e \in Exgs |-> FALSE] /\ alone = [c \in Callers |-> TRUE]

-----------------------------------------------------------------------------
(* LoadMarkets *)

\* A receive that nobody is going to answer: the channel is nil, or it is no
\* longer e.MarketsWait and no goroutine has it in hand.
Hung(c) ==
  /\ caller[c].pc = "recv"
  /\ \/ caller[c].ch = None
     \/ /\ caller[c].ch # wait[caller[c].exg]
        /\ caller[c].ch \notin closed
        /\ \A l \in Loaders : ~(loader[l].pc = "send" /\ loader[l].ch = caller[c].ch)

Others(c, e) == {d \in Callers \ {c} : caller[d].exg = e /\ ~Hung(d)}

\* A panic stops every goroutine.
At(c, pc) == ~crashed /\ caller[c].pc = pc
Go(c, pc) == caller' = [caller EXCEPT ![c].pc = pc]

\* A caller finds no markets, or wants them again (reload).
Begin(c, e, reload) ==
  /\ At(c, "idle") /\ calls < MaxCalls
  /\ reload \/ markets[e] = None
  /\ calls' = calls + 1
  /\ caller' = [caller EXCEPT ![c] = [pc |-> "check", exg |-> e, ch |-> None]]
  /\ alone' = [d \in Callers |->
                 IF d = c THEN Others(c, e) = {}
                 ELSE alone[d] /\ ~(caller[d].exg = e /\ ~Hung(d))]
  /\ UNCHANGED <<now, cacheVars, exgVars, wait, closed, loader, crashed>>

\* if e.MarketsWait == nil
CheckWait(c) ==
  /\ At(c, "check")
  /\ Go(c, IF wait[caller[c].exg] = None THEN "make" ELSE "eval")
  /\ UNCHANGED <<now, cacheVars, exgVars, wait, closed, loader, crashed, calls, alone>>

\* Make the channel and start doLoadMarkets.
Make(c) ==
  LET e == caller[c].exg IN
  /\ At(c, "make")
  /\ \E l \in Loaders :
       /\ loader[l].pc = "free" /\ \A k \in Loaders : k < l => loader[k].pc # "free"
       /\ wait' = [wait EXCEPT ![e] = l]
       /\ loader' = [loader EXCEPT ![l] = [Free EXCEPT !.pc = "cache", !.exg = e]]
  /\ Go(c, "eval")
  /\ UNCHANGED <<now, cacheVars, exgVars, closed, crashed, calls, alone>>

\* The operand of <-e.MarketsWait.
EvalWait(c) ==
  /\ At(c, "eval")
  /\ caller' = [caller EXCEPT ![c].pc = "recv", ![c].ch = wait[caller[c].exg]]
  /\ UNCHANGED <<now, cacheVars, exgVars, wait, closed, loader, crashed, calls, alone>>

\* The one answer of a goroutine meets one receiver.
Deliver(c, l) ==
  /\ At(c, "recv") /\ loader[l].pc = "send"
  /\ caller[c].ch = loader[l].ch /\ caller[c].ch # None
  /\ Go(c, "clear")
  /\ loader' = [loader EXCEPT ![l].pc = "done"]
  /\ UNCHANGED <<now, cacheVars, exgVars, wait, closed, crashed, calls, alone>>

\* A closed channel answers nil: LoadMarkets returns an error.
ReceiveClosed(c) ==
  /\ At(c, "recv") /\ caller[c].ch \in closed
  /\ Go(c, "clear")
  /\ UNCHANGED <<now, cacheVars, exgVars, wait, closed, loader, crashed, calls, alone>>

\* e.MarketsWait = nil, and return.
Clear(c) ==
  /\ At(c, "clear")
  /\ wait' = [wait EXCEPT ![caller[c].exg] = None]
  /\ caller' = [caller EXCEPT ![c] = Idle]
  /\ UNCHANGED <<now, cacheVars, exgVars, closed, loader, crashed, calls, alone>>

-----------------------------------------------------------------------------
(* doLoadMarkets *)

\* getAllCareMarkets: what this object asks for and what the cache was asked for.
AllCares(e) == CareMarkets[e] \cup cacheCares

\* The conditions of getMarketsCache, as the code has them: it serves what is
\* at least exgMarketExpireMins old, and nothing where FetchCurrencies is not
\* supported, for then there are no currencies to serve.
CacheHit(e) ==
  /\ cacheTS # None /\ now - cacheTS >= ExpireMins
  /\ Cardinality(CareMarkets[e]) >= Cardinality(AllCares(e))
  /\ cacheMarkets # None /\ cacheCurrs # None /\ Brings[cacheCurrs] # {}

On(l, pc) == ~crashed /\ loader[l].pc = pc
To(l, pc) == loader' = [loader EXCEPT ![l].pc = pc]
FromCache(l) ==
  loader' = [loader EXCEPT ![l].pc = "set", ![l].mk = cacheMarkets, ![l].cur = cacheCurrs]

\* getMarketsCache(true), under the read lock.
LookInCache(l) ==
  /\ On(l, "cache") /\ locked = None
  /\ IF CacheHit(loader[l].exg) THEN FromCache(l) ELSE To(l, "lock")
  /\ UNCHANGED <<now, cacheVars, exgVars, wait, closed, caller, crashed, calls, alone>>

\* fetchMarketsCurrs takes the lock and looks again, if somebody has just
\* filled the cache.
LockCache(l) ==
  /\ On(l, "lock") /\ locked = None
  /\ IF cacheTS = now /\ CacheHit(loader[l].exg)
     THEN FromCache(l) /\ locked' = None
     ELSE To(l, "fetch") /\ locked' = l
  /\ UNCHANGED <<currApi, now, cacheTS, cacheCurrs, cacheMarkets, cacheCares, exgVars, wait, closed,
                 caller, crashed, calls, alone>>

\* The requests succeeded, FetchMarkets and where it is supported FetchCurrencies:
\* the time and the currencies go into the cache ...
FetchOk(l) ==
  /\ On(l, "fetch")
  /\ cacheTS' = now /\ cacheCurrs' = IF currApi THEN l ELSE None
  /\ To(l, "store")
  /\ UNCHANGED <<currApi, now, cacheMarkets, cacheCares, locked, exgVars, wait, closed,
                 caller, crashed, calls, alone>>

\* ... then the markets and the types they were fetched for.
Store(l) ==
  /\ On(l, "store")
  /\ cacheMarkets' = l /\ cacheCares' = AllCares(loader[l].exg)
  /\ locked' = None
  /\ loader' = [loader EXCEPT ![l].pc = "set", ![l].mk = l, ![l].cur = cacheCurrs]
  /\ UNCHANGED <<currApi, now, cacheTS, cacheCurrs, exgVars, wait, closed, caller, crashed,
                 calls, alone>>

\* Fault: the goroutine returns the error, and answers nobody.
FetchFailSilent(l) ==
  /\ On(l, "fetch")
  /\ locked' = None
  /\ To(l, "done")
  /\ UNCHANGED <<currApi, now, cacheTS, cacheCurrs, cacheMarkets, cacheCares, exgVars, wait, closed,
                 caller, crashed, calls, alone>>

\* One of the requests failed: the error is the answer.
FetchFail(l) ==
  /\ On(l, "fetch")
  /\ locked' = None
  /\ To(l, "eval")
  /\ UNCHANGED <<currApi, now, cacheTS, cacheCurrs, cacheMarkets, cacheCares, exgVars, wait, closed,
                 caller, crashed, calls, alone>>

SetMarkets(l) ==
  LET e == loader[l].exg IN
  /\ On(l, "set")
  /\ markets' = [markets EXCEPT ![e] = loader[l].mk]
  /\ mixed' = [mixed EXCEPT ![e] =
                 @ \/ \E k \in Loaders : loader[k].pc = "curr" /\ loader[k].exg = e]
  /\ To(l, "curr")
  /\ UNCHANGED <<now, cacheVars, currencies, wait, closed, caller, crashed,
                 calls, alone>>

\* setCurrencies has what FetchCurrencies lists ...
Listed(l) == [c \in Codes |-> IF c \in Brings[loader[l].cur] THEN loader[l].cur ELSE None]

\* ... or derives currencies from the markets and writes them over those the object
\* has, which stay where no market has their code.
Derived(l) ==
  [c \in Codes |-> IF c \in Brings[loader[l].mk] THEN loader[l].mk
                   ELSE currencies[loader[l].exg][c]]

\* Fault: a currency the object already has is not written over.
SetNewOnly(l) ==
  LET e == loader[l].exg IN
  /\ On(l, "curr")
  /\ currencies' = [currencies EXCEPT ![e] =
                      IF loader[l].cur # None THEN Listed(l)
                      ELSE [c \in Codes |-> IF @[c] # None THEN @[c] ELSE Derived(l)[c]]]
  /\ To(l, "eval")
  /\ UNCHANGED <<now, cacheVars, markets, mixed, wait, closed, caller, crashed,
                 calls, alone>>

SetCurrencies(l) ==
  /\ On(l, "curr")
  /\ currencies' = [currencies EXCEPT ![loader[l].exg] =
                      IF loader[l].cur # None THEN Listed(l) ELSE Derived(l)]
  /\ To(l, "eval")
  /\ UNCHANGED <<now, cacheVars, markets, mixed, wait, closed, caller, crashed,
                 calls, alone>>

\* The channel of e.MarketsWait <- answer: a nil one blocks forever.
EvalSend(l) ==
  LET ch == wait[loader[l].exg] IN
  /\ On(l, "eval")
  /\ loader' = [loader EXCEPT ![l].pc = "send", ![l].ch = ch]
  /\ UNCHANGED <<now, cacheVars, exgVars, wait, closed, caller, crashed, calls, alone>>

-----------------------------------------------------------------------------
(* Exchange.Close on MarketsWait *)

\* Close closes the channel, whoever waits on it, and forgets it.  A goroutine
\* that already offers its answer on it panics.
CloseWait(e) ==
  /\ ~crashed /\ wait[e] # None /\ calls < MaxCalls
  /\ calls' = calls + 1
  /\ closed' = closed \cup {wait[e]}
  /\ wait' = [wait EXCEPT ![e] = None]
  /\ crashed' = \E l \in Loaders : On(l, "send") /\ loader[l].ch = wait[e]
  /\ alone' = [c \in Callers |-> alone[c] /\ caller[c].exg # e]
  /\ UNCHANGED <<now, cacheVars, exgVars, caller, loader>>

Tick ==
  /\ ~crashed /\ now < MaxMins /\ now' = now + 1
  /\ UNCHANGED <<cacheVars, exgVars, wait, closed, caller, loader, crashed,
                 calls, alone>>

-----------------------------------------------------------------------------

CallerStep(c) ==
  \/ CheckWait(c) \/ Make(c) \/ EvalWait(c) \/ ReceiveClosed(c) \/ Clear(c)
  \/ \E l \in Loaders : Deliver(c, l)

LoaderStep(l) ==
  \/ LookInCache(l) \/ LockCache(l) \/ FetchOk(l) \/ Store(l) \/ FetchFail(l)
  \/ SetMarkets(l) \/ SetCurrencies(l) \/ EvalSend(l)

Next ==
  \/ \E c \in Callers : CallerStep(c)
  \/ \E c \in Callers, e \in Exgs, reload \in BOOLEAN : Begin(c, e, reload)
  \/ \E l \in Loaders : LoaderStep(l)
  \/ \E e \in Exgs : CloseWait(e)
  \/ Tick

Spec == Init /\ [][Next]_vars

-----------------------------------------------------------------------------

\* The codes the fetch of e's markets brought are of that fetch; and where the
\* exchange lists its currencies, there are no others.  Elsewhere the currencies of
\* earlier fetches stay beside them.
OfOneFetch(e) ==
  markets[e] # None => \A c \in Codes :
    /\ c \in Brings[markets[e]] => currencies[e][c] = markets[e]
    /\ currApi => currencies[e][c] \in {None, markets[e]}

\* Once a load is through, an object offers for every code its markets were fetched
\* with the currency of the same fetch, whether it fetched them or found them in the
\* cache that other objects fill, and where FetchCurrencies is supported no currency
\* of another fetch; unless two loads of the object interleaved between setMarkets
\* and setCurrencies, which no lock prevents.
CurrenciesOfMarkets ==
  \A e \in Exgs :
    ~mixed[e] /\ (\A l \in Loaders : loader[l].exg = e => loader[l].pc # "curr")
      => OfOneFetch(e)

\* A LoadMarkets that no other call of the same object and no Close overlaps
\* is going to be answered, whatever the fetch does, and even after overlapping
\* loads have left goroutines behind: some goroutine has its channel in hand, or
\* will find it in MarketsWait, and marketsLock, the only thing that goroutine
\* waits for, is held by nobody who is done with it.
LoneLoadServed ==
  /\ \A c \in Callers : At(c, "recv") /\ alone[c] =>
       \E l \in Loaders :
         \/ On(l, "send") /\ loader[l].ch = caller[c].ch
         \/ /\ loader[l].exg = caller[c].exg
            /\ loader[l].pc \notin {"send", "done"}
            /\ caller[c].ch = wait[caller[c].exg] /\ caller[c].ch # None
  /\ locked # None => loader[locked].pc \in {"fetch", "store"}
=============================================================================
