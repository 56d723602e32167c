----------------------------- MODULE OrderBookSync -----------------------------
(***************************************************************************)
(* One local order book of binance, kept by the read goroutine             *)
(* (handleOrderBook) and by the goroutines that fetch a snapshot by REST   *)
(* (refresh, applyOdBookSnapshot): binance/ws_order.go.                    *)
(*                                                                         *)
(* The exchange numbers the changes of its book.  Change x is to asks when *)
(* x is even and to bids when it is odd, and carries an absolute quantity, *)
(* so a side is the number of the last change applied to it, and the side  *)
(* of the exchange at change n is SideAt(n, s).  An event covers the       *)
(* changes U..u after the event that ended with pu.                        *)
(*                                                                         *)
(* OdBookLock protects the lookup of a message's book and all of           *)
(* applyOdBookSnapshot, but nothing of what handleOrderBook does to the    *)
(* book: its reads and writes are steps of their own.                      *)
(***************************************************************************)
EXTENDS Integers, Sequences, FiniteSetsExt

CONSTANTS
  Refreshers,   \* refresh goroutines: bounds how many run at once
  MaxId,        \* bound on the changes of the exchange's book
  MaxEvent,     \* bound on the changes in one event
  MaxLost,      \* bound on the events lost while the stream is down
  MaxFails,     \* bound on the snapshot requests that fail
  None

ASSUME BoundAssumption ==
  /\ MaxId \in Nat /\ MaxEvent \in Nat \ {0} /\ MaxLost \in Nat /\ MaxFails \in Nat
  /\ None \notin Refreshers

VARIABLES
  contract,     \* the market: contract or spot
  sid,          \* last change of the exchange's book
  events,       \* events the exchange has sent, each the number of its last change
  pos,          \* events delivered or lost
  lost, fails,  \* counters behind the bounds
  Nonce, Cache, \* of the OrderBook
  side,         \* its two sides
  lock,         \* the refresh goroutine that holds OdBookLock
  loop,         \* position of handleOrderBook
  ref,          \* position of each refresh goroutine
  failed,       \* ghost: a snapshot request failed since the last reset
  overlapped    \* ghost: a snapshot met a message in hand, since the last clean reset

bookVars == <<Nonce, Cache, side>>
exchangeVars == <<contract, sid, events, pos, lost>>
vars == <<exchangeVars, fails, bookVars, lock, loop, ref, failed, overlapped>>

Sides == {0, 1}          \* asks, bids

\* The last change to side s among lo..hi, or older.
LastIn(lo, hi, s, older) ==
  LET xs == {x \in lo..hi : x % 2 = s} IN IF xs = {} THEN older ELSE Max(xs)
SideAt(n, s) == LastIn(1, n, s, 0)

\* Event i of the stream.
u(i) == events[i]
pu(i) == IF i = 1 THEN 1 ELSE events[i - 1]
U(i) == pu(i) + 1

IdleLoop == [pc |-> "idle", ev |-> 0, cache |-> <<>>, reset |-> FALSE]
Free == [pc |-> "free", snap |-> 0, cache |-> <<>>]

Init ==
  /\ contract \in BOOLEAN
  /\ sid = 1 /\ events = <<>> /\ pos = 0 /\ lost = 0 /\ fails = 0
  /\ Nonce = 0 /\ Cache = <<>> /\ side = [s \in Sides |-> 0]
  /\ lock = None /\ loop = IdleLoop /\ ref = [r \in Refreshers |-> Free]
  /\ failed = FALSE /\ overlapped = FALSE

-----------------------------------------------------------------------------
(* The exchange and the stream *)

Emit ==
  /\ \E n \in 1..MaxEvent :
       /\ sid + n <= MaxId
       /\ sid' = sid + n /\ events' = Append(events, sid + n)
  /\ UNCHANGED <<contract, pos, lost, fails, bookVars, lock, loop, ref, failed, overlapped>>

Lose ==
  /\ pos < Len(events) /\ lost < MaxLost
  /\ pos' = pos + 1 /\ lost' = lost + 1
  /\ UNCHANGED <<contract, sid, events, fails, bookVars, lock, loop, ref, failed, overlapped>>

-----------------------------------------------------------------------------
(* handleOrderBook *)

\* The next message; its book is looked up under OdBookLock.
Take ==
  /\ loop.pc = "idle" /\ lock = None /\ pos < Len(events)
  /\ pos' = pos + 1
  /\ loop' = [IdleLoop EXCEPT !.pc = "read", !.ev = pos + 1]
  /\ UNCHANGED <<contract, sid, events, lost, fails, bookVars, lock, ref, failed, overlapped>>

\* What an event of the stream is to a book at nonce n.
Stale(i, n) == IF contract THEN u(i) < n ELSE u(i) <= n
\* Fault: an event after a gap joins.
JoinsLater(i, n) == IF contract THEN U(i) <= n \/ pu(i) >= n ELSE u(i) - 1 >= n
Joins(i, n) == IF contract THEN U(i) <= n \/ pu(i) = n
                           ELSE U(i) - 1 <= n /\ u(i) - 1 >= n

\* nonce := book.Nonce, and the case it makes.
ReadNonce ==
  /\ loop.pc = "read"
  /\ loop' = IF Nonce = 0 THEN [loop EXCEPT !.pc = "append"]
             ELSE IF Stale(loop.ev, Nonce) THEN IdleLoop
             ELSE [loop EXCEPT !.pc = IF Joins(loop.ev, Nonce) THEN "asks" ELSE "reset"]
  /\ UNCHANGED <<exchangeVars, fails, bookVars, lock, ref, failed, overlapped>>

\* append(book.Cache, msg) reads the cache ...
AppendCache ==
  /\ loop.pc = "append"
  /\ loop' = [loop EXCEPT !.pc = "store", !.cache = Append(Cache, loop.ev)]
  /\ UNCHANGED <<exchangeVars, fails, bookVars, lock, ref, failed, overlapped>>

\* Fault: only a reset starts a refresh, not the first event of a new book.
StoreCacheResets ==
  /\ loop.pc = "store"
  /\ Cache' = loop.cache
  /\ IF loop.reset
     THEN \E r \in Refreshers :
            ref[r].pc = "free" /\ ref' = [ref EXCEPT ![r] = [Free EXCEPT !.pc = "fetch"]]
     ELSE UNCHANGED ref
  /\ loop' = IdleLoop
  /\ UNCHANGED <<exchangeVars, fails, Nonce, side, lock, failed, overlapped>>

\* ... and book.Cache takes the result; a new cache, or a reset, starts a refresh.
StoreCache ==
  /\ loop.pc = "store"
  /\ Cache' = loop.cache
  /\ IF loop.reset \/ Len(loop.cache) = 1
     THEN \E r \in Refreshers :
            ref[r].pc = "free" /\ ref' = [ref EXCEPT ![r] = [Free EXCEPT !.pc = "fetch"]]
     ELSE UNCHANGED ref
  /\ loop' = IdleLoop
  /\ UNCHANGED <<exchangeVars, fails, Nonce, side, lock, failed, overlapped>>

\* SetSide: the changes of the event to one side.
SetSide(i, s) == side' = [side EXCEPT ![s] = LastIn(U(i), u(i), s, side[s])]

\* applyDepthMsg: asks, then bids, then the nonce.
ApplyAsks ==
  /\ loop.pc = "asks" /\ SetSide(loop.ev, 0)
  /\ loop' = [loop EXCEPT !.pc = "bids"]
  /\ UNCHANGED <<exchangeVars, fails, Nonce, Cache, lock, ref, failed, overlapped>>

ApplyBids ==
  /\ loop.pc = "bids" /\ SetSide(loop.ev, 1)
  /\ loop' = [loop EXCEPT !.pc = "nonce"]
  /\ UNCHANGED <<exchangeVars, fails, Nonce, Cache, lock, ref, failed, overlapped>>

ApplyNonce ==
  /\ loop.pc = "nonce" /\ Nonce' = u(loop.ev)
  /\ loop' = IdleLoop
  /\ UNCHANGED <<exchangeVars, fails, Cache, side, lock, ref, failed, overlapped>>

\* book.Reset, for an event that does not join.
Reset ==
  /\ loop.pc = "reset"
  /\ Nonce' = 0 /\ Cache' = <<>> /\ side' = [s \in Sides |-> 0]
  /\ loop' = [loop EXCEPT !.pc = "append", !.reset = TRUE]
  /\ failed' = FALSE
  /\ overlapped' = (overlapped /\ \E r \in Refreshers : ref[r].pc # "free")
  /\ UNCHANGED <<exchangeVars, fails, lock, ref>>

-----------------------------------------------------------------------------
(* refresh: fetchOrderBookSnapshot and applyOdBookSnapshot *)

RefGo(r, pc) == ref' = [ref EXCEPT ![r].pc = pc]

FetchOk(r) ==
  /\ ref[r].pc = "fetch"
  /\ ref' = [ref EXCEPT ![r].pc = "lock", ![r].snap = sid]
  /\ UNCHANGED <<exchangeVars, fails, bookVars, lock, loop, failed, overlapped>>

\* The request fails: the channel is given up and UnWatchOrderBooks called; the
\* book stays as it is.
FetchFail(r) ==
  /\ ref[r].pc = "fetch" /\ fails < MaxFails
  /\ fails' = fails + 1
  /\ failed' = TRUE
  /\ ref' = [ref EXCEPT ![r] = Free]
  /\ UNCHANGED <<exchangeVars, bookVars, lock, loop, overlapped>>

\* Fault: the cache is read after Update has cleared it.
LockBookLate(r) ==
  /\ ref[r].pc = "lock" /\ lock = None
  /\ lock' = r
  /\ ref' = [ref EXCEPT ![r].pc = "head", ![r].cache = <<>>]
  /\ overlapped' = (overlapped \/ loop.pc # "idle")
  /\ UNCHANGED <<exchangeVars, fails, bookVars, loop, failed>>

\* OdBookLock, and cache := oldBook.Cache.
LockBook(r) ==
  /\ ref[r].pc = "lock" /\ lock = None
  /\ lock' = r
  /\ ref' = [ref EXCEPT ![r].pc = "head", ![r].cache = Cache]
  /\ overlapped' = (overlapped \/ loop.pc # "idle")
  /\ UNCHANGED <<exchangeVars, fails, bookVars, loop, failed>>

\* OrderBook.Update: nonce and cache first, the sides under their locks.
UpdateHead(r) ==
  /\ ref[r].pc = "head"
  /\ Nonce' = ref[r].snap /\ Cache' = <<>>
  /\ RefGo(r, "sides")
  /\ UNCHANGED <<exchangeVars, fails, side, lock, loop, failed, overlapped>>

UpdateSides(r) ==
  /\ ref[r].pc = "sides"
  /\ side' = [s \in Sides |-> SideAt(ref[r].snap, s)]
  /\ RefGo(r, "replay")
  /\ UNCHANGED <<exchangeVars, fails, Nonce, Cache, lock, loop, failed, overlapped>>

\* What a cached event is to the snapshot.
CachedJoins(i, n) == IF contract THEN (U(i) <= n /\ u(i) >= n) \/ pu(i) = n
                                 ELSE U(i) - 1 <= n /\ u(i) - 1 >= n

\* The next cached event: applied if it joins, else dropped.
Replay(r) ==
  LET i == Head(ref[r].cache)
      joins == ~Stale(i, Nonce) /\ CachedJoins(i, Nonce)
  IN /\ ref[r].pc = "replay" /\ ref[r].cache # <<>>
     /\ ref' = IF joins THEN [ref EXCEPT ![r].pc = "asks"]
                        ELSE [ref EXCEPT ![r].cache = Tail(@)]
     /\ UNCHANGED <<exchangeVars, fails, bookVars, lock, loop, failed, overlapped>>

ReplayAsks(r) ==
  /\ ref[r].pc = "asks" /\ SetSide(Head(ref[r].cache), 0)
  /\ RefGo(r, "bids")
  /\ UNCHANGED <<exchangeVars, fails, Nonce, Cache, lock, loop, failed, overlapped>>

ReplayBids(r) ==
  /\ ref[r].pc = "bids" /\ SetSide(Head(ref[r].cache), 1)
  /\ RefGo(r, "nonce")
  /\ UNCHANGED <<exchangeVars, fails, Nonce, Cache, lock, loop, failed, overlapped>>

ReplayNonce(r) ==
  /\ ref[r].pc = "nonce" /\ Nonce' = u(Head(ref[r].cache))
  /\ ref' = [ref EXCEPT ![r].pc = "replay", ![r].cache = Tail(@)]
  /\ UNCHANGED <<exchangeVars, fails, Cache, side, lock, loop, failed, overlapped>>

UnlockBook(r) ==
  /\ ref[r].pc = "replay" /\ ref[r].cache = <<>>
  /\ lock' = None
  /\ ref' = [ref EXCEPT ![r] = Free]
  /\ UNCHANGED <<exchangeVars, fails, bookVars, loop, failed, overlapped>>

-----------------------------------------------------------------------------

LoopStep ==
  \/ ReadNonce \/ AppendCache \/ StoreCache
  \/ ApplyAsks \/ ApplyBids \/ ApplyNonce \/ Reset

RefStep(r) ==
  \/ FetchOk(r) \/ LockBook(r) \/ UpdateHead(r) \/ UpdateSides(r)
  \/ Replay(r) \/ ReplayAsks(r) \/ ReplayBids(r) \/ ReplayNonce(r) \/ UnlockBook(r)

Next ==
  \/ Emit \/ Lose \/ Take \/ LoopStep
  \/ \E r \in Refreshers : RefStep(r) \/ FetchFail(r)

Spec == Init /\ [][Next]_vars

-----------------------------------------------------------------------------

\* Nobody is in the middle of changing the book.
Settled == lock = None /\ loop.pc \in {"idle", "read"}

\* Whatever order events, losses, resets and snapshots come in, a book with a
\* nonce is the exchange's book at that nonce: nothing is missing, nothing older
\* overwrites something newer.  The exception is a snapshot applied while a
\* message was in hand, for OdBookLock does not cover handleOrderBook, until the
\* next reset with no refresh left over.
BookMatchesServer ==
  Settled /\ Nonce # 0 /\ ~overlapped => side = [s \in Sides |-> SideAt(Nonce, s)]

\* With nothing in hand and no refresh under way, the book is at least at the
\* last event that was handled: none is dropped that it needed.
CaughtUp ==
  /\ loop.pc = "idle" /\ ~failed /\ ~overlapped /\ pos > 0
  /\ \A r \in Refreshers : ref[r].pc = "free"
  => \/ Nonce >= u(pos)
     \/ lost > 0

\* A book that waits for a snapshot gets one, unless the request failed: no
\* order of resets, late snapshots and cached events leaves it waiting for ever.
Recovers == (Nonce = 0 /\ Cache # <<>>) ~> (Nonce # 0 \/ failed)
=============================================================================
